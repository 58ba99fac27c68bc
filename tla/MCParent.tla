------------------------------ MODULE MCParent ------------------------------
(***************************************************************************)
(* An instance for TLC of the parent process: the program up to the station*)
(* menu and from there to its end (Startup), and the station menu with its *)
(* streams (Fetcher).  Startup has the menu as one step, and Fetcher begins*)
(* with it: one is at work, the other rests.                               *)
(*                                                                         *)
(* There are two hosts, and two options, so that the second one finds the  *)
(* entries of the first; sockets enough for two playlists and two sessions,*)
(* or one playlist with failing URLs, and to run out of them.              *)
(***************************************************************************)
EXTENDS Startup, Fetcher

VARIABLE part

fetcherVars == <<pipes, guiVars, children_done>>
parentVars == <<part, startupVars, fetcherVars>>

(* A part that rests has one of its initial states.                        *)
ParentInit ==
  \/ part = "startup" /\ StartupInit /\ Init
  \/ part = "menu" /\ StartupInit /\ options = <<>> /\ Init

StartsUp(A) == part = "startup" /\ A /\ UNCHANGED <<part, fetcherVars>>
InMenu(A) == part = "menu" /\ A /\ UNCHANGED <<part, startupVars>>

ParentNext == StartsUp(StartupNext) \/ InMenu(Next)

(* The fairness of the part that is at work.                               *)
ParentSpec ==
  /\ ParentInit /\ [][ParentNext]_parentVars
  /\ WF_parentVars(StartsUp(Parent)) /\ WF_parentVars(StartsUp(RtpServerServed))
  /\ WF_parentVars(InMenu(Working /\ UNCHANGED children_done))

=============================================================================
