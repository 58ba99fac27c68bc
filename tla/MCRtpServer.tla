----------------------------- MODULE MCRtpServer -----------------------------
(***************************************************************************)
(* An instance of RtpServer for TLC.  The widths are small enough for both *)
(* counters to wrap several times, at different packets.                   *)
(***************************************************************************)
EXTENDS RtpServer

=============================================================================
