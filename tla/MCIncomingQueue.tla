--------------------------- MODULE MCIncomingQueue ---------------------------
(***************************************************************************)
(* An instance of IncomingQueue for TLC, for the packets a network repeats:*)
(* a remote source and the local one at one address, three links at a time;*)
(* sequence numbers modulo 4, so that they wrap.                           *)
(***************************************************************************)
EXTENDS IncomingQueue

=============================================================================
