---------------------------- MODULE MCRtcpControl ----------------------------
(***************************************************************************)
(* An instance of RtcpControl for TLC: one other participant, and two hosts*)
(* that send with its SSRC and with the local one.                         *)
(***************************************************************************)
EXTENDS RtcpControl

CONSTANTS p1, self, a, b

MCFrom == [s \in {p1, self} |-> {a, b}]

=============================================================================
