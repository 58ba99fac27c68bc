--------------------------- MODULE MCSessionPool ---------------------------
(***************************************************************************)
(* An instance of SessionPool for TLC: two sessions at a time, with sockets*)
(* that follow each other and are in two words of the set.                 *)
(***************************************************************************)
EXTENDS SessionPool

CONSTANTS s1, s2, e1, e2, e3

=============================================================================
