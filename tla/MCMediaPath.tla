----------------------------- MODULE MCMediaPath -----------------------------
(***************************************************************************)
(* An instance of MediaPath for TLC: four packets, two before the sequence *)
(* numbers roll over and two after it, and a network that delivers five.   *)
(***************************************************************************)
EXTENDS MediaPath

=============================================================================
