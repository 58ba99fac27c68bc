--------------------------- MODULE MCRadioStreamer ---------------------------
(***************************************************************************)
(* Instances of RadioStreamer for TLC.                                     *)
(***************************************************************************)
EXTENDS RadioStreamer

=============================================================================
