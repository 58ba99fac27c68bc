---------------------------- MODULE MCTranscoder ----------------------------
(***************************************************************************)
(* An instance of Transcoder for TLC.  A frame is two chunks, so that a    *)
(* partial one can be left.  It makes two or three units of PCM, and a     *)
(* sample takes one to three, as the station's sample rate has it: what one*)
(* station leaves in p may be several samples of the next.                 *)
(***************************************************************************)
EXTENDS Transcoder

=============================================================================
