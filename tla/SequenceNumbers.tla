--------------------------- MODULE SequenceNumbers ---------------------------
(***************************************************************************)
(* The sequence numbers of RTP packets, which are 16 bits wide.            *)
(***************************************************************************)
EXTENDS Integers

CONSTANT SEQNUMMOD   \* sequence numbers are modulo this, 2^16 in the code

Seqs == 0 .. SEQNUMMOD - 1

=============================================================================
