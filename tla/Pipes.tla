-------------------------------- MODULE Pipes --------------------------------
(***************************************************************************)
(* The pipes main.c opens between its three processes.  A pipe is the      *)
(* sequence of the units written to it and not yet read, oldest first.     *)
(* Nobody closes the ends it does not use, so every process holds every    *)
(* read and write end: a reader never sees an end of file and a writer     *)
(* never gets SIGPIPE.  Reading an empty pipe and writing a full one       *)
(* block, which the actions express by a guard.                            *)
(***************************************************************************)
EXTENDS Integers, Sequences

Least(a, b) == IF a <= b THEN a ELSE b

(* What a read of n units returns, and what it leaves in the pipe.         *)
Take(pipe, n) == SubSeq(pipe, 1, n)
Drop(pipe, n) == SubSeq(pipe, n + 1, Len(pipe))

(***************************************************************************)
(* One turn of the loop of flush_file: FIONREAD found data, and the read   *)
(* asks for a buffer of it, or for all of it when there is less.  The      *)
(* caller is the only reader, so what FIONREAD found is still there.       *)
(***************************************************************************)
FlushRead(pipe, size) == Drop(pipe, Least(size, Len(pipe)))

=============================================================================
