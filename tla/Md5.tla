-------------------------------- MODULE Md5 --------------------------------
(***************************************************************************)
(* MD5Digest of ccRTP (queue.cpp), the digest the random numbers of a      *)
(* session come from when there is no /dev/urandom, on digests.            *)
(*                                                                         *)
(* The digest is a stream buffer: bytes come one by one through the buffer *)
(* of the stream (sputc, overflow) or by putDigest, and the position is    *)
(* kept twice, in bpos and as the pointer of the stream.  The state is the *)
(* sequence of the blocks it was computed from.  A byte is a number as in  *)
(* Skein, 0 a byte of padding.                                             *)
(***************************************************************************)
EXTENDS Integers, Sequences, SequencesExt

CONSTANTS
  BlockBytes,   \* of a block, 64 in the code
  CountBytes    \* of the length at the end of the message, 8 in the code

PadStart == -1              \* 0x80, the byte behind the message
CountOf(bits) == -2 - bits  \* the length of the message

(* setp: the put area of the stream begins at bpos and ends with buf.      *)
setp(d) == [d EXCEPT !.pptr = d.bpos]

(* MD5Digest and initDigest.                                               *)
initDigest(d) ==
  setp([d EXCEPT !.count = 0, !.state = <<>>, !.bpos = 0, !.updated = TRUE])

NewDigest ==
  initDigest([ count |-> 0, state |-> <<>>, bpos |-> 0, pptr |-> 0,
               updated |-> TRUE, md5 |-> <<>>,
               buf |-> [i \in 1 .. BlockBytes |-> 0] ])

(* A block, cleared behind bpos, goes into the state.                      *)
update(d) ==
  IF d.bpos = 0 THEN d
  ELSE LET block == [i \in 1 .. BlockBytes |->
                       IF i > d.bpos THEN 0 ELSE d.buf[i]]
       IN [d EXCEPT !.buf = block, !.bpos = 0, !.updated = TRUE,
                    !.count = @ + 8 * BlockBytes,
                    !.state = Append(@, block)]

UpdatedIfFull(d) == IF d.bpos >= BlockBytes THEN update(d) ELSE d

Put(d, byte) == [d EXCEPT !.buf[d.bpos + 1] = byte, !.bpos = @ + 1]

putDigest(d, bytes) ==
  setp(FoldLeft(LAMBDA c, byte : UpdatedIfFull(Put(c, byte)),
                UpdatedIfFull([d EXCEPT !.bpos = d.pptr]), bytes))

overflow(d, byte) ==
  setp(Put(UpdatedIfFull([d EXCEPT !.bpos = d.pptr, !.updated = TRUE]), byte))

(* A character put into the stream: only a full buffer calls overflow.     *)
sputc(d, byte) ==
  IF d.pptr < BlockBytes
  THEN [d EXCEPT !.buf[d.pptr + 1] = byte, !.pptr = @ + 1]
  ELSE overflow(d, byte)

(* The padding, the length, and the digest of what is then the state.      *)
commit(d) ==
  LET count == d.count + 8 * d.pptr
      cbuf == <<CountOf(count)>> \o [j \in 1 .. CountBytes - 1 |-> 0]
      i == (count \div 8) % BlockBytes
      len == IF i < BlockBytes - CountBytes THEN BlockBytes - CountBytes - i
             ELSE 2 * BlockBytes - CountBytes - i
      pad == <<PadStart>> \o [j \in 1 .. len - 1 |-> 0]
      whole == putDigest(putDigest([d EXCEPT !.count = count,
                                             !.bpos = d.pptr], pad), cbuf)
  IN IF ~d.updated /\ d.pptr = 0 THEN d
     ELSE initDigest([whole EXCEPT !.md5 = whole.state])

getDigest(d) == commit(d).md5

=============================================================================
