----------------------------- MODULE SrtpContext -----------------------------
(***************************************************************************)
(* The packet index of an SRTP stream in ccRTP: CryptoContext              *)
(* (CryptoContext.cxx, ccrtp/CryptoContext.h) as operators on a record,    *)
(* and protect and unprotect of a packet (rtppkt.cpp).                     *)
(*                                                                         *)
(* The index of a packet is its sequence number with a roll-over counter   *)
(* that is not on the wire: the sender counts, the receiver guesses.       *)
(* Ciphers and keys are abstracted to what they tell apart: a packet       *)
(* authenticates if the guess is the counter it was protected with.  The   *)
(* replay window is the set of the bits that are one.  Shifts by counts    *)
(* that are out of range are undefined: what comes out is nothing, or what *)
(* a machine that takes the count modulo the width makes of it.            *)
(***************************************************************************)
EXTENDS SequenceNumbers

CONSTANTS
  RocMod,      \* roll-over counters are modulo this, 2^32 in the code
  WindowSize,  \* REPLAY_WINDOW_SIZE, the width of replay_window: 64
  IntBits      \* the width of an int: 32

ASSUME SrtpConstants ==
  /\ SEQNUMMOD \in Nat \ {0} /\ SEQNUMMOD % 2 = 0
  /\ RocMod \in Nat \ {0, 1}
  /\ WindowSize \in Nat \ {0} /\ IntBits \in 1 .. WindowSize

Half == SEQNUMMOD \div 2
Window == 0 .. WindowSize - 1

Contexts ==
  [ seqNumSet : BOOLEAN, roc : 0 .. RocMod - 1, s_l : Seqs,
    replay_window : SUBSET Window ]

(* newCryptoContextForSSRC, from the template.                             *)
NewContext == [seqNumSet |-> FALSE, roc |-> 0, s_l |-> 0, replay_window |-> {}]

Index(roc, seq) == roc * SEQNUMMOD + seq

LocalIndex(c) == Index(c.roc, c.s_l)

(* The first sequence number a context sees is its highest.                *)
SeenFirst(c, seq) ==
  IF c.seqNumSet THEN c ELSE [c EXCEPT !.seqNumSet = TRUE, !.s_l = seq]

-----------------------------------------------------------------------------
(* Mutant: the sequence number never rolls over.                           *)
GuessedRocSame(c, seq) == c.roc

(* guessIndex: the counter that puts seq closest to the highest index.     *)
GuessedRoc(c, seq) ==
  CASE c.s_l < Half /\ seq - c.s_l > Half -> (c.roc - 1) % RocMod
    [] c.s_l >= Half /\ c.s_l - Half > seq -> (c.roc + 1) % RocMod
    [] OTHER -> c.roc

(* How far a packet is ahead of the highest index, negative when it is late*)
Delta(c, seq) == Index(GuessedRoc(c, seq), seq) - LocalIndex(c)

(* The replay check: whether the packet passes.  A packet exactly as late  *)
(* as the window is wide is looked up with a shift by that width.          *)
ReplayChecks(c, seq) ==
  LET late == -Delta(c, seq) IN
  CASE late < 0 -> {TRUE}
    [] late \in Window -> {late \notin c.replay_window}
    [] late = WindowSize -> {TRUE, 0 \notin c.replay_window}
    [] OTHER -> {FALSE}

-----------------------------------------------------------------------------
Shifted(window, k) == {b + k : b \in window} \cap Window

(* Mutant: the window stays where it is.                                   *)
AheadUnshifted(window, delta) == {window \cup {0}}

(* The window after a packet that is ahead.                                *)
AheadWindows(window, delta) ==
  {w \cup {0} : w \in IF delta \in Window THEN {Shifted(window, delta)}
                      ELSE {{}, Shifted(window, delta % WindowSize)}}

(* 1 << delta for a delta that is not positive: an int, whose sign bit     *)
(* extends.                                                                *)
LateBits(delta) ==
  LET b == delta % IntBits IN
  CASE delta = 0 -> {{0}}
    [] delta # 0 /\ b = IntBits - 1 -> {{}, b .. WindowSize - 1}
    [] OTHER -> {{}, {b}}

(* The highest index, with the counter a late packet does not take back.   *)
Highest(c, seq) ==
  LET guess == GuessedRoc(c, seq) IN
  IF guess > c.roc THEN [c EXCEPT !.roc = guess, !.s_l = seq]
  ELSE IF seq > c.s_l THEN [c EXCEPT !.s_l = seq] ELSE c

(* update: the contexts there may be after a packet that passed.           *)
Updates(c, seq) ==
  LET delta == Delta(c, seq) IN
  {[Highest(c, seq) EXCEPT !.replay_window = w] :
     w \in IF delta > 0 THEN AheadWindows(c.replay_window, delta)
           ELSE {c.replay_window \cup bits : bits \in LateBits(delta)}}

-----------------------------------------------------------------------------
(* protect: the counter goes up behind the last sequence number.           *)
RocAfter(roc, seq) == IF seq = SEQNUMMOD - 1 THEN (roc + 1) % RocMod ELSE roc

(* unprotect of a packet that was protected with a counter, or was not     *)
(* (NoRoc): whether it is accepted, and the context after it.              *)
NoRoc == -1

Unprotects(context, seq, roc) ==
  LET c == SeenFirst(context, seq) IN
  UNION { IF passes /\ roc = GuessedRoc(c, seq)
            THEN {[ok |-> TRUE, context |-> u] : u \in Updates(c, seq)}
            ELSE {[ok |-> FALSE, context |-> c]}
          : passes \in ReplayChecks(c, seq) }

=============================================================================
