------------------------- MODULE MediaPathTheorems -------------------------
(***************************************************************************)
(* Two ccRTP sessions, for any network, any widths and any window: the     *)
(* receiver keeps up with the roll-over counter of the sender, which it    *)
(* never sees, a packet goes to all destinations, and the receiver reports *)
(* what was lost (MediaPath).  The first part is about SrtpContext alone,  *)
(* the last about the packets on the wire (SecurePath), for any pair of    *)
(* algorithms, any sizes and layouts: no byte of a key stream serves twice,*)
(* and what an application reads is what was put in.                       *)
(***************************************************************************)
EXTENDS MediaPath, SecurePath, SequenceTheorems, FiniteSetTheorems, TLAPS

(* Counters that differ by two or more are apart by two times all sequence *)
(* numbers.                                                                *)
LEMMA CountersApart ==
  ASSUME NEW r \in Nat, NEW q \in Nat, r >= q + 2
  PROVE  r * SEQNUMMOD >= q * SEQNUMMOD + 2 * SEQNUMMOD
<1>1. PICK k \in Nat : r = q + 2 + k
  <2> WITNESS r - q - 2 \in Nat
  <2> QED
    OBVIOUS
<1>2. r * SEQNUMMOD = q * SEQNUMMOD + 2 * SEQNUMMOD + k * SEQNUMMOD
  BY <1>1, SrtpConstants
<1>3. k * SEQNUMMOD \in Nat /\ q * SEQNUMMOD \in Nat
  BY SrtpConstants
<1> QED
  BY <1>2, <1>3, SrtpConstants

LEMMA Multiples ==
  ASSUME NEW r \in Nat, NEW q \in Nat, r > q
  PROVE  r * SEQNUMMOD >= q * SEQNUMMOD + SEQNUMMOD
<1>1. PICK k \in Nat : r = q + 1 + k
  <2>1. r - q - 1 \in Nat /\ r = q + 1 + (r - q - 1)
    OBVIOUS
  <2> QED
    BY <2>1
<1>2. r * SEQNUMMOD = q * SEQNUMMOD + SEQNUMMOD + k * SEQNUMMOD
  BY <1>1, SrtpConstants
<1>3. k * SEQNUMMOD \in Nat /\ q * SEQNUMMOD \in Nat
  BY SrtpConstants
<1> QED
  BY <1>2, <1>3, SrtpConstants

LEMMA NextCounter ==
  ASSUME NEW q \in Nat
  PROVE  (q + 1) * SEQNUMMOD = q * SEQNUMMOD + SEQNUMMOD
BY SrtpConstants

LEMMA HalfOfAll == Half \in Nat /\ SEQNUMMOD = 2 * Half /\ Half > 0
BY SrtpConstants DEF Half

(* The guess is the counter of the packet, whenever its index is less than *)
(* half of the sequence numbers away from the highest one, on either side  *)
(* (CryptoContext.cxx:372-400).                                            *)
THEOREM GuessIsRight ==
  ASSUME NEW c \in Contexts, NEW roc \in 0 .. RocMod - 1, NEW seq \in Seqs,
         Index(roc, seq) - LocalIndex(c) < Half,
         LocalIndex(c) - Index(roc, seq) < Half
  PROVE  GuessedRoc(c, seq) = roc
<1> DEFINE here == c.roc * SEQNUMMOD
           there == roc * SEQNUMMOD
<1>1. /\ c.roc \in 0 .. RocMod - 1 /\ c.s_l \in 0 .. SEQNUMMOD - 1
      /\ seq \in 0 .. SEQNUMMOD - 1 /\ RocMod \in Nat /\ SEQNUMMOD \in Nat
  BY SrtpConstants DEF Contexts, Seqs
<1>2. here \in Int /\ there \in Int
  BY <1>1
<1>3. /\ there + seq - (here + c.s_l) < Half
      /\ here + c.s_l - (there + seq) < Half
  BY <1>1, <1>2, HalfOfAll DEF Index, LocalIndex
<1>4. roc \in {c.roc - 1, c.roc, c.roc + 1}
  <2>1. ~(roc >= c.roc + 2)
    <3> SUFFICES ASSUME roc >= c.roc + 2 PROVE FALSE
      OBVIOUS
    <3>1. there >= here + 2 * SEQNUMMOD
      BY <1>1, CountersApart
    <3> HIDE DEF here, there
    <3> QED
      BY <1>1, <1>2, <1>3, <3>1, HalfOfAll
  <2>2. ~(c.roc >= roc + 2)
    <3> SUFFICES ASSUME c.roc >= roc + 2 PROVE FALSE
      OBVIOUS
    <3>1. here >= there + 2 * SEQNUMMOD
      BY <1>1, CountersApart
    <3> HIDE DEF here, there
    <3> QED
      BY <1>1, <1>2, <1>3, <3>1, HalfOfAll
  <2> QED
    BY <1>1, <2>1, <2>2
<1>5. CASE roc = c.roc
  <2>1. seq - c.s_l < Half /\ c.s_l - seq < Half
    <3>1. there = here
      BY <1>5
    <3> HIDE DEF here, there
    <3> QED
      BY <1>1, <1>2, <1>3, <3>1
  <2>2. /\ ~(c.s_l < Half /\ seq - c.s_l > Half)
        /\ ~(c.s_l >= Half /\ c.s_l - Half > seq)
    BY <1>1, <2>1, HalfOfAll
  <2> QED
    BY <1>5, <2>2 DEF GuessedRoc
<1>6. CASE roc = c.roc + 1
  <2>1. seq + SEQNUMMOD - c.s_l < Half
    <3>1. there = here + SEQNUMMOD
      BY <1>1, <1>6, NextCounter
    <3> HIDE DEF here, there
    <3> QED
      BY <1>1, <1>2, <1>3, <3>1
  <2>2. /\ ~(c.s_l < Half /\ seq - c.s_l > Half)
        /\ c.s_l >= Half /\ c.s_l - Half > seq
    BY <1>1, <2>1, HalfOfAll
  <2>3. (c.roc + 1) % RocMod = roc
    BY <1>1, <1>6, SrtpConstants
  <2> QED
    BY <2>2, <2>3 DEF GuessedRoc
<1>7. CASE roc = c.roc - 1
  <2>1. c.s_l + SEQNUMMOD - seq < Half
    <3>1. here = there + SEQNUMMOD
      BY <1>1, <1>7, NextCounter
    <3> HIDE DEF here, there
    <3> QED
      BY <1>1, <1>2, <1>3, <3>1
  <2>2. /\ c.s_l < Half /\ seq - c.s_l > Half
        /\ ~(c.s_l >= Half /\ c.s_l - Half > seq)
    BY <1>1, <2>1, HalfOfAll
  <2>3. (c.roc - 1) % RocMod = roc
    BY <1>1, <1>7, SrtpConstants
  <2> QED
    BY <2>2, <2>3 DEF GuessedRoc
<1> QED
  BY <1>4, <1>5, <1>6, <1>7

-----------------------------------------------------------------------------
(* The distance of a packet from the highest index is then the true one.   *)
LEMMA DeltaIsTrue ==
  ASSUME NEW c \in Contexts, NEW roc \in 0 .. RocMod - 1, NEW seq \in Seqs,
         GuessedRoc(c, seq) = roc
  PROVE  /\ Delta(c, seq) = Index(roc, seq) - LocalIndex(c)
         /\ Delta(c, seq) \in Int
<1>1. /\ c.roc \in Nat /\ c.s_l \in Nat /\ seq \in Nat /\ roc \in Nat
      /\ SEQNUMMOD \in Nat
  BY SrtpConstants DEF Contexts, Seqs
<1>2. Index(roc, seq) \in Int /\ LocalIndex(c) \in Int
  BY <1>1 DEF Index, LocalIndex
<1> QED
  BY <1>2 DEF Delta

-----------------------------------------------------------------------------
(* A higher index has a higher counter, or the same one and a higher       *)
(* number.                                                                 *)
LEMMA IndexOrder ==
  ASSUME NEW q \in Nat, NEW r \in Seqs, NEW p \in Nat, NEW e \in Seqs
  PROVE  /\ Index(q, r) > Index(p, e) => q > p \/ (q = p /\ r > e)
         /\ Index(q, r) = Index(p, e) => q = p /\ r = e
<1> DEFINE qm == q * SEQNUMMOD
           pm == p * SEQNUMMOD
<1>1. /\ r \in 0 .. SEQNUMMOD - 1 /\ e \in 0 .. SEQNUMMOD - 1
      /\ SEQNUMMOD \in Nat /\ qm \in Nat /\ pm \in Nat
  BY SrtpConstants DEF Seqs
<1>2. CASE q = p
  <2>1. qm = pm
    BY <1>2
  <2> HIDE DEF qm, pm
  <2>2. Index(q, r) = qm + r /\ Index(p, e) = pm + e
    BY DEF Index, qm, pm
  <2> QED
    BY <1>1, <1>2, <2>1, <2>2
<1>3. CASE q > p
  <2>1. qm >= pm + SEQNUMMOD
    BY <1>3, Multiples
  <2> HIDE DEF qm, pm
  <2>2. Index(q, r) = qm + r /\ Index(p, e) = pm + e
    BY DEF Index, qm, pm
  <2> QED
    BY <1>1, <1>3, <2>1, <2>2
<1>4. CASE q < p
  <2>1. pm >= qm + SEQNUMMOD
    BY <1>4, Multiples
  <2> HIDE DEF qm, pm
  <2>2. Index(q, r) = qm + r /\ Index(p, e) = pm + e
    BY DEF Index, qm, pm
  <2> QED
    BY <1>1, <1>4, <2>1, <2>2
<1> QED
  BY <1>2, <1>3, <1>4

(* A packet with a higher index becomes the highest, if its counter is     *)
(* guessed (CryptoContext.cxx:447-470).                                    *)
LEMMA HigherIsHighest ==
  ASSUME NEW c \in Contexts, NEW roc \in 0 .. RocMod - 1, NEW seq \in Seqs,
         GuessedRoc(c, seq) = roc, Index(roc, seq) > LocalIndex(c)
  PROVE  Highest(c, seq).roc = roc /\ Highest(c, seq).s_l = seq
<1>1. c.roc \in Nat /\ c.s_l \in Seqs /\ roc \in Nat
  BY SrtpConstants DEF Contexts
<1>2. roc > c.roc \/ (roc = c.roc /\ seq > c.s_l)
  BY <1>1, IndexOrder DEF LocalIndex
<1>3. CASE roc > c.roc
  BY <1>3 DEF Highest, Contexts
<1>4. CASE roc = c.roc /\ seq > c.s_l
  <2>1. ~(roc > c.roc)
    BY <1>1, <1>4
  <2> QED
    BY <1>4, <2>1 DEF Highest, Contexts
<1> QED
  BY <1>2, <1>3, <1>4

(* What an update makes of a context is one, with the highest index as     *)
(* Highest has it.                                                         *)
LEMMA UpdatesAreContexts ==
  ASSUME NEW c \in Contexts, NEW seq \in Seqs, GuessedRoc(c, seq) \in 0 .. RocMod - 1,
         NEW u \in Updates(c, seq)
  PROVE  /\ u \in Contexts /\ u.seqNumSet = c.seqNumSet
         /\ u.roc = Highest(c, seq).roc /\ u.s_l = Highest(c, seq).s_l
<1>1. Highest(c, seq) \in Contexts /\ Highest(c, seq).seqNumSet = c.seqNumSet
  BY DEF Highest, Contexts
<1>2. Delta(c, seq) \in Int
  BY DeltaIsTrue
<1>3. PICK w : u = [Highest(c, seq) EXCEPT !.replay_window = w]
               /\ w \in IF Delta(c, seq) > 0
                          THEN AheadWindows(c.replay_window, Delta(c, seq))
                          ELSE {c.replay_window \cup bits : bits \in LateBits(Delta(c, seq))}
  BY DEF Updates
<1>4. w \subseteq Window
  <2>1. WindowSize \in Nat \ {0} /\ IntBits \in 1 .. WindowSize
    BY SrtpConstants
  <2>2. CASE Delta(c, seq) > 0
    <3>1. PICK v : w = v \cup {0} /\ v \subseteq Window
      BY <1>3, <2>2 DEF AheadWindows, Shifted
    <3> QED
      BY <2>1, <3>1 DEF Window
  <2>3. CASE ~(Delta(c, seq) > 0)
    <3>1. PICK bits \in LateBits(Delta(c, seq)) : w = c.replay_window \cup bits
      BY <1>3, <2>3
    <3>2. Delta(c, seq) % IntBits \in 0 .. IntBits - 1
      BY <1>2, <2>1
    <3>3. bits \subseteq Window
      BY <2>1, <3>1, <3>2 DEF LateBits, Window
    <3> QED
      BY <3>1, <3>3 DEF Contexts
  <2> QED
    BY <2>2, <2>3
<1> QED
  BY <1>1, <1>3, <1>4 DEF Contexts

(* A packet that is ahead by less than half of the sequence numbers is let *)
(* through, becomes the highest one, and marks the first bit of the window *)
(* (CryptoContext.cxx:402-470).                                            *)
THEOREM AheadBecomesHighest ==
  ASSUME NEW c \in Contexts, NEW roc \in 0 .. RocMod - 1, NEW seq \in Seqs,
         Index(roc, seq) - LocalIndex(c) \in 1 .. Half - 1
  PROVE  /\ ReplayChecks(c, seq) = {TRUE}
         /\ \A u \in Updates(c, seq) :
              /\ u \in Contexts
              /\ u.roc = roc /\ u.s_l = seq /\ 0 \in u.replay_window
<1>1. /\ c.roc \in 0 .. RocMod - 1 /\ c.s_l \in 0 .. SEQNUMMOD - 1
      /\ seq \in 0 .. SEQNUMMOD - 1 /\ RocMod \in Nat /\ SEQNUMMOD \in Nat
      /\ WindowSize \in Nat \ {0}
  BY SrtpConstants DEF Contexts, Seqs
<1>2. Index(roc, seq) \in Int /\ LocalIndex(c) \in Int
  BY <1>1 DEF Index, LocalIndex
<1>3. GuessedRoc(c, seq) = roc
  <2>1. /\ Index(roc, seq) - LocalIndex(c) < Half
        /\ LocalIndex(c) - Index(roc, seq) < Half
    BY <1>2, HalfOfAll
  <2> QED
    BY <2>1, GuessIsRight
<1>4. Delta(c, seq) \in Int /\ Delta(c, seq) > 0
  <2>1. Delta(c, seq) = Index(roc, seq) - LocalIndex(c) /\ Delta(c, seq) \in Int
    BY <1>3, DeltaIsTrue
  <2> QED
    BY <1>2, <2>1, HalfOfAll
<1>5. ReplayChecks(c, seq) = {TRUE}
  <2>1. -Delta(c, seq) < 0 /\ -Delta(c, seq) \notin Window /\ -Delta(c, seq) # WindowSize
    BY <1>1, <1>4 DEF Window
  <2> QED
    BY <2>1 DEF ReplayChecks
<1>6. Highest(c, seq).roc = roc /\ Highest(c, seq).s_l = seq
  <2>1. Index(roc, seq) > LocalIndex(c)
    BY <1>2, HalfOfAll
  <2> QED
    BY <1>3, <2>1, HigherIsHighest
<1>7. ASSUME NEW u \in Updates(c, seq)
      PROVE  /\ u \in Contexts
             /\ u.roc = roc /\ u.s_l = seq /\ 0 \in u.replay_window
  <2>1. u \in Contexts /\ u.roc = roc /\ u.s_l = seq
    BY <1>3, <1>6, UpdatesAreContexts
  <2>2. PICK w \in AheadWindows(c.replay_window, Delta(c, seq)) :
          u = [Highest(c, seq) EXCEPT !.replay_window = w]
    BY <1>4 DEF Updates
  <2>3. 0 \in w
    BY <2>2 DEF AheadWindows
  <2>4. 0 \in u.replay_window
    BY <2>2, <2>3 DEF Highest, Contexts
  <2> QED
    BY <2>1, <2>4
<1> QED
  BY <1>5, <1>7

(* So a packet that is ahead is accepted, and the same packet is dismissed *)
(* when the network repeats it before another one (rtppkt.cpp:295-352,     *)
(* CryptoContext.cxx:372-470).                                             *)
THEOREM AheadAcceptedOnce ==
  ASSUME NEW c \in Contexts, c.seqNumSet,
         NEW roc \in 0 .. RocMod - 1, NEW seq \in Seqs,
         Index(roc, seq) - LocalIndex(c) \in 1 .. Half - 1,
         NEW first \in Unprotects(c, seq, roc)
  PROVE  /\ first.ok
         /\ LocalIndex(first.context) = Index(roc, seq)
         /\ \A second \in Unprotects(first.context, seq, roc) : ~second.ok
<1>1. /\ ReplayChecks(c, seq) = {TRUE}
      /\ \A u \in Updates(c, seq) :
           /\ u \in Contexts
           /\ u.roc = roc /\ u.s_l = seq /\ 0 \in u.replay_window
  BY AheadBecomesHighest
<1>2. GuessedRoc(c, seq) = roc
  <2>1. Index(roc, seq) \in Int /\ LocalIndex(c) \in Int
    BY SrtpConstants DEF Index, LocalIndex, Contexts, Seqs
  <2>2. /\ Index(roc, seq) - LocalIndex(c) < Half
        /\ LocalIndex(c) - Index(roc, seq) < Half
    BY <2>1, HalfOfAll
  <2> QED
    BY <2>2, GuessIsRight
<1>3. SeenFirst(c, seq) = c
  BY DEF SeenFirst
<1>4. PICK u \in Updates(c, seq) : first = [ok |-> TRUE, context |-> u]
  <2>1. PICK passes \in ReplayChecks(c, seq) :
          first \in IF passes /\ roc = GuessedRoc(c, seq)
                      THEN {[ok |-> TRUE, context |-> u] : u \in Updates(c, seq)}
                      ELSE {[ok |-> FALSE, context |-> c]}
    BY <1>3 DEF Unprotects
  <2>2. passes = TRUE
    BY <1>1, <2>1
  <2>3. first \in {[ok |-> TRUE, context |-> u] : u \in Updates(c, seq)}
    BY <1>2, <2>1, <2>2
  <2> QED
    BY <2>3
<1>5. u.seqNumSet
  BY <1>2, <1>4, UpdatesAreContexts
<1>6. SeenFirst(u, seq) = u
  BY <1>5 DEF SeenFirst
<1>7. u \in Contexts /\ LocalIndex(u) = Index(roc, seq) /\ 0 \in u.replay_window
  BY <1>1 DEF LocalIndex
<1>8. ReplayChecks(u, seq) = {FALSE}
  <2>1. Index(roc, seq) \in Int
    BY SrtpConstants DEF Index, Seqs
  <2>2. GuessedRoc(u, seq) = roc
    <3>1. /\ Index(roc, seq) - LocalIndex(u) < Half
          /\ LocalIndex(u) - Index(roc, seq) < Half
      BY <1>7, <2>1, HalfOfAll
    <3> QED
      BY <1>7, <3>1, GuessIsRight
  <2>3. Delta(u, seq) = 0
    BY <1>7, <2>1, <2>2 DEF Delta
  <2> DEFINE late == -Delta(u, seq)
  <2>4. late \in Window /\ ~(late < 0) /\ late # WindowSize /\ late = 0
    <3>1. Delta(u, seq) \in Int /\ Delta(u, seq) = 0
      BY <2>3
    <3>2. late \in Int /\ late >= 0 /\ late <= 0
      BY <3>1
    <3> HIDE DEF late
    <3> QED
      BY <3>2, SrtpConstants DEF Window
  <2>5. ReplayChecks(u, seq) = {late \notin u.replay_window}
    BY <2>4 DEF ReplayChecks
  <2>6. (late \notin u.replay_window) = FALSE
    BY <1>7, <2>4
  <2> QED
    BY <2>5, <2>6
<1>9. \A second \in Unprotects(u, seq, roc) : ~second.ok
  BY <1>6, <1>8 DEF Unprotects
<1> QED
  BY <1>4, <1>7, <1>9

-----------------------------------------------------------------------------
(* A guess is a counter, and what has seen its first packet is a context.  *)
LEMMA GuessIsCounter ==
  ASSUME NEW c \in Contexts, NEW seq \in Seqs
  PROVE  GuessedRoc(c, seq) \in 0 .. RocMod - 1
<1>1. c.roc \in 0 .. RocMod - 1 /\ RocMod \in Nat \ {0}
  BY SrtpConstants DEF Contexts
<1>2. /\ (c.roc - 1) % RocMod \in 0 .. RocMod - 1
      /\ (c.roc + 1) % RocMod \in 0 .. RocMod - 1
  BY <1>1
<1> QED
  BY <1>1, <1>2 DEF GuessedRoc

LEMMA SeenFirstIsContext ==
  ASSUME NEW c \in Contexts, NEW seq \in Seqs
  PROVE  SeenFirst(c, seq) \in Contexts
BY DEF SeenFirst, Contexts

LEMMA UnprotectsCases ==
  ASSUME NEW c, NEW seq, NEW roc, NEW u \in Unprotects(c, seq, roc)
  PROVE  LET seen == SeenFirst(c, seq) IN
         \/ /\ u.ok = TRUE /\ roc = GuessedRoc(seen, seq)
            /\ u.context \in Updates(seen, seq)
            /\ TRUE \in ReplayChecks(seen, seq)
         \/ u.ok = FALSE /\ u.context = seen
<1> DEFINE seen == SeenFirst(c, seq)
<1>1. PICK passes \in ReplayChecks(seen, seq) :
        u \in IF passes /\ roc = GuessedRoc(seen, seq)
                THEN {[ok |-> TRUE, context |-> v] : v \in Updates(seen, seq)}
                ELSE {[ok |-> FALSE, context |-> seen]}
  BY DEF Unprotects
<1>2. passes \in BOOLEAN
  BY <1>1, Zenon DEF ReplayChecks
<1>3. CASE passes = TRUE /\ roc = GuessedRoc(seen, seq)
  <2>1. u \in {[ok |-> TRUE, context |-> v] : v \in Updates(seen, seq)}
    BY <1>1, <1>3, Zenon
  <2>2. TRUE \in ReplayChecks(seen, seq)
    BY <1>1, <1>3, Zenon
  <2> HIDE DEF seen
  <2>3. u.ok = TRUE /\ u.context \in Updates(seen, seq)
    BY <2>1
  <2> QED
    BY <1>3, <2>2, <2>3, Zenon DEF seen
<1>4. CASE ~(passes = TRUE /\ roc = GuessedRoc(seen, seq))
  <2>1. ~(passes /\ roc = GuessedRoc(seen, seq))
    BY <1>2, <1>4, Zenon
  <2>2. u \in {[ok |-> FALSE, context |-> seen]}
    BY <1>1, <2>1, Zenon
  <2> HIDE DEF seen
  <2>3. u.ok = FALSE /\ u.context = seen
    BY <2>2
  <2> QED
    BY <2>3, Zenon DEF seen
<1> QED
  BY <1>3, <1>4

(* A packet whose bit in the window is set is not let through              *)
(* (CryptoContext.cxx:402-430).                                            *)
LEMMA MarkedIsRefused ==
  ASSUME NEW c, NEW seq, Delta(c, seq) \in Int,
         -Delta(c, seq) \in Window, -Delta(c, seq) \in c.replay_window
  PROVE  TRUE \notin ReplayChecks(c, seq)
<1> DEFINE late == -Delta(c, seq)
<1>1. late \in Window /\ ~(late < 0) /\ late # WindowSize
  BY SrtpConstants DEF Window
<1>2. ReplayChecks(c, seq) = {late \notin c.replay_window}
  BY <1>1 DEF ReplayChecks
<1>3. (late \notin c.replay_window) = FALSE
  OBVIOUS
<1> QED
  BY <1>2, <1>3

(* The bits that are set stay, or move with the highest index; the packet  *)
(* that becomes the highest has its bit set (CryptoContext.cxx:432-470).   *)
LEMMA UpdatesMark ==
  ASSUME NEW c \in Contexts, NEW seq \in Seqs, Delta(c, seq) \in Int,
         NEW u \in Updates(c, seq)
  PROVE  /\ Delta(c, seq) >= 0 => 0 \in u.replay_window
         /\ Delta(c, seq) > 0 =>
              \A b \in c.replay_window :
                b + Delta(c, seq) \in Window => b + Delta(c, seq) \in u.replay_window
         /\ Delta(c, seq) <= 0 => c.replay_window \subseteq u.replay_window
<1> DEFINE delta == Delta(c, seq)
<1>1. PICK w : /\ u = [Highest(c, seq) EXCEPT !.replay_window = w]
               /\ w \in IF delta > 0 THEN AheadWindows(c.replay_window, delta)
                        ELSE {c.replay_window \cup bits : bits \in LateBits(delta)}
  BY DEF Updates
<1>2. u.replay_window = w
  BY <1>1 DEF Highest, Contexts
<1>3. WindowSize \in Nat \ {0} /\ c.replay_window \subseteq Window
  BY SrtpConstants DEF Contexts
<1> HIDE DEF delta
<1>4. CASE delta > 0
  <2>1. 0 \in w
    BY <1>1, <1>4 DEF AheadWindows
  <2>2. ASSUME NEW b \in c.replay_window, b + delta \in Window
        PROVE  b + delta \in w
    <3>1. delta \in Window
      BY <1>3, <1>4, <2>2 DEF Window, delta
    <3>2. w = Shifted(c.replay_window, delta) \cup {0}
      BY <1>1, <1>4, <3>1 DEF AheadWindows
    <3> QED
      BY <2>2, <3>2 DEF Shifted
  <2>3. ~(delta <= 0)
    BY <1>4 DEF delta
  <2> QED
    BY <1>2, <2>1, <2>2, <2>3 DEF delta
<1>5. CASE ~(delta > 0)
  <2>1. PICK bits \in LateBits(delta) : w = c.replay_window \cup bits
    BY <1>1, <1>5
  <2>2. delta = 0 => 0 \in w
    BY <2>1 DEF LateBits
  <2>3. delta >= 0 => delta = 0
    BY <1>5 DEF delta
  <2> QED
    BY <1>2, <1>5, <2>1, <2>2, <2>3 DEF delta
<1> QED
  BY <1>4, <1>5

-----------------------------------------------------------------------------
Numbered == [n : Int, roc : {NoRoc} \cup 0 .. RocMod - 1]

(* The packets that wait, are being sent or were sent.                     *)
Everywhere ==
  net \cup {sendQueue[i] : i \in 1 .. Len(sendQueue)}
      \cup {dispatch[t].packet : t \in Threads}

(* Numbers do not run out, and what is protected has one.                  *)
SenderInv ==
  /\ next \in Nat /\ segments \in Nat
  /\ FirstSeq <= next /\ next + segments <= FirstSeq + MaxPackets
  /\ outContext \in {NoRoc} \cup 0 .. RocMod - 1
  /\ sendQueue \in Seq(Numbered)
  /\ service_pc # "schedule" => sendQueue # <<>>
  /\ DOMAIN dispatch = Threads
  /\ \A t \in Threads : "packet" \in DOMAIN dispatch[t]
  /\ \A p \in Everywhere : p \in Numbered /\ (p.roc # NoRoc => p.n \in 0 .. next - 1)

(* The index of a packet is its number, less the number with index zero:   *)
(* the counter begins with zero whenever the context is made.              *)
Indexed(p, base) == p.roc # NoRoc => Index(p.roc, SeqNum(p.n)) = p.n - base

SenderIndexed(base) ==
  /\ base \in Int /\ FirstSeq < base + SEQNUMMOD
  /\ Indexed([n |-> next, roc |-> outContext], base)
  /\ \A p \in Everywhere : Indexed(p, base)
  /\ outContext = NoRoc => \A p \in Everywhere : p.roc = NoRoc

(* The receiver's highest index is that of the newest packet it accepted.  *)
ReceiverInv ==
  /\ context \in Contexts /\ spoiled \in BOOLEAN
  /\ newest \in Nat \cup {NoPacketYet}

Follows(base) ==
  ~spoiled =>
    IF newest = NoPacketYet THEN ~context.seqNumSet
    ELSE /\ outContext # NoRoc /\ context.seqNumSet
         /\ context.s_l = SeqNum(newest) /\ LocalIndex(context) = newest - base

CounterInv ==
  /\ SenderInv /\ ReceiverInv
  /\ \E base : SenderIndexed(base) /\ Follows(base)

-----------------------------------------------------------------------------
(* Numbers modulo SEQNUMMOD count up and roll over.                        *)
LEMMA SeqNumCounts ==
  ASSUME NEW n \in Int
  PROVE  /\ SeqNum(n) \in Seqs
         /\ SeqNum(n) = SEQNUMMOD - 1 => SeqNum(n + 1) = 0
         /\ SeqNum(n) # SEQNUMMOD - 1 => SeqNum(n + 1) = SeqNum(n) + 1
<1> DEFINE m == SEQNUMMOD
           q == n \div m
           r == n % m
           p == (n + 1) \div m
           e == (n + 1) % m
<1>1. m \in Nat \ {0}
  BY SrtpConstants
<1>2. /\ q \in Int /\ r \in 0 .. m - 1 /\ n = m * q + r
      /\ p \in Int /\ e \in 0 .. m - 1 /\ n + 1 = m * p + e
  BY <1>1
<1> HIDE DEF m, q, r, p, e
<1>3. m * (p - q) = r + 1 - e
  BY <1>1, <1>2
<1>4. p = q \/ p = q + 1
  <2>1. CASE p - q >= 2
    <3>1. m * (p - q) >= m * 2
      BY <1>1, <1>2, <2>1
    <3> QED
      BY <1>1, <1>2, <1>3, <3>1
  <2>2. CASE p - q <= -1
    <3>1. m * (p - q) <= -m
      BY <1>1, <1>2, <2>2
    <3> QED
      BY <1>1, <1>2, <1>3, <3>1
  <2> QED
    BY <1>2, <2>1, <2>2
<1>5. (p = q /\ e = r + 1) \/ (p = q + 1 /\ e = r + 1 - m)
  BY <1>1, <1>2, <1>3, <1>4
<1>6. (r = m - 1 => e = 0) /\ (r # m - 1 => e = r + 1)
  BY <1>1, <1>2, <1>5
<1> QED
  BY <1>2, <1>6 DEF SeqNum, Seqs, m, r, e

(* The counter of the next packet (CryptoContext.cxx, rtppkt.cpp:250-267). *)
LEMMA CounterOfNext ==
  ASSUME NEW n \in Nat, NEW base \in Int, NEW roc \in 0 .. RocMod - 1,
         Index(roc, SeqNum(n)) = n - base,
         n - base < (RocMod - 1) * SEQNUMMOD + SEQNUMMOD - 1
  PROVE  /\ RocAfter(roc, SeqNum(n)) \in 0 .. RocMod - 1
         /\ Index(RocAfter(roc, SeqNum(n)), SeqNum(n + 1)) = n + 1 - base
<1>1. /\ SEQNUMMOD \in Nat \ {0} /\ RocMod \in Nat \ {0, 1}
      /\ SeqNum(n) \in 0 .. SEQNUMMOD - 1
  BY SrtpConstants, SeqNumCounts DEF Seqs
<1> DEFINE here == roc * SEQNUMMOD
<1>2. here \in Nat /\ here + SeqNum(n) = n - base
  BY <1>1 DEF Index
<1>3. CASE SeqNum(n) # SEQNUMMOD - 1
  <2>1. SeqNum(n + 1) = SeqNum(n) + 1
    BY <1>3, SeqNumCounts
  <2>2. RocAfter(roc, SeqNum(n)) = roc
    BY <1>3 DEF RocAfter
  <2>3. Index(roc, SeqNum(n) + 1) = here + SeqNum(n) + 1
    BY <1>1, <1>2 DEF Index
  <2> HIDE DEF here
  <2> QED
    BY <1>1, <1>2, <2>1, <2>2, <2>3
<1>4. CASE SeqNum(n) = SEQNUMMOD - 1
  <2>1. SeqNum(n + 1) = 0
    BY <1>4, SeqNumCounts
  <2>2. roc + 1 < RocMod
    <3> SUFFICES ASSUME roc + 1 >= RocMod PROVE FALSE
      BY <1>1
    <3>1. roc = RocMod - 1
      BY <1>1
    <3>2. here = (RocMod - 1) * SEQNUMMOD
      BY <3>1
    <3> QED
      BY <1>1, <1>2, <1>4, <3>2
  <2>3. RocAfter(roc, SeqNum(n)) = roc + 1
    BY <1>1, <1>4, <2>2 DEF RocAfter
  <2>4. Index(roc + 1, 0) = here + SEQNUMMOD
    BY <1>1, NextCounter DEF Index
  <2> HIDE DEF here
  <2> QED
    BY <1>1, <1>2, <1>4, <2>1, <2>2, <2>3, <2>4
<1> QED
  BY <1>3, <1>4

-----------------------------------------------------------------------------
(* What a step of the sender does that makes no packet: packets only move, *)
(* or lose their tag.                                                      *)
Untagged == {p \in Numbered : p.roc = NoRoc}

Moves ==
  /\ next' = next /\ outContext' = outContext
  /\ segments' \in Nat /\ next + segments' <= FirstSeq + MaxPackets
  /\ sendQueue' \in Seq(Numbered)
  /\ service_pc' # "schedule" => sendQueue' # <<>>
  /\ DOMAIN dispatch' = Threads
  /\ \A t \in Threads : "packet" \in DOMAIN dispatch'[t]
  /\ Everywhere' \subseteq Everywhere \cup Untagged

LEMMA NoPacketIsPacket ==
  NoPacket \in Numbered /\ NoPacket.roc = NoRoc /\ NoPacket \in Untagged
BY DEF NoPacket, Numbered, Untagged

LEMMA QueuedIsEverywhere ==
  ASSUME sendQueue \in Seq(Numbered), sendQueue # <<>>
  PROVE  /\ Head(sendQueue) \in Everywhere
         /\ Tail(sendQueue) \in Seq(Numbered)
         /\ {Tail(sendQueue)[i] : i \in 1 .. Len(Tail(sendQueue))} \subseteq Everywhere
<1>1. Len(sendQueue) \in Nat \ {0} /\ Head(sendQueue) = sendQueue[1]
  BY EmptySeq
<1>2. /\ Tail(sendQueue) \in Seq(Numbered) /\ Len(Tail(sendQueue)) = Len(sendQueue) - 1
      /\ \A i \in 1 .. Len(Tail(sendQueue)) : Tail(sendQueue)[i] = sendQueue[i + 1]
  BY <1>1
<1> QED
  BY <1>1, <1>2 DEF Everywhere

(* The threads are two, and a step of one leaves the other's packet.       *)
LEMMA DispatchKeeps ==
  ASSUME SenderInv, NEW t \in Threads
  PROVE  /\ SetPeer(t) => Moves
         /\ SendData(t) => Moves
<1>1. SetPeer(t) => Moves
  <2> SUFFICES ASSUME SetPeer(t) PROVE Moves
    OBVIOUS
  <2>1. /\ DOMAIN dispatch' = Threads
        /\ \A u \in Threads : /\ "packet" \in DOMAIN dispatch'[u]
                              /\ dispatch'[u].packet = dispatch[u].packet
    BY DEF SetPeer, SenderInv
  <2>2. Everywhere' = Everywhere
    BY <2>1 DEF SetPeer, Everywhere
  <2> QED
    BY <2>1, <2>2 DEF SetPeer, SenderInv, Moves
<1>2. SendData(t) => Moves
  <2> SUFFICES ASSUME SendData(t) PROVE Moves
    OBVIOUS
  <2>1. /\ DOMAIN dispatch' = Threads
        /\ \A u \in Threads : /\ "packet" \in DOMAIN dispatch'[u]
                              /\ dispatch'[u].packet = dispatch[u].packet
    BY DEF SendData, SenderInv
  <2>2. Everywhere' \subseteq Everywhere
    BY <2>1 DEF SendData, Everywhere
  <2> QED
    BY <2>1, <2>2 DEF SendData, SenderInv, Moves
<1> QED
  BY <1>1, <1>2

LEMMA SenderMoves ==
  ASSUME SenderInv,
         \/ PutData \/ SetPartial \/ Sent
         \/ \E d \in Dest : AddDestination(d) \/ ForgetDestination(d)
         \/ Schedule \/ Expire \/ Dispatch \/ Dispatched
  PROVE  Moves
<1> USE DEF SenderInv
<1>1. ASSUME PutData PROVE Moves
  <2>1. segments' \in Nat /\ next + segments' <= FirstSeq + MaxPackets
    <3>1. /\ next \in Nat /\ FirstSeq \in Nat /\ MaxPackets \in Nat
      BY QueueConstants
    <3>2. PICK k \in 1 .. 2 : segments' = k /\ next + k - 1 \in Ids
      BY <1>1 DEF PutData
    <3> HIDE DEF SenderInv
    <3>3. next + k <= FirstSeq + MaxPackets
      BY <3>1, <3>2 DEF Ids
    <3> QED
      BY <3>2, <3>3
  <2>2. Everywhere' = Everywhere
    BY <1>1 DEF PutData, Everywhere
  <2> QED
    BY <1>1, <2>1, <2>2 DEF PutData, Moves
<1>2. ASSUME SetPartial PROVE Moves
  <2>1. UNCHANGED <<next, segments, outContext, dispatch, service_pc, net>>
    BY <1>2 DEF SetPartial
  <2>2. CASE sendQueue' = sendQueue
    <3>1. Everywhere' = Everywhere
      BY <2>1, <2>2 DEF Everywhere
    <3> QED
      BY <2>1, <2>2, <3>1 DEF Moves
  <2>3. ASSUME NEW i \in DOMAIN sendQueue,
               sendQueue' = [sendQueue EXCEPT ![i].roc = NoRoc]
        PROVE  Moves
    <3>1. PICK p : p = [sendQueue[i] EXCEPT !.roc = NoRoc]
      OBVIOUS
    <3>2. sendQueue \in Seq(Numbered) /\ i \in 1 .. Len(sendQueue)
      OBVIOUS
    <3>3. p \in Untagged /\ p \in Numbered
      <4>1. sendQueue[i] \in Numbered
        BY <3>2
      <4>2. p \in Numbered /\ p.roc = NoRoc
        BY <3>1, <4>1 DEF Numbered
      <4> QED
        BY <4>2 DEF Untagged
    <3>4. sendQueue' = [sendQueue EXCEPT ![i] = p]
      BY <2>3, <3>1
    <3>5. sendQueue' \in Seq(Numbered) /\ Len(sendQueue') = Len(sendQueue)
          /\ \A j \in 1 .. Len(sendQueue) : sendQueue'[j] \in {sendQueue[j], p}
      BY <3>2, <3>3, <3>4
    <3>6. sendQueue' # <<>>
      BY <3>2, <3>5, EmptySeq
    <3>7. Everywhere' \subseteq Everywhere \cup Untagged
      BY <2>1, <3>3, <3>5 DEF Everywhere
    <3> QED
      BY <2>1, <3>5, <3>6, <3>7 DEF Moves
  <2> QED
    BY <1>2, <2>2, <2>3 DEF SetPartial
<1>3. ASSUME Sent PROVE Moves
  <2>1. /\ DOMAIN dispatch' = Threads
        /\ \A u \in Threads : /\ "packet" \in DOMAIN dispatch'[u]
                              /\ dispatch'[u].packet \in {dispatch[u].packet, NoPacket}
    BY <1>3 DEF Sent, Idle
  <2>2. Everywhere' \subseteq Everywhere \cup {NoPacket}
    BY <1>3, <2>1 DEF Sent, Everywhere
  <2> QED
    BY <1>3, <2>1, <2>2, NoPacketIsPacket DEF Sent, Moves
<1>4. ASSUME NEW d \in Dest, AddDestination(d) \/ ForgetDestination(d) PROVE Moves
  <2>1. UNCHANGED <<next, segments, outContext, sendQueue, dispatch, service_pc, net>>
    BY <1>4 DEF AddDestination, ForgetDestination
  <2>2. Everywhere' = Everywhere
    BY <2>1 DEF Everywhere
  <2> QED
    BY <2>1, <2>2 DEF Moves
<1>5. ASSUME Schedule PROVE Moves
  <2>1. Everywhere' = Everywhere
    BY <1>5 DEF Schedule, Everywhere
  <2> QED
    BY <1>5, <2>1 DEF Schedule, Moves
<1>6. ASSUME Expire PROVE Moves
  <2>1. /\ sendQueue' \in Seq(Numbered)
        /\ {sendQueue'[i] : i \in 1 .. Len(sendQueue')} \subseteq Everywhere
    BY <1>6, QueuedIsEverywhere DEF Expire
  <2>2. Everywhere' \subseteq Everywhere
    BY <1>6, <2>1 DEF Expire, Everywhere
  <2> QED
    BY <1>6, <2>1, <2>2 DEF Expire, Moves
<1>7. ASSUME Dispatch PROVE Moves
  <2>1. Head(sendQueue) \in Everywhere
    BY <1>7, QueuedIsEverywhere DEF Dispatch
  <2>2. /\ DOMAIN dispatch' = Threads
        /\ \A u \in Threads :
             /\ "packet" \in DOMAIN dispatch'[u]
             /\ dispatch'[u].packet \in {dispatch[u].packet, Head(sendQueue)}
    BY <1>7 DEF Dispatch, Start, Idle
  <2>3. Everywhere' \subseteq Everywhere
    BY <1>7, <2>1, <2>2 DEF Dispatch, Everywhere
  <2> QED
    BY <1>7, <2>2, <2>3 DEF Dispatch, Moves
<1>8. ASSUME Dispatched PROVE Moves
  <2>1. /\ sendQueue' \in Seq(Numbered)
        /\ {sendQueue'[i] : i \in 1 .. Len(sendQueue')} \subseteq Everywhere
    BY <1>8, QueuedIsEverywhere DEF Dispatched
  <2>2. /\ DOMAIN dispatch' = Threads
        /\ \A u \in Threads : /\ "packet" \in DOMAIN dispatch'[u]
                              /\ dispatch'[u].packet \in {dispatch[u].packet, NoPacket}
    BY <1>8 DEF Dispatched, Idle
  <2>3. Everywhere' \subseteq Everywhere \cup {NoPacket}
    BY <1>8, <2>1, <2>2 DEF Dispatched, Everywhere
  <2> QED
    BY <1>8, <2>1, <2>2, <2>3, NoPacketIsPacket DEF Dispatched, Moves
<1> QED
  BY <1>1, <1>2, <1>3, <1>4, <1>5, <1>6, <1>7, <1>8

(* A step that moves packets keeps what is said of the sender.             *)
LEMMA MovesKeep ==
  ASSUME SenderInv, Moves
  PROVE  /\ SenderInv'
         /\ \A base : SenderIndexed(base) => SenderIndexed(base)'
<1>1. \A p \in Everywhere' : p \in Everywhere \/ (p \in Numbered /\ p.roc = NoRoc)
  BY DEF Moves, Untagged
<1>2. SenderInv'
  <2>1. \A p \in Everywhere' : p \in Numbered /\ (p.roc # NoRoc => p.n \in 0 .. next' - 1)
    BY <1>1 DEF SenderInv, Moves
  <2> QED
    BY <2>1 DEF SenderInv, Moves
<1>3. ASSUME NEW base, SenderIndexed(base) PROVE SenderIndexed(base)'
  <2>1. \A p \in Everywhere' : Indexed(p, base)
    BY <1>1, <1>3 DEF SenderIndexed, Indexed
  <2>2. outContext' = NoRoc => \A p \in Everywhere' : p.roc = NoRoc
    BY <1>1, <1>3 DEF SenderIndexed, Moves
  <2>3. Indexed([n |-> next', roc |-> outContext'], base)
    BY <1>3 DEF SenderIndexed, Moves
  <2> QED
    BY <1>3, <2>1, <2>2, <2>3 DEF SenderIndexed, Indexed
<1> QED
  BY <1>2, <1>3

-----------------------------------------------------------------------------
(* What a step does that makes the next packet, under a context.           *)
Makes(roc) ==
  /\ next' = next + 1 /\ outContext' = After(roc)
  /\ next \in Ids
  /\ segments' \in Nat /\ next' + segments' <= FirstSeq + MaxPackets
  /\ sendQueue' \in Seq(Numbered)
  /\ service_pc' # "schedule" => sendQueue' # <<>>
  /\ DOMAIN dispatch' = Threads
  /\ \A t \in Threads : "packet" \in DOMAIN dispatch'[t]
  /\ Everywhere' \subseteq Everywhere \cup {Made(roc)}

LEMMA RocsAreCounters ==
  /\ 0 \in 0 .. RocMod - 1 /\ NoRoc \notin 0 .. RocMod - 1
  /\ SEQNUMMOD \in Nat \ {0} /\ RocMod \in Nat \ {0, 1}
  /\ FirstSeq \in Nat /\ MaxPackets \in Nat
BY SrtpConstants, QueueConstants DEF NoRoc

LEMMA PutSegmentMakes ==
  ASSUME SenderInv, PutSegment
  PROVE  Makes(ContextForPut)
<1>1. Made(ContextForPut) \in Numbered
  BY RocsAreCounters DEF SenderInv, Made, ContextForPut, Numbered
<1>2. /\ sendQueue' = Append(sendQueue, Made(ContextForPut))
      /\ next' = next + 1 /\ outContext' = After(ContextForPut)
      /\ segments' = segments - 1 /\ segments > 0
      /\ UNCHANGED <<dispatch, service_pc, net>>
  BY DEF PutSegment, Queued
<1>3. /\ next \in Nat /\ segments \in Nat /\ FirstSeq <= next
      /\ next + segments <= FirstSeq + MaxPackets /\ sendQueue \in Seq(Numbered)
      /\ DOMAIN dispatch = Threads
      /\ \A t \in Threads : "packet" \in DOMAIN dispatch[t]
  BY DEF SenderInv
<1>4. /\ next \in Ids /\ segments' \in Nat
      /\ next' + segments' <= FirstSeq + MaxPackets
  BY <1>2, <1>3, RocsAreCounters DEF Ids
<1>5. /\ sendQueue' \in Seq(Numbered) /\ sendQueue' # <<>>
      /\ \A i \in 1 .. Len(sendQueue') :
           sendQueue'[i] \in {sendQueue[j] : j \in 1 .. Len(sendQueue)}
                               \cup {Made(ContextForPut)}
  <2> DEFINE p == Made(ContextForPut)
  <2> HIDE DEF p
  <2>1. /\ p \in Numbered /\ sendQueue' = Append(sendQueue, p)
        /\ sendQueue \in Seq(Numbered)
    BY <1>1, <1>2, <1>3 DEF p
  <2>2. /\ sendQueue' \in Seq(Numbered)
        /\ Len(sendQueue') = Len(sendQueue) + 1 /\ Len(sendQueue) \in Nat
        /\ \A i \in 1 .. Len(sendQueue) : sendQueue'[i] = sendQueue[i]
        /\ sendQueue'[Len(sendQueue) + 1] = p
    BY <2>1, AppendProperties
  <2>3. sendQueue' # <<>>
    BY <2>2, EmptySeq
  <2>4. \A i \in 1 .. Len(sendQueue') : i \in 1 .. Len(sendQueue) \/ i = Len(sendQueue) + 1
    BY <2>2
  <2> QED
    BY <2>2, <2>3, <2>4 DEF p
<1>6. Everywhere' \subseteq Everywhere \cup {Made(ContextForPut)}
  BY <1>2, <1>5 DEF Everywhere
<1> QED
  BY <1>2, <1>3, <1>4, <1>5, <1>6 DEF Makes

LEMMA SendImmediateMakes ==
  ASSUME SenderInv, SendImmediate
  PROVE  Makes(outContext)
<1>1. /\ DOMAIN dispatch' = Threads
      /\ \A t \in Threads :
           /\ "packet" \in DOMAIN dispatch'[t]
           /\ dispatch'[t].packet \in {dispatch[t].packet, Made(outContext)}
  BY DEF SendImmediate, Start, Idle, SenderInv
<1>2. Everywhere' \subseteq Everywhere \cup {Made(outContext)}
  BY <1>1 DEF SendImmediate, Everywhere
<1>3. /\ next \in Nat /\ segments = 0 /\ next \in Ids /\ next' = next + 1
      /\ segments' = segments
  BY DEF SenderInv, SendImmediate
<1>4. segments' \in Nat /\ next' + segments' <= FirstSeq + MaxPackets
  BY <1>3, RocsAreCounters DEF Ids
<1> QED
  BY <1>1, <1>2, <1>3, <1>4 DEF SendImmediate, SenderInv, Makes

(* A new packet has the next number, and the counter goes on from there.   *)
LEMMA MakesKeep ==
  ASSUME SenderInv, NEW roc, Makes(roc), NEW base, SenderIndexed(base),
         roc \in {NoRoc} \cup 0 .. RocMod - 1,
         Indexed(Made(roc), base),
         roc = NoRoc => outContext = NoRoc
  PROVE  SenderInv' /\ SenderIndexed(base)'
<1>1. /\ next \in Nat /\ base \in Int /\ FirstSeq < base + SEQNUMMOD
      /\ next \in FirstSeq .. FirstSeq + MaxPackets - 1 /\ next' = next + 1
  BY DEF SenderInv, SenderIndexed, Makes, Ids
<1>2. \A p \in Everywhere' : p \in Everywhere \/ p = Made(roc)
  BY DEF Makes
<1>3. /\ outContext' \in {NoRoc} \cup 0 .. RocMod - 1
      /\ Indexed([n |-> next', roc |-> outContext'], base)
      /\ outContext' = NoRoc => roc = NoRoc
  <2>1. CASE roc = NoRoc
    BY <2>1 DEF Makes, After, Indexed
  <2>2. CASE roc # NoRoc
    <3>1. /\ roc \in 0 .. RocMod - 1
          /\ Index(roc, SeqNum(next)) = next - base
          /\ outContext' = RocAfter(roc, SeqNum(next))
      BY <2>2 DEF Made, Indexed, Makes, After
    <3>2. next - base < (RocMod - 1) * SEQNUMMOD + SEQNUMMOD - 1
      <4> DEFINE room == (RocMod - 1) * SEQNUMMOD
      <4>1. room \in Int /\ MaxPackets <= room
        BY SrtpConstants, QueueConstants
      <4> HIDE DEF room
      <4>2. next - base < room + SEQNUMMOD - 1
        BY <1>1, <4>1, RocsAreCounters
      <4> QED
        BY <4>2 DEF room
    <3>3. /\ outContext' \in 0 .. RocMod - 1
          /\ Index(outContext', SeqNum(next + 1)) = next + 1 - base
      BY <1>1, <3>1, <3>2, CounterOfNext
    <3> QED
      BY <1>1, <3>3, RocsAreCounters DEF Indexed
  <2> QED
    BY <2>1, <2>2
<1>4. /\ Made(roc) \in Numbered /\ Made(roc).n = next /\ Made(roc).roc = roc
  BY <1>1 DEF Made, Numbered
<1>5. \A p \in Everywhere' : p \in Numbered /\ (p.roc # NoRoc => p.n \in 0 .. next' - 1)
  <2>1. ASSUME NEW p \in Everywhere
        PROVE  p \in Numbered /\ (p.roc # NoRoc => p.n \in 0 .. next' - 1)
    <3>1. p \in Numbered /\ (p.roc # NoRoc => p.n \in 0 .. next - 1)
      BY DEF SenderInv
    <3> QED
      BY <1>1, <3>1
  <2>2. next \in 0 .. next' - 1
    BY <1>1
  <2> QED
    BY <1>2, <1>4, <2>1, <2>2
<1>6. SenderInv'
  <2>1. next' \in Nat /\ FirstSeq <= next'
    BY <1>1, RocsAreCounters
  <2> QED
    BY <1>3, <1>5, <2>1 DEF SenderInv, Makes
<1>7. \A p \in Everywhere' : Indexed(p, base)
  BY <1>2 DEF SenderIndexed
<1>8. outContext' = NoRoc => \A p \in Everywhere' : p.roc = NoRoc
  BY <1>2, <1>3, <1>4 DEF SenderIndexed
<1>9. SenderIndexed(base)'
  BY <1>1, <1>3, <1>7, <1>8 DEF SenderIndexed, Indexed
<1> QED
  BY <1>6, <1>9

-----------------------------------------------------------------------------
(* A step of the sender leaves the receiver as it is.                      *)
LEMMA SenderKeepsInv ==
  ASSUME CounterInv, Sender
  PROVE  CounterInv'
<1>1. SenderInv /\ ReceiverInv
  BY DEF CounterInv
<1>2. UNCHANGED <<context, newest, spoiled>>
  BY DEF Sender, receiverVars
<1>3. ReceiverInv'
  BY <1>1, <1>2 DEF ReceiverInv
<1>4. PICK base : SenderIndexed(base) /\ Follows(base)
  BY DEF CounterInv
<1>5. (outContext # NoRoc => outContext' # NoRoc) => Follows(base)'
  BY <1>2, <1>4 DEF Follows, LocalIndex, Index
<1>6. CASE Moves
  <2>1. SenderInv' /\ SenderIndexed(base)'
    BY <1>1, <1>4, <1>6, MovesKeep
  <2>2. Follows(base)'
    BY <1>5, <1>6 DEF Moves
  <2> QED
    BY <1>3, <2>1, <2>2 DEF CounterInv
<1>7. CASE SendImmediate
  <2>1. Makes(outContext)
    BY <1>1, <1>7, SendImmediateMakes
  <2>2. Indexed(Made(outContext), base)
    BY <1>4 DEF SenderIndexed, Made
  <2>3. outContext \in {NoRoc} \cup 0 .. RocMod - 1
    BY <1>1 DEF SenderInv
  <2>4. SenderInv' /\ SenderIndexed(base)'
    BY <1>1, <1>4, <2>1, <2>2, <2>3, MakesKeep
  <2>5. outContext # NoRoc => outContext' # NoRoc
    <3> SUFFICES ASSUME outContext # NoRoc PROVE outContext' # NoRoc
      OBVIOUS
    <3>1. outContext' = RocAfter(outContext, SeqNum(next))
      BY <2>1 DEF Makes, After
    <3>2. RocAfter(outContext, SeqNum(next)) \in 0 .. RocMod - 1
      BY <2>3, RocsAreCounters DEF RocAfter
    <3> QED
      BY <3>1, <3>2, RocsAreCounters
  <2> QED
    BY <1>3, <1>5, <2>4, <2>5 DEF CounterInv
(* With its first packet the source gets a context, which counts from      *)
(* there: nothing has an index yet.                                        *)
<1>8. CASE PutSegment
  <2>1. Makes(ContextForPut)
    BY <1>1, <1>8, PutSegmentMakes
  <2>2. /\ ContextForPut \in 0 .. RocMod - 1 /\ ContextForPut # NoRoc
        /\ outContext # NoRoc => ContextForPut = outContext
    BY <1>1, RocsAreCounters DEF SenderInv, ContextForPut
  <2>3. outContext' # NoRoc
    <3>1. outContext' = RocAfter(ContextForPut, SeqNum(next))
      BY <2>1, <2>2 DEF Makes, After
    <3>2. RocAfter(ContextForPut, SeqNum(next)) \in 0 .. RocMod - 1
      BY <2>2, RocsAreCounters DEF RocAfter
    <3> QED
      BY <3>1, <3>2, RocsAreCounters
  <2>4. CASE outContext # NoRoc
    <3>1. Indexed(Made(ContextForPut), base)
      BY <1>4, <2>2, <2>4 DEF SenderIndexed, Made
    <3>2. SenderInv' /\ SenderIndexed(base)'
      BY <1>1, <1>4, <2>1, <2>2, <3>1, MakesKeep
    <3> QED
      BY <1>3, <1>5, <2>3, <3>2 DEF CounterInv
  <2>5. CASE outContext = NoRoc
    <3>0. PICK first : first = next - SeqNum(next)
      OBVIOUS
    <3>1. /\ next \in Nat /\ FirstSeq <= next
          /\ SeqNum(next) \in 0 .. SEQNUMMOD - 1
      BY <1>1, SeqNumCounts DEF SenderInv, Seqs
    <3>2. first \in Int /\ FirstSeq < first + SEQNUMMOD
      BY <3>0, <3>1, RocsAreCounters
    <3>3. SenderIndexed(first)
      BY <1>4, <2>5, <3>2 DEF SenderIndexed, Indexed
    <3>4. Indexed(Made(ContextForPut), first)
      <4>1. ContextForPut = 0
        BY <2>5 DEF ContextForPut
      <4>2. Index(0, SeqNum(next)) = next - first
        BY <3>0, <3>1, RocsAreCounters DEF Index
      <4> QED
        BY <4>1, <4>2 DEF Made, Indexed
    <3>5. SenderInv' /\ SenderIndexed(first)'
      <4>1. ContextForPut \in {NoRoc} \cup 0 .. RocMod - 1
        BY <2>2
      <4>2. ContextForPut = NoRoc => outContext = NoRoc
        BY <2>5
      <4> QED
        BY <1>1, <2>1, <3>3, <3>4, <4>1, <4>2, MakesKeep
    <3>6. Follows(first)'
      <4>1. ~spoiled => newest = NoPacketYet /\ ~context.seqNumSet
        BY <1>4, <2>5 DEF Follows
      <4> QED
        BY <1>2, <4>1 DEF Follows
    <3> QED
      BY <1>3, <3>5, <3>6 DEF CounterInv
  <2> QED
    BY <2>4, <2>5
<1>9. Moves \/ SendImmediate \/ PutSegment
  <2>1. ASSUME NEW t \in Threads, SetPeer(t) \/ SendData(t) PROVE Moves
    BY <1>1, <2>1, DispatchKeeps
  <2>2. "app" \in Threads /\ "service" \in Threads
    BY DEF Threads
  <2> QED
    BY <1>1, <2>1, <2>2, SenderMoves DEF Sender, App, Service
<1> QED
  BY <1>6, <1>7, <1>8, <1>9

-----------------------------------------------------------------------------
(* The receiver takes in a packet that was sent (incqueue.cpp:182-242).    *)
LEMMA TakeInKeepsInv ==
  ASSUME CounterInv, TakeInDataPacket
  PROVE  CounterInv'
<1>1. SenderInv /\ ReceiverInv
  BY DEF CounterInv
<1>2. PICK base : SenderIndexed(base) /\ Follows(base)
  BY DEF CounterInv
<1>0. PICK p \in net : \E u \in Unprotects(context, SeqNum(p.n), p.roc) :
        /\ context' = u.context
        /\ IF u.ok THEN Accepted(p.n)
                   ELSE /\ spoiled' = (spoiled \/ ~context.seqNumSet)
                        /\ UNCHANGED <<reception, newest, ahead, again, interval>>
        /\ UNCHANGED senderVars
  BY DEF TakeInDataPacket
<1>3. PICK u \in Unprotects(context, SeqNum(p.n), p.roc) :
        /\ context' = u.context
        /\ IF u.ok THEN Accepted(p.n)
                   ELSE /\ spoiled' = (spoiled \/ ~context.seqNumSet)
                        /\ UNCHANGED <<reception, newest, ahead, again, interval>>
        /\ UNCHANGED senderVars
  BY <1>0
<1> DEFINE seq == SeqNum(p.n)
           c == SeenFirst(context, seq)
<1>4. p \in Everywhere /\ p \in Numbered /\ p.n \in Int
      /\ (p.roc # NoRoc => p.n \in Nat) /\ seq \in Seqs
  BY <1>1, SeqNumCounts DEF Everywhere, SenderInv, Numbered
<1>5. context \in Contexts /\ newest \in Nat \cup {NoPacketYet}
      /\ spoiled \in BOOLEAN /\ NoPacketYet = -1
  BY <1>1 DEF ReceiverInv, NoPacketYet
<1>6. c \in Contexts /\ GuessedRoc(c, seq) \in 0 .. RocMod - 1
  BY <1>4, <1>5, SeenFirstIsContext, GuessIsCounter
<1>7. \/ u.ok = TRUE /\ p.roc = GuessedRoc(c, seq) /\ u.context \in Updates(c, seq)
      \/ u.ok = FALSE /\ u.context = c
  BY UnprotectsCases
<1>8. SenderInv' /\ SenderIndexed(base)'
  <2>1. UNCHANGED <<next, segments, outContext, sendQueue, dispatch, service_pc, net>>
    BY <1>3 DEF senderVars
  <2>2. Everywhere' = Everywhere
    BY <2>1 DEF Everywhere
  <2> QED
    BY <1>1, <1>2, <2>1, <2>2 DEF SenderInv, SenderIndexed, Indexed
<1>9. outContext' = outContext
  BY <1>3 DEF senderVars
<1>10. CASE u.ok = FALSE
  <2>1. /\ context' = c /\ newest' = newest
        /\ spoiled' = (spoiled \/ ~context.seqNumSet)
    BY <1>3, <1>7, <1>10
  <2>2. ReceiverInv'
    BY <1>5, <1>6, <2>1 DEF ReceiverInv
  <2>3. Follows(base)'
    <3> SUFFICES ASSUME ~spoiled' PROVE Follows(base)'
      BY DEF Follows
    <3>1. ~spoiled /\ context.seqNumSet
      BY <1>5, <2>1
    <3>2. context' = context
      BY <2>1, <3>1 DEF SeenFirst
    <3> QED
      BY <1>2, <1>9, <2>1, <3>1, <3>2 DEF Follows
  <2> QED
    BY <1>8, <2>2, <2>3 DEF CounterInv
<1>11. CASE u.ok = TRUE
  <2>1. /\ context' \in Updates(c, seq) /\ p.roc = GuessedRoc(c, seq)
        /\ newest' = (IF p.n > newest THEN p.n ELSE newest)
        /\ spoiled' = (spoiled \/ (p.n < newest /\ seq > context.s_l))
    BY <1>3, <1>7, <1>11 DEF Accepted
  <2>2. p.roc \in 0 .. RocMod - 1 /\ p.roc # NoRoc /\ p.n \in Nat
    BY <1>4, <1>6, <2>1, RocsAreCounters
  <2>3. /\ context' \in Contexts /\ context'.seqNumSet = c.seqNumSet
        /\ context'.roc = Highest(c, seq).roc /\ context'.s_l = Highest(c, seq).s_l
    BY <1>4, <1>6, <2>1, UpdatesAreContexts
  <2>4. ReceiverInv'
    BY <1>5, <2>1, <2>2, <2>3 DEF ReceiverInv
  <2>5. Index(p.roc, seq) = p.n - base /\ base \in Int /\ outContext # NoRoc
    BY <1>2, <1>4, <2>2 DEF SenderIndexed, Indexed
  <2>6. c.seqNumSet
    BY <1>5 DEF SeenFirst, Contexts
  <2>7. ASSUME ~spoiled'
        PROVE  /\ newest' # NoPacketYet
               /\ Highest(c, seq).s_l = SeqNum(newest')
               /\ Index(Highest(c, seq).roc, Highest(c, seq).s_l) = newest' - base
    <3>1. ~spoiled /\ ~(p.n < newest /\ seq > context.s_l)
      BY <1>5, <2>1, <2>7
    <3>2. CASE newest = NoPacketYet
      <4>1. newest' = p.n
        BY <1>5, <2>1, <2>2, <3>2
      <4>2. c.s_l = seq
        BY <1>2, <1>5, <3>1, <3>2 DEF Follows, SeenFirst, Contexts
      <4>3. GuessedRoc(c, seq) = c.roc
        BY <1>4, <4>2, HalfOfAll DEF GuessedRoc, Seqs
      <4>4. Highest(c, seq) = c
        BY <1>4, <1>6, <4>2, <4>3 DEF Highest, Contexts, Seqs
      <4> QED
        BY <1>5, <2>1, <2>2, <2>5, <4>1, <4>2, <4>3, <4>4
    <3>3. CASE newest # NoPacketYet
      <4>1. /\ newest \in Nat /\ c = context
            /\ c.s_l = SeqNum(newest) /\ LocalIndex(c) = newest - base
        BY <1>2, <1>5, <3>1, <3>3 DEF Follows, SeenFirst
      <4>2. c.roc \in Nat /\ c.s_l \in Seqs /\ p.roc \in Nat
        BY <1>6, <2>2 DEF Contexts
      <4>3. CASE p.n > newest
        <5>1. newest' = p.n /\ newest' # NoPacketYet
          BY <1>5, <2>1, <2>2, <4>3
        <5>2. Index(p.roc, seq) > LocalIndex(c)
          BY <2>2, <2>5, <4>1, <4>3
        <5>3. Highest(c, seq).roc = p.roc /\ Highest(c, seq).s_l = seq
          BY <1>4, <1>6, <2>1, <2>2, <5>2, HigherIsHighest
        <5> QED
          BY <2>5, <5>1, <5>3
      <4>4. CASE p.n <= newest
        <5>1. newest' = newest /\ newest' # NoPacketYet
          BY <1>5, <2>1, <2>2, <3>3, <4>1, <4>4
        <5>2. Highest(c, seq) = c
          <6>1. CASE p.n = newest
            <7>1. Index(p.roc, seq) = Index(c.roc, c.s_l)
              BY <2>5, <4>1, <6>1 DEF LocalIndex
            <7>2. p.roc = c.roc /\ seq = c.s_l
              BY <1>4, <4>2, <7>1, IndexOrder
            <7> QED
              BY <1>4, <2>1, <4>2, <7>2 DEF Highest, Seqs
          <6>2. CASE p.n < newest
            <7>1. Index(c.roc, c.s_l) > Index(p.roc, seq)
              BY <2>2, <2>5, <4>1, <6>2 DEF LocalIndex
            <7>2. c.roc >= p.roc
              BY <1>4, <4>2, <7>1, IndexOrder
            <7>3. ~(seq > c.s_l)
              BY <3>1, <4>1, <6>2
            <7> QED
              BY <2>1, <4>2, <7>2, <7>3 DEF Highest
          <6> QED
            BY <2>2, <4>1, <4>4, <6>1, <6>2
        <5> QED
          BY <4>1, <5>1, <5>2 DEF LocalIndex
      <4> QED
        BY <2>2, <4>1, <4>3, <4>4
    <3> QED
      BY <3>2, <3>3
  <2>8. Follows(base)'
    BY <1>9, <2>3, <2>5, <2>6, <2>7 DEF Follows, LocalIndex
  <2> QED
    BY <1>8, <2>4, <2>8 DEF CounterInv
<1> QED
  BY <1>7, <1>10, <1>11

LEMMA CounterInvStep == CounterInv /\ [Next]_vars => CounterInv'
<1> SUFFICES ASSUME CounterInv, [Next]_vars PROVE CounterInv'
  OBVIOUS
<1>1. CASE Sender
  BY <1>1, SenderKeepsInv
<1>2. CASE TakeInDataPacket
  BY <1>2, TakeInKeepsInv
<1>3. CASE Report \/ UNCHANGED vars
  <2>1. /\ UNCHANGED <<next, segments, outContext, sendQueue, dispatch, service_pc, net>>
        /\ UNCHANGED <<context, newest, spoiled>>
    BY <1>3 DEF Report, vars, senderVars, receiverVars
  <2>2. Everywhere' = Everywhere
    BY <2>1 DEF Everywhere
  <2>3. SenderInv' /\ ReceiverInv'
    BY <2>1, <2>2 DEF CounterInv, SenderInv, ReceiverInv
  <2>4. PICK base : SenderIndexed(base) /\ Follows(base)
    BY DEF CounterInv
  <2>5. SenderIndexed(base)' /\ Follows(base)'
    BY <2>1, <2>2, <2>4 DEF SenderIndexed, Indexed, Follows, LocalIndex, Index
  <2> QED
    BY <2>3, <2>5 DEF CounterInv
<1> QED
  BY <1>1, <1>2, <1>3 DEF Next

LEMMA CounterInvInit == Init => CounterInv
<1> SUFFICES ASSUME Init PROVE CounterInv
  OBVIOUS
<1>1. Everywhere = {NoPacket}
  <2>1. \A t \in Threads : dispatch[t].packet = NoPacket
    BY DEF Init, SenderInit, Idle
  <2>2. "app" \in Threads
    BY DEF Threads
  <2> QED
    BY <2>1, <2>2 DEF Init, SenderInit, Everywhere
<1>2. SenderInv
  <2>1. /\ DOMAIN dispatch = Threads
        /\ \A t \in Threads : "packet" \in DOMAIN dispatch[t]
    BY DEF Init, SenderInit, Idle
  <2>2. sendQueue \in Seq(Numbered)
    BY EmptySeq DEF Init, SenderInit
  <2> QED
    BY <1>1, <2>1, <2>2, NoPacketIsPacket, RocsAreCounters DEF Init, SenderInit, SenderInv
<1>3. ReceiverInv
  <2>1. 0 \in 0 .. RocMod - 1 /\ 0 \in Seqs
    BY RocsAreCounters DEF Seqs
  <2>2. NewContext \in Contexts
    BY <2>1 DEF NewContext, Contexts
  <2> QED
    BY <2>2 DEF Init, ReceiverInv
<1>4. SenderIndexed(FirstSeq)
  BY <1>1, NoPacketIsPacket, RocsAreCounters
     DEF Init, SenderInit, SenderIndexed, Indexed
<1>5. Follows(FirstSeq)
  BY DEF Init, NewContext, Follows
<1> QED
  BY <1>2, <1>3, <1>4, <1>5 DEF CounterInv

LEMMA CounterInvHolds == Spec => []CounterInv
BY CounterInvInit, CounterInvStep, PTL DEF Spec

-----------------------------------------------------------------------------
(* The receiver keeps up with the roll-over counter: a protected packet    *)
(* that is newer by less than half of the sequence numbers is accepted,    *)
(* whatever was lost, repeated or reordered before (CryptoContext.cxx:     *)
(* 372-470, rtppkt.cpp:250-352).                                           *)
THEOREM KeepsUpWithCounter == Spec => []NewerAccepted
<1>1. Spec => []CounterInv
  BY CounterInvHolds
<1>2. CounterInv => NewerAccepted
  <2> SUFFICES ASSUME CounterInv, newest # NoPacketYet, ~spoiled,
                      NEW p \in net, p.roc # NoRoc, p.n - newest \in 1 .. Half - 1,
                      NEW u \in Unprotects(context, SeqNum(p.n), p.roc)
               PROVE  u.ok
    BY DEF NewerAccepted
  <2>1. PICK base : SenderIndexed(base) /\ Follows(base)
    BY DEF CounterInv
  <2>2. /\ newest \in Nat /\ context \in Contexts /\ context.seqNumSet
        /\ LocalIndex(context) = newest - base
    BY <2>1 DEF CounterInv, ReceiverInv, Follows
  <2>3. p \in Everywhere /\ p.n \in Int /\ p.roc \in 0 .. RocMod - 1
    BY DEF CounterInv, SenderInv, Everywhere, Numbered
  <2>4. Index(p.roc, SeqNum(p.n)) = p.n - base /\ base \in Int
    BY <2>1, <2>3 DEF SenderIndexed, Indexed
  <2>5. Index(p.roc, SeqNum(p.n)) - LocalIndex(context) = p.n - newest
    BY <2>2, <2>3, <2>4
  <2>6. SeqNum(p.n) \in Seqs
    BY <2>3, SeqNumCounts
  <2> QED
    BY <2>2, <2>3, <2>5, <2>6, AheadAcceptedOnce
<1> QED
  BY <1>1, <1>2, PTL

-----------------------------------------------------------------------------
(* Every packet that came as the newest and is not as late as the window is*)
(* wide has its bit set.                                                   *)
Marked ==
  ~spoiled =>
    /\ again = {}
    /\ \A n \in ahead : n \in Nat /\ n <= newest
    /\ \A n \in ahead : newest - n \in Window => newest - n \in context.replay_window

LEMMA TakeInMarks ==
  ASSUME CounterInv, Marked, TakeInDataPacket
  PROVE  Marked'
<1> SUFFICES ASSUME ~spoiled' PROVE Marked'
  BY DEF Marked
<1>1. SenderInv /\ ReceiverInv
  BY DEF CounterInv
<1>2. PICK base : SenderIndexed(base) /\ Follows(base)
  BY DEF CounterInv
<1>0. PICK p \in net : \E u \in Unprotects(context, SeqNum(p.n), p.roc) :
        /\ context' = u.context
        /\ IF u.ok THEN Accepted(p.n)
                   ELSE /\ spoiled' = (spoiled \/ ~context.seqNumSet)
                        /\ UNCHANGED <<reception, newest, ahead, again, interval>>
        /\ UNCHANGED senderVars
  BY DEF TakeInDataPacket
<1>3. PICK u \in Unprotects(context, SeqNum(p.n), p.roc) :
        /\ context' = u.context
        /\ IF u.ok THEN Accepted(p.n)
                   ELSE /\ spoiled' = (spoiled \/ ~context.seqNumSet)
                        /\ UNCHANGED <<reception, newest, ahead, again, interval>>
  BY <1>0
<1> DEFINE seq == SeqNum(p.n)
           c == SeenFirst(context, seq)
           delta == Delta(c, seq)
<1>4. /\ p \in Everywhere /\ p.n \in Int /\ seq \in Seqs
      /\ p.roc # NoRoc => p.n \in Nat
  BY <1>1, SeqNumCounts DEF Everywhere, SenderInv, Numbered
<1>5. /\ context \in Contexts /\ newest \in Nat \cup {NoPacketYet}
      /\ spoiled \in BOOLEAN /\ NoPacketYet = -1 /\ WindowSize \in Nat \ {0}
  BY <1>1, SrtpConstants DEF ReceiverInv, NoPacketYet
<1>6. c \in Contexts /\ GuessedRoc(c, seq) \in 0 .. RocMod - 1
  BY <1>4, <1>5, SeenFirstIsContext, GuessIsCounter
<1>7. /\ delta = Index(GuessedRoc(c, seq), seq) - LocalIndex(c) /\ delta \in Int
  BY <1>4, <1>6, DeltaIsTrue
<1>8. \/ /\ u.ok = TRUE /\ p.roc = GuessedRoc(c, seq)
         /\ u.context \in Updates(c, seq) /\ TRUE \in ReplayChecks(c, seq)
      \/ u.ok = FALSE /\ u.context = c
  BY UnprotectsCases
<1>9. CASE u.ok = FALSE
  <2>1. /\ context' = c /\ UNCHANGED <<newest, ahead, again>>
        /\ spoiled' = (spoiled \/ ~context.seqNumSet)
    BY <1>3, <1>8, <1>9
  <2>2. ~spoiled /\ context' = context
    BY <1>5, <2>1 DEF SeenFirst
  <2> QED
    BY <2>1, <2>2 DEF Marked
<1>10. CASE u.ok = TRUE
  <2>1. /\ context' \in Updates(c, seq) /\ p.roc = GuessedRoc(c, seq)
        /\ TRUE \in ReplayChecks(c, seq)
        /\ newest' = (IF p.n > newest THEN p.n ELSE newest)
        /\ ahead' = (IF p.n > newest THEN ahead \cup {p.n} ELSE ahead)
        /\ again' = (IF p.n \in ahead /\ newest - p.n < WindowSize
                       THEN again \cup {p.n} ELSE again)
        /\ spoiled' = (spoiled \/ (p.n < newest /\ seq > context.s_l))
    BY <1>3, <1>8, <1>10 DEF Accepted
  <2>2. ~spoiled /\ p.n \in Nat
    BY <1>4, <1>5, <1>6, <2>1, RocsAreCounters
  <2>3. /\ again = {} /\ \A n \in ahead : n \in Nat /\ n <= newest
        /\ \A n \in ahead : newest - n \in Window => newest - n \in context.replay_window
    BY <2>2 DEF Marked
  <2>4. /\ delta >= 0 => 0 \in context'.replay_window
        /\ delta > 0 =>
             \A b \in c.replay_window :
               b + delta \in Window => b + delta \in context'.replay_window
        /\ delta <= 0 => c.replay_window \subseteq context'.replay_window
    BY <1>4, <1>6, <1>7, <2>1, UpdatesMark
(* The first packet.                                                       *)
  <2>5. CASE newest = NoPacketYet
    <3>1. ahead = {} /\ p.n > newest
      BY <1>5, <2>2, <2>3, <2>5
    <3>2. newest' = p.n /\ ahead' = {p.n} /\ again' = {}
      BY <2>1, <2>3, <3>1
    <3>3. c.s_l = seq
      BY <1>2, <1>5, <2>2, <2>5 DEF Follows, SeenFirst, Contexts
    <3>4. GuessedRoc(c, seq) = c.roc
      BY <1>4, <3>3, HalfOfAll DEF GuessedRoc, Seqs
    <3>5. LocalIndex(c) \in Int
      BY <1>4, <1>6, <3>3, SrtpConstants DEF LocalIndex, Index, Contexts, Seqs
    <3>6. delta = 0
      BY <1>7, <3>3, <3>4, <3>5 DEF LocalIndex
    <3>7. 0 \in context'.replay_window
      BY <2>4, <3>6
    <3>8. p.n - p.n = 0
      BY <2>2
    <3> QED
      BY <2>2, <3>2, <3>7, <3>8 DEF Marked
  <2>6. CASE newest # NoPacketYet
    <3>1. newest \in Nat /\ c = context /\ LocalIndex(context) = newest - base
      BY <1>2, <1>5, <2>2, <2>6 DEF Follows, SeenFirst
    <3>2. Index(p.roc, seq) = p.n - base /\ base \in Int
      BY <1>2, <1>4, <1>6, <2>1, RocsAreCounters DEF SenderIndexed, Indexed
    <3>3. delta = p.n - newest
      BY <1>7, <2>1, <2>2, <3>1, <3>2
(* A repeated one is not accepted.                                         *)
    <3>4. ~(p.n \in ahead /\ newest - p.n < WindowSize)
      <4> SUFFICES ASSUME p.n \in ahead, newest - p.n < WindowSize PROVE FALSE
        OBVIOUS
      <4>1. newest - p.n \in Window
        BY <1>5, <2>2, <2>3, <3>1 DEF Window
      <4>2. -delta = newest - p.n
        <5>1. delta \in Int /\ newest \in Nat /\ p.n \in Nat
          BY <1>7, <2>2, <3>1
        <5> HIDE DEF delta
        <5> QED
          BY <3>3, <5>1
      <4>3. newest - p.n \in c.replay_window
        BY <2>3, <3>1, <4>1
      <4> QED
        BY <1>7, <2>1, <4>1, <4>2, <4>3, MarkedIsRefused
    <3>5. again' = {}
      BY <2>1, <2>3, <3>4
    <3>6. CASE p.n > newest
      <4>1. newest' = p.n /\ ahead' = ahead \cup {p.n}
        BY <2>1, <3>6
      <4>2. \A n \in ahead' : n \in Nat /\ n <= newest'
        BY <2>2, <2>3, <3>1, <3>6, <4>1
      <4>3. ASSUME NEW n \in ahead', newest' - n \in Window
            PROVE  newest' - n \in context'.replay_window
        <5>1. CASE n = p.n
          <6>1. newest' - n = 0
            BY <2>2, <4>1, <5>1
          <6>2. delta >= 0
            BY <2>2, <3>1, <3>3, <3>6
          <6> QED
            BY <2>4, <6>1, <6>2
        <5>2. CASE n \in ahead
          <6>1. /\ n \in Nat /\ n <= newest
                /\ newest - n \in Window => newest - n \in c.replay_window
            BY <2>3, <3>1, <5>2
          <6>2. newest - n + delta = newest' - n /\ delta > 0
            BY <2>2, <3>1, <3>3, <3>6, <4>1, <6>1
          <6>3. newest - n \in Window
            BY <1>5, <2>2, <3>1, <3>6, <4>1, <4>3, <6>1 DEF Window
          <6> QED
            BY <2>4, <4>3, <6>1, <6>2, <6>3
        <5> QED
          BY <4>1, <5>1, <5>2
      <4> QED
        BY <3>5, <4>2, <4>3 DEF Marked
    <3>7. CASE ~(p.n > newest)
      <4>1. newest' = newest /\ ahead' = ahead
        BY <2>1, <3>7
      <4>2. c.replay_window \subseteq context'.replay_window
        BY <2>2, <2>4, <3>1, <3>3, <3>7
      <4> QED
        BY <2>3, <3>1, <3>5, <4>1, <4>2 DEF Marked
    <3> QED
      BY <3>6, <3>7
  <2> QED
    BY <2>5, <2>6
<1> QED
  BY <1>8, <1>9, <1>10

(* A packet that came as the newest is not taken a second time when the    *)
(* network repeats it, as long as it is less late than the window is wide  *)
(* (CryptoContext.cxx:402-470).                                            *)
THEOREM TakenOnce == Spec => []NewestOnce
<1>1. Init => Marked
  BY DEF Init, Marked
<1>2. CounterInv /\ Marked /\ [Next]_vars => Marked'
  <2> SUFFICES ASSUME CounterInv, Marked, [Next]_vars PROVE Marked'
    OBVIOUS
  <2>1. CASE TakeInDataPacket
    BY <2>1, TakeInMarks
  <2>2. CASE Sender \/ Report \/ UNCHANGED vars
    <3>1. UNCHANGED <<context, newest, spoiled, ahead, again>>
      BY <2>2 DEF Sender, Report, vars, receiverVars
    <3> QED
      BY <3>1 DEF Marked
  <2> QED
    BY <2>1, <2>2 DEF Next
<1>3. Marked => NewestOnce
  BY DEF Marked, NewestOnce
<1>4. Spec => []CounterInv
  BY CounterInvHolds
<1> QED
  BY <1>1, <1>2, <1>3, <1>4, PTL DEF Spec

-----------------------------------------------------------------------------
(* What a thread has aimed at is in its list, and while nobody disturbs it,*)
(* what it has reached and what it has to do make up the destinations.     *)
Reaching(t) ==
  LET d == dispatch[t] IN
  /\ d.aimed => Sending(t) /\ d.todo # <<>> /\ peer \in Dest
  /\ d.aimed /\ ~d.disturbed => peer = Head(d.todo)
  /\ Sending(t) /\ ~d.disturbed => d.reached \cup ToSet(d.todo) = ToSet(destList)

SenderTypes ==
  /\ next \in Ids \cup {FirstSeq + MaxPackets} /\ segments \in 0 .. 2
  /\ outContext \in {NoRoc} \cup 0 .. RocMod - 1
  /\ sendQueue \in Seq(Packets) /\ sendLock \in Threads \cup {"free"}
  /\ destList \in Seq(Dest) /\ peer \in Dest \cup {NoDest}
  /\ dispatch \in [Threads -> Dispatches]
  /\ service_pc \in {"schedule", "expire", "dispatch", "send"}
  /\ net \subseteq Packets

SenderReaches == SenderTypes /\ \A t \in Threads : Reaching(t)

LEMMA HeadAndTail ==
  ASSUME NEW S, NEW s \in Seq(S), s # <<>>
  PROVE  /\ Head(s) \in S /\ Tail(s) \in Seq(S)
         /\ ToSet(s) = {Head(s)} \cup ToSet(Tail(s))
<1>1. /\ Len(s) \in Nat \ {0} /\ DOMAIN s = 1 .. Len(s)
      /\ \A i \in 1 .. Len(s) : s[i] \in S
  BY EmptySeq
<1>2. Head(s) = s[1] /\ Head(s) \in S
  BY <1>1
<1>3. /\ Tail(s) \in Seq(S) /\ DOMAIN Tail(s) = 1 .. Len(s) - 1
      /\ \A i \in 1 .. Len(s) - 1 : Tail(s)[i] = s[i + 1]
  BY <1>1
<1>4. \A i \in 2 .. Len(s) : i - 1 \in 1 .. Len(s) - 1 /\ s[i] = Tail(s)[i - 1]
  BY <1>1, <1>3
<1>5. ToSet(s) \subseteq {Head(s)} \cup ToSet(Tail(s))
  <2> SUFFICES ASSUME NEW i \in 1 .. Len(s)
               PROVE  s[i] \in {Head(s)} \cup ToSet(Tail(s))
    BY <1>1 DEF ToSet
  <2>1. i = 1 \/ i \in 2 .. Len(s)
    BY <1>1
  <2> QED
    BY <1>2, <1>3, <1>4, <2>1 DEF ToSet
<1>6. {Head(s)} \cup ToSet(Tail(s)) \subseteq ToSet(s)
  BY <1>1, <1>2, <1>3 DEF ToSet
<1> QED
  BY <1>2, <1>3, <1>5, <1>6

LEMMA OtherThread ==
  ASSUME NEW t \in Threads
  PROVE  Other(t) \in Threads /\ Other(t) # t /\ Threads = {t, Other(t)}
BY DEF Threads, Other

(* A thread starts to send to the destinations there are.                  *)
LEMMA StartReaches ==
  ASSUME SenderReaches, NEW t \in Threads, NEW packet \in Packets,
         Start(t, packet), UNCHANGED <<destList, peer>>
  PROVE  /\ dispatch' \in [Threads -> Dispatches]
         /\ \A u \in Threads : Reaching(u)'
<1> DEFINE d == [Idle EXCEPT !.packet = packet, !.todo = destList]
<1>1. Idle \in Dispatches /\ ~Idle.aimed /\ Idle.reached = {}
  BY DEF Idle, Dispatches
<1>2. d \in Dispatches /\ ~d.aimed /\ d.reached = {} /\ d.todo = destList
  <2>1. packet \in Packets \cup {NoPacket} /\ destList \in Seq(Dest)
    BY DEF SenderReaches, SenderTypes
  <2> QED
    BY <1>1, <2>1 DEF Dispatches
<1>3. dispatch' = [dispatch EXCEPT ![t] = d] /\ dispatch \in [Threads -> Dispatches]
  BY DEF Start, SenderReaches, SenderTypes
<1> HIDE DEF d
<1>4. dispatch' \in [Threads -> Dispatches]
  BY <1>2, <1>3
<1>5. ASSUME NEW u \in Threads PROVE Reaching(u)'
  <2>1. CASE u = t
    <3>1. /\ ~dispatch'[u].aimed /\ dispatch'[u].reached = {}
          /\ dispatch'[u].todo = destList /\ destList' = destList
      BY <1>2, <1>3, <2>1
    <3> QED
      BY <3>1 DEF Reaching
  <2>2. CASE u # t
    <3>1. dispatch'[u] = dispatch[u]
      BY <1>3, <2>2
    <3> QED
      BY <3>1 DEF SenderReaches, Reaching, Sending
  <2> QED
    BY <2>1, <2>2
<1> QED
  BY <1>4, <1>5

(* A thread that is done is idle.                                          *)
LEMMA IdleReaches ==
  ASSUME SenderReaches, NEW t \in Threads,
         dispatch' = [dispatch EXCEPT ![t] = Idle], UNCHANGED <<destList, peer>>
  PROVE  /\ dispatch' \in [Threads -> Dispatches]
         /\ \A u \in Threads : Reaching(u)'
<1>1. /\ Idle \in Dispatches /\ Idle.packet = NoPacket /\ ~Idle.aimed
  BY DEF Idle, Dispatches
<1>2. dispatch \in [Threads -> Dispatches]
  BY DEF SenderReaches, SenderTypes
<1>3. dispatch' \in [Threads -> Dispatches]
  BY <1>1, <1>2
<1>4. ASSUME NEW u \in Threads PROVE Reaching(u)'
  <2>1. CASE u = t
    <3>1. dispatch'[u].packet = NoPacket /\ ~dispatch'[u].aimed
      BY <1>1, <1>2, <2>1
    <3> QED
      BY <3>1 DEF Reaching, Sending
  <2>2. CASE u # t
    <3>1. dispatch'[u] = dispatch[u]
      BY <1>2, <2>2
    <3> QED
      BY <3>1 DEF SenderReaches, Reaching, Sending
  <2> QED
    BY <2>1, <2>2
<1> QED
  BY <1>3, <1>4

(* The peer is set, behind the back of the other thread.                   *)
LEMMA SetPeerReaches ==
  ASSUME SenderReaches, NEW t \in Threads, SetPeer(t)
  PROVE  /\ dispatch' \in [Threads -> Dispatches] /\ peer' \in Dest
         /\ \A u \in Threads : Reaching(u)'
<1> DEFINE o == Other(t)
           a == dispatch[t]
           b == dispatch[o]
<1>1. o \in Threads /\ o # t /\ Threads = {t, o}
  BY OtherThread
<1>2. dispatch \in [Threads -> Dispatches] /\ a \in Dispatches /\ b \in Dispatches
  BY <1>1 DEF SenderReaches, SenderTypes
<1>3. /\ a.todo \in Seq(Dest) /\ a.todo # <<>> /\ a.packet # NoPacket
      /\ peer' = Head(a.todo) /\ destList' = destList
  BY <1>2 DEF SetPeer, Aim, Sending, Dispatches
<1>4. peer' \in Dest
  BY <1>3, HeadAndTail
<1>5. /\ dispatch'[t] = [a EXCEPT !.aimed = TRUE]
      /\ dispatch'[o] = [b EXCEPT !.disturbed = b.disturbed \/ b.aimed]
  BY <1>1, <1>2, <1>3 DEF SetPeer
<1>6. dispatch' = [u \in Threads |-> dispatch'[u]]
  BY <1>2 DEF SetPeer
<1>7. dispatch'[t] \in Dispatches /\ dispatch'[o] \in Dispatches
  BY <1>2, <1>5 DEF Dispatches
<1>8. dispatch' \in [Threads -> Dispatches]
  BY <1>1, <1>6, <1>7
<1>9. Reaching(t)'
  <2>1. /\ dispatch'[t].todo = a.todo /\ dispatch'[t].packet = a.packet
        /\ dispatch'[t].reached = a.reached /\ dispatch'[t].disturbed = a.disturbed
    BY <1>2, <1>5 DEF Dispatches
  <2>2. ~a.disturbed => a.reached \cup ToSet(a.todo) = ToSet(destList)
    BY <1>3 DEF SenderReaches, Reaching, Sending
  <2> QED
    BY <1>3, <1>4, <2>1, <2>2 DEF Reaching, Sending
<1>10. Reaching(o)'
  <2>1. /\ dispatch'[o].todo = b.todo /\ dispatch'[o].packet = b.packet
        /\ dispatch'[o].reached = b.reached /\ dispatch'[o].aimed = b.aimed
        /\ dispatch'[o].disturbed = (b.disturbed \/ b.aimed)
    BY <1>2, <1>5 DEF Dispatches
  <2>2. Reaching(o)
    BY <1>1 DEF SenderReaches
  <2> QED
    BY <1>3, <1>4, <2>1, <2>2 DEF Reaching, Sending
<1> QED
  BY <1>1, <1>4, <1>8, <1>9, <1>10

(* The packet goes to the destination the thread has aimed at, if nobody   *)
(* disturbs it.                                                            *)
LEMMA SendDataReaches ==
  ASSUME SenderReaches, NEW t \in Threads, SendData(t)
  PROVE  /\ dispatch' \in [Threads -> Dispatches] /\ net' \subseteq Packets
         /\ \A u \in Threads : Reaching(u)'
<1> DEFINE a == dispatch[t]
<1>1. dispatch \in [Threads -> Dispatches] /\ a \in Dispatches /\ net \subseteq Packets
  BY DEF SenderReaches, SenderTypes
<1>2. /\ a.packet # NoPacket /\ a.aimed /\ a.todo # <<>> /\ peer \in Dest
      /\ ~a.disturbed => peer = Head(a.todo)
      /\ ~a.disturbed => a.reached \cup ToSet(a.todo) = ToSet(destList)
  BY DEF SenderReaches, SendData, Reaching, Sending
<1>3. a.packet \in Packets /\ a.todo \in Seq(Dest) /\ a.reached \subseteq Dest
  BY <1>1, <1>2 DEF Dispatches
<1>4. /\ Tail(a.todo) \in Seq(Dest)
      /\ ToSet(a.todo) = {Head(a.todo)} \cup ToSet(Tail(a.todo))
  BY <1>2, <1>3, HeadAndTail
<1>5. net' \subseteq Packets
  BY <1>1, <1>3 DEF SendData
<1>6. /\ dispatch'[t] = [a EXCEPT !.todo = Tail(a.todo), !.aimed = FALSE,
                                  !.reached = a.reached \cup {peer}]
      /\ \A u \in Threads \ {t} : dispatch'[u] = dispatch[u]
      /\ dispatch' = [u \in Threads |-> dispatch'[u]]
      /\ destList' = destList /\ peer' = peer
  BY <1>1 DEF SendData
<1>7. /\ dispatch'[t].todo = Tail(a.todo) /\ ~dispatch'[t].aimed
      /\ dispatch'[t].reached = a.reached \cup {peer}
      /\ dispatch'[t].disturbed = a.disturbed
  BY <1>1, <1>6 DEF Dispatches
<1>8. dispatch'[t] \in Dispatches
  <2>1. /\ a.reached \cup {peer} \in SUBSET Dest /\ FALSE \in BOOLEAN
        /\ Tail(a.todo) \in Seq(Dest)
    BY <1>2, <1>3, <1>4
  <2> DEFINE to == Tail(a.todo)
             reached == a.reached \cup {peer}
  <2>2. dispatch'[t] = [a EXCEPT !.todo = to, !.aimed = FALSE, !.reached = reached]
    BY <1>6
  <2>3. to \in Seq(Dest) /\ reached \in SUBSET Dest
    BY <2>1
  <2> HIDE DEF to, reached
  <2> QED
    BY <1>1, <2>2, <2>3 DEF Dispatches
<1>9. dispatch' \in [Threads -> Dispatches]
  BY <1>1, <1>6, <1>8
<1>10. ASSUME NEW u \in Threads PROVE Reaching(u)'
  <2>1. CASE u = t
    BY <1>2, <1>4, <1>6, <1>7, <2>1 DEF Reaching
  <2>2. CASE u # t
    <3>1. dispatch'[u] = dispatch[u]
      BY <1>6, <2>2
    <3> QED
      BY <1>6, <3>1 DEF SenderReaches, Reaching, Sending
  <2> QED
    BY <2>1, <2>2
<1> QED
  BY <1>5, <1>9, <1>10

(* What the application and the service thread do to each other.           *)
LEMMA SenderReachesStep ==
  ASSUME SenderInv, SenderReaches, Sender
  PROVE  SenderReaches'
<1> DEFINE Rest ==
             /\ next' \in Ids \cup {FirstSeq + MaxPackets} /\ segments' \in 0 .. 2
             /\ outContext' \in {NoRoc} \cup 0 .. RocMod - 1
             /\ sendQueue' \in Seq(Packets) /\ sendLock' \in Threads \cup {"free"}
             /\ destList' \in Seq(Dest) /\ peer' \in Dest \cup {NoDest}
             /\ service_pc' \in {"schedule", "expire", "dispatch", "send"}
             /\ net' \subseteq Packets
           Threading == /\ dispatch' \in [Threads -> Dispatches]
                        /\ \A u \in Threads : Reaching(u)'
<1>1. SenderTypes /\ \A u \in Threads : Reaching(u)
  BY DEF SenderReaches
<1>2. /\ next \in Nat /\ segments \in Nat /\ FirstSeq <= next
      /\ next + segments <= FirstSeq + MaxPackets
      /\ service_pc # "schedule" => sendQueue # <<>>
      /\ FirstSeq \in Nat /\ MaxPackets \in Nat
  BY RocsAreCounters DEF SenderInv
<1>3. /\ "app" \in Threads /\ "service" \in Threads /\ "free" \in Threads \cup {"free"}
      /\ "schedule" \in {"schedule", "expire", "dispatch", "send"}
      /\ "send" \in {"schedule", "expire", "dispatch", "send"}
  BY DEF Threads
<1>4. ASSUME UNCHANGED <<destList, peer, dispatch>> PROVE Threading
  BY <1>1, <1>4 DEF SenderTypes, Reaching, Sending
<1>5. ASSUME NEW roc \in {NoRoc} \cup 0 .. RocMod - 1, next \in Ids
      PROVE  /\ Made(roc) \in Packets
             /\ After(roc) \in {NoRoc} \cup 0 .. RocMod - 1
             /\ next + 1 \in Ids \cup {FirstSeq + MaxPackets}
  <2>1. Made(roc) \in Packets
    BY <1>5 DEF Made, Packets
  <2>2. After(roc) \in {NoRoc} \cup 0 .. RocMod - 1
    BY <1>5, RocsAreCounters DEF After, RocAfter
  <2>3. next + 1 \in Ids \cup {FirstSeq + MaxPackets}
    BY <1>2, <1>5 DEF Ids
  <2> QED
    BY <2>1, <2>2, <2>3
<1> HIDE DEF Rest, Threading
<1>6. ASSUME Rest, Threading PROVE SenderReaches'
  BY <1>6 DEF Rest, Threading, SenderReaches, SenderTypes
<1>7. CASE PutData
  <2>1. segments' \in 0 .. 2
    BY <1>7 DEF PutData
  <2> QED
    BY <1>1, <1>4, <1>6, <1>7, <2>1 DEF PutData, SenderTypes, Rest
<1>8. CASE PutSegment
  <2>1. next \in Ids /\ segments' \in 0 .. 2
    BY <1>1, <1>2, <1>8 DEF PutSegment, Ids, SenderTypes
  <2>2. ContextForPut \in {NoRoc} \cup 0 .. RocMod - 1
    BY <1>1, RocsAreCounters DEF ContextForPut, SenderTypes
  <2> DEFINE made == Made(ContextForPut)
             after == After(ContextForPut)
  <2>3. /\ made \in Packets /\ after \in {NoRoc} \cup 0 .. RocMod - 1
        /\ next + 1 \in Ids \cup {FirstSeq + MaxPackets}
    BY <1>5, <2>1, <2>2
  <2>4. sendQueue' = Append(sendQueue, made) /\ outContext' = after /\ next' = next + 1
    BY <1>8 DEF PutSegment, Queued
  <2> HIDE DEF made, after
  <2>5. sendQueue' \in Seq(Packets)
    BY <1>1, <2>3, <2>4 DEF SenderTypes
  <2> QED
    BY <1>1, <1>3, <1>4, <1>6, <1>8, <2>1, <2>3, <2>4, <2>5
    DEF PutSegment, SenderTypes, Rest
<1>9. CASE SetPartial
  <2>1. sendQueue' \in Seq(Packets)
    <3>1. sendQueue \in Seq(Packets)
      BY <1>1 DEF SenderTypes
    <3>2. ASSUME NEW i \in DOMAIN sendQueue,
                 sendQueue' = [sendQueue EXCEPT ![i].roc = NoRoc]
          PROVE  sendQueue' \in Seq(Packets)
      <4>1. i \in 1 .. Len(sendQueue) /\ sendQueue[i] \in Packets
        BY <3>1, <3>2
      <4>2. [sendQueue[i] EXCEPT !.roc = NoRoc] \in Packets
        BY <4>1 DEF Packets
      <4> QED
        BY <3>1, <3>2, <4>1, <4>2
    <3> QED
      BY <1>9, <3>1, <3>2 DEF SetPartial
  <2> QED
    BY <1>1, <1>3, <1>4, <1>6, <1>9, <2>1 DEF SetPartial, SenderTypes, Rest
<1>10. CASE SendImmediate
  <2>1. /\ Made(outContext) \in Packets
        /\ After(outContext) \in {NoRoc} \cup 0 .. RocMod - 1
        /\ next + 1 \in Ids \cup {FirstSeq + MaxPackets}
    BY <1>1, <1>5, <1>10 DEF SenderTypes, SendImmediate
  <2>2. Start("app", Made(outContext)) /\ UNCHANGED <<destList, peer>>
    BY <1>10 DEF SendImmediate
  <2>3. Threading
    BY <1>3, <2>1, <2>2, StartReaches DEF Threading
  <2> QED
    BY <1>1, <1>6, <1>10, <2>1, <2>3 DEF SendImmediate, SenderTypes, Rest
<1>11. CASE Sent
  <2>1. Threading
    BY <1>3, <1>11, IdleReaches DEF Sent, Threading
  <2> QED
    BY <1>1, <1>6, <1>11, <2>1 DEF Sent, SenderTypes, Rest
<1>12. ASSUME NEW t \in Threads, SetPeer(t) PROVE SenderReaches'
  <2>1. Threading /\ peer' \in Dest
    BY <1>12, SetPeerReaches DEF Threading
  <2> QED
    BY <1>1, <1>6, <1>12, <2>1 DEF SetPeer, SenderTypes, Rest
<1>13. ASSUME NEW t \in Threads, SendData(t) PROVE SenderReaches'
  <2>1. Threading /\ net' \subseteq Packets
    BY <1>13, SendDataReaches DEF Threading
  <2> QED
    BY <1>1, <1>6, <1>13, <2>1 DEF SendData, SenderTypes, Rest
(* The destinations change while nobody is sending to them.                *)
<1>14. ASSUME NEW d \in Dest, AddDestination(d) \/ ForgetDestination(d)
       PROVE  SenderReaches'
  <2>1. \A t \in Threads : ~Sending(t)
    BY <1>14 DEF AddDestination, ForgetDestination, Threads
  <2>2. /\ destList \in Seq(Dest) /\ dispatch' = dispatch
        /\ UNCHANGED <<next, segments, outContext, sendQueue, sendLock, service_pc, net>>
    BY <1>1, <1>14 DEF AddDestination, ForgetDestination, SenderTypes
  <2>3. Threading
    BY <1>1, <2>1, <2>2 DEF Threading, SenderTypes, Reaching, Sending
  <2>4. destList' \in Seq(Dest) /\ peer' \in Dest \cup {NoDest}
    <3>1. CASE AddDestination(d)
      BY <1>1, <2>2, <3>1 DEF AddDestination, SenderTypes
    <3>2. CASE ForgetDestination(d)
      <4>1. PICK i \in DOMAIN destList : destList' = RemoveAt(destList, i)
        BY <3>2 DEF ForgetDestination
      <4>2. /\ SubSeq(destList, 1, i - 1) \in Seq(Dest)
            /\ SubSeq(destList, i + 1, Len(destList)) \in Seq(Dest)
        BY <2>2
      <4>3. destList' \in Seq(Dest)
        BY <4>1, <4>2 DEF RemoveAt
      <4> QED
        BY <1>1, <3>2, <4>3 DEF ForgetDestination, SenderTypes
    <3> QED
      BY <1>14, <3>1, <3>2
  <2> QED
    BY <1>1, <1>6, <2>2, <2>3, <2>4 DEF SenderTypes, Rest
<1>15. CASE Schedule
  BY <1>1, <1>4, <1>6, <1>15 DEF Schedule, SenderTypes, Rest
<1>16. ASSUME sendQueue # <<>>
       PROVE  Head(sendQueue) \in Packets /\ Tail(sendQueue) \in Seq(Packets)
  BY <1>1, <1>16, HeadAndTail DEF SenderTypes
<1>17. CASE Expire
  BY <1>1, <1>2, <1>3, <1>4, <1>6, <1>16, <1>17 DEF Expire, SenderTypes, Rest
<1>18. CASE Dispatch
  <2>1. Head(sendQueue) \in Packets
    BY <1>2, <1>16, <1>18 DEF Dispatch
  <2>2. Start("service", Head(sendQueue)) /\ UNCHANGED <<destList, peer>>
    BY <1>18 DEF Dispatch
  <2>3. Threading
    BY <1>3, <2>1, <2>2, StartReaches DEF Threading
  <2> QED
    BY <1>1, <1>3, <1>6, <1>18, <2>3 DEF Dispatch, SenderTypes, Rest
<1>19. CASE Dispatched
  <2>1. Tail(sendQueue) \in Seq(Packets)
    BY <1>2, <1>16, <1>19 DEF Dispatched
  <2>2. Threading
    BY <1>3, <1>19, IdleReaches DEF Dispatched, Threading
  <2> QED
    BY <1>1, <1>3, <1>6, <1>19, <2>1, <2>2 DEF Dispatched, SenderTypes, Rest
<1> QED
  BY <1>3, <1>7, <1>8, <1>9, <1>10, <1>11, <1>12, <1>13, <1>14, <1>15, <1>17,
     <1>18, <1>19 DEF Sender, App, Service

-----------------------------------------------------------------------------
(* The receiver's record of the sender keeps its types, and its probation  *)
(* is never longer than the one it began with.                             *)
Recording == reception \in Source!Receptions /\ reception.probation <= MinValid

LEMMA CountersFit ==
  /\ SEQNUMMOD \in Nat \ {0, 1} /\ CountMod \in Nat \ {0} /\ MinValid \in Nat
  /\ MaxDropout \in 0 .. SEQNUMMOD /\ MaxMisorder \in 0 .. SEQNUMMOD
BY SrtpConstants, PathConstants

LEMMA RecordKeeps ==
  ASSUME NEW r \in Source!Receptions, r.probation <= MinValid,
         NEW seq \in Seqs, NEW n \in Nat
  PROVE  LET v == Source!RecordReception(r, seq, n)
         IN /\ v.ok \in BOOLEAN /\ v.r \in Source!Receptions
            /\ v.r.probation <= MinValid
<1> DEFINE Good(s) == s \in Source!Receptions /\ s.probation <= MinValid
           v == Source!Validate(r, seq)
<1>1. /\ seq \in Source!Seqs /\ (seq + 1) % SEQNUMMOD \in Source!Seqs
      /\ seq \in Nat /\ seq < SEQNUMMOD /\ MinValid \in Nat
  BY CountersFit DEF Source!Seqs, Seqs
<1>2. /\ r.maxSeqNum \in Int /\ r.probation \in Nat /\ r.seqNumAccum \in Nat
      /\ Source!Ahead(r, seq) \in Int /\ MaxDropout \in Int
  BY <1>1, CountersFit DEF Source!Receptions, Source!Seqs, Source!Ahead
<1>3. ASSUME NEW s, Good(s) PROVE Good(Source!Observe(s, n))
  <2> DEFINE count == (s.obsPacketCount + 1) % CountMod
             stamp == IF count = 1 THEN n ELSE s.initialDataTimestamp
  <2>1. s \in Source!Receptions /\ s.probation <= MinValid
    BY <1>3
  <2>2. count \in Source!Counts /\ stamp \in Nat
    BY <2>1, CountersFit DEF Source!Receptions, Source!Counts
  <2>3. Source!Observe(s, n) = [s EXCEPT !.obsPacketCount = count,
                                         !.initialDataTimestamp = stamp]
    BY <2>1 DEF Source!Observe, Source!Receptions
  <2> HIDE DEF count, stamp
  <2> QED
    BY <2>1, <2>2, <2>3 DEF Source!Receptions
<1>4. /\ Good([r EXCEPT !.maxSeqNum = seq]) /\ Good(Source!InitSequence(r, seq))
      /\ Good(r)
  BY <1>1 DEF Source!InitSequence, Source!Receptions
<1> DEFINE w == Source!RecordReception(r, seq, n)
<1>5. ASSUME v.ok \in BOOLEAN, Good(v.r)
      PROVE  w.ok \in BOOLEAN /\ Good(w.r)
  <2>1. CASE v.ok
    <3>1. w = [ok |-> TRUE, r |-> Source!Observe(v.r, n)]
      BY <2>1 DEF Source!RecordReception
    <3>2. w.ok = TRUE /\ w.r = Source!Observe(v.r, n)
      BY <3>1
    <3> QED
      BY <1>3, <1>5, <3>2
  <2>2. CASE ~v.ok
    <3>1. w = v
      BY <2>2 DEF Source!RecordReception
    <3> QED
      BY <1>5, <3>1
  <2> QED
    BY <1>5, <2>1, <2>2
<1> HIDE DEF w
<1>6. CASE ~Source!IsValid(r)
  <2>1. v = Source!Probe(r, seq)
    BY <1>6 DEF Source!Validate
  <2> DEFINE left == r.probation - 1
             restart == MinValid - 1
             zeroed == [r EXCEPT !.probation = 0]
  <2>2. left \in Nat /\ left <= MinValid /\ restart \in Nat /\ restart <= MinValid
    BY <1>1, <1>2, <1>6 DEF Source!IsValid
  <2>3. Good(zeroed)
    <3>1. 0 \in Nat /\ 0 <= MinValid
      BY <1>1
    <3> QED
      BY <3>1 DEF Source!Receptions
  <2>4. Good(Source!InitSequence(zeroed, seq))
    <3> HIDE DEF zeroed
    <3> QED
      BY <1>1, <2>3 DEF Source!InitSequence, Source!Receptions
  <2>5. v \in {[ok |-> TRUE, r |-> Source!InitSequence(zeroed, seq)],
               [ok |-> FALSE, r |-> [r EXCEPT !.probation = left, !.maxSeqNum = seq]],
               [ok |-> FALSE, r |-> [r EXCEPT !.probation = restart, !.maxSeqNum = seq]]}
    BY <2>1 DEF Source!Probe
  <2> HIDE DEF left, restart, zeroed, v
  <2>6. /\ Good([r EXCEPT !.probation = left, !.maxSeqNum = seq])
        /\ Good([r EXCEPT !.probation = restart, !.maxSeqNum = seq])
    BY <1>1, <2>2 DEF Source!Receptions
  <2> DEFINE a == Source!InitSequence(zeroed, seq)
             b == [r EXCEPT !.probation = left, !.maxSeqNum = seq]
             c == [r EXCEPT !.probation = restart, !.maxSeqNum = seq]
  <2>7. Good(a) /\ Good(b) /\ Good(c)
    BY <2>4, <2>6
  <2>8. \/ v = [ok |-> TRUE, r |-> a] \/ v = [ok |-> FALSE, r |-> b]
        \/ v = [ok |-> FALSE, r |-> c]
    BY <2>5
  <2> HIDE DEF a, b, c, Good
  <2>9. v.ok \in BOOLEAN /\ v.r \in {a, b, c}
    <3>1. v.ok = TRUE \/ v.ok = FALSE
      BY <2>8
    <3>2. v.r \in {a, b, c}
      BY <2>8
    <3> QED
      BY <3>1, <3>2
  <2>10. Good(v.r)
    BY <2>7, <2>9
  <2> QED
    BY <1>5, <2>9, <2>10 DEF v, Good, w
<1>7. CASE Source!IsValid(r) /\ Source!Ahead(r, seq) < MaxDropout
  <2>1. v = [ok |-> TRUE, r |-> Source!Advance(r, seq)]
    BY <1>2, <1>7 DEF Source!Validate
  <2> DEFINE accum == IF seq < r.maxSeqNum THEN r.seqNumAccum + SEQNUMMOD
                                           ELSE r.seqNumAccum
  <2>2. accum \in Nat
    BY <1>2, CountersFit
  <2>3. Source!Advance(r, seq) = [r EXCEPT !.maxSeqNum = seq, !.seqNumAccum = accum]
    BY DEF Source!Advance, Source!Receptions
  <2> HIDE DEF accum
  <2>4. Good(Source!Advance(r, seq))
    BY <1>1, <2>2, <2>3 DEF Source!Receptions
  <2> QED
    BY <1>5, <2>1, <2>4 DEF w
<1>8. CASE Source!IsValid(r) /\ Source!Ahead(r, seq) >= MaxDropout
           /\ Source!Ahead(r, seq) <= SEQNUMMOD - MaxMisorder
  <2>1. v = Source!Jump(r, seq)
    BY <1>2, <1>8 DEF Source!Validate
  <2> DEFINE bad == [r EXCEPT !.badSeqNum = (seq + 1) % SEQNUMMOD]
  <2>2. Good(bad)
    BY <1>1 DEF Source!Receptions
  <2>3. v \in {[ok |-> TRUE, r |-> Source!InitSequence(r, seq)],
               [ok |-> FALSE, r |-> bad],
               [ok |-> TRUE, r |-> [bad EXCEPT !.maxSeqNum = seq]]}
    BY <2>1 DEF Source!Jump
  <2> HIDE DEF bad, v
  <2>4. Good([bad EXCEPT !.maxSeqNum = seq])
    BY <1>1, <2>2 DEF Source!Receptions
  <2> DEFINE a == Source!InitSequence(r, seq)
             c == [bad EXCEPT !.maxSeqNum = seq]
  <2>5. Good(a) /\ Good(bad) /\ Good(c)
    BY <1>4, <2>2, <2>4
  <2>6. \/ v = [ok |-> TRUE, r |-> a] \/ v = [ok |-> FALSE, r |-> bad]
        \/ v = [ok |-> TRUE, r |-> c]
    BY <2>3
  <2> HIDE DEF a, c, Good
  <2>7. v.ok \in BOOLEAN /\ v.r \in {a, bad, c}
    <3>1. v.ok = TRUE \/ v.ok = FALSE
      BY <2>6
    <3>2. v.r \in {a, bad, c}
      BY <2>6
    <3> QED
      BY <3>1, <3>2
  <2>8. Good(v.r)
    BY <2>5, <2>7
  <2> QED
    BY <1>5, <2>7, <2>8 DEF v, Good, w
<1>9. CASE /\ Source!IsValid(r) /\ ~(Source!Ahead(r, seq) < MaxDropout)
           /\ ~(Source!Ahead(r, seq) >= MaxDropout
                  /\ Source!Ahead(r, seq) <= SEQNUMMOD - MaxMisorder)
  <2>1. v = [ok |-> TRUE, r |-> r]
    BY <1>9 DEF Source!Validate
  <2> QED
    BY <1>4, <1>5, <2>1 DEF w
<1> QED
  BY <1>2, <1>6, <1>7, <1>8, <1>9 DEF w

Reaches == SenderReaches /\ Recording

LEMMA ReachesStep == CounterInv /\ Reaches /\ [Next]_vars => Reaches'
<1> SUFFICES ASSUME CounterInv, Reaches, [Next]_vars PROVE Reaches'
  OBVIOUS
<1>1. SenderInv /\ SenderReaches /\ Recording
  BY DEF CounterInv, Reaches
<1>2. ASSUME UNCHANGED senderVars PROVE SenderReaches'
  BY <1>1, <1>2 DEF senderVars, SenderReaches, SenderTypes, Reaching, Sending
<1>3. CASE Sender
  <2>1. SenderReaches' /\ reception' = reception
    BY <1>1, <1>3, SenderReachesStep DEF Sender, receiverVars
  <2> QED
    BY <1>1, <2>1 DEF Reaches, Recording
<1>4. CASE TakeInDataPacket
  <2>1. SenderReaches'
    BY <1>2, <1>4 DEF TakeInDataPacket
  <2>2. PICK p \in net : reception' = reception \/ Accepted(p.n)
    BY <1>4 DEF TakeInDataPacket
  <2>3. p.n \in Nat
    <3>1. p \in Packets
      BY <1>1 DEF SenderReaches, SenderTypes
    <3>2. p.n \in Ids /\ FirstSeq \in Nat
      BY <3>1, RocsAreCounters DEF Packets
    <3> QED
      BY <3>2 DEF Ids
  <2>4. SeqNum(p.n) \in Seqs
    BY <2>3, SeqNumCounts
  <2> DEFINE v == Source!RecordReception(reception, SeqNum(p.n), p.n)
  <2>5. v.r \in Source!Receptions /\ v.r.probation <= MinValid
    BY <1>1, <2>3, <2>4, RecordKeeps DEF Recording
  <2>6. reception' = reception \/ reception' = v.r
    BY <2>2 DEF Accepted
  <2> HIDE DEF v
  <2> QED
    BY <1>1, <2>1, <2>5, <2>6 DEF Reaches, Recording
<1>5. CASE Report
  <2>1. SenderReaches'
    BY <1>2, <1>5 DEF Report
  <2> DEFINE expected == Source!ExpectedPackets(reception)
             received == reception.obsPacketCount
  <2>2. reception \in Source!Receptions /\ reception.probation <= MinValid
    BY <1>1 DEF Recording
  <2>3. reception' = [reception EXCEPT !.expectedPrior = expected,
                                       !.receivedPrior = received]
    BY <1>5 DEF Report, Source!ComputeStats
  <2>4. expected \in Source!Counts /\ received \in Source!Counts
    <3>1. /\ reception.maxSeqNum \in Int /\ reception.seqNumAccum \in Int
          /\ received \in Source!Counts
      BY <2>2, CountersFit DEF Source!Receptions, Source!Seqs
    <3> QED
      BY <3>1, CountersFit
      DEF Source!ExpectedPackets, Source!ExtendedMax, Source!BaseSeqNum, Source!Counts
  <2> HIDE DEF expected, received
  <2>5. Recording'
    BY <2>2, <2>3, <2>4 DEF Recording, Source!Receptions
  <2> QED
    BY <2>1, <2>5 DEF Reaches
<1>6. CASE UNCHANGED vars
  <2>1. UNCHANGED senderVars /\ reception' = reception
    BY <1>6 DEF vars, receiverVars
  <2> QED
    BY <1>1, <1>2, <2>1 DEF Reaches, Recording
<1> QED
  BY <1>3, <1>4, <1>5, <1>6 DEF Next

LEMMA ReachesInit == Init => Reaches
<1> SUFFICES ASSUME Init PROVE Reaches
  OBVIOUS
<1>1. Idle \in Dispatches /\ Idle.packet = NoPacket /\ ~Idle.aimed
  BY DEF Idle, Dispatches
<1>2. /\ FirstSeq \in Ids \cup {FirstSeq + MaxPackets}
      /\ <<>> \in Seq(Packets) /\ <<>> \in Seq(Dest)
  BY RocsAreCounters DEF Ids
<1>3. SenderTypes
  BY <1>1, <1>2 DEF Init, SenderInit, SenderTypes
<1>4. ASSUME NEW t \in Threads PROVE Reaching(t)
  <2>1. dispatch[t] = Idle
    BY DEF Init, SenderInit
  <2> QED
    BY <1>1, <2>1 DEF Reaching, Sending
<1>5. Recording
  <2>1. /\ 0 \in Source!Counts /\ 0 \in Source!Seqs /\ MinValid \in Nat
        /\ MinValid <= MinValid
    BY CountersFit DEF Source!Counts, Source!Seqs
  <2>2. reception = Source!Fresh(MinValid)
    BY DEF Init
  <2> QED
    BY <2>1, <2>2 DEF Recording, Source!Fresh, Source!Receptions
<1> QED
  BY <1>3, <1>4, <1>5 DEF Reaches, SenderReaches

(* A thread that has sent a packet to its last destination has sent it to  *)
(* all there are and to nobody else, unless the other thread set the peer  *)
(* between its setDataPeer and its sendData (outqueue.cpp:507-548): for    *)
(* any destinations, numbers of packets and widths.                        *)
THEOREM ReachesAllHolds == Spec => []ReachesAll
<1>1. CounterInv /\ Reaches => ReachesAll
  <2> SUFFICES ASSUME CounterInv, Reaches PROVE ReachesAll
    OBVIOUS
  <2>1. TypeOK
    BY DEF CounterInv, ReceiverInv, Reaches, SenderReaches, SenderTypes,
           Recording, TypeOK
  <2>2. ASSUME NEW t \in Threads, Sending(t), dispatch[t].todo = <<>>,
               ~dispatch[t].disturbed
        PROVE  dispatch[t].reached = ToSet(destList)
    <3>1. dispatch[t].reached \cup ToSet(<<>>) = ToSet(destList)
      BY <2>2 DEF Reaches, SenderReaches, Reaching
    <3>2. ToSet(<<>>) = {}
      BY DEF ToSet
    <3> QED
      BY <3>1, <3>2
  <2> QED
    BY <2>1, <2>2 DEF ReachesAll
<1> QED
  BY <1>1, ReachesInit, ReachesStep, CounterInvHolds, PTL DEF Spec

-----------------------------------------------------------------------------
(* Numbers that are the same modulo CountMod.                              *)
Congruent(a, b) == \E k \in Int : a = b + k * CountMod

LEMMA ModIsUnique ==
  ASSUME NEW m \in Nat \ {0}, NEW a \in Int, NEW k \in Int, NEW r \in 0 .. m - 1,
         a = m * k + r
  PROVE  a % m = r
<1> DEFINE q == a \div m
           e == a % m
<1>1. q \in Int /\ e \in 0 .. m - 1 /\ a = m * q + e
  OBVIOUS
<1> HIDE DEF q, e
<1>2. m * (q - k) = r - e
  BY <1>1
<1>3. ~(q - k >= 1)
  <2> SUFFICES ASSUME q - k >= 1 PROVE FALSE
    OBVIOUS
  <2>1. m * (q - k) >= m
    BY <1>1
  <2> QED
    BY <1>1, <1>2, <2>1
<1>4. ~(q - k <= -1)
  <2> SUFFICES ASSUME q - k <= -1 PROVE FALSE
    OBVIOUS
  <2>1. m * (q - k) <= -m
    BY <1>1
  <2> QED
    BY <1>1, <1>2, <2>1
<1>5. q = k
  BY <1>1, <1>3, <1>4
<1>6. e = r
  BY <1>1, <1>2, <1>5
<1> QED
  BY <1>6 DEF e

LEMMA ModIsCongruent ==
  ASSUME NEW a \in Int
  PROVE  a % CountMod \in 0 .. CountMod - 1 /\ Congruent(a % CountMod, a)
<1> DEFINE q == a \div CountMod
           e == a % CountMod
           z == -q
<1>1. CountMod \in Nat \ {0}
  BY CountersFit
<1>2. q \in Int /\ e \in 0 .. CountMod - 1 /\ a = CountMod * q + e
  BY <1>1
<1> HIDE DEF q, e
<1>3. z \in Int /\ e = a + z * CountMod
  BY <1>1, <1>2
<1> HIDE DEF z
<1> QED
  BY <1>2, <1>3 DEF Congruent, e

LEMMA CongruentMod ==
  ASSUME NEW a \in Int, NEW b \in 0 .. CountMod - 1, Congruent(a, b)
  PROVE  a % CountMod = b
<1>1. CountMod \in Nat \ {0}
  BY CountersFit
<1>2. PICK k \in Int : a = b + k * CountMod
  BY DEF Congruent
<1>3. a = CountMod * k + b
  BY <1>1, <1>2
<1> QED
  BY <1>1, <1>3, ModIsUnique

(* Both sides grow alike, and what is congruent to the same is congruent.  *)
LEMMA CongruentPlus ==
  ASSUME NEW a \in Int, NEW b \in Int, NEW d \in Int, Congruent(a, b)
  PROVE  Congruent(a + d, b + d)
<1>1. PICK k \in Int : a = b + k * CountMod
  BY DEF Congruent
<1>2. a + d = (b + d) + k * CountMod
  BY <1>1, CountersFit
<1> QED
  BY <1>2 DEF Congruent

LEMMA CongruentChain ==
  ASSUME NEW a \in Int, NEW b \in Int, NEW c \in Int,
         Congruent(a, b), Congruent(b, c)
  PROVE  Congruent(a, c)
<1>1. PICK k \in Int : a = b + k * CountMod
  BY DEF Congruent
<1>2. PICK l \in Int : b = c + l * CountMod
  BY DEF Congruent
<1>3. k + l \in Int /\ a = c + (k + l) * CountMod
  BY <1>1, <1>2, CountersFit
<1> QED
  BY <1>3 DEF Congruent

LEMMA CongruentBack ==
  ASSUME NEW a \in Int, NEW b \in Int, Congruent(a, b)
  PROVE  Congruent(b, a)
<1>1. PICK k \in Int : a = b + k * CountMod
  BY DEF Congruent
<1>2. -k \in Int /\ b = a + (-k) * CountMod
  BY <1>1, CountersFit
<1> QED
  BY <1>2 DEF Congruent

LEMMA CongruentSelf == ASSUME NEW a \in Int PROVE Congruent(a, a)
<1>1. 0 \in Int /\ a = a + 0 * CountMod
  BY CountersFit
<1> QED
  BY <1>1 DEF Congruent

(* Sequence numbers that are less than one round apart.                    *)
LEMMA SeqNumAhead ==
  ASSUME NEW a \in Int, NEW k \in 0 .. SEQNUMMOD - 1
  PROVE  /\ SeqNum(a + k) = IF SeqNum(a) + k < SEQNUMMOD
                              THEN SeqNum(a) + k ELSE SeqNum(a) + k - SEQNUMMOD
         /\ (SeqNum(a + k) - SeqNum(a)) % SEQNUMMOD = k
<1> DEFINE m == SEQNUMMOD
           q == a \div m
           e == a % m
<1>1. m \in Nat \ {0, 1}
  BY CountersFit
<1>2. q \in Int /\ e \in 0 .. m - 1 /\ a = m * q + e
  BY <1>1
<1>3. k \in 0 .. m - 1
  OBVIOUS
<1>4. (a + k) % m = IF e + k < m THEN e + k ELSE e + k - m
  <2> HIDE DEF q, e, m
  <2>1. CASE e + k < m
    <3>1. a + k = m * q + (e + k) /\ e + k \in 0 .. m - 1 /\ a + k \in Int
      BY <1>1, <1>2, <1>3, <2>1
    <3> QED
      BY <1>1, <1>2, <2>1, <3>1, ModIsUnique
  <2>2. CASE ~(e + k < m)
    <3>1. /\ m * (q + 1) = m * q + m /\ q + 1 \in Int
      BY <1>1, <1>2
    <3>2. a + k = m * (q + 1) + (e + k - m) /\ e + k - m \in 0 .. m - 1 /\ a + k \in Int
      BY <1>1, <1>2, <1>3, <2>2, <3>1
    <3> QED
      BY <1>1, <2>2, <3>1, <3>2, ModIsUnique
  <2> QED
    BY <2>1, <2>2
<1> DEFINE d == ((a + k) % m) - e
<1>5. d % m = k
  <2> HIDE DEF e, m
  <2>1. d = m * 0 + k \/ d = m * (-1) + k
    BY <1>1, <1>2, <1>3, <1>4
  <2>2. d \in Int
    BY <1>1, <1>2, <1>3, <1>4
  <2> HIDE DEF d
  <2> QED
    BY <1>1, <1>3, <2>1, <2>2, ModIsUnique
<1> QED
  BY <1>4, <1>5 DEF SeqNum

-----------------------------------------------------------------------------
(* What the counters say of an orderly interval: they agree with it modulo *)
(* their width, and the highest number is that of the last packet.         *)
Intervals == [from : Int, to : Int, count : Nat, orderly : BOOLEAN]

Counted(r, i) ==
  /\ Source!IsValid(r)
  /\ i.from \in Nat /\ i.to \in Nat /\ i.count <= i.to - i.from
  /\ r.maxSeqNum = SeqNum(i.to)
  /\ Congruent(r.maxSeqNum + r.seqNumAccum + 1, r.expectedPrior + (i.to - i.from))
  /\ Congruent(r.obsPacketCount, r.receivedPrior + i.count)

Counting == interval \in Intervals /\ (interval.orderly => Counted(reception, interval))

(* A packet that follows the last one, with less than MaxDropout behind it,*)
(* advances the highest number by as much as it is ahead.                  *)
LEMMA StepAdvances ==
  ASSUME NEW r \in Source!Receptions, Source!IsValid(r), NEW a \in Nat,
         NEW k \in 1 .. MaxDropout - 1, r.maxSeqNum = SeqNum(a)
  PROVE  LET v == Source!RecordReception(r, SeqNum(a + k), a + k)
         IN /\ v.ok = TRUE /\ Source!IsValid(v.r)
            /\ v.r.maxSeqNum = SeqNum(a + k)
            /\ v.r.maxSeqNum + v.r.seqNumAccum = r.maxSeqNum + r.seqNumAccum + k
            /\ v.r.obsPacketCount = (r.obsPacketCount + 1) % CountMod
            /\ v.r.expectedPrior = r.expectedPrior
            /\ v.r.receivedPrior = r.receivedPrior
<1> DEFINE seq == SeqNum(a + k)
           accum == IF seq < r.maxSeqNum THEN r.seqNumAccum + SEQNUMMOD
                                         ELSE r.seqNumAccum
           s == Source!Advance(r, seq)
           v == Source!RecordReception(r, seq, a + k)
<1>1. /\ SEQNUMMOD \in Nat \ {0, 1} /\ k \in 0 .. SEQNUMMOD - 1
      /\ k \in Nat /\ k >= 1 /\ k < MaxDropout
  BY CountersFit
<1>2. /\ SeqNum(a) \in 0 .. SEQNUMMOD - 1
      /\ seq = IF SeqNum(a) + k < SEQNUMMOD THEN SeqNum(a) + k
                                            ELSE SeqNum(a) + k - SEQNUMMOD
      /\ Source!Ahead(r, seq) = k
  <2>1. a \in Int /\ k \in 0 .. SEQNUMMOD - 1
    BY <1>1
  <2>2. SeqNum(a) \in 0 .. SEQNUMMOD - 1
    BY <2>1, SeqNumCounts DEF Seqs
  <2>3. /\ seq = IF SeqNum(a) + k < SEQNUMMOD THEN SeqNum(a) + k
                                              ELSE SeqNum(a) + k - SEQNUMMOD
        /\ (seq - SeqNum(a)) % SEQNUMMOD = k
    BY <2>1, SeqNumAhead
  <2> HIDE DEF seq
  <2> QED
    BY <2>2, <2>3 DEF Source!Ahead
<1>3. r.seqNumAccum \in Nat
  BY DEF Source!Receptions
<1> HIDE DEF seq
<1>4. seq + accum = r.maxSeqNum + r.seqNumAccum + k
  <2>1. SeqNum(a) \in Int /\ r.maxSeqNum = SeqNum(a)
    BY <1>2
  <2>2. CASE SeqNum(a) + k < SEQNUMMOD
    <3>1. seq = SeqNum(a) + k /\ ~(seq < r.maxSeqNum)
      BY <1>1, <1>2, <2>1, <2>2
    <3> QED
      BY <1>1, <1>3, <2>1, <3>1
  <2>3. CASE ~(SeqNum(a) + k < SEQNUMMOD)
    <3>1. seq = SeqNum(a) + k - SEQNUMMOD /\ seq < r.maxSeqNum
      BY <1>1, <1>2, <2>1, <2>3
    <3> QED
      BY <1>1, <1>3, <2>1, <3>1
  <2> QED
    BY <2>2, <2>3
<1>5. Source!Validate(r, seq) = [ok |-> TRUE, r |-> s]
  <2>1. /\ Source!IsValid(r) /\ Source!Ahead(r, seq) < MaxDropout
        /\ ~(Source!Ahead(r, seq) >= MaxDropout)
    BY <1>1, <1>2, CountersFit
  <2> QED
    BY <2>1 DEF Source!Validate
<1>6. v = [ok |-> TRUE, r |-> Source!Observe(s, a + k)]
  BY <1>5 DEF Source!RecordReception
<1>7. v.ok = TRUE /\ v.r = Source!Observe(s, a + k)
  BY <1>6
<1>8. s = [r EXCEPT !.maxSeqNum = seq, !.seqNumAccum = accum]
  BY DEF Source!Advance, Source!Receptions
<1> HIDE DEF accum, s, v
<1>9. /\ s.maxSeqNum = seq /\ s.seqNumAccum = accum
      /\ s.obsPacketCount = r.obsPacketCount /\ s.probation = r.probation
      /\ s.expectedPrior = r.expectedPrior /\ s.receivedPrior = r.receivedPrior
      /\ DOMAIN s = DOMAIN r
  BY <1>8 DEF Source!Receptions
<1> DEFINE count == (s.obsPacketCount + 1) % CountMod
           stamp == IF count = 1 THEN a + k ELSE s.initialDataTimestamp
<1>10. v.r = [s EXCEPT !.obsPacketCount = count, !.initialDataTimestamp = stamp]
  BY <1>7, <1>8 DEF Source!Observe, Source!Receptions
<1> HIDE DEF stamp, count
<1>11. DOMAIN r = {"obsPacketCount", "maxSeqNum", "initialDataTimestamp", "badSeqNum",
                   "probation", "expectedPrior", "receivedPrior", "seqNumAccum"}
  BY DEF Source!Receptions
<1>12. /\ v.r.maxSeqNum = s.maxSeqNum /\ v.r.seqNumAccum = s.seqNumAccum
       /\ v.r.obsPacketCount = count /\ v.r.probation = s.probation
       /\ v.r.expectedPrior = s.expectedPrior /\ v.r.receivedPrior = s.receivedPrior
  BY <1>9, <1>10, <1>11
<1>13. count = (r.obsPacketCount + 1) % CountMod
  BY <1>9 DEF count
<1>14. Source!IsValid(v.r)
  BY <1>9, <1>12 DEF Source!IsValid
<1>15. v.r.maxSeqNum = seq /\ v.r.maxSeqNum + v.r.seqNumAccum = r.maxSeqNum + r.seqNumAccum + k
  BY <1>4, <1>9, <1>12
<1> QED
  BY <1>7, <1>9, <1>12, <1>13, <1>14, <1>15 DEF v, seq

(* A packet that keeps the interval orderly is counted.                    *)
LEMMA AcceptedCounts ==
  ASSUME reception \in Source!Receptions, Counting, NEW n \in Nat, Accepted(n)
  PROVE  Counting'
<1> DEFINE v == Source!RecordReception(reception, SeqNum(n), n)
           more == IF v.ok THEN 1 ELSE 0
           orderly == interval.orderly /\ v.ok /\ n - interval.to \in 1 .. MaxDropout - 1
<1>1. /\ reception' = v.r
      /\ interval' = [interval EXCEPT !.to = n, !.count = @ + more, !.orderly = orderly]
  BY DEF Accepted
<1>2. interval \in Intervals /\ more \in Nat
  BY DEF Counting
<1> HIDE DEF more
<1>3. /\ interval'.from = interval.from /\ interval'.to = n
      /\ interval'.count = interval.count + more /\ interval'.orderly = orderly
  BY <1>1, <1>2 DEF Intervals
<1>4. interval' \in Intervals
  <2> DEFINE count == interval.count + more
  <2>1. n \in Int /\ count \in Nat /\ orderly \in BOOLEAN
    BY <1>2 DEF Intervals
  <2>2. interval' = [interval EXCEPT !.to = n, !.count = count, !.orderly = orderly]
    BY <1>1, <1>2 DEF Intervals
  <2> HIDE DEF count, orderly
  <2> QED
    BY <1>2, <2>1, <2>2 DEF Intervals
<1>5. ASSUME interval'.orderly PROVE Counted(reception, interval)'
  <2> DEFINE k == n - interval.to
             last == interval.to
             from == interval.from
             old == reception.maxSeqNum + reception.seqNumAccum + 1
             new == v.r.maxSeqNum + v.r.seqNumAccum + 1
  <2>1. interval.orderly /\ v.ok /\ k \in 1 .. MaxDropout - 1
    BY <1>3, <1>5
  <2>2. /\ Source!IsValid(reception) /\ from \in Nat /\ last \in Nat
        /\ interval.count \in Nat /\ interval.count <= last - from
        /\ reception.maxSeqNum = SeqNum(last)
        /\ Congruent(old, reception.expectedPrior + (last - from))
        /\ Congruent(reception.obsPacketCount, reception.receivedPrior + interval.count)
    BY <2>1 DEF Counting, Counted, Intervals
  <2>3. n = last + k
    BY <2>2
  <2>4. /\ Source!IsValid(v.r) /\ v.r.maxSeqNum = SeqNum(n)
        /\ v.r.maxSeqNum + v.r.seqNumAccum = reception.maxSeqNum + reception.seqNumAccum + k
        /\ v.r.obsPacketCount = (reception.obsPacketCount + 1) % CountMod
        /\ v.r.expectedPrior = reception.expectedPrior
        /\ v.r.receivedPrior = reception.receivedPrior
    <3> DEFINE w == Source!RecordReception(reception, SeqNum(last + k), last + k)
    <3>1. w = v
      BY <2>3
    <3> HIDE DEF v, k, last
    <3>2. /\ reception \in Source!Receptions /\ Source!IsValid(reception)
          /\ last \in Nat /\ k \in 1 .. MaxDropout - 1
          /\ reception.maxSeqNum = SeqNum(last)
      BY <2>1, <2>2 DEF last
    <3>3. /\ Source!IsValid(w.r) /\ w.r.maxSeqNum = SeqNum(last + k)
          /\ w.r.maxSeqNum + w.r.seqNumAccum
               = reception.maxSeqNum + reception.seqNumAccum + k
          /\ w.r.obsPacketCount = (reception.obsPacketCount + 1) % CountMod
          /\ w.r.expectedPrior = reception.expectedPrior
          /\ w.r.receivedPrior = reception.receivedPrior
      BY <3>2, StepAdvances, ZenonT(60)
    <3> HIDE DEF w
    <3> QED
      BY <2>3, <3>1, <3>3
  <2>5. /\ reception.expectedPrior \in Int /\ reception.receivedPrior \in Int
        /\ reception.obsPacketCount \in Int /\ reception.seqNumAccum \in Int
        /\ reception.maxSeqNum \in Int
    BY CountersFit DEF Source!Receptions, Source!Counts, Source!Seqs
  <2>6. more = 1
    BY <2>1 DEF more
  <2> HIDE DEF v, k
  <2>7. k \in Int /\ k >= 1
    BY <2>1
  <2>8. Congruent(new, reception.expectedPrior + (n - from))
    <3> DEFINE a == reception.expectedPrior + (last - from)
    <3>1. old \in Int /\ a \in Int /\ Congruent(old, a)
      BY <2>2, <2>5
    <3>2. new = old + k
      BY <2>4, <2>5, <2>7
    <3>3. reception.expectedPrior + (n - from) = a + k
      BY <2>2, <2>3, <2>5, <2>7
    <3> HIDE DEF old, new, a
    <3> QED
      BY <2>7, <3>1, <3>2, <3>3, CongruentPlus
  <2>9. Congruent(v.r.obsPacketCount, reception.receivedPrior + (interval.count + more))
    <3> DEFINE a == reception.obsPacketCount
               b == reception.receivedPrior + interval.count
    <3>1. a \in Int /\ b \in Int /\ Congruent(a, b)
      BY <2>2, <2>5
    <3>2. reception.receivedPrior + (interval.count + more) = b + 1
      BY <2>2, <2>5, <2>6
    <3>3. v.r.obsPacketCount = (a + 1) % CountMod
      BY <2>4
    <3> HIDE DEF a, b
    <3>4. Congruent(a + 1, b + 1)
      BY <3>1, CongruentPlus
    <3>5. a + 1 \in Int /\ b + 1 \in Int
      BY <3>1
    <3>6. Congruent((a + 1) % CountMod, a + 1) /\ (a + 1) % CountMod \in Int
      <4>1. /\ Congruent((a + 1) % CountMod, a + 1)
            /\ (a + 1) % CountMod \in 0 .. CountMod - 1
        BY <3>5, ModIsCongruent
      <4> QED
        BY <4>1, CountersFit
    <3>7. Congruent((a + 1) % CountMod, b + 1)
      BY <3>4, <3>5, <3>6, CongruentChain
    <3> QED
      BY <3>2, <3>3, <3>7
  <2>10. interval.count + more <= n - from
    BY <2>2, <2>3, <2>6, <2>7
  <2> HIDE DEF old, new
  <2>11. /\ interval'.from = from /\ interval'.to = n
         /\ interval'.count = interval.count + more /\ reception' = v.r
    BY <1>1, <1>3 DEF v
  <2>12. Congruent(v.r.maxSeqNum + v.r.seqNumAccum + 1,
                   v.r.expectedPrior + (n - from))
    BY <2>4, <2>8 DEF new
  <2>13. Congruent(v.r.obsPacketCount, v.r.receivedPrior + (interval.count + more))
    BY <2>4, <2>9
  <2> QED
    BY <2>2, <2>4, <2>10, <2>11, <2>12, <2>13 DEF Counted
<1> QED
  BY <1>4, <1>5 DEF Counting

(* A report begins an interval with the counters as they are.              *)
LEMMA ReportCounts ==
  ASSUME reception \in Source!Receptions, Counting,
         newest \in Nat \cup {NoPacketYet}, Report
  PROVE  Counting'
<1> DEFINE r == reception
           total == r.maxSeqNum + r.seqNumAccum
           expected == Source!ExpectedPackets(r)
           orderly == /\ interval.to = newest /\ Source!IsValid(r)
                      /\ r.maxSeqNum = SeqNum(newest)
<1>1. /\ interval' = [from |-> interval.to, to |-> interval.to, count |-> 0,
                      orderly |-> orderly]
      /\ reception' = [r EXCEPT !.expectedPrior = expected,
                                !.receivedPrior = r.obsPacketCount]
      /\ newest \in Nat /\ interval.to \in Int
  BY DEF Report, Counting, Intervals, Source!ComputeStats
<1>2. interval' \in Intervals /\ interval'.orderly = orderly
  <2>1. orderly \in BOOLEAN /\ 0 \in Nat
    OBVIOUS
  <2> HIDE DEF orderly
  <2> QED
    BY <1>1, <2>1 DEF Intervals
<1>3. /\ r.maxSeqNum \in Int /\ r.seqNumAccum \in Int /\ r.obsPacketCount \in Int
      /\ CountMod \in Nat \ {0}
  BY CountersFit DEF Source!Receptions, Source!Counts, Source!Seqs
<1>4. expected = ((total % CountMod) + 1) % CountMod
  BY <1>3 DEF Source!ExpectedPackets, Source!ExtendedMax, Source!BaseSeqNum
<1>5. expected \in Int /\ Congruent(total + 1, expected)
  <2> DEFINE low == total % CountMod
             e == (low + 1) % CountMod
  <2>1. total \in Int /\ low \in Int /\ total + 1 \in Int /\ low + 1 \in Int /\ e \in Int
    BY <1>3
  <2> HIDE DEF total
  <2>2. Congruent(low, total)
    BY <2>1, ModIsCongruent
  <2> HIDE DEF low
  <2>3. Congruent(low + 1, total + 1)
    BY <2>1, <2>2, CongruentPlus
  <2>4. Congruent(e, low + 1)
    BY <2>1, ModIsCongruent
  <2>5. expected = e
    BY <1>4 DEF low
  <2> HIDE DEF e, expected
  <2>6. Congruent(e, total + 1)
    BY <2>1, <2>3, <2>4, CongruentChain
  <2> QED
    BY <2>1, <2>5, <2>6, CongruentBack
<1>6. ASSUME interval'.orderly PROVE Counted(reception, interval)'
  <2>1. Source!IsValid(r) /\ r.maxSeqNum = SeqNum(newest) /\ interval.to = newest
    BY <1>2, <1>6
  <2>2. /\ interval'.from = newest /\ interval'.to = newest /\ interval'.count = 0
        /\ newest - newest = 0
    BY <1>1, <2>1
  <2> HIDE DEF expected
  <2>3. /\ reception'.maxSeqNum = r.maxSeqNum /\ reception'.seqNumAccum = r.seqNumAccum
        /\ reception'.obsPacketCount = r.obsPacketCount
        /\ reception'.probation = r.probation
        /\ reception'.expectedPrior = expected
        /\ reception'.receivedPrior = r.obsPacketCount
    BY <1>1 DEF Source!Receptions
  <2>4. Congruent(total + 1, expected + 0) /\ Congruent(r.obsPacketCount, r.obsPacketCount + 0)
    <3>1. expected + 0 = expected /\ r.obsPacketCount + 0 = r.obsPacketCount
      BY <1>3, <1>5
    <3>2. Congruent(r.obsPacketCount, r.obsPacketCount)
      BY <1>3, CongruentSelf
    <3> QED
      BY <1>5, <3>1, <3>2
  <2>5. Source!IsValid(reception')
    BY <2>1, <2>3 DEF Source!IsValid
  <2>6. Congruent(reception'.maxSeqNum + reception'.seqNumAccum + 1,
                  reception'.expectedPrior + (newest - newest))
    BY <2>2, <2>3, <2>4
  <2>7. Congruent(reception'.obsPacketCount, reception'.receivedPrior + 0)
    BY <2>3, <2>4
  <2> QED
    BY <1>1, <2>1, <2>2, <2>3, <2>5, <2>6, <2>7 DEF Counted
<1> QED
  BY <1>2, <1>6 DEF Counting

LEMMA CountingStep == CounterInv /\ Reaches /\ Counting /\ [Next]_vars => Counting'
<1> SUFFICES ASSUME CounterInv, Reaches, Counting, [Next]_vars PROVE Counting'
  OBVIOUS
<1>1. reception \in Source!Receptions /\ newest \in Nat \cup {NoPacketYet}
  BY DEF Reaches, Recording, CounterInv, ReceiverInv
<1>2. CASE UNCHANGED <<reception, interval>>
  BY <1>2 DEF Counting, Counted
<1>3. CASE TakeInDataPacket
  <2>1. PICK p \in net : UNCHANGED <<reception, interval>> \/ Accepted(p.n)
    BY <1>3 DEF TakeInDataPacket
  <2>2. p.n \in Nat
    <3>1. p.n \in Ids /\ FirstSeq \in Nat
      BY RocsAreCounters DEF Reaches, SenderReaches, SenderTypes, Packets
    <3> QED
      BY <3>1 DEF Ids
  <2> QED
    BY <1>1, <1>2, <2>1, <2>2, AcceptedCounts
<1>4. CASE Report
  BY <1>1, <1>4, ReportCounts
<1> QED
  BY <1>2, <1>3, <1>4 DEF Next, Sender, vars, receiverVars

(* The fraction reported as lost is that of the packets that are missing,  *)
(* over an interval in which they came in order, through wraps of the      *)
(* sequence number and of the counters (incqueue.cpp:658-665,              *)
(* members.cpp:95-126): for any widths, dropout, probation and network.    *)
THEOREM LossIsReportedHolds == Spec => []LossIsReported
<1>1. Init => Counting
  <2> SUFFICES ASSUME Init PROVE Counting
    OBVIOUS
  <2>1. interval = [from |-> -1, to |-> -1, count |-> 0, orderly |-> FALSE]
    BY DEF Init, NoInterval, NoPacketYet
  <2>2. interval \in Intervals /\ ~interval.orderly
    BY <2>1 DEF Intervals
  <2> QED
    BY <2>2 DEF Counting
<1>2. Reaches /\ Counting => LossIsReported
  <2> DEFINE r == reception
             e == interval.to - interval.from
             count == interval.count
             lost == e - count
             total == r.maxSeqNum + r.seqNumAccum
             expected == Source!ExpectedPackets(r)
  <2> SUFFICES ASSUME Reaches, Counting, interval.orderly, e > 0, e * 256 < CountMod
               PROVE  Source!FractionLost(r) = ((lost * 256) \div e) % 256
    BY DEF LossIsReported
  <2>1. /\ e \in Nat /\ count \in Nat /\ count <= e
        /\ Congruent(total + 1, r.expectedPrior + e)
        /\ Congruent(r.obsPacketCount, r.receivedPrior + count)
    BY DEF Counting, Counted, Intervals
  <2>2. /\ r.maxSeqNum \in Int /\ r.seqNumAccum \in Int /\ r.obsPacketCount \in Int
        /\ r.expectedPrior \in Int /\ r.receivedPrior \in Int
        /\ CountMod \in Nat \ {0}
    BY CountersFit DEF Reaches, Recording, Source!Receptions, Source!Counts, Source!Seqs
  <2>3. expected = ((total % CountMod) + 1) % CountMod
    BY <2>2 DEF Source!ExpectedPackets, Source!ExtendedMax, Source!BaseSeqNum
  <2> HIDE DEF e, count
  <2>4. e \in 0 .. CountMod - 1 /\ count \in 0 .. CountMod - 1
    BY <2>1, <2>2
  <2>5. expected \in Int /\ Congruent(expected, r.expectedPrior + e)
    <3> DEFINE low == total % CountMod
               x == (low + 1) % CountMod
               prior == r.expectedPrior + e
    <3>1. /\ total \in Int /\ low \in Int /\ total + 1 \in Int /\ low + 1 \in Int
          /\ x \in Int /\ prior \in Int
      <4>1. prior \in Int
        BY <2>1, <2>2
      <4>2. total \in Int /\ low \in Int /\ total + 1 \in Int /\ low + 1 \in Int
        BY <2>2
      <4> HIDE DEF total, low
      <4>3. x \in Int
        BY <2>2, <4>2
      <4> QED
        BY <4>1, <4>2, <4>3
    <3>2. Congruent(total + 1, prior) /\ expected = x
      BY <2>1, <2>3
    <3> HIDE DEF total, prior, expected
    <3>3. Congruent(low, total)
      BY <3>1, ModIsCongruent
    <3> HIDE DEF low
    <3>4. Congruent(low + 1, total + 1)
      BY <3>1, <3>3, CongruentPlus
    <3>5. Congruent(x, low + 1)
      BY <3>1, ModIsCongruent
    <3> HIDE DEF x
    <3>6. Congruent(x, total + 1)
      BY <3>1, <3>4, <3>5, CongruentChain
    <3>7. Congruent(x, prior)
      BY <3>1, <3>2, <3>6, CongruentChain
    <3> QED
      BY <3>1, <3>2, <3>7 DEF prior
  <2> HIDE DEF expected
  <2>6. (expected - r.expectedPrior) % CountMod = e
    <3> DEFINE a == expected
               b == r.expectedPrior + e
               d == -r.expectedPrior
    <3>1. /\ a \in Int /\ b \in Int /\ d \in Int /\ Congruent(a, b)
          /\ a + d = expected - r.expectedPrior /\ b + d = e /\ a + d \in Int
      BY <2>1, <2>2, <2>5
    <3> HIDE DEF a, b, d
    <3>2. Congruent(a + d, b + d)
      BY <3>1, CongruentPlus
    <3>3. (a + d) % CountMod = e
      BY <2>4, <3>1, <3>2, CongruentMod
    <3> QED
      BY <3>1, <3>3
  <2>7. (r.obsPacketCount - r.receivedPrior) % CountMod = count
    <3> DEFINE a == r.obsPacketCount
               b == r.receivedPrior + count
               d == -r.receivedPrior
    <3>1. /\ a \in Int /\ b \in Int /\ d \in Int /\ Congruent(a, b)
          /\ a + d = r.obsPacketCount - r.receivedPrior /\ b + d = count
          /\ a + d \in Int
      BY <2>1, <2>2
    <3> HIDE DEF a, b, d
    <3>2. Congruent(a + d, b + d)
      BY <3>1, CongruentPlus
    <3>3. (a + d) % CountMod = count
      BY <2>4, <3>1, <3>2, CongruentMod
    <3> QED
      BY <3>1, <3>3
  <2>8. /\ lost \in 0 .. CountMod - 1 /\ lost * 256 \in 0 .. CountMod - 1
        /\ lost % CountMod = lost /\ (lost * 256) % CountMod = lost * 256
    <3>1. lost \in 0 .. CountMod - 1 /\ lost * 256 \in 0 .. CountMod - 1
      BY <2>1, <2>2
    <3>2. \A z \in 0 .. CountMod - 1 : z % CountMod = z
      BY <2>2
    <3> QED
      BY <3>1, <3>2
  <2> HIDE DEF lost
  <2>9. Source!FractionLost(r) = IF lost = 0 THEN 0
                                 ELSE ((lost * 256) \div e) % 256
    <3>1. e # 0 /\ e - count = lost
      BY <2>1 DEF lost
    <3> QED
      BY <2>6, <2>7, <2>8, <3>1 DEF Source!FractionLost, expected
  <2>10. lost = 0 => ((lost * 256) \div e) % 256 = 0
    BY <2>1
  <2> QED
    BY <2>9, <2>10
<1>3. Spec => [](CounterInv /\ Reaches)
  BY CounterInvHolds, ReachesInit, ReachesStep, PTL DEF Spec
<1> QED
  BY <1>1, <1>2, <1>3, CountingStep, PTL DEF Spec

-----------------------------------------------------------------------------
(* Cells nothing was combined with, and packets as the constructors lay    *)
(* them out: with the padding, the last byte of which says how long it is, *)
(* and with room for a tag.                                                *)
PlainCells == [v : Seq(Int), mask : {{}}, mac : {<<>>}]

RtpPackets ==
  [ buffer : Seq(PlainCells), total : Nat, hdrSize : Nat, payloadSize : Nat,
    srtpLength : Nat ]

Laid(p, pad) ==
  /\ p \in RtpPackets /\ pad \in Nat
  /\ p.hdrSize >= SizeOfFixedHeader
  /\ p.total = p.hdrSize + p.payloadSize + pad
  /\ Len(p.buffer) = p.total + p.srtpLength
  /\ padding(p.buffer) = IF pad = 0 THEN 0 ELSE 1
  /\ pad # 0 => p.buffer[p.total].v[1] = pad

SameSizes(p, q) ==
  /\ q.hdrSize = p.hdrSize /\ q.payloadSize = p.payloadSize
  /\ q.srtpLength = p.srtpLength

LEMMA CellIsPlain ==
  ASSUME NEW values \in Seq(Int)
  PROVE  Cell(values) \in PlainCells /\ Cell(values).v = values
BY DEF Cell, PlainCells

LEMMA FunctionIsSeq ==
  ASSUME NEW S, NEW n \in Nat, NEW f, f \in [1 .. n -> S]
  PROVE  f \in Seq(S) /\ Len(f) = n /\ DOMAIN f = 1 .. n
OBVIOUS

Joined(s, t, r) ==
  /\ Len(r) = Len(s) + Len(t)
  /\ \A i \in 1 .. Len(s) : r[i] = s[i]
  /\ \A i \in 1 .. Len(t) : r[Len(s) + i] = t[i]

LEMMA JoinedIsSeq ==
  ASSUME NEW S, NEW s \in Seq(S), NEW t \in Seq(S)
  PROVE  s \o t \in Seq(S) /\ Joined(s, t, s \o t)
<1>1. /\ s \o t \in Seq(S) /\ Len(s \o t) = Len(s) + Len(t)
      /\ \A i \in 1 .. Len(s) + Len(t) :
           (s \o t)[i] = IF i <= Len(s) THEN s[i] ELSE t[i - Len(s)]
  BY ConcatProperties
<1>2. Len(s) \in Nat /\ Len(t) \in Nat
  OBVIOUS
<1>3. PICK r : r = s \o t
  OBVIOUS
<1>4. ASSUME NEW i \in 1 .. Len(s) PROVE r[i] = s[i]
  <2>1. i \in 1 .. Len(s) + Len(t) /\ i <= Len(s)
    BY <1>2
  <2> QED
    BY <1>1, <1>3, <2>1
<1>5. ASSUME NEW i \in 1 .. Len(t) PROVE r[Len(s) + i] = t[i]
  <2>1. Len(s) + i \in 1 .. Len(s) + Len(t) /\ ~(Len(s) + i <= Len(s)) /\ (Len(s) + i) - Len(s) = i
    BY <1>2
  <2> QED
    BY <1>1, <1>3, <2>1
<1> QED
  BY <1>1, <1>3, <1>4, <1>5 DEF Joined

LEMMA CellsArePlain ==
  ASSUME NEW numbers \in Seq(Int), NEW cells, cells = Cells(numbers)
  PROVE  /\ cells \in Seq(PlainCells) /\ Len(cells) = Len(numbers)
         /\ \A i \in 1 .. Len(numbers) : cells[i] = Cell(<<numbers[i]>>)
<1>1. \A i \in 1 .. Len(numbers) : cells[i] = Cell(<<numbers[i]>>) /\ cells[i] \in PlainCells
  <2>1. ASSUME NEW i \in 1 .. Len(numbers)
        PROVE  cells[i] = Cell(<<numbers[i]>>) /\ cells[i] \in PlainCells
    <3>1. cells[i] = Cell(<<numbers[i]>>)
      BY DEF Cells
    <3>2. <<numbers[i]>> \in Seq(Int)
      OBVIOUS
    <3> QED
      BY <3>1, <3>2, CellIsPlain
  <2> QED
    BY <2>1
<1>2. cells = [i \in 1 .. Len(numbers) |-> cells[i]]
  BY DEF Cells
<1>3. cells \in [1 .. Len(numbers) -> PlainCells]
  BY <1>1, <1>2
<1> QED
  BY <1>1, <1>3, FunctionIsSeq

LEMMA PaddingIsNat ==
  ASSUME NEW size \in Nat, NEW paddinglen \in Nat
  PROVE  PaddingFor(size, paddinglen) \in Nat
<1>1. CASE paddinglen = 0
  BY <1>1 DEF PaddingFor
<1>2. CASE paddinglen # 0
  <2>1. size % paddinglen \in 0 .. paddinglen - 1
    BY <1>2
  <2> QED
    BY <1>2, <2>1 DEF PaddingFor
<1> QED
  BY <1>1, <1>2

Room(h, n, tag, p) ==
  /\ \E pad : Laid(p, pad)
  /\ p.hdrSize = h /\ p.payloadSize = n /\ p.srtpLength = tag
  /\ extension(p.buffer) = 0 /\ cc(p.buffer) = 0

LEMMA RoomIsLaid ==
  ASSUME NEW h \in Nat, h >= SizeOfFixedHeader, NEW n \in Nat,
         NEW paddinglen \in Nat, NEW tag \in Nat
  PROVE  Room(h, n, tag, RTPPacket(h, n, paddinglen, tag))
<1> DEFINE p == RTPPacket(h, n, paddinglen, tag)
<1> DEFINE pad == PaddingFor(h + n, paddinglen)
           flags == Flags(IF pad = 0 THEN 0 ELSE 1, 0, 0)
           first == <<flags, Cell(<<0, 0>>), Cell(<<0>>)>>
           junk == JunkCells(h - 3 + n)
           fill == PaddingCells(pad)
           room == JunkCells(tag)
<1>1. pad \in Nat
  <2>1. h + n \in Nat
    OBVIOUS
  <2> QED
    BY <2>1, PaddingIsNat
<1>2. first \in Seq(PlainCells) /\ Len(first) = 3 /\ first[1] = flags
  <2>1. /\ <<IF pad = 0 THEN 0 ELSE 1, 0, 0>> \in Seq(Int)
        /\ <<0, 0>> \in Seq(Int) /\ <<0>> \in Seq(Int)
    OBVIOUS
  <2>2. /\ flags \in PlainCells
        /\ Cell(<<0, 0>>) \in PlainCells /\ Cell(<<0>>) \in PlainCells
    BY <2>1, CellIsPlain DEF Flags
  <2> QED
    BY <2>2
<1>3. ASSUME NEW k \in Nat
      PROVE  JunkCells(k) \in Seq(PlainCells) /\ Len(JunkCells(k)) = k
  <2>1. Junk \in PlainCells
    <3>1. <<-1>> \in Seq(Int)
      OBVIOUS
    <3> QED
      BY <3>1, CellIsPlain DEF Junk
  <2> QED
    BY <2>1 DEF JunkCells
<1>4. /\ fill \in Seq(PlainCells) /\ Len(fill) = pad
      /\ pad # 0 => fill[pad] = Cell(<<pad>>)
  <2>1. PICK numbers : numbers = [i \in 1 .. pad |-> IF i = pad THEN pad ELSE 0]
    OBVIOUS
  <2>2. numbers \in Seq(Int) /\ Len(numbers) = pad /\ (pad # 0 => numbers[pad] = pad)
    BY <1>1, <2>1
  <2>3. fill = Cells(numbers)
    BY <2>1 DEF PaddingCells
  <2> QED
    BY <1>1, <2>2, <2>3, CellsArePlain
<1>5. h - 3 + n \in Nat
  BY DEF SizeOfFixedHeader
<1>6. /\ junk \in Seq(PlainCells) /\ Len(junk) = h - 3 + n
      /\ room \in Seq(PlainCells) /\ Len(room) = tag
  BY <1>3, <1>5
<1>7. PICK b : b = first \o junk \o fill \o room
  OBVIOUS
<1>8. p = [ buffer |-> b, total |-> h + n + pad, hdrSize |-> h,
            payloadSize |-> n, srtpLength |-> tag ]
  BY <1>7 DEF RTPPacket, p
<1> HIDE DEF p, pad, flags, first, junk, fill, room
<1>9. /\ b \in Seq(PlainCells) /\ Len(b) = h + n + pad + tag
      /\ b[1] = flags
      /\ pad # 0 => b[h + n + pad] = Cell(<<pad>>)
  <2>1. PICK front : front = first \o junk
    OBVIOUS
  <2>2. /\ front \in Seq(PlainCells) /\ Len(front) = h + n /\ front[1] = flags
    <3>1. 1 \in 1 .. Len(first)
      BY <1>2
    <3> QED
      <4>1. front \in Seq(PlainCells) /\ Joined(first, junk, front)
        BY <1>2, <1>6, <2>1, JoinedIsSeq
      <4> QED
        BY <1>2, <1>6, <3>1, <4>1 DEF Joined
  <2>3. PICK all : all = front \o fill
    OBVIOUS
  <2>4. /\ all \in Seq(PlainCells) /\ Len(all) = h + n + pad /\ all[1] = flags
        /\ pad # 0 => all[h + n + pad] = Cell(<<pad>>)
    <3>1. 1 \in 1 .. Len(front) /\ (pad # 0 => pad \in 1 .. Len(fill))
      BY <1>1, <1>4, <2>2 DEF SizeOfFixedHeader
    <3> QED
      <4>1. all \in Seq(PlainCells) /\ Joined(front, fill, all)
        BY <1>4, <2>2, <2>3, JoinedIsSeq
      <4>2. pad # 0 => all[h + n + pad] = fill[pad]
        BY <1>4, <2>2, <3>1, <4>1 DEF Joined
      <4> QED
        BY <1>1, <1>4, <2>2, <3>1, <4>1, <4>2 DEF Joined
  <2>5. b = all \o room
    BY <1>7, <2>1, <2>3
  <2>6. 1 \in 1 .. Len(all) /\ (pad # 0 => h + n + pad \in 1 .. Len(all))
    BY <1>1, <2>4 DEF SizeOfFixedHeader
  <2> QED
    <3>1. b \in Seq(PlainCells) /\ Joined(all, room, b)
      BY <1>6, <2>4, <2>5, JoinedIsSeq
    <3>2. Len(b) = h + n + pad + tag
      BY <1>6, <2>4, <3>1 DEF Joined
    <3>3. b[1] = all[1] /\ (pad # 0 => b[h + n + pad] = all[h + n + pad])
      BY <2>6, <3>1 DEF Joined
    <3> QED
      BY <2>4, <3>1, <3>2, <3>3
<1>10. /\ p.buffer = b /\ p.total = h + n + pad /\ p.hdrSize = h
       /\ p.payloadSize = n /\ p.srtpLength = tag /\ p \in RtpPackets
  BY <1>1, <1>8, <1>9 DEF RtpPackets
<1>11. flags.v = <<IF pad = 0 THEN 0 ELSE 1, 0, 0>>
  BY DEF flags, Flags, Cell
<1>12. pad # 0 => b[h + n + pad].v[1] = pad
  BY <1>9 DEF Cell
<1>13. Laid(p, pad)
  BY <1>1, <1>9, <1>10, <1>11, <1>12 DEF Laid, padding, FLAGS
<1>14. extension(p.buffer) = 0 /\ cc(p.buffer) = 0
  <2>1. flags.v[2] = 0 /\ flags.v[3] = 0
    BY <1>11
  <2>2. p.buffer[FLAGS] = flags
    BY <1>9, <1>10 DEF FLAGS
  <2> QED
    BY <2>1, <2>2 DEF extension, cc
<1>15. Room(h, n, tag, p)
  BY <1>10, <1>13, <1>14 DEF Room
<1> QED
  BY <1>15 DEF p

(* What setbuffer leaves of a packet.                                      *)
Fits(p, pad, k, cells) ==
  /\ Laid(p, pad) /\ cells \in Seq(PlainCells)
  /\ k \in Nat /\ k >= 1 /\ k + Len(cells) <= p.hdrSize + p.payloadSize

Overlaid(p, pad, k, cells, q) ==
  /\ Laid(q, pad) /\ SameSizes(p, q)
  /\ \A i \in 1 .. k : q.buffer[i] = p.buffer[i]
  /\ \A i \in 1 .. Len(cells) : q.buffer[k + i] = cells[i]

LEMMA SetbufferLays ==
  ASSUME NEW p, NEW pad, NEW k, NEW cells, Fits(p, pad, k, cells)
  PROVE  Overlaid(p, pad, k, cells, setbuffer(p, cells, k))
<1> DEFINE q == setbuffer(p, cells, k)
<1> USE DEF Fits
<1> DEFINE b == Overwritten(p.buffer, k, cells)
<1>1. /\ p \in RtpPackets /\ p.buffer \in Seq(PlainCells) /\ pad \in Nat
      /\ p.total = p.hdrSize + p.payloadSize + pad
      /\ Len(p.buffer) = p.total + p.srtpLength
      /\ p.hdrSize \in Nat /\ p.payloadSize \in Nat /\ p.srtpLength \in Nat
      /\ p.hdrSize >= SizeOfFixedHeader
  BY DEF Laid, RtpPackets
<1>2. /\ b \in Seq(PlainCells) /\ Len(b) = Len(p.buffer)
      /\ \A i \in 1 .. Len(p.buffer) :
           b[i] = IF i \in k + 1 .. k + Len(cells) THEN cells[i - k] ELSE p.buffer[i]
  <2>1. ASSUME NEW i \in 1 .. Len(p.buffer)
        PROVE  /\ b[i] = IF i \in k + 1 .. k + Len(cells) THEN cells[i - k] ELSE p.buffer[i]
               /\ b[i] \in PlainCells
    <3>1. b[i] = IF i \in k + 1 .. k + Len(cells) THEN cells[i - k] ELSE p.buffer[i]
      BY <1>1 DEF Overwritten
    <3> HIDE DEF b
    <3>2. i \in k + 1 .. k + Len(cells) => i - k \in 1 .. Len(cells)
      OBVIOUS
    <3> QED
      BY <1>1, <3>1, <3>2
  <2>2. Len(p.buffer) \in Nat /\ DOMAIN p.buffer = 1 .. Len(p.buffer)
    BY <1>1
  <2>3. b \in [1 .. Len(p.buffer) -> PlainCells]
    BY <2>1, <2>2 DEF Overwritten
  <2> HIDE DEF b
  <2> QED
    BY <2>1, <2>2, <2>3, FunctionIsSeq
<1> HIDE DEF b
<1>3. /\ q = [p EXCEPT !.buffer = b] /\ q.buffer = b /\ q \in RtpPackets
      /\ q.total = p.total /\ q.hdrSize = p.hdrSize
      /\ q.payloadSize = p.payloadSize /\ q.srtpLength = p.srtpLength
  BY <1>1, <1>2 DEF setbuffer, RtpPackets, b, q
<1> HIDE DEF q
<1>4. ASSUME NEW i \in 1 .. k PROVE b[i] = p.buffer[i]
  <2>1. i \in 1 .. Len(p.buffer) /\ i \notin k + 1 .. k + Len(cells)
    BY <1>1
  <2> QED
    BY <1>2, <2>1
<1>5. ASSUME NEW i \in 1 .. Len(cells) PROVE b[k + i] = cells[i]
  <2>1. /\ k + i \in 1 .. Len(p.buffer) /\ k + i \in k + 1 .. k + Len(cells)
        /\ (k + i) - k = i
    BY <1>1
  <2> QED
    BY <1>2, <2>1
<1>6. pad # 0 => b[p.total] = p.buffer[p.total]
  <2>1. pad # 0 => p.total \in 1 .. Len(p.buffer) /\ p.total \notin k + 1 .. k + Len(cells)
    BY <1>1
  <2> QED
    BY <1>2, <2>1
<1>7. b[1] = p.buffer[1]
  BY <1>4
<1> QED
  BY <1>1, <1>2, <1>3, <1>4, <1>5, <1>6, <1>7
     DEF Overlaid, SameSizes, Laid, padding, FLAGS, q

(* What a new cell in the header leaves of a packet.                       *)
InHeader(p, pad, f, c) ==
  /\ Laid(p, pad) /\ c \in PlainCells /\ f \in 1 .. p.hdrSize
  /\ f = FLAGS => c.v[1] = padding(p.buffer)

Replaced(p, pad, f, c, q) ==
  /\ Laid(q, pad) /\ SameSizes(p, q) /\ Len(q.buffer) = Len(p.buffer)
  /\ q.buffer[f] = c
  /\ \A i \in 1 .. Len(p.buffer) : i # f => q.buffer[i] = p.buffer[i]

LEMMA HeaderCellLays ==
  ASSUME NEW p, NEW pad, NEW f, NEW c, InHeader(p, pad, f, c)
  PROVE  Replaced(p, pad, f, c, [p EXCEPT !.buffer[f] = c])
<1> DEFINE q == [p EXCEPT !.buffer[f] = c]
<1> USE DEF InHeader
<1>1. /\ p \in RtpPackets /\ p.buffer \in Seq(PlainCells) /\ pad \in Nat
      /\ p.total = p.hdrSize + p.payloadSize + pad
      /\ Len(p.buffer) = p.total + p.srtpLength
      /\ p.hdrSize \in Nat /\ p.payloadSize \in Nat /\ p.srtpLength \in Nat
      /\ p.hdrSize >= SizeOfFixedHeader
  BY DEF Laid, RtpPackets
<1>2. PICK b : b = [p.buffer EXCEPT ![f] = c]
  OBVIOUS
<1>3. f \in 1 .. Len(p.buffer)
  BY <1>1
<1>4. /\ b \in Seq(PlainCells) /\ Len(b) = Len(p.buffer) /\ b[f] = c
      /\ \A i \in 1 .. Len(p.buffer) : i # f => b[i] = p.buffer[i]
  BY <1>1, <1>2, <1>3
<1>5. /\ q.buffer = b /\ q \in RtpPackets
      /\ q.total = p.total /\ q.hdrSize = p.hdrSize
      /\ q.payloadSize = p.payloadSize /\ q.srtpLength = p.srtpLength
  <2>1. q = [p EXCEPT !.buffer = b]
    BY <1>2
  <2> QED
    BY <1>1, <1>4, <2>1 DEF RtpPackets
<1> HIDE DEF q
<1>6. pad # 0 => b[p.total] = p.buffer[p.total]
  <2>1. pad # 0 => p.total \in 1 .. Len(p.buffer) /\ p.total # f
    BY <1>1
  <2> QED
    BY <1>4, <2>1
<1>7. padding(b) = padding(p.buffer)
  <2>1. 1 \in 1 .. Len(p.buffer)
    BY <1>1 DEF SizeOfFixedHeader
  <2> QED
    BY <1>1, <1>4, <2>1 DEF padding, FLAGS
<1> QED
  BY <1>1, <1>4, <1>5, <1>6, <1>7 DEF Replaced, SameSizes, Laid, q

(* What the receiver finds out about the header from the buffer.           *)
Headed(p) ==
  /\ HeaderSize(p.buffer) = p.hdrSize
  /\ cc(p.buffer) \in Nat /\ extension(p.buffer) \in {0, 1}
  /\ extension(p.buffer) = 1 =>
       SizeOfFixedHeader + cc(p.buffer) + 1 <= p.hdrSize

LEMMA HeaderIsFound ==
  ASSUME NEW p, Headed(p), p.hdrSize \in Nat, NEW b,
         extension(b) = extension(p.buffer), cc(b) = cc(p.buffer),
         \A i \in SizeOfFixedHeader + 1 .. p.hdrSize : b[i] = p.buffer[i]
  PROVE  HeaderSize(b) = p.hdrSize
<1>1. CASE extension(b) = 1
  <2>1. SizeOfFixedHeader + cc(b) + 1 \in SizeOfFixedHeader + 1 .. p.hdrSize
    BY <1>1 DEF Headed, SizeOfFixedHeader
  <2>2. b[SizeOfFixedHeader + cc(b) + 1] = p.buffer[SizeOfFixedHeader + cc(b) + 1]
    BY <2>1
  <2> QED
    BY <1>1, <2>2 DEF Headed, HeaderSize
<1>2. CASE extension(b) # 1
  BY <1>2 DEF Headed, HeaderSize
<1> QED
  BY <1>1, <1>2

LEMMA FlagsArePlain ==
  ASSUME NEW a \in Int, NEW b \in Int, NEW c \in Int
  PROVE  /\ Flags(a, b, c) \in PlainCells
         /\ Flags(a, b, c).v[1] = a /\ Flags(a, b, c).v[2] = b
         /\ Flags(a, b, c).v[3] = c
<1>1. PICK values : values = <<a, b, c>>
  OBVIOUS
<1>2. /\ values \in Seq(Int)
      /\ values[1] = a /\ values[2] = b /\ values[3] = c
  BY <1>1
<1>3. Flags(a, b, c) = Cell(values)
  BY <1>1 DEF Flags
<1> QED
  BY <1>2, <1>3, CellIsPlain

LEMMA ExtendedFlags ==
  ASSUME NEW a \in Int
  PROVE  /\ Flags(a, 1, 2) \in PlainCells
         /\ Flags(a, 1, 2).v[1] = a /\ Flags(a, 1, 2).v[2] = 1
         /\ Flags(a, 1, 2).v[3] = 2
<1>1. PICK one, two : one = 1 /\ two = 2
  OBVIOUS
<1>2. one \in Int /\ two \in Int
  BY <1>1
<1>3. /\ Flags(a, one, two) \in PlainCells
      /\ Flags(a, one, two).v[1] = a /\ Flags(a, one, two).v[2] = one
      /\ Flags(a, one, two).v[3] = two
  BY <1>2, FlagsArePlain
<1> QED
  BY <1>1, <1>3

LEMMA CsrcsLay ==
  ASSUME NEW p, NEW pad, Laid(p, pad), extension(p.buffer) = 0,
         p.hdrSize >= SizeOfFixedHeader + 2,
         NEW r, r = setCSRCArray(p, Csrcs)
  PROVE  /\ Laid(r, pad) /\ SameSizes(p, r)
         /\ extension(r.buffer) = 0 /\ cc(r.buffer) = 2
<1>1. Csrcs \in Seq(Int) /\ Len(Csrcs) = 2
  BY DEF Csrcs
<1>2. PICK cells : cells = Cells(Csrcs)
  OBVIOUS
<1>3. cells \in Seq(PlainCells) /\ Len(cells) = 2
  BY <1>1, <1>2, CellsArePlain
<1>4. PICK q : q = setbuffer(p, cells, SizeOfFixedHeader)
  OBVIOUS
<1>5. p.hdrSize \in Nat /\ p.payloadSize \in Nat /\ p \in RtpPackets
  BY DEF Laid, RtpPackets
<1>6. /\ SizeOfFixedHeader \in Nat /\ SizeOfFixedHeader >= 1
      /\ SizeOfFixedHeader + Len(cells) <= p.hdrSize + p.payloadSize
  BY <1>3, <1>5 DEF SizeOfFixedHeader
<1>7. Laid(q, pad) /\ SameSizes(p, q)
  <2>1. Fits(p, pad, SizeOfFixedHeader, cells)
    BY <1>3, <1>6 DEF Fits
  <2> QED
    BY <1>4, <2>1, SetbufferLays DEF Overlaid
<1>8. PICK c : c = Flags(padding(p.buffer), extension(p.buffer), Len(Csrcs) % MaxCount)
  OBVIOUS
<1>9. c \in PlainCells /\ c.v[1] = padding(p.buffer) /\ c.v[2] = 0 /\ c.v[3] = 2
  <2>1. padding(p.buffer) \in Int /\ Len(Csrcs) % MaxCount = 2
    BY <1>1 DEF Laid, MaxCount
  <2>2. c = Flags(padding(p.buffer), 0, 2)
    BY <1>8, <2>1
  <2> QED
    BY <2>1, <2>2, FlagsArePlain
<1>10. padding(q.buffer) = padding(p.buffer)
  BY <1>7 DEF Laid
<1>11. r = [q EXCEPT !.buffer[FLAGS] = c]
  BY <1>2, <1>4, <1>5, <1>8 DEF setCSRCArray, setbuffer, RtpPackets
<1>12. FLAGS \in 1 .. q.hdrSize
  BY <1>5, <1>7 DEF FLAGS, SizeOfFixedHeader, SameSizes
<1>13. Laid(r, pad) /\ SameSizes(q, r) /\ r.buffer[FLAGS] = c
  <2>1. InHeader(q, pad, FLAGS, c)
    BY <1>7, <1>9, <1>10, <1>12 DEF InHeader
  <2> QED
    BY <1>11, <2>1, HeaderCellLays DEF Replaced
<1> QED
  BY <1>7, <1>9, <1>13 DEF SameSizes, extension, cc

LEMMA DataIsPlain ==
  ASSUME setup.size \in Nat
  PROVE  Data \in Seq(Int) /\ Len(Data) = setup.size
<1>1. Data \in [1 .. setup.size -> Int]
  BY DEF Data
<1> QED
  BY <1>1, FunctionIsSeq

(* A packet of an application, of each layout.                             *)
WellMade(p) ==
  /\ \E pad : Laid(p, pad)
  /\ Headed(p) /\ p.srtpLength = SrtpLength

LEMMA DataPacketIsMade ==
  ASSUME setup.size \in Nat, setup.paddinglen \in Nat, SrtpLength \in Nat
  PROVE  WellMade(OutgoingData(Data, setup.paddinglen, SrtpLength))
<1>1. Data \in Seq(Int) /\ Len(Data) = setup.size
  BY DataIsPlain
<1>2. PICK p : p = RTPPacket(SizeOfFixedHeader, Len(Data), setup.paddinglen, SrtpLength)
  OBVIOUS
<1>4. SizeOfFixedHeader \in Nat /\ SizeOfFixedHeader = 5
  BY DEF SizeOfFixedHeader
<1>3. Room(SizeOfFixedHeader, Len(Data), SrtpLength, p)
  <2>1. Len(Data) \in Nat
    BY <1>1
  <2>2. SizeOfFixedHeader >= SizeOfFixedHeader
    BY <1>4
  <2> QED
    BY <1>2, <1>4, <2>1, <2>2, RoomIsLaid
<1>5. PICK pad : Laid(p, pad)
  BY <1>3 DEF Room
<1>6. PICK cells : cells = Cells(Data)
  OBVIOUS
<1>7. cells \in Seq(PlainCells) /\ Len(cells) = Len(Data)
  BY <1>1, <1>6, CellsArePlain
<1>8. PICK q : q = setbuffer(p, cells, SizeOfFixedHeader)
  OBVIOUS
<1>9. Fits(p, pad, SizeOfFixedHeader, cells)
  BY <1>1, <1>3, <1>4, <1>5, <1>7 DEF Fits, Room
<1>10. /\ Laid(q, pad) /\ q.hdrSize = p.hdrSize /\ q.srtpLength = p.srtpLength
       /\ \A i \in 1 .. SizeOfFixedHeader : q.buffer[i] = p.buffer[i]
  BY <1>8, <1>9, SetbufferLays DEF Overlaid, SameSizes
<1>11. q.buffer[FLAGS] = p.buffer[FLAGS]
  BY <1>10 DEF FLAGS, SizeOfFixedHeader
<1>12. Headed(q)
  BY <1>3, <1>4, <1>10, <1>11 DEF Headed, HeaderSize, extension, cc, Room
<1>13. q = OutgoingData(Data, setup.paddinglen, SrtpLength)
  BY <1>2, <1>6, <1>8 DEF OutgoingData
<1> QED
  BY <1>3, <1>10, <1>12, <1>13 DEF WellMade, Room

LEMMA SourcesPacketIsMade ==
  ASSUME setup.size \in Nat, setup.paddinglen \in Nat, SrtpLength \in Nat
  PROVE  WellMade(OutgoingWithSources(Csrcs, Data, setup.paddinglen, SrtpLength))
<1>1. Data \in Seq(Int) /\ Len(Data) = setup.size
  BY DataIsPlain
<1>2. PICK before : before = SizeOfFixedHeader + Len(Csrcs)
  OBVIOUS
<1>3. before = 7 /\ before \in Nat /\ SizeOfFixedHeader = 5
  BY <1>2 DEF SizeOfFixedHeader, Csrcs
<1>4. PICK p : p = RTPPacket(before, Len(Data), setup.paddinglen, SrtpLength)
  OBVIOUS
<1>5. Room(before, Len(Data), SrtpLength, p)
  <2>1. before >= SizeOfFixedHeader /\ Len(Data) \in Nat
    BY <1>1, <1>3
  <2> QED
    BY <1>3, <1>4, <2>1, RoomIsLaid
<1>6. PICK pad :
        /\ Laid(p, pad)
        /\ p.hdrSize = before /\ p.payloadSize = Len(Data)
        /\ p.srtpLength = SrtpLength /\ extension(p.buffer) = 0 /\ cc(p.buffer) = 0
  BY <1>5 DEF Room
<1>7. PICK r : r = setCSRCArray(p, Csrcs)
  OBVIOUS
<1>8. /\ Laid(r, pad) /\ SameSizes(p, r)
      /\ extension(r.buffer) = 0 /\ cc(r.buffer) = 2
  <2>1. p.hdrSize >= SizeOfFixedHeader + 2
    BY <1>3, <1>6
  <2> QED
    BY <1>6, <1>7, <2>1, CsrcsLay
<1>9. PICK cells : cells = Cells(Data)
  OBVIOUS
<1>10. cells \in Seq(PlainCells) /\ Len(cells) = Len(Data)
  BY <1>1, <1>9, CellsArePlain
<1>11. PICK q : q = setbuffer(r, cells, before)
  OBVIOUS
<1>12. Fits(r, pad, before, cells)
  BY <1>1, <1>3, <1>6, <1>8, <1>10 DEF SameSizes, Fits
<1>13. /\ Laid(q, pad) /\ q.hdrSize = r.hdrSize /\ q.srtpLength = r.srtpLength
       /\ \A i \in 1 .. before : q.buffer[i] = r.buffer[i]
  BY <1>11, <1>12, SetbufferLays DEF Overlaid, SameSizes
<1>14. q.buffer[FLAGS] = r.buffer[FLAGS]
  BY <1>3, <1>13 DEF FLAGS
<1>15. Headed(q)
  <2>1. extension(q.buffer) = 0 /\ cc(q.buffer) = 2
    BY <1>8, <1>14 DEF extension, cc
  <2>2. q.hdrSize = 7
    BY <1>3, <1>6, <1>8, <1>13 DEF SameSizes
  <2>3. HeaderSize(q.buffer) = 7
    BY <1>3, <2>1 DEF HeaderSize
  <2> QED
    BY <2>1, <2>2, <2>3 DEF Headed
<1>16. q = OutgoingWithSources(Csrcs, Data, setup.paddinglen, SrtpLength)
  BY <1>2, <1>4, <1>7, <1>9, <1>11 DEF OutgoingWithSources
<1> QED
  BY <1>6, <1>8, <1>13, <1>15, <1>16 DEF WellMade, SameSizes

LEMMA ExtensionPacketIsMade ==
  ASSUME setup.size \in Nat, setup.paddinglen \in Nat, SrtpLength \in Nat
  PROVE  WellMade(OutgoingWithExtension(Csrcs, Extension, Data, setup.paddinglen,
                                    SrtpLength))
<1>1. Data \in Seq(Int) /\ Len(Data) = setup.size
  BY DataIsPlain
<1>2. PICK before : before = SizeOfFixedHeader + Len(Csrcs)
  OBVIOUS
<1>3. /\ before = 7 /\ before \in Nat /\ SizeOfFixedHeader = 5
      /\ Extension \in Seq(Int) /\ Len(Extension) = 2 /\ Extension[1] = 1
  BY <1>2 DEF SizeOfFixedHeader, Csrcs, Extension
<1>4. PICK p : p = RTPPacket(before + Len(Extension), Len(Data),
                             setup.paddinglen, SrtpLength)
  OBVIOUS
<1>5. Room(9, Len(Data), SrtpLength, p)
  <2>1. 9 >= SizeOfFixedHeader /\ Len(Data) \in Nat /\ before + Len(Extension) = 9
    BY <1>1, <1>3
  <2> QED
    BY <1>4, <2>1, RoomIsLaid
<1>6. PICK pad :
        /\ Laid(p, pad)
        /\ p.hdrSize = 9 /\ p.payloadSize = Len(Data)
        /\ p.srtpLength = SrtpLength /\ extension(p.buffer) = 0 /\ cc(p.buffer) = 0
  BY <1>5 DEF Room
<1>7. PICK r : r = setCSRCArray(p, Csrcs)
  OBVIOUS
<1>8. /\ Laid(r, pad) /\ SameSizes(p, r)
      /\ extension(r.buffer) = 0 /\ cc(r.buffer) = 2
  <2>1. p.hdrSize >= SizeOfFixedHeader + 2
    BY <1>3, <1>6
  <2> QED
    BY <1>6, <1>7, <2>1, CsrcsLay
<1>9. PICK cells : cells = Cells(Extension)
  OBVIOUS
<1>10. /\ cells \in Seq(PlainCells) /\ Len(cells) = 2
       /\ cells[1] = Cell(<<1>>)
  <2>1. 1 \in 1 .. Len(Extension)
    BY <1>3
  <2> QED
    BY <1>3, <1>9, <2>1, CellsArePlain
<1>11. PICK q : q = setbuffer(r, cells, before)
  OBVIOUS
<1>12. Fits(r, pad, before, cells)
  BY <1>1, <1>3, <1>6, <1>8, <1>10 DEF SameSizes, Fits
<1>13. /\ Laid(q, pad) /\ SameSizes(r, q)
       /\ \A i \in 1 .. before : q.buffer[i] = r.buffer[i]
       /\ \A i \in 1 .. Len(cells) : q.buffer[before + i] = cells[i]
  BY <1>11, <1>12, SetbufferLays DEF Overlaid
<1>14. q.buffer[8] = Cell(<<1>>) /\ q.buffer[FLAGS] = r.buffer[FLAGS]
  <2>1. 1 \in 1 .. Len(cells) /\ FLAGS \in 1 .. before /\ before + 1 = 8
    BY <1>3, <1>10 DEF FLAGS
  <2> QED
    BY <1>10, <1>13, <2>1
<1>15. PICK t : t = setExtension(q, Extension)
  OBVIOUS
<1>16. /\ Laid(t, pad) /\ SameSizes(q, t) /\ t.buffer[8] = Cell(<<1>>)
       /\ extension(t.buffer) = 1 /\ cc(t.buffer) = 2
  <2>1. PICK c : c = Flags(padding(q.buffer), 1, cc(q.buffer))
    OBVIOUS
  <2>2. c \in PlainCells /\ c.v[1] = padding(q.buffer) /\ c.v[2] = 1 /\ c.v[3] = 2
    <3>1. padding(q.buffer) \in Int /\ cc(q.buffer) = 2
      BY <1>8, <1>13, <1>14 DEF Laid, cc
    <3>2. c = Flags(padding(q.buffer), 1, 2)
      BY <2>1, <3>1
    <3> QED
      BY <3>1, <3>2, ExtendedFlags
  <2>3. t = [q EXCEPT !.buffer[FLAGS] = c]
    <3>1. Extension # <<>>
      BY DEF Extension
    <3> QED
      BY <1>15, <2>1, <3>1 DEF setExtension
  <2>4. /\ q.hdrSize = 9 /\ q.payloadSize \in Nat /\ FLAGS \in 1 .. q.hdrSize
        /\ 8 \in 1 .. Len(q.buffer) /\ 8 # FLAGS
    BY <1>6, <1>8, <1>13 DEF SameSizes, Laid, RtpPackets, FLAGS
  <2>5. /\ Laid(t, pad) /\ SameSizes(q, t) /\ t.buffer[FLAGS] = c
        /\ \A i \in 1 .. Len(q.buffer) : i # FLAGS => t.buffer[i] = q.buffer[i]
    <3>1. InHeader(q, pad, FLAGS, c)
      BY <1>13, <2>2, <2>4 DEF InHeader
    <3> QED
      BY <2>3, <3>1, HeaderCellLays DEF Replaced
  <2>6. t.buffer[8] = q.buffer[8]
    BY <2>4, <2>5
  <2> QED
    BY <1>14, <2>2, <2>5, <2>6 DEF extension, cc
<1>17. PICK d : d = Cells(Data)
  OBVIOUS
<1>18. d \in Seq(PlainCells) /\ Len(d) = Len(Data)
  BY <1>1, <1>17, CellsArePlain
<1>19. PICK u : u = setbuffer(t, d, before + Len(Extension))
  OBVIOUS
<1>20. /\ before + Len(Extension) = 9 /\ before + Len(Extension) >= 1
       /\ before + Len(Extension) \in Nat
       /\ before + Len(Extension) + Len(d) <= t.hdrSize + t.payloadSize
       /\ t.hdrSize = 9 /\ t.srtpLength = SrtpLength
  BY <1>1, <1>3, <1>6, <1>8, <1>13, <1>16, <1>18 DEF SameSizes
<1>21. /\ Laid(u, pad) /\ SameSizes(t, u)
       /\ \A i \in 1 .. 9 : u.buffer[i] = t.buffer[i]
  <2>1. Fits(t, pad, before + Len(Extension), d)
    BY <1>16, <1>18, <1>20 DEF Fits
  <2> QED
    BY <1>19, <1>20, <2>1, SetbufferLays DEF Overlaid
<1>22. u.buffer[8] = Cell(<<1>>) /\ u.buffer[FLAGS] = t.buffer[FLAGS]
  BY <1>16, <1>21 DEF FLAGS
<1>23. Headed(u)
  <2>1. u.buffer[8].v[1] = 1
    BY <1>22 DEF Cell
  <2>2. extension(u.buffer) = 1 /\ cc(u.buffer) = 2 /\ u.hdrSize = 9
    BY <1>16, <1>20, <1>21, <1>22 DEF extension, cc, SameSizes
  <2> QED
    BY <1>3, <2>1, <2>2 DEF Headed, HeaderSize
<1>24. u = OutgoingWithExtension(Csrcs, Extension, Data, setup.paddinglen, SrtpLength)
  BY <1>2, <1>4, <1>7, <1>9, <1>11, <1>15, <1>17, <1>19 DEF OutgoingWithExtension
<1> QED
  BY <1>20, <1>21, <1>23, <1>24 DEF WellMade, SameSizes

LEMMA PacketIsMade ==
  ASSUME setup \in Setups
  PROVE  WellMade(Packet) /\ SrtpLength \in Nat
<1>1. setup.size \in Nat /\ setup.paddinglen \in Nat
  BY SecureConstants
<1>2. SrtpLength \in Nat
  BY SecureConstants DEF SrtpLength, getTagLength
<1> QED
  BY <1>1, <1>2, DataPacketIsMade, SourcesPacketIsMade, ExtensionPacketIsMade
     DEF Packet

(* The five fields that are set for each packet.                           *)
MadeFor(p, kinds, seq, stamp, ssrc) ==
  /\ WellMade(p) /\ getSeqNum(p) = seq /\ getSSRC(p) = ssrc
  /\ p.buffer[KIND] = Cell(kinds) /\ p.buffer[SEQUENCE] = Cell(<<seq>>)
  /\ p.buffer[TIMESTAMP] = Cell(<<stamp>>) /\ p.buffer[SSRC] = Cell(<<ssrc>>)

LEMMA AddressedIsMade ==
  ASSUME NEW p, WellMade(p), NEW marker \in Int, NEW payload \in Int,
         NEW seq \in Int, NEW stamp \in Int, NEW ssrc \in Int,
         NEW q, q = Addressed(p, marker, payload, seq, stamp, ssrc)
  PROVE  MadeFor(q, <<marker, payload>>, seq, stamp, ssrc)
<1>1. PICK pad : Laid(p, pad)
  BY DEF WellMade
<1>2. Headed(p) /\ p.srtpLength = SrtpLength
  BY DEF WellMade
<1>3. /\ p \in RtpPackets /\ p.hdrSize \in Nat /\ p.payloadSize \in Nat
      /\ p.srtpLength \in Nat /\ pad \in Nat /\ p.hdrSize >= 5
      /\ Len(p.buffer) = p.hdrSize + p.payloadSize + pad + p.srtpLength
  BY <1>1 DEF Laid, RtpPackets, SizeOfFixedHeader
<1>4. KIND = 2 /\ SEQUENCE = 3 /\ TIMESTAMP = 4 /\ SSRC = 5 /\ FLAGS = 1
  BY DEF KIND, SEQUENCE, TIMESTAMP, SSRC, FLAGS
<1>5. /\ Cell(<<marker, payload>>) \in PlainCells /\ Cell(<<seq>>) \in PlainCells
      /\ Cell(<<stamp>>) \in PlainCells /\ Cell(<<ssrc>>) \in PlainCells
      /\ Cell(<<seq>>).v[1] = seq /\ Cell(<<ssrc>>).v[1] = ssrc
  <2>1. PICK kinds : kinds = <<marker, payload>>
    OBVIOUS
  <2>2. kinds \in Seq(Int)
    BY <2>1
  <2>3. ASSUME NEW k \in Int
        PROVE  Cell(<<k>>) \in PlainCells /\ Cell(<<k>>).v[1] = k
    <3>1. PICK one : one = <<k>>
      OBVIOUS
    <3>2. one \in Seq(Int) /\ one[1] = k
      BY <3>1
    <3> QED
      BY <3>1, <3>2, CellIsPlain
  <2> QED
    BY <2>1, <2>2, <2>3, CellIsPlain
<1>6. PICK p1 : p1 = [p EXCEPT !.buffer[KIND] = Cell(<<marker, payload>>)]
  OBVIOUS
<1>7. /\ Laid(p1, pad) /\ SameSizes(p, p1)
      /\ p1.buffer[KIND] = Cell(<<marker, payload>>)
      /\ \A i \in 1 .. Len(p.buffer) : i # KIND => p1.buffer[i] = p.buffer[i]
  <2>1. KIND \in 1 .. p.hdrSize /\ KIND # FLAGS
    BY <1>3, <1>4
  <2>2. InHeader(p, pad, KIND, Cell(<<marker, payload>>))
    BY <1>1, <1>5, <2>1 DEF InHeader
  <2>3. Replaced(p, pad, KIND, Cell(<<marker, payload>>), p1)
    BY <1>6, <2>2, HeaderCellLays
  <2> QED
    BY <2>3 DEF Replaced
<1>8. PICK p2 : p2 = [p1 EXCEPT !.buffer[SEQUENCE] = Cell(<<seq>>)]
  OBVIOUS
<1>9. /\ Laid(p2, pad) /\ SameSizes(p1, p2) /\ p2.buffer[SEQUENCE] = Cell(<<seq>>)
      /\ \A i \in 1 .. Len(p1.buffer) : i # SEQUENCE => p2.buffer[i] = p1.buffer[i]
  <2>1. SEQUENCE \in 1 .. p1.hdrSize /\ SEQUENCE # FLAGS
    BY <1>3, <1>4, <1>7 DEF SameSizes
  <2>2. InHeader(p1, pad, SEQUENCE, Cell(<<seq>>))
    BY <1>5, <1>7, <2>1 DEF InHeader
  <2>3. Replaced(p1, pad, SEQUENCE, Cell(<<seq>>), p2)
    BY <1>8, <2>2, HeaderCellLays
  <2> QED
    BY <2>3 DEF Replaced
<1>10. PICK p3 : p3 = [p2 EXCEPT !.buffer[TIMESTAMP] = Cell(<<stamp>>)]
  OBVIOUS
<1>11. /\ Laid(p3, pad) /\ SameSizes(p2, p3)
       /\ p3.buffer[TIMESTAMP] = Cell(<<stamp>>)
       /\ \A i \in 1 .. Len(p2.buffer) : i # TIMESTAMP => p3.buffer[i] = p2.buffer[i]
  <2>1. TIMESTAMP \in 1 .. p2.hdrSize /\ TIMESTAMP # FLAGS
    BY <1>3, <1>4, <1>7, <1>9 DEF SameSizes
  <2>2. InHeader(p2, pad, TIMESTAMP, Cell(<<stamp>>))
    BY <1>5, <1>9, <2>1 DEF InHeader
  <2>3. Replaced(p2, pad, TIMESTAMP, Cell(<<stamp>>), p3)
    BY <1>10, <2>2, HeaderCellLays
  <2> QED
    BY <2>3 DEF Replaced
<1>12. PICK p4 : p4 = [p3 EXCEPT !.buffer[SSRC] = Cell(<<ssrc>>)]
  OBVIOUS
<1>13. /\ Laid(p4, pad) /\ SameSizes(p3, p4) /\ p4.buffer[SSRC] = Cell(<<ssrc>>)
       /\ \A i \in 1 .. Len(p3.buffer) : i # SSRC => p4.buffer[i] = p3.buffer[i]
  <2>1. SSRC \in 1 .. p3.hdrSize /\ SSRC # FLAGS
    BY <1>3, <1>4, <1>7, <1>9, <1>11 DEF SameSizes
  <2>2. InHeader(p3, pad, SSRC, Cell(<<ssrc>>))
    BY <1>5, <1>11, <2>1 DEF InHeader
  <2>3. Replaced(p3, pad, SSRC, Cell(<<ssrc>>), p4)
    BY <1>12, <2>2, HeaderCellLays
  <2> QED
    BY <2>3 DEF Replaced
<1>14. q = p4
  BY <1>3, <1>6, <1>8, <1>10, <1>12 DEF Addressed, RtpPackets
<1>15. /\ Len(p1.buffer) = Len(p.buffer) /\ Len(p2.buffer) = Len(p.buffer)
       /\ Len(p3.buffer) = Len(p.buffer)
  BY <1>3, <1>6, <1>8, <1>10 DEF RtpPackets
<1>16. \A i \in 1 .. Len(p.buffer) : i = 1 \/ i > 5 => q.buffer[i] = p.buffer[i]
  BY <1>4, <1>7, <1>9, <1>11, <1>13, <1>14, <1>15
<1>17. /\ q.buffer[KIND] = Cell(<<marker, payload>>)
       /\ q.buffer[SEQUENCE] = Cell(<<seq>>)
       /\ q.buffer[TIMESTAMP] = Cell(<<stamp>>) /\ q.buffer[SSRC] = Cell(<<ssrc>>)
  <2>1. \A i \in 2 .. 5 : i \in 1 .. Len(p.buffer)
    <3>1. PICK h, v, t, n : /\ h = p.hdrSize /\ v = p.payloadSize /\ t = p.srtpLength
                            /\ n = Len(p.buffer)
      OBVIOUS
    <3>2. h \in Nat /\ v \in Nat /\ t \in Nat /\ pad \in Nat /\ h >= 5
      BY <1>3, <3>1, Zenon
    <3>3. n = h + v + pad + t
      BY <1>3, <3>1, Zenon
    <3>4. n \in Nat /\ n >= 5
      BY <3>2, <3>3
    <3>5. ASSUME NEW i \in 2 .. 5 PROVE i \in 1 .. n
      BY <3>4
    <3> QED
      BY <3>1, <3>5, Zenon
  <2>2. q.buffer[KIND] = Cell(<<marker, payload>>)
    BY <1>4, <1>7, <1>9, <1>11, <1>13, <1>14, <1>15, <2>1
  <2>3. q.buffer[SEQUENCE] = Cell(<<seq>>)
    BY <1>4, <1>9, <1>11, <1>13, <1>14, <1>15, <2>1
  <2>4. q.buffer[TIMESTAMP] = Cell(<<stamp>>)
    BY <1>4, <1>11, <1>13, <1>14, <1>15, <2>1
  <2> QED
    BY <1>13, <1>14, <2>2, <2>3, <2>4
<1>18. SameSizes(p, q)
  BY <1>7, <1>9, <1>11, <1>13, <1>14 DEF SameSizes
<1>19. q.buffer[FLAGS] = p.buffer[FLAGS]
  <2>1. 1 \in 1 .. Len(p.buffer)
    BY <1>3
  <2> QED
    BY <1>4, <1>16, <2>1
<1>20. extension(q.buffer) = extension(p.buffer) /\ cc(q.buffer) = cc(p.buffer)
  BY <1>19 DEF extension, cc
<1>21. \A i \in SizeOfFixedHeader + 1 .. p.hdrSize : q.buffer[i] = p.buffer[i]
  <2>1. ASSUME NEW i \in SizeOfFixedHeader + 1 .. p.hdrSize
        PROVE  q.buffer[i] = p.buffer[i]
    <3>1. i \in 1 .. Len(p.buffer) /\ i > 5
      BY <1>3, <2>1 DEF SizeOfFixedHeader
    <3> QED
      BY <1>16, <3>1
  <2> QED
    BY <2>1
<1>22. HeaderSize(q.buffer) = p.hdrSize
  BY <1>2, <1>3, <1>20, <1>21, HeaderIsFound
<1>23. Headed(q)
  BY <1>2, <1>18, <1>20, <1>22 DEF Headed, SameSizes
<1> QED
  BY <1>2, <1>5, <1>13, <1>14, <1>17, <1>18, <1>23
     DEF MadeFor, WellMade, SameSizes, getSeqNum, getSSRC

LEMMA DivMod ==
  ASSUME NEW m \in Nat \ {0}, NEW a \in Nat, NEW b \in Nat,
         a \div m = b \div m, a % m = b % m
  PROVE  a = b
OBVIOUS

LEMMA DivIsNat ==
  ASSUME NEW a \in Nat
  PROVE  a \div SRTP_BLOCK_SIZE \in Nat
BY SrtpCryptoConstants

(* The vector of a packet, and its key stream.                             *)
VectorOf(p, ssrc, roc) ==
  IF setup.ealg = "AESCM" THEN counterVector(ssrc, Index(roc, getSeqNum(p)))
                          ELSE f8Vector(p, roc)

StreamOf(p, ssrc, roc, n) ==
  IF setup.ealg = "AESCM"
    THEN get_ctr_cipher_stream(Keys.e, n, VectorOf(p, ssrc, roc))
    ELSE f8_stream(Keys.e, n, VectorOf(p, ssrc, roc))

(* No byte is twice in a key stream: it is told by its block, and by its   *)
(* place in the block (gcryptAesSrtp.cxx:90-160, 180-290).                 *)
KeyStream(stream, n, iv) ==
  /\ DOMAIN stream = 1 .. n
  /\ \A k \in 1 .. n : stream[k].iv = iv
  /\ \A k \in 1 .. n : \A l \in 1 .. n : stream[k] = stream[l] => k = l

LEMMA CounterStreamIsOnce ==
  ASSUME NEW n \in Nat, NEW iv
  PROVE  KeyStream(get_ctr_cipher_stream(Keys.e, n, iv), n, iv)
<1>1. PICK st : st = get_ctr_cipher_stream(Keys.e, n, iv)
  OBVIOUS
<1>2. DOMAIN st = 1 .. n
  BY <1>1 DEF get_ctr_cipher_stream
<1>3. ASSUME NEW k \in 1 .. n
      PROVE  /\ st[k].iv = iv
             /\ st[k].blocks = <<(k - 1) \div SRTP_BLOCK_SIZE>>
             /\ st[k].at = (k - 1) % SRTP_BLOCK_SIZE
  BY <1>1 DEF get_ctr_cipher_stream, Byte
<1>4. ASSUME NEW k \in 1 .. n, NEW l \in 1 .. n, st[k] = st[l]
      PROVE  k = l
  <2>1. /\ (k - 1) \div SRTP_BLOCK_SIZE = (l - 1) \div SRTP_BLOCK_SIZE
        /\ (k - 1) % SRTP_BLOCK_SIZE = (l - 1) % SRTP_BLOCK_SIZE
    BY <1>3, <1>4
  <2>2. PICK a, b : a = k - 1 /\ b = l - 1
    OBVIOUS
  <2>3. a \in Nat /\ b \in Nat
    BY <2>2
  <2>4. a = b
    BY <2>1, <2>2, <2>3, DivMod, SrtpCryptoConstants
  <2> QED
    BY <2>2, <2>4
<1> QED
  BY <1>1, <1>2, <1>3, <1>4 DEF KeyStream

LEMMA F8StreamIsOnce ==
  ASSUME NEW n \in Nat, NEW iv
  PROVE  KeyStream(f8_stream(Keys.e, n, iv), n, iv)
<1>1. PICK st : st = f8_stream(Keys.e, n, iv)
  OBVIOUS
<1>2. DOMAIN st = 1 .. n
  BY <1>1 DEF f8_stream
<1>3. ASSUME NEW k \in 1 .. n
      PROVE  /\ st[k].iv = iv
             /\ st[k].blocks = [b \in 1 .. (k - 1) \div SRTP_BLOCK_SIZE + 1 |-> b - 1]
             /\ st[k].at = (k - 1) % SRTP_BLOCK_SIZE
  BY <1>1 DEF f8_stream, Byte
<1>4. ASSUME NEW k \in 1 .. n, NEW l \in 1 .. n, st[k] = st[l]
      PROVE  k = l
  <2>1. PICK a, b : a = k - 1 /\ b = l - 1
    OBVIOUS
  <2>2. a \in Nat /\ b \in Nat
    BY <2>1
  <2>3. PICK i, j : i = a \div SRTP_BLOCK_SIZE /\ j = b \div SRTP_BLOCK_SIZE
    OBVIOUS
  <2>4. i \in Nat /\ j \in Nat
    BY <2>2, <2>3, DivIsNat
  <2>5. [x \in 1 .. i + 1 |-> x - 1] = [x \in 1 .. j + 1 |-> x - 1]
    BY <1>3, <1>4, <2>1, <2>3
  <2>6. i = j
    <3>1. 1 .. i + 1 = 1 .. j + 1
      BY <2>5
    <3>2. i + 1 \in 1 .. j + 1 /\ j + 1 \in 1 .. i + 1
      BY <2>4, <3>1
    <3> QED
      BY <2>4, <3>2
  <2>7. a % SRTP_BLOCK_SIZE = b % SRTP_BLOCK_SIZE
    BY <1>3, <1>4, <2>1
  <2>8. a = b
    BY <2>2, <2>3, <2>6, <2>7, DivMod, SrtpCryptoConstants
  <2> QED
    BY <2>1, <2>8
<1> QED
  BY <1>1, <1>2, <1>3, <1>4 DEF KeyStream

LEMMA StreamIsOnce ==
  ASSUME NEW n \in Nat, NEW p, NEW ssrc, NEW roc
  PROVE  KeyStream(StreamOf(p, ssrc, roc, n), n, VectorOf(p, ssrc, roc))
BY CounterStreamIsOnce, F8StreamIsOnce DEF StreamOf

(* The number of bytes of a stream.                                        *)
LEMMA StreamBytes ==
  ASSUME NEW n \in Nat, NEW iv, NEW stream, KeyStream(stream, n, iv),
         NEW bytes, bytes = {stream[k] : k \in 1 .. n}
  PROVE  Cardinality(bytes) = n
<1>1. IsFiniteSet(1 .. n) /\ Cardinality(1 .. n) = n
  BY FS_Interval
<1>2. PICK f : f = [k \in 1 .. n |-> stream[k]]
  OBVIOUS
<1>3. f \in Bijection(1 .. n, bytes)
  <2>1. f \in [1 .. n -> bytes]
    BY <1>2
  <2>2. \A k \in 1 .. n : \A l \in 1 .. n : f[k] = f[l] => k = l
    BY <1>2 DEF KeyStream
  <2>3. \A y \in bytes : \E k \in 1 .. n : f[k] = y
    BY <1>2
  <2> QED
    BY <2>1, <2>2, <2>3
       DEF Bijection, Injection, Surjection, IsInjective, ExistsBijection
<1> QED
  BY <1>1, <1>3, FS_Bijection DEF ExistsBijection

(* What of the packet before it a vector tells: its source and its index.  *)
Stamp(iv) ==
  IF setup.ealg = "AESCM" THEN <<iv[4], iv[5]>>
                          ELSE <<iv[8], Index(iv[9], iv[6])>>

LEMMA SaltIsThree == Keys.s \in Seq(Int) /\ Len(Keys.s) = 3
<1>1. Keys.s = <<2, 0>> \o <<SaltCells>>
  BY DEF Keys, k_s, SessionKey, computeIv
<1>2. PICK a, b : a = <<2, 0>> /\ b = <<SaltCells>>
  OBVIOUS
<1>3. a \in Seq(Int) /\ Len(a) = 2 /\ b \in Seq(Int) /\ Len(b) = 1
  BY <1>2, SrtpCryptoConstants
<1> QED
  BY <1>1, <1>2, <1>3, JoinedIsSeq DEF Joined

VectorFields(p, kind, what, seq, stamp, ssrc, roc) ==
  /\ kind \in Int /\ what \in Int /\ seq \in Int /\ stamp \in Int
  /\ ssrc \in Int /\ roc \in Int /\ Index(roc, seq) \in Int
  /\ p.buffer[KIND] = Cell(<<kind, what>>)
  /\ p.buffer[SEQUENCE] = Cell(<<seq>>)
  /\ p.buffer[TIMESTAMP] = Cell(<<stamp>>) /\ p.buffer[SSRC] = Cell(<<ssrc>>)

LEMMA VectorIsStamped ==
  ASSUME NEW p, NEW kind, NEW what, NEW seq, NEW stamp, NEW ssrc, NEW roc,
         VectorFields(p, kind, what, seq, stamp, ssrc, roc)
  PROVE  Stamp(VectorOf(p, ssrc, roc)) = <<ssrc, Index(roc, seq)>>
<1> USE DEF VectorFields
<1>1. getSeqNum(p) = seq
  BY DEF getSeqNum, Cell
<1>2. CASE setup.ealg = "AESCM"
  <2>1. PICK tail : tail = <<ssrc, Index(roc, seq)>>
    OBVIOUS
  <2>2. tail \in Seq(Int) /\ Len(tail) = 2 /\ tail[1] = ssrc /\ tail[2] = Index(roc, seq)
    BY <2>1
  <2>3. PICK iv : iv = Keys.s \o tail
    OBVIOUS
  <2>4. Joined(Keys.s, tail, iv)
    BY <2>2, <2>3, SaltIsThree, JoinedIsSeq
  <2>5. iv[4] = ssrc /\ iv[5] = Index(roc, seq)
    <3>1. 1 \in 1 .. Len(tail) /\ 2 \in 1 .. Len(tail)
      BY <2>2
    <3> QED
      BY <2>2, <2>4, <3>1, SaltIsThree DEF Joined
  <2>6. VectorOf(p, ssrc, roc) = iv
    BY <1>1, <1>2, <2>1, <2>3 DEF VectorOf, counterVector
  <2> QED
    BY <1>2, <2>5, <2>6 DEF Stamp
<1>3. CASE setup.ealg # "AESCM"
  <2>1. PICK a, b, c, d, e :
          /\ a = <<kind, what>> /\ b = <<seq>> /\ c = <<stamp>> /\ d = <<ssrc>>
          /\ e = <<roc>>
    OBVIOUS
  <2>2. /\ a \in Seq(Int) /\ Len(a) = 2 /\ b \in Seq(Int) /\ Len(b) = 1 /\ b[1] = seq
        /\ c \in Seq(Int) /\ Len(c) = 1
        /\ d \in Seq(Int) /\ Len(d) = 1 /\ d[1] = ssrc
        /\ e \in Seq(Int) /\ Len(e) = 1 /\ e[1] = roc
    BY <2>1
  <2>3. PICK f : f = Keys.s \o a
    OBVIOUS
  <2>4. f \in Seq(Int) /\ Len(f) = 5
    <3>1. f \in Seq(Int) /\ Joined(Keys.s, a, f)
      BY <2>2, <2>3, SaltIsThree, JoinedIsSeq
    <3> QED
      BY <2>2, <3>1, SaltIsThree DEF Joined
  <2>5. PICK g : g = f \o b
    OBVIOUS
  <2>6. g \in Seq(Int) /\ Len(g) = 6 /\ g[6] = seq
    <3>1. g \in Seq(Int) /\ Joined(f, b, g) /\ 1 \in 1 .. Len(b)
      BY <2>2, <2>4, <2>5, JoinedIsSeq
    <3> QED
      BY <2>2, <2>4, <3>1 DEF Joined
  <2>7. PICK h : h = g \o c
    OBVIOUS
  <2>8. h \in Seq(Int) /\ Len(h) = 7 /\ h[6] = seq
    <3>1. h \in Seq(Int) /\ Joined(g, c, h) /\ 6 \in 1 .. Len(g)
      BY <2>2, <2>6, <2>7, JoinedIsSeq
    <3> QED
      BY <2>2, <2>6, <3>1 DEF Joined
  <2>9. PICK i : i = h \o d
    OBVIOUS
  <2>10. i \in Seq(Int) /\ Len(i) = 8 /\ i[6] = seq /\ i[8] = ssrc
    <3>1. /\ i \in Seq(Int) /\ Joined(h, d, i)
          /\ 6 \in 1 .. Len(h) /\ 1 \in 1 .. Len(d)
      BY <2>2, <2>8, <2>9, JoinedIsSeq
    <3> QED
      BY <2>2, <2>8, <3>1 DEF Joined
  <2>11. PICK iv : iv = i \o e
    OBVIOUS
  <2>12. iv[6] = seq /\ iv[8] = ssrc /\ iv[9] = roc
    <3>1. /\ Joined(i, e, iv) /\ 6 \in 1 .. Len(i) /\ 8 \in 1 .. Len(i)
          /\ 1 \in 1 .. Len(e)
      BY <2>2, <2>10, <2>11, JoinedIsSeq
    <3> QED
      BY <2>2, <2>10, <3>1 DEF Joined
  <2>13. /\ p.buffer[KIND].v = a /\ p.buffer[SEQUENCE].v = b
         /\ p.buffer[TIMESTAMP].v = c /\ p.buffer[SSRC].v = d
    BY <2>1 DEF Cell
  <2>14. f8Vector(p, roc) = iv
    BY <2>1, <2>3, <2>5, <2>7, <2>9, <2>11, <2>13 DEF f8Vector
  <2>15. VectorOf(p, ssrc, roc) = iv
    BY <1>3, <2>14 DEF VectorOf
  <2> QED
    BY <1>3, <2>12, <2>15 DEF Stamp
<1> QED
  BY <1>2, <1>3

LEMMA LengthOfPacket ==
  ASSUME NEW p, NEW pad, Laid(p, pad)
  PROVE  /\ p.payloadSize + (IF isPadded(p) THEN getPaddingSize(p) ELSE 0)
              = p.total - p.hdrSize
         /\ p.total - p.hdrSize \in Nat
<1>1. /\ p.hdrSize \in Nat /\ p.payloadSize \in Nat /\ pad \in Nat
      /\ p.total = p.hdrSize + p.payloadSize + pad
  BY DEF Laid, RtpPackets
<1>2. CASE pad = 0
  <2>1. ~isPadded(p)
    BY <1>2 DEF Laid, isPadded
  <2> QED
    BY <1>1, <1>2, <2>1
<1>3. CASE pad # 0
  <2>1. isPadded(p) /\ getPaddingSize(p) = pad
    BY <1>3 DEF Laid, isPadded, getPaddingSize
  <2> QED
    BY <1>1, <2>1
<1> QED
  BY <1>2, <1>3

(* What srtpEncrypt does to a buffer: the n cells behind the header are    *)
(* combined with the stream, one each.                                     *)
Aes == {"AESCM", "AESF8"}

Flip(cell, byte) ==
  IF setup.ealg \in Aes
    THEN [cell EXCEPT !.mask = (@ \ {byte}) \cup ({byte} \ @)] ELSE cell

Flipped(p, n, stream, b) ==
  /\ (\E S : b \in Seq(S)) /\ DOMAIN b = DOMAIN p.buffer
  /\ \A i \in DOMAIN p.buffer :
       b[i] = IF i \in p.hdrSize + 1 .. p.hdrSize + n
                THEN Flip(p.buffer[i], stream[i - p.hdrSize]) ELSE p.buffer[i]

CipherStream(p, index, ssrc, roc, n) ==
  IF setup.ealg = "AESCM"
    THEN get_ctr_cipher_stream(Keys.e, n, counterVector(ssrc, index))
    ELSE f8_stream(Keys.e, n, f8Vector(p, roc))

Ciphered(p, index, ssrc, roc, n, q) ==
  \E b : /\ q = [p EXCEPT !.buffer = b]
         /\ Flipped(p, n, CipherStream(p, index, ssrc, roc, n), b)

Cipherable(p, n) ==
  /\ \E S : p.buffer \in Seq(S)
  /\ p.hdrSize \in Nat /\ n \in Nat
  /\ n = p.payloadSize + (IF isPadded(p) THEN getPaddingSize(p) ELSE 0)
  /\ p.hdrSize + n <= Len(p.buffer)

LEMMA OverwrittenIsSeq ==
  ASSUME NEW S, NEW buffer \in Seq(S), NEW k, NEW cells
  PROVE  \E T : Overwritten(buffer, k, cells) \in Seq(T)
<1>1. PICK b : b = Overwritten(buffer, k, cells)
  OBVIOUS
<1>2. DOMAIN buffer = 1 .. Len(buffer) /\ Len(buffer) \in Nat
  OBVIOUS
<1>3. b = [i \in 1 .. Len(buffer) |-> b[i]]
  BY <1>1, <1>2 DEF Overwritten
<1>4. PICK T : T = {b[i] : i \in 1 .. Len(buffer)}
  OBVIOUS
<1>5. b \in [1 .. Len(buffer) -> T]
  BY <1>3, <1>4
<1> QED
  BY <1>1, <1>2, <1>5, FunctionIsSeq

LEMMA EncryptCiphers ==
  ASSUME NEW p, NEW n, Cipherable(p, n), setup.ealg \in Encryptions,
         NEW index, NEW ssrc, NEW roc
  PROVE  Ciphered(p, index, ssrc, roc, n,
                  srtpEncrypt(setup.ealg, p, index, ssrc, roc))
<1>1. PICK S : p.buffer \in Seq(S)
  BY DEF Cipherable
<1>2. PICK h : h = p.hdrSize
  OBVIOUS
<1>3. /\ h \in Nat /\ n \in Nat /\ h + n <= Len(p.buffer) /\ Len(p.buffer) \in Nat
      /\ DOMAIN p.buffer = 1 .. Len(p.buffer)
  BY <1>1, <1>2 DEF Cipherable
<1>4. PICK stream : stream = CipherStream(p, index, ssrc, roc, n)
  OBVIOUS
<1>5. PICK plain : plain = SubSeq(p.buffer, h + 1, h + n)
  OBVIOUS
<1>6. /\ plain \in Seq(S) /\ Len(plain) = n /\ DOMAIN plain = 1 .. n
      /\ \A i \in 1 .. n : plain[i] = p.buffer[h + i]
  BY <1>1, <1>3, <1>5
<1>7. PICK cells : cells = IF setup.ealg \in Aes THEN Combined(plain, stream) ELSE plain
  OBVIOUS
<1>8. DOMAIN cells = 1 .. n /\ \A i \in 1 .. n : cells[i] = Flip(plain[i], stream[i])
  BY <1>6, <1>7 DEF Combined, Flip
<1>9. Len(cells) = n
  <2>1. PICK C : C = {cells[i] : i \in 1 .. n}
    OBVIOUS
  <2>2. cells \in [1 .. n -> C]
    <3>1. cells = [i \in 1 .. n |-> cells[i]]
      <4>1. CASE setup.ealg \in Aes
        BY <1>6, <1>7, <4>1 DEF Combined
      <4>2. CASE setup.ealg \notin Aes
        BY <1>6, <1>7, <4>2
      <4> QED
        BY <4>1, <4>2
    <3> QED
      BY <2>1, <3>1
  <2> QED
    BY <1>3, <2>2, FunctionIsSeq
<1>10. PICK b : b = Overwritten(p.buffer, h, cells)
  OBVIOUS
<1>11. Flipped(p, n, stream, b)
  <2>1. DOMAIN b = DOMAIN p.buffer
    BY <1>10 DEF Overwritten
  <2>2. ASSUME NEW i \in DOMAIN p.buffer
        PROVE  b[i] = IF i \in h + 1 .. h + n
                        THEN Flip(p.buffer[i], stream[i - h]) ELSE p.buffer[i]
    <3>1. b[i] = IF i \in h + 1 .. h + n THEN cells[i - h] ELSE p.buffer[i]
      BY <1>9, <1>10 DEF Overwritten
    <3>2. i \in h + 1 .. h + n => i - h \in 1 .. n /\ h + (i - h) = i
      BY <1>3
    <3>3. i \in h + 1 .. h + n => cells[i - h] = Flip(p.buffer[i], stream[i - h])
      BY <1>6, <1>8, <3>2
    <3> QED
      BY <3>1, <3>3
  <2>3. \E T : b \in Seq(T)
    BY <1>1, <1>10, OverwrittenIsSeq
  <2> QED
    BY <1>2, <2>1, <2>2, <2>3 DEF Flipped
<1>12. srtpEncrypt(setup.ealg, p, index, ssrc, roc) = setbuffer(p, cells, h)
  <2>1. n = p.payloadSize + IF isPadded(p) THEN getPaddingSize(p) ELSE 0
    BY DEF Cipherable
  <2>2. CASE setup.ealg = "AESCM"
    BY <1>2, <1>4, <1>5, <1>7, <2>1, <2>2 DEF srtpEncrypt, CipherStream, Aes
  <2>3. CASE setup.ealg = "AESF8"
    BY <1>2, <1>4, <1>5, <1>7, <2>1, <2>3 DEF srtpEncrypt, CipherStream, Aes
  <2>4. CASE setup.ealg \notin Aes
    BY <1>2, <1>5, <1>7, <2>1, <2>4 DEF srtpEncrypt, Aes
  <2> QED
    BY <2>2, <2>3, <2>4 DEF Aes
<1>13. setbuffer(p, cells, h) = [p EXCEPT !.buffer = b]
  BY <1>10 DEF setbuffer
<1> QED
  BY <1>4, <1>11, <1>12, <1>13 DEF Ciphered

(* A tag behind the packet.                                                *)
TagCells == getTagLength(setup.aalg, TagLength)

LEMMA TagIsSeq ==
  ASSUME setup \in Setups, NEW p, NEW roc,
         NEW tag, tag = srtpAuthenticate(setup.aalg, p, roc, TagLength)
  PROVE  /\ TagCells \in Nat /\ DOMAIN tag = 1 .. TagCells /\ Len(tag) = TagCells
         /\ \A i \in 1 .. TagCells : tag[i].mask = {}
<1>1. TagCells \in Nat
  BY SecureConstants DEF TagCells, getTagLength
<1>2. DOMAIN tag = 1 .. TagCells /\ \A i \in 1 .. TagCells : tag[i].mask = {}
  BY DEF srtpAuthenticate, TagCells
<1>3. PICK C : C = {tag[i] : i \in 1 .. TagCells}
  OBVIOUS
<1>4. tag \in [1 .. TagCells -> C]
  <2>1. tag = [i \in 1 .. TagCells |-> tag[i]]
    BY DEF srtpAuthenticate, TagCells
  <2> QED
    BY <1>3, <2>1
<1> QED
  BY <1>1, <1>2, <1>4, FunctionIsSeq

(* A packet and what is sent of it.                                        *)
Tagged(p, q, sent, roc) ==
  /\ sent.total = p.total /\ sent.hdrSize = p.hdrSize
  /\ \E S : sent.buffer \in Seq(S)
  /\ DOMAIN sent.buffer = 1 .. p.total + TagCells
  /\ \A i \in 1 .. p.total : sent.buffer[i] = q.buffer[i]
  /\ \A i \in 1 .. TagCells :
       sent.buffer[p.total + i]
         = srtpAuthenticate(setup.aalg, q, roc, TagLength)[i]

Ready(p, ssrc, roc) ==
  /\ setup \in Setups /\ setup.srtp /\ p.srtpLength = TagCells
  /\ \E pad : Laid(p, pad)

LEMMA ProtectedIsTagged ==
  ASSUME NEW p, NEW ssrc, NEW roc, Ready(p, ssrc, roc)
  PROVE  \E q : /\ Ciphered(p, Index(roc, getSeqNum(p)), ssrc, roc,
                            p.total - p.hdrSize, q)
                /\ Tagged(p, q, Protected(p, ssrc, roc), roc)
<1>1. PICK pad : Laid(p, pad)
  BY DEF Ready
<1>2. PICK n : n = p.total - p.hdrSize
  OBVIOUS
<1>3. /\ p \in RtpPackets /\ p.buffer \in Seq(PlainCells) /\ p.hdrSize \in Nat
      /\ p.total \in Nat /\ n \in Nat /\ p.hdrSize + n = p.total
      /\ Len(p.buffer) = p.total + TagCells /\ TagCells \in Nat
      /\ DOMAIN p.buffer = 1 .. p.total + TagCells
  <2>1. TagCells \in Nat
    BY TagIsSeq DEF Ready
  <2> QED
    <3>1. /\ p \in RtpPackets /\ p.srtpLength = TagCells
          /\ Len(p.buffer) = p.total + p.srtpLength
      BY <1>1 DEF Laid, Ready
    <3>2. p.buffer \in Seq(PlainCells) /\ p.hdrSize \in Nat /\ p.total \in Nat
      BY <3>1 DEF RtpPackets
    <3>3. n \in Nat /\ p.hdrSize + n = p.total
      BY <1>1, <1>2, <3>2, LengthOfPacket
    <3>4. DOMAIN p.buffer = 1 .. p.total + TagCells
      BY <3>1, <3>2
    <3> QED
      BY <2>1, <3>1, <3>2, <3>3, <3>4
<1>4. Cipherable(p, n)
  <2>1. p.hdrSize + n <= Len(p.buffer)
    BY <1>3
  <2> QED
    BY <1>1, <1>2, <1>3, <2>1, LengthOfPacket DEF Cipherable
<1>5. PICK q : q = srtpEncrypt(setup.ealg, p, Index(roc, getSeqNum(p)), ssrc, roc)
  OBVIOUS
<1>6. Ciphered(p, Index(roc, getSeqNum(p)), ssrc, roc, n, q)
  <2>1. setup.ealg \in Encryptions
    BY SecureConstants DEF Ready
  <2> QED
    BY <1>4, <1>5, <2>1, EncryptCiphers
<1>7. PICK b : /\ q = [p EXCEPT !.buffer = b] /\ DOMAIN b = DOMAIN p.buffer
               /\ \E S : b \in Seq(S)
  BY <1>6 DEF Ciphered, Flipped
<1>8. PICK tag : tag = srtpAuthenticate(setup.aalg, q, roc, TagLength)
  OBVIOUS
<1>9. DOMAIN tag = 1 .. TagCells /\ Len(tag) = TagCells
  BY <1>8, TagIsSeq DEF Ready
<1>10. /\ q.buffer = b /\ q.total = p.total /\ q.hdrSize = p.hdrSize
  BY <1>3, <1>7 DEF RtpPackets
<1>11. PICK sent : sent = Protected(p, ssrc, roc)
  OBVIOUS
<1>12. PICK c : c = Overwritten(b, p.total, tag)
  OBVIOUS
<1>13. sent = [q EXCEPT !.buffer = c]
  BY <1>5, <1>8, <1>10, <1>11, <1>12 DEF Protected, setbuffer
<1>14. sent.buffer = c /\ sent.total = p.total /\ sent.hdrSize = p.hdrSize
  BY <1>3, <1>7, <1>13 DEF RtpPackets
<1>15. DOMAIN c = 1 .. p.total + TagCells
  BY <1>3, <1>7, <1>12 DEF Overwritten
<1>16. ASSUME NEW i \in 1 .. p.total PROVE c[i] = b[i]
  <2>1. i \in DOMAIN b /\ i \notin p.total + 1 .. p.total + Len(tag)
    BY <1>3, <1>7, <1>9
  <2> QED
    BY <1>12, <2>1 DEF Overwritten
<1>17. ASSUME NEW i \in 1 .. TagCells PROVE c[p.total + i] = tag[i]
  <2>1. /\ p.total + i \in DOMAIN b /\ p.total + i \in p.total + 1 .. p.total + Len(tag)
        /\ (p.total + i) - p.total = i
    <3>1. PICK m, k : m = p.total /\ k = TagCells
      OBVIOUS
    <3>2. m \in Nat /\ k \in Nat /\ i \in 1 .. k /\ DOMAIN b = 1 .. m + k
          /\ Len(tag) = k
      BY <1>3, <1>7, <1>9, <3>1
    <3>3. m + i \in 1 .. m + k /\ m + i \in m + 1 .. m + k /\ (m + i) - m = i
      BY <3>2
    <3> QED
      BY <3>1, <3>2, <3>3
  <2> QED
    BY <1>12, <2>1 DEF Overwritten
<1>18. \E S : c \in Seq(S)
  <2>1. PICK S : b \in Seq(S)
    BY <1>7
  <2> QED
    BY <1>12, <2>1, OverwrittenIsSeq
<1>19. Tagged(p, q, sent, roc)
  BY <1>8, <1>10, <1>14, <1>15, <1>16, <1>17, <1>18 DEF Tagged
<1> QED
  BY <1>2, <1>6, <1>11, <1>19

(* The bytes that are in the masks of a packet that is sent.               *)
MaskBytes(sent) ==
  LET masked == {i \in 1 .. sent.total : sent.buffer[i].mask # {}}
  IN UNION {sent.buffer[i].mask : i \in masked}

LEMMA BytesOfPacket ==
  ASSUME NEW p, NEW ssrc, NEW roc, Ready(p, ssrc, roc), setup.ealg \in Aes,
         getSSRC(p) = ssrc
  PROVE  LET sent == Protected(p, ssrc, roc)
             n == sent.total - sent.hdrSize
         IN /\ MaskBytes(sent) = {StreamOf(p, ssrc, roc, n)[k] : k \in 1 .. n}
            /\ n \in Nat
<1> DEFINE sent == Protected(p, ssrc, roc)
<1>1. PICK pad : Laid(p, pad)
  BY DEF Ready
<1>2. PICK n : n = p.total - p.hdrSize
  OBVIOUS
<1>3. /\ p \in RtpPackets /\ p.buffer \in Seq(PlainCells) /\ p.hdrSize \in Nat
      /\ p.total \in Nat /\ n \in Nat /\ p.hdrSize + n = p.total
      /\ Len(p.buffer) = p.total + TagCells /\ TagCells \in Nat
      /\ DOMAIN p.buffer = 1 .. p.total + TagCells
  <2>1. TagCells \in Nat
    BY TagIsSeq DEF Ready
  <2> QED
    <3>1. /\ p \in RtpPackets /\ p.srtpLength = TagCells
          /\ Len(p.buffer) = p.total + p.srtpLength
      BY <1>1 DEF Laid, Ready
    <3>2. p.buffer \in Seq(PlainCells) /\ p.hdrSize \in Nat /\ p.total \in Nat
      BY <3>1 DEF RtpPackets
    <3>3. n \in Nat /\ p.hdrSize + n = p.total
      BY <1>1, <1>2, <3>2, LengthOfPacket
    <3>4. DOMAIN p.buffer = 1 .. p.total + TagCells
      BY <3>1, <3>2
    <3> QED
      BY <2>1, <3>1, <3>2, <3>3, <3>4
<1>4. PICK stream : stream = StreamOf(p, ssrc, roc, n)
  OBVIOUS
<1>5. PICK q : /\ Ciphered(p, Index(roc, getSeqNum(p)), ssrc, roc, n, q)
               /\ Tagged(p, q, sent, roc)
  BY <1>2, ProtectedIsTagged
<1>6. stream = CipherStream(p, Index(roc, getSeqNum(p)), ssrc, roc, n)
  BY <1>4 DEF StreamOf, VectorOf, CipherStream
<1>7. PICK b : q = [p EXCEPT !.buffer = b] /\ Flipped(p, n, stream, b)
  BY <1>5, <1>6 DEF Ciphered
<1>8. q.buffer = b
  BY <1>3, <1>7 DEF RtpPackets
<1> HIDE DEF sent
<1>9. ASSUME NEW i \in 1 .. p.total
      PROVE  sent.buffer[i].mask
               = IF i \in p.hdrSize + 1 .. p.hdrSize + n THEN {stream[i - p.hdrSize]}
                                                         ELSE {}
  <2>1. sent.buffer[i] = b[i]
    BY <1>5, <1>8 DEF Tagged
  <2>2. i \in DOMAIN p.buffer
    BY <1>3
  <2>3. p.buffer[i] \in PlainCells
    BY <1>3, <2>2
  <2>4. b[i] = IF i \in p.hdrSize + 1 .. p.hdrSize + n
                 THEN Flip(p.buffer[i], stream[i - p.hdrSize]) ELSE p.buffer[i]
    BY <1>7, <2>2 DEF Flipped
  <2>5. p.buffer[i].mask = {}
    BY <2>3 DEF PlainCells
  <2>6. Flip(p.buffer[i], stream[i - p.hdrSize]).mask = {stream[i - p.hdrSize]}
    BY <2>3, <2>5 DEF Flip, PlainCells
  <2> QED
    BY <2>1, <2>4, <2>5, <2>6
<1>10. sent.total = p.total /\ sent.hdrSize = p.hdrSize
  BY <1>5 DEF Tagged
<1>11. ASSUME NEW x \in MaskBytes(sent) PROVE \E k \in 1 .. n : x = stream[k]
  <2>1. PICK i \in 1 .. p.total : x \in sent.buffer[i].mask
    BY <1>10 DEF MaskBytes
  <2>2. i \in p.hdrSize + 1 .. p.hdrSize + n /\ x = stream[i - p.hdrSize]
    BY <1>9, <2>1
  <2>3. i - p.hdrSize \in 1 .. n
    BY <1>3, <2>2
  <2> QED
    BY <2>2, <2>3
<1>12. ASSUME NEW k \in 1 .. n PROVE stream[k] \in MaskBytes(sent)
  <2>1. PICK i : i = p.hdrSize + k
    OBVIOUS
  <2>2. /\ i \in 1 .. p.total /\ i \in p.hdrSize + 1 .. p.hdrSize + n
        /\ i - p.hdrSize = k
    BY <1>3, <2>1
  <2>3. sent.buffer[i].mask = {stream[k]}
    BY <1>9, <2>2
  <2> QED
    BY <1>10, <2>2, <2>3 DEF MaskBytes
<1>13. MaskBytes(sent) = {stream[k] : k \in 1 .. n}
  BY <1>11, <1>12
<1> QED
  BY <1>2, <1>3, <1>4, <1>10, <1>13 DEF sent

LEMMA NextOfModulus ==
  ASSUME NEW m \in Nat \ {0}, NEW k \in 0 .. m - 1
  PROVE  (k + 1) % m = IF k = m - 1 THEN 0 ELSE k + 1
<1>1. CASE k = m - 1
  BY <1>1
<1>2. CASE k # m - 1
  <2>1. k + 1 \in 0 .. m - 1
    BY <1>2
  <2> QED
    BY <1>2, <2>1
<1> QED
  BY <1>1, <1>2

(* The number of the next packet of a source, and what the senders have:   *)
(* as long as they send, no counter has come around.                       *)
NextIndex(s) == Index(senders[s].roc, senders[s].seq)

SendersInv ==
  /\ setup \in Setups
  /\ senders \in [Sources -> [seq : Seqs, roc : 0 .. RocMod - 1]]
  /\ \E S : streams \in Seq(S)
  /\ Len(streams) <= MaxSent
  /\ \A s \in Sources : NextIndex(s) <= FirstSequence + Len(streams)

PlainOf(s) ==
  Addressed(Packet, setup.marker, setup.payload, senders[s].seq, Len(streams), s)

SentOf(s) ==
  IF setup.srtp THEN Protected(PlainOf(s), s, senders[s].roc) ELSE PlainOf(s)

LEMMA PlainIsReady ==
  ASSUME SendersInv, NEW s \in Sources
  PROVE  /\ MadeFor(PlainOf(s), <<setup.marker, setup.payload>>, senders[s].seq,
                    Len(streams), s)
         /\ setup.srtp => Ready(PlainOf(s), s, senders[s].roc)
<1>1. /\ setup.marker \in Int /\ setup.payload \in Int /\ senders[s].seq \in Int
      /\ s \in Int /\ setup \in Setups
  BY SecureConstants, SrtpConstants DEF SendersInv, Seqs, Sources
<1>2. Len(streams) \in Int
  BY DEF SendersInv
<1>3. WellMade(Packet)
  BY <1>1, PacketIsMade
<1>4. MadeFor(PlainOf(s), <<setup.marker, setup.payload>>, senders[s].seq,
              Len(streams), s)
  BY <1>1, <1>2, <1>3, AddressedIsMade DEF PlainOf
<1>5. setup.srtp => Ready(PlainOf(s), s, senders[s].roc)
  BY <1>1, <1>4 DEF MadeFor, WellMade, Ready, SrtpLength, TagCells
<1> QED
  BY <1>4, <1>5

LEMMA SendDoes ==
  ASSUME NEW s \in Sources, Send(s)
  PROVE  /\ Len(streams) < MaxSent /\ setup' = setup
         /\ senders' = [senders EXCEPT ![s] =
              [ seq |-> (senders[s].seq + 1) % SEQNUMMOD,
                roc |-> IF setup.srtp THEN RocAfter(senders[s].roc, senders[s].seq)
                                      ELSE 0 ]]
         /\ streams' = Append(streams,
              [ cells |-> SentOf(s).total - SentOf(s).hdrSize,
                bytes |-> MaskBytes(SentOf(s)) ])
         /\ wire' = [ there |-> TRUE, plain |-> PlainOf(s),
                      block |-> SentOf(s).buffer, roc |-> senders[s].roc ]
         /\ got' = NotYet /\ UNCHANGED contexts
BY DEF Send, SentOf, PlainOf, MaskBytes

LEMMA SendCounts ==
  ASSUME SendersInv, NEW s \in Sources, Send(s)
  PROVE  /\ SendersInv'
         /\ \A t \in Sources : t # s => NextIndex(t)' = NextIndex(t)
         /\ setup.srtp => NextIndex(s)' = NextIndex(s) + 1
         /\ NextIndex(s)' >= 0
<1> DEFINE seq == senders[s].seq
           roc == senders[s].roc
           new == [ seq |-> (seq + 1) % SEQNUMMOD,
                    roc |-> IF setup.srtp THEN RocAfter(roc, seq) ELSE 0 ]
<1>1. /\ seq \in Seqs /\ roc \in 0 .. RocMod - 1
      /\ senders \in [Sources -> [seq : Seqs, roc : 0 .. RocMod - 1]]
      /\ NextIndex(s) = roc * SEQNUMMOD + seq
      /\ NextIndex(s) <= FirstSequence + Len(streams) /\ Len(streams) \in Nat
  BY DEF SendersInv, NextIndex, Index
<1>2. /\ Len(streams) < MaxSent /\ setup' = setup
      /\ senders' = [senders EXCEPT ![s] = new]
      /\ streams' = Append(streams,
              [ cells |-> SentOf(s).total - SentOf(s).hdrSize,
                bytes |-> MaskBytes(SentOf(s)) ])
  BY SendDoes
<1>3. /\ SEQNUMMOD \in Nat \ {0} /\ RocMod \in Nat \ {0, 1}
      /\ FirstSequence \in 0 .. SEQNUMMOD - 1 /\ MaxSent \in Nat
      /\ MaxSent <= (RocMod - 1) * SEQNUMMOD /\ seq \in 0 .. SEQNUMMOD - 1
      /\ roc \in Nat /\ RocMod - 1 \in Nat
  BY <1>1, SrtpConstants, SecureConstants DEF Seqs
<1>4. PICK base, top : base = roc * SEQNUMMOD /\ top = (RocMod - 1) * SEQNUMMOD
  OBVIOUS
<1>5. base \in Nat /\ top \in Nat /\ base + seq <= FirstSequence + Len(streams)
  BY <1>1, <1>3, <1>4
<1>6. new.seq = IF seq = SEQNUMMOD - 1 THEN 0 ELSE seq + 1
  <2>1. new.seq = (seq + 1) % SEQNUMMOD
    OBVIOUS
  <2> HIDE DEF new, seq
  <2> QED
    BY <1>3, <2>1, NextOfModulus
<1>7. seq = SEQNUMMOD - 1 => roc < RocMod - 1
  <2> SUFFICES ASSUME seq = SEQNUMMOD - 1, ~(roc < RocMod - 1) PROVE FALSE
    OBVIOUS
  <2>1. roc = RocMod - 1
    BY <1>1, <1>3
  <2>2. base = top
    BY <1>4, <2>1
  <2> HIDE DEF seq, roc
  <2> QED
    BY <1>1, <1>2, <1>3, <1>4, <1>5, <2>2
<1>8. new.roc = IF setup.srtp
                  THEN IF seq = SEQNUMMOD - 1 THEN roc + 1 ELSE roc ELSE 0
  <2>1. seq = SEQNUMMOD - 1 => (roc + 1) % RocMod = roc + 1
    BY <1>3, <1>7
  <2> QED
    BY <2>1 DEF RocAfter
<1>9. new \in [seq : Seqs, roc : 0 .. RocMod - 1]
  <2>1. new = [seq |-> new.seq, roc |-> new.roc]
    OBVIOUS
  <2> HIDE DEF new, roc, seq
  <2>2. new.seq \in Seqs
    BY <1>3, <1>6 DEF Seqs
  <2>3. new.roc \in 0 .. RocMod - 1
    <3>1. roc \in 0 .. RocMod - 1 /\ RocMod - 1 \in Nat
      BY <1>1, <1>3
    <3>2. CASE seq = SEQNUMMOD - 1
      BY <1>7, <1>8, <3>1, <3>2
    <3>3. CASE seq # SEQNUMMOD - 1
      BY <1>8, <3>1, <3>3
    <3> QED
      BY <3>2, <3>3
  <2> QED
    BY <2>1, <2>2, <2>3
<1>10. (roc + 1) * SEQNUMMOD = base + SEQNUMMOD
  BY <1>3, <1>4, NextCounter
<1>11. setup.srtp => Index(new.roc, new.seq) = base + seq + 1
  <2>1. CASE setup.srtp /\ seq = SEQNUMMOD - 1
    <3>1. new.roc = roc + 1 /\ new.seq = 0
      BY <1>6, <1>8, <2>1
    <3>2. Index(new.roc, new.seq) = (roc + 1) * SEQNUMMOD + 0
      BY <3>1 DEF Index
    <3> HIDE DEF new, roc, seq
    <3> QED
      <4>1. PICK up, size : up = (roc + 1) * SEQNUMMOD /\ size = SEQNUMMOD
        OBVIOUS
      <4>2. up = base + size /\ seq = size - 1 /\ size \in Nat
        BY <1>3, <1>10, <2>1, <4>1
      <4>3. Index(new.roc, new.seq) = up + 0
        BY <3>2, <4>1
      <4> QED
        <5>1. up + 0 = base + seq + 1
          BY <1>5, <4>2
        <5> QED
          BY <4>3, <5>1
  <2>2. CASE setup.srtp /\ seq # SEQNUMMOD - 1
    <3>1. new.roc = roc /\ new.seq = seq + 1
      BY <1>6, <1>8, <2>2
    <3>2. Index(new.roc, new.seq) = base + (seq + 1)
      BY <1>4, <3>1 DEF Index
    <3> HIDE DEF new, roc, seq
    <3> QED
      BY <1>3, <1>5, <3>2
  <2> QED
    BY <2>1, <2>2
<1>12. ~setup.srtp => Index(new.roc, new.seq) <= base + seq + 1
  <2>1. ~setup.srtp => Index(new.roc, new.seq) = new.seq
    BY <1>3, <1>6, <1>8 DEF Index
  <2> QED
    <3> HIDE DEF new, roc, seq
    <3>1. base \in Nat /\ seq \in Nat /\ SEQNUMMOD \in Nat
      BY <1>3, <1>5
    <3>2. new.seq <= base + seq + 1
      BY <1>6, <3>1
    <3> QED
      BY <2>1, <3>2
<1>13. Index(new.roc, new.seq) \in Nat
  <2>1. new.roc \in Nat /\ new.seq \in Nat /\ SEQNUMMOD \in Nat
    BY <1>3, <1>6, <1>8
  <2> HIDE DEF new
  <2> QED
    BY <2>1 DEF Index
<1> HIDE DEF new, seq, roc
<1>14. NextIndex(s)' = Index(new.roc, new.seq)
  BY <1>1, <1>2 DEF NextIndex, Index
<1>15. \A t \in Sources : t # s => NextIndex(t)' = NextIndex(t)
  BY <1>1, <1>2 DEF NextIndex, Index
<1>16. Len(streams') = Len(streams) + 1 /\ \E S : streams' \in Seq(S)
  <2>1. PICK S : streams \in Seq(S)
    BY DEF SendersInv
  <2>2. PICK e : streams' = Append(streams, e)
    BY <1>2
  <2>3. streams \in Seq(S \cup {e}) /\ e \in S \cup {e}
    BY <2>1
  <2>4. streams' \in Seq(S \cup {e}) /\ Len(streams') = Len(streams) + 1
    BY <2>2, <2>3
  <2> QED
    BY <2>4
<1>17. NextIndex(s)' <= FirstSequence + Len(streams')
  BY <1>1, <1>3, <1>4, <1>5, <1>11, <1>12, <1>13, <1>14, <1>16
<1>18. \A t \in Sources : NextIndex(t)' <= FirstSequence + Len(streams')
  <2>1. ASSUME NEW t \in Sources PROVE NextIndex(t)' <= FirstSequence + Len(streams')
    <3>1. CASE t = s
      BY <1>17, <3>1
    <3>2. CASE t # s
      <4>1. NextIndex(t) <= FirstSequence + Len(streams) /\ NextIndex(t) \in Int
        <5>1. senders[t].roc \in Int /\ senders[t].seq \in Int
          BY <1>1, SrtpConstants DEF Seqs
        <5> QED
          BY <5>1, <1>3 DEF SendersInv, NextIndex, Index
      <4> QED
        BY <1>1, <1>3, <1>15, <1>16, <3>2, <4>1
    <3> QED
      BY <3>1, <3>2
  <2> QED
    BY <2>1
<1>19. senders' \in [Sources -> [seq : Seqs, roc : 0 .. RocMod - 1]]
  BY <1>1, <1>2, <1>9
<1>20. Len(streams') <= MaxSent /\ setup' \in Setups
  BY <1>1, <1>2, <1>3, <1>16 DEF SendersInv
<1>21. SendersInv'
  BY <1>16, <1>18, <1>19, <1>20 DEF SendersInv
<1>22. setup.srtp => NextIndex(s)' = NextIndex(s) + 1
  BY <1>1, <1>4, <1>11, <1>14
<1> QED
  BY <1>13, <1>14, <1>15, <1>21, <1>22

(* Each byte of the streams is stamped with a source and with an index the *)
(* source has gone past.                                                   *)
Stamped(bytes, s, x) == \A b \in bytes : Stamp(b.iv) = <<s, x>>

StreamsInv ==
  setup.srtp /\ setup.ealg \in Aes =>
    /\ \A i \in DOMAIN streams :
         \E s \in Sources, x \in Nat :
           x < NextIndex(s) /\ Stamped(streams[i].bytes, s, x)
    /\ KeystreamOnce

LEMMA NewStream ==
  ASSUME SendersInv, NEW s \in Sources, setup.srtp, setup.ealg \in Aes
  PROVE  /\ Cardinality(MaskBytes(SentOf(s))) = SentOf(s).total - SentOf(s).hdrSize
         /\ Stamped(MaskBytes(SentOf(s)), s, NextIndex(s))
<1> DEFINE p == PlainOf(s)
           roc == senders[s].roc
           seq == senders[s].seq
           n == SentOf(s).total - SentOf(s).hdrSize
           stream == StreamOf(p, s, roc, n)
           bytes == MaskBytes(SentOf(s))
<1>1. /\ MadeFor(p, <<setup.marker, setup.payload>>, seq, Len(streams), s)
      /\ Ready(p, s, roc)
  BY PlainIsReady
<1>2. SentOf(s) = Protected(p, s, roc)
  BY DEF SentOf
<1>3. bytes = {stream[k] : k \in 1 .. n} /\ n \in Nat
  BY <1>1, <1>2, BytesOfPacket DEF MadeFor
<1>4. KeyStream(stream, n, VectorOf(p, s, roc))
  BY <1>3, StreamIsOnce
<1>5. Cardinality(bytes) = n
  <2> HIDE DEF bytes, n, stream, p, roc
  <2> QED
    BY <1>3, <1>4, StreamBytes
<1>6. Stamp(VectorOf(p, s, roc)) = <<s, Index(roc, seq)>>
  <2>2. /\ setup.marker \in Int /\ setup.payload \in Int /\ seq \in Int
        /\ s \in Int /\ Len(streams) \in Int /\ roc \in Int
        /\ Index(roc, seq) \in Int
    <3>1. /\ setup \in Setups /\ (\E S : streams \in Seq(S))
          /\ senders \in [Sources -> [seq : Seqs, roc : 0 .. RocMod - 1]]
      BY DEF SendersInv
    <3>2. setup.marker \in Int /\ setup.payload \in Int
      BY <3>1, SecureConstants
    <3>3. seq \in Seqs /\ roc \in 0 .. RocMod - 1
      BY <3>1
    <3>4. seq \in Int /\ roc \in Int /\ s \in Int
      BY <3>3, SrtpConstants DEF Seqs, Sources
    <3>5. Len(streams) \in Int
      BY <3>1
    <3>6. Index(roc, seq) \in Int
      BY <3>4, SrtpConstants DEF Index
    <3> QED
      BY <3>2, <3>4, <3>5, <3>6
  <2>3. /\ p.buffer[KIND] = Cell(<<setup.marker, setup.payload>>)
        /\ p.buffer[SEQUENCE] = Cell(<<seq>>)
        /\ p.buffer[TIMESTAMP] = Cell(<<Len(streams)>>)
        /\ p.buffer[SSRC] = Cell(<<s>>)
    BY <1>1 DEF MadeFor
  <2> HIDE DEF p, roc, seq
  <2>4. VectorFields(p, setup.marker, setup.payload, seq, Len(streams), s, roc)
    BY <2>2, <2>3 DEF VectorFields
  <2> QED
    BY <2>4, VectorIsStamped
<1>7. \A k \in 1 .. n : stream[k].iv = VectorOf(p, s, roc)
  BY <1>4 DEF KeyStream
<1>8. Stamped(bytes, s, NextIndex(s))
  BY <1>3, <1>6, <1>7 DEF Stamped, NextIndex
<1> QED
  BY <1>5, <1>8

LEMMA SendKeepsStreams ==
  ASSUME SendersInv, StreamsInv, NEW s \in Sources, Send(s)
  PROVE  StreamsInv'
<1> SUFFICES ASSUME setup.srtp, setup.ealg \in Aes
             PROVE  StreamsInv'
  BY SendDoes DEF StreamsInv
<1>1. setup' = setup
  BY SendDoes
<1>2. PICK e : /\ e = [ cells |-> SentOf(s).total - SentOf(s).hdrSize,
                        bytes |-> MaskBytes(SentOf(s)) ]
               /\ streams' = Append(streams, e)
  BY SendDoes
<1>3. Cardinality(e.bytes) = e.cells /\ Stamped(e.bytes, s, NextIndex(s))
  BY <1>2, NewStream
<1>4. PICK m : m = Len(streams)
  OBVIOUS
<1>5. /\ m \in Nat /\ DOMAIN streams = 1 .. m /\ DOMAIN streams' = 1 .. m + 1
      /\ streams'[m + 1] = e /\ \A i \in 1 .. m : streams'[i] = streams[i]
  BY <1>2, <1>4 DEF SendersInv
<1>6. /\ \A t \in Sources : t # s => NextIndex(t)' = NextIndex(t)
      /\ NextIndex(s)' = NextIndex(s) + 1
  BY SendCounts
<1>7. \A t \in Sources : NextIndex(t) \in Nat
  <2>1. ASSUME NEW t \in Sources PROVE NextIndex(t) \in Nat
    <3>1. senders[t].roc \in Nat /\ senders[t].seq \in Nat /\ SEQNUMMOD \in Nat
      BY SrtpConstants DEF SendersInv, Seqs
    <3> QED
      BY <3>1 DEF NextIndex, Index
  <2> QED
    BY <2>1
<1>8. ASSUME NEW b, NEW t, NEW x PROVE Stamped(b, t, x)' <=> Stamped(b, t, x)
  BY <1>1 DEF Stamped, Stamp
<1>9. ASSUME NEW i \in 1 .. m
      PROVE  \E t \in Sources, x \in Nat :
               x < NextIndex(t) /\ Stamped(streams[i].bytes, t, x)
  BY <1>5 DEF StreamsInv
<1>10. ASSUME NEW i \in DOMAIN streams'
       PROVE  \E t \in Sources, x \in Nat :
                x < NextIndex(t)' /\ Stamped(streams'[i].bytes, t, x)
  <2>1. CASE i = m + 1
    BY <1>3, <1>5, <1>6, <1>7, <2>1
  <2>2. CASE i \in 1 .. m
    <3>1. PICK t \in Sources, x \in Nat :
            x < NextIndex(t) /\ Stamped(streams[i].bytes, t, x)
      BY <1>9, <2>2
    <3>2. x < NextIndex(t)'
      <4>1. CASE t = s
        BY <1>6, <1>7, <3>1, <4>1
      <4>2. CASE t # s
        BY <1>6, <3>1, <4>2
      <4> QED
        BY <4>1, <4>2
    <3> QED
      BY <1>5, <2>2, <3>1, <3>2
  <2> QED
    BY <1>5, <2>1, <2>2
<1>11. ASSUME NEW i \in 1 .. m PROVE streams[i].bytes \cap e.bytes = {}
  <2> SUFFICES ASSUME NEW b \in streams[i].bytes, b \in e.bytes PROVE FALSE
    OBVIOUS
  <2>1. PICK t \in Sources, x \in Nat :
          x < NextIndex(t) /\ Stamped(streams[i].bytes, t, x)
    BY <1>9
  <2>2. Stamp(b.iv) = <<t, x>> /\ Stamp(b.iv) = <<s, NextIndex(s)>>
    BY <1>3, <2>1 DEF Stamped
  <2>3. t = s /\ x = NextIndex(s)
    BY <2>2
  <2> QED
    BY <1>7, <2>1, <2>3
<1>12. /\ \A i \in 1 .. m : Cardinality(streams[i].bytes) = streams[i].cells
       /\ \A i \in 1 .. m : \A j \in 1 .. m :
            i # j => streams[i].bytes \cap streams[j].bytes = {}
  BY <1>5 DEF StreamsInv, KeystreamOnce, Aes
<1>13. \A i \in DOMAIN streams' : Cardinality(streams'[i].bytes) = streams'[i].cells
  <2>1. ASSUME NEW i \in DOMAIN streams'
        PROVE  Cardinality(streams'[i].bytes) = streams'[i].cells
    <3>1. CASE i = m + 1
      BY <1>3, <1>5, <3>1
    <3>2. CASE i \in 1 .. m
      BY <1>5, <1>12, <3>2
    <3> QED
      BY <1>5, <3>1, <3>2
  <2> QED
    BY <2>1
<1>14. ASSUME NEW i \in DOMAIN streams', NEW j \in DOMAIN streams', i # j
       PROVE  streams'[i].bytes \cap streams'[j].bytes = {}
  <2>1. CASE i = m + 1
    <3>1. j \in 1 .. m
      BY <1>5, <1>14, <2>1
    <3> QED
      BY <1>5, <1>11, <2>1, <3>1
  <2>2. CASE j = m + 1
    <3>1. i \in 1 .. m
      BY <1>5, <1>14, <2>2
    <3> QED
      BY <1>5, <1>11, <2>2, <3>1
  <2>3. CASE i \in 1 .. m /\ j \in 1 .. m
    BY <1>5, <1>12, <1>14, <2>3
  <2> QED
    BY <1>5, <2>1, <2>2, <2>3
<1>15. KeystreamOnce'
  BY <1>13, <1>14 DEF KeystreamOnce
<1> QED
  BY <1>8, <1>10, <1>15 DEF StreamsInv

LEMMA OthersKeepStreams ==
  ASSUME SendersInv, StreamsInv, UNCHANGED <<setup, senders, streams>>
  PROVE  SendersInv' /\ StreamsInv'
<1>1. setup' = setup /\ senders' = senders /\ streams' = streams
  OBVIOUS
<1>2. SendersInv'
  BY <1>1 DEF SendersInv, NextIndex, Index
<1>3. ASSUME NEW b, NEW t, NEW x PROVE Stamped(b, t, x)' <=> Stamped(b, t, x)
  BY <1>1 DEF Stamped, Stamp
<1>4. \A t : NextIndex(t)' = NextIndex(t)
  BY <1>1 DEF NextIndex, Index
<1>5. KeystreamOnce' <=> KeystreamOnce
  BY <1>1 DEF KeystreamOnce
<1> QED
  BY <1>1, <1>2, <1>3, <1>4, <1>5 DEF StreamsInv

LEMMA StreamsInit == SecureInit => SendersInv /\ StreamsInv
<1> SUFFICES ASSUME SecureInit PROVE SendersInv /\ StreamsInv
  OBVIOUS
<1>1. /\ setup \in Setups /\ streams = <<>>
      /\ senders = [s \in Sources |-> [seq |-> FirstSequence, roc |-> 0]]
  BY DEF SecureInit
<1>2. /\ FirstSequence \in Seqs /\ FirstSequence \in Nat /\ 0 \in 0 .. RocMod - 1
      /\ MaxSent \in Nat
  BY SrtpConstants, SecureConstants DEF Seqs
<1>3. senders \in [Sources -> [seq : Seqs, roc : 0 .. RocMod - 1]]
  BY <1>1, <1>2
<1>4. streams \in Seq({}) /\ Len(streams) = 0 /\ DOMAIN streams = {}
  BY <1>1
<1>5. \A s \in Sources : NextIndex(s) = FirstSequence
  BY <1>1, <1>2, SrtpConstants DEF NextIndex, Index
<1>6. SendersInv
  BY <1>1, <1>2, <1>3, <1>4, <1>5 DEF SendersInv
<1>7. StreamsInv
  BY <1>4 DEF StreamsInv, KeystreamOnce
<1> QED
  BY <1>6, <1>7

LEMMA StreamsStep ==
  SendersInv /\ StreamsInv /\ [SecureNext]_secureVars => SendersInv' /\ StreamsInv'
<1> SUFFICES ASSUME SendersInv, StreamsInv, [SecureNext]_secureVars
             PROVE  SendersInv' /\ StreamsInv'
  OBVIOUS
<1>1. ASSUME NEW s \in Sources, Send(s) PROVE SendersInv' /\ StreamsInv'
  BY <1>1, SendCounts, SendKeepsStreams
<1>2. CASE Lose
  BY <1>2, OthersKeepStreams DEF Lose
<1>3. CASE Receive
  BY <1>3, OthersKeepStreams DEF Receive
<1>4. CASE UNCHANGED secureVars
  BY <1>4, OthersKeepStreams DEF secureVars
<1> QED
  BY <1>1, <1>2, <1>3, <1>4 DEF SecureNext

LEMMA StreamsHold == SecureSpec => [](SendersInv /\ StreamsInv)
BY StreamsInit, StreamsStep, PTL DEF SecureSpec

(* No byte of a key stream is used for two cells, of whatever packets and  *)
(* sources and of whatever lengths, and no cell of a payload goes without, *)
(* for any block size and any first sequence number, through every wrap of *)
(* the sequence numbers (CryptoContext.cxx:192-251, gcryptAesSrtp.cxx:     *)
(* 90-160, 180-290).                                                       *)
THEOREM StreamsNeverMeet == SecureSpec => []KeystreamOnce
<1>1. SendersInv /\ StreamsInv => KeystreamOnce
  BY DEF StreamsInv, KeystreamOnce, Aes
<1> QED
  BY <1>1, StreamsHold, PTL

(* A packet, and the block that carries it.                                *)
Sealed(p, pad, block, s, seq, roc) ==
  /\ setup \in Setups /\ Laid(p, pad) /\ Headed(p) /\ p.srtpLength = SrtpLength
  /\ s \in Sources /\ seq \in Seqs /\ roc \in 0 .. RocMod - 1
  /\ getSeqNum(p) = seq /\ getSSRC(p) = s
  /\ block = (IF setup.srtp THEN Protected(p, s, roc) ELSE p).buffer

(* What the block is, q being what the tag authenticates.                  *)
Carries(p, block, q, s, seq, roc) ==
  /\ (\E S : block \in Seq(S)) /\ Len(block) = p.total + SrtpLength
  /\ SrtpLength \in Nat
  /\ \A i \in 1 .. p.hdrSize : block[i] = p.buffer[i]
  /\ ~setup.srtp => block = p.buffer
  /\ setup.srtp =>
       /\ q.total = p.total /\ (\E S : q.buffer \in Seq(S))
       /\ p.total <= Len(q.buffer)
       /\ \A i \in 1 .. p.total : block[i] = q.buffer[i]
       /\ \A i \in p.hdrSize + 1 .. p.total :
            block[i] = Flip(p.buffer[i],
              CipherStream(p, Index(roc, seq), s, roc, p.total - p.hdrSize)
                [i - p.hdrSize])
       /\ \A i \in 1 .. TagCells :
            block[p.total + i]
              = srtpAuthenticate(setup.aalg, q, roc, TagLength)[i]

LEMMA SealedCarries ==
  ASSUME NEW p, NEW pad, NEW block, NEW s, NEW seq, NEW roc,
         Sealed(p, pad, block, s, seq, roc)
  PROVE  \E q : Carries(p, block, q, s, seq, roc)
<1>1. /\ Laid(p, pad) /\ p \in RtpPackets /\ p.buffer \in Seq(PlainCells)
      /\ p.hdrSize \in Nat /\ p.total \in Nat
      /\ Len(p.buffer) = p.total + SrtpLength
      /\ p.total - p.hdrSize \in Nat /\ SrtpLength \in Nat
  <2>1. Laid(p, pad) /\ p.srtpLength = SrtpLength
    BY DEF Sealed
  <2>2. p.total - p.hdrSize \in Nat
    BY <2>1, LengthOfPacket
  <2> QED
    BY <2>1, <2>2 DEF Laid, RtpPackets
<1>2. CASE ~setup.srtp
  <2>1. block = p.buffer
    BY <1>2 DEF Sealed
  <2> QED
    BY <1>1, <1>2, <2>1 DEF Carries
<1>3. CASE setup.srtp
  <2>1. PICK sent : sent = Protected(p, s, roc)
    OBVIOUS
  <2>2. block = sent.buffer /\ SrtpLength = TagCells /\ TagCells \in Nat
    BY <1>1, <1>3, <2>1 DEF Sealed, SrtpLength, TagCells
  <2>3. Ready(p, s, roc)
    BY <1>1, <1>3, <2>2 DEF Ready, Sealed
  <2>4. PICK n : n = p.total - p.hdrSize
    OBVIOUS
  <2>5. PICK q : /\ Ciphered(p, Index(roc, seq), s, roc, n, q)
                 /\ Tagged(p, q, sent, roc)
    <3>1. getSeqNum(p) = seq
      BY DEF Sealed
    <3> QED
      BY <2>1, <2>3, <2>4, <3>1, ProtectedIsTagged
  <2>6. PICK stream : stream = CipherStream(p, Index(roc, seq), s, roc, n)
    OBVIOUS
  <2>7. PICK b : q = [p EXCEPT !.buffer = b] /\ Flipped(p, n, stream, b)
    BY <2>5, <2>6 DEF Ciphered
  <2>8. q.buffer = b /\ q.total = p.total
    BY <1>1, <2>7 DEF RtpPackets
  <2>9. PICK S, T : block \in Seq(S) /\ b \in Seq(T)
    BY <2>2, <2>5, <2>7 DEF Tagged, Flipped
  <2>10. Len(block) = p.total + TagCells /\ DOMAIN block = 1 .. p.total + TagCells
    <3>1. DOMAIN block = 1 .. p.total + TagCells /\ p.total + TagCells \in Nat
      BY <1>1, <2>2, <2>5 DEF Tagged
    <3>2. DOMAIN block = 1 .. Len(block) /\ Len(block) \in Nat
      BY <2>9
    <3> QED
      BY <3>1, <3>2
  <2>11. Len(b) = p.total + TagCells /\ DOMAIN b = 1 .. p.total + TagCells
    <3>1. DOMAIN b = 1 .. p.total + TagCells /\ p.total + TagCells \in Nat
      BY <1>1, <2>2, <2>7 DEF Flipped
    <3>2. DOMAIN b = 1 .. Len(b) /\ Len(b) \in Nat
      BY <2>9
    <3> QED
      BY <3>1, <3>2
  <2>12. ASSUME NEW i \in 1 .. p.total
         PROVE  /\ block[i] = b[i]
                /\ i \in p.hdrSize + 1 .. p.total =>
                     block[i] = Flip(p.buffer[i], stream[i - p.hdrSize])
                /\ i \in 1 .. p.hdrSize => block[i] = p.buffer[i]
    <3>1. block[i] = b[i]
      BY <2>2, <2>5, <2>8 DEF Tagged
    <3>2. i \in DOMAIN p.buffer /\ p.hdrSize + n = p.total
      BY <1>1, <2>2, <2>4
    <3>3. b[i] = IF i \in p.hdrSize + 1 .. p.hdrSize + n
                   THEN Flip(p.buffer[i], stream[i - p.hdrSize]) ELSE p.buffer[i]
      BY <2>7, <3>2 DEF Flipped
    <3>4. i \in 1 .. p.hdrSize => i \notin p.hdrSize + 1 .. p.hdrSize + n
      BY <1>1, <2>4
    <3> QED
      BY <3>1, <3>2, <3>3, <3>4
  <2>13. 1 .. p.hdrSize \subseteq 1 .. p.total
         /\ p.hdrSize + 1 .. p.total \subseteq 1 .. p.total
    BY <1>1
  <2>14. p.total <= Len(b)
    BY <1>1, <2>2, <2>11
  <2>15. \A i \in 1 .. TagCells :
           block[p.total + i] = srtpAuthenticate(setup.aalg, q, roc, TagLength)[i]
    BY <2>2, <2>5 DEF Tagged
  <2> QED
    BY <1>3, <2>2, <2>4, <2>6, <2>8, <2>9, <2>10, <2>12, <2>13, <2>14, <2>15, SMTT(30)
       DEF Carries
<1> QED
  BY <1>2, <1>3

(* What the receiver makes of the block.                                   *)
Arrived(block) == IF padding(block) = 1 THEN PaddingCleared(block) ELSE block

Parsed(p, pad, block, s, seq, b, q) ==
  /\ (\E S : b \in Seq(S)) /\ Len(b) = p.total + SrtpLength
  /\ \A i \in 2 .. Len(b) : b[i] = block[i]
  /\ padding(b) = 0
  /\ extension(b) = extension(p.buffer) /\ cc(b) = cc(p.buffer)
  /\ pad = 0 => b = block
  /\ q = [ buffer |-> b, total |-> Len(b), hdrSize |-> p.hdrSize,
           payloadSize |-> Len(b) - p.hdrSize, srtpLength |-> 0 ]
  /\ getSeqNum(q) = seq /\ getSSRC(q) = s
  /\ (padding(block) = 1) <=> (pad # 0)

LEMMA BlockIsParsed ==
  ASSUME NEW p, NEW pad, NEW block, NEW s, NEW seq, NEW roc, NEW sent,
         Sealed(p, pad, block, s, seq, roc), Carries(p, block, sent, s, seq, roc)
  PROVE  Parsed(p, pad, block, s, seq, Arrived(block), Incoming(Arrived(block)))
<1>1. /\ Laid(p, pad) /\ Headed(p) /\ p \in RtpPackets
      /\ p.buffer \in Seq(PlainCells) /\ pad \in Nat
      /\ p.hdrSize \in Nat /\ p.hdrSize >= 5 /\ p.total \in Nat
      /\ p.total >= p.hdrSize /\ SrtpLength \in Nat
      /\ getSeqNum(p) = seq /\ getSSRC(p) = s
  BY DEF Sealed, Carries, Laid, RtpPackets, SizeOfFixedHeader
<1>2. PICK S : block \in Seq(S)
  BY DEF Carries
<1>3. /\ Len(block) = p.total + SrtpLength /\ Len(block) >= 5
      /\ Len(block) \in Nat /\ DOMAIN block = 1 .. Len(block)
      /\ \A i \in 1 .. p.hdrSize : block[i] = p.buffer[i]
  BY <1>1, <1>2 DEF Carries
<1>4. block[1] = p.buffer[1]
  BY <1>1, <1>3
<1>5. /\ padding(block) = padding(p.buffer) /\ extension(block) = extension(p.buffer)
      /\ cc(block) = cc(p.buffer)
  BY <1>4 DEF padding, extension, cc, FLAGS
<1>6. (padding(block) = 1) <=> (pad # 0)
  BY <1>1, <1>5 DEF Laid
<1>7. PICK b : b = Arrived(block)
  OBVIOUS
<1>8. /\ (\E T : b \in Seq(T)) /\ Len(b) = Len(block)
      /\ \A i \in 2 .. Len(b) : b[i] = block[i]
      /\ padding(b) = 0 /\ extension(b) = extension(block) /\ cc(b) = cc(block)
      /\ pad = 0 => b = block
  <2>1. CASE pad = 0
    <3>1. b = block /\ padding(block) = 0
      BY <1>1, <1>5, <1>6, <1>7, <2>1 DEF Laid, Arrived
    <3> QED
      BY <1>2, <3>1
  <2>2. CASE pad # 0
    <3>1. PICK c : c = Flags(0, extension(block), cc(block))
      OBVIOUS
    <3>2. b = [block EXCEPT ![1] = c]
      BY <1>6, <1>7, <2>2, <3>1 DEF Arrived, PaddingCleared, FLAGS
    <3>3. c.v[1] = 0 /\ c.v[2] = extension(block) /\ c.v[3] = cc(block)
      <4>1. c.v = <<0, extension(block), cc(block)>>
        BY <3>1 DEF Flags, Cell
      <4> QED
        BY <4>1
    <3>4. block \in Seq(S \cup {c}) /\ c \in S \cup {c}
      BY <1>2
    <3>5. b \in Seq(S \cup {c}) /\ Len(b) = Len(block) /\ b[1] = c
      BY <1>3, <3>2, <3>4
    <3>6. \A i \in 2 .. Len(b) : b[i] = block[i]
      BY <1>3, <3>2, <3>5
    <3> QED
      BY <2>2, <3>3, <3>5, <3>6 DEF padding, extension, cc, FLAGS
  <2> QED
    BY <2>1, <2>2
<1>9. HeaderSize(b) = p.hdrSize
  <2>1. extension(b) = extension(p.buffer) /\ cc(b) = cc(p.buffer)
    BY <1>5, <1>8
  <2>2. \A i \in SizeOfFixedHeader + 1 .. p.hdrSize : b[i] = p.buffer[i]
    <3>1. ASSUME NEW i \in SizeOfFixedHeader + 1 .. p.hdrSize
          PROVE  b[i] = p.buffer[i]
      <4>1. i \in 1 .. p.hdrSize /\ i \in 2 .. Len(b)
        BY <1>1, <1>3, <1>8 DEF SizeOfFixedHeader
      <4> QED
        BY <1>3, <1>8, <4>1
    <3> QED
      BY <3>1
  <2> QED
    BY <1>1, <2>1, <2>2, HeaderIsFound
<1>10. PICK q : q = Incoming(b)
  OBVIOUS
<1>11. q = [ buffer |-> b, total |-> Len(b), hdrSize |-> p.hdrSize,
             payloadSize |-> Len(b) - p.hdrSize, srtpLength |-> 0 ]
  <2>1. padding(b) # 1
    BY <1>8
  <2> QED
    BY <1>9, <1>10, <2>1 DEF Incoming
<1>12. getSeqNum(q) = seq /\ getSSRC(q) = s
  <2>1. 3 \in 2 .. Len(b) /\ 5 \in 2 .. Len(b) /\ 3 \in 1 .. p.hdrSize /\ 5 \in 1 .. p.hdrSize
    BY <1>1, <1>3, <1>8
  <2>2. b[3] = p.buffer[3] /\ b[5] = p.buffer[5]
    BY <1>3, <1>8, <2>1
  <2>3. q.buffer = b
    BY <1>11
  <2> QED
    BY <1>1, <2>2, <2>3 DEF getSeqNum, getSSRC, SEQUENCE, SSRC
<1> QED
  BY <1>3, <1>5, <1>6, <1>7, <1>8, <1>10, <1>11, <1>12 DEF Parsed

LEMMA SameCut ==
  ASSUME NEW S, NEW T, NEW a \in Seq(S), NEW b \in Seq(T),
         NEW m \in Nat \ {0}, NEW n \in Nat, n <= Len(a), n <= Len(b),
         \A i \in m .. n : a[i] = b[i]
  PROVE  SubSeq(a, m, n) = SubSeq(b, m, n)
OBVIOUS

(* A tag fits if the packet comes without padding and the counter is that  *)
(* of the sender: it tells the counter, and the padding bit, which the     *)
(* receiver clears (incqueue.cpp:182-242, rtppkt.cpp:330-352).             *)
Tag(q, roc) == srtpAuthenticate(setup.aalg, q, roc, TagLength)

LEMMA CutIsThis ==
  ASSUME NEW p, NEW pad, NEW block, NEW s, NEW seq, NEW roc, NEW b, NEW q,
         Sealed(p, pad, block, s, seq, roc), Parsed(p, pad, block, s, seq, b, q),
         setup.srtp
  PROVE  /\ TagCells = SrtpLength
         /\ q.total = p.total + TagCells /\ Cut(q).total = p.total
         /\ Cut(q).buffer = b /\ Cut(q).hdrSize = p.hdrSize
         /\ Cut(q).payloadSize = p.total - p.hdrSize
         /\ getSeqNum(Cut(q)) = seq /\ getSSRC(Cut(q)) = s
         /\ Cut(q) = [ buffer |-> b, total |-> p.total, hdrSize |-> p.hdrSize,
                       payloadSize |-> p.total - p.hdrSize, srtpLength |-> 0 ]
<1>1. PICK h, total, tag : h = p.hdrSize /\ total = p.total /\ tag = TagCells
  OBVIOUS
<1>2. /\ TagCells = SrtpLength /\ TagCells \in Nat /\ p \in RtpPackets
      /\ h \in Nat /\ total \in Nat
  <2>1. setup \in Setups
    BY DEF Sealed
  <2>2. TagCells = SrtpLength /\ TagCells \in Nat
    BY <2>1, SecureConstants DEF SrtpLength, TagCells, getTagLength
  <2> QED
    BY <1>1, <2>2 DEF Sealed, Laid, RtpPackets
<1>3. /\ q = [ buffer |-> b, total |-> total + tag, hdrSize |-> h,
               payloadSize |-> (total + tag) - h, srtpLength |-> 0 ]
      /\ getSeqNum(q) = seq /\ getSSRC(q) = s
  BY <1>1, <1>2 DEF Parsed
<1>4. (total + tag) - tag = total /\ ((total + tag) - h) - tag = total - h
  BY <1>1, <1>2
<1>5. Cut(q) = [ buffer |-> b, total |-> total, hdrSize |-> h,
                 payloadSize |-> total - h, srtpLength |-> 0 ]
  <2>1. Cut(q) = [q EXCEPT !.total = q.total - tag, !.payloadSize = q.payloadSize - tag]
    BY <1>1 DEF Cut, TagCells
  <2>2. q.total - tag = total /\ q.payloadSize - tag = total - h
    BY <1>3, <1>4
  <2>3. Cut(q) = [q EXCEPT !.total = total, !.payloadSize = total - h]
    BY <2>1, <2>2
  <2> QED
    BY <1>3, <2>3
<1>6. PICK c : c = Cut(q)
  OBVIOUS
<1>7. /\ c.total = total /\ c.buffer = b /\ c.hdrSize = h /\ c.payloadSize = total - h
      /\ q.buffer = b /\ q.total = total + tag
  BY <1>3, <1>5, <1>6
<1>8. getSeqNum(c) = seq /\ getSSRC(c) = s
  BY <1>3, <1>7 DEF getSeqNum, getSSRC
<1> QED
  BY <1>1, <1>2, <1>5, <1>6, <1>7, <1>8

TagFits(q, guess) ==
  SubSeq(q.buffer, Cut(q).total + 1, q.total) = Tag(Cut(q), guess)

LEMMA TagTells ==
  ASSUME NEW p, NEW pad, NEW block, NEW s, NEW seq, NEW roc, NEW b, NEW q,
         NEW sent, NEW guess,
         Sealed(p, pad, block, s, seq, roc), Parsed(p, pad, block, s, seq, b, q),
         Carries(p, block, sent, s, seq, roc), setup.srtp, setup.aalg # "Null"
  PROVE  TagFits(q, guess) <=> pad = 0 /\ guess = roc
<1>1. /\ Cut(q).total = p.total /\ q.total = p.total + TagCells
      /\ Cut(q).buffer = b /\ q.buffer = b /\ SrtpLength = TagCells
  <2>1. q.buffer = b
    BY DEF Parsed
  <2> QED
    BY <2>1, CutIsThis
<1>2. /\ TagCells \in Nat /\ TagCells >= 1 /\ p.total \in Nat /\ p.total >= 5
      /\ pad \in Nat /\ p \in RtpPackets /\ p.hdrSize >= 1 /\ p.hdrSize \in Nat
  <2>1. TagCells \in Nat /\ TagCells >= 1
    BY SecureConstants DEF TagCells, getTagLength
  <2> QED
    BY <2>1 DEF Sealed, Laid, RtpPackets, SizeOfFixedHeader
<1>3. PICK total, n : total = p.total /\ n = TagCells
  OBVIOUS
<1>4. PICK S : b \in Seq(S)
  BY DEF Parsed
<1>5. PICK T : block \in Seq(T)
  BY DEF Carries
<1>6. PICK U : sent.buffer \in Seq(U)
  BY DEF Carries
<1>7. /\ Len(b) = total + n /\ Len(block) = total + n
      /\ total <= Len(sent.buffer) /\ sent.total = total
      /\ total \in Nat /\ n \in Nat /\ n >= 1 /\ total >= 5
      /\ \A i \in 2 .. total + n : b[i] = block[i]
      /\ \A i \in 1 .. total : block[i] = sent.buffer[i]
      /\ \A i \in 1 .. n : block[total + i] = Tag(sent, roc)[i]
  BY <1>1, <1>2, <1>3 DEF Parsed, Carries, Tag
<1>8. PICK cut : cut = SubSeq(b, total + 1, total + n)
  OBVIOUS
<1>9. /\ DOMAIN cut = 1 .. n /\ \A i \in 1 .. n : cut[i] = Tag(sent, roc)[i]
      /\ cut = [i \in 1 .. n |-> cut[i]]
  <2>1. /\ cut \in Seq(S) /\ Len(cut) = n
        /\ \A i \in 1 .. n : cut[i] = b[total + i]
    <3>1. PICK from, to : from = total + 1 /\ to = total + n
      OBVIOUS
    <3>2. /\ from \in Int /\ to \in Int /\ from <= to /\ to - from + 1 = n
          /\ \A i \in from .. to : i \in 1 .. Len(b)
          /\ \A i \in 1 .. n : from + i - 1 = total + i
      BY <1>7, <3>1
    <3>3. \A i \in from .. to : b[i] \in S
      BY <1>4, <3>2
    <3>4. /\ SubSeq(b, from, to) \in Seq(S) /\ Len(SubSeq(b, from, to)) = n
          /\ \A i \in 1 .. n : SubSeq(b, from, to)[i] = b[from + i - 1]
      BY <3>2, <3>3, SubSeqProperties
    <3>5. cut = SubSeq(b, from, to)
      BY <1>8, <3>1
    <3> QED
      BY <3>2, <3>4, <3>5
  <2>2. ASSUME NEW i \in 1 .. n PROVE cut[i] = Tag(sent, roc)[i]
    <3>1. total + i \in 2 .. total + n
      BY <1>7
    <3> QED
      BY <1>7, <2>1, <3>1
  <2> QED
    BY <1>7, <2>1, <2>2
<1>10. /\ \A i \in 1 .. n :
            Tag(sent, roc)[i] = [v |-> <<i>>, mask |-> {}, mac |->
              <<[key |-> Keys.a, alg |-> setup.aalg, over |-> getRawPacket(sent),
                 roc |-> roc]>>]
       /\ \A i \in 1 .. n :
            Tag(Cut(q), guess)[i] = [v |-> <<i>>, mask |-> {}, mac |->
              <<[key |-> Keys.a, alg |-> setup.aalg, over |-> getRawPacket(Cut(q)),
                 roc |-> guess]>>]
       /\ Tag(Cut(q), guess) = [i \in 1 .. n |-> Tag(Cut(q), guess)[i]]
  BY <1>3 DEF Tag, srtpAuthenticate, TagCells
<1>11. /\ getRawPacket(sent) = SubSeq(sent.buffer, 1, total)
       /\ getRawPacket(Cut(q)) = SubSeq(b, 1, total)
  BY <1>1, <1>3, <1>7 DEF getRawPacket
<1>12. ASSUME TagFits(q, guess) PROVE pad = 0 /\ guess = roc
  <2>1. PICK k : k \in 1 .. n
    <3>1. 1 \in 1 .. n
      BY <1>7
    <3> QED
      BY <3>1
  <2>2. cut = Tag(Cut(q), guess)
    BY <1>1, <1>3, <1>8, <1>12 DEF TagFits
  <2>3. Tag(Cut(q), guess)[k] = Tag(sent, roc)[k]
    BY <1>9, <2>1, <2>2
  <2>4. PICK x, y :
          /\ x = [key |-> Keys.a, alg |-> setup.aalg, over |-> getRawPacket(sent),
                  roc |-> roc]
          /\ y = [key |-> Keys.a, alg |-> setup.aalg, over |-> getRawPacket(Cut(q)),
                  roc |-> guess]
    OBVIOUS
  <2>5. <<x>> = <<y>>
    <3>1. Tag(sent, roc)[k].mac = <<x>>
      <4>1. Tag(sent, roc)[k] = [v |-> <<k>>, mask |-> {}, mac |-> <<x>>]
        BY <1>10, <2>1, <2>4, Zenon
      <4>2. PICK t : t = Tag(sent, roc)[k]
        OBVIOUS
      <4>3. t.mac = <<x>>
        BY <4>1, <4>2
      <4> QED
        BY <4>2, <4>3
    <3>2. Tag(Cut(q), guess)[k].mac = <<y>>
      <4>1. Tag(Cut(q), guess)[k] = [v |-> <<k>>, mask |-> {}, mac |-> <<y>>]
        BY <1>10, <2>1, <2>4, Zenon
      <4>2. PICK t : t = Tag(Cut(q), guess)[k]
        OBVIOUS
      <4>3. t.mac = <<y>>
        BY <4>1, <4>2
      <4> QED
        BY <4>2, <4>3
    <3> QED
      BY <2>3, <3>1, <3>2
  <2>6. x = y
    BY <2>5
  <2>7. guess = roc /\ getRawPacket(sent) = getRawPacket(Cut(q))
    BY <2>4, <2>6
  <2>8. sent.buffer[1] = b[1]
    <3>1. SubSeq(sent.buffer, 1, total)[1] = sent.buffer[1]
      BY <1>6, <1>7
    <3>2. SubSeq(b, 1, total)[1] = b[1]
      BY <1>4, <1>7
    <3> QED
      BY <1>11, <2>7, <3>1, <3>2
  <2>9. block[1] = b[1]
    <3>1. 1 \in 1 .. total
      BY <1>7
    <3> QED
      BY <1>7, <2>8, <3>1
  <2>10. padding(block) = 0
    BY <2>9 DEF Parsed, padding, FLAGS
  <2>11. pad = 0
    BY <2>10 DEF Parsed
  <2> QED
    BY <2>7, <2>11
<1>13. ASSUME pad = 0, guess = roc PROVE TagFits(q, guess)
  <2>1. b = block
    BY <1>13 DEF Parsed
  <2>2. \A i \in 1 .. total : b[i] = sent.buffer[i]
    BY <1>7, <2>1
  <2>3. SubSeq(b, 1, total) = SubSeq(sent.buffer, 1, total)
    BY <1>4, <1>6, <1>7, <2>2, SameCut
  <2>4. \A i \in 1 .. n : Tag(Cut(q), guess)[i] = Tag(sent, roc)[i]
    <3> SUFFICES ASSUME NEW i \in 1 .. n
                 PROVE  Tag(Cut(q), guess)[i] = Tag(sent, roc)[i]
      OBVIOUS
    <3>1. getRawPacket(Cut(q)) = getRawPacket(sent)
      BY <1>11, <2>3
    <3>2. Tag(Cut(q), guess)[i] = [v |-> <<i>>, mask |-> {}, mac |->
            <<[key |-> Keys.a, alg |-> setup.aalg, over |-> getRawPacket(Cut(q)),
               roc |-> guess]>>]
      BY <1>10
    <3>3. Tag(sent, roc)[i] = [v |-> <<i>>, mask |-> {}, mac |->
            <<[key |-> Keys.a, alg |-> setup.aalg, over |-> getRawPacket(sent),
               roc |-> roc]>>]
      BY <1>10
    <3> QED
      BY <1>13, <3>1, <3>2, <3>3
  <2>5. cut = Tag(Cut(q), guess)
    BY <1>9, <1>10, <2>4
  <2> QED
    BY <1>1, <1>3, <1>8, <2>5 DEF TagFits
<1> QED
  BY <1>12, <1>13

(* What an application reads of a packet, of two that have the same cells. *)
ReadsTheSame(p, q) ==
  /\ getPayload(q) = getPayload(p) /\ getCSRCs(q) = getCSRCs(p)
  /\ getHdrExt(q) = getHdrExt(p)
  /\ SubSeq(q.buffer, KIND, SizeOfFixedHeader)
       = SubSeq(p.buffer, KIND, SizeOfFixedHeader)

SamePacket(p, pad, q) ==
  /\ Laid(p, pad) /\ Headed(p)
  /\ q.hdrSize = p.hdrSize /\ q.payloadSize = p.payloadSize
  /\ (\E S : q.buffer \in Seq(S)) /\ p.hdrSize + p.payloadSize <= Len(q.buffer)
  /\ \A i \in 1 .. p.hdrSize + p.payloadSize : q.buffer[i] = p.buffer[i]

LEMMA SameIsRead ==
  ASSUME NEW p, NEW pad, NEW q, SamePacket(p, pad, q)
  PROVE  ReadsTheSame(p, q)
<1>1. PICK S : q.buffer \in Seq(S)
  BY DEF SamePacket
<1>2. PICK a, b, h, n, k :
        /\ a = p.buffer /\ b = q.buffer /\ h = p.hdrSize /\ n = h + p.payloadSize
        /\ k = cc(a)
  OBVIOUS
<1>3. /\ a \in Seq(PlainCells) /\ b \in Seq(S) /\ h \in Nat /\ n \in Nat /\ h <= n
      /\ h >= 5 /\ k \in Nat /\ n <= Len(a) /\ n <= Len(b)
      /\ \A i \in 1 .. n : b[i] = a[i]
      /\ q.hdrSize = h /\ q.payloadSize = p.payloadSize /\ h + p.payloadSize = n
  BY <1>1, <1>2 DEF SamePacket, Laid, Headed, RtpPackets, SizeOfFixedHeader
<1>4. b[1] = a[1]
  BY <1>3
<1>5. cc(b) = k /\ extension(b) = extension(a)
  BY <1>2, <1>4 DEF cc, extension, FLAGS
<1>6. 5 + k <= h /\ (extension(a) # 0 => 5 + k + 1 <= h)
  BY <1>2, <1>3 DEF SamePacket, Headed, HeaderSize, SizeOfFixedHeader
<1>7. ASSUME NEW i \in Nat \ {0}, NEW j \in Nat, j <= n
      PROVE  SubSeq(b, i, j) = SubSeq(a, i, j)
  <2>1. \A x \in i .. j : b[x] = a[x]
    BY <1>3, <1>7
  <2>2. j <= Len(a) /\ j <= Len(b)
    BY <1>3, <1>7
  <2> QED
    BY <1>3, <2>1, <2>2, SameCut
<1>8. getPayload(q) = getPayload(p)
  <2>1. h + 1 \in Nat \ {0} /\ n <= n
    BY <1>3
  <2>2. SubSeq(b, h + 1, n) = SubSeq(a, h + 1, n)
    BY <1>3, <1>7, <2>1
  <2> QED
    BY <1>2, <1>3, <2>2 DEF getPayload
<1>9. getCSRCs(q) = getCSRCs(p)
  <2>1. 5 + 1 \in Nat \ {0} /\ 5 + k \in Nat /\ 5 + k <= n
    BY <1>3, <1>6
  <2>2. SubSeq(b, 5 + 1, 5 + k) = SubSeq(a, 5 + 1, 5 + k)
    BY <1>7, <2>1
  <2> QED
    BY <1>2, <1>5, <2>2 DEF getCSRCs, SizeOfFixedHeader
<1>10. getHdrExt(q) = getHdrExt(p)
  <2>1. 5 + k + 1 \in Nat \ {0} /\ h <= n
    BY <1>3
  <2>2. SubSeq(b, 5 + k + 1, h) = SubSeq(a, 5 + k + 1, h)
    BY <1>3, <1>7, <2>1
  <2> QED
    BY <1>2, <1>3, <1>5, <2>2 DEF getHdrExt, SizeOfFixedHeader
<1>11. SubSeq(b, KIND, SizeOfFixedHeader) = SubSeq(a, KIND, SizeOfFixedHeader)
  <2>1. KIND \in Nat \ {0} /\ SizeOfFixedHeader \in Nat /\ SizeOfFixedHeader <= n
    BY <1>3 DEF KIND, SizeOfFixedHeader
  <2> QED
    BY <1>7, <2>1
<1> QED
  BY <1>2, <1>8, <1>9, <1>10, <1>11 DEF ReadsTheSame

(* Combining a cell with the same byte twice takes the byte away.          *)
LEMMA FlipTwice ==
  ASSUME NEW cell \in PlainCells, NEW byte
  PROVE  Flip(Flip(cell, byte), byte) = cell
<1>1. cell.mask = {} /\ cell = [cell EXCEPT !.mask = {}]
  BY DEF PlainCells
<1>2. CASE setup.ealg \in Aes
  <2>1. Flip(cell, byte) = [cell EXCEPT !.mask = {byte}]
    BY <1>1, <1>2 DEF Flip
  <2>2. PICK d : d = Flip(cell, byte)
    OBVIOUS
  <2>3. d.mask = {byte} /\ d = [v |-> cell.v, mask |-> {byte}, mac |-> cell.mac]
    BY <1>1, <2>1, <2>2 DEF PlainCells
  <2>4. Flip(d, byte) = [d EXCEPT !.mask = {}]
    BY <1>2, <2>3 DEF Flip
  <2>5. [d EXCEPT !.mask = {}] = cell
    BY <1>1, <2>3 DEF PlainCells
  <2> QED
    BY <2>2, <2>4, <2>5
<1>3. CASE setup.ealg \notin Aes
  BY <1>3 DEF Flip
<1> QED
  BY <1>2, <1>3

(* The counters with which a packet is deciphered to what it was: F8 takes *)
(* that of the context, the counter mode that of the index.                *)
RightCounter(guess, counter, roc) ==
  \/ setup.ealg \notin Aes
  \/ guess = roc /\ (setup.ealg = "AESF8" => counter = roc)

Cleared(q, seq, s, guess, counter) ==
  srtpEncrypt(setup.ealg, Cut(q), Index(guess, seq), s, counter)

LEMMA ClearedIsRead ==
  ASSUME NEW p, NEW pad, NEW block, NEW s, NEW seq, NEW roc, NEW b, NEW q,
         NEW sent, NEW guess, NEW counter,
         Sealed(p, pad, block, s, seq, roc), Parsed(p, pad, block, s, seq, b, q),
         Carries(p, block, sent, s, seq, roc), setup.srtp
  PROVE  /\ getSeqNum(Cleared(q, seq, s, guess, counter)) = seq
         /\ pad = 0 /\ RightCounter(guess, counter, roc) =>
              ReadsTheSame(p, Cleared(q, seq, s, guess, counter))
<1>1. PICK c, h, total, n :
        c = Cut(q) /\ h = p.hdrSize /\ total = p.total /\ n = total - h
  OBVIOUS
<1>2. /\ c.total = total /\ c.buffer = b /\ c.hdrSize = h /\ c.payloadSize = n
      /\ getSeqNum(c) = seq /\ TagCells = SrtpLength
  BY <1>1, CutIsThis
<1>3. /\ h \in Nat /\ h >= 5 /\ total \in Nat /\ n \in Nat /\ h + n = total
      /\ p.buffer \in Seq(PlainCells) /\ Len(p.buffer) = total + TagCells
      /\ TagCells \in Nat /\ Laid(p, pad) /\ pad \in Nat
      /\ p.payloadSize + pad = n
  <2>1. /\ p \in RtpPackets /\ Laid(p, pad) /\ pad \in Nat /\ p.hdrSize >= 5
        /\ p.total = p.hdrSize + p.payloadSize + pad
        /\ Len(p.buffer) = p.total + p.srtpLength /\ p.srtpLength = SrtpLength
    BY DEF Sealed, Laid, SizeOfFixedHeader
  <2>2. /\ p.buffer \in Seq(PlainCells) /\ p.hdrSize \in Nat
        /\ p.payloadSize \in Nat /\ p.total \in Nat /\ p.srtpLength \in Nat
    BY <2>1 DEF RtpPackets
  <2>3. TagCells \in Nat /\ Len(p.buffer) = total + TagCells
    BY <1>1, <1>2, <2>1, <2>2
  <2>4. n \in Nat /\ h + n = total /\ p.payloadSize + pad = n
    <3>1. PICK size : size = p.payloadSize
      OBVIOUS
    <3>2. /\ total = h + size + pad /\ n = total - h
          /\ h \in Nat /\ size \in Nat /\ pad \in Nat
      BY <1>1, <2>1, <2>2, <3>1
    <3>3. n = size + pad
      BY <3>2
    <3>4. n \in Nat /\ h + n = total
      BY <3>2, <3>3
    <3> QED
      BY <3>1, <3>3, <3>4
  <2> QED
    BY <1>1, <2>1, <2>2, <2>3, <2>4
<1>4. PICK S : b \in Seq(S)
  BY DEF Parsed
<1>5. /\ Len(b) = total + TagCells /\ DOMAIN b = 1 .. total + TagCells
      /\ \A i \in 2 .. Len(b) : b[i] = block[i]
      /\ \A i \in 1 .. h : block[i] = p.buffer[i]
  BY <1>1, <1>2, <1>4 DEF Parsed, Carries
<1>6. Cipherable(c, n)
  <2>1. ~isPadded(c)
    BY <1>2 DEF Parsed, isPadded
  <2>2. n = c.payloadSize + (IF isPadded(c) THEN getPaddingSize(c) ELSE 0)
    BY <1>2, <1>3, <2>1
  <2>3. h + n <= Len(b)
    BY <1>3, <1>5
  <2> QED
    BY <1>2, <1>3, <1>4, <2>2, <2>3 DEF Cipherable
<1>7. PICK stream : stream = CipherStream(c, Index(guess, seq), s, counter, n)
  OBVIOUS
<1>8. PICK clear : clear = Cleared(q, seq, s, guess, counter)
  OBVIOUS
<1>9. PICK d : clear = [c EXCEPT !.buffer = d] /\ Flipped(c, n, stream, d)
  <2>1. setup.ealg \in Encryptions
    BY SecureConstants DEF Sealed
  <2>2. Ciphered(c, Index(guess, seq), s, counter, n, clear)
    BY <1>1, <1>6, <1>8, <2>1, EncryptCiphers DEF Cleared
  <2> QED
    BY <1>7, <2>2 DEF Ciphered
<1>10. clear.buffer = d /\ clear.hdrSize = h /\ clear.payloadSize = n
  <2>1. c = [ buffer |-> b, total |-> total, hdrSize |-> h, payloadSize |-> n,
              srtpLength |-> 0 ]
    BY <1>1, CutIsThis
  <2> QED
    BY <1>2, <1>9, <2>1
<1>11. \A i \in 1 .. total + TagCells :
         d[i] = IF i \in h + 1 .. h + n THEN Flip(b[i], stream[i - h]) ELSE b[i]
  BY <1>2, <1>5, <1>9 DEF Flipped
<1>12. getSeqNum(clear) = seq
  <2>1. 3 \in 1 .. total + TagCells /\ 3 \notin h + 1 .. h + n
    BY <1>3
  <2>2. d[3] = b[3]
    BY <1>11, <2>1
  <2> QED
    BY <1>2, <1>10, <2>2 DEF getSeqNum, SEQUENCE
<1>13. ASSUME pad = 0, RightCounter(guess, counter, roc)
       PROVE  ReadsTheSame(p, clear)
  <2>1. b = block
    BY <1>13 DEF Parsed
  <2>2. \A i \in h + 1 .. total :
          b[i] = Flip(p.buffer[i], CipherStream(p, Index(roc, seq), s, roc, n)[i - h])
    BY <1>1, <2>1 DEF Carries
  <2>3. \A i \in 1 .. h : b[i] = p.buffer[i]
    BY <1>5, <2>1
  <2>4. setup.ealg \in Aes => stream = CipherStream(p, Index(roc, seq), s, roc, n)
    <3>1. CASE setup.ealg = "AESCM"
      BY <1>7, <1>13, <3>1 DEF CipherStream, RightCounter, Aes
    <3>2. CASE setup.ealg = "AESF8"
      <4>1. /\ KIND \in 1 .. h /\ SEQUENCE \in 1 .. h /\ TIMESTAMP \in 1 .. h
            /\ SSRC \in 1 .. h
        BY <1>3 DEF KIND, SEQUENCE, TIMESTAMP, SSRC
      <4>2. /\ b[KIND] = p.buffer[KIND] /\ b[SEQUENCE] = p.buffer[SEQUENCE]
            /\ b[TIMESTAMP] = p.buffer[TIMESTAMP] /\ b[SSRC] = p.buffer[SSRC]
        BY <2>3, <4>1
      <4>3. f8Vector(c, roc) = f8Vector(p, roc)
        BY <1>2, <4>2 DEF f8Vector
      <4>4. counter = roc /\ setup.ealg # "AESCM"
        BY <1>13, <3>2 DEF RightCounter, Aes
      <4> QED
        BY <1>7, <3>2, <4>3, <4>4 DEF CipherStream
    <3> QED
      BY <3>1, <3>2 DEF Aes
  <2>5. ASSUME NEW i \in 1 .. total PROVE d[i] = p.buffer[i]
    <3>1. i \in 1 .. total + TagCells
      BY <1>3
    <3>2. CASE i \in 1 .. h
      <4>1. i \notin h + 1 .. h + n
        BY <1>3, <3>2
      <4> QED
        BY <1>11, <2>3, <3>1, <3>2, <4>1
    <3>3. CASE i \in h + 1 .. total
      <4>1. d[i] = Flip(b[i], stream[i - h])
        BY <1>3, <1>11, <3>1, <3>3
      <4>2. p.buffer[i] \in PlainCells
        BY <1>3, <3>1
      <4>3. CASE setup.ealg \in Aes
        <5>1. b[i] = Flip(p.buffer[i], stream[i - h])
          BY <2>2, <2>4, <3>3, <4>3
        <5> QED
          BY <4>1, <4>2, <5>1, FlipTwice
      <4>4. CASE setup.ealg \notin Aes
        BY <2>2, <3>3, <4>1, <4>4 DEF Flip
      <4> QED
        BY <4>3, <4>4
    <3> QED
      BY <1>3, <3>2, <3>3
  <2>6. SamePacket(p, pad, clear)
    <3>1. Len(d) = total + TagCells /\ \E T : d \in Seq(T)
      <4>1. PICK T : d \in Seq(T)
        BY <1>9 DEF Flipped
      <4>2. DOMAIN d = 1 .. total + TagCells
        BY <1>2, <1>5, <1>9 DEF Flipped
      <4>3. DOMAIN d = 1 .. Len(d) /\ Len(d) \in Nat
        BY <4>1
      <4> QED
        BY <1>3, <4>1, <4>2, <4>3
    <3>2. p.payloadSize \in Nat /\ Headed(p)
      BY <1>3 DEF Laid, RtpPackets, Sealed
    <3>3. p.payloadSize = n /\ total <= Len(d) /\ h + n = total
      BY <1>3, <1>13, <3>1, <3>2
    <3> QED
      BY <1>1, <1>3, <1>10, <2>5, <3>1, <3>2, <3>3 DEF SamePacket
  <2> QED
    BY <2>6, SameIsRead
<1> QED
  BY <1>8, <1>12, <1>13

(* What unprotect comes to, and that by the tag a packet is accepted as it *)
(* is by the counter (CryptoContext.cxx:402-470, rtppkt.cpp:330-352).      *)
Passed(q, seq, s, c, u) ==
  /\ u.ok = TRUE /\ u.packet = Cleared(q, seq, s, GuessedRoc(c, seq), c.roc)
  /\ u.context \in Updates(c, seq)

Dismissed(q, c, u) == u.ok = FALSE /\ u.packet = Cut(q) /\ u.context = c

LEMMA UnprotectIs ==
  ASSUME NEW p, NEW pad, NEW block, NEW s, NEW seq, NEW roc, NEW b, NEW q,
         NEW before, NEW c, NEW guess,
         c = SeenFirst(before, seq), guess = GuessedRoc(c, seq),
         Sealed(p, pad, block, s, seq, roc), Parsed(p, pad, block, s, seq, b, q),
         setup.srtp, NEW u \in Unprotected(q, before)
  PROVE  \E passes \in ReplayChecks(c, seq) :
           IF passes /\ TagFits(q, guess) THEN Passed(q, seq, s, c, u)
                                          ELSE Dismissed(q, c, u)
<1>1. getSeqNum(q) = seq /\ getSeqNum(Cut(q)) = seq /\ getSSRC(Cut(q)) = s
  BY CutIsThis DEF Parsed
<1>2. u \in Unprotect(q, before)
  BY DEF Unprotected
<1>3. PICK passes \in ReplayChecks(c, seq) :
        u \in IF passes /\ TagFits(q, guess)
                THEN { [ok |-> TRUE, packet |-> Cleared(q, seq, s, guess, c.roc),
                        context |-> v] : v \in Updates(c, seq) }
                ELSE { [ok |-> FALSE, packet |-> Cut(q), context |-> c] }
  <2>1. PICK n, m, k : n = getSeqNum(q) /\ m = getSeqNum(Cut(q)) /\ k = getSSRC(Cut(q))
    OBVIOUS
  <2>2. PICK passes \in ReplayChecks(SeenFirst(before, n), n) :
          u \in IF passes /\ SubSeq(q.buffer, Cut(q).total + 1, q.total)
                              = srtpAuthenticate(setup.aalg, Cut(q),
                                  GuessedRoc(SeenFirst(before, n), n), TagLength)
                  THEN { [ok |-> TRUE,
                          packet |-> srtpEncrypt(setup.ealg, Cut(q),
                            Index(GuessedRoc(SeenFirst(before, n), n), m), k,
                            SeenFirst(before, n).roc),
                          context |-> v] : v \in Updates(SeenFirst(before, n), m) }
                  ELSE { [ok |-> FALSE, packet |-> Cut(q),
                          context |-> SeenFirst(before, n)] }
    BY <1>2, <2>1, ZenonT(150) DEF Unprotect
  <2>3. n = seq /\ m = seq /\ k = s
    BY <1>1, <2>1
  <2> QED
    BY <2>2, <2>3 DEF TagFits, Tag, Cleared
<1>4. CASE passes /\ TagFits(q, guess)
  <2>1. u \in { [ok |-> TRUE, packet |-> Cleared(q, seq, s, guess, c.roc),
                 context |-> v] : v \in Updates(c, seq) }
    BY <1>3, <1>4, Zenon
  <2>2. Passed(q, seq, s, c, u)
    BY <2>1 DEF Passed
  <2> QED
    BY <1>4, <2>2, Zenon
<1>5. CASE ~(passes /\ TagFits(q, guess))
  <2>1. u \in { [ok |-> FALSE, packet |-> Cut(q), context |-> c] }
    BY <1>3, <1>5, Zenon
  <2>2. Dismissed(q, c, u)
    BY <2>1 DEF Dismissed
  <2> QED
    BY <1>5, <2>2, Zenon
<1> QED
  BY <1>4, <1>5, Zenon

Outcomes(c, seq, roc, passes) ==
  IF passes /\ roc = GuessedRoc(c, seq)
    THEN {[ok |-> TRUE, context |-> u] : u \in Updates(c, seq)}
    ELSE {[ok |-> FALSE, context |-> c]}

LEMMA TagIsCounter ==
  ASSUME NEW q, NEW s, NEW seq, NEW before, NEW c, NEW guess, NEW roc, NEW u,
         c = SeenFirst(before, seq), guess = GuessedRoc(c, seq),
         TagFits(q, guess) <=> roc = guess,
         \E passes \in ReplayChecks(c, seq) :
           IF passes /\ TagFits(q, guess) THEN Passed(q, seq, s, c, u)
                                          ELSE Dismissed(q, c, u)
  PROVE  [ok |-> u.ok, context |-> u.context] \in Unprotects(before, seq, roc)
<1>1. PICK passes \in ReplayChecks(c, seq) :
        IF passes /\ TagFits(q, guess) THEN Passed(q, seq, s, c, u)
                                       ELSE Dismissed(q, c, u)
  OBVIOUS
<1>2. PICK e : e = [ok |-> u.ok, context |-> u.context]
  OBVIOUS
<1>3. e \in Outcomes(c, seq, roc, passes)
  <2>1. CASE passes /\ roc = guess
    <3>1. Passed(q, seq, s, c, u)
      BY <1>1, <2>1, Zenon
    <3>2. e \in {[ok |-> TRUE, context |-> v] : v \in Updates(c, seq)}
      BY <1>2, <3>1, Zenon DEF Passed
    <3> QED
      BY <2>1, <3>2, Zenon DEF Outcomes
  <2>2. CASE ~(passes /\ roc = guess)
    <3>1. Dismissed(q, c, u)
      BY <1>1, <2>2, Zenon
    <3>2. e \in {[ok |-> FALSE, context |-> c]}
      BY <1>2, <3>1, Zenon DEF Dismissed
    <3> QED
      BY <2>2, <3>2, Zenon DEF Outcomes
  <2> QED
    BY <2>1, <2>2, Zenon
<1>4. e \in UNION {Outcomes(c, seq, roc, x) : x \in ReplayChecks(c, seq)}
  BY <1>1, <1>3, Zenon
<1>5. Unprotects(before, seq, roc)
        = UNION {Outcomes(c, seq, roc, x) : x \in ReplayChecks(c, seq)}
  <2>1. Unprotects(before, seq, roc)
          = UNION {Outcomes(SeenFirst(before, seq), seq, roc, x) :
                   x \in ReplayChecks(SeenFirst(before, seq), seq)}
    BY Zenon DEF Unprotects, Outcomes
  <2> QED
    BY <2>1
<1> QED
  BY <1>2, <1>4, <1>5

(* The packet on its way is one a source sealed, with the counter it had.  *)
OnItsWay(w) ==
  \E s \in Sources : \E seq \in Seqs : \E pad :
    Sealed(w.plain, pad, w.block, s, seq, w.roc)

PathInv ==
  /\ SendersInv
  /\ contexts \in [Sources -> Contexts]
  /\ wire.there => OnItsWay(wire)
  /\ ArrivesAsSent

LEMMA UpdatesKeepContexts ==
  ASSUME NEW c \in Contexts, NEW seq \in Seqs, NEW u \in Updates(c, seq)
  PROVE  u \in Contexts
BY GuessIsCounter, UpdatesAreContexts

(* The block as the receiver has it, parsed.                               *)
Parse(w) == Incoming(Arrived(w.block))

LEMMA ReceiveDoes ==
  ASSUME Receive
  PROVE  /\ wire.there /\ wire' = Nothing /\ UNCHANGED <<setup, senders, streams>>
         /\ \/ UNCHANGED <<contexts, got>>
            \/ \E u \in Unprotected(Parse(wire), contexts[getSSRC(Parse(wire))]) :
               \E x \in IF padding(wire.block) = 1 /\ u.ok
                          THEN reComputePayLength(u.packet) ELSE {u.packet} :
                 /\ contexts' =
                      [contexts EXCEPT ![getSSRC(Parse(wire))] = u.context]
                 /\ got' = [ there |-> TRUE, ok |-> u.ok, packet |-> x, of |-> wire,
                             before |-> contexts[getSSRC(Parse(wire))],
                             after |-> u.context ]
<1>1. CASE ~isHeaderValid(Parse(wire))
  BY <1>1, Zenon DEF Receive, Parse, Arrived
<1>2. CASE isHeaderValid(Parse(wire))
  BY <1>2, Zenon DEF Receive, Parse, Arrived
<1> QED
  BY <1>1, <1>2

LEMMA ReceiveKeeps ==
  ASSUME PathInv, Receive
  PROVE  ArrivesAsSent' /\ contexts' \in [Sources -> Contexts]
<1>1. setup' = setup /\ wire.there
  BY ReceiveDoes
<1>2. CASE UNCHANGED <<contexts, got>>
  BY <1>1, <1>2 DEF PathInv, ArrivesAsSent, SameCounter, Guess
<1>3. CASE ~ UNCHANGED <<contexts, got>>
  <2>1. PICK w, p, block, roc, q, b :
          /\ w = wire /\ p = w.plain /\ block = w.block /\ roc = w.roc
          /\ q = Parse(w) /\ b = Arrived(block)
    OBVIOUS
  <2>2. PICK s \in Sources, seq \in Seqs : \E pad : Sealed(p, pad, block, s, seq, roc)
    BY <1>1, <2>1 DEF PathInv, OnItsWay
  <2>3. PICK pad : Sealed(p, pad, block, s, seq, roc)
    BY <2>2
  <2>4. PICK sent : Carries(p, block, sent, s, seq, roc)
    BY <2>3, SealedCarries
  <2>5. Parsed(p, pad, block, s, seq, b, q)
    BY <2>1, <2>3, <2>4, BlockIsParsed DEF Parse
  <2>6. getSSRC(q) = s /\ (padding(block) = 1 <=> pad # 0)
    BY <2>5 DEF Parsed
  <2>7. isPadded(p) <=> pad # 0
    BY <2>3 DEF Sealed, Laid, isPadded
  <2>8. PICK before, c, guess :
          /\ before = contexts[s] /\ c = SeenFirst(before, seq)
          /\ guess = GuessedRoc(c, seq)
    OBVIOUS
  <2>9. PICK u \in Unprotected(q, before) :
          \E x \in IF padding(block) = 1 /\ u.ok
                     THEN reComputePayLength(u.packet) ELSE {u.packet} :
            /\ contexts' = [contexts EXCEPT ![s] = u.context]
            /\ got' = [ there |-> TRUE, ok |-> u.ok, packet |-> x, of |-> w,
                        before |-> before, after |-> u.context ]
    BY <1>3, <2>1, <2>6, <2>8, ReceiveDoes
  <2>10. PICK x : /\ x \in IF padding(block) = 1 /\ u.ok
                            THEN reComputePayLength(u.packet) ELSE {u.packet}
                 /\ contexts' = [contexts EXCEPT ![s] = u.context]
                 /\ got' = [ there |-> TRUE, ok |-> u.ok, packet |-> x, of |-> w,
                             before |-> before, after |-> u.context ]
    BY <2>9
  <2>11. /\ before \in Contexts /\ c \in Contexts /\ guess \in 0 .. RocMod - 1
         /\ contexts \in [Sources -> Contexts] /\ c.roc = before.roc
    <3>1. contexts \in [Sources -> Contexts] /\ before \in Contexts
      BY <2>8 DEF PathInv
    <3>2. c.roc = before.roc
      BY <2>8, <3>1 DEF SeenFirst, Contexts
    <3> QED
      BY <2>8, <3>1, <3>2, GuessIsCounter, SeenFirstIsContext
  <2>12. setup.srtp =>
           \E passes \in ReplayChecks(c, seq) :
             IF passes /\ TagFits(q, guess) THEN Passed(q, seq, s, c, u)
                                            ELSE Dismissed(q, c, u)
    BY <2>3, <2>5, <2>8, <2>9, UnprotectIs
  <2>13. setup.srtp =>
           \/ Passed(q, seq, s, c, u)
           \/ Dismissed(q, c, u)
    BY <2>12, Zenon
  <2>14. ~setup.srtp => u.ok = TRUE /\ u.packet = q /\ u.context = before
    BY <2>9 DEF Unprotected
  <2>15. u.context \in Contexts
    <3>1. CASE ~setup.srtp
      BY <2>11, <2>14, <3>1
    <3>2. CASE setup.srtp
      BY <2>11, <2>13, <3>2, UpdatesKeepContexts DEF Passed, Dismissed
    <3> QED
      BY <3>1, <3>2
  <2>16. contexts' \in [Sources -> Contexts]
    BY <2>10, <2>11, <2>15
  <2>17. /\ got'.there /\ got'.ok = u.ok /\ got'.packet = x /\ got'.of = w
         /\ got'.before = before /\ got'.after = u.context
    BY <2>10
  <2>18. setup.srtp /\ setup.aalg # "Null" =>
           [ok |-> u.ok, context |-> u.context] \in
             Unprotects(before, getSeqNum(x), IF isPadded(p) THEN NoRoc ELSE roc)
    <3> SUFFICES ASSUME setup.srtp, setup.aalg # "Null"
                 PROVE  [ok |-> u.ok, context |-> u.context] \in
                          Unprotects(before, getSeqNum(x),
                                     IF isPadded(p) THEN NoRoc ELSE roc)
      OBVIOUS
    <3>1. TagFits(q, guess) <=> pad = 0 /\ guess = roc
      BY <2>3, <2>4, <2>5, TagTells
    <3>2. PICK right : right = IF isPadded(p) THEN NoRoc ELSE roc
      OBVIOUS
    <3>3. TagFits(q, guess) <=> right = guess
      BY <2>7, <2>11, <3>1, <3>2 DEF NoRoc
    <3>4. [ok |-> u.ok, context |-> u.context] \in Unprotects(before, seq, right)
      BY <2>8, <2>12, <3>3, TagIsCounter
    <3>5. pad # 0 => u.ok = FALSE
      <4>1. pad # 0 => Dismissed(q, c, u)
        BY <2>12, <3>1, Zenon
      <4> QED
        BY <4>1 DEF Dismissed
    <3>6. x = u.packet
      <4>1. ~(padding(block) = 1 /\ u.ok)
            \/ padding(block) # 1
        BY <2>6, <3>5, Zenon
      <4> QED
        BY <2>10, <4>1, Zenon
    <3>7. getSeqNum(u.packet) = seq
      <4>1. CASE Passed(q, seq, s, c, u)
        BY <2>3, <2>4, <2>5, <4>1, ClearedIsRead DEF Passed
      <4>2. CASE Dismissed(q, c, u)
        BY <2>3, <2>5, <4>2, CutIsThis DEF Dismissed
      <4> QED
        BY <2>13, <4>1, <4>2
    <3> QED
      BY <3>2, <3>4, <3>6, <3>7
  <2>19. ASSUME u.ok, ~isPadded(p), SameCounter'
         PROVE  ReadsTheSame(p, x)
    <3>1. pad = 0 /\ padding(block) # 1
      BY <2>6, <2>7, <2>19
    <3>2. x = u.packet
      BY <2>10, <3>1
    <3>3. CASE ~setup.srtp
      <4>1. q = Incoming(block) /\ block = p.buffer /\ b = block
        BY <2>1, <2>4, <2>5, <3>1, <3>3 DEF Carries, Parsed, Parse
      <4>2. /\ q.buffer = p.buffer /\ q.hdrSize = p.hdrSize
            /\ q.payloadSize = Len(p.buffer) - p.hdrSize
        BY <2>5, <4>1 DEF Parsed
      <4>3. /\ Laid(p, pad) /\ Headed(p) /\ p.buffer \in Seq(PlainCells)
            /\ Len(p.buffer) = p.hdrSize + p.payloadSize
            /\ p.hdrSize \in Nat /\ p.payloadSize \in Nat
        <5>1. p.srtpLength = 0
          BY <2>3, <3>3 DEF Sealed, SrtpLength
        <5> QED
          BY <2>3, <3>1, <5>1 DEF Sealed, Laid, RtpPackets
      <4>4. q.payloadSize = p.payloadSize
        BY <4>2, <4>3
      <4>5. SamePacket(p, pad, q)
        BY <4>2, <4>3, <4>4 DEF SamePacket
      <4> QED
        BY <2>14, <3>2, <3>3, <4>5, SameIsRead
    <3>4. CASE setup.srtp
      <4>1. Passed(q, seq, s, c, u)
        BY <2>13, <2>19, <3>4 DEF Dismissed
      <4>2. getSeqNum(x) = seq
        BY <2>3, <2>4, <2>5, <3>2, <3>4, <4>1, ClearedIsRead DEF Passed, Cleared
      <4>3. Guess' = guess
        BY <2>8, <2>17, <4>2 DEF Guess
      <4>4. RightCounter(guess, c.roc, roc)
        BY <1>1, <2>1, <2>11, <2>17, <2>19, <3>4, <4>3
           DEF SameCounter, RightCounter, Aes
      <4> QED
        BY <2>3, <2>4, <2>5, <2>8, <3>1, <3>2, <3>4, <4>1, <4>4, ClearedIsRead DEF Passed
    <3> QED
      BY <3>3, <3>4
  <2>20. ArrivesAsSent'
    BY <1>1, <2>1, <2>17, <2>18, <2>19 DEF ArrivesAsSent, ReadsTheSame
  <2> QED
    BY <2>16, <2>20
<1> QED
  BY <1>2, <1>3

LEMMA SendPutsOnItsWay ==
  ASSUME PathInv, NEW s \in Sources, Send(s)
  PROVE  PathInv'
<1>1. PICK p, block, seq, roc :
        /\ p = PlainOf(s) /\ block = SentOf(s).buffer
        /\ seq = senders[s].seq /\ roc = senders[s].roc
  OBVIOUS
<1>2. /\ wire' = [there |-> TRUE, plain |-> p, block |-> block, roc |-> roc]
      /\ setup' = setup /\ got' = NotYet /\ contexts' = contexts
  BY <1>1, SendDoes
<1>3. /\ MadeFor(p, <<setup.marker, setup.payload>>, seq, Len(streams), s)
      /\ seq \in Seqs /\ roc \in 0 .. RocMod - 1 /\ setup \in Setups
  BY <1>1, PlainIsReady DEF PathInv, SendersInv
<1>4. PICK pad : Laid(p, pad)
  BY <1>3 DEF MadeFor, WellMade
<1>5. Sealed(p, pad, block, s, seq, roc)
  BY <1>1, <1>3, <1>4 DEF Sealed, MadeFor, WellMade, SentOf
<1>6. Sealed(p, pad, block, s, seq, roc)'
  BY <1>2, <1>5 DEF Sealed, SrtpLength, Protected
<1>7. wire'.plain = p /\ wire'.block = block /\ wire'.roc = roc
  BY <1>2
<1>8. OnItsWay(wire)'
  BY <1>3, <1>6, <1>7 DEF OnItsWay
<1>9. ~got'.there
  BY <1>2 DEF NotYet
<1>10. ArrivesAsSent'
  BY <1>9 DEF ArrivesAsSent
<1>11. SendersInv'
  BY SendCounts DEF PathInv
<1> QED
  BY <1>2, <1>8, <1>10, <1>11 DEF PathInv

LEMMA PathInit == SecureInit => PathInv
<1> SUFFICES ASSUME SecureInit PROVE PathInv
  OBVIOUS
<1>1. SendersInv
  BY StreamsInit
<1>2. contexts \in [Sources -> Contexts]
  <2>1. NewContext \in Contexts
    BY SrtpConstants DEF NewContext, Contexts, Seqs
  <2> QED
    BY <2>1 DEF SecureInit
<1>3. ~wire.there
  BY DEF SecureInit, Nothing
<1>4. ~got.there
  BY DEF SecureInit, NotYet
<1> QED
  BY <1>1, <1>2, <1>3, <1>4 DEF PathInv, ArrivesAsSent

LEMMA RestKeeps ==
  ASSUME PathInv, UNCHANGED <<setup, contexts, got>>
  PROVE  ArrivesAsSent' /\ contexts' \in [Sources -> Contexts]
BY DEF PathInv, ArrivesAsSent, SameCounter, Guess

LEMMA SendersRest ==
  ASSUME PathInv, UNCHANGED <<setup, senders, streams>>
  PROVE  SendersInv'
BY DEF PathInv, SendersInv, NextIndex, Index

LEMMA PathStep == PathInv /\ [SecureNext]_secureVars => PathInv'
<1> SUFFICES ASSUME PathInv, [SecureNext]_secureVars PROVE PathInv'
  OBVIOUS
<1>1. ASSUME NEW s \in Sources, Send(s) PROVE PathInv'
  BY <1>1, SendPutsOnItsWay
<1>2. CASE Lose
  <2>1. ~wire'.there /\ UNCHANGED <<setup, senders, contexts, got, streams>>
    BY <1>2 DEF Lose, Nothing
  <2> QED
    BY <2>1, RestKeeps, SendersRest DEF PathInv
<1>3. CASE Receive
  <2>1. ~wire'.there /\ UNCHANGED <<setup, senders, streams>>
    BY <1>3, ReceiveDoes DEF Nothing
  <2> QED
    BY <1>3, <2>1, ReceiveKeeps, SendersRest DEF PathInv
<1>4. CASE UNCHANGED secureVars
  <2>1. UNCHANGED <<setup, senders, contexts, got, streams, wire>>
    BY <1>4 DEF secureVars
  <2>2. wire'.there => OnItsWay(wire)'
    <3> SUFFICES ASSUME wire.there PROVE OnItsWay(wire)'
      BY <2>1
    <3>1. PICK s \in Sources, seq \in Seqs :
            \E pad : Sealed(wire.plain, pad, wire.block, s, seq, wire.roc)
      BY DEF PathInv, OnItsWay
    <3>2. PICK pad : Sealed(wire.plain, pad, wire.block, s, seq, wire.roc)
      BY <3>1
    <3>3. Sealed(wire.plain, pad, wire.block, s, seq, wire.roc)'
      BY <2>1, <3>2 DEF Sealed, SrtpLength, Protected
    <3> QED
      BY <3>3 DEF OnItsWay
  <2> QED
    BY <2>1, <2>2, RestKeeps, SendersRest DEF PathInv
<1> QED
  BY <1>1, <1>2, <1>3, <1>4 DEF SecureNext

(* Whatever the pair of algorithms, the layout and the sizes, and whatever *)
(* was lost before: an application reads what was put in, and a tag tells  *)
(* the packets of another counter and those with padding, as MediaPath has *)
(* it by assumption (outqueue.cpp:430-460, incqueue.cpp:182-242,           *)
(* rtppkt.cpp:110-166, 192-352, CryptoContext.cxx:192-293).                *)
THEOREM ReadAsPutIn == SecureSpec => []ArrivesAsSent
<1>1. PathInv => ArrivesAsSent
  BY DEF PathInv
<1> QED
  BY <1>1, PathInit, PathStep, PTL DEF SecureSpec

=============================================================================
