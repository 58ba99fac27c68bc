------------------------------ MODULE Reception ------------------------------
(***************************************************************************)
(* What ccRTP keeps about the packets of one synchronization source, to    *)
(* tell valid packets from stray ones and to report losses: the reception  *)
(* part of SyncSourceLink (ccrtp/iqueue.h, members.cpp) and                *)
(* IncomingDataQueue::recordReception (incqueue.cpp), as operators on a    *)
(* record.  The times and the jitter are left out.                         *)
(***************************************************************************)
EXTENDS SequenceNumbers

CONSTANTS
  CountMod,     \* counters are modulo this, 2^32 in the code
  MaxDropout,   \* maxPacketDropout
  MaxMisorder,  \* maxPacketMisorder
  MinValid      \* minValidPacketSequence

ASSUME ReceptionConstants ==
  /\ SEQNUMMOD \in Nat \ {0, 1}
  /\ CountMod \in Nat \ {0}
  /\ MaxDropout \in 0 .. SEQNUMMOD /\ MaxMisorder \in 0 .. SEQNUMMOD
  /\ MinValid \in Nat

Counts == 0 .. CountMod - 1

Receptions ==
  [ obsPacketCount : Counts, maxSeqNum : Seqs, initialDataTimestamp : Nat,
    badSeqNum : Seqs \cup {SEQNUMMOD + 1}, probation : Nat,
    expectedPrior : Counts, receivedPrior : Counts, seqNumAccum : Nat ]

(* initStats, followed by setProbation.                                    *)
Fresh(probation) ==
  [ obsPacketCount |-> 0, maxSeqNum |-> 0, initialDataTimestamp |-> 0,
    badSeqNum |-> SEQNUMMOD + 1, probation |-> probation,
    expectedPrior |-> 0, receivedPrior |-> 0, seqNumAccum |-> 0 ]

IsValid(r) == r.probation = 0

(* Start a new sequence of received packets.                               *)
InitSequence(r, seq) == [r EXCEPT !.maxSeqNum = seq, !.seqNumAccum = seq]

(* The sequence number after the last one; no wrap, as in the code.        *)
Follows(r, seq) == seq = r.maxSeqNum + 1

(* How far seq is ahead, as an unsigned 16 bit number.                     *)
Ahead(r, seq) == (seq - r.maxSeqNum) % SEQNUMMOD

-----------------------------------------------------------------------------
(* A source on probation: packets in sequence bring it closer to validity. *)
Probe(r, seq) ==
  LET left == r.probation - 1 IN
  CASE Follows(r, seq) /\ left = 0 ->
         [ok |-> TRUE, r |-> InitSequence([r EXCEPT !.probation = 0], seq)]
    [] Follows(r, seq) /\ left # 0 ->
         [ok |-> FALSE, r |-> [r EXCEPT !.probation = left, !.maxSeqNum = seq]]
    [] OTHER ->
         [ok |-> FALSE, r |-> [r EXCEPT !.probation = MinValid - 1,
                                        !.maxSeqNum = seq]]

(* Mutant: the wrap is not accounted for.                                  *)
AdvanceUnwrapped(r, seq) == [r EXCEPT !.maxSeqNum = seq]

(* Ordered, with a step that is not too high; it may have wrapped.         *)
Advance(r, seq) ==
  [r EXCEPT !.maxSeqNum = seq,
            !.seqNumAccum = IF seq < r.maxSeqNum THEN @ + SEQNUMMOD ELSE @]

(* Mutant: a jump is followed at once.                                     *)
JumpAtOnce(r, seq) == [ok |-> TRUE, r |-> InitSequence(r, seq)]

(* Too high a step: the source has restarted if a second packet goes on    *)
(* from there.  Until then it is dropped, unless it is the very first.     *)
Jump(r, seq) ==
  IF seq = r.badSeqNum
    THEN [ok |-> TRUE, r |-> InitSequence(r, seq)]
    ELSE LET bad == [r EXCEPT !.badSeqNum = (seq + 1) % SEQNUMMOD] IN
         IF r.obsPacketCount > 0
           THEN [ok |-> FALSE, r |-> bad]
           ELSE [ok |-> TRUE, r |-> [bad EXCEPT !.maxSeqNum = seq]]

(* Source validation: whether the packet is valid, and the record after it.*)
Validate(r, seq) ==
  CASE ~IsValid(r) -> Probe(r, seq)
    [] IsValid(r) /\ Ahead(r, seq) < MaxDropout ->
         [ok |-> TRUE, r |-> Advance(r, seq)]
    [] IsValid(r) /\ Ahead(r, seq) >= MaxDropout
                  /\ Ahead(r, seq) <= SEQNUMMOD - MaxMisorder -> Jump(r, seq)
    [] OTHER -> [ok |-> TRUE, r |-> r]       \* duplicate or reordered

(* A valid packet is counted, and the first one sets the time base.        *)
Observe(r, timestamp) ==
  LET count == (r.obsPacketCount + 1) % CountMod IN
  [r EXCEPT !.obsPacketCount = count,
            !.initialDataTimestamp = IF count = 1 THEN timestamp ELSE @]

(* recordReception.                                                        *)
RecordReception(r, seq, timestamp) ==
  LET v == Validate(r, seq) IN
  IF v.ok THEN [ok |-> TRUE, r |-> Observe(v.r, timestamp)] ELSE v

-----------------------------------------------------------------------------
(* The base sequence number is 0 and never set.                            *)
BaseSeqNum == 0

ExtendedMax(r) == (r.maxSeqNum + r.seqNumAccum) % CountMod

ExpectedPackets(r) == (ExtendedMax(r) - BaseSeqNum + 1) % CountMod

CumulativeLost(r) ==
  IF r.obsPacketCount = 0 THEN 0
  ELSE (ExpectedPackets(r) - r.obsPacketCount) % CountMod

(* The loss of the last interval, in 256ths and eight bits wide.           *)
FractionLost(r) ==
  LET expectedDelta == (ExpectedPackets(r) - r.expectedPrior) % CountMod
      receivedDelta == (r.obsPacketCount - r.receivedPrior) % CountMod
      lostDelta == (expectedDelta - receivedDelta) % CountMod
  IN IF expectedDelta = 0 \/ lostDelta = 0 THEN 0
     ELSE (((lostDelta * 256) % CountMod) \div expectedDelta) % 256

(* computeStats: the next interval starts here.                            *)
ComputeStats(r) ==
  [r EXCEPT !.expectedPrior = ExpectedPackets(r),
            !.receivedPrior = r.obsPacketCount]

=============================================================================
