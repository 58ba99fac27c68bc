---------------------------- MODULE CcrtpTheorems ----------------------------
(***************************************************************************)
(* The safety of the receiving side of ccRTP: of the control service that  *)
(* sends the reports (RtcpControl), of the pool of sessions that one       *)
(* thread serves (SessionPool), and of the queue of received packets       *)
(* (IncomingQueue); each for any sources, sessions and sockets, any widths *)
(* of the counters, any sequence numbers and any limits.                   *)
(*                                                                         *)
(* The library's theorems on induction take an operator, which no prover   *)
(* here can instantiate.  The functions the model is built from are        *)
(* reasoned about by induction on the set of the numbers a formula holds   *)
(* of (InductionOnSet), and shown to be defined by StepsExist.             *)
(***************************************************************************)
EXTENDS RtcpControl, SessionPool, IncomingQueue,
        FiniteSetTheorems, SequenceTheorems, WellFoundedInduction, TLAPS

(* A set of numbers that is not empty has a least one.                     *)
LEMMA LeastNumber ==
  ASSUME NEW S \in SUBSET Nat, S # {}
  PROVE  \E m \in S : \A k \in S : ~ (k < m)
<1> DEFINE R == {ss \in Nat \X Nat : ss[1] < ss[2]}
<1>1. IsWellFoundedOn(R, Nat)
  BY NatLessThanWellFounded DEF OpToRel
<1>2. \E x \in S : \A y \in S : ~ (<<y, x>> \in R)
  <2> HIDE DEF R
  <2> QED
    BY <1>1, WFMin
<1> QED
  BY <1>2

(* Induction, with the set of the numbers a formula holds of.              *)
LEMMA InductionOnSet ==
  ASSUME NEW S, 0 \in S, \A k \in Nat : k \in S => k + 1 \in S
  PROVE  Nat \subseteq S
<1> SUFFICES ASSUME Nat \ S # {} PROVE FALSE
  OBVIOUS
<1>1. PICK m \in Nat \ S : \A i \in Nat \ S : ~ (i < m)
  BY LeastNumber
<1>2. m - 1 \in Nat
  BY <1>1
<1> QED
  BY <1>1, <1>2

(* What is made step by step from a, by a function of the last value and   *)
(* the number of the step, is defined.                                     *)
Steps(f, a, g, N) ==
  f[0] = a /\ \A k \in 1 .. N : f[k] = g[<<f[k - 1], k>>]

LEMMA StepsExist ==
  ASSUME NEW S, NEW a \in S, NEW g \in [S \X Nat -> S], NEW N \in Nat
  PROVE  \E f \in [0 .. N -> S] : Steps(f, a, g, N)
<1> DEFINE Good(f, m) == Steps(f, a, g, m)
           T == {m \in Nat : \E f \in [0 .. m -> S] : Good(f, m)}
<1>1. 0 \in T
  <2> DEFINE f == [k \in 0 .. 0 |-> a]
  <2>1. f \in [0 .. 0 -> S] /\ Good(f, 0)
    BY DEF Steps
  <2> QED
    BY <2>1
<1>2. ASSUME NEW m \in Nat, m \in T PROVE m + 1 \in T
  <2>1. PICK f \in [0 .. m -> S] : Good(f, m)
    BY <1>2
  <2> DEFINE h == [k \in 0 .. m + 1 |-> IF k = m + 1 THEN g[<<f[m], m + 1>>] ELSE f[k]]
  <2>2. h \in [0 .. m + 1 -> S]
    OBVIOUS
  <2>3. Good(h, m + 1)
    <3>1. h[0] = a
      BY <2>1 DEF Steps
    <3>2. ASSUME NEW k \in 1 .. m + 1 PROVE h[k] = g[<<h[k - 1], k>>]
      <4>1. CASE k = m + 1
        <5>1. h[m + 1] = g[<<f[m], m + 1>>] /\ h[m] = f[m] /\ k - 1 = m
          BY <4>1
        <5> QED
          BY <4>1, <5>1
      <4>2. CASE k # m + 1
        <5>1. k \in 1 .. m /\ k - 1 \in 0 .. m /\ k \in 0 .. m
          BY <4>2
        <5>2. h[k] = f[k] /\ h[k - 1] = f[k - 1]
          BY <5>1
        <5> QED
          BY <2>1, <5>1, <5>2 DEF Steps
      <4> QED
        BY <4>1, <4>2
    <3> QED
      BY <3>1, <3>2 DEF Steps
  <2> QED
    BY <2>2, <2>3
<1>3. Nat \subseteq T
  <2> HIDE DEF T
  <2> QED
    BY <1>1, <1>2, InductionOnSet
<1>4. N \in T
  <2> HIDE DEF T
  <2> QED
    BY <1>3
<1> QED
  BY <1>4

-----------------------------------------------------------------------------
(* The control service: its reports are spaced, its count of members is    *)
(* right, and its timers are never set too far away.                       *)

(* Counts stay counts, and the timers are numbers.  The last report is     *)
(* never further back than the time since it was sent: bringing the next   *)
(* one forward may only set it into the future.                            *)
TimesInv ==
  /\ members \in 0 .. MemberMod - 1 /\ rtcpPMembers \in 0 .. MemberMod - 1
  /\ rtcpTp \in Int /\ rtcpTn \in Int
  /\ quiet \in 0 .. Far
  /\ -rtcpTp <= quiet

-----------------------------------------------------------------------------
(* An interval is a number, and at least half the minimal one              *)
(* (control.cpp:672-711).                                                  *)
LEMMA IntervalsAreLong ==
  ASSUME NEW count \in Nat, NEW t \in Intervals(count)
  PROVE  t \in Nat /\ 2 * t >= MinInterval
<1>1. count * PerMember \in Nat
  BY RtcpConstants
<1>2. Need(count) \in Nat /\ Need(count) >= MinInterval
  BY <1>1, RtcpConstants DEF Need
<1> QED
  BY <1>2, RtcpConstants DEF Intervals

(* A span is not negative, and stays so when it is scaled to fewer members *)
(* (control.cpp:543-570).                                                  *)
LEMMA ScaledIsNat ==
  ASSUME NEW count \in Nat, rtcpPMembers \in Nat, rtcpPMembers > 0,
         NEW time \in Int, NEW difference \in Int,
         NEW span \in Spans(time, difference)
  PROVE  Scaled(span, count) \in Nat
<1>1. span \in Nat
  BY RtcpConstants DEF Spans
<1>2. span * count \in Nat
  BY <1>1
<1> DEFINE x == (span * count) % TimeMod
<1>3. x \in Nat
  BY <1>2, RtcpConstants
<1> HIDE DEF x
<1>4. x \div rtcpPMembers \in Nat
  BY <1>3
<1> QED
  BY <1>4 DEF Scaled, x

(* Counting one more or one less keeps the width of the counter.           *)
LEMMA CountsStay ==
  ASSUME members \in 0 .. MemberMod - 1, NEW s
  PROVE  /\ Registered(s) \in 0 .. MemberMod - 1
         /\ AfterBye(Registered(s)) \in 0 .. MemberMod - 1
<1>1. Registered(s) \in 0 .. MemberMod - 1
  BY RtcpConstants DEF Registered
<1> QED
  BY <1>1, RtcpConstants DEF AfterBye

LEMMA CountedOut ==
  ASSUME members \in 0 .. MemberMod - 1
  PROVE  AfterBye(members) \in 0 .. MemberMod - 1
BY RtcpConstants DEF AfterBye

(* Times in the past are cut off no further than the silence.              *)
LEMMA PastIsInt ==
  ASSUME NEW t \in Int
  PROVE  Past(t) \in Int /\ Past(t) >= -Far /\ Past(t) >= t
BY RtcpConstants DEF Past

-----------------------------------------------------------------------------
(* The state the constructor leaves has it (control.cpp:62-115).           *)
LEMMA TimesInvInit == ControlInit => TimesInv
BY RtcpConstants DEF ControlInit, TimesInv

(* Every step of the service, of the application and of time keeps it.     *)
LEMMA TimesInvStep == TimesInv /\ [ControlNext]_controlVars => TimesInv'
<1> SUFFICES ASSUME TimesInv, [ControlNext]_controlVars PROVE TimesInv'
  OBVIOUS
<1> USE RtcpConstants DEF TimesInv
(* Reports are brought forward for the members there are now.              *)
<1>a. ASSUME members' \in 0 .. MemberMod - 1,
             ReverseReconsideration(members'), quiet' = quiet
      PROVE  TimesInv'
  <2>1. members' \in 0 .. MemberMod - 1
    BY <1>a
  <2>2. /\ ReverseReconsideration(members') /\ quiet' = quiet
        /\ rtcpPMembers' = members'
    BY <1>a DEF ReverseReconsideration
  <2>3. CASE members' < rtcpPMembers
    <3>1. rtcpPMembers \in Nat /\ rtcpPMembers > 0 /\ members' \in Nat
      BY <2>1, <2>3
    <3>2. rtcpTn' \in Nat
      <4>1. PICK span \in Spans(rtcpTn, rtcpTn) : rtcpTn' = Scaled(span, members')
        BY <2>2, <2>3 DEF ReverseReconsideration
      <4> QED
        BY <3>1, <4>1, ScaledIsNat
    <3>3. rtcpTp' \in Nat
      <4>1. PICK span \in Spans(rtcpTp, -rtcpTp) : rtcpTp' = Scaled(span, members')
        BY <2>2, <2>3 DEF ReverseReconsideration
      <4> QED
        BY <3>1, <4>1, ScaledIsNat
    <3>4. quiet' = quiet /\ rtcpPMembers' = members'
      BY <2>2
    <3>5. quiet' \in 0 .. Far
      BY <3>4
    <3>6. -rtcpTp' <= quiet'
      <4> DEFINE tp == rtcpTp'
                 time == quiet'
      <4>1. tp \in Nat /\ time \in Nat
        BY <3>3, <3>5
      <4> HIDE DEF tp, time
      <4>2. -tp <= time
        BY <4>1
      <4> QED
        BY <4>2 DEF tp, time
    <3>8. rtcpTp' \in Int /\ rtcpTn' \in Int
      BY <3>2, <3>3
    <3>7. rtcpPMembers' \in 0 .. MemberMod - 1
      BY <2>1, <3>4
    <3> QED
      BY <2>1, <3>5, <3>6, <3>7, <3>8, Zenon DEF TimesInv
  <2>4. CASE ~(members' < rtcpPMembers)
    BY <2>1, <2>2, <2>4 DEF ReverseReconsideration
  <2> QED
    BY <2>3, <2>4
<1>1. ASSUME NEW s \in SSRC, NEW a \in From[s], TakeInReports(s, a)
      PROVE  TimesInv'
  BY <1>1, CountsStay DEF TakeInReports, timers
<1>2. ASSUME NEW s \in SSRC, NEW a \in From[s], TakeInBye(s, a)
      PROVE  TimesInv'
  <2>1. members' \in 0 .. MemberMod - 1
    BY <1>2, CountsStay DEF TakeInBye, Left
  <2> QED
    BY <1>a, <1>2, <2>1 DEF TakeInBye
<1>3. ASSUME NEW s \in SSRC, NEW a \in From[s], TakeInByeAgain(s, a)
      PROVE  TimesInv'
  BY <1>3 DEF TakeInByeAgain, timers, counts
<1>4. CASE BeginCheck
  BY <1>4 DEF BeginCheck, timers, counts
<1>5. CASE EndCheck
  BY <1>5 DEF EndCheck, counts
<1>6. CASE PutOff
  <2>1. PICK t \in Intervals(members) : rtcpTn' = Reconsidered(t)
    BY <1>6 DEF PutOff
  <2>2. t \in Nat
    BY <2>1, IntervalsAreLong
  <2> QED
    BY <1>6, <2>1, <2>2 DEF PutOff, Reconsidered, counts
<1>7. CASE DispatchControlPacket
  <2>1. rtcpTn' \in Nat
    BY <1>7, IntervalsAreLong DEF DispatchControlPacket
  <2> QED
    BY <1>7, <2>1 DEF DispatchControlPacket
<1>8. CASE DispatchDataPacket
  BY <1>8 DEF DispatchDataPacket, timers, counts
<1>9. CASE Leave
  BY <1>9 DEF Leave, timers, counts
<1>10. CASE LeaveCrowd
  <2>1. rtcpTn' \in Nat
    BY <1>10, IntervalsAreLong DEF LeaveCrowd
  <2> QED
    BY <1>10, <2>1 DEF LeaveCrowd
<1>11. CASE TimeIsUp
  BY <1>11 DEF TimeIsUp, timers, counts
<1>12. CASE Reconsider
  <2>1. PICK t \in Intervals(members) : rtcpTn' = Reconsidered(t)
    BY <1>12 DEF Reconsider
  <2>2. t \in Nat
    BY <2>1, IntervalsAreLong
  <2> QED
    BY <1>12, <2>1, <2>2 DEF Reconsider, Reconsidered, counts
<1>13. CASE GetOther
  BY <1>13 DEF GetOther, timers, counts
<1>14. CASE Tick
  <2>1. /\ Past(rtcpTp - 1) \in Int /\ Past(rtcpTp - 1) >= -Far
        /\ Past(rtcpTp - 1) >= rtcpTp - 1 /\ Past(rtcpTn - 1) \in Int
    BY PastIsInt
  <2>2. /\ rtcpTp' = Past(rtcpTp - 1) /\ rtcpTn' = Past(rtcpTn - 1)
        /\ quiet' = IF quiet < Far THEN quiet + 1 ELSE Far
        /\ UNCHANGED <<members, rtcpPMembers>>
    BY <1>14 DEF Tick, counts
  <2> QED
    BY <2>1, <2>2
<1>15. ASSUME NEW s \in SSRC, GetOnlyBye(s) PROVE TimesInv'
  BY <1>15, CountsStay DEF GetOnlyBye, Left, timers
<1>16. CASE UNCHANGED controlVars
  BY <1>16 DEF controlVars, timers, counts
<1>17. CASE CountOutAgain
  <2>1. members' \in 0 .. MemberMod - 1
    BY <1>17, CountedOut DEF CountOutAgain
  <2> QED
    BY <1>a, <1>17, <2>1 DEF CountOutAgain
<1>18. ASSUME NEW s \in SSRC, NEW a \in From[s], TakeInEmptyBye(s, a)
      PROVE  TimesInv'
  BY <1>18, CountsStay DEF TakeInEmptyBye, timers
<1> QED
  BY <1>1, <1>2, <1>3, <1>4, <1>5, <1>6, <1>7, <1>8, <1>9, <1>10, <1>11,
     <1>12, <1>13, <1>14, <1>15, <1>16, <1>17, <1>18
     DEF ControlNext, TakeIn, Transmission, BackOff

(* The invariant holds in every state of the service.                      *)
LEMMA TimesInvHolds == ControlSpec => []TimesInv
<1> QED
  BY TimesInvInit, TimesInvStep, PTL DEF ControlSpec

(* However many BYEs bring it forward, a report is sent half the minimal   *)
(* interval after the last one, or later (control.cpp:263-310, 543-570).   *)
THEOREM ReportsAreSpaced == ControlSpec => ReportsSpaced
<1>1. TimesInv /\ [ControlNext]_controlVars
        => [DispatchControlPacket => 2 * quiet >= MinInterval]_controlVars
  <2> SUFFICES ASSUME TimesInv, DispatchControlPacket
               PROVE  2 * quiet >= MinInterval
    OBVIOUS
  <2>1. PICK t \in Intervals(members) : Reconsidered(t) <= 0
    BY DEF DispatchControlPacket
  <2>2. t \in Nat /\ 2 * t >= MinInterval
    BY <2>1, IntervalsAreLong, RtcpConstants DEF TimesInv
  <2>3. t <= quiet
    BY <2>1, <2>2, RtcpConstants DEF Reconsidered, TimesInv
  <2> QED
    BY <2>2, <2>3, RtcpConstants DEF TimesInv
<1> QED
  BY <1>1, TimesInvHolds, PTL DEF ControlSpec, ReportsSpaced

-----------------------------------------------------------------------------
(* Division with rest is unique.                                           *)
LEMMA RestIsUnique ==
  ASSUME NEW m \in Nat \ {0}, NEW q \in Int, NEW r \in 0 .. m - 1
  PROVE  (q * m + r) % m = r
<1> DEFINE x == q * m + r
           p == x \div m
           e == x % m
<1>1. x \in Int /\ p \in Int /\ e \in 0 .. m - 1 /\ x = m * p + e
  OBVIOUS
<1>2. m * (q - p) = e - r
  BY <1>1
<1>3. CASE q - p >= 1
  <2>1. m * (q - p) >= m
    BY <1>1, <1>3
  <2> QED
    BY <1>1, <1>2, <2>1
<1>4. CASE q - p <= -1
  <2>1. m * (q - p) <= -m
    BY <1>1, <1>4
  <2> QED
    BY <1>1, <1>2, <2>1
<1>5. CASE q = p
  BY <1>1, <1>2, <1>5
<1> QED
  BY <1>1, <1>3, <1>4, <1>5

(* A counter that wraps counts one more as the number does, and one less,  *)
(* that of what was counted.                                               *)
LEMMA CountersWrap ==
  ASSUME NEW m \in Nat \ {0}, NEW c \in Int
  PROVE  /\ ((c % m) + 1) % m = (c + 1) % m
         /\ ((c % m) - 1) % m = (c - 1) % m
<1> DEFINE q == c \div m
           r == c % m
<1>1. q \in Int /\ r \in 0 .. m - 1 /\ c = q * m + r
  OBVIOUS
<1> HIDE DEF q, r
<1>2. ((c % m) + 1) % m = (c + 1) % m
  <2>1. CASE r + 1 < m
    <3>1. c + 1 = q * m + (r + 1) /\ r + 1 \in 0 .. m - 1
      BY <1>1, <2>1
    <3>2. (c + 1) % m = r + 1
      BY <1>1, <3>1, RestIsUnique
    <3>3. (0 * m + (r + 1)) % m = r + 1
      BY <3>1, RestIsUnique
    <3> QED
      BY <1>1, <3>1, <3>2, <3>3 DEF r
  <2>2. CASE r + 1 = m
    <3>1. c + 1 = (q + 1) * m + 0
      BY <1>1, <2>2
    <3>2. (c + 1) % m = 0
      BY <1>1, <3>1, RestIsUnique
    <3>3. (1 * m + 0) % m = 0
      BY RestIsUnique
    <3> QED
      BY <2>2, <3>2, <3>3 DEF r
  <2> QED
    BY <1>1, <2>1, <2>2
<1>3. ((c % m) - 1) % m = (c - 1) % m
  <2>1. CASE r > 0
    <3>1. c - 1 = q * m + (r - 1) /\ r - 1 \in 0 .. m - 1
      BY <1>1, <2>1
    <3>2. (c - 1) % m = r - 1
      BY <1>1, <3>1, RestIsUnique
    <3>3. (0 * m + (r - 1)) % m = r - 1
      BY <3>1, RestIsUnique
    <3> QED
      BY <1>1, <3>1, <3>2, <3>3 DEF r
  <2>2. CASE r = 0
    <3>1. c - 1 = (q - 1) * m + (m - 1)
      BY <1>1, <2>2
    <3>2. (c - 1) % m = m - 1
      BY <1>1, <3>1, RestIsUnique
    <3>3. ((-1) * m + (m - 1)) % m = m - 1
      BY RestIsUnique
    <3>4. (-1) * m + (m - 1) = r - 1
      BY <2>2
    <3> QED
      BY <3>2, <3>3, <3>4 DEF r
  <2> QED
    BY <1>1, <2>1, <2>2
<1> QED
  BY <1>2, <1>3

-----------------------------------------------------------------------------
(* Who has left was known, and the count is that of who has not.           *)
CountInv ==
  /\ members \in 0 .. MemberMod - 1
  /\ known \subseteq SSRC /\ gone \subseteq known
  /\ repeated \in BOOLEAN
  /\ MembersCounted

(* Registering a source and taking its BYE count what the sets do, whether *)
(* it was known before or not (members.cpp:228-295).                       *)
LEMMA SourcesAreCounted ==
  ASSUME known \subseteq SSRC, gone \subseteq known,
         members = Cardinality(known \ gone) % MemberMod,
         NEW s \in SSRC
  PROVE  /\ Registered(s) = Cardinality((known \cup {s}) \ gone) % MemberMod
         /\ s \notin gone =>
              AfterBye(Registered(s)) =
                Cardinality((known \cup {s}) \ (gone \cup {s})) % MemberMod
<1> DEFINE left == known \ gone
           c == Cardinality(left)
<1>1. IsFiniteSet(left) /\ c \in Nat
  <2>1. left \in SUBSET SSRC
    OBVIOUS
  <2>2. IsFiniteSet(left)
    BY <2>1, FS_Subset, RtcpConstants
  <2> QED
    BY <2>2, FS_CardinalityType
<1>2. members = c % MemberMod
  OBVIOUS
<1>3. CASE s \in known
  <2>1. (known \cup {s}) \ gone = left
    BY <1>3
  <2>2. ASSUME s \notin gone
        PROVE  (known \cup {s}) \ (gone \cup {s}) = left \ {s} /\ s \in left
    BY <1>3, <2>2
  <2>3. s \in left => Cardinality(left \ {s}) = c - 1
    BY <1>1, FS_RemoveElement
  <2>4. Registered(s) = c % MemberMod
    BY <1>2, <1>3 DEF Registered
  <2>5. AfterBye(Registered(s)) = (c - 1) % MemberMod
    BY <1>1, <2>4, CountersWrap, RtcpConstants DEF AfterBye
  <2> HIDE DEF left, c
  <2> QED
    BY <2>1, <2>2, <2>3, <2>4, <2>5 DEF c
<1>4. CASE s \notin known
  <2>1. (known \cup {s}) \ gone = left \cup {s} /\ s \notin left
    BY <1>4
  <2>2. (known \cup {s}) \ (gone \cup {s}) = left
    BY <1>4
  <2>3. Cardinality(left \cup {s}) = c + 1
    BY <1>1, <2>1, FS_AddElement
  <2>4. Registered(s) = (members + 1) % MemberMod
    BY <1>4 DEF Registered
  <2>5. Registered(s) = (c + 1) % MemberMod
    BY <1>1, <1>2, <2>4, CountersWrap, RtcpConstants
  <2>6. AfterBye(Registered(s)) = ((c + 1) - 1) % MemberMod
    <3>1. AfterBye(Registered(s)) = (((c + 1) % MemberMod) - 1) % MemberMod
      BY <2>5 DEF AfterBye
    <3>2. c + 1 \in Int /\ MemberMod \in Nat \ {0}
      BY <1>1, RtcpConstants
    <3> QED
      BY <3>1, <3>2, CountersWrap
  <2>7. (c + 1) - 1 = c
    BY <1>1
  <2> HIDE DEF left, c
  <2> QED
    BY <2>1, <2>2, <2>3, <2>5, <2>6, <2>7 DEF c
<1> QED
  BY <1>3, <1>4

(* At the start nobody is known.                                           *)
LEMMA CountInvInit == ControlInit => CountInv
<1> SUFFICES ASSUME ControlInit PROVE CountInv
  OBVIOUS
<1>1. known \ gone = {}
  BY DEF ControlInit
<1>2. Cardinality(known \ gone) = 0
  BY <1>1, FS_EmptySet
<1>3. 0 % MemberMod = 0
  BY RtcpConstants
<1>4. members = Cardinality(known \ gone) % MemberMod
  BY <1>2, <1>3 DEF ControlInit
<1>5. members \in 0 .. MemberMod - 1
  BY RtcpConstants DEF ControlInit
<1>7. repeated \in BOOLEAN /\ known \subseteq SSRC /\ gone \subseteq known
  BY DEF ControlInit
<1>6. MembersCounted
  BY <1>4 DEF MembersCounted
<1> QED
  BY <1>5, <1>6, <1>7, Zenon DEF CountInv

(* Every step that the count is kept in keeps it right.                    *)
LEMMA CountInvStep == CountInv /\ [ControlNext]_controlVars => CountInv'
<1> SUFFICES ASSUME CountInv, [ControlNext]_controlVars PROVE CountInv'
  OBVIOUS
<1>a. /\ members \in 0 .. MemberMod - 1
      /\ known \subseteq SSRC /\ gone \subseteq known
      /\ repeated \in BOOLEAN /\ MembersCounted
  BY DEF CountInv
<1>b. ASSUME UNCHANGED <<members, known, gone, repeated>>,
             service' \in {"loop", "checking", "transmit"}
                => service \in {"loop", "checking", "transmit"}
      PROVE  CountInv'
  BY <1>a, <1>b DEF CountInv, MembersCounted
<1>1. ASSUME NEW s \in SSRC, NEW a \in From[s], TakeInReports(s, a)
      PROVE  CountInv'
  <2>1. /\ service = "checking" /\ members' = Registered(s)
        /\ known' = known \cup {s} /\ UNCHANGED <<gone, repeated>>
    BY <1>1 DEF TakeInReports, CheckSSRCInRTCPPkt
  <2>2. members' \in 0 .. MemberMod - 1
    BY <1>a, <2>1, CountsStay
  <2>3. ~repeated => members' = Cardinality(known' \ gone') % MemberMod
    BY <1>a, <2>1, SourcesAreCounted DEF MembersCounted
  <2> QED
    BY <1>a, <2>1, <2>2, <2>3 DEF CountInv, MembersCounted
<1>2. ASSUME NEW s \in SSRC, NEW a \in From[s], TakeInBye(s, a)
      PROVE  CountInv'
  <2>1. /\ service = "checking" /\ members' = AfterBye(Registered(s))
        /\ known' = known \cup {s} /\ gone' = gone \cup {s}
        /\ repeated' = (repeated \/ s \in gone)
    BY <1>2 DEF TakeInBye, CheckSSRCInRTCPPkt, Left
  <2>2. members' \in 0 .. MemberMod - 1
    BY <1>a, <2>1, CountsStay
  <2>3. ASSUME ~repeated'
        PROVE  members' = Cardinality(known' \ gone') % MemberMod
    <3>1. ~repeated /\ s \notin gone
      BY <1>a, <2>1, <2>3
    <3> QED
      BY <1>a, <2>1, <3>1, SourcesAreCounted DEF MembersCounted
  <2>4. repeated' \in BOOLEAN /\ known' \subseteq SSRC /\ gone' \subseteq known'
    BY <1>a, <2>1
  <2> QED
    BY <2>2, <2>3, <2>4 DEF CountInv, MembersCounted
<1>3. ASSUME NEW s \in SSRC, NEW a \in From[s], TakeInByeAgain(s, a)
      PROVE  CountInv'
  BY <1>b, <1>3 DEF TakeInByeAgain, counts, placed
<1>4. CASE BeginCheck
  BY <1>b, <1>4 DEF BeginCheck, counts, placed
<1>5. CASE EndCheck
  BY <1>b, <1>5 DEF EndCheck, counts, placed
<1>6. CASE PutOff
  BY <1>b, <1>6 DEF PutOff, Transmits, counts, placed
<1>7. CASE DispatchControlPacket
  BY <1>b, <1>7 DEF DispatchControlPacket, Transmits, placed
<1>8. CASE DispatchDataPacket
  BY <1>b, <1>8 DEF DispatchDataPacket, counts, placed
<1>9. CASE Leave
  BY <1>b, <1>9 DEF Leave, counts, placed
<1>10. CASE LeaveCrowd
  <2>1. /\ service' = "backoff" /\ members' = 1
        /\ UNCHANGED <<known, gone, repeated>>
    BY <1>10 DEF LeaveCrowd, placed
  <2> QED
    BY <1>a, <2>1, RtcpConstants DEF CountInv, MembersCounted
<1>11. CASE TimeIsUp
  BY <1>b, <1>11 DEF TimeIsUp, counts, placed
<1>12. CASE Reconsider
  BY <1>b, <1>12 DEF Reconsider, counts, placed
<1>13. CASE GetOther
  BY <1>b, <1>13 DEF GetOther, counts, placed
<1>14. CASE Tick
  BY <1>b, <1>14 DEF Tick, counts, placed
<1>15. ASSUME NEW s \in SSRC, GetOnlyBye(s) PROVE CountInv'
  <2>1. /\ service' = "waiting" /\ members' = AfterBye(Registered(s))
        /\ known' = known \cup {s} /\ gone' = gone \cup {s}
        /\ repeated' = (repeated \/ s \in gone)
    BY <1>15 DEF GetOnlyBye, Left
  <2>2. members' \in 0 .. MemberMod - 1
    BY <1>a, <2>1, CountsStay
  <2>3. repeated' \in BOOLEAN /\ known' \subseteq SSRC /\ gone' \subseteq known'
    BY <1>a, <2>1
  <2> QED
    BY <2>1, <2>2, <2>3 DEF CountInv, MembersCounted
<1>16. CASE UNCHANGED controlVars
  BY <1>b, <1>16 DEF controlVars, counts, placed
<1>17. CASE CountOutAgain
  <2>1. /\ members' = AfterBye(members) /\ repeated' = TRUE
        /\ UNCHANGED <<known, gone>>
    BY <1>17 DEF CountOutAgain, placed
  <2>2. members' \in 0 .. MemberMod - 1
    BY <1>a, <2>1, CountedOut
  <2> QED
    BY <1>a, <2>1, <2>2 DEF CountInv, MembersCounted
<1>18. ASSUME NEW s \in SSRC, NEW a \in From[s], TakeInEmptyBye(s, a)
      PROVE  CountInv'
  <2>1. /\ service' = "empty" /\ members' = Registered(s)
        /\ known' = known \cup {s} /\ UNCHANGED <<gone, repeated>>
    BY <1>18 DEF TakeInEmptyBye, CheckSSRCInRTCPPkt
  <2>2. members' \in 0 .. MemberMod - 1
    BY <1>a, <2>1, CountsStay
  <2> QED
    BY <1>a, <2>1, <2>2 DEF CountInv, MembersCounted
<1> QED
  BY <1>1, <1>2, <1>3, <1>4, <1>5, <1>6, <1>7, <1>8, <1>9, <1>10, <1>11,
     <1>12, <1>13, <1>14, <1>15, <1>16, <1>17, <1>18
     DEF ControlNext, TakeIn, Transmission, BackOff

(* The intervals are computed from the number of sources that were heard of*)
(* and have not said BYE, whatever comes late, as long as no source was    *)
(* counted out twice: by a BYE that is repeated, that names several sources*)
(* or that something is behind in its compound (members.cpp:228-295,       *)
(* control.cpp:419-433, 504-540).                                          *)
THEOREM MembersAreCounted == ControlSpec => []MembersCounted
<1>1. CountInv => MembersCounted
  BY DEF CountInv
<1> QED
  BY <1>1, CountInvInit, CountInvStep, PTL DEF ControlSpec

-----------------------------------------------------------------------------
(* An interval is at most one and a half times what the most members need, *)
(* or the minimum (control.cpp:672-711).                                   *)
LEMMA IntervalsAreShort ==
  ASSUME NEW count \in 0 .. MemberMod - 1, NEW t \in Intervals(count)
  PROVE  t \in 0 .. Longest /\ Longest \in Nat
<1> DEFINE most == MemberMod - 1
           need == count * PerMember
           needs == most * PerMember
<1>1. /\ most \in Nat /\ count \in Nat /\ count <= most
      /\ PerMember \in Nat /\ MinInterval \in Nat
  BY RtcpConstants
<1> HIDE DEF most
<1>2. need \in Nat /\ needs \in Nat /\ need <= needs
  <2>1. (most - count) * PerMember \in Nat
    BY <1>1
  <2>2. needs = need + (most - count) * PerMember
    BY <1>1
  <2>3. need \in Nat
    BY <1>1
  <2> HIDE DEF need, needs
  <2> QED
    BY <2>1, <2>2, <2>3
<1> HIDE DEF need, needs
<1>3. /\ Need(count) \in Nat /\ Need(most) \in Nat /\ Need(count) <= Need(most)
  BY <1>1, <1>2 DEF Need, need, needs
<1>4. Longest = (3 * Need(most)) \div 2
  BY DEF Longest, most
<1>5. t \in Nat /\ 2 * t < 3 * Need(count)
  BY <1>3 DEF Intervals
<1> QED
  BY <1>3, <1>4, <1>5

(* A span that is scaled to fewer members gets no longer, and wraps no less*)
(* (control.cpp:543-570).                                                  *)
LEMMA ScaledIsShorter ==
  ASSUME NEW count \in Nat, rtcpPMembers \in Nat, count < rtcpPMembers,
         NEW span \in Nat
  PROVE  Scaled(span, count) \in 0 .. TimeMod - 1 /\ Scaled(span, count) <= span
<1> DEFINE all == rtcpPMembers
           a == span * count
           x == a % TimeMod
           y == x \div all
<1>1. TimeMod \in Nat \ {0} /\ all \in Nat \ {0}
  BY RtcpConstants
<1>2. a \in Nat /\ a <= span * all /\ span * all \in Nat
  <2>1. span * (all - count) \in Nat /\ span * all = a + span * (all - count)
    BY <1>1
  <2>2. a \in Nat
    BY <1>1
  <2> HIDE DEF a
  <2> QED
    BY <2>1, <2>2
<1>3. x \in 0 .. TimeMod - 1 /\ x <= a
  <2> HIDE DEF a
  <2> QED
    BY <1>1, <1>2
<1>4. y \in Nat /\ all * y <= x
  <2> HIDE DEF x
  <2> QED
    BY <1>1, <1>3
<1> HIDE DEF a, x, y
<1>5. y <= x
  <2>1. all * y >= y
    BY <1>1, <1>4
  <2> QED
    BY <1>1, <1>3, <1>4, <2>1
<1>6. y <= span
  <2> SUFFICES ASSUME y >= span + 1 PROVE FALSE
    BY <1>4
  <2>1. all * y >= all * span + all
    <3>1. all * (y - span - 1) \in Nat
      BY <1>1, <1>4
    <3>2. all * y = all * span + all + all * (y - span - 1)
      BY <1>1, <1>4
    <3> QED
      BY <1>1, <3>1, <3>2
  <2>2. all * span = span * all
    BY <1>1
  <2> QED
    BY <1>1, <1>2, <1>3, <1>4, <2>1, <2>2
<1>7. Scaled(span, count) = y
  BY DEF Scaled, x, y, a
<1> QED
  BY <1>1, <1>3, <1>4, <1>5, <1>6, <1>7

(* A reverse reconsideration brings the next report no closer to the       *)
(* future than it was, unless it was overdue.                              *)
LEMMA SpansFit ==
  ASSUME NEW t \in Int, NEW difference \in Int, NEW span \in Spans(t, difference)
  PROVE  /\ span \in Nat
         /\ t # -Far /\ difference >= 0 => span <= difference
BY RtcpConstants DEF Spans

-----------------------------------------------------------------------------
(* How the checks are put, one after the other (control.cpp:250-258).      *)
LEMMA PutTakesTurns ==
  ASSUME rtcpLastCheck \in Int, rtcpNextCheck \in Int, NEW i \in Int
  PROVE  /\ Put(2 * i) = rtcpLastCheck + (i + 1) * CheckInterval
         /\ Put(2 * i + 1) = rtcpNextCheck + (i + 1) * CheckInterval
<1>1. (2 * i) % 2 = 0 /\ (2 * i) \div 2 = i
  OBVIOUS
<1>2. (2 * i + 1) % 2 = 1 /\ (2 * i + 1 + 1) \div 2 = i + 1
  OBVIOUS
<1> QED
  BY <1>1, <1>2 DEF Put

(* The first multiple of the interval that is in the future.               *)
LEMMA FirstAfter ==
  ASSUME NEW t \in -Far .. 0
  PROVE  \E m \in 0 .. Far : /\ t + (m + 1) * CheckInterval > 0
                             /\ \A i \in 0 .. m - 1 :
                                  t + (i + 1) * CheckInterval <= 0
<1> DEFINE every == CheckInterval
           m == (-t) \div every
<1>1. every \in Nat \ {0} /\ t \in Int /\ Far \in Nat /\ -t \in 0 .. Far
  BY RtcpConstants
<1>2. m \in Nat /\ every * m <= -t /\ -t < every * m + every
  BY <1>1
<1> HIDE DEF m
<1>3. (m + 1) * every = every * m + every
  BY <1>1, <1>2
<1>4. every * m >= m
  BY <1>1, <1>2
<1>5. ASSUME NEW i \in 0 .. m - 1
      PROVE  t + (i + 1) * every <= 0
  <2>1. (m - (i + 1)) * every \in Nat
    BY <1>1, <1>2
  <2>2. (i + 1) * every + (m - (i + 1)) * every = every * m
    BY <1>1, <1>2
  <2>3. (i + 1) * every \in Int
    BY <1>1, <1>2
  <2> QED
    BY <1>1, <1>2, <2>1, <2>2, <2>3
<1>6. m \in 0 .. Far /\ t + (m + 1) * every > 0
  BY <1>1, <1>2, <1>3, <1>4
<1> QED
  BY <1>5, <1>6

(* A check that is over puts the next one into the future, by no more than *)
(* one interval, and the last one behind (control.cpp:250-258).            *)
LEMMA ChecksAreNear ==
  ASSUME rtcpLastCheck \in -Far .. 0, rtcpNextCheck \in -Far .. 0
  PROVE  /\ Put(Puts) \in 1 .. CheckInterval
         /\ Put(Puts - 1) \in -Far .. 0
<1> DEFINE last == rtcpLastCheck
           nxt == rtcpNextCheck
           Ends(k) == Put(k) > 0 /\ \A j \in 0 .. k - 1 : Put(j) <= 0
<1>1. /\ CheckInterval \in Nat \ {0} /\ Far \in Nat
      /\ last \in Int /\ last >= -Far /\ last <= 0
      /\ nxt \in Int /\ nxt >= -Far /\ nxt <= 0
  BY RtcpConstants
<1>2. PICK m \in 0 .. Far :
        /\ last + (m + 1) * CheckInterval > 0
        /\ \A i \in 0 .. m - 1 : last + (i + 1) * CheckInterval <= 0
  BY FirstAfter
<1>3. PICK n \in 0 .. Far :
        /\ nxt + (n + 1) * CheckInterval > 0
        /\ \A i \in 0 .. n - 1 : nxt + (i + 1) * CheckInterval <= 0
  BY FirstAfter
<1>4. \A i \in Int : /\ Put(2 * i) = last + (i + 1) * CheckInterval
                     /\ Put(2 * i + 1) = nxt + (i + 1) * CheckInterval
  BY <1>1, PutTakesTurns
<1>5. \A j \in Int : \E i \in Int : j = 2 * i \/ j = 2 * i + 1
  <2> TAKE j \in Int
  <2>1. j \div 2 \in Int /\ (j = 2 * (j \div 2) \/ j = 2 * (j \div 2) + 1)
    OBVIOUS
  <2> QED
    BY <2>1
<1> DEFINE first == IF 2 * m < 2 * n + 1 THEN 2 * m ELSE 2 * n + 1
<1>6. first \in 0 .. 2 * Far + 2 /\ Ends(first)
  <2>1. /\ first \in 0 .. 2 * Far + 2 /\ first <= 2 * m /\ first <= 2 * n + 1
        /\ first = 2 * m \/ first = 2 * n + 1
    BY <1>1
  <2> HIDE DEF first
  <2>2. Put(first) > 0
    BY <1>2, <1>3, <1>4, <2>1
  <2>3. ASSUME NEW j \in 0 .. first - 1 PROVE Put(j) <= 0
    <3>0. j \in Int
      BY <2>1
    <3>1. PICK i \in Int : j = 2 * i \/ j = 2 * i + 1
      BY <1>5, <3>0
    <3>2. CASE j = 2 * i
      <4>1. i \in 0 .. m - 1
        BY <2>1, <3>2
      <4> QED
        BY <1>2, <1>4, <3>2, <4>1
    <3>3. CASE j = 2 * i + 1
      <4>1. i \in 0 .. n - 1
        BY <2>1, <3>3
      <4> QED
        BY <1>3, <1>4, <3>3, <4>1
    <3> QED
      BY <3>1, <3>2, <3>3
  <2> QED
    BY <2>1, <2>2, <2>3
<1> HIDE DEF first
<1>7. Puts \in 0 .. 2 * Far + 2 /\ Put(Puts) > 0 /\ \A j \in 0 .. Puts - 1 : Put(j) <= 0
  BY <1>6 DEF Puts
<1> DEFINE k == Puts
<1> HIDE DEF k
<1>8. k \in Nat /\ Put(k) > 0 /\ \A j \in 0 .. k - 1 : Put(j) <= 0
  BY <1>1, <1>7 DEF k
<1>9. PICK i \in Int : k = 2 * i \/ k = 2 * i + 1
  BY <1>8, <1>5
<1>10. i \in Nat
  BY <1>8, <1>9
<1>11. /\ (i + 1) * CheckInterval = i * CheckInterval + CheckInterval
       /\ i * CheckInterval \in Nat /\ (i + 1) * CheckInterval \in Nat
       /\ i - 1 + 1 = i
  BY <1>1, <1>10
<1>12. /\ Put(2 * i) = last + (i + 1) * CheckInterval
       /\ Put(2 * i + 1) = nxt + (i + 1) * CheckInterval
       /\ Put(2 * (i - 1)) = last + i * CheckInterval
       /\ Put(2 * (i - 1) + 1) = nxt + i * CheckInterval
  <2>1. /\ Put(2 * (i - 1)) = last + (i - 1 + 1) * CheckInterval
        /\ Put(2 * (i - 1) + 1) = nxt + (i - 1 + 1) * CheckInterval
    <3>1. i - 1 \in Int
      OBVIOUS
    <3> QED
      BY <1>4, <3>1
  <2> QED
    BY <1>4, <1>11, <2>1
<1>13. (i = 0 => i * CheckInterval = 0) /\ (i # 0 => i >= 1)
  BY <1>1, <1>10
<1> DEFINE c == i * CheckInterval
<1>14. c \in Nat /\ (i + 1) * CheckInterval = c + CheckInterval
  BY <1>11
<1>15. /\ Put(2 * i) = last + c + CheckInterval
       /\ Put(2 * i + 1) = nxt + c + CheckInterval
       /\ Put(2 * (i - 1)) = last + c
       /\ Put(2 * (i - 1) + 1) = nxt + c
       /\ i = 0 => c = 0
  BY <1>1, <1>12, <1>13, <1>14
<1> HIDE DEF c
<1>16. CASE k = 2 * i
  <2>1. k - 1 = 2 * (i - 1) + 1
    BY <1>10, <1>16
  <2>2. nxt + c <= 0 /\ last + c <= 0
    <3>1. CASE i = 0
      BY <1>1, <1>15, <3>1
    <3>2. CASE i # 0
      <4>1. 2 * (i - 1) \in 0 .. k - 1 /\ 2 * (i - 1) + 1 \in 0 .. k - 1
        BY <1>10, <1>13, <1>16, <3>2
      <4> QED
        BY <1>8, <1>15, <4>1
    <3> QED
      BY <3>1, <3>2
  <2>3. Put(k) = last + c + CheckInterval /\ Put(k - 1) = nxt + c
    BY <1>15, <1>16, <2>1
  <2>4. Put(k) \in 1 .. CheckInterval /\ Put(k - 1) \in -Far .. 0
    BY <1>1, <1>8, <1>14, <2>2, <2>3
  <2> QED
    BY <2>4 DEF k
<1>17. CASE k = 2 * i + 1
  <2>1. k - 1 = 2 * i /\ 2 * i \in 0 .. k - 1
    BY <1>10, <1>17
  <2>2. last + c + CheckInterval <= 0
    BY <1>8, <1>15, <2>1
  <2>3. nxt + c <= 0
    <3>1. CASE i = 0
      BY <1>1, <1>15, <3>1
    <3>2. CASE i # 0
      <4>1. 2 * (i - 1) + 1 \in 0 .. k - 1
        BY <1>10, <1>13, <1>17, <3>2
      <4> QED
        BY <1>8, <1>15, <4>1
    <3> QED
      BY <3>1, <3>2
  <2>4. Put(k) = nxt + c + CheckInterval /\ Put(k - 1) = last + c + CheckInterval
    BY <1>15, <1>17, <2>1
  <2>5. Put(k) \in 1 .. CheckInterval /\ Put(k - 1) \in -Far .. 0
    BY <1>1, <1>8, <1>14, <2>2, <2>3, <2>4
  <2> QED
    BY <2>5 DEF k
<1> QED
  BY <1>9, <1>16, <1>17

-----------------------------------------------------------------------------
(* The sources that control packets come from have an address, as long as  *)
(* the session counts them.                                                *)
TableInv ==
  /\ known \subseteq SSRC /\ gone \subseteq known /\ conflictList \subseteq Host
  /\ address \in [SSRC -> Host \cup {NoHost}]
  /\ prevConflict \in [SSRC -> Host \cup {NoHost}]
  /\ service \in {"loop", "checking", "leaving", "transmit"} =>
       \A s \in known : address[s] \in Host

(* The timers are within their intervals, a check begins behind its time,  *)
(* and a BYE that is still counted has a source to be counted out.         *)
NearInv ==
  /\ service \in {"loop", "checking", "leaving", "transmit", "stuck", "empty",
                  "backoff", "waiting", "reconsider", "ended"}
  /\ byes \in 0 .. MaxByes - 1 /\ (service = "leaving" => byes > 0)
  /\ members \in 0 .. MemberMod - 1 /\ rtcpPMembers \in 0 .. MemberMod - 1
  /\ rtcpTp \in -Far .. TimeMod - 1
  /\ rtcpTn \in -Far .. TimeMod + Longest
  /\ rtcpLastCheck \in -Far .. 0 /\ rtcpNextCheck \in -Far .. CheckInterval
  /\ service \in {"checking", "leaving"} => rtcpNextCheck <= 0
  /\ quiet \in 0 .. Far /\ {sent, repeated, overdue} \subseteq BOOLEAN
  /\ ~overdue => rtcpTn <= Longest + (IF rtcpTp > 0 THEN rtcpTp ELSE 0)

(* A packet's source gets its address in the table, and a collision is     *)
(* recorded with the one it had (members.cpp:228-295, control.cpp:174-238).*)
LEMMA CheckKeepsTable ==
  ASSUME TableInv, service \in {"loop", "checking", "leaving", "transmit"},
         NEW s \in SSRC, NEW a \in From[s], CheckSSRCInRTCPPkt(s, a)
  PROVE  /\ known' \subseteq SSRC /\ known \subseteq known' /\ s \in known'
         /\ conflictList' \subseteq Host
         /\ address' \in [SSRC -> Host \cup {NoHost}]
         /\ prevConflict' \in [SSRC -> Host \cup {NoHost}]
         /\ \A u \in known' : address'[u] \in Host
<1>1. /\ known \subseteq SSRC /\ conflictList \subseteq Host
      /\ address \in [SSRC -> Host \cup {NoHost}]
      /\ prevConflict \in [SSRC -> Host \cup {NoHost}]
      /\ \A u \in known : address[u] \in Host
  BY DEF TableInv
<1>2. a \in Host
  BY DEF Host
<1>3. known' = known \cup {s}
  BY DEF CheckSSRCInRTCPPkt
<1>4. address' \in [SSRC -> Host \cup {NoHost}]
  BY <1>1, <1>2 DEF CheckSSRCInRTCPPkt
<1>5. prevConflict' \in [SSRC -> Host \cup {NoHost}]
  BY <1>1, <1>2 DEF CheckSSRCInRTCPPkt
<1>6. conflictList' \subseteq Host
  <2>1. CASE Moves(s, a) /\ s = OwnSSRC
    <3>1. s \in known
      BY <2>1 DEF Moves, Located
    <3> QED
      BY <1>1, <2>1, <3>1 DEF CheckSSRCInRTCPPkt
  <2>2. CASE ~(Moves(s, a) /\ s = OwnSSRC)
    BY <1>1, <2>2 DEF CheckSSRCInRTCPPkt
  <2> QED
    BY <2>1, <2>2
<1>7. ASSUME NEW u \in known' PROVE address'[u] \in Host
  <2>1. CASE Checked(s, a)
    <3>1. address' = [address EXCEPT ![s] = a]
      BY <2>1 DEF CheckSSRCInRTCPPkt
    <3> QED
      BY <1>1, <1>2, <1>3, <3>1
  <2>2. CASE ~Checked(s, a)
    <3>1. address' = address /\ s \in known
      BY <2>2 DEF CheckSSRCInRTCPPkt, Checked, Located
    <3> QED
      BY <1>1, <1>3, <3>1
  <2> QED
    BY <2>1, <2>2
<1> QED
  BY <1>1, <1>3, <1>4, <1>5, <1>6, <1>7

LEMMA TableInvStep == TableInv /\ [ControlNext]_controlVars => TableInv'
<1> SUFFICES ASSUME TableInv, [ControlNext]_controlVars PROVE TableInv'
  OBVIOUS
<1>a. ASSUME UNCHANGED <<known, gone, conflictList, address, prevConflict>>,
             service' \in {"loop", "checking", "leaving", "transmit"}
                => service \in {"loop", "checking", "leaving", "transmit"}
      PROVE  TableInv'
  BY <1>a DEF TableInv
<1>1. ASSUME NEW s \in SSRC, NEW a \in From[s], TakeInReports(s, a)
      PROVE  TableInv'
  <2>1. /\ service \in {"loop", "checking", "leaving", "transmit"}
        /\ CheckSSRCInRTCPPkt(s, a) /\ gone' = gone
    BY <1>1 DEF TakeInReports
  <2>2. gone' \subseteq known'
    BY <2>1, CheckKeepsTable DEF TableInv
  <2> QED
    BY <2>1, <2>2, CheckKeepsTable DEF TableInv
<1>2. ASSUME NEW s \in SSRC, NEW a \in From[s], TakeInBye(s, a)
      PROVE  TableInv'
  <2>1. /\ service \in {"loop", "checking", "leaving", "transmit"}
        /\ CheckSSRCInRTCPPkt(s, a) /\ gone' = gone \cup {s}
    BY <1>2 DEF TakeInBye, Left
  <2>2. gone' \subseteq known'
    BY <2>1, CheckKeepsTable DEF TableInv
  <2> QED
    BY <2>1, <2>2, CheckKeepsTable DEF TableInv
<1>3. ASSUME NEW s \in SSRC, NEW a \in From[s], TakeInByeAgain(s, a)
      PROVE  TableInv'
  BY <1>a, <1>3 DEF TakeInByeAgain, counts, placed
<1>4. CASE BeginCheck
  BY <1>a, <1>4 DEF BeginCheck, counts, placed
<1>5. CASE EndCheck
  BY <1>a, <1>5 DEF EndCheck, counts, placed
<1>6. CASE PutOff
  BY <1>a, <1>6 DEF PutOff, Transmits, counts, placed
<1>7. CASE DispatchControlPacket
  BY <1>a, <1>7 DEF DispatchControlPacket, Transmits, placed
<1>8. CASE DispatchDataPacket
  BY <1>a, <1>8 DEF DispatchDataPacket, counts, placed
<1>9. CASE Leave
  BY <1>a, <1>9 DEF Leave, counts, placed
<1>10. CASE LeaveCrowd
  BY <1>a, <1>10 DEF LeaveCrowd, placed
<1>11. CASE TimeIsUp
  BY <1>a, <1>11 DEF TimeIsUp, counts, placed
<1>12. CASE Reconsider
  BY <1>a, <1>12 DEF Reconsider, counts, placed
<1>13. CASE GetOther
  BY <1>a, <1>13 DEF GetOther, counts, placed
<1>14. CASE Tick
  BY <1>a, <1>14 DEF Tick, counts, placed
<1>15. ASSUME NEW s \in SSRC, GetOnlyBye(s) PROVE TableInv'
  <2>1. /\ service' = "waiting" /\ known' = known \cup {s} /\ gone' = gone \cup {s}
        /\ UNCHANGED <<address, prevConflict, conflictList>>
    BY <1>15 DEF GetOnlyBye, Left
  <2> QED
    BY <2>1 DEF TableInv
<1>16. CASE UNCHANGED controlVars
  BY <1>a, <1>16 DEF controlVars, counts, placed
<1>17. CASE CountOutAgain
  BY <1>a, <1>17 DEF CountOutAgain, placed
<1>18. ASSUME NEW s \in SSRC, NEW a \in From[s], TakeInEmptyBye(s, a)
      PROVE  TableInv'
  <2>1. /\ service \in {"loop", "checking", "leaving", "transmit"}
        /\ CheckSSRCInRTCPPkt(s, a) /\ gone' = gone
    BY <1>18 DEF TakeInEmptyBye
  <2>2. gone' \subseteq known'
    BY <2>1, CheckKeepsTable DEF TableInv
  <2> QED
    BY <2>1, <2>2, CheckKeepsTable DEF TableInv
<1> QED
  BY <1>1, <1>2, <1>3, <1>4, <1>5, <1>6, <1>7, <1>8, <1>9, <1>10, <1>11,
     <1>12, <1>13, <1>14, <1>15, <1>16, <1>17, <1>18
     DEF ControlNext, TakeIn, Transmission, BackOff

(* A BYE brings the next report forward, unless it was overdue.            *)
LEMMA ByeKeepsNear ==
  ASSUME NearInv, NEW count \in 0 .. MemberMod - 1, ReverseReconsideration(count)
  PROVE  /\ rtcpPMembers' = count
         /\ rtcpTp' \in -Far .. TimeMod - 1
         /\ rtcpTn' \in -Far .. TimeMod + Longest
         /\ overdue' \in BOOLEAN
         /\ ~overdue' => rtcpTn' <= Longest + (IF rtcpTp' > 0 THEN rtcpTp' ELSE 0)
<1>1. /\ rtcpPMembers \in 0 .. MemberMod - 1
      /\ rtcpTp \in -Far .. TimeMod - 1 /\ rtcpTn \in -Far .. TimeMod + Longest
      /\ overdue \in BOOLEAN
      /\ ~overdue => rtcpTn <= Longest + (IF rtcpTp > 0 THEN rtcpTp ELSE 0)
      /\ rtcpPMembers' = count
  BY DEF NearInv, ReverseReconsideration
<1>2. CASE ~(count < rtcpPMembers)
  <2>1. UNCHANGED <<rtcpTp, rtcpTn, overdue>>
    BY <1>2 DEF ReverseReconsideration
  <2> QED
    BY <1>1, <2>1
<1>3. CASE count < rtcpPMembers
  <2>1. PICK span \in Spans(rtcpTn, rtcpTn) : rtcpTn' = Scaled(span, count)
    BY <1>3 DEF ReverseReconsideration
  <2>2. PICK past \in Spans(rtcpTp, -rtcpTp) : rtcpTp' = Scaled(past, count)
    BY <1>3 DEF ReverseReconsideration
  <2>3. /\ Far \in Nat \ {0} /\ TimeMod \in Nat \ {0} /\ Longest \in Nat
        /\ count \in Nat /\ rtcpPMembers \in Nat
        /\ rtcpTp \in Int /\ -rtcpTp \in Int /\ rtcpTn \in Int
    <3>1. Longest \in Nat
      <4>1. (MemberMod - 1) * PerMember \in Nat
        BY RtcpConstants
      <4> QED
        BY <4>1, RtcpConstants DEF Longest, Need
    <3> QED
      BY <1>1, <3>1, RtcpConstants
  <2>4. span \in Nat /\ (rtcpTn # -Far /\ rtcpTn >= 0 => span <= rtcpTn)
    BY <2>1, <2>3, SpansFit
  <2>5. past \in Nat
    BY <2>2, <2>3, SpansFit
  <2>6. rtcpTn' \in 0 .. TimeMod - 1 /\ rtcpTn' <= span
    BY <1>3, <2>1, <2>3, <2>4, ScaledIsShorter
  <2>7. rtcpTp' \in 0 .. TimeMod - 1
    BY <1>3, <2>2, <2>3, <2>5, ScaledIsShorter
  <2>8. overdue' = (overdue \/ rtcpTn < 0 \/ rtcpTp > 0)
    BY <1>3 DEF ReverseReconsideration
  <2>9. ASSUME ~overdue' PROVE rtcpTn' <= Longest + (IF rtcpTp' > 0 THEN rtcpTp' ELSE 0)
    <3>0. ~overdue /\ ~(rtcpTn < 0) /\ ~(rtcpTp > 0)
      BY <2>8, <2>9, Zenon
    <3>1. ~overdue /\ rtcpTn >= 0 /\ ~(rtcpTp > 0)
      BY <2>3, <3>0
    <3>2. rtcpTn <= Longest
      BY <1>1, <2>3, <3>1
    <3>3. rtcpTn' <= Longest
      BY <2>3, <2>4, <2>6, <3>1, <3>2
    <3> DEFINE later == IF rtcpTp' > 0 THEN rtcpTp' ELSE 0
    <3>4. later \in Nat /\ rtcpTn' \in Int
      BY <2>3, <2>6, <2>7
    <3> HIDE DEF later
    <3>5. rtcpTn' <= Longest + later
      BY <2>3, <3>3, <3>4
    <3> QED
      BY <3>5 DEF later
  <2>10. overdue' \in BOOLEAN
    BY <2>8
  <2>11. rtcpTp' \in -Far .. TimeMod - 1 /\ rtcpTn' \in -Far .. TimeMod + Longest
    BY <2>3, <2>6, <2>7
  <2> QED
    BY <1>1, <2>9, <2>10, <2>11
<1> QED
  BY <1>2, <1>3

LEMMA NearInvStep == NearInv /\ [ControlNext]_controlVars => NearInv'
<1> SUFFICES ASSUME NearInv, [ControlNext]_controlVars PROVE NearInv'
  OBVIOUS
<1> DEFINE Services == {"loop", "checking", "leaving", "transmit", "stuck",
                        "empty", "backoff", "waiting", "reconsider", "ended"}
<1>a. /\ service \in Services
      /\ members \in 0 .. MemberMod - 1 /\ rtcpPMembers \in 0 .. MemberMod - 1
      /\ rtcpTp \in -Far .. TimeMod - 1 /\ rtcpTn \in -Far .. TimeMod + Longest
      /\ rtcpLastCheck \in -Far .. 0 /\ rtcpNextCheck \in -Far .. CheckInterval
      /\ service \in {"checking", "leaving"} => rtcpNextCheck <= 0
      /\ byes \in 0 .. MaxByes - 1 /\ (service = "leaving" => byes > 0)
      /\ quiet \in 0 .. Far
      /\ sent \in BOOLEAN /\ repeated \in BOOLEAN /\ overdue \in BOOLEAN
      /\ ~overdue => rtcpTn <= Longest + (IF rtcpTp > 0 THEN rtcpTp ELSE 0)
  BY DEF NearInv
<1>b. /\ Far \in Nat \ {0} /\ TimeMod \in Nat \ {0} /\ MemberMod \in Nat \ {0, 1}
      /\ CheckInterval \in Nat \ {0} /\ Longest \in Nat
  <2>1. (MemberMod - 1) * PerMember \in Nat
    BY RtcpConstants
  <2> QED
    BY <2>1, RtcpConstants DEF Longest, Need
<1>c. ASSUME UNCHANGED <<timers, byes>>, service' \in Services,
             service' = "checking" => service = "checking" \/ rtcpNextCheck <= 0,
             service' = "leaving" => service = "leaving",
             members' \in 0 .. MemberMod - 1, rtcpPMembers' = rtcpPMembers,
             sent' \in BOOLEAN, repeated' \in BOOLEAN
      PROVE  NearInv'
  BY <1>a, <1>c DEF NearInv, timers
<1>1. ASSUME NEW s \in SSRC, NEW a \in From[s], TakeInReports(s, a)
      PROVE  NearInv'
  <2>1. /\ members' = Registered(s) /\ service' = service /\ sent' = sent
        /\ repeated' = repeated /\ rtcpPMembers' = rtcpPMembers
        /\ UNCHANGED <<timers, byes>>
    BY <1>1 DEF TakeInReports
  <2>2. members' \in 0 .. MemberMod - 1
    BY <1>a, <2>1, CountsStay
  <2> QED
    BY <1>a, <1>c, <2>1, <2>2
(* Reports are brought forward for the members there are now.              *)
<1>f. ASSUME members' \in 0 .. MemberMod - 1, ReverseReconsideration(members'),
             repeated' \in BOOLEAN, service \in {"checking", "leaving"},
             byes' \in 0 .. MaxByes - 1,
             service' = IF byes' > 0 THEN "leaving" ELSE "checking",
             UNCHANGED <<sent, rtcpLastCheck, rtcpNextCheck, quiet>>
      PROVE  NearInv'
  <2> DEFINE count == members'
  <2>1. count \in 0 .. MemberMod - 1 /\ ReverseReconsideration(count)
    BY <1>f
  <2> HIDE DEF count
  <2>2. /\ rtcpPMembers' = count
        /\ rtcpTp' \in -Far .. TimeMod - 1
        /\ rtcpTn' \in -Far .. TimeMod + Longest
        /\ overdue' \in BOOLEAN
        /\ ~overdue' => rtcpTn' <= Longest + (IF rtcpTp' > 0 THEN rtcpTp' ELSE 0)
    BY <2>1, ByeKeepsNear
  <2>3. rtcpPMembers' \in 0 .. MemberMod - 1
    BY <2>1, <2>2
  <2>4. service' \in Services /\ (service' = "leaving" => byes' > 0)
    BY <1>f
  <2>5. /\ rtcpLastCheck' \in -Far .. 0 /\ rtcpNextCheck' \in -Far .. CheckInterval
        /\ rtcpNextCheck' <= 0 /\ quiet' \in 0 .. Far
        /\ {sent', repeated', overdue'} \subseteq BOOLEAN
    BY <1>a, <1>f, <2>2
  <2> QED
    BY <1>f, <2>2, <2>3, <2>4, <2>5 DEF NearInv
<1>2. ASSUME NEW s \in SSRC, NEW a \in From[s], TakeInBye(s, a)
      PROVE  NearInv'
  <2>1. /\ members' = AfterBye(Registered(s)) /\ ReverseReconsideration(members')
        /\ repeated' = (repeated \/ s \in gone) /\ service = "checking"
        /\ byes' \in 0 .. MaxByes - 1
        /\ service' = IF byes' > 0 THEN "leaving" ELSE "checking"
        /\ UNCHANGED <<sent, rtcpLastCheck, rtcpNextCheck, quiet>>
    BY <1>2 DEF TakeInBye, Left
  <2>2. members' \in 0 .. MemberMod - 1 /\ repeated' \in BOOLEAN
    BY <1>a, <2>1, CountsStay
  <2> QED
    BY <1>f, <2>1, <2>2
<1>3. ASSUME NEW s \in SSRC, NEW a \in From[s], TakeInByeAgain(s, a)
      PROVE  NearInv'
  BY <1>a, <1>c, <1>3 DEF TakeInByeAgain, counts
<1>4. CASE BeginCheck
  BY <1>a, <1>c, <1>4 DEF BeginCheck, counts
<1>5. CASE EndCheck
  <2>1. /\ rtcpNextCheck' = Put(Puts) /\ rtcpLastCheck' = Put(Puts - 1)
        /\ service' \in {"transmit", "loop"}
        /\ UNCHANGED <<sent, members, rtcpPMembers, byes, repeated, rtcpTp,
                       rtcpTn, quiet, overdue>>
    BY <1>5 DEF EndCheck, counts
  <2>2. rtcpLastCheck \in -Far .. 0 /\ rtcpNextCheck \in -Far .. 0
    BY <1>a, <1>b, <1>5 DEF EndCheck
  <2> DEFINE put == Put(Puts)
             before == Put(Puts - 1)
  <2>3. put \in 1 .. CheckInterval /\ before \in -Far .. 0
    BY <2>2, ChecksAreNear
  <2>4. rtcpNextCheck' = put /\ rtcpLastCheck' = before
    BY <2>1
  <2> HIDE DEF put, before
  <2>5. rtcpNextCheck' \in -Far .. CheckInterval /\ rtcpLastCheck' \in -Far .. 0
    BY <1>b, <2>3, <2>4
  <2> QED
    BY <1>a, <2>1, <2>5 DEF NearInv
(* What is put off is put off from the last report.                        *)
<1>d. ASSUME NEW t \in Intervals(members)
      PROVE  /\ Reconsidered(t) \in -Far .. TimeMod + Longest
             /\ Reconsidered(t) <= Longest + (IF rtcpTp > 0 THEN rtcpTp ELSE 0)
  <2>1. t \in 0 .. Longest
    BY <1>a, <1>d, IntervalsAreShort
  <2> QED
    BY <1>a, <1>b, <2>1 DEF Reconsidered
<1>6. CASE PutOff
  <2>1. PICK t \in Intervals(members) : rtcpTn' = Reconsidered(t)
    BY <1>6 DEF PutOff
  <2>2. /\ service' = "loop"
        /\ UNCHANGED <<sent, members, rtcpPMembers, byes, repeated, rtcpTp,
                       rtcpLastCheck, rtcpNextCheck, quiet, overdue>>
    BY <1>6 DEF PutOff, Transmits, counts
  <2>3. /\ rtcpTn' \in -Far .. TimeMod + Longest
        /\ rtcpTn' <= Longest + (IF rtcpTp > 0 THEN rtcpTp ELSE 0)
    BY <1>d, <2>1
  <2> QED
    BY <1>a, <2>2, <2>3 DEF NearInv
<1>e. ASSUME NEW count \in 0 .. MemberMod - 1, NEW t \in Intervals(count)
      PROVE  t \in -Far .. TimeMod + Longest /\ t <= Longest
  <2>1. t \in 0 .. Longest
    BY <1>e, IntervalsAreShort
  <2> QED
    BY <1>b, <2>1
<1>7. CASE DispatchControlPacket
  <2>1. /\ service' = "loop" /\ rtcpTn' \in Intervals(members)
        /\ rtcpTp' = 0 /\ rtcpLastCheck' = 0 /\ rtcpPMembers' = members
        /\ sent' = TRUE /\ quiet' = 0 /\ overdue' = FALSE
        /\ UNCHANGED <<members, byes, repeated, rtcpNextCheck>>
    BY <1>7 DEF DispatchControlPacket, Transmits
  <2>2. rtcpTn' \in -Far .. TimeMod + Longest /\ rtcpTn' <= Longest
    BY <1>a, <1>e, <2>1
  <2>3. /\ 0 \in -Far .. TimeMod - 1 /\ 0 \in -Far .. 0 /\ 0 \in 0 .. Far
        /\ Longest + 0 = Longest
    BY <1>b
  <2> QED
    BY <1>a, <2>1, <2>2, <2>3 DEF NearInv
<1>8. CASE DispatchDataPacket
  BY <1>a, <1>c, <1>8 DEF DispatchDataPacket, counts
<1>9. CASE Leave
  BY <1>a, <1>c, <1>9 DEF Leave, counts
<1>10. CASE LeaveCrowd
  <2>1. /\ service' = "backoff" /\ members' = 1 /\ rtcpPMembers' = 1
        /\ rtcpTp' = 0 /\ rtcpTn' \in Intervals(1) /\ overdue' = FALSE
        /\ UNCHANGED <<sent, byes, repeated, rtcpLastCheck, rtcpNextCheck, quiet>>
    BY <1>10 DEF LeaveCrowd
  <2>2. 1 \in 0 .. MemberMod - 1 /\ 0 \in -Far .. TimeMod - 1 /\ Longest + 0 = Longest
    BY <1>b
  <2>3. rtcpTn' \in -Far .. TimeMod + Longest /\ rtcpTn' <= Longest
    BY <1>e, <2>1, <2>2
  <2> QED
    BY <1>a, <2>1, <2>2, <2>3 DEF NearInv
<1>11. CASE TimeIsUp
  BY <1>a, <1>c, <1>11 DEF TimeIsUp, counts
<1>12. CASE Reconsider
  <2>1. PICK t \in Intervals(members) : rtcpTn' = Reconsidered(t)
    BY <1>12 DEF Reconsider
  <2>2. /\ service' \in {"ended", "backoff"}
        /\ UNCHANGED <<sent, members, rtcpPMembers, byes, repeated, rtcpTp,
                       rtcpLastCheck, rtcpNextCheck, quiet, overdue>>
    BY <1>12 DEF Reconsider, counts
  <2>3. /\ rtcpTn' \in -Far .. TimeMod + Longest
        /\ rtcpTn' <= Longest + (IF rtcpTp > 0 THEN rtcpTp ELSE 0)
    BY <1>d, <2>1
  <2> QED
    BY <1>a, <2>2, <2>3 DEF NearInv
<1>13. CASE GetOther
  BY <1>a, <1>c, <1>13 DEF GetOther, counts
<1>14. CASE Tick
  <2>1. /\ service \in {"loop", "backoff", "waiting", "reconsider"}
        /\ rtcpTp' = Past(rtcpTp - 1) /\ rtcpTn' = Past(rtcpTn - 1)
        /\ rtcpLastCheck' = Past(rtcpLastCheck - 1)
        /\ rtcpNextCheck' = Past(rtcpNextCheck - 1)
        /\ quiet' = IF quiet < Far THEN quiet + 1 ELSE Far
        /\ UNCHANGED <<service, sent, members, rtcpPMembers, byes, repeated, overdue>>
    BY <1>14 DEF Tick, counts
  <2>2. /\ rtcpTp' \in -Far .. TimeMod - 1 /\ rtcpTn' \in -Far .. TimeMod + Longest
        /\ rtcpLastCheck' \in -Far .. 0 /\ rtcpNextCheck' \in -Far .. CheckInterval
        /\ quiet' \in 0 .. Far
    BY <1>a, <1>b, <2>1 DEF Past
  <2>3. ASSUME ~overdue
        PROVE  rtcpTn' <= Longest + (IF rtcpTp' > 0 THEN rtcpTp' ELSE 0)
    <3>1. /\ rtcpTn <= Longest + (IF rtcpTp > 0 THEN rtcpTp ELSE 0)
          /\ rtcpTp \in Int /\ rtcpTn \in Int
      BY <1>a, <1>b, <2>3
    <3>2. rtcpTn' = Past(rtcpTn - 1) /\ rtcpTp' = Past(rtcpTp - 1)
      BY <2>1
    <3> QED
      BY <1>b, <3>1, <3>2 DEF Past
  <2> QED
    BY <1>a, <2>1, <2>2, <2>3 DEF NearInv
<1>15. ASSUME NEW s \in SSRC, GetOnlyBye(s) PROVE NearInv'
  <2>1. /\ members' = AfterBye(Registered(s)) /\ service' = "waiting" /\ sent' = sent
        /\ repeated' = (repeated \/ s \in gone) /\ rtcpPMembers' = rtcpPMembers
        /\ UNCHANGED <<timers, byes>>
    BY <1>15 DEF GetOnlyBye, Left
  <2>2. members' \in 0 .. MemberMod - 1 /\ repeated' \in BOOLEAN
    BY <1>a, <2>1, CountsStay
  <2> QED
    BY <1>a, <1>c, <2>1, <2>2
<1>16. CASE UNCHANGED controlVars
  BY <1>a, <1>c, <1>16 DEF controlVars, counts
<1>17. CASE CountOutAgain
  <2>1. /\ members' = AfterBye(members) /\ ReverseReconsideration(members')
        /\ repeated' = TRUE /\ service = "leaving" /\ byes' = byes - 1
        /\ service' = IF byes' > 0 THEN "leaving" ELSE "checking"
        /\ UNCHANGED <<sent, rtcpLastCheck, rtcpNextCheck, quiet>>
    BY <1>17 DEF CountOutAgain
  <2>2. members' \in 0 .. MemberMod - 1 /\ repeated' \in BOOLEAN
    BY <1>a, <2>1, CountedOut
  <2>3. byes' \in 0 .. MaxByes - 1
    BY <1>a, <2>1, RtcpConstants
  <2> QED
    BY <1>f, <2>1, <2>2, <2>3
<1>18. ASSUME NEW s \in SSRC, NEW a \in From[s], TakeInEmptyBye(s, a)
      PROVE  NearInv'
  <2>1. /\ members' = Registered(s) /\ service' = "empty" /\ sent' = sent
        /\ repeated' = repeated /\ rtcpPMembers' = rtcpPMembers
        /\ UNCHANGED <<timers, byes>>
    BY <1>18 DEF TakeInEmptyBye
  <2>2. members' \in 0 .. MemberMod - 1
    BY <1>a, <2>1, CountsStay
  <2> QED
    BY <1>a, <1>c, <2>1, <2>2
<1> QED
  BY <1>1, <1>2, <1>3, <1>4, <1>5, <1>6, <1>7, <1>8, <1>9, <1>10, <1>11,
     <1>12, <1>13, <1>14, <1>15, <1>16, <1>17, <1>18
     DEF ControlNext, TakeIn, Transmission, BackOff

(* Neither the next report nor the next look at the control socket is      *)
(* further away than the intervals allow, unless a BYE came when the report*)
(* was overdue (control.cpp:238-310, 543-570): for any sources, intervals  *)
(* and widths of the counters and of the times.                            *)
THEOREM TimersAreNear == ControlSpec => []TimersNear
<1>1. ControlInit => TableInv /\ NearInv
  <2> SUFFICES ASSUME ControlInit PROVE TableInv /\ NearInv
    OBVIOUS
  <2>1. TableInv
    BY DEF ControlInit, TableInv
  <2>2. NearInv
    <3>1. /\ Far \in Nat \ {0} /\ TimeMod \in Nat \ {0} /\ MemberMod \in Nat \ {0, 1}
          /\ CheckInterval \in Nat \ {0} /\ Longest \in Nat
      <4>1. (MemberMod - 1) * PerMember \in Nat
        BY RtcpConstants
      <4> QED
        BY <4>1, RtcpConstants DEF Longest, Need
    <3>2. Past(-CheckInterval) \in -Far .. 0
      BY <3>1 DEF Past
    <3>3. /\ 0 \in 0 .. MemberMod - 1 /\ 1 \in 0 .. MemberMod - 1
          /\ -Far \in -Far .. TimeMod - 1 /\ -Far \in -Far .. TimeMod + Longest
          /\ 0 \in -Far .. CheckInterval /\ Far \in 0 .. Far
          /\ -Far <= Longest + (IF -Far > 0 THEN -Far ELSE 0)
          /\ 0 \in 0 .. MaxByes - 1
      BY <3>1, RtcpConstants
    <3> QED
      BY <3>2, <3>3 DEF ControlInit, NearInv
  <2> QED
    BY <2>1, <2>2
<1>2. TableInv /\ NearInv => TimersNear
  <2> SUFFICES ASSUME TableInv, NearInv PROVE TimersNear
    OBVIOUS
  <2>1. ControlTypeOK
    BY DEF TableInv, NearInv, ControlTypeOK
  <2>2. rtcpNextCheck <= CheckInterval
    BY RtcpConstants DEF NearInv
  <2> QED
    BY <2>1, <2>2 DEF TimersNear, NearInv
<1> QED
  BY <1>1, <1>2, TableInvStep, NearInvStep, PTL DEF ControlSpec

-----------------------------------------------------------------------------
(* The pool of sessions.                                                   *)

Elem(e) == element[e].elem
Once(list) == \A i, j \in DOMAIN list : list[i] = list[j] => i = j

(* What the list and its copy hold.  An element is cleared if and only if  *)
(* it has no session; no two elements have the same one.                   *)
ListInv ==
  /\ Once(sessionList) /\ Once(sessions)
  /\ ToSet(sessions) \subseteq ToSet(sessionList)
  /\ ToSet(sessionList) \subseteq Allocated
  /\ \A e \in ToSet(sessionList) :
       IF Cleared(e) THEN Elem(e) = NULL ELSE Elem(e) \in Session /\ Exists(Elem(e))
  /\ \A e, f \in ToSet(sessionList) : ~Cleared(e) /\ Elem(e) = Elem(f) => e = f

PoolInv == PoolTypeOK /\ ListInv

(* Open sockets differ, and the sessions that are still to be served, whose*)
(* socket select has found readable, have a packet.                        *)
SocketsDiffer ==
  \A r, s \in Session : Exists(r) /\ socket[r] = socket[s] => r = s

ToServe(k) ==
  /\ ~Cleared(sessions[k])
  /\ SocketOf(sessions[k]) \in recvSocketSet
  /\ SocketOf(sessions[k]) < highestSocket

-----------------------------------------------------------------------------


(* The list without its cleared elements has the others, each once.        *)
LEMMA KeptProperties ==
  ASSUME NEW list \in Seq(Element), Once(list)
  PROVE  /\ Kept(list) \in Seq(Element)
         /\ Once(Kept(list))
         /\ ToSet(Kept(list)) = {e \in ToSet(list) : ~Cleared(e)}
<1> DEFINE N == Len(list)
           Step(q, k) == IF Cleared(list[k]) THEN q ELSE Append(q, list[k])
           Made(f) == f = [k \in 0 .. N |->
                             IF k = 0 THEN <<>> ELSE Step(f[k - 1], k)]
           kept == CHOOSE f : Made(f)
           Upto(k) == {list[i] : i \in {j \in 1 .. k : ~Cleared(list[j])}}
           Good(q, k) == /\ q \in Seq(Element) /\ Once(q)
                         /\ ToSet(q) = Upto(k)
<1>1. N \in Nat /\ DOMAIN list = 1 .. N /\ \A k \in 1 .. N : list[k] \in Element
  BY LenProperties, ElementOfSeq
<1>2. \E f : Made(f)
  <2> DEFINE g == [x \in Seq(Element) \X Nat |->
                     IF x[2] \in 1 .. N THEN Step(x[1], x[2]) ELSE x[1]]
  <2>1. g \in [Seq(Element) \X Nat -> Seq(Element)]
    BY <1>1, AppendProperties
  <2>2. <<>> \in Seq(Element)
    OBVIOUS
  <2>3. PICK f \in [0 .. N -> Seq(Element)] : Steps(f, <<>>, g, N)
    <3> DEFINE Sequences == Seq(Element)
               empty == <<>>
    <3>1. N \in Nat /\ empty \in Sequences /\ g \in [Sequences \X Nat -> Sequences]
      BY <1>1, <2>1, <2>2
    <3> HIDE DEF g, N, Sequences, empty
    <3>2. \E f \in [0 .. N -> Sequences] : Steps(f, empty, g, N)
      BY <3>1, StepsExist
    <3> QED
      BY <3>2 DEF Sequences, empty
  <2>4. ASSUME NEW k \in 1 .. N PROVE f[k] = Step(f[k - 1], k)
    <3>1. f[k - 1] \in Seq(Element) /\ k \in Nat
      BY <1>1
    <3> QED
      BY <2>3, <3>1 DEF Steps
  <2>5. Made(f)
    <3> DEFINE F == [k \in 0 .. N |-> IF k = 0 THEN <<>> ELSE Step(f[k - 1], k)]
    <3>1. ASSUME NEW k \in 0 .. N PROVE F[k] = f[k]
      <4>1. k = 0 \/ k \in 1 .. N
        BY <1>1
      <4> QED
        BY <1>1, <2>3, <2>4, <4>1 DEF Steps
    <3>2. F = f
      <4>1. DOMAIN F = 0 .. N /\ DOMAIN f = 0 .. N /\ F = [k \in 0 .. N |-> F[k]] /\ f = [k \in 0 .. N |-> f[k]]
        BY <2>3
      <4> HIDE DEF F
      <4> QED
        BY <3>1, <4>1
    <3> QED
      BY <3>2
  <2> QED
    BY <2>5
<1>3. Made(kept)
  <2> HIDE DEF Made
  <2> QED
    BY <1>2
<1>4. /\ kept[0] = <<>>
      /\ \A k \in 1 .. N : kept[k] = Step(kept[k - 1], k)
  <2> HIDE DEF kept
  <2>1. kept = [k \in 0 .. N |-> IF k = 0 THEN <<>> ELSE Step(kept[k - 1], k)]
    BY <1>3
  <2>2. 0 \in 0 .. N /\ \A k \in 1 .. N : k \in 0 .. N /\ k # 0
    BY <1>1
  <2> HIDE DEF Step
  <2>3. kept[0] = <<>>
    BY <2>1, <2>2
  <2>4. ASSUME NEW k \in 1 .. N PROVE kept[k] = Step(kept[k - 1], k)
    BY <2>1, <2>2
  <2> QED
    BY <2>3, <2>4
<1>5. Kept(list) = kept[N]
  BY DEF Kept
<1> HIDE DEF kept
<1>6. Good(kept[0], 0)
  BY <1>4 DEF Once, ToSet
<1>7. ASSUME NEW k \in 0 .. N - 1, Good(kept[k], k)
      PROVE  Good(kept[k + 1], k + 1)
  <2> DEFINE q == kept[k]
             e == list[k + 1]
  <2>1. k + 1 \in 1 .. N /\ kept[k + 1] = Step(q, k + 1) /\ e \in Element
    BY <1>1, <1>4
  <2>2. CASE Cleared(e)
    <3>1. Upto(k + 1) = Upto(k)
      BY <1>1, <2>2
    <3> QED
      BY <1>7, <2>1, <2>2, <3>1
  <2>3. CASE ~Cleared(e)
    <3> DEFINE r == Append(q, e)
    <3>1. kept[k + 1] = r
      BY <2>1, <2>3
    <3>2. Upto(k + 1) = Upto(k) \cup {e}
      BY <1>1, <2>1, <2>3
    <3>3. e \notin Upto(k)
      BY <1>1, <2>1 DEF Once
    <3>4. /\ r \in Seq(Element) /\ Len(r) = Len(q) + 1 /\ DOMAIN r = 1 .. Len(q) + 1
          /\ r[Len(q) + 1] = e /\ \A i \in 1 .. Len(q) : r[i] = q[i]
          /\ Len(q) \in Nat /\ DOMAIN q = 1 .. Len(q)
      BY <1>7, <2>1, AppendProperties, LenProperties
    <3> HIDE DEF Upto, r, q, e
    <3>5. ToSet(r) = ToSet(q) \cup {e}
      BY <3>4 DEF ToSet
    <3>6. \A i \in 1 .. Len(q) : q[i] # e
      BY <1>7, <3>3, <3>4 DEF ToSet, q
    <3>7. Once(r)
      <4>1. \A i, j \in 1 .. Len(q) : q[i] = q[j] => i = j
        BY <1>7, <3>4 DEF Once, q
      <4>2. \A i \in 1 .. Len(q) + 1 : i \in 1 .. Len(q) \/ i = Len(q) + 1
        BY <3>4
      <4> QED
        BY <3>4, <3>6, <4>1, <4>2 DEF Once
    <3> QED
      BY <1>7, <3>1, <3>2, <3>4, <3>5, <3>7 DEF q
  <2> QED
    BY <2>2, <2>3
<1>8. Good(kept[N], N)
  <2> DEFINE T == {k \in Nat : k <= N => Good(kept[k], k)}
  <2> HIDE DEF Good
  <2>1. 0 \in T
    BY <1>6
  <2>2. \A k \in Nat : k \in T => k + 1 \in T
    BY <1>1, <1>7
  <2>3. N \in T
    <3> HIDE DEF T
    <3> QED
      BY <1>1, <2>1, <2>2, InductionOnSet
  <2> QED
    BY <1>1, <2>3
<1>9. Upto(N) = {e \in ToSet(list) : ~Cleared(e)}
  BY <1>1 DEF ToSet
<1> QED
  BY <1>5, <1>8, <1>9

(* The highest socket is a number.                                         *)
LEMMA HighestIsNatural ==
  ASSUME NEW list \in Seq(Element),
         \A k \in DOMAIN list : ~Cleared(list[k]) => SocketOf(list[k]) \in Nat
  PROVE  HighestOf(list) \in Nat
<1> DEFINE N == Len(list)
           Step(h, k) == IF Cleared(list[k]) THEN h
                         ELSE Higher(h, SocketOf(list[k]))
           Made(f) == f = [k \in 0 .. N |-> IF k = 0 THEN 0 ELSE Step(f[k - 1], k)]
           highest == CHOOSE f : Made(f)
           g == [x \in Nat \X Nat |->
                   IF x[2] \in 1 .. N THEN Step(x[1], x[2]) ELSE x[1]]
<1>1. N \in Nat /\ DOMAIN list = 1 .. N
  BY LenProperties
<1>2. \A h \in Nat, k \in 1 .. N : Step(h, k) \in Nat
  BY <1>1 DEF Higher
<1>3. g \in [Nat \X Nat -> Nat]
  <2> HIDE DEF Step
  <2> QED
    BY <1>2
<1>4. PICK f \in [0 .. N -> Nat] : Steps(f, 0, g, N)
  <2> HIDE DEF g, N
  <2> QED
    BY <1>1, <1>3, StepsExist
<1>5. \A k \in 1 .. N : f[k] = Step(f[k - 1], k)
  <2> HIDE DEF Step
  <2>1. ASSUME NEW k \in 1 .. N PROVE f[k] = Step(f[k - 1], k)
    <3>1. k - 1 \in 0 .. N /\ f[k - 1] \in Nat /\ k \in Nat
      BY <1>1
    <3>2. <<f[k - 1], k>> \in Nat \X Nat /\ f[k] = g[<<f[k - 1], k>>]
      BY <1>4, <3>1 DEF Steps
    <3> QED
      BY <3>2
  <2> QED
    BY <2>1
<1>6. Made(f)
  <2> DEFINE F == [k \in 0 .. N |-> IF k = 0 THEN 0 ELSE Step(f[k - 1], k)]
  <2> HIDE DEF Step
  <2>1. ASSUME NEW k \in 0 .. N PROVE F[k] = f[k]
    BY <1>1, <1>4, <1>5 DEF Steps
  <2>2. F = f
    <3>1. F = [k \in 0 .. N |-> F[k]] /\ f = [k \in 0 .. N |-> f[k]]
      BY <1>4
    <3> HIDE DEF F
    <3> QED
      BY <2>1, <3>1
  <2> QED
    BY <2>2
<1>7. Made(highest)
  <2> HIDE DEF Made
  <2> QED
    BY <1>6
<1>8. HighestOf(list) = highest[N]
  BY DEF HighestOf
<1> HIDE DEF highest
<1>9. highest[0] = 0 /\ \A k \in 1 .. N : highest[k] = Step(highest[k - 1], k)
  <2> HIDE DEF Step
  <2>1. highest = [k \in 0 .. N |-> IF k = 0 THEN 0 ELSE Step(highest[k - 1], k)]
    BY <1>7
  <2>2. 0 \in 0 .. N /\ \A k \in 1 .. N : k \in 0 .. N /\ k # 0
    BY <1>1
  <2>3. highest[0] = 0
    BY <2>1, <2>2
  <2>4. ASSUME NEW k \in 1 .. N PROVE highest[k] = Step(highest[k - 1], k)
    BY <2>1, <2>2
  <2> QED
    BY <2>3, <2>4
<1>10. highest[N] \in Nat
  <2> DEFINE T == {k \in Nat : k <= N => highest[k] \in Nat}
  <2>1. 0 \in T
    BY <1>9
  <2>2. ASSUME NEW k \in Nat, k \in T PROVE k + 1 \in T
    <3> HIDE DEF Step
    <3>1. CASE k + 1 <= N
      <4>1. k + 1 \in 1 .. N /\ k <= N
        BY <1>1, <3>1
      <4> QED
        BY <1>2, <1>9, <2>2, <4>1
    <3> QED
      BY <3>1
  <2>3. N \in T
    <3> HIDE DEF T
    <3> QED
      BY <1>1, <2>1, <2>2, InductionOnSet
  <2> QED
    BY <1>1, <2>3
<1> QED
  BY <1>8, <1>10

(* What an element of the list holds.                                      *)
LEMMA ListedElements ==
  ASSUME PoolTypeOK, ListInv
  PROVE  /\ \A e \in ToSet(sessionList) :
              /\ e \in Element
              /\ element[e] \in [elem : Session \cup {NULL}, cleared : BOOLEAN]
         /\ ToSet(sessions) \subseteq ToSet(sessionList)
         /\ \A k \in DOMAIN sessions : sessions[k] \in ToSet(sessionList)
         /\ DOMAIN sessions = 1 .. Len(sessions) /\ Len(sessions) \in Nat
         /\ DOMAIN sessionList = 1 .. Len(sessionList) /\ Len(sessionList) \in Nat
<1>1. sessions \in Seq(Element) /\ sessionList \in Seq(Element)
  BY DEF PoolTypeOK
<1>2. /\ DOMAIN sessions = 1 .. Len(sessions) /\ Len(sessions) \in Nat
      /\ DOMAIN sessionList = 1 .. Len(sessionList) /\ Len(sessionList) \in Nat
  BY <1>1, LenProperties
<1>3. \A k \in DOMAIN sessionList : sessionList[k] \in Element
  BY <1>1, <1>2, ElementOfSeq
<1>4. ASSUME NEW e \in ToSet(sessionList)
      PROVE  /\ e \in Element
             /\ element[e] \in [elem : Session \cup {NULL}, cleared : BOOLEAN]
  <2>1. e \in Element /\ e \in Allocated
    BY <1>3 DEF ToSet, ListInv
  <2>2. element[e] # FREED
    BY <2>1 DEF Allocated
  <2> QED
    BY <2>1, <2>2 DEF PoolTypeOK
<1>5. \A k \in DOMAIN sessions : sessions[k] \in ToSet(sessionList)
  BY DEF ListInv, ToSet
<1> QED
  BY <1>2, <1>4, <1>5 DEF ListInv

(* The element that is found for a session is not cleared.                 *)
LEMMA FoundElements ==
  ASSUME PoolTypeOK, ListInv, NEW s \in Session, NEW i \in Found(s)
  PROVE  /\ sessionList[i] \in ToSet(sessionList)
         /\ Elem(sessionList[i]) = s /\ ~Cleared(sessionList[i])
<1>1. i \in DOMAIN sessionList /\ Elem(sessionList[i]) = s
  BY DEF Found, Elem
<1>2. sessionList[i] \in ToSet(sessionList)
  BY <1>1 DEF ToSet
<1>3. s # NULL
  BY PoolConstants
<1> QED
  BY <1>1, <1>2, <1>3 DEF ListInv

LEMMA FirstIsFound ==
  ASSUME PoolTypeOK, ListInv, NEW s \in Session, Found(s) # {}
  PROVE  (CHOOSE i \in Found(s) : \A j \in Found(s) : i <= j) \in Found(s)
<1>1. Found(s) \in SUBSET Nat
  BY ListedElements DEF Found
<1>2. PICK m \in Found(s) : \A k \in Found(s) : ~ (k < m)
  BY <1>1, LeastNumber
<1>3. \A k \in Found(s) : m <= k
  BY <1>1, <1>2
<1> QED
  BY <1>3

-----------------------------------------------------------------------------
(* The invariant of the lists, action by action.                           *)
LEMMA PoolInvInit == PoolInit => PoolInv
<1> SUFFICES ASSUME PoolInit PROVE PoolInv
  OBVIOUS
<1>1. <<>> \in Seq(Element) /\ Len(<<>>) = 0 /\ ToSet(<<>>) = {} /\ Once(<<>>)
  BY DEF ToSet, Once
<1>2. PoolTypeOK
  BY <1>1, PoolConstants DEF PoolInit, PoolTypeOK
<1>3. ListInv
  BY <1>1 DEF PoolInit, ListInv
<1> QED
  BY <1>2, <1>3 DEF PoolInv

LEMMA MakeKeepsPool ==
  ASSUME PoolInv, NEW s \in Session, MakeSession(s)
  PROVE  PoolInv'
<1> USE DEF PoolInv
<1>1. PICK so \in SOCKET : socket' = [socket EXCEPT ![s] = so]
  BY DEF MakeSession
<1>2. socket' \in [Session -> SOCKET \cup {NULL}]
  BY <1>1 DEF PoolTypeOK
<1>3. made' \in 0 .. MaxMade
  BY PoolConstants DEF MakeSession, PoolTypeOK
<1>4. PoolTypeOK'
  BY <1>2, <1>3 DEF MakeSession, PoolTypeOK, pool, turn, polled
<1>5. \A r \in Session : Exists(r) => Exists(r)' 
  <2> SUFFICES ASSUME NEW r \in Session, Exists(r) PROVE socket'[r] # NULL
    BY DEF Exists
  <2>1. r # s
    BY DEF MakeSession
  <2> QED
    BY <1>1, <2>1 DEF PoolTypeOK, Exists
<1>6. ListInv'
  <2>1. UNCHANGED <<sessionList, sessions, element>>
    BY DEF MakeSession, pool, turn
  <2> QED
    BY <1>5, <2>1 DEF ListInv, Elem, Cleared, Once, Allocated
<1> QED
  BY <1>4, <1>6

LEMMA AddKeepsPool ==
  ASSUME PoolInv, NEW s \in Session, AddSession(s)
  PROVE  PoolInv'
<1> USE DEF PoolInv
<1>0. UNCHANGED <<thread, turn, polled, packetTimeout, users>>
  BY DEF AddSession
<1>1. CASE UNCHANGED pool
  <2>1. UNCHANGED poolVars
    BY <1>0, <1>1 DEF poolVars
  <2>2. PoolTypeOK'
    BY <2>1 DEF PoolTypeOK, poolVars, pool, turn, polled, users
  <2>3. ListInv'
    BY <2>1 DEF ListInv, poolVars, pool, turn, polled, users, Elem, Cleared, Once, Allocated, Exists
  <2> QED
    BY <2>2, <2>3
<1>2. CASE /\ Found(s) = {}
           /\ \E e \in Element \ Allocated :
              /\ element' = [element EXCEPT ![e] = [elem |-> s, cleared |-> FALSE]]
              /\ sessionList' = Append(sessionList, e)
  <2> DEFINE new == [elem |-> s, cleared |-> FALSE]
             listed == ToSet(sessionList)
  <2>1. PICK e \in Element \ Allocated :
              /\ element' = [element EXCEPT ![e] = new]
              /\ sessionList' = Append(sessionList, e)
    BY <1>2
  <2>2. /\ new \in [elem : Session \cup {NULL}, cleared : BOOLEAN]
        /\ new.elem = s /\ new.cleared = FALSE /\ new # FREED
    <3>1. new \in [elem : Session \cup {NULL}, cleared : BOOLEAN]
      OBVIOUS
    <3>2. new.elem = s /\ new.cleared = FALSE
      OBVIOUS
    <3> HIDE DEF new
    <3>3. new # FREED
      BY <3>1, PoolConstants
    <3> QED
      BY <3>1, <3>2, <3>3
  <2> HIDE DEF new
  <2>3. element' \in [Element -> {FREED} \cup [elem : Session \cup {NULL}, cleared : BOOLEAN]]
    BY <2>1, <2>2 DEF PoolTypeOK
  <2>4. /\ sessionList' \in Seq(Element)
        /\ DOMAIN sessionList' = 1 .. Len(sessionList) + 1
        /\ \A i \in 1 .. Len(sessionList) : sessionList'[i] = sessionList[i]
        /\ sessionList'[Len(sessionList) + 1] = e
    <3>1. sessionList \in Seq(Element) /\ e \in Element
      BY DEF PoolTypeOK
    <3> QED
      BY <2>1, <3>1, AppendProperties, LenProperties
  <2>5. PoolTypeOK'
    BY <1>0, <2>3, <2>4 DEF PoolTypeOK, turn, polled, users
  <2>6. e \notin listed
    BY DEF ListInv
  <2>7. ToSet(sessionList)' = listed \cup {e}
    BY <2>4, ListedElements DEF ToSet
  <2>8. /\ element'[e] = new
        /\ \A f \in listed : element'[f] = element[f]
    <3>1. \A f \in listed : f \in Element /\ f # e
      BY <2>6, ListedElements
    <3> QED
      BY <2>1, <3>1 DEF PoolTypeOK
  <2>9. /\ Elem(e)' = s /\ ~Cleared(e)'
        /\ \A f \in listed : Elem(f)' = Elem(f) /\ Cleared(f)' = Cleared(f)
    BY <2>2, <2>8 DEF Elem, Cleared
  <2>10. \A f \in listed : Elem(f) # s
    <3> SUFFICES ASSUME NEW f \in listed, Elem(f) = s PROVE FALSE
      OBVIOUS
    <3>1. PICK i \in DOMAIN sessionList : f = sessionList[i]
      BY DEF ToSet
    <3>2. i \in Found(s)
      BY <3>1 DEF Found, Elem
    <3> QED
      BY <1>2, <3>2
  <2>11. Once(sessionList)'
    <3>1. \A i \in 1 .. Len(sessionList) : sessionList[i] \in listed
      BY ListedElements DEF ToSet
    <3>2. \A i, j \in 1 .. Len(sessionList) : sessionList[i] = sessionList[j] => i = j
      BY ListedElements DEF ListInv, Once
    <3>3. \A i \in 1 .. Len(sessionList) + 1 :
            i \in 1 .. Len(sessionList) \/ i = Len(sessionList) + 1
      BY ListedElements
    <3> QED
      BY <2>4, <2>6, <3>1, <3>2, <3>3 DEF Once
  <2>12. /\ Once(sessions)' /\ ToSet(sessions)' = ToSet(sessions)
         /\ \A r \in Session : Exists(r)' = Exists(r)
    BY <1>0 DEF ListInv, turn, Once, users, Exists
  <2>13. ToSet(sessions)' \subseteq ToSet(sessionList)'
    BY <2>7, <2>12 DEF ListInv
  <2>14. ToSet(sessionList)' \subseteq Allocated'
    <3>1. \A f \in listed : f \in Element /\ element[f] # FREED
      BY ListedElements DEF ListInv, Allocated
    <3>2. \A f \in listed \cup {e} : f \in Element /\ element'[f] # FREED
      BY <2>2, <2>8, <3>1
    <3> QED
      BY <2>7, <3>2 DEF Allocated
  <2>15. \A f \in ToSet(sessionList)' :
           IF Cleared(f)' THEN Elem(f)' = NULL
           ELSE Elem(f)' \in Session /\ Exists(Elem(f))'
    <3>1. ASSUME NEW f \in listed
          PROVE IF Cleared(f)' THEN Elem(f)' = NULL
                ELSE Elem(f)' \in Session /\ Exists(Elem(f))'
      <4>1. Exists(Elem(f))' <=> socket[Elem(f)] # NULL
        BY <1>0, <2>9 DEF users, Exists
      <4> QED
        BY <2>9, <4>1 DEF ListInv, Exists
    <3>2. Elem(e)' \in Session /\ Exists(Elem(e))' /\ ~Cleared(e)'
      BY <1>0, <2>9 DEF AddSession, Exists, users
    <3> QED
      BY <2>7, <3>1, <3>2
  <2>16. \A f, h \in ToSet(sessionList)' : ~Cleared(f)' /\ Elem(f)' = Elem(h)' => f = h
    <3>1. ASSUME NEW f \in listed, NEW h \in listed, ~Cleared(f)', Elem(f)' = Elem(h)'
          PROVE  f = h
      BY <2>9, <3>1 DEF ListInv
    <3>2. \A f \in listed : Elem(f)' # Elem(e)'
      BY <2>9, <2>10
    <3> QED
      BY <2>7, <3>1, <3>2
  <2> QED
    BY <2>5, <2>11, <2>12, <2>13, <2>14, <2>15, <2>16 DEF ListInv
<1> QED
  BY <1>1, <1>2 DEF AddSession

LEMMA RemoveKeepsPool ==
  ASSUME PoolInv, NEW s \in Session, RemoveSession(s)
  PROVE  PoolInv'
<1> USE DEF PoolInv
<1> DEFINE first == CHOOSE i \in Found(s) : \A j \in Found(s) : i <= j
           listed == ToSet(sessionList)
<1>1. first \in Found(s)
  BY FirstIsFound DEF RemoveSession
<1>2. PICK e \in listed : e = sessionList[first] /\ Elem(e) = s /\ ~Cleared(e)
  BY <1>1, FoundElements
<1> DEFINE new == Clear(e)
<1>0. /\ UNCHANGED <<thread, sessionList, turn, polled, packetTimeout, made>>
      /\ socket' = [socket EXCEPT ![s] = NULL]
      /\ waiting' = waiting \ {s} /\ due' = due \ {s}
      /\ element' = [element EXCEPT ![e] = new]
  BY <1>2 DEF RemoveSession, Delete
<1>3. e \in Element
  BY <1>2, ListedElements
<1>4. /\ new \in [elem : Session \cup {NULL}, cleared : BOOLEAN]
      /\ new.elem = NULL /\ new.cleared = TRUE /\ new # FREED
  <2>1. new \in [elem : Session \cup {NULL}, cleared : BOOLEAN]
    BY DEF Clear
  <2>2. new.elem = NULL /\ new.cleared = TRUE
    BY DEF Clear
  <2> HIDE DEF new
  <2>3. new # FREED
    BY <2>1, PoolConstants
  <2> QED
    BY <2>1, <2>2, <2>3
<1> HIDE DEF new, first
<1>5. PoolTypeOK'
  <2>1. element' \in [Element -> {FREED} \cup [elem : Session \cup {NULL}, cleared : BOOLEAN]]
    BY <1>0, <1>3, <1>4 DEF PoolTypeOK
  <2>2. socket' \in [Session -> SOCKET \cup {NULL}]
    BY <1>0 DEF PoolTypeOK
  <2>3. waiting' \subseteq Session /\ due' \subseteq Session
    BY <1>0 DEF PoolTypeOK
  <2> QED
    BY <1>0, <2>1, <2>2, <2>3 DEF PoolTypeOK, turn, polled
<1>6. /\ Elem(e)' = NULL /\ Cleared(e)'
      /\ \A f \in listed \ {e} : Elem(f)' = Elem(f) /\ Cleared(f)' = Cleared(f)
      /\ \A f \in listed : element'[f] # FREED
  <2>1. element'[e] = new
    BY <1>0, <1>3 DEF PoolTypeOK
  <2>2. \A f \in listed \ {e} : element'[f] = element[f]
    BY <1>0, ListedElements DEF PoolTypeOK
  <2>3. \A f \in listed : element[f] # FREED
    BY DEF ListInv, Allocated
  <2> QED
    BY <1>4, <2>1, <2>2, <2>3 DEF Elem, Cleared
<1>7. \A r \in Session \ {s} : Exists(r) => Exists(r)'
  BY <1>0 DEF PoolTypeOK, Exists
<1>8. /\ Once(sessionList)' /\ Once(sessions)'
      /\ ToSet(sessions)' \subseteq ToSet(sessionList)'
      /\ ToSet(sessionList)' = listed
  BY <1>0 DEF ListInv, Once, turn
<1>9. ToSet(sessionList)' \subseteq Allocated'
  BY <1>6, <1>8, ListedElements DEF Allocated
<1>10. \A f \in ToSet(sessionList)' :
         IF Cleared(f)' THEN Elem(f)' = NULL
         ELSE Elem(f)' \in Session /\ Exists(Elem(f))'
  <2> SUFFICES ASSUME NEW f \in listed, ~ (f = e), ~Cleared(f)
               PROVE  Elem(f)' \in Session /\ Exists(Elem(f))'
    BY <1>6, <1>8 DEF ListInv
  <2>1. Elem(f)' = Elem(f) /\ Elem(f) \in Session /\ Exists(Elem(f))
    BY <1>6 DEF ListInv
  <2>2. Elem(f) # s
    BY <1>2 DEF ListInv
  <2>3. socket'[Elem(f)] # NULL
    BY <1>0, <2>1, <2>2 DEF PoolTypeOK, Exists
  <2> QED
    BY <2>1, <2>3 DEF Exists
<1>11. \A f, h \in ToSet(sessionList)' : ~Cleared(f)' /\ Elem(f)' = Elem(h)' => f = h
  <2> SUFFICES ASSUME NEW f \in listed, NEW h \in listed, ~Cleared(f)',
                      Elem(f)' = Elem(h)'
               PROVE  f = h
    BY <1>8
  <2>1. f # e /\ ~Cleared(f) /\ Elem(f)' = Elem(f) /\ Elem(f) \in Session
    BY <1>6 DEF ListInv
  <2>2. h # e
    BY <1>6, <2>1, PoolConstants
  <2> QED
    BY <1>6, <2>1, <2>2 DEF ListInv
<1> QED
  BY <1>5, <1>8, <1>9, <1>10, <1>11 DEF ListInv

(* Steps that change neither lists, elements nor sockets.                  *)
LEMMA ListsAreKept ==
  ASSUME PoolInv, UNCHANGED <<pool, sessions, socket>>
  PROVE  ListInv'
BY DEF PoolInv, ListInv, pool, Elem, Cleared, Once, Allocated, Exists

LEMMA UsersKeepPool ==
  ASSUME PoolInv, NEW s \in Session, PutData(s) \/ PacketArrives(s)
  PROVE  PoolInv'
<1>1. ListInv'
  BY ListsAreKept DEF PutData, PacketArrives, turn
<1>2. PoolTypeOK'
  BY DEF PutData, PacketArrives, PoolInv, PoolTypeOK, pool, turn, polled
<1> QED
  BY <1>1, <1>2 DEF PoolInv

LEMMA CopyKeepsPool ==
  ASSUME PoolInv, CopyList
  PROVE  PoolInv'
<1>1. /\ UNCHANGED <<pool, polled, packetTimeout, users>>
      /\ thread' = "sockets" /\ sessions' = sessionList /\ at' = 1
  BY DEF CopyList
<1>2. sessionList \in Seq(Element) /\ Len(sessionList) \in Nat
  BY LenProperties DEF PoolInv, PoolTypeOK
<1>3. 1 \in 1 .. Len(sessionList) + 1
  BY <1>2
<1>4. PoolTypeOK'
  BY <1>1, <1>2, <1>3 DEF PoolInv, PoolTypeOK, pool, polled, users
<1>5. ListInv'
  BY <1>1 DEF PoolInv, ListInv, pool, users, Elem, Cleared, Once, Allocated, Exists
<1> QED
  BY <1>4, <1>5 DEF PoolInv

LEMMA SetSocketsKeepsPool ==
  ASSUME PoolInv, SetSockets
  PROVE  PoolInv'
<1>1. ListInv'
  BY ListsAreKept DEF SetSockets, turn, users
<1>2. \A e \in ToSet(sessions) : ~Cleared(e) => SocketOf(e) \in SOCKET
  <2> SUFFICES ASSUME NEW e \in ToSet(sessions), ~Cleared(e) PROVE SocketOf(e) \in SOCKET
    OBVIOUS
  <2>1. Elem(e) \in Session /\ Exists(Elem(e))
    BY DEF PoolInv, ListInv
  <2> QED
    BY <2>1 DEF PoolInv, PoolTypeOK, SocketOf, Elem, Exists
<1>3. recvSocketSet' \subseteq SOCKET
  BY <1>2 DEF SetSockets
<1>4. highestSocket' \in Nat
  <2>1. sessions \in Seq(Element)
    BY DEF PoolInv, PoolTypeOK
  <2>2. \A k \in DOMAIN sessions : ~Cleared(sessions[k]) => SocketOf(sessions[k]) \in Nat
    BY <1>2, PoolConstants DEF ToSet
  <2> QED
    BY <2>1, <2>2, HighestIsNatural DEF SetSockets
<1>5. PoolTypeOK'
  BY <1>3, <1>4 DEF SetSockets, PoolInv, PoolTypeOK, pool, turn, users
<1> QED
  BY <1>1, <1>5 DEF PoolInv

LEMMA SelectKeepsPool ==
  ASSUME PoolInv, SelectReturns \/ SelectFails
  PROVE  PoolInv'
<1>1. ListInv'
  BY ListsAreKept DEF SelectReturns, SelectFails, turn, users
<1>2. Cardinality(Readable) \in Nat
  <2>1. Readable \subseteq SOCKET
    BY DEF Readable, Looked, PoolInv, PoolTypeOK
  <2> QED
    BY <2>1, PoolConstants, FS_Subset, FS_CardinalityType
<1>3. readyCount' \in Int
  BY <1>2 DEF SelectReturns, SelectFails
<1>4. recvSocketSet' \subseteq SOCKET
  BY DEF SelectReturns, SelectFails, Readable, Looked, PoolInv, PoolTypeOK
<1>5. thread' = "data"
  BY DEF SelectReturns, SelectFails
<1>6. UNCHANGED <<pool, turn, highestSocket, packetTimeout, users>>
  BY DEF SelectReturns, SelectFails
<1>7. PoolTypeOK'
  BY <1>3, <1>4, <1>5, <1>6 DEF PoolInv, PoolTypeOK, pool, turn, users
<1> QED
  BY <1>1, <1>7 DEF PoolInv

LEMMA ServingKeepsPool ==
  ASSUME PoolInv, SkipCleared \/ ServeSession \/ WaitInRecv \/ RecvReturns,
         at <= Len(sessions)
  PROVE  PoolInv'
<1>1. ListInv'
  BY ListsAreKept
     DEF SkipCleared, ServeSession, WaitInRecv, RecvReturns, turn, users
<1>2. at' \in 1 .. Len(sessions) + 1
  <2>1. Len(sessions) \in Nat /\ at \in 1 .. Len(sessions) + 1
    BY LenProperties DEF PoolInv, PoolTypeOK
  <2>2. at' = at \/ at' = at + 1
    BY DEF SkipCleared, ServeSession, WaitInRecv, RecvReturns, turn
  <2> QED
    BY <2>1, <2>2
<1>3. readyCount' \in Int
  BY DEF SkipCleared, ServeSession, WaitInRecv, RecvReturns, polled, Counted,
         PoolInv, PoolTypeOK
<1>4. waiting' \subseteq Session
  BY DEF SkipCleared, ServeSession, WaitInRecv, RecvReturns, users, PoolInv, PoolTypeOK
<1>5. due' \subseteq Session /\ packetTimeout' \in {"below", "longer"}
  BY DEF SkipCleared, ServeSession, WaitInRecv, RecvReturns, DispatchOf, TimeoutAfter,
         users, PoolInv, PoolTypeOK
<1>6. thread' \in {"data", "recv"}
  BY DEF SkipCleared, ServeSession, WaitInRecv, RecvReturns, Serving
<1>7. UNCHANGED <<pool, sessions, recvSocketSet, highestSocket, socket, made>>
  BY DEF SkipCleared, ServeSession, WaitInRecv, RecvReturns, turn, polled, users
<1>8. PoolTypeOK'
  BY <1>2, <1>3, <1>4, <1>5, <1>6, <1>7 DEF PoolInv, PoolTypeOK, pool
<1> QED
  BY <1>1, <1>8 DEF PoolInv

LEMMA PurgeKeepsPool ==
  ASSUME PoolInv, Purge
  PROVE  PoolInv'
<1> DEFINE listed == ToSet(sessionList)
           kept == {e \in listed : ~Cleared(e)}
<1>1. /\ UNCHANGED <<polled, packetTimeout, users>>
      /\ thread' = "copy" /\ sessions' = <<>> /\ at' = 1
      /\ sessionList' = Kept(sessionList)
      /\ element' = [e \in Element |->
           IF e \in listed /\ Cleared(e) THEN FREED ELSE element[e]]
  BY DEF Purge
<1>2. /\ sessionList' \in Seq(Element) /\ Once(sessionList')
      /\ ToSet(sessionList') = kept
  BY <1>1, KeptProperties DEF PoolInv, PoolTypeOK, ListInv
<1>3. <<>> \in Seq(Element) /\ Len(<<>>) = 0 /\ ToSet(<<>>) = {} /\ Once(<<>>)
  BY DEF ToSet, Once
<1>4. PoolTypeOK'
  <2>1. element' \in [Element -> {FREED} \cup [elem : Session \cup {NULL}, cleared : BOOLEAN]]
    BY <1>1 DEF PoolInv, PoolTypeOK
  <2>2. at' \in 1 .. Len(sessions') + 1 /\ sessions' \in Seq(Element)
    BY <1>1, <1>3
  <2> QED
    BY <1>1, <1>2, <2>1, <2>2 DEF PoolInv, PoolTypeOK, polled, users
<1>5. \A e \in kept : e \in Element /\ element'[e] = element[e]
  BY <1>1, ListedElements DEF PoolInv
<1>6. \A e \in kept : Elem(e)' = Elem(e) /\ Cleared(e)' = Cleared(e)
  BY <1>5 DEF Elem, Cleared
<1>7. ToSet(sessionList)' \subseteq Allocated'
  <2>1. \A e \in kept : element'[e] # FREED
    BY <1>5 DEF PoolInv, ListInv, Allocated
  <2> QED
    BY <1>2, <1>5, <2>1 DEF Allocated
<1>8. \A e \in ToSet(sessionList)' :
        IF Cleared(e)' THEN Elem(e)' = NULL
        ELSE Elem(e)' \in Session /\ Exists(Elem(e))'
  <2> SUFFICES ASSUME NEW e \in kept PROVE Elem(e)' \in Session /\ Exists(Elem(e))'
    BY <1>2, <1>6
  <2>1. Elem(e) \in Session /\ Exists(Elem(e)) /\ socket' = socket
    BY <1>1 DEF PoolInv, ListInv, users
  <2> QED
    BY <1>6, <2>1 DEF Exists
<1>9. \A e, f \in ToSet(sessionList)' : ~Cleared(e)' /\ Elem(e)' = Elem(f)' => e = f
  BY <1>2, <1>6 DEF PoolInv, ListInv
<1>10. Once(sessionList)' /\ Once(sessions)' /\ ToSet(sessions)' \subseteq ToSet(sessionList)'
  BY <1>1, <1>2, <1>3 DEF Once
<1> QED
  BY <1>4, <1>7, <1>8, <1>9, <1>10 DEF PoolInv, ListInv

-----------------------------------------------------------------------------
(* The control of the thread: it serves an element of the copy.            *)
RecvAt == thread = "recv" => at <= Len(sessions)

PoolIInv == PoolInv /\ RecvAt

LEMMA PoolIInvStep == PoolIInv /\ [PoolNext]_poolVars => PoolIInv'
<1> SUFFICES ASSUME PoolIInv, [PoolNext]_poolVars PROVE PoolIInv'
  OBVIOUS
<1> USE DEF PoolIInv
<1>1. ASSUME NEW s \in Session,
             \/ MakeSession(s) \/ AddSession(s) \/ RemoveSession(s)
             \/ PutData(s) \/ PacketArrives(s)
      PROVE  PoolIInv'
  <2>1. PoolInv'
    BY <1>1, MakeKeepsPool, AddKeepsPool, RemoveKeepsPool, UsersKeepPool
  <2>2. UNCHANGED <<thread, turn>>
    BY <1>1 DEF MakeSession, AddSession, RemoveSession, PutData, PacketArrives
  <2> QED
    BY <2>1, <2>2 DEF RecvAt, turn
<1>2. CASE CopyList \/ SetSockets \/ SelectReturns \/ SelectFails \/ Purge
  <2>1. PoolInv'
    BY <1>2, CopyKeepsPool, SetSocketsKeepsPool, SelectKeepsPool, PurgeKeepsPool
  <2>2. thread' # "recv"
    BY <1>2 DEF CopyList, SetSockets, SelectReturns, SelectFails, Purge
  <2> QED
    BY <2>1, <2>2 DEF RecvAt
<1>3. CASE SkipCleared \/ ServeSession \/ WaitInRecv \/ RecvReturns
  <2>1. at <= Len(sessions)
    BY <1>3 DEF SkipCleared, ServeSession, WaitInRecv, RecvReturns, Serving, RecvAt
  <2>2. PoolInv'
    BY <1>3, <2>1, ServingKeepsPool
  <2>3. RecvAt'
    BY <1>3, <2>1
       DEF SkipCleared, ServeSession, WaitInRecv, RecvReturns, Serving, RecvAt, turn
  <2> QED
    BY <2>2, <2>3
<1>4. CASE UNCHANGED poolVars
  <2>1. UNCHANGED <<pool, sessions, socket>>
    BY <1>4 DEF poolVars, turn, users
  <2>2. PoolTypeOK' /\ RecvAt'
    BY <1>4 DEF PoolInv, PoolTypeOK, RecvAt, poolVars, pool, turn, polled, users
  <2> QED
    BY <2>1, <2>2, ListsAreKept DEF PoolInv
<1> QED
  BY <1>1, <1>2, <1>3, <1>4 DEF PoolNext, Run

-----------------------------------------------------------------------------
(* The words that select writes end at highestSocket or after.             *)
LEMMA WordsEndAfter ==
  ASSUME PoolTypeOK
  PROVE  WordsEnd \in Nat /\ highestSocket <= WordsEnd
<1> DEFINE a == highestSocket + WordBits - 1
           q == a \div WordBits
<1>1. highestSocket \in Nat /\ WordBits \in Nat \ {0} /\ a \in Nat
  BY PoolConstants DEF PoolTypeOK
<1>2. q \in Nat /\ q * WordBits <= a /\ a < (q + 1) * WordBits
  BY <1>1
<1>3. WordsEnd = q * WordBits
  BY DEF WordsEnd
<1> HIDE DEF q
<1>4. (q + 1) * WordBits = q * WordBits + WordBits /\ q * WordBits \in Nat
  BY <1>1, <1>2
<1> QED
  BY <1>1, <1>2, <1>3, <1>4

(* An open socket is a number; two elements to be served differ.           *)
LEMMA ServedElements ==
  ASSUME PoolInv
  PROVE  /\ \A k \in 1 .. Len(sessions) : ~Cleared(sessions[k]) =>
              /\ Elem(sessions[k]) \in Session /\ Exists(Elem(sessions[k]))
              /\ SocketOf(sessions[k]) \in SOCKET /\ SocketOf(sessions[k]) \in Nat
         /\ \A j, k \in 1 .. Len(sessions) :
              ~Cleared(sessions[j]) /\ Elem(sessions[j]) = Elem(sessions[k]) => j = k
<1> USE DEF PoolInv
<1>1. /\ \A k \in 1 .. Len(sessions) : sessions[k] \in ToSet(sessionList)
      /\ DOMAIN sessions = 1 .. Len(sessions)
  BY ListedElements
<1>2. ASSUME NEW k \in 1 .. Len(sessions), ~Cleared(sessions[k])
      PROVE  /\ Elem(sessions[k]) \in Session /\ Exists(Elem(sessions[k]))
             /\ SocketOf(sessions[k]) \in SOCKET /\ SocketOf(sessions[k]) \in Nat
  <2>1. Elem(sessions[k]) \in Session /\ Exists(Elem(sessions[k]))
    BY <1>1, <1>2 DEF ListInv
  <2>2. SocketOf(sessions[k]) = socket[Elem(sessions[k])]
    BY DEF SocketOf, Elem
  <2>3. SocketOf(sessions[k]) \in SOCKET
    BY <2>1, <2>2 DEF PoolTypeOK, Exists
  <2> QED
    BY <2>1, <2>3, PoolConstants
<1>3. ASSUME NEW j \in 1 .. Len(sessions), NEW k \in 1 .. Len(sessions),
             ~Cleared(sessions[j]), Elem(sessions[j]) = Elem(sessions[k])
      PROVE  j = k
  <2>1. sessions[j] = sessions[k]
    BY <1>1, <1>3 DEF ListInv
  <2> QED
    BY <1>1, <2>1 DEF ListInv, Once
<1> QED
  BY <1>2, <1>3

(* What the thread finds, and what it waits for.                           *)
Ready ==
  thread \in {"data", "recv"} /\ readyCount > 0 =>
    \A k \in at .. Len(sessions) : ToServe(k) => Elem(sessions[k]) \in waiting

InRecv ==
  thread = "recv" => /\ at <= Len(sessions)
                      /\ ~Cleared(sessions[at])
                      /\ socket[Served] >= highestSocket

LEMMA DifferStep ==
  ASSUME PoolInv, SocketsDiffer, [PoolNext]_poolVars
  PROVE  SocketsDiffer'
<1>1. ASSUME NEW s \in Session, MakeSession(s) PROVE SocketsDiffer'
  <2>1. PICK so \in SOCKET \ {socket[r] : r \in Session} :
          socket' = [socket EXCEPT ![s] = so]
    BY <1>1 DEF MakeSession
  <2> SUFFICES ASSUME NEW r \in Session, NEW t \in Session,
                      socket'[r] # NULL, socket'[r] = socket'[t]
               PROVE  r = t
    BY DEF SocketsDiffer, Exists
  <2>2. socket'[s] = so /\ \A x \in Session \ {s} : socket'[x] = socket[x]
    BY <2>1 DEF PoolInv, PoolTypeOK
  <2>3. \A x \in Session : socket[x] # so
    BY <2>1
  <2> QED
    BY <2>2, <2>3 DEF SocketsDiffer, Exists
<1>2. ASSUME NEW s \in Session, RemoveSession(s) PROVE SocketsDiffer'
  <2>1. socket' = [socket EXCEPT ![s] = NULL]
    BY <1>2 DEF RemoveSession, Delete
  <2>2. \A x \in Session : socket'[x] # NULL => socket'[x] = socket[x]
    BY <2>1 DEF PoolInv, PoolTypeOK
  <2> SUFFICES ASSUME NEW r \in Session, NEW t \in Session,
                      socket'[r] # NULL, socket'[r] = socket'[t]
               PROVE  r = t
    BY DEF SocketsDiffer, Exists
  <2> QED
    BY <2>2 DEF SocketsDiffer, Exists
<1>3. CASE UNCHANGED socket
  BY <1>3 DEF SocketsDiffer, Exists
<1>4. UNCHANGED socket
      \/ \E s \in Session : MakeSession(s) \/ RemoveSession(s)
  BY DEF PoolNext, Run, CopyList, SetSockets, SelectReturns, SelectFails, SkipCleared,
         ServeSession, WaitInRecv, RecvReturns, Purge, AddSession, PutData,
         PacketArrives, poolVars, users
<1> QED
  BY <1>1, <1>2, <1>3, <1>4

(* Steps of the application keep what is to be served as it was, or clear  *)
(* it.                                                                     *)
LEMMA UsersLeaveServed ==
  ASSUME PoolInv, NEW s \in Session,
         \/ MakeSession(s) \/ AddSession(s) \/ RemoveSession(s)
         \/ PutData(s) \/ PacketArrives(s),
         NEW k \in 1 .. Len(sessions), ~Cleared(sessions[k])'
  PROVE  /\ ~Cleared(sessions[k])
         /\ sessions'[k] = sessions[k]
         /\ Elem(sessions[k])' = Elem(sessions[k])
         /\ SocketOf(sessions[k])' = SocketOf(sessions[k])
         /\ Elem(sessions[k]) \in waiting => Elem(sessions[k]) \in waiting'
<1> USE DEF PoolInv
<1>0. sessions' = sessions
  BY DEF MakeSession, AddSession, RemoveSession, PutData, PacketArrives, turn
<1> DEFINE e == sessions[k]
<1>1. PICK f : f = sessions[k]
  OBVIOUS
<1>2. f \in ToSet(sessionList) /\ f \in Element /\ f \in Allocated
  BY <1>1, ListedElements DEF ListInv
<1>3. element'[f].cleared # TRUE
  BY <1>0, <1>1 DEF Cleared
<1>4. /\ SocketOf(sessions[k]) = socket[element[f].elem]
      /\ SocketOf(sessions[k])' = socket'[element'[f].elem]
      /\ Elem(sessions[k]) = element[f].elem
      /\ Elem(sessions[k])' = element'[f].elem
      /\ Cleared(sessions[k]) = element[f].cleared
  BY <1>0, <1>1 DEF SocketOf, Elem, Cleared
<1>5. CASE MakeSession(s)
  <2>1. element' = element /\ waiting' = waiting
    BY <1>5 DEF MakeSession, pool
  <2>2. ~Cleared(sessions[k])
    BY <1>3, <1>4, <2>1
  <2>3. Elem(sessions[k]) \in Session /\ Exists(Elem(sessions[k]))
    BY <2>2, ServedElements
  <2>4. Elem(sessions[k]) # s
    BY <1>5, <2>3 DEF MakeSession
  <2>5. socket'[Elem(sessions[k])] = socket[Elem(sessions[k])]
    BY <1>5, <2>3, <2>4 DEF MakeSession, PoolTypeOK
  <2> QED
    BY <1>0, <1>4, <2>1, <2>2, <2>5
<1>6. CASE AddSession(s)
  <2>1. element'[f] = element[f]
    BY <1>2, <1>6 DEF AddSession, PoolTypeOK, pool
  <2>2. socket' = socket /\ waiting' = waiting
    BY <1>6 DEF AddSession, users
  <2> QED
    BY <1>0, <1>3, <1>4, <2>1, <2>2
<1>7. CASE RemoveSession(s)
  <2> DEFINE first == CHOOSE i \in Found(s) : \A j \in Found(s) : i <= j
  <2>1. first \in Found(s)
    BY <1>7, FirstIsFound DEF RemoveSession
  <2>2. PICK h \in ToSet(sessionList) :
          h = sessionList[first] /\ Elem(h) = s /\ ~Cleared(h)
    BY <2>1, FoundElements
  <2>3. /\ element' = [element EXCEPT ![h] = Clear(h)]
        /\ socket' = [socket EXCEPT ![s] = NULL]
        /\ waiting' = waiting \ {s}
    BY <1>7, <2>2 DEF RemoveSession, Delete
  <2>4. f # h
    <3> SUFFICES ASSUME f = h PROVE FALSE
      OBVIOUS
    <3>1. element'[f] = Clear(f)
      BY <1>2, <2>3 DEF PoolTypeOK
    <3>2. Clear(f).cleared = TRUE
      BY DEF Clear
    <3> QED
      BY <1>3, <3>1, <3>2
  <2>5. element'[f] = element[f]
    BY <1>2, <2>3, <2>4 DEF PoolTypeOK
  <2>6. ~Cleared(sessions[k])
    BY <1>3, <1>4, <2>5
  <2>7. Elem(sessions[k]) \in Session
    BY <2>6, ServedElements
  <2>8. Elem(sessions[k]) # s
    BY <1>1, <1>2, <2>2, <2>4, <2>6 DEF ListInv
  <2>9. socket'[Elem(sessions[k])] = socket[Elem(sessions[k])]
    BY <2>3, <2>7, <2>8 DEF PoolTypeOK
  <2> QED
    BY <1>0, <1>4, <2>3, <2>5, <2>6, <2>8, <2>9
<1>8. CASE PutData(s) \/ PacketArrives(s)
  <2>1. element' = element /\ socket' = socket /\ waiting \subseteq waiting'
    BY <1>8 DEF PutData, PacketArrives, pool
  <2> QED
    BY <1>0, <1>3, <1>4, <2>1
<1> QED
  BY <1>5, <1>6, <1>7, <1>8

LEMMA ReadyStep ==
  ASSUME PoolIInv, SocketsDiffer, Ready, [PoolNext]_poolVars
  PROVE  Ready'
<1> USE DEF PoolIInv
<1> DEFINE Len0 == Len(sessions)
<1>0. Len0 \in Nat /\ at \in 1 .. Len0 + 1 /\ readyCount \in Int
  BY ListedElements DEF PoolInv, PoolTypeOK
<1>1. ASSUME NEW s \in Session,
             \/ MakeSession(s) \/ AddSession(s) \/ RemoveSession(s)
             \/ PutData(s) \/ PacketArrives(s)
      PROVE  Ready'
  <2>1. UNCHANGED <<thread, turn, polled>>
    BY <1>1 DEF MakeSession, AddSession, RemoveSession, PutData, PacketArrives
  <2> SUFFICES ASSUME thread \in {"data", "recv"}, readyCount > 0,
                      NEW k \in at .. Len0, ToServe(k)'
               PROVE  Elem(sessions[k])' \in waiting'
    BY <2>1 DEF Ready, turn, polled
  <2>2. k \in 1 .. Len(sessions) /\ ~Cleared(sessions[k])'
    BY <1>0 DEF ToServe
  <2>3. /\ ~Cleared(sessions[k])
        /\ Elem(sessions[k])' = Elem(sessions[k])
        /\ SocketOf(sessions[k])' = SocketOf(sessions[k])
        /\ Elem(sessions[k]) \in waiting => Elem(sessions[k]) \in waiting'
    BY <1>1, <2>2, UsersLeaveServed
  <2>4. ToServe(k)
    BY <2>1, <2>3 DEF ToServe, polled
  <2>5. Elem(sessions[k]) \in waiting
    BY <2>4 DEF Ready
  <2> QED
    BY <2>3, <2>5
<1>2. CASE SelectReturns
  <2>1. /\ thread = "select" /\ UNCHANGED <<pool, turn, highestSocket, users>>
        /\ recvSocketSet' = Readable \cup {so \in recvSocketSet : so >= WordsEnd}
    BY <1>2 DEF SelectReturns
  <2> SUFFICES ASSUME NEW k \in at .. Len0, ToServe(k)'
               PROVE  Elem(sessions[k]) \in waiting
    BY <2>1 DEF Ready, Elem, pool, turn, users
  <2>2. /\ ~Cleared(sessions[k])
        /\ SocketOf(sessions[k]) \in recvSocketSet'
        /\ SocketOf(sessions[k]) < highestSocket
    BY <2>1 DEF ToServe, Cleared, SocketOf, pool, turn, users
  <2>3. k \in 1 .. Len(sessions)
    BY <1>0
  <2>4. /\ Elem(sessions[k]) \in Session /\ Exists(Elem(sessions[k]))
        /\ SocketOf(sessions[k]) \in Nat
    BY <2>2, <2>3, ServedElements
  <2>5. WordsEnd \in Nat /\ highestSocket \in Nat /\ highestSocket <= WordsEnd
    BY WordsEndAfter DEF PoolInv, PoolTypeOK
  <2>6. ~ (SocketOf(sessions[k]) >= WordsEnd)
    BY <2>2, <2>4, <2>5
  <2>7. SocketOf(sessions[k]) \in Readable
    BY <2>1, <2>2, <2>6
  <2>8. PICK s \in waiting : SocketOf(sessions[k]) = socket[s]
    BY <2>7 DEF Readable
  <2>9. s \in Session
    BY <2>8 DEF PoolInv, PoolTypeOK
  <2> QED
    BY <2>4, <2>8, <2>9 DEF SocketsDiffer, SocketOf, Elem
<1>3. CASE SelectFails
  <2>1. readyCount' = -1
    BY <1>3 DEF SelectFails
  <2>2. ~ (readyCount' > 0)
    BY <2>1
  <2> QED
    BY <2>2 DEF Ready
<1>4. CASE CopyList \/ SetSockets \/ Purge
  <2>1. thread' \notin {"data", "recv"}
    BY <1>4 DEF CopyList, SetSockets, Purge
  <2> QED
    BY <2>1 DEF Ready
<1>5. CASE SkipCleared \/ ServeSession \/ WaitInRecv \/ RecvReturns
  <2>1. /\ UNCHANGED <<pool, sessions, recvSocketSet, highestSocket, socket>>
        /\ thread \in {"data", "recv"}
        /\ at' = at \/ at' = at + 1
        /\ readyCount' = readyCount \/ readyCount' = readyCount - 1
    BY <1>5 DEF SkipCleared, ServeSession, WaitInRecv, RecvReturns, Serving, turn, polled,
                users, Counted
  <2>2. at <= Len0 /\ at \in 1 .. Len(sessions)
    BY <1>0, <1>5 DEF SkipCleared, ServeSession, WaitInRecv, RecvReturns, Serving, RecvAt
  <2> SUFFICES ASSUME readyCount' > 0, NEW k \in at' .. Len0, ToServe(k)'
               PROVE  Elem(sessions[k]) \in waiting'
    BY <2>1 DEF Ready, Elem, pool
  <2>3. readyCount > 0 /\ k \in at .. Len0
    BY <1>0, <2>1
  <2>4. ToServe(k)
    BY <2>1 DEF ToServe, Cleared, SocketOf, pool
  <2>5. Elem(sessions[k]) \in waiting
    BY <2>1, <2>3, <2>4 DEF Ready
  <2>6. CASE waiting' = waiting
    BY <2>5, <2>6
  <2>7. CASE waiting' = waiting \ {Served} /\ at' = at + 1
    <3>1. k # at /\ k \in 1 .. Len(sessions)
      BY <1>0, <2>7
    <3>2. ~Cleared(sessions[k])
      BY <2>4 DEF ToServe
    <3>3. Elem(sessions[k]) # Elem(sessions[at])
      BY <2>2, <3>1, <3>2, ServedElements
    <3> QED
      BY <2>5, <2>7, <3>3 DEF Served, Elem
  <2>8. waiting' = waiting \/ (waiting' = waiting \ {Served} /\ at' = at + 1)
    BY <1>5 DEF SkipCleared, ServeSession, WaitInRecv, RecvReturns, users
  <2> QED
    BY <2>6, <2>7, <2>8
<1>6. CASE UNCHANGED poolVars
  BY <1>6 DEF Ready, ToServe, Cleared, SocketOf, Elem, poolVars, pool, turn, polled, users
<1> QED
  BY <1>1, <1>2, <1>3, <1>4, <1>5, <1>6 DEF PoolNext, Run

LEMMA InRecvStep ==
  ASSUME PoolIInv, Ready, InRecv, [PoolNext]_poolVars
  PROVE  InRecv'
<1> USE DEF PoolIInv
<1>0. Len(sessions) \in Nat /\ at \in 1 .. Len(sessions) + 1 /\ readyCount \in Int
  BY ListedElements DEF PoolInv, PoolTypeOK
<1>1. ASSUME NEW s \in Session,
             \/ MakeSession(s) \/ AddSession(s) \/ RemoveSession(s)
             \/ PutData(s) \/ PacketArrives(s)
      PROVE  InRecv'
  <2> SUFFICES ASSUME thread' = "recv"
               PROVE  /\ at' <= Len(sessions')
                      /\ ~Cleared(sessions[at])'
                      /\ socket'[Served'] >= highestSocket'
    BY DEF InRecv
  <2>1. UNCHANGED <<thread, turn, polled>>
    BY <1>1 DEF MakeSession, AddSession, RemoveSession, PutData, PacketArrives
  <2>2. /\ thread = "recv" /\ at <= Len(sessions) /\ ~Cleared(sessions[at])
        /\ socket[Served] >= highestSocket /\ at \in 1 .. Len(sessions)
    BY <1>0, <2>1 DEF InRecv
  <2>3. element' = element
    BY <1>1, <2>2
       DEF MakeSession, AddSession, RemoveSession, PutData, PacketArrives, Unlocked, pool
  <2>4. ~Cleared(sessions[at])'
    BY <2>1, <2>2, <2>3 DEF Cleared, turn
  <2>5. at' = at /\ sessions' = sessions /\ highestSocket' = highestSocket
    BY <2>1 DEF turn, polled
  <2>6. PICK k \in 1 .. Len(sessions) : k = at
    BY <2>2
  <2>7. SocketOf(sessions[k])' = SocketOf(sessions[k])
    <3>1. ~Cleared(sessions[k])'
      BY <2>4, <2>5, <2>6
    <3> QED
      BY <1>1, <3>1, UsersLeaveServed
  <2>8. socket'[Served'] = socket[Served]
    BY <2>5, <2>6, <2>7 DEF SocketOf, Served
  <2> QED
    BY <2>2, <2>4, <2>5, <2>8
<1>2. CASE WaitInRecv
  <2>1. /\ Serving /\ ~Cleared(sessions[at]) /\ IsSet /\ Served \notin waiting
        /\ UNCHANGED <<pool, turn, recvSocketSet, highestSocket, socket>>
    BY <1>2 DEF WaitInRecv, users
  <2>2. at \in 1 .. Len(sessions) /\ at \in at .. Len(sessions)
    BY <1>0, <2>1 DEF Serving
  <2>3. SocketOf(sessions[at]) \in Nat /\ highestSocket \in Nat
    BY <2>1, <2>2, ServedElements DEF PoolInv, PoolTypeOK
  <2>4. ~ToServe(at)
    BY <2>1, <2>2 DEF Ready, IsSet, Served, Elem, Serving
  <2>5. SocketOf(sessions[at]) >= highestSocket
    BY <2>1, <2>3, <2>4 DEF ToServe, IsSet, SocketOf, Served
  <2> QED
    BY <2>1, <2>2, <2>5
       DEF InRecv, SocketOf, Served, Cleared, Serving, pool, turn
<1>3. CASE \/ CopyList \/ SetSockets \/ SelectReturns \/ SelectFails \/ SkipCleared
           \/ ServeSession \/ RecvReturns \/ Purge
  <2>1. thread' # "recv"
    BY <1>3 DEF CopyList, SetSockets, SelectReturns, SelectFails, SkipCleared,
                ServeSession, RecvReturns, Purge, Serving
  <2> QED
    BY <2>1 DEF InRecv
<1>4. CASE UNCHANGED poolVars
  BY <1>4 DEF InRecv, Served, Cleared, poolVars, pool, turn, polled, users
<1> QED
  BY <1>1, <1>2, <1>3, <1>4 DEF PoolNext, Run

LEMMA PoolInvariant == PoolSpec => [](PoolIInv /\ SocketsDiffer /\ Ready /\ InRecv)
<1>1. PoolInit => PoolIInv /\ SocketsDiffer /\ Ready /\ InRecv
  <2> SUFFICES ASSUME PoolInit PROVE RecvAt /\ SocketsDiffer /\ Ready /\ InRecv
    BY PoolInvInit DEF PoolIInv
  <2> QED
    BY DEF PoolInit, RecvAt, SocketsDiffer, Exists, Ready, InRecv
<1>2. (PoolIInv /\ SocketsDiffer /\ Ready /\ InRecv) /\ [PoolNext]_poolVars
        => (PoolIInv /\ SocketsDiffer /\ Ready /\ InRecv)'
  BY PoolIInvStep, DifferStep, ReadyStep, InRecvStep DEF PoolIInv
<1> QED
  BY <1>1, <1>2, PTL DEF PoolSpec

(* What the lists hold is all there, and each session is found once.       *)
LEMMA PoolInvShows == PoolInv => NoDanglingElement
<1> SUFFICES ASSUME PoolInv PROVE NoDanglingElement
  OBVIOUS
<1> USE DEF PoolInv
<1>1. PoolTypeOK /\ ToSet(sessions) \subseteq Allocated /\ ToSet(sessionList) \subseteq Allocated
  BY DEF ListInv
<1>2. ASSUME NEW s \in Pooled PROVE Exists(s) /\ Cardinality(Found(s)) = 1
  <2>1. PICK e \in ToSet(sessionList) : ~Cleared(e) /\ s = Elem(e)
    BY DEF Pooled, Elem
  <2>2. s \in Session /\ Exists(s)
    BY <2>1 DEF ListInv
  <2>3. PICK i \in DOMAIN sessionList : e = sessionList[i]
    BY DEF ToSet
  <2>4. i \in Found(s)
    BY <2>1, <2>3 DEF Found, Elem
  <2>5. ASSUME NEW j \in Found(s) PROVE j = i
    <3>1. sessionList[j] \in ToSet(sessionList) /\ Elem(sessionList[j]) = s
      BY <2>2, FoundElements
    <3>2. sessionList[j] = sessionList[i]
      BY <2>1, <2>3, <3>1 DEF ListInv
    <3> QED
      BY <2>3, <3>2 DEF ListInv, Once, Found
  <2>6. Found(s) = {i}
    BY <2>4, <2>5
  <2> QED
    BY <2>2, <2>6, FS_Singleton
<1>3. ASSUME NEW s \in Session, Found(s) # {} PROVE s \in Pooled
  <2>1. PICK i \in Found(s) : TRUE
    BY <1>3
  <2>2. /\ sessionList[i] \in ToSet(sessionList)
        /\ Elem(sessionList[i]) = s /\ ~Cleared(sessionList[i])
    BY <2>1, FoundElements
  <2> QED
    BY <2>2 DEF Pooled, Elem
<1> QED
  BY <1>1, <1>2, <1>3 DEF NoDanglingElement

(* No element of the list or of its copy is freed and no session of the    *)
(* pool deleted, whatever is added and removed during a turn of the thread *)
(* (pool.cpp:56-94, 119-209).                                              *)
THEOREM NothingDangles == PoolSpec => []NoDanglingElement
BY PoolInvariant, PoolInvShows, PTL DEF PoolIInv

(* The thread holds the lock in recv only for a socket that select has not *)
(* looked at (pool.cpp:140-164).                                           *)
THEOREM RecvIsReady == PoolSpec => []RecvNeverWaits
<1>1. InRecv => RecvNeverWaits
  BY DEF InRecv, RecvNeverWaits
<1> QED
  BY <1>1, PoolInvariant, PTL

-----------------------------------------------------------------------------
(* A list: links in the order of their places, each of which points to the *)
(* next one and to the one before.                                         *)
IsNext(S, pos, i, k) ==
  IF k = Null THEN \A j \in S : pos[j] <= pos[i]
  ELSE k \in S /\ pos[i] < pos[k] /\ \A j \in S : pos[j] <= pos[i] \/ pos[k] <= pos[j]

IsPrev(S, pos, i, k) ==
  IF k = Null THEN \A j \in S : pos[i] <= pos[j]
  ELSE k \in S /\ pos[k] < pos[i] /\ \A j \in S : pos[j] <= pos[k] \/ pos[i] <= pos[j]

IsList(S, pos, first, last, next, prev) ==
  /\ S = {} => first = Null /\ last = Null
  /\ S # {} => first \in S /\ last \in S
  /\ \A i \in S : pos[first] <= pos[i] /\ pos[i] <= pos[last]
  /\ \A i \in S : IsNext(S, pos, i, next[i])
  /\ \A i \in S : IsPrev(S, pos, i, prev[i])

Placed(S, pos) ==
  /\ Null \notin S
  /\ \A i \in S : pos[i] \in Nat
  /\ \A i, j \in S : pos[i] = pos[j] => i = j

(* Nothing is before the first link, nor behind the last one.              *)
LEMMA ListEnds ==
  ASSUME NEW S, NEW pos, Placed(S, pos),
         NEW first, NEW last, NEW next, NEW prev,
         IsList(S, pos, first, last, next, prev)
  PROVE  /\ \A i \in S : prev[i] = Null <=> i = first
         /\ \A i \in S : next[i] = Null <=> i = last
         /\ S = {} <=> first = Null
         /\ S = {} <=> last = Null
<1>1. \A i \in S : prev[i] = Null => i = first
  BY DEF IsList, Placed, IsPrev
<1>2. \A i \in S : i = first => prev[i] = Null
  BY DEF IsList, Placed, IsPrev
<1>3. \A i \in S : next[i] = Null => i = last
  BY DEF IsList, Placed, IsNext
<1>4. \A i \in S : i = last => next[i] = Null
  BY DEF IsList, Placed, IsNext
<1>5. (S = {} <=> first = Null) /\ (S = {} <=> last = Null)
  BY DEF IsList, Placed
<1> QED
  BY <1>1, <1>2, <1>3, <1>4, <1>5

(* Two links that point to each other.                                     *)
LEMMA ListInverse ==
  ASSUME NEW S, NEW pos, Placed(S, pos),
         NEW first, NEW last, NEW next, NEW prev,
         IsList(S, pos, first, last, next, prev),
         NEW i \in S, NEW k \in S
  PROVE  next[i] = k <=> prev[k] = i
<1>1. ASSUME next[i] = k PROVE prev[k] = i
  <2>1. IsNext(S, pos, i, k) /\ IsPrev(S, pos, k, prev[k]) /\ k # Null
    BY <1>1 DEF IsList, Placed
  <2>2. prev[k] \in S
    BY <2>1 DEF IsNext, IsPrev, Placed
  <2>3. pos[prev[k]] = pos[i]
    BY <2>1, <2>2 DEF IsNext, IsPrev, Placed
  <2> QED
    BY <2>2, <2>3 DEF Placed
<1>2. ASSUME prev[k] = i PROVE next[i] = k
  <2>1. IsPrev(S, pos, k, i) /\ IsNext(S, pos, i, next[i]) /\ i # Null
    BY <1>2 DEF IsList, Placed
  <2>2. next[i] \in S
    BY <2>1 DEF IsNext, IsPrev, Placed
  <2>3. pos[next[i]] = pos[k]
    BY <2>1, <2>2 DEF IsNext, IsPrev, Placed
  <2> QED
    BY <2>2, <2>3 DEF Placed
<1> QED
  BY <1>1, <1>2

(* Only the pointers of the links and the order of the places matter.      *)
Unchanged(S, pos, pos2, first, last, next, prev, next2, prev2) ==
  /\ Placed(S, pos) /\ Placed(S, pos2)
  /\ \A j, k \in S : pos2[j] <= pos2[k] <=> pos[j] <= pos[k]
  /\ IsList(S, pos, first, last, next, prev)
  /\ \A j \in S : next2[j] = next[j] /\ prev2[j] = prev[j]

LEMMA ListSame ==
  ASSUME NEW S, NEW pos, NEW pos2,
         NEW first, NEW last, NEW next, NEW prev, NEW next2, NEW prev2,
         Unchanged(S, pos, pos2, first, last, next, prev, next2, prev2)
  PROVE  IsList(S, pos2, first, last, next2, prev2)
<1> USE DEF Unchanged
<1>0. \A j, k \in S : pos2[j] < pos2[k] <=> pos[j] < pos[k]
  BY DEF Placed
<1>1. ASSUME NEW i \in S PROVE IsNext(S, pos2, i, next2[i])
  <2>1. IsNext(S, pos, i, next2[i])
    BY DEF IsList
  <2> QED
    BY <1>0, <2>1 DEF IsNext
<1>2. ASSUME NEW i \in S PROVE IsPrev(S, pos2, i, prev2[i])
  <2>1. IsPrev(S, pos, i, prev2[i])
    BY DEF IsList
  <2> QED
    BY <1>0, <2>1 DEF IsPrev
<1> QED
  BY <1>1, <1>2 DEF IsList

(* A link that gets the last place goes to the end.                        *)
Appended(S, i, pos, pos2, first, last, next, prev, first2, next2, prev2) ==
  /\ i \notin S
  /\ Placed(S, pos) /\ Placed(S \cup {i}, pos2)
  /\ \A j \in S : pos2[j] = pos[j] /\ pos2[j] < pos2[i]
  /\ IsList(S, pos, first, last, next, prev)
  /\ first2 = IF last = Null THEN i ELSE first
  /\ \A j \in S : next2[j] = IF j = last THEN i ELSE next[j]
  /\ next2[i] = Null
  /\ \A j \in S : prev2[j] = prev[j]
  /\ prev2[i] = last

LEMMA ListAppend ==
  ASSUME NEW S, NEW i, NEW pos, NEW pos2,
         NEW first, NEW last, NEW next, NEW prev, NEW first2, NEW next2, NEW prev2,
         Appended(S, i, pos, pos2, first, last, next, prev, first2, next2, prev2)
  PROVE  IsList(S \cup {i}, pos2, first2, i, next2, prev2)
<1> USE DEF Appended
<1> DEFINE T == S \cup {i}
<1>1. S = {} <=> last = Null
  BY ListEnds
<1>2. first2 \in T /\ \A j \in T : pos2[first2] <= pos2[j] /\ pos2[j] <= pos2[i]
  <2>1. CASE last = Null
    BY <1>1, <2>1 DEF Placed
  <2>2. CASE last # Null
    <3>1. first2 = first /\ first \in S
      BY <1>1, <2>2 DEF IsList
    <3> QED
      BY <3>1 DEF IsList, Placed
  <2> QED
    BY <2>1, <2>2
<1>3. ASSUME NEW j \in T PROVE IsNext(T, pos2, j, next2[j])
  <2>1. CASE j = i
    BY <1>2, <2>1 DEF IsNext
  <2>2. CASE j \in S /\ j = last
    <3>1. next2[j] = i /\ i # Null /\ \A k \in S : pos[k] <= pos[j]
      BY <2>2 DEF IsList, Placed
    <3> QED
      BY <2>2, <3>1 DEF IsNext, Placed
  <2>3. CASE j \in S /\ j # last
    <3>1. next2[j] = next[j] /\ next[j] # Null /\ IsNext(S, pos, j, next[j])
      <4>1. next2[j] = next[j]
        BY <2>3
      <4>2. next[j] # Null
        BY <2>3, ListEnds
      <4>3. IsNext(S, pos, j, next[j])
        BY <2>3 DEF IsList
      <4> QED
        BY <4>1, <4>2, <4>3
    <3>2. next[j] \in S
      BY <3>1 DEF IsNext
    <3> QED
      BY <2>3, <3>1, <3>2 DEF IsNext, Placed
  <2> QED
    BY <2>1, <2>2, <2>3
<1>4. ASSUME NEW j \in T PROVE IsPrev(T, pos2, j, prev2[j])
  <2>1. CASE j = i
    <3>1. CASE last = Null
      BY <1>1, <2>1, <3>1 DEF IsPrev, Placed
    <3>2. CASE last # Null
      <4>1. last \in S /\ \A k \in S : pos[k] <= pos[last]
        BY <1>1, <3>2 DEF IsList
      <4> QED
        BY <2>1, <3>2, <4>1 DEF IsPrev, Placed
    <3> QED
      BY <3>1, <3>2
  <2>2. CASE j \in S
    <3>1. prev2[j] = prev[j] /\ IsPrev(S, pos, j, prev[j])
      BY <2>2 DEF IsList
    <3>2. CASE prev[j] = Null
      BY <2>2, <3>1, <3>2 DEF IsPrev, Placed
    <3>3. CASE prev[j] # Null
      <4>1. prev[j] \in S
        BY <3>1, <3>3 DEF IsPrev
      <4> QED
        BY <2>2, <3>1, <3>3, <4>1 DEF IsPrev, Placed
    <3> QED
      BY <3>2, <3>3
  <2> QED
    BY <2>1, <2>2
<1> QED
  BY <1>2, <1>3, <1>4 DEF IsList

(* A link that gets a place between two others goes between them.          *)
Inserted(S, i, pos, pos2, before, after, first, last, next, prev, next2, prev2) ==
  /\ i \notin S
  /\ Placed(S, pos) /\ Placed(S \cup {i}, pos2)
  /\ \A j, k \in S : pos2[j] <= pos2[k] <=> pos[j] <= pos[k]
  /\ before \in S /\ after \in S
  /\ pos2[before] < pos2[i] /\ pos2[i] < pos2[after]
  /\ \A j \in S : pos[j] <= pos[before] \/ pos[after] <= pos[j]
  /\ IsList(S, pos, first, last, next, prev)
  /\ \A j \in S : next2[j] = IF j = before THEN i ELSE next[j]
  /\ next2[i] = after
  /\ \A j \in S : prev2[j] = IF j = after THEN i ELSE prev[j]
  /\ prev2[i] = before

LEMMA ListInsert ==
  ASSUME NEW S, NEW i, NEW pos, NEW pos2, NEW before, NEW after,
         NEW first, NEW last, NEW next, NEW prev, NEW next2, NEW prev2,
         Inserted(S, i, pos, pos2, before, after, first, last, next, prev, next2, prev2)
  PROVE  IsList(S \cup {i}, pos2, first, last, next2, prev2)
<1> USE DEF Inserted
<1> DEFINE T == S \cup {i}
<1>0. /\ \A j, k \in S : pos2[j] < pos2[k] <=> pos[j] < pos[k]
      /\ i # Null /\ Null \notin S /\ pos2[i] \in Nat
      /\ \A j \in S : pos[j] \in Nat /\ pos2[j] \in Nat
  BY DEF Placed
<1>1. \A j \in S : pos2[j] <= pos2[before] \/ pos2[after] <= pos2[j]
  OBVIOUS
<1>2. first \in T /\ last \in T
      /\ \A j \in T : pos2[first] <= pos2[j] /\ pos2[j] <= pos2[last]
  <2>1. first \in S /\ last \in S
        /\ \A j \in S : pos2[first] <= pos2[j] /\ pos2[j] <= pos2[last]
    BY DEF IsList
  <2> QED
    BY <1>0, <2>1
<1>3. ASSUME NEW j \in T PROVE IsNext(T, pos2, j, next2[j])
  <2>1. CASE j = i
    BY <1>0, <1>1, <2>1 DEF IsNext
  <2>2. CASE j = before
    BY <1>0, <1>1, <2>2 DEF IsNext
  <2>3. CASE j \in S /\ j # before
    <3>1. next2[j] = next[j] /\ IsNext(S, pos, j, next[j])
      BY <2>3 DEF IsList
    <3>2. CASE next[j] = Null
      BY <1>0, <2>3, <3>1, <3>2 DEF IsNext
    <3>3. CASE next[j] # Null
      <4> DEFINE k == next[j]
      <4>1. /\ k \in S /\ pos2[j] < pos2[k]
            /\ \A x \in S : pos2[x] <= pos2[j] \/ pos2[k] <= pos2[x]
        BY <1>0, <2>3, <3>1, <3>3 DEF IsNext
      <4>2. pos2[j] # pos2[before]
        BY <2>3 DEF Placed
      <4>3. pos2[i] <= pos2[j] \/ pos2[k] <= pos2[i]
        <5> HIDE DEF k
        <5> QED
          BY <1>0, <1>1, <2>3, <4>1, <4>2
      <4> QED
        BY <3>1, <3>3, <4>1, <4>3 DEF IsNext
    <3> QED
      BY <3>2, <3>3
  <2> QED
    BY <2>1, <2>2, <2>3
<1>4. ASSUME NEW j \in T PROVE IsPrev(T, pos2, j, prev2[j])
  <2>1. CASE j = i
    BY <1>0, <1>1, <2>1 DEF IsPrev
  <2>2. CASE j = after
    BY <1>0, <1>1, <2>2 DEF IsPrev
  <2>3. CASE j \in S /\ j # after
    <3>1. prev2[j] = prev[j] /\ IsPrev(S, pos, j, prev[j])
      BY <2>3 DEF IsList
    <3>2. CASE prev[j] = Null
      BY <1>0, <2>3, <3>1, <3>2 DEF IsPrev
    <3>3. CASE prev[j] # Null
      <4> DEFINE k == prev[j]
      <4>1. /\ k \in S /\ pos2[k] < pos2[j]
            /\ \A x \in S : pos2[x] <= pos2[k] \/ pos2[j] <= pos2[x]
        BY <1>0, <2>3, <3>1, <3>3 DEF IsPrev
      <4>2. pos2[j] # pos2[after]
        BY <2>3 DEF Placed
      <4>3. pos2[i] <= pos2[k] \/ pos2[j] <= pos2[i]
        <5> HIDE DEF k
        <5> QED
          BY <1>0, <1>1, <2>3, <4>1, <4>2
      <4> QED
        BY <3>1, <3>3, <4>1, <4>3 DEF IsPrev
    <3> QED
      BY <3>2, <3>3
  <2> QED
    BY <2>1, <2>2, <2>3
<1> QED
  BY <1>2, <1>3, <1>4 DEF IsList

(* A link goes: those around it point to each other.                       *)
Removed(S, i, pos, first, last, next, prev, first2, last2, next2, prev2) ==
  /\ i \in S /\ Placed(S, pos)
  /\ IsList(S, pos, first, last, next, prev)
  /\ first2 = IF prev[i] = Null THEN next[i] ELSE first
  /\ last2 = IF next[i] = Null THEN prev[i] ELSE last
  /\ \A j \in S \ {i} : next2[j] = IF j = prev[i] THEN next[i] ELSE next[j]
  /\ \A j \in S \ {i} : prev2[j] = IF j = next[i] THEN prev[i] ELSE prev[j]

LEMMA ListRemove ==
  ASSUME NEW S, NEW i, NEW pos, NEW first, NEW last, NEW next, NEW prev,
         NEW first2, NEW last2, NEW next2, NEW prev2,
         Removed(S, i, pos, first, last, next, prev, first2, last2, next2, prev2)
  PROVE  IsList(S \ {i}, pos, first2, last2, next2, prev2) /\ Placed(S \ {i}, pos)
<1> USE DEF Removed
<1> DEFINE T == S \ {i}
           a == next[i]
           b == prev[i]
<1>0. Null \notin S /\ (\A j \in S : pos[j] \in Nat) /\ (\A j, k \in S : pos[j] = pos[k] => j = k)
  BY DEF Placed
<1>1. IsNext(S, pos, i, a) /\ IsPrev(S, pos, i, b)
  BY DEF IsList
<1>2. (a = Null <=> i = last) /\ (b = Null <=> i = first) /\ first \in S /\ last \in S
  BY ListEnds DEF IsList
<1>3. (a # Null => a \in T) /\ (b # Null => b \in T)
  BY <1>0, <1>1 DEF IsNext, IsPrev
<1>4. T # {} => /\ first2 \in T /\ \A j \in T : pos[first2] <= pos[j]
                /\ last2 \in T /\ \A j \in T : pos[j] <= pos[last2]
  <2> SUFFICES ASSUME T # {} PROVE /\ first2 \in T /\ \A j \in T : pos[first2] <= pos[j]
                                   /\ last2 \in T /\ \A j \in T : pos[j] <= pos[last2]
    OBVIOUS
  <2>1. PICK x \in S : x # i
    OBVIOUS
  <2>2. first2 \in T /\ \A j \in T : pos[first2] <= pos[j]
    <3>1. CASE b = Null
      <4>1. a # Null
        BY <1>0, <1>1, <2>1, <3>1 DEF IsNext, IsPrev
      <4>2. first2 = a /\ a \in T
        BY <1>3, <3>1, <4>1
      <4>3. \A j \in T : pos[a] <= pos[j]
        BY <1>0, <1>1, <3>1, <4>1 DEF IsNext, IsPrev
      <4> QED
        BY <4>2, <4>3
    <3>2. CASE b # Null
      <4>1. first2 = first /\ first \in T
        BY <1>2, <3>2
      <4> QED
        BY <4>1 DEF IsList
    <3> QED
      BY <3>1, <3>2
  <2>3. last2 \in T /\ \A j \in T : pos[j] <= pos[last2]
    <3>1. CASE a = Null
      <4>1. b # Null
        BY <1>0, <1>1, <2>1, <3>1 DEF IsNext, IsPrev
      <4>2. last2 = b /\ b \in T
        BY <1>3, <3>1, <4>1
      <4>3. \A j \in T : pos[j] <= pos[b]
        BY <1>0, <1>1, <3>1, <4>1 DEF IsNext, IsPrev
      <4> QED
        BY <4>2, <4>3
    <3>2. CASE a # Null
      <4>1. last2 = last /\ last \in T
        BY <1>2, <3>2
      <4> QED
        BY <4>1 DEF IsList
    <3> QED
      BY <3>1, <3>2
  <2> QED
    BY <2>2, <2>3
<1>5. T = {} => first2 = Null /\ last2 = Null
  BY <1>2, <1>3
<1>6. ASSUME NEW j \in T PROVE IsNext(T, pos, j, next2[j])
  <2>1. IsNext(S, pos, j, next[j]) /\ (next[j] = i <=> j = b)
    BY ListInverse DEF IsList
  <2>2. CASE j = b
    <3>1. next2[j] = a
      BY <2>2
    <3>2. pos[b] < pos[i] /\ b # Null /\ \A x \in S : pos[x] <= pos[b] \/ pos[i] <= pos[x]
      BY <1>0, <1>1, <2>2 DEF IsPrev
    <3>3. CASE a = Null
      BY <1>0, <1>1, <2>2, <3>1, <3>2, <3>3 DEF IsNext
    <3>4. CASE a # Null
      <4>1. a \in T /\ pos[i] < pos[a] /\ \A x \in S : pos[x] <= pos[i] \/ pos[a] <= pos[x]
        BY <1>1, <1>3, <3>4 DEF IsNext
      <4>2. \A x \in T : pos[x] <= pos[b] \/ pos[a] <= pos[x]
        BY <1>0, <3>2, <4>1
      <4> QED
        BY <1>0, <1>3, <2>2, <3>1, <3>2, <3>4, <4>1, <4>2 DEF IsNext
    <3> QED
      BY <3>3, <3>4
  <2>3. CASE j # b
    <3>1. next2[j] = next[j] /\ next[j] # i
      BY <2>1, <2>3
    <3> QED
      BY <2>1, <3>1 DEF IsNext
  <2> QED
    BY <2>2, <2>3
<1>7. ASSUME NEW j \in T PROVE IsPrev(T, pos, j, prev2[j])
  <2>1. IsPrev(S, pos, j, prev[j]) /\ (prev[j] = i <=> j = a)
    BY ListInverse DEF IsList
  <2>2. CASE j = a
    <3>1. prev2[j] = b
      BY <2>2
    <3>2. pos[i] < pos[a] /\ a # Null /\ \A x \in S : pos[x] <= pos[i] \/ pos[a] <= pos[x]
      BY <1>0, <1>1, <2>2 DEF IsNext
    <3>3. CASE b = Null
      BY <1>0, <1>1, <2>2, <3>1, <3>2, <3>3 DEF IsPrev
    <3>4. CASE b # Null
      <4>1. b \in T /\ pos[b] < pos[i] /\ \A x \in S : pos[x] <= pos[b] \/ pos[i] <= pos[x]
        BY <1>1, <1>3, <3>4 DEF IsPrev
      <4>2. \A x \in T : pos[x] <= pos[b] \/ pos[a] <= pos[x]
        BY <1>0, <3>2, <4>1
      <4> QED
        BY <1>0, <1>3, <2>2, <3>1, <3>2, <3>4, <4>1, <4>2 DEF IsPrev
    <3> QED
      BY <3>3, <3>4
  <2>3. CASE j # a
    <3>1. prev2[j] = prev[j] /\ prev[j] # i
      BY <2>1, <2>3
    <3> QED
      BY <2>1, <3>1 DEF IsPrev
  <2> QED
    BY <2>2, <2>3
<1>8. Placed(T, pos)
  BY DEF Placed
<1> QED
  BY <1>4, <1>5, <1>6, <1>7, <1>8 DEF IsList

-----------------------------------------------------------------------------
(* The records the handlers work on.                                       *)
Queues ==
  [ link : [LinkIds -> PktLinks \cup {Freed}], first : Pointers, last : Pointers,
    srcFirst : [Source -> Pointers], srcLast : [Source -> Pointers],
    ub : BOOLEAN, spoiled : BOOLEAN ]

Lives(q) == {i \in LinkIds : q.link[i] # Freed}

(* Nothing but pointers of links differs.                                  *)
SameButPointers(q, r) ==
  /\ r \in Queues
  /\ Lives(r) = Lives(q)
  /\ \A i \in LinkIds : r.link[i].src = q.link[i].src /\ r.link[i].n = q.link[i].n
  /\ r.first = q.first /\ r.last = q.last
  /\ r.srcFirst = q.srcFirst /\ r.srcLast = q.srcLast
  /\ r.ub = q.ub /\ r.spoiled = q.spoiled

LEMMA LinksAreNumbers == Null \notin LinkIds /\ Null \in Pointers /\ LinkIds \subseteq Pointers
BY QueueConstants DEF LinkIds, Pointers, Null

(* A live link is one of a packet, and a freed one is not.                 *)
LEMMA LiveLinks ==
  ASSUME NEW q \in Queues
  PROVE  /\ \A i \in Lives(q) : q.link[i] \in PktLinks /\ i \in LinkIds /\ Live(q, i)
         /\ \A i \in Pointers : Live(q, i) <=> i \in Lives(q)
         /\ \A l \in PktLinks : l # Freed
<1>1. \A l \in PktLinks : l # Freed
  BY QueueConstants DEF PktLinks, Freed
<1>2. \A i \in Lives(q) : q.link[i] \in PktLinks /\ i \in LinkIds
  BY DEF Lives, Queues
<1>3. \A i \in Pointers : Live(q, i) <=> i \in Lives(q)
  BY LinksAreNumbers DEF Lives, Live, Pointers
<1> QED
  BY <1>1, <1>2, <1>3, LinksAreNumbers DEF Pointers

LEMMA PointersOfLinks ==
  ASSUME NEW q \in Queues
  PROVE  /\ Nexts(q) \in [LinkIds -> Pointers] /\ Prevs(q) \in [LinkIds -> Pointers]
         /\ SrcNexts(q) \in [LinkIds -> Pointers] /\ SrcPrevs(q) \in [LinkIds -> Pointers]
         /\ \A i \in LinkIds : /\ Nexts(q)[i] = q.link[i].next
                               /\ Prevs(q)[i] = q.link[i].prev
                               /\ SrcNexts(q)[i] = q.link[i].srcNext
                               /\ SrcPrevs(q)[i] = q.link[i].srcPrev
<1>1. ASSUME NEW i \in LinkIds
      PROVE  /\ q.link[i].next \in Pointers /\ q.link[i].prev \in Pointers
             /\ q.link[i].srcNext \in Pointers /\ q.link[i].srcPrev \in Pointers
  <2>1. q.link[i] \in PktLinks \/ q.link[i] = Freed
    BY DEF Queues
  <2>2. CASE q.link[i] \in PktLinks
    BY <2>2 DEF PktLinks
  <2>3. CASE q.link[i] = Freed
    BY <2>3, LinksAreNumbers DEF Freed
  <2> QED
    BY <2>1, <2>2, <2>3
<1> QED
  BY <1>1 DEF Nexts, Prevs, SrcNexts, SrcPrevs

(* A pointer of a link that is assigned.                                   *)
LEMMA LinkAssigned ==
  ASSUME NEW q \in Queues, NEW i \in Lives(q), NEW l \in PktLinks,
         l.src = q.link[i].src, l.n = q.link[i].n,
         NEW r, r = [q EXCEPT !.link[i] = l]
  PROVE  SameButPointers(q, r) /\ \A j \in LinkIds : r.link[j] = IF j = i THEN l ELSE q.link[j]
<1>1. i \in LinkIds /\ l # Freed
  BY LiveLinks
<1>2. \A j \in LinkIds : r.link[j] = IF j = i THEN l ELSE q.link[j]
  BY <1>1 DEF Queues
<1>3. r \in Queues
  BY <1>1 DEF Queues
<1>4. Lives(r) = Lives(q)
  BY <1>1, <1>2 DEF Lives
<1>5. /\ r.first = q.first /\ r.last = q.last
      /\ r.srcFirst = q.srcFirst /\ r.srcLast = q.srcLast
      /\ r.ub = q.ub /\ r.spoiled = q.spoiled
  BY DEF Queues
<1>6. \A j \in LinkIds : r.link[j].src = q.link[j].src /\ r.link[j].n = q.link[j].n
  BY <1>2
<1> QED
  BY <1>2, <1>3, <1>4, <1>5, <1>6 DEF SameButPointers

LEMMA SetNext ==
  ASSUME NEW q \in Queues, NEW i \in Lives(q), NEW v \in Pointers,
         NEW r, r = SetLink(q, i, "next", v)
  PROVE  /\ SameButPointers(q, r)
         /\ Nexts(r) = [Nexts(q) EXCEPT ![i] = v]
         /\ Prevs(r) = Prevs(q) /\ SrcNexts(r) = SrcNexts(q) /\ SrcPrevs(r) = SrcPrevs(q)
<1> DEFINE l == [q.link[i] EXCEPT !["next"] = v]
<1>1. q.link[i] \in PktLinks /\ i \in LinkIds /\ Live(q, i)
  BY LiveLinks
<1>2. /\ l \in PktLinks /\ l.next = v
      /\ l.src = q.link[i].src /\ l.n = q.link[i].n /\ l.prev = q.link[i].prev
      /\ l.srcNext = q.link[i].srcNext /\ l.srcPrev = q.link[i].srcPrev
  BY <1>1 DEF PktLinks
<1>3. r = [q EXCEPT !.link[i] = l]
  BY <1>1 DEF SetLink, Queues
<1> HIDE DEF l
<1>4. SameButPointers(q, r) /\ \A j \in LinkIds : r.link[j] = IF j = i THEN l ELSE q.link[j]
  BY <1>2, <1>3, LinkAssigned
<1> QED
  BY <1>1, <1>2, <1>4 DEF Nexts, Prevs, SrcNexts, SrcPrevs

LEMMA SetPrev ==
  ASSUME NEW q \in Queues, NEW i \in Lives(q), NEW v \in Pointers,
         NEW r, r = SetLink(q, i, "prev", v)
  PROVE  /\ SameButPointers(q, r)
         /\ Prevs(r) = [Prevs(q) EXCEPT ![i] = v]
         /\ Nexts(r) = Nexts(q) /\ SrcNexts(r) = SrcNexts(q) /\ SrcPrevs(r) = SrcPrevs(q)
<1> DEFINE l == [q.link[i] EXCEPT !["prev"] = v]
<1>1. q.link[i] \in PktLinks /\ i \in LinkIds /\ Live(q, i)
  BY LiveLinks
<1>2. /\ l \in PktLinks /\ l.prev = v
      /\ l.src = q.link[i].src /\ l.n = q.link[i].n /\ l.next = q.link[i].next
      /\ l.srcNext = q.link[i].srcNext /\ l.srcPrev = q.link[i].srcPrev
  BY <1>1 DEF PktLinks
<1>3. r = [q EXCEPT !.link[i] = l]
  BY <1>1 DEF SetLink, Queues
<1> HIDE DEF l
<1>4. SameButPointers(q, r) /\ \A j \in LinkIds : r.link[j] = IF j = i THEN l ELSE q.link[j]
  BY <1>2, <1>3, LinkAssigned
<1> QED
  BY <1>1, <1>2, <1>4 DEF Nexts, Prevs, SrcNexts, SrcPrevs

LEMMA SetSrcNext ==
  ASSUME NEW q \in Queues, NEW i \in Lives(q), NEW v \in Pointers,
         NEW r, r = SetLink(q, i, "srcNext", v)
  PROVE  /\ SameButPointers(q, r)
         /\ SrcNexts(r) = [SrcNexts(q) EXCEPT ![i] = v]
         /\ Nexts(r) = Nexts(q) /\ Prevs(r) = Prevs(q) /\ SrcPrevs(r) = SrcPrevs(q)
<1> DEFINE l == [q.link[i] EXCEPT !["srcNext"] = v]
<1>1. q.link[i] \in PktLinks /\ i \in LinkIds /\ Live(q, i)
  BY LiveLinks
<1>2. /\ l \in PktLinks /\ l.srcNext = v
      /\ l.src = q.link[i].src /\ l.n = q.link[i].n /\ l.prev = q.link[i].prev
      /\ l.next = q.link[i].next /\ l.srcPrev = q.link[i].srcPrev
  BY <1>1 DEF PktLinks
<1>3. r = [q EXCEPT !.link[i] = l]
  BY <1>1 DEF SetLink, Queues
<1> HIDE DEF l
<1>4. SameButPointers(q, r) /\ \A j \in LinkIds : r.link[j] = IF j = i THEN l ELSE q.link[j]
  BY <1>2, <1>3, LinkAssigned
<1> QED
  BY <1>1, <1>2, <1>4 DEF Nexts, Prevs, SrcNexts, SrcPrevs

LEMMA SetSrcPrev ==
  ASSUME NEW q \in Queues, NEW i \in Lives(q), NEW v \in Pointers,
         NEW r, r = SetLink(q, i, "srcPrev", v)
  PROVE  /\ SameButPointers(q, r)
         /\ SrcPrevs(r) = [SrcPrevs(q) EXCEPT ![i] = v]
         /\ Nexts(r) = Nexts(q) /\ Prevs(r) = Prevs(q) /\ SrcNexts(r) = SrcNexts(q)
<1> DEFINE l == [q.link[i] EXCEPT !["srcPrev"] = v]
<1>1. q.link[i] \in PktLinks /\ i \in LinkIds /\ Live(q, i)
  BY LiveLinks
<1>2. /\ l \in PktLinks /\ l.srcPrev = v
      /\ l.src = q.link[i].src /\ l.n = q.link[i].n /\ l.prev = q.link[i].prev
      /\ l.next = q.link[i].next /\ l.srcNext = q.link[i].srcNext
  BY <1>1 DEF PktLinks
<1>3. r = [q EXCEPT !.link[i] = l]
  BY <1>1 DEF SetLink, Queues
<1> HIDE DEF l
<1>4. SameButPointers(q, r) /\ \A j \in LinkIds : r.link[j] = IF j = i THEN l ELSE q.link[j]
  BY <1>2, <1>3, LinkAssigned
<1> QED
  BY <1>1, <1>2, <1>4 DEF Nexts, Prevs, SrcNexts, SrcPrevs

LEMMA SameCompose ==
  ASSUME NEW q, NEW r, NEW t, SameButPointers(q, r), SameButPointers(r, t)
  PROVE  SameButPointers(q, t)
BY DEF SameButPointers

(* Two live links are joined in the global list, or in that of a source.   *)
LEMMA JoinedInGlobal ==
  ASSUME NEW q \in Queues, NEW i \in Lives(q), NEW j \in Lives(q),
         NEW r, r = JoinInGlobal(q, i, j)
  PROVE  /\ SameButPointers(q, r)
         /\ Nexts(r) = [Nexts(q) EXCEPT ![i] = j]
         /\ Prevs(r) = [Prevs(q) EXCEPT ![j] = i]
         /\ SrcNexts(r) = SrcNexts(q) /\ SrcPrevs(r) = SrcPrevs(q)
<1>1. PICK p : p = SetLink(q, i, "next", j)
  OBVIOUS
<1>2. i \in Pointers /\ j \in Pointers
  BY LiveLinks, LinksAreNumbers
<1>3. /\ SameButPointers(q, p)
      /\ Nexts(p) = [Nexts(q) EXCEPT ![i] = j]
      /\ Prevs(p) = Prevs(q) /\ SrcNexts(p) = SrcNexts(q) /\ SrcPrevs(p) = SrcPrevs(q)
  BY <1>1, <1>2, SetNext
<1>4. p \in Queues /\ j \in Lives(p) /\ r = SetLink(p, j, "prev", i)
  BY <1>1, <1>3 DEF SameButPointers, JoinInGlobal
<1>5. /\ SameButPointers(p, r)
      /\ Prevs(r) = [Prevs(p) EXCEPT ![j] = i]
      /\ Nexts(r) = Nexts(p) /\ SrcNexts(r) = SrcNexts(p) /\ SrcPrevs(r) = SrcPrevs(p)
  BY <1>2, <1>4, SetPrev
<1>6. SameButPointers(q, r)
  BY <1>3, <1>5, SameCompose
<1> QED
  BY <1>3, <1>5, <1>6

LEMMA JoinedInSource ==
  ASSUME NEW q \in Queues, NEW i \in Lives(q), NEW j \in Lives(q),
         NEW r, r = JoinInSource(q, i, j)
  PROVE  /\ SameButPointers(q, r)
         /\ SrcNexts(r) = [SrcNexts(q) EXCEPT ![i] = j]
         /\ SrcPrevs(r) = [SrcPrevs(q) EXCEPT ![j] = i]
         /\ Nexts(r) = Nexts(q) /\ Prevs(r) = Prevs(q)
<1>1. PICK p : p = SetLink(q, i, "srcNext", j)
  OBVIOUS
<1>2. i \in Pointers /\ j \in Pointers
  BY LiveLinks, LinksAreNumbers
<1>3. /\ SameButPointers(q, p)
      /\ SrcNexts(p) = [SrcNexts(q) EXCEPT ![i] = j]
      /\ Prevs(p) = Prevs(q) /\ Nexts(p) = Nexts(q) /\ SrcPrevs(p) = SrcPrevs(q)
  BY <1>1, <1>2, SetSrcNext
<1>4. p \in Queues /\ j \in Lives(p) /\ r = SetLink(p, j, "srcPrev", i)
  BY <1>1, <1>3 DEF SameButPointers, JoinInSource
<1>5. /\ SameButPointers(p, r)
      /\ SrcPrevs(r) = [SrcPrevs(p) EXCEPT ![j] = i]
      /\ Nexts(r) = Nexts(p) /\ SrcNexts(r) = SrcNexts(p) /\ Prevs(r) = Prevs(p)
  BY <1>2, <1>4, SetSrcPrev
<1>6. SameButPointers(q, r)
  BY <1>3, <1>5, SameCompose
<1> QED
  BY <1>3, <1>5, <1>6

-----------------------------------------------------------------------------
(* The lists of a queue, for the links S that are in them, in the order of *)
(* the places pos up to m.  The end of the global list and its pointers    *)
(* back are given, since a handler is late with them.                      *)
OfSource(q, S, s) == {i \in S : q.link[i].src = s}

InSources(q, S, pos) ==
  \A s \in Source : IsList(OfSource(q, S, s), pos, q.srcFirst[s], q.srcLast[s],
                           SrcNexts(q), SrcPrevs(q))

InSequence(q, S, pos) ==
  \A i, j \in S : q.link[i].src = q.link[j].src /\ pos[i] < pos[j] =>
    /\ SeqNumOf(q, i) <= SeqNumOf(q, j)
    /\ (\A k \in S : q.link[k].src = q.link[j].src => pos[k] <= pos[j]) =>
         SeqNumOf(q, i) < SeqNumOf(q, j)

Within(S, pos, m) == Placed(S, pos) /\ \A i \in S : pos[i] \in 1 .. m

GoodWith(q, S, pos, m, last, prev) ==
  /\ S \subseteq Lives(q) /\ Within(S, pos, m)
  /\ IsList(S, pos, q.first, last, Nexts(q), prev)
  /\ InSources(q, S, pos)
  /\ InSequence(q, S, pos)

Good(q, S, pos, m) == GoodWith(q, S, pos, m, q.last, Prevs(q))

LEMMA SourcesPlaced ==
  ASSUME NEW q, NEW S, NEW pos, Placed(S, pos), NEW s
  PROVE  Placed(OfSource(q, S, s), pos)
BY DEF Placed, OfSource

SameLinks(q, r) ==
  /\ r \in Queues /\ Lives(r) = Lives(q)
  /\ \A j \in LinkIds : r.link[j].src = q.link[j].src /\ r.link[j].n = q.link[j].n
  /\ r.ub = q.ub /\ r.spoiled = q.spoiled

(* A link that is put behind all others, in both lists.                    *)
PutLast(q, r, i, s, S) ==
  /\ SameLinks(q, r)
  /\ r.first = IF q.last = Null THEN i ELSE q.first
  /\ r.last = i
  /\ \A j \in S : /\ Nexts(r)[j] = IF j = q.last THEN i ELSE Nexts(q)[j]
                  /\ Prevs(r)[j] = Prevs(q)[j]
  /\ Nexts(r)[i] = Null /\ Prevs(r)[i] = q.last
  /\ \A u \in Source : /\ r.srcFirst[u] = IF u = s /\ q.srcLast[u] = Null THEN i ELSE q.srcFirst[u]
                       /\ r.srcLast[u] = IF u = s THEN i ELSE q.srcLast[u]
  /\ \A j \in S : /\ SrcNexts(r)[j] = IF j = q.srcLast[s] THEN i ELSE SrcNexts(q)[j]
                  /\ SrcPrevs(r)[j] = SrcPrevs(q)[j]
  /\ SrcNexts(r)[i] = Null /\ SrcPrevs(r)[i] = q.srcLast[s]

LEMMA GoodAppend ==
  ASSUME NEW q \in Queues, NEW i \in Lives(q), NEW m \in Nat, NEW pos,
         Good(q, Lives(q) \ {i}, pos, m),
         NEW s \in Source, q.link[i].src = s,
         \A j \in OfSource(q, Lives(q) \ {i}, s) :
           SeqNumOf(q, j) <= SeqNumOf(q, i) /\ SeqNumOf(q, j) < SeqNumOf(q, i),
         NEW r, PutLast(q, r, i, s, Lives(q) \ {i})
  PROVE  \E pos2 : Good(r, Lives(r), pos2, m + 1)
<1>0. /\ r \in Queues /\ Lives(r) = Lives(q)
      /\ \A j \in LinkIds : r.link[j].src = q.link[j].src /\ r.link[j].n = q.link[j].n
      /\ r.first = IF q.last = Null THEN i ELSE q.first
      /\ r.last = i
      /\ \A j \in Lives(q) \ {i} : /\ Nexts(r)[j] = IF j = q.last THEN i ELSE Nexts(q)[j]
                                   /\ Prevs(r)[j] = Prevs(q)[j]
      /\ Nexts(r)[i] = Null /\ Prevs(r)[i] = q.last
      /\ \A u \in Source :
           /\ r.srcFirst[u] = IF u = s /\ q.srcLast[u] = Null THEN i ELSE q.srcFirst[u]
           /\ r.srcLast[u] = IF u = s THEN i ELSE q.srcLast[u]
      /\ \A j \in Lives(q) \ {i} :
           /\ SrcNexts(r)[j] = IF j = q.srcLast[s] THEN i ELSE SrcNexts(q)[j]
           /\ SrcPrevs(r)[j] = SrcPrevs(q)[j]
      /\ SrcNexts(r)[i] = Null /\ SrcPrevs(r)[i] = q.srcLast[s]
  BY DEF PutLast, SameLinks
<1> USE <1>0
<1> DEFINE S == Lives(q) \ {i}
           T == S \cup {i}
           pos2 == [j \in LinkIds |-> IF j = i THEN m + 1 ELSE pos[j]]
<1>1. i \in LinkIds /\ S \subseteq LinkIds /\ T = Lives(r) /\ i \notin S /\ i # Null
  BY LinksAreNumbers DEF Lives
<1>2. Within(S, pos, m) /\ IsList(S, pos, q.first, q.last, Nexts(q), Prevs(q))
      /\ InSources(q, S, pos) /\ InSequence(q, S, pos)
  BY DEF Good, GoodWith
<1>3. pos2[i] = m + 1 /\ \A j \in S : pos2[j] = pos[j] /\ pos2[j] \in 1 .. m
  BY <1>1, <1>2 DEF Within
<1> HIDE DEF pos2, S
<1>4. Within(T, pos2, m + 1) /\ Placed(S, pos) /\ Placed(T, pos2)
  BY <1>1, <1>2, <1>3 DEF Within, Placed
<1>5. \A j \in S : pos2[j] = pos[j] /\ pos2[j] < pos2[i]
  BY <1>3
<1>6. IsList(T, pos2, r.first, r.last, Nexts(r), Prevs(r))
  <2>1. /\ \A j \in S : Nexts(r)[j] = IF j = q.last THEN i ELSE Nexts(q)[j]
        /\ \A j \in S : Prevs(r)[j] = Prevs(q)[j]
    BY DEF S
  <2>2. IsList(S \cup {i}, pos2, r.first, i, Nexts(r), Prevs(r))
    <3>1. Appended(S, i, pos, pos2, q.first, q.last, Nexts(q), Prevs(q),
                   r.first, Nexts(r), Prevs(r))
      BY <1>1, <1>2, <1>4, <1>5, <2>1 DEF Appended
    <3> QED
      BY <3>1, ListAppend
  <2> QED
    BY <2>2
<1>7. InSources(r, T, pos2)
  <2> SUFFICES ASSUME NEW u \in Source
               PROVE  IsList(OfSource(r, T, u), pos2, r.srcFirst[u], r.srcLast[u],
                             SrcNexts(r), SrcPrevs(r))
    BY DEF InSources
  <2> DEFINE O == OfSource(q, S, u)
  <2>1. IsList(O, pos, q.srcFirst[u], q.srcLast[u], SrcNexts(q), SrcPrevs(q))
    BY <1>2 DEF InSources
  <2>2. O \subseteq S /\ Placed(O, pos)
    <3>1. O \subseteq S
      BY DEF OfSource
    <3> QED
      BY <1>4, <3>1, SourcesPlaced
  <2>3. CASE u = s
    <3>1. OfSource(r, T, u) = O \cup {i} /\ i \notin O
      BY <1>1, <2>3 DEF OfSource
    <3>2. Placed(O \cup {i}, pos2)
      <4>1. Placed(OfSource(r, T, u), pos2)
        BY <1>4, SourcesPlaced
      <4> QED
        BY <3>1, <4>1
    <3>3. \A j \in O : pos2[j] = pos[j] /\ pos2[j] < pos2[i]
      BY <1>5, <2>2
    <3>4. /\ r.srcFirst[u] = IF q.srcLast[u] = Null THEN i ELSE q.srcFirst[u]
          /\ r.srcLast[u] = i
          /\ \A j \in O : SrcNexts(r)[j] = IF j = q.srcLast[u] THEN i ELSE SrcNexts(q)[j]
          /\ \A j \in O : SrcPrevs(r)[j] = SrcPrevs(q)[j]
          /\ SrcNexts(r)[i] = Null /\ SrcPrevs(r)[i] = q.srcLast[u]
      BY <2>2, <2>3 DEF S
    <3> HIDE DEF O
    <3>5. IsList(O \cup {i}, pos2, r.srcFirst[u], i, SrcNexts(r), SrcPrevs(r))
      <4>1. Appended(O, i, pos, pos2, q.srcFirst[u], q.srcLast[u], SrcNexts(q), SrcPrevs(q),
                     r.srcFirst[u], SrcNexts(r), SrcPrevs(r))
        BY <2>1, <2>2, <3>1, <3>2, <3>3, <3>4 DEF Appended
      <4> QED
        BY <4>1, ListAppend
    <3> QED
      BY <3>1, <3>4, <3>5
  <2>4. CASE u # s
    <3>1. OfSource(r, T, u) = O
      BY <1>1, <2>4 DEF OfSource
    <3>2. Placed(O, pos2)
      BY <1>4, <3>1, SourcesPlaced
    <3>3. /\ r.srcFirst[u] = q.srcFirst[u] /\ r.srcLast[u] = q.srcLast[u]
          /\ \A j \in O : j \in S /\ SrcPrevs(r)[j] = SrcPrevs(q)[j]
      BY <2>2, <2>4 DEF S
    <3>4. \A j \in O : SrcNexts(r)[j] = SrcNexts(q)[j]
      <4>1. IsList(OfSource(q, S, s), pos, q.srcFirst[s], q.srcLast[s], SrcNexts(q), SrcPrevs(q))
        BY <1>2 DEF InSources
      <4>2. q.srcLast[s] \notin O
        <5>1. q.srcLast[s] \in OfSource(q, S, s) \/ q.srcLast[s] = Null
          BY <4>1 DEF IsList
        <5> QED
          BY <2>2, <2>4, <5>1 DEF OfSource, Placed
      <4> QED
        BY <3>3, <4>2 DEF S
    <3>5. \A j, k \in O : pos2[j] <= pos2[k] <=> pos[j] <= pos[k]
      BY <1>5, <2>2
    <3> HIDE DEF O
    <3>6. IsList(O, pos2, q.srcFirst[u], q.srcLast[u], SrcNexts(r), SrcPrevs(r))
      <4>1. Unchanged(O, pos, pos2, q.srcFirst[u], q.srcLast[u], SrcNexts(q), SrcPrevs(q),
                      SrcNexts(r), SrcPrevs(r))
        BY <2>1, <2>2, <3>2, <3>3, <3>4, <3>5 DEF Unchanged
      <4> QED
        BY <4>1, ListSame
    <3> QED
      BY <3>1, <3>3, <3>6
  <2> QED
    BY <2>3, <2>4
<1>8. InSequence(r, T, pos2)
  <2> DEFINE Ends(k) == \A x \in T : r.link[x].src = r.link[k].src => pos2[x] <= pos2[k]
  <2> SUFFICES ASSUME NEW j \in T, NEW k \in T, r.link[j].src = r.link[k].src, pos2[j] < pos2[k]
               PROVE  /\ SeqNumOf(r, j) <= SeqNumOf(r, k)
                      /\ Ends(k) => SeqNumOf(r, j) < SeqNumOf(r, k)
    BY DEF InSequence
  <2>1. SeqNumOf(r, j) = SeqNumOf(q, j) /\ SeqNumOf(r, k) = SeqNumOf(q, k)
        /\ q.link[j].src = q.link[k].src
    BY <1>1 DEF SeqNumOf
  <2>2. CASE k = i
    <3>1. j \in S
      BY <1>3, <2>2
    <3> QED
      BY <2>1, <2>2, <3>1 DEF OfSource, S
  <2>3. CASE k # i
    <3>1. k \in S /\ j \in S /\ pos[j] < pos[k]
      BY <1>3, <2>3
    <3>2. Ends(k) => \A x \in S : q.link[x].src = q.link[k].src => pos[x] <= pos[k]
      BY <1>1, <1>3, <3>1
    <3> HIDE DEF Ends
    <3> QED
      BY <1>2, <2>1, <3>1, <3>2 DEF InSequence
  <2> QED
    BY <2>2, <2>3
<1>9. T \subseteq Lives(r)
  BY <1>1
<1> QED
  <2>1. GoodWith(r, T, pos2, m + 1, r.last, Prevs(r))
    BY <1>4, <1>6, <1>7, <1>8, <1>9 DEF GoodWith
  <2>2. Good(r, Lives(r), pos2, m + 1)
    BY <1>1, <2>1 DEF Good
  <2> QED
    BY <2>2

(* A link that is put behind place, in front of after, in its source's     *)
(* list, and in front of after in the global one.                          *)
PutBehind(q, r, i, place, after, before, S) ==
  /\ SameLinks(q, r)
  /\ r.first = q.first /\ r.last = q.last
  /\ r.srcFirst = q.srcFirst /\ r.srcLast = q.srcLast
  /\ \A j \in S : /\ Nexts(r)[j] = IF j = before THEN i ELSE Nexts(q)[j]
                  /\ Prevs(r)[j] = IF j = after THEN i ELSE Prevs(q)[j]
  /\ Nexts(r)[i] = after /\ Prevs(r)[i] = before
  /\ \A j \in S : /\ SrcNexts(r)[j] = IF j = place THEN i ELSE SrcNexts(q)[j]
                  /\ SrcPrevs(r)[j] = IF j = after THEN i ELSE SrcPrevs(q)[j]
  /\ SrcNexts(r)[i] = after /\ SrcPrevs(r)[i] = place

LEMMA GoodInsert ==
  ASSUME NEW q \in Queues, NEW i \in Lives(q), NEW m \in Nat, NEW pos,
         Good(q, Lives(q) \ {i}, pos, m),
         NEW s \in Source, q.link[i].src = s,
         NEW place \in OfSource(q, Lives(q) \ {i}, s), NEW after, after = SrcNexts(q)[place],
         after # Null, NEW before, before = Prevs(q)[after],
         SeqNumOf(q, place) <= SeqNumOf(q, i),
         \A j \in OfSource(q, Lives(q) \ {i}, s) :
           pos[place] < pos[j] =>
             SeqNumOf(q, i) <= SeqNumOf(q, j) /\ SeqNumOf(q, i) < SeqNumOf(q, j),
         NEW r, PutBehind(q, r, i, place, after, before, Lives(q) \ {i})
  PROVE  \E pos2 : Good(r, Lives(r), pos2, m + 1)
<1>0. /\ r \in Queues /\ Lives(r) = Lives(q)
      /\ \A j \in LinkIds : r.link[j].src = q.link[j].src /\ r.link[j].n = q.link[j].n
      /\ r.first = q.first /\ r.last = q.last
      /\ r.srcFirst = q.srcFirst /\ r.srcLast = q.srcLast
      /\ \A j \in Lives(q) \ {i} : /\ Nexts(r)[j] = IF j = before THEN i ELSE Nexts(q)[j]
                                   /\ Prevs(r)[j] = IF j = after THEN i ELSE Prevs(q)[j]
      /\ Nexts(r)[i] = after /\ Prevs(r)[i] = before
      /\ \A j \in Lives(q) \ {i} : /\ SrcNexts(r)[j] = IF j = place THEN i ELSE SrcNexts(q)[j]
                                   /\ SrcPrevs(r)[j] = IF j = after THEN i ELSE SrcPrevs(q)[j]
      /\ SrcNexts(r)[i] = after /\ SrcPrevs(r)[i] = place
  BY DEF PutBehind, SameLinks
<1> USE <1>0
<1> DEFINE S == Lives(q) \ {i}
           T == S \cup {i}
           pos2 == [j \in LinkIds |-> IF j = i THEN pos[after]
                                      ELSE IF pos[after] <= pos[j] THEN pos[j] + 1 ELSE pos[j]]
<1>1. i \in LinkIds /\ S \subseteq LinkIds /\ T = Lives(r) /\ i \notin S /\ i # Null
  BY LinksAreNumbers DEF Lives
<1>2. Within(S, pos, m) /\ IsList(S, pos, q.first, q.last, Nexts(q), Prevs(q))
      /\ InSources(q, S, pos) /\ InSequence(q, S, pos)
  BY DEF Good, GoodWith
<1> DEFINE O == OfSource(q, S, s)
<1>3. IsList(O, pos, q.srcFirst[s], q.srcLast[s], SrcNexts(q), SrcPrevs(q)) /\ place \in O
  BY <1>2 DEF InSources
<1>4. O \subseteq S /\ place \in S
  BY <1>3 DEF OfSource
<1>5. /\ after \in O /\ pos[place] < pos[after]
      /\ \A j \in O : pos[j] <= pos[place] \/ pos[after] <= pos[j]
  <2>1. IsNext(O, pos, place, after)
    BY <1>3 DEF IsList
  <2> QED
    BY <2>1 DEF IsNext
<1>6. /\ before \in S /\ pos[before] < pos[after]
      /\ \A j \in S : pos[j] <= pos[before] \/ pos[after] <= pos[j]
  <2>1. IsPrev(S, pos, after, before)
    <3>1. after \in S
      BY <1>4, <1>5
    <3>2. \A j \in S : IsPrev(S, pos, j, Prevs(q)[j])
      BY <1>2 DEF IsList
    <3> QED
      BY <3>1, <3>2
  <2>2. before # Null
    <3>1. pos[place] \in Nat /\ pos[after] \in Nat
      <4>1. \A j \in S : pos[j] \in Nat
        BY <1>2 DEF Within, Placed
      <4> QED
        BY <1>4, <1>5, <4>1
    <3>2. ~ (pos[after] <= pos[place])
      BY <1>5, <3>1
    <3> QED
      BY <1>4, <2>1, <3>2 DEF IsPrev
  <2> QED
    BY <2>1, <2>2 DEF IsPrev
<1>7. /\ pos2[i] = pos[after]
      /\ \A j \in S : pos2[j] = IF pos[after] <= pos[j] THEN pos[j] + 1 ELSE pos[j]
      /\ \A j \in S : pos[j] \in 1 .. m
      /\ after \in S
  BY <1>1, <1>2, <1>4, <1>5 DEF Within
<1> HIDE DEF pos2, S
<1>8. Within(T, pos2, m + 1) /\ Placed(S, pos) /\ Placed(T, pos2) /\ Placed(S, pos2)
  <2>1. \A j \in T : pos2[j] \in 1 .. m + 1
    BY <1>7
  <2>2. \A j, k \in T : pos2[j] = pos2[k] => j = k
    <3>1. \A j \in S : pos2[j] # pos2[i]
      BY <1>7
    <3>2. \A j, k \in S : pos2[j] = pos2[k] => j = k
      <4>1. \A j, k \in S : pos[j] = pos[k] => j = k
        BY <1>2 DEF Within, Placed
      <4> QED
        BY <1>7, <4>1
    <3> QED
      BY <3>1, <3>2
  <2>3. Null \notin T
    BY <1>1, <1>2 DEF Within, Placed
  <2>4. Placed(T, pos2)
    BY <2>1, <2>2, <2>3 DEF Placed
  <2> QED
    BY <1>2, <2>1, <2>4 DEF Within, Placed
<1>9. /\ \A j, k \in S : pos2[j] <= pos2[k] <=> pos[j] <= pos[k]
      /\ pos2[before] < pos2[i] /\ pos2[i] < pos2[after]
      /\ pos2[place] < pos2[i]
  <2>1. \A j, k \in S : pos2[j] <= pos2[k] <=> pos[j] <= pos[k]
    BY <1>7
  <2>2. pos2[before] < pos2[i] /\ pos2[i] < pos2[after] /\ pos2[place] < pos2[i]
    BY <1>4, <1>5, <1>6, <1>7
  <2> QED
    BY <2>1, <2>2
<1>10. IsList(T, pos2, r.first, r.last, Nexts(r), Prevs(r))
  <2>1. /\ \A j \in S : Nexts(r)[j] = IF j = before THEN i ELSE Nexts(q)[j]
        /\ \A j \in S : Prevs(r)[j] = IF j = after THEN i ELSE Prevs(q)[j]
    BY DEF S
  <2>2. Inserted(S, i, pos, pos2, before, after, q.first, q.last, Nexts(q), Prevs(q),
                 Nexts(r), Prevs(r))
    BY <1>1, <1>2, <1>6, <1>7, <1>8, <1>9, <2>1 DEF Inserted
  <2> QED
    BY <2>2, ListInsert
<1>11. InSources(r, T, pos2)
  <2> SUFFICES ASSUME NEW u \in Source
               PROVE  IsList(OfSource(r, T, u), pos2, r.srcFirst[u], r.srcLast[u],
                             SrcNexts(r), SrcPrevs(r))
    BY DEF InSources
  <2>1. CASE u = s
    <3>1. OfSource(r, T, u) = O \cup {i} /\ i \notin O
      BY <1>1, <2>1 DEF OfSource
    <3>2. Placed(O \cup {i}, pos2) /\ Placed(O, pos)
      <4>1. Placed(OfSource(r, T, u), pos2) /\ Placed(OfSource(q, S, s), pos)
        BY <1>8, SourcesPlaced
      <4> QED
        BY <3>1, <4>1
    <3>3. /\ \A j \in O : SrcNexts(r)[j] = IF j = place THEN i ELSE SrcNexts(q)[j]
          /\ \A j \in O : SrcPrevs(r)[j] = IF j = after THEN i ELSE SrcPrevs(q)[j]
      BY <1>4 DEF S
    <3>4. \A j, k \in O : pos2[j] <= pos2[k] <=> pos[j] <= pos[k]
      BY <1>4, <1>9
    <3> HIDE DEF O
    <3>5. Inserted(O, i, pos, pos2, place, after, q.srcFirst[u], q.srcLast[u], SrcNexts(q),
                   SrcPrevs(q), SrcNexts(r), SrcPrevs(r))
      BY <1>3, <1>5, <1>9, <2>1, <3>1, <3>2, <3>3, <3>4 DEF Inserted
    <3>6. IsList(O \cup {i}, pos2, q.srcFirst[u], q.srcLast[u], SrcNexts(r), SrcPrevs(r))
      BY <3>5, ListInsert
    <3> QED
      BY <3>1, <3>6
  <2>2. CASE u # s
    <3> DEFINE V == OfSource(q, S, u)
    <3>1. OfSource(r, T, u) = V
      BY <1>1, <2>2 DEF OfSource
    <3>2. V \subseteq S /\ place \notin V /\ after \notin V
      BY <1>3, <1>5, <2>2 DEF OfSource
    <3>3. Placed(V, pos) /\ Placed(V, pos2)
      BY <1>8, SourcesPlaced
    <3>4. /\ \A j \in V : SrcNexts(r)[j] = SrcNexts(q)[j]
          /\ \A j \in V : SrcPrevs(r)[j] = SrcPrevs(q)[j]
      BY <3>2 DEF S
    <3>5. IsList(V, pos, q.srcFirst[u], q.srcLast[u], SrcNexts(q), SrcPrevs(q))
      BY <1>2 DEF InSources
    <3>6. \A j, k \in V : pos2[j] <= pos2[k] <=> pos[j] <= pos[k]
      BY <1>9, <3>2
    <3> HIDE DEF V
    <3>7. Unchanged(V, pos, pos2, q.srcFirst[u], q.srcLast[u], SrcNexts(q), SrcPrevs(q),
                    SrcNexts(r), SrcPrevs(r))
      BY <3>3, <3>4, <3>5, <3>6 DEF Unchanged
    <3>8. IsList(V, pos2, q.srcFirst[u], q.srcLast[u], SrcNexts(r), SrcPrevs(r))
      BY <3>7, ListSame
    <3> QED
      BY <3>1, <3>8
  <2> QED
    BY <2>1, <2>2
<1>12. InSequence(r, T, pos2)
  <2> DEFINE Ends(k) == \A x \in T : r.link[x].src = r.link[k].src => pos2[x] <= pos2[k]
  <2> SUFFICES ASSUME NEW j \in T, NEW k \in T, r.link[j].src = r.link[k].src, pos2[j] < pos2[k]
               PROVE  /\ SeqNumOf(r, j) <= SeqNumOf(r, k)
                      /\ Ends(k) => SeqNumOf(r, j) < SeqNumOf(r, k)
    BY DEF InSequence
  <2>1. SeqNumOf(r, j) = SeqNumOf(q, j) /\ SeqNumOf(r, k) = SeqNumOf(q, k)
        /\ q.link[j].src = q.link[k].src
    BY <1>1 DEF SeqNumOf
  <2>2. \A x \in LinkIds : SeqNumOf(q, x) \in Int
    <3> SUFFICES ASSUME NEW x \in LinkIds PROVE SeqNumOf(q, x) \in Int
      OBVIOUS
    <3>1. q.link[x] \in PktLinks \/ q.link[x] = Freed
      BY DEF Queues
    <3>2. q.link[x].n \in Int
      BY <3>1, QueueConstants DEF PktLinks, Freed
    <3> QED
      BY <3>2, ReceptionConstants DEF SeqNumOf, Seqn
  <2>3. CASE k = i
    <3>1. j \in S /\ pos[j] < pos[after]
      BY <1>7, <2>3
    <3>2. j \in O
      BY <2>1, <2>3, <3>1 DEF OfSource
    <3>3. pos[j] <= pos[place]
      BY <1>5, <1>7, <3>1, <3>2
    <3>4. SeqNumOf(q, j) <= SeqNumOf(q, place)
      <4>1. CASE j = place
        BY <1>1, <2>2, <3>1, <4>1
      <4>2. CASE j # place
        <5>1. pos[j] < pos[place]
          BY <1>4, <1>7, <1>8, <3>1, <3>3, <4>2 DEF Placed
        <5>2. q.link[j].src = q.link[place].src
          BY <1>3, <3>2 DEF OfSource
        <5> QED
          BY <1>2, <1>4, <3>1, <5>1, <5>2 DEF InSequence
      <4> QED
        BY <4>1, <4>2
    <3>5. ~Ends(k)
      <4>1. after \in T /\ r.link[after].src = r.link[k].src /\ pos2[k] < pos2[after]
        BY <1>1, <1>4, <1>5, <1>7, <2>3 DEF OfSource
      <4>2. pos2[k] \in Int /\ pos2[after] \in Int
        BY <1>4, <1>5, <1>7, <2>3
      <4> QED
        BY <4>1, <4>2
    <3> QED
      BY <1>1, <1>4, <2>1, <2>2, <2>3, <3>1, <3>4, <3>5
  <2>4. CASE k # i /\ j = i
    <3>1. k \in S /\ pos[after] <= pos[k]
      BY <1>7, <2>4
    <3>2. k \in O
      BY <2>1, <2>4, <3>1 DEF OfSource
    <3>3. pos[place] < pos[k]
      BY <1>4, <1>5, <1>7, <3>1
    <3> QED
      BY <2>1, <2>4, <3>2, <3>3 DEF S
  <2>5. CASE k # i /\ j # i
    <3>1. j \in S /\ k \in S /\ pos[j] < pos[k]
      BY <1>7, <2>5
    <3>2. Ends(k) => \A x \in S : q.link[x].src = q.link[k].src => pos[x] <= pos[k]
      BY <1>1, <1>7, <3>1
    <3> HIDE DEF Ends
    <3> QED
      BY <1>2, <2>1, <3>1, <3>2 DEF InSequence
  <2> QED
    BY <2>3, <2>4, <2>5
<1>13. T \subseteq Lives(r)
  BY <1>1
<1> QED
  <2>1. GoodWith(r, T, pos2, m + 1, r.last, Prevs(r))
    BY <1>8, <1>10, <1>11, <1>12, <1>13 DEF GoodWith
  <2>2. Good(r, Lives(r), pos2, m + 1)
    BY <1>1, <2>1 DEF Good
  <2> QED
    BY <2>2

-----------------------------------------------------------------------------
(* A new link, that is in no list yet.                                     *)
New(q, i, s) ==
  /\ i \in Lives(q) /\ q.link[i].src = s
  /\ Nexts(q)[i] = Null /\ Prevs(q)[i] = Null
  /\ SrcNexts(q)[i] = Null /\ SrcPrevs(q)[i] = Null

LEMMA SeqNumbers ==
  ASSUME NEW q \in Queues, NEW i \in LinkIds
  PROVE  SeqNumOf(q, i) \in Seqs
<1>1. q.link[i] \in PktLinks \/ q.link[i] = Freed
  BY DEF Queues
<1>2. q.link[i].n \in Int
  BY <1>1, QueueConstants DEF PktLinks, Freed
<1> QED
  BY <1>2, ReceptionConstants DEF SeqNumOf, Seqn, Seqs

(* The ends of the lists are live.                                         *)
LEMMA EndsLive ==
  ASSUME NEW q \in Queues, NEW S, NEW pos, NEW m, Good(q, S, pos, m)
  PROVE  /\ (q.last = Null <=> S = {}) /\ (q.last # Null => q.last \in S)
         /\ (q.first = Null <=> S = {}) /\ (q.first # Null => q.first \in S)
         /\ S \subseteq Lives(q) /\ S \subseteq LinkIds
         /\ \A s \in Source :
              /\ q.srcLast[s] = Null <=> OfSource(q, S, s) = {}
              /\ q.srcLast[s] # Null => q.srcLast[s] \in OfSource(q, S, s)
              /\ q.srcFirst[s] = Null <=> OfSource(q, S, s) = {}
              /\ q.srcFirst[s] # Null => q.srcFirst[s] \in OfSource(q, S, s)
<1>1. Placed(S, pos) /\ IsList(S, pos, q.first, q.last, Nexts(q), Prevs(q)) /\ S \subseteq Lives(q)
      /\ InSources(q, S, pos)
  BY DEF Good, GoodWith, Within
<1>2. Null \notin S /\ Lives(q) \subseteq LinkIds
  BY <1>1 DEF Placed, Lives
<1>3. \A s \in Source : IsList(OfSource(q, S, s), pos, q.srcFirst[s], q.srcLast[s],
                               SrcNexts(q), SrcPrevs(q)) /\ Null \notin OfSource(q, S, s)
  BY <1>1, <1>2 DEF InSources, OfSource
<1> QED
  BY <1>1, <1>2, <1>3 DEF IsList

LEMMA InsertOnlyIsGood ==
  ASSUME NEW q \in Queues, NEW i, NEW s \in Source, New(q, i, s), NEW m \in Nat, NEW pos,
         Good(q, Lives(q) \ {i}, pos, m), q.srcLast[s] = Null,
         NEW r, r = InsertOnly(q, i, s)
  PROVE  SameLinks(q, r) /\ \E pos2 : Good(r, Lives(r), pos2, m + 1)
<1> DEFINE S == Lives(q) \ {i}
<1> PICK q1 : q1 = IF q.last = Null THEN q ELSE JoinInGlobal(q, q.last, i)
  OBVIOUS
<1>1. i \in Lives(q) /\ i \in LinkIds /\ i \in Pointers /\ i # Null
  BY LinksAreNumbers DEF New, Lives
<1>2. /\ q.last = Null <=> S = {}
      /\ q.last # Null => q.last \in S
      /\ q.first = Null <=> S = {}
      /\ OfSource(q, S, s) = {}
  BY EndsLive
<1>3. /\ SameButPointers(q, q1)
      /\ q.last # Null => /\ Nexts(q1) = [Nexts(q) EXCEPT ![q.last] = i]
                          /\ Prevs(q1) = [Prevs(q) EXCEPT ![i] = q.last]
      /\ q.last = Null => Nexts(q1) = Nexts(q) /\ Prevs(q1) = Prevs(q)
      /\ SrcNexts(q1) = SrcNexts(q) /\ SrcPrevs(q1) = SrcPrevs(q)
  <2>1. CASE q.last = Null
    BY <2>1 DEF SameButPointers
  <2>2. CASE q.last # Null
    <3>1. q1 = JoinInGlobal(q, q.last, i) /\ q.last \in Lives(q)
      BY <1>2, <2>2
    <3> QED
      BY <1>1, <2>2, <3>1, JoinedInGlobal
  <2> QED
    BY <2>1, <2>2
<1>4. /\ q1 \in Queues /\ Lives(q1) = Lives(q)
      /\ q1.first = q.first /\ q1.last = q.last
      /\ q1.srcFirst = q.srcFirst /\ q1.srcLast = q.srcLast
      /\ q1.ub = q.ub /\ q1.spoiled = q.spoiled
      /\ \A j \in LinkIds : q1.link[j].src = q.link[j].src /\ q1.link[j].n = q.link[j].n
  BY <1>3 DEF SameButPointers
<1>5. r = [q1 EXCEPT !.srcFirst[s] = i, !.srcLast[s] = i, !.last = i,
                     !.first = IF q.first = Null THEN i ELSE @]
  BY DEF InsertOnly
<1>6. /\ r \in Queues /\ r.link = q1.link /\ r.last = i
      /\ r.first = IF q.last = Null THEN i ELSE q.first
      /\ r.ub = q.ub /\ r.spoiled = q.spoiled
      /\ r.srcFirst = [q.srcFirst EXCEPT ![s] = i] /\ r.srcLast = [q.srcLast EXCEPT ![s] = i]
  <2>1. r \in Queues
    <3>1. PICK f, sf, sl : /\ f = IF q.first = Null THEN i ELSE q1.first
                           /\ sf = [q1.srcFirst EXCEPT ![s] = i]
                           /\ sl = [q1.srcLast EXCEPT ![s] = i]
      OBVIOUS
    <3>2. f \in Pointers /\ sf \in [Source -> Pointers] /\ sl \in [Source -> Pointers]
      BY <1>1, <1>4, <3>1 DEF Queues
    <3>3. r = [q1 EXCEPT !.srcFirst = sf, !.srcLast = sl, !.last = i, !.first = f]
      BY <1>4, <1>5, <3>1 DEF Queues
    <3> QED
      BY <1>1, <1>4, <3>2, <3>3 DEF Queues
  <2>2. r.link = q1.link /\ r.last = i /\ r.ub = q1.ub /\ r.spoiled = q1.spoiled
    BY <1>4, <1>5 DEF Queues
  <2>3. r.first = IF q.first = Null THEN i ELSE q1.first
    BY <1>4, <1>5 DEF Queues
  <2>4. r.srcFirst = [q1.srcFirst EXCEPT ![s] = i] /\ r.srcLast = [q1.srcLast EXCEPT ![s] = i]
    BY <1>4, <1>5 DEF Queues
  <2> QED
    BY <1>2, <1>4, <2>1, <2>2, <2>3, <2>4
<1>7. Lives(r) = Lives(q) /\ Nexts(r) = Nexts(q1) /\ Prevs(r) = Prevs(q1)
      /\ SrcNexts(r) = SrcNexts(q1) /\ SrcPrevs(r) = SrcPrevs(q1)
  BY <1>4, <1>6 DEF Lives, Nexts, Prevs, SrcNexts, SrcPrevs
<1>8. SameLinks(q, r)
  BY <1>4, <1>6, <1>7 DEF SameLinks
<1>9. /\ Nexts(q) \in [LinkIds -> Pointers] /\ Prevs(q) \in [LinkIds -> Pointers]
      /\ S \subseteq LinkIds /\ i \notin S /\ q.last # i
      /\ q.srcFirst \in [Source -> Pointers] /\ q.srcLast \in [Source -> Pointers]
  BY <1>1, <1>2, PointersOfLinks DEF Lives, Queues
<1> HIDE DEF S
<1>10. /\ \A j \in S : /\ Nexts(r)[j] = IF j = q.last THEN i ELSE Nexts(q)[j]
                       /\ Prevs(r)[j] = Prevs(q)[j]
       /\ Nexts(r)[i] = Null /\ Prevs(r)[i] = q.last
  <2>1. CASE q.last = Null
    BY <1>2, <1>3, <1>7, <2>1 DEF New
  <2>2. CASE q.last # Null
    <3>1. /\ Nexts(r) = [Nexts(q) EXCEPT ![q.last] = i]
          /\ Prevs(r) = [Prevs(q) EXCEPT ![i] = q.last]
      BY <1>3, <1>7, <2>2
    <3>2. Nexts(r)[i] = Null /\ Prevs(r)[i] = q.last
      BY <1>1, <1>9, <3>1 DEF New
    <3>3. \A j \in S : j \in LinkIds /\ j # i
      BY <1>9
    <3>4. \A j \in S : Nexts(r)[j] = IF j = q.last THEN i ELSE Nexts(q)[j]
      BY <1>9, <3>1, <3>3
    <3>5. \A j \in S : Prevs(r)[j] = Prevs(q)[j]
      BY <1>9, <3>1, <3>3
    <3> QED
      BY <3>2, <3>4, <3>5
  <2> QED
    BY <2>1, <2>2
<1>11. \A u \in Source : /\ r.srcFirst[u] = IF u = s /\ q.srcLast[u] = Null THEN i ELSE q.srcFirst[u]
                         /\ r.srcLast[u] = IF u = s THEN i ELSE q.srcLast[u]
  BY <1>6, <1>9
<1>12. /\ \A j \in S : /\ SrcNexts(r)[j] = IF j = q.srcLast[s] THEN i ELSE SrcNexts(q)[j]
                       /\ SrcPrevs(r)[j] = SrcPrevs(q)[j]
       /\ SrcNexts(r)[i] = Null /\ SrcPrevs(r)[i] = q.srcLast[s]
  BY <1>3, <1>7, <1>9, LinksAreNumbers DEF New
<1>13. \A j \in OfSource(q, S, s) :
         SeqNumOf(q, j) <= SeqNumOf(q, i) /\ SeqNumOf(q, j) < SeqNumOf(q, i)
  BY <1>2
<1>14. \E pos2 : Good(r, Lives(r), pos2, m + 1)
  <2>1. q.link[i].src = s
    BY DEF New
  <2>2. PutLast(q, r, i, s, S)
    BY <1>6, <1>8, <1>10, <1>11, <1>12 DEF PutLast
  <2> QED
    BY <1>1, <1>13, <2>1, <2>2, GoodAppend DEF S
<1> QED
  BY <1>8, <1>14

LEMMA InsertLastIsGood ==
  ASSUME NEW q \in Queues, NEW i, NEW s \in Source, New(q, i, s), NEW m \in Nat, NEW pos,
         Good(q, Lives(q) \ {i}, pos, m), q.srcLast[s] # Null,
         SeqNumOf(q, q.srcLast[s]) < SeqNumOf(q, i),
         NEW r, r = InsertLast(q, i, s)
  PROVE  SameLinks(q, r) /\ \E pos2 : Good(r, Lives(r), pos2, m + 1)
<1> DEFINE S == Lives(q) \ {i}
           O == OfSource(q, S, s)
           tail == q.srcLast[s]
<1> PICK q1 : q1 = JoinInSource(q, tail, i)
  OBVIOUS
<1> PICK q2 : q2 = JoinInGlobal(q1, q.last, i)
  OBVIOUS
<1>1. i \in Lives(q) /\ i \in LinkIds /\ i \in Pointers /\ i # Null
  BY LinksAreNumbers DEF New, Lives
<1>2. tail \in O
  BY EndsLive
<1>3. tail \in S /\ tail \in Lives(q) /\ tail # i
  BY <1>2 DEF OfSource
<1> HIDE DEF tail
<1>4. q.last # Null /\ q.last \in S /\ q.last # i
  BY <1>3, EndsLive
<1>5. /\ SameButPointers(q, q1)
      /\ SrcNexts(q1) = [SrcNexts(q) EXCEPT ![tail] = i]
      /\ SrcPrevs(q1) = [SrcPrevs(q) EXCEPT ![i] = tail]
      /\ Nexts(q1) = Nexts(q) /\ Prevs(q1) = Prevs(q)
  BY <1>1, <1>3, JoinedInSource
<1>6. q1 \in Queues /\ q.last \in Lives(q1) /\ i \in Lives(q1) /\ q1.last = q.last
  BY <1>1, <1>4, <1>5 DEF SameButPointers
<1>7. /\ SameButPointers(q1, q2)
      /\ Nexts(q2) = [Nexts(q) EXCEPT ![q.last] = i]
      /\ Prevs(q2) = [Prevs(q) EXCEPT ![i] = q.last]
      /\ SrcNexts(q2) = SrcNexts(q1) /\ SrcPrevs(q2) = SrcPrevs(q1)
  <2>1. /\ SameButPointers(q1, q2)
        /\ Nexts(q2) = [Nexts(q1) EXCEPT ![q.last] = i]
        /\ Prevs(q2) = [Prevs(q1) EXCEPT ![i] = q.last]
        /\ SrcNexts(q2) = SrcNexts(q1) /\ SrcPrevs(q2) = SrcPrevs(q1)
    BY <1>6, JoinedInGlobal
  <2> QED
    BY <1>5, <2>1
<1>8. SameButPointers(q, q2)
  BY <1>5, <1>7, SameCompose
<1>9. r = [q2 EXCEPT !.srcLast[s] = i, !.last = i]
  BY <1>6 DEF InsertLast, SameButPointers, tail
<1>10. /\ q2 \in Queues /\ Lives(q2) = Lives(q)
       /\ q2.first = q.first /\ q2.last = q.last
       /\ q2.srcFirst = q.srcFirst /\ q2.srcLast = q.srcLast
       /\ q2.ub = q.ub /\ q2.spoiled = q.spoiled
       /\ \A j \in LinkIds : q2.link[j].src = q.link[j].src /\ q2.link[j].n = q.link[j].n
  BY <1>8 DEF SameButPointers
<1>11. /\ r \in Queues /\ r.link = q2.link /\ r.last = i /\ r.first = q.first
       /\ r.ub = q.ub /\ r.spoiled = q.spoiled
       /\ r.srcFirst = q.srcFirst /\ r.srcLast = [q.srcLast EXCEPT ![s] = i]
  <2>1. r \in Queues
    <3>1. PICK sl : sl = [q2.srcLast EXCEPT ![s] = i]
      OBVIOUS
    <3>2. sl \in [Source -> Pointers]
      BY <1>1, <1>10, <3>1 DEF Queues
    <3>3. r = [q2 EXCEPT !.srcLast = sl, !.last = i]
      BY <1>9, <1>10, <3>1 DEF Queues
    <3> QED
      BY <1>1, <1>10, <3>2, <3>3 DEF Queues
  <2>2. r.link = q2.link /\ r.last = i /\ r.first = q2.first /\ r.ub = q2.ub /\ r.spoiled = q2.spoiled
    BY <1>9, <1>10 DEF Queues
  <2>3. r.srcFirst = q2.srcFirst /\ r.srcLast = [q2.srcLast EXCEPT ![s] = i]
    BY <1>9, <1>10 DEF Queues
  <2> QED
    BY <1>10, <2>1, <2>2, <2>3
<1>12. Lives(r) = Lives(q) /\ Nexts(r) = Nexts(q2) /\ Prevs(r) = Prevs(q2)
       /\ SrcNexts(r) = SrcNexts(q2) /\ SrcPrevs(r) = SrcPrevs(q2)
  BY <1>10, <1>11 DEF Lives, Nexts, Prevs, SrcNexts, SrcPrevs
<1>13. SameLinks(q, r)
  BY <1>10, <1>11, <1>12 DEF SameLinks
<1>14. /\ Nexts(q) \in [LinkIds -> Pointers] /\ Prevs(q) \in [LinkIds -> Pointers]
       /\ SrcNexts(q) \in [LinkIds -> Pointers] /\ SrcPrevs(q) \in [LinkIds -> Pointers]
       /\ S \subseteq LinkIds /\ i \notin S
       /\ q.srcFirst \in [Source -> Pointers] /\ q.srcLast \in [Source -> Pointers]
  BY PointersOfLinks DEF Lives, Queues
<1>15. \A j \in O : SeqNumOf(q, j) <= SeqNumOf(q, i) /\ SeqNumOf(q, j) < SeqNumOf(q, i)
  <2> SUFFICES ASSUME NEW j \in O
               PROVE  SeqNumOf(q, j) <= SeqNumOf(q, i) /\ SeqNumOf(q, j) < SeqNumOf(q, i)
    OBVIOUS
  <2>1. IsList(O, pos, q.srcFirst[s], tail, SrcNexts(q), SrcPrevs(q)) /\ InSequence(q, S, pos)
        /\ Placed(S, pos)
    BY DEF Good, GoodWith, InSources, Within, tail
  <2>2. pos[j] <= pos[tail] /\ j \in S /\ q.link[j].src = q.link[tail].src
    BY <1>2, <2>1 DEF IsList, OfSource
  <2>3. SeqNumOf(q, j) \in Int /\ SeqNumOf(q, tail) \in Int /\ SeqNumOf(q, i) \in Int
    BY <1>1, <1>3, <1>14, <2>2, SeqNumbers, ReceptionConstants DEF Seqs
  <2>4. SeqNumOf(q, j) <= SeqNumOf(q, tail)
    <3>1. CASE j = tail
      BY <2>3, <3>1
    <3>2. CASE j # tail
      <4>1. pos[j] < pos[tail]
        BY <1>3, <2>1, <2>2, <3>2 DEF Placed
      <4> QED
        BY <1>3, <2>1, <2>2, <4>1 DEF InSequence
    <3> QED
      BY <3>1, <3>2
  <2>5. SeqNumOf(q, tail) < SeqNumOf(q, i)
    BY DEF tail
  <2> QED
    BY <2>3, <2>4, <2>5
<1> HIDE DEF S, O
<1>16. PutLast(q, r, i, s, S)
  <2>1. /\ \A j \in S : /\ Nexts(r)[j] = IF j = q.last THEN i ELSE Nexts(q)[j]
                        /\ Prevs(r)[j] = Prevs(q)[j]
        /\ Nexts(r)[i] = Null /\ Prevs(r)[i] = q.last
    BY <1>1, <1>4, <1>7, <1>12, <1>14 DEF New
  <2>2. \A u \in Source : /\ r.srcFirst[u] = IF u = s /\ q.srcLast[u] = Null THEN i ELSE q.srcFirst[u]
                          /\ r.srcLast[u] = IF u = s THEN i ELSE q.srcLast[u]
    BY <1>11, <1>14
  <2>3. /\ \A j \in S : /\ SrcNexts(r)[j] = IF j = q.srcLast[s] THEN i ELSE SrcNexts(q)[j]
                        /\ SrcPrevs(r)[j] = SrcPrevs(q)[j]
        /\ SrcNexts(r)[i] = Null /\ SrcPrevs(r)[i] = q.srcLast[s]
    BY <1>1, <1>3, <1>5, <1>7, <1>12, <1>14 DEF New, tail
  <2>4. r.first = IF q.last = Null THEN i ELSE q.first
    BY <1>4, <1>11
  <2> QED
    BY <1>11, <1>13, <2>1, <2>2, <2>3, <2>4 DEF PutLast
<1>17. \E pos2 : Good(r, Lives(r), pos2, m + 1)
  <2>1. q.link[i].src = s
    BY DEF New
  <2> QED
    BY <1>1, <1>15, <1>16, <2>1, GoodAppend DEF S, O
<1> QED
  BY <1>13, <1>17

LEMMA InsertBehindIsGood ==
  ASSUME NEW q \in Queues, NEW i, NEW s \in Source, New(q, i, s), NEW m \in Nat, NEW pos,
         Good(q, Lives(q) \ {i}, pos, m),
         NEW place \in OfSource(q, Lives(q) \ {i}, s), place # q.srcLast[s],
         SeqNumOf(q, place) <= SeqNumOf(q, i),
         \A j \in OfSource(q, Lives(q) \ {i}, s) :
           pos[place] < pos[j] =>
             SeqNumOf(q, i) <= SeqNumOf(q, j) /\ SeqNumOf(q, i) < SeqNumOf(q, j),
         NEW r, r = InsertBehind(q, i, place)
  PROVE  SameLinks(q, r) /\ \E pos2 : Good(r, Lives(r), pos2, m + 1)
<1> DEFINE S == Lives(q) \ {i}
           O == OfSource(q, S, s)
<1> PICK after, before : after = SrcNexts(q)[place] /\ before = Prevs(q)[after]
  OBVIOUS
<1> PICK q1 : q1 = JoinInSource(q, i, after)
  OBVIOUS
<1> PICK q2 : q2 = JoinInGlobal(q1, before, i)
  OBVIOUS
<1> PICK q3 : q3 = JoinInGlobal(q2, i, after)
  OBVIOUS
<1>1. i \in Lives(q) /\ i \in LinkIds /\ i \in Pointers /\ i # Null /\ S \subseteq LinkIds
  BY LinksAreNumbers DEF New, Lives
<1>2. /\ IsList(O, pos, q.srcFirst[s], q.srcLast[s], SrcNexts(q), SrcPrevs(q))
      /\ IsList(S, pos, q.first, q.last, Nexts(q), Prevs(q))
      /\ Placed(S, pos) /\ Placed(O, pos) /\ place \in S
  <2>1. GoodWith(q, S, pos, m, q.last, Prevs(q)) /\ place \in O
    BY DEF Good
  <2>2. /\ Within(S, pos, m) /\ InSources(q, S, pos)
        /\ IsList(S, pos, q.first, q.last, Nexts(q), Prevs(q))
    BY <2>1 DEF GoodWith
  <2>3. Placed(S, pos) /\ place \in S
    BY <2>1, <2>2 DEF Within, OfSource
  <2>4. Placed(O, pos)
    BY <2>3, SourcesPlaced
  <2>5. IsList(O, pos, q.srcFirst[s], q.srcLast[s], SrcNexts(q), SrcPrevs(q))
    BY <2>2 DEF InSources
  <2> QED
    BY <2>2, <2>3, <2>4, <2>5
<1>3. after # Null /\ after \in O /\ after # place /\ pos[place] < pos[after]
  <2>1. after # Null
    BY <1>2, ListEnds
  <2>2. IsNext(O, pos, place, after)
    BY <1>2 DEF IsList
  <2> QED
    BY <1>2, <2>1, <2>2 DEF IsNext, Placed
<1>4. after \in S /\ after # i /\ place # i
  BY <1>2, <1>3 DEF OfSource
<1>5. before \in S /\ before # i
  <2>1. IsPrev(S, pos, after, before)
    BY <1>2, <1>4 DEF IsList
  <2>2. ~ (pos[after] <= pos[place])
    BY <1>2, <1>3, <1>4 DEF Placed
  <2> QED
    BY <1>2, <2>1, <2>2 DEF IsPrev
<1>6. /\ SameButPointers(q, q1)
      /\ SrcNexts(q1) = [SrcNexts(q) EXCEPT ![i] = after]
      /\ SrcPrevs(q1) = [SrcPrevs(q) EXCEPT ![after] = i]
      /\ Nexts(q1) = Nexts(q) /\ Prevs(q1) = Prevs(q)
  BY <1>1, <1>4, JoinedInSource
<1>7. q1 \in Queues /\ before \in Lives(q1) /\ i \in Lives(q1)
  BY <1>1, <1>5, <1>6 DEF SameButPointers
<1>8. /\ SameButPointers(q1, q2)
      /\ Nexts(q2) = [Nexts(q) EXCEPT ![before] = i]
      /\ Prevs(q2) = [Prevs(q) EXCEPT ![i] = before]
      /\ SrcNexts(q2) = SrcNexts(q1) /\ SrcPrevs(q2) = SrcPrevs(q1)
  BY <1>6, <1>7, JoinedInGlobal
<1>9. q2 \in Queues /\ after \in Lives(q2) /\ i \in Lives(q2)
  BY <1>1, <1>4, <1>6, <1>8 DEF SameButPointers
<1>10. /\ SameButPointers(q2, q3)
       /\ Nexts(q3) = [[Nexts(q) EXCEPT ![before] = i] EXCEPT ![i] = after]
       /\ Prevs(q3) = [[Prevs(q) EXCEPT ![i] = before] EXCEPT ![after] = i]
       /\ SrcNexts(q3) = SrcNexts(q1) /\ SrcPrevs(q3) = SrcPrevs(q1)
  <2>1. /\ SameButPointers(q2, q3)
        /\ Nexts(q3) = [Nexts(q2) EXCEPT ![i] = after]
        /\ Prevs(q3) = [Prevs(q2) EXCEPT ![after] = i]
        /\ SrcNexts(q3) = SrcNexts(q2) /\ SrcPrevs(q3) = SrcPrevs(q2)
    BY <1>9, JoinedInGlobal
  <2> QED
    BY <1>8, <2>1
<1>11. q3 \in Queues /\ place \in Lives(q3) /\ i \in Lives(q3)
  BY <1>1, <1>2, <1>6, <1>8, <1>10 DEF SameButPointers
<1>12. r = JoinInSource(q3, place, i)
  <2>1. /\ q.link[place].srcNext = after /\ q.link[after].prev = before
        /\ Live(q, after)
    BY <1>1, <1>2, <1>4, PointersOfLinks, LiveLinks
  <2> QED
    BY <2>1 DEF InsertBehind
<1>13. /\ SameButPointers(q3, r)
       /\ SrcNexts(r) = [[SrcNexts(q) EXCEPT ![i] = after] EXCEPT ![place] = i]
       /\ SrcPrevs(r) = [[SrcPrevs(q) EXCEPT ![after] = i] EXCEPT ![i] = place]
       /\ Nexts(r) = Nexts(q3) /\ Prevs(r) = Prevs(q3)
  <2>1. /\ SameButPointers(q3, r)
        /\ SrcNexts(r) = [SrcNexts(q3) EXCEPT ![place] = i]
        /\ SrcPrevs(r) = [SrcPrevs(q3) EXCEPT ![i] = place]
        /\ Nexts(r) = Nexts(q3) /\ Prevs(r) = Prevs(q3)
    BY <1>11, <1>12, JoinedInSource
  <2> QED
    BY <1>6, <1>10, <2>1
<1>14. SameButPointers(q, r)
  <2>1. SameButPointers(q, q2) /\ SameButPointers(q2, r)
    BY <1>6, <1>8, <1>10, <1>13, SameCompose
  <2> QED
    BY <2>1, SameCompose
<1>15. SameLinks(q, r)
  BY <1>14 DEF SameButPointers, SameLinks
<1>16. /\ Nexts(q) \in [LinkIds -> Pointers] /\ Prevs(q) \in [LinkIds -> Pointers]
       /\ SrcNexts(q) \in [LinkIds -> Pointers] /\ SrcPrevs(q) \in [LinkIds -> Pointers]
       /\ i \notin S
  BY PointersOfLinks
<1> HIDE DEF S, O
<1>17. PutBehind(q, r, i, place, after, before, S)
  <2>1. /\ \A j \in S : /\ Nexts(r)[j] = IF j = before THEN i ELSE Nexts(q)[j]
                        /\ Prevs(r)[j] = IF j = after THEN i ELSE Prevs(q)[j]
        /\ Nexts(r)[i] = after /\ Prevs(r)[i] = before
    BY <1>1, <1>4, <1>5, <1>10, <1>13, <1>16
  <2>2. /\ \A j \in S : /\ SrcNexts(r)[j] = IF j = place THEN i ELSE SrcNexts(q)[j]
                        /\ SrcPrevs(r)[j] = IF j = after THEN i ELSE SrcPrevs(q)[j]
        /\ SrcNexts(r)[i] = after /\ SrcPrevs(r)[i] = place
    BY <1>1, <1>2, <1>4, <1>13, <1>16
  <2>3. /\ r.first = q.first /\ r.last = q.last
        /\ r.srcFirst = q.srcFirst /\ r.srcLast = q.srcLast
    BY <1>14 DEF SameButPointers
  <2> QED
    BY <1>15, <2>1, <2>2, <2>3 DEF PutBehind
<1>18. \E pos2 : Good(r, Lives(r), pos2, m + 1)
  <2>1. q.link[i].src = s
    BY DEF New
  <2> QED
    BY <1>1, <1>3, <1>17, <2>1, GoodInsert DEF S, O
<1> QED
  BY <1>15, <1>18

(* A queue whose lists are well made for S stays so when nothing the lists *)
(* are made of changes for S.                                              *)
SameLists(q, r, S, last, prev) ==
  /\ S \subseteq Lives(r)
  /\ \A j \in S : r.link[j].src = q.link[j].src /\ r.link[j].n = q.link[j].n
  /\ \A j \in S : Nexts(r)[j] = Nexts(q)[j] /\ Prevs(r)[j] = prev[j]
  /\ \A j \in S : SrcNexts(r)[j] = SrcNexts(q)[j] /\ SrcPrevs(r)[j] = SrcPrevs(q)[j]
  /\ r.first = q.first /\ r.last = last
  /\ r.srcFirst = q.srcFirst /\ r.srcLast = q.srcLast

LEMMA GoodSame ==
  ASSUME NEW q, NEW S, NEW pos, NEW m, NEW last, NEW prev, GoodWith(q, S, pos, m, last, prev),
         S \subseteq LinkIds, NEW r, SameLists(q, r, S, last, prev)
  PROVE  Good(r, S, pos, m)
<1>1. /\ Within(S, pos, m) /\ InSources(q, S, pos) /\ InSequence(q, S, pos)
      /\ IsList(S, pos, q.first, last, Nexts(q), prev) /\ Placed(S, pos)
  BY DEF GoodWith, Within
<1>2. \A j \in S : /\ Nexts(r)[j] = Nexts(q)[j] /\ Prevs(r)[j] = prev[j]
                   /\ SrcNexts(r)[j] = SrcNexts(q)[j] /\ SrcPrevs(r)[j] = SrcPrevs(q)[j]
                   /\ r.link[j].src = q.link[j].src /\ SeqNumOf(r, j) = SeqNumOf(q, j)
  BY DEF SameLists, SeqNumOf
<1>3. IsList(S, pos, r.first, r.last, Nexts(r), Prevs(r))
  <2>1. Unchanged(S, pos, pos, q.first, last, Nexts(q), prev, Nexts(r), Prevs(r))
    BY <1>1, <1>2 DEF Unchanged
  <2>2. IsList(S, pos, q.first, last, Nexts(r), Prevs(r))
    BY <2>1, ListSame
  <2> QED
    BY <2>2 DEF SameLists
<1>4. InSources(r, S, pos)
  <2> SUFFICES ASSUME NEW s \in Source
               PROVE  IsList(OfSource(r, S, s), pos, r.srcFirst[s], r.srcLast[s],
                             SrcNexts(r), SrcPrevs(r))
    BY DEF InSources
  <2> DEFINE O == OfSource(q, S, s)
  <2>1. OfSource(r, S, s) = O /\ O \subseteq S
    BY <1>2 DEF OfSource
  <2>2. Placed(O, pos) /\ IsList(O, pos, q.srcFirst[s], q.srcLast[s], SrcNexts(q), SrcPrevs(q))
    BY <1>1, SourcesPlaced DEF InSources
  <2>3. \A j \in O : SrcNexts(r)[j] = SrcNexts(q)[j] /\ SrcPrevs(r)[j] = SrcPrevs(q)[j]
    BY <1>2, <2>1
  <2> HIDE DEF O
  <2>4. Unchanged(O, pos, pos, q.srcFirst[s], q.srcLast[s], SrcNexts(q), SrcPrevs(q),
                  SrcNexts(r), SrcPrevs(r))
    BY <2>2, <2>3 DEF Unchanged
  <2>5. IsList(O, pos, q.srcFirst[s], q.srcLast[s], SrcNexts(r), SrcPrevs(r))
    BY <2>4, ListSame
  <2> QED
    BY <2>1, <2>5 DEF SameLists
<1>5. InSequence(r, S, pos)
  BY <1>1, <1>2 DEF InSequence
<1> QED
  BY <1>1, <1>3, <1>4, <1>5 DEF Good, GoodWith, SameLists

(* The search for the place of a packet ends where it should: all packets  *)
(* of the source behind are newer, and the packet found is not.  A step    *)
(* goes at least one place down, and there are no more than MaxLinks.      *)
LEMMA PlaceFound ==
  ASSUME NEW q \in Queues, NEW S, NEW pos, NEW m \in 0 .. MaxLinks, Good(q, S, pos, m),
         NEW s \in Source, q.srcLast[s] # Null, NEW seq \in Seqs,
         NEW place, place = PlaceOf(q, s, seq)
  PROVE  /\ place = Null \/ place \in OfSource(q, S, s)
         /\ place # Null => SeqNumOf(q, place) <= seq
         /\ \A j \in OfSource(q, S, s) :
              place = Null \/ pos[place] < pos[j] => seq < SeqNumOf(q, j)
<1> DEFINE O == OfSource(q, S, s)
           Step(p, k) == IF Live(q, p) /\ seq < SeqNumOf(q, p) THEN q.link[p].srcPrev ELSE p
           Made(f) == f = [k \in 0 .. MaxLinks |->
                             IF k = 0 THEN q.srcLast[s] ELSE Step(f[k - 1], k)]
           back == CHOOSE f : Made(f)
           g == [x \in Pointers \X Nat |-> Step(x[1], x[2])]
<1>1. MaxLinks \in Nat /\ q.srcLast[s] \in Pointers
  BY QueueConstants DEF Queues
<1>2. \A p \in Pointers, k \in Nat : Step(p, k) \in Pointers
  <2> SUFFICES ASSUME NEW p \in Pointers, Live(q, p) PROVE q.link[p].srcPrev \in Pointers
    OBVIOUS
  <2>1. q.link[p] \in PktLinks
    BY LiveLinks
  <2> QED
    BY <2>1 DEF PktLinks
<1>3. g \in [Pointers \X Nat -> Pointers]
  <2> HIDE DEF Step
  <2> QED
    BY <1>2
<1>4. PICK f \in [0 .. MaxLinks -> Pointers] : Steps(f, q.srcLast[s], g, MaxLinks)
  <2> DEFINE a == q.srcLast[s]
  <2>1. a \in Pointers
    BY <1>1
  <2> HIDE DEF g, a
  <2>2. \E f \in [0 .. MaxLinks -> Pointers] : Steps(f, a, g, MaxLinks)
    BY <1>1, <1>3, <2>1, StepsExist
  <2> QED
    BY <2>2 DEF a
<1>5. \A k \in 1 .. MaxLinks : f[k] = Step(f[k - 1], k)
  <2> HIDE DEF Step
  <2>1. ASSUME NEW k \in 1 .. MaxLinks PROVE f[k] = Step(f[k - 1], k)
    <3>1. k - 1 \in 0 .. MaxLinks /\ f[k - 1] \in Pointers /\ k \in Nat
      BY <1>1
    <3>2. <<f[k - 1], k>> \in Pointers \X Nat /\ f[k] = g[<<f[k - 1], k>>]
      BY <1>4, <3>1 DEF Steps
    <3> QED
      BY <3>2
  <2> QED
    BY <2>1
<1>6. Made(f)
  <2> DEFINE F == [k \in 0 .. MaxLinks |-> IF k = 0 THEN q.srcLast[s] ELSE Step(f[k - 1], k)]
  <2> HIDE DEF Step
  <2>1. ASSUME NEW k \in 0 .. MaxLinks PROVE F[k] = f[k]
    BY <1>1, <1>4, <1>5 DEF Steps
  <2>2. F = f
    <3>1. F = [k \in 0 .. MaxLinks |-> F[k]] /\ f = [k \in 0 .. MaxLinks |-> f[k]]
      BY <1>4
    <3> HIDE DEF F
    <3> QED
      BY <2>1, <3>1
  <2> QED
    BY <2>2
<1>7. Made(back)
  <2> HIDE DEF Made
  <2> QED
    BY <1>6
<1>8. place = back[MaxLinks]
  BY DEF PlaceOf
<1> HIDE DEF back
<1>9. back[0] = q.srcLast[s] /\ \A k \in 1 .. MaxLinks : back[k] = Step(back[k - 1], k)
  <2> HIDE DEF Step
  <2>1. back = [k \in 0 .. MaxLinks |-> IF k = 0 THEN q.srcLast[s] ELSE Step(back[k - 1], k)]
    BY <1>7
  <2>2. 0 \in 0 .. MaxLinks /\ \A k \in 1 .. MaxLinks : k \in 0 .. MaxLinks /\ k # 0
    BY <1>1
  <2>3. back[0] = q.srcLast[s]
    BY <2>1, <2>2
  <2>4. ASSUME NEW k \in 1 .. MaxLinks PROVE back[k] = Step(back[k - 1], k)
    BY <2>1, <2>2
  <2> QED
    BY <2>3, <2>4
<1> HIDE DEF Made, g
<1> DEFINE Behind(p) == \A j \in O : p = Null \/ pos[p] < pos[j] => seq < SeqNumOf(q, j)
           IsPlace(p) == p = Null \/ ~ (seq < SeqNumOf(q, p))
           Reached(p, k) == /\ p = Null \/ p \in O
                            /\ Behind(p)
                            /\ IsPlace(p) \/ pos[p] <= MaxLinks - k
<1>10. /\ IsList(O, pos, q.srcFirst[s], q.srcLast[s], SrcNexts(q), SrcPrevs(q))
       /\ Placed(O, pos) /\ Null \notin O /\ O \subseteq LinkIds /\ O \subseteq Lives(q)
       /\ \A j \in O : pos[j] \in 1 .. m
  <2>1. Placed(S, pos) /\ InSources(q, S, pos) /\ S \subseteq Lives(q) /\ \A j \in S : pos[j] \in 1 .. m
    BY DEF Good, GoodWith, Within
  <2>2. Placed(O, pos)
    BY <2>1, SourcesPlaced
  <2>3. O \subseteq S /\ Lives(q) \subseteq LinkIds
    BY DEF OfSource, Lives
  <2> QED
    BY <2>1, <2>2, <2>3, LinksAreNumbers DEF InSources
<1> HIDE DEF O
<1>11. \A j \in O : /\ SeqNumOf(q, j) \in Int /\ pos[j] \in Int /\ Live(q, j)
                    /\ q.link[j].srcPrev = SrcPrevs(q)[j]
  BY <1>10, SeqNumbers, ReceptionConstants, LiveLinks, PointersOfLinks DEF Seqs
<1>12. seq \in Int /\ ~Live(q, Null) /\ m \in Int /\ m <= MaxLinks
  BY <1>1, ReceptionConstants DEF Seqs, Live
<1>13. Reached(back[0], 0)
  <2> DEFINE p == q.srcLast[s]
  <2>1. p \in O /\ \A j \in O : pos[j] <= pos[p]
    BY <1>10 DEF IsList
  <2>2. Behind(p) /\ pos[p] <= MaxLinks - 0 /\ p # Null
    BY <1>1, <1>10, <1>11, <1>12, <2>1
  <2> QED
    BY <1>9, <2>1, <2>2
<1>14. ASSUME NEW k \in 0 .. MaxLinks - 1, Reached(back[k], k)
       PROVE  Reached(back[k + 1], k + 1)
  <2>1. k + 1 \in 1 .. MaxLinks /\ back[k + 1] = Step(back[k], k + 1)
    BY <1>1, <1>9
  <2> PICK p : p = back[k]
    OBVIOUS
  <2>2. CASE IsPlace(p)
    <3>1. back[k + 1] = p
      BY <2>1, <2>2, <1>12
    <3> QED
      BY <1>14, <2>2, <3>1
  <2>3. CASE ~IsPlace(p)
    <3>1. p \in O /\ seq < SeqNumOf(q, p) /\ p # Null /\ pos[p] <= MaxLinks - k
      BY <1>14, <2>3
    <3> PICK b : b = SrcPrevs(q)[p]
      OBVIOUS
    <3>2. back[k + 1] = b
      BY <1>11, <2>1, <3>1
    <3>3. IsPrev(O, pos, p, b)
      BY <1>10, <3>1 DEF IsList
    <3>4. b = Null \/ b \in O
      BY <3>3 DEF IsPrev
    <3>5. Behind(b)
      <4> SUFFICES ASSUME NEW j \in O, b = Null \/ pos[b] < pos[j] PROVE seq < SeqNumOf(q, j)
        OBVIOUS
      <4>1. pos[p] <= pos[j]
        BY <1>11, <3>1, <3>3, <3>4 DEF IsPrev
      <4>2. CASE pos[p] = pos[j]
        BY <1>10, <3>1, <4>2 DEF Placed
      <4>3. CASE pos[p] < pos[j]
        BY <1>14, <3>1, <4>3
      <4> QED
        BY <1>11, <3>1, <4>1, <4>2, <4>3
    <3>6. b # Null => pos[b] <= MaxLinks - (k + 1)
      BY <1>1, <1>11, <3>1, <3>3, <3>4 DEF IsPrev
    <3> QED
      BY <3>2, <3>4, <3>5, <3>6
  <2> QED
    BY <2>2, <2>3
<1>15. Reached(back[MaxLinks], MaxLinks)
  <2> DEFINE T == {k \in Nat : k <= MaxLinks => Reached(back[k], k)}
  <2> HIDE DEF Reached
  <2>1. 0 \in T
    BY <1>13
  <2>2. \A k \in Nat : k \in T => k + 1 \in T
    BY <1>1, <1>14
  <2>3. MaxLinks \in T
    <3> HIDE DEF T
    <3> QED
      BY <1>1, <2>1, <2>2, InductionOnSet
  <2> QED
    BY <1>1, <2>3
<1>16. IsPlace(place)
  <2>1. place = Null \/ place \in O
    BY <1>8, <1>15
  <2>2. ~ (pos[place] <= MaxLinks - MaxLinks) \/ place = Null
    BY <1>1, <1>10, <2>1
  <2> QED
    BY <1>8, <1>15, <2>2
<1>17. /\ place = Null \/ place \in O
       /\ Behind(place)
  BY <1>8, <1>15
<1>18. place # Null => SeqNumOf(q, place) <= seq
  BY <1>11, <1>12, <1>16, <1>17
<1> QED
  BY <1>17, <1>18 DEF O

LEMMA GoodMore ==
  ASSUME NEW q, NEW S, NEW pos, NEW m \in Nat, Good(q, S, pos, m)
  PROVE  Good(q, S, pos, m + 1)
BY DEF Good, GoodWith, Within

Spoiled(q, r) == r \in Queues /\ r.ub = q.ub /\ r.spoiled = TRUE /\ Lives(r) = Lives(q)

LEMMA InsertFirstSpoils ==
  ASSUME NEW q \in Queues, NEW i, NEW s \in Source, New(q, i, s), NEW m \in Nat, NEW pos,
         Good(q, Lives(q) \ {i}, pos, m), q.srcLast[s] # Null,
         NEW r, r = InsertFirst(q, i, s)
  PROVE  Spoiled(q, r)
<1> DEFINE S == Lives(q) \ {i}
<1> PICK head, before : head = q.srcFirst[s] /\ before = Prevs(q)[head]
  OBVIOUS
<1> PICK q1 : q1 = JoinInSource(q, i, head)
  OBVIOUS
<1> PICK q2 : q2 = IF before = Null THEN q1 ELSE JoinInGlobal(q1, before, i)
  OBVIOUS
<1> PICK q3 : q3 = JoinInGlobal(q2, i, head)
  OBVIOUS
<1>1. i \in Lives(q) /\ i \in Pointers
  BY LinksAreNumbers DEF New, Lives
<1>2. head \in S /\ head \in LinkIds
  <2>1. head # Null /\ head \in OfSource(q, S, s) /\ S \subseteq LinkIds
    BY EndsLive
  <2> QED
    BY <2>1 DEF OfSource
<1>3. before = Null \/ before \in S
  <2>1. IsPrev(S, pos, head, before)
    BY <1>2 DEF Good, GoodWith, IsList
  <2> QED
    BY <2>1 DEF IsPrev
<1>4. SameButPointers(q, q1)
  BY <1>1, <1>2, JoinedInSource
<1>5. SameButPointers(q1, q2)
  <2>1. CASE before = Null
    BY <1>4, <2>1 DEF SameButPointers
  <2>2. CASE before # Null
    <3>1. q1 \in Queues /\ before \in Lives(q1) /\ i \in Lives(q1) /\ q2 = JoinInGlobal(q1, before, i)
      BY <1>1, <1>3, <1>4, <2>2 DEF SameButPointers
    <3> QED
      BY <3>1, JoinedInGlobal
  <2> QED
    BY <2>1, <2>2
<1>6. SameButPointers(q, q2)
  BY <1>4, <1>5, SameCompose
<1>7. q2 \in Queues /\ head \in Lives(q2) /\ i \in Lives(q2)
  BY <1>1, <1>2, <1>6 DEF SameButPointers
<1>8. SameButPointers(q2, q3)
  BY <1>7, JoinedInGlobal
<1>9. SameButPointers(q, q3)
  BY <1>6, <1>8, SameCompose
<1>10. r = [q3 EXCEPT !.srcFirst[s] = i, !.spoiled = TRUE]
  <2>1. Live(q, head) /\ q.link[head].prev = before
    BY <1>2, LiveLinks, PointersOfLinks
  <2> QED
    BY <2>1 DEF InsertFirst
<1>11. q3 \in Queues /\ q3.ub = q.ub /\ Lives(q3) = Lives(q)
  BY <1>9 DEF SameButPointers
<1>12. r \in Queues
  <2>1. PICK sf : sf = [q3.srcFirst EXCEPT ![s] = i]
    OBVIOUS
  <2>2. sf \in [Source -> Pointers]
    BY <1>1, <1>11, <2>1 DEF Queues
  <2>3. r = [q3 EXCEPT !.srcFirst = sf, !.spoiled = TRUE]
    BY <1>10, <1>11, <2>1 DEF Queues
  <2> QED
    BY <1>11, <2>2, <2>3 DEF Queues
<1>13. r.ub = q3.ub /\ r.spoiled = TRUE /\ r.link = q3.link
  BY <1>10, <1>11 DEF Queues
<1> QED
  BY <1>11, <1>12, <1>13 DEF Lives, Spoiled

(* Whatever the place, the lists stay well made, unless the packet goes in *)
(* front of those of its source.                                           *)
LEMMA InsertRecvPacketIsGood ==
  ASSUME NEW q \in Queues, NEW i, NEW s \in Source, New(q, i, s), NEW m \in 0 .. MaxLinks,
         NEW pos, Good(q, Lives(q) \ {i}, pos, m), q.ub = FALSE, q.spoiled = FALSE,
         NEW r, r = InsertRecvPacket(q, i, s)
  PROVE  /\ r \in Queues /\ r.ub = FALSE /\ Lives(r) \subseteq Lives(q)
         /\ ~r.spoiled => \E pos2 : Good(r, Lives(r), pos2, m + 1)
<1> DEFINE S == Lives(q) \ {i}
           O == OfSource(q, S, s)
           seq == SeqNumOf(q, i)
           tail == q.srcLast[s]
           place == PlaceOf(q, s, seq)
<1>1. m \in Nat /\ i \in Lives(q) /\ i \in LinkIds /\ seq \in Seqs
  BY QueueConstants, SeqNumbers DEF New, Lives
<1>2. tail # Null => tail \in O /\ tail \in Lives(q) /\ tail \in LinkIds /\ Live(q, tail)
                     /\ SeqNumOf(q, tail) \in Seqs
  <2> SUFFICES ASSUME tail # Null
               PROVE  tail \in O /\ tail \in Lives(q) /\ tail \in LinkIds /\ Live(q, tail)
                      /\ SeqNumOf(q, tail) \in Seqs
    OBVIOUS
  <2>1. tail \in O
    BY EndsLive
  <2>2. tail \in Lives(q)
    BY <2>1 DEF OfSource
  <2>3. tail \in LinkIds /\ Live(q, tail)
    BY <2>2, LiveLinks
  <2> QED
    BY <2>1, <2>2, <2>3, SeqNumbers
<1>3. seq \in Int /\ (tail # Null => SeqNumOf(q, tail) \in Int)
  BY <1>1, <1>2, ReceptionConstants DEF Seqs
<1> HIDE DEF seq, tail, place, O
<1>4. CASE tail = Null
  <2>1. r = InsertOnly(q, i, s)
    BY <1>4 DEF InsertRecvPacket, Live, tail
  <2>2. SameLinks(q, r) /\ \E pos2 : Good(r, Lives(r), pos2, m + 1)
    BY <1>1, <1>4, <2>1, InsertOnlyIsGood DEF tail
  <2> QED
    BY <2>2 DEF SameLinks
<1>5. CASE tail # Null /\ seq < SeqNumOf(q, tail)
  <2>1. /\ place = Null => r = InsertFirst(q, i, s)
        /\ place # Null /\ Live(q, place) => r = InsertBehind(q, i, place)
    <3> DEFINE found == CASE place = Null -> InsertFirst(q, i, s)
                          [] place # Null /\ ~Live(q, place) -> [q EXCEPT !.ub = TRUE]
                          [] OTHER -> InsertBehind(q, i, place)
    <3>1. r = CASE tail = Null -> InsertOnly(q, i, s)
                [] tail # Null /\ ~Live(q, tail) -> [q EXCEPT !.ub = TRUE]
                [] Live(q, tail) /\ seq < SeqNumOf(q, tail) -> found
                [] Live(q, tail) /\ seq = SeqNumOf(q, tail) -> [q EXCEPT !.link[i] = Freed]
                [] OTHER -> InsertLast(q, i, s)
      BY DEF InsertRecvPacket, tail, seq, place
    <3>2. r = found
      <4>1. ~ (tail = Null) /\ Live(q, tail) /\ seq < SeqNumOf(q, tail) /\ seq # SeqNumOf(q, tail)
        BY <1>2, <1>3, <1>5
      <4> HIDE DEF found
      <4> QED
        BY <3>1, <4>1
    <3>3. place = Null => found = InsertFirst(q, i, s)
      OBVIOUS
    <3>4. place # Null /\ Live(q, place) => found = InsertBehind(q, i, place)
      OBVIOUS
    <3> QED
      BY <3>2, <3>3, <3>4
  <2>2. /\ place = Null \/ place \in O
        /\ place # Null => SeqNumOf(q, place) <= seq
        /\ \A j \in O : place = Null \/ pos[place] < pos[j] => seq < SeqNumOf(q, j)
    <3>1. q.srcLast[s] # Null
      BY <1>5 DEF tail
    <3>2. place = PlaceOf(q, s, seq)
      BY DEF place
    <3> QED
      BY <1>1, <3>1, <3>2, PlaceFound DEF O
  <2>3. CASE place = Null
    <3>1. r = InsertFirst(q, i, s)
      BY <2>1, <2>3
    <3>2. Spoiled(q, r)
      BY <1>1, <1>5, <3>1, InsertFirstSpoils DEF tail
    <3> QED
      BY <3>2 DEF Spoiled
  <2>4. CASE place # Null
    <3>1. place \in O /\ place \in Lives(q) /\ place \in LinkIds
      BY <2>2, <2>4 DEF O, OfSource, Lives
    <3>2. r = InsertBehind(q, i, place)
      <4>1. Live(q, place)
        BY <3>1, LiveLinks
      <4> QED
        BY <2>1, <2>4, <4>1
    <3>3. SeqNumOf(q, place) \in Int /\ \A j \in O : SeqNumOf(q, j) \in Int
      <4>1. O \subseteq LinkIds
        BY DEF O, OfSource, Lives
      <4> QED
        BY <3>1, <4>1, SeqNumbers, ReceptionConstants DEF Seqs
    <3>4. place # tail
      BY <1>3, <1>5, <2>2, <2>4, <3>3
    <3>5. \A j \in O : pos[place] < pos[j] =>
                         seq <= SeqNumOf(q, j) /\ seq < SeqNumOf(q, j)
      BY <1>3, <2>2, <3>3
    <3>6. SameLinks(q, r) /\ \E pos2 : Good(r, Lives(r), pos2, m + 1)
      <4>1. SeqNumOf(q, place) <= seq
        BY <2>2, <2>4
      <4> HIDE DEF place
      <4> QED
        BY <1>1, <3>1, <3>2, <3>4, <3>5, <4>1, InsertBehindIsGood DEF O, seq, tail
    <3> QED
      BY <3>6 DEF SameLinks
  <2> QED
    BY <2>3, <2>4
<1>6. CASE tail # Null /\ seq = SeqNumOf(q, tail)
  <2>1. r = [q EXCEPT !.link[i] = Freed]
    BY <1>2, <1>3, <1>6 DEF InsertRecvPacket, tail, seq
  <2>2. /\ r \in Queues /\ r.ub = FALSE /\ r.spoiled = FALSE
        /\ r.link = [q.link EXCEPT ![i] = Freed]
        /\ r.first = q.first /\ r.last = q.last
        /\ r.srcFirst = q.srcFirst /\ r.srcLast = q.srcLast
    BY <1>1, <2>1 DEF Queues
  <2>3. \A j \in LinkIds : r.link[j] = IF j = i THEN Freed ELSE q.link[j]
    BY <2>2 DEF Queues
  <2>4. Lives(r) = S /\ S \subseteq LinkIds /\ i \notin S
    BY <2>3 DEF Lives
  <2> HIDE DEF S
  <2>5. SameLists(q, r, S, q.last, Prevs(q))
    BY <2>2, <2>3, <2>4 DEF SameLists, Nexts, Prevs, SrcNexts, SrcPrevs
  <2>6. Good(r, S, pos, m)
    <3>1. GoodWith(q, S, pos, m, q.last, Prevs(q))
      BY DEF Good, S
    <3> QED
      BY <2>4, <2>5, <3>1, GoodSame
  <2>7. Good(r, S, pos, m + 1)
    BY <1>1, <2>6, GoodMore
  <2>8. S \subseteq Lives(q)
    BY DEF S
  <2> QED
    BY <2>2, <2>4, <2>7, <2>8
<1>7. CASE tail # Null /\ ~ (seq < SeqNumOf(q, tail)) /\ seq # SeqNumOf(q, tail)
  <2>1. r = InsertLast(q, i, s)
    BY <1>2, <1>7 DEF InsertRecvPacket, tail, seq
  <2>2. SeqNumOf(q, tail) < seq
    BY <1>3, <1>7
  <2>3. SameLinks(q, r) /\ \E pos2 : Good(r, Lives(r), pos2, m + 1)
    BY <1>1, <1>7, <2>1, <2>2, InsertLastIsGood DEF tail, seq
  <2> QED
    BY <2>3 DEF SameLinks
<1> QED
  BY <1>4, <1>5, <1>6, <1>7

-----------------------------------------------------------------------------
(* A link that is taken out of both lists.                                 *)
TakenOut(q, r, i, s, S, last, prev, last2, prev2) ==
  /\ S \ {i} \subseteq Lives(r)
  /\ \A j \in S \ {i} : r.link[j].src = q.link[j].src /\ r.link[j].n = q.link[j].n
  /\ r.first = IF prev[i] = Null THEN Nexts(q)[i] ELSE q.first
  /\ last2 = IF Nexts(q)[i] = Null THEN prev[i] ELSE last
  /\ \A j \in S \ {i} :
       /\ Nexts(r)[j] = IF j = prev[i] THEN Nexts(q)[i] ELSE Nexts(q)[j]
       /\ prev2[j] = IF j = Nexts(q)[i] THEN prev[i] ELSE prev[j]
  /\ \A u \in Source :
       /\ r.srcFirst[u] = IF u = s /\ SrcPrevs(q)[i] = Null THEN SrcNexts(q)[i] ELSE q.srcFirst[u]
       /\ r.srcLast[u] = IF u = s /\ SrcNexts(q)[i] = Null THEN SrcPrevs(q)[i] ELSE q.srcLast[u]
  /\ \A j \in S \ {i} :
       /\ SrcNexts(r)[j] = IF j = SrcPrevs(q)[i] THEN SrcNexts(q)[i] ELSE SrcNexts(q)[j]
       /\ SrcPrevs(r)[j] = IF j = SrcNexts(q)[i] THEN SrcPrevs(q)[i] ELSE SrcPrevs(q)[j]

LEMMA GoodRemove ==
  ASSUME NEW q, NEW S \in SUBSET LinkIds, NEW pos, NEW m, NEW last, NEW prev,
         GoodWith(q, S, pos, m, last, prev),
         NEW i \in S, NEW s \in Source, q.link[i].src = s, q.srcFirst[s] = i,
         NEW r, NEW last2, NEW prev2, TakenOut(q, r, i, s, S, last, prev, last2, prev2)
  PROVE  GoodWith(r, S \ {i}, pos, m, last2, prev2)
<1> DEFINE T == S \ {i}
<1>0. /\ T \subseteq Lives(r)
      /\ \A j \in T : r.link[j].src = q.link[j].src /\ r.link[j].n = q.link[j].n
      /\ r.first = IF prev[i] = Null THEN Nexts(q)[i] ELSE q.first
      /\ last2 = IF Nexts(q)[i] = Null THEN prev[i] ELSE last
      /\ \A j \in T : /\ Nexts(r)[j] = IF j = prev[i] THEN Nexts(q)[i] ELSE Nexts(q)[j]
                      /\ prev2[j] = IF j = Nexts(q)[i] THEN prev[i] ELSE prev[j]
      /\ \A u \in Source :
           /\ r.srcFirst[u] = IF u = s /\ SrcPrevs(q)[i] = Null THEN SrcNexts(q)[i] ELSE q.srcFirst[u]
           /\ r.srcLast[u] = IF u = s /\ SrcNexts(q)[i] = Null THEN SrcPrevs(q)[i] ELSE q.srcLast[u]
      /\ \A j \in T :
           /\ SrcNexts(r)[j] = IF j = SrcPrevs(q)[i] THEN SrcNexts(q)[i] ELSE SrcNexts(q)[j]
           /\ SrcPrevs(r)[j] = IF j = SrcNexts(q)[i] THEN SrcPrevs(q)[i] ELSE SrcPrevs(q)[j]
  BY DEF TakenOut
<1>1. /\ Within(S, pos, m) /\ InSources(q, S, pos) /\ InSequence(q, S, pos)
      /\ IsList(S, pos, q.first, last, Nexts(q), prev) /\ Placed(S, pos)
  BY DEF GoodWith, Within
<1>2. IsList(T, pos, r.first, last2, Nexts(r), prev2) /\ Placed(T, pos)
  <2>1. Removed(S, i, pos, q.first, last, Nexts(q), prev, r.first, last2, Nexts(r), prev2)
    BY <1>0, <1>1 DEF Removed
  <2> QED
    BY <2>1, ListRemove
<1>3. Within(T, pos, m)
  BY <1>1, <1>2 DEF Within
<1>4. InSources(r, T, pos)
  <2> SUFFICES ASSUME NEW u \in Source
               PROVE  IsList(OfSource(r, T, u), pos, r.srcFirst[u], r.srcLast[u],
                             SrcNexts(r), SrcPrevs(r))
    BY DEF InSources
  <2> DEFINE O == OfSource(q, S, u)
  <2>1. O \subseteq S /\ OfSource(r, T, u) = O \ {i}
    BY <1>0 DEF OfSource
  <2>2. Placed(O, pos) /\ IsList(O, pos, q.srcFirst[u], q.srcLast[u], SrcNexts(q), SrcPrevs(q))
    BY <1>1, SourcesPlaced DEF InSources
  <2>3. i \in O <=> u = s
    BY DEF OfSource
  <2> HIDE DEF O
  <2>4. CASE u = s
    <3>1. Removed(O, i, pos, q.srcFirst[u], q.srcLast[u], SrcNexts(q), SrcPrevs(q),
                  r.srcFirst[u], r.srcLast[u], SrcNexts(r), SrcPrevs(r))
      BY <1>0, <2>1, <2>2, <2>3, <2>4 DEF Removed
    <3> QED
      BY <2>1, <3>1, ListRemove
  <2>5. CASE u # s
    <3> DEFINE V == OfSource(q, S, s)
    <3>1. i \in V /\ Placed(V, pos)
          /\ IsList(V, pos, q.srcFirst[s], q.srcLast[s], SrcNexts(q), SrcPrevs(q))
      <4>1. i \in V
        BY DEF OfSource
      <4> QED
        BY <1>1, <4>1, SourcesPlaced DEF InSources
    <3>2. \A j \in O : j \notin V
      BY <2>5 DEF O, OfSource
    <3> HIDE DEF V
    <3>3. (SrcPrevs(q)[i] = Null \/ SrcPrevs(q)[i] \in V) /\ (SrcNexts(q)[i] = Null \/ SrcNexts(q)[i] \in V)
      BY <3>1 DEF IsList, IsNext, IsPrev
    <3>4. \A j \in O : j # SrcPrevs(q)[i] /\ j # SrcNexts(q)[i] /\ j \in T
      BY <2>1, <2>2, <2>3, <2>5, <3>2, <3>3 DEF Placed
    <3>5. \A j \in O : SrcNexts(r)[j] = SrcNexts(q)[j] /\ SrcPrevs(r)[j] = SrcPrevs(q)[j]
      BY <1>0, <3>4
    <3>6. Unchanged(O, pos, pos, q.srcFirst[u], q.srcLast[u], SrcNexts(q), SrcPrevs(q),
                    SrcNexts(r), SrcPrevs(r))
      BY <2>2, <3>5 DEF Unchanged
    <3>7. IsList(O, pos, q.srcFirst[u], q.srcLast[u], SrcNexts(r), SrcPrevs(r))
      BY <3>6, ListSame
    <3>8. r.srcFirst[u] = q.srcFirst[u] /\ r.srcLast[u] = q.srcLast[u] /\ O \ {i} = O
      BY <1>0, <2>3, <2>5
    <3> QED
      BY <2>1, <3>7, <3>8
  <2> QED
    BY <2>4, <2>5
<1>5. InSequence(r, T, pos)
  <2> DEFINE Ends(k) == \A x \in T : r.link[x].src = r.link[k].src => pos[x] <= pos[k]
  <2> SUFFICES ASSUME NEW j \in T, NEW k \in T, r.link[j].src = r.link[k].src, pos[j] < pos[k]
               PROVE  /\ SeqNumOf(r, j) <= SeqNumOf(r, k)
                      /\ Ends(k) => SeqNumOf(r, j) < SeqNumOf(r, k)
    BY DEF InSequence
  <2>1. SeqNumOf(r, j) = SeqNumOf(q, j) /\ SeqNumOf(r, k) = SeqNumOf(q, k)
        /\ q.link[j].src = q.link[k].src
    BY <1>0 DEF SeqNumOf
  <2>2. q.link[k].src = s => pos[i] <= pos[k]
    <3>1. IsList(OfSource(q, S, s), pos, q.srcFirst[s], q.srcLast[s], SrcNexts(q), SrcPrevs(q))
      BY <1>1 DEF InSources
    <3> QED
      BY <3>1 DEF IsList, OfSource
  <2>3. Ends(k) => \A x \in S : q.link[x].src = q.link[k].src => pos[x] <= pos[k]
    BY <1>0, <2>2
  <2> HIDE DEF Ends
  <2> QED
    BY <1>1, <2>1, <2>3 DEF InSequence
<1> QED
  BY <1>0, <1>2, <1>3, <1>4, <1>5 DEF GoodWith

LEMMA LinkFreed ==
  ASSUME NEW q \in Queues, NEW i \in LinkIds, NEW r, r = [q EXCEPT !.link[i] = Freed]
  PROVE  /\ r \in Queues /\ Lives(r) = Lives(q) \ {i}
         /\ \A j \in LinkIds \ {i} : r.link[j] = q.link[j]
         /\ r.first = q.first /\ r.last = q.last
         /\ r.srcFirst = q.srcFirst /\ r.srcLast = q.srcLast
         /\ r.ub = q.ub /\ r.spoiled = q.spoiled
<1>1. /\ r \in Queues
      /\ r.link = [q.link EXCEPT ![i] = Freed]
      /\ r.first = q.first /\ r.last = q.last
      /\ r.srcFirst = q.srcFirst /\ r.srcLast = q.srcLast
      /\ r.ub = q.ub /\ r.spoiled = q.spoiled
  BY DEF Queues
<1>2. \A j \in LinkIds : r.link[j] = IF j = i THEN Freed ELSE q.link[j]
  BY <1>1 DEF Queues
<1> QED
  BY <1>1, <1>2 DEF Lives

(* The first link is taken out of its source's list.                       *)
SourceUnlinked(q, r, s, next) ==
  /\ SameLinks(q, r) /\ r.first = q.first /\ r.last = q.last
  /\ r.srcFirst = [q.srcFirst EXCEPT ![s] = next]
  /\ r.srcLast = IF next = Null THEN [q.srcLast EXCEPT ![s] = Null] ELSE q.srcLast
  /\ Nexts(r) = Nexts(q) /\ Prevs(r) = Prevs(q) /\ SrcNexts(r) = SrcNexts(q)
  /\ SrcPrevs(r) = IF next = Null THEN SrcPrevs(q) ELSE [SrcPrevs(q) EXCEPT ![next] = Null]

LEMMA UnlinkedFromSource ==
  ASSUME NEW q \in Queues, NEW i \in Lives(q), NEW s \in Source, s = q.link[i].src,
         NEW next, next = SrcNexts(q)[i], next = Null \/ next \in Lives(q),
         NEW r, r = UnlinkFromSource(q, i)
  PROVE  SourceUnlinked(q, r, s, next)
<1> PICK sf, sl : sf = [q.srcFirst EXCEPT ![s] = next] /\ sl = [q.srcLast EXCEPT ![s] = Null]
  OBVIOUS
<1> PICK q1 : q1 = [q EXCEPT !.srcFirst = sf]
  OBVIOUS
<1>1. i \in LinkIds /\ q.link[i].srcNext = next /\ next \in Pointers /\ Null \in Pointers
  BY PointersOfLinks, LiveLinks, LinksAreNumbers
<1>2. sf \in [Source -> Pointers] /\ sl \in [Source -> Pointers]
  BY <1>1 DEF Queues
<1>3. /\ q1 \in Queues /\ q1.link = q.link /\ q1.first = q.first /\ q1.last = q.last
      /\ q1.srcFirst = sf /\ q1.srcLast = q.srcLast /\ q1.ub = q.ub /\ q1.spoiled = q.spoiled
  BY <1>2 DEF Queues
<1>4. q1 = [q EXCEPT !.srcFirst[s] = next]
  BY DEF Queues
<1>5. Lives(q1) = Lives(q) /\ Nexts(q1) = Nexts(q) /\ Prevs(q1) = Prevs(q)
      /\ SrcNexts(q1) = SrcNexts(q) /\ SrcPrevs(q1) = SrcPrevs(q)
  BY <1>3 DEF Lives, Nexts, Prevs, SrcNexts, SrcPrevs
<1>6. CASE next = Null
  <2>1. r = [q1 EXCEPT !.srcLast = sl]
    <3>1. r = [q1 EXCEPT !.srcLast[s] = Null]
      BY <1>1, <1>4, <1>6 DEF UnlinkFromSource
    <3> QED
      BY <1>3, <3>1 DEF Queues
  <2>2. /\ r \in Queues /\ r.link = q.link /\ r.first = q.first /\ r.last = q.last
        /\ r.srcFirst = sf /\ r.srcLast = sl /\ r.ub = q.ub /\ r.spoiled = q.spoiled
    BY <1>2, <1>3, <2>1 DEF Queues
  <2>3. Lives(r) = Lives(q) /\ Nexts(r) = Nexts(q) /\ Prevs(r) = Prevs(q)
        /\ SrcNexts(r) = SrcNexts(q) /\ SrcPrevs(r) = SrcPrevs(q)
    BY <2>2 DEF Lives, Nexts, Prevs, SrcNexts, SrcPrevs
  <2> QED
    BY <1>6, <2>2, <2>3 DEF SameLinks, SourceUnlinked
<1>7. CASE next # Null
  <2>1. r = SetLink(q1, next, "srcPrev", Null)
    BY <1>1, <1>4, <1>7 DEF UnlinkFromSource
  <2>2. next \in Lives(q1)
    BY <1>5, <1>7
  <2>3. /\ SameButPointers(q1, r)
        /\ SrcPrevs(r) = [SrcPrevs(q1) EXCEPT ![next] = Null]
        /\ Nexts(r) = Nexts(q1) /\ Prevs(r) = Prevs(q1) /\ SrcNexts(r) = SrcNexts(q1)
    BY <1>1, <1>3, <2>1, <2>2, SetSrcPrev
  <2> QED
    BY <1>3, <1>5, <1>7, <2>3 DEF SameButPointers, SameLinks, SourceUnlinked
<1> QED
  BY <1>6, <1>7

(* The lists while packets expire: the end of the global list and the      *)
(* pointer back of its first link are late.                                *)
LastOf(q) == IF q.first = Null THEN Null ELSE q.last

PrevsOf(q) == [i \in LinkIds |-> IF i = q.first THEN Null ELSE q.link[i].prev]

Half(q, pos, m) == GoodWith(q, Lives(q), pos, m, LastOf(q), PrevsOf(q))

LEMMA GoodIsHalf ==
  ASSUME NEW q \in Queues, NEW pos, NEW m, Good(q, Lives(q), pos, m)
  PROVE  Half(q, pos, m)
<1> DEFINE S == Lives(q)
<1>1. IsList(S, pos, q.first, q.last, Nexts(q), Prevs(q)) /\ Placed(S, pos)
  BY DEF Good, GoodWith, Within
<1>2. LastOf(q) = q.last
  BY <1>1, ListEnds DEF LastOf
<1>3. \A j \in S : PrevsOf(q)[j] = Prevs(q)[j] /\ Nexts(q)[j] = Nexts(q)[j]
  <2>1. \A j \in S : j \in LinkIds
    BY DEF Lives
  <2>2. \A j \in S : Prevs(q)[j] = Null <=> j = q.first
    BY <1>1, ListEnds
  <2> QED
    BY <2>1, <2>2 DEF PrevsOf, Prevs
<1> HIDE DEF S
<1>4. Unchanged(S, pos, pos, q.first, q.last, Nexts(q), Prevs(q), Nexts(q), PrevsOf(q))
  BY <1>1, <1>3 DEF Unchanged
<1>5. IsList(S, pos, q.first, LastOf(q), Nexts(q), PrevsOf(q))
  BY <1>2, <1>4, ListSame
<1> QED
  BY <1>5 DEF Half, Good, GoodWith, S

LEMMA SamePlace == \A x, y \in Nat : x <= y /\ y <= x => x = y
OBVIOUS

(* The first link of the global list, which is the first of its source.    *)
LEMMA FirstLink ==
  ASSUME NEW q \in Queues, NEW pos, NEW m, Half(q, pos, m), q.first # Null,
         NEW s, s = q.link[q.first].src
  PROVE  /\ q.first \in Lives(q) /\ q.first \in LinkIds /\ s \in Source
         /\ q.srcFirst[s] = q.first /\ SrcPrevs(q)[q.first] = Null
         /\ PrevsOf(q)[q.first] = Null
         /\ Nexts(q)[q.first] = Null \/ Nexts(q)[q.first] \in Lives(q) \ {q.first}
         /\ SrcNexts(q)[q.first] = Null \/ SrcNexts(q)[q.first] \in Lives(q) \ {q.first}
         /\ SrcNexts(q)[q.first] = Null <=> q.srcLast[s] = q.first
<1> PICK i : i = q.first
  OBVIOUS
<1> DEFINE S == Lives(q)
           O == OfSource(q, S, s)
<1>1. /\ IsList(S, pos, q.first, LastOf(q), Nexts(q), PrevsOf(q)) /\ Placed(S, pos)
      /\ InSources(q, S, pos)
  BY DEF Half, GoodWith, Within
<1>2. i \in S /\ i \in LinkIds /\ s \in Source
  <2>1. i \in S
    BY <1>1, ListEnds DEF IsList
  <2>2. q.link[i] \in PktLinks /\ i \in LinkIds
    BY <2>1, LiveLinks
  <2> QED
    BY <2>1, <2>2 DEF PktLinks
<1>3. IsList(O, pos, q.srcFirst[s], q.srcLast[s], SrcNexts(q), SrcPrevs(q)) /\ Placed(O, pos)
      /\ i \in O
  <2>1. i \in O
    BY <1>2 DEF OfSource
  <2> QED
    BY <1>1, <1>2, <2>1, SourcesPlaced DEF InSources
<1>4. O \subseteq S
  BY DEF OfSource
<1> HIDE DEF O
<1>5. q.srcFirst[s] = i
  <2> PICK f : f = q.srcFirst[s]
    OBVIOUS
  <2>1. f \in O /\ pos[f] <= pos[i]
    BY <1>3 DEF IsList
  <2>2. pos[i] <= pos[f]
    BY <1>1, <1>4, <2>1 DEF IsList
  <2>3. pos[f] \in Nat /\ pos[i] \in Nat /\ (pos[f] = pos[i] => f = i)
    <3>1. /\ \A j \in O : pos[j] \in Nat
          /\ \A j, k \in O : pos[j] = pos[k] => j = k
      BY <1>3 DEF Placed
    <3> QED
      BY <1>3, <2>1, <3>1
  <2>4. pos[f] = pos[i]
    BY <2>1, <2>2, <2>3, SamePlace
  <2> QED
    BY <2>3, <2>4
<1>6. SrcPrevs(q)[i] = Null /\ (SrcNexts(q)[i] = Null <=> q.srcLast[s] = i)
  BY <1>3, <1>5, ListEnds
<1>7. PrevsOf(q)[i] = Null
  BY <1>2 DEF PrevsOf
<1>8. Nexts(q)[i] = Null \/ Nexts(q)[i] \in S \ {i}
  BY <1>1, <1>2 DEF IsList, IsNext, Placed
<1>9. SrcNexts(q)[i] = Null \/ SrcNexts(q)[i] \in O \ {i}
  <2> PICK k : k = SrcNexts(q)[i]
    OBVIOUS
  <2>1. IsNext(O, pos, i, k)
    BY <1>3 DEF IsList
  <2>2. pos[i] \in Nat
    BY <1>3 DEF Placed
  <2> QED
    BY <2>1, <2>2 DEF IsNext
<1> QED
  BY <1>2, <1>4, <1>5, <1>6, <1>7, <1>8, <1>9

LEMMA Expires ==
  ASSUME NEW q \in Queues, NEW pos, NEW m, Half(q, pos, m), q.first # Null,
         NEW r, r = ExpireFirst(q)
  PROVE  /\ r \in Queues /\ r.ub = q.ub /\ r.spoiled = q.spoiled
         /\ Lives(r) \subseteq Lives(q) /\ Half(r, pos, m)
<1> DEFINE S == Lives(q)
<1> PICK i, s, next, srcNext : /\ i = q.first /\ s = q.link[i].src
                               /\ next = Nexts(q)[i] /\ srcNext = SrcNexts(q)[i]
  OBVIOUS
<1> PICK q0 : q0 = [q EXCEPT !.first = next]
  OBVIOUS
<1> PICK t : t = UnlinkFromSource(q0, i)
  OBVIOUS
<1>1. /\ i \in S /\ i \in LinkIds /\ s \in Source
      /\ q.srcFirst[s] = i /\ SrcPrevs(q)[i] = Null /\ PrevsOf(q)[i] = Null
      /\ next = Null \/ next \in S \ {i}
      /\ srcNext = Null \/ srcNext \in S \ {i}
      /\ srcNext = Null <=> q.srcLast[s] = i
  BY FirstLink
<1>2. next \in Pointers /\ q.link[i].next = next /\ Null \notin S
  BY <1>1, PointersOfLinks, LinksAreNumbers DEF Lives
<1>3. /\ q0 \in Queues /\ q0.link = q.link /\ q0.first = next /\ q0.last = q.last
      /\ q0.srcFirst = q.srcFirst /\ q0.srcLast = q.srcLast /\ q0.ub = q.ub /\ q0.spoiled = q.spoiled
  BY <1>2 DEF Queues
<1>4. Lives(q0) = S /\ Nexts(q0) = Nexts(q) /\ Prevs(q0) = Prevs(q)
      /\ SrcNexts(q0) = SrcNexts(q) /\ SrcPrevs(q0) = SrcPrevs(q)
  BY <1>3 DEF Lives, Nexts, Prevs, SrcNexts, SrcPrevs
<1> HIDE DEF S
<1>5. /\ SameLinks(q0, t) /\ t.first = q0.first /\ t.last = q0.last
      /\ t.srcFirst = [q0.srcFirst EXCEPT ![s] = srcNext]
      /\ t.srcLast = IF srcNext = Null THEN [q0.srcLast EXCEPT ![s] = Null] ELSE q0.srcLast
      /\ Nexts(t) = Nexts(q0) /\ Prevs(t) = Prevs(q0) /\ SrcNexts(t) = SrcNexts(q0)
      /\ SrcPrevs(t) = IF srcNext = Null THEN SrcPrevs(q0) ELSE [SrcPrevs(q0) EXCEPT ![srcNext] = Null]
  <2>1. i \in Lives(q0) /\ s = q0.link[i].src /\ srcNext = SrcNexts(q0)[i]
        /\ (srcNext = Null \/ srcNext \in Lives(q0))
    BY <1>1, <1>3, <1>4
  <2> QED
    <3>1. SourceUnlinked(q0, t, s, srcNext)
      BY <1>1, <1>3, <2>1, UnlinkedFromSource
    <3> QED
      BY <3>1 DEF SourceUnlinked
<1>6. r = [t EXCEPT !.link[i] = Freed]
  BY <1>2 DEF ExpireFirst
<1>7. /\ t \in Queues /\ Lives(t) = S /\ t.ub = q.ub /\ t.spoiled = q.spoiled
      /\ \A j \in LinkIds : t.link[j].src = q.link[j].src /\ t.link[j].n = q.link[j].n
  <2>1. SameLinks(q0, t)
    BY <1>5
  <2> QED
    BY <1>3, <1>4, <2>1 DEF SameLinks
<1>8. /\ r \in Queues /\ Lives(r) = S \ {i}
      /\ \A j \in LinkIds \ {i} : r.link[j] = t.link[j]
      /\ r.first = t.first /\ r.last = t.last
      /\ r.srcFirst = t.srcFirst /\ r.srcLast = t.srcLast
      /\ r.ub = t.ub /\ r.spoiled = t.spoiled
  <2>1. t \in Queues /\ i \in LinkIds
    BY <1>1, <1>7
  <2>2. /\ r \in Queues /\ Lives(r) = Lives(t) \ {i}
        /\ \A j \in LinkIds \ {i} : r.link[j] = t.link[j]
        /\ r.first = t.first /\ r.last = t.last
        /\ r.srcFirst = t.srcFirst /\ r.srcLast = t.srcLast
        /\ r.ub = t.ub /\ r.spoiled = t.spoiled
    BY <1>6, <2>1, LinkFreed
  <2>3. Lives(r) = S \ {i}
    BY <1>7, <2>2
  <2> QED
    BY <2>2, <2>3
<1>9. S \subseteq LinkIds /\ Placed(S, pos)
      /\ GoodWith(q, S, pos, m, LastOf(q), PrevsOf(q))
  BY DEF Half, GoodWith, Within, S, Lives
<1>10. \A j \in S \ {i} : /\ Nexts(r)[j] = Nexts(q)[j]
                          /\ Prevs(r)[j] = Prevs(q)[j]
                          /\ SrcNexts(r)[j] = SrcNexts(q)[j]
                          /\ SrcPrevs(r)[j] = IF j = srcNext THEN Null ELSE SrcPrevs(q)[j]
  <2>1. \A j \in S \ {i} : j \in LinkIds /\ j # Null
    BY <1>2, <1>9
  <2>2. \A j \in S \ {i} : /\ Nexts(r)[j] = Nexts(t)[j] /\ Prevs(r)[j] = Prevs(t)[j]
                           /\ SrcNexts(r)[j] = SrcNexts(t)[j] /\ SrcPrevs(r)[j] = SrcPrevs(t)[j]
    BY <1>8, <2>1 DEF Nexts, Prevs, SrcNexts, SrcPrevs
  <2>3. \A j \in S \ {i} : SrcPrevs(t)[j] = IF j = srcNext THEN Null ELSE SrcPrevs(q)[j]
    BY <1>4, <1>5, <2>1, PointersOfLinks
  <2> QED
    BY <1>4, <1>5, <2>2, <2>3
<1>11. TakenOut(q, r, i, s, S, LastOf(q), PrevsOf(q), LastOf(r), PrevsOf(r))
  <2>1. \A j \in S \ {i} : r.link[j].src = q.link[j].src /\ r.link[j].n = q.link[j].n
    BY <1>7, <1>8, <1>9
  <2>2. \A j \in S \ {i} : PrevsOf(r)[j] = IF j = next THEN Null ELSE PrevsOf(q)[j]
    <3>1. \A j \in S \ {i} : j \in LinkIds /\ Prevs(q)[j] = q.link[j].prev /\ Prevs(r)[j] = r.link[j].prev
      BY <1>9 DEF Prevs
    <3>2. r.first = next /\ q.first = i
      BY <1>3, <1>5, <1>8
    <3> QED
      BY <1>10, <3>1, <3>2 DEF PrevsOf
  <2>3. \A u \in Source :
          /\ r.srcFirst[u] = IF u = s /\ SrcPrevs(q)[i] = Null THEN srcNext ELSE q.srcFirst[u]
          /\ r.srcLast[u] = IF u = s /\ srcNext = Null THEN SrcPrevs(q)[i] ELSE q.srcLast[u]
    <3>1. q.srcFirst \in [Source -> Pointers] /\ q.srcLast \in [Source -> Pointers]
      BY DEF Queues
    <3> QED
      <4>1. /\ r.srcFirst = [q.srcFirst EXCEPT ![s] = srcNext]
            /\ r.srcLast = IF srcNext = Null THEN [q.srcLast EXCEPT ![s] = Null]
                          ELSE q.srcLast
        BY <1>3, <1>5, <1>8
      <4>2. SrcPrevs(q)[i] = Null
        BY <1>1
      <4>3. \A u \in Source : r.srcFirst[u] = IF u = s THEN srcNext ELSE q.srcFirst[u]
        BY <3>1, <4>1
      <4>4. \A u \in Source :
              r.srcLast[u] = IF u = s /\ srcNext = Null THEN Null ELSE q.srcLast[u]
        BY <3>1, <4>1
      <4> QED
        BY <4>2, <4>3, <4>4
  <2>4. r.first = next /\ LastOf(r) = IF next = Null THEN Null ELSE LastOf(q)
    BY <1>3, <1>5, <1>8 DEF LastOf
  <2>5. \A j \in S \ {i} : j # Null
    BY <1>2
  <2>6. S \ {i} \subseteq Lives(r)
    BY <1>8
  <2> QED
    <3>1. PrevsOf(q)[i] = Null /\ SrcPrevs(q)[i] = Null
      BY <1>1
    <3>2. \A j \in S \ {i} :
            /\ Nexts(r)[j] = IF j = PrevsOf(q)[i] THEN Nexts(q)[i] ELSE Nexts(q)[j]
            /\ SrcNexts(r)[j] = IF j = SrcPrevs(q)[i] THEN SrcNexts(q)[i] ELSE SrcNexts(q)[j]
      BY <1>10, <2>5, <3>1
    <3>3. \A j \in S \ {i} :
            /\ PrevsOf(r)[j] = IF j = Nexts(q)[i] THEN PrevsOf(q)[i] ELSE PrevsOf(q)[j]
            /\ SrcPrevs(r)[j] = IF j = SrcNexts(q)[i] THEN SrcPrevs(q)[i] ELSE SrcPrevs(q)[j]
      BY <1>10, <2>2, <3>1
    <3> QED
      <4>1. r.first = IF PrevsOf(q)[i] = Null THEN Nexts(q)[i] ELSE q.first
        BY <1>1, <2>4, <3>1
      <4>2. LastOf(r) = IF Nexts(q)[i] = Null THEN PrevsOf(q)[i] ELSE LastOf(q)
        BY <1>1, <2>4, <3>1
      <4>3. \A u \in Source :
              /\ r.srcFirst[u] = IF u = s /\ SrcPrevs(q)[i] = Null
                                 THEN SrcNexts(q)[i] ELSE q.srcFirst[u]
              /\ r.srcLast[u] = IF u = s /\ SrcNexts(q)[i] = Null
                                THEN SrcPrevs(q)[i] ELSE q.srcLast[u]
        BY <1>1, <2>3
      <4>4. \A j \in S \ {i} :
              /\ Nexts(r)[j] = IF j = PrevsOf(q)[i] THEN Nexts(q)[i] ELSE Nexts(q)[j]
              /\ PrevsOf(r)[j] = IF j = Nexts(q)[i] THEN PrevsOf(q)[i] ELSE PrevsOf(q)[j]
        BY <3>2, <3>3
      <4>5. \A j \in S \ {i} :
              /\ SrcNexts(r)[j] = IF j = SrcPrevs(q)[i] THEN SrcNexts(q)[i] ELSE SrcNexts(q)[j]
              /\ SrcPrevs(r)[j] = IF j = SrcNexts(q)[i] THEN SrcPrevs(q)[i] ELSE SrcPrevs(q)[j]
        BY <3>2, <3>3
      <4> QED
        BY <2>1, <2>6, <4>1, <4>2, <4>3, <4>4, <4>5 DEF TakenOut
<1>12. GoodWith(r, S \ {i}, pos, m, LastOf(r), PrevsOf(r))
  BY <1>1, <1>9, <1>11, GoodRemove
<1> QED
  BY <1>7, <1>8, <1>12 DEF Half, S

LEMMA Takes ==
  ASSUME NEW q \in Queues, NEW pos, NEW m, Half(q, pos, m), q.first # Null,
         NEW r, r = TakeFirst(q)
  PROVE  /\ r \in Queues /\ r.ub = q.ub /\ r.spoiled = q.spoiled
         /\ Lives(r) \subseteq Lives(q) /\ Good(r, Lives(r), pos, m)
<1> DEFINE S == Lives(q)
<1> PICK i, s, next, srcNext : /\ i = q.first /\ s = q.link[i].src
                               /\ next = Nexts(q)[i] /\ srcNext = SrcNexts(q)[i]
  OBVIOUS
<1> PICK q1 : q1 = [q EXCEPT !.first = next]
  OBVIOUS
<1>19. PICK q2 : q2 = IF next = Null THEN [q1 EXCEPT !.last = Null] ELSE SetLink(q1, next, "prev", Null)
  OBVIOUS
<1>20. PICK t : t = UnlinkFromSource(q2, i)
  OBVIOUS
<1>1. /\ i \in S /\ i \in LinkIds /\ s \in Source
      /\ q.srcFirst[s] = i /\ SrcPrevs(q)[i] = Null /\ PrevsOf(q)[i] = Null
      /\ next = Null \/ next \in S \ {i}
      /\ srcNext = Null \/ srcNext \in S \ {i}
      /\ srcNext = Null <=> q.srcLast[s] = i
  BY FirstLink
<1>2. next \in Pointers /\ q.link[i].next = next /\ Null \notin S /\ Null \in Pointers
  BY <1>1, PointersOfLinks, LinksAreNumbers DEF Lives
<1>3. /\ q1 \in Queues /\ q1.link = q.link /\ q1.first = next /\ q1.last = q.last
      /\ q1.srcFirst = q.srcFirst /\ q1.srcLast = q.srcLast /\ q1.ub = q.ub /\ q1.spoiled = q.spoiled
  BY <1>2 DEF Queues
<1>4. Lives(q1) = S /\ Nexts(q1) = Nexts(q) /\ Prevs(q1) = Prevs(q)
      /\ SrcNexts(q1) = SrcNexts(q) /\ SrcPrevs(q1) = SrcPrevs(q)
  BY <1>3 DEF Lives, Nexts, Prevs, SrcNexts, SrcPrevs
<1> HIDE DEF S
<1>5. /\ SameLinks(q1, q2) /\ q2.first = next
      /\ q2.last = IF next = Null THEN Null ELSE q.last
      /\ q2.srcFirst = q.srcFirst /\ q2.srcLast = q.srcLast
      /\ Nexts(q2) = Nexts(q) /\ SrcNexts(q2) = SrcNexts(q) /\ SrcPrevs(q2) = SrcPrevs(q)
      /\ Prevs(q2) = IF next = Null THEN Prevs(q) ELSE [Prevs(q) EXCEPT ![next] = Null]
  <2>1. CASE next = Null
    <3>1. q2 = [q1 EXCEPT !.last = Null]
      BY <1>19, <2>1
    <3>2. /\ q2 \in Queues /\ q2.link = q1.link /\ q2.first = next /\ q2.last = Null
          /\ q2.srcFirst = q.srcFirst /\ q2.srcLast = q.srcLast /\ q2.ub = q.ub /\ q2.spoiled = q.spoiled
      <4>1. q2 \in Queues
        BY <1>2, <1>3, <3>1 DEF Queues
      <4>2. /\ q2.link = q1.link /\ q2.first = q1.first /\ q2.last = Null
            /\ q2.srcFirst = q1.srcFirst /\ q2.srcLast = q1.srcLast
            /\ q2.ub = q1.ub /\ q2.spoiled = q1.spoiled
        BY <1>3, <3>1 DEF Queues
      <4> QED
        BY <1>3, <4>1, <4>2
    <3>3. Lives(q2) = Lives(q1) /\ Nexts(q2) = Nexts(q1) /\ Prevs(q2) = Prevs(q1)
          /\ SrcNexts(q2) = SrcNexts(q1) /\ SrcPrevs(q2) = SrcPrevs(q1)
      BY <3>2 DEF Lives, Nexts, Prevs, SrcNexts, SrcPrevs
    <3> QED
      BY <1>3, <1>4, <2>1, <3>2, <3>3 DEF SameLinks
  <2>2. CASE next # Null
    <3>1. q2 = SetLink(q1, next, "prev", Null) /\ next \in Lives(q1)
      BY <1>1, <1>4, <1>19, <2>2
    <3>2. /\ SameButPointers(q1, q2)
          /\ Prevs(q2) = [Prevs(q1) EXCEPT ![next] = Null]
          /\ Nexts(q2) = Nexts(q1) /\ SrcNexts(q2) = SrcNexts(q1) /\ SrcPrevs(q2) = SrcPrevs(q1)
      BY <1>2, <1>3, <3>1, SetPrev
    <3> QED
      BY <1>3, <1>4, <2>2, <3>2 DEF SameButPointers, SameLinks
  <2> QED
    BY <2>1, <2>2
<1>6. /\ q2 \in Queues /\ Lives(q2) = S /\ q2.ub = q.ub /\ q2.spoiled = q.spoiled
      /\ \A j \in LinkIds : q2.link[j].src = q.link[j].src /\ q2.link[j].n = q.link[j].n
  BY <1>3, <1>4, <1>5 DEF SameLinks
<1>7. /\ SameLinks(q2, t) /\ t.first = q2.first /\ t.last = q2.last
      /\ t.srcFirst = [q2.srcFirst EXCEPT ![s] = srcNext]
      /\ t.srcLast = IF srcNext = Null THEN [q2.srcLast EXCEPT ![s] = Null] ELSE q2.srcLast
      /\ Nexts(t) = Nexts(q2) /\ Prevs(t) = Prevs(q2) /\ SrcNexts(t) = SrcNexts(q2)
      /\ SrcPrevs(t) = IF srcNext = Null THEN SrcPrevs(q2) ELSE [SrcPrevs(q2) EXCEPT ![srcNext] = Null]
  <2>1. i \in Lives(q2) /\ s = q2.link[i].src /\ srcNext = SrcNexts(q2)[i]
        /\ (srcNext = Null \/ srcNext \in Lives(q2))
    BY <1>1, <1>5, <1>6
  <2> QED
    <3>1. SourceUnlinked(q2, t, s, srcNext)
      BY <1>1, <1>6, <1>20, <2>1, UnlinkedFromSource
    <3> QED
      BY <3>1 DEF SourceUnlinked
<1>8. r = [t EXCEPT !.link[i] = Freed]
  BY <1>2, <1>19, <1>20 DEF TakeFirst
<1>9. /\ t \in Queues /\ Lives(t) = S /\ t.ub = q.ub /\ t.spoiled = q.spoiled
      /\ \A j \in LinkIds : t.link[j].src = q.link[j].src /\ t.link[j].n = q.link[j].n
  <2>1. SameLinks(q2, t)
    BY <1>7
  <2> QED
    BY <1>6, <2>1 DEF SameLinks
<1>10. /\ r \in Queues /\ Lives(r) = S \ {i}
       /\ \A j \in LinkIds \ {i} : r.link[j] = t.link[j]
       /\ r.first = t.first /\ r.last = t.last
       /\ r.srcFirst = t.srcFirst /\ r.srcLast = t.srcLast
       /\ r.ub = t.ub /\ r.spoiled = t.spoiled
  BY <1>1, <1>8, <1>9, LinkFreed
<1>11. S \subseteq LinkIds /\ Placed(S, pos)
       /\ GoodWith(q, S, pos, m, LastOf(q), PrevsOf(q))
  BY DEF Half, GoodWith, Within, S, Lives
<1>12. \A j \in S \ {i} : /\ Nexts(r)[j] = Nexts(q)[j]
                          /\ Prevs(r)[j] = IF j = next THEN Null ELSE Prevs(q)[j]
                          /\ SrcNexts(r)[j] = SrcNexts(q)[j]
                          /\ SrcPrevs(r)[j] = IF j = srcNext THEN Null ELSE SrcPrevs(q)[j]
  <2>1. \A j \in S \ {i} : j \in LinkIds /\ j # Null
    BY <1>2, <1>11
  <2>2. \A j \in S \ {i} : /\ Nexts(r)[j] = Nexts(t)[j] /\ Prevs(r)[j] = Prevs(t)[j]
                           /\ SrcNexts(r)[j] = SrcNexts(t)[j] /\ SrcPrevs(r)[j] = SrcPrevs(t)[j]
    BY <1>10, <2>1 DEF Nexts, Prevs, SrcNexts, SrcPrevs
  <2>3. \A j \in S \ {i} : SrcPrevs(t)[j] = IF j = srcNext THEN Null ELSE SrcPrevs(q)[j]
    BY <1>5, <1>7, <2>1, PointersOfLinks
  <2>4. \A j \in S \ {i} : Prevs(t)[j] = IF j = next THEN Null ELSE Prevs(q)[j]
    BY <1>5, <1>7, <2>1, PointersOfLinks
  <2> QED
    BY <1>5, <1>7, <2>2, <2>3, <2>4
<1>13. TakenOut(q, r, i, s, S, LastOf(q), PrevsOf(q), r.last, Prevs(r))
  <2>1. \A j \in S \ {i} : r.link[j].src = q.link[j].src /\ r.link[j].n = q.link[j].n
    BY <1>9, <1>10, <1>11
  <2>2. \A j \in S \ {i} : Prevs(r)[j] = IF j = next THEN Null ELSE PrevsOf(q)[j]
    <3>1. \A j \in S \ {i} : j \in LinkIds /\ PrevsOf(q)[j] = Prevs(q)[j]
      BY <1>11 DEF Prevs, PrevsOf
    <3> QED
      BY <1>12, <3>1
  <2>3. \A u \in Source :
          /\ r.srcFirst[u] = IF u = s /\ SrcPrevs(q)[i] = Null THEN srcNext ELSE q.srcFirst[u]
          /\ r.srcLast[u] = IF u = s /\ srcNext = Null THEN SrcPrevs(q)[i] ELSE q.srcLast[u]
    <3>1. q.srcFirst \in [Source -> Pointers] /\ q.srcLast \in [Source -> Pointers]
      BY DEF Queues
    <3> QED
      <4>1. /\ r.srcFirst = [q.srcFirst EXCEPT ![s] = srcNext]
            /\ r.srcLast = IF srcNext = Null THEN [q.srcLast EXCEPT ![s] = Null]
                          ELSE q.srcLast
        BY <1>5, <1>7, <1>10
      <4>2. SrcPrevs(q)[i] = Null
        BY <1>1
      <4>3. \A u \in Source : r.srcFirst[u] = IF u = s THEN srcNext ELSE q.srcFirst[u]
        BY <3>1, <4>1
      <4>4. \A u \in Source :
              r.srcLast[u] = IF u = s /\ srcNext = Null THEN Null ELSE q.srcLast[u]
        BY <3>1, <4>1
      <4> QED
        BY <4>2, <4>3, <4>4
  <2>4. r.first = next /\ r.last = IF next = Null THEN Null ELSE LastOf(q)
    BY <1>5, <1>7, <1>10 DEF LastOf
  <2>5. \A j \in S \ {i} : j # Null
    BY <1>2
  <2>6. S \ {i} \subseteq Lives(r)
    BY <1>10
  <2> QED
    <3>1. PrevsOf(q)[i] = Null /\ SrcPrevs(q)[i] = Null
      BY <1>1
    <3>2. \A j \in S \ {i} :
            /\ Nexts(r)[j] = IF j = PrevsOf(q)[i] THEN Nexts(q)[i] ELSE Nexts(q)[j]
            /\ SrcNexts(r)[j] = IF j = SrcPrevs(q)[i] THEN SrcNexts(q)[i] ELSE SrcNexts(q)[j]
      BY <1>12, <2>5, <3>1
    <3>3. \A j \in S \ {i} :
            /\ Prevs(r)[j] = IF j = Nexts(q)[i] THEN PrevsOf(q)[i] ELSE PrevsOf(q)[j]
            /\ SrcPrevs(r)[j] = IF j = SrcNexts(q)[i] THEN SrcPrevs(q)[i] ELSE SrcPrevs(q)[j]
      BY <1>12, <2>2, <3>1
    <3> QED
      <4>1. r.first = IF PrevsOf(q)[i] = Null THEN Nexts(q)[i] ELSE q.first
        BY <1>1, <2>4, <3>1
      <4>2. r.last = IF Nexts(q)[i] = Null THEN PrevsOf(q)[i] ELSE LastOf(q)
        BY <1>1, <2>4, <3>1
      <4>3. \A u \in Source :
              /\ r.srcFirst[u] = IF u = s /\ SrcPrevs(q)[i] = Null
                                 THEN SrcNexts(q)[i] ELSE q.srcFirst[u]
              /\ r.srcLast[u] = IF u = s /\ SrcNexts(q)[i] = Null
                                THEN SrcPrevs(q)[i] ELSE q.srcLast[u]
        BY <1>1, <2>3
      <4>4. \A j \in S \ {i} :
              /\ Nexts(r)[j] = IF j = PrevsOf(q)[i] THEN Nexts(q)[i] ELSE Nexts(q)[j]
              /\ Prevs(r)[j] = IF j = Nexts(q)[i] THEN PrevsOf(q)[i] ELSE PrevsOf(q)[j]
        BY <3>2, <3>3
      <4>5. \A j \in S \ {i} :
              /\ SrcNexts(r)[j] = IF j = SrcPrevs(q)[i] THEN SrcNexts(q)[i] ELSE SrcNexts(q)[j]
              /\ SrcPrevs(r)[j] = IF j = SrcNexts(q)[i] THEN SrcPrevs(q)[i] ELSE SrcPrevs(q)[j]
        BY <3>2, <3>3
      <4> QED
        BY <2>1, <2>6, <4>1, <4>2, <4>3, <4>4, <4>5 DEF TakenOut
<1>14. GoodWith(r, S \ {i}, pos, m, r.last, Prevs(r))
  BY <1>1, <1>11, <1>13, GoodRemove
<1> QED
  BY <1>9, <1>10, <1>14 DEF Good, S

(* What expires does so link by link.                                      *)
ExpireOne(p, stamp) ==
  CASE p.ub \/ p.first = Null -> p
    [] ~p.ub /\ p.first # Null /\ ~Live(p, p.first) -> [p EXCEPT !.ub = TRUE]
    [] ~p.ub /\ Live(p, p.first) /\ p.link[p.first].ts < stamp -> ExpireFirst(p)
    [] OTHER -> p

LEMMA ExpiredIsHalf ==
  ASSUME NEW q \in Queues, NEW pos, NEW m, Good(q, Lives(q), pos, m), q.ub = FALSE,
         NEW stamp, NEW r, r = Expired(q, stamp)
  PROVE  /\ r \in Queues /\ r.ub = FALSE /\ r.spoiled = q.spoiled
         /\ Lives(r) \subseteq Lives(q) /\ Half(r, pos, m)
<1> DEFINE S == {p \in Queues : /\ p.ub = FALSE /\ p.spoiled = q.spoiled
                                /\ Lives(p) \subseteq Lives(q) /\ Half(p, pos, m)}
           Step(p, k) == ExpireOne(p, stamp)
           Made(f) == f = [k \in 0 .. MaxLinks |-> IF k = 0 THEN q ELSE Step(f[k - 1], k)]
           expire == CHOOSE f : Made(f)
           g == [x \in S \X Nat |-> Step(x[1], x[2])]
<1>1. MaxLinks \in Nat /\ q \in S
  BY QueueConstants, GoodIsHalf
<1>2. \A p \in S, k \in Nat : Step(p, k) \in S
  <2> SUFFICES ASSUME NEW p \in S PROVE ExpireOne(p, stamp) \in S
    OBVIOUS
  <2>1. CASE p.first = Null
    <3>1. ~Live(p, p.first)
      BY <2>1 DEF Live
    <3> HIDE DEF S
    <3> QED
      BY <2>1, <3>1 DEF ExpireOne
  <2>2. CASE p.first # Null
    <3>1. Live(p, p.first) /\ p.ub = FALSE
      BY <2>2, FirstLink, LiveLinks
    <3>2. CASE p.link[p.first].ts < stamp
      <4>1. ExpireOne(p, stamp) = ExpireFirst(p)
        BY <2>2, <3>1, <3>2 DEF ExpireOne
      <4> PICK t : t = ExpireFirst(p)
        OBVIOUS
      <4>2. /\ t \in Queues /\ t.ub = p.ub /\ t.spoiled = p.spoiled
            /\ Lives(t) \subseteq Lives(p) /\ Half(t, pos, m)
        BY <2>2, Expires
      <4> QED
        BY <4>1, <4>2
    <3>3. CASE ~ (p.link[p.first].ts < stamp)
      <4>1. ExpireOne(p, stamp) = p
        BY <2>2, <3>1, <3>3 DEF ExpireOne
      <4> QED
        BY <4>1
    <3> QED
      BY <3>2, <3>3
  <2> QED
    BY <2>1, <2>2
<1> HIDE DEF S
<1>3. g \in [S \X Nat -> S]
  <2> HIDE DEF Step
  <2> QED
    BY <1>2
<1>4. PICK f \in [0 .. MaxLinks -> S] : Steps(f, q, g, MaxLinks)
  <2> HIDE DEF g
  <2> QED
    BY <1>1, <1>3, StepsExist
<1>5. \A k \in 1 .. MaxLinks : f[k] = Step(f[k - 1], k)
  <2> HIDE DEF Step
  <2>1. ASSUME NEW k \in 1 .. MaxLinks PROVE f[k] = Step(f[k - 1], k)
    <3>1. k - 1 \in 0 .. MaxLinks /\ f[k - 1] \in S /\ k \in Nat
      BY <1>1
    <3>2. <<f[k - 1], k>> \in S \X Nat /\ f[k] = g[<<f[k - 1], k>>]
      BY <1>4, <3>1 DEF Steps
    <3> QED
      BY <3>2
  <2> QED
    BY <2>1
<1>6. Made(f)
  <2> DEFINE F == [k \in 0 .. MaxLinks |-> IF k = 0 THEN q ELSE Step(f[k - 1], k)]
  <2> HIDE DEF Step
  <2>1. ASSUME NEW k \in 0 .. MaxLinks PROVE F[k] = f[k]
    BY <1>1, <1>4, <1>5 DEF Steps
  <2>2. F = f
    <3>1. F = [k \in 0 .. MaxLinks |-> F[k]] /\ f = [k \in 0 .. MaxLinks |-> f[k]]
      BY <1>4
    <3> HIDE DEF F
    <3> QED
      BY <2>1, <3>1
  <2> QED
    BY <2>2
<1>7. Made(expire)
  <2> HIDE DEF Made
  <2> QED
    BY <1>6
<1>8. r = expire[MaxLinks]
  BY DEF Expired, ExpireOne
<1> HIDE DEF expire
<1>9. expire[0] = q /\ \A k \in 1 .. MaxLinks : expire[k] = Step(expire[k - 1], k)
  <2> HIDE DEF Step
  <2>1. expire = [k \in 0 .. MaxLinks |-> IF k = 0 THEN q ELSE Step(expire[k - 1], k)]
    BY <1>7
  <2>2. 0 \in 0 .. MaxLinks /\ \A k \in 1 .. MaxLinks : k \in 0 .. MaxLinks /\ k # 0
    BY <1>1
  <2>3. expire[0] = q
    BY <2>1, <2>2
  <2>4. ASSUME NEW k \in 1 .. MaxLinks PROVE expire[k] = Step(expire[k - 1], k)
    BY <2>1, <2>2
  <2> QED
    BY <2>3, <2>4
<1>10. expire[MaxLinks] \in S
  <2> DEFINE T == {k \in Nat : k <= MaxLinks => expire[k] \in S}
  <2> HIDE DEF Step
  <2>1. 0 \in T
    BY <1>1, <1>9
  <2>2. ASSUME NEW k \in Nat, k \in T PROVE k + 1 \in T
    <3>1. CASE k + 1 <= MaxLinks
      <4>1. k + 1 \in 1 .. MaxLinks /\ (k + 1) - 1 = k /\ k <= MaxLinks
        BY <1>1, <3>1
      <4>2. expire[k + 1] = Step(expire[k], k + 1)
        BY <1>9, <4>1
      <4> QED
        BY <1>2, <2>2, <4>1, <4>2
    <3> QED
      BY <3>1
  <2>3. MaxLinks \in T
    <3> HIDE DEF T
    <3> QED
      BY <1>1, <2>1, <2>2, InductionOnSet
  <2> QED
    BY <1>1, <2>3
<1> QED
  BY <1>8, <1>10 DEF S

(* A queue to ask, and what a query leaves of it.                          *)
Asked(q, pos, m) == q \in Queues /\ q.ub = FALSE /\ Good(q, Lives(q), pos, m)

Answered(q, r, pos, m) ==
  /\ r \in Queues /\ r.ub = FALSE /\ r.spoiled = q.spoiled
  /\ Lives(r) \subseteq Lives(q) /\ Good(r, Lives(r), pos, m)

(* Whatever is asked for of any source, the lists stay well made.          *)
LEMMA GetWaitingIsGood ==
  ASSUME NEW q, NEW pos, NEW m, Asked(q, pos, m), NEW stamp,
         NEW r, r = GetWaiting(q, stamp).q
  PROVE  Answered(q, r, pos, m)
<1>0. q \in Queues /\ q.ub = FALSE /\ Good(q, Lives(q), pos, m)
  BY DEF Asked
<1> SUFFICES /\ r \in Queues /\ r.ub = FALSE /\ r.spoiled = q.spoiled
             /\ Lives(r) \subseteq Lives(q) /\ Good(r, Lives(r), pos, m)
  BY DEF Answered
<1> USE <1>0
<1>1. PICK p : p = Expired(q, stamp)
  OBVIOUS
<1>2. /\ p \in Queues /\ p.ub = FALSE /\ p.spoiled = q.spoiled
      /\ Lives(p) \subseteq Lives(q) /\ Half(p, pos, m)
  BY <1>1, ExpiredIsHalf
<1>3. Lives(p) \subseteq LinkIds
  BY DEF Lives
<1>4. CASE p.first = Null
  <2>1. r = [p EXCEPT !.last = Null]
    BY <1>1, <1>2, <1>4 DEF GetWaiting
  <2>2. /\ r \in Queues /\ r.link = p.link /\ r.first = p.first /\ r.last = Null
        /\ r.ub = p.ub /\ r.spoiled = p.spoiled
        /\ r.srcFirst = p.srcFirst /\ r.srcLast = p.srcLast
    BY <1>2, <2>1, LinksAreNumbers DEF Queues
  <2>3. Lives(r) = Lives(p) /\ Nexts(r) = Nexts(p) /\ SrcNexts(r) = SrcNexts(p)
        /\ SrcPrevs(r) = SrcPrevs(p)
    BY <2>2 DEF Lives, Nexts, SrcNexts, SrcPrevs
  <2>4. Lives(p) = {}
    BY <1>2, <1>4, ListEnds DEF Half, GoodWith, Within
  <2>5. SameLists(p, r, Lives(p), LastOf(p), PrevsOf(p))
    BY <1>4, <2>2, <2>3, <2>4 DEF SameLists, LastOf
  <2>6. Good(r, Lives(p), pos, m)
    BY <1>2, <1>3, <2>5, GoodSame DEF Half
  <2> QED
    BY <1>2, <2>2, <2>3, <2>6
<1>5. CASE p.first # Null
  <2>1. p.first \in Lives(p) /\ p.first \in LinkIds
    BY <1>2, <1>5, FirstLink
  <2>2. CASE p.link[p.first].ts > stamp
    <3>1. r = SetLink(p, p.first, "prev", Null)
      BY <1>1, <1>2, <1>5, <2>2 DEF GetWaiting
    <3>2. /\ SameButPointers(p, r)
          /\ Prevs(r) = [Prevs(p) EXCEPT ![p.first] = Null]
          /\ Nexts(r) = Nexts(p) /\ SrcNexts(r) = SrcNexts(p) /\ SrcPrevs(r) = SrcPrevs(p)
      BY <1>2, <2>1, <3>1, SetPrev, LinksAreNumbers
    <3>3. Prevs(r) = PrevsOf(p)
      BY <2>1, <3>2 DEF Prevs, PrevsOf
    <3>4. /\ r \in Queues /\ Lives(r) = Lives(p) /\ r.ub = p.ub /\ r.spoiled = p.spoiled
          /\ r.first = p.first /\ r.last = p.last
          /\ r.srcFirst = p.srcFirst /\ r.srcLast = p.srcLast
          /\ \A j \in LinkIds : r.link[j].src = p.link[j].src /\ r.link[j].n = p.link[j].n
      BY <3>2 DEF SameButPointers
    <3>5. SameLists(p, r, Lives(p), LastOf(p), PrevsOf(p))
      BY <1>3, <1>5, <3>2, <3>3, <3>4 DEF SameLists, LastOf
    <3>6. Good(r, Lives(p), pos, m)
      BY <1>2, <1>3, <3>5, GoodSame DEF Half
    <3> QED
      BY <1>2, <3>4, <3>6
  <2>3. CASE ~ (p.link[p.first].ts > stamp)
    <3>1. r = TakeFirst(p)
      BY <1>1, <1>2, <1>5, <2>3 DEF GetWaiting
    <3> QED
      BY <1>2, <1>5, <3>1, Takes
  <2> QED
    BY <2>2, <2>3
<1> QED
  BY <1>4, <1>5

-----------------------------------------------------------------------------
(* A query for one source.                                                 *)
LEMMA SetLinkTyped ==
  ASSUME NEW q \in Queues, NEW i \in Pointers, NEW v \in Pointers,
         NEW f \in {"next", "prev", "srcNext", "srcPrev"},
         NEW r, r = SetLink(q, i, f, v)
  PROVE  r \in Queues
<1>1. CASE i \in Lives(q)
  <2>1. f = "next" => r \in Queues
    BY <1>1, SetNext DEF SameButPointers
  <2>2. f = "prev" => r \in Queues
    BY <1>1, SetPrev DEF SameButPointers
  <2>3. f = "srcNext" => r \in Queues
    BY <1>1, SetSrcNext DEF SameButPointers
  <2>4. f = "srcPrev" => r \in Queues
    BY <1>1, SetSrcPrev DEF SameButPointers
  <2> QED
    BY <2>1, <2>2, <2>3, <2>4
<1>2. CASE i \notin Lives(q)
  <2>1. ~Live(q, i)
    BY <1>2, LiveLinks
  <2>2. r = [q EXCEPT !.ub = TRUE]
    BY <2>1 DEF SetLink
  <2> QED
    BY <2>2 DEF Queues
<1> QED
  BY <1>1, <1>2

LEMMA UnlinkTyped ==
  ASSUME NEW q \in Queues, NEW i \in LinkIds, NEW r, r = UnlinkFromGlobal(q, i)
  PROVE  r \in Queues
<1> PICK before, after : before = q.link[i].prev /\ after = q.link[i].next
  OBVIOUS
<1> PICK q1 : q1 = IF before = Null THEN q ELSE SetLink(q, before, "next", after)
  OBVIOUS
<1>1. before \in Pointers /\ after \in Pointers
  BY PointersOfLinks
<1>2. q1 \in Queues
  BY <1>1, SetLinkTyped
<1>3. r = IF after = Null THEN q1 ELSE SetLink(q1, after, "prev", before)
  BY DEF UnlinkFromGlobal
<1> QED
  BY <1>1, <1>2, <1>3, SetLinkTyped

ExpireOneOf(e, s, stamp) ==
  LET p == e.q
      i == p.srcFirst[s]
  IN CASE p.ub \/ i = Null -> e
       [] ~p.ub /\ i # Null /\ ~Live(p, i) ->
            [q |-> [p EXCEPT !.ub = TRUE], nonempty |-> FALSE]
       [] ~p.ub /\ Live(p, i) /\ p.link[i].ts < stamp ->
            [q |-> [UnlinkFromGlobal(
                      [p EXCEPT !.srcFirst[s] = p.link[i].srcNext],
                      i) EXCEPT !.link[i] = Freed],
             nonempty |-> {p.link[i].prev, p.link[i].next} # {Null}]
       [] OTHER -> e

(* What every packet that expires leaves in S ends in S.                   *)
LEMMA ExpiredOfStays ==
  ASSUME NEW q, NEW s, NEW stamp, NEW S, [q |-> q, nonempty |-> FALSE] \in S,
         \A e \in S : ExpireOneOf(e, s, stamp) \in S
  PROVE  ExpiredOf(q, s, stamp) \in S
<1> DEFINE Step(e, k) == ExpireOneOf(e, s, stamp)
           Made(f) == f = [k \in 0 .. MaxLinks |-> IF k = 0 THEN [q |-> q, nonempty |-> FALSE]
                                                            ELSE Step(f[k - 1], k)]
           expire == CHOOSE f : Made(f)
           g == [x \in S \X Nat |-> Step(x[1], x[2])]
<1>0. PICK e0 : e0 = [q |-> q, nonempty |-> FALSE]
  OBVIOUS
<1>1. MaxLinks \in Nat /\ e0 \in S
  BY <1>0, QueueConstants
<1>2. \A p \in S, k \in Nat : Step(p, k) \in S
  OBVIOUS
<1>3. g \in [S \X Nat -> S]
  <2> HIDE DEF Step
  <2> QED
    BY <1>2
<1>4. PICK f \in [0 .. MaxLinks -> S] : Steps(f, e0, g, MaxLinks)
  <2> HIDE DEF g
  <2> QED
    BY <1>1, <1>3, StepsExist
<1>5. \A k \in 1 .. MaxLinks : f[k] = Step(f[k - 1], k)
  <2> HIDE DEF Step
  <2>1. ASSUME NEW k \in 1 .. MaxLinks PROVE f[k] = Step(f[k - 1], k)
    <3>1. k - 1 \in 0 .. MaxLinks /\ f[k - 1] \in S /\ k \in Nat
      BY <1>1
    <3>2. <<f[k - 1], k>> \in S \X Nat /\ f[k] = g[<<f[k - 1], k>>]
      BY <1>4, <3>1 DEF Steps
    <3> QED
      BY <3>2
  <2> QED
    BY <2>1
<1>6. Made(f)
  <2> DEFINE F == [k \in 0 .. MaxLinks |-> IF k = 0 THEN e0 ELSE Step(f[k - 1], k)]
  <2> HIDE DEF Step
  <2>1. ASSUME NEW k \in 0 .. MaxLinks PROVE F[k] = f[k]
    BY <1>1, <1>4, <1>5 DEF Steps
  <2>2. F = f
    <3>1. F = [k \in 0 .. MaxLinks |-> F[k]] /\ f = [k \in 0 .. MaxLinks |-> f[k]]
      BY <1>4
    <3> HIDE DEF F
    <3> QED
      BY <2>1, <3>1
  <2> QED
    BY <1>0, <2>2
<1>7. Made(expire)
  <2> HIDE DEF Made
  <2> QED
    BY <1>6
<1>8. ExpiredOf(q, s, stamp) = expire[MaxLinks]
  BY DEF ExpiredOf, ExpireOneOf
<1> HIDE DEF expire
<1>9. expire[0] = e0 /\ \A k \in 1 .. MaxLinks : expire[k] = Step(expire[k - 1], k)
  <2> HIDE DEF Step
  <2>1. expire = [k \in 0 .. MaxLinks |-> IF k = 0 THEN e0 ELSE Step(expire[k - 1], k)]
    BY <1>0, <1>7
  <2>2. 0 \in 0 .. MaxLinks /\ \A k \in 1 .. MaxLinks : k \in 0 .. MaxLinks /\ k # 0
    BY <1>1
  <2>3. expire[0] = e0
    BY <2>1, <2>2
  <2>4. ASSUME NEW k \in 1 .. MaxLinks PROVE expire[k] = Step(expire[k - 1], k)
    BY <2>1, <2>2
  <2> QED
    BY <2>3, <2>4
<1>10. expire[MaxLinks] \in S
  <2> DEFINE T == {k \in Nat : k <= MaxLinks => expire[k] \in S}
  <2> HIDE DEF Step
  <2>1. 0 \in T
    BY <1>1, <1>9
  <2>2. ASSUME NEW k \in Nat, k \in T PROVE k + 1 \in T
    <3>1. CASE k + 1 <= MaxLinks
      <4>1. k + 1 \in 1 .. MaxLinks /\ (k + 1) - 1 = k /\ k <= MaxLinks
        BY <1>1, <3>1
      <4>2. expire[k + 1] = Step(expire[k], k + 1)
        BY <1>9, <4>1
      <4> QED
        BY <1>2, <2>2, <4>1, <4>2
    <3> QED
      BY <3>1
  <2>3. MaxLinks \in T
    <3> HIDE DEF T
    <3> QED
      BY <1>1, <2>1, <2>2, InductionOnSet
  <2> QED
    BY <1>1, <2>3
<1> QED
  BY <1>8, <1>10

LEMMA ExpiredOfTyped ==
  ASSUME NEW q \in Queues, NEW s \in Source, NEW stamp,
         NEW r, r = ExpiredOf(q, s, stamp)
  PROVE  r.q \in Queues /\ r.nonempty \in BOOLEAN
<1> DEFINE S == [q : Queues, nonempty : BOOLEAN]
<1>1. [q |-> q, nonempty |-> FALSE] \in S
  OBVIOUS
<1>2. ASSUME NEW e \in S PROVE ExpireOneOf(e, s, stamp) \in S
  <2> PICK p, i, t : p = e.q /\ i = p.srcFirst[s] /\ t = ExpireOneOf(e, s, stamp)
    OBVIOUS
  <2>1. p \in Queues /\ i \in Pointers
    BY DEF Queues
  <2>2. CASE p.ub = TRUE \/ i = Null
    <3>1. ~Live(p, i) \/ p.ub = TRUE
      BY <2>2 DEF Live
    <3>2. t = e
      BY <2>2, <3>1 DEF ExpireOneOf
    <3> QED
      BY <3>2
  <2>3. CASE ~(p.ub = TRUE \/ i = Null)
    <3>0. p.ub = FALSE /\ i # Null /\ i \in LinkIds
      BY <2>1, <2>3 DEF Queues, Pointers
    <3>1. CASE ~Live(p, i)
      <4>1. t = [q |-> [p EXCEPT !.ub = TRUE], nonempty |-> FALSE]
        BY <3>0, <3>1 DEF ExpireOneOf
      <4>2. [p EXCEPT !.ub = TRUE] \in Queues
        BY <2>1 DEF Queues
      <4> QED
        BY <4>1, <4>2
    <3>2. CASE Live(p, i) /\ p.link[i].ts < stamp
      <4> PICK sf, p1, u : /\ sf = [p.srcFirst EXCEPT ![s] = p.link[i].srcNext]
                           /\ p1 = [p EXCEPT !.srcFirst = sf]
                           /\ u = UnlinkFromGlobal(p1, i)
        OBVIOUS
      <4>1. p.link[i].srcNext \in Pointers
        <5>1. SrcNexts(p) \in [LinkIds -> Pointers] /\ SrcNexts(p)[i] = p.link[i].srcNext
          BY <2>1, <3>0, PointersOfLinks
        <5> QED
          BY <3>0, <5>1
      <4>2. sf \in [Source -> Pointers]
        BY <2>1, <4>1 DEF Queues
      <4>3. p1 \in Queues
        BY <2>1, <4>2 DEF Queues
      <4>4. u \in Queues
        BY <3>0, <4>3, UnlinkTyped
      <4>5. p1 = [p EXCEPT !.srcFirst[s] = p.link[i].srcNext]
        BY <2>1 DEF Queues
      <4>6. t = [q |-> [u EXCEPT !.link[i] = Freed],
                 nonempty |-> {p.link[i].prev, p.link[i].next} # {Null}]
        BY <3>0, <3>2, <4>5 DEF ExpireOneOf
      <4>7. [u EXCEPT !.link[i] = Freed] \in Queues
        BY <3>0, <4>4, LinkFreed
      <4>8. PICK x \in Queues, y \in BOOLEAN : t = [q |-> x, nonempty |-> y]
        <5> PICK l : l = {p.link[i].prev, p.link[i].next}
          OBVIOUS
        <5>1. CASE l = {Null}
          <6>1. t = [q |-> [u EXCEPT !.link[i] = Freed], nonempty |-> FALSE]
            BY <4>6, <5>1
          <6> QED
            BY <4>7, <6>1
        <5>2. CASE l # {Null}
          <6>1. t = [q |-> [u EXCEPT !.link[i] = Freed], nonempty |-> TRUE]
            BY <4>6, <5>2
          <6> QED
            BY <4>7, <6>1
        <5> QED
          BY <5>1, <5>2
      <4> QED
        BY <4>8
    <3>3. CASE Live(p, i) /\ ~(p.link[i].ts < stamp)
      <4>1. t = e
        BY <3>0, <3>3 DEF ExpireOneOf
      <4> QED
        BY <4>1
    <3> QED
      BY <3>1, <3>2, <3>3
  <2> QED
    BY <2>2, <2>3
<1> HIDE DEF S
<1>3. r \in S
  BY <1>1, <1>2, ExpiredOfStays
<1> QED
  BY <1>3 DEF S

LEMMA TakeFirstOfTyped ==
  ASSUME NEW q \in Queues, NEW s \in Source, q.srcFirst[s] # Null,
         NEW r, r = TakeFirstOf(q, s)
  PROVE  r \in Queues
<1>20. PICK i, next : i = q.srcFirst[s] /\ next = q.link[i].srcNext
  OBVIOUS
<1>21. PICK q1 : q1 = UnlinkFromGlobal(q, i)
  OBVIOUS
<1>1. i \in LinkIds /\ next \in Pointers /\ Null \in Pointers
      /\ q.link[i].prev \in Pointers /\ q.link[i].next \in Pointers
  <2>1. i \in LinkIds
    BY <1>20 DEF Queues, Pointers
  <2> QED
    BY <1>20, <2>1, PointersOfLinks, LinksAreNumbers
<1>2. q1 \in Queues
  BY <1>1, <1>21, UnlinkTyped
<1>3. PICK f, l, sf, sl : /\ f = IF q.link[i].prev = Null THEN q.link[i].next ELSE q1.first
                          /\ l = IF q.link[i].next = Null THEN q.link[i].prev ELSE q1.last
                          /\ sf = [q1.srcFirst EXCEPT ![s] = next]
                          /\ sl = [q1.srcLast EXCEPT ![s] = Null]
  OBVIOUS
<1>4. f \in Pointers /\ l \in Pointers /\ sf \in [Source -> Pointers] /\ sl \in [Source -> Pointers]
  BY <1>1, <1>2, <1>3 DEF Queues
<1>22. PICK q2 : q2 = [q1 EXCEPT !.first = IF q.link[i].prev = Null THEN q.link[i].next ELSE @,
                                 !.last = IF q.link[i].next = Null THEN q.link[i].prev ELSE @,
                                 !.srcFirst[s] = next]
  OBVIOUS
<1>5. q2 \in Queues /\ q2.srcLast = q1.srcLast
  <2>1. q2 = [q1 EXCEPT !.first = f, !.last = l, !.srcFirst = sf]
    BY <1>2, <1>3, <1>22 DEF Queues
  <2> QED
    BY <1>2, <1>4, <2>1 DEF Queues
<1>23. PICK q3 : q3 = IF next = Null THEN [q2 EXCEPT !.srcLast[s] = Null]
                                     ELSE SetLink(q2, next, "prev", Null)
  OBVIOUS
<1>7. q3 \in Queues
  <2>1. CASE next = Null
    <3>1. q3 = [q2 EXCEPT !.srcLast = sl]
      BY <1>3, <1>5, <1>23, <2>1 DEF Queues
    <3> QED
      BY <1>4, <1>5, <3>1 DEF Queues
  <2>2. CASE next # Null
    BY <1>1, <1>5, <1>23, <2>2, SetLinkTyped
  <2> QED
    BY <2>1, <2>2
<1>8. r = [q3 EXCEPT !.link[i] = Freed]
  <2>1. CASE next = Null
    <3>1. q3 = [q2 EXCEPT !.srcLast[s] = Null]
      BY <1>23, <2>1
    <3> QED
      BY <1>20, <1>21, <1>22, <2>1, <3>1 DEF TakeFirstOf
  <2>2. CASE next # Null
    <3>1. q3 = SetLink(q2, next, "prev", Null)
      BY <1>23, <2>2
    <3> QED
      BY <1>20, <1>21, <1>22, <2>2, <3>1 DEF TakeFirstOf
  <2> QED
    BY <2>1, <2>2
<1> QED
  BY <1>1, <1>7, <1>8, LinkFreed

LEMMA GetWaitingOfTyped ==
  ASSUME NEW q \in Queues, NEW s \in Source, NEW stamp,
         NEW r, r = GetWaitingOf(q, s, stamp).q
  PROVE  r \in Queues
<1> PICK e : e = ExpiredOf(q, s, stamp)
  OBVIOUS
<1> PICK p, i : p = e.q /\ i = p.srcFirst[s]
  OBVIOUS
<1>1. p \in Queues /\ e.nonempty \in BOOLEAN /\ i \in Pointers /\ Null \in Pointers
  <2>1. p \in Queues /\ e.nonempty \in BOOLEAN
    BY ExpiredOfTyped
  <2> QED
    BY <2>1, LinksAreNumbers DEF Queues
<1>2. CASE q.srcFirst[s] = Null
  BY <1>2 DEF GetWaitingOf
<1>3. CASE q.srcFirst[s] # Null /\ p.ub = TRUE
  BY <1>1, <1>3 DEF GetWaitingOf
<1>4. CASE q.srcFirst[s] # Null /\ p.ub = FALSE /\ i = Null
  <2> PICK sl, f, l : /\ sl = [p.srcLast EXCEPT ![s] = Null]
                      /\ f = IF e.nonempty THEN p.first ELSE Null
                      /\ l = IF e.nonempty THEN p.last ELSE Null
    OBVIOUS
  <2>1. sl \in [Source -> Pointers] /\ f \in Pointers /\ l \in Pointers
    BY <1>1 DEF Queues
  <2>2. r = [p EXCEPT !.srcLast[s] = Null,
                      !.first = IF e.nonempty THEN @ ELSE Null,
                      !.last = IF e.nonempty THEN @ ELSE Null]
    BY <1>4 DEF GetWaitingOf
  <2>3. r = [p EXCEPT !.srcLast = sl, !.first = f, !.last = l]
    BY <1>1, <2>2 DEF Queues
  <2> QED
    BY <1>1, <2>1, <2>3 DEF Queues
<1>5. CASE q.srcFirst[s] # Null /\ p.ub = FALSE /\ i # Null
  <2>1. CASE p.link[i].ts > stamp
    <3>1. r = SetLink(p, i, "srcPrev", Null)
      BY <1>5, <2>1 DEF GetWaitingOf
    <3> QED
      BY <1>1, <3>1, SetLinkTyped
  <2>2. CASE ~(p.link[i].ts > stamp)
    <3>1. r = TakeFirstOf(p, s)
      BY <1>5, <2>2 DEF GetWaitingOf
    <3> QED
      BY <1>1, <1>5, <3>1, TakeFirstOfTyped
  <2> QED
    BY <2>1, <2>2
<1>6. p.ub \in BOOLEAN
  BY <1>1 DEF Queues
<1> QED
  BY <1>2, <1>3, <1>4, <1>5, <1>6

(* A packet that is the only one of its source is taken out of the lists.  *)
LEMMA UnlinkedFromGlobal ==
  ASSUME NEW q \in Queues, NEW i \in LinkIds,
         NEW before, before = Prevs(q)[i], before = Null \/ before \in Lives(q),
         NEW after, after = Nexts(q)[i], after = Null \/ after \in Lives(q),
         NEW r, r = UnlinkFromGlobal(q, i)
  PROVE  /\ SameButPointers(q, r)
         /\ SrcNexts(r) = SrcNexts(q) /\ SrcPrevs(r) = SrcPrevs(q)
         /\ \A j \in LinkIds : Nexts(r)[j] = IF j = before THEN after ELSE Nexts(q)[j]
         /\ \A j \in LinkIds : Prevs(r)[j] = IF j = after THEN before ELSE Prevs(q)[j]
<1>20. PICK q1 : q1 = IF before = Null THEN q ELSE SetLink(q, before, "next", after)
  OBVIOUS
<1>1. /\ before \in Pointers /\ after \in Pointers /\ Null \notin LinkIds
      /\ q.link[i].prev = before /\ q.link[i].next = after
      /\ Nexts(q) \in [LinkIds -> Pointers] /\ Prevs(q) \in [LinkIds -> Pointers]
  BY PointersOfLinks, LinksAreNumbers
<1>2. /\ SameButPointers(q, q1)
      /\ Prevs(q1) = Prevs(q) /\ SrcNexts(q1) = SrcNexts(q) /\ SrcPrevs(q1) = SrcPrevs(q)
      /\ \A j \in LinkIds : Nexts(q1)[j] = IF j = before THEN after ELSE Nexts(q)[j]
  <2>1. CASE before = Null
    BY <1>1, <1>20, <2>1 DEF SameButPointers
  <2>2. CASE before # Null
    <3>1. q1 = SetLink(q, before, "next", after) /\ before \in Lives(q)
      BY <1>20, <2>2
    <3>3. after \in Pointers
      BY <1>1
    <3>2. /\ SameButPointers(q, q1)
          /\ Nexts(q1) = [Nexts(q) EXCEPT ![before] = after]
          /\ Prevs(q1) = Prevs(q) /\ SrcNexts(q1) = SrcNexts(q) /\ SrcPrevs(q1) = SrcPrevs(q)
      BY <3>1, <3>3, SetNext
    <3> QED
      BY <1>1, <3>2
  <2> QED
    BY <2>1, <2>2
<1>3. r = IF after = Null THEN q1 ELSE SetLink(q1, after, "prev", before)
  BY <1>1, <1>20 DEF UnlinkFromGlobal
<1>4. q1 \in Queues /\ Lives(q1) = Lives(q)
  BY <1>2 DEF SameButPointers
<1>5. CASE after = Null
  BY <1>1, <1>2, <1>3, <1>5
<1>6. CASE after # Null
  <2>1. r = SetLink(q1, after, "prev", before) /\ after \in Lives(q1)
    BY <1>3, <1>4, <1>6
  <2>4. before \in Pointers /\ q1 \in Queues
    BY <1>1, <1>4
  <2>2. /\ SameButPointers(q1, r)
        /\ Prevs(r) = [Prevs(q1) EXCEPT ![after] = before]
        /\ Nexts(r) = Nexts(q1) /\ SrcNexts(r) = SrcNexts(q1) /\ SrcPrevs(r) = SrcPrevs(q1)
    BY <2>1, <2>4, SetPrev
  <2>3. SameButPointers(q, r)
    BY <1>2, <2>2, SameCompose
  <2> QED
    BY <1>1, <1>2, <2>2, <2>3
<1> QED
  BY <1>5, <1>6

LEMMA TakeOnlyOf ==
  ASSUME NEW q \in Queues, NEW pos, NEW m, Good(q, Lives(q), pos, m), NEW s \in Source,
         q.srcFirst[s] # Null, SrcNexts(q)[q.srcFirst[s]] = Null,
         NEW r, r = TakeFirstOf(q, s)
  PROVE  /\ r \in Queues /\ r.ub = q.ub /\ r.spoiled = q.spoiled
         /\ Lives(r) \subseteq Lives(q) /\ Good(r, Lives(r), pos, m)
<1> DEFINE S == Lives(q)
           O == OfSource(q, S, s)
<1> PICK i, before, after : i = q.srcFirst[s] /\ before = Prevs(q)[i] /\ after = Nexts(q)[i]
  OBVIOUS
<1>20. PICK q1 : q1 = UnlinkFromGlobal(q, i)
  OBVIOUS
<1>1. /\ IsList(S, pos, q.first, q.last, Nexts(q), Prevs(q)) /\ Placed(S, pos)
      /\ InSources(q, S, pos) /\ S \subseteq LinkIds
  BY DEF Good, GoodWith, Within, Lives
<1>2. i \in O /\ i \in S /\ i \in LinkIds /\ q.link[i].src = s /\ Null \notin S
  <2>1. i \in O
    BY EndsLive
  <2> QED
    BY <1>1, <2>1 DEF OfSource, Placed
<1>3. SrcPrevs(q)[i] = Null
  <2>1. IsList(O, pos, q.srcFirst[s], q.srcLast[s], SrcNexts(q), SrcPrevs(q)) /\ Placed(O, pos)
    BY <1>1, SourcesPlaced DEF InSources
  <2> QED
    BY <1>2, <2>1, ListEnds
<1>4. (before = Null \/ before \in S) /\ (after = Null \/ after \in S)
  BY <1>1, <1>2 DEF IsList, IsNext, IsPrev
<1>5. /\ before \in Pointers /\ after \in Pointers /\ Null \in Pointers
      /\ q.link[i].prev = before /\ q.link[i].next = after /\ q.link[i].srcNext = Null
  BY <1>2, PointersOfLinks, LinksAreNumbers
<1>6. /\ SameButPointers(q, q1)
      /\ SrcNexts(q1) = SrcNexts(q) /\ SrcPrevs(q1) = SrcPrevs(q)
      /\ \A j \in LinkIds : Nexts(q1)[j] = IF j = before THEN after ELSE Nexts(q)[j]
      /\ \A j \in LinkIds : Prevs(q1)[j] = IF j = after THEN before ELSE Prevs(q)[j]
  BY <1>2, <1>4, <1>20, UnlinkedFromGlobal
<1> HIDE DEF O, S
<1>7. /\ q1 \in Queues /\ Lives(q1) = S /\ q1.first = q.first /\ q1.last = q.last
      /\ q1.srcFirst = q.srcFirst /\ q1.srcLast = q.srcLast
      /\ q1.ub = q.ub /\ q1.spoiled = q.spoiled
      /\ \A j \in LinkIds : q1.link[j].src = q.link[j].src /\ q1.link[j].n = q.link[j].n
  BY <1>6 DEF SameButPointers, S
<1>8. PICK f, l, sf, sl : /\ f = IF before = Null THEN after ELSE q.first
                          /\ l = IF after = Null THEN before ELSE q.last
                          /\ sf = [q.srcFirst EXCEPT ![s] = Null]
                          /\ sl = [q.srcLast EXCEPT ![s] = Null]
  OBVIOUS
<1>9. /\ f \in Pointers /\ l \in Pointers /\ sf \in [Source -> Pointers] /\ sl \in [Source -> Pointers]
      /\ \A u \in Source : /\ sf[u] = IF u = s THEN Null ELSE q.srcFirst[u]
                           /\ sl[u] = IF u = s THEN Null ELSE q.srcLast[u]
  BY <1>5, <1>8 DEF Queues
<1>10. PICK t : t = [q1 EXCEPT !.first = f, !.last = l, !.srcFirst = sf, !.srcLast = sl]
  OBVIOUS
<1>11. t \in Queues
  BY <1>7, <1>9, <1>10 DEF Queues
<1>12. /\ t.link = q1.link /\ t.first = f /\ t.last = l /\ t.srcFirst = sf /\ t.srcLast = sl
       /\ t.ub = q1.ub /\ t.spoiled = q1.spoiled
  BY <1>7, <1>10 DEF Queues
<1>13. r = [t EXCEPT !.link[i] = Freed]
  <2> PICK q2 : q2 = [q1 EXCEPT !.first = IF before = Null THEN after ELSE @,
                                !.last = IF after = Null THEN before ELSE @,
                                !.srcFirst[s] = Null]
    OBVIOUS
  <2>1. q2 = [q1 EXCEPT !.first = f, !.last = l, !.srcFirst = sf]
    BY <1>7, <1>8 DEF Queues
  <2>2. t = [q2 EXCEPT !.srcLast[s] = Null]
    BY <1>7, <1>8, <1>10, <2>1 DEF Queues
  <2>3. r = [[q2 EXCEPT !.srcLast[s] = Null] EXCEPT !.link[i] = Freed]
    BY <1>5, <1>20 DEF TakeFirstOf
  <2> QED
    BY <2>2, <2>3
<1>14. /\ r \in Queues /\ Lives(r) = Lives(t) \ {i}
       /\ \A j \in LinkIds \ {i} : r.link[j] = t.link[j]
       /\ r.first = t.first /\ r.last = t.last
       /\ r.srcFirst = t.srcFirst /\ r.srcLast = t.srcLast
       /\ r.ub = t.ub /\ r.spoiled = t.spoiled
  BY <1>2, <1>11, <1>13, LinkFreed
<1>15. Lives(t) = S
  BY <1>7, <1>12 DEF Lives
<1>16. \A j \in S \ {i} : /\ j \in LinkIds /\ j # Null
                          /\ r.link[j].src = q.link[j].src /\ r.link[j].n = q.link[j].n
                          /\ Nexts(r)[j] = Nexts(q1)[j] /\ Prevs(r)[j] = Prevs(q1)[j]
                          /\ SrcNexts(r)[j] = SrcNexts(q1)[j] /\ SrcPrevs(r)[j] = SrcPrevs(q1)[j]
  <2>1. \A j \in S \ {i} : j \in LinkIds /\ j # Null /\ r.link[j] = q1.link[j]
    BY <1>1, <1>2, <1>12, <1>14
  <2> QED
    BY <1>7, <2>1 DEF Nexts, Prevs, SrcNexts, SrcPrevs
<1>17. TakenOut(q, r, i, s, S, q.last, Prevs(q), r.last, Prevs(r))
  <2>1. S \ {i} \subseteq Lives(r)
    BY <1>14, <1>15
  <2>2. r.first = IF before = Null THEN after ELSE q.first
    BY <1>8, <1>12, <1>14
  <2>3. r.last = IF after = Null THEN before ELSE q.last
    BY <1>8, <1>12, <1>14
  <2>4. \A u \in Source : /\ r.srcFirst[u] = IF u = s THEN Null ELSE q.srcFirst[u]
                          /\ r.srcLast[u] = IF u = s THEN Null ELSE q.srcLast[u]
    BY <1>9, <1>12, <1>14
  <2>5. \A j \in S \ {i} : /\ Nexts(r)[j] = IF j = before THEN after ELSE Nexts(q)[j]
                           /\ Prevs(r)[j] = IF j = after THEN before ELSE Prevs(q)[j]
                           /\ SrcNexts(r)[j] = SrcNexts(q)[j] /\ SrcPrevs(r)[j] = SrcPrevs(q)[j]
    BY <1>6, <1>16
  <2> QED
    BY <1>3, <1>16, <2>1, <2>2, <2>3, <2>4, <2>5 DEF TakenOut
<1>18. GoodWith(r, S \ {i}, pos, m, r.last, Prevs(r))
  <2>1. GoodWith(q, S, pos, m, q.last, Prevs(q))
    BY DEF Good, S
  <2> QED
    BY <1>1, <1>2, <1>17, <2>1, GoodRemove
<1> QED
  BY <1>7, <1>12, <1>14, <1>15, <1>18 DEF Good, S

(* A query that does not spoil the lists leaves them well made.            *)
LEMMA GetWaitingOfIsGood ==
  ASSUME NEW q, NEW pos, NEW m, Asked(q, pos, m),
         NEW s \in Source, NEW stamp \in Int, ~Spoils(q, s, stamp),
         NEW r, r = GetWaitingOf(q, s, stamp).q
  PROVE  Answered(q, r, pos, m)
<1>0. q \in Queues /\ q.ub = FALSE /\ Good(q, Lives(q), pos, m)
  BY DEF Asked
<1> SUFFICES /\ r \in Queues /\ r.ub = FALSE /\ r.spoiled = q.spoiled
             /\ Lives(r) \subseteq Lives(q) /\ Good(r, Lives(r), pos, m)
  BY DEF Answered
<1> USE <1>0
<1>1. PICK i, e0 : i = q.srcFirst[s] /\ e0 = [q |-> q, nonempty |-> FALSE]
  OBVIOUS
<1>2. CASE i = Null
  <2>1. r = q
    BY <1>1, <1>2 DEF GetWaitingOf
  <2> QED
    BY <2>1
<1>3. CASE i # Null
  <2>1. i \in OfSource(q, Lives(q), s) /\ i \in Lives(q)
    <3>1. i \in OfSource(q, Lives(q), s)
      BY <1>1, <1>3, EndsLive
    <3> QED
      BY <3>1 DEF OfSource
  <2>2. Live(q, i) /\ q.link[i] \in PktLinks /\ i \in LinkIds /\ i \in Pointers /\ Null \in Pointers
    BY <2>1, LiveLinks, LinksAreNumbers
  <2>3. q.link[i].ts \in Int
    BY <2>2, ReceptionConstants DEF PktLinks, Counts
  <2>4. ~(q.link[i].ts < stamp) /\ (q.link[i].ts = stamp => q.link[i].srcNext = Null)
    BY <1>1, <2>2 DEF Spoils
  <2>5. ExpiredOf(q, s, stamp) = e0
    <3>1. e0.q = q
      BY <1>1
    <3>2. ExpireOneOf(e0, s, stamp) = e0
      BY <1>1, <1>3, <2>2, <2>4, <3>1 DEF ExpireOneOf
    <3>3. PICK S : S = {e0}
      OBVIOUS
    <3>4. ExpiredOf(q, s, stamp) \in S
      <4>1. [q |-> q, nonempty |-> FALSE] \in S /\ \A e \in S : ExpireOneOf(e, s, stamp) \in S
        BY <1>1, <3>2, <3>3
      <4> QED
        BY <4>1, ExpiredOfStays
    <3> QED
      BY <3>3, <3>4
  <2>6. ExpiredOf(q, s, stamp).q = q
    BY <1>1, <2>5
  <2>7. CASE q.link[i].ts > stamp
    <3>1. r = SetLink(q, i, "srcPrev", Null)
      BY <1>1, <1>3, <2>6, <2>7 DEF GetWaitingOf
    <3>2. /\ SameButPointers(q, r)
          /\ SrcPrevs(r) = [SrcPrevs(q) EXCEPT ![i] = Null]
          /\ Nexts(r) = Nexts(q) /\ Prevs(r) = Prevs(q) /\ SrcNexts(r) = SrcNexts(q)
      BY <2>1, <2>2, <3>1, SetSrcPrev
    <3>3. SrcPrevs(q)[i] = Null
      <4>1. /\ Placed(OfSource(q, Lives(q), s), pos)
            /\ IsList(OfSource(q, Lives(q), s), pos, q.srcFirst[s], q.srcLast[s],
                      SrcNexts(q), SrcPrevs(q))
        BY SourcesPlaced DEF Good, GoodWith, Within, InSources
      <4> QED
        BY <1>1, <2>1, <4>1, ListEnds
    <3>4. SrcPrevs(r) = SrcPrevs(q)
      BY <2>2, <3>2, <3>3, PointersOfLinks
    <3>5. /\ r \in Queues /\ Lives(r) = Lives(q) /\ r.ub = q.ub /\ r.spoiled = q.spoiled
          /\ r.first = q.first /\ r.last = q.last
          /\ r.srcFirst = q.srcFirst /\ r.srcLast = q.srcLast
          /\ \A j \in LinkIds : r.link[j].src = q.link[j].src /\ r.link[j].n = q.link[j].n
      BY <3>2 DEF SameButPointers
    <3>6. Lives(q) \subseteq LinkIds
      BY DEF Lives
    <3>7. SameLists(q, r, Lives(q), q.last, Prevs(q))
      BY <3>2, <3>4, <3>5, <3>6 DEF SameLists
    <3>8. Good(r, Lives(q), pos, m)
      BY <3>6, <3>7, GoodSame DEF Good
    <3> QED
      BY <3>5, <3>8
  <2>8. CASE ~(q.link[i].ts > stamp)
    <3>1. r = TakeFirstOf(q, s)
      BY <1>1, <1>3, <2>6, <2>8 DEF GetWaitingOf
    <3>2. q.link[i].ts = stamp
      BY <2>3, <2>4, <2>8
    <3>3. SrcNexts(q)[q.srcFirst[s]] = Null
      BY <1>1, <2>2, <2>4, <3>2, PointersOfLinks
    <3>4. /\ r \in Queues /\ r.ub = q.ub /\ r.spoiled = q.spoiled
          /\ Lives(r) \subseteq Lives(q) /\ Good(r, Lives(r), pos, m)
      BY <1>1, <1>3, <3>1, <3>3, TakeOnlyOf
    <3> QED
      BY <3>4
  <2> QED
    BY <2>7, <2>8
<1> QED
  BY <1>2, <1>3

-----------------------------------------------------------------------------
(* The record of a source keeps its types, and its probation is never      *)
(* longer than the one it began with.                                      *)
LEMMA RecordKeeps ==
  ASSUME NEW r \in Receptions, r.probation <= MinValid,
         NEW seq \in Seqs, NEW n \in Nat
  PROVE  LET v == RecordReception(r, seq, n)
         IN /\ v.ok \in BOOLEAN /\ v.r \in Receptions
            /\ v.r.probation <= MinValid
<1> DEFINE Fine(s) == s \in Receptions /\ s.probation <= MinValid
           v == Validate(r, seq)
<1>1. /\ seq \in Seqs /\ (seq + 1) % SEQNUMMOD \in Seqs
      /\ seq \in Nat /\ seq < SEQNUMMOD /\ MinValid \in Nat
  BY ReceptionConstants DEF Seqs, Seqs
<1>2. /\ r.maxSeqNum \in Int /\ r.probation \in Nat /\ r.seqNumAccum \in Nat
      /\ Ahead(r, seq) \in Int /\ MaxDropout \in Int
  BY <1>1, ReceptionConstants DEF Receptions, Seqs, Ahead
<1>3. ASSUME NEW s, Fine(s) PROVE Fine(Observe(s, n))
  <2> DEFINE count == (s.obsPacketCount + 1) % CountMod
             stamp == IF count = 1 THEN n ELSE s.initialDataTimestamp
  <2>1. s \in Receptions /\ s.probation <= MinValid
    BY <1>3
  <2>2. count \in Counts /\ stamp \in Nat
    BY <2>1, ReceptionConstants DEF Receptions, Counts
  <2>3. Observe(s, n) = [s EXCEPT !.obsPacketCount = count,
                                         !.initialDataTimestamp = stamp]
    BY <2>1 DEF Observe, Receptions
  <2> HIDE DEF count, stamp
  <2> QED
    BY <2>1, <2>2, <2>3 DEF Receptions
<1>4. /\ Fine([r EXCEPT !.maxSeqNum = seq]) /\ Fine(InitSequence(r, seq))
      /\ Fine(r)
  BY <1>1 DEF InitSequence, Receptions
<1> DEFINE w == RecordReception(r, seq, n)
<1>5. ASSUME v.ok \in BOOLEAN, Fine(v.r)
      PROVE  w.ok \in BOOLEAN /\ Fine(w.r)
  <2>1. CASE v.ok
    <3>1. w = [ok |-> TRUE, r |-> Observe(v.r, n)]
      BY <2>1 DEF RecordReception
    <3>2. w.ok = TRUE /\ w.r = Observe(v.r, n)
      BY <3>1
    <3> QED
      BY <1>3, <1>5, <3>2
  <2>2. CASE ~v.ok
    <3>1. w = v
      BY <2>2 DEF RecordReception
    <3> QED
      BY <1>5, <3>1
  <2> QED
    BY <1>5, <2>1, <2>2
<1> HIDE DEF w
<1>6. CASE ~IsValid(r)
  <2>1. v = Probe(r, seq)
    BY <1>6 DEF Validate
  <2> DEFINE left == r.probation - 1
             restart == MinValid - 1
             zeroed == [r EXCEPT !.probation = 0]
  <2>2. left \in Nat /\ left <= MinValid /\ restart \in Nat /\ restart <= MinValid
    BY <1>1, <1>2, <1>6 DEF IsValid
  <2>3. Fine(zeroed)
    <3>1. 0 \in Nat /\ 0 <= MinValid
      BY <1>1
    <3> QED
      BY <3>1 DEF Receptions
  <2>4. Fine(InitSequence(zeroed, seq))
    <3> HIDE DEF zeroed
    <3> QED
      BY <1>1, <2>3 DEF InitSequence, Receptions
  <2>5. v \in {[ok |-> TRUE, r |-> InitSequence(zeroed, seq)],
               [ok |-> FALSE, r |-> [r EXCEPT !.probation = left, !.maxSeqNum = seq]],
               [ok |-> FALSE, r |-> [r EXCEPT !.probation = restart, !.maxSeqNum = seq]]}
    BY <2>1 DEF Probe
  <2> HIDE DEF left, restart, zeroed, v
  <2>6. /\ Fine([r EXCEPT !.probation = left, !.maxSeqNum = seq])
        /\ Fine([r EXCEPT !.probation = restart, !.maxSeqNum = seq])
    BY <1>1, <2>2 DEF Receptions
  <2> DEFINE a == InitSequence(zeroed, seq)
             b == [r EXCEPT !.probation = left, !.maxSeqNum = seq]
             c == [r EXCEPT !.probation = restart, !.maxSeqNum = seq]
  <2>7. Fine(a) /\ Fine(b) /\ Fine(c)
    BY <2>4, <2>6
  <2>8. \/ v = [ok |-> TRUE, r |-> a] \/ v = [ok |-> FALSE, r |-> b]
        \/ v = [ok |-> FALSE, r |-> c]
    BY <2>5
  <2> HIDE DEF a, b, c, Fine
  <2>9. v.ok \in BOOLEAN /\ v.r \in {a, b, c}
    <3>1. v.ok = TRUE \/ v.ok = FALSE
      BY <2>8
    <3>2. v.r \in {a, b, c}
      BY <2>8
    <3> QED
      BY <3>1, <3>2
  <2>10. Fine(v.r)
    BY <2>7, <2>9
  <2> QED
    BY <1>5, <2>9, <2>10 DEF v, Fine, w
<1>7. CASE IsValid(r) /\ Ahead(r, seq) < MaxDropout
  <2>1. v = [ok |-> TRUE, r |-> Advance(r, seq)]
    BY <1>2, <1>7 DEF Validate
  <2> DEFINE accum == IF seq < r.maxSeqNum THEN r.seqNumAccum + SEQNUMMOD
                                           ELSE r.seqNumAccum
  <2>2. accum \in Nat
    BY <1>2, ReceptionConstants
  <2>3. Advance(r, seq) = [r EXCEPT !.maxSeqNum = seq, !.seqNumAccum = accum]
    BY DEF Advance, Receptions
  <2> HIDE DEF accum
  <2>4. Fine(Advance(r, seq))
    BY <1>1, <2>2, <2>3 DEF Receptions
  <2> QED
    BY <1>5, <2>1, <2>4 DEF w
<1>8. CASE IsValid(r) /\ Ahead(r, seq) >= MaxDropout
           /\ Ahead(r, seq) <= SEQNUMMOD - MaxMisorder
  <2>1. v = Jump(r, seq)
    BY <1>2, <1>8 DEF Validate
  <2> DEFINE bad == [r EXCEPT !.badSeqNum = (seq + 1) % SEQNUMMOD]
  <2>2. Fine(bad)
    BY <1>1 DEF Receptions
  <2>3. v \in {[ok |-> TRUE, r |-> InitSequence(r, seq)],
               [ok |-> FALSE, r |-> bad],
               [ok |-> TRUE, r |-> [bad EXCEPT !.maxSeqNum = seq]]}
    BY <2>1 DEF Jump
  <2> HIDE DEF bad, v
  <2>4. Fine([bad EXCEPT !.maxSeqNum = seq])
    BY <1>1, <2>2 DEF Receptions
  <2> DEFINE a == InitSequence(r, seq)
             c == [bad EXCEPT !.maxSeqNum = seq]
  <2>5. Fine(a) /\ Fine(bad) /\ Fine(c)
    BY <1>4, <2>2, <2>4
  <2>6. \/ v = [ok |-> TRUE, r |-> a] \/ v = [ok |-> FALSE, r |-> bad]
        \/ v = [ok |-> TRUE, r |-> c]
    BY <2>3
  <2> HIDE DEF a, c, Fine
  <2>7. v.ok \in BOOLEAN /\ v.r \in {a, bad, c}
    <3>1. v.ok = TRUE \/ v.ok = FALSE
      BY <2>6
    <3>2. v.r \in {a, bad, c}
      BY <2>6
    <3> QED
      BY <3>1, <3>2
  <2>8. Fine(v.r)
    BY <2>5, <2>7
  <2> QED
    BY <1>5, <2>7, <2>8 DEF v, Fine, w
<1>9. CASE /\ IsValid(r) /\ ~(Ahead(r, seq) < MaxDropout)
           /\ ~(Ahead(r, seq) >= MaxDropout
                  /\ Ahead(r, seq) <= SEQNUMMOD - MaxMisorder)
  <2>1. v = [ok |-> TRUE, r |-> r]
    BY <1>9 DEF Validate
  <2> QED
    BY <1>4, <1>5, <2>1 DEF w
<1> QED
  BY <1>2, <1>6, <1>7, <1>8, <1>9 DEF w


(* What a packet does to the number that is kept as bad, and when it makes *)
(* a source go on from elsewhere.                                          *)
BadAfter(r, seq, v) ==
  /\ \/ v.r.badSeqNum = r.badSeqNum
     \/ v.r.badSeqNum = (seq + 1) % SEQNUMMOD /\ (~v.ok \/ r.obsPacketCount = 0)
  /\ IsValid(r) /\ r.obsPacketCount > 0 /\ v.r.maxSeqNum # r.maxSeqNum
     /\ Ahead(r, v.r.maxSeqNum) >= MaxDropout
       => v.r.maxSeqNum = seq /\ r.badSeqNum = seq

LEMMA BadFollows ==
  ASSUME NEW r \in Receptions, NEW seq \in Seqs, NEW n \in Nat
  PROVE  BadAfter(r, seq, RecordReception(r, seq, n))
<1>1. PICK v, w : v = Validate(r, seq) /\ w = RecordReception(r, seq, n)
  OBVIOUS
<1>0. r.obsPacketCount \in Nat /\ Ahead(r, seq) \in Int /\ r.maxSeqNum \in Int
      /\ SEQNUMMOD \in Int /\ MaxDropout \in Int /\ MaxMisorder \in Int
  BY ReceptionConstants DEF Receptions, Counts, Ahead, Seqs
<1>3. CASE ~IsValid(r)
  <2> DEFINE a == [r EXCEPT !.probation = 0, !.maxSeqNum = seq, !.seqNumAccum = seq]
             b == [r EXCEPT !.probation = r.probation - 1, !.maxSeqNum = seq]
             c == [r EXCEPT !.probation = MinValid - 1, !.maxSeqNum = seq]
  <2>1. v = Probe(r, seq)
    BY <1>1, <1>3 DEF Validate
  <2>2. \/ v = [ok |-> TRUE, r |-> a] \/ v = [ok |-> FALSE, r |-> b]
        \/ v = [ok |-> FALSE, r |-> c]
    BY <2>1 DEF Probe, InitSequence, Receptions
  <2>3. /\ a.badSeqNum = r.badSeqNum /\ b.badSeqNum = r.badSeqNum /\ c.badSeqNum = r.badSeqNum
    BY DEF Receptions
  <2> HIDE DEF a, b, c
  <2>4. v.r.badSeqNum = r.badSeqNum /\ v.ok \in BOOLEAN
    <3>1. v.ok = TRUE \/ v.ok = FALSE
      BY <2>2
    <3>2. v.r = a \/ v.r = b \/ v.r = c
      BY <2>2
    <3> QED
      BY <2>3, <3>1, <3>2
  <2>5. w.r.badSeqNum = r.badSeqNum
    <3>1. CASE v.ok = TRUE
      <4>1. w = [ok |-> TRUE, r |-> Observe(v.r, n)]
        BY <1>1, <3>1 DEF RecordReception
      <4>2. v.r = a
        BY <2>2, <3>1
      <4>3. Observe(a, n).badSeqNum = a.badSeqNum
        BY DEF Observe, a, Receptions
      <4> QED
        BY <2>3, <4>1, <4>2, <4>3
    <3>2. CASE v.ok = FALSE
      BY <1>1, <2>4, <3>2 DEF RecordReception
    <3> QED
      BY <2>4, <3>1, <3>2
  <2> QED
    BY <1>1, <1>3, <2>5 DEF BadAfter
<1>4. CASE IsValid(r) /\ Ahead(r, seq) < MaxDropout
  <2>1. v = [ok |-> TRUE, r |-> Advance(r, seq)]
    BY <1>1, <1>0, <1>4 DEF Validate
  <2>2. w = [ok |-> TRUE, r |-> Observe(Advance(r, seq), n)]
    BY <1>1, <2>1 DEF RecordReception
  <2>3. w.r.badSeqNum = r.badSeqNum /\ w.r.maxSeqNum = seq
    BY <2>2 DEF Observe, Advance, Receptions
  <2> QED
    BY <1>0, <1>1, <1>4, <2>3 DEF BadAfter
<1>5. CASE IsValid(r) /\ ~(Ahead(r, seq) < MaxDropout)
           /\ Ahead(r, seq) >= MaxDropout
           /\ Ahead(r, seq) <= SEQNUMMOD - MaxMisorder
  <2>1. v = Jump(r, seq)
    BY <1>1, <1>0, <1>5 DEF Validate
  <2>2. CASE seq = r.badSeqNum
    <3>1. w = [ok |-> TRUE, r |-> Observe(InitSequence(r, seq), n)]
      BY <1>1, <2>1, <2>2 DEF RecordReception, Jump
    <3>2. w.r.badSeqNum = r.badSeqNum /\ w.r.maxSeqNum = seq
      BY <3>1 DEF Observe, InitSequence, Receptions
    <3> QED
      BY <1>1, <2>2, <3>2 DEF BadAfter
  <2>3. CASE seq # r.badSeqNum /\ r.obsPacketCount > 0
    <3> DEFINE bad == [r EXCEPT !.badSeqNum = (seq + 1) % SEQNUMMOD]
    <3>1. v = [ok |-> FALSE, r |-> bad]
      BY <2>1, <2>3 DEF Jump
    <3>2. w = [ok |-> FALSE, r |-> bad]
      BY <1>1, <3>1 DEF RecordReception
    <3>3. bad.badSeqNum = (seq + 1) % SEQNUMMOD /\ bad.maxSeqNum = r.maxSeqNum
      BY DEF Receptions
    <3> HIDE DEF bad
    <3>4. w.ok = FALSE /\ w.r.badSeqNum = (seq + 1) % SEQNUMMOD /\ w.r.maxSeqNum = r.maxSeqNum
      BY <3>2, <3>3
    <3> QED
      BY <1>1, <3>4 DEF BadAfter
  <2>4. CASE seq # r.badSeqNum /\ r.obsPacketCount = 0
    <3> DEFINE bad == [r EXCEPT !.badSeqNum = (seq + 1) % SEQNUMMOD]
               far == [bad EXCEPT !.maxSeqNum = seq]
    <3>1. v = [ok |-> TRUE, r |-> far]
      BY <2>1, <2>4 DEF Jump
    <3>2. far.badSeqNum = (seq + 1) % SEQNUMMOD
      BY DEF Receptions
    <3>3. Observe(far, n).badSeqNum = far.badSeqNum
      BY DEF Observe, Receptions
    <3> HIDE DEF bad, far
    <3>4. w = [ok |-> TRUE, r |-> Observe(far, n)]
      BY <1>1, <3>1 DEF RecordReception
    <3>5. w.r.badSeqNum = (seq + 1) % SEQNUMMOD
      BY <3>2, <3>3, <3>4
    <3> QED
      BY <1>0, <1>1, <2>4, <3>5 DEF BadAfter
  <2> QED
    BY <1>0, <2>2, <2>3, <2>4
<1>6. CASE IsValid(r) /\ ~(Ahead(r, seq) < MaxDropout)
           /\ ~(Ahead(r, seq) >= MaxDropout /\ Ahead(r, seq) <= SEQNUMMOD - MaxMisorder)
  <2>1. v = [ok |-> TRUE, r |-> r]
    BY <1>1, <1>6 DEF Validate
  <2>2. w = [ok |-> TRUE, r |-> Observe(r, n)]
    BY <1>1, <2>1 DEF RecordReception
  <2>3. w.r.badSeqNum = r.badSeqNum /\ w.r.maxSeqNum = r.maxSeqNum
    BY <2>2 DEF Observe, Receptions
  <2> QED
    BY <1>1, <2>3 DEF BadAfter
<1> QED
  BY <1>0, <1>3, <1>4, <1>5, <1>6

(* Sequence numbers go round.                                              *)
LEMMA BeforeNext ==
  ASSUME NEW seq \in Seqs
  PROVE  (((seq + 1) % SEQNUMMOD) - 1) % SEQNUMMOD = seq
<1>1. SEQNUMMOD \in Nat \ {0, 1} /\ seq \in Int /\ 0 <= seq /\ seq <= SEQNUMMOD - 1
  BY ReceptionConstants DEF Seqs
<1>2. CASE seq = SEQNUMMOD - 1
  <2>1. seq + 1 = SEQNUMMOD
    BY <1>1, <1>2
  <2>2. SEQNUMMOD % SEQNUMMOD = 0
    BY <1>1
  <2>3. (0 - 1) % SEQNUMMOD = SEQNUMMOD - 1
    BY <1>1
  <2> QED
    BY <1>2, <2>1, <2>2, <2>3
<1>3. CASE seq # SEQNUMMOD - 1
  <2>1. seq + 1 \in Int /\ 0 <= seq + 1 /\ seq + 1 < SEQNUMMOD
    BY <1>1, <1>3
  <2>2. (seq + 1) % SEQNUMMOD = seq + 1
    BY <1>1, <2>1
  <2>3. seq % SEQNUMMOD = seq
    BY <1>1
  <2>4. (seq + 1) - 1 = seq
    BY <1>1
  <2> QED
    BY <2>2, <2>3, <2>4
<1> QED
  BY <1>2, <1>3

(* A packet is accepted or not: what becomes of its source.                *)
Records ==
  \A s \in Source : /\ sync[s].reception.probation <= MinValid
                    /\ ~sync[s].known => sync[s].reception = Fresh(0)

Accepts(s, n, a) ==
  /\ a.ok \in BOOLEAN /\ a.src \in SourceLinks /\ a.src.known = TRUE
  /\ a.src.reception.probation <= MinValid
  /\ \/ a.src.reception.badSeqNum \notin Seqs
     \/ a.src.reception.badSeqNum = sync[s].reception.badSeqNum
     \/ /\ a.src.reception.badSeqNum = (Seqn(n) + 1) % SEQNUMMOD
        /\ ~a.ok \/ sync[s].reception.obsPacketCount = 0
  /\ LET r == sync[s].reception
         new == a.src.reception.maxSeqNum
     IN /\ IsValid(r) /\ r.obsPacketCount > 0 /\ new # r.maxSeqNum /\ Ahead(r, new) >= MaxDropout
          => new = Seqn(n) /\ r.badSeqNum = Seqn(n)

LEMMA FreshTyped ==
  ASSUME NEW p \in Nat
  PROVE  /\ Fresh(p) \in Receptions /\ Fresh(p).probation = p
         /\ Fresh(p).badSeqNum = SEQNUMMOD + 1 /\ Fresh(p).obsPacketCount = 0
BY ReceptionConstants DEF Fresh, Receptions, Counts, Seqs

LEMMA SourceForTyped ==
  ASSUME RecvTypeOK, Records, NEW s \in Source, NEW host \in Addr,
         NEW src, src = SourceFor(s, host)
  PROVE  /\ src \in SourceLinks /\ src.known = TRUE
         /\ src.reception = IF sync[s].known THEN sync[s].reception ELSE Fresh(MinValid)
<1>1. sync[s] \in SourceLinks /\ sync[s].known \in BOOLEAN
  BY DEF RecvTypeOK, SourceLinks
<1>2. CASE sync[s].known = FALSE
  <2>1. src = [known |-> TRUE, address |-> host, prevConflict |-> NoAddr,
               first |-> Null, last |-> Null, reception |-> Fresh(MinValid)]
    BY <1>2 DEF SourceFor, UnknownSource
  <2>2. Fresh(MinValid) \in Receptions /\ Null \in Pointers
    BY ReceptionConstants, FreshTyped, LinksAreNumbers
  <2> QED
    BY <1>2, <2>1, <2>2 DEF SourceLinks
<1>3. CASE sync[s].known = TRUE /\ sync[s].address = NoAddr
  <2>1. src = [sync[s] EXCEPT !.address = host]
    BY <1>3 DEF SourceFor
  <2> QED
    BY <1>1, <1>3, <2>1 DEF SourceLinks
<1>4. CASE sync[s].known = TRUE /\ sync[s].address # NoAddr
  <2>1. src = sync[s]
    BY <1>4 DEF SourceFor
  <2> QED
    BY <1>1, <1>4, <2>1
<1> QED
  BY <1>1, <1>2, <1>3, <1>4

LEMMA CheckTyped ==
  ASSUME NEW src \in SourceLinks, NEW host \in Addr, NEW c, c = CheckSSRC(src, host)
  PROVE  /\ c.ok \in BOOLEAN /\ c.src \in SourceLinks
         /\ c.src.known = src.known /\ c.src.reception = src.reception
<1>1. CASE src.address = host
  <2>1. c = [ok |-> TRUE, src |-> src]
    BY <1>1 DEF CheckSSRC
  <2> QED
    BY <2>1
<1>2. CASE src.address # host
  <2>1. CASE src.prevConflict = host
    <3>1. c = [ok |-> FALSE, src |-> src]
      BY <1>2, <2>1 DEF CheckSSRC, FollowsMove
    <3> QED
      BY <3>1
  <2>2. CASE src.prevConflict # host
    <3>0. PICK t : t = [src EXCEPT !.prevConflict = host, !.address = host]
      OBVIOUS
    <3>1. c = [ok |-> TRUE, src |-> t]
      BY <1>2, <2>2, <3>0 DEF CheckSSRC, FollowsMove
    <3>3. t \in SourceLinks
      BY <3>0 DEF SourceLinks
    <3>4. t.known = src.known /\ t.reception = src.reception
      BY <3>0 DEF SourceLinks
    <3>2. t \in SourceLinks /\ t.known = src.known /\ t.reception = src.reception
      BY <3>3, <3>4
    <3> QED
      BY <3>1, <3>2
  <2> QED
    BY <2>1, <2>2
<1> QED
  BY <1>1, <1>2

LEMMA AcceptTyped ==
  ASSUME RecvTypeOK, Records, NEW s \in Source, NEW n \in 0 .. MaxN, NEW host \in Addr,
         NEW a, a = Accept(s, n, host)
  PROVE  Accepts(s, n, a)
<1>1. PICK c, r, q : /\ c = CheckSSRC(SourceFor(s, host), host)
                     /\ r = c.src.reception /\ q = sync[s].reception
  OBVIOUS
<1>2. /\ c.ok \in BOOLEAN /\ c.src \in SourceLinks /\ c.src.known = TRUE
      /\ r = IF sync[s].known THEN q ELSE Fresh(MinValid)
  <2>1. PICK src : src = SourceFor(s, host)
    OBVIOUS
  <2>2. /\ src \in SourceLinks /\ src.known = TRUE
        /\ src.reception = IF sync[s].known THEN sync[s].reception ELSE Fresh(MinValid)
    BY <2>1, SourceForTyped
  <2>3. /\ c.ok \in BOOLEAN /\ c.src \in SourceLinks
        /\ c.src.known = src.known /\ c.src.reception = src.reception
    BY <1>1, <2>1, <2>2, CheckTyped
  <2> QED
    BY <1>1, <2>2, <2>3
<1>3. n \in Nat /\ Seqn(n) \in Seqs /\ MinValid \in Nat /\ SEQNUMMOD + 1 \notin Seqs
  BY QueueConstants, ReceptionConstants DEF Seqn, Seqs
<1>4. r \in Receptions /\ r.probation <= MinValid /\ q \in Receptions /\ q.probation <= MinValid
  <2>1. r \in Receptions /\ q \in Receptions
    BY <1>1, <1>2 DEF SourceLinks, RecvTypeOK
  <2>2. q.probation <= MinValid
    BY <1>1 DEF Records
  <2>3. r.probation <= MinValid
    BY <1>2, <1>3, <2>2, FreshTyped
  <2> QED
    BY <2>1, <2>2, <2>3
<1>5. \/ r = q
      \/ r.badSeqNum \notin Seqs /\ r.obsPacketCount = 0 /\ q.obsPacketCount = 0
  <2>1. CASE sync[s].known
    BY <1>2, <2>1
  <2>2. CASE ~sync[s].known
    <3>1. r = Fresh(MinValid) /\ q = Fresh(0)
      BY <1>1, <1>2, <2>2 DEF Records
    <3> QED
      BY <1>3, <3>1, FreshTyped
  <2> QED
    BY <2>1, <2>2
<1>6. q.obsPacketCount \in Int
  BY <1>4 DEF Receptions, Counts
<1>7. CASE c.ok = FALSE
  <2>1. a = c
    BY <1>1, <1>7 DEF Accept
  <2>2. a.src.reception = r
    BY <1>1, <2>1
  <2>3. r = q \/ q.obsPacketCount = 0
    BY <1>5
  <2> QED
    BY <1>1, <1>2, <1>4, <1>5, <1>6, <2>1, <2>2, <2>3 DEF Accepts
<1>8. CASE c.ok = TRUE
  <2>1. PICK v : v = RecordReception(r, Seqn(n), n)
    OBVIOUS
  <2>2. v.ok \in BOOLEAN /\ v.r \in Receptions /\ v.r.probation <= MinValid
    BY <1>3, <1>4, <2>1, RecordKeeps
  <2>3. BadAfter(r, Seqn(n), v)
    BY <1>3, <1>4, <2>1, BadFollows
  <2>4. PICK t : t = [c.src EXCEPT !.reception = v.r]
    OBVIOUS
  <2>5. t \in SourceLinks /\ t.known = TRUE /\ t.reception = v.r
    BY <1>2, <2>2, <2>4 DEF SourceLinks
  <2>6. a = [ok |-> v.ok, src |-> t]
    BY <1>1, <1>8, <2>1, <2>4 DEF Accept
  <2>7. a.ok = v.ok /\ a.src = t
    BY <2>6
  <2>8. \/ v.r.badSeqNum \notin Seqs \/ v.r.badSeqNum = q.badSeqNum
        \/ v.r.badSeqNum = (Seqn(n) + 1) % SEQNUMMOD /\ (~v.ok \/ q.obsPacketCount = 0)
    BY <1>5, <2>3 DEF BadAfter
  <2>9. IsValid(q) /\ q.obsPacketCount > 0 /\ v.r.maxSeqNum # q.maxSeqNum
        /\ Ahead(q, v.r.maxSeqNum) >= MaxDropout
          => v.r.maxSeqNum = Seqn(n) /\ q.badSeqNum = Seqn(n)
    BY <1>5, <1>6, <2>3 DEF BadAfter
  <2> QED
    BY <1>1, <2>2, <2>5, <2>7, <2>8, <2>9 DEF Accepts
<1> QED
  BY <1>2, <1>7, <1>8

-----------------------------------------------------------------------------
(* The invariant: the lists are well made, in some order, and the number   *)
(* that is kept as bad comes behind that of a packet that was dropped.     *)
WellMade ==
  /\ Lives(Queue) \subseteq 1 .. links
  /\ \E pos : Good(Queue, Lives(Queue), pos, links)

BadKnown ==
  \A s \in Source : sync[s].reception.badSeqNum \in Seqs =>
    (sync[s].reception.badSeqNum - 1) % SEQNUMMOD \in strays[s]

QueueInv ==
  /\ RecvTypeOK /\ Records
  /\ ub => spoiled
  /\ ~spoiled /\ ~ended => WellMade
  /\ BadKnown

LEMMA QueueTyped ==
  ASSUME RecvTypeOK
  PROVE  /\ Queue \in Queues /\ Queue.link = link /\ Queue.first = recvFirst
         /\ Queue.last = recvLast /\ Queue.ub = FALSE /\ Queue.spoiled = spoiled
         /\ \A s \in Source : Queue.srcFirst[s] = sync[s].first /\ Queue.srcLast[s] = sync[s].last
<1>1. \A s \in Source : sync[s].first \in Pointers /\ sync[s].last \in Pointers
  BY DEF RecvTypeOK, SourceLinks
<1>2. spoiled \in BOOLEAN
  BY DEF RecvTypeOK
<1>3. PICK sf, sl : /\ sf = [s \in Source |-> sync[s].first]
                    /\ sl = [s \in Source |-> sync[s].last]
  OBVIOUS
<1>4. sf \in [Source -> Pointers] /\ sl \in [Source -> Pointers]
      /\ \A s \in Source : sf[s] = sync[s].first /\ sl[s] = sync[s].last
  BY <1>1, <1>3
<1>5. Queue = [link |-> link, first |-> recvFirst, last |-> recvLast,
               srcFirst |-> sf, srcLast |-> sl, ub |-> FALSE, spoiled |-> spoiled]
  BY <1>3 DEF Queue
<1> QED
  BY <1>2, <1>4, <1>5 DEF RecvTypeOK, Queues

LEMMA Stored ==
  ASSUME NEW q \in Queues, NEW table \in [Source -> SourceLinks], Store(q, table)
  PROVE  /\ sync' \in [Source -> SourceLinks]
         /\ link' \in [LinkIds -> PktLinks \cup {Freed}]
         /\ recvFirst' \in Pointers /\ recvLast' \in Pointers
         /\ ub' = q.ub /\ spoiled' = q.spoiled /\ ub' \in BOOLEAN /\ spoiled' \in BOOLEAN
         /\ \A s \in Source : /\ sync'[s].known = table[s].known
                              /\ sync'[s].reception = table[s].reception
         /\ q.ub = FALSE => Queue' = q
<1>1. /\ link' = q.link /\ recvFirst' = q.first /\ recvLast' = q.last
      /\ sync' = [s \in Source |-> [table[s] EXCEPT !.first = q.srcFirst[s],
                                                    !.last = q.srcLast[s]]]
      /\ ub' = q.ub /\ spoiled' = q.spoiled
  BY DEF Store
<1>2. ASSUME NEW s \in Source
      PROVE  /\ sync'[s] \in SourceLinks
             /\ sync'[s].known = table[s].known /\ sync'[s].reception = table[s].reception
             /\ sync'[s].first = q.srcFirst[s] /\ sync'[s].last = q.srcLast[s]
  <2>1. PICK a, b, t : a = q.srcFirst[s] /\ b = q.srcLast[s] /\ t = table[s]
    OBVIOUS
  <2>2. a \in Pointers /\ b \in Pointers /\ t \in SourceLinks
    BY <2>1 DEF Queues
  <2>3. sync'[s] = [t EXCEPT !.first = a, !.last = b]
    BY <1>1, <2>1
  <2>4. sync'[s] \in SourceLinks
    BY <2>2, <2>3 DEF SourceLinks
  <2>5. sync'[s].known = t.known /\ sync'[s].reception = t.reception
        /\ sync'[s].first = a /\ sync'[s].last = b
    BY <2>2, <2>3 DEF SourceLinks
  <2> QED
    BY <2>1, <2>4, <2>5
<1>3. sync' \in [Source -> SourceLinks]
  <2>1. sync' = [s \in Source |-> sync'[s]]
    BY <1>1
  <2> QED
    BY <1>2, <2>1
<1>4. ASSUME q.ub = FALSE PROVE Queue' = q
  <2>1. PICK sf, sl : /\ sf = [s \in Source |-> sync'[s].first]
                      /\ sl = [s \in Source |-> sync'[s].last]
    OBVIOUS
  <2>2. sf = q.srcFirst /\ sl = q.srcLast
    BY <1>2, <2>1 DEF Queues
  <2>3. Queue' = [link |-> link', first |-> recvFirst', last |-> recvLast',
                  srcFirst |-> sf, srcLast |-> sl, ub |-> FALSE, spoiled |-> spoiled']
    BY <2>1 DEF Queue
  <2> QED
    BY <1>1, <1>4, <2>2, <2>3 DEF Queues
<1>5. /\ q.link \in [LinkIds -> PktLinks \cup {Freed}] /\ q.first \in Pointers /\ q.last \in Pointers
      /\ q.ub \in BOOLEAN /\ q.spoiled \in BOOLEAN
  BY DEF Queues
<1> QED
  BY <1>1, <1>2, <1>3, <1>4, <1>5

(* The queue with a link for the packet that is taken in.                  *)
Unlinked(new, s) ==
  /\ new \in PktLinks /\ new.src = s
  /\ new.prev = Null /\ new.next = Null /\ new.srcPrev = Null /\ new.srcNext = Null

LEMMA LinkIsNew ==
  ASSUME RecvTypeOK, links < MaxLinks, Lives(Queue) \subseteq 1 .. links,
         NEW pos, Good(Queue, Lives(Queue), pos, links),
         NEW s \in Source, NEW new, Unlinked(new, s),
         NEW i, i = links + 1, NEW q, q = [Queue EXCEPT !.link[i] = new]
  PROVE  /\ q \in Queues /\ New(q, i, s) /\ q.ub = FALSE /\ q.spoiled = spoiled
         /\ Lives(q) \subseteq 1 .. i /\ Good(q, Lives(q) \ {i}, pos, links)
<1>0. /\ new \in PktLinks /\ new.src = s
      /\ new.prev = Null /\ new.next = Null /\ new.srcPrev = Null /\ new.srcNext = Null
  BY DEF Unlinked
<1> USE <1>0
<1>1. PICK p, l : p = Queue /\ l = [link EXCEPT ![i] = new]
  OBVIOUS
<1>2. /\ p \in Queues /\ p.link = link /\ p.ub = FALSE /\ p.spoiled = spoiled
  BY <1>1, QueueTyped
<1>3. links \in Nat /\ MaxLinks \in Nat /\ i \in LinkIds /\ i \notin 1 .. links
      /\ link \in [LinkIds -> PktLinks \cup {Freed}]
  BY QueueConstants DEF RecvTypeOK, LinkIds
<1>4. l \in [LinkIds -> PktLinks \cup {Freed}] /\ \A j \in LinkIds : l[j] = IF j = i THEN new ELSE link[j]
  BY <1>1, <1>3
<1>5. q = [p EXCEPT !.link = l]
  BY <1>1, <1>2 DEF Queues
<1>6. q \in Queues
  BY <1>2, <1>4, <1>5 DEF Queues
<1>7. /\ q.link = l /\ q.first = p.first /\ q.last = p.last
      /\ q.srcFirst = p.srcFirst /\ q.srcLast = p.srcLast
      /\ q.ub = p.ub /\ q.spoiled = p.spoiled
  BY <1>2, <1>5 DEF Queues
<1>8. new # Freed
  BY <1>2, LiveLinks
<1>9. Lives(q) = Lives(p) \cup {i} /\ i \notin Lives(p)
  BY <1>1, <1>2, <1>3, <1>4, <1>7, <1>8 DEF Lives
<1>10. New(q, i, s)
  <2>1. q.link[i] = new /\ i \in Lives(q)
    BY <1>3, <1>4, <1>7, <1>9
  <2>2. /\ Nexts(q)[i] = Null /\ Prevs(q)[i] = Null
        /\ SrcNexts(q)[i] = Null /\ SrcPrevs(q)[i] = Null
    <3>1. /\ q.link[i].next = Null /\ q.link[i].prev = Null
          /\ q.link[i].srcNext = Null /\ q.link[i].srcPrev = Null
      BY <2>1
    <3> QED
      BY <1>3, <3>1 DEF Nexts, Prevs, SrcNexts, SrcPrevs
  <2> QED
    BY <2>1, <2>2 DEF New
<1>11. Lives(q) \subseteq 1 .. i
  BY <1>1, <1>3, <1>9
<1>12. SameLists(p, q, Lives(p), p.last, Prevs(p))
  <2>1. \A j \in Lives(p) : j \in LinkIds /\ q.link[j] = p.link[j]
    BY <1>2, <1>4, <1>7, <1>9 DEF Lives
  <2>2. \A j \in Lives(p) : /\ Nexts(q)[j] = Nexts(p)[j] /\ Prevs(q)[j] = Prevs(p)[j]
                            /\ SrcNexts(q)[j] = SrcNexts(p)[j] /\ SrcPrevs(q)[j] = SrcPrevs(p)[j]
    BY <2>1 DEF Nexts, Prevs, SrcNexts, SrcPrevs
  <2> QED
    BY <1>7, <1>9, <2>1, <2>2 DEF SameLists
<1>13. Good(q, Lives(p), pos, links)
  <2>1. GoodWith(p, Lives(p), pos, links, p.last, Prevs(p)) /\ Lives(p) \subseteq LinkIds
    BY <1>1 DEF Good, Lives
  <2> QED
    BY <1>12, <2>1, GoodSame
<1>14. Lives(q) \ {i} = Lives(p)
  BY <1>9
<1> QED
  BY <1>2, <1>6, <1>7, <1>10, <1>11, <1>13, <1>14

(* A queue that is stored and well made.                                   *)
LEMMA StoredWell ==
  ASSUME NEW q \in Queues, NEW table \in [Source -> SourceLinks], Store(q, table),
         q.ub = FALSE, Lives(q) \subseteq 1 .. links',
         NEW pos, Good(q, Lives(q), pos, links')
  PROVE  WellMade'
<1>1. Queue' = q
  BY Stored
<1> QED
  BY <1>1 DEF WellMade

LEMMA QueueInvInit == RecvInit => QueueInv
<1> SUFFICES ASSUME RecvInit PROVE QueueInv
  OBVIOUS
<1>1. Fresh(0) \in Receptions /\ Fresh(0).probation = 0 /\ Fresh(0).badSeqNum = SEQNUMMOD + 1
  BY FreshTyped
<1>2. /\ UnknownSource \in SourceLinks /\ UnknownSource.reception = Fresh(0)
      /\ UnknownSource.first = Null /\ UnknownSource.last = Null
  <2>1. Null \in Pointers
    BY LinksAreNumbers
  <2> HIDE DEF Fresh
  <2> QED
    BY <1>1, <2>1 DEF UnknownSource, SourceLinks
<1>3. \A s \in Source : sync[s] = UnknownSource
  BY DEF RecvInit
<1>4. MinValid \in Nat /\ MaxLinks \in Nat /\ SEQNUMMOD + 1 \notin Seqs
  BY QueueConstants, ReceptionConstants DEF Seqs
<1>5. RecvTypeOK
  <2>1. sync \in [Source -> SourceLinks]
    BY <1>2 DEF RecvInit
  <2>2. link \in [LinkIds -> PktLinks \cup {Freed}]
    BY DEF RecvInit
  <2>3. links \in 0 .. MaxLinks /\ recvFirst \in Pointers /\ recvLast \in Pointers
    BY <1>4, LinksAreNumbers DEF RecvInit
  <2>4. conflicts \subseteq Addr /\ {crashed, ub, ended, spoiled} \subseteq BOOLEAN
    BY DEF RecvInit
  <2>5. strays \in [Source -> SUBSET Seqs]
    BY DEF RecvInit
  <2> QED
    BY <2>1, <2>2, <2>3, <2>4, <2>5 DEF RecvTypeOK
<1>6. Records /\ BadKnown
  BY <1>1, <1>2, <1>3, <1>4 DEF Records, BadKnown
<1>7. WellMade
  <2>1. PICK q : q = Queue
    OBVIOUS
  <2>2. Lives(q) = {}
    BY <2>1 DEF RecvInit, Queue, Lives
  <2>3. /\ q.first = Null /\ q.last = Null
        /\ \A s \in Source : q.srcFirst[s] = Null /\ q.srcLast[s] = Null
    <3>1. recvFirst = Null /\ recvLast = Null
      BY DEF RecvInit
    <3> QED
      BY <1>2, <1>3, <1>5, <2>1, <3>1, QueueTyped
  <2>4. Within({}, link, links) /\ Placed({}, link)
    BY DEF Within, Placed
  <2>5. IsList({}, link, q.first, q.last, Nexts(q), Prevs(q))
    BY <2>3 DEF IsList
  <2>6. InSources(q, {}, link)
    <3>1. \A s \in Source : OfSource(q, {}, s) = {}
      BY DEF OfSource
    <3> QED
      BY <2>3, <3>1 DEF InSources, IsList
  <2>7. InSequence(q, {}, link)
    BY DEF InSequence
  <2>8. Good(q, {}, link, links)
    BY <2>2, <2>4, <2>5, <2>6, <2>7 DEF Good, GoodWith
  <2> QED
    BY <2>1, <2>2, <2>8 DEF WellMade
<1> QED
  BY <1>5, <1>6, <1>7 DEF QueueInv, RecvInit

(* What goes on is not spoiled yet.                                        *)
LEMMA InvNow ==
  ASSUME QueueInv, ~spoiled, ~ended
  PROVE  /\ RecvTypeOK /\ Records /\ BadKnown /\ links \in 0 .. MaxLinks
         /\ Lives(Queue) \subseteq 1 .. links
         /\ \E pos : Good(Queue, Lives(Queue), pos, links)
         /\ Queue \in Queues /\ Queue.ub = FALSE /\ Queue.spoiled = FALSE
<1>1. RecvTypeOK
  BY DEF QueueInv
<1>2. spoiled = FALSE
  BY <1>1 DEF RecvTypeOK
<1> QED
  BY <1>1, <1>2, QueueTyped DEF QueueInv, WellMade, RecvTypeOK

(* The records are as they were.                                           *)
LEMMA RecordsKept ==
  ASSUME Records, BadKnown, strays' = strays,
         \A s \in Source : sync'[s].known = sync[s].known /\ sync'[s].reception = sync[s].reception
  PROVE  Records' /\ BadKnown'
BY DEF Records, BadKnown

(* A query, whatever it is for.                                            *)
LEMMA AskKeeps ==
  ASSUME QueueInv, ~spoiled, ~ended,
         NEW q \in Queues, Store(q, sync),
         UNCHANGED <<links, conflicts, crashed, ended, strays>>,
         ~q.spoiled =>
           /\ q.ub = FALSE /\ Lives(q) \subseteq Lives(Queue)
           /\ \E pos : Good(q, Lives(q), pos, links)
  PROVE  QueueInv'
<1>1. /\ RecvTypeOK /\ Records /\ BadKnown /\ links \in 0 .. MaxLinks
      /\ Lives(Queue) \subseteq 1 .. links
  BY InvNow
<1>2. sync \in [Source -> SourceLinks]
  BY <1>1 DEF RecvTypeOK
<1>3. /\ sync' \in [Source -> SourceLinks]
      /\ link' \in [LinkIds -> PktLinks \cup {Freed}]
      /\ recvFirst' \in Pointers /\ recvLast' \in Pointers
      /\ ub' = q.ub /\ spoiled' = q.spoiled /\ ub' \in BOOLEAN /\ spoiled' \in BOOLEAN
      /\ \A s \in Source : sync'[s].known = sync[s].known /\ sync'[s].reception = sync[s].reception
  BY <1>2, Stored
<1>4. RecvTypeOK'
  BY <1>1, <1>3 DEF RecvTypeOK
<1>5. Records' /\ BadKnown'
  BY <1>1, <1>3, RecordsKept
<1>6. CASE q.spoiled = TRUE
  BY <1>3, <1>4, <1>5, <1>6 DEF QueueInv
<1>7. CASE q.spoiled = FALSE
  <2>1. /\ q.ub = FALSE /\ Lives(q) \subseteq 1 .. links'
        /\ \E pos : Good(q, Lives(q), pos, links')
    BY <1>1, <1>7
  <2>2. WellMade'
    BY <1>2, <2>1, StoredWell
  <2> QED
    BY <1>3, <1>4, <1>5, <1>7, <2>1, <2>2 DEF QueueInv
<1>8. q.spoiled \in BOOLEAN
  BY DEF Queues
<1> QED
  BY <1>6, <1>7, <1>8

LEMMA GetDataKeeps ==
  ASSUME QueueInv, ~spoiled, ~ended, NEW stamp, GetData(stamp)
  PROVE  QueueInv'
<1>1. PICK p : p = Queue
  OBVIOUS
<1>6. PICK q : q = GetWaiting(p, stamp).q
  OBVIOUS
<1>2. PICK pos : Good(p, Lives(p), pos, links)
  BY <1>1, InvNow
<1>3. p \in Queues /\ p.ub = FALSE
  BY <1>1, InvNow
<1>4. /\ q \in Queues /\ q.ub = FALSE /\ Lives(q) \subseteq Lives(p)
      /\ Good(q, Lives(q), pos, links)
  <2>1. PICK m : m = links
    OBVIOUS
  <2>2. Good(p, Lives(p), pos, m)
    BY <1>2, <2>1
  <2>3. /\ q \in Queues /\ q.ub = FALSE /\ q.spoiled = p.spoiled
        /\ Lives(q) \subseteq Lives(p) /\ Good(q, Lives(q), pos, m)
    <3>1. Asked(p, pos, m)
      BY <1>3, <2>2 DEF Asked
    <3>2. Answered(p, q, pos, m)
      BY <1>6, <3>1, GetWaitingIsGood
    <3> QED
      BY <3>2 DEF Answered
  <2> QED
    BY <2>1, <2>3
<1>5. Store(q, sync) /\ UNCHANGED <<links, conflicts, crashed, ended, strays>>
  BY <1>1, <1>6 DEF GetData
<1> QED
  BY <1>1, <1>4, <1>5, AskKeeps

LEMMA GetDataOfKeeps ==
  ASSUME QueueInv, ~spoiled, ~ended, NEW s \in Source, NEW stamp \in 0 .. MaxN,
         GetDataOf(s, stamp)
  PROVE  QueueInv'
<1>1. PICK p : p = Queue
  OBVIOUS
<1>10. PICK g : g = GetWaitingOf(p, s, stamp).q
  OBVIOUS
<1>11. PICK b : b = (g.spoiled \/ Spoils(p, s, stamp))
  OBVIOUS
<1>2. PICK pos : Good(p, Lives(p), pos, links)
  BY <1>1, InvNow
<1>3. p \in Queues /\ p.ub = FALSE /\ p.spoiled = FALSE /\ stamp \in Int
  <2>1. p \in Queues /\ p.ub = FALSE /\ p.spoiled = FALSE
    BY <1>1, InvNow
  <2>2. stamp \in Int
    BY QueueConstants
  <2> QED
    BY <2>1, <2>2
<1>4. g \in Queues
  BY <1>3, <1>10, GetWaitingOfTyped
<1>5. PICK q : q = [g EXCEPT !.spoiled = b]
  OBVIOUS
<1>6. b \in BOOLEAN
  BY <1>11
<1>7. q \in Queues /\ q.spoiled = b /\ q.ub = g.ub
  BY <1>4, <1>5, <1>6 DEF Queues
<1>8. Store(q, sync) /\ UNCHANGED <<links, conflicts, crashed, ended, strays>>
  <2>1. Store([g EXCEPT !.spoiled = @ \/ Spoils(p, s, stamp)], sync)
    BY <1>1, <1>10 DEF GetDataOf
  <2>2. q = [g EXCEPT !.spoiled = @ \/ Spoils(p, s, stamp)]
    BY <1>4, <1>5, <1>11 DEF Queues
  <2> QED
    BY <2>1, <2>2 DEF GetDataOf
<1>9. ASSUME ~b
      PROVE  /\ q.ub = FALSE /\ Lives(q) \subseteq Lives(p)
             /\ \E pos2 : Good(q, Lives(q), pos2, links)
  <2>1. ~Spoils(p, s, stamp)
    BY <1>9, <1>11
  <2>2. /\ g.ub = FALSE /\ g.spoiled = p.spoiled
        /\ Lives(g) \subseteq Lives(p) /\ Good(g, Lives(g), pos, links)
    <3>1. PICK m : m = links
      OBVIOUS
    <3>2. Good(p, Lives(p), pos, m)
      BY <1>2, <3>1
    <3>3. /\ g \in Queues /\ g.ub = FALSE /\ g.spoiled = p.spoiled
          /\ Lives(g) \subseteq Lives(p) /\ Good(g, Lives(g), pos, m)
      <4>1. Asked(p, pos, m)
        BY <1>3, <3>2 DEF Asked
      <4>2. Answered(p, g, pos, m)
        BY <1>3, <1>10, <2>1, <4>1, GetWaitingOfIsGood
      <4> QED
        BY <4>2 DEF Answered
    <3> QED
      BY <3>1, <3>3
  <2>3. b = FALSE /\ g.spoiled = FALSE
    BY <1>3, <1>6, <1>9, <2>2
  <2>4. q = g
    BY <1>4, <1>5, <2>3 DEF Queues
  <2> QED
    BY <2>2, <2>4
<1> QED
  BY <1>1, <1>7, <1>8, <1>9, AskKeeps

(* What a packet leaves in the records.                                    *)
Recorded(s, n, a, table) ==
  /\ Accepts(s, n, a) /\ table = [sync EXCEPT ![s] = a.src]
  /\ strays' = IF a.ok /\ sync[s].reception.obsPacketCount > 0 THEN strays
               ELSE [strays EXCEPT ![s] = @ \cup {Seqn(n)}]
  /\ \A u \in Source : /\ sync'[u].known = table[u].known
                       /\ sync'[u].reception = table[u].reception

LEMMA RecordsAfter ==
  ASSUME RecvTypeOK, Records, BadKnown, NEW s \in Source, NEW n \in 0 .. MaxN,
         NEW a, NEW table, Recorded(s, n, a, table)
  PROVE  /\ table \in [Source -> SourceLinks]
         /\ Records' /\ BadKnown' /\ strays' \in [Source -> SUBSET Seqs]
<1>0. /\ Accepts(s, n, a) /\ table = [sync EXCEPT ![s] = a.src]
      /\ strays' = IF a.ok /\ sync[s].reception.obsPacketCount > 0 THEN strays
                   ELSE [strays EXCEPT ![s] = @ \cup {Seqn(n)}]
      /\ \A u \in Source : /\ sync'[u].known = table[u].known
                           /\ sync'[u].reception = table[u].reception
  BY DEF Recorded
<1> USE <1>0
<1>1. /\ a.ok \in BOOLEAN /\ a.src \in SourceLinks /\ a.src.known = TRUE
      /\ a.src.reception.probation <= MinValid
      /\ \/ a.src.reception.badSeqNum \notin Seqs
         \/ a.src.reception.badSeqNum = sync[s].reception.badSeqNum
         \/ /\ a.src.reception.badSeqNum = (Seqn(n) + 1) % SEQNUMMOD
            /\ ~a.ok \/ sync[s].reception.obsPacketCount = 0
  BY DEF Accepts
<1>2. sync \in [Source -> SourceLinks] /\ strays \in [Source -> SUBSET Seqs]
  BY DEF RecvTypeOK
<1>3. table \in [Source -> SourceLinks] /\ \A u \in Source : table[u] = IF u = s THEN a.src ELSE sync[u]
  BY <1>1, <1>2
<1>4. Seqn(n) \in Seqs
  BY QueueConstants, ReceptionConstants DEF Seqn, Seqs
<1>5. /\ strays' \in [Source -> SUBSET Seqs]
      /\ \A u \in Source : strays[u] \subseteq strays'[u]
  <2>1. CASE a.ok /\ sync[s].reception.obsPacketCount > 0
    BY <1>2, <2>1
  <2>2. CASE ~(a.ok /\ sync[s].reception.obsPacketCount > 0)
    BY <1>2, <1>4, <2>2
  <2> QED
    BY <2>1, <2>2
<1>6. ~(a.ok /\ sync[s].reception.obsPacketCount > 0) => Seqn(n) \in strays'[s]
  BY <1>2
<1>7. Records'
  <2>1. ASSUME NEW u \in Source
        PROVE  /\ sync'[u].reception.probation <= MinValid
               /\ ~sync'[u].known => sync'[u].reception = Fresh(0)
    <3>1. CASE u = s
      BY <1>1, <1>3, <3>1
    <3>2. CASE u # s
      BY <1>3, <3>2 DEF Records
    <3> QED
      BY <3>1, <3>2
  <2> QED
    BY <2>1 DEF Records
<1>8. BadKnown'
  <2>1. ASSUME NEW u \in Source, sync'[u].reception.badSeqNum \in Seqs
        PROVE  (sync'[u].reception.badSeqNum - 1) % SEQNUMMOD \in strays'[u]
    <3>1. CASE sync'[u].reception.badSeqNum = sync[u].reception.badSeqNum
      BY <1>5, <2>1, <3>1 DEF BadKnown
    <3>2. CASE sync'[u].reception.badSeqNum # sync[u].reception.badSeqNum
      <4>1. u = s /\ sync'[u].reception.badSeqNum = a.src.reception.badSeqNum
        BY <1>3, <3>2
      <4>2. /\ a.src.reception.badSeqNum = (Seqn(n) + 1) % SEQNUMMOD
            /\ ~a.ok \/ sync[s].reception.obsPacketCount = 0
        BY <1>1, <2>1, <3>2, <4>1
      <4>3. ~(a.ok /\ sync[s].reception.obsPacketCount > 0)
        BY <1>1, <4>2
      <4>4. (((Seqn(n) + 1) % SEQNUMMOD) - 1) % SEQNUMMOD = Seqn(n)
        BY <1>4, BeforeNext
      <4> QED
        BY <1>6, <4>1, <4>2, <4>3, <4>4
    <3> QED
      BY <3>1, <3>2
  <2> QED
    BY <2>1 DEF BadKnown
<1> QED
  BY <1>3, <1>5, <1>7, <1>8

LEMMA TakeInKeeps ==
  ASSUME QueueInv, ~spoiled, ~ended, ~ub, NEW s \in Source, NEW n \in 0 .. MaxN,
         NEW host \in Addr, TakeInDataPacket(s, n, host)
  PROVE  QueueInv'
<1>1. PICK a : a = Accept(s, n, host)
  OBVIOUS
<1>2. PICK table : table = [sync EXCEPT ![s] = a.src]
  OBVIOUS
<1>3. PICK i : i = links + 1
  OBVIOUS
<1>4. PICK new : new = [src |-> s, n |-> n,
                        ts |-> (n - a.src.reception.initialDataTimestamp) % CountMod,
                        prev |-> Null, next |-> Null, srcPrev |-> Null, srcNext |-> Null]
  OBVIOUS
<1>5. PICK q : q = [Queue EXCEPT !.link[i] = new]
  OBVIOUS
<1>6. PICK r : r = InsertRecvPacket(q, i, s)
  OBVIOUS
<1>7. /\ \/ a.ok /\ links < MaxLinks /\ links' = i /\ Store(r, table)
         \/ ~a.ok /\ Store(Queue, table) /\ links' = links
      /\ strays' = IF a.ok /\ sync[s].reception.obsPacketCount > 0 THEN strays
                   ELSE [strays EXCEPT ![s] = @ \cup {Seqn(n)}]
      /\ conflicts' = conflicts /\ crashed' = crashed /\ ended' = ended
  BY <1>1, <1>2, <1>3, <1>4, <1>5, <1>6 DEF TakeInDataPacket
<1>8. /\ RecvTypeOK /\ Records /\ BadKnown /\ links \in 0 .. MaxLinks
      /\ Lives(Queue) \subseteq 1 .. links
      /\ Queue \in Queues /\ Queue.ub = FALSE /\ Queue.spoiled = FALSE
  BY InvNow
<1>9. PICK pos : Good(Queue, Lives(Queue), pos, links)
  BY InvNow
<1>10. Accepts(s, n, a)
  BY <1>1, <1>8, AcceptTyped
<1>11. a.src \in SourceLinks /\ a.ok \in BOOLEAN
  BY <1>10 DEF Accepts
<1>12. table \in [Source -> SourceLinks]
  BY <1>2, <1>8, <1>11 DEF RecvTypeOK
<1>13. ASSUME NEW p \in Queues, Store(p, table), p.ub = FALSE, links' \in 0 .. MaxLinks,
              ~p.spoiled => /\ Lives(p) \subseteq 1 .. links'
                            /\ \E pos2 : Good(p, Lives(p), pos2, links')
       PROVE  QueueInv'
  <2>1. /\ sync' \in [Source -> SourceLinks]
        /\ link' \in [LinkIds -> PktLinks \cup {Freed}]
        /\ recvFirst' \in Pointers /\ recvLast' \in Pointers
        /\ ub' = p.ub /\ spoiled' = p.spoiled /\ ub' \in BOOLEAN /\ spoiled' \in BOOLEAN
        /\ \A u \in Source : sync'[u].known = table[u].known /\ sync'[u].reception = table[u].reception
    BY <1>12, <1>13, Stored
  <2>2. Records' /\ BadKnown' /\ strays' \in [Source -> SUBSET Seqs]
    <3>1. Recorded(s, n, a, table)
      BY <1>2, <1>7, <1>10, <2>1 DEF Recorded
    <3> QED
      BY <1>8, <3>1, RecordsAfter
  <2>3. RecvTypeOK'
    BY <1>7, <1>8, <1>13, <2>1, <2>2 DEF RecvTypeOK
  <2>4. ~p.spoiled => WellMade'
    BY <1>12, <1>13, StoredWell
  <2> QED
    BY <1>13, <2>1, <2>2, <2>3, <2>4 DEF QueueInv
<1>14. CASE ~a.ok
  <2>1. Store(Queue, table) /\ links' = links
    BY <1>7, <1>14
  <2> QED
    BY <1>8, <1>9, <1>13, <2>1
<1>15. CASE a.ok
  <2>1. links < MaxLinks /\ links' = i /\ Store(r, table)
    BY <1>7, <1>15
  <2>2. new \in PktLinks
    <3>1. a.src.reception.initialDataTimestamp \in Nat
      BY <1>11 DEF SourceLinks, Receptions
    <3>2. (n - a.src.reception.initialDataTimestamp) % CountMod \in Counts
      <4>1. n - a.src.reception.initialDataTimestamp \in Int
        BY <3>1, QueueConstants
      <4> QED
        BY <4>1, ReceptionConstants DEF Counts
    <3> QED
      BY <1>4, <3>2, LinksAreNumbers DEF PktLinks
  <2>3. Unlinked(new, s)
    BY <1>4, <2>2 DEF Unlinked
  <2>4. /\ q \in Queues /\ New(q, i, s) /\ q.ub = FALSE /\ q.spoiled = spoiled
        /\ Lives(q) \subseteq 1 .. i /\ Good(q, Lives(q) \ {i}, pos, links)
    BY <1>3, <1>5, <1>8, <1>9, <2>1, <2>3, LinkIsNew
  <2>5. PICK m : m = links
    OBVIOUS
  <2>6. q.spoiled = FALSE /\ m \in 0 .. MaxLinks /\ Good(q, Lives(q) \ {i}, pos, m)
    BY <1>8, <2>4, <2>5 DEF RecvTypeOK
  <2>7. /\ r \in Queues /\ r.ub = FALSE /\ Lives(r) \subseteq Lives(q)
        /\ ~r.spoiled => \E pos2 : Good(r, Lives(r), pos2, m + 1)
    BY <1>6, <2>4, <2>6, InsertRecvPacketIsGood
  <2>8. links' = m + 1 /\ links' \in 0 .. MaxLinks
    BY <1>3, <1>8, <2>1, <2>5, QueueConstants
  <2>9. Lives(r) \subseteq 1 .. links'
    BY <1>3, <2>1, <2>4, <2>7
  <2> QED
    BY <1>13, <2>1, <2>7, <2>8, <2>9
<1> QED
  BY <1>11, <1>14, <1>15

(* The links reached so far and the next ones.                             *)
ReachMore(reached) ==
  reached \cup ({link[i].next : i \in {j \in reached : Live(Queue, j)}} \ {Null})

(* What is purged is live.                                                 *)
LEMMA PurgeReachesLive ==
  ASSUME RecvTypeOK, NEW pos, Good(Queue, Lives(Queue), pos, links), PurgeIncomingQueue
  PROVE  /\ ub' = FALSE
         /\ \E all, sources : /\ link' = [i \in LinkIds |-> IF i \in all THEN Freed ELSE link[i]]
                              /\ sync' = ForgetLists(sources)
<1> DEFINE Step(e, k) == ReachMore(e)
           Made(f) == f = [k \in 0 .. MaxLinks |-> IF k = 0 THEN {recvFirst} \ {Null}
                                                            ELSE Step(f[k - 1], k)]
           reached == CHOOSE f : Made(f)
           S == SUBSET Lives(Queue)
           g == [x \in S \X Nat |-> Step(x[1], x[2])]
<1>0. PICK a : a = {recvFirst} \ {Null}
  OBVIOUS
<1>20. /\ Queue \in Queues /\ Queue.link = link /\ Queue.first = recvFirst
       /\ Queue.last = recvLast
  BY QueueTyped
<1>21. IsList(Lives(Queue), pos, recvFirst, recvLast, Nexts(Queue), Prevs(Queue))
  BY <1>20 DEF Good, GoodWith
<1>22. Placed(Lives(Queue), pos)
  BY DEF Good, GoodWith, Within
<1>1. MaxLinks \in Nat /\ a \in S
  <2>1. recvFirst # Null => recvFirst \in Lives(Queue)
    BY <1>21, <1>22, ListEnds DEF IsList
  <2> QED
    BY <1>0, <2>1, QueueConstants
<1>2. \A p \in S, k \in Nat : Step(p, k) \in S
  <2> SUFFICES ASSUME NEW p \in S PROVE ReachMore(p) \subseteq Lives(Queue)
    OBVIOUS
  <2>1. ASSUME NEW i \in Lives(Queue), link[i].next # Null
        PROVE  link[i].next \in Lives(Queue)
    <3>1. i \in LinkIds /\ Nexts(Queue)[i] = link[i].next
      BY <1>20, LiveLinks, PointersOfLinks
    <3>2. IsNext(Lives(Queue), pos, i, Nexts(Queue)[i])
      BY <1>21 DEF IsList
    <3> QED
      BY <2>1, <3>1, <3>2 DEF IsNext
  <2> QED
    BY <2>1 DEF ReachMore
<1>3. g \in [S \X Nat -> S]
  <2> HIDE DEF Step, S
  <2> QED
    BY <1>2
<1>4. PICK f \in [0 .. MaxLinks -> S] : Steps(f, a, g, MaxLinks)
  <2> HIDE DEF g, S
  <2> QED
    BY <1>1, <1>3, StepsExist
<1>5. \A k \in 1 .. MaxLinks : f[k] = Step(f[k - 1], k)
  <2> HIDE DEF Step, S
  <2>1. ASSUME NEW k \in 1 .. MaxLinks PROVE f[k] = Step(f[k - 1], k)
    <3>1. k - 1 \in 0 .. MaxLinks /\ f[k - 1] \in S /\ k \in Nat
      BY <1>1
    <3>2. <<f[k - 1], k>> \in S \X Nat /\ f[k] = g[<<f[k - 1], k>>]
      BY <1>4, <3>1 DEF Steps
    <3> QED
      BY <3>2
  <2> QED
    BY <2>1
<1>6. Made(f)
  <2> DEFINE F == [k \in 0 .. MaxLinks |-> IF k = 0 THEN a ELSE Step(f[k - 1], k)]
  <2> HIDE DEF Step, S
  <2>1. ASSUME NEW k \in 0 .. MaxLinks PROVE F[k] = f[k]
    BY <1>1, <1>4, <1>5 DEF Steps
  <2>2. F = f
    <3>1. F = [k \in 0 .. MaxLinks |-> F[k]] /\ f = [k \in 0 .. MaxLinks |-> f[k]]
      BY <1>4
    <3> HIDE DEF F
    <3> QED
      BY <2>1, <3>1
  <2> QED
    BY <1>0, <2>2
<1>7. Made(reached)
  <2> HIDE DEF Made
  <2> QED
    BY <1>6
<1>8. /\ link' = [i \in LinkIds |-> IF i \in reached[MaxLinks] THEN Freed ELSE link[i]]
      /\ sync' = ForgetLists({link[i].src : i \in {j \in reached[MaxLinks] : Live(Queue, j)}})
      /\ ub' = (\E i \in reached[MaxLinks] : ~Live(Queue, i))
  BY DEF PurgeIncomingQueue, ReachMore
<1> HIDE DEF reached
<1>9. reached[0] = a /\ \A k \in 1 .. MaxLinks : reached[k] = Step(reached[k - 1], k)
  <2> HIDE DEF Step
  <2>1. reached = [k \in 0 .. MaxLinks |-> IF k = 0 THEN a ELSE Step(reached[k - 1], k)]
    BY <1>0, <1>7
  <2>2. 0 \in 0 .. MaxLinks /\ \A k \in 1 .. MaxLinks : k \in 0 .. MaxLinks /\ k # 0
    BY <1>1
  <2> QED
    BY <2>1, <2>2
<1>10. reached[MaxLinks] \in S
  <2> DEFINE T == {k \in Nat : k <= MaxLinks => reached[k] \in S}
  <2> HIDE DEF Step, S
  <2>1. 0 \in T
    BY <1>1, <1>9
  <2>2. ASSUME NEW k \in Nat, k \in T PROVE k + 1 \in T
    <3>1. CASE k + 1 <= MaxLinks
      <4>1. k + 1 \in 1 .. MaxLinks /\ (k + 1) - 1 = k /\ k <= MaxLinks
        BY <1>1, <3>1
      <4>2. reached[k + 1] = Step(reached[k], k + 1)
        BY <1>9, <4>1
      <4> QED
        BY <1>2, <2>2, <4>1, <4>2
    <3> QED
      BY <3>1
  <2>3. MaxLinks \in T
    <3> HIDE DEF T
    <3> QED
      BY <1>1, <2>1, <2>2, InductionOnSet
  <2> QED
    BY <1>1, <2>3
<1>11. ub' = FALSE
  BY <1>8, <1>10, <1>20, LiveLinks
<1> QED
  BY <1>8, <1>11

(* A purge leaves the records of the sources as they were.                 *)
LEMMA PurgeKeeps ==
  ASSUME QueueInv, ~spoiled, ~ended, PurgeIncomingQueue
  PROVE  QueueInv'
<1>1. /\ RecvTypeOK /\ Records /\ BadKnown
      /\ \E pos : Good(Queue, Lives(Queue), pos, links)
  BY InvNow
<1>2. ub' = FALSE
  BY <1>1, PurgeReachesLive
<1>3. PICK all, sources :
           /\ link' = [i \in LinkIds |-> IF i \in all THEN Freed ELSE link[i]]
           /\ sync' = ForgetLists(sources)
  BY <1>1, PurgeReachesLive
<1>4. /\ recvFirst' = Null /\ ended' = TRUE
      /\ UNCHANGED <<links, recvLast, spoiled, conflicts, crashed, strays>>
  BY DEF PurgeIncomingQueue
<1>5. ASSUME NEW s \in Source
      PROVE  /\ sync'[s] \in SourceLinks
             /\ sync'[s].known = sync[s].known /\ sync'[s].reception = sync[s].reception
  <2>1. PICK t : t = sync[s]
    OBVIOUS
  <2>2. t \in SourceLinks
    BY <1>1, <2>1 DEF RecvTypeOK
  <2>3. sync'[s] = IF s \in sources THEN [t EXCEPT !.first = Null, !.last = Null] ELSE t
    BY <1>3, <2>1 DEF ForgetLists
  <2>4. Null \in Pointers
    BY LinksAreNumbers
  <2>5. sync'[s] \in SourceLinks /\ sync'[s].known = t.known /\ sync'[s].reception = t.reception
    BY <2>2, <2>3, <2>4 DEF SourceLinks
  <2> QED
    BY <2>1, <2>5
<1>6. sync' \in [Source -> SourceLinks]
  <2>1. sync' = [s \in Source |-> sync'[s]]
    BY <1>3 DEF ForgetLists
  <2> QED
    BY <1>5, <2>1
<1>7. link' \in [LinkIds -> PktLinks \cup {Freed}]
  BY <1>1, <1>3 DEF RecvTypeOK
<1>8. RecvTypeOK'
  BY <1>1, <1>2, <1>4, <1>6, <1>7, LinksAreNumbers DEF RecvTypeOK
<1>9. Records' /\ BadKnown'
  BY <1>1, <1>4, <1>5, RecordsKept
<1> QED
  BY <1>2, <1>4, <1>8, <1>9 DEF QueueInv

(* Nothing is done to the queue.                                           *)
LEMMA UnchangedKeeps ==
  ASSUME QueueInv, UNCHANGED <<queueVars, ub, ended, strays>>,
         conflicts' \subseteq Addr, crashed' \in BOOLEAN
  PROVE  QueueInv'
<1>1. UNCHANGED <<sync, link, links, recvFirst, recvLast, spoiled, ub, ended, strays>>
  BY DEF queueVars
<1>2. RecvTypeOK'
  BY <1>1 DEF QueueInv, RecvTypeOK
<1>3. Queue' = Queue
  BY <1>1 DEF Queue
<1>4. (~spoiled /\ ~ended => WellMade)'
  BY <1>1, <1>3 DEF QueueInv, WellMade
<1>5. Records' /\ BadKnown'
  BY <1>1 DEF QueueInv, Records, BadKnown
<1> QED
  BY <1>1, <1>2, <1>4, <1>5 DEF QueueInv

LEMMA QueueInvStep ==
  ASSUME QueueInv, [RecvNext]_recvVars
  PROVE  QueueInv'
<1>0. conflicts \subseteq Addr /\ crashed \in BOOLEAN
  BY DEF QueueInv, RecvTypeOK
<1>1. CASE RecvNext
  <2>0. ~ub /\ ~crashed /\ ~ended /\ ~spoiled
    BY <1>1 DEF RecvNext
  <2>1. CASE ReceivePacket
    <3>1. PICK s \in Source, n \in 0 .. MaxN, a \in Addr :
                 TakeInDataPacket(s, n, a) \/ TakeInOwnPacket(s, a)
      BY <2>1 DEF ReceivePacket
    <3>2. CASE TakeInDataPacket(s, n, a)
      BY <2>0, <3>2, TakeInKeeps
    <3>3. CASE TakeInOwnPacket(s, a)
      <4>1. UNCHANGED <<queueVars, conflicts, ub, ended, strays>> /\ crashed' = (a \notin conflicts)
        BY <3>3 DEF TakeInOwnPacket
      <4>2. crashed' \in BOOLEAN
        BY <4>1
      <4> QED
        BY <1>0, <4>1, <4>2, UnchangedKeeps
    <3> QED
      BY <3>1, <3>2, <3>3
  <2>2. CASE Ask
    <3>1. PICK stamp \in 0 .. MaxN : GetData(stamp) \/ \E s \in Source : GetDataOf(s, stamp)
      BY <2>2 DEF Ask
    <3> QED
      BY <2>0, <3>1, GetDataKeeps, GetDataOfKeeps
  <2>3. CASE ControlConflict
    <3>1. conflicts' \subseteq Addr /\ UNCHANGED <<queueVars, crashed, ub, ended, strays>>
      BY <1>0, <2>3 DEF ControlConflict
    <3> QED
      BY <1>0, <3>1, UnchangedKeeps
  <2>4. CASE PurgeIncomingQueue
    BY <2>0, <2>4, PurgeKeeps
  <2> QED
    BY <1>1, <2>1, <2>2, <2>3, <2>4 DEF RecvNext
<1>2. CASE UNCHANGED recvVars
  BY <1>0, <1>2, UnchangedKeeps DEF recvVars
<1> QED
  BY <1>1, <1>2

LEMMA QueueInvAlways == RecvSpec => []QueueInv
<1>1. QueueInv /\ [RecvNext]_recvVars => QueueInv'
  BY QueueInvStep
<1> QED
  BY <1>1, QueueInvInit, PTL DEF RecvSpec

(* The handlers of the queue of received packets follow no null pointer    *)
(* and no pointer to a link that was freed, whatever the network delivers  *)
(* and in what order, as long as no packet is put in front of its source's *)
(* queue and no query for one source leaves the ends of the lists behind   *)
(* (incqueue.cpp:376-486, 579-648).                                        *)
THEOREM NothingIsFollowedAstray == RecvSpec => []NoDanglingPointer
<1>1. QueueInv => NoDanglingPointer
  BY DEF QueueInv, NoDanglingPointer
<1> QED
  BY <1>1, QueueInvAlways, PTL

(* What is stored of a source, but for the ends of its list.               *)
LEMMA ReceptionStored ==
  ASSUME NEW q, NEW table \in [Source -> SourceLinks], Store(q, table), NEW s \in Source
  PROVE  sync'[s].reception = table[s].reception
<1>1. PICK a, b, t : a = q.srcFirst[s] /\ b = q.srcLast[s] /\ t = table[s]
  OBVIOUS
<1>2. sync'[s] = [t EXCEPT !.first = a, !.last = b] /\ t \in SourceLinks
  BY <1>1 DEF Store
<1>3. sync'[s].reception = t.reception
  BY <1>2 DEF SourceLinks
<1> QED
  BY <1>1, <1>3

(* Only a packet that is taken in changes the record of its source.        *)
LEMMA ReceptionChanges ==
  ASSUME QueueInv, RecvNext, NEW s \in Source, sync'[s].reception # sync[s].reception
  PROVE  \E n \in 0 .. MaxN : \E a :
           Accepts(s, n, a) /\ sync'[s].reception = a.src.reception
<1>1. RecvTypeOK /\ Records /\ sync \in [Source -> SourceLinks]
  BY DEF QueueInv, RecvTypeOK
<1>2. ASSUME NEW u \in Source, NEW n \in 0 .. MaxN, NEW host \in Addr,
             TakeInDataPacket(u, n, host)
      PROVE  \E m \in 0 .. MaxN : \E a : Accepts(s, m, a) /\ sync'[s].reception = a.src.reception
  <2>1. PICK a, table : a = Accept(u, n, host) /\ table = [sync EXCEPT ![u] = a.src]
    OBVIOUS
  <2>2. Accepts(u, n, a)
    BY <1>1, <2>1, AcceptTyped
  <2>3. a.src \in SourceLinks
    BY <2>2 DEF Accepts
  <2>4. table \in [Source -> SourceLinks] /\ \A v \in Source : table[v] = IF v = u THEN a.src ELSE sync[v]
    BY <1>1, <2>1, <2>3
  <2>5. \E q : Store(q, table)
    BY <1>2, <2>1 DEF TakeInDataPacket
  <2>6. sync'[s].reception = table[s].reception
    BY <2>4, <2>5, ReceptionStored
  <2>7. u = s
    BY <2>4, <2>6
  <2> QED
    BY <2>2, <2>4, <2>6, <2>7
<1>3. ASSUME NEW q, Store(q, sync) PROVE FALSE
  BY <1>1, <1>3, ReceptionStored
<1>4. ASSUME UNCHANGED sync PROVE FALSE
  BY <1>4
<1>5. ASSUME PurgeIncomingQueue PROVE FALSE
  <2>1. \E sources : sync' = ForgetLists(sources)
    BY <1>5 DEF PurgeIncomingQueue
  <2>2. PICK sources : sync' = ForgetLists(sources)
    BY <2>1
  <2>3. PICK t : t = sync[s]
    OBVIOUS
  <2>4. sync'[s] = IF s \in sources THEN [t EXCEPT !.first = Null, !.last = Null] ELSE t
    BY <2>2, <2>3 DEF ForgetLists
  <2>5. t \in SourceLinks
    BY <1>1, <2>3
  <2> QED
    BY <2>3, <2>4, <2>5 DEF SourceLinks
<1>6. CASE ReceivePacket
  <2>1. PICK u \in Source, n \in 0 .. MaxN, a \in Addr :
               TakeInDataPacket(u, n, a) \/ TakeInOwnPacket(u, a)
    BY <1>6 DEF ReceivePacket
  <2>2. TakeInOwnPacket(u, a) => UNCHANGED sync
    BY DEF TakeInOwnPacket, queueVars
  <2> QED
    BY <1>2, <1>4, <2>1, <2>2
<1>7. CASE Ask
  <2>1. \E q : Store(q, sync)
    BY <1>7 DEF Ask, GetData, GetDataOf
  <2> QED
    BY <1>3, <2>1
<1>8. CASE ControlConflict
  <2>1. UNCHANGED sync
    BY <1>8 DEF ControlConflict, queueVars
  <2> QED
    BY <1>4, <2>1
<1> QED
  BY <1>5, <1>6, <1>7, <1>8 DEF RecvNext

(* A valid source goes on from elsewhere in its sequence only by a packet  *)
(* behind one that was dropped for it, or behind its first one: the number *)
(* that is kept as bad is always the one behind such a packet              *)
(* (incqueue.cpp:656-683).                                                 *)
THEOREM RestartsAreExpected == RecvSpec => RestartNeedsTwo
<1> DEFINE Restart(s) ==
      LET r == sync[s].reception
           new == sync'[s].reception.maxSeqNum
      IN /\ IsValid(r) /\ r.obsPacketCount > 0
         /\ new # r.maxSeqNum /\ Ahead(r, new) >= MaxDropout
         => (new - 1) % SEQNUMMOD \in strays[s]
<1>1. ASSUME QueueInv, RecvNext, NEW s \in Source PROVE Restart(s)
  <2>1. CASE sync'[s].reception = sync[s].reception
    BY <2>1
  <2>2. CASE sync'[s].reception # sync[s].reception
    <3>7. PICK n \in 0 .. MaxN :
                 \E a : Accepts(s, n, a) /\ sync'[s].reception = a.src.reception
      BY <1>1, <2>2, ReceptionChanges
    <3>1. PICK a : Accepts(s, n, a) /\ sync'[s].reception = a.src.reception
      BY <3>7
    <3>2. PICK r, new : r = sync[s].reception /\ new = a.src.reception.maxSeqNum
      OBVIOUS
    <3>3. IsValid(r) /\ r.obsPacketCount > 0 /\ new # r.maxSeqNum /\ Ahead(r, new) >= MaxDropout
            => new = Seqn(n) /\ r.badSeqNum = Seqn(n)
      BY <3>1, <3>2 DEF Accepts
    <3>4. Seqn(n) \in Seqs
      BY QueueConstants, ReceptionConstants DEF Seqn, Seqs
    <3>5. r.badSeqNum \in Seqs => (r.badSeqNum - 1) % SEQNUMMOD \in strays[s]
      BY <1>1, <3>2 DEF QueueInv, BadKnown
    <3>6. r.badSeqNum = Seqn(n) => (Seqn(n) - 1) % SEQNUMMOD \in strays[s]
      BY <3>4, <3>5
    <3> QED
      BY <3>1, <3>2, <3>3, <3>6
  <2> QED
    BY <2>1, <2>2
<1>2. QueueInv /\ [RecvNext]_recvVars => [\A s \in Source : Restart(s)]_recvVars
  BY <1>1
<1> QED
  BY <1>2, QueueInvAlways, PTL DEF RecvSpec, RestartNeedsTwo

-----------------------------------------------------------------------------
(* One more link of a chain, and what every step of it leads to.           *)
ChainMore(c, next) ==
  IF c = <<>> \/ ~Live(Queue, Last(c)) \/ next[Last(c)] = Null
    THEN c ELSE Append(c, next[Last(c)])

LEMMA ChainMade ==
  ASSUME NEW start \in Pointers, NEW next \in [LinkIds -> Pointers],
         NEW a, a = IF start = Null THEN <<>> ELSE <<start>>,
         NEW T, a \in T[0],
         \A k \in 1 .. MaxLinks, c \in Seq(LinkIds) :
           c \in T[k - 1] => ChainMore(c, next) \in T[k]
  PROVE  Chain(start, next) \in T[MaxLinks]
<1> DEFINE Step(e, k) == ChainMore(e, next)
           Made(f) == f = [k \in 0 .. MaxLinks |->
                             IF k = 0 THEN IF start = Null THEN <<>> ELSE <<start>>
                             ELSE Step(f[k - 1], k)]
           chain == CHOOSE f : Made(f)
           S == Seq(LinkIds)
           g == [x \in S \X Nat |-> Step(x[1], x[2])]
<1>1. MaxLinks \in Nat /\ a \in S
  <2>1. start # Null => start \in LinkIds
    BY DEF Pointers
  <2> QED
    BY <2>1, QueueConstants
<1>2. \A c \in S, k \in Nat : Step(c, k) \in S
  <2> SUFFICES ASSUME NEW c \in S PROVE ChainMore(c, next) \in S
    OBVIOUS
  <2>1. CASE c = <<>> \/ ~Live(Queue, Last(c)) \/ next[Last(c)] = Null
    BY <2>1 DEF ChainMore
  <2>2. CASE ~(c = <<>> \/ ~Live(Queue, Last(c)) \/ next[Last(c)] = Null)
    <3>1. Last(c) \in LinkIds
      BY <2>2 DEF Last
    <3>2. next[Last(c)] \in LinkIds
      BY <2>2, <3>1 DEF Pointers
    <3> QED
      BY <2>2, <3>2 DEF ChainMore
  <2> QED
    BY <2>1, <2>2
<1>3. g \in [S \X Nat -> S]
  <2> HIDE DEF Step, S
  <2> QED
    BY <1>2
<1>4. PICK f \in [0 .. MaxLinks -> S] : Steps(f, a, g, MaxLinks)
  <2> HIDE DEF g, S
  <2> QED
    BY <1>1, <1>3, StepsExist
<1>5. \A k \in 1 .. MaxLinks : f[k] = Step(f[k - 1], k)
  <2> HIDE DEF Step, S
  <2>1. ASSUME NEW k \in 1 .. MaxLinks PROVE f[k] = Step(f[k - 1], k)
    <3>1. k - 1 \in 0 .. MaxLinks /\ f[k - 1] \in S /\ k \in Nat
      BY <1>1
    <3>2. <<f[k - 1], k>> \in S \X Nat /\ f[k] = g[<<f[k - 1], k>>]
      BY <1>4, <3>1 DEF Steps
    <3> QED
      BY <3>2
  <2> QED
    BY <2>1
<1>6. Made(f)
  <2> DEFINE F == [k \in 0 .. MaxLinks |-> IF k = 0 THEN a ELSE Step(f[k - 1], k)]
  <2> HIDE DEF Step, S
  <2>1. ASSUME NEW k \in 0 .. MaxLinks PROVE F[k] = f[k]
    BY <1>1, <1>4, <1>5 DEF Steps
  <2>2. F = f
    <3>1. F = [k \in 0 .. MaxLinks |-> F[k]] /\ f = [k \in 0 .. MaxLinks |-> f[k]]
      BY <1>4
    <3> HIDE DEF F
    <3> QED
      BY <2>1, <3>1
  <2> QED
    BY <2>2
<1>7. Made(chain)
  <2> HIDE DEF Made
  <2> QED
    BY <1>6
<1>8. Chain(start, next) = chain[MaxLinks]
  BY DEF Chain, ChainMore
<1> HIDE DEF chain
<1>9. chain[0] = a /\ \A k \in 1 .. MaxLinks : chain[k] = Step(chain[k - 1], k)
  <2> HIDE DEF Step
  <2>1. chain = [k \in 0 .. MaxLinks |-> IF k = 0 THEN a ELSE Step(chain[k - 1], k)]
    BY <1>7
  <2>2. 0 \in 0 .. MaxLinks /\ \A k \in 1 .. MaxLinks : k \in 0 .. MaxLinks /\ k # 0
    BY <1>1
  <2> QED
    BY <2>1, <2>2
<1>10. chain[MaxLinks] \in T[MaxLinks]
  <2> DEFINE U == {k \in Nat : k <= MaxLinks => chain[k] \in S /\ chain[k] \in T[k]}
  <2> HIDE DEF S
  <2>1. 0 \in U
    BY <1>1, <1>9
  <2>2. ASSUME NEW k \in Nat, k \in U PROVE k + 1 \in U
    <3>1. CASE k + 1 <= MaxLinks
      <4>1. k + 1 \in 1 .. MaxLinks /\ (k + 1) - 1 = k /\ k <= MaxLinks
        BY <1>1, <3>1
      <4>2. chain[k + 1] = ChainMore(chain[k], next)
        BY <1>9, <4>1
      <4>3. chain[k] \in S /\ chain[k] \in T[k]
        BY <2>2, <4>1
      <4>4. chain[k + 1] \in S
        BY <1>2, <4>2, <4>3
      <4>5. chain[k + 1] \in T[k + 1]
        BY <4>1, <4>2, <4>3 DEF S
      <4> QED
        BY <4>4, <4>5
    <3> QED
      BY <3>1
  <2>3. MaxLinks \in U
    <3> HIDE DEF U
    <3> QED
      BY <1>1, <2>1, <2>2, InductionOnSet
  <2> QED
    BY <1>1, <2>3
<1> QED
  BY <1>8, <1>10

(* A part of a list, from its first link on.                               *)
IsPart(c, S, pos, first, next) ==
  /\ c \in Seq(S)
  /\ c = <<>> <=> S = {}
  /\ S # {} => c[1] = first
  /\ \A k \in 1 .. Len(c) - 1 : next[c[k]] = c[k + 1]
  /\ \A j, k \in 1 .. Len(c) : j < k => pos[c[j]] < pos[c[k]]
  /\ \A k \in 1 .. Len(c) : k <= pos[c[k]]
  /\ \A i \in S : pos[i] <= pos[c[Len(c)]] => \E k \in 1 .. Len(c) : c[k] = i

Grown(c, d, S, pos, first, last, next, prev) ==
  /\ Placed(S, pos) /\ IsList(S, pos, first, last, next, prev)
  /\ IsPart(c, S, pos, first, next) /\ c # <<>>
  /\ next[c[Len(c)]] # Null /\ d = Append(c, next[c[Len(c)]])

LEMMA PartGrows ==
  ASSUME NEW S, NEW pos, NEW first, NEW last, NEW next, NEW prev,
         NEW c, NEW d, Grown(c, d, S, pos, first, last, next, prev)
  PROVE  IsPart(d, S, pos, first, next) /\ Len(d) = Len(c) + 1
<1> PICK i : i = next[c[Len(c)]]
  OBVIOUS
<1>0. /\ Placed(S, pos) /\ IsList(S, pos, first, last, next, prev)
      /\ IsPart(c, S, pos, first, next) /\ c # <<>>
      /\ i # Null /\ d = Append(c, i)
  BY DEF Grown
<1> USE <1>0
<1> PICK n, l : n = Len(c) /\ l = c[n]
  OBVIOUS
<1>1. /\ c \in Seq(S) /\ n \in Nat /\ n >= 1 /\ l \in S /\ S # {} /\ c[1] = first
      /\ \A k \in 1 .. n : c[k] \in S
  BY DEF IsPart
<1>2. /\ i \in S /\ pos[l] < pos[i]
      /\ \A j \in S : pos[j] <= pos[l] \/ pos[i] <= pos[j]
  <2>1. IsNext(S, pos, l, i)
    BY <1>1 DEF IsList
  <2> QED
    BY <2>1 DEF IsNext
<1>3. /\ d \in Seq(S) /\ Len(d) = n + 1 /\ d[n + 1] = i
      /\ \A k \in 1 .. n : d[k] = c[k]
  BY <1>1, <1>2
<1>4. /\ \A j \in S : pos[j] \in Nat
      /\ \A j, k \in S : pos[j] = pos[k] => j = k
  BY DEF Placed
<1>5. /\ \A k \in 1 .. n - 1 : next[c[k]] = c[k + 1]
      /\ \A j, k \in 1 .. n : j < k => pos[c[j]] < pos[c[k]]
      /\ \A k \in 1 .. n : k <= pos[c[k]]
      /\ \A j \in S : pos[j] <= pos[l] => \E k \in 1 .. n : c[k] = j
  BY DEF IsPart
<1>6. \A k \in 1 .. n : next[d[k]] = d[k + 1]
  <2>1. ASSUME NEW k \in 1 .. n PROVE next[d[k]] = d[k + 1]
    <3>1. CASE k = n
      BY <1>1, <1>3, <3>1
    <3>2. CASE k # n
      <4>1. k \in 1 .. n - 1 /\ k + 1 \in 1 .. n
        BY <1>1, <3>2
      <4> QED
        BY <1>3, <1>5, <4>1
    <3> QED
      BY <3>1, <3>2
  <2> QED
    BY <2>1
<1>7. \A k \in 1 .. n : pos[c[k]] <= pos[l]
  <2>1. ASSUME NEW k \in 1 .. n PROVE pos[c[k]] <= pos[l]
    <3>1. CASE k = n
      BY <1>1, <1>4, <3>1
    <3>2. CASE k # n
      <4>1. n \in 1 .. n /\ k < n
        BY <1>1, <3>2
      <4>2. pos[c[k]] < pos[l] /\ pos[c[k]] \in Nat /\ pos[l] \in Nat
        BY <1>1, <1>4, <1>5, <4>1
      <4> QED
        BY <4>2
    <3> QED
      BY <3>1, <3>2
  <2> QED
    BY <2>1
<1>8. \A j, k \in 1 .. n + 1 : j < k => pos[d[j]] < pos[d[k]]
  <2>1. ASSUME NEW j \in 1 .. n + 1, NEW k \in 1 .. n + 1, j < k PROVE pos[d[j]] < pos[d[k]]
    <3>0. j \in 1 .. n
      BY <1>1, <2>1
    <3>1. CASE k = n + 1
      <4>1. pos[c[j]] \in Nat /\ pos[l] \in Nat /\ pos[i] \in Nat /\ pos[c[j]] <= pos[l]
        BY <1>1, <1>2, <1>4, <1>7, <3>0
      <4> QED
        BY <1>2, <1>3, <3>0, <3>1, <4>1
    <3>2. CASE k # n + 1
      <4>1. k \in 1 .. n
        BY <1>1, <3>2
      <4> QED
        BY <1>3, <1>5, <2>1, <3>0, <4>1
    <3> QED
      BY <3>1, <3>2
  <2> QED
    BY <2>1
<1>9. \A k \in 1 .. n + 1 : k <= pos[d[k]]
  <2>1. ASSUME NEW k \in 1 .. n + 1 PROVE k <= pos[d[k]]
    <3>1. CASE k = n + 1
      <4>1. n <= pos[l] /\ pos[l] < pos[i] /\ pos[l] \in Nat /\ pos[i] \in Nat
        BY <1>1, <1>2, <1>4, <1>5
      <4> QED
        BY <1>1, <1>3, <3>1, <4>1
    <3>2. CASE k # n + 1
      <4>1. k \in 1 .. n
        BY <1>1, <3>2
      <4> QED
        BY <1>3, <1>5, <4>1
    <3> QED
      BY <3>1, <3>2
  <2> QED
    BY <2>1
<1>10. ASSUME NEW j \in S, pos[j] <= pos[i] PROVE \E k \in 1 .. n + 1 : d[k] = j
  <2>0. n + 1 \in 1 .. n + 1 /\ \A k \in 1 .. n : k \in 1 .. n + 1
    BY <1>1
  <2>1. CASE pos[j] <= pos[l]
    <3>1. PICK k \in 1 .. n : c[k] = j
      BY <1>5, <2>1
    <3> QED
      BY <1>3, <2>0, <3>1
  <2>2. CASE pos[i] <= pos[j]
    <3>1. pos[j] = pos[i]
      <4>1. pos[i] \in Nat /\ pos[j] \in Nat
        BY <1>2, <1>4
      <4> QED
        BY <1>10, <2>2, <4>1
    <3> QED
      BY <1>2, <1>3, <1>4, <2>0, <3>1
  <2> QED
    BY <1>2, <2>1, <2>2
<1>11. d # <<>> /\ d[1] = first /\ Len(d) - 1 = n
  BY <1>1, <1>3
<1> QED
  BY <1>1, <1>3, <1>6, <1>8, <1>9, <1>10, <1>11 DEF IsPart

(* The chain of a list: all its links, in their order.                     *)
ChainOf(c, S, pos, last, next, prev) ==
  /\ c \in Seq(S) /\ ToSet(c) = S
  /\ last = IF c = <<>> THEN Null ELSE Last(c)
  /\ \A j, k \in 1 .. Len(c) : j < k => pos[c[j]] < pos[c[k]]
  /\ \A k \in 1 .. Len(c) - 1 : next[c[k]] = c[k + 1] /\ prev[c[k + 1]] = c[k]

Listed(S, pos, first, last, next, prev) ==
  /\ S \subseteq Lives(Queue) /\ Placed(S, pos) /\ \A i \in S : pos[i] \in 1 .. MaxLinks
  /\ IsList(S, pos, first, last, next, prev)
  /\ first \in Pointers /\ next \in [LinkIds -> Pointers]

LEMMA ChainIsList ==
  ASSUME RecvTypeOK, NEW S, NEW pos, NEW first, NEW last, NEW next, NEW prev,
         Listed(S, pos, first, last, next, prev),
         NEW c, c = Chain(first, next)
  PROVE  ChainOf(c, S, pos, last, next, prev)
<1> DEFINE T == [k \in 0 .. MaxLinks |->
                   {d \in Seq(S) : /\ IsPart(d, S, pos, first, next)
                                   /\ d = <<>> \/ next[d[Len(d)]] = Null \/ Len(d) = k + 1}]
<1>1. /\ S \subseteq Lives(Queue) /\ Placed(S, pos) /\ \A i \in S : pos[i] \in 1 .. MaxLinks
      /\ IsList(S, pos, first, last, next, prev)
      /\ first \in Pointers /\ next \in [LinkIds -> Pointers]
      /\ MaxLinks \in Nat
  BY QueueConstants DEF Listed
<1>2. S \subseteq LinkIds /\ \A i \in S : Live(Queue, i)
  <2>1. Queue \in Queues
    BY QueueTyped
  <2> QED
    BY <1>1, <2>1, LiveLinks
<1>3. PICK a : a = IF first = Null THEN <<>> ELSE <<first>>
  OBVIOUS
<1>4. a \in T[0]
  <2>1. S = {} <=> first = Null
    BY <1>1, ListEnds
  <2>2. CASE first = Null
    <3>1. a = <<>> /\ S = {}
      BY <1>3, <2>1, <2>2
    <3> QED
      BY <1>1, <3>1 DEF IsPart
  <2>3. CASE first # Null
    <3>1. a = <<first>> /\ first \in S /\ \A i \in S : pos[first] <= pos[i]
      BY <1>1, <1>3, <2>1, <2>3 DEF IsList
    <3>2. a \in Seq(S) /\ Len(a) = 1 /\ a[1] = first /\ a # <<>> /\ S # {}
      BY <3>1
    <3>3. /\ \A i \in S : pos[i] <= pos[first] => i = first
          /\ 1 <= pos[first]
      BY <1>1, <3>1 DEF Placed
    <3>4. IsPart(a, S, pos, first, next)
      <4>1. \A k \in 1 .. Len(a) - 1 : FALSE
        BY <3>2
      <4>2. \A k \in 1 .. Len(a) : k = 1
        BY <3>2
      <4>3. \A j, k \in 1 .. Len(a) : ~(j < k)
        BY <4>2
      <4>4. \A k \in 1 .. Len(a) : k <= pos[a[k]]
        BY <3>2, <3>3, <4>2
      <4>5. \A i \in S : pos[i] <= pos[a[Len(a)]] => \E k \in 1 .. Len(a) : a[k] = i
        <5>1. 1 \in 1 .. Len(a)
          BY <3>2
        <5> QED
          BY <3>2, <3>3, <5>1
      <4> QED
        BY <3>2, <4>1, <4>3, <4>4, <4>5 DEF IsPart
    <3> QED
      BY <1>1, <3>2, <3>4
  <2> QED
    BY <2>2, <2>3
<1>5. ASSUME NEW k \in 1 .. MaxLinks, NEW d \in Seq(LinkIds), d \in T[k - 1]
      PROVE  ChainMore(d, next) \in T[k]
  <2>1. /\ k \in 0 .. MaxLinks /\ k - 1 \in 0 .. MaxLinks /\ (k - 1) + 1 = k
    BY <1>1
  <2>2. /\ d \in Seq(S) /\ IsPart(d, S, pos, first, next)
        /\ d = <<>> \/ next[d[Len(d)]] = Null \/ Len(d) = k
    BY <1>5, <2>1
  <2>3. CASE d = <<>> \/ next[d[Len(d)]] = Null
    <3>1. ChainMore(d, next) = d
      BY <2>3 DEF ChainMore, Last
    <3> QED
      BY <2>1, <2>2, <2>3, <3>1
  <2>4. CASE ~(d = <<>> \/ next[d[Len(d)]] = Null)
    <3>1. Len(d) = k /\ d # <<>> /\ d[Len(d)] \in S
      BY <2>2, <2>4
    <3>3. Last(d) = d[Len(d)] /\ Live(Queue, Last(d))
      BY <1>2, <3>1 DEF Last
    <3>4. PICK e : e = ChainMore(d, next)
      OBVIOUS
    <3>7. e = Append(d, next[d[Len(d)]]) /\ next[d[Len(d)]] # Null
      BY <2>4, <3>3, <3>4 DEF ChainMore
    <3>5. IsPart(e, S, pos, first, next) /\ Len(e) = Len(d) + 1
      <4>1. Grown(d, e, S, pos, first, last, next, prev)
        BY <1>1, <2>2, <3>1, <3>7 DEF Grown
      <4> QED
        BY <4>1, PartGrows
    <3>6. e \in Seq(S)
      BY <3>5 DEF IsPart
    <3> QED
      BY <2>1, <3>1, <3>4, <3>5, <3>6
  <2> QED
    BY <2>3, <2>4
<1>6. c \in T[MaxLinks]
  <2> HIDE DEF T
  <2> QED
    BY <1>1, <1>3, <1>4, <1>5, ChainMade
<1>7. PICK n : n = Len(c)
  OBVIOUS
<1>8. /\ c \in Seq(S) /\ IsPart(c, S, pos, first, next) /\ n \in Nat
      /\ c = <<>> \/ next[c[n]] = Null \/ n = MaxLinks + 1
  BY <1>1, <1>6, <1>7
<1>9. /\ c = <<>> <=> S = {}
      /\ \A k \in 1 .. n - 1 : next[c[k]] = c[k + 1]
      /\ \A j, k \in 1 .. n : j < k => pos[c[j]] < pos[c[k]]
      /\ \A k \in 1 .. n : k <= pos[c[k]]
      /\ \A i \in S : pos[i] <= pos[c[n]] => \E k \in 1 .. n : c[k] = i
      /\ \A k \in 1 .. n : c[k] \in S
  BY <1>7, <1>8 DEF IsPart
<1> HIDE DEF T
<1>10. n # MaxLinks + 1
  <2>1. ASSUME n = MaxLinks + 1 PROVE FALSE
    <3>1. n \in 1 .. n
      BY <1>1, <2>1
    <3>2. n <= pos[c[n]] /\ pos[c[n]] \in 1 .. MaxLinks
      BY <1>1, <1>9, <3>1
    <3> QED
      BY <1>1, <2>1, <3>2
  <2> QED
    BY <2>1
<1>11. ToSet(c) = S /\ last = IF c = <<>> THEN Null ELSE Last(c)
  <2>0. DOMAIN c = 1 .. n
    BY <1>7, <1>8
  <2>1. CASE c = <<>>
    <3>1. S = {} /\ last = Null
      BY <1>1, <1>9, <2>1, ListEnds
    <3>2. ToSet(c) = {}
      BY <2>1 DEF ToSet
    <3> QED
      BY <2>1, <3>1, <3>2
  <2>2. CASE c # <<>>
    <3>1. n \in 1 .. n /\ c[n] \in S
      BY <1>7, <1>8, <1>9, <2>2
    <3>2. next[c[n]] = Null
      BY <1>8, <1>10, <2>2
    <3>3. last = c[n]
      BY <1>1, <3>1, <3>2, ListEnds
    <3>4. \A i \in S : pos[i] <= pos[c[n]]
      <4>1. IsNext(S, pos, c[n], Null)
        BY <1>1, <3>1, <3>2 DEF IsList
      <4> QED
        BY <4>1 DEF IsNext
    <3>5. \A i \in S : \E k \in 1 .. n : c[k] = i
      BY <1>9, <3>4
    <3>6. ToSet(c) = S
      BY <1>9, <2>0, <3>5 DEF ToSet
    <3> QED
      BY <1>7, <2>2, <3>3, <3>6 DEF Last
  <2> QED
    BY <2>1, <2>2
<1>12. \A k \in 1 .. n - 1 : prev[c[k + 1]] = c[k]
  <2>1. ASSUME NEW k \in 1 .. n - 1 PROVE prev[c[k + 1]] = c[k]
    <3>1. k \in 1 .. n /\ k + 1 \in 1 .. n
      BY <1>8
    <3>2. c[k] \in S /\ c[k + 1] \in S /\ next[c[k]] = c[k + 1]
      BY <1>9, <3>1
    <3> QED
      BY <1>1, <3>2, ListInverse
  <2> QED
    BY <2>1
<1> QED
  BY <1>7, <1>8, <1>9, <1>11, <1>12 DEF ChainOf

(* A chain is well linked.                                                 *)
LEMMA ChainWellLinked ==
  ASSUME NEW S, \A i \in S : Live(Queue, i), NEW pos, NEW last, NEW next, NEW prev, NEW c,
         ChainOf(c, S, pos, last, next, prev)
  PROVE  WellLinked(c, last, prev)
<1>1. /\ c \in Seq(S) /\ last = IF c = <<>> THEN Null ELSE Last(c)
      /\ \A k \in 1 .. Len(c) - 1 : prev[c[k + 1]] = c[k]
  BY DEF ChainOf
<1>2. \A k \in DOMAIN c : c[k] \in S
  BY <1>1
<1> QED
  BY <1>1, <1>2 DEF WellLinked

(* Two chains in the order of the same places.                             *)
LEMMA ChainsInOrder ==
  ASSUME NEW S, NEW R \in SUBSET S, NEW pos, Placed(S, pos),
         NEW last, NEW next, NEW prev, NEW all, ChainOf(all, S, pos, last, next, prev),
         NEW last2, NEW next2, NEW prev2, NEW c, ChainOf(c, R, pos, last2, next2, prev2)
  PROVE  InOrderOf(c, all)
<1>1. /\ all \in Seq(S) /\ c \in Seq(R)
      /\ \A j, k \in 1 .. Len(all) : j < k => pos[all[j]] < pos[all[k]]
      /\ \A j, k \in 1 .. Len(c) : j < k => pos[c[j]] < pos[c[k]]
  BY DEF ChainOf
<1>2. ASSUME NEW j \in 1 .. Len(c), NEW k \in 1 .. Len(c),
             NEW a \in 1 .. Len(all), NEW b \in 1 .. Len(all),
             j < k, c[j] = all[a], c[k] = all[b]
      PROVE  a < b
  <2>1. pos[all[a]] < pos[all[b]]
    BY <1>1, <1>2
  <2>2. pos[all[a]] \in Nat /\ pos[all[b]] \in Nat
    <3>1. all[a] \in S /\ all[b] \in S
      BY <1>1
    <3> QED
      BY <3>1 DEF Placed
  <2>3. ~(b < a)
    <3>1. ASSUME b < a PROVE FALSE
      <4>1. pos[all[b]] < pos[all[a]]
        BY <1>1, <3>1
      <4> QED
        BY <2>1, <2>2, <4>1
    <3> QED
      BY <3>1
  <2>4. b # a
    BY <2>1, <2>2
  <2>5. a \in Int /\ b \in Int
    BY <1>1
  <2> QED
    BY <2>3, <2>4, <2>5
<1>3. DOMAIN c = 1 .. Len(c) /\ DOMAIN all = 1 .. Len(all)
  BY <1>1
<1> QED
  BY <1>2, <1>3 DEF InOrderOf

LEMMA WellMadeAgrees ==
  ASSUME RecvTypeOK, WellMade, ~spoiled, ~ended
  PROVE  ListsAgree
<1>1. PICK p, S, m : p = Queue /\ S = Lives(p) /\ m = links
  OBVIOUS
<1>2. PICK pos : Good(p, S, pos, m)
  BY <1>1 DEF WellMade
<1>3. /\ p \in Queues /\ p.link = link /\ p.first = recvFirst /\ p.last = recvLast
      /\ \A s \in Source : p.srcFirst[s] = sync[s].first /\ p.srcLast[s] = sync[s].last
  BY <1>1, QueueTyped
<1>4. /\ Placed(S, pos) /\ \A i \in S : pos[i] \in 1 .. m
      /\ IsList(S, pos, p.first, p.last, Nexts(p), Prevs(p))
      /\ InSources(p, S, pos) /\ InSequence(p, S, pos)
  BY <1>2 DEF Good, GoodWith, Within
<1>5. m \in 0 .. MaxLinks /\ MaxLinks \in Nat
  BY <1>1, QueueConstants DEF RecvTypeOK
<1>6. \A i \in S : pos[i] \in 1 .. MaxLinks
  BY <1>4, <1>5
<1>7. S \subseteq LinkIds /\ \A i \in LinkIds : i \in S <=> Live(p, i)
  BY <1>1, <1>3, LiveLinks, LinksAreNumbers
<1>8. PICK all : all = Chain(p.first, Nexts(p))
  OBVIOUS
<1>9. p.first \in Pointers /\ Nexts(p) \in [LinkIds -> Pointers] /\ SrcNexts(p) \in [LinkIds -> Pointers]
      /\ \A s \in Source : p.srcFirst[s] \in Pointers
  BY <1>3, PointersOfLinks DEF Queues
<1>10. ChainOf(all, S, pos, p.last, Nexts(p), Prevs(p))
  <2>1. Listed(S, pos, p.first, p.last, Nexts(p), Prevs(p))
    BY <1>1, <1>4, <1>6, <1>9 DEF Listed
  <2> QED
    BY <1>8, <2>1, ChainIsList
<1>11. WellLinked(all, p.last, Prevs(p)) /\ ToSet(all) = S
  <2>1. ToSet(all) = S
    BY <1>10 DEF ChainOf
  <2>2. \A i \in S : Live(Queue, i)
    BY <1>1, <1>7
  <2> QED
    BY <1>10, <2>1, <2>2, ChainWellLinked
<1>12. ASSUME NEW s \in Source, NEW c, c = Chain(p.srcFirst[s], SrcNexts(p))
       PROVE  /\ WellLinked(c, p.srcLast[s], SrcPrevs(p))
              /\ ToSet(c) = {i \in S : p.link[i].src = s}
              /\ InOrderOf(c, all)
              /\ \A k \in 1 .. Len(c) - 1 :
                   /\ SeqNumOf(p, c[k]) <= SeqNumOf(p, c[k + 1])
                   /\ SeqNumOf(p, c[k]) < SeqNumOf(p, p.srcLast[s])
  <2>1. PICK R : R = OfSource(p, S, s)
    OBVIOUS
  <2>2. R \in SUBSET S /\ R = {i \in S : p.link[i].src = s}
    BY <2>1 DEF OfSource
  <2>3. Placed(R, pos) /\ IsList(R, pos, p.srcFirst[s], p.srcLast[s], SrcNexts(p), SrcPrevs(p))
    BY <1>4, <2>1, SourcesPlaced DEF InSources
  <2>4. Listed(R, pos, p.srcFirst[s], p.srcLast[s], SrcNexts(p), SrcPrevs(p))
    <3>1. R \subseteq Lives(Queue) /\ \A i \in R : pos[i] \in 1 .. MaxLinks
      BY <1>1, <1>6, <2>2
    <3> QED
      BY <1>9, <2>3, <3>1 DEF Listed
  <2>5. ChainOf(c, R, pos, p.srcLast[s], SrcNexts(p), SrcPrevs(p))
    BY <1>12, <2>4, ChainIsList
  <2>6. WellLinked(c, p.srcLast[s], SrcPrevs(p))
    <3>1. \A i \in R : Live(Queue, i)
      BY <1>1, <1>7, <2>2
    <3> QED
      BY <2>5, <3>1, ChainWellLinked
  <2>7. InOrderOf(c, all)
    BY <1>4, <1>10, <2>2, <2>5, ChainsInOrder
  <2>8. /\ c \in Seq(R) /\ ToSet(c) = R
        /\ \A j, k \in 1 .. Len(c) : j < k => pos[c[j]] < pos[c[k]]
    BY <2>5 DEF ChainOf
  <2>9. ASSUME NEW k \in 1 .. Len(c) - 1
        PROVE  /\ SeqNumOf(p, c[k]) <= SeqNumOf(p, c[k + 1])
               /\ SeqNumOf(p, c[k]) < SeqNumOf(p, p.srcLast[s])
    <3>1. k \in 1 .. Len(c) /\ k + 1 \in 1 .. Len(c) /\ k < k + 1
      BY <2>8
    <3>2. c[k] \in R /\ c[k + 1] \in R /\ pos[c[k]] < pos[c[k + 1]]
      BY <2>8, <3>1
    <3>3. /\ c[k] \in S /\ c[k + 1] \in S /\ p.link[c[k]].src = p.link[c[k + 1]].src
      BY <2>2, <3>2
    <3>4. PICK l : l = p.srcLast[s]
      OBVIOUS
    <3>5. l \in R /\ \A x \in R : pos[x] <= pos[l]
      BY <2>3, <3>2, <3>4 DEF IsList
    <3>6. pos[c[k]] < pos[l]
      <4>1. pos[c[k]] \in Int /\ pos[c[k + 1]] \in Int /\ pos[l] \in Int
        BY <1>4, <2>2, <3>3, <3>5
      <4> QED
        BY <3>2, <3>5, <4>1
    <3>7. l \in S /\ p.link[c[k]].src = p.link[l].src
          /\ \A x \in S : p.link[x].src = p.link[l].src => pos[x] <= pos[l]
      BY <2>2, <3>2, <3>5
    <3>8. SeqNumOf(p, c[k]) < SeqNumOf(p, l)
      BY <1>4, <3>3, <3>6, <3>7 DEF InSequence
    <3> QED
      BY <1>4, <3>2, <3>3, <3>4, <3>8 DEF InSequence
  <2> QED
    BY <2>2, <2>6, <2>7, <2>8, <2>9
<1>13. S = {i \in LinkIds : Live(p, i)}
  BY <1>7
<1>14. \A i : SeqNumOf(p, i) = Seqn(link[i].n)
  BY <1>3 DEF SeqNumOf
<1>15. all = Chain(recvFirst, Nexts(Queue)) /\ p = Queue
  BY <1>1, <1>3, <1>8
<1>16. /\ WellLinked(all, recvLast, Prevs(Queue))
       /\ ToSet(all) = {i \in LinkIds : Live(Queue, i)}
  BY <1>3, <1>11, <1>13, <1>15
<1>17. ASSUME NEW s \in Source, NEW c, c = Chain(sync[s].first, SrcNexts(Queue))
       PROVE  /\ WellLinked(c, sync[s].last, SrcPrevs(Queue))
              /\ ToSet(c) = {i \in ToSet(all) : link[i].src = s}
              /\ InOrderOf(c, all)
              /\ \A k \in 1 .. Len(c) - 1 :
                   /\ Seqn(link[c[k]].n) <= Seqn(link[c[k + 1]].n)
                   /\ Seqn(link[c[k]].n) < Seqn(link[sync[s].last].n)
  <2>1. c = Chain(p.srcFirst[s], SrcNexts(p)) /\ p.srcLast[s] = sync[s].last
    BY <1>3, <1>15, <1>17
  <2> QED
    BY <1>3, <1>11, <1>12, <1>14, <1>15, <2>1
<1> QED
  BY <1>15, <1>16, <1>17 DEF ListsAgree

(* The two lists a packet is in stay well linked and agree: following the  *)
(* pointers on from the first link leads over every queued packet once and *)
(* to the last one, and the pointers back lead over the same links; what a *)
(* source's list holds is what the global one holds of that source, in the *)
(* same order, which is that of the sequence numbers                       *)
(* (incqueue.cpp:369-469, 496-628).                                        *)
THEOREM ListsStayLinked == RecvSpec => []ListsAgree
<1>1. QueueInv => ListsAgree
  <2> SUFFICES ASSUME QueueInv PROVE ListsAgree
    OBVIOUS
  <2>1. RecvTypeOK /\ (~spoiled /\ ~ended => WellMade)
    BY DEF QueueInv
  <2>2. CASE ~spoiled /\ ~ended
    BY <2>1, <2>2, WellMadeAgrees
  <2>3. CASE ~(~spoiled /\ ~ended)
    BY <2>1, <2>3 DEF ListsAgree
  <2> QED
    BY <2>2, <2>3
<1> QED
  BY <1>1, QueueInvAlways, PTL

=============================================================================
