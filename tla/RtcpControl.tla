----------------------------- MODULE RtcpControl -----------------------------
(***************************************************************************)
(* The control service of a ccRTP session: QueueRTCPManager (control.cpp,  *)
(* ccrtp/cqueue.h) with the count of members it keeps (members.cpp).       *)
(*                                                                         *)
(* The service thread looks for control packets every CheckInterval, and   *)
(* sends a report when the time for one has come and the interval, drawn   *)
(* again under the present number of members, still says so.  A BYE that   *)
(* comes in brings the next report forward.  At the end, or when its SSRC  *)
(* collides with another's, the session says BYE itself, after a back-off  *)
(* if there are more than Crowd members.                                   *)
(*                                                                         *)
(* Times are in ticks and relative to now: rtcpTp is the time of the last  *)
(* report, not positive as a rule, and rtcpTn that of the next.  What is   *)
(* Far in the past is only that.  A span is a microtimeout_t, an unsigned  *)
(* number modulo TimeMod.  All hosts use one control port, and an address  *)
(* is a host.  The network is external: any packet may come in at any      *)
(* check, late, repeated, or never.                                        *)
(* Left out: what reports and SDES items say, and a collision in a crowd.  *)
(***************************************************************************)
EXTENDS Integers, FiniteSets

CONSTANTS
  SSRC,           \* the SSRCs control packets come with
  OwnSSRC,        \* that of the session, one of them: others may pick it too
  From,           \* the addresses packets of each SSRC come from
  MemberMod,      \* counters are modulo this, 2^32 in the code
  TimeMod,        \* microtimeout_t is modulo this, 2^32 microseconds
  MinInterval,    \* rtcpMinInterval, 5 seconds
  PerMember,      \* the time a report of one member takes of the bandwidth
  CheckInterval,  \* rtcpCheckInterval
  Crowd,          \* the members that make a BYE wait, 50
  MaxByes,        \* bound of the model on what one BYE counts out
  Far             \* bound of the model on times in the past

ASSUME RtcpConstants ==
  /\ OwnSSRC \in SSRC /\ IsFiniteSet(SSRC)
  /\ MemberMod \in Nat \ {0, 1} /\ TimeMod \in Nat \ {0}
  /\ MinInterval \in Nat \ {0} /\ PerMember \in Nat
  /\ CheckInterval \in Nat \ {0} /\ Crowd \in Nat \ {0}
  /\ MaxByes \in Nat \ {0} /\ Far \in Nat \ {0}

VARIABLES
  service,       \* what the service thread does
  members,       \* the count of members
  byes,          \* how often the source of a BYE is still to be counted out
  rtcpPMembers,  \* the one the next report was scheduled with
  known,         \* the sources in the table
  address,       \* the transport address of each
  prevConflict,  \* the address each has last moved to
  conflictList,  \* the addresses that collided with the local source
  rtcpTp, rtcpTn,
  rtcpLastCheck, rtcpNextCheck,
  sent,          \* whether a packet was ever sent
  gone,          \* history: the sources that said BYE
  repeated,      \* history: one of them was counted out again
  quiet,         \* history: the time since the last report
  overdue        \* history: a BYE came when a report was overdue, or the
                 \* last one already put off

timers == <<rtcpTp, rtcpTn, rtcpLastCheck, rtcpNextCheck, quiet, overdue>>
placed == <<known, address, prevConflict, conflictList>>
counts == <<members, rtcpPMembers, byes, gone, repeated>>
controlVars == <<service, sent, counts, placed, timers>>

NoHost == "no address"
Host == UNION {From[s] : s \in SSRC}

Past(t) == IF t < -Far THEN -Far ELSE t

ControlInit ==
  /\ service = "loop"
  /\ members = 0 /\ rtcpPMembers = 1 /\ byes = 0
  /\ known = {} /\ conflictList = {}
  /\ address = [s \in SSRC |-> NoHost]
  /\ prevConflict = [s \in SSRC |-> NoHost]
  /\ rtcpTp = -Far /\ rtcpTn = -Far
  /\ rtcpNextCheck = 0 /\ rtcpLastCheck = Past(-CheckInterval)
  /\ sent = FALSE
  /\ gone = {} /\ repeated = FALSE
  /\ quiet = Far /\ overdue = FALSE

-----------------------------------------------------------------------------
(* computeRTCPInterval: a random share, from a half up to one and a half,  *)
(* of what the members need of the bandwidth, or of the minimum.  Senders  *)
(* are never counted.                                                      *)
Need(count) ==
  IF count * PerMember < MinInterval THEN MinInterval ELSE count * PerMember

Intervals(count) ==
  {t \in 0 .. 2 * Need(count) : 2 * t >= Need(count) /\ 2 * t < 3 * Need(count)}

(* What a difference to the time t may be as a microtimeout_t: anything    *)
(* when t is too far in the past for the model.                            *)
Spans(t, difference) ==
  IF t = -Far THEN 0 .. TimeMod - 1 ELSE {difference % TimeMod}

(* Mutant: the span grows as the members get fewer.                        *)
ScaledUp(span, count) ==
  IF count = 0 THEN span ELSE (span * rtcpPMembers) \div count

(* A span, scaled to fewer members.                                        *)
Scaled(span, count) == ((span * count) % TimeMod) \div rtcpPMembers

(* reverseReconsideration, with the members there are now.  The time of    *)
(* the last report is set as far into the future as it should be back.     *)
ReverseReconsideration(count) ==
  /\ rtcpPMembers' = count
  /\ IF count < rtcpPMembers
       THEN /\ \E span \in Spans(rtcpTn, rtcpTn) : rtcpTn' = Scaled(span, count)
            /\ \E span \in Spans(rtcpTp, -rtcpTp) : rtcpTp' = Scaled(span, count)
            /\ overdue' = (overdue \/ rtcpTn < 0 \/ rtcpTp > 0)
       ELSE UNCHANGED <<rtcpTp, rtcpTn, overdue>>

-----------------------------------------------------------------------------
(* getSourceBySSRC: an unknown source becomes a member.                    *)
Registered(s) == IF s \in known THEN members ELSE (members + 1) % MemberMod

(* Mutant: who leaves is still counted.                                    *)
AfterByeStays(count) == count

(* BYESource: one member less, each time.                                  *)
AfterBye(count) == (count - 1) % MemberMod

(* checkSSRCInRTCPPkt: a source of somebody else that has moved is         *)
(* followed, and refused when it comes from where it moved last.  A        *)
(* conflict with the local one is refused from an address that has         *)
(* collided before; the first time the old address is recorded, BYE is     *)
(* said, and the source has the new address.  No new SSRC is stored.       *)
Located(s, a) == s \notin known \/ address[s] = a

Moves(s, a) ==
  ~Located(s, a) /\ IF s = OwnSSRC THEN a \notin conflictList
                                     ELSE prevConflict[s] # a

Checked(s, a) == Located(s, a) \/ Moves(s, a)

CheckSSRCInRTCPPkt(s, a) ==
  /\ known' = known \cup {s}
  /\ address' = IF Checked(s, a) THEN [address EXCEPT ![s] = a] ELSE address
  /\ prevConflict' = IF Moves(s, a) /\ s # OwnSSRC
                       THEN [prevConflict EXCEPT ![s] = a] ELSE prevConflict
  /\ conflictList' = IF Moves(s, a) /\ s = OwnSSRC
                       THEN conflictList \cup {address[s]} ELSE conflictList
  /\ Moves(s, a) /\ s = OwnSSRC /\ sent => Registered(s) <= Crowd

(* takeInControlPacket, of a compound packet without a BYE...              *)
TakeInReports(s, a) ==
  /\ service = "checking"
  /\ CheckSSRCInRTCPPkt(s, a)
  /\ members' = Registered(s)
  /\ UNCHANGED <<service, sent, rtcpPMembers, byes, gone, repeated, timers>>

(* ... and of one with a BYE.  getBYE counts out the first of the sources  *)
(* it names, once for each of them, and the loop over the compound does not*)
(* move on to what is behind the BYE but takes the BYE once more for it.   *)
Left(s) ==
  /\ members' = AfterBye(Registered(s))
  /\ gone' = gone \cup {s}
  /\ repeated' = (repeated \/ s \in gone)

TakeInBye(s, a) ==
  /\ service = "checking" /\ Checked(s, a)
  /\ CheckSSRCInRTCPPkt(s, a)
  /\ Left(s)
  /\ ReverseReconsideration(members')
  /\ byes' \in 0 .. MaxByes - 1
  /\ service' = IF byes' > 0 THEN "leaving" ELSE "checking"
  /\ UNCHANGED <<sent, rtcpLastCheck, rtcpNextCheck, quiet>>

CountOutAgain ==
  /\ service = "leaving"
  /\ members' = AfterBye(members) /\ repeated' = TRUE
  /\ ReverseReconsideration(members')
  /\ byes' = byes - 1
  /\ service' = IF byes' > 0 THEN "leaving" ELSE "checking"
  /\ UNCHANGED <<sent, gone, placed, rtcpLastCheck, rtcpNextCheck, quiet>>

(* A BYE that names no source is not left behind either: for ever.         *)
TakeInEmptyBye(s, a) ==
  /\ service = "checking" /\ Checked(s, a)
  /\ CheckSSRCInRTCPPkt(s, a)
  /\ members' = Registered(s)
  /\ service' = "empty"
  /\ UNCHANGED <<sent, rtcpPMembers, byes, gone, repeated, timers>>

(* A BYE that is refused is looked at again, for ever.                     *)
TakeInByeAgain(s, a) ==
  /\ service = "checking" /\ ~Checked(s, a)
  /\ service' = "stuck"
  /\ UNCHANGED <<sent, counts, placed, timers>>

-----------------------------------------------------------------------------
(* controlReceptionService                                                 *)
BeginCheck ==
  /\ service = "loop" /\ rtcpNextCheck <= 0
  /\ service' = "checking"
  /\ UNCHANGED <<sent, counts, placed, timers>>

(* Check and last check take turns: each time the next check is put one    *)
(* interval behind the last one, which becomes the next check there was.   *)
Put(k) ==
  IF k % 2 = 0 THEN rtcpLastCheck + (k \div 2 + 1) * CheckInterval
               ELSE rtcpNextCheck + ((k + 1) \div 2) * CheckInterval

(* Until the next check is in the future.                                  *)
Puts ==
  CHOOSE k \in 0 .. 2 * Far + 2 : Put(k) > 0 /\ \A j \in 0 .. k - 1 : Put(j) <= 0

EndCheck ==
  /\ service = "checking"
  /\ service' = IF rtcpTn <= 0 THEN "transmit" ELSE "loop"
  /\ rtcpNextCheck' = Put(Puts) /\ rtcpLastCheck' = Put(Puts - 1)
  /\ UNCHANGED <<sent, counts, placed, rtcpTp, rtcpTn, quiet, overdue>>

(* Mutant: what was scheduled is sent.                                     *)
ReconsideredAtOnce(t) == 0

(* Mutant: the new interval starts now.                                    *)
ReconsideredFromNow(t) == t

(* timerReconsideration: the time of the report, by a new interval.        *)
Reconsidered(t) == rtcpTp + t

(* controlTransmissionService, behind the reception: the report is put     *)
(* off...                                                                  *)
Transmits ==
  /\ service = "transmit" \/ (service = "loop" /\ rtcpNextCheck > 0)
  /\ rtcpTn <= 0
  /\ service' = "loop"

PutOff ==
  /\ Transmits
  /\ \E t \in Intervals(members) :
       /\ Reconsidered(t) > 0
       /\ rtcpTn' = Reconsidered(t)
  /\ UNCHANGED <<sent, counts, placed, rtcpTp, rtcpLastCheck, rtcpNextCheck,
                 quiet, overdue>>

(* ... or dispatched, and the next one scheduled.                          *)
DispatchControlPacket ==
  /\ Transmits
  /\ \E t \in Intervals(members) : Reconsidered(t) <= 0
  /\ rtcpTn' \in Intervals(members)
  /\ rtcpTp' = 0 /\ rtcpLastCheck' = 0
  /\ rtcpPMembers' = members
  /\ sent' = TRUE
  /\ quiet' = 0 /\ overdue' = FALSE
  /\ UNCHANGED <<members, byes, gone, repeated, placed, rtcpNextCheck>>

(* A data packet is dispatched, which counts as one that was sent.         *)
DispatchDataPacket ==
  /\ service = "loop" /\ ~sent
  /\ sent' = TRUE
  /\ UNCHANGED <<service, counts, placed, timers>>

-----------------------------------------------------------------------------
(* dispatchBYE at the end of the session: at once, or after a back-off.    *)
Leave ==
  /\ service = "loop" /\ (sent => members <= Crowd)
  /\ service' = "ended"
  /\ UNCHANGED <<sent, counts, placed, timers>>

LeaveCrowd ==
  /\ service = "loop" /\ sent /\ members > Crowd
  /\ service' = "backoff"
  /\ members' = 1 /\ rtcpPMembers' = 1
  /\ rtcpTp' = 0 /\ rtcpTn' \in Intervals(1)
  /\ overdue' = FALSE
  /\ UNCHANGED <<sent, byes, gone, repeated, placed, rtcpLastCheck,
                 rtcpNextCheck, quiet>>

(* getOnlyBye: a packet comes in before the time is up, and each BYE in it *)
(* counts its source out once.  Behind it the next one is waited for,      *)
(* however long.                                                           *)
GetOnlyBye(s) ==
  /\ service = "waiting" \/ (service = "backoff" /\ rtcpTn > 0)
  /\ service' = "waiting"
  /\ known' = known \cup {s}
  /\ Left(s)
  /\ UNCHANGED <<sent, rtcpPMembers, byes, address, prevConflict, conflictList,
                 timers>>

(* A packet that is not RTCP ends the wait.                                *)
GetOther ==
  /\ service = "waiting" \/ (service = "backoff" /\ rtcpTn > 0)
  /\ service' = "reconsider"
  /\ UNCHANGED <<sent, counts, placed, timers>>

TimeIsUp ==
  /\ service = "backoff" /\ rtcpTn <= 0
  /\ service' = "reconsider"
  /\ UNCHANGED <<sent, counts, placed, timers>>

Reconsider ==
  /\ service = "reconsider"
  /\ \E t \in Intervals(members) :
       /\ rtcpTn' = Reconsidered(t)
       /\ service' = IF Reconsidered(t) <= 0 THEN "ended" ELSE "backoff"
  /\ UNCHANGED <<sent, counts, placed, rtcpTp, rtcpLastCheck, rtcpNextCheck,
                 quiet, overdue>>

(* Time passes, except while the thread serves control packets.            *)
Tick ==
  /\ service \in {"loop", "backoff", "waiting", "reconsider"}
  /\ rtcpTp' = Past(rtcpTp - 1) /\ rtcpTn' = Past(rtcpTn - 1)
  /\ rtcpLastCheck' = Past(rtcpLastCheck - 1)
  /\ rtcpNextCheck' = Past(rtcpNextCheck - 1)
  /\ quiet' = IF quiet < Far THEN quiet + 1 ELSE Far
  /\ UNCHANGED <<service, sent, counts, placed, overdue>>

TakeIn ==
  \E s \in SSRC : \E a \in From[s] :
    \/ TakeInReports(s, a)
    \/ TakeInBye(s, a) \/ TakeInByeAgain(s, a) \/ TakeInEmptyBye(s, a)

Transmission == PutOff \/ DispatchControlPacket

BackOff == TimeIsUp \/ Reconsider

ControlNext ==
  \/ TakeIn \/ CountOutAgain \/ BeginCheck \/ EndCheck
  \/ Transmission \/ DispatchDataPacket
  \/ Leave \/ LeaveCrowd \/ BackOff \/ GetOther \/ Tick
  \/ \E s \in SSRC : GetOnlyBye(s)

(* The loop of the service thread gets to each of its services, a check    *)
(* and the taking of a BYE come to an end, and time passes.                *)
ControlSpec ==
  /\ ControlInit /\ [][ControlNext]_controlVars
  /\ WF_controlVars(BeginCheck) /\ WF_controlVars(EndCheck)
  /\ WF_controlVars(CountOutAgain) /\ WF_controlVars(Transmission)
  /\ WF_controlVars(BackOff) /\ WF_controlVars(Tick)

-----------------------------------------------------------------------------
(* The most a report can be off, by its interval.                          *)
Longest == (3 * Need(MemberMod - 1)) \div 2

ControlTypeOK ==
  /\ service \in {"loop", "checking", "leaving", "transmit", "stuck", "empty",
                  "backoff", "waiting", "reconsider", "ended"}
  /\ byes \in 0 .. MaxByes - 1
  /\ members \in 0 .. MemberMod - 1 /\ rtcpPMembers \in 0 .. MemberMod - 1
  /\ known \subseteq SSRC /\ gone \subseteq known /\ conflictList \subseteq Host
  /\ address \in [SSRC -> Host \cup {NoHost}]
  /\ prevConflict \in [SSRC -> Host \cup {NoHost}]
  /\ rtcpTp \in -Far .. TimeMod - 1
  /\ rtcpTn \in -Far .. TimeMod + Longest
  /\ rtcpLastCheck \in -Far .. 0
  /\ quiet \in 0 .. Far /\ {sent, repeated, overdue} \subseteq BOOLEAN

(* The count of members that the intervals are computed from is that of    *)
(* the sources that were heard of and have not said BYE, whatever comes    *)
(* late from those that have, as long as no source was counted out twice:  *)
(* by a BYE that is repeated, that names several sources, or that something*)
(* is behind in its compound; and as long as the session has not given up  *)
(* counting (members.cpp:228-295, control.cpp:419-433, 504-540).           *)
MembersCounted ==
  ~repeated /\ service \in {"loop", "checking", "transmit"} =>
    members = Cardinality(known \ gone) % MemberMod

(* Neither the next report nor the next look at the control socket is ever *)
(* further away than their intervals allow, counted from the last report,  *)
(* unless a BYE comes when the report is overdue and its time has wrapped  *)
(* (control.cpp:238-310, 543-570).                                         *)
TimersNear ==
  /\ ControlTypeOK
  /\ rtcpNextCheck <= CheckInterval
  /\ ~overdue => rtcpTn <= Longest + (IF rtcpTp > 0 THEN rtcpTp ELSE 0)

(* However often members leave and reports are brought forward, two reports*)
(* are at least half the minimal interval apart (control.cpp:263-310).     *)
ReportsSpaced ==
  [][DispatchControlPacket => 2 * quiet >= MinInterval]_controlVars

(* A session goes on with its reports until it ends, unless BYEs come in   *)
(* for ever, or one of two packets has hung the service thread: a BYE that *)
(* is refused for a collision of the SSRC (control.cpp:419-431), or one    *)
(* that names no source (control.cpp:506-507).  And a session that leaves  *)
(* says BYE in the end, unless it waits for one more packet                *)
(* (control.cpp:726-748, 799-832).                                         *)
ServiceGoesOn ==
  /\ \/ []<>(quiet = 0) \/ <>(service \in {"backoff", "ended"})
     \/ []<><<service \in {"checking", "leaving"}
               /\ rtcpPMembers' < rtcpPMembers>>_controlVars
     \/ <>(service = "stuck" /\ conflictList # {}) \/ <>(service = "empty")
  /\ service = "backoff" ~> service \in {"ended", "waiting"}

=============================================================================
