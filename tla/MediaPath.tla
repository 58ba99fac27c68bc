------------------------------ MODULE MediaPath ------------------------------
(***************************************************************************)
(* A protected RTP stream of ccRTP from the application that sends it to   *)
(* the one that receives it: OutgoingQueue at one end, at the other what   *)
(* IncomingDataQueue::takeInDataPacket (incqueue.cpp) does to a packet     *)
(* before it is queued, with SrtpContext and Reception.  The queue that    *)
(* follows is the module IncomingQueue.                                    *)
(*                                                                         *)
(* External: the network, which loses, repeats and reorders packets: any   *)
(* packet sent so far may arrive at any time, or never.                    *)
(***************************************************************************)
EXTENDS OutgoingQueue

CONSTANTS
  CountMod, MaxDropout, MaxMisorder, MinValid,  \* those of Reception
  MaxTaken                                      \* bound of the model on the
                                                \* packets counted

ASSUME PathConstants ==
  /\ CountMod \in Nat \ {0}
  /\ MaxDropout \in 0 .. SEQNUMMOD /\ MaxMisorder \in 0 .. SEQNUMMOD
  /\ MinValid \in Nat /\ MaxTaken \in Nat

VARIABLES
  context,     \* the SRTP context of the sender's SSRC at the receiver
  reception,   \* the receiver's record of the sender
  newest,      \* history: the highest number of a packet accepted
  ahead,       \* history: the packets that were accepted as the newest
  again,       \* history: those accepted a second time, within the window
  spoiled,     \* history: the highest number is not of the highest packet,
               \* but of a late one or of one that was dismissed
  interval     \* history: what was received since the last report

receiverVars == <<context, reception, newest, ahead, again, spoiled, interval>>
vars == <<senderVars, receiverVars>>

Source == INSTANCE Reception

NoPacketYet == -1
NoInterval == [from |-> NoPacketYet, to |-> NoPacketYet, count |-> 0,
               orderly |-> FALSE]

Init ==
  /\ SenderInit
  /\ context = NewContext
  /\ reception = Source!Fresh(MinValid)
  /\ newest = NoPacketYet /\ ahead = {} /\ again = {} /\ spoiled = FALSE
  /\ interval = NoInterval

-----------------------------------------------------------------------------
(* A packet that authenticates is checked for validity and counted.  It is *)
(* orderly if it follows the last one, possibly after a loss.              *)
Accepted(n) ==
  LET v == Source!RecordReception(reception, SeqNum(n), n)
  IN /\ reception' = v.r
     /\ newest' = IF n > newest THEN n ELSE newest
     /\ ahead' = IF n > newest THEN ahead \cup {n} ELSE ahead
     /\ again' = IF n \in ahead /\ newest - n < WindowSize
                   THEN again \cup {n} ELSE again
     /\ spoiled' = (spoiled \/ (n < newest /\ SeqNum(n) > context.s_l))
     /\ interval' = [interval EXCEPT !.to = n,
                       !.count = @ + (IF v.ok THEN 1 ELSE 0),
                       !.orderly = @ /\ v.ok /\ n - interval.to \in
                                                  1 .. MaxDropout - 1]

(* takeInDataPacket, up to the queue.  What does not authenticate is       *)
(* dismissed, but may have initialised the context.                        *)
TakeInDataPacket ==
  /\ reception.obsPacketCount < MaxTaken
  /\ \E p \in net :
     \E u \in Unprotects(context, SeqNum(p.n), p.roc) :
      /\ context' = u.context
      /\ IF u.ok THEN Accepted(p.n)
                 ELSE /\ spoiled' = (spoiled \/ ~context.seqNumSet)
                      /\ UNCHANGED <<reception, newest, ahead, again, interval>>
      /\ UNCHANGED senderVars

(* A report on the source is sent: the next interval starts.  It is orderly*)
(* so far if the source is valid and the last packet is the highest of the *)
(* record, which the first one is not if its number is just below the      *)
(* roll-over.                                                              *)
Report ==
  /\ newest # NoPacketYet
  /\ reception' = Source!ComputeStats(reception)
  /\ interval' = [from |-> interval.to, to |-> interval.to, count |-> 0,
                  orderly |-> interval.to = newest
                              /\ Source!IsValid(reception)
                              /\ reception.maxSeqNum = SeqNum(newest)]
  /\ UNCHANGED <<senderVars, context, newest, ahead, again, spoiled>>

App ==
  \/ PutData \/ PutSegment \/ SetPartial \/ SendImmediate \/ Sent
  \/ SetPeer("app") \/ SendData("app")
  \/ \E d \in Dest : AddDestination(d) \/ ForgetDestination(d)

Service ==
  \/ Schedule \/ Expire \/ Dispatch \/ Dispatched
  \/ SetPeer("service") \/ SendData("service")

Sender == (App \/ Service) /\ UNCHANGED receiverVars

Next == Sender \/ TakeInDataPacket \/ Report

(* The service thread is scheduled, and the time of a packet comes.        *)
Spec == Init /\ [][Next]_vars /\ WF_vars(Service /\ UNCHANGED receiverVars)

-----------------------------------------------------------------------------
TypeOK ==
  /\ next \in Ids \cup {FirstSeq + MaxPackets} /\ segments \in 0 .. 2
  /\ outContext \in {NoRoc} \cup 0 .. RocMod - 1
  /\ sendQueue \in Seq(Packets) /\ sendLock \in Threads \cup {"free"}
  /\ destList \in Seq(Dest) /\ peer \in Dest \cup {NoDest}
  /\ dispatch \in [Threads -> Dispatches]
  /\ service_pc \in {"schedule", "expire", "dispatch", "send"}
  /\ net \subseteq Packets
  /\ context \in Contexts /\ reception \in Source!Receptions

(* The service thread sends a packet of the queue to all destinations, and *)
(* to nobody else, before any packet queued behind it; so does the         *)
(* application with its own, as long as the other thread does not set the  *)
(* peer between its setDataPeer and its sendData (outqueue.cpp:507-548).   *)
ReachesAll ==
  /\ TypeOK
  /\ \A t \in Threads :
       Sending(t) /\ dispatch[t].todo = <<>> /\ ~dispatch[t].disturbed
         => dispatch[t].reached = ToSet(destList)

(* A packet that is queued is sent or dropped in the end, unless the       *)
(* application keeps the lock setPartial left it (outqueue.cpp:582-614):   *)
(* the threads cannot block each other (outqueue.cpp:389-399, 553-578).    *)
QueueDrains ==
  <>[](sendLock # "app") =>
    \A n \in Ids :
      (\E i \in DOMAIN sendQueue : sendQueue[i].n = n)
        ~> ~(\E i \in DOMAIN sendQueue : sendQueue[i].n = n)

(* The receiver keeps up with the roll-over counter, which is not on the   *)
(* wire: through losses, repeats and reordering, a protected packet that is*)
(* newer than all before it by less than half of the sequence numbers      *)
(* authenticates and passes the replay check, unless a late packet from    *)
(* before a roll-over has spoiled the highest number                       *)
(* (CryptoContext.cxx:372-400, 447-470, rtppkt.cpp:250-267, 295-352).  It  *)
(* is of packets as they were protected: one that setPartial overwrote in  *)
(* the queue is dismissed (outqueue.cpp:607-613), but neither it nor its   *)
(* place in the numbers makes the receiver dismiss the others.             *)
NewerAccepted ==
  newest # NoPacketYet /\ ~spoiled =>
    \A p \in net :
      p.roc # NoRoc /\ p.n - newest \in 1 .. Half - 1
        => \A u \in Unprotects(context, SeqNum(p.n), p.roc) : u.ok

(* A packet that came in order is not taken again when the network repeats *)
(* it, as long as it is less late than the window is wide                  *)
(* (CryptoContext.cxx:402-470).                                            *)
NewestOnce == ~spoiled => again = {}

(* The fraction reported as lost is what was lost: over an interval in     *)
(* which the packets came in order, through wraps of the sequence number,  *)
(* it is the number of missing packets, in 256ths of those expected, as    *)
(* long as the 256ths of the packets of the interval fit into the counters,*)
(* of 32 bits (incqueue.cpp:658-665, members.cpp:95-126).                  *)
LossIsReported ==
  LET expected == interval.to - interval.from
      lost == expected - interval.count
  IN interval.orderly /\ expected > 0 /\ expected * 256 < CountMod =>
       Source!FractionLost(reception) = ((lost * 256) \div expected) % 256

=============================================================================
