---------------------------- MODULE OutgoingQueue ----------------------------
(***************************************************************************)
(* The sending side of a ccRTP session: OutgoingDataQueue (outqueue.cpp,   *)
(* ccrtp/oqueue.h) with its two threads, the application's and the service *)
(* thread of the session (SingleThreadRTPSession::run, ccrtp/rtp.h).       *)
(*                                                                         *)
(* The application numbers, protects and queues packets (putData) or sends *)
(* them itself (sendImmediate), and changes the list of destinations.  The *)
(* service thread sends or drops the head of the queue.  Both send through *)
(* one socket, whose peer they set before each packet: the destination     *)
(* lock they share for reading keeps the list as it is, not the peer.      *)
(*                                                                         *)
(* Packet n has the sequence number n modulo SEQNUMMOD, and roc is the     *)
(* roll-over counter its tag was made with: NoRoc if it has no tag, or one *)
(* that does not fit what it holds any more.  The clock is abstracted: the *)
(* head of the queue is early, due or expired whenever the service thread  *)
(* looks.  One list stands for the IPv4 and the IPv6 one.                  *)
(***************************************************************************)
EXTENDS SrtpContext, Sequences, SequencesExt

CONSTANTS
  Dest,        \* destinations the application may add
  Receiver,    \* the one whose packets are looked at
  FirstSeq,    \* the initial sequence number, random in the code
  MaxPackets   \* bound of the model on the packets made

(* A stream ends before its counter does: behind 2^48 packets in the code, *)
(* which does not check it.                                                *)
ASSUME QueueConstants ==
  /\ FirstSeq \in Nat /\ MaxPackets \in Nat
  /\ MaxPackets <= (RocMod - 1) * SEQNUMMOD

VARIABLES
  next,        \* the number of the next packet: sendSeq
  segments,    \* segments of the data of putData still to be queued
  outContext,  \* the counter of the SRTP context, NoRoc until it is made
  sendQueue,   \* the packets from sendFirst to sendLast
  sendLock,    \* the thread that has it for writing, or "free"
  destList,
  peer,        \* the peer of the socket
  dispatch,    \* what each thread is sending, and where to
  service_pc,  \* what the service thread does
  net          \* the packets sent to Receiver so far

senderVars == <<next, segments, outContext, sendQueue, sendLock, destList,
                peer, dispatch, service_pc, net>>

Threads == {"app", "service"}
NoDest == "no destination"

Ids == FirstSeq .. FirstSeq + MaxPackets - 1
Packets == [n : Ids, roc : {NoRoc} \cup 0 .. RocMod - 1]
NoPacket == [n |-> -1, roc |-> NoRoc]

SeqNum(n) == n % SEQNUMMOD

(* What a thread sends: the destinations to come, whether the peer is set  *)
(* for the first of them, and as history the destinations reached and      *)
(* whether the other thread has moved the peer in between.                 *)
Dispatches ==
  [ packet : Packets \cup {NoPacket}, todo : Seq(Dest), aimed : BOOLEAN,
    reached : SUBSET Dest, disturbed : BOOLEAN ]
Idle == [ packet |-> NoPacket, todo |-> <<>>, aimed |-> FALSE,
          reached |-> {}, disturbed |-> FALSE ]

SenderInit ==
  /\ next = FirstSeq /\ segments = 0
  /\ outContext = NoRoc
  /\ sendQueue = <<>> /\ sendLock = "free"
  /\ destList = <<>> /\ peer = NoDest
  /\ dispatch = [t \in Threads |-> Idle]
  /\ service_pc = "schedule"
  /\ net = {}

Sending(t) == dispatch[t].packet # NoPacket

Other(t) == CHOOSE u \in Threads : u # t

-----------------------------------------------------------------------------
(* A new packet: numbered, and protected if there is a context.            *)
Made(context) == [n |-> next, roc |-> context]

After(context) ==
  IF context = NoRoc THEN NoRoc ELSE RocAfter(context, SeqNum(next))

(* Only putData makes the context of the local source from the template.   *)
ContextForPut == IF outContext = NoRoc THEN 0 ELSE outContext

(* The application calls putData with data for up to two segments.         *)
PutData ==
  /\ ~Sending("app") /\ segments = 0
  /\ segments' \in {k \in 1 .. 2 : next + k - 1 \in Ids}
  /\ UNCHANGED <<next, outContext, sendQueue, sendLock, destList, peer,
                 dispatch, service_pc, net>>

(* At the tail of the queue.                                               *)
Queued(packet) == Append(sendQueue, packet)

(* One segment is queued.  A lock the application has left locked is       *)
(* refused to it with an error nobody looks at, and then unlocked.         *)
PutSegment ==
  /\ segments > 0 /\ sendLock \in {"free", "app"}
  /\ sendQueue' = Queued(Made(ContextForPut))
  /\ outContext' = After(ContextForPut)
  /\ next' = next + 1 /\ segments' = segments - 1
  /\ sendLock' = "free"
  /\ UNCHANGED <<destList, peer, dispatch, service_pc, net>>

(* setPartial for the first packet with some stamp: there is none; or the  *)
(* offset is behind the end of its payload, and it returns with the lock;  *)
(* or it overwrites part of the payload.  That has been protected when it  *)
(* was queued, so its tag does not fit any more.                           *)
SetPartial ==
  /\ ~Sending("app") /\ segments = 0 /\ sendLock \in {"free", "app"}
  /\ \/ sendLock' = "free" /\ UNCHANGED sendQueue
     \/ sendLock' = "app" /\ sendQueue # <<>> /\ UNCHANGED sendQueue
     \/ /\ sendLock' = "free"
        /\ \E i \in DOMAIN sendQueue :
             sendQueue' = [sendQueue EXCEPT ![i].roc = NoRoc]
  /\ UNCHANGED <<next, segments, outContext, destList, peer, dispatch,
                 service_pc, net>>

-----------------------------------------------------------------------------
(* dispatchImmediate: under the read lock, for each destination the peer is*)
(* set and the packet sent.                                                *)
Start(t, packet) ==
  dispatch' = [dispatch EXCEPT ![t] =
                 [Idle EXCEPT !.packet = packet, !.todo = destList]]

(* sendImmediate, a packet at a time.                                      *)
SendImmediate ==
  /\ ~Sending("app") /\ segments = 0 /\ next \in Ids
  /\ Start("app", Made(outContext))
  /\ outContext' = After(outContext)
  /\ next' = next + 1
  /\ UNCHANGED <<segments, sendQueue, sendLock, destList, peer, service_pc,
                 net>>

(* Mutant: the peer is set for the first destination only.                 *)
AimOnce(t) == IF dispatch[t].reached = {} THEN Head(dispatch[t].todo) ELSE peer

(* The peer a thread sets for its next destination.                        *)
Aim(t) == Head(dispatch[t].todo)

(* setDataPeer, which may be in the middle of the other thread's sending.  *)
SetPeer(t) ==
  /\ Sending(t) /\ dispatch[t].todo # <<>> /\ ~dispatch[t].aimed
  /\ peer' = Aim(t)
  /\ dispatch' = [dispatch EXCEPT ![t].aimed = TRUE,
                    ![Other(t)].disturbed = @ \/ dispatch[Other(t)].aimed]
  /\ UNCHANGED <<next, segments, outContext, sendQueue, sendLock, destList,
                 service_pc, net>>

(* sendData, to whatever peer the socket has by now.                       *)
SendData(t) ==
  /\ Sending(t) /\ dispatch[t].aimed
  /\ net' = IF peer = Receiver THEN net \cup {dispatch[t].packet} ELSE net
  /\ dispatch' = [dispatch EXCEPT ![t].todo = Tail(@), ![t].aimed = FALSE,
                                  ![t].reached = @ \cup {peer}]
  /\ UNCHANGED <<next, segments, outContext, sendQueue, sendLock, destList,
                 peer, service_pc>>

(* All destinations are served; the application goes on.                   *)
Sent ==
  /\ Sending("app") /\ dispatch["app"].todo = <<>>
  /\ dispatch' = [dispatch EXCEPT !["app"] = Idle]
  /\ UNCHANGED <<next, segments, outContext, sendQueue, sendLock, destList,
                 peer, service_pc, net>>

-----------------------------------------------------------------------------
(* addDestination, under the write lock.  The peer is set behind it, but a *)
(* service thread that sends then has the same single destination.         *)
AddDestination(d) ==
  /\ ~Sending("app") /\ segments = 0
  /\ ~Sending("service") /\ ~Contains(destList, d)
  /\ destList' = Append(destList, d)
  /\ peer' = IF Len(destList') = 1 THEN d ELSE peer
  /\ UNCHANGED <<next, segments, outContext, sendQueue, sendLock, dispatch,
                 service_pc, net>>

ForgetDestination(d) ==
  /\ ~Sending("app") /\ segments = 0
  /\ ~Sending("service")
  /\ \E i \in DOMAIN destList :
       destList[i] = d /\ destList' = RemoveAt(destList, i)
  /\ UNCHANGED <<next, segments, outContext, sendQueue, sendLock, peer,
                 dispatch, service_pc, net>>

-----------------------------------------------------------------------------
(* getSchedulingTimeout reads the head of the queue without the lock.      *)
Schedule ==
  /\ service_pc = "schedule" /\ sendQueue # <<>>
  /\ service_pc' \in {"expire", "dispatch"}
  /\ UNCHANGED <<next, segments, outContext, sendQueue, sendLock, destList,
                 peer, dispatch, net>>

(* A packet that is too late is dropped, under the lock.                   *)
Expire ==
  /\ service_pc = "expire" /\ sendLock = "free"
  /\ sendQueue' = Tail(sendQueue)
  /\ service_pc' = "schedule"
  /\ UNCHANGED <<next, segments, outContext, sendLock, destList, peer,
                 dispatch, net>>

(* dispatchDataPacket sends the head under the lock...                     *)
Dispatch ==
  /\ service_pc = "dispatch" /\ sendLock = "free"
  /\ sendLock' = "service"
  /\ Start("service", Head(sendQueue))
  /\ service_pc' = "send"
  /\ UNCHANGED <<next, segments, outContext, sendQueue, destList, peer, net>>

(* Mutant: the lock is kept.                                               *)
DispatchedLocked ==
  /\ service_pc = "send" /\ dispatch["service"].todo = <<>>
  /\ sendQueue' = Tail(sendQueue)
  /\ dispatch' = [dispatch EXCEPT !["service"] = Idle]
  /\ service_pc' = "schedule"
  /\ UNCHANGED <<next, segments, outContext, sendLock, destList, peer, net>>

(* ... and unlinks it.                                                     *)
Dispatched ==
  /\ service_pc = "send" /\ dispatch["service"].todo = <<>>
  /\ sendQueue' = Tail(sendQueue)
  /\ dispatch' = [dispatch EXCEPT !["service"] = Idle]
  /\ sendLock' = "free"
  /\ service_pc' = "schedule"
  /\ UNCHANGED <<next, segments, outContext, destList, peer, net>>

=============================================================================
