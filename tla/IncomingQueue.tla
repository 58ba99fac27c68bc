---------------------------- MODULE IncomingQueue ----------------------------
(***************************************************************************)
(* The queue of received RTP packets of ccRTP: IncomingDataQueue           *)
(* (incqueue.cpp, ccrtp/iqueue.h) with the table of sources it keeps       *)
(* (MembershipBookkeeping, members.cpp).                                   *)
(*                                                                         *)
(* A received packet that its source's record finds valid gets a link, and *)
(* is in two doubly linked lists at once: the global one, and that of its  *)
(* source.  The lists are modelled as they are, pointer by pointer, since  *)
(* the pointers are what goes wrong.  A link is never used again after it  *)
(* is freed, so that a pointer to a freed link shows; following one is     *)
(* undefined behaviour, after which nothing more is said (ub).             *)
(*                                                                         *)
(* Packet n of a source has the sequence number n modulo SEQNUMMOD and     *)
(* the timestamp n: one packet per unit of time.  A received packet is     *)
(* checked and queued under recvLock or by the one service thread, which   *)
(* makes it a step.  The network is external: any packet may arrive at any *)
(* time.                                                                   *)
(* Left out: payloads, arrival times and the hash buckets of the table.    *)
(***************************************************************************)
EXTENDS Reception, Sequences, SequencesExt

CONSTANTS
  Source,      \* synchronization sources, by their SSRC
  LocalSSRC,   \* the SSRC this session sends with
  Addr,        \* transport addresses packets may come from
  MaxN,        \* bound of the model on the number of a packet
  MaxLinks     \* bound of the model on the packets queued over time

ASSUME QueueConstants ==
  MaxN \in Nat /\ MaxLinks \in Nat /\ "freed" \notin Source

VARIABLES
  sync,        \* the table: the link of each known source
  link,        \* the links of queued packets
  links,       \* links allocated so far
  recvFirst, recvLast,
  conflicts,   \* addresses that collided with the local source
  crashed,     \* the search for a conflict ran off its list
  ub,          \* a null pointer or one to a freed link was followed
  ended,       \* the queue was purged, as at the end of a session
  spoiled,     \* history: something happened that spoils the lists
  strays       \* history: the sequence numbers of packets found not valid,
               \* and of the first packet of each source

queueVars == <<sync, link, links, recvFirst, recvLast, spoiled>>
recvVars == <<queueVars, conflicts, crashed, ub, ended, strays>>

Null == 0
Freed == [ src |-> "freed", n |-> 0, ts |-> 0, prev |-> Null, next |-> Null,
           srcPrev |-> Null, srcNext |-> Null ]
NoAddr == "no address"

LinkIds == 1 .. MaxLinks
Pointers == LinkIds \cup {Null}

PktLinks ==
  [ src : Source, n : 0 .. MaxN, ts : Counts,
    prev : Pointers, next : Pointers,
    srcPrev : Pointers, srcNext : Pointers ]

SourceLinks ==
  [ known : BOOLEAN, address : Addr \cup {NoAddr},
    prevConflict : Addr \cup {NoAddr}, first : Pointers, last : Pointers,
    reception : Receptions ]

UnknownSource ==
  [ known |-> FALSE, address |-> NoAddr, prevConflict |-> NoAddr,
    first |-> Null, last |-> Null, reception |-> Fresh(0) ]

Seqn(n) == n % SEQNUMMOD

RecvInit ==
  /\ sync = [s \in Source |-> UnknownSource]
  /\ link = [i \in LinkIds |-> Freed]
  /\ links = 0
  /\ recvFirst = Null /\ recvLast = Null
  /\ conflicts = {}
  /\ crashed = FALSE /\ ub = FALSE /\ ended = FALSE
  /\ spoiled = FALSE
  /\ strays = [s \in Source |-> {}]

-----------------------------------------------------------------------------
(* The queue as a record, so that the pointer operations of one handler    *)
(* can be composed: links, the ends of the global list and of the sources'.*)
Queue ==
  [ link |-> link, first |-> recvFirst, last |-> recvLast,
    srcFirst |-> [s \in Source |-> sync[s].first],
    srcLast |-> [s \in Source |-> sync[s].last],
    ub |-> FALSE, spoiled |-> spoiled ]

Live(q, i) == i # Null /\ q.link[i] # Freed

(* Assign to a field of a link, and let two links point to each other.     *)
SetLink(q, i, field, value) ==
  IF Live(q, i) THEN [q EXCEPT !.link[i][field] = value]
                ELSE [q EXCEPT !.ub = TRUE]

JoinInGlobal(q, i, j) == SetLink(SetLink(q, i, "next", j), j, "prev", i)

JoinInSource(q, i, j) ==
  SetLink(SetLink(q, i, "srcNext", j), j, "srcPrev", i)

SeqNumOf(q, i) == Seqn(q.link[i].n)

(* From the last packet of the source back to the first one found that is  *)
(* not newer than seq, Null if all are newer.                              *)
PlaceOf(q, s, seq) ==
  LET back[k \in 0 .. MaxLinks] ==
        IF k = 0 THEN q.srcLast[s]
        ELSE LET p == back[k - 1] IN
             IF Live(q, p) /\ seq < SeqNumOf(q, p) THEN q.link[p].srcPrev ELSE p
  IN back[MaxLinks]

(* Before all the packets of its source.  recvFirst stays as it is, which  *)
(* spoils the lists.                                                       *)
InsertFirst(q, i, s) ==
  LET head == q.srcFirst[s]
      before == q.link[head].prev
      q1 == JoinInSource(q, i, head)
      q2 == IF before = Null THEN q1 ELSE JoinInGlobal(q1, before, i)
      q3 == JoinInGlobal(q2, i, head)
  IN IF Live(q, head)
       THEN [q3 EXCEPT !.srcFirst[s] = i, !.spoiled = TRUE]
       ELSE [q EXCEPT !.ub = TRUE]

(* Behind the packet at place, in front of the next one of the source.     *)
InsertBehind(q, i, place) ==
  LET after == q.link[place].srcNext
      before == q.link[after].prev
      q1 == JoinInSource(q, i, after)
      q2 == JoinInGlobal(q1, before, i)
      q3 == JoinInGlobal(q2, i, after)
  IN IF Live(q, after) THEN JoinInSource(q3, place, i)
                       ELSE [q EXCEPT !.ub = TRUE]

(* The only packet of its source, at the end of the global list.           *)
InsertOnly(q, i, s) ==
  LET q1 == IF q.last = Null THEN q ELSE JoinInGlobal(q, q.last, i)
  IN [q1 EXCEPT !.srcFirst[s] = i, !.srcLast[s] = i, !.last = i,
                !.first = IF q.first = Null THEN i ELSE @]

(* Mutant: the global list is not told.                                    *)
InsertLastOfSource(q, i, s) ==
  [JoinInSource(q, q.srcLast[s], i) EXCEPT !.srcLast[s] = i]

(* Behind the last packet of its source and of the global list.            *)
InsertLast(q, i, s) ==
  LET q1 == JoinInSource(q, q.srcLast[s], i)
      q2 == JoinInGlobal(q1, q.last, i)
  IN [q2 EXCEPT !.srcLast[s] = i, !.last = i]

(* insertRecvPacket.  Only a duplicate of the source's last packet is      *)
(* noticed; one of another is put behind it.                               *)
InsertRecvPacket(q, i, s) ==
  LET seq == SeqNumOf(q, i)
      tail == q.srcLast[s]
      place == PlaceOf(q, s, seq)
  IN CASE tail = Null -> InsertOnly(q, i, s)
       [] tail # Null /\ ~Live(q, tail) -> [q EXCEPT !.ub = TRUE]
       [] Live(q, tail) /\ seq < SeqNumOf(q, tail) ->
            (CASE place = Null -> InsertFirst(q, i, s)
               [] place # Null /\ ~Live(q, place) -> [q EXCEPT !.ub = TRUE]
               [] OTHER -> InsertBehind(q, i, place))
       [] Live(q, tail) /\ seq = SeqNumOf(q, tail) ->
            [q EXCEPT !.link[i] = Freed]
       [] OTHER -> InsertLast(q, i, s)

-----------------------------------------------------------------------------
(* Mutant: the end of the source's list is forgotten.                      *)
UnlinkKeepsLast(q, i) ==
  LET s == q.link[i].src
      next == q.link[i].srcNext
      q1 == [q EXCEPT !.srcFirst[s] = next]
  IN IF next = Null THEN q1 ELSE SetLink(q1, next, "srcPrev", Null)

(* Unlink the first packet of the global list from its source's list.      *)
UnlinkFromSource(q, i) ==
  LET s == q.link[i].src
      next == q.link[i].srcNext
      q1 == [q EXCEPT !.srcFirst[s] = next]
  IN IF next = Null THEN [q1 EXCEPT !.srcLast[s] = Null]
                    ELSE SetLink(q1, next, "srcPrev", Null)

(* The first packet of the global list is older than the stamp: drop it.   *)
ExpireFirst(q) ==
  LET i == q.first IN
  [UnlinkFromSource([q EXCEPT !.first = q.link[i].next], i)
     EXCEPT !.link[i] = Freed]

(* Take out the first packet of the global list.                           *)
TakeFirst(q) ==
  LET i == q.first
      next == q.link[i].next
      q1 == [q EXCEPT !.first = next]
      q2 == IF next = Null THEN [q1 EXCEPT !.last = Null]
                           ELSE SetLink(q1, next, "prev", Null)
  IN [UnlinkFromSource(q2, i) EXCEPT !.link[i] = Freed]

(* The queue when all that is older than the stamp has expired.            *)
Expired(q, stamp) ==
  LET expire[k \in 0 .. MaxLinks] ==
        IF k = 0 THEN q
        ELSE LET p == expire[k - 1] IN
             CASE p.ub \/ p.first = Null -> p
               [] ~p.ub /\ p.first # Null /\ ~Live(p, p.first) ->
                    [p EXCEPT !.ub = TRUE]
               [] ~p.ub /\ Live(p, p.first) /\ p.link[p.first].ts < stamp ->
                    ExpireFirst(p)
               [] OTHER -> p
  IN expire[MaxLinks]

(* getWaiting for any source: the packet with this stamp, if it is at the  *)
(* head of the queue once the older ones have expired.                     *)
GetWaiting(q, stamp) ==
  LET p == Expired(q, stamp) IN
  CASE p.ub -> [q |-> p, got |-> Null]
    [] ~p.ub /\ p.first = Null ->
         [q |-> [p EXCEPT !.last = Null], got |-> Null]
    [] ~p.ub /\ p.first # Null /\ p.link[p.first].ts > stamp ->
         [q |-> SetLink(p, p.first, "prev", Null), got |-> Null]
    [] OTHER -> [q |-> TakeFirst(p), got |-> p.first]

(* Unlink a packet from the global list, without its ends.                 *)
UnlinkFromGlobal(q, i) ==
  LET before == q.link[i].prev
      after == q.link[i].next
      q1 == IF before = Null THEN q ELSE SetLink(q, before, "next", after)
  IN IF after = Null THEN q1 ELSE SetLink(q1, after, "prev", before)

(* The same for one source.  The links are unlinked from the global list,  *)
(* but recvFirst and recvLast are only looked at when it gets empty.       *)
ExpiredOf(q, s, stamp) ==
  LET expire[k \in 0 .. MaxLinks] ==
        IF k = 0 THEN [q |-> q, nonempty |-> FALSE]
        ELSE LET p == expire[k - 1].q
                 i == p.srcFirst[s]
             IN CASE p.ub \/ i = Null -> expire[k - 1]
                  [] ~p.ub /\ i # Null /\ ~Live(p, i) ->
                       [q |-> [p EXCEPT !.ub = TRUE], nonempty |-> FALSE]
                  [] ~p.ub /\ Live(p, i) /\ p.link[i].ts < stamp ->
                       [q |-> [UnlinkFromGlobal(
                                 [p EXCEPT !.srcFirst[s] = p.link[i].srcNext],
                                 i) EXCEPT !.link[i] = Freed],
                        nonempty |-> {p.link[i].prev, p.link[i].next} # {Null}]
                  [] OTHER -> expire[k - 1]
  IN expire[MaxLinks]

TakeFirstOf(q, s) ==
  LET i == q.srcFirst[s]
      l == q.link[i]
      q1 == UnlinkFromGlobal(q, i)
      q2 == [q1 EXCEPT !.first = IF l.prev = Null THEN l.next ELSE @,
                       !.last = IF l.next = Null THEN l.prev ELSE @,
                       !.srcFirst[s] = l.srcNext]
      q3 == IF l.srcNext = Null THEN [q2 EXCEPT !.srcLast[s] = Null]
                                ELSE SetLink(q2, l.srcNext, "prev", Null)
  IN [q3 EXCEPT !.link[i] = Freed]

GetWaitingOf(q, s, stamp) ==
  LET e == ExpiredOf(q, s, stamp)
      p == e.q
      i == p.srcFirst[s]
  IN IF q.srcFirst[s] = Null THEN [q |-> q, got |-> Null]
     ELSE CASE p.ub -> [q |-> p, got |-> Null]
            [] ~p.ub /\ i = Null ->
                 [q |-> [p EXCEPT !.srcLast[s] = Null,
                                  !.first = IF e.nonempty THEN @ ELSE Null,
                                  !.last = IF e.nonempty THEN @ ELSE Null],
                  got |-> Null]
            [] ~p.ub /\ i # Null /\ p.link[i].ts > stamp ->
                 [q |-> SetLink(p, i, "srcPrev", Null), got |-> Null]
            [] OTHER -> [q |-> TakeFirstOf(p, s), got |-> i]

(* A query for one source spoils the lists when a packet expires, since    *)
(* their ends are not kept up, and when the source has a packet behind the *)
(* one it gives away: that loses its place in the global list, and keeps   *)
(* its pointer to the link that is freed.                                  *)
Spoils(q, s, stamp) ==
  LET i == q.srcFirst[s]
      l == q.link[i]
  IN Live(q, i) /\ (l.ts < stamp \/ (l.ts = stamp /\ l.srcNext # Null))

-----------------------------------------------------------------------------
(* Store a queue and a table of sources.                                   *)
Store(q, table) ==
  /\ link' = q.link
  /\ recvFirst' = q.first /\ recvLast' = q.last
  /\ sync' = [s \in Source |-> [table[s] EXCEPT !.first = q.srcFirst[s],
                                                !.last = q.srcLast[s]]]
  /\ ub' = q.ub /\ spoiled' = q.spoiled

(* getSourceBySSRC, and what takeInDataPacket sets in a new source, or in  *)
(* one only RTCP packets were received from.                               *)
SourceFor(s, address) ==
  CASE ~sync[s].known ->
         [UnknownSource EXCEPT !.known = TRUE, !.address = address,
                               !.reception = Fresh(MinValid)]
    [] sync[s].known /\ sync[s].address = NoAddr ->
         [sync[s] EXCEPT !.address = address]
    [] OTHER -> sync[s]

(* checkSSRCInIncomingRTPPkt for the source of somebody else that has      *)
(* moved: follow it once, but do not flip-flop.                            *)
FollowsMove(src, address) ==
  IF src.prevConflict = address
    THEN [ok |-> FALSE, src |-> src]
    ELSE [ok |-> TRUE, src |-> [src EXCEPT !.prevConflict = address,
                                           !.address = address]]

CheckSSRC(src, address) ==
  IF src.address = address THEN [ok |-> TRUE, src |-> src]
                           ELSE FollowsMove(src, address)

(* The checks between the header and the queue.                            *)
Accept(s, n, address) ==
  LET c == CheckSSRC(SourceFor(s, address), address)
      v == RecordReception(c.src.reception, Seqn(n), n)
  IN IF c.ok THEN [ok |-> v.ok, src |-> [c.src EXCEPT !.reception = v.r]]
             ELSE c

(* A packet with the local SSRC from elsewhere: a collision or a loop.     *)
(* searchDataConflict runs off the end of the list when nothing matches.   *)
OwnCollision(s, address) ==
  s = LocalSSRC /\ SourceFor(s, address).address # address

(* takeInDataPacket, for a packet with a valid header.                     *)
TakeInDataPacket(s, n, address) ==
  LET a == Accept(s, n, address)
      i == links + 1
      base == a.src.reception.initialDataTimestamp
      new == [src |-> s, n |-> n, ts |-> (n - base) % CountMod,
              prev |-> Null, next |-> Null, srcPrev |-> Null, srcNext |-> Null]
      q == InsertRecvPacket([Queue EXCEPT !.link[i] = new], i, s)
      table == [sync EXCEPT ![s] = a.src]
  IN /\ ~OwnCollision(s, address)
     /\ IF a.ok THEN /\ links < MaxLinks
                     /\ links' = i
                     /\ Store(q, table)
                ELSE /\ Store(Queue, table)
                     /\ UNCHANGED links
     /\ strays' = IF a.ok /\ sync[s].reception.obsPacketCount > 0 THEN strays
                  ELSE [strays EXCEPT ![s] = @ \cup {Seqn(n)}]
     /\ UNCHANGED <<conflicts, crashed, ended>>

(* The address is in the list of conflicts if a control packet came from   *)
(* it; otherwise the search follows a null pointer.                        *)
TakeInOwnPacket(s, address) ==
  /\ OwnCollision(s, address)
  /\ crashed' = (address \notin conflicts)
  /\ UNCHANGED <<queueVars, conflicts, ub, ended, strays>>

(* getData: the application gets the packet, and its link is freed.        *)
GetData(stamp) ==
  /\ Store(GetWaiting(Queue, stamp).q, sync)
  /\ UNCHANGED <<links, conflicts, crashed, ended, strays>>

GetDataOf(s, stamp) ==
  /\ LET q == GetWaitingOf(Queue, s, stamp).q IN
       Store([q EXCEPT !.spoiled = @ \/ Spoils(Queue, s, stamp)], sync)
  /\ UNCHANGED <<links, conflicts, crashed, ended, strays>>

(* The lists of the sources that have packets in the global one.           *)
ForgetLists(sources) ==
  [s \in Source |->
     IF s \in sources THEN [sync[s] EXCEPT !.first = Null, !.last = Null]
                      ELSE sync[s]]

(* purgeIncomingQueue: all links in the global list; recvLast is forgotten.*)
PurgeIncomingQueue ==
  LET reached[k \in 0 .. MaxLinks] ==
        IF k = 0 THEN {recvFirst} \ {Null}
        ELSE reached[k - 1] \cup
               ({link[i].next : i \in {j \in reached[k - 1] : Live(Queue, j)}}
                  \ {Null})
      all == reached[MaxLinks]
      sources == {link[i].src : i \in {j \in all : Live(Queue, j)}}
  IN /\ link' = [i \in LinkIds |-> IF i \in all THEN Freed ELSE link[i]]
     /\ recvFirst' = Null
     /\ sync' = ForgetLists(sources)
     /\ ub' = (\E i \in all : ~Live(Queue, i))
     /\ ended' = TRUE
     /\ UNCHANGED <<links, recvLast, spoiled, conflicts, crashed, strays>>

-----------------------------------------------------------------------------
(* Closed by a network that delivers any packet at any time, an application*)
(* that asks for any stamp, and the control packets that fill the list of  *)
(* conflicts.  The model stops when the lists are spoiled: what follows    *)
(* loses packets or follows pointers to freed links.                       *)
ReceivePacket ==
  \E s \in Source, n \in 0 .. MaxN, a \in Addr :
    TakeInDataPacket(s, n, a) \/ TakeInOwnPacket(s, a)

Ask ==
  \E stamp \in 0 .. MaxN :
    GetData(stamp) \/ \E s \in Source : GetDataOf(s, stamp)

ControlConflict ==
  /\ \E a \in Addr : conflicts' = conflicts \cup {a}
  /\ UNCHANGED <<queueVars, crashed, ub, ended, strays>>

RecvNext ==
  /\ ~ub /\ ~crashed /\ ~ended /\ ~spoiled
  /\ ReceivePacket \/ Ask \/ ControlConflict \/ PurgeIncomingQueue

RecvSpec == RecvInit /\ [][RecvNext]_recvVars

-----------------------------------------------------------------------------
(* The pointers of the links.                                              *)
Nexts(q) == [i \in LinkIds |-> q.link[i].next]
Prevs(q) == [i \in LinkIds |-> q.link[i].prev]
SrcNexts(q) == [i \in LinkIds |-> q.link[i].srcNext]
SrcPrevs(q) == [i \in LinkIds |-> q.link[i].srcPrev]

(* The links reached from a pointer, in their order.                       *)
Chain(start, next) ==
  LET chain[k \in 0 .. MaxLinks] ==
        IF k = 0 THEN IF start = Null THEN <<>> ELSE <<start>>
        ELSE LET c == chain[k - 1] IN
             IF c = <<>> \/ ~Live(Queue, Last(c)) \/ next[Last(c)] = Null
               THEN c ELSE Append(c, next[Last(c)])
  IN chain[MaxLinks]

(* The types of the lists, the sources and the packet that is taken in.    *)
RecvTypeOK ==
  /\ sync \in [Source -> SourceLinks]
  /\ link \in [LinkIds -> PktLinks \cup {Freed}]
  /\ links \in 0 .. MaxLinks
  /\ recvFirst \in Pointers /\ recvLast \in Pointers
  /\ conflicts \subseteq Addr
  /\ {crashed, ub, ended, spoiled} \subseteq BOOLEAN
  /\ strays \in [Source -> SUBSET Seqs]

(* A list: its chain of live links ends where it should, and the pointers  *)
(* back are the inverse of the pointers on.                                *)
WellLinked(chain, last, prev) ==
  /\ \A k \in DOMAIN chain : Live(Queue, chain[k])
  /\ last = IF chain = <<>> THEN Null ELSE Last(chain)
  /\ \A k \in 1 .. Len(chain) - 1 : prev[chain[k + 1]] = chain[k]

(* The links of one chain follow each other as in another.                 *)
InOrderOf(chain, all) ==
  \A j, k \in DOMAIN chain, a, b \in DOMAIN all :
    j < k /\ chain[j] = all[a] /\ chain[k] = all[b] => a < b

(* As long as no packet goes in front of its source's queue and no query   *)
(* for one source spoils them, the two lists a packet is in stay well      *)
(* linked and agree, no packet is lost in them, and a source's packets are *)
(* in the order of their sequence numbers, the last one alone with its     *)
(* number, whatever the network reorders and the application asks for      *)
(* (incqueue.cpp:369-469, 496-628).  In front of the last one a number may *)
(* be there twice: see NotQueuedTwice.                                     *)
ListsAgree ==
  /\ RecvTypeOK
  /\ ~spoiled /\ ~ended =>
       LET all == Chain(recvFirst, Nexts(Queue)) IN
       /\ WellLinked(all, recvLast, Prevs(Queue))
       /\ ToSet(all) = {i \in LinkIds : Live(Queue, i)}
       /\ \A s \in Source :
            LET chain == Chain(sync[s].first, SrcNexts(Queue))
            IN /\ WellLinked(chain, sync[s].last, SrcPrevs(Queue))
               /\ ToSet(chain) = {i \in ToSet(all) : link[i].src = s}
               /\ InOrderOf(chain, all)
               /\ \A k \in 1 .. Len(chain) - 1 :
                    /\ Seqn(link[chain[k]].n) <= Seqn(link[chain[k + 1]].n)
                    /\ Seqn(link[chain[k]].n) < Seqn(link[sync[s].last].n)

(* What iqueue.h:1241-1245 says: a packet that is already in the queue,    *)
(* with the same source and sequence number, is not inserted but deleted.  *)
(* The code looks at the number in a loop that it only enters for greater  *)
(* ones (incqueue.cpp:377-388), so it deletes duplicates of the source's   *)
(* last packet, and queues those of any other.                             *)
NotQueuedTwice ==
  ~spoiled /\ ~ended =>
    \A i, j \in {k \in LinkIds : Live(Queue, k)} :
      /\ link[i].src = link[j].src
      /\ Seqn(link[i].n) = Seqn(link[j].n)
      => i = j

(* Under the same condition no handler follows a null pointer or one to a  *)
(* freed link (incqueue.cpp:376-486, 579-648).                             *)
NoDanglingPointer == ub => spoiled

(* A valid source is believed to have restarted elsewhere in its sequence  *)
(* only by a packet that follows one that was dropped for it, or its first *)
(* one: that is kept as bad, too, and not forgotten when others follow it  *)
(* (incqueue.cpp:656-683).                                                 *)
RestartNeedsTwo ==
  [][\A s \in Source :
       LET r == sync[s].reception
           new == sync'[s].reception.maxSeqNum
       IN /\ IsValid(r) /\ r.obsPacketCount > 0
          /\ new # r.maxSeqNum /\ Ahead(r, new) >= MaxDropout
          => (new - 1) % SEQNUMMOD \in strays[s]]_recvVars

=============================================================================
