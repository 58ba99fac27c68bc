---------------------------- MODULE RtcpCompound ----------------------------
(***************************************************************************)
(* What ccRTP writes into a compound RTCP packet and what it reads from    *)
(* one (control.cpp, rtcppkt.cpp): reports with blocks, the description of *)
(* the source, BYE with a reason; and the participants a receiver learns   *)
(* of (source.cpp).  When a compound is sent is the module RtcpControl.    *)
(*                                                                         *)
(* Two sessions of one application, as for sound and picture, send to a    *)
(* receiver.  A packet is a sequence of bytes, a number of 32 bits one     *)
(* byte and three zeros before it.  In the receiver's buffer there is      *)
(* something left behind the packet that comes in: bytes that are all the  *)
(* same here, so that reading a type from them is noticed.  Sender and     *)
(* receiver information are as many numbers as a constant says.            *)
(* External: the network, which carries one packet at a time or loses it.  *)
(* Left out: the checks of addresses, which are in RtcpControl, and APP.   *)
(***************************************************************************)
EXTENDS Integers, Sequences, SequencesExt, FiniteSets

CONSTANTS
  PathMTU, LowerHeadersSize, Reserve,   \* 1500, 28, 100
  MaxBlocks,       \* report blocks in a packet, 31
  SenderInfoWords, ReceiverInfoWords,   \* 5 and 5
  Leftover,        \* the bytes behind a packet in the buffer
  Configurations,  \* applications, with the sources to report: their items by type
  Reasons          \* what is said with a BYE

VARIABLES
  application,    \* SDESItemsHolder: the content of each type of item
  nextScheduledSDESItem,    \* of each session
  weSent,         \* of each session: it sent since its last report
  lost,           \* the sources of the first session: whether each lost
                  \* a packet since computeStats was last called
  datagram,       \* the packet on its way, or NoDatagram
  table,          \* the receiver's sources
  participants,   \* RTPApplication of the receiver: its list
  heard,          \* what the last packet that came in was taken for
  ago             \* history: of each session and item, the reports since it
                  \* was last in one

compoundVars == <<application, nextScheduledSDESItem, weSent, lost, datagram,
                  table, participants, heard, ago>>

Sessions == {1, 2}

END == 0
CNAME == 1
NAME == 2
PRIV == 8
SDESItemTypeLast == 9
ItemTypes == CNAME .. SDESItemTypeLast
firstSchedulable == NAME
lastSchedulable == PRIV

tSR == 200
tRR == 201
tSDES == 202
tBYE == 203
CCRTP_VERSION == 2
BlockCountMod == 32      \* block_count has five bits

ZeroBytes(n) == [i \in 1 .. n |-> 0]
Word(n) == <<0, 0, 0, n>>
Words(count, n) == Word(n) \o ZeroBytes(4 * (count - 1))

(* RTCPFixedHeader of a packet of so many bytes.                           *)
FixedHeader(type, count, paddingBit, bytes) ==
  <<64 * CCRTP_VERSION + 32 * paddingBit + count, type, 0, (bytes \div 4) - 1>>
HeaderBytes == 4

NoOne == 0
NoItems == [t \in ItemTypes |-> <<>>]
NoDatagram == [there |-> FALSE, bytes |-> <<>>, session |-> 1, kind |-> "none",
               items |-> NoItems, reason |-> <<>>, blocks |-> <<>>,
               lost |-> {}]
NotHeard == [there |-> FALSE, of |-> NoDatagram, checked |-> FALSE,
             left |-> 0, senderInfo |-> FALSE, cname |-> FALSE,
             reason |-> <<>>]

CompoundInit ==
  /\ \E c \in Configurations : /\ application = c.items
                              /\ lost = [i \in 1 .. c.reported |-> FALSE]
  /\ nextScheduledSDESItem = [s \in Sessions |-> NAME]
  /\ weSent = [s \in Sessions |-> FALSE]
  /\ datagram = NoDatagram
  /\ table = [s \in Sessions |->
                [state |-> "unknown", participant |-> NoOne, senderInfo |-> FALSE,
                 receiverInfo |-> FALSE]]
  /\ participants = <<>>
  /\ heard = NotHeard
  /\ ago = [s \in Sessions |-> [t \in ItemTypes |-> 0]]

-----------------------------------------------------------------------------
(* packReportBlocks: blocks are added while there is room for one more     *)
(* behind, from the first source on, each time it is called.               *)
RRBlockBytes == 4 + 4 * ReceiverInfoWords

BlocksFor(len, available, sources) ==
  LET fits == IF len >= available - RRBlockBytes THEN 0
              ELSE (available - len - 1) \div RRBlockBytes
  IN CHOOSE n \in {fits, MaxBlocks, sources} :
       n <= fits /\ n <= MaxBlocks /\ n <= sources

(* A block tells the fraction lost since computeStats was last called.     *)
Blocks(n, losses) ==
  [i \in 1 .. n |-> [ssrc |-> 100 + i, lost |-> losses[i]]]

BytesOfBlock(block) ==
  Word(block.ssrc) \o Words(ReceiverInfoWords, IF block.lost THEN 1 ELSE 0)

Computed(n, losses) == [i \in DOMAIN losses |-> losses[i] /\ i > n]

(* The reports of dispatchControlPacket: as long as a packet of them is    *)
(* full and there is room, another one, which begins with the first source *)
(* again.  r has the bytes so far, and first those before the packet that  *)
(* is being made.                                                          *)
RECURSIVE Reports(_, _, _, _, _)
Reports(r, type, info, session, available) ==
  LET head == Len(r.bytes) + HeaderBytes + 4 + Len(info)
      n == BlocksFor(head, available, Len(r.lost))
      blocks == Blocks(n, r.lost)
      body == Word(session) \o info \o FlattenSeq([i \in 1 .. n |-> BytesOfBlock(blocks[i])])
      done == [ bytes |-> r.bytes \o FixedHeader(type, n, 0, HeaderBytes + Len(body))
                            \o body,
                blocks |-> r.blocks \o blocks,
                lost |-> Computed(n, r.lost) ]
  IN IF n = MaxBlocks
        /\ Len(done.bytes) < available - (HeaderBytes + 4 + RRBlockBytes)
       THEN Reports(done, tRR, <<>>, session, available)
       ELSE done

nextSDESType(t) == IF t + 1 > lastSchedulable THEN firstSchedulable ELSE t + 1

(* Mutant: the first item that is set is sent each time.                   *)
scheduleSDESItemFirst(session) ==
  LET set == {t \in firstSchedulable .. lastSchedulable : application[t] # <<>>}
  IN IF set = {} THEN [type |-> END, next |-> NAME]
     ELSE [type |-> CHOOSE t \in set : \A u \in set : t <= u, next |-> NAME]

(* scheduleSDESItem: the next item that is set, or END after a round.      *)
scheduleSDESItem(session) ==
  LET rounds == lastSchedulable - firstSchedulable + 1
      Turn(i) == firstSchedulable
                 + ((nextScheduledSDESItem[session] - firstSchedulable + i) % rounds)
      set == {i \in 0 .. rounds - 1 : application[Turn(i)] # <<>>}
  IN IF set = {} THEN [type |-> END, next |-> nextSDESType(Turn(rounds - 1))]
     ELSE LET type == Turn(CHOOSE i \in set : \A j \in set : i <= j)
          IN [type |-> type, next |-> nextSDESType(type)]

Item(type) == <<type, Len(application[type])>> \o application[type]

(* packSDES: the name, the item whose turn it is, and END up to a multiple *)
(* of four bytes.                                                          *)
packSDES(session, type) ==
  LET items == Word(session) \o Item(CNAME)
                 \o (IF type > CNAME THEN Item(type) ELSE <<>>) \o <<END>>
      filled == items \o ZeroBytes((-Len(items)) % 4)
  IN FixedHeader(tSDES, 1, 0, HeaderBytes + Len(filled)) \o filled

(* dispatchControlPacket.                                                  *)
DispatchControlPacket(session) ==
  /\ ~datagram.there
  /\ LET type == IF weSent[session] THEN tSR ELSE tRR
         info == IF weSent[session] THEN Words(SenderInfoWords, 1) ELSE <<>>
         available == PathMTU - LowerHeadersSize - (HeaderBytes + 4 + Len(info))
                      - (HeaderBytes + 2 + Len(application[CNAME])) - Reserve
         losses == IF session = 1 THEN lost ELSE <<>>
         r == Reports([bytes |-> <<>>, blocks |-> <<>>, lost |-> losses],
                      type, info, session, available)
         item == scheduleSDESItem(session)
     IN /\ datagram' =
             [ there |-> TRUE, session |-> session,
               bytes |-> r.bytes \o packSDES(session, item.type),
               kind |-> IF weSent[session] THEN "SR" ELSE "RR",
               items |-> [t \in ItemTypes |-> IF t \in {CNAME, item.type}
                                                THEN application[t] ELSE <<>>],
               reason |-> <<>>, blocks |-> r.blocks,
               lost |-> {100 + i : i \in {j \in DOMAIN losses : losses[j]}} ]
        /\ lost' = IF session = 1 THEN r.lost ELSE lost
        /\ nextScheduledSDESItem' =
             [nextScheduledSDESItem EXCEPT ![session] = item.next]
        /\ ago' = [ago EXCEPT ![session] = [t \in ItemTypes |->
             IF t = item.type \/ application[t] = <<>>
                \/ t \notin firstSchedulable .. lastSchedulable
               THEN 0 ELSE @[t] + 1]]
  /\ weSent' = [weSent EXCEPT ![session] = FALSE]
  /\ heard' = NotHeard
  /\ UNCHANGED <<application, table, participants>>

(* Mutant: the padding is not part of the packet.                          *)
ReasonPaddingUncounted(length) == 0

(* dispatchBYE: a report without blocks and a BYE, whose reason is counted *)
(* with the zeros behind it; four when it would need none.  The padding    *)
(* bit is not set to anything.                                             *)
ReasonPadding(length) == 4 - (length % 4)

DispatchBye(session) ==
  /\ ~datagram.there
  /\ \E reason \in Reasons, bit \in {0, 1} :
       LET padlen == ReasonPadding(HeaderBytes + 5 + Len(reason))
           body == Word(session) \o <<Len(reason) + padlen>> \o reason
                     \o ZeroBytes(padlen)
       IN datagram' =
            [ NoDatagram EXCEPT !.there = TRUE, !.session = session,
                !.bytes = FixedHeader(tRR, 0, 0, HeaderBytes + 4) \o Word(session)
                          \o FixedHeader(tBYE, 1, bit, HeaderBytes + Len(body))
                          \o body,
                !.kind = "BYE", !.reason = reason ]
  /\ heard' = NotHeard
  /\ UNCHANGED <<application, nextScheduledSDESItem, weSent, lost,
                 table, participants, ago>>

-----------------------------------------------------------------------------
(* RTCPPacket at an offset of a buffer.                                    *)
Version(buffer, p) == buffer[p + 1] \div 64
Padding(buffer, p) == (buffer[p + 1] \div 32) % 2
BlockCount(buffer, p) == buffer[p + 1] % BlockCountMod
Type(buffer, p) == buffer[p + 2]
getLength(buffer, p) == 4 * (buffer[p + 4] + 1)
SsrcAt(buffer, p) == buffer[p + HeaderBytes + 4]

(* checkCompoundRTCPHeader: the lengths, as long as the versions are       *)
(* right, must add up; the first packet is a report without padding.       *)
RECURSIVE EndOfCompound(_, _, _)
EndOfCompound(buffer, p, len) ==
  LET next == p + getLength(buffer, p) IN
  IF next < len /\ Version(buffer, p) = CCRTP_VERSION
    THEN EndOfCompound(buffer, next, len) ELSE next

checkCompoundRTCPHeader(buffer, len) ==
  /\ Version(buffer, 0) = CCRTP_VERSION /\ Padding(buffer, 0) = 0
  /\ Type(buffer, 0) \in {tSR, tRR}
  /\ EndOfCompound(buffer, 0, len) = len

(* What is read accumulates in a record: the offset, the table, the        *)
(* participants, and what is told to the application.                      *)
(*                                                                         *)
(* The RR packets.  onGotRR compares the source that sent the report, and  *)
(* not the one it is about, with the local one, and records nothing.       *)
LocalSource == 99

RECURSIVE ReadReports(_, _, _)
ReadReports(buffer, len, r) ==
  IF r.pointer < len /\ Type(buffer, r.pointer) = tRR
    THEN LET s == SsrcAt(buffer, r.pointer) IN
         ReadReports(buffer, len,
           [r EXCEPT !.pointer = @ + getLength(buffer, r.pointer),
                     !.table[r.source].receiverInfo =
                       @ \/ (s = LocalSource /\ BlockCount(buffer, r.pointer) > 0)])
    ELSE r

getParticipant(list, cname) ==
  LET named == {i \in DOMAIN list : list[i][CNAME] = cname} IN
  IF named = {} THEN NoOne ELSE CHOOSE i \in named : \A j \in named : i <= j

(* onGotSDESChunk: items up to END, also behind the packet, are given to   *)
(* the participant of the source; a source without one takes that of its   *)
(* name, or a new one.                                                     *)
RECURSIVE ReadItems(_, _, _, _)
ReadItems(buffer, p, end, r) ==
  LET type == buffer[p + 1]
      length == buffer[p + 2]
      data == SubSeq(buffer, p + 3, p + 2 + length)
      part == r.table[r.source].participant
      found == getParticipant(r.participants, data)
      linked ==
        CASE part # NoOne \/ type # CNAME -> r
          [] found # NoOne -> [r EXCEPT !.table[r.source].participant = found]
          [] OTHER ->
               [r EXCEPT !.participants = Append(@, [NoItems EXCEPT ![CNAME] = <<45>>]),
                         !.table[r.source].participant = Len(r.participants) + 1]
      owner == linked.table[r.source].participant
      told == IF owner = NoOne THEN linked
              ELSE [linked EXCEPT !.participants[owner][type] = data]
  IN IF p >= end \/ type = END \/ type > SDESItemTypeLast THEN r
     ELSE ReadItems(buffer, p + 2 + length, end,
            IF type = CNAME THEN [told EXCEPT !.table[r.source].state = "active",
                                              !.cname = TRUE]
                            ELSE told)

(* The SDES packets, of one chunk each.                                    *)
RECURSIVE ReadDescriptions(_, _, _)
ReadDescriptions(buffer, len, r) ==
  IF r.pointer < len /\ Type(buffer, r.pointer) = tSDES
    THEN LET chunk == r.pointer + HeaderBytes
             length == getLength(buffer, r.pointer)
         IN ReadDescriptions(buffer, len,
              [ReadItems(buffer, chunk + 4, chunk + length, r)
                 EXCEPT !.pointer = @ + length])
    ELSE r

(* The text of a reason ends at its first zero.                            *)
Text(bytes) ==
  LET ends == {i \in DOMAIN bytes : bytes[i] = 0} IN
  SubSeq(bytes, 1, IF ends = {} THEN Len(bytes)
                   ELSE (CHOOSE i \in ends : \A j \in ends : i <= j) - 1)

(* getBYE: the packet has a reason if it is longer than its sources.  The  *)
(* loop around it keeps the packet it began with and moves only the offset:*)
(* what is behind a BYE is taken for the same BYE again, and one of no     *)
(* sources for ever.  The sessions here put one BYE of one source last;    *)
(* what other BYEs do to the count of members is in RtcpControl.           *)
RECURSIVE ReadByes(_, _, _, _)
ReadByes(buffer, len, bye, r) ==
  IF r.pointer < len /\ Type(buffer, bye) = tBYE
    THEN LET sources == HeaderBytes + 4 * BlockCount(buffer, bye)
             length == getLength(buffer, bye)
             at == r.pointer + sources
             reason == IF sources < length
                         THEN SubSeq(buffer, at + 2, at + 1 + buffer[at + 1])
                         ELSE <<>>
         IN ReadByes(buffer, len, bye,
              [r EXCEPT !.pointer = @ + length, !.reason = Text(reason),
                        !.table[SsrcAt(buffer, bye)].state = "leaving"])
    ELSE r

(* takeInControlPacket.  The sender information of an SR is stored, its    *)
(* blocks are not looked at.                                               *)
TakenIn(buffer, len) ==
  LET source == SsrcAt(buffer, 0)
      r == [ pointer |-> 0, source |-> source, table |-> table,
             participants |-> participants, cname |-> FALSE, reason |-> <<>> ]
      q == IF Type(buffer, 0) # tSR THEN r
           ELSE [r EXCEPT !.pointer = getLength(buffer, 0),
                          !.table[source].senderInfo = TRUE]
      d == ReadDescriptions(buffer, len, ReadReports(buffer, len, q))
  IN ReadByes(buffer, len, d.pointer, d)

TakeInControlPacket ==
  /\ datagram.there
  /\ LET len == Len(datagram.bytes)
     IN \E byte \in Leftover :
        LET buffer == datagram.bytes \o [i \in 1 .. PathMTU - len |-> byte]
            r == TakenIn(buffer, len)
            ok == checkCompoundRTCPHeader(buffer, len)
        IN
        /\ IF ok THEN table' = r.table /\ participants' = r.participants
                 ELSE UNCHANGED <<table, participants>>
        /\ heard' = [ there |-> TRUE, of |-> datagram, checked |-> ok,
                      left |-> len - r.pointer,
                      senderInfo |-> Type(buffer, 0) = tSR,
                      cname |-> r.cname, reason |-> r.reason ]
  /\ datagram' = NoDatagram
  /\ UNCHANGED <<application, nextScheduledSDESItem, weSent, lost, ago>>

LoseControlPacket ==
  /\ datagram.there /\ datagram' = NoDatagram
  /\ UNCHANGED <<application, nextScheduledSDESItem, weSent, lost,
                 table, participants, heard, ago>>

(* A session sends data; one of the sources it hears loses some.           *)
SendData(session) ==
  /\ ~weSent[session]
  /\ weSent' = [weSent EXCEPT ![session] = TRUE]
  /\ UNCHANGED <<application, nextScheduledSDESItem, lost, datagram,
                 table, participants, heard, ago>>

LoseData(i) ==
  /\ ~lost[i] /\ lost' = [lost EXCEPT ![i] = TRUE]
  /\ UNCHANGED <<application, nextScheduledSDESItem, weSent, datagram,
                 table, participants, heard, ago>>

CompoundNext ==
  \/ \E s \in Sessions : DispatchControlPacket(s) \/ DispatchBye(s) \/ SendData(s)
  \/ \E i \in DOMAIN lost : LoseData(i)
  \/ TakeInControlPacket
  \/ LoseControlPacket

-----------------------------------------------------------------------------
(* A compound that a session sends is taken as one and read to its end,    *)
(* and says what was put in: the sender information, the name and the item *)
(* of the source, whose participant is that of every source of its name,   *)
(* and the reason of a BYE.  The blocks tell each source once, and what it *)
(* lost, unless there are as many as fit into a packet (control.cpp:       *)
(* 312-444, 504-541, 572-671, 750-787, 831-1003, rtcppkt.cpp:110-137).     *)
CompoundIsRead ==
  /\ heard.there =>
       LET sent == heard.of
           source == table[sent.session]
           participant == participants[source.participant]
       IN /\ heard.checked /\ heard.left = 0
          /\ heard.senderInfo <=> sent.kind = "SR"
          /\ heard.reason = sent.reason
          /\ sent.kind = "BYE" => source.state = "leaving"
          /\ sent.kind # "BYE" =>
               /\ heard.cname /\ source.state = "active"
               /\ \A t \in ItemTypes :
                    sent.items[t] # <<>> => participant[t] = sent.items[t]
  /\ Len(participants) <= 1
  /\ Len(datagram.bytes) <= PathMTU - LowerHeadersSize
  /\ datagram.kind \in {"SR", "RR"} /\ datagram.session = 1
     /\ Len(lost) < MaxBlocks =>
       /\ [i \in DOMAIN datagram.blocks |-> datagram.blocks[i].ssrc]
            = [i \in DOMAIN lost |-> 100 + i]
       /\ {b.ssrc : b \in {c \in ToSet(datagram.blocks) : c.lost}} = datagram.lost

(* Every item from NAME to PRIV that is set has its turn: between two      *)
(* reports with it there are at most the others.  Only these are scheduled:*)
(* the item H323CADDR, which may be set too and is read by a receiver, is  *)
(* in no report (control.cpp:57-58, 1068-1095, rtcppkt.h:77-79).           *)
EveryItemInTurn ==
  \A s \in Sessions :
    LET set == {t \in firstSchedulable .. lastSchedulable : application[t] # <<>>}
    IN /\ \A t \in set : ago[s][t] < Cardinality(set)
       /\ datagram.items[SDESItemTypeLast] = <<>>

=============================================================================
