----------------------------- MODULE RtpPacket -----------------------------
(***************************************************************************)
(* RTP packets as ccRTP lays them out in a buffer (rtppkt.cpp,             *)
(* ccrtp/rtppkt.h): made by the sender from its parts, and found again by  *)
(* the receiver from sizes, counts and flags.                              *)
(*                                                                         *)
(* A buffer is a sequence of cells: a field of the header, a contributing  *)
(* source or a byte.  Sizes are counted in cells.  A cell that was         *)
(* encrypted has the key stream it was combined with in its mask, a cell   *)
(* of a tag in its mac what the tag authenticates.                         *)
(***************************************************************************)
EXTENDS Integers, Sequences, SequencesExt

Cell(values) == [v |-> values, mask |-> {}, mac |-> <<>>]
Cells(numbers) == [i \in DOMAIN numbers |-> Cell(<<numbers[i]>>)]

(* Memory that new did not initialise.                                     *)
Junk == Cell(<<-1>>)
JunkCells(n) == [i \in 1 .. n |-> Junk]

(* RTPFixedHeader: padding, extension and cc in the first cell, marker and *)
(* payload in the second.                                                  *)
FLAGS == 1
KIND == 2
SEQUENCE == 3
TIMESTAMP == 4
SSRC == 5
SizeOfFixedHeader == 5

Flags(padding, extension, cc) == Cell(<<padding, extension, cc>>)
padding(buffer) == buffer[FLAGS].v[1]
extension(buffer) == buffer[FLAGS].v[2]
cc(buffer) == buffer[FLAGS].v[3]

(* The bits for the count of sources are four.                             *)
MaxCount == 16

isPadded(p) == padding(p.buffer) = 1
getPaddingSize(p) == p.buffer[p.total].v[1]
getHeaderSize(p) == p.hdrSize
getRawPacket(p) == SubSeq(p.buffer, 1, p.total)
getRawPacketSizeSrtp(p) == p.total + p.srtpLength
getPayload(p) == SubSeq(p.buffer, p.hdrSize + 1, p.hdrSize + p.payloadSize)
getSeqNum(p) == p.buffer[SEQUENCE].v[1]
getSSRC(p) == p.buffer[SSRC].v[1]
getCSRCs(p) ==
  SubSeq(p.buffer, SizeOfFixedHeader + 1, SizeOfFixedHeader + cc(p.buffer))

(* The header extension begins with its length.                            *)
getHdrExt(p) ==
  IF extension(p.buffer) = 0 THEN <<>>
  ELSE SubSeq(p.buffer, SizeOfFixedHeader + cc(p.buffer) + 1, p.hdrSize)

(* setbuffer: cells copied over those behind the first n.                  *)
Overwritten(buffer, n, cells) ==
  [i \in DOMAIN buffer |->
     IF i \in n + 1 .. n + Len(cells) THEN cells[i - n] ELSE buffer[i]]

-----------------------------------------------------------------------------
(* The padding that makes a packet a multiple of paddinglen: all of        *)
(* paddinglen when it is one already.                                      *)
PaddingFor(size, paddinglen) ==
  IF paddinglen = 0 THEN 0 ELSE paddinglen - (size % paddinglen)

PaddingCells(n) == Cells([i \in 1 .. n |-> IF i = n THEN n ELSE 0])

(* The constructor for outgoing packets: room for everything, the first    *)
(* word of the header and the padding set.                                 *)
RTPPacket(hdrlen, plen, paddinglen, srtpLength) ==
  LET pad == PaddingFor(hdrlen + plen, paddinglen)
      flags == Flags(IF pad = 0 THEN 0 ELSE 1, 0, 0)
  IN [ buffer |-> <<flags, Cell(<<0, 0>>), Cell(<<0>>)>>
                    \o JunkCells(hdrlen - 3 + plen) \o PaddingCells(pad)
                    \o JunkCells(srtpLength),
       total |-> hdrlen + plen + pad, hdrSize |-> hdrlen,
       payloadSize |-> plen, srtpLength |-> srtpLength ]

setCSRCArray(p, csrcs) ==
  [p EXCEPT !.buffer =
     [Overwritten(@, SizeOfFixedHeader, Cells(csrcs)) EXCEPT ![FLAGS] =
        Flags(padding(p.buffer), extension(p.buffer), Len(csrcs) % MaxCount)]]

setExtension(p, hdrext) ==
  [p EXCEPT !.buffer[FLAGS] =
     Flags(padding(p.buffer), IF hdrext = <<>> THEN 0 ELSE 1, cc(p.buffer))]

setbuffer(p, cells, n) == [p EXCEPT !.buffer = Overwritten(@, n, cells)]

(* The three constructors of OutgoingRTPPkt.                               *)
OutgoingWithExtension(csrcs, hdrext, data, paddinglen, srtpLength) ==
  LET before == SizeOfFixedHeader + Len(csrcs)
      p == RTPPacket(before + Len(hdrext), Len(data), paddinglen, srtpLength)
      q == setbuffer(setCSRCArray(p, csrcs), Cells(hdrext), before)
  IN setbuffer(setExtension(q, hdrext), Cells(data), before + Len(hdrext))

OutgoingWithSources(csrcs, data, paddinglen, srtpLength) ==
  LET before == SizeOfFixedHeader + Len(csrcs)
      p == RTPPacket(before, Len(data), paddinglen, srtpLength)
  IN setbuffer(setCSRCArray(p, csrcs), Cells(data), before)

OutgoingData(data, paddinglen, srtpLength) ==
  setbuffer(RTPPacket(SizeOfFixedHeader, Len(data), paddinglen, srtpLength),
            Cells(data), SizeOfFixedHeader)

(* setPayloadType, setMarker, setSeqNum, setTimestamp, setSSRCNetwork.     *)
Addressed(p, marker, payload, seq, stamp, ssrc) ==
  [p EXCEPT !.buffer[KIND] = Cell(<<marker, payload>>),
            !.buffer[SEQUENCE] = Cell(<<seq>>),
            !.buffer[TIMESTAMP] = Cell(<<stamp>>),
            !.buffer[SSRC] = Cell(<<ssrc>>)]

-----------------------------------------------------------------------------
(* The constructor for incoming packets, which finds the payload.          *)
HeaderSize(block) ==
  LET size == SizeOfFixedHeader + cc(block) IN
  IF extension(block) = 1 THEN size + 1 + block[size + 1].v[1] ELSE size

Incoming(block) ==
  LET len == IF padding(block) = 1 THEN Len(block) - block[Len(block)].v[1]
             ELSE Len(block)
  IN [ buffer |-> block, total |-> Len(block), hdrSize |-> HeaderSize(block),
       payloadSize |-> len - HeaderSize(block), srtpLength |-> 0 ]

(* A payload type that reads as an SR or an RR.                            *)
RTP_INVALID == {72, 73}
isHeaderValid(p) == p.buffer[KIND].v[2] \notin RTP_INVALID

(* reComputePayLength: the size goes up, by what is at payloadSize from    *)
(* the start of the buffer, a byte that has any value.                     *)
CONSTANT PaddingBytes
ASSUME PaddingBytesAssumption == PaddingBytes \subseteq Nat

reComputePayLength(p) ==
  {[p EXCEPT !.buffer[FLAGS] = Flags(1, extension(p.buffer), cc(p.buffer)),
             !.payloadSize = @ + byte] : byte \in PaddingBytes}

(* takeInDataPacket clears the padding bit before the packet is made.      *)
PaddingCleared(block) ==
  [block EXCEPT ![FLAGS] = Flags(0, extension(block), cc(block))]

=============================================================================
