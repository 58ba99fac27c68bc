----------------------------- MODULE SecurePath -----------------------------
(***************************************************************************)
(* RTP packets from two sources of a session to a receiver, with or        *)
(* without SRTP: made and protected as in OutgoingDataQueue::putData       *)
(* (outqueue.cpp), parsed and unprotected as in takeInDataPacket           *)
(* (incqueue.cpp).  The two sources have the same template of a            *)
(* CryptoContext, hence the same keys; each counts its packets itself.     *)
(*                                                                         *)
(* External: a network that carries one packet at a time, or loses it.     *)
(* MediaPath has the network that repeats and reorders; there a packet     *)
(* authenticates by assumption, here by its tag.                           *)
(***************************************************************************)
EXTENDS SrtpCrypto, SrtpContext, FiniteSets

CONSTANTS
  Setups,         \* how a session is set up
  FirstSequence,  \* the first sequence number of a source
  TagLength,      \* cells of a tag, 4 or 10 bytes
  MaxSent         \* bound of the model: the packets sent

Layouts == {"data", "sources", "extension"}

(* A stream ends before its counter does: behind 2^48 packets in the code, *)
(* which does not check it.                                                *)
ASSUME SecureConstants ==
  /\ Setups \subseteq
       [ srtp : BOOLEAN, ealg : Encryptions, aalg : Authentications,
         layout : Layouts, paddinglen : Nat, size : Nat, marker : Nat,
         payload : Nat ]
  /\ FirstSequence \in Seqs /\ TagLength \in Nat \ {0}
  /\ MaxSent \in Nat /\ MaxSent <= (RocMod - 1) * SEQNUMMOD

VARIABLES
  setup,      \* the algorithms, and what the packets look like
  senders,    \* for each source its next sequence number and its counter
  contexts,   \* for each source its context at the receiver
  wire,       \* the packet on its way, or Nothing
  got,        \* what became of the last packet that arrived
  streams     \* history: the key streams of the packets sent

secureVars == <<setup, senders, contexts, wire, got, streams>>

Sources == {1, 2}
Csrcs == <<21, 22>>
Extension == <<1, 31>>     \* its length, and its content
Data == [i \in 1 .. setup.size |-> 10 + i]

NoRtpPacket == RTPPacket(SizeOfFixedHeader, 0, 0, 0)
Nothing == [there |-> FALSE, plain |-> NoRtpPacket, block |-> <<>>, roc |-> NoRoc]
NotYet ==
  [ there |-> FALSE, ok |-> FALSE, packet |-> NoRtpPacket, of |-> Nothing,
    before |-> NewContext, after |-> NewContext ]

SecureInit ==
  /\ setup \in Setups
  /\ senders = [s \in Sources |-> [seq |-> FirstSequence, roc |-> 0]]
  /\ contexts = [s \in Sources |-> NewContext]
  /\ wire = Nothing /\ got = NotYet /\ streams = <<>>

-----------------------------------------------------------------------------
SrtpLength == IF setup.srtp THEN getTagLength(setup.aalg, TagLength) ELSE 0

(* A packet of an application: putData uses the last two constructors.     *)
Packet ==
  CASE setup.layout = "extension" ->
         OutgoingWithExtension(Csrcs, Extension, Data, setup.paddinglen, SrtpLength)
    [] setup.layout = "sources" ->
         OutgoingWithSources(Csrcs, Data, setup.paddinglen, SrtpLength)
    [] OTHER -> OutgoingData(Data, setup.paddinglen, SrtpLength)

(* The packet after protect, by a context whose counter is roc.            *)
Protected(p, ssrc, roc) ==
  LET q == srtpEncrypt(setup.ealg, p, Index(roc, getSeqNum(p)), ssrc, roc)
  IN setbuffer(q, srtpAuthenticate(setup.aalg, q, roc, TagLength), q.total)

Send(s) ==
  /\ ~wire.there /\ Len(streams) < MaxSent
  /\ LET sender == senders[s]
         plain == Addressed(Packet, setup.marker, setup.payload, sender.seq,
                            Len(streams), s)
         sent == IF setup.srtp THEN Protected(plain, s, sender.roc) ELSE plain
         masked == {i \in 1 .. sent.total : sent.buffer[i].mask # {}}
     IN /\ wire' = [ there |-> TRUE, plain |-> plain, block |-> sent.buffer,
                     roc |-> sender.roc ]
        /\ senders' = [senders EXCEPT ![s] =
             [ seq |-> (sender.seq + 1) % SEQNUMMOD,
               roc |-> IF setup.srtp THEN RocAfter(sender.roc, sender.seq)
                                     ELSE 0 ]]
        /\ streams' = Append(streams,
             [ cells |-> sent.total - sent.hdrSize,
               bytes |-> UNION {sent.buffer[i].mask : i \in masked} ])
  /\ got' = NotYet
  /\ UNCHANGED <<setup, contexts>>

Lose == wire.there /\ wire' = Nothing /\ UNCHANGED <<setup, senders, contexts,
                                                     got, streams>>

(* unprotect: replay, tag, deciphering, in this order.  The tag is not     *)
(* part of the packet any more.                                            *)
Cut(p) ==
  LET length == getTagLength(setup.aalg, TagLength) IN
  [p EXCEPT !.total = @ - length, !.payloadSize = @ - length]

Unprotect(p, context) ==
  LET c == SeenFirst(context, getSeqNum(p))
      q == Cut(p)
      guess == GuessedRoc(c, getSeqNum(p))
      tag == SubSeq(p.buffer, q.total + 1, p.total)
      clear == srtpEncrypt(setup.ealg, q, Index(guess, getSeqNum(q)),
                           getSSRC(q), c.roc)
  IN UNION { IF passes /\ tag = srtpAuthenticate(setup.aalg, q, guess, TagLength)
               THEN { [ok |-> TRUE, packet |-> clear, context |-> u] :
                      u \in Updates(c, getSeqNum(q)) }
               ELSE { [ok |-> FALSE, packet |-> q, context |-> c] }
             : passes \in ReplayChecks(c, getSeqNum(p)) }

Unprotected(p, context) ==
  IF setup.srtp THEN Unprotect(p, context)
  ELSE {[ok |-> TRUE, packet |-> p, context |-> context]}

Receive ==
  /\ wire.there
  /\ LET padSet == padding(wire.block) = 1
         p == Incoming(IF padSet THEN PaddingCleared(wire.block) ELSE wire.block)
         s == getSSRC(p)
     IN IF ~isHeaderValid(p) THEN UNCHANGED <<contexts, got>>
        ELSE \E u \in Unprotected(p, contexts[s]) :
               \E q \in IF padSet /\ u.ok THEN reComputePayLength(u.packet)
                                          ELSE {u.packet} :
                 /\ contexts' = [contexts EXCEPT ![s] = u.context]
                 /\ got' = [ there |-> TRUE, ok |-> u.ok, packet |-> q,
                             of |-> wire, before |-> contexts[s],
                             after |-> u.context ]
  /\ wire' = Nothing
  /\ UNCHANGED <<setup, senders, streams>>

SecureNext == (\E s \in Sources : Send(s)) \/ Lose \/ Receive

SecureSpec == SecureInit /\ [][SecureNext]_secureVars

-----------------------------------------------------------------------------
Guess == GuessedRoc(SeenFirst(got.before, getSeqNum(got.packet)),
                    getSeqNum(got.packet))

(* Whether the receiver has the counter the packet was encrypted with: F8  *)
(* takes the counter of the context, which is old for the first packet     *)
(* behind a roll-over.                                                     *)
SameCounter ==
  \/ ~setup.srtp \/ setup.ealg \in {"TWOCM", "TWOF8"}
  \/ /\ Guess = got.of.roc
     /\ setup.ealg = "AESF8" => got.before.roc = got.of.roc

(* What an application reads of a packet is what was put into it, the tag  *)
(* tells the packets of another counter, and the abstraction of MediaPath, *)
(* by which a packet is accepted if the counter is guessed, is right.      *)
(* Without padding: a padded packet is authenticated without its padding   *)
(* bit and is dismissed (outqueue.cpp:430-460, incqueue.cpp:182-242,       *)
(* rtppkt.cpp:110-166, 192-352, CryptoContext.cxx:192-293).                *)
ArrivesAsSent ==
  LET sent == got.of.plain
      seq == getSeqNum(got.packet)
      tagged == setup.srtp /\ setup.aalg # "Null"
  IN got.there =>
       /\ tagged => [ok |-> got.ok, context |-> got.after] \in
            Unprotects(got.before, seq,
                       IF isPadded(sent) THEN NoRoc ELSE got.of.roc)
       /\ got.ok /\ ~isPadded(sent) /\ SameCounter =>
            /\ getPayload(got.packet) = getPayload(sent)
            /\ getCSRCs(got.packet) = getCSRCs(sent)
            /\ getHdrExt(got.packet) = getHdrExt(sent)
            /\ SubSeq(got.packet.buffer, KIND, SizeOfFixedHeader)
                 = SubSeq(sent.buffer, KIND, SizeOfFixedHeader)

(* No byte of a key stream is used for two cells, of whatever packets and  *)
(* sources, and no cell of a payload goes without (CryptoContext.cxx:      *)
(* 192-251, gcryptAesSrtp.cxx:90-160, 180-290).                            *)
KeystreamOnce ==
  setup.srtp /\ setup.ealg \in {"AESCM", "AESF8"} =>
    /\ \A i \in DOMAIN streams :
         Cardinality(streams[i].bytes) = streams[i].cells
    /\ \A i \in DOMAIN streams, j \in DOMAIN streams :
         i # j => streams[i].bytes \cap streams[j].bytes = {}

=============================================================================
