-------------------------- MODULE RtpServerTheorems --------------------------
(***************************************************************************)
(* The safety properties of RtpServer, for any number of destinations, any *)
(* payload size and counter widths, and any writer of the two pipes.       *)
(***************************************************************************)
EXTENDS RtpServer, PipesTheorems

(* A packet being sent was filled by a complete read.                      *)
FreshWhenSending ==
  rtp_pc = "send" => /\ readchars = PayloadSize
                     /\ packet.payload \in [1 .. PayloadSize -> Sample]

(* What every destination has got came out of the transcoder's pipe.       *)
ReceivedAudio ==
  \A d \in Destinations :
    \A i \in DOMAIN received[d].payload : received[d].payload[i] \in Sample

(* While the server runs, the destinations before next_dest have the packet*)
(* in the buffer, the others all have the one before it.                   *)
Lockstep ==
  rtp_pc # "done" =>
    /\ rtp_pc # "send" => next_dest = 1
    /\ rtp_pc = "send" => next_dest <= HowMany
    /\ \A d \in Destinations : d < next_dest => received[d] = packet
    /\ \A d \in Destinations :
         d >= next_dest => Stream!Follows(packet, received[d])
    /\ \A d, e \in Destinations :
         d >= next_dest /\ e >= next_dest => received[d] = received[e]

(* The header of the next packet has the widths of the wire.               *)
LEMMA NextHeaderType ==
  ASSUME NEW p \in Stream!Packets
  PROVE  NextHeader(p) \in Stream!Packets
<1>1. /\ p.seq_no \in Nat /\ p.timestamp \in Nat
      /\ SeqMod \in Nat \ {0} /\ TsMod \in Nat \ {0} /\ TsInc \in Nat
  BY RtpConstants DEF Stream!Packets
<1>2. /\ (p.seq_no + 1) % SeqMod \in 0 .. SeqMod - 1
      /\ (p.timestamp + TsInc) % TsMod \in 0 .. TsMod - 1
  BY <1>1
<1> QED
  BY <1>2 DEF NextHeader, Stream!Packets

-----------------------------------------------------------------------------
(* The variables of the server keep their types, and the counters their    *)
(* wire widths.                                                            *)
THEOREM TypeCorrect == Spec => []TypeOK
<1> USE RtpConstants DEF TypeOK
<1>1. Init => TypeOK
  <2> SUFFICES ASSUME Init PROVE TypeOK
    OBVIOUS
  <2>1. /\ rtp_server_control_pipe \in Seq({"E", "F", "O"})
        /\ rtp_server_pipe \in Seq(Sample)
    BY EmptySeq DEF Init
  <2>2. packet \in Stream!Packets
    <3>1. [i \in 1 .. PayloadSize |-> Garbage] \in Payloads
      BY DEF Payloads, Content
    <3>2. 0 \in 0 .. SeqMod - 1 /\ 0 \in 0 .. TsMod - 1
      OBVIOUS
    <3> QED
      BY <3>1, <3>2 DEF Init, ServerInit, Stream!Packets
  <2>3. received \in [Destinations -> Stream!Packets \cup {Stream!NoPacket}]
    BY DEF Init, ServerInit
  <2>4. /\ bytes_available \in Nat
        /\ readchars \in 0 .. PayloadSize
        /\ next_dest \in Nat \ {0}
    BY DEF Init, ServerInit
  <2>5. /\ rtp_pc = "select"
        /\ ctl_ready \in BOOLEAN
        /\ writer_done \in BOOLEAN
    BY DEF Init, ServerInit
  <2> QED
    BY <2>1, <2>2, <2>3, <2>4, <2>5
<1>2. TypeOK /\ [Next]_vars => TypeOK'
  <2> SUFFICES ASSUME TypeOK, [Next]_vars
               PROVE  TypeOK'
    OBVIOUS
  <2>1. CASE RtpSelect /\ UNCHANGED writer_done
    BY <2>1 DEF RtpSelect
  <2>2. CASE RtpIoctl /\ UNCHANGED writer_done
    BY <2>2, LenProperties DEF RtpIoctl
  <2>3. CASE RtpControl /\ UNCHANGED writer_done
    BY <2>3, HeadTailProperties DEF RtpControl
  <2>4. CASE RtpFlush /\ UNCHANGED writer_done
    BY <2>4, FlushReadProperties DEF RtpFlush, serverVars
  <2>5. CASE RtpFlushed /\ UNCHANGED writer_done
    BY <2>5 DEF RtpFlushed
  <2>6. CASE RtpNoAudio /\ UNCHANGED writer_done
    BY <2>6 DEF RtpNoAudio
  <2>7. CASE RtpReadAudio /\ UNCHANGED writer_done
    <3> DEFINE n == Least(PayloadSize, Len(rtp_server_pipe))
               payload1 == Take(rtp_server_pipe, n) \o Drop(packet.payload, n)
               filled == [packet EXCEPT !.payload = payload1]
    <3>1. Len(rtp_server_pipe) \in Nat
      BY LenProperties
    <3>2. n \in 0 .. Len(rtp_server_pipe) /\ n <= PayloadSize
      BY <3>1 DEF Least
    <3>3. packet.payload \in [1 .. PayloadSize -> Content]
      BY DEF Stream!Packets, Payloads
    <3>4. payload1 \in [1 .. PayloadSize -> Sample \cup Content]
      BY <3>2, <3>3, FilledPayload, RtpConstants
    <3>5. filled \in Stream!Packets
      BY <3>4 DEF Stream!Packets, Payloads, Content
    <3>6. NextHeader(filled) \in Stream!Packets
      BY <3>5, NextHeaderType
    <3>7. Drop(rtp_server_pipe, n) \in Seq(Sample)
      BY <3>2, DropProperties
    <3>8. /\ packet' \in {filled, NextHeader(filled)}
          /\ rtp_server_pipe' = Drop(rtp_server_pipe, n)
          /\ readchars' = n
          /\ rtp_pc' \in {"select", "send"}
      BY <2>7 DEF RtpReadAudio
    <3>9. UNCHANGED <<rtp_server_control_pipe, ctl_ready, bytes_available,
                      next_dest, received, writer_done>>
      BY <2>7 DEF RtpReadAudio
    <3>10. packet' \in Stream!Packets
      BY <3>5, <3>6, <3>8
    <3>11. n \in 0 .. PayloadSize
      BY <3>1, <3>2
    <3> QED
      BY <3>7, <3>8, <3>9, <3>10, <3>11
  <2>8. CASE RtpSend /\ UNCHANGED writer_done
    <3>1. NextHeader(packet) \in Stream!Packets
      BY NextHeaderType
    <3>2. packet' \in Stream!Packets
      BY <2>8, <3>1 DEF RtpSend
    <3>3. next_dest' \in Nat \ {0}
      BY <2>8 DEF RtpSend
    <3>4. received' \in
            [Destinations -> Stream!Packets \cup {Stream!NoPacket}]
      BY <2>8 DEF RtpSend
    <3> QED
      BY <2>8, <3>2, <3>3, <3>4 DEF RtpSend
  <2>9. CASE RtpSendFails /\ UNCHANGED writer_done
    BY <2>9 DEF RtpSendFails
  <2>10. CASE WriteSample
    BY <2>10, AppendProperties DEF WriteSample, serverVars
  <2>11. CASE WriteControl
    BY <2>11, AppendProperties DEF WriteControl, serverVars
  <2>12. CASE WriteExit
    <3>1. <<"E", "O">> \in Seq({"E", "F", "O"})
      OBVIOUS
    <3>2. rtp_server_control_pipe' \in Seq({"E", "F", "O"})
      BY <2>12, <3>1, ConcatProperties DEF WriteExit
    <3> QED
      BY <2>12, <3>2 DEF WriteExit, serverVars
  <2>13. CASE WriterDies
    BY <2>13 DEF WriterDies, serverVars
  <2>14. CASE UNCHANGED vars
    BY <2>14 DEF vars, serverVars
  <2> QED
    BY <2>1, <2>2, <2>3, <2>4, <2>5, <2>6, <2>7, <2>8, <2>9, <2>10, <2>11,
       <2>12, <2>13, <2>14 DEF Next, ServerNext, ServerStep, WriterNext
<1> QED
  BY <1>1, <1>2, PTL DEF Spec

(* The count FIONREAD returned is still covered when the payload is read.  *)
THEOREM CountNeverStale == Spec => []AvailableStays
<1>1. Init => AvailableStays
  BY DEF Init, ServerInit, AvailableStays
<1>2. TypeOK /\ AvailableStays /\ [Next]_vars => AvailableStays'
  <2> SUFFICES ASSUME TypeOK, AvailableStays, [Next]_vars
               PROVE  AvailableStays'
    OBVIOUS
  <2> USE DEF AvailableStays
  <2>1. /\ rtp_server_pipe \in Seq(Sample)
        /\ Len(rtp_server_pipe) \in Nat
        /\ bytes_available \in Nat
    BY LenProperties DEF TypeOK
  <2>2. CASE RtpSelect \/ RtpFlush \/ RtpFlushed \/ RtpSend \/ RtpSendFails
    BY <2>2 DEF RtpSelect, RtpFlush, RtpFlushed, RtpSend, RtpSendFails,
       serverVars
  <2>3. CASE RtpIoctl
    BY <2>1, <2>3 DEF RtpIoctl
  <2>4. CASE RtpControl \/ RtpNoAudio
    BY <2>4 DEF RtpControl, RtpNoAudio
  <2>5. CASE RtpReadAudio
    BY <2>5 DEF RtpReadAudio
  <2>6. CASE WriteSample
    <3>1. PICK s \in Sample : rtp_server_pipe' = Append(rtp_server_pipe, s)
      BY <2>6 DEF WriteSample
    <3>2. Len(rtp_server_pipe') = Len(rtp_server_pipe) + 1
      BY <2>1, <3>1, AppendProperties
    <3> QED
      BY <2>1, <2>6, <3>2 DEF WriteSample, serverVars
  <2>7. CASE WriteControl \/ WriteExit \/ WriterDies \/ UNCHANGED vars
    BY <2>7 DEF WriteControl, WriteExit, WriterDies, vars, serverVars
  <2> QED
    BY <2>2, <2>3, <2>4, <2>5, <2>6, <2>7
       DEF Next, ServerNext, ServerStep, WriterNext
<1> QED
  BY <1>1, <1>2, TypeCorrect, PTL DEF Spec

(* Every sample a destination gets came out of the transcoder's pipe, and  *)
(* no packet repeats samples of the one before it.                         *)
THEOREM FreshAudio == Spec => []OnlyFreshAudioSent
<1> DEFINE FreshInv == FreshWhenSending /\ ReceivedAudio
<1>1. Init => FreshInv
  BY DEF Init, ServerInit, FreshWhenSending, ReceivedAudio, Stream!NoPacket
<1>2. TypeOK /\ AvailableStays /\ FreshInv /\ [Next]_vars => FreshInv'
  <2> SUFFICES ASSUME TypeOK, AvailableStays, FreshInv, [Next]_vars
               PROVE  FreshInv'
    OBVIOUS
  <2>1. CASE \/ RtpSelect \/ RtpIoctl \/ RtpControl \/ RtpFlush
             \/ RtpFlushed \/ RtpNoAudio \/ RtpSendFails \/ WriterNext
             \/ UNCHANGED vars
    <3>1. /\ received' = received
          /\ packet' = packet
          /\ readchars' = readchars
          /\ rtp_pc' = "send" => rtp_pc = "send"
      BY <2>1 DEF RtpSelect, RtpIoctl, RtpControl, RtpFlush, RtpFlushed,
         RtpNoAudio, RtpSendFails, WriterNext, WriteSample, WriteControl,
         WriteExit, WriterDies, vars, serverVars
    <3> QED
      BY <3>1 DEF FreshWhenSending, ReceivedAudio, Destinations
  <2>2. CASE RtpReadAudio
    <3> DEFINE n == Least(PayloadSize, Len(rtp_server_pipe))
               payload1 == Take(rtp_server_pipe, n) \o Drop(packet.payload, n)
    <3>1. n = PayloadSize /\ n \in 0 .. Len(rtp_server_pipe)
      <4>1. /\ bytes_available >= PayloadSize
            /\ bytes_available <= Len(rtp_server_pipe)
        BY <2>2 DEF RtpReadAudio, EnoughAudio, AvailableStays
      <4>2. /\ bytes_available \in Nat /\ Len(rtp_server_pipe) \in Nat
            /\ PayloadSize \in Nat
        BY RtpConstants, LenProperties DEF TypeOK
      <4> QED
        BY <4>1, <4>2 DEF Least
    <3>2. packet.payload \in [1 .. PayloadSize -> Content]
      BY DEF TypeOK, Stream!Packets, Payloads
    <3>3. rtp_server_pipe \in Seq(Sample) /\ n <= PayloadSize
      BY <3>1, RtpConstants DEF TypeOK
    <3>4. payload1 \in [1 .. PayloadSize -> Sample]
      BY <3>1, <3>2, <3>3, FilledPayload, RtpConstants, RtpConstants
    <3>5. /\ readchars' = n
          /\ received' = received
          /\ rtp_pc' = "send" => packet' = [packet EXCEPT !.payload = payload1]
      BY <2>2 DEF RtpReadAudio
    <3>6. [packet EXCEPT !.payload = payload1].payload = payload1
      BY DEF TypeOK, Stream!Packets
    <3> QED
      BY <3>1, <3>4, <3>5, <3>6 DEF FreshWhenSending, ReceivedAudio, Destinations
  <2>3. CASE RtpSend
    <3>1. /\ readchars = PayloadSize
          /\ packet.payload \in [1 .. PayloadSize -> Sample]
      BY <2>3 DEF RtpSend, FreshWhenSending
    <3>2. FreshWhenSending'
      BY <2>3, <3>1 DEF RtpSend, FreshWhenSending
    <3>3. ASSUME NEW d \in Destinations
          PROVE  received'[d] \in {received[d], packet}
      BY <2>3 DEF RtpSend, TypeOK
    <3>4. ReceivedAudio'
      BY <3>1, <3>3 DEF ReceivedAudio, Destinations
    <3> QED
      BY <3>2, <3>4
  <2> QED
    BY <2>1, <2>2, <2>3 DEF Next, ServerNext, ServerStep
<1>3. FreshInv => OnlyFreshAudioSent
  BY DEF FreshWhenSending, ReceivedAudio, OnlyFreshAudioSent
<1> QED
  BY <1>1, <1>2, <1>3, TypeCorrect, CountNeverStale, PTL DEF Spec

-----------------------------------------------------------------------------
(* The destinations take each packet in turn, and get every packet.        *)
LEMMA LockstepInvariant == Spec => []Lockstep
<1>1. Init => Lockstep
  BY DEF Init, ServerInit, Lockstep, Stream!Follows, Destinations
<1>2. TypeOK /\ Lockstep /\ [Next]_vars => Lockstep'
  <2> SUFFICES ASSUME TypeOK, Lockstep, [Next]_vars
               PROVE  Lockstep'
    OBVIOUS
  <2>1. CASE RtpSelect \/ RtpIoctl \/ RtpFlushed \/ RtpControl \/ RtpFlush
             \/ RtpNoAudio \/ RtpSendFails \/ WriterNext \/ UNCHANGED vars
    <3>1. /\ received' = received
          /\ packet' = packet
          /\ next_dest' = next_dest
          /\ rtp_pc' # "done" => (rtp_pc' = "send" <=> rtp_pc = "send")
          /\ rtp_pc = "done" => rtp_pc' = "done"
      BY <2>1 DEF RtpSelect, RtpIoctl, RtpControl, RtpFlush, RtpFlushed,
         RtpNoAudio, RtpSendFails, WriterNext, WriteSample, WriteControl,
         WriteExit, WriterDies, vars, serverVars
    <3> QED
      BY <3>1 DEF Lockstep, Stream!Follows, Destinations
  <2>2. CASE RtpReadAudio
    <3>1. /\ received' = received
          /\ next_dest' = next_dest
          /\ next_dest = 1
          /\ rtp_pc # "done"
          /\ HowMany = 0 => rtp_pc' = "select"
          /\ HowMany # 0 => rtp_pc' = "send"
      BY <2>2 DEF RtpReadAudio, Lockstep
    <3>2. HowMany # 0 => /\ packet'.seq_no = packet.seq_no
                         /\ packet'.timestamp = packet.timestamp
      BY <2>2 DEF RtpReadAudio, TypeOK, Stream!Packets
    <3>3. CASE HowMany = 0
      BY <3>1, <3>3 DEF Lockstep, Destinations
    <3>4. CASE HowMany # 0
      <4>1. ASSUME NEW d \in Destinations
            PROVE  Stream!Follows(packet', received'[d])
        <5>1. Stream!Follows(packet, received[d])
          BY <3>1, <3>4 DEF Lockstep, Destinations
        <5> QED
          BY <3>1, <3>2, <3>4, <5>1 DEF Stream!Follows
      <4>2. HowMany >= 1
        BY <3>4, RtpConstants
      <4>3. \A d, e \in Destinations : received'[d] = received'[e]
        BY <3>1 DEF Lockstep, Destinations
      <4>4. \A d \in Destinations : ~(d < next_dest')
        BY <3>1 DEF Destinations
      <4> QED
        BY <3>1, <3>4, <4>1, <4>2, <4>3, <4>4 DEF Lockstep, Destinations
    <3> QED
      BY <3>3, <3>4
  <2>3. CASE RtpSend
    <3>1. /\ rtp_pc = "send"
          /\ next_dest \in Destinations
          /\ received' = [received EXCEPT ![next_dest] = packet]
      BY <2>3, RtpConstants DEF RtpSend, Lockstep, TypeOK, Destinations
    <3>2. ASSUME NEW d \in Destinations
          PROVE  received'[d] = IF d = next_dest THEN packet ELSE received[d]
      BY <3>1 DEF TypeOK
    <3>3. ASSUME NEW d \in Destinations, d <= next_dest
          PROVE  received'[d] = packet
      BY <3>1, <3>2, <3>3 DEF Lockstep, Destinations
    <3>4. CASE next_dest < HowMany
      <4>1. /\ rtp_pc' = rtp_pc /\ packet' = packet
            /\ next_dest' = next_dest + 1
        BY <2>3, <3>4 DEF RtpSend
      <4>2. ASSUME NEW d \in Destinations, d >= next_dest'
            PROVE  received'[d] = received[d] /\ d >= next_dest
        BY <3>1, <3>2, <4>1, <4>2 DEF Destinations
      <4>3. ASSUME NEW d \in Destinations, d < next_dest'
            PROVE  received'[d] = packet'
        BY <3>1, <3>3, <4>1, <4>3 DEF Destinations
      <4>4. ASSUME NEW d \in Destinations, d >= next_dest'
            PROVE  Stream!Follows(packet', received'[d])
        BY <3>1, <4>1, <4>2, <4>4 DEF Lockstep, Stream!Follows
      <4>5. ASSUME NEW d \in Destinations, NEW e \in Destinations,
                   d >= next_dest', e >= next_dest'
            PROVE  received'[d] = received'[e]
        BY <3>1, <4>2, <4>5 DEF Lockstep
      <4>6. next_dest' <= HowMany
        BY <3>1, <3>4, <4>1, RtpConstants DEF Destinations
      <4> QED
        BY <3>1, <4>1, <4>3, <4>4, <4>5, <4>6 DEF Lockstep, Destinations
    <3>5. CASE ~(next_dest < HowMany)
      <4>1. /\ rtp_pc' = "select" /\ packet' = NextHeader(packet)
            /\ next_dest' = 1
        BY <2>3, <3>5 DEF RtpSend
      <4>2. \A d \in Destinations : received'[d] = packet
        BY <3>1, <3>3, <3>5, RtpConstants DEF Destinations
      <4>3. packet \in Stream!Packets /\ packet # Stream!NoPacket
        BY DEF TypeOK, Stream!Packets, Stream!NoPacket
      <4>4. Stream!Follows(NextHeader(packet), packet)
        BY <4>3 DEF Stream!Follows, NextHeader, Stream!Packets
      <4> QED
        BY <4>1, <4>2, <4>4 DEF Lockstep, Destinations, Stream!Follows
    <3> QED
      BY <3>4, <3>5
  <2> QED
    BY <2>1, <2>2, <2>3 DEF Next, ServerNext, ServerStep
<1> QED
  BY <1>1, <1>2, TypeCorrect, PTL DEF Spec

(* The loop implements one stream without gaps, the same for everybody.    *)
THEOREM ServerImplementsStream == Spec => StreamRefined
<1>1. Init => Stream!Init
  BY DEF Init, ServerInit, Stream!Init, Stream!Destinations, Destinations
<1>2. TypeOK /\ Lockstep /\ [Next]_vars => [Stream!Next]_received
  <2> SUFFICES ASSUME TypeOK, Lockstep, [Next]_vars
               PROVE  Stream!Next \/ UNCHANGED received
    OBVIOUS
  <2>1. CASE \/ RtpSelect \/ RtpIoctl \/ RtpControl \/ RtpFlush
             \/ RtpFlushed \/ RtpNoAudio \/ RtpReadAudio \/ RtpSendFails
             \/ WriterNext \/ UNCHANGED vars
    BY <2>1 DEF RtpSelect, RtpIoctl, RtpControl, RtpFlush, RtpFlushed,
       RtpNoAudio, RtpReadAudio, RtpSendFails, WriterNext, WriteSample,
       WriteControl, WriteExit, WriterDies, vars, serverVars
  <2>2. CASE RtpSend
    <3>1. /\ rtp_pc = "send"
          /\ next_dest \in Destinations
          /\ received' = [received EXCEPT ![next_dest] = packet]
      BY <2>2, RtpConstants DEF RtpSend, Lockstep, TypeOK, Destinations
    <3>2. packet \in Stream!Packets
      BY DEF TypeOK
    <3>3. Stream!Follows(packet, received[next_dest])
      BY <3>1 DEF Lockstep, Destinations
    <3>4. ASSUME NEW e \in Destinations
          PROVE  received[e] \in {received[next_dest], packet}
      BY <3>1 DEF Lockstep, Destinations
    <3>5. Stream!Deliver(next_dest)
      BY <3>1, <3>2, <3>3, <3>4
         DEF Stream!Deliver, Stream!Destinations, Destinations
    <3> QED
      BY <3>1, <3>5 DEF Stream!Next, Stream!Destinations, Destinations
  <2> QED
    BY <2>1, <2>2 DEF Next, ServerNext, ServerStep
<1> QED
  BY <1>1, <1>2, TypeCorrect, LockstepInvariant, PTL
     DEF Spec, StreamRefined, Stream!Spec

=============================================================================
