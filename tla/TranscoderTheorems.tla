------------------------- MODULE TranscoderTheorems -------------------------
(***************************************************************************)
(* The safety properties of Transcoder, for any sizes of frames and        *)
(* samples from call to call, any buffers and pipes, any number of sessions*)
(* and any failing of the library.                                         *)
(***************************************************************************)
EXTENDS Transcoder, PipesTheorems

(* A decoded frame is PCM of one session.                                  *)
LEMMA CopiesProperties ==
  ASSUME NEW S, NEW unit \in S, NEW n \in Nat
  PROVE  /\ Copies(unit, n) \in Seq(S)
         /\ Len(Copies(unit, n)) = n
         /\ \A i \in 1 .. n : Copies(unit, n)[i] = unit
<1>1. Copies(unit, n) \in [1 .. n -> S]
  BY DEF Copies
<1>2. Copies(unit, n) \in Seq(S)
  BY <1>1, SeqDef
<1> QED
  BY <1>1, <1>2, LenProperties DEF Copies


(* Every step of the transcoder and of its closure keeps the types and the *)
(* capacities.                                                             *)
LEMMA TypeStep == TypeOK /\ [Next]_vars => TypeOK'
<1> SUFFICES ASSUME TypeOK, [Next]_vars PROVE TypeOK'
  OBVIOUS
<1> USE TranscoderConstants DEF TypeOK, inputs, outputs, envVars
<1>1. CASE TcSelect /\ UNCHANGED envVars
  BY <1>1 DEF TcSelect
<1>2. CASE TcControl /\ UNCHANGED envVars
  BY <1>2, EmptySeq DEF TcControl
<1>3. CASE TcFlush /\ UNCHANGED envVars
  <2>1. /\ transcoder_pipe' \in Seq(Sessions)
        /\ Len(transcoder_pipe') <= Len(transcoder_pipe)
    BY <1>3, FlushReadProperties DEF TcFlush
  <2>2. Len(transcoder_pipe') <= McPipeCap
    BY <2>1, LenProperties
  <2> QED
    BY <1>3, <2>1, <2>2 DEF TcFlush, tcVars
<1>4. CASE TcFlushed /\ UNCHANGED envVars
  BY <1>4 DEF TcFlushed
<1>5. CASE TcFreeContext /\ UNCHANGED envVars
  BY <1>5 DEF TcFreeContext
<1>6. CASE TcTellRtp /\ UNCHANGED envVars
  <2>1. rtp_server_control_pipe' \in Seq({"F", "E", "O"})
    BY <1>6, WriteOne DEF TcTellRtp
  <2> QED
    BY <1>6, <2>1 DEF TcTellRtp
<1>7. CASE TcAck /\ UNCHANGED envVars
  <2>1. mp3_fetcher_control_pipe' \in Seq({"1"})
    BY <1>7, WriteOne DEF TcAck
  <2> QED
    BY <1>7, <2>1 DEF TcAck
<1>8. CASE TcData /\ UNCHANGED envVars
  <2>1. <<>> \in Seq(Sessions) /\ Len(<<>>) = 0
    BY EmptySeq
  <2>2. avio' \in Seq(Sessions) /\ Len(avio') <= AvioSize
    <3>1. CASE avio' = avio
      BY <3>1
    <3>2. CASE avio' = <<>>
      <4>1. Len(avio') = 0
        BY <2>1, <3>2
      <4> QED
        BY <2>1, <3>2, <4>1
    <3> QED
      BY <1>8, <3>1, <3>2 DEF TcData
  <2>3. /\ tc_pc' \in {"frame", "probe"}
        /\ UNCHANGED <<inputs, outputs, data_ready, initialized, context, pcm,
                       bytes_to_read>>
    BY <1>8 DEF TcData
  <2>4. UNCHANGED <<session, asked, quitting>>
    BY <1>8
  <2> QED
    BY <2>2, <2>3, <2>4
<1>9. CASE TcLibraryRead /\ UNCHANGED envVars
  <2> DEFINE n == Least(AvioSize - Len(avio), Len(transcoder_pipe))
  <2>1. Len(avio) \in Nat /\ Len(transcoder_pipe) \in Nat
    BY LenProperties
  <2>2. n \in 0 .. Len(transcoder_pipe) /\ n <= AvioSize - Len(avio)
    BY <2>1 DEF Least
  <2>3. /\ avio' = avio \o Take(transcoder_pipe, n)
        /\ transcoder_pipe' = Drop(transcoder_pipe, n)
    BY <1>9 DEF TcLibraryRead
  <2> HIDE DEF n
  <2>4. /\ Take(transcoder_pipe, n) \in Seq(Sessions)
        /\ Len(Take(transcoder_pipe, n)) = n
    BY <2>2, TakeProperties
  <2>5. /\ transcoder_pipe' \in Seq(Sessions)
        /\ Len(transcoder_pipe') = Len(transcoder_pipe) - n
    BY <2>2, <2>3, DropProperties
  <2>6. avio' \in Seq(Sessions) /\ Len(avio') = Len(avio) + n
    BY <2>3, <2>4, ConcatProperties
  <2>7. Len(avio') <= AvioSize /\ Len(transcoder_pipe') <= McPipeCap
    BY <2>1, <2>2, <2>5, <2>6
  <2> QED
    BY <1>9, <2>5, <2>6, <2>7 DEF TcLibraryRead
<1>10. CASE TcInitContext /\ UNCHANGED envVars
  BY <1>10 DEF TcInitContext
<1>11. CASE TcInitContextFails /\ UNCHANGED envVars
  BY <1>11 DEF TcInitContextFails
<1>12. CASE TcDecode /\ UNCHANGED envVars
  <2>1. FrameChunks \in 0 .. Len(avio) /\ avio # <<>>
    BY <1>12, LenProperties, EmptySeq DEF TcDecode
  <2>2. /\ avio' \in Seq(Sessions)
        /\ Len(avio') = Len(avio) - FrameChunks
    BY <1>12, <2>1, DropProperties DEF TcDecode
  <2>3. Len(avio') <= AvioSize
    BY <2>2, LenProperties
  <2>4. PICK n \in MinPcmPerFrame .. MaxPcmPerFrame :
          pcm' = pcm \o Copies(Head(avio), n)
    BY <1>12 DEF TcDecode
  <2>5. Copies(Head(avio), n) \in Seq(Sessions)
    <3>1. n \in Nat
      OBVIOUS
    <3>2. Head(avio) \in Sessions
      BY <2>1, HeadTailProperties
    <3> QED
      BY <3>1, <3>2, CopiesProperties
  <2>6. pcm' \in Seq(Sessions)
    BY <2>4, <2>5, ConcatProperties
  <2>7. bytes_to_read' \in MinPcmPerSample .. MaxPcmPerSample
    BY <1>12 DEF TcDecode
  <2> QED
    BY <1>12, <2>2, <2>3, <2>6, <2>7 DEF TcDecode
<1>13. CASE TcDecodeFails /\ UNCHANGED envVars
  <2>1. FrameChunks \in 0 .. Len(avio)
    BY <1>13, LenProperties DEF TcDecodeFails
  <2>2. /\ avio' \in Seq(Sessions)
        /\ Len(avio') = Len(avio) - FrameChunks
    BY <1>13, <2>1, DropProperties DEF TcDecodeFails
  <2>3. Len(avio') <= AvioSize
    BY <2>2, LenProperties
  <2> QED
    BY <1>13, <2>2, <2>3 DEF TcDecodeFails
<1>14. CASE TcReadFrameFails /\ UNCHANGED envVars
  BY <1>14 DEF TcReadFrameFails
<1>15. CASE TcEncode /\ UNCHANGED envVars
  <2>1. bytes_to_read \in 0 .. Len(pcm) /\ pcm # <<>>
    BY <1>15, LenProperties, EmptySeq DEF TcEncode, EnoughPcm
  <2>2. pcm' \in Seq(Sessions)
    BY <1>15, <2>1, DropProperties DEF TcEncode
  <2>3. Head(pcm) \in Sessions
    BY <2>1, HeadTailProperties
  <2>4. /\ rtp_server_pipe' \in Seq(Sessions)
        /\ Len(rtp_server_pipe') = Len(rtp_server_pipe) + 1
    BY <1>15, <2>3, WriteOne DEF TcEncode
  <2>5. Len(rtp_server_pipe') <= RtpPipeCap
    BY <1>15, <2>4, LenProperties DEF TcEncode
  <2> QED
    BY <1>15, <2>2, <2>4, <2>5 DEF TcEncode
<1>16. CASE TcEncoded /\ UNCHANGED envVars
  BY <1>16 DEF TcEncoded
<1>17. CASE TcSayExit /\ UNCHANGED envVars
  <2>1. rtp_server_control_pipe' \in Seq({"F", "E", "O"})
    BY <1>17, AppendExit DEF TcSayExit
  <2> QED
    BY <1>17, <2>1 DEF TcSayExit
<1>18. CASE Ask
  <2>1. transcoder_control_pipe' \in Seq({"R", "F", "E", "O"})
    BY <1>18, WriteOne DEF Ask
  <2> QED
    BY <1>18, <2>1 DEF Ask, tcVars
<1>19. CASE Answered
  BY <1>19, HeadTailProperties DEF Answered, tcVars
<1>20. CASE Feed
  <2>1. session \in Sessions
    BY <1>20 DEF Feed, Sessions
  <2>2. /\ transcoder_pipe' \in Seq(Sessions)
        /\ Len(transcoder_pipe') = Len(transcoder_pipe) + 1
    BY <1>20, <2>1, WriteOne DEF Feed
  <2>3. Len(transcoder_pipe') <= McPipeCap
    BY <1>20, <2>2, LenProperties DEF Feed
  <2> QED
    BY <1>20, <2>2, <2>3 DEF Feed, tcVars
<1>21. CASE Command
  <2>1. transcoder_control_pipe' \in Seq({"R", "F", "E", "O"})
    BY <1>21, WriteOne DEF Command
  <2> QED
    BY <1>21, <2>1 DEF Command, tcVars
<1>22. CASE Quit
  <2>1. transcoder_control_pipe' \in Seq({"R", "F", "E", "O"})
    BY <1>22, AppendExit DEF Quit
  <2> QED
    BY <1>22, <2>1 DEF Quit, tcVars
<1>23. CASE RtpTakesCommand
  BY <1>23, HeadTailProperties DEF RtpTakesCommand, tcVars
<1>24. CASE RtpTakesSamples
  <2>1. PICK n \in 1 .. Len(rtp_server_pipe) :
          rtp_server_pipe' = Drop(rtp_server_pipe, n)
    BY <1>24 DEF RtpTakesSamples
  <2>2. n \in 0 .. Len(rtp_server_pipe) /\ Len(rtp_server_pipe) \in Nat
    BY LenProperties
  <2>3. /\ rtp_server_pipe' \in Seq(Sessions)
        /\ Len(rtp_server_pipe') = Len(rtp_server_pipe) - n
    BY <2>1, <2>2, DropProperties
  <2>4. Len(rtp_server_pipe') <= RtpPipeCap
    BY <2>2, <2>3
  <2> QED
    BY <1>24, <2>3, <2>4 DEF RtpTakesSamples, tcVars
<1>25. CASE UNCHANGED vars
  BY <1>25 DEF vars, tcVars
<1> QED
  BY <1>1, <1>2, <1>3, <1>4, <1>5, <1>6, <1>7, <1>8, <1>9, <1>10, <1>11,
     <1>12, <1>13, <1>14, <1>15, <1>16, <1>17, <1>18, <1>19, <1>20, <1>21,
     <1>22, <1>23, <1>24, <1>25
  DEF Next, TranscoderNext, TranscoderStep, Environment, FetcherNext, RtpNext

(* The variables of the transcoder keep their types, and no pipe or buffer *)
(* holds more than its capacity.                                           *)
THEOREM TypeCorrect == Spec => []TypeOK
<1>1. Init => TypeOK
  <2> SUFFICES ASSUME Init PROVE TypeOK
    OBVIOUS
  <2>1. /\ transcoder_control_pipe \in Seq({"R", "F", "E", "O"})
        /\ transcoder_pipe \in Seq(Sessions) /\ Len(transcoder_pipe) = 0
        /\ mp3_fetcher_control_pipe \in Seq({"1"})
        /\ rtp_server_control_pipe \in Seq({"F", "E", "O"})
        /\ rtp_server_pipe \in Seq(Sessions) /\ Len(rtp_server_pipe) = 0
        /\ avio \in Seq(Sessions) /\ Len(avio) = 0
        /\ pcm \in Seq(Sessions)
    BY EmptySeq DEF Init, TranscoderInit
  <2>2. McPipeCap >= 0 /\ RtpPipeCap >= 0 /\ AvioSize >= 0
        /\ session \in 0 .. MaxSessions
        /\ bytes_to_read \in 0 .. MaxPcmPerSample
    BY TranscoderConstants DEF Init, TranscoderInit
  <2> QED
    BY <2>1, <2>2, TranscoderConstants DEF TypeOK, Init, TranscoderInit
<1> QED
  BY <1>1, TypeStep, PTL DEF Spec

-----------------------------------------------------------------------------
(* A re-init is under way from the command to the answer.                  *)
ReInit == tc_pc \in {"flushR", "free", "tellR", "ack"}

(* The "R", the re-init and the byte 1 exclude each other; while one of    *)
(* them is there the fetcher waits and sends nothing, so that what has been*)
(* emptied stays empty.                                                    *)
Handshake ==
  /\ tc_pc = "control" => transcoder_control_pipe # <<>>
  /\ "R" \in Units(transcoder_control_pipe) =>
       asked /\ ~ReInit /\ mp3_fetcher_control_pipe = <<>>
  /\ ReInit => asked /\ mp3_fetcher_control_pipe = <<>>
  /\ ReInit \/ mp3_fetcher_control_pipe # <<>> =>
       transcoder_control_pipe = <<>>
  /\ tc_pc \in {"free", "tellR", "ack"} \/ mp3_fetcher_control_pipe # <<>> =>
       transcoder_pipe = <<>>
  /\ mp3_fetcher_control_pipe # <<>> =>
       asked /\ tc_pc = "select" /\ ~initialized
  /\ Len(mp3_fetcher_control_pipe) <= 1

(* The contexts are live as long as initialized says so, except from the   *)
(* time they are freed to the answer or the end.                           *)
LiveContext ==
  /\ initialized /\ tc_pc \notin {"tellR", "ack", "sayE", "done", "dead"} =>
       context = "live"
  /\ tc_pc \in {"frame", "encode"} => initialized

(* While the fetcher may send, the input and the buffer of the library have*)
(* nothing of an earlier session.                                          *)
Fresh ==
  ~asked =>
    /\ Units(transcoder_pipe) \subseteq {session}
    /\ initialized \/ tc_pc = "probe" => Units(avio) \subseteq {session}

(* Between two frames, p has less than the sample of the last call of      *)
(* encode; while the fetcher may send, this is also all that is left of an *)
(* earlier session.                                                        *)
Residue ==
  /\ tc_pc # "encode" => Len(pcm) < MaxPcmPerSample
  /\ Len(pcm) < MaxPcmPerFrame + MaxPcmPerSample
  /\ ~asked => \A i \in DOMAIN pcm : i >= MaxPcmPerSample => pcm[i] = session

(* Every step keeps the handshake: the commands are all taken with the     *)
(* "R", the flush ends with an empty pipe, and the answer comes last.      *)
LEMMA HandshakeStep == TypeOK /\ Handshake /\ [Next]_vars => Handshake'
<1> SUFFICES ASSUME TypeOK, Handshake, [Next]_vars PROVE Handshake'
  OBVIOUS
<1> DEFINE commands == transcoder_control_pipe
           answers == mp3_fetcher_control_pipe
<1> USE DEF Handshake, ReInit
<1>1. /\ commands \in Seq({"R", "F", "E", "O"})
      /\ answers \in Seq({"1"})
  BY DEF TypeOK
<1>2. CASE TcSelect /\ UNCHANGED envVars
  BY <1>2 DEF TcSelect, inputs, outputs, envVars
<1>3. CASE TcControl /\ UNCHANGED envVars
  <2>1. "R" \notin Units(commands')
    BY <1>3, UnitsEmpty DEF TcControl
  <2>2. answers = <<>>
    BY <1>3 DEF TcControl
  <2>3. tc_pc' = "flushR" => asked
    BY <1>1, <1>3, UnitsHead DEF TcControl
  <2>4. tc_pc' \in {"exit", "flushR", "flushF", "data", "select"}
    BY <1>3 DEF TcControl
  <2>5. commands' = <<>> /\ UNCHANGED <<answers, asked, initialized>>
    BY <1>3 DEF TcControl, outputs, envVars
  <2> QED
    BY <2>1, <2>2, <2>3, <2>4, <2>5
<1>4. CASE TcFlush /\ UNCHANGED envVars
  BY <1>4 DEF TcFlush, tcVars, outputs, envVars
<1>5. CASE TcFlushed /\ UNCHANGED envVars
  BY <1>5 DEF TcFlushed, inputs, outputs, envVars
<1>6. CASE TcFreeContext /\ UNCHANGED envVars
  BY <1>6 DEF TcFreeContext, inputs, outputs, envVars
<1>7. CASE TcTellRtp /\ UNCHANGED envVars
  BY <1>7 DEF TcTellRtp, inputs, envVars
<1>8. CASE TcAck /\ UNCHANGED envVars
  <2>1. answers = <<>> /\ commands = <<>> /\ transcoder_pipe = <<>> /\ asked
    BY <1>8 DEF TcAck
  <2>2. Len(answers') = 1
    BY <1>8, <2>1, EmptySeq, WriteOne DEF TcAck
  <2>3. "R" \notin Units(commands)
    BY <2>1, UnitsEmpty
  <2> QED
    BY <1>8, <2>1, <2>2, <2>3 DEF TcAck, inputs, envVars
<1>9. CASE TcSayExit /\ UNCHANGED envVars
  BY <1>9 DEF TcSayExit, inputs, envVars
<1>10. CASE /\ \/ TcData \/ TcLibraryRead \/ TcInitContext
               \/ TcInitContextFails \/ TcDecode \/ TcDecodeFails
               \/ TcReadFrameFails \/ TcEncode \/ TcEncoded
            /\ UNCHANGED envVars
  <2>1. /\ tc_pc \in {"data", "probe", "frame", "encode"}
        /\ tc_pc' \in {"frame", "probe", "dead", "encode", "select", "exit"}
        /\ UNCHANGED <<commands, answers, asked>>
    BY <1>10
    DEF TcData, TcLibraryRead, TcInitContext, TcInitContextFails, TcDecode,
        TcDecodeFails, TcReadFrameFails, TcEncode, TcEncoded, inputs,
        outputs, envVars
  <2> QED
    BY <2>1
<1>11. CASE Ask
  <2>1. commands' # <<>>
    BY <1>1, <1>11, WriteOne DEF Ask
  <2>2. ~asked
    BY <1>11 DEF Ask
  <2> QED
    BY <1>11, <2>1, <2>2 DEF Ask, tcVars, outputs
<1>12. CASE Answered
  <2>1. answers' \in Seq({"1"}) /\ Len(answers') = Len(answers) - 1
    BY <1>1, <1>12, HeadTailProperties DEF Answered
  <2>2. Len(answers') = 0
    BY <1>1, <1>12, <2>1, LenProperties DEF Answered
  <2>3. answers' = <<>>
    BY <2>1, <2>2, EmptySeq
  <2>4. "R" \notin Units(commands)
    BY <1>12, UnitsEmpty DEF Answered
  <2> QED
    BY <1>12, <2>2, <2>3, <2>4 DEF Answered, tcVars, inputs
<1>13. CASE Feed
  BY <1>13 DEF Feed, tcVars, envVars, outputs
<1>14. CASE Command
  <2>1. PICK c \in {"F", "O"} : commands' = Append(commands, c)
    BY <1>14 DEF Command
  <2>2. commands' # <<>> /\ Units(commands') = Units(commands) \cup {c}
    BY <1>1, <2>1, WriteOne
  <2>3. "R" \notin Units(commands')
    BY <1>14, <2>2 DEF Command
  <2> QED
    BY <1>14, <2>2, <2>3 DEF Command, tcVars, envVars, outputs
<1>15. CASE Quit
  <2>1. /\ commands' # <<>>
        /\ Units(commands') = Units(commands) \cup {"E", "O"}
    BY <1>1, <1>15, AppendExit DEF Quit
  <2>2. "R" \notin Units(commands')
    BY <1>15, <2>1 DEF Quit
  <2> QED
    BY <1>15, <2>1, <2>2 DEF Quit, tcVars, outputs
<1>16. CASE RtpTakesCommand \/ RtpTakesSamples \/ UNCHANGED vars
  BY <1>16
  DEF RtpTakesCommand, RtpTakesSamples, vars, tcVars, envVars, inputs, outputs
<1> QED
  BY <1>2, <1>3, <1>4, <1>5, <1>6, <1>7, <1>8, <1>9, <1>10, <1>11, <1>12,
     <1>13, <1>14, <1>15, <1>16
  DEF Next, TranscoderNext, TranscoderStep, Environment, FetcherNext, RtpNext

(* Every step keeps the contexts live while they may be used.              *)
LEMMA LiveContextStep == TypeOK /\ LiveContext /\ [Next]_vars => LiveContext'
<1> SUFFICES ASSUME TypeOK, LiveContext, [Next]_vars PROVE LiveContext'
  OBVIOUS
<1>1. CASE TranscoderNext
  BY <1>1
  DEF LiveContext, TypeOK, TranscoderNext, TranscoderStep, TcSelect,
      TcControl, TcFlush, TcFlushed, TcFreeContext, TcTellRtp, TcAck, TcData,
      TcLibraryRead, TcInitContext, TcInitContextFails, TcDecode,
      TcDecodeFails, TcReadFrameFails, TcEncode, TcEncoded, TcSayExit, tcVars
<1>2. CASE Environment \/ UNCHANGED vars
  BY <1>2
  DEF LiveContext, Environment, FetcherNext, RtpNext, Ask, Answered, Feed,
      Command, Quit, RtpTakesCommand, RtpTakesSamples, tcVars, vars
<1> QED
  BY <1>1, <1>2 DEF Next

(* Every step keeps the input fresh: what the flush does not take is in the*)
(* buffer of an input that is opened anew.                                 *)
LEMMA FreshStep ==
  TypeOK /\ Handshake /\ LiveContext /\ Fresh /\ [Next]_vars => Fresh'
<1> SUFFICES ASSUME TypeOK, Handshake, LiveContext, Fresh, [Next]_vars
             PROVE  Fresh'
  OBVIOUS
<1> USE DEF Fresh
<1>1. /\ transcoder_pipe \in Seq(Sessions)
      /\ avio \in Seq(Sessions)
      /\ Len(transcoder_pipe) \in Nat /\ Len(avio) \in Nat
  BY LenProperties DEF TypeOK
<1>2. CASE TcFlush /\ UNCHANGED envVars
  <2>1. Units(transcoder_pipe') \subseteq Units(transcoder_pipe)
    BY <1>1, <1>2, FlushUnits, TranscoderConstants DEF TcFlush
  <2> QED
    BY <1>2, <2>1 DEF TcFlush, tcVars, envVars
<1>3. CASE TcAck /\ UNCHANGED envVars
  BY <1>3 DEF TcAck, Handshake, ReInit, envVars
<1>4. CASE TcData /\ UNCHANGED envVars
  <2>1. CASE initialized
    BY <1>4, <2>1 DEF TcData, inputs, envVars
  <2>2. CASE ~initialized
    BY <1>4, <2>2, UnitsEmpty DEF TcData, inputs, envVars
  <2> QED
    BY <2>1, <2>2
<1>5. CASE TcLibraryRead /\ UNCHANGED envVars
  <2> DEFINE n == Least(AvioSize - Len(avio), Len(transcoder_pipe))
  <2>1. initialized \/ tc_pc = "probe"
    BY <1>5 DEF TcLibraryRead, LiveContext
  <2>2. Len(avio) <= AvioSize
    BY DEF TypeOK
  <2>3. n \in 0 .. Len(transcoder_pipe)
    BY <1>1, <2>2, TranscoderConstants DEF Least
  <2>4. /\ avio' = avio \o Take(transcoder_pipe, n)
        /\ transcoder_pipe' = Drop(transcoder_pipe, n)
    BY <1>5 DEF TcLibraryRead
  <2> HIDE DEF n
  <2>5. /\ Take(transcoder_pipe, n) \in Seq(Sessions)
        /\ Units(Take(transcoder_pipe, n)) \subseteq Units(transcoder_pipe)
        /\ Units(transcoder_pipe') \subseteq Units(transcoder_pipe)
    BY <1>1, <2>3, <2>4, TakeProperties, ReadUnits
  <2>6. Units(avio') = Units(avio) \cup Units(Take(transcoder_pipe, n))
    BY <1>1, <2>4, <2>5, WriteMany
  <2> QED
    BY <1>5, <2>1, <2>5, <2>6 DEF TcLibraryRead, envVars
<1>6. CASE (TcDecode \/ TcDecodeFails) /\ UNCHANGED envVars
  <2>1. FrameChunks \in 0 .. Len(avio) /\ avio' = Drop(avio, FrameChunks)
    BY <1>1, <1>6, TranscoderConstants DEF TcDecode, TcDecodeFails
  <2>2. Units(avio') \subseteq Units(avio)
    BY <1>1, <2>1, ReadUnits
  <2>3. /\ tc_pc' # "probe"
        /\ UNCHANGED <<transcoder_pipe, initialized, session, asked>>
    BY <1>6 DEF TcDecode, TcDecodeFails, inputs, envVars
  <2> QED
    BY <2>2, <2>3
<1>7. CASE /\ \/ TcSelect \/ TcControl \/ TcFlushed \/ TcFreeContext
              \/ TcTellRtp \/ TcInitContext \/ TcInitContextFails
              \/ TcReadFrameFails \/ TcEncode \/ TcEncoded \/ TcSayExit
           /\ UNCHANGED envVars
  <2>1. /\ initialized' \/ tc_pc' = "probe" => initialized \/ tc_pc = "probe"
        /\ UNCHANGED <<transcoder_pipe, avio, session, asked>>
    BY <1>7
    DEF TcSelect, TcControl, TcFlushed, TcFreeContext, TcTellRtp,
        TcInitContext, TcInitContextFails, TcReadFrameFails, TcEncode,
        TcEncoded, TcSayExit, inputs, envVars
  <2> QED
    BY <2>1
<1>8. CASE Ask
  BY <1>8 DEF Ask
<1>9. CASE Answered
  <2>1. transcoder_pipe = <<>> /\ tc_pc = "select" /\ ~initialized
    BY <1>9 DEF Answered, Handshake
  <2> QED
    BY <1>9, <2>1, UnitsEmpty DEF Answered, tcVars, inputs
<1>10. CASE Feed
  <2>1. session \in Sessions
    BY <1>10 DEF Feed, Sessions, TypeOK
  <2>2. Units(transcoder_pipe') = Units(transcoder_pipe) \cup {session}
    BY <1>1, <1>10, <2>1, WriteOne DEF Feed
  <2> QED
    BY <1>10, <2>2 DEF Feed, tcVars, envVars
<1>11. CASE \/ Command \/ Quit \/ RtpTakesCommand \/ RtpTakesSamples
            \/ UNCHANGED vars
  BY <1>11
  DEF Command, Quit, RtpTakesCommand, RtpTakesSamples, vars, tcVars,
      envVars, inputs
<1> QED
  BY <1>2, <1>3, <1>4, <1>5, <1>6, <1>7, <1>8, <1>9, <1>10, <1>11
  DEF Next, TranscoderNext, TranscoderStep, Environment, FetcherNext, RtpNext

(* Every step keeps the residue below a sample: encode leaves less, and    *)
(* a frame is put behind it only while the input is fresh.                 *)
LEMMA ResidueStep ==
  TypeOK /\ Handshake /\ LiveContext /\ Fresh /\ Residue /\ [Next]_vars
    => Residue'
<1> SUFFICES ASSUME TypeOK, Handshake, LiveContext, Fresh, Residue, [Next]_vars
             PROVE  Residue'
  OBVIOUS
<1> USE TranscoderConstants DEF Residue
<1>1. /\ pcm \in Seq(Sessions) /\ Len(pcm) \in Nat
      /\ DOMAIN pcm = 1 .. Len(pcm)
  BY LenProperties DEF TypeOK
<1>2. CASE TcDecode /\ UNCHANGED envVars
  <2>0. PICK n \in Nat : /\ n <= MaxPcmPerFrame
                         /\ pcm' = pcm \o Copies(Head(avio), n)
    <3>1. PICK n \in MinPcmPerFrame .. MaxPcmPerFrame :
            pcm' = pcm \o Copies(Head(avio), n)
      BY <1>2 DEF TcDecode
    <3> QED
      BY <3>1
  <2> DEFINE decoded == Copies(Head(avio), n)
  <2>1. avio \in Seq(Sessions) /\ avio # <<>>
    BY <1>2, LenProperties, EmptySeq DEF TcDecode, TypeOK
  <2>2. Head(avio) \in Sessions /\ Head(avio) \in Units(avio)
    BY <2>1, HeadTailProperties, UnitsHead
  <2>3. /\ decoded \in Seq(Sessions) /\ Len(decoded) = n
        /\ \A i \in 1 .. n : decoded[i] = Head(avio)
    BY <2>2, CopiesProperties
  <2>4. pcm' = pcm \o decoded
    BY <2>0
  <2> HIDE DEF decoded
  <2>5. /\ DOMAIN pcm' = 1 .. Len(pcm) + Len(decoded)
        /\ Len(pcm') = Len(pcm) + Len(decoded)
        /\ \A i \in 1 .. Len(decoded) : pcm'[Len(pcm) + i] = decoded[i]
    <3>1. pcm \in Seq(Sessions) /\ decoded \in Seq(Sessions)
      BY <1>1, <2>3
    <3>2. /\ DOMAIN (pcm \o decoded) = 1 .. Len(pcm) + Len(decoded)
          /\ Len(pcm \o decoded) = Len(pcm) + Len(decoded)
          /\ \A i \in 1 .. Len(decoded) :
               (pcm \o decoded)[Len(pcm) + i] = decoded[i]
      BY <3>1, WriteMany
    <3> QED
      BY <2>4, <3>2
  <2>6. Len(pcm) < MaxPcmPerSample
    BY <1>2 DEF TcDecode
  <2>7. ASSUME ~asked, NEW i \in DOMAIN pcm', i >= MaxPcmPerSample
        PROVE  pcm'[i] = session
    <3>1. i - Len(pcm) \in 1 .. n
      BY <1>1, <2>0, <2>3, <2>5, <2>6, <2>7
    <3>2. pcm'[Len(pcm) + (i - Len(pcm))] = Head(avio)
      BY <2>3, <2>5, <3>1
    <3>3. Len(pcm) + (i - Len(pcm)) = i
      BY <1>1, <2>0, <2>3, <2>5
    <3>4. Head(avio) = session
      BY <1>2, <2>2, <2>7 DEF TcDecode, Fresh, LiveContext
    <3> QED
      BY <3>2, <3>3, <3>4
  <2>8. Len(pcm') < MaxPcmPerFrame + MaxPcmPerSample
    BY <1>1, <2>0, <2>3, <2>5, <2>6
  <2>9. tc_pc' = "encode" /\ session' = session /\ asked' = asked
    BY <1>2 DEF TcDecode, envVars
  <2> QED
    BY <2>7, <2>8, <2>9
<1>3. CASE TcEncode /\ UNCHANGED envVars
  <2>1. bytes_to_read \in 0 .. Len(pcm) /\ pcm' = Drop(pcm, bytes_to_read)
    BY <1>1, <1>3 DEF TcEncode, EnoughPcm, TypeOK
  <2>2. /\ pcm' \in Seq(Sessions)
        /\ Len(pcm') = Len(pcm) - bytes_to_read
        /\ \A i \in 1 .. Len(pcm) - bytes_to_read :
             pcm'[i] = pcm[bytes_to_read + i]
    BY <1>1, <2>1, DropProperties
  <2>3. DOMAIN pcm' = 1 .. Len(pcm) - bytes_to_read
    BY <2>2, LenProperties
  <2>4. ASSUME ~asked, NEW i \in DOMAIN pcm', i >= MaxPcmPerSample
        PROVE  pcm'[i] = session
    <3>1. /\ bytes_to_read + i \in DOMAIN pcm
          /\ bytes_to_read + i >= MaxPcmPerSample
      BY <1>1, <2>1, <2>3, <2>4
    <3> QED
      BY <2>2, <2>3, <2>4, <3>1
  <2>5. Len(pcm') < MaxPcmPerFrame + MaxPcmPerSample
    BY <1>1, <2>1, <2>2
  <2>6. tc_pc' = "encode" /\ session' = session /\ asked' = asked
    BY <1>3 DEF TcEncode, envVars
  <2> QED
    BY <2>4, <2>5, <2>6
<1>4. CASE TcEncoded /\ UNCHANGED envVars
  <2>1. Len(pcm) < MaxPcmPerSample
    BY <1>1, <1>4 DEF TcEncoded, EnoughPcm, TypeOK
  <2> QED
    BY <1>1, <1>4, <2>1 DEF TcEncoded, envVars
<1>5. CASE /\ \/ TcSelect \/ TcControl \/ TcFlush \/ TcFlushed
              \/ TcFreeContext \/ TcTellRtp \/ TcAck \/ TcData
              \/ TcLibraryRead \/ TcInitContext \/ TcInitContextFails
              \/ TcDecodeFails \/ TcReadFrameFails \/ TcSayExit
           /\ UNCHANGED envVars
  <2>1. /\ tc_pc # "encode" /\ tc_pc' # "encode"
        /\ UNCHANGED <<pcm, session, asked>>
    BY <1>5
    DEF TcSelect, TcControl, TcFlush, TcFlushed, TcFreeContext, TcTellRtp,
        TcAck, TcData, TcLibraryRead, TcInitContext, TcInitContextFails,
        TcDecodeFails, TcReadFrameFails, TcSayExit, tcVars, envVars
  <2> QED
    BY <2>1
<1>6. CASE Ask
  BY <1>6 DEF Ask, tcVars
<1>7. CASE Answered
  <2>1. Len(pcm) < MaxPcmPerSample /\ UNCHANGED <<tc_pc, pcm>>
    BY <1>7 DEF Answered, Handshake, tcVars
  <2> QED
    BY <1>1, <2>1
<1>8. CASE \/ Feed \/ Command \/ Quit \/ RtpTakesCommand \/ RtpTakesSamples
           \/ UNCHANGED vars
  BY <1>8
  DEF Feed, Command, Quit, RtpTakesCommand, RtpTakesSamples, vars, tcVars,
      envVars
<1> QED
  BY <1>2, <1>3, <1>4, <1>5, <1>6, <1>7, <1>8
  DEF Next, TranscoderNext, TranscoderStep, Environment, FetcherNext, RtpNext

(* What every state of the transcoder satisfies.                           *)
TranscoderInv == TypeOK /\ Handshake /\ LiveContext /\ Fresh /\ Residue

(* The invariant holds from the start and is kept.                         *)
LEMMA Inductive == Spec => []TranscoderInv
<1>1. Init => Handshake /\ LiveContext /\ Fresh /\ Residue
  <2> SUFFICES ASSUME Init
               PROVE  Handshake /\ LiveContext /\ Fresh /\ Residue
    OBVIOUS
  <2>1. /\ Len(<<>>) = 0 /\ DOMAIN <<>> = {} /\ Units(<<>>) = {}
    BY EmptySeq, UnitsEmpty
  <2> QED
    BY <2>1, TranscoderConstants
    DEF Init, TranscoderInit, Handshake, ReInit, LiveContext, Fresh, Residue
<1>2. TypeOK /\ Handshake /\ LiveContext /\ Fresh /\ Residue /\ [Next]_vars
      => Handshake' /\ LiveContext' /\ Fresh' /\ Residue'
  BY HandshakeStep, LiveContextStep, FreshStep, ResidueStep
<1> QED
  BY <1>1, <1>2, TypeCorrect, PTL DEF Spec, TranscoderInv

-----------------------------------------------------------------------------
(* Once the fetcher has its answer, no data of an earlier station is left  *)
(* in the pipe or in the buffer the transcoder reads from                  *)
(* (mp3fetcher.c:619, Transcoder.c:199-206).                               *)
THEOREM NewStationStartsFresh == Spec => []FreshInput
<1>1. TranscoderInv => FreshInput
  BY DEF TranscoderInv, Fresh, FreshInput, OfThisSession, Units
<1> QED
  BY <1>1, Inductive, PTL

(* Less PCM is left of an earlier station than the largest sample takes,   *)
(* whatever the sample rates of the stations are (Transcoder.c:122-123,    *)
(* 199-210, 238-239).                                                      *)
THEOREM LittleIsLeft == Spec => []ResidueBelowASample
<1>1. TranscoderInv => ResidueBelowASample
  <2> SUFFICES ASSUME TranscoderInv, ~asked, NEW i \in DOMAIN pcm,
                      pcm[i] # session
               PROVE  i < MaxPcmPerSample
    BY DEF ResidueBelowASample
  <2>1. i \in Nat
    BY LenProperties DEF TranscoderInv, TypeOK
  <2>2. ~(i >= MaxPcmPerSample)
    BY DEF TranscoderInv, Residue
  <2> QED
    BY <2>1, <2>2, TranscoderConstants
<1> QED
  BY <1>1, Inductive, PTL

(* The pipe between decode and encode holds less than the largest frame and*)
(* the largest sample: with a pipe of that size the transcoder never waits *)
(* for itself, whichever stations follow on each other (Transcoder.c:122-  *)
(* 140, 238-239).                                                          *)
THEOREM NeverWaitsForItself == Spec => []PcmBounded
<1>1. TranscoderInv => PcmBounded
  BY DEF TranscoderInv, Residue, PcmBounded
<1> QED
  BY <1>1, Inductive, PTL

(* One answer for each re-init, and only to a fetcher that waits           *)
(* (Transcoder.c:203-218).                                                 *)
THEOREM OneAnswer == Spec => []AnswersOnlyRequests
<1>1. TranscoderInv => AnswersOnlyRequests
  BY DEF TranscoderInv, Handshake, ReInit, AnswersOnlyRequests
<1> QED
  BY <1>1, Inductive, PTL

(* Decoder and encoder are used only between init_context and free_context *)
(* (Transcoder.c:209, 222-239).                                            *)
THEOREM ContextsAreLive == Spec => []DecodesWithLiveContext
<1>1. TranscoderInv => DecodesWithLiveContext
  BY DEF TranscoderInv, LiveContext, DecodesWithLiveContext
<1> QED
  BY <1>1, Inductive, PTL

=============================================================================
