------------------------ MODULE RadioStreamerTheorems ------------------------
(***************************************************************************)
(* The safety properties of the three processes together, for any limit of *)
(* open files, any sizes of frames, samples, packets, buffers and pipes,   *)
(* any number of destinations and any failing of the library: they keep    *)
(* what each of them assumes of the others, a station change flushes the   *)
(* samples of the station before it, and no listener hears two stations in *)
(* the wrong order.                                                        *)
(***************************************************************************)
EXTENDS RadioStreamer, PipesTheorems

(* The fetcher waits for the answer of the transcoder.                     *)
Waiting == gui_pc = "ack"

(* A re-init is under way from the command to the answer.                  *)
ReInit == tc_pc \in {"flushR", "free", "tellR", "ack"}

Contents == Sessions \cup {Garbage}

(* What the pipes and the buffers hold; a session has cost a socket.       *)
TypeInv ==
  /\ transcoder_control_pipe \in Seq({"R", "E", "O"})
  /\ transcoder_pipe \in Seq(Sessions)
  /\ mp3_fetcher_control_pipe \in Seq({"1"})
  /\ rtp_server_control_pipe \in Seq({"F", "E", "O"})
  /\ rtp_server_pipe \in Seq(Sessions)
  /\ avio \in Seq(Sessions) /\ Len(avio) <= AvioSize
  /\ pcm \in Seq(Sessions)
  /\ bytes_to_read \in Nat
  /\ tc_pc = "encode" =>
       bytes_to_read \in MinPcmPerSample .. MaxPcmPerSample
  /\ fds \in 0 .. FdLimit
  /\ session \in 0 .. fds
  /\ gui_pc = "connect" => session < fds
  /\ gui_pc \in {"ack", "stream", "forward"} => session # 0

(* The "R", the re-init and the byte 1 exclude each other; while one of    *)
(* them is there the fetcher waits and sends nothing, so that what has been*)
(* emptied stays empty.                                                    *)
Handshake ==
  /\ tc_pc = "control" => transcoder_control_pipe # <<>>
  /\ "R" \in Units(transcoder_control_pipe) =>
       Waiting /\ ~ReInit /\ mp3_fetcher_control_pipe = <<>>
  /\ ReInit => Waiting /\ mp3_fetcher_control_pipe = <<>>
  /\ ReInit \/ mp3_fetcher_control_pipe # <<>> =>
       transcoder_control_pipe = <<>>
  /\ tc_pc \in {"free", "tellR", "ack"} \/ mp3_fetcher_control_pipe # <<>> =>
       transcoder_pipe = <<>>
  /\ mp3_fetcher_control_pipe # <<>> =>
       Waiting /\ tc_pc = "select" /\ ~initialized
  /\ Len(mp3_fetcher_control_pipe) <= 1

-----------------------------------------------------------------------------
(* What a step of the fetcher does to the others: nothing, or it asks for a*)
(* re-init, takes the answer, forwards a chunk, or writes another command. *)
FetcherQuiet ==
  /\ UNCHANGED <<transcoder_control_pipe, transcoder_pipe,
                 mp3_fetcher_control_pipe, session>>
  /\ gui_pc # "ack" /\ gui_pc' # "ack"
  /\ gui_pc' \in {"wait", "exited"} <=> gui_pc \in {"wait", "exited"}

LEMMA FetcherCases ==
  ASSUME Fetcher!FetcherNext
  PROVE  \/ Fetcher!Connect \/ Fetcher!Synchronized \/ Fetcher!Pause
         \/ Fetcher!Forward \/ Fetcher!SayExit \/ FetcherQuiet
BY DEF Fetcher!FetcherNext, Fetcher!Working, Fetcher!Outside,
       Fetcher!ScanMenu, Fetcher!SelectStation, Fetcher!SelectNext,
       Fetcher!SelectExit, Fetcher!SelectNothing, Fetcher!FetchPlaylist,
       Fetcher!FetchPlaylistFails, Fetcher!TryUrl, Fetcher!TryUrlNoSocket,
       Fetcher!OutOfUrls, Fetcher!ConnectFails, Fetcher!Continue,
       Fetcher!LeaveStream, Fetcher!StreamBreaks, Fetcher!Receive,
       Fetcher!Reap, Fetcher!pipes, FetcherQuiet

(* Every step of the fetcher keeps the number of its sockets and sessions. *)
LEMMA SocketsStep ==
  ASSUME TypeInv, Fetcher!FetcherNext
  PROVE  /\ fds' \in 0 .. FdLimit
         /\ session' \in 0 .. fds'
         /\ gui_pc' = "connect" => session' < fds'
         /\ gui_pc' \in {"ack", "stream", "forward"} => session' # 0
<1> USE DEF TypeInv
<1>1. FdLimit \in Nat
  BY StreamerConstants
<1>2. CASE Fetcher!TryUrl
  BY <1>1, <1>2 DEF Fetcher!TryUrl
<1>3. CASE Fetcher!FetchPlaylist
  BY <1>1, <1>3 DEF Fetcher!FetchPlaylist
<1>4. CASE Fetcher!Connect
  BY <1>1, <1>4 DEF Fetcher!Connect
<1>5. CASE Fetcher!Synchronized \/ Fetcher!Pause \/ Fetcher!Forward
  BY <1>1, <1>5
  DEF Fetcher!Synchronized, Fetcher!Pause, Fetcher!Forward
<1>6. CASE \/ Fetcher!TryUrlNoSocket \/ Fetcher!FetchPlaylistFails
           \/ Fetcher!OutOfUrls \/ Fetcher!ConnectFails \/ Fetcher!SayExit
  BY <1>1, <1>6
  DEF Fetcher!TryUrlNoSocket, Fetcher!FetchPlaylistFails,
      Fetcher!OutOfUrls, Fetcher!ConnectFails, Fetcher!SayExit
<1>7. CASE \/ Fetcher!Continue \/ Fetcher!LeaveStream
           \/ Fetcher!StreamBreaks \/ Fetcher!Receive \/ Fetcher!Reap
  BY <1>1, <1>7
  DEF Fetcher!Continue, Fetcher!LeaveStream, Fetcher!StreamBreaks,
      Fetcher!Receive, Fetcher!Reap
<1>8. CASE \/ Fetcher!ScanMenu \/ Fetcher!SelectStation
           \/ Fetcher!SelectNext \/ Fetcher!SelectExit
           \/ Fetcher!SelectNothing
  BY <1>1, <1>8
  DEF Fetcher!ScanMenu, Fetcher!SelectStation,
      Fetcher!SelectNext, Fetcher!SelectExit, Fetcher!SelectNothing
<1> QED
  BY <1>2, <1>3, <1>4, <1>5, <1>6, <1>7, <1>8
  DEF Fetcher!FetcherNext, Fetcher!Working, Fetcher!Outside

(* A decoded frame is PCM of one session.                                  *)
LEMMA CopiesProperties ==
  ASSUME NEW S, NEW unit \in S, NEW n \in Nat
  PROVE  /\ Transcoder!Copies(unit, n) \in Seq(S)
         /\ Len(Transcoder!Copies(unit, n)) = n
         /\ \A i \in 1 .. n : Transcoder!Copies(unit, n)[i] = unit
<1>1. Transcoder!Copies(unit, n) \in [1 .. n -> S]
  BY DEF Transcoder!Copies
<1>2. Transcoder!Copies(unit, n) \in Seq(S)
  BY <1>1, SeqDef
<1> QED
  BY <1>1, <1>2, LenProperties DEF Transcoder!Copies

(* What the library reads of the pipe fits into its buffer.                *)
Readable == Least(AvioSize - Len(avio), Len(transcoder_pipe))

LEMMA ReadableFits ==
  ASSUME TypeInv
  PROVE  /\ Readable \in 0 .. Len(transcoder_pipe)
         /\ Len(avio) + Readable <= AvioSize
<1>1. Len(avio) \in Nat /\ Len(transcoder_pipe) \in Nat
  BY LenProperties DEF TypeInv
<1> QED
  BY <1>1, StreamerConstants DEF TypeInv, Readable, Least

(* A full read of the server takes a payload, if there is one.             *)
Playable == Least(PayloadSize, Len(rtp_server_pipe))

(* A decoded frame is a number of units of one session behind what p held. *)
LEMMA DecodedFrame ==
  ASSUME Transcoder!TcDecode
  PROVE  \E n \in Nat : pcm' = pcm \o Transcoder!Copies(Head(avio), n)
<1>1. PICK n \in MinPcmPerFrame .. MaxPcmPerFrame :
        pcm' = pcm \o Transcoder!Copies(Head(avio), n)
  BY DEF Transcoder!TcDecode
<1>2. n \in Nat
  BY StreamerConstants
<1> QED
  BY <1>1, <1>2

(* The data each step moves, in terms of the one module Pipes.             *)
LEMMA DataMoves ==
  /\ Transcoder!TcFlush =>
       transcoder_pipe' = FlushRead(transcoder_pipe, FlushBuf)
  /\ Transcoder!TcLibraryRead =>
       /\ avio' = avio \o Take(transcoder_pipe, Readable)
       /\ transcoder_pipe' = Drop(transcoder_pipe, Readable)
  /\ Transcoder!TcDecode \/ Transcoder!TcDecodeFails =>
       avio' = Drop(avio, FrameChunks)
  /\ Transcoder!TcEncode => pcm' = Drop(pcm, bytes_to_read)
  /\ RtpServer!RtpFlush =>
       rtp_server_pipe' = FlushRead(rtp_server_pipe, FlushBuf)
  /\ RtpServer!RtpReadAudio =>
       rtp_server_pipe' = Drop(rtp_server_pipe, Playable)
<1> USE DEF Take, Drop, Least, FlushRead, Readable, Playable
<1>1. Transcoder!TcFlush =>
        transcoder_pipe' = FlushRead(transcoder_pipe, FlushBuf)
  BY DEF Transcoder!TcFlush, Transcoder!FlushRead, Transcoder!Drop,
         Transcoder!Least
<1>2. Transcoder!TcLibraryRead =>
        /\ avio' = avio \o Take(transcoder_pipe, Readable)
        /\ transcoder_pipe' = Drop(transcoder_pipe, Readable)
  BY DEF Transcoder!TcLibraryRead, Transcoder!Take, Transcoder!Drop,
         Transcoder!Least
<1>3. /\ Transcoder!TcDecode \/ Transcoder!TcDecodeFails =>
           avio' = Drop(avio, FrameChunks)
      /\ Transcoder!TcEncode => pcm' = Drop(pcm, bytes_to_read)
  BY DEF Transcoder!TcDecode, Transcoder!TcDecodeFails, Transcoder!TcEncode,
         Transcoder!Drop
<1>4. /\ RtpServer!RtpFlush =>
           rtp_server_pipe' = FlushRead(rtp_server_pipe, FlushBuf)
      /\ RtpServer!RtpReadAudio =>
           rtp_server_pipe' = Drop(rtp_server_pipe, Playable)
  BY DEF RtpServer!RtpFlush, RtpServer!RtpReadAudio, RtpServer!FlushRead,
         RtpServer!Drop, RtpServer!Least
<1> QED
  BY <1>1, <1>2, <1>3, <1>4

(* Every step of the transcoder keeps the types.                           *)
LEMMA TranscoderTypes ==
  ASSUME TypeInv, Transcoder!TranscoderNext, TranscoderAlone
  PROVE  TypeInv'
<1> USE StreamerConstants
    DEF TypeInv, TranscoderAlone, Transcoder!inputs, Transcoder!outputs,
        Transcoder!tcVars, guiVars
<1>1. CASE \/ Transcoder!TcSelect \/ Transcoder!TcFlushed
           \/ Transcoder!TcFreeContext \/ Transcoder!TcInitContext
           \/ Transcoder!TcInitContextFails \/ Transcoder!TcReadFrameFails
           \/ Transcoder!TcEncoded
  BY <1>1
  DEF Transcoder!TcSelect, Transcoder!TcFlushed, Transcoder!TcFreeContext,
      Transcoder!TcInitContext, Transcoder!TcInitContextFails,
      Transcoder!TcReadFrameFails, Transcoder!TcEncoded
<1>2. CASE Transcoder!TcControl
  BY <1>2, EmptySeq DEF Transcoder!TcControl
<1>3. CASE Transcoder!TcFlush
  <2>1. transcoder_pipe' \in Seq(Sessions)
    BY <1>3, FlushReadProperties, DataMoves
  <2> QED
    BY <1>3, <2>1 DEF Transcoder!TcFlush
<1>4. CASE Transcoder!TcTellRtp
  <2>1. rtp_server_control_pipe' \in Seq({"F", "E", "O"})
    BY <1>4, WriteOne DEF Transcoder!TcTellRtp
  <2> QED
    BY <1>4, <2>1 DEF Transcoder!TcTellRtp
<1>5. CASE Transcoder!TcAck
  <2>1. mp3_fetcher_control_pipe' \in Seq({"1"})
    BY <1>5, WriteOne DEF Transcoder!TcAck
  <2> QED
    BY <1>5, <2>1 DEF Transcoder!TcAck
<1>6. CASE Transcoder!TcData
  <2>1. <<>> \in Seq(Sessions) /\ Len(<<>>) = 0
    BY EmptySeq
  <2>2. avio' = avio \/ avio' = <<>>
    BY <1>6 DEF Transcoder!TcData
  <2>3. avio' \in Seq(Sessions) /\ Len(avio') <= AvioSize
    <3>1. CASE avio' = avio
      BY <3>1
    <3>2. CASE avio' = <<>>
      <4>1. Len(avio') = 0 /\ avio' \in Seq(Sessions)
        BY <2>1, <3>2
      <4> QED
        BY <4>1
    <3> QED
      BY <2>2, <3>1, <3>2
  <2> QED
    BY <1>6, <2>3 DEF Transcoder!TcData
<1>7. CASE Transcoder!TcLibraryRead
  <2>1. /\ avio' = avio \o Take(transcoder_pipe, Readable)
        /\ transcoder_pipe' = Drop(transcoder_pipe, Readable)
    BY <1>7, DataMoves
  <2>2. /\ Take(transcoder_pipe, Readable) \in Seq(Sessions)
        /\ Len(Take(transcoder_pipe, Readable)) = Readable
        /\ Drop(transcoder_pipe, Readable) \in Seq(Sessions)
    BY ReadableFits, TakeProperties, DropProperties
  <2>3. avio' \in Seq(Sessions) /\ Len(avio') = Len(avio) + Readable
    <3>1. PICK more : more = Take(transcoder_pipe, Readable)
      OBVIOUS
    <3>2. /\ more \in Seq(Sessions) /\ Len(more) = Readable
          /\ avio' = avio \o more /\ avio \in Seq(Sessions)
      BY <2>1, <2>2, <3>1
    <3> HIDE DEF TypeInv
    <3> QED
      BY <3>2, ConcatProperties
  <2>4. Len(avio') <= AvioSize /\ transcoder_pipe' \in Seq(Sessions)
    BY <2>1, <2>2, <2>3, ReadableFits
  <2> QED
    BY <1>7, <2>3, <2>4 DEF Transcoder!TcLibraryRead
<1>8. CASE Transcoder!TcDecode \/ Transcoder!TcDecodeFails
  <2>1. FrameChunks \in 0 .. Len(avio) /\ avio # <<>>
    BY <1>8, LenProperties, EmptySeq
    DEF Transcoder!TcDecode, Transcoder!TcDecodeFails
  <2>2. avio' = Drop(avio, FrameChunks)
    BY <1>8, DataMoves
  <2>3. /\ avio' \in Seq(Sessions)
        /\ Len(avio') = Len(avio) - FrameChunks
    BY <2>1, <2>2, DropProperties
  <2>4. Len(avio') <= AvioSize
    BY <2>3, LenProperties
  <2>5. ASSUME NEW n \in Nat
        PROVE  pcm \o Transcoder!Copies(Head(avio), n) \in Seq(Sessions)
    <3>1. Head(avio) \in Sessions
      BY <2>1, HeadTailProperties
    <3>2. Transcoder!Copies(Head(avio), n) \in Seq(Sessions)
      BY <3>1, CopiesProperties
    <3> QED
      BY <3>2, ConcatProperties
  <2>6. pcm' \in Seq(Sessions)
    <3>1. CASE Transcoder!TcDecode
      BY <2>5, <3>1, DecodedFrame
    <3>2. CASE Transcoder!TcDecodeFails
      BY <3>2 DEF Transcoder!TcDecodeFails
    <3> QED
      BY <1>8, <3>1, <3>2
  <2>7. /\ bytes_to_read' \in Nat
        /\ tc_pc' = "encode" =>
             bytes_to_read' \in MinPcmPerSample .. MaxPcmPerSample
    BY <1>8, StreamerConstants
    DEF Transcoder!TcDecode, Transcoder!TcDecodeFails
  <2> QED
    BY <1>8, <2>3, <2>4, <2>6, <2>7
    DEF Transcoder!TcDecode, Transcoder!TcDecodeFails
<1>9. CASE Transcoder!TcEncode
  <2>1. bytes_to_read \in 0 .. Len(pcm) /\ pcm # <<>>
    BY <1>9, LenProperties, EmptySeq, StreamerConstants
    DEF Transcoder!TcEncode, Transcoder!EnoughPcm
  <2>2. pcm' \in Seq(Sessions)
    BY <1>9, <2>1, DropProperties, DataMoves
  <2>3. Head(pcm) \in Sessions
    BY <2>1, HeadTailProperties
  <2>4. rtp_server_pipe' \in Seq(Sessions)
    BY <1>9, <2>3, WriteOne DEF Transcoder!TcEncode
  <2> QED
    BY <1>9, <2>2, <2>4 DEF Transcoder!TcEncode
<1>10. CASE Transcoder!TcSayExit
  <2>1. rtp_server_control_pipe' \in Seq({"F", "E", "O"})
    BY <1>10, AppendExit DEF Transcoder!TcSayExit
  <2> QED
    BY <1>10, <2>1 DEF Transcoder!TcSayExit
<1> QED
  BY <1>1, <1>2, <1>3, <1>4, <1>5, <1>6, <1>7, <1>8, <1>9, <1>10
  DEF Transcoder!TranscoderNext, Transcoder!TranscoderStep

(* Every step of the RTP server keeps the types.                           *)
LEMMA ServerTypes ==
  ASSUME TypeInv, RtpServer!ServerNext, ServerAlone
  PROVE  TypeInv'
<1> USE StreamerConstants DEF TypeInv, ServerAlone, guiVars, tcVars
<1>1. CASE RtpServer!RtpControl
  BY <1>1, HeadTailProperties DEF RtpServer!RtpControl
<1>2. CASE RtpServer!RtpFlush
  <2>1. rtp_server_pipe' \in Seq(Sessions)
    BY <1>2, FlushReadProperties, DataMoves
  <2> QED
    BY <1>2, <2>1 DEF RtpServer!RtpFlush
<1>3. CASE RtpServer!RtpReadAudio
  <2>1. Playable \in 0 .. Len(rtp_server_pipe)
    BY LenProperties DEF Least, Playable
  <2>2. rtp_server_pipe' = Drop(rtp_server_pipe, Playable)
    BY <1>3, DataMoves
  <2>3. rtp_server_pipe' \in Seq(Sessions)
    BY <2>1, <2>2, DropProperties
  <2> QED
    BY <1>3, <2>3 DEF RtpServer!RtpReadAudio
<1>4. CASE UNCHANGED <<rtp_server_control_pipe, rtp_server_pipe>>
  BY <1>4
<1> QED
  BY <1>1, <1>2, <1>3, <1>4
  DEF RtpServer!ServerNext, RtpServer!ServerStep, RtpServer!RtpSelect,
      RtpServer!RtpIoctl, RtpServer!RtpFlushed, RtpServer!RtpNoAudio,
      RtpServer!RtpSend, RtpServer!RtpSendFails

(* Every step of the program keeps the types.                              *)
LEMMA TypeInvStep == TypeInv /\ [Next]_vars => TypeInv'
<1> SUFFICES ASSUME TypeInv, [Next]_vars PROVE TypeInv'
  OBVIOUS
<1>1. CASE Fetcher!FetcherNext /\ FetcherAlone
  <2>1. UNCHANGED <<rtp_server_control_pipe, rtp_server_pipe, avio, pcm,
                    bytes_to_read, tc_pc>>
    BY <1>1 DEF FetcherAlone, tcVars
  <2>2. /\ fds' \in 0 .. FdLimit
        /\ session' \in 0 .. fds'
        /\ gui_pc' = "connect" => session' < fds'
        /\ gui_pc' \in {"ack", "stream", "forward"} => session' # 0
    BY <1>1, SocketsStep
  <2>3. /\ transcoder_control_pipe' \in Seq({"R", "E", "O"})
        /\ transcoder_pipe' \in Seq(Sessions)
        /\ mp3_fetcher_control_pipe' \in Seq({"1"})
    <3> USE DEF TypeInv
    <3>1. CASE Fetcher!Connect
      <4>1. transcoder_control_pipe' \in Seq({"R", "E", "O"})
        BY <3>1, WriteOne DEF Fetcher!Connect
      <4> QED
        BY <3>1, <4>1 DEF Fetcher!Connect
    <3>2. CASE Fetcher!Synchronized
      BY <3>2, HeadTailProperties DEF Fetcher!Synchronized
    <3>3. CASE Fetcher!Pause
      <4>1. transcoder_control_pipe' \in Seq({"R", "E", "O"})
        BY <3>3, WriteOne DEF Fetcher!Pause
      <4> QED
        BY <3>3, <4>1 DEF Fetcher!Pause
    <3>4. CASE Fetcher!Forward
      <4>1. session \in Sessions
        BY <3>4, StreamerConstants DEF Fetcher!Forward, Sessions
      <4>2. transcoder_pipe' \in Seq(Sessions)
        BY <3>4, <4>1, WriteOne DEF Fetcher!Forward
      <4> QED
        BY <3>4, <4>2 DEF Fetcher!Forward
    <3>5. CASE Fetcher!SayExit
      <4>1. transcoder_control_pipe' \in Seq({"R", "E", "O"})
        BY <3>5, AppendExit DEF Fetcher!SayExit
      <4> QED
        BY <3>5, <4>1 DEF Fetcher!SayExit
    <3>6. CASE FetcherQuiet
      BY <3>6 DEF FetcherQuiet
    <3> QED
      BY <1>1, <3>1, <3>2, <3>3, <3>4, <3>5, <3>6, FetcherCases
  <2> QED
    BY <2>1, <2>2, <2>3 DEF TypeInv
<1>2. CASE Transcoder!TranscoderNext /\ TranscoderAlone
  BY <1>2, TranscoderTypes
<1>3. CASE RtpServer!ServerNext /\ ServerAlone
  BY <1>3, ServerTypes
<1>4. CASE UNCHANGED vars
  BY <1>4 DEF vars, guiVars, tcVars, TypeInv
<1> QED
  BY <1>1, <1>2, <1>3, <1>4 DEF Next

(* The types hold at the start.                                            *)
LEMMA TypeInvInit == Init => TypeInv
<1> SUFFICES ASSUME Init PROVE TypeInv
  OBVIOUS
<1>1. /\ <<>> \in Seq({"R", "E", "O"}) /\ <<>> \in Seq({"F", "E", "O"})
      /\ <<>> \in Seq({"1"}) /\ <<>> \in Seq(Sessions) /\ Len(<<>>) = 0
  BY EmptySeq
<1> QED
  BY <1>1, StreamerConstants
  DEF Init, Fetcher!FetcherInit, Transcoder!TranscoderInit, TypeInv

-----------------------------------------------------------------------------
(* A step of the transcoder keeps the handshake: all commands are taken    *)
(* with the "R", the flush ends with an empty pipe, the answer comes last. *)
LEMMA TranscoderKeepsHandshake ==
  ASSUME TypeInv, Handshake, Transcoder!TranscoderNext, TranscoderAlone
  PROVE  Handshake'
<1> DEFINE commands == transcoder_control_pipe
           answers == mp3_fetcher_control_pipe
<1> USE DEF Handshake, ReInit, Waiting
<1>1. /\ commands \in Seq({"R", "E", "O"})
      /\ answers \in Seq({"1"})
      /\ gui_pc' = gui_pc
  BY DEF TypeInv, TranscoderAlone, guiVars
<1>2. CASE Transcoder!TcSelect
  BY <1>1, <1>2
  DEF Transcoder!TcSelect, Transcoder!inputs, Transcoder!outputs
<1>3. CASE Transcoder!TcControl
  <2>1. "R" \notin Units(commands')
    BY <1>3, UnitsEmpty DEF Transcoder!TcControl
  <2>2. answers = <<>>
    BY <1>3 DEF Transcoder!TcControl
  <2>3. tc_pc' = "flushR" => Waiting
    BY <1>1, <1>3, UnitsHead DEF Transcoder!TcControl
  <2>4. tc_pc' \in {"exit", "flushR", "flushF", "data", "select"}
    BY <1>3 DEF Transcoder!TcControl
  <2>5. commands' = <<>> /\ UNCHANGED <<answers, initialized>>
    BY <1>3 DEF Transcoder!TcControl, Transcoder!outputs
  <2> QED
    BY <1>1, <2>1, <2>2, <2>3, <2>4, <2>5
<1>4. CASE Transcoder!TcFlush
  BY <1>1, <1>4
  DEF Transcoder!TcFlush, Transcoder!tcVars, Transcoder!outputs
<1>5. CASE Transcoder!TcFlushed
  BY <1>1, <1>5
  DEF Transcoder!TcFlushed, Transcoder!inputs, Transcoder!outputs
<1>6. CASE Transcoder!TcFreeContext
  BY <1>1, <1>6
  DEF Transcoder!TcFreeContext, Transcoder!inputs, Transcoder!outputs
<1>7. CASE Transcoder!TcTellRtp
  BY <1>1, <1>7 DEF Transcoder!TcTellRtp, Transcoder!inputs
<1>8. CASE Transcoder!TcAck
  <2>1. answers = <<>> /\ commands = <<>> /\ transcoder_pipe = <<>> /\ Waiting
    BY <1>8 DEF Transcoder!TcAck
  <2>2. Len(answers') = 1
    BY <1>1, <1>8, <2>1, EmptySeq, WriteOne DEF Transcoder!TcAck
  <2>3. "R" \notin Units(commands)
    BY <2>1, UnitsEmpty
  <2> QED
    BY <1>1, <1>8, <2>1, <2>2, <2>3 DEF Transcoder!TcAck, Transcoder!inputs
<1>9. CASE Transcoder!TcSayExit
  BY <1>1, <1>9 DEF Transcoder!TcSayExit, Transcoder!inputs
<1>10. CASE \/ Transcoder!TcData \/ Transcoder!TcLibraryRead
            \/ Transcoder!TcInitContext \/ Transcoder!TcInitContextFails
            \/ Transcoder!TcDecode \/ Transcoder!TcDecodeFails
            \/ Transcoder!TcReadFrameFails \/ Transcoder!TcEncode
            \/ Transcoder!TcEncoded
  <2>1. /\ tc_pc \in {"data", "probe", "frame", "encode"}
        /\ tc_pc' \in {"frame", "probe", "dead", "encode", "select", "exit"}
        /\ UNCHANGED <<commands, answers>>
    BY <1>10
    DEF Transcoder!TcData, Transcoder!TcLibraryRead,
        Transcoder!TcInitContext, Transcoder!TcInitContextFails,
        Transcoder!TcDecode, Transcoder!TcDecodeFails,
        Transcoder!TcReadFrameFails, Transcoder!TcEncode,
        Transcoder!TcEncoded, Transcoder!inputs, Transcoder!outputs
  <2> QED
    BY <1>1, <2>1
<1> QED
  BY <1>2, <1>3, <1>4, <1>5, <1>6, <1>7, <1>8, <1>9, <1>10
  DEF Transcoder!TranscoderNext, Transcoder!TranscoderStep

(* A step of the fetcher keeps it: only Connect writes an "R", and only the*)
(* answer ends the wait.                                                   *)
LEMMA FetcherKeepsHandshake ==
  ASSUME TypeInv, Handshake, Fetcher!FetcherNext, FetcherAlone
  PROVE  Handshake'
<1> DEFINE commands == transcoder_control_pipe
           answers == mp3_fetcher_control_pipe
<1> USE DEF Handshake, ReInit, Waiting
<1>1. /\ commands \in Seq({"R", "E", "O"})
      /\ answers \in Seq({"1"})
      /\ UNCHANGED <<tc_pc, initialized>>
  BY DEF TypeInv, FetcherAlone, tcVars
<1>2. CASE Fetcher!Connect
  <2>1. commands' # <<>>
    BY <1>1, <1>2, WriteOne DEF Fetcher!Connect
  <2> QED
    BY <1>1, <1>2, <2>1 DEF Fetcher!Connect
<1>3. CASE Fetcher!Synchronized
  <2>1. answers' \in Seq({"1"}) /\ Len(answers') = Len(answers) - 1
    BY <1>1, <1>3, HeadTailProperties DEF Fetcher!Synchronized
  <2>2. Len(answers') = 0
    BY <1>1, <1>3, <2>1, LenProperties DEF Fetcher!Synchronized
  <2>3. answers' = <<>>
    BY <2>1, <2>2, EmptySeq
  <2>4. "R" \notin Units(commands)
    BY <1>3, UnitsEmpty DEF Fetcher!Synchronized
  <2> QED
    BY <1>1, <1>3, <2>2, <2>3, <2>4 DEF Fetcher!Synchronized
<1>4. CASE Fetcher!Pause
  <2>1. commands' # <<>> /\ Units(commands') = Units(commands) \cup {"O"}
    BY <1>1, <1>4, WriteOne DEF Fetcher!Pause
  <2>2. "R" \notin Units(commands')
    BY <1>4, <2>1 DEF Fetcher!Pause
  <2> QED
    BY <1>1, <1>4, <2>1, <2>2 DEF Fetcher!Pause
<1>5. CASE Fetcher!Forward
  BY <1>1, <1>5 DEF Fetcher!Forward
<1>6. CASE Fetcher!SayExit
  <2>1. /\ commands' # <<>>
        /\ Units(commands') = Units(commands) \cup {"E", "O"}
    BY <1>1, <1>6, AppendExit DEF Fetcher!SayExit
  <2>2. "R" \notin Units(commands')
    BY <1>6, <2>1 DEF Fetcher!SayExit
  <2> QED
    BY <1>1, <1>6, <2>1, <2>2 DEF Fetcher!SayExit
<1>7. CASE FetcherQuiet
  BY <1>1, <1>7 DEF FetcherQuiet
<1> QED
  BY <1>2, <1>3, <1>4, <1>5, <1>6, <1>7, FetcherCases

(* So does every step of the program.                                      *)
LEMMA HandshakeStep == TypeInv /\ Handshake /\ [Next]_vars => Handshake'
<1> SUFFICES ASSUME TypeInv, Handshake, [Next]_vars PROVE Handshake'
  OBVIOUS
<1>1. CASE Fetcher!FetcherNext /\ FetcherAlone
  BY <1>1, FetcherKeepsHandshake
<1>2. CASE Transcoder!TranscoderNext /\ TranscoderAlone
  BY <1>2, TranscoderKeepsHandshake
<1>3. CASE ServerAlone \/ UNCHANGED vars
  BY <1>3
  DEF ServerAlone, vars, guiVars, tcVars, Handshake, Waiting, ReInit
<1> QED
  BY <1>1, <1>2, <1>3 DEF Next

(* The types and the handshake hold in every state of the program.         *)
LEMMA ProtocolHolds == Spec => [](TypeInv /\ Handshake)
<1>1. Init => Handshake
  BY EmptySeq, UnitsEmpty
  DEF Init, Fetcher!FetcherInit, Transcoder!TranscoderInit, Handshake,
      Waiting, ReInit
<1> QED
  BY <1>1, TypeInvInit, TypeInvStep, HandshakeStep, PTL DEF Spec

-----------------------------------------------------------------------------
(* For the fetcher, the transcoder and the RTP server are a reader of its  *)
(* pipes that answers a request once, and end once.                        *)
ChildrenDone == TranscoderEnded /\ rtp_pc = "done"

(* Only a process that has not ended takes a step, so the end is kept.     *)
LEMMA EndedStays ==
  /\ Transcoder!TranscoderNext => ~TranscoderEnded
  /\ RtpServer!ServerNext => rtp_pc # "done"
<1>1. Transcoder!TranscoderNext => ~TranscoderEnded
  BY DEF TranscoderEnded, Transcoder!TranscoderNext,
         Transcoder!TranscoderStep, Transcoder!TcSelect,
         Transcoder!TcControl, Transcoder!TcFlush, Transcoder!TcFlushed,
         Transcoder!TcFreeContext, Transcoder!TcTellRtp, Transcoder!TcAck,
         Transcoder!TcData, Transcoder!TcLibraryRead,
         Transcoder!TcInitContext, Transcoder!TcInitContextFails,
         Transcoder!TcDecode, Transcoder!TcDecodeFails,
         Transcoder!TcReadFrameFails, Transcoder!TcEncode,
         Transcoder!TcEncoded, Transcoder!TcSayExit
<1>2. RtpServer!ServerNext => rtp_pc # "done"
  BY DEF RtpServer!ServerNext, RtpServer!ServerStep, RtpServer!RtpSelect,
         RtpServer!RtpIoctl, RtpServer!RtpControl, RtpServer!RtpFlush,
         RtpServer!RtpFlushed, RtpServer!RtpNoAudio, RtpServer!RtpReadAudio,
         RtpServer!RtpSend, RtpServer!RtpSendFails
<1> QED
  BY <1>1, <1>2

LEMMA TranscoderForFetcher ==
  ASSUME TypeInv, Handshake, Transcoder!TranscoderNext, TranscoderAlone
  PROVE  [Fetcher!Next]_(Fetcher!vars)
<1> USE DEF Fetcher!Next, Fetcher!Environment, Fetcher!vars, Fetcher!pipes,
            Fetcher!guiVars, TranscoderAlone, guiVars, serverVars,
            Transcoder!inputs, Transcoder!outputs, Transcoder!tcVars
<1>1. ~TranscoderEnded /\ ~ChildrenDone
  BY EndedStays DEF ChildrenDone
<1>2. UNCHANGED Fetcher!guiVars
  OBVIOUS
<1>3. CASE Transcoder!TcControl
  <2>1. /\ UNCHANGED <<transcoder_pipe, mp3_fetcher_control_pipe>>
        /\ transcoder_control_pipe' = <<>>
        /\ transcoder_control_pipe # <<>>
        /\ ~ChildrenDone'
    BY <1>3
    DEF Transcoder!TcControl, Handshake, ChildrenDone, TranscoderEnded
  <2>2. Fetcher!TakeCommands
    BY <1>1, <1>2, <2>1 DEF Fetcher!TakeCommands, ChildrenDone
  <2> QED
    BY <2>2
<1>4. CASE Transcoder!TcFlush \/ Transcoder!TcLibraryRead
  <2> DEFINE n == IF Transcoder!TcFlush
                    THEN Least(FlushBuf, Len(transcoder_pipe))
                    ELSE Readable
  <2>1. Len(transcoder_pipe) \in Nat \ {0} /\ Len(avio) \in Nat
    BY <1>4, LenProperties, EmptySeq
    DEF Transcoder!TcFlush, Transcoder!TcLibraryRead, TypeInv
  <2>2. n \in 1 .. Len(transcoder_pipe)
    <3>1. CASE Transcoder!TcFlush
      BY <2>1, <3>1, StreamerConstants DEF Least
    <3>2. CASE ~Transcoder!TcFlush
      <4>1. Len(avio) < AvioSize
        BY <1>4, <2>1, <3>2, StreamerConstants
        DEF Transcoder!TcLibraryRead, Transcoder!Needed
      <4> QED
        BY <2>1, <3>2, <4>1, StreamerConstants DEF Least, Readable
    <3> QED
      BY <3>1, <3>2
  <2>3. transcoder_pipe' = Drop(transcoder_pipe, n)
    BY <1>4, DataMoves DEF FlushRead
  <2> HIDE DEF n
  <2>4. /\ UNCHANGED <<transcoder_control_pipe, mp3_fetcher_control_pipe>>
        /\ ~ChildrenDone'
    BY <1>1, <1>4
    DEF Transcoder!TcFlush, Transcoder!TcLibraryRead, ChildrenDone,
        TranscoderEnded
  <2>5. Fetcher!TakeData
    BY <1>1, <1>2, <2>2, <2>3, <2>4
    DEF Fetcher!TakeData, Fetcher!Drop, Drop, ChildrenDone
  <2> QED
    BY <2>5
<1>5. CASE Transcoder!TcAck
  <2>1. /\ gui_pc = "ack"
        /\ transcoder_control_pipe = <<>>
        /\ mp3_fetcher_control_pipe = <<>>
    BY <1>5 DEF Transcoder!TcAck, Handshake, ReInit, Waiting
  <2>2. /\ mp3_fetcher_control_pipe' = <<"1">>
        /\ UNCHANGED <<transcoder_control_pipe, transcoder_pipe>>
        /\ ~ChildrenDone'
    BY <1>5, <2>1 DEF Transcoder!TcAck, ChildrenDone, TranscoderEnded
  <2>3. Fetcher!Answer
    BY <1>1, <1>2, <2>1, <2>2 DEF Fetcher!Answer, ChildrenDone
  <2> QED
    BY <2>3
<1>6. CASE ~ChildrenDone' /\ UNCHANGED Fetcher!pipes
  BY <1>1, <1>2, <1>6 DEF ChildrenDone
<1>7. CASE ChildrenDone' /\ UNCHANGED Fetcher!pipes
  BY <1>1, <1>2, <1>7 DEF Fetcher!ChildrenEnd, ChildrenDone
<1>8. \/ Transcoder!TcControl \/ Transcoder!TcFlush
      \/ Transcoder!TcLibraryRead \/ Transcoder!TcAck
      \/ UNCHANGED Fetcher!pipes
  BY DEF Transcoder!TranscoderNext, Transcoder!TranscoderStep,
         Transcoder!TcSelect, Transcoder!TcFlushed,
         Transcoder!TcFreeContext, Transcoder!TcTellRtp,
         Transcoder!TcData, Transcoder!TcInitContext,
         Transcoder!TcInitContextFails, Transcoder!TcDecode,
         Transcoder!TcDecodeFails, Transcoder!TcReadFrameFails,
         Transcoder!TcEncode, Transcoder!TcEncoded, Transcoder!TcSayExit
<1> QED
  BY <1>3, <1>4, <1>5, <1>6, <1>7, <1>8

(* The fetcher finds its environment as Fetcher assumes it                 *)
(* (mp3fetcher.c:616-625, main.c:95-98).                                   *)
THEOREM FetcherIsServed == Spec => Fetcher!Spec
<1>1. Init => Fetcher!Init
  BY DEF Init, Fetcher!Init, Transcoder!TranscoderInit, TranscoderEnded
<1>2. TypeInv /\ Handshake /\ [Next]_vars => [Fetcher!Next]_(Fetcher!vars)
  <2> SUFFICES ASSUME TypeInv, Handshake, [Next]_vars
               PROVE  [Fetcher!Next]_(Fetcher!vars)
    OBVIOUS
  <2>1. CASE Fetcher!FetcherNext /\ FetcherAlone
    BY <2>1
    DEF FetcherAlone, tcVars, serverVars, Fetcher!Next, TranscoderEnded
  <2>2. CASE Transcoder!TranscoderNext /\ TranscoderAlone
    BY <2>2, TranscoderForFetcher
  <2>3. CASE RtpServer!ServerNext /\ ServerAlone
    <3>1. /\ UNCHANGED <<Fetcher!pipes, Fetcher!guiVars, TranscoderEnded>>
          /\ ~ChildrenDone
      BY <2>3, EndedStays
      DEF ServerAlone, guiVars, tcVars, Fetcher!pipes, Fetcher!guiVars,
          TranscoderEnded, ChildrenDone
    <3>2. CASE ChildrenDone'
      <4>1. Fetcher!ChildrenEnd
        BY <3>1, <3>2 DEF Fetcher!ChildrenEnd, ChildrenDone
      <4> QED
        BY <4>1 DEF Fetcher!Next, Fetcher!Environment
    <3>3. CASE ~ChildrenDone'
      BY <3>1, <3>3 DEF Fetcher!vars, ChildrenDone
    <3> QED
      BY <3>2, <3>3
  <2>4. CASE UNCHANGED vars
    BY <2>4
    DEF vars, guiVars, tcVars, serverVars, Fetcher!vars, Fetcher!pipes,
        Fetcher!guiVars, TranscoderEnded
  <2> QED
    BY <2>1, <2>2, <2>3, <2>4 DEF Next
<1> QED
  BY <1>1, <1>2, ProtocolHolds, PTL DEF Spec, Fetcher!Spec

-----------------------------------------------------------------------------
(* For the transcoder, the fetcher asks, feeds and commands only when it   *)
(* does not wait, and sends nothing after the exit.                        *)
LEMMA FetcherForTranscoder ==
  ASSUME TypeInv, Handshake, Fetcher!FetcherNext, FetcherAlone
  PROVE  [Transcoder!Next]_(Transcoder!vars)
<1> USE DEF Transcoder!Next, Transcoder!Environment, Transcoder!FetcherNext,
            Transcoder!vars, Transcoder!inputs, Transcoder!outputs,
            Transcoder!tcVars, Transcoder!envVars, FetcherAlone, tcVars
<1>1. CASE Fetcher!Connect
  <2>1. session < FdLimit
    BY <1>1, StreamerConstants DEF Fetcher!Connect, TypeInv
  <2>2. Transcoder!Ask
    BY <1>1, <2>1 DEF Fetcher!Connect, Transcoder!Ask
  <2> QED
    BY <2>2
<1>2. CASE Fetcher!Synchronized
  <2>1. Transcoder!Answered
    BY <1>2 DEF Fetcher!Synchronized, Transcoder!Answered
  <2> QED
    BY <2>1
<1>3. CASE Fetcher!Pause
  <2>1. Transcoder!Command
    BY <1>3 DEF Fetcher!Pause, Transcoder!Command
  <2> QED
    BY <2>1
<1>4. CASE Fetcher!Forward
  <2>1. session > 0
    BY <1>4, StreamerConstants DEF Fetcher!Forward, TypeInv
  <2>2. Transcoder!Feed
    BY <1>4, <2>1 DEF Fetcher!Forward, Transcoder!Feed
  <2> QED
    BY <2>2
<1>5. CASE Fetcher!SayExit
  <2>1. Transcoder!Quit
    BY <1>5 DEF Fetcher!SayExit, Transcoder!Quit
  <2> QED
    BY <2>1
<1>6. CASE FetcherQuiet
  <2>1. /\ (gui_pc = "ack")' = (gui_pc = "ack")
        /\ (gui_pc \in {"wait", "exited"})' = (gui_pc \in {"wait", "exited"})
    BY <1>6 DEF FetcherQuiet
  <2> QED
    BY <1>6, <2>1 DEF FetcherQuiet
<1> QED
  BY <1>1, <1>2, <1>3, <1>4, <1>5, <1>6, FetcherCases

(* The RTP server takes commands one by one, and samples as it likes.      *)
LEMMA ServerForTranscoder ==
  ASSUME TypeInv, RtpServer!ServerNext, ServerAlone
  PROVE  [Transcoder!Next]_(Transcoder!vars)
<1> USE DEF Transcoder!Next, Transcoder!Environment, Transcoder!RtpNext,
            Transcoder!vars, Transcoder!inputs, Transcoder!outputs,
            Transcoder!tcVars, Transcoder!envVars, ServerAlone, tcVars,
            guiVars
<1>1. CASE RtpServer!RtpControl
  <2>1. Transcoder!RtpTakesCommand
    BY <1>1 DEF RtpServer!RtpControl, Transcoder!RtpTakesCommand
  <2> QED
    BY <2>1
<1>2. CASE RtpServer!RtpFlush \/ RtpServer!RtpReadAudio
  <2>1. Len(rtp_server_pipe) \in Nat \ {0}
    BY <1>2, LenProperties, EmptySeq
    DEF RtpServer!RtpFlush, RtpServer!RtpReadAudio, TypeInv
  <2>2. PICK n \in 1 .. Len(rtp_server_pipe) :
          rtp_server_pipe' = Drop(rtp_server_pipe, n)
    <3>1. CASE RtpServer!RtpFlush
      <4>1. Least(FlushBuf, Len(rtp_server_pipe)) \in
              1 .. Len(rtp_server_pipe)
        BY <2>1, StreamerConstants DEF Least
      <4> QED
        BY <3>1, <4>1, DataMoves DEF FlushRead
    <3>2. CASE RtpServer!RtpReadAudio
      <4>1. Playable \in 1 .. Len(rtp_server_pipe)
        BY <2>1, StreamerConstants DEF Least, Playable
      <4> QED
        BY <3>2, <4>1, DataMoves
    <3> QED
      BY <1>2, <3>1, <3>2
  <2>3. UNCHANGED rtp_server_control_pipe
    BY <1>2 DEF RtpServer!RtpFlush, RtpServer!RtpReadAudio
  <2>4. Transcoder!RtpTakesSamples
    BY <2>2, <2>3 DEF Transcoder!RtpTakesSamples, Transcoder!Drop, Drop
  <2> QED
    BY <2>4
<1>3. CASE UNCHANGED <<rtp_server_control_pipe, rtp_server_pipe>>
  BY <1>3
<1> QED
  BY <1>1, <1>2, <1>3
  DEF RtpServer!ServerNext, RtpServer!ServerStep, RtpServer!RtpSelect,
      RtpServer!RtpIoctl, RtpServer!RtpFlushed, RtpServer!RtpNoAudio,
      RtpServer!RtpSend, RtpServer!RtpSendFails

(* The transcoder finds its environment as Transcoder assumes it: after "R"*)
(* neither data nor another command, until the fetcher has the answer      *)
(* (mp3fetcher.c:616-625, Transcoder.c:195-211).                           *)
THEOREM TranscoderIsServed == Spec => Transcoder!Spec
<1>1. Init => Transcoder!Init
  BY DEF Init, Transcoder!Init, Fetcher!FetcherInit
<1>2. TypeInv /\ Handshake /\ [Next]_vars
        => [Transcoder!Next]_(Transcoder!vars)
  <2> SUFFICES ASSUME TypeInv, Handshake, [Next]_vars
               PROVE  [Transcoder!Next]_(Transcoder!vars)
    OBVIOUS
  <2>1. CASE Fetcher!FetcherNext /\ FetcherAlone
    BY <2>1, FetcherForTranscoder
  <2>2. CASE Transcoder!TranscoderNext /\ TranscoderAlone
    BY <2>2
    DEF TranscoderAlone, guiVars, Transcoder!Next, Transcoder!envVars
  <2>3. CASE RtpServer!ServerNext /\ ServerAlone
    BY <2>3, ServerForTranscoder
  <2>4. CASE UNCHANGED vars
    BY <2>4
    DEF vars, guiVars, tcVars, Transcoder!vars, Transcoder!inputs,
        Transcoder!outputs, Transcoder!tcVars, Transcoder!envVars
  <2> QED
    BY <2>1, <2>2, <2>3, <2>4 DEF Next
<1> QED
  BY <1>1, <1>2, ProtocolHolds, PTL DEF Spec, Transcoder!Spec

-----------------------------------------------------------------------------
(* For the RTP server, the transcoder writes samples and commands, the exit*)
(* last, and nobody else takes anything from its pipes.                    *)
LEMMA TranscoderForServer ==
  ASSUME TypeInv, Transcoder!TranscoderNext, TranscoderAlone
  PROVE  [RtpServer!Next]_(RtpServer!vars)
<1> USE DEF RtpServer!Next, RtpServer!WriterNext, RtpServer!vars,
            RtpServer!serverVars, serverVars, TranscoderAlone,
            TranscoderEnded
<1>1. ~TranscoderEnded
  BY EndedStays
<1>2. CASE Transcoder!TcTellRtp
  <2>1. RtpServer!WriteControl
    BY <1>1, <1>2 DEF Transcoder!TcTellRtp, RtpServer!WriteControl
  <2> QED
    BY <2>1
<1>3. CASE Transcoder!TcEncode
  <2>1. pcm \in Seq(Sessions) /\ pcm # <<>>
    BY <1>3, LenProperties, EmptySeq, StreamerConstants
    DEF Transcoder!TcEncode, Transcoder!EnoughPcm, TypeInv
  <2>2. Head(pcm) \in 1 .. FdLimit
    BY <2>1, HeadTailProperties DEF Sessions
  <2>3. RtpServer!WriteSample
    BY <1>1, <1>3, <2>2 DEF Transcoder!TcEncode, RtpServer!WriteSample
  <2> QED
    BY <2>3
<1>4. CASE Transcoder!TcSayExit
  <2>1. RtpServer!WriteExit
    BY <1>1, <1>4 DEF Transcoder!TcSayExit, RtpServer!WriteExit
  <2> QED
    BY <2>1
<1>5. CASE /\ UNCHANGED <<rtp_server_control_pipe, rtp_server_pipe>>
           /\ TranscoderEnded'
  <2>1. RtpServer!WriterDies
    BY <1>1, <1>5 DEF RtpServer!WriterDies
  <2> QED
    BY <2>1
<1>6. CASE /\ UNCHANGED <<rtp_server_control_pipe, rtp_server_pipe>>
           /\ ~TranscoderEnded'
  <2>1. UNCHANGED TranscoderEnded
    BY <1>1, <1>6
  <2> QED
    BY <1>6, <2>1
<1>7. \/ Transcoder!TcTellRtp \/ Transcoder!TcEncode
      \/ Transcoder!TcSayExit
      \/ UNCHANGED <<rtp_server_control_pipe, rtp_server_pipe>>
  BY DEF Transcoder!TranscoderNext, Transcoder!TranscoderStep,
         Transcoder!TcSelect, Transcoder!TcControl, Transcoder!TcFlush,
         Transcoder!TcFlushed, Transcoder!TcFreeContext, Transcoder!TcAck,
         Transcoder!TcData, Transcoder!TcLibraryRead,
         Transcoder!TcInitContext, Transcoder!TcInitContextFails,
         Transcoder!TcDecode, Transcoder!TcDecodeFails,
         Transcoder!TcReadFrameFails, Transcoder!TcEncoded,
         Transcoder!outputs
<1> QED
  BY <1>2, <1>3, <1>4, <1>5, <1>6, <1>7

(* The RTP server finds its writer as RtpServer assumes it                 *)
(* (rtp_connection.c:104-130, main.c:77-82).                               *)
THEOREM ServerIsServed == Spec => RtpServer!Spec
<1>1. Init => RtpServer!Init
  BY DEF Init, RtpServer!Init, Transcoder!TranscoderInit, TranscoderEnded
<1>2. TypeInv /\ [Next]_vars => [RtpServer!Next]_(RtpServer!vars)
  <2> SUFFICES ASSUME TypeInv, [Next]_vars
               PROVE  [RtpServer!Next]_(RtpServer!vars)
    OBVIOUS
  <2>1. CASE Transcoder!TranscoderNext /\ TranscoderAlone
    BY <2>1, TranscoderForServer
  <2>2. CASE RtpServer!ServerNext /\ ServerAlone
    BY <2>2 DEF ServerAlone, tcVars, TranscoderEnded, RtpServer!Next
  <2>3. CASE FetcherAlone \/ UNCHANGED vars
    BY <2>3
    DEF FetcherAlone, vars, tcVars, serverVars, RtpServer!vars,
        RtpServer!serverVars, TranscoderEnded
  <2> QED
    BY <2>1, <2>2, <2>3 DEF Next
<1> QED
  BY <1>1, <1>2, ProtocolHolds, PTL DEF Spec, RtpServer!Spec

(* The three processes keep what each assumes of the others.               *)
THEOREM Composition == Spec => ComponentSpecs
<1> QED
  BY FetcherIsServed, TranscoderIsServed, ServerIsServed DEF ComponentSpecs

-----------------------------------------------------------------------------
(* An input is read and decoded only while it is open.                     *)
LiveInput == tc_pc \in {"frame", "encode"} => initialized

(* While the fetcher may send, the input and the buffer of the library have*)
(* nothing of an earlier session.                                          *)
Fresh ==
  ~Waiting =>
    /\ Units(transcoder_pipe) \subseteq {session}
    /\ initialized \/ tc_pc = "probe" => Units(avio) \subseteq {session}

(* Between two frames, p has less than the largest sample; while the       *)
(* fetcher may send, this is also all that is left of an earlier session.  *)
Residue ==
  /\ tc_pc # "encode" => Len(pcm) < MaxPcmPerSample
  /\ ~Waiting =>
       \A i \in DOMAIN pcm : i >= MaxPcmPerSample => pcm[i] = session

(* What waits for the RTP server of an earlier session is made of less than*)
(* the largest sample, and what is left of that session in p counts with   *)
(* the samples made before it.                                             *)
FewOld ==
  /\ \A i \in DOMAIN rtp_server_pipe :
       rtp_server_pipe[i] # session =>
         (i - 1) * MinPcmPerSample < MaxPcmPerSample - 1
  /\ \A i \in DOMAIN pcm :
       pcm[i] # session =>
         Len(rtp_server_pipe) * MinPcmPerSample + i < MaxPcmPerSample

(* From the answer on, the RTP server has flushed, is flushing, or has been*)
(* told to.                                                                *)
Answering == tc_pc = "ack" \/ mp3_fetcher_control_pipe # <<>>
Flushed ==
  ~Waiting \/ Answering =>
    \/ rtp_pc \in {"flush", "done"}
    \/ "F" \in Units(rtp_server_control_pipe)
    \/ FewOld

(* Every step of the transcoder keeps its input open while it reads.       *)
LEMMA LiveInputStep == LiveInput /\ [Next]_vars => LiveInput'
<1> SUFFICES ASSUME LiveInput, [Next]_vars PROVE LiveInput'
  OBVIOUS
<1>1. CASE Transcoder!TranscoderNext
  BY <1>1
  DEF LiveInput, Transcoder!TranscoderNext,
      Transcoder!TranscoderStep, Transcoder!TcSelect, Transcoder!TcControl,
      Transcoder!TcFlush, Transcoder!TcFlushed, Transcoder!TcFreeContext,
      Transcoder!TcTellRtp, Transcoder!TcAck, Transcoder!TcData,
      Transcoder!TcLibraryRead, Transcoder!TcInitContext,
      Transcoder!TcInitContextFails, Transcoder!TcDecode,
      Transcoder!TcDecodeFails, Transcoder!TcReadFrameFails,
      Transcoder!TcEncode, Transcoder!TcEncoded, Transcoder!TcSayExit,
      Transcoder!tcVars
<1>2. CASE UNCHANGED tcVars
  BY <1>2 DEF LiveInput, tcVars
<1> QED
  BY <1>1, <1>2 DEF Next, FetcherAlone, ServerAlone, vars

(* The steps of the transcoder keep the input fresh: what the flush does   *)
(* not take is in the buffer of an input that is opened anew.              *)
LEMMA TranscoderKeepsFresh ==
  ASSUME TypeInv, Handshake, LiveInput, Fresh,
         Transcoder!TranscoderNext, TranscoderAlone
  PROVE  Fresh'
<1> USE DEF Fresh, Waiting
<1>1. /\ transcoder_pipe \in Seq(Sessions)
      /\ avio \in Seq(Sessions)
      /\ UNCHANGED <<gui_pc, session>>
  BY DEF TypeInv, TranscoderAlone, guiVars
<1>2. CASE Transcoder!TcFlush
  <2>1. Units(transcoder_pipe') \subseteq Units(transcoder_pipe)
    BY <1>1, <1>2, FlushUnits, DataMoves, StreamerConstants
  <2> QED
    BY <1>1, <1>2, <2>1 DEF Transcoder!TcFlush, Transcoder!tcVars
<1>3. CASE Transcoder!TcAck
  BY <1>1, <1>3 DEF Transcoder!TcAck, Handshake, ReInit
<1>4. CASE Transcoder!TcData
  <2>1. CASE initialized
    BY <1>1, <1>4, <2>1 DEF Transcoder!TcData, Transcoder!inputs
  <2>2. CASE ~initialized
    BY <1>1, <1>4, <2>2, UnitsEmpty DEF Transcoder!TcData, Transcoder!inputs
  <2> QED
    BY <2>1, <2>2
<1>5. CASE Transcoder!TcLibraryRead
  <2>1. initialized \/ tc_pc = "probe"
    BY <1>5 DEF Transcoder!TcLibraryRead, LiveInput
  <2>2. /\ avio' = avio \o Take(transcoder_pipe, Readable)
        /\ transcoder_pipe' = Drop(transcoder_pipe, Readable)
    BY <1>5, DataMoves
  <2>3. /\ Take(transcoder_pipe, Readable) \in Seq(Sessions)
        /\ Units(Take(transcoder_pipe, Readable))
             \subseteq Units(transcoder_pipe)
        /\ Units(transcoder_pipe') \subseteq Units(transcoder_pipe)
    BY <1>1, <2>2, ReadableFits, TakeProperties, ReadUnits
  <2>4. Units(avio') =
          Units(avio) \cup Units(Take(transcoder_pipe, Readable))
    BY <1>1, <2>2, <2>3, WriteMany
  <2> QED
    BY <1>1, <1>5, <2>1, <2>3, <2>4 DEF Transcoder!TcLibraryRead
<1>6. CASE Transcoder!TcDecode \/ Transcoder!TcDecodeFails
  <2>1. FrameChunks \in 0 .. Len(avio) /\ avio' = Drop(avio, FrameChunks)
    BY <1>1, <1>6, LenProperties, DataMoves, StreamerConstants
    DEF Transcoder!TcDecode, Transcoder!TcDecodeFails
  <2>2. Units(avio') \subseteq Units(avio)
    BY <1>1, <2>1, ReadUnits
  <2>3. tc_pc' # "probe" /\ UNCHANGED <<transcoder_pipe, initialized>>
    BY <1>6
    DEF Transcoder!TcDecode, Transcoder!TcDecodeFails, Transcoder!inputs
  <2> QED
    BY <1>1, <2>2, <2>3
<1>7. CASE \/ Transcoder!TcSelect \/ Transcoder!TcControl
           \/ Transcoder!TcFlushed \/ Transcoder!TcFreeContext
           \/ Transcoder!TcTellRtp \/ Transcoder!TcInitContext
           \/ Transcoder!TcInitContextFails \/ Transcoder!TcReadFrameFails
           \/ Transcoder!TcEncode \/ Transcoder!TcEncoded
           \/ Transcoder!TcSayExit
  <2>1. /\ initialized' \/ tc_pc' = "probe" => initialized \/ tc_pc = "probe"
        /\ UNCHANGED <<transcoder_pipe, avio>>
    BY <1>7
    DEF Transcoder!TcSelect, Transcoder!TcControl, Transcoder!TcFlushed,
        Transcoder!TcFreeContext, Transcoder!TcTellRtp,
        Transcoder!TcInitContext, Transcoder!TcInitContextFails,
        Transcoder!TcReadFrameFails, Transcoder!TcEncode,
        Transcoder!TcEncoded, Transcoder!TcSayExit, Transcoder!inputs
  <2> QED
    BY <1>1, <2>1
<1> QED
  BY <1>2, <1>3, <1>4, <1>5, <1>6, <1>7
  DEF Transcoder!TranscoderNext, Transcoder!TranscoderStep

(* The fetcher goes on with an empty input, and sends only what belongs to *)
(* the session.                                                            *)
LEMMA FetcherKeepsFresh ==
  ASSUME TypeInv, Handshake, Fresh, Fetcher!FetcherNext, FetcherAlone
  PROVE  Fresh'
<1> USE DEF Fresh, Waiting
<1>1. UNCHANGED <<tc_pc, initialized, avio>>
  BY DEF FetcherAlone, tcVars
<1>2. CASE Fetcher!Connect
  BY <1>2 DEF Fetcher!Connect
<1>3. CASE Fetcher!Synchronized
  <2>1. transcoder_pipe = <<>> /\ tc_pc = "select" /\ ~initialized
    BY <1>3 DEF Fetcher!Synchronized, Handshake
  <2> QED
    BY <1>1, <1>3, <2>1, UnitsEmpty DEF Fetcher!Synchronized
<1>4. CASE Fetcher!Forward
  <2>1. session \in Sessions /\ transcoder_pipe \in Seq(Sessions)
    BY <1>4, StreamerConstants DEF Fetcher!Forward, Sessions, TypeInv
  <2>2. Units(transcoder_pipe') = Units(transcoder_pipe) \cup {session}
    BY <1>4, <2>1, WriteOne DEF Fetcher!Forward
  <2> QED
    BY <1>1, <1>4, <2>2 DEF Fetcher!Forward
<1>5. CASE Fetcher!Pause \/ Fetcher!SayExit \/ FetcherQuiet
  BY <1>1, <1>5 DEF Fetcher!Pause, Fetcher!SayExit, FetcherQuiet
<1> QED
  BY <1>2, <1>3, <1>4, <1>5, FetcherCases

LEMMA FreshStep ==
  TypeInv /\ Handshake /\ LiveInput /\ Fresh /\ [Next]_vars => Fresh'
<1> SUFFICES ASSUME TypeInv, Handshake, LiveInput, Fresh, [Next]_vars
             PROVE  Fresh'
  OBVIOUS
<1>1. CASE Fetcher!FetcherNext /\ FetcherAlone
  BY <1>1, FetcherKeepsFresh
<1>2. CASE Transcoder!TranscoderNext /\ TranscoderAlone
  BY <1>2, TranscoderKeepsFresh
<1>3. CASE ServerAlone \/ UNCHANGED vars
  BY <1>3 DEF ServerAlone, vars, guiVars, tcVars, Fresh, Waiting
<1> QED
  BY <1>1, <1>2, <1>3 DEF Next

(* The steps of the transcoder keep the residue below a sample: encode     *)
(* leaves no more, and a frame comes behind it only from a fresh input.    *)
LEMMA TranscoderKeepsResidue ==
  ASSUME TypeInv, Handshake, LiveInput, Fresh, Residue,
         Transcoder!TranscoderNext, TranscoderAlone
  PROVE  Residue'
<1> USE DEF Residue, Waiting
<1>1. /\ MaxPcmPerSample \in Nat \ {0} /\ FrameChunks \in Nat \ {0}
      /\ pcm \in Seq(Sessions) /\ Len(pcm) \in Nat
      /\ DOMAIN pcm = 1 .. Len(pcm)
      /\ UNCHANGED <<gui_pc, session>>
  BY StreamerConstants, LenProperties DEF TypeInv, TranscoderAlone, guiVars
<1>2. CASE Transcoder!TcDecode
  <2>0. PICK n \in Nat : pcm' = pcm \o Transcoder!Copies(Head(avio), n)
    BY <1>2, DecodedFrame
  <2> DEFINE decoded == Transcoder!Copies(Head(avio), n)
  <2>1. avio \in Seq(Sessions) /\ avio # <<>>
    BY <1>1, <1>2, LenProperties, EmptySeq DEF Transcoder!TcDecode, TypeInv
  <2>2. Head(avio) \in Sessions /\ Head(avio) \in Units(avio)
    BY <2>1, HeadTailProperties, UnitsHead
  <2>3. /\ decoded \in Seq(Sessions) /\ Len(decoded) = n
        /\ \A i \in 1 .. n : decoded[i] = Head(avio)
    BY <2>2, CopiesProperties
  <2>4. pcm' = pcm \o decoded
    BY <2>0
  <2> HIDE DEF decoded
  <2>5. /\ DOMAIN pcm' = 1 .. Len(pcm) + Len(decoded)
        /\ \A i \in 1 .. Len(decoded) : pcm'[Len(pcm) + i] = decoded[i]
    <3>1. pcm \in Seq(Sessions) /\ decoded \in Seq(Sessions)
      BY <1>1, <2>3
    <3>2. /\ DOMAIN (pcm \o decoded) = 1 .. Len(pcm) + Len(decoded)
          /\ \A i \in 1 .. Len(decoded) :
               (pcm \o decoded)[Len(pcm) + i] = decoded[i]
      BY <3>1, WriteMany
    <3> QED
      BY <2>4, <3>2
  <2>6. Len(pcm) < MaxPcmPerSample
    BY <1>2 DEF Transcoder!TcDecode
  <2>7. ASSUME ~Waiting, NEW i \in DOMAIN pcm', i >= MaxPcmPerSample
        PROVE  pcm'[i] = session
    <3>1. i - Len(pcm) \in 1 .. n
      BY <1>1, <2>3, <2>5, <2>6, <2>7
    <3>2. pcm'[Len(pcm) + (i - Len(pcm))] = Head(avio)
      BY <2>3, <2>5, <3>1
    <3>3. Len(pcm) + (i - Len(pcm)) = i
      BY <1>1, <2>3, <2>5
    <3>4. Head(avio) = session
      BY <1>2, <2>2, <2>7 DEF Transcoder!TcDecode, Fresh, LiveInput
    <3> QED
      BY <3>2, <3>3, <3>4
  <2>8. tc_pc' = "encode"
    BY <1>2 DEF Transcoder!TcDecode
  <2> QED
    BY <1>1, <2>7, <2>8
<1>3. CASE Transcoder!TcEncode
  <2>1. bytes_to_read \in 0 .. Len(pcm) /\ pcm' = Drop(pcm, bytes_to_read)
    BY <1>1, <1>3, DataMoves
    DEF Transcoder!TcEncode, Transcoder!EnoughPcm, TypeInv
  <2>2. /\ pcm' \in Seq(Sessions)
        /\ Len(pcm') = Len(pcm) - bytes_to_read
        /\ \A i \in 1 .. Len(pcm) - bytes_to_read :
             pcm'[i] = pcm[bytes_to_read + i]
    BY <1>1, <2>1, DropProperties
  <2>3. DOMAIN pcm' = 1 .. Len(pcm) - bytes_to_read
    BY <2>2, LenProperties
  <2>4. ASSUME ~Waiting, NEW i \in DOMAIN pcm', i >= MaxPcmPerSample
        PROVE  pcm'[i] = session
    <3>1. /\ bytes_to_read + i \in DOMAIN pcm
          /\ bytes_to_read + i >= MaxPcmPerSample
      BY <1>1, <2>1, <2>3, <2>4
    <3> QED
      BY <2>2, <2>3, <2>4, <3>1
  <2>5. tc_pc' = "encode"
    BY <1>3 DEF Transcoder!TcEncode
  <2> QED
    BY <1>1, <2>4, <2>5
<1>4. CASE Transcoder!TcEncoded
  <2>1. Len(pcm) < MaxPcmPerSample
    BY <1>1, <1>4, StreamerConstants
    DEF Transcoder!TcEncoded, Transcoder!EnoughPcm, TypeInv
  <2> QED
    BY <1>1, <1>4, <2>1 DEF Transcoder!TcEncoded
<1>5. CASE ~(Transcoder!TcDecode \/ Transcoder!TcEncode
               \/ Transcoder!TcEncoded)
  <2>1. tc_pc # "encode" /\ tc_pc' # "encode" /\ UNCHANGED pcm
    BY <1>5
    DEF Transcoder!TranscoderNext, Transcoder!TranscoderStep,
        Transcoder!TcSelect, Transcoder!TcControl, Transcoder!TcFlush,
        Transcoder!TcFlushed, Transcoder!TcFreeContext,
        Transcoder!TcTellRtp, Transcoder!TcAck, Transcoder!TcData,
        Transcoder!TcLibraryRead, Transcoder!TcInitContext,
        Transcoder!TcInitContextFails, Transcoder!TcDecodeFails,
        Transcoder!TcReadFrameFails, Transcoder!TcSayExit,
        Transcoder!tcVars
  <2> QED
    BY <1>1, <2>1
<1> QED
  BY <1>2, <1>3, <1>4, <1>5

LEMMA ResidueStep ==
  TypeInv /\ Handshake /\ LiveInput /\ Fresh /\ Residue /\ [Next]_vars
    => Residue'
<1> SUFFICES ASSUME TypeInv, Handshake, LiveInput, Fresh, Residue, [Next]_vars
             PROVE  Residue'
  OBVIOUS
<1>1. CASE Fetcher!FetcherNext /\ FetcherAlone
  <2> USE DEF Residue, Waiting
  <2>1. UNCHANGED <<tc_pc, pcm>>
    BY <1>1 DEF FetcherAlone, tcVars
  <2>2. CASE Fetcher!Connect
    BY <2>1, <2>2 DEF Fetcher!Connect
  <2>3. CASE Fetcher!Synchronized
    <3>1. Len(pcm) < MaxPcmPerSample
      BY <2>3 DEF Fetcher!Synchronized, Handshake
    <3>2. Len(pcm) \in Nat /\ DOMAIN pcm = 1 .. Len(pcm)
      BY LenProperties DEF TypeInv
    <3> QED
      BY <2>1, <2>3, <3>1, <3>2, StreamerConstants
  <2>4. CASE \/ Fetcher!Pause \/ Fetcher!Forward \/ Fetcher!SayExit
             \/ FetcherQuiet
    BY <2>1, <2>4
    DEF Fetcher!Pause, Fetcher!Forward, Fetcher!SayExit, FetcherQuiet
  <2> QED
    BY <1>1, <2>2, <2>3, <2>4, FetcherCases
<1>2. CASE Transcoder!TranscoderNext /\ TranscoderAlone
  BY <1>2, TranscoderKeepsResidue
<1>3. CASE ServerAlone \/ UNCHANGED vars
  BY <1>3 DEF ServerAlone, vars, guiVars, tcVars, Residue, Waiting
<1> QED
  BY <1>1, <1>2, <1>3 DEF Next

-----------------------------------------------------------------------------
(* A larger number times a natural is no smaller, and one more is that     *)
(* natural more.                                                           *)
LEMMA Multiples ==
  ASSUME NEW a \in Nat, NEW b \in Nat, NEW n \in Nat
  PROVE  /\ a * n \in Nat
         /\ (a + 1) * n = a * n + n
         /\ a <= b => a * n <= b * n
<1>1. \A k \in Nat : k * n \in Nat
  OBVIOUS
<1>2. (a + 1) * n = a * n + n
  OBVIOUS
<1>3. ASSUME a <= b PROVE a * n <= b * n
  <2>1. b - a \in Nat
    BY <1>3
  <2>2. (b - a) * n \in Nat
    BY <1>1, <2>1
  <2>3. b * n = a * n + (b - a) * n
    OBVIOUS
  <2>4. a * n \in Nat /\ b * n \in Nat
    BY <1>1
  <2> QED
    BY <2>2, <2>3, <2>4
<1> QED
  BY <1>1, <1>2, <1>3

(* The transcoder tells the RTP server to flush before it answers, and     *)
(* afterwards encodes no more than the residue.                            *)
LEMMA TranscoderKeepsFlushed ==
  ASSUME TypeInv, Handshake, LiveInput, Fresh, Residue, Flushed,
         Transcoder!TranscoderNext, TranscoderAlone
  PROVE  Flushed'
<1> USE DEF Flushed, Answering, Waiting
<1>1. UNCHANGED <<gui_pc, session, rtp_pc>>
  BY DEF TranscoderAlone, guiVars, serverVars
<1>2. /\ rtp_server_control_pipe \in Seq({"F", "E", "O"})
      /\ rtp_server_pipe \in Seq(Sessions)
      /\ pcm \in Seq(Sessions) /\ Len(pcm) \in Nat
      /\ DOMAIN pcm = 1 .. Len(pcm)
  BY LenProperties DEF TypeInv
<1>3. CASE Transcoder!TcTellRtp
  <2>1. "F" \in Units(rtp_server_control_pipe')
    BY <1>2, <1>3, WriteOne DEF Transcoder!TcTellRtp
  <2> QED
    BY <1>1, <2>1
<1>4. CASE Transcoder!TcSayExit
  <2>1. Units(rtp_server_control_pipe) \subseteq
          Units(rtp_server_control_pipe')
    BY <1>2, <1>4, AppendExit DEF Transcoder!TcSayExit
  <2>2. FewOld => FewOld'
    BY <1>1, <1>4 DEF Transcoder!TcSayExit, FewOld
  <2> QED
    BY <1>1, <1>4, <2>1, <2>2 DEF Transcoder!TcSayExit
<1>5. CASE Transcoder!TcAck
  <2>1. FewOld => FewOld'
    BY <1>1, <1>5 DEF Transcoder!TcAck, FewOld
  <2> QED
    BY <1>1, <1>5, <2>1 DEF Transcoder!TcAck
<1>6. CASE Transcoder!TcDecode
  <2>0. PICK n \in Nat : pcm' = pcm \o Transcoder!Copies(Head(avio), n)
    BY <1>6, DecodedFrame
  <2> DEFINE decoded == Transcoder!Copies(Head(avio), n)
  <2>1. tc_pc = "frame" /\ tc_pc' = "encode"
        /\ UNCHANGED <<rtp_server_control_pipe, rtp_server_pipe,
                       mp3_fetcher_control_pipe>>
    BY <1>6 DEF Transcoder!TcDecode, Transcoder!outputs
  <2>2. ASSUME ~Waiting, FewOld PROVE FewOld'
    <3>1. avio \in Seq(Sessions) /\ avio # <<>>
      BY <1>6, LenProperties, EmptySeq, StreamerConstants
      DEF Transcoder!TcDecode, TypeInv
    <3>2. Head(avio) \in Sessions /\ Head(avio) = session
      BY <2>1, <2>2, <3>1, HeadTailProperties, UnitsHead
      DEF Fresh, LiveInput
    <3>3. /\ decoded \in Seq(Sessions) /\ Len(decoded) = n
          /\ \A i \in 1 .. n : decoded[i] = session
      BY <3>2, CopiesProperties
    <3>4. pcm' = pcm \o decoded
      BY <2>0
    <3> HIDE DEF decoded
    <3>5. /\ DOMAIN (pcm \o decoded) = 1 .. Len(pcm) + Len(decoded)
          /\ \A i \in 1 .. Len(pcm) : (pcm \o decoded)[i] = pcm[i]
          /\ \A i \in 1 .. Len(decoded) :
               (pcm \o decoded)[Len(pcm) + i] = decoded[i]
      BY <1>2, <3>3, WriteMany
    <3>6. ASSUME NEW i \in DOMAIN pcm', pcm'[i] # session
          PROVE  i \in DOMAIN pcm /\ pcm[i] # session
      <4>1. i \in 1 .. Len(pcm) + n
        BY <3>3, <3>4, <3>5
      <4>2. CASE i \in 1 .. Len(pcm)
        BY <1>2, <3>4, <3>5, <3>6, <4>2
      <4>3. CASE i \notin 1 .. Len(pcm)
        <5>1. i - Len(pcm) \in 1 .. n /\ Len(pcm) + (i - Len(pcm)) = i
          BY <1>2, <4>1, <4>3
        <5>2. pcm'[Len(pcm) + (i - Len(pcm))] = session
          BY <3>3, <3>4, <3>5, <5>1
        <5> QED
          BY <3>6, <5>1, <5>2
      <4> QED
        BY <4>2, <4>3
    <3> QED
      BY <1>1, <2>1, <2>2, <3>6 DEF FewOld
  <2> QED
    BY <1>1, <2>1, <2>2 DEF Handshake
<1>7. CASE Transcoder!TcEncode
  <2>1. tc_pc = "encode" /\ tc_pc' = "encode"
        /\ UNCHANGED <<rtp_server_control_pipe, mp3_fetcher_control_pipe>>
    BY <1>7 DEF Transcoder!TcEncode
  <2>2. ASSUME ~Waiting, FewOld PROVE FewOld'
    <3> DEFINE k == Len(rtp_server_pipe)
               min == MinPcmPerSample
    <3>1. /\ bytes_to_read \in 1 .. Len(pcm) /\ bytes_to_read >= min
          /\ pcm' = Drop(pcm, bytes_to_read)
      BY <1>2, <1>7, DataMoves, StreamerConstants
      DEF Transcoder!TcEncode, Transcoder!EnoughPcm, TypeInv
    <3>2. /\ pcm' \in Seq(Sessions)
          /\ Len(pcm') = Len(pcm) - bytes_to_read
          /\ \A i \in 1 .. Len(pcm) - bytes_to_read :
               pcm'[i] = pcm[bytes_to_read + i]
      <4>1. bytes_to_read \in 0 .. Len(pcm)
        BY <1>2, <3>1
      <4> QED
        BY <1>2, <3>1, <4>1, DropProperties
    <3>3. Head(pcm) = pcm[1] /\ 1 \in DOMAIN pcm /\ pcm[1] \in Sessions
      BY <1>2, <3>1, ElementOfSeq
    <3>4. rtp_server_pipe' = Append(rtp_server_pipe, pcm[1])
      BY <1>7, <3>3 DEF Transcoder!TcEncode
    <3>5. /\ k \in Nat /\ min \in Nat /\ MaxPcmPerSample \in Nat
          /\ Len(rtp_server_pipe') = k + 1
          /\ DOMAIN rtp_server_pipe' = DOMAIN rtp_server_pipe \cup {k + 1}
          /\ rtp_server_pipe'[k + 1] = pcm[1]
          /\ \A i \in DOMAIN rtp_server_pipe :
               rtp_server_pipe'[i] = rtp_server_pipe[i]
      BY <1>2, <3>3, <3>4, WriteOne, LenProperties, StreamerConstants
    <3>6. /\ k * min \in Nat
          /\ (k + 1) * min = k * min + min
      BY <3>5, Multiples
    <3> HIDE DEF k, min
    <3>7. ASSUME NEW i \in DOMAIN pcm', pcm'[i] # session
          PROVE  (k + 1) * min + i < MaxPcmPerSample
      <4>1. i \in 1 .. Len(pcm) - bytes_to_read
        BY <3>2, LenProperties
      <4>2. bytes_to_read + i \in DOMAIN pcm /\ i \in Nat
        BY <1>2, <3>1, <4>1
      <4>3. k * min + (bytes_to_read + i) < MaxPcmPerSample
        BY <2>2, <3>2, <3>7, <4>1, <4>2 DEF FewOld, k, min
      <4> QED
        BY <3>1, <3>5, <3>6, <4>2, <4>3
    <3>8. ASSUME NEW i \in DOMAIN rtp_server_pipe',
                 rtp_server_pipe'[i] # session
          PROVE  (i - 1) * min < MaxPcmPerSample - 1
      <4>1. CASE i \in DOMAIN rtp_server_pipe
        BY <2>2, <3>5, <3>8, <4>1 DEF FewOld, min
      <4>2. CASE i = k + 1
        <5>1. pcm[1] # session
          BY <3>5, <3>8, <4>2
        <5>2. k * min + 1 < MaxPcmPerSample
          BY <2>2, <3>3, <5>1 DEF FewOld, k, min
        <5>3. i - 1 = k
          BY <3>5, <4>2
        <5> QED
          BY <3>5, <3>6, <5>2, <5>3
      <4> QED
        BY <3>5, <3>8, <4>1, <4>2
    <3> QED
      BY <1>1, <3>5, <3>7, <3>8 DEF FewOld, min
  <2> QED
    BY <1>1, <2>1, <2>2 DEF Handshake
<1>8. CASE ~(\/ Transcoder!TcTellRtp \/ Transcoder!TcSayExit
             \/ Transcoder!TcAck \/ Transcoder!TcDecode
             \/ Transcoder!TcEncode)
  <2>1. /\ tc_pc' # "ack"
        /\ UNCHANGED <<rtp_server_control_pipe, rtp_server_pipe, pcm,
                       mp3_fetcher_control_pipe>>
    BY <1>8
    DEF Transcoder!TranscoderNext, Transcoder!TranscoderStep,
        Transcoder!TcSelect, Transcoder!TcControl, Transcoder!TcFlush,
        Transcoder!TcFlushed, Transcoder!TcFreeContext, Transcoder!TcData,
        Transcoder!TcLibraryRead, Transcoder!TcInitContext,
        Transcoder!TcInitContextFails, Transcoder!TcDecodeFails,
        Transcoder!TcReadFrameFails, Transcoder!TcEncoded,
        Transcoder!tcVars, Transcoder!outputs
  <2> QED
    BY <1>1, <2>1 DEF FewOld
<1> QED
  BY <1>3, <1>4, <1>5, <1>6, <1>7, <1>8

(* The fetcher begins a session only when nothing is answered, and the     *)
(* answer it takes came after the flush.                                   *)
LEMMA FetcherKeepsFlushed ==
  ASSUME Handshake, Flushed, Fetcher!FetcherNext, FetcherAlone
  PROVE  Flushed'
<1> USE DEF Flushed, Answering, Waiting
<1>1. UNCHANGED <<rtp_server_control_pipe, rtp_server_pipe, tc_pc, pcm, rtp_pc>>
  BY DEF FetcherAlone, tcVars, serverVars
<1>2. CASE Fetcher!Connect
  <2>1. tc_pc # "ack" /\ mp3_fetcher_control_pipe = <<>> /\ gui_pc' = "ack"
    BY <1>2 DEF Fetcher!Connect, Handshake, ReInit, Waiting
  <2> QED
    BY <1>1, <1>2, <2>1 DEF Fetcher!Connect
<1>3. CASE Fetcher!Synchronized
  BY <1>1, <1>3 DEF Fetcher!Synchronized, FewOld
<1>4. CASE \/ Fetcher!Pause \/ Fetcher!Forward \/ Fetcher!SayExit
           \/ FetcherQuiet
  BY <1>1, <1>4
  DEF Fetcher!Pause, Fetcher!Forward, Fetcher!SayExit, FetcherQuiet, FewOld
<1> QED
  BY <1>2, <1>3, <1>4, FetcherCases

(* Reading takes the oldest samples away.                                  *)
LEMMA ReadKeepsFewOld ==
  ASSUME FewOld, TypeInv, NEW n \in 0 .. Len(rtp_server_pipe),
         rtp_server_pipe' = Drop(rtp_server_pipe, n),
         UNCHANGED <<session, pcm>>
  PROVE  FewOld'
<1> DEFINE pipe == rtp_server_pipe
           min == MinPcmPerSample
<1>1. /\ pipe \in Seq(Sessions) /\ Len(pipe) \in Nat
      /\ DOMAIN pipe = 1 .. Len(pipe)
      /\ min \in Nat /\ MaxPcmPerSample \in Nat
  BY LenProperties, StreamerConstants DEF TypeInv
<1>2. /\ pipe' \in Seq(Sessions)
      /\ Len(pipe') = Len(pipe) - n
      /\ \A i \in 1 .. Len(pipe) - n : pipe'[i] = pipe[n + i]
  BY <1>1, DropProperties
<1>3. DOMAIN pipe' = 1 .. Len(pipe) - n
  BY <1>2, LenProperties
<1>4. ASSUME NEW i \in DOMAIN pipe', pipe'[i] # session
      PROVE  (i - 1) * min < MaxPcmPerSample - 1
  <2>1. /\ n + i \in DOMAIN pipe
        /\ i - 1 \in Nat /\ (n + i) - 1 \in Nat /\ i - 1 <= (n + i) - 1
    BY <1>1, <1>3
  <2>2. pipe[n + i] # session
    BY <1>2, <1>3, <1>4
  <2>3. ((n + i) - 1) * min < MaxPcmPerSample - 1
    BY <2>1, <2>2 DEF FewOld
  <2>4. /\ (i - 1) * min \in Nat /\ ((n + i) - 1) * min \in Nat
        /\ (i - 1) * min <= ((n + i) - 1) * min
    BY <1>1, <2>1, Multiples
  <2> QED
    BY <1>1, <2>3, <2>4
<1>5. ASSUME NEW i \in DOMAIN pcm, pcm[i] # session
      PROVE  Len(pipe') * min + i < MaxPcmPerSample
  <2>1. Len(pipe) * min + i < MaxPcmPerSample /\ i \in Nat
    BY <1>5, LenProperties DEF FewOld, TypeInv
  <2>2. Len(pipe') \in Nat /\ Len(pipe') <= Len(pipe)
    BY <1>1, <1>2
  <2>3. /\ Len(pipe') * min \in Nat /\ Len(pipe) * min \in Nat
        /\ Len(pipe') * min <= Len(pipe) * min
    BY <1>1, <2>2, Multiples
  <2> QED
    BY <1>1, <2>1, <2>3
<1> QED
  BY <1>4, <1>5 DEF FewOld

(* The RTP server forgets to flush only when nothing is left but what is   *)
(* still in p.                                                             *)
LEMMA ServerKeepsFlushed ==
  ASSUME TypeInv, Handshake, Residue, Flushed,
         RtpServer!ServerNext, ServerAlone
  PROVE  Flushed'
<1> USE DEF Flushed, Answering, Waiting
<1>1. /\ UNCHANGED <<gui_pc, tc_pc, mp3_fetcher_control_pipe, session, pcm>>
      /\ rtp_server_control_pipe \in Seq({"F", "E", "O"})
      /\ rtp_server_pipe \in Seq(Sessions) /\ Len(rtp_server_pipe) \in Nat
  BY LenProperties DEF ServerAlone, guiVars, tcVars, TypeInv
<1>2. CASE RtpServer!RtpControl
  <2>1. CASE Head(rtp_server_control_pipe) \in {"E", "F"}
    BY <1>2, <2>1 DEF RtpServer!RtpControl
  <2>2. CASE Head(rtp_server_control_pipe) \notin {"E", "F"}
    <3> DEFINE pipe == rtp_server_control_pipe
               rest == Tail(pipe)
    <3>1. /\ pipe # <<>> /\ rtp_server_control_pipe' = rest
          /\ UNCHANGED rtp_server_pipe
          /\ rtp_pc \notin {"flush", "done"}
      BY <1>2 DEF RtpServer!RtpControl
    <3>2. /\ rest \in Seq({"F", "E", "O"}) /\ Len(rest) = Len(pipe) - 1
          /\ \A i \in 1 .. Len(pipe) - 1 : rest[i] = pipe[i + 1]
      BY <1>1, <3>1, HeadTailProperties
    <3>3. /\ Len(pipe) \in Nat
          /\ DOMAIN pipe = 1 .. Len(pipe)
          /\ DOMAIN rest = 1 .. Len(pipe) - 1
      BY <1>1, <3>2, LenProperties
    <3>4. Head(pipe) = pipe[1]
      OBVIOUS
    <3> HIDE DEF rest
    <3>5. ASSUME "F" \in Units(pipe) PROVE "F" \in Units(rest)
      <4>1. PICK i \in 1 .. Len(pipe) : pipe[i] = "F"
        BY <3>3, <3>5 DEF Units
      <4>2. i # 1
        BY <2>2, <3>4, <4>1
      <4>3. i - 1 \in 1 .. Len(pipe) - 1 /\ rest[i - 1] = pipe[i]
        BY <3>2, <3>3, <4>2
      <4> QED
        BY <3>3, <4>1, <4>3 DEF Units
    <3> QED
      BY <1>1, <3>1, <3>5 DEF FewOld
  <2> QED
    BY <2>1, <2>2
<1>3. CASE RtpServer!RtpFlush
  BY <1>3 DEF RtpServer!RtpFlush, RtpServer!serverVars
<1>4. CASE RtpServer!RtpFlushed
  <2>1. /\ rtp_server_pipe' = <<>> /\ DOMAIN rtp_server_pipe' = {}
        /\ Len(rtp_server_pipe') = 0
    BY <1>4, EmptySeq DEF RtpServer!RtpFlushed
  <2>2. /\ MinPcmPerSample \in Nat /\ MaxPcmPerSample \in Nat
        /\ Len(pcm) \in Nat /\ DOMAIN pcm = 1 .. Len(pcm)
    BY LenProperties, StreamerConstants DEF TypeInv
  <2>3. Len(rtp_server_pipe') * MinPcmPerSample = 0
    BY <2>1, <2>2
  <2>4. ASSUME ~Waiting \/ Answering, NEW i \in DOMAIN pcm, pcm[i] # session
        PROVE  i < MaxPcmPerSample
    <3>1. CASE ~Waiting
      BY <2>2, <2>4, <3>1 DEF Residue
    <3>2. CASE Answering
      BY <2>2, <3>2 DEF Residue, Handshake
    <3> QED
      BY <2>4, <3>1, <3>2
  <2>5. ASSUME ~Waiting \/ Answering PROVE FewOld'
    BY <1>1, <2>1, <2>2, <2>3, <2>4, <2>5 DEF FewOld
  <2> QED
    BY <1>1, <2>5
<1>5. CASE RtpServer!RtpReadAudio
  <2>1. Playable \in 0 .. Len(rtp_server_pipe)
    BY <1>1, StreamerConstants DEF Playable, Least
  <2>2. FewOld => FewOld'
    BY <1>1, <1>5, <2>1, ReadKeepsFewOld, DataMoves
  <2>3. /\ rtp_pc \notin {"flush", "done"}
        /\ UNCHANGED rtp_server_control_pipe
    BY <1>5 DEF RtpServer!RtpReadAudio
  <2> QED
    BY <1>1, <2>2, <2>3
<1>6. CASE \/ RtpServer!RtpSelect \/ RtpServer!RtpIoctl
           \/ RtpServer!RtpNoAudio \/ RtpServer!RtpSend
           \/ RtpServer!RtpSendFails
  <2>1. /\ rtp_pc \notin {"flush", "done"}
        /\ UNCHANGED <<rtp_server_control_pipe, rtp_server_pipe>>
    BY <1>6
    DEF RtpServer!RtpSelect, RtpServer!RtpIoctl, RtpServer!RtpNoAudio,
        RtpServer!RtpSend, RtpServer!RtpSendFails
  <2> QED
    BY <1>1, <2>1 DEF FewOld
<1> QED
  BY <1>2, <1>3, <1>4, <1>5, <1>6
  DEF RtpServer!ServerNext, RtpServer!ServerStep

(* The inductive invariant of the flush.                                   *)
FlushInv ==
  /\ TypeInv /\ Handshake
  /\ LiveInput /\ Fresh /\ Residue
  /\ Flushed

LEMMA FlushInvHolds == Spec => []FlushInv
<1>1. Init => LiveInput /\ Fresh /\ Residue /\ Flushed
  <2> SUFFICES ASSUME Init PROVE LiveInput /\ Fresh /\ Residue /\ Flushed
    OBVIOUS
  <2>1. Len(<<>>) = 0 /\ DOMAIN <<>> = {} /\ Units(<<>>) = {}
    BY EmptySeq, UnitsEmpty
  <2> QED
    BY <2>1, StreamerConstants
    DEF Init, Fetcher!FetcherInit, Transcoder!TranscoderInit, LiveInput,
        Fresh, Residue, Flushed, FewOld, Waiting
<1>2. FlushInv /\ [Next]_vars => Flushed'
  <2> SUFFICES ASSUME FlushInv, [Next]_vars PROVE Flushed'
    OBVIOUS
  <2> USE DEF FlushInv
  <2>1. CASE Fetcher!FetcherNext /\ FetcherAlone
    BY <2>1, FetcherKeepsFlushed
  <2>2. CASE Transcoder!TranscoderNext /\ TranscoderAlone
    BY <2>2, TranscoderKeepsFlushed
  <2>3. CASE RtpServer!ServerNext /\ ServerAlone
    BY <2>3, ServerKeepsFlushed
  <2>4. CASE UNCHANGED vars
    BY <2>4
    DEF vars, guiVars, tcVars, serverVars, Flushed, Answering, Waiting,
        FewOld
  <2> QED
    BY <2>1, <2>2, <2>3, <2>4 DEF Next
<1>3. FlushInv /\ [Next]_vars => LiveInput' /\ Fresh' /\ Residue'
  BY LiveInputStep, FreshStep, ResidueStep DEF FlushInv
<1> QED
  BY <1>1, <1>2, <1>3, ProtocolHolds, PTL DEF Spec, FlushInv

(* Once the fetcher has its answer, the RTP server has flushed the samples *)
(* of earlier stations but for what less than the largest sample makes, is *)
(* flushing them, or has been told to (Transcoder.c:122-140, 203-207,      *)
(* rtp_connection.c:123-126).                                              *)
THEOREM OldStationIsFlushed == Spec => []OldStationFlushed
<1>1. FlushInv => OldStationFlushed
  BY DEF FlushInv, Flushed, Waiting, FewOld, Units, OldStationFlushed
<1> QED
  BY <1>1, FlushInvHolds, PTL

-----------------------------------------------------------------------------
(* What is still to come behind each stage of the line: sessions that are  *)
(* there already, and the session of the fetcher, which only grows.        *)
Fetched == Units(transcoder_pipe) \cup {session}
Buffered == Units(avio) \cup Fetched
Decoded == Units(pcm) \cup Buffered
Encoded == Units(rtp_server_pipe) \cup Decoded

(* Every stage holds its sessions in order and before those of the stages  *)
(* behind it.                                                              *)
LineInv ==
  /\ Before(transcoder_pipe, {session})
  /\ Before(avio, Fetched)
  /\ Before(pcm, Buffered)
  /\ Before(rtp_server_pipe, Decoded)

LEMMA LineTypes ==
  ASSUME TypeInv
  PROVE  /\ Sessions \in SUBSET Int
         /\ {session} \in SUBSET Int
         /\ Fetched \in SUBSET Int /\ Buffered \in SUBSET Int
         /\ Decoded \in SUBSET Int /\ Encoded \in SUBSET Int
<1>1. /\ Sessions \subseteq Int
      /\ session \in Int
  BY StreamerConstants DEF TypeInv, Sessions
<1>2. /\ Units(transcoder_pipe) \subseteq Sessions
      /\ Units(avio) \subseteq Sessions
      /\ Units(pcm) \subseteq Sessions
      /\ Units(rtp_server_pipe) \subseteq Sessions
  BY UnitsTyped DEF TypeInv
<1> QED
  BY <1>1, <1>2 DEF Fetched, Buffered, Decoded, Encoded

(* A new session is larger than all before it, and a chunk of a session is *)
(* written behind what is there.                                           *)
LEMMA FetcherKeepsLine ==
  ASSUME TypeInv, TypeInv', LineInv, Fetcher!FetcherNext, FetcherAlone
  PROVE  LineInv' /\ NoEarlier(Encoded, Encoded')
<1>1. UNCHANGED <<rtp_server_pipe, avio, pcm>>
  BY DEF FetcherAlone, tcVars
<1>2. /\ transcoder_pipe \in Seq(Sessions) /\ avio \in Seq(Sessions)
      /\ pcm \in Seq(Sessions) /\ rtp_server_pipe \in Seq(Sessions)
      /\ session \in Int
      /\ Sessions' = Sessions
  BY DEF TypeInv, Sessions
<1>3. /\ Sessions \in SUBSET Int /\ {session} \in SUBSET Int
      /\ Fetched \in SUBSET Int /\ Buffered \in SUBSET Int
      /\ Decoded \in SUBSET Int /\ Encoded \in SUBSET Int
      /\ {session'} \in SUBSET Int
      /\ Fetched' \in SUBSET Int /\ Buffered' \in SUBSET Int
      /\ Decoded' \in SUBSET Int /\ Encoded' \in SUBSET Int
  <2>1. session' \in Int /\ transcoder_pipe' \in Seq(Sessions)
    BY <1>2, StreamerConstants DEF TypeInv
  <2>2. Units(transcoder_pipe') \subseteq Sessions
    BY <2>1, UnitsTyped
  <2>3. /\ Fetched' \subseteq Fetched \cup Sessions \cup {session'}
        /\ Buffered' \subseteq Buffered \cup Sessions \cup {session'}
        /\ Decoded' \subseteq Decoded \cup Sessions \cup {session'}
        /\ Encoded' \subseteq Encoded \cup Sessions \cup {session'}
    BY <1>1, <2>2 DEF Fetched, Buffered, Decoded, Encoded
  <2> QED
    BY <2>1, <2>3, LineTypes
<1>4. CASE Fetcher!Connect
  <2>1. UNCHANGED transcoder_pipe /\ session' = session + 1
    BY <1>4 DEF Fetcher!Connect
  <2>2. session \in Fetched /\ session \in Buffered /\ session \in Decoded
        /\ session \in Encoded
    BY DEF Fetched, Buffered, Decoded, Encoded
  <2>3. /\ Fetched' \subseteq Fetched \cup {session'}
        /\ Buffered' \subseteq Buffered \cup {session'}
        /\ Decoded' \subseteq Decoded \cup {session'}
        /\ Encoded' \subseteq Encoded \cup {session'}
    BY <1>1, <2>1 DEF Fetched, Buffered, Decoded, Encoded
  <2>4. ASSUME NEW X \in SUBSET Int, NEW Y \in SUBSET Int,
               session \in X, Y \subseteq X \cup {session'}
        PROVE  NoEarlier(X, Y)
    <3>1. ASSUME NEW y \in Y PROVE \E x \in X : x <= y
      <4>1. CASE y \in X
        <5>1. y <= y
          BY <4>1
        <5> QED
          BY <4>1, <5>1
      <4>2. CASE y = session'
        BY <1>2, <2>1, <2>4, <4>2
      <4> QED
        BY <2>4, <4>1, <4>2
    <3> QED
      BY <3>1 DEF NoEarlier
  <2>5. /\ NoEarlier({session}, {session'}) /\ NoEarlier(Fetched, Fetched')
        /\ NoEarlier(Buffered, Buffered') /\ NoEarlier(Decoded, Decoded')
        /\ NoEarlier(Encoded, Encoded')
    BY <1>3, <2>2, <2>3, <2>4
  <2>6. Before(transcoder_pipe, {session'})
    BY <1>2, <1>3, <2>5, BeforeLater DEF LineInv
  <2>7. Before(avio, Fetched')
    BY <1>2, <1>3, <2>5, BeforeLater DEF LineInv
  <2>8. Before(pcm, Buffered')
    BY <1>2, <1>3, <2>5, BeforeLater DEF LineInv
  <2>9. Before(rtp_server_pipe, Decoded')
    BY <1>2, <1>3, <2>5, BeforeLater DEF LineInv
  <2> QED
    BY <1>1, <2>1, <2>5, <2>6, <2>7, <2>8, <2>9 DEF LineInv
<1>5. CASE Fetcher!Forward
  <2>1. UNCHANGED session
        /\ transcoder_pipe' = Append(transcoder_pipe, session)
    BY <1>5 DEF Fetcher!Forward
  <2>2. session \in Sessions
    BY <1>5, StreamerConstants DEF Fetcher!Forward, TypeInv, Sessions
  <2>3. Units(transcoder_pipe') = Units(transcoder_pipe) \cup {session}
    BY <1>2, <2>1, <2>2, WriteOne
  <2>4. /\ Fetched' = Fetched /\ Buffered' = Buffered
        /\ Decoded' = Decoded /\ Encoded' = Encoded
    BY <1>1, <2>1, <2>3 DEF Fetched, Buffered, Decoded, Encoded
  <2>5. Before(transcoder_pipe', {session'})
    <3>1. Before(transcoder_pipe, {session} \cup {session})
      BY DEF LineInv
    <3>2. \A u \in {session} : session <= u
      BY <1>2
    <3>3. Before(Append(transcoder_pipe, session), {session})
      BY <1>2, <1>3, <2>2, <3>1, <3>2, WriteOneBefore
    <3> QED
      BY <2>1, <3>3
  <2>6. NoEarlier(Encoded, Encoded')
    BY <1>3, <2>4 DEF NoEarlier
  <2> QED
    BY <1>1, <2>4, <2>5, <2>6 DEF LineInv
<1>6. CASE \/ Fetcher!Synchronized \/ Fetcher!Pause \/ Fetcher!SayExit
           \/ FetcherQuiet
  <2>1. UNCHANGED <<transcoder_pipe, session>>
    BY <1>6
    DEF Fetcher!Synchronized, Fetcher!Pause, Fetcher!SayExit, FetcherQuiet
  <2>2. /\ Fetched' = Fetched /\ Buffered' = Buffered
        /\ Decoded' = Decoded /\ Encoded' = Encoded
    BY <1>1, <2>1 DEF Fetched, Buffered, Decoded, Encoded
  <2>3. NoEarlier(Encoded, Encoded')
    BY <1>3, <2>2 DEF NoEarlier
  <2> QED
    BY <1>1, <2>1, <2>2, <2>3 DEF LineInv
<1> QED
  BY <1>4, <1>5, <1>6, FetcherCases

(* The transcoder moves sessions from one stage to the next, each before   *)
(* what it leaves behind.                                                  *)
LEMMA TranscoderKeepsLine ==
  ASSUME TypeInv, LineInv, Transcoder!TranscoderNext, TranscoderAlone
  PROVE  LineInv' /\ Encoded' \subseteq Encoded
<1>1. UNCHANGED session
  BY DEF TranscoderAlone, guiVars
<1>2. /\ transcoder_pipe \in Seq(Sessions) /\ avio \in Seq(Sessions)
      /\ pcm \in Seq(Sessions) /\ rtp_server_pipe \in Seq(Sessions)
      /\ FrameChunks \in Nat \ {0} /\ FlushBuf \in Nat \ {0}
  BY StreamerConstants DEF TypeInv
<1>3. /\ Sessions \in SUBSET Int /\ {session} \in SUBSET Int
      /\ Fetched \in SUBSET Int /\ Buffered \in SUBSET Int
      /\ Decoded \in SUBSET Int /\ Encoded \in SUBSET Int
  BY LineTypes
<1>4. CASE Transcoder!TcFlush
  <2> DEFINE n == Least(FlushBuf, Len(transcoder_pipe))
  <2>1. n \in 0 .. Len(transcoder_pipe)
    BY <1>2, LenProperties DEF Least
  <2>2. transcoder_pipe' = Drop(transcoder_pipe, n)
    BY <1>4, DataMoves DEF FlushRead
  <2> HIDE DEF n
  <2>3. UNCHANGED <<avio, pcm, rtp_server_pipe>>
    BY <1>4 DEF Transcoder!TcFlush, Transcoder!tcVars, Transcoder!outputs
  <2>4. Units(transcoder_pipe') \subseteq Units(transcoder_pipe)
    BY <1>2, <2>1, <2>2, ReadUnits
  <2>5. /\ Fetched' \subseteq Fetched /\ Buffered' \subseteq Buffered
        /\ Decoded' \subseteq Decoded /\ Encoded' \subseteq Encoded
    BY <1>1, <2>3, <2>4 DEF Fetched, Buffered, Decoded, Encoded
  <2>6. Before(transcoder_pipe', {session})
    BY <1>2, <1>3, <2>1, <2>2, ReadBefore DEF LineInv
  <2>7. /\ Before(avio, Fetched') /\ Before(pcm, Buffered')
        /\ Before(rtp_server_pipe, Decoded')
    BY <2>5, BeforeFewer DEF LineInv
  <2> QED
    BY <1>1, <2>3, <2>5, <2>6, <2>7 DEF LineInv
<1>5. CASE Transcoder!TcData
  <2>1. UNCHANGED <<transcoder_pipe, pcm, rtp_server_pipe>>
    BY <1>5 DEF Transcoder!TcData, Transcoder!inputs, Transcoder!outputs
  <2>2. avio' = avio \/ avio' = <<>>
    BY <1>5 DEF Transcoder!TcData
  <2>3. Units(avio') \subseteq Units(avio)
    BY <2>2, UnitsEmpty
  <2>4. /\ Fetched' = Fetched /\ Buffered' \subseteq Buffered
        /\ Decoded' \subseteq Decoded /\ Encoded' \subseteq Encoded
    BY <1>1, <2>1, <2>3 DEF Fetched, Buffered, Decoded, Encoded
  <2>5. Before(avio', Fetched)
    <3>1. CASE avio' = avio
      BY <3>1 DEF LineInv
    <3>2. CASE avio' = <<>>
      BY <3>2, BeforeEmpty
    <3> QED
      BY <2>2, <3>1, <3>2
  <2>6. Before(pcm, Buffered') /\ Before(rtp_server_pipe, Decoded')
    BY <2>4, BeforeFewer DEF LineInv
  <2> QED
    BY <1>1, <2>1, <2>4, <2>5, <2>6 DEF LineInv
<1>6. CASE Transcoder!TcLibraryRead
  <2> DEFINE n == Readable
             read == Take(transcoder_pipe, n)
             rest == Drop(transcoder_pipe, n)
  <2>1. n \in 0 .. Len(transcoder_pipe)
    BY ReadableFits
  <2>2. avio' = avio \o read /\ transcoder_pipe' = rest
    BY <1>6, DataMoves
  <2>3. UNCHANGED <<pcm, rtp_server_pipe>>
    BY <1>6 DEF Transcoder!TcLibraryRead, Transcoder!outputs
  <2>4. read \in Seq(Sessions)
    BY <1>2, <2>1, TakeProperties
  <2>5. Before(read, Units(rest) \cup {session}) /\ Before(rest, {session})
    BY <1>2, <1>3, <2>1, ReadBefore DEF LineInv
  <2>6. /\ Units(read) \subseteq Units(transcoder_pipe)
        /\ Units(rest) \subseteq Units(transcoder_pipe)
    BY <1>2, <2>1, ReadUnits
  <2> HIDE DEF n, read, rest
  <2>7. Fetched' = Units(rest) \cup {session}
    BY <1>1, <2>2 DEF Fetched
  <2>8. /\ Fetched' \in SUBSET Int
        /\ Units(read) \cup Fetched' \subseteq Fetched
    BY <1>3, <2>6, <2>7 DEF Fetched
  <2>9. Before(avio, Units(read) \cup Fetched')
    BY <2>8, BeforeFewer DEF LineInv
  <2>10. Before(avio', Fetched')
    <3>1. Before(read, Fetched')
      BY <2>5, <2>7
    <3>2. Before(avio \o read, Fetched')
      BY <1>2, <1>3, <2>4, <2>8, <2>9, <3>1, WriteManyBefore
    <3> QED
      BY <2>2, <3>2
  <2>11. Units(avio') = Units(avio) \cup Units(read)
    BY <1>2, <2>2, <2>4, WriteMany
  <2>12. /\ Buffered' \subseteq Buffered /\ Decoded' \subseteq Decoded
         /\ Encoded' \subseteq Encoded
    BY <1>1, <2>3, <2>8, <2>11 DEF Buffered, Decoded, Encoded
  <2>13. Before(pcm, Buffered') /\ Before(rtp_server_pipe, Decoded')
    BY <2>12, BeforeFewer DEF LineInv
  <2> QED
    BY <1>1, <2>2, <2>3, <2>5, <2>10, <2>12, <2>13, BeforeFewer DEF LineInv
<1>7. CASE Transcoder!TcDecode \/ Transcoder!TcDecodeFails
  <2>1. /\ UNCHANGED <<transcoder_pipe, rtp_server_pipe>>
        /\ Len(avio) >= FrameChunks
    BY <1>7
    DEF Transcoder!TcDecode, Transcoder!TcDecodeFails, Transcoder!inputs,
        Transcoder!outputs
  <2>2. avio' = Drop(avio, FrameChunks)
    BY <1>7, DataMoves
  <2>3. FrameChunks \in 0 .. Len(avio) /\ avio # <<>>
    BY <1>2, <2>1, LenProperties, EmptySeq
  <2>4. Fetched' = Fetched
    BY <1>1, <2>1 DEF Fetched
  <2>5. Units(avio') \subseteq Units(avio) /\ Before(avio', Fetched)
    BY <1>2, <1>3, <2>2, <2>3, ReadUnits, ReadBefore DEF LineInv
  <2>6. Buffered' \subseteq Buffered
    BY <2>4, <2>5 DEF Buffered
  <2>7. Before(pcm', Buffered') /\ Units(pcm') \subseteq Units(pcm) \cup Buffered
    <3>1. CASE Transcoder!TcDecode
      <4>0. PICK n \in Nat :
              pcm' = pcm \o Transcoder!Copies(Head(avio), n)
        BY <3>1, DecodedFrame
      <4> DEFINE decoded == Transcoder!Copies(Head(avio), n)
      <4>1. pcm' = pcm \o decoded
        BY <4>0
      <4>2. /\ Head(avio) \in Sessions
            /\ \A u \in Units(avio) \cup Fetched : Head(avio) <= u
        BY <1>2, <1>3, <2>3, HeadBefore DEF LineInv
      <4>3. /\ decoded \in Seq(Sessions) /\ Len(decoded) = n
            /\ \A i \in 1 .. n : decoded[i] = Head(avio)
        BY <4>2, CopiesProperties
      <4> HIDE DEF decoded
      <4>4. \A i \in DOMAIN decoded : decoded[i] = Head(avio)
        BY <1>2, <4>3, LenProperties
      <4>5. Units(decoded) \subseteq {Head(avio)}
        BY <4>4 DEF Units
      <4>6. Head(avio) \in Buffered
        BY <1>2, <2>3, UnitsHead DEF Buffered
      <4>7. Head(avio) \in Int /\ Head(avio) <= Head(avio)
        <5>1. Head(avio) \in Int
          BY <1>3, <4>2, Zenon
        <5> QED
          BY <5>1
      <4>8. Before(decoded, Buffered')
        <5>1. \A u \in Buffered' : Head(avio) <= u
          BY <2>6, <4>2 DEF Buffered
        <5> QED
          BY <4>4, <4>7, <5>1 DEF Before
      <4>9. Before(pcm, Units(decoded) \cup Buffered')
        BY <2>6, <4>5, <4>6, BeforeFewer DEF LineInv
      <4>10. Buffered' \in SUBSET Int
        BY <1>3, <2>6
      <4>11. Before(pcm \o decoded, Buffered')
        BY <1>2, <1>3, <4>3, <4>8, <4>9, <4>10, WriteManyBefore
      <4>12. Units(pcm \o decoded) = Units(pcm) \cup Units(decoded)
        BY <1>2, <4>3, WriteMany
      <4> QED
        BY <4>1, <4>5, <4>6, <4>11, <4>12
    <3>2. CASE Transcoder!TcDecodeFails
      <4>1. UNCHANGED pcm
        BY <3>2 DEF Transcoder!TcDecodeFails
      <4>2. Before(pcm, Buffered')
        BY <2>6, BeforeFewer DEF LineInv
      <4> QED
        BY <4>1, <4>2
    <3> QED
      BY <1>7, <3>1, <3>2
  <2>8. Decoded' \subseteq Decoded /\ Encoded' \subseteq Encoded
    BY <2>1, <2>6, <2>7 DEF Decoded, Encoded
  <2>9. Before(rtp_server_pipe, Decoded')
    BY <2>8, BeforeFewer DEF LineInv
  <2> QED
    BY <1>1, <2>1, <2>4, <2>5, <2>7, <2>8, <2>9 DEF LineInv
<1>8. CASE Transcoder!TcEncode
  <2>1. /\ UNCHANGED <<transcoder_pipe, avio>>
        /\ bytes_to_read \in Nat \ {0} /\ Len(pcm) >= bytes_to_read
        /\ rtp_server_pipe' = Append(rtp_server_pipe, Head(pcm))
    BY <1>8, StreamerConstants
    DEF Transcoder!TcEncode, Transcoder!EnoughPcm, Transcoder!inputs, TypeInv
  <2>2. pcm' = Drop(pcm, bytes_to_read)
    BY <1>8, DataMoves
  <2>3. bytes_to_read \in 0 .. Len(pcm) /\ pcm # <<>>
    BY <1>2, <2>1, LenProperties, EmptySeq
  <2>4. Fetched' = Fetched /\ Buffered' = Buffered
    BY <1>1, <2>1 DEF Fetched, Buffered
  <2>5. Units(pcm') \subseteq Units(pcm) /\ Before(pcm', Buffered)
    BY <1>2, <1>3, <2>2, <2>3, ReadUnits, ReadBefore DEF LineInv
  <2>6. Decoded' \subseteq Decoded
    BY <2>4, <2>5 DEF Decoded
  <2>7. /\ Head(pcm) \in Sessions
        /\ \A u \in Units(pcm) \cup Buffered : Head(pcm) <= u
    BY <1>2, <1>3, <2>3, HeadBefore DEF LineInv
  <2>8. Head(pcm) \in Decoded
    BY <1>2, <2>3, UnitsHead DEF Decoded
  <2>9. Before(rtp_server_pipe, Decoded' \cup {Head(pcm)})
    BY <2>6, <2>8, BeforeFewer DEF LineInv
  <2>10. \A u \in Decoded' : Head(pcm) <= u
    BY <2>6, <2>7 DEF Decoded
  <2>11. Decoded' \in SUBSET Int
    BY <1>3, <2>6
  <2>12. Before(rtp_server_pipe', Decoded')
    <3>1. Before(Append(rtp_server_pipe, Head(pcm)), Decoded')
      BY <1>2, <1>3, <2>7, <2>9, <2>10, <2>11, WriteOneBefore
    <3> QED
      BY <2>1, <3>1
  <2>13. Units(rtp_server_pipe') = Units(rtp_server_pipe) \cup {Head(pcm)}
    BY <1>2, <2>1, <2>7, WriteOne
  <2>14. Encoded' \subseteq Encoded
    BY <2>6, <2>8, <2>13 DEF Encoded
  <2> QED
    BY <1>1, <2>1, <2>4, <2>5, <2>12, <2>14 DEF LineInv
<1>9. CASE ~(\/ Transcoder!TcFlush \/ Transcoder!TcData
             \/ Transcoder!TcLibraryRead \/ Transcoder!TcDecode
             \/ Transcoder!TcDecodeFails \/ Transcoder!TcEncode)
  <2>1. UNCHANGED <<transcoder_pipe, avio, pcm, rtp_server_pipe>>
    BY <1>9
    DEF Transcoder!TranscoderNext, Transcoder!TranscoderStep,
        Transcoder!TcSelect, Transcoder!TcControl, Transcoder!TcFlushed,
        Transcoder!TcFreeContext, Transcoder!TcTellRtp, Transcoder!TcAck,
        Transcoder!TcInitContext, Transcoder!TcInitContextFails,
        Transcoder!TcReadFrameFails, Transcoder!TcEncoded,
        Transcoder!TcSayExit, Transcoder!inputs, Transcoder!outputs
  <2> QED
    BY <1>1, <2>1 DEF LineInv, Fetched, Buffered, Decoded, Encoded
<1> QED
  BY <1>4, <1>5, <1>6, <1>7, <1>8, <1>9

(* The RTP server takes from the end of the line.                          *)
LEMMA ServerKeepsLine ==
  ASSUME TypeInv, LineInv, RtpServer!ServerNext, ServerAlone
  PROVE  LineInv' /\ Encoded' \subseteq Encoded
<1>1. UNCHANGED <<session, transcoder_pipe, avio, pcm>>
  BY DEF ServerAlone, guiVars, tcVars
<1>2. /\ rtp_server_pipe \in Seq(Sessions) /\ Len(rtp_server_pipe) \in Nat
      /\ PayloadSize \in Nat /\ FlushBuf \in Nat
  BY StreamerConstants, LenProperties DEF TypeInv
<1>3. /\ Fetched' = Fetched /\ Buffered' = Buffered /\ Decoded' = Decoded
      /\ Sessions \in SUBSET Int /\ Decoded \in SUBSET Int
  BY <1>1, LineTypes DEF Fetched, Buffered, Decoded
<1>4. ASSUME NEW n \in 0 .. Len(rtp_server_pipe),
             rtp_server_pipe' = Drop(rtp_server_pipe, n)
      PROVE  LineInv' /\ Encoded' \subseteq Encoded
  <2>1. /\ Units(rtp_server_pipe') \subseteq Units(rtp_server_pipe)
        /\ Before(rtp_server_pipe', Decoded)
    BY <1>2, <1>3, <1>4, ReadUnits, ReadBefore DEF LineInv
  <2> QED
    BY <1>1, <1>3, <2>1 DEF LineInv, Encoded
<1>5. CASE RtpServer!RtpFlush
  <2>1. Least(FlushBuf, Len(rtp_server_pipe)) \in 0 .. Len(rtp_server_pipe)
    BY <1>2 DEF Least
  <2>2. rtp_server_pipe' =
          Drop(rtp_server_pipe, Least(FlushBuf, Len(rtp_server_pipe)))
    BY <1>5, DataMoves DEF FlushRead
  <2> QED
    BY <1>4, <2>1, <2>2
<1>6. CASE RtpServer!RtpReadAudio
  <2>1. Playable \in 0 .. Len(rtp_server_pipe)
    BY <1>2 DEF Playable, Least
  <2>2. rtp_server_pipe' = Drop(rtp_server_pipe, Playable)
    BY <1>6, DataMoves
  <2> QED
    BY <1>4, <2>1, <2>2
<1>7. CASE ~(RtpServer!RtpFlush \/ RtpServer!RtpReadAudio)
  <2>1. UNCHANGED rtp_server_pipe
    BY <1>7
    DEF RtpServer!ServerNext, RtpServer!ServerStep, RtpServer!RtpSelect,
        RtpServer!RtpIoctl, RtpServer!RtpControl, RtpServer!RtpFlushed,
        RtpServer!RtpNoAudio, RtpServer!RtpSend, RtpServer!RtpSendFails
  <2> QED
    BY <1>1, <1>3, <2>1 DEF LineInv, Encoded
<1> QED
  BY <1>5, <1>6, <1>7

-----------------------------------------------------------------------------
(* The payload is read when there is enough for all of it.                 *)
Available ==
  /\ bytes_available \in Nat
  /\ rtp_pc \in {"control", "audio"} =>
       bytes_available <= Len(rtp_server_pipe)

LEMMA AvailableStep == TypeInv /\ Available /\ [Next]_vars => Available'
<1> SUFFICES ASSUME TypeInv, Available, [Next]_vars PROVE Available'
  OBVIOUS
<1>1. rtp_server_pipe \in Seq(Sessions) /\ Len(rtp_server_pipe) \in Nat
  BY LenProperties DEF TypeInv
<1>2. CASE Fetcher!FetcherNext /\ FetcherAlone
  BY <1>2 DEF FetcherAlone, serverVars, Available
<1>3. CASE Transcoder!TranscoderNext /\ TranscoderAlone
  <2>1. UNCHANGED <<rtp_pc, bytes_available>>
    BY <1>3 DEF TranscoderAlone, serverVars
  <2>2. CASE Transcoder!TcEncode
    <3>1. Head(pcm) \in Sessions
      <4>1. pcm # <<>>
        BY <2>2, LenProperties, EmptySeq, StreamerConstants
        DEF Transcoder!TcEncode, Transcoder!EnoughPcm, TypeInv
      <4> QED
        BY <4>1, HeadTailProperties DEF TypeInv
    <3>2. Len(rtp_server_pipe') = Len(rtp_server_pipe) + 1
      BY <1>1, <2>2, <3>1, WriteOne DEF Transcoder!TcEncode
    <3> QED
      BY <1>1, <2>1, <3>2 DEF Available
  <2>3. CASE ~Transcoder!TcEncode
    <3>1. UNCHANGED rtp_server_pipe
      BY <1>3, <2>3
      DEF Transcoder!TranscoderNext, Transcoder!TranscoderStep,
          Transcoder!TcSelect, Transcoder!TcControl, Transcoder!TcFlush,
          Transcoder!TcFlushed, Transcoder!TcFreeContext,
          Transcoder!TcTellRtp, Transcoder!TcAck, Transcoder!TcData,
          Transcoder!TcLibraryRead, Transcoder!TcInitContext,
          Transcoder!TcInitContextFails, Transcoder!TcDecode,
          Transcoder!TcDecodeFails, Transcoder!TcReadFrameFails,
          Transcoder!TcEncoded, Transcoder!TcSayExit, Transcoder!outputs
    <3> QED
      BY <2>1, <3>1 DEF Available
  <2> QED
    BY <2>2, <2>3
<1>4. CASE RtpServer!ServerNext /\ ServerAlone
  <2>1. CASE RtpServer!RtpIoctl
    BY <1>1, <2>1 DEF RtpServer!RtpIoctl, Available
  <2>2. CASE RtpServer!RtpControl \/ RtpServer!RtpNoAudio
    BY <2>2 DEF RtpServer!RtpControl, RtpServer!RtpNoAudio, Available
  <2>3. CASE ~(\/ RtpServer!RtpIoctl \/ RtpServer!RtpControl
               \/ RtpServer!RtpNoAudio)
    BY <1>4, <2>3
    DEF RtpServer!ServerNext, RtpServer!ServerStep, RtpServer!RtpSelect,
        RtpServer!RtpFlush, RtpServer!RtpFlushed, RtpServer!RtpReadAudio,
        RtpServer!RtpSend, RtpServer!RtpSendFails, RtpServer!serverVars,
        Available
  <2> QED
    BY <2>1, <2>2, <2>3
<1>5. CASE UNCHANGED vars
  BY <1>5 DEF vars, serverVars, Available
<1> QED
  BY <1>2, <1>3, <1>4, <1>5 DEF Next

(* What a destination has heard, and what it will hear of the packet under *)
(* way, come in order and before all that is still in the line.            *)
ServerInv ==
  /\ DOMAIN received = 1 .. HowMany
  /\ next_dest \in Nat \ {0}
  /\ packet \in
       [seq_no : Int, timestamp : Int, payload : [1 .. PayloadSize -> Contents]]

Heard ==
  \A d \in 1 .. HowMany :
    /\ received[d].payload \in Seq(Sessions)
    /\ Before(received[d].payload, Encoded)

Sending ==
  rtp_pc = "send" =>
    /\ packet.payload \in Seq(Sessions)
    /\ Before(packet.payload, Encoded)
    /\ \A d \in 1 .. HowMany :
         d >= next_dest => Before(received[d].payload, Units(packet.payload))

HeardInv == ServerInv /\ Heard /\ Sending

(* The header of a packet changes, its payload does not.                   *)
LEMMA NextHeaderKeeps ==
  ASSUME NEW P, NEW p \in [seq_no : Int, timestamp : Int, payload : P]
  PROVE  /\ RtpServer!NextHeader(p) \in
              [seq_no : Int, timestamp : Int, payload : P]
         /\ RtpServer!NextHeader(p).payload = p.payload
<1>1. /\ (p.seq_no + 1) % SeqMod \in Int
      /\ (p.timestamp + TsInc) % TsMod \in Int
  BY StreamerConstants
<1> QED
  BY <1>1 DEF RtpServer!NextHeader

(* A packet is filled with the oldest samples.                             *)
LEMMA PacketFilled ==
  ASSUME TypeInv, Available, ServerInv, RtpServer!RtpReadAudio
  PROVE  /\ PayloadSize \in 0 .. Len(rtp_server_pipe)
         /\ rtp_server_pipe' = Drop(rtp_server_pipe, PayloadSize)
         /\ packet'.payload = Take(rtp_server_pipe, PayloadSize)
         /\ packet' \in [seq_no : Int, timestamp : Int,
                         payload : [1 .. PayloadSize -> Contents]]
<1>1. /\ PayloadSize \in Nat
      /\ rtp_server_pipe \in Seq(Sessions) /\ Len(rtp_server_pipe) \in Nat
  BY StreamerConstants, LenProperties DEF TypeInv
<1>2. PayloadSize <= Len(rtp_server_pipe)
  BY <1>1 DEF RtpServer!RtpReadAudio, RtpServer!EnoughAudio, Available
<1>3. PayloadSize \in 0 .. Len(rtp_server_pipe) /\ Playable = PayloadSize
  BY <1>1, <1>2 DEF Playable, Least
<1> DEFINE P == [1 .. PayloadSize -> Contents]
           read == Take(rtp_server_pipe, PayloadSize)
           payload1 == read \o Drop(packet.payload, PayloadSize)
           filled == [packet EXCEPT !.payload = payload1]
<1>4. packet' = filled \/ packet' = RtpServer!NextHeader(filled)
  BY <1>3
  DEF RtpServer!RtpReadAudio, RtpServer!Take, RtpServer!Drop,
      RtpServer!Least, Take, Drop, Least, Playable
<1>5. packet.payload \in P
  BY DEF ServerInv
<1> HIDE DEF P
<1>6. payload1 \in [1 .. PayloadSize -> Sessions] /\ payload1 = read
  <2>1. packet.payload \in Seq(Contents) /\ Len(packet.payload) = PayloadSize
    BY <1>1, <1>5, SeqDef, LenProperties DEF P
  <2>2. PayloadSize <= Len(rtp_server_pipe)
    BY <1>2
  <2>3. Take(rtp_server_pipe, PayloadSize)
          \o Drop(packet.payload, PayloadSize)
          = Take(rtp_server_pipe, PayloadSize)
    BY <1>1, <2>1, <2>2, FullRead
  <2>4. read \in [1 .. PayloadSize -> Sessions]
    BY <1>1, <1>3, TakeProperties
  <2> QED
    BY <2>3, <2>4
<1>7. payload1 \in P
  BY <1>6 DEF Contents, P
<1> HIDE DEF read, payload1
<1>8. /\ filled \in [seq_no : Int, timestamp : Int, payload : P]
      /\ filled.payload = payload1
  BY <1>7 DEF ServerInv, P
<1> HIDE DEF filled
<1>9. /\ packet' \in [seq_no : Int, timestamp : Int, payload : P]
      /\ packet'.payload = payload1
  BY <1>4, <1>8, NextHeaderKeeps
<1>10. rtp_server_pipe' = Drop(rtp_server_pipe, PayloadSize)
  BY <1>3, DataMoves
<1> QED
  BY <1>3, <1>6, <1>9, <1>10 DEF P, read

(* What has been heard stays before what is to come.                       *)
LEMMA OthersKeepHeard ==
  ASSUME TypeInv, HeardInv, UNCHANGED serverVars,
         Encoded' \in SUBSET Int, NoEarlier(Encoded, Encoded')
  PROVE  HeardInv'
<1>1. UNCHANGED <<rtp_pc, packet, next_dest, received>>
  BY DEF serverVars
<1>2. /\ Sessions \in SUBSET Int /\ Encoded \in SUBSET Int
      /\ Sessions' = Sessions
  BY LineTypes DEF Sessions
<1>3. ASSUME NEW s \in Seq(Sessions), Before(s, Encoded)
      PROVE  Before(s, Encoded')
  BY <1>2, <1>3, BeforeLater
<1>4. Heard'
  BY <1>1, <1>2, <1>3 DEF HeardInv, Heard
<1>5. Sending'
  BY <1>1, <1>2, <1>3 DEF HeardInv, Sending
<1>6. ServerInv'
  BY <1>1, <1>2 DEF HeardInv, ServerInv, Contents
<1> QED
  BY <1>4, <1>5, <1>6 DEF HeardInv

(* The packet the RTP server fills comes after what has been heard.        *)
LEMMA ReadKeepsHeard ==
  ASSUME TypeInv, Available, LineInv, HeardInv,
         RtpServer!RtpReadAudio, ServerAlone
  PROVE  HeardInv'
<1> DEFINE read == Take(rtp_server_pipe, PayloadSize)
<1>1. /\ PayloadSize \in 0 .. Len(rtp_server_pipe)
      /\ rtp_server_pipe' = Drop(rtp_server_pipe, PayloadSize)
      /\ packet'.payload = read
      /\ packet' \in [seq_no : Int, timestamp : Int,
                      payload : [1 .. PayloadSize -> Contents]]
  BY PacketFilled DEF HeardInv
<1>2. UNCHANGED <<next_dest, received, session, transcoder_pipe, avio, pcm>>
  BY DEF RtpServer!RtpReadAudio, ServerAlone, guiVars, tcVars
<1>3. /\ rtp_server_pipe \in Seq(Sessions)
      /\ Sessions \in SUBSET Int /\ Decoded \in SUBSET Int
      /\ Sessions' = Sessions
  BY LineTypes DEF TypeInv, Sessions
<1>4. Decoded' = Decoded
  BY <1>2 DEF Decoded, Buffered, Fetched
<1>5. /\ read \in Seq(Sessions)
      /\ Before(read, Units(rtp_server_pipe') \cup Decoded)
      /\ Units(read) \subseteq Units(rtp_server_pipe)
      /\ Units(rtp_server_pipe') \subseteq Units(rtp_server_pipe)
  BY <1>1, <1>3, TakeProperties, ReadBefore, ReadUnits DEF LineInv
<1> HIDE DEF read
<1>6. /\ Encoded' = Units(rtp_server_pipe') \cup Decoded
      /\ Encoded' \subseteq Encoded /\ Units(read) \subseteq Encoded
  BY <1>4, <1>5 DEF Encoded
<1>7. Heard'
  BY <1>2, <1>3, <1>6, BeforeFewer DEF HeardInv, Heard
<1>8. Sending'
  <2>1. \A d \in 1 .. HowMany : Before(received[d].payload, Units(read))
    BY <1>6, BeforeFewer DEF HeardInv, Heard
  <2> QED
    BY <1>1, <1>2, <1>3, <1>5, <1>6, <2>1 DEF Sending
<1>9. ServerInv'
  BY <1>1, <1>2, <1>3 DEF HeardInv, ServerInv, Contents
<1> QED
  BY <1>7, <1>8, <1>9 DEF HeardInv

(* The destination that gets the packet is the next one.                   *)
LEMMA SendKeepsHeard ==
  ASSUME HeardInv, RtpServer!RtpSend, ServerAlone
  PROVE  HeardInv'
<1>1. /\ rtp_pc = "send"
      /\ received' = [received EXCEPT ![next_dest] = packet]
      /\ packet' = packet \/ packet' = RtpServer!NextHeader(packet)
      /\ rtp_pc' = "send" => next_dest' = next_dest + 1
      /\ next_dest' \in {1, next_dest + 1}
  BY DEF RtpServer!RtpSend
<1>2. Encoded' = Encoded
  BY DEF RtpServer!RtpSend, ServerAlone, guiVars, tcVars, Encoded, Decoded,
         Buffered, Fetched
<1>3. /\ DOMAIN received' = 1 .. HowMany
      /\ \A d \in 1 .. HowMany :
           received'[d] = IF d = next_dest THEN packet ELSE received[d]
  BY <1>1 DEF HeardInv, ServerInv
<1>4. Sessions' = Sessions /\ Contents' = Contents
  BY DEF Sessions, Contents
<1>5. /\ packet' \in [seq_no : Int, timestamp : Int,
                      payload : [1 .. PayloadSize -> Contents]]
      /\ packet'.payload = packet.payload
  BY <1>1, NextHeaderKeeps DEF HeardInv, ServerInv
<1>6. ServerInv'
  BY <1>1, <1>3, <1>4, <1>5 DEF HeardInv, ServerInv
<1>7. Heard'
  BY <1>1, <1>2, <1>3, <1>4 DEF HeardInv, Heard, Sending
<1>8. Sending'
  <2> SUFFICES ASSUME rtp_pc' = "send" PROVE Sending'
    BY DEF Sending
  <2>1. ASSUME NEW d \in 1 .. HowMany, d >= next_dest'
        PROVE  Before(received'[d].payload, Units(packet'.payload))
    <3>1. d >= next_dest /\ d # next_dest
      BY <1>1, <2>1 DEF HeardInv, ServerInv
    <3>2. received'[d] = received[d]
      BY <1>3, <3>1
    <3> QED
      BY <1>1, <1>5, <3>1, <3>2 DEF HeardInv, Sending
  <2> QED
    BY <1>1, <1>2, <1>4, <1>5, <2>1 DEF HeardInv, Sending
<1> QED
  BY <1>6, <1>7, <1>8 DEF HeardInv

LEMMA ServerKeepsHeard ==
  ASSUME TypeInv, Available, LineInv, HeardInv, RtpServer!ServerNext,
         ServerAlone
  PROVE  HeardInv'
<1>1. CASE RtpServer!RtpReadAudio
  BY <1>1, ReadKeepsHeard
<1>2. CASE RtpServer!RtpSend
  BY <1>2, SendKeepsHeard
<1>3. CASE ~(RtpServer!RtpReadAudio \/ RtpServer!RtpSend)
  <2>1. /\ UNCHANGED <<packet, next_dest, received>>
        /\ rtp_pc' # "send"
    BY <1>3
    DEF RtpServer!ServerNext, RtpServer!ServerStep, RtpServer!RtpSelect,
        RtpServer!RtpIoctl, RtpServer!RtpControl, RtpServer!RtpFlush,
        RtpServer!RtpFlushed, RtpServer!RtpNoAudio, RtpServer!RtpSendFails,
        RtpServer!serverVars
  <2>2. Encoded' \subseteq Encoded /\ Sessions' = Sessions
    BY ServerKeepsLine DEF Sessions
  <2>3. Heard'
    BY <2>1, <2>2, BeforeFewer DEF HeardInv, Heard
  <2> QED
    BY <2>1, <2>2, <2>3 DEF HeardInv, ServerInv, Contents, Sending
<1> QED
  BY <1>1, <1>2, <1>3

(* The inductive invariant of the order: the line, and what has left it.   *)
OrderInv ==
  TypeInv /\ Available /\ LineInv /\ HeardInv

LEMMA OrderInvInit == Init => OrderInv
<1> SUFFICES ASSUME Init PROVE OrderInv
  OBVIOUS
<1>1. TypeInv
  BY TypeInvInit
<1>2. Available
  BY DEF Init, RtpServer!ServerInit, Available
<1>3. /\ transcoder_pipe = <<>> /\ avio = <<>> /\ pcm = <<>>
      /\ rtp_server_pipe = <<>>
  BY DEF Init, Transcoder!TranscoderInit
<1>4. LineInv
  BY <1>3, BeforeEmpty DEF LineInv
<1>5. rtp_pc = "select" /\ next_dest = 1
  BY DEF Init, RtpServer!ServerInit
<1>6. /\ DOMAIN received = 1 .. HowMany
      /\ \A d \in 1 .. HowMany : received[d].payload = <<>>
  BY DEF Init, RtpServer!ServerInit, RtpServer!Destinations,
         RtpServer!Stream!NoPacket
<1>7. <<>> \in Seq(Sessions)
  BY EmptySeq
<1>8. packet \in
        [seq_no : Int, timestamp : Int, payload : [1 .. PayloadSize -> Contents]]
  BY DEF Init, RtpServer!ServerInit, Contents
<1>9. Heard
  BY <1>6, <1>7, BeforeEmpty DEF Heard
<1> QED
  BY <1>1, <1>2, <1>4, <1>5, <1>6, <1>8, <1>9
  DEF OrderInv, HeardInv, ServerInv, Sending

LEMMA OrderInvStep == OrderInv /\ [Next]_vars => OrderInv'
<1> SUFFICES ASSUME OrderInv, [Next]_vars PROVE OrderInv'
  OBVIOUS
<1> USE DEF OrderInv
<1>1. TypeInv' /\ Available'
  BY TypeInvStep, AvailableStep
<1>2. CASE Fetcher!FetcherNext /\ FetcherAlone
  <2>1. LineInv' /\ NoEarlier(Encoded, Encoded')
    BY <1>1, <1>2, FetcherKeepsLine
  <2>2. Encoded' \in SUBSET Int
    <3>1. /\ Units(transcoder_pipe') \subseteq Sessions
          /\ Units(avio') \subseteq Sessions
          /\ Units(pcm') \subseteq Sessions
          /\ Units(rtp_server_pipe') \subseteq Sessions
          /\ session' \in Int
      <4>1. /\ transcoder_pipe' \in Seq(Sessions) /\ avio' \in Seq(Sessions)
            /\ pcm' \in Seq(Sessions) /\ rtp_server_pipe' \in Seq(Sessions)
            /\ session' \in Int
        BY <1>1, StreamerConstants DEF TypeInv, Sessions
      <4> QED
        BY <4>1, UnitsTyped
    <3>2. Sessions \subseteq Int
      BY LineTypes
    <3> QED
      BY <3>1, <3>2 DEF Encoded, Decoded, Buffered, Fetched
  <2>3. UNCHANGED serverVars
    BY <1>2 DEF FetcherAlone
  <2> QED
    BY <1>1, <2>1, <2>2, <2>3, OthersKeepHeard
<1>3. CASE Transcoder!TranscoderNext /\ TranscoderAlone
  <2>1. LineInv' /\ Encoded' \subseteq Encoded
    BY <1>3, TranscoderKeepsLine
  <2>2. Encoded' \in SUBSET Int
    BY <2>1, LineTypes
  <2>3. NoEarlier(Encoded, Encoded')
    <3>1. ASSUME NEW u \in Encoded' PROVE \E b \in Encoded : b <= u
      <4>1. u \in Encoded /\ u \in Int
        BY <2>1, <2>2, Zenon
      <4>2. u <= u
        BY <4>1
      <4> QED
        BY <4>1, <4>2
    <3> QED
      BY <3>1 DEF NoEarlier
  <2>4. UNCHANGED serverVars
    BY <1>3 DEF TranscoderAlone
  <2> QED
    BY <1>1, <2>1, <2>2, <2>3, <2>4, OthersKeepHeard
<1>4. CASE RtpServer!ServerNext /\ ServerAlone
  BY <1>1, <1>4, ServerKeepsLine, ServerKeepsHeard
<1>5. CASE UNCHANGED vars
  <2>1. /\ Sessions' = Sessions /\ Contents' = Contents
        /\ Encoded' = Encoded /\ Decoded' = Decoded
        /\ Buffered' = Buffered /\ Fetched' = Fetched
    BY <1>5
    DEF vars, guiVars, tcVars, Sessions, Contents, Encoded, Decoded,
        Buffered, Fetched
  <2>2. LineInv'
    BY <1>5, <2>1 DEF vars, guiVars, tcVars, LineInv
  <2>3. HeardInv'
    BY <1>5, <2>1
    DEF vars, serverVars, HeardInv, ServerInv, Heard, Sending
  <2> QED
    BY <1>1, <2>2, <2>3
<1> QED
  BY <1>2, <1>3, <1>4, <1>5 DEF Next

LEMMA OrderInvHolds == Spec => []OrderInv
<1> QED
  BY OrderInvInit, OrderInvStep, PTL DEF Spec

(* A station change reaches the listeners once and in order: neither in a  *)
(* packet nor from one packet to the next does a sample of an earlier      *)
(* station follow one of a later station (mp3fetcher.c:616,                *)
(* Transcoder.c:199-211, rtp_connection.c:129-144).                        *)
THEOREM StationsInOrder == Spec => HeardInOrder
<1>1. ASSUME OrderInv, [Next]_vars, NEW d \in DOMAIN received,
             received'[d] # received[d]
      PROVE  InOrder(received[d].payload \o received'[d].payload)
  <2>1. RtpServer!RtpSend
    BY <1>1
    DEF Next, FetcherAlone, TranscoderAlone, vars, serverVars,
        RtpServer!ServerNext, RtpServer!ServerStep, RtpServer!RtpSelect,
        RtpServer!RtpIoctl, RtpServer!RtpControl, RtpServer!RtpFlush,
        RtpServer!RtpFlushed, RtpServer!RtpNoAudio, RtpServer!RtpReadAudio,
        RtpServer!RtpSendFails, RtpServer!serverVars
  <2>2. /\ rtp_pc = "send"
        /\ received' = [received EXCEPT ![next_dest] = packet]
    BY <2>1 DEF RtpServer!RtpSend
  <2>3. d \in 1 .. HowMany /\ next_dest \in Nat
    BY <1>1 DEF OrderInv, HeardInv, ServerInv
  <2>4. d = next_dest /\ received'[d] = packet /\ d >= next_dest
    BY <1>1, <2>2, <2>3
  <2> DEFINE old == received[d].payload
             new == packet.payload
             heard == old \o new
  <2>5. /\ old \in Seq(Sessions) /\ new \in Seq(Sessions)
        /\ Before(old, Units(new)) /\ Before(new, Encoded)
    BY <1>1, <2>2, <2>3, <2>4 DEF OrderInv, HeardInv, Heard, Sending
  <2>6. Sessions \in SUBSET Int
    BY <1>1, LineTypes DEF OrderInv
  <2> HIDE DEF old, new
  <2>7. Before(old, Units(new) \cup {}) /\ Before(new, {})
    BY <2>5, BeforeFewer
  <2>8. Before(heard, {})
    BY <2>5, <2>6, <2>7, WriteManyBefore
  <2> HIDE DEF heard
  <2>9. InOrder(heard)
    BY <2>8 DEF Before, InOrder
  <2> QED
    BY <2>4, <2>9 DEF heard, old, new
<1>2. OrderInv /\ [Next]_vars =>
        [\A d \in DOMAIN received :
           received'[d] # received[d] =>
             InOrder(received[d].payload \o received'[d].payload)]_received
  BY <1>1
<1> QED
  BY <1>2, OrderInvHolds, PTL DEF Spec, HeardInOrder

=============================================================================
