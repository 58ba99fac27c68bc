------------------------------ MODULE Transcoder ------------------------------
(***************************************************************************)
(* The transcoder process: the loop of audio_transcode over its control    *)
(* pipe (its stdin) and the pipe of mp3 data, with flush_file, init_context*)
(* and free_context, and what main.c does when it returns.  It answers the *)
(* fetcher over mp3_fetcher_control_pipe and feeds the RTP server.         *)
(*                                                                         *)
(* Every unit of data is the number of the session it belongs to: a session*)
(* starts with the "R" a new connection to a station sends.  mp3 data comes*)
(* in chunks; av_read_frame returns after FrameChunks of them, init_context*)
(* after ProbeChunks.  How many units of PCM a decoded packet is, and how  *)
(* many encode takes for one mu-law sample, follows from the sample rate of*)
(* the stream the library has found: each call has its own.                *)
(*                                                                         *)
(* Closed here by an arbitrary fetcher and RTP server (the Environment     *)
(* actions); RadioStreamer puts the real ones in their place.              *)
(*                                                                         *)
(* External: libavformat and libavcodec, known from their calls.  A library*)
(* read blocks until it has what it needs (the pipe never ends); it may    *)
(* return an error.  Not modelled: the wait for the 60000th iteration of   *)
(* encode (a packet has at most 48000 stereo samples), failing system      *)
(* calls, the memory encode and init_context leak.                         *)
(***************************************************************************)
EXTENDS Pipes

CONSTANTS
  MaxSessions,   \* bound of the model on the number of sessions
  FrameChunks,   \* chunks av_read_frame needs for a frame
  ProbeChunks,   \* chunks init_context needs to recognise the stream
  AvioSize,      \* chunks the buffer of the library holds
  MinPcmPerFrame, MaxPcmPerFrame,    \* units of PCM a frame decodes to
  MinPcmPerSample, MaxPcmPerSample,  \* units encode takes for a sample
  FlushBuf,      \* size of the buffer of flush_file
  McPipeCap,     \* capacity of transcoder_pipe
  RtpPipeCap,    \* capacity of rtp_server_pipe
  CtlCap,        \* capacity of a control pipe
  LibraryFails   \* whether the library may return an error

ASSUME TranscoderConstants ==
  /\ MaxSessions \in Nat
  /\ FrameChunks \in Nat \ {0}
  /\ ProbeChunks \in Nat \ {0}
  /\ AvioSize \in Nat
  /\ FrameChunks <= AvioSize
  /\ ProbeChunks <= AvioSize
  /\ MinPcmPerFrame \in Nat \ {0}
  /\ MaxPcmPerFrame \in Nat
  /\ MinPcmPerFrame <= MaxPcmPerFrame
  /\ MinPcmPerSample \in Nat \ {0}
  /\ MaxPcmPerSample \in Nat
  /\ MinPcmPerSample <= MaxPcmPerSample
  /\ FlushBuf \in Nat \ {0}
  /\ McPipeCap \in Nat
  /\ RtpPipeCap \in Nat
  /\ CtlCap \in Nat
  /\ LibraryFails \in BOOLEAN

VARIABLES
  transcoder_control_pipe,  \* bytes: "R", "F", "E", or any other, "O"
  transcoder_pipe,          \* chunks of mp3 data
  mp3_fetcher_control_pipe, \* bytes: "1" only, the byte 1
  rtp_server_control_pipe,  \* bytes: "F", "E" or "O"
  rtp_server_pipe,          \* samples
  tc_pc,                    \* where the transcoder is
  data_ready,               \* FD_ISSET(transcoder_in)
  initialized,              \* data->initialized
  context,                  \* codec contexts: "null", "live" or "freed"
  avio,                     \* chunks in the buffer of the open input
  pcm,                      \* units in the pipe p between decode and encode
  bytes_to_read,            \* of the call of encode: units for one sample
  session,                  \* sessions the fetcher has asked for
  asked,                    \* the fetcher waits for the byte 1
  quitting                  \* the fetcher has sent "E"

tcVars == <<tc_pc, data_ready, initialized, context, avio, pcm,
            bytes_to_read>>
inputs == <<transcoder_control_pipe, transcoder_pipe>>
outputs == <<mp3_fetcher_control_pipe, rtp_server_control_pipe,
             rtp_server_pipe>>
envVars == <<session, asked, quitting>>
vars == <<inputs, outputs, tcVars, envVars>>

Sessions == 1 .. MaxSessions

Copies(unit, n) == [i \in 1 .. n |-> unit]

-----------------------------------------------------------------------------
(* init_transcoder_data and the start of audio_transcode.                  *)
TranscoderInit ==
  /\ tc_pc = "select"
  /\ data_ready = FALSE
  /\ initialized = FALSE
  /\ context = "null"
  /\ avio = <<>>
  /\ pcm = <<>>
  /\ bytes_to_read = 0

(* select without a timeout, on the control pipe and the data.             *)
TcSelect ==
  /\ tc_pc = "select"
  /\ transcoder_control_pipe # <<>> \/ transcoder_pipe # <<>>
  /\ data_ready' = (transcoder_pipe # <<>>)
  /\ tc_pc' = IF transcoder_control_pipe # <<>> THEN "control" ELSE "data"
  /\ UNCHANGED <<inputs, outputs, initialized, context, avio, pcm,
                 bytes_to_read>>

(***************************************************************************)
(* One read takes all the commands there are; only the first one counts.   *)
(* A byte the transcoder does not know falls through to the data.          *)
(***************************************************************************)
TcControl ==
  /\ tc_pc = "control"
  /\ transcoder_control_pipe' = <<>>
  /\ tc_pc' = CASE Head(transcoder_control_pipe) = "E" -> "exit"
                [] Head(transcoder_control_pipe) = "R" -> "flushR"
                [] Head(transcoder_control_pipe) = "F" -> "flushF"
                [] OTHER -> IF data_ready THEN "data" ELSE "select"
  /\ UNCHANGED <<transcoder_pipe, outputs, data_ready, initialized, context,
                 avio, pcm, bytes_to_read>>

(* flush_file: one read of what FIONREAD found.                            *)
TcFlush ==
  /\ tc_pc \in {"flushR", "flushF"}
  /\ transcoder_pipe # <<>>
  /\ transcoder_pipe' = FlushRead(transcoder_pipe, FlushBuf)
  /\ UNCHANGED <<transcoder_control_pipe, outputs, tcVars>>

(* Mutant: the flush ends after a read that left data behind.              *)
TcFlushedEarly ==
  /\ tc_pc \in {"flushR", "flushF"}
  /\ Len(transcoder_pipe) <= 1
  /\ tc_pc' = IF tc_pc = "flushR" THEN "free" ELSE "tellF"
  /\ UNCHANGED <<inputs, outputs, data_ready, initialized, context, avio, pcm,
                 bytes_to_read>>

(* flush_file found the pipe empty.                                        *)
TcFlushed ==
  /\ tc_pc \in {"flushR", "flushF"}
  /\ transcoder_pipe = <<>>
  /\ tc_pc' = IF tc_pc = "flushR" THEN "free" ELSE "tellF"
  /\ UNCHANGED <<inputs, outputs, data_ready, initialized, context, avio, pcm,
                 bytes_to_read>>

(***************************************************************************)
(* free_context, at a re-init and at the end.  The pointers keep their     *)
(* values, so a second call frees the same contexts again: the allocator   *)
(* notices and aborts, or does not and the process carries on.             *)
(***************************************************************************)
TcFreeContext ==
  /\ tc_pc \in {"free", "exit"}
  /\ \/ /\ context' = IF context = "null" THEN "null" ELSE "freed"
        /\ tc_pc' = IF tc_pc = "free" THEN "tellR" ELSE "sayE"
     \/ /\ context = "freed"
        /\ tc_pc' = "dead"
        /\ UNCHANGED context
  /\ UNCHANGED <<inputs, outputs, data_ready, initialized, avio, pcm,
                 bytes_to_read>>

(* Mutant: a flush is answered like a re-init.                             *)
TcTellRtpAndAck ==
  /\ tc_pc \in {"tellR", "tellF"}
  /\ Len(rtp_server_control_pipe) < CtlCap
  /\ rtp_server_control_pipe' = Append(rtp_server_control_pipe, "F")
  /\ tc_pc' = "ack"
  /\ UNCHANGED <<inputs, mp3_fetcher_control_pipe, rtp_server_pipe, data_ready,
                 initialized, context, avio, pcm, bytes_to_read>>

(* Mutant: after a re-init the RTP server is not told.                     *)
TcTellRtpOnlyF ==
  /\ tc_pc \in {"tellR", "tellF"}
  /\ Len(rtp_server_control_pipe) < CtlCap
  /\ rtp_server_control_pipe' =
       IF tc_pc = "tellF" THEN Append(rtp_server_control_pipe, "F")
                          ELSE rtp_server_control_pipe
  /\ tc_pc' = IF tc_pc = "tellR" THEN "ack" ELSE "select"
  /\ UNCHANGED <<inputs, mp3_fetcher_control_pipe, rtp_server_pipe, data_ready,
                 initialized, context, avio, pcm, bytes_to_read>>

(* Mutant: the fetcher gets no answer.                                     *)
TcTellRtpNoAck ==
  /\ tc_pc \in {"tellR", "tellF"}
  /\ Len(rtp_server_control_pipe) < CtlCap
  /\ rtp_server_control_pipe' = Append(rtp_server_control_pipe, "F")
  /\ tc_pc' = "select"
  /\ UNCHANGED <<inputs, mp3_fetcher_control_pipe, rtp_server_pipe, data_ready,
                 initialized, context, avio, pcm, bytes_to_read>>

(* The RTP server has to flush as well, after "R" and after "F".           *)
TcTellRtp ==
  /\ tc_pc \in {"tellR", "tellF"}
  /\ Len(rtp_server_control_pipe) < CtlCap
  /\ rtp_server_control_pipe' = Append(rtp_server_control_pipe, "F")
  /\ tc_pc' = IF tc_pc = "tellR" THEN "ack" ELSE "select"
  /\ UNCHANGED <<inputs, mp3_fetcher_control_pipe, rtp_server_pipe, data_ready,
                 initialized, context, avio, pcm, bytes_to_read>>

(* Mutant: the next data goes to the context that was freed.               *)
TcAckKeepsContext ==
  /\ tc_pc = "ack"
  /\ Len(mp3_fetcher_control_pipe) < CtlCap
  /\ mp3_fetcher_control_pipe' = Append(mp3_fetcher_control_pipe, "1")
  /\ tc_pc' = "select"
  /\ UNCHANGED <<inputs, rtp_server_control_pipe, rtp_server_pipe, data_ready,
                 initialized, context, avio, pcm, bytes_to_read>>

(* The fetcher may send again, and the next data opens a new input.        *)
TcAck ==
  /\ tc_pc = "ack"
  /\ Len(mp3_fetcher_control_pipe) < CtlCap
  /\ mp3_fetcher_control_pipe' = Append(mp3_fetcher_control_pipe, "1")
  /\ initialized' = FALSE
  /\ tc_pc' = "select"
  /\ UNCHANGED <<inputs, rtp_server_control_pipe, rtp_server_pipe, data_ready,
                 context, avio, pcm, bytes_to_read>>

(* Data: the first of a session opens a new input, with an empty buffer.   *)
TcData ==
  /\ tc_pc = "data"
  /\ IF initialized
       THEN tc_pc' = "frame" /\ UNCHANGED avio
       ELSE tc_pc' = "probe" /\ avio' = <<>>
  /\ UNCHANGED <<inputs, outputs, data_ready, initialized, context, pcm,
                 bytes_to_read>>

(* How much the library has to have read to go on.                         *)
Needed == IF tc_pc = "probe" THEN ProbeChunks ELSE FrameChunks

(* Mutant: the read takes all there is.                                    *)
TcLibraryOverreads ==
  /\ tc_pc \in {"probe", "frame"}
  /\ Len(avio) < Needed
  /\ transcoder_pipe # <<>>
  /\ avio' = avio \o transcoder_pipe
  /\ transcoder_pipe' = <<>>
  /\ UNCHANGED <<transcoder_control_pipe, outputs, tc_pc, data_ready,
                 initialized, context, pcm, bytes_to_read>>

(* A read of the library: what is there, up to the room in its buffer.     *)
TcLibraryRead ==
  /\ tc_pc \in {"probe", "frame"}
  /\ Len(avio) < Needed
  /\ transcoder_pipe # <<>>
  /\ LET n == Least(AvioSize - Len(avio), Len(transcoder_pipe))
     IN /\ avio' = avio \o Take(transcoder_pipe, n)
        /\ transcoder_pipe' = Drop(transcoder_pipe, n)
  /\ UNCHANGED <<transcoder_control_pipe, outputs, tc_pc, data_ready,
                 initialized, context, pcm, bytes_to_read>>

(* init_context recognised the stream and opened decoder and encoder.      *)
TcInitContext ==
  /\ tc_pc = "probe"
  /\ Len(avio) >= ProbeChunks
  /\ initialized' = TRUE
  /\ context' = "live"
  /\ tc_pc' = "frame"
  /\ UNCHANGED <<inputs, outputs, data_ready, avio, pcm, bytes_to_read>>

(* init_context calls exit(1): nobody is told.                             *)
TcInitContextFails ==
  /\ LibraryFails
  /\ tc_pc = "probe"
  /\ tc_pc' = "dead"
  /\ UNCHANGED <<inputs, outputs, data_ready, initialized, context, avio, pcm,
                 bytes_to_read>>

(* av_read_frame and avcodec_decode_audio3: a frame becomes PCM, and encode*)
(* is called with the sample rate of the stream.                           *)
TcDecode ==
  /\ tc_pc = "frame"
  /\ Len(avio) >= FrameChunks
  /\ avio' = Drop(avio, FrameChunks)
  /\ \E n \in MinPcmPerFrame .. MaxPcmPerFrame :
       pcm' = pcm \o Copies(Head(avio), n)
  /\ bytes_to_read' \in MinPcmPerSample .. MaxPcmPerSample
  /\ tc_pc' = "encode"
  /\ UNCHANGED <<inputs, outputs, data_ready, initialized, context>>

(* A frame the decoder refuses, or makes no PCM of, is dropped.            *)
TcDecodeFails ==
  /\ LibraryFails
  /\ tc_pc = "frame"
  /\ Len(avio) >= FrameChunks
  /\ avio' = Drop(avio, FrameChunks)
  /\ tc_pc' = "select"
  /\ UNCHANGED <<inputs, outputs, data_ready, initialized, context, pcm,
                 bytes_to_read>>

(* av_read_frame fails: the loop ends.                                     *)
TcReadFrameFails ==
  /\ LibraryFails
  /\ tc_pc = "frame"
  /\ tc_pc' = "exit"
  /\ UNCHANGED <<inputs, outputs, data_ready, initialized, context, avio, pcm,
                 bytes_to_read>>

(* Mutant: encode leaves a whole sample in p.                              *)
MoreThanASample == Len(pcm) > bytes_to_read

(* What FIONREAD finds in p makes a sample.                                *)
EnoughPcm == Len(pcm) >= bytes_to_read

(* encode: a sample, as long as p holds enough PCM for one.                *)
TcEncode ==
  /\ tc_pc = "encode"
  /\ EnoughPcm
  /\ Len(rtp_server_pipe) < RtpPipeCap
  /\ rtp_server_pipe' = Append(rtp_server_pipe, Head(pcm))
  /\ pcm' = Drop(pcm, bytes_to_read)
  /\ UNCHANGED <<inputs, mp3_fetcher_control_pipe, rtp_server_control_pipe,
                 tc_pc, data_ready, initialized, context, avio,
                 bytes_to_read>>

(* encode returns; what is left in p waits for the next frame.             *)
TcEncoded ==
  /\ tc_pc = "encode"
  /\ ~EnoughPcm
  /\ bytes_to_read' = 0
  /\ tc_pc' = "select"
  /\ UNCHANGED <<inputs, outputs, data_ready, initialized, context, avio, pcm>>

(* Mutant: the transcoder carries on after it has sent the RTP server away.*)
TcSayExitAndStay ==
  /\ tc_pc = "sayE"
  /\ Len(rtp_server_control_pipe) + 2 <= CtlCap
  /\ rtp_server_control_pipe' = rtp_server_control_pipe \o <<"E", "O">>
  /\ tc_pc' = "select"
  /\ UNCHANGED <<inputs, mp3_fetcher_control_pipe, rtp_server_pipe, data_ready,
                 initialized, context, avio, pcm, bytes_to_read>>

(* Mutant: the transcoder ends, and the RTP server does not hear of it.    *)
TcSayNothing ==
  /\ tc_pc = "sayE"
  /\ tc_pc' = "done"
  /\ UNCHANGED <<inputs, outputs, data_ready, initialized, context, avio, pcm,
                 bytes_to_read>>

(* main.c: the transcoder ends, the RTP server has to.                     *)
TcSayExit ==
  /\ tc_pc = "sayE"
  /\ Len(rtp_server_control_pipe) + 2 <= CtlCap
  /\ rtp_server_control_pipe' = rtp_server_control_pipe \o <<"E", "O">>
  /\ tc_pc' = "done"
  /\ UNCHANGED <<inputs, mp3_fetcher_control_pipe, rtp_server_pipe, data_ready,
                 initialized, context, avio, pcm, bytes_to_read>>

TranscoderStep ==
  \/ TcSelect \/ TcControl \/ TcFlush \/ TcFlushed \/ TcFreeContext
  \/ TcTellRtp \/ TcAck \/ TcData \/ TcLibraryRead \/ TcInitContext
  \/ TcDecode \/ TcEncode \/ TcEncoded \/ TcSayExit

TranscoderNext ==
  TranscoderStep \/ TcInitContextFails \/ TcDecodeFails \/ TcReadFrameFails

-----------------------------------------------------------------------------
(* The fetcher: "R", then nothing until the byte 1, then data of the       *)
(* session, and bytes the transcoder does not know, or "F".                *)
Ask ==
  /\ ~asked /\ ~quitting
  /\ session < MaxSessions
  /\ Len(transcoder_control_pipe) < CtlCap
  /\ transcoder_control_pipe' = Append(transcoder_control_pipe, "R")
  /\ session' = session + 1
  /\ asked' = TRUE
  /\ UNCHANGED <<transcoder_pipe, outputs, tcVars, quitting>>

Answered ==
  /\ asked
  /\ mp3_fetcher_control_pipe # <<>>
  /\ mp3_fetcher_control_pipe' = Tail(mp3_fetcher_control_pipe)
  /\ asked' = FALSE
  /\ UNCHANGED <<inputs, rtp_server_control_pipe, rtp_server_pipe, tcVars,
                 session, quitting>>

Feed ==
  /\ ~asked /\ ~quitting
  /\ session > 0
  /\ Len(transcoder_pipe) < McPipeCap
  /\ transcoder_pipe' = Append(transcoder_pipe, session)
  /\ UNCHANGED <<transcoder_control_pipe, outputs, tcVars, envVars>>

Command ==
  /\ ~asked /\ ~quitting
  /\ Len(transcoder_control_pipe) < CtlCap
  /\ \E c \in {"F", "O"} :
       transcoder_control_pipe' = Append(transcoder_control_pipe, c)
  /\ UNCHANGED <<transcoder_pipe, outputs, tcVars, envVars>>

Quit ==
  /\ ~asked /\ ~quitting
  /\ Len(transcoder_control_pipe) + 2 <= CtlCap
  /\ transcoder_control_pipe' = transcoder_control_pipe \o <<"E", "O">>
  /\ quitting' = TRUE
  /\ UNCHANGED <<transcoder_pipe, outputs, tcVars, session, asked>>

(* The RTP server takes commands one by one and samples as it likes.       *)
RtpTakesCommand ==
  /\ rtp_server_control_pipe # <<>>
  /\ rtp_server_control_pipe' = Tail(rtp_server_control_pipe)
  /\ UNCHANGED <<inputs, mp3_fetcher_control_pipe, rtp_server_pipe, tcVars,
                 envVars>>

RtpTakesSamples ==
  /\ \E n \in 1 .. Len(rtp_server_pipe) :
       rtp_server_pipe' = Drop(rtp_server_pipe, n)
  /\ UNCHANGED <<inputs, mp3_fetcher_control_pipe, rtp_server_control_pipe,
                 tcVars, envVars>>

FetcherNext == Ask \/ Answered \/ Feed \/ Command \/ Quit
RtpNext == RtpTakesCommand \/ RtpTakesSamples
Environment == FetcherNext \/ RtpNext

Init ==
  /\ transcoder_control_pipe = <<>>
  /\ transcoder_pipe = <<>>
  /\ mp3_fetcher_control_pipe = <<>>
  /\ rtp_server_control_pipe = <<>>
  /\ rtp_server_pipe = <<>>
  /\ session = 0
  /\ asked = FALSE
  /\ quitting = FALSE
  /\ TranscoderInit

Next ==
  \/ TranscoderNext /\ UNCHANGED envVars
  \/ Environment

Spec == Init /\ [][Next]_vars

-----------------------------------------------------------------------------
(* The variables keep the shapes their comments give them, and no pipe or  *)
(* buffer holds more than its capacity.                                    *)
TypeOK ==
  /\ transcoder_control_pipe \in Seq({"R", "F", "E", "O"})
  /\ transcoder_pipe \in Seq(Sessions) /\ Len(transcoder_pipe) <= McPipeCap
  /\ mp3_fetcher_control_pipe \in Seq({"1"})
  /\ rtp_server_control_pipe \in Seq({"F", "E", "O"})
  /\ rtp_server_pipe \in Seq(Sessions) /\ Len(rtp_server_pipe) <= RtpPipeCap
  /\ tc_pc \in {"select", "control", "flushR", "flushF", "free", "tellR",
                "tellF", "ack", "data", "probe", "frame", "encode", "exit",
                "sayE", "done", "dead"}
  /\ data_ready \in BOOLEAN
  /\ initialized \in BOOLEAN
  /\ context \in {"null", "live", "freed"}
  /\ avio \in Seq(Sessions) /\ Len(avio) <= AvioSize
  /\ pcm \in Seq(Sessions)
  /\ bytes_to_read \in 0 .. MaxPcmPerSample
  /\ tc_pc = "encode" => bytes_to_read >= MinPcmPerSample
  /\ session \in 0 .. MaxSessions
  /\ asked \in BOOLEAN
  /\ quitting \in BOOLEAN

(* Every unit of the sequence belongs to the session of the station that   *)
(* was asked for last.                                                     *)
OfThisSession(units) == \A i \in DOMAIN units : units[i] = session

(* "transcoder has to flush before receiving new stream"                   *)
(* (mp3fetcher.c:619): once the fetcher has the answer, no data of an      *)
(* earlier station is left in the pipe, nor in the buffer of an input the  *)
(* transcoder still reads from.                                            *)
FreshInput ==
  ~asked => /\ OfThisSession(transcoder_pipe)
            /\ initialized \/ tc_pc = "probe" => OfThisSession(avio)

(* What else is left of an earlier station after the answer is in the pipe *)
(* p nobody flushes (Transcoder.c:199-210): less PCM than the station with *)
(* the highest sample rate needs for a sample, whatever the rates of the   *)
(* stations before it were.  A station with a lower rate takes less for a  *)
(* sample (Transcoder.c:122-123), and may make several of what it finds.   *)
ResidueBelowASample ==
  ~asked =>
    \A i \in DOMAIN pcm : pcm[i] # session => i < MaxPcmPerSample

(* The write of a frame into p and the reads of encode are the same        *)
(* process (Transcoder.c:238-239): it would wait for itself if p could     *)
(* fill up.  It never holds more than the largest frame and less than the  *)
(* largest sample, whichever stations follow on each other.                *)
PcmBounded == Len(pcm) < MaxPcmPerFrame + MaxPcmPerSample

(* The answer is given once for each "R", and to a fetcher that waits for  *)
(* it: a byte 1 too many would let a later session start before the flush  *)
(* (Transcoder.c:203-218).                                                 *)
AnswersOnlyRequests ==
  /\ Len(mp3_fetcher_control_pipe) <= 1
  /\ tc_pc = "ack" \/ mp3_fetcher_control_pipe # <<>> => asked

(* Decoder and encoder are never used after free_context or before         *)
(* init_context (Transcoder.c:209, 222-239).                               *)
DecodesWithLiveContext == tc_pc \in {"frame", "encode"} => context = "live"

=============================================================================
