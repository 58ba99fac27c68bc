---------------------------- MODULE RadioStreamer ----------------------------
(***************************************************************************)
(* The program: the three processes main.c starts and the five pipes       *)
(* between them.                                                           *)
(*                                                                         *)
(*            transcoder_pipe              rtp_server_pipe                 *)
(*   fetcher ----------------> transcoder ----------------> RTP server     *)
(*           - - - - - - - ->             - - - - - - - ->                 *)
(*   transcoder_control_pipe            rtp_server_control_pipe            *)
(*           <- - - - - - - -                                              *)
(*       mp3_fetcher_control_pipe                                          *)
(*                                                                         *)
(* Each process takes the steps of its own module.  What a module assumes  *)
(* of the other processes (its environment actions) is a property of the   *)
(* composition: it implements the closed specification of each component.  *)
(***************************************************************************)
EXTENDS Pipes

CONSTANTS
  StationCount, MaxUrls, FdLimit,                             \* fetcher
  FrameChunks, ProbeChunks, AvioSize, LibraryFails,           \* transcoder
  MinPcmPerFrame, MaxPcmPerFrame, MinPcmPerSample, MaxPcmPerSample,
  Garbage, HowMany, PayloadSize, SeqMod, TsMod, TsInc,        \* RTP server
  McPipeCap, RtpPipeCap, CtlCap, FlushBuf                     \* pipes

(* What each component assumes of its constants: the buffer of the library *)
(* holds what it asks for, a read asks for something, and the garbage in   *)
(* the packet buffer is no sample.                                         *)
ASSUME StreamerConstants ==
  /\ StationCount \in Nat \ {0} /\ MaxUrls \in Nat /\ FdLimit \in Nat
  /\ FrameChunks \in Nat \ {0} /\ ProbeChunks \in Nat \ {0}
  /\ AvioSize \in Nat /\ FrameChunks <= AvioSize /\ ProbeChunks <= AvioSize
  /\ MinPcmPerFrame \in Nat \ {0} /\ MaxPcmPerFrame \in Nat
  /\ MinPcmPerFrame <= MaxPcmPerFrame
  /\ MinPcmPerSample \in Nat \ {0} /\ MaxPcmPerSample \in Nat
  /\ MinPcmPerSample <= MaxPcmPerSample
  /\ LibraryFails \in BOOLEAN
  /\ Garbage \notin 1 .. FdLimit
  /\ HowMany \in Nat /\ PayloadSize \in Nat \ {0}
  /\ SeqMod \in Nat \ {0} /\ TsMod \in Nat \ {0} /\ TsInc \in Nat
  /\ McPipeCap \in Nat /\ RtpPipeCap \in Nat /\ CtlCap \in Nat
  /\ FlushBuf \in Nat \ {0}

VARIABLES
  transcoder_control_pipe, transcoder_pipe, mp3_fetcher_control_pipe,
  rtp_server_control_pipe, rtp_server_pipe,
  gui_pc, menu, selected, urls, ispaused, fds, session,
  tc_pc, data_ready, initialized, context, avio, pcm, bytes_to_read,
  rtp_pc, ctl_ready, bytes_available, readchars, packet, next_dest, received

guiVars == <<gui_pc, menu, selected, urls, ispaused, fds, session>>
tcVars == <<tc_pc, data_ready, initialized, context, avio, pcm,
            bytes_to_read>>
serverVars == <<rtp_pc, ctl_ready, bytes_available, readchars, packet,
                next_dest, received>>
vars == <<transcoder_control_pipe, transcoder_pipe, mp3_fetcher_control_pipe,
          rtp_server_control_pipe, rtp_server_pipe,
          guiVars, tcVars, serverVars>>

TranscoderEnded == tc_pc \in {"done", "dead"}

Fetcher == INSTANCE Fetcher
  WITH children_done <- TranscoderEnded /\ rtp_pc = "done"

Transcoder == INSTANCE Transcoder
  WITH MaxSessions <- FdLimit,
       asked       <- gui_pc = "ack",
       quitting    <- gui_pc \in {"wait", "exited"}

RtpServer == INSTANCE RtpServer
  WITH Sample      <- 1 .. FdLimit,
       CtlBound    <- CtlCap,
       writer_done <- TranscoderEnded

Sessions == 1 .. FdLimit

-----------------------------------------------------------------------------
Init ==
  /\ transcoder_control_pipe = <<>>
  /\ transcoder_pipe = <<>>
  /\ mp3_fetcher_control_pipe = <<>>
  /\ rtp_server_control_pipe = <<>>
  /\ rtp_server_pipe = <<>>
  /\ Fetcher!FetcherInit
  /\ Transcoder!TranscoderInit
  /\ RtpServer!ServerInit

(* A step of one process leaves the others, and the pipes it does not      *)
(* touch, alone.                                                           *)
FetcherAlone ==
  UNCHANGED <<rtp_server_control_pipe, rtp_server_pipe, tcVars, serverVars>>

TranscoderAlone == UNCHANGED <<guiVars, serverVars>>

ServerAlone ==
  UNCHANGED <<transcoder_control_pipe, transcoder_pipe,
              mp3_fetcher_control_pipe, guiVars, tcVars>>

FetcherWorks == Fetcher!Working /\ FetcherAlone
TranscoderWorks == Transcoder!TranscoderStep /\ TranscoderAlone
ServerWorks == RtpServer!ServerStep /\ ServerAlone

Next ==
  \/ Fetcher!FetcherNext /\ FetcherAlone
  \/ Transcoder!TranscoderNext /\ TranscoderAlone
  \/ RtpServer!ServerNext /\ ServerAlone

Spec == Init /\ [][Next]_vars

(* The kernel schedules every process that is not blocked; the network     *)
(* answers a connection or fails it.  The user, the streams and sendto are *)
(* free: nothing is typed, received or lost for ever.                      *)
FairSpec ==
  /\ Spec
  /\ WF_vars(FetcherWorks)
  /\ WF_vars(TranscoderWorks)
  /\ WF_vars(ServerWorks)

-----------------------------------------------------------------------------
(* The processes keep what the others assume of them: the composition      *)
(* implements the closed specification of each component.  For the fetcher,*)
(* the transcoder answers once for each "R" (mp3fetcher.c:616-625); for    *)
(* the transcoder, after "R" the fetcher sends neither data nor another    *)
(* command until it has the answer (Transcoder.c:195-211); for the RTP     *)
(* server, "E" is the last the transcoder says, and nobody else takes from *)
(* its pipes (rtp_connection.c:104-130).                                   *)
ComponentSpecs == Fetcher!Spec /\ Transcoder!Spec /\ RtpServer!Spec

(* The sessions a packet has samples of.                                   *)
SessionsIn(payload) ==
  {payload[i] : i \in DOMAIN payload} \cap Sessions

(* No sample of a station comes after one of a later station.              *)
InOrder(samples) ==
  \A i, j \in DOMAIN samples :
    i < j /\ {samples[i], samples[j]} \subseteq Sessions
    => samples[i] <= samples[j]

(* A station change reaches the listeners once and in order: neither in a  *)
(* packet nor from one packet to the next does a sample of an earlier      *)
(* station follow one of a later station (mp3fetcher.c:616,                *)
(* Transcoder.c:199-211, rtp_connection.c:129-144).                        *)
HeardInOrder ==
  [][\A d \in DOMAIN received :
       received'[d] # received[d] =>
         InOrder(received[d].payload \o received'[d].payload)]_received

(* Once the fetcher has its answer, the RTP server has flushed the samples *)
(* of earlier stations, is flushing them, or has been told to: no more     *)
(* escape than can be made of the PCM the transcoder cannot flush.  That is*)
(* less than the largest sample; of the smallest there may be several in   *)
(* it, and every one but the last is old altogether (Transcoder.c:122-140, *)
(* 203-207, rtp_connection.c:123-126).                                     *)
OldStationFlushed ==
  gui_pc # "ack" =>
    \/ rtp_pc \in {"flush", "done"}
    \/ \E i \in DOMAIN rtp_server_control_pipe :
         rtp_server_control_pipe[i] = "F"
    \/ \A i \in DOMAIN rtp_server_pipe :
         rtp_server_pipe[i] # session =>
           (i - 1) * MinPcmPerSample < MaxPcmPerSample - 1

-----------------------------------------------------------------------------
(* Nothing has happened that is known to stop the program: the user has not*)
(* paused, the transcoder has not crashed, the RTP server has not left     *)
(* before it.                                                              *)
NoAccident ==
  /\ ~ispaused
  /\ tc_pc # "dead"
  /\ rtp_pc = "done" => tc_pc = "done"

(* Without accidents, and with frames that come whole, the handshake of    *)
(* every station change completes (mp3fetcher.c:616-625).                  *)
HandshakeEnds ==
  []NoAccident => (gui_pc = "ack" ~> gui_pc = "stream")

(* Without accidents, and with frames that come whole, the exit of the     *)
(* fetcher ends all three processes (main.c:66-67, 95-98).                 *)
ExitEnds ==
  []NoAccident => (gui_pc = "wait" ~> gui_pc = "exited")

(* A station that keeps playing is heard: if the fetcher stays with a      *)
(* session without accidents and forwards its data again and again, a      *)
(* sample of it reaches a destination, in spite of the flushes the last    *)
(* station change left behind (Transcoder.c:199-246,                       *)
(* rtp_connection.c:112-156).  The flush of the RTP server is assumed to   *)
(* end: flush_file reads until the pipe is empty (util.c:102-110), and a   *)
(* transcoder that writes as fast as that keeps it there for ever.         *)
PlayedIsHeard ==
  \A s \in Sessions :
    /\ <>[](NoAccident /\ session = s /\ gui_pc \in {"stream", "forward"})
    /\ []<>(gui_pc = "forward")
    /\ []<>(rtp_pc # "flush")
    => <>(\E d \in DOMAIN received : s \in SessionsIn(received[d].payload))

(* "transcoder has to flush before receiving new stream"                   *)
(* (mp3fetcher.c:619): the fetcher, which waits for it, gets its answer,   *)
(* also when the frame the transcoder reads is not complete yet.           *)
SyncCompletes ==
  [](~ispaused /\ tc_pc # "dead") => (gui_pc = "ack" ~> gui_pc = "stream")

=============================================================================
