------------------------------ MODULE RtpServer ------------------------------
(***************************************************************************)
(* The RTP server process: the loop of rtp_connection_kick over its        *)
(* control pipe (its stdin), the pipe of mu-law samples the transcoder     *)
(* fills, and the UDP destinations.  select, FIONREAD, the read of the     *)
(* command, each read of flush_file, the read of the payload and each      *)
(* sendto are steps of their own, because the transcoder writes to both    *)
(* pipes between any two of them.                                          *)
(*                                                                         *)
(* The server is closed here by an arbitrary writer of the two pipes (the  *)
(* Writer actions); RadioStreamer puts the transcoder in its place.        *)
(*                                                                         *)
(* Abstractions: the resolved destinations are 1 .. HowMany; a packet is   *)
(* its two header fields that vary and its payload.  connection->seq_no is *)
(* only ever used through its low 16 bits and timestamp through its low 32 *)
(* (init_rtp_packet), so both are kept reduced, in host byte order.        *)
(* select and FIONREAD on a valid descriptor do not fail.                  *)
(***************************************************************************)
EXTENDS Pipes

CONSTANTS
  Sample,      \* samples the transcoder may write
  Garbage,     \* content of the packet buffer malloc returned
  HowMany,     \* connection->howmany
  PayloadSize, \* packet->payload_size, in samples
  SeqMod,      \* 2^16: width of the sequence number on the wire
  TsMod,       \* 2^32: width of the timestamp on the wire
  TsInc,       \* get_timestamp_per_packet_inc
  FlushBuf,    \* size of the buffer of flush_file
  RtpPipeCap,  \* capacity of rtp_server_pipe
  CtlBound     \* bound of the model on unread control bytes

ASSUME RtpConstants ==
  /\ Garbage \notin Sample
  /\ HowMany \in Nat
  /\ PayloadSize \in Nat \ {0}
  /\ SeqMod \in Nat \ {0}
  /\ TsMod \in Nat \ {0}
  /\ TsInc \in Nat
  /\ FlushBuf \in Nat \ {0}
  /\ RtpPipeCap \in Nat
  /\ CtlBound \in Nat

VARIABLES
  rtp_server_control_pipe, \* bytes: "F", "E", or any other, "O"
  rtp_server_pipe,         \* samples
  rtp_pc,                  \* where the server is in its loop
  ctl_ready,               \* FD_ISSET(stdin): what select found
  bytes_available,         \* what FIONREAD found
  readchars,               \* result of the read of the payload
  packet,                  \* the packet buffer
  next_dest,               \* i of the sending loop
  received,                \* last packet each destination got
  writer_done              \* the transcoder has exited

serverVars == <<rtp_pc, ctl_ready, bytes_available, readchars, packet,
                next_dest, received>>
vars == <<rtp_server_control_pipe, rtp_server_pipe, serverVars, writer_done>>

Destinations == 1 .. HowMany
Content == Sample \cup {Garbage}
Payloads == [1 .. PayloadSize -> Content]

Stream == INSTANCE RtpStream

-----------------------------------------------------------------------------
(* create_rtp_packet, init_rtp_packet and the start of rtp_connection_kick.*)
ServerInit ==
  /\ rtp_pc = "select"
  /\ ctl_ready = FALSE
  /\ bytes_available = 0
  /\ readchars = 0
  /\ packet = [seq_no |-> 0, timestamp |-> 0,
               payload |-> [i \in 1 .. PayloadSize |-> Garbage]]
  /\ next_dest = 1
  /\ received = [d \in Destinations |-> Stream!NoPacket]

(* select returns at once if a command waits, else after send_interval.    *)
RtpSelect ==
  /\ rtp_pc = "select"
  /\ ctl_ready' = (rtp_server_control_pipe # <<>>)
  /\ rtp_pc' = "ioctl"
  /\ UNCHANGED <<rtp_server_control_pipe, rtp_server_pipe, bytes_available,
                 readchars, packet, next_dest, received>>

(* FIONREAD on the sample pipe, before the command is looked at.           *)
RtpIoctl ==
  /\ rtp_pc = "ioctl"
  /\ bytes_available' = Len(rtp_server_pipe)
  /\ rtp_pc' = IF ctl_ready THEN "control" ELSE "audio"
  /\ UNCHANGED <<rtp_server_control_pipe, rtp_server_pipe, ctl_ready,
                 readchars, packet, next_dest, received>>

(* Mutant: the read drains the control pipe, only the first byte counts.   *)
RtpControlDrains ==
  /\ rtp_pc = "control"
  /\ rtp_server_control_pipe # <<>>
  /\ rtp_server_control_pipe' = <<>>
  /\ rtp_pc' = CASE Head(rtp_server_control_pipe) = "E" -> "done"
                 [] Head(rtp_server_control_pipe) = "F" -> "flush"
                 [] OTHER -> "audio"
  /\ UNCHANGED <<rtp_server_pipe, ctl_ready, bytes_available, readchars,
                 packet, next_dest, received>>

(* One byte of the control pipe: exit, flush, or nothing the server knows. *)
RtpControl ==
  /\ rtp_pc = "control"
  /\ rtp_server_control_pipe # <<>>
  /\ rtp_server_control_pipe' = Tail(rtp_server_control_pipe)
  /\ rtp_pc' = CASE Head(rtp_server_control_pipe) = "E" -> "done"
                 [] Head(rtp_server_control_pipe) = "F" -> "flush"
                 [] OTHER -> "audio"
  /\ UNCHANGED <<rtp_server_pipe, ctl_ready, bytes_available, readchars,
                 packet, next_dest, received>>

(* flush_file: one read of what FIONREAD found.                            *)
RtpFlush ==
  /\ rtp_pc = "flush"
  /\ rtp_server_pipe # <<>>
  /\ rtp_server_pipe' = FlushRead(rtp_server_pipe, FlushBuf)
  /\ UNCHANGED <<rtp_server_control_pipe, serverVars>>

(* Mutant: no continue after the flush.                                    *)
RtpFlushedFallsThrough ==
  /\ rtp_pc = "flush"
  /\ rtp_server_pipe = <<>>
  /\ rtp_pc' = "audio"
  /\ UNCHANGED <<rtp_server_control_pipe, rtp_server_pipe, ctl_ready,
                 bytes_available, readchars, packet, next_dest, received>>

(* flush_file found the pipe empty; continue.                              *)
RtpFlushed ==
  /\ rtp_pc = "flush"
  /\ rtp_server_pipe = <<>>
  /\ rtp_pc' = "select"
  /\ UNCHANGED <<rtp_server_control_pipe, rtp_server_pipe, ctl_ready,
                 bytes_available, readchars, packet, next_dest, received>>

(* Mutants: any audio is enough; a full payload is not enough.             *)
SomeAudio == bytes_available > 0
MoreThanEnoughAudio == bytes_available > PayloadSize

EnoughAudio == bytes_available >= PayloadSize

(* Less than a payload was there: the turn ends without a packet.          *)
RtpNoAudio ==
  /\ rtp_pc = "audio"
  /\ ~EnoughAudio
  /\ rtp_pc' = "select"
  /\ UNCHANGED <<rtp_server_control_pipe, rtp_server_pipe, ctl_ready,
                 bytes_available, readchars, packet, next_dest, received>>

(* Sequence number and timestamp of the packet after p.                    *)
NextHeader(p) ==
  [p EXCEPT !.seq_no = (@ + 1) % SeqMod, !.timestamp = (@ + TsInc) % TsMod]

(***************************************************************************)
(* The read of the payload, straight into the packet buffer.  It trusts    *)
(* the earlier FIONREAD: nothing looks at readchars, so a short read would *)
(* leave the tail of the previous packet in place, and an empty pipe       *)
(* would block the server.  Without destinations the turn ends here.       *)
(***************************************************************************)
RtpReadAudio ==
  /\ rtp_pc = "audio"
  /\ EnoughAudio
  /\ rtp_server_pipe # <<>>
  /\ LET n      == Least(PayloadSize, Len(rtp_server_pipe))
         filled == [packet EXCEPT !.payload =
                      Take(rtp_server_pipe, n) \o Drop(@, n)]
     IN /\ readchars' = n
        /\ rtp_server_pipe' = Drop(rtp_server_pipe, n)
        /\ packet' = IF HowMany = 0 THEN NextHeader(filled) ELSE filled
  /\ rtp_pc' = IF HowMany = 0 THEN "select" ELSE "send"
  /\ UNCHANGED <<rtp_server_control_pipe, ctl_ready, bytes_available,
                 next_dest, received>>

(* Mutant: the header advances inside the sending loop.                    *)
RtpSendAdvances ==
  /\ rtp_pc = "send"
  /\ received' = [received EXCEPT ![next_dest] = packet]
  /\ packet' = NextHeader(packet)
  /\ next_dest' = IF next_dest < HowMany THEN next_dest + 1 ELSE 1
  /\ rtp_pc' = IF next_dest < HowMany THEN rtp_pc ELSE "select"
  /\ UNCHANGED <<rtp_server_control_pipe, rtp_server_pipe, ctl_ready,
                 bytes_available, readchars>>

(* sendto to one destination; the header advances after the last one.      *)
RtpSend ==
  /\ rtp_pc = "send"
  /\ received' = [received EXCEPT ![next_dest] = packet]
  /\ IF next_dest < HowMany
       THEN /\ next_dest' = next_dest + 1
            /\ UNCHANGED <<rtp_pc, packet>>
       ELSE /\ next_dest' = 1
            /\ packet' = NextHeader(packet)
            /\ rtp_pc' = "select"
  /\ UNCHANGED <<rtp_server_control_pipe, rtp_server_pipe, ctl_ready,
                 bytes_available, readchars>>

(* UDP_SEND_ERROR leaves the loop: the process frees what it has, exits.   *)
RtpSendFails ==
  /\ rtp_pc = "send"
  /\ rtp_pc' = "done"
  /\ UNCHANGED <<rtp_server_control_pipe, rtp_server_pipe, ctl_ready,
                 bytes_available, readchars, packet, next_dest, received>>

(* Every step of the server that does not depend on the network failing.   *)
ServerStep ==
  \/ RtpSelect \/ RtpIoctl \/ RtpControl \/ RtpFlush \/ RtpFlushed
  \/ RtpNoAudio \/ RtpReadAudio \/ RtpSend

ServerNext == ServerStep \/ RtpSendFails

-----------------------------------------------------------------------------
(* The writer of the two pipes: the transcoder, seen from here.            *)
WriteSample ==
  /\ ~writer_done
  /\ Len(rtp_server_pipe) < RtpPipeCap
  /\ \E s \in Sample : rtp_server_pipe' = Append(rtp_server_pipe, s)
  /\ UNCHANGED <<rtp_server_control_pipe, serverVars, writer_done>>

WriteControl ==
  /\ ~writer_done
  /\ Len(rtp_server_control_pipe) < CtlBound
  /\ \E c \in {"F", "O"} :
       rtp_server_control_pipe' = Append(rtp_server_control_pipe, c)
  /\ UNCHANGED <<rtp_server_pipe, serverVars, writer_done>>

(* "E\n" is the last thing the transcoder writes.                          *)
WriteExit ==
  /\ ~writer_done
  /\ writer_done' = TRUE
  /\ rtp_server_control_pipe' = rtp_server_control_pipe \o <<"E", "O">>
  /\ UNCHANGED <<rtp_server_pipe, serverVars>>

(* exit(1) and crashes of the transcoder write nothing.                    *)
WriterDies ==
  /\ ~writer_done
  /\ writer_done' = TRUE
  /\ UNCHANGED <<rtp_server_control_pipe, rtp_server_pipe, serverVars>>

WriterNext == WriteSample \/ WriteControl \/ WriteExit \/ WriterDies

Init ==
  /\ rtp_server_control_pipe = <<>>
  /\ rtp_server_pipe = <<>>
  /\ writer_done = FALSE
  /\ ServerInit

Next ==
  \/ ServerNext /\ UNCHANGED writer_done
  \/ WriterNext

Spec == Init /\ [][Next]_vars

(* The kernel keeps scheduling the server; the writer may stop anywhere.   *)
FairSpec == Spec /\ WF_vars(ServerStep /\ UNCHANGED writer_done)

-----------------------------------------------------------------------------
(* The variables keep the shapes their comments give them, and the counters*)
(* their wire widths (rtp_connection.c:149-154).                           *)
TypeOK ==
  /\ rtp_server_control_pipe \in Seq({"E", "F", "O"})
  /\ rtp_server_pipe \in Seq(Sample)
  /\ rtp_pc \in {"select", "ioctl", "control", "flush", "audio", "send",
                 "done"}
  /\ ctl_ready \in BOOLEAN
  /\ bytes_available \in Nat
  /\ readchars \in 0 .. PayloadSize
  /\ packet \in Stream!Packets
  /\ next_dest \in Nat \ {0}
  /\ received \in [Destinations -> Stream!Packets \cup {Stream!NoPacket}]
  /\ writer_done \in BOOLEAN

(* What FIONREAD counted before the command was read is still in the pipe  *)
(* when the payload is read: the stale count of rtp_connection.c:112 is a  *)
(* lower bound whenever rtp_connection.c:129 uses it, so the unchecked     *)
(* read neither blocks nor comes back short.                               *)
AvailableStays ==
  rtp_pc \in {"control", "audio"} => bytes_available <= Len(rtp_server_pipe)

(* Whatever a destination got was read from the transcoder's pipe: no byte *)
(* of the buffer malloc returned (rtp_packet.c:21) is ever sent, and a     *)
(* packet being sent was filled by a complete read, so it repeats no       *)
(* sample of the packet before it.                                         *)
OnlyFreshAudioSent ==
  /\ rtp_pc = "send" => readchars = PayloadSize
  /\ \A d \in Destinations :
       \A i \in DOMAIN received[d].payload : received[d].payload[i] \in Sample

(* The loop implements one stream shared by all destinations: numbers and  *)
(* timestamps without a gap through wrap-around, flushes and pauses, the   *)
(* same packets for everybody, and nobody more than one packet behind,     *)
(* even when a sendto in the middle of the list fails                      *)
(* (rtp_connection.c:131-154).                                             *)
StreamRefined == Stream!Spec

(* The exit command is obeyed whatever else is in the two pipes, behind    *)
(* any number of flushes (rtp_connection.c:118-127).                       *)
ExitObeyed ==
  (\E i \in DOMAIN rtp_server_control_pipe : rtp_server_control_pipe[i] = "E")
    ~> rtp_pc = "done"

=============================================================================
