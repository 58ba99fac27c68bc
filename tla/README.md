# RadioStreamer: specification and verification

RadioStreamer (`main.c`, `mp3fetcher.c`, `Transcoder.c`, `rtp_connection.c`,
`rtp_packet.c`, `util.c`) lets a user choose a SHOUTcast station at a text menu,
fetches its mp3 stream over HTTP, transcodes it to mu-law and sends it as RTP to
the addresses given on the command line. It is three processes that talk over
five pipes, one byte of command at a time, with blocking reads and writes
everywhere. What can go wrong is in the order of these bytes, and that is what the
first half of this project is about.

The repository also holds GNU ccRTP 1.8.0 (`test_code/libccrtp-1.8.0`), the RTP
library its authors tried first. The program neither includes nor links it, but it
is most of the code of the repository: queues with two threads, RTCP timers,
SRTP. The second half models it, for itself; nothing in the first half rests on
the second.

Paths below are relative to `src/`, those of ccRTP to
`src/test_code/libccrtp-1.8.0/src/`.

## 1. Inventory

### The program

| Component | Code | State | Operations |
|---|---|---|---|
| Fetcher and user interface (parent process) | `mp3fetcher.c` 285-690, `main.c` 88-98 | last line typed (`menu`), selected station, URLs of the playlist not tried, `ispaused`, open sockets | choose a station, next, pause, continue, exit; fetch a playlist; try a URL; handshake with the transcoder; forward a chunk; fail over; wait for the children |
| Transcoder (first child) | `Transcoder.c`, `main.c` 49-70 | `initialized`, the codec contexts, libavformat's input buffer, PCM in the pipe `p` between decode and encode | re-init (`R`), flush (`F`), exit (`E`), open an input, decode a frame, encode samples |
| RTP server (second child) | `rtp_connection.c`, `rtp_packet.c`, `main.c` 71-86 | packet buffer, sequence number, timestamp, position in the destination list | select/FIONREAD, exit, flush, read a payload, send it to every destination |
| Pipes | `main.c` 24-47, `util.c` 91-113 | five byte queues | blocking read and write, `flush_file` |
| Startup and catalogue | `main.c` 19-98, `util.c` 30-89, `rtp_connection.c` 24-68, 190-262, `mp3fetcher.c` 29-282 | command-line options, destination table and list, UDP sockets, attempts on a page, genre and station counts | parse, make pipes, fork, resolve, bind; fetch the genres and the stations with retries; genre menu; end of the processes |
| SSRC | `util.c` 1-28 | none | `random32` |

```
          transcoder_pipe (mp3)         rtp_server_pipe (samples)
 fetcher ----------------------> transcoder ---------------------> RTP server --> UDP
         - - - - - - - - - - ->             - - - - - - - - - - ->
         transcoder_control_pipe            rtp_server_control_pipe
         R  re-init, E  exit,               F  flush, E  exit
         P  (typed by the user)
         <- - - - - - - - - - -
         mp3_fetcher_control_pipe:  byte 1, "re-init done"
```

A station change is a handshake: the fetcher connects, writes `R`, and reads until
the byte 1 comes back; the transcoder flushes its input, frees its contexts,
tells the RTP server to flush and answers. Exit goes down the chain: the fetcher
writes `E`, the transcoder ends and `main` writes `E` for it to the RTP server,
and the parent waits twice. No process closes the pipe ends it does not use, so
nobody ever sees an end of file or a SIGPIPE: a process whose peer has died blocks.

### ccRTP

| Component | Code | State | Operations |
|---|---|---|---|
| Members and reception | `members.cpp`, `ccrtp/iqueue.h` | per source: highest number, bad number, probation, counts; members, senders | register a source, BYE, `recordReception`, `computeStats` |
| Incoming queue | `incqueue.cpp`, `ccrtp/iqueue.h` | two doubly linked lists of received packets, conflicts of addresses | take in a packet, get data with or without a source, expire, purge |
| Outgoing queue | `outqueue.cpp`, `ccrtp/oqueue.h`, `ccrtp/rtp.h` | list of packets, send lock, destinations, peer of the socket | put, send immediately, rewrite a part, destinations, schedule, expire, dispatch |
| SRTP | `CryptoContext.cxx`, `rtppkt.cpp`, `crypto/gcrypt` | roll-over counter, highest number, replay window, session keys | derive keys, protect, guess the index, check the replay, unprotect |
| RTP packets | `rtppkt.cpp`, `ccrtp/rtppkt.h` | buffer, sizes, flags | constructors, accessors, validity check |
| Digests | `ccrtp/crypto/skein*.c`, `macSkein.cpp`, `queue.cpp` | chaining words, tweak, buffer; stream position | init, update by bytes and bits, final, reset |
| RTCP service | `control.cpp`, `ccrtp/cqueue.h` | times of the last and the next report, members then and now | check, report, reconsider, BYE with back-off |
| RTCP packets, participants, applications | `control.cpp`, `rtcppkt.cpp`, `source.cpp` | description items, next item, participants | write and read compounds |
| Session pool | `pool.cpp`, `ccrtp/pool.h` | list of sessions, socket set, highest socket | make, add, remove, serve |
| Channels and sockets | `ccrtp/channel.h`, `socket.cpp`, `duplex.cpp` | a descriptor | wrappers of system calls |

An application thread and the service thread of a session share the outgoing queue
and the socket; the service thread, or that of the pool, calls the incoming queue
and the RTCP service in turn. The incoming queue asks the members, the SRTP context
of the source and its reception record before it links a packet; the RTCP service
reads the reception records into its reports and counts the members to space them.

### What is hard

* Each process of the program blocks in many places where it does not look at its
  commands: in a library read, in a write to a full pipe, in the wait for the byte 1.
* The transcoder reads all pending commands at once and looks at the first; the
  RTP server counts what is in its pipe before it reads its command.
* Flushes race with the data behind and in front of them, through two pipes.
* Contexts, sockets and the pause flag have lifetimes nobody manages; every system
  call may fail half-way through a list.
* ccRTP: lists linked by hand, in two directions and twice; two threads on one
  socket; counters that wrap, of which half is not on the wire; timers computed
  with unsigned differences; packets that are lost, repeated and reordered; buffers
  and contexts that are used again with what the last use left in them.

The complete list, with the line of each, is under `hazards` in `PROJECT.json`.

### What makes each component correct

* RTP server: one stream of packets without a gap, the same for everybody, made
  only of samples from its pipe; commands are obeyed in the end.
* Transcoder: after the answer to `R` nothing of the old station is left, except
  less PCM than the largest sample takes; one answer for each `R`; no use of freed
  contexts.
* Fetcher: one `R` at a time; nothing forwarded while paused; a choice of station
  ends with a stream or a question to the user.
* Startup: the server sends to the destinations asked for; a menu that cannot be
  fetched is given up; what was started is ended.
* Program: a station change reaches the listeners once and in order; handshakes
  and exit complete; a station that plays is heard.
* Queues of ccRTP: the two lists agree and nothing points to what was freed; a packet
  that is sent goes to all destinations; what is queued is sent or expires.
* Receiver: newer packets are accepted over any loss the numbers can tell; one that
  was accepted as the newest is not accepted again; what was lost is reported.
* RTCP: the members counted are those there are; reports are spaced and go on.
* Pool: no freed element is used, no receive blocks, every session is served.
* Wire: what was sent is what is read, whatever the layout and the algorithms; a
  digest is that of the message; no part of a key stream is used twice.

## 2. Modules

| Module | Models |
|---|---|
| `Pipes` | reads, writes and `flush_file` on a pipe, as operators on sequences |
| `RtpStream` | abstract specification: the stream of packets the destinations share |
| `RtpServer` | the loop of `rtp_connection_kick`, closed by an arbitrary writer |
| `Transcoder` | the loop of `audio_transcode`, closed by an arbitrary fetcher that keeps to the handshake, and an arbitrary RTP server |
| `Fetcher` | `start_gui`, `fetch_playlist`, `fetch_page`, `fetch_file`, end of `main`; closed by a transcoder that answers a waiting fetcher |
| `RadioStreamer` | the three processes composed, by `INSTANCE` of the three modules |
| `Startup` | the program before the station menu, and the end of its processes |
| `SequenceNumbers` | the sequence numbers of packets, for `Reception` and `SrtpContext` |
| `Reception` | `SyncSourceLink`'s record of a source, as operators on a record |
| `IncomingQueue` | `IncomingDataQueue` over `Reception`, the lists pointer by pointer |
| `SrtpContext` | roll-over counter and replay window, as operators on a record |
| `OutgoingQueue` | `OutgoingDataQueue` with its two threads |
| `MediaPath` | `OutgoingQueue`, a network, and a receiver of `SrtpContext` and `Reception` |
| `RtcpControl` | `QueueRTCPManager`: checks, reports, members, BYE |
| `SessionPool` | `SingleRTPSessionPool`: the list, the socket set, the thread |
| `Threefish`, `Skein`, `Md5` | the digests, as operators on contexts |
| `Digest` | messages put into a digest piece by piece, one after the other |
| `RtpPacket`, `SrtpCrypto` | layout of an RTP packet; keys, key streams and tags with symbolic ciphers |
| `SecurePath` | packets of two sources made, protected, carried, parsed and unprotected |
| `RtcpCompound` | compound RTCP packets written and read, participants |
| `MC...` | instances for TLC; two of them put modules that do not interact into one state graph, each in behaviours of its own while the others rest: `MCParent` (`Startup`, `Fetcher`) and `MCWire` (`Digest`, `SecurePath`, `RtcpCompound`, `IncomingQueue`); `MCIncomingQueue` is for the duplicates alone |
| `PipesTheorems`, `RtpServerTheorems`, `TranscoderTheorems`, `FetcherTheorems`, `StartupTheorems`, `CcrtpTheorems`, `MediaPathTheorems`, `RadioStreamerTheorems` | theorems and proofs; `CcrtpTheorems` is about `RtcpControl`, `SessionPool` and `IncomingQueue`, `MediaPathTheorems` about `MediaPath` and `SecurePath` |

### The program

The variables have the names of the C variables; `rtp_pc`, `tc_pc`, `gui_pc` and
`main_pc` say where a process is in its code. A step is what a process does between
two points where another can interfere: a system call, with the local code after it.
So `select`, `FIONREAD`, each `read` and each `sendto` are steps of their own,
and an assignment to a local variable is part of the step it follows.

Each of the three component modules has two parts: the actions of the process
(`ServerNext`, `TranscoderNext`, `FetcherNext`), which `RadioStreamer` takes over
unchanged, and a closure that lets the process be checked and proved about alone.
What the closure assumes is not taken on trust: `ComponentSpecs`, which is checked
and proved, states that the composition implements the closed specifications, with `asked`, `quitting`,
`writer_done` and `children_done` mapped to the state of the other processes.

Abstractions:

* mp3 data is a sequence of chunks, a frame is `FrameChunks` of them, PCM and
  samples are units; each unit carries the number of the session (the connection
  that got as far as the handshake) it came from. Its value is not looked at by
  any line of the code.
* How much PCM a frame decodes to and how much a sample takes follow the station:
  `bytes_to_read` is computed in each call of `encode` from the sample rate
  (`Transcoder.c:122-123`). Both are chosen anew for each frame, from
  `MinPcmPerFrame .. MaxPcmPerFrame` and `MinPcmPerSample .. MaxPcmPerSample`, so
  that what one station leaves in `p` may be several samples of the next.
* A line typed by the user is a command letter, a station number, or another
  word. The terminal delivers one line per read.
* libavformat and libavcodec are external. A read of the library blocks until it
  has what it needs, takes what the pipe holds up to the room in its buffer, and
  may fail where the code handles a failure (`LibraryFails`). libavformat's
  `pipe:` input reads a blocking descriptor, and no end of file can come.
* A double free is a choice between an abort and carrying on.
* Sockets are counted (`fds`, up to `FdLimit`), because none is ever closed: the
  `close` of `mp3fetcher.c:687` is behind a loop without a `break`.
* A received chunk that is dropped while paused, and the empty result of `recv` at
  the end of a stream, change no state and have no action.
* `start_gui` is modelled for a menu with at least one station.
* `Startup` has the command line as a sequence of options; an option `-c` is a list
  of destinations, odd when the last port is missing. It takes the children's
  loops only up to their end: the exit command, a stream the library does not
  recognise, or a failing `sendto`. Its `tc_control` is `transcoder_control_pipe`.

### ccRTP

* What the code does under one lock, or on the one thread that does it, is a step.
  Where threads meet without a lock (the peer of the socket in `OutgoingQueue`, the
  list copy in `SessionPool`) the steps are as fine as the calls.
* A pointer is the number of a link or element, and memory that is freed has a value
  of its own. In `IncomingQueue` following a freed pointer ends the behaviour with `ub`
  set. In `SessionPool` addresses come back,
  since whether an old address is taken for a new session is the question there.
* Packets are numbers whose sequence number is the remainder. Counters wrap at
  small moduli that are constants, so that wraps happen in the instances.
* Out-of-range shifts of the replay window have the outcomes a build can produce.
* Times are ticks relative to now, and what is `Far` past is only that.
* Ciphers and compression functions are symbolic: a byte of a key stream is named by
  key, vector and position, a tag by the key and what it covers, a chaining value by
  the blocks it came from. `Threefish` alone looks inside: it compares the network
  the unrolled code runs (its orders of words, its key schedule that grows by copying)
  with the definition of the cipher.
* Bytes count where a length is at stake: cells in `RtpPacket`, bytes in `RtcpCompound`
  and the digests. Behind a received RTCP packet the buffer holds what is left of an
  older one, modelled as bytes that are all equal (`Leftover`), so that a reader that
  walks on is seen.

## 3. Runs

| Run | Shows |
|---|---|
| `rtp_server` | stale counts are harmless, only fresh audio is sent, the server implements `RtpStream`, exit is obeyed behind any commands |
| `transcoder` | a re-init leaves less than the largest sample behind, is answered once, the contexts are live when used |
| `parent` | a server whose set-up worked sends to the last `-c`; a menu is reached or given up; an exit ends what was forked, or waits for a transcoder that does not come to it; one re-init at a time; tuning ends, whatever fails on the way, or waits for the transcoder's answer |
| `system_safety` | old samples are flushed after a change, but for what the PCM left in `p` makes; listeners never go back to an earlier station; the closures of the component modules are sound |
| `system_handshake` | the handshake of every station change and the exit complete, without pause, crash and partial frames |
| `system_liveness` | a station that keeps playing is heard |
| `system_sync` | violated: handshake and partial frame wait for each other |
| `session_pool` | the pool's thread uses no freed element, waits in `recv` for no socket `select` looked at, serves every session and never deadlocks |
| `incoming_duplicates` | violated: a packet that is in the queue is inserted again |
| `media_path` | a packet goes to all destinations; the receiver follows the roll-over counter, does not accept again what it accepted as the newest, and reports losses; the queue drains |
| `rtcp` | the members counted are those who have not left; reports are half the shortest interval apart; timers stay in reach; the service goes on until its BYE; up to the BYEs below |
| `wire` | digests are those of the messages; packets arrive as sent; key streams are not used twice; compounds are read as written; every description item that is scheduled has its turn; the two lists of the queue are well linked and agree and no pointer dangles, up to the cases below; one stray packet does not restart a source |

The type invariant of a module is the first conjunct of one of the invariants its
run checks (`ReachesAll`, `TimersNear`, `NoDanglingElement`, `SendsToTheAskedFor`,
`ListsAgree`) or, in `transcoder`, an invariant itself; those of `RtpServer` and `Fetcher`
are proved.

`system_sync` contradicts the program's own comment, quoted under `findings` in
`PROJECT.json`. It belongs together with `system_handshake`: `NoAccident`
excludes a pause, a crash of the transcoder and an early end of the RTP server, and
the configuration makes every chunk a frame. Give up the last and `system_sync`
finds the deadlock; give up the first and an exit that is read together with a
pause is lost. So these are the conditions under which the program's protocol works.
The run of the parent does not assume them: it says only that the choice of a station ends
or waits for the answer for ever (`TuningEnds`), and that an exit ends the children
unless the transcoder never comes to it or has left with `exit(1)`
(`ExitEndsChildren`). Leaving at the genre menu is outside `ExitEndsChildren` too.

`incoming_duplicates` contradicts ccRTP's header, which says that a packet that was
already in the queue is not inserted but deleted (`ccrtp/iqueue.h:1241-1245`). The code
deletes one with the number of its source's last packet. The comparison for all others
stands in a loop that is only entered for greater numbers (`incqueue.cpp:374-388`), so that
they are queued again, and `get` hands out both. `ListsAgree` therefore says that within a
source numbers do not go back, and that the last one is there once.

`PlayedIsHeard` assumes that the flush of the RTP server ends. `flush_file` has
no bound, and without the assumption TLC finds a transcoder that refills the pipe as
fast as it is emptied. In the program a read takes up to 100 samples and a write
one, which makes this unlikely rather than impossible.

### What the code does outside the properties

Each of these is in the model where its module covers it, and the properties are
stated so that they hold beside it. In the program:

* Two re-inits without data between them, or an exit after a re-init, free the
  codec contexts twice.
* PCM of the old station that is left in `p` is played with the new one. It is less
  than a sample took (22 bytes at 44.1 kHz), which may be more than a sample of the new
  station takes (11 bytes at 22.05 kHz).
* A pause does not flush what is already on its way; a failover to the next URL
  forgets the pause.
* The transcoder leaves with `exit(1)` when it cannot set up a codec. It has told neither
  the fetcher, which waits for its next answer for ever, nor the RTP server, which never
  gets an `E`, so that at the end the parent waits for ever too.
* After a failed resolution the RTP server sends to a freed list; leaving at the genre
  menu leaves the children behind.

In ccRTP:

* A packet that goes in front of its source's queue is linked before all others'
  too, and `recvFirst` stays where it was; a query for one source that skips packets
  leaves them half linked (`incqueue.cpp`). Both spoil the lists: the model stops there
  (`spoiled`), and `ListsAgree` and `NoDanglingPointer` are about queues before that.
* `searchDataConflict` runs off the end of its list when the local SSRC collides.
* `setPartial` returns with the send lock held when the offset is behind the end of
  the packet; `QueueDrains` excludes this. Otherwise it writes into the packet that is queued,
  which `putData` may have protected already: its tag is wrong from then on and a
  receiver dismisses it (`outqueue.cpp:583-614`). `NewerAccepted` is about packets that were
  not written into.
* A packet may be in the queue of received packets more than once (`incoming_duplicates`).
* `sendImmediate` and the service thread set the peer of one socket; `ReachesAll`
  excludes a packet whose peer the other thread set before it was sent
  (`disturbed`).
* A late packet of before a roll-over, or one that is dismissed, may become the highest
  number of the SRTP context; `NewerAccepted` and `NewestOnce` end there (`spoiled`). A
  packet that is accepted late does not mark its bit of the window
  (`CryptoContext.cxx:458`) and may be accepted again; `NewestOnce` is about those that
  were accepted as the newest.
* F8 makes its vector from the counter of the context, not from the guessed one, so
  that the first packet behind a roll-over is deciphered wrongly.
* The padding bit is cleared before the tag is checked, so that a padded protected
  packet is dismissed; `reComputePayLength` makes its size grow.
* With a Twofish algorithm `srtpEncrypt` does nothing: packets are sent as they are.
* `onGotRR` compares the reporter's SSRC with its own, so that receiver information is
  never recorded; a second packet of report blocks begins with the first source again;
  the reserve of 100 bytes does not cover long description items.
* The reason's length in a BYE counts its padding and wraps above 251; its padding
  bit is not initialised; a BYE that is refused makes the reader loop.
* A BYE counts its member out as often as it comes, and more often. `getBYE` counts out
  the first source of a BYE once for each source it names (`control.cpp:525-536`), and
  the loop around it does not move on to what is behind a BYE in its compound but takes
  the same BYE again for it (`control.cpp:420-433`). `MembersCounted` ends where a source
  was counted out a second time (`repeated`). `RtcpControl` has both as the number of times
  one BYE counts (`CountOutAgain`, up to `MaxByes`).
* A BYE that names no source is not left behind: the service thread loops in
  `takeInControlPacket` for ever (`control.cpp:506-507`), as it does with a BYE that is refused.
  Both are among the cases of `ServiceGoesOn`.
* A BYE that comes when a report is overdue puts the next report far away; `TimersNear`
  says what holds otherwise (`overdue`).
* The description item `H323CADDR` may be set, and is read by a receiver, but is never
  scheduled: `lastSchedulable` is the item before it (`control.cpp:58`). `EveryItemInTurn` is
  about the others.
* `highestSocket` misses a socket whose number is one or two above the highest so far:
  `select` does not look at it, and its session is not served, or the thread waits in `recv`
  for it with the pool locked. `EverySessionServed` and `RecvNeverWaits` are about the
  sockets `select` looks at.

### Bounds

* RTP server: two destinations (one of them behind the other), payloads of two
  samples in a pipe of three, so that pipes with less than, exactly and more than a
  payload occur; sequence numbers modulo 2 and timestamps modulo 8 in steps of 2,
  so that both wrap, at different packets; two unread commands.
* Transcoder: three sessions (a re-init of a fresh, a live and a freed context);
  frames of two chunks with a buffer of three, so that a partial frame can stay
  behind; frames of two or three units of PCM and samples of one to three, so that PCM
  stays in `p` and may be two samples of the next station; a flush that needs two reads.
* Fetcher: two stations, two URLs, four sockets: two playlists with a session each,
  or a playlist with a failover, and the limit reached at every point of the code.
* Program: one station (Next wraps to it) and one destination; pipes of one or two
  units; two unread commands; sequence numbers play no part there and are modulo 1.
  `system_safety` has four sockets, hence two sessions, frames of two chunks and of three
  units, of which a sample takes one or two, so that what is left of one station may be a
  whole sample of the next (that it is several is left to `transcoder` and to the theorem);
  `system_handshake` two sessions and samples of one or two units, so that the second handshake
  finds data, PCM and live contexts of the first, and no destination, since no step of a
  handshake waits for one; `system_liveness` one session with a destination, with samples
  that span two frames, since two sessions with a destination are too many states for a
  liveness check: that a station change does not change this rests on `HandshakeEnds`;
  `system_sync` three sockets and no destination.
* The capacities of the pipes are the guards of the writes, as in the kernel; the
  control pipes' real capacity (64 KiB) is never reached in practice, and the
  small one of the model only limits how many commands can wait.
* Startup: two hosts of any family, every command line of up to two options, a table
  of two, the real numbers of attempts (5 and 10). An option that names more
  destinations than the table holds is left out (`HostLists`).
* Incoming queue: a remote source and one with the local SSRC, two addresses, three
  links, so that a packet can be first, last and in the middle of either list; sequence
  numbers modulo 4, so that four packets wrap; dropout and misorder limits of 2.
* Media path: four packets from number 4 modulo 6, so that they wrap after two, with
  a window of four (a packet falls out of it) on ints of two bits; five deliveries of
  any of them to two destinations.
* RTCP: another participant, who may move between two hosts and collide, and the
  session's own SSRC, which others may pick; a BYE that counts its source out once or
  twice; spans modulo 8 for a shortest interval of 3 and a `Far` of 6; a member counter
  modulo 3; a crowd is more than one.
* Pool: two addresses for three sessions and three elements, so that both come
  back; sockets 3 and 4, the last bit of one word and the first of the next.
* Wire: words of one byte, so that a Skein block is 4, 8 or 16 bytes; messages of up to
  two blocks and a byte, in any pieces; keys shorter than, as long as and longer than a
  block; digests of less than, exactly and more than a block, also in bits. Every
  pair of SRTP algorithms, with packets of every combination of sources,
  extension, padding and payload; sequence numbers modulo 4 from 2, with five packets,
  so that the counter rolls over. Datagrams of 96 bytes and two report blocks a packet;
  configurations of items with none, one and several set.

`CHECK_DEADLOCK FALSE` where the program or a thread is meant to end, or a bound of
the model stops it (`MaxPackets`, `MaxTaken`, `MaxLinks`, `MaxSent`). `session_pool` checks
deadlock: the pool's thread must always be able to go on.

### Fairness

* The program: weak fairness on the steps of each process, since the kernel
  schedules a process that is not blocked. `ConnectFails` and `FetchPlaylistFails`
  belong to the fair steps because `connect` has a timeout of 3 seconds; `fetch_page`
  has none, and its return is an assumption on the network. Nothing is assumed of
  the user, of data arriving (`Receive`), of a stream breaking, of `sendto` failing or
  of errors of the library.
* Fetcher: its own steps. Nothing is asked of the transcoder, not even an answer.
* Startup: the parent and the RTP server's steps, without the end by a failing `sendto`.
  Nothing is asked of the transcoder.
* Media path: the service thread only; neither the application nor the network.
* RTCP: the service thread's steps (`BeginCheck`, `EndCheck`, `CountOutAgain`,
  `Transmission`, `BackOff`)
  and `Tick`, because time passes. No packet ever has to come.
* Pool: the thread (`Run`); nobody has to add or remove a session.
* Incoming queue and wire: safety only, no fairness.

## 4. Proofs

Each component is proved about under its own closure: for every value of the
constants its assumption allows (`RtpConstants`, `TranscoderConstants`,
`FetcherConstants`, `StartupConstants`, `RtcpConstants`, `SrtpConstants`,
`QueueConstants`, `PathConstants`, `PoolConstants`, `SecureConstants`) and every behaviour of its
environment the closure allows. `RadioStreamerTheorems` is about the program as a
whole, under `StreamerConstants`, which only puts together what the three components
assume.

`RtpServerTheorems`:

* `TypeCorrect`: the type invariant `TypeOK` is inductive.
* `CountNeverStale`: `AvailableStays` is inductive given `TypeOK`. The server is the
  only reader, a flush leaves the turn (`continue`), and the writer only adds.
* `FreshAudio`: `OnlyFreshAudioSent` follows from `FreshWhenSending` and
  `ReceivedAudio`. These need `AvailableStays`, which makes the read of the payload
  complete, and `FilledPayload`, by which a complete read replaces the whole buffer.
* `ServerImplementsStream`: the refinement of `RtpStream`, by the inductive
  invariant `Lockstep`: destinations before `next_dest` have the packet in the
  buffer, the others have the one before it. Without it a `sendto` could be the
  second of the same packet or skip one. It holds until the server is done, so a
  failing `sendto` in the middle of the list does not break it.

`TranscoderTheorems`: `TranscoderInv` is the conjunction of `TypeOK` and

* `Handshake`: the `R` in the pipe, the re-init and the byte 1 exclude each other,
  and each of them means that the fetcher waits. `AnswersOnlyRequests` alone is not
  inductive: it says nothing of where a second answer could come from. The
  invariant also says what is empty while the fetcher waits.
* `LiveContext`: `initialized` stands for live contexts except between the free and
  the answer (or the end), which is why `initialized = 0` may come as late as
  `Transcoder.c:209`.
* `Fresh`: what `FreshInput` says; given `Handshake` it is inductive, because the
  answer finds the pipe empty and no input open.
* `Residue`: less than the largest sample in `p` between two frames, whatever its
  session: `encode` stops below what it takes for a sample, which never is more. What a
  frame adds behind it is of this session by `Fresh`. During a frame there is at most the
  largest frame on top.

From it follow `NewStationStartsFresh`, `LittleIsLeft`, `NeverWaitsForItself` (proved,
not run: the pipe between decode and encode cannot block its only process),
`OneAnswer` and `ContextsAreLive`, for any sizes of buffers, for frames and samples whose
sizes change from frame to frame, and with any failing of the library.

`FetcherTheorems`:

* `TypeCorrect`: with `SocketForSession` (a connection has a socket no session has
  used yet), which is what bounds the sessions by the sockets.
* `OneRequest`: `OneRequestAtATime`, by its own `Handshake`: there is at most one
  `R`, none with the byte 1, and neither unless the fetcher waits.
* `PausedIsSilent` (proved, not run): `NothingForwardedWhilePaused`, from
  `AwakeWhenForwarding`.

`StartupTheorems`: `ServerSendsToTheAskedFor`, for any hosts, options and tables, by
`StartupInv`, which follows a destination: the table begins with those of the last
`-c` (`TableIsAsked`; a repeated option starts over at the front of a table that
still has the others behind), the list is a prefix of the table and the families
met are those of the list (`ListIsAsked`), and a child whose set-up did not fail has
the whole list and the sockets it needs (`SetUpInOrder`). `SendsToTheAskedFor` alone
only speaks of the running server and says nothing of how it got there.

`CcrtpTheorems`, about the reports and the members:

* `ReportsAreSpaced`: `ReportsSpaced`, from `TimesInv`: the last report is never
  recorded as further back than it was sent. That is what a BYE's rescaling could
  break: the scaled span is a number whatever wraps (`ScaledIsNat`), so it may only
  move the last report towards the future, and a report waits longer, not shorter.
* `MembersAreCounted`: `MembersCounted`, for any set of sources and width of the
  counter, by `CountInv`: who has left was known before, and the counter is, modulo its
  width, the number of those known that have not left. `SourcesAreCounted` and `RestIsUnique` carry a
  cardinality through the wrap of the counter. A BYE that counts its source out again
  leaves the invariant with nothing to say of the count, but for its width.
* `TimersAreNear`: `TimersNear`, by `NearInv` and `TableInv`. A report is scheduled at most
  the longest interval after now or after the last one, whichever is later (`IntervalsAreShort`); a
  BYE moves it nearer, because a span scaled to fewer members does not grow
  (`ScaledIsShorter`), which needs that its product with the members has not wrapped.
  That is what fails when the report is overdue. A check begins behind its time
  and takes whole turns of its interval until it is ahead again (`ChecksAreNear`).
  `TableInv` says that a source that is counted has an address.

about the pool of sessions, for any sessions, sockets, elements and words of a socket set:

* `NothingDangles`: `NoDanglingElement`, by `PoolInv`: neither the list nor the thread's
  copy of it has an element twice, what the copy holds is still in the list, and an
  element of the list is allocated and has a session of its own that exists, or is cleared. The
  property alone does not say why an element the copy holds is not freed: only the
  thread frees elements, cleared ones of the list, when it is through with its copy.
* `RecvIsReady`: `RecvNeverWaits`, with `SocketsDiffer` (open sockets differ) and
  `Ready` (what `select` found and the copy has still to serve has a packet). An address or a
  socket that comes back between `select` and `recv` belongs to an element the
  copy does not hold.

about the queue of received packets, for any sources, addresses, numbers and limits:

* `ListsStayLinked`: `ListsAgree`, by `QueueInv`. Its conjunct `WellMade` is about
  pointers only: there is a placement `pos` of the live links such that the global list
  and the list of every source are sorted by it (`IsList`), and within a source the
  sequence numbers do not go back in that order and stay below the last one's
  (`InSequence`). `ListAppend`, `ListInsert` and `ListRemove`
  say what the assignments of one insertion or removal do to one list; `Good` puts
  the lists together. `ListsAgree` speaks of the chains one finds by following the
  pointers: `PartGrows` and `ChainIsList` show that following them as often as there
  are links gives the placed list.
* `NothingIsFollowedAstray`: `NoDanglingPointer`, as `ub` is only set where a link that
  is not live is followed, which `WellMade` excludes in every handler until `spoiled`.
* `RestartsAreExpected`: `RestartNeedsTwo`, by `BadKnown`: the number a source keeps as
  bad comes behind that of a packet it dropped, or behind its first one.

`MediaPathTheorems`, first about `SrtpContext` alone, for any widths of sequence
numbers, counters and windows:

* `GuessIsRight`: the counter `GuessedRoc` finds is the packet's, as long as its index
  is less than half of the sequence numbers away from the highest one. `CountersApart`
  is what it rests on: indices of the same sequence number are at least all sequence
  numbers apart, so that there is only one candidate that near.
* `AheadBecomesHighest` and `AheadAcceptedOnce`: what passes as ahead becomes the
  highest and marks its bit, by which its repetition is dismissed.

then for any network, widths, destinations and threads:

* `KeepsUpWithCounter`: `NewerAccepted`, which only speaks of the packets and the
  context, by `CounterInv`: there is a `base`, fixed when the sender's context is made,
  such that the index of every protected packet that waits, is being sent or was sent is
  its number less `base`; and unless `spoiled`, the receiver's highest index is that of
  the newest packet it accepted. `CounterOfNext` carries it through a roll-over of the
  sender, `GuessIsRight` through one of the receiver. A step of the sender either makes
  a packet (`Makes`) or moves packets (`Moves`), which is all the proof has to know of
  the queue, the threads and the network. `setPartial` moves one too: what it writes takes
  the counter away from a packet (`Untagged`), which no receiver accepts then.
* `TakenOnce`: `NewestOnce`, by `Marked`: every packet that came as the newest and is
  less late than the window is wide has its bit set.
* `ReachesAllHolds`: `ReachesAll`, by `Reaches`: what a thread has aimed at is the head of
  the list it still has to do, and, as long as it is not `disturbed`, what it has reached
  and what it has to do make up the destinations (`Reaching`). The last must hold
  in every state of a transmission, as destinations are only added and removed
  under the lock; `ReachesAll` speaks of its end alone.
* `LossIsReportedHolds`: `LossIsReported`, by `Counting`: over an orderly interval the
  extended highest number and the count of packets differ from their values at the last
  report by the packets sent and taken in, both modulo `CountMod` (`Congruent`).
  `StepAdvances` carries the highest number through a wrap of the sequence number;
  `ModIsUnique` makes the differences of the report exact, since the interval fits the
  counter.

and about the packets on the wire (`SecurePath`), for any pair of algorithms, block and
tag sizes, packets and losses:

* `StreamsNeverMeet`: `KeystreamOnce`, by `SendersInv` and `StreamsInv`: each byte of a key
  stream that was used carries the source and the index of its packet (`Stamped`), and
  the sender's next index is above all of them; indices grow by one, through the
  roll-over of the sequence number. What it rests on is that the vector tells source and
  index (`VectorIsStamped`), and that within a packet the positions differ. `PacketIsMade` computes what the
  constructors and setters lay out in the buffer, for every combination of extension
  and padding.
* `ReadAsPutIn`: `ArrivesAsSent`, by `PathInv`: the packet on its way is one a source
  sealed with the counter it had. `HeaderIsFound` has the receiver find the
  header's end again from the flags alone; `TagTells`: the tag agrees if and only if the
  counter is the sender's and the padding bit, which the receiver has cleared, was not
  set; `FlipTwice` and `ClearedIsRead`: under the sender's stream the payload comes back. The
  theorem also gives `MediaPath` its assumption: what it takes `Unprotects` to do with
  numbers alone is what the code does with packets.

`QueueConstants` and `SecureConstants` say that a stream ends before its counter does; in the
code that is behind 2^48 packets, where the counter would come back to zero.

`RadioStreamerTheorems`, about the three processes together:

* `Composition`: `ComponentSpecs`, from `FetcherIsServed`, `TranscoderIsServed` and
  `ServerIsServed`. Each maps every step of the other two processes to a step of the
  closure, or to none. That a writer never overwrites a command, and that an
  answer finds the fetcher waiting, is `Handshake` of the program: the `R`, the
  re-init and the byte 1 exclude each other, and while one of them is there the fetcher
  waits and sends nothing. `ProtocolHolds` proves it with `TypeInv`, the type invariant of the
  program, in which no session is without a socket.
  The prover cannot use the theorems of an instance; that those about a
  component hold of the program follows from `Composition` by reading
  the two together.
* `OldStationIsFlushed`: `OldStationFlushed`, by `FlushInv`. `Fresh` and `Residue` are
  restated of the program, and `Flushed` says that from the answer on the RTP server has
  flushed, is flushing, has an `F` in its pipe, or finds in the other pipe no more of
  another session than less than the largest sample makes (`FewOld`). `OldStationFlushed`
  alone does not say that no more follows once the flush is done: `FewOld` counts what is
  left of the old session in `p` with the samples already made of it, and the
  stages before `p` must hold nothing of that session (`Fresh`).
* `StationsInOrder`: `HeardInOrder`, by `OrderInv`. It follows the line from the fetcher to
  a destination: every stage has its sessions in order, and none that is later than one
  still in a stage before it (`LineInv`); the packet that is being sent comes before all
  of them, and behind what its destinations have received so far (`HeardInv`). `Available` makes the read of a payload complete, without
  which garbage would be among the samples.

`PipesTheorems` has the facts on reads, writes and flushes, and on the order of what
they move, that the theorems on the program use.

Three definitions were corrected by proofs that failed. `Spans` of `RtcpControl`
took a time that lies as far ahead as the model looks for one that is too far back.
`LossIsReported` claimed the fraction for intervals whose 256ths do not fit the
counter of 32 bits, and for sources still on probation. `RestartNeedsTwo` said that a
source restarts only behind a packet that was dropped for it, but the first packet of a source also
leaves the number behind its own as the bad one (`incqueue.cpp:668-679`), so that a
packet with that number can restart the source behind others; the instance with three links does
not get there, one with five does.

The library's theorems on induction take an operator, which the provers cannot
instantiate. `CcrtpTheorems` does without them where a function is recursive:
`InductionOnSet` is induction on the set of numbers that satisfy a formula, from the least element of
a set, and `StepsExist` shows that a function given by its first value and a step
exists, so that the recursive functions of the model have their equations. What is
defined by `SelectSeq` or the folds is out of reach unless it is written in such a
way, and what is `RECURSIVE` is not expanded at all.

Model-checked only: `DigestOfMessage`, since the digests are written with folds and
`RECURSIVE` operators over messages of any length, and the compounds of `RtcpCompound`
(`CompoundIsRead`, `EveryItemInTurn`), which is written with `RECURSIVE` operators. All
liveness (`QueueDrains`, `ServiceGoesOn`, `EverySessionServed` and the like) stays with TLC: the prover
does not do fairness or `ENABLED`.

## 5. Not modelled

* The layout of the program's packet in memory (the allocation of `create_rtp_packet`
  is shorter than `struct rtp_packet` plus payload by the size of its two `int`s),
  byte order and bit fields: `seq_no` and `timestamp` are kept in host order.
* `random32`: nothing depends on the SSRC.
* The parsing of HTML, playlists and URLs: regular expressions without state. A URL
  without a port, for which `atoi` is given NULL (`mp3fetcher.c:552`), is among the
  `hazards` (with that of `mp3fetcher.c:672`), without a property.
* Errors of `select`, `ioctl` and `pipe` on valid arguments while the program runs.
* The 60000th iteration of `encode`: the largest frame, 192000 bytes, has 48000
  stereo samples.
* ccRTP: channels and sockets, which wrap system calls; the IPv6 twins of the session
  and queue classes, which repeat the IPv4 code; the openssl variants of the gcrypt
  files; demos and templates of session classes that only pass calls on; times,
  jitter and the hash buckets of the source table; APP packets; the removal of sources
  and participants, which nothing calls (`removeSource`) or which ends a session; the
  arithmetic on words inside the digests and ciphers; the master key identifier, which
  no sender sets.

## 6. Plan

Done: all components of the program; the queues, the services and the wire of ccRTP;
theorems on all modules with state but the digests and the compounds, and on the program as a whole.

What is left, by worth:

1. `StationChange`: an abstract specification of a station change (the old station,
   what its PCM left in `p` makes, then the new one), implemented by `Transcoder` and by
   `RadioStreamer`.
2. RTCP of two sessions with each other: `RtcpControl` on both sides of a network, with
   the compounds of `RtcpCompound`.
3. `CompoundIsRead` as a theorem, with the compounds as recursive functions.
