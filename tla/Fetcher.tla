------------------------------- MODULE Fetcher -------------------------------
(***************************************************************************)
(* The MP3 fetcher process, which is also the user interface: the station  *)
(* menu of start_gui, the playlist of a station (fetch_playlist), the      *)
(* connection to one of its URLs (fetch_file) with the handshake with the  *)
(* transcoder, the streaming loop, and the end of main.                    *)
(*                                                                         *)
(* A line the user types is a command letter, the number of a station, or  *)
(* anything else; the terminal hands lines out one by one.  A connection   *)
(* that gets as far as the handshake is a session, and its data chunks     *)
(* carry its number.  Sockets are never closed, so the table of open files *)
(* bounds the number of sessions.                                          *)
(*                                                                         *)
(* Closed here by an arbitrary transcoder (the Environment actions);       *)
(* RadioStreamer puts the real one in its place.  External: the network.   *)
(* It may fail where the code looks, and otherwise answers in the end; the *)
(* "R" of a new connection finds room in the control pipe.                 *)
(* Data that is received while paused, and the empty result of recv at the *)
(* end of a stream, change nothing and are left out.                       *)
(***************************************************************************)
EXTENDS Pipes

CONSTANTS
  StationCount,  \* stations in the menu
  MaxUrls,       \* bound of the model on the URLs of a playlist
  FdLimit,       \* sockets the process may have open
  McPipeCap,     \* capacity of transcoder_pipe
  CtlCap         \* capacity of a control pipe

ASSUME FetcherConstants ==
  /\ StationCount \in Nat \ {0}
  /\ MaxUrls \in Nat
  /\ FdLimit \in Nat
  /\ McPipeCap \in Nat
  /\ CtlCap \in Nat

VARIABLES
  transcoder_control_pipe,  \* bytes: "R", "E", or any other, "O"
  transcoder_pipe,          \* chunks of mp3 data
  mp3_fetcher_control_pipe, \* bytes: "1" only, the byte 1
  gui_pc,                   \* where the fetcher is
  menu,                     \* what the user typed last
  selected,                 \* number of the selected station, 0 for none
  urls,                     \* URLs of the playlist not tried yet
  ispaused,                 \* the streaming loop drops the data
  fds,                      \* open sockets
  session,                  \* sessions begun
  children_done             \* transcoder and RTP server have exited

pipes == <<transcoder_control_pipe, transcoder_pipe, mp3_fetcher_control_pipe>>
guiVars == <<gui_pc, menu, selected, urls, ispaused, fds, session>>
vars == <<pipes, guiVars, children_done>>

Sessions == 1 .. FdLimit
Stations == 1 .. StationCount

Nothing == <<>>                \* menu[0] == '\0'
Station(n) == <<"station", n>>
Typed == {<<c>> : c \in {"N", "P", "C", "E", "other"}}
           \cup {Station(n) : n \in Stations}

-----------------------------------------------------------------------------
(* The start of start_gui.                                                 *)
FetcherInit ==
  /\ gui_pc = "scan"
  /\ menu = Nothing
  /\ selected = 0
  /\ urls = 0
  /\ ispaused = FALSE
  /\ fds = 0
  /\ session = 0

(* The menu waits for a line.                                              *)
ScanMenu ==
  /\ gui_pc = "scan"
  /\ \E line \in Typed : menu' = line
  /\ gui_pc' = "loop"
  /\ UNCHANGED <<pipes, selected, urls, ispaused, fds, session>>

(* A station was chosen.                                                   *)
SelectStation ==
  /\ gui_pc = "loop"
  /\ \E n \in Stations : menu = Station(n) /\ selected' = n
  /\ menu' = Nothing
  /\ gui_pc' = "playlist"
  /\ UNCHANGED <<pipes, urls, ispaused, fds, session>>

(* Next: as if the number of the station after this one had been typed.    *)
SelectNext ==
  /\ gui_pc = "loop"
  /\ menu = <<"N">>
  /\ selected' = IF selected = StationCount THEN 1 ELSE selected + 1
  /\ menu' = Station(selected')
  /\ UNCHANGED <<pipes, gui_pc, urls, ispaused, fds, session>>

SelectExit ==
  /\ gui_pc = "loop"
  /\ menu = <<"E">>
  /\ gui_pc' = "quit"
  /\ UNCHANGED <<pipes, menu, selected, urls, ispaused, fds, session>>

(* Pause, Continue and everything else: back to the menu.                  *)
SelectNothing ==
  /\ gui_pc = "loop"
  /\ menu \in {<<"P">>, <<"C">>, <<"other">>}
  /\ gui_pc' = "scan"
  /\ UNCHANGED <<pipes, menu, selected, urls, ispaused, fds, session>>

(* fetch_page got the playlist; its socket stays open.                     *)
FetchPlaylist ==
  /\ gui_pc = "playlist"
  /\ fds < FdLimit
  /\ fds' = fds + 1
  /\ urls' \in 0 .. MaxUrls
  /\ gui_pc' = "urls"
  /\ UNCHANGED <<pipes, menu, selected, ispaused, session>>

(* fetch_page failed: no host, no connection, no socket.  Nobody looks.    *)
FetchPlaylistFails ==
  /\ gui_pc = "playlist"
  /\ urls' = 0
  /\ gui_pc' = "urls"
  /\ UNCHANGED <<pipes, menu, selected, ispaused, fds, session>>

(* Mutant: the URL is found again.                                         *)
UrlStays == urls' = urls

(* The match is spoiled, so that the URL is not found again.               *)
UrlTried == urls' = urls - 1

(* The next URL of the playlist, with a socket of its own.                 *)
TryUrl ==
  /\ gui_pc = "urls"
  /\ urls > 0
  /\ fds < FdLimit
  /\ fds' = fds + 1
  /\ UrlTried
  /\ gui_pc' = "connect"
  /\ UNCHANGED <<pipes, menu, selected, ispaused, session>>

(* socket() fails at the limit of open files.                              *)
TryUrlNoSocket ==
  /\ gui_pc = "urls"
  /\ urls > 0
  /\ fds = FdLimit
  /\ UrlTried
  /\ UNCHANGED <<pipes, gui_pc, menu, selected, ispaused, fds, session>>

(* No URL is left.  An untouched menu means the channel is unreachable, and*)
(* another line is read; otherwise the last line is looked at again.       *)
OutOfUrls ==
  /\ gui_pc = "urls"
  /\ urls = 0
  /\ gui_pc' = IF menu = Nothing THEN "scan" ELSE "loop"
  /\ UNCHANGED <<pipes, menu, selected, urls, ispaused, fds, session>>

(* Bad address, refused, no answer for 3 seconds, or the GET fails: the    *)
(* next URL is tried, and the socket stays open.                           *)
ConnectFails ==
  /\ gui_pc = "connect"
  /\ gui_pc' = "urls"
  /\ UNCHANGED <<pipes, menu, selected, urls, ispaused, fds, session>>

(* Mutant: the stream is forwarded without waiting for the transcoder.     *)
ConnectAndStream ==
  /\ gui_pc = "connect"
  /\ Len(transcoder_control_pipe) < CtlCap
  /\ transcoder_control_pipe' = Append(transcoder_control_pipe, "R")
  /\ session' = session + 1
  /\ ispaused' = FALSE
  /\ gui_pc' = "stream"
  /\ UNCHANGED <<transcoder_pipe, mp3_fetcher_control_pipe, menu, selected,
                 urls, fds>>

(* Connected: the transcoder has to re-init before the stream goes on.     *)
Connect ==
  /\ gui_pc = "connect"
  /\ Len(transcoder_control_pipe) < CtlCap
  /\ transcoder_control_pipe' = Append(transcoder_control_pipe, "R")
  /\ session' = session + 1
  /\ ispaused' = FALSE
  /\ gui_pc' = "ack"
  /\ UNCHANGED <<transcoder_pipe, mp3_fetcher_control_pipe, menu, selected,
                 urls, fds>>

(* The byte 1 ends the wait.  Nothing else is looked at until then.        *)
Synchronized ==
  /\ gui_pc = "ack"
  /\ mp3_fetcher_control_pipe # <<>>
  /\ mp3_fetcher_control_pipe' = Tail(mp3_fetcher_control_pipe)
  /\ gui_pc' = "stream"
  /\ UNCHANGED <<transcoder_control_pipe, transcoder_pipe, menu, selected,
                 urls, ispaused, fds, session>>

(* What was typed goes to the transcoder, not the "F" in buffer.           *)
Pause ==
  /\ gui_pc = "stream"
  /\ Len(transcoder_control_pipe) < CtlCap
  /\ menu' = <<"P">>
  /\ ispaused' = TRUE
  /\ transcoder_control_pipe' = Append(transcoder_control_pipe, "O")
  /\ UNCHANGED <<transcoder_pipe, mp3_fetcher_control_pipe, gui_pc, selected,
                 urls, fds, session>>

Continue ==
  /\ gui_pc = "stream"
  /\ menu' = <<"C">>
  /\ ispaused' = FALSE
  /\ UNCHANGED <<pipes, gui_pc, selected, urls, fds, session>>

(* Any other line is left to the menu; the connection is forgotten.        *)
LeaveStream ==
  /\ gui_pc = "stream"
  /\ menu' \in Typed \ {<<"P">>, <<"C">>}
  /\ gui_pc' = "loop"
  /\ UNCHANGED <<pipes, selected, urls, ispaused, fds, session>>

(* recv fails: the next URL is tried.                                      *)
StreamBreaks ==
  /\ gui_pc = "stream"
  /\ gui_pc' = "urls"
  /\ UNCHANGED <<pipes, menu, selected, urls, ispaused, fds, session>>

(* recv returns a chunk.                                                   *)
Receive ==
  /\ gui_pc = "stream"
  /\ ~ispaused
  /\ gui_pc' = "forward"
  /\ UNCHANGED <<pipes, menu, selected, urls, ispaused, fds, session>>

(* The chunk is written to the transcoder, as soon as it fits.             *)
Forward ==
  /\ gui_pc = "forward"
  /\ Len(transcoder_pipe) < McPipeCap
  /\ transcoder_pipe' = Append(transcoder_pipe, session)
  /\ gui_pc' = "stream"
  /\ UNCHANGED <<transcoder_control_pipe, mp3_fetcher_control_pipe, menu,
                 selected, urls, ispaused, fds, session>>

(* main: the transcoder has to end, and passes it on to the RTP server.    *)
SayExit ==
  /\ gui_pc = "quit"
  /\ Len(transcoder_control_pipe) + 2 <= CtlCap
  /\ transcoder_control_pipe' = transcoder_control_pipe \o <<"E", "O">>
  /\ gui_pc' = "wait"
  /\ UNCHANGED <<transcoder_pipe, mp3_fetcher_control_pipe, menu, selected,
                 urls, ispaused, fds, session>>

(* Both calls of wait have returned.                                       *)
Reap ==
  /\ gui_pc = "wait"
  /\ children_done
  /\ gui_pc' = "exited"
  /\ UNCHANGED <<pipes, menu, selected, urls, ispaused, fds, session>>

(* What the program and the network do in the end, and what the user or a  *)
(* broken connection may do.                                               *)
Working ==
  \/ SelectStation \/ SelectNext \/ SelectExit \/ SelectNothing
  \/ FetchPlaylist \/ FetchPlaylistFails \/ TryUrl \/ TryUrlNoSocket
  \/ OutOfUrls \/ ConnectFails \/ Connect \/ Synchronized \/ Forward
  \/ SayExit \/ Reap

Outside ==
  ScanMenu \/ Pause \/ Continue \/ LeaveStream \/ StreamBreaks \/ Receive

FetcherNext == Working \/ Outside

-----------------------------------------------------------------------------
(* The transcoder: takes commands and data, and answers a waiting fetcher. *)
TakeCommands ==
  /\ transcoder_control_pipe # <<>>
  /\ transcoder_control_pipe' = <<>>
  /\ UNCHANGED <<transcoder_pipe, mp3_fetcher_control_pipe, guiVars,
                 children_done>>

TakeData ==
  /\ \E n \in 1 .. Len(transcoder_pipe) :
       transcoder_pipe' = Drop(transcoder_pipe, n)
  /\ UNCHANGED <<transcoder_control_pipe, mp3_fetcher_control_pipe, guiVars,
                 children_done>>

Answer ==
  /\ gui_pc = "ack"
  /\ \A i \in DOMAIN transcoder_control_pipe :
       transcoder_control_pipe[i] # "R"
  /\ mp3_fetcher_control_pipe = <<>>
  /\ mp3_fetcher_control_pipe' = <<"1">>
  /\ UNCHANGED <<transcoder_control_pipe, transcoder_pipe, guiVars,
                 children_done>>

ChildrenEnd ==
  /\ ~children_done
  /\ children_done' = TRUE
  /\ UNCHANGED <<pipes, guiVars>>

Environment == TakeCommands \/ TakeData \/ Answer \/ ChildrenEnd

Init ==
  /\ transcoder_control_pipe = <<>>
  /\ transcoder_pipe = <<>>
  /\ mp3_fetcher_control_pipe = <<>>
  /\ children_done = FALSE
  /\ FetcherInit

Next ==
  \/ FetcherNext /\ UNCHANGED children_done
  \/ Environment

Spec == Init /\ [][Next]_vars

(* The kernel schedules the fetcher, and the network answers or fails.  The*)
(* user is free, and so is the transcoder: it may wait for data itself or  *)
(* have died, and owes no answer.                                          *)
FairSpec == Spec /\ WF_vars(Working /\ UNCHANGED children_done)

-----------------------------------------------------------------------------
(* The variables keep the shapes their comments give them; a session has   *)
(* cost a socket, so that their number stays within the table of files.    *)
TypeOK ==
  /\ transcoder_control_pipe \in Seq({"R", "E", "O"})
  /\ transcoder_pipe \in Seq(Sessions) /\ Len(transcoder_pipe) <= McPipeCap
  /\ mp3_fetcher_control_pipe \in Seq({"1"})
  /\ gui_pc \in {"scan", "loop", "playlist", "urls", "connect", "ack",
                 "stream", "forward", "quit", "wait", "exited"}
  /\ menu \in Typed \cup {Nothing}
  /\ selected \in 0 .. StationCount
  /\ urls \in 0 .. MaxUrls
  /\ ispaused \in BOOLEAN
  /\ fds \in 0 .. FdLimit
  /\ session \in 0 .. fds
  /\ children_done \in BOOLEAN

(* At most one re-init is on its way to the transcoder or being answered,  *)
(* and the fetcher waits for it: a station change, a failed connection or  *)
(* an exit never leaves one behind (mp3fetcher.c:616-625).                 *)
OneRequestAtATime ==
  LET requests == {i \in DOMAIN transcoder_control_pipe :
                     transcoder_control_pipe[i] = "R"}
  IN /\ \A i, j \in requests : i = j
     /\ requests # {} \/ mp3_fetcher_control_pipe # <<>> => gui_pc = "ack"

(* Nothing is forwarded while the streaming loop is paused, not even a     *)
(* chunk received before the pause (mp3fetcher.c:644-681).                 *)
NothingForwardedWhilePaused ==
  [][Len(transcoder_pipe') > Len(transcoder_pipe) => ~ispaused]_vars

(* "repeat with different ip+port if necessary" (mp3fetcher.c:393): the    *)
(* choice of a station ends, with a stream, or with the user asked again,  *)
(* whatever connections and sockets fail.  The one place where it may wait *)
(* for ever is the answer of the transcoder, which nothing bounds          *)
(* (mp3fetcher.c:619-625): SyncCompletes of RadioStreamer is about that.   *)
TuningEnds ==
  \/ <>[](gui_pc = "ack")
  \/ gui_pc \in {"playlist", "urls"} ~> gui_pc \in {"stream", "scan", "loop"}

=============================================================================
