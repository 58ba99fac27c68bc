--------------------------- MODULE FetcherTheorems ---------------------------
(***************************************************************************)
(* The safety properties of Fetcher, for any number of stations and URLs,  *)
(* any limit of open files and any capacities of the pipes.                *)
(***************************************************************************)
EXTENDS Fetcher, PipesTheorems

(* A connection that has not begun its session has a socket no session has *)
(* used; the number of a session that has begun is not 0.                  *)
SocketForSession ==
  /\ gui_pc = "connect" => session < fds
  /\ gui_pc \in {"ack", "stream", "forward"} => session # 0

(* The first word of a line is never empty: the menu knows a line from     *)
(* none.                                                                   *)
LEMMA TypedLines ==
  /\ \A n \in Stations : Station(n) \in Typed
  /\ {<<"N">>, <<"P">>, <<"C">>, <<"E">>, <<"other">>} \subseteq Typed
<1> QED
  BY DEF Typed, Station

-----------------------------------------------------------------------------
(* The inductive invariant of the types.                                   *)
TypeInv == TypeOK /\ SocketForSession

(* The state start_gui begins in has it (mp3fetcher.c:285-293).            *)
LEMMA TypeInvInit == Init => TypeInv
<1> SUFFICES ASSUME Init PROVE TypeInv
  OBVIOUS
<1> USE FetcherConstants
<1>1. /\ transcoder_control_pipe \in Seq({"R", "E", "O"})
      /\ transcoder_pipe \in Seq(Sessions)
      /\ Len(transcoder_pipe) <= McPipeCap
      /\ mp3_fetcher_control_pipe \in Seq({"1"})
  BY EmptySeq DEF Init
<1>2. /\ selected \in 0 .. StationCount
      /\ urls \in 0 .. MaxUrls
      /\ fds \in 0 .. FdLimit
      /\ session \in 0 .. fds
  BY DEF Init, FetcherInit
<1>3. /\ gui_pc = "scan" /\ menu \in Typed \cup {Nothing}
      /\ {ispaused, children_done} \subseteq BOOLEAN
  BY DEF Init, FetcherInit
<1> QED
  BY <1>1, <1>2, <1>3 DEF TypeInv, TypeOK, SocketForSession

(* Every step of the fetcher and of its closure keeps it.                  *)
LEMMA TypeInvStep == TypeInv /\ [Next]_vars => TypeInv'
<1> SUFFICES ASSUME TypeInv, [Next]_vars PROVE TypeInv'
  OBVIOUS
<1> USE FetcherConstants DEF TypeInv, TypeOK, SocketForSession, pipes
<1>1. CASE ScanMenu /\ UNCHANGED children_done
  BY <1>1 DEF ScanMenu
<1>2. CASE SelectStation /\ UNCHANGED children_done
  <2>1. selected' \in 0 .. StationCount
    BY <1>2 DEF SelectStation, Stations
  <2>2. /\ gui_pc' = "playlist" /\ menu' = Nothing
        /\ UNCHANGED <<pipes, urls, ispaused, fds, session, children_done>>
    BY <1>2 DEF SelectStation
  <2> QED
    BY <2>1, <2>2
<1>3. CASE SelectNext /\ UNCHANGED children_done
  <2>1. selected' \in Stations
    BY <1>3 DEF SelectNext, Stations
  <2>2. menu' \in Typed
    BY <1>3, <2>1, TypedLines DEF SelectNext
  <2> QED
    BY <1>3, <2>1, <2>2 DEF SelectNext, Stations
<1>4. CASE SelectExit /\ UNCHANGED children_done
  BY <1>4 DEF SelectExit
<1>5. CASE SelectNothing /\ UNCHANGED children_done
  BY <1>5 DEF SelectNothing
<1>6. CASE FetchPlaylist /\ UNCHANGED children_done
  BY <1>6 DEF FetchPlaylist
<1>7. CASE FetchPlaylistFails /\ UNCHANGED children_done
  BY <1>7 DEF FetchPlaylistFails
<1>8. CASE TryUrl /\ UNCHANGED children_done
  BY <1>8 DEF TryUrl, UrlTried
<1>9. CASE TryUrlNoSocket /\ UNCHANGED children_done
  BY <1>9 DEF TryUrlNoSocket, UrlTried
<1>10. CASE OutOfUrls /\ UNCHANGED children_done
  BY <1>10 DEF OutOfUrls
<1>11. CASE ConnectFails /\ UNCHANGED children_done
  BY <1>11 DEF ConnectFails
<1>12. CASE Connect /\ UNCHANGED children_done
  <2>1. transcoder_control_pipe' \in Seq({"R", "E", "O"})
    BY <1>12, WriteOne DEF Connect
  <2>2. session' \in 0 .. fds' /\ session' # 0
    BY <1>12 DEF Connect
  <2>3. /\ gui_pc' = "ack" /\ ispaused' = FALSE
        /\ UNCHANGED <<transcoder_pipe, mp3_fetcher_control_pipe, menu,
                       selected, urls, fds, children_done>>
    BY <1>12 DEF Connect
  <2> QED
    BY <2>1, <2>2, <2>3
<1>13. CASE Synchronized /\ UNCHANGED children_done
  BY <1>13, HeadTailProperties DEF Synchronized
<1>14. CASE Pause /\ UNCHANGED children_done
  <2>1. transcoder_control_pipe' \in Seq({"R", "E", "O"})
    BY <1>14, WriteOne DEF Pause
  <2>2. menu' \in Typed
    BY <1>14, TypedLines DEF Pause
  <2> QED
    BY <1>14, <2>1, <2>2 DEF Pause
<1>15. CASE Continue /\ UNCHANGED children_done
  <2>1. menu' \in Typed
    BY <1>15, TypedLines DEF Continue
  <2> QED
    BY <1>15, <2>1 DEF Continue
<1>16. CASE LeaveStream /\ UNCHANGED children_done
  BY <1>16 DEF LeaveStream
<1>17. CASE StreamBreaks /\ UNCHANGED children_done
  BY <1>17 DEF StreamBreaks
<1>18. CASE Receive /\ UNCHANGED children_done
  BY <1>18 DEF Receive
<1>19. CASE Forward /\ UNCHANGED children_done
  <2>1. session \in Sessions
    BY <1>19 DEF Forward, Sessions
  <2>2. /\ transcoder_pipe' \in Seq(Sessions)
        /\ Len(transcoder_pipe') = Len(transcoder_pipe) + 1
    BY <1>19, <2>1, WriteOne DEF Forward
  <2>3. Len(transcoder_pipe') <= McPipeCap
    BY <1>19, <2>2, LenProperties DEF Forward
  <2> QED
    BY <1>19, <2>2, <2>3 DEF Forward
<1>20. CASE SayExit /\ UNCHANGED children_done
  <2>1. <<"E", "O">> \in Seq({"R", "E", "O"})
    OBVIOUS
  <2>2. transcoder_control_pipe' \in Seq({"R", "E", "O"})
    BY <1>20, <2>1, ConcatProperties DEF SayExit
  <2> QED
    BY <1>20, <2>2 DEF SayExit
<1>21. CASE Reap /\ UNCHANGED children_done
  BY <1>21 DEF Reap
<1>22. CASE TakeCommands
  BY <1>22, EmptySeq DEF TakeCommands, guiVars
<1>23. CASE TakeData
  <2>1. PICK n \in 1 .. Len(transcoder_pipe) :
          transcoder_pipe' = Drop(transcoder_pipe, n)
    BY <1>23 DEF TakeData
  <2>2. n \in 0 .. Len(transcoder_pipe) /\ Len(transcoder_pipe) \in Nat
    BY LenProperties
  <2>3. /\ transcoder_pipe' \in Seq(Sessions)
        /\ Len(transcoder_pipe') = Len(transcoder_pipe) - n
    BY <2>1, <2>2, DropProperties
  <2>4. Len(transcoder_pipe') <= McPipeCap
    BY <2>2, <2>3
  <2> QED
    BY <1>23, <2>3, <2>4 DEF TakeData, guiVars
<1>24. CASE Answer
  BY <1>24 DEF Answer, guiVars
<1>25. CASE ChildrenEnd
  BY <1>25 DEF ChildrenEnd, guiVars
<1>26. CASE UNCHANGED vars
  BY <1>26 DEF vars, guiVars
<1> QED
  BY <1>1, <1>2, <1>3, <1>4, <1>5, <1>6, <1>7, <1>8, <1>9, <1>10, <1>11,
     <1>12, <1>13, <1>14, <1>15, <1>16, <1>17, <1>18, <1>19, <1>20, <1>21,
     <1>22, <1>23, <1>24, <1>25, <1>26
  DEF Next, FetcherNext, Working, Outside, Environment

(* The variables of the fetcher keep their types, and there are never more *)
(* sessions than sockets.                                                  *)
THEOREM TypeCorrect == Spec => []TypeOK
<1>1. TypeInv => TypeOK
  BY DEF TypeInv
<1> QED
  BY <1>1, TypeInvInit, TypeInvStep, PTL DEF Spec

-----------------------------------------------------------------------------
(* The places of the re-inits in a control pipe.                           *)
Requests(pipe) == {i \in DOMAIN pipe : pipe[i] = "R"}

(* Behind a re-init and its answer lies the whole handshake: a request and *)
(* an answer exclude each other, and both exclude that the fetcher is      *)
(* anywhere but waiting.                                                   *)
Handshake ==
  /\ \A i, j \in Requests(transcoder_control_pipe) : i = j
  /\ Requests(transcoder_control_pipe) # {} => mp3_fetcher_control_pipe = <<>>
  /\ Len(mp3_fetcher_control_pipe) <= 1
  /\ gui_pc # "ack" => /\ Requests(transcoder_control_pipe) = {}
                       /\ mp3_fetcher_control_pipe = <<>>

(* Only the byte "R" is a request.                                         *)
LEMMA RequestsAppend ==
  ASSUME NEW S, NEW pipe \in Seq(S), NEW e \in S
  PROVE  Requests(Append(pipe, e)) =
           IF e = "R" THEN Requests(pipe) \cup {Len(pipe) + 1}
                      ELSE Requests(pipe)
<1>1. /\ \A i \in DOMAIN pipe : Append(pipe, e)[i] = pipe[i]
      /\ Append(pipe, e)[Len(pipe) + 1] = e
      /\ DOMAIN Append(pipe, e) = DOMAIN pipe \cup {Len(pipe) + 1}
  BY WriteOne
<1> QED
  BY <1>1 DEF Requests

(* The exit command is not a request.                                      *)
LEMMA RequestsExit ==
  ASSUME NEW pipe \in Seq({"R", "E", "O"})
  PROVE  Requests(pipe \o <<"E", "O">>) = Requests(pipe)
<1> DEFINE exit == <<"E", "O">>
<1>1. /\ exit \in Seq({"R", "E", "O"})
      /\ Len(exit) = 2
      /\ exit[1] # "R" /\ exit[2] # "R"
  OBVIOUS
<1> HIDE DEF exit
<1>2. /\ Len(pipe) \in Nat
      /\ DOMAIN pipe = 1 .. Len(pipe)
      /\ DOMAIN (pipe \o exit) = 1 .. Len(pipe) + 2
      /\ \A i \in 1 .. Len(pipe) : (pipe \o exit)[i] = pipe[i]
      /\ \A i \in 1 .. 2 : (pipe \o exit)[Len(pipe) + i] = exit[i]
  <2>1. Len(pipe) \in Nat /\ DOMAIN pipe = 1 .. Len(pipe)
    BY LenProperties
  <2>2. /\ DOMAIN (pipe \o exit) = 1 .. Len(pipe) + Len(exit)
        /\ \A i \in 1 .. Len(pipe) : (pipe \o exit)[i] = pipe[i]
        /\ \A i \in 1 .. Len(exit) :
             (pipe \o exit)[Len(pipe) + i] = exit[i]
    <3>1. PICK S : S = {"R", "E", "O"}
      OBVIOUS
    <3>2. pipe \in Seq(S) /\ exit \in Seq(S)
      BY <1>1, <3>1
    <3> QED
      BY <3>2, WriteMany
  <2> QED
    BY <1>1, <2>1, <2>2
<1>3. /\ (pipe \o exit)[Len(pipe) + 1] # "R"
      /\ (pipe \o exit)[Len(pipe) + 2] # "R"
  BY <1>1, <1>2
<1>4. 1 .. Len(pipe) + 2
        = 1 .. Len(pipe) \cup {Len(pipe) + 1, Len(pipe) + 2}
  BY <1>2
<1> QED
  BY <1>2, <1>3, <1>4 DEF Requests, exit

(* Every step keeps the handshake: only Connect writes an "R", only from   *)
(* where there is none, and only Answer and Synchronized touch the byte 1. *)
LEMMA HandshakeStep == TypeOK /\ Handshake /\ [Next]_vars => Handshake'
<1> SUFFICES ASSUME TypeOK, Handshake, [Next]_vars PROVE Handshake'
  OBVIOUS
<1> DEFINE commands == transcoder_control_pipe
           answers == mp3_fetcher_control_pipe
<1> USE DEF Handshake
<1>1. /\ commands \in Seq({"R", "E", "O"})
      /\ answers \in Seq({"1"})
  BY DEF TypeOK
<1>2. CASE /\ UNCHANGED <<commands, answers>>
           /\ gui_pc = "ack" => gui_pc' = "ack"
  BY <1>2
<1>3. CASE Connect
  <2>1. Requests(commands) = {} /\ answers = <<>>
    BY <1>3 DEF Connect
  <2>2. Requests(commands') = {Len(commands) + 1}
    BY <1>1, <1>3, <2>1, RequestsAppend DEF Connect
  <2>3. answers' = <<>> /\ gui_pc' = "ack"
    BY <1>3, <2>1 DEF Connect
  <2> QED
    BY <2>2, <2>3
<1>4. CASE Synchronized
  <2>1. /\ answers # <<>> /\ answers' = Tail(answers)
        /\ commands' = commands
    BY <1>4 DEF Synchronized
  <2>2. Requests(commands) = {}
    BY <2>1
  <2>3. Len(answers') = Len(answers) - 1 /\ answers' \in Seq({"1"})
    BY <1>1, <2>1, HeadTailProperties
  <2>4. Len(answers') = 0
    BY <1>1, <2>3, LenProperties
  <2>5. answers' = <<>>
    BY <2>3, <2>4, EmptySeq
  <2> QED
    BY <2>1, <2>2, <2>5
<1>5. CASE Pause
  <2>1. Requests(commands') = Requests(commands)
    BY <1>1, <1>5, RequestsAppend DEF Pause
  <2> QED
    BY <1>5, <2>1 DEF Pause
<1>6. CASE SayExit
  <2>1. Requests(commands') = Requests(commands)
    BY <1>1, <1>6, RequestsExit DEF SayExit
  <2> QED
    BY <1>6, <2>1 DEF SayExit
<1>7. CASE TakeCommands
  <2>1. Requests(commands') = {}
    BY <1>7 DEF TakeCommands, Requests
  <2> QED
    BY <1>7, <2>1 DEF TakeCommands, guiVars
<1>8. CASE Answer
  <2>1. Requests(commands) = {}
    BY <1>8 DEF Answer, Requests
  <2>2. Len(<<"1">>) = 1
    OBVIOUS
  <2> QED
    BY <1>8, <2>1, <2>2 DEF Answer, guiVars
<1>9. CASE TakeData \/ ChildrenEnd \/ UNCHANGED vars
  BY <1>2, <1>9 DEF TakeData, ChildrenEnd, vars, guiVars, pipes
<1>10. CASE Working /\ ~Connect /\ ~Synchronized /\ ~SayExit
  BY <1>2, <1>10
  DEF Working, SelectStation, SelectNext, SelectExit, SelectNothing,
      FetchPlaylist, FetchPlaylistFails, TryUrl, TryUrlNoSocket, OutOfUrls,
      ConnectFails, Forward, Reap, pipes
<1>11. CASE Outside /\ ~Pause
  BY <1>2, <1>11
  DEF Outside, ScanMenu, Continue, LeaveStream, StreamBreaks, Receive, pipes
<1> QED
  BY <1>3, <1>4, <1>5, <1>6, <1>7, <1>8, <1>9, <1>10, <1>11
  DEF Next, FetcherNext, Environment

(* At most one re-init is on its way or being answered, and the fetcher    *)
(* waits for it (mp3fetcher.c:616-625).                                    *)
THEOREM OneRequest == Spec => []OneRequestAtATime
<1>1. Init => Handshake
  BY DEF Init, FetcherInit, Handshake, Requests
<1>2. Handshake => OneRequestAtATime
  BY DEF Handshake, Requests, OneRequestAtATime
<1> QED
  BY <1>1, <1>2, HandshakeStep, TypeCorrect, PTL DEF Spec

-----------------------------------------------------------------------------
(* A chunk on its way to the transcoder was received by a loop that is not *)
(* paused, and the loop looks at nothing until it is written.              *)
AwakeWhenForwarding == gui_pc = "forward" => ~ispaused

(* Nothing is forwarded while the streaming loop is paused                 *)
(* (mp3fetcher.c:644-681).                                                 *)
THEOREM PausedIsSilent == Spec => NothingForwardedWhilePaused
<1>1. Init => AwakeWhenForwarding
  BY DEF Init, FetcherInit, AwakeWhenForwarding
<1>2. AwakeWhenForwarding /\ [Next]_vars => AwakeWhenForwarding'
  BY DEF AwakeWhenForwarding, Next, FetcherNext, Working, Outside,
         Environment, ScanMenu, SelectStation, SelectNext, SelectExit,
         SelectNothing, FetchPlaylist, FetchPlaylistFails, TryUrl,
         TryUrlNoSocket, OutOfUrls, ConnectFails, Connect, Synchronized,
         Pause, Continue, LeaveStream, StreamBreaks, Receive, Forward,
         SayExit, Reap, TakeCommands, TakeData, Answer, ChildrenEnd,
         vars, guiVars
<1>3. /\ TypeOK /\ AwakeWhenForwarding
      /\ [Next]_vars
      => [Len(transcoder_pipe') > Len(transcoder_pipe) => ~ispaused]_vars
  <2> SUFFICES ASSUME TypeOK, AwakeWhenForwarding, [Next]_vars,
                      Len(transcoder_pipe') > Len(transcoder_pipe)
               PROVE  ~ispaused
    OBVIOUS
  <2>1. transcoder_pipe \in Seq(Sessions) /\ Len(transcoder_pipe) \in Nat
    BY LenProperties DEF TypeOK
  <2>2. CASE Forward
    BY <2>2 DEF Forward, AwakeWhenForwarding
  <2>3. CASE TakeData
    <3>1. PICK n \in 1 .. Len(transcoder_pipe) :
            transcoder_pipe' = Drop(transcoder_pipe, n)
      BY <2>3 DEF TakeData
    <3>2. n \in 0 .. Len(transcoder_pipe)
      BY <2>1
    <3>3. Len(transcoder_pipe') = Len(transcoder_pipe) - n
      BY <2>1, <3>1, <3>2, DropProperties
    <3> QED
      BY <2>1, <3>3
  <2>4. CASE UNCHANGED transcoder_pipe
    BY <2>1, <2>4
  <2>5. \/ Forward \/ TakeData \/ UNCHANGED transcoder_pipe
    BY DEF Next, FetcherNext, Working, Outside,
           Environment, ScanMenu, SelectStation, SelectNext, SelectExit,
           SelectNothing, FetchPlaylist, FetchPlaylistFails, TryUrl,
           TryUrlNoSocket, OutOfUrls, ConnectFails, Connect, Synchronized,
           Pause, Continue, LeaveStream, StreamBreaks, Receive,
           SayExit, Reap, TakeCommands, Answer, ChildrenEnd,
           vars, pipes
  <2> QED
    BY <2>2, <2>3, <2>4, <2>5
<1> QED
  BY <1>1, <1>2, <1>3, TypeCorrect, PTL DEF Spec, NothingForwardedWhilePaused

=============================================================================
