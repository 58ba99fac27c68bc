----------------------------- MODULE SessionPool -----------------------------
(***************************************************************************)
(* A pool of ccRTP sessions, SingleRTPSessionPool (pool.cpp,               *)
(* ccrtp/pool.h): one thread that serves the sessions of a list, while     *)
(* others make sessions, add them and remove them.                         *)
(*                                                                         *)
(* The thread works on a copy of the list, and looks at each element under *)
(* the lock; what is done under the lock is one step.  A session that is   *)
(* removed is deleted at once, its element only cleared: the thread frees  *)
(* it at the end of its turn.  A session is named by its address, which    *)
(* the next one may get, as the next socket may get a number that was      *)
(* closed.                                                                 *)
(*                                                                         *)
(* select and recv are external: select looks at the sockets below         *)
(* highestSocket, changes whole words of the set it is given, and may fail *)
(* if one of them is closed; recv waits for a packet.  The control         *)
(* services are those of RtcpControl, and change nothing here.             *)
(***************************************************************************)
EXTENDS Integers, FiniteSets, Sequences, SequencesExt

CONSTANTS
  Session,    \* the addresses sessions may have
  Element,    \* the addresses list elements may have
  SOCKET,     \* numbers of sockets
  WordBits,   \* the bits of a word of an fd_set, 64
  MaxMade,    \* bound of the model: sessions that are ever made
  NULL, FREED

ASSUME PoolConstants ==
  /\ SOCKET \subseteq Nat /\ IsFiniteSet(SOCKET)
  /\ WordBits \in Nat \ {0} /\ MaxMade \in Nat
  /\ NULL \notin Session
  /\ FREED \notin [elem : Session \cup {NULL}, cleared : BOOLEAN]

VARIABLES
  thread,          \* what the thread does
  sessionList,     \* the elements of the pool
  element,         \* what is at the address of each
  sessions, at,    \* the copy of the list, and the element that is served
  recvSocketSet, highestSocket,
  readyCount,      \* what is left of the count select returned, n in the code
  packetTimeout,   \* whether it is below a millisecond
  socket,          \* the data socket of each session, if there is one
  waiting,         \* the sessions with a packet at their socket
  due,             \* the sessions with a packet to send
  made             \* how many sessions were made

pool == <<sessionList, element>>
turn == <<sessions, at>>
polled == <<recvSocketSet, highestSocket, readyCount>>
users == <<socket, waiting, due, made>>
poolVars == <<thread, pool, turn, polled, packetTimeout, users>>

Exists(s) == socket[s] # NULL
Cleared(e) == element[e].cleared
Allocated == {e \in Element : element[e] # FREED}

(* The sessions that were added and not removed.                           *)
Pooled ==
  {element[e].elem : e \in {f \in ToSet(sessionList) : ~Cleared(f)}}

PoolInit ==
  /\ thread = "copy"
  /\ sessionList = <<>> /\ element = [e \in Element |-> FREED]
  /\ sessions = <<>> /\ at = 1
  /\ recvSocketSet = {} /\ highestSocket = 0 /\ readyCount = 0
  /\ packetTimeout = "below"
  /\ socket = [s \in Session |-> NULL]
  /\ waiting = {} /\ due = {} /\ made = 0

-----------------------------------------------------------------------------
(* The application makes a session, with any number for its socket.        *)
MakeSession(s) ==
  /\ ~Exists(s) /\ made < MaxMade
  /\ \E so \in SOCKET \ {socket[r] : r \in Session} :
       socket' = [socket EXCEPT ![s] = so]
  /\ made' = made + 1
  /\ UNCHANGED <<thread, pool, turn, polled, packetTimeout, waiting, due>>

(* PredEquals, of any element of the list.                                 *)
Found(s) == {i \in DOMAIN sessionList : element[sessionList[i]].elem = s}

(* Nobody writes while the thread serves a session, or waits in recv.      *)
Unlocked == thread # "recv"

(* addSession, which only adds what it does not find.                      *)
AddSession(s) ==
  /\ Exists(s) /\ Unlocked
  /\ IF Found(s) # {}
       THEN UNCHANGED pool
       ELSE \E e \in Element \ Allocated :
              /\ element' = [element EXCEPT ![e] = [elem |-> s, cleared |-> FALSE]]
              /\ sessionList' = Append(sessionList, e)
  /\ UNCHANGED <<thread, turn, polled, packetTimeout, users>>

(* SessionListElement::clear                                               *)
Clear(e) == [elem |-> NULL, cleared |-> TRUE]

(* The session is deleted, which closes its socket.                        *)
Delete(s) ==
  /\ socket' = [socket EXCEPT ![s] = NULL]
  /\ waiting' = waiting \ {s} /\ due' = due \ {s}

(* Mutant: removeSession erases and frees the element itself.              *)
RemoveSessionErases(s) ==
  /\ Unlocked /\ Found(s) # {}
  /\ LET e == sessionList[CHOOSE i \in Found(s) : \A j \in Found(s) : i <= j]
     IN  /\ element' = [element EXCEPT ![e] = FREED]
         /\ sessionList' = RemoveFirst(sessionList, e)
  /\ Delete(s)
  /\ UNCHANGED <<thread, turn, polled, packetTimeout, made>>

(* removeSession clears the first element it finds.                        *)
RemoveSession(s) ==
  /\ Unlocked /\ Found(s) # {}
  /\ LET e == sessionList[CHOOSE i \in Found(s) : \A j \in Found(s) : i <= j]
     IN  element' = [element EXCEPT ![e] = Clear(e)]
  /\ Delete(s)
  /\ UNCHANGED <<thread, sessionList, turn, polled, packetTimeout, made>>

(* The application puts a packet, and one comes in.                        *)
PutData(s) ==
  /\ Exists(s) /\ s \notin due
  /\ due' = due \cup {s}
  /\ UNCHANGED <<thread, pool, turn, polled, packetTimeout, socket, waiting, made>>

PacketArrives(s) ==
  /\ Exists(s) /\ s \notin waiting
  /\ waiting' = waiting \cup {s}
  /\ UNCHANGED <<thread, pool, turn, polled, packetTimeout, socket, due, made>>

-----------------------------------------------------------------------------
(* run, the loop of the thread.  It copies the list.                       *)
CopyList ==
  /\ thread = "copy"
  /\ thread' = "sockets"
  /\ sessions' = sessionList /\ at' = 1
  /\ UNCHANGED <<pool, polled, packetTimeout, users>>

(* One more than the highest number, except that a number that is only one *)
(* more does not count.                                                    *)
Higher(highest, so) == IF so > highest + 1 THEN so + 1 ELSE highest

SocketOf(e) == socket[element[e].elem]

(* The highest socket of the sessions, from the first to the last.         *)
HighestOf(list) ==
  LET highest[k \in 0 .. Len(list)] ==
        IF k = 0 THEN 0
        ELSE IF Cleared(list[k]) THEN highest[k - 1]
        ELSE Higher(highest[k - 1], SocketOf(list[k]))
  IN highest[Len(list)]

SetSockets ==
  /\ thread = "sockets"
  /\ thread' = "select"
  /\ recvSocketSet' = {SocketOf(e) : e \in {f \in ToSet(sessions) : ~Cleared(f)}}
  /\ highestSocket' = HighestOf(sessions)
  /\ UNCHANGED <<pool, turn, readyCount, packetTimeout, users>>

(* select, which gets back what can be read.                               *)
Looked == {so \in recvSocketSet : so < highestSocket}
Readable == Looked \cap {socket[s] : s \in waiting}
WordsEnd == ((highestSocket + WordBits - 1) \div WordBits) * WordBits

SelectReturns ==
  /\ thread = "select"
  /\ thread' = "data"
  /\ recvSocketSet' = Readable \cup {so \in recvSocketSet : so >= WordsEnd}
  /\ readyCount' = Cardinality(Readable)
  /\ UNCHANGED <<pool, turn, highestSocket, packetTimeout, users>>

(* A socket was closed before the call: the set stays as it is.            *)
SelectFails ==
  /\ thread = "select" /\ ~(Looked \subseteq {socket[s] : s \in Session})
  /\ thread' = "data"
  /\ readyCount' = -1
  /\ UNCHANGED <<pool, turn, recvSocketSet, highestSocket, packetTimeout, users>>

Serving == thread = "data" /\ at <= Len(sessions)
Served == element[sessions[at]].elem

SkipCleared ==
  /\ Serving /\ Cleared(sessions[at])
  /\ at' = at + 1
  /\ UNCHANGED <<thread, pool, sessions, polled, packetTimeout, users>>

(* Mutant: only the set is asked.                                          *)
IsSetAlone == socket[Served] \in recvSocketSet

(* FD_ISSET(so, &recvSocketSet) && (n-- > 0)                               *)
IsSet == socket[Served] \in recvSocketSet /\ readyCount > 0

(* Mutant: it counts the sessions that are asked.                          *)
CountedFirst == readyCount - 1

(* n-- is only reached if the first is true.                               *)
Counted == IF socket[Served] \in recvSocketSet THEN readyCount - 1 ELSE readyCount

(* The timeout is set back to zero if it was not the time to send.         *)
TimeoutAfter(timeout) == "below"

(* A packet of the session is dispatched if its time has come.  The timeout*)
(* is a variable of the thread, not of the session.                        *)
DispatchOf(s) ==
  LET timeout == IF packetTimeout = "longer" THEN "longer"
                 ELSE IF s \in due THEN "below" ELSE "longer"
  IN  /\ due' = IF timeout = "below" THEN due \ {s} ELSE due
      /\ packetTimeout' = TimeoutAfter(timeout)

(* What is done for a session, with a packet or without...                 *)
ServeSession ==
  /\ Serving /\ ~Cleared(sessions[at])
  /\ IsSet => Served \in waiting
  /\ waiting' = IF IsSet THEN waiting \ {Served} ELSE waiting
  /\ readyCount' = Counted
  /\ DispatchOf(Served)
  /\ at' = at + 1
  /\ UNCHANGED <<thread, pool, sessions, recvSocketSet, highestSocket, socket, made>>

(* ... or when recv has to wait for one, with the lock held.               *)
WaitInRecv ==
  /\ Serving /\ ~Cleared(sessions[at])
  /\ IsSet /\ Served \notin waiting
  /\ thread' = "recv"
  /\ readyCount' = Counted
  /\ UNCHANGED <<pool, turn, recvSocketSet, highestSocket, packetTimeout, users>>

RecvReturns ==
  /\ thread = "recv" /\ Served \in waiting
  /\ thread' = "data"
  /\ waiting' = waiting \ {Served}
  /\ DispatchOf(Served)
  /\ at' = at + 1
  /\ UNCHANGED <<pool, sessions, polled, socket, made>>

(* A list without the elements of removed sessions.                        *)
Kept(list) ==
  LET kept[k \in 0 .. Len(list)] ==
        IF k = 0 THEN <<>>
        ELSE IF Cleared(list[k]) THEN kept[k - 1]
        ELSE Append(kept[k - 1], list[k])
  IN kept[Len(list)]

(* These are taken out and freed.                                          *)
Purge ==
  /\ thread = "data" /\ at > Len(sessions)
  /\ thread' = "copy"
  /\ sessionList' = Kept(sessionList)
  /\ element' = [e \in Element |->
       IF e \in ToSet(sessionList) /\ Cleared(e) THEN FREED ELSE element[e]]
  /\ sessions' = <<>> /\ at' = 1
  /\ UNCHANGED <<polled, packetTimeout, users>>

Run ==
  \/ CopyList \/ SetSockets \/ SelectReturns \/ SelectFails \/ SkipCleared
  \/ ServeSession \/ WaitInRecv \/ RecvReturns \/ Purge

PoolNext ==
  \/ Run
  \/ \E s \in Session :
       \/ MakeSession(s) \/ AddSession(s) \/ RemoveSession(s)
       \/ PutData(s) \/ PacketArrives(s)

(* Only the thread of the pool has to go on.                               *)
PoolSpec == PoolInit /\ [][PoolNext]_poolVars /\ WF_poolVars(Run)

-----------------------------------------------------------------------------
PoolTypeOK ==
  /\ thread \in {"copy", "sockets", "select", "data", "recv"}
  /\ sessionList \in Seq(Element) /\ sessions \in Seq(Element)
  /\ element \in [Element -> {FREED} \cup
                    [elem : Session \cup {NULL}, cleared : BOOLEAN]]
  /\ at \in 1 .. Len(sessions) + 1
  /\ recvSocketSet \subseteq SOCKET /\ highestSocket \in Nat /\ readyCount \in Int
  /\ packetTimeout \in {"below", "longer"}
  /\ socket \in [Session -> SOCKET \cup {NULL}]
  /\ waiting \subseteq Session /\ due \subseteq Session /\ made \in 0 .. MaxMade

(* However sessions are added and removed during a turn of the thread, what*)
(* it goes through, the list and its copy, are elements that are not freed *)
(* and sessions that are not deleted, each once, and a new session at the  *)
(* address of a removed one is not taken for it (pool.cpp:56-94, 119-209). *)
NoDanglingElement ==
  /\ PoolTypeOK
  /\ ToSet(sessions) \subseteq Allocated
  /\ ToSet(sessionList) \subseteq Allocated
  /\ \A s \in Pooled : Exists(s) /\ Cardinality(Found(s)) = 1
  /\ \A s \in Session : Found(s) # {} => s \in Pooled

(* The thread, which holds the lock, does not wait for a packet of a socket*)
(* that select has looked at, also if select has failed because a session  *)
(* was removed meanwhile (pool.cpp:140-164).                               *)
RecvNeverWaits ==
  thread = "recv" => socket[Served] >= highestSocket

(* select does not look at the socket of the session.                      *)
Missed(s) == thread = "select" /\ socket[s] >= highestSocket

(* Every session of the pool has its packets taken and its own sent, unless*)
(* it is removed or highestSocket has missed a socket (pool.cpp:119-186).  *)
EverySessionServed ==
  \A s \in Session :
    /\ (s \in Pooled \cap waiting) ~>
         (s \notin Pooled \cap waiting \/ Missed(s) \/ thread = "recv")
    /\ (s \in Pooled \cap due) ~> (s \notin Pooled \cap due \/ thread = "recv")

=============================================================================
