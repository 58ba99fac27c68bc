------------------------------- MODULE Startup -------------------------------
(***************************************************************************)
(* The program before the station menu, and after it: the command line,    *)
(* the pipes and the two forks of main, the set-up of the RTP server       *)
(* (set_destinations, init_rtp_connection) in the child, and in the parent *)
(* the genre menu and the station list with their retries, up to the end   *)
(* of the three processes.                                                 *)
(*                                                                         *)
(* A destination of the command line is a host with a port.  An option     *)
(* "c" has a list of them, and is odd when the last port is missing.       *)
(* External: getaddrinfo, socket, fork, pipe and the web server, which     *)
(* fail where the code looks; the user.  The station menu and the loops of *)
(* the children are the modules Fetcher, Transcoder and RtpServer: here    *)
(* they only end, on the exit command, on a stream the library does not    *)
(* recognise or on a failing sendto.                                       *)
(***************************************************************************)
EXTENDS Naturals, Sequences

CONSTANTS
  Hosts,          \* destinations a user may name
  MaxOptions,     \* bound of the model on the options of a command line
  TableSize,      \* MAX_IPV4_ADDRS, and no option names more destinations
  GenreAttempts,  \* attempts to get the genres
  StationAttempts \* attempts to get the stations of a genre

ASSUME StartupConstants ==
  /\ MaxOptions \in Nat /\ TableSize \in Nat
  /\ GenreAttempts \in Nat \ {0} /\ StationAttempts \in Nat \ {0}

VARIABLES
  main_pc,        \* where the parent is
  options,        \* options of the command line not parsed yet
  destsarray,     \* the table of destinations, with its ports
  addresses,      \* how many entries of it count
  genre_request,  \* the request for the stations of the chosen genre
  attempts,       \* attempts to fetch a page that failed
  station_count,  \* stations in the menu
  tc_pc,          \* the transcoder: "none", "running", "ended" or "dead"
  rtp_pc,         \* the RTP server: "none", or where it is
  destinations,   \* the RTP server's list
  have,           \* families it has destinations of: have_ipv4, have_ipv6
  bind_sk,        \* families it has a socket for: bind_sk4, bind_sk6
  setup_failed,   \* set_destinations or init_rtp_connection returned an error
  tc_control,     \* transcoder_control_pipe
  rtp_server_control_pipe,
  asked           \* history: the destinations of the last option "c"

optVars == <<options, destsarray, addresses, asked>>
webVars == <<genre_request, attempts, station_count>>
rtpVars == <<rtp_pc, destinations, have, bind_sk, setup_failed>>
ctlVars == <<tc_control, rtp_server_control_pipe>>
startupVars == <<main_pc, optVars, webVars, tc_pc, rtpVars, ctlVars>>

Family == {"v4", "v6"}
Unset == "unset"

HostLists == UNION {[1 .. n -> Hosts] : n \in 0 .. TableSize}
Options == [kind : {"c"}, hosts : HostLists, odd : BOOLEAN]
             \cup [kind : {"u", "?"}]
CommandLines == UNION {[1 .. n -> Options] : n \in 0 .. MaxOptions}

StartupInit ==
  /\ main_pc = "parse"
  /\ options \in CommandLines
  /\ destsarray = [i \in 1 .. TableSize |-> Unset]
  /\ addresses = 0 /\ asked = <<>>
  /\ genre_request = "none" /\ attempts = 0 /\ station_count = 0
  /\ tc_pc = "none"
  /\ rtp_pc = "none" /\ destinations = <<>> /\ have = {} /\ bind_sk = {}
  /\ setup_failed = FALSE
  /\ tc_control = <<>> /\ rtp_server_control_pipe = <<>>

-----------------------------------------------------------------------------
(* The number of entries the option has filled.                            *)
Counted(hosts) == Len(hosts)

(* An option "c" fills the tables from the start, whatever an earlier one  *)
(* left there; a missing port makes the program end.                       *)
ParseDestinations ==
  /\ main_pc = "parse" /\ options # <<>> /\ Head(options).kind = "c"
  /\ LET opt == Head(options) IN
       /\ destsarray' = [i \in 1 .. TableSize |->
            IF i <= Len(opt.hosts) THEN opt.hosts[i] ELSE destsarray[i]]
       /\ IF opt.odd
            THEN main_pc' = "exited" /\ UNCHANGED <<addresses, asked>>
            ELSE /\ addresses' = Counted(opt.hosts)
                 /\ asked' = opt.hosts
                 /\ UNCHANGED main_pc
  /\ options' = Tail(options)
  /\ UNCHANGED <<webVars, tc_pc, rtpVars, ctlVars>>

(* "u" and "p" are not implemented, anything unknown ends the program.     *)
ParseOther ==
  /\ main_pc = "parse" /\ options # <<>> /\ Head(options).kind # "c"
  /\ main_pc' = IF Head(options).kind = "?" THEN "exited" ELSE "parse"
  /\ options' = Tail(options)
  /\ UNCHANGED <<destsarray, addresses, asked, webVars, tc_pc, rtpVars,
                 ctlVars>>

(* The five pipes, or the end of the program when one of them fails.       *)
OpenPipes ==
  /\ main_pc = "parse" /\ options = <<>>
  /\ main_pc' \in {"fork_tc", "exited"}
  /\ UNCHANGED <<optVars, webVars, tc_pc, rtpVars, ctlVars>>

(* A fork that fails leaves the parent to go on without the child.         *)
ForkTranscoder ==
  /\ main_pc = "fork_tc"
  /\ tc_pc' \in {"running", "none"}
  /\ main_pc' = "fork_rtp"
  /\ UNCHANGED <<optVars, webVars, rtpVars, ctlVars>>

ForkRtpServer ==
  /\ main_pc = "fork_rtp"
  /\ rtp_pc' \in {"resolve", "none"}
  /\ main_pc' = "genres"
  /\ UNCHANGED <<optVars, webVars, tc_pc, destinations, have, bind_sk,
                 setup_failed, ctlVars>>

-----------------------------------------------------------------------------
(* parse_destination: the first address of a host, and its family.         *)
ResolveDestination ==
  /\ rtp_pc = "resolve" /\ Len(destinations) < addresses
  /\ \E f \in Family :
       /\ destinations' = Append(destinations,
            [host |-> destsarray[Len(destinations) + 1], family |-> f])
       /\ have' = have \cup {f}
  /\ UNCHANGED <<main_pc, optVars, webVars, tc_pc, rtp_pc, bind_sk,
                 setup_failed, ctlVars>>

(* A host without an address ends the loop: the list is freed, and nobody  *)
(* looks at the error.  freeaddrinfo gets an uninitialised pointer, which  *)
(* may be the end of the process.                                          *)
UnknownHost ==
  /\ rtp_pc = "resolve" /\ Len(destinations) < addresses
  /\ setup_failed' = TRUE
  /\ rtp_pc' \in {"bind", "ended"}
  /\ UNCHANGED <<main_pc, optVars, webVars, tc_pc, destinations, have,
                 bind_sk, ctlVars>>

AllResolved ==
  /\ rtp_pc = "resolve" /\ Len(destinations) = addresses
  /\ rtp_pc' = "bind"
  /\ UNCHANGED <<main_pc, optVars, webVars, tc_pc, destinations, have,
                 bind_sk, setup_failed, ctlVars>>

(* Mutant: only the family of the last destination gets a socket.          *)
NeededForLast ==
  IF destinations = <<>> THEN {} ELSE {destinations[Len(destinations)].family}

(* The families a socket is opened for.                                    *)
Needed == have

(* init_rtp_connection: a socket for each family, or none when one fails;  *)
(* nobody looks at this error either.                                      *)
BindSockets ==
  /\ rtp_pc = "bind"
  /\ \/ bind_sk' = Needed /\ UNCHANGED setup_failed
     \/ bind_sk' = {} /\ setup_failed' = TRUE /\ have # {}
  /\ rtp_pc' = "kick"
  /\ UNCHANGED <<main_pc, optVars, webVars, tc_pc, destinations, have,
                 ctlVars>>

(* The loop ends on the exit command, and when sendto fails.               *)
RtpServerEnds ==
  /\ rtp_pc = "kick"
  /\ \/ /\ rtp_server_control_pipe # <<>>
        /\ rtp_server_control_pipe' = Tail(rtp_server_control_pipe)
     \/ addresses > 0 /\ UNCHANGED rtp_server_control_pipe
  /\ rtp_pc' = "ended"
  /\ UNCHANGED <<main_pc, optVars, webVars, tc_pc, destinations, have,
                 bind_sk, setup_failed, tc_control>>

(* Mutant: the transcoder ends without a word to the RTP server.           *)
TranscoderEndsSilently ==
  /\ tc_pc = "running" /\ tc_control # <<>>
  /\ tc_control' = Tail(tc_control)
  /\ tc_pc' = "ended"
  /\ UNCHANGED <<main_pc, optVars, webVars, rtpVars, rtp_server_control_pipe>>

(* The transcoder ends on the exit command, and main passes it on.         *)
TranscoderEnds ==
  /\ tc_pc = "running" /\ tc_control # <<>>
  /\ tc_control' = Tail(tc_control)
  /\ rtp_server_control_pipe' = Append(rtp_server_control_pipe, "E")
  /\ tc_pc' = "ended"
  /\ UNCHANGED <<main_pc, optVars, webVars, rtpVars>>

(* init_context calls exit(1) in a session of the station menu, or in what *)
(* is left of one: nobody is told.                                         *)
TranscoderDies ==
  /\ tc_pc = "running" /\ main_pc \in {"gui", "wait"} /\ station_count > 0
  /\ tc_pc' = "dead"
  /\ UNCHANGED <<main_pc, optVars, webVars, rtpVars, ctlVars>>

-----------------------------------------------------------------------------
(* Mutant: the last failure does not end the program.                      *)
TryAgainForEver(limit) ==
  attempts' = (attempts + 1) % limit /\ UNCHANGED main_pc

(* fetch_page failed: another attempt, or the end of the program, which    *)
(* says nothing to its children.                                           *)
TryAgain(limit) ==
  IF attempts + 1 = limit THEN main_pc' = "exited" /\ attempts' = 0
                          ELSE attempts' = attempts + 1 /\ UNCHANGED main_pc

(* The page with the genres: all of them, or the end of the program.       *)
FetchGenres ==
  /\ main_pc = "genres"
  /\ \/ main_pc' \in {"genre_menu", "exited"} /\ attempts' = 0
     \/ TryAgain(GenreAttempts)
  /\ UNCHANGED <<optVars, genre_request, station_count, tc_pc, rtpVars,
                 ctlVars>>

ChooseGenre ==
  /\ main_pc = "genre_menu"
  /\ genre_request' = "GET genre"
  /\ main_pc' = "stations"
  /\ UNCHANGED <<optVars, attempts, station_count, tc_pc, rtpVars, ctlVars>>

(* The entry "Exit" of the genre menu ends the parent on the spot.         *)
ExitAtGenres ==
  /\ main_pc = "genre_menu"
  /\ main_pc' = "exited"
  /\ UNCHANGED <<optVars, webVars, tc_pc, rtpVars, ctlVars>>

(* A line that starts with "e" leaves the genre menu with no request made. *)
LeaveGenres ==
  /\ main_pc = "genre_menu"
  /\ main_pc' = "stations"
  /\ UNCHANGED <<optVars, webVars, tc_pc, rtpVars, ctlVars>>

(* The stations of the genre; an empty request gets none.                  *)
FetchStations ==
  /\ main_pc = "stations"
  /\ \/ /\ main_pc' = "gui" /\ attempts' = 0
        /\ station_count' \in IF genre_request = "none" THEN {0} ELSE {0, 1}
     \/ TryAgain(StationAttempts) /\ UNCHANGED station_count
  /\ UNCHANGED <<optVars, genre_request, tc_pc, rtpVars, ctlVars>>

(* start_gui returns; main ends the transcoder and waits for both children.*)
LeaveMenu ==
  /\ main_pc = "gui"
  /\ tc_control' = Append(tc_control, "E")
  /\ main_pc' = "wait"
  /\ UNCHANGED <<optVars, webVars, tc_pc, rtpVars, rtp_server_control_pipe>>

ChildrenEnded ==
  tc_pc \in {"none", "ended", "dead"} /\ rtp_pc \in {"none", "ended"}

ReapChildren ==
  /\ main_pc = "wait" /\ ChildrenEnded
  /\ main_pc' = "exited"
  /\ UNCHANGED <<optVars, webVars, tc_pc, rtpVars, ctlVars>>

Parent ==
  \/ ParseDestinations \/ ParseOther \/ OpenPipes \/ ForkTranscoder
  \/ ForkRtpServer \/ FetchGenres \/ FetchStations \/ ReapChildren

User == ChooseGenre \/ ExitAtGenres \/ LeaveGenres \/ LeaveMenu

RtpServer ==
  ResolveDestination \/ UnknownHost \/ AllResolved \/ BindSockets
    \/ RtpServerEnds

StartupNext == Parent \/ User \/ RtpServer \/ TranscoderEnds \/ TranscoderDies

RtpServerServed ==
  RtpServer /\ (rtp_pc = "kick" => rtp_server_control_pipe # <<>>)

(* The parent and the RTP server are scheduled, and a page comes or fails  *)
(* in the end; the user is free, and sendto need not fail.  Nothing is     *)
(* asked of the transcoder, which may wait for the rest of a frame or for  *)
(* the RTP server for ever, and never see the exit command.                *)
StartupSpec ==
  /\ StartupInit /\ [][StartupNext]_startupVars
  /\ WF_startupVars(Parent) /\ WF_startupVars(RtpServerServed)

-----------------------------------------------------------------------------
StartupTypeOK ==
  /\ main_pc \in {"parse", "fork_tc", "fork_rtp", "genres", "genre_menu",
                  "stations", "gui", "wait", "exited"}
  /\ options \in Seq(Options)
  /\ destsarray \in [1 .. TableSize -> Hosts \cup {Unset}]
  /\ addresses \in 0 .. TableSize /\ asked \in Seq(Hosts)
  /\ genre_request \in {"none", "GET genre"}
  /\ attempts \in Nat
  /\ attempts < GenreAttempts \/ attempts < StationAttempts
  /\ station_count \in Nat
  /\ tc_pc \in {"none", "running", "ended", "dead"}
  /\ rtp_pc \in {"none", "resolve", "bind", "kick", "ended"}
  /\ destinations \in Seq([host : Hosts, family : Family])
  /\ Len(destinations) <= addresses
  /\ have \subseteq Family /\ bind_sk \subseteq Family
  /\ setup_failed \in BOOLEAN

(* A server whose set-up did not fail sends to the destinations of the last*)
(* option "c", to all of them in their order, and has a socket for each    *)
(* (util.c:43-69, rtp_connection.c:24-37, 136-143, 234-251).               *)
SendsToTheAskedFor ==
  /\ StartupTypeOK
  /\ rtp_pc = "kick" /\ ~setup_failed =>
    /\ [i \in DOMAIN destinations |-> destinations[i].host] = asked
    /\ bind_sk = {destinations[i].family : i \in DOMAIN destinations}

(* Whatever the web server answers, the parent gets to a menu or gives up  *)
(* (mp3fetcher.c:42-57, 158-174).                                          *)
CatalogueEnds ==
  main_pc \in {"genres", "stations"} ~> main_pc \in {"genre_menu", "gui",
                                                     "exited"}

(* The exit of the station menu ends all that was started, also a server   *)
(* that is still resolving its destinations, unless the transcoder never   *)
(* gets to the exit command (main.c:62-69, 95-98): it died in init_context,*)
(* or is blocked for ever in a read or a write.  When it gets there is     *)
(* ExitEnds of RadioStreamer.  Leaving at the genre menu, or after the last*)
(* attempt at a page, ends only the parent, and is outside.                *)
ExitEndsChildren ==
  \/ <>[](main_pc = "wait" /\ tc_pc \in {"running", "dead"})
  \/ main_pc = "wait" /\ tc_pc # "none" ~> main_pc = "exited" /\ ChildrenEnded

=============================================================================
