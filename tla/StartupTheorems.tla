--------------------------- MODULE StartupTheorems ---------------------------
(***************************************************************************)
(* What the RTP server sends to, for any hosts, any command line and any   *)
(* size of the tables: the inductive invariant that follows a destination  *)
(* from the command line through the table and the list to the sockets.    *)
(***************************************************************************)
EXTENDS Startup, SequenceTheorems, TLAPS

Before == {"parse", "fork_tc", "fork_rtp"}

(* The table begins with the destinations of the last option "c", unless   *)
(* the program has ended in the middle of one.                             *)
TableIsAsked ==
  /\ asked \in Seq(Hosts) /\ Len(asked) = addresses
  /\ main_pc # "exited" \/ rtp_pc # "none" =>
       \A i \in 1 .. addresses : destsarray[i] = asked[i]

(* The list is a prefix of the table, and the families are those in it.    *)
ListIsAsked ==
  /\ \A i \in 1 .. Len(destinations) : destinations[i].host = asked[i]
  /\ \A i \in 1 .. Len(destinations) : destinations[i].family \in have
  /\ \A f \in have : \E i \in 1 .. Len(destinations) : destinations[i].family = f

(* The child begins with an empty list; one that did not fail goes on with *)
(* all destinations, and with the sockets they need.                       *)
SetUpInOrder ==
  /\ main_pc \in Before => rtp_pc = "none"
  /\ rtp_pc = "none" => destinations = <<>> /\ have = {}
  /\ rtp_pc \in {"bind", "kick"} /\ ~setup_failed => Len(destinations) = addresses
  /\ rtp_pc = "kick" /\ ~setup_failed => bind_sk = have

(* A page is not tried more often than its limit.                          *)
AttemptsLeft ==
  /\ main_pc = "genre_menu" => attempts = 0
  /\ main_pc = "stations" => attempts < StationAttempts
  /\ main_pc # "stations" => attempts < GenreAttempts

StartupInv ==
  StartupTypeOK /\ TableIsAsked /\ ListIsAsked /\ SetUpInOrder /\ AttemptsLeft

-----------------------------------------------------------------------------
(* A command line has nothing parsed yet, and nothing is started.          *)
LEMMA StartupInvInit == StartupInit => StartupInv
<1> SUFFICES ASSUME StartupInit PROVE StartupInv
  OBVIOUS
<1> USE StartupConstants DEF StartupInit
<1>1. options \in Seq(Options)
  <2>1. PICK n \in 0 .. MaxOptions : options \in [1 .. n -> Options]
    BY DEF CommandLines
  <2> QED
    BY <2>1, SeqDef
<1>2. StartupTypeOK
  <2>1. /\ destinations \in Seq([host : Hosts, family : Family])
        /\ asked \in Seq(Hosts) /\ Len(destinations) = 0
    BY EmptySeq
  <2>2. /\ destsarray \in [1 .. TableSize -> Hosts \cup {Unset}]
        /\ addresses \in 0 .. TableSize /\ Len(destinations) <= addresses
    BY <2>1
  <2>3. /\ attempts \in Nat /\ attempts < GenreAttempts
        /\ station_count \in Nat
    OBVIOUS
  <2>4. /\ main_pc = "parse" /\ genre_request = "none" /\ tc_pc = "none"
        /\ rtp_pc = "none" /\ setup_failed \in BOOLEAN
        /\ have \subseteq Family /\ bind_sk \subseteq Family
    OBVIOUS
  <2> HIDE DEF StartupInit
  <2> QED
    BY <1>1, <2>1, <2>2, <2>3, <2>4 DEF StartupTypeOK
<1>3. TableIsAsked
  BY EmptySeq DEF TableIsAsked
<1>4. ListIsAsked
  BY DEF ListIsAsked
<1>5. SetUpInOrder /\ AttemptsLeft
  BY DEF SetUpInOrder, AttemptsLeft, Before
<1> QED
  BY <1>2, <1>3, <1>4, <1>5 DEF StartupInv

(* The destinations of an option are a sequence that fits the tables.      *)
LEMMA HostListsFit ==
  ASSUME NEW hosts \in HostLists
  PROVE  hosts \in Seq(Hosts) /\ Len(hosts) \in 0 .. TableSize
<1>1. PICK n \in 0 .. TableSize : hosts \in [1 .. n -> Hosts]
  BY DEF HostLists
<1> QED
  BY <1>1, StartupConstants

(* Parsing an option "c" makes the table that of the option.               *)
LEMMA ParsingKeepsInv == StartupInv /\ ParseDestinations => StartupInv'
<1> SUFFICES ASSUME StartupInv, ParseDestinations PROVE StartupInv'
  OBVIOUS
<1> USE StartupConstants
<1> DEFINE opt == Head(options)
<1>1. options \in Seq(Options) /\ options # <<>>
  BY DEF StartupInv, StartupTypeOK, ParseDestinations
<1>2. opt \in Options /\ Tail(options) \in Seq(Options)
  BY <1>1
<1>3. opt.kind = "c" /\ main_pc = "parse"
  BY DEF ParseDestinations
<1>4. opt.hosts \in HostLists
  BY <1>2, <1>3 DEF Options
<1> HIDE DEF opt
<1>5. opt.hosts \in Seq(Hosts) /\ Len(opt.hosts) \in 0 .. TableSize
  BY <1>4, HostListsFit
<1>6. /\ destsarray' = [i \in 1 .. TableSize |->
           IF i <= Len(opt.hosts) THEN opt.hosts[i] ELSE destsarray[i]]
      /\ options' = Tail(options)
      /\ UNCHANGED <<webVars, tc_pc, rtpVars>>
      /\ \/ main_pc' = "exited" /\ UNCHANGED <<addresses, asked>>
         \/ addresses' = Len(opt.hosts) /\ asked' = opt.hosts /\ main_pc' = main_pc
  BY DEF ParseDestinations, Counted, opt
<1>7. \A i \in 1 .. Len(opt.hosts) : opt.hosts[i] \in Hosts
  BY <1>5
<1>8. destsarray' \in [1 .. TableSize -> Hosts \cup {Unset}]
  <2>1. destsarray \in [1 .. TableSize -> Hosts \cup {Unset}]
    BY DEF StartupInv, StartupTypeOK
  <2>2. \A i \in 1 .. TableSize : destsarray'[i] \in Hosts \cup {Unset}
    BY <1>5, <1>6, <1>7, <2>1
  <2> QED
    BY <1>6, <2>2
<1>9. rtp_pc = "none" /\ destinations = <<>> /\ have = {}
  BY <1>3 DEF StartupInv, SetUpInOrder, Before
<1>10. UNCHANGED <<genre_request, attempts, station_count, rtp_pc, destinations,
                   have, bind_sk, setup_failed, tc_pc>>
  BY <1>6 DEF webVars, rtpVars
<1>11. StartupTypeOK'
  <2>1. options' \in Seq(Options)
    BY <1>2, <1>6
  <2>2. addresses' \in 0 .. TableSize /\ asked' \in Seq(Hosts)
    BY <1>5, <1>6 DEF StartupInv, StartupTypeOK
  <2>3. main_pc' \in {"parse", "exited"}
    BY <1>3, <1>6
  <2>4. destinations' \in Seq([host : Hosts, family : Family])
        /\ Len(destinations') <= addresses'
    BY <1>9, <1>10, <2>2, EmptySeq
  <2> QED
    BY <1>8, <1>10, <2>1, <2>2, <2>3, <2>4 DEF StartupInv, StartupTypeOK
<1>12. TableIsAsked'
  <2>1. CASE main_pc' = "exited" /\ UNCHANGED <<addresses, asked>>
    BY <1>9, <1>10, <2>1 DEF StartupInv, TableIsAsked
  <2>2. CASE addresses' = Len(opt.hosts) /\ asked' = opt.hosts
    <3>1. \A i \in 1 .. addresses' : destsarray'[i] = asked'[i]
      BY <1>5, <1>6, <2>2
    <3> QED
      BY <1>5, <2>2, <3>1 DEF TableIsAsked
  <2> QED
    BY <1>6, <2>1, <2>2
<1>13. ListIsAsked'
  BY <1>9, <1>10 DEF ListIsAsked
<1>14. SetUpInOrder'
  BY <1>9, <1>10 DEF SetUpInOrder
<1>15. AttemptsLeft'
  BY <1>3, <1>6, <1>10 DEF StartupInv, AttemptsLeft
<1> QED
  BY <1>11, <1>12, <1>13, <1>14, <1>15 DEF StartupInv

(* The other steps of the parent leave the table and the list alone.       *)
LEMMA ParentKeepsInv ==
  ASSUME StartupInv, main_pc # "exited",
         UNCHANGED <<destsarray, addresses, asked, rtpVars>>,
         options' \in Seq(Options), genre_request' \in {"none", "GET genre"},
         main_pc' \in {"parse", "fork_tc", "fork_rtp", "genres", "genre_menu",
                       "stations", "gui", "wait", "exited"},
         main_pc' \in Before => main_pc \in Before,
         attempts' \in Nat, AttemptsLeft', station_count' \in Nat,
         tc_pc' \in {"none", "running", "ended", "dead"}
  PROVE  StartupInv'
<1> USE StartupConstants
<1>1. StartupTypeOK'
  <2>1. attempts' < GenreAttempts \/ attempts' < StationAttempts
    BY DEF AttemptsLeft
  <2> QED
    BY <2>1 DEF StartupInv, StartupTypeOK, rtpVars
<1>2. TableIsAsked'
  BY DEF StartupInv, TableIsAsked, rtpVars
<1>3. ListIsAsked'
  BY DEF StartupInv, ListIsAsked, rtpVars
<1>4. SetUpInOrder'
  BY DEF StartupInv, SetUpInOrder, rtpVars
<1> QED
  BY <1>1, <1>2, <1>3, <1>4 DEF StartupInv

-----------------------------------------------------------------------------
(* The steps of the RTP server leave the parent and the table alone.       *)
LEMMA ServerKeepsInv ==
  ASSUME StartupInv,
         UNCHANGED <<main_pc, optVars, webVars, tc_pc>>,
         rtp_pc \in {"resolve", "bind", "kick"},
         rtp_pc' \in {"resolve", "bind", "kick", "ended"},
         destinations' \in Seq([host : Hosts, family : Family]),
         Len(destinations') <= addresses',
         have' \subseteq Family, bind_sk' \subseteq Family,
         setup_failed' \in BOOLEAN,
         ListIsAsked',
         rtp_pc' \in {"bind", "kick"} /\ ~setup_failed'
           => Len(destinations') = addresses',
         rtp_pc' = "kick" /\ ~setup_failed' => bind_sk' = have'
  PROVE  StartupInv'
<1>1. UNCHANGED <<main_pc, options, destsarray, addresses, asked,
                  genre_request, attempts, station_count, tc_pc>>
  BY DEF optVars, webVars
<1>2. StartupTypeOK'
  BY <1>1 DEF StartupInv, StartupTypeOK
<1>3. TableIsAsked'
  BY <1>1 DEF StartupInv, TableIsAsked
<1>4. SetUpInOrder'
  BY <1>1 DEF StartupInv, SetUpInOrder
<1>5. AttemptsLeft'
  BY <1>1 DEF StartupInv, AttemptsLeft
<1> QED
  BY <1>2, <1>3, <1>4, <1>5 DEF StartupInv

(* The destination that is resolved is the next one that was asked for.    *)
LEMMA ResolvingKeepsInv == StartupInv /\ ResolveDestination => StartupInv'
<1> SUFFICES ASSUME StartupInv, ResolveDestination PROVE StartupInv'
  OBVIOUS
<1> DEFINE n == Len(destinations)
<1>1. /\ rtp_pc = "resolve" /\ n < addresses
      /\ UNCHANGED <<main_pc, optVars, webVars, tc_pc, rtp_pc, bind_sk,
                     setup_failed>>
  BY DEF ResolveDestination
<1>2. PICK f \in Family :
        /\ destinations' = Append(destinations,
             [host |-> destsarray[n + 1], family |-> f])
        /\ have' = have \cup {f}
  BY DEF ResolveDestination
<1>3. /\ destinations \in Seq([host : Hosts, family : Family]) /\ n \in Nat
      /\ addresses \in 0 .. TableSize /\ asked \in Seq(Hosts)
      /\ Len(asked) = addresses
  <2>1. /\ destinations \in Seq([host : Hosts, family : Family])
        /\ addresses \in 0 .. TableSize
    BY DEF StartupInv, StartupTypeOK
  <2>2. n \in Nat
    BY <2>1, LenProperties
  <2> QED
    BY <2>1, <2>2 DEF StartupInv, TableIsAsked
<1>4. n + 1 \in 1 .. addresses
  BY <1>1, <1>3, StartupConstants
<1>5. destsarray[n + 1] = asked[n + 1] /\ asked[n + 1] \in Hosts
  BY <1>1, <1>3, <1>4 DEF StartupInv, TableIsAsked
<1> DEFINE d == [host |-> asked[n + 1], family |-> f]
<1>6. d \in [host : Hosts, family : Family] /\ d.host = asked[n + 1]
      /\ d.family = f
  BY <1>5
<1>7. destinations' = Append(destinations, d)
  BY <1>2, <1>5
<1> HIDE DEF d
<1>8. /\ destinations' \in Seq([host : Hosts, family : Family])
      /\ Len(destinations') = n + 1
      /\ \A i \in 1 .. n : destinations'[i] = destinations[i]
      /\ destinations'[n + 1] = d
  BY <1>3, <1>6, <1>7, AppendProperties
<1>9. asked' = asked /\ addresses' = addresses /\ have' = have \cup {f}
  BY <1>1, <1>2 DEF optVars
<1>10. ListIsAsked'
  <2>1. /\ \A i \in 1 .. n : destinations[i].host = asked[i]
        /\ \A i \in 1 .. n : destinations[i].family \in have
        /\ \A g \in have : \E i \in 1 .. n : destinations[i].family = g
    BY DEF StartupInv, ListIsAsked
  <2>2. \A i \in 1 .. n + 1 : i \in 1 .. n \/ i = n + 1
    BY <1>3
  <2>3. 1 .. n \subseteq 1 .. n + 1 /\ n + 1 \in 1 .. n + 1
    BY <1>3
  <2> HIDE DEF n
  <2>4. \A i \in 1 .. n + 1 : destinations'[i].host = asked[i]
    BY <1>6, <1>8, <2>1, <2>2
  <2>5. \A i \in 1 .. n + 1 : destinations'[i].family \in have \cup {f}
    BY <1>6, <1>8, <2>1, <2>2
  <2>6. \A g \in have \cup {f} :
          \E i \in 1 .. n + 1 : destinations'[i].family = g
    BY <1>6, <1>8, <2>1, <2>3
  <2> QED
    BY <1>8, <1>9, <2>4, <2>5, <2>6 DEF ListIsAsked
<1>11. have' \subseteq Family /\ bind_sk' \subseteq Family /\ setup_failed' \in BOOLEAN
  BY <1>1, <1>9 DEF StartupInv, StartupTypeOK
<1>12. rtp_pc' = "resolve" /\ Len(destinations') <= addresses'
  BY <1>1, <1>3, <1>4, <1>8, <1>9
<1> QED
  BY <1>1, <1>8, <1>10, <1>11, <1>12, ServerKeepsInv

(* Every step keeps the invariant.                                         *)
LEMMA StartupInvStep == StartupInv /\ [StartupNext]_startupVars => StartupInv'
<1> SUFFICES ASSUME StartupInv, [StartupNext]_startupVars PROVE StartupInv'
  OBVIOUS
<1> USE StartupConstants
<1>a. StartupTypeOK /\ AttemptsLeft /\ ListIsAsked /\ SetUpInOrder
  BY DEF StartupInv
<1>1. CASE ParseDestinations
  BY <1>1, ParsingKeepsInv
<1>2. CASE ParseOther
  <2>1. options \in Seq(Options) /\ options # <<>>
    BY <1>2, <1>a DEF ParseOther, StartupTypeOK
  <2>2. options' \in Seq(Options)
    BY <1>2, <2>1 DEF ParseOther
  <2>3. /\ main_pc = "parse" /\ main_pc' \in {"parse", "exited"}
        /\ UNCHANGED <<destsarray, addresses, asked, rtpVars, genre_request,
                       attempts, station_count, tc_pc>>
    BY <1>2 DEF ParseOther, webVars
  <2>4. AttemptsLeft'
    BY <1>a, <2>3 DEF AttemptsLeft
  <2> QED
    BY <1>a, <2>2, <2>3, <2>4, ParentKeepsInv DEF StartupTypeOK, Before
<1>3. CASE OpenPipes
  <2>1. /\ main_pc = "parse" /\ main_pc' \in {"fork_tc", "exited"}
        /\ UNCHANGED <<options, destsarray, addresses, asked, rtpVars,
                       genre_request, attempts, station_count, tc_pc>>
    BY <1>3 DEF OpenPipes, webVars, optVars
  <2>2. AttemptsLeft'
    BY <1>a, <2>1 DEF AttemptsLeft
  <2> QED
    BY <1>a, <2>1, <2>2, ParentKeepsInv DEF StartupTypeOK, Before
<1>4. CASE ForkTranscoder
  <2>1. /\ main_pc = "fork_tc" /\ main_pc' = "fork_rtp"
        /\ tc_pc' \in {"running", "none"}
        /\ UNCHANGED <<options, destsarray, addresses, asked, rtpVars,
                       genre_request, attempts, station_count>>
    BY <1>4 DEF ForkTranscoder, webVars, optVars
  <2>2. AttemptsLeft'
    BY <1>a, <2>1 DEF AttemptsLeft
  <2> QED
    BY <1>a, <2>1, <2>2, ParentKeepsInv DEF StartupTypeOK, Before
<1>5. CASE ForkRtpServer
  <2>1. /\ main_pc = "fork_rtp" /\ main_pc' = "genres"
        /\ rtp_pc' \in {"resolve", "none"}
        /\ UNCHANGED <<options, destsarray, addresses, asked, genre_request,
                       attempts, station_count, tc_pc, destinations, have,
                       bind_sk, setup_failed>>
    BY <1>5 DEF ForkRtpServer, webVars, optVars
  <2>2. AttemptsLeft'
    BY <1>a, <2>1 DEF AttemptsLeft
  <2>3. StartupTypeOK'
    BY <1>a, <2>1 DEF StartupTypeOK
  <2>4. TableIsAsked'
    BY <2>1 DEF StartupInv, TableIsAsked
  <2>5. ListIsAsked'
    BY <1>a, <2>1 DEF ListIsAsked
  <2>6. SetUpInOrder'
    BY <1>a, <2>1 DEF SetUpInOrder, Before
  <2> QED
    BY <2>2, <2>3, <2>4, <2>5, <2>6 DEF StartupInv
<1>6. CASE FetchGenres
  <2>1. /\ main_pc = "genres"
        /\ UNCHANGED <<options, destsarray, addresses, asked, rtpVars,
                       genre_request, station_count, tc_pc>>
        /\ \/ main_pc' \in {"genre_menu", "exited"} /\ attempts' = 0
           \/ attempts' = attempts + 1 /\ attempts + 1 # GenreAttempts
              /\ main_pc' = main_pc
    BY <1>6 DEF FetchGenres, TryAgain, optVars
  <2>2. attempts \in Nat /\ attempts < GenreAttempts
    BY <1>a, <2>1 DEF StartupTypeOK, AttemptsLeft
  <2>3. attempts' \in Nat /\ attempts' < GenreAttempts
    BY <2>1, <2>2
  <2>4. AttemptsLeft'
    BY <2>1, <2>3 DEF AttemptsLeft
  <2> QED
    BY <1>a, <2>1, <2>3, <2>4, ParentKeepsInv DEF StartupTypeOK, Before
<1>7. CASE FetchStations
  <2>6. station_count' \in Nat
    <3>1. station_count' \in {0, 1, station_count}
      BY <1>7 DEF FetchStations
    <3>2. station_count \in Nat
      BY <1>a DEF StartupTypeOK
    <3> QED
      BY <3>1, <3>2
  <2>1. /\ main_pc = "stations"
        /\ UNCHANGED <<options, destsarray, addresses, asked, rtpVars,
                       genre_request, tc_pc>>
        /\ \/ main_pc' \in {"gui", "exited"} /\ attempts' = 0
           \/ attempts' = attempts + 1 /\ attempts + 1 # StationAttempts
              /\ main_pc' = main_pc
    BY <1>7 DEF FetchStations, TryAgain, optVars
  <2>2. attempts \in Nat /\ attempts < StationAttempts
    BY <1>a, <2>1 DEF StartupTypeOK, AttemptsLeft
  <2>3. attempts' \in Nat /\ (main_pc' = "stations" => attempts' < StationAttempts)
    BY <2>1, <2>2
  <2>4. main_pc' # "stations" => attempts' = 0
    BY <2>1
  <2>5. AttemptsLeft'
    BY <2>1, <2>3, <2>4 DEF AttemptsLeft
  <2> QED
    BY <1>a, <2>1, <2>3, <2>5, <2>6, ParentKeepsInv DEF StartupTypeOK, Before
<1>8. CASE ReapChildren
  <2>1. /\ main_pc = "wait" /\ main_pc' = "exited"
        /\ UNCHANGED <<options, destsarray, addresses, asked, rtpVars,
                       genre_request, attempts, station_count, tc_pc>>
    BY <1>8 DEF ReapChildren, webVars, optVars
  <2>2. AttemptsLeft'
    BY <1>a, <2>1 DEF AttemptsLeft
  <2> QED
    BY <1>a, <2>1, <2>2, ParentKeepsInv DEF StartupTypeOK, Before
<1>9. CASE User
  <2>1. /\ main_pc \in {"genre_menu", "gui"}
        /\ main_pc' \in {"stations", "exited", "wait"}
        /\ main_pc = "gui" => main_pc' = "wait"
        /\ genre_request' \in {genre_request, "GET genre"}
        /\ UNCHANGED <<options, destsarray, addresses, asked, rtpVars,
                       attempts, station_count, tc_pc>>
    BY <1>9 DEF User, ChooseGenre, ExitAtGenres, LeaveGenres, LeaveMenu,
                webVars, optVars
  <2>2. AttemptsLeft'
    <3>1. CASE main_pc = "genre_menu"
      <4>1. attempts' = 0
        BY <1>a, <2>1, <3>1 DEF AttemptsLeft
      <4>2. 0 < GenreAttempts /\ 0 < StationAttempts
        BY StartupConstants
      <4>3. main_pc' # "genre_menu"
        BY <2>1
      <4> QED
        BY <4>1, <4>2, <4>3 DEF AttemptsLeft
    <3>2. CASE main_pc = "gui"
      BY <1>a, <2>1, <3>2 DEF AttemptsLeft
    <3> QED
      BY <2>1, <3>1, <3>2
  <2> QED
    BY <1>a, <2>1, <2>2, ParentKeepsInv DEF StartupTypeOK, Before
<1>10. CASE ResolveDestination
  BY <1>10, ResolvingKeepsInv
<1>11. CASE UnknownHost
  BY <1>11, <1>a, ServerKeepsInv DEF UnknownHost, StartupTypeOK, ListIsAsked, optVars
<1>12. CASE AllResolved
  BY <1>12, <1>a, ServerKeepsInv DEF AllResolved, StartupTypeOK, ListIsAsked, optVars
<1>13. CASE BindSockets
  <2>1. /\ rtp_pc = "bind" /\ rtp_pc' = "kick"
        /\ UNCHANGED <<main_pc, optVars, webVars, tc_pc, destinations, have>>
        /\ \/ bind_sk' = have /\ setup_failed' = setup_failed
           \/ bind_sk' = {} /\ setup_failed' = TRUE
    BY <1>13 DEF BindSockets, Needed
  <2>2. addresses' = addresses /\ asked' = asked
    BY <2>1 DEF optVars
  <2>3. /\ destinations' \in Seq([host : Hosts, family : Family])
        /\ Len(destinations') <= addresses'
        /\ have' \subseteq Family /\ bind_sk' \subseteq Family
        /\ setup_failed' \in BOOLEAN
    BY <1>a, <2>1, <2>2 DEF StartupTypeOK
  <2>4. ListIsAsked'
    BY <1>a, <2>1, <2>2 DEF ListIsAsked
  <2>5. ~setup_failed' => Len(destinations') = addresses' /\ bind_sk' = have'
    BY <1>a, <2>1, <2>2 DEF SetUpInOrder
  <2> QED
    BY <2>1, <2>3, <2>4, <2>5, ServerKeepsInv
<1>14. CASE RtpServerEnds
  BY <1>14, <1>a, ServerKeepsInv DEF RtpServerEnds, StartupTypeOK, ListIsAsked, optVars
<1>15. CASE TranscoderEnds \/ TranscoderDies
  <2>1. /\ tc_pc' \in {"ended", "dead"}
        /\ UNCHANGED <<main_pc, options, destsarray, addresses, asked,
                       genre_request, attempts, station_count, rtp_pc,
                       destinations, have, bind_sk, setup_failed>>
    BY <1>15 DEF TranscoderEnds, TranscoderDies, optVars, webVars, rtpVars
  <2>2. StartupTypeOK'
    BY <1>a, <2>1 DEF StartupTypeOK
  <2>3. TableIsAsked'
    BY <2>1 DEF StartupInv, TableIsAsked
  <2>4. ListIsAsked' /\ AttemptsLeft'
    BY <1>a, <2>1 DEF ListIsAsked, AttemptsLeft
  <2>5. SetUpInOrder'
    BY <1>a, <2>1 DEF SetUpInOrder, Before
  <2> QED
    BY <2>2, <2>3, <2>4, <2>5 DEF StartupInv
<1>16. CASE UNCHANGED startupVars
  <2>1. UNCHANGED <<main_pc, options, destsarray, addresses, asked,
                    genre_request, attempts, station_count, tc_pc, rtp_pc,
                    destinations, have, bind_sk, setup_failed>>
    BY <1>16 DEF startupVars, optVars, webVars, rtpVars
  <2>2. StartupTypeOK'
    BY <1>a, <2>1 DEF StartupTypeOK
  <2>3. TableIsAsked'
    BY <2>1 DEF StartupInv, TableIsAsked
  <2>4. ListIsAsked' /\ AttemptsLeft'
    BY <1>a, <2>1 DEF ListIsAsked, AttemptsLeft
  <2>5. SetUpInOrder'
    BY <1>a, <2>1 DEF SetUpInOrder, Before
  <2> QED
    BY <2>2, <2>3, <2>4, <2>5 DEF StartupInv
<1> QED
  BY <1>1, <1>2, <1>3, <1>4, <1>5, <1>6, <1>7, <1>8, <1>9, <1>10, <1>11,
     <1>12, <1>13, <1>14, <1>15, <1>16
     DEF StartupNext, Parent, RtpServer

(* A server whose set-up did not fail sends to what the last option "c"    *)
(* asked for, all of it and in order, with a socket for each family        *)
(* (util.c:43-69, rtp_connection.c:24-37, 136-143, 234-251).               *)
THEOREM ServerSendsToTheAskedFor == StartupSpec => []SendsToTheAskedFor
<1>1. StartupInv => SendsToTheAskedFor
  <2> SUFFICES ASSUME StartupInv PROVE SendsToTheAskedFor
    OBVIOUS
  <2>1. StartupTypeOK
    BY DEF StartupInv
  <2>2. ASSUME rtp_pc = "kick", ~setup_failed
        PROVE  [i \in DOMAIN destinations |-> destinations[i].host] = asked
    <3>1. /\ destinations \in Seq([host : Hosts, family : Family])
          /\ asked \in Seq(Hosts) /\ Len(destinations) = Len(asked)
      BY <2>2 DEF StartupInv, StartupTypeOK, TableIsAsked, SetUpInOrder
    <3>2. DOMAIN destinations = 1 .. Len(asked) /\ DOMAIN asked = 1 .. Len(asked)
          /\ asked \in [1 .. Len(asked) -> Hosts]
      BY <3>1, LenProperties
    <3>3. \A i \in 1 .. Len(asked) : destinations[i].host = asked[i]
      BY <3>1 DEF StartupInv, ListIsAsked
    <3> QED
      BY <3>2, <3>3
  <2>3. ASSUME rtp_pc = "kick", ~setup_failed
        PROVE  bind_sk = {destinations[i].family : i \in DOMAIN destinations}
    <3>1. bind_sk = have /\ DOMAIN destinations = 1 .. Len(destinations)
      BY <2>1, <2>3, LenProperties DEF StartupInv, StartupTypeOK, SetUpInOrder
    <3> QED
      BY <3>1 DEF StartupInv, ListIsAsked
  <2> QED
    BY <2>1, <2>2, <2>3 DEF SendsToTheAskedFor
<1> QED
  BY <1>1, StartupInvInit, StartupInvStep, PTL DEF StartupSpec

=============================================================================
