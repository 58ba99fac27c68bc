---------------------------- MODULE PipesTheorems ----------------------------
(***************************************************************************)
(* What a reader of a pipe gets and what it leaves.                        *)
(***************************************************************************)
EXTENDS Pipes, SequenceTheorems, TLAPS

(* A read returns the units it asks for, in order.                         *)
LEMMA TakeProperties ==
  ASSUME NEW S, NEW pipe \in Seq(S), NEW n \in 0 .. Len(pipe)
  PROVE  /\ Take(pipe, n) \in [1 .. n -> S]
         /\ Take(pipe, n) \in Seq(S)
         /\ Len(Take(pipe, n)) = n
         /\ \A i \in 1 .. n : Take(pipe, n)[i] = pipe[i]
<1>1. \A i \in 1 .. n : pipe[i] \in S
  BY ElementOfSeq
<1>2. /\ Take(pipe, n) \in Seq(S)
      /\ Len(Take(pipe, n)) = IF 1 <= n THEN n - 1 + 1 ELSE 0
      /\ \A i \in 1 .. n - 1 + 1 : Take(pipe, n)[i] = pipe[1 + i - 1]
  BY <1>1, SubSeqProperties DEF Take
<1>3. Len(Take(pipe, n)) = n
  BY <1>2
<1>4. Take(pipe, n) \in [1 .. n -> S]
  BY <1>2, <1>3, LenProperties
<1> QED
  BY <1>2, <1>3, <1>4

(* A read leaves the rest, in order.                                       *)
LEMMA DropProperties ==
  ASSUME NEW S, NEW pipe \in Seq(S), NEW n \in 0 .. Len(pipe)
  PROVE  /\ Drop(pipe, n) \in Seq(S)
         /\ Len(Drop(pipe, n)) = Len(pipe) - n
         /\ \A i \in 1 .. Len(pipe) - n : Drop(pipe, n)[i] = pipe[n + i]
<1>1. \A i \in n + 1 .. Len(pipe) : pipe[i] \in S
  BY ElementOfSeq
<1>2. /\ Drop(pipe, n) \in Seq(S)
      /\ Len(Drop(pipe, n)) =
           IF n + 1 <= Len(pipe) THEN Len(pipe) - (n + 1) + 1 ELSE 0
      /\ \A i \in 1 .. Len(pipe) - (n + 1) + 1 :
           Drop(pipe, n)[i] = pipe[n + 1 + i - 1]
  BY <1>1, SubSeqProperties DEF Drop
<1> QED
  BY <1>2

(* A turn of flush_file that found data leaves less of it.                 *)
LEMMA FlushReadProperties ==
  ASSUME NEW S, NEW pipe \in Seq(S), NEW size \in Nat \ {0}
  PROVE  /\ FlushRead(pipe, size) \in Seq(S)
         /\ Len(FlushRead(pipe, size)) <= Len(pipe)
         /\ pipe # <<>> => Len(FlushRead(pipe, size)) < Len(pipe)
<1>1. Len(pipe) \in Nat /\ (pipe # <<>> => Len(pipe) # 0)
  BY EmptySeq
<1>2. Least(size, Len(pipe)) \in 0 .. Len(pipe)
  BY <1>1 DEF Least
<1>3. /\ FlushRead(pipe, size) \in Seq(S)
      /\ Len(FlushRead(pipe, size)) = Len(pipe) - Least(size, Len(pipe))
  BY <1>2, DropProperties DEF FlushRead
<1> QED
  BY <1>1, <1>3 DEF Least

-----------------------------------------------------------------------------
(* The units in a pipe, whatever their order.                              *)
Units(pipe) == {pipe[i] : i \in DOMAIN pipe}

(* A write of one unit puts it behind the others.                          *)
LEMMA WriteOne ==
  ASSUME NEW S, NEW pipe \in Seq(S), NEW e \in S
  PROVE  /\ Append(pipe, e) \in Seq(S)
         /\ Append(pipe, e) # <<>>
         /\ Len(Append(pipe, e)) = Len(pipe) + 1
         /\ \A i \in DOMAIN pipe : Append(pipe, e)[i] = pipe[i]
         /\ Append(pipe, e)[Len(pipe) + 1] = e
         /\ DOMAIN Append(pipe, e) = DOMAIN pipe \cup {Len(pipe) + 1}
         /\ Units(Append(pipe, e)) = Units(pipe) \cup {e}
<1>1. /\ Append(pipe, e) \in Seq(S)
      /\ Append(pipe, e) # <<>>
      /\ Len(Append(pipe, e)) = Len(pipe) + 1
      /\ \A i \in 1 .. Len(pipe) : Append(pipe, e)[i] = pipe[i]
      /\ Append(pipe, e)[Len(pipe) + 1] = e
  BY AppendProperties
<1>2. /\ DOMAIN pipe = 1 .. Len(pipe)
      /\ DOMAIN Append(pipe, e) = 1 .. Len(pipe) + 1
      /\ Len(pipe) \in Nat
  BY <1>1, LenProperties
<1>3. 1 .. Len(pipe) + 1 = 1 .. Len(pipe) \cup {Len(pipe) + 1}
  BY <1>2
<1>4. Units(Append(pipe, e)) = Units(pipe) \cup {e}
  BY <1>1, <1>2, <1>3 DEF Units
<1> QED
  BY <1>1, <1>2, <1>3, <1>4

(* A write of several units puts them behind the others, in order.         *)
LEMMA WriteMany ==
  ASSUME NEW S, NEW pipe \in Seq(S), NEW more \in Seq(S)
  PROVE  /\ pipe \o more \in Seq(S)
         /\ Len(pipe \o more) = Len(pipe) + Len(more)
         /\ DOMAIN (pipe \o more) = 1 .. Len(pipe) + Len(more)
         /\ \A i \in 1 .. Len(pipe) : (pipe \o more)[i] = pipe[i]
         /\ \A i \in 1 .. Len(more) : (pipe \o more)[Len(pipe) + i] = more[i]
         /\ Units(pipe \o more) = Units(pipe) \cup Units(more)
<1>1. /\ pipe \o more \in Seq(S)
      /\ Len(pipe \o more) = Len(pipe) + Len(more)
      /\ \A i \in 1 .. Len(pipe) + Len(more) :
           (pipe \o more)[i] =
             IF i <= Len(pipe) THEN pipe[i] ELSE more[i - Len(pipe)]
  BY ConcatProperties
<1>2. /\ Len(pipe) \in Nat /\ Len(more) \in Nat
      /\ DOMAIN pipe = 1 .. Len(pipe)
      /\ DOMAIN more = 1 .. Len(more)
      /\ DOMAIN (pipe \o more) = 1 .. Len(pipe) + Len(more)
  BY <1>1, LenProperties
<1> DEFINE all == pipe \o more
<1>3. \A i \in 1 .. Len(pipe) :
        i \in 1 .. Len(pipe) + Len(more) /\ all[i] = pipe[i]
  BY <1>1, <1>2
<1>4. \A i \in 1 .. Len(more) :
        /\ Len(pipe) + i \in 1 .. Len(pipe) + Len(more)
        /\ all[Len(pipe) + i] = more[i]
  BY <1>1, <1>2
<1>5. \A i \in 1 .. Len(pipe) + Len(more) :
        \/ i \in 1 .. Len(pipe) /\ all[i] = pipe[i]
        \/ i - Len(pipe) \in 1 .. Len(more) /\ all[i] = more[i - Len(pipe)]
  BY <1>1, <1>2
<1> HIDE DEF all
<1>6. DOMAIN all = 1 .. Len(pipe) + Len(more)
  BY <1>2 DEF all
<1>7. Units(all) = Units(pipe) \cup Units(more)
  <2>1. ASSUME NEW u \in Units(all) PROVE u \in Units(pipe) \cup Units(more)
    BY <1>2, <1>5, <1>6, <2>1 DEF Units
  <2>2. ASSUME NEW u \in Units(pipe) PROVE u \in Units(all)
    BY <1>2, <1>3, <1>6, <2>2 DEF Units
  <2>3. ASSUME NEW u \in Units(more) PROVE u \in Units(all)
    BY <1>2, <1>4, <1>6, <2>3 DEF Units
  <2> QED
    BY <2>1, <2>2, <2>3
<1> QED
  BY <1>1, <1>2, <1>3, <1>4, <1>7 DEF all

(* Reading invents no units.                                               *)
LEMMA ReadUnits ==
  ASSUME NEW S, NEW pipe \in Seq(S), NEW n \in 0 .. Len(pipe)
  PROVE  /\ Units(Take(pipe, n)) \subseteq Units(pipe)
         /\ Units(Drop(pipe, n)) \subseteq Units(pipe)
<1>1. /\ Len(pipe) \in Nat
      /\ DOMAIN pipe = 1 .. Len(pipe)
  BY LenProperties
<1>2. /\ Take(pipe, n) \in Seq(S) /\ Len(Take(pipe, n)) = n
      /\ \A i \in 1 .. n : Take(pipe, n)[i] = pipe[i]
  BY TakeProperties
<1>3. /\ Drop(pipe, n) \in Seq(S) /\ Len(Drop(pipe, n)) = Len(pipe) - n
      /\ \A i \in 1 .. Len(pipe) - n : Drop(pipe, n)[i] = pipe[n + i]
  BY DropProperties
<1> DEFINE head == Take(pipe, n)
           rest == Drop(pipe, n)
<1>4. DOMAIN head = 1 .. n /\ DOMAIN rest = 1 .. Len(pipe) - n
  BY <1>2, <1>3, LenProperties
<1> HIDE DEF head, rest
<1>5. \A i \in 1 .. n : i \in 1 .. Len(pipe) /\ head[i] = pipe[i]
  BY <1>1, <1>2 DEF head
<1>6. \A i \in 1 .. Len(pipe) - n :
        n + i \in 1 .. Len(pipe) /\ rest[i] = pipe[n + i]
  BY <1>1, <1>3 DEF rest
<1> QED
  BY <1>1, <1>4, <1>5, <1>6 DEF Units, head, rest

(* A flush invents no units.                                               *)
LEMMA FlushUnits ==
  ASSUME NEW S, NEW pipe \in Seq(S), NEW size \in Nat \ {0}
  PROVE  Units(FlushRead(pipe, size)) \subseteq Units(pipe)
<1>1. Least(size, Len(pipe)) \in 0 .. Len(pipe)
  BY LenProperties DEF Least
<1> QED
  BY <1>1, ReadUnits DEF FlushRead

(* An empty pipe has none.                                                 *)
LEMMA UnitsEmpty == Units(<<>>) = {}
<1> QED
  BY DEF Units

(* The oldest unit is one of them.                                         *)
LEMMA UnitsHead ==
  ASSUME NEW S, NEW pipe \in Seq(S), pipe # <<>>
  PROVE  Head(pipe) \in Units(pipe)
<1>1. Len(pipe) \in Nat /\ DOMAIN pipe = 1 .. Len(pipe)
  BY LenProperties
<1>2. Len(pipe) # 0
  BY EmptySeq
<1>3. 1 \in DOMAIN pipe
  BY <1>1, <1>2
<1>4. Head(pipe) = pipe[1]
  OBVIOUS
<1> QED
  BY <1>3, <1>4 DEF Units

(* The bytes of the exit command, as the transcoder and the fetcher write  *)
(* them.                                                                   *)
LEMMA ExitBytes ==
  /\ <<"E", "O">> \in Seq({"E", "O"})
  /\ Len(<<"E", "O">>) = 2
  /\ Units(<<"E", "O">>) = {"E", "O"}
<1>1. /\ <<"E", "O">> \in Seq({"E", "O"})
      /\ Len(<<"E", "O">>) = 2
      /\ <<"E", "O">>[1] = "E" /\ <<"E", "O">>[2] = "O"
  OBVIOUS
<1>2. DOMAIN <<"E", "O">> = {1, 2}
  OBVIOUS
<1> QED
  BY <1>1, <1>2 DEF Units

(* The exit command behind other bytes.                                    *)
LEMMA AppendExit ==
  ASSUME NEW S, {"E", "O"} \subseteq S, NEW pipe \in Seq(S)
  PROVE  /\ pipe \o <<"E", "O">> \in Seq(S)
         /\ pipe \o <<"E", "O">> # <<>>
         /\ Units(pipe \o <<"E", "O">>) = Units(pipe) \cup {"E", "O"}
<1> DEFINE exit == <<"E", "O">>
<1>1. exit \in Seq(S)
  BY ExitBytes, SeqMonotonic
<1>2. Len(exit) = 2 /\ Units(exit) = {"E", "O"}
  BY ExitBytes
<1> HIDE DEF exit
<1>3. /\ pipe \o exit \in Seq(S)
      /\ Len(pipe \o exit) = Len(pipe) + Len(exit)
      /\ Units(pipe \o exit) = Units(pipe) \cup Units(exit)
  BY <1>1, WriteMany
<1>4. pipe \o exit # <<>>
  <2> DEFINE all == pipe \o exit
  <2>1. Len(pipe) \in Nat
    BY LenProperties
  <2>2. all \in Seq(S) /\ Len(all) # 0
    BY <1>2, <1>3, <2>1
  <2> HIDE DEF all
  <2>3. all # <<>>
    BY <2>2, EmptySeq
  <2> QED
    BY <2>3 DEF all
<1> QED
  BY <1>2, <1>3, <1>4 DEF exit

(* A read that fills a buffer replaces all of it; one that does not leaves *)
(* a buffer of the same size.                                              *)
LEMMA FilledPayload ==
  ASSUME NEW S, NEW T, NEW size \in Nat, NEW pipe \in Seq(S),
         NEW old \in [1 .. size -> T], NEW n \in 0 .. Len(pipe), n <= size
  PROVE  /\ Take(pipe, n) \o Drop(old, n) \in [1 .. size -> S \cup T]
         /\ n = size =>
              Take(pipe, n) \o Drop(old, n) \in [1 .. size -> S]
<1>1. size \in Nat
  OBVIOUS
<1>2. Len(pipe) \in Nat
  BY LenProperties
<1>3. /\ old \in Seq(T)
      /\ Len(old) = size
  BY <1>1, SeqDef, LenProperties
<1>4. n \in 0 .. Len(old) /\ size - n \in Nat
  BY <1>1, <1>2, <1>3
<1>5. /\ Take(pipe, n) \in Seq(S)
      /\ Take(pipe, n) \in [1 .. n -> S]
      /\ Len(Take(pipe, n)) = n
  BY TakeProperties
<1>6. /\ Drop(old, n) \in Seq(T)
      /\ Len(Drop(old, n)) = size - n
  BY <1>3, <1>4, DropProperties
<1>7. /\ Take(pipe, n) \in Seq(S \cup T)
      /\ Drop(old, n) \in Seq(S \cup T)
  <2>1. S \subseteq S \cup T /\ T \subseteq S \cup T
    OBVIOUS
  <2> QED
    BY <1>5, <1>6, <2>1, SeqMonotonic
<1> HIDE DEF Take, Drop
<1>8. /\ Take(pipe, n) \o Drop(old, n) \in Seq(S \cup T)
      /\ Len(Take(pipe, n) \o Drop(old, n)) = n + (size - n)
  BY <1>5, <1>6, <1>7, ConcatProperties
<1>9. n + (size - n) = size
  BY <1>1, <1>2
<1>10. Take(pipe, n) \o Drop(old, n) \in [1 .. size -> S \cup T]
  BY <1>8, <1>9, LenProperties
<1>11. CASE n = size
  <2>1. Drop(old, n) = <<>>
    BY <1>1, <1>6, <1>11, EmptySeq
  <2>2. Take(pipe, n) \o Drop(old, n) = Take(pipe, n)
    BY <1>5, <2>1, ConcatEmptySeq
  <2> QED
    BY <1>5, <1>10, <1>11, <2>2
<1> QED
  BY <1>10, <1>11

-----------------------------------------------------------------------------
(* The units of a pipe are in order, and none comes late: none is larger   *)
(* than what is still to come.                                             *)
Before(pipe, after) ==
  /\ \A i, j \in DOMAIN pipe : i < j => pipe[i] <= pipe[j]
  /\ \A i \in DOMAIN pipe : \A u \in after : pipe[i] <= u

(* Nothing of the second set is smaller than all of the first.             *)
NoEarlier(before, after) == \A c \in after : \E b \in before : b <= c

(* What is to come may grow upwards, ...                                   *)
LEMMA BeforeLater ==
  ASSUME NEW S \in SUBSET Int, NEW pipe \in Seq(S),
         NEW B \in SUBSET Int, NEW C \in SUBSET Int,
         Before(pipe, B), NoEarlier(B, C)
  PROVE  Before(pipe, C)
<1>1. \A i \in DOMAIN pipe : pipe[i] \in Int
  BY ElementOfSeq, LenProperties
<1>2. ASSUME NEW i \in DOMAIN pipe, NEW c \in C PROVE pipe[i] <= c
  <2>1. PICK b \in B : b <= c
    BY DEF NoEarlier
  <2>2. pipe[i] <= b
    BY DEF Before
  <2> QED
    BY <1>1, <2>1, <2>2
<1> QED
  BY <1>2 DEF Before

(* ... and shrink.                                                         *)
LEMMA BeforeFewer ==
  ASSUME NEW pipe, NEW B, NEW C, Before(pipe, B), C \subseteq B
  PROVE  Before(pipe, C)
BY DEF Before

(* An empty pipe is in order.                                              *)
LEMMA BeforeEmpty ==
  ASSUME NEW B
  PROVE  Before(<<>>, B)
BY DEF Before

(* What is written is in order, and it comes before nothing smaller.       *)
LEMMA WriteOneBefore ==
  ASSUME NEW S \in SUBSET Int, NEW pipe \in Seq(S), NEW e \in S,
         NEW B \in SUBSET Int,
         Before(pipe, B \cup {e}), \A u \in B : e <= u
  PROVE  Before(Append(pipe, e), B)
<1> DEFINE all == Append(pipe, e)
<1>1. Len(pipe) \in Nat /\ DOMAIN pipe = 1 .. Len(pipe)
  BY LenProperties
<1>2. /\ \A i \in DOMAIN pipe : all[i] = pipe[i]
      /\ all[Len(pipe) + 1] = e
      /\ DOMAIN all = DOMAIN pipe \cup {Len(pipe) + 1}
  BY WriteOne
<1> HIDE DEF all
<1>3. ASSUME NEW i \in DOMAIN all, NEW j \in DOMAIN all, i < j
      PROVE  all[i] <= all[j]
  <2>1. i \in DOMAIN pipe
    BY <1>1, <1>2, <1>3
  <2>2. CASE j \in DOMAIN pipe
    BY <1>2, <1>3, <2>1, <2>2 DEF Before
  <2>3. CASE j = Len(pipe) + 1
    BY <1>2, <2>1, <2>3 DEF Before
  <2> QED
    BY <1>2, <2>2, <2>3
<1>4. ASSUME NEW i \in DOMAIN all, NEW u \in B PROVE all[i] <= u
  <2>1. CASE i \in DOMAIN pipe
    BY <1>2, <2>1 DEF Before
  <2>2. CASE i = Len(pipe) + 1
    BY <1>2, <2>2
  <2> QED
    BY <1>2, <2>1, <2>2
<1> QED
  BY <1>3, <1>4 DEF Before, all

(* The same for several units.                                             *)
LEMMA WriteManyBefore ==
  ASSUME NEW S \in SUBSET Int, NEW pipe \in Seq(S), NEW more \in Seq(S),
         NEW B \in SUBSET Int,
         Before(pipe, Units(more) \cup B), Before(more, B)
  PROVE  Before(pipe \o more, B)
<1> DEFINE all == pipe \o more
<1>1. /\ Len(pipe) \in Nat /\ DOMAIN pipe = 1 .. Len(pipe)
      /\ Len(more) \in Nat /\ DOMAIN more = 1 .. Len(more)
  BY LenProperties
<1>2. /\ DOMAIN all = 1 .. Len(pipe) + Len(more)
      /\ \A i \in 1 .. Len(pipe) : all[i] = pipe[i]
      /\ \A i \in 1 .. Len(more) : all[Len(pipe) + i] = more[i]
  BY WriteMany
<1> HIDE DEF all
<1>3. ASSUME NEW i \in DOMAIN all
      PROVE  \/ i \in DOMAIN pipe /\ all[i] = pipe[i]
             \/ /\ i > Len(pipe)
                /\ i - Len(pipe) \in DOMAIN more
                /\ all[i] = more[i - Len(pipe)]
  <2>1. CASE i <= Len(pipe)
    BY <1>1, <1>2, <2>1
  <2>2. CASE i > Len(pipe)
    <3>1. i - Len(pipe) \in 1 .. Len(more) /\ Len(pipe) + (i - Len(pipe)) = i
      BY <1>1, <1>2, <2>2
    <3> QED
      BY <1>1, <1>2, <2>2, <3>1
  <2> QED
    BY <1>1, <1>2, <2>1, <2>2
<1>4. ASSUME NEW i \in DOMAIN all, NEW j \in DOMAIN all, i < j
      PROVE  all[i] <= all[j]
  <2>1. i \in Int /\ j \in Int
    BY <1>1, <1>2
  <2>2. CASE j \in DOMAIN pipe /\ all[j] = pipe[j]
    <3>1. i \in DOMAIN pipe /\ all[i] = pipe[i]
      BY <1>1, <1>3, <1>4, <2>1, <2>2
    <3> QED
      BY <1>4, <2>2, <3>1 DEF Before
  <2>3. CASE /\ j - Len(pipe) \in DOMAIN more
             /\ all[j] = more[j - Len(pipe)]
    <3>1. CASE i \in DOMAIN pipe /\ all[i] = pipe[i]
      BY <2>3, <3>1 DEF Before, Units
    <3>2. CASE /\ i - Len(pipe) \in DOMAIN more
               /\ all[i] = more[i - Len(pipe)]
      <4>1. i - Len(pipe) < j - Len(pipe)
        BY <1>1, <1>4, <2>1
      <4> QED
        BY <2>3, <3>2, <4>1 DEF Before
    <3> QED
      BY <1>3, <3>1, <3>2
  <2> QED
    BY <1>3, <2>2, <2>3
<1>5. ASSUME NEW i \in DOMAIN all, NEW u \in B PROVE all[i] <= u
  BY <1>3 DEF Before
<1> QED
  BY <1>4, <1>5 DEF Before, all

(* A read takes units that come before the rest, and leaves the rest in    *)
(* order.                                                                  *)
LEMMA ReadBefore ==
  ASSUME NEW S \in SUBSET Int, NEW pipe \in Seq(S), NEW n \in 0 .. Len(pipe),
         NEW B \in SUBSET Int, Before(pipe, B)
  PROVE  /\ Before(Take(pipe, n), Units(Drop(pipe, n)) \cup B)
         /\ Before(Drop(pipe, n), B)
<1> DEFINE head == Take(pipe, n)
           rest == Drop(pipe, n)
<1>1. Len(pipe) \in Nat /\ DOMAIN pipe = 1 .. Len(pipe)
  BY LenProperties
<1>2. head \in Seq(S) /\ Len(head) = n /\ \A i \in 1 .. n : head[i] = pipe[i]
  BY TakeProperties
<1>3. /\ rest \in Seq(S) /\ Len(rest) = Len(pipe) - n
      /\ \A i \in 1 .. Len(pipe) - n : rest[i] = pipe[n + i]
  BY DropProperties
<1>4. DOMAIN head = 1 .. n /\ DOMAIN rest = 1 .. Len(pipe) - n
  BY <1>2, <1>3, LenProperties
<1> HIDE DEF head, rest
<1>5. \A i \in DOMAIN head : i \in DOMAIN pipe /\ i <= n /\ head[i] = pipe[i]
  BY <1>1, <1>2, <1>4
<1>6. \A i \in DOMAIN rest :
        n + i \in DOMAIN pipe /\ n < n + i /\ rest[i] = pipe[n + i]
  BY <1>1, <1>3, <1>4
<1>7. Before(rest, B)
  <2>1. ASSUME NEW i \in DOMAIN rest, NEW j \in DOMAIN rest, i < j
        PROVE  rest[i] <= rest[j]
    <3>1. n + i < n + j
      BY <1>1, <1>4, <2>1
    <3> QED
      BY <1>6, <3>1 DEF Before
  <2> QED
    BY <1>6, <2>1 DEF Before
<1>8. Before(head, Units(rest) \cup B)
  <2>1. ASSUME NEW i \in DOMAIN head, NEW j \in DOMAIN rest
        PROVE  head[i] <= rest[j]
    <3>1. i < n + j
      BY <1>1, <1>4
    <3> QED
      BY <1>5, <1>6, <3>1 DEF Before
  <2> QED
    BY <1>5, <2>1 DEF Before, Units
<1> QED
  BY <1>7, <1>8 DEF head, rest

(* The oldest unit comes before the others.                                *)
LEMMA HeadBefore ==
  ASSUME NEW S \in SUBSET Int, NEW pipe \in Seq(S), pipe # <<>>,
         NEW B \in SUBSET Int, Before(pipe, B)
  PROVE  /\ Head(pipe) \in S
         /\ \A u \in Units(pipe) \cup B : Head(pipe) <= u
<1>1. /\ Len(pipe) \in Nat \ {0} /\ DOMAIN pipe = 1 .. Len(pipe)
      /\ Head(pipe) \in S /\ Head(pipe) = pipe[1] /\ pipe[1] \in Int
  <2>1. Len(pipe) \in Nat /\ DOMAIN pipe = 1 .. Len(pipe)
    BY LenProperties
  <2>2. Len(pipe) # 0
    BY EmptySeq
  <2>3. Head(pipe) \in S
    BY HeadTailProperties
  <2>4. Head(pipe) = pipe[1]
    OBVIOUS
  <2> QED
    BY <2>1, <2>2, <2>3, <2>4
<1>2. ASSUME NEW i \in DOMAIN pipe PROVE pipe[1] <= pipe[i]
  <2>1. CASE i = 1
    BY <1>1, <2>1
  <2>2. CASE i # 1
    <3>1. 1 \in DOMAIN pipe /\ 1 < i
      BY <1>1, <2>2
    <3> QED
      BY <3>1 DEF Before
  <2> QED
    BY <2>1, <2>2
<1>3. \A u \in B : pipe[1] <= u
  <2>1. 1 \in DOMAIN pipe
    BY <1>1
  <2> QED
    BY <2>1 DEF Before
<1>4. \A u \in Units(pipe) : pipe[1] <= u
  BY <1>2 DEF Units
<1> QED
  BY <1>1, <1>3, <1>4

(* The units of a pipe are of the kind the pipe is for.                    *)
LEMMA UnitsTyped ==
  ASSUME NEW S, NEW pipe \in Seq(S)
  PROVE  Units(pipe) \subseteq S
BY ElementOfSeq, LenProperties DEF Units

(* A read of all a buffer holds replaces it.                               *)
LEMMA FullRead ==
  ASSUME NEW S, NEW T, NEW pipe \in Seq(S), NEW old \in Seq(T),
         Len(old) <= Len(pipe)
  PROVE  Take(pipe, Len(old)) \o Drop(old, Len(old)) = Take(pipe, Len(old))
<1>1. Len(old) \in 0 .. Len(pipe) /\ Len(old) \in 0 .. Len(old)
  BY LenProperties
<1>2. Take(pipe, Len(old)) \in Seq(S)
  BY <1>1, TakeProperties
<1>3. Drop(old, Len(old)) = <<>>
  <2>1. Drop(old, Len(old)) \in Seq(T) /\ Len(Drop(old, Len(old))) = 0
    BY <1>1, DropProperties
  <2> QED
    BY <2>1, EmptySeq
<1> QED
  BY <1>2, <1>3, ConcatEmptySeq

=============================================================================
