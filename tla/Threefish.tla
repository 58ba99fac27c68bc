----------------------------- MODULE Threefish -----------------------------
(***************************************************************************)
(* The network of the block cipher of Skein as ccRTP runs it               *)
(* (ccrtp/crypto/skein_block.c): which words each round mixes, and which   *)
(* words of the key and of the tweak are added between the rounds.  The    *)
(* additions, rotations and exclusive ors are left out.                    *)
(*                                                                         *)
(* The code never moves a word: it writes the permutation between rounds   *)
(* as another order of the names X0, X1, ..., four orders in turn, and for *)
(* 1024 bits it writes the key schedule as an array that grows by a copy   *)
(* of its own words.  Threefish is the definition it is compared with.     *)
(***************************************************************************)
EXTENDS Integers, Sequences

Sizes == {256, 512, 1024}

STATE_WORDS(size) == size \div 64
ROUNDS_TOTAL(size) == IF size = 1024 THEN 80 ELSE 72

Words(size) == 0 .. STATE_WORDS(size) - 1
Groups(size) == 1 .. ROUNDS_TOTAL(size) \div 4   \* of four rounds

-----------------------------------------------------------------------------
(* R256_8_rounds, R512_8_rounds, R1024_8_rounds: the order of the words in *)
(* four rounds; the next four have the same one.                           *)
R_256 == << <<0, 1, 2, 3>>, <<0, 3, 2, 1>>, <<0, 1, 2, 3>>, <<0, 3, 2, 1>> >>

R_512 == << <<0, 1, 2, 3, 4, 5, 6, 7>>, <<2, 1, 4, 7, 6, 5, 0, 3>>,
            <<4, 1, 6, 3, 0, 5, 2, 7>>, <<6, 1, 0, 7, 2, 5, 4, 3>> >>

R1024 ==
  << <<0, 1, 2, 3, 4, 5, 6, 7, 8, 9, 10, 11, 12, 13, 14, 15>>,
     <<0, 9, 2, 13, 6, 11, 4, 15, 10, 7, 12, 3, 14, 5, 8, 1>>,
     <<0, 7, 2, 5, 4, 3, 6, 1, 12, 15, 14, 13, 8, 11, 10, 9>>,
     <<0, 15, 2, 11, 6, 13, 4, 9, 14, 1, 8, 5, 10, 3, 12, 7>> >>

(* What a word gets: a word of the key, perhaps one of the tweak, and the  *)
(* number of the injection for the last word.                              *)
Injected(size, k, t, s) ==
  [w \in Words(size) |->
     [ key |-> k[w],
       tweak |-> IF w + 3 = STATE_WORDS(size) THEN t[0]
                 ELSE IF w + 2 = STATE_WORDS(size) THEN t[1] ELSE -1,
       number |-> IF w + 1 = STATE_WORDS(size) THEN s ELSE 0 ]]

(* The first full key injection.                                           *)
FirstInjection(size) ==
  Injected(size, [w \in Words(size) |-> w], [i \in 0 .. 1 |-> i], 0)

(* I256 and I512, unrolled: the indices are taken modulo.                  *)
I256(R) == Injected(256, [w \in Words(256) |-> (R + 1 + w) % 5],
                    [i \in 0 .. 1 |-> (R + 1 + i) % 3], R + 1)

I512(R) == Injected(512, [w \in Words(512) |-> (R + 1 + w) % 9],
                    [i \in 0 .. 1 |-> (R + 1 + i) % 3], R + 1)

(* I1024, looping: each injection first reads the array and then writes    *)
(* the word behind its last, a copy of the one it need not read again.     *)
RotatedKeys[i \in 0 .. 40] == IF i <= 16 THEN i ELSE RotatedKeys[i - 17]

RotatedTweak[i \in 0 .. 40] == IF i <= 2 THEN i ELSE RotatedTweak[i - 3]

I1024(r, R) == Injected(1024, [w \in Words(1024) |-> RotatedKeys[r + R + w]],
                        [i \in 0 .. 1 |-> RotatedTweak[r + R + i]], r + R)

(* The loop: r goes up by two, with two injections each time.              *)
Injection(size, group) ==
  CASE size = 256 -> I256(group - 1)
    [] size = 512 -> I512(group - 1)
    [] size = 1024 -> I1024(1 + 2 * ((group - 1) \div 2), (group - 1) % 2)

RoundOrder(size) ==
  CASE size = 256 -> R_256 [] size = 512 -> R_512 [] size = 1024 -> R1024

Network(size) ==
  [ rounds |-> [d \in 1 .. ROUNDS_TOTAL(size) |->
                  RoundOrder(size)[1 + ((d - 1) % 4)]],
    injections |-> <<FirstInjection(size)>>
                     \o [g \in Groups(size) |-> Injection(size, g)] ]

-----------------------------------------------------------------------------
(* The definition: the words stay in place and are permuted by Permutation *)
(* after each round; before every fourth round, and at the end, the subkey *)
(* of that number is added.                                                *)
Permutation(size) ==
  CASE size = 256 -> <<0, 3, 2, 1>>
    [] size = 512 -> <<2, 1, 4, 7, 6, 5, 0, 3>>
    [] size = 1024 -> <<0, 9, 2, 13, 6, 11, 4, 15, 10, 7, 12, 3, 14, 5, 8, 1>>

(* The words by their original places, before each round.                  *)
Places(size) ==
  LET words == [i \in 1 .. STATE_WORDS(size) |-> i - 1]
      Permuted(p) == [i \in DOMAIN words |-> p[Permutation(size)[i] + 1]]
      at[d \in 0 .. ROUNDS_TOTAL(size)] ==
        IF d = 0 THEN words ELSE Permuted(at[d - 1])
  IN at

Subkey(size, s) ==
  Injected(size, [w \in Words(size) |-> (s + w) % (STATE_WORDS(size) + 1)],
           [i \in 0 .. 1 |-> (s + i) % 3], s)

CipherOf(size) ==
  LET at == Places(size) IN
  [ rounds |-> [d \in 1 .. ROUNDS_TOTAL(size) |-> at[d - 1]],
    injections |-> [g \in 1 .. ROUNDS_TOTAL(size) \div 4 + 1 |->
      LET place == at[4 * (g - 1)] subkey == Subkey(size, g - 1) IN
      [w \in Words(size) |->
         subkey[CHOOSE i \in Words(size) : place[i + 1] = w]]] ]

(* The code runs the network of the definition.                            *)
NetworkIsThreefish == \A size \in Sizes : Network(size) = CipherOf(size)

=============================================================================
