------------------------------- MODULE Digest -------------------------------
(***************************************************************************)
(* Messages that are digested piece by piece, one after the other with the *)
(* same context, as SRTP authenticates packets (macSkeinCtx) and as a      *)
(* stream or putDigest fills an MD5Digest.                                 *)
(***************************************************************************)
EXTENDS Integers, Sequences, SequencesExt

CONSTANTS
  WordBytes,            \* see Skein
  BlockBytes, CountBytes,   \* see Md5
  MessageBlocks,        \* bound: the longest message, in blocks
  Uses                  \* the ways a context is set up in the instance

VARIABLES
  use,       \* how the context was set up
  context,   \* the SkeinCtx_t, or the MD5Digest
  message,   \* the bytes that were put in since the last digest
  partial,   \* the bits that count in its last byte, or 0 for all
  digest     \* the last digest, with what it is the digest of

digestVars == <<use, context, message, partial, digest>>

S == INSTANCE Skein
M == INSTANCE Md5
T == INSTANCE Threefish

Md5Use == [algorithm |-> "MD5", size |-> 0, keyLength |-> 0, bits |-> 0]
SkeinUse(size, keyLength, bits) ==
  [algorithm |-> "Skein", size |-> size, keyLength |-> keyLength, bits |-> bits]

IsSkein(u) == u.algorithm = "Skein"
Block(u) == IF IsSkein(u) THEN S!BLOCK_BYTES(u.size) ELSE BlockBytes

None == [of |-> <<>>, partial |-> 0, hash |-> <<>>, there |-> FALSE]

Key(u) == [i \in 1 .. u.keyLength |-> 1000 + i]

(* The ways there are to set up a context; without a key they must agree.  *)
ContextsFor(u) ==
  IF ~IsSkein(u) THEN {M!NewDigest}
  ELSE LET ctx == S!skeinCtxPrepare(u.size) IN
       {S!createSkeinMacContext(Key(u), u.bits, u.size)}
       \cup IF u.keyLength > 0 THEN {}
            ELSE {S!skeinInit(ctx, u.bits),
                  S!Saved(CASE u.size = 256 -> S!Skein_256_Init(ctx, u.bits)
                            [] u.size = 512 -> S!Skein_512_Init(ctx, u.bits)
                            [] u.size = 1024 -> S!Skein1024_Init(ctx, u.bits))}

DigestInit ==
  /\ use \in Uses /\ context \in ContextsFor(use)
  /\ message = <<>> /\ partial = 0 /\ digest = None

(* The next n bytes of the message.                                        *)
NextBytes(n) == [i \in 1 .. n |-> Len(message) + i]

Lengths == 0 .. MessageBlocks * Block(use) + 1 - Len(message)

PutChunk ==
  /\ partial = 0
  /\ \E n \in Lengths :
       LET bytes == NextBytes(n) IN
       /\ message' = message \o bytes
       /\ context' = IF IsSkein(use) THEN S!skeinUpdate(context, bytes)
                                     ELSE M!putDigest(context, bytes)
  /\ digest' = None
  /\ UNCHANGED <<use, partial>>

(* One character of the stream.                                            *)
PutCharacter ==
  /\ ~IsSkein(use) /\ 1 \in Lengths
  /\ message' = message \o NextBytes(1)
  /\ context' = M!sputc(context, NextBytes(1)[1])
  /\ digest' = None
  /\ UNCHANGED <<use, partial>>

(* The last piece, with a byte of which some bits do not count.            *)
PutBits ==
  /\ IsSkein(use) /\ partial = 0
  /\ \E n \in Lengths \ {0}, bits \in {1, 7} :
       /\ message' = message \o NextBytes(n)
       /\ context' = S!skeinUpdateBits(context, NextBytes(n),
                                       8 * (n - 1) + bits)
       /\ partial' = bits
  /\ digest' = None
  /\ UNCHANGED use

(* The digest, and the context as it is for the next message.              *)
GetDigest ==
  /\ LET mac == S!macSkeinCtx(context, <<>>) IN
     /\ context' = IF IsSkein(use) THEN mac.ctx ELSE M!commit(context)
     /\ digest' = [ of |-> message, partial |-> partial, there |-> TRUE,
                    hash |-> IF IsSkein(use) THEN mac.mac
                             ELSE M!getDigest(context) ]
  /\ message' = <<>> /\ partial' = 0
  /\ UNCHANGED use

DigestNext == PutChunk \/ PutCharacter \/ PutBits \/ GetDigest

-----------------------------------------------------------------------------
(* The definitions.  Skein: a chain over the blocks of the key, of the     *)
(* configuration and of the message, each block with the number of bytes   *)
(* up to its end, and marks on the first and the last.                     *)
Chained(BB, G, bytes, type, bits) ==
  LET n == IF bytes = <<>> THEN 1 ELSE (Len(bytes) + BB - 1) \div BB
      Byte(i) == IF i > Len(bytes) THEN 0
                 ELSE IF bits # 0 /\ i = Len(bytes)
                      THEN S!BitPadded(bytes[i], bits) ELSE bytes[i]
  IN G \o [j \in 1 .. n |->
       [ T0 |-> IF j = n THEN Len(bytes) ELSE j * BB,
         T1 |-> [type |-> type, first |-> j = 1, final |-> j = n,
                 bit_pad |-> bits # 0 /\ j = n],
         block |-> [i \in 1 .. BB |-> Byte((j - 1) * BB + i)] ]]

SkeinOf(u, bytes, bits) ==
  LET BB == Block(u)
      keyed == IF u.keyLength = 0 THEN <<>>
               ELSE Chained(BB, <<>>, Key(u), "KEY", 0)
      config == S!WordOf(S!SCHEMA_VER) \o S!WordOf(u.bits)
                  \o S!Zeros(2 * WordBytes)
      configured == Chained(BB, keyed, config, "CFG", 0)
      of == Chained(BB, configured, bytes, "MSG", bits)
  IN [i \in 1 .. (u.bits + 7) \div 8 |->
        [ X |-> Chained(BB, of, S!WordOf((i - 1) \div BB), "OUT", 0),
          at |-> 1 + ((i - 1) % BB) ]]

(* MD5: the message, a mark, zeros up to the length, the length.           *)
Md5Of(bytes) ==
  LET total == CHOOSE n \in Len(bytes) + 1 + CountBytes ..
                            Len(bytes) + CountBytes + BlockBytes :
                 n % BlockBytes = 0
      Byte(i) == CASE i <= Len(bytes) -> bytes[i]
                   [] i = Len(bytes) + 1 -> M!PadStart
                   [] i = total - CountBytes + 1 -> M!CountOf(8 * Len(bytes))
                   [] OTHER -> 0
  IN [j \in 1 .. total \div BlockBytes |->
        [i \in 1 .. BlockBytes |-> Byte((j - 1) * BlockBytes + i)]]

(* A digest is that of the whole message by its definition, whatever the   *)
(* pieces it came in and whatever the context was used for before, and the *)
(* cipher of Skein is Threefish (skein.c:136-215, skeinApi.c:124-206,      *)
(* skein_block.c:119-150, queue.cpp:257-431).                              *)
DigestOfMessage ==
  /\ T!NetworkIsThreefish
  /\ digest.there =>
       digest.hash = IF IsSkein(use)
                     THEN SkeinOf(use, digest.of, digest.partial)
                     ELSE Md5Of(digest.of)

=============================================================================
