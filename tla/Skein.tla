------------------------------- MODULE Skein -------------------------------
(***************************************************************************)
(* The hash function Skein of ccRTP (ccrtp/crypto/skein.c, skeinApi.c and  *)
(* macSkein.cpp), which authenticates SRTP packets, on contexts.           *)
(*                                                                         *)
(* The block cipher (module Threefish) is abstracted: the chaining words X *)
(* are the sequence of what they were computed from, one entry for each    *)
(* block with the tweak it was processed under.  All the rest is as in the *)
(* code, the buffer with the bytes an earlier use left in it too.  A byte  *)
(* is a number that tells where it comes from, 0 a byte of padding, and a  *)
(* hash the sequence of its bytes, each by the chaining words it is taken  *)
(* from and its place in them.  The sizes of words are divided by what     *)
(* WordBytes leaves of eight bytes.                                        *)
(***************************************************************************)
EXTENDS Integers, Sequences, SequencesExt

CONSTANT WordBytes   \* of a word of the state, 8 in the code

BLOCK_BYTES(size) == WordBytes * (size \div 64)

SKEIN_CFG_STR_LEN == 4 * WordBytes

SCHEMA_VER == -1   \* a word that no other block starts with

Zeros(n) == [i \in 1 .. n |-> 0]

(* A word is its number followed by zeros.                                 *)
WordOf(number) == <<number>> \o Zeros(WordBytes - 1)

-----------------------------------------------------------------------------
(* SkeinCtx_t.                                                             *)
skeinCtxPrepare(size) ==
  [ skeinSize |-> size, hashBitLen |-> 0, X |-> <<>>, XSave |-> <<>>,
    T0 |-> 0, T1 |-> [type |-> "KEY", first |-> FALSE, final |-> FALSE,
                      bit_pad |-> FALSE],
    b |-> Zeros(BLOCK_BYTES(size)), bCnt |-> 0 ]

(* Skein_Start_New_Type.                                                   *)
Start_New_Type(ctx, type) ==
  [ctx EXCEPT !.T0 = 0, !.bCnt = 0,
              !.T1 = [type |-> type, first |-> TRUE, bit_pad |-> FALSE,
                      final |-> type \in {"CFG", "OUT"}]]

(* blkCnt blocks of bytes, each counted as byteCntAdd bytes.               *)
Process_Blocks(BB, ctx, bytes, blkCnt, byteCntAdd) ==
  LET Block(c, j) ==
        [c EXCEPT
           !.T0 = @ + byteCntAdd, !.T1.first = FALSE,
           !.X = Append(@, [ T0 |-> c.T0 + byteCntAdd, T1 |-> c.T1,
                             block |-> SubSeq(bytes, (j - 1) * BB + 1, j * BB) ])]
  IN FoldLeft(Block, ctx, [j \in 1 .. blkCnt |-> j])

Skein_256_Process_Block(ctx, bytes, blkCnt, byteCntAdd) ==
  Process_Blocks(BLOCK_BYTES(256), ctx, bytes, blkCnt, byteCntAdd)

Skein_512_Process_Block(ctx, bytes, blkCnt, byteCntAdd) ==
  Process_Blocks(BLOCK_BYTES(512), ctx, bytes, blkCnt, byteCntAdd)

Skein1024_Process_Block(ctx, bytes, blkCnt, byteCntAdd) ==
  Process_Blocks(BLOCK_BYTES(1024), ctx, bytes, blkCnt, byteCntAdd)

Process_Block(ctx, bytes, blkCnt, byteCntAdd) ==
  CASE ctx.skeinSize = 256 ->
         Skein_256_Process_Block(ctx, bytes, blkCnt, byteCntAdd)
    [] ctx.skeinSize = 512 ->
         Skein_512_Process_Block(ctx, bytes, blkCnt, byteCntAdd)
    [] ctx.skeinSize = 1024 ->
         Skein1024_Process_Block(ctx, bytes, blkCnt, byteCntAdd)

-----------------------------------------------------------------------------
(* Some bytes behind those of the buffer.                                  *)
Buffered(ctx, bytes) ==
  [ctx EXCEPT !.bCnt = @ + Len(bytes),
              !.b = [i \in DOMAIN @ |->
                       IF i - ctx.bCnt \in DOMAIN bytes
                       THEN bytes[i - ctx.bCnt] ELSE @[i]]]

(* Finish up the buffered data with the first bytes, if there are any.     *)
FinishBuffer(BB, ctx, n, msg) ==
  IF ctx.bCnt = 0 THEN ctx
  ELSE LET full == Buffered(ctx, SubSeq(msg, 1, n)) IN
       [Process_Block(full, full.b, 1, BB) EXCEPT !.bCnt = 0]

(* The blocks processed directly: one byte at least is left for the buffer.*)
DirectBlocks(BB, length) == IF length > BB THEN (length - 1) \div BB ELSE 0

(* The last block stays in the buffer: only the end knows it is the last.  *)
Update(BB, ctx, msg) ==
  IF Len(msg) + ctx.bCnt > BB
  THEN LET n == IF ctx.bCnt = 0 THEN 0 ELSE BB - ctx.bCnt
           rest == SubSeq(msg, n + 1, Len(msg))
           blocks == DirectBlocks(BB, Len(rest))
           finished == FinishBuffer(BB, ctx, n, msg)
           direct == IF blocks = 0 THEN finished
                     ELSE Process_Block(finished, rest, blocks, BB)
       IN Buffered(direct, SubSeq(rest, blocks * BB + 1, Len(rest)))
  ELSE Buffered(ctx, msg)

Skein_256_Update(ctx, msg) == Update(BLOCK_BYTES(256), ctx, msg)
Skein_512_Update(ctx, msg) == Update(BLOCK_BYTES(512), ctx, msg)
Skein1024_Update(ctx, msg) == Update(BLOCK_BYTES(1024), ctx, msg)

skeinUpdate(ctx, msg) ==
  CASE ctx.skeinSize = 256 -> Skein_256_Update(ctx, msg)
    [] ctx.skeinSize = 512 -> Skein_512_Update(ctx, msg)
    [] ctx.skeinSize = 1024 -> Skein1024_Update(ctx, msg)

(* A byte of which the first bits count, the next one marks their end.     *)
BitPadded(byte, bits) == -(8 * byte + bits)

(* A message of so many bits of the bytes of msg.                          *)
skeinUpdateBits(ctx, msg, msgBitCnt) ==
  IF msgBitCnt % 8 = 0 THEN skeinUpdate(ctx, msg)
  ELSE LET c == skeinUpdate(ctx, msg) IN
       [c EXCEPT !.T1.bit_pad = TRUE,
                 !.b[c.bCnt] = BitPadded(@, msgBitCnt % 8)]

-----------------------------------------------------------------------------
ZeroPadded(ctx) == [i \in DOMAIN ctx.b |-> IF i > ctx.bCnt THEN 0 ELSE ctx.b[i]]

(* Final_Pad: the final block, padded.                                     *)
Final_Pad(ctx) ==
  LET c == [ctx EXCEPT !.T1.final = TRUE, !.b = ZeroPadded(ctx)] IN
  Process_Block(c, c.b, 1, c.bCnt)

(* The first n bytes of chaining words.                                    *)
BytesOf(X, n) == [i \in 1 .. n |-> [X |-> X, at |-> i]]

Least(a, b) == IF a < b THEN a ELSE b

(* The output stage: the cipher in counter mode, from the same words each  *)
(* time.                                                                   *)
OutputStage(BB, ctx) ==
  LET byteCnt == (ctx.hashBitLen + 7) \div 8
      Counter(i) == WordOf(i) \o Zeros(BB - WordBytes)
      Block(i) == Process_Block([Start_New_Type(ctx, "OUT")
                                   EXCEPT !.b = Counter(i)],
                                Counter(i), 1, WordBytes)
      blocks == (byteCnt + BB - 1) \div BB
  IN [ ctx |-> [Block(blocks - 1) EXCEPT !.X = ctx.X],
       hash |-> FlattenSeq([j \in 1 .. blocks |->
                  BytesOf(Block(j - 1).X, Least(BB, byteCnt - (j - 1) * BB))]) ]

Skein_256_Output(ctx) == OutputStage(BLOCK_BYTES(256), ctx)
Skein_512_Output(ctx) == OutputStage(BLOCK_BYTES(512), ctx)
Skein1024_Output(ctx) == OutputStage(BLOCK_BYTES(1024), ctx)

Skein_256_Final_Pad(ctx) == Final_Pad(ctx)
Skein_512_Final_Pad(ctx) == Final_Pad(ctx)
Skein1024_Final_Pad(ctx) == Final_Pad(ctx)

(* Final does what Final_Pad and Output do, with the buffer cleared before *)
(* the counter goes into it.                                               *)
Skein_256_Final(ctx) == Skein_256_Output(Skein_256_Final_Pad(ctx))
Skein_512_Final(ctx) == Skein_512_Output(Skein_512_Final_Pad(ctx))
Skein1024_Final(ctx) == Skein1024_Output(Skein1024_Final_Pad(ctx))

skeinFinal(ctx) ==
  CASE ctx.skeinSize = 256 -> Skein_256_Final(ctx)
    [] ctx.skeinSize = 512 -> Skein_512_Final(ctx)
    [] ctx.skeinSize = 1024 -> Skein1024_Final(ctx)

-----------------------------------------------------------------------------
(* The block with the configuration, padded.                               *)
ConfigBlock(BB, hashBitLen) ==
  WordOf(SCHEMA_VER) \o WordOf(hashBitLen) \o Zeros(BB - 2 * WordBytes)

(* The chaining words from the configuration, and a new message.           *)
Configured(BB, ctx, hashBitLen) ==
  LET c == Start_New_Type([ctx EXCEPT !.hashBitLen = hashBitLen], "CFG") IN
  Start_New_Type(Process_Block(c, ConfigBlock(BB, hashBitLen), 1,
                               SKEIN_CFG_STR_LEN), "MSG")

(* Init; the precomputed chaining words of some lengths are taken to be    *)
(* those of the configuration block.                                       *)
Skein_256_Init(ctx, hashBitLen) ==
  Configured(BLOCK_BYTES(256), [ctx EXCEPT !.X = <<>>], hashBitLen)
Skein_512_Init(ctx, hashBitLen) ==
  Configured(BLOCK_BYTES(512), [ctx EXCEPT !.X = <<>>], hashBitLen)
Skein1024_Init(ctx, hashBitLen) ==
  Configured(BLOCK_BYTES(1024), [ctx EXCEPT !.X = <<>>], hashBitLen)

(* The key, hashed as a message of its own type, gives the first words.    *)
KeyProcessed(ctx, key) ==
  IF key = <<>> THEN [ctx EXCEPT !.X = <<>>]
  ELSE Final_Pad(skeinUpdate(Start_New_Type([ctx EXCEPT !.X = <<>>], "KEY"),
                             key))

Skein_256_InitExt(ctx, hashBitLen, key) ==
  Configured(BLOCK_BYTES(256), KeyProcessed(ctx, key), hashBitLen)
Skein_512_InitExt(ctx, hashBitLen, key) ==
  Configured(BLOCK_BYTES(512), KeyProcessed(ctx, key), hashBitLen)
Skein1024_InitExt(ctx, hashBitLen, key) ==
  Configured(BLOCK_BYTES(1024), KeyProcessed(ctx, key), hashBitLen)

Saved(ctx) == [ctx EXCEPT !.XSave = ctx.X]

skeinMacInit(ctx, key, hashBitLen) ==
  Saved(CASE ctx.skeinSize = 256 -> Skein_256_InitExt(ctx, hashBitLen, key)
          [] ctx.skeinSize = 512 -> Skein_512_InitExt(ctx, hashBitLen, key)
          [] ctx.skeinSize = 1024 -> Skein1024_InitExt(ctx, hashBitLen, key))

skeinInit(ctx, hashBitLen) == skeinMacInit(ctx, <<>>, hashBitLen)

(* Mutant: the chaining words are not put back.                            *)
skeinResetForgotten(ctx) == Start_New_Type(ctx, "MSG")

(* The same key and length for another message.                            *)
skeinReset(ctx) == Start_New_Type([ctx EXCEPT !.X = ctx.XSave], "MSG")

-----------------------------------------------------------------------------
(* macSkein.cpp: chunks of data are updates, a context is used again.      *)
createSkeinMacContext(key, mac_length, skeinSize) ==
  skeinMacInit(skeinCtxPrepare(skeinSize), key, mac_length)

macSkeinCtx(ctx, chunks) ==
  LET final == skeinFinal(FoldLeft(skeinUpdate, ctx, chunks)) IN
  [ctx |-> skeinReset(final.ctx), mac |-> final.hash]

macSkein(key, chunks, mac_length, skeinSize) ==
  macSkeinCtx(createSkeinMacContext(key, mac_length, skeinSize), chunks).mac

=============================================================================
