----------------------------- MODULE SrtpCrypto -----------------------------
(***************************************************************************)
(* What SRTP does to a packet in ccRTP: session keys, key streams and tags *)
(* (CryptoContext.cxx, crypto/gcrypt/gcryptAesSrtp.cxx,                    *)
(* crypto/gcrypt/gcrypthmac.cxx), and protect and unprotect of rtppkt.cpp. *)
(*                                                                         *)
(* The ciphers of the library are symbolic.  A byte of a key stream is     *)
(* named by the key, by what the block it is cut from was computed from,   *)
(* and by its place in the block; combining a cell with it twice takes it  *)
(* away again.  A tag is named by the key and by all it authenticates, a   *)
(* session key by the block and the length it was cut from.                *)
(***************************************************************************)
EXTENDS RtpPacket

CONSTANTS
  SRTP_BLOCK_SIZE,   \* cells a block of a cipher makes: 16 bytes
  SaltCells,         \* length of the session salt: 14 bytes
  KeyCells           \* length of the session key of the cipher: 16 bytes

ASSUME SrtpCryptoConstants ==
  /\ SRTP_BLOCK_SIZE \in Nat \ {0}
  /\ SaltCells \in Nat /\ KeyCells \in Nat

(* srtpEncrypt knows AES only: with a Twofish algorithm a packet is sent   *)
(* as it is.                                                               *)
Encryptions == {"AESCM", "AESF8", "TWOCM", "TWOF8"}
Authentications == {"Null", "Sha1Hmac", "SkeinHmac"}

Byte(key, iv, blocks, at) ==
  [key |-> key, iv |-> iv, blocks |-> blocks, at |-> at]

(* Counter mode: block j is made of the vector with j in its last bytes.   *)
get_ctr_cipher_stream(key, length, iv) ==
  [i \in 1 .. length |->
     Byte(key, iv, <<(i - 1) \div SRTP_BLOCK_SIZE>>, (i - 1) % SRTP_BLOCK_SIZE)]

(* F8: block j is made of the block before it, of the vector encrypted     *)
(* under the masked key, and of j.                                         *)
f8_stream(key, length, iv) ==
  LET j(i) == (i - 1) \div SRTP_BLOCK_SIZE IN
  [i \in 1 .. length |->
     Byte(key, iv, [b \in 1 .. j(i) + 1 |-> b - 1], (i - 1) % SRTP_BLOCK_SIZE)]

(* Cells combined with a stream, bit by bit.                               *)
Combined(cells, stream) ==
  [i \in DOMAIN cells |->
     [cells[i] EXCEPT !.mask = (@ \ {stream[i]}) \cup ({stream[i]} \ @)]]

-----------------------------------------------------------------------------
(* deriveSrtpKeys: the key stream of the master key from three vectors.    *)
computeIv(label, index, kdv) ==
  <<label, IF kdv = 0 THEN 0 ELSE index \div kdv>>

MasterKey == <<>>
SessionKey(label, index, kdv, length) == computeIv(label, index, kdv) \o <<length>>

k_e(index, kdv) == SessionKey(0, index, kdv, KeyCells)
k_a(index, kdv) == SessionKey(1, index, kdv, KeyCells)
k_s(index, kdv) == SessionKey(2, index, kdv, SaltCells)

(* takeInDataPacket and putData derive the keys of a source for index 0    *)
(* and no derivation rate: they are those of the template.                 *)
Keys == [e |-> k_e(0, 0), a |-> k_a(0, 0), s |-> k_s(0, 0)]

-----------------------------------------------------------------------------
(* Mutant: the source is not part of the vector.                           *)
counterVectorOfAll(ssrc, index) == Keys.s \o <<0, index>>

(* The vectors.  That of F8 is the header, with the counter of the context *)
(* and not that of the index.                                              *)
counterVector(ssrc, index) == Keys.s \o <<ssrc, index>>

f8Vector(p, roc) ==
  Keys.s \o p.buffer[KIND].v \o p.buffer[SEQUENCE].v \o p.buffer[TIMESTAMP].v
         \o p.buffer[SSRC].v \o <<roc>>

(* srtpEncrypt, by a context whose counter is roc: the payload and the     *)
(* padding.                                                                *)
srtpEncrypt(ealg, p, index, ssrc, roc) ==
  LET length == p.payloadSize + IF isPadded(p) THEN getPaddingSize(p) ELSE 0
      plain == SubSeq(p.buffer, p.hdrSize + 1, p.hdrSize + length)
  IN setbuffer(p,
       CASE ealg = "AESCM" -> Combined(plain,
              get_ctr_cipher_stream(Keys.e, length, counterVector(ssrc, index)))
         [] ealg = "AESF8" -> Combined(plain,
              f8_stream(Keys.e, length, f8Vector(p, roc)))
         [] OTHER -> plain,
       p.hdrSize)

getTagLength(aalg, tagLength) == IF aalg = "Null" THEN 0 ELSE tagLength

(* Mutant: the tag does not tell the counter.                              *)
srtpAuthenticateWithoutRoc(aalg, p, roc, tagLength) ==
  [i \in 1 .. getTagLength(aalg, tagLength) |->
     [v |-> <<i>>, mask |-> {},
      mac |-> <<[key |-> Keys.a, alg |-> aalg, over |-> getRawPacket(p),
                 roc |-> 0]>>]]

(* srtpAuthenticate: the digest of the packet and the counter under the    *)
(* authentication key, cut to the length of a tag.                         *)
srtpAuthenticate(aalg, p, roc, tagLength) ==
  [i \in 1 .. getTagLength(aalg, tagLength) |->
     [v |-> <<i>>, mask |-> {},
      mac |-> <<[key |-> Keys.a, alg |-> aalg, over |-> getRawPacket(p),
                 roc |-> roc]>>]]

=============================================================================
