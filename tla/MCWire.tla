------------------------------- MODULE MCWire -------------------------------
(***************************************************************************)
(* An instance for TLC of what ccRTP puts on the wire and takes from it:   *)
(* packets of data with their protection (SecurePath), compounds of        *)
(* control packets (RtcpCompound), the digests that authenticate (Digest), *)
(* and the queue that received packets go into (IncomingQueue).  In the    *)
(* models they share nothing: one of the four is at work, the others rest. *)
(*                                                                         *)
(* The queue has a remote source and the local one, two addresses and three*)
(* links at a time; sequence numbers are modulo 4, so that they wrap.      *)
(***************************************************************************)
EXTENDS Digest, SecurePath, RtcpCompound, IncomingQueue

VARIABLE part

vars == <<part, digestVars, secureVars, compoundVars, recvVars>>

(* One block of each size, keys of none up to two blocks of bytes, digests *)
(* of one block and more.                                                  *)
MCUses ==
  {Md5Use} \cup {SkeinUse(s, k, b) :
                 s \in {256, 512, 1024}, k \in {0, 1, 4, 8, 9}, b \in {16, 33, 144}}

Setup(srtp, ealg, aalg, layout, paddinglen, payload) ==
  [ srtp |-> srtp, ealg |-> ealg, aalg |-> aalg, layout |-> layout,
    paddinglen |-> paddinglen, size |-> 3, marker |-> 1, payload |-> payload ]

(* Every pair of algorithms; every layout with padding and without, with   *)
(* SRTP and without; and a payload type that reads as a control packet.    *)
MCSetups ==
  {Setup(TRUE, e, a, "sources", 0, 14) :
     e \in Encryptions, a \in Authentications}
  \cup {Setup(srtp, "AESCM", "SkeinHmac", l, pad, 14) :
          srtp \in BOOLEAN, l \in {"data", "extension"}, pad \in {0, 4}}
  \cup {Setup(FALSE, "AESCM", "Null", "data", 0, 72)}

Items(name, types) ==
  [t \in ItemTypes |-> CASE t = CNAME -> name
                         [] t \in types -> [i \in 1 .. 1 + (t % 3) |-> 50 + t]
                         [] OTHER -> <<>>]

(* No item but the name, and so many sources that reports are repeated;    *)
(* three items that take turns; one that does, and one that has none.      *)
MCConfigurations ==
  { [items |-> Items(<<7>>, {}), reported |-> 3],
    [items |-> Items(<<7, 8>>, {NAME, 5, PRIV}), reported |-> 1],
    [items |-> Items(<<7, 8, 9, 10>>, {3, 9}), reported |-> 0] }

MCReasons == {<<>>, <<33, 34, 35>>}

(* A part that rests has one of its initial states.                        *)
DigestRests ==
  /\ use = Md5Use /\ context = M!NewDigest
  /\ message = <<>> /\ partial = 0 /\ digest = None

SecureRests ==
  /\ SecureInit /\ setup = Setup(FALSE, "AESCM", "Null", "data", 0, 72)

CompoundRests ==
  /\ CompoundInit /\ application[CNAME] = <<7>>

Init ==
  /\ RecvInit
  /\ \/ part = "digest" /\ DigestInit /\ SecureRests /\ CompoundRests
     \/ part = "secure" /\ DigestRests /\ SecureInit /\ CompoundRests
     \/ part = "compound" /\ DigestRests /\ SecureRests /\ CompoundInit
     \/ part = "queue" /\ DigestRests /\ SecureRests /\ CompoundRests

Next ==
  /\ UNCHANGED part
  /\ \/ /\ part = "digest" /\ DigestNext
        /\ UNCHANGED <<secureVars, compoundVars, recvVars>>
     \/ /\ part = "secure" /\ SecureNext
        /\ UNCHANGED <<digestVars, compoundVars, recvVars>>
     \/ /\ part = "compound" /\ CompoundNext
        /\ UNCHANGED <<digestVars, secureVars, recvVars>>
     \/ /\ part = "queue" /\ RecvNext
        /\ UNCHANGED <<digestVars, secureVars, compoundVars>>

Spec == Init /\ [][Next]_vars

=============================================================================
