------------------------------ MODULE RtpStream ------------------------------
(***************************************************************************)
(* What the RTP server promises its listeners, without its loop, pipes or  *)
(* commands.  Destination d has last received the packet received[d].      *)
(* A delivery gives one destination the next packet of the one stream they *)
(* all share: sequence number and timestamp follow those of the packet it  *)
(* has, nobody is left two packets behind, and whoever already got that    *)
(* packet got the same one.                                                *)
(***************************************************************************)
EXTENDS Integers

CONSTANTS
  HowMany,   \* number of destinations (connection->howmany)
  SeqMod,    \* sequence numbers wrap here (2^16)
  TsMod,     \* timestamps wrap here (2^32)
  TsInc,     \* timestamp increment of a packet
  Payloads   \* what a packet can carry

VARIABLE received

Destinations == 1 .. HowMany

Packets ==
  [seq_no : 0 .. SeqMod - 1, timestamp : 0 .. TsMod - 1, payload : Payloads]

(* What a destination has before the first packet.                         *)
NoPacket == [seq_no |-> -1, timestamp |-> -1, payload |-> <<>>]

(* Packet q comes right after p; the first one has number 0 at time 0.     *)
Follows(q, p) ==
  IF p = NoPacket
    THEN q.seq_no = 0 /\ q.timestamp = 0
    ELSE /\ q.seq_no = (p.seq_no + 1) % SeqMod
         /\ q.timestamp = (p.timestamp + TsInc) % TsMod

Init == received = [d \in Destinations |-> NoPacket]

Deliver(d) ==
  \E q \in Packets :
    /\ Follows(q, received[d])
    /\ \A e \in Destinations : received[e] \in {received[d], q}
    /\ received' = [received EXCEPT ![d] = q]

Next == \E d \in Destinations : Deliver(d)

Spec == Init /\ [][Next]_received

=============================================================================
