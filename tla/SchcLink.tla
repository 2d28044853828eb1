----------------------------- MODULE SchcLink -----------------------------
(***************************************************************************)
(* What the SCHC interface promises the IP stack above it, with the codec  *)
(* left out: packets handed down may be lost, duplicated or reordered on   *)
(* the radio link, but a packet of the node that reaches ip6_input again   *)
(* is the packet that was sent (spec 4.2, 4.3, 8: round trip and           *)
(* passthrough fidelity).  The one field decompression may rewrite is the  *)
(* UDP checksum, which it sets to 0 (spec 4.3 step 4).  Frames from the    *)
(* network may carry any packet.                                           *)
(***************************************************************************)
EXTENDS SchcPackets

CONSTANTS Packets, NoPacket

VARIABLES
  sent,       \* packets handed to the interface so far
  delivered   \* the last packet handed to ip6_input, with the packet it came from

\* Bytes 47 and 48 of the wire layout hold the UDP checksum.
ChecksumBytes == 47 .. 48

\* out is pkt rebuilt: equal byte for byte, except a checksum set to 0.
Rebuilt(pkt, out) ==
  /\ Len(out) = Len(pkt)
  /\ \A i \in 1 .. Len(pkt) : out[i] = pkt[i] \/ (i \in ChecksumBytes /\ out[i] = 0)

Init ==
  /\ sent = {}
  /\ delivered = [orig |-> NoPacket, bytes |-> <<>>]

Send(pkt) ==
  /\ sent' = sent \cup {pkt}
  /\ UNCHANGED delivered

\* A packet of the node comes back, any number of times, in any order.
Deliver ==
  /\ \E pkt \in sent : delivered'.orig = pkt /\ Rebuilt(pkt, delivered'.bytes)
  /\ UNCHANGED sent

\* A frame of the network: any packet.
Inject ==
  /\ delivered'.orig = NoPacket
  /\ delivered'.bytes \in Seq(Byte)
  /\ UNCHANGED sent

Next == (\E pkt \in Packets : Send(pkt)) \/ Deliver \/ Inject

Spec == Init /\ [][Next]_<<sent, delivered>>
=============================================================================
