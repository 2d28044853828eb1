------------------------------ MODULE SchcNode ------------------------------
(***************************************************************************)
(* The sensor's SCHC network interface (schcCompressor.c over              *)
(* virtualloraif.c) as a state machine.  The IP stack hands IPv6/UDP       *)
(* packets to schc_output, which compresses them into the global header    *)
(* context and sends the frame over the LoRa link; frames received from    *)
(* the link go through schc_input, which decompresses them through the     *)
(* same global context and hands the rebuilt packet to ip6_input.          *)
(*                                                                         *)
(* Both handlers run to completion in the NO_SYS main loop                 *)
(* (lwipopts.h: NO_SYS 1), so each is one atomic step; what one leaves in  *)
(* the shared context is what the next one starts from.  The link may lose,*)
(* duplicate and reorder frames: a sent frame stays on the air and may be  *)
(* received any number of times.  Frames the node sent are received back   *)
(* by the same decompressor (the paired decompressor of the round trip),   *)
(* next to the downlink frames a network server may send.                  *)
(***************************************************************************)
EXTENDS SchcCodec, SchcPackets

CONSTANTS
  Packets,    \* IPv6/UDP packets the IP stack may pass to schc_output
  Downlinks,  \* frames the network may deliver to the node
  NoPacket    \* ghost marker: a frame that no packet of the node produced

ASSUME \A pkt \in Packets : Len(pkt) >= 48
ASSUME \A fr \in Downlinks : Len(fr) \in 1 .. 240

VARIABLES
  ctx,        \* the globals ipv6_header and udp_header
  air,        \* frames sent by low_level_output, with the packet they carry
  delivered   \* history: the last packet schc_input handed to ip6_input

vars == <<ctx, air, delivered>>

NoDelivery == [frame |-> <<>>, orig |-> NoPacket, size |-> 0, bytes |-> <<>>]

Init ==
  /\ ctx = ZeroContext
  /\ air = {}
  /\ delivered = NoDelivery

(***************************************************************************)
(* schc_frag -> netif->linkoutput = low_level_output: the frame is copied  *)
(* into AppData, which the LoRaMAC layer transmits.                        *)
(***************************************************************************)
LowLevelOutput(frame, orig) ==
  air' = air \cup {[frame |-> frame, orig |-> orig]}

(***************************************************************************)
(* schc_output(netif, p): parse the header into the globals, compress and  *)
(* hand p_compressed to the link.                                          *)
(***************************************************************************)
SchcOutput(pkt) ==
  /\ ctx' = ParseHeader(pkt)
  /\ LowLevelOutput(OutputFrame(pkt), pkt)
  /\ UNCHANGED delivered

\* low_level_input: a pbuf of AppDataSize (uint8_t) bytes copied from AppData.
LowLevelInput(fr) == SubSeq(fr, 1, Len(fr) % 256)

(***************************************************************************)
(* virtualloraif_input -> low_level_input -> netif->input = schc_input:    *)
(* the frame is decompressed (tag > 0) or stripped of its tag (tag 0) and  *)
(* the new pbuf q goes to ip6_input.                                       *)
(***************************************************************************)
VirtualLoraIfInput(fr, orig) ==
  LET p == LowLevelInput(fr)
      r == SchcInputResult(ctx, p)
  IN  /\ ctx' = r.ctx
      /\ delivered' = [frame |-> p, orig |-> orig, size |-> r.size, bytes |-> r.bytes]
      /\ UNCHANGED air

Next ==
  \/ \E pkt \in Packets : SchcOutput(pkt)
  \/ \E m \in air : VirtualLoraIfInput(m.frame, m.orig)
  \/ \E fr \in Downlinks : VirtualLoraIfInput(fr, NoPacket)

Spec == Init /\ [][Next]_vars

-----------------------------------------------------------------------------
\* The tag byte of the frame a delivery came from.
Tag(d) == GetAt(d.frame, 0)
\* A delivery of a frame the node itself sent (orig known).
FromNode(d) == d # NoDelivery /\ d.orig # NoPacket

(***************************************************************************)
(* The interface implements the abstract link of SchcLink: the packets     *)
(* handed down are those of the frames on the air, and every frame of the  *)
(* node that schc_input turns back into a packet (compressed or           *)
(* passthrough, after any interleaving of other frames through the shared *)
(* header context) rebuilds the packet sent, up to a zeroed UDP checksum. *)
(***************************************************************************)
Link == INSTANCE SchcLink WITH
          sent <- {m.orig : m \in air},
          delivered <- [orig |-> delivered.orig, bytes |-> delivered.bytes]

LinkSpec == Link!Spec

(***************************************************************************)
(* The packet rebuilt from any compressed frame, the node's or the         *)
(* network's, fills its pbuf exactly: the recomputed IPv6 payload length   *)
(* sizes q so that the 48 header bytes and the remaining frame bytes fit,  *)
(* and the UDP length agrees with it.                                      *)
(***************************************************************************)
RebuiltLengthsConsistent ==
  delivered # NoDelivery /\ Tag(delivered) > 0 =>
    /\ Len(delivered.bytes) = delivered.size
    /\ WireField(delivered.bytes, 3) = delivered.size - 40
    /\ WireField(delivered.bytes, 16) = delivered.size - 40

(***************************************************************************)
(* No state leaks between packets through the shared ipv6_header and       *)
(* udp_header: what ip6_input receives for a frame is what schc_input      *)
(* would build from that frame in a fresh context.                         *)
(***************************************************************************)
NoStaleContext ==
  delivered # NoDelivery =>
    LET fresh == SchcInputResult(ZeroContext, delivered.frame)
    IN  delivered.bytes = fresh.bytes /\ delivered.size = fresh.size

(***************************************************************************)
(* A frame whose tag names no rule of initializeRules() (spec: reject      *)
(* with UnknownRuleTag) never yields a packet for ip6_input.               *)
(***************************************************************************)
UnknownTagRejected ==
  delivered # NoDelivery => Tag(delivered) \in 0 .. DefinedRuleCount
=============================================================================
