---------------------------- MODULE MC_SchcNode ----------------------------
(***************************************************************************)
(* The sensor of the deployment: the rules of initializeRules(), the scan  *)
(* bound of the code, the packets its IP stack emits and the frames its    *)
(* network server may send down.                                           *)
(***************************************************************************)
EXTENDS SchcNode, SchcPackets

\* The DevEUI is taken to be the interface identifier of SensorAddr
\* (Comissioning.h, which defines DevEuiArray, is not in the repository).
MCDevEui == SensorIID

\* The CoAP uplink of coapClient.c (1086 -> 5683, hop limit UDP_TTL 255),
\* with and without payload, one with a DSCP/flow label, one to another
\* port, and an ICMPv6 packet (next header 58): the last three match no rule.
MCPackets ==
  { MkPacket(0, 0, 17, 255, SensorAddr, ServerAddr, 1086, 5683, <<>>),
    MkPacket(0, 0, 17, 255, SensorAddr, ServerAddr, 1086, 5683, <<\h51, \h02>>),
    MkPacket(\hB8, \h12345, 17, 255, SensorAddr, ServerAddr, 1086, 5683, <<\h51>>),
    MkPacket(0, 0, 17, 255, SensorAddr, ServerAddr, 1086, 5684, <<\h51>>),
    MkPacket(0, 0, 58, 255, SensorAddr, ServerAddr, 0, 0, <<>>) }

\* Downlinks: rule-2 frames with and without payload, a rule-1 frame and an
\* uncompressed downlink behind a 0 tag.
MCDownlinks ==
  { <<2, \h60, \h45>>, <<2>>, <<1, \h07>>,
    <<0>> \o MkPacket(\h20, 7, 17, 64, ServerAddr, SensorAddr, 5683, 1086, <<\h44>>) }

\* A downlink with tag 3: rules[2] exists but initializeRules() never fills it.
MCDownlinksUnknownTag == MCDownlinks \cup { <<3, \h60>> }
=============================================================================
