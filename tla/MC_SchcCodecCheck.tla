------------------------- MODULE MC_SchcCodecCheck -------------------------
(***************************************************************************)
(* Packets for the codec contracts: the scenarios of the codec's test     *)
(* cases (a rule-1 uplink, the same with hop limit 64, a rule-2 shaped     *)
(* packet, a TCP packet) with the deployed rules.                          *)
(***************************************************************************)
EXTENDS SchcCodecCheck

MCDevEui == SensorIID

MCTestPackets ==
  { MkPacket(0, 0, 17, 255, SensorAddr, ServerAddr, 1086, 5683, <<\h51>>),
    MkPacket(0, 0, 17, 64, SensorAddr, ServerAddr, 1086, 5683, <<\h51>>),
    MkPacket(0, 0, 17, 64, ServerAddr, SensorAddr, 5683, 1086, <<\h51>>),
    MkPacket(0, 0, 6, 255, SensorAddr, ServerAddr, 1086, 5683, <<\h51>>) }

\* The rule set as the code allows it to be updated (the rules are globals
\* "so they can be changed or updated via an external method"): rule 1
\* with every field ignored and sent, the widest residue a rule can ask for.
MCAllSentRules ==
  [InitializedRules EXCEPT
     ![0] = [f \in Fields |-> [@[f] EXCEPT !.mo = "ignore", !.act = "VALUESENT"]]]
=============================================================================
