\* The codec with every field of rule 1 sent, one packet per run.
CONSTANTS
  Rules <- MCAllSentRules
  ScanBound = 1
  DevEui <- MCDevEui
  TestPackets <- MCTestPackets
SPECIFICATION CheckSpec
INVARIANTS
  ResidueSound
