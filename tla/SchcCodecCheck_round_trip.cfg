\* The codec of the deployed rules, one packet of MCTestPackets per run.
CONSTANTS
  Rules <- InitializedRules
  ScanBound = 1
  DevEui <- MCDevEui
  TestPackets <- MCTestPackets
SPECIFICATION CheckSpec
INVARIANTS
  RoundTrip
