\* The deployed sensor receiving a frame tagged 3, a rule slot never filled.
CONSTANTS
  Rules <- InitializedRules
  ScanBound = 1
  DevEui <- MCDevEui
  Packets <- MCPackets
  Downlinks <- MCDownlinksUnknownTag
  NoPacket = NoPacket
SPECIFICATION Spec
INVARIANTS
  UnknownTagRejected
