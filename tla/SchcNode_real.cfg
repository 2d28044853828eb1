\* The deployed sensor: rules of initializeRules(), scan bound of the code.
CONSTANTS
  Rules <- InitializedRules
  ScanBound = 1
  DevEui <- MCDevEui
  Packets <- MCPackets
  Downlinks <- MCDownlinks
  NoPacket = NoPacket
SPECIFICATION Spec
INVARIANTS
  RebuiltLengthsConsistent
  NoStaleContext
PROPERTIES
  LinkSpec
