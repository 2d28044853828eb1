\* The deployed sensor receiving a frame tagged 3: the rebuilt header takes
\* its lengths from whatever the previous packet left in the globals.
CONSTANTS
  Rules <- InitializedRules
  ScanBound = 1
  DevEui <- MCDevEui
  Packets <- MCPackets
  Downlinks <- MCDownlinksUnknownTag
  NoPacket = NoPacket
SPECIFICATION Spec
INVARIANTS
  NoStaleContext
