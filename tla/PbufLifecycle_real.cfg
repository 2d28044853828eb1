\* The deployed configuration: PBUF_POOL_SIZE of lwipopts.h, every frame shape; the node stops after a NULL dereference.
CONSTANTS
  PBUF_POOL_SIZE = 2
  PBUF_POOL_BUFSIZE = 592
  Frames = {"compressed", "uncompressed", "echo"}
  FrameLens = {0, 1, 49, 240}
CHECK_DEADLOCK FALSE
SPECIFICATION Spec
INVARIANTS
  IdlePoolFull
  AppDataFits
PROPERTIES
  BuffersReleased
