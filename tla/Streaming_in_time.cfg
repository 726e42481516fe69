SPECIFICATION FairSpec
CONSTANTS
  ChirpsPerFrame = 3
  FrameCounts = {0, 1, 3}
  CounterMod = 4
  CubeBytes = 20
  MAX_SPI_TRANSFER_SIZE = 8
  InitialPins <- MCPins
  HostIsSlow = TRUE
  CanFail = FALSE
  CycleFits = TRUE
  MayFail <- MCNone
CHECK_DEADLOCK TRUE
INVARIANTS WholeFrame PinHighWhileFilling
PROPERTIES FramesInOrder FrameReachesHost
