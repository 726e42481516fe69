SPECIFICATION Spec
CONSTANTS
  ChirpsPerFrame = 3
  FrameCounts = {0, 1, 3}
  CounterMod = 4
  CubeBytes = 20
  MAX_SPI_TRANSFER_SIZE = 8
  InitialPins <- MCPins
  HostIsSlow = FALSE
  CanFail = TRUE
  CycleFits = FALSE
  MayFail <- MCCalls
CHECK_DEADLOCK FALSE
INVARIANTS TypeOK CubeExclusive NoLostPost SleepersAreOwed SensorStartsLast
PROPERTIES ImplementsHandover KeepsContract
