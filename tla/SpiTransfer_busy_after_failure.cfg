\* A transfer may fail.
SPECIFICATION Spec
CONSTANTS
  MAX_SPI_TRANSFER_SIZE = 8
  Sizes <- MCSizes
  InitialPins <- MCPins
  HostIsSlow = FALSE
  CanFail = TRUE
INVARIANTS PinHighBetweenCalls
