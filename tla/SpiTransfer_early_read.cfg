\* The host reads as soon as it sees SPI_BUSY low.
SPECIFICATION Spec
CONSTANTS
  MAX_SPI_TRANSFER_SIZE = 8
  Sizes <- MCSizes
  InitialPins <- MCHigh
  HostIsSlow = FALSE
  CanFail = FALSE
INVARIANTS LowMeansReadable
