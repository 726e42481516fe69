\* Transfers may fail, the host may read at any time, the pin starts anywhere.
SPECIFICATION FairSpec
CONSTANTS
  MAX_SPI_TRANSFER_SIZE = 8
  Sizes <- MCSizes
  InitialPins <- MCPins
  HostIsSlow = FALSE
  CanFail = TRUE
INVARIANTS SpiTypeOK ChunksTile SuccessMeansAllSent
PROPERTIES ImplementsStream CallReturns
