SPECIFICATION BootSpec
CONSTANTS
  Configs <- TooLarge
  MayFail = {}
  ChecksProfile = TRUE
  LocalAddr = 65536
  LocalSize = 28672
  L3Addr = 1048576
  L3Size = 425984
  AddrMod = 1073741824
CHECK_DEADLOCK FALSE
INVARIANTS DpuGetsMemory
