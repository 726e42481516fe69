SPECIFICATION PoolSpec
CONSTANTS
  PoolAddr = 3
  PoolSize = 14
  AddrMod = 64
  Requests <- MCRequests
INVARIANTS PoolTypeOK BlocksInside BlocksDisjoint
