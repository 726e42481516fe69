---------------------------- MODULE RangeConfig ----------------------------
(***************************************************************************)
(* The boot, continued: dpcTask() up to the hand-over to the streaming     *)
(* loop, with RangeProc_config() (src/rangeproc_dpc.c), on top of what     *)
(* SensorSetup has set up and of two memory pools (MemPool).  Streaming    *)
(* goes on from there.                                                     *)
(***************************************************************************)
EXTENDS SensorSetup, DpuRes, FiniteSetsExt

CONSTANTS
  LocalAddr, LocalSize,   \* gMmwCoreLocMem
  L3Addr, L3Size,         \* gMmwL3
  AddrMod                 \* 2^32, see MemPool

VARIABLES
  localCurr, localMax, localBlocks,   \* gSysContext.CoreLocalRamObj
  l3Curr, l3Max, l3Blocks,            \* gSysContext.L3RamObj
  dpuCfg,       \* gSysContext.rangeProcDpuCfg
  dpuReady      \* the DPU accepted dpuCfg

\* mathUtils_pow2roundup()
PowersFrom(n) == {p \in {2^k : k \in 0..15} : n <= p}

Pow2RoundUp(n) == Min(PowersFrom(n))

\* CLI_NUM_RBINS
NumRangeBins(samples) == Pow2RoundUp(samples) \div 2

WindowSize(samples) == 4 * ((samples + 1) \div 2)

\* The request for the window, and for the cube, of a header.
WindowRequest(c) == [size |-> WindowSize(c.samples), align |-> 4]

CubeRequest(c) ==
  [size  |-> NumRangeBins(c.samples) * (Cardinality(c.tx) * Cardinality(c.rx)) * 4
               * ((c.bursts * c.chirpsPerBurst) \div Cardinality(c.tx)),
   align |-> 4]

local == INSTANCE MemPool WITH
  PoolAddr <- LocalAddr, PoolSize <- LocalSize,
  Requests <- {WindowRequest(c) : c \in Configs},
  currAddr <- localCurr, maxCurrAddr <- localMax, blocks <- localBlocks

l3 == INSTANCE MemPool WITH
  PoolAddr <- L3Addr, PoolSize <- L3Size, Requests <- {CubeRequest(c) : c \in Configs},
  currAddr <- l3Curr, maxCurrAddr <- l3Max, blocks <- l3Blocks

(***************************************************************************)
(* There is a bin for every header, and a power of two in 16 bits from its *)
(* number of samples on; no window and no cube is so large that an address *)
(* wraps.                                                                  *)
(***************************************************************************)
ASSUME RangeAssumption ==
  /\ \A c \in Configs : 2 <= c.samples /\ c.samples <= 2^15
  /\ local!PoolConstants
  /\ l3!PoolConstants

poolVars  == <<localCurr, localMax, localBlocks, l3Curr, l3Max, l3Blocks>>
rangeVars == <<poolVars, dpuCfg, dpuReady>>
bootVars  == <<sensorVars, rangeVars>>

NULL == 0

\* After the memset at the top of RangeProc_config(), and before it.
NoDpuCfg ==
  [numTx |-> 0, numVirtual |-> 0, numRangeBins |-> 0, numChirps |-> 0, numDoppler |-> 0,
   bpm |-> FALSE, windowSize |-> 0, window |-> NULL, fftSize |-> 0,
   rxChanOffset |-> [i \in RxChannels |-> 0], edma |-> <<>>, cubeSize |-> 0,
   cube |-> NULL]

RangePc == {"reset", "window", "adcData", "edma", "cube", "dpuConfig", "post"}

RangeTypeOK ==
  /\ SensorTypeOK
  /\ pc \in MainPc \cup RangePc
  /\ local!PoolTypeOK /\ l3!PoolTypeOK
  /\ DOMAIN dpuCfg = DOMAIN NoDpuCfg
  /\ dpuCfg.rxChanOffset \in [RxChannels -> Nat]
  /\ dpuReady \in BOOLEAN

RangeInit ==
  /\ SensorInit
  /\ local!Init /\ l3!Init
  /\ dpuCfg = NoDpuCfg
  /\ dpuReady = FALSE

-----------------------------------------------------------------------------
(* A *Fault operator is a plausible slip in the definition that follows    *)
(* it; nothing uses it.                                                    *)

ResetPoolsFault ==
  /\ Succeeds("createDpc", "reset")
  /\ l3!Reset
  /\ UNCHANGED <<localCurr, localMax, localBlocks, dpuCfg, dpuReady>>

\* The main task has created dpcTask() and waits for it.
ResetPools ==
  /\ Succeeds("createDpc", "reset")
  /\ l3!Reset
  /\ local!Reset
  /\ UNCHANGED <<dpuCfg, dpuReady>>

(***************************************************************************)
(* The antennas come from gSysContext, everything else from defines.h.     *)
(* c_ChirpTxMimoPatSel picks TDM or BPM, and anything else ends the        *)
(* program.                                                                *)
(***************************************************************************)
BeginConfig ==
  LET chirps == cfg.bursts * cfg.chirpsPerBurst
  IN  /\ pc = "reset"
      /\ pc' = IF cfg.mimo \in {0, 1, 4} THEN "window" ELSE "halted"
      /\ dpuCfg' = [NoDpuCfg EXCEPT
                      !.numTx        = numTx,
                      !.numVirtual   = numTx * numRx,
                      !.numRangeBins = NumRangeBins(cfg.samples),
                      !.numChirps    = chirps,
                      !.numDoppler   = chirps \div numTx,
                      !.bpm          = cfg.mimo = 4]
      /\ UNCHANGED <<poolVars, dpuReady>>

\* Without room for the window RangeProc_config() returns, and its caller goes on.
AllocWindow ==
  LET r == WindowRequest(cfg)
  IN  /\ pc = "window"
      /\ pc' = IF local!Result(r) = NULL THEN "post" ELSE "adcData"
      /\ local!Alloc(r)
      /\ dpuCfg' = [dpuCfg EXCEPT !.windowSize = r.size, !.window = local!Result(r)]
      /\ UNCHANGED <<l3Curr, l3Max, l3Blocks, dpuReady>>

BytesPerRxChan(samples) == ((samples * 2 + 15) \div 16) * 16

SetAdcData ==
  /\ Succeeds("adcData", "edma")
  /\ dpuCfg' = [dpuCfg EXCEPT
                  !.fftSize      = cfg.samples,
                  !.rxChanOffset = [i \in RxChannels |-> i * BytesPerRxChan(cfg.samples)]]
  /\ UNCHANGED <<poolVars, dpuReady>>

\* A copy left as it was pasted: path 1 has a transfer of path 0.
EdmaCfgFault ==
  [dataIn |-> RANGEPROC.dataIn, dataInSignature |-> RANGEPROC.dataInSignature,
   evtDecim0     |-> RANGEPROC.decimPing, evtDecim1     |-> RANGEPROC.decimPong,
   dataOutMinor0 |-> RANGEPROC.minorPing, dataOutMinor1 |-> RANGEPROC.minorPing,
   dataOutMajor0 |-> RANGEPROC.majorPing, dataOutMajor1 |-> RANGEPROC.majorPong]

\* edmaInCfg and the two paths of edmaOutCfg, copied from the table one by one.
EdmaCfg ==
  [dataIn |-> RANGEPROC.dataIn, dataInSignature |-> RANGEPROC.dataInSignature,
   evtDecim0     |-> RANGEPROC.decimPing, evtDecim1     |-> RANGEPROC.decimPong,
   dataOutMinor0 |-> RANGEPROC.minorPing, dataOutMinor1 |-> RANGEPROC.minorPong,
   dataOutMajor0 |-> RANGEPROC.majorPing, dataOutMajor1 |-> RANGEPROC.majorPong]

SetEdma ==
  /\ Succeeds("edma", "cube")
  /\ dpuCfg' = [dpuCfg EXCEPT !.edma = EdmaCfg]
  /\ UNCHANGED <<poolVars, dpuReady>>

CubeSizeFault(c) == NumRangeBins(cfg.samples) * c.numVirtual * 4 * c.numChirps

CubeSize(c) == NumRangeBins(cfg.samples) * c.numVirtual * 4 * c.numDoppler

\* The result of the allocation is not looked at.
AllocCube ==
  LET r == [size |-> CubeSize(dpuCfg), align |-> 4]
  IN  /\ Succeeds("cube", "dpuConfig")
      /\ l3!Alloc(r)
      /\ dpuCfg' = [dpuCfg EXCEPT !.cubeSize = r.size, !.cube = l3!Result(r)]
      /\ UNCHANGED <<localCurr, localMax, localBlocks, dpuReady>>

\* The failure noted and nothing done about it.
DpuConfigFault ==
  /\ \/ Succeeds("dpuConfig", "post") /\ dpuReady' = TRUE
     \/ Fails("rangeDpu", "dpuConfig", "post") /\ UNCHANGED dpuReady
  /\ UNCHANGED <<poolVars, dpuCfg>>

DpuConfig ==
  /\ \/ Succeeds("dpuConfig", "post") /\ dpuReady' = TRUE
     \/ Fails("rangeDpu", "dpuConfig", "halted") /\ UNCHANGED dpuReady
  /\ UNCHANGED <<poolVars, dpuCfg>>

RangeStep ==
  \/ ResetPools \/ BeginConfig \/ AllocWindow \/ SetAdcData \/ SetEdma
  \/ AllocCube \/ DpuConfig

\* What the main task has set up: all of sensorVars but pc.
setupVars == <<inputVars, handles, gSysVars, adcReg, fecss, calVars>>

BootNext ==
  \/ SensorNext /\ UNCHANGED rangeVars
  \/ RangeStep /\ UNCHANGED setupVars

BootSpec == RangeInit /\ [][BootNext]_bootVars

-----------------------------------------------------------------------------
(***************************************************************************)
(* DPU_RangeProcHWA_config() is given memory for the window and for the    *)
(* cube, and when dpcTask() reports that the configuration is done the DPU *)
(* has been configured.  The allocator returns a block or NULL             *)
(* (include/mem_pool.h); RangeProc_config() looks at only one of its two   *)
(* results, and returns nothing itself.                                    *)
(***************************************************************************)
DpuGetsMemory ==
  /\ pc \in {"dpuConfig", "post"} => dpuCfg.window # NULL /\ dpuCfg.cube # NULL
  /\ pc = "post" => dpuReady

(***************************************************************************)
(* The cube a configured DPU writes and spiTask() sends is a block of L3,  *)
(* inside it, of the size of what the front end produces: every chirp of   *)
(* the frame it was configured with (but for an incomplete last set of one *)
(* chirp per transmitter), every channel that is powered, 4 bytes per bin, *)
(* and with a bin for every one the FFT of the samples yields.             *)
(***************************************************************************)
CubeHoldsFrame ==
  dpuReady /\ dpuCfg.cube # NULL =>
    LET f      == fecss.cfg.frame
        chirps == f.chirpsPerBurst * f.bursts
        sets   == chirps \div Cardinality(fecss.channels.tx)
    IN  /\ l3!BlocksInside
        /\ 2 * dpuCfg.numRangeBins >= dpuCfg.fftSize
        /\ \E b \in l3Blocks :
             /\ b.addr = dpuCfg.cube
             /\ b.size = sets * Cardinality(fecss.channels.tx)
                           * Cardinality(fecss.channels.rx)
                           * NumRangeBins(fecss.cfg.profile.samples) * 4

(***************************************************************************)
(* No two transfers share an EDMA channel or a shadow set, neither of the  *)
(* configured DPU nor with the ones the table keeps for other DPUs: the    *)
(* driver would reload the one with the parameters of the other.           *)
(***************************************************************************)
EdmaDisjoint ==
  dpuReady =>
    /\ \A t, u \in DOMAIN dpuCfg.edma :
         t # u => Disjoint(dpuCfg.edma[t], dpuCfg.edma[u])
    /\ \A t \in Transfers(dpuCfg.edma) :
         \A u \in Transfers(DOAPROC) \cup Transfers(CFAR_PROC) \cup Transfers(UDOP_PROC) :
           Disjoint(t, u)

(***************************************************************************)
(* dpcTask() uses the pools as they are meant to be used: either is reset  *)
(* before anything is asked of it, is asked only what the header calls     *)
(* for, and nobody moves its running address in between.                   *)
(***************************************************************************)
UsesPools == local!PoolSpec /\ l3!PoolSpec

Contract == INSTANCE ConfigContract WITH
  CubeSizes <- {n \in Nat : n % 4 = 0}, reported <- (pc = "post"), ready <- dpuReady,
  size <- dpuCfg.cubeSize

(***************************************************************************)
(* When dpcTask() posts dpcCfgDoneSemHandle the configuration is settled:  *)
(* a cube of any bytes, always whole words, has a DPU that accepted it.    *)
(***************************************************************************)
KeepsContract == Contract!Spec

(***************************************************************************)
(* The DPU reads the samples of an RX channel where the ADC buffer puts    *)
(* them: channels follow one another, each with the "Size of data per      *)
(* channel" (src/mmwave_control_config.c) behind it.                       *)
(***************************************************************************)
AdcLayoutAgrees ==
  dpuReady =>
    \A c \in channelCfg.rx :
      adcReg[c] * 16 = dpuCfg.rxChanOffset[Cardinality({d \in channelCfg.rx : d < c})]
=============================================================================
