-------------------------- MODULE Streaming_proofs --------------------------
(***************************************************************************)
(* The streaming pipeline for every number of chirps, every cube size and  *)
(* chunk limit, with or without failures and timing assumptions: types,    *)
(* exclusive use of the radar cube, and no lost wake-up.                   *)
(***************************************************************************)
EXTENDS Streaming, TLAPS

SpiP == INSTANCE SpiTransfer_proofs WITH Sizes <- {0, CubeBytes}

\* The types of everything but spi_transfer_buffer()'s own state.
KernelTypes ==
  /\ pc \in [Task -> DpcAt \cup MainAt \cup SpiAt]
  /\ pc["main"] \in MainAt /\ pc["dpc"] \in DpcAt /\ pc["spi"] \in SpiAt
  /\ sem \in [Sem -> {0, 1}]
  /\ waits \in [Task -> Sem \cup {None}]

DataTypes ==
  /\ rfOn \in BOOLEAN
  /\ chirp \in 0..ChirpsPerFrame
  /\ frame \in Frame
  /\ framesLeft \in Nat \cup {Endless}
  /\ dpu \in {"none", "idle", "armed", "done"}
  /\ collected \in 0..ChirpsPerFrame
  /\ dpu = "armed" => collected < ChirpsPerFrame
  /\ cube \in Cube
  /\ isrOn \subseteq Interrupts
  /\ gFrameCount \in Frame /\ gChirpCount \in Frame
  /\ cubeBytes \in {0, CubeBytes}
  /\ spiBytes \in {0, CubeBytes}
  /\ seen \in SUBSET Frame

(***************************************************************************)
(* Whose turn it is.  The two SPI semaphores, the control points of the    *)
(* two tasks and the state of the DPU are one token in four encodings: the *)
(* cube is with the DPU, with a pending spi_tx_start_sem, with the SPI     *)
(* task, or with a pending spi_tx_done_sem, and never with two of them.    *)
(***************************************************************************)
SpiTurn ==
  /\ at # "out" <=> pc["spi"] = "transfer"
  /\ sem["txStart"] = 1 =>
       /\ pc["dpc"] = "pendDone"
       /\ pc["spi"] \in {"absent", "capture", "pendStart"}
       /\ sem["txDone"] = 0
  /\ pc["spi"] \in {"call", "transfer", "postDone"} =>
       /\ pc["dpc"] = "pendDone"
       /\ sem["txStart"] = 0
       /\ sem["txDone"] = 0
  /\ sem["txDone"] = 1 =>
       /\ pc["dpc"] = "pendDone"
       /\ sem["txStart"] = 0
       /\ pc["spi"] = "pendStart"

DpuTurn ==
  /\ dpu = "armed" => pc["dpc"] = "process" /\ sem["dpuDone"] = 0
  /\ dpu = "done" => pc["dpc"] \in {"process", "halted"}
  /\ sem["dpuDone"] = 1 => pc["dpc"] = "process" /\ dpu = "done"
  /\ pc["dpc"] \in {"postStart", "pendDone", "retrigger"} => dpu = "idle"

Signals ==
  /\ sem["dpcCfgDone"] = 1 => pc["dpc"] \notin {"absent", "reset", "config", "postCfg"}
  /\ sem["mcspiDone"] = 1 => mcspi \in {"ok", "failed"}

Creation ==
  /\ pc["main"] = "createDpc" => pc["dpc"] = "absent"
  /\ pc["main"] \in {"createDpc", "pendCfg", "createSpi"} => pc["spi"] = "absent"

\* Everything but what SpiTransfer_proofs knows of spi_transfer_buffer().
Shared ==
  /\ KernelTypes
  /\ DataTypes
  /\ SpiTurn
  /\ DpuTurn
  /\ Signals
  /\ Creation

StreamInv == Shared /\ SpiP!SpiInv

-----------------------------------------------------------------------------
(* Constants. *)

LEMMA SpiLimits == SpiP!SpiConstants
BY StreamingAssumption
DEF spi!SpiConstants, SpiP!SpiConstants, spi!BYTES_PER_FRAME, spi!BITS_PER_FRAME,
    SpiP!BYTES_PER_FRAME, SpiP!BITS_PER_FRAME

LEMMA Counts ==
  /\ 0 \in Frame
  /\ \A n \in Frame : Count(n) \in Frame
BY StreamingAssumption DEF Frame, Count

(* The kernel's operations, on a well-typed kernel state. *)
LEMMA StepKernel ==
  ASSUME KernelTypes, NEW t \in Task, NEW here, NEW next, Step(t, here, next)
  PROVE  /\ pc[t] = here
         /\ pc'[t] = next
         /\ \A u \in Task : u # t => pc'[u] = pc[u]
         /\ DOMAIN pc' = Task
         /\ pc' = [u \in Task |-> pc'[u]]
BY DEF KernelTypes, Step, Goto

LEMMA TakeKernel ==
  ASSUME KernelTypes, NEW t \in Task, NEW s \in Sem, NEW next, Take(t, s, next)
  PROVE  /\ pc'[t] = next
         /\ \A u \in Task : u # t => pc'[u] = pc[u]
         /\ pc' = [u \in Task |-> pc'[u]]
         /\ sem[s] = 1 /\ sem'[s] = 0
         /\ \A q \in Sem : q # s => sem'[q] = sem[q]
         /\ sem' \in [Sem -> {0, 1}]
         /\ waits' = waits
BY DEF KernelTypes, Take, Goto

LEMMA BlockKernel ==
  ASSUME KernelTypes, NEW t \in Task, NEW s \in Sem, Block(t, s)
  PROVE  /\ pc' = pc /\ sem' = sem
         /\ waits' \in [Task -> Sem \cup {None}]
BY DEF KernelTypes, Block

LEMMA PostKernel ==
  ASSUME KernelTypes, NEW s \in Sem, Post(s)
  PROVE  /\ sem'[s] = 1
         /\ \A q \in Sem : q # s => sem'[q] = sem[q]
         /\ sem' \in [Sem -> {0, 1}]
         /\ waits' \in [Task -> Sem \cup {None}]
BY DEF KernelTypes, Post

-----------------------------------------------------------------------------
(* Registering an interrupt, whichever it is, moves dpcTask() on and       *)
(* touches nothing else.                                                   *)
LEMMA Registering ==
  ASSUME DpcRegister
  PROVE  \E i \in Interrupts, here \in {"regFrameStart", "regChirp", "regChirpAvail"},
            next \in {"regChirp", "regChirpAvail", "trigger", "halted"} :
           /\ Step("dpc", here, next)
           /\ isrOn' \in {isrOn, isrOn \cup {i}}
           /\ UNCHANGED <<sem, waits, hwVars, gFrameCount, gChirpCount, sizeVars, seen,
                          spiVars>>
BY DEF DpcRegister, registerFrameStartInterrupt, registerChirpInterrupt,
       registerChirpAvailableInterrupts, Register, Interrupts

(* A step of the pipeline is a step of spi_transfer_buffer() or leaves it  *)
(* alone, so what is proved of SpiTransfer holds here.                     *)
LEMMA SpiStep ==
  ASSUME DataTypes, [Next]_vars PROVE [SpiP!Next]_(SpiP!spiVars)
<1> USE DEF SpiP!spiVars, SpiP!locals, spi!locals,
            SpiP!BYTES_PER_FRAME, spi!BYTES_PER_FRAME,
            SpiP!BITS_PER_FRAME, spi!BITS_PER_FRAME
<1>1. ASSUME Main PROVE UNCHANGED spiVars
  BY <1>1 DEF Main, MainCreateDpc, MainAwaitCfg, MainCreateSpi, MainStartSensor, MainPark
<1>2. ASSUME Dpc PROVE UNCHANGED spiVars
  BY <1>2, Registering DEF Dpc, DpcReset, DpcConfig, DpcPostCfg, DpcTrigger, DpcProcess,
                           DpcPostStart, DpcAwaitDone
<1>3. ASSUME SpiCapture \/ SpiAwaitStart \/ SpiBlocks \/ SpiPostDone PROVE UNCHANGED spiVars
  BY <1>3 DEF SpiCapture, SpiAwaitStart, SpiBlocks, SpiPostDone
<1>4. ASSUME FrameStart \/ ChirpAvailable PROVE UNCHANGED spiVars
  BY <1>4 DEF FrameStart, ChirpAvailable
<1>5. ASSUME UNCHANGED vars \/ Rest PROVE UNCHANGED spiVars
  BY <1>5 DEF vars, Rest
<1>6. ASSUME UNCHANGED spiVars PROVE UNCHANGED SpiP!spiVars
  BY <1>6 DEF spiVars
<1>7. ASSUME SpiCall PROVE SpiP!Next
  <2>1. spi!Call(spiBytes) /\ spiBytes \in {0, CubeBytes}
    BY <1>7 DEF SpiCall, DataTypes
  <2>2. SpiP!Call(spiBytes)
    BY <2>1 DEF spi!Call, SpiP!Call
  <2> QED
    BY <2>1, <2>2 DEF SpiP!Next
<1>8. ASSUME spi!StartChunk PROVE SpiP!StartChunk
  BY <1>8 DEF spi!StartChunk, SpiP!StartChunk, spi!ChunkSize, SpiP!ChunkSize,
              spi!ByteOffset, SpiP!ByteOffset
<1>9. ASSUME spi!Transfer PROVE SpiP!Transfer
  BY <1>9 DEF spi!Transfer, SpiP!Transfer
<1>10. ASSUME spi!TransferRejected PROVE SpiP!TransferRejected
  BY <1>10 DEF spi!TransferRejected, SpiP!TransferRejected
<1>11. ASSUME spi!FinishChunk PROVE SpiP!FinishChunk
  BY <1>11 DEF spi!FinishChunk, SpiP!FinishChunk
<1>12. ASSUME spi!TransferFailed PROVE SpiP!TransferFailed
  BY <1>12 DEF spi!TransferFailed, SpiP!TransferFailed
<1>13. ASSUME spi!Return PROVE SpiP!Return
  BY <1>13 DEF spi!Return, SpiP!Return
<1>14. ASSUME spi!HostClocksWord PROVE SpiP!HostClocksWord
  BY <1>14 DEF spi!HostClocksWord, SpiP!HostClocksWord
<1>15. ASSUME spi!HostClocksEarly PROVE SpiP!HostClocksEarly
  BY <1>15 DEF spi!HostClocksEarly, SpiP!HostClocksEarly
<1>16. ASSUME spi!DmaError PROVE SpiP!DmaError
  BY <1>16 DEF spi!DmaError, SpiP!DmaError
<1>17. ASSUME SpiRuns \/ SpiWakes \/ HostClocksWord \/ HostClocksEarly \/ DmaError
       PROVE  SpiP!Next
  BY <1>17, <1>8, <1>9, <1>10, <1>11, <1>12, <1>13, <1>14, <1>15, <1>16
  DEF SpiRuns, SpiWakes, HostClocksWord, HostClocksEarly, DmaError,
      SpiP!Next, SpiP!Firmware, SpiP!Host
<1> QED
  BY <1>1, <1>2, <1>3, <1>4, <1>5, <1>6, <1>7, <1>17
  DEF Next, Spi, Environment

LEMMA SpiInvStep ==
  ASSUME DataTypes, SpiP!SpiInv, [Next]_vars PROVE SpiP!SpiInv'
<1>1. SpiP!SpiInv /\ [SpiP!Next]_(SpiP!spiVars) => SpiP!SpiInv'
  BY SpiP!StepInv, SpiLimits, Zenon DEF SpiP!SpiAssumption
<1> QED
  BY <1>1, SpiStep

-----------------------------------------------------------------------------
(* Every action keeps Shared.  The steps of an action first say what it    *)
(* does to the kernel state.                                               *)

\* The members of the constant sets the actions name.
LEMMA Names ==
  /\ "main" \in Task /\ "dpc" \in Task /\ "spi" \in Task
  /\ "dpcCfgDone" \in Sem /\ "pendMain" \in Sem /\ "txStart" \in Sem
  /\ "txDone" \in Sem /\ "dpuDone" \in Sem /\ "mcspiDone" \in Sem
BY DEF Task, Sem

\* A task that stays within its own control points keeps the type of pc.
LEMMA PcTypes ==
  ASSUME pc' = [u \in Task |-> pc'[u]],
         pc'["main"] \in MainAt, pc'["dpc"] \in DpcAt, pc'["spi"] \in SpiAt
  PROVE  pc' \in [Task -> DpcAt \cup MainAt \cup SpiAt]
BY DEF Task

\* Blocking disturbs nothing but waits.
LEMMA BlockInv ==
  ASSUME Shared, NEW t \in Task, NEW q \in Sem, Block(t, q),
         UNCHANGED <<hwVars, isrVars, sizeVars, seen, spiVars>>
  PROVE  Shared'
<1>1. pc' = pc /\ sem' = sem /\ waits' \in [Task -> Sem \cup {None}]
  BY BlockKernel DEF Shared
<1>2. KernelTypes' /\ SpiTurn' /\ DpuTurn' /\ Signals' /\ Creation'
  BY <1>1 DEF Shared, KernelTypes, SpiTurn, DpuTurn, Signals, Creation,
              hwVars, dpuVars, spiVars
<1>3. DataTypes'
  BY DEF Shared, DataTypes, hwVars, rfVars, dpuVars, isrVars, sizeVars
<1> QED
  BY <1>1, <1>2, <1>3 DEF Shared

LEMMA MainCreatesInv ==
  ASSUME Shared, MainCreateDpc \/ MainCreateSpi PROVE Shared'
<1> USE Names
<1>1. /\ pc' = [u \in Task |-> pc'[u]]
      /\ \/ /\ pc["main"] = "createDpc" /\ pc'["main"] = "pendCfg"
            /\ pc'["dpc"] = "reset" /\ pc'["spi"] = pc["spi"]
         \/ /\ pc["main"] = "createSpi" /\ pc'["main"] = "startSensor"
            /\ pc'["spi"] = "capture" /\ pc'["dpc"] = pc["dpc"]
      /\ UNCHANGED <<sem, waits, hwVars, isrVars, sizeVars, seen, spiVars>>
  BY DEF Shared, KernelTypes, MainCreateDpc, MainCreateSpi
<1>2. KernelTypes'
  BY <1>1, PcTypes DEF Shared, KernelTypes, DpcAt, MainAt, SpiAt
<1>3. DataTypes'
  BY <1>1 DEF Shared, DataTypes, hwVars, rfVars, dpuVars, isrVars, sizeVars
<1>4. SpiTurn' /\ DpuTurn' /\ Signals' /\ Creation'
  BY <1>1 DEF Shared, KernelTypes, SpiTurn, DpuTurn, Signals, Creation,
              hwVars, dpuVars, spiVars
<1> QED
  BY <1>2, <1>3, <1>4 DEF Shared

LEMMA MainAwaitCfgInv ==
  ASSUME Shared, MainAwaitCfg PROVE Shared'
<1> USE Names
<1>1. CASE Take("main", "dpcCfgDone", "createSpi")
  <2>1. /\ pc'["main"] = "createSpi"
        /\ \A u \in Task : u # "main" => pc'[u] = pc[u]
        /\ pc' = [u \in Task |-> pc'[u]]
        /\ sem["dpcCfgDone"] = 1 /\ sem'["dpcCfgDone"] = 0
        /\ \A q \in Sem : q # "dpcCfgDone" => sem'[q] = sem[q]
        /\ sem' \in [Sem -> {0, 1}] /\ waits' = waits
    BY <1>1, TakeKernel DEF Shared, MainAwaitCfg
  <2>3. KernelTypes'
    BY <2>1, PcTypes
    DEF Shared, KernelTypes, MainAwaitCfg, DpcAt, MainAt, SpiAt
  <2>4. DataTypes'
    BY <2>1
    DEF Shared, DataTypes, MainAwaitCfg, hwVars, rfVars, dpuVars, isrVars,
        sizeVars, spiVars
  <2>5. SpiTurn' /\ DpuTurn' /\ Signals' /\ Creation'
    BY <2>1
    DEF Shared, KernelTypes, SpiAt, SpiTurn, DpuTurn, Signals, Creation,
        MainAwaitCfg, hwVars, rfVars, dpuVars, isrVars, sizeVars, spiVars
  <2> QED
    BY <2>3, <2>4, <2>5 DEF Shared
<1>2. CASE Block("main", "dpcCfgDone")
  BY <1>2, BlockInv DEF MainAwaitCfg, hwVars
<1> QED
  BY <1>1, <1>2 DEF MainAwaitCfg

LEMMA MainParkInv ==
  ASSUME Shared, MainPark PROVE Shared'
BY BlockInv, Names DEF MainPark, hwVars

LEMMA MainStartSensorInv ==
  ASSUME Shared, MainStartSensor PROVE Shared'
<1> USE Names
<1>1. PICK next \in {"pendMain", "halted"} : Step("main", "startSensor", next)
  BY DEF MainStartSensor
<1>2. /\ pc'["main"] = next /\ pc["main"] = "startSensor"
      /\ \A u \in Task : u # "main" => pc'[u] = pc[u]
      /\ pc' = [u \in Task |-> pc'[u]]
  BY <1>1, StepKernel DEF Shared
<1>3. KernelTypes'
  BY <1>2, PcTypes
  DEF Shared, KernelTypes, MainStartSensor, DpcAt, MainAt, SpiAt
<1>4. DataTypes'
  BY <1>2
  DEF Shared, DataTypes, MainStartSensor, hwVars, rfVars, dpuVars, isrVars,
      sizeVars, spiVars
<1>5. SpiTurn' /\ DpuTurn' /\ Signals' /\ Creation'
  BY <1>2
  DEF Shared, KernelTypes, SpiAt, SpiTurn, DpuTurn, Signals, Creation,
      MainStartSensor, hwVars, rfVars, dpuVars, isrVars, sizeVars, spiVars
<1> QED
  BY <1>3, <1>4, <1>5 DEF Shared

LEMMA DpcResetInv ==
  ASSUME Shared, DpcReset PROVE Shared'
<1> USE Names
<1>1. /\ pc["dpc"] = "reset" /\ pc'["dpc"] = "config"
      /\ \A u \in Task : u # "dpc" => pc'[u] = pc[u]
      /\ pc' = [u \in Task |-> pc'[u]]
  BY StepKernel DEF Shared, DpcReset
<1>3. KernelTypes'
  BY <1>1, PcTypes DEF Shared, KernelTypes, DpcReset, DpcAt, MainAt, SpiAt
<1>4. DataTypes'
  BY <1>1, Counts
  DEF Shared, DataTypes, DpcReset, hwVars, rfVars, dpuVars, isrVars, sizeVars,
      spiVars
<1>5. SpiTurn' /\ DpuTurn' /\ Signals' /\ Creation'
  BY <1>1
  DEF Shared, KernelTypes, SpiAt, SpiTurn, DpuTurn, Signals, Creation,
      DpcReset, hwVars, rfVars, dpuVars, isrVars, sizeVars, spiVars
<1> QED
  BY <1>3, <1>4, <1>5 DEF Shared

LEMMA DpcConfigInv ==
  ASSUME Shared, DpcConfig PROVE Shared'
<1> USE Names
<1>1. PICK next \in {"postCfg", "halted"} : Step("dpc", "config", next)
  BY DEF DpcConfig
<1>2. /\ pc'["dpc"] = next /\ pc["dpc"] = "config"
      /\ \A u \in Task : u # "dpc" => pc'[u] = pc[u]
      /\ pc' = [u \in Task |-> pc'[u]]
  BY <1>1, StepKernel DEF Shared
<1>3. KernelTypes'
  BY <1>2, PcTypes DEF Shared, KernelTypes, DpcConfig, DpcAt, MainAt, SpiAt
<1>4. DataTypes'
  BY <1>2
  DEF Shared, DataTypes, DpcConfig, hwVars, rfVars, dpuVars, isrVars,
      sizeVars, spiVars
<1>5. SpiTurn' /\ DpuTurn' /\ Signals' /\ Creation'
  BY <1>2
  DEF Shared, KernelTypes, SpiAt, SpiTurn, DpuTurn, Signals, Creation,
      DpcConfig, hwVars, rfVars, dpuVars, isrVars, sizeVars, spiVars
<1> QED
  BY <1>3, <1>4, <1>5 DEF Shared

LEMMA DpcPostCfgInv ==
  ASSUME Shared, DpcPostCfg PROVE Shared'
<1> USE Names
<1>1. /\ pc["dpc"] = "postCfg" /\ pc'["dpc"] = "regFrameStart"
      /\ \A u \in Task : u # "dpc" => pc'[u] = pc[u]
      /\ pc' = [u \in Task |-> pc'[u]]
  BY StepKernel DEF Shared, DpcPostCfg
<1>2. /\ sem'["dpcCfgDone"] = 1
      /\ \A q \in Sem : q # "dpcCfgDone" => sem'[q] = sem[q]
      /\ sem' \in [Sem -> {0, 1}]
      /\ waits' \in [Task -> Sem \cup {None}]
  BY PostKernel DEF Shared, DpcPostCfg
<1>3. KernelTypes'
  BY <1>1, <1>2, PcTypes
  DEF Shared, KernelTypes, DpcPostCfg, DpcAt, MainAt, SpiAt
<1>4. DataTypes'
  BY <1>1
  DEF Shared, DataTypes, DpcPostCfg, hwVars, rfVars, dpuVars, isrVars,
      sizeVars, spiVars
<1>5. SpiTurn' /\ DpuTurn' /\ Signals' /\ Creation'
  BY <1>1, <1>2
  DEF Shared, KernelTypes, SpiAt, SpiTurn, DpuTurn, Signals, Creation,
      DpcPostCfg, hwVars, rfVars, dpuVars, isrVars, sizeVars, spiVars
<1> QED
  BY <1>3, <1>4, <1>5 DEF Shared

LEMMA DpcRegisterInv ==
  ASSUME Shared, DpcRegister PROVE Shared'
<1> USE Names
<1>1. PICK i \in Interrupts, here \in {"regFrameStart", "regChirp", "regChirpAvail"},
           next \in {"regChirp", "regChirpAvail", "trigger", "halted"} :
        /\ Step("dpc", here, next)
        /\ isrOn' \in {isrOn, isrOn \cup {i}}
        /\ UNCHANGED <<sem, waits, hwVars, gFrameCount, gChirpCount, sizeVars, seen,
                       spiVars>>
  BY Registering
<1>2. /\ pc'["dpc"] = next /\ pc["dpc"] = here
      /\ \A u \in Task : u # "dpc" => pc'[u] = pc[u]
      /\ pc' = [u \in Task |-> pc'[u]]
  BY <1>1, StepKernel DEF Shared
<1>3. KernelTypes'
  BY <1>1, <1>2, PcTypes DEF Shared, KernelTypes, DpcAt, MainAt, SpiAt
<1>4. DataTypes'
  BY <1>1, <1>2
  DEF Shared, DataTypes, hwVars, rfVars, dpuVars, isrVars,
      sizeVars, spiVars
<1>5. SpiTurn' /\ DpuTurn' /\ Signals' /\ Creation'
  BY <1>1, <1>2
  DEF Shared, KernelTypes, SpiAt, SpiTurn, DpuTurn, Signals, Creation,
      hwVars, rfVars, dpuVars, isrVars, sizeVars, spiVars
<1> QED
  BY <1>3, <1>4, <1>5 DEF Shared

LEMMA DpcTriggerInv ==
  ASSUME Shared, DpcTrigger PROVE Shared'
<1> USE Names
<1>1. PICK next \in {"process", "halted"} : Step("dpc", pc["dpc"], next)
  BY DEF DpcTrigger
<1>2. /\ pc'["dpc"] = next
      /\ \A u \in Task : u # "dpc" => pc'[u] = pc[u]
      /\ pc' = [u \in Task |-> pc'[u]]
  BY <1>1, StepKernel DEF Shared
<1>3. KernelTypes'
  BY <1>2, PcTypes DEF Shared, KernelTypes, DpcTrigger, DpcAt, MainAt, SpiAt
<1>4. DataTypes'
  BY <1>2, StreamingAssumption
  DEF Shared, DataTypes, DpcTrigger, hwVars, rfVars, dpuVars, isrVars,
      sizeVars, spiVars
<1>5. /\ pc["dpc"] \in {"trigger", "retrigger"}
      /\ pc["spi"] \in {"absent", "capture", "pendStart"}
      /\ sem["txStart"] = 0 /\ sem["txDone"] = 0 /\ sem["dpuDone"] = 0
      /\ dpu \in {"none", "idle"}
  BY DEF Shared, KernelTypes, DataTypes, SpiAt, SpiTurn, DpuTurn, DpcTrigger
<1>6. /\ dpu' \in {"none", "idle", "armed"}
      /\ dpu' = "armed" => pc'["dpc"] = "process"
      /\ sem' = sem /\ at' = at /\ mcspi' = mcspi
  BY <1>1, <1>2, <1>5 DEF DpcTrigger, spiVars, Step, Goto, Shared, KernelTypes
<1>7. SpiTurn' /\ DpuTurn' /\ Signals' /\ Creation'
  BY <1>2, <1>5, <1>6
  DEF Shared, KernelTypes, SpiTurn, DpuTurn, Signals, Creation
<1> QED
  BY <1>3, <1>4, <1>7 DEF Shared

LEMMA DpcProcessInv ==
  ASSUME Shared, DpcProcess PROVE Shared'
<1> USE Names
<1>1. ASSUME NEW next \in {"postStart", "halted"}, Take("dpc", "dpuDone", next),
             dpu' = IF next = "postStart" THEN "idle" ELSE dpu
      PROVE  Shared'
  <2>1. /\ pc'["dpc"] = next
        /\ \A u \in Task : u # "dpc" => pc'[u] = pc[u]
        /\ pc' = [u \in Task |-> pc'[u]]
        /\ sem["dpuDone"] = 1 /\ sem'["dpuDone"] = 0
        /\ \A q \in Sem : q # "dpuDone" => sem'[q] = sem[q]
        /\ sem' \in [Sem -> {0, 1}] /\ waits' = waits
    BY <1>1, TakeKernel DEF Shared, DpcProcess
  <2>3. KernelTypes'
    BY <2>1, PcTypes DEF Shared, KernelTypes, DpcProcess, DpcAt, MainAt, SpiAt
  <2>4. DataTypes'
    BY <2>1
    DEF Shared, DataTypes, DpcProcess, hwVars, rfVars, dpuVars, isrVars,
        sizeVars, spiVars
  <2>5. /\ pc["dpc"] = "process" /\ dpu = "done"
        /\ pc["spi"] \in {"absent", "capture", "pendStart"}
        /\ sem["txStart"] = 0 /\ sem["txDone"] = 0
        /\ at' = at /\ mcspi' = mcspi
    BY <2>1 DEF DpcProcess, spiVars, Shared, KernelTypes, SpiAt, SpiTurn, DpuTurn
  <2>6. SpiTurn' /\ DpuTurn' /\ Signals' /\ Creation'
    BY <1>1, <2>1, <2>5
    DEF Shared, KernelTypes, SpiTurn, DpuTurn, Signals, Creation
  <2> QED
    BY <2>3, <2>4, <2>6 DEF Shared
<1>2. CASE Block("dpc", "dpuDone") /\ UNCHANGED dpu
  BY <1>2, BlockInv DEF DpcProcess, hwVars, dpuVars
<1> QED
  BY <1>1, <1>2 DEF DpcProcess

LEMMA DpcPostStartInv ==
  ASSUME Shared, DpcPostStart PROVE Shared'
<1> USE Names
<1>1. /\ pc["dpc"] = "postStart" /\ pc'["dpc"] = "pendDone"
      /\ \A u \in Task : u # "dpc" => pc'[u] = pc[u]
      /\ pc' = [u \in Task |-> pc'[u]]
  BY StepKernel DEF Shared, DpcPostStart
<1>2. /\ sem'["txStart"] = 1
      /\ \A q \in Sem : q # "txStart" => sem'[q] = sem[q]
      /\ sem' \in [Sem -> {0, 1}]
      /\ waits' \in [Task -> Sem \cup {None}]
  BY PostKernel DEF Shared, DpcPostStart
<1>3. KernelTypes'
  BY <1>1, <1>2, PcTypes
  DEF Shared, KernelTypes, DpcPostStart, DpcAt, MainAt, SpiAt
<1>4. DataTypes'
  BY <1>1
  DEF Shared, DataTypes, DpcPostStart, hwVars, rfVars, dpuVars, isrVars,
      sizeVars, spiVars
<1>5. /\ pc["spi"] \in {"absent", "capture", "pendStart"}
      /\ sem["txDone"] = 0 /\ dpu = "idle" /\ sem["dpuDone"] = 0
  BY <1>1 DEF Shared, KernelTypes, SpiAt, SpiTurn, DpuTurn
<1>6. SpiTurn' /\ DpuTurn' /\ Signals' /\ Creation'
  BY <1>1, <1>2, <1>5
  DEF Shared, KernelTypes, SpiAt, SpiTurn, DpuTurn, Signals, Creation,
      DpcPostStart, hwVars, rfVars, dpuVars, isrVars, sizeVars, spiVars
<1> QED
  BY <1>3, <1>4, <1>6 DEF Shared

LEMMA DpcAwaitDoneInv ==
  ASSUME Shared, DpcAwaitDone PROVE Shared'
<1> USE Names
<1>1. CASE Take("dpc", "txDone", "retrigger")
  <2>1. /\ pc'["dpc"] = "retrigger"
        /\ \A u \in Task : u # "dpc" => pc'[u] = pc[u]
        /\ pc' = [u \in Task |-> pc'[u]]
        /\ sem["txDone"] = 1 /\ sem'["txDone"] = 0
        /\ \A q \in Sem : q # "txDone" => sem'[q] = sem[q]
        /\ sem' \in [Sem -> {0, 1}] /\ waits' = waits
    BY <1>1, TakeKernel DEF Shared, DpcAwaitDone
  <2>3. KernelTypes'
    BY <2>1, PcTypes
    DEF Shared, KernelTypes, DpcAwaitDone, DpcAt, MainAt, SpiAt
  <2>4. DataTypes'
    BY <2>1
    DEF Shared, DataTypes, DpcAwaitDone, hwVars, rfVars, dpuVars, isrVars,
        sizeVars, spiVars
  <2>5. /\ pc["spi"] = "pendStart" /\ pc["dpc"] = "pendDone"
        /\ sem["txStart"] = 0 /\ dpu = "idle" /\ sem["dpuDone"] = 0
    BY <2>1 DEF Shared, KernelTypes, SpiTurn, DpuTurn
  <2>6. SpiTurn' /\ DpuTurn' /\ Signals' /\ Creation'
    BY <2>1, <2>5
    DEF Shared, KernelTypes, SpiAt, SpiTurn, DpuTurn, Signals, Creation,
        DpcAwaitDone, hwVars, rfVars, dpuVars, isrVars, sizeVars, spiVars
  <2> QED
    BY <2>3, <2>4, <2>6 DEF Shared
<1>2. CASE Block("dpc", "txDone")
  BY <1>2, BlockInv DEF DpcAwaitDone, hwVars
<1> QED
  BY <1>1, <1>2 DEF DpcAwaitDone

LEMMA SpiCaptureInv ==
  ASSUME Shared, SpiCapture PROVE Shared'
<1> USE Names
<1>1. /\ pc["spi"] = "capture" /\ pc'["spi"] = "pendStart"
      /\ \A u \in Task : u # "spi" => pc'[u] = pc[u]
      /\ pc' = [u \in Task |-> pc'[u]]
  BY StepKernel DEF Shared, SpiCapture
<1>3. KernelTypes'
  BY <1>1, PcTypes DEF Shared, KernelTypes, SpiCapture, DpcAt, MainAt, SpiAt
<1>4. DataTypes'
  BY <1>1
  DEF Shared, DataTypes, SpiCapture, hwVars, rfVars, dpuVars, isrVars,
      sizeVars, spiVars
<1>5. SpiTurn' /\ DpuTurn' /\ Signals' /\ Creation'
  BY <1>1
  DEF Shared, KernelTypes, SpiAt, SpiTurn, DpuTurn, Signals, Creation,
      SpiCapture, hwVars, rfVars, dpuVars, isrVars, sizeVars, spiVars
<1> QED
  BY <1>3, <1>4, <1>5 DEF Shared

LEMMA SpiAwaitStartInv ==
  ASSUME Shared, SpiAwaitStart PROVE Shared'
<1> USE Names
<1>1. CASE Take("spi", "txStart", "call")
  <2>1. /\ pc'["spi"] = "call"
        /\ \A u \in Task : u # "spi" => pc'[u] = pc[u]
        /\ pc' = [u \in Task |-> pc'[u]]
        /\ sem["txStart"] = 1 /\ sem'["txStart"] = 0
        /\ \A q \in Sem : q # "txStart" => sem'[q] = sem[q]
        /\ sem' \in [Sem -> {0, 1}] /\ waits' = waits
    BY <1>1, TakeKernel DEF Shared, SpiAwaitStart
  <2>3. KernelTypes'
    BY <2>1, PcTypes
    DEF Shared, KernelTypes, SpiAwaitStart, DpcAt, MainAt, SpiAt
  <2>4. DataTypes'
    BY <2>1
    DEF Shared, DataTypes, SpiAwaitStart, hwVars, rfVars, dpuVars, isrVars,
        sizeVars, spiVars
  <2>5. SpiTurn' /\ DpuTurn' /\ Signals' /\ Creation'
    BY <2>1
    DEF Shared, KernelTypes, SpiAt, SpiTurn, DpuTurn, Signals, Creation,
        SpiAwaitStart, hwVars, rfVars, dpuVars, isrVars, sizeVars, spiVars
  <2> QED
    BY <2>3, <2>4, <2>5 DEF Shared
<1>2. CASE Block("spi", "txStart")
  BY <1>2, BlockInv DEF SpiAwaitStart, hwVars
<1> QED
  BY <1>1, <1>2 DEF SpiAwaitStart

LEMMA SpiCallInv ==
  ASSUME Shared, SpiCall PROVE Shared'
<1> USE Names
<1>1. /\ pc["spi"] = "call" /\ pc'["spi"] = "transfer"
      /\ \A u \in Task : u # "spi" => pc'[u] = pc[u]
      /\ pc' = [u \in Task |-> pc'[u]]
  BY StepKernel DEF Shared, SpiCall
<1>3. KernelTypes'
  BY <1>1, PcTypes DEF Shared, KernelTypes, SpiCall, DpcAt, MainAt, SpiAt
<1>4. DataTypes'
  BY <1>1
  DEF Shared, DataTypes, SpiCall, hwVars, rfVars, dpuVars, isrVars, sizeVars,
      spiVars
<1>5. SpiTurn' /\ DpuTurn' /\ Signals' /\ Creation'
  BY <1>1
  DEF Shared, KernelTypes, SpiAt, SpiTurn, DpuTurn, Signals, Creation,
      SpiCall, hwVars, rfVars, dpuVars, isrVars, sizeVars, spiVars, spi!Call
<1> QED
  BY <1>3, <1>4, <1>5 DEF Shared

LEMMA SpiRunsInv ==
  ASSUME Shared, SpiP!SpiInv, SpiRuns PROVE Shared'
<1> USE Names
<1>1. /\ pc["spi"] = "transfer" /\ pc'["spi"] = IF at' = "out" THEN "postDone" ELSE "transfer"
      /\ \A u \in Task : u # "spi" => pc'[u] = pc[u]
      /\ pc' = [u \in Task |-> pc'[u]]
  BY StepKernel DEF Shared, SpiRuns
<1>2. /\ at # "out"
      /\ sem["mcspiDone"] = 1 => mcspi' \in {"ok", "failed"}
  BY <1>1
  DEF Shared, Signals, SpiTurn, SpiRuns, spi!StartChunk, spi!Transfer,
      spi!TransferRejected, spi!Return, SpiP!SpiInv, SpiP!Channel
<1>3. KernelTypes'
  BY <1>1, PcTypes DEF Shared, KernelTypes, SpiRuns, DpcAt, MainAt, SpiAt
<1>4. DataTypes'
  BY <1>1
  DEF Shared, DataTypes, SpiRuns, hwVars, rfVars, dpuVars, isrVars, sizeVars,
      spiVars
<1>5. SpiTurn' /\ DpuTurn' /\ Signals' /\ Creation'
  BY <1>1, <1>2
  DEF Shared, KernelTypes, SpiAt, SpiTurn, DpuTurn, Signals, Creation,
      SpiRuns, hwVars, rfVars, dpuVars, isrVars, sizeVars, spiVars
<1> QED
  BY <1>3, <1>4, <1>5 DEF Shared

LEMMA SpiWakesInv ==
  ASSUME Shared, SpiWakes PROVE Shared'
<1> USE Names
<1>1. /\ pc["spi"] = "transfer" /\ pc'["spi"] = IF at' = "out" THEN "postDone" ELSE "transfer"
      /\ \A u \in Task : u # "spi" => pc'[u] = pc[u]
      /\ pc' = [u \in Task |-> pc'[u]]
      /\ sem["mcspiDone"] = 1 /\ sem'["mcspiDone"] = 0
      /\ \A q \in Sem : q # "mcspiDone" => sem'[q] = sem[q]
      /\ sem' \in [Sem -> {0, 1}] /\ waits' = waits
  BY TakeKernel DEF Shared, SpiWakes
<1>3. KernelTypes'
  BY <1>1, PcTypes DEF Shared, KernelTypes, SpiWakes, DpcAt, MainAt, SpiAt
<1>4. DataTypes'
  BY <1>1
  DEF Shared, DataTypes, SpiWakes, hwVars, rfVars, dpuVars, isrVars, sizeVars,
      spiVars
<1>5. SpiTurn' /\ DpuTurn' /\ Signals' /\ Creation'
  BY <1>1
  DEF Shared, KernelTypes, SpiAt, SpiTurn, DpuTurn, Signals, Creation,
      SpiWakes, hwVars, rfVars, dpuVars, isrVars, sizeVars, spiVars
<1> QED
  BY <1>3, <1>4, <1>5 DEF Shared

LEMMA SpiBlocksInv ==
  ASSUME Shared, SpiBlocks PROVE Shared'
BY BlockInv, Names DEF SpiBlocks, hwVars

LEMMA SpiPostDoneInv ==
  ASSUME Shared, SpiPostDone PROVE Shared'
<1> USE Names
<1>1. /\ pc["spi"] = "postDone" /\ pc'["spi"] = "pendStart"
      /\ \A u \in Task : u # "spi" => pc'[u] = pc[u]
      /\ pc' = [u \in Task |-> pc'[u]]
  BY StepKernel DEF Shared, SpiPostDone
<1>2. /\ sem'["txDone"] = 1
      /\ \A q \in Sem : q # "txDone" => sem'[q] = sem[q]
      /\ sem' \in [Sem -> {0, 1}]
      /\ waits' \in [Task -> Sem \cup {None}]
  BY PostKernel DEF Shared, SpiPostDone
<1>3. KernelTypes'
  BY <1>1, <1>2, PcTypes
  DEF Shared, KernelTypes, SpiPostDone, DpcAt, MainAt, SpiAt
<1>4. DataTypes'
  BY <1>1
  DEF Shared, DataTypes, SpiPostDone, hwVars, rfVars, dpuVars, isrVars,
      sizeVars, spiVars
<1>5. SpiTurn' /\ DpuTurn' /\ Signals' /\ Creation'
  BY <1>1, <1>2
  DEF Shared, KernelTypes, SpiAt, SpiTurn, DpuTurn, Signals, Creation,
      SpiPostDone, hwVars, rfVars, dpuVars, isrVars, sizeVars, spiVars
<1> QED
  BY <1>3, <1>4, <1>5 DEF Shared

LEMMA FrameStartInv ==
  ASSUME Shared, FrameStart PROVE Shared'
<1>1. DataTypes'
  BY Counts, StreamingAssumption
  DEF Shared, DataTypes, FrameStart, dpuVars, sizeVars
<1> QED
  BY <1>1
  DEF Shared, KernelTypes, SpiTurn, DpuTurn, Signals, Creation,
      FrameStart, kernelVars, dpuVars, spiVars

\* The last chirp is the only one that posts.
LEMMA ChirpAvailableInv ==
  ASSUME Shared, ChirpAvailable PROVE Shared'
<1> USE Names
<1>1. /\ pc' = pc /\ at' = at /\ mcspi' = mcspi
      /\ chirp' \in 0..ChirpsPerFrame
      /\ gChirpCount' \in Frame
      /\ UNCHANGED <<rfOn, frame, framesLeft, isrOn, gFrameCount, sizeVars, seen>>
  BY Counts, StreamingAssumption DEF Shared, DataTypes, ChirpAvailable, spiVars
<1>2. /\ collected' \in 0..ChirpsPerFrame
      /\ cube' \in Cube
      /\ \/ dpu' = dpu /\ sem' = sem /\ waits' = waits
            /\ (dpu = "armed" => collected' < ChirpsPerFrame)
         \/ dpu = "armed" /\ dpu' = "done" /\ Post("dpuDone")
  <2>1. CASE dpu # "armed"
    BY <2>1 DEF Shared, DataTypes, ChirpAvailable, dpuVars
  <2>2. CASE dpu = "armed"
    <3>1. collected' = collected + 1 /\ collected \in 0..ChirpsPerFrame
          /\ collected < ChirpsPerFrame
      BY <2>2 DEF Shared, DataTypes, ChirpAvailable
    <3>2. collected' \in 1..ChirpsPerFrame
      BY <3>1, StreamingAssumption
    <3>3. cube' \in Cube
      BY <2>2, <3>2 DEF Shared, DataTypes, ChirpAvailable, Cube
    <3> QED
      BY <2>2, <3>2, <3>3, StreamingAssumption DEF ChirpAvailable
  <2> QED
    BY <2>1, <2>2
<1>3. DataTypes'
  BY <1>1, <1>2 DEF Shared, DataTypes, sizeVars
<1>4. CASE dpu' = dpu /\ sem' = sem /\ waits' = waits
  BY <1>1, <1>3, <1>4
  DEF Shared, KernelTypes, SpiTurn, DpuTurn, Signals, Creation
<1>5. CASE dpu = "armed" /\ dpu' = "done" /\ Post("dpuDone")
  <2>1. /\ sem'["dpuDone"] = 1
        /\ \A q \in Sem : q # "dpuDone" => sem'[q] = sem[q]
        /\ sem' \in [Sem -> {0, 1}]
        /\ waits' \in [Task -> Sem \cup {None}]
    BY <1>5, PostKernel DEF Shared
  <2>2. KernelTypes'
    BY <1>1, <2>1 DEF Shared, KernelTypes
  <2>3. SpiTurn' /\ DpuTurn' /\ Signals' /\ Creation'
    BY <1>1, <1>5, <2>1
    DEF Shared, KernelTypes, SpiTurn, DpuTurn, Signals, Creation
  <2> QED
    BY <1>3, <2>2, <2>3 DEF Shared
<1> QED
  BY <1>2, <1>4, <1>5

\* The channel raises its interrupt once it is done with the transaction.
LEMMA ChannelInv ==
  ASSUME Shared, HostClocksWord \/ HostClocksEarly \/ DmaError PROVE Shared'
<1> USE Names
<1>1. /\ pc' = pc /\ at' = at
      /\ UNCHANGED <<hwVars, isrVars, sizeVars>>
      /\ seen' \in SUBSET Frame
      /\ \/ sem' = sem /\ waits' = waits /\ mcspi' = mcspi
         \/ mcspi' \in {"ok", "failed"} /\ Post("mcspiDone")
  <2>1. Stored(cube) \subseteq Frame
    BY DEF Shared, DataTypes, Cube, Stored
  <2> QED
    BY <2>1
    DEF Shared, DataTypes, HostClocksWord, HostClocksEarly, DmaError, kernelVars,
        spi!HostClocksWord, spi!HostClocksEarly, spi!DmaError
<1>2. DataTypes'
  BY <1>1
  DEF Shared, DataTypes, hwVars, rfVars, dpuVars, isrVars, sizeVars
<1>3. CASE sem' = sem /\ waits' = waits /\ mcspi' = mcspi
  BY <1>1, <1>2, <1>3
  DEF Shared, KernelTypes, SpiTurn, DpuTurn, Signals, Creation, hwVars, dpuVars
<1>4. CASE mcspi' \in {"ok", "failed"} /\ Post("mcspiDone")
  <2>1. /\ sem'["mcspiDone"] = 1
        /\ \A q \in Sem : q # "mcspiDone" => sem'[q] = sem[q]
        /\ sem' \in [Sem -> {0, 1}]
        /\ waits' \in [Task -> Sem \cup {None}]
    BY <1>4, PostKernel DEF Shared
  <2>2. KernelTypes'
    BY <1>1, <2>1 DEF Shared, KernelTypes
  <2>3. SpiTurn' /\ DpuTurn' /\ Signals' /\ Creation'
    BY <1>1, <1>4, <2>1
    DEF Shared, KernelTypes, SpiTurn, DpuTurn, Signals, Creation, hwVars, dpuVars
  <2> QED
    BY <1>2, <2>2, <2>3 DEF Shared
<1> QED
  BY <1>1, <1>3, <1>4

LEMMA IdleInv ==
  ASSUME Shared, UNCHANGED vars PROVE Shared'
BY DEF Shared, KernelTypes, DataTypes, SpiTurn, DpuTurn, Signals, Creation,
       vars, kernelVars, rfVars, dpuVars, isrVars, sizeVars, spiVars

LEMMA StreamInitInv == Init => StreamInv
<1> SUFFICES ASSUME Init PROVE StreamInv
  OBVIOUS
<1>1. SpiP!SpiInv
  <2>1. SpiP!Init => SpiP!SpiInv
    BY SpiP!InitInv, SpiLimits, Zenon DEF SpiP!SpiAssumption
  <2>2. SpiP!Init
    BY DEF Init, spi!Init, SpiP!Init, spi!NoChunk, SpiP!NoChunk
  <2> QED
    BY <2>1, <2>2
<1>2. KernelTypes
  BY DEF Init, KernelTypes, DpcAt, MainAt, SpiAt, Task, Sem, None
<1>3. DataTypes
  <2>1. BlankCube \in Cube
    BY Counts DEF BlankCube, Cube
  <2>2. 0 \in 0..ChirpsPerFrame
    BY StreamingAssumption
  <2>3. framesLeft \in Nat \cup {Endless}
    BY StreamingAssumption DEF Init
  <2> QED
    BY <2>1, <2>2, <2>3, Counts DEF Init, DataTypes
<1>4. SpiTurn /\ DpuTurn /\ Signals /\ Creation
  BY Names DEF Init, spi!Init, SpiTurn, DpuTurn, Signals, Creation
<1> QED
  BY <1>1, <1>2, <1>3, <1>4 DEF StreamInv, Shared

LEMMA StreamStepInv == StreamInv /\ [Next]_vars => StreamInv'
<1> SUFFICES ASSUME StreamInv, [Next]_vars PROVE StreamInv'
  OBVIOUS
<1>1. Shared /\ SpiP!SpiInv
  BY DEF StreamInv
<1>2. SpiP!SpiInv'
  BY <1>1, SpiInvStep DEF Shared
<1>3. ASSUME Main PROVE Shared'
  BY <1>1, <1>3, MainCreatesInv, MainAwaitCfgInv, MainStartSensorInv, MainParkInv DEF Main
<1>4. ASSUME Dpc PROVE Shared'
  BY <1>1, <1>4, DpcResetInv, DpcConfigInv, DpcPostCfgInv, DpcRegisterInv,
     DpcTriggerInv, DpcProcessInv, DpcPostStartInv, DpcAwaitDoneInv DEF Dpc
<1>5. ASSUME Spi PROVE Shared'
  BY <1>1, <1>5, SpiCaptureInv, SpiAwaitStartInv, SpiCallInv, SpiRunsInv,
     SpiBlocksInv, SpiWakesInv, SpiPostDoneInv DEF Spi
<1>6. ASSUME Environment PROVE Shared'
  BY <1>1, <1>6, FrameStartInv, ChirpAvailableInv, ChannelInv DEF Environment
<1>7. ASSUME UNCHANGED vars \/ Rest PROVE Shared'
  BY <1>1, <1>7, IdleInv DEF Rest
<1>8. Shared'
  BY <1>3, <1>4, <1>5, <1>6, <1>7 DEF Next
<1> QED
  BY <1>2, <1>8 DEF StreamInv

-----------------------------------------------------------------------------
(* The turn-taking and all types hold throughout, for every constant.      *)
THEOREM Invariance == Spec => []StreamInv
BY StreamInitInv, StreamStepInv, PTL DEF Spec

(* The variables of the tasks, the hardware and the transfer keep their    *)
(* types: in particular the counters stay within their width.              *)
THEOREM TypeCorrect == Spec => []TypeOK
<1>1. StreamInv => TypeOK
  <2> SUFFICES ASSUME StreamInv PROVE TypeOK
    OBVIOUS
  <2>1. spi!SpiTypeOK
    BY DEF StreamInv, SpiP!SpiInv, SpiP!SpiTypeOK, spi!SpiTypeOK, SpiP!Chunk, spi!Chunk
  <2> QED
    BY <2>1 DEF StreamInv, Shared, KernelTypes, DataTypes, TypeOK
<1> QED
  BY <1>1, Invariance, PTL

(* While spi_transfer_buffer() is on the radar cube, the DPU is neither    *)
(* filling it nor armed to, whatever the transfers return and however the  *)
(* front end's frames fall.                                                *)
THEOREM Exclusion == Spec => []CubeExclusive
<1>1. StreamInv => CubeExclusive
  BY DEF StreamInv, Shared, SpiTurn, DpuTurn, CubeExclusive
<1> QED
  BY <1>1, Invariance, PTL

(* No semaphore is posted while it is still up: every post wakes its       *)
(* waiter.                                                                 *)
THEOREM NoPostLost == Spec => []NoLostPost
<1>1. StreamInv => NoLostPost
  BY Names
  DEF StreamInv, Shared, KernelTypes, SpiTurn, DpuTurn, Signals, NoLostPost
<1> QED
  BY <1>1, Invariance, PTL

-----------------------------------------------------------------------------
(* The hand-over.  What a drain has read is of the cube as it is: the cube *)
(* does not change under it.                                               *)
Steady == at # "out" => seen \subseteq Stored(cube)

\* Where the cube is, read off the turn.
LEMMA PhaseOf ==
  ASSUME StreamInv
  PROVE  /\ at # "out" => Phase = "draining" /\ ~Full
         /\ dpu = "armed" => Phase = "filling" /\ ~Full
         /\ at = "out" /\ Full => Phase = "full"
         /\ at = "out" /\ ~Full /\ dpu # "armed" => Phase = "idle"
BY Names
DEF StreamInv, Shared, KernelTypes, SpiTurn, DpuTurn, Phase, Full

\* The steps that leave cube, seen and the turn alone.
LEMMA QuietStep ==
  ASSUME StreamInv,
         \/ Main \/ DpcReset \/ DpcConfig \/ DpcPostCfg \/ DpcRegister
         \/ SpiCapture \/ SpiBlocks \/ FrameStart \/ HostClocksEarly \/ DmaError
         \/ Rest \/ UNCHANGED vars
  PROVE  UNCHANGED <<at, cube, seen, Phase>>
<1> USE Names
<1>1. UNCHANGED <<at, cube, seen>>
  BY Registering
  DEF Main, MainCreateDpc, MainAwaitCfg, MainCreateSpi, MainStartSensor, MainPark,
         DpcReset, DpcConfig, DpcPostCfg, SpiCapture, SpiBlocks, FrameStart, Rest,
         HostClocksEarly, DmaError, spi!HostClocksEarly, spi!DmaError, vars, hwVars,
         dpuVars, spiVars
<1>2. Full' = Full /\ (dpu' = "armed" <=> dpu = "armed")
  <2>1. CASE Main \/ DpcReset \/ DpcRegister \/ SpiCapture
    BY <2>1, Registering
    DEF StreamInv, Shared, KernelTypes, SpiTurn, DpuTurn, Creation, Full,
        Main, MainCreateDpc, MainAwaitCfg, MainCreateSpi, MainStartSensor, MainPark,
        DpcReset, SpiCapture, Step, Goto, Take, Block, hwVars, dpuVars
  <2>2. CASE DpcConfig \/ DpcPostCfg
    BY <2>2
    DEF StreamInv, Shared, KernelTypes, DataTypes, SpiTurn, DpuTurn, Full,
        DpcConfig, DpcPostCfg, Step, Goto, Post, hwVars, dpuVars
  <2>3. CASE SpiBlocks \/ FrameStart \/ HostClocksEarly \/ DmaError \/ Rest
             \/ UNCHANGED vars
    BY <2>3
    DEF StreamInv, Shared, KernelTypes, Full, SpiBlocks, FrameStart, HostClocksEarly,
        DmaError, Rest, Block, Post, vars, kernelVars, hwVars, dpuVars
  <2> QED
    BY <2>1, <2>2, <2>3
<1> QED
  BY <1>1, <1>2 DEF Phase

\* The semaphore steps hand the full cube on.
LEMMA PassingStep ==
  ASSUME StreamInv, StreamInv',
         DpcProcess \/ DpcPostStart \/ DpcAwaitDone \/ SpiAwaitStart \/ SpiPostDone
  PROVE  UNCHANGED <<at, cube, seen, Phase>>
<1> USE Names
<1>1. UNCHANGED <<at, cube, seen>>
  BY DEF DpcProcess, DpcPostStart, DpcAwaitDone, SpiAwaitStart, SpiPostDone,
         hwVars, dpuVars, spiVars
<1>2. Full' = Full /\ (dpu' = "armed" <=> dpu = "armed")
  <2>1. CASE DpcProcess
    BY <2>1
    DEF StreamInv, Shared, KernelTypes, SpiTurn, DpuTurn, Full, DpcProcess, Goto,
        Take, Block
  <2>2. CASE DpcPostStart \/ SpiPostDone
    BY <2>2
    DEF StreamInv, Shared, KernelTypes, SpiTurn, DpuTurn, Full, DpcPostStart,
        SpiPostDone, Step, Goto, Post, hwVars, dpuVars
  <2>3. CASE DpcAwaitDone \/ SpiAwaitStart
    BY <2>3
    DEF StreamInv, Shared, KernelTypes, SpiTurn, DpuTurn, Full, DpcAwaitDone,
        SpiAwaitStart, Goto, Take, Block, hwVars, dpuVars
  <2> QED
    BY <2>1, <2>2, <2>3
<1> QED
  BY <1>1, <1>2 DEF Phase

LEMMA HandoverStep ==
  ASSUME StreamInv, StreamInv', Steady, [Next]_vars
  PROVE  [Handover!Next]_(Handover!cubeVars) /\ Steady'
<1> USE Names DEF Handover!cubeVars
<1>1. CASE UNCHANGED <<at, cube, seen, Phase>>
  BY <1>1 DEF Steady, Stored
<1>2. CASE DpcTrigger
  <2>1. at = "out" /\ at' = "out" /\ Phase = "idle" /\ UNCHANGED <<cube, seen>>
    BY <1>2
    DEF DpcTrigger, hwVars, spiVars, StreamInv, Shared, KernelTypes, DataTypes,
        SpiTurn, DpuTurn, Phase, Full
  <2>2. Phase' \in {"idle", "filling"}
    BY <1>2, <2>1, PhaseOf
    DEF DpcTrigger, Step, Goto, spiVars, StreamInv, Shared, KernelTypes, DataTypes,
        SpiTurn, DpuTurn, Phase, Full
  <2> QED
    BY <2>1, <2>2 DEF Handover!Next, Handover!Arm, Steady
<1>3. CASE ChirpAvailable
  <2>1. CASE dpu = "armed"
    <3>1. at = "out" /\ at' = "out" /\ seen' = seen /\ cube' \in Cube
      BY <1>3, <2>1
      DEF ChirpAvailable, spiVars, StreamInv, Shared, DataTypes, SpiTurn, DpuTurn
    <3>2. Phase = "filling" /\ Phase' \in {"filling", "full"}
      BY <1>3, <2>1, <3>1, PhaseOf
      DEF ChirpAvailable, Phase, Full, StreamInv, Shared, SpiTurn, DpuTurn, KernelTypes
    <3> QED
      BY <3>1, <3>2 DEF Handover!Next, Handover!Fill, Steady
  <2>2. CASE dpu # "armed"
    <3>1. UNCHANGED <<at, cube, seen, dpu, pc, sem>>
      BY <1>3, <2>2 DEF ChirpAvailable, dpuVars, spiVars
    <3> QED
      BY <3>1 DEF Phase, Full, Steady, Stored
  <2> QED
    BY <2>1, <2>2
<1>4. CASE SpiCall
  <2>1. at = "out" /\ at' = "loop" /\ seen' = {} /\ cube' = cube /\ Full
    BY <1>4 DEF SpiCall, Step, spi!Call, hwVars, dpuVars, Full
  <2>2. Phase = "full" /\ Phase' = "draining"
    BY <2>1 DEF Phase
  <2> QED
    BY <2>1, <2>2 DEF Handover!Next, Handover!Open, Steady
<1>5. CASE SpiRuns \/ SpiWakes
  <2>1. /\ UNCHANGED <<cube, seen, dpu>>
        /\ pc["spi"] = "transfer" /\ at # "out"
    BY <1>5
    DEF SpiRuns, SpiWakes, Step, hwVars, dpuVars, StreamInv, Shared, SpiTurn
  <2>2. CASE at' # "out"
    BY <2>1, <2>2 DEF Phase, Steady, Stored
  <2>3. CASE at' = "out"
    <3>1. pc'["spi"] = "postDone" /\ pc'["dpc"] = pc["dpc"]
      BY <1>5, <2>3
      DEF SpiRuns, SpiWakes, Step, Take, Goto, StreamInv, Shared, KernelTypes
    <3>2. Phase = "draining" /\ Phase' = "idle"
      BY <2>1, <2>3, <3>1
      DEF Phase, Full, StreamInv, Shared, KernelTypes, SpiTurn, DpuTurn
    <3> QED
      BY <2>1, <2>3, <3>2 DEF Handover!Next, Handover!Close, Steady
  <2> QED
    BY <2>2, <2>3
<1>6. CASE HostClocksWord
  <2>1. at # "out" /\ at' = at /\ cube' = cube /\ seen' = seen \cup Stored(cube)
    BY <1>6
    DEF HostClocksWord, spi!HostClocksWord, hwVars, dpuVars, StreamInv, SpiP!SpiInv,
        SpiP!Channel
  <2>2. Phase = "draining" /\ Phase' = "draining"
    BY <2>1 DEF Phase
  <2>3. seen' = Handover!Stored(cube)
    BY <2>1 DEF Steady, Stored, Handover!Stored
  <2> QED
    BY <2>1, <2>2, <2>3 DEF Handover!Next, Handover!Read, Steady, Stored
<1> QED
  BY <1>1, <1>2, <1>3, <1>4, <1>5, <1>6, QuietStep, PassingStep
  DEF Next, Dpc, Spi, Environment

(* The two tasks, the DPU and the SPI DMA hand the one cube over strictly  *)
(* in turn, and the host reads what the DPU left: Streaming implements     *)
(* CubeHandover.                                                           *)
THEOREM Refinement == Spec => ImplementsHandover
<1>1. Init => Handover!Init /\ Steady
  <2> SUFFICES ASSUME Init PROVE Handover!Init /\ Steady
    OBVIOUS
  <2>1. BlankCube \in Cube
    BY Counts DEF BlankCube, Cube
  <2>2. at = "out" /\ Phase = "idle"
    BY Names DEF Init, spi!Init, Phase, Full
  <2> QED
    BY <2>1, <2>2 DEF Init, Handover!Init, Steady
<1>2. StreamInv /\ StreamInv' /\ Steady /\ [Next]_vars
        => [Handover!Next]_(Handover!cubeVars) /\ Steady'
  BY HandoverStep
<1> QED
  BY <1>1, <1>2, Invariance, PTL DEF Spec, ImplementsHandover, Handover!Spec

-----------------------------------------------------------------------------
(* The composition.  What the tasks, the scheduler and the host do to      *)
(* spi_transfer_buffer() is a behaviour of SpiTransfer, so all that is     *)
(* proved of the transfer on its own holds in the pipeline.                *)
THEOREM Composition == Spec => SpiP!Spec
<1>1. Init => SpiP!Init
  BY DEF Init, spi!Init, SpiP!Init, spi!NoChunk, SpiP!NoChunk
<1>2. StreamInv /\ [Next]_vars => [SpiP!Next]_(SpiP!spiVars)
  BY SpiStep DEF StreamInv, Shared
<1> QED
  BY <1>1, <1>2, Invariance, PTL DEF Spec, SpiP!Spec

(* In the pipeline, too, the host receives the words of the cube as one    *)
(* stream, from the first, without a gap, a repetition or a word too many. *)
THEOREM CubeIsStreamed == Spec => SpiP!ImplementsStream
<1>1. SpiP!Spec => SpiP!ImplementsStream
  BY SpiP!Refinement, SpiLimits, Zenon DEF SpiP!SpiAssumption
<1> QED
  BY <1>1, Composition
=============================================================================
