------------------------ MODULE StreamingStart_proofs ------------------------
(***************************************************************************)
(* The start-up of the pipeline, for every choice of failing calls: what   *)
(* the task priorities order without a semaphore, that the configuration   *)
(* is final once it is reported, and that what is sent is the cube of that *)
(* configuration.                                                          *)
(***************************************************************************)
EXTENDS Streaming_proofs

\* Where a task can be asleep: nowhere on the way to its first wait.
Asleep ==
  /\ waits["dpc"] # None => pc["dpc"] \in {"process", "pendDone"}
  /\ waits["spi"] # None => pc["spi"] \in {"pendStart", "transfer"}

\* freertos_main() is held back until the configuration is reported.
HeldBack ==
  /\ pc["dpc"] \in {"absent", "reset", "config", "postCfg"} =>
       pc["main"] \in {"createDpc", "pendCfg"}
  /\ pc["main"] \in {"startSensor", "pendMain"} => pc["spi"] # "absent"
  /\ rfOn => pc["main"] = "pendMain"

\* The interrupts are registered one after the other.
Registered ==
  /\ pc["dpc"] = "regChirp" => "frameStart" \in isrOn
  /\ pc["dpc"] = "regChirpAvail" => {"frameStart", "chirpStart"} \subseteq isrOn
  /\ pc["dpc"] \in {"trigger", "process", "postStart", "pendDone", "retrigger"} =>
       isrOn = Interrupts

\* The size is that of the configured DPU, and spi_transmit_loop() has it.
Configured ==
  /\ dpu # "none" => cubeBytes = CubeBytes
  /\ pc["dpc"] \in {"absent", "reset", "config"} => dpu = "none" /\ cubeBytes = 0
  /\ pc["dpc"] = "postCfg" /\ cubeBytes # 0 => dpu # "none"

Copied == pc["spi"] \notin {"absent", "capture"} => spiBytes = cubeBytes

Sent == pc["spi"] \in {"transfer", "postDone"} => totalBytes = spiBytes

StartInv == Asleep /\ HeldBack /\ Registered /\ Configured /\ Copied /\ Sent
              /\ SensorStartsLast

-----------------------------------------------------------------------------
\* A blocked task moves nowhere; a post can only wake one.
LEMMA Sleepers ==
  ASSUME KernelTypes
  PROVE  /\ \A q \in Sem : Post(q) => \A t \in Task : waits'[t] \in {waits[t], None}
         /\ \A t \in Task, q \in Sem : Block(t, q) =>
              /\ pc' = pc
              /\ \A u \in Task : u # t => waits'[u] = waits[u]
BY DEF KernelTypes, Post, Block

\* A task that takes a semaphore was awake.
LEMMA Awake ==
  ASSUME NEW t \in Task, NEW q \in Sem, NEW next, Take(t, q, next)
  PROVE  waits[t] = None
BY DEF Take, Running, Ready

\* The lowest task runs only while the other two wait.
LEMMA MainRuns ==
  ASSUME Running("main") PROVE ~Ready("dpc") /\ ~Ready("spi")
BY Names DEF Running, Prio

\* The other tasks' and the hardware's part of a step of main.
LEMMA MainStart ==
  ASSUME StreamInv, StartInv, Main PROVE StartInv'
<1> USE Names
<1> USE DEF StreamInv, Shared, KernelTypes, Creation, Signals, hwVars, rfVars, dpuVars,
            isrVars, sizeVars, spiVars, StartInv, Asleep, HeldBack, Registered,
            Configured, Copied, Sent, SensorStartsLast
<1>1. CASE MainCreateDpc
  BY <1>1 DEF MainCreateDpc
<1>2. CASE MainAwaitCfg
  BY <1>2, TakeKernel, Sleepers, BlockKernel DEF MainAwaitCfg
<1>3. CASE MainCreateSpi
  BY <1>3 DEF MainCreateSpi
<1>4. CASE MainStartSensor
  <2>1. PICK next \in {"pendMain", "halted"} :
          Step("main", "startSensor", next) /\ rfOn' = (next = "pendMain")
    BY <1>4 DEF MainStartSensor
  <2>2. ~Ready("dpc") /\ ~Ready("spi")
    BY <2>1, MainRuns DEF Step
  <2>3. /\ pc["main"] = "startSensor" /\ pc'["main"] = next
        /\ pc'["dpc"] = pc["dpc"] /\ pc'["spi"] = pc["spi"]
    BY <2>1, StepKernel
  <2> QED
    BY <1>4, <2>1, <2>2, <2>3 DEF MainStartSensor, Ready
<1>5. CASE MainPark
  BY <1>5, Sleepers, BlockKernel DEF MainPark
<1> QED
  BY <1>1, <1>2, <1>3, <1>4, <1>5 DEF Main

LEMMA DpcStart ==
  ASSUME StreamInv, StartInv, Dpc PROVE StartInv'
<1> USE Names
<1> USE DEF StreamInv, Shared, KernelTypes, DataTypes, Creation, Signals, DpuTurn, hwVars,
            rfVars, dpuVars, isrVars, sizeVars, spiVars, StartInv, Asleep, HeldBack,
            Registered, Configured, Copied, Sent, SensorStartsLast
<1>1. CASE DpcReset
  BY <1>1, StepKernel DEF DpcReset
<1>2. CASE DpcConfig
  <2>1. PICK next \in {"postCfg", "halted"} : Step("dpc", "config", next)
    BY <1>2 DEF DpcConfig
  <2>2. /\ pc["dpc"] = "config" /\ pc'["dpc"] = next
        /\ pc'["main"] = pc["main"] /\ pc'["spi"] = pc["spi"] /\ pc["spi"] = "absent"
    BY <2>1, StepKernel
  <2>3. Configured'
    BY <1>2, <2>2, StepKernel DEF DpcConfig
  <2>4. UNCHANGED <<waits, isrOn, spiBytes, totalBytes, rfOn>> /\ ~rfOn
    BY <1>2, <2>2 DEF DpcConfig
  <2> QED
    BY <2>2, <2>3, <2>4
<1>3. CASE DpcPostCfg
  BY <1>3, StepKernel, Sleepers DEF DpcPostCfg
<1>4. CASE DpcRegister
  <2>1. /\ pc'["main"] = pc["main"] /\ pc'["spi"] = pc["spi"] /\ ~rfOn
        /\ UNCHANGED <<sem, waits, rfOn, dpu, cubeBytes, spiBytes, totalBytes>>
        /\ waits["dpc"] = None
    BY <1>4, Registering, StepKernel DEF Step, Running, Ready
  <2>2. Registered'
    BY <1>4, StepKernel
    DEF DpcRegister, registerFrameStartInterrupt, registerChirpInterrupt,
        registerChirpAvailableInterrupts, Register, Interrupts
  <2> QED
    BY <1>4, <2>1, <2>2, Registering, StepKernel
<1>5. CASE DpcTrigger
  BY <1>5, StepKernel DEF DpcTrigger, Step, Running, Ready
<1>6. CASE DpcProcess
  <2>1. CASE Block("dpc", "dpuDone")
    BY <1>6, <2>1, Sleepers, BlockKernel, TakeKernel DEF DpcProcess
  <2>2. CASE ~Block("dpc", "dpuDone")
    <3>1. /\ pc["dpc"] = "process" /\ pc'["dpc"] \in {"postStart", "halted"}
          /\ pc'["main"] = pc["main"] /\ pc'["spi"] = pc["spi"]
          /\ waits["dpc"] = None /\ waits' = waits
      BY <1>6, <2>2, TakeKernel, Awake DEF DpcProcess
    <3>2. dpu' = "none" <=> dpu = "none"
      BY <1>6, <2>2, TakeKernel DEF DpcProcess
    <3> QED
      BY <1>6, <3>1, <3>2 DEF DpcProcess
  <2> QED
    BY <2>1, <2>2
<1>7. CASE DpcPostStart
  BY <1>7, StepKernel, Sleepers DEF DpcPostStart
<1>8. CASE DpcAwaitDone
  <2>1. CASE Block("dpc", "txDone")
    BY <1>8, <2>1, Sleepers, BlockKernel DEF DpcAwaitDone
  <2>2. CASE ~Block("dpc", "txDone")
    <3>1. /\ pc["dpc"] = "pendDone" /\ pc'["dpc"] \in {"retrigger"}
          /\ pc'["main"] = pc["main"] /\ pc'["spi"] = pc["spi"]
          /\ waits["dpc"] = None /\ waits' = waits
      BY <1>8, <2>2, TakeKernel, Awake DEF DpcAwaitDone
    <3>2. dpu' = "none" <=> dpu = "none"
      BY <1>8, <2>2, TakeKernel DEF DpcAwaitDone
    <3> QED
      BY <1>8, <3>1, <3>2 DEF DpcAwaitDone
  <2> QED
    BY <2>1, <2>2
<1> QED
  BY <1>1, <1>2, <1>3, <1>4, <1>5, <1>6, <1>7, <1>8 DEF Dpc

\* spi_transfer_buffer() keeps its size while it runs.
LEMMA SpiKeepsSize ==
  ASSUME spi!Firmware PROVE totalBytes' = totalBytes
BY DEF spi!Firmware, spi!StartChunk, spi!Transfer, spi!TransferRejected, spi!FinishChunk,
       spi!TransferFailed, spi!Return, spi!locals

LEMMA SpiStart ==
  ASSUME StreamInv, StartInv, Spi PROVE StartInv'
<1> USE Names
<1> USE DEF StreamInv, Shared, KernelTypes, Creation, SpiTurn, hwVars, rfVars, dpuVars,
            isrVars, sizeVars, spiVars, StartInv, Asleep, HeldBack, Registered,
            Configured, Copied, Sent, SensorStartsLast
<1>1. CASE SpiCapture
  BY <1>1, StepKernel DEF SpiCapture
<1>2. CASE SpiAwaitStart
  <2>1. CASE Block("spi", "txStart")
    BY <1>2, <2>1, Sleepers, BlockKernel DEF SpiAwaitStart
  <2>2. CASE Take("spi", "txStart", "call")
    BY <1>2, <2>2, TakeKernel, Awake DEF SpiAwaitStart
  <2> QED
    BY <1>2, <2>1, <2>2 DEF SpiAwaitStart
<1>3. CASE SpiCall
  BY <1>3, StepKernel DEF SpiCall, spi!Call
<1>4. CASE SpiRuns
  <2>1. /\ pc["spi"] = "transfer" /\ pc'["spi"] \in {"transfer", "postDone"}
        /\ pc'["main"] = pc["main"] /\ pc'["dpc"] = pc["dpc"]
        /\ UNCHANGED <<waits, hwVars, isrVars, sizeVars>>
    BY <1>4, StepKernel DEF SpiRuns
  <2>2. waits["spi"] = None /\ totalBytes' = totalBytes
    BY <1>4, SpiKeepsSize DEF SpiRuns, spi!Firmware, Step, Running, Ready
  <2> QED
    BY <2>1, <2>2
<1>5. CASE SpiWakes
  <2>1. /\ pc["spi"] = "transfer" /\ pc'["spi"] \in {"transfer", "postDone"}
        /\ pc'["main"] = pc["main"] /\ pc'["dpc"] = pc["dpc"]
        /\ UNCHANGED <<waits, hwVars, isrVars, sizeVars>>
    BY <1>5, TakeKernel DEF SpiWakes
  <2>2. waits["spi"] = None /\ totalBytes' = totalBytes
    BY <1>5, SpiKeepsSize, Awake DEF SpiWakes, spi!Firmware
  <2> QED
    BY <2>1, <2>2
<1>6. CASE SpiBlocks
  BY <1>6, Sleepers, BlockKernel DEF SpiBlocks
<1>7. CASE SpiPostDone
  BY <1>7, StepKernel, Sleepers DEF SpiPostDone
<1> QED
  BY <1>1, <1>2, <1>3, <1>4, <1>5, <1>6, <1>7 DEF Spi

\* The hardware wakes tasks, and knows nothing of the start-up.
LEMMA HardwareStart ==
  ASSUME StreamInv, StartInv, Environment \/ Rest \/ UNCHANGED vars PROVE StartInv'
<1> USE Names
<1>1. /\ UNCHANGED <<pc, rfOn, isrOn, cubeBytes, spiBytes, totalBytes>>
      /\ dpu' = "none" <=> dpu = "none"
  BY DEF Environment, FrameStart, ChirpAvailable, HostClocksWord, HostClocksEarly, DmaError,
         Rest, vars, kernelVars, hwVars, rfVars, dpuVars, isrVars, sizeVars, spiVars,
         spi!HostClocksWord, spi!HostClocksEarly, spi!DmaError, spi!locals
<1>2. \A t \in Task : waits'[t] \in {waits[t], None}
  BY Sleepers
  DEF StreamInv, Shared, Environment, FrameStart, ChirpAvailable, HostClocksWord,
      HostClocksEarly, DmaError, Rest, vars, kernelVars
<1> QED
  BY <1>1, <1>2
  DEF StartInv, Asleep, HeldBack, Registered, Configured, Copied, Sent, SensorStartsLast

LEMMA StartStep ==
  ASSUME StreamInv, StartInv, [Next]_vars PROVE StartInv'
BY MainStart, DpcStart, SpiStart, HardwareStart DEF Next

LEMMA StartInit == Init => StartInv
BY DEF Init, StartInv, Asleep, HeldBack, Registered, Configured, Copied, Sent,
       SensorStartsLast, Task, None

LEMMA StartUp == Spec => []StartInv
BY StartInit, StartStep, Invariance, PTL DEF Spec

(* Nothing but the task priorities orders mmwave_startSensor() after the   *)
(* registration of the interrupts, the first trigger and the copy of the   *)
(* size; they do, whatever fails.                                          *)
THEOREM StartsLast == Spec => []SensorStartsLast
BY StartUp, PTL DEF StartInv

(* A transmission that succeeds has sent a whole cube, of the size that    *)
(* RangeProc_config() computed.                                            *)
THEOREM WholeCube == Spec => []CubeSentWhole
<1>1. ASSUME StreamInv, StartInv PROVE CubeSentWhole
  <2> SUFFICES ASSUME pc["spi"] = "postDone", transferOK
               PROVE  spi!BYTES_PER_FRAME * Len(wire) = CubeBytes
    BY DEF CubeSentWhole
  <2>1. at = "out" /\ dpu = "idle"
    BY <1>1 DEF StreamInv, Shared, SpiTurn, DpuTurn
  <2>2. totalBytes = CubeBytes
    BY <1>1, <2>1 DEF StartInv, Configured, Copied, Sent
  <2> QED
    BY <1>1, <2>1, <2>2
    DEF StreamInv, SpiP!SpiInv, SpiP!Verdict, spi!BYTES_PER_FRAME, spi!BITS_PER_FRAME
<1> QED
  BY <1>1, StartUp, Invariance, PTL

(* If no transfer fails, the host is kept from reading while the DPU has   *)
(* the cube, once a first transmission has put the pin under control.      *)
THEOREM PinHighMeanwhile == ~CanFail => (Spec => []PinHighWhileFilling)
<1> SUFFICES ASSUME ~CanFail PROVE Spec => []PinHighWhileFilling
  OBVIOUS
<1>1. Init => SpiP!PinRaised
  BY DEF Init, spi!Init, SpiP!PinRaised
<1>2. SpiP!PinRaised /\ [SpiP!Next]_(SpiP!spiVars) => SpiP!PinRaised'
  BY SpiP!PinStep, SpiLimits, Zenon DEF SpiP!SpiAssumption
<1>3. StreamInv /\ SpiP!PinRaised /\ [Next]_vars => SpiP!PinRaised'
  BY <1>2, SpiStep DEF StreamInv, Shared
<1>4. StreamInv /\ SpiP!PinRaised => PinHighWhileFilling
  BY DEF StreamInv, Shared, SpiTurn, DpuTurn, SpiP!SpiInv, SpiP!SpiTypeOK, SpiP!PinRaised,
         PinHighWhileFilling
<1> QED
  BY <1>1, <1>3, <1>4, Invariance, PTL DEF Spec

-----------------------------------------------------------------------------
\* Only RangeProc_config() sets the size or configures the DPU.
LEMMA SizeFinal ==
  ASSUME StreamInv, StartInv, [Next]_vars, ~DpcConfig
  PROVE  cubeBytes' = cubeBytes /\ (dpu' = "none" <=> dpu = "none")
<1> USE DEF hwVars, dpuVars, sizeVars
<1>1. CASE Main \/ Spi \/ Rest \/ UNCHANGED vars
  BY <1>1
  DEF Main, MainCreateDpc, MainAwaitCfg, MainCreateSpi, MainStartSensor, MainPark,
      Spi, SpiCapture, SpiAwaitStart, SpiCall, SpiRuns, SpiBlocks, SpiWakes, SpiPostDone,
      Rest, vars
<1>2. CASE DpcRegister
  BY <1>2, Registering
<1>3. CASE DpcReset \/ DpcPostCfg \/ DpcTrigger \/ DpcPostStart \/ DpcAwaitDone
  BY <1>3 DEF DpcReset, DpcPostCfg, DpcTrigger, DpcPostStart, DpcAwaitDone
<1>4. CASE DpcProcess
  BY <1>4, Names DEF DpcProcess, Take, StreamInv, Shared, KernelTypes, DpuTurn
<1>5. CASE Environment
  BY <1>5
  DEF Environment, FrameStart, ChirpAvailable, HostClocksWord, HostClocksEarly, DmaError
<1> QED
  BY <1>1, <1>2, <1>3, <1>4, <1>5 DEF Next, Dpc

\* Only dpcTask() reports, and freertos_main() never forgets.
LEMMA ReportFinal ==
  ASSUME StreamInv, StartInv, [Next]_vars, ~DpcConfig, ~DpcPostCfg
  PROVE  CfgReported' = CfgReported
<1> USE Names
<1> USE DEF StreamInv, Shared, KernelTypes, CfgReported
<1>1. CASE Main
  BY <1>1, TakeKernel, BlockKernel, StepKernel
  DEF Main, MainCreateDpc, MainAwaitCfg, MainCreateSpi, MainStartSensor, MainPark
<1>2. CASE ~Main
  <2>1. pc'["main"] = pc["main"] /\ sem'["dpcCfgDone"] = sem["dpcCfgDone"]
    <3>1. CASE DpcRegister
      BY <3>1, Registering, StepKernel
    <3>2. CASE DpcReset \/ DpcTrigger \/ DpcPostStart
      BY <3>2, StepKernel, PostKernel DEF DpcReset, DpcTrigger, DpcPostStart
    <3>3. CASE DpcProcess \/ DpcAwaitDone
      BY <3>3, TakeKernel, BlockKernel DEF DpcProcess, DpcAwaitDone
    <3>4. CASE SpiCapture \/ SpiCall \/ SpiRuns \/ SpiPostDone
      BY <3>4, StepKernel, PostKernel DEF SpiCapture, SpiCall, SpiRuns, SpiPostDone
    <3>5. CASE SpiAwaitStart \/ SpiWakes \/ SpiBlocks
      BY <3>5, TakeKernel, BlockKernel DEF SpiAwaitStart, SpiWakes, SpiBlocks
    <3>6. CASE Environment \/ Rest \/ UNCHANGED vars
      BY <3>6, PostKernel
      DEF Environment, FrameStart, ChirpAvailable, HostClocksWord, HostClocksEarly,
          DmaError, Rest, vars, kernelVars
    <3> QED
      BY <1>2, <3>1, <3>2, <3>3, <3>4, <3>5, <3>6 DEF Next, Dpc, Spi
  <2> QED
    BY <2>1
<1> QED
  BY <1>1, <1>2

LEMMA ContractStep ==
  ASSUME StreamInv, StreamInv', StartInv, [Next]_vars
  PROVE  [Contract!Configure]_(Contract!contractVars)
<1> USE Names DEF Contract!contractVars
<1>1. CASE DpcConfig
  <2>1. ~CfgReported /\ ~CfgReported'
    BY <1>1, StepKernel
    DEF DpcConfig, Step, Goto, StreamInv, Shared, KernelTypes, Signals, StartInv, HeldBack,
        CfgReported
  <2> QED
    BY <1>1, <2>1 DEF DpcConfig, Contract!Configure, CfgReported
<1>2. CASE DpcPostCfg
  <2>1. ~CfgReported /\ CfgReported' /\ UNCHANGED <<dpu, cubeBytes>>
    BY <1>2, PostKernel, StepKernel
    DEF DpcPostCfg, Step, Goto, StreamInv, Shared, KernelTypes, Signals, StartInv, HeldBack,
        CfgReported, hwVars, dpuVars, sizeVars
  <2> QED
    BY <1>2, <2>1
    DEF DpcPostCfg, Step, Contract!Configure, StreamInv, Shared, DataTypes, StartInv, Configured
<1>3. CASE ~DpcConfig /\ ~DpcPostCfg
  <2>1. cubeBytes' = cubeBytes /\ (dpu' = "none" <=> dpu = "none")
    BY <1>3, SizeFinal
  <2>2. CfgReported' = CfgReported
    BY <1>3, ReportFinal
  <2> QED
    BY <2>1, <2>2
<1> QED
  BY <1>1, <1>2, <1>3

(* The configuration is reported once, complete or without a cube, and no  *)
(* later step of any task changes it: Streaming keeps the contract that    *)
(* RangeConfig keeps in detail.                                            *)
THEOREM ContractKept == Spec => KeepsContract
<1>1. Init => Contract!Init
  BY Names DEF Init, Contract!Init, CfgReported
<1>2. StreamInv /\ StreamInv' /\ StartInv /\ [Next]_vars
        => [Contract!Configure]_(Contract!contractVars)
  BY ContractStep
<1> QED
  BY <1>1, <1>2, StartUp, Invariance, PTL DEF Spec, KeepsContract, Contract!Spec

-----------------------------------------------------------------------------
(* No sleep in vain.  A task sleeps where it pends, on a semaphore that is *)
(* down.                                                                   *)
AsleepOn ==
  /\ \A t \in Task : waits[t] # None => sem[waits[t]] = 0
  /\ waits["main"] # None => pc["main"] = "pendMain" /\ waits["main"] = "pendMain"
  /\ waits["dpc"] # None =>
       \/ pc["dpc"] = "process" /\ waits["dpc"] = "dpuDone"
       \/ pc["dpc"] = "pendDone" /\ waits["dpc"] = "txDone"
  /\ waits["spi"] # None =>
       \/ pc["spi"] = "pendStart" /\ waits["spi"] = "txStart"
       \/ at = "wait" /\ waits["spi"] = "mcspiDone"

\* What a task is about to pend on is up already, or on its way.
OnTheWay ==
  /\ pc["main"] = "pendCfg" =>
       sem["dpcCfgDone"] = 1 \/ pc["dpc"] \in {"reset", "config", "postCfg", "halted"}
  /\ pc["dpc"] = "process" => sem["dpuDone"] = 1 \/ dpu \in {"armed", "none"}
  /\ pc["dpc"] = "pendDone" =>
       \/ sem["txStart"] = 1
       \/ pc["spi"] \in {"call", "transfer", "postDone"}
       \/ sem["txDone"] = 1
  /\ at = "wait" => sem["mcspiDone"] = 1 \/ mcspi = "armed"

\* Only a configuration without a cube leaves the DPU alone and goes on.
Unconfigured == dpu = "none" /\ pc["dpc"] # "halted" => cubeBytes = 0

\* A step or a successful pend leaves the sleepers asleep; it is not one of them.
LEMMA OthersSleep ==
  ASSUME KernelTypes, NEW t \in Task, NEW here, NEW next, NEW q \in Sem,
         \/ Step(t, here, next) /\ UNCHANGED <<sem, waits>>
         \/ Take(t, q, next),
         AsleepOn, UNCHANGED at \/ t = "spi"
  PROVE  AsleepOn'
<1>1. waits[t] = None /\ waits' = waits
  BY DEF Step, Take, Running, Ready
<1>2. \A u \in Task : u # t => pc'[u] = pc[u]
  BY StepKernel, TakeKernel
<1>3. \A u \in Task : waits[u] # None => sem'[waits[u]] = 0
  BY TakeKernel DEF AsleepOn, KernelTypes
<1> QED
  BY <1>1, <1>2, <1>3, Names DEF AsleepOn

\* A post wakes whoever sleeps on the semaphore.
LEMMA PostWakes ==
  ASSUME KernelTypes, NEW q \in Sem, Post(q), AsleepOn,
         \A t \in Task : waits[t] # None => pc'[t] = pc[t],
         waits["spi"] # None => at' = at
  PROVE  AsleepOn'
<1>1. \A t \in Task : waits'[t] # None => waits'[t] = waits[t] /\ waits[t] # q
  BY DEF Post, KernelTypes
<1>2. \A t \in Task : waits'[t] # None => sem'[waits'[t]] = 0
  BY <1>1 DEF Post, KernelTypes, AsleepOn
<1> QED
  BY <1>1, <1>2, Names DEF AsleepOn

\* A task that finds its semaphore down goes to sleep on it.
LEMMA FallsAsleep ==
  ASSUME KernelTypes, NEW t \in Task, NEW q \in Sem, Block(t, q), AsleepOn, at' = at,
         \/ t = "main" /\ pc[t] = "pendMain" /\ q = "pendMain"
         \/ t = "dpc" /\ <<pc[t], q>> \in {<<"process", "dpuDone">>, <<"pendDone", "txDone">>}
         \/ t = "spi" /\ pc[t] = "pendStart" /\ q = "txStart"
         \/ t = "spi" /\ at = "wait" /\ q = "mcspiDone"
  PROVE  AsleepOn'
<1>1. /\ pc' = pc /\ sem' = sem /\ sem[q] = 0
      /\ waits'[t] = q /\ \A u \in Task : u # t => waits'[u] = waits[u]
  BY DEF Block, KernelTypes
<1> QED
  BY <1>1, Names DEF AsleepOn

\* When freertos_main() runs, dpcTask() has come to rest, so it has posted.
LEMMA CfgPosted ==
  ASSUME StreamInv, StartInv, AsleepOn, OnTheWay, Running("main"), pc["main"] = "pendCfg"
  PROVE  sem["dpcCfgDone"] = 1
<1>1. ~Ready("dpc")
  BY MainRuns
<1>2. pc["dpc"] = "absent" \/ pc["dpc"] \in {"process", "pendDone"}
  BY <1>1 DEF Ready, StartInv, Asleep
<1> QED
  BY <1>2 DEF OnTheWay

LEMMA MainAsleep ==
  ASSUME StreamInv, StartInv, AsleepOn, OnTheWay, Main PROVE AsleepOn'
<1> USE Names DEF StreamInv, Shared, spiVars
<1>1. CASE MainCreateDpc \/ MainCreateSpi
  BY <1>1
  DEF MainCreateDpc, MainCreateSpi, KernelTypes, Creation, SpiTurn, AsleepOn
<1>2. CASE MainAwaitCfg
  <2>1. Take("main", "dpcCfgDone", "createSpi")
    BY <1>2, CfgPosted DEF MainAwaitCfg, Block
  <2> QED
    BY <1>2, <2>1, OthersSleep DEF MainAwaitCfg
<1>3. CASE MainStartSensor
  BY <1>3, OthersSleep DEF MainStartSensor
<1>4. CASE MainPark
  BY <1>4, FallsAsleep DEF MainPark
<1> QED
  BY <1>1, <1>2, <1>3, <1>4 DEF Main

LEMMA DpcAsleep ==
  ASSUME StreamInv, AsleepOn, Dpc PROVE AsleepOn'
<1> USE Names DEF StreamInv, Shared, spiVars
<1>1. CASE DpcReset \/ DpcTrigger
  BY <1>1, OthersSleep DEF DpcReset, DpcTrigger
<1>2. CASE DpcConfig
  BY <1>2, OthersSleep DEF DpcConfig
<1>3. CASE DpcPostCfg \/ DpcPostStart
  BY <1>3, StepKernel, PostWakes DEF DpcPostCfg, DpcPostStart, Step, Running, Ready
<1>4. CASE DpcRegister
  BY <1>4, Registering, OthersSleep
<1>5. CASE DpcProcess
  BY <1>5, OthersSleep, FallsAsleep DEF DpcProcess
<1>6. CASE DpcAwaitDone
  BY <1>6, OthersSleep, FallsAsleep DEF DpcAwaitDone
<1> QED
  BY <1>1, <1>2, <1>3, <1>4, <1>5, <1>6 DEF Dpc

LEMMA SpiAsleep ==
  ASSUME StreamInv, AsleepOn, Spi PROVE AsleepOn'
<1> USE Names DEF StreamInv, Shared, spiVars
<1>1. CASE SpiCapture \/ SpiCall \/ SpiRuns
  BY <1>1, OthersSleep DEF SpiCapture, SpiCall, SpiRuns
<1>2. CASE SpiAwaitStart
  BY <1>2, OthersSleep, FallsAsleep DEF SpiAwaitStart
<1>3. CASE SpiBlocks
  BY <1>3, FallsAsleep DEF SpiBlocks
<1>4. CASE SpiWakes
  BY <1>4, OthersSleep DEF SpiWakes
<1>5. CASE SpiPostDone
  BY <1>5, StepKernel, PostWakes DEF SpiPostDone, Step, Running, Ready
<1> QED
  BY <1>1, <1>2, <1>3, <1>4, <1>5 DEF Spi

LEMMA HardwareAsleep ==
  ASSUME StreamInv, AsleepOn, Environment \/ Rest \/ UNCHANGED vars PROVE AsleepOn'
<1> USE Names DEF StreamInv, Shared, spiVars
<1>1. UNCHANGED <<pc, at>>
  BY DEF Environment, FrameStart, ChirpAvailable, HostClocksWord, HostClocksEarly, DmaError,
         Rest, vars, kernelVars, spi!HostClocksWord, spi!HostClocksEarly, spi!DmaError
<1>2. \/ UNCHANGED <<sem, waits>>
      \/ Post("dpuDone")
      \/ Post("mcspiDone")
  BY DEF Environment, FrameStart, ChirpAvailable, HostClocksWord, HostClocksEarly, DmaError,
         Rest, vars, kernelVars
<1>3. CASE UNCHANGED <<sem, waits>>
  BY <1>1, <1>3 DEF AsleepOn
<1>4. CASE ~UNCHANGED <<sem, waits>>
  BY <1>1, <1>2, <1>4, PostWakes
<1> QED
  BY <1>3, <1>4

LEMMA AsleepStep ==
  ASSUME StreamInv, StartInv, AsleepOn, OnTheWay, [Next]_vars PROVE AsleepOn'
BY MainAsleep, DpcAsleep, SpiAsleep, HardwareAsleep DEF Next

LEMMA MainOnTheWay ==
  ASSUME StreamInv, OnTheWay, Main PROVE OnTheWay'
<1> USE Names
<1> USE DEF StreamInv, Shared, KernelTypes, Creation, SpiTurn, DpuTurn, OnTheWay, hwVars,
            dpuVars, spiVars
<1>1. CASE MainCreateDpc \/ MainCreateSpi
  BY <1>1 DEF MainCreateDpc, MainCreateSpi
<1>2. CASE MainAwaitCfg
  BY <1>2, TakeKernel, BlockKernel DEF MainAwaitCfg
<1>3. CASE MainStartSensor
  BY <1>3, StepKernel DEF MainStartSensor
<1>4. CASE MainPark
  BY <1>4, BlockKernel DEF MainPark
<1> QED
  BY <1>1, <1>2, <1>3, <1>4 DEF Main

LEMMA DpcOnTheWay ==
  ASSUME StreamInv, OnTheWay, Dpc PROVE OnTheWay'
<1> USE Names
<1> USE DEF StreamInv, Shared, KernelTypes, DataTypes, SpiTurn, DpuTurn, OnTheWay, hwVars,
            dpuVars, spiVars
<1>1. CASE DpcReset
  BY <1>1, StepKernel DEF DpcReset
<1>2. CASE DpcConfig
  BY <1>2, StepKernel DEF DpcConfig
<1>3. CASE DpcPostCfg
  BY <1>3, StepKernel, PostKernel DEF DpcPostCfg
<1>4. CASE DpcRegister
  BY <1>4, Registering, StepKernel
<1>5. CASE DpcTrigger
  BY <1>5, StepKernel DEF DpcTrigger
<1>6. CASE DpcProcess
  BY <1>6, TakeKernel, BlockKernel DEF DpcProcess
<1>7. CASE DpcPostStart
  BY <1>7, StepKernel, PostKernel DEF DpcPostStart
<1>8. CASE DpcAwaitDone
  BY <1>8, TakeKernel, BlockKernel DEF DpcAwaitDone
<1> QED
  BY <1>1, <1>2, <1>3, <1>4, <1>5, <1>6, <1>7, <1>8 DEF Dpc

LEMMA SpiOnTheWay ==
  ASSUME StreamInv, OnTheWay, Spi PROVE OnTheWay'
<1> USE Names
<1> USE DEF StreamInv, Shared, KernelTypes, SpiTurn, OnTheWay, hwVars, dpuVars, spiVars
<1>1. CASE SpiCapture
  BY <1>1, StepKernel DEF SpiCapture
<1>2. CASE SpiAwaitStart
  BY <1>2, TakeKernel, BlockKernel DEF SpiAwaitStart
<1>3. CASE SpiCall
  BY <1>3, StepKernel DEF SpiCall, spi!Call
<1>4. CASE SpiRuns
  <2>1. at' = "wait" => mcspi' = "armed"
    BY <1>4
    DEF SpiRuns, spi!StartChunk, spi!Transfer, spi!TransferRejected, spi!Return
  <2> QED
    BY <1>4, <2>1, StepKernel DEF SpiRuns
<1>5. CASE SpiBlocks
  BY <1>5, BlockKernel DEF SpiBlocks
<1>6. CASE SpiWakes
  <2>1. at' # "wait"
    BY <1>6 DEF SpiWakes, spi!FinishChunk, spi!TransferFailed
  <2> QED
    BY <1>6, <2>1, TakeKernel DEF SpiWakes
<1>7. CASE SpiPostDone
  BY <1>7, StepKernel, PostKernel DEF SpiPostDone
<1> QED
  BY <1>1, <1>2, <1>3, <1>4, <1>5, <1>6, <1>7 DEF Spi

LEMMA HardwareOnTheWay ==
  ASSUME StreamInv, OnTheWay, Environment \/ Rest \/ UNCHANGED vars PROVE OnTheWay'
<1> USE Names
<1> USE DEF StreamInv, Shared, OnTheWay, kernelVars, hwVars, dpuVars, spiVars
<1>1. CASE FrameStart \/ HostClocksEarly \/ Rest \/ UNCHANGED vars
  BY <1>1
  DEF FrameStart, HostClocksEarly, spi!HostClocksEarly, Rest, vars
<1>2. CASE ChirpAvailable
  BY <1>2, PostKernel DEF ChirpAvailable, DpuTurn
<1>3. CASE HostClocksWord \/ DmaError
  BY <1>3, PostKernel
  DEF HostClocksWord, DmaError, spi!HostClocksWord, spi!DmaError
<1> QED
  BY <1>1, <1>2, <1>3 DEF Environment

LEMMA OnTheWayStep ==
  ASSUME StreamInv, OnTheWay, [Next]_vars PROVE OnTheWay'
BY MainOnTheWay, DpcOnTheWay, SpiOnTheWay, HardwareOnTheWay DEF Next

\* A task that has spun into an assertion stays there.
LEMMA Halted ==
  ASSUME StreamInv, [Next]_vars, pc["dpc"] = "halted" PROVE pc'["dpc"] = "halted"
<1> USE Names
<1> USE DEF StreamInv, Shared, KernelTypes, Creation, Step, Goto, Take, Block
<1>1. ~Dpc
  BY Registering
  DEF Dpc, DpcReset, DpcConfig, DpcPostCfg, DpcTrigger, DpcProcess, DpcPostStart,
      DpcAwaitDone
<1>2. CASE Main
  BY <1>2
  DEF Main, MainCreateDpc, MainAwaitCfg, MainCreateSpi, MainStartSensor, MainPark
<1>3. CASE Spi
  BY <1>3
  DEF Spi, SpiCapture, SpiAwaitStart, SpiCall, SpiRuns, SpiBlocks, SpiWakes, SpiPostDone
<1>4. CASE Environment \/ Rest \/ UNCHANGED vars
  BY <1>4
  DEF Environment, FrameStart, ChirpAvailable, HostClocksWord, HostClocksEarly, DmaError,
      Rest, vars, kernelVars
<1> QED
  BY <1>1, <1>2, <1>3, <1>4 DEF Next

LEMMA UnconfiguredStep ==
  ASSUME StreamInv, StartInv, Unconfigured, [Next]_vars PROVE Unconfigured'
<1>1. CASE DpcConfig
  BY <1>1, StepKernel, Names
  DEF DpcConfig, StreamInv, Shared, Unconfigured
<1>2. CASE ~DpcConfig
  BY <1>2, SizeFinal, Halted DEF Unconfigured
<1> QED
  BY <1>1, <1>2

(* No task sleeps in vain, whatever fails: the semaphore is down, and its  *)
(* post is still to come.  In particular dpcTask() and spiTask() never     *)
(* wait for each other.                                                    *)
THEOREM NobodyForgotten == Spec => []SleepersAreOwed
<1>1. Init => AsleepOn /\ OnTheWay /\ Unconfigured
  BY DEF Init, spi!Init, AsleepOn, OnTheWay, Unconfigured, Task, None
<1>2. StreamInv /\ StartInv /\ AsleepOn /\ OnTheWay /\ Unconfigured /\ [Next]_vars
        => AsleepOn' /\ OnTheWay' /\ Unconfigured'
  BY AsleepStep, OnTheWayStep, UnconfiguredStep
<1>3. StreamInv /\ AsleepOn /\ OnTheWay /\ Unconfigured => SleepersAreOwed
  <2> SUFFICES ASSUME StreamInv, AsleepOn, OnTheWay, Unconfigured PROVE SleepersAreOwed
    OBVIOUS
  <2>1. \A t \in Task : waits[t] # None => sem[waits[t]] = 0
    BY DEF AsleepOn
  <2>2. "dpuDone" # None /\ "txDone" # None /\ "txStart" # None
        /\ "mcspiDone" # None
    BY DEF None
  <2> QED
    BY <2>1, <2>2, Names
    DEF AsleepOn, OnTheWay, Unconfigured, StreamInv, Shared, SpiTurn, SleepersAreOwed
<1> QED
  BY <1>1, <1>2, <1>3, StartUp, Invariance, PTL DEF Spec
=============================================================================
