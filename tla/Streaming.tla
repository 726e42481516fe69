------------------------------ MODULE Streaming ------------------------------
(***************************************************************************)
(* The streaming pipeline: freertos_main() from the creation of the first  *)
(* task on (src/main.c), dpcTask() (src/rangeproc_dpc.c) and spiTask() /   *)
(* spi_transmit_loop() (src/spi_transmit.c), their semaphores, and the     *)
(* hardware between them.  The SPI transfer itself is SpiTransfer.         *)
(*                                                                         *)
(* The front end, the range-processing DPU and the host are not under      *)
(* src/.  The front end ticks on its own once MMWave_start() was called;   *)
(* the DPU, once triggered, puts the next ChirpsPerFrame chirps into the   *)
(* radar cube and raises an interrupt.                                     *)
(***************************************************************************)
EXTENDS Kernel, Integers, Sequences, FiniteSets

CONSTANTS
  ChirpsPerFrame,         \* numChirpsPerFrame
  FrameCounts,            \* the values of h_NumOfFrames considered; 0: frames without end
  CounterMod,             \* 2^32 in the code: gFrameCount and gChirpCount wrap
  CubeBytes,              \* radarCube.dataSize
  MAX_SPI_TRANSFER_SIZE, InitialPins, HostIsSlow, CanFail,  \* see SpiTransfer
  CycleFits,              \* a frame is processed and sent before the next one starts
  MayFail                 \* which calls may fail

Calls == {"window", "config", "register", "control", "process", "start"}

\* The interrupts dpcTask() registers.
Interrupts == {"frameStart", "chirpStart", "chirpAvail"}

Endless == -1

Frame == 0..(CounterMod - 1)

Cube == [1..ChirpsPerFrame -> Frame]

\* Frame number 0 stands for whatever was in the cube before the first frame.
BlankCube == [i \in 1..ChirpsPerFrame |-> 0]

VARIABLES
  \* hardware
  rfOn,         \* MMWave_start() was called
  chirp,        \* the chirp on the air, 0 between frames
  frame,        \* the frame on the air, or the last one, modulo CounterMod
  framesLeft,   \* frames that have yet to start, or Endless
  dpu,          \* "none" before it is configured, then "idle", "armed" or "done"
  collected,    \* chirps since the trigger
  cube,         \* for every slot of the radar cube, the frame its chirp is of
  \* firmware
  isrOn,        \* the interrupts that are registered
  gFrameCount, gChirpCount,
  cubeBytes,    \* hwRes.radarCube.dataSize, 0 until RangeProc_config() sets it
  spiBytes,     \* radarCubeBytes: the copy spi_transmit_loop() took of it
  seen,         \* the frames the host received words of, in this transmission
  \* spi_transfer_buffer()
  at, totalBytes, bytesRemaining, chunkIndex, chunk, transferOK,
  pin, mcspi, wire, early

spi == INSTANCE SpiTransfer WITH Sizes <- {0, CubeBytes}

ASSUME StreamingAssumption ==
  /\ ChirpsPerFrame \in Nat \ {0}
  /\ FrameCounts \subseteq Nat
  /\ CounterMod \in Nat \ {0}
  /\ CubeBytes \in Nat \ {0}
  /\ CycleFits \in BOOLEAN
  /\ MayFail \subseteq Calls
  /\ spi!SpiConstants

rfVars   == <<rfOn, chirp, frame, framesLeft>>
dpuVars  == <<dpu, collected, cube>>
isrVars  == <<isrOn, gFrameCount, gChirpCount>>
sizeVars == <<cubeBytes, spiBytes>>
spiVars  == <<at, totalBytes, bytesRemaining, chunkIndex, chunk, transferOK,
              pin, mcspi, wire, early>>
hwVars   == <<rfVars, dpuVars>>
vars     == <<kernelVars, rfVars, dpuVars, isrVars, sizeVars, seen, spiVars>>

DpcAt == {"absent", "reset", "config", "postCfg", "regFrameStart", "regChirp",
          "regChirpAvail", "trigger", "process", "postStart", "pendDone", "retrigger",
          "halted"}
MainAt == {"createDpc", "pendCfg", "createSpi", "startSensor", "pendMain", "halted"}
SpiAt == {"absent", "capture", "pendStart", "call", "transfer", "postDone"}

TypeOK ==
  /\ pc \in [Task -> DpcAt \cup MainAt \cup SpiAt]
  /\ pc["main"] \in MainAt /\ pc["dpc"] \in DpcAt /\ pc["spi"] \in SpiAt
  /\ sem \in [Sem -> {0, 1}]
  /\ waits \in [Task -> Sem \cup {None}]
  /\ rfOn \in BOOLEAN
  /\ chirp \in 0..ChirpsPerFrame
  /\ frame \in Frame
  /\ framesLeft \in Nat \cup {Endless}
  /\ dpu \in {"none", "idle", "armed", "done"}
  /\ collected \in 0..ChirpsPerFrame
  /\ cube \in Cube
  /\ isrOn \subseteq Interrupts
  /\ gFrameCount \in Frame /\ gChirpCount \in Frame
  /\ cubeBytes \in {0, CubeBytes}
  /\ spiBytes \in {0, CubeBytes}
  /\ seen \in SUBSET Frame
  /\ spi!SpiTypeOK

Init ==
  /\ pc = [main |-> "createDpc", dpc |-> "absent", spi |-> "absent"]
  /\ sem = [s \in Sem |-> 0]
  /\ waits = [t \in Task |-> None]
  /\ rfOn = FALSE /\ chirp = 0 /\ frame = 0
  /\ framesLeft \in {IF n = 0 THEN Endless ELSE n : n \in FrameCounts}
  /\ dpu = "none" /\ collected = 0 /\ cube = BlankCube
  /\ isrOn = {} /\ gFrameCount = 0 /\ gChirpCount = 0
  /\ cubeBytes = 0 /\ spiBytes = 0
  /\ seen = {}
  /\ spi!Init

\* The running task t is at point here and goes on to point next.
Step(t, here, next) ==
  /\ Running(t)
  /\ pc[t] = here
  /\ Goto(t, next)

-----------------------------------------------------------------------------
(* freertos_main(), from xTaskCreateStatic(dpcTask) on.  Here and below, a *)
(* *Fault operator is a plausible slip in the definition that follows it;  *)
(* nothing uses it.                                                        *)

MainCreateDpc ==
  /\ Running("main")
  /\ pc["main"] = "createDpc"
  /\ pc' = [pc EXCEPT !["main"] = "pendCfg", !["dpc"] = "reset"]
  /\ UNCHANGED <<sem, waits, hwVars, isrVars, sizeVars, seen, spiVars>>

MainAwaitCfg ==
  /\ pc["main"] = "pendCfg"
  /\ Take("main", "dpcCfgDone", "createSpi") \/ Block("main", "dpcCfgDone")
  /\ UNCHANGED <<hwVars, isrVars, sizeVars, seen, spiVars>>

MainCreateSpi ==
  /\ Running("main")
  /\ pc["main"] = "createSpi"
  /\ pc' = [pc EXCEPT !["main"] = "startSensor", !["spi"] = "capture"]
  /\ UNCHANGED <<sem, waits, hwVars, isrVars, sizeVars, seen, spiVars>>

\* mmwave_startSensor(): the front end starts ticking, or exit(1).
MainStartSensor ==
  /\ \/ Step("main", "startSensor", "pendMain") /\ rfOn' = TRUE
     \/ "start" \in MayFail /\ Step("main", "startSensor", "halted") /\ rfOn' = FALSE
  /\ UNCHANGED <<sem, waits, chirp, frame, framesLeft, dpuVars, isrVars, sizeVars, seen, spiVars>>

\* pend_main_sem: nobody posts it, so the shutdown code behind it is dead.
MainPark ==
  /\ pc["main"] = "pendMain"
  /\ Block("main", "pendMain")
  /\ UNCHANGED <<hwVars, isrVars, sizeVars, seen, spiVars>>

Main == MainCreateDpc \/ MainAwaitCfg \/ MainCreateSpi \/ MainStartSensor \/ MainPark

-----------------------------------------------------------------------------
(* dpcTask().  A failed DebugP_assert() or exit() spins: the task stays    *)
(* ready and never moves again.                                            *)

DpcReset ==
  /\ Step("dpc", "reset", "config")
  /\ gChirpCount' = 0 /\ gFrameCount' = 0
  /\ UNCHANGED <<sem, waits, hwVars, isrOn, sizeVars, seen, spiVars>>

\* The size set before the early return.
DpcConfigFault ==
  /\ Step("dpc", "config", "postCfg")
  /\ cubeBytes' = CubeBytes
  /\ dpu' \in {"idle"} \cup IF "window" \in MayFail THEN {dpu} ELSE {}
  /\ UNCHANGED <<sem, waits, rfVars, collected, cube, isrVars, spiBytes, seen, spiVars>>

(***************************************************************************)
(* RangeProc_config().  It clears the configuration, and returns early,    *)
(* leaving the cube size 0 and the DPU alone, if there is no memory for    *)
(* the window; otherwise it sets the cube and configures the DPU.  It ends *)
(* the program before there is a cube, over an unknown MIMO pattern, or    *)
(* after, over the DPU's error.                                            *)
(***************************************************************************)
DpcConfig ==
  /\ \/ /\ Step("dpc", "config", "postCfg")
        /\ cubeBytes' = CubeBytes
        /\ dpu' = "idle"
     \/ /\ "window" \in MayFail
        /\ Step("dpc", "config", "postCfg")
        /\ cubeBytes' = 0
        /\ UNCHANGED dpu
     \/ /\ "config" \in MayFail
        /\ Step("dpc", "config", "halted")
        /\ cubeBytes' \in {0, CubeBytes}
        /\ UNCHANGED dpu
  /\ UNCHANGED <<sem, waits, rfVars, collected, cube, isrVars, spiBytes, seen, spiVars>>

DpcPostCfg ==
  /\ Step("dpc", "postCfg", "regFrameStart")
  /\ Post("dpcCfgDone")
  /\ UNCHANGED <<hwVars, isrVars, sizeVars, seen, spiVars>>

\* HwiP_construct() of one interrupt; the caller asserts that it succeeds.
Register(interrupt, here, next) ==
  /\ \/ Step("dpc", here, next) /\ isrOn' = isrOn \cup {interrupt}
     \/ "register" \in MayFail /\ Step("dpc", here, "halted") /\ UNCHANGED isrOn
  /\ UNCHANGED <<sem, waits, hwVars, gFrameCount, gChirpCount, sizeVars, seen, spiVars>>

registerFrameStartInterrupt == Register("frameStart", "regFrameStart", "regChirp")

\* chirpStartISR() only clears the interrupt.
registerChirpInterrupt == Register("chirpStart", "regChirp", "regChirpAvail")

registerChirpAvailableInterrupts == Register("chirpAvail", "regChirpAvail", "trigger")

DpcRegister == registerFrameStartInterrupt \/ registerChirpInterrupt
                 \/ registerChirpAvailableInterrupts

\* DPU_RangeProcHWA_control(triggerProc), for the first frame and for the next.
DpcTrigger ==
  /\ pc["dpc"] \in {"trigger", "retrigger"}
  /\ \/ /\ Step("dpc", pc["dpc"], "process")
        /\ dpu' = IF dpu = "none" THEN "none" ELSE "armed"
        /\ collected' = 0
     \/ /\ "control" \in MayFail
        /\ Step("dpc", pc["dpc"], "halted")
        /\ UNCHANGED <<dpu, collected>>
  /\ UNCHANGED <<sem, waits, rfVars, cube, isrVars, sizeVars, seen, spiVars>>

\* DPU_RangeProcHWA_process(): blocks until the DPU's interrupt.
DpcProcess ==
  /\ pc["dpc"] = "process"
  /\ \/ Take("dpc", "dpuDone", "postStart") /\ dpu' = "idle"
     \/ Block("dpc", "dpuDone") /\ UNCHANGED dpu
     \/ "process" \in MayFail /\ Take("dpc", "dpuDone", "halted") /\ UNCHANGED dpu
  /\ UNCHANGED <<rfVars, collected, cube, isrVars, sizeVars, seen, spiVars>>

DpcPostStart ==
  /\ Step("dpc", "postStart", "pendDone")
  /\ Post("txStart")
  /\ UNCHANGED <<hwVars, isrVars, sizeVars, seen, spiVars>>

DpcAwaitDoneFault ==
  /\ Step("dpc", "pendDone", "retrigger")
  /\ UNCHANGED <<sem, waits, hwVars, isrVars, sizeVars, seen, spiVars>>

DpcAwaitDone ==
  /\ pc["dpc"] = "pendDone"
  /\ Take("dpc", "txDone", "retrigger") \/ Block("dpc", "txDone")
  /\ UNCHANGED <<hwVars, isrVars, sizeVars, seen, spiVars>>

Dpc == DpcReset \/ DpcConfig \/ DpcPostCfg \/ DpcRegister \/ DpcTrigger
         \/ DpcProcess \/ DpcPostStart \/ DpcAwaitDone

-----------------------------------------------------------------------------
(* spi_transmit_loop(). *)

SpiCapture ==
  /\ Step("spi", "capture", "pendStart")
  /\ spiBytes' = cubeBytes
  /\ UNCHANGED <<sem, waits, hwVars, isrVars, cubeBytes, seen, spiVars>>

SpiAwaitStart ==
  /\ pc["spi"] = "pendStart"
  /\ Take("spi", "txStart", "call") \/ Block("spi", "txStart")
  /\ UNCHANGED <<hwVars, isrVars, sizeVars, seen, spiVars>>

SpiCall ==
  /\ Step("spi", "call", "transfer")
  /\ spi!Call(spiBytes)
  /\ seen' = {}
  /\ UNCHANGED <<sem, waits, hwVars, isrVars, sizeVars>>

\* A step inside spi_transfer_buffer(); its return leads to the post.
SpiRuns ==
  /\ spi!StartChunk \/ spi!Transfer \/ spi!TransferRejected \/ spi!Return
  /\ Step("spi", "transfer", IF at' = "out" THEN "postDone" ELSE "transfer")
  /\ UNCHANGED <<sem, waits, hwVars, isrVars, sizeVars, seen>>

\* MCSPI_transfer() blocks until the DMA interrupt, then returns its verdict.
SpiBlocks ==
  /\ pc["spi"] = "transfer"
  /\ at = "wait"
  /\ Block("spi", "mcspiDone")
  /\ UNCHANGED <<hwVars, isrVars, sizeVars, seen, spiVars>>

SpiWakes ==
  /\ pc["spi"] = "transfer"
  /\ spi!FinishChunk \/ spi!TransferFailed
  /\ Take("spi", "mcspiDone", IF at' = "out" THEN "postDone" ELSE "transfer")
  /\ UNCHANGED <<hwVars, isrVars, sizeVars, seen>>

\* The next start awaited without a post when the transfer failed.
SpiPostDoneFault ==
  /\ Step("spi", "postDone", "pendStart")
  /\ IF transferOK THEN Post("txDone") ELSE UNCHANGED <<sem, waits>>
  /\ UNCHANGED <<hwVars, isrVars, sizeVars, seen, spiVars>>

\* Posted whether or not the transfer succeeded.
SpiPostDone ==
  /\ Step("spi", "postDone", "pendStart")
  /\ Post("txDone")
  /\ UNCHANGED <<hwVars, isrVars, sizeVars, seen, spiVars>>

Spi == SpiCapture \/ SpiAwaitStart \/ SpiCall \/ SpiRuns \/ SpiBlocks
         \/ SpiWakes \/ SpiPostDone

-----------------------------------------------------------------------------
(* Front end and DPU. *)

CountFault(n) == n + 1

Count(n) == (n + 1) % CounterMod

(***************************************************************************)
(* A frame starts on the front end's own timer.  CycleFits is the timing   *)
(* assumption that the pipeline is armed and waiting by then.              *)
(* frameStartISR() counts it.  The frames end when h_NumOfFrames have gone *)
(* out, unless that is 0.                                                  *)
(***************************************************************************)
FrameStart ==
  /\ rfOn
  /\ chirp = 0
  /\ framesLeft # 0
  /\ CycleFits => dpu = "armed" /\ collected = 0
  /\ chirp' = 1
  /\ frame' = Count(frame)
  /\ framesLeft' = IF framesLeft = Endless THEN Endless ELSE framesLeft - 1
  /\ gFrameCount' = IF "frameStart" \in isrOn THEN Count(gFrameCount) ELSE gFrameCount
  /\ UNCHANGED <<kernelVars, rfOn, dpuVars, isrOn, gChirpCount, sizeVars, seen, spiVars>>

(***************************************************************************)
(* The samples of a chirp are available.  ChirpAvailISR() counts it, an    *)
(* armed DPU stores it, and interrupts after the last one.                 *)
(***************************************************************************)
ChirpAvailable ==
  /\ chirp > 0
  /\ chirp' = (chirp + 1) % (ChirpsPerFrame + 1)
  /\ gChirpCount' = IF "chirpAvail" \in isrOn THEN Count(gChirpCount) ELSE gChirpCount
  /\ IF dpu = "armed"
       THEN /\ collected' = collected + 1
            /\ cube' = [cube EXCEPT ![collected'] = frame]
            /\ IF collected' = ChirpsPerFrame
                 THEN dpu' = "done" /\ Post("dpuDone")
                 ELSE UNCHANGED <<dpu, sem, waits>>
       ELSE UNCHANGED <<dpuVars, sem, waits>>
  /\ UNCHANGED <<pc, rfOn, frame, framesLeft, isrOn, gFrameCount, sizeVars, seen, spiVars>>

(* The host and the SPI DMA, which reads the cube as the host clocks. *)

Stored(c) == { c[i] : i \in DOMAIN c }

HostClocksWord ==
  /\ spi!HostClocksWord
  /\ IF mcspi' = "armed" THEN UNCHANGED <<sem, waits>> ELSE Post("mcspiDone")
  /\ seen' = seen \cup Stored(cube)
  /\ UNCHANGED <<pc, hwVars, isrVars, sizeVars>>

HostClocksEarly ==
  /\ spi!HostClocksEarly
  /\ UNCHANGED <<kernelVars, hwVars, isrVars, sizeVars, seen>>

DmaError ==
  /\ spi!DmaError
  /\ Post("mcspiDone")
  /\ UNCHANGED <<pc, hwVars, isrVars, sizeVars, seen>>

-----------------------------------------------------------------------------
Environment == FrameStart \/ ChirpAvailable \/ HostClocksWord \/ HostClocksEarly
                 \/ DmaError

(***************************************************************************)
(* The only way the system may come to a stop when nothing fails: the last *)
(* frame is over and every task waits, dpcTask() for a frame that will not *)
(* come.  A step of its own, so that any other stop is a deadlock.         *)
(***************************************************************************)
AllWait ==
  /\ waits = [main |-> "pendMain", dpc |-> "dpuDone", spi |-> "txStart"]
  /\ sem = [s \in Sem |-> 0]

Rest ==
  /\ rfOn /\ framesLeft = 0 /\ chirp = 0
  /\ AllWait
  /\ UNCHANGED vars

Next == Main \/ Dpc \/ Spi \/ Environment \/ Rest

Spec == Init /\ [][Next]_vars

(***************************************************************************)
(* The scheduler lets the running task run, the front end keeps ticking    *)
(* and the host reads what is offered.  No fairness for errors.            *)
(***************************************************************************)
Fairness ==
  /\ WF_vars(Main \/ Dpc \/ Spi)
  /\ WF_vars(FrameStart \/ ChirpAvailable)
  /\ WF_vars(HostClocksWord)

FairSpec == Spec /\ Fairness

-----------------------------------------------------------------------------
(***************************************************************************)
(* The radar cube has one user at a time: while spi_transfer_buffer() is   *)
(* on the cube, the DPU is neither filling it nor about to.                *)
(***************************************************************************)
CubeExclusive == at # "out" => dpu = "idle"

(***************************************************************************)
(* No wake-up is lost: a binary semaphore is down whenever someone is      *)
(* about to post it, so no post falls on one that is already up.           *)
(***************************************************************************)
NoLostPost ==
  /\ pc["dpc"] = "postCfg"   => sem["dpcCfgDone"] = 0
  /\ pc["dpc"] = "postStart" => sem["txStart"] = 0
  /\ pc["spi"] = "postDone"  => sem["txDone"] = 0
  /\ dpu = "armed"           => sem["dpuDone"] = 0
  /\ mcspi = "armed"         => sem["mcspiDone"] = 0

(***************************************************************************)
(* Nobody sleeps in vain.  A task is asleep only on a semaphore that is    *)
(* down and that the code behind it is still bound to post: dpcTask() on   *)
(* the DPU it has armed, the two tasks never on each other.  Without end   *)
(* only freertos_main() sleeps, on pend_main_sem, and dpcTask() for a DPU  *)
(* that was left unconfigured.  For the configuration freertos_main()      *)
(* never sleeps: when the priorities let it pend, the post is there.       *)
(***************************************************************************)
SleepersAreOwed ==
  /\ \A t \in Task : waits[t] # None => sem[waits[t]] = 0
  /\ waits["main"] \in {None, "pendMain"}
  /\ waits["dpc"] = "dpuDone" => dpu = "armed" \/ (dpu = "none" /\ cubeBytes = 0)
  /\ waits["dpc"] = "txDone" =>
       sem["txStart"] = 1 \/ pc["spi"] \in {"call", "transfer", "postDone"}
  /\ waits["spi"] = "txStart" => pc["dpc"] # "pendDone" \/ sem["txDone"] = 1
  /\ waits["spi"] = "mcspiDone" => mcspi = "armed"

(***************************************************************************)
(* The sensor starts last: by then the interrupts are registered, the DPU  *)
(* has its first trigger and the SPI task has copied the cube size.        *)
(* Nothing but the task priorities orders mmwave_startSensor() after the   *)
(* registration, the trigger and the copy.                                 *)
(***************************************************************************)
SensorStartsLast ==
  rfOn => /\ isrOn = Interrupts
          /\ pc["dpc"] \in {"process", "postStart", "pendDone", "retrigger", "halted"}
          /\ pc["spi"] \notin {"absent", "capture"}
          /\ spiBytes = cubeBytes

(***************************************************************************)
(* The debug counters are exact, up to their wrap-around: they start at 0, *)
(* before the first frame, and count every frame and every chirp.          *)
(***************************************************************************)
ChirpsToCome == IF chirp = 0 THEN 0 ELSE ChirpsPerFrame - chirp + 1

CountersExact ==
  rfOn => /\ gFrameCount = frame
          /\ (gChirpCount + ChirpsToCome) % CounterMod
               = (ChirpsPerFrame * frame) % CounterMod

(***************************************************************************)
(* A transmission that succeeds has sent the whole cube, of the size that  *)
(* RangeProc_config() computed, not of what the size was earlier.          *)
(***************************************************************************)
CubeSentWhole ==
  pc["spi"] = "postDone" /\ transferOK => spi!BYTES_PER_FRAME * Len(wire) = CubeBytes

(***************************************************************************)
(* When the cycle fits in the frame period, every cube the host reads is   *)
(* of one frame, the last one.                                             *)
(***************************************************************************)
WholeFrame == at # "out" => seen \subseteq {frame}

(***************************************************************************)
(* When the cycle fits in the frame period, the frames go out in order,    *)
(* none twice and none left out: the cube a transmission starts on is of   *)
(* the frame after the one that was sent last.                             *)
(***************************************************************************)
FramesInOrder == [][SpiCall => \A f \in seen : Stored(cube) = {Count(f)}]_vars

(***************************************************************************)
(* When the cycle fits in the frame period and no call fails, every frame  *)
(* the DPU has processed reaches the host, complete and unmixed.           *)
(***************************************************************************)
FrameReachesHost ==
  \A f \in Frame :
    (dpu = "done" /\ frame = f) ~> (pc["spi"] = "postDone" /\ transferOK /\ seen = {f})

(***************************************************************************)
(* When the front end overruns the cycle, the cube the host reads is a     *)
(* seam of two frames that follow one another, never of more: what was     *)
(* left of one when the DPU was triggered, and the start of the next.      *)
(***************************************************************************)
AtMostTwoFrames ==
  at # "out" => \E f \in Frame : seen \subseteq {f, Count(f)}

(***************************************************************************)
(* Failed transfers do not stop the pipeline: the DPU is triggered again   *)
(* and again, as spi_tx_done_sem is posted whatever the transfer returned. *)
(***************************************************************************)
PipelineLive == framesLeft = Endless => []<>(dpu = "armed")

(***************************************************************************)
(* After the last of a finite number of frames the pipeline drains: every  *)
(* transmission still under way ends, as sent or as failed, and the tasks  *)
(* come to wait for a next frame and not for one another.                  *)
(***************************************************************************)
QuietAfterLast == rfOn /\ framesLeft = 0 /\ chirp = 0 ~> AllWait /\ at = "out"

(***************************************************************************)
(* "after the chunk transfer completes, the SPI_BUSY pin is set to high    *)
(* again" (README): while the DPU has the cube the host is kept from       *)
(* reading, once a first transmission has put the pin under control.       *)
(***************************************************************************)
PinHighWhileFilling == dpu = "armed" /\ totalBytes > 0 => pin = "high"

-----------------------------------------------------------------------------
(***************************************************************************)
(* The hand-over of the cube.  It is full from the DPU's interrupt until   *)
(* spi_transfer_buffer() is called.                                        *)
(***************************************************************************)
Full ==
  \/ dpu = "done"
  \/ pc["dpc"] = "postStart"
  \/ sem["txStart"] = 1
  \/ pc["spi"] = "call"

Phase ==
  IF at # "out" THEN "draining"
  ELSE IF Full THEN "full"
  ELSE IF dpu = "armed" THEN "filling"
  ELSE "idle"

Handover == INSTANCE CubeHandover WITH Contents <- Cube, phase <- Phase

(***************************************************************************)
(* The two tasks, the DPU and the SPI DMA implement the hand-over.         *)
(***************************************************************************)
ImplementsHandover == Handover!Spec

(* The report: posted, and perhaps taken by the main task since.           *)
CfgReported == sem["dpcCfgDone"] = 1 \/ pc["main"] \notin {"createDpc", "pendCfg"}

Contract == INSTANCE ConfigContract WITH
  CubeSizes <- {0, CubeBytes}, reported <- CfgReported, ready <- (dpu # "none"),
  size <- cubeBytes

(***************************************************************************)
(* The configuration is reported once, complete or without a cube, and is  *)
(* final: no later step of any task changes what spiTask() copied.         *)
(***************************************************************************)
KeepsContract == Contract!Spec
=============================================================================
