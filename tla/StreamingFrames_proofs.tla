----------------------- MODULE StreamingFrames_proofs -----------------------
(***************************************************************************)
(* What the host reads of the frames, for every number of chirps and every *)
(* counter width: the cube is never a mix of more than two frames that     *)
(* follow one another, and of one only when the cycle fits in the frame    *)
(* period.                                                                 *)
(***************************************************************************)
EXTENDS Streaming_proofs

\* The chirps that have been on the air of the current frame, or of the last one.
Past == IF chirp = 0 THEN ChirpsPerFrame ELSE chirp - 1

(***************************************************************************)
(* While the DPU fills the cube, what it has collected is the chirps that  *)
(* were last on the air: the end of frame p and the start of the frame     *)
(* that follows it, never more, as fewer than a frame's chirps are missing.*)
(***************************************************************************)
Seam ==
  /\ dpu = "armed" =>
       \E p \in Frame :
         /\ Count(p) = frame
         /\ \A i \in 1..collected : cube[i] = IF i > collected - Past THEN frame ELSE p
  /\ dpu # "armed" => \E p \in Frame : Stored(cube) \subseteq {p, Count(p)}

\* When the cycle fits, the trigger comes between frames.
InStep ==
  /\ dpu = "armed" =>
       /\ collected = (IF chirp = 0 THEN 0 ELSE chirp - 1)
       /\ \A i \in 1..collected : cube[i] = frame
  /\ dpu # "armed" => chirp = 0 /\ \A i \in 1..ChirpsPerFrame : cube[i] = frame

-----------------------------------------------------------------------------
\* Frame numbers wrap, so every one has a predecessor.
LEMMA Predecessor ==
  ASSUME NEW f \in Frame PROVE \E p \in Frame : Count(p) = f
<1>1. CASE f = 0
  <2>1. CounterMod - 1 \in Frame /\ Count(CounterMod - 1) = 0
    BY StreamingAssumption DEF Frame, Count
  <2> QED
    BY <1>1, <2>1
<1>2. CASE f # 0
  <2>1. f - 1 \in Frame /\ Count(f - 1) = f
    BY <1>2, StreamingAssumption DEF Frame, Count
  <2> QED
    BY <2>1
<1> QED
  BY <1>1, <1>2

\* Only three actions touch the frames and the cube or change whether the DPU is armed.
LEMMA CubeAlone ==
  ASSUME StreamInv, [Next]_vars, ~DpcTrigger, ~FrameStart, ~ChirpAvailable
  PROVE  /\ UNCHANGED <<chirp, frame, collected, cube>>
         /\ dpu' = "armed" <=> dpu = "armed"
<1> USE Names
<1>1. CASE Main \/ Spi \/ Rest \/ UNCHANGED vars \/ HostClocksWord \/ HostClocksEarly \/ DmaError
  BY <1>1
  DEF Main, MainCreateDpc, MainAwaitCfg, MainCreateSpi, MainStartSensor, MainPark,
      Spi, SpiCapture, SpiAwaitStart, SpiCall, SpiRuns, SpiBlocks, SpiWakes, SpiPostDone,
      HostClocksWord, HostClocksEarly, DmaError, Rest, vars, hwVars, rfVars, dpuVars
<1>2. CASE DpcRegister
  BY <1>2, Registering DEF hwVars, rfVars, dpuVars
<1>3. CASE DpcReset \/ DpcPostCfg \/ DpcPostStart \/ DpcAwaitDone
  BY <1>3 DEF DpcReset, DpcPostCfg, DpcPostStart, DpcAwaitDone, hwVars, rfVars, dpuVars
<1>4. CASE DpcConfig
  BY <1>4 DEF DpcConfig, Step, StreamInv, Shared, DpuTurn, rfVars
<1>5. CASE DpcProcess
  BY <1>5 DEF DpcProcess, Take, StreamInv, Shared, DpuTurn, rfVars
<1> QED
  BY <1>1, <1>2, <1>3, <1>4, <1>5 DEF Next, Dpc, Environment

\* What a trigger leaves of the frames, and when it may come.
LEMMA Trigger ==
  ASSUME StreamInv, DpcTrigger
  PROVE  /\ dpu # "armed"
         /\ UNCHANGED <<chirp, frame, cube>>
         /\ dpu' = "armed" => collected' = 0
BY DEF DpcTrigger, Step, Goto, StreamInv, Shared, KernelTypes, DpuTurn, rfVars

-----------------------------------------------------------------------------
LEMMA SeamTrigger ==
  ASSUME StreamInv, StreamInv', Seam, DpcTrigger PROVE Seam'
<1>1. ASSUME dpu' = "armed"
      PROVE  \E p \in Frame :
               /\ Count(p) = frame'
               /\ \A i \in 1..collected' : cube'[i] = IF i > collected' - Past' THEN frame' ELSE p
  <2>1. collected' = 0 /\ frame' \in Frame
    BY <1>1, Trigger DEF StreamInv, Shared, DataTypes
  <2>2. PICK p \in Frame : Count(p) = frame'
    BY <2>1, Predecessor
  <2> QED
    BY <2>1, <2>2
<1>2. dpu' # "armed" => \E p \in Frame : Stored(cube') \subseteq {p, Count(p)}
  BY Trigger DEF Seam
<1> QED
  BY <1>1, <1>2 DEF Seam, Count

LEMMA SeamFrameStart ==
  ASSUME StreamInv, Seam, FrameStart PROVE Seam'
<1>1. /\ UNCHANGED <<dpu, collected, cube>>
      /\ chirp = 0 /\ chirp' = 1 /\ frame' = Count(frame) /\ frame \in Frame
      /\ collected \in Nat
      /\ dpu = "armed" => collected < ChirpsPerFrame
  BY StreamingAssumption DEF FrameStart, dpuVars, StreamInv, Shared, DataTypes
<1>2. Past = ChirpsPerFrame /\ Past' = 0
  BY <1>1 DEF Past
<1>3. ASSUME dpu = "armed"
      PROVE  \A i \in 1..collected : cube[i] = frame
  BY <1>1, <1>2, <1>3, StreamingAssumption DEF Seam
<1>4. ASSUME dpu = "armed", NEW i \in 1..collected
      PROVE  cube'[i] = IF i > collected' - Past' THEN frame' ELSE frame
  BY <1>1, <1>2, <1>3, <1>4
<1> QED
  BY <1>1, <1>4 DEF Seam, Count

LEMMA SeamChirp ==
  ASSUME StreamInv, StreamInv', Seam, ChirpAvailable PROVE Seam'
<1> DEFINE K == ChirpsPerFrame
<1>1. /\ frame' = frame
      /\ chirp \in 1..K /\ K \in Nat \ {0}
      /\ chirp' = IF chirp = K THEN 0 ELSE chirp + 1
  BY StreamingAssumption DEF ChirpAvailable, StreamInv, Shared, DataTypes
<1>2. Past \in 0..K /\ Past' = Past + 1
  BY <1>1 DEF Past
<1>3. CASE dpu # "armed"
  BY <1>3 DEF ChirpAvailable, dpuVars, Seam
<1>4. CASE dpu = "armed"
  <2>1. /\ collected' = collected + 1
        /\ cube' = [cube EXCEPT ![collected'] = frame]
        /\ collected \in 0..K /\ collected < K
        /\ cube \in [1..K -> Frame]
    BY <1>4 DEF ChirpAvailable, StreamInv, Shared, DataTypes, Cube
  <2>2. PICK p \in Frame :
          /\ Count(p) = frame
          /\ \A i \in 1..collected : cube[i] = IF i > collected - Past THEN frame ELSE p
    BY <1>4 DEF Seam
  <2>3. ASSUME NEW i \in 1..collected'
        PROVE  cube'[i] = IF i > collected' - Past' THEN frame' ELSE p
    <3>1. collected' - Past' = collected - Past /\ collected - Past \in Int
      BY <1>2, <2>1
    <3>2. CASE i = collected'
      BY <1>1, <1>2, <2>1, <3>1, <3>2
    <3>3. CASE i # collected'
      <4>1. i \in 1..collected /\ cube'[i] = cube[i]
        BY <1>1, <2>1, <3>3
      <4> QED
        BY <1>1, <2>2, <3>1, <4>1
    <3> QED
      BY <3>2, <3>3
  <2>4. CASE dpu' = "armed"
    BY <1>1, <2>2, <2>3, <2>4 DEF Seam, Count
  <2>5. CASE dpu' # "armed"
    <3>1. collected' = K /\ DOMAIN cube' = 1..K
      BY <1>4, <2>1, <2>5 DEF ChirpAvailable
    <3>2. Stored(cube)' \subseteq {p, Count(p)}
      BY <1>1, <2>2, <2>3, <3>1 DEF Stored
    <3> QED
      BY <2>5, <3>2 DEF Seam, Count
  <2> QED
    BY <2>4, <2>5
<1> QED
  BY <1>3, <1>4

LEMMA SeamStep ==
  ASSUME StreamInv, StreamInv', Seam, [Next]_vars PROVE Seam'
<1>1. CASE ~DpcTrigger /\ ~FrameStart /\ ~ChirpAvailable
  <2>1. UNCHANGED <<chirp, frame, collected, cube>> /\ (dpu' = "armed" <=> dpu = "armed")
    BY <1>1, CubeAlone
  <2> QED
    BY <2>1 DEF Seam, Past, Stored, Count
<1> QED
  BY <1>1, SeamTrigger, SeamFrameStart, SeamChirp

(* When the front end overruns the cycle, the host reads a seam of two     *)
(* frames that follow one another, whatever fails and whenever frames      *)
(* start.                                                                  *)
THEOREM TwoFrames == Spec => []AtMostTwoFrames
<1>1. Init => Steady /\ Seam
  <2> SUFFICES ASSUME Init PROVE Steady /\ Seam
    OBVIOUS
  <2>1. dpu # "armed" /\ at = "out" /\ Stored(cube) \subseteq {0}
    BY DEF Init, spi!Init, BlankCube, Stored
  <2> QED
    BY <2>1, Counts DEF Steady, Seam
<1>2. StreamInv /\ StreamInv' /\ Steady /\ [Next]_vars => Steady'
  BY HandoverStep
<1>3. StreamInv /\ StreamInv' /\ Seam /\ [Next]_vars => Seam'
  BY SeamStep
<1>4. StreamInv /\ Steady /\ Seam => AtMostTwoFrames
  BY DEF StreamInv, Shared, SpiTurn, DpuTurn, Steady, Seam, AtMostTwoFrames
<1> QED
  BY <1>1, <1>2, <1>3, <1>4, Invariance, PTL DEF Spec

-----------------------------------------------------------------------------
LEMMA InStepChirp ==
  ASSUME StreamInv, InStep, ChirpAvailable PROVE InStep'
<1> DEFINE K == ChirpsPerFrame
<1>1. /\ frame' = frame
      /\ chirp \in 1..K /\ K \in Nat \ {0}
      /\ chirp' = IF chirp = K THEN 0 ELSE chirp + 1
  BY StreamingAssumption DEF ChirpAvailable, StreamInv, Shared, DataTypes
<1>2. /\ dpu = "armed"
      /\ collected = chirp - 1 /\ collected' = chirp
      /\ cube' = [cube EXCEPT ![chirp] = frame]
      /\ dpu' = IF chirp = K THEN "done" ELSE "armed"
      /\ cube \in [1..K -> Frame]
      /\ \A i \in 1..(chirp - 1) : cube[i] = frame
  BY <1>1 DEF InStep, ChirpAvailable, StreamInv, Shared, DataTypes, Cube
<1>3. \A i \in 1..chirp : cube'[i] = frame
  BY <1>1, <1>2
<1> QED
  BY <1>1, <1>2, <1>3 DEF InStep

LEMMA InStepStep ==
  ASSUME CycleFits, StreamInv, InStep, [Next]_vars PROVE InStep'
<1>1. CASE ~DpcTrigger /\ ~FrameStart /\ ~ChirpAvailable
  <2>1. UNCHANGED <<chirp, frame, collected, cube>> /\ (dpu' = "armed" <=> dpu = "armed")
    BY <1>1, CubeAlone
  <2> QED
    BY <2>1 DEF InStep
<1>2. CASE DpcTrigger
  BY <1>2, Trigger DEF InStep
<1>3. CASE FrameStart
  BY <1>3 DEF FrameStart, InStep, dpuVars
<1> QED
  BY <1>1, <1>2, <1>3, InStepChirp

(* When the cycle fits in the frame period, every cube the host reads is   *)
(* of one frame, the last one.                                             *)
THEOREM OneFrame == CycleFits => (Spec => []WholeFrame)
<1> SUFFICES ASSUME CycleFits PROVE Spec => []WholeFrame
  OBVIOUS
<1>1. Init => Steady /\ InStep
  BY DEF Init, spi!Init, BlankCube, Steady, InStep
<1>2. StreamInv /\ StreamInv' /\ Steady /\ [Next]_vars => Steady'
  BY HandoverStep
<1>3. StreamInv /\ InStep /\ [Next]_vars => InStep'
  BY InStepStep
<1>4. StreamInv /\ Steady /\ InStep => WholeFrame
  BY DEF StreamInv, Shared, DataTypes, Cube, SpiTurn, DpuTurn, Steady, InStep, Stored,
         WholeFrame
<1> QED
  BY <1>1, <1>2, <1>3, <1>4, Invariance, PTL DEF Spec

-----------------------------------------------------------------------------
(* The order of the frames.  Once a frame is on the air, and until its     *)
(* cube is opened for transmission, what was sent last is of the frame     *)
(* before it; at any other time it is of the last frame itself.            *)
NewFrame == Phase = "full" \/ (Phase = "filling" /\ chirp > 0)

Ordered == IF NewFrame THEN \A f \in seen : Count(f) = frame ELSE seen \subseteq {frame}

\* While the DPU is armed the cube is being filled, after a step as before it.
LEMMA StillFilling ==
  ASSUME StreamInv', dpu' = "armed" PROVE Phase' = "filling"
BY Names DEF StreamInv, Shared, KernelTypes, SpiTurn, DpuTurn, Phase, Full

\* A frame cannot start before the last one was sent.
LEMMA OrderedFrameStart ==
  ASSUME CycleFits, StreamInv, Ordered, FrameStart PROVE Ordered'
<1>1. UNCHANGED <<seen, Phase>> /\ Phase = "filling"
  BY QuietStep, PhaseOf DEF FrameStart
<1>2. chirp = 0 /\ chirp' = 1 /\ frame' = Count(frame)
  BY DEF FrameStart
<1> QED
  BY <1>1, <1>2 DEF Ordered, NewFrame, Count

\* The chirps of a frame fill the cube with it.
LEMMA OrderedChirp ==
  ASSUME StreamInv, StreamInv', InStep, Ordered, ChirpAvailable PROVE Ordered'
<1>1. chirp > 0 /\ dpu = "armed" /\ UNCHANGED <<seen, frame>>
  BY DEF ChirpAvailable, InStep
<1>2. NewFrame
  BY <1>1, PhaseOf DEF NewFrame
<1>3. NewFrame'
  <2>1. CASE dpu' = "armed"
    <3>1. chirp \in 1..ChirpsPerFrame /\ ChirpsPerFrame \in Nat
      BY <1>1, StreamingAssumption DEF StreamInv, Shared, DataTypes
    <3>2. collected = chirp - 1 /\ collected' = collected + 1 /\ collected' # ChirpsPerFrame
      BY <1>1, <2>1, <3>1 DEF InStep, ChirpAvailable
    <3>3. chirp' > 0
      BY <3>1, <3>2 DEF ChirpAvailable
    <3> QED
      BY <2>1, <3>3, StillFilling DEF NewFrame
  <2>2. CASE dpu' # "armed"
    <3>1. dpu' = "done" /\ at' = "out"
      BY <1>1, <2>2
      DEF ChirpAvailable, StreamInv, Shared, SpiTurn, DpuTurn, spiVars
    <3> QED
      BY <3>1 DEF Phase, Full, NewFrame
  <2> QED
    BY <2>1, <2>2
<1> QED
  BY <1>1, <1>2, <1>3 DEF Ordered, Count

\* A trigger comes between frames, on a cube that was sent.
LEMMA OrderedTrigger ==
  ASSUME StreamInv, StreamInv', Steady, InStep, Ordered, DpcTrigger PROVE Ordered'
<1>1. dpu # "armed" /\ UNCHANGED <<chirp, frame>> /\ chirp = 0
  BY Trigger DEF InStep
<1>2. seen' = seen
  BY DEF DpcTrigger
<1>3. ~Full /\ ~Full'
  BY Names
  DEF DpcTrigger, Step, Goto, StreamInv, Shared, KernelTypes, DataTypes, SpiTurn, DpuTurn,
      Full
<1>4. Phase # "full" /\ Phase' # "full"
  BY <1>3 DEF Phase
<1> QED
  BY <1>1, <1>2, <1>4 DEF Ordered, NewFrame

\* Every other step is one of the hand-over, and only its reader adds to seen.
LEMMA OrderedHandover ==
  ASSUME StreamInv, StreamInv', Steady, InStep, Ordered, [Next]_vars,
         ~DpcTrigger, ~FrameStart, ~ChirpAvailable
  PROVE  Ordered'
<1>1. UNCHANGED <<chirp, frame, collected, cube>> /\ (dpu' = "armed" <=> dpu = "armed")
  BY CubeAlone
<1>2. CASE Handover!Arm
  BY <1>1, <1>2, PhaseOf DEF Handover!Arm, InStep, Ordered, NewFrame
<1>3. CASE Handover!Fill
  <2>1. dpu = "armed"
    BY <1>3 DEF Handover!Fill, Phase
  <2>2. Phase' = "filling"
    BY <1>1, <2>1, StillFilling
  <2> QED
    BY <1>1, <1>3, <2>2 DEF Handover!Fill, Ordered, NewFrame, Count
<1>4. CASE Handover!Open
  BY <1>4 DEF Handover!Open, Ordered, NewFrame
<1>5. CASE Handover!Read
  <2>1. dpu # "armed" /\ Phase' = "draining"
    BY <1>5, PhaseOf DEF Handover!Read
  <2>2. Handover!Stored(cube) \subseteq {frame}
    BY <2>1 DEF InStep, Handover!Stored, StreamInv, Shared, DataTypes, Cube
  <2> QED
    BY <1>1, <1>5, <2>1, <2>2 DEF Handover!Read, Ordered, NewFrame
<1>6. CASE Handover!Close
  BY <1>1, <1>6 DEF Handover!Close, Ordered, NewFrame
<1>7. CASE UNCHANGED Handover!cubeVars
  BY <1>1, <1>7 DEF Handover!cubeVars, Ordered, NewFrame, Count
<1> QED
  BY <1>2, <1>3, <1>4, <1>5, <1>6, <1>7, HandoverStep DEF Handover!Next

(* When the cycle fits in the frame period, the frames go out in order,    *)
(* none twice and none left out, whatever fails.                           *)
THEOREM InOrder == CycleFits => (Spec => FramesInOrder)
<1> SUFFICES ASSUME CycleFits PROVE Spec => FramesInOrder
  OBVIOUS
<1>1. Init => Steady /\ InStep /\ Ordered
  BY DEF Init, spi!Init, BlankCube, Steady, InStep, Ordered
<1>2. StreamInv /\ StreamInv' /\ Steady /\ InStep /\ Ordered /\ [Next]_vars
        => Steady' /\ InStep' /\ Ordered'
  BY HandoverStep, InStepStep, OrderedFrameStart, OrderedChirp, OrderedTrigger,
     OrderedHandover
<1>3. StreamInv /\ InStep /\ Ordered => [SpiCall => \A f \in seen : Stored(cube) = {Count(f)}]_vars
  <2> SUFFICES ASSUME StreamInv, InStep, Ordered, SpiCall, NEW f \in seen
               PROVE  Stored(cube) = {Count(f)}
    OBVIOUS
  <2>1. Phase = "full"
    BY PhaseOf DEF SpiCall, Step, spi!Call, Full
  <2>2. Count(f) = frame
    BY <2>1 DEF Ordered, NewFrame
  <2>3. dpu # "armed" /\ DOMAIN cube = 1..ChirpsPerFrame
    BY <2>1, PhaseOf DEF StreamInv, Shared, DataTypes, Cube
  <2>4. \A i \in 1..ChirpsPerFrame : cube[i] = frame
    BY <2>3 DEF InStep
  <2>5. 1 \in 1..ChirpsPerFrame
    BY StreamingAssumption
  <2> QED
    BY <2>2, <2>3, <2>4, <2>5 DEF Stored
<1> QED
  BY <1>1, <1>2, <1>3, Invariance, PTL DEF Spec, FramesInOrder
=============================================================================
