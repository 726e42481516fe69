---------------------- MODULE StreamingCounters_proofs ----------------------
(***************************************************************************)
(* The debug counters are exact modulo their width, for every width and    *)
(* every number of chirps: no frame goes by before frameStartISR() is in   *)
(* place, and the wrap-around of one counter does not break the other.     *)
(***************************************************************************)
EXTENDS StreamingStart_proofs

\* What gChirpCount misses of a multiple of CounterMod, and nothing is lost.
Exact ==
  \E q \in Int :
    gChirpCount + ChirpsToCome = (ChirpsPerFrame * frame) + (CounterMod * q)

CountInv ==
  /\ gFrameCount = frame
  /\ ~rfOn => chirp = 0 /\ frame = 0 /\ gChirpCount = 0
  /\ Exact

-----------------------------------------------------------------------------
(* Division of integers, as the provers know it for one divisor at a time. *)
LEMMA Remainder ==
  ASSUME NEW m \in Nat \ {0}, NEW a \in Int
  PROVE  \E u \in Int, r \in Int : r = a % m /\ 0 <= r /\ r < m /\ a = (m * u) + r
<1>1. a \div m \in Int /\ a % m \in Int /\ 0 <= a % m /\ a % m < m
      /\ a = (m * (a \div m)) + (a % m)
  OBVIOUS
<1> QED
  BY <1>1

LEMMA NoMultipleBetween ==
  ASSUME NEW m \in Nat \ {0}, NEW k \in Int, -m < m * k, m * k < m
  PROVE  k = 0
<1>1. CASE k >= 1
  <2>1. m * k >= m
    BY <1>1
  <2> QED
    BY <2>1
<1>2. CASE k <= -1
  <2>1. m * k <= -m
    BY <1>2
  <2> QED
    BY <2>1
<1> QED
  BY <1>1, <1>2

LEMMA SameRemainder ==
  ASSUME NEW m \in Nat \ {0}, NEW a \in Int, NEW b \in Int, NEW q \in Int,
         a = b + (m * q)
  PROVE  a % m = b % m
<1>1. PICK u \in Int, r \in Int : r = a % m /\ 0 <= r /\ r < m /\ a = (m * u) + r
  BY Remainder
<1>2. PICK v \in Int, s \in Int : s = b % m /\ 0 <= s /\ s < m /\ b = (m * v) + s
  BY Remainder
<1>3. /\ m * (v + q - u) = (m * v) + (m * q) - (m * u)
      /\ m * v \in Int /\ m * q \in Int /\ m * u \in Int
  OBVIOUS
<1>4. r - s = m * (v + q - u)
  <2> DEFINE x == m * u
             y == m * v
             z == m * q
  <2>1. /\ x \in Int /\ y \in Int /\ z \in Int
        /\ a = x + r /\ b = y + s /\ a = b + z
        /\ m * (v + q - u) = y + z - x
    BY <1>1, <1>2, <1>3
  <2> HIDE DEF x, y, z
  <2> QED
    BY <2>1
<1>5. v + q - u = 0
  BY <1>1, <1>2, <1>4, NoMultipleBetween
<1>6. m * (v + q - u) = 0
  BY <1>5
<1>7. r = s
  BY <1>4, <1>6
<1> QED
  BY <1>1, <1>2, <1>7, Zenon

\* Counting on is adding one, less the width if the counter wraps.
LEMMA Counting ==
  ASSUME NEW n \in Frame
  PROVE  \E w \in {0, 1} : Count(n) = n + 1 - (CounterMod * w)
<1>1. CASE n = CounterMod - 1
  BY <1>1, StreamingAssumption DEF Frame, Count
<1>2. CASE n # CounterMod - 1
  BY <1>2, StreamingAssumption DEF Frame, Count
<1> QED
  BY <1>1, <1>2

-----------------------------------------------------------------------------
LEMMA CountFrameStart ==
  ASSUME StreamInv, SensorStartsLast, CountInv, FrameStart PROVE CountInv'
<1>1. /\ rfOn /\ rfOn' /\ chirp = 0 /\ chirp' = 1
      /\ frame \in Frame /\ frame' = Count(frame)
      /\ gFrameCount' = frame' /\ gChirpCount' = gChirpCount
      /\ gChirpCount \in Int
  BY StreamingAssumption
  DEF FrameStart, SensorStartsLast, Interrupts, CountInv, StreamInv, Shared, DataTypes, Frame
<1>2. PICK q \in Int :
        gChirpCount + ChirpsToCome = (ChirpsPerFrame * frame) + (CounterMod * q)
  BY DEF CountInv, Exact
<1>3. PICK w \in {0, 1} : frame' = frame + 1 - (CounterMod * w)
  BY <1>1, Counting
<1> DEFINE p == q + (ChirpsPerFrame * w)
<1>4. gChirpCount = (ChirpsPerFrame * frame) + (CounterMod * q)
  BY <1>1, <1>2, StreamingAssumption DEF ChirpsToCome, Frame
<1>5. ChirpsToCome' = ChirpsPerFrame
  BY <1>1, StreamingAssumption DEF ChirpsToCome
<1>6. gChirpCount' + ChirpsToCome' = (ChirpsPerFrame * frame') + (CounterMod * p)
  <2>1. CASE w = 0
    <3>1. frame' = frame + 1 /\ p = q /\ frame \in Int
      BY <1>1, <1>3, <2>1, StreamingAssumption DEF Frame
    <3>2. ChirpsPerFrame * (frame + 1) = (ChirpsPerFrame * frame) + ChirpsPerFrame
      BY <3>1, StreamingAssumption
    <3> QED
      BY <1>1, <1>4, <1>5, <3>1, <3>2, StreamingAssumption
  <2>2. CASE w = 1
    <3>1. frame' = 0 /\ frame = CounterMod - 1 /\ p = q + ChirpsPerFrame
      BY <1>1, <1>3, <2>2, StreamingAssumption DEF Frame, Count
    <3>2. ChirpsPerFrame * (CounterMod - 1) = (ChirpsPerFrame * CounterMod) - ChirpsPerFrame
      BY StreamingAssumption
    <3>3. CounterMod * (q + ChirpsPerFrame) = (CounterMod * q) + (ChirpsPerFrame * CounterMod)
      BY StreamingAssumption
    <3> QED
      BY <1>1, <1>4, <1>5, <3>1, <3>2, <3>3, StreamingAssumption
  <2> QED
    BY <2>1, <2>2
<1>7. p \in Int
  BY StreamingAssumption
<1>8. Exact'
  BY <1>6, <1>7 DEF Exact
<1> QED
  BY <1>1, <1>8 DEF CountInv

LEMMA CountChirp ==
  ASSUME StreamInv, SensorStartsLast, CountInv, ChirpAvailable PROVE CountInv'
<1>1. /\ rfOn /\ rfOn' /\ frame' = frame /\ gFrameCount' = gFrameCount
      /\ chirp \in 1..ChirpsPerFrame
      /\ chirp' = IF chirp = ChirpsPerFrame THEN 0 ELSE chirp + 1
      /\ gChirpCount \in Frame /\ gChirpCount' = Count(gChirpCount)
  BY StreamingAssumption
  DEF ChirpAvailable, SensorStartsLast, Interrupts, CountInv, StreamInv, Shared, DataTypes
<1>2. PICK q \in Int :
        gChirpCount + ChirpsToCome = (ChirpsPerFrame * frame) + (CounterMod * q)
  BY DEF CountInv, Exact
<1>3. PICK w \in {0, 1} : gChirpCount' = gChirpCount + 1 - (CounterMod * w)
  BY <1>1, Counting
<1>4. ChirpsToCome' = ChirpsToCome - 1 /\ ChirpsToCome \in Int
  BY <1>1, StreamingAssumption DEF ChirpsToCome
<1>5. /\ CounterMod * (q - w) = (CounterMod * q) - (CounterMod * w)
      /\ CounterMod * q \in Int /\ CounterMod * w \in Int
      /\ gChirpCount \in Int /\ ChirpsPerFrame * frame \in Int
  BY <1>1, StreamingAssumption DEF Frame, StreamInv, Shared, DataTypes
<1>6. gChirpCount' + ChirpsToCome' = (ChirpsPerFrame * frame') + (CounterMod * (q - w))
  BY <1>1, <1>2, <1>3, <1>4, <1>5
<1>7. Exact'
  BY <1>6 DEF Exact
<1> QED
  BY <1>1, <1>7 DEF CountInv

LEMMA CountStep ==
  ASSUME StreamInv, StartInv, CountInv, [Next]_vars PROVE CountInv'
<1> USE Names DEF StartInv
<1>1. CASE FrameStart
  BY <1>1, CountFrameStart
<1>2. CASE ChirpAvailable
  BY <1>2, CountChirp
<1>3. CASE MainStartSensor
  <2>1. ~rfOn
    BY <1>3 DEF MainStartSensor, Step, HeldBack
  <2> QED
    BY <1>3, <2>1 DEF MainStartSensor, isrVars, CountInv, Exact, ChirpsToCome
<1>4. CASE DpcReset
  <2>1. ~rfOn
    BY <1>4 DEF DpcReset, Step, SensorStartsLast
  <2> QED
    BY <1>4, <2>1
    DEF DpcReset, Step, hwVars, rfVars, CountInv, Exact, ChirpsToCome
<1>5. CASE ~FrameStart /\ ~ChirpAvailable /\ ~MainStartSensor /\ ~DpcReset
  <2>1. UNCHANGED <<rfOn, chirp, frame, gFrameCount, gChirpCount>>
    <3> USE DEF hwVars, rfVars, isrVars
    <3>1. CASE DpcRegister
      BY <3>1, Registering
    <3>2. CASE Dpc /\ ~DpcRegister
      BY <1>5, <3>2
      DEF Dpc, DpcConfig, DpcPostCfg, DpcTrigger, DpcProcess, DpcPostStart, DpcAwaitDone
    <3>3. CASE ~Dpc
      BY <1>5, <3>3
      DEF Next, Main, MainCreateDpc, MainAwaitCfg, MainCreateSpi, MainPark,
          Spi, SpiCapture, SpiAwaitStart, SpiCall, SpiRuns, SpiBlocks, SpiWakes,
          SpiPostDone, Environment, HostClocksWord, HostClocksEarly, DmaError, Rest, vars
    <3> QED
      BY <3>1, <3>2, <3>3
  <2> QED
    BY <2>1 DEF CountInv, Exact, ChirpsToCome
<1> QED
  BY <1>1, <1>2, <1>3, <1>4, <1>5

(* The debug counters are exact, up to their wrap-around: they start at 0, *)
(* before the first frame, and count every frame and every chirp.          *)
THEOREM CountsExact == Spec => []CountersExact
<1>1. Init => CountInv
  BY StreamingAssumption DEF Init, CountInv, Exact, ChirpsToCome
<1>2. StreamInv /\ StartInv /\ CountInv /\ [Next]_vars => CountInv'
  BY CountStep
<1>3. ASSUME StreamInv, CountInv PROVE CountersExact
  <2>1. PICK q \in Int :
          gChirpCount + ChirpsToCome = (ChirpsPerFrame * frame) + (CounterMod * q)
    BY <1>3 DEF CountInv, Exact
  <2>2. /\ gChirpCount + ChirpsToCome \in Int
        /\ ChirpsPerFrame * frame \in Int
        /\ CounterMod \in Nat \ {0}
    BY <1>3, StreamingAssumption
    DEF StreamInv, Shared, DataTypes, Frame, ChirpsToCome
  <2>3. (gChirpCount + ChirpsToCome) % CounterMod = (ChirpsPerFrame * frame) % CounterMod
    BY <2>1, <2>2, SameRemainder
  <2> QED
    BY <1>3, <2>3 DEF CountersExact, CountInv
<1> QED
  BY <1>1, <1>2, <1>3, StartUp, Invariance, PTL DEF Spec
=============================================================================
