------------------------- MODULE RangeConfig_proofs -------------------------
(***************************************************************************)
(* The boot, for every header, every failing call and every content of the *)
(* flash: the handles it uses, what the front end ends up with, the        *)
(* calibration that is restored, the memory and the transfers of the DPU,  *)
(* the contract with the streaming tasks, and the types.                   *)
(***************************************************************************)
EXTENDS RangeConfig, TLAPS, FiniteSetTheorems, WellFoundedInduction

localP == INSTANCE MemPool_proofs WITH
  PoolAddr <- LocalAddr, PoolSize <- LocalSize,
  Requests <- {WindowRequest(c) : c \in Configs},
  currAddr <- localCurr, maxCurrAddr <- localMax, blocks <- localBlocks

l3P == INSTANCE MemPool_proofs WITH
  PoolAddr <- L3Addr, PoolSize <- L3Size, Requests <- {CubeRequest(c) : c \in Configs},
  currAddr <- l3Curr, maxCurrAddr <- l3Max, blocks <- l3Blocks

\* The records the front end keeps are updated field by field.
FecssRecord ==
  fecss = [stage |-> fecss.stage, channels |-> fecss.channels, rdif |-> fecss.rdif,
           cfg |-> fecss.cfg, cal |-> fecss.cal]

\* Each handle is there from the step on that comes after its opening.
Opened ==
  /\ pc \notin {"drivers", "initSensor", "halted"} => "ctrl" \in handles
  /\ pc \notin {"drivers", "initSensor", "openHwa", "halted"} => "hwa" \in handles
  /\ pc \notin {"drivers", "initSensor", "openHwa", "initDpu", "halted"} => "dpu" \in handles

Channels == [rx |-> cfg.rx, tx |-> cfg.tx]

Frame == [chirpsPerBurst |-> cfg.chirpsPerBurst, bursts |-> cfg.bursts, frames |-> cfg.frames]

\* A profile made from the header, with one of the outcomes of the ramp-down's conversion.
FromHeader(p) ==
  \E crd \in CrdNSlopeMag(cfg) :
    p = [samples |-> cfg.samples, freqStart |-> cfg.freqStart, rampEnd |-> cfg.rampEnd,
         idle |-> cfg.idle, slope |-> FreqSlope(cfg.slope), crd |-> crd]

(***************************************************************************)
(* What gSysContext and the front end hold along the way.  Only a control  *)
(* configuration with its profile and its chirp is worth anything.         *)
(***************************************************************************)
Told ==
  /\ pc \in {"power", "trim", "openSensor", "adcBuf", "profile", "chirp", "mmwConfig"} =>
       channelCfg = Channels
  /\ pc \in {"trim", "openSensor", "adcBuf", "profile", "chirp", "mmwConfig"} =>
       fecss.channels = Channels
  /\ pc \in {"adcBuf", "profile", "chirp", "mmwConfig"} => fecss.rdif = cfg.samples
  /\ pc = "chirp" =>
       FromHeader(profileCfg) /\ ctrlCfg = [NoCtrlCfg EXCEPT !.profile = profileCfg]
  /\ pc = "mmwConfig" /\ Complete(ctrlCfg) =>
       /\ FromHeader(profileCfg)
       /\ ctrlCfg = [profile |-> profileCfg, chirp |-> TRUE, frame |-> Frame]

Configured ==
  /\ pc \in {"readCalib", "checkCalib", "createDpc"} \cup RangePc =>
       fecss.stage = "configured"
  /\ fecss.stage = "configured" =>
       /\ pc \in {"readCalib", "checkCalib", "createDpc", "halted"} \cup RangePc
       /\ channelCfg = Channels /\ fecss.channels = Channels
       /\ fecss.rdif = cfg.samples
       /\ FromHeader(profileCfg)
       /\ fecss.cfg = [profile |-> profileCfg, chirp |-> TRUE, frame |-> Frame]

SetupInv == cfg \in Configs /\ FecssRecord /\ Opened /\ Told

-----------------------------------------------------------------------------
\* The steps of RangeProc_config() leave the set-up alone.
LEMMA RangeKeeps ==
  ASSUME SetupInv, RangeStep, UNCHANGED setupVars
  PROVE  /\ pc \in {"createDpc"} \cup RangePc
         /\ pc' \in {"halted"} \cup RangePc
         /\ UNCHANGED <<cfg, flashMagic, handles, channelCfg, profileCfg, ctrlCfg, fecss,
                        calCmd, calibMagic, clpcCmd>>
BY DEF RangeStep, ResetPools, BeginConfig, AllocWindow, SetAdcData, SetEdma, AllocCube,
       DpuConfig, Succeeds, Fails, RangePc, setupVars, inputVars, gSysVars, calVars

LEMMA SetupInit == RangeInit => SetupInv /\ Configured
BY DEF RangeInit, SensorInit, SetupInv, FecssRecord, Opened, Told, Configured, RangePc

LEMMA OpenedStep ==
  ASSUME SetupInv, SensorNext
  PROVE  Opened'
<1> USE DEF SetupInv, Opened, Succeeds, Fails, Keeps
<1>1. CASE OpenDrivers \/ InitSensor \/ OpenHwa \/ InitDpu
  BY <1>1 DEF OpenDrivers, InitSensor, OpenHwa, InitDpu
<1>2. CASE PopulateChannelCfg \/ RfPowerOn \/ CheckTrim \/ OpenSensor
  BY <1>2 DEF PopulateChannelCfg, RfPowerOn, CheckTrim, OpenSensor
<1>3. CASE ADCBufConfig \/ AddProfile \/ AddChirp \/ MmwConfig
  BY <1>3 DEF ADCBufConfig, AddProfile, AddChirp, MmwConfig
<1>4. CASE ReadCalib \/ RestoreCalib
  BY <1>4 DEF ReadCalib, RestoreCalib
<1> QED
  BY <1>1, <1>2, <1>3, <1>4 DEF SensorNext

LEMMA ToldStep ==
  ASSUME SetupInv, SensorNext
  PROVE  cfg' = cfg /\ FecssRecord' /\ Told'
<1> USE DEF SetupInv, FecssRecord, Told, Channels, Frame, FromHeader, Succeeds, Fails,
            inputVars, gSysVars, calVars
<1>1. CASE OpenDrivers \/ InitSensor \/ OpenHwa \/ InitDpu
  BY <1>1 DEF OpenDrivers, InitSensor, OpenHwa, InitDpu
<1>2. CASE PopulateChannelCfg \/ RfPowerOn \/ CheckTrim
  BY <1>2 DEF PopulateChannelCfg, RfPowerOn, CheckTrim
<1>3. CASE OpenSensor \/ ADCBufConfig
  BY <1>3 DEF OpenSensor, RdifSampleCount, ADCBufConfig
<1>4. CASE AddProfile
  <2>1. cfg' = cfg
    BY <1>4 DEF AddProfile
  <2>2. FromHeader(profileCfg)'
    BY <1>4, <2>1 DEF AddProfile, DefaultProfileCfg
  <2>3. pc' = "chirp" => ctrlCfg' = [NoCtrlCfg EXCEPT !.profile = profileCfg']
    BY <1>4 DEF AddProfile
  <2>4. pc' \in {"chirp", "mmwConfig"} /\ (pc' = "mmwConfig" => ~Complete(ctrlCfg)')
    BY <1>4 DEF AddProfile, Complete, NoCtrlCfg
  <2> QED
    BY <1>4, <2>1, <2>2, <2>3, <2>4 DEF AddProfile
<1>5. CASE AddChirp
  BY <1>5 DEF AddChirp, Complete, NoCtrlCfg
<1>6. CASE MmwConfig
  BY <1>6 DEF MmwConfig
<1>7. CASE ReadCalib \/ RestoreCalib
  BY <1>7 DEF ReadCalib, RestoreCalib
<1> QED
  BY <1>1, <1>2, <1>3, <1>4, <1>5, <1>6, <1>7 DEF SensorNext

LEMMA SetupStep == SetupInv /\ [BootNext]_bootVars => SetupInv'
<1> SUFFICES ASSUME SetupInv, [BootNext]_bootVars PROVE SetupInv'
  OBVIOUS
<1>1. CASE SensorNext
  BY <1>1, OpenedStep, ToldStep DEF SetupInv
<1>2. CASE RangeStep /\ UNCHANGED setupVars
  BY <1>2, RangeKeeps
  DEF SetupInv, FecssRecord, Opened, Told, Channels, Frame, FromHeader, RangePc
<1>3. CASE UNCHANGED bootVars
  BY <1>3 DEF bootVars, sensorVars, inputVars, gSysVars, calVars, SetupInv, FecssRecord,
              Opened, Told, Channels, Frame, FromHeader
<1> QED
  BY <1>1, <1>2, <1>3 DEF BootNext

(* The set-up is known at every step of the boot: the invariant the rest   *)
(* is derived from.                                                        *)
THEOREM SetUp == BootSpec => []SetupInv
BY SetupInit, SetupStep, PTL DEF BootSpec

(* No call is made with a NULL handle, whichever calls fail.               *)
THEOREM Handles == BootSpec => []HandlesValid
<1>1. SetupInv => HandlesValid
  BY DEF SetupInv, Opened, HandlesValid
<1> QED
  BY <1>1, SetUp, PTL

-----------------------------------------------------------------------------
(* From here on MMWave_config() turns down a configuration that lacks its  *)
(* profile or chirp.                                                       *)
LEMMA ConfiguredStep ==
  ASSUME ChecksProfile, SetupInv, Configured, [BootNext]_bootVars
  PROVE  Configured'
<1> USE DEF Configured, Channels, Frame, FromHeader, Succeeds, Fails, inputVars, gSysVars,
            calVars
<1>1. CASE OpenDrivers \/ OpenHwa \/ InitDpu
  BY <1>1 DEF OpenDrivers, OpenHwa, InitDpu, RangePc
<1>2. CASE InitSensor
  BY <1>2 DEF InitSensor, RangePc, SetupInv, FecssRecord
<1>3. CASE PopulateChannelCfg \/ RfPowerOn \/ CheckTrim
  BY <1>3 DEF PopulateChannelCfg, RfPowerOn, CheckTrim, RangePc, SetupInv, FecssRecord
<1>4. CASE OpenSensor \/ ADCBufConfig
  BY <1>4 DEF OpenSensor, ADCBufConfig, RangePc, SetupInv, FecssRecord
<1>5. CASE AddProfile \/ AddChirp
  BY <1>5 DEF AddProfile, AddChirp, RangePc
<1>6. CASE MmwConfig
  <2>1. /\ pc = "mmwConfig"
        /\ UNCHANGED <<cfg, channelCfg, profileCfg, ctrlCfg>>
    BY <1>6 DEF MmwConfig
  <2>2. CASE pc' = "halted" /\ UNCHANGED fecss
    BY <2>1, <2>2 DEF RangePc
  <2>3. CASE /\ Complete(ctrlCfg)
             /\ pc' = "readCalib"
             /\ fecss' = [fecss EXCEPT !.stage = "configured", !.cfg = ctrlCfg]
    <3>1. /\ fecss'.channels = fecss.channels /\ fecss'.rdif = fecss.rdif
          /\ fecss'.cfg = ctrlCfg /\ fecss'.stage = "configured"
      BY <2>3 DEF SetupInv, FecssRecord
    <3> QED
      BY <2>1, <2>3, <3>1 DEF SetupInv, Told
  <2> QED
    BY <1>6, <2>2, <2>3 DEF MmwConfig
<1>7. CASE ReadCalib
  BY <1>7 DEF ReadCalib, RangePc
<1>8. CASE RestoreCalib
  BY <1>8 DEF RestoreCalib, RangePc, SetupInv, FecssRecord
<1>9. CASE RangeStep /\ UNCHANGED setupVars
  BY <1>9, RangeKeeps DEF RangePc
<1>10. CASE UNCHANGED bootVars
  BY <1>10 DEF bootVars, sensorVars
<1> QED
  BY <1>1, <1>2, <1>3, <1>4, <1>5, <1>6, <1>7, <1>8, <1>9, <1>10 DEF BootNext, SensorNext

(* What a configured front end was told is the header, stage by stage.     *)
THEOREM FrontEndTold == ChecksProfile => (BootSpec => []Configured)
<1> SUFFICES ASSUME ChecksProfile PROVE BootSpec => []Configured
  OBVIOUS
<1>1. SetupInv /\ Configured /\ [BootNext]_bootVars => Configured'
  BY ConfiguredStep
<1> QED
  BY <1>1, SetupInit, SetUp, PTL DEF BootSpec

\* Adding half the divisor before an integer division rounds to the nearest.
LEMMA Nearest ==
  ASSUME NEW x \in Nat, NEW r \in Nat \ {0}
  PROVE  LET q == (x + 1875 * r) \div (3750 * r)
         IN  Abs(3750 * r * q - x) <= 1875 * r
<1> DEFINE d == 3750 * r
           q == (x + 1875 * r) \div d
<1>1. d \in Nat \ {0} /\ x + 1875 * r \in Nat
  OBVIOUS
<1>2. q \in Int /\ d * q <= x + 1875 * r /\ x + 1875 * r < d * q + d
  <2> HIDE DEF d
  <2> DEFINE y == x + 1875 * r
  <2>1. y \in Nat
    BY <1>1
  <2> HIDE DEF y
  <2>2. y \div d \in Int /\ d * (y \div d) <= y /\ y < d * (y \div d) + d
    BY <1>1, <2>1
  <2> QED
    BY <2>2 DEF y
<1>3. d * q \in Int /\ 3750 * r * q = d * q
  BY <1>2
<1> HIDE DEF q
<1> QED
  BY <1>2, <1>3 DEF Abs, q

LEMMA RampDown ==
  ASSUME NEW c \in Config, RampDownTime(c) > 0
  PROVE  Abs(3750 * RampDownTime(c) * CrdMagnitude(c) - 8192 * c.rampEnd * c.slope)
           <= 1875 * RampDownTime(c)
<1>1. c.rampEnd \in Nat /\ c.slope \in Nat /\ c.idle \in Nat
  BY DEF Config
<1>2. RampDownTime(c) \in Nat \ {0}
  BY <1>1 DEF RampDownTime
<1>3. c.rampEnd * c.slope \in Nat
  BY <1>1
<1>4. 8192 * c.rampEnd * c.slope \in Nat /\ 8192 * c.rampEnd * c.slope >= 0
  BY <1>1, <1>3
<1>5. CrdMagnitude(c) = (8192 * c.rampEnd * c.slope + 1875 * RampDownTime(c))
                          \div (3750 * RampDownTime(c))
  BY <1>2, <1>4 DEF CrdMagnitude, Abs
<1> QED
  BY <1>2, <1>4, <1>5, Nearest

(* A front end that accepted its configuration has that of the header,     *)
(* with a ramp-down that undoes the ramp, whichever calls failed.          *)
THEOREM FrontEnd == ChecksProfile => (BootSpec => []FrontEndAsConfigured)
<1> SUFFICES ASSUME ChecksProfile PROVE BootSpec => []FrontEndAsConfigured
  OBVIOUS
<1>1. SetupInv /\ Configured => FrontEndAsConfigured
  <2> SUFFICES ASSUME SetupInv, Configured, fecss.stage = "configured"
               PROVE  FrontEndAsConfigured
    BY DEF FrontEndAsConfigured
  <2>1. PICK crd \in CrdNSlopeMag(cfg) :
          profileCfg = [samples |-> cfg.samples, freqStart |-> cfg.freqStart,
                        rampEnd |-> cfg.rampEnd, idle |-> cfg.idle,
                        slope |-> FreqSlope(cfg.slope), crd |-> crd]
    BY DEF Configured, FromHeader
  <2>2. cfg \in Config
    BY SetupAssumption DEF SetupInv
  <2>3. RampDownTime(cfg) > 0 /\ CrdFits(cfg) =>
          Abs(3750 * RampDownTime(cfg) * crd - 8192 * cfg.rampEnd * cfg.slope)
            <= 1875 * RampDownTime(cfg)
    BY <2>1, <2>2, RampDown DEF CrdNSlopeMag
  <2> QED
    BY <2>1, <2>3 DEF FrontEndAsConfigured, Configured, Channels, Frame
<1> QED
  BY <1>1, FrontEndTold, SetUp, PTL

-----------------------------------------------------------------------------
\* No chirp is centred beyond what 16 bits of the calibration command can say.
CentreFits ==
  \A c \in Configs : c.freqStart + (16 * c.slope * c.rampEnd) \div 375 < 2^16

\* The command restoreFactoryCal() makes.
CalFor == [freq |-> CentreFreq(profileCfg, cfg.slope), tx |-> TxPwrCalTxEnaMask(cfg.tx)]

\* The command on its way, the magic number it waits for, and its two copies.
Calibrated ==
  /\ pc = "checkCalib" => calCmd = CalFor /\ (calibMagic = "valid" => flashMagic = "valid")
  /\ calibMagic \in {"zero", flashMagic}
  /\ clpcCmd = fecss.cal
  /\ fecss.cal # NoCommand =>
       flashMagic = "valid" /\ fecss.stage = "configured" /\ fecss.cal = CalFor

LEMMA CalibratedStep ==
  ASSUME SetupInv, Configured, Calibrated, [BootNext]_bootVars
  PROVE  Calibrated'
<1> USE DEF Calibrated, CalFor, Succeeds, Fails, inputVars, gSysVars, calVars
<1>1. CASE OpenDrivers \/ OpenHwa \/ InitDpu
  BY <1>1 DEF OpenDrivers, OpenHwa, InitDpu
<1>2. CASE InitSensor
  BY <1>2 DEF InitSensor, SetupInv, FecssRecord, Configured, RangePc
<1>3. CASE PopulateChannelCfg \/ RfPowerOn \/ CheckTrim
  BY <1>3 DEF PopulateChannelCfg, RfPowerOn, CheckTrim, SetupInv, FecssRecord
<1>4. CASE OpenSensor \/ ADCBufConfig
  BY <1>4 DEF OpenSensor, ADCBufConfig, SetupInv, FecssRecord, Configured, RangePc
<1>5. CASE AddProfile
  BY <1>5 DEF AddProfile, Configured, RangePc
<1>6. CASE AddChirp \/ MmwConfig
  BY <1>6 DEF AddChirp, MmwConfig, SetupInv, FecssRecord
<1>7. CASE ReadCalib
  BY <1>7 DEF ReadCalib, Configured, Channels
<1>8. CASE RestoreCalib
  BY <1>8 DEF RestoreCalib, SetupInv, FecssRecord, Configured
<1>9. CASE RangeStep /\ UNCHANGED setupVars
  BY <1>9, RangeKeeps DEF RangePc
<1>10. CASE UNCHANGED bootVars
  BY <1>10 DEF bootVars, sensorVars
<1> QED
  BY <1>1, <1>2, <1>3, <1>4, <1>5, <1>6, <1>7, <1>8, <1>9, <1>10 DEF BootNext, SensorNext

LEMMA CalibratedInit == RangeInit => Calibrated
BY DEF RangeInit, SensorInit, Calibrated

\* Integer division rounds down by less than the divisor.
LEMMA Centre ==
  ASSUME NEW c \in Config, c.freqStart + (16 * c.slope * c.rampEnd) \div 375 < 2^16,
         NEW p, p.freqStart = c.freqStart, p.rampEnd = c.rampEnd
  PROVE  Abs(375 * (CentreFreq(p, c.slope) - p.freqStart) - 16 * c.slope * p.rampEnd) < 375
<1>1. c.freqStart \in Nat /\ c.slope \in Nat /\ c.rampEnd \in Nat
  BY DEF Config
<1>2. PICK x \in Nat : x = 16 * c.slope * c.rampEnd
  <2>1. c.slope * c.rampEnd \in Nat
    BY <1>1
  <2>2. 16 * c.slope * c.rampEnd \in Nat
    BY <1>1, <2>1
  <2> QED
    BY <2>2
<1>3. /\ x \div 375 \in Nat
      /\ 375 * (x \div 375) <= x /\ x < 375 * (x \div 375) + 375
  OBVIOUS
<1>4. CentreFreq(p, c.slope) = c.freqStart + x \div 375
  <2>1. 2^16 = 65536
    OBVIOUS
  <2>2. CentreFreq(p, c.slope) = (c.freqStart + x \div 375) % 65536
    BY <1>2, <2>1 DEF CentreFreq
  <2>3. PICK z \in Nat : z = c.freqStart + x \div 375
    BY <1>1, <1>3
  <2>4. z < 65536
    BY <1>2, <2>1, <2>3
  <2>5. z % 65536 = z
    BY <2>4
  <2> QED
    BY <2>2, <2>3, <2>5
<1> QED
  BY <1>1, <1>2, <1>3, <1>4 DEF Abs

(* A calibration that was restored is for the front end as it was          *)
(* configured, from data whose magic number was right.                     *)
THEOREM Calibration ==
  ChecksProfile /\ CentreFits => (BootSpec => []CalMatchesFrontEnd)
<1> SUFFICES ASSUME ChecksProfile, CentreFits PROVE BootSpec => []CalMatchesFrontEnd
  OBVIOUS
<1>1. SetupInv /\ Configured /\ Calibrated /\ [BootNext]_bootVars => Calibrated'
  BY CalibratedStep
<1>2. SetupInv /\ Configured /\ Calibrated => CalMatchesFrontEnd
  <2> SUFFICES ASSUME SetupInv, Configured, Calibrated, fecss.cal # NoCommand
               PROVE  CalMatchesFrontEnd
    BY DEF CalMatchesFrontEnd, Calibrated
  <2>1. /\ clpcCmd = fecss.cal
        /\ flashMagic = "valid" /\ fecss.stage = "configured"
        /\ fecss.cal.freq = CentreFreq(profileCfg, cfg.slope)
        /\ fecss.cal.tx = TxPwrCalTxEnaMask(cfg.tx)
    BY DEF Calibrated, CalFor
  <2>2. fecss.cfg.profile = profileCfg /\ fecss.channels.tx = cfg.tx
        /\ profileCfg.freqStart = cfg.freqStart /\ profileCfg.rampEnd = cfg.rampEnd
    BY <2>1 DEF Configured, FromHeader, Channels
  <2>3. cfg \in Config /\ cfg \in Configs
    BY SetupAssumption DEF SetupInv
  <2>4. Abs(375 * (fecss.cal.freq - fecss.cfg.profile.freqStart)
              - 16 * cfg.slope * fecss.cfg.profile.rampEnd) < 375
    BY <2>1, <2>2, <2>3, Centre DEF CentreFits
  <2>5. fecss.cal.tx[1] = fecss.channels.tx /\ fecss.cal.tx[2] \subseteq fecss.channels.tx
    BY <2>1, <2>2 DEF TxPwrCalTxEnaMask
  <2> QED
    BY <2>1, <2>4, <2>5 DEF CalMatchesFrontEnd
<1> QED
  BY <1>1, <1>2, CalibratedInit, FrontEndTold, SetUp, PTL DEF BootSpec

-----------------------------------------------------------------------------
(* RangeProc_config().  The powers of two there are: *)
LEMMA Powers ==
  {2^k : k \in 0..15} = {1, 2, 4, 8, 16, 32, 64, 128, 256, 512, 1024, 2048, 4096, 8192, 16384,
                         32768}
<1>1. /\ 2^0 = 1 /\ 2^1 = 2 /\ 2^2 = 4 /\ 2^3 = 8 /\ 2^4 = 16 /\ 2^5 = 32
  OBVIOUS
<1>2. /\ 2^6 = 64 /\ 2^7 = 128 /\ 2^8 = 256 /\ 2^9 = 512 /\ 2^10 = 1024
  OBVIOUS
<1>3. 2^11 = 2048 /\ 2^12 = 4096 /\ 2^13 = 8192 /\ 2^14 = 16384 /\ 2^15 = 32768
  OBVIOUS
<1>4. 0..15 = {0, 1, 2, 3, 4, 5, 6, 7, 8, 9, 10, 11, 12, 13, 14, 15}
  OBVIOUS
<1> QED
  BY <1>1, <1>2, <1>3, <1>4

LEMMA Least ==
  ASSUME NEW S \in SUBSET Nat, S # {}
  PROVE  Min(S) \in S
<1>1. PICK x \in S : \A y \in S : ~(<<y, x>> \in OpToRel(<, Nat))
  BY NatLessThanWellFounded, WFMin, Zenon
<1>2. ASSUME NEW y \in S PROVE x <= y
  <2>1. x \in Nat /\ y \in Nat
    OBVIOUS
  <2>2. ~(y < x)
    BY <1>1, <2>1, Zenon DEF OpToRel
  <2> QED
    BY <2>1, <2>2
<1> QED
  BY <1>2 DEF Min

LEMMA RoundsUp ==
  ASSUME NEW n \in Nat, 2 <= n, n <= 32768
  PROVE  /\ NumRangeBins(n) \in Nat
         /\ 2 * NumRangeBins(n) >= n
<1>1. PowersFrom(n) \in SUBSET Nat /\ 32768 \in PowersFrom(n)
  BY Powers DEF PowersFrom
<1>2. Pow2RoundUp(n) \in PowersFrom(n)
  BY <1>1, Least DEF Pow2RoundUp
<1>3. PICK x \in Nat : x = Pow2RoundUp(n)
  BY <1>1, <1>2
<1>4. /\ n <= x
      /\ x \in {1, 2, 4, 8, 16, 32, 64, 128, 256, 512, 1024, 2048, 4096, 8192, 16384, 32768}
  BY <1>2, <1>3, Powers DEF PowersFrom
<1>5. x \div 2 \in Nat /\ 2 * (x \div 2) = x
  <2>1. x > 1
    BY <1>4
  <2>2. x \in {2, 4, 8, 16, 32, 64, 128, 256} \/ x \in {512, 1024, 2048, 4096, 8192, 16384, 32768}
    BY <1>4, <2>1
  <2>3. CASE x \in {2, 4, 8, 16, 32, 64, 128, 256}
    BY <2>3
  <2>4. CASE x \in {512, 1024, 2048, 4096, 8192, 16384, 32768}
    BY <2>4
  <2> QED
    BY <2>2, <2>3, <2>4
<1> QED
  BY <1>3, <1>4, <1>5 DEF NumRangeBins

\* What CubeHoldsFrame asks of the size, in terms of the header.
CubeBytes(c) ==
  ((c.chirpsPerBurst * c.bursts) \div Cardinality(c.tx)) * Cardinality(c.tx)
    * Cardinality(c.rx) * NumRangeBins(c.samples) * 4

\* The numbers of samples that 16 bits can double.
LEMMA Samples ==
  ASSUME NEW c \in Configs
  PROVE  c.samples \in Nat /\ 2 <= c.samples /\ c.samples <= 32768
<1>1. 2^15 = 32768
  OBVIOUS
<1> QED
  BY <1>1, RangeAssumption, SetupAssumption DEF Config

LEMMA Antennas ==
  ASSUME NEW c \in Configs
  PROVE  /\ Cardinality(c.tx) \in Nat \ {0} /\ Cardinality(c.rx) \in Nat
         /\ c.chirpsPerBurst \in Nat /\ c.bursts \in Nat
<1>1. c \in Config /\ c.tx # {}
  BY SetupAssumption
<1>2. c.tx \subseteq 0..1 /\ c.rx \subseteq 0..2 /\ c.chirpsPerBurst \in Nat /\ c.bursts \in Nat
  BY <1>1 DEF Config, TxAntennas, RxChannels
<1>3. IsFiniteSet(c.tx) /\ IsFiniteSet(c.rx)
  <2>1. 0 \in Int /\ 1 \in Int /\ 2 \in Int
    OBVIOUS
  <2>2. IsFiniteSet(0..1)
    BY <2>1, FS_Interval, Zenon
  <2>3. IsFiniteSet(0..2)
    BY <2>1, FS_Interval, Zenon
  <2> QED
    BY <1>2, <2>2, <2>3, FS_Subset
<1>4. Cardinality(c.tx) \in Nat /\ Cardinality(c.rx) \in Nat
  BY <1>3, FS_CardinalityType
<1>5. Cardinality(c.tx) # 0
  BY <1>1, <1>3, FS_EmptySet
<1> QED
  BY <1>2, <1>4, <1>5

\* The code multiplies in another order.
LEMMA SameProduct ==
  ASSUME NEW c \in Configs
  PROVE  LET n == NumRangeBins(c.samples) * (Cardinality(c.tx) * Cardinality(c.rx)) * 4
                    * ((c.bursts * c.chirpsPerBurst) \div Cardinality(c.tx))
         IN  n = CubeBytes(c) /\ n \in Nat /\ n % 4 = 0
<1> DEFINE t == Cardinality(c.tx)
           r == Cardinality(c.rx)
           b == NumRangeBins(c.samples)
           d == (c.bursts * c.chirpsPerBurst) \div t
<1>1. t \in Nat \ {0} /\ r \in Nat /\ c.chirpsPerBurst \in Nat /\ c.bursts \in Nat
  BY Antennas
<1>2. b \in Nat
  BY Samples, RoundsUp
<1>3. c.bursts * c.chirpsPerBurst \in Nat /\ c.bursts * c.chirpsPerBurst = c.chirpsPerBurst * c.bursts
  BY <1>1
<1>4. d \in Nat
  <2> DEFINE x == c.bursts * c.chirpsPerBurst
  <2>1. x \in Nat
    BY <1>3
  <2> HIDE DEF x, t
  <2> QED
    BY <1>1, <2>1
<1>5. CubeBytes(c) = d * t * r * b * 4
  BY <1>3 DEF CubeBytes
<1> HIDE DEF t, r, b, d
<1>6. PICK m \in Nat : m = b * (t * r) * d
  <2>1. t * r \in Nat
    BY <1>1
  <2>2. b * (t * r) \in Nat
    BY <1>2, <2>1
  <2>3. b * (t * r) * d \in Nat
    BY <1>4, <2>2
  <2> QED
    BY <2>3
<1>7. d * t * r * b = m
  BY <1>1, <1>2, <1>4, <1>6
<1>8. b * (t * r) * 4 * d = 4 * m
  BY <1>1, <1>2, <1>4, <1>6
<1>9. d * t * r * b * 4 = 4 * m
  BY <1>1, <1>2, <1>4, <1>7
<1>10. 4 * m \in Nat /\ (4 * m) % 4 = 0
  BY <1>6
<1>11. b * (t * r) * 4 * d = CubeBytes(c) /\ b * (t * r) * 4 * d \in Nat
         /\ (b * (t * r) * 4 * d) % 4 = 0
  BY <1>5, <1>8, <1>9, <1>10
<1> QED
  BY <1>11 DEF t, r, b, d

\* No cube wraps the addresses, and no window.
LEMMA Sized ==
  ASSUME NEW c \in Configs
  PROVE  /\ CubeRequest(c) = [size |-> CubeBytes(c), align |-> 4]
         /\ CubeBytes(c) \in Nat
         /\ L3Addr + L3Size + 4 + CubeBytes(c) <= AddrMod
         /\ WindowSize(c.samples) \in Nat
         /\ LocalAddr + LocalSize + 4 + WindowSize(c.samples) <= AddrMod
<1>1. CubeRequest(c) = [size |-> CubeBytes(c), align |-> 4] /\ CubeBytes(c) \in Nat
  BY SameProduct DEF CubeRequest
<1>2. L3Addr + L3Size + CubeRequest(c).align + CubeRequest(c).size <= AddrMod
  BY RangeAssumption DEF l3!PoolConstants
<1>3. WindowRequest(c).size \in Nat
        /\ LocalAddr + LocalSize + WindowRequest(c).align + WindowRequest(c).size <= AddrMod
  BY RangeAssumption DEF local!PoolConstants
<1> QED
  BY <1>1, <1>2, <1>3 DEF WindowRequest

-----------------------------------------------------------------------------
\* MEM_ALIGN to words.
LEMMA Aligned ==
  ASSUME NEW a \in Nat
  PROVE  LET b == ((a + 4 - 1) \div 4) * 4
         IN  b \in Nat /\ a <= b /\ b <= a + 3 /\ b % 4 = 0
<1>1. PICK q \in Nat : q = (a + 4 - 1) \div 4
  OBVIOUS
<1>2. a <= q * 4 /\ q * 4 <= a + 3 /\ q * 4 \in Nat /\ (q * 4) % 4 = 0
  BY <1>1
<1> QED
  BY <1>1, <1>2

LEMMA PoolAddresses ==
  /\ LocalAddr \in Nat \ {0} /\ LocalSize \in Nat
  /\ L3Addr \in Nat \ {0} /\ L3Size \in Nat
  /\ AddrMod \in Nat \ {0}
BY RangeAssumption DEF local!PoolConstants, l3!PoolConstants

(***************************************************************************)
(* The one block of L3: NULL if there is no room behind the first word     *)
(* boundary, and otherwise in the pool's list.                             *)
(***************************************************************************)
LEMMA FirstOfL3 ==
  ASSUME NEW n \in Nat, L3Addr + L3Size + 4 + n <= AddrMod,
         l3Curr = L3Addr, l3!Alloc([size |-> n, align |-> 4])
  PROVE  /\ l3!Result([size |-> n, align |-> 4]) # NULL =>
              \E b \in l3Blocks' :
                b.addr = l3!Result([size |-> n, align |-> 4]) /\ b.size = n
         /\ l3!Result([size |-> n, align |-> 4]) # NULL
              <=> l3!MEM_ALIGN(L3Addr, 4) + n <= L3Addr + L3Size
<1> DEFINE r == [size |-> n, align |-> 4]
<1>1. PICK a \in Nat : /\ a = l3!AllocAddr(r) /\ a = l3!MEM_ALIGN(L3Addr, 4)
                       /\ L3Addr <= a /\ a <= L3Addr + 3
  BY PoolAddresses, Aligned DEF l3!AllocAddr, l3!MEM_ALIGN
<1>2. (a + n) % AddrMod = a + n
  <2> DEFINE e == a + n
  <2>1. e \in Nat /\ e < AddrMod
    BY <1>1, PoolAddresses
  <2> HIDE DEF e
  <2>2. e % AddrMod = e
    BY <2>1, PoolAddresses
  <2> QED
    BY <2>2 DEF e
<1>3. l3!Fits(r) <=> a + n <= L3Addr + L3Size
  BY <1>1, <1>2 DEF l3!Fits, l3!PoolEnd
<1>4. l3!Result(r) = IF l3!Fits(r) THEN a ELSE 0
  BY <1>1 DEF l3!Result, l3!NULL
<1>5. l3!Result(r) # NULL <=> l3!MEM_ALIGN(L3Addr, 4) + n <= L3Addr + L3Size
  BY <1>1, <1>3, <1>4, PoolAddresses DEF NULL
<1>6. l3!Fits(r) => [addr |-> a, size |-> n, align |-> 4] \in l3Blocks'
  BY <1>1 DEF l3!Alloc
<1> QED
  BY <1>4, <1>5, <1>6 DEF NULL

\* The antennas are counted before anything is sized by them.
Counted ==
  pc \notin {"drivers", "initSensor", "openHwa", "initDpu", "channelCfg", "halted"} =>
    numTx = Cardinality(cfg.tx) /\ numRx = Cardinality(cfg.rx)

\* The DPU's configuration is a record that is filled in field by field.
DpuRecord ==
  dpuCfg = [numTx |-> dpuCfg.numTx, numVirtual |-> dpuCfg.numVirtual,
            numRangeBins |-> dpuCfg.numRangeBins, numChirps |-> dpuCfg.numChirps,
            numDoppler |-> dpuCfg.numDoppler, bpm |-> dpuCfg.bpm,
            windowSize |-> dpuCfg.windowSize, window |-> dpuCfg.window,
            fftSize |-> dpuCfg.fftSize, rxChanOffset |-> dpuCfg.rxChanOffset,
            edma |-> dpuCfg.edma, cubeSize |-> dpuCfg.cubeSize, cube |-> dpuCfg.cube]

\* Of the pools, until each is allocated from.
Fresh ==
  /\ pc \in {"reset", "window"} => localCurr = LocalAddr
  /\ pc \in {"reset", "window", "adcData", "edma", "cube"} =>
       l3Curr = L3Addr

\* A configuration under way: sized as the header says, and with no cube yet.
Begun ==
  /\ dpuCfg.numVirtual = Cardinality(cfg.tx) * Cardinality(cfg.rx)
  /\ dpuCfg.numDoppler = (cfg.bursts * cfg.chirpsPerBurst) \div Cardinality(cfg.tx)
  /\ dpuCfg.numRangeBins = NumRangeBins(cfg.samples)
  /\ dpuCfg.cubeSize = 0

\* A configuration that is complete, with the cube it has, if any.
Whole ==
  /\ dpuCfg.fftSize = cfg.samples
  /\ dpuCfg.numRangeBins = NumRangeBins(cfg.samples)
  /\ dpuCfg.cubeSize = CubeBytes(cfg)
  /\ dpuCfg.cube # NULL =>
       \E b \in l3Blocks : b.addr = dpuCfg.cube /\ b.size = CubeBytes(cfg)

Filled ==
  /\ pc \in {"window", "adcData", "edma", "cube"} => Begun
  /\ pc \in {"edma", "cube"} => dpuCfg.fftSize = cfg.samples
  /\ pc = "dpuConfig" => Whole
  /\ dpuReady => pc = "post" /\ Whole
  /\ pc = "post" /\ dpuCfg.cubeSize # 0 => dpuReady
  /\ pc \in MainPc \ {"halted"} => dpuCfg.cubeSize = 0

RangeInv == Counted /\ DpuRecord /\ Fresh /\ Filled

LEMMA RangeInvInit == RangeInit => RangeInv
BY DEF RangeInit, SensorInit, RangeInv, Counted, DpuRecord, Fresh, Filled, NoDpuCfg, MainPc

LEMMA RangeInvSetup ==
  ASSUME SetupInv, RangeInv, SensorNext, UNCHANGED rangeVars
  PROVE  RangeInv'
<1>1. cfg' = cfg
  BY DEF SensorNext, OpenDrivers, InitSensor, OpenHwa, InitDpu, PopulateChannelCfg, RfPowerOn,
         CheckTrim, OpenSensor, ADCBufConfig, AddProfile, AddChirp, MmwConfig, ReadCalib,
         RestoreCalib, inputVars
<1>2. pc \in MainPc \ {"halted", "createDpc"} /\ pc' \in MainPc
  BY DEF SensorNext, OpenDrivers, InitSensor, OpenHwa, InitDpu, PopulateChannelCfg, RfPowerOn,
         CheckTrim, OpenSensor, ADCBufConfig, AddProfile, AddChirp, MmwConfig, ReadCalib,
         RestoreCalib, Succeeds, Fails, MainPc
<1>3. Counted'
  <2>1. CASE OpenDrivers \/ InitSensor \/ OpenHwa \/ InitDpu
    BY <2>1 DEF OpenDrivers, InitSensor, OpenHwa, InitDpu, Succeeds, Fails, Counted
  <2>2. CASE PopulateChannelCfg
    BY <1>1, <2>2 DEF PopulateChannelCfg, Succeeds, Counted
  <2>3. CASE RfPowerOn \/ CheckTrim \/ OpenSensor \/ ADCBufConfig
    BY <1>1, <2>3 DEF RfPowerOn, CheckTrim, OpenSensor, ADCBufConfig, Succeeds, Fails, Counted,
                      gSysVars, RangeInv
  <2>4. CASE AddProfile \/ AddChirp \/ MmwConfig \/ ReadCalib \/ RestoreCalib
    BY <1>1, <2>4 DEF AddProfile, AddChirp, MmwConfig, ReadCalib, RestoreCalib, Succeeds, Fails,
                      Counted, gSysVars, RangeInv
  <2> QED
    BY <2>1, <2>2, <2>3, <2>4 DEF SensorNext
<1>4. UNCHANGED <<dpuCfg, dpuReady>>
  BY DEF rangeVars
<1>5. ~dpuReady /\ dpuCfg.cubeSize = 0 /\ DpuRecord
  BY <1>2 DEF RangeInv, Filled, MainPc
<1> QED
  BY <1>2, <1>3, <1>4, <1>5 DEF RangeInv, DpuRecord, Fresh, Filled, MainPc

LEMMA ResetInv ==
  ASSUME SetupInv, RangeInv, ResetPools, UNCHANGED setupVars
  PROVE  RangeInv'
<1>1. /\ pc = "createDpc" /\ pc' = "reset"
      /\ UNCHANGED <<cfg, numTx, numRx, dpuCfg, dpuReady>>
  BY DEF ResetPools, Succeeds, setupVars, inputVars, gSysVars
<1>2. localCurr' = LocalAddr /\ l3Curr' = L3Addr /\ l3Max' = L3Addr /\ l3Blocks' = {}
  BY DEF ResetPools, local!Reset, l3!Reset
<1> QED
  BY <1>1, <1>2 DEF RangeInv, Counted, DpuRecord, Fresh, Filled, MainPc

LEMMA BeginInv ==
  ASSUME SetupInv, RangeInv, BeginConfig, UNCHANGED setupVars
  PROVE  RangeInv'
<1>1. /\ pc = "reset" /\ pc' \in {"window", "halted"}
      /\ UNCHANGED <<cfg, numTx, numRx, dpuReady, localCurr, l3Curr, l3Max, l3Blocks>>
  BY DEF BeginConfig, setupVars, inputVars, gSysVars, poolVars
<1>2. numTx = Cardinality(cfg.tx) /\ numRx = Cardinality(cfg.rx)
  BY <1>1 DEF RangeInv, Counted
<1>3. ~dpuReady
  BY <1>1 DEF RangeInv, Filled
<1>4. DpuRecord' /\ Begun'
  BY <1>1, <1>2 DEF BeginConfig, NoDpuCfg, DpuRecord, Begun
<1> QED
  BY <1>1, <1>2, <1>3, <1>4 DEF RangeInv, Counted, Fresh, Filled, MainPc

LEMMA WindowInv ==
  ASSUME SetupInv, RangeInv, AllocWindow, UNCHANGED setupVars
  PROVE  RangeInv'
<1>1. /\ pc = "window" /\ pc' \in {"post", "adcData"}
      /\ UNCHANGED <<cfg, numTx, numRx, dpuReady, l3Curr, l3Max, l3Blocks>>
  BY DEF AllocWindow, setupVars, inputVars, gSysVars
<1>2. PICK n, w : dpuCfg' = [dpuCfg EXCEPT !.windowSize = n, !.window = w]
  BY DEF AllocWindow
<1>3. Begun /\ ~dpuReady
  BY <1>1 DEF RangeInv, Filled
<1>4. DpuRecord' /\ Begun'
  BY <1>1, <1>2, <1>3 DEF RangeInv, DpuRecord, Begun
<1> QED
  BY <1>1, <1>3, <1>4 DEF RangeInv, Counted, Fresh, Filled, Begun, MainPc

LEMMA AdcInv ==
  ASSUME SetupInv, RangeInv, SetAdcData \/ SetEdma, UNCHANGED setupVars
  PROVE  RangeInv'
<1>1. /\ \/ pc = "adcData" /\ pc' = "edma"
         \/ pc = "edma" /\ pc' = "cube" /\ dpuCfg.fftSize = cfg.samples
      /\ UNCHANGED <<cfg, numTx, numRx, dpuReady, l3Curr, l3Max, l3Blocks>>
  BY DEF SetAdcData, SetEdma, Succeeds, setupVars, inputVars, gSysVars, poolVars, RangeInv, Filled
<1>2. Begun /\ ~dpuReady
  BY <1>1 DEF RangeInv, Filled
<1>3. DpuRecord' /\ Begun' /\ dpuCfg'.fftSize = cfg.samples
  <2>1. CASE SetAdcData
    BY <1>1, <1>2, <2>1 DEF SetAdcData, RangeInv, DpuRecord, Begun
  <2>2. CASE SetEdma
    BY <1>1, <1>2, <2>2 DEF SetEdma, Succeeds, RangeInv, DpuRecord, Begun
  <2> QED
    BY <2>1, <2>2
<1> QED
  BY <1>1, <1>2, <1>3 DEF RangeInv, Counted, Fresh, Filled, MainPc

LEMMA CubeInv ==
  ASSUME SetupInv, RangeInv, AllocCube, UNCHANGED setupVars
  PROVE  RangeInv'
<1> DEFINE n == CubeSize(dpuCfg)
           r == [size |-> n, align |-> 4]
<1>1. /\ pc = "cube" /\ pc' = "dpuConfig"
      /\ UNCHANGED <<cfg, numTx, numRx, dpuReady>>
  BY DEF AllocCube, Succeeds, setupVars, inputVars, gSysVars
<1>2. /\ l3!Alloc(r)
      /\ dpuCfg' = [dpuCfg EXCEPT !.cubeSize = n, !.cube = l3!Result(r)]
  BY DEF AllocCube
<1>3. /\ Begun /\ ~dpuReady /\ dpuCfg.fftSize = cfg.samples
      /\ l3Curr = L3Addr
  BY <1>1 DEF RangeInv, Filled, Fresh
<1>4. cfg \in Configs
  BY DEF SetupInv
<1>5. n = CubeBytes(cfg) /\ n \in Nat
  BY <1>3, <1>4, SameProduct DEF CubeSize, Begun
<1>6. L3Addr + L3Size + 4 + n <= AddrMod
  BY <1>4, <1>5, Sized
<1> HIDE DEF n
<1>7. l3!Result(r) # NULL =>
        \E b \in l3Blocks' : b.addr = l3!Result(r) /\ b.size = n
  BY <1>2, <1>3, <1>5, <1>6, FirstOfL3
<1>8. DpuRecord' /\ dpuCfg'.cube = l3!Result(r) /\ dpuCfg'.cubeSize = n
        /\ dpuCfg'.fftSize = cfg.samples /\ dpuCfg'.numRangeBins = NumRangeBins(cfg.samples)
  <2> DEFINE w == l3!Result(r)
  <2> HIDE DEF w
  <2>1. dpuCfg' = [dpuCfg EXCEPT !.cubeSize = n, !.cube = w]
    BY <1>2 DEF w
  <2>2. DpuRecord' /\ dpuCfg'.cube = w /\ dpuCfg'.cubeSize = n
        /\ dpuCfg'.fftSize = cfg.samples /\ dpuCfg'.numRangeBins = NumRangeBins(cfg.samples)
    BY <1>3, <2>1 DEF RangeInv, DpuRecord, Begun
  <2> QED
    BY <2>2 DEF w
<1>9. Whole'
  BY <1>1, <1>5, <1>7, <1>8 DEF Whole
<1> QED
  BY <1>1, <1>3, <1>8, <1>9 DEF RangeInv, Counted, Fresh, Filled, MainPc

LEMMA DpuInv ==
  ASSUME SetupInv, RangeInv, DpuConfig, UNCHANGED setupVars
  PROVE  RangeInv'
<1>1. /\ pc = "dpuConfig"
      /\ (pc' = "post" /\ dpuReady') \/ (pc' = "halted" /\ dpuReady' = dpuReady)
      /\ UNCHANGED <<cfg, numTx, numRx, dpuCfg, l3Curr, l3Max, l3Blocks>>
  BY DEF DpuConfig, Succeeds, Fails, setupVars, inputVars, gSysVars, poolVars
<1>2. Whole /\ ~dpuReady
  BY <1>1 DEF RangeInv, Filled
<1>3. Whole'
  BY <1>1, <1>2 DEF Whole
<1> QED
  BY <1>1, <1>2, <1>3 DEF RangeInv, Counted, DpuRecord, Fresh, Filled, MainPc

LEMMA RangeInvStep ==
  ASSUME SetupInv, RangeInv, [BootNext]_bootVars
  PROVE  RangeInv'
<1>1. CASE UNCHANGED bootVars
  BY <1>1 DEF bootVars, sensorVars, rangeVars, poolVars, inputVars, gSysVars, RangeInv, Counted,
              DpuRecord, Fresh, Filled, Begun, Whole
<1> QED
  BY <1>1, RangeInvSetup, ResetInv, BeginInv, WindowInv, AdcInv, CubeInv, DpuInv
  DEF BootNext, RangeStep

(* What RangeProc_config() has filled in is known at every step.           *)
THEOREM RangeSetUp == BootSpec => []RangeInv
<1>1. SetupInv /\ RangeInv /\ [BootNext]_bootVars => RangeInv'
  BY RangeInvStep
<1> QED
  BY <1>1, RangeInvInit, SetUp, PTL DEF BootSpec

-----------------------------------------------------------------------------
(* Each step of the boot is a step of either pool, or leaves it alone.     *)
LEMMA PoolsStep ==
  ASSUME SetupInv, RangeInv, [BootNext]_bootVars
  PROVE  [local!Next]_(local!poolVars) /\ [l3!Next]_(l3!poolVars)
<1> USE DEF local!poolVars, l3!poolVars
<1>1. CASE UNCHANGED poolVars
  BY <1>1 DEF poolVars
<1>2. CASE ResetPools
  BY <1>2 DEF ResetPools, local!Next, l3!Next
<1>3. CASE AllocWindow
  <2>1. cfg \in Configs /\ localCurr = LocalAddr /\ UNCHANGED <<l3Curr, l3Max, l3Blocks>>
    BY <1>3 DEF AllocWindow, SetupInv, RangeInv, Fresh
  <2>2. local!Alloc(WindowRequest(cfg)) /\ local!Usable
    BY <1>3, <2>1, PoolAddresses DEF AllocWindow, local!Usable
  <2> QED
    BY <2>1, <2>2 DEF local!Next
<1>4. CASE AllocCube
  <2>1. pc = "cube"
    BY <1>4 DEF AllocCube, Succeeds
  <2>2. cfg \in Configs /\ Begun /\ l3Curr = L3Addr
    BY <2>1 DEF SetupInv, RangeInv, Filled, Fresh
  <2>3. [size |-> CubeSize(dpuCfg), align |-> 4] = CubeRequest(cfg)
    BY <2>2 DEF CubeSize, Begun, CubeRequest
  <2>4. /\ l3!Alloc(CubeRequest(cfg)) /\ l3!Usable
        /\ UNCHANGED <<localCurr, localMax, localBlocks>>
    BY <1>4, <2>2, <2>3, PoolAddresses DEF AllocCube, l3!Usable
  <2> QED
    BY <2>2, <2>4 DEF l3!Next
<1> QED
  BY <1>1, <1>2, <1>3, <1>4
  DEF BootNext, RangeStep, BeginConfig, SetAdcData, SetEdma, DpuConfig, bootVars, rangeVars

(* The boot uses either pool as its specification demands: reset first,    *)
(* and asked only for what the header calls for.                           *)
THEOREM PoolsUsed == BootSpec => UsesPools
<1>1. RangeInit => local!Init /\ l3!Init
  BY DEF RangeInit
<1>2. SetupInv /\ RangeInv /\ [BootNext]_bootVars
        => [local!Next]_(local!poolVars) /\ [l3!Next]_(l3!poolVars)
  BY PoolsStep
<1> QED
  BY <1>1, <1>2, SetUp, RangeSetUp, PTL DEF BootSpec, UsesPools, local!PoolSpec, l3!PoolSpec

\* The pools of the boot are those MemPool_proofs is about.
LEMMA SamePools ==
  /\ local!Init => localP!Init
  /\ l3!Init => l3P!Init
  /\ [local!Next]_(local!poolVars) => [localP!Next]_(localP!poolVars)
  /\ [l3!Next]_(l3!poolVars) => [l3P!Next]_(l3P!poolVars)
<1>1. local!Init => localP!Init
  BY DEF local!Init, localP!Init
<1>2. l3!Init => l3P!Init
  BY DEF l3!Init, l3P!Init
<1>3. ASSUME NEW r, local!Alloc(r) PROVE localP!Alloc(r)
  BY <1>3
  DEF local!Alloc, localP!Alloc, local!Fits, localP!Fits, local!AllocAddr, localP!AllocAddr,
      local!MEM_ALIGN, localP!MEM_ALIGN, local!MaxOf, localP!MaxOf, local!PoolEnd,
      localP!PoolEnd, local!poolVars, localP!poolVars
<1>4. ASSUME NEW r, l3!Alloc(r) PROVE l3P!Alloc(r)
  BY <1>4
  DEF l3!Alloc, l3P!Alloc, l3!Fits, l3P!Fits, l3!AllocAddr, l3P!AllocAddr, l3!MEM_ALIGN,
      l3P!MEM_ALIGN, l3!MaxOf, l3P!MaxOf, l3!PoolEnd, l3P!PoolEnd, l3!poolVars, l3P!poolVars
<1>5. [local!Next]_(local!poolVars) => [localP!Next]_(localP!poolVars)
  BY <1>3
  DEF local!Next, localP!Next, local!Reset, localP!Reset, local!Usable, localP!Usable,
      local!poolVars, localP!poolVars
<1>6. [l3!Next]_(l3!poolVars) => [l3P!Next]_(l3P!poolVars)
  BY <1>4
  DEF l3!Next, l3P!Next, l3!Reset, l3P!Reset, l3!Usable, l3P!Usable, l3!poolVars, l3P!poolVars
<1> QED
  BY <1>1, <1>2, <1>5, <1>6

(* So what is proved of MemPool holds of both pools of the boot: their     *)
(* blocks are aligned, inside the pool and disjoint.                       *)
THEOREM PoolsHold == BootSpec => [](localP!PoolInv /\ l3P!PoolInv)
<1>1. localP!PoolConstants /\ l3P!PoolConstants
  BY RangeAssumption
  DEF local!PoolConstants, l3!PoolConstants, localP!PoolConstants, l3P!PoolConstants
<1>2. localP!PoolSpec => []localP!PoolInv
  BY <1>1, localP!PoolInvariance, Zenon DEF localP!PoolAssumption
<1>3. l3P!PoolSpec => []l3P!PoolInv
  BY <1>1, l3P!PoolInvariance, Zenon DEF l3P!PoolAssumption
<1>4. UsesPools => localP!PoolSpec /\ l3P!PoolSpec
  BY SamePools, PTL
  DEF UsesPools, local!PoolSpec, l3!PoolSpec, localP!PoolSpec, l3P!PoolSpec
<1> QED
  BY <1>2, <1>3, <1>4, PoolsUsed, PTL

\* Two of the conjuncts of what is proved of MemPool.
LEMMA OfPools ==
  ASSUME localP!PoolInv, l3P!PoolInv
  PROVE  local!PoolTypeOK /\ l3!PoolTypeOK /\ l3!BlocksInside
<1>1. local!PoolTypeOK
  BY DEF localP!PoolInv, localP!PoolTypeOK, local!PoolTypeOK, localP!PoolEnd, local!PoolEnd
<1>2. l3!PoolTypeOK
  BY DEF l3P!PoolInv, l3P!PoolTypeOK, l3!PoolTypeOK, l3P!PoolEnd, l3!PoolEnd
<1>3. l3!BlocksInside
  BY DEF l3P!PoolInv, l3P!BlocksInside, l3!BlocksInside, l3P!PoolEnd, l3!PoolEnd, l3P!End, l3!End
<1> QED
  BY <1>1, <1>2, <1>3

-----------------------------------------------------------------------------
(* The cube is a block of L3 of the size of what the front end was told to *)
(* produce, for every header.                                              *)
THEOREM CubeFits ==
  ChecksProfile => (BootSpec => []CubeHoldsFrame)
<1> SUFFICES ASSUME ChecksProfile PROVE BootSpec => []CubeHoldsFrame
  OBVIOUS
<1>1. SetupInv /\ Configured /\ RangeInv /\ localP!PoolInv /\ l3P!PoolInv => CubeHoldsFrame
  <2> SUFFICES ASSUME SetupInv, Configured, RangeInv, localP!PoolInv, l3P!PoolInv,
                      dpuReady, dpuCfg.cube # NULL
               PROVE  CubeHoldsFrame
    BY DEF CubeHoldsFrame
  <2>1. pc = "post" /\ Whole
    BY DEF RangeInv, Filled
  <2>2. /\ fecss.channels.tx = cfg.tx /\ fecss.channels.rx = cfg.rx
        /\ fecss.cfg.frame.chirpsPerBurst = cfg.chirpsPerBurst
        /\ fecss.cfg.frame.bursts = cfg.bursts
        /\ fecss.cfg.profile.samples = cfg.samples
    BY <2>1 DEF Configured, RangePc, Channels, Frame, FromHeader
  <2>3. cfg \in Configs /\ cfg \in Config
    BY SetupAssumption DEF SetupInv
  <2>4. 2 * NumRangeBins(cfg.samples) >= cfg.samples
    BY <2>3, Samples, RoundsUp
  <2>5. l3!BlocksInside /\ 2 * dpuCfg.numRangeBins >= dpuCfg.fftSize
    BY <2>1, <2>4, OfPools DEF Whole
  <2>6. PICK b \in l3Blocks : b.addr = dpuCfg.cube /\ b.size = CubeBytes(cfg)
    BY <2>1 DEF Whole
  <2> QED
    BY <2>2, <2>5, <2>6 DEF CubeHoldsFrame, CubeBytes
<1> QED
  BY <1>1, FrontEndTold, SetUp, RangeSetUp, PoolsHold, PTL

-----------------------------------------------------------------------------
(* A header's window, and its cube, finds room if it fits behind the first *)
(* word boundary of its pool.                                              *)
WindowRoom(c) ==
  local!MEM_ALIGN(LocalAddr, 4) + WindowSize(c.samples) <= LocalAddr + LocalSize

CubeRoom(c) == l3!MEM_ALIGN(L3Addr, 4) + CubeBytes(c) <= L3Addr + L3Size

Roomy == \A c \in Configs : WindowRoom(c) /\ CubeRoom(c)

\* What was allocated says whether there was room; only a NULL window is noticed.
Given ==
  /\ pc \in {"adcData", "edma", "cube", "dpuConfig"} => dpuCfg.window # NULL
  /\ pc \in {"adcData", "edma", "cube", "dpuConfig", "post"} =>
       (dpuCfg.window # NULL <=> WindowRoom(cfg))
  /\ pc = "dpuConfig" => (dpuCfg.cube # NULL <=> CubeRoom(cfg))
  /\ pc = "post" /\ dpuReady => dpuCfg.window # NULL /\ (dpuCfg.cube # NULL <=> CubeRoom(cfg))
  /\ pc = "post" /\ ~dpuReady => dpuCfg.window = NULL

LEMMA FirstOfLocal ==
  ASSUME NEW n \in Nat, LocalAddr + LocalSize + 4 + n <= AddrMod,
         localCurr = LocalAddr
  PROVE  local!Result([size |-> n, align |-> 4]) # NULL
           <=> local!MEM_ALIGN(LocalAddr, 4) + n <= LocalAddr + LocalSize
<1> DEFINE r == [size |-> n, align |-> 4]
<1>1. PICK a \in Nat : /\ a = local!AllocAddr(r) /\ a = local!MEM_ALIGN(LocalAddr, 4)
                       /\ LocalAddr <= a /\ a <= LocalAddr + 3
  BY PoolAddresses, Aligned DEF local!AllocAddr, local!MEM_ALIGN
<1>2. (a + n) % AddrMod = a + n
  <2> DEFINE e == a + n
  <2>1. e \in Nat /\ e < AddrMod
    BY <1>1, PoolAddresses
  <2> HIDE DEF e
  <2>2. e % AddrMod = e
    BY <2>1, PoolAddresses
  <2> QED
    BY <2>2 DEF e
<1>3. local!Fits(r) <=> a + n <= LocalAddr + LocalSize
  BY <1>1, <1>2 DEF local!Fits, local!PoolEnd
<1>4. local!Result(r) = IF local!Fits(r) THEN a ELSE 0
  BY <1>1 DEF local!Result, local!NULL
<1> QED
  BY <1>1, <1>3, <1>4, PoolAddresses DEF NULL

LEMMA GivenStep ==
  ASSUME SetupInv, RangeInv, Given, [BootNext]_bootVars
  PROVE  Given'
<1> USE DEF Given, WindowRoom, CubeRoom
<1>1. CASE SensorNext /\ UNCHANGED rangeVars
  <2>1. pc' \in MainPc
    BY <1>1 DEF SensorNext, OpenDrivers, InitSensor, OpenHwa, InitDpu, PopulateChannelCfg,
                RfPowerOn, CheckTrim, OpenSensor, ADCBufConfig, AddProfile, AddChirp, MmwConfig,
                ReadCalib, RestoreCalib, Succeeds, Fails, MainPc
  <2> QED
    BY <2>1 DEF MainPc
<1>2. CASE ResetPools \/ BeginConfig
  BY <1>2 DEF ResetPools, BeginConfig, Succeeds
<1>3. CASE AllocWindow /\ UNCHANGED setupVars
  <2>1. cfg \in Configs /\ cfg' = cfg /\ ~dpuReady
    BY <1>3 DEF AllocWindow, SetupInv, RangeInv, Filled, setupVars, inputVars
  <2>2. PICK n \in Nat : n = WindowSize(cfg.samples)
    BY <2>1, Sized
  <2>3. LocalAddr + LocalSize + 4 + n <= AddrMod
    BY <2>1, <2>2, Sized
  <2>4. localCurr = LocalAddr
    BY <1>3 DEF AllocWindow, RangeInv, Fresh
  <2>5. PICK w : w = local!Result([size |-> n, align |-> 4])
    OBVIOUS
  <2>6. w # NULL <=> WindowRoom(cfg)
    BY <2>2, <2>3, <2>4, <2>5, FirstOfLocal
  <2>7. /\ pc' = IF w = NULL THEN "post" ELSE "adcData"
        /\ dpuCfg' = [dpuCfg EXCEPT !.windowSize = n, !.window = w]
        /\ dpuReady' = dpuReady
    BY <1>3, <2>2, <2>5 DEF AllocWindow, WindowRequest
  <2>8. dpuCfg'.window = w
    BY <2>7 DEF RangeInv, DpuRecord
  <2> QED
    BY <2>1, <2>6, <2>7, <2>8
<1>4. CASE (SetAdcData \/ SetEdma) /\ UNCHANGED setupVars
  <2>1. /\ pc \in {"adcData", "edma"} /\ pc' \in {"edma", "cube"}
        /\ UNCHANGED <<cfg, dpuReady>>
    BY <1>4 DEF SetAdcData, SetEdma, Succeeds, setupVars, inputVars
  <2>2. dpuCfg'.window = dpuCfg.window
    BY <1>4 DEF SetAdcData, SetEdma, RangeInv, DpuRecord
  <2> QED
    BY <2>1, <2>2
<1>5. CASE AllocCube /\ UNCHANGED setupVars
  <2>1. cfg \in Configs /\ cfg' = cfg
    BY <1>5 DEF SetupInv, setupVars, inputVars
  <2>2. /\ pc = "cube" /\ pc' = "dpuConfig"
        /\ l3!Alloc([size |-> CubeSize(dpuCfg), align |-> 4])
        /\ dpuCfg' = [dpuCfg EXCEPT !.cubeSize = CubeSize(dpuCfg),
                        !.cube = l3!Result([size |-> CubeSize(dpuCfg), align |-> 4])]
    BY <1>5 DEF AllocCube, Succeeds
  <2>3. Begun /\ l3Curr = L3Addr
    BY <2>2 DEF RangeInv, Filled, Fresh
  <2>4. PICK n \in Nat : n = CubeSize(dpuCfg) /\ n = CubeBytes(cfg)
    BY <2>1, <2>3, SameProduct DEF CubeSize, Begun
  <2>5. L3Addr + L3Size + 4 + n <= AddrMod
    BY <2>1, <2>4, Sized
  <2>6. PICK w : w = l3!Result([size |-> n, align |-> 4])
    OBVIOUS
  <2>7. w # NULL <=> CubeRoom(cfg)
    BY <2>2, <2>3, <2>4, <2>5, <2>6, FirstOfL3
  <2>8. dpuCfg' = [dpuCfg EXCEPT !.cubeSize = n, !.cube = w]
    BY <2>2, <2>4, <2>6
  <2>9. dpuCfg'.cube = w /\ dpuCfg'.window = dpuCfg.window
    BY <2>8 DEF RangeInv, DpuRecord
  <2>10. CubeRoom(cfg)' <=> CubeRoom(cfg)
    BY <2>1 DEF CubeBytes
  <2> QED
    BY <2>1, <2>2, <2>7, <2>9, <2>10
<1>6. CASE DpuConfig /\ UNCHANGED setupVars
  <2>1. /\ pc = "dpuConfig" /\ UNCHANGED <<cfg, dpuCfg>>
        /\ (pc' = "post" /\ dpuReady') \/ pc' = "halted"
    BY <1>6 DEF DpuConfig, Succeeds, Fails, setupVars, inputVars
  <2> QED
    BY <2>1 DEF CubeBytes
<1>7. CASE UNCHANGED bootVars
  BY <1>7 DEF bootVars, sensorVars, inputVars, rangeVars, CubeBytes
<1> QED
  BY <1>1, <1>2, <1>3, <1>4, <1>5, <1>6, <1>7 DEF BootNext, RangeStep

LEMMA GivenInvariance == BootSpec => []Given
<1>1. RangeInit => Given
  BY DEF RangeInit, SensorInit, Given
<1>2. SetupInv /\ RangeInv /\ Given /\ [BootNext]_bootVars => Given'
  BY GivenStep
<1> QED
  BY <1>1, <1>2, SetUp, RangeSetUp, PTL DEF BootSpec

(* From the configuration of the DPU on, what it was given is memory if    *)
(* and only if the header's window and cube find room: RangeProc_config()  *)
(* has no other way to a NULL, and no way around it.                       *)
THEOREM MemoryIfRoom ==
  BootSpec => [](pc \in {"dpuConfig", "post"} =>
                   (DpuGetsMemory <=> WindowRoom(cfg) /\ CubeRoom(cfg)))
<1>1. Given => (pc \in {"dpuConfig", "post"} =>
                  (DpuGetsMemory <=> WindowRoom(cfg) /\ CubeRoom(cfg)))
  BY DEF Given, DpuGetsMemory
<1> QED
  BY <1>1, GivenInvariance, PTL

(* With a header whose window and cube find room in the pools, the DPU is  *)
(* never given NULL, and never reported as configured when it is not.      *)
THEOREM Memory == Roomy => (BootSpec => []DpuGetsMemory)
<1> SUFFICES ASSUME Roomy PROVE BootSpec => []DpuGetsMemory
  OBVIOUS
<1>1. SetupInv /\ Given => DpuGetsMemory
  BY DEF SetupInv, Roomy, Given, DpuGetsMemory
<1> QED
  BY <1>1, GivenInvariance, SetUp, PTL

-----------------------------------------------------------------------------
\* What a cube may take, whether or not there is memory for it.
Words == {n \in Nat : n % 4 = 0}

Typed == dpuReady \in BOOLEAN /\ dpuCfg.cubeSize \in Words

\* RangeProc_config() sizes the cube once, in whole words.
LEMMA RangeTyped ==
  ASSUME SetupInv, RangeInv, Typed, RangeStep
  PROVE  Typed'
<1> USE DEF Typed
<1>1. CASE ResetPools
  BY <1>1 DEF ResetPools
<1>2. CASE BeginConfig
  <2>1. dpuCfg'.cubeSize = 0 /\ dpuReady' = dpuReady
    BY <1>2 DEF BeginConfig, NoDpuCfg
  <2> QED
    BY <2>1 DEF Words
<1>3. CASE AllocWindow
  <2>1. PICK n, w : dpuCfg' = [dpuCfg EXCEPT !.windowSize = n, !.window = w]
    BY <1>3 DEF AllocWindow
  <2> QED
    BY <1>3, <2>1 DEF AllocWindow, RangeInv, DpuRecord
<1>4. CASE SetAdcData
  <2>1. PICK n, w : dpuCfg' = [dpuCfg EXCEPT !.fftSize = n, !.rxChanOffset = w]
    BY <1>4 DEF SetAdcData
  <2> QED
    BY <1>4, <2>1 DEF SetAdcData, RangeInv, DpuRecord
<1>5. CASE SetEdma
  BY <1>5 DEF SetEdma, RangeInv, DpuRecord
<1>6. CASE AllocCube
  <2>1. /\ pc = "cube" /\ dpuReady' = dpuReady
        /\ dpuCfg' = [dpuCfg EXCEPT !.cubeSize = CubeSize(dpuCfg),
                        !.cube = l3!Result([size |-> CubeSize(dpuCfg), align |-> 4])]
    BY <1>6 DEF AllocCube, Succeeds
  <2>2. Begun /\ cfg \in Configs
    BY <2>1 DEF RangeInv, Filled, SetupInv
  <2>3. CubeSize(dpuCfg) \in Words
    BY <2>2, SameProduct DEF CubeSize, Begun, Words
  <2>4. PICK n, w : /\ n = CubeSize(dpuCfg)
                    /\ dpuCfg' = [dpuCfg EXCEPT !.cubeSize = n, !.cube = w]
    BY <2>1
  <2>5. dpuCfg'.cubeSize = n
    BY <2>4 DEF RangeInv, DpuRecord
  <2> QED
    BY <2>1, <2>3, <2>4, <2>5
<1>7. CASE DpuConfig
  BY <1>7 DEF DpuConfig
<1> QED
  BY <1>1, <1>2, <1>3, <1>4, <1>5, <1>6, <1>7 DEF RangeStep

LEMMA TypedStep ==
  ASSUME SetupInv, RangeInv, Typed, [BootNext]_bootVars
  PROVE  Typed'
<1>1. CASE UNCHANGED rangeVars
  BY <1>1 DEF Typed, rangeVars
<1> QED
  BY <1>1, RangeTyped DEF BootNext, bootVars

LEMMA ContractStep ==
  ASSUME SetupInv, RangeInv', Typed', [BootNext]_bootVars
  PROVE  [Contract!Configure]_(Contract!contractVars)
<1> USE DEF Contract!contractVars
<1>1. CASE SensorNext /\ UNCHANGED rangeVars
  <2>1. pc # "post" /\ pc' # "post"
    BY <1>1 DEF SensorNext, OpenDrivers, InitSensor, OpenHwa, InitDpu, PopulateChannelCfg,
                RfPowerOn, CheckTrim, OpenSensor, ADCBufConfig, AddProfile, AddChirp, MmwConfig,
                ReadCalib, RestoreCalib, Succeeds, Fails
  <2> QED
    BY <1>1, <2>1 DEF rangeVars
<1>2. CASE RangeStep /\ UNCHANGED setupVars
  <2>1. pc # "post"
    BY <1>2 DEF RangeStep, ResetPools, BeginConfig, AllocWindow, SetAdcData, SetEdma, AllocCube,
                DpuConfig, Succeeds, Fails
  <2>2. pc' = "post" /\ dpuCfg'.cubeSize # 0 => dpuReady'
    BY DEF RangeInv, Filled
  <2> QED
    BY <2>1, <2>2 DEF Typed, Words, Contract!Configure
<1>3. CASE UNCHANGED bootVars
  BY <1>3 DEF bootVars, sensorVars, rangeVars
<1> QED
  BY <1>1, <1>2, <1>3 DEF BootNext

(* The configuration is reported once, with a DPU for a cube of any bytes, *)
(* and is final: the detailed boot implements ConfigContract, as Streaming *)
(* does with RangeProc_config() as one step.                               *)
THEOREM ContractKept == BootSpec => KeepsContract
<1>1. RangeInit => Contract!Init /\ Typed
  <2>1. RangeInit => pc = "drivers" /\ dpuReady = FALSE /\ dpuCfg.cubeSize = 0
    BY DEF RangeInit, SensorInit, NoDpuCfg
  <2>2. 0 \in Words
    BY DEF Words
  <2> QED
    BY <2>1, <2>2 DEF Contract!Init, Typed
<1>2. SetupInv /\ RangeInv /\ Typed /\ [BootNext]_bootVars => Typed'
  BY TypedStep
<1>3. SetupInv /\ RangeInv' /\ Typed' /\ [BootNext]_bootVars
        => [Contract!Configure]_(Contract!contractVars)
  BY ContractStep
<1> QED
  BY <1>1, <1>2, <1>3, SetUp, RangeSetUp, PTL DEF BootSpec, KeepsContract, Contract!Spec

-----------------------------------------------------------------------------
LEMMA RangeTable ==
  ASSUME NEW t \in DOMAIN EdmaCfg, NEW u \in DOMAIN EdmaCfg, t # u
  PROVE  Disjoint(EdmaCfg[t], EdmaCfg[u])
<1>1. DOMAIN EdmaCfg = {"dataIn", "dataInSignature", "evtDecim0", "evtDecim1", "dataOutMinor0",
                        "dataOutMinor1", "dataOutMajor0", "dataOutMajor1"}
  BY DEF EdmaCfg
<1> QED
  BY <1>1 DEF EdmaCfg, RANGEPROC, Disjoint, Transfer

\* The range DPU has the shadow sets up to 10, the others those from 11 on.
LEMMA OtherTables ==
  ASSUME NEW t \in Transfers(EdmaCfg),
         NEW u \in Transfers(DOAPROC) \cup Transfers(CFAR_PROC) \cup Transfers(UDOP_PROC)
  PROVE  Disjoint(t, u)
<1> DEFINE Events == {"CHIRP_AVAIL_IRQ", "FREE_0", "HWA_DMA_REQ0", "FREE_1", "FREE_2",
                     "HWA_DMA_REQ1", "FREE_3", "FREE_4"}
<1>1. t.channel \in Events /\ \A n \in t.shadows : n \in Nat /\ n <= 10
  <2>1. DOMAIN EdmaCfg = {"dataIn", "dataInSignature", "evtDecim0", "evtDecim1",
                          "dataOutMinor0", "dataOutMinor1", "dataOutMajor0", "dataOutMajor1"}
    BY DEF EdmaCfg
  <2> QED
    BY <2>1 DEF EdmaCfg, RANGEPROC, Transfers, Transfer
<1>2. u.channel \notin Events /\ \A n \in u.shadows : n \in Nat /\ n >= 11
  <2>1. CASE u \in Transfers(DOAPROC)
    <3>1. DOMAIN DOAPROC = 1..10
      BY DEF DOAPROC
    <3>2. 1..10 = {1, 2, 3, 4, 5, 6, 7, 8, 9, 10}
      OBVIOUS
    <3> QED
      BY <2>1, <3>1, <3>2 DEF DOAPROC, Transfers, Transfer
  <2>2. CASE u \in Transfers(CFAR_PROC)
    <3>1. DOMAIN CFAR_PROC = 1..3
      BY DEF CFAR_PROC
    <3> QED
      BY <2>2, <3>1 DEF CFAR_PROC, Transfers, Transfer
  <2>3. CASE u \in Transfers(UDOP_PROC)
    <3>1. DOMAIN UDOP_PROC = 1..5
      BY DEF UDOP_PROC
    <3> QED
      BY <2>3, <3>1 DEF UDOP_PROC, Transfers, Transfer
  <2> QED
    BY <2>1, <2>2, <2>3
<1> QED
  BY <1>1, <1>2 DEF Disjoint

\* The table is copied before the cube is allocated and not touched again.
Copied == pc \in {"cube", "dpuConfig"} \/ dpuReady => dpuCfg.edma = EdmaCfg

LEMMA CopiedStep ==
  ASSUME SetupInv, RangeInv, Copied, [BootNext]_bootVars
  PROVE  Copied'
<1> USE DEF Copied
<1>1. CASE SensorNext /\ UNCHANGED rangeVars
  <2>1. pc' \notin {"cube", "dpuConfig"}
    BY <1>1 DEF SensorNext, OpenDrivers, InitSensor, OpenHwa, InitDpu, PopulateChannelCfg,
                RfPowerOn, CheckTrim, OpenSensor, ADCBufConfig, AddProfile, AddChirp, MmwConfig,
                ReadCalib, RestoreCalib, Succeeds, Fails
  <2> QED
    BY <1>1, <2>1 DEF rangeVars
<1>2. CASE ResetPools \/ BeginConfig \/ AllocWindow \/ SetAdcData
  BY <1>2 DEF ResetPools, BeginConfig, AllocWindow, SetAdcData, Succeeds, RangeInv, Filled
<1>3. CASE SetEdma
  BY <1>3 DEF SetEdma, RangeInv, DpuRecord
<1>4. CASE AllocCube
  <2>1. PICK n, w : dpuCfg' = [dpuCfg EXCEPT !.cubeSize = n, !.cube = w]
    BY <1>4 DEF AllocCube
  <2> QED
    BY <1>4, <2>1 DEF AllocCube, Succeeds, RangeInv, DpuRecord
<1>5. CASE DpuConfig
  BY <1>5 DEF DpuConfig, Succeeds, Fails
<1>6. CASE UNCHANGED bootVars
  BY <1>6 DEF bootVars, sensorVars, rangeVars
<1> QED
  BY <1>1, <1>2, <1>3, <1>4, <1>5, <1>6 DEF BootNext, RangeStep

(* No transfer of a configured DPU shares a channel or a shadow set with   *)
(* another of its own, or with one of the DPUs that are not configured.    *)
THEOREM EdmaApart == BootSpec => []EdmaDisjoint
<1>1. RangeInit => Copied
  BY DEF RangeInit, SensorInit, Copied
<1>2. SetupInv /\ RangeInv /\ Copied /\ [BootNext]_bootVars => Copied'
  BY CopiedStep
<1>3. Copied => EdmaDisjoint
  <2> SUFFICES ASSUME dpuCfg.edma = EdmaCfg PROVE EdmaDisjoint
    BY DEF Copied, EdmaDisjoint
  <2> QED
    BY RangeTable, OtherTables DEF EdmaDisjoint
<1> QED
  BY <1>1, <1>2, <1>3, SetUp, RangeSetUp, PTL DEF BootSpec

-----------------------------------------------------------------------------
(* The layout of the ADC buffer.  Mmwave_ADCBufConfig() comes before the   *)
(* number of samples is known, so it leaves every channel at offset 0.     *)
Stages == {"drivers", "initSensor", "openHwa", "initDpu", "channelCfg"}

LaidOut ==
  /\ pc \in Stages \cup {"power", "trim", "openSensor", "adcBuf"} => profileCfg = NoProfile
  /\ pc \notin Stages \cup {"halted"} => channelCfg.rx = cfg.rx
  /\ pc \in {"profile", "chirp", "mmwConfig", "readCalib", "checkCalib", "createDpc"}
             \cup RangePc =>
       \A c \in cfg.rx : adcReg[c] = 0
  /\ pc \in {"edma", "cube", "dpuConfig"} \/ dpuReady =>
       dpuCfg.rxChanOffset = [i \in RxChannels |-> i * BytesPerRxChan(cfg.samples)]

LEMMA LaidOutInit == RangeInit => LaidOut
BY DEF RangeInit, SensorInit, LaidOut, Stages, RangePc

\* With no samples a channel takes no bytes.
LEMMA NoOffset ==
  ASSUME NEW c \in RxChannels, channelCfg.rx \subseteq RxChannels
  PROVE  AdcOffset(c, NoProfile.samples * 2) \div 16 = 0
<1>1. IsFiniteSet({d \in channelCfg.rx : d < c})
  <2>1. 0 \in Int /\ 2 \in Int
    OBVIOUS
  <2> QED
    BY <2>1, FS_Interval, FS_Subset, Zenon DEF RxChannels
<1>2. PICK k \in Nat : k = Cardinality({d \in channelCfg.rx : d < c})
  BY <1>1, FS_CardinalityType
<1>3. NoProfile.samples * 2 = 0 /\ k * 0 = 0 /\ 2^16 = 65536
  BY DEF NoProfile
<1>4. 0 % 65536 = 0 /\ 0 \div 16 = 0
  OBVIOUS
<1> QED
  BY <1>2, <1>3, <1>4 DEF AdcOffset

LEMMA LaidOutSetup ==
  ASSUME SetupInv, RangeInv, LaidOut, SensorNext, UNCHANGED rangeVars
  PROVE  LaidOut'
<1> USE DEF LaidOut, Stages, RangePc, Succeeds, Fails, Keeps, inputVars, gSysVars
<1>1. cfg' = cfg /\ UNCHANGED <<dpuCfg, dpuReady>>
  BY ToldStep DEF rangeVars
<1>2. pc \in MainPc \ {"halted"} /\ pc' \in MainPc
  BY DEF SensorNext, OpenDrivers, InitSensor, OpenHwa, InitDpu, PopulateChannelCfg, RfPowerOn,
         CheckTrim, OpenSensor, ADCBufConfig, AddProfile, AddChirp, MmwConfig, ReadCalib,
         RestoreCalib, MainPc
<1>3. ~dpuReady
  BY <1>2 DEF RangeInv, Filled, MainPc
<1>4. CASE OpenDrivers \/ InitSensor \/ OpenHwa \/ InitDpu \/ PopulateChannelCfg
  BY <1>1, <1>3, <1>4 DEF OpenDrivers, InitSensor, OpenHwa, InitDpu, PopulateChannelCfg
<1>5. CASE RfPowerOn \/ CheckTrim \/ OpenSensor
  BY <1>1, <1>3, <1>5 DEF RfPowerOn, CheckTrim, OpenSensor
<1>6. CASE ADCBufConfig
  <2>1. cfg.rx \subseteq RxChannels /\ channelCfg.rx = cfg.rx /\ profileCfg = NoProfile
    BY <1>6, SetupAssumption DEF SetupInv, Config, ADCBufConfig
  <2>2. \A c \in cfg.rx : adcReg'[c] = 0
    BY <1>6, <2>1, NoOffset DEF ADCBufConfig
  <2>3. pc' = "profile" /\ channelCfg' = channelCfg
    BY <1>6 DEF ADCBufConfig
  <2> QED
    BY <1>1, <1>3, <2>1, <2>2, <2>3
<1>7. CASE AddProfile \/ AddChirp
  BY <1>1, <1>3, <1>7 DEF AddProfile, AddChirp
<1>8. CASE MmwConfig \/ ReadCalib \/ RestoreCalib
  BY <1>1, <1>3, <1>8 DEF MmwConfig, ReadCalib, RestoreCalib
<1> QED
  BY <1>4, <1>5, <1>6, <1>7, <1>8 DEF SensorNext

LEMMA LaidOutRange ==
  ASSUME SetupInv, RangeInv, LaidOut, RangeStep, UNCHANGED setupVars
  PROVE  LaidOut'
<1> USE DEF LaidOut, Stages, Succeeds, Fails
<1>1. /\ pc \in {"createDpc"} \cup RangePc /\ pc' \in {"halted"} \cup RangePc
      /\ UNCHANGED <<cfg, channelCfg, profileCfg, adcReg>>
  BY RangeKeeps DEF setupVars
<1>2. ASSUME \/ pc' \in {"edma", "cube", "dpuConfig"}
             \/ dpuReady'
      PROVE  dpuCfg'.rxChanOffset = [i \in RxChannels |-> i * BytesPerRxChan(cfg.samples)]
  <2>1. CASE ResetPools \/ BeginConfig \/ AllocWindow
    BY <1>2, <2>1 DEF ResetPools, BeginConfig, AllocWindow, RangeInv, Filled
  <2>2. CASE SetAdcData
    <3>1. PICK f : f = [i \in RxChannels |-> i * BytesPerRxChan(cfg.samples)]
      OBVIOUS
    <3>2. dpuCfg' = [dpuCfg EXCEPT !.fftSize = cfg.samples, !.rxChanOffset = f]
      BY <2>2, <3>1 DEF SetAdcData
    <3>3. dpuCfg'.rxChanOffset = f
      BY <3>2 DEF RangeInv, DpuRecord
    <3> QED
      BY <3>1, <3>3
  <2>3. CASE SetEdma
    BY <2>3 DEF SetEdma, RangeInv, DpuRecord
  <2>4. CASE AllocCube
    <3>1. PICK n, w : dpuCfg' = [dpuCfg EXCEPT !.cubeSize = n, !.cube = w]
      BY <2>4 DEF AllocCube
    <3> QED
      BY <2>4, <3>1 DEF AllocCube, RangeInv, DpuRecord
  <2>5. CASE DpuConfig
    BY <2>5 DEF DpuConfig
  <2> QED
    BY <2>1, <2>2, <2>3, <2>4, <2>5 DEF RangeStep
<1> QED
  BY <1>1, <1>2 DEF RangePc

LEMMA LaidOutStep ==
  ASSUME SetupInv, RangeInv, LaidOut, [BootNext]_bootVars
  PROVE  LaidOut'
<1>1. CASE UNCHANGED bootVars
  BY <1>1 DEF bootVars, sensorVars, rangeVars, inputVars, gSysVars, LaidOut
<1> QED
  BY <1>1, LaidOutSetup, LaidOutRange DEF BootNext

\* At most one channel is one with nothing below it.
LEMMA NothingBelow ==
  ASSUME NEW S \in SUBSET RxChannels
  PROVE  /\ \A c \in S : Cardinality({d \in S : d < c}) \in {0, 1, 2}
         /\ Cardinality(S) <= 1 <=> \A c \in S : Cardinality({d \in S : d < c}) = 0
<1>1. 0 \in Int /\ 1 \in Int /\ 2 \in Int
  OBVIOUS
<1>2. IsFiniteSet(S)
  BY <1>1, FS_Interval, FS_Subset, Zenon DEF RxChannels
<1>3. ASSUME NEW c \in S
      PROVE  /\ Cardinality({d \in S : d < c}) \in {0, 1, 2}
             /\ Cardinality({d \in S : d < c}) = 0 <=> {d \in S : d < c} = {}
  <2>1. IsFiniteSet({d \in S : d < c})
    BY <1>2, FS_Subset
  <2>2. {d \in S : d < c} \subseteq 0..1
    <3>1. 0..2 = {0, 1, 2} /\ 0..1 = {0, 1}
      OBVIOUS
    <3>2. ASSUME NEW d \in S, d < c PROVE d \in 0..1
      <4>1. d \in {0, 1, 2} /\ c \in {0, 1, 2}
        BY <3>1 DEF RxChannels
      <4>2. d = 0 \/ d = 1
        BY <3>2, <4>1
      <4> QED
        BY <3>1, <4>2
    <3> QED
      BY <3>2
  <2>3. IsFiniteSet(0..1) /\ Cardinality(0..1) = 2
    <3>1. /\ IsFiniteSet(0..1)
          /\ Cardinality(0..1) = IF 0 > 1 THEN 0 ELSE 1 - 0 + 1
      BY <1>1, FS_Interval, Zenon
    <3> QED
      BY <3>1
  <2>4. Cardinality({d \in S : d < c}) <= 2
    BY <2>2, <2>3, FS_Subset
  <2> QED
    BY <2>1, <2>4, FS_CardinalityType, FS_EmptySet
<1>4. ASSUME \A c \in S : {d \in S : d < c} = {} PROVE Cardinality(S) <= 1
  <2>1. CASE S = {}
    BY <2>1, FS_EmptySet
  <2>2. CASE S # {}
    <3>1. PICK x \in S : TRUE
      BY <2>2
    <3>2. S = {x}
      <4>1. ASSUME NEW y \in S PROVE y = x
        <5>1. x \in Int /\ y \in Int
          BY DEF RxChannels
        <5>2. ~(x < y) /\ ~(y < x)
          BY <1>4
        <5> QED
          BY <5>1, <5>2
      <4> QED
        BY <4>1
    <3> QED
      BY <3>2, FS_Singleton
  <2> QED
    BY <2>1, <2>2
<1>5. ASSUME Cardinality(S) <= 1, NEW c \in S PROVE {d \in S : d < c} = {}
  <2>1. Cardinality({c}) = 1 /\ IsFiniteSet({c})
    BY FS_Singleton
  <2>2. {c} = S
    <3>1. {c} \subseteq S
      OBVIOUS
    <3>2. Cardinality(S) \in Nat
      BY <1>2, FS_CardinalityType
    <3>3. Cardinality({c}) <= Cardinality(S) /\ (Cardinality({c}) = Cardinality(S) => {c} = S)
      BY <1>2, <3>1, FS_Subset
    <3> QED
      BY <1>5, <2>1, <3>2, <3>3
  <2>3. \A d \in S : ~(d < c)
    <3>1. c \in Int /\ ~(c < c)
      BY DEF RxChannels
    <3> QED
      BY <2>2, <3>1
  <2> QED
    BY <2>3
<1> QED
  BY <1>3, <1>4, <1>5

(* The DPU and the ADC buffer agree on where the samples are if and only   *)
(* if there is just one channel (Mmwave_ADCBufConfig(), RangeProc_config()).*)
THEOREM AgreeOnOneChannel ==
  BootSpec => [](dpuReady => (AdcLayoutAgrees <=> Cardinality(channelCfg.rx) <= 1))
<1>1. SetupInv /\ RangeInv /\ LaidOut /\ [BootNext]_bootVars => LaidOut'
  BY LaidOutStep
<1>2. SetupInv /\ RangeInv /\ LaidOut =>
        (dpuReady => (AdcLayoutAgrees <=> Cardinality(channelCfg.rx) <= 1))
  <2> SUFFICES ASSUME SetupInv, RangeInv, LaidOut, dpuReady
               PROVE  AdcLayoutAgrees <=> Cardinality(channelCfg.rx) <= 1
    OBVIOUS
  <2>1. pc = "post"
    BY DEF RangeInv, Filled
  <2>2. channelCfg.rx = cfg.rx /\ \A c \in cfg.rx : adcReg[c] = 0
    BY <2>1 DEF LaidOut, Stages, RangePc
  <2>3. cfg.rx \in SUBSET RxChannels /\ cfg \in Configs
    BY SetupAssumption DEF SetupInv, Config
  <2>4. PICK n \in Nat : n = BytesPerRxChan(cfg.samples) /\ n > 0
    <3>1. cfg.samples \in Nat /\ 2 <= cfg.samples
      BY <2>3, Samples
    <3> QED
      BY <3>1 DEF BytesPerRxChan
  <2>5. dpuCfg.rxChanOffset = [i \in RxChannels |-> i * n]
    BY <2>4 DEF LaidOut
  <2>6. ASSUME NEW c \in cfg.rx
        PROVE  adcReg[c] * 16 = dpuCfg.rxChanOffset[Cardinality({d \in cfg.rx : d < c})]
                 <=> Cardinality({d \in cfg.rx : d < c}) = 0
    <3>1. PICK k \in {0, 1, 2} : k = Cardinality({d \in cfg.rx : d < c})
      BY <2>3, NothingBelow
    <3>2. dpuCfg.rxChanOffset[k] = k * n
      BY <2>5 DEF RxChannels
    <3>3. 0 = k * n <=> k = 0
      BY <2>4
    <3>4. adcReg[c] * 16 = 0
      BY <2>2
    <3> QED
      BY <3>1, <3>2, <3>3, <3>4
  <2> QED
    BY <2>2, <2>3, <2>6, NothingBelow DEF AdcLayoutAgrees
<1> QED
  BY <1>1, <1>2, LaidOutInit, SetUp, RangeSetUp, PTL DEF BootSpec

-----------------------------------------------------------------------------
(* The types.  A header's numbers are natural, and so is what is computed  *)
(* from them.                                                              *)
LEMMA SlopeType ==
  ASSUME NEW c \in Config
  PROVE  FreqSlope(c.slope) \in Nat
<1>1. PICK x \in Nat : x = 131072 * c.slope
  BY DEF Config
<1> QED
  BY <1>1 DEF FreqSlope

LEMMA CrdType ==
  ASSUME NEW c \in Config, NEW crd \in CrdNSlopeMag(c)
  PROVE  crd \in Word16
<1>1. PICK w \in Nat : w = 2^16
  <2>1. 2^16 = 65536
    OBVIOUS
  <2> QED
    BY <2>1
<1>2. w > 0
  <2>1. 2^16 = 65536
    OBVIOUS
  <2> QED
    BY <1>1, <2>1
<1>3. RampDownTime(c) # 0 => CrdMagnitude(c) \in Int
  <2>1. c.idle \in Nat /\ c.rampEnd \in Nat /\ c.slope \in Nat
    BY DEF Config
  <2>2. RampDownTime(c) \in Int
    BY <2>1 DEF RampDownTime
  <2>3. c.rampEnd * c.slope \in Nat
    BY <2>1
  <2>4. 8192 * c.rampEnd * c.slope \in Nat
    BY <2>1, <2>3
  <2>5. PICK x \in Nat : x = Abs(8192 * c.rampEnd * c.slope + 1875 * RampDownTime(c))
    BY <2>2, <2>4 DEF Abs
  <2>6. RampDownTime(c) # 0 => 3750 * Abs(RampDownTime(c)) \in Nat \ {0}
    BY <2>2 DEF Abs
  <2> QED
    BY <2>5, <2>6 DEF CrdMagnitude
<1>4. CASE CrdFits(c)
  BY <1>4 DEF CrdFits, CrdNSlopeMag
<1>5. CASE ~CrdFits(c)
  <2>1. crd = 0 \/ crd = w - 1 \/ (RampDownTime(c) # 0 /\ crd = CrdMagnitude(c) % w)
    BY <1>1, <1>5 DEF CrdNSlopeMag
  <2>2. Word16 = 0..(w - 1)
    BY <1>1 DEF Word16
  <2>3. CASE crd = 0 \/ crd = w - 1
    BY <1>2, <2>2, <2>3
  <2>4. CASE RampDownTime(c) # 0 /\ crd = CrdMagnitude(c) % w
    <3>1. PICK m \in Int : m = CrdMagnitude(c)
      BY <1>3, <2>4
    <3>2. m % w \in 0..(w - 1)
      BY <1>2
    <3> QED
      BY <2>2, <2>4, <3>1, <3>2
  <2> QED
    BY <2>1, <2>3, <2>4
<1> QED
  BY <1>4, <1>5

LEMMA CentreType ==
  ASSUME NEW p \in Profile, NEW slope \in Nat
  PROVE  CentreFreq(p, slope) \in Nat
<1>1. p.freqStart \in Nat /\ p.rampEnd \in Nat
  BY DEF Profile
<1>2. PICK x \in Nat : x = 16 * slope * p.rampEnd
  <2>1. slope * p.rampEnd \in Nat
    BY <1>1
  <2>2. 16 * slope * p.rampEnd \in Nat
    BY <1>1, <2>1
  <2> QED
    BY <2>2
<1>3. PICK z \in Nat : z = p.freqStart + x \div 375
  BY <1>1
<1>4. 2^16 = 65536
  OBVIOUS
<1>5. z % 65536 \in Nat
  OBVIOUS
<1> QED
  BY <1>2, <1>3, <1>4, <1>5 DEF CentreFreq

LEMMA OffsetType ==
  ASSUME NEW c \in RxChannels, NEW n \in Nat, channelCfg.rx \subseteq RxChannels
  PROVE  AdcOffset(c, n) \div 16 \in Nat
<1>1. IsFiniteSet(RxChannels)
  <2>1. 0 \in Int /\ 2 \in Int
    OBVIOUS
  <2> QED
    BY <2>1, FS_Interval, Zenon DEF RxChannels
<1>2. IsFiniteSet({d \in channelCfg.rx : d < c})
  BY <1>1, FS_Subset
<1>3. PICK k \in Nat : k = Cardinality({d \in channelCfg.rx : d < c})
  BY <1>2, FS_CardinalityType
<1>4. PICK x \in Nat : x = k * n
  OBVIOUS
<1>5. 2^16 = 65536
  OBVIOUS
<1>6. (x % 65536) \div 16 \in Nat
  OBVIOUS
<1> QED
  BY <1>3, <1>4, <1>5, <1>6 DEF AdcOffset

LEMMA SensorTypeInit == SensorInit => SensorTypeOK
<1> SUFFICES ASSUME SensorInit PROVE SensorTypeOK
  OBVIOUS
<1>1. 0 \in Word16
  <2>1. 2^16 = 65536
    OBVIOUS
  <2> QED
    BY <2>1 DEF Word16
<1>2. NoProfile \in Profile
  BY <1>1 DEF NoProfile, Profile
<1>3. NoCtrlCfg \in CtrlCfg
  BY <1>2 DEF NoCtrlCfg, CtrlCfg, NoFrame
<1>4. NoCommand \in Command
  BY DEF NoCommand, Command
<1>5. NoChannels \in [rx : SUBSET RxChannels, tx : SUBSET TxAntennas]
  BY DEF NoChannels
<1> QED
  BY <1>2, <1>3, <1>4, <1>5 DEF SensorInit, SensorTypeOK

LEMMA SensorTypeStep ==
  ASSUME SetupInv, SensorTypeOK, SensorNext
  PROVE  SensorTypeOK'
<1> USE DEF Succeeds, Fails, Keeps, inputVars, gSysVars, calVars
<1>1. cfg \in Config /\ cfg \in Configs
  BY SetupAssumption DEF SetupInv
<1>2. Channels \in [rx : SUBSET RxChannels, tx : SUBSET TxAntennas]
  BY <1>1 DEF Channels, Config
<1>3. CASE OpenDrivers \/ OpenHwa \/ InitDpu
  BY <1>3 DEF OpenDrivers, OpenHwa, InitDpu, SensorTypeOK
<1>4. CASE InitSensor \/ RfPowerOn \/ CheckTrim
  BY <1>4 DEF InitSensor, RfPowerOn, CheckTrim, SensorTypeOK, SetupInv, FecssRecord
<1>5. CASE PopulateChannelCfg
  BY <1>1, <1>2, <1>5, Antennas DEF PopulateChannelCfg, SensorTypeOK, Channels
<1>6. CASE OpenSensor
  <2>1. cfg.samples \in Nat
    BY <1>1 DEF Config
  <2> QED
    BY <1>6, <2>1 DEF OpenSensor, RdifSampleCount, SensorTypeOK, SetupInv, FecssRecord
<1>7. CASE ADCBufConfig
  <2>1. channelCfg.rx \subseteq RxChannels
    BY DEF SensorTypeOK
  <2>2. profileCfg.samples * 2 \in Nat
    BY DEF SensorTypeOK, Profile
  <2>3. adcReg' \in [RxChannels -> Nat \cup {Off}]
    BY <1>7, <2>1, <2>2, OffsetType DEF ADCBufConfig
  <2> QED
    BY <1>7, <2>3 DEF ADCBufConfig, SensorTypeOK
<1>8. CASE AddProfile
  <2>1. profileCfg' \in Profile
    BY <1>1, <1>8, SlopeType, CrdType DEF AddProfile, DefaultProfileCfg, Profile, Config
  <2>2. NoProfile \in Profile
    <3>1. 2^16 = 65536
      OBVIOUS
    <3>2. 0 \in Word16
      BY <3>1 DEF Word16
    <3> QED
      BY <3>2 DEF NoProfile, Profile
  <2>3. ctrlCfg' = [NoCtrlCfg EXCEPT !.profile = profileCfg'] \/ ctrlCfg' = NoCtrlCfg
    BY <1>8 DEF AddProfile
  <2>4. ctrlCfg' \in CtrlCfg
    <3>1. /\ NoCtrlCfg = [profile |-> NoProfile, chirp |-> FALSE, frame |-> NoFrame]
          /\ NoFrame \in [chirpsPerBurst : Nat, bursts : Nat, frames : Nat]
      BY DEF NoCtrlCfg, NoFrame
    <3>2. NoCtrlCfg \in CtrlCfg
      BY <2>2, <3>1 DEF CtrlCfg
    <3> QED
      BY <2>1, <2>3, <3>2 DEF CtrlCfg
  <2> QED
    BY <1>8, <2>1, <2>4 DEF AddProfile, SensorTypeOK
<1>9. CASE AddChirp
  <2>1. Frame \in [chirpsPerBurst : Nat, bursts : Nat, frames : Nat]
    BY <1>1 DEF Frame, Config
  <2>2. ctrlCfg' = [ctrlCfg EXCEPT !.chirp = TRUE, !.frame = Frame] \/ ctrlCfg' = ctrlCfg
    BY <1>9 DEF AddChirp, Frame
  <2>3. ctrlCfg' \in CtrlCfg
    BY <2>1, <2>2 DEF CtrlCfg, SensorTypeOK
  <2> QED
    BY <1>9, <2>3 DEF AddChirp, SensorTypeOK
<1>10. CASE MmwConfig
  BY <1>10 DEF MmwConfig, SensorTypeOK, SetupInv, FecssRecord
<1>11. CASE ReadCalib
  <2>1. cfg.slope \in Nat /\ profileCfg \in Profile
    BY <1>1 DEF Config, SensorTypeOK
  <2>2. TxPwrCalTxEnaMask(channelCfg.tx) \in (SUBSET TxAntennas) \X (SUBSET TxAntennas)
    BY DEF TxPwrCalTxEnaMask, SensorTypeOK, TxAntennas
  <2>3. CentreFreq(profileCfg, cfg.slope) \in Nat
    BY <2>1, CentreType
  <2>4. calCmd' \in Command
    BY <1>11, <2>2, <2>3 DEF ReadCalib, Command
  <2> QED
    BY <1>11, <2>4 DEF ReadCalib, SensorTypeOK
<1>12. CASE RestoreCalib
  BY <1>12 DEF RestoreCalib, SensorTypeOK, SetupInv, FecssRecord
<1> QED
  BY <1>3, <1>4, <1>5, <1>6, <1>7, <1>8, <1>9, <1>10, <1>11, <1>12 DEF SensorNext

\* The control points and the offsets of the channels.
Points ==
  /\ pc \in MainPc \cup RangePc
  /\ dpuCfg.rxChanOffset \in [RxChannels -> Nat]

LEMMA PointsStep ==
  ASSUME SetupInv, RangeInv, Points, [BootNext]_bootVars
  PROVE  Points'
<1> USE DEF Points, Succeeds, Fails
<1>1. CASE SensorNext /\ UNCHANGED rangeVars
  BY <1>1
  DEF SensorNext, OpenDrivers, InitSensor, OpenHwa, InitDpu, PopulateChannelCfg, RfPowerOn,
      CheckTrim, OpenSensor, ADCBufConfig, AddProfile, AddChirp, MmwConfig, ReadCalib,
      RestoreCalib, MainPc, rangeVars
<1>2. CASE ResetPools \/ DpuConfig
  BY <1>2 DEF ResetPools, DpuConfig, MainPc, RangePc
<1>3. CASE BeginConfig
  <2>1. pc' \in {"window", "halted"}
    BY <1>3 DEF BeginConfig
  <2>2. dpuCfg'.rxChanOffset = [i \in RxChannels |-> 0]
    BY <1>3 DEF BeginConfig, NoDpuCfg
  <2> QED
    BY <2>1, <2>2 DEF MainPc, RangePc
<1>4. CASE AllocWindow
  <2>1. PICK n, w : dpuCfg' = [dpuCfg EXCEPT !.windowSize = n, !.window = w]
    BY <1>4 DEF AllocWindow
  <2> QED
    BY <1>4, <2>1 DEF AllocWindow, RangeInv, DpuRecord, RangePc
<1>5. CASE SetAdcData
  <2>1. PICK n \in Nat : n = BytesPerRxChan(cfg.samples)
    <3>1. cfg.samples \in Nat
      BY SetupAssumption DEF SetupInv, Config
    <3> QED
      BY <3>1 DEF BytesPerRxChan
  <2>2. PICK f : f = [i \in RxChannels |-> i * n]
    OBVIOUS
  <2>3. f \in [RxChannels -> Nat]
    BY <2>2 DEF RxChannels
  <2>4. dpuCfg' = [dpuCfg EXCEPT !.fftSize = cfg.samples, !.rxChanOffset = f]
    BY <1>5, <2>1, <2>2 DEF SetAdcData
  <2>5. dpuCfg'.rxChanOffset = f
    BY <2>4 DEF RangeInv, DpuRecord
  <2> QED
    BY <1>5, <2>3, <2>5 DEF SetAdcData, RangePc
<1>6. CASE SetEdma
  BY <1>6 DEF SetEdma, RangeInv, DpuRecord, RangePc
<1>7. CASE AllocCube
  <2>1. PICK n, w : dpuCfg' = [dpuCfg EXCEPT !.cubeSize = n, !.cube = w]
    BY <1>7 DEF AllocCube
  <2> QED
    BY <1>7, <2>1 DEF AllocCube, RangeInv, DpuRecord, RangePc
<1>8. CASE UNCHANGED bootVars
  BY <1>8 DEF bootVars, sensorVars, rangeVars
<1> QED
  BY <1>1, <1>2, <1>3, <1>4, <1>5, <1>6, <1>7, <1>8 DEF BootNext, RangeStep

LEMMA SensorTypeKept ==
  ASSUME SetupInv, SensorTypeOK, [BootNext]_bootVars
  PROVE  SensorTypeOK'
<1>1. CASE UNCHANGED setupVars
  BY <1>1 DEF setupVars, inputVars, gSysVars, calVars, SensorTypeOK
<1> QED
  BY <1>1, SensorTypeStep DEF BootNext, bootVars, sensorVars, setupVars

(* The types of the whole boot, for every header, room for its window and  *)
(* its cube or not.                                                        *)
THEOREM TypeCorrect == BootSpec => []RangeTypeOK
<1> DEFINE Types == SensorTypeOK /\ Points /\ Typed
<1>1. RangeInit => Types
  <2> SUFFICES ASSUME RangeInit PROVE Types
    OBVIOUS
  <2>1. pc = "drivers" /\ dpuReady = FALSE /\ dpuCfg = NoDpuCfg
    BY DEF RangeInit, SensorInit
  <2>2. dpuCfg.rxChanOffset = [i \in RxChannels |-> 0] /\ dpuCfg.cubeSize = 0
    BY <2>1 DEF NoDpuCfg
  <2>3. 0 \in Words
    BY DEF Words
  <2>4. Points
    BY <2>1, <2>2 DEF Points, MainPc
  <2>5. Typed
    BY <2>1, <2>2, <2>3 DEF Typed
  <2> QED
    BY <2>4, <2>5, SensorTypeInit DEF RangeInit
<1>2. SetupInv /\ RangeInv /\ Types /\ [BootNext]_bootVars => Types'
  BY SensorTypeKept, PointsStep, TypedStep
<1>3. RangeInv /\ localP!PoolInv /\ l3P!PoolInv /\ Types => RangeTypeOK
  <2> SUFFICES ASSUME RangeInv, localP!PoolInv, l3P!PoolInv, Types PROVE RangeTypeOK
    OBVIOUS
  <2>1. DOMAIN dpuCfg = DOMAIN NoDpuCfg
    BY DEF RangeInv, DpuRecord, NoDpuCfg
  <2> QED
    BY <2>1, OfPools DEF RangeTypeOK, Points, Typed
<1> QED
  BY <1>1, <1>2, <1>3, SetUp, RangeSetUp, PoolsHold, PTL DEF BootSpec
=============================================================================
