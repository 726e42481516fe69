---------------------------- MODULE SensorSetup ----------------------------
(***************************************************************************)
(* freertos_main() (src/main.c) up to the creation of the first task, and  *)
(* what it calls: src/mmwave_basic.c, src/mmwave_control_config.c and      *)
(* src/factory_cal.c.  One task runs; each step is a call that may fail.   *)
(* Bit masks are sets of channels.  The SDK, the front end (FECSS) and the *)
(* flash are not under src/.                                               *)
(***************************************************************************)
EXTENDS Integers, FiniteSets

CONSTANTS
  Configs,        \* the defines.h files considered, see Config
  MayFail,        \* the SDK calls that may report an error
  ChecksProfile   \* MMWave_config() turns down a configuration with no profile or chirp

RxChannels == 0..2     \* SYS_COMMON_NUM_RX_CHANNEL
TxAntennas == 0..1     \* SYS_COMMON_NUM_TX_ANTENNAS

\* Times in steps of 0.1 us, the slope in MHz/us, the start frequency as the front end takes it.
Config ==
  [rx : SUBSET RxChannels, tx : SUBSET TxAntennas, samples : Nat, chirpsPerBurst : Nat,
   bursts : Nat, frames : Nat, mimo : Nat, freqStart : Nat, rampEnd : Nat, idle : Nat,
   slope : Nat]

SdkCalls ==
  {"flash", "init", "hwa", "dpu", "power", "trim", "open", "profile", "chirp", "mmwConfig",
   "flashRead", "calib", "rangeDpu"}

ASSUME SetupAssumption ==
  /\ Configs \subseteq Config
  /\ \A c \in Configs : c.tx # {}        \* the number of TX antennas is a divisor
  /\ MayFail \subseteq SdkCalls
  /\ ChecksProfile \in BOOLEAN

VARIABLES
  pc,            \* the next step of the one running task, or "halted"
  cfg,           \* defines.h
  handles,       \* the handles that are not NULL
  channelCfg,    \* gSysContext.channelCfg: the enabled channels
  numTx, numRx,  \* gSysContext.numTxAntennas, numRxAntennas
  profileCfg,    \* gSysContext.profileComCfg and profileTimeCfg
  adcReg,        \* ADCBUFCFG1 to 3: the offset field of a channel, or Off
  ctrlCfg,       \* gSysContext.mmwCtrlCfg
  fecss,         \* the front end: what it has been told, stage by stage
  calCmd,        \* fecRFFactoryCalCmd, local to restoreFactoryCal()
  calibMagic,    \* of the static calibData
  flashMagic,    \* of what the flash holds
  clpcCmd        \* gSysContext.fecTxclpcCalCmd

gSysVars   == <<channelCfg, numTx, numRx, profileCfg, ctrlCfg>>
calVars    == <<calCmd, calibMagic, clpcCmd>>
inputVars  == <<cfg, flashMagic>>
sensorVars == <<pc, inputVars, handles, gSysVars, adcReg, fecss, calVars>>

Off == -1

\* Static storage: everything zero.
NoProfile  == [samples |-> 0, freqStart |-> 0, rampEnd |-> 0, idle |-> 0, slope |-> 0,
               crd |-> 0]
NoFrame    == [chirpsPerBurst |-> 0, bursts |-> 0, frames |-> 0]
NoCtrlCfg  == [profile |-> NoProfile, chirp |-> FALSE, frame |-> NoFrame]
NoCommand  == [freq |-> 0, tx |-> <<{}, {}>>]

Word16  == 0..(2^16 - 1)
Profile == [samples : Nat, freqStart : Nat, rampEnd : Nat, idle : Nat, slope : Nat,
            crd : Word16]
CtrlCfg == [profile : Profile, chirp : BOOLEAN,
            frame : [chirpsPerBurst : Nat, bursts : Nat, frames : Nat]]
Command == [freq : Nat, tx : (SUBSET TxAntennas) \X (SUBSET TxAntennas)]

MainPc ==
  {"drivers", "initSensor", "openHwa", "initDpu", "channelCfg", "power", "trim",
   "openSensor", "adcBuf", "profile", "chirp", "mmwConfig", "readCalib", "checkCalib",
   "createDpc", "halted"}

\* The control points of dpcTask() that follow belong to RangeConfig.
SensorTypeOK ==
  /\ cfg \in Configs
  /\ handles \subseteq {"flash", "ctrl", "hwa", "dpu"}
  /\ channelCfg \in [rx : SUBSET RxChannels, tx : SUBSET TxAntennas]
  /\ numTx \in Nat /\ numRx \in Nat
  /\ profileCfg \in Profile
  /\ adcReg \in [RxChannels -> Nat \cup {Off}]
  /\ ctrlCfg \in CtrlCfg
  /\ fecss.stage \in {"off", "init", "open", "configured"}
  /\ fecss.channels \in [rx : SUBSET RxChannels, tx : SUBSET TxAntennas]
  /\ fecss.rdif \in Nat
  /\ fecss.cfg \in CtrlCfg
  /\ fecss.cal \in Command
  /\ calCmd \in Command /\ clpcCmd \in Command
  /\ calibMagic \in {"zero", "valid", "bad"} /\ flashMagic \in {"valid", "bad"}

NoChannels == [rx |-> {}, tx |-> {}]

SensorInit ==
  /\ pc = "drivers"
  /\ cfg \in Configs
  /\ handles = {}
  /\ channelCfg = NoChannels /\ numTx = 0 /\ numRx = 0
  /\ profileCfg = NoProfile
  /\ adcReg = [c \in RxChannels |-> Off]
  /\ ctrlCfg = NoCtrlCfg
  /\ fecss = [stage |-> "off", channels |-> NoChannels, rdif |-> 0, cfg |-> NoCtrlCfg,
              cal |-> NoCommand]
  /\ calCmd = NoCommand /\ clpcCmd = NoCommand
  /\ calibMagic = "zero" /\ flashMagic \in {"valid", "bad"}

\* A step from here to next that comes after a successful call.
Succeeds(here, next) == pc = here /\ pc' = next

\* The call fails, and the code goes on at next: "halted" is exit() or an assertion.
Fails(call, here, next) == call \in MayFail /\ pc = here /\ pc' = next

Keeps(h) == handles' = handles \cup {h}

-----------------------------------------------------------------------------
(* Drivers and handles.  A NULL flash handle is logged, nothing more.      *)
(* A *Fault operator is a plausible slip in the definition that follows    *)
(* it; nothing uses it.                                                    *)

OpenDrivers ==
  /\ \/ Succeeds("drivers", "initSensor") /\ Keeps("flash")
     \/ Fails("flash", "drivers", "initSensor") /\ UNCHANGED handles
  /\ UNCHANGED <<inputVars, gSysVars, adcReg, fecss, calVars>>

InitSensorFault ==
  /\ Succeeds("initSensor", "openHwa")
  /\ handles' \in {handles, handles \cup {"ctrl"}}
  /\ fecss' = [fecss EXCEPT !.stage = "init"]
  /\ UNCHANGED <<inputVars, gSysVars, adcReg, calVars>>

InitSensor ==
  /\ \/ /\ Succeeds("initSensor", "openHwa")
        /\ Keeps("ctrl")
        /\ fecss' = [fecss EXCEPT !.stage = "init"]
     \/ Fails("init", "initSensor", "halted") /\ UNCHANGED <<handles, fecss>>
  /\ UNCHANGED <<inputVars, gSysVars, adcReg, calVars>>

OpenHwa ==
  /\ \/ Succeeds("openHwa", "initDpu") /\ Keeps("hwa")
     \/ Fails("hwa", "openHwa", "halted") /\ UNCHANGED handles
  /\ UNCHANGED <<inputVars, gSysVars, adcReg, fecss, calVars>>

InitDpu ==
  /\ \/ Succeeds("initDpu", "channelCfg") /\ Keeps("dpu")
     \/ Fails("dpu", "initDpu", "halted") /\ UNCHANGED handles
  /\ UNCHANGED <<inputVars, gSysVars, adcReg, fecss, calVars>>

-----------------------------------------------------------------------------
(* The front end. *)

PopulateChannelCfgFault ==
  /\ Succeeds("channelCfg", "power")
  /\ channelCfg' = [rx |-> cfg.rx, tx |-> cfg.tx]
  /\ numTx' = 2 /\ numRx' = 3
  /\ UNCHANGED <<inputVars, handles, profileCfg, ctrlCfg, adcReg, fecss, calVars>>

PopulateChannelCfg ==
  /\ Succeeds("channelCfg", "power")
  /\ channelCfg' = [rx |-> cfg.rx, tx |-> cfg.tx]
  /\ numTx' = Cardinality(cfg.tx)
  /\ numRx' = Cardinality(cfg.rx)
  /\ UNCHANGED <<inputVars, handles, profileCfg, ctrlCfg, adcReg, fecss, calVars>>

RfPowerOn ==
  /\ \/ /\ Succeeds("power", "trim")
        /\ fecss' = [fecss EXCEPT !.channels = channelCfg]
     \/ Fails("power", "power", "halted") /\ UNCHANGED fecss
  /\ UNCHANGED <<inputVars, handles, gSysVars, adcReg, calVars>>

CheckTrim ==
  /\ Succeeds("trim", "openSensor") \/ Fails("trim", "trim", "halted")
  /\ UNCHANGED <<inputVars, handles, gSysVars, adcReg, fecss, calVars>>

\* Run-time calibration is off; of the rest only the number of samples is not a constant.
RdifSampleCount(c) == c.samples

OpenSensor ==
  /\ \/ /\ Succeeds("openSensor", "adcBuf")
        /\ fecss' = [fecss EXCEPT !.stage = "open", !.rdif = RdifSampleCount(cfg)]
     \/ Fails("open", "openSensor", "halted") /\ UNCHANGED fecss
  /\ UNCHANGED <<inputVars, handles, gSysVars, adcReg, calVars>>

-----------------------------------------------------------------------------
(* mmwave_configSensor(). *)

\* The bytes of the enabled channels before c, in 16 bits.
AdcOffset(c, chanDataSize) ==
  (Cardinality({d \in channelCfg.rx : d < c}) * chanDataSize) % 2^16

ADCBufConfigFault ==
  /\ Succeeds("adcBuf", "profile")
  /\ adcReg' = [c \in RxChannels |-> IF c \in channelCfg.rx THEN c ELSE Off]
  /\ UNCHANGED <<inputVars, handles, gSysVars, fecss, calVars>>

\* First of all, with the number of samples that profileComCfg holds by then.
ADCBufConfig ==
  /\ Succeeds("adcBuf", "profile")
  /\ adcReg' = [c \in RxChannels |->
                  IF c \in channelCfg.rx
                    THEN AdcOffset(c, profileCfg.samples * 2) \div 16
                    ELSE Off]
  /\ UNCHANGED <<inputVars, handles, gSysVars, fecss, calVars>>

Abs(n) == IF n < 0 THEN -n ELSE n

\* The time for the frequency to come down again, in steps of 0.1 us.
RampDownTime(c) == IF c.idle < 70 THEN c.idle - 10 ELSE 60

CrdMagnitude(c) ==
  Abs(8192 * c.rampEnd * c.slope + 1875 * RampDownTime(c)) \div (3750 * Abs(RampDownTime(c)))

CrdFits(c) == RampDownTime(c) # 0 /\ CrdMagnitude(c) \in Word16

(***************************************************************************)
(* The slope of the ramp-down.  A division by zero, and a quotient that    *)
(* does not fit, are converted to 16 bits all the same: undefined, and     *)
(* saturated, cut off or zero in the builds there are.                     *)
(***************************************************************************)
CrdNSlopeMag(c) ==
  IF CrdFits(c) THEN {CrdMagnitude(c)}
  ELSE {0, 2^16 - 1}
         \cup (IF RampDownTime(c) = 0 THEN {} ELSE {CrdMagnitude(c) % 2^16})

FreqSlope(slope) == (131072 * slope) \div 3750

\* The profiles that a header may turn into.
DefaultProfileCfg(c) ==
  {[samples |-> c.samples, freqStart |-> c.freqStart, rampEnd |-> c.rampEnd,
    idle |-> c.idle, slope |-> FreqSlope(c.slope), crd |-> crd] : crd \in CrdNSlopeMag(c)}

\* A failure returns early, with the rest of ctrlCfg zero, and is not reported.
AddProfile ==
  /\ profileCfg' \in DefaultProfileCfg(cfg)
  /\ \/ /\ Succeeds("profile", "chirp")
        /\ ctrlCfg' = [NoCtrlCfg EXCEPT !.profile = profileCfg']
     \/ Fails("profile", "profile", "mmwConfig") /\ ctrlCfg' = NoCtrlCfg
  /\ UNCHANGED <<inputVars, handles, channelCfg, numTx, numRx, adcReg, fecss, calVars>>

AddChirp ==
  /\ \/ /\ Succeeds("chirp", "mmwConfig")
        /\ ctrlCfg' = [ctrlCfg EXCEPT
             !.chirp = TRUE,
             !.frame = [chirpsPerBurst |-> cfg.chirpsPerBurst, bursts |-> cfg.bursts,
                        frames |-> cfg.frames]]
     \/ Fails("chirp", "chirp", "mmwConfig") /\ UNCHANGED ctrlCfg
  /\ UNCHANGED <<inputVars, handles, channelCfg, numTx, numRx, profileCfg, adcReg, fecss,
                 calVars>>

Complete(c) == c.profile # NoProfile /\ c.chirp

MmwConfigFault ==
  /\ Succeeds("mmwConfig", "readCalib")
  /\ fecss' = [fecss EXCEPT !.stage = "configured", !.cfg = ctrlCfg]
  /\ UNCHANGED <<inputVars, handles, gSysVars, adcReg, calVars>>

MmwConfig ==
  /\ \/ /\ ChecksProfile => Complete(ctrlCfg)
        /\ Succeeds("mmwConfig", "readCalib")
        /\ fecss' = [fecss EXCEPT !.stage = "configured", !.cfg = ctrlCfg]
     \/ /\ "mmwConfig" \in MayFail \/ (ChecksProfile /\ ~Complete(ctrlCfg))
        /\ Succeeds("mmwConfig", "halted")
        /\ UNCHANGED fecss
  /\ UNCHANGED <<inputVars, handles, gSysVars, adcReg, calVars>>

-----------------------------------------------------------------------------
(* restoreFactoryCal().  Its failure is logged, and the boot goes on.      *)

\* The centre of the chirp; the slope is that of defines.h, the rest is in profileCfg.
CentreFreq(p, slope) == (p.freqStart + (16 * slope * p.rampEnd) \div 375) % 2^16

TxPwrCalTxEnaMask(tx) == IF tx = {0, 1} THEN <<{0, 1}, {0}>> ELSE <<tx, tx>>

(***************************************************************************)
(* Only SystemP_FAILURE counts as a failure of Flash_read(): after any     *)
(* other error code calibData may or may not be what the flash holds.      *)
(* Without a handle the driver fails.                                      *)
(***************************************************************************)
ReadCalib ==
  /\ calCmd' = [freq |-> CentreFreq(profileCfg, cfg.slope),
                tx   |-> TxPwrCalTxEnaMask(channelCfg.tx)]
  /\ \/ /\ "flash" \in handles
        /\ Succeeds("readCalib", "checkCalib")
        /\ calibMagic' = flashMagic
     \/ /\ "flash" \in handles
        /\ Fails("flashRead", "readCalib", "checkCalib")
        /\ UNCHANGED calibMagic
     \/ /\ "flash" \notin handles \/ "flashRead" \in MayFail
        /\ Succeeds("readCalib", "createDpc")
        /\ UNCHANGED calibMagic
  /\ UNCHANGED <<inputVars, handles, gSysVars, adcReg, fecss, clpcCmd>>

RestoreCalibFault ==
  /\ \/ /\ Succeeds("checkCalib", "createDpc")
        /\ fecss' = [fecss EXCEPT !.cal = calCmd]
        /\ clpcCmd' = calCmd
     \/ Fails("calib", "checkCalib", "createDpc") /\ UNCHANGED <<fecss, clpcCmd>>
  /\ UNCHANGED <<inputVars, handles, gSysVars, adcReg, calCmd, calibMagic>>

RestoreCalib ==
  /\ \/ /\ calibMagic = "valid"
        /\ Succeeds("checkCalib", "createDpc")
        /\ fecss' = [fecss EXCEPT !.cal = calCmd]
        /\ clpcCmd' = calCmd
     \/ /\ calibMagic # "valid" \/ "calib" \in MayFail
        /\ Succeeds("checkCalib", "createDpc")
        /\ UNCHANGED <<fecss, clpcCmd>>
  /\ UNCHANGED <<inputVars, handles, gSysVars, adcReg, calCmd, calibMagic>>

SensorNext ==
  \/ OpenDrivers \/ InitSensor \/ OpenHwa \/ InitDpu
  \/ PopulateChannelCfg \/ RfPowerOn \/ CheckTrim \/ OpenSensor
  \/ ADCBufConfig \/ AddProfile \/ AddChirp \/ MmwConfig
  \/ ReadCalib \/ RestoreCalib

-----------------------------------------------------------------------------
(***************************************************************************)
(* No call is made with a NULL handle: each failed open or init on the way *)
(* ends the boot before the handle is used.  (The flash handle is the      *)
(* exception, and left to the driver.)                                     *)
(***************************************************************************)
HandlesValid ==
  /\ pc = "initDpu" => "hwa" \in handles
  /\ pc \in {"openSensor", "mmwConfig", "checkCalib"} => "ctrl" \in handles
  /\ pc = "createDpc" => "dpu" \in handles

(***************************************************************************)
(* A front end that accepted its configuration has the whole one of        *)
(* defines.h: the errors of MMWave_addProfile() and MMWave_addChirp() that *)
(* populateDefaultChirpControlCfg() swallows do not get past               *)
(* MMWave_config(), and nothing was read before it was filled in.  The     *)
(* ramp-down takes the chirp's bandwidth back in the time it has, to half  *)
(* a unit of its slope, unless there is no time or no such slope.          *)
(***************************************************************************)
FrontEndAsConfigured ==
  fecss.stage = "configured" =>
    LET p == fecss.cfg.profile
    IN  /\ fecss.channels = [rx |-> cfg.rx, tx |-> cfg.tx]
        /\ fecss.rdif = p.samples
        /\ <<p.samples, p.freqStart, p.rampEnd, p.idle, p.slope>>
             = <<cfg.samples, cfg.freqStart, cfg.rampEnd, cfg.idle, FreqSlope(cfg.slope)>>
        /\ RampDownTime(cfg) > 0 /\ CrdFits(cfg) =>
             Abs(3750 * RampDownTime(cfg) * p.crd - 8192 * cfg.rampEnd * cfg.slope)
               <= 1875 * RampDownTime(cfg)
        /\ fecss.cfg.frame = [chirpsPerBurst |-> cfg.chirpsPerBurst, bursts |-> cfg.bursts,
                              frames |-> cfg.frames]

(***************************************************************************)
(* A calibration that was restored is for the front end as it runs: from   *)
(* data whose magic number was right, within a unit of the centre of the   *)
(* chirp it was configured with, which sweeps rampEnd * slope / 10 MHz at  *)
(* 256 units in 300 MHz, and for the transmitters that are powered; and    *)
(* the run-time command is a copy of it, or was left alone.                *)
(***************************************************************************)
CalMatchesFrontEnd ==
  /\ clpcCmd = fecss.cal
  /\ fecss.cal # NoCommand =>
       /\ flashMagic = "valid"
       /\ fecss.stage = "configured"
       /\ Abs(375 * (fecss.cal.freq - fecss.cfg.profile.freqStart)
                - 16 * cfg.slope * fecss.cfg.profile.rampEnd) < 375
       /\ fecss.cal.tx[1] = fecss.channels.tx
       /\ fecss.cal.tx[2] \subseteq fecss.channels.tx
=============================================================================
