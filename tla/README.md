# Verification of the IWRL6432 SPI data-stream firmware

TLA+ models, TLC runs and TLAPS proofs about the firmware in
`src/minimal_rangeproc_impl/` and the header generator in `src/scripts/`.
The firmware boots a radar front end, has a range-processing unit (DPU) fill
one radar cube per frame, and streams the cube to a host over SPI.

Contents: [the system](#1-the-system), [the plan](#2-the-plan),
[the modules and the code](#3-the-modules-and-the-code),
[runs and bounds](#4-runs-and-bounds), [fairness](#5-fairness),
[what is proved](#6-what-is-proved), [what is only model-checked](#7-what-is-only-model-checked),
[disagreements found](#8-disagreements-found), [what is not modelled](#9-what-is-not-modelled).

## 1. The system

| Component | Code | State | Operations |
|---|---|---|---|
| Main task | `src/main.c` | the drivers' handles, four binary semaphores | boot, create the tasks, start the sensor, park for ever |
| Boot and sensor set-up | `src/mmwave_basic.c`, `src/mmwave_control_config.c` | `gSysContext`: channels, antennas, profile, control configuration; the ADC-buffer registers | initialise, open, configure and start the front end |
| Factory calibration | `src/factory_cal.c` | `calibData`, the run-time calibration command | read from flash, check the magic number, restore |
| Memory pools | `src/mem_pool.c` | running and maximal address of two pools (28 KByte local, 416 KByte L3) | reset, allocate |
| Range processing | `src/rangeproc_dpc.c`, `include/dpu_res.h` | `rangeProcDpuCfg`, the cube, frame and chirp counters | configure the DPU, give it its EDMA channels, trigger it, wait for it, hand over the cube |
| SPI transmission | `src/spi_transmit.c` | locals of one call, the SPI_BUSY pin, the MCSPI channel | send a buffer in chunks, report completion |
| Header generator | `src/scripts/chirp_config_to_defines.py` | files | parse a config, choose a path, write `defines.h` |
| Outside `src/` | FreeRTOS, the SDK's drivers, the DPU, the front end, the host | | modelled from how the code uses them |

**How they interact.** `freertos_main()` (priority 1) boots the front end,
creates `dpcTask` (priority 5) and pends on `dpcCfgDoneSemHandle`. `dpcTask`
resets the pools, configures the DPU, posts that semaphore, registers the
interrupts, triggers the DPU and blocks in `DPU_RangeProcHWA_process()`. Only
then does the main task run again: it creates `spiTask` (priority 10), which
copies the address and size of the cube and blocks on `spi_tx_start_sem`, and
starts the sensor. From there on the front end ticks on its own timer; each time
the DPU has a frame, `dpcTask` posts `spi_tx_start_sem`, waits for
`spi_tx_done_sem`, and triggers the DPU again. Two interrupts count frames and
chirps. The host is the SPI controller: it reads when SPI_BUSY is low.

**What is hard.**

* One cube and no double buffer: the DPU and the SPI DMA must take turns, and
  the turn is spread over two semaphores, two program counters and the DPU.
* Binary semaphores forget a second post, and the post to the higher-priority
  task preempts the poster before it waits for the answer.
* The start order of the sensor, the interrupts and the tasks is held together
  by task priorities alone.
* The front end does not wait: a cycle longer than the frame period arms the DPU
  in mid-frame.
* Any transfer may fail between two chunks, and the pin is part of the protocol
  with a reader nobody controls.
* `spiTask` copies the size of the cube once: whatever comes after the report of
  the configuration may no longer change it.
* A finite number of frames ends in the middle of the loop, wherever that is.
* The slope of the ramp-down is computed in floating point and cut to 16 bits;
  an idle time of 1 us leaves no time for it.
* The configuration is computed three times (front end, DPU, ADC buffer) from
  one header, in an order in which a later step fills in what an earlier one read.
* Most SDK calls may fail; some failures end the boot and some are swallowed.

**What makes each component correct.**

| Component | Properties |
|---|---|
| SPI transmission | chunks tile the buffer; success means that the whole buffer was received; the host sees a plain stream; calls return; the pin is high between calls |
| Pipeline | exclusive use of the cube; no lost post; a task that sleeps is still owed its wake-up; the sensor starts last; frames arrive whole, or as a seam of two, and in order; exact counters; the loop never stops, and drains after the last frame |
| Boot | no use of a handle that failed to open; the front end has the whole configuration, with a ramp-down that undoes the ramp; a restored calibration belongs to it |
| Range processing configuration | the DPU gets memory, of the size of what the front end produces; the ADC layout agrees with the DPU's; no EDMA channel or shadow set has two users; what is reported is true and final |
| Memory pools | blocks are aligned, inside the pool and disjoint; the boot uses the pools as their specification demands |
| Header generator | headers are complete, where they were asked for, and replace a file only when confirmed |

`PROJECT.json` lists the hazards behind these, each at its line.

## 2. The plan

In order, the most important behaviour first.

1. `SpiTransfer` with its abstract specification `BufferStream`. Done, proved.
2. `Kernel`, `Streaming` (which composes `SpiTransfer`) with its abstract
   specification `CubeHandover`. Done; every safety property and the refinement
   proved.
3. `MemPool`. Done, proved.
4. `SensorSetup` and `RangeConfig` (which composes two `MemPool`s and the table
   `DpuRes`). Done, proved.
5. `ConfigContract`, which `RangeConfig` implements step by step and `Streaming`
   with one step: what lets the one stand for the other. Done, proved for both.
6. `DefinesTool`. Done, proved.

The plan is carried out; section 9 says what stays out and why.

## 3. The modules and the code

Names follow the code: a variable, action or operator has the name of the
variable, function or macro it models where there is one. `PROJECT.json` maps
every definition to its lines. Operators called `...Fault` are plausible slips in
the definition after them; nothing uses them but the checks that a property can
fail.

| Module | Models | State and actions |
|---|---|---|
| `BufferStream` | (abstract) one transmission | the words the host received; open, word, close |
| `SpiTransfer` | `spi_transfer_buffer()` | its locals, the pin, the channel, the words on the wire; one action per stretch between two driver calls, plus the host and the DMA |
| `Kernel` | FreeRTOS as used | the control point of each task, the semaphores, who waits; pend, post, the priority rule |
| `CubeHandover` | (abstract) the cube between the DPU and the SPI side | idle, filling, full, draining |
| `ConfigContract` | (abstract) what `dpcTask()` reports with `dpcCfgDoneSemHandle` | reported, DPU ready, size of the cube; one action, until it is reported |
| `Streaming` | the tasks, DPU, front end, interrupts | one action per stretch between two kernel calls, for each task; frame and chirp events of the hardware; `Rest` when the last frame is over |
| `MemPool` | `mem_pool.c` | reset, allocate; the blocks handed out |
| `SensorSetup` | `freertos_main()` up to the first task | one action per call, with its success and failure |
| `DpuRes` | `dpu_res.h` | the EDMA channel and shadow sets of each transfer, per DPU |
| `RangeConfig` | the rest of the boot in `dpcTask()` | the steps of `RangeProc_config()` over the two pools |
| `DefinesTool` | the script | one action per stage of `main()` |

The `*_proofs` modules hold the theorems and the `MC*` modules the constants for
TLC.

**Abstractions.** Data is what the properties tell apart. A word on the wire is
its byte offset in the buffer; the cube is, for each of its slots, the number of
the frame the chirp in it is of; a bit mask is a set of channels; the front end is
what it has been told. Times are in steps of 0.1 us and the slope in MHz/us, so
that the floating-point expressions are quotients of integers; where the code
converts a quotient that does not exist or does not fit to 16 bits, the result
is any of those a build can produce (`CrdNSlopeMag`). A task step runs from one kernel or driver call to the
next: in between, a task of higher priority may take over (`Running`), and so
may every environment action. An assertion that fails and `exit()` leave the task
ready and stuck, as the spin loop behind them does: lower priorities starve,
higher ones and interrupts go on.

**External parts.** The DPU, once triggered, takes the next chirps there are
(in mid-frame too) and interrupts when it has a frame's worth. A driver's
blocking call is a pend on a semaphore of its own. `MMWave_config()` is assumed
to turn down a configuration without a profile or chirp (`ChecksProfile`): the
code relies on this, as it does not look at the errors of `MMWave_addProfile()`
and `MMWave_addChirp()`; without it `FrontEndAsConfigured` does not hold.
`Flash_read()` without a handle fails. The MCSPI driver reports an error only
while words of the chunk are left (`DmaError`): that a transfer whose last word was
received may still be reported as failed is not modelled, and `SuccessMeansAllSent`
would then be an implication only.

## 4. Runs and bounds

| Run | Shows | Expected |
|---|---|---|
| `SpiTransfer_any` | tiling, return value, stream, termination, with failures and an unruly host | pass |
| `SpiTransfer_busy_after_failure` | after a failed transfer the pin stays low | violation |
| `SpiTransfer_early_read` | low does not yet mean readable, with a pin that is high at the start | violation |
| `Streaming_safe` | the safety of the pipeline with every failure, every timing and endless or few frames, that nobody sleeps in vain, its refinement of the hand-over, and that its configuration is final | pass |
| `Streaming_in_time` | when the cycle fits in the frame period and nothing fails (so without failed transfers or overruns, which the other two cover), every processed frame reaches the host whole and in order, and the pin is high while the DPU fills the cube | pass |
| `Streaming_live` | under failing transfers and overruns a success still means the whole cube, the host reads at most a seam of two frames, the counters are exact, the pipeline goes on, and it drains after the last frame | pass |
| `MemPool_blocks` | the allocator | pass |
| `RangeConfig_boot` | the boot with any SDK call failing, for eleven headers: handles, front end, calibration, the use of the pools, memory, EDMA, and the report | pass |
| `RangeConfig_adc_layout`, `RangeConfig_no_memory` | see section 8 | violation |
| `DefinesTool_directory` | the script, run after run, with paths in directories that exist | pass |
| `DefinesTool_no_directory` | the same with a directory that does not exist | violation |

**Bounds, and why they are enough.**

* `SpiTransfer`: a limit of two words instead of 16,320 and buffers of 0 to 7
  words: below, on and above one, two and three chunks, with and without a
  remainder. The arithmetic compares and adds multiples of the limit only; the
  theorems cover all limits and sizes.
  The pin starts at either level, as the code gives it none before the first chunk;
  only `SpiTransfer_early_read` starts it high, so that what it shows is the window
  between the pin and the driver and not the level at power-up.
* `Streaming`: three chirps per frame (a frame has a first, a last and a middle,
  and can be cut in two by a late trigger in more ways than one), a cube of three
  chunks, the last shorter (as the default header's 98,304 bytes end in a shorter
  one), frames without end, one frame, or three, and counters modulo 4 instead of
  2^32 (they wrap when frames are endless). There are three tasks in the code and
  in the model.
* `MemPool`: a pool of 14 bytes at an odd address, requests of 0, 3, 4, 8 and 15
  bytes aligned to 1 and 4: exact fits, near misses, padding, empty blocks.
* `RangeConfig`: the real pool sizes, at addresses TLC's integers can hold (the
  code never looks at an address but to compare it in its pool). Eleven headers:
  the repository's own, one to three RX channels, one and both transmitters, odd
  chirps, a cube of 92% of L3, and a MIMO pattern that is turned down; and five
  timings, with ramp-down times at the cap of 6 us, of 0.1 us with a slope that
  fits 16 bits and one that does not, of zero, and below. At each step the SDK
  call may fail.
* `DefinesTool`: two commands instead of six (all, one or none of them present),
  six inputs, three directories, two names. The number of runs is not bounded.

`CHECK_DEADLOCK FALSE` is said of `Streaming_safe`, where a failed assertion
stops the system, and of the `RangeConfig` runs, where the boot ends and
`Streaming` begins. Everywhere else TLC checks that the system never stops;
in `Streaming` the state after the last of a finite number of frames is the one
exception, and has a step of its own (`Rest`), so that any other stop is a
deadlock.

## 5. Fairness

`SpiTransfer!FairSpec`: the firmware's steps together, and a host that reads an
armed channel while SPI_BUSY is low. `Streaming!FairSpec`: the tasks together
(the scheduler runs the ready task of the highest priority, so at most one can
step), the front end's timer, and the same host. Weak fairness is enough for
each, as nothing takes these steps away once they are possible. Nothing is
assumed of failures: they may happen always or never. There is no timeout in the code:
a host that stops reading stops the firmware, by design of the blocking call.

`CycleFits`, the constant behind `WholeFrame` and `FrameReachesHost`, is the
timing assumption that the DPU is triggered before the next frame starts. The
repository's README claims it for cubes up to about 96 KByte; it is an
assumption here, and `Streaming_safe` and `Streaming_live` do without it.

## 6. What is proved

TLAPS checks these for every value of the constants that satisfies the named
assumptions.

**`SpiTransfer_proofs`**, from `SpiAssumption` (limit and sizes are whole
words; 65,280 is, and a cube is made of 4-byte samples): `TypeCorrect`,
`Tiling`, `Success`, and `Refinement`, that the chunked transfer implements
`BufferStream`. The inductive invariant `SpiInv` ties the locals to the wire:
offset plus remaining bytes is the total while something remains (`Position`);
between chunks the words received are what is no longer remaining
(`BetweenChunks`); within one they are the offset plus the clocked words
(`WithinChunk`); and the channel has finished exactly when all words of the
chunk are clocked (`Channel`). `ChunksTile` alone is not inductive: that the
next offset is right follows from the remaining bytes, which it does not
mention.

**`Streaming_proofs`**, from `StreamingAssumption`: `TypeCorrect`,
`Exclusion`, `NoPostLost`, and `Refinement`, that the pipeline implements
`CubeHandover`. The invariant `StreamInv` says whose turn it is. The two SPI
semaphores, the control points of two tasks and the state of the DPU are one token
in four encodings (`SpiTurn`, `DpuTurn`); a post is pending only if its receiver
has yet to take it (`Signals`); and no task runs before it is created
(`Creation`). `SpiInv` of the transfer is a conjunct, and the lemmas about its
steps are used by name through an instance. Priorities play no part here:
the turn is safe under any scheduler. `Composition` is that the instance of
`SpiTransfer` in the pipeline behaves as `SpiTransfer!Spec`: each step of the
pipeline is one of its steps or leaves it alone, so whatever `SpiTransfer_proofs`
shows holds here; `CubeIsStreamed`, that every transmission implements
`BufferStream`, follows from it without another invariant.

**`StreamingStart_proofs`**: `StartsLast`, `WholeCube`, `ContractKept`, and
`PinHighMeanwhile`. This is where the priorities are needed. `StartInv` adds
where each task may be while another is on its way: a task on the way to its
first wait is never asleep (`Asleep`), so the lowest one, `freertos_main()`, is
held back until the others have come to rest (`HeldBack`, `MainRuns`); the
interrupts are registered in order (`Registered`); and the size of the cube is
set with the DPU's configuration, and copied after that (`Configured`, `Copied`,
`Sent`). `ContractKept` is the refinement of `ConfigContract`. `NobodyForgotten`
is `SleepersAreOwed`: a task sleeps on a semaphore that is down and that is still
to be posted, `dpcTask()` and `spiTask()` never on each other, and
`freertos_main()` never for the configuration: it has the lowest priority, so
it pends only once `dpcTask()` has posted (`CfgPosted`), and starves if `dpcTask()`
was stopped before. That the
semaphore is down is one half (`AsleepOn`: a pend sleeps only on one that is down,
and the post that raises it wakes the sleeper); the other is what is still on its
way (`OnTheWay`), for which the turn of `StreamInv` says whose step comes next.
The prover cannot do the liveness `PipelineLive`; this is its safety half.

**`StreamingFrames_proofs`**: `TwoFrames`, and `OneFrame` if `CycleFits`. What
the DPU has collected is always the last chirps that were on the air, and as they
are no more than a frame's worth they are of the current frame and of the one
before (`Seam`); with `CycleFits` they are the chirps of the current frame
(`InStep`). `InOrder`, with `CycleFits` too, is that a transmission starts on the
cube of the frame after the one that was sent last.

**`StreamingCounters_proofs`**: `CountsExact`. The invariant (`Exact`) writes the
congruence with the quotient as a witness, since the two counters wrap at
different times; lemmas about remainders turn it into the equation of remainders
that `CountersExact` is.

`PinHigh` (in `SpiTransfer_proofs`) and `PinHighMeanwhile` assume `~CanFail`: a
failed transfer is the only way to a pin that stays low. Without that assumption,
`PinTellsOutcome`: between calls the pin is high exactly when the last one that had
something to send succeeded (`PinFollows`), so it recovers with the next success.

**`MemPool_proofs`**, from `PoolAssumption` (no request is so large that an
address wraps): `Disjoint` and `Inside`. The invariant adds that every block
ends at or below the running address; `TypeCorrect` is a part of it. The lemma `RoundUp` is that `MEM_ALIGN`
rounds up, by less than the alignment, to a multiple of it.

**`DefinesTool_proofs`**, from `ToolAssumption`: `Complete` for all paths;
`WhereAsked` if every path names its directory (`DirNamed`); `Confirmed` if every
directory exists (`DirThere`). The invariant (`ToolInv`) follows the path from
the argument to the write: it is the desired one once it is chosen, and until the
file is opened it is absent or was confirmed (`PromptInv`), or else it is the
fallback of a directory that is missing. `DefinesTool_no_directory` is violated
without `DirThere`; `OnlyFallbackUnasked` needs no assumption and locates the flaw:
only the header in the working directory is ever replaced without an answer, and
only by a run whose directory does not exist.

**`RangeConfig_proofs`**, from `SetupAssumption` (every header enables a
transmitter) and `RangeAssumption` (2 to 32,768 samples, two pools that are
somewhere, and no window or cube that wraps a 32-bit address: a cube of 4 GB,
where L3 has 416 KB, is out of the front end's reach): the boot, for every header,
every set of calls that may fail and every content of the flash.

* `Handles`: the invariant `SetupInv` is what is known at each step: the handles
  opened so far (`Opened`) and what the front end has been told (`Told`).
* `FrontEnd` assumes `ChecksProfile`: `Configured` is what a configured front end
  has, and it starts to hold at `MMWave_config()` only because that turns down
  what the swallowed errors leave behind. `Nearest` is that adding half the divisor
  before dividing rounds to the nearest.
* `Calibration` also assumes `CentreFits`, that no centre frequency exceeds the 16
  bits of the command; `Calibrated` follows the command and the magic number.
* `PoolsUsed` is `UsesPools`: each step of the boot is a step of `MemPool` on
  either pool, or leaves it alone. So the boot is what `MemPool_proofs` is about,
  and `PoolsHold` takes its invariant from there for both pools (`SamePools`).
* `CubeFits` assumes `ChecksProfile`. `RangeInv` is what `RangeProc_config()` has
  filled in so far; that the cube is inside L3 is `PoolsHold`; `RoundsUp` is about
  the power of two (its minimum exists because `<` on the naturals is
  well-founded), and `SameProduct` that the code and the frame multiply to the
  same size in another order.
* `MemoryIfRoom`: once the DPU is being configured `DpuGetsMemory` holds if and
  only if window and cube fit behind the first word boundary of their pools
  (`WindowRoom`, `CubeRoom`): no room is the one cause of what
  `RangeConfig_no_memory` shows. `Memory` is the case that all headers find room
  (`Roomy`).
* `ContractKept`, the refinement of `ConfigContract`, does not assume `Roomy`: a
  boot without memory keeps it too.
* `AgreeOnOneChannel` says how far the finding of `RangeConfig_adc_layout` goes:
  the DPU and the ADC buffer agree if and only if one channel is enabled
  at most. `LaidOut` follows the number of samples, which is zero
  when `Mmwave_ADCBufConfig()` uses it, so every enabled channel is at offset 0.
* `EdmaApart` for the table, and `TypeCorrect`.

All headers of `RangeConfig_boot` satisfy these assumptions, with the pools at
the addresses of the run.

Refinement mappings: `Stream` in `SpiTransfer`, `Handover` in `Streaming` (the
phase is "draining" while `spi_transfer_buffer()` runs, "full" from the DPU's
interrupt to the call, "filling" while the DPU is armed), and `Contract` in
`Streaming` and `RangeConfig` (reported from the post of `dpcCfgDoneSemHandle`
on, ready once `DPU_RangeProcHWA_config()` succeeded).

## 7. What is only model-checked

Liveness (`CallReturns`, `PipelineLive`, `FrameReachesHost`, `QuietAfterLast`):
fairness is beyond the prover. Every safety property and every refinement the
passing runs check is also proved.

## 8. Disagreements found

Where the code does something else than a comment or document of the repository
says, a run that is expected to be violated shows it.

* A failed transfer leaves SPI_BUSY low (`SpiTransfer_busy_after_failure`).
* SPI_BUSY goes low before the channel is armed (`SpiTransfer_early_read`).
* The ADC buffer is laid out before the number of samples is set, so all RX
  channels get offset 0 (`RangeConfig_adc_layout`).
* A cube that does not fit in L3 is NULL and used (`RangeConfig_no_memory`).
* The script overwrites `defines.h` in the working directory without asking
  (`DefinesTool_no_directory`).

Smaller ones, visible in the modules without a run of their own:

* The README has `spiTask` start once `dpcTask` is blocked; with the higher
  priority it starts inside the post. Harmless, by `Exclusion` and `NoPostLost`.
* The README has the DPU trigger start the chirping; the front end runs on its
  own timer (`FrameStart` does not look at the DPU).
* A comment in `main()` has the main task delete itself; it pends for ever
  (`MainPark`).
* A comment has the number of range bins be half of the FFT size; with a number
  of samples that is no power of two it is not (`BeginConfig`, `SetAdcData`).
* `-o my.h` of the script, without a directory, writes `defines.h` in the working
  directory (`Desired`, `Confirm`): `HeaderWhereAsked` holds of paths with a
  directory only.

## 9. What is not modelled

* `mmwave_stop_close_deinit()` and the code behind the last pend of
  `freertos_main()`: never reached.
* `DPC_ObjDet_MemPoolSet()` and `DPC_ObjDet_MemPoolGet()`: static, without
  callers. `DPC_ObjDet_MemPoolGetMaxUsage()`: reads only.
* Header values that are copied to the front end unseen (filters, look-up table
  addresses, monitors), register values that no code of the repository reads
  back, and logging. Chirp slopes are taken to be positive, as in the headers at
  hand.
* Which numbering of the interrupts `HwiP_enableInt()` and `HwiP_clearInt()` take,
  16 + N as in `HwiP_construct()` or N: the SDK is not in the repository.
* The contents of the cube (the DPU's FFT) and the window's coefficients.
* The early return of `RangeProc_config()` for want of window memory is in
  `RangeConfig` and, as a failing call, in `Streaming`; the headers checked here
  do not reach it, since it takes more samples than the front end can deliver.
* A host that takes the stream apart into cubes: there is no host code, and the
  stream has no framing to resynchronise by after an aborted transmission.
* A file system that fails between the opening and the writing of `defines.h`.
* Build and board files.
