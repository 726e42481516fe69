--------------------------- MODULE MCRangeConfig ---------------------------
(* Instances of the boot: defines.h files that fit the pools or do not.    *)
EXTENDS RangeConfig

Header(rx, tx, samples, perBurst, bursts, mimo) ==
  [rx |-> rx, tx |-> tx, samples |-> samples, chirpsPerBurst |-> perBurst,
   bursts |-> bursts, frames |-> 0, mimo |-> mimo, freqStart |-> 51200, rampEnd |-> 300,
   idle |-> 60, slope |-> 90]

\* The header of the repository.
Default == Header({0, 1, 2}, {0, 1}, 128, 2, 64, 4)

\* The default with other chirp timing, and ten frames.
Timing(idle, rampEnd, slope) ==
  [Default EXCEPT !.frames = 10, !.idle = idle, !.rampEnd = rampEnd, !.slope = slope]

(***************************************************************************)
(* Samples that are no power of two, an odd number of chirps, a cube near  *)
(* the end of L3, and a pattern that is turned down; then ramp-down times  *)
(* at the cap of 6 us, of 0.1 us with a slope that fits and one that does  *)
(* not, of none, and below it.                                             *)
(***************************************************************************)
Fitting ==
  {Default,
   Header({0, 1}, {1}, 99, 3, 1, 0),
   Header({2}, {0, 1}, 64, 3, 5, 1),
   Header({0}, {0}, 128, 1, 1, 1),
   Header({0, 1, 2}, {0, 1}, 512, 2, 64, 4),
   Header({0, 1, 2}, {0, 1}, 128, 2, 64, 2),
   Timing(700, 250, 101), Timing(11, 290, 100), Timing(11, 310, 101), Timing(10, 300, 90),
   Timing(7, 300, 90)}

\* 786,432 bytes of cube.
TooLarge == {Header({0, 1, 2}, {0, 1}, 256, 2, 256, 4)}

OnlyDefault == {Default}

AllCalls == SdkCalls
=============================================================================
