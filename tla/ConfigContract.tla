--------------------------- MODULE ConfigContract ---------------------------
(***************************************************************************)
(* What dpcTask() promises when it reports that the configuration is done  *)
(* (dpcCfgDoneSemHandle): the cube has a size spi_transfer_buffer() can    *)
(* send, a cube of any bytes has a DPU that accepted it, and neither       *)
(* changes any more, as spiTask() copies the size once.  RangeConfig       *)
(* implements it in full and Streaming with RangeProc_config() as one      *)
(* step, which is what lets the one stand for the other.                   *)
(***************************************************************************)
CONSTANT CubeSizes     \* the sizes a cube may have, 0 for no cube

VARIABLES reported,    \* the configuration is reported as done
          ready,       \* the DPU is configured
          size         \* of the cube, in bytes

contractVars == <<reported, ready, size>>

Init == ~reported /\ ~ready /\ size = 0

Configure ==
  /\ ~reported
  /\ reported' \in BOOLEAN
  /\ ready' \in BOOLEAN
  /\ size' \in CubeSizes
  /\ reported' /\ size' # 0 => ready'

Spec == Init /\ [][Configure]_contractVars
=============================================================================
