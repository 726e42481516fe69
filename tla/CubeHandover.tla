---------------------------- MODULE CubeHandover ----------------------------
(***************************************************************************)
(* What the streaming pipeline promises about the one radar cube it has:   *)
(* the DPU fills it, the SPI side drains it, strictly in turn.  It changes *)
(* only while it is being filled, and what a drain reads is what the last  *)
(* fill left.  Streaming implements it.                                    *)
(***************************************************************************)
CONSTANT Contents      \* what a cube can hold: for every slot, the frame it is of

VARIABLES phase,       \* "idle", "filling", "full" or "draining"
          cube,        \* what the cube holds
          seen         \* the frames the current or last drain has read

Stored(c) == { c[i] : i \in DOMAIN c }

cubeVars == <<phase, cube, seen>>

Init == phase = "idle" /\ cube \in Contents /\ seen = {}

Arm ==
  /\ phase = "idle"
  /\ phase' = "filling"
  /\ UNCHANGED <<cube, seen>>

Fill ==
  /\ phase = "filling"
  /\ phase' \in {"filling", "full"}
  /\ cube' \in Contents
  /\ UNCHANGED seen

Open ==
  /\ phase = "full"
  /\ phase' = "draining"
  /\ seen' = {}
  /\ UNCHANGED cube

Read ==
  /\ phase = "draining"
  /\ seen' = Stored(cube)
  /\ UNCHANGED <<phase, cube>>

Close ==
  /\ phase = "draining"
  /\ phase' = "idle"
  /\ UNCHANGED <<cube, seen>>

Next == Arm \/ Fill \/ Open \/ Read \/ Close

Spec == Init /\ [][Next]_cubeVars
=============================================================================
