------------------------------- MODULE Kernel -------------------------------
(***************************************************************************)
(* The FreeRTOS services the firmware uses: fixed-priority preemptive      *)
(* scheduling of its three tasks, and binary semaphores.  The kernel is    *)
(* not under src/; the tasks, their priorities and the semaphores are.     *)
(***************************************************************************)
EXTENDS Naturals

Task == {"main", "dpc", "spi"}

\* As MAIN_TASK_PRI was before: the highest.  Not used.
PrioFault == [main |-> 31, dpc |-> 5, spi |-> 10]

Prio == [main |-> 1, dpc |-> 5, spi |-> 10]

(***************************************************************************)
(* The semaphores of main.c, and the two the SDK drivers block on inside   *)
(* DPU_RangeProcHWA_process() and MCSPI_transfer().                        *)
(***************************************************************************)
Sem == {"dpcCfgDone", "pendMain", "txStart", "txDone", "dpuDone", "mcspiDone"}

None == "none"

VARIABLES
  pc,     \* where each task is; "absent" before it is created
  sem,    \* the value of each semaphore
  waits   \* the semaphore a task is blocked on, or None

kernelVars == <<pc, sem, waits>>

Ready(t) == pc[t] # "absent" /\ waits[t] = None

\* The scheduler runs the ready task of the highest priority.
Running(t) == Ready(t) /\ \A u \in Task : Prio[u] > Prio[t] => ~Ready(u)

Goto(t, next) == pc' = [pc EXCEPT ![t] = next]

\* SemaphoreP_pend() of a semaphore that is up.
Take(t, s, next) ==
  /\ Running(t)
  /\ sem[s] = 1
  /\ sem' = [sem EXCEPT ![s] = 0]
  /\ Goto(t, next)
  /\ UNCHANGED waits

\* SemaphoreP_pend() of a semaphore that is down: the task sleeps, and tries
\* again once a post wakes it.
Block(t, s) ==
  /\ Running(t)
  /\ sem[s] = 0
  /\ waits' = [waits EXCEPT ![t] = s]
  /\ UNCHANGED <<pc, sem>>

\* SemaphoreP_post(): a binary semaphore that is already up stays up.
Post(s) ==
  /\ sem' = [sem EXCEPT ![s] = 1]
  /\ waits' = [t \in Task |-> IF waits[t] = s THEN None ELSE waits[t]]
=============================================================================
