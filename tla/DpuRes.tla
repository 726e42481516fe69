------------------------------- MODULE DpuRes -------------------------------
(***************************************************************************)
(* include/dpu_res.h: which EDMA channel, by the event that triggers it,   *)
(* and which shadow parameter sets, counted from SOC_EDMA_NUM_DMACH, every *)
(* transfer of a DPU has.  All of them are in event queue 0.               *)
(***************************************************************************)
Transfer(event, shadows) == [channel |-> event, shadows |-> shadows]

\* The range DPU, the only one this program configures.
RANGEPROC ==
  [dataIn |-> Transfer("CHIRP_AVAIL_IRQ", {0, 1}), dataInSignature |-> Transfer("FREE_0", {2}),
   majorPing |-> Transfer("HWA_DMA_REQ0", {3}), minorPing |-> Transfer("FREE_1", {4}),
   decimPing |-> Transfer("FREE_2", {5, 6}), majorPong |-> Transfer("HWA_DMA_REQ1", {7}),
   minorPong |-> Transfer("FREE_3", {8}), decimPong |-> Transfer("FREE_4", {9, 10})]

\* The other DPUs of the table, which this program does not configure.
DOAPROC ==
  <<Transfer("FREE_5", {11}), Transfer("FREE_6", {12}), Transfer("FREE_7", {13}),
    Transfer("HWA_DMA_REQ2", {14}), Transfer("FREE_8", {15}), Transfer("FREE_9", {16}),
    Transfer("HWA_DMA_REQ3", {17}), Transfer("FREE_10", {18}), Transfer("FREE_11", {19}),
    Transfer("FREE_12", {20})>>

CFAR_PROC ==
  <<Transfer("FREE_13", {21}), Transfer("FREE_14", {22}), Transfer("HWA_DMA_REQ4", {23})>>

UDOP_PROC ==
  <<Transfer("FREE_15", {24}), Transfer("FREE_16", {25}), Transfer("FREE_17", {26}),
    Transfer("HWA_DMA_REQ5", {27, 28}), Transfer("FREE_18", {29})>>

Transfers(dpu) == { dpu[t] : t \in DOMAIN dpu }

Disjoint(t, u) == t.channel # u.channel /\ t.shadows \cap u.shadows = {}
=============================================================================
