---------------------------- MODULE MCSpiTransfer ----------------------------
(***************************************************************************)
(* Model values for SpiTransfer: a driver limit of two words, and buffers  *)
(* of none to seven words, so that a total falls below, on and above one,  *)
(* two and three chunks, with and without a remainder.                     *)
(***************************************************************************)
EXTENDS SpiTransfer

MCSizes == { BYTES_PER_FRAME * n : n \in 0..7 }
MCPins  == {"low", "high"}
MCHigh  == {"high"}
=============================================================================
