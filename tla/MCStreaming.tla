----------------------------- MODULE MCStreaming -----------------------------
(***************************************************************************)
(* Model values for Streaming: three chirps per frame, a cube of five words *)
(* sent in chunks of two, counters modulo 4, and a front end that delivers *)
(* no frame, one, or three.                                                *)
(***************************************************************************)
EXTENDS Streaming

MCPins  == {"low", "high"}
MCCalls == Calls
MCNone  == {}
=============================================================================
