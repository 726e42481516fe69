---------------------------- MODULE BufferStream ----------------------------
(***************************************************************************)
(* What one SPI transmission of a buffer promises the host, with none of   *)
(* the chunking: the host receives 32-bit words of the buffer in order,    *)
(* from the first, without a gap or a repetition; it never receives a word *)
(* past the end; and the sender reports success exactly when the whole     *)
(* buffer has gone out.  SpiTransfer implements it.                        *)
(***************************************************************************)
EXTENDS Naturals, Sequences

CONSTANT Sizes       \* the buffer sizes, in bytes, a caller asks to send

VARIABLES busy,      \* a transmission is going on
          size,      \* its length in bytes
          stream,    \* byte offsets of the words the host received in it
          ok         \* what the last transmission reported

streamVars == <<busy, size, stream, ok>>

WordBytes == 4

Received == WordBytes * Len(stream)

Init == busy = FALSE /\ size = 0 /\ stream = << >> /\ ok = TRUE

Open(n) ==
  /\ ~busy
  /\ busy' = TRUE
  /\ size' = n
  /\ stream' = << >>
  /\ ok' = ok

Word ==
  /\ busy
  /\ Received < size
  /\ stream' = Append(stream, Received)
  /\ UNCHANGED <<busy, size, ok>>

Close ==
  /\ busy
  /\ busy' = FALSE
  /\ ok' = (Received = size)
  /\ UNCHANGED <<size, stream>>

Next == (\E n \in Sizes : Open(n)) \/ Word \/ Close

Spec == Init /\ [][Next]_streamVars
=============================================================================
