----------------------------- MODULE SpiTransfer -----------------------------
(***************************************************************************)
(* spi_transfer_buffer() of src/spi_transmit.c: a buffer is sent to the    *)
(* host in chunks of at most MAX_SPI_TRANSFER_SIZE bytes, one blocking     *)
(* MCSPI_transfer() each, with the SPI_BUSY pin low around every transfer. *)
(*                                                                         *)
(* The board is the SPI peripheral: it only offers data, the host supplies *)
(* the clock.  The MCSPI driver and the host are not under src/; they are  *)
(* the environment actions at the end of Next, modelled from what the code *)
(* relies on.                                                              *)
(***************************************************************************)
EXTENDS Naturals, Sequences

CONSTANTS
  MAX_SPI_TRANSFER_SIZE,  \* bytes per chunk: 65280 in the code, scaled down for TLC
  Sizes,                  \* the totalBytes a caller passes
  InitialPins,            \* level of SPI_BUSY before the first write: the code never sets one
  HostIsSlow,             \* the host never outruns the firmware between two driver calls
  CanFail                 \* MCSPI_transfer() may return something other than SystemP_SUCCESS

\* The code asks for 32-bit SPI frames.
BITS_PER_FRAME  == 32
BYTES_PER_FRAME == BITS_PER_FRAME \div 8

(***************************************************************************)
(* 65280 is a multiple of the SPI frame, and so is every cube size: a cube *)
(* is an array of 4-byte complex samples.                                  *)
(***************************************************************************)
SpiConstants ==
  /\ MAX_SPI_TRANSFER_SIZE \in Nat \ {0}
  /\ MAX_SPI_TRANSFER_SIZE % BYTES_PER_FRAME = 0
  /\ Sizes \subseteq Nat
  /\ \A n \in Sizes : n % BYTES_PER_FRAME = 0
  /\ InitialPins \subseteq {"low", "high"}
  /\ HostIsSlow \in BOOLEAN
  /\ CanFail \in BOOLEAN

ASSUME SpiAssumption == SpiConstants

VARIABLES
  at,              \* where the task is: "out" of the function, at the "loop" test,
                   \* before the driver call ("xfer"), or in it ("wait")
  totalBytes,      \* parameter of the current or last call
  bytesRemaining,  \* local
  chunkIndex,      \* local
  chunk,           \* locals of one iteration, and the words of it already clocked out
  transferOK,      \* the value the last call returned
  pin,             \* level of SPI_BUSY
  mcspi,           \* MCSPI channel: "idle", "armed", or finished "ok" / "failed"
  wire,            \* byte offsets of the words the host received in this call
  early            \* the host has clocked a channel that offered nothing

spiVars == <<at, totalBytes, bytesRemaining, chunkIndex, chunk, transferOK,
             pin, mcspi, wire, early>>

locals == <<totalBytes, bytesRemaining, chunkIndex>>

NoChunk == [chunkSize |-> 0, byteOffset |-> 0, frameCount |-> 0, clocked |-> 0]

Chunk == [chunkSize : Nat, byteOffset : Nat, frameCount : Nat, clocked : Nat]

SpiTypeOK ==
  /\ at \in {"out", "loop", "xfer", "wait"}
  /\ totalBytes \in Nat
  /\ bytesRemaining \in Nat
  /\ chunkIndex \in Nat
  /\ chunk \in Chunk
  /\ transferOK \in BOOLEAN
  /\ pin \in {"low", "high"}
  /\ mcspi \in {"idle", "armed", "ok", "failed"}
  /\ wire \in Seq(Nat)
  /\ early \in BOOLEAN

Init ==
  /\ at = "out"
  /\ totalBytes = 0 /\ bytesRemaining = 0 /\ chunkIndex = 0
  /\ chunk = NoChunk
  /\ transferOK = TRUE
  /\ pin \in InitialPins
  /\ mcspi = "idle"
  /\ wire = << >>
  /\ early = FALSE

-----------------------------------------------------------------------------
(* The chunk arithmetic.  The *Fault operators are plausible slips in the  *)
(* definition that follows; nothing uses them.                             *)

ChunkSizeFault(n) == MAX_SPI_TRANSFER_SIZE

ChunkSize(n) ==
  IF n > MAX_SPI_TRANSFER_SIZE THEN MAX_SPI_TRANSFER_SIZE ELSE n

ByteOffsetFault(n, size) == size * n

ByteOffset(n, size) == MAX_SPI_TRANSFER_SIZE * n

-----------------------------------------------------------------------------
(* The firmware. *)

Call(n) ==
  /\ at = "out"
  /\ at' = "loop"
  /\ totalBytes' = n
  /\ bytesRemaining' = n
  /\ chunkIndex' = 0
  /\ wire' = << >>
  /\ UNCHANGED <<chunk, transferOK, pin, mcspi, early>>

\* One iteration up to the driver call: the pin goes low first.
StartChunk ==
  /\ at = "loop"
  /\ bytesRemaining > 0
  /\ LET size == ChunkSize(bytesRemaining)
     IN chunk' = [chunkSize  |-> size,
                  byteOffset |-> ByteOffset(chunkIndex, size),
                  frameCount |-> size \div BYTES_PER_FRAME,
                  clocked    |-> 0]
  /\ pin' = "low"
  /\ at' = "xfer"
  /\ UNCHANGED <<locals, transferOK, mcspi, wire, early>>

\* MCSPI_transfer() accepts the transaction, arms the DMA and blocks.
Transfer ==
  /\ at = "xfer"
  /\ mcspi' = "armed"
  /\ at' = "wait"
  /\ UNCHANGED <<locals, chunk, transferOK, pin, wire, early>>

TransferRejectedFault ==
  /\ CanFail
  /\ at = "xfer"
  /\ at' = "loop"
  /\ UNCHANGED <<locals, chunk, transferOK, pin, mcspi, wire, early>>

\* MCSPI_transfer() turns the transaction down without offering a word.
TransferRejected ==
  /\ CanFail
  /\ at = "xfer"
  /\ transferOK' = FALSE
  /\ at' = "out"
  /\ UNCHANGED <<locals, chunk, pin, mcspi, wire, early>>

FinishChunkFault ==
  /\ at = "wait"
  /\ mcspi = "ok"
  /\ mcspi' = "idle"
  /\ bytesRemaining' = bytesRemaining - chunk.chunkSize
  /\ chunkIndex' = chunkIndex + 1
  /\ at' = "loop"
  /\ UNCHANGED <<totalBytes, chunk, transferOK, pin, wire, early>>

\* MCSPI_transfer() returns SystemP_SUCCESS: pin high, locals updated.
FinishChunk ==
  /\ at = "wait"
  /\ mcspi = "ok"
  /\ mcspi' = "idle"
  /\ pin' = "high"
  /\ bytesRemaining' = bytesRemaining - chunk.chunkSize
  /\ chunkIndex' = chunkIndex + 1
  /\ at' = "loop"
  /\ UNCHANGED <<totalBytes, chunk, transferOK, wire, early>>

TransferFailedFault ==
  /\ at = "wait"
  /\ mcspi = "failed"
  /\ mcspi' = "idle"
  /\ bytesRemaining' = bytesRemaining - chunk.chunkSize
  /\ chunkIndex' = chunkIndex + 1
  /\ at' = "loop"
  /\ UNCHANGED <<totalBytes, chunk, transferOK, pin, wire, early>>

\* MCSPI_transfer() returns an error: the function returns it at once.
TransferFailed ==
  /\ at = "wait"
  /\ mcspi = "failed"
  /\ mcspi' = "idle"
  /\ transferOK' = FALSE
  /\ at' = "out"
  /\ UNCHANGED <<locals, chunk, pin, wire, early>>

Return ==
  /\ at = "loop"
  /\ bytesRemaining = 0
  /\ transferOK' = TRUE
  /\ at' = "out"
  /\ UNCHANGED <<locals, chunk, pin, mcspi, wire, early>>

-----------------------------------------------------------------------------
(* The MCSPI channel and the host. *)

\* The host sees SPI_BUSY low and clocks one word out of the armed channel.
HostClocksWord ==
  /\ pin = "low"
  /\ mcspi = "armed"
  /\ wire' = Append(wire, chunk.byteOffset + BYTES_PER_FRAME * chunk.clocked)
  /\ chunk' = [chunk EXCEPT !.clocked = @ + 1]
  /\ mcspi' = IF chunk.clocked + 1 = chunk.frameCount THEN "ok" ELSE "armed"
  /\ UNCHANGED <<at, locals, transferOK, pin, early>>

\* The host sees SPI_BUSY low and clocks a channel that is not armed.
HostClocksEarly ==
  /\ ~HostIsSlow
  /\ pin = "low"
  /\ mcspi # "armed"
  /\ early' = TRUE
  /\ UNCHANGED <<at, locals, chunk, transferOK, pin, mcspi, wire>>

\* The driver ends the transaction with an error (DMA fault, TX underflow).
DmaError ==
  /\ CanFail
  /\ mcspi = "armed"
  /\ mcspi' = "failed"
  /\ UNCHANGED <<at, locals, chunk, transferOK, pin, wire, early>>

-----------------------------------------------------------------------------
Firmware == StartChunk \/ Transfer \/ TransferRejected \/ FinishChunk
              \/ TransferFailed \/ Return

Host == HostClocksWord \/ HostClocksEarly

Next == (\E n \in Sizes : Call(n)) \/ Firmware \/ Host \/ DmaError

Spec == Init /\ [][Next]_spiVars

(***************************************************************************)
(* A task that is not blocked runs on, and a host that sees SPI_BUSY low   *)
(* over an armed channel reads it.  Nothing forces a caller to call.       *)
(***************************************************************************)
Fairness == WF_spiVars(Firmware) /\ WF_spiVars(HostClocksWord)

FairSpec == Spec /\ Fairness

-----------------------------------------------------------------------------
(***************************************************************************)
(* Chunks tile the buffer: a chunk never reaches past the end of the       *)
(* buffer, is never empty nor larger than the driver's limit, and the      *)
(* words on the wire are exactly the chunks before it and its own clocked  *)
(* words (the arithmetic on totals around MAX_SPI_TRANSFER_SIZE).          *)
(***************************************************************************)
ChunksTile ==
  at \in {"xfer", "wait"} =>
    /\ chunk.chunkSize \in 1..MAX_SPI_TRANSFER_SIZE
    /\ chunk.byteOffset + chunk.chunkSize <= totalBytes
    /\ BYTES_PER_FRAME * chunk.frameCount = chunk.chunkSize
    /\ chunk.byteOffset + BYTES_PER_FRAME * chunk.clocked
         = BYTES_PER_FRAME * Len(wire)

(***************************************************************************)
(* spi_transmit_loop() may trust the return value: it is success exactly   *)
(* when the host has every word of the buffer.                             *)
(***************************************************************************)
SuccessMeansAllSent ==
  at = "out" => (transferOK <=> BYTES_PER_FRAME * Len(wire) = totalBytes)

(***************************************************************************)
(* Between calls SPI_BUSY is high, so that the host does not read: true    *)
(* after the first call that had something to send, unless a transfer      *)
(* failed.                                                                 *)
(***************************************************************************)
PinHighBetweenCalls ==
  at = "out" /\ totalBytes > 0 => pin = "high"

(***************************************************************************)
(* SPI_BUSY low tells the host that data can be read: it never clocks a    *)
(* channel that has nothing to offer.                                      *)
(***************************************************************************)
LowMeansReadable == ~early

(***************************************************************************)
(* Every call returns, whatever the transfers do, if the host reads.       *)
(***************************************************************************)
CallReturns == at # "out" ~> at = "out"

\* The promise SpiTransfer implements.
Stream == INSTANCE BufferStream
            WITH busy <- at # "out", size <- totalBytes, stream <- wire,
                 ok <- transferOK

(***************************************************************************)
(* The chunked transfer implements the plain stream: in order, complete on *)
(* success, never past the end of the buffer.                              *)
(***************************************************************************)
ImplementsStream == Stream!Spec
=============================================================================
