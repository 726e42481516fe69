------------------------- MODULE SpiTransfer_proofs -------------------------
(***************************************************************************)
(* SpiTransfer, for every chunk limit and every set of buffer sizes: the   *)
(* chunks tile the buffer, success means that all of it was sent, and the  *)
(* chunked transfer implements BufferStream.                               *)
(***************************************************************************)
EXTENDS SpiTransfer, TLAPS

InChunk == at \in {"xfer", "wait"}

(***************************************************************************)
(* The inductive invariant.  Len(wire) counts what the host has;           *)
(* chunkIndex, bytesRemaining and the chunk's own locals are three more    *)
(* accounts of the same thing, and the invariant is that they agree.       *)
(***************************************************************************)
Sized ==
  /\ totalBytes % 4 = 0
  /\ bytesRemaining % 4 = 0
  /\ bytesRemaining <= totalBytes

Position ==
  at # "out" /\ bytesRemaining > 0 =>
    MAX_SPI_TRANSFER_SIZE * chunkIndex + bytesRemaining = totalBytes

BetweenChunks ==
  at = "loop" => 4 * Len(wire) + bytesRemaining = totalBytes

WithinChunk ==
  InChunk =>
    /\ bytesRemaining > 0
    /\ chunk.chunkSize = ChunkSize(bytesRemaining)
    /\ chunk.byteOffset + bytesRemaining = totalBytes
    /\ 4 * chunk.frameCount = chunk.chunkSize
    /\ 4 * Len(wire) = chunk.byteOffset + 4 * chunk.clocked

Channel ==
  /\ at # "wait" => mcspi = "idle"
  /\ at = "xfer" => chunk.clocked = 0
  /\ at = "wait" =>
       \/ mcspi \in {"armed", "failed"} /\ chunk.clocked < chunk.frameCount
       \/ mcspi = "ok" /\ chunk.clocked = chunk.frameCount

Verdict == at = "out" => (transferOK <=> 4 * Len(wire) = totalBytes)

SpiInv ==
  /\ SpiTypeOK
  /\ Sized
  /\ Position
  /\ BetweenChunks
  /\ WithinChunk
  /\ Channel
  /\ Verdict

-----------------------------------------------------------------------------
(* The offset of the next chunk is one limit further (line 60 and 86). *)
LEMMA NextOffset ==
  ASSUME NEW k \in Nat, NEW m \in Nat
  PROVE  m * (k + 1) = m * k + m
OBVIOUS

(* A frame is four bytes, as BITS_PER_FRAME / 8U says. *)
LEMMA FourBytes == BYTES_PER_FRAME = 4
BY DEF BYTES_PER_FRAME, BITS_PER_FRAME

(* What the assumption says of the chunk limit, the sizes and the pin.     *)
LEMMA Limits ==
  /\ MAX_SPI_TRANSFER_SIZE \in Nat /\ MAX_SPI_TRANSFER_SIZE > 0
  /\ MAX_SPI_TRANSFER_SIZE % 4 = 0
  /\ \A n \in Sizes : n \in Nat /\ n % 4 = 0
  /\ InitialPins \subseteq {"low", "high"}
BY SpiAssumption, FourBytes DEF SpiConstants

(* A chunk is as long as the limit and the rest of the buffer allow, and   *)
(* a whole number of frames.                                               *)
LEMMA ChunkSizeFits ==
  ASSUME NEW n \in Nat, n > 0, n % 4 = 0
  PROVE  /\ ChunkSize(n) \in 1..MAX_SPI_TRANSFER_SIZE
         /\ ChunkSize(n) <= n
         /\ ChunkSize(n) % 4 = 0
         /\ ChunkSize(n) \div 4 \in Nat
         /\ 4 * (ChunkSize(n) \div 4) = ChunkSize(n)
         /\ (n - ChunkSize(n)) % 4 = 0
         /\ n - ChunkSize(n) > 0 => ChunkSize(n) = MAX_SPI_TRANSFER_SIZE
BY Limits, FourBytes DEF ChunkSize

LEMMA InitInv == Init => SpiInv
<1> SUFFICES ASSUME Init PROVE SpiInv
  OBVIOUS
<1>1. SpiTypeOK
  <2>1. NoChunk \in Chunk
    BY DEF NoChunk, Chunk
  <2>2. wire \in Seq(Nat)
    BY DEF Init
  <2>3. pin \in {"low", "high"}
    BY Limits DEF Init
  <2> QED
    BY <2>1, <2>2, <2>3 DEF Init, SpiTypeOK
<1>2. Len(wire) = 0 /\ at = "out" /\ totalBytes = 0 /\ bytesRemaining = 0
  BY DEF Init
<1> QED
  BY <1>1, <1>2
  DEF Init, SpiInv, Sized, Position, BetweenChunks, WithinChunk, InChunk,
      Channel, Verdict

LEMMA CallInv ==
  ASSUME SpiInv, NEW n \in Sizes, Call(n) PROVE SpiInv'
<1>1. n \in Nat /\ n % 4 = 0
  BY Limits, FourBytes
<1>2. MAX_SPI_TRANSFER_SIZE * 0 = 0
  BY Limits
<1> QED
  BY <1>1, <1>2
  DEF Call, SpiInv, SpiTypeOK, Sized, Position, BetweenChunks, WithinChunk,
      InChunk, Channel, Verdict

LEMMA StartChunkInv ==
  ASSUME SpiInv, StartChunk PROVE SpiInv'
<1> DEFINE size == ChunkSize(bytesRemaining)
<1>1. /\ bytesRemaining \in Nat /\ bytesRemaining > 0 /\ bytesRemaining % 4 = 0
      /\ chunkIndex \in Nat
  BY DEF SpiInv, SpiTypeOK, Sized, StartChunk
<1>2. /\ size \in 1..MAX_SPI_TRANSFER_SIZE
      /\ size \div 4 \in Nat
      /\ 4 * (size \div 4) = size
  BY <1>1, ChunkSizeFits
<1>3. ByteOffset(chunkIndex, size) = MAX_SPI_TRANSFER_SIZE * chunkIndex
  BY DEF ByteOffset
<1>4. MAX_SPI_TRANSFER_SIZE * chunkIndex \in Nat
  BY <1>1, Limits
<1>5. chunk' = [chunkSize  |-> size,
                byteOffset |-> MAX_SPI_TRANSFER_SIZE * chunkIndex,
                frameCount |-> size \div 4,
                clocked    |-> 0]
  BY <1>3, FourBytes DEF StartChunk
<1> HIDE DEF size
<1>6. chunk' \in Chunk
  BY <1>2, <1>4, <1>5, Limits DEF Chunk
<1>7. SpiTypeOK'
  BY <1>6 DEF SpiInv, SpiTypeOK, StartChunk, locals
<1>8. WithinChunk'
  <2>1. ChunkSize(bytesRemaining)' = size
    BY DEF StartChunk, locals, size, ChunkSize
  <2>2. /\ bytesRemaining' = bytesRemaining /\ totalBytes' = totalBytes
        /\ wire' = wire
    BY DEF StartChunk, locals
  <2>3. MAX_SPI_TRANSFER_SIZE * chunkIndex + bytesRemaining = totalBytes
    BY <1>1 DEF SpiInv, Position, StartChunk
  <2>4. 4 * Len(wire) = MAX_SPI_TRANSFER_SIZE * chunkIndex
    BY <1>1, <1>4, <2>3 DEF SpiInv, SpiTypeOK, BetweenChunks, StartChunk
  <2> QED
    BY <1>1, <1>2, <1>4, <1>5, <2>1, <2>2, <2>3, <2>4 DEF WithinChunk
<1> QED
  BY <1>5, <1>7, <1>8
  DEF SpiInv, Sized, Position, BetweenChunks, InChunk, Channel, Verdict,
      StartChunk, locals

LEMMA TransferInv ==
  ASSUME SpiInv, Transfer PROVE SpiInv'
<1>1. chunk.frameCount > 0 /\ chunk.clocked = 0
  <2>1. bytesRemaining \in Nat /\ bytesRemaining > 0 /\ bytesRemaining % 4 = 0
    BY DEF SpiInv, SpiTypeOK, Sized, WithinChunk, InChunk, Transfer
  <2>2. chunk.chunkSize \in 1..MAX_SPI_TRANSFER_SIZE
    BY <2>1, ChunkSizeFits DEF SpiInv, WithinChunk, InChunk, Transfer
  <2>3. chunk.frameCount \in Nat
    BY DEF SpiInv, SpiTypeOK, Chunk
  <2> QED
    BY <2>2, <2>3, Limits
    DEF SpiInv, WithinChunk, InChunk, Channel, Transfer
<1> QED
  BY <1>1
  DEF Transfer, locals, SpiInv, SpiTypeOK, Sized, Position, BetweenChunks,
      WithinChunk, InChunk, Channel, Verdict

LEMMA TransferRejectedInv ==
  ASSUME SpiInv, TransferRejected PROVE SpiInv'
<1>1. 4 * Len(wire) # totalBytes
  BY DEF TransferRejected, SpiInv, SpiTypeOK, Chunk, WithinChunk, InChunk, Channel
<1> QED
  BY <1>1
  DEF TransferRejected, locals, SpiInv, SpiTypeOK, Sized, Position,
      BetweenChunks, WithinChunk, InChunk, Channel, Verdict

LEMMA FinishChunkInv ==
  ASSUME SpiInv, FinishChunk PROVE SpiInv'
<1>1. /\ bytesRemaining \in Nat /\ bytesRemaining > 0 /\ bytesRemaining % 4 = 0
      /\ chunkIndex \in Nat /\ totalBytes \in Nat
      /\ chunk.chunkSize = ChunkSize(bytesRemaining)
      /\ chunk.byteOffset \in Nat
      /\ MAX_SPI_TRANSFER_SIZE * chunkIndex + bytesRemaining = totalBytes
  BY DEF SpiInv, SpiTypeOK, Chunk, Sized, Position, WithinChunk, InChunk, FinishChunk
<1>2. /\ chunk.chunkSize \in 1..MAX_SPI_TRANSFER_SIZE
      /\ chunk.chunkSize <= bytesRemaining
      /\ (bytesRemaining - chunk.chunkSize) % 4 = 0
      /\ bytesRemaining - chunk.chunkSize > 0
            => chunk.chunkSize = MAX_SPI_TRANSFER_SIZE
  BY <1>1, ChunkSizeFits
<1>3. bytesRemaining' \in Nat /\ bytesRemaining' <= totalBytes /\ bytesRemaining' % 4 = 0
  BY <1>1, <1>2, Limits DEF FinishChunk, SpiInv, Sized
<1>4. SpiTypeOK'
  BY <1>1, <1>3 DEF FinishChunk, SpiInv, SpiTypeOK
<1>5. Position'
  <2>1. MAX_SPI_TRANSFER_SIZE * (chunkIndex + 1)
          = MAX_SPI_TRANSFER_SIZE * chunkIndex + MAX_SPI_TRANSFER_SIZE
    BY <1>1, Limits, NextOffset
  <2>2. MAX_SPI_TRANSFER_SIZE * chunkIndex \in Nat
    BY <1>1, Limits
  <2> QED
    BY <1>1, <1>2, <2>1, <2>2, Limits DEF FinishChunk, Position
<1>6. BetweenChunks'
  BY <1>1, <1>2
  DEF FinishChunk, SpiInv, SpiTypeOK, Chunk, WithinChunk, InChunk, Channel,
      BetweenChunks
<1> QED
  BY <1>3, <1>4, <1>5, <1>6
  DEF FinishChunk, SpiInv, Sized, WithinChunk, InChunk, Channel, Verdict

LEMMA TransferFailedInv ==
  ASSUME SpiInv, TransferFailed PROVE SpiInv'
<1>1. /\ bytesRemaining \in Nat /\ bytesRemaining > 0 /\ bytesRemaining % 4 = 0
      /\ chunk.chunkSize = ChunkSize(bytesRemaining)
  BY DEF SpiInv, SpiTypeOK, Sized, WithinChunk, InChunk, TransferFailed
<1>2. chunk.chunkSize \in Nat /\ chunk.chunkSize <= bytesRemaining
  BY <1>1, ChunkSizeFits, Limits
<1>3. 4 * Len(wire) # totalBytes
  BY <1>1, <1>2
  DEF TransferFailed, SpiInv, SpiTypeOK, Chunk, WithinChunk, InChunk, Channel
<1> QED
  BY <1>3
  DEF TransferFailed, locals, SpiInv, SpiTypeOK, Sized, Position,
      BetweenChunks, WithinChunk, InChunk, Channel, Verdict

LEMMA ReturnInv ==
  ASSUME SpiInv, Return PROVE SpiInv'
BY DEF Return, locals, SpiInv, SpiTypeOK, Sized, Position, BetweenChunks,
       WithinChunk, InChunk, Channel, Verdict

LEMMA HostClocksWordInv ==
  ASSUME SpiInv, HostClocksWord PROVE SpiInv'
<1>1. /\ at = "wait"
      /\ chunk \in Chunk
      /\ chunk.clocked < chunk.frameCount
  BY DEF HostClocksWord, SpiInv, SpiTypeOK, Channel
<1>2. /\ chunk' \in Chunk
      /\ chunk'.clocked = chunk.clocked + 1
      /\ chunk'.chunkSize = chunk.chunkSize
      /\ chunk'.byteOffset = chunk.byteOffset
      /\ chunk'.frameCount = chunk.frameCount
  BY <1>1 DEF HostClocksWord, Chunk
<1>3. wire' \in Seq(Nat) /\ Len(wire') = Len(wire) + 1
  BY <1>1, FourBytes DEF HostClocksWord, SpiInv, SpiTypeOK, Chunk
<1>4. WithinChunk'
  <2>1. /\ bytesRemaining' = bytesRemaining /\ totalBytes' = totalBytes /\ at' = at
        /\ ChunkSize(bytesRemaining)' = ChunkSize(bytesRemaining)
    BY DEF HostClocksWord, locals, ChunkSize
  <2>2. /\ Len(wire) \in Nat /\ chunk.byteOffset \in Nat /\ chunk.clocked \in Nat
        /\ chunk.frameCount \in Nat
    BY <1>1 DEF SpiInv, SpiTypeOK, Chunk
  <2>3. /\ bytesRemaining > 0
        /\ chunk.chunkSize = ChunkSize(bytesRemaining)
        /\ chunk.byteOffset + bytesRemaining = totalBytes
        /\ 4 * chunk.frameCount = chunk.chunkSize
        /\ 4 * Len(wire) = chunk.byteOffset + 4 * chunk.clocked
    BY <1>1 DEF SpiInv, WithinChunk, InChunk
  <2>4. 4 * Len(wire') = chunk.byteOffset + 4 * (chunk.clocked + 1)
    <3> DEFINE a == Len(wire)
               b == chunk.byteOffset
               c == chunk.clocked
    <3>1. a \in Nat /\ b \in Nat /\ c \in Nat /\ 4 * a = b + 4 * c
      BY <2>2, <2>3
    <3> HIDE DEF a, b, c
    <3>2. 4 * (a + 1) = b + 4 * (c + 1)
      BY <3>1
    <3> QED
      BY <1>3, <3>2 DEF a, b, c
  <2> QED
    BY <1>2, <2>1, <2>3, <2>4 DEF WithinChunk, InChunk
<1>5. Channel'
  BY <1>1, <1>2 DEF HostClocksWord, SpiInv, Channel, Chunk
<1> QED
  BY <1>1, <1>2, <1>3, <1>4, <1>5
  DEF HostClocksWord, locals, SpiInv, SpiTypeOK, Sized, Position, BetweenChunks,
      InChunk, Verdict

LEMMA EnvironmentInv ==
  ASSUME SpiInv, HostClocksEarly \/ DmaError \/ UNCHANGED spiVars PROVE SpiInv'
<1>1. /\ at' = at /\ chunk' = chunk /\ transferOK' = transferOK /\ wire' = wire
      /\ totalBytes' = totalBytes /\ bytesRemaining' = bytesRemaining
      /\ chunkIndex' = chunkIndex /\ pin' = pin
  BY DEF HostClocksEarly, DmaError, spiVars, locals
<1>2. early' \in BOOLEAN /\ (mcspi' = mcspi \/ (mcspi = "armed" /\ mcspi' = "failed"))
  BY DEF HostClocksEarly, DmaError, spiVars, SpiInv, SpiTypeOK
<1>3. SpiTypeOK'
  BY <1>1, <1>2 DEF SpiInv, SpiTypeOK
<1>4. Sized' /\ Position' /\ BetweenChunks' /\ WithinChunk' /\ Verdict'
  BY <1>1 DEF SpiInv, Sized, Position, BetweenChunks, WithinChunk, InChunk,
              ChunkSize, Verdict
<1>5. Channel'
  BY <1>1, <1>2 DEF SpiInv, Channel
<1> QED
  BY <1>3, <1>4, <1>5 DEF SpiInv

LEMMA StepInv == SpiInv /\ [Next]_spiVars => SpiInv'
BY CallInv, StartChunkInv, TransferInv, TransferRejectedInv, FinishChunkInv,
   TransferFailedInv, ReturnInv, HostClocksWordInv, EnvironmentInv
DEF Next, Firmware, Host

(* The strengthened invariant holds throughout, for every constant. *)
THEOREM Invariance == Spec => []SpiInv
BY InitInv, StepInv, PTL DEF Spec

(* The variables of spi_transfer_buffer() keep their types. *)
THEOREM TypeCorrect == Spec => []SpiTypeOK
<1>1. SpiInv => SpiTypeOK
  BY DEF SpiInv
<1> QED
  BY <1>1, Invariance, PTL

-----------------------------------------------------------------------------
(* Chunks tile the buffer: no chunk is empty, larger than the limit, or    *)
(* reaches past the end, whatever the limit and the total.                 *)
THEOREM Tiling == Spec => []ChunksTile
<1>1. SpiInv => ChunksTile
  <2> SUFFICES ASSUME SpiInv, at \in {"xfer", "wait"} PROVE ChunksTile
    BY DEF ChunksTile
  <2>1. /\ bytesRemaining \in Nat /\ bytesRemaining > 0 /\ bytesRemaining % 4 = 0
        /\ chunk.chunkSize = ChunkSize(bytesRemaining)
        /\ chunk.byteOffset \in Nat /\ totalBytes \in Nat
    BY DEF SpiInv, SpiTypeOK, Chunk, Sized, WithinChunk, InChunk
  <2>2. /\ chunk.chunkSize \in 1..MAX_SPI_TRANSFER_SIZE
        /\ chunk.chunkSize <= bytesRemaining
    BY <2>1, ChunkSizeFits
  <2> QED
    BY <2>1, <2>2, FourBytes, Limits DEF SpiInv, WithinChunk, InChunk, ChunksTile
<1> QED
  BY <1>1, Invariance, PTL

(* The return value of spi_transfer_buffer() tells the truth. *)
THEOREM Success == Spec => []SuccessMeansAllSent
<1>1. SpiInv => SuccessMeansAllSent
  BY FourBytes DEF SpiInv, Verdict, SuccessMeansAllSent
<1> QED
  BY <1>1, Invariance, PTL

(* The pin is back to high whenever a chunk has ended and none has started *)
(* since; only an error leaves it low.                                     *)
PinRaised ==
  /\ mcspi # "failed"
  /\ at \in {"out", "loop"} /\ bytesRemaining # totalBytes => pin = "high"
  /\ at = "out" => bytesRemaining = 0

LEMMA PinInit == Init => PinRaised
BY DEF Init, PinRaised

LEMMA PinStep == ~CanFail /\ PinRaised /\ [Next]_spiVars => PinRaised'
BY DEF PinRaised, Next, Firmware, Host, Call, StartChunk, Transfer, TransferRejected,
       FinishChunk, TransferFailed, Return, HostClocksWord, HostClocksEarly, DmaError,
       spiVars, locals

(* If no transfer fails, SPI_BUSY is high between calls; the run that      *)
(* violates the property shows that the condition is needed.               *)
THEOREM PinHigh == ~CanFail => (Spec => []PinHighBetweenCalls)
<1> SUFFICES ASSUME ~CanFail PROVE Spec => []PinHighBetweenCalls
  OBVIOUS
<1>1. SpiInv /\ PinRaised => PinHighBetweenCalls
  BY DEF SpiInv, SpiTypeOK, PinRaised, PinHighBetweenCalls
<1> QED
  BY <1>1, PinInit, PinStep, Invariance, PTL DEF Spec

\* Low from the start of a chunk to its successful end, and after a failure.
PinFollows ==
  /\ at \in {"xfer", "wait"} => pin = "low"
  /\ at = "loop" /\ bytesRemaining < totalBytes => pin = "high"
  /\ at = "out" /\ totalBytes > 0 => (pin = "high" <=> transferOK)

LEMMA PinFollowsStep ==
  ASSUME SpiInv, SpiInv', PinFollows, [Next]_spiVars
  PROVE  PinFollows'
<1>1. /\ totalBytes \in Nat /\ bytesRemaining \in Nat /\ chunk.chunkSize \in Nat
      /\ pin \in {"low", "high"} /\ transferOK \in BOOLEAN
  BY DEF SpiInv, SpiTypeOK, Chunk
<1>2. CASE \E n \in Sizes : Call(n)
  BY <1>2, Limits DEF Call, PinFollows
<1>3. CASE StartChunk \/ Transfer
  BY <1>3 DEF StartChunk, Transfer, PinFollows
<1>4. CASE TransferRejected \/ TransferFailed
  BY <1>4 DEF TransferRejected, TransferFailed, PinFollows, locals
<1>5. CASE FinishChunk
  BY <1>5 DEF FinishChunk, PinFollows
<1>6. CASE Return
  BY <1>1, <1>6 DEF Return, PinFollows, locals
<1>7. CASE HostClocksWord \/ HostClocksEarly \/ DmaError \/ UNCHANGED spiVars
  BY <1>7 DEF HostClocksWord, HostClocksEarly, DmaError, spiVars, PinFollows, locals
<1> QED
  BY <1>2, <1>3, <1>4, <1>5, <1>6, <1>7 DEF Next, Firmware, Host

(* Between calls that send something the pin is high exactly when the last *)
(* one succeeded: it tells the host whether there was a failure, and stays *)
(* low after it until a later call succeeds.                               *)
THEOREM PinTellsOutcome ==
  Spec => [](at = "out" /\ totalBytes > 0 => (pin = "high" <=> transferOK))
<1>1. Init => PinFollows
  BY DEF Init, PinFollows
<1>2. SpiInv /\ SpiInv' /\ PinFollows /\ [Next]_spiVars => PinFollows'
  BY PinFollowsStep
<1>3. PinFollows => (at = "out" /\ totalBytes > 0 => (pin = "high" <=> transferOK))
  BY DEF PinFollows
<1> QED
  BY <1>1, <1>2, <1>3, Invariance, PTL DEF Spec

-----------------------------------------------------------------------------
(* Every step of the chunked transfer is a step of the plain stream or     *)
(* leaves it alone.                                                        *)
LEMMA StreamStep ==
  SpiInv /\ SpiInv' /\ [Next]_spiVars => [Stream!Next]_(Stream!streamVars)
<1> SUFFICES ASSUME SpiInv, SpiInv', [Next]_spiVars
             PROVE  Stream!Next \/ UNCHANGED Stream!streamVars
  OBVIOUS
<1> USE DEF Stream!streamVars
<1>1. ASSUME NEW n \in Sizes, Call(n) PROVE Stream!Open(n)
  BY <1>1 DEF Call, Stream!Open
<1>2. ASSUME HostClocksWord PROVE Stream!Word
  <2>1. /\ at = "wait" /\ at' = "wait"
        /\ chunk.clocked < chunk.frameCount
        /\ chunk \in Chunk
        /\ wire \in Seq(Nat)
        /\ bytesRemaining \in Nat /\ bytesRemaining > 0 /\ bytesRemaining % 4 = 0
        /\ totalBytes \in Nat
        /\ transferOK' = transferOK /\ totalBytes' = totalBytes
    BY <1>2 DEF HostClocksWord, locals, SpiInv, SpiTypeOK, Sized, WithinChunk, InChunk, Channel
  <2>2. /\ chunk.chunkSize = ChunkSize(bytesRemaining)
        /\ chunk.byteOffset + bytesRemaining = totalBytes
        /\ 4 * chunk.frameCount = chunk.chunkSize
        /\ 4 * Len(wire) = chunk.byteOffset + 4 * chunk.clocked
    BY <2>1 DEF SpiInv, WithinChunk, InChunk
  <2>3. chunk.chunkSize <= bytesRemaining
    BY <2>1, <2>2, ChunkSizeFits
  <2>4. 4 * Len(wire) < totalBytes
    BY <2>1, <2>2, <2>3 DEF Chunk
  <2>5. wire' = Append(wire, 4 * Len(wire))
    BY <1>2, <2>2, FourBytes DEF HostClocksWord
  <2> QED
    BY <2>1, <2>4, <2>5 DEF Stream!Word, Stream!Received, Stream!WordBytes
<1>3. ASSUME TransferRejected \/ TransferFailed \/ Return PROVE Stream!Close
  BY <1>3
  DEF TransferRejected, TransferFailed, Return, locals, SpiInv, Verdict,
      Stream!Close, Stream!Received, Stream!WordBytes
<1>4. ASSUME \/ StartChunk \/ Transfer \/ FinishChunk \/ HostClocksEarly
             \/ DmaError \/ UNCHANGED spiVars
      PROVE  UNCHANGED Stream!streamVars
  BY <1>4
  DEF StartChunk, Transfer, FinishChunk, HostClocksEarly, DmaError, spiVars, locals,
      SpiInv, Channel
<1> QED
  BY <1>1, <1>2, <1>3, <1>4 DEF Next, Firmware, Host, Stream!Next

(* Cutting the buffer into chunks is invisible to the host: SpiTransfer    *)
(* implements BufferStream.                                                *)
THEOREM Refinement == Spec => ImplementsStream
<1>1. Init => Stream!Init
  BY DEF Init, Stream!Init
<1> QED
  BY <1>1, Invariance, StreamStep, PTL DEF Spec, ImplementsStream, Stream!Spec
=============================================================================
