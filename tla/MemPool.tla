------------------------------ MODULE MemPool ------------------------------
(***************************************************************************)
(* The memory pool of src/mem_pool.c: a bump allocator over one buffer.    *)
(* Nothing is ever freed but everything at once, by a reset.  The two      *)
(* static functions of the file, MemPoolSet and MemPoolGet, have no        *)
(* callers.                                                                *)
(***************************************************************************)
EXTENDS Integers, FiniteSets

CONSTANTS
  PoolAddr, PoolSize,   \* cfg.addr and cfg.size
  AddrMod,              \* 2^32: addresses and sizes wrap
  Requests              \* what callers ask for: records with a size and an align

NULL == 0

(***************************************************************************)
(* A pool is not at address 0, and no request is so large that addr + size *)
(* wraps: the sizes RangeProc_config() asks for are far below the 2^32     *)
(* minus the address of a pool that this takes.                            *)
(***************************************************************************)
PoolConstants ==
  /\ PoolAddr \in Nat \ {0}
  /\ PoolSize \in Nat
  /\ AddrMod \in Nat \ {0}
  /\ \A r \in Requests :
       /\ r.size \in Nat
       /\ r.align \in Nat \ {0}
       /\ PoolAddr + PoolSize + r.align + r.size <= AddrMod

ASSUME PoolAssumption == PoolConstants

VARIABLES
  currAddr, maxCurrAddr,
  blocks     \* the blocks handed out since the last reset

poolVars == <<currAddr, maxCurrAddr, blocks>>

PoolEnd == PoolAddr + PoolSize

PoolTypeOK ==
  /\ currAddr \in {0} \cup PoolAddr..PoolEnd
  /\ maxCurrAddr \in {0} \cup PoolAddr..PoolEnd
  /\ \A b \in blocks : b.addr \in Nat /\ b.size \in Nat /\ b.align \in Nat \ {0}

\* The running addresses are static storage: 0 until the first reset.
Init == currAddr = 0 /\ maxCurrAddr = 0 /\ blocks = {}

Reset ==
  /\ currAddr' = PoolAddr
  /\ maxCurrAddr' = PoolAddr
  /\ blocks' = {}

(* A *Fault operator is a plausible slip in the definition that follows    *)
(* it; nothing uses it.                                                    *)
MEM_ALIGNFault(addr, align) == (addr \div align) * align

\* The SDK's MEM_ALIGN: up to the next multiple of align.
MEM_ALIGN(addr, align) == ((addr + align - 1) \div align) * align

AllocAddr(r) == MEM_ALIGN(currAddr, r.align)

FitsFault(r) == AllocAddr(r) <= PoolEnd

Fits(r) == (AllocAddr(r) + r.size) % AddrMod <= PoolEnd

\* What the caller gets back.
Result(r) == IF Fits(r) THEN AllocAddr(r) ELSE NULL

MaxOf(m, n) == IF m > n THEN m ELSE n

Alloc(r) ==
  IF Fits(r)
    THEN /\ currAddr' = AllocAddr(r) + r.size
         /\ maxCurrAddr' = MaxOf(AllocAddr(r) + r.size, maxCurrAddr)
         /\ blocks' = blocks \cup
              {[addr |-> AllocAddr(r), size |-> r.size, align |-> r.align]}
    ELSE UNCHANGED poolVars

(***************************************************************************)
(* A caller resets a pool before it allocates from it.  dpcTask() does, on *)
(* both pools; RangeConfig checks it.                                      *)
(***************************************************************************)
Usable == currAddr # 0

Next == Reset \/ (Usable /\ \E r \in Requests : Alloc(r))

PoolSpec == Init /\ [][Next]_poolVars

-----------------------------------------------------------------------------
End(b) == b.addr + b.size

(***************************************************************************)
(* A block is aligned and inside the pool ("Size limit of memory allowed   *)
(* to be consumed", src/minimal_rangeproc_impl/include/system.h), and the  *)
(* usage the pool reports, up to maxCurrAddr, covers it.                   *)
(***************************************************************************)
BlocksInside ==
  \A b \in blocks :
    /\ b.addr % b.align = 0
    /\ PoolAddr <= b.addr
    /\ End(b) <= maxCurrAddr
    /\ maxCurrAddr <= PoolEnd

(***************************************************************************)
(* Blocks handed out since the last reset do not overlap.                  *)
(***************************************************************************)
BlocksDisjoint ==
  \A b, c \in blocks : b # c => End(b) <= c.addr \/ End(c) <= b.addr
=============================================================================
