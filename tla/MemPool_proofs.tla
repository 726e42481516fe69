--------------------------- MODULE MemPool_proofs ---------------------------
(***************************************************************************)
(* The memory pool for every buffer and every set of requests: blocks are  *)
(* aligned, inside the buffer and disjoint.                                *)
(***************************************************************************)
EXTENDS MemPool, TLAPS

(* Rounding up to a multiple: not below, by less than the alignment, and a *)
(* multiple.                                                               *)
LEMMA RoundUp ==
  ASSUME NEW a \in Nat, NEW k \in Nat \ {0}
  PROVE  /\ MEM_ALIGN(a, k) \in Nat
         /\ a <= MEM_ALIGN(a, k)
         /\ MEM_ALIGN(a, k) < a + k
         /\ MEM_ALIGN(a, k) % k = 0
<1> DEFINE q == (a + k - 1) \div k
           r == (a + k - 1) % k
<1>1. q \in Nat /\ r \in 0..(k - 1) /\ a + k - 1 = k * q + r
  OBVIOUS
<1>2. MEM_ALIGN(a, k) = q * k
  BY DEF MEM_ALIGN
<1>3. q * k = a + k - 1 - r
  BY <1>1
<1>4. q * k \in Nat /\ (q * k) % k = 0
  BY <1>1
<1> QED
  BY <1>1, <1>2, <1>3, <1>4

(***************************************************************************)
(* The invariant that is inductive: whatever was handed out ends at or     *)
(* below the running address, so the next block starts above all others.   *)
(***************************************************************************)
Below == \A b \in blocks : End(b) <= currAddr

PoolInv ==
  /\ PoolTypeOK
  /\ currAddr <= maxCurrAddr
  /\ currAddr = 0 => maxCurrAddr = 0 /\ blocks = {}
  /\ Below
  /\ BlocksInside
  /\ BlocksDisjoint

\* A request that fits ends inside the pool, with nothing wrapped.
LEMMA FittingBlock ==
  ASSUME PoolInv, Usable, NEW r \in Requests, Fits(r)
  PROVE  /\ AllocAddr(r) \in Nat
         /\ currAddr <= AllocAddr(r)
         /\ AllocAddr(r) % r.align = 0
         /\ PoolAddr <= AllocAddr(r)
         /\ AllocAddr(r) + r.size <= PoolEnd
<1>1. /\ PoolAddr \in Nat /\ PoolSize \in Nat /\ AddrMod \in Nat \ {0}
      /\ r.size \in Nat /\ r.align \in Nat \ {0}
      /\ PoolAddr + PoolSize + r.align + r.size <= AddrMod
  BY PoolAssumption DEF PoolConstants
<1>2. currAddr \in Nat /\ PoolAddr <= currAddr /\ currAddr <= PoolEnd
  BY <1>1 DEF PoolInv, PoolTypeOK, Usable, PoolEnd
<1>3. /\ AllocAddr(r) \in Nat /\ currAddr <= AllocAddr(r)
      /\ AllocAddr(r) < currAddr + r.align /\ AllocAddr(r) % r.align = 0
  BY <1>1, <1>2, RoundUp DEF AllocAddr
<1>4. AllocAddr(r) + r.size < AddrMod
  BY <1>1, <1>2, <1>3 DEF PoolEnd
<1>5. (AllocAddr(r) + r.size) % AddrMod = AllocAddr(r) + r.size
  <2> DEFINE n == AllocAddr(r) + r.size
  <2>1. n \in Nat /\ n < AddrMod
    BY <1>1, <1>3, <1>4
  <2> HIDE DEF n
  <2>2. n % AddrMod = n
    BY <1>1, <2>1
  <2> QED
    BY <2>2 DEF n
<1> QED
  BY <1>1, <1>2, <1>3, <1>5 DEF Fits

LEMMA AllocInv ==
  ASSUME PoolInv, Usable, NEW r \in Requests, Alloc(r) PROVE PoolInv'
<1>1. CASE Fits(r)
  <2> DEFINE new == [addr |-> AllocAddr(r), size |-> r.size, align |-> r.align]
  <2>1. /\ r.size \in Nat /\ r.align \in Nat \ {0}
        /\ PoolAddr \in Nat \ {0} /\ PoolSize \in Nat
    BY PoolAssumption DEF PoolConstants
  <2>2. /\ AllocAddr(r) \in Nat /\ currAddr <= AllocAddr(r)
        /\ AllocAddr(r) % r.align = 0
        /\ PoolAddr <= AllocAddr(r) /\ AllocAddr(r) + r.size <= PoolEnd
    BY <1>1, FittingBlock
  <2>3. /\ new.addr = AllocAddr(r) /\ new.size = r.size /\ new.align = r.align
        /\ End(new) = AllocAddr(r) + r.size
    BY DEF End
  <2>4. /\ currAddr' = End(new)
        /\ maxCurrAddr' = MaxOf(End(new), maxCurrAddr)
        /\ blocks' = blocks \cup {new}
    BY <1>1, <2>3 DEF Alloc
  <2>5. /\ currAddr \in Nat /\ maxCurrAddr \in Nat /\ maxCurrAddr <= PoolEnd
        /\ currAddr <= maxCurrAddr
        /\ \A b \in blocks : b.addr \in Nat /\ b.size \in Nat /\ b.align \in Nat \ {0}
    BY <2>1 DEF PoolInv, PoolTypeOK, PoolEnd
  <2> HIDE DEF new
  <2>6. /\ End(new) \in Nat /\ new.addr <= End(new) /\ currAddr <= new.addr
        /\ maxCurrAddr' \in Nat /\ End(new) <= maxCurrAddr'
        /\ maxCurrAddr <= maxCurrAddr' /\ maxCurrAddr' <= PoolEnd
    BY <2>1, <2>2, <2>3, <2>4, <2>5 DEF MaxOf, PoolEnd
  <2>7. PoolTypeOK'
    BY <2>1, <2>2, <2>3, <2>4, <2>5, <2>6 DEF PoolTypeOK, PoolEnd
  <2>8. Below'
    <3>1. new.addr \in Nat /\ currAddr <= End(new)
      BY <2>2, <2>3, <2>5, <2>6
    <3>2. \A b \in blocks : End(b) \in Nat /\ End(b) <= currAddr
      BY <2>5 DEF PoolInv, Below, End
    <3>3. \A b \in blocks \cup {new} : End(b) <= End(new)
      BY <2>5, <2>6, <3>1, <3>2
    <3>4. Below' <=> \A b \in blocks' : End(b) <= currAddr'
      BY DEF Below, End
    <3> QED
      BY <2>4, <3>3, <3>4
  <2>9. BlocksInside'
    BY <2>2, <2>3, <2>4, <2>5, <2>6 DEF PoolInv, BlocksInside, End, PoolEnd
  <2>10. BlocksDisjoint'
    BY <2>2, <2>3, <2>4, <2>5, <2>6 DEF PoolInv, Below, BlocksDisjoint, End
  <2> QED
    BY <2>1, <2>2, <2>3, <2>4, <2>6, <2>7, <2>8, <2>9, <2>10 DEF PoolInv
<1>2. CASE ~Fits(r)
  BY <1>2 DEF Alloc, poolVars, PoolInv, PoolTypeOK, Below, BlocksInside, BlocksDisjoint
<1> QED
  BY <1>1, <1>2

(* Blocks stay aligned, inside the pool and disjoint, whatever is asked    *)
(* for and however often the pool is reset.                                *)
THEOREM PoolInvariance == PoolSpec => []PoolInv
<1>1. Init => PoolInv
  BY PoolAssumption
  DEF Init, PoolConstants, PoolInv, PoolTypeOK, Below, BlocksInside, BlocksDisjoint
<1>2. PoolInv /\ [Next]_poolVars => PoolInv'
  <2> SUFFICES ASSUME PoolInv, [Next]_poolVars PROVE PoolInv'
    OBVIOUS
  <2>1. ASSUME Reset PROVE PoolInv'
    BY <2>1, PoolAssumption
    DEF Reset, PoolConstants, PoolInv, PoolTypeOK, Below, BlocksInside, BlocksDisjoint,
        PoolEnd
  <2>2. ASSUME UNCHANGED poolVars PROVE PoolInv'
    BY <2>2 DEF poolVars, PoolInv, PoolTypeOK, Below, BlocksInside, BlocksDisjoint
  <2> QED
    BY <2>1, <2>2, AllocInv DEF Next
<1> QED
  BY <1>1, <1>2, PTL DEF PoolSpec

(* The running addresses stay inside the buffer and blocks have addresses, *)
(* whatever is asked for.                                                  *)
THEOREM TypeCorrect == PoolSpec => []PoolTypeOK
<1>1. PoolInv => PoolTypeOK
  BY DEF PoolInv
<1> QED
  BY <1>1, PoolInvariance, PTL

(* No two blocks handed out since the last reset overlap.                  *)
THEOREM Disjoint == PoolSpec => []BlocksDisjoint
<1>1. PoolInv => BlocksDisjoint
  BY DEF PoolInv
<1> QED
  BY <1>1, PoolInvariance, PTL

(* Every block is aligned, and inside the buffer the pool was given.       *)
THEOREM Inside == PoolSpec => []BlocksInside
<1>1. PoolInv => BlocksInside
  BY DEF PoolInv
<1> QED
  BY <1>1, PoolInvariance, PTL
=============================================================================
