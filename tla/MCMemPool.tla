----------------------------- MODULE MCMemPool -----------------------------
(* A pool of 14 bytes at an odd address, and requests of every kind: empty, *)
(* unaligned, larger than what is left, larger than the pool.               *)
EXTENDS MemPool

MCRequests == [size : {0, 3, 4, 8, 15}, align : {1, 4}]
=============================================================================
