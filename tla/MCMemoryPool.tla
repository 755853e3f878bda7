---------------------------- MODULE MCMemoryPool ----------------------------
(* MemoryPool on small instances: the threads are interchangeable.           *)
EXTENDS MemoryPool, TLC

Symmetry == Permutations(Threads)
=============================================================================
