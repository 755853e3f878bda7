---------------------------- MODULE MCIndexPool -----------------------------
(* IndexPool on small instances: the releasing threads are interchangeable.  *)
EXTENDS IndexPool, TLC

Symmetry == Permutations(Releasers)
=============================================================================
