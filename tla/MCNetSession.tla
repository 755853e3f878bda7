---------------------------- MODULE MCNetSession ----------------------------
(* NetSession on small instances.  The workers are interchangeable; the      *)
(* symmetry is used where no liveness is checked.                            *)
EXTENDS NetSession, TLC

Symmetry == Permutations(Workers)
=============================================================================
