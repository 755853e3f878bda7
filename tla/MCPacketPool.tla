---------------------------- MODULE MCPacketPool ----------------------------
(* PacketPool on small instances: nodes and sessions are interchangeable.    *)
EXTENDS PacketPool, TLC

Symmetry == Permutations(Nodes) \union Permutations(Sessions)
=============================================================================
