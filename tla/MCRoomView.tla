----------------------------- MODULE MCRoomView -----------------------------
(* RoomView on small instances.                                              *)
EXTENDS RoomView, TLC

Symmetry == Permutations(Sessions) \union Permutations(Accounts)

SmallPlayerCnt == 0 .. 2
=============================================================================
