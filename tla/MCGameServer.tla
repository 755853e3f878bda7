---------------------------- MODULE MCGameServer ----------------------------
(* GameServer on small instances: sessions, accounts and rooms are interchangeable. *)
EXTENDS GameServer, TLC

Symmetry == Permutations(Sessions) \union Permutations(Accounts) \union Permutations(Rooms)

\* Up to two players seated, down to one count lost.
SmallPlayerCnt == -1 .. 2
=============================================================================
