------------------------------ MODULE Presence ------------------------------
(* What the server promises about where people are: an account is offline,   *)
(* in the lobby or in one room, it moves between rooms only through the      *)
(* lobby, and a room never holds more than its capacity.                     *)
EXTENDS Integers, FiniteSets

CONSTANTS Accounts, Rooms, Capacity, Offline, Lobby

VARIABLE where   \* where each account is

Init == where = [a \in Accounts |-> Offline]

Move(a, from, to) == where[a] = from /\ where' = [where EXCEPT ![a] = to]

Occupants(r) == {a \in Accounts : where[a] = r}

Login(a) == Move(a, Offline, Lobby)
Enter(a, r) == Cardinality(Occupants(r)) < Capacity /\ Move(a, Lobby, r)
Leave(a, r) == Move(a, r, Lobby)
Disappear(a) == Move(a, where[a], Offline)

Next ==
    \E a \in Accounts :
        \/ Login(a)
        \/ \E r \in Rooms : Enter(a, r) \/ Leave(a, r)
        \/ Disappear(a)

Spec == Init /\ [][Next]_where
=============================================================================
