------------------------------ MODULE NodePool ------------------------------
(* What a pool of nodes promises its callers: a node is given to one caller  *)
(* at a time, until it is given back.  Nothing is said of the order in which *)
(* nodes are reused, nor of when the pool makes new ones.                    *)
EXTENDS Naturals

CONSTANT Nodes  \* the addresses nodes can have

VARIABLE out    \* for every node, how many callers have it

Init == out = [n \in Nodes |-> 0]

Take(n) == out[n] = 0 /\ out' = [out EXCEPT ![n] = 1]

Give(n) == out[n] = 1 /\ out' = [out EXCEPT ![n] = 0]

Next == \E n \in Nodes : Take(n) \/ Give(n)

Spec == Init /\ [][Next]_out
=============================================================================
