------------------------- MODULE RollingMaintenance -------------------------
(***************************************************************************)
(* What a rolling maintenance of the cluster promises, whoever does it:    *)
(* a node is taken out of service only while every other node serves, and  *)
(* it is back before the next one goes.                                    *)
(***************************************************************************)
CONSTANT Nodes

VARIABLE out  \* the nodes that are out of service

Init == out = {}

Take == out = {} /\ \E n \in Nodes : out' = {n}

Return == out' = {}

Next == Take \/ Return

Spec == Init /\ [][Next]_out
=============================================================================
