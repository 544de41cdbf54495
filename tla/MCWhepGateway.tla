-------------------------- MODULE MCWhepGateway --------------------------
(* Instances of the gateway for TLC: two addresses of one group and one of *)
(* another, so that ownership and grouping differ.                         *)
EXTENDS WhepSlotRefinement, TLC

CONSTANTS a1, a2, b1, kA, kB

MCKeyOf == [i \in IPs |-> IF i \in {a1, a2} THEN kA ELSE kB]

Symmetry == Permutations(Paths) \cup Permutations(Reqs)
=============================================================================
