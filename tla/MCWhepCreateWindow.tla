------------------------ MODULE MCWhepCreateWindow ------------------------
(* One group of two addresses, or two groups sharing a one-entry table.    *)
EXTENDS WhepCreateWindow, TLC

CONSTANTS a1, b1, kA, kB

MCKeyOf == [i \in IPs |-> IF i = a1 THEN kA ELSE kB]

Symmetry == Permutations(Reqs)
=============================================================================
