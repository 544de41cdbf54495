------------------------ MODULE MCOperationLimiter ------------------------
EXTENDS OperationLimiter, TLC

Symmetry == Permutations(Keys) \cup Permutations(Reqs)
=============================================================================
