------------------------- MODULE MCRequestObserver -------------------------
EXTENDS RequestObserver, TLC

LoaderSymmetry == Permutations(Loaders)
=============================================================================
