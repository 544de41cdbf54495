------------------------- MODULE MCAppendOwnership -------------------------
EXTENDS AppendOwnership
=============================================================================
