--------------------------- MODULE MCRttEvidence ---------------------------
EXTENDS RttEvidence
=============================================================================
