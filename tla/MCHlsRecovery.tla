--------------------------- MODULE MCHlsRecovery ---------------------------
EXTENDS HlsRecovery
=============================================================================
