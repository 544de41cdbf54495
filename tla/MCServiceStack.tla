-------------------------- MODULE MCServiceStack --------------------------
EXTENDS ServiceStack

\* Nothing fails.
Faultless == Init /\ [][Goes \/ Operator]_vars
=============================================================================
