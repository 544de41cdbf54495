---------------------------- MODULE MCWeakPolicy ----------------------------
EXTENDS RecoveryEvidence, StallEpisodes

\* Exit and entry of the weak profile share no variable: either moves, the other rests.
VARIABLE part

WeakPolicyInit == Init /\ StallInit /\ part \in {"exit", "entry"}

WeakPolicyNext ==
    /\ \/ part = "exit" /\ Next /\ UNCHANGED stallVars
       \/ part = "entry" /\ StallNext /\ UNCHANGED vars
    /\ UNCHANGED part

WeakPolicySpec == WeakPolicyInit /\ [][WeakPolicyNext]_<<vars, stallVars, part>>
=============================================================================
