---------------------------- MODULE MCWhepPlayer ----------------------------
EXTENDS WhepPlayer

CONSTANT AttendedGens \* bound: generations of players on a page that is attended

\* Either anything may happen to the page, or nobody touches it and the network stays.
VARIABLE attended

\* What AUTO does on its own.
Unattended == Timers \/ AttemptSteps \/ Media

MCInit == Init /\ attended \in BOOLEAN

\* With HLS unplayable after the return AUTO rests.
MCNext ==
    /\ \/ attended /\ Next /\ gen' <= AttendedGens
       \/ ~attended /\ Unattended
       \/ ~attended /\ UNCHANGED vars
    /\ UNCHANGED attended

MCSpec == MCInit /\ [][MCNext]_<<vars, attended>>
=============================================================================
