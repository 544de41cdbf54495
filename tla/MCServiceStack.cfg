\* With and without systemd, and by hand beside it; two process numbers, given out again.
SPECIFICATION FairSpec
CONSTANTS
    Pids = {1, 2}
INVARIANTS
    StopMeansStopped
    OneMediaServer
PROPERTIES
    StackComesBack
