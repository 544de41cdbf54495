\* Two timers of one version and two safe-point attempts; the timers fire.
SPECIFICATION FairSpec
CONSTANTS
    MaxDue = 2
    MaxAttempts = 2
INVARIANTS
    RecoveryAhead
    OneBacktrackPerChain
    OneRateWriter
PROPERTIES
    StoppedPlayerResumes
