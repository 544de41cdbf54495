\* What the last lines of a start by hand promise; this run fails.
SPECIFICATION Faultless
CONSTANTS
    Pids = {1, 2}
INVARIANTS
    StopStopsWhatStarted
