\* Two groups contend for a table of one entry.  Two burst windows meet at a border
\* with three operations out of four; the minute limit is wide enough not to prevent it.
SPECIFICATION Spec
CONSTANTS
    Keys = {k1, k2}
    Reqs = {r1, r2}
    BurstLimit = 2  BurstWindow = 5
    MinuteLimit = 4  MinuteWindow = 6
    MaxEntries = 1
    MaxLag = 1
    MaxTime = 7
SYMMETRY Symmetry
INVARIANTS
    AtMostTwiceTheLimit
    RetryIsEnough
PROPERTIES
    RunningWindowKept
