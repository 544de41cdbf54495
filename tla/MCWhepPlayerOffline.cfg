\* The network goes and comes back; the viewer may have chosen WHEP.
SPECIFICATION MCSpec
CONSTANTS
    MaxGen = 3
    AttendedGens = 3
INVARIANTS
    OfflinePromiseKept
