\* Two appends, executed four times in all.
SPECIFICATION Spec
CONSTANTS
    Appends = {a1, a2}
    Blocker = Blocker
    Flush = Flush
    Nothing = Nothing
    MaxRuns = 4
INVARIANTS
    DeadlineKept
    NothingLeftBehind
PROPERTIES
    AbortsOnlyItsOwnWork
