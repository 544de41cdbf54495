\* The exit: times and counts in the order of the code's, scaled down.  The entry by
\* stalls: the code's times in ticks of half a second, but for the window (30 ticks).
SPECIFICATION WeakPolicySpec
CONSTANTS
    FastSamples = 3
    StableSamples = 4
    FastQuiet = 2
    StableQuiet = 4
    Hold = 2
    MaxGap = 1
    MaxAge = 1
    Old = 5
    Dedup = 3
    Window = 9
    Confirm = 2
    Settle = 6
    Suppress = 3
INVARIANTS
    NoCreditFromBefore
    StallTypeOK
    LullEndsEpisode
PROPERTIES
    ExitIsEarned
    HealthyLineRecovers
    EntryNeedsTwoStalls
