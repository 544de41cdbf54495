\* Three requests for two places, two resets, the idle action enabled.
SPECIFICATION Spec
CONSTANTS
    Loaders = {l1, l2, l3}
    NoLoader = NoLoader
    MaxActive = 2
    MaxEpoch = 2
    IdleEnabled = TRUE
SYMMETRY LoaderSymmetry
INVARIANTS
    EndsHeardOnce
    TelemetryOfThisEpoch
PROPERTIES
    RetiredHearsNothing
