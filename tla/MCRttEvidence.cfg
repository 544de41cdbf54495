\* Counts and ages in the order of the code's, scaled down.
SPECIFICATION RttSpec
CONSTANTS
    Overheads = {0, 2, 4}
    Cap = 2
    Learn = 1
    Slow = 2
    Requests = 2
    Collect = 2
    Validate = 2
    Span = 1
    RequestGap = 1
    Budget = 1
    MaxBaseline = 2
INVARIANTS
    RttTypeOK
    ReferenceIsCurrent
    EvidenceIsARun
PROPERTIES
    ReferenceIsValidated
    RttProfileCanBeLeft
