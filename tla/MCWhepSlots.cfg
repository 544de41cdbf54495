\* Slot accounting, and the gateway against the slot pool: two handlers, leases that
\* expire, limits that bite.
SPECIFICATION Spec
CONSTANTS
    a1 = a1  a2 = a2  b1 = b1  kA = kA  kB = kB
    IPs = {a1, a2, b1}
    NoIP = NoIP
    Keys = {kA, kB}
    KeyOf <- MCKeyOf
    Paths = {p1, p2}
    NoPath = NoPath
    Reqs = {r1, r2}
    MaxActive = 1
    MaxClients = 1
    ShortWindow = 1  ShortLimit = 2
    MinuteWindow = 2  MinuteLimit = 2
    SessionTTL = 2
    CleanupInterval = 2
    MaxLag = 0
    MaxHold = 1
    MaxTime = 5
SYMMETRY Symmetry
INVARIANTS
    SlotAccounting
    WithinActiveLimit
    ForgottenGroupsHoldNothing
    SweepComplete
PROPERTIES
    ActiveLimitJustified
    LeaseChangedByOwnerOnly
    PoolSpec
