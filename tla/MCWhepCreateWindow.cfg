\* Rolling windows: delayed handlers, sweeps and evictions, limits that bite.
SPECIFICATION HSpec
CONSTANTS
    a1 = a1  b1 = b1  kA = kA  kB = kB
    IPs = {a1}
    NoIP = NoIP
    Keys = {kA}
    KeyOf <- MCKeyOf
    Paths = {p1}
    NoPath = NoPath
    Reqs = {r1, r2}
    MaxActive = 2
    MaxClients = 1
    ShortWindow = 2  ShortLimit = 2
    MinuteWindow = 4  MinuteLimit = 3
    SessionTTL = 2
    CleanupInterval = 4
    MaxLag = 1
    MaxHold = 1
    MaxTime = 8
SYMMETRY Symmetry
INVARIANTS
    RollingWindows
