\* Three generations of players with every timer, answer and click in any order; and five
\* with AUTO left alone: WHEP, HLS, WHEP, HLS, and a second return.
SPECIFICATION MCSpec
CONSTANTS
    MaxGen = 5
    AttendedGens = 3
INVARIANTS
    SessionsReleasedOnce
    OnePlayer
    ManualModeKept
    AutoNeverStranded
    AutoSettles
