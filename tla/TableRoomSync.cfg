SPECIFICATION Spec
CONSTANTS
    Tables = {A, B}
    GameType = "texas_holdem"
    None = None
    MaxChanges = 2
    MaxVisits = 2
    MaxMishaps = 1
INVARIANTS
    GateReopens
PROPERTIES
    RepliesNeverGoBack
    PollsAndPushesKeepTheTable
    Converges
CHECK_DEADLOCK FALSE
