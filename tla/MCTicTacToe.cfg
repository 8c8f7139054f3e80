SPECIFICATION FairSpec
CONSTANTS
    Players = {p1, p2}
    TimeLimit = 2
    Deltas = {1, 2}
    NoView = NoView
INVARIANTS
    StateIsLine
    StonesAlternate
    OneVerdict
    ConnectedSeeState
PROPERTIES
    GamesEnd
CHECK_DEADLOCK FALSE
