SPECIFICATION FairSpec
CONSTANTS
    p1 = p1  p2 = p2  s1 = s1  s2 = s2
    Players = {p1, p2}
    Sessions = {s1, s2}
    Tokens <- TwoTokens
    ValidSessions = {s1}
    NoResult = NoResult
    Workers = 1
    Timestep = 1
    MaxUpdates = 2
    MaxStops = 1
INVARIANTS
    PresentWillWait
    EachSessionHasRoster
    CompletedListed
PROPERTIES
    NoSecondGame
    EndsAnswered
    StopIsHeard
CHECK_DEADLOCK FALSE
