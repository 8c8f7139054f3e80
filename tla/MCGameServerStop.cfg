SPECIFICATION Spec
CONSTANTS
    p1 = p1  p2 = p2  valid = valid  invalid = invalid
    Tokens <- OneToken
    Players = {p1}
    Sessions = {valid, invalid}
    ValidSessions = {valid}
    Results = {r1}
    NoResult = NoResult
    Workers = 1
    Timestep = 1
    CountMod = 8
    MaxUpdates = 2
    MaxMessages = 1
    MaxStops = 1
INVARIANTS
    StopClearsGames
CHECK_DEADLOCK FALSE
