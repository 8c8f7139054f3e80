SPECIFICATION FairSpec
CONSTANTS
    p1 = p1  p2 = p2  valid = valid  invalid = invalid
    Players = {p1, p2}
    Sessions = {valid, invalid}
    Tokens <- TwoTokens
    ValidSessions = {valid}
    Results = {r1}
    NoResult = NoResult
    Workers = 1
    Timestep = 1
    CountMod = 8
    MaxUpdates = 2
    MaxMessages = 1
    MaxStops = 1
INVARIANTS
    PresentWillPlay
    CompletedGamesListed
    DoneGamesNotUpdated
    CountIsGames
    EachGameHasOutList
PROPERTIES
    FinishedGamesGo
    LoginsProcessed
    StopIsHeard
CHECK_DEADLOCK FALSE
