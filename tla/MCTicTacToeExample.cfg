SPECIFICATION Spec
CONSTANTS
    MaxPids = 3
    MaxSessions = 3
    MaxTokens = 2
    MaxAgain = 1
    Scores = {2}
    Elos = {2}
    FirstElo = 2
    MaxDifference = 1
    MatcherRatings = {0, 1, 2, 3}
INVARIANTS
    SessionsEndOnce
    FairPlayersEndTheirOwn
    FairPlayersStay
    MaximalMatching
CHECK_DEADLOCK FALSE
