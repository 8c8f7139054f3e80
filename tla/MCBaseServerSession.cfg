SPECIFICATION Spec
CONSTANTS
    h1 = h1  h2 = h2  h3 = h3  p1 = p1  p2 = p2  s1 = s1  s2 = s2
    r1 = r1  r2 = r2  w1 = w1  w2 = w2
    Garbage = Garbage  NoHdl = NoHdl  NoId = NoId  NoMsg = NoMsg
    Hdls = {h1, h2}
    Players = {p1, p2}
    Sessions = {s1}
    Tokens <- TokensAB
    Results = {r1, r2}
    Workers = {w1}
    Elapse = {0}
    CountMod = 8
    MaxQueue = 1
    MaxStops = 0
SYMMETRY Symmetry
INVARIANTS
    CountIsConnectedPlayers
    PresentAreConnected
    CompletionReachesAll
    OneResultPerSession
PROPERTIES
    MessageReachesAddressee
