SPECIFICATION FairSpec
CONSTANTS
  Token = Token
  Message = Message
  MaxConnects = 3
  MaxSends = 3
INVARIANTS
  RunningIsServed
  TokenSentOnce
PROPERTIES
  DisconnectEnds
  ConnectAnswered
