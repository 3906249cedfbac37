CONSTANTS
  Endpoint = {e1, e2}
  Player = {p, a}
  Admin = {a}
  SessionId = {s1, s2, s3}
  Password = {}
  NoPassword = NoPassword
  MaxPlayers = {1, 3}
  PingTimeout = 0
  JoinTimeout = 0
  MaxDelay = 1
  MaxTime = 1
SYMMETRY Symmetry
SPECIFICATION EventSourcedSpec
INVARIANT EveryEventKeepsRosters
PROPERTY ImplementsAggregate
