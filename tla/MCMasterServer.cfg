CONSTANTS
  Endpoint = {"e1", "e2"}
  Player = {p, q, a}
  Admin = {a}
  SessionId = {s1, s2, s3}
  Password = {w}
  NoPassword = NoPassword
  MaxPlayers = {1, 3}
  PingTimeout = 0
  JoinTimeout = 0
  MaxDelay = 1
  MaxTime = 1
  Version <- MCVersion
  Private = {}
  Peer = {"e1", "e2"}
  Unknown = Unknown
  Distance <- MCDistance
  MaxListed = 1
SYMMETRY Symmetry
SPECIFICATION Spec
INVARIANTS TypeOK RosterConsistent WithinCapacity ShownHostsLetIn NoneNearerLeftOut
PROPERTY ImplementsLobby
