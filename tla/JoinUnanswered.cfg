CONSTANTS
  Endpoint = {e1}
  Player = {p, q, admin}
  Caller = {p, q}
  Route = {"RegisterHost", "Join"}
  Admin = {admin}
  DefaultAdmin = admin
  SessionId = {s1}
  Password = {}
  NoPassword = NoPassword
  MaxPlayers = {1}
  PingTimeout = 1
  JoinTimeout = 1
  Interval = 1
  MaxDelay = 1
  MaxTime = 1
  MaxMailbox = 1
  MaxInbox = 1
SPECIFICATION ServerSpec
INVARIANT EveryRequestAnswered
