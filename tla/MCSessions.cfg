CONSTANTS
  Endpoint = {e1}
  Player = {p, q, admin}
  Caller = {p, q}
  Route = {"RegisterHost", "UnregisterHost", "Ping", "Join", "ReportLeave", "Leave"}
  Admin = {admin}
  DefaultAdmin = admin
  SessionId = {s1}
  Password = {}
  NoPassword = NoPassword
  MaxPlayers = {2}
  PingTimeout = 0
  JoinTimeout = 0
  Interval = 1
  MaxDelay = 1
  MaxTime = 1
  MaxMailbox = 1
  MaxInbox = 1
SYMMETRY Symmetry
SPECIFICATION ServerSpec
PROPERTIES EndedByRight NewcomersStay ImplementsMasterServer
