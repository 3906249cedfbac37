CONSTANTS
  Endpoint = {e1}
  Player = {p, q, admin}
  Caller = {p, q}
  Route = {"RegisterHost", "UnregisterHost", "Ping"}
  Admin = {admin}
  DefaultAdmin = admin
  SessionId = {}
  Password = {}
  NoPassword = NoPassword
  MaxPlayers = {2}
  PingTimeout = 1
  JoinTimeout = 1
  Interval = 1
  MaxDelay = 1
  MaxTime = 2
  MaxMailbox = 1
  MaxInbox = 1
SPECIFICATION FairServerSpec
INVARIANTS ServerTypeOK TimersFollowHosts
PROPERTIES HeardHostsStay OverdueHostGoes
