CONSTANTS
  Impatient = {"Join"}
  Endpoint = {e1}
  FirstHost = p
  Guest = q
  NextHost = r
  Player = {p, q, r}
  Caller = {p, q, r}
  Admin = {r}
  Request = {r1, r2}
  Route <- Roles
  Nobody = Nobody
  SessionId = {s1}
  Password = {}
  NoPassword = NoPassword
  MaxPlayers = {1, 2}
  PingTimeout = 0
  JoinTimeout = 0
  MaxDelay = 1
  MaxTime = 1
SPECIFICATION FairApiSpec
INVARIANTS ApiTypeOK AnswersKeepUp SecretsKept JoinVerified AnsweredFirst
PROPERTY UntoldSessionsGo
