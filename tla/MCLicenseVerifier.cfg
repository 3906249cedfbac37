CONSTANTS
  Verification = {v1}
  User = {"u", "v"}
  NoUser = NoUser
  Secret = {"ticket", "key", "nonce"}
  Account <- MCAccount
  Credential <- MCCredential
SPECIFICATION FairSpec
INVARIANT TypeOK
PROPERTIES OnlyTheEntitled EveryVerificationEnds
