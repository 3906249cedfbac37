CONSTANTS
  Request = {r1, r2}
  Header <- MCHeader
  Remote = {"steam", "itch"}
  CacheTimeout = 2
  MaxVerify = 1
  MaxTime = 4
SYMMETRY Symmetry
SPECIFICATION Spec
INVARIANT TypeOK
PROPERTY LoginsAreRecent
