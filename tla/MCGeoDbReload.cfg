CONSTANTS
  Request = {r1, r2, r3}
  Reader = {d1, d2, d3, d4, d5}
  Build = {whole, unreadable}
  Loadable = {whole}
  NoFile = NoFile
  Partial = Partial
  NoReader = NoReader
  MaxRetries = 3
SYMMETRY Symmetry
SPECIFICATION Spec
INVARIANTS TypeOK CrashLeavesGoodFile CurrentStaysOpen NoDatabaseLeaks
\* A server whose database file cannot be loaded does not start.
CHECK_DEADLOCK FALSE
