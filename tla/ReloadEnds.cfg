CONSTANTS
  Request = {r1}
  Reader = {d1, d2, d3}
  Build = {whole, unreadable}
  Loadable = {whole}
  NoFile = NoFile
  Partial = Partial
  NoReader = NoReader
  MaxRetries = 2
SPECIFICATION FairSpec
PROPERTY ReloadGoesOn
\* A server whose database file cannot be loaded does not start.
CHECK_DEADLOCK FALSE
