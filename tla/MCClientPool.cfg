CONSTANTS
  Call = {c1, c2}
  Size = 2
  Token = {t1, t2}
  HeaderSlots = 8
SPECIFICATION FairSpec
INVARIANTS TypeOK OnePlaceEach CarriesOwnHeaders
PROPERTY EveryCallAnswered
