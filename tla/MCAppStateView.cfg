CONSTANTS
  Page = {p1}
  Get = {g1}
  Room = 2
  Nothing = Nothing
  MaxPublished = 4
SPECIFICATION Spec
INVARIANTS TypeOK NewestLast
PROPERTIES NewestIsShown GetsAreAnswered
