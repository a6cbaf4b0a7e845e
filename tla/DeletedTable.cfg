SPECIFICATION Spec
CONSTANTS
  SIZE = 3
  Keys = {3, 4, 6, 7}
  Slashes = 2
  EMPTY = EMPTY
  DELETED = DELETED
\* The table is of no use to anyone after a hang or a crash.
CHECK_DEADLOCK FALSE
INVARIANTS
  TypeOK
  SizeMatches
  Findable
  KeepsTheYoungest
  InsertReturns
