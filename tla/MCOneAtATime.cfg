CONSTANTS
  Client = {k1, k2}
  Columns = 2
  Space = 3
  Size <- Numbers
  Alone = TRUE
  MaxRows = 5
  MaxCrashes = 0
SPECIFICATION FairSpec
INVARIANTS TypeOK RecordsWhole
PROPERTIES IsTable StatementsEnd
