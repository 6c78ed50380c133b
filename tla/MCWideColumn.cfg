CONSTANTS
  Client = {k1}
  Columns = 2
  Space = 4
  Size <- Wide
  Alone = TRUE
  MaxRows = 3
  MaxCrashes = 0
SPECIFICATION Spec
INVARIANT RecordsWhole
