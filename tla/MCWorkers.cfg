CONSTANTS
  Client = {k1, k2}
  Columns = 2
  Space = 3
  Size <- Strings
  Alone = FALSE
  MaxRows = 4
  MaxCrashes = 1
SPECIFICATION Spec
INVARIANTS BlocksFit BlocksOfOneColumnUntilCrash NoValueLost ScansComplete
CHECK_DEADLOCK FALSE
