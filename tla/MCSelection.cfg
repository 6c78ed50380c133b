CONSTANTS
  Columns = 2
  Statements <- Queries
  NewRows <- Rows
  BlockRows = 2
  MaxRows = 4
SPECIFICATION Spec
INVARIANTS TypeOK AnswerIsSelection RowsOfTheTable
CHECK_DEADLOCK FALSE
