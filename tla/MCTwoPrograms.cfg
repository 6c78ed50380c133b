CONSTANTS
  p1 = p1
  p2 = p2
  Program = {p1, p2}
  Login <- RootAndUser
  Db = {"d"}
  BaseDb = "base_db"
  QueueIds <- OneId
  NoAnswer = NoAnswer
  MaxClients <- OneEach
  MaxStatements = 1
  MaxFailures = 0
SPECIFICATION Spec
INVARIANT OwnDatabase
CHECK_DEADLOCK FALSE
