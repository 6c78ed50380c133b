CONSTANTS
  p1 = p1
  p2 = p2
  Program = {p1, p2}
  Login <- RootsAndUser
  Db = {"d"}
  BaseDb = "base_db"
  QueueIds <- TwoIds
  NoAnswer = NoAnswer
  MaxClients <- TwoAndOne
  MaxStatements = 1
  MaxFailures = 1
SPECIFICATION FairSpec
INVARIANTS TypeOK OwnDatabaseIfExclusive AnswersOwn Served HeldUpByDead CreatedIsThere
PROPERTY AllAnswered
CHECK_DEADLOCK FALSE
