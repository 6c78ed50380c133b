CONSTANTS
  w1 = w1
  w2 = w2
  Worker = {w1, w2}
  Root = {w2}
  Legal <- TheTrees
  Garbage <- Slips
  Behind <- Remains
  Table <- TheTable
  StoI <- Ints
  StoF <- Floats
  MaxStatements = 1
SPECIFICATION FairSpec
INVARIANTS TypeOK VerdictIsGrammar TreeIsStatement CarefulIsSafe RowIsStatement
PROPERTY ParseEnds
CHECK_DEADLOCK FALSE
