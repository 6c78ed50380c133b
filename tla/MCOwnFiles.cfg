CONSTANTS
  t1 = t1
  t2 = t2
  t3 = t3
  fa = fa
  fb = fb
  NoThread = NoThread
  Thread = {t1, t2}
  File = {fa, fb}
  Work <- OwnFiles
  Creates = {fa, fb}
  SlotAmount = 2
  MaxFailTimes = 3
  GarbageInUse = {FALSE, TRUE}
  GarbageUsers = {0, 1}
  GarbageFailures = {0, 2}
  StoredBlocks = 1
  MaxBlock = 2
  MaxVersion = 1
SPECIFICATION Spec
INVARIANTS TypeOK ReleaseFindsItsBlock CoherentView DurableBlocks
PROPERTY FlushedNeverLost
