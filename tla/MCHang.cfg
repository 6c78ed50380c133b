CONSTANTS
  t1 = t1
  t2 = t2
  t3 = t3
  fa = fa
  fb = fb
  NoThread = NoThread
  Thread = {t1, t2}
  File = {fa}
  Work <- SharedFile
  Creates = {}
  SlotAmount = 2
  MaxFailTimes = 3
  GarbageInUse = {FALSE}
  GarbageUsers = {0}
  GarbageFailures = {0}
  StoredBlocks = 1
  MaxBlock = 2
  MaxVersion = 0
SPECIFICATION FairSpec
PROPERTY EverythingReleased
