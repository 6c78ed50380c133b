CONSTANTS
  t1 = t1
  t2 = t2
  t3 = t3
  fa = fa
  fb = fb
  NoThread = NoThread
  Thread = {t1, t2, t3}
  File = {fa}
  Work <- SharedByThree
  Creates = {}
  SlotAmount = 2
  MaxFailTimes = 3
  GarbageInUse = {FALSE}
  GarbageUsers = {0}
  GarbageFailures = {0, 2}
  StoredBlocks = 3
  MaxBlock = 3
  MaxVersion = 0
SPECIFICATION Spec
INVARIANTS OneBlockPerSlot MutualExclusion
SYMMETRY Symmetry
CHECK_DEADLOCK FALSE
