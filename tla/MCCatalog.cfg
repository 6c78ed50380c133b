CONSTANTS
  Session = {k1, k2}
  Definition <- Definitions
  Default <- DefaultDefinition
  HeaderSpace = 8
  AddressSize = 1
  MaxCreates = 3
  MaxCrashes = 1
SPECIFICATION FairSpec
INVARIANTS TypeOK CachesAgree ColumnsOwnBlocks CreatedIsFound
PROPERTIES IsDirectory CreatesEnd
CHECK_DEADLOCK FALSE
