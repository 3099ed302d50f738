SPECIFICATION ProductionSpec
CONSTANTS
  c1 = c1
  c2 = c2
  c3 = c3
  opener = opener
  none = none
  Calls <- ThreeCalls
  Opener <- opener
  NoCall <- none
  Oversize <- CodeKinds
  Targets <- OnlyProduction
  MaxOwners = 1
  Menu <- MenuTransaction
  Autoclose = FALSE
  PolicyMoves = TRUE
SYMMETRY AnyOrder
INVARIANTS
  
  ReadyIsRecorded
  PendingCoversTx
  CommitRecordIsTrue
PROPERTIES
  GrantDiesWithItsCommit
CHECK_DEADLOCK FALSE
