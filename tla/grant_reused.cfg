SPECIFICATION Spec
CONSTANTS
  c1 = c1
  c2 = c2
  c3 = c3
  opener = opener
  none = none
  Calls <- TwoCalls
  Opener <- opener
  NoCall <- none
  Oversize <- NoKinds
  Targets <- OnlyProduction
  MaxOwners = 1
  Menu <- MenuCommit
  Autoclose = FALSE
  PolicyMoves = TRUE
PROPERTIES
  GrantIsForOneCommit
CHECK_DEADLOCK FALSE
