SPECIFICATION FairSpec
CONSTANTS
  c1 = c1
  c2 = c2
  c3 = c3
  opener = opener
  none = none
  Calls <- TwoCalls
  Opener <- opener
  NoCall <- none
  Oversize <- NoKinds
  Targets <- OnlyContainer
  MaxOwners = 1
  Menu <- MenuEnding
  Autoclose = FALSE
  PolicyMoves = FALSE
PROPERTIES
  
  
  DeathIsSeen
CHECK_DEADLOCK FALSE
