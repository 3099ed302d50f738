SPECIFICATION Spec
CONSTANTS
  c1 = c1
  c2 = c2
  c3 = c3
  opener = opener
  none = none
  Calls <- TwoCalls
  Opener <- opener
  NoCall <- none
  Oversize <- CodeKinds
  Targets <- OnlyContainer
  MaxOwners = 2
  Menu <- MenuAll
  Autoclose = TRUE
  PolicyMoves = FALSE
SYMMETRY AnyOrder
INVARIANTS
  TypeOK
  BusyNamesTheWork
  AnnouncedAfterVerdict
PROPERTIES
  ImplementsLifecycle
CHECK_DEADLOCK FALSE
