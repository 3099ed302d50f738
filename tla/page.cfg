SPECIFICATION FairSpec
CONSTANTS
  s1 = s1
  s2 = s2
  Table = Table
  NoTab = NoTab
  Offline = Offline
  Sessions <- OneSession
  Lines = 2
  Backlog = 3
  MaxClosers = 2
  MaxRestarts = 1
INVARIANTS
  TypeOK
  ClosedHasNoSockets
  OpeningIsToldBeforeEnd
  OneSocketPerTab
PROPERTIES
  KeepsLifecycles
  GoneTabLeaves
  EndingLeaves
CHECK_DEADLOCK FALSE
