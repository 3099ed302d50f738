SPECIFICATION PolicySpec
CONSTANTS
  Targets = {"container", "remote", "production"}
  MaxOwners = 4
INVARIANTS
  ProductionRightIsHuman
  GrantNamesItsSource
  ContainerGrantNeedsSwitch
