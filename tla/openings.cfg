SPECIFICATION Spec
CONSTANTS
    Builds <- TwoBuilds
    Names <- TwoBuilds
    Fold <- SameCase
    Ids = {"s1"}
    KeyOf <- RecipeKeys
    Containers = {"c1"}
    MaxCards = 2
    Openers = {o1}
    BuildStage <- EachSays
    Asks <- SomeAsks
INVARIANTS
    RightNeedsTheSwitch
    OptedOutStaysOut
    StricterStageWins
    NamesOneCard
CHECK_DEADLOCK FALSE
