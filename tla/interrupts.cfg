SPECIFICATION Spec
CONSTANT MaxSignals = 4
INVARIANTS
    LoopSurvives
    StdoutIsOwn
    OnlyAnInterruptLeavesTests
    BoundaryEnds
PROPERTY
    EndedIsAnswered
CHECK_DEADLOCK FALSE
