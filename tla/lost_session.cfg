SPECIFICATION Spec
CONSTANT MaxSignals = 1
INVARIANT CommandsNeverEndTheLoop
CHECK_DEADLOCK FALSE
