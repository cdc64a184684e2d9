SPECIFICATION Spec
CONSTANTS
    SampleTimes = {0, 2, 3}
    MaxUi = 3
    MaxErrors = 1
    Overlap = TRUE
CHECK_DEADLOCK FALSE
INVARIANTS TypeOK CursorInRange PollerAlive NextIsNext
