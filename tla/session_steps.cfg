SPECIFICATION FairSpec
CONSTANTS
    SampleTimes = {0, 3, 4}
    MaxUi = 3
    MaxErrors = 0
    Overlap = FALSE
CHECK_DEADLOCK FALSE
INVARIANT NoRangeError
PROPERTIES StepIsAdjacent StepTerminates StatusConverges
