SPECIFICATION FairSpec
CONSTANTS
    Designations = {"a", "b"}
    Times = {0, 1, 2}
    ValueAt <- MCValueAt
    MaxMoves = 2
    MaxErrors = 1
CHECK_DEADLOCK FALSE
PROPERTY InvalidateChecked
