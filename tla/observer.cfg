SPECIFICATION FairSpec
CONSTANTS
    Designations = {"a", "b"}
    Times = {0, 1, 2}
    ValueAt <- MCValueAt
    MaxMoves = 3
    MaxErrors = 1
CHECK_DEADLOCK FALSE
INVARIANTS TypeOK DisplayFresh SingleQuery
PROPERTIES ReferenceCurrent DisplayConverges
