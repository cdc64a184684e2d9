SPECIFICATION FairSidebarSpec
CONSTANTS
    MaxAttempts = 2
    Design <- MCDesign
    WatchList <- MCWatchList
    MaxExpands = 3
    MaxErrors = 1
CHECK_DEADLOCK FALSE
INVARIANTS TypeOK StatusAgrees OneAttempt ViewsFollow TreeIsDesign TreeFollows
PROPERTIES StartResolves TasksEnd HierarchyAppears
