SPECIFICATION Spec
CONSTANTS
    MaxCommands = 2
    MaxEvents = 1
    MaxStray = 1
    Versions = {0, 1}
    ServerMayClose = TRUE
    ClientMayDispose = TRUE
CHECK_DEADLOCK FALSE
INVARIANTS TypeOK NoOrphan DisconnectedSettlesAll CalmReplyMatches ElapsedIsOwn
PROPERTY SettledInOrder
