SPECIFICATION FairCalmSpec
CONSTANTS
    MaxCommands = 2
    MaxEvents = 1
    MaxStray = 0
    Versions = {0, 1}
    ServerMayClose = TRUE
    ClientMayDispose = TRUE
CHECK_DEADLOCK FALSE
PROPERTIES ImplementsQueue EveryCommandSettles
