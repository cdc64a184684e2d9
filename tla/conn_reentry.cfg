SPECIFICATION Spec
CONSTANTS
    MaxCommands = 2
    MaxEvents = 1
    MaxStray = 0
    Versions = {0}
    ServerMayClose = FALSE
    ClientMayDispose = FALSE
CHECK_DEADLOCK FALSE
PROPERTY NotReentered
