SPECIFICATION Spec
CONSTANTS
    Characters = {a, b}
    NUL = NUL
    MaxLength = 6
CHECK_DEADLOCK FALSE
INVARIANTS Synchronized
