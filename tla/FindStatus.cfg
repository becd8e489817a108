CONSTANTS
    MaxMsg = 2
    Window = 1
CHECK_DEADLOCK FALSE
SPECIFICATION Spec
INVARIANT
    StatusFaithful
