\* A sync that enables what the operator disabled.
CONSTANTS
    None = None
    Proc = {p1, p2}
    Req = {}
    Faults = {}
SPECIFICATION Spec
SYMMETRY Symmetry
PROPERTY
    SyncKeepsOperatorStop
