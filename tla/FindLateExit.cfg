\* An on-demand row over which the exit watcher of an earlier process writes.
CONSTANTS
    None = None
    Proc = {p1, p2}
    Req = {}
    Faults = {}
SPECIFICATION Spec
SYMMETRY Symmetry
INVARIANT
    OnDemandRowServes
