\* Liveness under fair scheduling, with a daemon that may die at any time.
CONSTANTS
    None = None
    Proc = {p1, p2, p3, p4}
    Req = {}
    Faults = {"crash"}
SPECIFICATION FairSpec
INVARIANTS
    NoLostRestart
PROPERTIES
    GateReleased
    CrashIsRetried
    StaleRepaired
    OrphansDie
    ShutdownCompletes
