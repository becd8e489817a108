\* One instance, every fault, no import: three processes, one request.
CONSTANTS
    None = None
    Proc = {p1, p2, p3}
    Req = {r1}
    Faults = {"stop", "caller", "early", "spawn", "health", "crash"}
SPECIFICATION HistorySpec
SYMMETRY Symmetry
INVARIANTS
    TypeOK
    SingleProcess
    RowDescribesTracked
    NoTimerOverLive
    NoDeadPid
PROPERTIES
    StopWins
    OnDemandLanded
    CleanShutdown
    IsServedInstance
