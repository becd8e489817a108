\* Three instances and a call, a pool of one.
CONSTANTS
    None = None
    Inst = {i1, i2, i3}
    Call = {c1}
    MaxWarm = 1
    Switching = {i1}
SPECIFICATION FairSpec
INVARIANTS
    TypeOK
PROPERTIES
    EvictsOldest
    PoolWithinLimit
    ScanEnds
