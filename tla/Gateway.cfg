\* One instance, three calls, two ports, one slot.
CONSTANTS
    None = None
    Inst = {i1}
    Call = {c1, c2, c3}
    Port = {q1, q2}
    Slots = 1
SPECIFICATION Spec
SYMMETRY Symmetry
INVARIANTS
    TypeOK
    ReferencedCallReachesItsProcess
    NoConnectionLeft
    SlotsAccounted
PROPERTIES
    WarmDialSparesOthers
