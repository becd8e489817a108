\* A call and the idle stopper.
CONSTANTS
    None = None
    Inst = {i1}
    Call = {c1}
    Port = {q1}
    Slots = 1
SPECIFICATION Spec
SYMMETRY Symmetry
PROPERTY
    LiveStreamNotIdledOut
