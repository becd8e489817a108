\* Every fault, and imports that change the service's mode under the instance.
CONSTANTS
    None = None
    Proc = {p1, p2}
    Req = {r1}
    Faults = {"stop", "caller", "early", "spawn", "health", "crash", "import"}
SPECIFICATION Spec
SYMMETRY Symmetry
INVARIANTS
    NoStrayProcess
    ParkRespectsRefs
PROPERTIES
    StopBeatsReload
