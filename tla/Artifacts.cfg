\* One daemon, two services, crashes and failed imports at every step.
CONSTANTS
    None = None
    Work = Work
    p1 = p1
    p2 = p2
    p3 = p3
    t1 = t1
    t2 = t2
    d1 = d1
    Service = {s1, s2}
    Package <- Packages
    Descriptor <- Descriptors
    DescriptorOf <- Descriptions
    Tree <- Trees
    TreeOf <- TreesOf
    Daemon = {d1}
    Faults = {"crash", "fail"}
SPECIFICATION Spec
SYMMETRY Symmetry
INVARIANTS
    TypeOK
    VersionOnDisk
    RowServed
    LinksHold
PROPERTIES
    ImportIsAtomic
