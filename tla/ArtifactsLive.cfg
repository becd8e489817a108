\* Every fault, one service: removals cut short, deletes that race imports.
CONSTANTS
    None = None
    Work = Work
    p1 = p1
    p2 = p2
    p3 = p3
    t1 = t1
    t2 = t2
    d1 = d1
    Service = {s1}
    Package <- Packages
    Descriptor <- Descriptors
    DescriptorOf <- Descriptions
    Tree <- Trees
    TreeOf <- TreesOf
    Daemon = {d1}
    Faults = {"crash", "fail", "torn", "race"}
SPECIFICATION FairSpec
INVARIANTS
    NoBackupLeft
PROPERTIES
    ImportLockReleased
