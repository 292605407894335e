CONSTANTS
    m1 = m1  s1 = s1  s2 = s2
    a = a  b = b  c = c  d = d  e = e
    o1 = o1  o2 = o2
    Cells = {a, b, c, d, e}
    OpaqueRoots = {}
    Slaves = {s1, s2}
    Master = m1
    Heaps <- DiamondHeaps
    NumRootGroups = 2
    BlockCapacity = 1
    WakeupThreshold = 1
    MergeThreshold = 1
    MaxCollections = 2
SPECIFICATION Spec
INVARIANTS TypeOK GreyOnce NoLiveStorageInFromSpace
PROPERTIES ImplementsTracing
