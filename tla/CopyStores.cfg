CONSTANTS
    b1 = b1  b2 = b2
    s1 = s1  s2 = s2
    Blocks = {b1, b2}
    NoBlock = NoBlock
    Stores = {s1, s2}
    Sizes = {1, 2, 3}
    MaxAllocation = 2
    Capacity = 4
    SizeRange = 16
    MinPerCycle = 2
    AssertionsEnabled = TRUE
    MaxObjects = 1
SYMMETRY Symmetry
SPECIFICATION Spec
INVARIANTS TypeOK LiveStoresDisjoint SetBlocksOwned CurrentBlockOwned
CHECK_DEADLOCK FALSE
