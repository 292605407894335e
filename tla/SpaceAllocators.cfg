CONSTANTS
    b1 = b1  b2 = b2
    Blocks = {b1, b2}
    NoBlock = NoBlock
    Nobody = Nobody
    Allocators = {"plain", "destructor"}
    Destructing = {"destructor"}
    CellsPerBlock = 2
SPECIFICATION Spec
INVARIANTS TypeOK BlockAssertions HeldCellsKept DestroyedOnce DestructorsRun
PROPERTIES ImplementsCellAllocator
CHECK_DEADLOCK FALSE
