CONSTANTS
    b1 = b1  b2 = b2
    Blocks = {b1, b2}
    NoBlock = NoBlock
    Nobody = Nobody
    Allocators = {"plain", "destructor"}
    Destructing = {"destructor"}
    CellsPerBlock = 2
SPECIFICATION Spec
INVARIANT RunningFunctionsFound
CHECK_DEADLOCK FALSE
