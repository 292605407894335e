CONSTANTS
    f1 = f1  f2 = f2
    Functions = {f1, f2}
    MaxBlocks = 3
    None = None
    Freed = Freed
    MaxDepth = 3
    MaxLinks = 1
    MaxReferences = 1
SPECIFICATION Spec
INVARIANTS TypeOK ExecutingCodeKept LinksCurrent SpeculationSound
SYMMETRY Symmetry
