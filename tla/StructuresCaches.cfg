CONSTANTS
    Objects = {o1, o2}
    Reshaped = {o1}
    Keys = {x, y}
    Methods = {x}
    Functions = {f}
    Primitive = Primitive
    None = None
    Undefined = Undefined
    MaxTransitionLength = 0
    MaxThrashCount = 1
    Reprototyped = {}
    MaxStructures = 3
    MaxCaches = 2
SPECIFICATION Spec
INVARIANTS LookupCorrect CachesTruthful
SYMMETRY Symmetry
VIEW View
