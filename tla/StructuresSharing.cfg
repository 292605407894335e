CONSTANTS
    Objects = {o1, o2}
    Reshaped = {o1}
    Keys = {x, y, z}
    Methods = {x}
    Functions = {f, g}
    Primitive = Primitive
    None = None
    Undefined = Undefined
    MaxTransitionLength = 1
    MaxThrashCount = 2
    Reprototyped = {}
    MaxStructures = 3
    MaxCaches = 0
SPECIFICATION Spec
INVARIANTS LookupCorrect
SYMMETRY Symmetry
VIEW View
