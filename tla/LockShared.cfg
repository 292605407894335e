CONSTANTS
    t1 = t1  t2 = t2  t3 = t3
    Threads = {t1, t2, t3}
    NoThread = NoThread
    Contexts = {"shared"}
    AssertionsEnabled = TRUE
    Width = 16
    MaxNesting = 4
    MaxCalls = 8
SYMMETRY Symmetry
SPECIFICATION Spec
INVARIANTS StackIntact AtMostTwoThreads
