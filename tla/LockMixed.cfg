CONSTANTS
    t1 = t1  t2 = t2  t3 = t3
    Threads = {t1, t2}
    NoThread = NoThread
    Contexts = {"shared", "private"}
    AssertionsEnabled = FALSE
    Width = 16
    MaxNesting = 4
    MaxCalls = 6
SPECIFICATION FairSpec
INVARIANTS ExecutingOwnsMutex TableFollowsContext
PROPERTIES EveryCallReturns
