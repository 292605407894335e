CONSTANTS
    n1 = n1  n2 = n2  n3 = n3
    c1 = c1  c2 = c2
    Nodes = {n1, n2, n3}
    Cells = {c1, c2}
    Null = Null
SPECIFICATION FairSpec
INVARIANTS TypeOK ListsAgree HandlesAlive OwnersTold
PROPERTIES ToldOnce FinalizationEnds
