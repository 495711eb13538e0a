CONSTANTS
    k1 = k1
    k2 = k2
    k3 = k3
    k4 = k4
    n1 = n1
    n2 = n2
    n3 = n3
    n4 = n4
    NULL = NULL
    Keys <- MCKeys4
    Nodes <- MCNodes4
    Capacity = 3
    Tags = {0, 1, 2}
    NoTag = 0
    Heads = {1, 2}
    Bodies = {0, 1}
    Responses <- MCResponses
    MaxPuts = 6
    MaxTime = 1
SYMMETRY Sym4
SPECIFICATION Spec
INVARIANTS TypeOK WellFormed NoFault ListInPutOrder
PROPERTIES ImplementsLru
CHECK_DEADLOCK FALSE
