CONSTANTS
    k1 = k1
    k2 = k2
    n1 = n1
    n2 = n2
    n3 = n3
    t1 = t1
    t2 = t2
    NULL = NULL
    Keys <- MCKeys
    Nodes <- MCNodes
    Capacity = 2
    Tags = {0}
    NoTag = 0
    Heads = {1}
    Bodies = {0}
    Threads <- MCThreads
SPECIFICATION RaceSpec
SYMMETRY SymThreads
INVARIANT NodesPerTarget
CHECK_DEADLOCK FALSE
