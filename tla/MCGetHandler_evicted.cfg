CONSTANTS
    k1 = k1
    k2 = k2
    n1 = n1
    t1 = t1
    t2 = t2
    NULL = NULL
    NoBody = NoBody
    Torn = Torn
    Keys <- MCKeys
    Nodes <- MCNodes
    Capacity = 1
    NoTag = 0
    Tags = {0, 1}
    Bodies <- MCBodies
    Threads <- MCThreads2
    Kinds <- PlainOrByETag
    MaxVersion = 1
    Heads = {"open"}
    Forbidden = {}
    MustRevalid = {}
    TagsSent = {TRUE}
    ChunksSent = {FALSE}
    Cuts = FALSE
    OtherStatus = {}
SPECIFICATION Spec
INVARIANT StaleIsCached
CHECK_DEADLOCK FALSE
