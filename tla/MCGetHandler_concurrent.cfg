CONSTANTS
    k1 = k1
    k2 = k2
    n1 = n1
    t1 = t1
    t2 = t2
    NULL = NULL
    NoBody = NoBody
    Torn = Torn
    Keys <- MCKeys
    Nodes <- MCNodes
    Capacity = 1
    NoTag = 0
    Tags = {0, 1, 2}
    Bodies <- MCBodies
    Threads <- MCThreads2
    Kinds <- PlainOrByETag
    MaxVersion = 2
    Heads = {"open", "private"}
    Forbidden = {"private"}
    MustRevalid = {}
    TagsSent = {TRUE}
    ChunksSent = {TRUE, FALSE}
    Cuts = FALSE
    OtherStatus = {"400"}
SPECIFICATION Spec
SYMMETRY SymThreadsKeys
INVARIANTS NoForbiddenStored AnswersOwnTarget AnsweredOnce
CHECK_DEADLOCK FALSE
