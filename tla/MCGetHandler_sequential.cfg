CONSTANTS
    k1 = k1
    k2 = k2
    n1 = n1
    t1 = t1
    t2 = t2
    NULL = NULL
    NoBody = NoBody
    Torn = Torn
    Keys <- MCKeys
    Nodes <- MCNodes
    Capacity = 1
    NoTag = 0
    Tags = {0, 1, 2}
    Bodies <- MCBodies
    Threads <- MCThreads1
    Kinds <- Unconditional
    MaxVersion = 2
    Heads = {"open", "revalidate"}
    Forbidden = {}
    MustRevalid = {"revalidate"}
    TagsSent = {TRUE, FALSE}
    ChunksSent = {TRUE, FALSE}
    Cuts = TRUE
    OtherStatus = {"other"}
SPECIFICATION FairSpec
INVARIANTS TypeOK TagsNotAhead RevalidatedIsCurrent ValidatedBeforeServed
PROPERTIES EventuallyClosed
CHECK_DEADLOCK FALSE
