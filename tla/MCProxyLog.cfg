CONSTANTS
    t1 = t1
    t2 = t2
    Mixed = Mixed
    Threads <- MCThreads
    Zone = 3
    Dates = {7}
    Ages = {2}
    MaxTime = 1
    MaxLines = 2
SPECIFICATION FairSpec
INVARIANTS TypeOK RightWhenAlone LinesWhole
PROPERTIES LineWritten
CHECK_DEADLOCK FALSE
