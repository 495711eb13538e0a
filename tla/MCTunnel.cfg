CONSTANTS
    MaxSaid = 3
    MaxRecv = 2
    Room = 1
    MaxWait = 2
SPECIFICATION FairSpec
INVARIANTS TypeOK RelaysInOrder LastWordsArrive
PROPERTIES TunnelEnds
CHECK_DEADLOCK FALSE
