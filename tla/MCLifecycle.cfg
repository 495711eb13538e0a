CONSTANTS
    MaxClients = 3
    MaxFd = 2
    MaxThreads = 2
SPECIFICATION FairSpec
INVARIANTS TypeOK Accounted NoForeignAnswer
PROPERTIES Served
CHECK_DEADLOCK FALSE
