CONSTANTS
    MaxClients = 1
    MaxFd = 2
    MaxThreads = 1
SPECIFICATION FairSpec
PROPERTIES SendFailureCaught
CHECK_DEADLOCK FALSE
