CONSTANTS
    Replies <- MCReplies
    RequestSize = 2
    MaxRecv = 20
    MaxShort = 1
SPECIFICATION FairSpec
INVARIANTS TypeOK WholeWhenHeaderWhole ChunkedToTheEnd BadGatewayMeansCut BrowserGetsPrefix
PROPERTIES ExchangeEnds
CHECK_DEADLOCK FALSE
