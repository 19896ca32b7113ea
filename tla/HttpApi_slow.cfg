SPECIFICATION Spec
CONSTANTS
    QUEUE_LEN = 2
    Addr <- TwoBlocks
    Kinds <- Station
    BusKeepsUp = FALSE
    ScanKeepsUp = FALSE
    MaxRequests = 3
    MaxNoise = 1
    MaxReboots = 1
INVARIANTS QueuesOwned OkIsOwnAnswer
PROPERTIES PostsInOrder NobodyWaitsForEver
CHECK_DEADLOCK FALSE
