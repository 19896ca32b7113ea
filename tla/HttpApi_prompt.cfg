SPECIFICATION Spec
CONSTANTS
    QUEUE_LEN = 2
    Addr <- TwoBlocks
    Kinds <- AllEndpoints
    BusKeepsUp = TRUE
    ScanKeepsUp = TRUE
    MaxRequests = 3
    MaxNoise = 2
    MaxReboots = 1
INVARIANTS TypeOK ReadYourWrites
PROPERTIES ImplementsService
CHECK_DEADLOCK FALSE
