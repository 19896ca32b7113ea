SPECIFICATION Spec
CONSTANTS
    QUEUE_LEN = 2
    Addr <- OneBlock
    Kinds <- PostSta1
    BusKeepsUp = TRUE
    ScanKeepsUp = TRUE
    MaxRequests = 2
    MaxNoise = 0
    MaxReboots = 1
PROPERTIES PostedConfigPersists
CHECK_DEADLOCK FALSE
