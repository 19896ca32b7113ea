SPECIFICATION Spec
CONSTANTS
    Configs <- Lists
    Empty <- NoSsid
    MAX_RETRY_PER_NETWORK = 3
    MaxLosses = 3
    MaxPosts = 1
INVARIANTS TypeOK NoStall EveryNetworkTried
PROPERTIES Settles
CHECK_DEADLOCK FALSE
