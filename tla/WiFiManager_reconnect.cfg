SPECIFICATION Spec
CONSTANTS
    Configs <- OneNetwork
    Empty <- NoSsid
    MAX_RETRY_PER_NETWORK = 3
    MaxLosses = 5
    MaxPosts = 0
INVARIANTS TriesToReconnect
CHECK_DEADLOCK FALSE
