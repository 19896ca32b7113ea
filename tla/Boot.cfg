SPECIFICATION Spec
CONSTANTS
    QUEUE_LEN = 4
    Orders <- CameraOrders
    CameraTUs <- TwoTUs
    SD = TRUE
    CAMERA = TRUE
    MaxGotIp = 2
    MaxNoise = 1
INVARIANTS
    TypeOK
    StartupOrder
    OnceOnly
    NoBootEventDropped
PROPERTIES
    ServicesComeUp
    NextEventStartsStream
\* The device comes up and then waits for the network; a failed mount ends it.
CHECK_DEADLOCK FALSE
