SPECIFICATION Spec
CONSTANTS
    listener = listener
    replier = replier
    Callbacks <- MCCallbacks
    Repliers <- MCRepliers
    QUEUE_LEN = 2
    MaxEmits = 5
    MaxSubs = 3
INVARIANTS
    TypeOK
    QueueIsBacklog
PROPERTIES
    ImplementsBroadcast
\* Every event emitted and delivered: then the bus task waits for the next one.
CHECK_DEADLOCK FALSE
