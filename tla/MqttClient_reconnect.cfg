SPECIFICATION Spec
CONSTANTS
    QUEUE_LEN = 2
    Topics <- OneTopic
    QueueLen = 1
    MaxLinks = 2
    MaxMessages = 2
    MaxPublished = 1
INVARIANTS ResubscribedAfterReconnect
CHECK_DEADLOCK FALSE
