SPECIFICATION Spec
CONSTANTS
    QUEUE_LEN = 2
    Topics <- OneTopic
    QueueLen = 1
    MaxLinks = 2
    MaxMessages = 2
    MaxPublished = 2
INVARIANTS TypeOK InitBeforeUse ConnectedIsTrue FirstSessionSubscribed
PROPERTIES EveryTaskGetsOn AnnouncesItself
CHECK_DEADLOCK FALSE
