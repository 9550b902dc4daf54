CONSTANTS
    t1 = t1
    t2 = t2
    s1 = s1
    s2 = s2
    b1 = b1
    b2 = b2
    Topics <- MCTopics
    Subs <- MCSubs
    Broadcasters <- MCBroadcasters
    QueueSizes <- MCQueueSizes
    MaxMsgs = 2
SPECIFICATION FairSpec
CHECK_DEADLOCK FALSE
INVARIANT NoDoubleClose
INVARIANT Delivered
INVARIANT HandledInOrder
PROPERTY Settles
