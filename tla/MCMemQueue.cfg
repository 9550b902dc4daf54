CONSTANTS
    t1 = t1
    t2 = t2
    c1 = c1
    c2 = c2
    c3 = c3
    Topics <- MCTopics
    Clients <- MCClients
    QueueSizes <- MCQueueSizes
    MaxMsgs = 2
SPECIFICATION FairSpec
INVARIANT NothingLost
INVARIANT InOrder
PROPERTY PurgeRemoves
PROPERTY OneLinePerTopic
PROPERTY CloseReleases
