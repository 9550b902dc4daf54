CONSTANTS
    a = a
    b = b
    c1 = c1
    c2 = c2
    NoOne = NoOne
    Names <- MCNames
    Callers <- MCCallers
    Deadlines <- MCDeadlines
    MaxStarts = 2
SPECIFICATION FairSpec
INVARIANT ListedIsLive
INVARIANT CollectedWhenDone
PROPERTY NoAddWhileWaiting
PROPERTY AllStopped
PROPERTY StopAnswered
