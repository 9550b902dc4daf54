CONSTANTS
    t1 = t1
    t2 = t2
    s1 = s1
    s2 = s2
    p1 = p1
    p2 = p2
    Tasks <- MCTasks
    Starters <- MCStarters
    Stoppers <- MCOneStopper
    AutoStopTimeout = TRUE
SPECIFICATION Spec
INVARIANT TestCancelStopsTasks
