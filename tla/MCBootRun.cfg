CONSTANTS
    t1 = t1
    t2 = t2
    launched = launched
    main = main
    Tasks <- MCTasks
    Starters <- MCStarters
    Stoppers <- MCStoppers
    Launched = launched
    Main = main
    AutoStopTimeout = FALSE
SPECIFICATION BootFairSpec
INVARIANT NilMeansStopped
INVARIANT UnaskedFailureReturned
INVARIANT BeforeStopFirst
PROPERTY ShutdownEnds
