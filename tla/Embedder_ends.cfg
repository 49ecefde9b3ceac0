SPECIFICATION FairSpec
CONSTANTS
    Main = main
    VMThreads = {t1, t2}
    Isolates = {i1, i2, i3}
    None = None
    Failing <- HandledCalls
    SpawnUri = FALSE
    Debug = TRUE
    VMTerminates = TRUE
INVARIANT ScopesBalanced
INVARIANT NothingLeaks
PROPERTY Termination
