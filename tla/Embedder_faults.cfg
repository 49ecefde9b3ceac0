SPECIFICATION Spec
CONSTANTS
    Main = main
    VMThreads = {t1, t2, t3}
    Isolates = {i1, i2, i3, i4}
    None = None
    Failing <- AllCalls
    SpawnUri = TRUE
    Debug = FALSE
    VMTerminates = FALSE
SYMMETRY Symmetry
INVARIANT TypeOK
INVARIANT GroupOutlivesIsolates
INVARIANT NoDoubleDelete
INVARIANT OneThreadPerIsolate
