SPECIFICATION Spec
CONSTANTS
    Main = main
    VMThreads = {t1, t2}
    Isolates = {i1, i2, i3}
    None = None
    Failing <- KernelRunnableOnly
    SpawnUri = FALSE
    Debug = TRUE
    VMTerminates = TRUE
SYMMETRY Symmetry
INVARIANT SuccessIsRunnable
