----------------------------- MODULE EmbedderMC -----------------------------
(* Instances of Embedder for TLC.                                          *)
EXTENDS Embedder, TLC

\* Names of isolates and of pool threads are interchangeable: they are
\* only compared with each other.
Symmetry == Permutations(Isolates) \cup Permutations(VMThreads)

\* Every call may fail.
AllCalls == Calls

\* The failures the code recovers from: no scope is left open and no isolate
\* that cannot be run is handed over.
HandledCalls ==
    Calls \ {"LoadScript", "ResolveScript", "KernelMakeRunnable"}

\* One call fails, or none.
NoCalls == {}
LoadScriptOnly == {"LoadScript"}
KernelRunnableOnly == {"KernelMakeRunnable"}
SetupOnly == {"SetupCoreLibraries"}

=============================================================================
