------------------------------- MODULE Platform -------------------------------
(***************************************************************************)
(* Platform::GetResolvedExecutableName of src/dart/bin/platform.h, called  *)
(* by any thread at any time: a static that is tested, resolved and set    *)
(* without a lock.                                                         *)
(***************************************************************************)
EXTENDS FiniteSets, Integers

CONSTANTS
    Resolvers,   \* the threads
    Names,       \* BOUND: the strings StrDup may return
    NoName       \* NULL

ASSUME NamesAssumption ==
    NoName \notin Names /\ IsFiniteSet(Resolvers) /\ Resolvers # {}

VARIABLES
    resolved,    \* resolved_executable_name_
    at,          \* where each thread is in the call
    returned,    \* what each thread was given last
    copies       \* the names that were allocated; none is ever freed

platform == <<resolved, at, returned, copies>>

PlatformInit ==
    /\ resolved = NoName /\ copies = {}
    /\ at = [t \in Resolvers |-> "outside"]
    /\ returned = [t \in Resolvers |-> NoName]

\* MUTANT: the name is not tested.
FindName_Always(t) ==
    /\ at[t] = "outside"
    /\ at' = [at EXCEPT ![t] = "resolving"]
    /\ UNCHANGED <<resolved, returned, copies>>

\* The test.
FindName(t) ==
    /\ at[t] = "outside"
    /\ at' = [at EXCEPT ![t] =
                IF resolved = NoName THEN "resolving" ELSE "returning"]
    /\ UNCHANGED <<resolved, returned, copies>>

\* ResolveExecutablePath found a path, which is copied.
StoreName(t, name) ==
    /\ at[t] = "resolving" /\ name \notin copies
    /\ resolved' = name
    /\ copies' = copies \cup {name}
    /\ at' = [at EXCEPT ![t] = "returning"]
    /\ UNCHANGED returned

\* It found none.
NoPath(t) ==
    /\ at[t] = "resolving"
    /\ at' = [at EXCEPT ![t] = "returning"]
    /\ UNCHANGED <<resolved, returned, copies>>

\* What is returned is read again.
ReturnName(t) ==
    /\ at[t] = "returning"
    /\ returned' = [returned EXCEPT ![t] = resolved]
    /\ at' = [at EXCEPT ![t] = "outside"]
    /\ UNCHANGED <<resolved, copies>>

PlatformNext ==
    \E t \in Resolvers : \/ FindName(t) \/ NoPath(t) \/ ReturnName(t)
                         \/ \E name \in Names : StoreName(t, name)

PlatformSpec == PlatformInit /\ [][PlatformNext]_platform

-----------------------------------------------------------------------------
(* Properties.                                                             *)

\* Threads that race to resolve the name lose at most one name less than
\* there are threads, however often they ask and however often no path is
\* found, and what they were given is one of those names for good.
RaceLosesFew ==
    /\ Cardinality(copies \ {resolved}) < Cardinality(Resolvers)
    /\ \A t \in Resolvers : returned[t] \in copies \cup {NoName}

=============================================================================
