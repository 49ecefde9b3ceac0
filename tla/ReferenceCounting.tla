-------------------------- MODULE ReferenceCounting -------------------------
(***************************************************************************)
(* ReferenceCounted, RefCntReleaseScope and RetainedPointer of             *)
(* src/dart/bin/reference_counting.h, used by several threads.  A handle   *)
(* stands for one reference somebody has to give back: a raw pointer that  *)
(* was Retained, a release scope, a RetainedPointer, or a request on its   *)
(* way to the IO service, which was Retained for the thread that takes it. *)
(*                                                                         *)
(* A thread Retains only what it has a handle to; set() is called with a   *)
(* pointer the caller has a handle of its own to.                          *)
(***************************************************************************)
EXTENDS Integers, FiniteSets

CONSTANTS Threads, Objects, Handles, None, Queue

ASSUME ReferenceAssumption ==
    /\ None \notin Threads \cup Objects \cup Handles
    /\ Queue \notin Threads \cup {None}
    /\ IsFiniteSet(Handles)

VARIABLES
    count,      \* ref_count_
    memory,     \* "none", "live", "freed" or "twice" (deleted twice)
    target,     \* the object each handle refers to
    holder,     \* the thread that has the handle, Queue, or None
    dying,      \* the object each thread has seen old == 1 of
    assigning   \* the <<pointer, new value>> of a thread inside set()

vars == <<count, memory, target, holder, dying, assigning>>

HandlesTo(o) == {h \in Handles : target[h] = o}
Unused(h) == holder[h] = None
Has(t, h) == holder[h] = t /\ target[h] # None

\* Thread t is between two calls.
Free(t) == dying[t] = None /\ assigning[t] = <<>>

Init ==
    /\ count = [o \in Objects |-> 0]
    /\ memory = [o \in Objects |-> "none"]
    /\ target = [h \in Handles |-> None]
    /\ holder = [h \in Handles |-> None]
    /\ dying = [t \in Threads |-> None]
    /\ assigning = [t \in Threads |-> <<>>]

\* new: the count starts at 1 for whoever allocates.
New(t, o, h) ==
    /\ Free(t) /\ memory[o] = "none" /\ Unused(h)
    /\ memory' = [memory EXCEPT ![o] = "live"]
    /\ count' = [count EXCEPT ![o] = 1]
    /\ target' = [target EXCEPT ![h] = o]
    /\ holder' = [holder EXCEPT ![h] = t]
    /\ UNCHANGED <<dying, assigning>>

\* Retain, or a RetainedPointer made from a pointer.
Retain(t, h, new) ==
    /\ Free(t) /\ Has(t, h) /\ Unused(new)
    /\ count' = [count EXCEPT ![target[h]] = @ + 1]
    /\ target' = [target EXCEPT ![new] = target[h]]
    /\ holder' = [holder EXCEPT ![new] = t]
    /\ UNCHANGED <<memory, dying, assigning>>

\* MUTANT: the count is read again after the decrement, so that the last two
\* to let go may both find that they were the last.
Decrement_Late(t, o) ==
    /\ count' = [count EXCEPT ![o] = @ - 1]
    /\ dying' = [dying EXCEPT ![t] = IF count[o] <= 2 THEN o ELSE None]

\* The decrement of Release and its test, one atomic instruction.
Decrement(t, o) ==
    /\ count' = [count EXCEPT ![o] = @ - 1]
    /\ dying' = [dying EXCEPT ![t] = IF count[o] = 1 THEN o ELSE None]

\* MUTANT: one too early.
Release_TooEarly(t, h) ==
    /\ Free(t) /\ Has(t, h)
    /\ count' = [count EXCEPT ![target[h]] = @ - 1]
    /\ dying' = [dying EXCEPT ![t] =
                   IF count[target[h]] <= 2 THEN target[h] ELSE None]
    /\ target' = [target EXCEPT ![h] = None]
    /\ holder' = [holder EXCEPT ![h] = None]
    /\ UNCHANGED <<memory, assigning>>

\* Release, also at the end of a RefCntReleaseScope or a RetainedPointer.
Release(t, h) ==
    /\ Free(t) /\ Has(t, h)
    /\ Decrement(t, target[h])
    /\ target' = [target EXCEPT ![h] = None]
    /\ holder' = [holder EXCEPT ![h] = None]
    /\ UNCHANGED <<memory, assigning>>

\* `delete`, by the thread that saw the last reference go.
Destroy(t) ==
    /\ dying[t] # None
    /\ memory' = [memory EXCEPT ![dying[t]] =
                    IF @ = "live" THEN "freed" ELSE "twice"]
    /\ dying' = [dying EXCEPT ![t] = None]
    /\ UNCHANGED <<count, target, holder, assigning>>

\* MUTANT: the old target is overwritten and not released.
SetReleases_Forgets(t, pointer, h) ==
    /\ Free(t) /\ Has(t, h) /\ h # pointer /\ Has(t, pointer)
    /\ target' = [target EXCEPT ![pointer] = None]
    /\ assigning' = [assigning EXCEPT ![t] = <<pointer, h>>]
    /\ UNCHANGED <<count, memory, holder, dying>>

\* set(): the old target is released first, ...
SetReleases(t, pointer, h) ==
    /\ Free(t) /\ Has(t, h) /\ h # pointer /\ Has(t, pointer)
    /\ Decrement(t, target[pointer])
    /\ target' = [target EXCEPT ![pointer] = None]
    /\ assigning' = [assigning EXCEPT ![t] = <<pointer, h>>]
    /\ UNCHANGED <<memory, holder>>

\* MUTANT: the new target is stored and not retained.
SetRetains_Borrows(t) ==
    /\ assigning[t] # <<>> /\ dying[t] = None
    /\ target' = [target EXCEPT ![assigning[t][1]] = target[assigning[t][2]]]
    /\ assigning' = [assigning EXCEPT ![t] = <<>>]
    /\ UNCHANGED <<count, memory, holder, dying>>

\* ... then the new one is stored and retained.
SetRetains(t) ==
    /\ assigning[t] # <<>> /\ dying[t] = None
    /\ LET o == target[assigning[t][2]] IN
         /\ target' = [target EXCEPT ![assigning[t][1]] = o]
         /\ count' = [count EXCEPT ![o] = @ + 1]
    /\ assigning' = [assigning EXCEPT ![t] = <<>>]
    /\ UNCHANGED <<memory, holder, dying>>

\* A request takes its reference to another thread.
Send(t, h) ==
    /\ Free(t) /\ Has(t, h)
    /\ holder' = [holder EXCEPT ![h] = Queue]
    /\ UNCHANGED <<count, memory, target, dying, assigning>>

Receive(t, h) ==
    /\ Free(t) /\ holder[h] = Queue
    /\ holder' = [holder EXCEPT ![h] = t]
    /\ UNCHANGED <<count, memory, target, dying, assigning>>

Next ==
    \E t \in Threads :
        \/ Destroy(t)
        \/ SetRetains(t)
        \/ \E h \in Handles :
             \/ Release(t, h)
             \/ Send(t, h)
             \/ Receive(t, h)
             \/ \E o \in Objects : New(t, o, h)
             \/ \E h2 \in Handles : Retain(t, h, h2) \/ SetReleases(t, h, h2)

Spec == Init /\ [][Next]_vars

\* A thread inside Release or set() goes on.
FairSpec == Spec /\ \A t \in Threads : WF_vars(Destroy(t) \/ SetRetains(t))

-----------------------------------------------------------------------------
(* Properties.                                                             *)

TypeOK ==
    /\ count \in [Objects -> Nat]
    /\ memory \in [Objects -> {"none", "live", "freed", "twice"}]
    /\ target \in [Handles -> Objects \cup {None}]
    /\ holder \in [Handles -> Threads \cup {Queue, None}]
    /\ dying \in [Threads -> Objects \cup {None}]
    /\ assigning \in [Threads -> {<<>>} \cup (Handles \X Handles)]

\* ref_count_ is the number of references still to be given back, also while
\* other threads are half way through Release or set(), so Retain and
\* Release always find it positive (ASSERT, reference_counting.h:51, 56).
CountIsExact == \A o \in Objects : count[o] = Cardinality(HandlesTo(o))

\* Nobody has a reference to an object that was deleted, or that a thread
\* has decided to delete (reference_counting.h:54-60).
NoDanglingHandle ==
    \A h \in Handles : target[h] # None =>
        /\ memory[target[h]] = "live"
        /\ \A t \in Threads : dying[t] # target[h]

\* An object is deleted by one thread, once.
DeletedOnce ==
    /\ \A o \in Objects : memory[o] # "twice"
    /\ \A t, u \in Threads : dying[t] = dying[u] /\ dying[t] # None => t = u

Abstract == INSTANCE SharedObjects WITH
    users <- [o \in Objects |-> HandlesTo(o)],
    stage <- memory

\* To those who use it a reference count is a set of users: whatever threads
\* do between its atomic instructions, an object is handed on while somebody
\* has it, is deleted once, when nobody does, and does not come back
\* (Retain, Release and RetainedPointer::set, reference_counting.h:49-164).
RefinesSharedObjects == Abstract!Spec

\* An object nobody refers to any more is deleted.
UnreferencedIsDeleted ==
    \A o \in Objects : memory[o] = "live" /\ HandlesTo(o) = {} ~> memory[o] = "freed"

=============================================================================
