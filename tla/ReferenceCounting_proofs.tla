---------------------- MODULE ReferenceCounting_proofs ----------------------
(***************************************************************************)
(* The reference counts are right for any number of threads, objects and   *)
(* handles.  The argument: a thread that has decided to delete an object   *)
(* saw the last handle to it go, so nobody can Retain it again.            *)
(***************************************************************************)
EXTENDS ReferenceCounting, FiniteSetTheorems, TLAPS

\* Only what somebody holds refers to an object.
TargetIsHeld == \A h \in Handles : target[h] # None => holder[h] # None

\* A thread that deletes an object is the only one, and the object is there.
DyingIsLive ==
    \A t \in Threads : dying[t] # None =>
        /\ memory[dying[t]] = "live"
        /\ \A u \in Threads : dying[u] = dying[t] => u = t

\* Inside set() the thread has both pointers, the first of them cleared.
AssigningIsHeld ==
    \A t \in Threads : assigning[t] # <<>> =>
        LET p == assigning[t][1]
            h == assigning[t][2]
        IN /\ assigning[t] = <<p, h>>
           /\ p \in Handles /\ h \in Handles
           /\ holder[p] = t /\ target[p] = None
           /\ holder[h] = t /\ target[h] # None

NeverTwice == \A o \in Objects : memory[o] # "twice"

IInv ==
    /\ TypeOK
    /\ CountIsExact
    /\ NoDanglingHandle
    /\ TargetIsHeld
    /\ DyingIsLive
    /\ AssigningIsHeld
    /\ NeverTwice

-----------------------------------------------------------------------------
\* A handle that comes to refer to an object adds one to its handles.
LEMMA HandleAdded ==
    ASSUME TypeOK, CountIsExact, NEW h \in Handles, NEW o \in Objects,
           target[h] = None,
           target' = [target EXCEPT ![h] = o],
           count' = [count EXCEPT ![o] = @ + 1]
    PROVE  CountIsExact'
<1> SUFFICES ASSUME NEW q \in Objects
             PROVE  count'[q] = Cardinality({k \in Handles : target'[k] = q})
    BY DEF CountIsExact, HandlesTo
<1>1. IsFiniteSet(HandlesTo(q))
    BY ReferenceAssumption, FS_Subset DEF HandlesTo
<1>2. None \notin Objects
    BY ReferenceAssumption
<1>3. h \notin HandlesTo(q)
    BY <1>2 DEF HandlesTo
<1>4. CASE q = o
    <2>1. {k \in Handles : target'[k] = q} = HandlesTo(q) \cup {h}
        BY <1>4 DEF HandlesTo, TypeOK
    <2>2. Cardinality(HandlesTo(q) \cup {h}) = Cardinality(HandlesTo(q)) + 1
        BY <1>1, <1>3, FS_AddElement
    <2>3. count'[q] = count[q] + 1
        BY <1>4 DEF TypeOK
    <2> QED BY <2>1, <2>2, <2>3 DEF CountIsExact
<1>5. CASE q # o
    <2>1. {k \in Handles : target'[k] = q} = HandlesTo(q)
        BY <1>2, <1>5 DEF HandlesTo, TypeOK
    <2>2. count'[q] = count[q]
        BY <1>5 DEF TypeOK
    <2> QED BY <2>1, <2>2 DEF CountIsExact
<1> QED BY <1>4, <1>5

\* A handle that is cleared takes one from the handles of its object.
LEMMA HandleRemoved ==
    ASSUME TypeOK, CountIsExact, NEW h \in Handles, target[h] # None,
           target' = [target EXCEPT ![h] = None],
           count' = [count EXCEPT ![target[h]] = @ - 1]
    PROVE  /\ CountIsExact'
           /\ count[target[h]] >= 1
           /\ count[target[h]] = 1 => \A k \in Handles : target'[k] # target[h]
<1> DEFINE o == target[h]
           H(q) == {k \in Handles : target'[k] = q}
<1>1. \A q \in Objects : IsFiniteSet(HandlesTo(q)) /\ IsFiniteSet(H(q))
    BY ReferenceAssumption, FS_Subset DEF HandlesTo
<1>2. None \notin Objects /\ o \in Objects
    BY ReferenceAssumption DEF TypeOK
<1>3. H(o) = HandlesTo(o) \ {h} /\ h \in HandlesTo(o)
    BY <1>2 DEF HandlesTo, TypeOK
<1>4. Cardinality(H(o)) = Cardinality(HandlesTo(o)) - 1
    BY <1>1, <1>2, <1>3, FS_RemoveElement
<1>5. count[o] \in Nat /\ Cardinality(H(o)) \in Nat
    BY <1>1, <1>2, FS_CardinalityType DEF TypeOK
<1>6. Cardinality(H(o)) = count[o] - 1
    BY <1>2, <1>4 DEF CountIsExact
<1>7. \A q \in Objects : count'[q] = Cardinality(H(q))
    <2> TAKE q \in Objects
    <2>1. CASE q = o
        BY <1>2, <1>6, <2>1 DEF TypeOK
    <2>2. CASE q # o
        <3>1. H(q) = HandlesTo(q)
            BY <1>2, <2>2 DEF HandlesTo, TypeOK
        <3> QED BY <3>1, <2>2 DEF CountIsExact, TypeOK
    <2> QED BY <2>1, <2>2
<1>8. count[o] = 1 => H(o) = {}
    BY <1>1, <1>2, <1>5, <1>6, FS_EmptySet
<1> QED BY <1>5, <1>6, <1>7, <1>8 DEF CountIsExact, HandlesTo

-----------------------------------------------------------------------------
\* At the start no object exists and no handle refers to one.
LEMMA InitIInv == Init => IInv
<1> SUFFICES ASSUME Init PROVE IInv
    OBVIOUS
<1> USE ReferenceAssumption DEF Init
<1>1. TypeOK
    BY DEF TypeOK
<1>2. CountIsExact
    <2>1. \A o \in Objects : HandlesTo(o) = {}
        BY DEF HandlesTo
    <2> QED BY <2>1, FS_EmptySet DEF CountIsExact
<1>3. NoDanglingHandle /\ TargetIsHeld /\ DyingIsLive /\ AssigningIsHeld
      /\ NeverTwice
    BY DEF NoDanglingHandle, TargetIsHeld, DyingIsLive, AssigningIsHeld,
           NeverTwice
<1> QED BY <1>1, <1>2, <1>3 DEF IInv

\* A new object has one handle, and had none.
LEMMA NewKeepsIInv ==
    ASSUME IInv, NEW t \in Threads, NEW o \in Objects, NEW h \in Handles,
           New(t, o, h)
    PROVE  IInv'
<1> USE ReferenceAssumption DEF IInv, New, Free, Unused
<1>1. TypeOK'
    BY DEF TypeOK
<1>2. target[h] = None
    BY DEF TargetIsHeld
<1>3. HandlesTo(o) = {}
    BY DEF NoDanglingHandle, HandlesTo
<1>4. count[o] = 0
    BY <1>3, FS_EmptySet DEF CountIsExact
<1>5. count' = [count EXCEPT ![o] = @ + 1]
    BY <1>4 DEF TypeOK
<1>6. CountIsExact'
    BY <1>2, <1>5, HandleAdded
<1>7. NoDanglingHandle'
    BY <1>3 DEF NoDanglingHandle, TypeOK, DyingIsLive
<1>8. TargetIsHeld' /\ NeverTwice'
    BY DEF TargetIsHeld, NeverTwice, TypeOK
<1>9. DyingIsLive'
    BY DEF DyingIsLive, TypeOK
<1>10. AssigningIsHeld'
    BY DEF AssigningIsHeld, TypeOK
<1> QED BY <1>1, <1>6, <1>7, <1>8, <1>9, <1>10

\* Who Retains has a handle, so the object is not being deleted.
LEMMA RetainKeepsIInv ==
    ASSUME IInv, NEW t \in Threads, NEW h \in Handles, NEW new \in Handles,
           Retain(t, h, new)
    PROVE  IInv'
<1> USE ReferenceAssumption DEF IInv, Retain, Free, Unused, Has
<1>1. TypeOK'
    BY DEF TypeOK
<1>2. target[new] = None /\ target[h] \in Objects
    BY DEF TargetIsHeld, TypeOK
<1>3. CountIsExact'
    BY <1>2, HandleAdded
<1>4. NoDanglingHandle'
    BY <1>2 DEF NoDanglingHandle, TypeOK
<1>5. TargetIsHeld' /\ NeverTwice' /\ DyingIsLive'
    BY DEF TargetIsHeld, NeverTwice, DyingIsLive, TypeOK
<1>6. AssigningIsHeld'
    BY DEF AssigningIsHeld, TypeOK
<1> QED BY <1>1, <1>3, <1>4, <1>5, <1>6

\* The last handle that is Released leaves the object to its thread.
LEMMA ReleaseKeepsIInv ==
    ASSUME IInv, NEW t \in Threads, NEW h \in Handles, Release(t, h)
    PROVE  IInv'
<1> USE ReferenceAssumption DEF IInv, Release, Decrement, Free, Has
<1>1. target[h] \in Objects
    BY DEF TypeOK
<1>2. /\ CountIsExact'
      /\ count[target[h]] >= 1
      /\ count[target[h]] = 1 => \A k \in Handles : target'[k] # target[h]
    BY HandleRemoved
<1>3. TypeOK'
    BY <1>1, <1>2 DEF TypeOK
<1>4. NoDanglingHandle'
    BY <1>1, <1>2 DEF NoDanglingHandle, TypeOK
<1>5. TargetIsHeld' /\ NeverTwice'
    BY DEF TargetIsHeld, NeverTwice, TypeOK
<1>6. DyingIsLive'
    BY <1>1 DEF DyingIsLive, NoDanglingHandle, TypeOK
<1>7. AssigningIsHeld'
    BY DEF AssigningIsHeld, TypeOK
<1> QED BY <1>2, <1>3, <1>4, <1>5, <1>6, <1>7

\* What is deleted has no handle, and no other thread to delete it.
LEMMA DestroyKeepsIInv ==
    ASSUME IInv, NEW t \in Threads, Destroy(t)
    PROVE  IInv'
<1> USE ReferenceAssumption DEF IInv, Destroy
<1>1. dying[t] \in Objects /\ memory[dying[t]] = "live"
    BY DEF DyingIsLive, TypeOK
<1>2. TypeOK'
    BY <1>1 DEF TypeOK
<1>3. CountIsExact'
    BY DEF CountIsExact, HandlesTo
<1>4. NoDanglingHandle'
    BY <1>1 DEF NoDanglingHandle, TypeOK
<1>5. TargetIsHeld' /\ NeverTwice'
    BY <1>1 DEF TargetIsHeld, NeverTwice, TypeOK
<1>6. DyingIsLive'
    BY <1>1 DEF DyingIsLive, TypeOK
<1>7. AssigningIsHeld'
    BY DEF AssigningIsHeld
<1> QED BY <1>2, <1>3, <1>4, <1>5, <1>6, <1>7

\* set() lets go of the old object; the new one is held by the caller.
LEMMA SetReleasesKeepsIInv ==
    ASSUME IInv, NEW t \in Threads, NEW p \in Handles, NEW h \in Handles,
           SetReleases(t, p, h)
    PROVE  IInv'
<1> USE ReferenceAssumption DEF IInv, SetReleases, Decrement, Free, Has
<1>1. target[p] \in Objects /\ target'[h] = target[h]
    BY DEF TypeOK
<1>2. /\ CountIsExact'
      /\ count[target[p]] >= 1
      /\ count[target[p]] = 1 => \A k \in Handles : target'[k] # target[p]
    BY HandleRemoved
<1>3. TypeOK'
    BY <1>1, <1>2 DEF TypeOK
<1>4. NoDanglingHandle'
    BY <1>1, <1>2 DEF NoDanglingHandle, TypeOK
<1>5. TargetIsHeld' /\ NeverTwice'
    BY DEF TargetIsHeld, NeverTwice, TypeOK
<1>6. DyingIsLive'
    BY <1>1 DEF DyingIsLive, NoDanglingHandle, TypeOK
<1>7. AssigningIsHeld'
    <2> SUFFICES ASSUME NEW u \in Threads, assigning'[u] # <<>>
                 PROVE  LET q == assigning'[u][1]
                            k == assigning'[u][2]
                        IN /\ assigning'[u] = <<q, k>>
                           /\ q \in Handles /\ k \in Handles
                           /\ holder'[q] = u /\ target'[q] = None
                           /\ holder'[k] = u /\ target'[k] # None
        BY DEF AssigningIsHeld
    <2>1. CASE u = t
        BY <1>1, <2>1 DEF TypeOK
    <2>2. CASE u # t
        BY <2>2 DEF AssigningIsHeld, TypeOK
    <2> QED BY <2>1, <2>2
<1> QED BY <1>2, <1>3, <1>4, <1>5, <1>6, <1>7

\* set() takes a handle to an object that the caller still holds.
LEMMA SetRetainsKeepsIInv ==
    ASSUME IInv, NEW t \in Threads, SetRetains(t)
    PROVE  IInv'
<1> DEFINE p == assigning[t][1]
           h == assigning[t][2]
<1> USE ReferenceAssumption DEF IInv, SetRetains
<1>1. /\ p \in Handles /\ h \in Handles
      /\ holder[p] = t /\ target[p] = None
      /\ holder[h] = t /\ target[h] # None
    BY DEF AssigningIsHeld
<1>2. target[h] \in Objects
    BY <1>1 DEF TypeOK
<1>3. TypeOK'
    BY <1>1, <1>2 DEF TypeOK
<1>4. CountIsExact'
    BY <1>1, <1>2, HandleAdded
<1>5. NoDanglingHandle'
    BY <1>1, <1>2 DEF NoDanglingHandle, TypeOK
<1>6. TargetIsHeld' /\ NeverTwice' /\ DyingIsLive'
    BY <1>1 DEF TargetIsHeld, NeverTwice, DyingIsLive, TypeOK
<1>7. AssigningIsHeld'
    BY <1>1 DEF AssigningIsHeld, TypeOK
<1> QED BY <1>3, <1>4, <1>5, <1>6, <1>7

\* A handle that travels refers to the same object.
LEMMA PassingKeepsIInv ==
    ASSUME IInv, NEW t \in Threads, NEW h \in Handles,
           Send(t, h) \/ Receive(t, h)
    PROVE  IInv'
<1> USE ReferenceAssumption DEF IInv, Send, Receive, Free, Has
<1>1. TypeOK'
    BY DEF TypeOK
<1>2. CountIsExact'
    BY DEF CountIsExact, HandlesTo
<1>3. NoDanglingHandle' /\ TargetIsHeld' /\ NeverTwice' /\ DyingIsLive'
    BY DEF NoDanglingHandle, TargetIsHeld, NeverTwice, DyingIsLive, TypeOK
<1>4. AssigningIsHeld'
    BY DEF AssigningIsHeld, TypeOK
<1> QED BY <1>1, <1>2, <1>3, <1>4

-----------------------------------------------------------------------------
\* The inductive invariant holds in every behaviour of the counts.
THEOREM Invariance == Spec => []IInv
<1>1. Init => IInv
    BY InitIInv
<1>2. IInv /\ [Next]_vars => IInv'
    <2> SUFFICES ASSUME IInv, [Next]_vars PROVE IInv'
        OBVIOUS
    <2>1. CASE UNCHANGED vars
        BY <2>1 DEF vars, IInv, TypeOK, CountIsExact, HandlesTo,
           NoDanglingHandle, TargetIsHeld, DyingIsLive, AssigningIsHeld,
           NeverTwice
    <2>2. CASE Next
        BY <2>2, NewKeepsIInv, RetainKeepsIInv, ReleaseKeepsIInv,
           DestroyKeepsIInv, SetReleasesKeepsIInv, SetRetainsKeepsIInv,
           PassingKeepsIInv DEF Next
    <2> QED BY <2>1, <2>2
<1> QED BY <1>1, <1>2, PTL DEF Spec

\* ref_count_ equals the references still to be given back, so Retain and
\* Release always find it positive (reference_counting.h:49-60).
THEOREM CountsAreExact == Spec => [](TypeOK /\ CountIsExact)
<1>1. IInv => TypeOK /\ CountIsExact
    BY DEF IInv
<1> QED BY <1>1, Invariance, PTL

\* No reference outlives its object, through Release, RetainedPointer::set
\* and the hand-over of requests.
THEOREM ReferencesAreSafe == Spec => []NoDanglingHandle
<1>1. IInv => NoDanglingHandle
    BY DEF IInv
<1> QED BY <1>1, Invariance, PTL

\* No object is deleted twice: one thread at most sees the count reach zero,
\* however the last releases fall together.
THEOREM NothingDeletedTwice == Spec => []DeletedOnce
<1>1. IInv => DeletedOnce
    BY DEF IInv, DyingIsLive, NeverTwice, DeletedOnce
<1> QED BY <1>1, Invariance, PTL

-----------------------------------------------------------------------------
(* What UnreferencedIsDeleted needs besides fairness: whoever saw the last *)
(* reference go is about to delete the object, until it does.              *)

Unreferenced(o) == memory[o] = "live" /\ HandlesTo(o) = {}

SomebodyDeletes ==
    \A o \in Objects : Unreferenced(o) => \E t \in Threads : dying[t] = o

\* Only Release and the first half of set() take a handle from an object.
LEMMA StepKeepsDeleter ==
    ASSUME IInv, SomebodyDeletes, NEW o \in Objects, Unreferenced(o)', [Next]_vars
    PROVE  \E t \in Threads : dying'[t] = o
<1> USE ReferenceAssumption
<1>t. TypeOK /\ None \notin Objects
    BY DEF IInv
<1>1. CASE UNCHANGED <<memory, target, dying>>
    BY <1>1 DEF SomebodyDeletes, Unreferenced, HandlesTo
<1>2. ASSUME NEW t \in Threads, NEW q \in Objects, NEW h \in Handles, New(t, q, h)
      PROVE  \E u \in Threads : dying'[u] = o
    <2>1. target'[h] = q /\ target[h] = None
        BY <1>t, <1>2 DEF New, Unused, TypeOK, IInv, TargetIsHeld
    <2>2. o # q /\ memory[o] = "live"
        BY <1>t, <1>2, <2>1 DEF New, Unreferenced, HandlesTo, TypeOK
    <2>3. HandlesTo(o) = {}
        BY <1>t, <1>2, <2>1, <2>2 DEF New, Unreferenced, HandlesTo, TypeOK
    <2> QED BY <1>2, <2>2, <2>3 DEF SomebodyDeletes, Unreferenced, New
<1>3. ASSUME NEW t \in Threads, NEW h \in Handles, NEW new \in Handles, Retain(t, h, new)
      PROVE  \E u \in Threads : dying'[u] = o
    <2>1. target[new] = None
        BY <1>3 DEF Retain, Unused, IInv, TargetIsHeld
    <2>2. HandlesTo(o) = {} /\ memory[o] = "live"
        BY <1>t, <1>3, <2>1 DEF Retain, Unreferenced, HandlesTo, TypeOK
    <2> QED BY <1>3, <2>2 DEF SomebodyDeletes, Unreferenced, Retain
<1>4. ASSUME NEW t \in Threads, NEW h \in Handles, Free(t), target[h] # None,
             Decrement(t, target[h]), target' = [target EXCEPT ![h] = None],
             UNCHANGED memory
      PROVE  \E u \in Threads : dying'[u] = o
    <2>1. target[h] \in Objects
        BY <1>t, <1>4 DEF TypeOK
    <2>2. CASE target[h] = o
        <3>1. HandlesTo(o) = {h}
            BY <1>t, <1>4, <2>2 DEF Unreferenced, HandlesTo, TypeOK
        <3>2. count[o] = 1
            BY <3>1, FS_Singleton DEF IInv, CountIsExact
        <3> QED BY <1>t, <1>4, <2>2, <3>2 DEF Decrement, TypeOK
    <2>3. CASE target[h] # o
        <3>1. HandlesTo(o) = {} /\ memory[o] = "live"
            BY <1>t, <1>4, <2>3 DEF Unreferenced, HandlesTo, TypeOK
        <3>2. PICK u \in Threads : dying[u] = o
            BY <3>1 DEF SomebodyDeletes, Unreferenced
        <3>3. u # t
            BY <1>t, <1>4, <3>2 DEF Free
        <3> QED BY <1>t, <1>4, <3>2, <3>3 DEF Decrement, TypeOK
    <2> QED BY <2>2, <2>3
<1>5. ASSUME NEW t \in Threads, Destroy(t)
      PROVE  \E u \in Threads : dying'[u] = o
    <2>1. memory[o] = "live" /\ HandlesTo(o) = {} /\ dying[t] # o
        BY <1>t, <1>5 DEF Destroy, Unreferenced, HandlesTo, TypeOK
    <2>2. PICK u \in Threads : dying[u] = o
        BY <2>1 DEF SomebodyDeletes, Unreferenced
    <2> QED BY <1>t, <1>5, <2>1, <2>2 DEF Destroy, TypeOK
<1>6. ASSUME NEW t \in Threads, SetRetains(t)
      PROVE  \E u \in Threads : dying'[u] = o
    <2>1. target[assigning[t][1]] = None
        BY <1>6 DEF SetRetains, IInv, AssigningIsHeld
    <2>2. HandlesTo(o) = {} /\ memory[o] = "live"
        BY <1>t, <1>6, <2>1 DEF SetRetains, Unreferenced, HandlesTo, TypeOK
    <2> QED BY <1>6, <2>2 DEF SomebodyDeletes, Unreferenced, SetRetains
<1>7. CASE \E t \in Threads, h \in Handles : Release(t, h)
    BY <1>4, <1>7 DEF Release, Has
<1>8. CASE \E t \in Threads, h, h2 \in Handles : SetReleases(t, h, h2)
    BY <1>4, <1>8 DEF SetReleases, Has
<1>9. CASE \E t \in Threads, h \in Handles : Send(t, h) \/ Receive(t, h)
    BY <1>1, <1>9 DEF Send, Receive
<1> QED BY <1>1, <1>2, <1>3, <1>5, <1>6, <1>7, <1>8, <1>9 DEF Next, vars

\* An object without references is never forgotten: the thread that has to
\* delete it is inside Release or set() (reference_counting.h:54-60).
THEOREM UnreferencedIsDying == Spec => []SomebodyDeletes
<1>1. Init => SomebodyDeletes
    BY DEF Init, SomebodyDeletes, Unreferenced
<1>2. IInv /\ SomebodyDeletes /\ [Next]_vars => SomebodyDeletes'
    <2> SUFFICES ASSUME IInv, SomebodyDeletes, [Next]_vars,
                        NEW o \in Objects, Unreferenced(o)'
                 PROVE  \E t \in Threads : dying'[t] = o
        BY DEF SomebodyDeletes
    <2> QED BY StepKeepsDeleter
<1> QED BY <1>1, <1>2, Invariance, PTL DEF Spec

\* Until it deletes the object that thread can do nothing else, and no other
\* thread does anything to the object: a fair step of the thread deletes it.
DeletionIsNext ==
    [][\A t \in Threads : dying[t] # None =>
         \/ Destroy(t) /\ memory'[dying[t]] = "freed"
         \/ dying'[t] = dying[t] /\ memory'[dying[t]] = "live"]_vars

THEOREM DyingIsDeleted == Spec => DeletionIsNext
<1>1. IInv /\ [Next]_vars =>
        [\A t \in Threads : dying[t] # None =>
           \/ Destroy(t) /\ memory'[dying[t]] = "freed"
           \/ dying'[t] = dying[t] /\ memory'[dying[t]] = "live"]_vars
    <2> SUFFICES ASSUME IInv, Next, NEW t \in Threads, dying[t] # None
                 PROVE  \/ Destroy(t) /\ memory'[dying[t]] = "freed"
                        \/ dying'[t] = dying[t] /\ memory'[dying[t]] = "live"
        OBVIOUS
    <2> USE ReferenceAssumption
    <2>1. /\ dying[t] \in Objects /\ memory[dying[t]] = "live" /\ TypeOK
          /\ \A u \in Threads : dying[u] = dying[t] => u = t
        BY DEF IInv, DyingIsLive, TypeOK
    <2>2. CASE Destroy(t)
        BY <2>1, <2>2 DEF Destroy, TypeOK
    <2>3. ASSUME NEW u \in Threads, Destroy(u), u # t
          PROVE  dying'[t] = dying[t] /\ memory'[dying[t]] = "live"
        BY <2>1, <2>3 DEF Destroy, TypeOK
    <2>4. ASSUME NEW u \in Threads, NEW h \in Handles,
                 \/ Release(u, h) \/ \E h2 \in Handles : SetReleases(u, h, h2)
          PROVE  dying'[t] = dying[t] /\ memory'[dying[t]] = "live"
        BY <2>1, <2>4 DEF Release, SetReleases, Decrement, Free, TypeOK
    <2>5. ASSUME NEW u \in Threads, NEW h \in Handles, NEW o \in Objects, New(u, o, h)
          PROVE  dying'[t] = dying[t] /\ memory'[dying[t]] = "live"
        BY <2>1, <2>5 DEF New, TypeOK
    <2>6. ASSUME NEW u \in Threads, NEW h \in Handles,
                 \/ Send(u, h) \/ Receive(u, h)
                 \/ \E h2 \in Handles : Retain(u, h, h2)
          PROVE  dying'[t] = dying[t] /\ memory'[dying[t]] = "live"
        BY <2>1, <2>6 DEF Send, Receive, Retain
    <2>7. ASSUME NEW u \in Threads, SetRetains(u)
          PROVE  dying'[t] = dying[t] /\ memory'[dying[t]] = "live"
        BY <2>1, <2>7 DEF SetRetains
    <2> QED BY <2>2, <2>3, <2>4, <2>5, <2>6, <2>7 DEF Next
<1> QED BY <1>1, Invariance, PTL DEF Spec, DeletionIsNext

-----------------------------------------------------------------------------
(* Each step of the counts is a step of SharedObjects, or none of it.      *)

Users == [o \in Objects |-> HandlesTo(o)]

View == <<Users, memory>>

\* A handle that refers to nothing is in no set of users.
LEMMA AddedToUsers ==
    ASSUME TypeOK, NEW h \in Handles, NEW o \in Objects, target[h] = None,
           target' = [target EXCEPT ![h] = o]
    PROVE  /\ Users' = [Users EXCEPT ![o] = @ \cup {h}]
           /\ \A q \in Objects : h \notin Users[q]
<1>1. None \notin Objects
    BY ReferenceAssumption
<1>2. \A q \in Objects :
        HandlesTo(q)' = IF q = o THEN HandlesTo(q) \cup {h} ELSE HandlesTo(q)
    BY <1>1 DEF HandlesTo, TypeOK
<1>3. \A q \in Objects : h \notin HandlesTo(q)
    BY <1>1 DEF HandlesTo
<1> QED BY <1>2, <1>3 DEF Users

\* One that is cleared leaves the users of its object.
LEMMA TakenFromUsers ==
    ASSUME TypeOK, NEW h \in Handles, target[h] # None,
           target' = [target EXCEPT ![h] = None]
    PROVE  /\ Users' = [Users EXCEPT ![target[h]] = @ \ {h}]
           /\ target[h] \in Objects /\ h \in Users[target[h]]
<1>1. None \notin Objects /\ target[h] \in Objects
    BY ReferenceAssumption DEF TypeOK
<1>2. \A q \in Objects :
        HandlesTo(q)' = IF q = target[h] THEN HandlesTo(q) \ {h}
                        ELSE HandlesTo(q)
    BY <1>1 DEF HandlesTo, TypeOK
<1>3. h \in HandlesTo(target[h])
    BY DEF HandlesTo
<1> QED BY <1>1, <1>2, <1>3 DEF Users

\* The first user of a new object is its only one.
LEMMA NewMakes ==
    ASSUME IInv, NEW t \in Threads, NEW o \in Objects, NEW h \in Handles,
           New(t, o, h)
    PROVE  Abstract!Make(o, h)
<1>1. target[h] = None /\ target' = [target EXCEPT ![h] = o]
    BY DEF IInv, TargetIsHeld, New, Unused
<1>2. /\ Users' = [Users EXCEPT ![o] = @ \cup {h}]
      /\ \A q \in Objects : h \notin Users[q]
    BY <1>1, AddedToUsers DEF IInv
<1>3. HandlesTo(o) = {}
    BY ReferenceAssumption DEF IInv, NoDanglingHandle, HandlesTo, New
<1>4. Users' = [Users EXCEPT ![o] = {h}]
    BY <1>2, <1>3 DEF Users
<1> QED BY <1>2, <1>4 DEF New, Abstract!Make, Abstract!Unattached, Users

\* A handle to what another handle refers to is shared by it.
LEMMA AddedIsShared ==
    ASSUME IInv, NEW h \in Handles, NEW new \in Handles, target[h] # None,
           target[new] = None, target' = [target EXCEPT ![new] = target[h]],
           memory' = memory
    PROVE  Abstract!Share(target[h], new) /\ target[h] \in Objects
<1>1. target[h] \in Objects
    BY DEF IInv, TypeOK
<1>2. /\ Users' = [Users EXCEPT ![target[h]] = @ \cup {new}]
      /\ \A q \in Objects : new \notin Users[q]
    BY <1>1, AddedToUsers DEF IInv
<1>3. memory[target[h]] = "live"
    BY DEF IInv, NoDanglingHandle
<1>4. h \in HandlesTo(target[h])
    BY DEF HandlesTo
<1> QED BY <1>1, <1>2, <1>3, <1>4
        DEF Abstract!Share, Abstract!Unattached, Users

\* A handle that is cleared is let go of, whatever the count says.
LEMMA ClearedIsLetGo ==
    ASSUME IInv, NEW h \in Handles, target[h] # None,
           target' = [target EXCEPT ![h] = None], memory' = memory
    PROVE  Abstract!LetGo(target[h], h) /\ target[h] \in Objects
BY TakenFromUsers DEF IInv, Abstract!LetGo, Users

\* The object that a thread deletes is live and has no user left.
LEMMA DestroyDeletes ==
    ASSUME IInv, NEW t \in Threads, Destroy(t)
    PROVE  Abstract!Delete(dying[t]) /\ dying[t] \in Objects
<1>1. dying[t] \in Objects /\ memory[dying[t]] = "live"
    BY DEF IInv, TypeOK, DyingIsLive, Destroy
<1>2. HandlesTo(dying[t]) = {}
    BY <1>1, ReferenceAssumption DEF IInv, NoDanglingHandle, HandlesTo
<1>3. memory' = [memory EXCEPT ![dying[t]] = "freed"]
    BY <1>1 DEF Destroy, IInv, TypeOK
<1>4. Users' = Users
    BY DEF Destroy, Users, HandlesTo
<1> QED BY <1>1, <1>2, <1>3, <1>4 DEF Abstract!Delete, Users

\* To those who use them counted references are sets of users: what threads
\* do between two atomic instructions of Release and RetainedPointer::set
\* shares an object while somebody has it, deletes it when nobody does, and
\* never brings it back.
THEOREM ImplementsSharedObjects == Spec => RefinesSharedObjects
<1>1. Init => Abstract!Init
    BY ReferenceAssumption DEF Init, Abstract!Init, HandlesTo
<1>2. IInv /\ [Next]_vars => [Abstract!Next]_View
    <2> SUFFICES ASSUME IInv, [Next]_vars
                 PROVE  Abstract!Next \/ UNCHANGED View
        OBVIOUS
    <2>1. CASE UNCHANGED vars
        BY <2>1 DEF vars, View, Users, HandlesTo
    <2>2. ASSUME NEW t \in Threads, Destroy(t) PROVE Abstract!Next
        BY <2>2, DestroyDeletes DEF Abstract!Next
    <2>3. ASSUME NEW t \in Threads, SetRetains(t) PROVE Abstract!Next
        <3> DEFINE p == assigning[t][1]
                   h == assigning[t][2]
        <3>1. /\ p \in Handles /\ h \in Handles
              /\ target[p] = None /\ target[h] # None
            BY <2>3 DEF SetRetains, IInv, AssigningIsHeld
        <3>2. target' = [target EXCEPT ![p] = target[h]] /\ memory' = memory
            BY <2>3 DEF SetRetains
        <3> HIDE DEF p, h
        <3> QED BY <3>1, <3>2, AddedIsShared DEF Abstract!Next
    <2>4. ASSUME NEW t \in Threads, NEW h \in Handles,
                 NEW o \in Objects, New(t, o, h)
          PROVE  Abstract!Next
        BY <2>4, NewMakes DEF Abstract!Next
    <2>5. ASSUME NEW t \in Threads, NEW h \in Handles, NEW new \in Handles,
                 Retain(t, h, new)
          PROVE  Abstract!Next
        <3>1. target[new] = None
            BY <2>5 DEF Retain, Unused, IInv, TargetIsHeld
        <3> QED BY <2>5, <3>1, AddedIsShared DEF Retain, Has, Abstract!Next
    <2>6. ASSUME NEW t \in Threads, NEW p \in Handles,
                 Release(t, p) \/ \E h \in Handles : SetReleases(t, p, h)
          PROVE  Abstract!Next
        <3>1. /\ target[p] # None /\ memory' = memory
              /\ target' = [target EXCEPT ![p] = None]
            BY <2>6 DEF Release, SetReleases, Has
        <3> QED BY <3>1, ClearedIsLetGo DEF Abstract!Next
    <2>7. ASSUME NEW t \in Threads, NEW h \in Handles,
                 Send(t, h) \/ Receive(t, h)
          PROVE  UNCHANGED View
        BY <2>7 DEF Send, Receive, View, Users, HandlesTo
    <2> QED BY <2>1, <2>2, <2>3, <2>4, <2>5, <2>6, <2>7 DEF Next
<1> QED BY <1>1, <1>2, Invariance, PTL
        DEF Spec, RefinesSharedObjects, Abstract!Spec, View, Users

=============================================================================
