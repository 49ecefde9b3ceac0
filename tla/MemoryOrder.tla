----------------------------- MODULE MemoryOrder -----------------------------
(***************************************************************************)
(* The memory orders of ReferenceCounted, reference_counting.h, and of     *)
(* AcqRelAtomic, atomic.h: what a thread knows of the accesses others made *)
(* to an object, when it is handed a reference and when it deletes it.     *)
(*                                                                         *)
(* ReferenceCounting takes every step to be seen by all at once.  Here a   *)
(* step is seen by those who synchronize with it, by the rules of C++: an  *)
(* atomic carries the knowledge released into it; a read-and-update of any *)
(* order passes on what the atomic carried, a plain store starts anew.     *)
(* A load returns the latest value; one that returned an older value would *)
(* teach its thread less, and give it no reference.                        *)
(*                                                                         *)
(* No code under src/ hands references over by way of an AcqRelAtomic: the *)
(* protocol of `slot` (Offer, Take, Publish, Look) is a client this module *)
(* supplies, to see what the default orders give one.                      *)
(***************************************************************************)
EXTENDS Integers, FiniteSets

CONSTANTS
    Users,         \* threads
    References,    \* the references somebody has to give back
    Creator,       \* the thread that makes the object
    MaxAccesses,   \* BOUND on the accesses a thread makes to the object
    Nobody

ASSUME OrderAssumption ==
    /\ Creator \in Users
    /\ Nobody \notin Users \cup References
    /\ IsFiniteSet(References) /\ References # {} /\ References \cap Users = {}
    /\ MaxAccesses \in Nat

VARIABLES
    refCount,      \* ref_count_: its value, and the accesses it carries
    slot,          \* an AcqRelAtomic pointer: a reference or Nobody, likewise
    owner,         \* the thread that has each reference, or Nobody
    view,          \* the accesses that happened before what a thread does next
    accesses,      \* all there were
    destroyer      \* the thread that runs the destructor, or Nobody

memory == <<refCount, slot, owner, view, accesses, destroyer>>

\* An access is numbered by its thread; the constructor is the first.
Construction == <<Creator, 0>>
Accesses == Users \X (0 .. MaxAccesses)

-----------------------------------------------------------------------------
(* One atomic operation of thread t on atomic a.                           *)

Acquires(order) == order \in {"acquire", "acq_rel", "seq_cst"}
Releases(order) == order \in {"release", "acq_rel", "seq_cst"}

Learns(t, a, order) == view[t] \cup IF Acquires(order) THEN a.carries ELSE {}

Updated(t, a, v, order) ==
    [value |-> v,
     carries |-> a.carries \cup IF Releases(order) THEN Learns(t, a, order) ELSE {}]

Stored(t, v, order) ==
    [value |-> v, carries |-> IF Releases(order) THEN view[t] ELSE {}]

\* MUTANT: the orders of RelaxedAtomic.
DefaultOrder_Relaxed(operation) == "relaxed"

\* The orders AcqRelAtomic gives its operations.
DefaultOrder(operation) ==
    CASE operation = "load" -> "acquire"
      [] operation = "store" -> "release"
      [] operation = "compare_exchange" -> "acq_rel"
      [] operation = "compare_exchange fails" -> "seq_cst"

-----------------------------------------------------------------------------
Held(t) == {r \in References : owner[r] = t}
Given == {r \in References : owner[r] # Nobody} \cup ({slot.value} \ {Nobody})
Free(r) == r \notin Given

\* new: the object is there, with the reference of its creator.
NewObject(first) ==
    /\ refCount = [value |-> 1, carries |-> {}]
    /\ slot = [value |-> Nobody, carries |-> {}]
    /\ owner = [r \in References |-> IF r = first THEN Creator ELSE Nobody]
    /\ view = [t \in Users |-> IF t = Creator THEN {Construction} ELSE {}]
    /\ accesses = {Construction}
    /\ destroyer = Nobody

MemoryInit == \E first \in References : NewObject(first)

\* A thread that has a reference reads or writes the object.
Access(t, n) ==
    /\ Held(t) # {} /\ <<t, n>> \notin accesses
    /\ accesses' = accesses \cup {<<t, n>>}
    /\ view' = [view EXCEPT ![t] = @ \cup {<<t, n>>}]
    /\ UNCHANGED <<refCount, slot, owner, destroyer>>

\* Retain is relaxed.
Retain(t, r) ==
    /\ Held(t) # {} /\ Free(r)
    /\ refCount' = Updated(t, refCount, refCount.value + 1, "relaxed")
    /\ view' = [view EXCEPT ![t] = Learns(t, refCount, "relaxed")]
    /\ owner' = [owner EXCEPT ![r] = t]
    /\ UNCHANGED <<slot, accesses, destroyer>>

\* What the last reference brings about.
Drop(t, r, order) ==
    /\ owner[r] = t
    /\ refCount' = Updated(t, refCount, refCount.value - 1, order)
    /\ view' = [view EXCEPT ![t] = Learns(t, refCount, order)]
    /\ owner' = [owner EXCEPT ![r] = Nobody]
    /\ destroyer' = IF refCount.value = 1 THEN t ELSE destroyer
    /\ UNCHANGED <<slot, accesses>>

\* MUTANT: the thread that deletes does not acquire.
Release_Unacquired(t, r) == Drop(t, r, "release")

\* Release is acquire and release at once.
Release(t, r) == Drop(t, r, "acq_rel")

\* slot.compare_exchange_strong(nullptr, object): the reference goes along.
Offer(t, r) ==
    /\ owner[r] = t /\ slot.value = Nobody
    /\ LET order == DefaultOrder("compare_exchange") IN
         /\ slot' = Updated(t, slot, r, order)
         /\ view' = [view EXCEPT ![t] = Learns(t, slot, order)]
    /\ owner' = [owner EXCEPT ![r] = Nobody]
    /\ UNCHANGED <<refCount, accesses, destroyer>>

\* slot.compare_exchange_strong(object, nullptr), the object known from
\* slot.load().
Take(t) ==
    /\ slot.value # Nobody
    /\ LET order == DefaultOrder("compare_exchange") IN
         /\ slot' = Updated(t, slot, Nobody, order)
         /\ view' = [view EXCEPT ![t] = Learns(t, slot, order)]
    /\ owner' = [owner EXCEPT ![slot.value] = t]
    /\ UNCHANGED <<refCount, accesses, destroyer>>

\* slot.store(object), while no other thread could write the slot.
Publish(t, r) ==
    /\ owner[r] = t /\ slot.value = Nobody
    /\ \A s \in References : owner[s] \in {t, Nobody}
    /\ slot' = Stored(t, r, DefaultOrder("store"))
    /\ owner' = [owner EXCEPT ![r] = Nobody]
    /\ UNCHANGED <<refCount, view, accesses, destroyer>>

\* slot.load(), or a compare_exchange_strong that finds another value.
Look(t, operation) ==
    /\ view' = [view EXCEPT ![t] = Learns(t, slot, DefaultOrder(operation))]
    /\ UNCHANGED <<refCount, slot, owner, accesses, destroyer>>

MemoryNext ==
    \E t \in Users :
        \/ Take(t)
        \/ \E n \in 1 .. MaxAccesses : Access(t, n)
        \/ \E r \in References :
             Retain(t, r) \/ Release(t, r) \/ Offer(t, r) \/ Publish(t, r)
        \/ Look(t, "load") \/ Look(t, "compare_exchange fails")

MemorySpec == MemoryInit /\ [][MemoryNext]_memory

-----------------------------------------------------------------------------
(* Properties.                                                             *)

MemoryTypeOK ==
    /\ refCount \in [value : Int, carries : SUBSET Accesses]
    /\ slot \in [value : References \cup {Nobody}, carries : SUBSET Accesses]
    /\ owner \in [References -> Users \cup {Nobody}]
    /\ view \in [Users -> SUBSET Accesses]
    /\ accesses \subseteq Accesses
    /\ destroyer \in Users \cup {Nobody}

\* Everything any thread ever did to the object happened before the
\* destructor runs, whichever thread runs it and although Retain is relaxed
\* (reference_counting.h:49-60): no access races with the delete.
DeleterKnowsAll == destroyer # Nobody => accesses \subseteq view[destroyer]

\* Whoever has a reference knows that the object was constructed, however
\* often the reference changed hands (atomic.h:79-125), so that no thread
\* reads what is not initialized.
HoldersKnowObject ==
    /\ \A t \in Users : Held(t) # {} => Construction \in view[t]
    /\ slot.value # Nobody => Construction \in slot.carries

=============================================================================
