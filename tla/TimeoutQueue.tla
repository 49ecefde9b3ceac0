---------------------------- MODULE TimeoutQueue ----------------------------
(***************************************************************************)
(* The TimeoutQueue of src/dart/bin/eventhandler.h: a priority queue of    *)
(* timeouts by port, as the event handler drives it.                       *)
(***************************************************************************)
EXTENDS PriorityQueue

CONSTANTS
    Ports,     \* Dart_Port values
    Times      \* timeouts, in milliseconds

ASSUME TimeoutQueueAssumption == Times \subseteq Nat

VARIABLES
    timeouts,
    cancelled   \* HISTORY: a pending timeout was cancelled since none was

vars == <<timeouts, cancelled>>

HasTimeout == Size(timeouts) > 0
CurrentTimeout == Minimum(timeouts).priority
CurrentPort == Minimum(timeouts).value

Init == timeouts = EmptyQueue /\ cancelled = FALSE

UpdateTimeout(port, time) ==
    /\ timeouts' = InsertOrChangePriority(timeouts, time, port)
    /\ UNCHANGED cancelled

\* UpdateTimeout with a negative timeout.
CancelTimeout(port) ==
    /\ timeouts' = RemoveByValue(timeouts, port)
    /\ cancelled' = (HasTimeout' /\ (cancelled \/ ContainsValue(timeouts, port)))

RemoveCurrent ==
    /\ HasTimeout
    /\ timeouts' = RemoveMinimum(timeouts)
    /\ cancelled' = (HasTimeout' /\ cancelled)

Next ==
    \/ \E port \in Ports, time \in Times : UpdateTimeout(port, time)
    \/ \E port \in Ports : CancelTimeout(port)
    \/ RemoveCurrent

Spec == Init /\ [][Next]_vars

-----------------------------------------------------------------------------
(* Properties.                                                             *)

Places == 1 .. Size(timeouts)

\* The map and the array name each other's entries exactly, after every
\* chain of swaps, replacements and removals (priority_queue.h:81-85 looks an
\* entry up in the one and removes it from the other).
MapIsInverse ==
    /\ DOMAIN timeouts.at = {timeouts.heap[i].value : i \in Places}
    /\ \A i \in Places : timeouts.at[timeouts.heap[i].value] = i

\* The entries fit the array, and a grown array is given back: more than a
\* quarter of it is in use (priority_queue.h:52-54, 162-165).
CapacityFits ==
    /\ Size(timeouts) <= timeouts.cap
    /\ timeouts.cap > MinimumSize => 4 * Size(timeouts) > timeouts.cap

\* "The minimum element can be queried in O(1) time"
\* (priority_queue.h:17-18): the current timeout is the first one due.
CurrentIsMinimum ==
    \A i \in Places : CurrentTimeout <= timeouts.heap[i].priority

Abstract == INSTANCE Timeouts WITH
    due <- [port \in DOMAIN timeouts.at |->
              timeouts.heap[timeouts.at[port]].priority]

\* The queue does what Timeouts promises: each port has its last timeout and
\* the earliest is removed first, again and again until one is cancelled, and
\* as before once the queue has been empty.
RefinesTimeouts == Abstract!Spec

\* Each operation changes the timeout of its own port and of no other, also
\* where cancellation has put the heap out of order: RemoveCurrent that of
\* CurrentPort, and an update or a cancellation that of the port it is for.
EachPortItsOwn ==
    [][/\ \A port \in Ports :
            /\ CancelTimeout(port) => Abstract!Forget(port)
            /\ \A time \in Times :
                 UpdateTimeout(port, time) => Abstract!Set(port, time)
       /\ RemoveCurrent => Abstract!Forget(CurrentPort)]_vars

=============================================================================
