------------------------------ MODULE Timeouts ------------------------------
(***************************************************************************)
(* What a TimeoutQueue (src/dart/bin/eventhandler.h:60-95) promises its    *)
(* event handler: one timeout per port, set, changed and cancelled by      *)
(* port, and taken in the order in which they are due.  After a            *)
(* cancellation any pending timeout may be taken, until none is left.      *)
(***************************************************************************)
EXTENDS Naturals, Functions

CONSTANTS Ports, Times

VARIABLES
    due,        \* the timeout of each port that has one
    cancelled   \* whether a pending timeout was cancelled since none was

Pending == DOMAIN due
Earliest == {p \in Pending : \A r \in Pending : due[p] <= due[r]}

Set(port, time) ==
    due' = [p \in Pending \cup {port} |-> IF p = port THEN time ELSE due[p]]
Forget(port) == due' = Restrict(due, Pending \ {port})

UpdateTimeout(port, time) == Set(port, time) /\ UNCHANGED cancelled

CancelTimeout(port) ==
    /\ Forget(port)
    /\ cancelled' = (Pending' # {} /\ (cancelled \/ port \in Pending))

RemoveCurrent ==
    /\ \E p \in IF cancelled THEN Pending ELSE Earliest : Forget(p)
    /\ cancelled' = (Pending' # {} /\ cancelled)

Init == due = <<>> /\ cancelled = FALSE

Next ==
    \/ \E port \in Ports :
         CancelTimeout(port) \/ \E time \in Times : UpdateTimeout(port, time)
    \/ RemoveCurrent

Spec == Init /\ [][Next]_<<due, cancelled>>

=============================================================================
