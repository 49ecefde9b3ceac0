---------------------------- MODULE SharedObjects ---------------------------
(***************************************************************************)
(* What reference counting (src/dart/bin/reference_counting.h) promises    *)
(* those who use it, in terms of who has an object and without a count: an *)
(* object is there while somebody has it, it is handed on only by one who  *)
(* has it, and once nobody has it, it is deleted, once, and nobody gets to *)
(* it any more.                                                            *)
(***************************************************************************)
CONSTANTS Objects, Handles

VARIABLES
    users,   \* the handles through which each object is reached
    stage    \* "none", "live" or "freed", of each object

Unattached(h) == \A o \in Objects : h \notin users[o]

Init ==
    /\ users = [o \in Objects |-> {}]
    /\ stage = [o \in Objects |-> "none"]

\* Whoever makes an object is the first to have it.
Make(o, h) ==
    /\ stage[o] = "none" /\ Unattached(h)
    /\ stage' = [stage EXCEPT ![o] = "live"]
    /\ users' = [users EXCEPT ![o] = {h}]

\* Only an object that somebody has is shared.
Share(o, h) ==
    /\ stage[o] = "live" /\ users[o] # {} /\ Unattached(h)
    /\ users' = [users EXCEPT ![o] = @ \cup {h}]
    /\ UNCHANGED stage

LetGo(o, h) ==
    /\ h \in users[o]
    /\ users' = [users EXCEPT ![o] = @ \ {h}]
    /\ UNCHANGED stage

Delete(o) ==
    /\ stage[o] = "live" /\ users[o] = {}
    /\ stage' = [stage EXCEPT ![o] = "freed"]
    /\ UNCHANGED users

Next ==
    \E o \in Objects :
        \/ Delete(o)
        \/ \E h \in Handles : Make(o, h) \/ Share(o, h) \/ LetGo(o, h)

Spec == Init /\ [][Next]_<<users, stage>>

=============================================================================
