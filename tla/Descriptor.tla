----------------------------- MODULE Descriptor -----------------------------
(***************************************************************************)
(* What DescriptorInfoBase (src/dart/bin/eventhandler.h:212-256) promises  *)
(* the event handler of any descriptor, whether one port uses it or many:  *)
(* each port has its mask and its tokens, whatever becomes of the others.  *)
(***************************************************************************)
EXTENDS Integers

CONSTANTS Ports, NoPort, Events, TokenCount

VARIABLES
    disableTokens,  \* whether notifying is free
    ports,          \* [mask, tokens] of each port that is interested
    last            \* the port NextNotifyDartPort returned last

Known == DOMAIN ports

Spent(n) == IF disableTokens THEN n ELSE n - 1

\* "Returns the union of event masks of all ports.  If a port has a
\* non-positive token count it's mask is assumed to be 0."
Effective(p) == IF ports[p].tokens > 0 THEN ports[p].mask ELSE {}
Mask == UNION {Effective(p) : p \in Known}

Init ==
    /\ disableTokens \in BOOLEAN
    /\ ports = [p \in {} |-> [mask |-> {}, tokens |-> TokenCount]]
    /\ last = NoPort

\* "Inserts or updates a new Dart_Port."  An update leaves its tokens alone.
SetPortAndMask(p, mask) ==
    /\ ports' = [q \in Known \cup {p} |->
                   IF q # p THEN ports[q]
                   ELSE [mask |-> mask,
                         tokens |-> IF p \in Known THEN ports[p].tokens
                                    ELSE TokenCount]]
    /\ UNCHANGED <<disableTokens, last>>

RemovePort(p) ==
    /\ ports' = [q \in Known \ {p} |-> ports[q]]
    /\ UNCHANGED <<disableTokens, last>>

RemoveAllPorts ==
    /\ ports' = [q \in {} |-> [mask |-> {}, tokens |-> TokenCount]]
    /\ UNCHANGED <<disableTokens, last>>

\* "Returns a port to which `events_ready` can be sent to.  It will also
\* decrease the token count by 1 for this port."
NextNotifyDartPort(p) ==
    /\ p \in Known /\ Effective(p) # {}
    /\ ports' = [ports EXCEPT ![p].tokens = Spent(@)]
    /\ last' = p
    /\ UNCHANGED disableTokens

NextNotifyNobody ==
    /\ Mask = {}
    /\ last' = NoPort
    /\ UNCHANGED <<disableTokens, ports>>

\* "Will post `data` to all known Dart_Ports.  It will also decrease the
\* token count by 1 for all ports."
NotifyAllDartPorts ==
    /\ ports' = [p \in Known |->
                   [ports[p] EXCEPT !.tokens = Spent(@)]]
    /\ UNCHANGED <<disableTokens, last>>

\* "Returns `count` tokens for the given port", never more than were spent.
ReturnTokens(p) ==
    /\ p \in Known
    /\ \E count \in 1 .. TokenCount - ports[p].tokens :
         ports' = [ports EXCEPT ![p].tokens = @ + count]
    /\ UNCHANGED <<disableTokens, last>>

Next ==
    \/ \E p \in Ports :
         \/ \E mask \in SUBSET Events : SetPortAndMask(p, mask)
         \/ RemovePort(p)
         \/ NextNotifyDartPort(p)
         \/ ReturnTokens(p)
    \/ RemoveAllPorts
    \/ NextNotifyNobody
    \/ NotifyAllDartPorts

Spec == Init /\ [][Next]_<<disableTokens, ports, last>>

=============================================================================
