----------------------- MODULE DescriptorInfoMultiple -----------------------
(***************************************************************************)
(* The DescriptorInfoMultipleMixin of src/dart/bin/eventhandler.h: a       *)
(* listening descriptor shared by the ports of several isolates.  Notifying*)
(* a port costs one of its tokens; a port without tokens, or that does not *)
(* read, is not in the ring of active readers.  The isolate gives a token  *)
(* back for each event it has handled.                                     *)
(*                                                                         *)
(* The isolates are not in the repository.  Their commands (MessageFlags)  *)
(* reach the event handler one at a time, those of one port in the order   *)
(* they were sent; close is the last one, and no more tokens come back     *)
(* than events went out.                                                   *)
(***************************************************************************)
EXTENDS CircularLinkedList

CONSTANTS
    Ports,          \* Dart_Port values
    NoPort,         \* 0
    TokenCount,     \* kTokenCount
    OwedBound       \* BOUND: events of one port nobody has answered yet

ASSUME DescriptorAssumption ==
    /\ NoPort \notin Ports
    /\ TokenCount \in Nat \ {0}
    /\ OwedBound \in Nat

VARIABLES
    disableTokens, \* disable_tokens_, which the descriptor is made with
    known,      \* the ports in tokens_map_
    reading,    \* those of them with is_reading
    tokens,     \* token_count of each port
    active,     \* active_readers_, from its head
    notifying,  \* ports the loop of NotifyAllDartPorts has yet to reach
    last,       \* what NextNotifyDartPort returned last
    owed,       \* events sent to each port's isolate, less tokens returned
    gone        \* ports whose close command was handled

info == <<known, reading, tokens, active>>
vars == <<disableTokens, known, reading, tokens, active, notifying, last,
          owed, gone>>

IsReady(p) == tokens[p] > 0 /\ p \in reading

\* kInEvent, or nothing.
Mask == IF HasHead(active) THEN {"in"} ELSE {}

\* The event handler takes the next command or event.
Ready == notifying = {}

Spent(n) == IF disableTokens THEN n ELSE n - 1

\* Without tokens the events are counted up to the bound and still sent.
MayOwe(p) == disableTokens \/ owed[p] < OwedBound
OneMore(n) == IF disableTokens /\ n >= OwedBound THEN n ELSE n + 1

Init ==
    /\ disableTokens \in BOOLEAN
    /\ known = {}
    /\ reading = {}
    /\ tokens = [p \in Ports |-> TokenCount]
    /\ active = <<>>
    /\ notifying = {}
    /\ last = NoPort
    /\ owed = [p \in Ports |-> 0]
    /\ gone = {}

\* MUTANT: a port that pauses is forgotten altogether.
SetPortAndMask_ForgetsPaused(p, read) ==
    /\ Ready /\ p \notin gone
    /\ known' = IF read THEN known \cup {p} ELSE known \ {p}
    /\ reading' = IF read THEN reading \cup {p} ELSE reading \ {p}
    /\ active' = IF read /\ tokens[p] > 0 /\ p \notin Elements(active)
                 THEN Add(active, p)
                 ELSE IF ~read THEN Remove(active, p) ELSE active
    /\ UNCHANGED <<disableTokens, tokens, notifying, last, owed, gone>>

\* MUTANT: a port that resumes has its tokens again.
SetPortAndMask_Refills(p, read) ==
    LET wasReady == p \in known /\ IsReady(p)
    IN /\ Ready /\ p \notin gone
       /\ known' = known \cup {p}
       /\ reading' = IF read THEN reading \cup {p} ELSE reading \ {p}
       /\ tokens' = IF read THEN [tokens EXCEPT ![p] = TokenCount] ELSE tokens
       /\ active' = IF wasReady /\ ~read THEN Remove(active, p)
                    ELSE IF ~wasReady /\ read THEN Add(active, p)
                    ELSE active
       /\ UNCHANGED <<disableTokens, notifying, last, owed, gone>>

\* A port nobody knows yet starts with kTokenCount tokens, as in Init.
SetPortAndMask(p, read) ==
    LET wasReady == p \in known /\ IsReady(p)
        isReady == tokens[p] > 0 /\ read
    IN /\ Ready /\ p \notin gone
       /\ known' = known \cup {p}
       /\ reading' = IF read THEN reading \cup {p} ELSE reading \ {p}
       /\ active' = IF wasReady /\ ~isReady THEN Remove(active, p)
                    ELSE IF ~wasReady /\ isReady THEN Add(active, p)
                    ELSE active
       /\ UNCHANGED <<disableTokens, tokens, notifying, last, owed, gone>>

\* MUTANT: the entry goes and stays in the ring.
RemovePort_StaysActive(p) ==
    /\ Ready /\ p \notin gone
    /\ gone' = gone \cup {p}
    /\ known' = known \ {p}
    /\ reading' = reading \ {p}
    /\ UNCHANGED <<disableTokens, active, tokens, notifying, last, owed>>

\* The close command of a port, known or not.
RemovePort(p) ==
    /\ Ready /\ p \notin gone
    /\ gone' = gone \cup {p}
    /\ active' = IF p \in known /\ IsReady(p) THEN Remove(active, p)
                 ELSE active
    /\ known' = known \ {p}
    /\ reading' = reading \ {p}
    /\ UNCHANGED <<disableTokens, tokens, notifying, last, owed>>

\* The descriptor is shut down under all its ports.
RemoveAllPorts ==
    /\ Ready
    /\ known' = {}
    /\ reading' = {}
    /\ active' = <<>>
    /\ gone' = Ports
    /\ UNCHANGED <<disableTokens, tokens, notifying, last, owed>>

\* MUTANT: the port at the head stays there while it has tokens.
NextNotifyDartPort_NoRotate(p) ==
    /\ Ready /\ HasHead(active) /\ p = Head(active)
    /\ MayOwe(p)
    /\ tokens' = [tokens EXCEPT ![p] = Spent(@)]
    /\ active' = IF tokens'[p] <= 0 THEN RemoveHead(active) ELSE active
    /\ last' = p
    /\ owed' = [owed EXCEPT ![p] = OneMore(@)]
    /\ UNCHANGED <<disableTokens, known, reading, notifying, gone>>

\* An event is ready: the port at the head is told of it.
NextNotifyDartPort(p) ==
    /\ Ready /\ HasHead(active) /\ p = Head(active)
    /\ MayOwe(p)
    /\ tokens' = [tokens EXCEPT ![p] = Spent(@)]
    /\ active' = IF tokens'[p] <= 0 THEN RemoveHead(active) ELSE Rotate(active)
    /\ last' = p
    /\ owed' = [owed EXCEPT ![p] = OneMore(@)]
    /\ UNCHANGED <<disableTokens, known, reading, notifying, gone>>

\* Nobody is ready to be told.
NextNotifyNobody ==
    /\ Ready /\ ~HasHead(active)
    /\ last' = NoPort
    /\ UNCHANGED <<disableTokens, info, notifying, owed, gone>>

\* A close or an error is broadcast: the loop starts, ...
NotifyAllDartPorts ==
    /\ Ready /\ known # {}
    /\ \A p \in known : MayOwe(p)
    /\ notifying' = known
    /\ UNCHANGED <<disableTokens, info, last, owed, gone>>

\* MUTANT: a port that has run out of tokens stays in the ring.
NotifyPort_StaysActive(p) ==
    /\ p \in notifying
    /\ notifying' = notifying \ {p}
    /\ owed' = [owed EXCEPT ![p] = OneMore(@)]
    /\ tokens' = [tokens EXCEPT ![p] = Spent(@)]
    /\ UNCHANGED <<disableTokens, known, reading, active, last, gone>>

\* ... and reaches one port after the other, in the order of the hash map.
NotifyPort(p) ==
    /\ p \in notifying
    /\ notifying' = notifying \ {p}
    /\ owed' = [owed EXCEPT ![p] = OneMore(@)]
    /\ tokens' = [tokens EXCEPT ![p] = Spent(@)]
    /\ active' = IF IsReady(p) /\ tokens'[p] <= 0 THEN Remove(active, p)
                 ELSE active
    /\ UNCHANGED <<disableTokens, known, reading, last, gone>>

\* MUTANT: a batch of tokens counts as one.
ReturnTokens_One(p, n) ==
    /\ Ready /\ p \notin gone /\ n \in 1 .. owed[p]
    /\ tokens' = [tokens EXCEPT ![p] = IF disableTokens THEN @ ELSE @ + 1]
    /\ active' = IF ~IsReady(p) /\ tokens'[p] > 0 /\ p \in reading
                 THEN Add(active, p) ELSE active
    /\ owed' = [owed EXCEPT ![p] = @ - n]
    /\ UNCHANGED <<disableTokens, known, reading, notifying, last, gone>>

\* The isolate has handled n of the events it was sent.
ReturnTokens(p, n) ==
    /\ Ready /\ p \notin gone /\ n \in 1 .. owed[p]
    /\ tokens' = [tokens EXCEPT ![p] = IF disableTokens THEN @ ELSE @ + n]
    /\ active' = IF ~IsReady(p) /\ tokens'[p] > 0 /\ p \in reading
                 THEN Add(active, p) ELSE active
    /\ owed' = [owed EXCEPT ![p] = @ - n]
    /\ UNCHANGED <<disableTokens, known, reading, notifying, last, gone>>

NextNotify == NextNotifyNobody \/ \E p \in Ports : NextNotifyDartPort(p)

Next ==
    \/ \E p \in Ports :
         \/ \E read \in BOOLEAN : SetPortAndMask(p, read)
         \/ \E n \in 1 .. owed[p] : ReturnTokens(p, n)
         \/ RemovePort(p)
         \/ NotifyPort(p)
    \/ RemoveAllPorts
    \/ NextNotify
    \/ NotifyAllDartPorts

Spec == Init /\ [][Next]_vars

\* Connections keep arriving and the completion port hands them out between
\* other events, which may come for ever; a broadcast runs to its end.
FairSpec ==
    /\ Spec
    /\ SF_vars(NextNotify)
    /\ \A p \in Ports : WF_vars(NotifyPort(p))

-----------------------------------------------------------------------------
(* Properties.                                                             *)

TypeOK ==
    /\ disableTokens \in BOOLEAN
    /\ known \subseteq Ports
    /\ reading \subseteq known
    /\ tokens \in [Ports -> Int]
    /\ active \in Seq(Ports)
    /\ notifying \subseteq known
    /\ last \in Ports \cup {NoPort}
    /\ owed \in [Ports -> Nat]
    /\ gone \subseteq Ports

\* active_readers_ holds exactly the ports that read and have tokens, each
\* once, after every command and at every turn of a broadcast: what the DEBUG
\* code of SetPortAndMask checks there and only there
\* (eventhandler.h:425-449, 567-569).
ActiveReadersAreReady ==
    /\ NoDuplicates(active)
    /\ Elements(active) = {p \in known : IsReady(p)}

\* Tokens are neither lost nor made: those of a known port are with the
\* event handler or with the isolate, so token_count never passes kTokenCount
\* (ASSERT, eventhandler.h:545) and a port that is told of n events is paused
\* until it has answered.
TokensConserved ==
    \A p \in known :
        tokens[p] = TokenCount - (IF disableTokens THEN 0 ELSE owed[p])

\* Tokens come back only for a port that is in the map, which ReturnTokens
\* reads without looking (ASSERT, eventhandler.h:538).
ReturnFindsEntry ==
    \A p \in Ports : p \notin gone /\ owed[p] > 0 => p \in known

Ahead(s, p) == {s[i] : i \in 1 .. (CHOOSE k \in 1 .. Len(s) : s[k] = p) - 1}

\* Turns are taken in order: nobody gets ahead of a port that waits in the
\* ring, whatever ports come, go, pause and are notified.
NeverPassed ==
    [][\A p \in Elements(active) \cap Elements(active') :
         p # Head(active) => Ahead(active', p) \subseteq Ahead(active, p)]_vars

\* As the event handler sees them: a broadcast has reached every port as soon
\* as it has begun.
Abstract == INSTANCE Descriptor WITH
    Events <- {"in"},
    ports <- [p \in known |->
                [mask |-> IF p \in reading THEN {"in"} ELSE {},
                 tokens |-> IF p \in notifying THEN Spent(tokens[p])
                            ELSE tokens[p]]]

\* "Returns the union of event masks of all ports.  If a port has a
\* non-positive token count it's mask is assumed to be 0."
\* (eventhandler.h:245-246): the ring tells, between two commands, whether
\* any port can be told of a connection.
MaskIsUnion == Ready => Mask = Abstract!Mask

\* The mixin keeps every promise of DescriptorInfoBase
\* (eventhandler.h:212-256): no operation on one port, and no turn of a
\* broadcast, changes the mask or the tokens of another.
RefinesDescriptor == Abstract!Spec

\* Nobody starves: a port that stays ready is told of an event again.
EveryReaderIsServed ==
    \A p \in Ports : []<>(p \notin Elements(active) \/ last = p)

=============================================================================
