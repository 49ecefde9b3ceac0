------------------------ MODULE DescriptorInfoSingle ------------------------
(***************************************************************************)
(* The DescriptorInfoSingleMixin of src/dart/bin/eventhandler.h: a         *)
(* descriptor, a connected socket say, that one port uses.                 *)
(*                                                                         *)
(* As in DescriptorInfoMultiple the isolate is not in the repository:      *)
(* close is its last command, and it answers for each event once.  The     *)
(* event handler asks Mask() before it notifies, and nothing happens to a  *)
(* descriptor before its port is set.                                      *)
(***************************************************************************)
EXTENDS Integers

CONSTANTS
    Port,           \* the Dart_Port
    NoPort,         \* 0
    Events,         \* the events of a mask: kInEvent, kOutEvent
    TokenCount,     \* kTokenCount
    OwedBound       \* BOUND: events nobody has answered yet

ASSUME SingleAssumption ==
    /\ Port # NoPort
    /\ TokenCount \in Nat \ {0}
    /\ OwedBound \in Nat

VARIABLES
    disableTokens,  \* disable_tokens_
    port,           \* port_
    mask,           \* mask_
    tokens,         \* tokens_
    last,           \* what NextNotifyDartPort returned last
    owed,           \* events sent to the isolate, less tokens returned
    gone            \* whether the port was removed

single == <<disableTokens, port, mask, tokens, last, owed, gone>>

Spent(n) == IF disableTokens THEN n ELSE n - 1
MayOwe == disableTokens \/ TokenCount - tokens < OwedBound
OneMore(n) == IF disableTokens /\ n >= OwedBound THEN n ELSE n + 1

\* A descriptor without tokens is muted.
Mask == IF tokens <= 0 THEN {} ELSE mask

SingleInit ==
    /\ disableTokens \in BOOLEAN
    /\ port = NoPort
    /\ mask = {}
    /\ tokens = TokenCount
    /\ last = NoPort
    /\ owed = 0
    /\ gone = FALSE

\* MUTANT: a new mask comes with a new allowance.
SetPortAndMask_Refills(events) ==
    /\ ~gone
    /\ port' = Port
    /\ mask' = events
    /\ tokens' = TokenCount
    /\ UNCHANGED <<disableTokens, last, owed, gone>>

SetPortAndMask(events) ==
    /\ ~gone
    /\ port' = Port
    /\ mask' = events
    /\ UNCHANGED <<disableTokens, tokens, last, owed, gone>>

\* MUTANT: the mask of the port stays when it goes.
RemovePort_KeepsMask ==
    /\ port' = NoPort
    /\ gone' = TRUE
    /\ UNCHANGED <<disableTokens, mask, tokens, last, owed>>

\* RemovePort, for the close command, and RemoveAllPorts.  The tokens stay
\* as they are.
RemovePort ==
    /\ port' = NoPort
    /\ mask' = {}
    /\ gone' = TRUE
    /\ UNCHANGED <<disableTokens, tokens, last, owed>>

\* MUTANT: a token is only paid by a port that will have one left.
NextNotifyDartPort_KeepsOne ==
    /\ Mask # {}
    /\ MayOwe
    /\ tokens' = IF tokens > 1 THEN Spent(tokens) ELSE tokens
    /\ last' = port
    /\ owed' = OneMore(owed)
    /\ UNCHANGED <<disableTokens, port, mask, gone>>

\* An event of the mask is ready.
NextNotifyDartPort ==
    /\ Mask # {}
    /\ MayOwe
    /\ tokens' = Spent(tokens)
    /\ last' = port
    /\ owed' = OneMore(owed)
    /\ UNCHANGED <<disableTokens, port, mask, gone>>

\* A close, an error or the end of the descriptor, which comes after its port
\* is removed as well and then costs a token that nobody owes.
NotifyAllDartPorts ==
    /\ port # NoPort \/ gone
    /\ MayOwe
    /\ tokens' = Spent(tokens)
    /\ owed' = IF port # NoPort THEN OneMore(owed) ELSE owed
    /\ UNCHANGED <<disableTokens, port, mask, last, gone>>

\* The isolate has handled n of the events it was sent.
ReturnTokens(n) ==
    /\ ~gone /\ n \in 1 .. owed
    /\ tokens' = IF disableTokens THEN tokens ELSE tokens + n
    /\ owed' = owed - n
    /\ UNCHANGED <<disableTokens, port, mask, last, gone>>

SingleNext ==
    \/ \E events \in SUBSET Events : SetPortAndMask(events)
    \/ RemovePort
    \/ NextNotifyDartPort
    \/ NotifyAllDartPorts
    \/ \E n \in 1 .. owed : ReturnTokens(n)

SingleSpec == SingleInit /\ [][SingleNext]_single

-----------------------------------------------------------------------------
(* Properties.                                                             *)

\* The mask of a descriptor whose port has gone goes with it.
SingleTypeOK ==
    /\ disableTokens \in BOOLEAN
    /\ port \in {Port, NoPort}
    /\ mask \subseteq Events
    /\ port = NoPort => mask = {}
    /\ tokens \in Int
    /\ last \in {Port, NoPort}
    /\ owed \in Nat
    /\ gone \in BOOLEAN

\* While there is a port its tokens are here or with the isolate, through
\* every pause and broadcast: tokens_ never passes kTokenCount (ASSERT,
\* eventhandler.h:327) and the port is muted only while it has events to
\* answer (eventhandler.h:330-335).
TokensConserved ==
    ~gone => tokens = TokenCount - (IF disableTokens THEN 0 ELSE owed)

Interface == INSTANCE Descriptor WITH
    Ports <- {Port},
    ports <- [p \in {port} \ {NoPort} |-> [mask |-> mask, tokens |-> tokens]]

\* "Returns the union of event masks of all ports" (eventhandler.h:245-246):
\* a descriptor whose port has gone is interested in nothing.
MaskIsUnion == Mask = Interface!Mask

\* The mixin keeps every promise of DescriptorInfoBase
\* (eventhandler.h:212-256).
RefinesDescriptor == Interface!Spec

=============================================================================
