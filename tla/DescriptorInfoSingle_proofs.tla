-------------------- MODULE DescriptorInfoSingle_proofs --------------------
(***************************************************************************)
(* The tokens of a descriptor with one port are conserved, and it keeps    *)
(* the promises of DescriptorInfoBase.  The argument: until the port is    *)
(* set nothing is spent, so that it starts with all of its tokens; once it *)
(* is removed its mask is empty and nobody can be notified.                *)
(***************************************************************************)
EXTENDS DescriptorInfoSingle, TLAPS

\* A descriptor whose port has not been set.
Vacant ==
    port = NoPort /\ ~gone => tokens = TokenCount /\ owed = 0

GoneForGood == gone => port = NoPort

IInv ==
    /\ SingleTypeOK
    /\ TokensConserved
    /\ Vacant
    /\ GoneForGood

\* Each step preserves the invariant.
LEMMA StepKeepsIInv ==
    ASSUME IInv, [SingleNext]_single
    PROVE  IInv'
<1> USE SingleAssumption DEF IInv, SingleTypeOK, TokensConserved, Vacant,
        GoneForGood
<1>1. ASSUME NEW events \in SUBSET Events, SetPortAndMask(events) PROVE IInv'
    BY <1>1 DEF SetPortAndMask
<1>2. CASE RemovePort
    BY <1>2 DEF RemovePort
<1>3. CASE NextNotifyDartPort
    BY <1>3 DEF NextNotifyDartPort, Mask, MayOwe, Spent, OneMore
<1>4. CASE NotifyAllDartPorts
    BY <1>4 DEF NotifyAllDartPorts, MayOwe, Spent, OneMore
<1>5. ASSUME NEW n \in 1 .. owed, ReturnTokens(n) PROVE IInv'
    BY <1>5 DEF ReturnTokens
<1>6. CASE UNCHANGED single
    BY <1>6 DEF single
<1> QED BY <1>1, <1>2, <1>3, <1>4, <1>5, <1>6 DEF SingleNext

\* The inductive invariant always holds.
THEOREM Invariance == SingleSpec => []IInv
<1>1. SingleInit => IInv
    <2> USE SingleAssumption DEF SingleInit
    <2>1. SingleInit => SingleTypeOK
        <3>1. TokenCount \in Int /\ 0 \in Nat
            OBVIOUS
        <3> QED BY <3>1, Zenon DEF SingleTypeOK
    <2>2. SingleInit => TokensConserved
        BY DEF TokensConserved
    <2>3. SingleInit => Vacant /\ GoneForGood
        BY DEF Vacant, GoneForGood
    <2> QED BY <2>1, <2>2, <2>3 DEF IInv
<1> QED BY <1>1, StepKeepsIInv, PTL DEF SingleSpec

\* The one port's mask and tokens, as the abstract function.
View == [p \in {port} \ {NoPort} |-> [mask |-> mask, tokens |-> tokens]]

LEMMA ViewOfPort ==
    ASSUME IInv
    PROVE  /\ port = NoPort => DOMAIN View = {}
           /\ port = Port => /\ DOMAIN View = {Port}
                             /\ View[Port] = [mask |-> mask, tokens |-> tokens]
    BY SingleAssumption DEF View

\* Mask() is the union the interface speaks of.
LEMMA MaskOfView ==
    ASSUME IInv
    PROVE  Mask = Interface!Mask
<1>1. CASE port = NoPort
    BY <1>1 DEF IInv, SingleTypeOK, Mask, Interface!Mask, Interface!Known
<1>2. CASE port = Port
    <2>1. Interface!Known = {Port}
        BY <1>2, SingleAssumption DEF Interface!Known
    <2>2. Interface!Effective(Port) = Mask
        BY <1>2, SingleAssumption DEF Interface!Effective, Mask, IInv, SingleTypeOK
    <2> QED BY <2>1, <2>2 DEF Interface!Mask
<1> QED BY <1>1, <1>2 DEF IInv, SingleTypeOK

\* tokens_ never passes kTokenCount: with tokens, the descriptor is muted as
\* long as the isolate owes it as many, for any token count.
THEOREM MutedWhileOwed == SingleSpec => [](SingleTypeOK /\ TokensConserved)
<1>1. IInv => SingleTypeOK /\ TokensConserved
    BY DEF IInv
<1> QED BY <1>1, Invariance, PTL

\* Mask() is what eventhandler.h:245-246 says, for any token count and any
\* events: nothing while there is no port or its tokens are spent.
THEOREM MaskIsRight == SingleSpec => []MaskIsUnion
<1>1. IInv => MaskIsUnion
    BY MaskOfView DEF MaskIsUnion
<1> QED BY <1>1, Invariance, PTL

\* What can be notified in the abstract can be here.
LEMMA StepRefines ==
    ASSUME IInv, [SingleNext]_single
    PROVE  [Interface!Next]_<<disableTokens, View, last>>
<1> USE SingleAssumption DEF IInv, SingleTypeOK
<1>1. ASSUME NEW events \in SUBSET Events, SetPortAndMask(events)
      PROVE  Interface!SetPortAndMask(Port, events)
    <2>1. tokens = IF Port \in DOMAIN View THEN View[Port].tokens
                   ELSE TokenCount
        BY <1>1, ViewOfPort DEF SetPortAndMask, Vacant
    <2>2. View' = [q \in {Port} |-> [mask |-> events, tokens |-> tokens]]
        BY <1>1 DEF SetPortAndMask, View
    <2>3. DOMAIN View \cup {Port} = {Port}
        BY ViewOfPort
    <2> QED BY <1>1, <2>1, <2>2, <2>3
            DEF SetPortAndMask, View, Interface!SetPortAndMask, Interface!Known
<1>2. ASSUME RemovePort PROVE Interface!RemoveAllPorts
    BY <1>2 DEF RemovePort, View, Interface!RemoveAllPorts
<1>3. ASSUME NextNotifyDartPort PROVE Interface!NextNotifyDartPort(Port)
    <2>1. port = Port
        BY <1>3 DEF NextNotifyDartPort, Mask
    <2>2. Port \in DOMAIN View /\ Interface!Effective(Port) # {}
        BY <1>3, <2>1 DEF NextNotifyDartPort, Mask, View, Interface!Effective
    <2>3. View' = [View EXCEPT ![Port].tokens = Spent(@)]
        BY <1>3, <2>1 DEF NextNotifyDartPort, View
    <2> QED BY <1>3, <2>1, <2>2, <2>3 DEF NextNotifyDartPort, View, Spent,
               Interface!NextNotifyDartPort, Interface!Known, Interface!Spent
<1>4. ASSUME NotifyAllDartPorts PROVE Interface!NotifyAllDartPorts
    BY <1>4 DEF NotifyAllDartPorts, View, Spent, Interface!NotifyAllDartPorts,
       Interface!Known, Interface!Spent
<1>5. ASSUME NEW n \in 1 .. owed, ReturnTokens(n)
      PROVE  \/ Interface!ReturnTokens(Port)
             \/ UNCHANGED <<disableTokens, View, last>>
    <2>1. CASE disableTokens
        BY <1>5, <2>1 DEF ReturnTokens, View
    <2>2. CASE ~disableTokens
        <3>1. port = Port /\ tokens = TokenCount - owed
            BY <1>5, <2>2 DEF ReturnTokens, Vacant, TokensConserved
        <3>2. Port \in DOMAIN View /\ View[Port].tokens = tokens
            BY <3>1 DEF View
        <3>3. n \in 1 .. TokenCount - View[Port].tokens
            BY <1>5, <3>1, <3>2
        <3>4. View' = [View EXCEPT ![Port].tokens = @ + n]
            BY <1>5, <2>2, <3>1 DEF ReturnTokens, View
        <3> QED BY <1>5, <3>2, <3>3, <3>4 DEF ReturnTokens, View,
                   Interface!ReturnTokens, Interface!Known
    <2> QED BY <2>1, <2>2
<1>6. CASE UNCHANGED single
    BY <1>6 DEF single, View
<1> QED BY <1>1, <1>2, <1>3, <1>4, <1>5, <1>6 DEF SingleNext, Interface!Next

\* Every promise of DescriptorInfoBase is kept (eventhandler.h:212-256).
THEOREM ImplementsDescriptor == SingleSpec => RefinesDescriptor
<1>1. SingleInit => Interface!Init
    BY DEF SingleInit, Interface!Init
<1> QED BY <1>1, StepRefines, Invariance, PTL
        DEF SingleSpec, RefinesDescriptor, Interface!Spec, View

=============================================================================
