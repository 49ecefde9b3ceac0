----------------------- MODULE DescriptorInfo_proofs -----------------------
(***************************************************************************)
(* The ring of active readers and the tokens of a shared descriptor are    *)
(* right for any number of ports and tokens.  The argument: a port that is *)
(* neither in tokens_map_ nor closed is as it was at the start, so that it *)
(* can be entered there with all of its tokens.                            *)
(***************************************************************************)
EXTENDS DescriptorInfoMultiple, SequenceTheorems, TLAPS

-----------------------------------------------------------------------------
(* What the operations of the circular list do to its elements, for lists  *)
(* of any length in which nothing occurs twice.                            *)

\* Add puts a new element in the list and keeps the others.
LEMMA AddElement ==
    ASSUME NEW P, NEW s \in Seq(P), NEW x \in P, NoDuplicates(s),
           x \notin Elements(s)
    PROVE  /\ Add(s, x) \in Seq(P)
           /\ NoDuplicates(Add(s, x))
           /\ Elements(Add(s, x)) = Elements(s) \cup {x}
<1>1. /\ Append(s, x) \in Seq(P)
      /\ Len(Append(s, x)) = Len(s) + 1
      /\ \A i \in 1 .. Len(s) : Append(s, x)[i] = s[i]
      /\ Append(s, x)[Len(s) + 1] = x
    OBVIOUS
<1>2. Len(s) \in Nat
    OBVIOUS
<1>3. \A i \in 1 .. Len(s) + 1 : i \in 1 .. Len(s) \/ i = Len(s) + 1
    BY <1>2
<1>4. NoDuplicates(Append(s, x))
    BY <1>1, <1>2, <1>3 DEF NoDuplicates, Elements
<1>5. Elements(Append(s, x)) = Elements(s) \cup {x}
    BY <1>1, <1>2, <1>3 DEF Elements
<1> QED BY <1>1, <1>4, <1>5 DEF Add

\* RemoveHead takes the element at head_ and nothing else.
LEMMA RemoveHeadElement ==
    ASSUME NEW P, NEW s \in Seq(P), NoDuplicates(s), s # <<>>
    PROVE  /\ RemoveHead(s) \in Seq(P)
           /\ NoDuplicates(RemoveHead(s))
           /\ Elements(RemoveHead(s)) = Elements(s) \ {Head(s)}
<1>1. /\ Tail(s) \in Seq(P)
      /\ Len(Tail(s)) = Len(s) - 1
      /\ \A i \in 1 .. Len(s) - 1 : Tail(s)[i] = s[i + 1]
      /\ Len(s) \in Nat /\ Len(s) >= 1
      /\ Head(s) = s[1]
    BY HeadTailProperties, EmptySeq
<1>2. NoDuplicates(Tail(s))
    BY <1>1 DEF NoDuplicates
<1>3. ASSUME NEW y \in Elements(Tail(s))
      PROVE  y \in Elements(s) \ {Head(s)}
    BY <1>1 DEF Elements, NoDuplicates
<1>4. ASSUME NEW y \in Elements(s) \ {Head(s)}
      PROVE  y \in Elements(Tail(s))
    <2>1. PICK i \in 1 .. Len(s) : s[i] = y /\ i # 1
        BY <1>1 DEF Elements
    <2>2. i - 1 \in 1 .. Len(s) - 1 /\ Tail(s)[i - 1] = y
        BY <1>1, <2>1
    <2> QED BY <1>1, <2>2 DEF Elements
<1> QED BY <1>1, <1>2, <1>3, <1>4 DEF RemoveHead

\* Rotate keeps the elements.
LEMMA RotateElements ==
    ASSUME NEW P, NEW s \in Seq(P), NoDuplicates(s), s # <<>>
    PROVE  /\ Rotate(s) \in Seq(P)
           /\ NoDuplicates(Rotate(s))
           /\ Elements(Rotate(s)) = Elements(s)
<1> DEFINE r == Rotate(s)
           n == Len(s)
<1>1. n \in Nat /\ n >= 1
    BY EmptySeq
<1>2. \A i \in 1 .. n : s[i] \in P
    BY ElementOfSeq
<1>3. r \in [1 .. n -> P]
    BY <1>1, <1>2 DEF Rotate
<1>4. r \in Seq(P) /\ Len(r) = n
    BY <1>1, <1>3, SeqDef, LenProperties
<1>5. \A i \in 1 .. n : r[i] = IF i < n THEN s[i + 1] ELSE s[1]
    BY DEF Rotate
<1>6. NoDuplicates(r)
    BY <1>1, <1>4, <1>5 DEF NoDuplicates
<1>7. ASSUME NEW y \in Elements(r) PROVE y \in Elements(s)
    BY <1>1, <1>4, <1>5 DEF Elements
<1>8. ASSUME NEW y \in Elements(s) PROVE y \in Elements(r)
    <2>1. PICK i \in 1 .. n : s[i] = y
        BY DEF Elements
    <2>2. CASE i = 1
        <3>1. r[n] = y /\ n \in 1 .. n
            BY <1>1, <1>5, <2>1, <2>2
        <3> QED BY <1>4, <3>1 DEF Elements
    <2>3. CASE i # 1
        <3>1. r[i - 1] = y /\ i - 1 \in 1 .. n
            BY <1>1, <1>5, <2>1, <2>3
        <3> QED BY <1>4, <3>1 DEF Elements
    <2> QED BY <2>2, <2>3
<1> QED BY <1>4, <1>6, <1>7, <1>8

\* Remove takes the element where the list has it and nothing else.
LEMMA RemoveElement ==
    ASSUME NEW P, NEW s \in Seq(P), NoDuplicates(s), NEW x
    PROVE  /\ Remove(s, x) \in Seq(P)
           /\ NoDuplicates(Remove(s, x))
           /\ Elements(Remove(s, x)) = Elements(s) \ {x}
<1>1. CASE x \notin Elements(s)
    BY <1>1 DEF Remove
<1>2. CASE x \in Elements(s)
    <2> DEFINE n == Len(s)
               First(k) == s[k] = x /\ \A j \in 1 .. k - 1 : s[j] # x
               k == CHOOSE j \in 1 .. n : First(j)
               r == Drop(s, k)
    <2>1. n \in Nat /\ \A i \in 1 .. n : s[i] \in P
        BY ElementOfSeq
    <2>2. PICK j \in 1 .. n : s[j] = x
        BY <1>2 DEF Elements
    <2>3. First(j)
        BY <2>1, <2>2 DEF NoDuplicates
    <2>4. k \in 1 .. n /\ First(k)
        BY <2>3
    <2>5. Remove(s, x) = r
        BY <1>2 DEF Remove
    <2> HIDE DEF k
    <2>6. n - 1 \in Nat
        BY <2>1, <2>4
    <2>7. r \in [1 .. n - 1 -> P]
        BY <2>1, <2>4 DEF Drop
    <2>8. r \in Seq(P) /\ Len(r) = n - 1
        BY <2>6, <2>7, SeqDef, LenProperties
    <2>9. \A i \in 1 .. n - 1 : r[i] = IF i < k THEN s[i] ELSE s[i + 1]
        BY DEF Drop
    <2> HIDE DEF r
    <2>10. NoDuplicates(r)
        BY <2>1, <2>4, <2>8, <2>9 DEF NoDuplicates
    <2>11. ASSUME NEW y \in Elements(r) PROVE y \in Elements(s) \ {x}
        BY <2>1, <2>4, <2>8, <2>9 DEF Elements, NoDuplicates
    <2>12. ASSUME NEW y \in Elements(s) \ {x} PROVE y \in Elements(r)
        <3>1. PICK i \in 1 .. n : s[i] = y /\ i # k
            BY <2>4 DEF Elements
        <3>2. CASE i < k
            <4>1. r[i] = y /\ i \in 1 .. n - 1
                BY <2>1, <2>4, <2>9, <3>1, <3>2
            <4> QED BY <2>8, <4>1 DEF Elements
        <3>3. CASE i > k
            <4>1. r[i - 1] = y /\ i - 1 \in 1 .. n - 1
                BY <2>1, <2>4, <2>9, <3>1, <3>3
            <4> QED BY <2>8, <4>1 DEF Elements
        <3> QED BY <2>4, <3>1, <3>2, <3>3
    <2> QED BY <2>5, <2>8, <2>10, <2>11, <2>12
<1> QED BY <1>1, <1>2

-----------------------------------------------------------------------------
(* The invariant.                                                          *)

Pristine ==
    \A p \in Ports : p \notin known /\ p \notin gone =>
        tokens[p] = TokenCount /\ owed[p] = 0

IInv ==
    /\ TypeOK
    /\ ActiveReadersAreReady
    /\ TokensConserved
    /\ Pristine

-----------------------------------------------------------------------------
\* What the ring holds is known and ready.
LEMMA RingIsPorts ==
    ASSUME IInv
    PROVE  /\ NoDuplicates(active)
           /\ active \in Seq(Ports)
           /\ Elements(active) = {p \in known : IsReady(p)}
    BY DEF IInv, TypeOK, ActiveReadersAreReady

\* A port enters the ring when it becomes ready and leaves it when it pauses.
LEMMA SetPortAndMaskKeepsIInv ==
    ASSUME IInv, NEW p \in Ports, NEW read \in BOOLEAN,
           SetPortAndMask(p, read)
    PROVE  IInv'
<1> USE DescriptorAssumption DEF IInv, SetPortAndMask, IsReady
<1>1. /\ Add(active, p) \in Seq(Ports)
      /\ NoDuplicates(Add(active, p))
      /\ Elements(Add(active, p)) = Elements(active) \cup {p}
      \/ p \in Elements(active)
    BY RingIsPorts, AddElement
<1>2. /\ Remove(active, p) \in Seq(Ports)
      /\ NoDuplicates(Remove(active, p))
      /\ Elements(Remove(active, p)) = Elements(active) \ {p}
    BY RingIsPorts, RemoveElement
<1>3. TypeOK'
    BY <1>1, <1>2, RingIsPorts DEF TypeOK, Ready
<1>4. NoDuplicates(active')
    BY <1>1, <1>2, RingIsPorts
<1>5. Elements(active') = {q \in known' : IsReady(q)'}
    BY <1>1, <1>2, RingIsPorts DEF TypeOK
<1>6. TokensConserved'
    BY DEF TokensConserved, Pristine, TypeOK
<1>7. Pristine'
    BY DEF Pristine
<1> QED BY <1>3, <1>4, <1>5, <1>6, <1>7 DEF ActiveReadersAreReady

\* A closed port leaves the ring if it was in it.
LEMMA RemovePortKeepsIInv ==
    ASSUME IInv, NEW p \in Ports, RemovePort(p)
    PROVE  IInv'
<1> USE DescriptorAssumption DEF IInv, RemovePort, IsReady
<1>1. /\ Remove(active, p) \in Seq(Ports)
      /\ NoDuplicates(Remove(active, p))
      /\ Elements(Remove(active, p)) = Elements(active) \ {p}
    BY RingIsPorts, RemoveElement
<1>2. TypeOK'
    BY <1>1, RingIsPorts DEF TypeOK, Ready
<1>3. NoDuplicates(active') /\ Elements(active') = {q \in known' : IsReady(q)'}
    BY <1>1, RingIsPorts
<1>4. TokensConserved' /\ Pristine'
    BY DEF TokensConserved, Pristine
<1> QED BY <1>2, <1>3, <1>4 DEF ActiveReadersAreReady

\* A descriptor that is shut down has nobody left.
LEMMA RemoveAllPortsKeepsIInv ==
    ASSUME IInv, RemoveAllPorts
    PROVE  IInv'
<1> USE DEF IInv, RemoveAllPorts
<1>1. NoDuplicates(<<>>) /\ Elements(<<>>) = {}
    BY DEF NoDuplicates, Elements
<1>2. TypeOK'
    BY EmptySeq DEF TypeOK, Ready
<1>3. ActiveReadersAreReady'
    BY <1>1 DEF ActiveReadersAreReady, IsReady
<1>4. TokensConserved' /\ Pristine'
    BY DEF TokensConserved, Pristine
<1> QED BY <1>2, <1>3, <1>4

\* The port that is told spends a token, and goes last or leaves the ring.
LEMMA NextNotifyKeepsIInv ==
    ASSUME IInv, NextNotify
    PROVE  IInv'
<1> USE DescriptorAssumption DEF IInv
<1>1. CASE NextNotifyNobody
    BY <1>1 DEF NextNotifyNobody, info, TypeOK, ActiveReadersAreReady,
       TokensConserved, Pristine, IsReady
<1>2. ASSUME NEW p \in Ports, NextNotifyDartPort(p) PROVE IInv'
    <2> USE <1>2 DEF NextNotifyDartPort, HasHead, Spent, OneMore, MayOwe
    <2>1. /\ RemoveHead(active) \in Seq(Ports)
          /\ NoDuplicates(RemoveHead(active))
          /\ Elements(RemoveHead(active)) = Elements(active) \ {p}
        BY RingIsPorts, RemoveHeadElement
    <2>2. /\ Rotate(active) \in Seq(Ports)
          /\ NoDuplicates(Rotate(active))
          /\ Elements(Rotate(active)) = Elements(active)
        BY RingIsPorts, RotateElements
    <2>3. p \in Elements(active)
        <3>1. /\ Head(active) = active[1]
              /\ Len(active) \in Nat /\ Len(active) >= 1
            BY RingIsPorts, EmptySeq
        <3> QED BY <3>1 DEF Elements
    <2>4. p \in known /\ p \in reading /\ tokens[p] > 0
        BY <2>3, RingIsPorts DEF IsReady
    <2>5. TypeOK'
        <3>1. tokens' \in [Ports -> Int] /\ owed' \in [Ports -> Nat]
            BY DEF TypeOK
        <3>2. active' \in Seq(Ports)
            BY <2>1, <2>2
        <3> QED BY <3>1, <3>2 DEF TypeOK
    <2>6. NoDuplicates(active')
        BY <2>1, <2>2
    <2>7. Elements(active') = {q \in known' : IsReady(q)'}
        <3>1. \A q \in Ports : q # p => tokens'[q] = tokens[q]
            BY DEF TypeOK
        <3>2. CASE tokens'[p] <= 0
            <4>1. Elements(active') = {q \in known : IsReady(q)} \ {p}
                BY <2>1, <3>2, RingIsPorts
            <4> QED BY <3>1, <3>2, <4>1 DEF TypeOK, IsReady
        <3>3. CASE ~(tokens'[p] <= 0)
            <4>1. Elements(active') = {q \in known : IsReady(q)}
                BY <2>2, <3>3, RingIsPorts
            <4>2. tokens'[p] > 0
                BY <3>3 DEF TypeOK
            <4> QED BY <2>4, <3>1, <4>1, <4>2 DEF TypeOK, IsReady
        <3> QED BY <3>2, <3>3
    <2>8. TokensConserved'
        <3>1. ASSUME NEW q \in known, q # p
              PROVE  tokens'[q] = tokens[q] /\ owed'[q] = owed[q]
            BY <3>1 DEF TypeOK
        <3>2. /\ tokens'[p] = (IF disableTokens THEN tokens[p]
                               ELSE tokens[p] - 1)
              /\ ~disableTokens => owed'[p] = owed[p] + 1
            BY <2>4 DEF TypeOK
        <3> QED BY <2>4, <3>1, <3>2 DEF TokensConserved, TypeOK
    <2>9. Pristine'
        BY <2>4 DEF Pristine, TypeOK
    <2> QED BY <2>5, <2>6, <2>7, <2>8, <2>9 DEF ActiveReadersAreReady
<1> QED BY <1>1, <1>2 DEF NextNotify

\* The start of a broadcast changes nothing yet.
LEMMA NotifyAllKeepsIInv ==
    ASSUME IInv, NotifyAllDartPorts
    PROVE  IInv'
    BY DEF IInv, NotifyAllDartPorts, info, TypeOK, ActiveReadersAreReady,
       TokensConserved, Pristine, IsReady

\* A broadcast takes a port out of the ring with its last token.
LEMMA NotifyPortKeepsIInv ==
    ASSUME IInv, NEW p \in Ports, NotifyPort(p)
    PROVE  IInv'
<1> USE DescriptorAssumption DEF IInv, NotifyPort, Spent, OneMore, MayOwe
<1>1. /\ Remove(active, p) \in Seq(Ports)
      /\ NoDuplicates(Remove(active, p))
      /\ Elements(Remove(active, p)) = Elements(active) \ {p}
    BY RingIsPorts, RemoveElement
<1>2. p \in known
    BY DEF TypeOK
<1>3. TypeOK'
    BY <1>1, RingIsPorts DEF TypeOK
<1>4. NoDuplicates(active')
    BY <1>1, RingIsPorts
<1>5. Elements(active') = {q \in known' : IsReady(q)'}
    BY <1>1, <1>2, RingIsPorts DEF TypeOK, IsReady
<1>6. TokensConserved' /\ Pristine'
    BY <1>2 DEF TokensConserved, Pristine, TypeOK
<1> QED BY <1>3, <1>4, <1>5, <1>6 DEF ActiveReadersAreReady

\* A port that had none is back in the ring with its first token.
LEMMA ReturnTokensKeepsIInv ==
    ASSUME IInv, NEW p \in Ports, NEW n \in 1 .. owed[p], ReturnTokens(p, n)
    PROVE  IInv'
<1> USE DescriptorAssumption DEF IInv, ReturnTokens
<1>1. /\ Add(active, p) \in Seq(Ports)
      /\ NoDuplicates(Add(active, p))
      /\ Elements(Add(active, p)) = Elements(active) \cup {p}
      \/ p \in Elements(active)
    BY RingIsPorts, AddElement
<1>2. owed[p] \in Nat /\ n \in Nat /\ n >= 1 /\ n <= owed[p]
    BY DEF TypeOK
<1>3. p \in known
    BY <1>2 DEF Pristine
<1>4. TypeOK'
    BY <1>1, <1>2, RingIsPorts DEF TypeOK, IsReady
<1>5. NoDuplicates(active')
    BY <1>1, RingIsPorts DEF IsReady
<1>6. Elements(active') = {q \in known' : IsReady(q)'}
    BY <1>1, <1>2, <1>3, RingIsPorts DEF TypeOK, IsReady
<1>7. TokensConserved' /\ Pristine'
    BY <1>2, <1>3 DEF TokensConserved, Pristine, TypeOK
<1> QED BY <1>4, <1>5, <1>6, <1>7 DEF ActiveReadersAreReady

-----------------------------------------------------------------------------
\* The inductive invariant holds from the first command on.
THEOREM Invariance == Spec => []IInv
<1>1. Init => IInv
    <2>1. NoDuplicates(<<>>) /\ Elements(<<>>) = {}
        BY DEF NoDuplicates, Elements
    <2> QED BY <2>1, DescriptorAssumption, EmptySeq
            DEF Init, IInv, TypeOK, ActiveReadersAreReady, TokensConserved,
                Pristine, IsReady
<1>2. IInv /\ [Next]_vars => IInv'
    <2> SUFFICES ASSUME IInv, [Next]_vars PROVE IInv'
        OBVIOUS
    <2>1. CASE UNCHANGED vars
        BY <2>1 DEF vars, IInv, TypeOK, ActiveReadersAreReady,
           TokensConserved, Pristine, IsReady
    <2>2. CASE Next
        BY <2>2, SetPortAndMaskKeepsIInv, ReturnTokensKeepsIInv,
           RemovePortKeepsIInv, NotifyPortKeepsIInv, RemoveAllPortsKeepsIInv,
           NextNotifyKeepsIInv, NotifyAllKeepsIInv DEF Next
    <2> QED BY <2>1, <2>2
<1> QED BY <1>1, <1>2, PTL DEF Spec

\* active_readers_ holds exactly the ports that read and have tokens, with
\* tokens and without them, for any number of ports (eventhandler.h:398-550).
THEOREM RingIsExact == Spec => [](TypeOK /\ ActiveReadersAreReady)
<1>1. IInv => TypeOK /\ ActiveReadersAreReady
    BY DEF IInv
<1> QED BY <1>1, Invariance, PTL

\* No token is lost or made: token_count never passes kTokenCount (ASSERT,
\* eventhandler.h:545), through any broadcast, pause and return.
THEOREM TokensAreConserved == Spec => []TokensConserved
<1>1. IInv => TokensConserved
    BY DEF IInv
<1> QED BY <1>1, Invariance, PTL

\* ReturnTokens finds the port it was called for in tokens_map_ (ASSERT,
\* eventhandler.h:538): a port that is neither known nor closed was never
\* told of an event.
THEOREM ReturnedToKnown == Spec => []ReturnFindsEntry
<1>1. IInv => ReturnFindsEntry
    BY DEF IInv, Pristine, ReturnFindsEntry, TypeOK
<1> QED BY <1>1, Invariance, PTL

-----------------------------------------------------------------------------
(* The mixin implements Descriptor, the broadcast taken as done when it     *)
(* begins: its later turns change nothing the event handler sees.          *)

Interest(p) ==
    [mask |-> IF p \in reading THEN {"in"} ELSE {},
     tokens |-> IF p \in notifying THEN Spent(tokens[p]) ELSE tokens[p]]

View == [p \in known |-> Interest(p)]

\* A port's tokens and mask change only as its own commands say.
LEMMA SetPortAndMaskRefines ==
    ASSUME IInv, NEW p \in Ports, NEW read \in BOOLEAN,
           SetPortAndMask(p, read)
    PROVE  \E mask \in SUBSET {"in"} : Abstract!SetPortAndMask(p, mask)
<1> DEFINE mask == IF read THEN {"in"} ELSE {}
<1>1. p \notin known => tokens[p] = TokenCount
    BY DEF IInv, Pristine, SetPortAndMask
<1>2. \A q \in known' : q # p => q \in known /\ Interest(q)' = Interest(q)
    BY DEF SetPortAndMask, Interest, Ready, Spent
<1>3. Interest(p)' = [mask |-> mask, tokens |-> tokens[p]]
    BY DEF SetPortAndMask, Interest, Ready
<1>4. p \in known => View[p].tokens = tokens[p]
    BY DEF SetPortAndMask, View, Interest, Ready
<1>5. View' = [q \in known \cup {p} |->
                 IF q # p THEN View[q]
                 ELSE [mask |-> mask,
                       tokens |-> IF p \in known THEN View[p].tokens
                                  ELSE TokenCount]]
    BY <1>1, <1>2, <1>3, <1>4 DEF View, SetPortAndMask
<1>6. Abstract!SetPortAndMask(p, mask)
    BY <1>5 DEF Abstract!SetPortAndMask, Abstract!Known, View, Interest,
       SetPortAndMask
<1> QED BY <1>6

\* A removed port takes nothing of another port's along.
LEMMA RemoveRefines ==
    /\ \A p \in Ports : RemovePort(p) => Abstract!RemovePort(p)
    /\ RemoveAllPorts => Abstract!RemoveAllPorts
<1>1. ASSUME NEW p \in Ports, RemovePort(p) PROVE Abstract!RemovePort(p)
    <2>1. View' = [q \in known \ {p} |-> View[q]]
        BY <1>1 DEF RemovePort, View, Interest, Ready, Spent
    <2> QED BY <1>1, <2>1 DEF RemovePort, Abstract!RemovePort,
               Abstract!Known, View, Interest
<1>2. ASSUME RemoveAllPorts PROVE Abstract!RemoveAllPorts
    BY <1>2 DEF RemoveAllPorts, Abstract!RemoveAllPorts
<1> QED BY <1>1, <1>2

\* The port that is told is one that can be told: it heads the ring.
LEMMA NextNotifyRefines ==
    ASSUME IInv, NextNotify
    PROVE  \/ Abstract!NextNotifyNobody
           \/ \E p \in Ports : Abstract!NextNotifyDartPort(p)
<1>1. TypeOK
    BY DEF IInv
<1>2. CASE NextNotifyNobody
    <2>1. Elements(active) = {}
        BY <1>2 DEF NextNotifyNobody, HasHead, Elements
    <2>2. \A p \in known : ~IsReady(p) /\ p \notin notifying
        BY <1>2, <2>1, RingIsPorts DEF NextNotifyNobody, Ready
    <2>3. \A p \in known : Abstract!Effective(p) = {}
        BY <2>2 DEF Abstract!Effective, IsReady
    <2>4. Abstract!Mask = {}
        BY <2>3 DEF Abstract!Mask, Abstract!Known
    <2>5. View' = View
        BY <1>2 DEF NextNotifyNobody, info, View, Interest, Spent
    <2>6. Abstract!NextNotifyNobody
        BY <1>2, <2>4, <2>5 DEF NextNotifyNobody, Abstract!NextNotifyNobody,
           View, Interest
    <2> QED BY <2>6
<1>3. ASSUME NEW p \in Ports, NextNotifyDartPort(p)
      PROVE  Abstract!NextNotifyDartPort(p)
    <2>1. p \in Elements(active)
        <3>1. /\ Head(active) = active[1]
              /\ Len(active) \in Nat /\ Len(active) >= 1
            BY <1>3, RingIsPorts, EmptySeq DEF NextNotifyDartPort, HasHead
        <3> QED BY <1>3, <3>1 DEF NextNotifyDartPort, Elements
    <2>2. p \in known /\ p \in reading /\ tokens[p] > 0 /\ p \notin notifying
        BY <1>3, <2>1, RingIsPorts DEF IsReady, NextNotifyDartPort, Ready
    <2>3. Abstract!Effective(p) # {}
        BY <2>2 DEF Abstract!Effective
    <2>4. View' = [View EXCEPT ![p].tokens = Spent(@)]
        <3>1. \A q \in known : q # p => Interest(q)' = Interest(q)
            BY <1>1, <1>3 DEF NextNotifyDartPort, Interest, Spent, TypeOK
        <3>2. Interest(p)' = [Interest(p) EXCEPT !.tokens = Spent(@)]
            <4>1. tokens'[p] = Spent(tokens[p])
                BY <1>1, <1>3 DEF NextNotifyDartPort, TypeOK
            <4> QED BY <1>3, <2>2, <4>1 DEF NextNotifyDartPort, Interest, Spent
        <3> QED BY <1>3, <3>1, <3>2 DEF View, NextNotifyDartPort
    <2> QED BY <1>3, <2>2, <2>3, <2>4 DEF NextNotifyDartPort, View, Interest,
               Abstract!NextNotifyDartPort, Abstract!Known, Abstract!Spent,
               Spent
<1> QED BY <1>2, <1>3 DEF NextNotify

\* A broadcast costs every known port its token when it begins, ...
LEMMA NotifyAllRefines ==
    ASSUME NotifyAllDartPorts
    PROVE  Abstract!NotifyAllDartPorts
<1>1. View' = [p \in known |-> [View[p] EXCEPT !.tokens = Spent(@)]]
    BY DEF NotifyAllDartPorts, info, Ready, View, Interest, Spent
<1> QED BY <1>1 DEF NotifyAllDartPorts, info, View, Interest, Spent,
           Abstract!NotifyAllDartPorts, Abstract!Known, Abstract!Spent

\* ... so that reaching one of them is no step at all.
LEMMA NotifyPortStutters ==
    ASSUME IInv, NEW p \in Ports, NotifyPort(p)
    PROVE  View' = View /\ UNCHANGED <<disableTokens, last>>
<1>1. \A q \in known : Interest(q)' = Interest(q)
    BY DEF IInv, TypeOK, NotifyPort, Interest, Spent
<1> QED BY <1>1 DEF NotifyPort, View

\* What an isolate returns was spent.
LEMMA ReturnTokensRefines ==
    ASSUME IInv, NEW p \in Ports, NEW n \in 1 .. owed[p], ReturnTokens(p, n)
    PROVE  \/ Abstract!ReturnTokens(p)
           \/ View' = View /\ UNCHANGED <<disableTokens, last>>
<1>1. owed[p] \in Nat /\ n \in Nat /\ n >= 1 /\ n <= owed[p]
    BY DEF IInv, TypeOK
<1>2. p \in known /\ p \notin notifying
    BY <1>1 DEF IInv, Pristine, ReturnTokens, Ready
<1>3. CASE disableTokens
    <2>1. \A q \in known : Interest(q)' = Interest(q)
        BY <1>3 DEF IInv, TypeOK, ReturnTokens, Interest, Spent
    <2> QED BY <2>1 DEF ReturnTokens, View
<1>4. CASE ~disableTokens
    <2>1. View[p].tokens = TokenCount - owed[p]
        BY <1>2, <1>4 DEF IInv, TokensConserved, View, Interest
    <2>2. n \in 1 .. TokenCount - View[p].tokens
        BY <1>1, <2>1, DescriptorAssumption
    <2>3. View' = [View EXCEPT ![p].tokens = @ + n]
        <3>1. \A q \in known : q # p => Interest(q)' = Interest(q)
            BY DEF IInv, TypeOK, ReturnTokens, Interest, Spent
        <3>2. Interest(p)' = [Interest(p) EXCEPT !.tokens = @ + n]
            <4>1. tokens[p] \in Int /\ n \in Int /\ tokens'[p] = tokens[p] + n
                BY <1>1, <1>4 DEF IInv, TypeOK, ReturnTokens
            <4>2. notifying' = notifying /\ reading' = reading
                BY DEF ReturnTokens
            <4> QED BY <1>2, <4>1, <4>2 DEF Interest, Spent
        <3> QED BY <3>1, <3>2 DEF View, ReturnTokens
    <2>4. Abstract!ReturnTokens(p)
        BY <1>2, <2>2, <2>3 DEF ReturnTokens, Abstract!ReturnTokens,
           Abstract!Known, View, Interest
    <2> QED BY <2>4
<1> QED BY <1>3, <1>4

\* Every promise of DescriptorInfoBase is kept (eventhandler.h:212-256), for
\* any number of ports and tokens.
THEOREM ImplementsDescriptor == Spec => RefinesDescriptor
<1>1. Init => Abstract!Init
    BY DEF Init, Abstract!Init
<1>2. IInv /\ [Next]_vars => [Abstract!Next]_<<disableTokens, View, last>>
    <2> SUFFICES ASSUME IInv, [Next]_vars
                 PROVE  \/ Abstract!Next
                        \/ UNCHANGED <<disableTokens, View, last>>
        OBVIOUS
    <2>1. CASE UNCHANGED vars
        BY <2>1 DEF vars, View, Interest, Spent
    <2>2. ASSUME NEW p \in Ports, NEW read \in BOOLEAN, SetPortAndMask(p, read)
          PROVE  Abstract!Next
        BY <2>2, SetPortAndMaskRefines DEF Abstract!Next
    <2>3. ASSUME NEW p \in Ports, NEW n \in 1 .. owed[p], ReturnTokens(p, n)
          PROVE  Abstract!Next \/ UNCHANGED <<disableTokens, View, last>>
        BY <2>3, ReturnTokensRefines DEF Abstract!Next
    <2>4. ASSUME NEW p \in Ports, RemovePort(p) PROVE Abstract!Next
        BY <2>4, RemoveRefines DEF Abstract!Next
    <2>5. ASSUME NEW p \in Ports, NotifyPort(p)
          PROVE  UNCHANGED <<disableTokens, View, last>>
        BY <2>5, NotifyPortStutters
    <2>6. CASE RemoveAllPorts
        BY <2>6, RemoveRefines DEF Abstract!Next
    <2>7. CASE NextNotify
        BY <2>7, NextNotifyRefines DEF Abstract!Next
    <2>8. CASE NotifyAllDartPorts
        BY <2>8, NotifyAllRefines DEF Abstract!Next
    <2> QED BY <2>1, <2>2, <2>3, <2>4, <2>5, <2>6, <2>7, <2>8 DEF Next
<1> QED BY <1>1, <1>2, Invariance, PTL
        DEF Spec, RefinesDescriptor, Abstract!Spec, View, Interest

\* Between two commands the ring has a head exactly if a port that reads has
\* tokens: the union of the masks that DescriptorInfoBase speaks of
\* (eventhandler.h:245-246), for any ports.
THEOREM MaskIsRight == Spec => []MaskIsUnion
<1>1. ASSUME IInv, Ready PROVE Mask = Abstract!Mask
    <2>1. Abstract!Known = known
        BY DEF Abstract!Known
    <2>2. ASSUME NEW p \in known
          PROVE  Abstract!Effective(p) = IF IsReady(p) THEN {"in"} ELSE {}
        BY <1>1 DEF Abstract!Effective, IsReady, Ready
    <2>3. Abstract!Mask = IF \E p \in known : IsReady(p) THEN {"in"} ELSE {}
        BY <2>1, <2>2 DEF Abstract!Mask
    <2>4. HasHead(active) <=> Elements(active) # {}
        BY <1>1, RingIsPorts DEF HasHead, Elements
    <2>5. Elements(active) # {} <=> \E p \in known : IsReady(p)
        BY <1>1, RingIsPorts
    <2> QED BY <2>3, <2>4, <2>5 DEF Mask
<1>2. IInv => MaskIsUnion
    BY <1>1 DEF MaskIsUnion
<1> QED BY <1>2, Invariance, PTL

-----------------------------------------------------------------------------
(* The order in the ring.                                                  *)

\* Where p is in s, and who is before it.
LEMMA AheadOfPlace ==
    ASSUME NEW s \in Seq(Ports), NoDuplicates(s), NEW k \in 1 .. Len(s)
    PROVE  Ahead(s, s[k]) = {s[i] : i \in 1 .. k - 1}
<1>1. \A j \in 1 .. Len(s) : s[j] = s[k] => j = k
    BY DEF NoDuplicates
<1>2. (CHOOSE j \in 1 .. Len(s) : s[j] = s[k]) = k
    BY <1>1
<1> QED BY <1>2 DEF Ahead

\* Nobody gets ahead of p in t who is not ahead of it in s, if all before p
\* in t are before it in s.
LEMMA AheadShrinks ==
    ASSUME NEW s \in Seq(Ports), NoDuplicates(s),
           NEW t \in Seq(Ports), NoDuplicates(t),
           NEW k \in 1 .. Len(s), NEW l \in 1 .. Len(t), s[k] = t[l],
           \A i \in 1 .. l - 1 : \E j \in 1 .. k - 1 : t[i] = s[j]
    PROVE  Ahead(t, s[k]) \subseteq Ahead(s, s[k])
<1>1. Ahead(s, s[k]) = {s[j] : j \in 1 .. k - 1}
    BY AheadOfPlace
<1>2. Ahead(t, t[l]) = {t[i] : i \in 1 .. l - 1}
    BY AheadOfPlace
<1>3. ASSUME NEW i \in 1 .. l - 1
      PROVE  t[i] \in {s[j] : j \in 1 .. k - 1}
    OBVIOUS
<1> QED BY <1>1, <1>2, <1>3

\* A new element comes after all others.
LEMMA AddInOrder ==
    ASSUME NEW s \in Seq(Ports), NoDuplicates(s),
           NEW x \in Ports, x \notin Elements(s), NEW p \in Elements(s)
    PROVE  Ahead(Add(s, x), p) \subseteq Ahead(s, p)
<1> DEFINE t == Append(s, x)
<1>1. t \in Seq(Ports) /\ NoDuplicates(t) /\ Add(s, x) = t
    BY AddElement DEF Add
<1>2. PICK k \in 1 .. Len(s) : s[k] = p
    BY DEF Elements
<1>3. Len(s) \in Nat /\ k \in 1 .. Len(t) /\ \A i \in 1 .. k : t[i] = s[i]
    OBVIOUS
<1> HIDE DEF t
<1>4. k \in 1 .. k /\ \A i \in 1 .. k - 1 : i \in 1 .. k
    BY <1>3
<1> QED BY <1>1, <1>2, <1>3, <1>4, AheadShrinks

\* When the head goes, or goes to the end, the others move up.
LEMMA HeadInOrder ==
    ASSUME NEW s \in Seq(Ports), NoDuplicates(s), s # <<>>,
           NEW p \in Elements(s), p # Head(s)
    PROVE  /\ Ahead(RemoveHead(s), p) \subseteq Ahead(s, p)
           /\ Ahead(Rotate(s), p) \subseteq Ahead(s, p)
<1>1. PICK k \in 1 .. Len(s) : s[k] = p
    BY DEF Elements
<1>2. Len(s) \in Nat /\ Len(s) >= 1 /\ Head(s) = s[1]
    BY EmptySeq
<1>3. k # 1 /\ k - 1 \in 1 .. Len(s) - 1
    BY <1>1, <1>2
<1>4. /\ RemoveHead(s) \in Seq(Ports) /\ NoDuplicates(RemoveHead(s))
      /\ Len(RemoveHead(s)) = Len(s) - 1
      /\ \A i \in 1 .. Len(s) - 1 : RemoveHead(s)[i] = s[i + 1]
    <2>1. /\ Len(Tail(s)) = Len(s) - 1
          /\ \A i \in 1 .. Len(s) - 1 : Tail(s)[i] = s[i + 1]
        BY HeadTailProperties
    <2> QED BY <2>1, RemoveHeadElement DEF RemoveHead
<1>5. /\ Rotate(s) \in Seq(Ports) /\ NoDuplicates(Rotate(s))
      /\ Len(Rotate(s)) = Len(s)
      /\ \A i \in 1 .. Len(s) - 1 : Rotate(s)[i] = s[i + 1]
    <2>1. /\ \A i \in 1 .. Len(s) - 1 : Rotate(s)[i] = s[i + 1]
          /\ DOMAIN Rotate(s) = 1 .. Len(s)
        BY <1>2 DEF Rotate
    <2>2. Rotate(s) \in Seq(Ports) /\ NoDuplicates(Rotate(s))
        BY RotateElements
    <2> QED BY <1>2, <2>1, <2>2
<1>6. \A i \in 1 .. (k - 1) - 1 : i + 1 \in 1 .. k - 1 /\ i \in 1 .. Len(s) - 1
    BY <1>2, <1>3
<1>7. Ahead(RemoveHead(s), s[k]) \subseteq Ahead(s, s[k])
    <2> DEFINE t == RemoveHead(s)
    <2>1. k - 1 \in 1 .. Len(t) /\ t[k - 1] = s[k]
        BY <1>2, <1>3, <1>4
    <2>2. \A i \in 1 .. (k - 1) - 1 : \E j \in 1 .. k - 1 : t[i] = s[j]
        BY <1>4, <1>6
    <2> QED BY <1>4, <2>1, <2>2, AheadShrinks
<1>8. Ahead(Rotate(s), s[k]) \subseteq Ahead(s, s[k])
    <2> DEFINE t == Rotate(s)
    <2>1. k - 1 \in 1 .. Len(t) /\ t[k - 1] = s[k]
        BY <1>2, <1>3, <1>5
    <2>2. \A i \in 1 .. (k - 1) - 1 : \E j \in 1 .. k - 1 : t[i] = s[j]
        BY <1>5, <1>6
    <2> HIDE DEF t
    <2>3. Ahead(t, s[k]) \subseteq Ahead(s, s[k])
        BY <1>5, <2>1, <2>2, AheadShrinks DEF t
    <2> QED BY <2>3 DEF t
<1> QED BY <1>1, <1>7, <1>8

\* When another goes, those after it move up.
LEMMA RemoveInOrder ==
    ASSUME NEW s \in Seq(Ports), NoDuplicates(s), NEW x,
           NEW p \in Elements(s), p # x
    PROVE  Ahead(Remove(s, x), p) \subseteq Ahead(s, p)
<1>1. CASE x \notin Elements(s)
    BY <1>1 DEF Remove
<1>2. CASE x \in Elements(s)
    <2> DEFINE n == Len(s)
               First(k) == s[k] = x /\ \A j \in 1 .. k - 1 : s[j] # x
               c == CHOOSE j \in 1 .. n : First(j)
               t == Drop(s, c)
    <2>1. n \in Nat
        OBVIOUS
    <2>2. PICK j \in 1 .. n : s[j] = x
        BY <1>2 DEF Elements
    <2>3. First(j)
        BY <2>1, <2>2 DEF NoDuplicates
    <2>4. c \in 1 .. n /\ s[c] = x
        BY <2>3
    <2>5. Remove(s, x) = t
        BY <1>2 DEF Remove
    <2> HIDE DEF c
    <2>6. /\ DOMAIN t = 1 .. n - 1
          /\ \A i \in 1 .. n - 1 : t[i] = IF i < c THEN s[i] ELSE s[i + 1]
        BY DEF Drop
    <2>7. t \in Seq(Ports) /\ NoDuplicates(t)
        BY <2>5, RemoveElement
    <2>8. Len(t) = n - 1
        BY <2>1, <2>4, <2>6, <2>7
    <2> HIDE DEF t
    <2>9. PICK k \in 1 .. n : s[k] = p
        BY DEF Elements
    <2>10. k # c
        BY <2>4, <2>9
    <2>11. CASE k < c
        <3>1. k \in 1 .. Len(t) /\ t[k] = s[k]
            BY <2>1, <2>4, <2>6, <2>8, <2>11
        <3>2. ASSUME NEW i \in 1 .. k - 1 PROVE t[i] = s[i]
            BY <2>1, <2>4, <2>6, <2>11
        <3> QED BY <2>5, <2>7, <2>9, <3>1, <3>2, AheadShrinks
    <2>12. CASE k > c
        <3>1. k - 1 \in 1 .. Len(t) /\ t[k - 1] = s[k]
            BY <2>1, <2>4, <2>6, <2>8, <2>12
        <3>2. ASSUME NEW i \in 1 .. (k - 1) - 1
              PROVE  \E l \in 1 .. k - 1 : t[i] = s[l]
            <4>1. i \in 1 .. n - 1 /\ i \in 1 .. k - 1 /\ i + 1 \in 1 .. k - 1
                BY <2>1, <2>12
            <4> QED BY <2>6, <4>1
        <3> QED BY <2>5, <2>7, <2>9, <3>1, <3>2, AheadShrinks
    <2> QED BY <2>1, <2>4, <2>9, <2>10, <2>11, <2>12
<1> QED BY <1>1, <1>2

\* Turns are taken in order, for any number of ports: nobody gets ahead of a
\* port that waits, whatever ports come, go, pause and are notified.
THEOREM TurnsInOrder == Spec => NeverPassed
<1> DEFINE Kept == \A p \in Elements(active) \cap Elements(active') :
                     p # Head(active) => Ahead(active', p) \subseteq Ahead(active, p)
<1>1. ASSUME IInv, [Next]_vars, IInv' PROVE Kept
    <2>0. /\ active \in Seq(Ports) /\ NoDuplicates(active)
          /\ Elements(active) = {p \in known : IsReady(p)}
          /\ Elements(active') = {p \in known' : IsReady(p)'}
        BY <1>1, RingIsPorts DEF IInv, ActiveReadersAreReady
    <2> SUFFICES ASSUME NEW p \in Elements(active), p \in Elements(active'),
                        p # Head(active)
                 PROVE  Ahead(active', p) \subseteq Ahead(active, p)
        OBVIOUS
    <2>1. CASE active' = active
        BY <2>1
    <2>2. ASSUME NEW x \in Ports, active' = Add(active, x), x \notin Elements(active)
          PROVE  Ahead(active', p) \subseteq Ahead(active, p)
        BY <2>0, <2>2, AddInOrder
    <2>3. ASSUME NEW x, active' = Remove(active, x)
          PROVE  Ahead(active', p) \subseteq Ahead(active, p)
        <3>1. p # x
            BY <2>0, <2>3, RemoveElement
        <3> QED BY <2>0, <2>3, <3>1, RemoveInOrder
    <2>4. ASSUME HasHead(active),
                 active' = RemoveHead(active) \/ active' = Rotate(active)
          PROVE  Ahead(active', p) \subseteq Ahead(active, p)
        BY <2>0, <2>4, HeadInOrder DEF HasHead
    <2>5. CASE active' = <<>>
        BY <2>5 DEF Elements
    <2>6. ASSUME NEW q \in Ports, NEW read \in BOOLEAN, SetPortAndMask(q, read)
          PROVE  Ahead(active', p) \subseteq Ahead(active, p)
        BY <2>0, <2>1, <2>2, <2>3, <2>6 DEF SetPortAndMask
    <2>7. ASSUME NEW q \in Ports, NEW n \in 1 .. owed[q], ReturnTokens(q, n)
          PROVE  Ahead(active', p) \subseteq Ahead(active, p)
        BY <2>0, <2>1, <2>2, <2>7 DEF ReturnTokens
    <2>8. ASSUME NEW q \in Ports, RemovePort(q)
          PROVE  Ahead(active', p) \subseteq Ahead(active, p)
        BY <2>1, <2>3, <2>8 DEF RemovePort
    <2>9. ASSUME NEW q \in Ports, NotifyPort(q)
          PROVE  Ahead(active', p) \subseteq Ahead(active, p)
        BY <2>1, <2>3, <2>9 DEF NotifyPort
    <2>10. CASE RemoveAllPorts
        BY <2>5, <2>10 DEF RemoveAllPorts
    <2>11. CASE NextNotify
        BY <2>1, <2>4, <2>11
           DEF NextNotify, NextNotifyDartPort, NextNotifyNobody, info
    <2>12. CASE NotifyAllDartPorts
        BY <2>1, <2>12 DEF NotifyAllDartPorts, info
    <2>13. CASE UNCHANGED vars
        BY <2>1, <2>13 DEF vars
    <2> QED BY <1>1, <2>6, <2>7, <2>8, <2>9, <2>10, <2>11, <2>12, <2>13 DEF Next
<1> QED BY <1>1, Invariance, PTL DEF NeverPassed, Spec

-----------------------------------------------------------------------------
(* What EveryReaderIsServed needs besides fairness: each event brings a    *)
(* port that waits one place nearer to the head, and a broadcast ends.     *)

\* The ports behind the head move up by one place, whether the head goes or
\* goes to the end.
LEMMA HeadMovesUp ==
    ASSUME NEW s \in Seq(Ports), NoDuplicates(s), s # <<>>,
           NEW p \in Elements(s), p # Head(s),
           NEW t, t = RemoveHead(s) \/ t = Rotate(s)
    PROVE  /\ p \in Elements(t)
           /\ Ahead(t, p) = Ahead(s, p) \ {Head(s)}
           /\ Head(s) \in Ahead(s, p)
<1>1. PICK k \in 1 .. Len(s) : s[k] = p
    BY DEF Elements
<1>2. Len(s) \in Nat /\ Len(s) >= 1 /\ Head(s) = s[1] /\ 1 \in 1 .. Len(s)
    BY EmptySeq
<1>3. k # 1 /\ k - 1 \in 1 .. Len(s) - 1
    BY <1>1, <1>2
<1>4. /\ t \in Seq(Ports) /\ NoDuplicates(t) /\ p \in Elements(t)
      /\ Len(t) >= Len(s) - 1 /\ Len(t) \in Nat
      /\ \A i \in 1 .. Len(s) - 1 : t[i] = s[i + 1]
    <2>1. CASE t = RemoveHead(s)
        <3>1. /\ Len(Tail(s)) = Len(s) - 1
              /\ \A i \in 1 .. Len(s) - 1 : Tail(s)[i] = s[i + 1]
            BY HeadTailProperties
        <3> QED BY <1>2, <2>1, <3>1, RemoveHeadElement DEF RemoveHead
    <2>2. CASE t = Rotate(s)
        <3>1. /\ \A i \in 1 .. Len(s) - 1 : t[i] = s[i + 1]
              /\ DOMAIN t = 1 .. Len(s)
            BY <1>2, <2>2 DEF Rotate
        <3>2. t \in Seq(Ports) /\ NoDuplicates(t) /\ p \in Elements(t)
            BY <2>2, RotateElements
        <3>3. Len(t) = Len(s)
            BY <1>2, <3>1, <3>2
        <3> QED BY <1>2, <3>1, <3>2, <3>3
    <2> QED BY <2>1, <2>2
<1>5. Ahead(s, p) = {s[j] : j \in 1 .. k - 1}
    BY <1>1, AheadOfPlace
<1>6. Ahead(t, p) = {t[i] : i \in 1 .. (k - 1) - 1}
    <2>1. k - 1 \in 1 .. Len(t) /\ t[k - 1] = p
        BY <1>1, <1>2, <1>3, <1>4
    <2> QED BY <1>4, <2>1, AheadOfPlace
<1>7. {t[i] : i \in 1 .. (k - 1) - 1} = {s[j] : j \in 2 .. k - 1}
    <2>1. \A i \in 1 .. (k - 1) - 1 : i + 1 \in 2 .. k - 1 /\ t[i] = s[i + 1]
        BY <1>2, <1>3, <1>4
    <2>2. \A j \in 2 .. k - 1 : j - 1 \in 1 .. (k - 1) - 1 /\ t[j - 1] = s[j]
        BY <1>2, <1>3, <1>4
    <2> QED BY <2>1, <2>2
<1>8. \A j \in 1 .. k - 1 : s[j] = Head(s) <=> j = 1
    BY <1>2, <1>3 DEF NoDuplicates
<1>9. {s[j] : j \in 2 .. k - 1} = {s[j] : j \in 1 .. k - 1} \ {Head(s)}
    <2>1. \A j \in 2 .. k - 1 : j \in 1 .. k - 1 /\ j # 1
        BY <1>3
    <2>2. \A j \in 1 .. k - 1 : j # 1 => j \in 2 .. k - 1
        BY <1>3
    <2> QED BY <1>8, <2>1, <2>2
<1>10. Head(s) \in {s[j] : j \in 1 .. k - 1}
    BY <1>2, <1>3
<1> QED BY <1>4, <1>5, <1>6, <1>7, <1>9, <1>10

\* Each event serves a port that is ready or takes the one at the head, which
\* is then served, from before it; and between two events a broadcast is over
\* after as many turns as there are ports, which let nobody in.
TurnsComeNearer ==
    [][/\ NextNotify => \A p \in Elements(active) :
            \/ last' = p
            \/ /\ p \in Elements(active')
               /\ last' = Head(active) /\ last' \in Ahead(active, p)
               /\ Ahead(active', p) = Ahead(active, p) \ {last'}
       /\ ~Ready => \E p \in notifying :
            /\ notifying' = notifying \ {p}
            /\ Elements(active') \subseteq Elements(active)]_vars

\* A port is told of an event after no more of them than ports are ahead of
\* it, for any number of ports.
THEOREM WaitsAreBounded == Spec => TurnsComeNearer
<1>1. ASSUME IInv, Next
      PROVE  /\ NextNotify => \A p \in Elements(active) :
                  \/ last' = p
                  \/ /\ p \in Elements(active')
                     /\ last' = Head(active) /\ last' \in Ahead(active, p)
                     /\ Ahead(active', p) = Ahead(active, p) \ {last'}
             /\ ~Ready => \E p \in notifying :
                  /\ notifying' = notifying \ {p}
                  /\ Elements(active') \subseteq Elements(active)
    <2>1. active \in Seq(Ports) /\ NoDuplicates(active)
        BY <1>1, RingIsPorts DEF IInv, ActiveReadersAreReady
    <2>2. ASSUME NEW p \in Elements(active), NextNotify, last' # p
          PROVE  /\ p \in Elements(active')
                 /\ last' = Head(active) /\ last' \in Ahead(active, p)
                 /\ Ahead(active', p) = Ahead(active, p) \ {last'}
        <3>1. active # <<>>
            BY DEF Elements
        <3>2. PICK q \in Ports : NextNotifyDartPort(q)
            BY <2>2, <3>1 DEF NextNotify, NextNotifyNobody, HasHead
        <3>3. /\ last' = Head(active)
              /\ active' = RemoveHead(active) \/ active' = Rotate(active)
            BY <3>2 DEF NextNotifyDartPort
        <3> QED BY <2>1, <2>2, <3>1, <3>3, HeadMovesUp
    <2>3. ASSUME ~Ready
          PROVE  \E p \in notifying :
                   /\ notifying' = notifying \ {p}
                   /\ Elements(active') \subseteq Elements(active)
        <3>1. PICK p \in Ports : NotifyPort(p)
            BY <1>1, <2>3 DEF Next, SetPortAndMask, ReturnTokens, RemovePort,
               RemoveAllPorts, NextNotify, NextNotifyDartPort, NextNotifyNobody,
               NotifyAllDartPorts
        <3>2. active' = active \/ active' = Remove(active, p)
            BY <3>1 DEF NotifyPort
        <3>3. Elements(active') \subseteq Elements(active)
            BY <2>1, <3>2, RemoveElement
        <3> QED BY <3>1, <3>3 DEF NotifyPort
    <2> QED BY <2>2, <2>3
<1> QED BY <1>1, Invariance, PTL DEF TurnsComeNearer, Spec

=============================================================================
