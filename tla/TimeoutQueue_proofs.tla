------------------------- MODULE TimeoutQueue_proofs -------------------------
(***************************************************************************)
(* The queue of timeouts, for any ports and times and however many there   *)
(* are.  The argument: every loop of the queue only swaps entries, and a   *)
(* swap keeps the map the inverse of the array and each port's timeout; as *)
(* long as nothing was cancelled, the array is a heap between two calls    *)
(* and the loops repair it where a call has disturbed it.                  *)
(***************************************************************************)
EXTENDS TimeoutQueue, Binary_proofs, TLAPS

-----------------------------------------------------------------------------
(* The loops.                                                              *)

\* f is what the rounds of BubbleUp make of x.
RoundsOfUp(f, x) == f = [n \in Nat |-> IF n = 0 THEN x ELSE Up(f[n - 1])]

\* The rounds of BubbleUp exist where each stays in S.
LEMMA RoundsUpExist ==
    ASSUME NEW S, NEW x \in S, \A at \in S : Up(at) \in S
    PROVE  \E f : RoundsOfUp(f, x)
<1> DEFINE step == [at \in S |-> Up(at)]
<1>1. PICK f : Iterates(f, S, step, x)
    <2>1. step \in [S -> S]
        OBVIOUS
    <2> HIDE DEF step
    <2> QED BY <2>1, IteratesExist
<1>2. ASSUME NEW n \in Nat
      PROVE  f[n] = IF n = 0 THEN x ELSE Up(f[n - 1])
    <2>1. CASE n = 0
        BY <1>1, <2>1 DEF Iterates
    <2>2. CASE n # 0
        <3>1. n - 1 \in Nat /\ (n - 1) + 1 = n
            BY <2>2
        <3>2. f[n] = step[f[n - 1]] /\ f[n - 1] \in S
            BY <1>1, <3>1 DEF Iterates
        <3> QED BY <2>2, <3>2
    <2> QED BY <2>1, <2>2
<1> QED BY <1>1, <1>2 DEF Iterates, RoundsOfUp

\* What they are, and that they never leave S.
LEMMA RoundsUp ==
    ASSUME NEW S, NEW x \in S, \A at \in S : Up(at) \in S, NEW f,
           RoundsOfUp(f, x)
    PROVE  /\ f \in [Nat -> S] /\ f[0] = x
           /\ \A n \in Nat : f[n + 1] = Up(f[n])
<1>1. f[0] = x
    BY DEF RoundsOfUp
<1>2. ASSUME NEW n \in Nat PROVE f[n + 1] = Up(f[n])
    <2>1. n + 1 \in Nat /\ n + 1 # 0 /\ (n + 1) - 1 = n
        OBVIOUS
    <2>2. f[n + 1] = Up(f[(n + 1) - 1])
        BY <2>1 DEF RoundsOfUp
    <2> QED BY <2>1, <2>2
<1> DEFINE T == {n \in Nat : f[n] \in S}
<1>3. \A n \in Nat : n \in T
    <2>1. 0 \in T /\ \A n \in Nat : n \in T => n + 1 \in T
        BY <1>1, <1>2
    <2> HIDE DEF T
    <2> QED BY <2>1, SetInduction
<1> QED BY <1>1, <1>2, <1>3 DEF RoundsOfUp

\* f is what the rounds of BubbleDown make of x.
RoundsOfDown(f, x) == f = [n \in Nat |-> IF n = 0 THEN x ELSE Down(f[n - 1])]

\* The rounds of BubbleDown exist where each stays in S.
LEMMA RoundsDownExist ==
    ASSUME NEW S, NEW x \in S, \A at \in S : Down(at) \in S
    PROVE  \E f : RoundsOfDown(f, x)
<1> DEFINE step == [at \in S |-> Down(at)]
<1>1. PICK f : Iterates(f, S, step, x)
    <2>1. step \in [S -> S]
        OBVIOUS
    <2> HIDE DEF step
    <2> QED BY <2>1, IteratesExist
<1>2. ASSUME NEW n \in Nat
      PROVE  f[n] = IF n = 0 THEN x ELSE Down(f[n - 1])
    <2>1. CASE n = 0
        BY <1>1, <2>1 DEF Iterates
    <2>2. CASE n # 0
        <3>1. n - 1 \in Nat /\ (n - 1) + 1 = n
            BY <2>2
        <3>2. f[n] = step[f[n - 1]] /\ f[n - 1] \in S
            BY <1>1, <3>1 DEF Iterates
        <3> QED BY <2>2, <3>2
    <2> QED BY <2>1, <2>2
<1> QED BY <1>1, <1>2 DEF Iterates, RoundsOfDown

\* What those are, and that they never leave S either.
LEMMA RoundsDown ==
    ASSUME NEW S, NEW x \in S, \A at \in S : Down(at) \in S, NEW f,
           RoundsOfDown(f, x)
    PROVE  /\ f \in [Nat -> S] /\ f[0] = x
           /\ \A n \in Nat : f[n + 1] = Down(f[n])
<1>1. f[0] = x
    BY DEF RoundsOfDown
<1>2. ASSUME NEW n \in Nat PROVE f[n + 1] = Down(f[n])
    <2>1. n + 1 \in Nat /\ n + 1 # 0 /\ (n + 1) - 1 = n
        OBVIOUS
    <2>2. f[n + 1] = Down(f[(n + 1) - 1])
        BY <2>1 DEF RoundsOfDown
    <2> QED BY <2>1, <2>2
<1> DEFINE T == {n \in Nat : f[n] \in S}
<1>3. \A n \in Nat : n \in T
    <2>1. 0 \in T /\ \A n \in Nat : n \in T => n + 1 \in T
        BY <1>1, <1>2
    <2> HIDE DEF T
    <2> QED BY <2>1, SetInduction
<1> QED BY <1>1, <1>2, <1>3 DEF RoundsOfDown

-----------------------------------------------------------------------------
(* Queues whose map is the inverse of their array.                         *)

Entry == [priority : Times, value : Ports]
Maps == UNION {[D -> Nat] : D \in SUBSET Ports}
PlacesOf(q) == 1 .. Size(q)

Matched(q) ==
    /\ DOMAIN q.at = {q.heap[i].value : i \in PlacesOf(q)}
    /\ \A i \in PlacesOf(q) : q.at[q.heap[i].value] = i

Queues == {q \in [heap : Seq(Entry), at : Maps, cap : Nat] : Matched(q)}

\* The timeout of each port.
Due(q) == [port \in DOMAIN q.at |-> q.heap[q.at[port]].priority]

\* What is known of a queue.
LEMMA QueueFacts ==
    ASSUME NEW q \in Queues
    PROVE  /\ q.heap \in Seq(Entry) /\ q.cap \in Nat /\ Size(q) \in Nat
           /\ q = [heap |-> q.heap, at |-> q.at, cap |-> q.cap]
           /\ q.at \in [DOMAIN q.at -> Nat] /\ DOMAIN q.at \subseteq Ports
           /\ \A i \in PlacesOf(q) :
                /\ q.heap[i] \in Entry
                /\ q.heap[i].value \in DOMAIN q.at
                /\ q.at[q.heap[i].value] = i
           /\ \A port \in DOMAIN q.at :
                /\ q.at[port] \in PlacesOf(q)
                /\ q.heap[q.at[port]].value = port
BY DEF Queues, Maps, Matched, PlacesOf, Size

\* What makes a queue one.
LEMMA QueueIntro ==
    ASSUME NEW h \in Seq(Entry), NEW D \in SUBSET Ports, NEW m \in [D -> Nat],
           NEW c \in Nat, D = {h[i].value : i \in 1 .. Len(h)},
           \A i \in 1 .. Len(h) : m[h[i].value] = i
    PROVE  [heap |-> h, at |-> m, cap |-> c] \in Queues
BY DEF Queues, Maps, Matched, PlacesOf, Size

\* Two entries change places: the ports keep their timeouts.
LEMMA SwapKeeps ==
    ASSUME NEW q \in Queues, NEW i \in PlacesOf(q), NEW j \in PlacesOf(q),
           i # j
    PROVE  /\ Swap(q, i, j) \in Queues
           /\ Size(Swap(q, i, j)) = Size(q) /\ Swap(q, i, j).cap = q.cap
           /\ Due(Swap(q, i, j)) = Due(q)
           /\ \A k \in PlacesOf(q) :
                Swap(q, i, j).heap[k] = IF k = i THEN q.heap[j]
                                        ELSE IF k = j THEN q.heap[i] ELSE q.heap[k]
<1> DEFINE h == [q.heap EXCEPT ![i] = q.heap[j], ![j] = q.heap[i]]
           m == [q.at EXCEPT ![q.heap[i].value] = j, ![q.heap[j].value] = i]
           D == DOMAIN q.at
           n == Size(q)
<1>0. /\ q.heap \in Seq(Entry) /\ q.cap \in Nat /\ n \in Nat /\ n = Len(q.heap)
      /\ q = [heap |-> q.heap, at |-> q.at, cap |-> q.cap]
      /\ q.at \in [D -> Nat] /\ D \in SUBSET Ports
      /\ \A k \in 1 .. n :
           /\ q.heap[k] \in Entry
           /\ q.heap[k].value \in D
           /\ q.at[q.heap[k].value] = k
      /\ \A port \in D :
           q.at[port] \in 1 .. n /\ q.heap[q.at[port]].value = port
      /\ i \in 1 .. n /\ j \in 1 .. n
    BY QueueFacts DEF PlacesOf, Size
<1>1. Swap(q, i, j) = [heap |-> h, at |-> m, cap |-> q.cap]
    <2>1. Swap(q, i, j) = [q EXCEPT !.heap = h, !.at = m]
        BY DEF Swap
    <2> HIDE DEF h, m, D, n
    <2> QED BY <1>0, <2>1
<1>2. h \in Seq(Entry) /\ Len(h) = n
    BY <1>0
<1>3. \A k \in 1 .. n :
        h[k] = IF k = i THEN q.heap[j] ELSE IF k = j THEN q.heap[i] ELSE q.heap[k]
    <2>1. q.heap \in Seq(Entry) /\ DOMAIN q.heap = 1 .. n
        BY <1>0
    <2> HIDE DEF n, D
    <2> QED BY <2>1
<1>4. m \in [D -> Nat]
    <2>1. i \in Nat /\ j \in Nat
        BY <1>0
    <2> HIDE DEF D, n
    <2> QED BY <1>0, <2>1
<1>5. \A port \in D :
        m[port] = IF port = q.heap[j].value THEN i
                  ELSE IF port = q.heap[i].value THEN j ELSE q.at[port]
    <2>1. q.at \in [D -> Nat] /\ q.heap[i].value \in D
        BY <1>0
    <2> HIDE DEF D, n
    <2> QED BY <2>1
<1> HIDE DEF h, m, n, D
<1>6. D = {h[k].value : k \in 1 .. n}
    <2>1. ASSUME NEW k \in 1 .. n PROVE h[k].value \in D
        BY <1>0, <1>3
    <2>2. ASSUME NEW port \in D PROVE \E k \in 1 .. n : port = h[k].value
        <3> DEFINE l == q.at[port]
        <3>1. l \in 1 .. n /\ q.heap[l].value = port
            BY <1>0
        <3>2. CASE l = i
            BY <1>0, <1>3, <3>1, <3>2
        <3>3. CASE l = j
            BY <1>0, <1>3, <3>1, <3>3
        <3>4. CASE l # i /\ l # j
            BY <1>0, <1>3, <3>1, <3>4
        <3> QED BY <3>2, <3>3, <3>4
    <2> QED BY <2>1, <2>2
<1>7. ASSUME NEW k \in 1 .. n PROVE m[h[k].value] = k
    <2>1. \A l \in 1 .. n : q.heap[l].value = q.heap[k].value => l = k
        BY <1>0
    <2>2. q.heap[i].value # q.heap[j].value
        BY <1>0
    <2> QED BY <1>0, <1>3, <1>5, <2>1, <2>2
<1>8. [heap |-> h, at |-> m, cap |-> q.cap] \in Queues
    BY <1>0, <1>2, <1>4, <1>6, <1>7, QueueIntro
<1>9. ASSUME NEW port \in D
      PROVE  h[m[port]].priority = q.heap[q.at[port]].priority
    <2>1. /\ q.at[port] \in 1 .. n /\ q.heap[q.at[port]].value = port
          /\ i \in 1 .. n /\ j \in 1 .. n
          /\ q.at[q.heap[i].value] = i /\ q.at[q.heap[j].value] = j
        BY <1>0
    <2>2. CASE port = q.heap[j].value
        BY <1>3, <1>5, <2>1, <2>2
    <2>3. CASE port = q.heap[i].value /\ port # q.heap[j].value
        <3>1. m[port] = j /\ h[j] = q.heap[i]
            BY <1>3, <1>5, <2>1, <2>3
        <3> QED BY <2>1, <2>3, <3>1
    <2>4. CASE port # q.heap[i].value /\ port # q.heap[j].value
        <3>1. m[port] = q.at[port] /\ q.at[port] # i /\ q.at[port] # j
            BY <1>5, <2>1, <2>4
        <3> QED BY <1>3, <2>1, <3>1
    <2> QED BY <2>2, <2>3, <2>4
<1>10. Due(Swap(q, i, j)) = Due(q)
    BY <1>1, <1>4, <1>9 DEF Due, D
<1>11. Size(Swap(q, i, j)) = n /\ Swap(q, i, j).heap = h
       /\ Swap(q, i, j).cap = q.cap
    BY <1>1, <1>2 DEF Size
<1> QED BY <1>0, <1>1, <1>3, <1>8, <1>10, <1>11 DEF PlacesOf, n

-----------------------------------------------------------------------------
(* What the loops do to a queue.                                           *)

\* The queues with the same timeouts in as many places.
Alike(q) ==
    {r \in Queues : Size(r) = Size(q) /\ r.cap = q.cap /\ Due(r) = Due(q)}

\* Where a loop on q may be.
Stops(q) == [queue : Alike(q), place : PlacesOf(q)]

\* A swap keeps to them.
LEMMA SwapAlike ==
    ASSUME NEW q \in Queues, NEW r \in Alike(q),
           NEW i \in PlacesOf(q), NEW j \in PlacesOf(q), i # j
    PROVE  Swap(r, i, j) \in Alike(q)
<1>1. r \in Queues /\ i \in PlacesOf(r) /\ j \in PlacesOf(r)
    BY DEF Alike, PlacesOf
<1> QED BY <1>1, SwapKeeps DEF Alike

\* So does a round of BubbleUp, which goes to the parent.
LEMMA UpStays ==
    ASSUME NEW q \in Queues, NEW at \in Stops(q)
    PROVE  /\ Up(at) \in Stops(q)
           /\ at.place # 1 => Up(at).place = at.place \div 2
           /\ at.place = 1 => Up(at) = at
<1>1. at.queue \in Alike(q) /\ at.place \in PlacesOf(q) /\ Size(q) \in Nat
    BY QueueFacts DEF Stops
<1>2. CASE at.place = 1
    BY <1>2 DEF Up
<1>3. CASE at.place # 1
    <2> DEFINE parent == at.place \div 2
               r == IF at.queue.heap[parent].priority
                         > at.queue.heap[at.place].priority
                    THEN Swap(at.queue, parent, at.place) ELSE at.queue
    <2>1. Up(at) = [queue |-> r, place |-> parent]
        BY <1>3 DEF Up
    <2>2. parent \in PlacesOf(q) /\ parent # at.place
        BY <1>1, <1>3 DEF PlacesOf
    <2>3. Swap(at.queue, parent, at.place) \in Alike(q)
        BY <1>1, <2>2, SwapAlike
    <2>4. r \in Alike(q)
        BY <1>1, <2>3
    <2> HIDE DEF r
    <2> QED BY <1>3, <2>1, <2>2, <2>4 DEF Stops
<1> QED BY <1>2, <1>3

\* The child that comes up is one with the least priority.
LEMMA SmallestIndexFacts ==
    ASSUME NEW q \in Queues, NEW i \in PlacesOf(q)
    PROVE  LET s == SmallestIndex(q, i) IN
           /\ s \in PlacesOf(q) /\ s \in {i, 2 * i, 2 * i + 1}
           /\ \A k \in PlacesOf(q) : k \in {i, 2 * i, 2 * i + 1} =>
                q.heap[s].priority <= q.heap[k].priority
<1> DEFINE family == {i, 2 * i, 2 * i + 1} \cap 1 .. Size(q)
           P == {q.heap[k].priority : k \in family}
           least == {k \in family : \A j \in family :
                       q.heap[k].priority <= q.heap[j].priority}
<1>1. /\ Size(q) \in Nat /\ i \in family
      /\ \A k \in family : q.heap[k].priority \in Nat
    BY QueueFacts, TimeoutQueueAssumption DEF PlacesOf, Entry
<1>2. P \subseteq Nat /\ P # {}
    BY <1>1
<1>3. PICK p \in P : \A r \in P : p <= r
    <2> HIDE DEF P
    <2> QED BY <1>2, LeastNumber
<1>4. PICK k \in family : q.heap[k].priority = p
    OBVIOUS
<1>5. k \in least
    BY <1>3, <1>4
<1>6. least \subseteq Nat /\ least # {}
    BY <1>1, <1>5
<1>7. \E s \in least : \A j \in least : s <= j
    <2> HIDE DEF least
    <2> QED BY <1>6, LeastNumber
<1> DEFINE s == CHOOSE s \in least : \A j \in least : s <= j
<1>8. s \in least
    BY <1>7
<1>9. SmallestIndex(q, i) = s
    BY DEF SmallestIndex
<1> HIDE DEF s
<1> QED BY <1>8, <1>9 DEF PlacesOf

\* A round of BubbleDown goes to a later place or is the last.
LEMMA DownStays ==
    ASSUME NEW q \in Queues, NEW at \in Stops(q)
    PROVE  /\ Down(at) \in Stops(q)
           /\ Down(at) # at => Down(at).place > at.place
<1>1. at.queue \in Alike(q) /\ at.place \in PlacesOf(q) /\ Size(q) \in Nat
    BY QueueFacts DEF Stops
<1> DEFINE s == SmallestIndex(at.queue, at.place)
<1>2. s \in PlacesOf(q) /\ s \in {at.place, 2 * at.place, 2 * at.place + 1}
    <2>1. at.queue \in Queues /\ PlacesOf(at.queue) = PlacesOf(q)
        BY <1>1 DEF Alike, PlacesOf
    <2> QED BY <1>1, <2>1, SmallestIndexFacts
<1>3. Down(at) = IF s = at.place THEN at
                 ELSE [queue |-> Swap(at.queue, at.place, s), place |-> s]
    BY DEF Down
<1> HIDE DEF s
<1>4. CASE s = at.place
    BY <1>3, <1>4
<1>5. CASE s # at.place
    <2>1. Swap(at.queue, at.place, s) \in Alike(q)
        BY <1>1, <1>2, <1>5, SwapAlike
    <2>2. s > at.place
        BY <1>1, <1>2, <1>5 DEF PlacesOf
    <2> QED BY <1>2, <1>3, <1>5, <2>1, <2>2 DEF Stops
<1> QED BY <1>4, <1>5

\* BubbleUp ends at the root, with what its rounds keep.
LEMMA BubbleUpEnds ==
    ASSUME NEW q \in Queues, NEW i \in PlacesOf(q), NEW S \in SUBSET Stops(q),
           [queue |-> q, place |-> i] \in S, \A at \in S : Up(at) \in S
    PROVE  \E at \in S : at.place = 1 /\ BubbleUp(q, i) = at.queue
<1> DEFINE x == [queue |-> q, place |-> i]
           f == CHOOSE round : RoundsOfUp(round, x)
<1>1. BubbleUp(q, i) = f[i].queue
    BY DEF BubbleUp, RoundsOfUp
<1>0. x \in S
    OBVIOUS
<1>2. RoundsOfUp(f, x)
    <2> HIDE DEF x
    <2>1. \E g : RoundsOfUp(g, x)
        BY <1>0, RoundsUpExist
    <2> QED BY <2>1
<1> HIDE DEF f
<1>3. /\ f \in [Nat -> S] /\ f[0] = x
      /\ \A n \in Nat : f[n + 1] = Up(f[n])
    <2> HIDE DEF x
    <2> QED BY <1>0, <1>2, RoundsUp
<1>4. i \in Nat /\ \A n \in Nat : f[n].place \in Nat \ {0}
    <2>1. ASSUME NEW n \in Nat PROVE f[n].place \in PlacesOf(q)
        <3>1. f[n] \in Stops(q)
            BY <1>3
        <3> QED BY <3>1 DEF Stops
    <2>2. Size(q) \in Nat
        BY QueueFacts
    <2>3. PlacesOf(q) \subseteq Nat \ {0}
        BY <2>2 DEF PlacesOf
    <2> QED BY <2>1, <2>3
<1> DEFINE T == {n \in Nat : f[n].place = 1 \/ f[n].place + n <= i}
<1>5. 0 \in T
    BY <1>3, <1>4
<1>6. ASSUME NEW n \in Nat, n \in T PROVE n + 1 \in T
    <2>1. f[n] \in Stops(q)
        BY <1>3
    <2>2. CASE f[n].place = 1
        BY <1>3, <2>1, <2>2, UpStays
    <2>3. CASE f[n].place # 1
        <3>1. f[n + 1].place = f[n].place \div 2
            BY <1>3, <2>1, <2>3, UpStays
        <3>2. f[n].place \div 2 <= f[n].place - 1
            BY <1>4, <2>3
        <3> QED BY <1>4, <1>6, <2>3, <3>1, <3>2
    <2> QED BY <2>2, <2>3
<1>7. i \in T
    <2> HIDE DEF T
    <2> QED BY <1>4, <1>5, <1>6, SetInduction
<1> QED BY <1>1, <1>3, <1>4, <1>7

\* BubbleDown ends at the root of an ordered part, with what its rounds keep.
LEMMA BubbleDownEnds ==
    ASSUME NEW q \in Queues, NEW i \in PlacesOf(q), NEW S \in SUBSET Stops(q),
           [queue |-> q, place |-> i] \in S, \A at \in S : Down(at) \in S
    PROVE  \E at \in S : Down(at) = at /\ BubbleDown(q, i) = at.queue
<1> DEFINE x == [queue |-> q, place |-> i]
           f == CHOOSE round : RoundsOfDown(round, x)
<1>1. BubbleDown(q, i) = f[Size(q)].queue
    BY DEF BubbleDown, RoundsOfDown
<1>0. x \in S
    OBVIOUS
<1>2. RoundsOfDown(f, x)
    <2> HIDE DEF x
    <2>1. \E g : RoundsOfDown(g, x)
        BY <1>0, RoundsDownExist
    <2> QED BY <2>1
<1> HIDE DEF f
<1>3. /\ f \in [Nat -> S] /\ f[0] = x
      /\ \A n \in Nat : f[n + 1] = Down(f[n])
    <2> HIDE DEF x
    <2> QED BY <1>0, <1>2, RoundsDown
<1>4. Size(q) \in Nat /\ \A n \in Nat : f[n].place \in 1 .. Size(q)
    <2>1. ASSUME NEW n \in Nat PROVE f[n].place \in PlacesOf(q)
        <3>1. f[n] \in Stops(q)
            BY <1>3
        <3> QED BY <3>1 DEF Stops
    <2>2. Size(q) \in Nat
        BY QueueFacts
    <2> QED BY <2>1, <2>2 DEF PlacesOf
<1> DEFINE T == {n \in Nat : Down(f[n]) = f[n] \/ f[n].place > n}
<1>5. 0 \in T
    BY <1>4
<1>6. ASSUME NEW n \in Nat, n \in T PROVE n + 1 \in T
    <2>1. f[n] \in Stops(q) /\ f[n + 1] = Down(f[n])
        BY <1>3
    <2>2. CASE Down(f[n]) = f[n]
        BY <2>1, <2>2
    <2>3. CASE Down(f[n]) # f[n]
        <3>1. f[n + 1].place > f[n].place
            BY <2>1, <2>3, DownStays
        <3> QED BY <1>4, <1>6, <2>3, <3>1
    <2> QED BY <2>2, <2>3
<1>7. Size(q) \in T
    <2> HIDE DEF T
    <2> QED BY <1>4, <1>5, <1>6, SetInduction
<1>8. Down(f[Size(q)]) = f[Size(q)] /\ f[Size(q)] \in S
    BY <1>3, <1>4, <1>7
<1> QED BY <1>1, <1>8

\* Whatever its order, a loop ends with a queue like the one it was given.
LEMMA BubblesAlike ==
    ASSUME NEW q \in Queues, NEW i \in PlacesOf(q)
    PROVE  BubbleUp(q, i) \in Alike(q) /\ BubbleDown(q, i) \in Alike(q)
<1>1. [queue |-> q, place |-> i] \in Stops(q)
    BY DEF Stops, Alike
<1>2. \A at \in Stops(q) : Up(at) \in Stops(q) /\ Down(at) \in Stops(q)
    BY UpStays, DownStays
<1>3. \E at \in Stops(q) : BubbleUp(q, i) = at.queue
    BY <1>1, <1>2, BubbleUpEnds
<1>4. \E at \in Stops(q) : BubbleDown(q, i) = at.queue
    BY <1>1, <1>2, BubbleDownEnds
<1> QED BY <1>3, <1>4 DEF Stops

-----------------------------------------------------------------------------
(* The order of the heap.                                                  *)

\* The entry at place k is not before its parent's.
Follows(q, k) == q.heap[k \div 2].priority <= q.heap[k].priority

Ordered(q) == \A k \in PlacesOf(q) : k # 1 => Follows(q, k)

\* No entry below place p is before the one above p.
Bridged(q, p) ==
    \A k \in PlacesOf(q) : k \div 2 = p /\ p # 1 =>
        q.heap[p \div 2].priority <= q.heap[k].priority

\* The order where only the entry at p may be before its parent's.
OrderedExceptAt(q, p) ==
    /\ \A k \in PlacesOf(q) : k # 1 /\ k # p => Follows(q, k)
    /\ Bridged(q, p)

\* The order where only those below p may be before the one at p.
OrderedExceptBelow(q, p) ==
    /\ \A k \in PlacesOf(q) : k # 1 /\ k \div 2 # p => Follows(q, k)
    /\ Bridged(q, p)

\* Where the entries are after a swap.
LEMMA SwapEntries ==
    ASSUME NEW q \in Queues, NEW i \in 1 .. Size(q), NEW j \in 1 .. Size(q),
           i # j
    PROVE  /\ PlacesOf(Swap(q, i, j)) = 1 .. Size(q)
           /\ \A k \in 1 .. Size(q) :
                Swap(q, i, j).heap[k] = IF k = i THEN q.heap[j]
                                        ELSE IF k = j THEN q.heap[i] ELSE q.heap[k]
<1>1. i \in PlacesOf(q) /\ j \in PlacesOf(q) /\ PlacesOf(q) = 1 .. Size(q)
    BY DEF PlacesOf
<1> QED BY <1>1, SwapKeeps DEF PlacesOf

\* A round of BubbleUp takes the exception to the parent.
LEMMA UpOrders ==
    ASSUME NEW q \in Queues, NEW at \in Stops(q),
           OrderedExceptAt(at.queue, at.place)
    PROVE  OrderedExceptAt(Up(at).queue, Up(at).place)
<1> DEFINE r == at.queue
           p == at.place
           parent == p \div 2
           n == Size(r)
<1>1. /\ r \in Queues /\ n \in Nat /\ p \in 1 .. n /\ PlacesOf(r) = 1 .. n
      /\ \A k \in 1 .. n : r.heap[k].priority \in Nat
    BY QueueFacts, TimeoutQueueAssumption DEF Stops, Alike, PlacesOf, Entry
<1>2. CASE p = 1
    BY <1>2 DEF Up
<1>5. p \div 2 = parent
    OBVIOUS
<1> HIDE DEF parent
<1>3. CASE p # 1 /\ r.heap[parent].priority > r.heap[p].priority
    <2> DEFINE t == Swap(r, parent, p)
    <2>1. Up(at).queue = t /\ Up(at).place = parent
        BY <1>3, <1>5 DEF Up
    <2>2. parent \in 1 .. n /\ parent < p
        BY <1>1, <1>3, <1>5
    <2>3. /\ PlacesOf(t) = 1 .. n
          /\ \A k \in 1 .. n : t.heap[k] = IF k = parent THEN r.heap[p]
                               ELSE IF k = p THEN r.heap[parent] ELSE r.heap[k]
        BY <1>1, <2>2, SwapEntries
    <2> HIDE DEF t
    <2>4. ASSUME NEW k \in 1 .. n, k # 1, k # parent
          PROVE  Follows(t, k)
        <3>1. k \div 2 \in 1 .. n
            BY <1>1, <2>4
        <3>2. CASE k = p
            <4>1. t.heap[p] = r.heap[parent] /\ t.heap[parent] = r.heap[p]
                BY <1>1, <2>2, <2>3
            <4>2. r.heap[parent].priority \in Nat /\ r.heap[p].priority \in Nat
                BY <1>1, <2>2
            <4> QED BY <1>3, <1>5, <3>2, <4>1, <4>2 DEF Follows
        <3>3. CASE k # p /\ k \div 2 = p
            <4>1. r.heap[parent].priority <= r.heap[k].priority
                BY <1>1, <1>3, <1>5, <3>3 DEF OrderedExceptAt, Bridged
            <4>2. t.heap[k] = r.heap[k] /\ t.heap[p] = r.heap[parent]
                BY <1>1, <2>2, <2>3, <2>4, <3>3
            <4> QED BY <3>3, <4>1, <4>2 DEF Follows
        <3>4. CASE k # p /\ k \div 2 = parent
            <4>1. r.heap[parent].priority <= r.heap[k].priority
                BY <1>1, <2>4, <3>4 DEF OrderedExceptAt, Follows
            <4>2. t.heap[k] = r.heap[k] /\ t.heap[parent] = r.heap[p]
                BY <2>2, <2>3, <2>4, <3>4
            <4>3. /\ r.heap[parent].priority \in Nat
                  /\ r.heap[p].priority \in Nat /\ r.heap[k].priority \in Nat
                BY <1>1, <2>2
            <4> QED BY <1>3, <3>4, <4>1, <4>2, <4>3 DEF Follows
        <3>5. CASE k # p /\ k \div 2 # p /\ k \div 2 # parent
            BY <1>1, <2>3, <2>4, <3>1, <3>5 DEF Follows, OrderedExceptAt
        <3> QED BY <3>2, <3>3, <3>4, <3>5
    <2>5. ASSUME NEW k \in 1 .. n, k \div 2 = parent, parent # 1
          PROVE  t.heap[parent \div 2].priority <= t.heap[k].priority
        <3>1. /\ parent \div 2 \in 1 .. n /\ parent \div 2 < parent
              /\ k # 1 /\ k # parent
            BY <1>1, <2>2, <2>5
        <3>2. r.heap[parent \div 2].priority <= r.heap[parent].priority
            BY <1>1, <2>2, <2>5 DEF OrderedExceptAt, Follows
        <3>5. /\ r.heap[parent \div 2].priority \in Nat
              /\ r.heap[parent].priority \in Nat /\ r.heap[k].priority \in Nat
              /\ t.heap[parent \div 2] = r.heap[parent \div 2]
            BY <1>1, <2>2, <2>3, <3>1
        <3>3. CASE k = p
            BY <2>2, <2>3, <3>2, <3>3, <3>5
        <3>4. CASE k # p
            <4>1. r.heap[parent].priority <= r.heap[k].priority
                BY <1>1, <2>5, <3>1, <3>4 DEF OrderedExceptAt, Follows
            <4>2. t.heap[k] = r.heap[k]
                BY <2>3, <3>1, <3>4
            <4> QED BY <3>2, <3>5, <4>1, <4>2
        <3> QED BY <3>3, <3>4
    <2> QED BY <2>1, <2>3, <2>4, <2>5 DEF OrderedExceptAt, Bridged
<1>4. CASE p # 1 /\ ~(r.heap[parent].priority > r.heap[p].priority)
    <2>1. Up(at).queue = r /\ Up(at).place = parent
        BY <1>4, <1>5 DEF Up
    <2>2. parent \in 1 .. n /\ parent < p
        BY <1>1, <1>4, <1>5
    <2>3. \A k \in 1 .. n : k # 1 => Follows(r, k)
        <3>1. r.heap[parent].priority <= r.heap[p].priority
            <4>1. /\ r.heap[parent].priority \in Nat
                  /\ r.heap[p].priority \in Nat
                BY <1>1, <2>2
            <4> QED BY <1>4, <4>1
        <3> QED BY <1>1, <1>5, <3>1 DEF OrderedExceptAt, Follows
    <2>4. ASSUME NEW k \in 1 .. n, k \div 2 = parent, parent # 1
          PROVE  r.heap[parent \div 2].priority <= r.heap[k].priority
        <3>1. parent \div 2 \in 1 .. n /\ k # 1
            BY <1>1, <2>2, <2>4
        <3>2. /\ r.heap[parent \div 2].priority <= r.heap[parent].priority
              /\ r.heap[parent].priority <= r.heap[k].priority
            BY <2>2, <2>3, <2>4, <3>1 DEF Follows
        <3>3. /\ r.heap[parent \div 2].priority \in Nat
              /\ r.heap[parent].priority \in Nat /\ r.heap[k].priority \in Nat
            BY <1>1, <2>2, <3>1
        <3> QED BY <3>2, <3>3
    <2> QED BY <1>1, <2>1, <2>3, <2>4 DEF OrderedExceptAt, Bridged
<1> QED BY <1>2, <1>3, <1>4

\* The children of x.
LEMMA Halves ==
    \A k, x \in Nat : k \div 2 = x <=> k \in {2 * x, 2 * x + 1}
OBVIOUS

\* A round of BubbleDown takes the exception to a child, or there is none.
LEMMA DownOrders ==
    ASSUME NEW q \in Queues, NEW at \in Stops(q),
           OrderedExceptBelow(at.queue, at.place)
    PROVE  /\ OrderedExceptBelow(Down(at).queue, Down(at).place)
           /\ Down(at) = at => Ordered(at.queue)
<1> DEFINE r == at.queue
           p == at.place
           s == SmallestIndex(r, p)
           n == Size(r)
<1>1. /\ r \in Queues /\ n \in Nat /\ p \in 1 .. n /\ PlacesOf(r) = 1 .. n
      /\ \A k \in 1 .. n : r.heap[k].priority \in Nat
    BY QueueFacts, TimeoutQueueAssumption DEF Stops, Alike, PlacesOf, Entry
<1>2. /\ s \in 1 .. n /\ s \in {p, 2 * p, 2 * p + 1}
      /\ \A k \in 1 .. n : k \in {p, 2 * p, 2 * p + 1} =>
           r.heap[s].priority <= r.heap[k].priority
    BY <1>1, SmallestIndexFacts
<1>3. Down(at) = IF s = p THEN at ELSE [queue |-> Swap(r, p, s), place |-> s]
    BY DEF Down
<1> HIDE DEF s
<1>4. \A k \in 1 .. n : k \div 2 = p => k \in {2 * p, 2 * p + 1}
    <2>1. p \in Nat /\ \A k \in 1 .. n : k \in Nat
        BY <1>1
    <2> HIDE DEF n, p
    <2> QED BY <2>1, Halves
<1>5. CASE s = p
    <2>1. \A k \in 1 .. n : k \div 2 = p => Follows(r, k)
        BY <1>2, <1>4, <1>5 DEF Follows
    <2> QED BY <1>1, <1>3, <1>5, <2>1 DEF OrderedExceptBelow, Ordered
<1>6. CASE s # p
    <2> DEFINE t == Swap(r, p, s)
    <2>1. Down(at).queue = t /\ Down(at).place = s /\ Down(at).place # at.place
        BY <1>3, <1>6
    <2>2. s \div 2 = p /\ p < s
        <3>1. p \in Nat \ {0} /\ s \in {2 * p, 2 * p + 1} /\ s \in Nat
            BY <1>1, <1>2, <1>6
        <3> HIDE DEF p
        <3> QED BY <3>1, Halves
    <2>3. /\ PlacesOf(t) = 1 .. n
          /\ \A k \in 1 .. n : t.heap[k] = IF k = p THEN r.heap[s]
                               ELSE IF k = s THEN r.heap[p] ELSE r.heap[k]
        BY <1>1, <1>2, <1>6, SwapEntries
    <2> HIDE DEF t
    <2>4. ASSUME NEW k \in 1 .. n, k # 1, k \div 2 # s
          PROVE  Follows(t, k)
        <3>1. k \div 2 \in 1 .. n
            BY <1>1, <2>4
        <3>2. CASE k = s
            BY <1>1, <1>2, <2>2, <2>3, <3>1, <3>2 DEF Follows
        <3>3. CASE k # s /\ k \div 2 = p
            BY <1>1, <1>2, <1>4, <2>2, <2>3, <3>1, <3>3 DEF Follows
        <3>4. CASE k = p
            BY <1>1, <1>2, <2>2, <2>3, <2>4, <3>1, <3>4
               DEF Follows, OrderedExceptBelow, Bridged
        <3>5. CASE k # s /\ k # p /\ k \div 2 # p
            BY <1>1, <2>3, <2>4, <3>1, <3>5 DEF Follows, OrderedExceptBelow
        <3> QED BY <3>2, <3>3, <3>4, <3>5
    <2>5. ASSUME NEW k \in 1 .. n, k \div 2 = s
          PROVE  t.heap[p].priority <= t.heap[k].priority
        <3>1. k # p /\ k # s /\ k # 1
            BY <1>1, <1>2, <2>2, <2>5
        <3>2. Follows(r, k)
            BY <1>1, <1>6, <2>5, <3>1 DEF OrderedExceptBelow
        <3> QED BY <1>1, <2>3, <2>5, <3>1, <3>2 DEF Follows
    <2> QED BY <1>1, <2>1, <2>2, <2>3, <2>4, <2>5
            DEF OrderedExceptBelow, Bridged
<1> QED BY <1>5, <1>6

\* So BubbleUp puts right what is wrong at the place it starts from.
LEMMA BubbleUpOrders ==
    ASSUME NEW q \in Queues, NEW i \in PlacesOf(q), OrderedExceptAt(q, i)
    PROVE  Ordered(BubbleUp(q, i))
<1> DEFINE S == {at \in Stops(q) : OrderedExceptAt(at.queue, at.place)}
<1>1. [queue |-> q, place |-> i] \in S
    BY DEF Stops, Alike
<1>2. \A at \in S : Up(at) \in S
    BY UpStays, UpOrders
<1>3. PICK at \in S : at.place = 1 /\ BubbleUp(q, i) = at.queue
    <2>1. S \in SUBSET Stops(q)
        OBVIOUS
    <2> HIDE DEF S
    <2> QED BY <1>1, <1>2, <2>1, BubbleUpEnds
<1> QED BY <1>3 DEF OrderedExceptAt, Ordered

\* And BubbleDown what is wrong below it.
LEMMA BubbleDownOrders ==
    ASSUME NEW q \in Queues, NEW i \in PlacesOf(q), OrderedExceptBelow(q, i)
    PROVE  Ordered(BubbleDown(q, i))
<1> DEFINE S == {at \in Stops(q) : OrderedExceptBelow(at.queue, at.place)}
<1>1. [queue |-> q, place |-> i] \in S
    BY DEF Stops, Alike
<1>2. \A at \in S : Down(at) \in S
    BY DownStays, DownOrders
<1>3. PICK at \in S : Down(at) = at /\ BubbleDown(q, i) = at.queue
    <2>1. S \in SUBSET Stops(q)
        OBVIOUS
    <2> HIDE DEF S
    <2> QED BY <1>1, <1>2, <2>1, BubbleDownEnds
<1> QED BY <1>3, DownOrders

\* In a heap in order the first entry is the least.
LEMMA MinimumIsLeast ==
    ASSUME NEW q \in Queues, Ordered(q)
    PROVE  \A k \in PlacesOf(q) : q.heap[1].priority <= q.heap[k].priority
<1> DEFINE Wrong == {k \in PlacesOf(q) :
                       ~(q.heap[1].priority <= q.heap[k].priority)}
<1>1. /\ Size(q) \in Nat /\ PlacesOf(q) = 1 .. Size(q)
      /\ \A k \in PlacesOf(q) : q.heap[k].priority \in Nat
    BY QueueFacts, TimeoutQueueAssumption DEF PlacesOf, Entry
<1> SUFFICES ASSUME Wrong # {} PROVE FALSE
    OBVIOUS
<1>2. PICK k \in Wrong : \A l \in Wrong : k <= l
    <2>1. Wrong \subseteq Nat
        BY <1>1
    <2> HIDE DEF Wrong
    <2> QED BY <2>1, LeastNumber
<1>3. k # 1 /\ k \in 1 .. Size(q)
    BY <1>1
<1>4. k \div 2 \in PlacesOf(q) /\ k \div 2 < k
    BY <1>1, <1>3
<1>5. k \div 2 \notin Wrong
    BY <1>1, <1>2, <1>3, <1>4
<1>6. q.heap[1].priority <= q.heap[k \div 2].priority /\ Follows(q, k)
    BY <1>3, <1>4, <1>5 DEF Ordered
<1> QED BY <1>1, <1>3, <1>4, <1>6 DEF Follows

-----------------------------------------------------------------------------
(* What the operations do to a queue.                                      *)

\* The timeouts d with that of port at p, and without that of port.
With(d, port, p) ==
    [r \in DOMAIN d \cup {port} |-> IF r = port THEN p ELSE d[r]]
Less(d, port) == Restrict(d, DOMAIN d \ {port})

\* A new entry at the end.
LEMMA SetEntryAdds ==
    ASSUME NEW q \in Queues, NEW p \in Times, NEW v \in Ports \ DOMAIN q.at
    PROVE  LET e == [priority |-> p, value |-> v]
               r == SetEntry(q, Size(q) + 1, e)
           IN /\ r \in Queues /\ Size(r) = Size(q) + 1 /\ r.cap = q.cap
              /\ r.heap = Append(q.heap, e)
              /\ Due(r) = With(Due(q), v, p)
<1> DEFINE e == [priority |-> p, value |-> v]
           n == Size(q) + 1
           r == SetEntry(q, n, e)
           h == Append(q.heap, e)
           D == DOMAIN q.at
           m == SetMapEntry(q.at, v, n)
<1>0. /\ q.heap \in Seq(Entry) /\ q.cap \in Nat
      /\ n - 1 \in Nat /\ n \in Nat \ {0}
      /\ Len(q.heap) = n - 1 /\ Size(q) = n - 1
      /\ q = [heap |-> q.heap, at |-> q.at, cap |-> q.cap]
      /\ q.at \in [D -> Nat] /\ D \in SUBSET Ports
      /\ \A k \in 1 .. (n - 1) :
           /\ q.heap[k] \in Entry
           /\ q.heap[k].value \in D
           /\ q.at[q.heap[k].value] = k
      /\ \A port \in D :
           /\ q.at[port] \in 1 .. (n - 1)
           /\ q.heap[q.at[port]].value = port
    BY QueueFacts DEF PlacesOf, Size
<1>1. r = [heap |-> h, at |-> m, cap |-> q.cap]
    <2>1. r = [q EXCEPT !.heap = h, !.at = m]
        <3>1. n > Size(q) /\ e.value = v
            BY <1>0
        <3> HIDE DEF n
        <3> QED BY <3>1 DEF SetEntry
    <2> HIDE DEF r, h, m, D, n
    <2> QED BY <1>0, <2>1
<1>2. e \in Entry
    BY DEF Entry
<1>3. /\ h \in Seq(Entry) /\ Len(h) = n /\ h[n] = e
      /\ \A k \in 1 .. (n - 1) : h[k] = q.heap[k]
    BY <1>0, <1>2
<1>4. /\ m \in [D \cup {v} -> Nat] /\ m[v] = n
      /\ \A port \in D : m[port] = q.at[port]
    BY <1>0 DEF SetMapEntry
<1>5. D \cup {v} \in SUBSET Ports /\ v \notin D
    BY <1>0
<1>6. e.value = v /\ e.priority = p
    OBVIOUS
<1> HIDE DEF h, m, n, D, r, e
<1>7. D \cup {v} = {h[k].value : k \in 1 .. n}
    <2>1. \A k \in 1 .. n : h[k].value \in D \cup {v}
        BY <1>0, <1>3, <1>6
    <2>2. ASSUME NEW port \in D PROVE \E k \in 1 .. n : port = h[k].value
        BY <1>0, <1>3
    <2>3. n \in 1 .. n
        BY <1>0
    <2> QED BY <1>3, <1>6, <2>1, <2>2, <2>3
<1>8. \A k \in 1 .. n : m[h[k].value] = k
    <2>1. \A k \in 1 .. n : k = n \/ k \in 1 .. (n - 1)
        BY <1>0
    <2> QED BY <1>0, <1>3, <1>4, <1>6, <2>1
<1>9. r \in Queues
    BY <1>0, <1>1, <1>3, <1>4, <1>5, <1>7, <1>8, QueueIntro
<1>10. /\ r.heap = h /\ r.cap = q.cap /\ r.at = m /\ Size(r) = n
    BY <1>1, <1>3 DEF Size
<1>11. Due(r) = With(Due(q), v, p)
    <2>1. DOMAIN m = D \cup {v}
        BY <1>4
    <2>2. \A port \in D : h[m[port]].priority = q.heap[q.at[port]].priority
        BY <1>0, <1>3, <1>4
    <2>3. h[m[v]].priority = p
        BY <1>3, <1>4, <1>6
    <2>4. Due(r) = [port \in D \cup {v} |-> h[m[port]].priority]
        BY <1>10, <2>1 DEF Due
    <2>5. Due(q) = [port \in D |-> q.heap[q.at[port]].priority]
        BY DEF Due, D
    <2>6. With(Due(q), v, p) =
            [port \in D \cup {v} |->
               IF port = v THEN p ELSE q.heap[q.at[port]].priority]
        BY <1>5, <2>5 DEF With
    <2> QED BY <1>5, <2>2, <2>3, <2>4, <2>6
<1> QED BY <1>0, <1>9, <1>10, <1>11 DEF h, e, r, n

\* The entry at the end goes.
LEMMA LastGoes ==
    ASSUME NEW q \in Queues, Size(q) > 0
    PROVE  LET gone == q.heap[Size(q)].value
               r == [q EXCEPT !.heap = Front(@), !.at = RemoveMapEntry(@, gone)]
           IN /\ r \in Queues /\ Size(r) = Size(q) - 1 /\ r.cap = q.cap
              /\ \A k \in PlacesOf(r) : r.heap[k] = q.heap[k]
              /\ Due(r) = Less(Due(q), gone)
<1> DEFINE n == Size(q)
           gone == q.heap[n].value
           h == Front(q.heap)
           D == DOMAIN q.at
           m == RemoveMapEntry(q.at, gone)
           r == [q EXCEPT !.heap = h, !.at = m]
<1>0. /\ q.heap \in Seq(Entry) /\ q.cap \in Nat
      /\ n - 1 \in Nat /\ n \in Nat \ {0} /\ Len(q.heap) = n
      /\ q = [heap |-> q.heap, at |-> q.at, cap |-> q.cap]
      /\ q.at \in [D -> Nat] /\ D \in SUBSET Ports
      /\ \A k \in 1 .. n :
           /\ q.heap[k] \in Entry
           /\ q.heap[k].value \in D
           /\ q.at[q.heap[k].value] = k
      /\ \A port \in D :
           q.at[port] \in 1 .. n /\ q.heap[q.at[port]].value = port
    BY QueueFacts DEF PlacesOf, Size
<1>1. r = [heap |-> h, at |-> m, cap |-> q.cap]
    <2>1. q = [heap |-> q.heap, at |-> q.at, cap |-> q.cap]
        BY <1>0
    <2>2. r = [q EXCEPT !.heap = h, !.at = m]
        OBVIOUS
    <2> HIDE DEF h, m, r
    <2> QED BY <2>1, <2>2
<1>2. /\ h \in Seq(Entry) /\ Len(h) = n - 1
      /\ \A k \in 1 .. (n - 1) : h[k] = q.heap[k]
    BY <1>0 DEF Front
<1>3. gone \in D /\ q.at[gone] = n
    BY <1>0
<1> HIDE DEF h, n, D, gone
<1>4. /\ m \in [D \ {gone} -> Nat]
      /\ \A port \in D \ {gone} : m[port] = q.at[port]
    BY <1>0 DEF RemoveMapEntry, Restrict, D
<1> HIDE DEF m, r
<1>5. D \ {gone} = {h[k].value : k \in 1 .. (n - 1)}
    <2>1. ASSUME NEW k \in 1 .. (n - 1) PROVE h[k].value \in D \ {gone}
        BY <1>0, <1>2, <1>3
    <2>2. ASSUME NEW port \in D \ {gone}
          PROVE  \E k \in 1 .. (n - 1) : port = h[k].value
        <3>1. q.at[port] # n
            BY <1>0, <1>3 DEF gone
        <3>2. q.at[port] \in 1 .. (n - 1)
            BY <1>0, <3>1
        <3> QED BY <1>0, <1>2, <3>2
    <2> QED BY <2>1, <2>2
<1>6. \A k \in 1 .. (n - 1) : m[h[k].value] = k
    <2>1. \A k \in 1 .. (n - 1) : k \in 1 .. n
        BY <1>0
    <2>2. \A k \in 1 .. (n - 1) : h[k].value \in D \ {gone}
        BY <1>5
    <2> QED BY <1>0, <1>2, <1>4, <2>1, <2>2
<1>7. r \in Queues
    BY <1>0, <1>1, <1>2, <1>4, <1>5, <1>6, QueueIntro
<1>8. r.heap = h /\ r.cap = q.cap /\ r.at = m /\ Size(r) = n - 1
    BY <1>1, <1>2 DEF Size
<1>9. Due(r) = Less(Due(q), gone)
    <2>1. DOMAIN m = D \ {gone}
        BY <1>4
    <2>2. \A port \in D \ {gone} :
            h[m[port]].priority = q.heap[q.at[port]].priority
        <3>1. ASSUME NEW port \in D \ {gone} PROVE q.at[port] \in 1 .. (n - 1)
            <4>1. q.at[port] # n /\ q.at[port] \in 1 .. n
                BY <1>0, <1>3 DEF gone
            <4> QED BY <1>0, <4>1
        <3> QED BY <1>2, <1>4, <3>1
    <2>3. Due(r) = [port \in D \ {gone} |-> h[m[port]].priority]
        BY <1>8, <2>1 DEF Due
    <2>4. Due(q) = [port \in D |-> q.heap[q.at[port]].priority]
        BY DEF Due, D
    <2>5. Less(Due(q), gone) =
            [port \in D \ {gone} |-> q.heap[q.at[port]].priority]
        BY <2>4 DEF Less, Restrict
    <2> QED BY <2>2, <2>3, <2>5
<1>10. \A k \in PlacesOf(r) : r.heap[k] = q.heap[k]
    BY <1>2, <1>8 DEF PlacesOf
<1> QED BY <1>7, <1>8, <1>9, <1>10 DEF h, m, r, gone, n

\* The last entry takes the place of another.
LEMMA ReplaceKeeps ==
    ASSUME NEW q \in Queues, NEW i \in 1 .. (Size(q) - 1)
    PROVE  LET r == Replace(q, i)
           IN /\ r \in Queues /\ Size(r) = Size(q) - 1 /\ r.cap = q.cap
              /\ \A k \in PlacesOf(r) :
                   r.heap[k] = IF k = i THEN q.heap[Size(q)] ELSE q.heap[k]
              /\ Due(r) = Less(Due(q), q.heap[i].value)
<1> DEFINE n == Size(q)
           last == q.heap[n]
           gone == q.heap[i].value
           h == Front([q.heap EXCEPT ![i] = last])
           D == DOMAIN q.at
           m == SetMapEntry(RemoveMapEntry(q.at, gone), last.value, i)
           r == Replace(q, i)
<1>0. /\ q.heap \in Seq(Entry) /\ q.cap \in Nat
      /\ n - 1 \in Nat /\ n \in Nat \ {0} /\ Len(q.heap) = n
      /\ q = [heap |-> q.heap, at |-> q.at, cap |-> q.cap]
      /\ q.at \in [D -> Nat] /\ D \in SUBSET Ports
      /\ \A k \in 1 .. n :
           /\ q.heap[k] \in Entry
           /\ q.heap[k].value \in D
           /\ q.at[q.heap[k].value] = k
      /\ \A port \in D :
           q.at[port] \in 1 .. n /\ q.heap[q.at[port]].value = port
      /\ i \in 1 .. (n - 1) /\ i \in 1 .. n /\ n \in 1 .. n /\ i # n
    BY QueueFacts DEF PlacesOf, Size
<1>1. r = [heap |-> h, at |-> m, cap |-> q.cap]
    <2>1. r = [q EXCEPT !.heap = h, !.at = m]
        BY DEF Replace
    <2> HIDE DEF h, m, D, n, r
    <2> QED BY <1>0, <2>1
<1>2. /\ h \in Seq(Entry) /\ Len(h) = n - 1
      /\ \A k \in 1 .. (n - 1) : h[k] = IF k = i THEN last ELSE q.heap[k]
    <2> DEFINE g == [q.heap EXCEPT ![i] = last]
    <2>1. /\ g \in Seq(Entry) /\ Len(g) = n
          /\ \A k \in 1 .. n : g[k] = IF k = i THEN last ELSE q.heap[k]
        BY <1>0
    <2> HIDE DEF g
    <2>2. h = Front(g)
        BY DEF g
    <2> HIDE DEF h, last, n
    <2>3. h = SubSeq(g, 1, n - 1)
        BY <2>1, <2>2 DEF Front
    <2>4. n - 1 \in Nat /\ n - 1 <= Len(g) /\ n - 1 \in 0 .. Len(g)
        BY <1>0, <2>1
    <2>5. h \in Seq(Entry) /\ Len(h) = n - 1
        BY <2>1, <2>3, <2>4
    <2>6. \A k \in 1 .. (n - 1) : h[k] = g[k]
        BY <2>1, <2>3, <2>4
    <2>7. \A k \in 1 .. (n - 1) : k \in 1 .. n
        BY <1>0
    <2> QED BY <2>1, <2>5, <2>6, <2>7
<1>3. /\ gone \in D /\ q.at[gone] = i /\ last.value \in D
      /\ q.at[last.value] = n /\ last \in Entry
    BY <1>0
<1> HIDE DEF h, n, last, D, r
<1>4. /\ m \in [D \ {gone} -> Nat] /\ m[last.value] = i
      /\ \A port \in D \ {gone, last.value} : m[port] = q.at[port]
      /\ last.value \in D \ {gone}
    <2>1. last.value \in D \ {gone}
        BY <1>0, <1>3
    <2>2. (D \ {gone}) \cup {last.value} = D \ {gone}
        BY <2>1
    <2> HIDE DEF gone
    <2> QED BY <1>0, <2>1, <2>2 DEF RemoveMapEntry, SetMapEntry, Restrict, D
<1>5. \A port \in D \ {gone, last.value} :
        q.at[port] \in 1 .. (n - 1) /\ q.at[port] # i
    <2>1. ASSUME NEW port \in D \ {gone, last.value}
          PROVE  q.at[port] # i /\ q.at[port] # n /\ q.at[port] \in 1 .. n
        BY <1>0, <1>3 DEF last
    <2> QED BY <1>0, <2>1
<1> HIDE DEF m, gone
<1>6. \A k \in 1 .. (n - 1) : h[k].value \in D \ {gone}
    <2>1. ASSUME NEW k \in 1 .. (n - 1), k # i
          PROVE  q.heap[k].value \in D \ {gone}
        <3>1. k \in 1 .. n
            BY <1>0
        <3> QED BY <1>0, <1>3, <2>1, <3>1
    <2> QED BY <1>2, <1>4, <2>1
<1>7. D \ {gone} = {h[k].value : k \in 1 .. (n - 1)}
    <2>1. ASSUME NEW port \in D \ {gone}
          PROVE  \E k \in 1 .. (n - 1) : port = h[k].value
        <3>1. CASE port = last.value
            BY <1>0, <1>2, <3>1
        <3>2. CASE port # last.value
            BY <1>0, <1>2, <1>5, <3>2
        <3> QED BY <3>1, <3>2
    <2> QED BY <1>6, <2>1
<1>8. ASSUME NEW k \in 1 .. (n - 1) PROVE m[h[k].value] = k
    <2>1. CASE k = i
        BY <1>0, <1>2, <1>4, <2>1
    <2>2. CASE k # i
        <3>1. k \in 1 .. n /\ k # n
            BY <1>0
        <3>2. h[k].value # last.value
            BY <1>0, <1>2, <1>3, <2>2, <3>1
        <3> QED BY <1>0, <1>2, <1>4, <1>6, <2>2, <3>1, <3>2
    <2> QED BY <2>1, <2>2
<1>9. r \in Queues
    BY <1>0, <1>1, <1>2, <1>4, <1>7, <1>8, QueueIntro
<1>10. r.heap = h /\ r.cap = q.cap /\ r.at = m /\ Size(r) = n - 1
    BY <1>1, <1>2 DEF Size
<1>11. Due(r) = Less(Due(q), gone)
    <2>1. DOMAIN m = D \ {gone}
        BY <1>4
    <2>2. ASSUME NEW port \in D \ {gone}
          PROVE  h[m[port]].priority = q.heap[q.at[port]].priority
        <3>1. CASE port = last.value
            BY <1>0, <1>2, <1>3, <1>4, <3>1 DEF last
        <3>2. CASE port # last.value
            BY <1>2, <1>4, <1>5, <3>2
        <3> QED BY <3>1, <3>2
    <2>3. Due(r) = [port \in D \ {gone} |-> h[m[port]].priority]
        BY <1>10, <2>1 DEF Due
    <2>4. Due(q) = [port \in D |-> q.heap[q.at[port]].priority]
        BY DEF Due, D
    <2>5. Less(Due(q), gone) =
            [port \in D \ {gone} |-> q.heap[q.at[port]].priority]
        BY <2>4 DEF Less, Restrict
    <2> QED BY <2>2, <2>3, <2>5
<1>12. \A k \in PlacesOf(r) :
         r.heap[k] = IF k = i THEN last ELSE q.heap[k]
    BY <1>2, <1>10 DEF PlacesOf
<1> QED BY <1>9, <1>10, <1>11, <1>12 DEF last, r, gone, n

\* An entry gets another priority.
LEMMA ChangeKeeps ==
    ASSUME NEW q \in Queues, NEW v \in DOMAIN q.at, NEW p \in Times
    PROVE  LET r == [q EXCEPT !.heap[q.at[v]].priority = p]
           IN /\ r \in Queues /\ Size(r) = Size(q) /\ r.cap = q.cap
              /\ \A k \in PlacesOf(q) :
                   r.heap[k].priority = IF k = q.at[v] THEN p
                                        ELSE q.heap[k].priority
              /\ Due(r) = With(Due(q), v, p)
<1> DEFINE n == Size(q)
           i == q.at[v]
           h == [q.heap EXCEPT ![i] = [@ EXCEPT !.priority = p]]
           D == DOMAIN q.at
           r == [q EXCEPT !.heap[i].priority = p]
<1>0. /\ q.heap \in Seq(Entry) /\ q.cap \in Nat /\ n \in Nat /\ Len(q.heap) = n
      /\ q = [heap |-> q.heap, at |-> q.at, cap |-> q.cap]
      /\ q.at \in [D -> Nat] /\ D \in SUBSET Ports
      /\ \A k \in 1 .. n :
           /\ q.heap[k] \in Entry
           /\ q.heap[k].value \in D
           /\ q.at[q.heap[k].value] = k
      /\ \A port \in D :
           q.at[port] \in 1 .. n /\ q.heap[q.at[port]].value = port
      /\ v \in D /\ i \in 1 .. n
    BY QueueFacts DEF PlacesOf, Size
<1>1. r = [heap |-> h, at |-> q.at, cap |-> q.cap]
    <2>1. r = [q EXCEPT !.heap = h]
        OBVIOUS
    <2> HIDE DEF h, D, n, r
    <2> QED BY <1>0, <2>1
<1>2. /\ h \in Seq(Entry) /\ Len(h) = n
      /\ \A k \in 1 .. n :
           /\ h[k].value = q.heap[k].value
           /\ h[k].priority = IF k = i THEN p ELSE q.heap[k].priority
    <2> DEFINE e == [q.heap[i] EXCEPT !.priority = p]
    <2>1. e \in Entry /\ e.value = q.heap[i].value /\ e.priority = p
        BY <1>0 DEF Entry
    <2>2. h = [q.heap EXCEPT ![i] = e]
        BY <1>0
    <2> HIDE DEF e, h, n, D, i
    <2> QED BY <1>0, <2>1, <2>2
<1> HIDE DEF h, n, D, r
<1>3. r \in Queues
    <2>1. D = {h[k].value : k \in 1 .. n}
        <3>1. ASSUME NEW port \in D PROVE \E k \in 1 .. n : port = h[k].value
            <4>1. q.at[port] \in 1 .. n /\ q.heap[q.at[port]].value = port
                BY <1>0
            <4> QED BY <1>2, <4>1
        <3>2. ASSUME NEW k \in 1 .. n PROVE h[k].value \in D
            <4>1. q.heap[k].value \in D
                BY <1>0
            <4> QED BY <1>2, <4>1
        <3> QED BY <3>1, <3>2
    <2>2. \A k \in 1 .. n : q.at[h[k].value] = k
        BY <1>0, <1>2
    <2>3. q.at \in [D -> Nat] /\ D \in SUBSET Ports /\ q.cap \in Nat
        BY <1>0
    <2> QED BY <1>1, <1>2, <2>1, <2>2, <2>3, QueueIntro
<1>4. r.heap = h /\ r.cap = q.cap /\ r.at = q.at /\ Size(r) = n
    BY <1>1, <1>2 DEF Size
<1>5. Due(r) = With(Due(q), v, p)
    <2>1. ASSUME NEW port \in D
          PROVE  h[q.at[port]].priority =
                   IF port = v THEN p ELSE q.heap[q.at[port]].priority
        <3>1. q.at[port] = i <=> port = v
            BY <1>0
        <3> HIDE DEF i
        <3> QED BY <1>0, <1>2, <3>1
    <2>2. Due(r) = [port \in D |-> h[q.at[port]].priority]
        BY <1>4 DEF Due, D
    <2>3. Due(q) = [port \in D |-> q.heap[q.at[port]].priority]
        BY DEF Due, D
    <2>4. D \cup {v} = D
        BY <1>0
    <2>5. With(Due(q), v, p) =
            [port \in D |-> IF port = v THEN p
                            ELSE q.heap[q.at[port]].priority]
        BY <2>3, <2>4 DEF With
    <2> QED BY <2>1, <2>2, <2>5
<1> QED BY <1>2, <1>3, <1>4, <1>5 DEF PlacesOf, r, n

-----------------------------------------------------------------------------
(* The array: its capacity is the minimum, doubled some number of times.   *)

Doublings == {C \in SUBSET Nat : MinimumSize \in C /\ \A c \in C : 2 * c \in C}
Capacities == {c \in Nat : \A C \in Doublings : c \in C}

\* The smallest such set: it starts at the minimum and each other capacity
\* is twice one.
LEMMA CapacityFacts ==
    /\ MinimumSize \in Capacities
    /\ \A c \in Capacities :
         /\ 2 * c \in Capacities
         /\ c >= MinimumSize
         /\ c # MinimumSize => \E d \in Capacities : c = 2 * d
<1>1. MinimumSize \in Capacities
    BY MinimumSizeAssumption DEF Capacities, Doublings
<1>2. ASSUME NEW c \in Capacities PROVE 2 * c \in Capacities
    BY DEF Capacities, Doublings
<1>3. ASSUME NEW c \in Capacities PROVE c >= MinimumSize
    <2> DEFINE C == {d \in Nat : d >= MinimumSize}
    <2>1. C \in Doublings
        BY MinimumSizeAssumption DEF Doublings
    <2>2. c \in C
        BY <2>1 DEF Capacities
    <2> QED BY <2>2
<1>4. ASSUME NEW c \in Capacities, c # MinimumSize
      PROVE  \E d \in Capacities : c = 2 * d
    <2> DEFINE C == {d \in Capacities :
                       d = MinimumSize \/ \E b \in Capacities : d = 2 * b}
    <2>1. C \in SUBSET Nat
        BY DEF Capacities
    <2>2. C \in Doublings
        BY <1>1, <1>2, <2>1 DEF Doublings
    <2>3. c \in C
        BY <2>2 DEF Capacities
    <2> QED BY <1>4, <2>3
<1> QED BY <1>1, <1>2, <1>3, <1>4

\* The entries fit, and a grown array is used for more than a quarter.
Fits(q) ==
    /\ q.cap \in Capacities
    /\ Size(q) <= q.cap
    /\ q.cap > MinimumSize => 4 * Size(q) > q.cap

\* A queue in another array is the same queue.
LEMMA CapacityOnly ==
    ASSUME NEW q \in Queues, NEW c \in Nat
    PROVE  LET r == [q EXCEPT !.cap = c]
           IN /\ r \in Queues /\ r.heap = q.heap /\ r.at = q.at /\ r.cap = c
              /\ Size(r) = Size(q) /\ Due(r) = Due(q)
              /\ Ordered(q) => Ordered(r)
<1> DEFINE r == [q EXCEPT !.cap = c]
<1>1. q = [heap |-> q.heap, at |-> q.at, cap |-> q.cap]
    BY QueueFacts
<1>2. r.heap = q.heap /\ r.at = q.at /\ r.cap = c
    BY <1>1
<1>3. r \in [heap : Seq(Entry), at : Maps, cap : Nat]
    BY DEF Queues
<1> HIDE DEF r
<1>4. r \in Queues
    BY <1>2, <1>3 DEF Queues, Matched, PlacesOf, Size
<1>5. Size(r) = Size(q) /\ Due(r) = Due(q)
    BY <1>2 DEF Size, Due
<1>6. Ordered(q) => Ordered(r)
    BY <1>2 DEF Ordered, Follows, PlacesOf, Size
<1> QED BY <1>2, <1>4, <1>5, <1>6 DEF r

\* An array that one entry fewer may have made too large is halved.
LEMMA ShrinkFits ==
    ASSUME NEW q \in Queues
    PROVE  /\ Shrink(q) \in Queues /\ Size(Shrink(q)) = Size(q)
           /\ Due(Shrink(q)) = Due(q)
           /\ Ordered(q) => Ordered(Shrink(q))
           /\ (/\ q.cap \in Capacities /\ Size(q) <= q.cap
               /\ q.cap > MinimumSize => 4 * (Size(q) + 1) > q.cap)
                => Fits(Shrink(q))
<1> DEFINE c == q.cap
           n == Size(q)
           r == [q EXCEPT !.cap = c \div 2]
<1>1. c \in Nat /\ c \div 2 \in Nat /\ n \in Nat
    BY QueueFacts
<1>2. Shrink(q) = IF n <= c \div 4 /\ MinimumSize <= c \div 2 THEN r ELSE q
    BY DEF Shrink
<1>3. /\ r \in Queues /\ r.cap = c \div 2 /\ Size(r) = n /\ Due(r) = Due(q)
      /\ Ordered(q) => Ordered(r)
    <2> HIDE DEF c
    <2> QED BY <1>1, CapacityOnly
<1> HIDE DEF r
<1>4. ASSUME c \in Capacities, n <= c, c > MinimumSize => 4 * (n + 1) > c
      PROVE  Fits(Shrink(q))
    <2> USE MinimumSizeAssumption
    <2> HIDE DEF n, c
    <2>1. CASE c = MinimumSize
        <3>1. ~(MinimumSize <= c \div 2)
            BY <1>1, <2>1
        <3> QED BY <1>1, <1>2, <1>4, <2>1, <3>1 DEF Fits, n, c
    <2>2. CASE c # MinimumSize
        <3>1. PICK d \in Capacities : c = 2 * d
            BY <1>4, <2>2, CapacityFacts
        <3>2. d \in Nat /\ d >= MinimumSize /\ c \div 2 = d
            BY <3>1, CapacityFacts DEF Capacities
        <3>3. c > MinimumSize /\ 4 * (n + 1) > c
            BY <1>4, <3>1, <3>2
        <3>4. CASE n <= c \div 4
            <4>1. Shrink(q) = r
                BY <1>2, <3>2, <3>4
            <4>2. n <= d
                BY <1>1, <3>1, <3>2, <3>4
            <4>3. d > MinimumSize => 4 * n > d
                BY <1>1, <3>1, <3>2, <3>3
            <4> QED BY <1>3, <3>1, <3>2, <4>1, <4>2, <4>3 DEF Fits
        <3>5. CASE ~(n <= c \div 4)
            <4>1. Shrink(q) = q
                BY <1>2, <3>5
            <4>2. 4 * n > c
                BY <1>1, <3>5
            <4> QED BY <1>4, <4>1, <4>2 DEF Fits, n, c
        <3> QED BY <3>4, <3>5
    <2> QED BY <2>1, <2>2
<1> QED BY <1>2, <1>3, <1>4

-----------------------------------------------------------------------------
(* The operations.                                                         *)

\* A new entry.
LEMMA InsertFacts ==
    ASSUME NEW q \in Queues, NEW p \in Times, NEW v \in Ports \ DOMAIN q.at
    PROVE  LET r == Insert(q, p, v)
           IN /\ r \in Queues
              /\ Due(r) = With(Due(q), v, p)
              /\ Fits(q) => Fits(r)
              /\ Ordered(q) => Ordered(r)
<1> DEFINE grown == IF Size(q) = q.cap THEN [q EXCEPT !.cap = 2 * @] ELSE q
           n == Size(q) + 1
           e == [priority |-> p, value |-> v]
           set == SetEntry(grown, n, e)
           r == BubbleUp(set, n)
<1>1. r = Insert(q, p, v)
    BY DEF Insert
<1>2. /\ grown \in Queues /\ Size(grown) = Size(q) /\ Due(grown) = Due(q)
      /\ grown.heap = q.heap /\ grown.at = q.at
      /\ grown.cap = IF Size(q) = q.cap THEN 2 * q.cap ELSE q.cap
    <2>1. 2 * q.cap \in Nat
        BY QueueFacts
    <2> QED BY <2>1, CapacityOnly
<1>3. Size(q) \in Nat /\ q.cap \in Nat
    BY QueueFacts
<1> HIDE DEF grown
<1>4. /\ set \in Queues /\ Size(set) = n /\ set.cap = grown.cap
      /\ set.heap = Append(q.heap, e) /\ Due(set) = With(Due(q), v, p)
    BY <1>2, SetEntryAdds
<1>5. n \in PlacesOf(set)
    BY <1>3, <1>4 DEF PlacesOf
<1> HIDE DEF set
<1>6. /\ r \in Queues /\ Size(r) = n /\ r.cap = grown.cap
      /\ Due(r) = With(Due(q), v, p)
    <2>1. r \in Alike(set)
        BY <1>4, <1>5, BubblesAlike
    <2> QED BY <1>4, <2>1 DEF Alike
<1>7. ASSUME Fits(q) PROVE Fits(r)
    <2>1. /\ q.cap \in Capacities /\ Size(q) <= q.cap
          /\ q.cap > MinimumSize => 4 * Size(q) > q.cap
        BY <1>7 DEF Fits
    <2>2. 2 * q.cap \in Capacities
        BY <2>1, CapacityFacts
    <2>3. q.cap > 0
        BY <1>3, <2>1, CapacityFacts, MinimumSizeAssumption
    <2>4. /\ r.cap \in Capacities
          /\ Size(r) <= r.cap /\ (r.cap > MinimumSize => 4 * Size(r) > r.cap)
        BY <1>2, <1>3, <1>6, <2>1, <2>2, <2>3, MinimumSizeAssumption
    <2> QED BY <2>4 DEF Fits
<1>8. ASSUME Ordered(q) PROVE Ordered(r)
    <2>1. \A k \in 1 .. (n - 1) : set.heap[k] = q.heap[k]
        <3>0. Len(q.heap) = Size(q) /\ Size(q) = n - 1
            BY <1>3 DEF Size
        <3>1. q.heap \in Seq(Entry) /\ Len(q.heap) = n - 1 /\ e \in Entry
            BY <3>0, QueueFacts DEF Entry
        <3> HIDE DEF e, n
        <3> QED BY <1>4, <3>1
    <2>2. ASSUME NEW k \in PlacesOf(set), k # 1, k # n PROVE Follows(set, k)
        <3>1. k \in 1 .. (n - 1) /\ k \div 2 \in 1 .. (n - 1)
            BY <1>3, <1>4, <2>2 DEF PlacesOf
        <3>2. Follows(q, k)
            BY <1>3, <1>8, <2>2, <3>1 DEF Ordered, PlacesOf
        <3> QED BY <2>1, <3>1, <3>2 DEF Follows
    <2>3. \A k \in PlacesOf(set) : k \div 2 # n
        BY <1>3, <1>4 DEF PlacesOf
    <2>4. OrderedExceptAt(set, n)
        BY <2>2, <2>3 DEF OrderedExceptAt, Bridged
    <2> QED BY <1>4, <1>5, <2>4, BubbleUpOrders
<1> QED BY <1>1, <1>6, <1>7, <1>8

\* An entry that goes; the order is kept where it was the first.
LEMMA RemoveFacts ==
    ASSUME NEW q \in Queues, NEW i \in PlacesOf(q)
    PROVE  LET r == RemoveAt(q, i)
           IN /\ r \in Queues /\ Size(r) = Size(q) - 1
              /\ Due(r) = Less(Due(q), q.heap[i].value)
              /\ Fits(q) => Fits(r)
              /\ Ordered(q) /\ i = 1 => Ordered(r)
<1> DEFINE n == Size(q)
           gone == q.heap[i].value
           lacks == IF i = n
                    THEN [q EXCEPT !.heap = Front(@),
                                   !.at = RemoveMapEntry(@, gone)]
                    ELSE BubbleDown(Replace(q, i), i)
<1>1. RemoveAt(q, i) = Shrink(lacks)
    BY DEF RemoveAt
<1>2. n \in Nat /\ i \in 1 .. n /\ n > 0 /\ q.cap \in Nat
    BY QueueFacts DEF PlacesOf
<1>3. /\ lacks \in Queues /\ Size(lacks) = n - 1 /\ lacks.cap = q.cap
      /\ Due(lacks) = Less(Due(q), gone)
      /\ Ordered(q) /\ i = 1 => Ordered(lacks)
    <2>1. CASE i = n
        <3>1. /\ lacks \in Queues /\ Size(lacks) = n - 1 /\ lacks.cap = q.cap
              /\ Due(lacks) = Less(Due(q), gone)
            BY <1>2, <2>1, LastGoes
        <3>2. i = 1 => Ordered(lacks)
            <4> HIDE DEF lacks
            <4> QED BY <1>2, <2>1, <3>1 DEF Ordered, PlacesOf
        <3> QED BY <3>1, <3>2
    <2>2. CASE i # n
        <3> DEFINE t == Replace(q, i)
        <3>1. i \in 1 .. (n - 1)
            BY <1>2, <2>2
        <3>2. /\ t \in Queues /\ Size(t) = n - 1 /\ t.cap = q.cap
              /\ \A k \in PlacesOf(t) :
                   t.heap[k] = IF k = i THEN q.heap[n] ELSE q.heap[k]
              /\ Due(t) = Less(Due(q), gone)
            BY <3>1, ReplaceKeeps
        <3> HIDE DEF t
        <3>3. lacks = BubbleDown(t, i) /\ i \in PlacesOf(t)
            BY <2>2, <3>1, <3>2 DEF t, PlacesOf
        <3>4. lacks \in Alike(t)
            BY <3>2, <3>3, BubblesAlike
        <3>5. ASSUME Ordered(q), i = 1 PROVE Ordered(lacks)
            <4>1. ASSUME NEW k \in PlacesOf(t), k # 1, k \div 2 # i
                  PROVE  Follows(t, k)
                <5>1. /\ k \in 1 .. n /\ k \in PlacesOf(q)
                      /\ k \div 2 \in PlacesOf(t) /\ k # i
                    BY <1>2, <3>2, <3>5, <4>1 DEF PlacesOf
                <5>2. Follows(q, k)
                    BY <3>5, <4>1, <5>1 DEF Ordered
                <5> QED BY <3>2, <4>1, <5>1, <5>2 DEF Follows
            <4>2. OrderedExceptBelow(t, i)
                BY <3>5, <4>1 DEF OrderedExceptBelow, Bridged
            <4> QED BY <3>2, <3>3, <4>2, BubbleDownOrders
        <3> QED BY <3>2, <3>4, <3>5 DEF Alike
    <2> QED BY <2>1, <2>2
<1> HIDE DEF lacks
<1>4. ASSUME Fits(q) PROVE Fits(Shrink(lacks))
    <2>1. /\ lacks.cap \in Capacities /\ Size(lacks) <= lacks.cap
          /\ lacks.cap > MinimumSize => 4 * (Size(lacks) + 1) > lacks.cap
        BY <1>2, <1>3, <1>4 DEF Fits
    <2> QED BY <1>3, <2>1, ShrinkFits
<1> QED BY <1>1, <1>3, <1>4, ShrinkFits

\* A new entry, or another priority for one there is.
LEMMA ChangeFacts ==
    ASSUME NEW q \in Queues, NEW p \in Times, NEW v \in Ports
    PROVE  LET r == InsertOrChangePriority(q, p, v)
           IN /\ r \in Queues
              /\ Due(r) = With(Due(q), v, p)
              /\ Fits(q) => Fits(r)
              /\ Ordered(q) => Ordered(r)
<1>1. CASE ~ContainsValue(q, v)
    <2>1. v \in Ports \ DOMAIN q.at
        BY <1>1 DEF ContainsValue
    <2>2. InsertOrChangePriority(q, p, v) = Insert(q, p, v)
        BY <1>1 DEF InsertOrChangePriority
    <2> QED BY <2>1, <2>2, InsertFacts
<1>2. CASE ContainsValue(q, v)
    <2> DEFINE i == q.at[v]
               parent == i \div 2
               t == [q EXCEPT !.heap[i].priority = p]
               r == InsertOrChangePriority(q, p, v)
               n == Size(q)
    <2>1. v \in DOMAIN q.at
        BY <1>2 DEF ContainsValue
    <2>2. /\ n \in Nat /\ i \in 1 .. n /\ p \in Nat
          /\ \A k \in 1 .. n : q.heap[k].priority \in Nat
        BY <2>1, QueueFacts, TimeoutQueueAssumption DEF PlacesOf, Entry
    <2>3. /\ t \in Queues /\ Size(t) = n /\ t.cap = q.cap
          /\ \A k \in 1 .. n : t.heap[k].priority =
                               IF k = i THEN p ELSE q.heap[k].priority
          /\ Due(t) = With(Due(q), v, p)
        BY <2>1, ChangeKeeps DEF PlacesOf
    <2>4. r = CASE i = 1 -> BubbleDown(t, i)
              [] i > 1 /\ p < q.heap[parent].priority -> BubbleUp(t, i)
              [] i > 1 /\ p > q.heap[parent].priority -> BubbleDown(t, i)
              [] OTHER -> t
        BY <1>2 DEF InsertOrChangePriority
    <2>5. parent * 2 <= i /\ (i # 1 => parent \in 1 .. n /\ parent < i)
        BY <2>2
    <2>6. i \div 2 = parent
        OBVIOUS
    <2> HIDE DEF t, i, r, n, parent
    <2>7. \/ r = t /\ i # 1 /\ p = q.heap[parent].priority
          \/ r = BubbleUp(t, i) /\ i # 1 /\ p < q.heap[parent].priority
          \/ r = BubbleDown(t, i) /\ (i = 1 \/ p > q.heap[parent].priority)
        BY <2>2, <2>4, <2>5
    <2>8. i \in PlacesOf(t) /\ t \in Alike(t)
        BY <2>2, <2>3 DEF PlacesOf, Alike
    <2>9. r \in Alike(t)
        BY <2>3, <2>7, <2>8, BubblesAlike
    <2>10. Fits(q) => Fits(r)
        BY <2>3, <2>9 DEF Fits, Alike, n
    <2>11. ASSUME Ordered(q) PROVE Ordered(r)
        <3>1. ASSUME NEW k \in 1 .. n, k # 1, k # i, k \div 2 # i
              PROVE  Follows(t, k)
            <4>1. k \div 2 \in 1 .. n
                BY <2>2, <3>1
            <4>2. Follows(q, k)
                BY <2>11, <3>1 DEF Ordered, PlacesOf, n
            <4> QED BY <2>3, <3>1, <4>1, <4>2 DEF Follows
        <3>2. ASSUME NEW k \in 1 .. n, k \div 2 = i, i # 1
              PROVE  q.heap[parent].priority <= t.heap[k].priority
            <4>1. k # 1 /\ k # i
                BY <2>2, <3>2
            <4>2. /\ q.heap[i].priority <= q.heap[k].priority
                  /\ q.heap[parent].priority <= q.heap[i].priority
                BY <2>2, <2>6, <2>11, <3>2, <4>1
                   DEF Ordered, PlacesOf, n, Follows
            <4>3. /\ q.heap[parent].priority \in Nat
                  /\ q.heap[i].priority \in Nat /\ q.heap[k].priority \in Nat
                BY <2>2, <2>5, <3>2
            <4> QED BY <2>3, <4>1, <4>2, <4>3
        <3>3. i # 1 => t.heap[parent].priority = q.heap[parent].priority
            BY <2>2, <2>3, <2>5
        <3>4. t.heap[i].priority = p
            BY <2>2, <2>3
        <3>5. Bridged(t, i)
            BY <2>3, <2>6, <3>2, <3>3 DEF Bridged, PlacesOf
        <3>6. CASE r = t /\ i # 1 /\ p = q.heap[parent].priority
            <4>1. Follows(t, i)
                BY <2>2, <2>6, <3>3, <3>4, <3>6 DEF Follows
            <4>2. \A k \in 1 .. n : k \div 2 = i => Follows(t, k)
                BY <3>2, <3>4, <3>6 DEF Follows
            <4> QED BY <2>3, <3>1, <3>6, <4>1, <4>2 DEF Ordered, PlacesOf
        <3>7. CASE r = BubbleUp(t, i) /\ i # 1 /\ p < q.heap[parent].priority
            <4>1. ASSUME NEW k \in 1 .. n, k \div 2 = i PROVE Follows(t, k)
                <5>1. /\ q.heap[parent].priority \in Nat
                      /\ t.heap[k].priority \in Nat
                    BY <2>2, <2>3, <2>5, <3>7
                <5>2. q.heap[parent].priority <= t.heap[k].priority
                    BY <3>2, <3>7, <4>1
                <5>3. p <= t.heap[k].priority
                    BY <2>2, <3>7, <5>1, <5>2
                <5> QED BY <3>4, <4>1, <5>3 DEF Follows
            <4>2. OrderedExceptAt(t, i)
                BY <2>3, <3>1, <3>5, <4>1 DEF OrderedExceptAt, PlacesOf
            <4> QED BY <2>3, <2>8, <3>7, <4>2, BubbleUpOrders
        <3>8. CASE r = BubbleDown(t, i) /\ (i = 1 \/ p > q.heap[parent].priority)
            <4>1. i # 1 => Follows(t, i)
                <5>1. i # 1 => q.heap[parent].priority \in Nat
                    BY <2>2, <2>5
                <5> QED BY <2>2, <2>6, <3>3, <3>4, <3>8, <5>1 DEF Follows
            <4>2. OrderedExceptBelow(t, i)
                BY <2>3, <3>1, <3>5, <4>1 DEF OrderedExceptBelow, PlacesOf
            <4> QED BY <2>3, <2>8, <3>8, <4>2, BubbleDownOrders
        <3> QED BY <2>7, <3>6, <3>7, <3>8
    <2> QED BY <2>3, <2>9, <2>10, <2>11 DEF Alike, r
<1> QED BY <1>1, <1>2

-----------------------------------------------------------------------------
(* The specification.                                                      *)

\* The inductive invariant: the map is the inverse of the array, the array is
\* neither too small nor too large, and it is a heap unless a pending timeout
\* was cancelled.
IInv ==
    /\ timeouts \in Queues
    /\ cancelled \in BOOLEAN
    /\ Fits(timeouts)
    /\ ~cancelled => Ordered(timeouts)

\* A queue without entries has no timeouts, and the other way round.
LEMMA EmptyFacts ==
    ASSUME NEW q \in Queues
    PROVE  /\ Size(q) \in Nat
           /\ Size(q) > 0 <=> DOMAIN Due(q) # {}
           /\ DOMAIN Due(q) = DOMAIN q.at
           /\ Size(q) = 0 => Ordered(q)
<1>1. /\ Size(q) \in Nat
      /\ \A i \in PlacesOf(q) : q.heap[i].value \in DOMAIN q.at
      /\ \A port \in DOMAIN q.at : q.at[port] \in PlacesOf(q)
    BY QueueFacts
<1>2. PlacesOf(q) = {} <=> Size(q) = 0
    BY <1>1 DEF PlacesOf
<1> QED BY <1>1, <1>2 DEF Due, Ordered

\* The first entry is the current timeout, and its port's.
LEMMA CurrentFacts ==
    ASSUME NEW q \in Queues, Size(q) > 0
    PROVE  /\ 1 \in PlacesOf(q)
           /\ q.heap[1].value \in DOMAIN Due(q)
           /\ Ordered(q) => \A r \in DOMAIN Due(q) :
                              Due(q)[q.heap[1].value] <= Due(q)[r]
<1>1. 1 \in PlacesOf(q)
    BY QueueFacts DEF PlacesOf
<1>2. /\ DOMAIN Due(q) = DOMAIN q.at
      /\ \A r \in DOMAIN q.at : Due(q)[r] = q.heap[q.at[r]].priority
    BY DEF Due
<1>3. /\ q.heap[1].value \in DOMAIN q.at /\ q.at[q.heap[1].value] = 1
      /\ \A r \in DOMAIN q.at : q.at[r] \in PlacesOf(q)
    BY <1>1, QueueFacts
<1> QED BY <1>1, <1>2, <1>3, MinimumIsLeast

\* What each action does, from a state of the invariant.
LEMMA UpdateStep ==
    ASSUME IInv, NEW port \in Ports, NEW time \in Times,
           UpdateTimeout(port, time)
    PROVE  IInv' /\ Due(timeouts') = With(Due(timeouts), port, time)
BY ChangeFacts DEF IInv, UpdateTimeout

LEMMA CancelStep ==
    ASSUME IInv, NEW port \in Ports, CancelTimeout(port)
    PROVE  IInv' /\ Due(timeouts') = Less(Due(timeouts), port)
<1>1. timeouts \in Queues /\ Fits(timeouts)
    BY DEF IInv
<1>2. CASE ContainsValue(timeouts, port)
    <2> DEFINE i == timeouts.at[port]
    <2>1. i \in PlacesOf(timeouts) /\ timeouts.heap[i].value = port
        BY <1>1, <1>2, QueueFacts DEF ContainsValue
    <2>2. timeouts' = RemoveAt(timeouts, i)
        BY <1>2 DEF CancelTimeout, RemoveByValue
    <2>3. /\ timeouts' \in Queues /\ Fits(timeouts')
          /\ Due(timeouts') = Less(Due(timeouts), port)
        BY <1>1, <2>1, <2>2, RemoveFacts
    <2>4. cancelled' \in BOOLEAN /\ (~cancelled' => ~(Size(timeouts') > 0))
        BY <1>2 DEF CancelTimeout, HasTimeout
    <2>5. ~cancelled' => Ordered(timeouts')
        BY <2>3, <2>4, EmptyFacts
    <2> QED BY <2>3, <2>4, <2>5 DEF IInv
<1>3. CASE ~ContainsValue(timeouts, port)
    <2>1. timeouts' = timeouts
        BY <1>3 DEF CancelTimeout, RemoveByValue
    <2>2. Due(timeouts) = Less(Due(timeouts), port)
        <3>1. port \notin DOMAIN timeouts.at
            BY <1>3 DEF ContainsValue
        <3>2. DOMAIN timeouts.at \ {port} = DOMAIN timeouts.at
            BY <3>1
        <3> QED BY <3>2 DEF Less, Due, Restrict
    <2>3. /\ cancelled' \in BOOLEAN
          /\ ~cancelled' => ~cancelled \/ ~(Size(timeouts') > 0)
        BY DEF CancelTimeout, HasTimeout
    <2>4. ~cancelled' => Ordered(timeouts')
        BY <1>1, <2>1, <2>3, EmptyFacts DEF IInv
    <2> QED BY <1>1, <2>1, <2>2, <2>3, <2>4 DEF IInv
<1> QED BY <1>2, <1>3

LEMMA RemoveStep ==
    ASSUME IInv, RemoveCurrent
    PROVE  IInv' /\ Due(timeouts') = Less(Due(timeouts), CurrentPort)
<1>1. timeouts \in Queues /\ Fits(timeouts) /\ Size(timeouts) > 0
    BY DEF IInv, RemoveCurrent, HasTimeout
<1>2. 1 \in PlacesOf(timeouts)
    BY <1>1, CurrentFacts
<1>3. timeouts' = RemoveAt(timeouts, 1)
    BY DEF RemoveCurrent, RemoveMinimum
<1>4. /\ timeouts' \in Queues /\ Fits(timeouts')
      /\ Due(timeouts') = Less(Due(timeouts), CurrentPort)
      /\ Ordered(timeouts) => Ordered(timeouts')
    BY <1>1, <1>2, <1>3, RemoveFacts DEF CurrentPort, Minimum
<1>5. /\ cancelled' \in BOOLEAN
      /\ ~cancelled' => ~cancelled \/ ~(Size(timeouts') > 0)
    BY DEF RemoveCurrent, HasTimeout
<1>6. ~cancelled' => Ordered(timeouts')
    BY <1>4, <1>5, EmptyFacts DEF IInv
<1> QED BY <1>4, <1>5, <1>6 DEF IInv

\* The queue begins without timeouts, in the smallest array.
LEMMA InitialQueue ==
    EmptyQueue \in Queues /\ Fits(EmptyQueue) /\ Ordered(EmptyQueue)
    /\ Due(EmptyQueue) = <<>>
<1>1. /\ EmptyQueue.heap = <<>> /\ EmptyQueue.at = <<>>
      /\ EmptyQueue.cap = MinimumSize /\ Size(EmptyQueue) = 0
    BY DEF EmptyQueue, Size
<1>2. EmptyQueue \in Queues
    <2>1. <<>> \in [{} -> Nat]
        OBVIOUS
    <2>2. EmptyQueue = [heap |-> <<>>, at |-> <<>>, cap |-> MinimumSize]
        BY DEF EmptyQueue
    <2>3. <<>> \in Seq(Entry) /\ {} \in SUBSET Ports /\ MinimumSize \in Nat
          /\ Len(<<>>) = 0 /\ 1 .. 0 = {}
        BY MinimumSizeAssumption
    <2> QED BY <2>1, <2>2, <2>3 DEF Queues, Maps, Matched, PlacesOf, Size
<1>3. Fits(EmptyQueue)
    BY <1>1, CapacityFacts, MinimumSizeAssumption DEF Fits
<1>4. Due(EmptyQueue) = <<>>
    BY <1>1 DEF Due
<1> QED BY <1>1, <1>2, <1>3, <1>4, EmptyFacts

\* The invariant holds in every state.
THEOREM InvariantHolds == Spec => []IInv
<1>1. Init => IInv
    BY InitialQueue DEF Init, IInv
<1>2. ASSUME IInv, [Next]_vars PROVE IInv'
    <2>1. CASE Next
        BY <1>2, <2>1, UpdateStep, CancelStep, RemoveStep DEF Next
    <2>2. CASE UNCHANGED vars
        BY <1>2, <2>2 DEF vars, IInv
    <2> QED BY <1>2, <2>1, <2>2
<1> QED BY <1>1, <1>2, PTL DEF Spec

\* The hash map and the array of the priority queue name each other's entries
\* exactly, after every chain of its operations.
THEOREM MapStaysInverse == Spec => []MapIsInverse
<1>1. IInv => MapIsInverse
    BY DEF IInv, MapIsInverse, Queues, Matched, PlacesOf, Places
<1> QED BY <1>1, InvariantHolds, PTL

\* The array of the priority queue always has room for its entries, and one
\* that has grown is used for more than a quarter.
THEOREM CapacityAlwaysFits == Spec => []CapacityFits
<1>1. IInv => CapacityFits
    BY DEF IInv, CapacityFits, Fits
<1> QED BY <1>1, InvariantHolds, PTL

\* The functions of Timeouts, as they are used here.
LEMMA AbstractFacts ==
    /\ \A port \in Ports, time \in Times :
         Due(timeouts') = With(Due(timeouts), port, time)
           => Abstract!Set(port, time)
    /\ \A port \in Ports : Due(timeouts') = Less(Due(timeouts), port)
           => Abstract!Forget(port)
    /\ Due(timeouts') = Less(Due(timeouts), CurrentPort)
           => Abstract!Forget(CurrentPort)
    /\ Abstract!Pending = DOMAIN Due(timeouts)
<1>1. Abstract!Pending = DOMAIN Due(timeouts)
    BY DEF Abstract!Pending, Due
<1>2. ASSUME NEW port \in Ports, NEW time \in Times,
             Due(timeouts') = With(Due(timeouts), port, time)
      PROVE  Abstract!Set(port, time)
    BY <1>2 DEF Abstract!Set, Abstract!Pending, Due, With
<1>3. ASSUME NEW port \in Ports, Due(timeouts') = Less(Due(timeouts), port)
      PROVE  Abstract!Forget(port)
    BY <1>3 DEF Abstract!Forget, Abstract!Pending, Abstract!Restrict,
                  Restrict, Due, Less
<1>4. ASSUME Due(timeouts') = Less(Due(timeouts), CurrentPort)
      PROVE  Abstract!Forget(CurrentPort)
    BY <1>4 DEF Abstract!Forget, Abstract!Pending, Abstract!Restrict,
                  Restrict, Due, Less
<1> QED BY <1>1, <1>2, <1>3, <1>4

\* An update or a cancellation changes the timeout of its own port only, and
\* RemoveCurrent that of the current port, whatever the order of the heap.
THEOREM PortsKeepTheirOwn == Spec => EachPortItsOwn
<1> DEFINE Own ==
      /\ \A port \in Ports :
           /\ CancelTimeout(port) => Abstract!Forget(port)
           /\ \A time \in Times :
                UpdateTimeout(port, time) => Abstract!Set(port, time)
      /\ RemoveCurrent => Abstract!Forget(CurrentPort)
<1>1. ASSUME IInv PROVE Own
    <2>1. ASSUME NEW port \in Ports, CancelTimeout(port)
          PROVE  Abstract!Forget(port)
        BY <1>1, <2>1, CancelStep, AbstractFacts
    <2>2. ASSUME NEW port \in Ports, NEW time \in Times,
                 UpdateTimeout(port, time)
          PROVE  Abstract!Set(port, time)
        BY <1>1, <2>2, UpdateStep, AbstractFacts
    <2>3. ASSUME RemoveCurrent PROVE Abstract!Forget(CurrentPort)
        BY <1>1, <2>3, RemoveStep, AbstractFacts
    <2> QED BY <2>1, <2>2, <2>3
<1>2. IInv => [Own]_vars
    BY <1>1
<1> QED BY <1>2, InvariantHolds, PTL DEF EachPortItsOwn

\* Every update is one of Timeouts.
LEMMA UpdateRefines ==
    ASSUME IInv, NEW port \in Ports, NEW time \in Times,
           UpdateTimeout(port, time)
    PROVE  Abstract!UpdateTimeout(port, time)
BY UpdateStep, AbstractFacts DEF UpdateTimeout, Abstract!UpdateTimeout

\* Whether timeouts are pending says whether there are entries.
LEMMA PendingFacts ==
    /\ IInv => (HasTimeout <=> Abstract!Pending # {})
    /\ IInv' => (HasTimeout' <=> Abstract!Pending' # {})
<1>1. ASSUME IInv PROVE HasTimeout <=> Abstract!Pending # {}
    BY <1>1, EmptyFacts, AbstractFacts DEF IInv, HasTimeout
<1>2. ASSUME IInv' PROVE HasTimeout' <=> Abstract!Pending' # {}
    <2>1. timeouts' \in Queues
        BY <1>2 DEF IInv
    <2>2. Abstract!Pending' = DOMAIN Due(timeouts')
        BY DEF Abstract!Pending, Due
    <2> QED BY <2>1, <2>2, EmptyFacts DEF HasTimeout
<1> QED BY <1>1, <1>2

\* So is every cancellation.
LEMMA CancelRefines ==
    ASSUME IInv, NEW port \in Ports, CancelTimeout(port)
    PROVE  Abstract!CancelTimeout(port)
<1>1. IInv' /\ Abstract!Forget(port)
    BY CancelStep, AbstractFacts
<1>2. ContainsValue(timeouts, port) <=> port \in Abstract!Pending
    BY AbstractFacts DEF ContainsValue, Due
<1>3. HasTimeout' <=> Abstract!Pending' # {}
    BY <1>1, PendingFacts
<1> QED BY <1>1, <1>2, <1>3 DEF CancelTimeout, Abstract!CancelTimeout

\* The entry that is removed is one of those due first, unless a pending
\* timeout was cancelled.
LEMMA RemoveRefines ==
    ASSUME IInv, RemoveCurrent
    PROVE  Abstract!RemoveCurrent
<1>1. IInv' /\ Abstract!Forget(CurrentPort)
    BY RemoveStep, AbstractFacts
<1>2. HasTimeout' <=> Abstract!Pending' # {}
    BY <1>1, PendingFacts
<1>3. timeouts \in Queues /\ Size(timeouts) > 0
    BY DEF IInv, RemoveCurrent, HasTimeout
<1>4. CurrentPort \in Abstract!Pending
    BY <1>3, CurrentFacts, AbstractFacts DEF CurrentPort, Minimum
<1>5. ~cancelled => CurrentPort \in Abstract!Earliest
    <2>1. ASSUME ~cancelled, NEW r \in DOMAIN Due(timeouts)
          PROVE  Due(timeouts)[CurrentPort] <= Due(timeouts)[r]
        BY <1>3, <2>1, CurrentFacts DEF IInv, CurrentPort, Minimum
    <2> QED BY <1>4, <2>1, AbstractFacts DEF Abstract!Earliest, Due
<1>6. CurrentPort \in IF cancelled THEN Abstract!Pending ELSE Abstract!Earliest
    BY <1>4, <1>5
<1>7. \E p \in IF cancelled THEN Abstract!Pending ELSE Abstract!Earliest :
        Abstract!Forget(p)
    BY <1>1, <1>6 DEF Abstract!Forget
<1> QED BY <1>2, <1>7 DEF RemoveCurrent, Abstract!RemoveCurrent

\* The priority queue of timeouts does what Timeouts promises, for any ports
\* and times: each port has the timeout last set for it, and the earliest is
\* the one removed until a pending timeout is cancelled.
THEOREM ImplementsTimeouts == Spec => RefinesTimeouts
<1>1. Init => Abstract!Init
    BY InitialQueue DEF Init, Abstract!Init, Due
<1>2. ASSUME IInv, [Next]_vars
      PROVE  [Abstract!Next]_<<Due(timeouts), cancelled>>
    <2>1. ASSUME NEW port \in Ports, NEW time \in Times,
                 UpdateTimeout(port, time)
          PROVE  Abstract!Next
        BY <1>2, <2>1, UpdateRefines DEF Abstract!Next
    <2>2. ASSUME NEW port \in Ports, CancelTimeout(port)
          PROVE  Abstract!Next
        BY <1>2, <2>2, CancelRefines DEF Abstract!Next
    <2>3. CASE RemoveCurrent
        BY <1>2, <2>3, RemoveRefines DEF Abstract!Next
    <2>4. CASE UNCHANGED vars
        BY <2>4 DEF vars, Due
    <2> QED BY <1>2, <2>1, <2>2, <2>3, <2>4 DEF Next
<1> QED BY <1>1, <1>2, InvariantHolds, PTL
        DEF Spec, RefinesTimeouts, Abstract!Spec, Due

=============================================================================
