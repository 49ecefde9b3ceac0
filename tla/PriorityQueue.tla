--------------------------- MODULE PriorityQueue ----------------------------
(***************************************************************************)
(* The min-priority queue with deletion by value of                        *)
(* src/dart/platform/priority_queue.h, as operators on a queue             *)
(*   q.heap   the used part of min_heap_, entry at offset k in q.heap[k+1] *)
(*   q.at     hashmap_: the place of each value's entry in q.heap          *)
(*   q.cap    min_heap_size_                                               *)
(* With places counted from 1 the parent of i is i \div 2 and its children *)
(* are 2*i and 2*i + 1.                                                    *)
(***************************************************************************)
EXTENDS Naturals, Sequences, Functions

CONSTANT MinimumSize    \* kMinimumSize

ASSUME MinimumSizeAssumption == MinimumSize \in Nat \ {0}

EmptyQueue == [heap |-> <<>>, at |-> <<>>, cap |-> MinimumSize]

Size(q) == Len(q.heap)
ContainsValue(q, v) == v \in DOMAIN q.at
Minimum(q) == q.heap[1]

Front(s) == SubSeq(s, 1, Len(s) - 1)

SetMapEntry(at, v, i) ==
    [key \in DOMAIN at \cup {v} |-> IF key = v THEN i ELSE at[key]]
RemoveMapEntry(at, v) == Restrict(at, DOMAIN at \ {v})

SetEntry(q, i, e) ==
    [q EXCEPT !.heap = IF i > Size(q) THEN Append(@, e) ELSE [@ EXCEPT ![i] = e],
              !.at = SetMapEntry(@, e.value, i)]

Swap(q, i, j) ==
    [q EXCEPT !.heap = [@ EXCEPT ![i] = q.heap[j], ![j] = q.heap[i]],
              !.at = [@ EXCEPT ![q.heap[i].value] = j, ![q.heap[j].value] = i]]

\* MUTANT: the moved entry keeps its old place in the map.
Replace_StaleMap(q, i) ==
    LET last == q.heap[Size(q)] IN
    [q EXCEPT !.heap = Front([@ EXCEPT ![i] = last]),
              !.at = RemoveMapEntry(@, q.heap[i].value)]

\* The last entry takes the place of the one at i, whose value goes.
Replace(q, i) ==
    LET last == q.heap[Size(q)] IN
    [q EXCEPT !.heap = Front([@ EXCEPT ![i] = last]),
              !.at = SetMapEntry(RemoveMapEntry(@, q.heap[i].value),
                               last.value, i)]

\* A round of the loop of BubbleUp, on a queue and the place it has come to:
\* it walks to the root, whether or not it still swaps.
Up(at) ==
    LET q == at.queue
        i == at.place
        parent == i \div 2
    IN IF i = 1 THEN at
       ELSE [queue |-> IF q.heap[parent].priority > q.heap[i].priority
                       THEN Swap(q, parent, i) ELSE q,
             place |-> parent]

\* i rounds are enough for the way from i to the root.
BubbleUp(q, i) ==
    LET round[n \in Nat] ==
          IF n = 0 THEN [queue |-> q, place |-> i] ELSE Up(round[n - 1])
    IN round[i].queue

\* MUTANT: the right child is never looked at.
SmallestIndex_LeftOnly(q, i) ==
    IF 2 * i <= Size(q) /\ q.heap[2 * i].priority < q.heap[i].priority
    THEN 2 * i ELSE i

\* The place among i and its children with the least priority; a tie goes to
\* i, then to the left child.
SmallestIndex(q, i) ==
    LET family == {i, 2 * i, 2 * i + 1} \cap 1 .. Size(q)
        least == {k \in family : \A j \in family :
                    q.heap[k].priority <= q.heap[j].priority}
    IN CHOOSE k \in least : \A j \in least : k <= j

\* A round of the loop of BubbleDown; where nothing is smaller it returns.
Down(at) ==
    LET q == at.queue
        s == SmallestIndex(q, at.place)
    IN IF s = at.place THEN at
       ELSE [queue |-> Swap(q, at.place, s), place |-> s]

\* Each round goes to a later place or is the last.
BubbleDown(q, i) ==
    LET round[n \in Nat] ==
          IF n = 0 THEN [queue |-> q, place |-> i] ELSE Down(round[n - 1])
    IN round[Size(q)].queue

\* MUTANT: the array never shrinks.
Shrink_Never(q) == q

\* The array is halved where at most a quarter of it is in use.
Shrink(q) ==
    IF Size(q) <= q.cap \div 4 /\ MinimumSize <= q.cap \div 2
    THEN [q EXCEPT !.cap = @ \div 2] ELSE q

\* The entry that moves into the gap is bubbled down, and never up.
RemoveAt(q, i) ==
    Shrink(IF i = Size(q)
           THEN [q EXCEPT !.heap = Front(@),
                          !.at = RemoveMapEntry(@, q.heap[i].value)]
           ELSE BubbleDown(Replace(q, i), i))

Insert(q, p, v) ==
    LET grown == IF Size(q) = q.cap THEN [q EXCEPT !.cap = 2 * @] ELSE q
        n == Size(q) + 1
    IN BubbleUp(SetEntry(grown, n, [priority |-> p, value |-> v]), n)

RemoveMinimum(q) == RemoveAt(q, 1)

\* MUTANT: the minimum goes, not the value asked for.
RemoveByValue_Minimum(q, v) == IF ContainsValue(q, v) THEN RemoveAt(q, 1) ELSE q

RemoveByValue(q, v) == IF ContainsValue(q, v) THEN RemoveAt(q, q.at[v]) ELSE q

\* MUTANT: at the root nothing is bubbled.
InsertOrChangePriority_RootStays(q, p, v) ==
    IF ~ContainsValue(q, v) THEN Insert(q, p, v)
    ELSE LET i == q.at[v]
             changed == [q EXCEPT !.heap[i].priority = p]
         IN IF i = 1 THEN changed
            ELSE IF p < q.heap[i \div 2].priority THEN BubbleUp(changed, i)
            ELSE BubbleDown(changed, i)

InsertOrChangePriority(q, p, v) ==
    IF ~ContainsValue(q, v) THEN Insert(q, p, v)
    ELSE LET i == q.at[v]
             parent == i \div 2
             changed == [q EXCEPT !.heap[i].priority = p]
         IN CASE i = 1 -> BubbleDown(changed, i)
              [] i > 1 /\ p < q.heap[parent].priority -> BubbleUp(changed, i)
              [] i > 1 /\ p > q.heap[parent].priority -> BubbleDown(changed, i)
              [] OTHER -> changed

=============================================================================
