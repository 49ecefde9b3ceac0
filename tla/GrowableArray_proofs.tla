------------------------ MODULE GrowableArray_proofs ------------------------
(***************************************************************************)
(* Growable arrays, for any arrays, blocks, values and bound on the cells. *)
(***************************************************************************)
EXTENDS GrowableArray, Binary_proofs, SequenceTheorems

Items == Values \cup {Garbage}

\* The values of arrays: the length is within the capacity, and the capacity is
\* the number of cells.
ArrayValues ==
    {A \in [length : Nat, capacity : Nat, cells : Seq(Items)] :
        A.length <= A.capacity /\ A.capacity = Len(A.cells)}

-----------------------------------------------------------------------------
(* Powers of two.                                                          *)

\* What is rounded up to a power of two is not made smaller: there is a power
\* of two between a number and its double.
LEMMA RoundedUp ==
    ASSUME NEW n \in Nat, n > 0
    PROVE  RoundUpToPowerOfTwo(n) \in Nat /\ n <= RoundUpToPowerOfTwo(n)
<1> DEFINE P(m) == {p \in m .. (2 * m) : \E k \in 0 .. m : p = Power[k]}
           T == {m \in Nat : P(m + 1) # {}}
<1>1. 0 \in T
    BY PowerType
<1>2. ASSUME NEW m \in Nat, m \in T PROVE m + 1 \in T
    <2>1. PICK k \in 0 .. (m + 1) : Power[k] \in (m + 1) .. (2 * (m + 1))
        BY <1>2
    <2>2. k \in Nat /\ k + 1 \in 0 .. (m + 1 + 1)
        OBVIOUS
    <2>3. CASE Power[k] >= m + 2
        <3>1. Power[k] \in P(m + 1 + 1)
            BY <2>1, <2>2, <2>3
        <3> QED BY <3>1
    <2>4. CASE ~(Power[k] >= m + 2)
        <3>1. Power[k] = m + 1
            BY <2>1, <2>4
        <3>2. Power[k + 1] = 2 * Power[k]
            BY <2>2, PowerType
        <3>3. Power[k + 1] \in (m + 1 + 1) .. (2 * (m + 1 + 1))
            BY <3>1, <3>2
        <3>4. Power[k + 1] \in P(m + 1 + 1)
            BY <2>2, <3>3
        <3> QED BY <3>4
    <2> QED BY <2>3, <2>4
<1>3. n - 1 \in T
    <2> HIDE DEF T
    <2> QED BY <1>1, <1>2, SetInduction
<1>4. P(n) # {} /\ P(n) \subseteq Nat
    BY <1>3
<1>5. PICK p \in P(n) : \A q \in P(n) : p <= q
    <2> HIDE DEF P
    <2> QED BY <1>4, LeastNumber
<1>6. RoundUpToPowerOfTwo(n) = Min(P(n))
    BY DEF RoundUpToPowerOfTwo
<1>7. Min(P(n)) \in P(n)
    <2> HIDE DEF P
    <2> QED BY <1>5 DEF Min
<1>8. P(n) \subseteq n .. (2 * n)
    OBVIOUS
<1> HIDE DEF P
<1> QED BY <1>6, <1>7, <1>8

-----------------------------------------------------------------------------
(* One cell, and the capacity.                                             *)

\* Two values of an array are equal where their parts are.
LEMMA SameArray ==
    ASSUME NEW A \in ArrayValues, NEW B \in ArrayValues,
           A.length = B.length, A.capacity = B.capacity,
           \A i \in 1 .. A.capacity : A.cells[i] = B.cells[i]
    PROVE  A = B
<1>1. A.cells = B.cells
    BY SeqEqual DEF ArrayValues
<1> QED BY <1>1 DEF ArrayValues

\* A write stays within the capacity and changes one cell.
LEMMA PutCell ==
    ASSUME NEW A \in ArrayValues, NEW i \in Nat, i < A.capacity,
           NEW v \in Items
    PROVE  /\ Put(A, i, v) \in ArrayValues
           /\ Put(A, i, v).length = A.length
           /\ Put(A, i, v).capacity = A.capacity
           /\ \A j \in 1 .. A.capacity :
                Put(A, i, v).cells[j] = IF j = i + 1 THEN v ELSE A.cells[j]
<1>1. Put(A, i, v) = [A EXCEPT !.cells = [A.cells EXCEPT ![i + 1] = v]]
    BY DEF Put
<1>2. A.cells \in Seq(Items) /\ i + 1 \in 1 .. Len(A.cells)
    BY DEF ArrayValues
<1> DEFINE c == [A.cells EXCEPT ![i + 1] = v]
<1>3. /\ c \in Seq(Items) /\ Len(c) = Len(A.cells)
      /\ \A j \in 1 .. Len(A.cells) : c[j] = IF j = i + 1 THEN v ELSE A.cells[j]
    BY <1>2, ExceptSeq
<1> HIDE DEF c
<1> QED BY <1>1, <1>3 DEF ArrayValues, c

\* Resize sets the length, never gives capacity back and keeps the cells.
LEMMA Resized ==
    ASSUME NEW A \in ArrayValues, NEW n \in Nat
    PROVE  /\ Resize(A, n) \in ArrayValues
           /\ Resize(A, n).length = n
           /\ Resize(A, n).capacity >= A.capacity
           /\ \A j \in 1 .. A.capacity : Resize(A, n).cells[j] = A.cells[j]
<1>1. CASE n <= A.capacity
    BY <1>1 DEF Resize, ArrayValues
<1>2. CASE ~(n <= A.capacity)
    <2> DEFINE c == RoundUpToPowerOfTwo(n)
               u == Uninitialized(c - A.capacity)
    <2>1. A.capacity \in Nat /\ A.cells \in Seq(Items) /\ Len(A.cells) = A.capacity
        BY DEF ArrayValues
    <2>2. c \in Nat /\ n <= c
        BY <1>2, <2>1, RoundedUp
    <2> HIDE DEF c
    <2>3. u \in Seq(Items) /\ Len(u) = c - A.capacity
        <3>1. c - A.capacity \in Nat
            BY <1>2, <2>1, <2>2
        <3>2. u = [k \in 1 .. (c - A.capacity) |-> Garbage]
            BY DEF Uninitialized
        <3>3. \A k \in 1 .. (c - A.capacity) : Garbage \in Items
            BY DEF Items
        <3> QED BY <3>1, <3>2, <3>3, IsASeq
    <2> HIDE DEF u
    <2>4. /\ A.cells \o u \in Seq(Items)
          /\ Len(A.cells \o u) = Len(A.cells) + Len(u)
          /\ \A j \in 1 .. Len(A.cells) : (A.cells \o u)[j] = A.cells[j]
        <3>1. \A j \in 1 .. (Len(A.cells) + Len(u)) :
                 (A.cells \o u)[j] = IF j <= Len(A.cells) THEN A.cells[j]
                                                       ELSE u[j - Len(A.cells)]
            BY <2>1, <2>3, ConcatProperties
        <3>2. A.cells \o u \in Seq(Items) /\ Len(A.cells \o u) = Len(A.cells) + Len(u)
            BY <2>1, <2>3, ConcatProperties
        <3> QED BY <2>1, <2>3, <3>1, <3>2
    <2>5. Resize(A, n) = [length |-> n, capacity |-> c, cells |-> A.cells \o u]
        BY <1>2 DEF Resize, c, u
    <2>6. Len(A.cells \o u) = c
        BY <2>1, <2>2, <2>3, <2>4
    <2> DEFINE d == A.cells \o u
    <2>7. d \in Seq(Items) /\ Len(d) = c /\ \A j \in 1 .. A.capacity : d[j] = A.cells[j]
        BY <2>1, <2>4, <2>6
    <2> HIDE DEF d
    <2>8. Resize(A, n) = [length |-> n, capacity |-> c, cells |-> d]
        BY <2>5 DEF d
    <2> QED BY <1>2, <2>1, <2>2, <2>7, <2>8 DEF ArrayValues
<1> QED BY <1>1, <1>2

-----------------------------------------------------------------------------
(* The loops.  What each has done after k rounds is written down as C(k);  *)
(* the rounds are these, one after the other.                              *)

\* A cell has a value or is garbage.
LEMMA CellsAreItems ==
    ASSUME NEW A \in ArrayValues
    PROVE  /\ A.length \in Nat /\ A.capacity \in Nat /\ A.length <= A.capacity
           /\ \A j \in 1 .. A.capacity : A.cells[j] \in Items
BY ElementOfSeq DEF ArrayValues

\* A whose cells are those of c.
With(A, c) == [A EXCEPT !.cells = [j \in 1 .. A.capacity |-> c[j]]]

\* Replaced cells are cells.
LEMMA WithCells ==
    ASSUME NEW A \in ArrayValues, NEW c,
           \A j \in 1 .. A.capacity : c[j] \in Items
    PROVE  /\ With(A, c) \in ArrayValues
           /\ With(A, c).length = A.length
           /\ With(A, c).capacity = A.capacity
           /\ \A j \in 1 .. A.capacity : With(A, c).cells[j] = c[j]
<1> DEFINE d == [j \in 1 .. A.capacity |-> c[j]]
<1>1. A.capacity \in Nat
    BY DEF ArrayValues
<1>2. d \in Seq(Items) /\ Len(d) = A.capacity /\ \A j \in 1 .. A.capacity : d[j] = c[j]
    BY <1>1
<1>3. With(A, c) = [A EXCEPT !.cells = d]
    BY DEF With
<1> HIDE DEF d
<1> QED BY <1>2, <1>3 DEF ArrayValues

\* The loop of FillWith and of EnsureLength writes v to n cells from start on.
LEMMA FillLoop ==
    ASSUME NEW A \in ArrayValues, NEW start \in Nat, NEW m \in Nat,
           start + m <= A.capacity, NEW v \in Items
    PROVE  LET B == Fill(A, start, m, v)
           IN /\ B \in ArrayValues /\ B.length = A.length /\ B.capacity = A.capacity
              /\ \A j \in 1 .. A.capacity :
                   B.cells[j] = IF j > start /\ j <= start + m THEN v ELSE A.cells[j]
<1> DEFINE n == m
           Cell(k, j) == IF j > start /\ j <= start + k THEN v ELSE A.cells[j]
           C(k) == With(A, [j \in 1 .. A.capacity |-> Cell(k, j)])
           IsRun(f) == f = [k \in 0 .. n |->
                              IF k = 0 THEN A ELSE Put(f[k - 1], start + (k - 1), v)]
<1>0. n \in Nat
    BY CellsAreItems
<1>1. ASSUME NEW k \in 0 .. n
      PROVE  /\ C(k) \in ArrayValues /\ C(k).length = A.length
             /\ C(k).capacity = A.capacity
             /\ \A j \in 1 .. A.capacity : C(k).cells[j] = Cell(k, j)
    <2> DEFINE c == [j \in 1 .. A.capacity |-> Cell(k, j)]
    <2>1. \A j \in 1 .. A.capacity : c[j] = Cell(k, j) /\ c[j] \in Items
        BY <1>0, CellsAreItems
    <2> HIDE DEF c
    <2>2. C(k) = With(A, c)
        BY DEF c
    <2> HIDE DEF C, Cell
    <2> QED BY <2>1, <2>2, WithCells
<1>2. C(0) = A
    <2>1. \A j \in 1 .. A.capacity : Cell(0, j) = A.cells[j]
        BY <1>0, CellsAreItems
    <2>2. 0 \in 0 .. n
        BY <1>0
    <2> HIDE DEF C, Cell, n
    <2> QED BY <1>1, <2>1, <2>2, SameArray
<1>3. ASSUME NEW k \in 1 .. n PROVE C(k) = Put(C(k - 1), start + (k - 1), v)
    <2> DEFINE i == start + (k - 1)
               D == C(k - 1)
               E == C(k)
               w == v
    <2>1. k - 1 \in 0 .. n /\ k \in 0 .. n /\ i \in Nat /\ i < A.capacity
        BY <1>0, CellsAreItems
    <2>2. \A j \in 1 .. A.capacity :
             Cell(k, j) = IF j = i + 1 THEN v ELSE Cell(k - 1, j)
        BY <1>0, <2>1, CellsAreItems
    <2> HIDE DEF C, Cell, i, n
    <2>3. /\ D \in ArrayValues /\ D.length = A.length /\ D.capacity = A.capacity
          /\ E \in ArrayValues /\ E.length = A.length /\ E.capacity = A.capacity
          /\ \A j \in 1 .. A.capacity :
               E.cells[j] = IF j = i + 1 THEN w ELSE D.cells[j]
          /\ w \in Items
        BY <1>1, <2>1, <2>2
    <2> HIDE DEF D, E, w
    <2>4. Put(D, i, w) = E
        BY <2>1, <2>3, PutCell, SameArray
    <2> QED BY <2>4 DEF D, E, i, w
<1>4. IsRun([k \in 0 .. n |-> C(k)])
    <2> HIDE DEF C, n
    <2> QED BY <1>0, <1>2, <1>3
<1> DEFINE run == CHOOSE f : IsRun(f)
<1>5. IsRun(run)
    <2> HIDE DEF IsRun
    <2> QED BY <1>4
<1>6. run[n] = C(n)
    <2> DEFINE T == {k \in 0 .. n : run[k] = C(k)}
    <2> HIDE DEF run, C, n
    <2>1. 0 \in T
        BY <1>0, <1>2, <1>5
    <2>2. ASSUME NEW k \in 1 .. n, k - 1 \in T PROVE k \in T
        BY <1>0, <1>3, <1>5, <2>2
    <2>3. \A k \in 0 .. n : k \in T
        <3> HIDE DEF T
        <3> QED BY <1>0, <2>1, <2>2, RangeInduction
    <2> QED BY <1>0, <2>3
<1>7. Fill(A, start, m, v) = run[n]
    BY DEF Fill, Repeat
<1>8. /\ C(n) \in ArrayValues /\ C(n).length = A.length
      /\ C(n).capacity = A.capacity
      /\ \A j \in 1 .. A.capacity : C(n).cells[j] = Cell(n, j)
    <2> HIDE DEF C, Cell, n
    <2> QED BY <1>0, <1>1
<1> DEFINE B == C(n)
<1>9. Fill(A, start, m, v) = B
    <2> HIDE DEF C, run
    <2> QED BY <1>6, <1>7
<1> HIDE DEF C
<1>10. /\ B \in ArrayValues /\ B.length = A.length /\ B.capacity = A.capacity
       /\ \A j \in 1 .. A.capacity : B.cells[j] = Cell(n, j)
    BY <1>8
<1> HIDE DEF B
<1>11. \A j \in 1 .. A.capacity : B.cells[j] = IF j > start /\ j <= start + m THEN v ELSE A.cells[j]
    BY <1>0, <1>10, CellsAreItems
<1> QED BY <1>9, <1>10, <1>11

\* What the loop of InsertAt does: the m items below len move up.
Opened(A, len, m) == Repeat(LAMBDA X, k : MoveUp(X, len - 1 - k), A, m)

\* No item is written over before it was moved.
LEMMA MoveUpLoop ==
    ASSUME NEW A \in ArrayValues, NEW len \in Nat, NEW m \in Nat,
           m <= len, len < A.capacity
    PROVE  LET B == Opened(A, len, m)
           IN /\ B \in ArrayValues /\ B.length = A.length /\ B.capacity = A.capacity
              /\ \A j \in 1 .. A.capacity :
                   B.cells[j] = IF j > len + 1 - m /\ j <= len + 1
                                THEN A.cells[j - 1] ELSE A.cells[j]
<1> DEFINE n == m
           Cell(k, j) == IF j > len + 1 - k /\ j <= len + 1
                         THEN A.cells[j - 1] ELSE A.cells[j]
           C(k) == With(A, [j \in 1 .. A.capacity |-> Cell(k, j)])
           IsRun(f) == f = [k \in 0 .. n |->
                              IF k = 0 THEN A ELSE MoveUp(f[k - 1], len - 1 - (k - 1))]
<1>0. n \in Nat
    BY CellsAreItems
<1>1. ASSUME NEW k \in 0 .. n
      PROVE  /\ C(k) \in ArrayValues /\ C(k).length = A.length
             /\ C(k).capacity = A.capacity
             /\ \A j \in 1 .. A.capacity : C(k).cells[j] = Cell(k, j)
    <2> DEFINE c == [j \in 1 .. A.capacity |-> Cell(k, j)]
    <2>1. \A j \in 1 .. A.capacity : c[j] = Cell(k, j) /\ c[j] \in Items
        BY <1>0, CellsAreItems
    <2> HIDE DEF c
    <2>2. C(k) = With(A, c)
        BY DEF c
    <2> HIDE DEF C, Cell
    <2> QED BY <2>1, <2>2, WithCells
<1>2. C(0) = A
    <2>1. \A j \in 1 .. A.capacity : Cell(0, j) = A.cells[j]
        BY <1>0, CellsAreItems
    <2>2. 0 \in 0 .. n
        BY <1>0
    <2> HIDE DEF C, Cell, n
    <2> QED BY <1>1, <2>1, <2>2, SameArray
<1>3. ASSUME NEW k \in 1 .. n PROVE C(k) = MoveUp(C(k - 1), len - 1 - (k - 1))
    <2> DEFINE i == len - 1 - (k - 1) + 1
               l == len - 1 - (k - 1) + 1
               D == C(k - 1)
               E == C(k)
               w == D.cells[l]
    <2>1. /\ k - 1 \in 0 .. n /\ k \in 0 .. n /\ i \in Nat /\ i < A.capacity
          /\ l \in 1 .. A.capacity
        BY <1>0, CellsAreItems
    <2>2. /\ \A j \in 1 .. A.capacity :
                Cell(k, j) = IF j = i + 1 THEN A.cells[l] ELSE Cell(k - 1, j)
          /\ Cell(k - 1, l) = A.cells[l]
        BY <1>0, <2>1, CellsAreItems
    <2> HIDE DEF C, Cell, i, l, n
    <2>3. w = A.cells[l]
        BY <1>1, <2>1, <2>2
    <2>4. /\ D \in ArrayValues /\ D.length = A.length /\ D.capacity = A.capacity
          /\ E \in ArrayValues /\ E.length = A.length /\ E.capacity = A.capacity
          /\ \A j \in 1 .. A.capacity :
               E.cells[j] = IF j = i + 1 THEN A.cells[l] ELSE D.cells[j]
        BY <1>1, <2>1, <2>2
    <2>5. A.cells[l] \in Items
        BY <2>1, CellsAreItems
    <2> HIDE DEF D, E, w
    <2>6. Put(D, i, w) = E
        BY <2>1, <2>3, <2>4, <2>5, PutCell, SameArray
    <2> QED BY <2>6 DEF D, E, i, l, w, MoveUp, Item
<1>4. IsRun([k \in 0 .. n |-> C(k)])
    <2> HIDE DEF C, n
    <2> QED BY <1>0, <1>2, <1>3
<1> DEFINE run == CHOOSE f : IsRun(f)
<1>5. IsRun(run)
    <2> HIDE DEF IsRun
    <2> QED BY <1>4
<1>6. run[n] = C(n)
    <2> DEFINE T == {k \in 0 .. n : run[k] = C(k)}
    <2> HIDE DEF run, C, n
    <2>1. 0 \in T
        BY <1>0, <1>2, <1>5
    <2>2. ASSUME NEW k \in 1 .. n, k - 1 \in T PROVE k \in T
        BY <1>0, <1>3, <1>5, <2>2
    <2>3. \A k \in 0 .. n : k \in T
        <3> HIDE DEF T
        <3> QED BY <1>0, <2>1, <2>2, RangeInduction
    <2> QED BY <1>0, <2>3
<1>7. Opened(A, len, m) = run[n]
    BY DEF Opened, Repeat
<1>8. /\ C(n) \in ArrayValues /\ C(n).length = A.length
      /\ C(n).capacity = A.capacity
      /\ \A j \in 1 .. A.capacity : C(n).cells[j] = Cell(n, j)
    <2> HIDE DEF C, Cell, n
    <2> QED BY <1>0, <1>1
<1> DEFINE B == C(n)
<1>9. Opened(A, len, m) = B
    <2> HIDE DEF C, run
    <2> QED BY <1>6, <1>7
<1> HIDE DEF C
<1>10. /\ B \in ArrayValues /\ B.length = A.length /\ B.capacity = A.capacity
       /\ \A j \in 1 .. A.capacity : B.cells[j] = Cell(n, j)
    BY <1>8
<1> HIDE DEF B
<1>11. \A j \in 1 .. A.capacity : B.cells[j] = IF j > len + 1 - m /\ j <= len + 1
                                THEN A.cells[j - 1] ELSE A.cells[j]
    BY <1>0, <1>10, CellsAreItems
<1> QED BY <1>9, <1>10, <1>11

\* What the loop of EraseAt does: the m items above idx move down.
Closed(A, idx, m) == Repeat(LAMBDA X, k : Put(X, idx + k, Item(X, idx + k + 1)), A, m)

\* The items above the one that is erased move down by one.
LEMMA MoveDownLoop ==
    ASSUME NEW A \in ArrayValues, NEW idx \in Nat, NEW m \in Nat,
           idx + m < A.capacity
    PROVE  LET B == Closed(A, idx, m)
           IN /\ B \in ArrayValues /\ B.length = A.length /\ B.capacity = A.capacity
              /\ \A j \in 1 .. A.capacity :
                   B.cells[j] = IF j > idx /\ j <= idx + m THEN A.cells[j + 1] ELSE A.cells[j]
<1> DEFINE n == m
           Cell(k, j) == IF j > idx /\ j <= idx + k THEN A.cells[j + 1] ELSE A.cells[j]
           C(k) == With(A, [j \in 1 .. A.capacity |-> Cell(k, j)])
           IsRun(f) == f = [k \in 0 .. n |->
                              IF k = 0 THEN A ELSE Put(f[k - 1], idx + (k - 1),
                                                  Item(f[k - 1], idx + (k - 1) + 1))]
<1>0. n \in Nat
    BY CellsAreItems
<1>1. ASSUME NEW k \in 0 .. n
      PROVE  /\ C(k) \in ArrayValues /\ C(k).length = A.length
             /\ C(k).capacity = A.capacity
             /\ \A j \in 1 .. A.capacity : C(k).cells[j] = Cell(k, j)
    <2> DEFINE c == [j \in 1 .. A.capacity |-> Cell(k, j)]
    <2>1. \A j \in 1 .. A.capacity : c[j] = Cell(k, j) /\ c[j] \in Items
        BY <1>0, CellsAreItems
    <2> HIDE DEF c
    <2>2. C(k) = With(A, c)
        BY DEF c
    <2> HIDE DEF C, Cell
    <2> QED BY <2>1, <2>2, WithCells
<1>2. C(0) = A
    <2>1. \A j \in 1 .. A.capacity : Cell(0, j) = A.cells[j]
        BY <1>0, CellsAreItems
    <2>2. 0 \in 0 .. n
        BY <1>0
    <2> HIDE DEF C, Cell, n
    <2> QED BY <1>1, <2>1, <2>2, SameArray
<1>3. ASSUME NEW k \in 1 .. n
      PROVE  C(k) = Put(C(k - 1), idx + (k - 1), Item(C(k - 1), idx + (k - 1) + 1))
    <2> DEFINE i == idx + (k - 1)
               l == idx + (k - 1) + 1 + 1
               D == C(k - 1)
               E == C(k)
               w == D.cells[l]
    <2>1. /\ k - 1 \in 0 .. n /\ k \in 0 .. n /\ i \in Nat /\ i < A.capacity
          /\ l \in 1 .. A.capacity
        BY <1>0, CellsAreItems
    <2>2. /\ \A j \in 1 .. A.capacity :
                Cell(k, j) = IF j = i + 1 THEN A.cells[l] ELSE Cell(k - 1, j)
          /\ Cell(k - 1, l) = A.cells[l]
        BY <1>0, <2>1, CellsAreItems
    <2> HIDE DEF C, Cell, i, l, n
    <2>3. w = A.cells[l]
        BY <1>1, <2>1, <2>2
    <2>4. /\ D \in ArrayValues /\ D.length = A.length /\ D.capacity = A.capacity
          /\ E \in ArrayValues /\ E.length = A.length /\ E.capacity = A.capacity
          /\ \A j \in 1 .. A.capacity :
               E.cells[j] = IF j = i + 1 THEN A.cells[l] ELSE D.cells[j]
        BY <1>1, <2>1, <2>2
    <2>5. A.cells[l] \in Items
        BY <2>1, CellsAreItems
    <2> HIDE DEF D, E, w
    <2>6. Put(D, i, w) = E
        BY <2>1, <2>3, <2>4, <2>5, PutCell, SameArray
    <2> QED BY <2>6 DEF D, E, i, l, w, Item
<1>4. IsRun([k \in 0 .. n |-> C(k)])
    <2> HIDE DEF C, n
    <2> QED BY <1>0, <1>2, <1>3
<1> DEFINE run == CHOOSE f : IsRun(f)
<1>5. IsRun(run)
    <2> HIDE DEF IsRun
    <2> QED BY <1>4
<1>6. run[n] = C(n)
    <2> DEFINE T == {k \in 0 .. n : run[k] = C(k)}
    <2> HIDE DEF run, C, n
    <2>1. 0 \in T
        BY <1>0, <1>2, <1>5
    <2>2. ASSUME NEW k \in 1 .. n, k - 1 \in T PROVE k \in T
        BY <1>0, <1>3, <1>5, <2>2
    <2>3. \A k \in 0 .. n : k \in T
        <3> HIDE DEF T
        <3> QED BY <1>0, <2>1, <2>2, RangeInduction
    <2> QED BY <1>0, <2>3
<1>7. Closed(A, idx, m) = run[n]
    BY DEF Closed, Repeat
<1>8. /\ C(n) \in ArrayValues /\ C(n).length = A.length
      /\ C(n).capacity = A.capacity
      /\ \A j \in 1 .. A.capacity : C(n).cells[j] = Cell(n, j)
    <2> HIDE DEF C, Cell, n
    <2> QED BY <1>0, <1>1
<1> DEFINE B == C(n)
<1>9. Closed(A, idx, m) = B
    <2> HIDE DEF C, run
    <2> QED BY <1>6, <1>7
<1> HIDE DEF C
<1>10. /\ B \in ArrayValues /\ B.length = A.length /\ B.capacity = A.capacity
       /\ \A j \in 1 .. A.capacity : B.cells[j] = Cell(n, j)
    BY <1>8
<1> HIDE DEF B
<1>11. \A j \in 1 .. A.capacity : B.cells[j] = IF j > idx /\ j <= idx + m THEN A.cells[j + 1] ELSE A.cells[j]
    BY <1>0, <1>10, CellsAreItems
<1> QED BY <1>9, <1>10, <1>11

\* A swap exchanges two cells.
LEMMA SwapCell ==
    ASSUME NEW A \in ArrayValues, NEW i \in Nat, i < A.capacity,
           NEW l \in Nat, l < A.capacity
    PROVE  LET B == Swap(A, i, l)
           IN /\ B \in ArrayValues /\ B.length = A.length /\ B.capacity = A.capacity
              /\ \A j \in 1 .. A.capacity :
                   B.cells[j] = IF j = l + 1 THEN A.cells[i + 1]
                                ELSE IF j = i + 1 THEN A.cells[l + 1] ELSE A.cells[j]
<1> DEFINE v == A.cells[l + 1]
           w == A.cells[i + 1]
           D == Put(A, i, v)
           E == Put(D, l, w)
<1>1. v \in Items /\ w \in Items
    BY CellsAreItems
<1>2. Swap(A, i, l) = E
    BY DEF Swap, Item
<1> HIDE DEF v, w
<1>3. /\ D \in ArrayValues /\ D.length = A.length /\ D.capacity = A.capacity
      /\ \A j \in 1 .. A.capacity : D.cells[j] = IF j = i + 1 THEN v ELSE A.cells[j]
    BY <1>1, PutCell
<1> HIDE DEF D
<1>4. /\ E \in ArrayValues /\ E.length = A.length /\ E.capacity = A.capacity
      /\ \A j \in 1 .. A.capacity : E.cells[j] = IF j = l + 1 THEN w ELSE D.cells[j]
    BY <1>1, <1>3, PutCell
<1> HIDE DEF E
<1> QED BY <1>2, <1>3, <1>4 DEF v, w

\* What the loop of Reverse does.
Turned(A, len, m) == Repeat(LAMBDA X, k : Swap(X, k, len - 1 - k), A, m)

\* Each round exchanges two items that no round has touched yet.
LEMMA SwapLoop ==
    ASSUME NEW A \in ArrayValues, NEW len \in Nat, NEW m \in Nat,
           2 * m <= len, len <= A.capacity
    PROVE  LET B == Turned(A, len, m)
           IN /\ B \in ArrayValues /\ B.length = A.length /\ B.capacity = A.capacity
              /\ \A j \in 1 .. A.capacity :
                   B.cells[j] = IF j <= m \/ (j > len - m /\ j <= len)
                                THEN A.cells[len + 1 - j] ELSE A.cells[j]
<1> DEFINE n == m
           Cell(k, j) == IF j <= k \/ (j > len - k /\ j <= len)
                         THEN A.cells[len + 1 - j] ELSE A.cells[j]
           C(k) == With(A, [j \in 1 .. A.capacity |-> Cell(k, j)])
           IsRun(f) == f = [k \in 0 .. n |->
                              IF k = 0 THEN A ELSE Swap(f[k - 1], k - 1, len - 1 - (k - 1))]
<1>0. n \in Nat
    BY CellsAreItems
<1>1. ASSUME NEW k \in 0 .. n
      PROVE  /\ C(k) \in ArrayValues /\ C(k).length = A.length
             /\ C(k).capacity = A.capacity
             /\ \A j \in 1 .. A.capacity : C(k).cells[j] = Cell(k, j)
    <2> DEFINE c == [j \in 1 .. A.capacity |-> Cell(k, j)]
    <2>1. \A j \in 1 .. A.capacity : c[j] = Cell(k, j) /\ c[j] \in Items
        BY <1>0, CellsAreItems
    <2> HIDE DEF c
    <2>2. C(k) = With(A, c)
        BY DEF c
    <2> HIDE DEF C, Cell
    <2> QED BY <2>1, <2>2, WithCells
<1>2. C(0) = A
    <2>1. \A j \in 1 .. A.capacity : Cell(0, j) = A.cells[j]
        BY <1>0, CellsAreItems
    <2>2. 0 \in 0 .. n
        BY <1>0
    <2> HIDE DEF C, Cell, n
    <2> QED BY <1>1, <2>1, <2>2, SameArray
<1>3. ASSUME NEW k \in 1 .. n
      PROVE  C(k) = Swap(C(k - 1), k - 1, len - 1 - (k - 1))
    <2> DEFINE i == k - 1
               l == len - 1 - (k - 1)
               D == C(k - 1)
               E == C(k)
    <2>1. /\ k - 1 \in 0 .. n /\ k \in 0 .. n
          /\ i \in Nat /\ i < A.capacity /\ l \in Nat /\ l < A.capacity
          /\ i < l /\ i + 1 \in 1 .. A.capacity /\ l + 1 \in 1 .. A.capacity
        BY <1>0, CellsAreItems
    <2>2. /\ \A j \in 1 .. A.capacity :
                Cell(k, j) = IF j = l + 1 THEN A.cells[i + 1]
                             ELSE IF j = i + 1 THEN A.cells[l + 1] ELSE Cell(k - 1, j)
          /\ Cell(k - 1, i + 1) = A.cells[i + 1]
          /\ Cell(k - 1, l + 1) = A.cells[l + 1]
        BY <1>0, <2>1, CellsAreItems
    <2> HIDE DEF C, Cell, i, l, n
    <2>3. D.cells[i + 1] = A.cells[i + 1] /\ D.cells[l + 1] = A.cells[l + 1]
        BY <1>1, <2>1, <2>2
    <2>4. /\ D \in ArrayValues /\ D.length = A.length /\ D.capacity = A.capacity
          /\ E \in ArrayValues /\ E.length = A.length /\ E.capacity = A.capacity
          /\ \A j \in 1 .. A.capacity :
               E.cells[j] = IF j = l + 1 THEN A.cells[i + 1]
                            ELSE IF j = i + 1 THEN A.cells[l + 1] ELSE D.cells[j]
        BY <1>1, <2>1, <2>2
    <2> HIDE DEF D, E
    <2>5. Swap(D, i, l) = E
        <3> DEFINE S == Swap(D, i, l)
        <3>1. /\ S \in ArrayValues /\ S.length = D.length /\ S.capacity = D.capacity
              /\ \A j \in 1 .. D.capacity :
                   S.cells[j] = IF j = l + 1 THEN D.cells[i + 1]
                                ELSE IF j = i + 1 THEN D.cells[l + 1] ELSE D.cells[j]
            BY <2>1, <2>4, SwapCell
        <3> HIDE DEF S
        <3>2. S = E
            BY <2>3, <2>4, <3>1, SameArray
        <3> QED BY <3>2 DEF S
    <2> QED BY <2>5 DEF D, E, i, l
<1>4. IsRun([k \in 0 .. n |-> C(k)])
    <2> HIDE DEF C, n
    <2> QED BY <1>0, <1>2, <1>3
<1> DEFINE run == CHOOSE f : IsRun(f)
<1>5. IsRun(run)
    <2> HIDE DEF IsRun
    <2> QED BY <1>4
<1>6. run[n] = C(n)
    <2> DEFINE T == {k \in 0 .. n : run[k] = C(k)}
    <2> HIDE DEF run, C, n
    <2>1. 0 \in T
        BY <1>0, <1>2, <1>5
    <2>2. ASSUME NEW k \in 1 .. n, k - 1 \in T PROVE k \in T
        BY <1>0, <1>3, <1>5, <2>2
    <2>3. \A k \in 0 .. n : k \in T
        <3> HIDE DEF T
        <3> QED BY <1>0, <2>1, <2>2, RangeInduction
    <2> QED BY <1>0, <2>3
<1>7. Turned(A, len, m) = run[n]
    BY DEF Turned, Repeat
<1>8. /\ C(n) \in ArrayValues /\ C(n).length = A.length
      /\ C(n).capacity = A.capacity
      /\ \A j \in 1 .. A.capacity : C(n).cells[j] = Cell(n, j)
    <2> HIDE DEF C, Cell, n
    <2> QED BY <1>0, <1>1
<1> DEFINE B == C(n)
<1>9. Turned(A, len, m) = B
    <2> HIDE DEF C, run
    <2> QED BY <1>6, <1>7
<1> HIDE DEF C
<1>10. /\ B \in ArrayValues /\ B.length = A.length /\ B.capacity = A.capacity
       /\ \A j \in 1 .. A.capacity : B.cells[j] = Cell(n, j)
    BY <1>8
<1> HIDE DEF B
<1>11. \A j \in 1 .. A.capacity : B.cells[j] = IF j <= m \/ (j > len - m /\ j <= len)
                                THEN A.cells[len + 1 - j] ELSE A.cells[j]
    BY <1>0, <1>10, CellsAreItems
<1> QED BY <1>9, <1>10, <1>11

-----------------------------------------------------------------------------
(* The calls: B is what a call makes of A.                                 *)

\* Fewer items are the first of them.
LEMMA Truncated ==
    ASSUME NEW A \in ArrayValues, NEW n \in 0 .. A.length
    PROVE  LET B == TruncateTo(A, n)
           IN /\ B \in ArrayValues /\ B.length = n /\ B.capacity = A.capacity
              /\ B.cells = A.cells
BY DEF TruncateTo, ArrayValues

\* Add appends.
LEMMA Added ==
    ASSUME NEW A \in ArrayValues, NEW v \in Items
    PROVE  LET B == Add(A, v)
           IN /\ B \in ArrayValues /\ B.length = A.length + 1
              /\ B.capacity >= A.capacity
              /\ \A j \in 1 .. A.length : B.cells[j] = A.cells[j]
              /\ B.cells[A.length + 1] = v
<1> DEFINE R == Resize(A, A.length + 1)
           B == Put(R, A.length, v)
<1>0. A.length \in Nat /\ A.capacity \in Nat /\ A.length <= A.capacity
    BY CellsAreItems
<1>1. /\ R \in ArrayValues /\ R.length = A.length + 1 /\ R.capacity >= A.capacity
      /\ \A j \in 1 .. A.capacity : R.cells[j] = A.cells[j]
    <2> DEFINE l == A.length + 1
    <2>1. l \in Nat
        BY <1>0
    <2> HIDE DEF l
    <2>2. /\ Resize(A, l) \in ArrayValues /\ Resize(A, l).length = l
          /\ Resize(A, l).capacity >= A.capacity
          /\ \A j \in 1 .. A.capacity : Resize(A, l).cells[j] = A.cells[j]
        BY <2>1, Resized
    <2> QED BY <2>2 DEF l
<1> HIDE DEF R
<1>2. R.capacity \in Nat /\ A.length < R.capacity
    BY <1>0, <1>1, CellsAreItems
<1>3. /\ B \in ArrayValues /\ B.length = R.length /\ B.capacity = R.capacity
      /\ \A j \in 1 .. R.capacity : B.cells[j] = IF j = A.length + 1 THEN v ELSE R.cells[j]
    BY <1>0, <1>1, <1>2, PutCell
<1> HIDE DEF B
<1>4. Add(A, v) = B
    BY DEF Add, B, R
<1> QED BY <1>0, <1>1, <1>2, <1>3, <1>4

\* FillWith keeps the items before start and puts n times v after them.
LEMMA Filled ==
    ASSUME NEW A \in ArrayValues, NEW v \in Items,
           NEW start \in 0 .. A.length,
           NEW n \in Nat
    PROVE  LET B == FillWith(A, v, start, n)
           IN /\ B \in ArrayValues /\ B.length = start + n
              /\ B.capacity >= A.capacity
              /\ \A j \in 1 .. start : B.cells[j] = A.cells[j]
              /\ \A j \in (start + 1) .. (start + n) : B.cells[j] = v
<1> DEFINE R == Resize(A, start + n)
           B == Fill(R, start, n, v)
<1>0. A.length \in Nat /\ A.capacity \in Nat /\ A.length <= A.capacity
    BY CellsAreItems
<1>1. /\ R \in ArrayValues /\ R.length = start + n /\ R.capacity >= A.capacity
      /\ \A j \in 1 .. A.capacity : R.cells[j] = A.cells[j]
    <2> DEFINE l == start + n
    <2>1. l \in Nat
        BY <1>0
    <2> HIDE DEF l
    <2>2. /\ Resize(A, l) \in ArrayValues /\ Resize(A, l).length = l
          /\ Resize(A, l).capacity >= A.capacity
          /\ \A j \in 1 .. A.capacity : Resize(A, l).cells[j] = A.cells[j]
        BY <2>1, Resized
    <2> QED BY <2>2 DEF l
<1> HIDE DEF R
<1>2. R.capacity \in Nat /\ start + n <= R.capacity
    BY <1>0, <1>1, CellsAreItems
<1>3. /\ B \in ArrayValues /\ B.length = R.length /\ B.capacity = R.capacity
      /\ \A j \in 1 .. R.capacity :
           B.cells[j] = IF j > start /\ j <= start + n THEN v ELSE R.cells[j]
    BY <1>0, <1>1, <1>2, FillLoop
<1> HIDE DEF B
<1>4. FillWith(A, v, start, n) = B
    BY DEF FillWith, B, R
<1> QED BY <1>0, <1>1, <1>2, <1>3, <1>4

\* EnsureLength keeps the items and puts v after them up to the new length.
LEMMA Ensured ==
    ASSUME NEW A \in ArrayValues, NEW v \in Items, NEW n \in Nat
    PROVE  LET B == EnsureLength(A, n, v)
           IN /\ B \in ArrayValues /\ B.capacity >= A.capacity
              /\ B.length = IF A.length >= n THEN A.length ELSE n
              /\ \A j \in 1 .. A.length : B.cells[j] = A.cells[j]
              /\ \A j \in 1 .. (n - A.length) : B.cells[A.length + j] = v
<1>0. A.length \in Nat /\ A.capacity \in Nat /\ A.length <= A.capacity
    BY CellsAreItems
<1>1. CASE A.length >= n
    BY <1>0, <1>1 DEF EnsureLength
<1>2. CASE ~(A.length >= n)
    <2> DEFINE R == Resize(A, n)
               m == n - A.length
               B == Fill(R, A.length, m, v)
    <2>1. /\ R \in ArrayValues /\ R.length = n /\ R.capacity >= A.capacity
          /\ \A j \in 1 .. A.capacity : R.cells[j] = A.cells[j]
        BY <1>0, Resized
    <2> HIDE DEF R
    <2>2. /\ R.capacity \in Nat /\ m \in Nat /\ m = n - A.length
          /\ A.length + m <= R.capacity
        BY <1>0, <1>2, <2>1, CellsAreItems
    <2> HIDE DEF m
    <2>3. /\ B \in ArrayValues /\ B.length = R.length /\ B.capacity = R.capacity
          /\ \A j \in 1 .. R.capacity :
               B.cells[j] = IF j > A.length /\ j <= A.length + m
                            THEN v ELSE R.cells[j]
        <3>1. A.length \in Nat
            BY <1>0
        <3> QED BY <2>1, <2>2, <3>1, FillLoop
    <2> HIDE DEF B
    <2>4. EnsureLength(A, n, v) = B
        BY <1>2 DEF EnsureLength, B, R, m
    <2> QED BY <1>0, <1>2, <2>1, <2>2, <2>3, <2>4
<1> QED BY <1>1, <1>2

\* AddArray appends the items of the other array.
LEMMA Joined ==
    ASSUME NEW A \in ArrayValues, NEW src \in ArrayValues
    PROVE  LET B == AddArray(A, src)
           IN /\ B \in ArrayValues /\ B.length = A.length + src.length
              /\ B.capacity >= A.capacity
              /\ \A j \in 1 .. A.length : B.cells[j] = A.cells[j]
              /\ \A j \in 1 .. src.length : B.cells[A.length + j] = src.cells[j]
<1> DEFINE n == src.length
           item(k) == IF k < n THEN Item(src, k) ELSE Garbage
           step == [x \in ArrayValues \X Nat |-> Add(x[1], item(x[2]))]
           IsRun(f) == f = [k \in 0 .. n |->
                              IF k = 0 THEN A ELSE Add(f[k - 1], Item(src, k - 1))]
<1>0. /\ A.length \in Nat /\ A.capacity \in Nat /\ A.length <= A.capacity
      /\ n \in Nat /\ src.capacity \in Nat /\ n <= src.capacity
    BY CellsAreItems
<1>1. \A k \in Nat : item(k) \in Items
    BY <1>0, CellsAreItems DEF Item, Items
<1>2. PICK f : Runs(f, ArrayValues, step, A, n)
    <2>1. step \in [ArrayValues \X Nat -> ArrayValues]
        <3> HIDE DEF item
        <3> QED BY <1>1, Added
    <2> HIDE DEF step, n
    <2> QED BY <1>0, <2>1, RunExists
<1>3. ASSUME NEW k \in 1 .. n PROVE f[k] = Add(f[k - 1], Item(src, k - 1))
    <2>1. k - 1 \in 0 .. n /\ k - 1 \in Nat /\ k - 1 < n
        BY <1>0
    <2>2. f[k - 1] \in ArrayValues /\ f[k] = step[<<f[k - 1], k - 1>>]
        <3> HIDE DEF step, n
        <3> QED BY <1>2, <2>1 DEF Runs
    <2>3. item(k - 1) = Item(src, k - 1)
        BY <2>1
    <2> HIDE DEF item, n
    <2> QED BY <2>1, <2>2, <2>3
<1>4. IsRun(f)
    <2> HIDE DEF n, step
    <2> QED BY <1>0, <1>2, <1>3 DEF Runs
<1> DEFINE run == CHOOSE g : IsRun(g)
<1>5. IsRun(run)
    <2> HIDE DEF IsRun
    <2> QED BY <1>4
<1> DEFINE Done(B, k) ==
             /\ B \in ArrayValues /\ B.length = A.length + k
             /\ B.capacity >= A.capacity
             /\ \A j \in 1 .. A.length : B.cells[j] = A.cells[j]
             /\ \A j \in 1 .. k : B.cells[A.length + j] = src.cells[j]
<1>6. ASSUME NEW k \in 1 .. n, NEW D, Done(D, k - 1)
      PROVE  Done(Add(D, Item(src, k - 1)), k)
    <2> DEFINE v == Item(src, k - 1)
               E == Add(D, v)
    <2>1. v = src.cells[k] /\ v \in Items
        BY <1>0, CellsAreItems DEF Item
    <2> HIDE DEF v
    <2>2. /\ E \in ArrayValues /\ E.length = D.length + 1 /\ E.capacity >= D.capacity
          /\ \A j \in 1 .. D.length : E.cells[j] = D.cells[j]
          /\ E.cells[D.length + 1] = v
        BY <1>6, <2>1, Added
    <2> HIDE DEF E
    <2>3. D.capacity \in Nat /\ E.capacity \in Nat /\ k \in Nat
        BY <1>0, <1>6, <2>2, CellsAreItems
    <2>4. \A j \in 1 .. k : E.cells[A.length + j] = src.cells[j]
        <3>1. ASSUME NEW j \in 1 .. k
              PROVE  E.cells[A.length + j] = src.cells[j]
            <4>1. CASE j = k
                <5>1. A.length + j = D.length + 1
                    BY <1>0, <1>6, <2>3, <4>1
                <5> QED BY <2>1, <2>2, <4>1, <5>1
            <4>2. CASE j # k
                <5>1. j \in 1 .. (k - 1) /\ A.length + j \in 1 .. D.length
                    BY <1>0, <1>6, <2>3, <4>2
                <5> QED BY <1>6, <2>2, <5>1
            <4> QED BY <4>1, <4>2
        <3> QED BY <3>1
    <2>5. Done(E, k)
        BY <1>0, <1>6, <2>2, <2>3, <2>4
    <2> QED BY <2>5 DEF E, v
<1>7. Done(run[n], n)
    <2> DEFINE T == {k \in 0 .. n : Done(run[k], k)}
    <2>1. 0 \in T
        <3>1. run[0] = A /\ 0 \in 0 .. n
            <4> HIDE DEF run, Done, T, n, step
            <4> QED BY <1>0, <1>5
        <3> HIDE DEF run
        <3>2. Done(A, 0)
            BY <1>0
        <3> QED BY <3>1, <3>2
    <2>2. ASSUME NEW k \in 1 .. n, k - 1 \in T PROVE k \in T
        <3> HIDE DEF run, Done
        <3>1. run[k] = Add(run[k - 1], Item(src, k - 1)) /\ k \in 0 .. n
            BY <1>0, <1>5
        <3> QED BY <1>6, <2>2, <3>1
    <2>3. \A k \in 0 .. n : k \in T
        <3> HIDE DEF T, n
        <3> QED BY <1>0, <2>1, <2>2, RangeInduction
    <2> HIDE DEF Done, run
    <2> QED BY <1>0, <2>3
<1>8. AddArray(A, src) = run[n]
    BY DEF AddArray, Repeat
<1> HIDE DEF run
<1> QED BY <1>7, <1>8

\* InsertAt moves the items from idx on up and puts v there.
LEMMA Inserted ==
    ASSUME NEW A \in ArrayValues, NEW idx \in 0 .. A.length, NEW v \in Items
    PROVE  LET B == InsertAt(A, idx, v)
           IN /\ B \in ArrayValues /\ B.length = A.length + 1
              /\ B.capacity >= A.capacity
              /\ \A j \in 1 .. idx : B.cells[j] = A.cells[j]
              /\ B.cells[idx + 1] = v
              /\ \A j \in (idx + 1) .. A.length : B.cells[j + 1] = A.cells[j]
<1> DEFINE R == Resize(A, A.length + 1)
           D == Opened(R, A.length, A.length - idx)
           B == Put(D, idx, v)
<1>0. /\ A.length \in Nat /\ A.capacity \in Nat /\ A.length <= A.capacity
      /\ idx \in Nat /\ A.length - idx \in Nat /\ A.length - idx <= A.length
    BY CellsAreItems
<1>1. /\ R \in ArrayValues /\ R.length = A.length + 1 /\ R.capacity >= A.capacity
      /\ \A j \in 1 .. A.capacity : R.cells[j] = A.cells[j]
    <2> DEFINE l == A.length + 1
    <2>1. l \in Nat
        BY <1>0
    <2> HIDE DEF l
    <2>2. /\ Resize(A, l) \in ArrayValues /\ Resize(A, l).length = l
          /\ Resize(A, l).capacity >= A.capacity
          /\ \A j \in 1 .. A.capacity : Resize(A, l).cells[j] = A.cells[j]
        BY <2>1, Resized
    <2> QED BY <2>2 DEF l
<1> HIDE DEF R
<1>2. R.capacity \in Nat /\ A.length < R.capacity
    BY <1>0, <1>1, CellsAreItems
<1>3. /\ D \in ArrayValues /\ D.length = R.length /\ D.capacity = R.capacity
      /\ \A j \in 1 .. R.capacity :
           D.cells[j] = IF j > A.length + 1 - (A.length - idx) /\ j <= A.length + 1
                        THEN R.cells[j - 1] ELSE R.cells[j]
    BY <1>0, <1>1, <1>2, MoveUpLoop
<1> HIDE DEF D
<1>4. /\ B \in ArrayValues /\ B.length = D.length /\ B.capacity = D.capacity
      /\ \A j \in 1 .. D.capacity : B.cells[j] = IF j = idx + 1 THEN v ELSE D.cells[j]
    BY <1>0, <1>2, <1>3, PutCell
<1> HIDE DEF B
<1>5. InsertAt(A, idx, v) = B
    BY DEF InsertAt, B, D, R, Opened, Repeat
<1>6. \A j \in 1 .. idx : B.cells[j] = A.cells[j]
    BY <1>0, <1>1, <1>2, <1>3, <1>4
<1>7. ASSUME NEW j \in (idx + 1) .. A.length PROVE B.cells[j + 1] = A.cells[j]
    <2>1. /\ j \in 1 .. A.capacity /\ j + 1 \in 1 .. R.capacity /\ j + 1 # idx + 1
          /\ j + 1 > A.length + 1 - (A.length - idx) /\ j + 1 <= A.length + 1
          /\ (j + 1) - 1 = j
        BY <1>0, <1>2
    <2> QED BY <1>1, <1>3, <1>4, <2>1
<1> QED BY <1>0, <1>1, <1>2, <1>3, <1>4, <1>5, <1>6, <1>7

\* Reverse turns the items round.
LEMMA Reversed ==
    ASSUME NEW A \in ArrayValues
    PROVE  LET B == Reverse(A)
           IN /\ B \in ArrayValues /\ B.length = A.length /\ B.capacity = A.capacity
              /\ \A j \in 1 .. A.length : B.cells[j] = A.cells[A.length + 1 - j]
<1> DEFINE m == A.length \div 2
           B == Turned(A, A.length, m)
<1>0. /\ A.length \in Nat /\ A.capacity \in Nat /\ A.length <= A.capacity
      /\ m \in Nat /\ 2 * m <= A.length /\ A.length <= 2 * m + 1
    BY CellsAreItems
<1>1. Reverse(A) = B
    BY DEF Reverse, Turned, Repeat
<1> HIDE DEF m
<1>2. /\ B \in ArrayValues /\ B.length = A.length /\ B.capacity = A.capacity
      /\ \A j \in 1 .. A.capacity :
           B.cells[j] = IF j <= m \/ (j > A.length - m /\ j <= A.length)
                        THEN A.cells[A.length + 1 - j] ELSE A.cells[j]
    BY <1>0, SwapLoop
<1> HIDE DEF B
<1>3. ASSUME NEW j \in 1 .. A.length
      PROVE  B.cells[j] = A.cells[A.length + 1 - j]
    <2>1. j \in 1 .. A.capacity
        BY <1>0
    <2>2. CASE j <= m \/ j > A.length - m
        BY <1>0, <1>2, <2>1, <2>2
    <2>3. CASE ~(j <= m \/ j > A.length - m)
        <3>1. A.length + 1 - j = j
            BY <1>0, <2>3
        <3> QED BY <1>0, <1>2, <2>1, <2>3, <3>1
    <2> QED BY <2>2, <2>3
<1> QED BY <1>1, <1>2, <1>3

\* RemoveAt puts the last item where one is removed.
LEMMA Removed ==
    ASSUME NEW A \in ArrayValues, NEW i \in 0 .. (A.length - 1)
    PROVE  LET B == RemoveAt(A, i)
           IN /\ B \in ArrayValues /\ B.length = A.length - 1
              /\ B.capacity = A.capacity
              /\ \A j \in 1 .. (A.length - 1) :
                   B.cells[j] = A.cells[IF j = i + 1 THEN A.length ELSE j]
<1> DEFINE D == IF i < A.length - 1 THEN Swap(A, i, A.length - 1) ELSE A
<1>0. /\ A.length \in Nat /\ A.capacity \in Nat /\ A.length <= A.capacity
      /\ i \in Nat /\ i < A.capacity /\ A.length - 1 \in Nat /\ A.length - 1 < A.capacity
    BY CellsAreItems
<1>1. /\ D \in ArrayValues /\ D.length = A.length /\ D.capacity = A.capacity
      /\ \A j \in 1 .. (A.length - 1) :
           D.cells[j] = A.cells[IF j = i + 1 THEN A.length ELSE j]
    <2>1. CASE i < A.length - 1
        <3> DEFINE l == A.length - 1
                   S == Swap(A, i, l)
        <3>0. i \in Nat /\ i < A.capacity /\ l \in Nat /\ l < A.capacity
            BY <1>0
        <3>1. D = S
            BY <2>1
        <3> HIDE DEF l, D
        <3>2. /\ S \in ArrayValues /\ S.length = A.length /\ S.capacity = A.capacity
              /\ \A j \in 1 .. A.capacity :
                   S.cells[j] = IF j = l + 1 THEN A.cells[i + 1]
                                ELSE IF j = i + 1 THEN A.cells[l + 1] ELSE A.cells[j]
            BY <3>0, SwapCell, Zenon
        <3> HIDE DEF S
        <3> QED BY <1>0, <2>1, <3>0, <3>1, <3>2 DEF l
    <2>2. CASE ~(i < A.length - 1)
        BY <1>0, <2>2
    <2> QED BY <2>1, <2>2
<1> DEFINE B == TruncateTo(D, D.length - 1)
<1>2. RemoveAt(A, i) = B
    BY DEF RemoveAt, RemoveLast
<1> HIDE DEF D
<1>3. B \in ArrayValues /\ B.length = D.length - 1 /\ B.capacity = D.capacity
      /\ B.cells = D.cells
    BY <1>0, <1>1, Truncated
<1> HIDE DEF B
<1> QED BY <1>0, <1>1, <1>2, <1>3

\* EraseAt moves the items behind one that is removed down.
LEMMA Erased ==
    ASSUME NEW A \in ArrayValues, NEW idx \in 0 .. (A.length - 1)
    PROVE  LET B == EraseAt(A, idx)
           IN /\ B \in ArrayValues /\ B.length = A.length - 1
              /\ B.capacity = A.capacity
              /\ \A j \in 1 .. idx : B.cells[j] = A.cells[j]
              /\ \A j \in (idx + 1) .. (A.length - 1) : B.cells[j] = A.cells[j + 1]
<1> DEFINE D == Closed(A, idx, A.length - 1 - idx)
           B == TruncateTo(D, D.length - 1)
<1>0. /\ A.length \in Nat /\ A.capacity \in Nat /\ A.length <= A.capacity
      /\ idx \in Nat /\ A.length - 1 - idx \in Nat
      /\ idx + (A.length - 1 - idx) < A.capacity /\ A.length - 1 \in 0 .. A.length
    BY CellsAreItems
<1>1. EraseAt(A, idx) = B
    BY DEF EraseAt, RemoveLast, Closed, Repeat
<1>2. /\ D \in ArrayValues /\ D.length = A.length /\ D.capacity = A.capacity
      /\ \A j \in 1 .. A.capacity :
           D.cells[j] = IF j > idx /\ j <= idx + (A.length - 1 - idx)
                        THEN A.cells[j + 1] ELSE A.cells[j]
    BY <1>0, MoveDownLoop
<1> HIDE DEF D
<1>3. B \in ArrayValues /\ B.length = D.length - 1 /\ B.capacity = D.capacity
      /\ B.cells = D.cells
    BY <1>0, <1>2, Truncated
<1> HIDE DEF B
<1> QED BY <1>0, <1>1, <1>2, <1>3

\* Sort only changes places.
LEMMA Sorted ==
    ASSUME NEW A \in ArrayValues, NEW p \in [1 .. A.length -> 1 .. A.length]
    PROVE  LET B == Sort(A, p)
           IN /\ B \in ArrayValues /\ B.length = A.length /\ B.capacity = A.capacity
              /\ \A j \in 1 .. A.length : B.cells[j] = A.cells[p[j]]
<1> DEFINE c == [i \in 1 .. A.capacity |->
                   IF i <= A.length THEN A.cells[p[i]] ELSE A.cells[i]]
           B == With(A, c)
<1>0. A.length \in Nat /\ A.capacity \in Nat /\ A.length <= A.capacity
    BY CellsAreItems
<1>1. \A j \in 1 .. A.capacity : c[j] \in Items
    BY <1>0, CellsAreItems
<1>2. Sort(A, p) = B
    BY DEF Sort, With
<1>3. \A j \in 1 .. A.length : c[j] = A.cells[p[j]]
    BY <1>0
<1> HIDE DEF c
<1>4. /\ B \in ArrayValues /\ B.length = A.length /\ B.capacity = A.capacity
      /\ \A j \in 1 .. A.capacity : B.cells[j] = c[j]
    BY <1>1, WithCells
<1> HIDE DEF B
<1> QED BY <1>0, <1>2, <1>3, <1>4

-----------------------------------------------------------------------------
(* The calls as operators on sequences.                                    *)

\* The contents are the cells below the length.
LEMMA ContentsAre ==
    ASSUME NEW A \in ArrayValues
    PROVE  /\ Contents(A) \in Seq(Items)
           /\ Len(Contents(A)) = A.length
           /\ \A j \in 1 .. A.length : Contents(A)[j] = A.cells[j]
<1>0. A.length \in Nat /\ A.capacity \in Nat /\ A.length <= A.capacity
    BY CellsAreItems
<1>1. \A j \in 1 .. A.length : A.cells[j] \in Items
    BY <1>0, CellsAreItems
<1> DEFINE c == A.cells
           n == A.length
<1>2. /\ SubSeq(c, 1, n) \in Seq(Items)
      /\ Len(SubSeq(c, 1, n)) = IF 1 <= n THEN n - 1 + 1 ELSE 0
      /\ \A j \in 1 .. n - 1 + 1 : SubSeq(c, 1, n)[j] = c[1 + j - 1]
    <2>1. 1 \in Int /\ n \in Int /\ \A j \in 1 .. n : c[j] \in Items
        BY <1>0, <1>1
    <2> HIDE DEF c, n
    <2> QED BY <2>1, SubSeqProperties
<1>3. Contents(A) = SubSeq(c, 1, n)
    BY DEF Contents
<1> DEFINE s == SubSeq(c, 1, n)
<1>4. /\ s \in Seq(Items)
      /\ Len(s) = IF 1 <= n THEN n - 1 + 1 ELSE 0
      /\ \A j \in 1 .. n - 1 + 1 : s[j] = c[1 + j - 1]
    BY <1>2
<1> HIDE DEF s
<1>5. Len(s) = A.length /\ \A j \in 1 .. A.length : s[j] = A.cells[j]
    <2>1. \A j \in 1 .. n : j \in 1 .. (n - 1 + 1) /\ 1 + j - 1 = j
        BY <1>0
    <2> QED BY <1>0, <1>4, <2>1
<1> QED BY <1>3, <1>4, <1>5 DEF s

\* The contents are a sequence that has the same items.
LEMMA SameContents ==
    ASSUME NEW A \in ArrayValues, NEW s \in Seq(Items), Len(s) = A.length,
           \A j \in 1 .. A.length : s[j] = A.cells[j]
    PROVE  Contents(A) = s
<1> DEFINE c == Contents(A)
<1>1. /\ c \in Seq(Items) /\ Len(c) = Len(s)
      /\ \A j \in 1 .. Len(c) : c[j] = s[j]
    BY ContentsAre
<1> HIDE DEF c
<1>2. c = s
    BY <1>1, SeqEqual
<1> QED BY <1>2 DEF c

\* What is n times v.
LEMMA Copies ==
    ASSUME NEW n \in Int, NEW v \in Items
    PROVE  LET s == [k \in 1 .. n |-> v]
           IN /\ s \in Seq(Items) /\ Len(s) = IF n >= 0 THEN n ELSE 0
              /\ \A k \in 1 .. n : s[k] = v
<1>1. CASE n \in Nat
    BY <1>1
<1>2. CASE n \notin Nat
    <2>1. [k \in 1 .. n |-> v] = [k \in 1 .. 0 |-> v]
        BY <1>2
    <2> DEFINE s == [k \in 1 .. n |-> v]
    <2>2. s \in Seq(Items) /\ Len(s) = 0
        <3> DEFINE e == [k \in 1 .. 0 |-> v]
        <3>1. e \in Seq(Items) /\ Len(e) = 0
            OBVIOUS
        <3>2. s = e
            BY <2>1
        <3> HIDE DEF s, e
        <3> QED BY <3>1, <3>2
    <2>3. (IF n >= 0 THEN n ELSE 0) = 0 /\ \A k \in 1 .. n : s[k] = v
        BY <1>2
    <2> QED BY <2>2, <2>3
<1> QED BY <1>1, <1>2

\* The first items of a sequence, and those from one on.
LEMMA SplitSequence ==
    ASSUME NEW s \in Seq(Items), NEW i \in 0 .. Len(s)
    PROVE  /\ SubSeq(s, 1, i) \in Seq(Items) /\ Len(SubSeq(s, 1, i)) = i
           /\ \A j \in 1 .. i : SubSeq(s, 1, i)[j] = s[j]
           /\ SubSeq(s, i + 1, Len(s)) \in Seq(Items)
           /\ Len(SubSeq(s, i + 1, Len(s))) = Len(s) - i
           /\ \A j \in 1 .. (Len(s) - i) : SubSeq(s, i + 1, Len(s))[j] = s[i + j]
<1>1. /\ Len(s) \in Nat /\ i \in Int /\ i + 1 \in Int /\ 1 \in Int
      /\ \A j \in 1 .. i : s[j] \in Items
      /\ \A j \in (i + 1) .. Len(s) : s[j] \in Items
    BY ElementOfSeq
<1> DEFINE t == SubSeq(s, 1, i)
           u == SubSeq(s, i + 1, Len(s))
<1>2. /\ t \in Seq(Items) /\ Len(t) = IF 1 <= i THEN i - 1 + 1 ELSE 0
      /\ \A j \in 1 .. i - 1 + 1 : t[j] = s[1 + j - 1]
    BY <1>1, SubSeqProperties
<1> DEFINE l == i + 1
           n == Len(s)
<1>3. /\ SubSeq(s, l, n) \in Seq(Items)
      /\ Len(SubSeq(s, l, n)) = IF l <= n THEN n - l + 1 ELSE 0
      /\ \A j \in 1 .. n - l + 1 : SubSeq(s, l, n)[j] = s[l + j - 1]
    <2>1. l \in Int /\ n \in Int /\ \A j \in l .. n : s[j] \in Items
        BY <1>1
    <2> HIDE DEF l, n
    <2> QED BY <2>1, SubSeqProperties
<1>4. /\ u \in Seq(Items) /\ Len(u) = IF l <= n THEN n - l + 1 ELSE 0
      /\ \A j \in 1 .. n - l + 1 : u[j] = s[l + j - 1]
    BY <1>3
<1> HIDE DEF t, u
<1>5. Len(t) = i /\ \A j \in 1 .. i : t[j] = s[j]
    BY <1>2
<1>6. Len(u) = Len(s) - i /\ \A j \in 1 .. (Len(s) - i) : u[j] = s[i + j]
    <2>1. \A j \in 1 .. (Len(s) - i) : j \in 1 .. (n - l + 1) /\ l + j - 1 = i + j
        BY <1>1
    <2> QED BY <1>1, <1>4, <2>1
<1> QED BY <1>2, <1>4, <1>5, <1>6 DEF t, u

\* A sequence that is put together of two.
LEMMA Together ==
    ASSUME NEW A \in ArrayValues, NEW s \in Seq(Items), NEW t \in Seq(Items),
           A.length = Len(s) + Len(t),
           \A j \in 1 .. Len(s) : A.cells[j] = s[j],
           \A j \in 1 .. Len(t) : A.cells[Len(s) + j] = t[j]
    PROVE  Contents(A) = s \o t
<1> DEFINE u == s \o t
<1>0. Len(s) \in Nat /\ Len(t) \in Nat
    OBVIOUS
<1>1. /\ u \in Seq(Items) /\ Len(u) = Len(s) + Len(t)
      /\ \A j \in 1 .. (Len(s) + Len(t)) :
           u[j] = IF j <= Len(s) THEN s[j] ELSE t[j - Len(s)]
    BY ConcatProperties
<1> HIDE DEF u
<1>2. ASSUME NEW j \in 1 .. A.length PROVE u[j] = A.cells[j]
    <2>1. CASE j <= Len(s)
        BY <1>0, <1>1, <2>1
    <2>2. CASE ~(j <= Len(s))
        <3>1. j - Len(s) \in 1 .. Len(t) /\ Len(s) + (j - Len(s)) = j
            BY <1>0, <2>2
        <3> QED BY <1>0, <1>1, <2>2, <3>1
    <2> QED BY <2>1, <2>2
<1>3. Contents(A) = u
    BY <1>1, <1>2, SameContents
<1> QED BY <1>3 DEF u

\* Reverse, Add, EnsureLength and AddArray.
LEMMA AppendsToSequence ==
    ASSUME NEW A \in ArrayValues
    PROVE  /\ Contents(Reverse(A)) = Seqs!Reverse(Contents(A))
           /\ \A v \in Items : Contents(Add(A, v)) = Append(Contents(A), v)
           /\ \A v \in Items, n \in Nat :
                Contents(EnsureLength(A, n, v)) =
                    Contents(A) \o [k \in 1 .. (n - A.length) |-> v]
           /\ \A src \in ArrayValues :
                Contents(AddArray(A, src)) = Contents(A) \o Contents(src)
<1> DEFINE s == Contents(A)
<1>0. /\ A.length \in Nat /\ s \in Seq(Items) /\ Len(s) = A.length
      /\ \A j \in 1 .. A.length : s[j] = A.cells[j]
    BY CellsAreItems, ContentsAre
<1> HIDE DEF s
<1>1. Contents(Reverse(A)) = Seqs!Reverse(s)
    <2> DEFINE B == Reverse(A)
               t == Seqs!Reverse(s)
    <2>1. /\ B \in ArrayValues /\ B.length = A.length
          /\ \A j \in 1 .. A.length : B.cells[j] = A.cells[A.length + 1 - j]
        BY Reversed
    <2> HIDE DEF B
    <2>2. t = [j \in 1 .. Len(s) |-> s[(Len(s) - j) + 1]]
        BY DEF Seqs!Reverse
    <2>3. \A j \in 1 .. Len(s) : s[(Len(s) - j) + 1] \in Items
        <3>1. \A j \in 1 .. Len(s) : (Len(s) - j) + 1 \in 1 .. Len(s)
            BY <1>0
        <3> QED BY <1>0, <3>1, ElementOfSeq
    <2> HIDE DEF t
    <2>4. /\ t \in Seq(Items) /\ Len(t) = Len(s)
          /\ \A j \in 1 .. Len(s) : t[j] = s[(Len(s) - j) + 1]
        <3> DEFINE n == Len(s)
                   e(j) == s[(n - j) + 1]
        <3>1. n \in Nat /\ \A j \in 1 .. n : e(j) \in Items
            BY <1>0, <2>3
        <3>2. t = [j \in 1 .. n |-> e(j)]
            BY <2>2
        <3> HIDE DEF n, e
        <3>3. t \in Seq(Items) /\ Len(t) = n /\ \A j \in 1 .. n : t[j] = e(j)
            BY <3>1, <3>2
        <3> QED BY <3>3 DEF n, e
    <2>5. ASSUME NEW j \in 1 .. B.length PROVE t[j] = B.cells[j]
        <3>1. /\ j \in 1 .. A.length /\ (Len(s) - j) + 1 \in 1 .. A.length
              /\ (Len(s) - j) + 1 = A.length + 1 - j
            BY <1>0, <2>1
        <3>2. t[j] = s[(Len(s) - j) + 1]
            BY <1>0, <2>4, <3>1
        <3> QED BY <1>0, <2>1, <3>1, <3>2
    <2>6. Contents(B) = t
        BY <1>0, <2>1, <2>4, <2>5, SameContents
    <2> QED BY <2>6 DEF B, t
<1>2. ASSUME NEW v \in Items PROVE Contents(Add(A, v)) = Append(s, v)
    <2> DEFINE B == Add(A, v)
               t == Append(s, v)
    <2>1. /\ B \in ArrayValues /\ B.length = A.length + 1
          /\ \A j \in 1 .. A.length : B.cells[j] = A.cells[j]
          /\ B.cells[A.length + 1] = v
        BY Added
    <2> HIDE DEF B
    <2>2. /\ t \in Seq(Items) /\ Len(t) = Len(s) + 1
          /\ \A j \in 1 .. Len(s) : t[j] = s[j]
          /\ t[Len(s) + 1] = v
        BY <1>0, AppendProperties
    <2> HIDE DEF t
    <2>3. Len(t) = B.length /\ \A j \in 1 .. B.length : t[j] = B.cells[j]
        <3>1. \A j \in 1 .. B.length : j \in 1 .. A.length \/ j = A.length + 1
            BY <1>0, <2>1
        <3> QED BY <1>0, <2>1, <2>2, <3>1
    <2>4. Contents(B) = t
        BY <2>1, <2>2, <2>3, SameContents
    <2> QED BY <2>4 DEF B, t
<1>3. ASSUME NEW v \in Items, NEW n \in Nat
      PROVE  Contents(EnsureLength(A, n, v)) = s \o [k \in 1 .. (n - A.length) |-> v]
    <2> DEFINE B == EnsureLength(A, n, v)
               m == n - A.length
               t == [k \in 1 .. m |-> v]
    <2>1. /\ B \in ArrayValues /\ B.length = IF A.length >= n THEN A.length ELSE n
          /\ \A j \in 1 .. A.length : B.cells[j] = A.cells[j]
          /\ \A j \in 1 .. m : B.cells[A.length + j] = v
        BY Ensured
    <2> HIDE DEF B
    <2>2. m \in Int /\ B.length = A.length + IF m >= 0 THEN m ELSE 0
        BY <1>0, <2>1
    <2> HIDE DEF m
    <2>3. /\ t \in Seq(Items)
          /\ Len(t) = IF m >= 0 THEN m ELSE 0
          /\ \A k \in 1 .. m : t[k] = v
        BY <2>2, Copies
    <2> HIDE DEF t
    <2>4. /\ B.length = Len(s) + Len(t)
          /\ \A j \in 1 .. Len(s) : B.cells[j] = s[j]
          /\ \A j \in 1 .. Len(t) : B.cells[Len(s) + j] = t[j]
        BY <1>0, <2>1, <2>2, <2>3
    <2>5. Contents(B) = s \o t
        BY <1>0, <2>1, <2>3, <2>4, Together
    <2> QED BY <2>5 DEF B, t, m
<1>4. ASSUME NEW src \in ArrayValues
      PROVE  Contents(AddArray(A, src)) = s \o Contents(src)
    <2> DEFINE B == AddArray(A, src)
               t == Contents(src)
    <2>1. /\ B \in ArrayValues /\ B.length = A.length + src.length
          /\ \A j \in 1 .. A.length : B.cells[j] = A.cells[j]
          /\ \A j \in 1 .. src.length : B.cells[A.length + j] = src.cells[j]
        BY Joined
    <2> HIDE DEF B
    <2>2. /\ t \in Seq(Items) /\ Len(t) = src.length
          /\ \A j \in 1 .. src.length : t[j] = src.cells[j]
        BY ContentsAre
    <2> HIDE DEF t
    <2>3. /\ B.length = Len(s) + Len(t)
          /\ \A j \in 1 .. Len(s) : B.cells[j] = s[j]
          /\ \A j \in 1 .. Len(t) : B.cells[Len(s) + j] = t[j]
        BY <1>0, <2>1, <2>2
    <2>4. Contents(B) = s \o t
        BY <1>0, <2>1, <2>2, <2>3, Together
    <2> QED BY <2>4 DEF B, t
<1> QED BY <1>1, <1>2, <1>3, <1>4 DEF s

\* InsertAt and FillWith.
LEMMA InsertsIntoSequence ==
    ASSUME NEW A \in ArrayValues, NEW i \in 0 .. A.length, NEW v \in Items
    PROVE  /\ Contents(InsertAt(A, i, v)) = Seqs!InsertAt(Contents(A), i + 1, v)
           /\ \A n \in Nat : Contents(FillWith(A, v, i, n)) =
                                SubSeq(Contents(A), 1, i) \o [k \in 1 .. n |-> v]
<1> DEFINE s == Contents(A)
           first == SubSeq(s, 1, i)
           rest == SubSeq(s, i + 1, Len(s))
<1>0. /\ A.length \in Nat /\ s \in Seq(Items) /\ Len(s) = A.length
      /\ \A j \in 1 .. A.length : s[j] = A.cells[j]
      /\ i \in Nat
    BY CellsAreItems, ContentsAre
<1> HIDE DEF s
<1>1. /\ first \in Seq(Items) /\ Len(first) = i
      /\ \A j \in 1 .. i : first[j] = A.cells[j]
      /\ rest \in Seq(Items) /\ Len(rest) = A.length - i
      /\ \A j \in 1 .. (A.length - i) : rest[j] = A.cells[i + j]
    <2>1. /\ first \in Seq(Items) /\ Len(first) = i
          /\ \A j \in 1 .. i : first[j] = s[j]
          /\ rest \in Seq(Items) /\ Len(rest) = Len(s) - i
          /\ \A j \in 1 .. (Len(s) - i) : rest[j] = s[i + j]
        BY <1>0, SplitSequence
    <2> HIDE DEF first, rest
    <2>2. \A j \in 1 .. (A.length - i) : rest[j] = A.cells[i + j]
        <3>1. \A j \in 1 .. (A.length - i) : i + j \in 1 .. A.length
            BY <1>0
        <3> QED BY <1>0, <2>1, <3>1
    <2>3. \A j \in 1 .. i : first[j] = A.cells[j]
        <3>1. \A j \in 1 .. i : j \in 1 .. A.length
            BY <1>0
        <3> QED BY <1>0, <2>1, <3>1
    <2>4. Len(rest) = A.length - i
        BY <1>0, <2>1
    <2> QED BY <2>1, <2>2, <2>3, <2>4
<1>2. Contents(InsertAt(A, i, v)) = Seqs!InsertAt(s, i + 1, v)
    <2> DEFINE B == InsertAt(A, i, v)
               one == <<v>>
               t == first \o one
    <2>1. /\ B \in ArrayValues /\ B.length = A.length + 1
          /\ \A j \in 1 .. i : B.cells[j] = A.cells[j]
          /\ B.cells[i + 1] = v
          /\ \A j \in (i + 1) .. A.length : B.cells[j + 1] = A.cells[j]
        BY Inserted
    <2> HIDE DEF B
    <2>2. one \in Seq(Items) /\ Len(one) = 1 /\ one[1] = v
        OBVIOUS
    <2>3. Seqs!InsertAt(s, i + 1, v) = t \o rest
        <3>1. (i + 1) - 1 = i
            BY <1>0
        <3> QED BY <3>1 DEF Seqs!InsertAt
    <2> HIDE DEF first, rest, one
    <2>4. /\ t \in Seq(Items) /\ Len(t) = i + 1
          /\ \A j \in 1 .. (i + 1) : t[j] = B.cells[j]
        <3>1. /\ t \in Seq(Items) /\ Len(t) = Len(first) + Len(one)
              /\ \A j \in 1 .. (Len(first) + Len(one)) :
                   t[j] = IF j <= Len(first) THEN first[j] ELSE one[j - Len(first)]
            <4>1. first \in Seq(Items) /\ one \in Seq(Items)
                BY <1>1, <2>2
            <4> QED BY <4>1, ConcatProperties, Zenon
        <3> HIDE DEF t
        <3>2. ASSUME NEW j \in 1 .. (i + 1) PROVE t[j] = B.cells[j]
            <4>1. CASE j <= i
                <5>1. j \in 1 .. i /\ j <= Len(first) /\ j \in 1 .. (Len(first) + Len(one))
                    BY <1>0, <1>1, <2>2, <4>1
                <5> QED BY <1>1, <2>1, <3>1, <5>1
            <4>2. CASE ~(j <= i)
                <5>1. j = i + 1 /\ j - Len(first) = 1
                    BY <1>0, <1>1, <4>2
                <5> QED BY <1>0, <1>1, <2>1, <2>2, <3>1, <4>2, <5>1
            <4> QED BY <4>1, <4>2
        <3> QED BY <1>1, <2>2, <3>1, <3>2
    <2> HIDE DEF t
    <2>5. ASSUME NEW j \in 1 .. Len(rest) PROVE B.cells[Len(t) + j] = rest[j]
        <3>1. i + j \in (i + 1) .. A.length /\ Len(t) + j = (i + j) + 1
              /\ j \in 1 .. (A.length - i)
            BY <1>0, <1>1, <2>4
        <3>2. B.cells[(i + j) + 1] = A.cells[i + j]
            BY <2>1, <3>1
        <3> QED BY <1>1, <3>1, <3>2
    <2>6. B.length = Len(t) + Len(rest)
        BY <1>0, <1>1, <2>1, <2>4
    <2>7. \A j \in 1 .. Len(t) : B.cells[j] = t[j]
        BY <2>4
    <2>8. Contents(B) = t \o rest
        BY <1>1, <2>1, <2>4, <2>5, <2>6, <2>7, Together
    <2> QED BY <2>3, <2>8 DEF B
<1>3. ASSUME NEW n \in Nat
      PROVE  Contents(FillWith(A, v, i, n)) = first \o [k \in 1 .. n |-> v]
    <2> DEFINE B == FillWith(A, v, i, n)
               t == [k \in 1 .. n |-> v]
    <2>1. /\ B \in ArrayValues /\ B.length = i + n
          /\ \A j \in 1 .. i : B.cells[j] = A.cells[j]
          /\ \A j \in 1 .. n : B.cells[i + j] = v
        <3>1. FillWith(A, v, i, n) \in ArrayValues
            BY Filled
        <3>2. FillWith(A, v, i, n).length = i + n
            BY Filled
        <3>3. \A j \in 1 .. i : FillWith(A, v, i, n).cells[j] = A.cells[j]
            BY Filled
        <3>4. ASSUME NEW j \in 1 .. n
              PROVE  FillWith(A, v, i, n).cells[i + j] = v
            <4> DEFINE l == i + j
            <4>1. l \in (i + 1) .. (i + n)
                BY <1>0
            <4> HIDE DEF l
            <4>2. FillWith(A, v, i, n).cells[l] = v
                BY <4>1, Filled
            <4> QED BY <4>2 DEF l
        <3> QED BY <3>1, <3>2, <3>3, <3>4
    <2> HIDE DEF B
    <2>2. t \in Seq(Items) /\ Len(t) = n /\ \A k \in 1 .. n : t[k] = v
        OBVIOUS
    <2> HIDE DEF t, first
    <2>3. /\ B.length = Len(first) + Len(t)
          /\ \A j \in 1 .. Len(first) : B.cells[j] = first[j]
          /\ \A j \in 1 .. Len(t) : B.cells[Len(first) + j] = t[j]
        BY <1>1, <2>1, <2>2
    <2>4. Contents(B) = first \o t
        BY <1>1, <2>1, <2>2, <2>3, Together
    <2> QED BY <2>4 DEF B, t
<1> QED BY <1>2, <1>3 DEF s

\* EraseAt and RemoveAt.
LEMMA RemovesFromSequence ==
    ASSUME NEW A \in ArrayValues, NEW i \in 1 .. A.length
    PROVE  /\ Contents(EraseAt(A, i - 1)) = Seqs!RemoveAt(Contents(A), i)
           /\ Contents(RemoveAt(A, i - 1)) =
                Seqs!Front(Seqs!ReplaceAt(Contents(A), i, Seqs!Last(Contents(A))))
<1> DEFINE s == Contents(A)
<1>0. /\ A.length \in Nat /\ s \in Seq(Items) /\ Len(s) = A.length
      /\ \A j \in 1 .. A.length : s[j] = A.cells[j]
      /\ i - 1 \in 0 .. A.length /\ i - 1 \in 0 .. (A.length - 1) /\ (i - 1) + 1 = i
      /\ A.length - 1 \in 0 .. A.length
    BY CellsAreItems, ContentsAre
<1> HIDE DEF s
<1>1. Contents(EraseAt(A, i - 1)) = Seqs!RemoveAt(s, i)
    <2> DEFINE B == EraseAt(A, i - 1)
               first == SubSeq(s, 1, i - 1)
               rest == SubSeq(s, i + 1, Len(s))
               l == i - 1
    <2>1. /\ B \in ArrayValues /\ B.length = A.length - 1
          /\ \A j \in 1 .. (i - 1) : B.cells[j] = A.cells[j]
          /\ \A j \in i .. (A.length - 1) : B.cells[j] = A.cells[j + 1]
        <3>1. /\ l \in 0 .. (A.length - 1) /\ l + 1 = i
            BY <1>0
        <3> HIDE DEF l
        <3>2. /\ EraseAt(A, l) \in ArrayValues /\ EraseAt(A, l).length = A.length - 1
              /\ \A j \in 1 .. l : EraseAt(A, l).cells[j] = A.cells[j]
              /\ \A j \in (l + 1) .. (A.length - 1) :
                    EraseAt(A, l).cells[j] = A.cells[j + 1]
            BY <3>1, Erased
        <3> QED BY <3>1, <3>2 DEF l
    <2> HIDE DEF B
    <2>2. /\ first \in Seq(Items) /\ Len(first) = i - 1
          /\ \A j \in 1 .. (i - 1) : first[j] = s[j]
        <3>1. l \in 0 .. Len(s)
            BY <1>0
        <3> HIDE DEF l
        <3>2. /\ SubSeq(s, 1, l) \in Seq(Items) /\ Len(SubSeq(s, 1, l)) = l
              /\ \A j \in 1 .. l : SubSeq(s, 1, l)[j] = s[j]
            BY <1>0, <3>1, SplitSequence
        <3> QED BY <3>2 DEF l
    <2>3. /\ rest \in Seq(Items) /\ Len(rest) = A.length - i
          /\ \A j \in 1 .. (A.length - i) : rest[j] = s[i + j]
        <3>1. i \in 0 .. Len(s)
            BY <1>0
        <3> QED BY <1>0, <3>1, SplitSequence
    <2>4. Seqs!RemoveAt(s, i) = first \o rest
        BY DEF Seqs!RemoveAt
    <2> HIDE DEF first, rest
    <2>5. \A j \in 1 .. Len(first) : B.cells[j] = first[j]
        <3>1. \A j \in 1 .. (i - 1) : j \in 1 .. A.length
            BY <1>0
        <3> QED BY <1>0, <2>1, <2>2, <3>1
    <2>6. ASSUME NEW j \in 1 .. Len(rest)
          PROVE  B.cells[Len(first) + j] = rest[j]
        <3> HIDE DEF l
        <3>0. j \in 1 .. (A.length - i) /\ Len(first) = i - 1
            BY <2>2, <2>3
        <3>1. /\ Len(first) + j = i - 1 + j /\ i - 1 + j \in i .. (A.length - 1)
              /\ (i - 1 + j) + 1 = i + j /\ i + j \in 1 .. A.length
              /\ j \in 1 .. (A.length - i)
            <4> DEFINE n == A.length
                       m == Len(first)
            <4>1. /\ n \in Nat /\ i \in 1 .. n /\ j \in 1 .. (n - i) /\ m = i - 1
                BY <1>0, <3>0
            <4> HIDE DEF n, m
            <4>2. /\ m + j = i - 1 + j /\ i - 1 + j \in i .. (n - 1)
                  /\ (i - 1 + j) + 1 = i + j /\ i + j \in 1 .. n
                BY <4>1
            <4> QED BY <4>1, <4>2 DEF n, m
        <3>2. B.cells[i - 1 + j] = A.cells[(i - 1 + j) + 1]
            BY <2>1, <3>1
        <3> QED BY <1>0, <2>3, <3>1, <3>2
    <2>7. B.length = Len(first) + Len(rest)
        BY <1>0, <2>1, <2>2, <2>3
    <2>8. Contents(B) = first \o rest
        BY <2>1, <2>2, <2>3, <2>5, <2>6, <2>7, Together
    <2> QED BY <2>4, <2>8 DEF B
<1>2. Contents(RemoveAt(A, i - 1)) = Seqs!Front(Seqs!ReplaceAt(s, i, Seqs!Last(s)))
    <2> DEFINE l == i - 1
               B == RemoveAt(A, l)
               r == Seqs!ReplaceAt(s, i, Seqs!Last(s))
               t == SubSeq(r, 1, Len(r) - 1)
    <2>1. /\ l \in 0 .. (A.length - 1) /\ l + 1 = i
        BY <1>0
    <2> HIDE DEF l
    <2>2. /\ B \in ArrayValues /\ B.length = A.length - 1
          /\ \A j \in 1 .. (A.length - 1) :
               B.cells[j] = A.cells[IF j = l + 1 THEN A.length ELSE j]
        BY <2>1, Removed
    <2> HIDE DEF B
    <2>3. Seqs!Front(r) = t
        BY DEF Seqs!Front
    <2>4. r = [s EXCEPT ![i] = s[Len(s)]]
        BY DEF Seqs!ReplaceAt, Seqs!Last
    <2> HIDE DEF r
    <2>5. /\ r \in Seq(Items) /\ Len(r) = A.length
          /\ \A j \in 1 .. A.length : r[j] = IF j = i THEN s[A.length] ELSE s[j]
        <3>1. s[Len(s)] \in Items
            BY <1>0, ElementOfSeq
        <3> DEFINE v == s[Len(s)]
        <3>2. v \in Items /\ r = [s EXCEPT ![i] = v]
            BY <2>4, <3>1
        <3>3. v = s[A.length]
            BY <1>0
        <3> HIDE DEF v
        <3>4. /\ r \in Seq(Items) /\ Len(r) = A.length
              /\ \A j \in 1 .. A.length : r[j] = IF j = i THEN v ELSE s[j]
            BY <1>0, <3>2, ExceptSeq
        <3> QED BY <3>3, <3>4
    <2> DEFINE m == A.length - 1
    <2>6. m \in 0 .. Len(r) /\ t = SubSeq(r, 1, m)
        BY <1>0, <2>5
    <2> HIDE DEF m, t
    <2>7. t \in Seq(Items) /\ Len(t) = m /\ \A j \in 1 .. m : t[j] = r[j]
        BY <2>5, <2>6, SplitSequence
    <2>8. ASSUME NEW j \in 1 .. B.length PROVE t[j] = B.cells[j]
        <3>1. j \in 1 .. m /\ j \in 1 .. A.length /\ j \in 1 .. (A.length - 1)
              /\ A.length \in 1 .. A.length
            BY <1>0, <2>2 DEF m
        <3>2. CASE j = i
            BY <1>0, <2>1, <2>2, <2>5, <2>7, <3>1, <3>2
        <3>3. CASE j # i
            BY <1>0, <2>1, <2>2, <2>5, <2>7, <3>1, <3>3
        <3> QED BY <3>2, <3>3
    <2>9. Contents(B) = t
        BY <2>2, <2>7, <2>8, SameContents DEF m
    <2> QED BY <2>3, <2>9 DEF B, l, r
<1> QED BY <1>1, <1>2 DEF s

-----------------------------------------------------------------------------
(* The arrays and their blocks.                                            *)

ArrayRecords == [length : Nat, capacity : Nat, data : Blocks \cup {Null}]

ArraysInv ==
    /\ existing \subseteq Arrays
    /\ array \in [Arrays -> ArrayRecords]
    /\ heap \in [Blocks -> Seq(Items)]
    /\ ItemsFit
    /\ BlocksHaveOneOwner

\* All items of A are written.
Written(A) == \A j \in 1 .. A.length : A.cells[j] # Garbage

\* The value of an array is that of its fields and its block.
LEMMA ValuesAre ==
    ASSUME ArraysInv, NEW a \in Arrays
    PROVE  /\ Value(a) \in ArrayValues
           /\ Value(a).length = array[a].length
           /\ Value(a).capacity = array[a].capacity
           /\ Value(a).cells = Cells(array[a].data)
           /\ array[a].data = Null => Value(a).length = 0 /\ Value(a).capacity = 0
           /\ array[a].data # Null => Value(a).capacity > 0
<1>1. array[a] \in ArrayRecords
    BY DEF ArraysInv
<1>2. Cells(array[a].data) \in Seq(Items)
    <2>1. CASE array[a].data = Null
        BY <2>1 DEF Cells
    <2>2. CASE array[a].data # Null
        BY <1>1, <2>2 DEF Cells, ArraysInv, ArrayRecords
    <2> QED BY <2>1, <2>2
<1>3. array[a].length <= array[a].capacity /\ array[a].capacity = Len(Cells(array[a].data))
    BY DEF ArraysInv, ItemsFit
<1>4. array[a].data = Null => array[a].length = 0 /\ array[a].capacity = 0
    BY <1>1, <1>3 DEF Cells, ArrayRecords
<1>5. array[a].data # Null => array[a].capacity > 0
    <2> SUFFICES ASSUME array[a].data # Null PROVE array[a].capacity > 0
        OBVIOUS
    <2>1. heap[array[a].data] # <<>> /\ heap[array[a].data] \in Seq(Items)
        BY <1>1 DEF ArraysInv, BlocksHaveOneOwner, Allocated, ArrayRecords
    <2>2. Len(heap[array[a].data]) > 0
        BY <2>1, EmptySeq
    <2> QED BY <1>3, <2>2 DEF Cells
<1> QED BY <1>1, <1>2, <1>3, <1>4, <1>5 DEF Value, ArrayValues, ArrayRecords

\* The items of A are written where its contents have no garbage.
LEMMA WrittenMeans ==
    ASSUME NEW A \in ArrayValues
    PROVE  Written(A) <=> Garbage \notin Seqs!ToSet(Contents(A))
<1> DEFINE s == Contents(A)
<1>1. /\ s \in Seq(Items) /\ Len(s) = A.length
      /\ \A j \in 1 .. A.length : s[j] = A.cells[j]
    BY ContentsAre
<1>2. Seqs!ToSet(s) = {s[j] : j \in DOMAIN s}
    BY DEF Seqs!ToSet
<1> HIDE DEF s
<1>3. DOMAIN s = 1 .. A.length
    BY <1>1
<1>4. Garbage \in Seqs!ToSet(s) <=> \E j \in 1 .. A.length : A.cells[j] = Garbage
    BY <1>1, <1>2, <1>3
<1> QED BY <1>4 DEF Written, s

\* Nothing is unwritten if the items of every array are written.
LEMMA AllWritten ==
    ASSUME ArraysInv
    PROVE  Unwritten = {} <=> \A a \in Arrays : Written(Value(a))
BY ValuesAre, WrittenMeans DEF Unwritten

\* The same of the next state.
LEMMA AllWrittenNext ==
    ASSUME \A a \in Arrays : Value(a)' \in ArrayValues
    PROVE  Unwritten' = {} <=> \A a \in Arrays : Written(Value(a)')
BY WrittenMeans DEF Unwritten

\* Array a becomes A, in its own block, in one that was free, or in none; only
\* then a block may be lost, the one it had before.
LEMMA OneBecomes ==
    ASSUME ArraysInv, NEW a \in Arrays, NEW A \in ArrayValues,
           NEW b \in Blocks \cup {Null}, A.cells = <<>> <=> b = Null,
           b = array[a].data \/ b \notin Allocated,
           Become(a, A, b), stolen' = stolen,
           existing \subseteq existing', existing' \subseteq Arrays, a \in existing'
    PROVE  /\ ArraysInv'
           /\ Value(a)' = A
           /\ \A o \in Arrays \ {a} : Value(o)' = Value(o)
           /\ array[a].data \in {b, Null} => Lost' = Lost
<1> DEFINE r == [length |-> A.length, capacity |-> A.capacity, data |-> b]
<1>1. /\ array' \in [Arrays -> ArrayRecords]
      /\ array'[a] = r
      /\ \A o \in Arrays \ {a} : array'[o] = array[o]
    <2>1. r \in ArrayRecords
        BY DEF ArrayRecords, ArrayValues
    <2>2. array' = [array EXCEPT ![a] = r] /\ array \in [Arrays -> ArrayRecords]
        BY DEF Become, ArraysInv
    <2> HIDE DEF r
    <2> QED BY <2>1, <2>2
<1>2. A.cells \in Seq(Items) /\ A.length <= A.capacity /\ A.capacity = Len(A.cells)
    BY DEF ArrayValues
<1>3. /\ heap' \in [Blocks -> Seq(Items)]
      /\ b \in Blocks => heap'[b] = A.cells
      /\ \A c \in Blocks : c # b => heap'[c] = heap[c]
    BY <1>2, ArrayAssumption DEF Become, ArraysInv
<1>4. Allocated' = IF b = Null THEN Allocated ELSE Allocated \cup {b}
    <2>1. Allocated' = {c \in Blocks : heap'[c] # <<>>}
        BY DEF Allocated
    <2>2. CASE b = Null
        <3>1. \A c \in Blocks : heap'[c] = heap[c]
            BY <1>3, <2>2, ArrayAssumption
        <3> QED BY <2>1, <2>2, <3>1 DEF Allocated
    <2>3. CASE b # Null
        <3>1. b \in Blocks /\ heap'[b] # <<>>
            BY <1>3, <2>3
        <3> QED BY <1>3, <2>1, <2>3, <3>1 DEF Allocated
    <2> QED BY <2>2, <2>3
<1>5. ASSUME NEW o \in Arrays, o # a
      PROVE  /\ array[o].data # Null => array[o].data # b
             /\ Cells(array[o].data)' = Cells(array[o].data)
    <2>1. array[o].data # Null => array[o].data # b
        BY <1>5 DEF ArraysInv, BlocksHaveOneOwner
    <2>2. array[o].data \in Blocks \cup {Null}
        BY DEF ArraysInv, ArrayRecords
    <2>3. array'[o] = array[o]
        BY <1>1, <1>5
    <2> QED BY <1>3, <2>1, <2>2, <2>3 DEF Cells
<1>6. Cells(array[a].data)' = A.cells
    BY <1>1, <1>3 DEF Cells
<1>7. Value(a)' = A
    <2>1. A = [length |-> A.length, capacity |-> A.capacity, cells |-> A.cells]
        BY DEF ArrayValues
    <2>2. array'[a].length = A.length /\ array'[a].capacity = A.capacity
        BY <1>1
    <2>3. Value(a)' = [length |-> array'[a].length, capacity |-> array'[a].capacity,
                       cells |-> Cells(array[a].data)']
        BY DEF Value
    <2> QED BY <1>6, <2>1, <2>2, <2>3
<1>8. ASSUME NEW o \in Arrays, o # a PROVE Value(o)' = Value(o)
    <2>1. array'[o] = array[o]
        BY <1>1, <1>8
    <2>2. Value(o)' = [length |-> array'[o].length, capacity |-> array'[o].capacity,
                       cells |-> Cells(array[o].data)']
        BY DEF Value
    <2> QED BY <1>5, <1>8, <2>1, <2>2 DEF Value
<1>9. ItemsFit'
    <2>1. ASSUME NEW o \in Arrays
          PROVE  /\ array'[o].length <= array'[o].capacity
                 /\ array'[o].capacity = Len(Cells(array[o].data)')
        <3>1. CASE o = a
            BY <1>1, <1>2, <1>6, <3>1
        <3>2. CASE o # a
            <4>1. array[o].length <= array[o].capacity
                  /\ array[o].capacity = Len(Cells(array[o].data))
                BY DEF ArraysInv, ItemsFit
            <4> QED BY <1>1, <1>5, <3>2, <4>1
        <3> QED BY <3>1, <3>2
    <2> QED BY <2>1 DEF ItemsFit
<1>10. BlocksHaveOneOwner'
    <2>1. stolen \subseteq Allocated
        BY DEF ArraysInv, BlocksHaveOneOwner
    <2>2. ASSUME NEW o \in Arrays, array'[o].data # Null
          PROVE  /\ o \in existing' /\ array'[o].data \in Allocated' \ stolen
                 /\ \A other \in Arrays \ {o} : array'[other].data # array'[o].data
        <3>1. CASE o = a
            <4>1. array'[o].data = b /\ b # Null
                BY <1>1, <2>2, <3>1
            <4>2. b \notin stolen
                BY <2>1, <4>1 DEF ArraysInv, BlocksHaveOneOwner
            <4>3. \A other \in Arrays \ {a} : array[other].data # b
                BY <1>5, <4>1
            <4> QED BY <1>1, <1>4, <3>1, <4>1, <4>2, <4>3
        <3>2. CASE o # a
            <4>1. array'[o] = array[o] /\ array[o].data # Null
                BY <1>1, <2>2, <3>2
            <4>2. /\ o \in existing /\ array[o].data \in Allocated \ stolen
                  /\ \A other \in Arrays \ {o} : array[other].data # array[o].data
                BY <4>1 DEF ArraysInv, BlocksHaveOneOwner
            <4>3. array[o].data # b
                BY <1>5, <3>2, <4>1
            <4> QED BY <1>1, <1>4, <3>2, <4>1, <4>2, <4>3
        <3> QED BY <3>1, <3>2
    <2> QED BY <1>4, <2>1, <2>2 DEF BlocksHaveOneOwner
<1>11. ASSUME array[a].data \in {b, Null} PROVE Lost' = Lost
    <2> DEFINE Owned == {array[o].data : o \in Arrays}
    <2>1. Owned' \cup {Null} = Owned \cup {b, Null}
        <3>1. \A o \in Arrays : array'[o].data = b \/ array'[o].data \in Owned
            BY <1>1
        <3>2. \A o \in Arrays : array[o].data \in {b, Null} \/ array[o].data \in Owned'
            BY <1>1, <1>11
        <3>3. b \in Owned'
            BY <1>1
        <3> QED BY <3>1, <3>2, <3>3
    <2>2. Null \notin Allocated
        BY ArrayAssumption DEF Allocated
    <2>3. b \in Allocated => b \in Owned
        BY <1>11, <2>2
    <2>4. Lost' = Allocated' \ (stolen' \cup Owned')
        BY DEF Lost
    <2>5. Lost = Allocated \ (stolen \cup Owned)
        BY DEF Lost
    <2> HIDE DEF Owned
    <2> QED BY <1>4, <2>1, <2>2, <2>3, <2>4, <2>5
<1> QED BY <1>1, <1>3, <1>7, <1>8, <1>9, <1>10, <1>11 DEF ArraysInv

\* An edit whose value of the array is A: no block is lost, and the items are
\* written if those of A are.
LEMMA OneIsUpdated ==
    ASSUME ArraysInv, NEW a \in existing, NEW A \in ArrayValues,
           A.capacity >= array[a].capacity, Update(a, A)
    PROVE  /\ ArraysInv'
           /\ Lost' = Lost
           /\ Unwritten = {} /\ Written(A) => Unwritten' = {}
<1>1. a \in Arrays /\ array[a] \in ArrayRecords
    BY DEF ArraysInv
<1>2. PICK b \in Blocks \cup {Null} :
         /\ Become(a, A, b)
         /\ A.cells = <<>> <=> b = Null
         /\ b = array[a].data \/ b \notin Allocated
         /\ array[a].data \in {b, Null}
    <2>1. CASE array[a].data = Null
        <3>1. PICK b \in IF A.cells = <<>> THEN {Null} ELSE Blocks \ Allocated :
                 Become(a, A, b)
            BY <2>1 DEF Update, Allocate
        <3>2. CASE A.cells = <<>>
            BY <2>1, <3>1, <3>2
        <3>3. CASE A.cells # <<>>
            BY <2>1, <3>1, <3>3, ArrayAssumption
        <3> QED BY <3>2, <3>3
    <2>2. CASE array[a].data # Null
        <3>1. Become(a, A, array[a].data)
            BY <2>2 DEF Update
        <3>2. A.cells # <<>>
            <4>1. array[a].capacity > 0
                BY <1>1, <2>2, ValuesAre
            <4>2. Len(A.cells) > 0
                BY <1>1, <4>1 DEF ArrayValues, ArrayRecords
            <4> QED BY <4>2
        <3> QED BY <1>1, <2>2, <3>1, <3>2 DEF ArrayRecords
    <2> QED BY <2>1, <2>2
<1>3. existing' = existing /\ stolen' = stolen
    BY DEF Update
<1>4. /\ ArraysInv' /\ Lost' = Lost
      /\ Value(a)' = A
      /\ \A o \in Arrays \ {a} : Value(o)' = Value(o)
    <2>1. existing \subseteq existing' /\ existing' \subseteq Arrays /\ a \in existing'
        BY <1>3 DEF ArraysInv
    <2> QED BY <1>1, <1>2, <1>3, <2>1, OneBecomes
<1>5. ASSUME Unwritten = {}, Written(A) PROVE Unwritten' = {}
    <2>1. \A o \in Arrays : Written(Value(o))
        BY <1>5, AllWritten
    <2>2. \A o \in Arrays : Value(o)' \in ArrayValues
        BY <1>1, <1>4, ValuesAre
    <2>3. \A o \in Arrays : Written(Value(o)')
        BY <1>4, <1>5, <2>1
    <2> QED BY <2>2, <2>3, AllWrittenNext
<1> QED BY <1>4, <1>5

\* Every edit makes an array of the same or a larger capacity, and of written
\* items if those of every array were.
LEMMA EditsWrite ==
    ASSUME ArraysInv, NEW a \in Arrays, Edit(a)
    PROVE  \E A \in ArrayValues : /\ Update(a, A)
                                  /\ A.capacity >= array[a].capacity
                                  /\ Unwritten = {} => Written(A)
<1> DEFINE A == Value(a)
           B(C) == /\ C \in ArrayValues /\ C.capacity >= array[a].capacity
                   /\ Unwritten = {} => Written(C)
<1>1. A \in ArrayValues /\ A.capacity = array[a].capacity
    BY ValuesAre
<1>2. Unwritten = {} => Written(A)
    BY AllWritten
<1>3. /\ A.length \in Nat /\ A.capacity \in Nat /\ A.length <= A.capacity
    BY <1>1, CellsAreItems
<1>4. /\ Values \subseteq Items /\ \A v \in Values : v # Garbage
    BY ArrayAssumption DEF Items
<1> HIDE DEF A
<1>5. ASSUME NEW v \in Values PROVE B(Add(A, v))
    <2> DEFINE C == Add(A, v)
    <2>1. /\ C \in ArrayValues /\ C.length = A.length + 1
          /\ C.capacity >= A.capacity
          /\ \A j \in 1 .. A.length : C.cells[j] = A.cells[j]
          /\ C.cells[A.length + 1] = v
        BY <1>1, <1>4, Added
    <2> HIDE DEF C
    <2>2. ASSUME Written(A) PROVE Written(C)
        <3>1. ASSUME NEW j \in 1 .. C.length PROVE C.cells[j] # Garbage
            <4>1. CASE j = A.length + 1
                BY <1>4, <2>1, <4>1
            <4>2. CASE j # A.length + 1
                <5>1. j \in 1 .. A.length
                    BY <1>3, <2>1, <4>2
                <5> QED BY <2>1, <2>2, <5>1 DEF Written
            <4> QED BY <4>1, <4>2
        <3> QED BY <3>1 DEF Written
    <2>3. B(C)
        BY <1>1, <1>2, <2>1, <2>2
    <2> QED BY <2>3 DEF C
<1>6. ASSUME NEW n \in 0 .. A.length PROVE B(TruncateTo(A, n))
    <2> DEFINE C == TruncateTo(A, n)
    <2>1. /\ C \in ArrayValues /\ C.length = n /\ C.capacity = A.capacity
          /\ C.cells = A.cells
        BY <1>1, Truncated
    <2> HIDE DEF C
    <2>2. \A j \in 1 .. C.length : j \in 1 .. A.length
        BY <1>3, <2>1
    <2>3. Written(A) => Written(C)
        BY <2>1, <2>2 DEF Written
    <2>4. B(C)
        BY <1>1, <1>2, <1>3, <2>1, <2>3
    <2> QED BY <2>4 DEF C
<1>7. ASSUME NEW v \in Values, NEW i \in 0 .. A.length, NEW n \in Nat
      PROVE  B(FillWith(A, v, i, n))
    <2> DEFINE C == FillWith(A, v, i, n)
    <2>1. /\ C \in ArrayValues /\ C.length = i + n
          /\ C.capacity >= A.capacity
          /\ \A j \in 1 .. i : C.cells[j] = A.cells[j]
          /\ \A j \in (i + 1) .. (i + n) : C.cells[j] = v
        BY <1>1, <1>4, Filled
    <2> HIDE DEF C
    <2>2. ASSUME Written(A) PROVE Written(C)
        <3>1. ASSUME NEW j \in 1 .. C.length PROVE C.cells[j] # Garbage
            <4>1. CASE j <= i
                <5>1. j \in 1 .. A.length /\ j \in 1 .. i
                    BY <1>3, <4>1
                <5> QED BY <2>1, <2>2, <5>1 DEF Written
            <4>2. CASE ~(j <= i)
                <5>1. j \in (i + 1) .. (i + n)
                    BY <1>3, <2>1, <4>2
                <5> QED BY <1>4, <2>1, <5>1
            <4> QED BY <4>1, <4>2
        <3> QED BY <3>1 DEF Written
    <2>3. B(C)
        BY <1>1, <1>2, <2>1, <2>2
    <2> QED BY <2>3 DEF C
<1>8. ASSUME NEW v \in Values, NEW n \in Nat PROVE B(EnsureLength(A, n, v))
    <2> DEFINE C == EnsureLength(A, n, v)
               m == n - A.length
    <2>1. /\ C \in ArrayValues /\ C.capacity >= A.capacity
          /\ C.length = IF A.length >= n THEN A.length ELSE n
          /\ \A j \in 1 .. A.length : C.cells[j] = A.cells[j]
          /\ \A j \in 1 .. m : C.cells[A.length + j] = v
        BY <1>1, <1>4, Ensured
    <2> HIDE DEF C
    <2>2. ASSUME Written(A) PROVE Written(C)
        <3>1. ASSUME NEW j \in 1 .. C.length PROVE C.cells[j] # Garbage
            <4>1. CASE j <= A.length
                <5>1. j \in 1 .. A.length
                    BY <4>1
                <5> QED BY <2>1, <2>2, <5>1 DEF Written
            <4>2. CASE ~(j <= A.length)
                <5> DEFINE l == j - A.length
                <5>1. l \in 1 .. m /\ A.length + l = j
                    BY <1>3, <2>1, <4>2
                <5> HIDE DEF l, m
                <5>2. C.cells[A.length + l] = v
                    BY <2>1, <5>1
                <5> QED BY <1>4, <5>1, <5>2
            <4> QED BY <4>1, <4>2
        <3> QED BY <3>1 DEF Written
    <2>3. B(C)
        BY <1>1, <1>2, <2>1, <2>2
    <2> QED BY <2>3 DEF C
<1>9. ASSUME NEW src \in existing PROVE B(AddArray(A, Value(src)))
    <2> DEFINE S == Value(src)
    <2>1. S \in ArrayValues /\ (Unwritten = {} => Written(S))
        BY ValuesAre, AllWritten DEF ArraysInv
    <2> HIDE DEF S
    <2>2. S.length \in Nat
        BY <2>1, CellsAreItems
    <2> DEFINE C == AddArray(A, S)
    <2>3. /\ C \in ArrayValues /\ C.length = A.length + S.length
          /\ C.capacity >= A.capacity
          /\ \A j \in 1 .. A.length : C.cells[j] = A.cells[j]
          /\ \A j \in 1 .. S.length : C.cells[A.length + j] = S.cells[j]
        BY <1>1, <2>1, Joined
    <2> HIDE DEF C
    <2>4. ASSUME Written(A), Written(S) PROVE Written(C)
        <3>1. ASSUME NEW j \in 1 .. C.length PROVE C.cells[j] # Garbage
            <4>1. CASE j <= A.length
                <5>1. j \in 1 .. A.length
                    BY <4>1
                <5> QED BY <2>3, <2>4, <5>1 DEF Written
            <4>2. CASE ~(j <= A.length)
                <5> DEFINE l == j - A.length
                <5>1. l \in 1 .. S.length /\ A.length + l = j
                    BY <1>3, <2>2, <2>3, <4>2
                <5> HIDE DEF l
                <5>2. C.cells[A.length + l] = S.cells[l]
                    BY <2>3, <5>1
                <5> QED BY <2>4, <5>1, <5>2 DEF Written
            <4> QED BY <4>1, <4>2
        <3> QED BY <3>1 DEF Written
    <2>5. B(C)
        BY <1>1, <1>2, <2>1, <2>3, <2>4
    <2> QED BY <2>5 DEF C, S
<1>10. ASSUME NEW v \in Values, NEW i \in 0 .. A.length
       PROVE  B(InsertAt(A, i, v))
    <2> DEFINE C == InsertAt(A, i, v)
    <2>1. /\ C \in ArrayValues /\ C.length = A.length + 1
          /\ C.capacity >= A.capacity
          /\ \A j \in 1 .. i : C.cells[j] = A.cells[j]
          /\ C.cells[i + 1] = v
          /\ \A j \in (i + 1) .. A.length : C.cells[j + 1] = A.cells[j]
        BY <1>1, <1>4, Inserted
    <2> HIDE DEF C
    <2>2. ASSUME Written(A) PROVE Written(C)
        <3>1. ASSUME NEW j \in 1 .. C.length PROVE C.cells[j] # Garbage
            <4>1. CASE j <= i
                <5>1. j \in 1 .. A.length /\ j \in 1 .. i
                    BY <1>3, <4>1
                <5> QED BY <2>1, <2>2, <5>1 DEF Written
            <4>2. CASE j = i + 1
                BY <1>4, <2>1, <4>2
            <4>3. CASE ~(j <= i \/ j = i + 1)
                <5> DEFINE l == j - 1
                <5>1. l \in (i + 1) .. A.length /\ l + 1 = j /\ l \in 1 .. A.length
                    BY <1>3, <2>1, <4>3
                <5> HIDE DEF l
                <5>2. C.cells[l + 1] = A.cells[l]
                    BY <2>1, <5>1
                <5> QED BY <2>2, <5>1, <5>2 DEF Written
            <4> QED BY <4>1, <4>2, <4>3
        <3> QED BY <3>1 DEF Written
    <2>3. B(C)
        BY <1>1, <1>2, <2>1, <2>2
    <2> QED BY <2>3 DEF C
\* A whose items are items of A.
<1>11. ASSUME NEW C \in ArrayValues, C.capacity = A.capacity,
              NEW place, \A j \in 1 .. C.length : /\ place[j] \in 1 .. A.length
                                                  /\ C.cells[j] = A.cells[place[j]]
       PROVE  B(C)
    <2>1. Written(A) => Written(C)
        BY <1>11 DEF Written
    <2> QED BY <1>1, <1>2, <1>3, <1>11, <2>1
<1>12. ASSUME NEW i \in 0 .. (A.length - 1), NEW l \in 0 .. (A.length - 1)
       PROVE  B(Swap(A, i, l))
    <2> DEFINE C == Swap(A, i, l)
               place == [j \in 1 .. A.length |->
                           IF j = l + 1 THEN i + 1 ELSE IF j = i + 1 THEN l + 1 ELSE j]
    <2>1. i \in Nat /\ l \in Nat /\ i < A.capacity /\ l < A.capacity
        BY <1>3
    <2>2. /\ C \in ArrayValues /\ C.length = A.length /\ C.capacity = A.capacity
          /\ \A j \in 1 .. A.capacity :
               C.cells[j] = IF j = l + 1 THEN A.cells[i + 1]
                            ELSE IF j = i + 1 THEN A.cells[l + 1] ELSE A.cells[j]
        BY <1>1, <2>1, SwapCell
    <2> HIDE DEF C
    <2>3. \A j \in 1 .. C.length : /\ place[j] \in 1 .. A.length
                                   /\ C.cells[j] = A.cells[place[j]]
        BY <1>3, <2>2
    <2> HIDE DEF place
    <2>4. B(C)
        BY <1>11, <2>2, <2>3
    <2> QED BY <2>4 DEF C
<1>13. B(Reverse(A))
    <2> DEFINE C == Reverse(A)
               place == [j \in 1 .. A.length |-> A.length + 1 - j]
    <2>1. /\ C \in ArrayValues /\ C.length = A.length /\ C.capacity = A.capacity
          /\ \A j \in 1 .. A.length : C.cells[j] = A.cells[A.length + 1 - j]
        BY <1>1, Reversed
    <2> HIDE DEF C
    <2>2. \A j \in 1 .. C.length : /\ place[j] \in 1 .. A.length
                                   /\ C.cells[j] = A.cells[place[j]]
        BY <1>3, <2>1
    <2> HIDE DEF place
    <2>3. B(C)
        BY <1>11, <2>1, <2>2
    <2> QED BY <2>3 DEF C
<1>14. ASSUME NEW p \in [1 .. A.length -> 1 .. A.length] PROVE B(Sort(A, p))
    <2> DEFINE C == Sort(A, p)
    <2>1. /\ C \in ArrayValues /\ C.length = A.length /\ C.capacity = A.capacity
          /\ \A j \in 1 .. A.length : C.cells[j] = A.cells[p[j]]
        BY <1>1, Sorted
    <2> HIDE DEF C
    <2>2. \A j \in 1 .. C.length : /\ p[j] \in 1 .. A.length
                                   /\ C.cells[j] = A.cells[p[j]]
        BY <2>1
    <2>3. B(C)
        BY <1>11, <2>1, <2>2
    <2> QED BY <2>3 DEF C
<1>15. ASSUME NEW i \in 0 .. (A.length - 1) PROVE B(RemoveAt(A, i))
    <2> DEFINE C == RemoveAt(A, i)
               place == [j \in 1 .. A.length |-> IF j = i + 1 THEN A.length ELSE j]
    <2>1. /\ C \in ArrayValues /\ C.length = A.length - 1 /\ C.capacity = A.capacity
          /\ \A j \in 1 .. (A.length - 1) :
               C.cells[j] = A.cells[IF j = i + 1 THEN A.length ELSE j]
        BY <1>1, Removed
    <2> HIDE DEF C
    <2>2. \A j \in 1 .. C.length : /\ place[j] \in 1 .. A.length
                                   /\ C.cells[j] = A.cells[place[j]]
        BY <1>3, <2>1
    <2> HIDE DEF place
    <2>3. B(C)
        BY <1>11, <2>1, <2>2
    <2> QED BY <2>3 DEF C
<1>16. ASSUME NEW i \in 0 .. (A.length - 1) PROVE B(EraseAt(A, i))
    <2> DEFINE C == EraseAt(A, i)
               place == [j \in 1 .. A.length |-> IF j <= i THEN j ELSE j + 1]
    <2>1. /\ C \in ArrayValues /\ C.length = A.length - 1 /\ C.capacity = A.capacity
          /\ \A j \in 1 .. i : C.cells[j] = A.cells[j]
          /\ \A j \in (i + 1) .. (A.length - 1) : C.cells[j] = A.cells[j + 1]
        BY <1>1, Erased
    <2> HIDE DEF C
    <2>2. ASSUME NEW j \in 1 .. C.length
          PROVE  place[j] \in 1 .. A.length /\ C.cells[j] = A.cells[place[j]]
        <3>1. j \in 1 .. A.length /\ j \in 1 .. (A.length - 1)
            BY <1>3, <2>1
        <3>2. CASE j <= i
            <4>1. j \in 1 .. i /\ place[j] = j
                BY <3>1, <3>2
            <4> QED BY <2>1, <3>1, <4>1
        <3>3. CASE ~(j <= i)
            <4>1. j \in (i + 1) .. (A.length - 1) /\ place[j] = j + 1 /\ j + 1 \in 1 .. A.length
                BY <1>3, <3>1, <3>3
            <4> QED BY <2>1, <4>1
        <3> QED BY <3>2, <3>3
    <2> HIDE DEF place
    <2>3. B(C)
        BY <1>11, <2>1, <2>2
    <2> QED BY <2>3 DEF C
<1>17. \E C : Update(a, C) /\ B(C)
    <2> HIDE DEF B
    <2>1. 0 .. MaxCells \subseteq Nat /\ 0 \in 0 .. A.length
          /\ (A.length > 0 => A.length - 1 \in 0 .. A.length)
        BY <1>3
    <2>2. \/ \E v \in Values : Update(a, Add(A, v))
          \/ A.length > 0 /\ Update(a, TruncateTo(A, A.length - 1))
          \/ \E n \in 0 .. A.length : Update(a, TruncateTo(A, n))
          \/ Update(a, TruncateTo(A, 0))
          \/ \E v \in Values, i \in 0 .. A.length, n \in 0 .. MaxCells :
                 Update(a, FillWith(A, v, i, n))
          \/ \E v \in Values, n \in 0 .. MaxCells : Update(a, EnsureLength(A, n, v))
          \/ \E src \in existing \ {a} : Update(a, AddArray(A, Value(src)))
          \/ \E v \in Values, i \in 0 .. A.length : Update(a, InsertAt(A, i, v))
          \/ \E i, j \in 0 .. (A.length - 1) : Update(a, Swap(A, i, j))
          \/ Update(a, Reverse(A))
          \/ \E p \in [1 .. A.length -> 1 .. A.length] : Update(a, Sort(A, p))
          \/ \E i \in 0 .. (A.length - 1) : Update(a, RemoveAt(A, i))
          \/ \E i \in 0 .. (A.length - 1) : Update(a, EraseAt(A, i))
        BY DEF Edit, RemoveLast, Clear, Sortings, A
    <2>3. CASE \E v \in Values : Update(a, Add(A, v))
        BY <1>5, <2>3
    <2>4. CASE A.length > 0 /\ Update(a, TruncateTo(A, A.length - 1))
        BY <1>6, <2>1, <2>4
    <2>5. CASE \E n \in 0 .. A.length : Update(a, TruncateTo(A, n))
        BY <1>6, <2>5
    <2>6. CASE Update(a, TruncateTo(A, 0))
        BY <1>6, <2>1, <2>6
    <2>7. CASE \E v \in Values, i \in 0 .. A.length, n \in 0 .. MaxCells :
                 Update(a, FillWith(A, v, i, n))
        BY <1>7, <2>1, <2>7
    <2>8. CASE \E v \in Values, n \in 0 .. MaxCells : Update(a, EnsureLength(A, n, v))
        BY <1>8, <2>1, <2>8
    <2>9. CASE \E src \in existing \ {a} : Update(a, AddArray(A, Value(src)))
        BY <1>9, <2>9
    <2>10. CASE \E v \in Values, i \in 0 .. A.length : Update(a, InsertAt(A, i, v))
        BY <1>10, <2>10
    <2>11. CASE \E i, j \in 0 .. (A.length - 1) : Update(a, Swap(A, i, j))
        BY <1>12, <2>11
    <2>12. CASE Update(a, Reverse(A))
        BY <1>13, <2>12
    <2>13. CASE \E p \in [1 .. A.length -> 1 .. A.length] : Update(a, Sort(A, p))
        BY <1>14, <2>13
    <2>14. CASE \E i \in 0 .. (A.length - 1) : Update(a, RemoveAt(A, i))
        BY <1>15, <2>14
    <2>15. CASE \E i \in 0 .. (A.length - 1) : Update(a, EraseAt(A, i))
        BY <1>16, <2>15
    <2> QED BY <2>2, <2>3, <2>4, <2>5, <2>6, <2>7, <2>8, <2>9, <2>10, <2>11,
               <2>12,
               <2>13, <2>14, <2>15
<1> QED BY <1>17

-----------------------------------------------------------------------------
(* The steps.                                                              *)

\* The same arrays and blocks, the blocks handed from one array to another.
LEMMA Handed ==
    ASSUME ArraysInv, NEW a \in Arrays, NEW o \in Arrays, a # o,
           o \in existing, heap' = heap, stolen' = stolen,
           existing' = existing \cup {a},
           array' = [array EXCEPT ![a] = array[o], ![o] = array[a]]
    PROVE  ArraysInv' /\ Lost' = Lost /\ (Unwritten = {} => Unwritten' = {})
<1> DEFINE with(x) == IF x = a THEN o ELSE IF x = o THEN a ELSE x
<1>1. /\ array' \in [Arrays -> ArrayRecords]
      /\ \A x \in Arrays : array'[x] = array[with(x)] /\ with(x) \in Arrays
      /\ \A x, y \in Arrays : x # y => with(x) # with(y)
    BY DEF ArraysInv
<1>2. Allocated' = Allocated
    BY DEF Allocated
<1>3. \A x \in Arrays : array'[x].data # Null => x \in existing'
    BY <1>1 DEF ArraysInv, BlocksHaveOneOwner
<1> HIDE DEF with
<1>4. \A x \in Arrays : Value(x)' = Value(with(x))
    BY <1>1 DEF Value, Cells
<1>5. ItemsFit'
    BY <1>1 DEF ArraysInv, ItemsFit, Cells
<1>6. BlocksHaveOneOwner'
    <2>1. ASSUME NEW x \in Arrays, array'[x].data # Null
          PROVE  /\ array'[x].data \in Allocated \ stolen
                 /\ \A other \in Arrays \ {x} : array'[other].data # array'[x].data
        BY <1>1, <2>1 DEF ArraysInv, BlocksHaveOneOwner
    <2> QED BY <1>2, <1>3, <2>1 DEF ArraysInv, BlocksHaveOneOwner
<1>7. Lost' = Lost
    <2>1. {array[x].data : x \in Arrays}' = {array[x].data : x \in Arrays}
        <3>1. \A x \in Arrays : with(x) \in Arrays /\ array'[with(x)] = array[x]
            BY <1>1 DEF with
        <3>2. \A x \in Arrays : array'[x].data \in {array[y].data : y \in Arrays}
            BY <1>1
        <3>3. \A x \in Arrays : array[x].data \in {array'[y].data : y \in Arrays}
            BY <3>1
        <3> QED BY <3>2, <3>3
    <2> QED BY <1>2, <2>1 DEF Lost
<1>8. ASSUME Unwritten = {} PROVE Unwritten' = {}
    <2>1. \A x \in Arrays : Written(Value(x)) /\ Value(x) \in ArrayValues
        BY <1>8, AllWritten, ValuesAre
    <2> QED BY <1>1, <1>4, <2>1, AllWrittenNext
<1> QED BY <1>1, <1>3, <1>5, <1>6, <1>7, <1>8 DEF ArraysInv

\* Array a becomes Nothing, and its block is freed or given away.
LEMMA OneLeaves ==
    ASSUME ArraysInv, NEW a \in Arrays, existing' \subseteq existing,
           existing \ {a} \subseteq existing',
           array' = [array EXCEPT ![a] = Nothing],
           \/ /\ heap' = heap
              /\ stolen' = stolen \cup ({array[a].data} \ {Null})
           \/ /\ heap' = [b \in Blocks |-> IF b = array[a].data THEN <<>> ELSE heap[b]]
              /\ stolen' = stolen
    PROVE  ArraysInv' /\ Lost' = Lost /\ (Unwritten = {} => Unwritten' = {})
<1> DEFINE d == array[a].data
<1>1. /\ array' \in [Arrays -> ArrayRecords]
      /\ array'[a] = Nothing
      /\ \A x \in Arrays \ {a} : array'[x] = array[x]
    BY DEF ArraysInv, ArrayRecords, Nothing
<1>2. /\ d \in Blocks \cup {Null} /\ (d # Null => d \in Allocated \ stolen)
      /\ \A x \in Arrays \ {a} : array[x].data # Null => array[x].data # d
    BY DEF ArraysInv, ArrayRecords, BlocksHaveOneOwner
<1>3. heap' \in [Blocks -> Seq(Items)] /\ \A b \in Blocks : b # d => heap'[b] = heap[b]
    <2>1. heap \in [Blocks -> Seq(Items)]
        BY DEF ArraysInv
    <2>2. <<>> \in Seq(Items)
        OBVIOUS
    <2> HIDE DEF d
    <2>3. \/ heap' = heap
          \/ heap' = [b \in Blocks |-> IF b = d THEN <<>> ELSE heap[b]]
        BY DEF d
    <2> QED BY <2>1, <2>2, <2>3
<1>4. \/ Allocated' = Allocated /\ stolen' = stolen \cup ({d} \ {Null})
      \/ Allocated' = Allocated \ {d} /\ stolen' = stolen
    BY DEF Allocated, ArraysInv
<1> HIDE DEF d
<1>5. \A x \in Arrays \ {a} : Value(x)' = Value(x) /\ Cells(array[x].data)' = Cells(array[x].data)
    <2>1. \A x \in Arrays : array[x].data \in Blocks \cup {Null}
        BY DEF ArraysInv, ArrayRecords
    <2> QED BY <1>1, <1>2, <1>3, <2>1 DEF Value, Cells
<1>6. Value(a)' = Empty
    BY <1>1 DEF Value, Nothing, Cells, Empty
<1>7. ItemsFit'
    <2>1. ASSUME NEW x \in Arrays
          PROVE  /\ array'[x].length <= array'[x].capacity
                 /\ array'[x].capacity = Len(Cells(array[x].data)')
        <3>1. CASE x = a
            BY <1>1, <3>1 DEF Nothing, Cells
        <3>2. CASE x # a
            BY <1>1, <1>5, <3>2 DEF ArraysInv, ItemsFit
        <3> QED BY <3>1, <3>2
    <2> QED BY <2>1 DEF ItemsFit
<1>8. BlocksHaveOneOwner'
    <2>1. stolen' \subseteq Allocated'
        <3>1. stolen \subseteq Allocated /\ Null \notin Allocated
            BY ArrayAssumption DEF ArraysInv, BlocksHaveOneOwner, Allocated
        <3> QED BY <1>2, <1>4, <3>1
    <2>2. ASSUME NEW x \in Arrays, array'[x].data # Null
          PROVE  /\ x \in existing' /\ array'[x].data \in Allocated' \ stolen'
                 /\ \A other \in Arrays \ {x} : array'[other].data # array'[x].data
        <3>1. x # a /\ array'[x] = array[x]
            BY <1>1, <2>2 DEF Nothing
        <3>2. /\ x \in existing /\ array[x].data \in Allocated \ stolen
              /\ \A other \in Arrays \ {x} : array[other].data # array[x].data
            BY <2>2, <3>1 DEF ArraysInv, BlocksHaveOneOwner
        <3>3. array[x].data # d
            BY <1>2, <2>2, <3>1
        <3>4. array'[a].data = Null
            BY <1>1 DEF Nothing
        <3> QED BY <1>1, <1>4, <2>2, <3>1, <3>2, <3>3, <3>4
    <2> QED BY <2>1, <2>2 DEF BlocksHaveOneOwner
<1>9. Lost' = Lost
    <2> DEFINE Owned == {array[x].data : x \in Arrays}
    <2>1. Owned' \cup {d} \cup {Null} = Owned \cup {Null}
        <3>1. \A x \in Arrays : array'[x].data = Null \/ array'[x].data \in Owned
            BY <1>1 DEF Nothing
        <3>2. \A x \in Arrays : array[x].data = d \/ array[x].data \in Owned'
            BY <1>1 DEF d
        <3>3. d \in Owned
            BY DEF d
        <3> QED BY <3>1, <3>2, <3>3
    <2>2. d = Null \/ d \notin Owned'
        BY <1>1, <1>2 DEF Nothing
    <2>3. Null \notin Allocated
        BY ArrayAssumption DEF Allocated
    <2>4. Lost' = Allocated' \ (stolen' \cup Owned')
        BY DEF Lost
    <2>5. Lost = Allocated \ (stolen \cup Owned)
        BY DEF Lost
    <2> HIDE DEF Owned
    <2> QED BY <1>4, <2>1, <2>2, <2>3, <2>4, <2>5
<1>10. ASSUME Unwritten = {} PROVE Unwritten' = {}
    <2>1. \A x \in Arrays : Written(Value(x)) /\ Value(x) \in ArrayValues
        BY <1>10, AllWritten, ValuesAre
    <2>2. Empty \in ArrayValues /\ Written(Empty)
        BY DEF Empty, ArrayValues, Written
    <2>3. \A x \in Arrays : Value(x)' \in ArrayValues /\ Written(Value(x)')
        BY <1>5, <1>6, <2>1, <2>2
    <2> QED BY <2>3, AllWrittenNext
<1>11. existing' \subseteq Arrays
    BY DEF ArraysInv
<1> QED BY <1>1, <1>3, <1>7, <1>8, <1>9, <1>10, <1>11 DEF ArraysInv

\* A stolen block is freed.
LEMMA StolenIsFreed ==
    ASSUME ArraysInv, NEW b \in Blocks, FreeStolen(b)
    PROVE  ArraysInv' /\ Lost' = Lost /\ (Unwritten = {} => Unwritten' = {})
<1>1. /\ b \in stolen /\ stolen' = stolen \ {b}
      /\ heap' \in [Blocks -> Seq(Items)] /\ heap'[b] = <<>>
      /\ \A c \in Blocks : c # b => heap'[c] = heap[c]
      /\ existing' = existing /\ array' = array
    BY DEF FreeStolen, ArraysInv
<1>2. Allocated' = Allocated \ {b}
    BY <1>1 DEF Allocated
<1>3. \A x \in Arrays : array[x].data # b /\ array[x].data \in Blocks \cup {Null}
    BY <1>1, ArrayAssumption DEF ArraysInv, ArrayRecords, BlocksHaveOneOwner
<1>4. \A x \in Arrays : Value(x)' = Value(x) /\ Cells(array[x].data)' = Cells(array[x].data)
    BY <1>1, <1>3 DEF Value, Cells
<1>5. ItemsFit'
    BY <1>1, <1>4 DEF ItemsFit, ArraysInv
<1>6. BlocksHaveOneOwner'
    BY <1>1, <1>2, <1>3 DEF BlocksHaveOneOwner, ArraysInv
<1>7. Lost' = Lost
    <2>1. b \in Allocated
        BY <1>1 DEF ArraysInv, BlocksHaveOneOwner
    <2> QED BY <1>1, <1>2, <1>3 DEF Lost
<1>8. ASSUME Unwritten = {} PROVE Unwritten' = {}
    <2>1. \A x \in Arrays : Written(Value(x)) /\ Value(x) \in ArrayValues
        BY <1>8, AllWritten, ValuesAre
    <2> QED BY <1>4, <2>1, AllWrittenNext
<1> QED BY <1>1, <1>5, <1>6, <1>7, <1>8 DEF ArraysInv

\* What an array is made of at first.
LEMMA NewValue ==
    ASSUME NEW n \in Nat
    PROVE  /\ Constructed(n) \in ArrayValues
           /\ Constructed(n).length = 0
<1> DEFINE c == IF n > 0 THEN RoundUpToPowerOfTwo(n) ELSE 0
           u == Uninitialized(c)
<1>1. c \in Nat
    BY RoundedUp
<1> HIDE DEF c
<1>2. u \in Seq(Items) /\ Len(u) = c
    BY <1>1 DEF Uninitialized, Items
<1> HIDE DEF u
<1>3. Constructed(n) = [length |-> 0, capacity |-> c, cells |-> u]
    BY DEF Constructed, c, u
<1> QED BY <1>1, <1>2, <1>3 DEF ArrayValues

\* An array is constructed.
LEMMA OneIsConstructed ==
    ASSUME ArraysInv, NEW a \in Arrays, NEW n \in Nat, Construct(a, n)
    PROVE  ArraysInv' /\ Lost' = Lost /\ (Unwritten = {} => Unwritten' = {})
<1> DEFINE A == Constructed(n)
<1>1. A \in ArrayValues /\ A.length = 0
    BY NewValue
<1> HIDE DEF A
<1>2. array[a].data = Null /\ stolen' = stolen /\ existing' = existing \cup {a}
    BY DEF Construct, ArraysInv, BlocksHaveOneOwner
<1>3. PICK b \in Blocks \cup {Null} :
         Become(a, A, b) /\ (A.cells = <<>> <=> b = Null) /\ (b = Null \/ b \notin Allocated)
    <2>1. PICK b \in IF A.cells = <<>> THEN {Null} ELSE Blocks \ Allocated : Become(a, A, b)
        BY DEF Construct, Allocate, A
    <2>2. CASE A.cells = <<>>
        BY <2>1, <2>2
    <2>3. CASE A.cells # <<>>
        BY <2>1, <2>3, ArrayAssumption
    <2> QED BY <2>2, <2>3
<1>4. /\ existing \subseteq existing' /\ existing' \subseteq Arrays /\ a \in existing'
      /\ b = array[a].data \/ b \notin Allocated
      /\ array[a].data \in {b, Null}
    BY <1>2, <1>3 DEF ArraysInv
<1>5. /\ ArraysInv' /\ Lost' = Lost
      /\ Value(a)' = A
      /\ \A o \in Arrays \ {a} : Value(o)' = Value(o)
    BY <1>1, <1>2, <1>3, <1>4, OneBecomes
<1>6. ASSUME Unwritten = {} PROVE Unwritten' = {}
    <2>1. \A o \in Arrays : Written(Value(o)) /\ Value(o) \in ArrayValues
        BY <1>6, AllWritten, ValuesAre
    <2>2. Written(A)
        BY <1>1 DEF Written
    <2> QED BY <1>1, <1>5, <2>1, <2>2, AllWrittenNext
<1> QED BY <1>5, <1>6

\* SetLength.
LEMMA LengthIsSet ==
    ASSUME ArraysInv, NEW a \in Arrays, NEW n \in Nat, CallSetLength(a, n)
    PROVE  /\ ArraysInv'
           /\ n = 0 => Lost' = Lost /\ (Unwritten = {} => Unwritten' = {})
<1> DEFINE A == SetLength(Value(a), n)
<1>1. /\ array[a] \in ArrayRecords /\ a \in existing
      /\ existing' = existing /\ stolen' = stolen
    BY DEF CallSetLength, ArraysInv
<1>2. existing \subseteq existing' /\ existing' \subseteq Arrays /\ a \in existing'
    BY <1>1 DEF ArraysInv
<1>3. CASE n > array[a].capacity
    <2>1. A = [length |-> n, capacity |-> n, cells |-> Uninitialized(n)]
        BY <1>1, <1>3, ValuesAre DEF SetLength, ArrayRecords
    <2>2. Uninitialized(n) \in Seq(Items) /\ Len(Uninitialized(n)) = n
        BY DEF Uninitialized, Items
    <2>3. n > 0
        BY <1>1, <1>3 DEF ArrayRecords
    <2> DEFINE u == Uninitialized(n)
    <2>4. u # <<>> /\ u \in Seq(Items) /\ Len(u) = n
        BY <2>2, <2>3
    <2> HIDE DEF u
    <2>5. A = [length |-> n, capacity |-> n, cells |-> u]
        BY <2>1 DEF u
    <2> HIDE DEF A
    <2>6. A \in ArrayValues /\ A.cells # <<>>
        BY <2>4, <2>5 DEF ArrayValues
    <2>7. PICK b \in Blocks \ Allocated : Become(a, A, b)
        BY <1>3, <2>6 DEF CallSetLength, Allocate, A
    <2>8. b \in Blocks \cup {Null} /\ (A.cells = <<>> <=> b = Null)
        BY <2>6, <2>7, ArrayAssumption
    <2>9. ArraysInv'
        BY <1>1, <1>2, <2>6, <2>7, <2>8, OneBecomes
    <2> QED BY <2>3, <2>9
<1>4. CASE ~(n > array[a].capacity)
    <2> DEFINE V == Value(a)
               b == array[a].data
    <2>1. /\ V \in ArrayValues /\ V.capacity = array[a].capacity
          /\ V.cells = Cells(b)
          /\ b = Null => V.capacity = 0
          /\ b # Null => V.capacity > 0
        BY ValuesAre
    <2>2. A = [V EXCEPT !.length = n]
        BY <1>1, <1>4, <2>1 DEF SetLength, ArrayRecords
    <2> HIDE DEF V, A
    <2>3. A \in ArrayValues /\ A.cells = V.cells /\ A.length = n
        BY <1>1, <1>4, <2>1, <2>2 DEF ArrayValues, ArrayRecords
    <2>4. A.cells = <<>> <=> b = Null
        BY <2>1, <2>3 DEF ArrayValues, Cells
    <2>5. Become(a, A, b)
        BY <1>4 DEF CallSetLength, A
    <2>6. b \in Blocks \cup {Null} /\ array[a].data \in {b, Null}
        BY <1>1 DEF ArrayRecords
    <2>7. /\ ArraysInv' /\ Lost' = Lost
          /\ Value(a)' = A
          /\ \A o \in Arrays \ {a} : Value(o)' = Value(o)
        BY <1>1, <1>2, <2>3, <2>4, <2>5, <2>6, OneBecomes
    <2>8. ASSUME n = 0, Unwritten = {} PROVE Unwritten' = {}
        <3>1. \A o \in Arrays : Written(Value(o)) /\ Value(o) \in ArrayValues
            BY <2>8, AllWritten, ValuesAre
        <3>2. Written(A)
            BY <2>3, <2>8 DEF Written
        <3> QED BY <2>3, <2>7, <3>1, <3>2, AllWrittenNext
    <2> QED BY <2>7, <2>8
<1> QED BY <1>3, <1>4

\* Every step keeps the invariant; it loses a block, or leaves an item of no
\* value, only where it is SetLength.
LEMMA ArraysStep ==
    ASSUME ArraysInv, [ArraysNext]_arrays
    PROVE  /\ ArraysInv'
           /\ \/ Lost' = Lost /\ (Unwritten = {} => Unwritten' = {})
              \/ \E a \in Arrays, n \in 1 .. MaxCells : CallSetLength(a, n)
<1> DEFINE Keeps == ArraysInv' /\ Lost' = Lost /\ (Unwritten = {} => Unwritten' = {})
<1>1. CASE UNCHANGED arrays
    BY <1>1
       DEF arrays, ArraysInv, ItemsFit, BlocksHaveOneOwner, Cells, Allocated,
                Lost, Unwritten, Value
<1>2. ASSUME NEW a \in Arrays, NEW n \in 0 .. MaxCells, Construct(a, n)
      PROVE  Keeps
    BY <1>2, OneIsConstructed
<1>3. ASSUME NEW a \in Arrays, NEW n \in 0 .. MaxCells, CallSetLength(a, n)
      PROVE  ArraysInv' /\ (Keeps \/ n \in 1 .. MaxCells)
    <2>1. n \in Nat /\ (n = 0 \/ n \in 1 .. MaxCells)
        BY ArrayAssumption
    <2> QED BY <1>3, <2>1, LengthIsSet
<1>4. ASSUME NEW a \in Arrays, NEW o \in Arrays \ {a}, MoveConstruct(a, o)
      PROVE  Keeps
    <2>1. array[a] = Nothing
        <3>1. array[a].data = Null /\ array[a] \in ArrayRecords
            BY <1>4 DEF MoveConstruct, ArraysInv, BlocksHaveOneOwner
        <3>2. array[a].length = 0 /\ array[a].capacity = 0
            BY <3>1, ValuesAre
        <3> QED BY <3>1, <3>2 DEF ArrayRecords, Nothing
    <2> QED BY <1>4, <2>1, Handed DEF MoveConstruct
<1>5. ASSUME NEW a \in Arrays, NEW o \in Arrays \ {a}, MoveAssign(a, o)
      PROVE  Keeps
    <2>1. existing' = existing \cup {a}
        BY <1>5 DEF MoveAssign
    <2> QED BY <1>5, <2>1, Handed DEF MoveAssign
<1>6. ASSUME NEW a \in Arrays, Destruct(a) PROVE Keeps
    BY <1>6, OneLeaves DEF Destruct
<1>7. ASSUME NEW a \in Arrays, StealBuffer(a) PROVE Keeps
    BY <1>7, OneLeaves DEF StealBuffer
<1>8. ASSUME NEW a \in Arrays, Edit(a) PROVE Keeps
    <2>1. PICK A \in ArrayValues : /\ Update(a, A)
                                   /\ A.capacity >= array[a].capacity
                                   /\ Unwritten = {} => Written(A)
        BY <1>8, EditsWrite
    <2>2. a \in existing
        BY <1>8 DEF Edit
    <2> QED BY <2>1, <2>2, OneIsUpdated
<1>9. ASSUME NEW b \in Blocks, FreeStolen(b) PROVE Keeps
    BY <1>9, StolenIsFreed
<1> QED BY <1>1, <1>2, <1>3, <1>4, <1>5, <1>6, <1>7, <1>8, <1>9 DEF ArraysNext

\* There are no arrays at first.
LEMMA ArraysBegin == ArraysInit => ArraysInv
<1> SUFFICES ASSUME ArraysInit PROVE ArraysInv
    OBVIOUS
<1>1. array \in [Arrays -> ArrayRecords]
    BY DEF ArraysInit, Nothing, ArrayRecords
<1>2. heap \in [Blocks -> Seq(Items)]
    BY DEF ArraysInit
<1> QED BY <1>1, <1>2
        DEF ArraysInit, ArraysInv, ItemsFit, BlocksHaveOneOwner, Cells,
            Nothing

\* The invariant of the arrays.
LEMMA ArraysInvariant == ArraysSpec => []ArraysInv
<1>1. ArraysInv /\ [ArraysNext]_arrays => ArraysInv'
    BY ArraysStep
<1> QED BY <1>1, ArraysBegin, PTL DEF ArraysSpec

\* The invariant says what each call does to the items.
LEMMA InvariantActs == ArraysInv => ActsOnSequence
<1> SUFFICES ASSUME ArraysInv, NEW a \in existing
             PROVE  LET A == Value(a)
                        s == Contents(A)
                    IN /\ Contents(Reverse(A)) = Seqs!Reverse(s)
                       /\ \A v \in Values :
                            /\ Contents(Add(A, v)) = Append(s, v)
                            /\ \A n \in 0 .. MaxCells :
                                 Contents(EnsureLength(A, n, v)) =
                                     s \o [k \in 1 .. (n - A.length) |-> v]
                       /\ \A i \in 0 .. A.length, v \in Values :
                            /\ Contents(InsertAt(A, i, v)) = Seqs!InsertAt(s, i + 1, v)
                            /\ \A n \in 0 .. MaxCells :
                                 Contents(FillWith(A, v, i, n)) =
                                     SubSeq(s, 1, i) \o [k \in 1 .. n |-> v]
                       /\ \A i \in 1 .. A.length :
                            /\ Contents(EraseAt(A, i - 1)) = Seqs!RemoveAt(s, i)
                            /\ Contents(RemoveAt(A, i - 1)) =
                                   Seqs!Front(Seqs!ReplaceAt(s, i, Seqs!Last(s)))
                       /\ \A src \in existing \ {a} :
                            Contents(AddArray(A, Value(src))) = s \o Contents(Value(src))
    BY DEF ActsOnSequence
<1> DEFINE A == Value(a)
<1>1. /\ A \in ArrayValues
      /\ \A src \in existing : Value(src) \in ArrayValues
      /\ Values \subseteq Items
      /\ 0 .. MaxCells \subseteq Nat
    BY ValuesAre DEF ArraysInv, Items
<1> HIDE DEF A
<1>2. /\ Contents(Reverse(A)) = Seqs!Reverse(Contents(A))
      /\ \A v \in Values :
           /\ Contents(Add(A, v)) = Append(Contents(A), v)
           /\ \A n \in 0 .. MaxCells :
                Contents(EnsureLength(A, n, v)) =
                    Contents(A) \o [k \in 1 .. (n - A.length) |-> v]
      /\ \A src \in existing \ {a} :
           Contents(AddArray(A, Value(src))) = Contents(A) \o Contents(Value(src))
    BY <1>1, AppendsToSequence
<1>3. \A i \in 0 .. A.length, v \in Values :
         /\ Contents(InsertAt(A, i, v)) = Seqs!InsertAt(Contents(A), i + 1, v)
         /\ \A n \in 0 .. MaxCells :
              Contents(FillWith(A, v, i, n)) =
                  SubSeq(Contents(A), 1, i) \o [k \in 1 .. n |-> v]
    BY <1>1, InsertsIntoSequence
<1>4. \A i \in 1 .. A.length :
         /\ Contents(EraseAt(A, i - 1)) = Seqs!RemoveAt(Contents(A), i)
         /\ Contents(RemoveAt(A, i - 1)) =
              Seqs!Front(Seqs!ReplaceAt(Contents(A), i, Seqs!Last(Contents(A))))
    BY <1>1, RemovesFromSequence
<1> QED BY <1>2, <1>3, <1>4 DEF A

\* The arrays that were asked for give back what was put into them: each
\* call does to the items what the operator on sequences does, whatever calls
\* of whatever arrays came before (growable_array.h:21-237).
THEOREM CallsActOnSequences == ArraysSpec => []ActsOnSequence
BY ArraysInvariant, InvariantActs, PTL

\* A length never exceeds its capacity, a capacity is the size of the block,
\* and no block has two owners or is used after it was freed.
THEOREM BlocksAreOwnedOnce == ArraysSpec => [](ItemsFit /\ BlocksHaveOneOwner)
<1>1. ArraysInv => ItemsFit /\ BlocksHaveOneOwner
    BY DEF ArraysInv
<1> QED BY <1>1, ArraysInvariant, PTL

\* SetLength of a positive length is the one call that loses a block or makes
\* items of cells that nobody wrote (growable_array.h:218-234).
THEOREM OthersLoseNothing == ArraysSpec => OnlySetLengthLoses
<1>1. ArraysInv /\ [ArraysNext]_arrays =>
        [\/ Lost' = Lost /\ (Unwritten = {} => Unwritten' = {})
         \/ \E a \in Arrays, n \in 1 .. MaxCells : CallSetLength(a, n)]_arrays
    BY ArraysStep
<1> QED BY <1>1, ArraysInvariant, PTL DEF ArraysSpec, OnlySetLengthLoses

=============================================================================
