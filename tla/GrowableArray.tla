---------------------------- MODULE GrowableArray ----------------------------
(***************************************************************************)
(* BaseGrowableArray of src/dart/platform/growable_array.h over malloc     *)
(* (MallocGrowableArray): what each call does to the cells of one array,   *)
(* and who owns the blocks of memory the arrays live in.                   *)
(*                                                                         *)
(* The calls keep to the ASSERTs on their arguments.  An array is its      *)
(* length, its capacity and its cells, cells[i + 1] being data_[i]; the    *)
(* cells of a block just allocated are Garbage.  A block that Realloc      *)
(* grows keeps its name.                                                   *)
(***************************************************************************)
EXTENDS Binary, Sequences, FiniteSetsExt

CONSTANTS
    Arrays, Blocks, Values,
    Garbage,     \* what an uninitialized cell holds
    Null,
    MaxCells     \* BOUND on the cells of all the blocks that are allocated

ASSUME ArrayAssumption ==
    Garbage \notin Values /\ Null \notin Blocks /\ MaxCells \in Nat

Seqs == INSTANCE SequencesExt

\* What n rounds of a loop make of A: round k is Step with k.
Repeat(Step(_, _), A, n) ==
    LET run[k \in 0 .. n] == IF k = 0 THEN A ELSE Step(run[k - 1], k - 1)
    IN  run[n]

-----------------------------------------------------------------------------
(* One array.                                                              *)

\* Utils::RoundUpToPowerOfTwo is defined in the library.
RoundUpToPowerOfTwo(n) ==
    Min({p \in n .. (2 * n) : \E k \in 0 .. n : p = Power[k]})

Uninitialized(n) == [k \in 1 .. n |-> Garbage]
Item(A, i) == A.cells[i + 1]
Put(A, i, v) == [A EXCEPT !.cells[i + 1] = v]
Contents(A) == SubSeq(A.cells, 1, A.length)

Empty == [length |-> 0, capacity |-> 0, cells |-> <<>>]

Constructed(capacity) ==
    LET c == IF capacity > 0 THEN RoundUpToPowerOfTwo(capacity) ELSE 0
    IN [length |-> 0, capacity |-> c, cells |-> Uninitialized(c)]

\* Realloc keeps the cells there were.
Resize(A, n) ==
    IF n <= A.capacity THEN [A EXCEPT !.length = n]
    ELSE LET c == RoundUpToPowerOfTwo(n)
         IN [length |-> n, capacity |-> c,
             cells |-> A.cells \o Uninitialized(c - A.capacity)]

\* MUTANT: the capacity is rounded up, but not what is allocated.
SetLength_Rounded(A, n) ==
    IF n <= A.capacity THEN [A EXCEPT !.length = n]
    ELSE [length |-> n, capacity |-> RoundUpToPowerOfTwo(n),
          cells |-> Uninitialized(n)]

\* Alloc does not.
SetLength(A, n) ==
    IF n <= A.capacity THEN [A EXCEPT !.length = n]
    ELSE [length |-> n, capacity |-> n, cells |-> Uninitialized(n)]

TruncateTo(A, n) == [A EXCEPT !.length = n]
Clear(A) == TruncateTo(A, 0)
RemoveLast(A) == TruncateTo(A, A.length - 1)
Add(A, v) == Put(Resize(A, A.length + 1), A.length, v)

\* The loop of FillWith and of EnsureLength.
Fill(A, start, n, v) == Repeat(LAMBDA B, k : Put(B, start + k, v), A, n)

FillWith(A, v, start, n) == Fill(Resize(A, start + n), start, n, v)

\* MUTANT: the old length is read after Resize changed it.
EnsureLength_ReadsLate(A, n, v) ==
    IF A.length >= n THEN A ELSE Resize(A, n)

EnsureLength(A, n, v) ==
    IF A.length >= n THEN A
    ELSE Fill(Resize(A, n), A.length, n - A.length, v)

\* The source is another array.
AddArray(A, src) ==
    Repeat(LAMBDA B, k : Add(B, Item(src, k)), A, src.length)

\* The item at i moves up by one.
MoveUp(A, i) == Put(A, i + 1, Item(A, i))

\* MUTANT: the cells are moved from the front.
InsertAt_Forwards(A, idx, v) ==
    Put(Repeat(LAMBDA B, k : MoveUp(B, idx + k),
               Resize(A, A.length + 1), A.length - idx),
        idx, v)

InsertAt(A, idx, v) ==
    Put(Repeat(LAMBDA B, k : MoveUp(B, A.length - 1 - k),
               Resize(A, A.length + 1), A.length - idx),
        idx, v)

Swap(A, i, j) == Put(Put(A, i, Item(A, j)), j, Item(A, i))

Reverse(A) ==
    Repeat(LAMBDA B, k : Swap(B, k, A.length - 1 - k), A, A.length \div 2)

RemoveAt(A, i) ==
    RemoveLast(IF i < A.length - 1 THEN Swap(A, i, A.length - 1) ELSE A)

EraseAt(A, idx) ==
    RemoveLast(Repeat(LAMBDA B, k : Put(B, idx + k, Item(B, idx + k + 1)),
                      A, A.length - 1 - idx))

\* qsort is in the library.  It returns the items in a sorted order: item i is
\* the one that was at p[i].
Sortings(A, order) ==
    LET places == 1 .. A.length
    IN {p \in [places -> places] :
          /\ \A i, j \in places : p[i] = p[j] => i = j
          /\ \A i, j \in places : i < j => order[A.cells[p[i]]] <= order[A.cells[p[j]]]}

Sort(A, p) ==
    [A EXCEPT !.cells = [i \in 1 .. A.capacity |->
                           IF i <= A.length THEN A.cells[p[i]] ELSE A.cells[i]]]

-----------------------------------------------------------------------------
(* The arrays and the blocks they own.                                     *)

VARIABLES
    existing,   \* the arrays that are constructed and not destructed
    array,      \* length_, capacity_ and data_ of each array
    heap,       \* the cells of each block: none where it is not allocated
    stolen      \* the blocks StealBuffer gave to the caller

arrays == <<existing, array, heap, stolen>>

Cells(block) == IF block = Null THEN <<>> ELSE heap[block]
Value(a) ==
    [length |-> array[a].length, capacity |-> array[a].capacity,
     cells |-> Cells(array[a].data)]
Allocated == {b \in Blocks : heap[b] # <<>>}
Nothing == [length |-> 0, capacity |-> 0, data |-> Null]

ArraysInit ==
    /\ existing = {} /\ array = [a \in Arrays |-> Nothing]
    /\ heap = [b \in Blocks |-> <<>>] /\ stolen = {}

\* Array a becomes A, in block b.
Become(a, A, b) ==
    /\ array' = [array EXCEPT ![a] =
                   [length |-> A.length, capacity |-> A.capacity, data |-> b]]
    /\ heap' = IF b = Null THEN heap ELSE [heap EXCEPT ![b] = A.cells]
    /\ MapThenSumSet(LAMBDA block : Len(heap'[block]), Blocks) <= MaxCells

\* A is as large as Alloc made it, in a block that was free.
Allocate(a, A) ==
    \E b \in IF A.cells = <<>> THEN {Null} ELSE Blocks \ Allocated :
        Become(a, A, b)

\* A is what an edit made of a: realloc of NULL allocates.
Update(a, A) ==
    /\ IF array[a].data = Null THEN Allocate(a, A)
       ELSE Become(a, A, array[a].data)
    /\ UNCHANGED <<existing, stolen>>

Construct(a, capacity) ==
    /\ a \notin existing
    /\ Allocate(a, Constructed(capacity))
    /\ existing' = existing \cup {a}
    /\ UNCHANGED stolen

\* MUTANT: the array moved from keeps its data.
MoveConstruct_KeepsData(a, other) ==
    /\ a \notin existing /\ other \in existing
    /\ array' = [array EXCEPT ![a] = array[other]]
    /\ existing' = existing \cup {a}
    /\ UNCHANGED <<heap, stolen>>

MoveConstruct(a, other) ==
    /\ a \notin existing /\ other \in existing
    /\ array' = [array EXCEPT ![a] = array[other], ![other] = Nothing]
    /\ existing' = existing \cup {a}
    /\ UNCHANGED <<heap, stolen>>

\* operator= swaps the two.
MoveAssign(a, other) ==
    /\ {a, other} \subseteq existing
    /\ array' = [array EXCEPT ![a] = array[other], ![other] = array[a]]
    /\ UNCHANGED <<existing, heap, stolen>>

Destruct(a) ==
    /\ a \in existing
    /\ existing' = existing \ {a}
    /\ array' = [array EXCEPT ![a] = Nothing]
    /\ heap' = [b \in Blocks |-> IF b = array[a].data THEN <<>> ELSE heap[b]]
    /\ UNCHANGED stolen

StealBuffer(a) ==
    /\ a \in existing
    /\ stolen' = stolen \cup ({array[a].data} \ {Null})
    /\ array' = [array EXCEPT ![a] = Nothing]
    /\ UNCHANGED <<existing, heap>>

\* The caller of StealBuffer frees what it got.
FreeStolen(b) ==
    /\ b \in stolen
    /\ stolen' = stolen \ {b}
    /\ heap' = [heap EXCEPT ![b] = <<>>]
    /\ UNCHANGED <<existing, array>>

\* Where it does not fit, the block there was is not freed.
CallSetLength(a, n) ==
    /\ a \in existing
    /\ IF n > array[a].capacity THEN Allocate(a, SetLength(Value(a), n))
       ELSE Become(a, SetLength(Value(a), n), array[a].data)
    /\ UNCHANGED <<existing, stolen>>

\* The other calls that write to one array, at places within it.
Edit(a) ==
    LET A == Value(a)
        Places == 0 .. (A.length - 1)
        Ends == 0 .. A.length
    IN /\ a \in existing
       /\ \/ \E v \in Values : Update(a, Add(A, v))
          \/ A.length > 0 /\ Update(a, RemoveLast(A))
          \/ \E n \in Ends : Update(a, TruncateTo(A, n))
          \/ Update(a, Clear(A))
          \/ \E v \in Values, i \in Ends, n \in 0 .. MaxCells :
                 Update(a, FillWith(A, v, i, n))
          \/ \E v \in Values, n \in 0 .. MaxCells : Update(a, EnsureLength(A, n, v))
          \/ \E src \in existing \ {a} : Update(a, AddArray(A, Value(src)))
          \/ \E v \in Values, i \in Ends : Update(a, InsertAt(A, i, v))
          \/ \E i, j \in Places : Update(a, Swap(A, i, j))
          \/ Update(a, Reverse(A))
          \/ \E order \in [Values \cup {Garbage} -> {0, 1}] :
                 \E p \in Sortings(A, order) : Update(a, Sort(A, p))
          \/ \E i \in Places : Update(a, RemoveAt(A, i))
          \/ \E i \in Places : Update(a, EraseAt(A, i))

ArraysNext ==
    \/ \E a \in Arrays :
        \/ \E n \in 0 .. MaxCells : Construct(a, n) \/ CallSetLength(a, n)
        \/ \E other \in Arrays \ {a} : MoveConstruct(a, other) \/ MoveAssign(a, other)
        \/ Destruct(a) \/ StealBuffer(a) \/ Edit(a)
    \/ \E b \in Blocks : FreeStolen(b)

-----------------------------------------------------------------------------
(* Properties.                                                             *)

\* The items of an array are within its capacity, and the capacity is the
\* size of the block, after any calls: also where SetLength made it no power
\* of two, and where it came from another array.
ItemsFit ==
    \A a \in Arrays :
        /\ array[a].length <= array[a].capacity
        /\ array[a].capacity = Len(Cells(array[a].data))

\* A block that an array or a caller would free is allocated, and nobody else
\* would free it: a block is freed at most once.
BlocksHaveOneOwner ==
    /\ stolen \subseteq Allocated
    /\ \A a \in Arrays :
         array[a].data # Null =>
             /\ a \in existing /\ array[a].data \in Allocated \ stolen
             /\ \A other \in Arrays \ {a} : array[other].data # array[a].data

Lost == Allocated \ (stolen \cup {array[a].data : a \in Arrays})
Unwritten == {a \in Arrays : Garbage \in Seqs!ToSet(Contents(Value(a)))}

\* SetLength is the one call that loses a block, or that leaves cells below
\* the length that nobody wrote.
OnlySetLengthLoses ==
    [][\/ Lost' = Lost /\ (Unwritten = {} => Unwritten' = {})
       \/ \E a \in Arrays, n \in 1 .. MaxCells : CallSetLength(a, n)]_arrays

\* Each call does to the items what the operator on sequences does, whatever
\* the capacity is and whatever was left in the cells behind them.
ActsOnSequence ==
    \A a \in existing :
        LET A == Value(a)
            s == Contents(A)
        IN /\ Contents(Reverse(A)) = Seqs!Reverse(s)
           /\ \A v \in Values :
                /\ Contents(Add(A, v)) = Append(s, v)
                /\ \A n \in 0 .. MaxCells :
                     Contents(EnsureLength(A, n, v)) =
                         s \o [k \in 1 .. (n - A.length) |-> v]
           /\ \A i \in 0 .. A.length, v \in Values :
                /\ Contents(InsertAt(A, i, v)) = Seqs!InsertAt(s, i + 1, v)
                /\ \A n \in 0 .. MaxCells :
                     Contents(FillWith(A, v, i, n)) =
                         SubSeq(s, 1, i) \o [k \in 1 .. n |-> v]
           /\ \A i \in 1 .. A.length :
                /\ Contents(EraseAt(A, i - 1)) = Seqs!RemoveAt(s, i)
                /\ Contents(RemoveAt(A, i - 1)) =
                       Seqs!Front(Seqs!ReplaceAt(s, i, Seqs!Last(s)))
           /\ \A src \in existing \ {a} :
                Contents(AddArray(A, Value(src))) = s \o Contents(Value(src))

ArraysSpec == ArraysInit /\ [][ArraysNext]_arrays

=============================================================================
