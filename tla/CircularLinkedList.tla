------------------------- MODULE CircularLinkedList -------------------------
(***************************************************************************)
(* The CircularLinkedList of src/dart/bin/eventhandler.h:109-210 as the    *)
(* sequence of its elements from head_ on: next_ of the last element is    *)
(* the first one.                                                          *)
(***************************************************************************)
EXTENDS Integers, Sequences

HasHead(s) == s # <<>>
Elements(s) == {s[i] : i \in 1 .. Len(s)}
NoDuplicates(s) == \A i, j \in 1 .. Len(s) : s[i] = s[j] => i = j

Add(s, x) == Append(s, x)

RemoveHead(s) == Tail(s)

\* The list without its k-th element.
Drop(s, k) == [i \in 1 .. Len(s) - 1 |-> IF i < k THEN s[i] ELSE s[i + 1]]

\* MUTANT: where the head is removed head_ is moved on to the next but one.
Remove_SkipsHead(s, x) ==
    IF x \in Elements(s)
    THEN LET k == CHOOSE j \in 1 .. Len(s) : s[j] = x
             rest == Drop(s, k)
         IN IF k = 1 /\ rest # <<>>
            THEN Append(Tail(rest), Head(rest)) ELSE rest
    ELSE s

\* The first occurrence goes; where there is none nothing does.
Remove(s, x) ==
    IF x \in Elements(s)
    THEN Drop(s, CHOOSE k \in 1 .. Len(s) :
                    s[k] = x /\ \A j \in 1 .. k - 1 : s[j] # x)
    ELSE s

Rotate(s) ==
    [i \in 1 .. Len(s) |-> IF i < Len(s) THEN s[i + 1] ELSE s[1]]

=============================================================================
