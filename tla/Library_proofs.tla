--------------------------- MODULE Library_proofs ---------------------------
(***************************************************************************)
(* The library of the embedder, part by part and then side by side: words  *)
(* of every width; any arguments, checks and buffers; any strings, kernel  *)
(* buffers, threads and references.                                        *)
(***************************************************************************)
EXTENDS LibraryMC, GrowableArray_proofs, FiniteSetTheorems

-----------------------------------------------------------------------------
(* Utils: words.                                                           *)

\* The bounds of a word are integers, half a modulus apart from zero.
LEMMA Bounds ==
    /\ Half \in Nat /\ Half > 0
    /\ MinInt \in Int /\ MaxInt \in Int /\ Modulus \in Nat
    /\ MinInt = -Half /\ MaxInt = Half - 1 /\ Modulus = 2 * Half
<1>1. Width - 1 \in Nat
    BY WidthAssumption
<1>2. Half \in Nat /\ Half > 0
    BY <1>1, PowerPositive DEF Half
<1> QED BY <1>2 DEF MinInt, MaxInt, Modulus

\* They are powers of two, and the numbers of bits are those from 0.
LEMMA Widths ==
    /\ Width \in Nat /\ Width - 1 \in Nat /\ Width > 1
    /\ Precision \in Nat /\ Precision >= 1 /\ Precision < Width
    /\ Half = Power[Width - 1] /\ Modulus = Power[Width]
    /\ Bits = 0 .. (Width - 1) /\ Bits \subseteq Nat
<1>1. Width \in Nat /\ Width - 1 \in Nat /\ (Width - 1) + 1 = Width
      /\ Width > 1 /\ Precision \in Nat /\ Precision >= 1 /\ Precision < Width
    BY WidthAssumption
<1>2. Power[(Width - 1) + 1] = 2 * Power[Width - 1]
    BY <1>1, PowerType
<1> QED BY <1>1, <1>2 DEF Half, Modulus, Bits

\* A word differs from its unsigned form by a multiple of the modulus.
LEMMA Unsigned ==
    ASSUME NEW a \in Ints
    PROVE  ToUnsigned(a) = IF a < 0 THEN a + Modulus ELSE a
<1> USE Bounds
<1>1. a \in Int /\ -Half <= a /\ a < Half
  BY DEF Ints
<1>2. CASE a >= 0
  <2>1. (Modulus * 0 + a) % Modulus = a
    BY <1>1, <1>2, Division
  <2> QED BY <1>1, <1>2, <2>1 DEF ToUnsigned
<1>3. CASE a < 0
  <2>1. (Modulus * (-1) + (a + Modulus)) % Modulus = a + Modulus
    BY <1>1, <1>3, Division
  <2>2. Modulus * (-1) + (a + Modulus) = a
    BY <1>1
  <2> QED BY <1>1, <1>3, <2>1, <2>2 DEF ToUnsigned
<1> QED BY <1>1, <1>2, <1>3

\* The signed form is the one word a multiple of the modulus away.
LEMMA Signed ==
    ASSUME NEW t \in Ints, NEW k \in Int
    PROVE  ToSigned(t + k * Modulus) = t
<1> USE Bounds
<1>1. t \in Int /\ -Half <= t /\ t < Half
  BY DEF Ints
<1>2. CASE t >= 0
  <2>1. (Modulus * k + t) % Modulus = t
    BY <1>1, <1>2, Division
  <2>2. (t + k * Modulus) % Modulus = t
    BY <1>1, <2>1
  <2> QED BY <1>1, <1>2, <2>2 DEF ToSigned
<1>3. CASE t < 0
  <2> DEFINE m == Modulus
             q == k - 1
             r == t + Modulus
  <2>1. m \in Nat /\ m > 0 /\ q \in Int /\ r \in Nat /\ r < m
    BY <1>1, <1>3
  <2>2. m * q + r = t + k * Modulus
    BY <1>1
  <2> HIDE DEF m, q, r
  <2>3. (m * q + r) % m = r
    BY <2>1, Division
  <2>4. (t + k * Modulus) % Modulus = t + Modulus
    BY <2>2, <2>3 DEF m, r
  <2> QED BY <1>1, <1>3, <2>4 DEF ToSigned
<1> QED BY <1>1, <1>2, <1>3

\* The unsigned form of a word, as a multiple of the modulus away.
LEMMA UnsignedIsCongruent ==
    ASSUME NEW a \in Ints
    PROVE  \E k \in {0, 1} : ToUnsigned(a) = a + k * Modulus
<1>1. a \in Int /\ ToUnsigned(a) = IF a < 0 THEN a + Modulus ELSE a
  BY Unsigned, Bounds DEF Ints
<1> QED BY <1>1, Bounds

\* Two words added modulo 2^Width: the word that is congruent to their sum.
LEMMA SumIs ==
    ASSUME NEW a \in Ints, NEW b \in Ints, NEW t \in Ints, NEW j \in Int,
           t = a + b + j * Modulus
    PROVE  AddWithWrapAround(a, b) = t
<1> USE Bounds
<1>1. a \in Int /\ b \in Int /\ t \in Int
  BY DEF Ints
<1>2. PICK k \in {0, 1} : ToUnsigned(a) = a + k * Modulus
  BY UnsignedIsCongruent
<1>3. PICK l \in {0, 1} : ToUnsigned(b) = b + l * Modulus
  BY UnsignedIsCongruent
<1>4. ToUnsigned(a) + ToUnsigned(b) = t + (k + l - j) * Modulus
  BY <1>1, <1>2, <1>3
<1>5. k + l - j \in Int
  OBVIOUS
<1>6. ToSigned(t + (k + l - j) * Modulus) = t
  BY <1>5, Signed
<1> QED BY <1>4, <1>6 DEF AddWithWrapAround

\* Likewise for a difference.
LEMMA DifferenceIs ==
    ASSUME NEW a \in Ints, NEW b \in Ints, NEW t \in Ints, NEW j \in Int,
           t = a - b + j * Modulus
    PROVE  SubWithWrapAround(a, b) = t
<1> USE Bounds
<1>1. a \in Int /\ b \in Int /\ t \in Int
  BY DEF Ints
<1>2. PICK k \in {0, 1} : ToUnsigned(a) = a + k * Modulus
  BY UnsignedIsCongruent
<1>3. PICK l \in {0, 1} : ToUnsigned(b) = b + l * Modulus
  BY UnsignedIsCongruent
<1>4. ToUnsigned(a) - ToUnsigned(b) = t + (k - l - j) * Modulus
  BY <1>1, <1>2, <1>3
<1>5. k - l - j \in Int
  OBVIOUS
<1>6. ToSigned(t + (k - l - j) * Modulus) = t
  BY <1>5, Signed
<1> QED BY <1>4, <1>6 DEF SubWithWrapAround

\* Every argument is a word, a number of bits or a double.
Words == /\ left \in Ints /\ right \in Ints /\ third \in Ints
         /\ bits \in Bits /\ real \in Doubles \cup {0, NaN}

\* They are chosen so.
LEMMA InitWords == NumbersInit => Words
<1>1. 0 \in Ints /\ 0 \in Bits
    BY Bounds, Widths, SMTT(30) DEF Ints
<1> QED BY <1>1 DEF NumbersInit, DoublesInit, Words

\* The tests of a sum and a difference are exact, and their own arithmetic
\* stays inside the words.
LEMMA OverflowLemma == Words => OverflowIsForeseen
BY Bounds
   DEF Words, Ints, OverflowIsForeseen, WillAddOverflow, WillSubOverflow

\* So is the range check.
LEMMA RangeCheckLemma == Words => RangeCheckIsExact
BY Bounds DEF Words, Ints, RangeCheckIsExact, RangeCheck

\* A sum or difference wraps around at most once.
LEMMA WrapsLemma == Words => WrapsOnce
<1> SUFFICES ASSUME Words PROVE WrapsOnce
  OBVIOUS
<1> USE Bounds
<1>1. /\ left \in Ints /\ right \in Ints
      /\ left \in -Half .. (Half - 1) /\ right \in -Half .. (Half - 1)
  BY DEF Words, Ints
<1>2. WillAddOverflow(left, right) <=> left + right \notin Ints
  BY OverflowLemma DEF OverflowIsForeseen
<1>3. WillSubOverflow(left, right) <=> left - right \notin Ints
  BY OverflowLemma DEF OverflowIsForeseen
<1>4. AddWithWrapAround(left, right) =
        IF ~WillAddOverflow(left, right) THEN left + right
        ELSE IF right > 0 THEN left + right - Modulus
        ELSE left + right + Modulus
  <2>1. CASE left + right \in Ints
    <3>1. left + right = left + right + 0 * Modulus
      BY <1>1
    <3> QED BY <1>1, <1>2, <2>1, <3>1, SumIs
  <2>2. CASE left + right \notin Ints /\ right > 0
    <3>1. /\ left + right - Modulus \in Ints
          /\ left + right - Modulus = left + right + (-1) * Modulus
      BY <1>1, <2>2 DEF Ints
    <3> QED BY <1>1, <1>2, <2>2, <3>1, SumIs
  <2>3. CASE left + right \notin Ints /\ ~(right > 0)
    <3>1. /\ left + right + Modulus \in Ints
          /\ left + right + Modulus = left + right + 1 * Modulus
      BY <1>1, <2>3 DEF Ints
    <3> QED BY <1>1, <1>2, <2>3, <3>1, SumIs
  <2> QED BY <2>1, <2>2, <2>3
<1>5. SubWithWrapAround(left, right) =
        IF ~WillSubOverflow(left, right) THEN left - right
        ELSE IF right > 0 THEN left - right + Modulus
        ELSE left - right - Modulus
  <2>1. CASE left - right \in Ints
    <3>1. left - right = left - right + 0 * Modulus
      BY <1>1
    <3> QED BY <1>1, <1>3, <2>1, <3>1, DifferenceIs
  <2>2. CASE left - right \notin Ints /\ right > 0
    <3>1. /\ left - right + Modulus \in Ints
          /\ left - right + Modulus = left - right + 1 * Modulus
      BY <1>1, <2>2 DEF Ints
    <3> QED BY <1>1, <1>3, <2>2, <3>1, DifferenceIs
  <2>3. CASE left - right \notin Ints /\ ~(right > 0)
    <3>1. /\ left - right - Modulus \in Ints
          /\ left - right - Modulus = left - right + (-1) * Modulus
      BY <1>1, <2>3 DEF Ints
    <3> QED BY <1>1, <1>3, <2>3, <3>1, DifferenceIs
  <2> QED BY <2>1, <2>2, <2>3
<1> QED BY <1>4, <1>5 DEF WrapsOnce

-----------------------------------------------------------------------------
(* Utils: the bits of words.                                               *)

\* Numbers below 2^Width are told by their bits.
LEMMA SameWord ==
    ASSUME NEW x \in Nat, x < Modulus, NEW y \in Nat, y < Modulus,
           \A k \in Bits : BitOf(x, k) = 1 <=> BitOf(y, k) = 1
    PROVE  x = y
<1>1. ASSUME NEW k \in Bits
      PROVE  BitOf(x, k) \in {0, 1} /\ BitOf(y, k) \in {0, 1}
    <2>1. k \in Nat /\ x \in Int /\ y \in Int
        BY Widths
    <2> QED BY <2>1, Shifted
<1>2. \A k \in 0 .. (Width - 1) : BitOf(x, k) = BitOf(y, k)
    BY <1>1, Widths
<1> QED BY <1>2, Widths, ByBits

\* And and Or have the bits that their arguments have, both or one of them.
LEMMA AndHas ==
    ASSUME NEW x, NEW y
    PROVE  /\ And(x, y) \in Nat /\ And(x, y) < Modulus
           /\ \A k \in Bits : BitOf(And(x, y), k) = 1 <=>
                              BitOf(x, k) = 1 /\ BitOf(y, k) = 1
<1> DEFINE S == {k \in Bits : BitOf(x, k) = 1 /\ BitOf(y, k) = 1}
<1>1. And(x, y) = WithBits(S, Width)
    BY DEF And
<1>2. \A k \in Bits : k \in S <=> BitOf(x, k) = 1 /\ BitOf(y, k) = 1
    OBVIOUS
<1> HIDE DEF S
<1>3. /\ WithBits(S, Width) \in Nat /\ WithBits(S, Width) < Modulus
      /\ \A k \in Bits : BitOf(WithBits(S, Width), k) = IF k \in S THEN 1 ELSE 0
    BY WithBitsHas, Widths
<1> QED BY <1>1, <1>2, <1>3

LEMMA OrHas ==
    ASSUME NEW x, NEW y
    PROVE  /\ Or(x, y) \in Nat /\ Or(x, y) < Modulus
           /\ \A k \in Bits : BitOf(Or(x, y), k) = 1 <=>
                              BitOf(x, k) = 1 \/ BitOf(y, k) = 1
<1> DEFINE S == {k \in Bits : BitOf(x, k) = 1 \/ BitOf(y, k) = 1}
<1>1. Or(x, y) = WithBits(S, Width)
    BY DEF Or
<1>2. \A k \in Bits : k \in S <=> BitOf(x, k) = 1 \/ BitOf(y, k) = 1
    OBVIOUS
<1> HIDE DEF S
<1>3. /\ WithBits(S, Width) \in Nat /\ WithBits(S, Width) < Modulus
      /\ \A k \in Bits : BitOf(WithBits(S, Width), k) = IF k \in S THEN 1 ELSE 0
    BY WithBitsHas, Widths
<1> QED BY <1>1, <1>2, <1>3

\* A number is unsigned without changing its bits.
LEMMA UnsignedBits ==
    ASSUME NEW x \in Int
    PROVE  /\ ToUnsigned(x) \in Nat /\ ToUnsigned(x) < Modulus
           /\ \A k \in Bits : BitOf(ToUnsigned(x), k) = BitOf(x, k)
<1>1. ToUnsigned(x) = x % Power[Width]
    BY Widths DEF ToUnsigned
<1>2. x % Power[Width] \in Nat /\ x % Power[Width] < Power[Width]
    BY Shifted, Widths
<1>3. \A k \in Bits : k \in Nat /\ k < Width
    BY Widths
<1>4. \A k \in Bits : BitOf(x % Power[Width], k) = BitOf(x, k)
    BY <1>3, BitsOfRemainder, Widths
<1> QED BY <1>1, <1>2, <1>4, Widths

\* What is left of a word below 2^n is left of the number.
LEMMA RemainderOfWord ==
    ASSUME NEW x \in Int, NEW n \in 0 .. Width
    PROVE  ToUnsigned(x) % Power[n] = x % Power[n]
<1>1. ToUnsigned(x) \in Int
    BY UnsignedBits
<1>2. \A k \in 0 .. (n - 1) : k \in Bits
    BY Widths
<1>3. \A k \in 0 .. (n - 1) : BitOf(ToUnsigned(x), k) = BitOf(x, k)
    BY <1>2, UnsignedBits
<1> HIDE DEF ToUnsigned
<1> QED BY <1>1, <1>3, SameBits

\* A mask of the lower bits leaves the remainder.
LEMMA AndMask ==
    ASSUME NEW x \in Int, NEW n \in 0 .. Width
    PROVE  And(x, Power[n] - 1) = x % Power[n]
<1>1. n \in Nat /\ n <= Width /\ \A k \in Bits : k \in Nat
    BY Widths
<1>2. x % Power[n] \in Nat /\ x % Power[n] < Modulus
    <2>1. Power[n] <= Power[Width] /\ Power[n] \in Nat /\ Power[Width] \in Nat
        BY <1>1, PowerOrder, PowerPositive, Widths
    <2>2. x % Power[n] \in Nat /\ x % Power[n] < Power[n]
        BY <1>1, Shifted
    <2> QED BY <2>1, <2>2, Widths
<1>3. ASSUME NEW k \in Bits
      PROVE  BitOf(And(x, Power[n] - 1), k) = 1 <=> BitOf(x % Power[n], k) = 1
    <2>1. BitOf(Power[n] - 1, k) = IF k < n THEN 1 ELSE 0
        BY <1>1, BitsOfMask
    <2>2. BitOf(x % Power[n], k) = IF k < n THEN BitOf(x, k) ELSE 0
        BY <1>1, BitsOfRemainder
    <2>3. BitOf(And(x, Power[n] - 1), k) = 1 <=>
            BitOf(x, k) = 1 /\ BitOf(Power[n] - 1, k) = 1
        BY AndHas
    <2> QED BY <2>1, <2>2, <2>3
<1>4. And(x, Power[n] - 1) \in Nat /\ And(x, Power[n] - 1) < Modulus
    BY AndHas
<1> QED BY <1>2, <1>3, <1>4, SameWord

\* A mask of the upper bits drops it.
LEMMA AndNegative ==
    ASSUME NEW x \in Int, NEW n \in Bits
    PROVE  And(x, -Power[n]) = ToUnsigned(x) - (x % Power[n])
<1> DEFINE u == ToUnsigned(x)
           q == Shift(u, n)
           r == u % Power[n]
           d == u - r
           zero == 0
<1>1. n \in Nat /\ n \in 0 .. Width /\ \A k \in Bits : k \in Nat
    BY Widths
<1>2. u \in Nat /\ u < Modulus /\ \A k \in Bits : BitOf(u, k) = BitOf(x, k)
    BY UnsignedBits
<1>3. r = x % Power[n]
    BY <1>1, RemainderOfWord
<1> HIDE DEF u
<1>4. /\ q \in Int /\ r \in Nat /\ u = Power[n] * q + r
      /\ r < Power[n] /\ Power[n] \in Nat
    <2>1. u \in Int /\ Power[n] \in Nat
        BY <1>1, <1>2, PowerPositive
    <2> QED BY <1>1, <2>1, Shifted
<1>5. q >= 0
    <2>1. q <= -1 => Power[n] * q <= Power[n] * (-1)
        BY <1>4, MoreOf
    <2> HIDE DEF q, r
    <2> QED BY <1>2, <1>4, <2>1
<1>6. /\ d \in Nat /\ d < Modulus /\ d = Power[n] * q + zero
      /\ zero \in Nat /\ zero < Power[n]
    <2>1. Power[n] * q \in Nat
        <3> HIDE DEF q, r
        <3> QED BY <1>4, <1>5
    <2> HIDE DEF q, r
    <2> QED BY <1>2, <1>4, <2>1, Bounds
<1>7. ASSUME NEW k \in Bits
      PROVE  BitOf(And(x, -Power[n]), k) = 1 <=> BitOf(d, k) = 1
    <2>0. k \in Nat
        BY <1>1
    <2>1. BitOf(And(x, -Power[n]), k) = 1 <=>
            BitOf(x, k) = 1 /\ BitOf(-Power[n], k) = 1
        BY AndHas
    <2>2. BitOf(-Power[n], k) = IF k < n THEN 0 ELSE 1
        BY <1>1, <2>0, BitsOfNegative
    <2>3. BitOf(u, k) = IF k < n THEN BitOf(r, k) ELSE BitOf(q, k - n)
        BY <1>1, <1>2, <2>0, BitsSplit
    <2>4. BitOf(d, k) = IF k < n THEN BitOf(zero, k) ELSE BitOf(q, k - n)
        <3> HIDE DEF q, r, d, zero
        <3>1. Shift(d, n) = q /\ d % Power[n] = zero
            BY <1>1, <1>4, <1>6, ShiftIs
        <3>2. d \in Int
            BY <1>6
        <3> QED BY <1>1, <2>0, <3>1, <3>2, BitsSplit
    <2>5. BitOf(zero, k) = 0
        <3>1. 0 < Power[0] /\ 0 \in Nat
            BY PowerType
        <3> QED BY <2>0, <3>1, NoBitsAbove
    <2> HIDE DEF q, r, d, zero
    <2> QED BY <1>2, <2>1, <2>2, <2>3, <2>4, <2>5
<1>8. And(x, -Power[n]) \in Nat /\ And(x, -Power[n]) < Modulus
    BY AndHas
<1>9. And(x, -Power[n]) = d
    <2> HIDE DEF d
    <2> QED BY <1>6, <1>7, <1>8, SameWord
<1> QED BY <1>3, <1>9 DEF u

-----------------------------------------------------------------------------
(* Utils: products and multiples.                                          *)

\* A signed word is congruent to what it was made of.
LEMMA SignedIsCongruent ==
    ASSUME NEW u \in Int
    PROVE  ToSigned(u) \in Ints /\ \E k \in Int : ToSigned(u) = u + Modulus * k
<1> USE Bounds
<1> DEFINE q == u \div Modulus
           r == u % Modulus
<1>1. q \in Int /\ r \in Nat /\ r < Modulus /\ u = Modulus * q + r
    BY Divided
<1>2. ToSigned(u) = IF r < Half THEN r ELSE r - Modulus
    BY DEF ToSigned
<1> HIDE DEF q, r
<1>3. ToSigned(u) \in Ints
    BY <1>1, <1>2 DEF Ints
<1>4. CASE r < Half
    <2>1. -q \in Int /\ ToSigned(u) = u + Modulus * (-q)
        BY <1>1, <1>2, <1>4
    <2> QED BY <1>3, <2>1
<1>5. CASE ~(r < Half)
    <2>1. -q - 1 \in Int /\ ToSigned(u) = u + Modulus * (-q - 1)
        BY <1>1, <1>2, <1>5
    <2> QED BY <1>3, <2>1
<1> QED BY <1>4, <1>5

\* The product of two words wraps around any number of times.
LEMMA ProductIsCongruent ==
    ASSUME NEW a \in Ints, NEW b \in Ints
    PROVE  /\ MulWithWrapAround(a, b) \in Ints
           /\ (MulWithWrapAround(a, b) - a * b) % Modulus = 0
<1> USE Bounds
<1>1. a \in Int /\ b \in Int /\ a * b \in Int
    BY DEF Ints
<1>2. PICK i \in {0, 1} : ToUnsigned(a) = a + i * Modulus
    BY UnsignedIsCongruent
<1>3. PICK j \in {0, 1} : ToUnsigned(b) = b + j * Modulus
    BY UnsignedIsCongruent
<1> DEFINE u == ToUnsigned(a) * ToUnsigned(b)
<1>4. \E c \in Int : u = a * b + Modulus * c
    <2>1. CASE i = 0 /\ j = 0
        <3>1. u = a * b + Modulus * 0
            BY <1>1, <1>2, <1>3, <2>1
        <3> QED BY <3>1
    <2>2. CASE i = 1 /\ j = 0
        <3>1. u = a * b + Modulus * b
            BY <1>1, <1>2, <1>3, <2>2
        <3> QED BY <1>1, <3>1
    <2>3. CASE i = 0 /\ j = 1
        <3>1. u = a * b + Modulus * a
            BY <1>1, <1>2, <1>3, <2>3
        <3> QED BY <1>1, <3>1
    <2>4. CASE i = 1 /\ j = 1
        <3>1. u = a * b + Modulus * (a + b + Modulus)
            BY <1>1, <1>2, <1>3, <2>4
        <3>2. a + b + Modulus \in Int
            BY <1>1
        <3> QED BY <3>1, <3>2
    <2> QED BY <2>1, <2>2, <2>3, <2>4
<1>5. PICK c \in Int : u = a * b + Modulus * c
    BY <1>4
<1> HIDE DEF u
<1>6. u \in Int
    BY <1>1, <1>5
<1>7. PICK k \in Int : ToSigned(u) = u + Modulus * k
    BY <1>6, SignedIsCongruent
<1>8. /\ c + k \in Int
      /\ ToSigned(u) - a * b = Modulus * (c + k)
    BY <1>1, <1>5, <1>7
<1>9. (ToSigned(u) - a * b) % Modulus = 0
    <2> DEFINE q == c + k
               x == ToSigned(u) - a * b
               m == Modulus
    <2>1. q \in Int /\ m \in Nat /\ m > 0 /\ x = m * q
        BY <1>8
    <2> HIDE DEF q, x, m
    <2>2. x % m = 0
        BY <2>1, Multiple
    <2> QED BY <2>2 DEF x, m
<1>10. ToSigned(u) \in Ints
    BY <1>6, SignedIsCongruent
<1> QED BY <1>9, <1>10 DEF MulWithWrapAround, u

\* Products, negation and shifts.
LEMMA ShiftsLemma ==
    ASSUME left \in Ints, right \in Ints, bits \in Bits
    PROVE  ShiftsAreProducts
<1> USE Bounds
<1>1. NegWithWrapAround(left) = SubWithWrapAround(0, left)
    <2>1. ToUnsigned(left) \in Int
        BY UnsignedBits DEF Ints
    <2>2. ToUnsigned(0) = 0
        <3>1. 0 \in Ints
            BY DEF Ints
        <3> QED BY <3>1, Unsigned
    <2>3. ToUnsigned(0) - ToUnsigned(left) = -ToUnsigned(left)
        BY <2>1, <2>2
    <2> QED BY <2>3 DEF NegWithWrapAround, SubWithWrapAround
<1>2. ShiftLeftWithTruncation(left, bits) =
        MulWithWrapAround(left, ToSigned(Bit(bits)))
    <2>1. bits \in Nat /\ bits < Width
        BY Widths
    <2>2. Power[bits] \in Nat /\ Power[bits] > 0 /\ Power[bits] < Modulus
        <3>1. Width \in Nat /\ Modulus = Power[Width]
            BY Widths
        <3>2. Power[bits] \in Nat /\ Power[bits] > 0
            BY <2>1, PowerPositive
        <3>3. 2 * Power[bits] <= Power[Width] /\ Power[Width] \in Nat
            BY <2>1, <3>1, PowerOrder, PowerPositive
        <3> QED BY <3>1, <3>2, <3>3
    <2>3. Power[bits] % Modulus = Power[bits]
        <3> DEFINE m == Modulus
        <3>1. m \in Nat /\ m > 0 /\ Power[bits] < m
            BY <2>2
        <3> HIDE DEF m
        <3>2. Power[bits] % m = Power[bits]
            BY <2>2, <3>1, Below
        <3> QED BY <3>2 DEF m
    <2>4. ToSigned(Power[bits]) =
            IF Power[bits] < Half THEN Power[bits] ELSE Power[bits] - Modulus
        BY <2>3 DEF ToSigned
    <2>5. ToSigned(Power[bits]) \in Ints
        BY <2>2, SignedIsCongruent
    <2>6. ToUnsigned(ToSigned(Power[bits])) = Power[bits]
        <3>1. ToUnsigned(ToSigned(Power[bits])) =
                IF ToSigned(Power[bits]) < 0 THEN ToSigned(Power[bits]) + Modulus
                ELSE ToSigned(Power[bits])
            BY <2>5, Unsigned
        <3> QED BY <2>2, <2>4, <3>1
    <2>7. ~(bits >= Width)
        BY <2>1, Widths
    <2> QED BY <2>6, <2>7 DEF ShiftLeftWithTruncation, MulWithWrapAround, Bit
<1>3. ShiftLeftWithTruncation(left, Width) = 0
    BY Widths DEF ShiftLeftWithTruncation
<1> QED BY <1>1, <1>2, <1>3, ProductIsCongruent DEF ShiftsAreProducts

\* What a set's greatest and least number are.
LEMMA MaxIs ==
    ASSUME NEW S, S \subseteq Int, NEW t \in S, \A y \in S : y <= t
    PROVE  Max(S) = t
<1>1. \A y \in S : t >= y
    OBVIOUS
<1>2. Max(S) \in S /\ \A y \in S : Max(S) >= y
    BY <1>1 DEF Max
<1>3. Max(S) \in Int /\ t \in Int /\ Max(S) >= t /\ Max(S) <= t
    BY <1>2
<1> QED BY <1>3

LEMMA MinIs ==
    ASSUME NEW S, S \subseteq Int, NEW t \in S, \A y \in S : t <= y
    PROVE  Min(S) = t
<1>1. Min(S) \in S /\ \A y \in S : Min(S) <= y
    BY DEF Min
<1>2. Min(S) \in Int /\ t \in Int /\ Min(S) <= t /\ Min(S) >= t
    BY <1>1
<1> QED BY <1>2

\* A word is rounded down to a multiple of a power of two by what is left of it.
LEMMA RoundDownIs ==
    ASSUME NEW x \in Ints, NEW n \in Bits, n < Width - 1
    PROVE  /\ RoundDown(x, Power[n]) \in Ints
           /\ RoundDown(x, Power[n]) = x - (x % Power[n])
           /\ RoundDown(x, Power[n]) = Power[n] * Shift(x, n)
<1> USE Bounds
<1> DEFINE p == Power[n]
           q == Shift(x, n)
           r == x % Power[n]
           m == Power[Width - 1 - n]
<1>0. n \in Nat /\ x \in Int /\ MinInt <= x /\ x <= MaxInt
    BY Widths DEF Ints
<1>1. q \in Int /\ r \in Nat /\ r < p /\ x = p * q + r
    BY <1>0, Shifted
<1>2. p \in Nat /\ p > 0 /\ m \in Nat /\ Half = p * m
    <2>1. Width - 1 - n \in Nat /\ Half = Power[n] * Power[Width - 1 - n]
        BY <1>0, PowerOrder, Widths
    <2> QED BY <1>0, <2>1, PowerPositive
<1>3. And(x, -Power[n]) = ToUnsigned(x) - r
    BY <1>0, AndNegative
<1> HIDE DEF p, q, r, m
<1>4. p * q >= MinInt
    <2>1. ~(q < -m)
        <3>1. ASSUME q + 1 <= -m PROVE p * (q + 1) <= p * (-m)
            BY <1>1, <1>2, <3>1, MoreOf
        <3>2. p * (-m) = MinInt /\ p * (q + 1) = p * q + p
            BY <1>1, <1>2
        <3> QED BY <1>0, <1>1, <1>2, <3>1, <3>2
    <2>2. p * (-m) <= p * q
        BY <1>1, <1>2, <2>1, MoreOf
    <2> QED BY <1>2, <2>2
<1>5. x - r \in Ints /\ x - r = p * q
    <2>1. p * q \in Int
        BY <1>1, <1>2
    <2>2. x - r = p * q /\ x - r \in Int /\ x - r <= x
        BY <1>0, <1>1, <2>1
    <2> QED BY <1>0, <1>4, <2>1, <2>2 DEF Ints
<1>6. PICK k \in {0, 1} : ToUnsigned(x) = x + k * Modulus
    BY UnsignedIsCongruent
<1>7. ToUnsigned(x) - r = (x - r) + k * Modulus
    BY <1>0, <1>1, <1>6
<1>8. ToSigned((x - r) + k * Modulus) = x - r
    BY <1>5, Signed
<1> QED BY <1>3, <1>5, <1>7, <1>8 DEF RoundDown, p, q, r

\* Rounding is to the nearest multiple on its side.
LEMMA RoundsLemma ==
    ASSUME left \in Ints, bits \in Bits
    PROVE  RoundsToMultiples
<1> USE Bounds
<1> DEFINE size == Power[bits]
           Multiples == {m \in Ints : m % size = 0}
<1> SUFFICES ASSUME size \in Ints
             PROVE  /\ RoundDown(left, size) = Max({m \in Multiples : m <= left})
                    /\ left + size - 1 \in Ints =>
                         RoundUp(left, size) = Min({m \in Multiples : m >= left})
                    /\ IsAligned(left, size) <=> RoundDown(left, size) = left
    BY DEF RoundsToMultiples, Bit
<1>1. /\ bits \in Nat /\ bits < Width /\ bits \in 0 .. Width
      /\ size \in Nat /\ size > 0
    <2>1. bits \in Nat /\ bits < Width /\ bits \in 0 .. Width
        BY Widths
    <2>2. Power[bits] \in Nat /\ Power[bits] >= 1
        BY <2>1, PowerPositive
    <2> QED BY <2>1, <2>2
<1>2. bits < Width - 1
    <2>1. size <= MaxInt
        BY DEF Ints
    <2>2. ~(bits = Width - 1)
        BY <1>1, <2>1, Widths
    <2> QED BY <1>1, <2>2, Widths
<1>3. Multiples = {m \in Ints : \E i \in Int : m = size * i}
    <2>1. ASSUME NEW m \in Ints, m % size = 0
          PROVE  \E i \in Int : m = size * i
        <3>1. m \in Int
            BY DEF Ints
        <3>2. m \div size \in Int /\ m = size * (m \div size) + (m % size)
            BY <1>1, <3>1, Divided
        <3> HIDE DEF size
        <3>3. m = size * (m \div size)
            BY <1>1, <2>1, <3>2
        <3> QED BY <3>2, <3>3
    <2>2. ASSUME NEW i \in Int PROVE (size * i) % size = 0
        <3> HIDE DEF size
        <3>1. (size * i + 0) % size = 0
            BY <1>1, Division
        <3>2. size * i + 0 = size * i
            BY <1>1
        <3> QED BY <3>1, <3>2
    <2> HIDE DEF size
    <2> QED BY <2>1, <2>2
<1> HIDE DEF Multiples
<1>4. ASSUME NEW x \in Ints
      PROVE  /\ x \in Int /\ Shift(x, bits) \in Int
             /\ x % size \in Nat /\ x % size < size
             /\ RoundDown(x, size) = x - (x % size)
             /\ RoundDown(x, size) = size * Shift(x, bits)
             /\ RoundDown(x, size) \in Multiples
    <2>1. x \in Int
        BY DEF Ints
    <2>2. Shift(x, bits) \in Int /\ x % size \in Nat /\ x % size < size
        BY <1>1, <2>1, Shifted
    <2>3. /\ RoundDown(x, size) \in Ints
          /\ RoundDown(x, size) = x - (x % size)
          /\ RoundDown(x, size) = size * Shift(x, bits)
        BY <1>2, RoundDownIs
    <2> QED BY <1>3, <2>1, <2>2, <2>3
<1> HIDE DEF size
\* No multiple lies between two that follow one another.
<1>5. ASSUME NEW i \in Int, NEW j \in Int, size * i > size * j - size
      PROVE  size * i >= size * j
    <2>1. i <= j - 1 => size * i <= size * (j - 1)
        BY <1>1, MoreOf
    <2>2. size * (j - 1) = size * j - size
        BY <1>1
    <2>3. i >= j
        BY <1>1, <1>5, <2>1, <2>2
    <2> QED BY <1>1, <2>3, MoreOf
<1>6. RoundDown(left, size) = Max({m \in Multiples : m <= left})
    <2> DEFINE t == RoundDown(left, size)
               S == {m \in Multiples : m <= left}
    <2>1. t \in S /\ S \subseteq Int
        <3>1. S \subseteq Int
            BY <1>3 DEF Ints
        <3>2. t \in Multiples /\ t = left - (left % size)
              /\ left \in Int /\ left % size \in Nat
            BY <1>4
        <3>3. t <= left
            BY <3>2
        <3> QED BY <3>1, <3>2, <3>3
    <2>2. ASSUME NEW y \in S PROVE y <= t
        <3>1. PICK i \in Int : y = size * i
            BY <1>3
        <3>2. y <= left
            OBVIOUS
        <3>3. left < t + size /\ t = size * Shift(left, bits) /\ left \in Int
              /\ Shift(left, bits) \in Int
            BY <1>1, <1>4
        <3> HIDE DEF t, S
        <3> DEFINE j == Shift(left, bits)
        <3> HIDE DEF j
        <3>4. j \in Int /\ t = size * j
            BY <3>3 DEF j
        <3>5. ~(size * i > size * j)
            <4>1. CASE i <= j
                BY <1>1, <3>4, <4>1, MoreOf
            <4>2. CASE ~(i <= j)
                <5>1. size * (j + 1) <= size * i
                    BY <1>1, <3>4, <4>2, MoreOf
                <5>2. size * (j + 1) = size * j + size
                    BY <1>1, <3>4
                <5> QED BY <1>1, <3>1, <3>2, <3>3, <3>4, <5>1, <5>2
            <4> QED BY <4>1, <4>2
        <3> QED BY <1>1, <3>1, <3>4, <3>5
    <2> HIDE DEF t, S
    <2>3. Max(S) = t
        BY <2>1, <2>2, MaxIs
    <2> QED BY <2>3 DEF t, S
<1>7. ASSUME left + size - 1 \in Ints
      PROVE  RoundUp(left, size) = Min({m \in Multiples : m >= left})
    <2> DEFINE x == left + size - 1
               t == RoundDown(x, size)
               S == {m \in Multiples : m >= left}
    <2>1. left \in Int /\ x \in Ints
        BY <1>7 DEF Ints
    <2>2. /\ t \in Multiples /\ t = x - (x % size) /\ t = size * Shift(x, bits)
          /\ x % size \in Nat /\ x % size < size /\ Shift(x, bits) \in Int
        BY <1>4, <2>1
    <2>3. t \in S /\ S \subseteq Int
        BY <1>1, <1>3, <2>1, <2>2 DEF Ints
    <2>4. ASSUME NEW y \in S PROVE t <= y
        <3>1. PICK i \in Int : y = size * i
            BY <1>3
        <3>2. y >= left /\ t <= left + size - 1
            BY <1>1, <2>1, <2>2
        <3> DEFINE j == Shift(x, bits)
        <3>3. j \in Int /\ t = size * j
            BY <2>2
        <3> HIDE DEF t, S, x, j
        <3>4. size * i > size * j - size
            BY <1>1, <2>1, <3>1, <3>2, <3>3
        <3>5. size * i >= size * j
            BY <1>5, <3>3, <3>4
        <3> QED BY <3>1, <3>3, <3>5
    <2>5. RoundUp(left, size) = t
        BY DEF RoundUp
    <2> HIDE DEF t, S
    <2>6. Min(S) = t
        BY <2>3, <2>4, MinIs
    <2> QED BY <2>5, <2>6 DEF S
<1>8. IsAligned(left, size) <=> RoundDown(left, size) = left
    <2>1. left \in Int
        BY DEF Ints
    <2>2. And(left, size - 1) = left % size
        BY <1>1, <2>1, AndMask DEF size
    <2>3. RoundDown(left, size) = left - (left % size) /\ left % size \in Nat
        BY <1>4
    <2> QED BY <2>1, <2>2, <2>3 DEF IsAligned
<1> QED BY <1>6, <1>7, <1>8

-----------------------------------------------------------------------------
(* Utils: sizes.                                                           *)

\* The highest bit of a positive word lies where its power of two does.
LEMMA HighestBitIs ==
    ASSUME NEW v \in Nat, v > 0, v < Modulus
    PROVE  /\ HighestBit(v) \in Bits
           /\ Power[HighestBit(v)] <= v /\ v < Power[HighestBit(v) + 1]
<1> DEFINE S == {k \in Bits : BitOf(v, k) = 1}
<1>1. PICK h \in 0 .. (Width - 1) :
        /\ Power[h] <= v /\ v < Power[h + 1]
        /\ BitOf(v, h) = 1
        /\ \A k \in Nat : k > h => BitOf(v, k) = 0
    BY HighestOf, Widths
<1>2. h \in Bits /\ Bits \subseteq Nat /\ h \in Nat
    BY <1>1, Widths
<1>3. h \in S /\ S \subseteq Int
    <2>1. h \in S
        BY <1>1, <1>2
    <2>2. S \subseteq Nat
        BY <1>2
    <2> QED BY <2>1, <2>2
<1>4. ASSUME NEW k \in S PROVE k <= h
    <2>1. k \in Nat /\ BitOf(v, k) = 1
        BY <1>2
    <2>2. ~(k > h)
        BY <1>1, <2>1
    <2> QED BY <1>2, <2>1, <2>2
<1>5. HighestBit(v) = Max(S)
    BY DEF HighestBit
<1> HIDE DEF S
<1>6. Max(S) = h
    BY <1>3, <1>4, MaxIs
<1> QED BY <1>1, <1>2, <1>5, <1>6

\* The number of bits of a word without its sign, and BitLength.
Magnitude(x) == IF x < 0 THEN -x - 1 ELSE x

LEMMA BitLengthIs ==
    ASSUME NEW x \in Ints, NEW n \in Nat
    PROVE  /\ x \in Int /\ Magnitude(x) \in Nat /\ Magnitude(x) < Half
           /\ BitLength(x) \in Nat
           /\ BitLength(x) <= n <=> Magnitude(x) < Power[n]
<1> DEFINE v == Magnitude(x)
<1>1. x \in Int /\ v \in Nat /\ v < Half
    BY Bounds DEF Ints, Magnitude
<1>2. BitLength(x) = IF v = 0 THEN 0 ELSE HighestBit(v) + 1
    BY DEF BitLength, Magnitude
<1> HIDE DEF v
<1>3. CASE v = 0
    BY <1>1, <1>2, <1>3, PowerPositive DEF v
<1>4. CASE v # 0
    <2> DEFINE h == HighestBit(v)
    <2>1. v > 0 /\ v < Modulus
        BY <1>1, <1>4, Bounds
    <2>2. h \in Bits /\ Power[h] <= v /\ v < Power[h + 1]
        BY <1>1, <2>1, HighestBitIs
    <2>3. h \in Nat
        BY <2>2, Widths
    <2> HIDE DEF h
    <2>4. Power[h] \in Nat /\ Power[h + 1] \in Nat /\ Power[n] \in Nat /\ h + 1 \in Nat
        BY <2>3, PowerPositive
    <2>5. h + 1 <= n => v < Power[n]
        <3>1. h + 1 <= n => Power[h + 1] <= Power[n]
            BY <2>4, PowerOrder
        <3> QED BY <1>1, <2>2, <2>4, <3>1
    <2>6. ~(h + 1 <= n) => ~(v < Power[n])
        <3>1. n <= h => Power[n] <= Power[h]
            BY <2>3, PowerOrder
        <3> QED BY <1>1, <2>2, <2>3, <2>4, <3>1
    <2>7. BitLength(x) = h + 1
        BY <1>2, <1>4 DEF h
    <2> QED BY <1>1, <2>4, <2>5, <2>6, <2>7 DEF v
<1> QED BY <1>3, <1>4

\* The tests of size agree with BitLength.
LEMMA FitsLemma ==
    ASSUME left \in Ints, bits \in Bits
    PROVE  FitsInBits
<1> SUFFICES ASSUME bits > 0
             PROVE  /\ IsInt(bits, left) <=> BitLength(left) < bits
                    /\ IsUint(bits, left) <=> left >= 0 /\ BitLength(left) <= bits
                    /\ left # MinInt =>
                         \A fits \in IsAbsoluteUint(bits, left) :
                           /\ fits <=> BitLength(left) <= bits /\ left # -Bit(bits)
                           /\ fits <=> IsUint(bits, AbsWithSaturation(left))
    BY DEF FitsInBits
<1> DEFINE p == Power[bits]
           v == Magnitude(left)
<1>1. /\ bits \in Nat /\ bits < Width /\ bits - 1 \in Nat
      /\ left \in Int /\ MinInt <= left /\ left <= MaxInt
    BY Widths, Bounds DEF Ints
<1>2. /\ v \in Nat /\ BitLength(left) \in Nat
      /\ BitLength(left) <= bits <=> v < p
      /\ BitLength(left) <= bits - 1 <=> v < Power[bits - 1]
    BY <1>1, BitLengthIs
<1>3. v = IF left < 0 THEN -left - 1 ELSE left
    BY DEF Magnitude
<1>4. p \in Nat /\ p > 0 /\ Power[bits - 1] \in Nat /\ p <= Half
    <2> DEFINE n == Width - 1
    <2>1. bits <= n /\ n \in Nat /\ Half = Power[n]
        BY <1>1, Widths
    <2> HIDE DEF n
    <2>2. p <= Half
        BY <1>1, <2>1, PowerOrder
    <2> QED BY <1>1, <2>2, PowerPositive
<1>5. Half \in Nat /\ MinInt = -Half /\ MaxInt = Half - 1
    BY Bounds
<1> HIDE DEF p, v
<1>6. \A x \in Ints : IsUint(bits, x) <=> 0 <= x /\ x < p
    <2>1. ASSUME NEW x \in Ints, 0 <= x PROVE ToUnsigned(x) = x /\ x \in Int
        BY <2>1, Unsigned DEF Ints
    <2> QED BY <1>4, <2>1 DEF IsUint, p
<1>7. IsInt(bits, left) <=> BitLength(left) < bits
    <2>1. IsInt(bits, left) <=> v < Power[bits - 1]
        BY <1>1, <1>3, <1>4 DEF IsInt
    <2> QED BY <1>1, <1>2, <2>1
<1>8. IsUint(bits, left) <=> left >= 0 /\ BitLength(left) <= bits
    BY <1>1, <1>2, <1>3, <1>6
<1>9. ASSUME left # MinInt, NEW fits \in IsAbsoluteUint(bits, left)
      PROVE  /\ fits <=> BitLength(left) <= bits /\ left # -Bit(bits)
             /\ fits <=> IsUint(bits, AbsWithSaturation(left))
    <2> DEFINE m == IF left < 0 THEN -left ELSE left
    <2>1. m \in Ints /\ m >= 0
        BY <1>1, <1>5, <1>9 DEF Ints
    <2>2. fits = IsUint(bits, m)
        BY <1>9 DEF IsAbsoluteUint
    <2>3. AbsWithSaturation(left) = m
        BY <1>9 DEF AbsWithSaturation
    <2>4. IsUint(bits, m) <=> m < p
        <3> HIDE DEF m
        <3> QED BY <1>6, <2>1
    <2>5. v < p /\ left # -p <=> m < p
        BY <1>1, <1>3, <1>4
    <2> HIDE DEF m
    <2>6. BitLength(left) <= bits /\ left # -Bit(bits) <=> m < p
        BY <1>2, <2>5 DEF Bit, p
    <2> QED BY <2>2, <2>3, <2>4, <2>6
<1> QED BY <1>7, <1>8, <1>9

-----------------------------------------------------------------------------
(* Utils: rotations, masks and halves.                                     *)

\* An unsigned word is its own unsigned form.
LEMMA UnsignedWord ==
    ASSUME NEW u \in Nat, u < Modulus
    PROVE  ToUnsigned(u) = u
<1>1. Modulus \in Nat /\ Modulus > 0
    BY Bounds
<1> QED BY <1>1, Below DEF ToUnsigned

\* A rotation by r is one of the rest of the word the other way.
LEMMA OtherRotation ==
    ASSUME NEW r \in Bits
    PROVE  (Width - r) % Width = IF r = 0 THEN 0 ELSE Width - r
<1>1. Width \in Nat /\ Width > 0 /\ r \in Nat /\ r < Width
    BY Widths
<1>2. CASE r = 0
    <2> DEFINE one == 1
    <2>1. one \in Int /\ Width = Width * one
        BY <1>1
    <2> HIDE DEF one
    <2>2. Width % Width = 0
        BY <1>1, <2>1, Multiple
    <2> QED BY <1>1, <1>2, <2>2
<1>3. CASE r # 0
    <2> DEFINE d == Width - r
    <2>1. d \in Nat /\ d < Width
        BY <1>1, <1>3
    <2> HIDE DEF d
    <2>2. d % Width = d
        BY <1>1, <2>1, Below
    <2> QED BY <1>3, <2>2 DEF d
<1> QED BY <1>2, <1>3

\* Each bit of a rotated word is one of the word's.
LEMMA RotateLeftBits ==
    ASSUME NEW u \in Nat, u < Modulus, NEW r \in Bits, NEW k \in Bits
    PROVE  BitOf(RotatedLeft(u, r), k) = 1 <=>
             BitOf(u, IF k >= r THEN k - r ELSE k - r + Width) = 1
<1> DEFINE s == (Width - r) % Width
           shifted == ToUnsigned(u) * Power[r]
<1>1. /\ Width \in Nat /\ Width > 0 /\ u \in Int
      /\ r \in Nat /\ r < Width /\ k \in Nat /\ k < Width
    BY Widths
<1>2. s = IF r = 0 THEN 0 ELSE Width - r
    BY OtherRotation
<1>3. ToUnsigned(u) = u
    BY UnsignedWord
<1>4. BitOf(ToUnsigned(shifted), k) = IF k < r THEN 0 ELSE BitOf(u, k - r)
    <2>1. BitOf(u * Power[r], k) = IF k < r THEN 0 ELSE BitOf(u, k - r)
        BY <1>1, BitsOfProduct
    <2>2. u * Power[r] \in Int
        BY <1>1, PowerPositive
    <2>3. BitOf(ToUnsigned(u * Power[r]), k) = BitOf(u * Power[r], k)
        BY <2>2, UnsignedBits
    <2> QED BY <1>3, <2>1, <2>3
<1>5. RotatedLeft(u, r) = Or(ToUnsigned(shifted), Shift(u, s))
    BY DEF RotatedLeft
<1> HIDE DEF shifted, s
<1>6. BitOf(Shift(u, s), k) = BitOf(u, s + k) /\ s \in Nat
    <2>1. s \in Nat
        BY <1>1, <1>2
    <2> QED BY <1>1, <2>1, BitsOfShift
<1>7. BitOf(RotatedLeft(u, r), k) = 1 <=>
        BitOf(ToUnsigned(shifted), k) = 1 \/ BitOf(u, s + k) = 1
    BY <1>5, <1>6, OrHas
<1>8. CASE r = 0
    <2>1. s + k = k /\ k - r = k /\ k >= r /\ ~(k < r)
        BY <1>1, <1>2, <1>8
    <2> QED BY <1>4, <1>7, <2>1
<1>9. CASE r # 0 /\ k >= r
    <2>1. s + k \in Nat /\ s + k >= Width
        BY <1>1, <1>2, <1>6, <1>9
    <2>2. BitOf(u, s + k) = 0
        <3> DEFINE j == s + k
        <3> HIDE DEF j
        <3>1. BitOf(u, j) = 0
            BY <1>1, <2>1, NoBitsAbove, Widths DEF j
        <3> QED BY <3>1 DEF j
    <2>3. ~(k < r)
        BY <1>1, <1>9
    <2> QED BY <1>4, <1>7, <1>9, <2>2, <2>3
<1>10. CASE r # 0 /\ ~(k >= r)
    <2>1. s + k = k - r + Width /\ k < r
        BY <1>1, <1>2, <1>10
    <2> QED BY <1>4, <1>7, <1>10, <2>1
<1> QED BY <1>8, <1>9, <1>10

LEMMA RotateRightBits ==
    ASSUME NEW u \in Nat, u < Modulus, NEW r \in Bits, NEW k \in Bits
    PROVE  BitOf(RotatedRight(u, r), k) = 1 <=>
             BitOf(u, IF k + r < Width THEN k + r ELSE k + r - Width) = 1
<1> DEFINE s == (Width - r) % Width
           shifted == ToUnsigned(u) * Power[s]
<1>1. /\ Width \in Nat /\ Width > 0 /\ u \in Int
      /\ r \in Nat /\ r < Width /\ k \in Nat /\ k < Width
    BY Widths
<1>2. s = IF r = 0 THEN 0 ELSE Width - r
    BY OtherRotation
<1>3. ToUnsigned(u) = u
    BY UnsignedWord
<1>4. RotatedRight(u, r) = Or(Shift(u, r), ToUnsigned(shifted))
    BY DEF RotatedRight
<1> HIDE DEF s
<1>5. s \in Nat
    BY <1>1, <1>2
<1>6. BitOf(ToUnsigned(shifted), k) = IF k < s THEN 0 ELSE BitOf(u, k - s)
    <2>1. BitOf(u * Power[s], k) = IF k < s THEN 0 ELSE BitOf(u, k - s)
        BY <1>1, <1>5, BitsOfProduct
    <2>2. u * Power[s] \in Int
        BY <1>1, <1>5, PowerPositive
    <2>3. BitOf(ToUnsigned(u * Power[s]), k) = BitOf(u * Power[s], k)
        BY <2>2, UnsignedBits
    <2> QED BY <1>3, <2>1, <2>3
<1> HIDE DEF shifted
<1>7. BitOf(Shift(u, r), k) = BitOf(u, r + k)
    BY <1>1, BitsOfShift
<1>8. BitOf(RotatedRight(u, r), k) = 1 <=>
        BitOf(u, r + k) = 1 \/ BitOf(ToUnsigned(shifted), k) = 1
    BY <1>4, <1>7, OrHas
<1>9. CASE r = 0
    <2>1. r + k = k /\ k - s = k /\ k + r = k /\ ~(k < s)
        BY <1>1, <1>2, <1>9
    <2> QED BY <1>1, <1>6, <1>8, <2>1
<1>10. CASE r # 0 /\ k + r < Width
    <2>1. k < s /\ r + k = k + r
        BY <1>1, <1>2, <1>10
    <2> QED BY <1>6, <1>8, <1>10, <2>1
<1>11. CASE r # 0 /\ ~(k + r < Width)
    <2>1. ~(k < s) /\ k - s = k + r - Width
        BY <1>1, <1>2, <1>11
    <2>2. BitOf(u, r + k) = 0
        <3> DEFINE j == r + k
        <3>1. j \in Nat /\ j >= Width
            BY <1>1, <1>11
        <3> HIDE DEF j
        <3>2. BitOf(u, j) = 0
            BY <1>1, <3>1, NoBitsAbove, Widths
        <3> QED BY <3>2 DEF j
    <2> QED BY <1>6, <1>8, <1>11, <2>1, <2>2
<1> QED BY <1>9, <1>10, <1>11

\* Rotations move each bit to its place around the word and undo each other.
LEMMA RotationsLemma ==
    ASSUME left \in Ints, bits \in Bits
    PROVE  RotationsInvert
<1> DEFINE u == ToUnsigned(left)
           L == RotatedLeft(u, bits)
           R == RotatedRight(u, bits)
<1>1. u \in Nat /\ u < Modulus
    BY UnsignedBits DEF Ints
<1>2. bits \in Nat /\ bits < Width /\ Width \in Nat /\ Width > 0
    BY Widths
<1>3. \A k : k \in Bits <=> k \in Nat /\ k < Width
    BY Widths
<1> HIDE DEF u
<1>4. L \in Nat /\ L < Modulus /\ R \in Nat /\ R < Modulus
    BY OrHas DEF RotatedLeft, RotatedRight
<1> HIDE DEF L, R
<1>5. ASSUME NEW k \in Bits
      PROVE  BitOf(L, k) = 1 <=>
               BitOf(u, IF k >= bits THEN k - bits ELSE k - bits + Width) = 1
    BY <1>1, RotateLeftBits DEF L
<1>6. ASSUME NEW k \in Bits
      PROVE  BitOf(R, k) = 1 <=>
               BitOf(u, IF k + bits < Width THEN k + bits ELSE k + bits - Width) = 1
    BY <1>1, RotateRightBits DEF R
<1>7. ASSUME NEW k \in Bits
      PROVE  BitOf(L, (k + bits) % Width) = BitOf(u, k)
    <2>1. k \in Nat /\ k < Width
        BY <1>3
    <2> DEFINE j == IF k + bits < Width THEN k + bits ELSE k + bits - Width
    <2>2. /\ j \in Nat /\ j < Width
          /\ (IF j >= bits THEN j - bits ELSE j - bits + Width) = k
        BY <1>2, <2>1
    <2>3. (k + bits) % Width = j
        <3>1. CASE k + bits < Width
            <4> DEFINE d == k + bits
            <4>1. d \in Nat /\ d < Width
                BY <1>2, <2>1, <3>1
            <4> HIDE DEF d
            <4>2. d % Width = d
                BY <1>2, <4>1, Below
            <4> QED BY <3>1, <4>2 DEF d
        <3>2. CASE ~(k + bits < Width)
            <4> DEFINE d == k + bits - Width
                       one == 1
            <4>1. d \in Nat /\ d < Width /\ one \in Int
                BY <1>2, <2>1, <3>2
            <4>2. k + bits = Width * one + d
                BY <1>2, <2>1
            <4> HIDE DEF d, one
            <4>3. (Width * one + d) % Width = d
                BY <1>2, <4>1, Division
            <4> QED BY <3>2, <4>2, <4>3 DEF d
        <3> QED BY <3>1, <3>2
    <2> HIDE DEF j
    <2>4. BitOf(L, j) = 1 <=> BitOf(u, k) = 1
        BY <1>3, <1>5, <2>2
    <2>5. BitOf(L, j) \in {0, 1} /\ BitOf(u, k) \in {0, 1}
        <3>1. L \in Int /\ u \in Int
            BY <1>1, <1>4
        <3> QED BY <2>1, <2>2, <3>1, Shifted
    <2> QED BY <2>3, <2>4, <2>5
<1>8. RotatedRight(L, bits) = u
    <2>1. RotatedRight(L, bits) \in Nat /\ RotatedRight(L, bits) < Modulus
        BY OrHas DEF RotatedRight
    <2>2. ASSUME NEW k \in Bits
          PROVE  BitOf(RotatedRight(L, bits), k) = 1 <=> BitOf(u, k) = 1
        <3> DEFINE j == IF k + bits < Width THEN k + bits ELSE k + bits - Width
        <3>1. k \in Nat /\ k < Width
            BY <1>3
        <3>2. /\ j \in Nat /\ j < Width
              /\ (IF j >= bits THEN j - bits ELSE j - bits + Width) = k
            BY <1>2, <3>1
        <3>3. BitOf(RotatedRight(L, bits), k) = 1 <=> BitOf(L, j) = 1
            BY <1>4, RotateRightBits
        <3> HIDE DEF j
        <3>4. BitOf(L, j) = 1 <=> BitOf(u, k) = 1
            BY <1>3, <1>5, <3>2
        <3> QED BY <3>3, <3>4
    <2> QED BY <1>1, <2>1, <2>2, SameWord
<1>9. RotatedLeft(R, bits) = u
    <2>1. RotatedLeft(R, bits) \in Nat /\ RotatedLeft(R, bits) < Modulus
        BY OrHas DEF RotatedLeft
    <2>2. ASSUME NEW k \in Bits
          PROVE  BitOf(RotatedLeft(R, bits), k) = 1 <=> BitOf(u, k) = 1
        <3> DEFINE j == IF k >= bits THEN k - bits ELSE k - bits + Width
        <3>1. k \in Nat /\ k < Width
            BY <1>3
        <3>2. /\ j \in Nat /\ j < Width
              /\ (IF j + bits < Width THEN j + bits ELSE j + bits - Width) = k
            BY <1>2, <3>1
        <3>3. BitOf(RotatedLeft(R, bits), k) = 1 <=> BitOf(R, j) = 1
            BY <1>4, RotateLeftBits
        <3> HIDE DEF j
        <3>4. BitOf(R, j) = 1 <=> BitOf(u, k) = 1
            BY <1>3, <1>6, <3>2
        <3> QED BY <3>3, <3>4
    <2> QED BY <1>1, <2>1, <2>2, SameWord
<1>10. \A x : RotateLeft(x, bits) = {RotatedLeft(x, bits)}
             /\ RotateRight(x, bits) = {RotatedRight(x, bits)}
    BY <1>2 DEF RotateLeft, RotateRight
<1>11. RotateLeft(u, bits) = {L} /\ RotateRight(u, bits) = {R}
    BY <1>10 DEF L, R
<1>12. RotateRight(L, bits) = {u} /\ RotateLeft(R, bits) = {u}
    BY <1>8, <1>9, <1>10
<1> QED BY <1>7, <1>11, <1>12 DEF RotationsInvert, u

\* The words with one bit are the powers of two; masks hold the bits below.
LEMMA MasksLemma ==
    ASSUME left \in Ints, bits \in Bits
    PROVE  MasksAndPowers
<1> DEFINE u == ToUnsigned(left)
<1>1. u \in Nat /\ u < Modulus
    BY UnsignedBits DEF Ints
<1>2. bits \in Nat /\ bits < Width /\ Width \in Nat /\ Modulus = Power[Width]
    BY Widths
<1>3. \A k : k \in Bits <=> k \in Nat /\ k < Width
    BY Widths
<1> HIDE DEF u
<1>4. ASSUME NEW k \in Bits, u = Bit(k) PROVE IsPowerOfTwo(u)
    <2>1. k \in Nat /\ k \in 0 .. Width /\ u = Power[k]
        BY <1>2, <1>3, <1>4 DEF Bit
    <2>2. u > 0
        BY <2>1, PowerPositive
    <2>3. And(u, Power[k] - 1) = u % Power[k]
        BY <1>1, <2>1, AndMask
    <2>4. u % u = 0
        <3> DEFINE one == 1
        <3>1. one \in Int /\ u = u * one
            BY <1>1
        <3> HIDE DEF one
        <3> QED BY <1>1, <2>2, <3>1, Multiple
    <2> QED BY <2>1, <2>2, <2>3, <2>4 DEF IsPowerOfTwo
<1>5. ASSUME IsPowerOfTwo(u) PROVE \E k \in Bits : u = Bit(k)
    <2>1. And(u, u - 1) = 0 /\ u > 0
        BY <1>1, <1>5 DEF IsPowerOfTwo
    <2>2. PICK h \in 0 .. (Width - 1) :
            Power[h] <= u /\ u < Power[h + 1] /\ BitOf(u, h) = 1
        BY <1>1, <1>2, <2>1, HighestOf
    <2>3. h \in Bits /\ h \in Nat /\ Power[h] \in Nat
        BY <1>2, <1>3, PowerPositive
    <2>4. ASSUME u # Power[h] PROVE FALSE
        <3> DEFINE y == u - 1
        <3>1. y \in Nat /\ Power[h] <= y /\ y < Power[h + 1]
            <4>1. Power[h + 1] \in Nat
                BY <2>3, PowerPositive
            <4> QED BY <1>1, <2>1, <2>2, <2>3, <2>4, <4>1
        <3> HIDE DEF y
        <3>2. BitOf(y, h) = 1
            BY <2>3, <3>1, TopBit
        <3>3. BitOf(And(u, y), h) = 1
            BY <2>2, <2>3, <3>2, AndHas
        <3>4. BitOf(0, h) = 0
            <4>1. 0 < Power[0]
                BY PowerType
            <4> QED BY <2>3, <4>1, NoBitsAbove
        <3> QED BY <2>1, <3>3, <3>4 DEF y
    <2> QED BY <2>3, <2>4 DEF Bit
<1>6. ShiftForPowerOfTwo(Bit(bits)) = bits
    <2> DEFINE x == Power[bits]
               IsShift(k) == /\ Shift(x, k) <= 1
                             /\ \A j \in 0 .. (k - 1) : Shift(x, j) > 1
    <2>1. ASSUME NEW j \in Nat, j <= bits PROVE Shift(x, j) = Power[bits - j]
        <3>1. bits - j \in Nat /\ Power[bits] = Power[j] * Power[bits - j]
            BY <1>2, <2>1, PowerOrder
        <3>2. Power[j] \in Nat /\ Power[j] > 0 /\ Power[bits - j] \in Int
            BY <3>1, PowerPositive
        <3> DEFINE m == Power[j]
                   q == Power[bits - j]
        <3> HIDE DEF m, q, x
        <3>3. x = m * q
            BY <3>1 DEF m, q, x
        <3>4. x \div m = q
            BY <3>2, <3>3, Multiple DEF m, q
        <3> QED BY <3>4 DEF Shift, m, q
    <2>2. Shift(x, bits) = 1
        <3>1. bits - bits = 0 /\ bits <= bits
            BY <1>2
        <3>2. Shift(x, bits) = Power[bits - bits]
            BY <1>2, <2>1, <3>1
        <3> QED BY <3>1, <3>2, PowerType
    <2>3. ASSUME NEW j \in Nat, j < bits PROVE Shift(x, j) > 1
        <3>1. /\ bits - j \in Nat /\ bits - j - 1 \in Nat
              /\ Power[bits - j] = 2 * Power[bits - j - 1]
            BY <1>2, <2>3, PowerOrder
        <3>2. Power[bits - j - 1] \in Nat /\ Power[bits - j - 1] >= 1
            BY <3>1, PowerPositive
        <3>3. Shift(x, j) = Power[bits - j]
            BY <1>2, <2>1, <2>3
        <3> QED BY <3>1, <3>2, <3>3
    <2> HIDE DEF x
    <2>4. IsShift(bits)
        BY <1>2, <2>2, <2>3
    <2>5. ASSUME NEW k \in Bits, IsShift(k) PROVE k = bits
        <3>1. k \in Nat
            BY <1>3
        <3>2. ~(k < bits)
            <4>1. ASSUME k < bits PROVE FALSE
                <5>1. Shift(x, k) > 1 /\ Shift(x, k) <= 1
                    BY <2>3, <2>5, <3>1, <4>1
                <5>2. Shift(x, k) \in Int
                    <6>1. x \in Int
                        BY <1>2, PowerPositive DEF x
                    <6> QED BY <3>1, <6>1, Shifted
                <5> QED BY <5>1, <5>2
            <4> QED BY <4>1
        <3>3. ~(bits < k)
            <4>1. ASSUME bits < k PROVE FALSE
                <5>1. bits \in 0 .. (k - 1)
                    BY <1>2, <3>1, <4>1
                <5> QED BY <2>2, <2>5, <5>1
            <4> QED BY <4>1
        <3> QED BY <1>2, <3>1, <3>2, <3>3
    <2>6. ShiftForPowerOfTwo(x) = CHOOSE k \in Bits : IsShift(k)
        BY DEF ShiftForPowerOfTwo
    <2> HIDE DEF IsShift
    <2>7. ShiftForPowerOfTwo(x) = bits
        BY <2>4, <2>5, <2>6
    <2> QED BY <2>7 DEF Bit, x
<1>7. ASSUME NEW k \in Bits
      PROVE  /\ TestBit(NBitMask(bits), k) <=> k < bits
             /\ TestBit(NBitMask(Width), k)
    <2>1. NBitMask(bits) = Power[bits] - 1 /\ NBitMask(Width) = Power[Width] - 1
        BY <1>2 DEF NBitMask
    <2>2. /\ BitOf(Power[bits] - 1, k) = IF k < bits THEN 1 ELSE 0
          /\ BitOf(Power[Width] - 1, k) = IF k < Width THEN 1 ELSE 0
        BY <1>2, <1>3, BitsOfMask
    <2> QED BY <1>3, <2>1, <2>2 DEF TestBit
<1> QED BY <1>4, <1>5, <1>6, <1>7 DEF MasksAndPowers, u

\* The halves of a word have its bits, whatever the sign of the lower one.
LEMMA HalvesLemma ==
    ASSUME left \in Ints
    PROVE  HalvesRejoin
<1> DEFINE n == Width \div 2
           high == HighBits(left)
           low == left % HalfWord
<1>1. Width \in Nat /\ n \in Nat /\ n < Width /\ left \in Int /\ n \in 0 .. Width
    BY Widths, Bounds DEF Ints
<1>2. HalfWord = Power[n] /\ high = Shift(left, n)
    BY DEF HalfWord, HighBits
<1> HIDE DEF n, high, low
<1>3. /\ high \in Int
      /\ low \in Nat /\ low < HalfWord /\ HalfWord \in Nat /\ HalfWord > 0
    <2>1. Shift(left, n) \in Int
          /\ left % Power[n] \in Nat /\ left % Power[n] < Power[n]
        BY <1>1, Shifted
    <2>2. Power[n] \in Nat /\ Power[n] > 0
        BY <1>1, PowerPositive
    <2> QED BY <1>2, <2>1, <2>2 DEF low
<1>4. And(left, HalfWord - 1) = low
    BY <1>1, <1>2, AndMask DEF low
<1>5. low % HalfWord = low
    BY <1>3, Below
<1>6. (low - HalfWord) % HalfWord = low
    <2> DEFINE x == low - HalfWord
               q == -1
    <2>1. q \in Int /\ x = HalfWord * q + low
        BY <1>3
    <2> HIDE DEF x, q
    <2>2. x % HalfWord = low
        <3>1. Shift(x, n) = q /\ x % Power[n] = low
            BY <1>1, <1>2, <1>3, <2>1, ShiftIs
        <3> QED BY <1>2, <3>1
    <2> QED BY <2>2 DEF x
<1>7. Or(ToUnsigned(high) * HalfWord, low) = ToUnsigned(left)
    <2> DEFINE x == ToUnsigned(high) * HalfWord
               word == Or(x, low)
    <2>1. word \in Nat /\ word < Modulus
        BY OrHas
    <2>2. /\ ToUnsigned(left) \in Nat /\ ToUnsigned(left) < Modulus
          /\ \A k \in Bits : BitOf(ToUnsigned(left), k) = BitOf(left, k)
        BY <1>1, UnsignedBits
    <2>3. ASSUME NEW k \in Bits
          PROVE  BitOf(word, k) = 1 <=> BitOf(ToUnsigned(left), k) = 1
        <3>1. k \in Nat /\ k < Width
            BY Widths
        <3>2. ToUnsigned(high) \in Int
            BY <1>3, UnsignedBits
        <3>3. BitOf(ToUnsigned(high) * Power[n], k) =
                IF k < n THEN 0 ELSE BitOf(ToUnsigned(high), k - n)
            BY <1>1, <3>1, <3>2, BitsOfProduct
        <3>4. BitOf(low, k) = IF k < n THEN BitOf(left, k) ELSE 0
            BY <1>1, <1>2, <3>1, BitsOfRemainder DEF low
        <3>5. ~(k < n) => BitOf(ToUnsigned(high), k - n) = BitOf(left, k)
            <4> SUFFICES ASSUME ~(k < n)
                         PROVE  BitOf(ToUnsigned(high), k - n) = BitOf(left, k)
                OBVIOUS
            <4> DEFINE j == k - n
            <4>1. j \in Nat /\ j \in Bits /\ n + j = k
                BY <1>1, <3>1, Widths
            <4> HIDE DEF j
            <4>2. BitOf(ToUnsigned(high), j) = BitOf(high, j)
                BY <1>3, <4>1, UnsignedBits
            <4>3. BitOf(high, j) = BitOf(left, n + j)
                BY <1>1, <1>2, <4>1, BitsOfShift
            <4> QED BY <4>1, <4>2, <4>3 DEF j
        <3>6. BitOf(word, k) = 1 <=> BitOf(x, k) = 1 \/ BitOf(low, k) = 1
            BY OrHas
        <3>7. BitOf(x, k) = IF k < n THEN 0 ELSE BitOf(ToUnsigned(high), k - n)
            BY <1>2, <3>3
        <3> HIDE DEF x, word
        <3> QED BY <2>2, <3>4, <3>5, <3>6, <3>7
    <2> HIDE DEF word, x
    <2>4. word = ToUnsigned(left)
        BY <2>1, <2>2, <2>3, SameWord
    <2> QED BY <2>4 DEF word, x
<1>8. ToSigned(ToUnsigned(left)) = left
    <2>1. PICK k \in {0, 1} : ToUnsigned(left) = left + k * Modulus
        BY UnsignedIsCongruent
    <2> QED BY <2>1, Signed
<1>9. Low16Bits(left) = low /\ Low32Bits(left) \in {low, low - HalfWord}
    BY <1>4 DEF Low16Bits, Low32Bits
<1> QED BY <1>5, <1>6, <1>7, <1>8, <1>9
           DEF HalvesRejoin, LowHighTo64Bits, high

-----------------------------------------------------------------------------
(* Utils: doubles.                                                         *)

\* A double is a significand of few bits, shifted.
LEMMA DoubleIs ==
    ASSUME NEW v \in Int
    PROVE  IsDouble(v) <=>
             \E e \in 0 .. Width : \E q \in Int :
                v = Power[e] * q /\ -Power[Precision] < q /\ q < Power[Precision]
<1>1. ASSUME NEW e \in 0 .. Width, NEW q \in Int, v = Power[e] * q
      PROVE  v % Power[e] = 0 /\ v \div Power[e] = q
    <2>1. Power[e] \in Nat /\ Power[e] > 0
        BY PowerPositive
    <2> DEFINE m == Power[e]
    <2> HIDE DEF m
    <2> QED BY <1>1, <2>1, Multiple DEF m
<1>2. ASSUME NEW e \in 0 .. Width, v % Power[e] = 0
      PROVE  v \div Power[e] \in Int /\ v = Power[e] * (v \div Power[e])
    <2>1. Power[e] \in Nat /\ Power[e] > 0
        BY PowerPositive
    <2>2. v \div Power[e] \in Int /\ v = Power[e] * (v \div Power[e]) + (v % Power[e])
        BY <2>1, Divided
    <2>3. Power[e] * (v \div Power[e]) \in Int
        BY <2>1, <2>2
    <2> QED BY <1>2, <2>2, <2>3
<1>3. ASSUME IsDouble(v)
      PROVE  \E e \in 0 .. Width : \E q \in Int :
                v = Power[e] * q /\ -Power[Precision] < q /\ q < Power[Precision]
    <2>1. PICK e \in 0 .. Width :
            /\ v % Power[e] = 0
            /\ -(Power[Precision]) < v \div Power[e]
            /\ v \div Power[e] < Power[Precision]
        BY <1>3 DEF IsDouble
    <2>2. v \div Power[e] \in Int /\ v = Power[e] * (v \div Power[e])
        BY <1>2, <2>1
    <2> QED BY <2>1, <2>2
<1>4. ASSUME NEW e \in 0 .. Width, NEW q \in Int, v = Power[e] * q,
             -Power[Precision] < q, q < Power[Precision]
      PROVE  IsDouble(v)
    <2>1. v % Power[e] = 0 /\ v \div Power[e] = q
        BY <1>1, <1>4
    <2> QED BY <1>4, <2>1 DEF IsDouble
<1> QED BY <1>3, <1>4

\* The doubles that are considered.
LEMMA InDoubles ==
    ASSUME NEW v \in Int, -(2 * Modulus) <= v, v <= 2 * Modulus
    PROVE  v \in Doubles <=> IsDouble(v)
BY Bounds DEF Doubles

\* A significand itself is a double.
LEMMA SmallIsDouble ==
    ASSUME NEW v \in Int, -Power[Precision] < v, v < Power[Precision]
    PROVE  IsDouble(v)
<1>1. 0 \in 0 .. Width
    BY Widths
<1>2. v = Power[0] * v
    BY PowerType
<1> QED BY <1>1, <1>2, DoubleIs

\* So are the powers of two of a word and their negatives.
LEMMA PowerIsDouble ==
    ASSUME NEW e \in 0 .. Width
    PROVE  IsDouble(Power[e]) /\ IsDouble(-Power[e])
<1>1. Power[e] \in Nat /\ Power[Precision] \in Nat /\ Power[Precision] > 1
    BY Widths, PowerPositive
<1> DEFINE one == 1
           minus == -1
<1>2. /\ one \in Int /\ minus \in Int
      /\ Power[e] = Power[e] * one /\ -Power[e] = Power[e] * minus
      /\ -Power[Precision] < one /\ one < Power[Precision]
      /\ -Power[Precision] < minus /\ minus < Power[Precision]
    BY <1>1
<1> HIDE DEF one, minus
<1>3. IsDouble(Power[e])
    <2>1. Power[e] \in Int
        BY <1>1
    <2> QED BY <1>2, <2>1, DoubleIs
<1>4. IsDouble(-Power[e])
    <2>1. -Power[e] \in Int
        BY <1>1
    <2> DEFINE v == -Power[e]
    <2>2. v \in Int /\ v = Power[e] * minus
        BY <1>2, <2>1
    <2> HIDE DEF v
    <2>3. IsDouble(v)
        BY <1>2, <2>2, DoubleIs
    <2> QED BY <2>3 DEF v
<1> QED BY <1>3, <1>4

\* A double is converted to itself.
LEMMA ToDoubleIs ==
    ASSUME NEW x \in Doubles
    PROVE  ToDouble(x) = x
<1> DEFINE Away(u) == IF u < x THEN x - u ELSE u - x
           Nearest(v) == \A w \in Doubles :
                           \/ Away(v) < Away(w)
                           \/ Away(v) = Away(w) /\ v * v >= w * w
<1>1. Doubles \subseteq Int
    BY Bounds DEF Doubles
<1>2. \A u \in Doubles : Away(u) \in Nat /\ (Away(u) = 0 => u = x)
    BY <1>1
<1>3. Away(x) = 0
    BY <1>1
<1>4. ToDouble(x) = CHOOSE v \in Doubles : Nearest(v)
    BY DEF ToDouble
<1>5. Nearest(x)
    <2>1. x * x >= x * x
        BY <1>1
    <2>2. ASSUME NEW w \in Doubles, w # x PROVE Away(x) < Away(w)
        <3> HIDE DEF Away
        <3> QED BY <1>2, <1>3, <2>2
    <2> QED BY <2>1, <2>2
<1>6. ASSUME NEW v \in Doubles, Nearest(v) PROVE v = x
    <2>1. Away(v) <= Away(x)
        <3>1. Away(v) < Away(x) \/ Away(v) = Away(x)
            BY <1>6
        <3> HIDE DEF Away, Nearest
        <3> QED BY <1>2, <3>1
    <2> HIDE DEF Away, Nearest
    <2> QED BY <1>2, <1>3, <2>1
<1> HIDE DEF Nearest
<1> QED BY <1>4, <1>5, <1>6

\* SafeDoubleToInt to half a word.
LEMMA ConversionLemma ==
    ASSUME real \in Doubles \cup {0, NaN}
    PROVE  ConversionIsExact
<1> DEFINE T == Width \div 2
           p == Power[T - 1]
<1> SUFFICES ASSUME T <= Precision + 1
             PROVE  SafeDoubleToInt(T, real) =
                      IF real # NaN /\ real \in Least(T) .. Greatest(T) THEN real
                      ELSE Least(T)
    BY DEF ConversionIsExact
<1>1. T \in Nat /\ T - 1 \in Nat /\ T - 1 <= Precision /\ T - 1 \in 0 .. Width
    BY Widths
<1>2. /\ Precision \in Nat /\ Width \in Nat /\ Precision < Width
      /\ Modulus = Power[Width]
    BY Widths
<1> HIDE DEF T
<1>3. /\ p \in Nat /\ p > 0 /\ p <= Power[Precision]
      /\ Power[Precision] \in Nat /\ Power[Precision] <= Modulus
    <2>1. p <= Power[Precision] /\ Power[Precision] <= Power[Width]
        BY <1>1, <1>2, PowerOrder
    <2> QED BY <1>1, <1>2, <2>1, PowerPositive
<1>4. Least(T) = -p /\ Greatest(T) = p - 1
    BY DEF Least, Greatest
<1>5. Least(T) \in Doubles /\ Greatest(T) \in Doubles
    <2>1. IsDouble(-p)
        BY <1>1, PowerIsDouble
    <2>2. IsDouble(p - 1)
        <3> DEFINE v == p - 1
        <3>1. v \in Int /\ -Power[Precision] < v /\ v < Power[Precision]
            BY <1>3
        <3> HIDE DEF v
        <3>2. IsDouble(v)
            BY <3>1, SmallIsDouble
        <3> QED BY <3>2 DEF v
    <2> HIDE DEF p
    <2>3. -p \in Doubles
        <3> DEFINE v == -p
        <3>1. v \in Int /\ -(2 * Modulus) <= v /\ v <= 2 * Modulus
            BY <1>3, Bounds
        <3> HIDE DEF v
        <3>2. v \in Doubles <=> IsDouble(v)
            BY <3>1, InDoubles
        <3> QED BY <2>1, <3>2 DEF v
    <2>4. p - 1 \in Doubles
        <3> DEFINE v == p - 1
        <3>1. v \in Int /\ -(2 * Modulus) <= v /\ v <= 2 * Modulus
            BY <1>3, Bounds
        <3> HIDE DEF v
        <3>2. v \in Doubles <=> IsDouble(v)
            BY <3>1, InDoubles
        <3> QED BY <2>2, <3>2 DEF v
    <2> QED BY <1>4, <2>3, <2>4
<1>6. ToDouble(Least(T)) = Least(T) /\ ToDouble(Greatest(T)) = Greatest(T)
    BY <1>5, ToDoubleIs
<1>7. real # NaN => real \in Int
    BY Bounds DEF Doubles
<1>8. Least(T) \in Int /\ Greatest(T) \in Int
    BY <1>3, <1>4
<1>9. Casts(T, real) <=> real # NaN /\ real \in Least(T) .. Greatest(T)
    BY <1>6, <1>7, <1>8 DEF Casts
<1> QED BY <1>9 DEF SafeDoubleToInt

\* The bounds of globals.h, and those of dart2js.
LEMMA RepresentableLemma ==
    ASSUME left \in Ints, real \in Doubles \cup {0, NaN}
    PROVE  RepresentableIsExact
<1> DEFINE p == Power[Precision]
           d == Width - 1 - Precision
           g == Power[d]
<1>1. /\ d \in Nat /\ d \in 0 .. Width /\ Width - 1 \in 0 .. Width
      /\ Precision \in Nat /\ Precision \in 0 .. Width /\ Precision >= 1
      /\ Width \in Nat /\ Width - 1 \in Nat /\ d <= Width - 1
      /\ (Width - 1) - d = Precision /\ Half = Power[Width - 1]
    BY Widths
<1>2. p \in Nat /\ p > 1 /\ g \in Nat /\ g > 0 /\ Half = g * p
    <2>1. Half = g * p
        <3> DEFINE n == Width - 1
        <3>1. n \in Nat /\ d <= n /\ n - d = Precision /\ Half = Power[n]
            BY <1>1
        <3> HIDE DEF n, d
        <3>2. Power[n] = Power[d] * Power[n - d]
            BY <1>1, <3>1, PowerOrder
        <3> QED BY <3>1, <3>2
    <2> QED BY <1>1, <2>1, PowerPositive
<1>3. MinInt = -Half /\ MaxInt = Half - 1 /\ Modulus = 2 * Half /\ Half \in Nat
    BY Bounds
<1>4. MaxRepresentable = g * (p - 1) /\ MaxRepresentable = Half - g
    BY <1>2, <1>3 DEF MaxRepresentable
<1>5. MinRepresentable \in Doubles
    <2> DEFINE v == -Half
    <2>1. IsDouble(v)
        BY <1>1, PowerIsDouble
    <2>2. v \in Int /\ -(2 * Modulus) <= v /\ v <= 2 * Modulus
        BY <1>3
    <2>3. MinRepresentable = v
        BY <1>3 DEF MinRepresentable
    <2> HIDE DEF v
    <2> QED BY <2>1, <2>2, <2>3, InDoubles
<1>6. MaxRepresentable \in Doubles
    <2> DEFINE v == MaxRepresentable
               q == p - 1
    <2> HIDE DEF p
    <2>1. q \in Int /\ -p < q /\ q < p /\ v = Power[d] * q
        BY <1>2, <1>4
    <2>2. v \in Int /\ -(2 * Modulus) <= v /\ v <= 2 * Modulus
        BY <1>2, <1>3, <1>4
    <2> HIDE DEF v, q, d
    <2>3. IsDouble(v)
        BY <1>1, <2>1, <2>2, DoubleIs DEF p
    <2> QED BY <2>2, <2>3, InDoubles DEF v
<1>7. ASSUME real # NaN
      PROVE  real \in Ints <=> MinRepresentable <= real /\ real <= MaxRepresentable
    <2>1. real \in Int /\ IsDouble(real)
        <3>1. CASE real = 0
            <4>1. IsDouble(0)
                BY <1>2, SmallIsDouble
            <4> QED BY <3>1, <4>1
        <3>2. CASE real \in Doubles
            BY <3>2, Bounds DEF Doubles
        <3> QED BY <1>7, <3>1, <3>2
    <2>2. PICK e \in 0 .. Width : \E q \in Int :
            real = Power[e] * q /\ -p < q /\ q < p
        BY <2>1, DoubleIs
    <2>3. PICK q \in Int : real = Power[e] * q /\ -p < q /\ q < p
        BY <2>2
    <2>4. e \in Nat /\ Power[e] \in Nat /\ Power[e] > 0
        BY PowerPositive
    <2>5. ASSUME real < Half PROVE real <= MaxRepresentable
        <3>1. CASE e <= d
            <4>1. Power[e] <= g
                BY <1>1, <2>4, <3>1, PowerOrder
            <4>2. Power[e] * q <= Power[e] * (p - 1)
                <5>1. q <= p - 1 /\ p - 1 \in Int
                    BY <1>2, <2>3
                <5> QED BY <2>4, <5>1, MoreOf
            <4>3. (p - 1) * Power[e] <= (p - 1) * g
                <5>1. p - 1 \in Nat
                    BY <1>2
                <5> QED BY <1>2, <2>4, <4>1, <5>1, MoreOf
            <4>4. Power[e] * (p - 1) = (p - 1) * Power[e] /\ g * (p - 1) = (p - 1) * g
                BY <1>2, <2>4
            <4>5. (p - 1) * Power[e] \in Int /\ (p - 1) * g \in Int
                BY <1>2, <2>4
            <4> QED BY <1>4, <2>1, <2>3, <4>2, <4>3, <4>4, <4>5
        <3>2. CASE ~(e <= d)
            <4> DEFINE m == Power[e - d]
                       i == m * q
            <4>1. e - d \in Nat /\ Power[e] = g * m
                BY <1>1, <2>4, <3>2, PowerOrder
            <4>2. m \in Nat
                BY <4>1, PowerPositive
            <4> HIDE DEF m, g, p
            <4>3. i \in Int /\ real = g * i
                BY <1>2, <2>3, <4>1, <4>2
            <4> HIDE DEF i
            <4>4. ~(i >= p)
                <5>1. i >= p => g * p <= g * i
                    BY <1>2, <4>3, MoreOf
                <5> QED BY <1>2, <2>1, <2>5, <4>3, <5>1
            <4>5. g * i <= g * (p - 1)
                <5>1. i <= p - 1 /\ p - 1 \in Int
                    BY <1>2, <4>3, <4>4
                <5> QED BY <1>2, <4>3, <5>1, MoreOf
            <4> QED BY <1>4, <4>3, <4>5
        <3> QED BY <3>1, <3>2
    <2>6. MaxRepresentable <= MaxInt /\ MaxRepresentable \in Int
        BY <1>2, <1>3, <1>4
    <2>7. MinRepresentable = MinInt
        BY DEF MinRepresentable
    <2> HIDE DEF p, g, d
    <2> QED BY <1>3, <2>1, <2>5, <2>6, <2>7 DEF Ints
<1>8. IsJavascriptInt(left) <=>
        LET n == IF left < 0 THEN -left ELSE left
        IN \A v \in -n .. n : IsDouble(v)
    <2> DEFINE n == IF left < 0 THEN -left ELSE left
    <2>1. left \in Int /\ n \in Nat
        BY <1>3 DEF Ints
    <2>2. IsJavascriptInt(left) <=> n <= p
        BY <1>2, <2>1 DEF IsJavascriptInt
    <2>3. ASSUME n <= p, NEW v \in -n .. n PROVE IsDouble(v)
        <3>1. v \in Int /\ -p <= v /\ v <= p
            BY <1>2, <2>1, <2>3
        <3>2. CASE v = p \/ v = -p
            BY <1>1, <3>2, PowerIsDouble
        <3>3. CASE v # p /\ v # -p
            <4>1. -p < v /\ v < p
                BY <1>2, <3>1, <3>3
            <4> QED BY <3>1, <4>1, SmallIsDouble
        <3> QED BY <3>2, <3>3
    <2>4. ASSUME ~(n <= p) PROVE \E v \in -n .. n : ~IsDouble(v)
        <3> DEFINE v == p + 1
        <3>1. v \in -n .. n /\ v \in Int
            BY <1>2, <2>1, <2>4
        <3>2. ASSUME NEW e \in 0 .. Width, NEW q \in Int, v = Power[e] * q,
                     q < p
              PROVE  FALSE
            <4>1. e # 0
                BY <1>2, <3>2, PowerType
            <4>2. e - 1 \in Nat /\ Precision - 1 \in Nat
                  /\ (e - 1) + 1 = e /\ (Precision - 1) + 1 = Precision
                BY <1>1, <4>1
            <4>3. Power[e] = 2 * Power[e - 1] /\ p = 2 * Power[Precision - 1]
                BY <4>2, PowerType
            <4>4. Power[e - 1] \in Nat /\ Power[Precision - 1] \in Nat
                BY <4>2, PowerPositive
            <4> DEFINE i == Power[e - 1] * q
            <4>5. i \in Int /\ v = 2 * i
                BY <3>2, <4>3, <4>4
            <4> HIDE DEF i
            <4> QED BY <4>3, <4>4, <4>5
        <3> HIDE DEF v
        <3>3. ~IsDouble(v)
            BY <3>1, <3>2, DoubleIs
        <3> QED BY <3>1, <3>3
    <2> HIDE DEF n
    <2>5. IsJavascriptInt(left) <=> \A v \in -n .. n : IsDouble(v)
        BY <2>2, <2>3, <2>4
    <2> QED BY <2>5 DEF n
<1> QED BY <1>5, <1>6, <1>7, <1>8 DEF RepresentableIsExact

-----------------------------------------------------------------------------
(* Utils: the theorems.                                                    *)

\* The arguments do not change.
LEMMA StaysWords == Words /\ [NumbersNext]_numbers => Words'
BY DEF Words, NumbersNext, numbers

\* The overflow tests (utils.h:258-266) and RangeCheck (utils.h:251-256) are
\* exact for words of every width, and overflow nowhere themselves.
THEOREM BoundsNeverOverflow == NumbersSpec => []BoundsAreExact
<1>1. NumbersSpec => []Words
  BY InitWords, StaysWords, PTL DEF NumbersSpec
<1>2. Words => BoundsAreExact
  BY OverflowLemma, RangeCheckLemma DEF BoundsAreExact
<1> QED BY <1>1, <1>2, PTL

\* The sums and differences of utils.h:268-284 wrap around once, where the
\* tests say that they overflow and nowhere else, for words of every width.
THEOREM SumsWrapOnce == NumbersSpec => []WrapsOnce
<1>1. NumbersSpec => []Words
  BY InitWords, StaysWords, PTL DEF NumbersSpec
<1> QED BY <1>1, WrapsLemma, PTL

\* The helpers for bits of utils.h (45-219, 286-330, 371-400) compute what
\* arithmetic says, for words of every width: products and shifts, rounding,
\* the tests of size, masks and halves; the magnitude of every word but the
\* least (197 negates it), and rotations of unsigned words by less than the
\* width, where what the code does is defined.
THEOREM BitsAreArithmetic == NumbersSpec => []WordsAreExact
<1>1. NumbersSpec => []Words
  BY InitWords, StaysWords, PTL DEF NumbersSpec
<1>2. Words => WordsAreExact
  BY ShiftsLemma, RoundsLemma, FitsLemma, RotationsLemma, MasksLemma,
     HalvesLemma
     DEF Words, WordsAreExact
<1> QED BY <1>1, <1>2, PTL

\* The conversions from doubles of utils.h:354-369 and the bounds kept for
\* them (globals.h:499-501) are exact, for words of every width and doubles of
\* every precision below it.
THEOREM ConversionsAreExact == NumbersSpec => []DoublesAreExact
<1>1. NumbersSpec => []Words
  BY InitWords, StaysWords, PTL DEF NumbersSpec
<1>2. Words => DoublesAreExact
  BY ConversionLemma, RepresentableLemma DEF Words, DoublesAreExact
<1> QED BY <1>1, <1>2, PTL

-----------------------------------------------------------------------------
(* BuildConfiguration.                                                     *)

\* A macro of a name is defined.
In(D, name, x) == <<name, x>> \in D
Fails(D) == In(D, "PLAIN", "error")

\* The pair that a chain takes, the first one whose condition holds.
Chosen(pairs, i) == pairs[i][1] /\ \A j \in DOMAIN pairs : pairs[j][1] => i <= j

LEMMA FirstOfChain ==
    ASSUME NEW D, NEW pairs, DOMAIN pairs \subseteq Nat,
           ~Fails(Chain(D, pairs))
    PROVE  \E i \in DOMAIN pairs :
             Chosen(pairs, i) /\ Chain(D, pairs) = D \cup pairs[i][2]
<1> DEFINE Taken == {i \in DOMAIN pairs : pairs[i][1]}
           i == CHOOSE i \in Taken : \A j \in Taken : i <= j
<1>1. Taken # {}
    BY DEF Chain, Fails, In, Plain
<1>2. \E k \in Taken : \A j \in Taken : k <= j
    <2>1. Taken \subseteq Nat
        OBVIOUS
    <2> HIDE DEF Taken
    <2> QED BY <1>1, <2>1, LeastNumber
<1>3. i \in Taken /\ \A j \in Taken : i <= j
    BY <1>2
<1>4. Chain(D, pairs) = D \cup pairs[i][2]
    BY <1>1 DEF Chain
<1> HIDE DEF i
<1> QED BY <1>3, <1>4 DEF Chosen

\* Two macros are the same if their names and what they name are.
LEMMA SameMacro ==
    \A name, x, name1, x1 : <<name, x>> = <<name1, x1>> <=> name = name1 /\ x = x1
OBVIOUS

\* A build names no host, at most one architecture and one system as its
\* target, and none of what globals.h finds out.
Found == {"ARCH_IS_32_BIT", "ARCH_IS_64_BIT", "TARGET_IS_32_BIT", "TARGET_IS_64_BIT",
          "IS_SIMARM_X64", "USING_SIMULATOR"}
BuildDefines(D) ==
    /\ ~(In(D, "PLAIN", "DEBUG") /\ In(D, "PLAIN", "NDEBUG"))
    /\ \A x : ~In(D, "HOST_OS", x) /\ ~In(D, "HOST_ARCH", x)
    /\ \A x, y : In(D, "TARGET_ARCH", x) /\ In(D, "TARGET_ARCH", y) => x = y
    /\ \A x, y : In(D, "TARGET_OS", x) /\ In(D, "TARGET_OS", y) => x = y
    /\ \A x : In(D, "TARGET_OS", x) => x \in Systems
    /\ \A x \in Found : ~In(D, "PLAIN", x)

LEMMA DebugStage ==
    ASSUME NEW D
    PROVE  \A name, x : In(DefineDebug(D), name, x) <=>
             \/ In(D, name, x)
             \/ /\ name = "PLAIN" /\ x = "DEBUG" /\ In(D, "PLAIN", "GOOGLE3")
                /\ ~In(D, "PLAIN", "DEBUG") /\ ~In(D, "PLAIN", "NDEBUG")
             \/ name = "PLAIN" /\ x = "NDEBUG" /\ ~In(D, "PLAIN", "GOOGLE3") /\ ~In(D, "PLAIN", "DEBUG")
BY DEF DefineDebug, In, Plain

\* One host system, which on iOS is iOS besides.
LEMMA HostOSStage ==
    ASSUME NEW D, \A x : ~In(D, "HOST_OS", x), ~Fails(DefineHostOS(D))
    PROVE  \E os \in Systems, iphone \in BOOLEAN :
             /\ iphone => os = "MACOS"
             /\ \A name, x : In(DefineHostOS(D), name, x) <=>
                  In(D, name, x) \/ (name = "HOST_OS" /\ (x = os \/ (iphone /\ x = "IOS")))
<1> DEFINE pairs == HostSystems(D)
<1>1. DOMAIN pairs = 1 .. 6
    BY DEF HostSystems
<1>2. PICK i \in 1 .. 6 : Chosen(pairs, i) /\ DefineHostOS(D) = D \cup pairs[i][2]
    BY <1>1, FirstOfChain DEF DefineHostOS
<1>3. i # 6
    <2>1. pairs[6][1] = (<<"HOST_OS", "FUCHSIA">> \in D)
        BY DEF HostSystems, HostOS
    <2> HIDE DEF pairs
    <2> QED BY <1>2, <2>1 DEF Chosen, In
<1>4. \A name, x, os : <<name, x>> \in {HostOS(os)} <=> name = "HOST_OS" /\ x = os
    BY DEF HostOS
<1>5. /\ pairs[1][2] = {HostOS("ANDROID")} /\ pairs[2][2] = {HostOS("LINUX")}
      /\ pairs[3][2] = {HostOS("MACOS")} \cup
            IF Plain("TARGET_OS_IPHONE") \in D THEN {HostOS("IOS")} ELSE {}
      /\ pairs[4][2] = {HostOS("WINDOWS")} /\ pairs[5][2] = {HostOS("FUCHSIA")}
    BY DEF HostSystems
<1> HIDE DEF pairs
<1> DEFINE os == <<"ANDROID", "LINUX", "MACOS", "WINDOWS", "FUCHSIA">>[i]
           iphone == i = 3 /\ Plain("TARGET_OS_IPHONE") \in D
<1>6. pairs[i][2] = {HostOS(os)} \cup IF iphone THEN {HostOS("IOS")} ELSE {}
    BY <1>3, <1>5
<1>7. os \in Systems /\ iphone \in BOOLEAN /\ (iphone => os = "MACOS")
    BY <1>3 DEF Systems
<1> HIDE DEF os, iphone
<1>8. \A name, x : In(DefineHostOS(D), name, x) <=>
         In(D, name, x) \/ (name = "HOST_OS" /\ (x = os \/ (iphone /\ x = "IOS")))
    BY <1>2, <1>4, <1>6, <1>7 DEF In
<1> QED BY <1>7, <1>8

\* The word that an architecture has.
Wide(arch) == arch \in {"X64", "ARM64"}

\* One architecture of the host, with the size of its word.
LEMMA HostArchStage ==
    ASSUME NEW D, ~Fails(DefineHostArch(D))
    PROVE  \E arch \in Architectures :
             \A name, x : In(DefineHostArch(D), name, x) <=>
               \/ In(D, name, x)
               \/ name = "HOST_ARCH" /\ x = arch
               \/ name = "PLAIN" /\ x = "ARCH_IS_64_BIT" /\ Wide(arch)
               \/ name = "PLAIN" /\ x = "ARCH_IS_32_BIT" /\ ~Wide(arch)
<1> DEFINE Sees(name) == Plain(name) \in D
           pairs == << <<Sees("_M_X64") \/ Sees("__x86_64__"),
                         {Host("X64"), Plain("ARCH_IS_64_BIT")}>>,
                       <<Sees("_M_IX86") \/ Sees("__i386__"),
                         {Host("IA32"), Plain("ARCH_IS_32_BIT")}>>,
                       <<Sees("__ARMEL__"), {Host("ARM"), Plain("ARCH_IS_32_BIT")}>>,
                       <<Sees("__aarch64__"), {Host("ARM64"), Plain("ARCH_IS_64_BIT")}>> >>
           arch(i) == <<"X64", "IA32", "ARM", "ARM64">>[i]
           word(i) == <<"ARCH_IS_64_BIT", "ARCH_IS_32_BIT", "ARCH_IS_32_BIT",
                        "ARCH_IS_64_BIT">>[i]
<1>1. DefineHostArch(D) = Chain(D, pairs) /\ DOMAIN pairs = 1 .. 4
    BY DEF DefineHostArch
<1>2. \A i \in 1 .. 4 : pairs[i][2] = {Host(arch(i)), Plain(word(i))}
    OBVIOUS
<1> HIDE DEF pairs
<1>3. PICK i \in 1 .. 4 : DefineHostArch(D) = D \cup pairs[i][2]
    <2>1. ~Fails(Chain(D, pairs))
        BY <1>1
    <2> QED BY <1>1, <2>1, FirstOfChain
<1>4. /\ arch(i) \in Architectures
      /\ word(i) = IF Wide(arch(i)) THEN "ARCH_IS_64_BIT" ELSE "ARCH_IS_32_BIT"
    BY DEF Architectures, Wide
<1> HIDE DEF arch, word
<1>5. \A name, x : In(DefineHostArch(D), name, x) <=>
        \/ In(D, name, x)
        \/ name = "HOST_ARCH" /\ x = arch(i)
        \/ name = "PLAIN" /\ x = word(i)
    <2>1. DefineHostArch(D) = D \cup {<<"HOST_ARCH", arch(i)>>, <<"PLAIN", word(i)>>}
        BY <1>2, <1>3 DEF Host, Plain
    <2> QED BY <2>1, SameMacro DEF In
<1> QED BY <1>4, <1>5

\* One architecture as the target: the one that the build names, or the
\* host's.
LEMMA TargetArchStage ==
    ASSUME NEW D, ~Fails(DefineTargetArch(D)),
           \A x, y : In(D, "TARGET_ARCH", x) /\ In(D, "TARGET_ARCH", y) => x = y
    PROVE  \E arch \in Architectures :
             /\ \A name, x : In(DefineTargetArch(D), name, x) <=>
                  In(D, name, x) \/ (name = "TARGET_ARCH" /\ x = arch)
             /\ \A x \in Architectures :
                  In(DefineTargetArch(D), "TARGET_ARCH", x) <=> x = arch
<1>1. CASE AnyOf("TARGET_ARCH", Architectures, D)
    <2>1. PICK arch \in Architectures : In(D, "TARGET_ARCH", arch)
        BY <1>1 DEF AnyOf, In
    <2> QED BY <1>1, <2>1 DEF DefineTargetArch
<1>2. CASE ~AnyOf("TARGET_ARCH", Architectures, D)
    <2> DEFINE pairs == [i \in 1 .. 4 |->
                           LET arch == <<"ARM", "X64", "IA32", "ARM64">>[i]
                           IN <<Host(arch) \in D, {Target(arch)}>>]
               arch(i) == <<"ARM", "X64", "IA32", "ARM64">>[i]
    <2>1. DefineTargetArch(D) = Chain(D, pairs) /\ DOMAIN pairs = 1 .. 4
        BY <1>2 DEF DefineTargetArch
    <2>2. \A i \in 1 .. 4 : pairs[i][2] = {Target(arch(i))}
        OBVIOUS
    <2> HIDE DEF pairs
    <2>3. PICK i \in 1 .. 4 : DefineTargetArch(D) = D \cup pairs[i][2]
        <3>1. ~Fails(Chain(D, pairs))
            BY <2>1
        <3> QED BY <2>1, <3>1, FirstOfChain
    <2>4. arch(i) \in Architectures
        BY DEF Architectures
    <2> HIDE DEF arch
    <2>5. \A name, x : In(DefineTargetArch(D), name, x) <=>
            In(D, name, x) \/ (name = "TARGET_ARCH" /\ x = arch(i))
        <3>1. DefineTargetArch(D) = D \cup {<<"TARGET_ARCH", arch(i)>>}
            BY <2>2, <2>3 DEF Target
        <3> QED BY <3>1, SameMacro DEF In
    <2>6. \A x \in Architectures : ~In(D, "TARGET_ARCH", x)
        BY <1>2 DEF AnyOf, In
    <2> QED BY <2>4, <2>5, <2>6
<1> QED BY <1>1, <1>2

\* The size of the target's word.
LEMMA TargetBitsStage ==
    ASSUME NEW D, NEW arch \in Architectures, ~Fails(DefineTargetBits(D)),
           \A x \in Architectures : In(D, "TARGET_ARCH", x) <=> x = arch
    PROVE  \A name, x : In(DefineTargetBits(D), name, x) <=>
             \/ In(D, name, x)
             \/ name = "PLAIN" /\ x = "TARGET_IS_64_BIT" /\ Wide(arch)
             \/ name = "PLAIN" /\ x = "TARGET_IS_32_BIT" /\ ~Wide(arch)
<1> DEFINE pairs == << <<AnyOf("TARGET_ARCH", {"IA32", "ARM"}, D),
                         {Plain("TARGET_IS_32_BIT")}>>,
                       <<AnyOf("TARGET_ARCH", {"X64", "ARM64"}, D),
                         {Plain("TARGET_IS_64_BIT")}>> >>
<1>1. DefineTargetBits(D) = Chain(D, pairs) /\ DOMAIN pairs = 1 .. 2
    BY DEF DefineTargetBits
<1>2. /\ pairs[1][1] <=> arch \in {"IA32", "ARM"}
      /\ pairs[2][1] <=> arch \in {"X64", "ARM64"}
    BY DEF AnyOf, In, Architectures
<1>3. pairs[1][2] = {Plain("TARGET_IS_32_BIT")} /\ pairs[2][2] = {Plain("TARGET_IS_64_BIT")}
    OBVIOUS
<1> HIDE DEF pairs
<1>4. PICK i \in 1 .. 2 : Chosen(pairs, i) /\ DefineTargetBits(D) = D \cup pairs[i][2]
    <2>1. ~Fails(Chain(D, pairs))
        BY <1>1
    <2> QED BY <1>1, <2>1, FirstOfChain
<1>5. (i = 1 /\ ~Wide(arch)) \/ (i = 2 /\ Wide(arch))
    BY <1>2, <1>4 DEF Chosen, Wide
<1>6. \/ ~Wide(arch) /\ DefineTargetBits(D) = D \cup {<<"PLAIN", "TARGET_IS_32_BIT">>}
      \/ Wide(arch) /\ DefineTargetBits(D) = D \cup {<<"PLAIN", "TARGET_IS_64_BIT">>}
    BY <1>3, <1>4, <1>5 DEF Plain
<1>7. CASE Wide(arch)
    <2>1. DefineTargetBits(D) = D \cup {<<"PLAIN", "TARGET_IS_64_BIT">>}
        BY <1>6, <1>7
    <2> QED BY <1>7, <2>1, SameMacro DEF In
<1>8. CASE ~Wide(arch)
    <2>1. DefineTargetBits(D) = D \cup {<<"PLAIN", "TARGET_IS_32_BIT">>}
        BY <1>6, <1>8
    <2> QED BY <1>8, <2>1, SameMacro DEF In
<1> QED BY <1>7, <1>8

\* A target of another word size is refused, but for the ARM simulator on
\* X64 and the tests of FFI.
LEMMA VerifyStage ==
    ASSUME NEW D, NEW arch \in Architectures, ~Fails(VerifyTarget(D)),
           \A x \in Architectures : In(D, "TARGET_ARCH", x) <=> x = arch
    PROVE  LET simarm == arch = "ARM" /\ In(D, "HOST_ARCH", "X64") IN
           /\ \A name, x : In(VerifyTarget(D), name, x) <=>
                In(D, name, x) \/ (name = "PLAIN" /\ x = "IS_SIMARM_X64" /\ simarm)
           /\ \/ simarm \/ In(D, "PLAIN", "FFI_UNIT_TESTS")
              \/ Wide(arch) /\ In(D, "PLAIN", "ARCH_IS_64_BIT")
              \/ ~Wide(arch) /\ In(D, "PLAIN", "ARCH_IS_32_BIT")
<1>1. AnyOf("TARGET_ARCH", {"X64", "ARM64"}, D) <=> Wide(arch)
    BY DEF AnyOf, In, Architectures, Wide
<1>2. Target("ARM") \in D <=> arch = "ARM"
    BY DEF In, Target, Architectures
<1>3. Fails(D \cup {Plain("error")})
    BY DEF Fails, In, Plain
<1>4. CASE Wide(arch)
    <2>1. VerifyTarget(D) = D \/ VerifyTarget(D) = D \cup {Plain("error")}
        BY <1>1, <1>4 DEF VerifyTarget
    <2>2. VerifyTarget(D) = D
        BY <2>1, <1>3
    <2>3. In(D, "PLAIN", "ARCH_IS_64_BIT") \/ In(D, "PLAIN", "FFI_UNIT_TESTS")
        BY <1>1, <1>4, <1>3 DEF VerifyTarget, In, Plain
    <2>4. arch # "ARM"
        BY <1>4 DEF Wide
    <2> QED BY <1>4, <2>2, <2>3, <2>4
<1>5. CASE ~Wide(arch) /\ Host("X64") \in D /\ arch = "ARM"
    <2>1. VerifyTarget(D) = D \cup {Plain("IS_SIMARM_X64")}
        BY <1>1, <1>2, <1>5 DEF VerifyTarget
    <2> QED BY <1>5, <2>1 DEF In, Plain, Host
<1>6. CASE ~Wide(arch) /\ ~(Host("X64") \in D /\ arch = "ARM")
    <2>1. VerifyTarget(D) = D \/ VerifyTarget(D) = D \cup {Plain("error")}
        BY <1>1, <1>2, <1>6 DEF VerifyTarget
    <2>2. VerifyTarget(D) = D
        BY <2>1, <1>3
    <2>3. In(D, "PLAIN", "ARCH_IS_32_BIT") \/ In(D, "PLAIN", "FFI_UNIT_TESTS")
        BY <1>1, <1>2, <1>6, <1>3 DEF VerifyTarget, In, Plain
    <2> QED BY <1>6, <2>2, <2>3 DEF In, Host
<1> QED BY <1>4, <1>5, <1>6

\* Code for ARM on another processor is simulated, or only compiled.
LEMMA SimulatorStage ==
    ASSUME NEW D, NEW host \in Architectures, NEW arch \in Architectures,
           \A x \in Architectures : In(D, "HOST_ARCH", x) <=> x = host,
           \A x \in Architectures : In(D, "TARGET_ARCH", x) <=> x = arch,
           ~Fails(DefineSimulator(D))
    PROVE  LET foreign == host # arch IN
           \A name, x : In(DefineSimulator(D), name, x) <=>
             \/ In(D, name, x)
             \/ name = "PLAIN" /\ x = "TARGET_HOST_MISMATCH" /\ arch = "ARM" /\ foreign
             \/ /\ name = "PLAIN" /\ x = "USING_SIMULATOR" /\ foreign
                /\ arch = "ARM64" \/ (arch = "ARM" /\ ~In(D, "PLAIN", "IS_SIMARM_X64"))
<1> DEFINE IfForeign(a, S) == IF Host(a) \in D THEN {} ELSE S
           Using == IF Plain("IS_SIMARM_X64") \in D THEN {} ELSE {Plain("USING_SIMULATOR")}
           pairs == << <<AnyOf("TARGET_ARCH", {"IA32", "X64"}, D), {}>>,
                       <<Target("ARM") \in D,
                         IfForeign("ARM", {Plain("TARGET_HOST_MISMATCH")} \cup Using)>>,
                       <<Target("ARM64") \in D,
                         IfForeign("ARM64", {Plain("USING_SIMULATOR")})>> >>
<1>1. DefineSimulator(D) = Chain(D, pairs) /\ DOMAIN pairs = 1 .. 3
    BY DEF DefineSimulator
<1>2. /\ pairs[1][1] <=> arch \in {"IA32", "X64"}
      /\ pairs[2][1] <=> arch = "ARM"
      /\ pairs[3][1] <=> arch = "ARM64"
    BY DEF AnyOf, In, Target, Architectures
<1>3. /\ pairs[1][2] = {}
      /\ pairs[2][2] = IfForeign("ARM", {Plain("TARGET_HOST_MISMATCH")} \cup Using)
      /\ pairs[3][2] = IfForeign("ARM64", {Plain("USING_SIMULATOR")})
    OBVIOUS
<1>4. /\ Host("ARM") \in D <=> host = "ARM"
      /\ Host("ARM64") \in D <=> host = "ARM64"
      /\ Plain("IS_SIMARM_X64") \in D <=> In(D, "PLAIN", "IS_SIMARM_X64")
    BY DEF In, Host, Plain, Architectures
<1> HIDE DEF pairs
<1>5. PICK i \in 1 .. 3 : Chosen(pairs, i) /\ DefineSimulator(D) = D \cup pairs[i][2]
    <2>1. ~Fails(Chain(D, pairs))
        BY <1>1
    <2> QED BY <1>1, <2>1, FirstOfChain
<1>6. CASE arch \in {"IA32", "X64"}
    <2>1. DefineSimulator(D) = D
        BY <1>2, <1>3, <1>5, <1>6 DEF Chosen
    <2> QED BY <1>6, <2>1
<1>7. CASE arch = "ARM"
    <2>1. i = 2
        BY <1>2, <1>5, <1>7 DEF Chosen
    <2>2. CASE host = "ARM"
        <3>1. DefineSimulator(D) = D
            BY <1>3, <1>4, <1>5, <2>1, <2>2
        <3> QED BY <1>7, <2>2, <3>1
    <2>3. CASE host # "ARM" /\ In(D, "PLAIN", "IS_SIMARM_X64")
        <3>1. DefineSimulator(D) = D \cup {<<"PLAIN", "TARGET_HOST_MISMATCH">>}
            BY <1>3, <1>4, <1>5, <2>1, <2>3 DEF Plain
        <3> QED BY <1>7, <2>3, <3>1, SameMacro DEF In
    <2>4. CASE host # "ARM" /\ ~In(D, "PLAIN", "IS_SIMARM_X64")
        <3>1. DefineSimulator(D) =
                D \cup {<<"PLAIN", "TARGET_HOST_MISMATCH">>, <<"PLAIN", "USING_SIMULATOR">>}
            BY <1>3, <1>4, <1>5, <2>1, <2>4 DEF Plain
        <3> QED BY <1>7, <2>4, <3>1, SameMacro DEF In
    <2> QED BY <2>2, <2>3, <2>4
<1>8. CASE arch = "ARM64"
    <2>1. i = 3
        BY <1>2, <1>5, <1>8 DEF Chosen
    <2>2. CASE host = "ARM64"
        <3>1. DefineSimulator(D) = D
            BY <1>3, <1>4, <1>5, <2>1, <2>2
        <3> QED BY <1>8, <2>2, <3>1
    <2>3. CASE host # "ARM64"
        <3>1. DefineSimulator(D) = D \cup {<<"PLAIN", "USING_SIMULATOR">>}
            BY <1>3, <1>4, <1>5, <2>1, <2>3 DEF Plain
        <3> QED BY <1>8, <2>3, <3>1, SameMacro DEF In
    <2> QED BY <2>2, <2>3
<1> QED BY <1>6, <1>7, <1>8 DEF Architectures

\* One system as the target: the one that the build names, or the host's;
\* iOS is a macOS too.
LEMMA TargetOSStage ==
    ASSUME NEW D, ~Fails(DefineTargetOS(D)),
           \A x, y : In(D, "TARGET_OS", x) /\ In(D, "TARGET_OS", y) => x = y,
           \A x : In(D, "TARGET_OS", x) => x \in Systems
    PROVE  \E os \in Systems, ios \in BOOLEAN :
             /\ \A name, x : In(DefineTargetOS(D), name, x) <=>
                  In(D, name, x) \/ (name = "TARGET_OS" /\ (x = os \/ (ios /\ x = "IOS")))
             /\ \A x \in Systems : In(DefineTargetOS(D), "TARGET_OS", x) <=> x = os
<1>1. CASE AnyOf("TARGET_OS", Systems \cup {"IOS"}, D)
    <2>1. PICK os \in Systems : In(D, "TARGET_OS", os)
        BY <1>1 DEF AnyOf, In
    <2>2. DefineTargetOS(D) = D
        BY <1>1 DEF DefineTargetOS
    <2>3. \A name, x : In(DefineTargetOS(D), name, x) <=>
            In(D, name, x) \/ (name = "TARGET_OS" /\ (x = os \/ (FALSE /\ x = "IOS")))
        BY <2>1, <2>2
    <2> QED BY <2>1, <2>2, <2>3
<1>2. CASE ~AnyOf("TARGET_OS", Systems \cup {"IOS"}, D)
    <2> DEFINE pairs == << <<HostOS("ANDROID") \in D, {TargetOS("ANDROID")}>>,
                           <<HostOS("FUCHSIA") \in D, {TargetOS("FUCHSIA")}>>,
                           <<HostOS("IOS") \in D, {TargetOS("MACOS"), TargetOS("IOS")}>>,
                           <<HostOS("LINUX") \in D, {TargetOS("LINUX")}>>,
                           <<HostOS("MACOS") \in D, {TargetOS("MACOS")}>>,
                           <<HostOS("WINDOWS") \in D, {TargetOS("WINDOWS")}>> >>
               os(i) == <<"ANDROID", "FUCHSIA", "MACOS", "LINUX", "MACOS", "WINDOWS">>[i]
    <2>1. DefineTargetOS(D) = Chain(D, pairs) /\ DOMAIN pairs = 1 .. 6
        BY <1>2 DEF DefineTargetOS
    <2>2. \A i \in 1 .. 6 : pairs[i][2] =
            {TargetOS(os(i))} \cup IF i = 3 THEN {TargetOS("IOS")} ELSE {}
        OBVIOUS
    <2> HIDE DEF pairs
    <2>3. PICK i \in 1 .. 6 : DefineTargetOS(D) = D \cup pairs[i][2]
        <3>1. ~Fails(Chain(D, pairs))
            BY <2>1
        <3> QED BY <2>1, <3>1, FirstOfChain
    <2>4. os(i) \in Systems
        BY DEF Systems
    <2> HIDE DEF os
    <2> DEFINE ios == i = 3
    <2>5. \A name, x : In(DefineTargetOS(D), name, x) <=>
            In(D, name, x) \/ (name = "TARGET_OS" /\ (x = os(i) \/ (ios /\ x = "IOS")))
        <3>1. CASE i = 3
            <4>1. DefineTargetOS(D) = D \cup {<<"TARGET_OS", os(i)>>, <<"TARGET_OS", "IOS">>}
                BY <2>2, <2>3, <3>1 DEF TargetOS
            <4> QED BY <3>1, <4>1, SameMacro DEF In
        <3>2. CASE i # 3
            <4>1. DefineTargetOS(D) = D \cup {<<"TARGET_OS", os(i)>>}
                BY <2>2, <2>3, <3>2 DEF TargetOS
            <4> QED BY <3>2, <4>1, SameMacro DEF In
        <3> QED BY <3>1, <3>2
    <2>6. ios \in BOOLEAN
        OBVIOUS
    <2> HIDE DEF ios
    <2>7. \A x \in Systems : ~In(D, "TARGET_OS", x) /\ x # "IOS"
        BY <1>2 DEF AnyOf, In, Systems
    <2> QED BY <2>4, <2>5, <2>6, <2>7
<1> QED BY <1>1, <1>2

LEMMA DualMappingStage ==
    ASSUME NEW D
    PROVE  \A name, x : In(DefineDualMapping(D), name, x) =>
             In(D, name, x) \/ (name = "PLAIN" /\ x = "DUAL_MAPPING_SUPPORTED")
BY SameMacro DEF DefineDualMapping, In, Plain

\* A stage takes nothing away.
LEMMA StagesAdd ==
    ASSUME NEW D
    PROVE  /\ D \subseteq DefineDebug(D) /\ D \subseteq DefineHostOS(D)
           /\ D \subseteq DefineHostArch(D) /\ D \subseteq DefineTargetArch(D)
           /\ D \subseteq DefineTargetBits(D) /\ D \subseteq VerifyTarget(D)
           /\ D \subseteq DefineSimulator(D) /\ D \subseteq DefineTargetOS(D)
           /\ D \subseteq DefineDualMapping(D)
<1>1. \A pairs : D \subseteq Chain(D, pairs)
    BY DEF Chain
<1>2. D \subseteq DefineDebug(D)
    BY DEF DefineDebug
<1>3. D \subseteq DefineHostOS(D) /\ D \subseteq DefineHostArch(D)
    BY <1>1 DEF DefineHostOS, DefineHostArch
<1>4. D \subseteq DefineTargetArch(D)
    BY <1>1 DEF DefineTargetArch
<1>5. D \subseteq DefineTargetBits(D)
    BY <1>1 DEF DefineTargetBits
<1>6. D \subseteq VerifyTarget(D)
    BY DEF VerifyTarget
<1>7. D \subseteq DefineSimulator(D)
    BY <1>1 DEF DefineSimulator
<1>8. D \subseteq DefineTargetOS(D)
    BY <1>1 DEF DefineTargetOS
<1>9. D \subseteq DefineDualMapping(D)
    BY DEF DefineDualMapping
<1> QED BY <1>2, <1>3, <1>4, <1>5, <1>6, <1>7, <1>8, <1>9

\* The one member of a set that a condition holds for.
LEMMA OnlyMember ==
    ASSUME NEW name, NEW S, NEW m \in S,
           \A x \in S : In(macros, name, x) <=> x = m
    PROVE  Count(name, S) = 1
<1>1. {x \in S : <<name, x>> \in macros} = {m}
    BY DEF In
<1>2. Cardinality({m}) = 1
    BY FS_Singleton
<1> QED BY <1>1, <1>2 DEF Count

\* What globals.h makes of any build that it accepts.
LEMMA Accepted ==
    ASSUME NEW D0, BuildDefines(D0), macros = Preprocess(D0), ~Fails(macros)
    PROVE  \E hostos, targetos \in Systems, host, target \in Architectures :
        /\ \A x \in Systems : In(macros, "HOST_OS", x) <=> x = hostos
        /\ \A x \in Systems : In(macros, "TARGET_OS", x) <=> x = targetos
        /\ \A x \in Architectures : In(macros, "HOST_ARCH", x) <=> x = host
        /\ \A x \in Architectures : In(macros, "TARGET_ARCH", x) <=> x = target
        /\ In(macros, "PLAIN", "ARCH_IS_64_BIT") <=> Wide(host)
        /\ In(macros, "PLAIN", "ARCH_IS_32_BIT") <=> ~Wide(host)
        /\ In(macros, "PLAIN", "TARGET_IS_64_BIT") <=> Wide(target)
        /\ In(macros, "PLAIN", "TARGET_IS_32_BIT") <=> ~Wide(target)
        /\ In(macros, "PLAIN", "DEBUG") <=> ~In(macros, "PLAIN", "NDEBUG")
        /\ In(macros, "PLAIN", "IS_SIMARM_X64") <=> target = "ARM" /\ host = "X64"
        /\ In(macros, "PLAIN", "USING_SIMULATOR") <=>
             host # target /\ (target = "ARM64" \/ (target = "ARM" /\ host # "X64"))
        /\ \/ In(macros, "PLAIN", "IS_SIMARM_X64") \/ In(macros, "PLAIN", "FFI_UNIT_TESTS")
           \/ Wide(target) /\ In(macros, "PLAIN", "ARCH_IS_64_BIT")
           \/ ~Wide(target) /\ In(macros, "PLAIN", "ARCH_IS_32_BIT")
<1>0. \E D1, D2, D3, D4, D5, D6, D7, D8 :
        /\ D1 = DefineDebug(D0) /\ D2 = DefineHostOS(D1) /\ D3 = DefineHostArch(D2)
        /\ D4 = DefineTargetArch(D3) /\ D5 = DefineTargetBits(D4)
        /\ D6 = VerifyTarget(D5) /\ D7 = DefineSimulator(D6)
        /\ D8 = DefineTargetOS(D7) /\ macros = DefineDualMapping(D8)
    BY DEF Preprocess
<1>1. PICK D1, D2, D3, D4, D5, D6, D7, D8 :
        /\ D1 = DefineDebug(D0) /\ D2 = DefineHostOS(D1) /\ D3 = DefineHostArch(D2)
        /\ D4 = DefineTargetArch(D3) /\ D5 = DefineTargetBits(D4)
        /\ D6 = VerifyTarget(D5) /\ D7 = DefineSimulator(D6)
        /\ D8 = DefineTargetOS(D7) /\ macros = DefineDualMapping(D8)
    BY <1>0
<1>2. /\ ~Fails(D2) /\ ~Fails(D3) /\ ~Fails(D4) /\ ~Fails(D5)
      /\ ~Fails(D6) /\ ~Fails(D7) /\ ~Fails(D8)
    <2>1. /\ D2 \subseteq D3 /\ D3 \subseteq D4 /\ D4 \subseteq D5 /\ D5 \subseteq D6
          /\ D6 \subseteq D7 /\ D7 \subseteq D8 /\ D8 \subseteq macros
        BY <1>1, StagesAdd
    <2> QED BY <2>1 DEF Fails, In
<1>3. \A name, x : In(D1, name, x) <=>
        \/ In(D0, name, x)
        \/ /\ name = "PLAIN" /\ x = "DEBUG" /\ In(D0, "PLAIN", "GOOGLE3")
           /\ ~In(D0, "PLAIN", "DEBUG") /\ ~In(D0, "PLAIN", "NDEBUG")
        \/ name = "PLAIN" /\ x = "NDEBUG" /\ ~In(D0, "PLAIN", "GOOGLE3") /\ ~In(D0, "PLAIN", "DEBUG")
    BY <1>1, DebugStage
<1>4. PICK hostos \in Systems, iphone \in BOOLEAN :
        \A name, x : In(D2, name, x) <=>
          In(D1, name, x) \/ (name = "HOST_OS" /\ (x = hostos \/ (iphone /\ x = "IOS")))
    <2>1. \A x : ~In(D1, "HOST_OS", x)
        BY <1>3 DEF BuildDefines
    <2>2. ~Fails(DefineHostOS(D1))
        BY <1>1, <1>2
    <2>3. \E os \in Systems, ios \in BOOLEAN :
            /\ ios => os = "MACOS"
            /\ \A name, x : In(DefineHostOS(D1), name, x) <=>
                 In(D1, name, x) \/ (name = "HOST_OS" /\ (x = os \/ (ios /\ x = "IOS")))
        BY <2>1, <2>2, HostOSStage
    <2> QED BY <1>1, <2>3
<1>5. PICK host \in Architectures :
        \A name, x : In(D3, name, x) <=>
          \/ In(D2, name, x)
          \/ name = "HOST_ARCH" /\ x = host
          \/ name = "PLAIN" /\ x = "ARCH_IS_64_BIT" /\ Wide(host)
          \/ name = "PLAIN" /\ x = "ARCH_IS_32_BIT" /\ ~Wide(host)
    <2>1. ~Fails(DefineHostArch(D2))
        BY <1>1, <1>2
    <2> QED BY <1>1, <2>1, HostArchStage
<1>6. PICK target \in Architectures :
        /\ \A name, x : In(D4, name, x) <=>
             In(D3, name, x) \/ (name = "TARGET_ARCH" /\ x = target)
        /\ \A x \in Architectures : In(D4, "TARGET_ARCH", x) <=> x = target
    <2>1. \A x, y : In(D3, "TARGET_ARCH", x) /\ In(D3, "TARGET_ARCH", y) => x = y
        BY <1>3, <1>4, <1>5 DEF BuildDefines
    <2> QED BY <1>1, <1>2, <2>1, TargetArchStage
<1>7. \A name, x : In(D5, name, x) <=>
        \/ In(D4, name, x)
        \/ name = "PLAIN" /\ x = "TARGET_IS_64_BIT" /\ Wide(target)
        \/ name = "PLAIN" /\ x = "TARGET_IS_32_BIT" /\ ~Wide(target)
    BY <1>1, <1>2, <1>6, TargetBitsStage
<1>8. /\ \A x \in Architectures : In(D5, "TARGET_ARCH", x) <=> x = target
      /\ \A x : In(D5, "HOST_ARCH", x) <=> x = host
    BY <1>3, <1>4, <1>5, <1>6, <1>7 DEF BuildDefines
<1>f. \A x \in Found : ~In(D0, "PLAIN", x)
    BY DEF BuildDefines
<1> DEFINE simarm == target = "ARM" /\ host = "X64"
<1>9. /\ \A name, x : In(D6, name, x) <=>
           In(D5, name, x) \/ (name = "PLAIN" /\ x = "IS_SIMARM_X64" /\ simarm)
      /\ \/ simarm \/ In(D5, "PLAIN", "FFI_UNIT_TESTS")
         \/ Wide(target) /\ In(D5, "PLAIN", "ARCH_IS_64_BIT")
         \/ ~Wide(target) /\ In(D5, "PLAIN", "ARCH_IS_32_BIT")
    BY <1>1, <1>2, <1>8, VerifyStage
<1>10. /\ \A x \in Architectures : In(D6, "TARGET_ARCH", x) <=> x = target
       /\ \A x : In(D6, "HOST_ARCH", x) <=> x = host
       /\ In(D6, "PLAIN", "IS_SIMARM_X64") <=> simarm
    <2>1. ~In(D5, "PLAIN", "IS_SIMARM_X64")
        BY <1>f, <1>3, <1>4, <1>5, <1>6, <1>7 DEF Found
    <2> QED BY <1>8, <1>9, <2>1
<1>11. \A name, x : In(D7, name, x) <=>
         \/ In(D6, name, x)
         \/ name = "PLAIN" /\ x = "TARGET_HOST_MISMATCH" /\ target = "ARM" /\ host # target
         \/ /\ name = "PLAIN" /\ x = "USING_SIMULATOR" /\ host # target
            /\ target = "ARM64" \/ (target = "ARM" /\ ~simarm)
    BY <1>1, <1>2, <1>10, SimulatorStage
<1>12. PICK targetos \in Systems, ios \in BOOLEAN :
         /\ \A name, x : In(D8, name, x) <=>
              In(D7, name, x) \/ (name = "TARGET_OS" /\ (x = targetos \/ (ios /\ x = "IOS")))
         /\ \A x \in Systems : In(D8, "TARGET_OS", x) <=> x = targetos
    <2>1. /\ \A x, y : In(D7, "TARGET_OS", x) /\ In(D7, "TARGET_OS", y) => x = y
          /\ \A x : In(D7, "TARGET_OS", x) => x \in Systems
        BY <1>3, <1>4, <1>5, <1>6, <1>7, <1>9, <1>11 DEF BuildDefines
    <2> QED BY <1>1, <1>2, <2>1, TargetOSStage
<1>13. \A name, x : In(macros, name, x) <=>
         In(D8, name, x) \/ (name = "PLAIN" /\ x = "DUAL_MAPPING_SUPPORTED" /\ In(macros, name, x))
    BY <1>1, DualMappingStage, StagesAdd DEF In
<1>14. /\ \A x \in Systems : In(macros, "HOST_OS", x) <=> x = hostos
       /\ \A x \in Architectures : In(macros, "HOST_ARCH", x) <=> x = host
    <2>1. \A x \in Systems : x # "IOS"
        BY DEF Systems
    <2>2. \A x \in Systems : In(D6, "HOST_OS", x) <=> x = hostos
        BY <1>3, <1>4, <1>5, <1>6, <1>7, <1>9, <2>1 DEF BuildDefines
    <2> QED BY <1>10, <1>11, <1>12, <1>13, <2>2
<1>15. /\ \A x \in Systems : In(macros, "TARGET_OS", x) <=> x = targetos
       /\ \A x \in Architectures : In(macros, "TARGET_ARCH", x) <=> x = target
    BY <1>10, <1>11, <1>12, <1>13
<1>16. /\ In(macros, "PLAIN", "ARCH_IS_64_BIT") <=> Wide(host)
       /\ In(macros, "PLAIN", "ARCH_IS_32_BIT") <=> ~Wide(host)
       /\ In(macros, "PLAIN", "TARGET_IS_64_BIT") <=> Wide(target)
       /\ In(macros, "PLAIN", "TARGET_IS_32_BIT") <=> ~Wide(target)
    <2>1. /\ In(D6, "PLAIN", "ARCH_IS_64_BIT") <=> Wide(host)
          /\ In(D6, "PLAIN", "ARCH_IS_32_BIT") <=> ~Wide(host)
        BY <1>f, <1>3, <1>4, <1>5, <1>6, <1>7, <1>9 DEF Found
    <2>2. /\ In(D6, "PLAIN", "TARGET_IS_64_BIT") <=> Wide(target)
          /\ In(D6, "PLAIN", "TARGET_IS_32_BIT") <=> ~Wide(target)
        BY <1>f, <1>3, <1>4, <1>5, <1>6, <1>7, <1>9 DEF Found
    <2> QED BY <1>11, <1>12, <1>13, <2>1, <2>2
<1>17. In(macros, "PLAIN", "DEBUG") <=> ~In(macros, "PLAIN", "NDEBUG")
    <2>1. In(D1, "PLAIN", "DEBUG") <=> ~In(D1, "PLAIN", "NDEBUG")
        BY <1>3 DEF BuildDefines
    <2>2. \A x \in {"DEBUG", "NDEBUG"} : In(D6, "PLAIN", x) <=> In(D1, "PLAIN", x)
        BY <1>4, <1>5, <1>6, <1>7, <1>9
    <2> QED BY <1>11, <1>12, <1>13, <2>1, <2>2
<1>18. /\ In(macros, "PLAIN", "IS_SIMARM_X64") <=> simarm
       /\ In(macros, "PLAIN", "FFI_UNIT_TESTS") <=> In(D5, "PLAIN", "FFI_UNIT_TESTS")
    BY <1>9, <1>10, <1>11, <1>12, <1>13
<1>19. In(macros, "PLAIN", "USING_SIMULATOR") <=>
         host # target /\ (target = "ARM64" \/ (target = "ARM" /\ ~simarm))
    <2>1. ~In(D6, "PLAIN", "USING_SIMULATOR")
        BY <1>f, <1>3, <1>4, <1>5, <1>6, <1>7, <1>9 DEF Found
    <2> QED BY <1>11, <1>12, <1>13, <2>1
<1>20. \/ In(macros, "PLAIN", "IS_SIMARM_X64") \/ In(macros, "PLAIN", "FFI_UNIT_TESTS")
       \/ Wide(target) /\ In(macros, "PLAIN", "ARCH_IS_64_BIT")
       \/ ~Wide(target) /\ In(macros, "PLAIN", "ARCH_IS_32_BIT")
    <2>1. \A x : In(D5, "PLAIN", x) => In(macros, "PLAIN", x)
        BY <1>9, <1>11, <1>12, <1>13
    <2> QED BY <1>9, <1>18, <2>1
<1> QED BY <1>14, <1>15, <1>16, <1>17, <1>18, <1>19, <1>20

\* A Smi and its tag fit in a word of either size.
LEMMA SmiFits == ASSUME NEW D PROVE kSmiBits(D) + 2 <= kBitsPerWord(D)
<1>1. Power[5] = 32 /\ Power[6] = 64
    <2>1. \A k \in Nat : Power[k + 1] = 2 * Power[k]
        BY PowerType
    <2>2. Power[0 + 1] = 2 /\ Power[1 + 1] = 2 * Power[1] /\ Power[2 + 1] = 2 * Power[2]
        BY <2>1, PowerType
    <2>3. /\ Power[3 + 1] = 2 * Power[3] /\ Power[4 + 1] = 2 * Power[4]
          /\ Power[5 + 1] = 2 * Power[5]
        BY <2>1
    <2> QED BY <2>2, <2>3
<1>2. kBitsPerWord(D) \in {32, 64}
    <2>1. kBitsPerWordLog2(D) \in {5, 6}
        BY DEF kBitsPerWordLog2, kWordSizeLog2
    <2> QED BY <1>1, <2>1 DEF kBitsPerWord
<1> QED BY <1>2 DEF kSmiBits

\* Any build that globals.h accepts, whatever else it defines.
LEMMA AcceptedIsConsistent ==
    ASSUME NEW D0, BuildDefines(D0), macros = Preprocess(D0)
    PROVE  ConfigurationIsConsistent
<1> SUFFICES ASSUME Plain("error") \notin macros
             PROVE  OneOfEach /\ MismatchesAreThese
    BY DEF ConfigurationIsConsistent, OneOfEach, MismatchesAreThese
<1>1. ~Fails(macros)
    BY DEF Fails, In, Plain
<1>2. PICK hostos \in Systems, targetos \in Systems, host \in Architectures,
           target \in Architectures :
        /\ \A x \in Systems : In(macros, "HOST_OS", x) <=> x = hostos
        /\ \A x \in Systems : In(macros, "TARGET_OS", x) <=> x = targetos
        /\ \A x \in Architectures : In(macros, "HOST_ARCH", x) <=> x = host
        /\ \A x \in Architectures : In(macros, "TARGET_ARCH", x) <=> x = target
        /\ In(macros, "PLAIN", "ARCH_IS_64_BIT") <=> Wide(host)
        /\ In(macros, "PLAIN", "ARCH_IS_32_BIT") <=> ~Wide(host)
        /\ In(macros, "PLAIN", "TARGET_IS_64_BIT") <=> Wide(target)
        /\ In(macros, "PLAIN", "TARGET_IS_32_BIT") <=> ~Wide(target)
        /\ In(macros, "PLAIN", "DEBUG") <=> ~In(macros, "PLAIN", "NDEBUG")
        /\ In(macros, "PLAIN", "IS_SIMARM_X64") <=> target = "ARM" /\ host = "X64"
        /\ In(macros, "PLAIN", "USING_SIMULATOR") <=>
             host # target /\ (target = "ARM64" \/ (target = "ARM" /\ host # "X64"))
        /\ \/ In(macros, "PLAIN", "IS_SIMARM_X64")
           \/ In(macros, "PLAIN", "FFI_UNIT_TESTS")
           \/ Wide(target) /\ In(macros, "PLAIN", "ARCH_IS_64_BIT")
           \/ ~Wide(target) /\ In(macros, "PLAIN", "ARCH_IS_32_BIT")
    BY <1>1, Accepted
<1>3. /\ Count("HOST_OS", Systems) = 1 /\ Count("TARGET_OS", Systems) = 1
      /\ Count("HOST_ARCH", Architectures) = 1 /\ Count("TARGET_ARCH", Architectures) = 1
    BY <1>2, OnlyMember
<1>4. ASSUME NEW one, NEW other, one # other,
             In(macros, "PLAIN", one) <=> ~In(macros, "PLAIN", other)
      PROVE  Count("PLAIN", {one, other}) = 1
    <2>1. CASE In(macros, "PLAIN", one)
        BY <1>4, <2>1, OnlyMember
    <2>2. CASE In(macros, "PLAIN", other)
        BY <1>4, <2>2, OnlyMember
    <2> QED BY <1>4, <2>1, <2>2
<1>5. /\ Count("PLAIN", {"ARCH_IS_32_BIT", "ARCH_IS_64_BIT"}) = 1
      /\ Count("PLAIN", {"TARGET_IS_32_BIT", "TARGET_IS_64_BIT"}) = 1
      /\ Count("PLAIN", {"DEBUG", "NDEBUG"}) = 1
    BY <1>2, <1>4
<1>6. Count("PLAIN", {"USING_SIMULATOR", "IS_SIMARM_X64"}) =
        IF target \in {"ARM", "ARM64"} \ {host} THEN 1 ELSE 0
    <2>1. CASE target \in {"ARM", "ARM64"} \ {host}
        <3>1. In(macros, "PLAIN", "USING_SIMULATOR")
                <=> ~In(macros, "PLAIN", "IS_SIMARM_X64")
            BY <1>2, <2>1
        <3> QED BY <1>4, <2>1, <3>1
    <2>2. CASE target \notin {"ARM", "ARM64"} \ {host}
        <3>1. /\ ~In(macros, "PLAIN", "USING_SIMULATOR")
              /\ ~In(macros, "PLAIN", "IS_SIMARM_X64")
            BY <1>2, <2>2
        <3>2. {x \in {"USING_SIMULATOR", "IS_SIMARM_X64"} :
                 <<"PLAIN", x>> \in macros} = {}
            BY <3>1 DEF In
        <3> QED BY <2>2, <3>2, FS_EmptySet DEF Count
    <2> QED BY <2>1, <2>2
<1>7. \/ (Plain("ARCH_IS_64_BIT") \in macros) <=> (Plain("TARGET_IS_64_BIT") \in macros)
      \/ Plain("IS_SIMARM_X64") \in macros \/ Plain("FFI_UNIT_TESTS") \in macros
    <2>1. \A x : Plain(x) \in macros <=> In(macros, "PLAIN", x)
        BY DEF In, Plain
    <2> QED BY <1>2, <2>1
<1>8. \/ host = target
      \/ Plain("FFI_UNIT_TESTS") \in macros
      \/ <<host, target>> \in {<<"X64", "ARM">>, <<"IA32", "ARM">>,
           <<"X64", "ARM64">>, <<"ARM64", "X64">>, <<"ARM", "IA32">>}
    <2>1. \/ host = target
          \/ In(macros, "PLAIN", "FFI_UNIT_TESTS")
          \/ host = "X64" /\ target = "ARM"
          \/ Wide(host) /\ Wide(target)
          \/ ~Wide(host) /\ ~Wide(target)
        BY <1>2
    <2>2. \/ host = target
          \/ In(macros, "PLAIN", "FFI_UNIT_TESTS")
          \/ host = "X64" /\ target = "ARM"
          \/ host = "X64" /\ target = "ARM64"
          \/ host = "ARM64" /\ target = "X64"
          \/ host = "IA32" /\ target = "ARM"
          \/ host = "ARM" /\ target = "IA32"
        BY <2>1 DEF Wide, Architectures
    <2> QED BY <2>2 DEF In, Plain
<1>9. \A h, t \in Architectures :
        Host(h) \in macros /\ Target(t) \in macros => h = host /\ t = target
    BY <1>2 DEF In, Host, Target
<1> QED BY <1>3, <1>5, <1>6, <1>7, <1>8, <1>9, SmiFits
        DEF OneOfEach, MismatchesAreThese

-----------------------------------------------------------------------------
(* OverlappedBuffer.                                                       *)

\* The constructor lays out a buffer of a size; GetWASBUF gives away its data.
BuffersInv ==
    /\ operation \in Operations
    /\ \E size \in 0 .. MaxSize :
         /\ operation = "kRecvFrom" => size > kAdditionalSize
         /\ allocated = ObjectSize + size
         /\ cleared = <<DataOffset, DataOffset + size - 1>>
         /\ buflen = Length(size, operation)
         /\ operation = "kRecvFrom" =>
              from_len_addr = DataOffset + buflen /\ from = from_len_addr + LengthSize
    /\ wbuf \in {<<0, 0>>, <<DataOffset, buflen>>}

\* A new buffer of an operation and a size.
LEMMA NewKeepsBuffers ==
    ASSUME NEW op \in Operations, NEW size \in 0 .. MaxSize,
           NewBuffer(op, size)
    PROVE  BuffersInv
BY DEF NewBuffer, BuffersInv

LEMMA BuffersStep == BuffersInv /\ [BufferNext]_buffers => BuffersInv'
BY DEF BuffersInv, BufferNext, GetWASBUF, buffers

\* What the parts take adds up to what was asked for.
LEMMA PartsLemma == BuffersInv => PartsAreDisjoint
<1> SUFFICES ASSUME BuffersInv PROVE PartsAreDisjoint
    OBVIOUS
<1>1. PICK size \in 0 .. MaxSize :
        /\ operation = "kRecvFrom" => size > kAdditionalSize
        /\ allocated = ObjectSize + size
        /\ cleared = <<DataOffset, DataOffset + size - 1>>
        /\ buflen = Length(size, operation)
        /\ operation = "kRecvFrom" =>
             from_len_addr = DataOffset + buflen /\ from = from_len_addr + LengthSize
    BY DEF BuffersInv
<1>2. /\ size \in Nat /\ DataOffset \in Nat /\ ObjectSize \in Nat
      /\ LengthSize \in Nat /\ AddressSize \in Nat /\ DataOffset < ObjectSize
    BY BufferAssumption
<1>3. /\ buflen \in Nat /\ buflen <= size
      /\ operation = "kRecvFrom" => buflen + AddressSize + LengthSize = size
    BY <1>1, <1>2 DEF Length, kAdditionalSize
<1>4. wbuf[1] + wbuf[2] \in Int /\ wbuf[1] + wbuf[2] <= DataOffset + buflen
    BY <1>2, <1>3 DEF BuffersInv
<1> QED BY <1>1, <1>2, <1>3, <1>4 DEF PartsAreDisjoint

\* The data, the length of the address and the address are apart and inside
\* the allocation, for every size of an object, of an address and of a buffer
\* (eventhandler_win.h:44-190).
THEOREM BuffersAreLaidOut == BufferSpec => []PartsAreDisjoint
<1>1. BufferInit => BuffersInv
    BY NewKeepsBuffers DEF BufferInit
<1> QED BY <1>1, BuffersStep, PartsLemma, PTL DEF BufferSpec

-----------------------------------------------------------------------------
(* MessageFlags and CObject.                                               *)

\* Of the bits of a mask at most one is the only one set.
LEMMA OnlyOne ==
    ASSUME NEW S, NEW M
    PROVE  Cardinality({c \in M : S \cap M = {c}}) <= 1
<1> DEFINE C == {c \in M : S \cap M = {c}}
<1>1. CASE C = {}
    BY <1>1, FS_EmptySet
<1>2. CASE C # {}
    <2>1. PICK c \in C : TRUE
        BY <1>2
    <2>2. C = {c}
        OBVIOUS
    <2> HIDE DEF C
    <2>3. Cardinality(C) = 1
        BY <2>2, FS_Singleton
    <2> QED BY <2>3 DEF C
<1> QED BY <1>1, <1>2

\* What is said besides the tokens leaves them as they are.
LEMMA TokensAreApart ==
    ASSUME NEW S
    PROVE  /\ TOKEN_COUNT(S) =
                TOKEN_COUNT(S \ (COMMAND_MASK \cup {kListeningSocket, kPipe}))
           /\ TOKEN_COUNT(S) < Power[kCloseCommand]
<1> DEFINE Rest1 == S \ (COMMAND_MASK \cup {kListeningSocket, kPipe})
           n == kCloseCommand
<1>1. n \in Nat /\ \A k \in 0 .. (n - 1) : k \in S <=> k \in Rest1
    BY DEF COMMAND_MASK, kListeningSocket, kPipe, kCloseCommand,
           kShutdownReadCommand, 
           kShutdownWriteCommand, kReturnTokenCommand, kSetEventMaskCommand
<1> HIDE DEF n, Rest1
<1>2. /\ WithBits(S, n) \in Nat /\ WithBits(S, n) < Power[n]
      /\ \A k \in 0 .. (n - 1) :
           BitOf(WithBits(S, n), k) = IF k \in S THEN 1 ELSE 0
    BY <1>1, WithBitsHas
<1>3. /\ WithBits(Rest1, n) \in Nat /\ WithBits(Rest1, n) < Power[n]
      /\ \A k \in 0 .. (n - 1) :
           BitOf(WithBits(Rest1, n), k) = IF k \in Rest1 THEN 1 ELSE 0
    BY <1>1, WithBitsHas
<1>4. \A k \in 0 .. (n - 1) :
        BitOf(WithBits(S, n), k) = BitOf(WithBits(Rest1, n), k)
    BY <1>1, <1>2, <1>3
<1>5. WithBits(S, n) = WithBits(Rest1, n)
    BY <1>1, <1>2, <1>3, <1>4, ByBits
<1> QED BY <1>2, <1>5 DEF TOKEN_COUNT, n, Rest1

\* Whatever is set in a word.
LEMMA MessagesLemma == MessagesAreUnambiguous
<1> DEFINE Commands == {c \in COMMAND_MASK : IS_COMMAND(message, c)}
<1>1. Cardinality(Commands) <= 1
    BY OnlyOne DEF IS_COMMAND
<1>2. Commands # {} => ~IS_IO_EVENT(message)
    BY DEF IS_COMMAND, IS_IO_EVENT, IO_EVENTS, COMMAND_MASK, kInEvent,
           kOutEvent, 
           kCloseEvent, kCloseCommand, kShutdownReadCommand, kShutdownWriteCommand,
           kReturnTokenCommand, kSetEventMaskCommand
<1>3. Cardinality({e \in EVENT_MASK : IS_EVENT(message, e)}) <= 1
    BY OnlyOne DEF IS_EVENT
<1>4. IS_LISTENING_SOCKET(message) => ~IS_IO_EVENT(message)
    BY DEF IS_LISTENING_SOCKET, IS_IO_EVENT, IO_EVENTS, kListeningSocket,
           kInEvent, 
           kOutEvent, kCloseEvent
<1> QED BY <1>1, <1>2, <1>3, <1>4, TokensAreApart DEF MessagesAreUnambiguous

\* The members of the union that two types share, or that two begin with.
LEMMA Members ==
    /\ Member("Int32") = <<"int32">> /\ Member("Int64") = <<"int64">>
    /\ Member("TypedData") = <<"type", "length", "bytes">>
    /\ Member("ExternalTypedData") = <<"type", "length", "bytes", "peer", "callback">>
BY DEF Member

\* What is read of an object as its own type is there.
LEMMA OwnMember ==
    ASSUME NEW object, NEW k \in DOMAIN Member(object.type)
    PROVE  Readable(object, object.type, k)
BY DEF Readable

\* Any object that a message may bring, where a word has 64 bits.
LEMMA TestedLemma ==
    ASSUME cobject \in Objects, WordBytes = 8
    PROVE  TestedIsWrappable
<1> DEFINE o == cobject
           Own == Classes \ {"Intptr", "Uint8Array", "ExternalUint8Array"}
<1>1. ASSUME NEW class \in Classes, Is(class, o) PROVE Constructs(class, o)
    BY <1>1
       DEF Is, Constructs, IsIntptr, IsInt32OrInt64, IsUint8Array,
           byte_array_type
<1>2. ASSUME NEW class \in Classes, Constructs(class, o),
             NEW a \in Accessed(class, o)
      PROVE  Readable(o, a[1], a[2])
    <2>1. CASE class = "Intptr"
        <3>1. o.type \in {"Int32", "Int64"} /\ a[1] = o.type /\ a[2] = 1
            BY <1>2, <2>1 DEF Constructs, Accessed
        <3>2. 1 \in DOMAIN Member(o.type)
            BY <3>1, Members
        <3> QED BY <3>1, <3>2, OwnMember
    <2>2. CASE class = "Uint8Array"
        <3>1. o.type = "TypedData" /\ a[1] = o.type /\ a[2] \in {2, 3}
            BY <1>2, <2>2 DEF Constructs, Accessed
        <3>2. a[2] \in DOMAIN Member(o.type)
            BY <3>1, Members
        <3> QED BY <3>1, <3>2, OwnMember
    <2>3. CASE class = "ExternalUint8Array"
        <3>1. o.type = "ExternalTypedData" /\ a[1] = o.type /\ a[2] \in 2 .. 5
            BY <1>2, <2>3 DEF Constructs, Accessed
        <3>2. a[2] \in DOMAIN Member(o.type)
            BY <3>1, Members
        <3> QED BY <3>1, <3>2, OwnMember
    <2>4. CASE class \in Own
        <3>1. o.type = class /\ Accessed(class, o) = {<<class, k>> : k \in DOMAIN Member(class)}
            BY <1>2, <2>4 DEF Constructs, Accessed, Classes
        <3>2. a[1] = o.type /\ a[2] \in DOMAIN Member(o.type)
            BY <3>1
        <3> QED BY <3>2, OwnMember
    <2> QED BY <2>1, <2>2, <2>3, <2>4
<1>3. Constructs("Intptr", o) => HoldsValue(o)
    BY DEF HoldsValue
<1>4. HasBytes(o) => Readable(o, "TypedData", 1)
    <2>1. ASSUME NEW t \in {"TypedData", "ExternalTypedData"}
          PROVE  1 \in DOMAIN Member(t) /\ Member(t)[1] = "type"
        BY <2>1, Members
    <2>2. \A j \in 1 .. 1 : j = 1
        OBVIOUS
    <2> QED BY <2>1, <2>2 DEF HasBytes, Readable
<1> QED BY <1>1, <1>2, <1>3, <1>4 DEF TestedIsWrappable

-----------------------------------------------------------------------------
(* CommandLineOptions.                                                     *)

\* What is in front of count_ is what was added since the last Reset.
OptionsInv ==
    /\ max_count \in Nat
    /\ arguments \in [1 .. max_count -> Arguments]
    /\ added \in Seq(Arguments)
    /\ count = Len(added)
    /\ count <= max_count
    /\ \A i \in 1 .. count : arguments[i] = added[i]

\* Arguments that fit are appended.
LEMMA WriteKeepsOptions ==
    ASSUME OptionsInv, NEW argv \in Seq(Arguments),
           count + Len(argv) <= max_count, Write(argv)
    PROVE  OptionsInv'
<1> USE DEF OptionsInv, Write
<1>1. /\ added' \in Seq(Arguments)
      /\ Len(added') = count + Len(argv)
      /\ \A i \in 1 .. Len(added') :
           added'[i] = IF i <= count THEN added[i] ELSE argv[i - count]
    BY ConcatProperties
<1>2. /\ count \in Nat /\ Len(argv) \in Nat
      /\ \A i \in 1 .. Len(argv) : argv[i] \in Arguments
    OBVIOUS
<1>3. ASSUME NEW i \in 1 .. max_count
      PROVE  IF i \in (count + 1) .. (count + Len(argv))
             THEN i - count \in 1 .. Len(argv) ELSE TRUE
    BY <1>2
<1>4. arguments' \in [1 .. max_count -> Arguments]
    BY <1>2, <1>3
<1>5. ASSUME NEW i \in 1 .. count' PROVE arguments'[i] = added'[i]
    BY <1>1, <1>2
<1> QED BY <1>1, <1>2, <1>4, <1>5

\* Every index gives the argument that was added there, or NULL, after any
\* calls, and nothing is written behind the array (bin/dartutils.h:27-100).
THEOREM ArgumentsAreKept == OptionsSpec => []ArgumentsAreThoseAdded
<1>1. OptionsInit => OptionsInv
    BY OptionsAssumption DEF OptionsInit, NewOptions, OptionsInv
<1>2. OptionsInv /\ [OptionsNext]_options => OptionsInv'
    <2> SUFFICES ASSUME OptionsInv, [OptionsNext]_options PROVE OptionsInv'
        OBVIOUS
    <2> USE DEF OptionsInv
    <2>1. CASE UNCHANGED options
        BY <2>1 DEF options
    <2>2. CASE Reset
        BY <2>2 DEF Reset
    <2>3. ASSUME NEW argument \in Arguments, AddArgument(argument)
          PROVE  OptionsInv'
        <3>1. <<argument>> \in Seq(Arguments) /\ Len(<<argument>>) = 1
            OBVIOUS
        <3>2. CASE count < max_count
            <4>1. count + 1 <= max_count
                BY <3>2
            <4> QED BY <2>3, <3>1, <3>2, <4>1, WriteKeepsOptions
                       DEF AddArgument
        <3>3. CASE ~(count < max_count)
            BY <2>3, <3>3 DEF AddArgument, Abort
        <3> QED BY <3>2, <3>3
    <2>4. ASSUME NEW n \in 0 .. MaxCount, NEW argv \in [1 .. n -> Arguments],
                 AddArguments(argv)
          PROVE  OptionsInv'
        <3>1. argv \in Seq(Arguments) /\ Len(argv) = n /\ n \in Nat
            BY OptionsAssumption
        <3>2. CASE count + Len(argv) >= max_count
            BY <2>4, <3>2 DEF AddArguments, Abort
        <3>3. CASE ~(count + Len(argv) >= max_count)
            <4>1. count + Len(argv) <= max_count
                BY <3>1, <3>3
            <4> QED BY <2>4, <3>1, <3>3, <4>1, WriteKeepsOptions
                       DEF AddArguments
        <3> QED BY <3>2, <3>3
    <2> QED BY <2>1, <2>2, <2>3, <2>4 DEF OptionsNext
<1>3. OptionsInv => ArgumentsAreThoseAdded
    <2> SUFFICES ASSUME OptionsInv PROVE ArgumentsAreThoseAdded
        OBVIOUS
    <2>1. max_count = Len(arguments)
        BY DEF OptionsInv
    <2>2. ASSUME NEW index \in -1 .. (MaxCount + 1)
          PROVE  GetArgument(index) = IF index + 1 \in DOMAIN added
                                      THEN added[index + 1] ELSE NoArgument
        <3>1. index \in Int
            BY OptionsAssumption
        <3> QED BY <3>1 DEF OptionsInv, GetArgument
    <2> QED BY <2>1, <2>2 DEF OptionsInv, ArgumentsAreThoseAdded
<1> QED BY <1>1, <1>2, <1>3, PTL DEF OptionsSpec

-----------------------------------------------------------------------------
(* Assertions.                                                             *)

\* What was missed is known as a failure.
ChecksInv ==
    /\ failed \in BOOLEAN /\ missed \in BOOLEAN
    /\ FailuresAreReported

\* C++ compares as arithmetic does, tolerances and unordered numbers included.
LEMMA ComparisonsAgree ==
    ASSUME NEW c \in Comparisons,
           NEW e \in Operands, NEW a \in Operands, NEW tol \in Operands
    PROVE  Passes(c, e, a, tol) <=> Holds(c, e, a, tol)
<1> USE ChecksAssumption
        DEF Operands, Passes, Holds, Same, Less, AtMost, FloatEquals, Minus,
            Plus, Distance
<1>1. CASE c \in {"Equals", "NotEquals"}
    BY <1>1
<1>2. CASE c \in {"LessThan", "LessEqual", "GreaterThan", "GreaterEqual"}
    BY <1>2
<1>3. CASE c = "FloatEquals"
    BY <1>3
<1> QED BY <1>1, <1>2, <1>3 DEF Comparisons

\* A test that never compares nullptr as a string (assert.h:142) is said to
\* fail if and only if a condition of it does not hold: no check that is passed
\* hides one that was not (assert.h:45-330).
THEOREM TestsFail == ChecksSpec => []FailuresAreReported
<1>1. ChecksInit => ChecksInv
    BY DEF ChecksInit, NewTest, ChecksInv, FailuresAreReported
<1>2. ChecksInv /\ [ChecksNext]_checks => ChecksInv'
    <2> SUFFICES ASSUME ChecksInv, [ChecksNext]_checks PROVE ChecksInv'
        OBVIOUS
    <2> USE DEF ChecksInv, FailuresAreReported
    <2>1. CASE UNCHANGED checks
        BY <2>1 DEF checks
    <2>2. ASSUME NEW passes, NEW holds, passes <=> holds,
                 Expect(passes, holds)
          PROVE ChecksInv'
        BY <2>2 DEF Expect
    <2>3. ASSUME NEW holds \in BOOLEAN,
                 ASSERT(holds) \/ RELEASE_ASSERT(holds) \/ EXPECT(holds)
          PROVE ChecksInv'
        BY <2>2, <2>3 DEF ASSERT, RELEASE_ASSERT, Check, EXPECT
    <2>4. CASE FATAL \/ FAIL
        <3>1. CASE FATAL
            BY <3>1 DEF FATAL, Check
        <3>2. CASE FAIL
            BY <2>2, <3>2 DEF FAIL
        <3> QED BY <2>4, <3>1, <3>2
    <2>5. ASSUME NEW c \in Comparisons, NEW e \in Operands,
                 NEW a \in Operands, NEW tol \in Operands,
                 ExpectPair(c, e, a, tol)
          PROVE ChecksInv'
        BY <2>2, <2>5, ComparisonsAgree DEF ExpectPair
    <2>6. ASSUME NEW p \in Texts, NEW null \in BOOLEAN, ExpectPointer(p, null)
          PROVE ChecksInv'
        BY <2>2, <2>6 DEF ExpectPointer
    <2>7. ASSUME NEW e \in Texts, NEW a \in Texts, NEW opposite \in BOOLEAN,
                 ExpectStrings(e, a, opposite)
          PROVE ChecksInv'
        <3>1. CASE nullptr \in {e, a}
            BY <2>7, <3>1 DEF ExpectStrings
        <3>2. CASE nullptr \notin {e, a}
            BY <2>2, <2>7, <3>2 DEF ExpectStrings
        <3> QED BY <3>1, <3>2
    <2> QED BY <2>1, <2>3, <2>4, <2>5, <2>6, <2>7 DEF ChecksNext
<1>3. ChecksInv => FailuresAreReported
    BY DEF ChecksInv
<1> QED BY <1>1, <1>2, <1>3, PTL DEF ChecksSpec

-----------------------------------------------------------------------------
(* OwnedStrings.                                                           *)

\* Every field has a string or NULL, and every string has one owner.
StringsInv ==
    /\ objects \subseteq Fields
    /\ field \in [Fields -> Strings \cup {NULL}]
    /\ malloced \subseteq Strings
    /\ StringsHaveOneOwner

\* Field f gets a new string or none; the one it had is freed, or was NULL,
\* or is lost.
LEMMA StoreKeepsOwners ==
    ASSUME StringsInv, NEW f \in Fields, NEW s, NEW F \in {{}, {field[f]}},
           Store(f, s, F), objects' \subseteq Fields,
           objects' \cup {f} = objects \cup {f}, f \in objects' \/ s = NULL
    PROVE  /\ StringsInv'
           /\ F = {field[f]} \/ field[f] = NULL => LostStrings' \subseteq LostStrings
<1> USE StringsAssumption
       DEF StringsInv, StringsHaveOneOwner, FieldStrings, Store
<1>1. /\ field' \in [Fields -> Strings \cup {NULL}]
      /\ field'[f] = s
      /\ \A g \in Fields : g # f => field'[g] = field[g]
    OBVIOUS
<1>2. malloced' \subseteq Strings
    OBVIOUS
<1>3. FieldStrings' \cup callers' \subseteq malloced'
    <2>1. callers \subseteq malloced'
        OBVIOUS
    <2>2. ASSUME NEW g \in Fields, field'[g] # NULL
          PROVE  field'[g] \in malloced'
        <3>1. CASE g = f
            BY <1>1, <2>2, <3>1
        <3>2. CASE g # f
            BY <1>1, <2>2, <3>2
        <3> QED BY <3>1, <3>2
    <2> QED BY <2>1, <2>2
<1>4. FieldStrings' \cap callers' = {}
    BY <1>1
<1>5. \A g, h \in Fields : field'[g] = field'[h] /\ g # h => field'[g] = NULL
    BY <1>1
<1>6. \A g \in Fields \ objects' : field'[g] = NULL
    BY <1>1
<1>7. ASSUME F = {field[f]} \/ field[f] = NULL, NEW x \in LostStrings'
      PROVE  x \in LostStrings
    <2>1. x \in malloced /\ x # s /\ x \notin callers /\ x # field[f]
        BY <1>1, <1>7 DEF LostStrings
    <2>2. ASSUME NEW g \in Fields PROVE x # field[g]
        BY <1>1, <1>7, <2>1 DEF LostStrings
    <2> QED BY <2>1, <2>2 DEF LostStrings
<1> QED BY <1>1, <1>2, <1>3, <1>4, <1>5, <1>6, <1>7

\* What every step does.
LEMMA StringsStep ==
    ASSUME StringsInv, [StringsNext]_strings
    PROVE  /\ StringsInv'
           /\ LostStrings' \subseteq LostStrings \/ UpdatePackagesFile(NULL)
<1> USE StringsAssumption
<1>1. CASE UNCHANGED strings
    BY <1>1
       DEF strings, StringsInv, StringsHaveOneOwner, FieldStrings, LostStrings
<1>2. ASSUME NEW s \in Strings \cup {NULL}, NEW f \in Fields,
             ConstructField(f, s)
      PROVE  StringsInv' /\ LostStrings' \subseteq LostStrings
    BY <1>2, StoreKeepsOwners
       DEF ConstructField, StringsInv, StringsHaveOneOwner
<1>3. ASSUME NEW f \in Fields, DestructField(f)
      PROVE  StringsInv' /\ LostStrings' \subseteq LostStrings
    BY <1>3, StoreKeepsOwners DEF DestructField, StringsInv
<1>4. ASSUME NEW s \in Strings \cup {NULL},
             SetMessage(s) \/ set_frontend_filename(s) \/ set_resolved_packages_config(s)
      PROVE  StringsInv' /\ LostStrings' \subseteq LostStrings
    BY <1>4, StoreKeepsOwners
       DEF SetMessage, set_frontend_filename, set_resolved_packages_config,
           Fields, StringsInv
<1>5. ASSUME NEW s \in Strings \cup {NULL}, UpdatePackagesFile(s)
      PROVE  StringsInv' /\ (s # NULL => LostStrings' \subseteq LostStrings)
    <2>1. "packages_file_" \in Fields
        BY DEF Fields
    <2>2. CASE s = NULL
        BY <1>5, <2>1, <2>2, StoreKeepsOwners
           DEF UpdatePackagesFile, StringsInv
    <2>3. CASE s # NULL
        BY <1>5, <2>1, <2>3, StoreKeepsOwners
           DEF UpdatePackagesFile, StringsInv
    <2> QED BY <2>2, <2>3
<1>6. ASSUME NEW s \in Strings \cup {NULL}, FreeReleased(s)
      PROVE  StringsInv' /\ LostStrings' \subseteq LostStrings
    BY <1>6
       DEF FreeReleased, StringsInv, StringsHaveOneOwner, FieldStrings,
           LostStrings
<1>7. CASE release
    <2>1. "utf8_" \in Fields
        BY DEF Fields
    <2>2. /\ field' \in [Fields -> Strings \cup {NULL}]
          /\ field'["utf8_"] = NULL
          /\ \A g \in Fields : g # "utf8_" => field'[g] = field[g]
        BY <1>7, <2>1 DEF release, StringsInv
    <2>3. /\ FieldStrings' = FieldStrings \ {field["utf8_"]}
          /\ callers' = callers \cup {field["utf8_"]}
          /\ field["utf8_"] \in FieldStrings
        BY <1>7, <2>1, <2>2
           DEF release, FieldStrings, StringsInv, StringsHaveOneOwner
    <2>4. LostStrings' = LostStrings
        BY <1>7, <2>3 DEF release, LostStrings
    <2> QED BY <1>7, <2>2, <2>3, <2>4
               DEF release, StringsInv, StringsHaveOneOwner
<1> QED BY <1>1, <1>2, <1>3, <1>4, <1>5, <1>6, <1>7 DEF StringsNext

\* Strings have one owner in every behaviour.
THEOREM StringsInvariant == StringsSpec => []StringsInv
<1>1. StringsInit => StringsInv
    BY StringsAssumption
       DEF StringsInit, StringsInv, StringsHaveOneOwner, FieldStrings
<1>2. StringsInv /\ [StringsNext]_strings => StringsInv'
    BY StringsStep
<1> QED BY <1>1, <1>2, PTL DEF StringsSpec

\* No setter and no destructor loses a string, but the NULL name of a
\* packages file does (isolate_data.h:131-135).
THEOREM OthersKeepStrings == StringsSpec => OnlyNullNameLoses
<1>1. StringsInv /\ [StringsNext]_strings =>
        [LostStrings' \subseteq LostStrings \/ UpdatePackagesFile(NULL)]_strings
    BY StringsStep
<1> QED BY <1>1, StringsInvariant, PTL DEF StringsSpec, OnlyNullNameLoses

-----------------------------------------------------------------------------
(* IsolateGroupData: kernel buffers.  uses counts the pointers exactly, so *)
(* the one that finds it at 1 is the last.                                 *)

Pointers == Groups \cup Starters

UsesAreExact == \A b \in Buffers : uses[b] = Cardinality(UsersOf(b))

\* Only the data of a group that exists has a pointer.
OwnersAreAlive == \A g \in Groups : kernel[g] # NoBuffer => g \in alive

\* A buffer has a deleter from the time it is there.
DeletersFit ==
    \A b \in Buffers :
        /\ deleter[b] = "unset" <=> buffer[b] = "none"
        /\ deleter[b] = "free" => buffer[b] \in {"heap", "freed"}

KInv ==
    /\ KernelsTypeOK
    /\ UsesAreExact
    /\ OwnersAreAlive
    /\ DeletersFit
    /\ KernelOutlivesUsers

-----------------------------------------------------------------------------
\* There are finitely many pointers to a buffer.
LEMMA UsersAreFinite ==
    ASSUME NEW b \in Buffers
    PROVE  IsFiniteSet(UsersOf(b))
<1>1. IsFiniteSet(Groups \cup Starters)
    BY KernelAssumption, FS_Union
<1> QED BY <1>1, FS_Subset DEF UsersOf

\* A pointer that comes to a buffer adds one to its users.
LEMMA UserAdded ==
    ASSUME KernelsTypeOK, UsesAreExact,
           NEW p \in Pointers, NEW b \in Buffers, kernel[p] = NoBuffer,
           kernel' = [kernel EXCEPT ![p] = b],
           uses' = [uses EXCEPT ![b] = @ + 1]
    PROVE  /\ UsesAreExact'
           /\ \A c \in Buffers :
                UsersOf(c)' = IF c = b THEN UsersOf(b) \cup {p} ELSE UsersOf(c)
<1> USE KernelAssumption DEF Pointers
<1>1. ASSUME NEW c \in Buffers
      PROVE  UsersOf(c)' = IF c = b THEN UsersOf(b) \cup {p} ELSE UsersOf(c)
    BY DEF UsersOf, KernelsTypeOK
<1>2. ASSUME NEW c \in Buffers
      PROVE  uses'[c] = Cardinality(UsersOf(c)')
    <2>1. CASE c = b
        <3>1. p \notin UsersOf(b)
            BY DEF UsersOf
        <3>2. Cardinality(UsersOf(b) \cup {p}) = Cardinality(UsersOf(b)) + 1
            BY <3>1, UsersAreFinite, FS_AddElement
        <3>3. uses'[b] = uses[b] + 1
            BY DEF KernelsTypeOK
        <3> QED BY <1>1, <2>1, <3>2, <3>3 DEF UsesAreExact
    <2>2. CASE c # b
        <3>1. UsersOf(c)' = UsersOf(c)
            BY <1>1, <2>2
        <3>2. uses'[c] = uses[c]
            BY <2>2 DEF KernelsTypeOK
        <3> QED BY <3>1, <3>2 DEF UsesAreExact
    <2> QED BY <2>1, <2>2
<1>3. UsesAreExact'
    BY <1>2 DEF UsesAreExact
<1> QED BY <1>1, <1>3

\* A pointer that is reset takes one from the users of its buffer, and finds
\* the number at 1 exactly if it was the last.
LEMMA UserRemoved ==
    ASSUME KernelsTypeOK, UsesAreExact,
           NEW p \in Pointers, kernel[p] # NoBuffer,
           kernel' = [kernel EXCEPT ![p] = NoBuffer],
           uses' = [uses EXCEPT ![kernel[p]] = @ - 1]
    PROVE  /\ UsesAreExact'
           /\ \A c \in Buffers :
                UsersOf(c)' = IF c = kernel[p] THEN UsersOf(c) \ {p} ELSE UsersOf(c)
           /\ \A c \in Buffers :
                c = kernel[p] => (uses[c] = 1 <=> UsersOf(c)' = {})
<1> DEFINE b == kernel[p]
<1> USE KernelAssumption DEF Pointers
<1>0. b \in Buffers
    BY DEF KernelsTypeOK
<1>1. ASSUME NEW c \in Buffers
      PROVE  UsersOf(c)' = IF c = b THEN UsersOf(c) \ {p} ELSE UsersOf(c)
    BY DEF UsersOf, KernelsTypeOK
<1>2. /\ IsFiniteSet(UsersOf(b)) /\ p \in UsersOf(b)
    BY <1>0, UsersAreFinite DEF UsersOf
<1>3. Cardinality(UsersOf(b) \ {p}) = Cardinality(UsersOf(b)) - 1
    BY <1>2, FS_RemoveElement
<1>4. ASSUME NEW c \in Buffers
      PROVE  uses'[c] = Cardinality(UsersOf(c)')
    <2>1. CASE c = b
        <3>1. uses'[b] = uses[b] - 1
            BY <1>0 DEF KernelsTypeOK
        <3> QED BY <1>0, <1>1, <1>3, <2>1, <3>1 DEF UsesAreExact
    <2>2. CASE c # b
        <3>1. UsersOf(c)' = UsersOf(c)
            BY <1>1, <2>2
        <3>2. uses'[c] = uses[c]
            BY <2>2 DEF KernelsTypeOK
        <3> QED BY <3>1, <3>2 DEF UsesAreExact
    <2> QED BY <2>1, <2>2
<1>5. ASSUME NEW c \in Buffers, c = b
      PROVE  uses[c] = 1 <=> UsersOf(c)' = {}
    <2>1. IsFiniteSet(UsersOf(b) \ {p})
        BY <1>2, FS_RemoveElement
    <2>2. Cardinality(UsersOf(b) \ {p}) = 0 <=> UsersOf(b) \ {p} = {}
        BY <2>1, FS_EmptySet
    <2>3. uses[b] = Cardinality(UsersOf(b)) /\ uses[b] \in Int
        BY <1>0 DEF UsesAreExact, KernelsTypeOK
    <2>4. UsersOf(c)' = UsersOf(b) \ {p}
        BY <1>1, <1>5
    <2> QED BY <1>3, <1>5, <2>2, <2>3, <2>4
<1>6. UsesAreExact'
    BY <1>4 DEF UsesAreExact
<1> QED BY <1>0, <1>1, <1>5, <1>6

-----------------------------------------------------------------------------
\* At the start nobody has a buffer.
LEMMA InitKInv == KernelsInit => KInv
<1> SUFFICES ASSUME KernelsInit PROVE KInv
    OBVIOUS
<1> USE KernelAssumption DEF KernelsInit
<1>1. \A b \in Buffers : UsersOf(b) = {}
    BY DEF UsersOf
<1>2. UsesAreExact
    BY <1>1, FS_EmptySet DEF UsesAreExact
<1>3. KernelsTypeOK /\ OwnersAreAlive /\ DeletersFit
    BY DEF KernelsTypeOK, OwnersAreAlive, DeletersFit
<1>4. KernelOutlivesUsers
    BY <1>1 DEF KernelOutlivesUsers
<1> QED BY <1>2, <1>3, <1>4 DEF KInv

\* A new group has no buffer.
LEMMA NewGroupKeepsKInv ==
    ASSUME KInv, NEW g \in Groups, NewGroup(g)
    PROVE  KInv'
BY DEF KInv, NewGroup, KernelsTypeOK, UsesAreExact, UsersOf, OwnersAreAlive,
       DeletersFit, KernelOutlivesUsers

\* A buffer that was not there had no users, and has the group now.
LEMMA AssociateKeepsKInv ==
    ASSUME KInv, NEW g \in Groups, NEW b \in Buffers,
           SetKernelBufferUnowned(g, b) \/ SetKernelBufferNewlyOwned(g, b)
    PROVE  KInv'
<1> PICK where \in {"heap", "static"}, whatThen \in {"free", "nothing"} :
        /\ Associate(g, b, where, whatThen)
        /\ where = "heap" <=> whatThen = "free"
    BY DEF SetKernelBufferUnowned, SetKernelBufferNewlyOwned
<1> USE KernelAssumption DEF KInv, Associate
<1>1. UsersOf(b) = {}
    BY DEF KernelOutlivesUsers
<1>2. uses[b] = 0
    BY <1>1, FS_EmptySet DEF UsesAreExact
<1>3. uses' = [uses EXCEPT ![b] = @ + 1]
    BY <1>2 DEF KernelsTypeOK
<1>4. g \in Pointers
    BY DEF Pointers
<1>5. /\ UsesAreExact'
      /\ \A c \in Buffers :
           UsersOf(c)' = IF c = b THEN UsersOf(b) \cup {g} ELSE UsersOf(c)
    BY <1>3, <1>4, UserAdded
<1>6. KernelsTypeOK'
    BY DEF KernelsTypeOK
<1>7. OwnersAreAlive'
    BY DEF OwnersAreAlive, KernelsTypeOK
<1>8. DeletersFit'
    BY DEF DeletersFit, KernelsTypeOK
<1>9. KernelOutlivesUsers'
    BY <1>5 DEF KernelOutlivesUsers, KernelsTypeOK
<1> QED BY <1>5, <1>6, <1>7, <1>8, <1>9

\* Who copies the pointer of a group finds the buffer there.
LEMMA CopyKeepsKInv ==
    ASSUME KInv, NEW t \in Starters, NEW g \in Groups, CopyKernelBuffer(t, g)
    PROVE  KInv'
<1> USE KernelAssumption DEF KInv, CopyKernelBuffer
<1>1. kernel[g] \in Buffers /\ t \in Pointers
    BY DEF KernelsTypeOK, Pointers
<1>2. /\ UsesAreExact'
      /\ \A c \in Buffers :
           UsersOf(c)' = IF c = kernel[g] THEN UsersOf(kernel[g]) \cup {t}
                         ELSE UsersOf(c)
    BY <1>1, UserAdded
<1>3. KernelsTypeOK'
    BY <1>1 DEF KernelsTypeOK
<1>4. OwnersAreAlive'
    BY DEF OwnersAreAlive, KernelsTypeOK
<1>5. DeletersFit'
    BY DEF DeletersFit
<1>6. g \in UsersOf(kernel[g])
    BY DEF UsersOf
<1>7. KernelOutlivesUsers'
    BY <1>1, <1>2, <1>6 DEF KernelOutlivesUsers
<1> QED BY <1>2, <1>3, <1>4, <1>5, <1>7

\* The pointer that is moved has as many users in its new place.
LEMMA MoveKeepsKInv ==
    ASSUME KInv, NEW t \in Starters, NEW g \in Groups,
           SetKernelBufferAlreadyOwned(t, g)
    PROVE  KInv'
<1> DEFINE b == kernel[t]
<1> USE KernelAssumption DEF KInv, SetKernelBufferAlreadyOwned
<1>1. b \in Buffers /\ t # g
    BY DEF KernelsTypeOK
<1>2. ASSUME NEW c \in Buffers
      PROVE  UsersOf(c)' = IF c = b THEN (UsersOf(b) \ {t}) \cup {g} ELSE UsersOf(c)
    BY <1>1 DEF UsersOf, KernelsTypeOK
<1>3. Cardinality((UsersOf(b) \ {t}) \cup {g}) = Cardinality(UsersOf(b))
    <2>1. IsFiniteSet(UsersOf(b)) /\ t \in UsersOf(b) /\ g \notin UsersOf(b)
        BY <1>1, UsersAreFinite DEF UsersOf
    <2>2. /\ IsFiniteSet(UsersOf(b) \ {t})
          /\ Cardinality(UsersOf(b) \ {t}) = Cardinality(UsersOf(b)) - 1
        BY <2>1, FS_RemoveElement
    <2>3. g \notin UsersOf(b) \ {t}
        BY <2>1
    <2>4. Cardinality((UsersOf(b) \ {t}) \cup {g}) = Cardinality(UsersOf(b) \ {t}) + 1
        BY <2>2, <2>3, FS_AddElement
    <2>5. Cardinality(UsersOf(b)) \in Nat
        BY <2>1, FS_CardinalityType
    <2> QED BY <2>2, <2>4, <2>5
<1>4. UsesAreExact'
    BY <1>1, <1>2, <1>3 DEF UsesAreExact
<1>5. KernelsTypeOK'
    BY <1>1 DEF KernelsTypeOK
<1>6. OwnersAreAlive'
    BY <1>1 DEF OwnersAreAlive, KernelsTypeOK
<1>7. DeletersFit'
    BY DEF DeletersFit
<1>8. t \in UsersOf(b)
    BY DEF UsersOf
<1>9. KernelOutlivesUsers'
    BY <1>1, <1>2, <1>8 DEF KernelOutlivesUsers
<1> QED BY <1>4, <1>5, <1>6, <1>7, <1>9

\* The end of a pointer frees its buffer where it was the last.
LEMMA ResetKeepsKInv ==
    ASSUME KInv, NEW p \in Pointers, ResetPointer(p),
           deleter' = deleter,
           alive' = alive \/ alive' = alive \ {p}
    PROVE  KInv'
<1> USE KernelAssumption DEF KInv, ResetPointer, Pointers
<1>1. CASE kernel[p] = NoBuffer
    <2>1. kernel' = kernel /\ uses' = uses /\ buffer' = buffer
        BY <1>1
    <2>2. \A c \in Buffers : UsersOf(c)' = UsersOf(c)
        BY <2>1 DEF UsersOf
    <2>3. KernelsTypeOK' /\ UsesAreExact' /\ OwnersAreAlive' /\ DeletersFit'
        BY <1>1, <2>1, <2>2 DEF KernelsTypeOK, UsesAreExact, OwnersAreAlive,
           DeletersFit
    <2>4. KernelOutlivesUsers'
        BY <2>1, <2>2 DEF KernelOutlivesUsers
    <2> QED BY <2>3, <2>4
<1>2. CASE kernel[p] # NoBuffer
    <2> DEFINE b == kernel[p]
    <2>1. b \in Buffers /\ p \in UsersOf(b)
        BY <1>2 DEF KernelsTypeOK, UsersOf
    <2>2. /\ UsesAreExact'
          /\ \A c \in Buffers :
               UsersOf(c)' = IF c = b THEN UsersOf(c) \ {p} ELSE UsersOf(c)
          /\ \A c \in Buffers : c = b => (uses[c] = 1 <=> UsersOf(c)' = {})
        BY <1>2, UserRemoved
    <2>3. buffer[b] \in {"heap", "static"}
        BY <2>1 DEF KernelOutlivesUsers
    <2>4. buffer' = [buffer EXCEPT ![b] =
                       IF uses[b] = 1 /\ deleter[b] = "free" THEN "freed" ELSE @]
        BY <1>2, <2>1, <2>3 DEF DeletersFit, KernelsTypeOK
    <2>5. KernelsTypeOK'
        BY <1>2, <2>1, <2>4 DEF KernelsTypeOK
    <2>6. OwnersAreAlive'
        BY <1>2 DEF OwnersAreAlive, KernelsTypeOK
    <2>7. DeletersFit'
        BY <2>1, <2>3, <2>4 DEF DeletersFit, KernelsTypeOK
    <2>8. KernelOutlivesUsers'
        <3> SUFFICES ASSUME NEW c \in Buffers
                     PROVE  /\ UsersOf(c)' # {} => buffer'[c] \in {"heap", "static"}
                            /\ buffer'[c] = "heap" => UsersOf(c)' # {}
                            /\ buffer'[c] # "twice"
                            /\ deleter'[c] = "nothing" => buffer'[c] = "static"
                            /\ buffer'[c] = "static" => deleter'[c] = "nothing"
            BY DEF KernelOutlivesUsers
        <3>1. CASE c = b
            <4>1. buffer'[c] = IF uses[c] = 1 /\ deleter[c] = "free" THEN "freed"
                               ELSE buffer[c]
                BY <2>4, <3>1 DEF KernelsTypeOK
            <4>2. buffer[c] = "heap" => deleter[c] = "free"
                BY DEF DeletersFit, KernelOutlivesUsers, KernelsTypeOK
            <4>3. deleter[c] = "nothing" => buffer[c] = "static"
                BY DEF KernelOutlivesUsers
            <4>4. uses[c] = 1 <=> UsersOf(c)' = {}
                BY <2>2, <3>1
            <4>5. buffer[c] \in {"heap", "static"} /\ deleter'[c] = deleter[c]
                BY <2>3, <3>1
            <4>6. buffer[c] = "static" => deleter[c] = "nothing"
                BY DEF KernelOutlivesUsers
            <4> QED BY <4>1, <4>2, <4>3, <4>4, <4>5, <4>6
        <3>2. CASE c # b
            <4>1. buffer'[c] = buffer[c] /\ UsersOf(c)' = UsersOf(c)
                BY <2>2, <2>4, <3>2 DEF KernelsTypeOK
            <4> QED BY <4>1 DEF KernelOutlivesUsers
        <3> QED BY <3>1, <3>2
    <2> QED BY <2>2, <2>5, <2>6, <2>7, <2>8
<1> QED BY <1>1, <1>2

LEMMA DeleteKeepsKInv ==
    ASSUME KInv, \/ \E t \in Starters : DropCopy(t)
                 \/ \E g \in Groups : DeleteGroup(g)
    PROVE  KInv'
BY ResetKeepsKInv DEF DropCopy, DeleteGroup, Pointers

-----------------------------------------------------------------------------
\* The inductive invariant holds in every behaviour of the kernel buffers.
THEOREM KernelsInvariance == KernelsSpec => []KInv
<1>1. KernelsInit => KInv
    BY InitKInv
<1>2. KInv /\ [KernelsNext]_kernels => KInv'
    <2> SUFFICES ASSUME KInv, [KernelsNext]_kernels PROVE KInv'
        OBVIOUS
    <2>1. CASE UNCHANGED kernels
        BY <2>1 DEF kernels, KInv, KernelsTypeOK, UsesAreExact, UsersOf,
           OwnersAreAlive, DeletersFit, KernelOutlivesUsers
    <2>2. CASE KernelsNext
        BY <2>2, NewGroupKeepsKInv, AssociateKeepsKInv, CopyKeepsKInv,
           MoveKeepsKInv, DeleteKeepsKInv DEF KernelsNext
    <2> QED BY <2>1, <2>2
<1> QED BY <1>1, <1>2, PTL DEF KernelsSpec

\* Through the three setters of isolate_data.h:52-77 and any order of
\* shutdowns no kernel buffer is freed under a group or a thread, none is
\* freed twice and none that is owned is kept when nobody has it any more.
THEOREM BuffersOutliveUsers == KernelsSpec => []KernelOutlivesUsers
<1>1. KInv => KernelOutlivesUsers
    BY DEF KInv
<1> QED BY <1>1, KernelsInvariance, PTL

-----------------------------------------------------------------------------
(* Platform.                                                               *)

\* The threads that found no name.
Resolving == {t \in Resolvers : at[t] = "resolving"}

PlatformTypeOK ==
    /\ resolved \in Names \cup {NoName}
    /\ at \in [Resolvers -> {"outside", "resolving", "returning"}]
    /\ returned \in [Resolvers -> Names \cup {NoName}]
    /\ copies \subseteq Names /\ IsFiniteSet(copies)

\* Once there is a name nobody starts to resolve it: each name that is lost
\* has cost a thread.
NamesInv ==
    /\ PlatformTypeOK
    /\ \A t \in Resolvers : returned[t] \in copies \cup {NoName}
    /\ IF resolved = NoName THEN copies = {}
       ELSE /\ resolved \in copies
            /\ Cardinality(copies \ {resolved}) + Cardinality(Resolving)
                 < Cardinality(Resolvers)

\* The threads are finitely many, and so are those that resolve.
LEMMA ResolvingIsFinite ==
    /\ IsFiniteSet(Resolving)
    /\ Cardinality(Resolving) \in Nat
    /\ Cardinality(Resolving) <= Cardinality(Resolvers)
    /\ Cardinality(Resolvers) \in Nat \ {0}
<1>1. IsFiniteSet(Resolvers) /\ Resolvers # {} /\ Resolving \subseteq Resolvers
    BY NamesAssumption DEF Resolving
<1>2. IsFiniteSet(Resolving) /\ Cardinality(Resolving) <= Cardinality(Resolvers)
    BY <1>1, FS_Subset
<1>3. Cardinality(Resolvers) # 0
    BY <1>1, FS_EmptySet
<1> QED BY <1>1, <1>2, <1>3, FS_CardinalityType

\* A thread that is done with resolving is one less.
LEMMA ResolverLeaves ==
    ASSUME PlatformTypeOK, NEW t \in Resolvers, at[t] = "resolving",
           at' = [at EXCEPT ![t] = "returning"]
    PROVE  Cardinality(Resolving)' = Cardinality(Resolving) - 1
<1>1. Resolving' = Resolving \ {t} /\ t \in Resolving
    BY DEF Resolving, PlatformTypeOK
<1>2. IsFiniteSet(Resolving)
    BY ResolvingIsFinite
<1> QED BY <1>1, <1>2, FS_RemoveElement

\* A name is stored over another one, which is lost, or over none.
LEMMA StoreKeepsNames ==
    ASSUME NamesInv, NEW t \in Resolvers, NEW name \in Names,
           StoreName(t, name)
    PROVE  NamesInv'
<1> USE DEF NamesInv, PlatformTypeOK, StoreName
<1>1. Cardinality(Resolving)' = Cardinality(Resolving) - 1
    BY ResolverLeaves
<1>2. IsFiniteSet(copies') /\ copies' \ {resolved'} = copies
    BY FS_AddElement
<1>3. Cardinality(copies) + Cardinality(Resolving)' < Cardinality(Resolvers)
    <2>1. CASE resolved = NoName
        BY <1>1, <2>1, FS_EmptySet, ResolvingIsFinite
    <2>2. CASE resolved # NoName
        <3>1. /\ Cardinality(copies \ {resolved}) = Cardinality(copies) - 1
              /\ Cardinality(copies) \in Nat
            BY <2>2, FS_RemoveElement, FS_CardinalityType
        <3> QED BY <1>1, <2>2, <3>1, ResolvingIsFinite
    <2> QED BY <2>1, <2>2
<1> QED BY <1>2, <1>3, NamesAssumption

\* The other steps store nothing.
LEMMA FindKeepsNames ==
    ASSUME NamesInv, NEW t \in Resolvers,
           FindName(t) \/ NoPath(t) \/ ReturnName(t)
    PROVE  NamesInv'
<1> USE DEF NamesInv, PlatformTypeOK, FindName, NoPath, ReturnName
<1>1. /\ PlatformTypeOK'
      /\ \A u \in Resolvers : returned'[u] \in copies' \cup {NoName}
      /\ resolved' = resolved /\ copies' = copies
    OBVIOUS
<1>2. CASE NoPath(t)
    <2>1. Cardinality(Resolving)' = Cardinality(Resolving) - 1
        BY <1>2, ResolverLeaves
    <2>2. copies # {} => Cardinality(copies \ {resolved}) \in Nat
        BY FS_RemoveElement, FS_CardinalityType
    <2> QED BY <1>1, <2>1, <2>2, ResolvingIsFinite
<1>3. CASE (FindName(t) /\ resolved # NoName) \/ ReturnName(t)
    <2>1. Resolving' = Resolving
        BY <1>3 DEF Resolving
    <2> QED BY <1>1, <2>1
<1> QED BY <1>1, <1>2, <1>3

\* Racing threads lose at most one name less than there are of them, and
\* nobody is given a name that is not there (bin/platform.h:77-89).
THEOREM RacesLoseFew == PlatformSpec => []RaceLosesFew
<1>1. PlatformInit => NamesInv
    <2> SUFFICES ASSUME PlatformInit PROVE NamesInv
        OBVIOUS
    <2> QED BY FS_EmptySet DEF PlatformInit, NamesInv, PlatformTypeOK
<1>2. NamesInv /\ [PlatformNext]_platform => NamesInv'
    <2> SUFFICES ASSUME NamesInv, [PlatformNext]_platform PROVE NamesInv'
        OBVIOUS
    <2>1. CASE UNCHANGED platform
        BY <2>1 DEF platform, NamesInv, PlatformTypeOK, Resolving
    <2>2. CASE PlatformNext
        BY <2>2, StoreKeepsNames, FindKeepsNames DEF PlatformNext
    <2> QED BY <2>1, <2>2
<1>3. NamesInv => RaceLosesFew
    <2> SUFFICES ASSUME NamesInv PROVE RaceLosesFew
        OBVIOUS
    <2>1. CASE resolved = NoName
        <3>1. copies \ {resolved} = {}
            BY <2>1 DEF NamesInv
        <3> QED BY <3>1, FS_EmptySet, ResolvingIsFinite
                   DEF NamesInv, RaceLosesFew
    <2>2. CASE resolved # NoName
        <3>1. Cardinality(copies \ {resolved}) \in Nat
            BY <2>2, FS_RemoveElement, FS_CardinalityType
               DEF NamesInv, PlatformTypeOK
        <3> QED BY <2>2, <3>1, ResolvingIsFinite DEF NamesInv, RaceLosesFew
    <2> QED BY <2>1, <2>2
<1> QED BY <1>1, <1>2, <1>3, PTL DEF PlatformSpec

-----------------------------------------------------------------------------
(* MemoryOrder.  Knowledge is never lost: what a thread did is known to    *)
(* itself while it has a reference, and goes with the reference: into the  *)
(* slot that hands it over, or into the count when it is released.  Retain *)
(* is relaxed, but it passes on what the count carries.                    *)

\* The count is the number of references that were not given back.
CountIsGiven == refCount.value = Cardinality(Given)

\* A reference that waits in the slot is nobody's.
SlotIsNotOwned == slot.value # Nobody => owner[slot.value] = Nobody

\* Where the knowledge of an access is kept.
IsKnown(a) ==
    \/ a \in refCount.carries
    \/ \E t \in Users : Held(t) # {} /\ a \in view[t]
    \/ slot.value # Nobody /\ a \in slot.carries

NothingIsForgotten == destroyer = Nobody => \A a \in accesses : IsKnown(a)

\* The object is deleted when there is no reference, by one who knows all.
DeletedLast ==
    /\ destroyer # Nobody <=> Given = {}
    /\ DeleterKnowsAll

MInv ==
    /\ MemoryTypeOK
    /\ CountIsGiven
    /\ SlotIsNotOwned
    /\ HoldersKnowObject
    /\ NothingIsForgotten
    /\ DeletedLast

-----------------------------------------------------------------------------
\* There are finitely many references.
LEMMA GivenIsFinite ==
    ASSUME MemoryTypeOK
    PROVE  IsFiniteSet(Given) /\ Given \subseteq References
<1>1. Given \subseteq References
    BY DEF Given, MemoryTypeOK
<1> QED BY <1>1, OrderAssumption, FS_Subset

\* The constructor is known to its thread, which has the first reference.
LEMMA InitMInv == MemoryInit => MInv
<1> SUFFICES ASSUME NEW first \in References, NewObject(first) PROVE MInv
    BY DEF MemoryInit
<1> USE OrderAssumption DEF NewObject
<1>1. Construction \in Accesses
    BY DEF Construction, Accesses
<1>2. MemoryTypeOK
    BY <1>1 DEF MemoryTypeOK
<1>3. Given = {first}
    BY DEF Given
<1>4. CountIsGiven
    BY <1>3, FS_Singleton DEF CountIsGiven
<1>5. SlotIsNotOwned /\ HoldersKnowObject
    BY DEF SlotIsNotOwned, HoldersKnowObject, Held
<1>6. NothingIsForgotten
    <2>1. first \in Held(Creator) /\ Construction \in view[Creator]
        BY DEF Held
    <2> QED BY <2>1 DEF NothingIsForgotten, IsKnown
<1>7. DeletedLast
    BY <1>3 DEF DeletedLast, DeleterKnowsAll
<1> QED BY <1>2, <1>4, <1>5, <1>6, <1>7 DEF MInv

\* An access is known to the thread that makes it.
LEMMA AccessKeepsMInv ==
    ASSUME MInv, NEW t \in Users, NEW n \in 1 .. MaxAccesses, Access(t, n)
    PROVE  MInv'
<1> USE OrderAssumption DEF MInv, Access
<1>1. <<t, n>> \in Accesses
    BY DEF Accesses
<1>2. MemoryTypeOK'
    BY <1>1 DEF MemoryTypeOK
<1>3. Given' = Given /\ \A u \in Users : Held(u)' = Held(u)
    BY DEF Given, Held
<1>4. \A u \in Users : view[u] \subseteq view'[u]
    BY DEF MemoryTypeOK
<1>5. CountIsGiven' /\ SlotIsNotOwned'
    BY <1>3 DEF CountIsGiven, SlotIsNotOwned
<1>6. HoldersKnowObject'
    BY <1>3, <1>4 DEF HoldersKnowObject
<1>7. Given # {}
    BY DEF Held, Given
<1>8. destroyer = Nobody
    BY <1>7 DEF DeletedLast
<1>9. NothingIsForgotten'
    <2>1. <<t, n>> \in view'[t]
        BY DEF MemoryTypeOK
    <2> QED BY <1>3, <1>4, <1>8, <2>1 DEF NothingIsForgotten, IsKnown
<1>10. DeletedLast'
    BY <1>3, <1>7, <1>8 DEF DeletedLast, DeleterKnowsAll
<1> QED BY <1>2, <1>5, <1>6, <1>9, <1>10

\* Retain passes on what the count carries; its thread has a reference, so
\* the object is not deleted.
LEMMA RetainKeepsMInv ==
    ASSUME MInv, NEW t \in Users, NEW r \in References, Retain(t, r)
    PROVE  MInv'
<1> USE OrderAssumption DEF MInv, Retain
<1>1. /\ refCount.carries \in SUBSET Accesses /\ refCount.value \in Int
      /\ Learns(t, refCount, "relaxed") = view[t]
    BY DEF Learns, Acquires, MemoryTypeOK
<1>2. refCount' = [value |-> refCount.value + 1, carries |-> refCount.carries]
    BY DEF Updated, Releases
<1>3. view' = view
    BY <1>1 DEF MemoryTypeOK
<1>4. MemoryTypeOK'
    BY <1>1, <1>2, <1>3 DEF MemoryTypeOK
<1>5. Given' = Given \cup {r} /\ r \notin Given
    BY DEF Given, Free, MemoryTypeOK
<1>6. CountIsGiven'
    <2>1. Cardinality(Given \cup {r}) = Cardinality(Given) + 1
        BY <1>5, GivenIsFinite, FS_AddElement
    <2>2. refCount'.value = refCount.value + 1
        BY <1>2
    <2> QED BY <1>5, <2>1, <2>2 DEF CountIsGiven
<1>7. SlotIsNotOwned'
    BY <1>5 DEF SlotIsNotOwned, Given, MemoryTypeOK
<1>8. /\ \A u \in Users : Held(u) \subseteq Held(u)'
      /\ \A u \in Users \ {t} : Held(u)' = Held(u)
    BY <1>5 DEF Held, Given, MemoryTypeOK
<1>9. HoldersKnowObject'
    BY <1>3, <1>8 DEF HoldersKnowObject
<1>10. Given # {}
    BY DEF Held, Given
<1>11. destroyer = Nobody
    BY <1>10 DEF DeletedLast
<1>12. NothingIsForgotten'
    BY <1>2, <1>3, <1>8, <1>11 DEF NothingIsForgotten, IsKnown
<1>13. DeletedLast'
    BY <1>5, <1>11 DEF DeletedLast, DeleterKnowsAll
<1> QED BY <1>4, <1>6, <1>7, <1>9, <1>12, <1>13

\* Release leaves what its thread knows in the count; the last one finds
\* there, or knows, all there is to know.
LEMMA ReleaseKeepsMInv ==
    ASSUME MInv, NEW t \in Users, NEW r \in References, Release(t, r)
    PROVE  MInv'
<1> DEFINE known == view[t] \cup refCount.carries
<1> USE OrderAssumption DEF MInv, Release, Drop
<1>1. Learns(t, refCount, "acq_rel") = known
    BY DEF Learns, Acquires
<1>2. refCount' = [value |-> refCount.value - 1, carries |-> known]
    BY <1>1 DEF Updated, Releases
<1>3. view' = [view EXCEPT ![t] = known]
    BY <1>1
<1>4. \A u \in Users : view[u] \subseteq view'[u]
    BY <1>3 DEF MemoryTypeOK
<1>5. MemoryTypeOK'
    BY <1>2, <1>3 DEF MemoryTypeOK
<1>6. Given' = Given \ {r} /\ r \in Given
    BY DEF Given, SlotIsNotOwned, MemoryTypeOK
<1>7. /\ CountIsGiven'
      /\ refCount.value = 1 <=> Given' = {}
    <2>1. /\ IsFiniteSet(Given \ {r})
          /\ Cardinality(Given \ {r}) = Cardinality(Given) - 1
        BY <1>6, GivenIsFinite, FS_RemoveElement
    <2>2. Cardinality(Given \ {r}) = 0 <=> Given \ {r} = {}
        BY <2>1, FS_EmptySet
    <2>3. refCount.value \in Int /\ refCount.value = Cardinality(Given)
        BY DEF CountIsGiven, MemoryTypeOK
    <2> QED BY <1>2, <1>6, <2>1, <2>2, <2>3 DEF CountIsGiven
<1>8. SlotIsNotOwned'
    BY DEF SlotIsNotOwned, MemoryTypeOK
<1>9. \A u \in Users : Held(u)' \subseteq Held(u) /\ (u # t => Held(u)' = Held(u))
    BY DEF Held, MemoryTypeOK
<1>10. HoldersKnowObject'
    BY <1>4, <1>9 DEF HoldersKnowObject
<1>11. destroyer = Nobody
    BY <1>6 DEF DeletedLast
<1>12. \A a \in accesses : IsKnown(a)'
    <2> SUFFICES ASSUME NEW a \in accesses PROVE IsKnown(a)'
        OBVIOUS
    <2>1. IsKnown(a)
        BY <1>11 DEF NothingIsForgotten
    <2> QED BY <1>2, <1>4, <1>9, <2>1 DEF IsKnown
<1>13. DeletedLast'
    <2>1. CASE Given' = {}
        <3>1. slot'.value = Nobody /\ \A u \in Users : Held(u)' = {}
            BY <2>1 DEF Given, Held
        <3>2. \A a \in accesses : a \in known
            BY <1>2, <1>12, <3>1 DEF IsKnown
        <3>3. destroyer' = t /\ accesses' \subseteq view'[t]
            BY <1>3, <1>7, <2>1, <3>2 DEF MemoryTypeOK
        <3> QED BY <2>1, <3>3 DEF DeletedLast, DeleterKnowsAll
    <2>2. CASE Given' # {}
        BY <1>7, <1>11, <2>2 DEF DeletedLast, DeleterKnowsAll
    <2> QED BY <2>1, <2>2
<1> QED BY <1>5, <1>7, <1>8, <1>10, <1>12, <1>13 DEF NothingIsForgotten

\* A reference goes into the slot with all its thread knows.
LEMMA GiveKeepsMInv ==
    ASSUME MInv, NEW t \in Users, NEW r \in References,
           Offer(t, r) \/ Publish(t, r)
    PROVE  MInv'
<1> USE OrderAssumption DEF MInv
<1>1. /\ owner[r] = t /\ slot.value = Nobody
      /\ owner' = [owner EXCEPT ![r] = Nobody]
      /\ refCount' = refCount /\ accesses' = accesses /\ destroyer' = destroyer
    BY DEF Offer, Publish
<1>2. /\ slot' \in [value : References \cup {Nobody}, carries : SUBSET Accesses]
      /\ slot'.value = r /\ view[t] \subseteq slot'.carries
    BY DEF Offer, Publish, DefaultOrder, Updated, Stored, Learns, Acquires,
           Releases, MemoryTypeOK
<1>3. /\ view' \in [Users -> SUBSET Accesses]
      /\ \A u \in Users : view[u] \subseteq view'[u]
    BY DEF Offer, Publish, DefaultOrder, Learns, Acquires, MemoryTypeOK
<1>4. MemoryTypeOK'
    BY <1>1, <1>2, <1>3 DEF MemoryTypeOK
<1>5. Given' = Given
    BY <1>1, <1>2 DEF Given, MemoryTypeOK
<1>6. CountIsGiven' /\ SlotIsNotOwned'
    BY <1>1, <1>2, <1>5 DEF CountIsGiven, SlotIsNotOwned, MemoryTypeOK
<1>7. \A u \in Users : Held(u)' \subseteq Held(u) /\ (u # t => Held(u)' = Held(u))
    BY <1>1 DEF Held, MemoryTypeOK
<1>8. r \in Held(t)
    BY <1>1 DEF Held
<1>9. HoldersKnowObject'
    BY <1>2, <1>3, <1>7, <1>8 DEF HoldersKnowObject
<1>10. NothingIsForgotten'
    BY <1>1, <1>2, <1>3, <1>7 DEF NothingIsForgotten, IsKnown
<1>11. DeletedLast'
    BY <1>1, <1>3, <1>5 DEF DeletedLast, DeleterKnowsAll, MemoryTypeOK
<1> QED BY <1>4, <1>6, <1>9, <1>10, <1>11

\* The thread that takes it learns what the slot carries.
LEMMA TakeKeepsMInv ==
    ASSUME MInv, NEW t \in Users, Take(t)
    PROVE  MInv'
<1> DEFINE known == view[t] \cup slot.carries
<1> USE OrderAssumption DEF MInv, Take
<1>1. Learns(t, slot, "acq_rel") = known
    BY DEF Learns, Acquires
<1>2. slot' = [value |-> Nobody, carries |-> known] /\ view' = [view EXCEPT ![t] = known]
    BY <1>1 DEF DefaultOrder, Updated, Releases, MemoryTypeOK
<1>3. slot.value \in References /\ owner[slot.value] = Nobody
    BY DEF SlotIsNotOwned, MemoryTypeOK
<1>4. MemoryTypeOK'
    BY <1>2, <1>3 DEF MemoryTypeOK
<1>5. Given' = Given
    BY <1>2, <1>3 DEF Given, MemoryTypeOK
<1>6. CountIsGiven' /\ SlotIsNotOwned'
    BY <1>2, <1>5 DEF CountIsGiven, SlotIsNotOwned
<1>7. /\ \A u \in Users : view[u] \subseteq view'[u]
      /\ slot.carries \subseteq view'[t]
    BY <1>2 DEF MemoryTypeOK
<1>8. /\ \A u \in Users : Held(u) \subseteq Held(u)' /\ (u # t => Held(u)' = Held(u))
      /\ slot.value \in Held(t)'
    BY <1>3 DEF Held, MemoryTypeOK
<1>9. HoldersKnowObject'
    BY <1>2, <1>7, <1>8 DEF HoldersKnowObject
<1>10. NothingIsForgotten'
    BY <1>2, <1>7, <1>8 DEF NothingIsForgotten, IsKnown
<1>11. DeletedLast'
    BY <1>5, <1>7 DEF DeletedLast, DeleterKnowsAll, MemoryTypeOK
<1> QED BY <1>4, <1>6, <1>9, <1>10, <1>11

\* Who only looks may learn something.
LEMMA LookKeepsMInv ==
    ASSUME MInv, NEW t \in Users, NEW op, Look(t, op)
    PROVE  MInv'
<1> USE OrderAssumption DEF MInv, Look
<1>1. /\ Learns(t, slot, DefaultOrder(op)) \in SUBSET Accesses
      /\ view[t] \subseteq Learns(t, slot, DefaultOrder(op))
    BY DEF Learns, MemoryTypeOK
<1>2. \A u \in Users : view[u] \subseteq view'[u]
    BY <1>1 DEF MemoryTypeOK
<1>3. MemoryTypeOK'
    BY <1>1 DEF MemoryTypeOK
<1>4. Given' = Given /\ \A u \in Users : Held(u)' = Held(u)
    BY DEF Given, Held
<1>5. CountIsGiven' /\ SlotIsNotOwned'
    BY <1>4 DEF CountIsGiven, SlotIsNotOwned
<1>6. HoldersKnowObject' /\ NothingIsForgotten'
    BY <1>2, <1>4 DEF HoldersKnowObject, NothingIsForgotten, IsKnown
<1>7. DeletedLast'
    BY <1>2, <1>4 DEF DeletedLast, DeleterKnowsAll, MemoryTypeOK
<1> QED BY <1>3, <1>5, <1>6, <1>7

-----------------------------------------------------------------------------
\* The inductive invariant holds in every behaviour.
THEOREM MemoryInvariance == MemorySpec => []MInv
<1>1. MemoryInit => MInv
    BY InitMInv
<1>2. MInv /\ [MemoryNext]_memory => MInv'
    <2> SUFFICES ASSUME MInv, [MemoryNext]_memory PROVE MInv'
        OBVIOUS
    <2>1. CASE UNCHANGED memory
        BY <2>1 DEF memory, MInv, MemoryTypeOK, CountIsGiven, Given,
           SlotIsNotOwned, HoldersKnowObject, Held, NothingIsForgotten,
           IsKnown, DeletedLast, DeleterKnowsAll
    <2>2. CASE MemoryNext
        BY <2>2, AccessKeepsMInv, RetainKeepsMInv, ReleaseKeepsMInv,
           GiveKeepsMInv, TakeKeepsMInv, LookKeepsMInv DEF MemoryNext
    <2> QED BY <2>1, <2>2
<1> QED BY <1>1, <1>2, PTL DEF MemorySpec

\* A relaxed Retain and a Release that acquires and releases
\* (reference_counting.h:49-60) order every access before the delete.
THEOREM DeletesKnowingAll == MemorySpec => []DeleterKnowsAll
<1>1. MInv => DeleterKnowsAll
    BY DEF MInv, DeletedLast
<1> QED BY <1>1, MemoryInvariance, PTL

\* The default orders of AcqRelAtomic (atomic.h:79-125) hand an object over
\* constructed.
THEOREM HandedOverConstructed == MemorySpec => []HoldersKnowObject
<1>1. MInv => HoldersKnowObject
    BY DEF MInv
<1> QED BY <1>1, MemoryInvariance, PTL

-----------------------------------------------------------------------------
(* The parts side by side.                                                 *)

\* A behaviour of the library is one of each part.
LEMMA LibraryIsItsParts ==
    LibrarySpec => /\ ArraysSpec /\ StringsSpec /\ KernelsSpec /\ PlatformSpec
<1>1. LibraryInit => ArraysInit /\ StringsInit /\ KernelsInit /\ PlatformInit
    BY DEF LibraryInit
<1>2. [LibraryNext]_<<part, words, Rest, Owners>> =>
        /\ [ArraysNext]_arrays /\ [StringsNext]_strings
        /\ [KernelsNext]_kernels /\ [PlatformNext]_platform
    BY DEF LibraryNext, Owners
<1> QED BY <1>1, <1>2, PTL
        DEF LibrarySpec, ArraysSpec, StringsSpec, KernelsSpec, PlatformSpec

\* In every behaviour of the library a block and a string that will be freed
\* has one owner who frees it, and a block is as large as its owner takes it
\* to be.
THEOREM EveryOwnerIsAlone == LibrarySpec => []OneOwnerEach
<1>1. StringsInv => StringsHaveOneOwner
    BY DEF StringsInv
<1> QED BY <1>1, LibraryIsItsParts, BlocksAreOwnedOnce, StringsInvariant, PTL
        DEF OneOwnerEach

\* SetLength and the NULL name of a packages file are the only calls of the
\* library that lose memory.
THEOREM OthersLoseNoMemory == LibrarySpec => OnlyTheseLose
BY LibraryIsItsParts, OthersLoseNothing, OthersKeepStrings, PTL
   DEF OnlyTheseLose

\* The message and the object stay what they are, and a buffer is laid out.
LEMMA StaysReadable ==
    LibraryInit => BuffersInv /\ cobject \in Objects
<1> SUFFICES ASSUME LibraryInit PROVE BuffersInv /\ cobject \in Objects
    OBVIOUS
<1>1. BuffersInv
    <2>1. "kRead" \in Operations /\ 0 \in 0 .. MaxSize
        BY BufferAssumption DEF Operations
    <2> QED BY <2>1, NewKeepsBuffers DEF LibraryInit, BufferInit
<1>2. cobject \in Objects
    BY CObjectAssumption DEF LibraryInit, CObjectInit, Objects, Types
<1> QED BY <1>1, <1>2

LEMMA ReadableStep ==
    BuffersInv /\ cobject \in Objects /\ [LibraryNext]_<<part, words, Rest, Owners>>
      => BuffersInv' /\ (cobject \in Objects)'
<1>1. [LibraryNext]_<<part, words, Rest, Owners>> =>
        [BufferNext]_buffers /\ cobject' = cobject
    BY DEF LibraryNext, MacrosNext, MessageNext, CObjectNext, words, Rest
<1> QED BY <1>1, BuffersStep

\* Where a word has 64 bits, what crosses to the other side is read as it was
\* written: any set of bits of a message, any object and any buffer.
THEOREM CrossingsAreRead ==
    ASSUME WordBytes = 8
    PROVE  LibrarySpec => []DataIsReadAsWritten
<1>1. BuffersInv /\ cobject \in Objects => DataIsReadAsWritten
    BY MessagesLemma, TestedLemma, PartsLemma DEF DataIsReadAsWritten
<1> QED BY <1>1, StaysReadable, ReadableStep, PTL DEF LibrarySpec

\* What a compiler and a build define, and nothing, are a build's to define.
LEMMA MacrosStart == LibraryInit => ConfigurationIsConsistent
<1>1. BuildDefines({})
    BY DEF BuildDefines, In, Found
<1>2. ASSUME NEW os \in Compilers, NEW cpu \in Processors,
             NEW chosen \in SUBSET Options, 
             NEW debug \in {{}, {"DEBUG"}, {"NDEBUG"}},
             NEW target \in {{}} \cup {{Target(arch)} : arch \in Architectures},
             NEW system \in {{}, {TargetOS("LINUX")}, {TargetOS("FUCHSIA")}}
      PROVE  BuildDefines({Plain(x) : x \in os \cup {cpu} \cup chosen \cup debug}
                            \cup target \cup system)
    <2> DEFINE plain == os \cup {cpu} \cup chosen \cup debug
               D == {Plain(x) : x \in plain} \cup target \cup system
    <2>1. \A name, x : In(D, name, x) <=>
            \/ name = "PLAIN" /\ x \in plain
            \/ <<name, x>> \in target
            \/ <<name, x>> \in system
        BY SameMacro DEF In, Plain
    <2>2. \A name, x : <<name, x>> \in target => name = "TARGET_ARCH" /\ target = {<<name, x>>}
        <3>1. CASE target = {}
            BY <3>1
        <3>2. CASE target # {}
            <4>1. PICK arch \in Architectures : target = {<<"TARGET_ARCH", arch>>}
                BY <3>2 DEF Target
            <4> QED BY <4>1, SameMacro
        <3> QED BY <3>1, <3>2
    <2>3. \A name, x : <<name, x>> \in system =>
            name = "TARGET_OS" /\ system = {<<name, x>>} /\ x \in Systems
        <3>1. \/ system = {} \/ system = {<<"TARGET_OS", "LINUX">>}
              \/ system = {<<"TARGET_OS", "FUCHSIA">>}
            BY DEF TargetOS
        <3>2. \A name, x, os1 : <<name, x>> \in {<<"TARGET_OS", os1>>} =>
                name = "TARGET_OS" /\ x = os1
            BY SameMacro
        <3>3. "LINUX" \in Systems /\ "FUCHSIA" \in Systems
            BY DEF Systems
        <3> QED BY <3>1, <3>2, <3>3
    <2>4. plain \cap Found = {} /\ ~({"DEBUG", "NDEBUG"} \subseteq plain)
        BY DEF Compilers, Processors, Options, Found
    <2> DEFINE T(x) == <<"TARGET_ARCH", x>> \in target
               S(x) == <<"TARGET_OS", x>> \in system
    <2>5. \A x, y : T(x) /\ T(y) => x = y
        <3>1. \A x, y : T(x) /\ T(y) => {<<"TARGET_ARCH", x>>} = {<<"TARGET_ARCH", y>>}
            BY <2>2
        <3> QED BY <3>1, SameMacro
    <2>6. /\ \A x, y : S(x) /\ S(y) => x = y
          /\ \A x : S(x) => x \in Systems
        <3>1. \A x, y : S(x) /\ S(y) => {<<"TARGET_OS", x>>} = {<<"TARGET_OS", y>>}
            BY <2>3
        <3> QED BY <2>3, <3>1, SameMacro
    <2>7. \A name, x : In(D, name, x) =>
            \/ name = "PLAIN" /\ x \in plain
            \/ name = "TARGET_ARCH" /\ T(x)
            \/ name = "TARGET_OS" /\ S(x)
        <3> HIDE DEF plain, D
        <3> QED BY <2>1, <2>2, <2>3
    <2> HIDE DEF plain, D, T, S
    <2>8. \A x \in Found : ~In(D, "PLAIN", x)
        BY <2>4, <2>7
    <2>9. /\ \A x, y : In(D, "TARGET_ARCH", x) /\ In(D, "TARGET_ARCH", y) => x = y
          /\ \A x, y : In(D, "TARGET_OS", x) /\ In(D, "TARGET_OS", y) => x = y
          /\ \A x : In(D, "TARGET_OS", x) => x \in Systems
        BY <2>5, <2>6, <2>7
    <2>10. /\ \A x : ~In(D, "HOST_OS", x) /\ ~In(D, "HOST_ARCH", x)
           /\ ~(In(D, "PLAIN", "DEBUG") /\ In(D, "PLAIN", "NDEBUG"))
        BY <2>4, <2>7
    <2>11. BuildDefines(D)
        BY <2>8, <2>9, <2>10 DEF BuildDefines
    <2> QED BY <2>11 DEF D, plain
<1>3. LibraryInit => \E D : BuildDefines(D) /\ macros = Preprocess(D)
    BY <1>1, <1>2 DEF LibraryInit, MacrosInit
<1> QED BY <1>3, AcceptedIsConsistent

\* Every build that globals.h accepts, of those that the compilers, processors
\* and options of BuildConfiguration make, is one build, and its target is that
\* of its host but for five pairs, of which those for ARM are simulated or only
\* compiled.
THEOREM BuildsAreConsistent == LibrarySpec => []ConfigurationIsConsistent
<1>1. ConfigurationIsConsistent /\ [LibraryNext]_<<part, words, Rest, Owners>>
        => ConfigurationIsConsistent'
    <2>1. [LibraryNext]_<<part, words, Rest, Owners>> => macros' = macros
        BY DEF LibraryNext, MacrosNext, words
    <2> QED BY <2>1
               DEF ConfigurationIsConsistent, OneOfEach, MismatchesAreThese, Count
<1> QED BY <1>1, MacrosStart, PTL DEF LibrarySpec

=============================================================================
