------------------------------- MODULE Utils -------------------------------
(***************************************************************************)
(* The integer helpers of src/dart/platform/utils.h, over a machine word   *)
(* of any width.                                                           *)
(*                                                                         *)
(* A signed word is an integer of Ints and an unsigned one of Uints; the   *)
(* bits of both are those of two's complement (see Binary).  Where an      *)
(* operator is written with the bounds of T it is the template at          *)
(* T = int64_t (or intptr_t).                                              *)
(***************************************************************************)
EXTENDS Binary, FiniteSetsExt

CONSTANTS
    Width,       \* bits of a word: 64 in the code
    Precision,   \* bits of the significand of a double, fewer: 53 in the code
    NaN          \* the double that is no number

Half == Power[Width - 1]
Modulus == 2 * Half
MinInt == -Half
MaxInt == Half - 1
Ints == MinInt .. MaxInt
Uints == 0 .. (Modulus - 1)

\* The width is a power of two, like sizeof(T) * 8.
ASSUME WidthAssumption ==
    /\ Width \in Nat \ {0}
    /\ Precision \in 1 .. (Width - 1)
    /\ \E k \in 0 .. Width : Width = Power[k]

Bits == 0 .. (Width - 1)

-----------------------------------------------------------------------------
(* Words.                                                                  *)

\* static_cast<Unsigned>(x) and static_cast<T>(u).
ToUnsigned(x) == x % Modulus
ToSigned(u) == LET r == u % Modulus IN IF r < Half THEN r ELSE r - Modulus

\* x & y and x | y, as unsigned words.
And(x, y) == WithBits({k \in Bits : BitOf(x, k) = 1 /\ BitOf(y, k) = 1}, Width)
Or(x, y) == WithBits({k \in Bits : BitOf(x, k) = 1 \/ BitOf(y, k) = 1}, Width)

-----------------------------------------------------------------------------
(* Powers of two and rounding.                                             *)

IsPowerOfTwo(x) == And(x, x - 1) = 0 /\ x # 0

\* The number of times x > 1 is shifted right.
ShiftForPowerOfTwo(x) ==
    CHOOSE k \in Bits : /\ Shift(x, k) <= 1
                        /\ \A j \in 0 .. (k - 1) : Shift(x, j) > 1

IsAligned(x, n) == And(x, n - 1) = 0
RoundDown(x, n) == ToSigned(And(x, -n))

\* MUTANT: x itself is rounded to the next multiple.
RoundUp_Next(x, n) == RoundDown(x + n, n)

RoundUp(x, n) == RoundDown(x + n - 1, n)

-----------------------------------------------------------------------------
(* Sizes.                                                                  *)

\* HighestBit is defined in the library: the place of the highest bit set.
HighestBit(u) == Max({k \in Bits : BitOf(u, k) = 1})

BitLength(x) ==
    LET value == IF x < 0 THEN -x - 1 ELSE x
    IN IF value = 0 THEN 0 ELSE HighestBit(value) + 1

IsInt(N, x) == LET limit == Power[N - 1] IN -limit <= x /\ x < limit
IsUint(N, x) == LET limit == Power[N] - 1 IN 0 <= x /\ ToUnsigned(x) <= limit

\* MUTANT: the value is not negated.
IsAbsoluteUint_KeepsSign(N, x) ==
    IF x = MinInt THEN BOOLEAN ELSE {IsUint(N, x)}

\* The answers there may be: -x of the least word is undefined in C++.
IsAbsoluteUint(N, x) ==
    IF x = MinInt THEN BOOLEAN ELSE {IsUint(N, IF x < 0 THEN -x ELSE x)}

AbsWithSaturation(x) ==
    IF x < 0 THEN IF x = MinInt THEN MaxInt ELSE -x ELSE x

-----------------------------------------------------------------------------
(* Overflow.                                                               *)

\* MUTANT: the sum may wrap.
RangeCheck_Sum(offset, count, length) ==
    /\ offset >= 0 /\ count >= 0 /\ length >= 0
    /\ ToSigned(offset + count) <= length

RangeCheck(offset, count, length) ==
    /\ offset >= 0 /\ count >= 0 /\ length >= 0
    /\ count <= length - offset

WillAddOverflow(a, b) ==
    \/ b > 0 /\ a > MaxInt - b
    \/ b < 0 /\ a < MinInt - b

\* MUTANT: the bounds of the addition.
WillSubOverflow_Swapped(a, b) ==
    \/ b > 0 /\ a < MinInt + b
    \/ b < 0 /\ a >= MaxInt + b

WillSubOverflow(a, b) ==
    \/ b > 0 /\ a < MinInt + b
    \/ b < 0 /\ a > MaxInt + b

\* MUTANT: the carry out of the word is dropped, and the sign with it.
AddWithWrapAround_Unsigned(a, b) == ToUnsigned(ToUnsigned(a) + ToUnsigned(b))

AddWithWrapAround(a, b) == ToSigned(ToUnsigned(a) + ToUnsigned(b))
SubWithWrapAround(a, b) == ToSigned(ToUnsigned(a) - ToUnsigned(b))
MulWithWrapAround(a, b) == ToSigned(ToUnsigned(a) * ToUnsigned(b))
NegWithWrapAround(a) == ToSigned(-ToUnsigned(a))

\* MUTANT: the test of the width is off by one.
ShiftLeftWithTruncation_OffByOne(a, b) ==
    IF b >= Width - 1 THEN 0 ELSE ToSigned(ToUnsigned(a) * Power[b])

ShiftLeftWithTruncation(a, b) ==
    IF b >= Width THEN 0 ELSE ToSigned(ToUnsigned(a) * Power[b])

-----------------------------------------------------------------------------
(* Rotations of a value of T, as the unsigned words there may be: by up to *)
(* the width, as the ASSERT has it, though a shift by the width itself is  *)
(* undefined.  T may be signed, and >> then smears its sign.               *)

\* MUTANT: the right half is shifted by the rotation.
RotatedLeft_SameShift(x, r) ==
    Or(ToUnsigned(ToUnsigned(x) * Power[r]), Shift(x, r))

RotatedLeft(x, r) ==
    Or(ToUnsigned(ToUnsigned(x) * Power[r]), Shift(x, (Width - r) % Width))

RotatedRight(x, r) ==
    Or(Shift(x, r), ToUnsigned(ToUnsigned(x) * Power[(Width - r) % Width]))

RotateLeft(x, r) == IF r = Width THEN Uints ELSE {RotatedLeft(x, r)}
RotateRight(x, r) == IF r = Width THEN Uints ELSE {RotatedRight(x, r)}

-----------------------------------------------------------------------------
(* Masks and halves.                                                       *)

\* MUTANT: the full width is not told apart, and 1 << Width is 1.
NBitMask_FullWidth(n) == Power[n % Width] - 1

NBitMask(n) == IF n = Width THEN Modulus - 1 ELSE Power[n] - 1
Bit(n) == Power[n]
TestBit(mask, position) == BitOf(mask, position) # 0

\* The halves of a word: Low32Bits is signed, Low16Bits is not.
HalfWord == Power[Width \div 2]
Low16Bits(x) == And(x, HalfWord - 1)
Low32Bits(x) ==
    LET low == And(x, HalfWord - 1)
    IN IF 2 * low < HalfWord THEN low ELSE low - HalfWord
HighBits(x) == Shift(x, Width \div 2)

\* MUTANT: the sign of the lower half is kept.
LowHighTo64Bits_KeepsSign(low, high) ==
    ToSigned(Or(ToUnsigned(high) * HalfWord, low))

LowHighTo64Bits(low, high) ==
    ToSigned(Or(ToUnsigned(high) * HalfWord, low % HalfWord))

-----------------------------------------------------------------------------
(* Doubles.  Only whole ones matter here: m * 2^e, with m of Precision     *)
(* bits.  BOUND: up to twice the largest word.                             *)

IsDouble(v) ==
    \E e \in 0 .. Width :
        v % Power[e] = 0 /\ -(Power[Precision]) < v \div Power[e] /\ v \div Power[e] < Power[Precision]

Doubles == {v \in -(2 * Modulus) .. 2 * Modulus : IsDouble(v)}

\* static_cast<double>: the nearest double; of two the one further from 0.
ToDouble(x) ==
    CHOOSE v \in Doubles : \A w \in Doubles :
        LET Distance(u) == IF u < x THEN x - u ELSE u - x
        IN \/ Distance(v) < Distance(w)
           \/ Distance(v) = Distance(w) /\ v * v >= w * w

\* The bounds of a signed type of N bits.
Least(N) == -(Power[N - 1])
Greatest(N) == Power[N - 1] - 1

\* MUTANT: one bound is not tested.
Casts_NoUpperBound(N, v) == v # NaN /\ ToDouble(Least(N)) <= v

\* Whether SafeDoubleToInt casts v to a type of N bits, and what it returns.
Casts(N, v) ==
    v # NaN /\ ToDouble(Least(N)) <= v /\ v <= ToDouble(Greatest(N))

SafeDoubleToInt(N, v) == IF Casts(N, v) THEN v ELSE Least(N)

\* MUTANT: the greatest word.
MaxRepresentable_Word == MaxInt

\* kMinInt64RepresentableAsDouble and kMaxInt64RepresentableAsDouble, the
\* latter 0x7FFFFFFFFFFFFC00 for 64 bits of which a double keeps 53.
MinRepresentable == MinInt
MaxRepresentable == MaxInt - (Power[Width - 1 - Precision] - 1)

IsJavascriptInt(x) == -(Power[Precision]) <= x /\ x <= Power[Precision]

-----------------------------------------------------------------------------
(* Every argument a caller may give.                                       *)

VARIABLES
    left, right, third,    \* words
    bits,                  \* a number of bits, below the width
    real                   \* a double

numbers == <<left, right, third, bits, real>>

DoublesInit ==
    /\ left = 0 /\ right = 0 /\ third = 0 /\ bits = 0
    /\ real \in Doubles \cup {NaN}

NumbersInit ==
    \/ left \in Ints /\ right \in Ints /\ third = 0 /\ bits \in Bits /\ real = 0
    \/ left \in Ints /\ right \in Ints /\ third \in Ints /\ bits = 0 /\ real = 0
    \/ DoublesInit

\* The helpers keep nothing.
NumbersNext == UNCHANGED numbers

NumbersSpec == NumbersInit /\ [][NumbersNext]_numbers
DoublesSpec == DoublesInit /\ [][NumbersNext]_numbers

-----------------------------------------------------------------------------
(* Properties.                                                             *)

\* The overflow tests (utils.h:258-266) are exact, and none of the bounds
\* they compare with overflows itself.
OverflowIsForeseen ==
    /\ WillAddOverflow(left, right) <=> left + right \notin Ints
    /\ WillSubOverflow(left, right) <=> left - right \notin Ints
    /\ right > 0 => MaxInt - right \in Ints /\ MinInt + right \in Ints
    /\ right < 0 => MinInt - right \in Ints /\ MaxInt + right \in Ints

\* "checking if offset + count <= length without the risk of integer
\* overflow" (utils.h:248-250): exact for all three words, of any sign, and
\* the one difference that is taken fits a word.
RangeCheckIsExact ==
    LET offset == left  count == right  length == third IN
    /\ RangeCheck(offset, count, length) <=>
         /\ offset >= 0 /\ count >= 0 /\ length >= 0
         /\ offset + count <= length
    /\ offset >= 0 /\ length >= 0 => length - offset \in Ints

\* The tests that come before an operation decide as the operation itself
\* would on unbounded integers, and no step of theirs leaves the word
\* (utils.h:248-266).
BoundsAreExact == OverflowIsForeseen /\ RangeCheckIsExact

\* A sum or a difference that does not overflow is the plain one, and one
\* that does is off by the modulus, in the opposite direction
\* (utils.h:268-284).
WrapsOnce ==
    /\ AddWithWrapAround(left, right) =
         IF ~WillAddOverflow(left, right) THEN left + right
         ELSE IF right > 0 THEN left + right - Modulus
         ELSE left + right + Modulus
    /\ SubWithWrapAround(left, right) =
         IF ~WillSubOverflow(left, right) THEN left - right
         ELSE IF right > 0 THEN left - right + Modulus
         ELSE left - right - Modulus

\* Products, negation and shifts (utils.h:286-311) are those of the integers
\* modulo 2^Width: a shift is a product with Bit(n), up to the shift by the
\* whole width, and negation is the difference from zero.
ShiftsAreProducts ==
    /\ (MulWithWrapAround(left, right) - left * right) % Modulus = 0
    /\ MulWithWrapAround(left, right) \in Ints
    /\ NegWithWrapAround(left) = SubWithWrapAround(0, left)
    /\ ShiftLeftWithTruncation(left, bits) =
         MulWithWrapAround(left, ToSigned(Bit(bits)))
    /\ ShiftLeftWithTruncation(left, Width) = 0

\* Rounding (utils.h:86-100) is to the nearest multiple on its side, for
\* negative values too, wherever the sum in RoundUp does not overflow; what
\* is rounded is aligned.
RoundsToMultiples ==
    LET size == Bit(bits)
        Multiples == {m \in Ints : m % size = 0}
    IN size \in Ints =>
        /\ RoundDown(left, size) = Max({m \in Multiples : m <= left})
        /\ left + size - 1 \in Ints =>
             RoundUp(left, size) = Min({m \in Multiples : m >= left})
        /\ IsAligned(left, size) <=> RoundDown(left, size) = left

\* The tests of size (utils.h:172-189) and BitLength agree about every word;
\* the test of a magnitude (191-199) agrees with them about every word but the
\* least, whose magnitude the code cannot take.
FitsInBits ==
    bits > 0 =>
        /\ IsInt(bits, left) <=> BitLength(left) < bits
        /\ IsUint(bits, left) <=> left >= 0 /\ BitLength(left) <= bits
        /\ left # MinInt =>
             \A fits \in IsAbsoluteUint(bits, left) :
                 /\ fits <=> BitLength(left) <= bits /\ left # -Bit(bits)
                 /\ fits <=> IsUint(bits, AbsWithSaturation(left))

\* Of unsigned words (utils.h:313-330) the rotations by less than the width
\* move each bit to its place around the word, and undo each other, by zero
\* bits too.  Of negative signed words, and by the whole width, nothing is
\* claimed: there the code does not rotate.
RotationsInvert ==
    LET u == ToUnsigned(left) IN
    /\ \A l \in RotateLeft(u, bits) :
         /\ \A k \in Bits : BitOf(l, (k + bits) % Width) = BitOf(u, k)
         /\ RotateRight(l, bits) = {u}
    /\ \A r \in RotateRight(u, bits) : RotateLeft(r, bits) = {u}

\* Powers of two, shifts and masks (utils.h:59-73, 371-400) describe one
\* another: exactly the words with one bit are powers of two, and a mask of n
\* bits holds the bits below n, up to all of them.
MasksAndPowers ==
    LET u == ToUnsigned(left) IN
    /\ IsPowerOfTwo(u) <=> \E k \in Bits : u = Bit(k)
    /\ ShiftForPowerOfTwo(Bit(bits)) = bits
    /\ \A k \in Bits : /\ TestBit(NBitMask(bits), k) <=> k < bits
                       /\ TestBit(NBitMask(Width), k)

\* A word is put together again from its halves (utils.h:201-219), whether
\* or not the lower one was taken with its sign.
HalvesRejoin ==
    \A low \in {Low16Bits(left), Low32Bits(left)} :
        LowHighTo64Bits(low, HighBits(left)) = left

\* What the helpers for bits compute is what arithmetic says, for every word
\* and every number of bits at once (utils.h:45-219, 286-330, 371-400),
\* wherever what they do is defined.
WordsAreExact ==
    /\ ShiftsAreProducts /\ RoundsToMultiples /\ FitsInBits
    /\ RotationsInvert /\ MasksAndPowers /\ HalvesRejoin

\* "A double-to-integer conversion that avoids undefined behavior"
\* (utils.h:354): only a double within the range of T is cast, for the T of a
\* whole word.
CastIsDefined == Casts(Width, real) => real \in Ints

\* "Out of range values and NaNs are converted to minimum value for type T"
\* (utils.h:355-356), and every other value to itself, for a T of half a
\* word, whose greatest value is a double.
ConversionIsExact ==
    LET T == Width \div 2 IN
    T <= Precision + 1 =>
        SafeDoubleToInt(T, real) =
            IF real # NaN /\ real \in Least(T) .. Greatest(T) THEN real ELSE Least(T)

\* The bounds that globals.h keeps for doubles (499-501) are exact: they are
\* doubles, so that comparing with them does not round, and between
\* them lie the doubles that fit a word and no other; and so are those of
\* dart2js (utils.h:365-369): its integers are the words below which no
\* integer is lost as a double.
RepresentableIsExact ==
    /\ {MinRepresentable, MaxRepresentable} \subseteq Doubles
    /\ real # NaN =>
         (real \in Ints <=> MinRepresentable <= real /\ real <= MaxRepresentable)
    /\ IsJavascriptInt(left) <=>
         LET n == IF left < 0 THEN -left ELSE left
         IN \A v \in -n .. n : IsDouble(v)

\* Between integers and doubles nothing changes unnoticed: what can be
\* converted is, and the bounds that tell what can are the exact ones
\* (utils.h:354-369, globals.h:499-501).
DoublesAreExact == ConversionIsExact /\ RepresentableIsExact

=============================================================================
