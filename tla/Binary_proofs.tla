---------------------------- MODULE Binary_proofs ----------------------------
(***************************************************************************)
(* What the other proofs need of numbers: induction over them for a set of *)
(* them, the functions that a recursion over numbers defines, division,    *)
(* and the powers, shifts and bits of Binary.                              *)
(***************************************************************************)
EXTENDS Binary, WellFoundedInduction, TLAPS

-----------------------------------------------------------------------------
(* Induction and recursion.                                                *)

\* A set of numbers has a least one.
LEMMA LeastNumber ==
    ASSUME NEW T, T \subseteq Nat, T # {}
    PROVE  \E m \in T : \A n \in T : m <= n
<1> DEFINE R == OpToRel(<, Nat)
<1>1. PICK m \in T : \A n \in T : ~(<<n, m>> \in R)
    <2>1. IsWellFoundedOn(R, Nat)
        BY NatLessThanWellFounded
    <2> HIDE DEF R
    <2> QED BY <2>1, WFMin
<1>2. ASSUME NEW n \in T PROVE m <= n
    <2>1. <<n, m>> \in Nat \X Nat
        OBVIOUS
    <2>2. n < m => <<n, m>> \in R
        BY <2>1 DEF OpToRel
    <2>3. ~(n < m)
        BY <1>1, <2>2, Zenon
    <2> HIDE DEF R
    <2>4. n \in Nat /\ m \in Nat
        OBVIOUS
    <2> QED BY <2>3, <2>4
<1> QED BY <1>2

\* A set that 0 is in and that goes on from each number to the next.
LEMMA SetInduction ==
    ASSUME NEW T, 0 \in T, \A n \in Nat : n \in T => n + 1 \in T
    PROVE  \A n \in Nat : n \in T
<1> SUFFICES ASSUME Nat \ T # {} PROVE FALSE
    OBVIOUS
<1>1. PICK m \in Nat \ T : \A n \in Nat \ T : m <= n
    BY LeastNumber
<1>2. m - 1 \in Nat /\ m - 1 \in T
    BY <1>1
<1> QED BY <1>1, <1>2

\* f goes from x from step to step.
Iterates(f, S, step, x) ==
    f \in [Nat -> S] /\ f[0] = x /\ \A n \in Nat : f[n + 1] = step[f[n]]

\* There is such a function.
LEMMA IteratesExist ==
    ASSUME NEW S, NEW step \in [S -> S], NEW x \in S
    PROVE  \E f : Iterates(f, S, step, x)
<1> DEFINE Begins(f, n) ==
             /\ f \in [0 .. n -> S] /\ f[0] = x
             /\ \A k \in 0 .. n : k # n => f[k + 1] = step[f[k]]
           T == {n \in Nat : \E f : Begins(f, n)}
<1>1. 0 \in T
    <2>1. Begins([k \in 0 .. 0 |-> x], 0)
        OBVIOUS
    <2> QED BY <2>1
<1>2. ASSUME NEW n \in Nat, n \in T PROVE n + 1 \in T
    <2>1. PICK f : Begins(f, n)
        BY <1>2
    <2> DEFINE g == [k \in 0 .. (n + 1) |->
                       IF k = n + 1 THEN step[f[n]] ELSE f[k]]
    <2>2. Begins(g, n + 1)
        <3>1. g \in [0 .. (n + 1) -> S] /\ g[0] = x
            BY <2>1
        <3>2. ASSUME NEW k \in 0 .. (n + 1), k # n + 1
              PROVE  g[k + 1] = step[g[k]]
            <4>1. g[k] = f[k] /\ k \in 0 .. n
                BY <3>2
            <4>2. CASE k = n
                BY <4>1, <4>2
            <4>3. CASE k # n
                BY <2>1, <4>1, <4>3
            <4> QED BY <4>2, <4>3
        <3> QED BY <3>1, <3>2
    <2> QED BY <2>2
<1>3. \A n \in Nat : n \in T
    <2> HIDE DEF T
    <2> QED BY <1>1, <1>2, SetInduction
<1> DEFINE F(n) == CHOOSE f : Begins(f, n)
<1>4. \A n \in Nat : Begins(F(n), n)
    <2> HIDE DEF Begins
    <2> QED BY <1>3
<1>5. \A n \in Nat : F(n)[0] = x /\ F(n) \in [0 .. n -> S]
    <2> HIDE DEF F
    <2> QED BY <1>4
<1>6. ASSUME NEW n \in Nat
      PROVE  F(n + 1)[n] = F(n)[n]
    <2> DEFINE Agree == {k \in Nat : k <= n => F(n + 1)[k] = F(n)[k]}
    <2> HIDE DEF F
    <2>0. Begins(F(n), n) /\ Begins(F(n + 1), n + 1)
        <3> HIDE DEF Begins
        <3> QED BY <1>4
    <2>1. 0 \in Agree
        BY <2>0
    <2>2. ASSUME NEW k \in Nat, k \in Agree PROVE k + 1 \in Agree
        BY <2>0, <2>2
    <2>3. n \in Agree
        <3> HIDE DEF Agree
        <3> QED BY <2>1, <2>2, SetInduction
    <2> QED BY <2>3
<1> DEFINE h == [n \in Nat |-> F(n)[n]]
<1>7. h \in [Nat -> S] /\ h[0] = x
    <2> HIDE DEF F
    <2> QED BY <1>5
<1>8. ASSUME NEW n \in Nat PROVE h[n + 1] = step[h[n]]
    <2> HIDE DEF F
    <2>1. F(n + 1)[n + 1] = step[F(n + 1)[n]]
        BY <1>4
    <2> QED BY <1>6, <2>1
<1>9. Iterates(h, S, step, x)
    <2> HIDE DEF h
    <2> QED BY <1>7, <1>8 DEF Iterates
<1> QED BY <1>9

\* A set that the first number of a range is in, and that goes on from each of
\* its numbers to the next.
LEMMA RangeInduction ==
    ASSUME NEW T, NEW n \in Nat, 0 \in T,
           \A k \in 1 .. n : k - 1 \in T => k \in T
    PROVE  \A k \in 0 .. n : k \in T
<1> DEFINE U == {k \in Nat : k <= n => k \in T}
<1>1. 0 \in U
    OBVIOUS
<1>2. ASSUME NEW k \in Nat, k \in U PROVE k + 1 \in U
    <2>1. CASE k + 1 <= n
        <3>1. k + 1 \in 1 .. n /\ (k + 1) - 1 = k /\ k \in T
            BY <1>2, <2>1
        <3> QED BY <3>1
    <2> QED BY <2>1
<1>3. \A k \in Nat : k \in U
    <2> HIDE DEF U
    <2> QED BY <1>1, <1>2, SetInduction
<1> QED BY <1>3

\* f is what n rounds of step make of x: round k is step with k.
Runs(f, S, step, x, n) ==
    f \in [0 .. n -> S] /\ f[0] = x /\ \A k \in 1 .. n : f[k] = step[<<f[k - 1], k - 1>>]

\* There are such rounds.
LEMMA RunExists ==
    ASSUME NEW S, NEW n \in Nat, NEW step \in [S \X Nat -> S], NEW x \in S
    PROVE  \E f : Runs(f, S, step, x, n)
<1> DEFINE T == {m \in Nat : \E f : Runs(f, S, step, x, m)}
<1>1. 0 \in T
    <2>1. Runs([k \in 0 .. 0 |-> x], S, step, x, 0)
        BY DEF Runs
    <2> QED BY <2>1
<1>2. ASSUME NEW m \in Nat, m \in T PROVE m + 1 \in T
    <2>1. PICK f : Runs(f, S, step, x, m)
        BY <1>2
    <2> DEFINE g == [k \in 0 .. (m + 1) |-> IF k = m + 1 THEN step[<<f[m], m>>] ELSE f[k]]
    <2>2. f[m] \in S /\ step[<<f[m], m>>] \in S
        BY <2>1 DEF Runs
    <2>3. g \in [0 .. (m + 1) -> S] /\ g[0] = x
        BY <2>1, <2>2 DEF Runs
    <2>4. ASSUME NEW k \in 1 .. (m + 1) PROVE g[k] = step[<<g[k - 1], k - 1>>]
        <3>1. g[k - 1] = f[k - 1]
            OBVIOUS
        <3>2. CASE k = m + 1
            <4>1. k - 1 = m /\ g[k] = step[<<f[m], m>>]
                BY <3>2
            <4> QED BY <3>1, <4>1
        <3>3. CASE k # m + 1
            BY <2>1, <3>1, <3>3 DEF Runs
        <3> QED BY <3>2, <3>3
    <2>5. Runs(g, S, step, x, m + 1)
        <3> HIDE DEF g
        <3> QED BY <2>3, <2>4 DEF Runs
    <2> QED BY <2>5
<1>3. \A m \in Nat : m \in T
    <2> HIDE DEF T
    <2> QED BY <1>1, <1>2, SetInduction
<1> QED BY <1>3

-----------------------------------------------------------------------------
(* Division.                                                               *)

\* More of a multiple is not less.
LEMMA MoreOf ==
    ASSUME NEW m \in Nat, NEW a \in Int, NEW b \in Int, a <= b
    PROVE  m * a <= m * b
OBVIOUS

\* What division leaves.
LEMMA Divided ==
    ASSUME NEW m \in Nat, m > 0, NEW x \in Int
    PROVE  /\ x \div m \in Int /\ x % m \in Nat /\ x % m < m
           /\ x = m * (x \div m) + (x % m)
OBVIOUS

\* Quotient and remainder are the only such numbers.
LEMMA Division ==
    ASSUME NEW m \in Nat, m > 0, NEW q \in Int, NEW r \in Nat, r < m
    PROVE  (m * q + r) \div m = q /\ (m * q + r) % m = r
<1> DEFINE a == m * q + r
           p == a \div m
           s == a % m
<1>1. /\ a \in Int /\ m * q \in Int
      /\ p \in Int /\ s \in Nat /\ s < m
      /\ a = m * p + s /\ a = m * q + r
    BY Divided
<1> HIDE DEF a, p, s
<1>2. m * (q - p) = s - r
    BY <1>1
<1>3. ~(q - p >= 1)
    <2>1. q - p >= 1 => m * (q - p) >= m * 1
        BY <1>1, MoreOf
    <2> QED BY <1>1, <1>2, <2>1
<1>4. ~(q - p <= -1)
    <2>1. q - p <= -1 => m * (q - p) <= m * (-1)
        BY <1>1, MoreOf
    <2> QED BY <1>1, <1>2, <2>1
<1>5. p = q
    BY <1>1, <1>3, <1>4
<1>6. s = r
    BY <1>1, <1>5
<1> QED BY <1>5, <1>6 DEF a, p, s

\* A multiple leaves nothing.
LEMMA Multiple ==
    ASSUME NEW m \in Nat, m > 0, NEW q \in Int, NEW x, x = m * q
    PROVE  x % m = 0 /\ x \div m = q
<1> DEFINE zero == 0
<1>1. zero \in Nat /\ zero < m /\ x = m * q + zero
    OBVIOUS
<1> HIDE DEF zero
<1>2. x % m = zero /\ x \div m = q
    BY <1>1, Division
<1> QED BY <1>2 DEF zero

\* A number below m is its own remainder.
LEMMA Below ==
    ASSUME NEW m \in Nat, m > 0, NEW r \in Nat, r < m
    PROVE  r \div m = 0 /\ r % m = r
<1>1. m * 0 + r = r
    OBVIOUS
<1> QED BY <1>1, Division

-----------------------------------------------------------------------------
(* Powers of two.                                                          *)

\* The powers of two are what doubling makes of one.
LEMMA PowerType == /\ Power \in [Nat -> Nat]
                   /\ Power[0] = 1
                   /\ \A k \in Nat : Power[k + 1] = 2 * Power[k]
<1> DEFINE step == [x \in Nat |-> 2 * x]
           IsPower(f) == f = [k \in Nat |-> IF k = 0 THEN 1 ELSE 2 * f[k - 1]]
<1>1. PICK f : Iterates(f, Nat, step, 1)
    <2>1. step \in [Nat -> Nat]
        OBVIOUS
    <2> HIDE DEF step
    <2> QED BY <2>1, IteratesExist
<1>2. ASSUME NEW k \in Nat
      PROVE  f[k] = IF k = 0 THEN 1 ELSE 2 * f[k - 1]
    <2>1. CASE k = 0
        BY <1>1, <2>1 DEF Iterates
    <2>2. CASE k # 0
        <3>1. k - 1 \in Nat /\ (k - 1) + 1 = k
            BY <2>2
        <3>2. f[(k - 1) + 1] = step[f[k - 1]] /\ f[k - 1] \in Nat
            <4> HIDE DEF step
            <4> QED BY <1>1, <3>1 DEF Iterates
        <3> QED BY <2>2, <3>1, <3>2
    <2> QED BY <2>1, <2>2
<1>3. IsPower(f)
    BY <1>1, <1>2 DEF Iterates
<1>4. IsPower(Power)
    <2>1. Power = CHOOSE g : IsPower(g)
        BY DEF Power
    <2> HIDE DEF IsPower
    <2> QED BY <1>3, <2>1
<1>5. Power[0] = 1
    BY <1>4
<1>6. \A k \in Nat : Power[k + 1] = 2 * Power[k]
    BY <1>4
<1>7. \A k \in Nat : Power[k] \in Nat
    <2> DEFINE T == {k \in Nat : Power[k] \in Nat}
    <2>1. 0 \in T
        BY <1>5
    <2>2. \A k \in Nat : k \in T => k + 1 \in T
        BY <1>6
    <2>3. \A k \in Nat : k \in T
        <3> HIDE DEF T
        <3> QED BY <2>1, <2>2, SetInduction
    <2> QED BY <2>3
<1> QED BY <1>4, <1>5, <1>6, <1>7

\* The exponents add up.
LEMMA PowerSum ==
    \A i, j \in Nat : Power[i + j] = Power[i] * Power[j]
<1> SUFFICES ASSUME NEW i \in Nat
             PROVE  \A j \in Nat : Power[i + j] = Power[i] * Power[j]
    OBVIOUS
<1> DEFINE T == {j \in Nat : Power[i + j] = Power[i] * Power[j]}
<1>1. 0 \in T
    BY PowerType
<1>2. ASSUME NEW j \in Nat, j \in T PROVE j + 1 \in T
    <2>1. i + j \in Nat /\ i + (j + 1) = (i + j) + 1
        OBVIOUS
    <2>2. Power[i + (j + 1)] = 2 * Power[i + j] /\ Power[j + 1] = 2 * Power[j]
        BY <2>1, PowerType
    <2>3. Power[i] \in Nat /\ Power[j] \in Nat /\ Power[i + j] = Power[i] * Power[j]
        BY <1>2, PowerType
    <2>4. Power[i + (j + 1)] = Power[i] * Power[j + 1]
        BY <2>2, <2>3
    <2> QED BY <2>4
<1>3. \A j \in Nat : j \in T
    <2> HIDE DEF T
    <2> QED BY <1>1, <1>2, SetInduction
<1> QED BY <1>3

\* A power of two is more than its exponent.
LEMMA PowerPositive ==
    \A k \in Nat : Power[k] \in Nat /\ Power[k] >= 1 /\ Power[k] > k
<1> DEFINE T == {k \in Nat : Power[k] \in Nat /\ Power[k] > k}
<1>1. 0 \in T
    BY PowerType
<1>2. ASSUME NEW k \in Nat, k \in T PROVE k + 1 \in T
    <2>1. Power[k + 1] = 2 * Power[k]
        BY PowerType
    <2> QED BY <1>2, <2>1
<1>3. \A k \in Nat : k \in T
    <2> HIDE DEF T
    <2> QED BY <1>1, <1>2, SetInduction
<1> QED BY <1>3

\* The greater of two is a multiple of the other, an even one.
LEMMA PowerOrder ==
    ASSUME NEW i \in Nat, NEW j \in Nat, i <= j
    PROVE  /\ j - i \in Nat /\ Power[j] = Power[i] * Power[j - i]
           /\ Power[i] <= Power[j]
           /\ i < j => /\ j - i - 1 \in Nat
                       /\ Power[j - i] = 2 * Power[j - i - 1]
                       /\ 2 * Power[i] <= Power[j]
<1>1. j - i \in Nat /\ i + (j - i) = j
    OBVIOUS
<1>2. Power[j] = Power[i] * Power[j - i]
    BY <1>1, PowerSum
<1>3. Power[i] \in Nat /\ Power[j - i] \in Nat /\ Power[j - i] >= 1
    BY <1>1, PowerPositive
<1>4. Power[i] * 1 <= Power[i] * Power[j - i]
    BY <1>3, MoreOf
<1>5. ASSUME i < j
      PROVE  /\ j - i - 1 \in Nat /\ Power[j - i] = 2 * Power[j - i - 1]
             /\ 2 * Power[i] <= Power[j]
    <2>1. j - i - 1 \in Nat /\ (j - i - 1) + 1 = j - i
        BY <1>5
    <2>2. Power[j - i] = 2 * Power[j - i - 1]
        BY <2>1, PowerType
    <2>3. Power[j - i - 1] \in Nat /\ Power[j - i - 1] >= 1
        BY <2>1, PowerPositive
    <2>4. Power[i] * 2 <= Power[i] * Power[j - i]
        BY <1>3, <2>2, <2>3, MoreOf
    <2> QED BY <1>2, <1>3, <2>1, <2>2, <2>4
<1> QED BY <1>1, <1>2, <1>3, <1>4, <1>5

-----------------------------------------------------------------------------
(* Shifts and bits.                                                        *)

\* What a shift by k leaves of a number, and what it drops.
LEMMA Shifted ==
    ASSUME NEW x \in Int, NEW k \in Nat
    PROVE  /\ Shift(x, k) \in Int /\ x % Power[k] \in Nat /\ x % Power[k] < Power[k]
           /\ x = Power[k] * Shift(x, k) + (x % Power[k])
           /\ BitOf(x, k) \in {0, 1}
           /\ Shift(x, k) = 2 * (Shift(x, k) \div 2) + BitOf(x, k)
<1>1. Power[k] \in Nat /\ Power[k] > 0
    BY PowerPositive
<1>2. /\ Shift(x, k) \in Int /\ x % Power[k] \in Nat /\ x % Power[k] < Power[k]
      /\ x = Power[k] * Shift(x, k) + (x % Power[k])
    BY <1>1, Divided DEF Shift
<1>3. /\ BitOf(x, k) \in {0, 1}
      /\ Shift(x, k) = 2 * (Shift(x, k) \div 2) + BitOf(x, k)
    BY <1>2 DEF BitOf
<1> QED BY <1>2, <1>3

\* A shift is told by what it leaves and drops.
LEMMA ShiftIs ==
    ASSUME NEW k \in Nat, NEW q \in Int, NEW r \in Nat, r < Power[k],
           NEW x, x = Power[k] * q + r
    PROVE  Shift(x, k) = q /\ x % Power[k] = r
<1>1. Power[k] \in Nat /\ Power[k] > 0
    BY PowerPositive
<1> QED BY <1>1, Division DEF Shift

\* Two shifts are one.
LEMMA ShiftTwice ==
    ASSUME NEW x \in Int, NEW i \in Nat, NEW j \in Nat
    PROVE  Shift(Shift(x, i), j) = Shift(x, i + j)
<1> DEFINE p == Power[i]
           m == Power[j]
           q == Shift(x, i)
           r == x % p
           q2 == Shift(q, j)
           r2 == q % m
<1>1. /\ q \in Int /\ r \in Nat /\ r < p /\ x = p * q + r
    BY Shifted
<1>2. /\ q2 \in Int /\ r2 \in Nat /\ r2 < m /\ q = m * q2 + r2
    BY <1>1, Shifted
<1>3. /\ p \in Nat /\ m \in Nat /\ p > 0 /\ m > 0 /\ i + j \in Nat
      /\ Power[i + j] = p * m
    <2>1. p \in Nat /\ m \in Nat /\ p > 0 /\ m > 0
        BY PowerPositive
    <2>2. Power[i + j] = p * m
        BY PowerSum
    <2> QED BY <2>1, <2>2
<1> DEFINE d == p * r2 + r
<1> HIDE DEF q, r, q2, r2, p, m
<1>4. p * r2 \in Nat /\ p * r2 <= p * (m - 1)
    BY <1>2, <1>3, MoreOf
<1>5. d \in Nat /\ d < p * m
    BY <1>1, <1>3, <1>4
<1>6. x = (p * m) * q2 + d
    BY <1>1, <1>2, <1>3
<1> HIDE DEF d
<1>7. Shift(x, i + j) = q2
    <2>1. d < Power[i + j] /\ x = Power[i + j] * q2 + d
        BY <1>3, <1>5, <1>6
    <2> QED BY <1>2, <1>3, <1>5, <2>1, ShiftIs
<1> QED BY <1>7 DEF q2, q

\* One more bit of a remainder.
LEMMA OneMoreBit ==
    ASSUME NEW x \in Int, NEW n \in Nat
    PROVE  x % Power[n + 1] = Power[n] * BitOf(x, n) + (x % Power[n])
<1> DEFINE p == Power[n]
           q == Shift(x, n)
           r == x % p
           b == BitOf(x, n)
           h == q \div 2
<1>1. /\ q \in Int /\ r \in Nat /\ r < p /\ x = p * q + r
      /\ b \in {0, 1} /\ q = 2 * h + b
    BY Shifted
<1>2. p \in Nat /\ h \in Int /\ n + 1 \in Nat /\ Power[n + 1] = 2 * p
    BY <1>1, PowerType
<1> HIDE DEF p, q, r, b, h
<1> DEFINE d == p * b + r
<1>3. d \in Nat /\ d < 2 * p /\ x = (2 * p) * h + d
    BY <1>1, <1>2
<1> HIDE DEF d
<1>4. x % Power[n + 1] = d
    BY <1>2, <1>3, ShiftIs
<1> QED BY <1>4 DEF d, p, r, b

\* Two numbers with the same lower bits leave the same remainder.
LEMMA SameBits ==
    ASSUME NEW x \in Int, NEW y \in Int, NEW n \in Nat,
           \A k \in 0 .. (n - 1) : BitOf(x, k) = BitOf(y, k)
    PROVE  x % Power[n] = y % Power[n]
<1> DEFINE T == {k \in Nat : x % Power[k] = y % Power[k]}
<1>1. 0 \in T
    BY PowerType
<1>2. ASSUME NEW k \in 1 .. n, k - 1 \in T PROVE k \in T
    <2>1. k - 1 \in Nat /\ k - 1 \in 0 .. (n - 1) /\ (k - 1) + 1 = k
        OBVIOUS
    <2>2. /\ x % Power[k] = Power[k - 1] * BitOf(x, k - 1) + (x % Power[k - 1])
          /\ y % Power[k] = Power[k - 1] * BitOf(y, k - 1) + (y % Power[k - 1])
        BY <2>1, OneMoreBit
    <2> QED BY <1>2, <2>1, <2>2
<1>3. n \in T
    <2> HIDE DEF T
    <2> QED BY <1>1, <1>2, RangeInduction
<1> QED BY <1>3

\* The lower bits of a number are those of the remainder, the upper ones those
\* of the quotient.
LEMMA BitsSplit ==
    ASSUME NEW x \in Int, NEW n \in Nat, NEW k \in Nat
    PROVE  BitOf(x, k) = IF k < n THEN BitOf(x % Power[n], k)
                         ELSE BitOf(Shift(x, n), k - n)
<1> DEFINE q == Shift(x, n)
           r == x % Power[n]
<1>0. q \in Int /\ r \in Nat /\ r < Power[n] /\ x = Power[n] * q + r
      /\ Power[n] \in Nat
    BY Shifted, PowerPositive
<1> HIDE DEF q, r
<1>1. CASE k < n
    <2>1. /\ n - k - 1 \in Nat /\ n - k \in Nat
          /\ Power[n] = Power[k] * Power[n - k]
          /\ Power[n - k] = 2 * Power[n - k - 1]
        BY <1>1, PowerOrder
    <2> DEFINE p == Power[k]
               m == Power[n - k - 1]
               s == Shift(r, k)
               t == r % p
    <2>2. p \in Nat /\ m \in Nat
        BY <2>1, PowerPositive
    <2>3. s \in Int /\ t \in Nat /\ t < p /\ r = p * s + t
        <3>1. /\ Shift(r, k) \in Int
              /\ r % Power[k] \in Nat /\ r % Power[k] < Power[k]
              /\ r = Power[k] * Shift(r, k) + (r % Power[k])
            <4>1. r \in Int
                BY <1>0
            <4> QED BY <4>1, Shifted
        <3> QED BY <3>1
    <2> DEFINE u == 2 * (m * q) + s
    <2> HIDE DEF s, t, m
    <2>4. u \in Int /\ x = p * u + t
        BY <1>0, <2>1, <2>2, <2>3 DEF m
    <2>5. Shift(x, k) = u
        <3> HIDE DEF u
        <3> QED BY <2>3, <2>4, ShiftIs
    <2>6. u % 2 = s % 2
        <3> DEFINE h == s \div 2
                   b == s % 2
        <3>1. h \in Int /\ b \in 0 .. 1 /\ s = 2 * h + b
            BY <2>3
        <3>2. m * q \in Int
            BY <1>0, <2>2
        <3> DEFINE c == m * q + h
        <3>3. c \in Int /\ u = 2 * c + b
            <4> HIDE DEF h, b
            <4> QED BY <3>1, <3>2
        <3> HIDE DEF c, b, u
        <3>4. u % 2 = b
            BY <3>1, <3>3, Division
        <3> QED BY <3>4 DEF b
    <2> QED BY <1>1, <2>5, <2>6 DEF BitOf, r, s
<1>2. CASE ~(k < n)
    <2> DEFINE j == k - n
    <2>1. j \in Nat /\ n + j = k
        BY <1>2
    <2> HIDE DEF j
    <2>2. Shift(Shift(x, n), j) = Shift(x, n + j)
        BY <2>1, ShiftTwice
    <2> QED BY <1>2, <2>1, <2>2 DEF BitOf, j, q
<1> QED BY <1>1, <1>2

\* The same of a number put together from both.
LEMMA BitsOfSum ==
    ASSUME NEW n \in Nat, NEW q \in Int, NEW r \in Nat, r < Power[n], NEW k \in Nat,
           NEW x, x = Power[n] * q + r
    PROVE  BitOf(x, k) = IF k < n THEN BitOf(r, k) ELSE BitOf(q, k - n)
<1>1. x \in Int
    BY PowerPositive
<1>2. Shift(x, n) = q /\ x % Power[n] = r
    BY ShiftIs
<1> QED BY <1>1, <1>2, BitsSplit

\* A remainder has no other bits.
LEMMA BitsOfRemainder ==
    ASSUME NEW x \in Int, NEW n \in Nat, NEW k \in Nat
    PROVE  BitOf(x % Power[n], k) = IF k < n THEN BitOf(x, k) ELSE 0
<1>1. CASE k < n
    BY <1>1, BitsSplit
<1>2. CASE ~(k < n)
    <2>1. x % Power[n] \in Nat /\ x % Power[n] < Power[n]
        BY Shifted
    <2>2. Power[n] <= Power[k] /\ Power[k] \in Nat /\ Power[k] > 0
          /\ Power[n] \in Nat
        BY <1>2, PowerOrder, PowerPositive
    <2> DEFINE r == x % Power[n]
    <2> HIDE DEF r
    <2>3. r \div Power[k] = 0
        BY <2>1, <2>2, Below DEF r
    <2> QED BY <1>2, <2>3 DEF BitOf, Shift, r
<1> QED BY <1>1, <1>2

\* A number below 2^n is told by its n bits.
LEMMA ByBits ==
    ASSUME NEW n \in Nat, NEW x \in Nat, x < Power[n], NEW y \in Nat, y < Power[n],
           \A k \in 0 .. (n - 1) : BitOf(x, k) = BitOf(y, k)
    PROVE  x = y
<1>1. Power[n] \in Nat /\ Power[n] > 0
    BY PowerPositive
<1>2. x % Power[n] = x /\ y % Power[n] = y
    BY <1>1, Below
<1> QED BY <1>2, SameBits

\* It has no bits from n up.
LEMMA NoBitsAbove ==
    ASSUME NEW n \in Nat, NEW x \in Nat, x < Power[n], NEW k \in Nat, k >= n
    PROVE  BitOf(x, k) = 0
<1>1. Power[n] \in Nat /\ Power[n] > 0
    BY PowerPositive
<1>2. x % Power[n] = x
    BY <1>1, Below
<1> QED BY <1>2, BitsOfRemainder

\* A shift to the left moves the bits up, and leaves none below.
LEMMA BitsOfProduct ==
    ASSUME NEW x \in Int, NEW n \in Nat, NEW k \in Nat
    PROVE  BitOf(x * Power[n], k) = IF k < n THEN 0 ELSE BitOf(x, k - n)
<1> DEFINE y == x * Power[n]
           zero == 0
<1>1. zero \in Nat /\ zero < Power[n] /\ y = Power[n] * x + zero /\ y \in Int
    BY PowerPositive
<1>2. BitOf(zero, k) = 0
    <2>1. 0 < Power[0]
        BY PowerType
    <2> QED BY <2>1, NoBitsAbove
<1> HIDE DEF y, zero
<1>3. Shift(y, n) = x /\ y % Power[n] = zero
    BY <1>1, ShiftIs
<1>4. BitOf(y, k) = IF k < n THEN BitOf(zero, k) ELSE BitOf(x, k - n)
    BY <1>1, <1>3, BitsSplit
<1> QED BY <1>2, <1>4 DEF y

\* A shift to the right moves them down.
LEMMA BitsOfShift ==
    ASSUME NEW x \in Int, NEW n \in Nat, NEW k \in Nat
    PROVE  BitOf(Shift(x, n), k) = BitOf(x, n + k)
BY ShiftTwice DEF BitOf

\* A power of two has one bit.
LEMMA BitsOfPower ==
    ASSUME NEW n \in Nat, NEW k \in Nat
    PROVE  BitOf(Power[n], k) = IF k = n THEN 1 ELSE 0
<1>1. Power[n] \in Nat /\ 0 < Power[n] /\ Power[n] * 1 + 0 = Power[n]
    BY PowerPositive
<1>2. BitOf(Power[n], k) = IF k < n THEN BitOf(0, k) ELSE BitOf(1, k - n)
    <2> DEFINE x == Power[n]
               q == 1
               r == 0
    <2>1. q \in Int /\ r \in Nat /\ r < Power[n] /\ x = Power[n] * q + r
        BY <1>1
    <2> HIDE DEF x, q, r
    <2>2. BitOf(x, k) = IF k < n THEN BitOf(r, k) ELSE BitOf(q, k - n)
        BY <2>1, BitsOfSum
    <2> QED BY <2>2 DEF x, q, r
<1>3. BitOf(0, k) = 0
    <2>1. 0 < Power[0]
        BY PowerType
    <2> QED BY <2>1, NoBitsAbove
<1>4. CASE k = n
    <2>1. BitOf(1, 0) = 1
        BY PowerType DEF BitOf, Shift
    <2> QED BY <1>2, <1>4, <2>1
<1>5. CASE k < n
    BY <1>2, <1>3, <1>5
<1>6. CASE k > n
    <2>1. 1 < Power[1]
        <3>1. Power[0 + 1] = 2 * Power[0]
            BY PowerType
        <3> QED BY <3>1, PowerType
    <2>2. BitOf(1, k - n) = 0
        BY <1>6, <2>1, NoBitsAbove
    <2> QED BY <1>2, <1>6, <2>2
<1> QED BY <1>4, <1>5, <1>6

\* The number before it has the bits below.
LEMMA BitsOfMask ==
    ASSUME NEW n \in Nat, NEW k \in Nat
    PROVE  BitOf(Power[n] - 1, k) = IF k < n THEN 1 ELSE 0
<1>1. Power[n] - 1 \in Nat /\ Power[n] - 1 < Power[n]
    BY PowerPositive
<1>2. CASE k < n
    <2>1. /\ n - k - 1 \in Nat /\ n - k \in Nat
          /\ Power[n] = Power[k] * Power[n - k]
          /\ Power[n - k] = 2 * Power[n - k - 1]
        BY <1>2, PowerOrder
    <2> DEFINE p == Power[k]
               m == Power[n - k - 1]
               q == 2 * (m - 1) + 1
    <2>2. p \in Nat /\ m \in Nat /\ p > 0
        BY <2>1, PowerPositive
    <2>3. p - 1 \in Nat /\ p - 1 < p /\ q \in Int
          /\ Power[n] - 1 = p * q + (p - 1)
        BY <2>1, <2>2
    <2>4. Shift(Power[n] - 1, k) = q
        <3> HIDE DEF q
        <3> QED BY <2>3, ShiftIs
    <2>5. q % 2 = 1
        <3>1. m - 1 \in Int
            BY <2>2
        <3> HIDE DEF m
        <3> QED BY <3>1, Division
    <2> QED BY <1>2, <2>4, <2>5 DEF BitOf
<1>3. CASE ~(k < n)
    BY <1>1, <1>3, NoBitsAbove
<1> QED BY <1>2, <1>3

\* The negative of a power of two has the others.
LEMMA BitsOfNegative ==
    ASSUME NEW n \in Nat, NEW k \in Nat
    PROVE  BitOf(-Power[n], k) = IF k < n THEN 0 ELSE 1
<1>1. Power[n] \in Nat /\ 0 < Power[n] /\ Power[n] * (-1) + 0 = -Power[n]
    BY PowerPositive
<1>2. BitOf(-Power[n], k) = IF k < n THEN BitOf(0, k) ELSE BitOf(-1, k - n)
    <2> DEFINE x == -Power[n]
               q == -1
               r == 0
    <2>1. q \in Int /\ r \in Nat /\ r < Power[n] /\ x = Power[n] * q + r
        BY <1>1
    <2> HIDE DEF x, q, r
    <2>2. BitOf(x, k) = IF k < n THEN BitOf(r, k) ELSE BitOf(q, k - n)
        BY <2>1, BitsOfSum
    <2> QED BY <2>2 DEF x, q, r
<1>3. BitOf(0, k) = 0
    <2>1. 0 < Power[0]
        BY PowerType
    <2> QED BY <2>1, NoBitsAbove
<1>4. CASE k < n
    BY <1>2, <1>3, <1>4
<1>5. CASE ~(k < n)
    <2> DEFINE j == k - n
    <2>1. j \in Nat
        BY <1>5
    <2>2. Power[j] - 1 \in Nat /\ Power[j] - 1 < Power[j]
          /\ Power[j] * (-1) + (Power[j] - 1) = -1
        BY <2>1, PowerPositive
    <2>3. Shift(-1, j) = -1
        <3> HIDE DEF j
        <3> DEFINE x == -1
        <3>1. x \in Int /\ x = Power[j] * x + (Power[j] - 1)
            BY <2>1, <2>2
        <3> HIDE DEF x
        <3>2. Shift(x, j) = x
            BY <2>1, <2>2, <3>1, ShiftIs
        <3> QED BY <3>2 DEF x
    <2> QED BY <1>2, <1>5, <2>3 DEF BitOf
<1> QED BY <1>4, <1>5

\* Between a power of two and the next all numbers have its bit.
LEMMA TopBit ==
    ASSUME NEW h \in Nat, NEW x \in Nat, Power[h] <= x, x < Power[h + 1]
    PROVE  BitOf(x, h) = 1
<1> DEFINE p == Power[h]
           one == 1
           r == x - p
<1>1. p \in Nat /\ Power[h + 1] = 2 * p
    BY PowerType, PowerPositive
<1>2. one \in Int /\ r \in Nat /\ r < Power[h] /\ x = Power[h] * one + r
    BY <1>1
<1> HIDE DEF one, r, p
<1>3. Shift(x, h) = one
    BY <1>2, ShiftIs
<1> QED BY <1>3 DEF BitOf, one

\* A positive number has a highest bit.
LEMMA HighestOf ==
    ASSUME NEW n \in Nat, NEW x \in Nat, x > 0, x < Power[n]
    PROVE  \E h \in 0 .. (n - 1) :
             /\ Power[h] <= x /\ x < Power[h + 1]
             /\ BitOf(x, h) = 1
             /\ \A k \in Nat : k > h => BitOf(x, k) = 0
<1> DEFINE T == {k \in Nat : x < Power[k]}
<1>1. PICK m \in T : \A k \in T : m <= k
    BY LeastNumber
<1>2. m # 0
    BY <1>1, PowerType
<1>3. m - 1 \in Nat /\ m - 1 <= n - 1 /\ (m - 1) + 1 = m
    BY <1>1, <1>2
<1>4. Power[m - 1] <= x
    BY <1>1, <1>3, PowerPositive
<1> DEFINE h == m - 1
<1>5. BitOf(x, h) = 1
    <2>1. h \in Nat /\ Power[h] <= x /\ x < Power[h + 1]
        BY <1>1, <1>3, <1>4
    <2> HIDE DEF h
    <2> QED BY <2>1, TopBit
<1>6. ASSUME NEW k \in Nat, k > h PROVE BitOf(x, k) = 0
    BY <1>1, <1>3, <1>6, NoBitsAbove
<1> QED BY <1>1, <1>3, <1>4, <1>5, <1>6

\* WithBits makes the number that has these bits.
LEMMA WithBitsHas ==
    ASSUME NEW S, NEW n \in Nat
    PROVE  /\ WithBits(S, n) \in Nat /\ WithBits(S, n) < Power[n]
           /\ \A k \in 0 .. (n - 1) :
                BitOf(WithBits(S, n), k) = IF k \in S THEN 1 ELSE 0
<1> DEFINE bit(k) == IF k \in S THEN 1 ELSE 0
           step == [x \in Nat \X Nat |-> 2 * x[1] + bit(n - (x[2] + 1))]
           IsAbove(f) == f = [k \in 0 .. n |->
                                IF k = 0 THEN 0
                                ELSE 2 * f[k - 1] + (IF n - k \in S THEN 1 ELSE 0)]
           a == CHOOSE f : IsAbove(f)
<1>1. \E f : IsAbove(f)
    <2>1. PICK f : Runs(f, Nat, step, 0, n)
        <3>1. step \in [Nat \X Nat -> Nat]
            OBVIOUS
        <3> HIDE DEF step
        <3> QED BY <3>1, RunExists
    <2>2. ASSUME NEW k \in 1 .. n
          PROVE  f[k] = 2 * f[k - 1] + (IF n - k \in S THEN 1 ELSE 0)
        <3>1. k - 1 \in 0 .. n /\ (k - 1) + 1 = k
            OBVIOUS
        <3>2. f[k] = step[<<f[k - 1], k - 1>>] /\ f[k - 1] \in Nat
            <4> HIDE DEF step
            <4> QED BY <2>1, <3>1 DEF Runs
        <3> QED BY <3>1, <3>2
    <2>3. f = [k \in 0 .. n |-> f[k]] /\ f[0] = 0
        <3> HIDE DEF step
        <3> QED BY <2>1 DEF Runs
    <2>4. IsAbove(f)
        <3>1. \A k \in 0 .. n : k # 0 => k \in 1 .. n
            OBVIOUS
        <3> QED BY <2>2, <2>3, <3>1
    <2> QED BY <2>4
<1>2. WithBits(S, n) = a[n]
    BY DEF WithBits
<1>3. IsAbove(a)
    <2> HIDE DEF IsAbove
    <2> QED BY <1>1
<1> HIDE DEF a
<1>4. a[0] = 0 /\ \A k \in 1 .. n : a[k] = 2 * a[k - 1] + bit(n - k)
    BY <1>3
<1> HIDE DEF bit, IsAbove
<1>5. \A k \in Nat : bit(k) \in {0, 1}
    BY DEF bit
<1>6. \A k \in 0 .. n : a[k] \in Nat /\ a[k] < Power[k]
    <2> DEFINE T == {k \in Nat : a[k] \in Nat /\ a[k] < Power[k]}
    <2>1. 0 \in T
        BY <1>4, PowerType
    <2>2. ASSUME NEW k \in 1 .. n, k - 1 \in T PROVE k \in T
        <3>1. k - 1 \in Nat /\ (k - 1) + 1 = k /\ n - k \in Nat
            OBVIOUS
        <3>2. Power[k] = 2 * Power[k - 1] /\ Power[k - 1] \in Nat
            BY <3>1, PowerType
        <3>3. a[k] = 2 * a[k - 1] + bit(n - k) /\ bit(n - k) \in {0, 1}
            BY <1>4, <1>5, <3>1
        <3> QED BY <2>2, <3>2, <3>3
    <2>3. \A k \in 0 .. n : k \in T
        <3> HIDE DEF T
        <3> QED BY <2>1, <2>2, RangeInduction
    <2> QED BY <2>3
<1>7. \A j \in 0 .. n : Shift(a[n], j) = a[n - j]
    <2> DEFINE T == {j \in Nat : Shift(a[n], j) = a[n - j]}
    <2>1. 0 \in T
        BY <1>6, PowerType DEF Shift
    <2>2. ASSUME NEW j \in 1 .. n, j - 1 \in T PROVE j \in T
        <3>1. j - 1 \in Nat /\ (j - 1) + 1 = j /\ n - j + 1 \in 1 .. n
              /\ (n - j + 1) - 1 = n - j /\ n - (n - j + 1) = j - 1
              /\ n - (j - 1) = n - j + 1 /\ n - j \in 0 .. n /\ n - j \in Nat
            OBVIOUS
        <3>2. a[n - j + 1] = 2 * a[n - j] + bit(j - 1)
            BY <1>4, <3>1
        <3>3. a[n - j] \in Nat /\ bit(j - 1) \in {0, 1} /\ a[n] \in Nat
            BY <1>5, <1>6, <3>1
        <3>4. Shift(a[n], j - 1) = a[n - j + 1]
            BY <2>2, <3>1
        <3>5. Shift(a[n], j) = Shift(a[n - j + 1], 1)
            <4>1. Shift(Shift(a[n], j - 1), 1) = Shift(a[n], (j - 1) + 1)
                <5>1. a[n] \in Int /\ 1 \in Nat
                    BY <3>3
                <5> HIDE DEF T
                <5> QED BY <3>1, <5>1, ShiftTwice
            <4> QED BY <3>1, <3>4, <4>1
        <3>6. Power[1] = 2
            <4>1. Power[0 + 1] = 2 * Power[0]
                BY PowerType
            <4> QED BY <4>1, PowerType
        <3>7. Shift(a[n - j + 1], 1) = a[n - j]
            BY <3>2, <3>3, <3>6, Division DEF Shift
        <3> QED BY <3>5, <3>7
    <2>3. \A j \in 0 .. n : j \in T
        <3> HIDE DEF T
        <3> QED BY <2>1, <2>2, RangeInduction
    <2> QED BY <2>3
<1>8. ASSUME NEW k \in 0 .. (n - 1) PROVE BitOf(a[n], k) = bit(k)
    <2>1. k \in 0 .. n /\ n - k \in 1 .. n /\ n - (n - k) = k /\ k \in Nat
          /\ (n - k) - 1 \in 0 .. n
        OBVIOUS
    <2>2. Shift(a[n], k) = 2 * a[(n - k) - 1] + bit(k)
        BY <1>4, <1>7, <2>1
    <2>3. a[(n - k) - 1] \in Nat /\ bit(k) \in {0, 1}
        BY <1>5, <1>6, <2>1
    <2>4. (2 * a[(n - k) - 1] + bit(k)) % 2 = bit(k)
        BY <2>3, Division
    <2> QED BY <2>2, <2>4 DEF BitOf
<1>9. a[n] \in Nat /\ a[n] < Power[n]
    BY <1>6
<1> QED BY <1>2, <1>8, <1>9 DEF bit
=============================================================================
