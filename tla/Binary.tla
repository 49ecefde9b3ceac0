------------------------------- MODULE Binary -------------------------------
(***************************************************************************)
(* Binary numbers: powers of two, shifts, and a word put together from its *)
(* bits.  Integers are in two's complement, with as many bits as it takes, *)
(* so that Shift is the arithmetic shift x >> k.                           *)
(***************************************************************************)
EXTENDS Integers

\* 1 << k.
Power[k \in Nat] == IF k = 0 THEN 1 ELSE 2 * Power[k - 1]

Shift(x, k) == x \div Power[k]
BitOf(x, k) == Shift(x, k) % 2

\* The number below 2^n whose bits set are those of S.
WithBits(S, n) ==
    LET above[k \in 0 .. n] ==   \* the bits from n - k up
            IF k = 0 THEN 0
            ELSE 2 * above[k - 1] + (IF n - k \in S THEN 1 ELSE 0)
    IN  above[n]

=============================================================================
