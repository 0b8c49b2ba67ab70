------------------------------- MODULE Floats -------------------------------
(***************************************************************************)
(* The arithmetic of f32 that a send goes through: the positive numbers    *)
(* with Precision significant bits (24 for an f32), and rounding to the    *)
(* nearest of them, ties to the even one.  A number is a pair              *)
(* <<numerator, denominator>>; every float has a power of two below.       *)
(***************************************************************************)
EXTENDS Integers

CONSTANTS
    Precision,      \* the significant bits
    Exponents       \* the exponents that occur

ASSUME FloatConstants == Precision \in Nat \ {0} /\ Exponents \subseteq Int

Pow2[n \in Nat] == IF n = 0 THEN 1 ELSE 2 * Pow2[n - 1]

\* 2^e as a quotient: Up(e) / Down(e).
Up(e) == Pow2[IF e > 0 THEN e ELSE 0]
Down(e) == Pow2[IF e < 0 THEN -e ELSE 0]

\* n / d has Precision bits before the point once e of them are shifted out.
HasExponent(n, d, e) ==
    /\ Pow2[Precision - 1] * (d * Up(e)) <= n * Down(e)
    /\ n * Down(e) < Pow2[Precision] * (d * Up(e))

\* The number neither overflows nor underflows.
InRange(n, d) == n = 0 \/ \E e \in Exponents : HasExponent(n, d, e)

Nearest(n, d) ==
    LET down == n \div d
        twice == 2 * (n % d)
    IN  IF twice < d \/ (twice = d /\ down % 2 = 0) THEN down ELSE down + 1

Round(n, d) ==
    IF n = 0 THEN <<0, 1>>
    ELSE LET e == CHOOSE x \in Exponents : HasExponent(n, d, x)
         IN  <<Nearest(n * Down(e), d * Up(e)) * Up(e), Down(e)>>

Times(x, whole) == Round(x[1] * whole, x[2])

\* `as i64`, `as u64`: the fraction is dropped.
Truncate(x) == x[1] \div x[2]
=============================================================================
