----------------------------- MODULE FloatsProofs -----------------------------
(* How far rounding goes astray, for every precision and every number, and   *)
(* what a proof about recursive functions needs: induction and recursion     *)
(* over the naturals, stated for sets and functions.                         *)
EXTENDS Floats, FiniteSetTheorems, TLAPS

(***************************************************************************)
(* Induction.                                                              *)
(***************************************************************************)

\* A set that contains zero and every successor contains every natural number:
\* else what it misses up to n would be mapped by the predecessor one to one
\* into itself without n, against the pigeonhole principle.
LEMMA SetInduction ==
    ASSUME NEW S, 0 \in S, \A n \in Nat : n \in S => n + 1 \in S
    PROVE  Nat \subseteq S
<1> SUFFICES ASSUME NEW n \in Nat, n \notin S PROVE FALSE
  OBVIOUS
<1> DEFINE Missed == {m \in 0..n : m \notin S}
           Before == [m \in Missed |-> m - 1]
<1>1. IsFiniteSet(Missed)
  <2>1. IsFiniteSet(0..n)
    BY FS_Interval
  <2> QED
    BY <2>1, FS_Subset
<1>2. \A m \in Missed : m - 1 \in Missed \ {n}
  <2> TAKE m \in Missed
  <2>1. m # 0
    OBVIOUS
  <2>2. m - 1 \in Nat /\ (m - 1) + 1 = m
    BY <2>1
  <2>3. m - 1 \notin S
    BY <2>2
  <2> QED
    BY <2>2, <2>3
<1>3. n \in Missed
  OBVIOUS
<1>4. /\ Before \in [Missed -> Missed \ {n}]
      /\ \A x, y \in Missed : Before[x] = Before[y] => x = y
  BY <1>2
<1> HIDE DEF Missed, Before
<1>5. IsFiniteSet(Missed \ {n}) /\ Cardinality(Missed \ {n}) = Cardinality(Missed) - 1
  BY <1>1, <1>3, FS_RemoveElement
<1>6. Cardinality(Missed \ {n}) < Cardinality(Missed)
  BY <1>1, <1>5, FS_CardinalityType
<1> QED
  BY <1>1, <1>4, <1>5, <1>6, FS_PigeonHole

\* f starts with base and goes on by next.
Follows(f, D, base, next) ==
    /\ f \in [Nat -> D] /\ f[0] = base
    /\ \A n \in Nat : f[n + 1] = next[<<n, f[n]>>]

\* A value and a step define a function on the naturals.
LEMMA Recursion ==
    ASSUME NEW D, NEW base \in D, NEW next \in [Nat \X D -> D]
    PROVE  \E f : Follows(f, D, base, next)
<1> DEFINE Begins(n, g) ==
             /\ g \in [0..n -> D] /\ g[0] = base
             /\ \A m \in 0..(n - 1) : g[m + 1] = next[<<m, g[m]>>]
           Reached == {n \in Nat : \E g : Begins(n, g)}
<1>1. Nat \subseteq Reached
  <2>1. 0 \in Reached
    <3>1. Begins(0, [m \in 0..0 |-> base])
      OBVIOUS
    <3> QED
      BY <3>1
  <2>2. ASSUME NEW n \in Nat, n \in Reached PROVE n + 1 \in Reached
    <3>1. PICK g : Begins(n, g)
      BY <2>2
    <3> DEFINE h == [m \in 0..(n + 1) |-> IF m = n + 1 THEN next[<<n, g[n]>>] ELSE g[m]]
    <3>2. g[n] \in D
      BY <3>1
    <3>3. h \in [0..(n + 1) -> D] /\ h[0] = base
      BY <3>1, <3>2
    <3>4. (\A m \in 0..n : h[m] = g[m]) /\ h[n + 1] = next[<<n, g[n]>>]
      OBVIOUS
    <3> HIDE DEF h
    <3>5. ASSUME NEW m \in 0..n PROVE h[m + 1] = next[<<m, h[m]>>]
      <4>1. CASE m = n
        BY <3>4, <4>1
      <4>2. CASE m \in 0..(n - 1)
        <5>1. m + 1 \in 0..n
          BY <4>2
        <5> QED
          BY <3>1, <3>4, <4>2, <5>1
      <4> QED
        BY <4>1, <4>2
    <3>6. (n + 1) - 1 = n /\ n + 1 \in Nat
      OBVIOUS
    <3>7. Begins(n + 1, h)
      BY <3>3, <3>5, <3>6
    <3> HIDE DEF Begins
    <3> QED
      BY <3>6, <3>7
  <2> HIDE DEF Reached
  <2> QED
    BY <2>1, <2>2, SetInduction
<1>2. ASSUME NEW n \in Nat, NEW k \in Nat, NEW g, NEW h, Begins(n, g), Begins(k, h)
      PROVE  \A m \in Nat : m <= n /\ m <= k => g[m] = h[m]
  <2> DEFINE Agree == {m \in Nat : m <= n /\ m <= k => g[m] = h[m]}
  <2>1. 0 \in Agree
    BY <1>2
  <2>2. ASSUME NEW m \in Nat, m \in Agree PROVE m + 1 \in Agree
    <3> SUFFICES ASSUME m + 1 <= n, m + 1 <= k PROVE g[m + 1] = h[m + 1]
      OBVIOUS
    <3>1. m \in 0..(n - 1) /\ m \in 0..(k - 1)
      OBVIOUS
    <3>2. g[m] = h[m]
      BY <2>2, <3>1
    <3> QED
      BY <1>2, <3>1, <3>2
  <2>3. Nat \subseteq Agree
    <3> HIDE DEF Agree
    <3> QED
      BY <2>1, <2>2, SetInduction
  <2> QED
    BY <2>3
<1> DEFINE Chosen(n) == CHOOSE g : Begins(n, g)
<1>3. \A n \in Nat : Begins(n, Chosen(n))
  BY <1>1
<1> DEFINE f == [n \in Nat |-> Chosen(n)[n]]
<1> HIDE DEF Chosen
<1>4. f \in [Nat -> D] /\ f[0] = base
  BY <1>3
<1>5. ASSUME NEW n \in Nat PROVE f[n + 1] = next[<<n, f[n]>>]
  <2>1. Chosen(n + 1)[n + 1] = next[<<n, Chosen(n + 1)[n]>>]
    BY <1>3
  <2>2. Chosen(n + 1)[n] = Chosen(n)[n]
    BY <1>2, <1>3
  <2> QED
    BY <2>1, <2>2
<1> HIDE DEF f
<1>6. Follows(f, D, base, next)
  BY <1>4, <1>5 DEF Follows
<1> QED
  BY <1>6

(***************************************************************************)
(* Powers of two.                                                          *)
(***************************************************************************)

LEMMA Pow2Facts ==
    /\ Pow2[0] = 1
    /\ \A n \in Nat : Pow2[n + 1] = 2 * Pow2[n]
    /\ \A n \in Nat : Pow2[n] \in Nat \ {0}
<1> DEFINE Pos == Nat \ {0}
           next == [p \in Nat \X Pos |-> 2 * p[2]]
<1>1. PICK f : Follows(f, Pos, 1, next)
  <2>1. next \in [Nat \X Pos -> Pos] /\ 1 \in Pos
    OBVIOUS
  <2> HIDE DEF next, Pos
  <2> QED
    BY <2>1, Recursion
<1>2. /\ f \in [Nat -> Pos] /\ f[0] = 1
      /\ \A n \in Nat : f[n + 1] = 2 * f[n]
  BY <1>1 DEF Follows
<1>3. f = [n \in Nat |-> IF n = 0 THEN 1 ELSE 2 * f[n - 1]]
  <2>1. ASSUME NEW n \in Nat PROVE f[n] = IF n = 0 THEN 1 ELSE 2 * f[n - 1]
    <3>1. CASE n = 0
      BY <1>2, <3>1
    <3>2. CASE n # 0
      <4>1. n - 1 \in Nat /\ (n - 1) + 1 = n
        BY <3>2
      <4> QED
        BY <1>2, <3>2, <4>1
    <3> QED
      BY <3>1, <3>2
  <2> QED
    BY <1>2, <2>1
<1>4. Pow2 = [n \in Nat |-> IF n = 0 THEN 1 ELSE 2 * Pow2[n - 1]]
  BY <1>3 DEF Pow2
<1>5. Pow2[0] = 1
  BY <1>4
<1>6. \A n \in Nat : Pow2[n + 1] = 2 * Pow2[n]
  <2> TAKE n \in Nat
  <2>1. n + 1 \in Nat /\ n + 1 # 0 /\ (n + 1) - 1 = n
    OBVIOUS
  <2> QED
    BY <1>4, <2>1
<1> DEFINE Good == {n \in Nat : Pow2[n] \in Pos}
<1>7. Nat \subseteq Good
  <2>1. 0 \in Good /\ \A n \in Nat : n \in Good => n + 1 \in Good
    BY <1>5, <1>6
  <2> HIDE DEF Good
  <2> QED
    BY <2>1, SetInduction
<1> QED
  BY <1>5, <1>6, <1>7

LEMMA Pow2Plus == \A i, j \in Nat : Pow2[i + j] = Pow2[i] * Pow2[j]
<1> SUFFICES ASSUME NEW i \in Nat PROVE \A j \in Nat : Pow2[i + j] = Pow2[i] * Pow2[j]
  OBVIOUS
<1> DEFINE Good == {j \in Nat : Pow2[i + j] = Pow2[i] * Pow2[j]}
<1>1. 0 \in Good
  BY Pow2Facts
<1>2. ASSUME NEW j \in Nat, j \in Good PROVE j + 1 \in Good
  <2>1. i + j \in Nat /\ i + (j + 1) = (i + j) + 1
    OBVIOUS
  <2>2. Pow2[i + (j + 1)] = 2 * Pow2[i + j]
    BY <2>1, Pow2Facts
  <2>3. Pow2[i + j] = Pow2[i] * Pow2[j] /\ Pow2[j + 1] = 2 * Pow2[j]
    BY <1>2, Pow2Facts
  <2>4. Pow2[i] \in Nat /\ Pow2[j] \in Nat
    BY Pow2Facts
  <2>5. 2 * (Pow2[i] * Pow2[j]) = Pow2[i] * (2 * Pow2[j])
    BY <2>4
  <2> QED
    BY <2>2, <2>3, <2>5
<1>3. Nat \subseteq Good
  <2> HIDE DEF Good
  <2> QED
    BY <1>1, <1>2, SetInduction
<1> QED
  BY <1>3

\* A smaller exponent is a divisor, and a smaller power.
LEMMA Pow2Order ==
    ASSUME NEW i \in Nat, NEW j \in Nat
    PROVE  /\ i <= j => Pow2[j] = Pow2[i] * Pow2[j - i] /\ Pow2[i] <= Pow2[j]
           /\ Pow2[i] < 2 * Pow2[j] => i <= j
<1>1. ASSUME NEW k \in Nat, NEW l \in Nat, k <= l
      PROVE  Pow2[l] = Pow2[k] * Pow2[l - k] /\ Pow2[k] <= Pow2[l]
  <2>1. l - k \in Nat /\ k + (l - k) = l
    BY <1>1
  <2>2. Pow2[l] = Pow2[k] * Pow2[l - k]
    BY <2>1, Pow2Plus
  <2>3. Pow2[k] \in Nat /\ Pow2[l - k] \in Nat \ {0}
    BY <2>1, Pow2Facts
  <2>4. \A a \in Nat, b \in Nat \ {0} : a <= a * b
    OBVIOUS
  <2> QED
    BY <2>2, <2>3, <2>4
<1>2. ASSUME j < i PROVE 2 * Pow2[j] <= Pow2[i]
  <2>1. j + 1 <= i /\ j + 1 \in Nat
    BY <1>2
  <2> QED
    BY <1>1, <2>1, Pow2Facts
<1>3. Pow2[i] \in Nat /\ Pow2[j] \in Nat
  BY Pow2Facts
<1> QED
  BY <1>1, <1>2, <1>3

(***************************************************************************)
(* Division.                                                               *)
(***************************************************************************)

LEMMA Division ==
    ASSUME NEW a \in Nat, NEW d \in Nat \ {0}
    PROVE  /\ a \div d \in Nat /\ a % d \in 0..(d - 1)
           /\ a = (a \div d) * d + (a % d)
<1>1. a \div d \in Nat /\ a % d \in 0..(d - 1)
  OBVIOUS
<1>2. a = d * (a \div d) + (a % d)
  OBVIOUS
<1>3. \A q \in Nat : d * q = q * d
  OBVIOUS
<1> QED
  BY <1>1, <1>2, <1>3

LEMMA Ordered ==
    ASSUME NEW a \in Int, NEW b \in Int, NEW c \in Nat
    PROVE  /\ a <= b => a * c <= b * c
           /\ c # 0 /\ a * c <= b * c => a <= b
           /\ c # 0 /\ a * c < b * c => a < b
  OBVIOUS

\* The quotient is the greatest number of times the divisor fits.
LEMMA Quotient ==
    ASSUME NEW a \in Nat, NEW d \in Nat \ {0}, NEW k \in Int
    PROVE  /\ k * d <= a <=> k <= a \div d
           /\ k * d <= a /\ a < k * d + d => a \div d = k
<1>1. /\ a \div d \in Nat /\ a % d \in 0..(d - 1)
      /\ a = (a \div d) * d + (a % d)
  BY Division
<1> DEFINE q == a \div d
<1>2. (k + 1) * d = k * d + d /\ (q + 1) * d = q * d + d
  BY <1>1
<1>3. k <= q => k * d <= q * d
  BY <1>1, Ordered
<1>4. q + 1 <= k => (q + 1) * d <= k * d
  BY <1>1, Ordered
<1>5. k + 1 <= q => (k + 1) * d <= q * d
  BY <1>1, Ordered
<1> HIDE DEF q
<1>6. q \in Nat /\ a % d \in 0..(d - 1) /\ a = q * d + (a % d)
  BY <1>1 DEF q
<1>7. k * d \in Int /\ q * d \in Int
  BY <1>6
<1> QED
  BY <1>2, <1>3, <1>4, <1>5, <1>6, <1>7 DEF q

(***************************************************************************)
(* Rounding to the nearest.                                                *)
(***************************************************************************)

LEMMA NearestFacts ==
    ASSUME NEW n \in Nat, NEW d \in Nat \ {0}
    PROVE  LET r == Nearest(n, d)
           IN  /\ r \in Nat
               /\ 2 * (r * d - n) <= d /\ 2 * (n - r * d) <= d
               /\ \A k \in Nat : (k * d <= n => k <= r) /\ (n <= k * d => r <= k)
<1> DEFINE q == n \div d
           t == n % d
           r == Nearest(n, d)
<1>1. q \in Nat /\ t \in 0..(d - 1) /\ n = q * d + t
  BY Division
<1>2. r = IF 2 * t < d \/ (2 * t = d /\ q % 2 = 0) THEN q ELSE q + 1
  BY DEF Nearest
<1> HIDE DEF q, t, r
<1>3. (q + 1) * d = q * d + d /\ q * d \in Nat
  BY <1>1
<1>4. r \in Nat /\ 2 * (r * d - n) <= d /\ 2 * (n - r * d) <= d
  <2>1. CASE r = q /\ 2 * t <= d
    BY <1>1, <1>3, <2>1
  <2>2. CASE r = q + 1 /\ d <= 2 * t
    BY <1>1, <1>3, <2>2
  <2> QED
    BY <1>1, <1>2, <2>1, <2>2
<1>5. ASSUME NEW k \in Nat PROVE (k * d <= n => k <= r) /\ (n <= k * d => r <= k)
  <2>1. k * d <= n => k <= q
    BY Quotient DEF q
  <2>2. q <= r
    BY <1>1, <1>2
  <2>3. ASSUME n <= k * d PROVE r <= k
    <3>1. q * d <= k * d
      BY <1>1, <1>3, <2>3
    <3>2. q <= k
      BY <1>1, <3>1, Ordered
    <3>3. q = k => t = 0
      BY <1>1, <1>3, <2>3
    <3> QED
      BY <1>1, <1>2, <3>2, <3>3
  <2> QED
    BY <1>1, <1>4, <2>1, <2>2, <2>3
<1> QED
  BY <1>4, <1>5 DEF r

\* The error relative to the number, when the quotient is at least H.
LEMMA NearestError ==
    ASSUME NEW n \in Nat, NEW d \in Nat \ {0}, NEW H \in Nat, H * d <= n
    PROVE  LET r == Nearest(n, d)
           IN  /\ H <= r
               /\ (r * d - n) * (2 * H + 1) <= n
               /\ (n - r * d) * (2 * H + 1) <= n
<1> DEFINE r == Nearest(n, d)
<1>1. r \in Nat /\ 2 * (r * d - n) <= d /\ 2 * (n - r * d) <= d /\ H <= r
  BY NearestFacts
<1>2. H = r => n >= r * d
  OBVIOUS
<1>3. H + 1 <= r => H * d + d <= r * d
  <2>1. H + 1 <= r => (H + 1) * d <= r * d
    BY <1>1, Ordered
  <2> QED
    BY <2>1
<1>4. H * d <= r * d
  BY <1>1, Ordered
<1> HIDE DEF r
<1> DEFINE up == r * d - n
<1>5. up \in Int /\ H * d \in Nat /\ r * d \in Nat /\ r * d = n + up
  BY <1>1
<1> HIDE DEF up
<1>6. 2 * up <= d /\ 2 * (-up) <= d
  BY <1>1, <1>5
<1>7. (2 * up) * H <= d * H /\ (2 * (-up)) * H <= d * H
  BY <1>5, <1>6, Ordered
<1>8. /\ up * (2 * H + 1) = (2 * up) * H + up
      /\ (-up) * (2 * H + 1) = (2 * (-up)) * H - up
      /\ d * H = H * d
      /\ (2 * up) * H \in Int /\ (2 * (-up)) * H \in Int
  BY <1>5
<1>9. up * (2 * H + 1) <= n
  <2>1. CASE H = r
    <3>1. up <= 0
      BY <1>2, <1>5, <2>1
    <3>2. up * (2 * H + 1) <= 0 * (2 * H + 1)
      BY <1>5, <3>1, Ordered
    <3>3. 0 * (2 * H + 1) = 0
      OBVIOUS
    <3>4. up * (2 * H + 1) \in Int
      BY <1>5
    <3> QED
      BY <3>2, <3>3, <3>4
  <2>2. CASE H + 1 <= r
    BY <1>3, <1>5, <1>6, <1>7, <1>8, <2>2
  <2> QED
    BY <1>1, <2>1, <2>2
<1>10. (-up) * (2 * H + 1) <= n
  BY <1>4, <1>5, <1>7, <1>8
<1>11. r * d - n = up /\ n - r * d = -up
  BY <1>5
<1> QED
  BY <1>1, <1>9, <1>10, <1>11 DEF r

(***************************************************************************)
(* Rounding to Precision bits.                                             *)
(***************************************************************************)

Half == Pow2[Precision - 1]
Full == Pow2[Precision]

LEMMA HalfFull == Half \in Nat \ {0} /\ Full = 2 * Half
<1>1. Precision - 1 \in Nat /\ (Precision - 1) + 1 = Precision
  BY FloatConstants
<1> QED
  BY <1>1, Pow2Facts DEF Half, Full

LEMMA Scales ==
    ASSUME NEW e \in Int
    PROVE  /\ Up(e) \in Nat \ {0} /\ Down(e) \in Nat \ {0}
           /\ e > 0 => Down(e) = 1 /\ Up(e) = Pow2[e] /\ 2 <= Up(e)
           /\ e <= 0 => Up(e) = 1
<1>1. CASE e > 0
  <2>1. e - 1 \in Nat /\ (e - 1) + 1 = e /\ e \in Nat
    BY <1>1
  <2>2. Pow2[e - 1] \in Nat \ {0} /\ Pow2[e] = 2 * Pow2[e - 1]
    BY <2>1, Pow2Facts
  <2> QED
    BY <1>1, <2>2, Pow2Facts DEF Up, Down
<1>2. CASE e <= 0
  <2>1. e < 0 => -e \in Nat
    OBVIOUS
  <2> QED
    BY <1>2, <2>1, Pow2Facts DEF Up, Down
<1> QED
  BY <1>1, <1>2

LEMMA RoundForm ==
    ASSUME NEW n \in Nat \ {0}, NEW d \in Nat \ {0}, InRange(n, d)
    PROVE  \E e \in Int :
             /\ Half * (d * Up(e)) <= n * Down(e) /\ n * Down(e) < Full * (d * Up(e))
             /\ Round(n, d) = <<Nearest(n * Down(e), d * Up(e)) * Up(e), Down(e)>>
<1> DEFINE e == CHOOSE x \in Exponents : HasExponent(n, d, x)
<1>1. e \in Exponents /\ HasExponent(n, d, e)
  BY DEF InRange
<1>2. Round(n, d) = <<Nearest(n * Down(e), d * Up(e)) * Up(e), Down(e)>>
  BY DEF Round
<1> HIDE DEF e
<1>3. e \in Int
  BY <1>1, FloatConstants
<1> QED
  BY <1>1, <1>2, <1>3 DEF HasExponent, Half, Full

\* What rounding returns, and that it is off by less than one in 2^Precision.
THEOREM RoundError ==
    ASSUME NEW n \in Nat, NEW d \in Nat \ {0}, InRange(n, d)
    PROVE  LET x == Round(n, d)
           IN  /\ x = <<x[1], x[2]>> /\ x[1] \in Nat /\ x[2] \in Nat \ {0}
               /\ (x[1] * d - n * x[2]) * (Full + 1) <= n * x[2]
               /\ (n * x[2] - x[1] * d) * (Full + 1) <= n * x[2]
<1>1. CASE n = 0
  <2>1. Round(n, d) = <<0, 1>>
    BY <1>1 DEF Round
  <2>2. 0 * d = 0 /\ n * 1 = 0 /\ (0 - 0) * (Full + 1) = 0
    BY <1>1, HalfFull
  <2> QED
    BY <1>1, <2>1, <2>2
<1>2. CASE n # 0
  <2>1. PICK e \in Int :
          /\ Half * (d * Up(e)) <= n * Down(e)
          /\ Round(n, d) = <<Nearest(n * Down(e), d * Up(e)) * Up(e), Down(e)>>
    BY <1>2, RoundForm
  <2> DEFINE U == Up(e)
             D == Down(e)
             r == Nearest(n * D, d * U)
  <2>2. U \in Nat \ {0} /\ D \in Nat \ {0}
    BY Scales
  <2>3. Round(n, d) = <<r * U, D>> /\ Half * (d * U) <= n * D
    BY <2>1
  <2> HIDE DEF U, D
  <2>4. n * D \in Nat /\ d * U \in Nat \ {0}
    BY <2>2
  <2>5. r \in Nat
    BY <2>4, NearestFacts
  <2>6. /\ (r * (d * U) - n * D) * (2 * Half + 1) <= n * D
        /\ (n * D - r * (d * U)) * (2 * Half + 1) <= n * D
    BY <2>3, <2>4, HalfFull, NearestError
  <2> HIDE DEF r
  <2>7. r * (d * U) = (r * U) * d /\ r * U \in Nat
    BY <2>2, <2>5
  <2> QED
    BY <2>2, <2>3, <2>6, <2>7, HalfFull
<1> QED
  BY <1>1, <1>2

\* A whole number that fits the significand bounds what is rounded from below.
LEMMA RoundFloor ==
    ASSUME NEW n \in Nat, NEW d \in Nat \ {0}, InRange(n, d),
           NEW m \in Nat, m <= Full, m * d <= n
    PROVE  LET x == Round(n, d) IN m * x[2] <= x[1]
<1>1. CASE n = 0
  <2>1. m = 0
    <3>1. m * d <= 0 * d
      BY <1>1
    <3> QED
      BY <3>1, Ordered
  <2> QED
    BY <1>1, <2>1 DEF Round
<1>2. CASE n # 0
  <2>1. PICK e \in Int :
          /\ Half * (d * Up(e)) <= n * Down(e)
          /\ Round(n, d) = <<Nearest(n * Down(e), d * Up(e)) * Up(e), Down(e)>>
    BY <1>2, RoundForm
  <2> DEFINE U == Up(e)
             D == Down(e)
             r == Nearest(n * D, d * U)
  <2>2. U \in Nat \ {0} /\ D \in Nat \ {0}
    BY Scales
  <2>3. Round(n, d) = <<r * U, D>> /\ Half * (d * U) <= n * D
    BY <2>1
  <2>4. (e > 0 => D = 1 /\ 2 <= U) /\ (e <= 0 => U = 1)
    BY Scales
  <2> HIDE DEF U, D
  <2>5. n * D \in Nat /\ d * U \in Nat \ {0}
    BY <2>2
  <2>6. r \in Nat /\ \A k \in Nat : k * (d * U) <= n * D => k <= r
    BY <2>5, NearestFacts
  <2> HIDE DEF r
  <2>7. CASE e > 0
    <3>1. Half <= r
      BY <2>3, <2>6, HalfFull
    <3>2. Half * U <= r * U
      BY <2>2, <2>6, <3>1, HalfFull, Ordered
    <3>3. 2 * Half <= U * Half
      BY <2>2, <2>4, <2>7, HalfFull, Ordered
    <3>4. U * Half = Half * U
      BY <2>2, HalfFull
    <3>5. m <= r * U
      BY <2>2, <2>6, <3>2, <3>3, <3>4, HalfFull
    <3> QED
      BY <2>3, <2>4, <2>7, <3>5
  <2>8. CASE e <= 0
    <3>1. (m * d) * D <= n * D
      BY <2>2, Ordered
    <3>2. (m * D) * (d * U) = (m * d) * D /\ m * D \in Nat /\ r * U = r
      BY <2>2, <2>4, <2>6, <2>8
    <3>3. m * D <= r
      BY <2>6, <3>1, <3>2
    <3> QED
      BY <2>3, <3>2, <3>3
  <2> QED
    BY <2>7, <2>8
<1> QED
  BY <1>1, <1>2

\* Two errors of one part in Q + 1 add up to two parts in Q.
LEMMA TwoErrors ==
    ASSUME NEW Q \in Nat \ {0}, NEW A \in Nat, NEW d1 \in Int, NEW d2 \in Int,
           d1 * (Q + 1) <= A, (-d1) * (Q + 1) <= A,
           d2 * (Q + 1) <= A + d1, (-d2) * (Q + 1) <= A + d1
    PROVE  (d1 + d2) * Q <= 2 * A /\ (-(d1 + d2)) * Q <= 2 * A
<1> DEFINE e1 == d1 * Q
           e2 == d2 * Q
<1>1. /\ e1 \in Int /\ e2 \in Int
      /\ d1 * (Q + 1) = e1 + d1 /\ (-d1) * (Q + 1) = -(e1 + d1)
      /\ d2 * (Q + 1) = e2 + d2 /\ (-d2) * (Q + 1) = -(e2 + d2)
      /\ (d1 + d2) * Q = e1 + e2 /\ (-(d1 + d2)) * Q = -(e1 + e2)
  OBVIOUS
<1>2. (0 <= d1 => d1 <= e1) /\ (d1 <= 0 => e1 <= d1)
  <2>1. 1 <= Q
    OBVIOUS
  <2>2. 0 <= d1 => 1 * d1 <= Q * d1
    BY <2>1, Ordered
  <2>3. d1 <= 0 => 1 * (-d1) <= Q * (-d1)
    BY <2>1, Ordered
  <2>4. Q * d1 = e1 /\ Q * (-d1) = -e1
    OBVIOUS
  <2> HIDE DEF e1, e2
  <2> QED
    BY <1>1, <2>2, <2>3, <2>4
<1>3. (0 <= d2 => d2 <= e2) /\ (d2 <= 0 => e2 <= d2)
  <2>1. 1 <= Q
    OBVIOUS
  <2>2. 0 <= d2 => 1 * d2 <= Q * d2
    BY <2>1, Ordered
  <2>3. d2 <= 0 => 1 * (-d2) <= Q * (-d2)
    BY <2>1, Ordered
  <2>4. Q * d2 = e2 /\ Q * (-d2) = -e2
    OBVIOUS
  <2> HIDE DEF e1, e2
  <2> QED
    BY <1>1, <2>2, <2>3, <2>4
<1> HIDE DEF e1, e2
<1>4. /\ e1 + d1 <= A /\ -(e1 + d1) <= A
      /\ e2 + d2 <= A + d1 /\ -(e2 + d2) <= A + d1
  BY <1>1
<1>5. e1 + e2 <= 2 * A
  BY <1>1, <1>2, <1>3, <1>4
<1>6. -(e1 + e2) <= 2 * A
  BY <1>1, <1>2, <1>3, <1>4
<1> QED
  BY <1>1, <1>5, <1>6

\* A whole number a, divided by B, rounded, multiplied by B, rounded again and
\* truncated: what comes back.
THEOREM RoundTrip ==
    ASSUME NEW a \in Nat, NEW B \in Nat \ {0}, InRange(a, B),
           InRange(Round(a, B)[1] * B, Round(a, B)[2])
    PROVE  LET y == Truncate(Times(Round(a, B), B))
           IN  /\ y \in Nat
               /\ a <= Full => y <= a + 1 /\ a <= y + 1
               /\ (y - a) * Full <= 2 * a + Full /\ (a - y) * Full <= 2 * a + Full
<1> DEFINE p == Round(a, B)[1]
           q == Round(a, B)[2]
           s == Round(p * B, q)[1]
           t == Round(p * B, q)[2]
           y == s \div t
<1>1. /\ p \in Nat /\ q \in Nat \ {0}
      /\ (p * B - a * q) * (Full + 1) <= a * q
      /\ (a * q - p * B) * (Full + 1) <= a * q
  BY RoundError
<1>2. Truncate(Times(Round(a, B), B)) = y
  BY DEF Truncate, Times
<1>3. InRange(p * B, q)
  OBVIOUS
<1>4. \A m \in Nat : m <= Full /\ m * q <= p * B => m * t <= s
  <2>1. p * B \in Nat
    BY <1>1
  <2> HIDE DEF p, q
  <2> QED
    BY <1>1, <1>3, <2>1, RoundFloor
<1> HIDE DEF p, q
<1>5. p * B \in Nat
  BY <1>1
<1>6. /\ s \in Nat /\ t \in Nat \ {0}
      /\ (s * q - (p * B) * t) * (Full + 1) <= (p * B) * t
      /\ ((p * B) * t - s * q) * (Full + 1) <= (p * B) * t
  BY <1>1, <1>3, <1>5, RoundError
<1> HIDE DEF s, t
<1>7. y \in Nat /\ y * t <= s /\ s < y * t + t
  <2>1. y \in Nat /\ s % t \in 0..(t - 1) /\ s = y * t + (s % t)
    BY <1>6, Division
  <2> HIDE DEF y
  <2> QED
    BY <1>6, <2>1
<1>8. \A m \in Int : m * t <= s => m <= y
  BY <1>6, Quotient
<1> HIDE DEF y
<1>9. Full \in Nat \ {0}
  BY HalfFull
<1> DEFINE z == p * B
<1>10. z \in Nat
  BY <1>5
<1>11. /\ (z - a * q) * (Full + 1) <= a * q /\ (a * q - z) * (Full + 1) <= a * q
       /\ (s * q - z * t) * (Full + 1) <= z * t /\ (z * t - s * q) * (Full + 1) <= z * t
       /\ \A m \in Nat : m <= Full /\ m * q <= z => m * t <= s
  BY <1>1, <1>4, <1>6
<1> HIDE DEF z
\* Near: the quotient is within one of a, and no float but a whole one is nearer.
<1>12. ASSUME a <= Full PROVE y <= a + 1 /\ a <= y + 1
  <2>1. a * q <= Full * q /\ Full * q < q * (Full + 1) /\ a * q \in Nat /\ q * (Full + 1) \in Nat
    BY <1>1, <1>9, <1>12, Ordered
  <2>2. a * q - z < q /\ z - a * q < q
    BY <1>1, <1>9, <1>10, <1>11, <2>1, Ordered
  <2>3. a <= y + 1
    <3>1. CASE a = 0
      BY <1>7, <3>1
    <3>2. CASE a # 0
      <4>1. (a - 1) * q <= z /\ a - 1 \in Nat
        BY <1>1, <1>10, <2>2, <3>2
      <4>2. (a - 1) * t <= s
        BY <1>9, <1>11, <1>12, <4>1
      <4> QED
        BY <1>7, <1>8, <4>1, <4>2
    <3> QED
      BY <3>1, <3>2
  <2>4. z < (a + 1) * q /\ (a + 1) * q <= (Full + 1) * q
    <3>1. a + 1 <= Full + 1
      BY <1>9, <1>12
    <3> QED
      BY <1>1, <1>9, <1>10, <2>2, <3>1, Ordered
  <2>5. z * t < ((a + 1) * q) * t /\ ((a + 1) * q) * t <= (q * t) * (Full + 1)
    <3>1. ((a + 1) * q) * t <= ((Full + 1) * q) * t
      BY <1>1, <1>6, <1>9, <2>4, Ordered
    <3>2. ((Full + 1) * q) * t = (q * t) * (Full + 1)
      BY <1>1, <1>6, <1>9
    <3>3. z * t <= ((a + 1) * q - 1) * t /\ ((a + 1) * q - 1) * t < ((a + 1) * q) * t
      <4>1. (a + 1) * q \in Int /\ z <= (a + 1) * q - 1
        BY <1>1, <1>10, <2>4
      <4>2. \A b \in Int : (b - 1) * t < b * t
        BY <1>6
      <4> QED
        BY <1>6, <1>10, <4>1, <4>2, Ordered
    <3> QED
      BY <1>1, <1>6, <1>9, <1>10, <3>1, <3>2, <3>3
  <2>6. s * q - z * t < q * t
    <3>1. s * q - z * t \in Int /\ q * t \in Nat /\ z * t \in Int /\ ((a + 1) * q) * t \in Int
      BY <1>1, <1>6, <1>10
    <3>2. (s * q - z * t) * (Full + 1) < (q * t) * (Full + 1)
      BY <1>9, <1>11, <2>5, <3>1
    <3> QED
      BY <1>9, <3>1, <3>2, Ordered
  <2>7. s * q < ((a + 2) * t) * q
    <3>1. ((a + 1) * q) * t + q * t = ((a + 2) * t) * q
      BY <1>1, <1>6
    <3> QED
      BY <1>1, <1>6, <1>10, <2>5, <2>6, <3>1
  <2>8. s < (a + 2) * t
    BY <1>1, <1>6, <2>7, Ordered
  <2>9. y * t < (a + 2) * t
    BY <1>6, <1>7, <2>8
  <2>10. y < a + 2
    BY <1>6, <1>7, <2>9, Ordered
  <2> QED
    BY <1>7, <2>3, <2>10
\* Far: both errors, over the common denominator q * t.
<1>13. (y - a) * Full <= 2 * a + Full /\ (a - y) * Full <= 2 * a + Full
  <2> DEFINE T == q * t
             A == a * T
             Z == z * t
             S == s * q
             Y == y * T
  <2>1. T \in Nat \ {0} /\ A \in Nat /\ Z \in Nat /\ S \in Nat /\ Y \in Nat
    BY <1>1, <1>6, <1>7, <1>10
  <2>2. (Z - A) * (Full + 1) <= A /\ (A - Z) * (Full + 1) <= A
    <3>1. /\ ((z - a * q) * (Full + 1)) * t <= (a * q) * t
          /\ ((a * q - z) * (Full + 1)) * t <= (a * q) * t
      BY <1>1, <1>6, <1>9, <1>10, <1>11, Ordered
    <3>2. /\ ((z - a * q) * (Full + 1)) * t = (Z - A) * (Full + 1)
          /\ ((a * q - z) * (Full + 1)) * t = (A - Z) * (Full + 1)
          /\ (a * q) * t = A
      BY <1>1, <1>6, <1>9, <1>10
    <3> QED
      BY <3>1, <3>2
  <2>3. (S - Z) * (Full + 1) <= Z /\ (Z - S) * (Full + 1) <= Z
    BY <1>11
  <2>4. Y <= S /\ S < Y + T
    <3>1. (y * t) * q <= s * q
      BY <1>1, <1>6, <1>7, Ordered
    <3>2. s * q <= (y * t + t - 1) * q
      BY <1>1, <1>6, <1>7, Ordered
    <3>3. (y * t + t - 1) * q = Y + T - q /\ (y * t) * q = Y
      BY <1>1, <1>6, <1>7
    <3> QED
      BY <1>1, <2>1, <3>1, <3>2, <3>3
  <2>5. (y - a) * T = Y - A /\ (a - y) * T = A - Y
    BY <1>1, <1>6, <1>7
  <2>6. T * Full \in Nat /\ (2 * a + Full) * T = 2 * A + T * Full
    BY <1>1, <1>6, <1>9
  <2> HIDE DEF A, Z, S, Y, T
  <2> DEFINE d1 == Z - A
             d2 == S - Z
  <2>7. /\ d1 \in Int /\ d2 \in Int /\ d1 + d2 = S - A /\ A + d1 = Z
        /\ -d1 = A - Z /\ -d2 = Z - S /\ -(d1 + d2) = A - S
    BY <2>1
  <2>8. (d1 + d2) * Full <= 2 * A /\ (-(d1 + d2)) * Full <= 2 * A
    <3>1. /\ d1 * (Full + 1) <= A /\ (-d1) * (Full + 1) <= A
          /\ d2 * (Full + 1) <= A + d1 /\ (-d2) * (Full + 1) <= A + d1
      BY <2>2, <2>3, <2>7
    <3> HIDE DEF d1, d2
    <3> QED
      BY <1>9, <2>1, <2>7, <3>1, TwoErrors
  <2>9. (S - A) * Full <= 2 * A /\ (A - S) * Full <= 2 * A
    BY <2>7, <2>8
  <2>10. (Y - A) * Full <= 2 * A + T * Full
    <3>1. (Y - A) * Full <= (S - A) * Full
      BY <1>9, <2>1, <2>4, Ordered
    <3>2. (Y - A) * Full \in Int /\ (S - A) * Full \in Int
      BY <1>9, <2>1
    <3> QED
      BY <2>1, <2>6, <2>9, <3>1, <3>2
  <2>11. (A - Y) * Full <= 2 * A + T * Full
    <3>1. (A - Y) * Full <= (A - S + T) * Full
      BY <1>9, <2>1, <2>4, Ordered
    <3>2. (A - S + T) * Full = (A - S) * Full + T * Full
      BY <1>9, <2>1
    <3>3. (A - Y) * Full \in Int /\ (A - S) * Full \in Int
      BY <1>9, <2>1
    <3> QED
      BY <2>1, <2>6, <2>9, <3>1, <3>2, <3>3
  <2>12. /\ ((y - a) * Full) * T = ((y - a) * T) * Full
         /\ ((a - y) * Full) * T = ((a - y) * T) * Full
    BY <1>7, <1>9, <2>1
  <2>13. /\ ((y - a) * Full) * T <= (2 * a + Full) * T
         /\ ((a - y) * Full) * T <= (2 * a + Full) * T
    BY <2>5, <2>6, <2>10, <2>11, <2>12
  <2> QED
    BY <1>7, <1>9, <2>1, <2>13, Ordered
<1> QED
  BY <1>2, <1>7, <1>12, <1>13

(***************************************************************************)
(* Whole numbers.                                                          *)
(***************************************************************************)

\* The whole part of the rounded quotient, in units again.
LEMMA WholePart ==
    ASSUME NEW a \in Nat, NEW B \in Nat \ {0}, InRange(a, B)
    PROVE  LET f == Truncate(Round(a, B))
           IN  /\ f \in Nat
               /\ (f * B) * (Full + 1) <= a * (Full + 2)
               /\ a <= Full => f * B <= a
<1> DEFINE p == Round(a, B)[1]
           q == Round(a, B)[2]
           f == p \div q
<1>1. /\ p \in Nat /\ q \in Nat \ {0}
      /\ (p * B - a * q) * (Full + 1) <= a * q
  BY RoundError
<1>2. Truncate(Round(a, B)) = f
  BY DEF Truncate
<1> HIDE DEF p, q
<1>3. f \in Nat /\ f * q <= p
  <2>1. f \in Nat /\ p % q \in 0..(q - 1) /\ p = f * q + (p % q)
    BY <1>1, Division
  <2> HIDE DEF f
  <2> QED
    BY <1>1, <2>1
<1> HIDE DEF f
<1>4. Full \in Nat \ {0}
  BY HalfFull
<1>5. (f * B) * (Full + 1) <= a * (Full + 2)
  <2>1. (f * q) * B <= p * B
    BY <1>1, <1>3, Ordered
  <2>2. ((f * q) * B) * (Full + 1) <= (p * B) * (Full + 1)
    BY <1>1, <1>3, <1>4, <2>1, Ordered
  <2>3. (p * B) * (Full + 1) <= (a * q) * (Full + 2)
    <3>1. (p * B - a * q) * (Full + 1) = (p * B) * (Full + 1) - (a * q) * (Full + 1)
      BY <1>1, <1>4
    <3>2. (a * q) * (Full + 2) = (a * q) * (Full + 1) + a * q
      BY <1>1, <1>4
    <3>3. (p * B) * (Full + 1) \in Int /\ (a * q) * (Full + 1) \in Int /\ a * q \in Int
      BY <1>1, <1>4
    <3> QED
      BY <1>1, <3>1, <3>2, <3>3
  <2>4. /\ ((f * q) * B) * (Full + 1) = ((f * B) * (Full + 1)) * q
        /\ (a * q) * (Full + 2) = (a * (Full + 2)) * q
        /\ (p * B) * (Full + 1) \in Int
    BY <1>1, <1>3, <1>4
  <2>5. ((f * B) * (Full + 1)) * q <= (a * (Full + 2)) * q
    BY <1>1, <1>3, <1>4, <2>2, <2>3, <2>4
  <2> QED
    BY <1>1, <1>3, <1>4, <2>5, Ordered
<1>6. ASSUME a <= Full PROVE f * B <= a
  <2>1. a * (Full + 2) = a * (Full + 1) + a /\ (a + 1) * (Full + 1) = a * (Full + 1) + Full + 1
    BY <1>4
  <2>2. (f * B) * (Full + 1) < (a + 1) * (Full + 1)
    BY <1>3, <1>4, <1>5, <1>6, <2>1
  <2>3. f * B < a + 1
    BY <1>3, <1>4, <2>2, Ordered
  <2> QED
    BY <1>3, <2>3
<1> QED
  BY <1>2, <1>3, <1>5, <1>6

\* Every number is an odd one times a power of two.
LEMMA OddPart ==
    \A n \in Nat \ {0} : \E b, v \in Nat : b % 2 = 1 /\ n = b * Pow2[v]
<1> DEFINE Splits(n) == \E b, v \in Nat : b % 2 = 1 /\ n = b * Pow2[v]
           Good == {k \in Nat : \A n \in 1..k : Splits(n)}
<1>1. 0 \in Good
  OBVIOUS
<1>2. ASSUME NEW k \in Nat, k \in Good PROVE k + 1 \in Good
  <2>1. Splits(k + 1)
    <3>1. CASE (k + 1) % 2 = 1
      <4>1. k + 1 = (k + 1) * Pow2[0]
        BY Pow2Facts
      <4> QED
        BY <3>1, <4>1
    <3>2. CASE (k + 1) % 2 # 1
      <4>1. PICK m \in 1..k : k + 1 = 2 * m
        <5>1. (k + 1) \div 2 \in 1..k /\ k + 1 = 2 * ((k + 1) \div 2)
          BY <3>2
        <5> QED
          BY <5>1
      <4>2. PICK b \in Nat, v \in Nat : b % 2 = 1 /\ m = b * Pow2[v]
        BY <1>2
      <4>3. Pow2[v + 1] = 2 * Pow2[v] /\ Pow2[v] \in Nat /\ v + 1 \in Nat
        BY Pow2Facts
      <4>4. k + 1 = b * Pow2[v + 1]
        BY <4>1, <4>2, <4>3
      <4> QED
        BY <4>2, <4>3, <4>4
    <3> QED
      BY <3>1, <3>2
  <2> HIDE DEF Splits
  <2>2. \A n \in 1..(k + 1) : n = k + 1 \/ n \in 1..k
    OBVIOUS
  <2> QED
    BY <1>2, <2>1, <2>2
<1>3. Nat \subseteq Good
  <2> HIDE DEF Good
  <2> QED
    BY <1>1, <1>2, SetInduction
<1>4. ASSUME NEW n \in Nat \ {0} PROVE Splits(n)
  <2>1. n \in Good
    BY <1>3
  <2> HIDE DEF Splits
  <2> QED
    BY <2>1
<1> QED
  BY <1>4

\* A power of two that divides a multiple by an odd number divides the number.
LEMMA OddDivides ==
    ASSUME NEW b \in Nat, b % 2 = 1
    PROVE  \A e \in Nat : \A w, c \in Nat :
              w * b = c * Pow2[e] => \E u \in Nat : w = u * Pow2[e]
<1> DEFINE Divides(e) == \A w, c \in Nat :
              w * b = c * Pow2[e] => \E u \in Nat : w = u * Pow2[e]
           Good == {e \in Nat : Divides(e)}
<1>1. 0 \in Good
  <2>1. \A w \in Nat : w = w * Pow2[0]
    BY Pow2Facts
  <2> QED
    BY <2>1
<1>2. ASSUME NEW e \in Nat, e \in Good PROVE e + 1 \in Good
  <2>1. ASSUME NEW w \in Nat, NEW c \in Nat, w * b = c * Pow2[e + 1]
        PROVE  \E u \in Nat : w = u * Pow2[e + 1]
    <3>1. Pow2[e + 1] = 2 * Pow2[e] /\ Pow2[e] \in Nat
      BY Pow2Facts
    <3>2. PICK j \in Nat : b = 2 * j + 1
      <4>1. b \div 2 \in Nat /\ b = 2 * (b \div 2) + 1
        OBVIOUS
      <4> QED
        BY <4>1
    <3>3. PICK i \in Nat : w = 2 * i
      <4>1. w \div 2 \in Nat /\ (w = 2 * (w \div 2) \/ w = 2 * (w \div 2) + 1)
        OBVIOUS
      <4>2. PICK i \in Nat : w = 2 * i \/ w = 2 * i + 1
        BY <4>1
      <4>3. CASE w = 2 * i + 1
        <5>1. w * b = 2 * (2 * (i * j) + i + j) + 1
          BY <3>2, <4>3
        <5>2. w * b = 2 * (c * Pow2[e])
          BY <2>1, <3>1
        <5>3. c * Pow2[e] \in Int /\ 2 * (i * j) + i + j \in Int
          BY <3>1
        <5>4. \A x, y \in Int : 2 * x # 2 * y + 1
          OBVIOUS
        <5> QED
          BY <5>1, <5>2, <5>3, <5>4
      <4> QED
        BY <4>2, <4>3
    <3>4. i * b = c * Pow2[e]
      <4>1. 2 * (i * b) = 2 * (c * Pow2[e])
        BY <2>1, <3>1, <3>3
      <4>2. i * b \in Int /\ c * Pow2[e] \in Int
        BY <3>1
      <4> QED
        BY <4>1, <4>2
    <3>5. PICK u \in Nat : i = u * Pow2[e]
      BY <1>2, <3>4
    <3>6. w = u * Pow2[e + 1]
      BY <3>1, <3>3, <3>5
    <3> QED
      BY <3>6
  <2> QED
    BY <2>1
<1>3. Nat \subseteq Good
  <2> HIDE DEF Good
  <2> QED
    BY <1>1, <1>2, SetInduction
<1> QED
  BY <1>3

\* A quotient beyond the significand is rounded to a multiple of its unit.
LEMMA RoundLarge ==
    ASSUME NEW n \in Nat, NEW d \in Nat \ {0}, InRange(n, d), Full * d <= n
    PROVE  \E k \in Nat \ {0} :
             /\ Half * (d * Pow2[k]) <= n /\ n < Full * (d * Pow2[k])
             /\ Round(n, d) = <<Nearest(n, d * Pow2[k]) * Pow2[k], 1>>
<1>1. n # 0
  <2>1. Full * d \in Nat \ {0}
    BY HalfFull
  <2> QED
    BY <2>1
<1>2. PICK e \in Int :
        /\ Half * (d * Up(e)) <= n * Down(e) /\ n * Down(e) < Full * (d * Up(e))
        /\ Round(n, d) = <<Nearest(n * Down(e), d * Up(e)) * Up(e), Down(e)>>
  BY <1>1, RoundForm
<1>3. e > 0
  <2> SUFFICES ASSUME e <= 0 PROVE FALSE
    OBVIOUS
  <2>1. Up(e) = 1 /\ Down(e) \in Nat \ {0}
    BY Scales
  <2>2. n * Down(e) < Full * d
    BY <1>2, <2>1
  <2>3. \A D \in Nat \ {0} : n <= n * D
    OBVIOUS
  <2> QED
    BY <2>1, <2>2, <2>3, HalfFull
<1>4. Up(e) = Pow2[e] /\ Down(e) = 1
  BY <1>3, Scales
<1>5. n * 1 = n
  OBVIOUS
<1> QED
  BY <1>2, <1>3, <1>4, <1>5

\* A whole quotient w whose product with B comes back as it was is not rounded
\* down: a multiple of w that has Precision bits leaves w no more than that.
THEOREM WholeReturns ==
    ASSUME NEW w \in Nat, NEW B \in Nat \ {0}, InRange(w * B, B),
           InRange(Round(w * B, B)[1] * B, Round(w * B, B)[2]),
           Truncate(Times(Round(w * B, B), B)) = w * B
    PROVE  w <= Truncate(Round(w * B, B))
<1> DEFINE p == Round(w * B, B)[1]
           q == Round(w * B, B)[2]
<1>0. w * B \in Nat
  OBVIOUS
<1>1. p \in Nat /\ q \in Nat \ {0} /\ Round(w * B, B) = <<p, q>>
  BY <1>0, RoundError
<1>2. Truncate(Round(w * B, B)) = p \div q
  BY DEF Truncate
<1>3. w * q <= p => w <= p \div q
  BY <1>1, Quotient
<1>4. CASE w <= Full
  <2>1. w * q <= p
    BY <1>0, <1>4, RoundFloor
  <2> QED
    BY <1>2, <1>3, <2>1
<1>5. CASE Full < w
  <2> SUFFICES w * q <= p
    BY <1>2, <1>3
  <2>1. Full * B <= w * B
    BY <1>5, HalfFull, Ordered
  <2>2. PICK k \in Nat \ {0} :
          /\ Half * (B * Pow2[k]) <= w * B /\ w * B < Full * (B * Pow2[k])
          /\ Round(w * B, B) = <<Nearest(w * B, B * Pow2[k]) * Pow2[k], 1>>
    BY <1>0, <2>1, RoundLarge
  <2> DEFINE U == Pow2[k]
             r == Nearest(w * B, B * U)
  <2>3. U \in Nat \ {0} /\ Half \in Nat \ {0} /\ Full = 2 * Half
    BY Pow2Facts, HalfFull
  <2>4. p = r * U /\ q = 1
    BY <1>1, <2>2
  <2>5. B * U \in Nat \ {0}
    BY <2>3
  <2>6. r \in Nat /\ \A m \in Nat : (m * (B * U) <= w * B => m <= r)
                                    /\ (w * B <= m * (B * U) => r <= m)
    BY <1>0, <2>5, NearestFacts
  <2>7. Half <= r
    BY <2>2, <2>3, <2>6
  <2> HIDE DEF r
  <2>8. 2 <= U
    <3>1. k - 1 \in Nat /\ (k - 1) + 1 = k
      OBVIOUS
    <3>2. Pow2[k - 1] \in Nat \ {0} /\ Pow2[k] = 2 * Pow2[k - 1]
      BY <3>1, Pow2Facts
    <3> QED
      BY <3>2
\* The product is beyond the significand too, ...
  <2> DEFINE z == p * B
  <2>9. z \in Nat /\ z = (r * B) * U /\ InRange(z, 1)
    BY <1>1, <2>3, <2>4, <2>6
  <2>10. (Half * B) * U <= z
    <3>1. (Half * B) * U <= (r * B) * U
      <4>1. Half * B <= r * B
        BY <2>3, <2>6, <2>7, Ordered
      <4>2. Half * B \in Int /\ r * B \in Int
        BY <2>3, <2>6
      <4> QED
        BY <2>3, <4>1, <4>2, Ordered
    <3> QED
      BY <2>9, <3>1
  <2>11. Full * 1 <= z
    <3>1. 2 * Half <= U * Half
      BY <2>3, <2>8, Ordered
    <3>2. 1 * (U * Half) <= B * (U * Half)
      BY <2>3, Ordered
    <3>3. B * (U * Half) = (Half * B) * U
      BY <2>3
    <3> QED
      BY <2>3, <2>9, <2>10, <3>1, <3>2, <3>3
  <2>12. Times(Round(w * B, B), B) = Round(z, 1)
    BY <2>4 DEF Times
  <2> HIDE DEF z
  <2>13. PICK l \in Nat \ {0} :
           /\ Half * (1 * Pow2[l]) <= z /\ z < Full * (1 * Pow2[l])
           /\ Round(z, 1) = <<Nearest(z, 1 * Pow2[l]) * Pow2[l], 1>>
    BY <2>9, <2>11, RoundLarge
  <2> DEFINE U2 == Pow2[l]
             r2 == Nearest(z, 1 * U2)
  <2>14. U2 \in Nat \ {0}
    BY Pow2Facts
  <2>15. r2 \in Nat
    <3>1. 1 * U2 \in Nat \ {0}
      BY <2>14
    <3> QED
      BY <2>9, <3>1, NearestFacts
  <2>16. w * B = r2 * U2
    <3>1. Round(z, 1) = <<r2 * U2, 1>>
      BY <2>13
    <3> HIDE DEF r2, U2
    <3>2. w * B = (r2 * U2) \div 1
      BY <2>12, <3>1 DEF Truncate
    <3>3. r2 * U2 \in Nat
      BY <2>14, <2>15
    <3>4. \A m \in Nat : m \div 1 = m
      OBVIOUS
    <3> QED
      BY <3>2, <3>3, <3>4
  <2> HIDE DEF r2
\* ... in a unit that the units of w and of B divide.
  <2>17. PICK b \in Nat, v \in Nat : b % 2 = 1 /\ B = b * Pow2[v]
    BY OddPart
  <2> DEFINE V == Pow2[v]
  <2>18. V \in Nat \ {0} /\ b \in Nat \ {0}
    BY <2>17, Pow2Facts
  <2>19. Pow2[k + v] = U * V /\ k + v \in Nat
    BY Pow2Plus
  <2>20. U * V < 2 * U2
    <3>1. (Half * V) * U <= (Half * B) * U
      <4>1. V <= B
        <5>1. 1 * V <= b * V
          BY <2>18, Ordered
        <5> QED
          BY <2>17, <2>18, <5>1
      <4>2. V * (Half * U) <= B * (Half * U)
        BY <2>3, <2>18, <4>1, Ordered
      <4>3. V * (Half * U) = (Half * V) * U /\ B * (Half * U) = (Half * B) * U
        BY <2>3, <2>18
      <4> QED
        BY <4>2, <4>3
    <3>2. z < (2 * U2) * Half
      BY <2>3, <2>13, <2>14
    <3>3. (Half * V) * U = (U * V) * Half
      BY <2>3, <2>18
    <3>4. (U * V) * Half < (2 * U2) * Half
      BY <2>3, <2>9, <2>10, <2>14, <2>18, <3>1, <3>2, <3>3
    <3>5. U * V \in Int /\ 2 * U2 \in Int
      BY <2>3, <2>14, <2>18
    <3> QED
      BY <2>3, <3>4, <3>5, Ordered
  <2>21. PICK W \in Nat : U2 = (U * V) * W
    <3>1. k + v <= l
      BY <2>19, <2>20, Pow2Order
    <3>2. U2 = Pow2[k + v] * Pow2[l - (k + v)]
      BY <2>19, <3>1, Pow2Order
    <3>3. Pow2[l - (k + v)] \in Nat
      BY <2>19, <3>1, Pow2Facts
    <3> QED
      BY <2>19, <3>2, <3>3
  <2> HIDE DEF U, V, U2
  <2>22. w * b = (r2 * W) * U
    <3>1. (w * b) * V = ((r2 * W) * U) * V
      <4>1. w * B = (w * b) * V
        BY <2>17, <2>18 DEF V
      <4>2. r2 * U2 = ((r2 * W) * U) * V
        BY <2>3, <2>15, <2>18, <2>21
      <4> QED
        BY <2>16, <4>1, <4>2
    <3>2. w * b \in Int /\ (r2 * W) * U \in Int
      BY <2>3, <2>15
    <3>3. w * b <= (r2 * W) * U /\ (r2 * W) * U <= w * b
      BY <2>18, <3>1, <3>2, Ordered
    <3> QED
      BY <3>2, <3>3
  <2>23. PICK u \in Nat : w = u * U
    <3>1. r2 * W \in Nat
      BY <2>15
    <3>2. \A c \in Nat : w * b = c * Pow2[k] => \E u \in Nat : w = u * Pow2[k]
      BY <2>17, OddDivides
    <3> QED
      BY <2>22, <3>1, <3>2 DEF U
\* So w was no more than its unit allows, and is rounded to itself.
  <2>24. u * (B * U) = w * B
    BY <2>3, <2>23
  <2>25. r = u
    BY <1>0, <2>6, <2>24
  <2> QED
    BY <2>3, <2>4, <2>23, <2>25
<1> QED
  BY <1>4, <1>5, HalfFull
=============================================================================
