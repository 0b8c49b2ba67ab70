--------------------------- MODULE SendAmountsProofs ---------------------------
(* What holds of SendAmounts for every wallet, every amount and every        *)
(* precision of the floats.                                                  *)
EXTENDS SendAmounts, FloatsProofs

(***************************************************************************)
(* Running sums.                                                           *)
(***************************************************************************)

LEMMA FundsFacts ==
    ASSUME NEW list \in Seq(Nat)
    PROVE  /\ Funds(list)[0] = 0
           /\ \A n \in 0..(Len(list) - 1) : Funds(list)[n + 1] = Funds(list)[n] + list[n + 1]
           /\ \A n \in 0..Len(list) : Funds(list)[n] \in Nat
<1> DEFINE L == Len(list)
           next == [p \in Nat \X Nat |-> IF p[1] + 1 <= L THEN p[2] + list[p[1] + 1] ELSE p[2]]
           F == Funds(list)
<1>1. L \in Nat /\ \A n \in 1..L : list[n] \in Nat
  OBVIOUS
<1>2. next \in [Nat \X Nat -> Nat]
  BY <1>1
<1>3. PICK f : Follows(f, Nat, 0, next)
  <2> HIDE DEF next
  <2> QED
    BY <1>2, Recursion
<1>4. /\ f \in [Nat -> Nat] /\ f[0] = 0
      /\ \A n \in 0..(L - 1) : f[n + 1] = f[n] + list[n + 1]
  <2>1. /\ f \in [Nat -> Nat] /\ f[0] = 0
        /\ \A n \in Nat : f[n + 1] = next[<<n, f[n]>>]
    <3> HIDE DEF next
    <3> QED
      BY <1>3 DEF Follows
  <2>2. ASSUME NEW n \in 0..(L - 1) PROVE f[n + 1] = f[n] + list[n + 1]
    <3>1. n \in Nat /\ n + 1 <= L /\ f[n] \in Nat
      <4> HIDE DEF next, L, F
      <4> QED
        BY <1>1, <2>1
    <3>2. next[<<n, f[n]>>] = f[n] + list[n + 1]
      BY <3>1
    <3> QED
      BY <2>1, <3>1, <3>2
  <2> QED
    BY <2>1, <2>2
<1> HIDE DEF L
<1> DEFINE g == [n \in 0..L |-> f[n]]
<1>5. g = [n \in 0..L |-> IF n = 0 THEN 0 ELSE g[n - 1] + list[n]]
  <2>1. ASSUME NEW n \in 0..L PROVE g[n] = IF n = 0 THEN 0 ELSE g[n - 1] + list[n]
    <3>1. CASE n = 0
      BY <1>4, <3>1
    <3>2. CASE n # 0
      <4>1. n - 1 \in 0..(L - 1) /\ n - 1 \in 0..L /\ (n - 1) + 1 = n
        BY <1>1, <3>2
      <4> QED
        BY <1>4, <3>2, <4>1
    <3> QED
      BY <3>1, <3>2
  <2> QED
    BY <2>1
<1>6. \E h : h = [n \in 0..L |-> IF n = 0 THEN 0 ELSE h[n - 1] + list[n]]
  <2> HIDE DEF g
  <2> QED
    BY <1>5
<1>7. F = [n \in 0..L |-> IF n = 0 THEN 0 ELSE F[n - 1] + list[n]]
  BY <1>6 DEF Funds, L
<1> HIDE DEF F
<1>8. F[0] = 0
  BY <1>1, <1>7
<1>9. \A n \in 0..(L - 1) : F[n + 1] = F[n] + list[n + 1]
  <2> TAKE n \in 0..(L - 1)
  <2>1. n + 1 \in 0..L /\ n + 1 # 0 /\ (n + 1) - 1 = n
    BY <1>1
  <2> QED
    BY <1>7, <2>1
<1> DEFINE Good == {n \in Nat : n <= L => F[n] \in Nat}
<1>10. 0 \in Good
  BY <1>8
<1>11. ASSUME NEW n \in Nat, n \in Good PROVE n + 1 \in Good
  <2> SUFFICES ASSUME n + 1 <= L PROVE F[n + 1] \in Nat
    OBVIOUS
  <2>1. n \in 0..(L - 1) /\ n + 1 \in 1..L
    BY <1>1
  <2>2. F[n] \in Nat
    BY <1>1, <1>11, <2>1
  <2> QED
    BY <1>1, <1>9, <2>1, <2>2
<1>12. Nat \subseteq Good
  <2> HIDE DEF Good
  <2> QED
    BY <1>10, <1>11, SetInduction
<1> QED
  BY <1>1, <1>8, <1>9, <1>12 DEF F, L

\* More outputs are worth more.
LEMMA FundsGrow ==
    ASSUME NEW list \in Seq(Nat), NEW n \in 0..Len(list)
    PROVE  Funds(list)[n] <= Funds(list)[Len(list)]
<1> DEFINE L == Len(list)
           F == Funds(list)
           Good == {k \in Nat : k <= L => F[L - k] <= F[L]}
<1>1. /\ L \in Nat /\ \A k \in 1..L : list[k] \in Nat
      /\ \A k \in 0..(L - 1) : F[k + 1] = F[k] + list[k + 1]
      /\ \A k \in 0..L : F[k] \in Nat
  BY FundsFacts
<1> HIDE DEF L, F
<1>2. 0 \in Good
  BY <1>1
<1>3. ASSUME NEW k \in Nat, k \in Good PROVE k + 1 \in Good
  <2> SUFFICES ASSUME k + 1 <= L PROVE F[L - (k + 1)] <= F[L]
    OBVIOUS
  <2> DEFINE m == L - (k + 1)
  <2>1. m \in 0..(L - 1) /\ m + 1 = L - k /\ m + 1 \in 1..L
    BY <1>1
  <2>2. F[L - k] <= F[L]
    BY <1>1, <1>3
  <2>3. F[L - k] = F[m] + list[m + 1]
    BY <1>1, <2>1
  <2>4. F[m] \in Nat /\ list[m + 1] \in Nat /\ F[L] \in Nat
    BY <1>1, <2>1
  <2> QED
    BY <2>2, <2>3, <2>4
<1>4. Nat \subseteq Good
  <2> HIDE DEF Good
  <2> QED
    BY <1>2, <1>3, SetInduction
<1>5. L - n \in Good /\ L - n <= L /\ L - (L - n) = n
  BY <1>1, <1>4 DEF L
<1> QED
  BY <1>5 DEF L, F

(***************************************************************************)
(* The inductive invariant.                                                *)
(***************************************************************************)

\* What the loop has counted is what it has taken.
Counted ==
    /\ total = Funds(outputs)[pushed]
    /\ remaining = WholeBitcoins - total

\* It stops at the first output that makes it enough, or at the end.
Stops ==
    /\ step = "select" => ~Enough(remaining)
    /\ step # "select" => Enough(remaining) \/ pushed = Len(outputs)
    /\ pushed > 0 => Funds(outputs)[pushed - 1] <= WholeBitcoins

\* A transaction has inputs, and its change is what the code subtracts.
Change ==
    /\ step \in {"built", "panic", "bad_signature"} => pushed > 0
    /\ step = "built" => change = WrappingSub(total, amount_satoshi)
    /\ step = "panic" => total < amount_satoshi
    /\ step = "insufficient" => pushed = 0

AInv == AmountsTypeOK /\ Counted /\ Stops /\ Change

LEMMA AskedFacts ==
    ASSUME asked \in Amounts
    PROVE  /\ asked \in Nat /\ Btc \in Nat \ {0}
           /\ InRange(asked, Btc)
           /\ InRange(Round(asked, Btc)[1] * Btc, Round(asked, Btc)[2])
           /\ WholeBitcoins \in Nat
<1>1. asked \in Nat /\ Btc \in Nat \ {0} /\ InRange(asked, Btc)
      /\ InRange(Round(asked, Btc)[1] * Btc, Round(asked, Btc)[2])
  BY AmountConstants
<1>2. Truncate(Round(asked, Btc)) \in Nat
  BY <1>1, WholePart
<1> QED
  BY <1>1, <1>2 DEF WholeBitcoins, amount_btc

LEMMA ListFacts ==
    ASSUME outputs \in OutputLists
    PROVE  /\ outputs \in Seq(Nat) /\ Len(outputs) \in Nat
           /\ \A n \in 1..Len(outputs) : outputs[n] \in Nat
           /\ Funds(outputs)[0] = 0
           /\ \A n \in 0..(Len(outputs) - 1) :
                 Funds(outputs)[n + 1] = Funds(outputs)[n] + outputs[n + 1]
           /\ \A n \in 0..Len(outputs) : Funds(outputs)[n] \in Nat
           /\ Funds(outputs)[Len(outputs)] < Word
<1>1. outputs \in Seq(Nat) /\ Funds(outputs)[Len(outputs)] < Word
  BY AmountConstants
<1> QED
  BY <1>1, FundsFacts

LEMMA InitAInv == Init => AInv
<1> SUFFICES ASSUME Init PROVE AInv
  OBVIOUS
<1>1. WholeBitcoins \in Nat /\ Word \in Nat \ {0}
  BY AskedFacts, AmountConstants DEF Init
<1>2. Funds(outputs)[0] = 0 /\ Len(outputs) \in Nat
  BY ListFacts DEF Init
<1> QED
  BY <1>1, <1>2 DEF Init, AInv, AmountsTypeOK, Counted, Stops, Change, Enough

\* Another output, and the loop goes on only while it is not enough.
LEMMA PushKeepsAInv == AInv /\ Push => AInv'
<1> SUFFICES ASSUME AInv, Push PROVE AInv'
  OBVIOUS
<1> DEFINE F == Funds(outputs)
<1>1. /\ step = "select" /\ pushed < Len(outputs) /\ pushed' = pushed + 1
      /\ remaining' = remaining - outputs[pushed + 1]
      /\ total' = total + outputs[pushed + 1]
      /\ step' = IF Enough(remaining') THEN "selected" ELSE "select"
      /\ UNCHANGED <<outputs, asked, change, signed>>
  BY DEF Push
<1>2. /\ outputs \in OutputLists /\ asked \in Amounts /\ pushed \in 0..Len(outputs)
      /\ signed \in 0..pushed /\ remaining \in Int /\ total \in Nat
      /\ change \in 0..(Word - 1)
  BY DEF AInv, AmountsTypeOK
<1>3. /\ Len(outputs) \in Nat /\ outputs[pushed + 1] \in Nat
      /\ F[pushed + 1] = F[pushed] + outputs[pushed + 1]
  <2>1. /\ outputs \in Seq(Nat) /\ Len(outputs) \in Nat
        /\ \A n \in 0..(Len(outputs) - 1) : F[n + 1] = F[n] + outputs[n + 1]
    BY <1>2, ListFacts
  <2> HIDE DEF F
  <2>2. pushed \in 0..(Len(outputs) - 1) /\ pushed + 1 \in 1..Len(outputs)
    BY <1>1, <1>2, <2>1
  <2> QED
    BY <2>1, <2>2
<1>4. WholeBitcoins' = WholeBitcoins /\ WholeBitcoins \in Nat
  BY <1>1, <1>2, AskedFacts DEF WholeBitcoins, amount_btc
<1>5. total = F[pushed] /\ remaining = WholeBitcoins - total /\ ~Enough(remaining)
  BY <1>1 DEF AInv, Counted, Stops
<1> HIDE DEF F
<1>6. F' = F
  BY <1>1 DEF F
<1>7. AmountsTypeOK'
  BY <1>1, <1>2, <1>3 DEF AmountsTypeOK
<1>8. total' = F[pushed'] /\ remaining' = WholeBitcoins - total'
  <2>1. F[pushed'] = F[pushed] + outputs[pushed + 1]
    BY <1>1, <1>3
  <2>2. total' = F[pushed']
    BY <1>1, <1>5, <2>1
  <2> DEFINE W == WholeBitcoins
             o == outputs[pushed + 1]
  <2>3. /\ W \in Nat /\ o \in Nat /\ total \in Nat
        /\ remaining' = (W - total) - o /\ total' = total + o
    BY <1>1, <1>2, <1>3, <1>4, <1>5
  <2> HIDE DEF W, o
  <2>4. remaining' = W - total'
    BY <2>3
  <2> QED
    BY <2>2, <2>4 DEF W
<1>9. F[pushed' - 1] <= WholeBitcoins
  <2>1. pushed' - 1 = pushed
    BY <1>1, <1>2
  <2> QED
    BY <1>2, <1>4, <1>5, <2>1 DEF Enough
<1>10. Counted'
  BY <1>4, <1>6, <1>8 DEF Counted, F
<1>11. Stops'
  <2>1. (step' = "select" => ~Enough(remaining')) /\ (step' # "select" => Enough(remaining'))
    BY <1>1
  <2> QED
    BY <1>4, <1>6, <1>9, <2>1 DEF Stops, F, Enough
<1>12. Change'
  <2>1. step' \in {"select", "selected"}
    BY <1>1
  <2> QED
    BY <2>1 DEF Change
<1> QED
  BY <1>7, <1>10, <1>11, <1>12 DEF AInv

\* What the other steps leave alone.
LEMMA SelectionStands ==
    ASSUME AInv, UNCHANGED <<outputs, asked, pushed, remaining, total>>,
           step # "select" \/ pushed = Len(outputs), step' # "select"
    PROVE  Counted' /\ Stops'
<1>1. WholeBitcoins' = WholeBitcoins /\ Funds(outputs)' = Funds(outputs)
  BY DEF WholeBitcoins, amount_btc
<1> QED
  BY <1>1 DEF AInv, Counted, Stops, Enough

LEMMA StepKeepsAInv == AInv /\ [Next]_amountVars => AInv'
<1> SUFFICES ASSUME AInv, [Next]_amountVars PROVE AInv'
  OBVIOUS
<1> USE DEF AmountsTypeOK
<1>1. CASE Push
  BY <1>1, PushKeepsAInv
<1>2. CASE Exhausted
  <2>1. Counted' /\ Stops'
    BY <1>2, SelectionStands DEF Exhausted
  <2> QED
    BY <1>2, <2>1 DEF Exhausted, AInv, Change
<1>3. CASE InsufficientFunds
  <2>1. Counted' /\ Stops'
    BY <1>3, SelectionStands DEF InsufficientFunds
  <2> QED
    BY <1>3, <2>1 DEF InsufficientFunds, AInv, Change
<1>4. CASE MakeOutputs
  <2>1. Counted' /\ Stops'
    BY <1>4, SelectionStands DEF MakeOutputs
  <2>2. amount_satoshi' = amount_satoshi /\ amount_satoshi \in Nat
    BY <1>4, AskedFacts, RoundTrip DEF MakeOutputs, amount_satoshi, amount_btc, AInv
  <2>3. WrappingSub(total, amount_satoshi) \in 0..(Word - 1)
    BY <2>2, AmountConstants DEF WrappingSub, AInv
  <2>4. UNCHANGED <<outputs, asked, pushed, remaining, total, signed>> /\ pushed > 0
    BY <1>4 DEF MakeOutputs
  <2>5. CASE change' = WrappingSub(total, amount_satoshi) /\ step' = "built"
    BY <2>1, <2>2, <2>3, <2>4, <2>5 DEF AInv, Change, WrappingSub
  <2>6. CASE total < amount_satoshi /\ step' = "panic" /\ UNCHANGED change
    BY <2>1, <2>2, <2>4, <2>6 DEF AInv, Change
  <2> QED
    BY <1>4, <2>5, <2>6 DEF MakeOutputs
<1>5. CASE SignInput
  <2>1. /\ step = "built" /\ signed < pushed
        /\ UNCHANGED <<outputs, asked, pushed, remaining, total, change>>
        /\ \/ signed' = signed + 1 /\ UNCHANGED step
           \/ step' = "bad_signature" /\ UNCHANGED signed
    BY <1>5 DEF SignInput
  <2>2. Counted' /\ Stops'
    BY <2>1, SelectionStands
  <2>3. amount_satoshi' = amount_satoshi
    BY <2>1 DEF amount_satoshi, amount_btc
  <2>4. pushed \in Nat /\ signed \in Nat
    BY ListFacts DEF AInv
  <2>5. AmountsTypeOK'
    BY <2>1, <2>4 DEF AInv
  <2>6. Change'
    BY <2>1, <2>3 DEF AInv, Change, WrappingSub
  <2> QED
    BY <2>2, <2>5, <2>6 DEF AInv
<1>6. CASE UNCHANGED amountVars
  BY <1>6 DEF amountVars, AInv, Counted, Stops, Change, Enough, WrappingSub, WholeBitcoins,
     amount_satoshi, amount_btc
<1> QED
  BY <1>1, <1>2, <1>3, <1>4, <1>5, <1>6 DEF Next

LEMMA Invariance == Spec => []AInv
  BY InitAInv, StepKeepsAInv, PTL DEF Spec

(***************************************************************************)
(* The theorems.                                                           *)
(***************************************************************************)

\* Type correctness: counts, sums and the change stay in their ranges.
THEOREM AmountsTypeCorrect == Spec => []AmountsTypeOK
<1>1. AInv => AmountsTypeOK
  BY DEF AInv
<1> QED
  BY <1>1, Invariance, PTL

\* The way of an amount through two roundings and a truncation, for every
\* precision and every unit: one unit at most while the amount fits the
\* significand, two parts in 2^Precision beyond.
THEOREM RoundingBound == Spec => []RoundingIsSmall
<1>1. AInv => RoundingIsSmall
  <2> SUFFICES ASSUME AInv PROVE RoundingIsSmall
    OBVIOUS
  <2>1. asked \in Nat /\ asked \in Amounts
    BY AskedFacts DEF AInv, AmountsTypeOK
  <2>2. /\ amount_satoshi \in Nat
        /\ asked <= Full => amount_satoshi <= asked + 1 /\ asked <= amount_satoshi + 1
        /\ (amount_satoshi - asked) * Full <= 2 * asked + Full
        /\ (asked - amount_satoshi) * Full <= 2 * asked + Full
    BY <2>1, AskedFacts, RoundTrip DEF amount_satoshi, amount_btc
  <2> QED
    BY <2>1, <2>2 DEF RoundingIsSmall, Full
<1> QED
  BY <1>1, Invariance, PTL

\* No input is needless: what was there before the last one was not more than
\* asked for, up to the one rounding the selection's amount went through.
THEOREM NoneNeedless == Spec => []NoNeedlessInput
<1>1. AInv => NoNeedlessInput
  <2> SUFFICES ASSUME AInv, step = "built" PROVE NoNeedlessInput
    BY DEF NoNeedlessInput
  <2> DEFINE before == Funds(outputs)[pushed - 1]
  <2>1. asked \in Nat /\ asked \in Amounts /\ Full \in Nat
    BY AskedFacts, HalfFull DEF AInv, AmountsTypeOK
  <2>2. /\ WholeBitcoins \in Nat
        /\ WholeBitcoins * (Full + 1) <= asked * (Full + 2)
        /\ asked <= Full => WholeBitcoins <= asked
    BY <2>1, AskedFacts, WholePart DEF WholeBitcoins, amount_btc
  <2>3. before <= WholeBitcoins
    BY DEF AInv, Change, Stops
  <2>4. before \in Nat
    <3>1. pushed - 1 \in 0..Len(outputs)
      BY ListFacts DEF AInv, AmountsTypeOK, Change
    <3> QED
      BY <3>1, ListFacts DEF AInv, AmountsTypeOK
  <2> HIDE DEF before
  <2>5. before * (Full + 1) <= WholeBitcoins * (Full + 1)
    BY <2>1, <2>2, <2>3, <2>4, Ordered
  <2>6. before * (Full + 1) <= asked * (Full + 2)
    BY <2>1, <2>2, <2>4, <2>5
  <2>7. IF asked <= Full THEN before <= asked
        ELSE before * (Full + 1) <= asked * (Full + 2)
    BY <2>1, <2>2, <2>3, <2>4, <2>6
  <2> QED
    BY <2>7 DEF NoNeedlessInput, before, Full
<1> QED
  BY <1>1, Invariance, PTL

\* A whole number of bitcoins that the wallet covers and that goes through the
\* floats unharmed is paid: the selection reaches it, and the subtraction is one.
THEOREM WholeAmountsPaid == Spec => []WholeAmountsArePaid
<1>1. AInv => WholeAmountsArePaid
  <2> SUFFICES ASSUME AInv, asked % Btc = 0, Exact, Covered, outputs # << >>
               PROVE  Balanced /\ step \notin {"panic", "insufficient"}
    BY DEF WholeAmountsArePaid
  <2>1. /\ asked \in Nat /\ asked \in Amounts /\ Btc \in Nat \ {0}
        /\ outputs \in OutputLists /\ Word \in Nat \ {0}
    BY AskedFacts, AmountConstants DEF AInv, AmountsTypeOK
  <2>2. PICK w \in Nat : asked = w * Btc
    <3>1. asked \div Btc \in Nat /\ asked = (asked \div Btc) * Btc + (asked % Btc)
      BY <2>1, Division
    <3>2. asked = (asked \div Btc) * Btc
      BY <2>1, <3>1
    <3> QED
      BY <3>1, <3>2
  <2>3. asked <= WholeBitcoins /\ WholeBitcoins \in Nat
    <3>1. w <= Truncate(Round(asked, Btc))
      BY <2>1, <2>2, AskedFacts, WholeReturns DEF Exact, amount_satoshi, amount_btc
    <3>2. Truncate(Round(asked, Btc)) \in Nat
      BY <2>1, AskedFacts, WholePart
    <3>3. w * Btc <= Truncate(Round(asked, Btc)) * Btc
      BY <2>1, <3>1, <3>2, Ordered
    <3> QED
      BY <2>1, <2>2, <3>2, <3>3, AskedFacts DEF WholeBitcoins, amount_btc
\* Once the loop has ended, there is enough, and not more than a u64 holds.
  <2>4. ASSUME step # "select" PROVE pushed > 0 /\ total \in Nat /\ asked <= total /\ total < Word
    <3>1. /\ Len(outputs) \in Nat /\ Funds(outputs)[0] = 0
          /\ \A n \in 0..Len(outputs) : Funds(outputs)[n] \in Nat
          /\ Funds(outputs)[Len(outputs)] < Word
      BY <2>1, ListFacts
    <3>2. Len(outputs) # 0
      BY <2>1, ListFacts
    <3>3. Enough(remaining) \/ pushed = Len(outputs)
      BY <2>4 DEF AInv, Stops
    <3>4. total = Funds(outputs)[pushed] /\ remaining = WholeBitcoins - total
      BY DEF AInv, Counted
    <3>5. pushed \in 0..Len(outputs) /\ total \in Nat
      BY DEF AInv, AmountsTypeOK
    <3>6. asked <= total
      <4>1. CASE Enough(remaining)
        BY <2>1, <2>3, <3>4, <3>5, <4>1 DEF Enough
      <4>2. CASE pushed = Len(outputs)
        BY <3>4, <4>2 DEF Covered
      <4> QED
        BY <3>3, <4>1, <4>2
    <3>7. pushed # 0
      BY <2>3, <3>1, <3>2, <3>3, <3>4 DEF Enough
    <3>8. total <= Funds(outputs)[Len(outputs)]
      BY <2>1, <3>4, <3>5, FundsGrow, ListFacts
    <3> QED
      BY <2>1, <3>1, <3>5, <3>6, <3>7, <3>8
  <2>5. amount_satoshi = asked
    BY DEF Exact
  <2>6. step \notin {"panic", "insufficient"}
    <3>1. step = "panic" => total < asked
      BY <2>5 DEF AInv, Change
    <3>2. step = "insufficient" => pushed = 0
      BY DEF AInv, Change
    <3> QED
      BY <2>1, <2>4, <3>1, <3>2
  <2>7. Balanced
    <3> SUFFICES ASSUME step = "built" PROVE asked + change = total
      BY <2>5 DEF Balanced
    <3>1. change = (total - asked) % Word
      BY <2>5 DEF AInv, Change, WrappingSub
    <3>2. total - asked \in 0..(Word - 1) /\ total \in Nat
      BY <2>1, <2>4
    <3>3. \A x \in 0..(Word - 1) : x % Word = x
      BY <2>1
    <3> QED
      BY <2>1, <3>1, <3>2, <3>3
  <2> QED
    BY <2>6, <2>7
<1> QED
  BY <1>1, Invariance, PTL
=============================================================================
