----------------------------- MODULE SendAmounts -----------------------------
(***************************************************************************)
(* The arithmetic of `send` in demo-wallet/src/bitcoin/mod.rs: the loop of *)
(* `select_tx_in` over the unspent outputs, smallest first, the two        *)
(* outputs of the transaction, and the encoding of a signature for each of *)
(* its inputs.  One behaviour is one call.                                 *)
(*                                                                         *)
(* Values are whole numbers of a unit; Btc is how many make one bitcoin    *)
(* (100_000_000 satoshi in the code), Word is 2^64.  What the user asks    *)
(* for is exact; what the code gets is an f32 in bitcoins.                 *)
(***************************************************************************)
EXTENDS Floats, Sequences

CONSTANTS
    Btc,            \* units per bitcoin
    Word,           \* u64 arithmetic is modulo this
    OutputLists,    \* the values of the unspent outputs found, ascending
    Amounts,        \* the amounts a user may ask for
    Width,          \* the bytes of a scalar: 32
    Widths          \* the bytes r and s may have without leading zeros

\* What the first n outputs of a list are worth together.
Funds(list) ==
    LET sum[n \in 0..Len(list)] == IF n = 0 THEN 0 ELSE sum[n - 1] + list[n]
    IN  sum

\* All the bitcoins there are fit a u64, and the exponents of an f32 are enough
\* for any amount of them.
ASSUME AmountConstants ==
    /\ Btc \in Nat \ {0} /\ Round(Btc, 1) = <<Btc, 1>>
    /\ Word \in Nat \ {0}
    /\ Amounts \subseteq 0..(Word - 1)
    /\ \A list \in OutputLists : list \in Seq(Nat) /\ Funds(list)[Len(list)] < Word
    /\ \A a \in Amounts : LET x == Round(a, Btc)
                          IN  InRange(a, Btc) /\ InRange(x[1] * Btc, x[2])
    /\ Widths \subseteq 1..Width

VARIABLES
    outputs,    \* list_unspent
    asked,      \* the amount on the command line, in units
    pushed,     \* how many outputs `selected` has
    remaining,  \* what the loop still wants, an i64
    total,      \* total_selected
    change,     \* the value of the change output
    signed,     \* how many inputs have their witness
    step        \* where the call is

amountVars == <<outputs, asked, pushed, remaining, total, change, signed, step>>

\* clap parses the amount into the nearest f32.
amount_btc == Round(asked, Btc)

\* Mutant: the fraction is dropped before the multiplication, as in select_tx_in.
CastFirst == Truncate(amount_btc) * Btc

\* `(amount_btc * 100_000_000 as f32) as u64`: a product of floats, truncated.
amount_satoshi == Truncate(Times(amount_btc, Btc))

\* `amount_btc as i64 * 100_000_000`: the cast binds first and drops the fraction.
WholeBitcoins == Truncate(amount_btc) * Btc

\* Mutants: the loop stops when what is missing is less than a bitcoin; the loop
\* never stops before the end of the list.
NearlyEnough(left) == left < Btc
NeverEnough(left) == FALSE

Enough(left) == left < 0

\* Mutant: the subtraction is one of integers.
PlainSub(x, y) == x - y

\* Subtraction of u64, as a release build does it.
WrappingSub(x, y) == (x - y) % Word

Init ==
    /\ outputs \in OutputLists
    /\ asked \in Amounts
    /\ pushed = 0
    /\ remaining = WholeBitcoins
    /\ total = 0
    /\ change = 0
    /\ signed = 0
    /\ step = "select"

\* One turn of the loop: the next output is taken, and the loop is left once
\* more than what was wanted is there.
Push ==
    /\ step = "select" /\ pushed < Len(outputs)
    /\ pushed' = pushed + 1
    /\ remaining' = remaining - outputs[pushed + 1]
    /\ total' = total + outputs[pushed + 1]
    /\ step' = IF Enough(remaining') THEN "selected" ELSE "select"
    /\ UNCHANGED <<outputs, asked, change, signed>>

\* The list is at its end: what was taken is returned, enough or not.
Exhausted ==
    /\ step = "select" /\ pushed = Len(outputs)
    /\ step' = "selected"
    /\ UNCHANGED <<outputs, asked, pushed, remaining, total, change, signed>>

\* Nothing selected: "Insufficient funds", and exit.
InsufficientFunds ==
    /\ step = "selected" /\ pushed = 0
    /\ step' = "insufficient"
    /\ UNCHANGED <<outputs, asked, pushed, remaining, total, change, signed>>

\* `total_selected - amount_satoshi` on u64: a build with overflow checks panics
\* when it does not fit, a release build wraps around.
MakeOutputs ==
    /\ step = "selected" /\ pushed > 0
    /\ \/ /\ change' = WrappingSub(total, amount_satoshi)
          /\ step' = "built"
       \/ /\ total < amount_satoshi
          /\ step' = "panic"
          /\ UNCHANGED change
    /\ UNCHANGED <<outputs, asked, pushed, remaining, total, signed>>

\* r and s are written without their leading zeros and put one after the other;
\* `from_compact` takes exactly two scalars, and its error is unwrapped.
SignInput ==
    /\ step = "built" /\ signed < pushed
    /\ \E r, s \in Widths :
          IF r + s = 2 * Width
          THEN signed' = signed + 1 /\ UNCHANGED step
          ELSE step' = "bad_signature" /\ UNCHANGED signed
    /\ UNCHANGED <<outputs, asked, pushed, remaining, total, change>>

Next == Push \/ Exhausted \/ InsufficientFunds \/ MakeOutputs \/ SignInput

Spec == Init /\ [][Next]_amountVars

-----------------------------------------------------------------------------
(* Properties. *)

AmountsTypeOK ==
    /\ outputs \in OutputLists /\ asked \in Amounts
    /\ pushed \in 0..Len(outputs) /\ signed \in 0..pushed
    /\ remaining \in Int /\ total \in Nat /\ change \in 0..(Word - 1)
    /\ step \in {"select", "selected", "insufficient", "built", "panic", "bad_signature"}

\* The wallet has enough for the request.
Covered == Funds(outputs)[Len(outputs)] >= asked

\* The float holds what was asked for.
Exact == amount_satoshi = asked

Balanced == step = "built" => amount_satoshi + change = total

\* A whole number of bitcoins the wallet can pay, and a float can hold, is paid:
\* the selection reaches the amount, and the change is what is left of the inputs.
WholeAmountsArePaid ==
    asked % Btc = 0 /\ Exact /\ Covered /\ outputs # << >> =>
        Balanced /\ step \notin {"panic", "insufficient"}

\* The selection never goes on once it has more than what was asked for, up to
\* the rounding of an amount that exceeds the significand: the loop compares with
\* the whole bitcoins of a float, which may be more than the user asked for (65
\* bitcoins for 64.99999744).
NoNeedlessInput ==
    step = "built" =>
        LET before == Funds(outputs)[pushed - 1]
        IN  IF asked <= Pow2[Precision] THEN before <= asked
            ELSE before * (Pow2[Precision] + 1) <= asked * (Pow2[Precision] + 2)

\* The way through two roundings and a truncation costs the recipient (or the
\* sender) at most one unit while amounts fit the significand, and two parts in
\* 2^Precision, one for each rounding, beyond it.
RoundingIsSmall ==
    LET off == IF asked > amount_satoshi THEN asked - amount_satoshi
                                         ELSE amount_satoshi - asked
    IN  IF asked <= Pow2[Precision] THEN off <= 1
        ELSE off * Pow2[Precision] <= 2 * asked + Pow2[Precision]

\* `total_selected - amount_satoshi` fits: the change and the amount make up the
\* inputs, and what the selection does not cover ended in "Insufficient funds".
NeverUnderflows == Balanced /\ step # "panic"

\* Whatever r and s are, the signature of an input gets into its witness, as it
\* does in the integration test, which pads both to 32 bytes.
EverySignatureParses == step # "bad_signature"
=============================================================================
