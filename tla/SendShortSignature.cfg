SPECIFICATION Spec
CONSTANTS
    Btc = 10
    Word = 1024
    Precision = 4
    Exponents <- MCExponents
    Width = 32
    Widths = {31, 32}
    OutputLists <- MCOutputLists
    Amounts <- MCAmounts
CHECK_DEADLOCK FALSE
INVARIANT EverySignatureParses
