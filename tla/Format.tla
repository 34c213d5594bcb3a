------------------------------- MODULE Format -------------------------------
(***************************************************************************)
(* The numbers of the output screens: format_u64, format_value and itoa of *)
(* src/common/format.c, and the amount line of prepare_display_output in   *)
(* src/ui/display.c.  A text is the sequence of its characters, without    *)
(* the closing zero byte.                                                  *)
(*                                                                         *)
(* A uint64_t is the sequence of its decimal digits, the units first, so   *)
(* that value % 10 is its head and value / 10 its tail: TLC's own integers *)
(* end at 2^31.                                                            *)
(***************************************************************************)
EXTENDS Integers, Sequences, SequencesExt

DigitChars == <<"0", "1", "2", "3", "4", "5", "6", "7", "8", "9">>
Char(digit) == DigitChars[digit + 1]

Numeral(value) == value # <<>> /\ (Len(value) > 1 => value[Len(value)] # 0)

\* value / 100 and value % 100
Hundreds(value) == IF Len(value) > 2 THEN SubSeq(value, 3, Len(value)) ELSE <<0>>
Cents(value) == value[1] + (IF Len(value) > 1 THEN 10 * value[2] ELSE 0)

\* format_u64 collects the digits from the units up and then turns them round.
FormatU64(value) == Reverse([i \in DOMAIN value |-> Char(value[i])])

\* itoa with base 10, for a value that is not negative.
Itoa[value \in Nat] ==
    IF value < 10 THEN <<Char(value)>>
    ELSE Append(Itoa[value \div 10], Char(value % 10))

-----------------------------------------------------------------------------
\* `c' before the first of len digits: a comma follows a digit at which it is 1.
CommaPhase_Plain(len) == len % 3
CommaPhase(len) == 2 - (len % 3)

\* One turn of the loop: a digit, and perhaps a comma.
Placed(at, digit) ==
    [out |-> at.out \o (IF at.c = 1 THEN <<digit, ",">> ELSE <<digit>>),
     c |-> (at.c + 1) % 3]

\* The text and `c' after the first n digits.
Placing(digits) ==
    LET at[n \in 0 .. Len(digits)] ==
            IF n = 0 THEN [out |-> <<>>, c |-> CommaPhase(Len(digits))]
            ELSE Placed(at[n - 1], digits[n])
    IN  at

Grouped(digits) == Placing(digits)[Len(digits)].out

\* The comma behind the last digit is cut off again.
WholePart_CommaKept(value) == Grouped(FormatU64(Hundreds(value)))
WholePart(value) == Front(Grouped(FormatU64(Hundreds(value))))

FormatValue(value) ==
    LET cents == Cents(value)
    IN  WholePart(value) \o <<".">>
            \o (IF cents < 10 THEN <<"0">> ELSE <<>>) \o Itoa[cents]

\* g_amount, for a symbol that is a sequence of characters.
AmountLine(symbol, value) == symbol \o <<" ">> \o FormatValue(value)

=============================================================================
