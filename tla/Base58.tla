------------------------------- MODULE Base58 -------------------------------
(***************************************************************************)
(* base58_encode and base58_decode of src/common/base58.c, with the loops  *)
(* as they run.  A text is the sequence of its characters' places in the   *)
(* alphabet, 0 .. 57; 58 stands for every character that is not in it.     *)
(*                                                                         *)
(* Arrays begin at 1 here, so an index is one more than the code's.        *)
(***************************************************************************)
EXTENDS Integers, Sequences

MaxEncInput == 120  \* MAX_ENC_INPUT_SIZE
MaxDecInput == 164  \* MAX_DEC_INPUT_SIZE
NotInAlphabet == 58

Failed == <<-1>>

\* The number of zeros that s begins with.
LeadingZeros(s) ==
    CHOOSE n \in 0 .. Len(s) :
        /\ \A i \in 1 .. n : s[i] = 0
        /\ n < Len(s) => s[n + 1] # 0

Zeros(n) == [i \in 1 .. n |-> 0]

\* s without its first n, and without the zeros that it begins with
Behind(s, n) == [i \in 1 .. Len(s) - n |-> s[n + i]]
Significant(s) == Behind(s, LeadingZeros(s))

-----------------------------------------------------------------------------
\* j <= stop_at - 1, whose right side wraps to the largest size_t where the
\* code's stop_at is 0 or has left the array.
Above_Always(j, stop_at) == TRUE
Above(j, stop_at) == stop_at <= 1 \/ j < stop_at

\* One digit of the number in base 58: 256 times it and what is carried.  The
\* loop ends when nothing is carried beyond the digits that the last byte reached.
AddDigit(at, j, stop_at) ==
    LET sum == at.carry + 256 * at.buffer[j]
        done == Above(j, stop_at) /\ sum \div 58 = 0
    IN  IF at.done THEN at
        ELSE [buffer |-> [at.buffer EXCEPT ![j] = sum % 58],
              carry |-> sum \div 58,
              stop_at |-> IF done THEN j ELSE 0,
              done |-> done]

\* After each digit, from the last to the first, when a byte is added.
Adding(buffer, stop_at, byte) ==
    LET n == Len(buffer)
        at[k \in 0 .. n] ==
            IF k = 0
            THEN [buffer |-> buffer, carry |-> byte, stop_at |-> 0, done |-> FALSE]
            ELSE AddDigit(at[k - 1], n + 1 - k, stop_at)
    IN  at

AddByte(acc, byte) ==
    LET at == Adding(acc.buffer, acc.stop_at, byte)[Len(acc.buffer)]
    IN  [buffer |-> at.buffer, stop_at |-> at.stop_at]

\* After each byte.
Encoding(bytes, output_size) ==
    LET acc[k \in 0 .. Len(bytes)] ==
            IF k = 0 THEN [buffer |-> Zeros(output_size), stop_at |-> output_size]
            ELSE AddByte(acc[k - 1], bytes[k])
    IN  acc

OutputSize(n) == (n * 138) \div 100 + 1

Encode(in, out_len) ==
    LET zero_count == LeadingZeros(in)
        bytes == Significant(in)
        digits == Significant(Encoding(bytes, OutputSize(Len(bytes)))[Len(bytes)].buffer)
    IN  IF Len(in) > MaxEncInput \/ out_len < zero_count + Len(digits)
        THEN Failed
        ELSE Zeros(zero_count) \o digits

-----------------------------------------------------------------------------
\* One digit of a division by 256.
DivideDigit(at, i) ==
    LET div == at.remainder * 58 + at.tmp[i]
    IN  [tmp |-> [at.tmp EXCEPT ![i] = (div \div 256) % 256], remainder |-> div % 256]

\* After each digit, from start_at on.
Dividing(tmp, start_at) ==
    LET at[k \in 0 .. Len(tmp) + 1 - start_at] ==
            IF k = 0 THEN [tmp |-> tmp, remainder |-> 0]
            ELSE DivideDigit(at[k - 1], start_at + k - 1)
    IN  at

Divided(tmp, start_at) == Dividing(tmp, start_at)[Len(tmp) + 1 - start_at]

\* A remainder fills the buffer from its end.
NextRemainder(at) ==
    LET pass == Divided(at.tmp, at.start_at)
    IN  IF at.start_at > Len(at.tmp) THEN at
        ELSE [tmp |-> pass.tmp,
              start_at |-> at.start_at + (IF pass.tmp[at.start_at] = 0 THEN 1 ELSE 0),
              buffer |-> [at.buffer EXCEPT ![at.j - 1] = pass.remainder],
              j |-> at.j - 1]

\* After each pass; the remainders are at j and behind it.
Remainders(text, start_at) ==
    LET at[k \in 0 .. Len(text)] ==
            IF k = 0
            THEN [tmp |-> text, start_at |-> start_at,
                  buffer |-> Zeros(Len(text)), j |-> Len(text) + 1]
            ELSE NextRemainder(at[k - 1])
    IN  at

Decode(text, out_len) ==
    LET zero_count == LeadingZeros(text)
        all == Remainders(text, zero_count + 1)[Len(text)]
        j == all.j + LeadingZeros(Behind(all.buffer, all.j - 1))
        out == Behind(all.buffer, j - zero_count - 1)
    IN  IF \/ Len(text) > MaxDecInput
           \/ Len(text) < 2
           \/ \E i \in DOMAIN text : text[i] = NotInAlphabet
           \/ out_len < Len(out)
        THEN Failed
        ELSE out

=============================================================================
