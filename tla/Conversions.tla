---------------------------- MODULE Conversions ----------------------------
(***************************************************************************)
(* The pure functions of the application against what they promise.  A     *)
(* behaviour picks the kind of its input and lets it grow piece by piece:  *)
(* the bytes of an output as they arrive, the digits of a value, the       *)
(* components of a path, the change indices of a transaction.  Every state *)
(* is one input, so an invariant says what a function returns for all the  *)
(* inputs there are, and what one piece more changes.                      *)
(***************************************************************************)
EXTENDS Integers, Sequences, FiniteSets, SequencesExt

CONSTANTS
    SizeMod,        \* 2^32, the range of size_t
    Modulus,        \* 2^8, the range of the counters and change indices
    ByteBase,       \* 2^8, the range of a byte of an output
    HashLen,        \* PUBKEY_HASH_LEN
    OpcodesBefore,  \* the bytes of a script in front of the hash
    OpcodesAfter,   \* and behind it
    Printable,      \* the characters that a token may hold
    UidLen,         \* TOKEN_UID_LEN
    MaxSymbolLen,   \* MAX_TOKEN_SYMBOL_LEN, of a token's bytes
    MaxNameLen,     \* MAX_TOKEN_NAME_LEN
    NibbleBase,     \* 16, two of whose digits make a byte of a token
    MaxFreeDigits,  \* bound: the digits of a value beyond these repeat
    MaxBytes,       \* bound: most bytes that are put in base 58
    MaxComponents,  \* bound: most components of a path
    MaxChange       \* bound: most change outputs

VARIABLES kind, input

vars == <<kind, input>>

Kinds == {"buffer", "output", "value", "bytes", "path", "change", "token"}

\* The external derivation: two paths that differ in the last bit lead to two
\* points with the same x, and only paths of a hardened purpose to any.
PointOf(path) ==
    IF path = <<>> THEN [x |-> path, odd |-> FALSE]
    ELSE [x |-> [path EXCEPT ![Len(path)].index = @ \div 2],
          odd |-> Last(path).index % 2 = 1]
Derivable(path) == path # <<>> /\ path[1].hardened

Sizes == INSTANCE Buffers
Outputs == INSTANCE Deserialize
Amounts == INSTANCE Format
Addresses == INSTANCE Base58
Paths == INSTANCE Bip32
Order == INSTANCE OutputOrder
Tokens == INSTANCE TokenText
Keys == INSTANCE Keys

\* SIGN_TX with these change indices, n outputs, and k of them decoded.
Signing(list, n, k) ==
    INSTANCE SignTx WITH
        BufferSlots <- Modulus, MaxTokens <- 0, MaxInputs <- 0, MaxChunk <- 0,
        state <- "RECV_DATA", change <- ToSet(list), change_len <- Len(list),
        remaining_tokens <- 0,
        remaining_inputs <- 0, outputs_len <- n, current_output <- k,
        outputs <- [i \in 1 .. k |-> i], stale <- <<>>, display_index <- 0,
        confirmed_outputs <- 0, left <- 0, partial <- FALSE,
        sighash <- [runs |-> 0, zero |-> TRUE], pc <- "user", screen <- "output",
        reply <- "none", reviewed <- {}

ASSUME SizeAssumption == SizeMod \in Nat /\ SizeMod > 1

\* The longest inputs of their kinds.
LongestOutput == 8 + 3 + Outputs!ScriptLen + 1
LongestToken == 3 + UidLen + MaxSymbolLen + MaxNameLen

ASSUME OutputAssumption ==
    /\ ByteBase \in Nat \ {0} /\ ByteBase % 2 = 0
    /\ HashLen \in Nat
    /\ OpcodesBefore \in Seq(0 .. ByteBase - 1)
    /\ OpcodesAfter \in Seq(0 .. ByteBase - 1)
    /\ LongestOutput < SizeMod
ASSUME TokenAssumption ==
    /\ UidLen \in Nat /\ MaxSymbolLen \in Nat /\ MaxNameLen \in Nat
    /\ LongestToken < SizeMod
    /\ Printable \subseteq Nat \ {0}
    /\ NibbleBase \in Nat \ {0}
ASSUME ModulusAssumption == Modulus \in Nat /\ Modulus > 1
ASSUME BoundsAssumption ==
    MaxFreeDigits \in Nat \ {0} /\ MaxBytes \in 0 .. Addresses!MaxEncInput

-----------------------------------------------------------------------------
(* Inputs, piece by piece. *)

Grow(pieces, limit) ==
    /\ Len(input) < limit
    /\ \E piece \in pieces : input' = Append(input, piece)
    /\ UNCHANGED kind

\* A size, an offset and a number of bytes.
BufferGrows == kind = "buffer" /\ Grow(Sizes!SizeT, 3)

\* The next byte of an output: all there are in the first half of the value and
\* the length of the script, elsewhere those that can make a difference; behind
\* bytes that were refused, one that should make none.
NextBytes ==
    LET head == Outputs!ValueLen(input) + 3
        place == Len(input) + 1
        script == OpcodesBefore \o [i \in 1 .. HashLen |-> 0] \o OpcodesAfter
        fitting == IF place - head \in DOMAIN script THEN script[place - head] ELSE 0
    IN  IF Outputs!ParseOutput(input).status = "ERR" THEN {fitting}
        ELSE IF place <= 4 \/ place \in {head - 1, head} THEN 0 .. ByteBase - 1
        ELSE {fitting, ByteBase - 1}

OutputGrows ==
    /\ kind = "output"
    /\ Grow(NextBytes, LongestOutput)

\* A digit in front of the value, up to the 19 digits of 2^63.
ValueGrows ==
    /\ kind = "value"
    /\ Grow(IF Len(input) < MaxFreeDigits THEN {0, 1, 9} ELSE {Last(input)}, 19)

\* Bytes for base 58, or the version, hash and checksum of an address, which
\* begins with a number that no other input begins with.
BytesGrow ==
    /\ kind = "bytes"
    /\ IF input # <<>> /\ input[1] = Keys!VersionByte
       THEN Grow(IF Len(input) = 1 THEN {0, 57, 58, 255} ELSE {Last(input)}, 25)
       ELSE Grow({0, 1, 57, 58, 255}
                     \union (IF input = <<>> THEN {Keys!VersionByte} ELSE {}),
                 MaxBytes)

LastIndex == 32767 * 65536 + 65535      \* 2^31 - 1

PathGrows ==
    /\ kind = "path"
    /\ Grow([hardened : BOOLEAN, index : {0, LastIndex}]
                \union [hardened : {FALSE},
                        index : {1, 2, Paths!MaxDerivationIndex,
                                 Paths!MaxDerivationIndex + 1}],
            MaxComponents)

ChangeGrows == kind = "change" /\ Grow(0 .. Modulus - 1, MaxChange)

\* A token: the version makes no difference.
TokenGrows ==
    /\ kind = "token"
    /\ Grow(IF input = <<>> THEN {2} ELSE 0 .. NibbleBase ^ 2 - 1, LongestToken)

Init == kind \in Kinds /\ input = <<>>

Next ==
    \/ BufferGrows \/ OutputGrows \/ ValueGrows \/ BytesGrow
    \/ PathGrows \/ ChangeGrows \/ TokenGrows

Spec == Init /\ [][Next]_vars

-----------------------------------------------------------------------------
(* The inputs there are. *)

Digit == 0 .. 9
Byte == 0 .. ByteBase - 1
Component == [hardened : BOOLEAN, index : 0 .. LastIndex]

InputOK ==
    /\ kind \in Kinds
    /\ kind = "buffer" => input \in Seq(Sizes!SizeT)
    /\ kind = "output" => input \in Seq(Byte) /\ Len(input) <= LongestOutput
    /\ kind = "value" => input \in Seq(Digit) /\ Len(input) <= 19
    /\ kind = "bytes" => input \in Seq(0 .. 255) /\ Len(input) <= Addresses!MaxEncInput
    /\ kind = "path" => input \in Seq(Component)
    /\ kind = "change" => input \in Seq(0 .. Modulus - 1)
    /\ kind = "token" => input \in Seq(Nat) /\ Len(input) <= LongestToken

-----------------------------------------------------------------------------
(* Properties. *)

\* buffer_seek_cur and the buffer_read_* take exactly the bytes they were asked for or
\* leave the buffer alone, for every size, offset and length up to the largest
\* size_t: the results of buffer_seek_cur that they ignore are never refusals.
ReadsTakeOrRefuse ==
    kind = "buffer" /\ Len(input) = 3 /\ input[2] <= input[1] =>
        LET b == [size |-> input[1], offset |-> input[2]]
            n == input[3]
        IN  /\ Sizes!TakesOrRefuses(b, n, Sizes!SeekCur(b, n))
            /\ Sizes!TakesOrRefuses(b, n, Sizes!ReadUInt(b, n))
            /\ \A out_len \in Sizes!SizeT :
                  Sizes!TakesOrRefuses(b, n, Sizes!ReadBytes(b, out_len, n))

\* The bytes of a number of 2, 4 and 8 bytes, most significant first.
Bytes16(n) == <<n \div ByteBase, n % ByteBase>>
Bytes32(n) == Bytes16(n \div Outputs!Range16) \o Bytes16(n % Outputs!Range16)
Bytes64(n) == Bytes32(n \div Outputs!Range32) \o Bytes32(n % Outputs!Range32)

\* An output as a wallet serialises it, with 8 bytes of value if `wide'.
Serialized(wide, output) ==
    (IF wide THEN Bytes64(Outputs!Range64 - output.value) ELSE Bytes32(output.value))
    \o <<output.token_data>>
    \o Bytes16(Outputs!ScriptLen)
    \o OpcodesBefore \o output.pubkey_hash \o OpcodesAfter

\* What parse_output makes of the bytes is the output whose serialisation they
\* are: the value, token and address put on the screen are those of the bytes
\* that are hashed.  No value is above 2^63.
ParsedIsSerialized ==
    kind = "output" =>
        LET output == Outputs!ParseOutput(input)
        IN  output.status = "OK" =>
                /\ Serialized(Outputs!Wide(input), output) = SubSeq(input, 1, output.length)
                /\ output.value \in 0 .. Outputs!Range64 \div 2

\* Where a chunk ends changes nothing: once parse_output has read or refused an
\* output, it does the same with one more byte behind it, and until then it asks
\* for more.
MoreBytesAgree ==
    kind = "output" /\ input # <<>> =>
        LET before == Outputs!ParseOutput(Front(input))
        IN  before.status # "READY" => Outputs!ParseOutput(input) = before

\* The place of digit k of a text, both counted from the right: two digits behind
\* the point, and the others in groups of three.
PlaceOfDigit(k) == IF k <= 2 THEN k ELSE 1 + k + (k - 3) \div 3

\* format_value writes the digits of the value, two of them behind a point and
\* the others in groups of three: at least one, nothing lost and nothing added.
AmountIsDecimal ==
    kind = "value" /\ Amounts!Numeral(input) =>
        LET text == Amounts!FormatValue(input)
            FromRight(place) == text[Len(text) + 1 - place]
            digits == IF Len(input) < 3 THEN 3 ELSE Len(input)
        IN  /\ Len(text) = PlaceOfDigit(digits)
            /\ \A k \in 1 .. digits :
                  FromRight(PlaceOfDigit(k))
                      = Amounts!Char(IF k <= Len(input) THEN input[k] ELSE 0)
            /\ FromRight(3) = "."
            /\ \A place \in 4 .. Len(text) : place % 4 = 3 => FromRight(place) = ","

AmountSize == 30            \* sizeof(g_amount)
LongestSymbol == 5          \* MAX_TOKEN_SYMBOL_LEN

\* The digits of the largest values whose line fits beside a symbol of n
\* characters: all there are for HTR.
DigitsBeside(n) == CASE n = 5 -> 17 [] n = 4 -> 18 [] OTHER -> 19

\* The amount line and its zero byte fit in g_amount[30] for every value of HTR
\* and of a token with a symbol that short; with 4 and 5 characters they fit
\* exactly for the values of at most 18 and 17 digits.
AmountFitsLine ==
    kind = "value" /\ Amounts!Numeral(input) =>
        \A n \in 1 .. LongestSymbol :
            Len(Amounts!AmountLine([i \in 1 .. n |-> "T"], input)) + 1 <= AmountSize
                <=> Len(input) <= DigitsBeside(n)

\* The number that the digits denote, the most significant first.
Denotes(digits, base) ==
    LET number[k \in 0 .. Len(digits)] ==
            IF k = 0 THEN 0 ELSE number[k - 1] * base + digits[k]
    IN  number[Len(digits)]

\* base58_encode writes the number that the bytes are, with one '1' for every
\* leading zero byte; base58_decode reads it back; and the text of an address
\* has 34 characters, one less than g_address[35].  (The numbers are compared
\* where TLC's integers reach.)
AddressTextExact ==
    kind = "bytes" =>
        LET text == Addresses!Encode(input, 2 * Len(input))
        IN  /\ Addresses!LeadingZeros(text) = Addresses!LeadingZeros(input)
            /\ Len(input) <= 3 => Denotes(text, 58) = Denotes(input, 256)
            /\ Len(text) >= 2 => Addresses!Decode(text, Len(input)) = input
            /\ Len(input) = 25 /\ input[1] = Keys!VersionByte => Len(text) = 34

\* The text of the first n components of a path.
PathText(path) ==
    LET text[n \in 0 .. Len(path)] ==
            IF n = 0 THEN <<>>
            ELSE text[n - 1] \o Paths!Number(path, n) \o Paths!Mark(path, n)
                     \o Paths!Slash(path, n)
    IN  text

\* A path that bip32_path_read accepts is shown whole: bip32_path_format, which
\* cannot tell a text that was cut off from one that fits, never cuts it off in
\* g_bip32_path[60].  Only the empty path has no text.
PathShownWhole ==
    kind = "path" =>
        \A in_len \in 0 .. 4 * Len(input) + 2 :
            Paths!PathRead(input, in_len) =>
                Paths!PathFormat(input, Paths!PathTextSize) =
                    [ok |-> input # <<>>, text |-> PathText(input)[Len(input)]]

\* The walk of skip_change_outputs over the sorted list, in whatever order and
\* however often the host named the indices, skips exactly the outputs that
\* SignTx!Skips says for the set of them, and stops where that does.
WalkIsSkips ==
    kind = "change" =>
        \A c, d, n, k \in 0 .. Modulus - 1 :
            LET walk == Order!Walk(input, c, d, n, k)
            IN  \E m \in 0 .. Len(input) :
                    /\ Signing(input, n, k)!Skips(c, d, m)
                    /\ walk.c = (c + m) % Modulus
                    /\ walk.d = (d + m) % Modulus
                    /\ walk.stopped
                         <=> m > 0 /\ Signing(input, n, k)!Stops(walk.c, walk.d)

\* The total on the screen is the number of outputs that are shown exactly if every
\* change index names an output of its own, which no code checks; and then these
\* are numbered from 1 to the total, in their order.  (change_len is a uint8_t.)
OutputsNumbered ==
    kind = "change" /\ Len(input) < Modulus =>
        \A outputs_len \in 0 .. Modulus - 1 :
            LET shown == (0 .. outputs_len - 1) \ ToSet(input)
                each_its_own ==
                    IsInjective(input) /\ ToSet(input) \subseteq 0 .. outputs_len - 1
            IN  /\ Order!Total(input, outputs_len) = Cardinality(shown) <=> each_its_own
                /\ each_its_own =>
                      \A index \in shown :
                          Order!Number(input, index)
                              = Cardinality({i \in shown : i <= index})

\* A token that parse_token accepts has a symbol and a name that fit, and what
\* the user reads of them is printable and the beginning of what is signed, all
\* of it unless there is a zero byte; the uid is shown in full.  The symbol beside
\* an amount is the one the user read when the token was signed, and the
\* signature is looked for right behind the name.
TokenShownIsSigned ==
    kind = "token" =>
        LET parsed == Tokens!ParseToken(input)
            token == parsed.token
            Faithful(shown, signed) ==
                /\ IsPrefix(shown, signed)
                /\ ToSet(shown) \subseteq Printable
                /\ 0 \notin ToSet(signed) => shown = signed
        IN  parsed.ok =>
                /\ Len(token.symbol) <= MaxSymbolLen
                /\ Len(token.name) <= MaxNameLen
                /\ Faithful(Tokens!ShownSymbol(token), token.symbol)
                /\ Faithful(Tokens!ShownName(token), token.name)
                /\ Len(Tokens!ShownUid(token)) = 2 * UidLen
                /\ \A i \in 1 .. UidLen :
                      Tokens!ShownUid(token)[2 * i - 1] * NibbleBase
                              + Tokens!ShownUid(token)[2 * i]
                          = token.uid[i]
                /\ Tokens!AmountSymbol(token) = Tokens!ShownSymbol(token)
                /\ parsed.taken = 3 + UidLen + Len(token.symbol) + Len(token.name)

\* The address of a key that GET_XPUB answers, as a wallet computes it.
WalletAddress(key) ==
    LET hash == [hash160 |-> <<IF key.point.odd THEN 3 ELSE 2, key.point.x>>]
    IN  [version |-> Keys!VersionByte,
         pubkey_hash |-> hash,
         checksum |-> [sha256d |-> <<Keys!VersionByte, hash>>]]

\* An output passes for change only if GET_ADDRESS would show, for the path the
\* host names, the very address that the screen of the output would; and that is
\* the address a wallet computes from the key that GET_XPUB answers for this path.
\* The fingerprint beside that key is the one of the key it would answer for the
\* parent path.  (The output pays to the key of this path, or to the one with the
\* same x.)
ChangeIsOwnAddress ==
    kind = "path" /\ input # <<>> =>
        LET other == [input EXCEPT ![Len(input)].index =
                          IF @ % 2 = 0 THEN @ + 1 ELSE @ - 1]
        IN  /\ Keys!ShownAddress(input) = WalletAddress(Keys!AnsweredKey(input))
            /\ Keys!Fingerprint(input)
                 = WalletAddress(Keys!AnsweredKey(Front(input))).pubkey_hash
            /\ \A owner \in {input, other} :
                  LET pubkey_hash == WalletAddress(Keys!PublicKey(owner)).pubkey_hash
                  IN  Keys!VerifyChange(input, pubkey_hash) <=>
                          /\ Derivable(input)
                          /\ Keys!ShownAddress(input) = Keys!OutputAddress(pubkey_hash)

=============================================================================
