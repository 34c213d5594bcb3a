----------------------------- MODULE TokenText -----------------------------
(***************************************************************************)
(* A token as the host sends it, and what the user reads of it: parse_token *)
(* and is_printable of src/token/token_parser.c, the texts of              *)
(* ui_display_sign_token_data with format_hex of src/common/format.c, and  *)
(* the symbol of the amount line in src/ui/display.c.                      *)
(*                                                                         *)
(* A byte is a small number: 0 is the zero byte, the bytes of Printable can *)
(* be shown, and every byte is a length as well.                           *)
(***************************************************************************)
EXTENDS Integers, Sequences, FiniteSetsExt, SequencesExt, Buffers

CONSTANTS
    Printable,      \* 0x20 .. 0x7f
    UidLen,         \* TOKEN_UID_LEN
    MaxSymbolLen,   \* MAX_TOKEN_SYMBOL_LEN
    MaxNameLen,     \* MAX_TOKEN_NAME_LEN
    NibbleBase      \* 16: a byte is two digits of this base

\* The characters in front of the first zero byte, if there is one: what an
\* array of characters holds as a C string.
Text(str) ==
    LET zero == SelectInSeq(str, LAMBDA c : c = 0)
    IN  IF zero = 0 THEN str ELSE SubSeq(str, 1, zero - 1)

\* What lies behind a zero byte is not looked at.
IsPrintable_FirstOnly(str) == str # <<>> => str[1] \in Printable \union {0}
IsPrintable(str) == ToSet(Text(str)) \subseteq Printable

\* A field of n bytes behind b, and the byte that announces its length.
Field(in, b, n) == SubSeq(in, b.offset + 1, b.offset + n)
LengthByte(in, b) == IF CanRead(b, 1) THEN in[b.offset + 1] ELSE 0

\* parse_token: the buffer_t behind the reads of each field, and the token.
ParseToken(in) ==
    LET version == ReadUInt(Opened(Len(in)), 1)
        uid == ReadBytes(version.buffer, UidLen, UidLen)
        symbol_len == ReadUInt(uid.buffer, 1)
        n == LengthByte(in, uid.buffer)
        symbol == ReadBytes(symbol_len.buffer, MaxSymbolLen, n)
        name_len == ReadUInt(symbol.buffer, 1)
        m == LengthByte(in, symbol.buffer)
        name == ReadBytes(name_len.buffer, MaxNameLen, m)
        read == /\ version.ok /\ uid.ok /\ symbol_len.ok
                /\ symbol.ok /\ name_len.ok /\ name.ok
        token == [version |-> in[1],
                  uid |-> Field(in, version.buffer, UidLen),
                  symbol |-> Field(in, symbol_len.buffer, n),
                  name |-> Field(in, name_len.buffer, m)]
    IN  IF read /\ IsPrintable(token.symbol) /\ IsPrintable(token.name)
        THEN [ok |-> TRUE, token |-> token, taken |-> name.buffer.offset]
        ELSE [ok |-> FALSE]

\* The screens of SIGN_TOKEN_DATA, and the registry's symbol, copied with a
\* closing zero byte and cut at the first one when the amount line is built.
ShownSymbol(token) == Text(token.symbol \o <<0>>)
ShownName(token) == Text(token.name \o <<0>>)
AmountSymbol(token) ==
    LET stored == Text(token.symbol \o <<0>>)
    IN  SubSeq(stored, 1, Min({Len(stored), MaxSymbolLen}))

\* format_hex, of the uid: two digits for each byte, the high one first, and
\* nothing at all if they do not fit in front of a zero byte.
FormatHex(in, out_len) ==
    IF out_len < 2 * Len(in) + 1 THEN <<>>
    ELSE [i \in 1 .. 2 * Len(in) |->
              IF i % 2 = 1 THEN in[(i + 1) \div 2] \div NibbleBase
              ELSE in[i \div 2] % NibbleBase]

\* g_token_uid, an array of 1 + 2 * TOKEN_UID_LEN characters
ShownUid(token) == FormatHex(token.uid, 1 + 2 * UidLen)

=============================================================================
