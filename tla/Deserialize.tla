---------------------------- MODULE Deserialize ----------------------------
(***************************************************************************)
(* parse_output of src/transaction/deserialize.c on real bytes: value,     *)
(* token_data, script length and a P2PKH script, read from the front of    *)
(* what has arrived of the transaction.                                    *)
(*                                                                         *)
(* A byte is a number below ByteBase, and the public key hash has HashLen  *)
(* bytes, so that TLC can enumerate outputs; 256 and 20 are the program's. *)
(***************************************************************************)
EXTENDS Integers, Sequences, Buffers

CONSTANTS
    ByteBase,       \* 256, an even number
    HashLen,        \* PUBKEY_HASH_LEN
    OpcodesBefore,  \* the bytes of a script in front of the hash
    OpcodesAfter    \* and behind it

\* 25 for a hash of 20 bytes
ScriptLen == Len(OpcodesBefore) + HashLen + Len(OpcodesAfter)

\* What the decoder is told about the bytes it has: more are needed, they are
\* refused, or an output of so many bytes was read.
Incomplete == [status |-> "READY"]
RefusedOutput == [status |-> "ERR"]

\* The n bytes behind the offset.
Slice(in, offset, n) == SubSeq(in, offset + 1, offset + n)

\* 2^16, 2^32 and 2^64
Range16 == ByteBase * ByteBase
Range32 == Range16 * Range16
Range64 == Range32 * Range32

\* read_u16_be, read_u32_be and read_u64_be
ReadU16(in, offset) == in[offset + 1] * ByteBase + in[offset + 2]
ReadU32(in, offset) == ReadU16(in, offset) * Range16 + ReadU16(in, offset + 2)
ReadU64(in, offset) == ReadU32(in, offset) * Range32 + ReadU32(in, offset + 4)

-----------------------------------------------------------------------------
\* The first bit says that the value has 8 bytes.  Without any byte the code
\* looks at a stale one, and needs more bytes whatever it is.
Wide(in) == in # <<>> /\ in[1] >= ByteBase \div 2

ValueLen(in) == IF Wide(in) THEN 8 ELSE 4

\* parse_output_value once its bytes are there: a value of 8 bytes comes
\* negated, in the arithmetic of uint64_t.
OutputValue_NotNegated(in) == IF Wide(in) THEN ReadU64(in, 0) ELSE ReadU32(in, 0)
OutputValue(in) ==
    IF Wide(in) THEN (Range64 - ReadU64(in, 0)) % Range64 ELSE ReadU32(in, 0)

\* validate_p2pkh_script: what it throws, "OK" for nothing.
ValidateScript_ShortIsError(in, b, script_len) ==
    IF script_len # ScriptLen \/ ~CanRead(b, ScriptLen) THEN "ERR" ELSE "OK"
ValidateScript(in, b, script_len) ==
    IF script_len # ScriptLen THEN "ERR"
    ELSE IF ~CanRead(b, ScriptLen) THEN "READY"
    ELSE IF /\ Slice(in, b.offset, Len(OpcodesBefore)) = OpcodesBefore
            /\ Slice(in, b.offset + Len(OpcodesBefore) + HashLen, Len(OpcodesAfter))
                   = OpcodesAfter
         THEN "OK" ELSE "ERR"

ParseOutput(in) ==
    LET value == ReadUInt(Opened(Len(in)), ValueLen(in))
        token == ReadUInt(value.buffer, 1)
        length == ReadUInt(token.buffer, 2)
        at == value.buffer.offset
        b == length.buffer
        script_len == ReadU16(in, at + 1)
    IN  IF ~(value.ok /\ token.ok /\ length.ok) THEN Incomplete
        ELSE CASE ValidateScript(in, b, script_len) = "READY" -> Incomplete
               [] ValidateScript(in, b, script_len) = "ERR" -> RefusedOutput
               [] OTHER ->
                    [status |-> "OK",
                     value |-> OutputValue(in),
                     token_data |-> in[at + 1],
                     pubkey_hash |-> Slice(in, b.offset + Len(OpcodesBefore), HashLen),
                     length |-> SeekCur(b, script_len).buffer.offset]

=============================================================================
