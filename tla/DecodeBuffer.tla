---------------------------- MODULE DecodeBuffer ----------------------------
(***************************************************************************)
(* The bytes of a SIGN_TX transaction on their way through                 *)
(* tx_info.buffer[300]: what a chunk leaves behind the change information  *)
(* and the header is appended to what the last chunk left over, and the    *)
(* decoder takes tokens, inputs and outputs from the front until the       *)
(* buffer ends inside an element (src/handler/sign_tx.c and                *)
(* src/transaction/deserialize.c).                                         *)
(*                                                                         *)
(* SignTx counts elements; here every length is the real number of bytes,  *)
(* and the review of the decoded outputs is one step.  The content of the  *)
(* output the stream has next is chosen ahead (`next'), so that all the    *)
(* attempts at it, chunk after chunk, see the same bytes.                  *)
(***************************************************************************)
EXTENDS Integers, Buffers

CONSTANTS
    BufferSize,     \* 300, the length of tx_info.buffer
    Slots,          \* 10, the length of tx_info.outputs
    MaxChunk,       \* 255, the most data an APDU carries
    ChunkLengths,   \* lengths of the data of an APDU
    ChangeLengths,  \* lengths of what read_change_info reads
    MaxTokens,      \* bound: largest number of tokens a header announces
    MaxInputs,      \* bound: largest number of inputs a header announces
    MaxOutputs      \* bound: largest number of outputs a header announces

TokenLen == 32      \* TOKEN_UID_LEN
InputLen == 35      \* TX_INPUT_LEN
ScriptLen == 25     \* a P2PKH script
HeaderLen == 5      \* what read_tx_data reads
ShortOutput == 32   \* an output whose value has 4 bytes
LongOutput == 36    \* an output whose value has 8 bytes

ASSUME CountsAssumption ==
    /\ MaxTokens \in Nat
    /\ MaxInputs \in Nat
    /\ MaxOutputs \in Nat
    /\ Slots \in Nat
ASSUME ChunkAssumption ==
    /\ MaxChunk \in Nat
    /\ ChunkLengths \subseteq 1 .. MaxChunk
    /\ ChangeLengths \subseteq 1 .. SizeMod - 1
\* The rest of an element and a whole chunk behind it fit in the buffer.
ASSUME BufferAssumption ==
    /\ BufferSize \in Nat
    /\ MaxChunk + LongOutput <= BufferSize + 1
    /\ BufferSize < SizeMod

VARIABLES
    state,              \* G_context.state, "PARSED" for APPROVED as well
    pc,                 \* whose turn it is
    buffer_len,         \* bytes in tx_info.buffer
    remaining_tokens,
    remaining_inputs,
    outputs_len,
    current_output,
    buffer_output_len,  \* decoded outputs that wait for their review
    next,               \* the output that the stream has next
    undecoded           \* history: bytes hashed and not taken by the decoder

headerVars == <<remaining_tokens, remaining_inputs, outputs_len>>
outputVars == <<current_output, buffer_output_len, next>>
vars == <<state, pc, buffer_len, headerVars, outputVars, undecoded>>

\* The bytes of an output that its length depends on: the first bit of the
\* value, and whether the script length is 25.
OutputKinds == [wide : BOOLEAN, p2pkh : BOOLEAN]
NoOutput == [wide |-> FALSE, p2pkh |-> TRUE]

-----------------------------------------------------------------------------
(* parse_output on the first n bytes of an output o. *)

ValueLen(o) == IF o.wide THEN 8 ELSE 4
\* value, token_data and script length
PrefixLen(o) == ValueLen(o) + 3
OutputLen(o) == PrefixLen(o) + ScriptLen

\* "READY": more bytes are needed.  "ERR": refused for its script length, as
\* soon as that is there.  "OK": complete; the opcodes may still be wrong.
ParseOutput(n, o) ==
    IF n < PrefixLen(o) THEN "READY"
    ELSE IF ~o.p2pkh THEN "ERR"
    ELSE IF n < OutputLen(o) THEN "READY" ELSE "OK"

-----------------------------------------------------------------------------
(* What the decoder looks for next. *)

TokensTurn == remaining_tokens > 0
InputsTurn == remaining_tokens = 0 /\ remaining_inputs > 0
OutputsTurn ==
    /\ remaining_tokens = 0
    /\ remaining_inputs = 0
    /\ current_output < outputs_len
AllDecoded ==
    /\ remaining_tokens = 0
    /\ remaining_inputs = 0
    /\ current_output >= outputs_len

\* The buffer ends before the next element can be taken or refused.
HeadIncomplete ==
    \/ TokensTurn /\ buffer_len < TokenLen
    \/ InputsTurn /\ buffer_len < InputLen
    \/ OutputsTurn /\ ParseOutput(buffer_len, next) = "READY"

-----------------------------------------------------------------------------
(* Pieces the handlers share. *)

\* explicit_bzero(&G_context, sizeof(G_context))
ClearContext ==
    /\ state' = "NONE"
    /\ buffer_len' = 0
    /\ remaining_tokens' = 0
    /\ remaining_inputs' = 0
    /\ outputs_len' = 0
    /\ current_output' = 0
    /\ buffer_output_len' = 0
    /\ next' = NoOutput
    /\ undecoded' = 0

\* The start of handler_sign_tx, and the end of a review.
ResetDisplay_IndexOnly == UNCHANGED buffer_output_len
ResetDisplay == buffer_output_len' = 0

\* The chunk is copied behind the rest of the last one, or SW_WRONG_DATA_LENGTH
\* is thrown, when its bytes are in the hash already.
AppendChunk(chunk, len) ==
    IF Copy(chunk, BufferSize - len).ok
    THEN /\ buffer_len' = len + Remaining(chunk)
         /\ pc' = "decode"
    ELSE /\ buffer_len' = len
         /\ pc' = "host"

-----------------------------------------------------------------------------
(* Commands of the host. *)

\* Chunk 0: change information, header, and the first bytes of the elements.
FirstChunk ==
    /\ pc = "host"
    /\ state = "NONE"
    /\ state' = "RECV_DATA"
    /\ \E n \in ChunkLengths, info \in ChangeLengths :
          LET header == SeekCur(Opened(n), info)
              elements == ReadUInt(header.buffer, HeaderLen)
          IN  /\ header.ok
              /\ elements.ok
              /\ AppendChunk(elements.buffer, 0)
              /\ undecoded' = Remaining(elements.buffer)
    /\ remaining_tokens' \in 0 .. MaxTokens
    /\ remaining_inputs' \in 0 .. MaxInputs
    /\ outputs_len' \in 0 .. MaxOutputs
    /\ current_output' = 0
    /\ next' \in OutputKinds
    /\ ResetDisplay

\* Which counters a header of n bytes fills: two bytes of version come first,
\* and the number of outputs is its last byte.
OutputsRead_Unchecked(n) == 0 .. MaxOutputs
OutputsRead(n) == IF n >= 5 THEN 0 .. MaxOutputs ELSE {0}
TokensRead(n) == IF n >= 3 THEN 0 .. MaxTokens ELSE {0}
InputsRead(n) == IF n >= 4 THEN 0 .. MaxInputs ELSE {0}

\* Chunk 0 ends inside its header: the bytes are in the hash, none is in the
\* buffer, and RECV_DATA stays.
HeaderCut ==
    /\ pc = "host"
    /\ state = "NONE"
    /\ state' = "RECV_DATA"
    /\ \E n \in ChunkLengths, info \in ChangeLengths :
          LET header == SeekCur(Opened(n), info)
              bytes == Remaining(header.buffer)
          IN  /\ header.ok
              /\ ~CanRead(header.buffer, HeaderLen)
              /\ remaining_tokens' \in TokensRead(bytes)
              /\ remaining_inputs' \in InputsRead(bytes)
              /\ outputs_len' \in OutputsRead(bytes)
              /\ undecoded' = bytes
    /\ buffer_len' = 0
    /\ current_output' = 0
    /\ next' \in OutputKinds
    /\ ResetDisplay
    /\ UNCHANGED pc

\* Chunk 0 ends inside the change information, or that is refused, or what is
\* behind it cannot be hashed: no byte is in the hash, and RECV_DATA stays.
ChangeInfoFault ==
    /\ pc = "host"
    /\ state = "NONE"
    /\ state' = "RECV_DATA"
    /\ UNCHANGED <<pc, buffer_len, headerVars, outputVars, undecoded>>

NextChunk ==
    /\ pc = "host"
    /\ state = "RECV_DATA"
    /\ ResetDisplay
    /\ \E n \in ChunkLengths :
          /\ undecoded' = undecoded + n
          /\ AppendChunk(Opened(n), buffer_len)
    /\ UNCHANGED <<state, headerVars, current_output, next>>

\* A later chunk cannot be hashed: the error is thrown before the chunk is copied.
HashFails ==
    /\ pc = "host"
    /\ state = "RECV_DATA"
    /\ ResetDisplay
    /\ UNCHANGED <<state, pc, buffer_len, headerVars, current_output, next, undecoded>>

\* The stage SIGN, which reads none of this.
SignStage ==
    /\ pc = "host"
    /\ ResetDisplay
    /\ UNCHANGED <<state, pc, buffer_len, headerVars, current_output, next, undecoded>>

\* A second chunk 0, a later chunk out of turn, the stage DONE, another
\* command that erases the context, or a restart.
Forget ==
    /\ pc = "host"
    /\ ClearContext
    /\ UNCHANGED pc

-----------------------------------------------------------------------------
(* The decoder, one element per step. *)

\* len bytes leave the front of the buffer; the loop goes on while any is left.
Consume_OneElement(len) ==
    /\ buffer_len' = buffer_len - len
    /\ undecoded' = undecoded - len
    /\ pc' = "ready"
Consume(len) ==
    /\ buffer_len' = buffer_len - len
    /\ undecoded' = undecoded - len
    /\ pc' = IF buffer_len = len THEN "ready" ELSE "decode"

\* buffer_len < TOKEN_UID_LEN is not the case.
TokenComplete_OffByOne == buffer_len >= TokenLen - 1
TokenComplete == buffer_len >= TokenLen

DecodeToken ==
    /\ pc = "decode"
    /\ TokensTurn
    /\ TokenComplete
    /\ Consume(TokenLen)
    /\ remaining_tokens' = remaining_tokens - 1
    /\ UNCHANGED <<state, remaining_inputs, outputs_len, outputVars>>

DecodeInput ==
    /\ pc = "decode"
    /\ InputsTurn
    /\ buffer_len >= InputLen
    /\ Consume(InputLen)
    /\ remaining_inputs' = remaining_inputs - 1
    /\ UNCHANGED <<state, remaining_tokens, outputs_len, outputVars>>

DecodeOutput ==
    /\ pc = "decode"
    /\ OutputsTurn
    /\ ParseOutput(buffer_len, next) = "OK"
    /\ buffer_output_len < Slots
    /\ Consume(OutputLen(next))
    /\ current_output' = current_output + 1
    /\ buffer_output_len' = buffer_output_len + 1
    /\ next' \in OutputKinds
    /\ UNCHANGED <<state, headerVars>>

DecodeIncomplete ==
    /\ pc = "decode"
    /\ HeadIncomplete
    /\ pc' = "ready"
    /\ UNCHANGED <<state, buffer_len, headerVars, outputVars, undecoded>>

\* A complete element is refused (a token that is not registered, an input with
\* data, an output that verify_change, its opcodes or its token speak against
\* or that finds outputs[] full), an output has a script of another length, or
\* bytes follow the last output.
DecodeRefused ==
    /\ pc = "decode"
    /\ ~HeadIncomplete
    /\ ClearContext
    /\ pc' = "host"

\* No output was decoded: SW_OK asks for the next chunk.
RequestData ==
    /\ pc = "ready"
    /\ buffer_output_len = 0
    /\ pc' = "host"
    /\ UNCHANGED <<state, buffer_len, headerVars, outputVars, undecoded>>

\* The user confirms what was decoded and SW_OK asks for the next chunk, or the
\* last output is confirmed and the transaction approved.
ReviewChunk ==
    /\ pc = "ready"
    /\ buffer_output_len > 0
    /\ pc' = "host"
    /\ ResetDisplay
    /\ UNCHANGED <<state, buffer_len, headerVars, current_output, next, undecoded>>

ApproveTransaction ==
    /\ pc = "ready"
    /\ buffer_output_len > 0
    /\ state' = "PARSED"
    /\ pc' = "host"
    /\ UNCHANGED <<buffer_len, headerVars, outputVars, undecoded>>

\* The user rejects an output or the transaction.
Reject ==
    /\ pc = "ready"
    /\ buffer_output_len > 0
    /\ ClearContext
    /\ pc' = "host"

-----------------------------------------------------------------------------
Init ==
    /\ state = "NONE"
    /\ pc = "host"
    /\ buffer_len = 0
    /\ remaining_tokens = 0
    /\ remaining_inputs = 0
    /\ outputs_len = 0
    /\ current_output = 0
    /\ buffer_output_len = 0
    /\ next = NoOutput
    /\ undecoded = 0

Next ==
    \/ FirstChunk \/ HeaderCut \/ ChangeInfoFault \/ NextChunk \/ HashFails
    \/ SignStage \/ Forget
    \/ DecodeToken \/ DecodeInput \/ DecodeOutput \/ DecodeIncomplete \/ DecodeRefused
    \/ RequestData \/ ReviewChunk \/ ApproveTransaction \/ Reject

Spec == Init /\ [][Next]_vars

-----------------------------------------------------------------------------
(* Properties. *)

\* Every variable has its type; the bytes in the buffer never outnumber its
\* 300 and never fall below zero (buffer_len is a size_t), and no more than the
\* announced elements are taken.
TypeOK ==
    /\ state \in {"NONE", "RECV_DATA", "PARSED"}
    /\ pc \in {"host", "decode", "ready"}
    /\ buffer_len \in 0 .. BufferSize
    /\ remaining_tokens \in 0 .. MaxTokens
    /\ remaining_inputs \in 0 .. MaxInputs
    /\ outputs_len \in 0 .. MaxOutputs
    /\ current_output \in 0 .. outputs_len
    /\ buffer_output_len \in 0 .. Slots
    /\ next \in OutputKinds
    /\ undecoded \in Nat

\* When the device asks for the next chunk, the decoder has taken all that it
\* could: the buffer holds the beginning of one element and nothing that could
\* have been taken or refused already, and nothing at all behind the last
\* output.  How the host cuts the transaction into chunks changes nothing.
NothingDecodableLeft ==
    pc = "host" /\ state = "RECV_DATA" =>
        IF AllDecoded THEN buffer_len = 0 ELSE HeadIncomplete

\* A chunk of any length finds room behind what the last one left over: the
\* SW_WRONG_DATA_LENGTH of the later chunks, which would leave bytes in the
\* hash that the decoder never sees, is never thrown.
ChunkAlwaysFits ==
    pc = "host" /\ state = "RECV_DATA" => buffer_len + MaxChunk <= BufferSize

\* One command never decodes more outputs than the shortest of them fit in a
\* chunk, rounded up (8 for 255 bytes): the "prevent overflow" test of the
\* array of ten outputs is never met.
OutputsInOneCall == buffer_output_len <= (MaxChunk + ShortOutput - 1) \div ShortOutput

\* Once an output has been decoded, every byte that was hashed has been decoded
\* or is still in the buffer: what will be signed is what the decoder saw.  (A
\* chunk 0 that ends in its header leaves hashed bytes that nobody decodes, but
\* then no output is ever reached.)
HashedIsDecoded == current_output > 0 => undecoded = buffer_len

-----------------------------------------------------------------------------
(* The inductive invariant behind them. *)

\* The bytes of the element that the decoder looks for.  Behind the last output
\* the first byte is one too many.
HeadLen ==
    IF TokensTurn THEN TokenLen
    ELSE IF InputsTurn THEN InputLen
    ELSE IF OutputsTurn THEN OutputLen(next)
    ELSE 1

\* While the decoder runs, the first element it takes may have begun in an
\* earlier chunk; everything behind it came in this one, and so did the outputs
\* decoded before the last of them.
RoomInChunk ==
    IF buffer_output_len = 0
    THEN buffer_len < MaxChunk + HeadLen
    ELSE buffer_len + (buffer_output_len - 1) * ShortOutput < MaxChunk

CleanContext ==
    /\ buffer_len = 0
    /\ remaining_tokens = 0
    /\ remaining_inputs = 0
    /\ outputs_len = 0
    /\ buffer_output_len = 0
    /\ undecoded = 0

\* Hashed bytes are lost to the decoder only with a header that announces no
\* output.
AllInBuffer ==
    /\ undecoded >= buffer_len
    /\ outputs_len > 0 => undecoded = buffer_len

TurnMatchesBuffer ==
    /\ state = "NONE" => CleanContext
    /\ pc # "host" => state = "RECV_DATA" /\ RoomInChunk
    /\ pc = "ready" => IF AllDecoded THEN buffer_len = 0 ELSE HeadIncomplete
    /\ pc = "host" => OutputsInOneCall

IndInv ==
    /\ TypeOK
    /\ AllInBuffer
    /\ TurnMatchesBuffer
    /\ NothingDecodableLeft

=============================================================================
