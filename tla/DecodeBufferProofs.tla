------------------------- MODULE DecodeBufferProofs -------------------------
(***************************************************************************)
(* Theorems about DecodeBuffer, for every length of the buffer and of the  *)
(* chunks that satisfies BufferAssumption, and every number of elements.   *)
(***************************************************************************)
EXTENDS DecodeBuffer, BuffersProofs

USE SizeModAssumption, CountsAssumption, ChunkAssumption, BufferAssumption

-----------------------------------------------------------------------------
(* Lengths. *)

\* The two lengths of an output, and when it is complete.
LEMMA OutputLenType ==
    ASSUME NEW o \in OutputKinds
    PROVE  OutputLen(o) \in {ShortOutput, LongOutput}
  BY DEF OutputKinds, OutputLen, PrefixLen, ValueLen, ScriptLen, ShortOutput, LongOutput

LEMMA ParseOutputComplete ==
    ASSUME NEW o \in OutputKinds, NEW n \in Nat
    PROVE  /\ ParseOutput(n, o) = "OK" => n >= OutputLen(o)
           /\ ParseOutput(n, o) = "READY" => n < OutputLen(o)
           /\ n = 0 => ParseOutput(n, o) = "READY"
  BY DEF OutputKinds, ParseOutput, OutputLen, PrefixLen, ValueLen, ScriptLen

\* The element that comes next has one of four lengths.
LEMMA HeadLenType ==
    ASSUME TypeOK
    PROVE  HeadLen \in 1 .. LongOutput /\ HeadLen \in Nat
  BY OutputLenType
  DEF TypeOK, HeadLen, TokenLen, InputLen, ShortOutput, LongOutput

LEMMA HeadLenTypePrime ==
    ASSUME TypeOK'
    PROVE  HeadLen' \in 1 .. LongOutput /\ HeadLen' \in Nat
<1>1. OutputLen(next') \in {ShortOutput, LongOutput}
  BY OutputLenType DEF TypeOK
<1>. QED
  BY <1>1
  DEF HeadLen, TokensTurn, InputsTurn, OutputsTurn, TokenLen, InputLen, ShortOutput, LongOutput

\* What the last command left over is shorter than the element it begins.
LEMMA LeftOverIsShort ==
    ASSUME TypeOK, IF AllDecoded THEN buffer_len = 0 ELSE HeadIncomplete
    PROVE  buffer_len < HeadLen
  BY ParseOutputComplete
  DEF TypeOK, HeadLen, AllDecoded, HeadIncomplete, TokensTurn, InputsTurn, OutputsTurn,
      TokenLen, InputLen

\* An empty buffer holds no element, and does not refuse one.
LEMMA EmptyIsIncomplete ==
    ASSUME TypeOK, buffer_len = 0
    PROVE  IF AllDecoded THEN buffer_len = 0 ELSE HeadIncomplete
  BY ParseOutputComplete
  DEF TypeOK, AllDecoded, HeadIncomplete, TokensTurn, InputsTurn, OutputsTurn, TokenLen, InputLen

LEMMA EmptyIsIncompletePrime ==
    ASSUME TypeOK', buffer_len' = 0
    PROVE  (IF AllDecoded THEN buffer_len = 0 ELSE HeadIncomplete)'
<1>1. ParseOutput(buffer_len', next') = "READY"
  BY ParseOutputComplete DEF TypeOK
<1>. QED
  BY <1>1
  DEF TypeOK, AllDecoded, HeadIncomplete, TokensTurn, InputsTurn, OutputsTurn, TokenLen, InputLen

-----------------------------------------------------------------------------
(* The invariant holds when the context is clean. *)

LEMMA CleanInv ==
    ASSUME ClearContext, pc' = "host"
    PROVE  IndInv'
<1>1. TypeOK'
  BY DEF ClearContext, TypeOK, NoOutput, OutputKinds
<1>2. OutputsInOneCall'
  BY DEF ClearContext, OutputsInOneCall, ShortOutput
<1>. QED
  BY <1>1, <1>2
  DEF ClearContext, IndInv, AllInBuffer, TurnMatchesBuffer, CleanContext, NothingDecodableLeft

THEOREM InitInv == Init => IndInv
<1>. SUFFICES ASSUME Init PROVE IndInv
  OBVIOUS
<1>1. TypeOK
  BY DEF Init, TypeOK, NoOutput, OutputKinds
<1>2. OutputsInOneCall
  BY DEF Init, OutputsInOneCall, ShortOutput
<1>. QED
  BY <1>1, <1>2
  DEF Init, IndInv, AllInBuffer, TurnMatchesBuffer, CleanContext, NothingDecodableLeft

-----------------------------------------------------------------------------
(* Chunks. *)

\* What is left of a chunk behind n bytes of it.
LEMMA ChunkParts ==
    ASSUME NEW n \in ChunkLengths, NEW info \in ChangeLengths, SeekCur(Opened(n), info).ok
    PROVE  /\ WellFormed(SeekCur(Opened(n), info).buffer)
           /\ Remaining(SeekCur(Opened(n), info).buffer) \in 0 .. MaxChunk - 1
<1>1. n \in 1 .. MaxChunk /\ n \in SizeT /\ info \in SizeT /\ info >= 1
  BY DEF SizeT, LongOutput
<1>2. WellFormed(Opened(n))
  BY <1>1 DEF Opened, WellFormed, Buffer, SizeT
<1>3. TakesOrRefuses(Opened(n), info, SeekCur(Opened(n), info))
  BY <1>1, <1>2, ReadsTakeOrRefuse
<1>4. SeekCur(Opened(n), info).buffer = [size |-> n, offset |-> info] /\ info <= n
  BY <1>1, <1>3 DEF TakesOrRefuses, Opened
<1>5. WellFormed([size |-> n, offset |-> info])
  BY <1>1, <1>4 DEF WellFormed, Buffer, SizeT
<1>6. Remaining([size |-> n, offset |-> info]) = n - info
  BY <1>5, RemainingIs
<1>. QED
  BY <1>1, <1>4, <1>5, <1>6 DEF SizeT

\* Behind the header there are five bytes less.
LEMMA HeaderParts ==
    ASSUME NEW b, WellFormed(b), ReadUInt(b, HeaderLen).ok, Remaining(b) \in 0 .. MaxChunk - 1
    PROVE  /\ WellFormed(ReadUInt(b, HeaderLen).buffer)
           /\ Remaining(ReadUInt(b, HeaderLen).buffer) \in 0 .. MaxChunk - 1
<1>1. HeaderLen \in SizeT
  <2>1. SizeMod > LongOutput - 1
    BY SizeModAssumption DEF LongOutput
  <2>. QED
    BY <2>1, SizeModAssumption DEF SizeT, HeaderLen, LongOutput
<1>2. TakesOrRefuses(b, HeaderLen, ReadUInt(b, HeaderLen))
  BY <1>1, ReadsTakeOrRefuse
<1>3. WellFormed(ReadUInt(b, HeaderLen).buffer)
  BY <1>1, OperationsStayInBounds
<1>4. ReadUInt(b, HeaderLen).buffer = [b EXCEPT !.offset = b.offset + HeaderLen]
  BY <1>2 DEF TakesOrRefuses
<1>5. b \in Buffer
  BY DEF WellFormed
<1>6. /\ ReadUInt(b, HeaderLen).buffer.size = b.size
      /\ ReadUInt(b, HeaderLen).buffer.offset = b.offset + HeaderLen
  BY <1>4, <1>5 DEF Buffer
<1>7. /\ Remaining(ReadUInt(b, HeaderLen).buffer) = b.size - (b.offset + HeaderLen)
      /\ Remaining(ReadUInt(b, HeaderLen).buffer) \in 0 .. b.size
  BY <1>3, <1>6, RemainingIs
<1>8. Remaining(b) = b.size - b.offset
  BY RemainingIs
<1>9. b.size \in Nat /\ b.offset \in Nat
  BY <1>5 DEF Buffer, SizeT
<1>. QED
  BY <1>3, <1>7, <1>8, <1>9 DEF HeaderLen

\* The first chunk starts the decoder on a buffer that holds less than a chunk.
LEMMA FirstChunkInv ==
    ASSUME IndInv, FirstChunk
    PROVE  IndInv'
<1>1. PICK n \in ChunkLengths, info \in ChangeLengths :
        LET header == SeekCur(Opened(n), info)
            elements == ReadUInt(header.buffer, HeaderLen)
        IN  /\ header.ok
            /\ elements.ok
            /\ AppendChunk(elements.buffer, 0)
            /\ undecoded' = Remaining(elements.buffer)
  BY DEF FirstChunk
<1>. DEFINE header == SeekCur(Opened(n), info)
            r == Remaining(ReadUInt(header.buffer, HeaderLen).buffer)
<1>2. WellFormed(header.buffer) /\ Remaining(header.buffer) \in 0 .. MaxChunk - 1
  BY <1>1, ChunkParts
<1>3. r \in 0 .. MaxChunk - 1
  BY <1>1, <1>2, HeaderParts
<1>4. r <= BufferSize
  BY <1>3 DEF LongOutput
<1>5. buffer_len' = r /\ pc' = "decode" /\ undecoded' = r
  <2>. HIDE DEF r
  <2>1. ~(r > BufferSize - 0)
    BY <1>3, <1>4
  <2>2. Copy(ReadUInt(header.buffer, HeaderLen).buffer, BufferSize - 0).ok
    BY <2>1 DEF Copy, r
  <2>3. buffer_len' = 0 + r /\ pc' = "decode"
    BY <1>1, <2>2 DEF AppendChunk, r
  <2>. QED
    BY <1>1, <1>3, <2>3 DEF r
<1>. HIDE DEF r
<1>6. TypeOK'
  BY <1>3, <1>4, <1>5 DEF FirstChunk, ResetDisplay, TypeOK
<1>7. AllInBuffer'
  BY <1>3, <1>5 DEF AllInBuffer
<1>8. HeadLen' \in Nat
  BY <1>6, HeadLenTypePrime
<1>9. RoomInChunk'
  <2>1. buffer_output_len' = 0
    BY DEF FirstChunk, ResetDisplay
  <2>2. buffer_len' < MaxChunk + HeadLen'
    <3>1. \A h \in Nat : buffer_len' < MaxChunk + h
      BY <1>3, <1>5
    <3>. QED
      BY <1>8, <3>1
  <2>. QED
    BY <2>1, <2>2 DEF RoomInChunk
<1>. QED
  BY <1>5, <1>6, <1>7, <1>9
  DEF FirstChunk, IndInv, TurnMatchesBuffer, NothingDecodableLeft

\* A first chunk cut in its header announces no output.
LEMMA HeaderCutInv ==
    ASSUME IndInv, HeaderCut
    PROVE  IndInv'
<1>1. PICK n \in ChunkLengths, info \in ChangeLengths :
        LET header == SeekCur(Opened(n), info)
            bytes == Remaining(header.buffer)
        IN  /\ header.ok
            /\ ~CanRead(header.buffer, HeaderLen)
            /\ remaining_tokens' \in TokensRead(bytes)
            /\ remaining_inputs' \in InputsRead(bytes)
            /\ outputs_len' \in OutputsRead(bytes)
            /\ undecoded' = bytes
  BY DEF HeaderCut
<1>2. Remaining(SeekCur(Opened(n), info).buffer) \in 0 .. MaxChunk - 1
  BY <1>1, ChunkParts
<1>3. outputs_len' = 0 /\ undecoded' \in Nat
  BY <1>1, <1>2 DEF CanRead, HeaderLen, OutputsRead
<1>4. remaining_tokens' \in 0 .. MaxTokens /\ remaining_inputs' \in 0 .. MaxInputs
  BY <1>1 DEF TokensRead, InputsRead
<1>5. TypeOK'
  BY <1>3, <1>4 DEF HeaderCut, ResetDisplay, TypeOK, IndInv
<1>6. AllInBuffer'
  BY <1>3 DEF HeaderCut, AllInBuffer
<1>7. (IF AllDecoded THEN buffer_len = 0 ELSE HeadIncomplete)'
  BY <1>5, EmptyIsIncompletePrime DEF HeaderCut
<1>8. OutputsInOneCall'
  BY DEF HeaderCut, ResetDisplay, OutputsInOneCall, ShortOutput
<1>. QED
  BY <1>5, <1>6, <1>7, <1>8
  DEF HeaderCut, IndInv, TurnMatchesBuffer, NothingDecodableLeft

\* A later chunk finds room, because what is left over is less than an element.
LEMMA NextChunkInv ==
    ASSUME IndInv, NextChunk
    PROVE  IndInv'
<1>1. PICK n \in ChunkLengths :
        undecoded' = undecoded + n /\ AppendChunk(Opened(n), buffer_len)
  BY DEF NextChunk
<1>2. n \in 1 .. MaxChunk /\ n \in SizeT
  BY DEF SizeT, LongOutput
<1>3. Remaining(Opened(n)) = n
  <2>1. WellFormed(Opened(n))
    BY <1>2 DEF Opened, WellFormed, Buffer, SizeT
  <2>2. Remaining(Opened(n)) = n - 0
    BY <2>1, RemainingIs DEF Opened
  <2>. QED
    BY <1>2, <2>2
<1>4. TypeOK /\ buffer_len \in Nat
  BY DEF IndInv, TypeOK
<1>5. buffer_len < HeadLen
  BY <1>4, LeftOverIsShort DEF IndInv, NothingDecodableLeft, NextChunk
<1>6. HeadLen \in 1 .. LongOutput
  BY <1>4, HeadLenType
<1>7. buffer_len + n <= BufferSize
  BY <1>2, <1>4, <1>5, <1>6 DEF LongOutput
<1>8. Copy(Opened(n), BufferSize - buffer_len).ok
  BY <1>2, <1>3, <1>4, <1>7 DEF Copy
<1>9. buffer_len' = buffer_len + n /\ pc' = "decode"
  BY <1>1, <1>3, <1>8 DEF AppendChunk
<1>10. TypeOK'
  <2>1. undecoded' \in Nat /\ buffer_len' \in 0 .. BufferSize
    BY <1>1, <1>2, <1>4, <1>7, <1>9 DEF TypeOK
  <2>. QED
    BY <1>4, <1>9, <2>1 DEF NextChunk, ResetDisplay, headerVars, TypeOK
<1>11. AllInBuffer'
  BY <1>1, <1>2, <1>4, <1>9 DEF NextChunk, headerVars, IndInv, AllInBuffer, TypeOK
<1>12. HeadLen' = HeadLen
  BY DEF NextChunk, headerVars, HeadLen, TokensTurn, InputsTurn, OutputsTurn
<1>13. RoomInChunk'
  <2>1. buffer_len + n < MaxChunk + HeadLen
    BY <1>2, <1>4, <1>5, <1>6
  <2>. QED
    BY <1>9, <1>12, <2>1 DEF NextChunk, ResetDisplay, RoomInChunk
<1>. QED
  BY <1>9, <1>10, <1>11, <1>13
  DEF NextChunk, IndInv, TurnMatchesBuffer, NothingDecodableLeft

-----------------------------------------------------------------------------
(* The decoder. *)

\* A call whose outputs all began in one chunk, but for the first, has decoded
\* no more of them than fit in it.
LEMMA RoomBoundsOutputs ==
    ASSUME TypeOK, RoomInChunk
    PROVE  OutputsInOneCall
<1>1. buffer_output_len \in Nat /\ buffer_len \in Nat
  BY DEF TypeOK
<1>2. CASE buffer_output_len = 0
  BY <1>2 DEF OutputsInOneCall, ShortOutput
<1>3. CASE buffer_output_len # 0
  <2>1. (buffer_output_len - 1) * 32 < MaxChunk
    BY <1>1, <1>3 DEF RoomInChunk, ShortOutput
  <2>. QED
    BY <1>1, <1>3, <2>1 DEF OutputsInOneCall, ShortOutput
<1>. QED
  BY <1>2, <1>3

\* Taking an element that the buffer holds keeps the byte accounting, and ends
\* the loop only with an empty buffer.
LEMMA ConsumeKeeps ==
    ASSUME IndInv, NEW len \in Nat, len >= 1, len <= buffer_len, Consume(len),
           state = "RECV_DATA", state' = state, outputs_len' = outputs_len,
           TypeOK', RoomInChunk'
    PROVE  IndInv'
<1>1. /\ buffer_len' = buffer_len - len
      /\ undecoded' = undecoded - len
      /\ pc' = IF buffer_len = len THEN "ready" ELSE "decode"
  BY DEF Consume
<1>2. buffer_len \in Nat /\ undecoded \in Nat
  BY DEF IndInv, TypeOK
<1>3. AllInBuffer'
  BY <1>1, <1>2 DEF IndInv, AllInBuffer
<1>4. pc' = "ready" => buffer_len' = 0
  BY <1>1, <1>2
<1>5. pc' = "ready" => (IF AllDecoded THEN buffer_len = 0 ELSE HeadIncomplete)'
  BY <1>4, EmptyIsIncompletePrime
<1>6. pc' # "host"
  BY <1>1
<1>. QED
  BY <1>3, <1>5, <1>6 DEF IndInv, TurnMatchesBuffer, NothingDecodableLeft

\* The bytes that a token or an input leaves behind came in this chunk.
LEMMA RoomBehindElement ==
    ASSUME IndInv, pc = "decode", NEW len \in Nat, len = HeadLen, Consume(len), TypeOK',
           buffer_output_len' = buffer_output_len
    PROVE  RoomInChunk'
<1>1. buffer_len' = buffer_len - len
  BY DEF Consume
<1>2. buffer_len \in Nat /\ buffer_output_len \in Nat
  BY DEF IndInv, TypeOK
<1>3. RoomInChunk
  BY DEF IndInv, TurnMatchesBuffer
<1>4. HeadLen' \in Nat
  BY HeadLenTypePrime
<1>5. CASE buffer_output_len = 0
  <2>1. buffer_len' < MaxChunk
    BY <1>1, <1>2, <1>3, <1>5 DEF RoomInChunk
  <2>2. \A h \in Nat : buffer_len' < MaxChunk + h
    BY <1>1, <1>2, <2>1
  <2>. QED
    BY <1>4, <1>5, <2>2 DEF RoomInChunk
<1>6. CASE buffer_output_len # 0
  <2>1. buffer_len + (buffer_output_len - 1) * 32 < MaxChunk
    BY <1>3, <1>6 DEF RoomInChunk, ShortOutput
  <2>2. buffer_len' + (buffer_output_len' - 1) * 32 < MaxChunk
    BY <1>1, <1>2, <2>1
  <2>. QED
    BY <1>6, <2>2 DEF RoomInChunk, ShortOutput
<1>. QED
  BY <1>5, <1>6

\* The arithmetic of an output that is taken: the first of a call, and another.
LEMMA TakenFromFront ==
    ASSUME NEW b \in Nat, NEW m \in Nat, NEW len \in Nat, b < m + len
    PROVE  b - len < m
  OBVIOUS

LEMMA OneOutputMore ==
    ASSUME NEW b \in Nat, NEW c \in Nat, NEW k \in Nat, b + (k - 1) * 32 < MaxChunk, c + 32 <= b
    PROVE  c + k * 32 < MaxChunk
  OBVIOUS

LEMMA DecodeTokenInv ==
    ASSUME IndInv, DecodeToken
    PROVE  IndInv'
<1>1. /\ TypeOK
      /\ pc = "decode" /\ state = "RECV_DATA" /\ state' = state
      /\ outputs_len' = outputs_len /\ buffer_output_len' = buffer_output_len
      /\ TokenLen \in Nat /\ TokenLen >= 1 /\ TokenLen <= buffer_len
      /\ Consume(TokenLen)
  BY DEF IndInv, TypeOK, TurnMatchesBuffer, DecodeToken, TokenComplete, outputVars, TokenLen
<1>2. HeadLen = TokenLen
  BY DEF DecodeToken, HeadLen
<1>3. undecoded' \in Nat /\ buffer_len' \in 0 .. BufferSize
  BY <1>1 DEF IndInv, TypeOK, AllInBuffer, Consume, TokenLen
<1>4. TypeOK'
  BY <1>1, <1>3 DEF TypeOK, DecodeToken, Consume, TokensTurn, outputVars
<1>5. RoomInChunk'
  BY <1>1, <1>2, <1>4, RoomBehindElement
<1>. QED
  BY <1>1, <1>4, <1>5, ConsumeKeeps

LEMMA DecodeInputInv ==
    ASSUME IndInv, DecodeInput
    PROVE  IndInv'
<1>1. /\ TypeOK
      /\ pc = "decode" /\ state = "RECV_DATA" /\ state' = state
      /\ outputs_len' = outputs_len /\ buffer_output_len' = buffer_output_len
      /\ InputLen \in Nat /\ InputLen >= 1 /\ InputLen <= buffer_len
      /\ Consume(InputLen)
  BY DEF IndInv, TypeOK, TurnMatchesBuffer, DecodeInput, outputVars, InputLen
<1>2. HeadLen = InputLen
  BY DEF DecodeInput, HeadLen, InputsTurn, TokensTurn
<1>3. undecoded' \in Nat /\ buffer_len' \in 0 .. BufferSize
  BY <1>1 DEF IndInv, TypeOK, AllInBuffer, Consume, InputLen
<1>4. TypeOK'
  BY <1>1, <1>3 DEF TypeOK, DecodeInput, Consume, InputsTurn, outputVars
<1>5. RoomInChunk'
  BY <1>1, <1>2, <1>4, RoomBehindElement
<1>. QED
  BY <1>1, <1>4, <1>5, ConsumeKeeps

\* The first output of a call may have begun before its chunk; every further
\* one takes at least 32 bytes of it.
LEMMA DecodeOutputInv ==
    ASSUME IndInv, DecodeOutput
    PROVE  IndInv'
<1>. DEFINE len == OutputLen(next)
<1>1. /\ TypeOK
      /\ pc = "decode" /\ state = "RECV_DATA" /\ state' = state
      /\ outputs_len' = outputs_len /\ buffer_output_len' = buffer_output_len + 1
      /\ Consume(len)
  BY DEF IndInv, TurnMatchesBuffer, DecodeOutput, headerVars
<1>2. next \in OutputKinds /\ buffer_len \in Nat /\ buffer_output_len \in Nat
  BY <1>1 DEF TypeOK
<1>3. len \in Nat /\ len >= ShortOutput /\ len >= 1 /\ len <= buffer_len
  BY <1>2, OutputLenType, ParseOutputComplete DEF DecodeOutput, ShortOutput, LongOutput
<1>4. HeadLen = len
  BY DEF DecodeOutput, HeadLen, OutputsTurn, InputsTurn, TokensTurn
<1>. HIDE DEF len
<1>5. buffer_len' = buffer_len - len /\ undecoded' = undecoded - len
  BY <1>1 DEF Consume
<1>6. undecoded' \in Nat /\ buffer_len' \in 0 .. BufferSize
  BY <1>1, <1>3, <1>5 DEF IndInv, TypeOK, AllInBuffer
<1>7. TypeOK'
  BY <1>1, <1>6 DEF TypeOK, DecodeOutput, Consume, OutputsTurn, headerVars
<1>8. RoomInChunk
  BY <1>1 DEF IndInv, TurnMatchesBuffer
<1>9. RoomInChunk'
  <2>1. CASE buffer_output_len = 0
    <3>1. buffer_len < MaxChunk + len
      BY <1>4, <1>8, <2>1 DEF RoomInChunk
    <3>2. buffer_len \in Nat /\ len \in Nat /\ MaxChunk \in Nat
      BY <1>2, <1>3
    <3>3. buffer_len' < MaxChunk
      BY <1>5, <3>1, <3>2, TakenFromFront
    <3>4. buffer_output_len' # 0 /\ (buffer_output_len' - 1) * 32 = 0
      BY <1>1, <2>1
    <3>5. buffer_len' + (buffer_output_len' - 1) * 32 < MaxChunk
      BY <1>6, <3>3, <3>4
    <3>. QED
      BY <3>4, <3>5 DEF RoomInChunk, ShortOutput
  <2>2. CASE buffer_output_len # 0
    <3>1. buffer_len + (buffer_output_len - 1) * 32 < MaxChunk
      BY <1>8, <2>2 DEF RoomInChunk, ShortOutput
    <3>2. buffer_len' + 32 <= buffer_len
      BY <1>2, <1>3, <1>5 DEF ShortOutput
    <3>3. buffer_len' + buffer_output_len * 32 < MaxChunk
      <4>1. buffer_len \in Nat /\ buffer_len' \in Nat /\ buffer_output_len \in Nat
        BY <1>2, <1>6
      <4>. QED
        BY <3>1, <3>2, <4>1, OneOutputMore
    <3>4. buffer_output_len' # 0 /\ buffer_output_len' - 1 = buffer_output_len
      BY <1>1, <1>2
    <3>. QED
      BY <3>3, <3>4 DEF RoomInChunk, ShortOutput
  <2>. QED
    BY <2>1, <2>2
<1>. QED
  BY <1>1, <1>3, <1>7, <1>9, ConsumeKeeps

\* The decoder stops inside an element: what is left waits for more.
LEMMA DecodeIncompleteInv ==
    ASSUME IndInv, DecodeIncomplete
    PROVE  IndInv'
<1>1. ~AllDecoded
  BY DEF IndInv, TypeOK, DecodeIncomplete, HeadIncomplete, AllDecoded, TokensTurn, InputsTurn,
         OutputsTurn
<1>2. UNCHANGED <<state, buffer_len, headerVars, outputVars, undecoded>> /\ pc' = "ready"
  BY DEF DecodeIncomplete
<1>3. TypeOK' /\ AllInBuffer'
  BY <1>2 DEF IndInv, TypeOK, AllInBuffer, headerVars, outputVars
<1>4. HeadIncomplete' /\ ~AllDecoded'
  BY <1>1, <1>2
  DEF DecodeIncomplete, HeadIncomplete, AllDecoded, TokensTurn, InputsTurn, OutputsTurn,
      headerVars, outputVars
<1>5. HeadLen' = HeadLen
  BY <1>2 DEF HeadLen, TokensTurn, InputsTurn, OutputsTurn, headerVars, outputVars
<1>6. RoomInChunk' /\ state' = "RECV_DATA"
  BY <1>2, <1>5 DEF DecodeIncomplete, IndInv, TurnMatchesBuffer, RoomInChunk, outputVars
<1>. QED
  BY <1>2, <1>3, <1>4, <1>6 DEF IndInv, TurnMatchesBuffer, NothingDecodableLeft

-----------------------------------------------------------------------------
(* The steps that neither add nor take bytes. *)

\* The buffer and the elements to come are the same, and the host moves.
LEMMA BytesUntouched ==
    ASSUME IndInv, pc' = "host", UNCHANGED <<buffer_len, headerVars, current_output, next, undecoded>>,
           OutputsInOneCall', state' \in {"RECV_DATA", "PARSED"}, TypeOK',
           state' = "RECV_DATA" => IF AllDecoded THEN buffer_len = 0 ELSE HeadIncomplete
    PROVE  IndInv'
<1>1. AllInBuffer'
  BY DEF IndInv, AllInBuffer, headerVars
<1>2. NothingDecodableLeft'
  BY DEF NothingDecodableLeft, AllDecoded, HeadIncomplete, TokensTurn, InputsTurn, OutputsTurn,
         headerVars
<1>. QED
  BY <1>1, <1>2 DEF IndInv, TurnMatchesBuffer

\* So they are after a review or a request for data.
LEMMA ReviewInv ==
    ASSUME IndInv, RequestData \/ ReviewChunk \/ ApproveTransaction
    PROVE  IndInv'
<1>1. /\ TypeOK /\ pc = "ready" /\ pc' = "host"
      /\ UNCHANGED <<buffer_len, headerVars, current_output, next, undecoded>>
      /\ buffer_output_len' \in {0, buffer_output_len}
  BY DEF IndInv, RequestData, ReviewChunk, ApproveTransaction, ResetDisplay, outputVars
<1>2. /\ state = "RECV_DATA" /\ RoomInChunk
      /\ IF AllDecoded THEN buffer_len = 0 ELSE HeadIncomplete
  BY <1>1 DEF IndInv, TurnMatchesBuffer
<1>3. state' \in {"RECV_DATA", "PARSED"}
  BY <1>2 DEF RequestData, ReviewChunk, ApproveTransaction
<1>4. OutputsInOneCall'
  <2>1. OutputsInOneCall
    BY <1>1, <1>2, RoomBoundsOutputs
  <2>. QED
    BY <1>1, <2>1 DEF OutputsInOneCall, ShortOutput
<1>5. TypeOK'
  BY <1>1, <1>3 DEF TypeOK, headerVars
<1>. QED
  BY <1>1, <1>2, <1>3, <1>4, <1>5, BytesUntouched

\* A first chunk refused for its change information finds a clean context.
LEMMA ChangeInfoFaultInv ==
    ASSUME IndInv, ChangeInfoFault
    PROVE  IndInv'
<1>1. TypeOK /\ CleanContext
  BY DEF IndInv, TurnMatchesBuffer, ChangeInfoFault
<1>2. /\ UNCHANGED <<pc, buffer_len, headerVars, outputVars, undecoded>>
      /\ pc = "host" /\ state' = "RECV_DATA"
  BY DEF ChangeInfoFault
<1>3. OutputsInOneCall'
  BY <1>1, <1>2 DEF CleanContext, OutputsInOneCall, outputVars, ShortOutput
<1>4. TypeOK'
  BY <1>1, <1>2 DEF TypeOK, headerVars, outputVars
<1>5. IF AllDecoded THEN buffer_len = 0 ELSE HeadIncomplete
  BY <1>1, EmptyIsIncomplete DEF CleanContext
<1>. QED
  BY <1>2, <1>3, <1>4, <1>5, BytesUntouched DEF outputVars

\* The stage SIGN and a chunk that is not hashed touch the number of decoded
\* outputs only.
LEMMA KeepsBytesInv ==
    ASSUME IndInv, SignStage \/ HashFails
    PROVE  IndInv'
<1>1. /\ TypeOK /\ pc = "host" /\ pc' = "host" /\ state' = state /\ buffer_output_len' = 0
      /\ UNCHANGED <<buffer_len, headerVars, current_output, next, undecoded>>
  BY DEF IndInv, SignStage, HashFails, ResetDisplay
<1>2. OutputsInOneCall'
  BY <1>1 DEF OutputsInOneCall, ShortOutput
<1>3. TypeOK'
  BY <1>1 DEF TypeOK, headerVars
<1>4. CASE state = "NONE"
  <2>1. CleanContext'
    BY <1>1, <1>4 DEF IndInv, TurnMatchesBuffer, CleanContext, headerVars
  <2>2. AllInBuffer'
    BY <1>1 DEF IndInv, AllInBuffer, headerVars
  <2>. QED
    BY <1>1, <1>2, <1>3, <1>4, <2>1, <2>2
    DEF IndInv, TurnMatchesBuffer, NothingDecodableLeft
<1>5. CASE state # "NONE"
  <2>1. state' \in {"RECV_DATA", "PARSED"}
    BY <1>1, <1>5 DEF TypeOK
  <2>2. state' = "RECV_DATA" => IF AllDecoded THEN buffer_len = 0 ELSE HeadIncomplete
    BY <1>1 DEF IndInv, NothingDecodableLeft
  <2>. QED
    BY <1>1, <1>2, <1>3, <2>1, <2>2, BytesUntouched
<1>. QED
  BY <1>4, <1>5

LEMMA StutterInv ==
    ASSUME IndInv, UNCHANGED vars
    PROVE  IndInv'
  BY DEF IndInv, vars, headerVars, outputVars, TypeOK, AllInBuffer, TurnMatchesBuffer,
         NothingDecodableLeft, CleanContext, OutputsInOneCall, RoomInChunk, HeadLen, AllDecoded,
         HeadIncomplete, TokensTurn, InputsTurn, OutputsTurn

-----------------------------------------------------------------------------
(* The theorems. *)

THEOREM StepInv == IndInv /\ [Next]_vars => IndInv'
<1>. SUFFICES ASSUME IndInv, [Next]_vars PROVE IndInv'
  OBVIOUS
<1>1. CASE FirstChunk
  BY <1>1, FirstChunkInv
<1>2. CASE HeaderCut
  BY <1>2, HeaderCutInv
<1>3. CASE ChangeInfoFault
  BY <1>3, ChangeInfoFaultInv
<1>4. CASE NextChunk
  BY <1>4, NextChunkInv
<1>5. CASE SignStage \/ HashFails
  BY <1>5, KeepsBytesInv
<1>6. CASE Forget
  <2>1. ClearContext /\ pc' = "host"
    BY <1>6 DEF Forget
  <2>. QED
    BY <2>1, CleanInv
<1>7. CASE DecodeToken
  BY <1>7, DecodeTokenInv
<1>8. CASE DecodeInput
  BY <1>8, DecodeInputInv
<1>9. CASE DecodeOutput
  BY <1>9, DecodeOutputInv
<1>10. CASE DecodeIncomplete
  BY <1>10, DecodeIncompleteInv
<1>11. CASE DecodeRefused \/ Reject
  <2>1. ClearContext /\ pc' = "host"
    BY <1>11 DEF DecodeRefused, Reject
  <2>. QED
    BY <2>1, CleanInv
<1>12. CASE RequestData \/ ReviewChunk \/ ApproveTransaction
  BY <1>12, ReviewInv
<1>13. CASE UNCHANGED vars
  BY <1>13, StutterInv
<1>. QED
  BY <1>1, <1>2, <1>3, <1>4, <1>5, <1>6, <1>7, <1>8, <1>9, <1>10, <1>11, <1>12, <1>13 DEF Next

THEOREM Inductive == Spec => []IndInv
  BY InitInv, StepInv, PTL DEF Spec

\* buffer_len never falls below zero and never exceeds the buffer, whatever
\* chunks the host sends.
THEOREM TypeCorrect == Spec => []TypeOK
<1>1. IndInv => TypeOK
  BY DEF IndInv
<1>. QED
  BY <1>1, Inductive, PTL

\* However the host cuts the transaction, the decoder takes all it can.
THEOREM GreedyDecoder == Spec => []NothingDecodableLeft
<1>1. IndInv => NothingDecodableLeft
  BY DEF IndInv
<1>. QED
  BY <1>1, Inductive, PTL

\* The copy of a later chunk into tx_info.buffer never fails.
THEOREM RoomForChunks == Spec => []ChunkAlwaysFits
<1>1. IndInv => ChunkAlwaysFits
  <2>. SUFFICES ASSUME IndInv, pc = "host", state = "RECV_DATA"
                PROVE  buffer_len + MaxChunk <= BufferSize
    BY DEF ChunkAlwaysFits
  <2>1. TypeOK
    BY DEF IndInv
  <2>2. buffer_len < HeadLen
    BY <2>1, LeftOverIsShort DEF IndInv, NothingDecodableLeft
  <2>3. HeadLen \in 1 .. LongOutput /\ buffer_len \in Nat
    BY <2>1, HeadLenType DEF TypeOK
  <2>. QED
    BY <2>2, <2>3 DEF LongOutput
<1>. QED
  BY <1>1, Inductive, PTL

\* The array of decoded outputs is never found full, if it has a slot for every
\* output that fits in a chunk and one more that began before it.
THEOREM ArrayOfOutputsFits == Spec => []OutputsInOneCall
<1>1. IndInv => OutputsInOneCall
  <2>. SUFFICES ASSUME IndInv PROVE OutputsInOneCall
    OBVIOUS
  <2>1. CASE pc = "host"
    BY <2>1 DEF IndInv, TurnMatchesBuffer
  <2>2. CASE pc # "host"
    BY <2>2, RoomBoundsOutputs DEF IndInv, TurnMatchesBuffer
  <2>. QED
    BY <2>1, <2>2
<1>. QED
  BY <1>1, Inductive, PTL

\* The bytes that will be signed are those the decoder has seen.
THEOREM SignedIsDecoded == Spec => []HashedIsDecoded
<1>1. IndInv => HashedIsDecoded
  <2>. SUFFICES ASSUME IndInv, current_output > 0
                PROVE  undecoded = buffer_len
    BY DEF HashedIsDecoded
  <2>1. outputs_len > 0
    BY DEF IndInv, TypeOK
  <2>. QED
    BY <2>1 DEF IndInv, AllInBuffer
<1>. QED
  BY <1>1, Inductive, PTL

=============================================================================
