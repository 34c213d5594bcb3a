---------------------------- MODULE SignTxProofs ----------------------------
(***************************************************************************)
(* Theorems about SignTx, for every value of the constants.                *)
(***************************************************************************)
EXTENDS SignTx, FiniteSetTheorems, TLAPS

USE ModulusAssumption, SizesAssumption

-----------------------------------------------------------------------------
(* The counters. *)

\* Adding a number of at most Modulus to a uint8_t gives a uint8_t.
LEMMA WrapType ==
    ASSUME NEW a \in UInt8, NEW n \in 0 .. Modulus
    PROVE  Wrap(a + n) \in UInt8
  BY DEF UInt8, Wrap

\* One is such a number.
LEMMA WrapOne ==
    ASSUME NEW a \in UInt8
    PROVE  Wrap(a + 1) \in UInt8
  BY DEF UInt8, Wrap

-----------------------------------------------------------------------------
(* Type correctness. *)

\* The part of TypeOK about the array of outputs.
ArrayType ==
    /\ display_index \in UInt8
    /\ outputs \in Seq(UInt8) /\ stale \in Seq(UInt8)
    /\ Len(outputs) + Len(stale) <= BufferSlots

\* An erased array has it.
LEMMA EmptyDisplayType ==
    ASSUME EmptyDisplay
    PROVE  ArrayType'
<1>1. display_index' \in UInt8
  BY DEF EmptyDisplay, UInt8
<1>2. outputs' \in Seq(UInt8) /\ stale' \in Seq(UInt8) /\ Len(outputs') = 0 /\ Len(stale') = 0
  BY DEF EmptyDisplay
<1>. QED
  BY <1>1, <1>2 DEF ArrayType

\* What the array held becomes stale, and it holds no more than before.
LEMMA ResetType ==
    ASSUME TypeOK, ResetDisplay
    PROVE  ArrayType'
<1>1. display_index' \in UInt8
  BY DEF ResetDisplay, UInt8
<1>2. outputs \in Seq(UInt8) /\ stale \in Seq(UInt8) /\ Len(outputs) + Len(stale) <= BufferSlots
  BY DEF TypeOK
<1>3. outputs' = <<>> /\ stale' = outputs \o stale
  BY DEF ResetDisplay
<1>4. stale' \in Seq(UInt8) /\ Len(stale') = Len(outputs) + Len(stale)
  BY <1>2, <1>3
<1>5. outputs' \in Seq(UInt8) /\ Len(outputs') = 0
  BY <1>3
<1>. QED
  BY <1>1, <1>2, <1>4, <1>5 DEF ArrayType

\* Clearing the context keeps the types.
LEMMA ClearType ==
    ASSUME ClearContext, pc' \in Turns, screen' \in Screens, reply' \in Replies
    PROVE  TypeOK'
<1>1. change' \in SUBSET UInt8 /\ Cardinality(change') <= MaxChange
  BY FS_EmptySet DEF ClearContext
<1>2. ArrayType'
  BY EmptyDisplayType DEF ClearContext
<1>3. sighash' \in Digests
  BY DEF ClearContext, NoDigest, Digests
<1>4. /\ remaining_tokens' \in 0 .. MaxTokens
      /\ remaining_inputs' \in 0 .. MaxInputs
      /\ outputs_len' \in UInt8
      /\ current_output' \in 0 .. outputs_len'
      /\ left' \in 0 .. MaxChunk
      /\ change_len' \in UInt8
      /\ confirmed_outputs' \in UInt8
  BY DEF ClearContext, UInt8
<1>5. /\ state' \in States
      /\ partial' \in BOOLEAN
      /\ reviewed' \in SUBSET UInt8
  BY DEF ClearContext, States
<1>. QED
  BY <1>1, <1>2, <1>3, <1>4, <1>5 DEF TypeOK, ArrayType

\* So does clearing it and answering.
LEMMA ClearAndAnswerType ==
    ASSUME NEW sw \in Replies, NEW s \in Screens, ClearContext, Answer(sw, s)
    PROVE  TypeOK'
  BY ClearType DEF Answer, Turns

\* So does whatever the device shows or answers once the counters are settled.
LEMMA SettleType ==
    ASSUME TypeOK, NEW c \in UInt8, NEW d \in UInt8, Settle(c, d),
           reviewed' \in SUBSET UInt8
    PROVE  TypeOK'
<1>1. CASE AskToSend(c, d)
  BY <1>1 DEF AskToSend, TypeOK, parseVars, decodeVars, States, Turns, Screens, Replies
<1>2. CASE AskForData(c, d)
  <2>1. ArrayType'
    BY <1>2, ResetType DEF AskForData
  <2>. QED
    BY <1>2, <2>1
    DEF ArrayType, AskForData, Answer, TypeOK, parseVars, decodeVars, Turns, Screens, Replies
<1>3. CASE ShowOutput(c, d)
  BY <1>3 DEF ShowOutput, TypeOK, parseVars, decodeVars, Turns, Screens, Replies
<1>. QED
  BY <1>1, <1>2, <1>3 DEF Settle

\* The array, up to its zeroed slots, holds output indices.
LEMMA SlotsType ==
    ASSUME TypeOK
    PROVE  /\ Slots \in Seq(UInt8)
           /\ Len(Slots) = Len(outputs) + Len(stale)
           /\ \A k \in 1 .. Len(outputs) : Slots[k] = outputs[k]
           /\ \A k \in Len(outputs) + 1 .. Len(Slots) : Slots[k] = stale[k - Len(outputs)]
<1>1. outputs \in Seq(UInt8) /\ stale \in Seq(UInt8)
  BY DEF TypeOK
<1>. QED
  BY <1>1 DEF Slots

\* What is on display is an output index.
LEMMA ShownType ==
    ASSUME TypeOK
    PROVE  Shown \subseteq UInt8
<1>1. Slots \in Seq(UInt8) /\ display_index \in Nat
  <2>1. display_index \in Nat
    BY DEF TypeOK, UInt8
  <2>. QED
    BY <2>1, SlotsType
<1>2. display_index < Len(Slots) => Slots[display_index + 1] \in UInt8
  BY <1>1
<1>. QED
  BY <1>2 DEF Shown

\* A list of change outputs that was read fits in its array.
LEMMA ChangeReadType ==
    ASSUME ChangeRead
    PROVE  /\ change' \in SUBSET UInt8 /\ Cardinality(change') <= MaxChange
           /\ change_len' \in UInt8 /\ change_len' <= MaxChange
<1>1. change' \in SUBSET UInt8 /\ Cardinality(change') <= MaxChange
  BY DEF ChangeRead
<1>2. Cardinality(change') \in Nat
  <2>1. IsFiniteSet(0 .. Modulus - 1)
    BY FS_Interval
  <2>2. IsFiniteSet(change')
    BY <1>1, <2>1, FS_Subset DEF UInt8
  <2>. QED
    BY <2>2, FS_CardinalityType
<1>3. change_len' \in Cardinality(change') .. MaxChange
  BY DEF ChangeRead
<1>4. change_len' \in UInt8 /\ change_len' <= MaxChange
  BY <1>2, <1>3 DEF UInt8
<1>. QED
  BY <1>1, <1>4

\* Every step keeps the types.
LEMMA TypeStep == TypeOK /\ [Next]_vars => TypeOK'
<1>. SUFFICES ASSUME TypeOK, [Next]_vars PROVE TypeOK'
  OBVIOUS
<1>a. ASSUME NEW sw \in Replies, BackToMenu(sw) PROVE TypeOK'
  <2>1. "menu" \in Screens
    BY DEF Screens
  <2>. QED
    BY <1>a, <2>1, ClearAndAnswerType DEF BackToMenu
<1>b. 0 \in UInt8 /\ NoDigest \in Digests
  <2>1. 0 \in UInt8
    BY DEF UInt8
  <2>2. NoDigest \in Digests
    BY DEF NoDigest, Digests
  <2>. QED
    BY <2>1, <2>2
\* Chunk 0 begins with an erased context and a list of change outputs that was
\* read, or is too long.
<1>d. ASSUME StartTransaction,
             /\ change' \in SUBSET UInt8 /\ Cardinality(change') <= MaxChange
             /\ change_len' \in UInt8,
             remaining_tokens' \in 0 .. MaxTokens, remaining_inputs' \in 0 .. MaxInputs,
             outputs_len' \in UInt8, left' \in 0 .. MaxChunk, partial' \in BOOLEAN,
             pc' \in Turns, screen' \in Screens, reply' \in Replies
      PROVE  TypeOK'
  <2>1. ArrayType'
    BY <1>d, EmptyDisplayType DEF StartTransaction
  <2>2. current_output' \in 0 .. outputs_len' /\ confirmed_outputs' \in UInt8
    BY <1>d DEF StartTransaction, UInt8
  <2>3. state' \in States /\ sighash' \in Digests /\ reviewed' \in SUBSET UInt8
    BY <1>b, <1>d DEF StartTransaction, States
  <2>. QED
    BY <1>d, <2>1, <2>2, <2>3 DEF TypeOK, ArrayType
<1>c. screen \in Screens
  BY DEF TypeOK
<1>1. CASE FirstChunk
  <2>1. pc' \in Turns /\ reply' \in Replies /\ screen' \in Screens
    BY <1>1, <1>c DEF FirstChunk, Turns, Replies
  <2>. QED
    BY <1>1, <1>d, ChangeReadType, <2>1 DEF FirstChunk
<1>2. CASE FirstChunkFault
  <2>1. 0 \in 0 .. MaxTokens /\ 0 \in 0 .. MaxInputs /\ 0 \in 0 .. MaxChunk
    OBVIOUS
  <2>2. StartTransaction /\ left' = 0 /\ partial' = FALSE
    BY <1>2 DEF FirstChunkFault
  <2>3. CASE TooMuchChange
    <3>1. change' \in SUBSET UInt8 /\ Cardinality(change') <= MaxChange
      <4>1. change' = {0}
        BY <2>3 DEF TooMuchChange
      <4>2. Cardinality({0}) = 1
        BY FS_Singleton
      <4>3. Cardinality(change') <= MaxChange
        BY <4>1, <4>2
      <4>. QED
        BY <1>b, <4>1, <4>3
    <3>2. change_len' \in UInt8
      BY <2>3 DEF TooMuchChange, UInt8
    <3>3. pc' \in Turns /\ reply' \in Replies /\ screen' \in Screens
      BY <2>3, <1>c DEF TooMuchChange, Answer, Turns, Replies
    <3>. QED
      BY <1>b, <1>d, <2>1, <2>2, <2>3, <3>1, <3>2, <3>3 DEF TooMuchChange, HeaderUnread
  <2>4. CASE ChangeInfoFault
    <3>1. pc' \in Turns /\ reply' \in Replies /\ screen' \in Screens
      BY <2>4, <1>c DEF ChangeInfoFault, Answer, Turns, Replies
    <3>. QED
      BY <1>b, <1>d, ChangeReadType, <2>1, <2>2, <2>4, <3>1 DEF ChangeInfoFault, HeaderUnread
  <2>5. CASE HeaderCut
    <3>1. pc' \in Turns /\ reply' \in Replies /\ screen' \in Screens
      BY <2>5, <1>c DEF HeaderCut, Answer, Turns, Replies
    <3>. QED
      BY <1>b, <1>d, ChangeReadType, <2>1, <2>2, <2>5, <3>1 DEF HeaderCut
  <2>. QED
    BY <1>2, <2>3, <2>4, <2>5 DEF FirstChunkFault
<1>3. CASE FirstChunkAgain
  BY <1>3, <1>c, ClearAndAnswerType DEF FirstChunkAgain, Replies
<1>4. CASE NextChunk
  <2>1. ArrayType'
    BY <1>4, ResetType DEF NextChunk
  <2>. QED
    BY <1>4, <2>1 DEF ArrayType, NextChunk, TypeOK, parseVars, Turns, Replies
<1>5. CASE DataRefused
  BY <1>5, <1>a DEF DataRefused, Replies
<1>6. CASE DecodeToken
  BY <1>6
  DEF DecodeToken, TokensTurn, Consume, TypeOK, displayVars, Turns, Replies
<1>7. CASE DecodeInput
  BY <1>7
  DEF DecodeInput, InputsTurn, Consume, TypeOK, displayVars, Turns, Replies
<1>8. CASE DecodeOutput
  <2>1. current_output \in UInt8 /\ current_output' \in 0 .. outputs_len'
    BY <1>8 DEF DecodeOutput, OutputsTurn, TypeOK, parseVars, UInt8
  <2>2. ArrayType'
    <3>1. /\ outputs \in Seq(UInt8) /\ stale \in Seq(UInt8)
          /\ Len(outputs) + Len(stale) <= BufferSlots /\ Len(outputs) < BufferSlots
          /\ outputs' = Append(outputs, current_output)
          /\ stale' = IF stale = <<>> THEN <<>> ELSE Tail(stale)
      BY <1>8 DEF DecodeOutput, TypeOK
    <3>2. outputs' \in Seq(UInt8) /\ Len(outputs') = Len(outputs) + 1
      BY <2>1, <3>1
    <3>3. stale' \in Seq(UInt8) /\ Len(stale') = IF Len(stale) = 0 THEN 0 ELSE Len(stale) - 1
      <4>1. CASE stale = <<>>
        BY <3>1, <4>1
      <4>2. CASE stale # <<>>
        BY <3>1, <4>2
      <4>. QED
        BY <4>1, <4>2
    <3>4. Len(outputs) \in Nat /\ Len(stale) \in Nat
      BY <3>1
    <3>5. display_index' \in UInt8
      BY <1>8 DEF DecodeOutput, TypeOK
    <3>6. Len(outputs') + Len(stale') <= BufferSlots
      <4>1. Len(outputs) + Len(stale) <= BufferSlots /\ Len(outputs) < BufferSlots
        BY <3>1
      <4>2. Len(outputs') = Len(outputs) + 1
        BY <3>2
      <4>3. Len(stale') <= Len(stale) /\ (Len(stale) > 0 => Len(stale') = Len(stale) - 1)
            /\ (Len(stale) = 0 => Len(stale') = 0)
        BY <3>3, <3>4
      <4>4. CASE Len(stale) = 0
        <5>1. Len(stale') = 0
          BY <4>3, <4>4
        <5>. QED
          BY <3>4, <4>1, <4>2, <5>1
      <4>5. CASE Len(stale) > 0
        <5>1. Len(stale') = Len(stale) - 1
          BY <4>3, <4>5
        <5>. QED
          BY <3>4, <4>1, <4>2, <5>1
      <4>. QED
        BY <3>4, <4>4, <4>5
    <3>. QED
      BY <3>2, <3>3, <3>5, <3>6 DEF ArrayType
  <2>3. reviewed' \in SUBSET UInt8
    BY <1>8, <2>1 DEF DecodeOutput, VerifiedNow, TypeOK
  <2>4. left' \in 0 .. MaxChunk /\ pc' \in Turns /\ reply' \in Replies
    BY <1>8 DEF DecodeOutput, Consume, TypeOK, Turns, Replies
  <2>. QED
    BY <1>8, <2>1, <2>2, <2>3, <2>4 DEF ArrayType, DecodeOutput, TypeOK, parseVars
<1>9. CASE DecodeIncomplete
  BY <1>9
  DEF DecodeIncomplete, TypeOK, context, parseVars, decodeVars, displayVars, Turns, Replies
<1>10. CASE DecodeRefused
  BY <1>10, <1>a DEF DecodeRefused, Replies
<1>11. CASE ChangeDerivationFails
  BY <1>11, <1>a DEF ChangeDerivationFails, Replies
<1>12. CASE RequestData
  BY <1>12
  DEF RequestData, Answer, TypeOK, context, parseVars, decodeVars, displayVars, Turns, Replies
<1>13. CASE DisplayOutputs
  <2>1. PICK n \in 0 .. Modulus :
            Settle(Wrap(confirmed_outputs + n), Wrap(display_index + n))
    BY <1>13 DEF DisplayOutputs
  <2>2. Wrap(confirmed_outputs + n) \in UInt8 /\ Wrap(display_index + n) \in UInt8
    BY WrapType DEF TypeOK
  <2>3. reviewed' \in SUBSET UInt8
    BY <1>13 DEF DisplayOutputs, TypeOK
  <2>. QED
    BY <2>1, <2>2, <2>3, SettleType
<1>14. CASE AddressFails
  BY <1>14, <1>a DEF AddressFails, Replies
<1>15. CASE ApproveOutput
  <2>1. PICK m \in 0 .. Modulus, n \in 0 .. Modulus :
            Settle(Wrap(Wrap(Wrap(confirmed_outputs + 1) + m) + n),
                   Wrap(Wrap(Wrap(display_index + 1) + m) + n))
    BY <1>15 DEF ApproveOutput
  <2>2. /\ Wrap(Wrap(Wrap(confirmed_outputs + 1) + m) + n) \in UInt8
        /\ Wrap(Wrap(Wrap(display_index + 1) + m) + n) \in UInt8
    BY WrapType, WrapOne DEF TypeOK
  <2>3. reviewed' \in SUBSET UInt8
    <3>1. Shown \subseteq UInt8
      BY ShownType
    <3>. QED
      BY <1>15, <3>1 DEF ApproveOutput, TypeOK
  <2>. QED
    BY <2>1, <2>2, <2>3, SettleType
<1>16. CASE RejectOutput
  BY <1>16, <1>a DEF RejectOutput, Replies
<1>17. CASE ApproveSend
  BY <1>17
  DEF ApproveSend, Answer, TypeOK, parseVars, decodeVars, displayVars, States, Turns, Screens,
      Replies
<1>18. CASE RejectSend
  BY <1>18, <1>a DEF RejectSend, Replies
<1>19. CASE Quit
  BY <1>19, <1>a DEF Quit, Replies
<1>20. CASE Sign
  <2>1. sighash' \in Digests
    BY <1>20 DEF Sign, Finalise, TypeOK
  <2>2. ArrayType'
    BY <1>20, ResetType DEF Sign
  <2>. QED
    BY <1>20, <2>1, <2>2
    DEF ArrayType, Sign, Answer, TypeOK, parseVars, decodeVars, Turns, Replies
<1>21. CASE SignRefused
  <2>1. reply' \in Replies /\ pc' \in Turns /\ screen' \in Screens
    BY <1>21 DEF SignRefused, Answer, TypeOK, Replies, Turns
  <2>2. ArrayType'
    BY <1>21, ResetType DEF SignRefused
  <2>. QED
    BY <1>21, <2>1, <2>2 DEF ArrayType, SignRefused, TypeOK, parseVars, decodeVars
<1>22. CASE SignFails
  BY <1>22, <1>a DEF SignFails, Replies
<1>23. CASE Done
  BY <1>23, <1>a DEF Done, Replies
<1>24. CASE OtherCommand
  <2>1. CASE ClearContext
    BY <1>24, <2>1, <1>c, ClearAndAnswerType DEF OtherCommand, Replies
  <2>2. CASE UNCHANGED context
    BY <1>24, <2>2
    DEF OtherCommand, Answer, TypeOK, context, parseVars, decodeVars, displayVars, Turns, Replies
  <2>. QED
    BY <1>24, <2>1, <2>2 DEF OtherCommand, TouchContext
<1>25. CASE OtherCommandAsks
  <2>1. CASE UNCHANGED context
    BY <1>25, <2>1
    DEF OtherCommandAsks, TypeOK, context, parseVars, decodeVars, displayVars, Turns, Screens,
        Replies
  <2>2. CASE ClearContext
    <3>1. pc' \in Turns /\ screen' \in Screens /\ reply' \in Replies
      BY <1>25 DEF OtherCommandAsks, Turns, Screens, Replies
    <3>. QED
      BY <2>2, <3>1, ClearType
  <2>. QED
    BY <1>25, <2>1, <2>2 DEF OtherCommandAsks, TouchContext
<1>26. CASE AnswerOther
  BY <1>26
  DEF AnswerOther, Answer, TypeOK, context, parseVars, decodeVars, displayVars, Turns, Screens,
      Replies
<1>27. CASE Restart
  BY <1>27, <1>a DEF Restart, Replies
<1>28. CASE UNCHANGED vars
  BY <1>28 DEF TypeOK, vars, context, parseVars, decodeVars, displayVars
<1>29. CASE ChunkNotHashed
  <2>1. ArrayType'
    BY <1>29, ResetType DEF ChunkNotHashed
  <2>. QED
    BY <1>29, <2>1
    DEF ArrayType, ChunkNotHashed, Answer, TypeOK, parseVars, decodeVars, Turns, Replies
<1>. QED
  BY <1>1, <1>2, <1>3, <1>4, <1>5, <1>6, <1>7, <1>8, <1>9, <1>10, <1>11, <1>12, <1>13, <1>14,
     <1>15, <1>16, <1>17, <1>18, <1>19, <1>20, <1>21, <1>22, <1>23, <1>24, <1>25, <1>26, <1>27,
     <1>28, <1>29
  DEF Next, Host, Device, User

\* The initial context has the right types.
LEMMA InitType == Init => TypeOK
<1>. SUFFICES ASSUME Init PROVE TypeOK
  OBVIOUS
<1>1. change \in SUBSET UInt8 /\ Cardinality(change) <= MaxChange
  BY FS_EmptySet DEF Init
<1>2. /\ outputs \in Seq(UInt8) /\ stale \in Seq(UInt8)
      /\ Len(outputs) = 0 /\ Len(stale) = 0
  BY DEF Init
<1>3. sighash \in Digests
  BY DEF Init, NoDigest, Digests
<1>4. /\ remaining_tokens \in 0 .. MaxTokens
      /\ remaining_inputs \in 0 .. MaxInputs
      /\ outputs_len \in UInt8
      /\ current_output \in 0 .. outputs_len
      /\ left \in 0 .. MaxChunk
      /\ change_len \in UInt8
      /\ display_index \in UInt8
      /\ confirmed_outputs \in UInt8
  BY DEF Init, UInt8
<1>5. state \in States /\ pc \in Turns /\ screen \in Screens /\ reply \in Replies
  BY DEF Init, States, Turns, Screens, Replies
<1>6. Len(outputs) + Len(stale) <= BufferSlots
  BY <1>2
<1>. QED
  BY <1>1, <1>2, <1>3, <1>4, <1>5, <1>6 DEF Init, TypeOK

\* The types hold in every reachable state: the counters stay within a byte and
\* within what the header announces, the outputs within their array.
THEOREM TypeCorrect == Spec => []TypeOK
  BY InitType, TypeStep, PTL DEF Spec

-----------------------------------------------------------------------------
(* The counters and the coverage of the decoded outputs. *)

\* The output indices in use fit in a byte, so no sum below wraps twice.
LEMMA BaseType ==
    ASSUME TypeOK, BufferInOrder
    PROVE  /\ Len(outputs) \in Nat
           /\ Base \in Nat
           /\ Base + Len(outputs) = current_output
           /\ current_output \in UInt8
           /\ current_output <= outputs_len
           /\ outputs_len \in UInt8
  BY DEF TypeOK, BufferInOrder, Base, UInt8

\* Skipping change outputs covers only outputs that were verified: as long as
\* the display index is inside the buffer, the skipped indices are those of
\* decoded outputs.
LEMMA SkipCovers ==
    ASSUME TypeOK, BufferInOrder,
           NEW r, change \cap HashedOutputs \subseteq r,
           NEW c \in UInt8, NEW d \in UInt8, Covers(c, d, r),
           NEW n \in 0 .. Modulus, Skips(c, d, n)
    PROVE  Covers(Wrap(c + n), Wrap(d + n), r)
<1>. DEFINE L == Len(outputs)
<1>1. /\ L \in Nat /\ Base \in Nat /\ Base + L = current_output
      /\ current_output \in UInt8
  BY BaseType
<1>2. \A k \in 0 .. n - 1 : c + k \in change
  BY DEF Skips
<1>3. c + n <= Modulus
  <2>1. CASE n = 0
    BY <2>1 DEF UInt8
  <2>2. CASE n > 0
    <3>1. c + (n - 1) \in change
      BY <1>2, <2>2
    <3>. QED
      BY <3>1, <2>2 DEF TypeOK, UInt8
  <2>. QED
    BY <2>1, <2>2
<1>4. c = Wrap(Base + d)
  BY DEF Covers
<1>. HIDE DEF L
<1>5. Wrap(c + n) = Wrap(Base + Wrap(d + n))
  BY <1>1, <1>3, <1>4 DEF UInt8, Wrap
<1>6. CASE d > L
  <2>1. HashedOutputs \subseteq r
    BY <1>6 DEF Covers, L
  <2>2. Wrap(d + n) <= L => 0 .. Base + Wrap(d + n) - 1 \subseteq HashedOutputs
    <3>1. Wrap(d + n) \in UInt8
      BY WrapType
    <3>2. Wrap(d + n) \in Nat
      BY <3>1 DEF UInt8
    <3>. QED
      BY <1>1, <3>2 DEF HashedOutputs
  <2>3. Wrap(d + n) <= L => 0 .. Base + Wrap(d + n) - 1 \subseteq r
    BY <2>1, <2>2
  <2>. QED
    BY <1>5, <2>1, <2>3 DEF Covers, L
<1>7. CASE d <= L
  <2>1. c = Base + d
    BY <1>1, <1>4, <1>7 DEF UInt8, Wrap
  <2>2. 0 .. c - 1 \subseteq r
    <3>1. 0 .. Base + d - 1 \subseteq r
      BY <1>7 DEF Covers, L
    <3>2. c - 1 = Base + d - 1
      BY <1>1, <2>1 DEF UInt8
    <3>. QED
      BY <3>1, <3>2
  <2>3. ASSUME NEW i \in HashedOutputs, i < c + n PROVE i \in r
    <3>1. i \in 0 .. current_output - 1
      BY DEF HashedOutputs
    <3>2. CASE i < c
      BY <2>2, <3>1, <3>2, <1>1 DEF UInt8
    <3>3. CASE i >= c
      <4>1. i - c \in 0 .. n - 1 /\ c + (i - c) = i
        BY <2>3, <3>1, <3>3, <1>1 DEF UInt8
      <4>. QED
        BY <1>2, <4>1
    <3>. QED
      BY <3>1, <3>2, <3>3, <1>1 DEF UInt8
  <2>4. CASE d + n < Modulus
    <3>1. Wrap(d + n) = d + n
      BY <2>4 DEF Wrap
    <3>2. d + n <= L => 0 .. Base + (d + n) - 1 \subseteq r
      BY <1>1, <2>1, <2>3 DEF HashedOutputs, UInt8
    <3>3. d + n > L => HashedOutputs \subseteq r
      BY <1>1, <2>1, <2>3 DEF HashedOutputs, UInt8
    <3>. QED
      BY <1>5, <3>1, <3>2, <3>3 DEF Covers, L
  <2>5. CASE d + n >= Modulus
    <3>1. Wrap(d + n) = 0 /\ Base = 0
      BY <1>1, <1>3, <2>1, <2>5 DEF Wrap, UInt8
    <3>. QED
      BY <1>1, <1>5, <3>1 DEF Covers, L
  <2>. QED
    BY <2>4, <2>5 DEF UInt8
<1>. QED
  BY <1>1, <1>6, <1>7 DEF UInt8

\* Approving the output on display covers it.
LEMMA ApprovalCovers ==
    ASSUME TypeOK, BufferInOrder, Covers(confirmed_outputs, display_index, reviewed)
    PROVE  Covers(Wrap(confirmed_outputs + 1), Wrap(display_index + 1), reviewed \cup Shown)
<1>. DEFINE L == Len(outputs)
            c == confirmed_outputs
            d == display_index
            r == reviewed \cup Shown
<1>1. /\ L \in Nat /\ Base \in Nat /\ Base + L = current_output
      /\ current_output \in UInt8
      /\ c \in UInt8 /\ d \in UInt8
  BY BaseType DEF TypeOK
<1>2. /\ c = Wrap(Base + d)
      /\ d <= L => 0 .. Base + d - 1 \subseteq r
      /\ d > L => HashedOutputs \subseteq r
  BY DEF Covers
<1>3. d < L => Base + d \in r
  <2>1. ASSUME d < L PROVE Base + d \in r
    <3>1. Len(Slots) = Len(outputs) + Len(stale) /\ Len(stale) \in Nat
      BY SlotsType DEF TypeOK
    <3>2. d + 1 \in 1 .. L /\ d < Len(Slots)
      BY <1>1, <2>1, <3>1 DEF UInt8
    <3>3. Slots[d + 1] = outputs[d + 1] /\ outputs[d + 1] = Base + (d + 1) - 1
      BY <3>2, SlotsType DEF BufferInOrder
    <3>4. Base + (d + 1) - 1 = Base + d
      BY <1>1 DEF UInt8
    <3>. QED
      BY <3>2, <3>3, <3>4 DEF Shown
  <2>. QED
    BY <2>1
<1>. HIDE DEF L, c, d, r
<1>4. Wrap(c + 1) = Wrap(Base + Wrap(d + 1))
  BY <1>1, <1>2 DEF UInt8, Wrap
<1>5. d = L => HashedOutputs \subseteq r
  BY <1>1, <1>2 DEF HashedOutputs
<1>6. Wrap(d + 1) <= L => 0 .. Base + Wrap(d + 1) - 1 \subseteq r
  <2>1. CASE d < L
    BY <1>1, <1>2, <1>3, <2>1 DEF UInt8, Wrap
  <2>2. CASE d >= L
    BY <1>1, <1>2, <1>5, <2>2 DEF HashedOutputs, UInt8, Wrap
  <2>. QED
    BY <1>1, <2>1, <2>2 DEF UInt8
<1>7. Wrap(d + 1) > L => HashedOutputs \subseteq r
  BY <1>1, <1>2, <1>5 DEF UInt8, Wrap
<1>. QED
  BY <1>4, <1>6, <1>7 DEF Covers, L, c, d, r

-----------------------------------------------------------------------------
(* The inductive invariant. *)

\* The part of IndInv that TypeStep does not establish.
Bookkeeping ==
    /\ BufferInOrder
    /\ CountersCover
    /\ ChangeIsVerified
    /\ TurnMatchesContext
    /\ ScreensMatchContext

\* A context with no output decoded and nothing on display covers.
LEMMA EmptyCovers ==
    ASSUME outputs' = <<>>, display_index' = 0, current_output' = 0, confirmed_outputs' = 0
    PROVE  BufferInOrder' /\ CountersCover' /\ ChangeIsVerified'
<1>1. Len(outputs') = 0
  OBVIOUS
<1>2. Base' = 0
  <2>1. Base' = current_output' - Len(outputs')
    BY DEF Base
  <2>2. current_output' = 0
    OBVIOUS
  <2>. QED
    BY <1>1, <2>1, <2>2
<1>3. HashedOutputs' = {}
  <2>1. HashedOutputs' = 0 .. 0 - 1
    BY DEF HashedOutputs
  <2>. QED
    BY <2>1
<1>4. BufferInOrder' /\ ChangeIsVerified'
  BY <1>1, <1>3 DEF BufferInOrder, ChangeIsVerified
<1>5. CountersCover'
  BY <1>1, <1>2, <1>3 DEF CountersCover, Covers, Wrap
<1>. QED
  BY <1>4, <1>5

\* An erased context, with the host to move, satisfies the bookkeeping.
LEMMA ClearBookkeeping ==
    ASSUME ClearContext, pc' = "host", reply' # "SIGNATURE",
           screen' \in {"menu", "processing"}
    PROVE  Bookkeeping'
<1>1. BufferInOrder' /\ CountersCover' /\ ChangeIsVerified'
  BY EmptyCovers DEF ClearContext, EmptyDisplay
<1>2. TurnMatchesContext' /\ ScreensMatchContext'
  BY DEF ClearContext, EmptyDisplay, TurnMatchesContext, ScreensMatchContext, BufferIsEmpty
<1>. QED
  BY <1>1, <1>2 DEF Bookkeeping

\* So does an erased context with a question of another command on the screen.
LEMMA ClearAndAsk ==
    ASSUME ClearContext, pc' = "user", screen' = "other", reply' = "none"
    PROVE  Bookkeeping'
<1>1. BufferInOrder' /\ CountersCover' /\ ChangeIsVerified'
  BY EmptyCovers DEF ClearContext, EmptyDisplay
<1>2. TurnMatchesContext' /\ ScreensMatchContext'
  BY DEF ClearContext, EmptyDisplay, TurnMatchesContext, ScreensMatchContext, BufferIsEmpty
<1>. QED
  BY <1>1, <1>2 DEF Bookkeeping

\* So does the context of a transaction that has just started.
LEMMA StartBookkeeping ==
    ASSUME outputs' = <<>>, display_index' = 0, current_output' = 0, confirmed_outputs' = 0,
           state' = "RECV_DATA", pc' \in {"host", "decode"}, reply' # "SIGNATURE",
           screen' \in {"menu", "processing"}
    PROVE  Bookkeeping'
<1>1. BufferInOrder' /\ CountersCover' /\ ChangeIsVerified'
  BY EmptyCovers
<1>2. TurnMatchesContext' /\ ScreensMatchContext'
  BY DEF TurnMatchesContext, ScreensMatchContext, BufferIsEmpty
<1>. QED
  BY <1>1, <1>2 DEF Bookkeeping

\* While the host is to move, no transaction screen is up.
LEMMA HostScreens ==
    ASSUME TypeOK, TurnMatchesContext, ScreensMatchContext, pc = "host"
    PROVE  screen \in {"menu", "processing"}
  BY DEF TypeOK, Screens, TurnMatchesContext, ScreensMatchContext

\* Whatever is shown or answered once counters that cover are settled.
LEMMA SettleBookkeeping ==
    ASSUME TypeOK, BufferInOrder, state = "RECV_DATA",
           change \cap HashedOutputs \subseteq reviewed',
           NEW c \in UInt8, NEW d \in UInt8, Covers(c, d, reviewed'), Settle(c, d)
    PROVE  Bookkeeping'
<1>. DEFINE L == Len(outputs)
<1>1. /\ L \in Nat /\ Base \in Nat /\ Base + L = current_output
      /\ current_output \in UInt8 /\ current_output <= outputs_len /\ outputs_len \in UInt8
  BY BaseType
<1>2. current_output' = current_output /\ change' = change /\ outputs_len' = outputs_len
  BY DEF Settle, AskToSend, AskForData, ShowOutput, parseVars, decodeVars
<1>3. HashedOutputs' = HashedOutputs
  BY <1>2 DEF HashedOutputs
<1>4. ChangeIsVerified'
  BY <1>2, <1>3 DEF ChangeIsVerified
<1>5. CASE AskToSend(c, d)
  <2>1. outputs' = outputs /\ confirmed_outputs' = c /\ display_index' = d
    BY <1>5 DEF AskToSend
  <2>2. Base' = Base /\ BufferInOrder'
    BY <1>2, <2>1 DEF Base, BufferInOrder
  <2>3. HashedOutputs \subseteq reviewed'
    <3>1. CASE d > L
      BY <3>1 DEF Covers
    <3>2. CASE d <= L
      <4>1. c = outputs_len /\ c = Base + d
        BY <1>1, <1>5, <3>2 DEF AskToSend, Covers, UInt8, Wrap
      <4>2. 0 .. Base + d - 1 \subseteq reviewed'
        BY <3>2 DEF Covers
      <4>. QED
        BY <1>1, <4>1, <4>2 DEF HashedOutputs, UInt8
    <3>. QED
      BY <1>1, <3>1, <3>2 DEF UInt8
  <2>4. CountersCover'
    BY <1>3, <2>1, <2>2, <2>3 DEF CountersCover, Covers
  <2>5. TurnMatchesContext' /\ ScreensMatchContext'
    BY <1>5 DEF AskToSend, TurnMatchesContext, ScreensMatchContext
  <2>. QED
    BY <1>4, <2>2, <2>4, <2>5 DEF Bookkeeping
<1>6. CASE AskForData(c, d)
  <2>1. outputs' = <<>> /\ confirmed_outputs' = c /\ display_index' = 0 /\ d = L
    BY <1>6 DEF AskForData, ResetDisplay
  <2>2. Len(outputs') = 0 /\ Base' = current_output
    BY <1>1, <1>2, <2>1 DEF Base, UInt8
  <2>3. BufferInOrder'
    BY <1>1, <1>2, <2>2 DEF BufferInOrder, UInt8
  <2>4. c = current_output /\ HashedOutputs \subseteq reviewed'
    BY <1>1, <2>1 DEF Covers, HashedOutputs, UInt8, Wrap
  <2>5. CountersCover'
    <3>1. state' = "RECV_DATA"
      BY <1>6 DEF AskForData
    <3>2. c = Wrap(Base' + 0) /\ 0 .. Base' + 0 - 1 = HashedOutputs
      BY <1>1, <2>2, <2>4 DEF Wrap, HashedOutputs, UInt8
    <3>. QED
      BY <1>3, <2>1, <2>2, <2>4, <3>1, <3>2 DEF CountersCover, Covers
  <2>6. TurnMatchesContext' /\ ScreensMatchContext'
    BY <1>6, <2>1
    DEF AskForData, Answer, TurnMatchesContext, ScreensMatchContext, BufferIsEmpty
  <2>. QED
    BY <1>4, <2>3, <2>5, <2>6 DEF Bookkeeping
<1>7. CASE ShowOutput(c, d)
  <2>1. outputs' = outputs /\ confirmed_outputs' = c /\ display_index' = d
    BY <1>7 DEF ShowOutput
  <2>2. Base' = Base /\ BufferInOrder'
    BY <1>2, <2>1 DEF Base, BufferInOrder
  <2>3. CountersCover'
    BY <1>3, <1>7, <2>1, <2>2 DEF ShowOutput, CountersCover, Covers
  <2>4. TurnMatchesContext' /\ ScreensMatchContext'
    BY <1>7 DEF ShowOutput, TurnMatchesContext, ScreensMatchContext
  <2>. QED
    BY <1>4, <2>2, <2>3, <2>4 DEF Bookkeeping
<1>. QED
  BY <1>5, <1>6, <1>7 DEF Settle

\* prepare_display_output from counters that cover.
LEMMA PrepareBookkeeping ==
    ASSUME TypeOK, BufferInOrder, state = "RECV_DATA",
           change \cap HashedOutputs \subseteq reviewed',
           NEW c \in UInt8, NEW d \in UInt8, Covers(c, d, reviewed'),
           NEW n \in 0 .. Modulus, Prepares(c, d, n), Settle(Wrap(c + n), Wrap(d + n))
    PROVE  Bookkeeping'
<1>1. Wrap(c + n) \in UInt8 /\ Wrap(d + n) \in UInt8
  BY WrapType
<1>2. Covers(Wrap(c + n), Wrap(d + n), reviewed')
  <2>1. CASE Stops(c, d)
    <3>1. n = 0
      BY <2>1 DEF Prepares
    <3>2. Wrap(c + n) = c /\ Wrap(d + n) = d
      BY <3>1 DEF UInt8, Wrap
    <3>. QED
      BY <3>2
  <2>2. CASE ~Stops(c, d)
    BY <2>2, SkipCovers DEF Prepares
  <2>. QED
    BY <2>1, <2>2
<1>. QED
  BY <1>1, <1>2, SettleBookkeeping

\* Every step keeps the bookkeeping.
LEMMA BookkeepingStep == IndInv /\ [Next]_vars => Bookkeeping'
<1>. SUFFICES ASSUME IndInv, [Next]_vars PROVE Bookkeeping'
  OBVIOUS
<1>. USE DEF IndInv
<1>a. ASSUME NEW sw, sw # "SIGNATURE", BackToMenu(sw) PROVE Bookkeeping'
  BY <1>a, ClearBookkeeping DEF BackToMenu, Answer
<1>b. /\ Len(outputs) \in Nat /\ Base \in Nat /\ Base + Len(outputs) = current_output
      /\ current_output \in UInt8 /\ current_output <= outputs_len /\ outputs_len \in UInt8
  BY BaseType
<1>c. pc = "host" => screen \in {"menu", "processing"}
  BY HostScreens
\* Resetting the display between two commands changes no counter that counts.
<1>d. ASSUME pc = "host", ResetDisplay, UNCHANGED <<change, current_output, confirmed_outputs, reviewed>>,
             state' = state
      PROVE  BufferInOrder' /\ CountersCover' /\ ChangeIsVerified'
  <2>1. Len(outputs') = 0
    BY <1>d DEF ResetDisplay
  <2>2. Base' = current_output /\ display_index' = 0 /\ HashedOutputs' = HashedOutputs
    <3>1. Base' = current_output' - Len(outputs')
      BY DEF Base
    <3>2. current_output' = current_output
      BY <1>d
    <3>. QED
      BY <1>b, <1>d, <2>1, <3>1, <3>2 DEF ResetDisplay, HashedOutputs, UInt8
  <2>3. BufferInOrder'
    BY <1>b, <1>d, <2>1 DEF BufferInOrder, UInt8
  <2>4. ChangeIsVerified'
    BY <1>d, <2>2 DEF ChangeIsVerified
  <2>5. CountersCover'
    <3>1. CASE state = "APPROVED"
      <4>1. HashedOutputs' \subseteq reviewed' /\ state' = "APPROVED"
        BY <1>d, <2>2, <3>1 DEF CountersCover
      <4>. QED
        BY <4>1 DEF CountersCover
    <3>2. CASE state # "APPROVED"
      <4>1. outputs = <<>> /\ display_index = 0 /\ state # "PARSED"
        BY <1>d, <3>2 DEF TurnMatchesContext, BufferIsEmpty
      <4>2. Len(outputs) = 0 /\ Base = current_output
        BY <1>b, <4>1 DEF UInt8
      <4>3. /\ confirmed_outputs = Wrap(Base + 0)
            /\ 0 .. Base + 0 - 1 \subseteq reviewed
        BY <3>2, <4>1, <4>2 DEF CountersCover, Covers
      <4>4. confirmed_outputs = Wrap(current_output + 0) /\ 0 .. current_output + 0 - 1 \subseteq reviewed
        BY <4>2, <4>3
      <4>5. /\ confirmed_outputs' = Wrap(Base' + display_index')
            /\ 0 .. Base' + display_index' - 1 \subseteq reviewed'
        BY <1>d, <2>2, <4>4
      <4>6. state' # "PARSED" /\ state' # "APPROVED" /\ ~(display_index' > Len(outputs'))
        BY <1>d, <2>1, <2>2, <3>2, <4>1
      <4>. QED
        BY <4>5, <4>6 DEF CountersCover, Covers
    <3>. QED
      BY <3>1, <3>2
  <2>. QED
    BY <2>3, <2>4, <2>5
<1>1. CASE FirstChunk
  <2>1. /\ outputs' = <<>> /\ display_index' = 0 /\ current_output' = 0 /\ confirmed_outputs' = 0
        /\ reviewed' = {} /\ state' = "RECV_DATA" /\ pc' = "decode" /\ reply' = "none"
        /\ screen' = screen /\ pc = "host"
    BY <1>1 DEF FirstChunk, StartTransaction, EmptyDisplay
  <2>. QED
    BY <1>c, <2>1, StartBookkeeping
<1>2. CASE FirstChunkFault
  <2>1. /\ outputs' = <<>> /\ display_index' = 0 /\ current_output' = 0 /\ confirmed_outputs' = 0
        /\ reviewed' = {} /\ state' = "RECV_DATA" /\ pc' = "host" /\ reply' # "SIGNATURE"
        /\ screen' = screen /\ pc = "host"
    BY <1>2
    DEF FirstChunkFault, StartTransaction, EmptyDisplay, TooMuchChange, ChangeInfoFault, HeaderCut,
        Answer
  <2>. QED
    BY <1>c, <2>1, StartBookkeeping
<1>3. CASE FirstChunkAgain
  BY <1>3, <1>c, ClearBookkeeping DEF FirstChunkAgain, Answer
<1>4. CASE NextChunk
  <2>1. BufferInOrder' /\ CountersCover' /\ ChangeIsVerified'
    BY <1>4, <1>d DEF NextChunk, parseVars
  <2>2. TurnMatchesContext' /\ ScreensMatchContext'
    BY <1>4, <1>c
    DEF NextChunk, TakesMoreData, ResetDisplay, TurnMatchesContext, ScreensMatchContext
  <2>. QED
    BY <2>1, <2>2 DEF Bookkeeping
<1>5. CASE DataRefused
  BY <1>5, <1>a DEF DataRefused
<1>6. CASE DecodeToken
  BY <1>6
  DEF DecodeToken, Consume, displayVars, Bookkeeping, BufferInOrder, CountersCover, Covers, Base,
      ChangeIsVerified, HashedOutputs, TurnMatchesContext, ScreensMatchContext, BufferIsEmpty
<1>7. CASE DecodeInput
  BY <1>7
  DEF DecodeInput, Consume, displayVars, Bookkeeping, BufferInOrder, CountersCover, Covers, Base,
      ChangeIsVerified, HashedOutputs, TurnMatchesContext, ScreensMatchContext, BufferIsEmpty
<1>8. CASE DecodeOutput
  <2>1. /\ pc = "decode" /\ state = "RECV_DATA" /\ display_index = 0
        /\ current_output < outputs_len
        /\ outputs' = Append(outputs, current_output)
        /\ current_output' = current_output + 1
        /\ reviewed' = reviewed \cup (change \cap {current_output})
        /\ pc' \in {"decode", "ready"} /\ reply' = "none"
        /\ UNCHANGED <<state, change, display_index, confirmed_outputs, screen>>
    BY <1>8
    DEF DecodeOutput, OutputsTurn, Consume, VerifiedNow, parseVars, TurnMatchesContext
  <2>2. /\ Len(outputs') = Len(outputs) + 1
        /\ \A k \in 1 .. Len(outputs) : outputs'[k] = outputs[k]
        /\ outputs'[Len(outputs) + 1] = current_output
    BY <2>1, <1>b DEF TypeOK
  <2>3. Base' = Base
    <3>1. Base' = current_output' - Len(outputs')
      BY DEF Base
    <3>. QED
      BY <1>b, <2>1, <2>2, <3>1 DEF UInt8
  <2>4. BufferInOrder'
    BY <1>b, <2>1, <2>2, <2>3 DEF BufferInOrder, UInt8
  <2>5. HashedOutputs' = HashedOutputs \cup {current_output}
    BY <1>b, <2>1 DEF HashedOutputs, UInt8
  <2>6. ChangeIsVerified'
    BY <2>1, <2>5 DEF ChangeIsVerified
  <2>7. CountersCover'
    <3>1. confirmed_outputs = Wrap(Base + 0) /\ 0 .. Base + 0 - 1 \subseteq reviewed
      BY <1>b, <2>1 DEF CountersCover, Covers
    <3>. QED
      BY <1>b, <2>1, <2>2, <2>3, <3>1 DEF CountersCover, Covers
  <2>8. TurnMatchesContext' /\ ScreensMatchContext'
    BY <2>1 DEF TurnMatchesContext, ScreensMatchContext
  <2>. QED
    BY <2>4, <2>6, <2>7, <2>8 DEF Bookkeeping
<1>9. CASE DecodeIncomplete
  BY <1>9
  DEF DecodeIncomplete, context, parseVars, decodeVars, displayVars, Bookkeeping, BufferInOrder,
      CountersCover, Covers, Base, ChangeIsVerified, HashedOutputs, TurnMatchesContext,
      ScreensMatchContext, BufferIsEmpty
<1>10. CASE DecodeRefused
  BY <1>10, <1>a DEF DecodeRefused
<1>11. CASE ChangeDerivationFails
  BY <1>11, <1>a DEF ChangeDerivationFails
<1>12. CASE RequestData
  BY <1>12
  DEF RequestData, Answer, context, parseVars, decodeVars, displayVars, Bookkeeping, BufferInOrder,
      CountersCover, Covers, Base, ChangeIsVerified, HashedOutputs, TurnMatchesContext,
      ScreensMatchContext, BufferIsEmpty
<1>13. CASE DisplayOutputs
  <2>1. PICK n \in 0 .. Modulus :
            /\ Prepares(confirmed_outputs, display_index, n)
            /\ Settle(Wrap(confirmed_outputs + n), Wrap(display_index + n))
    BY <1>13 DEF DisplayOutputs
  <2>2. /\ reviewed' = reviewed /\ state = "RECV_DATA"
        /\ confirmed_outputs \in UInt8 /\ display_index \in UInt8
    BY <1>13 DEF DisplayOutputs, TurnMatchesContext, TypeOK
  <2>3. Covers(confirmed_outputs, display_index, reviewed')
    BY <2>2 DEF CountersCover
  <2>. QED
    BY <2>1, <2>2, <2>3, PrepareBookkeeping DEF ChangeIsVerified
<1>14. CASE AddressFails
  BY <1>14, <1>a DEF AddressFails
<1>15. CASE ApproveOutput
  <2>. DEFINE c == Wrap(confirmed_outputs + 1)
              d == Wrap(display_index + 1)
  <2>1. PICK m \in 0 .. Modulus, n \in 0 .. Modulus :
            /\ Confirms(confirmed_outputs, display_index, m, n)
            /\ Settle(Wrap(Wrap(c + m) + n), Wrap(Wrap(d + m) + n))
    BY <1>15 DEF ApproveOutput
  <2>2. /\ reviewed' = reviewed \cup Shown /\ state = "RECV_DATA"
        /\ c \in UInt8 /\ d \in UInt8
        /\ Wrap(c + m) \in UInt8 /\ Wrap(d + m) \in UInt8
    BY <1>15, WrapOne, WrapType DEF ApproveOutput, ScreensMatchContext, TypeOK
  <2>3. change \cap HashedOutputs \subseteq reviewed'
    BY <2>2 DEF ChangeIsVerified
  <2>4. Covers(c, d, reviewed')
    BY <2>2, ApprovalCovers DEF CountersCover
  <2>5. /\ Skips(c, d, m)
        /\ IF m > 0 /\ Stops(Wrap(c + m), Wrap(d + m))
           THEN n = 0 ELSE Prepares(Wrap(c + m), Wrap(d + m), n)
    BY <2>1 DEF Confirms
  <2>. HIDE DEF c, d
  <2>6. Covers(Wrap(c + m), Wrap(d + m), reviewed')
    BY <2>2, <2>3, <2>4, <2>5, SkipCovers
  <2>7. CASE n = 0
    <3>1. Wrap(Wrap(c + m) + n) = Wrap(c + m) /\ Wrap(Wrap(d + m) + n) = Wrap(d + m)
      BY <2>2, <2>7 DEF UInt8, Wrap
    <3>. QED
      BY <2>1, <2>2, <2>3, <2>6, <3>1, SettleBookkeeping
  <2>8. CASE Prepares(Wrap(c + m), Wrap(d + m), n)
    BY <2>1, <2>2, <2>3, <2>6, <2>8, PrepareBookkeeping
  <2>. QED
    BY <2>5, <2>7, <2>8
<1>16. CASE RejectOutput
  BY <1>16, <1>a DEF RejectOutput
<1>17. CASE ApproveSend
  BY <1>17
  DEF ApproveSend, Answer, parseVars, decodeVars, displayVars, Bookkeeping, BufferInOrder,
      CountersCover, Covers, Base, ChangeIsVerified, HashedOutputs, TurnMatchesContext,
      ScreensMatchContext
<1>18. CASE RejectSend
  BY <1>18, <1>a DEF RejectSend
<1>19. CASE Quit
  BY <1>19, <1>a DEF Quit
<1>20. CASE Sign
  <2>1. BufferInOrder' /\ CountersCover' /\ ChangeIsVerified'
    BY <1>20, <1>d DEF Sign, parseVars, decodeVars
  <2>2. TurnMatchesContext' /\ ScreensMatchContext'
    BY <1>20, <1>c
    DEF Sign, MaySign, Answer, ResetDisplay, TurnMatchesContext, ScreensMatchContext
  <2>. QED
    BY <2>1, <2>2 DEF Bookkeeping
<1>21. CASE SignRefused
  <2>1. BufferInOrder' /\ CountersCover' /\ ChangeIsVerified'
    BY <1>21, <1>d DEF SignRefused, parseVars, decodeVars
  <2>2. pc' = "host" /\ screen' = screen /\ reply' # "SIGNATURE"
    BY <1>21 DEF SignRefused, Answer
  <2>3. TurnMatchesContext' /\ ScreensMatchContext'
    BY <1>21, <1>c, <2>2
    DEF SignRefused, ResetDisplay, TurnMatchesContext, ScreensMatchContext, BufferIsEmpty
  <2>. QED
    BY <2>1, <2>3 DEF Bookkeeping
<1>22. CASE SignFails
  BY <1>22, <1>a DEF SignFails
<1>23. CASE Done
  BY <1>23, <1>a DEF Done
<1>24. CASE OtherCommand
  <2>1. CASE ClearContext
    BY <1>24, <1>c, <2>1, ClearBookkeeping DEF OtherCommand, Answer
  <2>2. CASE UNCHANGED context
    BY <1>24, <2>2
    DEF OtherCommand, Answer, context, parseVars, decodeVars, displayVars, Bookkeeping,
        BufferInOrder, CountersCover, Covers, Base, ChangeIsVerified, HashedOutputs,
        TurnMatchesContext, ScreensMatchContext, BufferIsEmpty
  <2>. QED
    BY <1>24, <2>1, <2>2 DEF OtherCommand, TouchContext
<1>25. CASE OtherCommandAsks
  <2>1. CASE ClearContext
    BY <1>25, <2>1, ClearAndAsk DEF OtherCommandAsks
  <2>2. CASE UNCHANGED context
    BY <1>25, <2>2
    DEF OtherCommandAsks, context, parseVars, decodeVars, displayVars, Bookkeeping,
        BufferInOrder, CountersCover, Covers, Base, ChangeIsVerified, HashedOutputs,
        TurnMatchesContext, ScreensMatchContext, BufferIsEmpty
  <2>. QED
    BY <1>25, <2>1, <2>2 DEF OtherCommandAsks, TouchContext
<1>26. CASE AnswerOther
  BY <1>26
  DEF AnswerOther, Answer, context, parseVars, decodeVars, displayVars, Bookkeeping, BufferInOrder,
      CountersCover, Covers, Base, ChangeIsVerified, HashedOutputs, TurnMatchesContext,
      ScreensMatchContext, BufferIsEmpty
<1>27. CASE Restart
  BY <1>27, <1>a DEF Restart
<1>28. CASE UNCHANGED vars
  BY <1>28
  DEF vars, context, parseVars, decodeVars, displayVars, Bookkeeping, BufferInOrder,
      CountersCover, Covers, Base, ChangeIsVerified, HashedOutputs, TurnMatchesContext,
      ScreensMatchContext, BufferIsEmpty
<1>29. CASE ChunkNotHashed
  <2>1. BufferInOrder' /\ CountersCover' /\ ChangeIsVerified'
    BY <1>29, <1>d DEF ChunkNotHashed, parseVars, decodeVars
  <2>2. TurnMatchesContext' /\ ScreensMatchContext'
    BY <1>29, <1>c
    DEF ChunkNotHashed, TakesMoreData, ResetDisplay, Answer, TurnMatchesContext,
        ScreensMatchContext, BufferIsEmpty
  <2>. QED
    BY <2>1, <2>2 DEF Bookkeeping
<1>. QED
  BY <1>1, <1>2, <1>3, <1>4, <1>5, <1>6, <1>7, <1>8, <1>9, <1>10, <1>11, <1>12, <1>13, <1>14,
     <1>15, <1>16, <1>17, <1>18, <1>19, <1>20, <1>21, <1>22, <1>23, <1>24, <1>25, <1>26, <1>27,
     <1>28, <1>29
  DEF Next, Host, Device, User

-----------------------------------------------------------------------------
(* The theorems. *)

\* The inductive invariant holds in every reachable state.
THEOREM Invariance == Spec => []IndInv
<1>1. Init => IndInv
  <2>. SUFFICES ASSUME Init PROVE IndInv
    OBVIOUS
  <2>1. TypeOK
    BY InitType
  <2>2. Len(outputs) = 0 /\ Base = 0
    <3>1. Len(outputs) = 0
      BY DEF Init
    <3>2. current_output = 0
      BY DEF Init
    <3>. QED
      BY <3>1, <3>2 DEF Base
  <2>3. HashedOutputs = {}
    <3>1. HashedOutputs = 0 .. 0 - 1
      BY DEF Init, HashedOutputs
    <3>. QED
      BY <3>1
  <2>4. BufferInOrder /\ ChangeIsVerified
    BY <2>2, <2>3 DEF Init, BufferInOrder, ChangeIsVerified
  <2>5. CountersCover
    BY <2>2, <2>3 DEF Init, CountersCover, Covers, Wrap
  <2>6. TurnMatchesContext /\ ScreensMatchContext
    BY DEF Init, TurnMatchesContext, ScreensMatchContext, BufferIsEmpty
  <2>. QED
    BY <2>1, <2>4, <2>5, <2>6 DEF IndInv
<1>2. IndInv /\ [Next]_vars => IndInv'
  BY TypeStep, BookkeepingStep DEF IndInv, Bookkeeping
<1>. QED
  BY <1>1, <1>2, PTL DEF Spec

\* While the host may move, nothing decoded is unreviewed.
LEMMA HostTurnReviewed == IndInv => HostTurnMeansReviewed
<1>. SUFFICES ASSUME IndInv, pc = "host", state \in {"RECV_DATA", "APPROVED"}
              PROVE  HashedOutputs \subseteq reviewed
  BY DEF HostTurnMeansReviewed
<1>1. CASE state = "APPROVED"
  BY <1>1 DEF IndInv, CountersCover
<1>2. CASE state = "RECV_DATA"
  <2>1. outputs = <<>> /\ display_index = 0
    BY <1>2 DEF IndInv, TurnMatchesContext, BufferIsEmpty
  <2>2. Len(outputs) = 0 /\ Base = current_output /\ current_output \in Nat
    BY <2>1, BaseType DEF IndInv, UInt8
  <2>3. 0 .. Base + 0 - 1 \subseteq reviewed
    BY <1>2, <2>1, <2>2 DEF IndInv, CountersCover, Covers
  <2>4. Base + 0 - 1 = current_output - 1
    BY <2>2
  <2>. QED
    BY <2>3, <2>4 DEF HashedOutputs
<1>. QED
  BY <1>1, <1>2

\* SW_OK to a chunk, and every other turn of the host inside a transaction,
\* means that all decoded outputs were reviewed (sign_tx.c:513, display.c:214).
THEOREM HostTurnCorrect == Spec => []HostTurnMeansReviewed
  BY Invariance, HostTurnReviewed, PTL

\* Only reviewed outputs are signed (the SIGN stage, sign_tx.c:540-553).
THEOREM SigningCorrect == Spec => []SignedOutputsReviewed
<1>1. IndInv => SignedOutputsReviewed
  BY DEF IndInv, TurnMatchesContext, CountersCover, SignedOutputsReviewed
<1>. QED
  BY <1>1, Invariance, PTL

\* The approve and reject buttons of a transaction are shown only with the
\* context they are about (display.c:165-200 and 335-357).
THEOREM ScreensCorrect == Spec => []ScreensMatchContext
<1>1. IndInv => ScreensMatchContext
  BY DEF IndInv
<1>. QED
  BY <1>1, Invariance, PTL

-----------------------------------------------------------------------------
(* No change output is put before the user. *)

\* A walk that skips n outputs ends inside a byte or just behind it.
LEMMA SkippedFit ==
    ASSUME TypeOK, NEW c \in UInt8, NEW n \in 0 .. Modulus,
           \A k \in 0 .. n - 1 : c + k \in change
    PROVE  c + n <= Modulus /\ (n = 0 => c + n < Modulus)
<1>1. CASE n = 0
  BY <1>1 DEF UInt8
<1>2. CASE n > 0
  <2>1. n - 1 \in 0 .. n - 1
    BY <1>2
  <2>2. c + (n - 1) \in change
    BY <2>1
  <2>3. c + (n - 1) \in UInt8
    BY <2>2 DEF TypeOK
  <2>. QED
    BY <1>2, <2>3 DEF UInt8
<1>. QED
  BY <1>1, <1>2

\* Where the walk over the change outputs leads to an output that is put on
\* display, that output is none of them.  The counter could only wrap around
\* past outputs_len, and there the walk stops, unless it begins behind it.
LEMMA PreparedIsNotChange ==
    ASSUME TypeOK, NEW c \in UInt8, NEW d \in UInt8, NEW n \in 0 .. Modulus,
           Prepares(c, d, n), ~Stops(Wrap(c + n), Wrap(d + n)),
           c <= outputs_len \/ c \notin change
    PROVE  Wrap(c + n) \notin change
<1>1. ~Stops(c, d)
  <2>1. SUFFICES ASSUME Stops(c, d) PROVE FALSE
    OBVIOUS
  <2>2. n = 0
    BY <2>1 DEF Prepares
  <2>3. Wrap(c + n) = c /\ Wrap(d + n) = d
    BY <2>2 DEF Wrap, UInt8
  <2>. QED
    BY <2>1, <2>3
<1>2. Skips(c, d, n)
  BY <1>1 DEF Prepares
<1>3. \A k \in 0 .. n - 1 : c + k \in change
  BY <1>2 DEF Skips
<1>4. \A k \in 1 .. n - 1 : ~Stops(Wrap(c + k), Wrap(d + k))
  BY <1>2 DEF Skips
<1>5. c + n \notin change
  BY <1>2 DEF Skips
<1>6. c + n <= Modulus /\ (n = 0 => c + n < Modulus)
  BY <1>3, SkippedFit
<1>7. CASE c + n < Modulus
  BY <1>5, <1>7 DEF Wrap
<1>8. CASE c + n = Modulus
  <2>1. n > 0
    BY <1>6, <1>8
  <2>2. c + 0 \in change
    BY <1>3, <2>1
  <2>3. c \in change
    BY <2>2 DEF UInt8
  <2>4. c <= outputs_len /\ outputs_len \in UInt8
    BY <2>3 DEF TypeOK
  <2>5. outputs_len # c
    BY <1>1 DEF Stops
  <2>6. outputs_len - c \in 1 .. n - 1 /\ c + (outputs_len - c) = outputs_len
    BY <1>8, <2>4, <2>5 DEF UInt8
  <2>7. Wrap(c + (outputs_len - c)) = outputs_len
    BY <2>4, <2>6 DEF Wrap, UInt8
  <2>. QED
    BY <1>4, <2>6, <2>7 DEF Stops
<1>9. c + n < Modulus \/ c + n = Modulus
  BY <1>6 DEF UInt8
<1>. QED
  BY <1>7, <1>8, <1>9

\* So it is where ui_confirm_output leads, which skips twice: the first walk
\* ends on an output that is no change output, or wraps to the first one.
LEMMA ConfirmedIsNotChange ==
    ASSUME TypeOK, NEW c \in UInt8, NEW d \in UInt8,
           NEW m \in 0 .. Modulus, NEW n \in 0 .. Modulus,
           Skips(c, d, m),
           IF m > 0 /\ Stops(Wrap(c + m), Wrap(d + m))
           THEN n = 0 ELSE Prepares(Wrap(c + m), Wrap(d + m), n),
           ~Stops(Wrap(Wrap(c + m) + n), Wrap(Wrap(d + m) + n))
    PROVE  Wrap(Wrap(c + m) + n) \notin change
<1>1. Wrap(c + m) \in UInt8 /\ Wrap(d + m) \in UInt8
  BY WrapType
<1>2. CASE m > 0 /\ Stops(Wrap(c + m), Wrap(d + m))
  <2>1. Wrap(Wrap(c + m) + n) = Wrap(c + m) /\ Wrap(Wrap(d + m) + n) = Wrap(d + m)
    BY <1>1, <1>2 DEF Wrap, UInt8
  <2>. QED
    BY <1>2, <2>1
<1>3. CASE ~(m > 0 /\ Stops(Wrap(c + m), Wrap(d + m)))
  <2>1. Prepares(Wrap(c + m), Wrap(d + m), n)
    BY <1>3
  <2>2. \A k \in 0 .. m - 1 : c + k \in change
    BY DEF Skips
  <2>3. c + m \notin change
    BY <1>3 DEF Skips
  <2>4. c + m <= Modulus
    BY <2>2, SkippedFit
  <2>5. CASE c + m < Modulus
    <3>1. Wrap(c + m) \notin change
      BY <2>3, <2>5 DEF Wrap
    <3>. QED
      BY <1>1, <2>1, <3>1, PreparedIsNotChange
  <2>6. CASE c + m >= Modulus
    <3>1. Wrap(c + m) <= outputs_len
      BY <2>4, <2>6 DEF Wrap, TypeOK, UInt8
    <3>. QED
      BY <1>1, <2>1, <3>1, PreparedIsNotChange
  <2>7. c + m \in Nat
    BY DEF UInt8
  <2>. QED
    BY <2>5, <2>6, <2>7
<1>. QED
  BY <1>2, <1>3

\* Settled counters put an output on display only between their ends.
LEMMA SettledOnDisplay ==
    ASSUME NEW c, NEW d, Settle(c, d), screen' = "output"
    PROVE  /\ ~Stops(c, d)
           /\ confirmed_outputs' = c /\ display_index' = d
           /\ outputs' = outputs /\ change' = change
  BY DEF Settle, AskToSend, AskForData, ShowOutput, Answer, parseVars

\* What a step does to the display: it erases it, or ends its use until the next
\* chunk, or fills it, or moves it on, or leaves it alone.
LEMMA DisplayEffect ==
    ASSUME IndInv, [Next]_vars
    PROVE  \/ /\ EmptyDisplay
              /\ current_output' = 0 /\ screen' # "output"
              /\ change_len' > MaxChange => outputs_len' = 0
           \/ /\ ResetDisplay
              /\ UNCHANGED <<change, change_len, outputs_len, current_output>>
              /\ screen' # "output"
           \/ DecodeOutput \/ DisplayOutputs \/ ApproveOutput
           \/ /\ UNCHANGED <<change, change_len, outputs_len, current_output, outputs, stale,
                             display_index, confirmed_outputs>>
              /\ screen' = "output" => screen = "output"
<1>. DEFINE Erased ==
              /\ EmptyDisplay
              /\ current_output' = 0 /\ screen' # "output"
              /\ change_len' > MaxChange => outputs_len' = 0
            Freed ==
              /\ ResetDisplay
              /\ UNCHANGED <<change, change_len, outputs_len, current_output>>
              /\ screen' # "output"
            Moved == DecodeOutput \/ DisplayOutputs \/ ApproveOutput
            Kept ==
              /\ UNCHANGED <<change, change_len, outputs_len, current_output, outputs, stale,
                             display_index, confirmed_outputs>>
              /\ screen' = "output" => screen = "output"
<1>. SUFFICES Erased \/ Freed \/ Moved \/ Kept
  OBVIOUS
<1>1. pc # "user" => screen # "output"
  BY DEF IndInv, ScreensMatchContext
<1>2. ASSUME ClearContext, screen' # "output" PROVE Erased
  <2>1. change_len' = 0 /\ outputs_len' = 0 /\ current_output' = 0 /\ EmptyDisplay
    BY <1>2 DEF ClearContext
  <2>. QED
    BY <1>2, <2>1
<1>3. ASSUME NEW sw, BackToMenu(sw) PROVE Erased
  BY <1>2, <1>3 DEF BackToMenu, Answer
<1>4. CASE FirstChunk
  <2>1. EmptyDisplay /\ current_output' = 0 /\ screen' # "output" /\ ChangeRead
    BY <1>1, <1>4 DEF FirstChunk, StartTransaction
  <2>2. ~(change_len' > MaxChange)
    <3>1. change_len' \in UInt8 /\ change_len' <= MaxChange
      BY <2>1, ChangeReadType
    <3>. QED
      BY <3>1 DEF UInt8
  <2>. QED
    BY <2>1, <2>2
<1>5. CASE FirstChunkFault
  <2>1. EmptyDisplay /\ current_output' = 0 /\ screen' # "output" /\ outputs_len' = 0
    BY <1>1, <1>5
    DEF FirstChunkFault, StartTransaction, TooMuchChange, ChangeInfoFault, HeaderCut,
        HeaderUnread, Answer
  <2>. QED
    BY <2>1
<1>6. CASE FirstChunkAgain
  BY <1>1, <1>2, <1>6 DEF FirstChunkAgain, Answer
<1>7. CASE OtherCommand \/ OtherCommandAsks
  <2>1. screen' # "output"
    BY <1>1, <1>7 DEF OtherCommand, OtherCommandAsks, Answer
  <2>2. CASE ClearContext
    BY <1>2, <2>1, <2>2
  <2>3. CASE UNCHANGED context
    BY <2>1, <2>3 DEF context, parseVars, decodeVars, displayVars
  <2>. QED
    BY <1>7, <2>2, <2>3 DEF OtherCommand, OtherCommandAsks, TouchContext
<1>8. CASE NextChunk \/ ChunkNotHashed \/ Sign \/ SignRefused
  <2>1. Freed
    BY <1>1, <1>8
    DEF NextChunk, ChunkNotHashed, Sign, SignRefused, Answer, parseVars, decodeVars
  <2>. QED
    BY <2>1
<1>9. CASE DataRefused \/ SignFails \/ Done
  BY <1>3, <1>9 DEF DataRefused, SignFails, Done
<1>10. CASE DecodeToken \/ DecodeInput
  BY <1>1, <1>10 DEF DecodeToken, DecodeInput, displayVars
<1>11. CASE DecodeIncomplete \/ RequestData
  BY <1>1, <1>11
  DEF DecodeIncomplete, RequestData, Answer, context, parseVars, decodeVars, displayVars
<1>12. CASE DecodeRefused \/ ChangeDerivationFails \/ AddressFails
  BY <1>3, <1>12 DEF DecodeRefused, ChangeDerivationFails, AddressFails
<1>13. CASE RejectOutput \/ RejectSend \/ Quit \/ Restart
  BY <1>3, <1>13 DEF RejectOutput, RejectSend, Quit, Restart
<1>14. CASE ApproveSend
  BY <1>14 DEF ApproveSend, Answer, parseVars, decodeVars, displayVars
<1>15. CASE AnswerOther
  BY <1>15 DEF AnswerOther, Answer, context, parseVars, decodeVars, displayVars
<1>16. CASE UNCHANGED vars
  BY <1>16 DEF vars, context, parseVars, decodeVars, displayVars
<1>17. CASE Moved
  BY <1>17
<1>. QED
  BY <1>4, <1>5, <1>6, <1>7, <1>8, <1>9, <1>10, <1>11, <1>12, <1>13, <1>14, <1>15, <1>16, <1>17
  DEF Next, Host, Device, User

\* Every step keeps the change outputs off the screen, and the index on display
\* off the end of the buffer.
LEMMA ChangeNotAskedStep == IndInv /\ ChangeNotAsked /\ [Next]_vars => ChangeNotAsked'
<1>. SUFFICES ASSUME IndInv, ChangeNotAsked, [Next]_vars, screen' = "output"
              PROVE  confirmed_outputs' \notin change' /\ display_index' # Len(outputs')
  BY DEF ChangeNotAsked
<1>1. TypeOK /\ confirmed_outputs \in UInt8 /\ display_index \in UInt8
  BY DEF IndInv, TypeOK
<1>2. CASE DisplayOutputs
  <2>1. PICK n \in 0 .. Modulus :
            /\ Prepares(confirmed_outputs, display_index, n)
            /\ Settle(Wrap(confirmed_outputs + n), Wrap(display_index + n))
    BY <1>2 DEF DisplayOutputs
  <2>2. /\ ~Stops(Wrap(confirmed_outputs + n), Wrap(display_index + n))
        /\ confirmed_outputs' = Wrap(confirmed_outputs + n)
        /\ display_index' = Wrap(display_index + n)
        /\ outputs' = outputs /\ change' = change
    BY <2>1, SettledOnDisplay
  <2>3. state = "RECV_DATA" /\ display_index = 0
    BY <1>2 DEF DisplayOutputs, IndInv, TurnMatchesContext
  <2>4. confirmed_outputs <= outputs_len
    <3>1. /\ Base \in Nat /\ Base <= current_output
          /\ current_output \in UInt8 /\ current_output <= outputs_len /\ outputs_len \in UInt8
      <4>1. /\ Len(outputs) \in Nat /\ Base \in Nat /\ Base + Len(outputs) = current_output
            /\ current_output \in UInt8 /\ current_output <= outputs_len /\ outputs_len \in UInt8
        BY BaseType DEF IndInv
      <4>. QED
        BY <4>1 DEF UInt8
    <3>2. confirmed_outputs = Wrap(Base + 0)
      BY <2>3 DEF IndInv, CountersCover, Covers
    <3>. QED
      BY <3>1, <3>2 DEF Wrap, UInt8
  <2>5. Wrap(confirmed_outputs + n) \notin change
    BY <1>1, <2>1, <2>2, <2>4, PreparedIsNotChange
  <2>. QED
    BY <2>2, <2>5 DEF Stops
<1>3. CASE ApproveOutput
  <2>1. PICK m \in 0 .. Modulus, n \in 0 .. Modulus :
            /\ Confirms(confirmed_outputs, display_index, m, n)
            /\ Settle(Wrap(Wrap(Wrap(confirmed_outputs + 1) + m) + n),
                      Wrap(Wrap(Wrap(display_index + 1) + m) + n))
    BY <1>3 DEF ApproveOutput
  <2>2. /\ ~Stops(Wrap(Wrap(Wrap(confirmed_outputs + 1) + m) + n),
                  Wrap(Wrap(Wrap(display_index + 1) + m) + n))
        /\ confirmed_outputs' = Wrap(Wrap(Wrap(confirmed_outputs + 1) + m) + n)
        /\ display_index' = Wrap(Wrap(Wrap(display_index + 1) + m) + n)
        /\ outputs' = outputs /\ change' = change
    BY <2>1, SettledOnDisplay
  <2>3. Wrap(confirmed_outputs + 1) \in UInt8 /\ Wrap(display_index + 1) \in UInt8
    BY <1>1, WrapOne
  <2>4. /\ Skips(Wrap(confirmed_outputs + 1), Wrap(display_index + 1), m)
        /\ IF m > 0 /\ Stops(Wrap(Wrap(confirmed_outputs + 1) + m), Wrap(Wrap(display_index + 1) + m))
           THEN n = 0
           ELSE Prepares(Wrap(Wrap(confirmed_outputs + 1) + m), Wrap(Wrap(display_index + 1) + m), n)
    BY <2>1 DEF Confirms
  <2>5. Wrap(Wrap(Wrap(confirmed_outputs + 1) + m) + n) \notin change
    BY <1>1, <2>2, <2>3, <2>4, ConfirmedIsNotChange
  <2>. QED
    BY <2>2, <2>5 DEF Stops
<1>4. CASE DecodeOutput
  <2>1. pc # "user" /\ screen' = screen
    BY <1>4 DEF DecodeOutput
  <2>. QED
    BY <2>1 DEF IndInv, ScreensMatchContext
<1>5. CASE /\ UNCHANGED <<change, outputs, display_index, confirmed_outputs>>
           /\ screen = "output"
  BY <1>5 DEF ChangeNotAsked
<1>. QED
  BY <1>2, <1>3, <1>4, <1>5, DisplayEffect

-----------------------------------------------------------------------------
(* What the display shows. *)

\* The walk over the change outputs takes the display index past the end of the
\* buffer only over the output that is decoded next.
LEMMA SkipBeyond ==
    ASSUME TypeOK, BufferInOrder, NEW r, NEW c \in UInt8, NEW d \in UInt8,
           Covers(c, d, r), d > Len(outputs) => current_output \in change,
           NEW n \in 0 .. Modulus, Skips(c, d, n)
    PROVE  Wrap(d + n) > Len(outputs) => current_output \in change
<1>. DEFINE L == Len(outputs)
<1>1. /\ L \in Nat /\ Base \in Nat /\ Base + L = current_output
      /\ current_output \in UInt8
  BY BaseType
<1>2. \A k \in 0 .. n - 1 : c + k \in change
  BY DEF Skips
<1>3. c + n <= Modulus
  BY <1>2, SkippedFit
<1>4. c = Wrap(Base + d)
  BY DEF Covers
<1>. HIDE DEF L
<1>5. CASE d > L
  BY <1>5 DEF L
<1>6. CASE d <= L
  <2>1. c = Base + d
    BY <1>1, <1>4, <1>6 DEF UInt8, Wrap
  <2>2. CASE Wrap(d + n) > L
    <3>1. L - d \in 0 .. n - 1 /\ c + (L - d) = current_output
      BY <1>1, <1>3, <1>6, <2>1, <2>2 DEF UInt8, Wrap
    <3>. QED
      BY <1>2, <3>1
  <2>. QED
    BY <2>2 DEF L
<1>. QED
  BY <1>1, <1>5, <1>6 DEF UInt8

\* So does prepare_display_output.
LEMMA PrepareBeyond ==
    ASSUME TypeOK, BufferInOrder, NEW r, NEW c \in UInt8, NEW d \in UInt8,
           Covers(c, d, r), d > Len(outputs) => current_output \in change,
           NEW n \in 0 .. Modulus, Prepares(c, d, n)
    PROVE  Wrap(d + n) > Len(outputs) => current_output \in change
<1>1. CASE n = 0
  BY <1>1 DEF Wrap, UInt8
<1>2. CASE Skips(c, d, n)
  BY <1>2, SkipBeyond
<1>. QED
  BY <1>1, <1>2 DEF Prepares

\* Settling keeps the display index, or starts the next buffer.
LEMMA SettleBeyond ==
    ASSUME NEW c, NEW d, Settle(c, d), d > Len(outputs) => current_output \in change
    PROVE  BeyondIsChange'
<1>1. CASE AskForData(c, d)
  <2>1. display_index' = 0 /\ Len(outputs') = 0
    BY <1>1 DEF AskForData, ResetDisplay
  <2>. QED
    BY <2>1 DEF BeyondIsChange
<1>2. CASE AskToSend(c, d) \/ ShowOutput(c, d)
  BY <1>2 DEF AskToSend, ShowOutput, parseVars, decodeVars, BeyondIsChange
<1>. QED
  BY <1>1, <1>2 DEF Settle

\* Every step keeps the display index in the buffer unless a change output is to
\* come.
LEMMA BeyondStep ==
    IndInv /\ ChangeNotAsked /\ BeyondIsChange /\ [Next]_vars => BeyondIsChange'
<1>. SUFFICES ASSUME IndInv, ChangeNotAsked, BeyondIsChange, [Next]_vars
              PROVE  BeyondIsChange'
  OBVIOUS
<1>1. /\ TypeOK /\ BufferInOrder /\ CountersCover /\ ChangeIsVerified
      /\ TurnMatchesContext /\ ScreensMatchContext
      /\ confirmed_outputs \in UInt8 /\ display_index \in UInt8
  BY DEF IndInv, TypeOK
<1>2. Len(outputs) \in Nat
  BY <1>1, BaseType
<1>3. CASE display_index' = 0 /\ Len(outputs') \in Nat
  BY <1>3 DEF BeyondIsChange
<1>4. CASE EmptyDisplay \/ ResetDisplay
  <2>1. display_index' = 0 /\ Len(outputs') = 0
    BY <1>4 DEF EmptyDisplay, ResetDisplay
  <2>. QED
    BY <1>3, <2>1
<1>5. CASE DecodeOutput
  <2>1. display_index' = 0
    BY <1>1, <1>5 DEF DecodeOutput, TurnMatchesContext
  <2>2. Len(outputs') = Len(outputs) + 1
    BY <1>1, <1>5 DEF DecodeOutput, TypeOK
  <2>. QED
    BY <1>2, <1>3, <2>1, <2>2
<1>6. CASE DisplayOutputs
  <2>1. PICK n \in 0 .. Modulus :
            /\ Prepares(confirmed_outputs, display_index, n)
            /\ Settle(Wrap(confirmed_outputs + n), Wrap(display_index + n))
    BY <1>6 DEF DisplayOutputs
  <2>2. Covers(confirmed_outputs, display_index, reviewed)
    BY <1>1, <1>6 DEF DisplayOutputs, TurnMatchesContext, CountersCover
  <2>3. Wrap(display_index + n) > Len(outputs) => current_output \in change
    BY <1>1, <2>1, <2>2, PrepareBeyond DEF BeyondIsChange
  <2>. QED
    BY <2>1, <2>3, SettleBeyond
<1>7. CASE ApproveOutput
  <2>. DEFINE c == Wrap(confirmed_outputs + 1)
              d == Wrap(display_index + 1)
              r == reviewed \cup Shown
  <2>1. PICK m \in 0 .. Modulus, n \in 0 .. Modulus :
            /\ Confirms(confirmed_outputs, display_index, m, n)
            /\ Settle(Wrap(Wrap(c + m) + n), Wrap(Wrap(d + m) + n))
    BY <1>7 DEF ApproveOutput
  <2>2. /\ c \in UInt8 /\ d \in UInt8
        /\ Wrap(c + m) \in UInt8 /\ Wrap(d + m) \in UInt8
    BY <1>1, WrapOne, WrapType
  <2>3. Covers(c, d, r)
    BY <1>1, <1>7, ApprovalCovers DEF ApproveOutput, ScreensMatchContext, CountersCover
  <2>4. change \cap HashedOutputs \subseteq r
    BY <1>1 DEF ChangeIsVerified
  <2>5. /\ Skips(c, d, m)
        /\ IF m > 0 /\ Stops(Wrap(c + m), Wrap(d + m))
           THEN n = 0 ELSE Prepares(Wrap(c + m), Wrap(d + m), n)
    BY <2>1 DEF Confirms
  <2>6. d > Len(outputs) => current_output \in change
    <3>1. display_index # Len(outputs)
      BY <1>7 DEF ApproveOutput, ChangeNotAsked
    <3>2. CASE display_index > Len(outputs)
      BY <3>2 DEF BeyondIsChange
    <3>3. CASE display_index < Len(outputs)
      BY <1>1, <1>2, <3>3 DEF UInt8, Wrap
    <3>. QED
      BY <1>1, <1>2, <3>1, <3>2, <3>3 DEF UInt8
  <2>. HIDE DEF c, d, r
  <2>7. /\ Covers(Wrap(c + m), Wrap(d + m), r)
        /\ Wrap(d + m) > Len(outputs) => current_output \in change
    BY <1>1, <2>2, <2>3, <2>4, <2>5, <2>6, SkipCovers, SkipBeyond
  <2>8. Wrap(Wrap(d + m) + n) > Len(outputs) => current_output \in change
    <3>1. CASE n = 0
      BY <2>2, <2>7, <3>1 DEF Wrap, UInt8
    <3>2. CASE Prepares(Wrap(c + m), Wrap(d + m), n)
      BY <1>1, <2>2, <2>7, <3>2, PrepareBeyond
    <3>. QED
      BY <2>5, <3>1, <3>2
  <2>. QED
    BY <2>1, <2>8, SettleBeyond
<1>8. CASE UNCHANGED <<change, current_output, outputs, display_index>>
  BY <1>8 DEF BeyondIsChange
<1>. QED
  BY <1>4, <1>5, <1>6, <1>7, <1>8, DisplayEffect

\* A reset leaves outputs of this transaction behind.
LEMMA ResetIsHashed ==
    ASSUME TypeOK, BufferInOrder, StaleIsHashed, ResetDisplay, UNCHANGED current_output
    PROVE  StaleIsHashed'
<1>1. /\ outputs \in Seq(UInt8) /\ stale \in Seq(UInt8)
      /\ stale' = outputs \o stale /\ HashedOutputs' = HashedOutputs
  BY DEF TypeOK, ResetDisplay, HashedOutputs
<1>2. ASSUME NEW k \in 1 .. Len(outputs) PROVE outputs[k] \in HashedOutputs
  <2>1. /\ Len(outputs) \in Nat /\ Base \in Nat /\ Base + Len(outputs) = current_output
        /\ current_output \in UInt8
    BY BaseType
  <2>2. outputs[k] = Base + k - 1
    BY DEF BufferInOrder
  <2>. QED
    BY <2>1, <2>2 DEF HashedOutputs, UInt8
<1>3. \A k \in 1 .. Len(stale) : stale[k] \in HashedOutputs
  BY DEF StaleIsHashed
<1>4. \A k \in 1 .. Len(outputs \o stale) : (outputs \o stale)[k] \in HashedOutputs
  <2>1. TAKE k \in 1 .. Len(outputs \o stale)
  <2>2. CASE k <= Len(outputs)
    BY <1>1, <1>2, <2>2
  <2>3. CASE k > Len(outputs)
    <3>1. k - Len(outputs) \in 1 .. Len(stale) /\ (outputs \o stale)[k] = stale[k - Len(outputs)]
      BY <1>1, <2>3
    <3>. QED
      BY <1>3, <3>1
  <2>. QED
    BY <1>1, <2>2, <2>3
<1>. QED
  BY <1>1, <1>4 DEF StaleIsHashed

\* Every step leaves only outputs of this transaction in the array.
LEMMA StaleStep == IndInv /\ StaleIsHashed /\ [Next]_vars => StaleIsHashed'
<1>. SUFFICES ASSUME IndInv, StaleIsHashed, [Next]_vars PROVE StaleIsHashed'
  OBVIOUS
<1>1. TypeOK /\ BufferInOrder
  BY DEF IndInv
<1>2. CASE EmptyDisplay
  <2>1. Len(stale') = 0
    BY <1>2 DEF EmptyDisplay
  <2>. QED
    BY <2>1 DEF StaleIsHashed
<1>3. CASE ResetDisplay /\ UNCHANGED current_output
  BY <1>1, <1>3, ResetIsHashed
<1>4. CASE UNCHANGED <<stale, current_output>>
  BY <1>4 DEF StaleIsHashed, HashedOutputs
<1>5. CASE DecodeOutput
  <2>1. /\ stale \in Seq(UInt8) /\ current_output \in UInt8
        /\ stale' = IF stale = <<>> THEN <<>> ELSE Tail(stale)
        /\ current_output' = current_output + 1
    BY <1>1, <1>5, BaseType DEF DecodeOutput, TypeOK
  <2>2. HashedOutputs \subseteq HashedOutputs'
    BY <2>1 DEF HashedOutputs, UInt8
  <2>3. CASE stale = <<>>
    <3>1. Len(stale') = 0
      BY <2>1, <2>3
    <3>. QED
      BY <3>1 DEF StaleIsHashed
  <2>4. CASE stale # <<>>
    <3>1. stale' = Tail(stale)
      BY <2>1, <2>4
    <3>2. ASSUME NEW k \in 1 .. Len(stale') PROVE stale'[k] = stale[k + 1] /\ k + 1 \in 1 .. Len(stale)
      BY <2>1, <2>4, <3>1
    <3>. QED
      BY <2>2, <3>2 DEF StaleIsHashed
  <2>. QED
    BY <2>3, <2>4
<1>6. ASSUME NEW c, NEW d, Settle(c, d) PROVE StaleIsHashed'
  <2>1. CASE AskForData(c, d)
    BY <1>3, <2>1 DEF AskForData, decodeVars
  <2>2. CASE AskToSend(c, d) \/ ShowOutput(c, d)
    BY <1>4, <2>2 DEF AskToSend, ShowOutput, decodeVars
  <2>. QED
    BY <1>6, <2>1, <2>2 DEF Settle
<1>7. CASE DisplayOutputs \/ ApproveOutput
  BY <1>6, <1>7 DEF DisplayOutputs, ApproveOutput
<1>. QED
  BY <1>2, <1>3, <1>4, <1>5, <1>7, DisplayEffect

\* What the display needs beside IndInv.
DisplayInv == ChangeNotAsked /\ BeyondIsChange /\ StaleIsHashed

\* It holds in every reachable state.
THEOREM DisplayInvariance == Spec => []DisplayInv
<1>1. Init => DisplayInv
  <2>. SUFFICES ASSUME Init PROVE DisplayInv
    OBVIOUS
  <2>1. screen # "output" /\ display_index = 0 /\ Len(outputs) = 0 /\ Len(stale) = 0
    BY DEF Init
  <2>. QED
    BY <2>1 DEF DisplayInv, ChangeNotAsked, BeyondIsChange, StaleIsHashed
<1>2. IndInv /\ DisplayInv /\ [Next]_vars => DisplayInv'
  BY ChangeNotAskedStep, BeyondStep, StaleStep DEF DisplayInv
<1>. QED
  BY <1>1, <1>2, Invariance, PTL DEF Spec

\* What is on display was hashed.
LEMMA ShownIsHashed ==
    ASSUME IndInv, StaleIsHashed
    PROVE  Shown \subseteq HashedOutputs
<1>1. TypeOK /\ BufferInOrder
  BY DEF IndInv
<1>2. /\ Len(outputs) \in Nat /\ Base \in Nat /\ Base + Len(outputs) = current_output
      /\ current_output \in UInt8 /\ display_index \in Nat
  <2>1. display_index \in Nat
    BY <1>1 DEF TypeOK, UInt8
  <2>. QED
    BY <1>1, <2>1, BaseType
<1>3. CASE display_index < Len(Slots)
  <2>1. Len(Slots) = Len(outputs) + Len(stale) /\ Len(stale) \in Nat
    <3>1. Len(stale) \in Nat
      BY <1>1 DEF TypeOK
    <3>. QED
      BY <1>1, <3>1, SlotsType
  <2>2. CASE display_index < Len(outputs)
    <3>1. display_index + 1 \in 1 .. Len(outputs)
      BY <1>2, <2>2
    <3>2. Slots[display_index + 1] = Base + (display_index + 1) - 1
      BY <1>1, <3>1, SlotsType DEF BufferInOrder
    <3>3. Slots[display_index + 1] \in 0 .. current_output - 1
      BY <1>2, <2>2, <3>2 DEF UInt8
    <3>. QED
      BY <1>3, <3>3 DEF Shown, HashedOutputs
  <2>3. CASE display_index >= Len(outputs)
    <3>1. ASSUME NEW k \in Len(outputs) + 1 .. Len(Slots) PROVE Slots[k] \in HashedOutputs
      <4>1. Slots[k] = stale[k - Len(outputs)]
        BY <1>1, SlotsType
      <4>2. k - Len(outputs) \in 1 .. Len(stale)
        BY <1>2, <2>1
      <4>. QED
        BY <4>1, <4>2 DEF StaleIsHashed
    <3>2. display_index + 1 \in Len(outputs) + 1 .. Len(Slots)
      BY <1>2, <1>3, <2>1, <2>3
    <3>3. Slots[display_index + 1] \in HashedOutputs
      BY <3>1, <3>2
    <3>. QED
      BY <1>3, <3>3 DEF Shown
  <2>. QED
    BY <1>2, <2>2, <2>3
<1>. QED
  BY <1>3 DEF Shown

\* The user is asked about the output that confirmed_outputs counts, which is no
\* change output; and where the display index has left the buffer, about an output
\* that was reviewed before, with a change output to come (display.c:233-309, 340).
THEOREM DisplayCorrect == Spec => []DisplayedOutputIsNext
<1>1. IndInv /\ DisplayInv => DisplayedOutputIsNext
  <2>. SUFFICES ASSUME IndInv, DisplayInv, screen = "output"
                PROVE  /\ confirmed_outputs \notin change
                       /\ \/ display_index < Len(outputs) /\ Shown = {confirmed_outputs}
                          \/ /\ display_index > Len(outputs)
                             /\ current_output \in change
                             /\ HashedOutputs \cup Shown \subseteq reviewed
    BY DEF DisplayedOutputIsNext
  <2>1. /\ TypeOK /\ BufferInOrder
        /\ Covers(confirmed_outputs, display_index, reviewed)
    BY DEF IndInv, ScreensMatchContext, CountersCover
  <2>2. /\ Len(outputs) \in Nat /\ Base \in Nat /\ Base + Len(outputs) = current_output
        /\ current_output \in UInt8 /\ display_index \in Nat
    <3>1. display_index \in Nat
      BY <2>1 DEF TypeOK, UInt8
    <3>. QED
      BY <2>1, <3>1, BaseType
  <2>3. confirmed_outputs \notin change /\ display_index # Len(outputs)
    BY DEF DisplayInv, ChangeNotAsked
  <2>4. CASE display_index < Len(outputs)
    <3>1. display_index + 1 \in 1 .. Len(outputs)
      BY <2>2, <2>4
    <3>2. Slots[display_index + 1] = Base + (display_index + 1) - 1
      BY <2>1, <3>1, SlotsType DEF BufferInOrder
    <3>3. display_index < Len(Slots)
      <4>1. Len(stale) \in Nat
        BY <2>1 DEF TypeOK
      <4>2. Len(Slots) = Len(outputs) + Len(stale)
        BY <2>1, SlotsType
      <4>. QED
        BY <2>2, <2>4, <4>1, <4>2
    <3>4. confirmed_outputs = Wrap(Base + display_index)
      BY <2>1 DEF Covers
    <3>5. Base + (display_index + 1) - 1 = confirmed_outputs
      BY <2>2, <2>4, <3>4 DEF Wrap, UInt8
    <3>6. Shown = {confirmed_outputs}
      BY <3>2, <3>3, <3>5 DEF Shown
    <3>. QED
      BY <2>3, <2>4, <3>6
  <2>5. CASE display_index > Len(outputs)
    <3>1. HashedOutputs \subseteq reviewed
      BY <2>1, <2>5 DEF Covers
    <3>2. Shown \subseteq HashedOutputs
      BY ShownIsHashed DEF DisplayInv
    <3>3. current_output \in change
      BY <2>5 DEF DisplayInv, BeyondIsChange
    <3>. QED
      BY <2>3, <2>5, <3>1, <3>2, <3>3
  <2>. QED
    BY <2>2, <2>3, <2>4, <2>5
<1>. QED
  BY <1>1, Invariance, DisplayInvariance, PTL

\* A list that is too long comes with an empty transaction: no output of it is
\* decoded, so none is displayed.
LEMMA LongListStep == IndInv /\ LongListUnread /\ [Next]_vars => LongListUnread'
<1>. SUFFICES ASSUME IndInv, LongListUnread, [Next]_vars, change_len' > MaxChange
              PROVE  outputs_len' = 0 /\ screen' # "output"
  BY DEF LongListUnread
<1>1. /\ Len(outputs) \in Nat /\ Base \in Nat /\ Base + Len(outputs) = current_output
      /\ current_output \in UInt8 /\ current_output <= outputs_len
  BY BaseType DEF IndInv
<1>2. CASE DecodeOutput
  <2>1. /\ screen' = screen /\ screen # "output"
        /\ change_len' = change_len /\ outputs_len' = outputs_len
    BY <1>2 DEF DecodeOutput, parseVars, IndInv, ScreensMatchContext
  <2>. QED
    BY <2>1 DEF LongListUnread
<1>3. CASE DisplayOutputs
  <2>1. change_len' = change_len /\ Len(outputs) > 0
    <3>1. outputs # <<>> /\ outputs \in Seq(UInt8)
      BY <1>3 DEF DisplayOutputs, IndInv, TypeOK
    <3>2. Len(outputs) > 0
      BY <3>1
    <3>3. change_len' = change_len
      BY <1>3 DEF DisplayOutputs, Settle, AskToSend, AskForData, ShowOutput, parseVars
    <3>. QED
      BY <3>2, <3>3
  <2>2. outputs_len = 0
    BY <2>1 DEF LongListUnread
  <2>. QED
    BY <1>1, <2>1, <2>2 DEF UInt8
<1>4. CASE ApproveOutput
  <2>1. change_len' = change_len /\ screen = "output"
    BY <1>4 DEF ApproveOutput, Settle, AskToSend, AskForData, ShowOutput, parseVars
  <2>. QED
    BY <2>1 DEF LongListUnread
<1>5. CASE UNCHANGED <<change_len, outputs_len>> /\ (screen' = "output" => screen = "output")
  BY <1>5 DEF LongListUnread
<1>. QED
  BY <1>2, <1>3, <1>4, <1>5, DisplayEffect

\* change_info[] is never read behind its end: read_change_info leaves a number
\* that is too large in a context whose header is never read (sign_tx.c:69-75).
THEOREM ChangeListCorrect == Spec => []ChangeListFits
<1>1. Init => LongListUnread
  <2>. SUFFICES ASSUME Init PROVE LongListUnread
    OBVIOUS
  <2>1. outputs_len = 0 /\ screen # "output"
    BY DEF Init
  <2>. QED
    BY <2>1 DEF LongListUnread
<1>2. IndInv /\ LongListUnread => ChangeListFits
  <2>. SUFFICES ASSUME IndInv, LongListUnread, ReadsChangeInfo
                PROVE  ~(change_len > MaxChange)
    <3>1. IndInv => change_len \in Nat
      BY DEF IndInv, TypeOK, UInt8
    <3>. QED
      BY <3>1 DEF ChangeListFits
  <2>. SUFFICES ASSUME change_len > MaxChange PROVE FALSE
    OBVIOUS
  <2>1. outputs_len = 0 /\ screen # "output"
    BY DEF LongListUnread
  <2>2. /\ Len(outputs) \in Nat /\ Base \in Nat /\ Base + Len(outputs) = current_output
        /\ current_output \in UInt8 /\ current_output <= outputs_len
    BY BaseType DEF IndInv
  <2>3. current_output = 0 /\ Len(outputs) = 0
    BY <2>1, <2>2 DEF UInt8
  <2>4. outputs = <<>>
    <3>1. outputs \in Seq(UInt8)
      BY DEF IndInv, TypeOK
    <3>. QED
      BY <2>3, <3>1
  <2>5. ~OutputsTurn
    BY <2>1, <2>3 DEF OutputsTurn
  <2>. QED
    BY <2>1, <2>4, <2>5 DEF ReadsChangeInfo
<1>. QED
  BY <1>1, <1>2, LongListStep, Invariance, PTL DEF Spec

-----------------------------------------------------------------------------
(* The command implements TxSigner. *)

\* A step after which the signer sees nothing new.
LEMMA OtherRefines ==
    ASSUME reply' # "SIGNATURE", UNCHANGED <<current_output, reviewed>>,
           state' = "APPROVED" <=> state = "APPROVED"
    PROVE  Signer!Next
<1>1. Signer!Other
  BY DEF Signer!Other
<1>. QED
  BY <1>1 DEF Signer!Next

\* Erasing the context discards the message.
LEMMA ClearRefines ==
    ASSUME ClearContext, reply' # "SIGNATURE"
    PROVE  Signer!Next
<1>1. Signer!Discard
  BY DEF ClearContext, Signer!Discard
<1>. QED
  BY <1>1 DEF Signer!Next

\* Settling the display leaves the message and the phase alone.
LEMMA SettleKeeps ==
    ASSUME NEW c, NEW d, Settle(c, d)
    PROVE  /\ reply' # "SIGNATURE"
           /\ current_output' = current_output
           /\ state' = state \/ state' = "PARSED"
  BY DEF Settle, AskToSend, AskForData, ShowOutput, Answer, decodeVars

\* Every step is a step of the signer or leaves it as it is.
LEMMA StepRefines == IndInv /\ StaleIsHashed /\ [Next]_vars => [Signer!Next]_(Signer!vars)
<1>. SUFFICES ASSUME IndInv, StaleIsHashed, [Next]_vars PROVE [Signer!Next]_(Signer!vars)
  OBVIOUS
<1>. USE DEF IndInv
<1>a. ASSUME NEW sw, sw # "SIGNATURE", BackToMenu(sw) PROVE Signer!Next
  BY <1>a, ClearRefines DEF BackToMenu, Answer
<1>1. CASE FirstChunk
  <2>1. current_output' = 0 /\ reviewed' = {} /\ state' # "APPROVED" /\ reply' # "SIGNATURE"
    BY <1>1 DEF FirstChunk, StartTransaction
  <2>. QED
    BY <2>1 DEF Signer!Discard, Signer!Next
<1>2. CASE FirstChunkFault
  <2>1. current_output' = 0 /\ reviewed' = {} /\ state' # "APPROVED" /\ reply' # "SIGNATURE"
    BY <1>2
    DEF FirstChunkFault, StartTransaction, TooMuchChange, ChangeInfoFault, HeaderCut, Answer
  <2>. QED
    BY <2>1 DEF Signer!Discard, Signer!Next
<1>3. CASE FirstChunkAgain
  BY <1>3, ClearRefines DEF FirstChunkAgain, Answer
<1>4. CASE NextChunk
  BY <1>4, OtherRefines DEF NextChunk
<1>5. CASE DataRefused
  BY <1>5, <1>a DEF DataRefused
<1>6. CASE DecodeToken
  BY <1>6, OtherRefines DEF DecodeToken, Consume
<1>7. CASE DecodeInput
  BY <1>7, OtherRefines DEF DecodeInput, Consume
<1>8. CASE DecodeOutput
  <2>1. /\ state = "RECV_DATA" /\ state' = state /\ reply' = "none"
        /\ current_output' = current_output + 1
        /\ reviewed' = reviewed \cup (change \cap {current_output})
    BY <1>8 DEF DecodeOutput, Consume, VerifiedNow, TurnMatchesContext
  <2>2. reviewed' = reviewed \/ reviewed' = reviewed \cup {current_output}
    BY <2>1
  <2>3. Signer!Extend
    BY <2>1, <2>2 DEF Signer!Extend
  <2>. QED
    BY <2>3 DEF Signer!Next
<1>9. CASE DecodeIncomplete
  BY <1>9, OtherRefines DEF DecodeIncomplete, context, decodeVars
<1>10. CASE DecodeRefused
  BY <1>10, <1>a DEF DecodeRefused
<1>11. CASE ChangeDerivationFails
  BY <1>11, <1>a DEF ChangeDerivationFails
<1>12. CASE RequestData
  BY <1>12, OtherRefines DEF RequestData, Answer, context, decodeVars
<1>13. CASE DisplayOutputs
  <2>1. PICK n \in 0 .. Modulus :
            Settle(Wrap(confirmed_outputs + n), Wrap(display_index + n))
    BY <1>13 DEF DisplayOutputs
  <2>2. state = "RECV_DATA" /\ reviewed' = reviewed
    BY <1>13 DEF DisplayOutputs, TurnMatchesContext
  <2>. QED
    BY <2>1, <2>2, SettleKeeps, OtherRefines
<1>14. CASE AddressFails
  BY <1>14, <1>a DEF AddressFails
<1>15. CASE ApproveOutput
  <2>1. PICK m \in 0 .. Modulus, n \in 0 .. Modulus :
            Settle(Wrap(Wrap(Wrap(confirmed_outputs + 1) + m) + n),
                   Wrap(Wrap(Wrap(display_index + 1) + m) + n))
    BY <1>15 DEF ApproveOutput
  <2>2. state = "RECV_DATA" /\ reviewed' = reviewed \cup Shown
    BY <1>15 DEF ApproveOutput, ScreensMatchContext
  <2>3. reply' # "SIGNATURE" /\ current_output' = current_output /\ state' # "APPROVED"
    BY <2>1, <2>2, SettleKeeps
  <2>4. Shown \subseteq 0 .. current_output - 1
    <3>1. Shown \subseteq HashedOutputs
      BY ShownIsHashed
    <3>. QED
      BY <3>1 DEF HashedOutputs
  <2>5. Shown = {} \/ \E i : Shown = {i}
    BY DEF Shown
  <2>6. CASE Shown = {}
    <3>1. reviewed' = reviewed
      BY <2>2, <2>6
    <3>. QED
      BY <2>2, <2>3, <3>1, OtherRefines
  <2>7. CASE \E i : Shown = {i}
    <3>1. PICK i : Shown = {i}
      BY <2>7
    <3>2. i \in 0 .. current_output - 1 /\ reviewed' = reviewed \cup {i}
      BY <2>2, <2>4, <3>1
    <3>3. Signer!Review
      BY <2>2, <2>3, <3>2 DEF Signer!Review, Signer!Outputs
    <3>. QED
      BY <3>3 DEF Signer!Next
  <2>. QED
    BY <2>5, <2>6, <2>7
<1>16. CASE RejectOutput
  BY <1>16, <1>a DEF RejectOutput
<1>17. CASE ApproveSend
  <2>1. state = "PARSED" /\ HashedOutputs \subseteq reviewed
    BY <1>17 DEF ApproveSend, ScreensMatchContext, CountersCover
  <2>2. Signer!Seal
    BY <1>17, <2>1
    DEF ApproveSend, Answer, decodeVars, HashedOutputs, Signer!Seal, Signer!Outputs
  <2>. QED
    BY <2>2 DEF Signer!Next
<1>18. CASE RejectSend
  BY <1>18, <1>a DEF RejectSend
<1>19. CASE Quit
  BY <1>19, <1>a DEF Quit
<1>20. CASE Sign
  <2>1. Signer!Sign
    BY <1>20 DEF Sign, MaySign, Answer, decodeVars, Signer!Sign
  <2>. QED
    BY <2>1 DEF Signer!Next
<1>21. CASE SignRefused
  BY <1>21, OtherRefines DEF SignRefused, Answer, decodeVars
<1>22. CASE SignFails
  BY <1>22, <1>a DEF SignFails
<1>23. CASE Done
  BY <1>23, <1>a DEF Done
<1>24. CASE OtherCommand
  <2>1. CASE ClearContext
    BY <1>24, <2>1, ClearRefines DEF OtherCommand, Answer
  <2>2. CASE UNCHANGED context
    BY <1>24, <2>2, OtherRefines DEF OtherCommand, Answer, context, decodeVars
  <2>. QED
    BY <1>24, <2>1, <2>2 DEF OtherCommand, TouchContext
<1>25. CASE OtherCommandAsks
  <2>1. CASE ClearContext
    BY <1>25, <2>1, ClearRefines DEF OtherCommandAsks
  <2>2. CASE UNCHANGED context
    BY <1>25, <2>2, OtherRefines DEF OtherCommandAsks, context, decodeVars
  <2>. QED
    BY <1>25, <2>1, <2>2 DEF OtherCommandAsks, TouchContext
<1>26. CASE AnswerOther
  BY <1>26, OtherRefines DEF AnswerOther, Answer, context, decodeVars
<1>27. CASE Restart
  BY <1>27, <1>a DEF Restart
<1>28. CASE UNCHANGED vars
  BY <1>28 DEF vars, context, decodeVars, Signer!vars
<1>29. CASE ChunkNotHashed
  BY <1>29, OtherRefines DEF ChunkNotHashed, Answer, decodeVars
<1>. QED
  BY <1>1, <1>2, <1>3, <1>4, <1>5, <1>6, <1>7, <1>8, <1>9, <1>10, <1>11, <1>12, <1>13, <1>14,
     <1>15, <1>16, <1>17, <1>18, <1>19, <1>20, <1>21, <1>22, <1>23, <1>24, <1>25, <1>26, <1>27,
     <1>28, <1>29
  DEF Next, Host, Device, User

\* The whole command, with its chunks, screens, refusals and restarts, behaves
\* as the abstract signer: it seals only reviewed messages, never extends a
\* sealed one and signs nothing else (sign_tx.c:525-580 with display.c:165-357).
THEOREM Refinement == Spec => ImplementsTxSigner
<1>1. Init => Signer!Init
  BY DEF Init, Signer!Init
<1>2. DisplayInv => StaleIsHashed
  BY DEF DisplayInv
<1>. QED
  BY <1>1, <1>2, StepRefines, Invariance, DisplayInvariance, PTL
  DEF Spec, ImplementsTxSigner, Signer!Spec

=============================================================================
