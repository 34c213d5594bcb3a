------------------------------- MODULE SignTx -------------------------------
(***************************************************************************)
(* The SIGN_TX command: the host streams a transaction in chunks, the      *)
(* device hashes every byte, decodes the elements one by one, makes the    *)
(* user confirm every output except the verified change outputs, and signs *)
(* the digest after a last approval (src/handler/sign_tx.c and the SIGN_TX *)
(* part of src/ui/display.c, with the context sign_tx_ctx_t of             *)
(* src/types.h).                                                           *)
(*                                                                         *)
(* Four actors take steps: the host sends commands, the device runs the    *)
(* decoder loop, the user answers screens, and the environment restarts    *)
(* the application.  The program has one thread and holds one command at a *)
(* time, so `pc' says whose turn it is.                                    *)
(*                                                                         *)
(* The bytes of the transaction are abstracted to its elements (token      *)
(* uids, inputs, outputs, in that order).  A chunk completes some elements *)
(* and may end inside one; what an element holds is chosen when the        *)
(* decoder reads it.                                                       *)
(***************************************************************************)
EXTENDS Integers, Sequences, FiniteSets

CONSTANTS
    Modulus,      \* 2^8: the counters of sign_tx_ctx_t are uint8_t
    BufferSlots,  \* length of the array outputs[]
    MaxChange,    \* 1 + TX_MAX_TOKENS, length of the array change_info[]
    MaxTokens,    \* bound: largest number of tokens a header announces
    MaxInputs,    \* bound: largest number of inputs a header announces
    MaxChunk      \* bound: most elements one chunk completes

ASSUME ModulusAssumption == Modulus \in Nat /\ Modulus > 1
ASSUME SizesAssumption ==
    /\ BufferSlots \in Nat
    /\ MaxChange \in 1 .. Modulus - 1
    /\ MaxTokens \in Nat
    /\ MaxInputs \in Nat
    /\ MaxChunk \in Nat

VARIABLES
    state,              \* G_context.state
    change,             \* the indices in change_info[0 .. change_len-1]
    change_len,         \* number of change outputs the host announces
    remaining_tokens,   \* tokens still to be decoded
    remaining_inputs,   \* inputs still to be decoded
    outputs_len,        \* number of outputs the header announces
    current_output,     \* index of the next output to decode
    outputs,            \* outputs[0 .. buffer_output_len-1], as their indices
    stale,              \* what the slots of outputs[] behind them still hold
    display_index,      \* slot of `outputs' on display
    confirmed_outputs,  \* outputs confirmed by the user or skipped as change
    left,               \* complete elements in the decode buffer
    partial,            \* the decode buffer ends inside an element
    sighash,            \* sighash_all: how it was computed, and its first byte
    pc,                 \* whose turn it is
    screen,             \* what the device shows
    reply,              \* the status word this step sent to the host
    reviewed            \* history: outputs approved by the user or verified

parseVars == <<change, change_len, remaining_tokens, remaining_inputs, outputs_len>>
decodeVars == <<current_output, left, partial>>
displayVars == <<outputs, stale, display_index, confirmed_outputs>>
context == <<state, parseVars, decodeVars, displayVars, sighash, reviewed>>
vars == <<context, pc, screen, reply>>

UInt8 == 0 .. Modulus - 1

\* uint8_t addition of two numbers no larger than Modulus.
Wrap(n) == IF n < Modulus THEN n ELSE n - Modulus

States == {"NONE", "RECV_DATA", "PARSED", "APPROVED"}
Turns == {"host", "decode", "ready", "user"}
Screens == {"menu", "output", "send", "processing", "other"}

\* "none": this step answers nothing.  "lost": the handler returned an error
\* and the command got no answer.  "CX_ERROR": the cx_err_t of the hash function,
\* which CX_THROW throws as it is.
Replies == {"none", "lost", "OK", "SIGNATURE", "DENY", "BAD_STATE", "INVALID_TX",
            "WRONG_DATA_LENGTH", "INTERNAL_ERROR", "CX_ERROR", "OTHER"}

\* The number of times the digest was finalised since the context was
\* initialised (2 stands for more than once), and whether its first byte is 0.
Digests == [runs : 0 .. 2, zero : BOOLEAN]
NoDigest == [runs |-> 0, zero |-> TRUE]

-----------------------------------------------------------------------------
(* Pieces the handlers share. *)

\* Erasing the context erases the array outputs[] too.
EmptyDisplay ==
    /\ display_index' = 0
    /\ outputs' = <<>>
    /\ stale' = <<>>

\* explicit_bzero(&G_context, sizeof(G_context))
ClearContext ==
    /\ state' = "NONE"
    /\ change' = {}
    /\ change_len' = 0
    /\ remaining_tokens' = 0
    /\ remaining_inputs' = 0
    /\ outputs_len' = 0
    /\ current_output' = 0
    /\ left' = 0
    /\ partial' = FALSE
    /\ EmptyDisplay
    /\ confirmed_outputs' = 0
    /\ sighash' = NoDigest
    /\ reviewed' = {}

\* The status word sw goes out, the device shows s and the host moves next.
Answer(sw, s) ==
    /\ reply' = sw
    /\ screen' = s
    /\ pc' = "host"

\* The context is erased, the menu shown and sw answered.  The restart of the
\* application that follows a handler error, or a reset of the I/O, looks the
\* same except that nothing is answered.
BackToMenu_KeepsScreen(sw) == ClearContext /\ Answer(sw, screen)
BackToMenu(sw) == ClearContext /\ Answer(sw, "menu")

\* The start of handler_sign_tx, whatever the stage: buffer_output_len is zeroed
\* and the array keeps what it holds.
ResetDisplay ==
    /\ display_index' = 0
    /\ outputs' = <<>>
    /\ stale' = outputs \o stale

-----------------------------------------------------------------------------
(* Which output comes next: pure functions of the counters, where c stands *)
(* for confirmed_outputs and d for display_index.                          *)

\* check_output_index_state returns true.
Stops(c, d) == c = outputs_len \/ d = Len(outputs)

\* skip_change_outputs, called at (c, d), skips n outputs: the sorted list of
\* change indices is walked once, and the walk ends at the first index that is
\* not next or when a counter has reached its end.
Skips_OnlyOne(c, d, n) == n = IF c \in change THEN 1 ELSE 0
Skips(c, d, n) ==
    /\ \A k \in 0 .. n - 1 : c + k \in change
    /\ \A k \in 1 .. n - 1 : ~Stops(Wrap(c + k), Wrap(d + k))
    /\ \/ c + n \notin change
       \/ n > 0 /\ Stops(Wrap(c + n), Wrap(d + n))

\* Where prepare_display_output leaves the counters: n outputs further on.
Prepares(c, d, n) ==
    IF Stops(c, d) THEN n = 0 ELSE Skips(c, d, n)

\* Where ui_confirm_output(true) leaves the counters: one output further on for
\* the confirmed one, then m skipped at once, with no look at the ends before
\* the first of them, and n more when the next output is prepared.
Confirms(c, d, m, n) ==
    /\ Skips(Wrap(c + 1), Wrap(d + 1), m)
    /\ LET c2 == Wrap(Wrap(c + 1) + m)
           d2 == Wrap(Wrap(d + 1) + m)
       IN  IF m > 0 /\ Stops(c2, d2) THEN n = 0 ELSE Prepares(c2, d2, n)

\* What the device does once the counters stand at (c, d).
AskToSend(c, d) ==
    /\ c = outputs_len
    /\ state' = "PARSED"
    /\ confirmed_outputs' = c
    /\ display_index' = d
    /\ screen' = "send"
    /\ pc' = "user"
    /\ reply' = "none"
    /\ UNCHANGED <<parseVars, decodeVars, outputs, stale, sighash>>

AskForData(c, d) ==
    /\ c # outputs_len
    /\ d = Len(outputs)
    /\ confirmed_outputs' = c
    /\ ResetDisplay
    /\ Answer("OK", "menu")
    /\ UNCHANGED <<state, parseVars, decodeVars, sighash>>

ShowOutput(c, d) ==
    /\ ~Stops(c, d)
    /\ confirmed_outputs' = c
    /\ display_index' = d
    /\ screen' = "output"
    /\ pc' = "user"
    /\ reply' = "none"
    /\ UNCHANGED <<state, parseVars, decodeVars, outputs, stale, sighash>>

Settle(c, d) == AskToSend(c, d) \/ AskForData(c, d) \/ ShowOutput(c, d)

-----------------------------------------------------------------------------
(* Commands of the host: stage DATA. *)

\* read_change_info: the number of change outputs, compared with the array, and
\* an index for each.  Indices may repeat, or not be there: an entry that is not
\* read holds index 0.
ChangeRead_AnyLength ==
    /\ change' \in SUBSET UInt8
    /\ change_len' = Cardinality(change')
ChangeRead ==
    /\ change' \in {S \in SUBSET UInt8 : Cardinality(S) <= MaxChange}
    /\ change_len' \in Cardinality(change') .. MaxChange
    /\ change' = {} <=> change_len' = 0

\* init_sign_tx_ctx: what the header is read into is zero until then.
HeaderUnread_ReadFirst ==
    /\ remaining_tokens' = 0
    /\ remaining_inputs' = 0
    /\ outputs_len' \in UInt8
HeaderUnread ==
    /\ remaining_tokens' = 0
    /\ remaining_inputs' = 0
    /\ outputs_len' = 0

\* Chunk 0, whatever becomes of it, begins with an erased context.
StartTransaction ==
    /\ pc = "host"
    /\ state \notin {"RECV_DATA", "APPROVED"}
    /\ state' = "RECV_DATA"
    /\ current_output' = 0
    /\ EmptyDisplay
    /\ confirmed_outputs' = 0
    /\ sighash' = NoDigest
    /\ reviewed' = {}

\* The change information and the header are read, everything after the change
\* information is hashed.
FirstChunk ==
    /\ StartTransaction
    /\ ChangeRead
    /\ remaining_tokens' \in 0 .. MaxTokens
    /\ remaining_inputs' \in 0 .. MaxInputs
    /\ outputs_len' \in UInt8
    /\ left' \in 0 .. MaxChunk
    /\ partial' \in BOOLEAN
    /\ pc' = "decode"
    /\ reply' = "none"
    /\ UNCHANGED screen

\* More change outputs are announced than the array has entries.  The number is
\* stored before it is compared, and stays; the entries are still zero.
TooMuchChange ==
    /\ change_len' \in MaxChange + 1 .. Modulus - 1
    /\ change' = {0}
    /\ HeaderUnread
    /\ Answer("WRONG_DATA_LENGTH", screen)

\* The change information ends early or has an unknown version, or what is behind
\* it cannot be hashed.
ChangeInfoFault ==
    /\ ChangeRead
    /\ HeaderUnread
    /\ \E sw \in {"WRONG_DATA_LENGTH", "INVALID_TX", "CX_ERROR"} : Answer(sw, screen)

\* The header ends early; its last byte is outputs_len.
HeaderCut ==
    /\ ChangeRead
    /\ remaining_tokens' \in 0 .. MaxTokens
    /\ remaining_inputs' \in 0 .. MaxInputs
    /\ outputs_len' = 0
    /\ Answer("WRONG_DATA_LENGTH", screen)

\* Chunk 0 throws: what was read stays in the context, and so does RECV_DATA.
FirstChunkFault ==
    /\ StartTransaction
    /\ TooMuchChange \/ ChangeInfoFault \/ HeaderCut
    /\ left' = 0
    /\ partial' = FALSE

\* A second chunk 0 while receiving: the error is thrown past the menu.
FirstChunkAgain ==
    /\ pc = "host"
    /\ state = "RECV_DATA"
    /\ ClearContext
    /\ Answer("BAD_STATE", screen)

\* Which states a later chunk is accepted in.
TakesMoreData_AfterApproval == state \in {"RECV_DATA", "APPROVED"}
TakesMoreData == state = "RECV_DATA"

\* A later chunk is hashed and appended to the decode buffer.  A chunk is never
\* empty: the dispatcher refuses the command.
NextChunk ==
    /\ pc = "host"
    /\ TakesMoreData
    /\ ResetDisplay
    /\ left' \in 0 .. MaxChunk
    /\ partial' \in BOOLEAN
    /\ left' > 0 \/ partial'
    /\ pc' = "decode"
    /\ reply' = "none"
    /\ UNCHANGED <<state, parseVars, current_output, confirmed_outputs, sighash,
                   reviewed, screen>>

\* The chunk cannot be hashed: the error is thrown before anything is appended,
\* and the transaction goes on.
ChunkNotHashed ==
    /\ pc = "host"
    /\ TakesMoreData
    /\ ResetDisplay
    /\ Answer("CX_ERROR", screen)
    /\ UNCHANGED <<state, parseVars, decodeVars, confirmed_outputs, sighash, reviewed>>

\* Data after the approval, or a later chunk with no transaction under way.
DataRefused ==
    /\ pc = "host"
    /\ state # "RECV_DATA"
    /\ BackToMenu("BAD_STATE")

-----------------------------------------------------------------------------
(* The device decodes the buffer, one element per step. *)

TokensTurn == remaining_tokens > 0
InputsTurn == remaining_tokens = 0 /\ remaining_inputs > 0
OutputsTurn ==
    /\ remaining_tokens = 0
    /\ remaining_inputs = 0
    /\ current_output < outputs_len
AllDecoded ==
    /\ remaining_tokens = 0
    /\ remaining_inputs = 0
    /\ current_output >= outputs_len

\* One element leaves the buffer.  The loop goes on while bytes are left.
Consume ==
    /\ left > 0
    /\ left' = left - 1
    /\ pc' = IF left = 1 /\ ~partial THEN "ready" ELSE "decode"
    /\ reply' = "none"

DecodeToken ==
    /\ pc = "decode"
    /\ TokensTurn
    /\ Consume
    /\ remaining_tokens' = remaining_tokens - 1
    /\ UNCHANGED <<state, change, change_len, remaining_inputs, outputs_len, current_output,
                   partial, displayVars, sighash, reviewed, screen>>

DecodeInput ==
    /\ pc = "decode"
    /\ InputsTurn
    /\ Consume
    /\ remaining_inputs' = remaining_inputs - 1
    /\ UNCHANGED <<state, change, change_len, remaining_tokens, outputs_len, current_output,
                   partial, displayVars, sighash, reviewed, screen>>

\* A change output that is decoded has passed verify_change.
VerifiedNow_Never == {}
VerifiedNow == change \cap {current_output}

DecodeOutput ==
    /\ pc = "decode"
    /\ OutputsTurn
    /\ Consume
    /\ Len(outputs) < BufferSlots
    /\ outputs' = Append(outputs, current_output)
    /\ stale' = IF stale = <<>> THEN <<>> ELSE Tail(stale)
    /\ current_output' = current_output + 1
    /\ reviewed' = reviewed \cup VerifiedNow
    /\ UNCHANGED <<state, parseVars, partial, display_index, confirmed_outputs, sighash,
                   screen>>

\* The buffer does not hold the next element in full.
DecodeIncomplete ==
    /\ pc = "decode"
    /\ left = 0
    /\ ~AllDecoded
    /\ pc' = "ready"
    /\ reply' = "none"
    /\ UNCHANGED <<context, screen>>

\* An element is refused: a token that is not in the registry, an input with
\* data, an output that does not parse (its script length may show before its
\* last byte), holds an authority or an unknown token, fails verify_change or
\* finds outputs[] full; or bytes follow the last output.
DecodeRefused ==
    /\ pc = "decode"
    /\ left > 0 \/ AllDecoded \/ (OutputsTurn /\ partial)
    /\ BackToMenu("INVALID_TX")

\* The derivation fails in verify_change: the exception leaves decode_elements
\* as an unknown decoder state and the handler gives up without answering.
ChangeDerivationFails ==
    /\ pc = "decode"
    /\ OutputsTurn
    /\ left > 0
    /\ current_output \in change
    /\ BackToMenu("lost")

\* Nothing is left to decode: ask for more data if no output was decoded, else
\* put the next output on display.
RequestData_Silent ==
    /\ pc = "ready"
    /\ outputs = <<>>
    /\ reply' = "none"
    /\ UNCHANGED <<context, pc, screen>>
RequestData ==
    /\ pc = "ready"
    /\ outputs = <<>>
    /\ Answer("OK", screen)
    /\ UNCHANGED context

DisplayOutputs ==
    /\ pc = "ready"
    /\ outputs # <<>>
    /\ \E n \in 0 .. Modulus :
          /\ Prepares(confirmed_outputs, display_index, n)
          /\ Settle(Wrap(confirmed_outputs + n), Wrap(display_index + n))
    /\ UNCHANGED reviewed

-----------------------------------------------------------------------------
(* The user answers the screen. *)

\* The array outputs[], up to the slots that are zero since it was erased.
Slots == outputs \o stale

\* The output on display: outputs[display_index], without a look at
\* buffer_output_len.  A zeroed slot, or what lies behind the array, is no output
\* of this transaction.
Shown == IF display_index < Len(Slots) THEN {Slots[display_index + 1]} ELSE {}

ApproveOutput ==
    /\ pc = "user"
    /\ screen = "output"
    /\ reviewed' = reviewed \cup Shown
    /\ \E m, n \in 0 .. Modulus :
          /\ Confirms(confirmed_outputs, display_index, m, n)
          /\ Settle(Wrap(Wrap(Wrap(confirmed_outputs + 1) + m) + n),
                    Wrap(Wrap(Wrap(display_index + 1) + m) + n))

RejectOutput ==
    /\ pc = "user"
    /\ screen = "output"
    /\ BackToMenu("DENY")

\* The address of the next output cannot be computed.
AddressFails ==
    /\ \/ pc = "ready" /\ outputs # <<>>
       \/ pc = "user" /\ screen = "output"
    /\ BackToMenu("INTERNAL_ERROR")

ApproveSend ==
    /\ pc = "user"
    /\ screen = "send"
    /\ state' = "APPROVED"
    /\ Answer("OK", "processing")
    /\ UNCHANGED <<parseVars, decodeVars, displayVars, sighash, reviewed>>

RejectSend ==
    /\ pc = "user"
    /\ screen = "send"
    /\ BackToMenu("DENY")

\* "Quit" under the "Processing" screen, between two commands.
Quit ==
    /\ pc = "host"
    /\ screen = "processing"
    /\ BackToMenu("none")

-----------------------------------------------------------------------------
(* Commands of the host: stages SIGN and DONE. *)

MaySign_Unapproved == state # "NONE"
MaySign == state = "APPROVED"

\* sighash_all[0] == '\0' means that the digest is still to be computed.
Finalise ==
    IF sighash.zero
    THEN /\ sighash' \in Digests
         /\ sighash'.runs = IF sighash.runs = 2 THEN 2 ELSE sighash.runs + 1
    ELSE UNCHANGED sighash

Sign ==
    /\ pc = "host"
    /\ MaySign
    /\ ResetDisplay
    /\ Finalise
    /\ Answer("SIGNATURE", screen)
    /\ UNCHANGED <<state, parseVars, decodeVars, confirmed_outputs, reviewed>>

SignRefused ==
    /\ pc = "host"
    /\ ResetDisplay
    /\ IF MaySign THEN Answer("WRONG_DATA_LENGTH", screen) ELSE Answer("BAD_STATE", screen)
    /\ UNCHANGED <<state, parseVars, decodeVars, confirmed_outputs, sighash, reviewed>>

\* An empty path or a failing derivation or signature: the error status is
\* stored, but 0 is not > 0 and the handler returns -1.
SignFails ==
    /\ pc = "host"
    /\ MaySign
    /\ BackToMenu("lost")

Done ==
    /\ pc = "host"
    /\ BackToMenu("OK")

-----------------------------------------------------------------------------
(* The other commands, as far as they touch this context; restarts. *)

\* GET_ADDRESS, GET_XPUB, SIGN_TOKEN_DATA, VERIFY_TOKEN_SIGNATURE and the first
\* SEND_TOKEN_DATA erase the context; GET_VERSION, later SEND_TOKEN_DATA,
\* RESET_TOKEN_SIGNATURES and refused APDUs leave it alone.
TouchContext == ClearContext \/ UNCHANGED context

OtherCommand ==
    /\ pc = "host"
    /\ TouchContext
    /\ Answer("OTHER", screen)

OtherCommandAsks ==
    /\ pc = "host"
    /\ TouchContext
    /\ screen' = "other"
    /\ pc' = "user"
    /\ reply' = "none"

AnswerOther ==
    /\ pc = "user"
    /\ screen = "other"
    /\ Answer("OTHER", "menu")
    /\ UNCHANGED context

\* The USB link is reset, or the application is left and opened again.
Restart ==
    /\ pc \in {"host", "user"}
    /\ BackToMenu("none")

-----------------------------------------------------------------------------
Init ==
    /\ state = "NONE"
    /\ change = {}
    /\ change_len = 0
    /\ remaining_tokens = 0
    /\ remaining_inputs = 0
    /\ outputs_len = 0
    /\ current_output = 0
    /\ left = 0
    /\ partial = FALSE
    /\ outputs = <<>>
    /\ stale = <<>>
    /\ display_index = 0
    /\ confirmed_outputs = 0
    /\ sighash = NoDigest
    /\ reviewed = {}
    /\ pc = "host"
    /\ screen = "menu"
    /\ reply = "none"

Host ==
    \/ FirstChunk \/ FirstChunkFault \/ FirstChunkAgain \/ NextChunk \/ ChunkNotHashed
    \/ DataRefused
    \/ Sign \/ SignRefused \/ SignFails \/ Done
    \/ OtherCommand \/ OtherCommandAsks

Device ==
    \/ DecodeToken \/ DecodeInput \/ DecodeOutput \/ DecodeIncomplete \/ DecodeRefused
    \/ ChangeDerivationFails
    \/ RequestData \/ DisplayOutputs \/ AddressFails

User ==
    \/ ApproveOutput \/ RejectOutput \/ ApproveSend \/ RejectSend \/ Quit
    \/ AnswerOther

Next == Host \/ Device \/ User \/ Restart

Spec == Init /\ [][Next]_vars

\* The device runs its loop to the end, and the user answers every screen.
Fairness ==
    /\ WF_vars(Device)
    /\ WF_vars(pc = "user" /\ User)

FairSpec == Spec /\ Fairness

-----------------------------------------------------------------------------
(* Properties. *)

\* Every variable has its type: what is counted down and decoded keeps within
\* what the header announces, the outputs within their array.  For change_len the
\* type is all there is; ChangeListFits says where it keeps within its array.
TypeOK ==
    /\ state \in States
    /\ change \in SUBSET UInt8 /\ Cardinality(change) <= MaxChange
    /\ change_len \in UInt8
    /\ remaining_tokens \in 0 .. MaxTokens
    /\ remaining_inputs \in 0 .. MaxInputs
    /\ outputs_len \in UInt8
    /\ current_output \in 0 .. outputs_len
    /\ left \in 0 .. MaxChunk
    /\ partial \in BOOLEAN
    /\ outputs \in Seq(UInt8) /\ stale \in Seq(UInt8)
    /\ Len(outputs) + Len(stale) <= BufferSlots
    /\ display_index \in UInt8
    /\ confirmed_outputs \in UInt8
    /\ sighash \in Digests
    /\ pc \in Turns
    /\ screen \in Screens
    /\ reply \in Replies
    /\ reviewed \in SUBSET UInt8

\* The outputs wholly contained in the bytes hashed so far.
HashedOutputs == 0 .. current_output - 1

\* A signature goes out only for an approved transaction all of whose hashed
\* outputs the user confirmed one by one, or are change outputs that passed
\* verify_change: SIGN checks only `state', so this rests on the whole
\* bookkeeping of display_index, confirmed_outputs and the skipping of change.
SignedOutputsReviewed ==
    reply = "SIGNATURE" => state = "APPROVED" /\ HashedOutputs \subseteq reviewed

\* Whenever the device lets the host move again in the middle of a transaction,
\* nothing decoded is left unreviewed: a chunk is acknowledged with SW_OK only
\* after every output in it was confirmed.
HostTurnMeansReviewed ==
    pc = "host" /\ state \in {"RECV_DATA", "APPROVED"} => HashedOutputs \subseteq reviewed

\* What confirmed_outputs counts while an output is on display is no change
\* output, and the output on display is that one (display.c:276-282).  The display
\* index leaves the decoded outputs only when the next output to come is a change
\* output, which display.c:340 skips unseen: then every decoded output was
\* reviewed, and what a slot behind them shows (an output of an earlier chunk,
\* possibly verified change) was reviewed too.
DisplayedOutputIsNext ==
    screen = "output" =>
        /\ confirmed_outputs \notin change
        /\ \/ display_index < Len(outputs) /\ Shown = {confirmed_outputs}
           \/ /\ display_index > Len(outputs)
              /\ current_output \in change
              /\ HashedOutputs \cup Shown \subseteq reviewed

\* The list of change outputs is read: by the decoder of outputs (sign_tx.c:391)
\* and by the display of outputs (display.c:256 and 288).
ReadsChangeInfo ==
    \/ pc = "decode" /\ OutputsTurn
    \/ pc = "ready" /\ outputs # <<>>
    \/ screen = "output"

\* Wherever it is read, it fits in its array.  A number that does not stays in a
\* context whose transaction goes on (sign_tx.c:69-75); that one never gets to an
\* output.
ChangeListFits == ReadsChangeInfo => change_len <= MaxChange

\* The approve and reject buttons of a transaction are on screen only while the
\* host waits for the answer and the context is the one they are about.
ScreensMatchContext ==
    /\ screen = "output" => pc = "user" /\ state = "RECV_DATA"
    /\ screen = "send" => pc = "user" /\ state = "PARSED"
    /\ pc = "user" => screen \in {"output", "send", "other"}

\* A command is always followed by the host's next turn, unless a change index
\* equals the number of outputs: then the counters may jump over both their
\* ends and the screens go round for ever.
CommandsEnd ==
    (pc # "host" /\ outputs_len \notin change) ~> (pc = "host")

\* The command implements the abstract signer: its message is what was hashed.
Signer == INSTANCE TxSigner WITH
    message <- current_output,
    reviewed <- reviewed,
    phase <- IF state = "APPROVED" THEN "sealed" ELSE "open",
    signed <- (reply = "SIGNATURE")

ImplementsTxSigner == Signer!Spec

-----------------------------------------------------------------------------
(* The inductive invariant behind them. *)

\* The index of the first output in the buffer.
Base == current_output - Len(outputs)

\* The buffer holds the last decoded outputs in order.
BufferInOrder ==
    /\ Len(outputs) <= current_output
    /\ \A k \in 1 .. Len(outputs) : outputs[k] = Base + k - 1

\* The counters at (c, d) stand for the same output, and every output before it
\* is in r.  Once d has left the buffer, every decoded output is in r.
Covers(c, d, r) ==
    /\ c = Wrap(Base + d)
    /\ d <= Len(outputs) => 0 .. Base + d - 1 \subseteq r
    /\ d > Len(outputs) => HashedOutputs \subseteq r

CountersCover ==
    /\ state # "APPROVED" => Covers(confirmed_outputs, display_index, reviewed)
    /\ state \in {"PARSED", "APPROVED"} => HashedOutputs \subseteq reviewed

ChangeIsVerified == change \cap HashedOutputs \subseteq reviewed

\* What is counted while an output is on display is not a change output, and no
\* counter has reached its end.  It follows from IndInv at every step that puts an
\* output on display.
ChangeNotAsked ==
    screen = "output" => confirmed_outputs \notin change /\ display_index # Len(outputs)

\* The display index passes the end of the buffer only over a change output that
\* is still to come.
BeyondIsChange == display_index > Len(outputs) => current_output \in change

\* What a slot still holds is an output of this transaction.
StaleIsHashed == \A k \in 1 .. Len(stale) : stale[k] \in HashedOutputs

\* A list of change outputs that is too long comes with an empty transaction.
LongListUnread == change_len > MaxChange => outputs_len = 0 /\ screen # "output"

\* Between two commands no output waits for its review.
BufferIsEmpty == outputs = <<>> /\ display_index = 0

TurnMatchesContext ==
    /\ pc = "host" \/ screen = "other" =>
          /\ state # "PARSED"
          /\ state # "APPROVED" => BufferIsEmpty
    /\ pc \in {"decode", "ready"} => state = "RECV_DATA" /\ display_index = 0
    /\ screen = "other" => pc = "user"
    /\ reply = "SIGNATURE" => pc = "host" /\ state = "APPROVED"

IndInv ==
    /\ TypeOK
    /\ BufferInOrder
    /\ CountersCover
    /\ ChangeIsVerified
    /\ TurnMatchesContext
    /\ ScreensMatchContext

-----------------------------------------------------------------------------
(* What the documentation says and the code does not do. *)

\* "Once this reaches outputs_len, we should ask confirmation to sign the
\* transaction" (types.h:115-117): when the device asks, it has decoded the
\* whole transaction.
ApprovalCoversWholeTx ==
    state \in {"PARSED", "APPROVED"} => current_output = outputs_len /\ ~partial

\* "If sighash_all is empty it means that we need to sha256d the given data to
\* initialize it" (sign_tx.c:222): every signature is on the sha256d of the data.
SignaturesCoverTheData == reply = "SIGNATURE" => sighash.runs = 1

\* "If the caller tries to bypass any stage or the user confirmation, the process
\* should cancel" (sign_tx.h:21): a stage in the wrong state ends the transaction.
BypassCancels == reply = "BAD_STATE" => state = "NONE"

=============================================================================
