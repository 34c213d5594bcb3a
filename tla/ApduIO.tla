------------------------------- MODULE ApduIO -------------------------------
(***************************************************************************)
(* Commands and answers: the state machine of src/io.c, the loops of       *)
(* src/main.c, the parser and dispatcher of src/apdu/, and every handler   *)
(* as far as it answers at once, throws, gives up, or puts a question on   *)
(* the screen whose buttons run g_validate_callback (src/ui/display.c).    *)
(*                                                                         *)
(* The device runs one thread.  It can be interrupted only while it is in  *)
(* io_exchange: there a command arrives, a button is pressed, or the link  *)
(* is reset.  What the handlers do with their data is abstracted to which  *)
(* of their outcomes is taken; SignTx is the detailed model of one.        *)
(***************************************************************************)
EXTENDS Integers

VARIABLES
    io_state,             \* G_io_state
    output,               \* the answer in G_io_apdu_buffer, G_output_len long
    pc,                   \* where the thread is
    command,              \* the command in G_io_apdu_buffer
    context,              \* what G_context is about
    g_validate_callback,  \* what the approve and reject buttons run
    flow,                 \* the UX flow on the screen
    waiting,              \* the host waits for an answer
    turn,                 \* tells a command from the one before
    delivered             \* the answer this step delivered to the host

link == <<waiting, turn>>
ui == <<g_validate_callback, flow>>
vars == <<io_state, output, pc, command, context, ui, link, delivered>>

\* The sw.h codes the handlers use, and one that is not of sw.h: the cx_err_t of
\* the hash function, which CX_THROW throws and app_main answers as it is.
StatusWords ==
    {"OK", "DENY", "WRONG_P1P2", "WRONG_DATA_LENGTH", "INS_NOT_SUPPORTED",
     "CLA_NOT_SUPPORTED", "DISPLAY_BIP32_PATH_FAIL", "BAD_STATE",
     "SIGNATURE_FAIL", "INVALID_TX", "INVALID_SIGNATURE", "INTERNAL_ERROR", "CX_ERROR"}

\* An answer carries the turn of the command it was made for.
Answers == [sw : StatusWords, turn : 0 .. 1]
NoAnswer == [sw |-> "none", turn |-> 0]
AnswerNow(sw) == [sw |-> sw, turn |-> turn]

IoStates == {"READY", "RECEIVED", "WAITING"}

Instructions ==
    {"GET_VERSION", "GET_ADDRESS", "GET_XPUB", "SIGN_TX", "SIGN_TOKEN_DATA",
     "SEND_TOKEN_DATA", "VERIFY_TOKEN_SIGNATURE", "RESET_TOKEN_SIGNATURES"}

\* An APDU: is its length consistent, is its class ours, its instruction, its
\* parameters (only p1 = 0, 1, 2 and p2 = 0 are told apart), has it data.
Apdus ==
    [framed : BOOLEAN, ours : BOOLEAN, ins : Instructions \cup {"unknown"},
     p1 : 0 .. 3, p2 : 0 .. 1, data : BOOLEAN]

\* memset(&cmd, 0, sizeof(cmd))
NoCommand == [framed |-> FALSE, ours |-> FALSE, ins |-> "unknown",
              p1 |-> 0, p2 |-> 0, data |-> FALSE]

\* G_context is zero; holds a public key for GET_ADDRESS or GET_XPUB or a token
\* for SIGN_TOKEN_DATA; or belongs to a SIGN_TX, in its three states.
Contexts == {"none", "address", "xpub", "token", "receiving", "parsed", "approved"}

\* The flows with an approve button, and the callback each of them is for.
Questions == {"output", "send", "xpub", "address", "reset", "token"}
Flows == Questions \cup {"menu", "processing"}

\* The contexts a question is asked in.  A reset is not about the context.
ContextsOf ==
    [q \in Questions |->
        CASE q = "output"  -> {"receiving"}
          [] q = "send"    -> {"parsed"}
          [] q = "xpub"    -> {"xpub"}
          [] q = "address" -> {"address"}
          [] q = "reset"   -> Contexts
          [] q = "token"   -> {"token"}]

-----------------------------------------------------------------------------
(* src/io.c *)

\* The state io_recv_command sets before it exchanges.  It never gets to
\* exchange from WAITING.
NextIo == [s \in IoStates |->
    CASE s = "READY" -> "RECEIVED" [] s = "RECEIVED" -> "WAITING" [] s = "WAITING" -> "READY"]

\* The arms of io_send_response all end in READY.  While a command is being
\* handled the answer is stored for the next io_recv_command; once its question
\* is on the screen, the answer leaves at once.  The result is -1 in READY.
SendResponse(sw) ==
    /\ io_state' = "READY"
    /\ IF io_state = "WAITING"
       THEN delivered' = AnswerNow(sw) /\ output' = NoAnswer /\ waiting' = FALSE
       ELSE delivered' = NoAnswer /\ output' = AnswerNow(sw) /\ UNCHANGED waiting

SentNothing == delivered' = NoAnswer /\ UNCHANGED <<io_state, output, waiting>>

\* The top of app_main's loop, and io_recv_command up to its io_exchange: the
\* command is reset and a stored answer is sent.  After WAITING it gives up,
\* which ends app_main.
Recv ==
    /\ pc = "recv"
    /\ io_state' = NextIo[io_state]
    /\ pc' = IF io_state = "WAITING" THEN "boot" ELSE "exchange"
    /\ LET sends == io_state = "READY" /\ output # NoAnswer
       IN  /\ delivered' = IF sends THEN output ELSE NoAnswer
           /\ waiting' = (waiting /\ ~sends)
    /\ command' = NoCommand
    /\ UNCHANGED <<output, context, ui, turn>>

\* The exchange returns with a command.  The link takes no command while one is
\* unanswered.
Receive_KeepsState ==
    /\ pc = "exchange"
    /\ ~waiting
    /\ command' \in Apdus
    /\ waiting' = TRUE
    /\ turn' = 1 - turn
    /\ pc' = "handle"
    /\ delivered' = NoAnswer
    /\ UNCHANGED <<io_state, output, context, ui>>
Receive ==
    /\ pc = "exchange"
    /\ ~waiting
    /\ io_state' = "RECEIVED"
    /\ command' \in Apdus
    /\ waiting' = TRUE
    /\ turn' = 1 - turn
    /\ pc' = "handle"
    /\ delivered' = NoAnswer
    /\ UNCHANGED <<output, context, ui>>

-----------------------------------------------------------------------------
(* src/main.c *)

\* One round of main's loop up to the first io_recv_command of app_main.  USB
\* is switched off and on: the host loses what it waited for.
Boot_KeepsOutput ==
    /\ pc = "boot"
    /\ io_state' = "READY"
    /\ context' = "none"
    /\ flow' = "menu"
    /\ waiting' = FALSE
    /\ pc' = "recv"
    /\ delivered' = NoAnswer
    /\ UNCHANGED <<output, command, g_validate_callback, turn>>
Boot ==
    /\ pc = "boot"
    /\ io_state' = "READY"
    /\ output' = NoAnswer
    /\ context' = "none"
    /\ flow' = "menu"
    /\ waiting' = FALSE
    /\ pc' = "recv"
    /\ delivered' = NoAnswer
    /\ UNCHANGED <<command, g_validate_callback, turn>>

\* io_event throws EXCEPTION_IO_RESET, which only main catches.
IoReset ==
    /\ pc = "exchange"
    /\ pc' = "boot"
    /\ SentNothing
    /\ UNCHANGED <<command, context, ui, turn>>

\* "Quit" in the menu, and the application is opened again later.
LeaveApp ==
    /\ pc = "exchange"
    /\ flow = "menu"
    /\ pc' = "boot"
    /\ g_validate_callback' = "null"
    /\ SentNothing
    /\ UNCHANGED <<command, context, flow, turn>>

-----------------------------------------------------------------------------
(* How a handler ends. *)

\* return io_send_sw(sw): a negative result ends app_main.
Reply(sw) ==
    /\ SendResponse(sw)
    /\ pc' = IF io_state = "READY" THEN "boot" ELSE "recv"

\* io_send_sw(sw); return a number that is not negative -- or THROW(sw), which
\* app_main catches and answers.
ReplyAndGoOn(sw) == SendResponse(sw) /\ pc' = "recv"

\* return 0, with the question q on the screen.
Ask(q) ==
    /\ g_validate_callback' = q
    /\ flow' = q
    /\ SentNothing
    /\ pc' = "recv"

\* return -1 with no answer, or with an answer that app_main will not send.
GiveUp == SentNothing /\ pc' = "boot"
ReplyAndGiveUp(sw) == SendResponse(sw) /\ pc' = "boot"

KeepsScreen == UNCHANGED ui
ShowsMenu == flow' = "menu" /\ UNCHANGED g_validate_callback

-----------------------------------------------------------------------------
(* src/apdu/: the commands that reach no handler. *)

BadP1P2(c) ==
    \/ c.ins \in Instructions \ {"SIGN_TX", "SEND_TOKEN_DATA"} /\ (c.p1 # 0 \/ c.p2 # 0)
    \/ c.ins = "SEND_TOKEN_DATA" /\ c.p2 # 0
    \/ c.ins = "SIGN_TX" /\ (c.p1 > 2 \/ (c.p1 \in {1, 2} /\ c.p2 # 0))

\* SIGN_TX takes data in the stages DATA and SIGN and none in the stage DONE.
BadData(c) ==
    \/ c.ins \in {"GET_ADDRESS", "GET_XPUB"} /\ ~c.data
    \/ c.ins = "SIGN_TX" /\ (c.data <=> c.p1 = 2)

Refusal(c) ==
    IF ~c.framed THEN "WRONG_DATA_LENGTH"
    ELSE IF ~c.ours THEN "CLA_NOT_SUPPORTED"
    ELSE IF c.ins = "unknown" THEN "INS_NOT_SUPPORTED"
    ELSE IF BadP1P2(c) THEN "WRONG_P1P2"
    ELSE IF BadData(c) THEN "WRONG_DATA_LENGTH"
    ELSE "none"

Refuse ==
    /\ pc = "handle"
    /\ Refusal(command) # "none"
    /\ IF command.framed THEN Reply(Refusal(command)) ELSE ReplyAndGoOn(Refusal(command))
    /\ UNCHANGED <<command, context, ui, turn>>

\* The dispatcher calls the handler of instruction ins.
Handles(ins) ==
    /\ pc = "handle"
    /\ Refusal(command) = "none"
    /\ command.ins = ins
    /\ UNCHANGED <<command, turn>>

-----------------------------------------------------------------------------
(* The handlers. *)

GetVersion ==
    /\ Handles("GET_VERSION")
    /\ Reply("OK")
    /\ KeepsScreen
    /\ UNCHANGED context

\* GET_ADDRESS: a bad path is answered, a failing derivation thrown, then again
\* answered when the address is computed for the screen.
GetAddress ==
    /\ Handles("GET_ADDRESS")
    /\ \/ /\ \E sw \in {"WRONG_DATA_LENGTH", "DISPLAY_BIP32_PATH_FAIL"} : Reply(sw)
          /\ context' = "address"
          /\ KeepsScreen
       \/ /\ ReplyAndGoOn("INTERNAL_ERROR")
          /\ context' = "address"
          /\ KeepsScreen
       \/ /\ ReplyAndGoOn("INTERNAL_ERROR")
          /\ context' = "none"
          /\ ShowsMenu
       \/ /\ Ask("address")
          /\ context' = "address"

GetXpub ==
    /\ Handles("GET_XPUB")
    /\ context' = "xpub"
    /\ \/ \E sw \in {"WRONG_DATA_LENGTH", "DISPLAY_BIP32_PATH_FAIL"} : Reply(sw) /\ KeepsScreen
       \/ ReplyAndGoOn("INTERNAL_ERROR") /\ KeepsScreen
       \/ Ask("xpub")

\* What reading and hashing chunk 0 throws; of a later chunk, hashing it.
DataErrors_DecoderState == {"WRONG_DATA_LENGTH", "INVALID_TX", "CX_ERROR", "TX_STATE_READY"}
DataErrors == {"WRONG_DATA_LENGTH", "INVALID_TX", "CX_ERROR"}

\* SIGN_TX, stage DATA: refused by the state, thrown or refused by the data,
\* answered because nothing or only change was decoded, or a question.
SignTxDataRefused ==
    /\ Handles("SIGN_TX")
    /\ command.p1 = 0
    /\ context = "approved" \/ (command.p2 > 0 /\ context # "receiving")
    /\ context' = "none"
    /\ Reply("BAD_STATE")
    /\ ShowsMenu

TakesData ==
    /\ Handles("SIGN_TX")
    /\ command.p1 = 0
    /\ IF command.p2 = 0 THEN context \notin {"receiving", "approved"} ELSE context = "receiving"

SignTxData ==
    /\ TakesData
    /\ \/ /\ context' = "receiving"
          /\ \/ command.p2 = 0 /\ \E sw \in DataErrors : ReplyAndGoOn(sw)
             \/ command.p2 > 0 /\ ReplyAndGoOn("CX_ERROR")
          /\ KeepsScreen
       \/ /\ context' = "none"
          /\ \E sw \in {"INVALID_TX", "INTERNAL_ERROR"} : ReplyAndGoOn(sw)
          /\ ShowsMenu
       \/ /\ context' = "receiving"
          /\ ReplyAndGoOn("OK")
          /\ KeepsScreen \/ ShowsMenu
       \/ context' = "receiving" /\ Ask("output")
       \/ context' = "parsed" /\ Ask("send")

\* verify_change throws inside decode_elements.
SignTxDataGivesUp_GoesOn ==
    /\ TakesData
    /\ context' = "receiving"
    /\ SentNothing /\ pc' = "recv"
    /\ KeepsScreen
SignTxDataGivesUp ==
    /\ TakesData
    /\ context' = "receiving"
    /\ GiveUp
    /\ KeepsScreen

\* The first chunk twice: thrown past the menu.
SignTxDataAgain ==
    /\ Handles("SIGN_TX")
    /\ command.p1 = 0 /\ command.p2 = 0
    /\ context = "receiving"
    /\ context' = "none"
    /\ ReplyAndGoOn("BAD_STATE")
    /\ KeepsScreen

\* SIGN_TX, stage SIGN.
SignTxSign ==
    /\ Handles("SIGN_TX")
    /\ command.p1 = 1
    /\ IF context = "approved"
       THEN \/ ReplyAndGoOn("OK")
            \/ Reply("WRONG_DATA_LENGTH")
            \/ \E sw \in {"SIGNATURE_FAIL", "INTERNAL_ERROR"} : ReplyAndGiveUp(sw)
       ELSE Reply("BAD_STATE")
    /\ KeepsScreen
    /\ UNCHANGED context

\* SIGN_TX, stage DONE.
SignTxDone ==
    /\ Handles("SIGN_TX")
    /\ command.p1 = 2
    /\ context' = "none"
    /\ Reply("OK")
    /\ ShowsMenu

SignTokenData ==
    /\ Handles("SIGN_TOKEN_DATA")
    /\ context' = "token"
    /\ \/ Reply("INVALID_SIGNATURE") /\ KeepsScreen
       \/ Ask("token")

\* Only the first SEND_TOKEN_DATA erases the context.
SendTokenData ==
    /\ Handles("SEND_TOKEN_DATA")
    /\ context' = IF command.p1 = 0 THEN "none" ELSE context
    /\ \E sw \in {"OK", "WRONG_DATA_LENGTH", "INVALID_SIGNATURE", "INTERNAL_ERROR"} : Reply(sw)
    /\ KeepsScreen

VerifyTokenSignature ==
    /\ Handles("VERIFY_TOKEN_SIGNATURE")
    /\ context' = "none"
    /\ \E sw \in {"OK", "INVALID_SIGNATURE", "INTERNAL_ERROR"} : Reply(sw)
    /\ KeepsScreen

\* RESET_TOKEN_SIGNATURES does not touch the context: the question may come up
\* in the middle of a transaction.
ResetTokenSignatures_KeepsCallback ==
    /\ Handles("RESET_TOKEN_SIGNATURES")
    /\ flow' = "reset"
    /\ SentNothing
    /\ pc' = "recv"
    /\ UNCHANGED <<context, g_validate_callback>>
ResetTokenSignatures ==
    /\ Handles("RESET_TOKEN_SIGNATURES")
    /\ Ask("reset")
    /\ UNCHANGED context

-----------------------------------------------------------------------------
(* The buttons, pressed while the device is in io_exchange. *)

\* A button of the flow on the screen runs the callback c.
Pressed(c) ==
    /\ pc = "exchange"
    /\ flow \in Questions
    /\ g_validate_callback = c
    /\ UNCHANGED <<pc, command, turn>>

\* ui_confirm_output(true): the next output, the next chunk, the last question,
\* or no address to show.
ApproveOutput ==
    /\ Pressed("output")
    /\ \/ SentNothing /\ flow' = "output" /\ UNCHANGED <<context, g_validate_callback>>
       \/ SendResponse("OK") /\ ShowsMenu /\ UNCHANGED context
       \/ /\ SentNothing
          /\ context' = "parsed"
          /\ flow' = "send"
          /\ g_validate_callback' = "send"
       \/ SendResponse("INTERNAL_ERROR") /\ ShowsMenu /\ context' = "none"

\* ui_action_tx_confirm(true)
ApproveSend ==
    /\ Pressed("send")
    /\ context' = "approved"
    /\ SendResponse("OK")
    /\ flow' = "processing"
    /\ UNCHANGED g_validate_callback

\* ui_action_confirm_xpub(true), ui_action_confirm_address(true) and
\* ui_confirm_reset_token_signatures(true)
ApproveAccess ==
    /\ \E c \in {"xpub", "address", "reset"} : Pressed(c)
    /\ SendResponse("OK")
    /\ ShowsMenu
    /\ UNCHANGED context

\* ui_action_sign_token_data(true)
ApproveToken ==
    /\ Pressed("token")
    /\ \E sw \in {"OK", "INTERNAL_ERROR"} : SendResponse(sw)
    /\ ShowsMenu
    /\ UNCHANGED context

\* Every flow but the one of GET_ADDRESS has a reject button.
Reject_Silent ==
    /\ flow # "address"
    /\ \E c \in Questions : Pressed(c)
    /\ context' = IF g_validate_callback = "reset" THEN context ELSE "none"
    /\ SentNothing
    /\ ShowsMenu
Reject ==
    /\ flow # "address"
    /\ \E c \in Questions : Pressed(c)
    /\ context' = IF g_validate_callback = "reset" THEN context ELSE "none"
    /\ SendResponse("DENY")
    /\ ShowsMenu

\* "Quit" under "Processing".
Quit ==
    /\ pc = "exchange"
    /\ flow = "processing"
    /\ context' = "none"
    /\ ShowsMenu
    /\ SentNothing
    /\ UNCHANGED <<pc, command, turn>>

-----------------------------------------------------------------------------
Init ==
    /\ io_state = "READY"
    /\ output = NoAnswer
    /\ pc = "boot"
    /\ command = NoCommand
    /\ context = "none"
    /\ g_validate_callback = "null"
    /\ flow = "menu"
    /\ waiting = FALSE
    /\ turn = 0
    /\ delivered = NoAnswer

Handler ==
    \/ Refuse \/ GetVersion \/ GetAddress \/ GetXpub
    \/ SignTxDataRefused \/ SignTxData \/ SignTxDataGivesUp \/ SignTxDataAgain
    \/ SignTxSign \/ SignTxDone
    \/ SignTokenData \/ SendTokenData \/ VerifyTokenSignature \/ ResetTokenSignatures

Button ==
    \/ ApproveOutput \/ ApproveSend \/ ApproveAccess \/ ApproveToken \/ Reject \/ Quit

Next == Boot \/ Recv \/ Handler \/ Button \/ Receive \/ IoReset \/ LeaveApp

Spec == Init /\ [][Next]_vars

\* The thread runs, and the user answers the question on the screen.
Fairness ==
    /\ WF_vars(Boot \/ Recv \/ Handler)
    /\ WF_vars(flow \in Questions /\ Button)

FairSpec == Spec /\ Fairness

-----------------------------------------------------------------------------
(* Properties. *)

\* Every variable has its type: what goes out is a status word of sw.h or the
\* error of the hash function.
TypeOK ==
    /\ io_state \in IoStates
    /\ output \in Answers \cup {NoAnswer}
    /\ pc \in {"boot", "recv", "exchange", "handle"}
    /\ command \in Apdus
    /\ context \in Contexts
    /\ g_validate_callback \in Questions \cup {"null"}
    /\ flow \in Flows
    /\ waiting \in BOOLEAN
    /\ turn \in 0 .. 1
    /\ delivered \in Answers \cup {NoAnswer}

\* The buttons on the screen run the callback of their own question, on the
\* context the question is about, for a command that waits for it.
ButtonsMatchQuestion ==
    flow \in Questions /\ pc = "exchange" =>
        /\ g_validate_callback = flow
        /\ context \in ContextsOf[flow]
        /\ waiting /\ io_state = "WAITING"

\* While a command waits and the thread is in io_exchange, the user has a
\* question to answer: the device never waits for nothing.
WaitsForTheUser ==
    pc = "exchange" /\ waiting => flow \in Questions

\* A handler always has a command to answer, io_send_response is never entered
\* in READY and io_recv_command never in WAITING: both would end app_main.
IoStateMatchesThread ==
    /\ pc = "handle" => waiting /\ io_state = "RECEIVED"
    /\ pc = "recv" => io_state # "WAITING"

\* Every command ends: it is answered, or the link is dropped, unless the user
\* is reviewing outputs.  That the review ends is CommandsEnd of SignTx.
CommandsEnd == waiting ~> (~waiting \/ flow = "output")

\* The thread, the stored answer and the screens together behave as the
\* request and answer protocol of Exchange.
Protocol == INSTANCE Exchange

ImplementsExchange == Protocol!Spec

-----------------------------------------------------------------------------
(* The inductive invariant behind them. *)

\* A question is on the screen: its command waits, its answer has not been
\* made, and its buttons are the right ones.
Asked ==
    /\ waiting
    /\ flow \in Questions
    /\ g_validate_callback = flow
    /\ context \in ContextsOf[flow]

\* Nothing is on the screen that a button could answer twice.
NotAsked == flow \notin Questions

\* The state of the I/O tells, in each place of the thread, what becomes of the
\* command that waits.
ThreadMatchesIo ==
    /\ pc = "handle" => waiting /\ io_state = "RECEIVED" /\ NotAsked
    /\ pc = "recv" =>
          \/ io_state = "RECEIVED" /\ Asked
          \/ io_state = "READY" /\ NotAsked /\ waiting /\ output \in Answers /\ output.turn = turn
          \/ io_state = "READY" /\ NotAsked /\ ~waiting /\ output = NoAnswer
    /\ pc = "exchange" =>
          \/ io_state = "WAITING" /\ Asked
          \/ io_state # "WAITING" /\ NotAsked /\ ~waiting

IndInv == TypeOK /\ ThreadMatchesIo

-----------------------------------------------------------------------------
(* What the documentation says and the code does not do. *)

\* "zero or positive integer if success, -1 otherwise" (io.h:53, of io_send_sw):
\* app_main is not left over an answer that was accepted for sending.
SentIsDelivered ==
    pc = "boot" => ~(waiting /\ output \in Answers /\ output.turn = turn)

=============================================================================
