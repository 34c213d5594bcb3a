---------------------------- MODULE ApduIOProofs ----------------------------
(***************************************************************************)
(* Proofs about ApduIO: the state of the I/O, the thread and the screen    *)
(* agree in every reachable state, and the whole implements Exchange.      *)
(***************************************************************************)
EXTENDS ApduIO, TLAPS

-----------------------------------------------------------------------------
(* Type correctness. *)

\* An answer made in a turn is an answer.
LEMMA AnswerType ==
    ASSUME NEW sw \in StatusWords, turn \in 0 .. 1
    PROVE  AnswerNow(sw) \in Answers /\ AnswerNow(sw) # NoAnswer
  BY DEF AnswerNow, Answers, NoAnswer, StatusWords

\* Sending a status word keeps the types of the I/O.
LEMMA SendType ==
    ASSUME TypeOK, NEW sw \in StatusWords, SendResponse(sw)
    PROVE  /\ io_state' \in IoStates
           /\ output' \in Answers \cup {NoAnswer}
           /\ waiting' \in BOOLEAN
           /\ delivered' \in Answers \cup {NoAnswer}
  BY AnswerType DEF TypeOK, SendResponse, IoStates

\* So does sending nothing.
LEMMA SilenceType ==
    ASSUME TypeOK, SentNothing
    PROVE  /\ io_state' \in IoStates
           /\ output' \in Answers \cup {NoAnswer}
           /\ waiting' \in BOOLEAN
           /\ delivered' \in Answers \cup {NoAnswer}
  BY DEF TypeOK, SentNothing

\* The dispatcher refuses with a status word.
LEMMA RefusalType ==
    Refusal(command) # "none" => Refusal(command) \in StatusWords
  BY DEF Refusal, StatusWords

\* Every handler keeps the types.
LEMMA HandlerType == TypeOK /\ Handler => TypeOK'
  <1> SUFFICES ASSUME TypeOK, Handler PROVE TypeOK'
    OBVIOUS
  <1> USE DEF TypeOK, Contexts, Flows, Questions
  <1>1. CASE Refuse
    BY <1>1, SendType, RefusalType DEF Refuse, Reply, ReplyAndGoOn, ui
  <1>2. CASE GetVersion
    BY <1>2, SendType DEF GetVersion, Handles, Reply, KeepsScreen, ui, StatusWords
  <1>3. CASE GetAddress
    BY <1>3, SendType, SilenceType
    DEF GetAddress, Handles, Reply, ReplyAndGoOn, Ask, KeepsScreen, ShowsMenu, ui, StatusWords
  <1>4. CASE GetXpub
    BY <1>4, SendType, SilenceType
    DEF GetXpub, Handles, Reply, ReplyAndGoOn, Ask, KeepsScreen, ui, StatusWords
  <1>5. CASE SignTxDataRefused
    BY <1>5, SendType DEF SignTxDataRefused, Handles, Reply, ShowsMenu, StatusWords
  <1>6. CASE SignTxData
    BY <1>6, SendType, SilenceType
    DEF SignTxData, TakesData, DataErrors, Handles, ReplyAndGoOn, Ask, KeepsScreen, ShowsMenu,
        ui, StatusWords
  <1>7. CASE SignTxDataGivesUp
    BY <1>7, SilenceType DEF SignTxDataGivesUp, TakesData, Handles, GiveUp, KeepsScreen, ui
  <1>8. CASE SignTxDataAgain
    BY <1>8, SendType DEF SignTxDataAgain, Handles, ReplyAndGoOn, KeepsScreen, ui, StatusWords
  <1>9. CASE SignTxSign
    BY <1>9, SendType
    DEF SignTxSign, Handles, Reply, ReplyAndGoOn, ReplyAndGiveUp, KeepsScreen, ui, StatusWords
  <1>10. CASE SignTxDone
    BY <1>10, SendType DEF SignTxDone, Handles, Reply, ShowsMenu, StatusWords
  <1>11. CASE SignTokenData
    BY <1>11, SendType, SilenceType
    DEF SignTokenData, Handles, Reply, Ask, KeepsScreen, ui, StatusWords
  <1>12. CASE SendTokenData
    BY <1>12, SendType DEF SendTokenData, Handles, Reply, KeepsScreen, ui, StatusWords
  <1>13. CASE VerifyTokenSignature
    BY <1>13, SendType DEF VerifyTokenSignature, Handles, Reply, KeepsScreen, ui, StatusWords
  <1>14. CASE ResetTokenSignatures
    BY <1>14, SilenceType DEF ResetTokenSignatures, Handles, Ask
  <1> QED
    BY <1>1, <1>2, <1>3, <1>4, <1>5, <1>6, <1>7, <1>8, <1>9, <1>10, <1>11, <1>12, <1>13, <1>14
    DEF Handler

\* Every button keeps the types.
LEMMA ButtonType == TypeOK /\ Button => TypeOK'
  <1> SUFFICES ASSUME TypeOK, Button PROVE TypeOK'
    OBVIOUS
  <1> USE DEF TypeOK, Contexts, Flows, Questions, Pressed
  <1>1. CASE ApproveOutput
    BY <1>1, SendType, SilenceType DEF ApproveOutput, ShowsMenu, StatusWords
  <1>2. CASE ApproveSend
    BY <1>2, SendType DEF ApproveSend, StatusWords
  <1>3. CASE ApproveAccess
    BY <1>3, SendType DEF ApproveAccess, ShowsMenu, StatusWords
  <1>4. CASE ApproveToken
    BY <1>4, SendType DEF ApproveToken, ShowsMenu, StatusWords
  <1>5. CASE Reject
    BY <1>5, SendType DEF Reject, ShowsMenu, StatusWords
  <1>6. CASE Quit
    BY <1>6, SilenceType DEF Quit, ShowsMenu
  <1> QED
    BY <1>1, <1>2, <1>3, <1>4, <1>5, <1>6 DEF Button

\* The empty command has its type.
LEMMA NoCommandType == NoCommand \in Apdus
  BY DEF NoCommand, Apdus

\* Every step keeps the types.
LEMMA TypeStep == TypeOK /\ [Next]_vars => TypeOK'
  <1> SUFFICES ASSUME TypeOK, [Next]_vars PROVE TypeOK'
    OBVIOUS
  <1> USE DEF TypeOK
  <1>1. CASE Boot
    BY <1>1 DEF Boot, IoStates, Contexts, Flows
  <1>2. CASE Recv
    <2>1. NextIo[io_state] \in IoStates
      BY DEF NextIo, IoStates
    <2> QED
      BY <1>2, <2>1, NoCommandType DEF Recv, ui
  <1>3. CASE Receive
    BY <1>3 DEF Receive, IoStates, ui
  <1>4. CASE IoReset
    BY <1>4, SilenceType DEF IoReset, ui
  <1>5. CASE LeaveApp
    BY <1>5, SilenceType DEF LeaveApp
  <1>6. CASE UNCHANGED vars
    BY <1>6 DEF vars, ui, link
  <1> QED
    BY <1>1, <1>2, <1>3, <1>4, <1>5, <1>6, HandlerType, ButtonType DEF Next

\* The first boot has the right types.
LEMMA InitType == Init => TypeOK
  <1> SUFFICES ASSUME Init PROVE TypeOK
    OBVIOUS
  <1>1. turn \in 0 .. 1
    BY DEF Init
  <1>2. waiting \in BOOLEAN
    BY DEF Init
  <1> QED
    BY <1>1, <1>2, NoCommandType DEF Init, TypeOK, IoStates, Contexts, Flows

\* The types hold in every reachable state; every answer is a status word.
THEOREM IoTypeCorrect == Spec => []TypeOK
  BY InitType, TypeStep, PTL DEF Spec

-----------------------------------------------------------------------------
(* The I/O, the thread and the screen. *)

\* A handler that answers leaves its answer to the next io_recv_command.
LEMMA HandlerReplies ==
    ASSUME TypeOK, ThreadMatchesIo, pc = "handle",
           NEW sw \in StatusWords, SendResponse(sw), pc' \in {"recv", "boot"},
           NotAsked', UNCHANGED turn
    PROVE  ThreadMatchesIo'
  BY AnswerType DEF TypeOK, ThreadMatchesIo, SendResponse, AnswerNow

\* A handler that asks leaves the screen to the user.
LEMMA HandlerAsks ==
    ASSUME ThreadMatchesIo, pc = "handle",
           NEW q \in Questions, Ask(q), context' \in ContextsOf[q]
    PROVE  ThreadMatchesIo'
  BY DEF ThreadMatchesIo, Ask, SentNothing, Asked

\* A button that answers takes the question off the screen.
LEMMA ButtonAnswers ==
    ASSUME ThreadMatchesIo, NEW c, Pressed(c),
           NEW sw \in StatusWords, SendResponse(sw), NotAsked'
    PROVE  ThreadMatchesIo'
  BY DEF ThreadMatchesIo, Pressed, SendResponse, NotAsked, Asked

\* A step to main's loop leaves nothing to be said.
LEMMA BootIsFree == pc' = "boot" => ThreadMatchesIo'
  BY DEF ThreadMatchesIo

\* The screens without a question.
LEMMA ScreensNotAsked ==
    /\ flow' = "menu" => NotAsked'
    /\ flow' = "processing" => NotAsked'
    /\ NotAsked /\ UNCHANGED flow => NotAsked'
  BY DEF NotAsked, Questions

\* Every handler keeps the agreement.
LEMMA HandlerThread == IndInv /\ Handler => ThreadMatchesIo'
  <1> SUFFICES ASSUME TypeOK, ThreadMatchesIo, Handler PROVE ThreadMatchesIo'
    BY DEF IndInv
  <1>0. pc = "handle" /\ io_state # "READY" /\ NotAsked /\ UNCHANGED turn
    BY DEF Handler, Refuse, GetVersion, GetAddress, GetXpub, SignTxDataRefused, SignTxData,
           SignTxDataGivesUp, SignTxDataAgain, TakesData, SignTxSign, SignTxDone, SignTokenData,
           SendTokenData, VerifyTokenSignature, ResetTokenSignatures, Handles, ThreadMatchesIo
  <1>1. ASSUME NEW sw \in StatusWords, Reply(sw) \/ ReplyAndGoOn(sw) \/ ReplyAndGiveUp(sw),
               KeepsScreen \/ ShowsMenu
        PROVE  ThreadMatchesIo'
    <2>1. NotAsked'
      BY <1>0, <1>1, ScreensNotAsked DEF KeepsScreen, ShowsMenu, ui
    <2> QED
      BY <1>0, <1>1, <2>1, HandlerReplies DEF Reply, ReplyAndGoOn, ReplyAndGiveUp
  <1>2. ASSUME NEW q \in Questions, Ask(q), context' \in ContextsOf[q]
        PROVE  ThreadMatchesIo'
    BY <1>0, <1>2, HandlerAsks
  <1>3. CASE Refuse
    BY <1>3, <1>1, RefusalType DEF Refuse, KeepsScreen
  <1>4. CASE GetVersion
    BY <1>4, <1>1 DEF GetVersion, StatusWords
  <1>5. CASE GetAddress
    <2>1. Ask("address") /\ context' = "address" => ThreadMatchesIo'
      BY <1>2 DEF Questions, ContextsOf
    <2> QED
      BY <1>5, <1>1, <2>1 DEF GetAddress, StatusWords
  <1>6. CASE GetXpub
    <2>1. Ask("xpub") /\ context' = "xpub" => ThreadMatchesIo'
      BY <1>2 DEF Questions, ContextsOf
    <2> QED
      BY <1>6, <1>1, <2>1 DEF GetXpub, StatusWords
  <1>7. CASE SignTxDataRefused
    BY <1>7, <1>1 DEF SignTxDataRefused, StatusWords
  <1>8. CASE SignTxData
    <2>1. Ask("output") /\ context' = "receiving" => ThreadMatchesIo'
      BY <1>2 DEF Questions, ContextsOf
    <2>2. Ask("send") /\ context' = "parsed" => ThreadMatchesIo'
      BY <1>2 DEF Questions, ContextsOf
    <2> QED
      BY <1>8, <1>1, <2>1, <2>2 DEF SignTxData, DataErrors, StatusWords
  <1>9. CASE SignTxDataGivesUp
    BY <1>9, BootIsFree DEF SignTxDataGivesUp, GiveUp
  <1>10. CASE SignTxDataAgain
    BY <1>10, <1>1 DEF SignTxDataAgain, StatusWords
  <1>11. CASE SignTxSign
    BY <1>11, <1>1 DEF SignTxSign, StatusWords
  <1>12. CASE SignTxDone
    BY <1>12, <1>1 DEF SignTxDone, StatusWords
  <1>13. CASE SignTokenData
    <2>1. Ask("token") /\ context' = "token" => ThreadMatchesIo'
      BY <1>2 DEF Questions, ContextsOf
    <2> QED
      BY <1>13, <1>1, <2>1 DEF SignTokenData, StatusWords
  <1>14. CASE SendTokenData
    BY <1>14, <1>1 DEF SendTokenData, StatusWords
  <1>15. CASE VerifyTokenSignature
    BY <1>15, <1>1 DEF VerifyTokenSignature, StatusWords
  <1>16. CASE ResetTokenSignatures
    <2>1. context \in ContextsOf["reset"]
      BY DEF TypeOK, ContextsOf, Questions
    <2>2. Ask("reset") /\ context' \in ContextsOf["reset"] => ThreadMatchesIo'
      BY <1>2 DEF Questions
    <2> QED
      BY <1>16, <2>1, <2>2 DEF ResetTokenSignatures
  <1> QED
    BY <1>3, <1>4, <1>5, <1>6, <1>7, <1>8, <1>9, <1>10, <1>11, <1>12, <1>13, <1>14, <1>15,
       <1>16 DEF Handler

\* Every button keeps the agreement.
LEMMA ButtonThread == IndInv /\ Button => ThreadMatchesIo'
  <1> SUFFICES ASSUME TypeOK, ThreadMatchesIo, Button PROVE ThreadMatchesIo'
    BY DEF IndInv
  <1>1. ASSUME NEW c, Pressed(c), NEW sw \in StatusWords, SendResponse(sw),
               ShowsMenu \/ flow' = "processing"
        PROVE  ThreadMatchesIo'
    BY <1>1, ButtonAnswers, ScreensNotAsked DEF ShowsMenu
  <1>2. CASE ApproveOutput
    <2>1. Pressed("output")
      BY <1>2 DEF ApproveOutput
    <2>2. /\ pc' = "exchange" /\ io_state = "WAITING" /\ waiting
          /\ context = "receiving"
      BY <2>1 DEF Pressed, ThreadMatchesIo, NotAsked, Asked, ContextsOf, Questions
    <2>3. CASE SentNothing /\ flow' = "output" /\ UNCHANGED <<context, g_validate_callback>>
      BY <2>1, <2>2, <2>3 DEF Pressed, SentNothing, ThreadMatchesIo, Asked, Questions, ContextsOf
    <2>4. CASE SentNothing /\ context' = "parsed" /\ flow' = "send" /\ g_validate_callback' = "send"
      BY <2>2, <2>4 DEF SentNothing, ThreadMatchesIo, Asked, Questions, ContextsOf
    <2>5. CASE \E sw \in {"OK", "INTERNAL_ERROR"} : SendResponse(sw) /\ ShowsMenu
      BY <1>1, <2>1, <2>5 DEF StatusWords
    <2> QED
      BY <1>2, <2>3, <2>4, <2>5 DEF ApproveOutput
  <1>3. CASE ApproveSend
    BY <1>1, <1>3 DEF ApproveSend, StatusWords
  <1>4. CASE ApproveAccess
    BY <1>1, <1>4 DEF ApproveAccess, StatusWords
  <1>5. CASE ApproveToken
    BY <1>1, <1>5 DEF ApproveToken, StatusWords
  <1>6. CASE Reject
    BY <1>1, <1>6 DEF Reject, StatusWords
  <1>7. CASE Quit
    <2>1. NotAsked /\ NotAsked'
      BY <1>7, ScreensNotAsked DEF Quit, ShowsMenu, NotAsked, Questions
    <2> QED
      BY <1>7, <2>1 DEF Quit, SentNothing, ThreadMatchesIo, NotAsked, Asked
  <1> QED
    BY <1>2, <1>3, <1>4, <1>5, <1>6, <1>7 DEF Button

\* Every step keeps the agreement.
LEMMA ThreadStep == IndInv /\ [Next]_vars => ThreadMatchesIo'
  <1> SUFFICES ASSUME IndInv, [Next]_vars PROVE ThreadMatchesIo'
    OBVIOUS
  <1> USE DEF IndInv
  <1>1. CASE Boot
    BY <1>1, ScreensNotAsked DEF Boot, ThreadMatchesIo
  <1>2. CASE Recv
    <2>1. io_state \in {"READY", "RECEIVED"}
      BY <1>2 DEF Recv, ThreadMatchesIo
    <2>2. io_state' = IF io_state = "READY" THEN "RECEIVED" ELSE "WAITING"
      BY <1>2, <2>1 DEF Recv, NextIo, IoStates
    <2>3. CASE io_state = "RECEIVED"
      BY <1>2, <2>2, <2>3 DEF Recv, ThreadMatchesIo, Asked, ui
    <2>4. CASE io_state = "READY"
      <3>1. NotAsked /\ NotAsked'
        BY <1>2, <2>4, ScreensNotAsked DEF Recv, ThreadMatchesIo, ui
      <3>2. NoAnswer \notin Answers
        BY DEF NoAnswer, Answers, StatusWords
      <3>3. ~waiting'
        BY <1>2, <2>4, <3>2 DEF Recv, ThreadMatchesIo
      <3> QED
        BY <1>2, <2>2, <2>4, <3>1, <3>3 DEF Recv, ThreadMatchesIo
    <2> QED
      BY <2>1, <2>3, <2>4
  <1>3. CASE Receive
    BY <1>3, ScreensNotAsked DEF Receive, ThreadMatchesIo, Asked, ui
  <1>4. CASE IoReset
    BY <1>4, BootIsFree DEF IoReset
  <1>5. CASE LeaveApp
    BY <1>5, BootIsFree DEF LeaveApp
  <1>6. CASE UNCHANGED vars
    BY <1>6 DEF vars, ui, link, ThreadMatchesIo, Asked, NotAsked
  <1> QED
    BY <1>1, <1>2, <1>3, <1>4, <1>5, <1>6, HandlerThread, ButtonThread DEF Next

\* The inductive invariant holds in every reachable state.
THEOREM IoInvariance == Spec => []IndInv
  <1>1. Init => IndInv
    BY InitType, BootIsFree DEF IndInv, Init, ThreadMatchesIo
  <1>2. IndInv /\ [Next]_vars => IndInv'
    BY TypeStep, ThreadStep DEF IndInv
  <1> QED
    BY <1>1, <1>2, PTL DEF Spec

\* The buttons on the screen belong to the command that waits (display.c:71-85,
\* where every flow shares one g_validate_callback).
THEOREM ButtonsCorrect == Spec => []ButtonsMatchQuestion
  <1>1. IndInv => ButtonsMatchQuestion
    BY DEF IndInv, ThreadMatchesIo, Asked, NotAsked, ButtonsMatchQuestion
  <1> QED
    BY <1>1, IoInvariance, PTL

\* The device waits only for a user with a question to answer (io.c:81-85).
THEOREM WaitingCorrect == Spec => []WaitsForTheUser
  <1>1. IndInv => WaitsForTheUser
    BY DEF IndInv, ThreadMatchesIo, Asked, WaitsForTheUser
  <1> QED
    BY <1>1, IoInvariance, PTL

\* io_recv_command and io_send_response are entered in the states that they
\* serve: their -1 results are never taken (io.c:86-89 and 114-116).
THEOREM IoStateCorrect == Spec => []IoStateMatchesThread
  <1>1. IndInv => IoStateMatchesThread
    BY DEF IndInv, ThreadMatchesIo, IoStateMatchesThread
  <1> QED
    BY <1>1, IoInvariance, PTL

-----------------------------------------------------------------------------
(* The refinement of Exchange. *)

\* A handler tells the host nothing yet.
LEMMA HandlerRefines == IndInv /\ Handler => Protocol!Other
  <1> SUFFICES ASSUME ThreadMatchesIo, Handler PROVE Protocol!Other
    BY DEF IndInv
  <1> USE DEF Protocol!Other
  <1>1. pc = "handle" /\ UNCHANGED turn
    BY DEF Handler, Refuse, GetVersion, GetAddress, GetXpub, SignTxDataRefused, SignTxData,
           SignTxDataGivesUp, SignTxDataAgain, TakesData, SignTxSign, SignTxDone, SignTokenData,
           SendTokenData, VerifyTokenSignature, ResetTokenSignatures, Handles
  <1>2. io_state = "RECEIVED"
    BY <1>1 DEF ThreadMatchesIo
  <1>3. ASSUME NEW sw, Reply(sw) \/ ReplyAndGoOn(sw) \/ ReplyAndGiveUp(sw)
        PROVE  Protocol!Other
    BY <1>1, <1>2, <1>3 DEF Reply, ReplyAndGoOn, ReplyAndGiveUp, SendResponse
  <1>4. ASSUME NEW q, Ask(q) PROVE Protocol!Other
    BY <1>1, <1>4 DEF Ask, SentNothing
  <1>5. GiveUp => Protocol!Other
    BY <1>1 DEF GiveUp, SentNothing
  <1> QED
    BY <1>3, <1>4, <1>5
    DEF Handler, Refuse, GetVersion, GetAddress, GetXpub, SignTxDataRefused, SignTxData,
        SignTxDataGivesUp, SignTxDataAgain, SignTxSign, SignTxDone, SignTokenData,
        SendTokenData, VerifyTokenSignature, ResetTokenSignatures

\* A button delivers the answer to the command that waits, or nothing.
LEMMA ButtonRefines == IndInv /\ Button => Protocol!Deliver \/ Protocol!Other
  <1> SUFFICES ASSUME ThreadMatchesIo, Button PROVE Protocol!Deliver \/ Protocol!Other
    BY DEF IndInv
  <1>1. ASSUME NEW c, Pressed(c), NEW sw \in StatusWords, SendResponse(sw)
        PROVE  Protocol!Deliver
    <2>1. waiting /\ io_state = "WAITING" /\ UNCHANGED turn
      BY <1>1 DEF Pressed, ThreadMatchesIo, NotAsked, Asked
    <2> QED
      BY <1>1, <2>1 DEF SendResponse, AnswerNow, Protocol!Deliver
  <1>2. ASSUME SentNothing, UNCHANGED turn PROVE Protocol!Other
    BY <1>2 DEF SentNothing, Protocol!Other
  <1>3. CASE ApproveOutput
    BY <1>1, <1>2, <1>3 DEF ApproveOutput, Pressed, StatusWords
  <1>4. CASE ApproveSend
    BY <1>1, <1>4 DEF ApproveSend, StatusWords
  <1>5. CASE ApproveAccess
    BY <1>1, <1>5 DEF ApproveAccess, StatusWords
  <1>6. CASE ApproveToken
    BY <1>1, <1>6 DEF ApproveToken, StatusWords
  <1>7. CASE Reject
    BY <1>1, <1>7 DEF Reject, StatusWords
  <1>8. CASE Quit
    BY <1>2, <1>8 DEF Quit
  <1> QED
    BY <1>3, <1>4, <1>5, <1>6, <1>7, <1>8 DEF Button

\* io_recv_command delivers the stored answer to the command that waits for it.
LEMMA RecvRefines == IndInv /\ Recv => Protocol!Deliver \/ Protocol!Other
  <1> SUFFICES ASSUME TypeOK, ThreadMatchesIo, Recv PROVE Protocol!Deliver \/ Protocol!Other
    BY DEF IndInv
  <1>1. CASE io_state = "READY" /\ output # NoAnswer
    <2>1. waiting /\ output \in Answers /\ output.turn = turn
      BY <1>1 DEF Recv, ThreadMatchesIo
    <2>2. output = [sw |-> output.sw, turn |-> turn] /\ output.sw \in StatusWords
      BY <2>1 DEF Answers
    <2> QED
      BY <1>1, <2>1, <2>2 DEF Recv, Protocol!Deliver
  <1>2. CASE ~(io_state = "READY" /\ output # NoAnswer)
    BY <1>2 DEF Recv, TypeOK, Protocol!Other
  <1> QED
    BY <1>1, <1>2

\* Every step is a step of the protocol or changes nothing in it.
LEMMA StepRefinesExchange == IndInv /\ [Next]_vars => [Protocol!Next]_(Protocol!vars)
  <1> SUFFICES ASSUME IndInv, [Next]_vars PROVE [Protocol!Next]_(Protocol!vars)
    OBVIOUS
  <1> USE DEF Protocol!Next, Protocol!vars
  <1>1. CASE Boot
    BY <1>1 DEF Boot, Protocol!Drop
  <1>2. CASE Recv
    BY <1>2, RecvRefines
  <1>3. CASE Receive
    BY <1>3 DEF Receive, Protocol!Request
  <1>4. CASE IoReset \/ LeaveApp
    BY <1>4 DEF IoReset, LeaveApp, SentNothing, Protocol!Other
  <1>5. CASE UNCHANGED vars
    BY <1>5 DEF vars, link
  <1> QED
    BY <1>1, <1>2, <1>3, <1>4, <1>5, HandlerRefines, ButtonRefines DEF Next

\* The device answers each command at most once, with the answer made for it,
\* whatever mixture of stored answers, questions and restarts carries it
\* (io.c:73-129 with main.c:25-146).
THEOREM IoRefinement == Spec => ImplementsExchange
  <1>1. Init => Protocol!Init
    BY DEF Init, Protocol!Init
  <1> QED
    BY <1>1, StepRefinesExchange, IoInvariance, PTL DEF Spec, ImplementsExchange, Protocol!Spec

=============================================================================
