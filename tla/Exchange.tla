------------------------------ MODULE Exchange ------------------------------
(***************************************************************************)
(* What the application promises the host about its commands: a command    *)
(* gets at most one answer, an answer is one that was made for the command *)
(* that waits, and a command without an answer is only ever dropped with   *)
(* the link.                                                               *)
(***************************************************************************)
EXTENDS Integers

CONSTANTS
    StatusWords,  \* what an answer may say
    NoAnswer      \* no answer was delivered

VARIABLES
    waiting,   \* the host waits for the answer to a command
    turn,      \* tells a command from the one before
    delivered  \* the answer this step delivered

vars == <<waiting, turn, delivered>>

Init ==
    /\ waiting = FALSE
    /\ turn = 0
    /\ delivered = NoAnswer

Request ==
    /\ ~waiting
    /\ waiting' = TRUE
    /\ turn' = 1 - turn
    /\ delivered' = NoAnswer

Deliver ==
    /\ waiting
    /\ waiting' = FALSE
    /\ \E sw \in StatusWords : delivered' = [sw |-> sw, turn |-> turn]
    /\ UNCHANGED turn

Drop ==
    /\ waiting' = FALSE
    /\ delivered' = NoAnswer
    /\ UNCHANGED turn

Other ==
    /\ delivered' = NoAnswer
    /\ UNCHANGED <<waiting, turn>>

Next == Request \/ Deliver \/ Drop \/ Other

Spec == Init /\ [][Next]_vars

=============================================================================
