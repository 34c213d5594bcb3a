------------------------------ MODULE TxSigner ------------------------------
(***************************************************************************)
(* What the SIGN_TX command promises, whatever the protocol that carries   *)
(* the transaction: a message grows output by output, its outputs get      *)
(* reviewed, it is sealed only when all of them were, and only a sealed    *)
(* message is signed.  A sealed message never grows; it can only be        *)
(* discarded.                                                              *)
(***************************************************************************)
EXTENDS Integers

VARIABLES
    message,   \* number of outputs in the message
    reviewed,  \* the outputs the user confirmed or the device verified
    phase,     \* "open" or "sealed"
    signed     \* the last step produced a signature

vars == <<message, reviewed, phase, signed>>

Outputs == 0 .. message - 1

Init ==
    /\ message = 0
    /\ reviewed = {}
    /\ phase = "open"
    /\ signed = FALSE

\* One more output enters the message; as a change output it is verified at once.
Extend ==
    /\ phase = "open"
    /\ message' = message + 1
    /\ reviewed' \in {reviewed, reviewed \cup {message}}
    /\ signed' = FALSE
    /\ UNCHANGED phase

Review ==
    /\ phase = "open"
    /\ \E i \in Outputs : reviewed' = reviewed \cup {i}
    /\ signed' = FALSE
    /\ UNCHANGED <<message, phase>>

Seal ==
    /\ phase = "open"
    /\ Outputs \subseteq reviewed
    /\ phase' = "sealed"
    /\ signed' = FALSE
    /\ UNCHANGED <<message, reviewed>>

Sign ==
    /\ phase = "sealed"
    /\ signed' = TRUE
    /\ UNCHANGED <<message, reviewed, phase>>

Discard ==
    /\ message' = 0
    /\ reviewed' = {}
    /\ phase' = "open"
    /\ signed' = FALSE

\* A step that is not about the message.
Other ==
    /\ signed' = FALSE
    /\ UNCHANGED <<message, reviewed, phase>>

Next == Extend \/ Review \/ Seal \/ Sign \/ Discard \/ Other

Spec == Init /\ [][Next]_vars

=============================================================================
