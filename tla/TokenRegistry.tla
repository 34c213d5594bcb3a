--------------------------- MODULE TokenRegistry ---------------------------
(***************************************************************************)
(* Custom tokens: the user approves a token once and the host keeps the    *)
(* signature (SIGN_TOKEN_DATA); later the host sends tokens with their     *)
(* signatures into the registry (SEND_TOKEN_DATA) and a transaction that   *)
(* uses them shows their symbols.  The signature is a sha256 over a secret *)
(* in flash and the token; RESET_TOKEN_SIGNATURES replaces the secret.     *)
(* src/storage.c, src/token/, src/handler/*token*.c, with the parts of     *)
(* src/handler/sign_tx.c and src/ui/display.c that use the registry.       *)
(*                                                                         *)
(* Commands come one at a time, in any order and with any signature the    *)
(* host ever received.  A restart loses everything but the secret.         *)
(***************************************************************************)
EXTENDS Integers, Sequences

CONSTANTS
    Tokens,        \* the tokens of the network: [uid, symbol, name]
    Slots,         \* TX_MAX_TOKENS, length of G_token_symbols.tokens[]
    MaxSecrets,    \* bound: number of secrets ever generated
    MaxAnnounced   \* bound: largest number of tokens a header announces

ASSUME SlotsAssumption == Slots \in Nat \ {0}
ASSUME BoundsAssumption == MaxSecrets \in Nat \ {0} /\ MaxAnnounced \in Nat
ASSUME TokensAssumption ==
    \A t \in Tokens : t.symbol \in Seq(STRING) /\ t.name \in Seq(STRING)

VARIABLES
    secret,     \* N_storage.secret, counted; 0 is the erased flash
    issued,     \* the signatures the host has
    approved,   \* history: tokens the user approved, each with the secret of then
    slots,      \* G_token_symbols.tokens[]
    len,        \* G_token_symbols.len
    receiving,  \* a transaction is being received (G_context.state)
    remaining,  \* remaining_tokens
    tokens,     \* tokens[0 .. tokens_len-1]: pointers, as indices of slots
    uids,       \* history: the token uids of the transaction
    question,   \* what the user is asked
    asked,      \* G_context.token for the question "token", as a set
    shown,      \* the symbol on display, and the uid it is shown for
    accepted,   \* the token this step found a valid signature for, as a set
    wiped       \* history: the registry was emptied under this transaction

secrets == <<secret, issued, approved>>
registry == <<slots, len>>
tx == <<receiving, remaining, tokens, uids, wiped>>
screen == <<question, asked, shown>>
vars == <<secrets, registry, tx, screen, accepted>>

\* What a slot of the registry, and the amount line of an output, show.
Entry(t) == [uid |-> t.uid, symbol |-> t.symbol]
Blank == [uid |-> "", symbol |-> <<>>]
Htr == [uid |-> "00", symbol |-> <<"H", "T", "R">>]
Entries == {Entry(t) : t \in Tokens}

Uids == {t.uid : t \in Tokens}
Questions == {"none", "token", "reset", "output"}

-----------------------------------------------------------------------------
(* src/token/signature.c, src/storage.c *)

\* What is hashed with the secret: uid, symbol and name, one after the other.
Message(t) == <<t.uid, t.symbol \o t.name>>

\* sha256 is taken to be injective and impossible to guess.
Signature_NoSecret(s, t) == [secret |-> 1, message |-> Message(t)]
Signature(s, t) == [secret |-> s, message |-> Message(t)]

Garbage == [secret |-> 0, message |-> <<>>]

\* get_secret: the first access generates the secret.
GetSecret == IF secret = 0 THEN 1 ELSE secret

Valid_Always(s, t, sig) == TRUE
Valid(s, t, sig) == sig = Signature(s, t)

\* find_token_registry_index: the first slot with this uid, if there is one.
Finds(uid) == {k \in 1 .. len : slots[k].uid = uid}
Found(uid) == CHOOSE k \in Finds(uid) : \A j \in Finds(uid) : k <= j

-----------------------------------------------------------------------------
(* Pieces the handlers share. *)

\* explicit_bzero(&G_context, sizeof(G_context))
EraseContext ==
    /\ receiving' = FALSE
    /\ remaining' = 0
    /\ tokens' = <<>>
    /\ uids' = <<>>
    /\ wiped' = FALSE

BlankSlots == [k \in 1 .. Slots |-> Blank]

Idle == question = "none"

\* A question without a token or an output to show; "none" is the menu.
Asks(q) == question' = q /\ asked' = {} /\ shown' = Htr

-----------------------------------------------------------------------------
(* The token commands. *)

SignTokenData ==
    /\ Idle
    /\ EraseContext
    /\ \E t \in Tokens : asked' = {t}
    /\ question' = "token"
    /\ shown' = Htr
    /\ accepted' = {}
    /\ UNCHANGED <<secrets, registry>>

ApproveToken ==
    /\ question = "token"
    /\ secret' = GetSecret
    /\ issued' = issued \cup {Signature(secret', t) : t \in asked}
    /\ approved' = approved \cup {[secret |-> secret', token |-> t] : t \in asked}
    /\ Asks("none")
    /\ accepted' = {}
    /\ UNCHANGED <<registry, tx>>

RejectToken_Signs ==
    /\ question = "token"
    /\ EraseContext
    /\ secret' = GetSecret
    /\ issued' = issued \cup {Signature(secret', t) : t \in asked}
    /\ Asks("none")
    /\ accepted' = {}
    /\ UNCHANGED <<approved, registry>>
RejectToken ==
    /\ question = "token"
    /\ EraseContext
    /\ Asks("none")
    /\ accepted' = {}
    /\ UNCHANGED <<secrets, registry>>

ResetTokenSignatures ==
    /\ Idle
    /\ Asks("reset")
    /\ accepted' = {}
    /\ UNCHANGED <<secrets, registry, tx>>

\* The new secret is random: it is taken to differ from the ones before.
ApproveReset ==
    /\ question = "reset"
    /\ secret < MaxSecrets
    /\ secret' = secret + 1
    /\ Asks("none")
    /\ accepted' = {}
    /\ UNCHANGED <<issued, approved, registry, tx>>

RejectReset ==
    /\ question = "reset"
    /\ Asks("none")
    /\ accepted' = {}
    /\ UNCHANGED <<secrets, registry, tx>>

\* VERIFY_TOKEN_SIGNATURE
VerifyTokenSignature ==
    /\ Idle
    /\ EraseContext
    /\ secret' = GetSecret
    /\ \E t \in Tokens, sig \in issued \cup {Garbage} :
          accepted' = IF Valid(secret', t, sig) THEN {t} ELSE {}
    /\ UNCHANGED <<issued, approved, registry, screen>>

\* The first SEND_TOKEN_DATA (p1 = 0) erases the context and the registry
\* before it looks at the token.
SendFirst ==
    /\ Idle
    /\ EraseContext
    /\ secret' = GetSecret
    /\ \E t \in Tokens, sig \in issued \cup {Garbage} :
          IF Valid(secret', t, sig)
          THEN /\ accepted' = {t}
               /\ slots' = [BlankSlots EXCEPT ![1] = Entry(t)]
               /\ len' = 1
          ELSE /\ accepted' = {}
               /\ slots' = BlankSlots
               /\ len' = 0
    /\ UNCHANGED <<issued, approved, screen>>

\* A later one appends to the registry and leaves the context alone.
Full_OffByOne == len > Slots
Full == len >= Slots

NextSlot_Last == IF len = 0 THEN 1 ELSE len
NextSlot == len + 1

SendNext ==
    /\ Idle
    /\ ~Full
    /\ secret' = GetSecret
    /\ \E t \in Tokens, sig \in issued \cup {Garbage} :
          IF Valid(secret', t, sig)
          THEN /\ accepted' = {t}
               /\ slots' = [slots EXCEPT ![NextSlot] = Entry(t)]
               /\ len' = len + 1
          ELSE /\ accepted' = {}
               /\ UNCHANGED registry
    /\ UNCHANGED <<issued, approved, tx, screen>>

\* A later one that finds the registry full empties it and is refused.
SendTooMany ==
    /\ Idle
    /\ Full
    /\ slots' = BlankSlots
    /\ len' = 0
    /\ wiped' = TRUE
    /\ accepted' = {}
    /\ UNCHANGED <<secrets, receiving, remaining, tokens, uids, screen>>

\* A first one whose token cannot be parsed has erased both all the same; a
\* later one changes nothing.
SendMalformed ==
    /\ Idle
    /\ EraseContext
    /\ slots' = BlankSlots
    /\ len' = 0
    /\ accepted' = {}
    /\ UNCHANGED <<secrets, screen>>

-----------------------------------------------------------------------------
(* The transaction: sign_tx.c and display.c as far as they use the registry. *)

\* The first DATA chunk.
StartTx ==
    /\ Idle
    /\ ~receiving
    /\ receiving' = TRUE
    /\ remaining' \in 0 .. MaxAnnounced
    /\ tokens' = <<>>
    /\ uids' = <<>>
    /\ wiped' = FALSE
    /\ accepted' = {}
    /\ UNCHANGED <<secrets, registry, screen>>

\* _decode_elements reads a token uid.
DecodeToken ==
    /\ Idle
    /\ receiving
    /\ remaining > 0
    /\ \E uid \in Uids :
          /\ Finds(uid) # {}
          /\ tokens' = Append(tokens, Found(uid))
          /\ uids' = Append(uids, uid)
    /\ remaining' = remaining - 1
    /\ accepted' = {}
    /\ UNCHANGED <<receiving, wiped, secrets, registry, screen>>

\* The transaction ends: a token that is not in the registry, another error,
\* DONE, or a command that erases the context.
EndTx ==
    /\ Idle
    /\ EraseContext
    /\ accepted' = {}
    /\ UNCHANGED <<secrets, registry, screen>>

\* prepare_display_output follows the pointer when the output is shown.
Pointer_OffByOne(i) == tokens[IF i < Len(tokens) THEN i + 1 ELSE i]
Pointer(i) == tokens[i]

ShowOutput ==
    /\ Idle
    /\ receiving
    /\ remaining = 0
    /\ \E i \in 0 .. Len(tokens) :
          shown' = IF i = 0 THEN Htr
                   ELSE [uid |-> uids[i], symbol |-> slots[Pointer(i)].symbol]
    /\ question' = "output"
    /\ asked' = {}
    /\ accepted' = {}
    /\ UNCHANGED <<secrets, registry, tx>>

ApproveOutput ==
    /\ question = "output"
    /\ Asks("none")
    /\ accepted' = {}
    /\ UNCHANGED <<secrets, registry, tx>>

RejectOutput ==
    /\ question = "output"
    /\ EraseContext
    /\ Asks("none")
    /\ accepted' = {}
    /\ UNCHANGED <<secrets, registry>>

\* A restart of the application, at any time: only the flash survives.
Restart ==
    /\ EraseContext
    /\ slots' = BlankSlots
    /\ len' = 0
    /\ Asks("none")
    /\ accepted' = {}
    /\ UNCHANGED secrets

-----------------------------------------------------------------------------
Init ==
    /\ secret = 0
    /\ issued = {}
    /\ approved = {}
    /\ slots = BlankSlots
    /\ len = 0
    /\ receiving = FALSE
    /\ remaining = 0
    /\ tokens = <<>>
    /\ uids = <<>>
    /\ wiped = FALSE
    /\ question = "none"
    /\ asked = {}
    /\ shown = Htr
    /\ accepted = {}

Next ==
    \/ SignTokenData \/ ApproveToken \/ RejectToken
    \/ ResetTokenSignatures \/ ApproveReset \/ RejectReset
    \/ VerifyTokenSignature
    \/ SendFirst \/ SendNext \/ SendTooMany \/ SendMalformed
    \/ StartTx \/ DecodeToken \/ EndTx
    \/ ShowOutput \/ ApproveOutput \/ RejectOutput
    \/ Restart

Spec == Init /\ [][Next]_vars

-----------------------------------------------------------------------------
(* Properties. *)

\* Counters, slots and histories hold what their C types and the handlers
\* allow; the registry never counts past its array (send_token_data.c:17).
TypeOK ==
    /\ secret \in 0 .. MaxSecrets
    /\ issued \subseteq {Signature(s, t) : s \in 1 .. secret, t \in Tokens}
    /\ approved \subseteq [secret : 1 .. secret, token : Tokens]
    /\ slots \in [1 .. Slots -> Entries \cup {Blank}]
    /\ len \in 0 .. Slots
    /\ receiving \in BOOLEAN
    /\ remaining \in 0 .. MaxAnnounced
    /\ tokens \in Seq(1 .. Slots)
    /\ uids \in Seq(Uids)
    /\ question \in Questions
    /\ asked \subseteq Tokens
    /\ shown.uid \in Uids \cup {Htr.uid}
    /\ accepted \subseteq Tokens
    /\ wiped \in BOOLEAN

\* The user approved, under one of the secrets in S, a token with the
\* signature message of t.
ApprovedUnder(S, t) ==
    \E a \in approved : a.secret \in S /\ Message(a.token) = Message(t)

EverApproved(t) == ApprovedUnder(1 .. secret, t)

\* Every signature the device ever handed out is for a token whose screens the
\* user approved (validate.c:32-41, the only caller of the signing helper).
SignaturesAreApproved ==
    \A sig \in issued :
        \E a \in approved : sig = Signature(a.secret, a.token)

\* A signature that SEND_TOKEN_DATA or VERIFY_TOKEN_SIGNATURE accepts was
\* approved since the last RESET_TOKEN_SIGNATURES, although the host keeps the
\* older signatures and can send them again (signature.c:60-73).
AcceptedIsApproved == \A t \in accepted : ApprovedUnder({secret}, t)

\* What is in the registry was approved at some time, through rejected and
\* repeated sends, wipes, resets and restarts (send_token_data.c:23-44).
EntriesWereApproved ==
    \A k \in 1 .. len :
        \E t \in Tokens : slots[k] = Entry(t) /\ EverApproved(t)

\* As long as the registry is not emptied under the transaction, the symbol
\* shown with an output is one approved for the output's own token: the
\* pointers of sign_tx.c:333 still point where they did when they were taken.
ShownSymbolApproved ==
    question = "output" /\ shown # Htr /\ ~wiped =>
        \E t \in Tokens : shown = Entry(t) /\ EverApproved(t)

\* A SEND_TOKEN_DATA that is accepted or refused keeps what earlier ones
\* stored, or empties the registry first: a stored entry is never replaced
\* in place (send_token_data.c:35).
EntriesAreKept ==
    \/ len <= len' /\ \A k \in 1 .. len : slots'[k] = slots[k]
    \/ len' = 0
    \/ len' = 1 /\ \A k \in 2 .. Slots : slots'[k] = Blank
RegistryGrowsOrIsWiped == [][EntriesAreKept]_vars

(* What comments and documents of the repository say. *)

\* types.h:123: the transaction keeps pointers "since these tokens are already
\* on a global ctx", so that the symbol on display is the output's own.
ShownSymbolIsTheTokens ==
    question = "output" /\ shown # Htr =>
        \E t \in Tokens : shown = Entry(t) /\ EverApproved(t)

\* doc/TOKEN.md:28: the signature is a digest of the token data, with the
\* lengths of symbol and name, so that an entry is a token as approved.
EntriesAreApprovedTokens ==
    \A k \in 1 .. len : \E a \in approved : slots[k] = Entry(a.token)

\* constants.h:38-41: TX_MAX_TOKENS is the "max custom tokens allowed on a
\* transaction", the length of tx_info.tokens[] (sign_tx.c:333).
TokensFitArray == Len(tokens) <= Slots

=============================================================================
