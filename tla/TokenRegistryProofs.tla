------------------------ MODULE TokenRegistryProofs ------------------------
(***************************************************************************)
(* Proofs about TokenRegistry: whatever the host sends, in whatever order  *)
(* and however often, what the device accepts, stores and shows was        *)
(* approved by the user.                                                   *)
(*                                                                         *)
(* EntriesWereApproved and ShownSymbolApproved are not inductive: what is  *)
(* stored now rests on the signatures handed out before                    *)
(* (SignaturesAreApproved), and what is shown now rests on the pointers    *)
(* the decoder took (PointersHold).                                        *)
(***************************************************************************)
EXTENDS TokenRegistry, CommonLemmas, TLAPS

\* A token pointer of the transaction points to a slot with the token's uid,
\* unless the registry was emptied since (sign_tx.c:330-334).
PointersHold ==
    /\ Len(uids) = Len(tokens)
    /\ ~wiped => \A i \in 1 .. Len(tokens) :
                    tokens[i] \in 1 .. len /\ slots[tokens[i]].uid = uids[i]

\* The inductive invariant.
IInv ==
    /\ TypeOK
    /\ SignaturesAreApproved
    /\ AcceptedIsApproved
    /\ EntriesWereApproved
    /\ PointersHold
    /\ ShownSymbolApproved

-----------------------------------------------------------------------------
(* The operators. *)

\* find_token_registry_index returns a stored slot with the uid it looks for,
\* and no stored slot before it has that uid.
LEMMA FoundIsFirst ==
    ASSUME TypeOK, NEW uid, Finds(uid) # {}
    PROVE  /\ Found(uid) \in 1 .. len
           /\ slots[Found(uid)].uid = uid
           /\ \A k \in 1 .. len : slots[k].uid = uid => Found(uid) <= k
  <1>1. Finds(uid) \subseteq Nat
    BY DEF TypeOK, Finds
  <1>2. \E k \in Finds(uid) : \A j \in Finds(uid) : k <= j
    BY <1>1, LeastNumber
  <1>3. Found(uid) \in Finds(uid) /\ \A j \in Finds(uid) : Found(uid) <= j
    BY <1>2 DEF Found
  <1> QED BY <1>3 DEF Finds

\* A signature that passes the check was handed out for an approved token with
\* the same message, under the secret of the check: a signature binds both.
LEMMA ValidIsApproved ==
    ASSUME SignaturesAreApproved, NEW s \in Nat \ {0}, NEW t,
           NEW sig \in issued \cup {Garbage}, Valid(s, t, sig)
    PROVE  ApprovedUnder({s}, t)
  <1>1. sig.secret = s /\ sig.message = Message(t)
    BY DEF Valid, Signature
  <1>2. sig # Garbage
    BY <1>1 DEF Garbage
  <1>3. PICK a \in approved : sig = Signature(a.secret, a.token)
    BY <1>2 DEF SignaturesAreApproved
  <1>4. sig.secret = a.secret /\ sig.message = Message(a.token)
    BY <1>3 DEF Signature
  <1> QED BY <1>1, <1>4 DEF ApprovedUnder

\* get_secret returns a secret that was generated, and keeps the bound.
LEMMA SecretType ==
    ASSUME TypeOK
    PROVE  /\ GetSecret \in 1 .. MaxSecrets
           /\ secret <= GetSecret
           /\ secret # 0 => GetSecret = secret
  BY BoundsAssumption DEF TypeOK, GetSecret

-----------------------------------------------------------------------------
(* Type correctness. *)

\* A token of the network fills a slot.
LEMMA EntryType == \A t \in Tokens : Entry(t) \in Entries /\ t.uid \in Uids
  BY DEF Entries, Uids

\* The empty registry is an array of slots.
LEMMA BlankType == BlankSlots \in [1 .. Slots -> Entries \cup {Blank}]
  BY DEF BlankSlots

\* The empty transaction has no tokens.
LEMMA EmptyType == <<>> \in Seq(1 .. Slots) /\ <<>> \in Seq(Uids)
  OBVIOUS

\* Clearing the context leaves an empty transaction.
LEMMA EraseType ==
    ASSUME EraseContext
    PROVE  /\ receiving' \in BOOLEAN
           /\ remaining' \in 0 .. MaxAnnounced
           /\ tokens' \in Seq(1 .. Slots)
           /\ uids' \in Seq(Uids)
           /\ wiped' \in BOOLEAN
  <1>1. receiving' \in BOOLEAN /\ wiped' \in BOOLEAN
    BY DEF EraseContext
  <1>2. remaining' \in 0 .. MaxAnnounced
    BY BoundsAssumption DEF EraseContext
  <1>3. tokens' = <<>> /\ uids' = <<>>
    BY DEF EraseContext
  <1> QED BY <1>1, <1>2, <1>3, EmptyType

\* The initial states are well typed.
LEMMA InitType == Init => TypeOK
  <1> SUFFICES ASSUME Init PROVE TypeOK
    OBVIOUS
  <1> USE DEF Init
  <1>1. receiving \in BOOLEAN /\ wiped \in BOOLEAN
    OBVIOUS
  <1>2. secret \in 0 .. MaxSecrets /\ remaining \in 0 .. MaxAnnounced /\ len \in 0 .. Slots
    BY BoundsAssumption, SlotsAssumption
  <1>3. /\ issued \subseteq {Signature(s, t) : s \in 1 .. secret, t \in Tokens}
        /\ approved \subseteq [secret : 1 .. secret, token : Tokens]
    OBVIOUS
  <1>4. slots \in [1 .. Slots -> Entries \cup {Blank}]
    BY BlankType
  <1>5. tokens \in Seq(1 .. Slots) /\ uids \in Seq(Uids)
    BY EmptyType
  <1>6. question \in Questions /\ shown.uid \in Uids \cup {Htr.uid}
    BY DEF Questions
  <1>7. asked \subseteq Tokens /\ accepted \subseteq Tokens
    OBVIOUS
  <1> QED BY <1>1, <1>2, <1>3, <1>4, <1>5, <1>6, <1>7 DEF TypeOK

\* The commands that ask the user, and the user's answers, keep the types.
LEMMA QuestionsType ==
    ASSUME TypeOK,
           \/ SignTokenData \/ ApproveToken \/ RejectToken
           \/ ResetTokenSignatures \/ ApproveReset \/ RejectReset
    PROVE  TypeOK'
  <1> USE DEF TypeOK, Questions, Htr, secrets, registry, tx
  <1>1. CASE SignTokenData
    BY <1>1, EraseType DEF SignTokenData
  <1>2. CASE ApproveToken
    <2>1. secret' \in 1 .. MaxSecrets /\ secret <= secret'
      BY <1>2, SecretType DEF ApproveToken
    <2>2. issued' \subseteq {Signature(s, t) : s \in 1 .. secret', t \in Tokens}
      BY <1>2, <2>1 DEF ApproveToken
    <2>3. approved' \subseteq [secret : 1 .. secret', token : Tokens]
      <3>1. approved \subseteq [secret : 1 .. secret', token : Tokens]
        BY <2>1
      <3>2. \A t \in asked : [secret |-> secret', token |-> t] \in [secret : 1 .. secret', token : Tokens]
        BY <2>1
      <3> QED BY <1>2, <3>1, <3>2 DEF ApproveToken
    <2> QED BY <1>2, <2>1, <2>2, <2>3 DEF ApproveToken, Asks
  <1>3. CASE RejectToken
    BY <1>3, EraseType DEF RejectToken, Asks
  <1>4. CASE ResetTokenSignatures
    BY <1>4 DEF ResetTokenSignatures, Asks
  <1>5. CASE ApproveReset
    <2>1. secret' \in 1 .. MaxSecrets /\ secret <= secret'
      BY <1>5, BoundsAssumption DEF ApproveReset
    <2>2. issued' \subseteq {Signature(s, t) : s \in 1 .. secret', t \in Tokens}
      BY <1>5, <2>1 DEF ApproveReset
    <2>3. approved' \subseteq [secret : 1 .. secret', token : Tokens]
      BY <1>5, <2>1 DEF ApproveReset
    <2> QED BY <1>5, <2>1, <2>2, <2>3 DEF ApproveReset, Asks
  <1>6. CASE RejectReset
    BY <1>6 DEF RejectReset, Asks
  <1> QED BY <1>1, <1>2, <1>3, <1>4, <1>5, <1>6

\* Generating a secret leaves the histories well typed.
LEMMA SecretStep ==
    ASSUME TypeOK, secret' = GetSecret, issued' = issued, approved' = approved
    PROVE  /\ secret' \in 0 .. MaxSecrets
           /\ issued' \subseteq {Signature(s, t) : s \in 1 .. secret', t \in Tokens}
           /\ approved' \subseteq [secret : 1 .. secret', token : Tokens]
  BY SecretType DEF TypeOK

\* The commands that bring a signature keep the types.
LEMMA SendsType ==
    ASSUME TypeOK,
           VerifyTokenSignature \/ SendFirst \/ SendNext \/ SendTooMany \/ SendMalformed
    PROVE  TypeOK'
  <1> USE DEF TypeOK, secrets, registry, tx, screen
  <1>1. CASE VerifyTokenSignature
    <2>1. accepted' \subseteq Tokens
      BY <1>1 DEF VerifyTokenSignature
    <2> QED BY <1>1, <2>1, EraseType, SecretStep DEF VerifyTokenSignature
  <1>2. CASE SendFirst
    <2>1. accepted' \subseteq Tokens
      BY <1>2 DEF SendFirst
    <2>2. PICK t \in Tokens :
            \/ slots' = [BlankSlots EXCEPT ![1] = Entry(t)] /\ len' = 1
            \/ slots' = BlankSlots /\ len' = 0
      BY <1>2 DEF SendFirst
    <2>3. slots' \in [1 .. Slots -> Entries \cup {Blank}]
      BY <2>2, BlankType, EntryType
    <2>4. len' \in 0 .. Slots
      BY <2>2, SlotsAssumption
    <2> QED BY <1>2, <2>1, <2>3, <2>4, EraseType, SecretStep DEF SendFirst
  <1>3. CASE SendNext
    <2>1. accepted' \subseteq Tokens
      BY <1>3 DEF SendNext
    <2>2. PICK t \in Tokens :
            \/ slots' = [slots EXCEPT ![NextSlot] = Entry(t)] /\ len' = len + 1
            \/ slots' = slots /\ len' = len
      BY <1>3 DEF SendNext
    <2>3. slots' \in [1 .. Slots -> Entries \cup {Blank}]
      BY <2>2, EntryType
    <2>4. len \in 0 .. Slots /\ ~(len >= Slots)
      BY <1>3 DEF SendNext, Full
    <2>5. len' \in 0 .. Slots
      BY <2>2, <2>4, SlotsAssumption
    <2> QED BY <1>3, <2>1, <2>3, <2>5, SecretStep DEF SendNext
  <1>4. CASE SendTooMany
    BY <1>4, BlankType, SlotsAssumption DEF SendTooMany
  <1>5. CASE SendMalformed
    BY <1>5, BlankType, EraseType, SlotsAssumption DEF SendMalformed
  <1> QED BY <1>1, <1>2, <1>3, <1>4, <1>5

\* A uid that is found is in the array.
LEMMA FoundType ==
    ASSUME TypeOK, NEW uid, Finds(uid) # {}
    PROVE  Found(uid) \in 1 .. Slots
  <1>1. Found(uid) \in 1 .. len
    BY FoundIsFirst
  <1>2. len \in 0 .. Slots
    BY DEF TypeOK
  <1> QED BY <1>1, <1>2, SlotsAssumption

\* The steps of a transaction, and a restart, keep the types.
LEMMA TxType ==
    ASSUME TypeOK,
           \/ StartTx \/ DecodeToken \/ EndTx
           \/ ShowOutput \/ ApproveOutput \/ RejectOutput
           \/ Restart,
           PointersHold
    PROVE  TypeOK'
  <1>0. \A uid \in Uids : Finds(uid) # {} => Found(uid) \in 1 .. Slots
    BY FoundType
  <1> USE DEF TypeOK, secrets, registry, tx, screen, Questions
  <1>1. CASE StartTx
    <2>1. receiving' \in BOOLEAN /\ wiped' \in BOOLEAN
      BY <1>1 DEF StartTx
    <2>2. tokens' \in Seq(1 .. Slots) /\ uids' \in Seq(Uids)
      BY <1>1, EmptyType DEF StartTx
    <2> QED BY <1>1, <2>1, <2>2 DEF StartTx
  <1>2. CASE DecodeToken
    <2>1. PICK uid \in Uids : /\ Finds(uid) # {}
                              /\ tokens' = Append(tokens, Found(uid))
                              /\ uids' = Append(uids, uid)
      BY <1>2 DEF DecodeToken
    <2>2. Found(uid) \in 1 .. Slots
      BY <1>0, <2>1
    <2> QED BY <1>2, <2>1, <2>2, BoundsAssumption DEF DecodeToken
  <1>3. CASE EndTx
    BY <1>3, EraseType DEF EndTx
  <1>4. CASE ShowOutput
    <2>1. shown'.uid \in Uids \cup {Htr.uid}
      BY <1>4 DEF ShowOutput, PointersHold
    <2> QED BY <1>4, <2>1 DEF ShowOutput
  <1>5. CASE ApproveOutput
    BY <1>5 DEF ApproveOutput, Asks
  <1>6. CASE RejectOutput
    BY <1>6, EraseType DEF RejectOutput, Asks
  <1>7. CASE Restart
    BY <1>7, EraseType, BlankType, SlotsAssumption DEF Restart, Asks
  <1> QED BY <1>1, <1>2, <1>3, <1>4, <1>5, <1>6, <1>7

\* Every step keeps the types.
LEMMA NextType == TypeOK /\ PointersHold /\ [Next]_vars => TypeOK'
  <1> SUFFICES ASSUME TypeOK, PointersHold, [Next]_vars PROVE TypeOK'
    OBVIOUS
  <1>1. CASE Next
    BY <1>1, QuestionsType, SendsType, TxType DEF Next
  <1>2. CASE UNCHANGED vars
    BY <1>2 DEF vars, secrets, registry, tx, screen, TypeOK
  <1> QED BY <1>1, <1>2

-----------------------------------------------------------------------------
(* Approvals. *)

\* How a step changes the histories: it asks for nothing new, generates a
\* secret, or signs the token the user approved.
LEMMA SecretsStep ==
    ASSUME TypeOK, [Next]_vars
    PROVE  /\ secret <= secret'
           /\ approved \subseteq approved'
           /\ \/ issued' = issued
              \/ /\ issued' = issued \cup {Signature(secret', t) : t \in asked}
                 /\ approved' = approved \cup {[secret |-> secret', token |-> t] : t \in asked}
  <1> USE DEF secrets
  <1>1. CASE ApproveToken
    <2>1. secret <= secret'
      BY <1>1, SecretType DEF ApproveToken
    <2> QED BY <1>1, <2>1 DEF ApproveToken
  <1>2. CASE ApproveReset
    BY <1>2 DEF ApproveReset, TypeOK
  <1>3. CASE SignTokenData \/ RejectToken \/ ResetTokenSignatures \/ RejectReset
    BY <1>3 DEF SignTokenData, RejectToken, ResetTokenSignatures, RejectReset, TypeOK
  <1>4. CASE VerifyTokenSignature \/ SendFirst \/ SendNext
    <2>1. secret <= secret'
      BY <1>4, SecretType DEF VerifyTokenSignature, SendFirst, SendNext
    <2> QED BY <1>4, <2>1 DEF VerifyTokenSignature, SendFirst, SendNext
  <1>5. CASE SendTooMany \/ SendMalformed \/ StartTx \/ DecodeToken \/ EndTx
    BY <1>5 DEF SendTooMany, SendMalformed, StartTx, DecodeToken, EndTx, TypeOK
  <1>6. CASE ShowOutput \/ ApproveOutput \/ RejectOutput \/ Restart
    BY <1>6 DEF ShowOutput, ApproveOutput, RejectOutput, Restart, TypeOK
  <1>7. CASE UNCHANGED vars
    BY <1>7 DEF vars, TypeOK
  <1> QED BY <1>1, <1>2, <1>3, <1>4, <1>5, <1>6, <1>7 DEF Next

\* What was approved stays approved.
LEMMA ApprovalsStay ==
    ASSUME TypeOK, TypeOK', [Next]_vars, NEW t, EverApproved(t)
    PROVE  EverApproved(t)'
  <1>1. secret <= secret' /\ approved \subseteq approved'
    BY SecretsStep
  <1>2. PICK a \in approved : a.secret \in 1 .. secret /\ Message(a.token) = Message(t)
    BY DEF EverApproved, ApprovedUnder
  <1>3. secret \in 0 .. MaxSecrets /\ secret' \in 0 .. MaxSecrets
    BY DEF TypeOK
  <1>4. a.secret \in 1 .. secret'
    BY <1>1, <1>2, <1>3
  <1> QED BY <1>1, <1>2, <1>4 DEF EverApproved, ApprovedUnder, Message

\* A signature is handed out together with the approval it is for.
LEMMA NextSignatures ==
    TypeOK /\ SignaturesAreApproved /\ [Next]_vars => SignaturesAreApproved'
  <1> SUFFICES ASSUME TypeOK, SignaturesAreApproved, [Next]_vars,
                      NEW sig \in issued'
               PROVE  \E a \in approved' : sig = Signature(a.secret, a.token)
    BY DEF SignaturesAreApproved, Signature, Message
  <1>1. CASE sig \in issued
    BY <1>1, SecretsStep DEF SignaturesAreApproved
  <1>2. CASE sig \notin issued
    <2>1. PICK t \in asked : sig = Signature(secret', t)
      BY <1>2, SecretsStep
    <2>2. approved' = approved \cup {[secret |-> secret', token |-> u] : u \in asked}
      BY <1>2, SecretsStep
    <2>3. [secret |-> secret', token |-> t] \in approved'
      BY <2>2
    <2> QED BY <2>1, <2>3
  <1> QED BY <1>1, <1>2

\* A step accepts only what is approved under the secret it checks with; no
\* step accepts a token and changes the secret afterwards.
LEMMA NextAccepted ==
    TypeOK /\ SignaturesAreApproved /\ AcceptedIsApproved /\ [Next]_vars => AcceptedIsApproved'
  <1> SUFFICES ASSUME TypeOK, SignaturesAreApproved, AcceptedIsApproved, [Next]_vars
               PROVE  AcceptedIsApproved'
    OBVIOUS
  <1>1. CASE accepted' = {}
    BY <1>1 DEF AcceptedIsApproved
  <1>2. CASE VerifyTokenSignature \/ SendFirst \/ SendNext
    <2>1. PICK t \in Tokens, sig \in issued \cup {Garbage} :
            accepted' = IF Valid(secret', t, sig) THEN {t} ELSE {}
      BY <1>2 DEF VerifyTokenSignature, SendFirst, SendNext
    <2>2. secret' \in Nat \ {0} /\ approved' = approved
      BY <1>2, SecretType DEF VerifyTokenSignature, SendFirst, SendNext
    <2>3. Valid(secret', t, sig) => ApprovedUnder({secret'}, t)
      BY <2>2, ValidIsApproved
    <2>4. \A u \in accepted' : ApprovedUnder({secret'}, u)
      BY <2>1, <2>3
    <2> QED BY <2>2, <2>4 DEF AcceptedIsApproved, ApprovedUnder, Message
  <1>3. CASE UNCHANGED vars
    BY <1>3 DEF vars, secrets, AcceptedIsApproved, ApprovedUnder, Message
  <1>4. accepted' = {} \/ VerifyTokenSignature \/ SendFirst \/ SendNext \/ UNCHANGED vars
    BY DEF Next, SignTokenData, ApproveToken, RejectToken, ResetTokenSignatures, ApproveReset,
           RejectReset, SendTooMany, SendMalformed, StartTx, DecodeToken, EndTx, ShowOutput,
           ApproveOutput, RejectOutput, Restart
  <1> QED BY <1>1, <1>2, <1>3, <1>4

-----------------------------------------------------------------------------
(* The registry. *)

\* What a step does to the registry: it keeps it, empties it, begins it anew or
\* appends to it, and what it stores was approved.
LEMMA RegistryStep ==
    ASSUME TypeOK, SignaturesAreApproved, [Next]_vars
    PROVE  \/ slots' = slots /\ len' = len
           \/ slots' = BlankSlots /\ len' = 0
           \/ \E t \in Tokens :
                 /\ ApprovedUnder({GetSecret}, t)
                 /\ approved' = approved /\ secret' = GetSecret
                 /\ \/ /\ slots' = [BlankSlots EXCEPT ![1] = Entry(t)]
                       /\ len' = 1
                       /\ tokens' = <<>>
                    \/ /\ slots' = [slots EXCEPT ![len + 1] = Entry(t)]
                       /\ len' = len + 1
                       /\ ~Full
  <1> USE DEF registry
  <1>1. CASE SendFirst
    <2>1. PICK t \in Tokens, sig \in issued \cup {Garbage} :
            IF Valid(secret', t, sig)
            THEN slots' = [BlankSlots EXCEPT ![1] = Entry(t)] /\ len' = 1
            ELSE slots' = BlankSlots /\ len' = 0
      BY <1>1 DEF SendFirst
    <2>2. secret' = GetSecret /\ secret' \in Nat \ {0} /\ approved' = approved /\ tokens' = <<>>
      BY <1>1, SecretType DEF SendFirst, EraseContext
    <2>3. Valid(secret', t, sig) => ApprovedUnder({secret'}, t)
      BY <2>2, ValidIsApproved
    <2> QED BY <2>1, <2>2, <2>3
  <1>2. CASE SendNext
    <2>1. PICK t \in Tokens, sig \in issued \cup {Garbage} :
            IF Valid(secret', t, sig)
            THEN slots' = [slots EXCEPT ![len + 1] = Entry(t)] /\ len' = len + 1
            ELSE slots' = slots /\ len' = len
      BY <1>2 DEF SendNext, NextSlot
    <2>2. secret' = GetSecret /\ secret' \in Nat \ {0} /\ approved' = approved /\ ~Full
      BY <1>2, SecretType DEF SendNext
    <2>3. Valid(secret', t, sig) => ApprovedUnder({secret'}, t)
      BY <2>2, ValidIsApproved
    <2> QED BY <2>1, <2>2, <2>3
  <1>3. CASE SendTooMany \/ SendMalformed \/ Restart
    BY <1>3 DEF SendTooMany, SendMalformed, Restart
  <1>4. CASE SignTokenData \/ ApproveToken \/ RejectToken
    BY <1>4 DEF SignTokenData, ApproveToken, RejectToken
  <1>5. CASE ResetTokenSignatures \/ ApproveReset \/ RejectReset \/ VerifyTokenSignature
    BY <1>5 DEF ResetTokenSignatures, ApproveReset, RejectReset, VerifyTokenSignature
  <1>6. CASE StartTx \/ DecodeToken \/ EndTx \/ ShowOutput \/ ApproveOutput \/ RejectOutput
    BY <1>6 DEF StartTx, DecodeToken, EndTx, ShowOutput, ApproveOutput, RejectOutput
  <1>7. CASE UNCHANGED vars
    BY <1>7 DEF vars
  <1> QED BY <1>1, <1>2, <1>3, <1>4, <1>5, <1>6, <1>7 DEF Next

\* An approval under the secret in use is one under a generated secret.
LEMMA CurrentIsEver ==
    ASSUME TypeOK, NEW t, ApprovedUnder({GetSecret}, t),
           secret' = GetSecret, approved' = approved
    PROVE  EverApproved(t)'
  <1>1. GetSecret \in 1 .. secret'
    BY SecretType
  <1> QED BY <1>1 DEF EverApproved, ApprovedUnder, Message

\* Every stored entry was approved, and stays in its slot or goes.
LEMMA NextEntries ==
    TypeOK /\ TypeOK' /\ SignaturesAreApproved /\ EntriesWereApproved /\ [Next]_vars
        => EntriesWereApproved'
  <1> SUFFICES ASSUME TypeOK, TypeOK', SignaturesAreApproved, EntriesWereApproved, [Next]_vars,
                      NEW k \in 1 .. len'
               PROVE  \E t \in Tokens : slots'[k] = Entry(t) /\ EverApproved(t)'
    BY DEF EntriesWereApproved, EverApproved, ApprovedUnder, Message, Entry
  <1>1. len \in 0 .. Slots /\ len' \in 0 .. Slots /\ slots \in [1 .. Slots -> Entries \cup {Blank}]
    BY DEF TypeOK
  <1>2. CASE k \in 1 .. len /\ slots'[k] = slots[k]
    BY <1>2, ApprovalsStay DEF EntriesWereApproved
  <1>3. CASE \E t \in Tokens : slots'[k] = Entry(t) /\ EverApproved(t)'
    BY <1>3
  <1>4. \/ k \in 1 .. len /\ slots'[k] = slots[k]
        \/ \E t \in Tokens : slots'[k] = Entry(t) /\ EverApproved(t)'
    <2>1. CASE slots' = slots /\ len' = len
      BY <2>1
    <2>2. CASE slots' = BlankSlots /\ len' = 0
      BY <2>2
    <2>3. ASSUME NEW t \in Tokens,
                 ApprovedUnder({GetSecret}, t), approved' = approved, secret' = GetSecret,
                 slots' = [BlankSlots EXCEPT ![1] = Entry(t)], len' = 1
          PROVE  \E u \in Tokens : slots'[k] = Entry(u) /\ EverApproved(u)'
      <3>1. EverApproved(t)'
        BY <2>3, CurrentIsEver
      <3>2. k = 1 /\ 1 \in 1 .. Slots
        BY <2>3, SlotsAssumption
      <3>3. slots'[1] = Entry(t)
        BY <2>3, <3>2, BlankType
      <3> QED BY <3>1, <3>2, <3>3
    <2>4. ASSUME NEW t \in Tokens,
                 ApprovedUnder({GetSecret}, t), approved' = approved, secret' = GetSecret,
                 slots' = [slots EXCEPT ![len + 1] = Entry(t)], len' = len + 1
          PROVE  \/ k \in 1 .. len /\ slots'[k] = slots[k]
                 \/ \E u \in Tokens : slots'[k] = Entry(u) /\ EverApproved(u)'
      <3>1. EverApproved(t)'
        BY <2>4, CurrentIsEver
      <3>2. k \in 1 .. len \/ k = len + 1
        BY <1>1, <2>4
      <3>3. k = len + 1 => slots'[k] = Entry(t)
        BY <1>1, <2>4
      <3>4. k \in 1 .. len => slots'[k] = slots[k]
        BY <1>1, <2>4
      <3> QED BY <3>1, <3>2, <3>3, <3>4
    <2> QED BY <2>1, <2>2, <2>3, <2>4, RegistryStep
  <1> QED BY <1>2, <1>3, <1>4

-----------------------------------------------------------------------------
(* The pointers of the transaction, and what is shown through them. *)

\* The decoder takes pointers to stored entries; appending keeps them good,
\* and what empties the registry ends the transaction or marks it.
LEMMA NextPointers == TypeOK /\ PointersHold /\ [Next]_vars => PointersHold'
  <1> SUFFICES ASSUME TypeOK, PointersHold, [Next]_vars PROVE PointersHold'
    OBVIOUS
  <1>1. CASE tokens' = <<>> /\ uids' = <<>>
    BY <1>1 DEF PointersHold
  <1>2. CASE UNCHANGED <<tokens, uids, wiped, slots, len>>
    BY <1>2 DEF PointersHold
  <1>3. CASE SendTooMany
    BY <1>3 DEF SendTooMany, PointersHold
  <1>4. CASE SendNext
    <2>1. len \in 0 .. Slots /\ slots \in [1 .. Slots -> Entries \cup {Blank}]
      BY DEF TypeOK
    <2>2. PICK t \in Tokens :
            \/ slots' = [slots EXCEPT ![len + 1] = Entry(t)] /\ len' = len + 1
            \/ slots' = slots /\ len' = len
      BY <1>4 DEF SendNext, NextSlot, registry
    <2>3. \A k \in 1 .. len : k \in 1 .. len' /\ slots'[k] = slots[k]
      <3>1. CASE slots' = slots /\ len' = len
        BY <3>1
      <3>2. CASE slots' = [slots EXCEPT ![len + 1] = Entry(t)] /\ len' = len + 1
        BY <2>1, <3>2
      <3> QED BY <2>2, <3>1, <3>2
    <2>4. tokens' = tokens /\ uids' = uids /\ wiped' = wiped
      BY <1>4 DEF SendNext, tx
    <2> QED BY <2>3, <2>4 DEF PointersHold
  <1>5. CASE DecodeToken
    <2>1. PICK uid \in Uids : /\ Finds(uid) # {}
                              /\ tokens' = Append(tokens, Found(uid))
                              /\ uids' = Append(uids, uid)
      BY <1>5 DEF DecodeToken
    <2>2. Found(uid) \in 1 .. len /\ slots[Found(uid)].uid = uid
      BY <2>1, FoundIsFirst
    <2>3. tokens \in Seq(1 .. Slots) /\ uids \in Seq(Uids)
      BY DEF TypeOK
    <2>4. slots' = slots /\ len' = len /\ wiped' = wiped
      BY <1>5 DEF DecodeToken, registry
    <2>5. Len(uids) = Len(tokens)
      BY DEF PointersHold
    <2>6. Len(tokens') = Len(tokens) + 1 /\ Len(uids') = Len(tokens')
      BY <2>1, <2>3, <2>5
    <2>7. ASSUME ~wiped', NEW i \in 1 .. Len(tokens')
          PROVE  tokens'[i] \in 1 .. len' /\ slots'[tokens'[i]].uid = uids'[i]
      <3>1. CASE i \in 1 .. Len(tokens)
        <4>1. tokens'[i] = tokens[i] /\ uids'[i] = uids[i]
          BY <2>1, <2>3, <2>5, <3>1
        <4> QED BY <2>4, <2>7, <3>1, <4>1 DEF PointersHold
      <3>2. CASE i = Len(tokens) + 1
        <4>1. tokens'[i] = Found(uid) /\ uids'[i] = uid
          BY <2>1, <2>3, <2>5, <3>2
        <4> QED BY <2>2, <2>4, <4>1
      <3>3. i \in 1 .. Len(tokens) \/ i = Len(tokens) + 1
        <4>1. Len(tokens) \in Nat
          BY <2>3
        <4> QED BY <2>6, <4>1
      <3> QED BY <3>1, <3>2, <3>3
    <2> QED BY <2>6, <2>7 DEF PointersHold
  <1>6. \/ tokens' = <<>> /\ uids' = <<>>
        \/ UNCHANGED <<tokens, uids, wiped, slots, len>>
        \/ SendTooMany \/ SendNext \/ DecodeToken
    BY DEF Next, vars, tx, registry, EraseContext, SignTokenData, ApproveToken, RejectToken,
           ResetTokenSignatures, ApproveReset, RejectReset, VerifyTokenSignature, SendFirst,
           SendMalformed, StartTx, EndTx, ShowOutput, ApproveOutput, RejectOutput, Restart
  <1> QED BY <1>1, <1>2, <1>3, <1>4, <1>5, <1>6

\* An output is shown with what its pointer leads to, and nothing else changes
\* while it is on display.
LEMMA NextShown ==
    /\ TypeOK /\ TypeOK' /\ EntriesWereApproved /\ PointersHold
    /\ ShownSymbolApproved /\ [Next]_vars
    => ShownSymbolApproved'
  <1> SUFFICES ASSUME TypeOK, TypeOK', EntriesWereApproved, PointersHold, ShownSymbolApproved,
                      [Next]_vars, question' = "output", shown' # Htr, ~wiped'
               PROVE  \E t \in Tokens : shown' = Entry(t) /\ EverApproved(t)'
    BY DEF ShownSymbolApproved, EverApproved, ApprovedUnder, Message, Entry, Htr
  <1>1. CASE ShowOutput
    <2>1. PICK i \in 0 .. Len(tokens) :
            shown' = IF i = 0 THEN Htr
                     ELSE [uid |-> uids[i], symbol |-> slots[tokens[i]].symbol]
      BY <1>1 DEF ShowOutput, Pointer
    <2>2. i \in 1 .. Len(tokens)
      BY <2>1
    <2>3. ~wiped
      BY <1>1 DEF ShowOutput, tx
    <2>4. tokens[i] \in 1 .. len /\ slots[tokens[i]].uid = uids[i]
      BY <2>2, <2>3 DEF PointersHold
    <2>5. PICK t \in Tokens : slots[tokens[i]] = Entry(t) /\ EverApproved(t)
      BY <2>4 DEF EntriesWereApproved
    <2>6. shown' = [uid |-> uids[i], symbol |-> slots[tokens[i]].symbol]
      BY <2>1, <2>2
    <2>7. shown' = Entry(t)
      BY <2>4, <2>5, <2>6 DEF Entry
    <2>8. EverApproved(t)'
      BY <2>5, ApprovalsStay
    <2> QED BY <2>7, <2>8
  <1>2. CASE UNCHANGED vars
    <2>1. question = "output" /\ shown # Htr /\ ~wiped
      BY <1>2 DEF vars, screen, tx
    <2>2. PICK t \in Tokens : shown = Entry(t) /\ EverApproved(t)
      BY <2>1 DEF ShownSymbolApproved
    <2> QED BY <1>2, <2>2, ApprovalsStay DEF vars, screen
  <1>3. ShowOutput \/ UNCHANGED vars
    BY DEF Next, Idle, Asks, screen, SignTokenData, ApproveToken, RejectToken,
           ResetTokenSignatures, ApproveReset, RejectReset, VerifyTokenSignature, SendFirst,
           SendNext, SendTooMany, SendMalformed, StartTx, DecodeToken, EndTx, ApproveOutput,
           RejectOutput, Restart
  <1> QED BY <1>1, <1>2, <1>3

-----------------------------------------------------------------------------
(* The theorems. *)

\* The inductive invariant holds initially.
LEMMA InitInvariant == Init => IInv
  <1> SUFFICES ASSUME Init PROVE IInv
    OBVIOUS
  <1>1. TypeOK
    BY InitType
  <1>2. SignaturesAreApproved /\ AcceptedIsApproved /\ ShownSymbolApproved
    BY DEF Init, SignaturesAreApproved, AcceptedIsApproved, ShownSymbolApproved
  <1>3. EntriesWereApproved /\ PointersHold
    BY DEF Init, EntriesWereApproved, PointersHold
  <1> QED BY <1>1, <1>2, <1>3 DEF IInv

\* IInv, and with it every conjunct, holds in every reachable state, for every
\* set of tokens and every size of the registry.
THEOREM Approvals == Spec => []IInv
  <1>1. IInv /\ [Next]_vars => IInv'
    BY NextType, NextSignatures, NextAccepted, NextEntries, NextPointers, NextShown DEF IInv
  <1> QED BY InitInvariant, <1>1, PTL DEF Spec

\* TypeOK: the registry never counts past its array.
THEOREM RegistryTypeCorrect == Spec => []TypeOK
  <1>1. IInv => TypeOK
    BY DEF IInv
  <1> QED BY <1>1, Approvals, PTL

\* SignaturesAreApproved: no signature without an approval.
THEOREM SignaturesCorrect == Spec => []SignaturesAreApproved
  <1>1. IInv => SignaturesAreApproved
    BY DEF IInv
  <1> QED BY <1>1, Approvals, PTL

\* AcceptedIsApproved: a reset takes the older signatures out of use.
THEOREM ResetCorrect == Spec => []AcceptedIsApproved
  <1>1. IInv => AcceptedIsApproved
    BY DEF IInv
  <1> QED BY <1>1, Approvals, PTL

\* EntriesWereApproved: the registry holds nothing the user did not approve.
THEOREM RegistryCorrect == Spec => []EntriesWereApproved
  <1>1. IInv => EntriesWereApproved
    BY DEF IInv
  <1> QED BY <1>1, Approvals, PTL

\* ShownSymbolApproved: the symbol of an output is the one approved for its
\* token, unless the registry was emptied under the transaction.
THEOREM ShownCorrect == Spec => []ShownSymbolApproved
  <1>1. IInv => ShownSymbolApproved
    BY DEF IInv
  <1> QED BY <1>1, Approvals, PTL

\* RegistryGrowsOrIsWiped: a stored entry is never replaced in place.
THEOREM KeepsEntries == Spec => RegistryGrowsOrIsWiped
  <1>1. IInv /\ [Next]_vars => [EntriesAreKept]_vars
    <2> SUFFICES ASSUME IInv, [Next]_vars PROVE EntriesAreKept
      OBVIOUS
    <2>1. len \in 0 .. Slots /\ slots \in [1 .. Slots -> Entries \cup {Blank}]
      BY DEF IInv, TypeOK
    <2>2. CASE slots' = slots /\ len' = len
      BY <2>1, <2>2 DEF EntriesAreKept
    <2>3. CASE slots' = BlankSlots /\ len' = 0
      BY <2>3 DEF EntriesAreKept
    <2>4. ASSUME NEW t \in Tokens,
                 slots' = [BlankSlots EXCEPT ![1] = Entry(t)], len' = 1
          PROVE  EntriesAreKept
      <3>1. \A k \in 2 .. Slots : slots'[k] = Blank
        BY <2>4 DEF BlankSlots
      <3> QED BY <2>4, <3>1 DEF EntriesAreKept
    <2>5. ASSUME NEW t \in Tokens,
                 slots' = [slots EXCEPT ![len + 1] = Entry(t)], len' = len + 1
          PROVE  EntriesAreKept
      <3>1. len <= len' /\ \A k \in 1 .. len : slots'[k] = slots[k]
        BY <2>1, <2>5
      <3> QED BY <3>1 DEF EntriesAreKept
    <2> QED BY <2>2, <2>3, <2>4, <2>5, RegistryStep DEF IInv
  <1> QED BY <1>1, Approvals, PTL DEF Spec, RegistryGrowsOrIsWiped

=============================================================================
