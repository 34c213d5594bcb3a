------------------------- MODULE ConversionsProofs -------------------------
(***************************************************************************)
(* Theorems about the functions that Conversions feeds its inputs, for     *)
(* every size of their arrays and every input, however long: a theorem     *)
(* states its property of every input of its kind, whether or not a        *)
(* behaviour builds it, and then of the states of Spec.                    *)
(***************************************************************************)
EXTENDS Conversions, CommonLemmas, SequenceTheorems, TLAPS

\* The theorems about buffers, for the same width of size_t.
Theory == INSTANCE BuffersProofs

-----------------------------------------------------------------------------
(* The inputs. *)

\* What is put behind a sequence of pieces is one of the pieces.
LEMMA GrowType ==
    ASSUME NEW S, input \in Seq(S), NEW pieces, NEW limit, pieces \subseteq S, Grow(pieces, limit)
    PROVE  /\ input' \in Seq(S)
           /\ Len(input') = Len(input) + 1
           /\ Len(input) < limit
           /\ kind' = kind
<1>1. PICK piece \in pieces : input' = Append(input, piece)
  BY DEF Grow
<1>. QED
  BY <1>1 DEF Grow

LEMMA ScriptLenType ==
    /\ OpcodesBefore \in Seq(Byte) /\ Len(OpcodesBefore) \in Nat
    /\ OpcodesAfter \in Seq(Byte) /\ Len(OpcodesAfter) \in Nat
    /\ HashLen \in Nat
    /\ Outputs!ScriptLen = Len(OpcodesBefore) + HashLen + Len(OpcodesAfter)
    /\ Outputs!ScriptLen \in Nat
BY OutputAssumption, LenProperties DEF Byte, Outputs!ScriptLen

\* The bytes of a script are bytes.
LEMMA ScriptBytes ==
    ASSUME NEW hash \in Seq(Byte), Len(hash) = HashLen
    PROVE  /\ OpcodesBefore \o hash \o OpcodesAfter \in Seq(Byte)
           /\ Len(OpcodesBefore \o hash \o OpcodesAfter) = Outputs!ScriptLen
BY ScriptLenType, Concat3

LEMMA NextBytesType == ASSUME input \in Seq(Byte) PROVE NextBytes \subseteq Byte
<1>. DEFINE head == Outputs!ValueLen(input) + 3
            place == Len(input) + 1
            script == OpcodesBefore \o [i \in 1 .. HashLen |-> 0] \o OpcodesAfter
            fitting == IF place - head \in DOMAIN script THEN script[place - head] ELSE 0
<1>1. 0 \in Byte /\ ByteBase - 1 \in Byte
  BY OutputAssumption DEF Byte
<1>2. script \in Seq(Byte)
  <2>. DEFINE hash == [i \in 1 .. HashLen |-> 0]
  <2>1. hash \in Seq(Byte) /\ Len(hash) = HashLen
    BY <1>1, OutputAssumption
  <2>. HIDE DEF hash
  <2>2. OpcodesBefore \o hash \o OpcodesAfter \in Seq(Byte)
    BY <2>1, ScriptBytes
  <2>. QED
    BY <2>2 DEF hash
<1>3. fitting \in Byte
  <2>. HIDE DEF script
  <2>. QED
    BY <1>1, <1>2
<1>4. NextBytes \in {{fitting}, 0 .. ByteBase - 1, {fitting, ByteBase - 1}}
  BY DEF NextBytes
<1>. HIDE DEF fitting
<1>. QED
  BY <1>1, <1>3, <1>4 DEF Byte

LEMMA LastIndexBounds ==
    /\ LastIndex \in Nat /\ LastIndex > 2
    /\ Paths!MaxDerivationIndex \in 0 .. LastIndex
    /\ Paths!MaxDerivationIndex + 1 \in 0 .. LastIndex
<1>1. LastIndex \in Nat
  BY DEF LastIndex
<1>2. LastIndex > 2
  BY DEF LastIndex
<1>3. Paths!MaxDerivationIndex \in Nat
  BY DEF Paths!MaxDerivationIndex
<1>4. Paths!MaxDerivationIndex + 1 <= LastIndex
  BY DEF LastIndex, Paths!MaxDerivationIndex
<1>. QED
  BY <1>1, <1>2, <1>3, <1>4

LEMMA InputInit == Init => InputOK
<1>1. LongestOutput \in Nat /\ LongestToken \in Nat /\ Addresses!MaxEncInput \in Nat
  BY ScriptLenType, TokenAssumption DEF LongestOutput, LongestToken, Addresses!MaxEncInput
<1>. SUFFICES ASSUME Init PROVE InputOK
  OBVIOUS
<1>2. kind \in Kinds /\ input = <<>>
  BY DEF Init
<1>3. Len(input) = 0 /\ \A S : input \in Seq(S)
  BY <1>2, EmptySeq
<1>. QED
  BY <1>1, <1>2, <1>3 DEF InputOK

LEMMA InputNext == ASSUME InputOK, [Next]_vars PROVE InputOK'
<1>1. CASE BufferGrows
  BY <1>1, GrowType DEF BufferGrows, InputOK, Kinds
<1>2. CASE OutputGrows
  <2>1. input \in Seq(Byte) /\ LongestOutput \in Nat
    BY <1>2, ScriptLenType DEF OutputGrows, InputOK, LongestOutput
  <2>2. NextBytes \subseteq Byte
    BY <2>1, NextBytesType
  <2>3. input' \in Seq(Byte) /\ Len(input') <= LongestOutput /\ kind' = "output"
    BY <1>2, <2>1, <2>2, GrowType, LenProperties DEF OutputGrows
  <2>. QED
    BY <2>3 DEF InputOK, Kinds
<1>3. CASE ValueGrows
  <2>1. input \in Seq(Digit)
    BY <1>3 DEF ValueGrows, InputOK
  <2>2. (IF Len(input) < MaxFreeDigits THEN {0, 1, 9} ELSE {Last(input)}) \subseteq Digit
    BY <2>1, BoundsAssumption DEF Digit, Last
  <2>3. input' \in Seq(Digit) /\ Len(input') <= 19 /\ kind' = "value"
    BY <1>3, <2>1, <2>2, GrowType, LenProperties DEF ValueGrows
  <2>. QED
    BY <2>3 DEF InputOK, Kinds
<1>4. CASE BytesGrow
  <2>. DEFINE Byte256 == 0 .. 255
              small == {0, 1, 57, 58, 255}
                          \union (IF input = <<>> THEN {Keys!VersionByte} ELSE {})
              tail == IF Len(input) = 1 THEN {0, 57, 58, 255} ELSE {Last(input)}
  <2>1. kind = "bytes" /\ input \in Seq(Byte256) /\ Len(input) \in Nat
    BY <1>4, LenProperties DEF BytesGrow, InputOK
  <2>2. small \subseteq Byte256
    BY DEF Keys!VersionByte
  <2>3. input # <<>> => tail \subseteq Byte256
    <3>1. input # <<>> => Len(input) # 0
      BY <2>1, EmptySeq
    <3>2. Len(input) # 0 => Len(input) \in 1 .. Len(input)
      BY <2>1
    <3>3. Len(input) # 0 => input[Len(input)] \in Byte256
      <4>. HIDE DEF Byte256
      <4>. QED
        BY <2>1, <3>2, LenProperties
    <3>4. Last(input) = input[Len(input)]
      BY DEF Last
    <3>5. {0, 57, 58, 255} \subseteq Byte256
      OBVIOUS
    <3>. HIDE DEF Byte256
    <3>. QED
      BY <3>1, <3>3, <3>4, <3>5
  <2>4. Addresses!MaxEncInput = 120 /\ MaxBytes \in 0 .. 120
    BY BoundsAssumption DEF Addresses!MaxEncInput
  <2>5. \/ input # <<>> /\ Grow(tail, 25)
        \/ Grow(small, MaxBytes)
    BY <1>4 DEF BytesGrow
  <2>. HIDE DEF Byte256, small, tail
  <2>6. PICK limit \in 0 .. 120 : \E pieces : pieces \subseteq Byte256 /\ Grow(pieces, limit)
    <3>1. CASE input # <<>> /\ Grow(tail, 25)
      BY <2>3, <3>1
    <3>2. CASE Grow(small, MaxBytes)
      BY <2>2, <2>4, <3>2
    <3>. QED
      BY <2>5, <3>1, <3>2
  <2>7. input' \in Seq(Byte256) /\ Len(input') = Len(input) + 1 /\ Len(input) < limit
        /\ kind' = kind
    BY <2>1, <2>6, GrowType
  <2>8. Len(input') <= Addresses!MaxEncInput
    <3>. DEFINE n == Len(input)
                m == Len(input')
    <3>1. n \in Nat /\ m = n + 1 /\ n < limit
      BY <2>1, <2>7
    <3>. HIDE DEF n, m
    <3>2. m <= 120
      BY <2>6, <3>1
    <3>. QED
      BY <2>4, <3>2 DEF m
  <2>. QED
    BY <2>1, <2>7, <2>8 DEF InputOK, Kinds, Byte256
<1>5. CASE PathGrows
  <2>1. {0, 1, 2, LastIndex, Paths!MaxDerivationIndex, Paths!MaxDerivationIndex + 1}
            \subseteq 0 .. LastIndex
    BY LastIndexBounds DEF Component
  <2>. DEFINE pieces == [hardened : BOOLEAN, index : {0, LastIndex}]
                          \union [hardened : {FALSE},
                                  index : {1, 2, Paths!MaxDerivationIndex,
                                           Paths!MaxDerivationIndex + 1}]
  <2>2. pieces \subseteq Component
    BY <2>1 DEF Component
  <2>3. input \in Seq(Component) /\ Grow(pieces, MaxComponents)
    BY <1>5 DEF PathGrows, InputOK
  <2>. HIDE DEF pieces
  <2>4. input' \in Seq(Component) /\ kind' = kind
    BY <2>2, <2>3, GrowType
  <2>. QED
    BY <1>5, <2>4 DEF InputOK, Kinds, PathGrows
<1>6. CASE ChangeGrows
  BY <1>6, GrowType DEF ChangeGrows, InputOK, Kinds
<1>7. CASE TokenGrows
  <2>1. input \in Seq(Nat) /\ LongestToken \in Nat
    BY <1>7, TokenAssumption DEF TokenGrows, InputOK, LongestToken
  <2>2. (IF input = <<>> THEN {2} ELSE 0 .. NibbleBase ^ 2 - 1) \subseteq Nat
    OBVIOUS
  <2>. DEFINE pieces == IF input = <<>> THEN {2} ELSE 0 .. NibbleBase ^ 2 - 1
  <2>3. Grow(pieces, LongestToken) /\ pieces \subseteq Nat
    BY <1>7, <2>2 DEF TokenGrows
  <2>. HIDE DEF pieces
  <2>4. PICK piece \in Nat : input' = Append(input, piece)
    BY <2>3 DEF Grow
  <2>5. Len(input) < LongestToken /\ kind' = kind
    BY <2>3 DEF Grow
  <2>6. input' \in Seq(Nat) /\ Len(input') <= LongestToken
    BY <2>1, <2>4, <2>5
  <2>. QED
    BY <1>7, <2>5, <2>6 DEF InputOK, Kinds, TokenGrows
<1>8. CASE UNCHANGED vars
  BY <1>8 DEF vars, InputOK
<1>. QED
  BY <1>1, <1>2, <1>3, <1>4, <1>5, <1>6, <1>7, <1>8 DEF Next

\* Every input is one of its kind.
LEMMA Inputs == Spec => []InputOK
<1>1. InputOK /\ [Next]_vars => InputOK'
  BY InputNext
<1>. QED
  BY <1>1, InputInit, PTL DEF Spec

-----------------------------------------------------------------------------
(* buffer.h: the reads. *)

\* The operations are those that BuffersProofs is about.
LEMMA SameReads ==
    ASSUME NEW b, NEW n
    PROVE  /\ Sizes!SeekCur(b, n) = Theory!SeekCur(b, n)
           /\ Sizes!ReadUInt(b, n) = Theory!ReadUInt(b, n)
           /\ \A out_len : Sizes!ReadBytes(b, out_len, n) = Theory!ReadBytes(b, out_len, n)
           /\ \A r : Sizes!TakesOrRefuses(b, n, r) <=> Theory!TakesOrRefuses(b, n, r)
<1>1. \A m : Sizes!WrapSize(m) = Theory!WrapSize(m)
  BY DEF Sizes!WrapSize, Theory!WrapSize
<1>2. Sizes!Remaining(b) = Theory!Remaining(b)
  BY <1>1 DEF Sizes!Remaining, Theory!Remaining
<1>3. /\ Sizes!Refused(b) = Theory!Refused(b)
      /\ \A o : Sizes!MovedTo(b, o) = Theory!MovedTo(b, o)
  BY DEF Sizes!Refused, Theory!Refused, Sizes!MovedTo, Theory!MovedTo
<1>4. Sizes!SeekCur(b, n) = Theory!SeekCur(b, n)
  BY <1>1, <1>3 DEF Sizes!SeekCur, Theory!SeekCur
<1>5. Sizes!Advanced(b, n) = Theory!Advanced(b, n)
  BY <1>4 DEF Sizes!Advanced, Theory!Advanced
<1>6. Sizes!ReadUInt(b, n) = Theory!ReadUInt(b, n)
  BY <1>2, <1>3, <1>5 DEF Sizes!ReadUInt, Theory!ReadUInt, Sizes!CanRead, Theory!CanRead
<1>7. \A out_len : Sizes!ReadBytes(b, out_len, n) = Theory!ReadBytes(b, out_len, n)
  BY <1>2, <1>3, <1>5 DEF Sizes!ReadBytes, Theory!ReadBytes
<1>8. \A r : Sizes!TakesOrRefuses(b, n, r) <=> Theory!TakesOrRefuses(b, n, r)
  BY DEF Sizes!TakesOrRefuses, Theory!TakesOrRefuses
<1>. QED
  BY <1>4, <1>6, <1>7, <1>8

\* For every width of size_t, every size and offset of a buffer and every
\* length, a seek forward and the reads of buffer.h take the bytes they were
\* asked for or refuse and leave the buffer alone.
THEOREM BufferReadsExact ==
    /\ InputOK => ReadsTakeOrRefuse
    /\ Spec => []ReadsTakeOrRefuse
<1>1. InputOK => ReadsTakeOrRefuse
  <2>. SUFFICES ASSUME InputOK, kind = "buffer", Len(input) = 3, input[2] <= input[1],
                       NEW b, b = [size |-> input[1], offset |-> input[2]],
                       NEW n, n = input[3]
                PROVE  /\ Sizes!TakesOrRefuses(b, n, Sizes!SeekCur(b, n))
                       /\ Sizes!TakesOrRefuses(b, n, Sizes!ReadUInt(b, n))
                       /\ \A out_len \in Sizes!SizeT :
                             Sizes!TakesOrRefuses(b, n, Sizes!ReadBytes(b, out_len, n))
    BY DEF ReadsTakeOrRefuse
  <2>1. Sizes!SizeT = Theory!SizeT
    BY DEF Sizes!SizeT, Theory!SizeT
  <2>2. input \in Seq(Theory!SizeT)
    BY <2>1 DEF InputOK
  <2>3. n \in Theory!SizeT /\ input[1] \in Theory!SizeT /\ input[2] \in Theory!SizeT
    BY <2>2
  <2>4. Theory!WellFormed(b)
    BY <2>3 DEF Theory!WellFormed, Theory!Buffer
  <2>5. /\ Theory!TakesOrRefuses(b, n, Theory!ReadUInt(b, n))
        /\ \A out_len \in Theory!SizeT :
              Theory!TakesOrRefuses(b, n, Theory!ReadBytes(b, out_len, n))
        /\ Theory!TakesOrRefuses(b, n, Theory!SeekCur(b, n))
    BY SizeAssumption, <2>3, <2>4, Theory!ReadsTakeOrRefuse DEF Theory!SizeModAssumption
  <2>. QED
    BY <2>1, <2>5, SameReads
<1>2. Spec => []ReadsTakeOrRefuse
  BY <1>1, Inputs, PTL
<1>. QED
  BY <1>1, <1>2

-----------------------------------------------------------------------------
(* From a path to an address. *)

\* The hash of a compressed key is the hash in the address a wallet computes.
LEMMA HashIs ==
    ASSUME NEW path
    PROVE  Keys!Hash160(Keys!Compressed(Keys!PublicKey(path)))
               = WalletAddress(Keys!PublicKey(path)).pubkey_hash
<1>. DEFINE point == PointOf(path)
            first == IF point.odd THEN 3 ELSE 2
<1>. HIDE DEF point
<1>1. Keys!PublicKey(path) = [first |-> Keys!Uncompressed, point |-> point]
  BY DEF Keys!PublicKey, point
<1>2. Keys!Compressed(Keys!PublicKey(path)) = [first |-> first, point |-> point]
  BY <1>1 DEF Keys!Compressed
<1>3. Keys!Hash160([first |-> first, point |-> point]) = [hash160 |-> <<first, point.x>>]
  BY DEF Keys!Hash160
<1>4. WalletAddress(Keys!PublicKey(path)).pubkey_hash = [hash160 |-> <<first, point.x>>]
  BY <1>1 DEF WalletAddress
<1>. QED
  BY <1>2, <1>3, <1>4

\* The screens show the address that a wallet computes of the key.
LEMMA ShownIs ==
    ASSUME NEW path
    PROVE  /\ Keys!ShownAddress(path)
                 = Keys!AddressFromPubkeyHash(WalletAddress(Keys!PublicKey(path)).pubkey_hash)
           /\ Keys!ShownAddress(path) = WalletAddress(Keys!PublicKey(path))
<1>1. Keys!ShownAddress(path)
          = Keys!AddressFromPubkeyHash(WalletAddress(Keys!PublicKey(path)).pubkey_hash)
  BY HashIs DEF Keys!ShownAddress, Keys!AddressFromPubkey
<1>2. \A key : WalletAddress(key) = Keys!AddressFromPubkeyHash(WalletAddress(key).pubkey_hash)
  BY DEF WalletAddress, Keys!AddressFromPubkeyHash
<1>. QED
  BY <1>1, <1>2

\* Two hashes that are shown as the same address are the same.
LEMMA AddressTellsHash ==
    ASSUME NEW g, NEW h, Keys!AddressFromPubkeyHash(g) = Keys!AddressFromPubkeyHash(h)
    PROVE  g = h
<1>1. Keys!AddressFromPubkeyHash(g).pubkey_hash = Keys!AddressFromPubkeyHash(h).pubkey_hash
  OBVIOUS
<1>. QED
  BY <1>1 DEF Keys!AddressFromPubkeyHash

\* For every path of any length, verify_change lets an output pass for change
\* exactly if a key can be derived and its address on the screen would be the
\* address of the output; that address is the one of the answered key, and the
\* fingerprint of an xpub is the hash of the key of the parent path.
THEOREM ChangeAddressIsOwn == Spec => []ChangeIsOwnAddress
<1>1. \A path : Keys!AnsweredKey(path) = Keys!PublicKey(path)
  BY DEF Keys!AnsweredKey
<1>2. ASSUME NEW path, NEW hash
      PROVE  Keys!VerifyChange(path, hash) <=>
                 /\ Derivable(path)
                 /\ Keys!ShownAddress(path) = Keys!OutputAddress(hash)
  <2>1. Keys!VerifyChange(path, hash) <=>
            Derivable(path) /\ WalletAddress(Keys!PublicKey(path)).pubkey_hash = hash
    BY HashIs DEF Keys!VerifyChange
  <2>. QED
    BY <2>1, ShownIs, AddressTellsHash DEF Keys!OutputAddress
<1>3. \A path : Keys!Fingerprint(path)
                  = WalletAddress(Keys!AnsweredKey(Front(path))).pubkey_hash
  BY <1>1, HashIs DEF Keys!Fingerprint, Front, Keys!Front
<1>4. ChangeIsOwnAddress
  BY <1>1, <1>2, <1>3, ShownIs DEF ChangeIsOwnAddress
<1>. QED
  BY <1>4, PTL

-----------------------------------------------------------------------------
(* A token. *)

\* Where a C string ends.
LEMMA TextIs ==
    ASSUME NEW str \in Seq(Nat)
    PROVE  \E n \in 0 .. Len(str) :
               /\ Tokens!Text(str) = SubSeq(str, 1, n)
               /\ \A i \in 1 .. n : str[i] # 0
               /\ n = Len(str) \/ str[n + 1] = 0
<1>. DEFINE zeros == {i \in 1 .. Len(str) : str[i] = 0}
<1>1. Tokens!Text(str) = IF zeros = {} THEN str
                         ELSE IF Tokens!Min(zeros) = 0 THEN str
                         ELSE SubSeq(str, 1, Tokens!Min(zeros) - 1)
  BY DEF Tokens!Text, Tokens!SelectInSeq
<1>2. CASE zeros = {}
  <2>1. Tokens!Text(str) = SubSeq(str, 1, Len(str))
    BY <1>1, <1>2, SubSeqFull
  <2>2. \A i \in 1 .. Len(str) : str[i] # 0
    BY <1>2
  <2>. QED
    BY <2>1, <2>2, LenProperties
<1>3. CASE zeros # {}
  <2>1. zeros \subseteq Nat
    OBVIOUS
  <2>2. \E m \in zeros : \A k \in zeros : m <= k
    <3>. HIDE DEF zeros
    <3>. QED
      BY <1>3, <2>1, LeastNumber
  <2>. DEFINE m == Tokens!Min(zeros)
  <2>3. m \in zeros /\ \A k \in zeros : m <= k
    <3>. HIDE DEF zeros
    <3>. QED
      BY <2>2 DEF Tokens!Min
  <2>4. Tokens!Text(str) = SubSeq(str, 1, m - 1)
    <3>1. m # 0
      BY <2>3
    <3>. HIDE DEF m, zeros
    <3>. QED
      BY <1>1, <1>3, <3>1 DEF m
  <2>. HIDE DEF m
  <2>5. m - 1 \in 0 .. Len(str) /\ str[m - 1 + 1] = 0
    BY <2>3
  <2>6. \A i \in 1 .. m - 1 : str[i] # 0
    BY <2>3
  <2>. QED
    BY <2>4, <2>5, <2>6
<1>. QED
  BY <1>2, <1>3

\* A zero byte put behind a text changes nothing of what is shown of it, and that
\* is the beginning of the text.
LEMMA ShownTextIs ==
    ASSUME NEW str \in Seq(Nat)
    PROVE  LET shown == Tokens!Text(str \o << 0 >>)
           IN  /\ shown = Tokens!Text(str)
               /\ Len(shown) <= Len(str)
               /\ IsPrefix(shown, str)
               /\ 0 \notin ToSet(str) => shown = str
               /\ shown \in Seq(Nat)
<1>. DEFINE closed == str \o <<0>>
<1>1. /\ closed \in Seq(Nat) /\ Len(closed) = Len(str) + 1
      /\ closed[Len(str) + 1] = 0
      /\ \A i \in 1 .. Len(str) : closed[i] = str[i]
  <2>1. <<0>> \in Seq(Nat) /\ Len(<<0>>) = 1
    OBVIOUS
  <2>2. /\ closed \in Seq(Nat) /\ Len(closed) = Len(str) + 1
        /\ \A i \in 1 .. Len(str) + 1 :
              closed[i] = IF i <= Len(str) THEN str[i] ELSE <<0>>[i - Len(str)]
    BY <2>1, ConcatProperties
  <2>. HIDE DEF closed
  <2>. QED
    BY <2>2, LenProperties
<1>. HIDE DEF closed
<1>2. PICK n \in 0 .. Len(str) :
          /\ Tokens!Text(str) = SubSeq(str, 1, n)
          /\ \A i \in 1 .. n : str[i] # 0
          /\ n = Len(str) \/ str[n + 1] = 0
  BY TextIs
<1>3. PICK m \in 0 .. Len(closed) :
          /\ Tokens!Text(closed) = SubSeq(closed, 1, m)
          /\ \A i \in 1 .. m : closed[i] # 0
          /\ m = Len(closed) \/ closed[m + 1] = 0
  BY <1>1, TextIs
<1>4. Len(str) \in Nat
  BY LenProperties
<1>5. m <= Len(str)
  BY <1>1, <1>3, <1>4
<1>6. ~(m < n)
  <2>. SUFFICES ASSUME m < n PROVE FALSE
    OBVIOUS
  <2>1. m + 1 \in 1 .. n /\ m + 1 \in 1 .. Len(str) /\ m # Len(closed)
    BY <1>1, <1>4
  <2>. QED
    BY <1>1, <1>2, <1>3, <2>1
<1>7. ~(n < m)
  <2>. SUFFICES ASSUME n < m PROVE FALSE
    OBVIOUS
  <2>1. n + 1 \in 1 .. m /\ n + 1 \in 1 .. Len(str) /\ n # Len(str)
    BY <1>4, <1>5
  <2>. QED
    BY <1>1, <1>2, <1>3, <2>1
<1>8. m = n
  BY <1>4, <1>6, <1>7
<1>9. ASSUME NEW s \in Seq(Nat), n <= Len(s)
      PROVE  /\ SubSeq(s, 1, n) \in Seq(Nat) /\ Len(SubSeq(s, 1, n)) = n
             /\ \A i \in 1 .. n : SubSeq(s, 1, n)[i] = s[i]
  <2>1. \A i \in 1 .. n : s[i] \in Nat
    BY <1>9, LenProperties
  <2>. QED
    BY <2>1, SubSeqProperties
<1>10. n <= Len(str) /\ n <= Len(closed)
  BY <1>1, <1>4
<1>11. SubSeq(closed, 1, n) = SubSeq(str, 1, n)
  BY <1>1, <1>9, <1>10, SeqEqual
<1>12. Tokens!Text(closed) = SubSeq(str, 1, n)
  BY <1>3, <1>8, <1>11
<1>13. IsPrefix(SubSeq(str, 1, n), str)
  <2>1. SubSeq(SubSeq(str, 1, n), 1, n) = SubSeq(str, 1, n)
    BY <1>9, SubSeqFull
  <2>. QED
    BY <1>4, <1>9, <2>1 DEF IsPrefix
<1>14. ASSUME 0 \notin ToSet(str) PROVE SubSeq(str, 1, n) = str
  <2>1. n = Len(str)
    <3>. SUFFICES ASSUME n # Len(str) PROVE FALSE
      OBVIOUS
    <3>1. n + 1 \in DOMAIN str /\ str[n + 1] = 0
      BY <1>2, <1>4
    <3>. QED
      BY <1>14, <3>1 DEF ToSet
  <2>. QED
    BY <2>1, SubSeqFull
<1>15. n <= Len(str)
  BY <1>4
<1>. DEFINE shown == SubSeq(str, 1, n)
<1>. HIDE DEF shown
<1>16. shown = Tokens!Text(str) /\ shown = Tokens!Text(str \o << 0 >>)
  BY <1>2, <1>12 DEF shown, closed
<1>17. /\ Len(shown) <= Len(str) /\ IsPrefix(shown, str)
       /\ 0 \notin ToSet(str) => shown = str
       /\ shown \in Seq(Nat)
  BY <1>9, <1>13, <1>14, <1>15 DEF shown
<1>. QED
  BY <1>16, <1>17

\* The reads of a buffer of `size' bytes at `offset'.
LEMMA TokenReads ==
    ASSUME NEW size \in Nat, size < SizeMod, NEW offset \in 0 .. size, NEW n \in Nat,
           NEW out_len \in Nat
    PROVE  LET b == [size |-> size, offset |-> offset]
               moved == [size |-> size, offset |-> offset + n]
               Read(ok) == IF ok THEN [ok |-> TRUE, buffer |-> moved]
                           ELSE [ok |-> FALSE, buffer |-> b]
           IN  /\ Tokens!CanRead(b, n) <=> offset + n <= size
               /\ Tokens!ReadUInt(b, n) = Read(offset + n <= size)
               /\ Tokens!ReadBytes(b, out_len, n) = Read(offset + n <= size /\ n <= out_len)
<1>. DEFINE b == [size |-> size, offset |-> offset]
            moved == [size |-> size, offset |-> offset + n]
<1>1. Tokens!Remaining(b) = size - offset
  BY SizeAssumption DEF Tokens!Remaining, Tokens!WrapSize
<1>2. Tokens!CanRead(b, n) <=> offset + n <= size
  BY <1>1 DEF Tokens!CanRead
<1>3. ASSUME offset + n <= size PROVE Tokens!Advanced(b, n) = [ok |-> TRUE, buffer |-> moved]
  <2>1. Tokens!WrapSize(offset + n) = offset + n
    BY SizeAssumption, <1>3 DEF Tokens!WrapSize
  <2>2. Tokens!SeekCur(b, n).buffer = moved
    BY <1>3, <2>1 DEF Tokens!SeekCur, Tokens!MovedTo
  <2>. QED
    BY <2>2 DEF Tokens!Advanced
<1>4. n > Tokens!Remaining(b) <=> ~(offset + n <= size)
  BY <1>1
<1>. HIDE DEF b, moved
<1>5. Tokens!Refused(b) = [ok |-> FALSE, buffer |-> b]
  BY DEF Tokens!Refused
<1>6. Tokens!ReadUInt(b, n) = IF offset + n <= size THEN [ok |-> TRUE, buffer |-> moved]
                              ELSE [ok |-> FALSE, buffer |-> b]
  BY <1>2, <1>3, <1>5 DEF Tokens!ReadUInt
<1>7. Tokens!ReadBytes(b, out_len, n)
          = IF offset + n <= size /\ n <= out_len THEN [ok |-> TRUE, buffer |-> moved]
            ELSE [ok |-> FALSE, buffer |-> b]
  <2>1. n > out_len <=> ~(n <= out_len)
    OBVIOUS
  <2>. QED
    BY <1>3, <1>4, <1>5, <2>1 DEF Tokens!ReadBytes
<1>. QED
  BY <1>2, <1>6, <1>7 DEF b, moved

LEMMA TokenReadsUInt ==
    ASSUME NEW size \in Nat, size < SizeMod, NEW offset \in 0 .. size, NEW n \in Nat
    PROVE  LET b == [size |-> size, offset |-> offset]
           IN  /\ Tokens!CanRead(b, n) <=> offset + n <= size
               /\ Tokens!ReadUInt(b, n)
                    = IF offset + n <= size
                      THEN [ok |-> TRUE, buffer |-> [size |-> size, offset |-> offset + n]]
                      ELSE [ok |-> FALSE, buffer |-> b]
<1>1. PICK out_len \in Nat : TRUE
  OBVIOUS
<1>. QED
  BY <1>1, TokenReads

\* Where the fields of an accepted token are.
LEMMA ParsedToken ==
    ASSUME InputOK, kind = "token", Tokens!ParseToken(input).ok
    PROVE  \E n \in 0 .. MaxSymbolLen, m \in 0 .. MaxNameLen :
               LET parsed == Tokens!ParseToken(input)
               IN  /\ 3 + UidLen + n + m <= Len(input)
                   /\ parsed.token.uid = SubSeq(input, 2, UidLen + 1)
                   /\ parsed.token.symbol = SubSeq(input, UidLen + 3, UidLen + 2 + n)
                   /\ parsed.token.name = SubSeq(input, UidLen + n + 4, UidLen + n + 3 + m)
                   /\ Tokens!IsPrintable(parsed.token.symbol)
                   /\ Tokens!IsPrintable(parsed.token.name)
                   /\ parsed.taken = 3 + UidLen + n + m
<1>. DEFINE size == Len(input)
            At(offset) == [size |-> size, offset |-> offset]
            version == Tokens!ReadUInt(Tokens!Opened(Len(input)), 1)
            uid == Tokens!ReadBytes(version.buffer, UidLen, UidLen)
            symbol_len == Tokens!ReadUInt(uid.buffer, 1)
            n == Tokens!LengthByte(input, uid.buffer)
            symbol == Tokens!ReadBytes(symbol_len.buffer, MaxSymbolLen, n)
            name_len == Tokens!ReadUInt(symbol.buffer, 1)
            m == Tokens!LengthByte(input, symbol.buffer)
            name == Tokens!ReadBytes(name_len.buffer, MaxNameLen, m)
            read == /\ version.ok /\ uid.ok /\ symbol_len.ok
                    /\ symbol.ok /\ name_len.ok /\ name.ok
            token == [version |-> input[1],
                      uid |-> Tokens!Field(input, version.buffer, UidLen),
                      symbol |-> Tokens!Field(input, symbol_len.buffer, n),
                      name |-> Tokens!Field(input, name_len.buffer, m)]
<1>1. Tokens!ParseToken(input)
          = IF read /\ Tokens!IsPrintable(token.symbol) /\ Tokens!IsPrintable(token.name)
            THEN [ok |-> TRUE, token |-> token, taken |-> name.buffer.offset]
            ELSE [ok |-> FALSE]
  BY DEF Tokens!ParseToken
<1>2. /\ input \in Seq(Nat) /\ size \in Nat /\ size < SizeMod
      /\ UidLen \in Nat /\ MaxSymbolLen \in Nat /\ MaxNameLen \in Nat
  BY TokenAssumption, SizeAssumption, LenProperties DEF InputOK, LongestToken
<1>. HIDE DEF size
<1>3. version = IF 1 <= size THEN [ok |-> TRUE, buffer |-> At(1)]
                ELSE [ok |-> FALSE, buffer |-> At(0)]
  BY <1>2, TokenReadsUInt DEF Tokens!Opened, size
<1>. HIDE DEF version
<1>4. /\ version.ok /\ uid.ok /\ symbol_len.ok
      /\ symbol.ok /\ name_len.ok /\ name.ok
      /\ Tokens!IsPrintable(token.symbol) /\ Tokens!IsPrintable(token.name)
  <2>. HIDE DEF uid, symbol_len, n, symbol, name_len, m, name, token
  <2>. QED
    BY <1>1
<1>5. /\ Tokens!ParseToken(input).token = token
      /\ Tokens!ParseToken(input).taken = name.buffer.offset
  <2>. HIDE DEF uid, symbol_len, n, symbol, name_len, m, name, token
  <2>. QED
    BY <1>1, <1>4
<1>6. 1 <= size /\ version.buffer = At(1)
  BY <1>3, <1>4
<1>7. 1 + UidLen <= size /\ uid.buffer = At(1 + UidLen)
  <2>1. uid = IF 1 + UidLen <= size THEN [ok |-> TRUE, buffer |-> At(1 + UidLen)]
              ELSE [ok |-> FALSE, buffer |-> At(1)]
    BY <1>2, <1>6, TokenReads
  <2>. HIDE DEF uid
  <2>. QED
    BY <1>4, <2>1
<1>. HIDE DEF uid
<1>7a. ASSUME NEW offset \in 0 .. size
      PROVE  Tokens!ReadUInt(At(offset), 1)
               = IF offset + 1 <= size THEN [ok |-> TRUE, buffer |-> At(offset + 1)]
                 ELSE [ok |-> FALSE, buffer |-> At(offset)]
  BY <1>2, TokenReadsUInt
<1>8. 2 + UidLen <= size /\ symbol_len.buffer = At(2 + UidLen)
  <2>1. 1 + UidLen \in 0 .. size /\ 1 + UidLen + 1 = 2 + UidLen
    BY <1>2, <1>7
  <2>2. symbol_len = IF 1 + UidLen + 1 <= size
                     THEN [ok |-> TRUE, buffer |-> At(1 + UidLen + 1)]
                     ELSE [ok |-> FALSE, buffer |-> At(1 + UidLen)]
    BY <1>7, <2>1, <1>7a
  <2>. HIDE DEF symbol_len
  <2>. QED
    BY <1>4, <2>1, <2>2
<1>9. n \in Nat
  <2>1. Tokens!CanRead(At(1 + UidLen), 1)
    <3>1. 1 + UidLen \in 0 .. size /\ 1 + UidLen + 1 <= size
      BY <1>2, <1>8
    <3>. QED
      BY <1>2, <3>1, TokenReadsUInt
  <2>2. n = input[2 + UidLen]
    BY <1>2, <1>7, <2>1 DEF Tokens!LengthByte
  <2>. QED
    BY <1>2, <1>8, <2>2 DEF size
<1>. HIDE DEF symbol_len, n
<1>10. /\ 2 + UidLen + n <= size /\ n <= MaxSymbolLen
       /\ symbol.buffer = At(2 + UidLen + n)
  <2>1. symbol = IF 2 + UidLen + n <= size /\ n <= MaxSymbolLen
                 THEN [ok |-> TRUE, buffer |-> At(2 + UidLen + n)]
                 ELSE [ok |-> FALSE, buffer |-> At(2 + UidLen)]
    BY <1>2, <1>8, <1>9, TokenReads
  <2>. HIDE DEF symbol
  <2>. QED
    BY <1>4, <2>1
<1>. HIDE DEF symbol
<1>11. 3 + UidLen + n <= size /\ name_len.buffer = At(3 + UidLen + n)
  <2>1. 2 + UidLen + n \in 0 .. size /\ 2 + UidLen + n + 1 = 3 + UidLen + n
    BY <1>2, <1>9, <1>10
  <2>2. name_len = IF 2 + UidLen + n + 1 <= size
                   THEN [ok |-> TRUE, buffer |-> At(2 + UidLen + n + 1)]
                   ELSE [ok |-> FALSE, buffer |-> At(2 + UidLen + n)]
    BY <1>10, <2>1, <1>7a
  <2>. HIDE DEF name_len
  <2>. QED
    BY <1>4, <2>1, <2>2
<1>12. m \in Nat
  <2>1. Tokens!CanRead(At(2 + UidLen + n), 1)
    <3>1. 2 + UidLen + n \in 0 .. size /\ 2 + UidLen + n + 1 <= size
      BY <1>2, <1>9, <1>11
    <3>. QED
      BY <1>2, <3>1, TokenReadsUInt
  <2>2. m = input[3 + UidLen + n]
    BY <1>2, <1>9, <1>10, <2>1 DEF Tokens!LengthByte
  <2>. QED
    BY <1>2, <1>9, <1>11, <2>2 DEF size
<1>. HIDE DEF name_len, m
<1>13. /\ 3 + UidLen + n + m <= size /\ m <= MaxNameLen
       /\ name.buffer = At(3 + UidLen + n + m)
  <2>1. name = IF 3 + UidLen + n + m <= size /\ m <= MaxNameLen
               THEN [ok |-> TRUE, buffer |-> At(3 + UidLen + n + m)]
               ELSE [ok |-> FALSE, buffer |-> At(3 + UidLen + n)]
    BY <1>2, <1>9, <1>11, <1>12, TokenReads
  <2>. HIDE DEF name
  <2>. QED
    BY <1>4, <2>1
<1>. HIDE DEF name
<1>14. /\ token.uid = SubSeq(input, 2, UidLen + 1)
       /\ token.symbol = SubSeq(input, UidLen + 3, UidLen + 2 + n)
       /\ token.name = SubSeq(input, UidLen + n + 4, UidLen + n + 3 + m)
  <2>1. \A k \in Nat, offset \in Nat :
            Tokens!Field(input, At(offset), k) = SubSeq(input, offset + 1, offset + k)
    BY DEF Tokens!Field
  <2>2. Tokens!Field(input, version.buffer, UidLen) = SubSeq(input, 2, UidLen + 1)
    <3>1. Tokens!Field(input, At(1), UidLen) = SubSeq(input, 1 + 1, 1 + UidLen)
      BY <1>2, <2>1
    <3>2. 1 + 1 = 2 /\ 1 + UidLen = UidLen + 1
      BY <1>2
    <3>. QED
      BY <1>6, <3>1, <3>2
  <2>3. Tokens!Field(input, symbol_len.buffer, n) = SubSeq(input, UidLen + 3, UidLen + 2 + n)
    <3>1. Tokens!Field(input, At(2 + UidLen), n)
            = SubSeq(input, (2 + UidLen) + 1, (2 + UidLen) + n)
      <4>1. 2 + UidLen \in Nat
        BY <1>2
      <4>. QED
        BY <1>9, <2>1, <4>1
    <3>2. (2 + UidLen) + 1 = UidLen + 3 /\ (2 + UidLen) + n = UidLen + 2 + n
      BY <1>2, <1>9
    <3>. QED
      BY <1>8, <3>1, <3>2
  <2>4. Tokens!Field(input, name_len.buffer, m)
            = SubSeq(input, UidLen + n + 4, UidLen + n + 3 + m)
    <3>1. Tokens!Field(input, At(3 + UidLen + n), m)
            = SubSeq(input, (3 + UidLen + n) + 1, (3 + UidLen + n) + m)
      <4>1. 3 + UidLen + n \in Nat
        BY <1>2, <1>9
      <4>. QED
        BY <1>12, <2>1, <4>1
    <3>2. /\ (3 + UidLen + n) + 1 = UidLen + n + 4
          /\ (3 + UidLen + n) + m = UidLen + n + 3 + m
      BY <1>2, <1>9, <1>12
    <3>. QED
      BY <1>11, <3>1, <3>2
  <2>. QED
    BY <2>2, <2>3, <2>4
<1>. HIDE DEF token
<1>15. n \in 0 .. MaxSymbolLen /\ m \in 0 .. MaxNameLen
  BY <1>2, <1>9, <1>10, <1>12, <1>13
<1>16. Tokens!ParseToken(input).taken = 3 + UidLen + n + m
  BY <1>5, <1>13
<1>. QED
  BY <1>4, <1>5, <1>13, <1>14, <1>15, <1>16 DEF size

\* The two digits of a byte are its value.
LEMMA TwoDigits ==
    ASSUME NEW c \in Nat
    PROVE  (c \div NibbleBase) * NibbleBase + (c % NibbleBase) = c
BY TokenAssumption

\* What is shown of a field is printable and the beginning of it.
LEMMA FaithfulField ==
    ASSUME NEW str \in Seq(Nat), Tokens!IsPrintable(str),
           NEW shown, shown = Tokens!Text(str \o << 0 >>)
    PROVE  /\ IsPrefix(shown, str)
           /\ ToSet(shown) \subseteq Printable
           /\ 0 \notin ToSet(str) => shown = str
<1>1. shown = Tokens!Text(str)
  BY ShownTextIs
<1>2. ToSet(shown) \subseteq Printable
  BY <1>1 DEF Tokens!IsPrintable, ToSet, Tokens!ToSet
<1>. QED
  BY <1>2, ShownTextIs

\* The uid is shown in full, two digits for each byte.
LEMMA ShownUidIs ==
    ASSUME NEW token, NEW uid, uid = token.uid, uid \in Seq(Nat), Len(uid) = UidLen
    PROVE  /\ Len(Tokens!ShownUid(token)) = 2 * UidLen
           /\ \A i \in 1 .. UidLen :
                 Tokens!ShownUid(token)[2 * i - 1] * NibbleBase + Tokens!ShownUid(token)[2 * i]
                     = uid[i]
<1>1. UidLen \in Nat
  BY TokenAssumption
<1>. DEFINE text == [i \in 1 .. 2 * UidLen |->
                        IF i % 2 = 1 THEN uid[(i + 1) \div 2] \div NibbleBase
                        ELSE uid[i \div 2] % NibbleBase]
<1>2. Tokens!ShownUid(token) = text
  BY <1>1 DEF Tokens!ShownUid, Tokens!FormatHex
<1>3. Len(text) = 2 * UidLen
  BY <1>1
<1>4. ASSUME NEW i \in 1 .. UidLen
      PROVE  text[2 * i - 1] * NibbleBase + text[2 * i] = uid[i]
  <2>1. uid[i] \in Nat
    BY <1>1
  <2>2. /\ 2 * i - 1 \in 1 .. 2 * UidLen /\ (2 * i - 1) % 2 = 1 /\ (2 * i - 1 + 1) \div 2 = i
        /\ 2 * i \in 1 .. 2 * UidLen /\ (2 * i) % 2 # 1 /\ (2 * i) \div 2 = i
    BY <1>1
  <2>3. text[2 * i - 1] = uid[i] \div NibbleBase /\ text[2 * i] = uid[i] % NibbleBase
    BY <2>2
  <2>. HIDE DEF text
  <2>. QED
    BY <2>1, <2>3, TwoDigits
<1>. HIDE DEF text
<1>. QED
  BY <1>2, <1>3, <1>4

\* For every length of uid, symbol and name, a token that parse_token accepts is
\* shown as what is signed: the fields fit their arrays, only printable
\* characters are shown, a text is shown whole unless a zero byte ends it, the
\* amount line names the symbol the user approved, and the signature is looked
\* for behind the name.
THEOREM TokenIsShown ==
    /\ InputOK => TokenShownIsSigned
    /\ Spec => []TokenShownIsSigned
<1>1. InputOK => TokenShownIsSigned
  <2>. SUFFICES ASSUME InputOK, kind = "token", Tokens!ParseToken(input).ok
                PROVE  LET parsed == Tokens!ParseToken(input)
                           token == parsed.token
                           Faithful(shown, signed) ==
                               /\ IsPrefix(shown, signed)
                               /\ ToSet(shown) \subseteq Printable
                               /\ 0 \notin ToSet(signed) => shown = signed
                       IN  /\ Len(token.symbol) <= MaxSymbolLen
                           /\ Len(token.name) <= MaxNameLen
                           /\ Faithful(Tokens!ShownSymbol(token), token.symbol)
                           /\ Faithful(Tokens!ShownName(token), token.name)
                           /\ Len(Tokens!ShownUid(token)) = 2 * UidLen
                           /\ \A i \in 1 .. UidLen :
                                 Tokens!ShownUid(token)[2 * i - 1] * NibbleBase
                                         + Tokens!ShownUid(token)[2 * i]
                                     = token.uid[i]
                           /\ Tokens!AmountSymbol(token) = Tokens!ShownSymbol(token)
                           /\ parsed.taken
                                = 3 + UidLen + Len(token.symbol) + Len(token.name)
    BY DEF TokenShownIsSigned
  <2>. DEFINE parsed == Tokens!ParseToken(input)
              token == parsed.token
  <2>1. PICK n \in 0 .. MaxSymbolLen, m \in 0 .. MaxNameLen :
            /\ 3 + UidLen + n + m <= Len(input)
            /\ token.uid = SubSeq(input, 2, UidLen + 1)
            /\ token.symbol = SubSeq(input, UidLen + 3, UidLen + 2 + n)
            /\ token.name = SubSeq(input, UidLen + n + 4, UidLen + n + 3 + m)
            /\ Tokens!IsPrintable(token.symbol)
            /\ Tokens!IsPrintable(token.name)
            /\ parsed.taken = 3 + UidLen + n + m
    BY ParsedToken
  <2>. HIDE DEF parsed, token
  <2>2. /\ input \in Seq(Nat) /\ Len(input) \in Nat
        /\ UidLen \in Nat /\ MaxSymbolLen \in Nat /\ MaxNameLen \in Nat
        /\ n \in Nat /\ m \in Nat
    BY TokenAssumption, LenProperties DEF InputOK
  <2>3. ASSUME NEW from \in Nat \ {0}, NEW k \in Nat, from + k <= Len(input) + 1
        PROVE  /\ SubSeq(input, from, from + k - 1) \in Seq(Nat)
               /\ Len(SubSeq(input, from, from + k - 1)) = k
    <3>1. \A i \in from .. from + k - 1 : input[i] \in Nat
      BY <2>2, <2>3
    <3>. QED
      BY <2>2, <3>1, SubSeqProperties
  <2>4. token.uid \in Seq(Nat) /\ Len(token.uid) = UidLen
    <3>1. 2 + UidLen - 1 = UidLen + 1 /\ 2 + UidLen <= Len(input) + 1
      BY <2>1, <2>2
    <3>2. /\ SubSeq(input, 2, 2 + UidLen - 1) \in Seq(Nat)
          /\ Len(SubSeq(input, 2, 2 + UidLen - 1)) = UidLen
      BY <2>2, <2>3, <3>1
    <3>. QED
      BY <2>1, <3>1, <3>2
  <2>5. token.symbol \in Seq(Nat) /\ Len(token.symbol) = n
    <3>1. /\ UidLen + 3 + n - 1 = UidLen + 2 + n /\ UidLen + 3 \in Nat \ {0}
          /\ UidLen + 3 + n <= Len(input) + 1
      BY <2>1, <2>2
    <3>2. /\ SubSeq(input, UidLen + 3, UidLen + 3 + n - 1) \in Seq(Nat)
          /\ Len(SubSeq(input, UidLen + 3, UidLen + 3 + n - 1)) = n
      BY <2>2, <2>3, <3>1
    <3>. QED
      BY <2>1, <3>1, <3>2
  <2>6. token.name \in Seq(Nat) /\ Len(token.name) = m
    <3>1. /\ UidLen + n + 4 + m - 1 = UidLen + n + 3 + m /\ UidLen + n + 4 \in Nat \ {0}
          /\ UidLen + n + 4 + m <= Len(input) + 1
      BY <2>1, <2>2
    <3>2. /\ SubSeq(input, UidLen + n + 4, UidLen + n + 4 + m - 1) \in Seq(Nat)
          /\ Len(SubSeq(input, UidLen + n + 4, UidLen + n + 4 + m - 1)) = m
      BY <2>2, <2>3, <3>1
    <3>. QED
      BY <2>1, <3>1, <3>2
  <2>. DEFINE symbol == token.symbol
              name == token.name
              shownSymbol == Tokens!ShownSymbol(token)
              shownName == Tokens!ShownName(token)
  <2>7. shownSymbol = Tokens!Text(symbol \o <<0>>) /\ shownName = Tokens!Text(name \o <<0>>)
    BY DEF Tokens!ShownSymbol, Tokens!ShownName
  <2>8. Tokens!AmountSymbol(token)
            = SubSeq(shownSymbol, 1, Tokens!Min({Len(shownSymbol), MaxSymbolLen}))
    BY DEF Tokens!AmountSymbol, Tokens!ShownSymbol
  <2>9. /\ Len(Tokens!ShownUid(token)) = 2 * UidLen
        /\ \A i \in 1 .. UidLen :
              Tokens!ShownUid(token)[2 * i - 1] * NibbleBase + Tokens!ShownUid(token)[2 * i]
                  = token.uid[i]
    BY <2>4, ShownUidIs
  <2>10. symbol \in Seq(Nat) /\ Len(symbol) = n /\ Tokens!IsPrintable(symbol)
    BY <2>1, <2>5
  <2>11. name \in Seq(Nat) /\ Len(name) = m /\ Tokens!IsPrintable(name)
    BY <2>1, <2>6
  <2>. HIDE DEF symbol, name, shownSymbol, shownName, token
  <2>12. /\ IsPrefix(shownSymbol, symbol) /\ ToSet(shownSymbol) \subseteq Printable
         /\ 0 \notin ToSet(symbol) => shownSymbol = symbol
    BY <2>7, <2>10, FaithfulField
  <2>13. /\ IsPrefix(shownName, name) /\ ToSet(shownName) \subseteq Printable
         /\ 0 \notin ToSet(name) => shownName = name
    BY <2>7, <2>11, FaithfulField
  <2>14. Tokens!AmountSymbol(token) = shownSymbol
    <3>1. shownSymbol \in Seq(Nat) /\ Len(shownSymbol) <= n
      BY <2>7, <2>10, ShownTextIs
    <3>2. Len(shownSymbol) \in Nat /\ Len(shownSymbol) <= MaxSymbolLen
      BY <2>2, <3>1, LenProperties
    <3>. DEFINE l == Len(shownSymbol)
    <3>. HIDE DEF l
    <3>3. Tokens!Min({l, MaxSymbolLen}) = l
      BY <2>2, <3>2 DEF Tokens!Min, l
    <3>. QED
      BY <2>8, <3>1, <3>3, SubSeqFull DEF l
  <2>15. /\ Len(symbol) <= MaxSymbolLen /\ Len(name) <= MaxNameLen
         /\ parsed.taken = 3 + UidLen + Len(symbol) + Len(name)
    BY <2>1, <2>2, <2>10, <2>11
  <2>. QED
    BY <2>9, <2>12, <2>13, <2>14, <2>15 DEF symbol, name, shownSymbol, shownName, token, parsed
<1>2. Spec => []TokenShownIsSigned
  BY <1>1, Inputs, PTL
<1>. QED
  BY <1>1, <1>2

-----------------------------------------------------------------------------
(* parse_output, for every number of values of a byte and every length of a *)
(* hash.  The theorems rest on one fact, ParsedOutput: what the reads from   *)
(* the buffer come to, with the cursor worked out.                          *)

Before == Len(OpcodesBefore)
After == Len(OpcodesAfter)
ScriptLen == Outputs!ScriptLen

\* Where the script begins, behind value, token_data and script length.
HeadLen(in) == Outputs!ValueLen(in) + 3

\* The bytes of an output, in front of whatever follows.
LEMMA BytesAre ==
    ASSUME InputOK, kind = "output"
    PROVE  input \in Seq(Byte) /\ Len(input) \in Nat /\ Len(input) < SizeMod
BY ScriptLenType, SizeAssumption, OutputAssumption, LenProperties DEF InputOK, LongestOutput

LEMMA OutputSizes ==
    /\ ByteBase \in Nat \ {0} /\ ByteBase >= 2
    /\ Before \in Nat /\ After \in Nat /\ HashLen \in Nat
    /\ ScriptLen = Before + HashLen + After /\ ScriptLen \in Nat
    /\ \A in : Outputs!ValueLen(in) \in {4, 8} /\ HeadLen(in) \in Nat
<1>1. \A in : Outputs!ValueLen(in) \in {4, 8} /\ HeadLen(in) \in Nat
  BY DEF Outputs!ValueLen, HeadLen
<1>2. ByteBase >= 2
  BY OutputAssumption
<1>. QED
  BY <1>1, <1>2, ScriptLenType, OutputAssumption DEF Before, After, ScriptLen

\* The reads of a buffer of `size' bytes at `offset'.
LEMMA OutputReads ==
    ASSUME NEW size \in Nat, size < SizeMod, NEW offset \in 0 .. size, NEW n \in Nat
    PROVE  LET b == [size |-> size, offset |-> offset]
               moved == [size |-> size, offset |-> offset + n]
           IN  /\ Outputs!CanRead(b, n) <=> offset + n <= size
               /\ Outputs!ReadUInt(b, n)
                    = IF offset + n <= size THEN [ok |-> TRUE, buffer |-> moved]
                      ELSE [ok |-> FALSE, buffer |-> b]
               /\ offset + n <= size => Outputs!SeekCur(b, n).buffer = moved
<1>. DEFINE b == [size |-> size, offset |-> offset]
            moved == [size |-> size, offset |-> offset + n]
<1>1. Outputs!Remaining(b) = size - offset
  BY SizeAssumption DEF Outputs!Remaining, Outputs!WrapSize
<1>2. Outputs!CanRead(b, n) <=> offset + n <= size
  BY <1>1 DEF Outputs!CanRead
<1>3. ASSUME offset + n <= size PROVE Outputs!SeekCur(b, n).buffer = moved
  <2>1. Outputs!WrapSize(offset + n) = offset + n
    BY SizeAssumption, <1>3 DEF Outputs!WrapSize
  <2>. QED
    BY <1>3, <2>1 DEF Outputs!SeekCur, Outputs!MovedTo
<1>. HIDE DEF b, moved
<1>4. Outputs!ReadUInt(b, n) = IF offset + n <= size THEN [ok |-> TRUE, buffer |-> moved]
                               ELSE [ok |-> FALSE, buffer |-> b]
  BY <1>2, <1>3 DEF Outputs!ReadUInt, Outputs!Advanced, Outputs!Refused
<1>. QED
  BY <1>2, <1>3, <1>4 DEF b, moved

\* What parse_output makes of any bytes.
LEMMA ParsedOutput ==
    ASSUME NEW in \in Seq(Byte), Len(in) < SizeMod
    PROVE  LET head == HeadLen(in)
           IN  Outputs!ParseOutput(in) =
                 IF Len(in) < head THEN Outputs!Incomplete
                 ELSE IF Outputs!ReadU16(in, head - 2) # ScriptLen THEN Outputs!RefusedOutput
                 ELSE IF Len(in) < head + ScriptLen THEN Outputs!Incomplete
                 ELSE IF /\ Outputs!Slice(in, head, Before) = OpcodesBefore
                         /\ Outputs!Slice(in, head + Before + HashLen, After) = OpcodesAfter
                      THEN [status |-> "OK",
                            value |-> Outputs!OutputValue(in),
                            token_data |-> in[head - 2],
                            pubkey_hash |-> Outputs!Slice(in, head + Before, HashLen),
                            length |-> head + ScriptLen]
                      ELSE Outputs!RefusedOutput
<1>. DEFINE size == Len(in)
            v == Outputs!ValueLen(in)
            head == HeadLen(in)
            At(offset) == [size |-> size, offset |-> offset]
            value == Outputs!ReadUInt(Outputs!Opened(Len(in)), Outputs!ValueLen(in))
            token == Outputs!ReadUInt(value.buffer, 1)
            length == Outputs!ReadUInt(token.buffer, 2)
            at == value.buffer.offset
            b == length.buffer
            script_len == Outputs!ReadU16(in, at + 1)
            valid == Outputs!ValidateScript(in, b, script_len)
            output == [status |-> "OK",
                       value |-> Outputs!OutputValue(in),
                       token_data |-> in[at + 1],
                       pubkey_hash |-> Outputs!Slice(in, b.offset + Len(OpcodesBefore), HashLen),
                       length |-> Outputs!SeekCur(b, script_len).buffer.offset]
<1>1. Outputs!ParseOutput(in)
          = IF ~(value.ok /\ token.ok /\ length.ok) THEN Outputs!Incomplete
            ELSE CASE valid = "READY" -> Outputs!Incomplete
                   [] valid = "ERR" -> Outputs!RefusedOutput
                   [] OTHER -> output
  BY DEF Outputs!ParseOutput
<1>2. size \in Nat /\ size < SizeMod /\ v \in {4, 8} /\ head = v + 3
  BY OutputSizes, LenProperties DEF HeadLen
<1>. HIDE DEF size, v, head
<1>3. value = IF v <= size THEN [ok |-> TRUE, buffer |-> At(v)]
              ELSE [ok |-> FALSE, buffer |-> At(0)]
  <2>1. value = IF 0 + v <= size THEN [ok |-> TRUE, buffer |-> At(0 + v)]
                ELSE [ok |-> FALSE, buffer |-> At(0)]
    BY <1>2, OutputReads DEF Outputs!Opened, size, v
  <2>2. 0 + v = v
    BY <1>2
  <2>. QED
    BY <2>1, <2>2
<1>. HIDE DEF value
<1>4. ASSUME v <= size
      PROVE  token = IF v + 1 <= size THEN [ok |-> TRUE, buffer |-> At(v + 1)]
                     ELSE [ok |-> FALSE, buffer |-> At(v)]
  BY <1>2, <1>3, <1>4, OutputReads
<1>. HIDE DEF token
<1>5. ASSUME v + 1 <= size
      PROVE  length = IF head <= size THEN [ok |-> TRUE, buffer |-> At(head)]
                      ELSE [ok |-> FALSE, buffer |-> At(v + 1)]
  <2>1. v <= size /\ v + 1 \in 0 .. size /\ v + 1 + 2 = head
    BY <1>2, <1>5
  <2>2. token.buffer = At(v + 1)
    BY <1>4, <1>5, <2>1
  <2>3. length = IF v + 1 + 2 <= size THEN [ok |-> TRUE, buffer |-> At(v + 1 + 2)]
                 ELSE [ok |-> FALSE, buffer |-> At(v + 1)]
    BY <1>2, <2>1, <2>2, OutputReads
  <2>. QED
    BY <2>1, <2>3
<1>. HIDE DEF length
<1>6. CASE size < head
  <2>1. ~(value.ok /\ token.ok /\ length.ok)
    <3>1. CASE ~(v <= size)
      BY <1>3, <3>1
    <3>2. CASE v <= size /\ ~(v + 1 <= size)
      BY <1>4, <3>2
    <3>3. CASE v + 1 <= size
      BY <1>2, <1>5, <1>6, <3>3
    <3>. QED
      BY <3>1, <3>2, <3>3
  <2>2. Outputs!ParseOutput(in) = Outputs!Incomplete
    <3>. HIDE DEF valid, output
    <3>. QED
      BY <1>1, <2>1
  <2>. QED
    BY <1>6, <2>2 DEF size, head
<1>7. CASE head <= size
  <2>1. v <= size /\ v + 1 <= size
    BY <1>2, <1>7
  <2>2. value.ok /\ token.ok /\ length.ok /\ at = v /\ b = At(head)
    BY <1>3, <1>4, <1>5, <1>7, <2>1
  <2>3. at + 1 = head - 2
    BY <1>2, <2>2
  <2>4. script_len = Outputs!ReadU16(in, head - 2) /\ in[at + 1] = in[head - 2]
    BY <2>3
  <2>5. b.offset = head
    BY <2>2
  <2>. HIDE DEF at, b
  <2>6. valid = IF script_len # ScriptLen THEN "ERR"
                ELSE IF size < head + ScriptLen THEN "READY"
                ELSE IF /\ Outputs!Slice(in, head, Before) = OpcodesBefore
                        /\ Outputs!Slice(in, head + Before + HashLen, After) = OpcodesAfter
                     THEN "OK" ELSE "ERR"
    <3>1. Outputs!CanRead(b, ScriptLen) <=> ~(size < head + ScriptLen)
      <4>1. head \in 0 .. size
        BY <1>2, <1>7
      <4>2. ScriptLen \in Nat
        BY OutputSizes
      <4>3. Outputs!CanRead(b, ScriptLen) <=> head + ScriptLen <= size
        BY <1>2, <2>2, <4>1, <4>2, OutputReads
      <4>. QED
        BY <1>2, <4>2, <4>3
    <3>. HIDE DEF script_len
    <3>. QED
      BY <2>5, <3>1 DEF Outputs!ValidateScript, ScriptLen, Before, After
  <2>. HIDE DEF valid
  <2>7. output = [status |-> "OK",
                  value |-> Outputs!OutputValue(in),
                  token_data |-> in[head - 2],
                  pubkey_hash |-> Outputs!Slice(in, head + Before, HashLen),
                  length |-> Outputs!SeekCur(b, script_len).buffer.offset]
    BY <2>4, <2>5 DEF Before
  <2>8. ASSUME script_len = ScriptLen, ~(size < head + ScriptLen)
        PROVE  Outputs!SeekCur(b, script_len).buffer.offset = head + ScriptLen
    <3>0. ScriptLen \in Nat
      BY OutputSizes
    <3>1. head \in 0 .. size /\ head + ScriptLen <= size
      BY <1>2, <1>7, <2>8, <3>0
    <3>2. Outputs!SeekCur(At(head), ScriptLen).buffer = At(head + ScriptLen)
      BY <1>2, <3>0, <3>1, OutputReads
    <3>. QED
      BY <2>2, <2>8, <3>2
  <2>9. Outputs!ParseOutput(in) = IF valid = "READY" THEN Outputs!Incomplete
                                  ELSE IF valid = "ERR" THEN Outputs!RefusedOutput
                                  ELSE output
    <3>. HIDE DEF output
    <3>. QED
      BY <1>1, <2>2, <2>6
  <2>. HIDE DEF output, script_len
  <2>10. ~(size < head)
    BY <1>2, <1>7
  <2>. QED
    BY <2>4, <2>6, <2>7, <2>8, <2>9, <2>10 DEF size, head
<1>. QED
  BY <1>2, <1>6, <1>7

-----------------------------------------------------------------------------
(* One byte more. *)

LEMMA FrontIs ==
    ASSUME NEW in \in Seq(Byte), in # <<>>
    PROVE  /\ Len(in) \in Nat \ {0}
           /\ Front(in) \in Seq(Byte) /\ Len(Front(in)) = Len(in) - 1
           /\ \A i \in 1 .. Len(in) - 1 : Front(in)[i] = in[i]
<1>1. Len(in) \in Nat \ {0}
  BY EmptySeq
<1>2. PICK n \in Nat : n = Len(in) - 1
  BY <1>1
<1>3. \A i \in 1 .. n : in[i] \in Byte
  BY <1>1, <1>2
<1>4. /\ SubSeq(in, 1, n) \in Seq(Byte) /\ Len(SubSeq(in, 1, n)) = n
      /\ \A i \in 1 .. n : SubSeq(in, 1, n)[i] = in[i]
  BY <1>2, <1>3, SubSeqProperties
<1>. QED
  BY <1>1, <1>2, <1>4 DEF Front

\* A slice of the beginning is one of the whole.
LEMMA SliceOfFront ==
    ASSUME NEW in \in Seq(Byte), in # <<>>, NEW offset \in Nat, NEW n \in Nat,
           offset + n < Len(in)
    PROVE  Outputs!Slice(Front(in), offset, n) = Outputs!Slice(in, offset, n)
<1>1. /\ Len(in) \in Nat \ {0} /\ Front(in) \in Seq(Byte)
      /\ \A i \in 1 .. Len(in) - 1 : Front(in)[i] = in[i]
  BY FrontIs
<1>2. \A i \in offset + 1 .. offset + n : Front(in)[i] = in[i] /\ in[i] \in Byte
  BY <1>1
<1>3. /\ Outputs!Slice(in, offset, n) \in Seq(Byte)
      /\ Len(Outputs!Slice(in, offset, n)) = n
      /\ \A i \in 1 .. n : Outputs!Slice(in, offset, n)[i] = in[offset + i]
  BY <1>2, SubSeqProperties DEF Outputs!Slice
<1>4. /\ Outputs!Slice(Front(in), offset, n) \in Seq(Byte)
      /\ Len(Outputs!Slice(Front(in), offset, n)) = n
      /\ \A i \in 1 .. n : Outputs!Slice(Front(in), offset, n)[i] = Front(in)[offset + i]
  BY <1>2, SubSeqProperties DEF Outputs!Slice
<1>5. \A i \in 1 .. n : Outputs!Slice(Front(in), offset, n)[i] = Outputs!Slice(in, offset, n)[i]
  BY <1>2, <1>3, <1>4
<1>. QED
  BY <1>3, <1>4, <1>5, SeqEqual

\* Once parse_output has read or refused the bytes there are, a byte behind them
\* changes nothing, wherever the chunk ended.
THEOREM ChunksDoNotMatter ==
    /\ InputOK => MoreBytesAgree
    /\ Spec => []MoreBytesAgree
<1>1. InputOK => MoreBytesAgree
  <2>. SUFFICES ASSUME InputOK, kind = "output", input # <<>>,
                       Outputs!ParseOutput(Front(input)).status # "READY"
                PROVE  Outputs!ParseOutput(input) = Outputs!ParseOutput(Front(input))
    BY DEF MoreBytesAgree
  <2>. DEFINE in == Front(input)
              size == Len(input)
              head == HeadLen(input)
  <2>1. /\ input \in Seq(Byte) /\ size \in Nat \ {0} /\ size < SizeMod
        /\ in \in Seq(Byte) /\ Len(in) = size - 1 /\ Len(in) < SizeMod
        /\ \A i \in 1 .. size - 1 : in[i] = input[i]
    <3>1. input \in Seq(Byte) /\ size < SizeMod
      BY BytesAre
    <3>2. /\ size \in Nat \ {0} /\ in \in Seq(Byte) /\ Len(in) = size - 1
          /\ \A i \in 1 .. size - 1 : in[i] = input[i]
      BY <3>1, FrontIs
    <3>. HIDE DEF in, size
    <3>. QED
      BY <3>1, <3>2, SizeAssumption
  <2>2. /\ head \in Nat /\ HeadLen(in) \in Nat /\ HeadLen(in) >= 7
        /\ ScriptLen \in Nat /\ Before \in Nat /\ After \in Nat /\ HashLen \in Nat
        /\ ScriptLen = Before + HashLen + After
    BY OutputSizes DEF HeadLen
  <2>. HIDE DEF in, size, head
  <2>3. ~(size - 1 < HeadLen(in))
    BY <2>1, ParsedOutput DEF Outputs!Incomplete, in
  <2>4. HeadLen(in) = head /\ Outputs!Wide(in) = Outputs!Wide(input)
    <3>1. in # <<>> /\ in[1] = input[1]
      BY <2>1, <2>2, <2>3, EmptySeq
    <3>2. Outputs!Wide(in) = Outputs!Wide(input)
      BY <3>1 DEF Outputs!Wide
    <3>. QED
      BY <3>2 DEF HeadLen, Outputs!ValueLen, head
  <2>5. /\ Outputs!ReadU16(in, head - 2) = Outputs!ReadU16(input, head - 2)
        /\ in[head - 2] = input[head - 2]
        /\ Outputs!OutputValue(in) = Outputs!OutputValue(input)
    <3>1. head \in 7 .. size - 1
      BY <2>1, <2>2, <2>3, <2>4
    <3>2. \A i \in 1 .. head : in[i] = input[i]
      BY <2>1, <3>1
    <3>3. Outputs!ReadU16(in, head - 2) = Outputs!ReadU16(input, head - 2)
      <4>1. /\ head - 2 + 1 \in 1 .. head /\ head - 2 + 2 \in 1 .. head
        BY <3>1
      <4>. QED
        BY <3>2, <4>1 DEF Outputs!ReadU16
    <3>4. in[head - 2] = input[head - 2]
      BY <3>1, <3>2
    <3>5. \A i \in 1 .. 7 : in[i] = input[i]
      BY <3>1, <3>2
    <3>6. Outputs!ReadU32(in, 0) = Outputs!ReadU32(input, 0)
      BY <3>5 DEF Outputs!ReadU32, Outputs!ReadU16
    <3>7. ASSUME Outputs!Wide(input)
          PROVE  Outputs!ReadU64(in, 0) = Outputs!ReadU64(input, 0)
      <4>1. head = 11
        BY <3>7 DEF head, HeadLen, Outputs!ValueLen
      <4>2. \A i \in 1 .. 8 : in[i] = input[i]
        BY <3>2, <4>1
      <4>. QED
        BY <3>6, <4>2 DEF Outputs!ReadU64, Outputs!ReadU32, Outputs!ReadU16
    <3>8. Outputs!OutputValue(in) = Outputs!OutputValue(input)
      BY <2>4, <3>6, <3>7 DEF Outputs!OutputValue
    <3>. QED
      BY <3>3, <3>4, <3>8
  <2>6. ASSUME ~(size - 1 < head + ScriptLen)
        PROVE  /\ Outputs!Slice(in, head, Before) = Outputs!Slice(input, head, Before)
               /\ Outputs!Slice(in, head + Before, HashLen)
                    = Outputs!Slice(input, head + Before, HashLen)
               /\ Outputs!Slice(in, head + Before + HashLen, After)
                    = Outputs!Slice(input, head + Before + HashLen, After)
    <3>1. /\ head + Before < size /\ head + Before + HashLen < size
          /\ head + Before + HashLen + After < size
          /\ head + Before \in Nat /\ head + Before + HashLen \in Nat
      BY <2>1, <2>2, <2>6
    <3>. QED
      BY <2>1, <2>2, <3>1, SliceOfFront DEF in, size
  <2>7. Outputs!ParseOutput(in) =
            IF Outputs!ReadU16(input, head - 2) # ScriptLen THEN Outputs!RefusedOutput
            ELSE IF size - 1 < head + ScriptLen THEN Outputs!Incomplete
            ELSE IF /\ Outputs!Slice(in, head, Before) = OpcodesBefore
                    /\ Outputs!Slice(in, head + Before + HashLen, After) = OpcodesAfter
                 THEN [status |-> "OK",
                       value |-> Outputs!OutputValue(input),
                       token_data |-> input[head - 2],
                       pubkey_hash |-> Outputs!Slice(in, head + Before, HashLen),
                       length |-> head + ScriptLen]
                 ELSE Outputs!RefusedOutput
    BY <2>1, <2>3, <2>4, <2>5, ParsedOutput
  <2>8. Outputs!ParseOutput(input) =
            IF Outputs!ReadU16(input, head - 2) # ScriptLen THEN Outputs!RefusedOutput
            ELSE IF size < head + ScriptLen THEN Outputs!Incomplete
            ELSE IF /\ Outputs!Slice(input, head, Before) = OpcodesBefore
                    /\ Outputs!Slice(input, head + Before + HashLen, After) = OpcodesAfter
                 THEN [status |-> "OK",
                       value |-> Outputs!OutputValue(input),
                       token_data |-> input[head - 2],
                       pubkey_hash |-> Outputs!Slice(input, head + Before, HashLen),
                       length |-> head + ScriptLen]
                 ELSE Outputs!RefusedOutput
    <3>1. ~(size < head)
      BY <2>1, <2>2, <2>3, <2>4
    <3>. QED
      BY <2>1, <3>1, ParsedOutput DEF size, head
  <2>9. CASE Outputs!ReadU16(input, head - 2) # ScriptLen
    BY <2>7, <2>8, <2>9 DEF in
  <2>10. CASE Outputs!ReadU16(input, head - 2) = ScriptLen
    <3>1. ~(size - 1 < head + ScriptLen)
      BY <2>7, <2>10 DEF Outputs!Incomplete, in
    <3>2. ~(size < head + ScriptLen)
      BY <2>1, <2>2, <3>1
    <3>. QED
      BY <2>6, <2>7, <2>8, <2>10, <3>1, <3>2 DEF in
  <2>. QED
    BY <2>9, <2>10
<1>2. Spec => []MoreBytesAgree
  BY <1>1, Inputs, PTL
<1>. QED
  BY <1>1, <1>2

-----------------------------------------------------------------------------
(* Numbers and their bytes. *)

LEMMA Ranges ==
    /\ Outputs!Range16 \in Nat /\ Outputs!Range16 >= 2 /\ Outputs!Range16 = ByteBase * ByteBase
    /\ Outputs!Range32 \in Nat /\ Outputs!Range32 >= 2
    /\ Outputs!Range32 = Outputs!Range16 * Outputs!Range16
    /\ Outputs!Range64 \in Nat /\ Outputs!Range64 >= 2
    /\ Outputs!Range64 = Outputs!Range32 * Outputs!Range32
<1>1. ASSUME NEW m \in Nat, m >= 2 PROVE m * m \in Nat /\ m * m >= 2
  BY <1>1
<1>. QED
  BY <1>1, OutputSizes DEF Outputs!Range16, Outputs!Range32, Outputs!Range64

\* The high and the low part of a number.
LEMMA HighLow ==
    ASSUME NEW m \in Nat \ {0}, NEW high \in Nat, NEW low \in 0 .. m - 1
    PROVE  (high * m + low) \div m = high /\ (high * m + low) % m = low
OBVIOUS

LEMMA HighLowRange ==
    ASSUME NEW m \in Nat \ {0}, NEW k \in Nat \ {0}, NEW high \in 0 .. k - 1,
           NEW low \in 0 .. m - 1
    PROVE  high * m + low \in 0 .. k * m - 1
<1>1. high * m + low >= 0
  OBVIOUS
<1>2. high * m + m <= k * m
  <2>1. (high + 1) * m <= k * m
    OBVIOUS
  <2>. QED
    BY <2>1
<1>. QED
  BY <1>1, <1>2

LEMMA HighLowIs ==
    ASSUME NEW m \in Nat \ {0}, NEW k \in Nat \ {0}, NEW high \in 0 .. k - 1,
           NEW low \in 0 .. m - 1, NEW n, n = high * m + low
    PROVE  n \div m = high /\ n % m = low /\ n \in 0 .. k * m - 1
<1>1. high \in Nat
  OBVIOUS
<1>2. n \div m = high /\ n % m = low
  BY <1>1, HighLow
<1>. QED
  BY <1>2, HighLowRange

\* What read_u16_be reads of two bytes has these bytes, and so for four and eight.
LEMMA Bytes16Are ==
    ASSUME NEW in \in Seq(Byte), NEW offset \in Nat, offset + 2 <= Len(in)
    PROVE  /\ Outputs!ReadU16(in, offset) \in 0 .. Outputs!Range16 - 1
           /\ Bytes16(Outputs!ReadU16(in, offset)) = SubSeq(in, offset + 1, offset + 2)
<1>1. /\ in[offset + 1] \in 0 .. ByteBase - 1 /\ in[offset + 2] \in 0 .. ByteBase - 1
      /\ ByteBase \in Nat \ {0}
  BY OutputSizes DEF Byte
<1>2. Outputs!ReadU16(in, offset) = in[offset + 1] * ByteBase + in[offset + 2]
  BY DEF Outputs!ReadU16
<1>. DEFINE n == Outputs!ReadU16(in, offset)
            high == in[offset + 1]
            low == in[offset + 2]
<1>. HIDE DEF n, high, low
<1>3. n \div ByteBase = high /\ n % ByteBase = low /\ n \in 0 .. ByteBase * ByteBase - 1
  BY <1>1, <1>2, HighLowIs DEF n, high, low
<1>4. /\ Bytes16(Outputs!ReadU16(in, offset)) = <<in[offset + 1], in[offset + 2]>>
      /\ Outputs!ReadU16(in, offset) \in 0 .. Outputs!Range16 - 1
  BY <1>3 DEF Bytes16, Outputs!Range16, n, high, low
<1>5. SubSeq(in, offset + 1, offset + 2) = <<in[offset + 1], in[offset + 2]>>
  <2>1. \A i \in offset + 1 .. offset + 2 : in[i] \in Byte
    OBVIOUS
  <2>2. /\ SubSeq(in, offset + 1, offset + 2) \in Seq(Byte)
        /\ Len(SubSeq(in, offset + 1, offset + 2)) = 2
        /\ SubSeq(in, offset + 1, offset + 2)[1] = in[offset + 1]
        /\ SubSeq(in, offset + 1, offset + 2)[2] = in[offset + 2]
    BY <2>1, SubSeqProperties
  <2>. DEFINE s == SubSeq(in, offset + 1, offset + 2)
              t == <<in[offset + 1], in[offset + 2]>>
  <2>3. t \in Seq(Byte) /\ Len(t) = 2 /\ t[1] = in[offset + 1] /\ t[2] = in[offset + 2]
    BY <2>1
  <2>. HIDE DEF s, t
  <2>4. \A i \in 1 .. 2 : s[i] = t[i]
    <3>1. \A i \in 1 .. 2 : i = 1 \/ i = 2
      OBVIOUS
    <3>2. s[1] = t[1] /\ s[2] = t[2]
      BY <2>2, <2>3 DEF s
    <3>. QED
      BY <3>1, <3>2
  <2>. QED
    BY <2>2, <2>3, <2>4, SeqEqual DEF s, t
<1>. QED
  BY <1>4, <1>5

LEMMA Adjacent ==
    ASSUME NEW in \in Seq(Byte), NEW from \in Nat \ {0}, NEW mid \in Nat, NEW to \in Nat,
           from <= mid + 1, mid <= to, to <= Len(in)
    PROVE  SubSeq(in, from, mid) \o SubSeq(in, mid + 1, to) = SubSeq(in, from, to)
<1>1. /\ from \in 1 .. Len(in) + 1 /\ mid \in from - 1 .. Len(in) /\ to \in mid .. Len(in)
  BY LenProperties
<1>. QED
  BY <1>1, ConcatAdjacentSubSeq

LEMMA Bytes32Are ==
    ASSUME NEW in \in Seq(Byte), NEW offset \in Nat, offset + 4 <= Len(in)
    PROVE  /\ Outputs!ReadU32(in, offset) \in 0 .. Outputs!Range32 - 1
           /\ Bytes32(Outputs!ReadU32(in, offset)) = SubSeq(in, offset + 1, offset + 4)
<1>. DEFINE high == Outputs!ReadU16(in, offset)
            low == Outputs!ReadU16(in, offset + 2)
<1>1. Len(in) \in Nat
  BY LenProperties
<1>2. /\ high \in 0 .. Outputs!Range16 - 1
      /\ Bytes16(high) = SubSeq(in, offset + 1, offset + 2)
  BY <1>1, Bytes16Are
<1>3. /\ low \in 0 .. Outputs!Range16 - 1
      /\ Bytes16(low) = SubSeq(in, offset + 3, offset + 4)
  <2>1. offset + 2 + 2 <= Len(in) /\ offset + 2 + 1 = offset + 3 /\ offset + 2 + 2 = offset + 4
    BY <1>1
  <2>. QED
    BY <2>1, Bytes16Are
<1>4. Outputs!ReadU32(in, offset) = high * Outputs!Range16 + low
  BY DEF Outputs!ReadU32
<1>. HIDE DEF high, low
<1>. DEFINE n == Outputs!ReadU32(in, offset)
            m == Outputs!Range16
<1>. HIDE DEF n, m
<1>5. /\ n \div m = high /\ n % m = low /\ n \in 0 .. m * m - 1
  <2>1. m \in Nat \ {0} /\ high \in 0 .. m - 1 /\ low \in 0 .. m - 1
    BY <1>2, <1>3, Ranges DEF m
  <2>2. n = high * m + low
    BY <1>4 DEF n, m
  <2>. QED
    BY <2>1, <2>2, HighLowIs
<1>6. SubSeq(in, offset + 1, offset + 2) \o SubSeq(in, offset + 3, offset + 4)
          = SubSeq(in, offset + 1, offset + 4)
  <2>1. offset + 2 + 1 = offset + 3 /\ offset + 1 \in Nat \ {0} /\ offset + 2 <= offset + 4
        /\ offset + 1 <= offset + 2 + 1
    OBVIOUS
  <2>. QED
    BY <2>1, Adjacent
<1>7. Bytes32(Outputs!ReadU32(in, offset)) = Bytes16(high) \o Bytes16(low)
  BY <1>5 DEF Bytes32, n, m
<1>8. Outputs!ReadU32(in, offset) \in 0 .. Outputs!Range32 - 1
  BY <1>5 DEF Outputs!Range32, n, m
<1>. QED
  BY <1>2, <1>3, <1>6, <1>7, <1>8

LEMMA Bytes64Are ==
    ASSUME NEW in \in Seq(Byte), NEW offset \in Nat, offset + 8 <= Len(in)
    PROVE  /\ Outputs!ReadU64(in, offset) \in 0 .. Outputs!Range64 - 1
           /\ Bytes64(Outputs!ReadU64(in, offset)) = SubSeq(in, offset + 1, offset + 8)
<1>. DEFINE high == Outputs!ReadU32(in, offset)
            low == Outputs!ReadU32(in, offset + 4)
<1>1. Len(in) \in Nat
  BY LenProperties
<1>2. /\ high \in 0 .. Outputs!Range32 - 1
      /\ Bytes32(high) = SubSeq(in, offset + 1, offset + 4)
  BY <1>1, Bytes32Are
<1>3. /\ low \in 0 .. Outputs!Range32 - 1
      /\ Bytes32(low) = SubSeq(in, offset + 5, offset + 8)
  <2>1. offset + 4 + 4 <= Len(in) /\ offset + 4 + 1 = offset + 5 /\ offset + 4 + 4 = offset + 8
    BY <1>1
  <2>. QED
    BY <2>1, Bytes32Are
<1>4. Outputs!ReadU64(in, offset) = high * Outputs!Range32 + low
  BY DEF Outputs!ReadU64
<1>. HIDE DEF high, low
<1>. DEFINE n == Outputs!ReadU64(in, offset)
            m == Outputs!Range32
<1>. HIDE DEF n, m
<1>5. /\ n \div m = high /\ n % m = low /\ n \in 0 .. m * m - 1
  <2>1. m \in Nat \ {0} /\ high \in 0 .. m - 1 /\ low \in 0 .. m - 1
    BY <1>2, <1>3, Ranges DEF m
  <2>2. n = high * m + low
    BY <1>4 DEF n, m
  <2>. QED
    BY <2>1, <2>2, HighLowIs
<1>6. SubSeq(in, offset + 1, offset + 4) \o SubSeq(in, offset + 5, offset + 8)
          = SubSeq(in, offset + 1, offset + 8)
  <2>1. offset + 4 + 1 = offset + 5 /\ offset + 1 \in Nat \ {0} /\ offset + 4 <= offset + 8
        /\ offset + 1 <= offset + 4 + 1
    OBVIOUS
  <2>. QED
    BY <2>1, Adjacent
<1>7. Bytes64(Outputs!ReadU64(in, offset)) = Bytes32(high) \o Bytes32(low)
  BY <1>5 DEF Bytes64, n, m
<1>8. Outputs!ReadU64(in, offset) \in 0 .. Outputs!Range64 - 1
  BY <1>5 DEF Outputs!Range64, n, m
<1>. QED
  BY <1>2, <1>3, <1>6, <1>7, <1>8

\* A number whose high part is in the upper half is there itself.
LEMMA UpperHalf ==
    ASSUME NEW m \in Nat, NEW k \in Nat, NEW high \in Nat, NEW low \in Nat,
           2 * high >= k, NEW n, n = high * m + low
    PROVE  2 * n >= k * m
<1>1. (2 * high) * m >= k * m
  OBVIOUS
<1>2. 2 * n = (2 * high) * m + 2 * low
  OBVIOUS
<1>. QED
  BY <1>1, <1>2

\* The value of an output: its bytes are in front, and it is at most 2^63.
LEMMA ValueBytes ==
    ASSUME NEW in \in Seq(Byte), Outputs!ValueLen(in) <= Len(in)
    PROVE  /\ (IF Outputs!Wide(in) THEN Bytes64(Outputs!Range64 - Outputs!OutputValue(in))
               ELSE Bytes32(Outputs!OutputValue(in)))
                   = SubSeq(in, 1, Outputs!ValueLen(in))
           /\ Outputs!OutputValue(in) \in 0 .. Outputs!Range64 \div 2
<1>. DEFINE R == Outputs!Range64
            value == Outputs!OutputValue(in)
<1>1. Len(in) \in Nat /\ R \in Nat /\ R >= 2
  BY LenProperties, Ranges
<1>2. CASE Outputs!Wide(in)
  <2>. DEFINE u == Outputs!ReadU64(in, 0)
  <2>1. Outputs!ValueLen(in) = 8 /\ 0 + 8 <= Len(in)
    BY <1>2 DEF Outputs!ValueLen
  <2>2. u \in 0 .. R - 1 /\ Bytes64(u) = SubSeq(in, 1, 8)
    <3>1. 0 + 1 = 1 /\ 0 + 8 = 8
      OBVIOUS
    <3>. QED
      BY <2>1, <3>1, Bytes64Are
  <2>3. 2 * u >= R
    <3>1. /\ in[1] \in Nat /\ in[2] \in Nat /\ 2 * in[1] >= ByteBase
      <4>1. in[1] \in Nat /\ in[2] \in Nat
        <5>1. in[1] \in Byte /\ in[2] \in Byte
          BY <1>1, <2>1
        <5>. QED
          BY <5>1, OutputSizes DEF Byte
      <4>2. in[1] >= ByteBase \div 2
        BY <1>2 DEF Outputs!Wide
      <4>3. 2 * (ByteBase \div 2) = ByteBase
        BY OutputAssumption
      <4>4. ByteBase \div 2 \in Nat
        BY OutputAssumption
      <4>. QED
        BY <4>1, <4>2, <4>3, <4>4
    <3>2. /\ Outputs!ReadU16(in, 0) \in Nat /\ Outputs!ReadU16(in, 2) \in Nat
          /\ Outputs!ReadU32(in, 0) \in Nat /\ Outputs!ReadU32(in, 4) \in Nat
      <4>1. 0 + 2 <= Len(in) /\ 2 + 2 <= Len(in) /\ 0 + 4 <= Len(in) /\ 4 + 4 <= Len(in)
        BY <1>1, <2>1
      <4>2. Outputs!ReadU16(in, 0) \in Nat
        BY <4>1, Bytes16Are
      <4>3. Outputs!ReadU16(in, 2) \in Nat
        BY <4>1, Bytes16Are
      <4>4. Outputs!ReadU32(in, 0) \in Nat
        BY <4>1, Bytes32Are
      <4>5. Outputs!ReadU32(in, 4) \in Nat
        BY <4>1, Bytes32Are
      <4>. QED
        BY <4>2, <4>3, <4>4, <4>5
    <3>3. 2 * Outputs!ReadU16(in, 0) >= Outputs!Range16
      <4>1. Outputs!ReadU16(in, 0) = in[1] * ByteBase + in[2]
        BY DEF Outputs!ReadU16
      <4>2. ByteBase \in Nat
        BY OutputSizes
      <4>. DEFINE b1 == in[1]
                  b2 == in[2]
                  n == Outputs!ReadU16(in, 0)
      <4>3. b1 \in Nat /\ b2 \in Nat /\ 2 * b1 >= ByteBase /\ n = b1 * ByteBase + b2
        BY <3>1, <4>1
      <4>. HIDE DEF b1, b2, n
      <4>4. 2 * n >= ByteBase * ByteBase
        BY <4>2, <4>3, UpperHalf
      <4>. QED
        BY <4>4 DEF Outputs!Range16, n
    <3>4. 2 * Outputs!ReadU32(in, 0) >= Outputs!Range32
      <4>1. Outputs!ReadU32(in, 0)
                = Outputs!ReadU16(in, 0) * Outputs!Range16 + Outputs!ReadU16(in, 2)
        BY DEF Outputs!ReadU32
      <4>2. Outputs!Range16 \in Nat
        BY Ranges
      <4>3. 2 * Outputs!ReadU32(in, 0) >= Outputs!Range16 * Outputs!Range16
        BY <3>2, <3>3, <4>1, <4>2, UpperHalf
      <4>. QED
        BY <4>3 DEF Outputs!Range32
    <3>5. u = Outputs!ReadU32(in, 0) * Outputs!Range32 + Outputs!ReadU32(in, 4)
      BY DEF Outputs!ReadU64
    <3>6. Outputs!Range32 \in Nat
      BY Ranges
    <3>. HIDE DEF u
    <3>7. 2 * u >= Outputs!Range32 * Outputs!Range32
      BY <3>2, <3>4, <3>5, <3>6, UpperHalf
    <3>. QED
      BY <3>7 DEF Outputs!Range64
  <2>4. value = (R - u) % R
    BY <1>2 DEF Outputs!OutputValue
  <2>. HIDE DEF u, value, R
  <2>5. R - u \in 0 .. R - 1
    BY <1>1, <2>2, <2>3
  <2>6. value = R - u
    BY <1>1, <2>4, <2>5
  <2>7. R - value = u /\ value \in Nat /\ 2 * value <= R
    BY <1>1, <2>2, <2>3, <2>6
  <2>8. value \in 0 .. R \div 2
    BY <1>1, <2>7
  <2>. QED
    BY <1>2, <2>1, <2>2, <2>7, <2>8 DEF value, R
<1>3. CASE ~Outputs!Wide(in)
  <2>1. Outputs!ValueLen(in) = 4 /\ 0 + 4 <= Len(in)
    BY <1>3 DEF Outputs!ValueLen
  <2>2. value = Outputs!ReadU32(in, 0)
    BY <1>3 DEF Outputs!OutputValue
  <2>3. value \in 0 .. Outputs!Range32 - 1 /\ Bytes32(value) = SubSeq(in, 1, 4)
    <3>1. 0 + 1 = 1 /\ 0 + 4 = 4
      OBVIOUS
    <3>. QED
      BY <2>1, <2>2, <3>1, Bytes32Are
  <2>4. 2 * Outputs!Range32 <= R
    <3>. DEFINE m == Outputs!Range32
    <3>1. m \in Nat /\ m >= 2 /\ R = m * m
      BY Ranges
    <3>. HIDE DEF m, R
    <3>2. 2 * m <= m * m
      BY <3>1
    <3>. QED
      BY <3>1, <3>2 DEF m
  <2>5. Outputs!Range32 \in Nat
    BY Ranges
  <2>. HIDE DEF value, R
  <2>6. value \in 0 .. R \div 2
    BY <1>1, <2>3, <2>4, <2>5
  <2>. QED
    BY <1>3, <2>1, <2>3, <2>6 DEF value, R
<1>. QED
  BY <1>2, <1>3

\* The output that parse_output reads is the one whose serialisation the bytes
\* are: what is shown of an output is what is hashed and signed, for every hash
\* length, every value and every chunk.
THEOREM ShownOutputIsSigned ==
    /\ InputOK => ParsedIsSerialized
    /\ Spec => []ParsedIsSerialized
<1>1. InputOK => ParsedIsSerialized
  <2>. SUFFICES ASSUME InputOK, kind = "output", Outputs!ParseOutput(input).status = "OK"
                PROVE  LET output == Outputs!ParseOutput(input)
                       IN  /\ Serialized(Outputs!Wide(input), output)
                                = SubSeq(input, 1, output.length)
                           /\ output.value \in 0 .. Outputs!Range64 \div 2
    BY DEF ParsedIsSerialized
  <2>. DEFINE output == Outputs!ParseOutput(input)
              v == Outputs!ValueLen(input)
              head == HeadLen(input)
  <2>1. /\ input \in Seq(Byte) /\ Len(input) \in Nat /\ Len(input) < SizeMod
        /\ v \in {4, 8} /\ head = v + 3
        /\ ScriptLen \in Nat /\ Before \in Nat /\ After \in Nat /\ HashLen \in Nat
        /\ ScriptLen = Before + HashLen + After
    BY BytesAre, OutputSizes DEF HeadLen
  <2>2. /\ ~(Len(input) < head) /\ ~(Len(input) < head + ScriptLen)
        /\ Outputs!ReadU16(input, head - 2) = ScriptLen
        /\ Outputs!Slice(input, head, Before) = OpcodesBefore
        /\ Outputs!Slice(input, head + Before + HashLen, After) = OpcodesAfter
        /\ output = [status |-> "OK",
                     value |-> Outputs!OutputValue(input),
                     token_data |-> input[head - 2],
                     pubkey_hash |-> Outputs!Slice(input, head + Before, HashLen),
                     length |-> head + ScriptLen]
    <3>. HIDE DEF head
    <3>. QED
      BY <2>1, ParsedOutput DEF Outputs!Incomplete, Outputs!RefusedOutput, head
  <2>. HIDE DEF output, v, head
  <2>3. /\ head \in Nat /\ v + 3 = head /\ v + 2 = head - 1 /\ v + 1 = head - 2 /\ v \in Nat
        /\ head + ScriptLen <= Len(input)
    BY <2>1, <2>2
  <2>. DEFINE valueBytes == IF Outputs!Wide(input)
                            THEN Bytes64(Outputs!Range64 - Outputs!OutputValue(input))
                            ELSE Bytes32(Outputs!OutputValue(input))
  <2>4. /\ valueBytes = SubSeq(input, 1, v)
        /\ Outputs!OutputValue(input) \in 0 .. Outputs!Range64 \div 2
    <3>1. v <= Len(input)
      BY <2>1, <2>2
    <3>. QED
      BY <2>1, <3>1, ValueBytes DEF v
  <2>. HIDE DEF valueBytes
  <2>5. Serialized(Outputs!Wide(input), output)
            = valueBytes \o <<input[head - 2]>> \o Bytes16(ScriptLen)
                  \o OpcodesBefore \o Outputs!Slice(input, head + Before, HashLen)
                  \o OpcodesAfter
    BY <2>2 DEF Serialized, valueBytes, ScriptLen
  <2>6. <<input[head - 2]>> = SubSeq(input, v + 1, v + 1)
    <3>1. v + 1 \in 1 .. Len(input) /\ input[v + 1] \in Byte
      BY <2>1, <2>2
    <3>. DEFINE s == SubSeq(input, v + 1, v + 1)
                t == <<input[v + 1]>>
    <3>2. s \in Seq(Byte) /\ Len(s) = 1 /\ s[1] = input[v + 1]
      <4>1. \A i \in v + 1 .. v + 1 : input[i] \in Byte
        BY <2>3, <3>1
      <4>. QED
        BY <2>3, <4>1, SubSeqProperties
    <3>3. t \in Seq(Byte) /\ Len(t) = 1 /\ t[1] = input[v + 1]
      BY <3>1
    <3>. HIDE DEF s, t
    <3>4. \A i \in 1 .. 1 : s[i] = t[i]
      BY <3>2, <3>3
    <3>5. s = t
      BY <3>2, <3>3, <3>4, SeqEqual
    <3>. QED
      BY <2>3, <3>5 DEF s, t
  <2>7. Bytes16(ScriptLen) = SubSeq(input, v + 2, head)
    <3>1. /\ head - 2 \in Nat /\ head - 2 + 2 <= Len(input)
          /\ head - 2 + 1 = v + 2 /\ head - 2 + 2 = head
      BY <2>1, <2>2
    <3>. QED
      BY <2>1, <2>2, <3>1, Bytes16Are
  <2>8. valueBytes \o <<input[head - 2]>> = SubSeq(input, 1, v + 1)
    <3>1. v + 1 <= Len(input) /\ v \in Nat /\ v + 1 \in Nat /\ 1 <= v + 1 /\ v <= v + 1
      BY <2>1, <2>2
    <3>. QED
      BY <2>1, <2>4, <2>6, <3>1, Adjacent
  <2>9. SubSeq(input, 1, v + 1) \o SubSeq(input, v + 2, head) = SubSeq(input, 1, head)
    <3>1. /\ v + 1 \in Nat /\ v + 1 + 1 = v + 2 /\ 1 <= v + 1 + 1 /\ v + 1 <= head
          /\ head <= Len(input)
      BY <2>1, <2>2
    <3>. QED
      BY <2>1, <2>3, <3>1, Adjacent
  <2>10. ASSUME NEW from \in Nat, NEW n \in Nat, from + n <= Len(input)
         PROVE  SubSeq(input, 1, from) \o Outputs!Slice(input, from, n)
                    = SubSeq(input, 1, from + n)
    <3>1. 1 <= from + 1 /\ from <= from + n /\ from + n \in Nat
      BY <2>10
    <3>. QED
      BY <2>1, <2>10, <3>1, Adjacent DEF Outputs!Slice
  <2>11. /\ SubSeq(input, 1, head) \o OpcodesBefore = SubSeq(input, 1, head + Before)
         /\ SubSeq(input, 1, head + Before) \o Outputs!Slice(input, head + Before, HashLen)
              = SubSeq(input, 1, head + Before + HashLen)
         /\ SubSeq(input, 1, head + Before + HashLen) \o OpcodesAfter
              = SubSeq(input, 1, head + Before + HashLen + After)
    <3>1. /\ head + Before \in Nat /\ head + Before <= Len(input)
          /\ head + Before + HashLen \in Nat /\ head + Before + HashLen <= Len(input)
          /\ head + Before + HashLen + After <= Len(input)
      BY <2>1, <2>3
    <3>. QED
      BY <2>1, <2>2, <2>3, <2>10, <3>1
  <2>12. head + Before + HashLen + After = head + ScriptLen
    BY <2>1, <2>3
  <2>13. Serialized(Outputs!Wide(input), output) = SubSeq(input, 1, head + ScriptLen)
    BY <2>5, <2>7, <2>8, <2>9, <2>11, <2>12
  <2>. QED
    BY <2>2, <2>4, <2>13 DEF output
<1>2. Spec => []ParsedIsSerialized
  BY <1>1, Inputs, PTL
<1>. QED
  BY <1>1, <1>2

-----------------------------------------------------------------------------
(* The text of an address. *)

LEMMA PowersOf58 ==
    ASSUME NEW x, Powers(58, x), NEW k \in Nat
    PROVE  /\ x[k + 11] = 24986644000165537792 * x[k]
           /\ x[k + 41] = 1997780345172892375330725783093369924213244995756536599688778102926737408 * x[k]
<1>1. ASSUME NEW j \in Nat
      PROVE  x[j] \in Nat /\ x[j + 1] = 58 * x[j]
  BY DEF Powers
<1>2. ASSUME NEW j \in Nat
      PROVE  x[j + 5] = 656356768 * x[j]
  <2>1. /\ (j + 1) + 1 = j + 2 /\ (j + 2) + 1 = j + 3 /\ (j + 3) + 1 = j + 4 /\ (j + 4) + 1 = j + 5
        /\ j + 1 \in Nat /\ j + 2 \in Nat /\ j + 3 \in Nat /\ j + 4 \in Nat
    OBVIOUS
  <2>2. x[j + 2] = 58 * x[j + 1] /\ x[j + 3] = 58 * x[j + 2] /\ x[j + 1] \in Nat
    BY <1>1, <2>1
  <2>3. x[j + 4] = 58 * x[j + 3] /\ x[j + 5] = 58 * x[j + 4] /\ x[j + 3] \in Nat
    BY <1>1, <2>1
  <2>4. x[j + 1] = 58 * x[j] /\ x[j] \in Nat
    BY <1>1
  <2>. QED
    BY <2>2, <2>3, <2>4
<1>3. ASSUME NEW j \in Nat
      PROVE  x[j + 10] = 430804206899405824 * x[j]
  <2>1. j + 5 \in Nat /\ (j + 5) + 5 = j + 10
    OBVIOUS
  <2>2. x[j + 10] = 656356768 * x[j + 5] /\ x[j + 5] = 656356768 * x[j] /\ x[j] \in Nat
    BY <1>1, <1>2, <2>1
  <2>. QED
    BY <2>2
<1>4. ASSUME NEW j \in Nat
      PROVE  x[j + 20] = 185592264682226060569122324245118976 * x[j]
  <2>1. j + 10 \in Nat /\ (j + 10) + 10 = j + 20
    OBVIOUS
  <2>2. x[j + 20] = 430804206899405824 * x[j + 10] /\ x[j + 10] = 430804206899405824 * x[j] /\ x[j] \in Nat
    BY <1>1, <1>3, <2>1
  <2>. QED
    BY <2>2
<1>5. x[k + 11] = 24986644000165537792 * x[k]
  <2>1. k + 10 \in Nat /\ (k + 10) + 1 = k + 11
    OBVIOUS
  <2>2. x[k + 11] = 58 * x[k + 10] /\ x[k + 10] = 430804206899405824 * x[k] /\ x[k] \in Nat
    BY <1>1, <1>3, <2>1
  <2>. QED
    BY <2>2
<1>6. x[k + 41] = 1997780345172892375330725783093369924213244995756536599688778102926737408 * x[k]
  <2>1. k + 20 \in Nat /\ (k + 20) + 20 = k + 40 /\ k + 40 \in Nat /\ (k + 40) + 1 = k + 41
    OBVIOUS
  <2>2. /\ x[k + 40] = 185592264682226060569122324245118976 * x[k + 20] /\ x[k + 20] = 185592264682226060569122324245118976 * x[k]
        /\ x[k + 41] = 58 * x[k + 40] /\ x[k] \in Nat
    BY <1>1, <1>4, <2>1
  <2>. QED
    BY <2>2
<1>. QED
  BY <1>5, <1>6

LEMMA PowersOf256 ==
    ASSUME NEW x, Powers(256, x), NEW k \in Nat
    PROVE  /\ x[k + 8] = 18446744073709551616 * x[k]
           /\ x[k + 30] = 1766847064778384329583297500742918515827483896875618958121606201292619776 * x[k]
<1>1. ASSUME NEW j \in Nat
      PROVE  x[j] \in Nat /\ x[j + 1] = 256 * x[j]
  BY DEF Powers
<1>2. ASSUME NEW j \in Nat
      PROVE  x[j + 2] = 65536 * x[j] /\ x[j + 4] = 4294967296 * x[j]
  <2>1. /\ (j + 1) + 1 = j + 2 /\ (j + 2) + 1 = j + 3 /\ (j + 3) + 1 = j + 4
        /\ j + 1 \in Nat /\ j + 2 \in Nat /\ j + 3 \in Nat
    OBVIOUS
  <2>2. x[j + 2] = 256 * x[j + 1] /\ x[j + 1] = 256 * x[j] /\ x[j] \in Nat
    BY <1>1, <2>1
  <2>3. x[j + 4] = 256 * x[j + 3] /\ x[j + 3] = 256 * x[j + 2]
    BY <1>1, <2>1
  <2>. QED
    BY <2>2, <2>3
<1>3. ASSUME NEW j \in Nat
      PROVE  x[j + 8] = 18446744073709551616 * x[j]
  <2>1. j + 4 \in Nat /\ (j + 4) + 4 = j + 8
    OBVIOUS
  <2>2. x[j + 8] = 4294967296 * x[j + 4] /\ x[j + 4] = 4294967296 * x[j] /\ x[j] \in Nat
    BY <1>1, <1>2, <2>1
  <2>. QED
    BY <2>2
<1>4. x[k + 30] = 1766847064778384329583297500742918515827483896875618958121606201292619776 * x[k]
  <2>1. /\ k + 8 \in Nat /\ k + 16 \in Nat /\ k + 24 \in Nat /\ k + 28 \in Nat
        /\ (k + 8) + 8 = k + 16 /\ (k + 16) + 8 = k + 24 /\ (k + 24) + 4 = k + 28
        /\ (k + 28) + 2 = k + 30
    OBVIOUS
  <2>2. /\ x[k + 8] = 18446744073709551616 * x[k] /\ x[k + 16] = 18446744073709551616 * x[k + 8] /\ x[k + 24] = 18446744073709551616 * x[k + 16]
        /\ x[k] \in Nat
    BY <1>1, <1>3, <2>1
  <2>3. x[k + 28] = 4294967296 * x[k + 24] /\ x[k + 30] = 65536 * x[k + 28]
    BY <1>2, <2>1
  <2>. QED
    BY <2>2, <2>3
<1>. QED
  BY <1>3, <1>4

\* The array of base58_encode has room for every number of so many bytes, at every
\* byte: 256^8 is less than 58^11, and 138 / 100 of 8 is 11.
LEMMA Capacity ==
    ASSUME NEW x, Powers(58, x), NEW y, Powers(256, y), NEW n \in Nat
    PROVE  y[n] <= x[Addresses!OutputSize(n)]
<1>. DEFINE Size(k) == (k * 138) \div 100 + 1
            Over == {k \in Nat : ~(y[k] <= x[Size(k)])}
<1>1. ASSUME NEW k \in 0 .. 7
      PROVE  y[k] <= x[Size(k)]
  <2>1. /\ x[0] = 1 /\ x[0 + 1] = x[0] * 58 /\ x[1 + 1] = x[1] * 58 /\ x[2 + 1] = x[2] * 58
        /\ x[3 + 1] = x[3] * 58 /\ x[4 + 1] = x[4] * 58 /\ x[5 + 1] = x[5] * 58
        /\ x[6 + 1] = x[6] * 58 /\ x[7 + 1] = x[7] * 58 /\ x[8 + 1] = x[8] * 58
        /\ x[9 + 1] = x[9] * 58
    BY DEF Powers
  <2>2. /\ y[0] = 1 /\ y[0 + 1] = y[0] * 256 /\ y[1 + 1] = y[1] * 256 /\ y[2 + 1] = y[2] * 256
        /\ y[3 + 1] = y[3] * 256 /\ y[4 + 1] = y[4] * 256 /\ y[5 + 1] = y[5] * 256
        /\ y[6 + 1] = y[6] * 256
    BY DEF Powers
  <2>3. /\ Size(0) = 1 /\ Size(1) = 2 /\ Size(2) = 3 /\ Size(3) = 5
        /\ Size(4) = 6 /\ Size(5) = 7 /\ Size(6) = 9 /\ Size(7) = 10
    OBVIOUS
  <2>4. /\ x[1] = 58 /\ x[2] = 3364 /\ x[3] = 195112 /\ x[4] = 11316496 /\ x[5] = 656356768 /\ x[6] = 38068692544
        /\ x[7] = 2207984167552 /\ x[8] = 128063081718016 /\ x[9] = 7427658739644928 /\ x[10] = 430804206899405824
    BY <2>1
  <2>5. /\ y[1] = 256 /\ y[2] = 65536 /\ y[3] = 16777216 /\ y[4] = 4294967296 /\ y[5] = 1099511627776 /\ y[6] = 281474976710656
        /\ y[7] = 72057594037927936
    BY <2>2
  <2>6. k \in {0, 1, 2, 3, 4, 5, 6, 7}
    OBVIOUS
  <2>. HIDE DEF Size
  <2>. QED
    BY <2>2, <2>3, <2>4, <2>5, <2>6
<1>2. ASSUME NEW k \in Over, \A j \in Over : k <= j
      PROVE  FALSE
  <2>1. k \in Nat /\ ~(y[k] <= x[Size(k)])
    OBVIOUS
  <2>2. k >= 8
    BY <1>1, <2>1
  <2>. DEFINE j == k - 8
  <2>3. j \in Nat /\ j + 8 = k /\ j < k
    BY <2>1, <2>2
  <2>4. Size(j) \in Nat /\ (Size(k) = Size(j) + 11 \/ Size(k) = Size(j) + 12)
    BY <2>3
  <2>. HIDE DEF Size, j
  <2>5. y[j] <= x[Size(j)]
    BY <1>2, <2>3
  <2>6. y[k] = 18446744073709551616 * y[j] /\ x[Size(j) + 11] = 24986644000165537792 * x[Size(j)]
    BY <2>3, <2>4, PowersOf58, PowersOf256
  <2>7. /\ y[j] \in Nat /\ x[Size(j)] \in Nat /\ x[Size(j) + 11] \in Nat
        /\ x[(Size(j) + 11) + 1] = x[Size(j) + 11] * 58
    BY <2>3, <2>4 DEF Powers
  <2>8. Size(j) + 12 = (Size(j) + 11) + 1
    BY <2>4
  <2>9. y[k] <= x[Size(j) + 11]
    BY <2>5, <2>6, <2>7
  <2>10. x[Size(j) + 11] <= x[Size(k)]
    BY <2>4, <2>7, <2>8
  <2>11. y[k] \in Nat /\ x[Size(k)] \in Nat
    BY <2>1, <2>4 DEF Powers
  <2>. QED
    BY <2>1, <2>7, <2>9, <2>10, <2>11
<1>3. Over = {}
  <2>1. Over \subseteq Nat
    OBVIOUS
  <2>. HIDE DEF Over
  <2>. QED
    BY <1>2, <2>1, LeastNumber
<1>4. Addresses!OutputSize(n) = Size(n)
  BY DEF Addresses!OutputSize
<1>. HIDE DEF Size
<1>. QED
  BY <1>3, <1>4

\* The text of 120 bytes has at most 164 characters.
LEMMA TextRoom ==
    ASSUME NEW x, Powers(58, x), NEW y, Powers(256, y), NEW n \in 0 .. 120
    PROVE  y[n] <= x[n + 44]
<1>1. /\ x[0] = 1 /\ x[41] = 1997780345172892375330725783093369924213244995756536599688778102926737408 * x[0] /\ x[82] = 1997780345172892375330725783093369924213244995756536599688778102926737408 * x[41]
      /\ x[123] = 1997780345172892375330725783093369924213244995756536599688778102926737408 * x[82] /\ x[164] = 1997780345172892375330725783093369924213244995756536599688778102926737408 * x[123]
  <2>1. x[0] = 1
    BY DEF Powers
  <2>2. 0 + 41 = 41 /\ 41 + 41 = 82 /\ 82 + 41 = 123 /\ 123 + 41 = 164
    OBVIOUS
  <2>3. \A k \in Nat : x[k + 41] = 1997780345172892375330725783093369924213244995756536599688778102926737408 * x[k]
    BY PowersOf58
  <2>. QED
    BY <2>1, <2>2, <2>3
<1>2. /\ y[0] = 1 /\ y[30] = 1766847064778384329583297500742918515827483896875618958121606201292619776 * y[0] /\ y[60] = 1766847064778384329583297500742918515827483896875618958121606201292619776 * y[30]
      /\ y[90] = 1766847064778384329583297500742918515827483896875618958121606201292619776 * y[60] /\ y[120] = 1766847064778384329583297500742918515827483896875618958121606201292619776 * y[90]
  <2>1. y[0] = 1
    BY DEF Powers
  <2>2. 0 + 30 = 30 /\ 30 + 30 = 60 /\ 60 + 30 = 90 /\ 90 + 30 = 120
    OBVIOUS
  <2>3. \A k \in Nat : y[k + 30] = 1766847064778384329583297500742918515827483896875618958121606201292619776 * y[k]
    BY PowersOf256
  <2>. QED
    BY <2>1, <2>2, <2>3
<1>3. \A k \in Nat : x[k] \in Nat /\ y[k] \in Nat
  BY DEF Powers
<1>4. y[120] <= x[164]
  <2>1. x[41] \in Nat /\ x[82] \in Nat /\ x[123] \in Nat /\ y[30] \in Nat /\ y[60] \in Nat /\ y[90] \in Nat
    BY <1>3
  <2>2. y[30] <= x[41]
    BY <1>1, <1>2
  <2>3. y[60] <= x[82]
    BY <1>1, <1>2, <2>1, <2>2
  <2>4. y[90] <= x[123]
    BY <1>1, <1>2, <2>1, <2>3
  <2>. QED
    BY <1>1, <1>2, <2>1, <2>4
<1>. DEFINE Fits == {i \in 0 .. 120 : y[120 - i] <= x[(120 - i) + 44]}
<1>5. 0 \in Fits
  <2>1. 0 \in 0 .. 120 /\ 120 - 0 = 120 /\ (120 - 0) + 44 = 164
    OBVIOUS
  <2>. QED
    BY <1>4, <2>1
<1>6. ASSUME NEW i \in 0 .. 120 - 1, i \in Fits
      PROVE  i + 1 \in Fits
  <2>. DEFINE k == 120 - (i + 1)
  <2>1. k \in Nat /\ 120 - i = k + 1 /\ (120 - i) + 44 = (k + 44) + 1 /\ k + 44 \in Nat
    OBVIOUS
  <2>2. i + 1 \in 0 .. 120
    OBVIOUS
  <2>3. y[120 - i] <= x[(120 - i) + 44]
    BY <1>6
  <2>. HIDE DEF k
  <2>4. y[k + 1] <= x[(k + 44) + 1]
    BY <2>1, <2>3
  <2>5. y[k + 1] = y[k] * 256 /\ x[(k + 44) + 1] = x[k + 44] * 58
    BY <2>1 DEF Powers
  <2>6. y[k] \in Nat /\ x[k + 44] \in Nat
    BY <1>3, <2>1
  <2>7. y[k] <= x[k + 44]
    BY <2>4, <2>5, <2>6
  <2>. QED
    BY <2>2, <2>7 DEF k
<1>7. \A i \in 0 .. 120 : i \in Fits
  <2>. HIDE DEF Fits
  <2>1. 120 \in Nat
    OBVIOUS
  <2>. QED
    BY <1>5, <1>6, <2>1, NumbersUpTo
<1>8. 120 - n \in 0 .. 120 /\ 120 - (120 - n) = n
  OBVIOUS
<1>. QED
  BY <1>7, <1>8

\* An address: 25 bytes of which the first one is 40.
LEMMA AddressRoom ==
    ASSUME NEW x, Powers(58, x), NEW y, Powers(256, y)
    PROVE  x[33] <= 40 * y[24] /\ 41 * y[24] <= x[34]
<1>1. /\ x[0] = 1 /\ x[11] = 24986644000165537792 * x[0] /\ x[22] = 24986644000165537792 * x[11] /\ x[33] = 24986644000165537792 * x[22]
      /\ x[34] = x[33] * 58
  <2>1. x[0] = 1 /\ x[33 + 1] = x[33] * 58
    BY DEF Powers
  <2>2. 0 + 11 = 11 /\ 11 + 11 = 22 /\ 22 + 11 = 33 /\ 33 + 1 = 34
    OBVIOUS
  <2>3. \A k \in Nat : x[k + 11] = 24986644000165537792 * x[k]
    BY PowersOf58
  <2>. QED
    BY <2>1, <2>2, <2>3
<1>2. y[0] = 1 /\ y[8] = 18446744073709551616 * y[0] /\ y[16] = 18446744073709551616 * y[8] /\ y[24] = 18446744073709551616 * y[16]
  <2>1. y[0] = 1
    BY DEF Powers
  <2>2. 0 + 8 = 8 /\ 8 + 8 = 16 /\ 16 + 8 = 24
    OBVIOUS
  <2>3. \A k \in Nat : y[k + 8] = 18446744073709551616 * y[k]
    BY PowersOf256
  <2>. QED
    BY <2>1, <2>2, <2>3
<1>. QED
  BY <1>1, <1>2

LEMMA DenotesIs ==
    ASSUME NEW base \in Nat, NEW digits \in Seq(Nat)
    PROVE  \E f : /\ Numbers(digits, base, Len(digits), f)
                  /\ Denotes(digits, base) = f[Len(digits)]
<1>. DEFINE n == Len(digits)
            Turn(k, v) == v * base + digits[k]
            next == [k \in 1 .. n |-> [v \in Nat |-> Turn(k, v)]]
            IsNumber(f) == f = [k \in 0 .. n |-> IF k = 0 THEN 0 ELSE Turn(k, f[k - 1])]
            number == CHOOSE f : IsNumber(f)
<1>1. n \in Nat /\ \A k \in 1 .. n : digits[k] \in Nat
  BY LenProperties
<1>2. Denotes(digits, base) = number[n]
  BY DEF Denotes
<1>. HIDE DEF n
<1>3. \A k \in 1 .. n, v \in Nat : Turn(k, v) \in Nat
  BY <1>1
<1>4. Turning(Nat, n, next) /\ \A k \in 1 .. n, v \in Nat : next[k][v] = Turn(k, v)
  BY <1>3 DEF Turning
<1>. HIDE DEF next, Turn
<1>5. PICK f : AfterTurns(Nat, n, 0, next, f)
  BY <1>1, <1>4, LoopExists
<1>6. \A k \in 0 .. n : k # 0 => k \in 1 .. n /\ k - 1 \in 0 .. n
  BY <1>1
<1>7. IsNumber(f)
  <2>1. \A k \in 0 .. n : f[k] = IF k = 0 THEN 0 ELSE Turn(k, f[k - 1])
    BY <1>4, <1>5, <1>6 DEF AfterTurns
  <2>. QED
    BY <1>5, <2>1 DEF AfterTurns
<1>8. number = CHOOSE g : IsNumber(g)
  OBVIOUS
<1>. HIDE DEF number
<1>9. IsNumber(number)
  <2>. HIDE DEF IsNumber
  <2>. QED
    BY <1>7, <1>8
<1>10. 0 \in 0 .. n /\ \A k \in 1 .. n : k \in 0 .. n /\ k # 0 /\ k - 1 \in 0 .. n
  BY <1>1
<1>11. number[0] = 0 /\ \A k \in 1 .. n : number[k] = Turn(k, number[k - 1])
  BY <1>9, <1>10
<1>12. number = [k \in 0 .. n |-> number[k]]
  BY <1>9, <1>10
<1>. HIDE DEF IsNumber
<1>. DEFINE Done == {k \in 0 .. n : number[k] \in Nat}
<1>13. 0 \in Done
  BY <1>10, <1>11
<1>14. ASSUME NEW k \in 0 .. n - 1, k \in Done
       PROVE  k + 1 \in Done
  <2>1. k + 1 \in 1 .. n /\ k + 1 \in 0 .. n /\ k + 1 - 1 = k
    BY <1>1
  <2>2. number[k + 1] = Turn(k + 1, number[k])
    BY <1>11, <2>1
  <2>. QED
    BY <1>3, <1>14, <2>1, <2>2
<1>15. \A k \in 0 .. n : k \in Done
  <2>. HIDE DEF Done
  <2>. QED
    BY <1>1, <1>13, <1>14, NumbersUpTo
<1>16. number \in [0 .. n -> Nat]
  BY <1>12, <1>15
<1>17. Numbers(digits, base, n, number)
  BY <1>11, <1>16 DEF Numbers, Appends, Turn
<1>. QED
  BY <1>2, <1>17 DEF n

-----------------------------------------------------------------------------
(* base58_encode *)

Digit58 == 0 .. 57
Byte256 == 0 .. 255

\* A digit of base 58, while a byte is added.
AddStates(n) == [buffer : [1 .. n -> Digit58], carry : Nat, stop_at : Nat, done : BOOLEAN]

LEMMA Digit58Of ==
    ASSUME NEW sum \in Nat
    PROVE  sum \div 58 \in Nat /\ sum % 58 \in 0 .. 57 /\ 58 * (sum \div 58) + (sum % 58) = sum
<1>1. sum \div 58 \in Nat /\ sum % 58 \in 0 .. 57
  OBVIOUS
<1>2. 58 * (sum \div 58) + (sum % 58) = sum
  OBVIOUS
<1>. QED
  BY <1>1, <1>2

\* What a turn at digit j has done, if the loop had not ended.
DigitAdded(new, at, n, j, stop_at) ==
    /\ new \in AddStates(n)
    /\ at.done => new = at
    /\ ~at.done =>
          /\ new.carry \in Nat /\ 58 * new.carry + new.buffer[j] = at.carry + 256 * at.buffer[j]
          /\ \A i \in 1 .. n : i # j => new.buffer[i] = at.buffer[i]
          /\ new.done <=> Addresses!Above(j, stop_at) /\ new.carry = 0
          /\ new.done => new.stop_at = j

LEMMA AddDigitIs ==
    ASSUME NEW n \in Nat, NEW at \in AddStates(n), NEW j \in 1 .. n, NEW stop_at
    PROVE  DigitAdded(Addresses!AddDigit(at, j, stop_at), at, n, j, stop_at)
<1>. DEFINE new == Addresses!AddDigit(at, j, stop_at)
            sum == at.carry + 256 * at.buffer[j]
            done == Addresses!Above(j, stop_at) /\ sum \div 58 = 0
            moved == [buffer |-> [at.buffer EXCEPT ![j] = sum % 58],
                      carry |-> sum \div 58,
                      stop_at |-> IF done THEN j ELSE 0,
                      done |-> done]
<1>1. new = IF at.done THEN at ELSE moved
  BY DEF Addresses!AddDigit
<1>2. /\ at.buffer \in [1 .. n -> Digit58] /\ at.carry \in Nat /\ at.buffer[j] \in 0 .. 57
      /\ at.done \in BOOLEAN
  BY DEF AddStates, Digit58
<1>3. sum \in Nat
  <2>. DEFINE digit == at.buffer[j]
              carry == at.carry
  <2>1. digit \in 0 .. 57 /\ carry \in Nat
    BY <1>2
  <2>. HIDE DEF digit, carry
  <2>2. carry + 256 * digit \in Nat
    BY <2>1
  <2>. QED
    BY <2>2 DEF digit, carry
<1>. HIDE DEF sum
<1>4. sum \div 58 \in Nat /\ sum % 58 \in 0 .. 57 /\ 58 * (sum \div 58) + (sum % 58) = sum
  BY <1>3, Digit58Of
<1>5. done \in BOOLEAN /\ (done <=> Addresses!Above(j, stop_at) /\ sum \div 58 = 0)
  BY DEF Addresses!Above
<1>. DEFINE quotient == sum \div 58
            rest == sum % 58
            buffer == [at.buffer EXCEPT ![j] = rest]
            stopped == IF done THEN j ELSE 0
<1>6. moved = [buffer |-> buffer, carry |-> quotient, stop_at |-> stopped, done |-> done]
  OBVIOUS
<1>7. rest \in Digit58
  BY <1>4 DEF Digit58
<1>8. 58 * quotient + rest = sum /\ quotient \in Nat
  BY <1>4
<1>9. stopped \in Nat /\ (done => stopped = j)
  OBVIOUS
<1>10. done <=> Addresses!Above(j, stop_at) /\ quotient = 0
  BY <1>5
<1>. HIDE DEF done, quotient, rest, stopped
<1>11. /\ buffer \in [1 .. n -> Digit58] /\ buffer[j] = rest
       /\ \A i \in 1 .. n : i # j => buffer[i] = at.buffer[i]
  BY <1>2, <1>7
<1>. HIDE DEF buffer, moved
<1>12. /\ moved.buffer = buffer /\ moved.carry = quotient /\ moved.stop_at = stopped
       /\ moved.done = done
  BY <1>6
<1>13. moved \in AddStates(n)
  BY <1>5, <1>6, <1>8, <1>9, <1>11 DEF AddStates
<1>14. ASSUME ~at.done
       PROVE  /\ new.carry \in Nat /\ 58 * new.carry + new.buffer[j] = sum
              /\ \A i \in 1 .. n : i # j => new.buffer[i] = at.buffer[i]
              /\ new.done <=> Addresses!Above(j, stop_at) /\ new.carry = 0
              /\ new.done => new.stop_at = j
  <2>1. new = moved
    BY <1>1, <1>14
  <2>. HIDE DEF new
  <2>. QED
    BY <1>8, <1>9, <1>10, <1>11, <1>12, <2>1
<1>15. new \in AddStates(n) /\ (at.done => new = at)
  BY <1>1, <1>13
<1>. QED
  BY <1>14, <1>15 DEF sum, DigitAdded

\* The state after each digit.
LEMMA AddingAre ==
    ASSUME NEW n \in Nat, NEW buffer \in [1 .. n -> Digit58], NEW stop_at, NEW byte \in Byte256
    PROVE  LET at == Addresses!Adding(buffer, stop_at, byte)
           IN  /\ at[0] = [buffer |-> buffer, carry |-> byte, stop_at |-> 0, done |-> FALSE]
               /\ \A k \in 0 .. n : at[k] \in AddStates(n)
               /\ \A k \in 1 .. n :
                     at[k] = Addresses!AddDigit(at[k - 1], n + 1 - k, stop_at)
<1>. DEFINE size == Len(buffer)
            begin == [buffer |-> buffer, carry |-> byte, stop_at |-> 0, done |-> FALSE]
            Turn(k, at) == Addresses!AddDigit(at, n + 1 - k, stop_at)
            States == AddStates(n)
            next == [k \in 1 .. n |-> [at \in States |-> Turn(k, at)]]
            IsAdding(f) == f = [k \in 0 .. n |-> IF k = 0 THEN begin ELSE Turn(k, f[k - 1])]
            adding == Addresses!Adding(buffer, stop_at, byte)
<1>1. Len(buffer) = n
  BY LenProperties
<1>2. begin \in States
  BY DEF AddStates, Byte256
<1>3. \A k \in 1 .. n, at \in States : Turn(k, at) \in States
  <2>1. \A k \in 1 .. n : n + 1 - k \in 1 .. n
    OBVIOUS
  <2>. QED
    BY <2>1, AddDigitIs DEF DigitAdded
<1>4. adding = CHOOSE f : IsAdding(f)
  BY <1>1 DEF Addresses!Adding
<1>5. Turning(States, n, next)
  BY <1>3 DEF Turning
<1>6. \A k \in 1 .. n, at \in States : next[k][at] = Turn(k, at)
  OBVIOUS
<1>. HIDE DEF next, Turn, begin, adding, States
<1>7. PICK f : AfterTurns(States, n, begin, next, f)
  BY <1>2, <1>5, LoopExists
<1>8. \A k \in 0 .. n : k # 0 => k \in 1 .. n /\ k - 1 \in 0 .. n
  OBVIOUS
<1>9. IsAdding(f)
  <2>1. \A k \in 0 .. n : f[k] = IF k = 0 THEN begin ELSE Turn(k, f[k - 1])
    BY <1>6, <1>7, <1>8 DEF AfterTurns
  <2>. QED
    BY <1>7, <2>1 DEF AfterTurns
<1>10. IsAdding(adding)
  <2>. HIDE DEF IsAdding
  <2>. QED
    BY <1>4, <1>9
<1>11. 0 \in 0 .. n /\ \A k \in 1 .. n : k \in 0 .. n /\ k # 0
  OBVIOUS
<1>12. adding[0] = begin /\ \A k \in 1 .. n : adding[k] = Turn(k, adding[k - 1])
  BY <1>10, <1>11
<1>. DEFINE Done == {k \in 0 .. n : adding[k] \in States}
<1>. HIDE DEF IsAdding
<1>13. 0 \in Done
  BY <1>2, <1>11, <1>12
<1>14. ASSUME NEW k \in 0 .. n - 1, k \in Done
       PROVE  k + 1 \in Done
  <2>1. k + 1 \in 1 .. n /\ k + 1 \in 0 .. n /\ k + 1 - 1 = k
    OBVIOUS
  <2>2. adding[k + 1] = Turn(k + 1, adding[k])
    BY <1>12, <2>1
  <2>. QED
    BY <1>3, <1>14, <2>1, <2>2
<1>15. \A k \in 0 .. n : k \in Done
  <2>. HIDE DEF Done
  <2>. QED
    BY <1>13, <1>14, NumbersUpTo
<1>. QED
  BY <1>12, <1>15 DEF Turn, begin, adding, States

\* What holds after k digits of an addition: c[i] was carried to digit i.
AddInv(n, d, stop, at, c, k) ==
    /\ \A i \in 1 .. n - k : at.buffer[i] = d[i]
    /\ \A i \in n - k + 1 .. n : 58 * c[i - 1] + at.buffer[i] = c[i] + 256 * d[i]
    /\ at.done => /\ at.carry = 0
                  /\ at.stop_at \in 1 .. stop - 1 /\ at.stop_at >= n - k + 1
                  /\ \A i \in 1 .. at.stop_at - 1 : at.buffer[i] = 0

LEMMA AddInvHolds ==
    ASSUME NEW n \in Nat, NEW d \in [1 .. n -> Digit58], NEW byte \in Byte256,
           NEW stop \in 2 .. n, \A i \in 1 .. stop - 1 : d[i] = 0,
           NEW at, at = Addresses!Adding(d, stop, byte),
           NEW c, c = [i \in 0 .. n |-> at[n - i].carry],
           NEW k \in 0 .. n
    PROVE  AddInv(n, d, stop, at[k], c, k)
<1>1. /\ at[0] = [buffer |-> d, carry |-> byte, stop_at |-> 0, done |-> FALSE]
      /\ \A i \in 0 .. n : at[i] \in AddStates(n)
      /\ \A i \in 1 .. n : at[i] = Addresses!AddDigit(at[i - 1], n + 1 - i, stop)
  BY AddingAre, ZenonT(60)
<1>. DEFINE Holds == {i \in 0 .. n : AddInv(n, d, stop, at[i], c, i)}
<1>2. 0 \in Holds
  <2>1. at[0].buffer = d /\ ~at[0].done
    BY <1>1
  <2>2. 0 \in 0 .. n /\ \A i : i \notin n - 0 + 1 .. n
    OBVIOUS
  <2>3. AddInv(n, d, stop, at[0], c, 0)
    BY <2>1, <2>2 DEF AddInv
  <2>. QED
    BY <2>2, <2>3
<1>3. ASSUME NEW i \in 0 .. n - 1, i \in Holds
      PROVE  i + 1 \in Holds
  <2>. DEFINE s == at[i]
              t == at[i + 1]
              j == n - i
  <2>1. /\ i + 1 \in 1 .. n /\ i + 1 \in 0 .. n /\ i \in 0 .. n /\ (i + 1) - 1 = i
        /\ n + 1 - (i + 1) = j /\ j \in 1 .. n /\ j \in 0 .. n /\ j - 1 \in 0 .. n
        /\ n - j = i /\ n - (j - 1) = i + 1
    OBVIOUS
  <2>2. s \in AddStates(n) /\ t \in AddStates(n) /\ t = Addresses!AddDigit(s, j, stop)
    BY <1>1, <2>1
  <2>3. c[j] = s.carry /\ c[j - 1] = t.carry
    BY <2>1
  <2>4. /\ \A m \in 1 .. j : s.buffer[m] = d[m]
        /\ \A m \in j + 1 .. n : 58 * c[m - 1] + s.buffer[m] = c[m] + 256 * d[m]
        /\ s.done => /\ s.carry = 0
                     /\ s.stop_at \in 1 .. stop - 1 /\ s.stop_at >= j + 1
                     /\ \A m \in 1 .. s.stop_at - 1 : s.buffer[m] = 0
    BY <1>3 DEF AddInv
  <2>5. /\ s.done => t = s
        /\ ~s.done => /\ t.carry \in Nat /\ 58 * t.carry + t.buffer[j] = s.carry + 256 * s.buffer[j]
                      /\ \A m \in 1 .. n : m # j => t.buffer[m] = s.buffer[m]
                      /\ t.done <=> Addresses!Above(j, stop) /\ t.carry = 0
                      /\ t.done => t.stop_at = j
    <3>. HIDE DEF s, t, j
    <3>1. j \in 1 .. n
      BY <2>1
    <3>. QED
      <4>1. DigitAdded(t, s, n, j, stop)
        BY <2>2, <3>1, AddDigitIs
      <4>. QED
        BY <4>1 DEF DigitAdded
  <2>6. /\ n - (i + 1) = j - 1 /\ n - (i + 1) + 1 = j /\ j \in Nat
    BY <2>1
  <2>. HIDE DEF s, t, j
  <2>7. CASE s.done
    <3>1. t = s /\ s.carry = 0 /\ s.stop_at \in 1 .. stop - 1 /\ s.stop_at >= j + 1
      BY <2>4, <2>5, <2>7
    <3>2. \A m \in 1 .. s.stop_at - 1 : s.buffer[m] = 0
      BY <2>4, <2>7
    <3>3. j \in 1 .. s.stop_at - 1 /\ j \in 1 .. stop - 1
      BY <2>1, <3>1
    <3>4. s.buffer[j] = 0 /\ d[j] = 0 /\ c[j] = 0 /\ c[j - 1] = 0
      BY <2>3, <3>1, <3>2, <3>3
    <3>5. 58 * c[j - 1] + s.buffer[j] = c[j] + 256 * d[j]
      BY <3>4
    <3>6. \A m \in j .. n : m = j \/ m \in j + 1 .. n
      BY <2>6
    <3>7. \A m \in j .. n : 58 * c[m - 1] + s.buffer[m] = c[m] + 256 * d[m]
      BY <2>4, <3>5, <3>6
    <3>8. \A m \in 1 .. j - 1 : m \in 1 .. j
      BY <2>6
    <3>9. s.stop_at >= j
      BY <2>6, <3>1
    <3>10. AddInv(n, d, stop, s, c, i + 1)
      BY <2>4, <2>6, <3>1, <3>2, <3>7, <3>8, <3>9 DEF AddInv
    <3>. QED
      BY <2>1, <3>1, <3>10 DEF t
  <2>8. CASE ~s.done
    <3>1. /\ 58 * t.carry + t.buffer[j] = s.carry + 256 * s.buffer[j]
          /\ \A m \in 1 .. n : m # j => t.buffer[m] = s.buffer[m]
          /\ t.done <=> Addresses!Above(j, stop) /\ t.carry = 0
          /\ t.done => t.stop_at = j
      BY <2>5, <2>8
    <3>2. s.buffer[j] = d[j]
      BY <2>1, <2>4
    <3>3. 58 * c[j - 1] + t.buffer[j] = c[j] + 256 * d[j]
      BY <2>3, <3>1, <3>2
    <3>4. \A m \in j .. n : m = j \/ (m \in j + 1 .. n /\ m \in 1 .. n /\ m # j)
      BY <2>1, <2>6
    <3>5. \A m \in j .. n : 58 * c[m - 1] + t.buffer[m] = c[m] + 256 * d[m]
      <4>. TAKE m \in j .. n
      <4>1. CASE m = j
        BY <3>3, <4>1
      <4>2. CASE m # j
        <5>1. m \in j + 1 .. n /\ m \in 1 .. n
          BY <3>4, <4>2
        <5>2. 58 * c[m - 1] + s.buffer[m] = c[m] + 256 * d[m]
          BY <2>4, <5>1
        <5>3. t.buffer[m] = s.buffer[m]
          BY <3>1, <4>2, <5>1
        <5>. QED
          BY <5>2, <5>3
      <4>. QED
        BY <4>1, <4>2
    <3>6. \A m \in 1 .. j - 1 : m \in 1 .. j /\ m \in 1 .. n /\ m # j
      BY <2>1, <2>6
    <3>7. \A m \in 1 .. j - 1 : t.buffer[m] = d[m]
      BY <2>4, <3>1, <3>6
    <3>8. ASSUME t.done
          PROVE  /\ t.carry = 0 /\ t.stop_at = j /\ j \in 1 .. stop - 1
                 /\ \A m \in 1 .. j - 1 : t.buffer[m] = 0
      <4>1. t.carry = 0 /\ t.stop_at = j /\ Addresses!Above(j, stop)
        BY <3>1, <3>8
      <4>2. j < stop
        BY <4>1 DEF Addresses!Above
      <4>3. j \in 1 .. stop - 1 /\ \A m \in 1 .. j - 1 : m \in 1 .. stop - 1
        BY <2>1, <4>2
      <4>. QED
        BY <3>7, <4>1, <4>3
    <3>9. t.done => /\ t.carry = 0 /\ t.stop_at \in 1 .. stop - 1 /\ t.stop_at >= j
                    /\ \A m \in 1 .. t.stop_at - 1 : t.buffer[m] = 0
      <4>1. j >= j
        BY <2>6
      <4>. QED
        BY <3>8, <4>1
    <3>10. AddInv(n, d, stop, t, c, i + 1)
      BY <2>6, <3>5, <3>7, <3>9 DEF AddInv
    <3>. QED
      BY <2>1, <3>10 DEF t
  <2>. QED
    BY <2>7, <2>8
<1>4. \A i \in 0 .. n : i \in Holds
  <2>. HIDE DEF Holds
  <2>. QED
    BY <1>2, <1>3, NumbersUpTo
<1>. QED
  BY <1>4

\* The array and stop_at after an addition make the number v.
ByteAdded(new, n, first, stop, v) ==
    /\ new.buffer \in [1 .. n -> Digit58]
    /\ new.stop_at \in first .. stop - 1
    /\ \A i \in 1 .. new.stop_at - 1 : new.buffer[i] = 0
    /\ \E g : Numbers(new.buffer, 58, n, g) /\ g[n] = v

\* One byte behind a number: the loop may stop at digit `last', beyond which
\* nothing is carried.
LEMMA AddByteIs ==
    ASSUME NEW n \in Nat, NEW d \in [1 .. n -> Digit58], NEW byte \in Byte256,
           NEW stop \in 2 .. n, \A i \in 1 .. stop - 1 : d[i] = 0,
           NEW f, Numbers(d, 58, n, f), NEW x, Powers(58, x),
           NEW last \in 1 .. stop - 1, f[n] * 256 + byte < x[n + 1 - last]
    PROVE  ByteAdded(Addresses!AddByte([buffer |-> d, stop_at |-> stop], byte),
                     n, last, stop, f[n] * 256 + byte)
<1>. DEFINE new == Addresses!AddByte([buffer |-> d, stop_at |-> stop], byte)
            at == Addresses!Adding(d, stop, byte)
            c == [i \in 0 .. n |-> at[n - i].carry]
            h == [i \in 0 .. n |-> 256 * f[i] + c[i]]
            turns == n + 1 - last
<1>1. new = [buffer |-> at[n].buffer, stop_at |-> at[n].stop_at]
  <2>1. Len(d) = n
    BY LenProperties
  <2>. QED
    BY <2>1 DEF Addresses!AddByte
<1>2. /\ at[0] = [buffer |-> d, carry |-> byte, stop_at |-> 0, done |-> FALSE]
      /\ \A i \in 0 .. n : at[i] \in AddStates(n)
      /\ \A i \in 1 .. n : at[i] = Addresses!AddDigit(at[i - 1], n + 1 - i, stop)
  BY AddingAre
<1>3. \A k \in 0 .. n : AddInv(n, d, stop, at[k], c, k)
  BY AddInvHolds
<1>. HIDE DEF at, new
<1>4. /\ turns \in 1 .. n /\ turns - 1 \in 0 .. n /\ turns \in 0 .. n
      /\ n + 1 - turns = last /\ n - turns = last - 1 /\ last - 1 \in 0 .. n
      /\ n - turns + 1 = last /\ n - (last - 1) = turns
  OBVIOUS
<1>5. c \in [0 .. n -> Nat]
  <2>1. \A i \in 0 .. n : n - i \in 0 .. n
    OBVIOUS
  <2>2. \A i \in 0 .. n : at[i].carry \in Nat
    BY <1>2 DEF AddStates
  <2>. QED
    BY <2>1, <2>2
<1>6. c[0] = at[n].carry /\ c[n] = byte /\ c[last - 1] = at[turns].carry
  <2>1. n - 0 = n /\ n - n = 0 /\ 0 \in 0 .. n /\ n \in 0 .. n
    OBVIOUS
  <2>. QED
    BY <1>2, <1>4, <2>1
<1>. HIDE DEF c
<1>7. f \in [0 .. n -> Nat] /\ f[0] = 0 /\ \A i \in 1 .. n : f[i] = f[i - 1] * 58 + d[i]
  BY DEF Numbers, Appends
<1>8. at[n].buffer \in [1 .. n -> Digit58] /\ at[n].done \in BOOLEAN
  <2>1. n \in 0 .. n
    OBVIOUS
  <2>. QED
    BY <1>2, <2>1 DEF AddStates
<1>9. /\ \A i \in 1 .. n : at[n].buffer[i] \in 0 .. 57 /\ d[i] \in 0 .. 57
      /\ \A i \in 0 .. n : h[i] = 256 * f[i] + c[i] /\ h[i] \in Nat
  <2>1. \A i \in 1 .. n : at[n].buffer[i] \in 0 .. 57 /\ d[i] \in 0 .. 57
    BY <1>8 DEF Digit58
  <2>2. ASSUME NEW i \in 0 .. n
        PROVE  h[i] = 256 * f[i] + c[i] /\ h[i] \in Nat
    <3>1. f[i] \in Nat /\ c[i] \in Nat
      BY <1>5, <1>7
    <3>2. h[i] = 256 * f[i] + c[i]
      OBVIOUS
    <3>3. \A u \in Nat, v \in Nat : 256 * u + v \in Nat
      OBVIOUS
    <3>. HIDE DEF h
    <3>. QED
      BY <3>1, <3>2, <3>3
  <2>. HIDE DEF h
  <2>. QED
    BY <2>1, <2>2
<1>10. Appends(at[n].buffer, 58, n, h)
  <2>1. ASSUME NEW i \in 1 .. n
        PROVE  h[i] = h[i - 1] * 58 + at[n].buffer[i]
    <3>1. i \in 0 .. n /\ i - 1 \in 0 .. n /\ n \in 0 .. n /\ i \in n - n + 1 .. n
      OBVIOUS
    <3>2. 58 * c[i - 1] + at[n].buffer[i] = c[i] + 256 * d[i]
      BY <1>3, <3>1 DEF AddInv
    <3>3. f[i] = f[i - 1] * 58 + d[i]
      BY <1>7
    <3>4. h[i] = 256 * f[i] + c[i] /\ h[i - 1] = 256 * f[i - 1] + c[i - 1]
      BY <1>9, <3>1
    <3>. DEFINE fi == f[i]
                fj == f[i - 1]
                ci == c[i]
                cj == c[i - 1]
                b == at[n].buffer[i]
                di == d[i]
    <3>5. fi \in Nat /\ fj \in Nat /\ ci \in Nat /\ cj \in Nat /\ b \in Nat /\ di \in Nat
      <4>1. f[i] \in Nat /\ f[i - 1] \in Nat /\ c[i] \in Nat /\ c[i - 1] \in Nat
        BY <1>5, <1>7, <3>1
      <4>2. at[n].buffer[i] \in 0 .. 57 /\ d[i] \in 0 .. 57
        BY <1>9
      <4>3. \A v \in 0 .. 57 : v \in Nat
        OBVIOUS
      <4>. QED
        BY <4>1, <4>2, <4>3
    <3>6. 58 * cj + b = ci + 256 * di /\ fi = fj * 58 + di
      BY <3>2, <3>3
    <3>. HIDE DEF fi, fj, ci, cj, b, di
    <3>7. 256 * fi + ci = (256 * fj + cj) * 58 + b
      BY <3>5, <3>6
    <3>. QED
      BY <3>4, <3>7 DEF fi, fj, ci, cj, b, di
  <2>2. h \in [0 .. n -> Nat]
    BY <1>9
  <2>. HIDE DEF h
  <2>. QED
    BY <2>1, <2>2 DEF Appends
<1>. HIDE DEF h
<1>11. h[n] = f[n] * 256 + byte
  <2>1. n \in 0 .. n
    OBVIOUS
  <2>2. f[n] \in Nat
    BY <1>7, <2>1
  <2>. QED
    BY <1>6, <1>9, <2>1, <2>2
<1>12. at[turns].done
  <2>. SUFFICES ASSUME ~at[turns].done PROVE FALSE
    OBVIOUS
  <2>. DEFINE s == at[turns - 1]
              t == at[turns]
  <2>1. s \in AddStates(n) /\ t = Addresses!AddDigit(s, last, stop) /\ last \in 1 .. n
    BY <1>2, <1>4
  <2>. HIDE DEF s
  <2>2. /\ s.done => t = s
        /\ ~s.done => t.carry \in Nat /\ (t.done <=> Addresses!Above(last, stop) /\ t.carry = 0)
    <3>. HIDE DEF t
    <3>1. DigitAdded(t, s, n, last, stop)
      BY <2>1, AddDigitIs
    <3>. QED
      BY <3>1 DEF DigitAdded
  <2>3. Addresses!Above(last, stop)
    BY DEF Addresses!Above
  <2>4. t.carry \in Nat /\ t.carry # 0
    BY <2>2, <2>3
  <2>5. h[last - 1] >= 1
    <3>1. c[last - 1] >= 1 /\ c[last - 1] \in Nat
      BY <1>6, <2>4
    <3>2. f[last - 1] \in Nat /\ h[last - 1] = 256 * f[last - 1] + c[last - 1]
      BY <1>4, <1>7, <1>9
    <3>. QED
      BY <3>1, <3>2
  <2>. DEFINE y == [i \in 0 .. turns |-> x[i]]
  <2>6. Geometric(y, 58, turns) /\ y[0] = 1 /\ y[turns] = x[turns]
    <3>1. \A i \in 1 .. turns : i - 1 \in Nat /\ (i - 1) + 1 = i /\ i - 1 \in 0 .. turns /\ i \in 0 .. turns
      BY <1>4
    <3>2. \A i \in 1 .. turns : x[i] = x[i - 1] * 58
      BY <3>1 DEF Powers
    <3>3. turns \in 0 .. turns /\ 0 \in 0 .. turns /\ \A i \in 0 .. turns : i \in Nat
      BY <1>4
    <3>4. y \in [0 .. turns -> Nat] /\ x[0] = 1
      BY <3>3 DEF Powers
    <3>. HIDE DEF turns
    <3>. QED
      BY <3>1, <3>2, <3>3, <3>4 DEF Geometric
  <2>7. y[turns] <= h[(last - 1) + turns]
    <3>1. turns \in Nat /\ last - 1 \in Nat /\ (last - 1) + turns <= n /\ turns \in 0 .. turns
      BY <1>4
    <3>2. \A i \in 1 .. n : at[n].buffer[i] \in Nat
      <4>1. \A v \in 0 .. 57 : v \in Nat
        OBVIOUS
      <4>. QED
        BY <1>9, <4>1
    <3>3. y[0] <= h[last - 1]
      BY <2>5, <2>6
    <3>. HIDE DEF turns, y
    <3>. QED
      BY <1>10, <2>6, <3>1, <3>2, <3>3, NumberAtLeast
  <2>8. (last - 1) + turns = n /\ x[turns] \in Nat
    BY <1>4 DEF Powers
  <2>9. h[n] \in Nat
    <3>1. n \in 0 .. n
      OBVIOUS
    <3>. QED
      BY <1>10, <3>1 DEF Appends
  <2>10. h[n] < x[turns]
    BY <1>11
  <2>. HIDE DEF y, turns
  <2>. QED
    BY <2>6, <2>7, <2>8, <2>9, <2>10
<1>13. at[n] = at[turns]
  <2>. DEFINE Still == {i \in 0 .. n - turns : at[turns + i] = at[turns]}
  <2>1. 0 \in Still /\ n - turns \in Nat
    BY <1>4
  <2>2. ASSUME NEW i \in 0 .. (n - turns) - 1, i \in Still
        PROVE  i + 1 \in Still
    <3>1. /\ turns + (i + 1) \in 1 .. n /\ (turns + (i + 1)) - 1 = turns + i
          /\ turns + i \in 0 .. n /\ n + 1 - (turns + (i + 1)) \in 1 .. n
          /\ i + 1 \in 0 .. n - turns
      BY <1>4
    <3>2. at[turns + (i + 1)] = Addresses!AddDigit(at[turns + i], n + 1 - (turns + (i + 1)), stop)
      BY <1>2, <3>1
    <3>3. at[turns + i] = at[turns] /\ at[turns + i] \in AddStates(n)
      BY <1>2, <2>2, <3>1
    <3>. DEFINE s == at[turns + i]
                t == at[turns + (i + 1)]
                j == n + 1 - (turns + (i + 1))
    <3>4. s \in AddStates(n) /\ s.done /\ j \in 1 .. n /\ t = Addresses!AddDigit(s, j, stop)
      BY <1>12, <3>1, <3>2, <3>3
    <3>. HIDE DEF s, t, j
    <3>5. DigitAdded(t, s, n, j, stop)
      BY <3>4, AddDigitIs
    <3>6. t = s
      BY <3>4, <3>5 DEF DigitAdded
    <3>. QED
      BY <3>1, <3>3, <3>6 DEF s, t
  <2>3. \A i \in 0 .. n - turns : i \in Still
    <3>. HIDE DEF Still
    <3>. QED
      BY <2>1, <2>2, NumbersUpTo
  <2>4. n - turns \in 0 .. n - turns /\ turns + (n - turns) = n
    BY <1>4
  <2>. QED
    BY <2>3, <2>4
<1>14. /\ at[n].carry = 0 /\ at[n].stop_at \in 1 .. stop - 1 /\ at[n].stop_at >= last
       /\ \A i \in 1 .. at[n].stop_at - 1 : at[n].buffer[i] = 0
  <2>1. AddInv(n, d, stop, at[turns], c, turns)
    BY <1>3, <1>4
  <2>. HIDE DEF turns
  <2>. QED
    BY <1>4, <1>12, <1>13, <2>1 DEF AddInv
<1>15. Numbers(at[n].buffer, 58, n, h)
  <2>1. 0 \in 0 .. n
    OBVIOUS
  <2>2. h[0] = 256 * f[0] + c[0]
    BY <1>9, <2>1
  <2>3. f[0] = 0 /\ c[0] = 0
    BY <1>6, <1>7, <1>14
  <2>4. h[0] = 0
    BY <2>2, <2>3
  <2>. QED
    BY <1>10, <2>4 DEF Numbers
<1>16. at[n].stop_at \in last .. stop - 1
  BY <1>14
<1>17. new.buffer = at[n].buffer /\ new.stop_at = at[n].stop_at
  BY <1>1
<1>. QED
  BY <1>8, <1>11, <1>14, <1>15, <1>16, <1>17 DEF new, ByteAdded

\* What the bytes so far have made of the array.
EncodeStates(n) == [buffer : [1 .. n -> Digit58], stop_at : Nat]

LEMMA AddByteType ==
    ASSUME NEW n \in Nat, NEW acc \in EncodeStates(n), NEW byte \in Byte256
    PROVE  Addresses!AddByte(acc, byte) \in EncodeStates(n)
<1>. DEFINE at == Addresses!Adding(acc.buffer, acc.stop_at, byte)
<1>1. acc.buffer \in [1 .. n -> Digit58]
  BY DEF EncodeStates
<1>2. Len(acc.buffer) = n
  BY <1>1, LenProperties
<1>3. n \in 0 .. n
  OBVIOUS
<1>4. at[n] \in AddStates(n)
  BY <1>1, <1>3, AddingAre
<1>. HIDE DEF at
<1>5. at[n].buffer \in [1 .. n -> Digit58] /\ at[n].stop_at \in Nat
  BY <1>4 DEF AddStates
<1>6. Addresses!AddByte(acc, byte) = [buffer |-> at[n].buffer, stop_at |-> at[n].stop_at]
  BY <1>2 DEF Addresses!AddByte, at
<1>. QED
  BY <1>5, <1>6 DEF EncodeStates

LEMMA EncodingAre ==
    ASSUME NEW size \in Nat, NEW bytes \in Seq(Byte256)
    PROVE  LET acc == Addresses!Encoding(bytes, size)
           IN  /\ acc[0] = [buffer |-> [i \in 1 .. size |-> 0], stop_at |-> size]
               /\ \A k \in 0 .. Len(bytes) : acc[k] \in EncodeStates(size)
               /\ \A k \in 1 .. Len(bytes) : acc[k] = Addresses!AddByte(acc[k - 1], bytes[k])
<1>. DEFINE n == Len(bytes)
            begin == [buffer |-> [i \in 1 .. size |-> 0], stop_at |-> size]
            Turn(k, acc) == Addresses!AddByte(acc, bytes[k])
            States == EncodeStates(size)
            next == [k \in 1 .. n |-> [acc \in States |-> Turn(k, acc)]]
            IsEncoding(f) == f = [k \in 0 .. n |-> IF k = 0 THEN begin ELSE Turn(k, f[k - 1])]
            encoding == Addresses!Encoding(bytes, size)
<1>1. n \in Nat /\ \A k \in 1 .. n : bytes[k] \in Byte256
  BY LenProperties
<1>2. begin \in States
  BY DEF EncodeStates, Digit58
<1>3. encoding = CHOOSE f : IsEncoding(f)
  BY DEF Addresses!Encoding, Addresses!Zeros
<1>. HIDE DEF n, States, begin, encoding
<1>4. \A k \in 1 .. n, acc \in States : Turn(k, acc) \in States
  BY <1>1, AddByteType DEF States
<1>5. Turning(States, n, next)
  BY <1>4 DEF Turning
<1>6. \A k \in 1 .. n, acc \in States : next[k][acc] = Turn(k, acc)
  OBVIOUS
<1>. HIDE DEF next, Turn
<1>7. PICK f : AfterTurns(States, n, begin, next, f)
  BY <1>1, <1>2, <1>5, LoopExists
<1>8. \A k \in 0 .. n : k # 0 => k \in 1 .. n /\ k - 1 \in 0 .. n
  BY <1>1
<1>9. IsEncoding(f)
  <2>1. \A k \in 0 .. n : f[k] = IF k = 0 THEN begin ELSE Turn(k, f[k - 1])
    BY <1>6, <1>7, <1>8 DEF AfterTurns
  <2>. QED
    BY <1>7, <2>1 DEF AfterTurns
<1>10. IsEncoding(encoding)
  <2>. HIDE DEF IsEncoding
  <2>. QED
    BY <1>3, <1>9
<1>11. 0 \in 0 .. n /\ \A k \in 1 .. n : k \in 0 .. n /\ k # 0
  BY <1>1
<1>12. encoding[0] = begin /\ \A k \in 1 .. n : encoding[k] = Turn(k, encoding[k - 1])
  BY <1>10, <1>11
<1>. DEFINE Done == {k \in 0 .. n : encoding[k] \in States}
<1>. HIDE DEF IsEncoding
<1>13. 0 \in Done
  BY <1>2, <1>11, <1>12
<1>14. ASSUME NEW k \in 0 .. n - 1, k \in Done
       PROVE  k + 1 \in Done
  <2>1. k + 1 \in 1 .. n /\ k + 1 \in 0 .. n /\ k + 1 - 1 = k
    BY <1>1
  <2>2. encoding[k + 1] = Turn(k + 1, encoding[k])
    BY <1>12, <2>1
  <2>. QED
    BY <1>4, <1>14, <2>1, <2>2 DEF Turn
<1>15. \A k \in 0 .. n : k \in Done
  <2>. HIDE DEF Done
  <2>. QED
    BY <1>1, <1>13, <1>14, NumbersUpTo
<1>. QED
  BY <1>12, <1>15 DEF Turn, begin, encoding, States, n

\* With every byte the array needs at least one digit more.
LEMMA SizesGrow ==
    ASSUME NEW k \in Nat, NEW n \in Nat, k < n
    PROVE  /\ Addresses!OutputSize(k) \in Nat /\ Addresses!OutputSize(n) \in Nat
           /\ Addresses!OutputSize(k) >= 1
           /\ Addresses!OutputSize(k) + 1 <= Addresses!OutputSize(k + 1)
           /\ Addresses!OutputSize(k + 1) <= Addresses!OutputSize(n)
BY DEF Addresses!OutputSize

\* The array of base58_encode holds the number that the bytes are: after every
\* byte the digits that are not 0 are those that the bytes so far can need, so
\* that stop_at is not the first digit before the last byte.
LEMMA EncodingIs ==
    ASSUME NEW bytes \in Seq(Byte256), NEW b, Numbers(bytes, 256, Len(bytes), b)
    PROVE  LET size == Addresses!OutputSize(Len(bytes))
               buffer == Addresses!Encoding(bytes, size)[Len(bytes)].buffer
           IN  /\ size \in Nat /\ buffer \in [1 .. size -> Digit58]
               /\ \E g : Numbers(buffer, 58, size, g) /\ g[size] = b[Len(bytes)]
<1>. DEFINE n == Len(bytes)
            Size(k) == Addresses!OutputSize(k)
            size == Size(n)
            acc == Addresses!Encoding(bytes, size)
            Holds == {k \in 0 .. n :
                        /\ acc[k].stop_at \in 1 .. size
                        /\ acc[k].stop_at >= size - Size(k) + 1
                        /\ \A i \in 1 .. acc[k].stop_at - 1 : acc[k].buffer[i] = 0
                        /\ \E g : Numbers(acc[k].buffer, 58, size, g) /\ g[size] = b[k]}
<1>1. n \in Nat /\ \A k \in 1 .. n : bytes[k] \in Byte256
  BY LenProperties
<1>2. Size(0) = 1 /\ size \in Nat /\ size >= 1
  <2>. HIDE DEF n
  <2>. QED
    BY <1>1 DEF Addresses!OutputSize
<1>3. /\ acc[0] = [buffer |-> [i \in 1 .. size |-> 0], stop_at |-> size]
      /\ \A k \in 0 .. n : acc[k] \in EncodeStates(size)
      /\ \A k \in 1 .. n : acc[k] = Addresses!AddByte(acc[k - 1], bytes[k])
  BY <1>2, EncodingAre
<1>4. b \in [0 .. n -> Nat] /\ b[0] = 0 /\ \A k \in 1 .. n : b[k] = b[k - 1] * 256 + bytes[k]
  BY DEF Numbers, Appends
<1>5. PICK x : Powers(58, x)
  BY PowersExist
<1>6. PICK y : Powers(256, y)
  BY PowersExist
<1>. HIDE DEF n, Size, size, acc
<1>7. \A k \in 0 .. n : b[k] < y[k]
  <2>. DEFINE w == [i \in 0 .. n |-> y[i]]
  <2>1. Geometric(w, 256, n) /\ w[0] = 1 /\ \A i \in 0 .. n : w[i] = y[i]
    BY <1>1, <1>6, PowersUpTo
  <2>. HIDE DEF w
  <2>2. \A k \in 0 .. n : b[0 + k] < w[k]
    <3>1. \A i \in 1 .. n : bytes[i] \in 0 .. 256 - 1
      BY <1>1 DEF Byte256
    <3>2. b[0] < w[0] /\ 0 + n <= n
      BY <1>1, <1>4, <2>1
    <3>. QED
      BY <1>1, <2>1, <3>1, <3>2, NumberBelow, ZenonT(60) DEF n
  <2>3. \A k \in 0 .. n : 0 + k = k
    BY <1>1
  <2>. QED
    BY <2>1, <2>2, <2>3
<1>8. 0 \in Holds
  <2>. DEFINE zeros == [i \in 1 .. size |-> 0]
              g == [i \in 0 .. size |-> 0]
  <2>1. acc[0].buffer = zeros /\ acc[0].stop_at = size
    BY <1>3
  <2>2. Numbers(zeros, 58, size, g) /\ g[size] = 0
    <3>1. /\ g \in [0 .. size -> Nat] /\ g[0] = 0
          /\ \A k \in 1 .. size : g[k] = 0 /\ g[k - 1] = 0 /\ zeros[k] = 0
      BY <1>2
    <3>2. 0 = 0 * 58 + 0 /\ size \in 1 .. size
      BY <1>2
    <3>. HIDE DEF g, zeros
    <3>. QED
      BY <3>1, <3>2 DEF Numbers, Appends
  <2>3. /\ size \in 1 .. size /\ size >= size - Size(0) + 1 /\ 0 \in 0 .. n
        /\ \A i \in 1 .. size - 1 : zeros[i] = 0
    BY <1>1, <1>2
  <2>. HIDE DEF zeros, g
  <2>. QED
    BY <1>4, <2>1, <2>2, <2>3
<1>9. ASSUME NEW k \in 0 .. n - 1, k \in Holds
      PROVE  k + 1 \in Holds
  <2>. DEFINE d == acc[k].buffer
              stop == acc[k].stop_at
              byte == bytes[k + 1]
              last == size - Size(k + 1) + 1
              new == acc[k + 1]
  <2>1. k \in Nat /\ k < n /\ k + 1 \in 1 .. n /\ k + 1 \in 0 .. n /\ k \in 0 .. n /\ (k + 1) - 1 = k
    BY <1>1
  <2>2. acc[k] \in EncodeStates(size) /\ new = Addresses!AddByte(acc[k], byte)
    BY <1>3, <2>1
  <2>3. d \in [1 .. size -> Digit58] /\ acc[k] = [buffer |-> d, stop_at |-> stop]
    BY <2>2 DEF EncodeStates
  <2>4. stop \in 1 .. size /\ stop >= size - Size(k) + 1 /\ \A i \in 1 .. stop - 1 : d[i] = 0
    BY <1>9
  <2>5. PICK f : Numbers(d, 58, size, f) /\ f[size] = b[k]
    BY <1>9
  <2>6. /\ Size(k) \in Nat /\ Size(k + 1) \in Nat /\ Size(k) >= 1
        /\ Size(k) + 1 <= Size(k + 1) /\ Size(k + 1) <= size
    <3>1. Size(k + 1) \in Nat
      BY <2>1 DEF Size, Addresses!OutputSize
    <3>. QED
      BY <1>1, <2>1, <3>1, SizesGrow DEF Size, size
  <2>7. byte \in Byte256
    BY <1>1, <2>1
  <2>8. new = Addresses!AddByte([buffer |-> d, stop_at |-> stop], byte)
    BY <2>2, <2>3
  <2>. HIDE DEF d, stop, byte, new
  <2>9. /\ stop \in 2 .. size /\ last \in 1 .. stop - 1 /\ size + 1 - last = Size(k + 1)
        /\ last = size - Size(k + 1) + 1 /\ last \in Nat
    BY <1>2, <2>4, <2>6, SMTT(30)
  <2>. HIDE DEF last
  <2>10. f[size] * 256 + byte = b[k + 1]
    BY <1>4, <2>1, <2>5 DEF byte
  <2>11. f[size] * 256 + byte < x[size + 1 - last]
    <3>1. b[k + 1] < y[k + 1]
      BY <1>7, <2>1
    <3>2. y[k + 1] <= x[Size(k + 1)]
      BY <1>5, <1>6, <2>1, Capacity DEF Size
    <3>3. b[k + 1] \in Nat /\ y[k + 1] \in Nat /\ x[Size(k + 1)] \in Nat
      <4>1. b[k + 1] \in Nat
        BY <1>4, <2>1
      <4>2. k + 1 \in Nat
        BY <2>1
      <4>3. y[k + 1] \in Nat
        BY <1>6, <4>2 DEF Powers
      <4>4. x[Size(k + 1)] \in Nat
        BY <1>5, <2>6 DEF Powers
      <4>. QED
        BY <4>1, <4>3, <4>4
    <3>4. b[k + 1] < x[Size(k + 1)]
      BY <3>1, <3>2, <3>3
    <3>. QED
      BY <2>9, <2>10, <3>4
  <2>12. /\ new.stop_at \in last .. stop - 1
         /\ \A i \in 1 .. new.stop_at - 1 : new.buffer[i] = 0
         /\ \E g : Numbers(new.buffer, 58, size, g) /\ g[size] = f[size] * 256 + byte
    <3>1. /\ size \in Nat /\ d \in [1 .. size -> Digit58] /\ \A i \in 1 .. stop - 1 : d[i] = 0
          /\ Numbers(d, 58, size, f) /\ stop \in 2 .. size /\ last \in 1 .. stop - 1
      BY <1>2, <2>3, <2>4, <2>5, <2>9
    <3>2. ByteAdded(Addresses!AddByte([buffer |-> d, stop_at |-> stop], byte),
                    size, last, stop, f[size] * 256 + byte)
      BY <1>5, <2>7, <2>11, <3>1, AddByteIs
    <3>3. ByteAdded(new, size, last, stop, f[size] * 256 + byte)
      BY <2>8, <3>2
    <3>. QED
      BY <3>3 DEF ByteAdded
  <2>13. new.stop_at \in 1 .. size /\ new.stop_at >= size - Size(k + 1) + 1
    <3>. DEFINE stopped == new.stop_at
    <3>1. stopped \in last .. stop - 1
      BY <2>12
    <3>. HIDE DEF stopped
    <3>2. stopped \in 1 .. size /\ stopped >= last
      BY <1>2, <2>9, <3>1
    <3>. QED
      BY <2>9, <3>2 DEF stopped
  <2>. QED
    BY <2>1, <2>10, <2>12, <2>13 DEF new
<1>10. \A k \in 0 .. n : k \in Holds
  <2>. HIDE DEF Holds
  <2>. QED
    BY <1>1, <1>8, <1>9, NumbersUpTo
<1>11. n \in 0 .. n
  BY <1>1
<1>12. acc[n].buffer \in [1 .. size -> Digit58]
  BY <1>3, <1>11 DEF EncodeStates
<1>13. \E g : Numbers(acc[n].buffer, 58, size, g) /\ g[size] = b[n]
  BY <1>10, <1>11
<1>. QED
  BY <1>2, <1>12, <1>13 DEF acc, size, n, Size

\* z zeros lead s.
Leads(z, s) ==
    /\ z \in 0 .. Len(s)
    /\ \A i \in 1 .. z : s[i] = 0
    /\ z < Len(s) => s[z + 1] # 0

LEMMA LeadingZerosAre ==
    ASSUME NEW S, NEW s \in Seq(S)
    PROVE  Leads(Addresses!LeadingZeros(s), s)
<1>. DEFINE n == Len(s)
            Other == {i \in 0 .. n : i < n => s[i + 1] # 0}
<1>1. n \in Nat
  BY LenProperties
<1>. HIDE DEF n
<1>2. Other \subseteq Nat /\ Other # {}
  <2>1. n \in Other /\ \A i \in 0 .. n : i \in Nat
    BY <1>1
  <2>. QED
    BY <2>1
<1>3. PICK z \in Other : \A y \in Other : z <= y
  <2>. HIDE DEF Other
  <2>. QED
    BY <1>2, LeastNumber
<1>4. ASSUME NEW i \in 1 .. z
      PROVE  s[i] = 0
  <2>1. i - 1 \in 0 .. n /\ i - 1 < n /\ (i - 1) + 1 = i /\ ~(z <= i - 1)
    BY <1>1
  <2>. QED
    BY <1>3, <2>1
<1>5. Leads(z, s)
  BY <1>3, <1>4 DEF Leads, n
<1>6. Addresses!LeadingZeros(s) = CHOOSE m \in 0 .. Len(s) : Leads(m, s)
  <2>1. \A m \in 0 .. Len(s) :
           Leads(m, s) <=> (\A i \in 1 .. m : s[i] = 0) /\ (m < Len(s) => s[m + 1] # 0)
    BY DEF Leads
  <2>. QED
    BY <2>1 DEF Addresses!LeadingZeros
<1>7. z \in 0 .. Len(s)
  BY <1>5 DEF Leads
<1>. QED
  BY <1>5, <1>6, <1>7

LEMMA LeadingZerosOnly ==
    ASSUME NEW S, NEW s \in Seq(S), NEW a, NEW b, Leads(a, s), Leads(b, s)
    PROVE  a = b
<1>. DEFINE n == Len(s)
<1>1. n \in Nat
  BY LenProperties
<1>2. /\ a \in 0 .. n /\ \A i \in 1 .. a : s[i] = 0
      /\ a < n => s[a + 1] # 0
      /\ b \in 0 .. n /\ \A i \in 1 .. b : s[i] = 0
      /\ b < n => s[b + 1] # 0
  BY DEF Leads
<1>. HIDE DEF n
<1>3. a < b => a < n /\ a + 1 \in 1 .. b
  BY <1>1, <1>2
<1>4. b < a => b < n /\ b + 1 \in 1 .. a
  BY <1>1, <1>2
<1>. QED
  BY <1>2, <1>3, <1>4

LEMMA BehindIs ==
    ASSUME NEW S, NEW s \in Seq(S), NEW n \in 0 .. Len(s)
    PROVE  LET e == Addresses!Behind(s, n)
           IN  /\ e \in Seq(S) /\ Len(e) = Len(s) - n /\ Len(s) - n \in Nat
               /\ \A i \in 1 .. Len(s) - n : n + i \in 1 .. Len(s) /\ e[i] = s[n + i]
<1>. DEFINE size == Len(s)
            m == size - n
            e == Addresses!Behind(s, n)
<1>1. size \in Nat /\ \A i \in 1 .. size : s[i] \in S
  BY LenProperties
<1>2. e = [i \in 1 .. m |-> s[n + i]]
  BY DEF Addresses!Behind
<1>. HIDE DEF size, e
<1>3. m \in Nat /\ \A i \in 1 .. m : n + i \in 1 .. size
  BY <1>1 DEF size
<1>. HIDE DEF m
<1>4. e \in [1 .. m -> S] /\ \A i \in 1 .. m : e[i] = s[n + i]
  BY <1>1, <1>2, <1>3
<1>5. e \in Seq(S) /\ Len(e) = m
  BY <1>3, <1>4, SeqDef, LenProperties
<1>. QED
  BY <1>3, <1>4, <1>5 DEF m, e, size

\* The digits of v that remain when the leading zeros are cut off.
Pure(e, base, v) ==
    /\ e \in Seq(0 .. base - 1)
    /\ Len(e) > 0 => e[1] # 0
    /\ \E g : Numbers(e, base, Len(e), g) /\ g[Len(e)] = v

LEMMA SignificantIs ==
    ASSUME NEW base \in Nat \ {0}, NEW s \in Seq(0 .. base - 1),
           NEW f, Numbers(s, base, Len(s), f)
    PROVE  LET z == Addresses!LeadingZeros(s)
               e == Addresses!Significant(s)
           IN  /\ Leads(z, s) /\ e = Addresses!Behind(s, z)
               /\ Pure(e, base, f[Len(s)]) /\ Len(e) = Len(s) - z
               /\ \A i \in 1 .. Len(e) : e[i] = s[z + i]
<1>. DEFINE size == Len(s)
            z == Addresses!LeadingZeros(s)
            e == Addresses!Significant(s)
            m == size - z
            g == [i \in 0 .. m |-> f[z + i]]
<1>1. size \in Nat
  BY LenProperties
<1>2. Leads(z, s)
  BY LeadingZerosAre
<1>3. e = Addresses!Behind(s, z)
  BY DEF Addresses!Significant
<1>. HIDE DEF size, z, e
<1>4. z \in 0 .. size /\ (\A i \in 1 .. z : s[i] = 0) /\ (z < size => s[z + 1] # 0)
  BY <1>2 DEF Leads, size
<1>5. e \in Seq(0 .. base - 1) /\ Len(e) = m /\ m \in Nat
      /\ \A i \in 1 .. m : z + i \in 1 .. size /\ e[i] = s[z + i]
  BY <1>3, <1>4, BehindIs DEF size
<1>6. m > 0 => e[1] # 0
  BY <1>1, <1>4, <1>5
<1>7. f[z] = 0
  <2>1. z \in 0 .. z
    BY <1>1, <1>4
  <2>. QED
    <3>1. Numbers(s, base, size, f) /\ base \in Nat
      BY DEF size
    <3>2. \A i \in 0 .. z : f[i] = 0
      BY <1>1, <1>4, <3>1, NumberOfZeros
    <3>. QED
      BY <2>1, <3>2
<1>8. /\ f \in [0 .. size -> Nat]
      /\ \A i \in 1 .. size : f[i] = f[i - 1] * base + s[i]
  BY DEF Numbers, Appends, size
<1>9. Numbers(e, base, m, g)
  <2>1. 0 \in 0 .. m /\ z + 0 = z
    BY <1>1, <1>4, <1>5
  <2>2. g[0] = 0
    BY <1>7, <2>1
  <2>3. \A i \in 0 .. m : z + i \in 0 .. size
    BY <1>1, <1>4
  <2>4. g \in [0 .. m -> Nat]
    BY <1>8, <2>3
  <2>5. \A i \in 1 .. m : i \in 0 .. m /\ i - 1 \in 0 .. m /\ z + (i - 1) = (z + i) - 1
    BY <1>1, <1>4
  <2>6. \A i \in 1 .. m : g[i] = f[z + i] /\ g[i - 1] = f[(z + i) - 1]
    BY <2>5
  <2>. HIDE DEF m, g
  <2>7. \A i \in 1 .. m : g[i] = g[i - 1] * base + e[i]
    <3>. TAKE i \in 1 .. m
    <3>1. z + i \in 1 .. size /\ e[i] = s[z + i] /\ g[i] = f[z + i] /\ g[i - 1] = f[(z + i) - 1]
      BY <1>5, <2>6
    <3>2. f[z + i] = f[(z + i) - 1] * base + s[z + i]
      BY <1>8, <3>1
    <3>. QED
      BY <3>1, <3>2
  <2>. QED
    BY <2>2, <2>4, <2>7 DEF Numbers, Appends
<1>10. g[m] = f[size]
  <2>1. m \in 0 .. m /\ z + m = size
    BY <1>1, <1>4
  <2>. QED
    BY <2>1
<1>. HIDE DEF g, m
<1>11. Pure(e, base, f[size])
  BY <1>5, <1>6, <1>9, <1>10 DEF Pure
<1>. QED
  BY <1>2, <1>3, <1>5, <1>11 DEF size, m, z, e

\* t is z zeros and behind them the m digits of v.
Padded(t, base, z, m, v) ==
    /\ t \in Seq(0 .. base - 1) /\ Len(t) = z + m
    /\ Addresses!LeadingZeros(t) = z
    /\ \E f : Numbers(t, base, Len(t), f) /\ f[Len(t)] = v

\* z zeros in front of the digits e.
LEMMA ZerosInFront ==
    ASSUME NEW base \in Nat \ {0}, NEW v, NEW e, Pure(e, base, v), NEW z \in Nat,
           NEW t, t = Addresses!Zeros(z) \o e
    PROVE  Padded(t, base, z, Len(e), v)
<1>. DEFINE zeros == Addresses!Zeros(z)
            D == 0 .. base - 1
            m == Len(e)
            n == z + m
<1>1. e \in Seq(D) /\ (m > 0 => e[1] # 0)
  BY DEF Pure
<1>2. m \in Nat /\ \A i \in 1 .. m : e[i] \in D
  BY <1>1, LenProperties
<1>3. zeros \in [1 .. z -> D] /\ \A i \in 1 .. z : zeros[i] = 0
  BY DEF Addresses!Zeros
<1>4. zeros \in Seq(D) /\ Len(zeros) = z
  BY <1>3, SeqDef, LenProperties
<1>5. PICK g : Numbers(e, base, m, g) /\ g[m] = v
  BY DEF Pure
<1>. HIDE DEF zeros, m
<1>6. /\ t \in Seq(D) /\ Len(t) = n /\ n \in Nat
      /\ \A i \in 1 .. z : t[i] = 0
      /\ \A i \in 1 .. m : z + i \in 1 .. n /\ t[z + i] = e[i]
  <2>1. t = zeros \o e
    BY DEF zeros
  <2>2. t \in Seq(D) /\ Len(t) = z + Len(e)
    <3>. HIDE DEF D
    <3>. QED
      BY <1>1, <1>4, <2>1, ConcatProperties
  <2>3. \A i \in 1 .. z + Len(e) : t[i] = IF i <= z THEN zeros[i] ELSE e[i - z]
    <3>. HIDE DEF D
    <3>. QED
      BY <1>1, <1>4, <2>1, ConcatProperties
  <2>4. \A i \in 1 .. z : i \in 1 .. z + Len(e) /\ i <= z
    BY <1>2 DEF m
  <2>5. \A i \in 1 .. m : z + i \in 1 .. z + Len(e) /\ ~(z + i <= z) /\ (z + i) - z = i
    BY <1>2 DEF m
  <2>. QED
    BY <1>2, <1>3, <2>2, <2>3, <2>4, <2>5 DEF m
<1>7. Leads(z, t)
  <2>1. z \in 0 .. n /\ (z < n => 1 \in 1 .. m /\ m > 0)
    BY <1>2
  <2>. QED
    BY <1>1, <1>6, <2>1 DEF Leads, m
<1>8. Addresses!LeadingZeros(t) = z
  <2>. HIDE DEF D, n
  <2>. QED
    BY <1>6, <1>7, LeadingZerosAre, LeadingZerosOnly
<1>9. \A i \in 1 .. n : t[i] \in Nat
  <2>1. \A i \in 1 .. n : t[i] \in D
    BY <1>6, LenProperties
  <2>2. \A digit \in D : digit \in Nat
    OBVIOUS
  <2>. QED
    BY <2>1, <2>2
<1>10. PICK f : Numbers(t, base, n, f)
  <2>1. t \in Seq(Nat)
    BY <1>6, <1>9, LenProperties, SeqDef
  <2>2. \E f : Numbers(t, base, Len(t), f)
    BY <2>1, DenotesIs
  <2>. QED
    BY <1>6, <2>2
<1>11. f[n] = v
  <2>1. n \in Nat /\ z + m = n
    BY <1>6
  <2>2. ZerosAnd(t, z, e, m)
    BY <1>6 DEF ZerosAnd
  <2>3. base \in Nat
    OBVIOUS
  <2>. HIDE DEF n
  <2>4. g[m] = f[n]
    BY <1>2, <1>5, <1>10, <2>1, <2>2, <2>3, NumberBehindZeros
  <2>. QED
    BY <1>5, <2>4
<1>. HIDE DEF n
<1>12. Numbers(t, base, Len(t), f) /\ f[Len(t)] = v
  BY <1>6, <1>10, <1>11
<1>. QED
  BY <1>2, <1>6, <1>8, <1>12 DEF n, m, D, Padded

\* What base58_encode writes for the bytes of `in'.
IsEncoded(text, in) ==
    /\ text \in Seq(Digit58) /\ Len(text) <= 164
    /\ Addresses!LeadingZeros(text) = Addresses!LeadingZeros(in)
    /\ \E f, g : /\ Numbers(in, 256, Len(in), f) /\ Numbers(text, 58, Len(text), g)
                 /\ g[Len(text)] = f[Len(in)]
    /\ Len(in) = 25 /\ in[1] = 40 => Len(text) = 34

\* The number of digits that n bytes take.
LEMMA DigitsNeeded ==
    ASSUME NEW n \in 0 .. 120, NEW v \in Nat, NEW e, Pure(e, 58, v),
           NEW y, Powers(256, y), v < y[n], Len(e) <= Addresses!OutputSize(n)
    PROVE  Len(e) \in Nat /\ Len(e) <= 2 * n /\ Len(e) <= n + 44
<1>. DEFINE m == Len(e)
<1>1. e \in Seq(0 .. 58 - 1) /\ (m > 0 => e[1] # 0)
  BY DEF Pure
<1>2. m \in Nat /\ \A i \in 1 .. m : e[i] \in 0 .. 58 - 1
  BY <1>1, LenProperties
<1>3. PICK g : Numbers(e, 58, m, g) /\ g[m] = v
  BY DEF Pure
<1>4. PICK x : Powers(58, x)
  BY PowersExist
<1>5. m <= Addresses!OutputSize(n)
  OBVIOUS
<1>. HIDE DEF m
<1>6. ASSUME m > 0
      PROVE  x[m - 1] <= v /\ x[m - 1] \in Nat
  <2>1. m \in Nat \ {0} /\ 58 \in Nat \ {0}
    BY <1>2, <1>6
  <2>2. e[1] # 0
    BY <1>1, <1>6
  <2>3. x[m - 1] \in Nat /\ x[m - 1] <= g[m]
    BY <1>2, <1>3, <1>4, <2>1, <2>2, DigitsOfNumber
  <2>. QED
    BY <1>3, <2>3
<1>7. n \in Nat
  OBVIOUS
<1>8. x \in [Nat -> Nat] /\ y \in [Nat -> Nat] /\ y[0] = 1 /\ x[0] = 1
  BY <1>4 DEF Powers
<1>9. ASSUME m > 0
      PROVE  m <= n + 44
  <2>. SUFFICES ASSUME ~(m <= n + 44) PROVE FALSE
    OBVIOUS
  <2>1. n + 44 \in Nat /\ m - 1 \in Nat /\ n + 44 <= m - 1
    BY <1>2
  <2>2. x[n + 44] <= x[m - 1] /\ x[n + 44] \in Nat
    BY <1>4, <2>1, PowersGrow
  <2>3. y[n] <= x[n + 44] /\ y[n] \in Nat
    BY <1>4, <1>7, <1>8, TextRoom
  <2>4. x[m - 1] <= v /\ x[m - 1] \in Nat
    BY <1>6, <1>9
  <2>. DEFINE a == x[n + 44]
              b == x[m - 1]
              c == y[n]
  <2>5. a <= b /\ a \in Nat /\ c <= a /\ c \in Nat /\ b <= v /\ b \in Nat /\ v < c
    BY <2>2, <2>3, <2>4
  <2>. HIDE DEF a, b, c
  <2>. QED
    BY <2>5
<1>10. ASSUME m > 0
       PROVE  n > 0
  <2>. SUFFICES ASSUME n = 0 PROVE FALSE
    BY <1>7
  <2>1. v < 1
    BY <1>8
  <2>2. m - 1 \in Nat /\ 0 \in Nat /\ 0 <= m - 1
    BY <1>2, <1>10
  <2>3. x[0] <= x[m - 1]
    BY <1>4, <2>2, PowersGrow
  <2>4. x[m - 1] <= v /\ x[m - 1] \in Nat
    BY <1>6, <1>10
  <2>. DEFINE a == x[m - 1]
  <2>5. 1 <= a /\ a \in Nat /\ a <= v /\ v < 1
    BY <1>8, <2>1, <2>3, <2>4
  <2>. HIDE DEF a
  <2>. QED
    BY <2>5
<1>11. n > 0 => Addresses!OutputSize(n) <= 2 * n /\ Addresses!OutputSize(n) \in Nat
  BY <1>7 DEF Addresses!OutputSize
<1>12. m <= 2 * n
  BY <1>2, <1>5, <1>7, <1>10, <1>11
<1>13. m <= n + 44
  BY <1>2, <1>7, <1>9
<1>. QED
  BY <1>2, <1>12, <1>13 DEF m

\* An address has 34 digits: its first byte is 40.
LEMMA AddressDigits ==
    ASSUME NEW in, \A i \in 1 .. 25 : in[i] \in Byte256, in[1] = 40,
           NEW f, Numbers(in, 256, 25, f),
           NEW m \in Nat, NEW e, \A i \in 1 .. m : e[i] \in 0 .. 58 - 1, m > 0 => e[1] # 0,
           NEW g, Numbers(e, 58, m, g), g[m] = f[25]
    PROVE  m = 34
<1>. DEFINE v == f[25]
<1>4. PICK x : Powers(58, x)
  BY PowersExist
<1>5. PICK y : Powers(256, y)
  BY PowersExist
<1>6. x[33] <= 40 * y[24] /\ 41 * y[24] <= x[34]
  BY <1>4, <1>5, AddressRoom
<1>7. x \in [Nat -> Nat] /\ y \in [Nat -> Nat] /\ y[0] = 1 /\ x[0] = 1
  BY <1>4, <1>5 DEF Powers
<1>9. f \in [0 .. 25 -> Nat] /\ f[0] = 0 /\ f[1] = 40 /\ v \in Nat
  <2>1. f \in [0 .. 25 -> Nat] /\ f[0] = 0 /\ \A i \in 1 .. 25 : f[i] = f[i - 1] * 256 + in[i]
    BY DEF Numbers, Appends
  <2>2. 1 \in 1 .. 25 /\ 1 - 1 = 0 /\ 25 \in 0 .. 25
    OBVIOUS
  <2>3. f[1] = f[0] * 256 + in[1]
    BY <2>1, <2>2
  <2>. QED
    BY <2>1, <2>2, <2>3
<1>. HIDE DEF v
<1>10. ASSUME NEW q \in Nat
       PROVE  /\ Geometric([i \in 0 .. 24 |-> q * y[i]], 256, 24)
              /\ [i \in 0 .. 24 |-> q * y[i]][0] = q
              /\ [i \in 0 .. 24 |-> q * y[i]][24] = q * y[24]
  <2>. DEFINE w == [i \in 0 .. 24 |-> q * y[i]]
  <2>1. \A i \in 0 .. 24 : i \in Nat /\ q * y[i] \in Nat
    <3>1. \A a \in Nat : q * a \in Nat
      OBVIOUS
    <3>2. \A i \in 0 .. 24 : i \in Nat
      OBVIOUS
    <3>3. \A i \in Nat : y[i] \in Nat
      BY <1>7
    <3>. QED
      BY <3>1, <3>2, <3>3
  <2>2. w \in [0 .. 24 -> Nat]
    BY <2>1
  <2>3. \A i \in 1 .. 24 : w[i] = w[i - 1] * 256
    <3>. TAKE i \in 1 .. 24
    <3>1. i \in 0 .. 24 /\ i - 1 \in 0 .. 24 /\ i - 1 \in Nat /\ (i - 1) + 1 = i
      OBVIOUS
    <3>2. y[i] = y[i - 1] * 256 /\ y[i - 1] \in Nat
      BY <1>5, <3>1, SMTT(30) DEF Powers
    <3>3. w[i] = q * y[i] /\ w[i - 1] = q * y[i - 1]
      BY <3>1
    <3>. DEFINE a == y[i - 1]
    <3>4. q * (a * 256) = (q * a) * 256
      <4>1. a \in Nat
        BY <3>2
      <4>. HIDE DEF a
      <4>. QED
        BY <4>1
    <3>. QED
      BY <3>2, <3>3, <3>4
  <2>4. 0 \in 0 .. 24 /\ 24 \in 0 .. 24
    OBVIOUS
  <2>5. w[0] = q /\ w[24] = q * y[24]
    BY <1>7, <2>4
  <2>. HIDE DEF w
  <2>6. Geometric(w, 256, 24)
    BY <2>2, <2>3 DEF Geometric
  <2>. QED
    BY <2>5, <2>6 DEF w
<1>11. 40 * y[24] <= v
  <2>. DEFINE w == [i \in 0 .. 24 |-> 40 * y[i]]
  <2>1. Geometric(w, 256, 24) /\ w[0] = 40 /\ w[24] = 40 * y[24]
    BY <1>10
  <2>. HIDE DEF w
  <2>2. \A i \in 1 .. 25 : in[i] \in Nat
    <3>1. \A b \in Byte256 : b \in Nat
      BY DEF Byte256
    <3>. QED
      BY <3>1
  <2>3. Appends(in, 256, 25, f) /\ w[0] <= f[1] /\ 1 + 24 <= 25
    BY <1>9, <2>1 DEF Numbers
  <2>4. \A i \in 0 .. 24 : w[i] <= f[1 + i]
    BY <2>1, <2>2, <2>3, NumberAtLeast, ZenonT(60)
  <2>5. 24 \in 0 .. 24 /\ 1 + 24 = 25
    OBVIOUS
  <2>6. w[24] <= f[25]
    BY <2>4, <2>5
  <2>. QED
    BY <2>1, <2>6 DEF v
<1>12. v < 41 * y[24]
  <2>. DEFINE w == [i \in 0 .. 24 |-> 41 * y[i]]
  <2>1. Geometric(w, 256, 24) /\ w[0] = 41 /\ w[24] = 41 * y[24]
    BY <1>10
  <2>. HIDE DEF w
  <2>2. \A i \in 1 .. 25 : in[i] \in 0 .. 256 - 1
    <3>1. \A b \in Byte256 : b \in 0 .. 256 - 1
      BY DEF Byte256
    <3>. QED
      BY <3>1
  <2>. DEFINE first == 1
              n == 25
              k == 24
  <2>3. /\ f[first] < w[0] /\ first + k <= n /\ first \in Nat /\ first + k = n
        /\ n \in Nat /\ k \in Nat /\ k \in 0 .. k /\ 256 \in Nat
        /\ Geometric(w, 256, k) /\ Numbers(in, 256, n, f)
        /\ \A i \in 1 .. n : in[i] \in 0 .. 256 - 1
    BY <1>9, <2>1, <2>2, SMTT(30)
  <2>. HIDE DEF first, n, k
  <2>4. \A i \in 0 .. k : f[first + i] < w[i]
    BY <2>3, NumberBelow, ZenonT(60)
  <2>5. f[n] < w[k]
    BY <2>3, <2>4
  <2>6. f[25] < w[24]
    BY <2>5 DEF n, k
  <2>. QED
    BY <2>1, <2>6 DEF v
<1>13. y[24] \in Nat /\ x[33] \in Nat /\ x[34] \in Nat
  BY <1>7
<1>14. x[33] <= v /\ v < x[34]
  <2>. DEFINE a == y[24]
              b == x[33]
              c == x[34]
  <2>1. /\ a \in Nat /\ b \in Nat /\ c \in Nat /\ b <= 40 * a /\ 41 * a <= c
        /\ 40 * a <= v /\ v < 41 * a
    BY <1>6, <1>11, <1>12, <1>13
  <2>. HIDE DEF a, b, c
  <2>2. b <= v /\ v < c
    BY <1>9, <2>1
  <2>. QED
    BY <2>2 DEF b, c
<1>15. m # 0
  <2>1. m = 0 => v = 0
    BY DEF Numbers, v
  <2>2. x[33] # 0
    <3>1. 0 \in Nat /\ 33 \in Nat /\ 0 <= 33 /\ 58 \in Nat \ {0}
      OBVIOUS
    <3>2. x[0] <= x[33]
      BY <1>4, <3>1, PowersGrow
    <3>. QED
      BY <1>7, <1>13, <3>2
  <2>. DEFINE a == x[33]
  <2>3. a \in Nat /\ a # 0 /\ a <= v /\ v \in Nat
    BY <1>9, <1>13, <1>14, <2>2
  <2>. HIDE DEF a
  <2>4. v # 0
    BY <2>3
  <2>. QED
    BY <2>1, <2>4
<1>16. x[m - 1] \in Nat /\ x[m] \in Nat /\ x[m - 1] <= v /\ v < x[m]
  <2>1. m \in Nat \ {0} /\ 58 \in Nat \ {0} /\ e[1] # 0
    BY <1>15
  <2>2. x[m - 1] \in Nat /\ x[m] \in Nat /\ x[m - 1] <= g[m] /\ g[m] < x[m]
    BY <1>4, <2>1, DigitsOfNumber
  <2>. QED
    BY <2>2 DEF v
<1>17. m > 33
  <2>. SUFFICES ASSUME m <= 33 PROVE FALSE
    OBVIOUS
  <2>1. x[m] <= x[33]
    <3>1. 33 \in Nat /\ 58 \in Nat \ {0}
      OBVIOUS
    <3>. QED
      BY <1>4, <3>1, PowersGrow
  <2>. DEFINE a == x[m]
              b == x[33]
  <2>2. a \in Nat /\ b \in Nat /\ a <= b /\ b <= v /\ v < a /\ v \in Nat
    BY <1>9, <1>13, <1>14, <1>16, <2>1
  <2>. HIDE DEF a, b
  <2>. QED
    BY <2>2
<1>18. m < 35
  <2>. SUFFICES ASSUME m >= 35 PROVE FALSE
    OBVIOUS
  <2>1. m - 1 \in Nat /\ 34 <= m - 1 /\ 34 \in Nat
    OBVIOUS
  <2>2. x[34] <= x[m - 1]
    <3>1. 58 \in Nat \ {0}
      OBVIOUS
    <3>. QED
      BY <1>4, <2>1, <3>1, PowersGrow
  <2>. DEFINE a == x[m - 1]
              b == x[34]
  <2>3. a \in Nat /\ b \in Nat /\ b <= a /\ a <= v /\ v < b /\ v \in Nat
    BY <1>9, <1>13, <1>14, <1>16, <2>2
  <2>. HIDE DEF a, b
  <2>. QED
    BY <2>3
<1>. QED
  BY <1>17, <1>18

\* What base58_encode writes for up to MAX_ENC_INPUT_SIZE bytes.
LEMMA EncodeIs ==
    ASSUME NEW in \in Seq(Byte256), Len(in) <= 120
    PROVE  IsEncoded(Addresses!Encode(in, 2 * Len(in)), in)
<1>. DEFINE size == Len(in)
            z == Addresses!LeadingZeros(in)
            bytes == Addresses!Significant(in)
            k == Len(bytes)
            room == Addresses!OutputSize(k)
            buffer == Addresses!Encoding(bytes, room)[k].buffer
            e == Addresses!Significant(buffer)
            text == Addresses!Encode(in, 2 * Len(in))
<1>1. size \in 0 .. 120 /\ size \in Nat /\ \A i \in 1 .. size : in[i] \in Byte256
  <2>1. size \in Nat /\ \A i \in 1 .. size : in[i] \in Byte256
    BY LenProperties
  <2>2. size <= 120
    OBVIOUS
  <2>. HIDE DEF size
  <2>. QED
    BY <2>1, <2>2
<1>2. in \in Seq(0 .. 256 - 1) /\ in \in Seq(Nat) /\ 256 \in Nat \ {0} /\ 256 \in Nat
  <2>1. Byte256 = 0 .. 256 - 1
    BY DEF Byte256
  <2>2. \A b \in 0 .. 256 - 1 : b \in Nat
    OBVIOUS
  <2>3. \A i \in 1 .. Len(in) : in[i] \in Nat
    BY <1>1, <2>1, <2>2
  <2>4. in \in Seq(Nat)
    BY <2>3, LenProperties, SeqDef
  <2>. QED
    BY <2>1, <2>4
<1>3. PICK f : Numbers(in, 256, size, f)
  BY <1>2, DenotesIs
<1>4. /\ Leads(z, in) /\ Pure(bytes, 256, f[size]) /\ k = size - z
  BY <1>2, <1>3, SignificantIs, ZenonT(60)
<1>. HIDE DEF size, z, bytes, k
<1>5. z \in 0 .. size /\ z \in Nat /\ k \in 0 .. 120 /\ k \in Nat /\ z + k = size
  <2>1. z \in 0 .. size
    BY <1>4 DEF Leads, size
  <2>. QED
    BY <1>1, <1>4, <2>1
<1>6. PICK b : Numbers(bytes, 256, k, b) /\ b[k] = f[size]
  BY <1>4 DEF Pure, k
<1>7. bytes \in Seq(Byte256) /\ \A i \in 1 .. k : bytes[i] \in 0 .. 256 - 1
  <2>1. bytes \in Seq(0 .. 256 - 1)
    BY <1>4 DEF Pure
  <2>2. Byte256 = 0 .. 256 - 1
    BY DEF Byte256
  <2>. QED
    BY <2>1, <2>2, LenProperties DEF k
<1>8. PICK g : /\ Numbers(buffer, 58, room, g) /\ g[room] = f[size]
               /\ room \in Nat /\ buffer \in [1 .. room -> Digit58]
  BY <1>6, <1>7, EncodingIs DEF k
<1>. HIDE DEF buffer, room, text
<1>9. buffer \in Seq(0 .. 58 - 1) /\ Len(buffer) = room
  <2>1. Digit58 = 0 .. 58 - 1
    BY DEF Digit58
  <2>. QED
    BY <1>8, <2>1, SeqDef, LenProperties
<1>10. Pure(e, 58, f[size]) /\ Len(e) = room - Addresses!LeadingZeros(buffer)
       /\ Leads(Addresses!LeadingZeros(buffer), buffer)
  <2>1. Numbers(buffer, 58, Len(buffer), g) /\ g[Len(buffer)] = f[size] /\ 58 \in Nat \ {0}
    BY <1>8, <1>9
  <2>. QED
    BY <1>9, <2>1, SignificantIs
<1>. HIDE DEF e
<1>11. Len(e) <= room /\ Len(e) \in Nat
  <2>1. Addresses!LeadingZeros(buffer) \in 0 .. room
    BY <1>9, <1>10 DEF Leads
  <2>. QED
    BY <1>8, <1>10, <2>1
<1>12. PICK y : Powers(256, y)
  BY <1>2, PowersExist
<1>13. f[size] \in Nat /\ f[size] < y[k]
  <2>. DEFINE w == [i \in 0 .. k |-> y[i]]
  <2>1. Geometric(w, 256, k) /\ w[0] = 1 /\ w[k] = y[k]
    <3>1. k \in 0 .. k
      BY <1>5
    <3>. QED
      <4>1. Geometric(w, 256, k) /\ w[0] = 1 /\ \A i \in 0 .. k : w[i] = y[i]
        BY <1>5, <1>12, PowersUpTo
      <4>. HIDE DEF w
      <4>. QED
        BY <3>1, <4>1
  <2>. HIDE DEF w
  <2>. DEFINE first == 0
  <2>2. /\ b[first] < w[0] /\ first + k <= k /\ first \in Nat /\ first + k = k /\ k \in 0 .. k
    BY <1>5, <1>6, <2>1 DEF Numbers
  <2>. HIDE DEF first
  <2>3. \A i \in 0 .. k : b[first + i] < w[i]
    BY <1>2, <1>5, <1>6, <1>7, <2>1, <2>2, NumberBelow
  <2>4. b[k] < y[k]
    BY <2>1, <2>2, <2>3
  <2>5. b[k] \in Nat
    BY <1>5, <1>6, <2>2 DEF Numbers, Appends
  <2>. QED
    BY <1>6, <2>4, <2>5
<1>14. Len(e) <= 2 * k /\ Len(e) <= k + 44
  BY <1>5, <1>10, <1>11, <1>12, <1>13, DigitsNeeded DEF room
<1>. DEFINE m == Len(e)
<1>15. m \in Nat /\ m <= 2 * k /\ m <= k + 44
  BY <1>11, <1>14
<1>. HIDE DEF m
<1>16. ~(size > 120) /\ ~(2 * size < z + m) /\ z + m <= 164
  BY <1>1, <1>5, <1>15
<1>17. text = Addresses!Zeros(z) \o e
  <2>1. Addresses!MaxEncInput = 120
    BY DEF Addresses!MaxEncInput
  <2>2. text = IF size > Addresses!MaxEncInput \/ 2 * size < z + m
               THEN Addresses!Failed ELSE Addresses!Zeros(z) \o e
    BY DEF text, Addresses!Encode, size, z, m, e, buffer, room, bytes, k
  <2>. QED
    BY <1>16, <2>1, <2>2
<1>18. /\ text \in Seq(0 .. 58 - 1) /\ Len(text) = z + m
       /\ Addresses!LeadingZeros(text) = z
       /\ \E t : Numbers(text, 58, Len(text), t) /\ t[Len(text)] = f[size]
  <2>1. 58 \in Nat \ {0}
    OBVIOUS
  <2>2. Padded(text, 58, z, Len(e), f[size])
    BY <1>5, <1>10, <1>17, <2>1, ZerosInFront
  <2>. QED
    BY <2>2 DEF m, Padded
<1>19. ASSUME size = 25, in[1] = 40
       PROVE  z + m = 34
  <2>1. z = 0
    <3>1. in[1] # 0
      BY <1>19
    <3>2. \A i \in 1 .. z : in[i] = 0
      BY <1>4 DEF Leads
    <3>3. z > 0 => 1 \in 1 .. z
      BY <1>5
    <3>. QED
      BY <1>5, <3>1, <3>2, <3>3
  <2>2. PICK h : Numbers(e, 58, m, h) /\ h[m] = f[size]
    BY <1>10 DEF Pure, m
  <2>3. e \in Seq(0 .. 58 - 1) /\ (m > 0 => e[1] # 0)
    BY <1>10 DEF Pure, m
  <2>4. \A i \in 1 .. m : e[i] \in 0 .. 58 - 1
    BY <2>3, LenProperties DEF m
  <2>5. Numbers(in, 256, 25, f) /\ h[m] = f[25] /\ \A i \in 1 .. 25 : in[i] \in Byte256
    BY <1>1, <1>3, <1>19, <2>2
  <2>6. m = 34
    BY <1>15, <1>19, <2>2, <2>3, <2>4, <2>5, AddressDigits
  <2>. QED
    BY <2>1, <2>6
<1>20. text \in Seq(Digit58)
  <2>1. Digit58 = 0 .. 58 - 1
    BY DEF Digit58
  <2>. QED
    BY <1>18, <2>1
<1>21. Len(text) <= 164
  BY <1>16, <1>18
<1>22. \E u, t : /\ Numbers(in, 256, Len(in), u) /\ Numbers(text, 58, Len(text), t)
                 /\ t[Len(text)] = u[Len(in)]
  BY <1>3, <1>18 DEF size
<1>23. Len(in) = 25 /\ in[1] = 40 => Len(text) = 34
  BY <1>18, <1>19 DEF size
<1>24. Addresses!LeadingZeros(text) = Addresses!LeadingZeros(in)
  BY <1>18 DEF z
<1>25. IsEncoded(text, in)
  BY <1>20, <1>21, <1>22, <1>23, <1>24 DEF IsEncoded
<1>. QED
  BY <1>25 DEF text

(* base58_decode *)

\* A step of a long division: r is left of the digits before t, q is the new
\* digit and s is left.
Split(r, t, q, s) ==
    /\ q \in 0 .. 57 /\ s \in 0 .. 255 /\ 256 * q + s = 58 * r + t
    /\ r = 0 => q = 0

\* The digits while they are divided.
DivideStates(n) == [tmp : [1 .. n -> Digit58], remainder : Byte256]

LEMMA Byte256Of ==
    ASSUME NEW r \in 0 .. 255, NEW t \in 0 .. 57
    PROVE  Split(r, t, ((r * 58 + t) \div 256) % 256, (r * 58 + t) % 256)
<1>. DEFINE div == r * 58 + t
<1>1. div \in 0 .. 14847 /\ div = 58 * r + t
  BY SMTT(30)
<1>2. r = 0 => div \in 0 .. 57
  OBVIOUS
<1>. HIDE DEF div
<1>3. div \div 256 \in 0 .. 57 /\ div % 256 \in 0 .. 255 /\ div = 256 * (div \div 256) + (div % 256)
  BY <1>1
<1>4. \A q \in 0 .. 57 : q % 256 = q
  OBVIOUS
<1>5. (div \div 256) % 256 = div \div 256
  BY <1>3, <1>4
<1>6. div \in 0 .. 57 => div \div 256 = 0
  OBVIOUS
<1>7. Split(r, t, (div \div 256) % 256, div % 256)
  BY <1>1, <1>2, <1>3, <1>5, <1>6, SMTT(30) DEF Split
<1>. QED
  BY <1>7 DEF div

LEMMA DivideStateType ==
    ASSUME NEW n \in Nat, NEW tmp \in [1 .. n -> Digit58], NEW s \in Byte256
    PROVE  [tmp |-> tmp, remainder |-> s] \in DivideStates(n)
BY DEF DivideStates

LEMMA DivideDigitIs ==
    ASSUME NEW n \in Nat, NEW at \in DivideStates(n), NEW i \in 1 .. n
    PROVE  LET new == Addresses!DivideDigit(at, i)
           IN  /\ new \in DivideStates(n)
               /\ 256 * new.tmp[i] + new.remainder = 58 * at.remainder + at.tmp[i]
               /\ at.remainder = 0 => new.tmp[i] = 0
               /\ \A m \in 1 .. n : m # i => new.tmp[m] = at.tmp[m]
<1>. DEFINE r == at.remainder
            t == at.tmp[i]
            div == r * 58 + t
            q == (div \div 256) % 256
            s == div % 256
            tmp == [at.tmp EXCEPT ![i] = q]
            new == Addresses!DivideDigit(at, i)
<1>1. new = [tmp |-> tmp, remainder |-> s]
  BY DEF Addresses!DivideDigit
<1>2. at.tmp \in [1 .. n -> Digit58] /\ r \in 0 .. 255 /\ t \in 0 .. 57
  BY DEF DivideStates, Digit58, Byte256
<1>. HIDE DEF r, t
<1>3. /\ q \in 0 .. 57 /\ s \in 0 .. 255 /\ 256 * q + s = 58 * r + t
      /\ r = 0 => q = 0
  <2>1. Split(r, t, ((r * 58 + t) \div 256) % 256, (r * 58 + t) % 256)
    BY <1>2, Byte256Of
  <2>2. Split(r, t, q, s)
    BY <2>1
  <2>. QED
    BY <2>2 DEF Split
<1>. HIDE DEF q, s, div
<1>4. q \in Digit58 /\ s \in Byte256
  BY <1>3 DEF Digit58, Byte256
<1>5. /\ tmp \in [1 .. n -> Digit58] /\ tmp[i] = q
      /\ \A m \in 1 .. n : m # i => tmp[m] = at.tmp[m]
  <2>. DEFINE old == at.tmp
  <2>1. old \in [1 .. n -> Digit58] /\ tmp = [old EXCEPT ![i] = q]
    BY <1>2
  <2>. HIDE DEF old, tmp
  <2>2. /\ tmp \in [1 .. n -> Digit58] /\ tmp[i] = q
        /\ \A m \in 1 .. n : m # i => tmp[m] = old[m]
    BY <1>4, <2>1
  <2>. QED
    BY <2>2 DEF old
<1>. HIDE DEF tmp, new
<1>6. new.tmp = tmp /\ new.remainder = s
  BY <1>1
<1>7. new \in DivideStates(n)
  <2>1. tmp \in [1 .. n -> Digit58] /\ s \in Byte256
    BY <1>4, <1>5
  <2>. QED
    BY <1>1, <2>1, DivideStateType
<1>8. 256 * new.tmp[i] + new.remainder = 58 * at.remainder + at.tmp[i]
  <2>1. new.tmp[i] = q
    BY <1>5, <1>6
  <2>. QED
    BY <1>3, <1>6, <2>1 DEF r, t
<1>9. at.remainder = 0 => new.tmp[i] = 0
  BY <1>3, <1>5, <1>6 DEF r
<1>. QED
  BY <1>5, <1>6, <1>7, <1>8, <1>9 DEF new

\* The state after each digit.
LEMMA DividingAre ==
    ASSUME NEW n \in Nat, NEW tmp \in [1 .. n -> Digit58], NEW start \in 1 .. n + 1
    PROVE  LET at == Addresses!Dividing(tmp, start)
               m == n + 1 - start
           IN  /\ at[0] = [tmp |-> tmp, remainder |-> 0]
               /\ \A k \in 0 .. m : at[k] \in DivideStates(n)
               /\ \A k \in 1 .. m : at[k] = Addresses!DivideDigit(at[k - 1], start + k - 1)
<1>. DEFINE m == n + 1 - start
            begin == [tmp |-> tmp, remainder |-> 0]
            Turn(k, at) == Addresses!DivideDigit(at, start + k - 1)
            States == DivideStates(n)
            next == [k \in 1 .. m |-> [at \in States |-> Turn(k, at)]]
            IsDividing(f) == f = [k \in 0 .. m |-> IF k = 0 THEN begin ELSE Turn(k, f[k - 1])]
            dividing == Addresses!Dividing(tmp, start)
<1>1. Len(tmp) = n
  BY LenProperties
<1>2. begin \in States
  BY DEF DivideStates, Byte256
<1>3. m \in Nat /\ \A k \in 1 .. m : start + k - 1 \in 1 .. n
  OBVIOUS
<1>4. dividing = CHOOSE f : IsDividing(f)
  BY <1>1 DEF Addresses!Dividing
<1>. HIDE DEF m
<1>5. \A k \in 1 .. m, at \in States : Turn(k, at) \in States
  BY <1>3, DivideDigitIs
<1>6. Turning(States, m, next)
  BY <1>5 DEF Turning
<1>7. \A k \in 1 .. m, at \in States : next[k][at] = Turn(k, at)
  OBVIOUS
<1>. HIDE DEF next, Turn, begin, dividing, States
<1>8. PICK f : AfterTurns(States, m, begin, next, f)
  BY <1>2, <1>3, <1>6, LoopExists
<1>9. \A k \in 0 .. m : k # 0 => k \in 1 .. m /\ k - 1 \in 0 .. m
  BY <1>3
<1>10. IsDividing(f)
  <2>1. \A k \in 0 .. m : f[k] = IF k = 0 THEN begin ELSE Turn(k, f[k - 1])
    BY <1>7, <1>8, <1>9 DEF AfterTurns
  <2>. QED
    BY <1>8, <2>1 DEF AfterTurns
<1>11. IsDividing(dividing)
  <2>. HIDE DEF IsDividing
  <2>. QED
    BY <1>4, <1>10
<1>12. 0 \in 0 .. m /\ \A k \in 1 .. m : k \in 0 .. m /\ k # 0
  BY <1>3
<1>13. dividing[0] = begin /\ \A k \in 1 .. m : dividing[k] = Turn(k, dividing[k - 1])
  BY <1>11, <1>12
<1>. DEFINE Done == {k \in 0 .. m : dividing[k] \in States}
<1>. HIDE DEF IsDividing
<1>14. 0 \in Done
  BY <1>2, <1>12, <1>13
<1>15. ASSUME NEW k \in 0 .. m - 1, k \in Done
       PROVE  k + 1 \in Done
  <2>1. k + 1 \in 1 .. m /\ k + 1 \in 0 .. m /\ k + 1 - 1 = k
    BY <1>3
  <2>2. dividing[k + 1] = Turn(k + 1, dividing[k])
    BY <1>13, <2>1
  <2>. QED
    BY <1>5, <1>15, <2>1, <2>2
<1>16. \A k \in 0 .. m : k \in Done
  <2>. HIDE DEF Done
  <2>. QED
    BY <1>3, <1>14, <1>15, NumbersUpTo
<1>. QED
  BY <1>13, <1>16 DEF Turn, begin, dividing, States, m

\* What holds after k digits of a division: rho[i] was left over at digit i.
DivideInv(n, d, start, at, rho, k) ==
    /\ \A i \in 1 .. start - 1 : at.tmp[i] = 0
    /\ \A i \in start .. start + k - 1 :
          256 * at.tmp[i] + rho[i] = 58 * rho[i - 1] + d[i]
    /\ \A i \in start + k .. n : at.tmp[i] = d[i]
    /\ k > 0 => at.tmp[start] = 0

LEMMA DivideInvHolds ==
    ASSUME NEW n \in Nat, NEW d \in [1 .. n -> Digit58], NEW start \in 1 .. n + 1,
           \A i \in 1 .. start - 1 : d[i] = 0,
           NEW at, at = Addresses!Dividing(d, start),
           NEW rho, rho = [i \in 0 .. n |-> IF i < start THEN 0 ELSE at[i + 1 - start].remainder],
           NEW k \in 0 .. n + 1 - start
    PROVE  DivideInv(n, d, start, at[k], rho, k)
<1>. DEFINE m == n + 1 - start
<1>1. /\ at[0] = [tmp |-> d, remainder |-> 0]
      /\ \A i \in 0 .. m : at[i] \in DivideStates(n)
      /\ \A i \in 1 .. m : at[i] = Addresses!DivideDigit(at[i - 1], start + i - 1)
  BY DividingAre
<1>2. m \in Nat
  OBVIOUS
<1>3. \A i \in 0 .. m : start + i - 1 \in 0 .. n /\ rho[start + i - 1] = at[i].remainder
  <2>1. \A i \in 0 .. m : start + i - 1 \in 0 .. n /\ (start + i - 1) + 1 - start = i
                          /\ (start + i - 1 < start => i = 0)
    OBVIOUS
  <2>2. at[0].remainder = 0
    BY <1>1
  <2>. QED
    BY <2>1, <2>2
<1>. DEFINE Holds == {i \in 0 .. m : DivideInv(n, d, start, at[i], rho, i)}
<1>4. 0 \in Holds
  <2>1. at[0].tmp = d
    BY <1>1
  <2>2. 0 \in 0 .. m /\ start + 0 = start /\ ~(0 > 0) /\ \A i : i \notin start .. start + 0 - 1
    BY <1>2
  <2>3. DivideInv(n, d, start, at[0], rho, 0)
    BY <2>1, <2>2 DEF DivideInv
  <2>. QED
    BY <2>2, <2>3
<1>5. ASSUME NEW i \in 0 .. m - 1, i \in Holds
      PROVE  i + 1 \in Holds
  <2>. DEFINE s == at[i]
              t == at[i + 1]
              j == start + i
  <2>1. /\ i + 1 \in 1 .. m /\ i + 1 \in 0 .. m /\ i \in 0 .. m /\ (i + 1) - 1 = i
        /\ start + (i + 1) - 1 = j /\ start + i - 1 = j - 1 /\ j \in 1 .. n /\ j >= start
        /\ start + (i + 1) = j + 1 /\ j \in Nat /\ i + 1 > 0 /\ (i = 0 => j = start)
        /\ (i # 0 => i > 0 /\ start # j)
    OBVIOUS
  <2>2. s \in DivideStates(n) /\ t = Addresses!DivideDigit(s, j)
    BY <1>1, <2>1
  <2>3. rho[j - 1] = s.remainder /\ rho[j] = t.remainder
    <3>1. rho[start + i - 1] = s.remainder /\ rho[start + (i + 1) - 1] = t.remainder
      BY <1>3, <2>1
    <3>. HIDE DEF s, t, j
    <3>. QED
      BY <2>1, <3>1
  <2>4. /\ \A x \in 1 .. start - 1 : s.tmp[x] = 0
        /\ \A x \in start .. j - 1 : 256 * s.tmp[x] + rho[x] = 58 * rho[x - 1] + d[x]
        /\ \A x \in j .. n : s.tmp[x] = d[x]
        /\ i > 0 => s.tmp[start] = 0
    <3>1. DivideInv(n, d, start, s, rho, i)
      BY <1>5
    <3>. HIDE DEF s, m
    <3>2. \A x \in start .. start + i - 1 : 256 * s.tmp[x] + rho[x] = 58 * rho[x - 1] + d[x]
      BY <3>1 DEF DivideInv
    <3>3. \A x \in start + i .. n : s.tmp[x] = d[x]
      BY <3>1 DEF DivideInv
    <3>4. /\ \A x \in 1 .. start - 1 : s.tmp[x] = 0
          /\ i > 0 => s.tmp[start] = 0
      BY <3>1 DEF DivideInv
    <3>5. j - 1 = start + i - 1
      OBVIOUS
    <3>. QED
      BY <3>2, <3>3, <3>4, <3>5
  <2>5. i = 0 => s.remainder = 0
    BY <1>1
  <2>. HIDE DEF s, t, j
  <2>6. /\ 256 * t.tmp[j] + t.remainder = 58 * s.remainder + s.tmp[j]
        /\ s.remainder = 0 => t.tmp[j] = 0
        /\ \A x \in 1 .. n : x # j => t.tmp[x] = s.tmp[x]
    <3>1. j \in 1 .. n
      BY <2>1
    <3>. QED
      BY <2>2, <3>1, DivideDigitIs, ZenonT(60)
  <2>7. \A x \in 1 .. start - 1 : t.tmp[x] = 0
    <3>1. \A x \in 1 .. start - 1 : x \in 1 .. n /\ x # j
      BY <2>1
    <3>. QED
      BY <2>4, <2>6, <3>1
  <2>8. \A x \in j + 1 .. n : t.tmp[x] = d[x]
    <3>1. \A x \in j + 1 .. n : x \in 1 .. n /\ x # j /\ x \in j .. n
      BY <2>1
    <3>. QED
      BY <2>4, <2>6, <3>1
  <2>9. t.tmp[start] = 0
    <3>1. start \in 1 .. n
      BY <2>1
    <3>. QED
      BY <2>1, <2>4, <2>5, <2>6, <3>1
  <2>10. 256 * t.tmp[j] + rho[j] = 58 * rho[j - 1] + d[j]
    <3>1. j \in j .. n
      BY <2>1
    <3>2. s.tmp[j] = d[j]
      BY <2>4, <3>1
    <3>. QED
      BY <2>3, <2>6, <3>2
  <2>11. \A x \in start .. j : 256 * t.tmp[x] + rho[x] = 58 * rho[x - 1] + d[x]
    <3>. TAKE x \in start .. j
    <3>1. CASE x = j
      BY <2>10, <3>1
    <3>2. CASE x # j
      <4>1. x \in start .. j - 1 /\ x \in 1 .. n
        BY <2>1, <3>2
      <4>2. 256 * s.tmp[x] + rho[x] = 58 * rho[x - 1] + d[x]
        BY <2>4, <4>1
      <4>3. t.tmp[x] = s.tmp[x]
        BY <2>6, <3>2, <4>1
      <4>. QED
        BY <4>2, <4>3
    <3>. QED
      BY <3>1, <3>2
  <2>12. DivideInv(n, d, start, t, rho, i + 1)
    BY <2>1, <2>7, <2>8, <2>9, <2>11, ZenonT(60) DEF DivideInv
  <2>. QED
    BY <2>1, <2>12 DEF t
<1>6. \A i \in 0 .. m : i \in Holds
  <2>. HIDE DEF Holds, m
  <2>. QED
    BY <1>2, <1>4, <1>5, NumbersUpTo
<1>. QED
  BY <1>6

LEMMA DigitsDenote ==
    ASSUME NEW n \in Nat, NEW d \in [1 .. n -> Digit58]
    PROVE  /\ \E f : Numbers(d, 58, n, f) /\ Denotes(d, 58) = f[n]
           /\ Denotes(d, 58) \in Nat
<1>1. \A t \in Digit58 : t \in Nat
  BY DEF Digit58
<1>2. d \in [1 .. n -> Nat]
  BY <1>1
<1>3. d \in Seq(Nat) /\ Len(d) = n
  BY <1>2, SeqDef, LenProperties
<1>4. \E f : Numbers(d, 58, Len(d), f) /\ Denotes(d, 58) = f[Len(d)]
  BY <1>3, DenotesIs
<1>5. PICK f : Numbers(d, 58, n, f) /\ Denotes(d, 58) = f[n]
  BY <1>3, <1>4
<1>6. n \in 0 .. n
  OBVIOUS
<1>7. f[n] \in Nat
  BY <1>5, <1>6 DEF Numbers, Appends
<1>. QED
  BY <1>5, <1>7

\* A pass of base58_decode divides the number by 256 and leaves the remainder;
\* its first digit becomes 0.
LEMMA DividedIs ==
    ASSUME NEW n \in Nat, NEW d \in [1 .. n -> Digit58], NEW start \in 1 .. n,
           \A i \in 1 .. start - 1 : d[i] = 0
    PROVE  LET pass == Addresses!Divided(d, start)
           IN  /\ pass \in DivideStates(n)
               /\ \A i \in 1 .. start : pass.tmp[i] = 0
               /\ Denotes(pass.tmp, 58) \in Nat
               /\ Denotes(d, 58) = 256 * Denotes(pass.tmp, 58) + pass.remainder
<1>. DEFINE at == Addresses!Dividing(d, start)
            m == n + 1 - start
            rho == [i \in 0 .. n |-> IF i < start THEN 0 ELSE at[i + 1 - start].remainder]
            pass == Addresses!Divided(d, start)
            e == pass.tmp
<1>1. Len(d) = n
  BY LenProperties
<1>2. pass = at[m]
  BY <1>1 DEF Addresses!Divided
<1>3. m \in Nat /\ m > 0 /\ m \in 0 .. n + 1 - start /\ m \in 0 .. m /\ start \in 1 .. n + 1
      /\ start + m - 1 = n
  OBVIOUS
<1>4. \A i \in 0 .. m : at[i] \in DivideStates(n)
  BY <1>3, DividingAre
<1>5. DivideInv(n, d, start, at[m], rho, m)
  <2>. HIDE DEF at
  <2>. DEFINE k == m
  <2>1. k \in 0 .. n + 1 - start
    BY <1>3
  <2>2. at = Addresses!Dividing(d, start)
    BY DEF at
  <2>. HIDE DEF k, rho
  <2>3. rho = [i \in 0 .. n |-> IF i < start THEN 0 ELSE at[i + 1 - start].remainder]
    BY DEF rho
  <2>4. DivideInv(n, d, start, at[k], rho, k)
    BY <1>3, <2>1, <2>2, <2>3, DivideInvHolds
  <2>. QED
    BY <2>4 DEF k
<1>6. pass \in DivideStates(n)
  BY <1>2, <1>3, <1>4
<1>7. e \in [1 .. n -> Digit58] /\ \A i \in 1 .. n : e[i] \in Nat
  <2>1. e \in [1 .. n -> Digit58]
    BY <1>6 DEF DivideStates
  <2>2. \A t \in Digit58 : t \in Nat
    BY DEF Digit58
  <2>. QED
    BY <2>1, <2>2
<1>8. rho[0] = 0 /\ rho \in [0 .. n -> Nat] /\ rho[n] = pass.remainder
  <2>1. \A i \in 0 .. n : ~(i < start) => i + 1 - start \in 0 .. m
    OBVIOUS
  <2>2. \A i \in 0 .. m : at[i].remainder \in Nat
    <3>1. \A i \in 0 .. m : at[i].remainder \in Byte256
      BY <1>4 DEF DivideStates
    <3>2. \A t \in Byte256 : t \in Nat
      BY DEF Byte256
    <3>. QED
      BY <3>1, <3>2
  <2>3. 0 < start /\ 0 \in 0 .. n /\ n \in 0 .. n /\ ~(n < start) /\ n + 1 - start = m
    OBVIOUS
  <2>4. rho[0] = 0 /\ rho[n] = at[m].remainder
    BY <2>3
  <2>. HIDE DEF at, m, pass
  <2>5. \A i \in 0 .. n : (IF i < start THEN 0 ELSE at[i + 1 - start].remainder) \in Nat
    BY <2>1, <2>2
  <2>. QED
    BY <1>2, <2>4, <2>5
<1>. HIDE DEF at, rho, m, pass
<1>9. /\ \A i \in 1 .. start - 1 : e[i] = 0
      /\ \A i \in start .. n : 256 * e[i] + rho[i] = 58 * rho[i - 1] + d[i]
      /\ e[start] = 0
  BY <1>2, <1>3, <1>5 DEF DivideInv
<1>10. \A i \in 1 .. start - 1 : rho[i] = 0 /\ rho[i - 1] = 0
  BY DEF rho
<1>. HIDE DEF e
<1>11. \A i \in 1 .. n : 256 * e[i] + rho[i] = 58 * rho[i - 1] + d[i]
  <2>. TAKE i \in 1 .. n
  <2>1. CASE i \in start .. n
    BY <1>9, <2>1
  <2>2. CASE i \in 1 .. start - 1
    BY <1>9, <1>10, <2>2
  <2>. QED
    BY <2>1, <2>2
<1>12. PICK T : Numbers(d, 58, n, T) /\ Denotes(d, 58) = T[n]
  BY DigitsDenote
<1>13. PICK Q : Numbers(e, 58, n, Q) /\ Denotes(e, 58) = Q[n] /\ Denotes(e, 58) \in Nat
  BY <1>7, DigitsDenote
<1>14. /\ T[0] = 0 /\ \A i \in 1 .. n : T[i] = T[i - 1] * 58 + d[i]
       /\ Q[0] = 0 /\ \A i \in 1 .. n : Q[i] = Q[i - 1] * 58 + e[i]
       /\ Q \in [0 .. n -> Nat] /\ T \in [0 .. n -> Nat]
  BY <1>12, <1>13 DEF Numbers, Appends
<1>. DEFINE Same == {i \in 0 .. n : T[i] = 256 * Q[i] + rho[i]}
<1>15. 0 \in Same
  BY <1>8, <1>14
<1>16. ASSUME NEW i \in 0 .. n - 1, i \in Same
       PROVE  i + 1 \in Same
  <2>1. i + 1 \in 1 .. n /\ i + 1 \in 0 .. n /\ i \in 0 .. n /\ (i + 1) - 1 = i
    OBVIOUS
  <2>. DEFINE a == T[i]
              b == Q[i]
              r == rho[i]
              s == rho[i + 1]
              u == d[i + 1]
              v == e[i + 1]
  <2>2. 256 * v + s = 58 * r + u
    BY <1>11, <2>1
  <2>3. a = 256 * b + r
    BY <1>16
  <2>4. T[i + 1] = a * 58 + u /\ Q[i + 1] = b * 58 + v
    BY <1>14, <2>1
  <2>5. a \in Nat /\ b \in Nat /\ r \in Nat /\ s \in Nat
    BY <1>8, <1>14, <2>1
  <2>6. u \in Nat /\ v \in Nat
    <3>1. d[i + 1] \in Digit58 /\ v \in Nat
      BY <1>7, <2>1
    <3>2. \A x \in Digit58 : x \in Nat
      BY DEF Digit58
    <3>. QED
      BY <3>1, <3>2
  <2>. HIDE DEF a, b, r, s, u, v
  <2>7. a * 58 + u = 256 * (b * 58 + v) + s
    BY <2>2, <2>3, <2>5, <2>6
  <2>8. T[i + 1] = 256 * Q[i + 1] + rho[i + 1]
    BY <2>4, <2>7 DEF s
  <2>. QED
    BY <2>1, <2>8
<1>17. \A i \in 0 .. n : i \in Same
  <2>. HIDE DEF Same
  <2>. QED
    BY <1>15, <1>16, NumbersUpTo
<1>18. T[n] = 256 * Q[n] + pass.remainder
  <2>1. n \in 0 .. n
    OBVIOUS
  <2>2. T[n] = 256 * Q[n] + rho[n]
    BY <1>17, <2>1
  <2>. QED
    BY <1>8, <2>2
<1>19. \A i \in 1 .. start : e[i] = 0
  <2>1. \A i \in 1 .. start : i = start \/ i \in 1 .. start - 1
    OBVIOUS
  <2>. QED
    BY <1>9, <2>1
<1>20. Denotes(d, 58) = 256 * Denotes(e, 58) + pass.remainder
  BY <1>12, <1>13, <1>18
<1>. QED
  BY <1>6, <1>13, <1>19, <1>20 DEF pass, e

\* The arrays of base58_decode between its passes.
DecodeStates(n) ==
    [tmp : [1 .. n -> Digit58], start_at : 1 .. n + 1,
     buffer : [1 .. n -> Byte256], j : Int]

LEMMA DecodeStateType ==
    ASSUME NEW n \in Nat, NEW tmp \in [1 .. n -> Digit58], NEW start \in 1 .. n + 1,
           NEW buffer \in [1 .. n -> Byte256], NEW j \in Int
    PROVE  [tmp |-> tmp, start_at |-> start, buffer |-> buffer, j |-> j] \in DecodeStates(n)
BY DEF DecodeStates

\* A pass: the digit at start_at becomes 0, and the remainder is put in front.
LEMMA NextRemainderIs ==
    ASSUME NEW n \in Nat, NEW at \in DecodeStates(n)
    PROVE  LET new == Addresses!NextRemainder(at)
           IN  /\ at.start_at > n => new = at
               /\ at.start_at <= n /\ (\A i \in 1 .. at.start_at - 1 : at.tmp[i] = 0) =>
                     /\ new \in DecodeStates(n)
                     /\ new.start_at = at.start_at + 1 /\ new.j = at.j - 1
                     /\ \A i \in 1 .. at.start_at : new.tmp[i] = 0
                     /\ at.j - 1 \in 1 .. n =>
                           /\ Denotes(at.tmp, 58) =
                                 256 * Denotes(new.tmp, 58) + new.buffer[at.j - 1]
                           /\ \A i \in 1 .. n : i # at.j - 1 => new.buffer[i] = at.buffer[i]
<1>. DEFINE new == Addresses!NextRemainder(at)
            pass == Addresses!Divided(at.tmp, at.start_at)
            start == at.start_at
            d == at.tmp
            p == at.j - 1
            b == at.buffer
            step == IF pass.tmp[start] = 0 THEN 1 ELSE 0
            filled == [b EXCEPT ![p] = pass.remainder]
            moved == [tmp |-> pass.tmp, start_at |-> start + step, buffer |-> filled, j |-> p]
<1>1. /\ d \in [1 .. n -> Digit58] /\ start \in 1 .. n + 1 /\ b \in [1 .. n -> Byte256]
      /\ at.j \in Int
  BY DEF DecodeStates
<1>2. Len(d) = n
  BY <1>1, LenProperties
<1>3. new = IF start > n THEN at ELSE moved
  BY <1>2 DEF Addresses!NextRemainder
<1>4. p \in Int
  BY <1>1
<1>5. ASSUME start <= n, \A i \in 1 .. start - 1 : d[i] = 0
      PROVE  /\ new \in DecodeStates(n)
             /\ new.start_at = start + 1 /\ new.j = p
             /\ \A i \in 1 .. start : new.tmp[i] = 0
             /\ p \in 1 .. n =>
                   /\ Denotes(d, 58) = 256 * Denotes(new.tmp, 58) + new.buffer[p]
                   /\ \A i \in 1 .. n : i # p => new.buffer[i] = b[i]
  <2>1. start \in 1 .. n /\ ~(start > n) /\ start \in 1 .. start /\ start + 1 \in 1 .. n + 1
    <3>. HIDE DEF start
    <3>. QED
      BY <1>1, <1>5
  <2>2. new = moved
    BY <1>3, <2>1
  <2>. HIDE DEF new, start, d, p, b
  <2>3. /\ pass \in DivideStates(n) /\ \A i \in 1 .. start : pass.tmp[i] = 0
        /\ Denotes(d, 58) = 256 * Denotes(pass.tmp, 58) + pass.remainder
    <3>1. pass = Addresses!Divided(d, start)
      BY DEF d, start
    <3>. HIDE DEF pass
    <3>. QED
      BY <1>1, <1>5, <2>1, <3>1, DividedIs
  <2>. HIDE DEF pass
  <2>4. pass.tmp \in [1 .. n -> Digit58] /\ pass.remainder \in Byte256
    BY <2>3 DEF DivideStates
  <2>5. step = 1
    BY <2>1, <2>3
  <2>6. /\ filled \in [1 .. n -> Byte256]
        /\ p \in 1 .. n => filled[p] = pass.remainder
        /\ p \in 1 .. n => \A i \in 1 .. n : i # p => filled[i] = b[i]
    BY <1>1, <2>4
  <2>. HIDE DEF step, filled
  <2>7. moved = [tmp |-> pass.tmp, start_at |-> start + 1, buffer |-> filled, j |-> p]
    BY <2>5
  <2>8. moved \in DecodeStates(n)
    <3>1. /\ pass.tmp \in [1 .. n -> Digit58] /\ start + 1 \in 1 .. n + 1
          /\ filled \in [1 .. n -> Byte256] /\ p \in Int
      BY <1>4, <2>1, <2>4, <2>6
    <3>. HIDE DEF moved
    <3>. QED
      BY <2>7, <3>1, DecodeStateType
  <2>. HIDE DEF moved
  <2>9. /\ new.tmp = pass.tmp /\ new.start_at = start + 1 /\ new.buffer = filled /\ new.j = p
    BY <2>2, <2>7
  <2>10. \A i \in 1 .. start : new.tmp[i] = 0
    BY <2>3, <2>9
  <2>11. ASSUME p \in 1 .. n
         PROVE  /\ Denotes(d, 58) = 256 * Denotes(new.tmp, 58) + new.buffer[p]
                /\ \A i \in 1 .. n : i # p => new.buffer[i] = b[i]
    <3>1. new.buffer[p] = pass.remainder /\ \A i \in 1 .. n : i # p => new.buffer[i] = b[i]
      BY <2>6, <2>9, <2>11
    <3>2. Denotes(d, 58) = 256 * Denotes(new.tmp, 58) + pass.remainder
      BY <2>3, <2>9
    <3>. QED
      BY <3>1, <3>2
  <2>12. new \in DecodeStates(n)
    BY <2>2, <2>8
  <2>. QED
    BY <2>9, <2>10, <2>11, <2>12
<1>6. start > n => new = at
  BY <1>3
<1>. QED
  BY <1>5, <1>6 DEF new, start, d, p, b

\* The digits before start_at are 0.
CleanStates(n) == {at \in DecodeStates(n) : \A i \in 1 .. at.start_at - 1 : at.tmp[i] = 0}

LEMMA StaysClean ==
    ASSUME NEW n \in Nat, NEW at \in CleanStates(n)
    PROVE  Addresses!NextRemainder(at) \in CleanStates(n)
<1>. DEFINE new == Addresses!NextRemainder(at)
<1>1. at \in DecodeStates(n) /\ \A i \in 1 .. at.start_at - 1 : at.tmp[i] = 0
  BY DEF CleanStates
<1>2. at.start_at \in 1 .. n + 1
  BY <1>1 DEF DecodeStates
<1>3. CASE at.start_at > n
  <2>1. new = at
    BY <1>1, <1>3, NextRemainderIs
  <2>. QED
    BY <2>1
<1>4. CASE ~(at.start_at > n)
  <2>1. at.start_at <= n
    BY <1>2, <1>4
  <2>2. /\ new \in DecodeStates(n) /\ new.start_at = at.start_at + 1
        /\ \A i \in 1 .. at.start_at : new.tmp[i] = 0
    BY <1>1, <2>1, NextRemainderIs
  <2>. HIDE DEF new
  <2>3. new.start_at - 1 = at.start_at
    <3>. DEFINE s == at.start_at
    <3>1. s \in 1 .. n + 1 /\ new.start_at = s + 1
      BY <1>2, <2>2
    <3>. HIDE DEF s
    <3>2. new.start_at - 1 = s
      BY <3>1
    <3>. QED
      BY <3>2 DEF s
  <2>4. \A i \in 1 .. new.start_at - 1 : new.tmp[i] = 0
    BY <2>2, <2>3
  <2>5. new \in CleanStates(n)
    BY <2>2, <2>4 DEF CleanStates
  <2>. QED
    BY <2>5 DEF new
<1>. QED
  BY <1>3, <1>4

\* The arrays after each pass.
LEMMA RemaindersAre ==
    ASSUME NEW n \in Nat, NEW text \in [1 .. n -> Digit58], NEW start \in 1 .. n + 1,
           \A i \in 1 .. start - 1 : text[i] = 0
    PROVE  LET at == Addresses!Remainders(text, start)
           IN  /\ at[0] = [tmp |-> text, start_at |-> start,
                           buffer |-> [i \in 1 .. n |-> 0], j |-> n + 1]
               /\ \A k \in 0 .. n : at[k] \in CleanStates(n)
               /\ \A k \in 1 .. n : at[k] = Addresses!NextRemainder(at[k - 1])
<1>. DEFINE zeros == [i \in 1 .. n |-> 0]
            begin == [tmp |-> text, start_at |-> start, buffer |-> zeros, j |-> n + 1]
            Turn(k, at) == Addresses!NextRemainder(at)
            States == CleanStates(n)
            next == [k \in 1 .. n |-> [at \in States |-> Turn(k, at)]]
            IsLoop(f) == f = [k \in 0 .. n |-> IF k = 0 THEN begin ELSE Turn(k, f[k - 1])]
            loop == Addresses!Remainders(text, start)
<1>1. Len(text) = n
  BY LenProperties
<1>2. begin \in States
  <2>1. zeros \in [1 .. n -> Byte256]
    BY DEF Byte256
  <2>2. n + 1 \in Int
    OBVIOUS
  <2>. DEFINE j == n + 1
  <2>. HIDE DEF zeros, j
  <2>3. begin \in DecodeStates(n)
    BY <2>1, <2>2, DecodeStateType DEF j
  <2>4. begin.start_at = start /\ begin.tmp = text
    OBVIOUS
  <2>. HIDE DEF begin
  <2>. QED
    BY <2>3, <2>4 DEF CleanStates
<1>3. loop = CHOOSE f : IsLoop(f)
  BY <1>1 DEF Addresses!Remainders, Addresses!Zeros
<1>4. \A k \in 1 .. n, at \in States : Turn(k, at) \in States
  BY StaysClean
<1>5. Turning(States, n, next)
  BY <1>4 DEF Turning
<1>6. \A k \in 1 .. n, at \in States : next[k][at] = Turn(k, at)
  OBVIOUS
<1>. HIDE DEF next, Turn, begin, loop, States
<1>7. PICK f : AfterTurns(States, n, begin, next, f)
  BY <1>2, <1>5, LoopExists
<1>8. \A k \in 0 .. n : k # 0 => k \in 1 .. n /\ k - 1 \in 0 .. n
  OBVIOUS
<1>9. IsLoop(f)
  <2>1. \A k \in 0 .. n : f[k] = IF k = 0 THEN begin ELSE Turn(k, f[k - 1])
    BY <1>6, <1>7, <1>8 DEF AfterTurns
  <2>. QED
    BY <1>7, <2>1 DEF AfterTurns
<1>10. IsLoop(loop)
  <2>. HIDE DEF IsLoop
  <2>. QED
    BY <1>3, <1>9
<1>11. 0 \in 0 .. n /\ \A k \in 1 .. n : k \in 0 .. n /\ k # 0
  OBVIOUS
<1>12. loop[0] = begin /\ \A k \in 1 .. n : loop[k] = Turn(k, loop[k - 1])
  BY <1>10, <1>11
<1>. DEFINE Done == {k \in 0 .. n : loop[k] \in States}
<1>. HIDE DEF IsLoop
<1>13. 0 \in Done
  BY <1>2, <1>11, <1>12
<1>14. ASSUME NEW k \in 0 .. n - 1, k \in Done
       PROVE  k + 1 \in Done
  <2>1. k + 1 \in 1 .. n /\ k + 1 \in 0 .. n /\ k + 1 - 1 = k
    OBVIOUS
  <2>2. loop[k + 1] = Turn(k + 1, loop[k])
    BY <1>12, <2>1
  <2>. QED
    BY <1>4, <1>14, <2>1, <2>2
<1>15. \A k \in 0 .. n : k \in Done
  <2>. HIDE DEF Done
  <2>. QED
    BY <1>13, <1>14, NumbersUpTo
<1>. QED
  BY <1>12, <1>15 DEF Turn, begin, loop, States, zeros

\* After k passes over the digits behind z zeros: with every remainder the
\* number is 256 times what was left of it.
RemaindersInv(n, z, at, k) ==
    /\ at[k] \in CleanStates(n)
    /\ at[k].start_at = z + 1 + k /\ at[k].j = n + 1 - k
    /\ \A i \in n - k + 1 .. n :
          Denotes(at[n - i].tmp, 58) = 256 * Denotes(at[n - i + 1].tmp, 58) + at[k].buffer[i]
    /\ \A i \in 1 .. n - k : at[k].buffer[i] = 0

LEMMA RemaindersInvHolds ==
    ASSUME NEW n \in Nat, NEW text \in [1 .. n -> Digit58], NEW z \in 0 .. n,
           \A i \in 1 .. z : text[i] = 0,
           NEW at, at = Addresses!Remainders(text, z + 1),
           NEW k \in 0 .. n - z
    PROVE  RemaindersInv(n, z, at, k)
<1>. DEFINE m == n - z
            begin == [tmp |-> text, start_at |-> z + 1,
                      buffer |-> [i \in 1 .. n |-> 0], j |-> n + 1]
<1>1. /\ at[0] = begin
      /\ \A i \in 0 .. n : at[i] \in CleanStates(n)
      /\ \A i \in 1 .. n : at[i] = Addresses!NextRemainder(at[i - 1])
  <2>1. z + 1 \in 1 .. n + 1 /\ (z + 1) - 1 = z
    OBVIOUS
  <2>. DEFINE start == z + 1
  <2>2. start \in 1 .. n + 1 /\ start - 1 = z /\ at = Addresses!Remainders(text, start)
    BY <2>1
  <2>3. begin = [tmp |-> text, start_at |-> start, buffer |-> [i \in 1 .. n |-> 0], j |-> n + 1]
    OBVIOUS
  <2>. HIDE DEF start, begin
  <2>. QED
    BY <2>2, <2>3, RemaindersAre
<1>2. m \in Nat /\ 0 \in 0 .. m /\ 0 \in 0 .. n
  OBVIOUS
<1>. DEFINE Holds == {i \in 0 .. m : RemaindersInv(n, z, at, i)}
<1>3. 0 \in Holds
  <2>1. /\ begin.start_at = z + 1 + 0 /\ begin.j = n + 1 - 0
        /\ \A i \in 1 .. n - 0 : begin.buffer[i] = 0
    OBVIOUS
  <2>2. \A i : i \notin n - 0 + 1 .. n
    OBVIOUS
  <2>3. RemaindersInv(n, z, at, 0)
    <3>. HIDE DEF begin
    <3>. QED
      BY <1>1, <1>2, <2>1, <2>2 DEF RemaindersInv
  <2>. QED
    BY <1>2, <2>3
<1>4. ASSUME NEW i \in 0 .. m - 1, i \in Holds
      PROVE  i + 1 \in Holds
  <2>. DEFINE s == at[i]
              t == at[i + 1]
              p == n - i
  <2>1. /\ i + 1 \in 1 .. n /\ i + 1 \in 0 .. n /\ i + 1 \in 0 .. m /\ i \in 0 .. n
        /\ (i + 1) - 1 = i /\ p \in 1 .. n /\ n - p = i /\ n - p + 1 = i + 1
        /\ z + 1 + i <= n /\ (n + 1 - i) - 1 = p /\ (z + 1 + i) + 1 = z + 1 + (i + 1)
        /\ p = n + 1 - (i + 1) /\ n - (i + 1) + 1 = p /\ n - (i + 1) = p - 1
    OBVIOUS
  <2>2. s \in CleanStates(n) /\ t \in CleanStates(n) /\ t = Addresses!NextRemainder(s)
    BY <1>1, <2>1
  <2>3. /\ s.start_at = z + 1 + i /\ s.j = n + 1 - i
        /\ \A x \in n - i + 1 .. n :
              Denotes(at[n - x].tmp, 58) = 256 * Denotes(at[n - x + 1].tmp, 58) + s.buffer[x]
        /\ \A x \in 1 .. n - i : s.buffer[x] = 0
    <3>1. RemaindersInv(n, z, at, i)
      BY <1>4
    <3>. QED
      BY <3>1 DEF RemaindersInv
  <2>. HIDE DEF s, t, p
  <2>4. s.start_at <= n /\ s.j - 1 = p
    BY <2>1, <2>3
  <2>5. /\ t.start_at = s.start_at + 1 /\ t.j = p
        /\ Denotes(s.tmp, 58) = 256 * Denotes(t.tmp, 58) + t.buffer[p]
        /\ \A x \in 1 .. n : x # p => t.buffer[x] = s.buffer[x]
    <3>1. s \in DecodeStates(n) /\ \A x \in 1 .. s.start_at - 1 : s.tmp[x] = 0
      BY <2>2 DEF CleanStates
    <3>2. p \in 1 .. n
      BY <2>1
    <3>3. /\ t.start_at = s.start_at + 1 /\ t.j = s.j - 1
          /\ s.j - 1 \in 1 .. n =>
                /\ Denotes(s.tmp, 58) = 256 * Denotes(t.tmp, 58) + t.buffer[s.j - 1]
                /\ \A x \in 1 .. n : x # s.j - 1 => t.buffer[x] = s.buffer[x]
      BY <2>2, <2>4, <3>1, NextRemainderIs
    <3>. QED
      BY <2>4, <3>2, <3>3
  <2>6. t.start_at = z + 1 + (i + 1) /\ t.j = n + 1 - (i + 1)
    BY <2>1, <2>3, <2>5
  <2>7. \A x \in 1 .. p - 1 : t.buffer[x] = 0
    <3>1. \A x \in 1 .. p - 1 : x \in 1 .. n - i /\ x \in 1 .. n /\ x # p
      BY <2>1 DEF p
    <3>. QED
      BY <2>3, <2>5, <3>1
  <2>8. \A x \in p .. n :
           Denotes(at[n - x].tmp, 58) = 256 * Denotes(at[n - x + 1].tmp, 58) + t.buffer[x]
    <3>. TAKE x \in p .. n
    <3>1. CASE x = p
      <4>1. at[n - x] = s /\ at[n - x + 1] = t
        BY <2>1, <3>1 DEF s, t
      <4>. QED
        BY <2>5, <3>1, <4>1
    <3>2. CASE x # p
      <4>1. x \in n - i + 1 .. n /\ x \in 1 .. n
        BY <2>1, <3>2 DEF p
      <4>2. t.buffer[x] = s.buffer[x]
        BY <2>5, <3>2, <4>1
      <4>3. Denotes(at[n - x].tmp, 58) = 256 * Denotes(at[n - x + 1].tmp, 58) + s.buffer[x]
        BY <2>3, <4>1
      <4>. QED
        BY <4>2, <4>3
    <3>. QED
      BY <3>1, <3>2
  <2>9. RemaindersInv(n, z, at, i + 1)
    <3>1. /\ \A x \in n - (i + 1) + 1 .. n :
                Denotes(at[n - x].tmp, 58) = 256 * Denotes(at[n - x + 1].tmp, 58) + t.buffer[x]
          /\ \A x \in 1 .. n - (i + 1) : t.buffer[x] = 0
      BY <2>1, <2>7, <2>8
    <3>. QED
      BY <2>2, <2>6, <3>1 DEF RemaindersInv, t
  <2>. QED
    BY <2>1, <2>9
<1>5. \A i \in 0 .. m : i \in Holds
  <2>. HIDE DEF Holds, m
  <2>. QED
    BY <1>2, <1>3, <1>4, NumbersUpTo
<1>. QED
  BY <1>5

\* The remainders are the digits, in base 256, of the number that the text is.
LEMMA RemaindersDenote ==
    ASSUME NEW n \in Nat, NEW text \in [1 .. n -> Digit58], NEW z \in 0 .. n,
           \A i \in 1 .. z : text[i] = 0
    PROVE  LET all == Addresses!Remainders(text, z + 1)[n]
           IN  /\ all.j = z + 1 /\ all.buffer \in [1 .. n -> Byte256]
               /\ \A i \in 1 .. z : all.buffer[i] = 0
               /\ \E g : Numbers(all.buffer, 256, n, g) /\ g[n] = Denotes(text, 58)
<1>. DEFINE at == Addresses!Remainders(text, z + 1)
            m == n - z
            b == at[n].buffer
            v == [i \in 0 .. n |-> Denotes(at[n - i].tmp, 58)]
            g == [i \in 0 .. n |-> IF i <= z THEN 0 ELSE v[i]]
<1>1. /\ at[0].tmp = text
      /\ \A i \in 0 .. n : at[i] \in CleanStates(n)
      /\ \A i \in 1 .. n : at[i] = Addresses!NextRemainder(at[i - 1])
  <2>. DEFINE start == z + 1
  <2>1. /\ start \in 1 .. n + 1 /\ start - 1 = z
        /\ \A i \in 1 .. start - 1 : text[i] = 0
    OBVIOUS
  <2>2. at = Addresses!Remainders(text, start)
    OBVIOUS
  <2>. HIDE DEF start, at
  <2>3. /\ at[0] = [tmp |-> text, start_at |-> start,
                    buffer |-> [i \in 1 .. n |-> 0], j |-> n + 1]
        /\ \A k \in 0 .. n : at[k] \in CleanStates(n)
        /\ \A k \in 1 .. n : at[k] = Addresses!NextRemainder(at[k - 1])
    BY <2>1, <2>2, RemaindersAre
  <2>4. at[0].tmp = text
    BY <2>3
  <2>. QED
    BY <2>3, <2>4
<1>2. m \in Nat /\ m \in 0 .. n /\ m \in 0 .. n - z /\ n - m = z /\ z + m = n /\ n \in 0 .. n
  OBVIOUS
<1>3. RemaindersInv(n, z, at, m)
  <2>1. at = Addresses!Remainders(text, z + 1)
    OBVIOUS
  <2>. HIDE DEF at, m
  <2>. QED
    BY <1>2, <2>1, RemaindersInvHolds
<1>. HIDE DEF at
<1>4. /\ at[m].start_at = n + 1 /\ at[m].j = z + 1
      /\ \A i \in z + 1 .. n :
            Denotes(at[n - i].tmp, 58) = 256 * Denotes(at[n - i + 1].tmp, 58) + at[m].buffer[i]
      /\ \A i \in 1 .. z : at[m].buffer[i] = 0
  <2>1. z + 1 + m = n + 1 /\ n + 1 - m = z + 1 /\ n - m + 1 = z + 1
    BY <1>2
  <2>. HIDE DEF m
  <2>. QED
    BY <1>2, <1>3, <2>1 DEF RemaindersInv
<1>5. at[n] = at[m]
  <2>. DEFINE Still == {i \in 0 .. z : at[m + i] = at[m]}
  <2>1. 0 \in Still
    BY <1>2
  <2>2. ASSUME NEW i \in 0 .. z - 1, i \in Still
        PROVE  i + 1 \in Still
    <3>1. /\ m + (i + 1) \in 1 .. n /\ (m + (i + 1)) - 1 = m + i /\ m + i \in 0 .. n
          /\ i + 1 \in 0 .. z
      BY <1>2
    <3>2. at[m + (i + 1)] = Addresses!NextRemainder(at[m + i]) /\ at[m + i] = at[m]
      BY <1>1, <2>2, <3>1
    <3>3. at[m] \in DecodeStates(n)
      BY <1>1, <1>2 DEF CleanStates
    <3>4. at[m].start_at > n
      BY <1>4
    <3>5. Addresses!NextRemainder(at[m]) = at[m]
      BY <3>3, <3>4, NextRemainderIs
    <3>. QED
      BY <3>1, <3>2, <3>5
  <2>3. \A i \in 0 .. z : i \in Still
    <3>1. z \in Nat
      OBVIOUS
    <3>. HIDE DEF Still
    <3>. QED
      BY <2>1, <2>2, <3>1, NumbersUpTo
  <2>4. z \in 0 .. z /\ m + z = n
    BY <1>2
  <2>5. at[m + z] = at[m]
    BY <2>3, <2>4
  <2>. QED
    BY <2>4, <2>5
<1>6. b \in [1 .. n -> Byte256]
  BY <1>1, <1>2 DEF CleanStates, DecodeStates
<1>7. \A k \in 0 .. n : at[k].tmp \in [1 .. n -> Digit58]
  BY <1>1 DEF CleanStates, DecodeStates
<1>8. v \in [0 .. n -> Nat] /\ \A i \in 0 .. n : v[i] = Denotes(at[n - i].tmp, 58)
  <2>1. \A i \in 0 .. n : n - i \in 0 .. n
    OBVIOUS
  <2>2. \A i \in 0 .. n : Denotes(at[n - i].tmp, 58) \in Nat
    BY <1>7, <2>1, DigitsDenote
  <2>. QED
    BY <2>2
<1>. HIDE DEF v, b
<1>9. \A i \in z + 1 .. n : v[i] = 256 * v[i - 1] + b[i]
  <2>. TAKE i \in z + 1 .. n
  <2>1. i \in 0 .. n /\ i - 1 \in 0 .. n /\ n - (i - 1) = n - i + 1
    OBVIOUS
  <2>2. v[i] = Denotes(at[n - i].tmp, 58) /\ v[i - 1] = Denotes(at[n - i + 1].tmp, 58)
    BY <1>8, <2>1
  <2>3. Denotes(at[n - i].tmp, 58) = 256 * Denotes(at[n - i + 1].tmp, 58) + b[i]
    BY <1>4, <1>5 DEF b
  <2>. QED
    BY <2>2, <2>3
<1>10. v[z] = 0
  <2>. DEFINE d == at[m].tmp
  <2>1. d \in [1 .. n -> Digit58] /\ v[z] = Denotes(d, 58)
    BY <1>2, <1>7, <1>8
  <2>2. \A i \in 1 .. n : d[i] = 0
    <3>1. \A i \in 1 .. at[m].start_at - 1 : d[i] = 0
      BY <1>1, <1>2 DEF CleanStates
    <3>2. at[m].start_at - 1 = n
      BY <1>4
    <3>. QED
      BY <3>1, <3>2
  <2>. HIDE DEF d
  <2>3. PICK f : Numbers(d, 58, n, f) /\ Denotes(d, 58) = f[n]
    BY <2>1, DigitsDenote
  <2>4. \A i \in 0 .. n : f[i] = 0
    BY <1>2, <2>2, <2>3, NumberOfZeros
  <2>. QED
    BY <1>2, <2>1, <2>3, <2>4
<1>11. \A i \in 1 .. z : b[i] = 0
  BY <1>4, <1>5 DEF b
<1>12. \A i \in 1 .. n : g[i] = g[i - 1] * 256 + b[i]
  <2>. TAKE i \in 1 .. n
  <2>1. i \in 0 .. n /\ i - 1 \in 0 .. n
    OBVIOUS
  <2>2. CASE i <= z
    <3>1. i - 1 <= z /\ i \in 1 .. z
      BY <2>2
    <3>2. g[i] = 0 /\ g[i - 1] = 0 /\ b[i] = 0
      BY <1>11, <2>1, <2>2, <3>1
    <3>. QED
      BY <3>2
  <2>3. CASE ~(i <= z)
    <3>1. i \in z + 1 .. n
      BY <2>3
    <3>2. g[i] = v[i] /\ v[i] = 256 * v[i - 1] + b[i]
      BY <1>9, <2>1, <2>3, <3>1
    <3>3. g[i - 1] = v[i - 1]
      <4>1. i - 1 <= z => i - 1 = z
        BY <2>3
      <4>. QED
        BY <1>10, <2>1, <4>1
    <3>4. v[i - 1] \in Nat
      BY <1>8, <2>1
    <3>. HIDE DEF g
    <3>5. 256 * v[i - 1] = v[i - 1] * 256
      BY <3>4
    <3>. QED
      BY <3>2, <3>3, <3>5
  <2>. QED
    BY <2>2, <2>3
<1>13. Numbers(b, 256, n, g)
  <2>1. 0 \in 0 .. n /\ 0 <= z
    OBVIOUS
  <2>2. g[0] = 0
    BY <2>1
  <2>3. g \in [0 .. n -> Nat]
    BY <1>8
  <2>. HIDE DEF g
  <2>. QED
    BY <1>12, <2>2, <2>3 DEF Numbers, Appends
<1>14. g[n] = Denotes(text, 58)
  <2>1. n - n = 0
    OBVIOUS
  <2>2. v[n] = Denotes(text, 58)
    BY <1>1, <1>2, <1>8, <2>1
  <2>3. n <= z => n = z
    OBVIOUS
  <2>. QED
    BY <1>2, <1>10, <2>2, <2>3
<1>. HIDE DEF g
<1>15. /\ at[n].j = z + 1 /\ b \in [1 .. n -> Byte256] /\ \A i \in 1 .. z : b[i] = 0
       /\ \E h : Numbers(b, 256, n, h) /\ h[n] = Denotes(text, 58)
  BY <1>4, <1>5, <1>6, <1>11, <1>13, <1>14
<1>. QED
  BY <1>15 DEF b, at

LEMMA NumbersSame ==
    ASSUME NEW base \in Nat, NEW n \in Nat, NEW d, NEW f, Numbers(d, base, n, f),
           NEW g, Numbers(d, base, n, g)
    PROVE  f[n] = g[n]
<1>. DEFINE z == 0
<1>1. z \in Nat /\ z + n = n /\ \A i \in 1 .. n : z + i = i
  OBVIOUS
<1>2. \A i : i \notin 1 .. z
  OBVIOUS
<1>. HIDE DEF z
<1>3. ZerosAnd(d, z, d, n)
  BY <1>1, <1>2 DEF ZerosAnd
<1>. QED
  BY <1>1, <1>3, NumberBehindZeros

LEMMA PureSame ==
    ASSUME NEW base \in Nat \ {0}, NEW v, NEW a, Pure(a, base, v), NEW b, Pure(b, base, v)
    PROVE  a = b
<1>. DEFINE n == Len(a)
            m == Len(b)
<1>1. /\ a \in Seq(0 .. base - 1) /\ (n > 0 => a[1] # 0)
      /\ b \in Seq(0 .. base - 1) /\ (m > 0 => b[1] # 0)
  BY DEF Pure
<1>2. /\ n \in Nat /\ \A i \in 1 .. n : a[i] \in 0 .. base - 1
      /\ m \in Nat /\ \A i \in 1 .. m : b[i] \in 0 .. base - 1
  BY <1>1, LenProperties
<1>3. PICK f : Numbers(a, base, n, f) /\ f[n] = v
  BY DEF Pure
<1>4. PICK g : Numbers(b, base, m, g) /\ g[m] = v
  BY DEF Pure
<1>. HIDE DEF n, m
<1>5. n > 0 => a[1] # 0
  BY <1>1
<1>6. m > 0 => b[1] # 0
  BY <1>1
<1>7. f[n] = g[m] /\ base \in Nat
  BY <1>3, <1>4
<1>8. n = m /\ \A i \in 1 .. n : a[i] = b[i]
  BY <1>2, <1>3, <1>4, <1>5, <1>6, <1>7, SameDigits
<1>. QED
  BY <1>1, <1>8, SeqEqual DEF n, m

\* base58_decode reads back what base58_encode wrote.
LEMMA DecodeIs ==
    ASSUME NEW in \in Seq(Byte256), NEW text, IsEncoded(text, in), Len(text) >= 2
    PROVE  Addresses!Decode(text, Len(in)) = in
<1>. DEFINE size == Len(in)
            n == Len(text)
            z == Addresses!LeadingZeros(text)
            all == Addresses!Remainders(text, z + 1)[n]
            b == all.buffer
            c == Addresses!Behind(b, z)
            w == Addresses!LeadingZeros(c)
            e == Addresses!Significant(c)
            a == Addresses!Significant(in)
            out == Addresses!Behind(b, w)
<1>1. /\ text \in Seq(Digit58) /\ n <= 164 /\ z = Addresses!LeadingZeros(in)
  BY DEF IsEncoded
<1>2. PICK f, g : /\ Numbers(in, 256, size, f) /\ Numbers(text, 58, n, g)
                  /\ g[n] = f[size]
  BY DEF IsEncoded
<1>3. n \in Nat /\ text \in [1 .. n -> Digit58] /\ size \in Nat
  BY <1>1, LenProperties
<1>4. Leads(z, text)
  BY <1>1, LeadingZerosAre
<1>. HIDE DEF size, n, z
<1>5. z \in 0 .. n /\ \A i \in 1 .. z : text[i] = 0
  BY <1>4 DEF Leads, n
<1>6. Denotes(text, 58) = f[size]
  <2>1. PICK h : Numbers(text, 58, n, h) /\ Denotes(text, 58) = h[n]
    BY <1>3, DigitsDenote
  <2>2. h[n] = g[n]
    BY <1>2, <1>3, <2>1, NumbersSame
  <2>. QED
    BY <1>2, <2>1, <2>2
<1>7. /\ all.j = z + 1 /\ b \in [1 .. n -> Byte256]
      /\ \A i \in 1 .. z : b[i] = 0
      /\ \E h : Numbers(b, 256, n, h) /\ h[n] = f[size]
  BY <1>3, <1>5, <1>6, RemaindersDenote
<1>. HIDE DEF all
<1>8. PICK h : Numbers(b, 256, n, h) /\ h[n] = f[size]
  BY <1>7
<1>. HIDE DEF b
<1>9. b \in Seq(Byte256) /\ Len(b) = n
  BY <1>3, <1>7, SeqDef, LenProperties
<1>. DEFINE m == n - z
<1>10. /\ c \in Seq(Byte256) /\ Len(c) = m /\ m \in Nat
       /\ \A i \in 1 .. m : z + i \in 1 .. n /\ c[i] = b[z + i]
  BY <1>5, <1>9, BehindIs
<1>. HIDE DEF m, c
<1>11. Byte256 = 0 .. 256 - 1 /\ \A x \in Byte256 : x \in Nat
  BY DEF Byte256
<1>12. PICK q : Numbers(c, 256, m, q)
  <2>1. \A i \in 1 .. m : c[i] \in Nat
    <3>1. \A i \in 1 .. m : c[i] \in Byte256
      BY <1>10, LenProperties
    <3>. QED
      BY <1>11, <3>1
  <2>2. c \in Seq(Nat)
    BY <1>10, <2>1, SeqDef, LenProperties
  <2>3. 256 \in Nat
    OBVIOUS
  <2>4. \E q : Numbers(c, 256, Len(c), q)
    BY <2>2, <2>3, DenotesIs
  <2>. QED
    BY <1>10, <2>4
<1>13. q[m] = f[size]
  <2>1. ZerosAnd(b, z, c, m)
    BY <1>7, <1>10 DEF ZerosAnd
  <2>2. z \in Nat /\ z + m = n /\ m \in Nat
    BY <1>3, <1>5, <1>10 DEF m
  <2>3. q[m] = h[n]
    BY <1>3, <1>8, <1>12, <2>1, <2>2, NumberBehindZeros
  <2>. QED
    BY <1>8, <2>3
<1>14. /\ Pure(e, 256, f[size]) /\ Leads(w, c) /\ Len(e) = m - w
       /\ \A i \in 1 .. Len(e) : e[i] = c[w + i]
  <2>1. c \in Seq(0 .. 256 - 1) /\ Len(c) = m
    BY <1>10, <1>11
  <2>2. Numbers(c, 256, Len(c), q) /\ q[Len(c)] = f[size] /\ 256 \in Nat \ {0}
    BY <1>12, <1>13, <2>1
  <2>3. /\ Leads(w, c) /\ Pure(e, 256, q[Len(c)]) /\ Len(e) = Len(c) - w
        /\ \A i \in 1 .. Len(e) : e[i] = c[w + i]
    BY <2>1, <2>2, SignificantIs, ZenonT(60)
  <2>. HIDE DEF e, w
  <2>. QED
    BY <2>1, <2>2, <2>3
<1>15. /\ Pure(a, 256, f[size]) /\ Leads(z, in) /\ Len(a) = size - z
       /\ \A i \in 1 .. Len(a) : a[i] = in[z + i]
  <2>1. in \in Seq(0 .. 256 - 1) /\ Numbers(in, 256, Len(in), f) /\ 256 \in Nat \ {0}
    BY <1>2, <1>11 DEF size
  <2>. QED
    BY <1>1, <2>1, SignificantIs, ZenonT(60) DEF size
<1>16. a = e
  <2>1. 256 \in Nat \ {0}
    OBVIOUS
  <2>. QED
    BY <1>14, <1>15, <2>1, PureSame
<1>. HIDE DEF e, a, w
<1>17. w \in 0 .. m /\ (\A i \in 1 .. w : c[i] = 0) /\ z \in 0 .. size /\ \A i \in 1 .. z : in[i] = 0
  BY <1>10, <1>14, <1>15 DEF Leads, size
<1>18. /\ size - z = m - w /\ n - w = size /\ w \in 0 .. n /\ m = n - z /\ size - z \in Nat
       /\ z \in Nat /\ w \in Nat
  <2>1. size - z = m - w
    BY <1>14, <1>15, <1>16
  <2>. QED
    BY <1>3, <1>5, <1>10, <1>17, <2>1 DEF m
<1>19. /\ out \in Seq(Byte256) /\ Len(out) = size
       /\ \A i \in 1 .. size : w + i \in 1 .. n /\ out[i] = b[w + i]
  <2>1. w \in 0 .. Len(b) /\ Len(b) - w = size
    BY <1>9, <1>18
  <2>. QED
    BY <1>9, <2>1, BehindIs
<1>. HIDE DEF out
<1>20. ASSUME NEW i \in 1 .. size
       PROVE  out[i] = in[i]
  <2>1. out[i] = b[w + i]
    BY <1>19
  <2>2. CASE i \in 1 .. z
    <3>1. in[i] = 0
      BY <1>17, <2>2
    <3>2. CASE w + i \in 1 .. z
      BY <1>7, <2>1, <3>1, <3>2
    <3>3. CASE ~(w + i \in 1 .. z)
      <4>1. w + i - z \in 1 .. w /\ w + i - z \in 1 .. m /\ z + (w + i - z) = w + i
        BY <1>17, <1>18, <2>2, <3>3
      <4>2. c[w + i - z] = b[w + i] /\ c[w + i - z] = 0
        BY <1>10, <1>17, <4>1
      <4>. QED
        BY <2>1, <3>1, <4>2
    <3>. QED
      BY <3>2, <3>3
  <2>3. CASE ~(i \in 1 .. z)
    <3>1. /\ i - z \in 1 .. size - z /\ z + (i - z) = i
          /\ w + (i - z) \in 1 .. m /\ z + (w + (i - z)) = w + i
      <4>1. i \in Nat /\ i > z /\ i <= size /\ size \in Nat /\ z \in Nat /\ w \in Nat
            /\ m \in Nat
        BY <1>3, <1>10, <1>18, <2>3
      <4>2. size - z = m - w
        BY <1>18
      <4>. QED
        BY <4>1, <4>2
    <3>2. a[i - z] = in[i]
      BY <1>15, <3>1
    <3>3. e[i - z] = c[w + (i - z)]
      BY <1>14, <1>18, <3>1
    <3>4. c[w + (i - z)] = b[w + i]
      BY <1>10, <3>1
    <3>. QED
      BY <1>16, <2>1, <3>2, <3>3, <3>4
  <2>. QED
    BY <2>2, <2>3
<1>21. out = in
  BY <1>19, <1>20, SeqEqual DEF size
<1>22. Addresses!Decode(text, size) = out
  <2>. DEFINE j == all.j + Addresses!LeadingZeros(Addresses!Behind(b, all.j - 1))
  <2>1. all.j - 1 = z
    BY <1>7, <1>18
  <2>2. j = (z + 1) + w
    BY <1>7, <2>1 DEF c, w
  <2>. HIDE DEF j
  <2>3. j - z - 1 = w
    BY <1>18, <2>2
  <2>4. \A i \in 1 .. n : text[i] # 58
    <3>1. \A i \in 1 .. n : text[i] \in 0 .. 57
      BY <1>3 DEF Digit58
    <3>2. \A x \in 0 .. 57 : x # 58
      OBVIOUS
    <3>. QED
      BY <3>1, <3>2
  <2>5. /\ DOMAIN text = 1 .. n /\ ~(n > 164) /\ ~(n < 2)
    <3>1. DOMAIN text = 1 .. n
      BY <1>3
    <3>2. n >= 2
      BY DEF n
    <3>. QED
      BY <1>1, <1>3, <3>1, <3>2
  <2>6. Addresses!Decode(text, size) =
           IF \/ n > Addresses!MaxDecInput
              \/ n < 2
              \/ \E i \in DOMAIN text : text[i] = Addresses!NotInAlphabet
              \/ size < Len(Addresses!Behind(b, j - z - 1))
           THEN Addresses!Failed
           ELSE Addresses!Behind(b, j - z - 1)
    BY DEF Addresses!Decode, n, z, b, all, j
  <2>7. Addresses!MaxDecInput = 164 /\ Addresses!NotInAlphabet = 58
    BY DEF Addresses!MaxDecInput, Addresses!NotInAlphabet
  <2>8. ~(size < Len(out)) /\ out = Addresses!Behind(b, j - z - 1)
    BY <1>3, <1>19, <2>3 DEF out
  <2>9. ~(n > Addresses!MaxDecInput) /\ ~\E i \in DOMAIN text : text[i] = Addresses!NotInAlphabet
    BY <2>4, <2>5, <2>7
  <2>. QED
    BY <2>5, <2>6, <2>8, <2>9
<1>. QED
  BY <1>21, <1>22 DEF size

\* base58_encode writes, for all of up to MAX_ENC_INPUT_SIZE bytes, the digits of
\* the number that they are, behind a '1' for every leading zero byte, and stop_at
\* never ends its carry loop early; base58_decode gives the bytes back; and the text
\* of an address has 34 characters, whatever its hash and checksum are.
THEOREM AddressTextIsExact ==
    /\ InputOK => AddressTextExact
    /\ InputOK /\ kind = "bytes" =>
          Denotes(Addresses!Encode(input, 2 * Len(input)), 58) = Denotes(input, 256)
    /\ Spec => []AddressTextExact
<1>. DEFINE text == Addresses!Encode(input, 2 * Len(input))
<1>1. ASSUME InputOK, kind = "bytes"
      PROVE  input \in Seq(Byte256) /\ IsEncoded(text, input)
  <2>1. input \in Seq(Byte256) /\ Len(input) <= 120
    BY <1>1 DEF InputOK, Byte256, Addresses!MaxEncInput
  <2>. QED
    BY <2>1, EncodeIs
<1>2. ASSUME InputOK, kind = "bytes"
      PROVE  Denotes(text, 58) = Denotes(input, 256)
  <2>1. input \in Seq(Byte256) /\ IsEncoded(text, input)
    BY <1>1, <1>2
  <2>. HIDE DEF text
  <2>2. PICK f, g : /\ Numbers(input, 256, Len(input), f) /\ Numbers(text, 58, Len(text), g)
                    /\ g[Len(text)] = f[Len(input)]
    BY <2>1 DEF IsEncoded
  <2>3. text \in Seq(Digit58)
    BY <2>1 DEF IsEncoded
  <2>4. input \in Seq(Nat) /\ text \in Seq(Nat)
    <3>1. Byte256 \subseteq Nat /\ Digit58 \subseteq Nat
      BY DEF Byte256, Digit58
    <3>. QED
      BY <2>1, <2>3, <3>1, SeqMonotonic
  <2>5. PICK u : Numbers(input, 256, Len(input), u) /\ Denotes(input, 256) = u[Len(input)]
    BY <2>4, DenotesIs
  <2>6. PICK v : Numbers(text, 58, Len(text), v) /\ Denotes(text, 58) = v[Len(text)]
    BY <2>4, DenotesIs
  <2>. DEFINE n == Len(input)
              m == Len(text)
  <2>7. n \in Nat /\ m \in Nat
    BY <2>4, LenProperties
  <2>8. /\ Numbers(input, 256, n, f) /\ Numbers(input, 256, n, u)
        /\ Numbers(text, 58, m, g) /\ Numbers(text, 58, m, v)
        /\ g[m] = f[n] /\ Denotes(input, 256) = u[n] /\ Denotes(text, 58) = v[m]
    BY <2>2, <2>5, <2>6
  <2>. HIDE DEF n, m
  <2>9. f[n] = u[n]
    BY <2>7, <2>8, NumbersSame
  <2>10. g[m] = v[m]
    BY <2>7, <2>8, NumbersSame
  <2>. QED
    BY <2>8, <2>9, <2>10
<1>3. InputOK => AddressTextExact
  <2>. SUFFICES ASSUME InputOK, kind = "bytes"
                PROVE  /\ Addresses!LeadingZeros(text) = Addresses!LeadingZeros(input)
                       /\ Denotes(text, 58) = Denotes(input, 256)
                       /\ Len(text) >= 2 => Addresses!Decode(text, Len(input)) = input
                       /\ Len(input) = 25 /\ input[1] = Keys!VersionByte => Len(text) = 34
    BY DEF AddressTextExact
  <2>1. input \in Seq(Byte256) /\ IsEncoded(text, input)
    BY <1>1
  <2>2. Denotes(text, 58) = Denotes(input, 256)
    BY <1>2
  <2>. HIDE DEF text
  <2>3. Len(text) >= 2 => Addresses!Decode(text, Len(input)) = input
    BY <2>1, DecodeIs
  <2>4. /\ Addresses!LeadingZeros(text) = Addresses!LeadingZeros(input)
        /\ Len(input) = 25 /\ input[1] = 40 => Len(text) = 34
    BY <2>1 DEF IsEncoded
  <2>. QED
    BY <2>2, <2>3, <2>4 DEF Keys!VersionByte
<1>4. Spec => []AddressTextExact
  BY <1>3, Inputs, PTL
<1>. QED
  BY <1>2, <1>3, <1>4

=============================================================================
