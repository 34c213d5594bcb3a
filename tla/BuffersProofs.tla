--------------------------- MODULE BuffersProofs ---------------------------
(***************************************************************************)
(* Theorems about the operations of Buffers, for every width of size_t.    *)
(***************************************************************************)
EXTENDS Buffers, TLAPS

USE SizeModAssumption

\* A buffer whose offset is within its bytes: the difference does not wrap.
LEMMA RemainingIs ==
    ASSUME NEW b, WellFormed(b)
    PROVE  /\ Remaining(b) = b.size - b.offset
           /\ Remaining(b) \in 0 .. b.size
           /\ Remaining(b) \in SizeT
<1>1. b.size \in SizeT /\ b.offset \in SizeT /\ b.offset <= b.size
  BY DEF WellFormed, Buffer
<1>2. b.size - b.offset \in 0 .. b.size /\ b.size - b.offset < SizeMod
  BY <1>1 DEF SizeT
<1>3. Remaining(b) = b.size - b.offset
  BY <1>2 DEF Remaining, WrapSize
<1>. QED
  BY <1>1, <1>2, <1>3 DEF SizeT

\* A new offset within the bytes keeps the buffer well formed.
LEMMA MovedType ==
    ASSUME NEW b, WellFormed(b), NEW o \in 0 .. b.size
    PROVE  WellFormed(MovedTo(b, o).buffer)
<1>1. b \in Buffer /\ b.size \in SizeT
  BY DEF WellFormed, Buffer
<1>2. o \in SizeT
  BY <1>1 DEF SizeT
<1>. QED
  BY <1>1, <1>2 DEF MovedTo, WellFormed, Buffer

\* A relative seek succeeds exactly when the bytes are there, and then ends
\* where the sum says: the test for overflow in buffer_seek_cur catches every
\* sum that size_t cannot hold.
THEOREM SeekCurExact ==
    ASSUME NEW b, WellFormed(b), NEW n \in SizeT
    PROVE  /\ CanRead(b, n) => SeekCur(b, n) = MovedTo(b, b.offset + n)
           /\ CanRead(b, n) => b.offset + n <= b.size
           /\ ~CanRead(b, n) => SeekCur(b, n) = Refused(b)
<1>1. b.size \in SizeT /\ b.offset \in SizeT /\ b.offset <= b.size
  BY DEF WellFormed, Buffer
<1>2. Remaining(b) = b.size - b.offset
  BY RemainingIs
<1>3. CASE CanRead(b, n)
  <2>1. b.offset + n <= b.size
    BY <1>1, <1>2, <1>3 DEF CanRead, SizeT
  <2>2. WrapSize(b.offset + n) = b.offset + n
    BY <1>1, <2>1 DEF WrapSize, SizeT
  <2>3. ~(b.offset + n < b.offset) /\ ~(b.offset + n > b.size)
    BY <1>1, <2>1 DEF SizeT
  <2>. QED
    BY <1>3, <2>1, <2>2, <2>3 DEF SeekCur
<1>4. CASE ~CanRead(b, n)
  <2>1. b.offset + n > b.size
    BY <1>1, <1>2, <1>4 DEF CanRead, SizeT
  <2>2. CASE b.offset + n < SizeMod
    <3>1. WrapSize(b.offset + n) = b.offset + n
      BY <1>1, <2>2 DEF WrapSize, SizeT
    <3>. QED
      BY <1>4, <2>1, <3>1 DEF SeekCur
  <2>3. CASE b.offset + n >= SizeMod
    <3>1. WrapSize(b.offset + n) = b.offset + n - SizeMod
      BY <1>1, <2>3 DEF WrapSize, SizeT
    <3>2. b.offset + n - SizeMod < b.offset
      BY <1>1 DEF SizeT
    <3>. QED
      BY <1>4, <3>1, <3>2 DEF SeekCur
  <2>4. b.offset + n \in Nat
    BY <1>1 DEF SizeT
  <2>. QED
    BY <2>2, <2>3, <2>4
<1>. QED
  BY <1>3, <1>4

\* A read that has tested its length takes exactly that many bytes.
LEMMA AdvancedExact ==
    ASSUME NEW b, WellFormed(b), NEW n \in SizeT, CanRead(b, n)
    PROVE  TakesOrRefuses(b, n, Advanced(b, n))
  BY SeekCurExact DEF Advanced, MovedTo, TakesOrRefuses

\* Every read takes exactly the bytes it delivers, all of them in the buffer,
\* or leaves the buffer alone and says so: throwing away the result of the seek
\* that follows the test loses nothing.
THEOREM ReadsTakeOrRefuse ==
    ASSUME NEW b, WellFormed(b), NEW n \in SizeT
    PROVE  /\ TakesOrRefuses(b, n, ReadUInt(b, n))
           /\ \A out_len \in SizeT : TakesOrRefuses(b, n, ReadBytes(b, out_len, n))
           /\ TakesOrRefuses(b, n, SeekCur(b, n))
<1>1. TakesOrRefuses(b, n, ReadUInt(b, n))
  BY AdvancedExact DEF ReadUInt, Refused, TakesOrRefuses
<1>2. ASSUME NEW out_len \in SizeT
      PROVE  TakesOrRefuses(b, n, ReadBytes(b, out_len, n))
  <2>1. CASE n > Remaining(b) \/ n > out_len
    BY <2>1 DEF ReadBytes, Refused, TakesOrRefuses
  <2>2. CASE ~(n > Remaining(b) \/ n > out_len)
    <3>1. CanRead(b, n)
      <4>1. Remaining(b) \in SizeT
        BY RemainingIs
      <4>. QED
        BY <2>2, <4>1 DEF CanRead, SizeT
    <3>2. ReadBytes(b, out_len, n) = Advanced(b, n)
      BY <2>2 DEF ReadBytes
    <3>. QED
      BY <3>1, <3>2, AdvancedExact
  <2>. QED
    BY <2>1, <2>2
<1>3. TakesOrRefuses(b, n, SeekCur(b, n))
  BY SeekCurExact DEF MovedTo, Refused, TakesOrRefuses
<1>. QED
  BY <1>1, <1>2, <1>3

\* So does reading a path: it takes the length byte and the components.
THEOREM ReadPathTakesOrRefuses ==
    ASSUME NEW b, WellFormed(b), NEW length \in Nat, NEW valid \in BOOLEAN,
           NEW maxLength \in Nat
    PROVE  TakesOrRefuses(b, PathBytes(length), ReadPath(b, length, valid, maxLength))
<1>1. CASE PathBytes(length) <= Remaining(b)
  <2>1. PathBytes(length) \in SizeT /\ CanRead(b, PathBytes(length))
    <3>1. Remaining(b) \in SizeT
      BY RemainingIs
    <3>2. PathBytes(length) \in Nat
      BY DEF PathBytes
    <3>. QED
      BY <1>1, <3>1, <3>2 DEF CanRead, SizeT
  <2>2. TakesOrRefuses(b, PathBytes(length), Advanced(b, PathBytes(length)))
    BY <2>1, AdvancedExact
  <2>. QED
    BY <2>2 DEF ReadPath, Refused, TakesOrRefuses
<1>2. CASE ~(PathBytes(length) <= Remaining(b))
  BY <1>2 DEF ReadPath, Refused, TakesOrRefuses
<1>. QED
  BY <1>1, <1>2

\* Whatever is done to it, a buffer never points past its bytes.
THEOREM OperationsStayInBounds ==
    ASSUME NEW b, WellFormed(b), NEW n \in SizeT, NEW m \in SizeT
    PROVE  /\ WellFormed(SeekSet(b, n).buffer)
           /\ WellFormed(SeekCur(b, n).buffer)
           /\ WellFormed(SeekEnd(b, n).buffer)
           /\ WellFormed(ReadUInt(b, n).buffer)
           /\ WellFormed(ReadBytes(b, m, n).buffer)
           /\ WellFormed(Copy(b, n).buffer)
           /\ WellFormed(Move(b, n).buffer)
<1>1. b.size \in SizeT /\ b.offset \in SizeT /\ b.offset <= b.size
  BY DEF WellFormed, Buffer
<1>2. WellFormed(SeekSet(b, n).buffer)
  <2>1. CASE n > b.size
    BY <2>1 DEF SeekSet, Refused
  <2>2. CASE n \in 0 .. b.size
    <3>1. ~(n > b.size)
      BY <1>1, <2>2 DEF SizeT
    <3>. QED
      BY <2>2, <3>1, MovedType DEF SeekSet
  <2>. QED
    BY <1>1, <2>1, <2>2 DEF SizeT
<1>3. WellFormed(SeekEnd(b, n).buffer)
  <2>1. CASE n > b.size
    BY <2>1 DEF SeekEnd, Refused
  <2>2. CASE n \in 0 .. b.size
    <3>1. ~(n > b.size) /\ b.size - n \in 0 .. b.size
      BY <1>1, <2>2 DEF SizeT
    <3>. QED
      BY <3>1, MovedType DEF SeekEnd
  <2>. QED
    BY <1>1, <2>1, <2>2 DEF SizeT
<1>4. ASSUME NEW k, k \in SizeT, NEW r, TakesOrRefuses(b, k, r)
      PROVE  WellFormed(r.buffer)
  <2>1. CASE r.ok /\ r.buffer = [b EXCEPT !.offset = b.offset + k] /\ b.offset + k <= b.size
    <3>1. b.offset + k \in 0 .. b.size
      BY <1>1, <1>4, <2>1 DEF SizeT
    <3>2. WellFormed(MovedTo(b, b.offset + k).buffer)
      BY <3>1, MovedType
    <3>. QED
      BY <2>1, <3>2 DEF MovedTo
  <2>2. CASE ~r.ok /\ r.buffer = b
    BY <2>2
  <2>. QED
    BY <1>4, <2>1, <2>2 DEF TakesOrRefuses
<1>5. WellFormed(SeekCur(b, n).buffer)
  BY <1>4, ReadsTakeOrRefuse
<1>6. WellFormed(ReadUInt(b, n).buffer)
  BY <1>4, ReadsTakeOrRefuse
<1>7. WellFormed(ReadBytes(b, m, n).buffer)
  BY <1>4, ReadsTakeOrRefuse
<1>8. WellFormed(Copy(b, n).buffer)
  BY DEF Copy, Refused
<1>9. WellFormed(Move(b, n).buffer)
  BY <1>5 DEF Move, Refused, Advanced
<1>. QED
  BY <1>2, <1>3, <1>5, <1>6, <1>7, <1>8, <1>9

=============================================================================
