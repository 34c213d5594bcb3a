------------------------------ MODULE Buffers ------------------------------
(***************************************************************************)
(* buffer_t of src/common/buffer.c: a pointer to bytes, their number and   *)
(* the offset of the next one.  Only the two numbers matter to what an     *)
(* operation accepts and where it leaves the buffer, so a buffer here is   *)
(* the record of them; what a read delivers is the bytes between the old   *)
(* offset and the new one.                                                 *)
(*                                                                         *)
(* An operation returns whether it succeeded and the buffer it leaves.     *)
(* The reads check for themselves that the bytes are there and then call   *)
(* buffer_seek_cur without a look at its result.                           *)
(***************************************************************************)
EXTENDS Integers

CONSTANT SizeMod    \* 2^32: size_t is an unsigned number of this range

ASSUME SizeModAssumption == SizeMod \in Nat /\ SizeMod > 1

SizeT == 0 .. SizeMod - 1

Buffer == [size : SizeT, offset : SizeT]

\* Sums and differences of two numbers of SizeT, as size_t computes them.
WrapSize(n) ==
    IF n < 0 THEN n + SizeMod ELSE IF n < SizeMod THEN n ELSE n - SizeMod

Opened(n) == [size |-> n, offset |-> 0]

Refused(b) == [ok |-> FALSE, buffer |-> b]
MovedTo(b, offset) == [ok |-> TRUE, buffer |-> [b EXCEPT !.offset = offset]]

\* The bytes behind the offset.
Remaining(b) == WrapSize(b.size - b.offset)

CanRead(b, n) == Remaining(b) >= n

SeekSet(b, offset) ==
    IF offset > b.size THEN Refused(b) ELSE MovedTo(b, offset)

SeekCur_AnyOverflow(b, n) ==
    IF WrapSize(b.offset + n) > b.size THEN Refused(b)
    ELSE MovedTo(b, WrapSize(b.offset + n))
SeekCur(b, n) ==
    IF \/ WrapSize(b.offset + n) < b.offset
       \/ WrapSize(b.offset + n) > b.size
    THEN Refused(b)
    ELSE MovedTo(b, WrapSize(b.offset + n))

SeekEnd(b, offset) ==
    IF offset > b.size THEN Refused(b) ELSE MovedTo(b, b.size - offset)

\* The seek whose result is thrown away.
Advanced(b, n) == [ok |-> TRUE, buffer |-> SeekCur(b, n).buffer]

\* buffer_read_u8, _u16, _u32 and _u64, where n is 1, 2, 4 or 8.
ReadUInt(b, n) == IF CanRead(b, n) THEN Advanced(b, n) ELSE Refused(b)

\* buffer_read_bip32_path, of a path of `length' components.  `valid': its
\* change and index levels are in their ranges.
PathBytes(length) == 1 + 4 * length
ReadPath(b, length, valid, maxLength) ==
    IF /\ Remaining(b) >= 1
       /\ length <= maxLength
       /\ PathBytes(length) <= Remaining(b)
       /\ valid
    THEN Advanced(b, PathBytes(length))
    ELSE Refused(b)

\* buffer_read_bytes: len bytes into an array of out_len.
ReadBytes(b, out_len, len) ==
    IF len > Remaining(b) \/ len > out_len THEN Refused(b) ELSE Advanced(b, len)

\* buffer_copy: everything that is left, if it fits; the offset stays.
Copy(b, out_len) ==
    IF Remaining(b) > out_len THEN Refused(b) ELSE [ok |-> TRUE, buffer |-> b]

\* buffer_move: the offset moves by the length of the array, not by the bytes
\* copied.
Move(b, out_len) ==
    IF Copy(b, out_len).ok THEN Advanced(b, out_len) ELSE Refused(b)

-----------------------------------------------------------------------------
(* What every user of a buffer relies on. *)

\* The offset has not left the bytes.
WellFormed(b) == b \in Buffer /\ b.offset <= b.size

\* r is b with n bytes more behind it, or b itself and a refusal.
TakesOrRefuses(b, n, r) ==
    \/ r.ok /\ r.buffer = [b EXCEPT !.offset = b.offset + n] /\ b.offset + n <= b.size
    \/ ~r.ok /\ r.buffer = b

=============================================================================
