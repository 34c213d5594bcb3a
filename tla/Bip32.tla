------------------------------- MODULE Bip32 -------------------------------
(***************************************************************************)
(* Derivation paths: bip32_path_read and bip32_path_format of              *)
(* src/common/bip32.c.  A component of a path, a uint32_t, is the record   *)
(* of its first bit (hardened) and the other 31.                           *)
(***************************************************************************)
EXTENDS Integers, Sequences, FiniteSetsExt

Numbers == INSTANCE Format

MaxBip32Path == 5           \* MAX_BIP32_PATH
MaxDerivationIndex == 1048576   \* MAX_DERIVATION_INDEX, 2^20
PathTextSize == 60          \* sizeof(g_bip32_path)

\* As uint32_t numbers, component <= limit for a limit below 2^31.
AtMost(component, limit) == ~component.hardened /\ component.index <= limit

\* The levels that are looked at: change is 0 or 1, the index is bounded.
LevelsAllowed(path) ==
    /\ Len(path) > 4 => AtMost(path[5], MaxDerivationIndex)
    /\ Len(path) > 3 => AtMost(path[4], 1)

\* bip32_path_read accepts `path', announced by its length, from in_len bytes.
PathRead_AnyLength(path, in_len) ==
    in_len >= 1 /\ 4 * Len(path) + 1 <= in_len /\ LevelsAllowed(path)
PathRead(path, in_len) ==
    /\ in_len >= 1
    /\ Len(path) <= MaxBip32Path
    /\ 4 * Len(path) + 1 <= in_len
    /\ LevelsAllowed(path)

-----------------------------------------------------------------------------
\* snprintf(out + offset, out_len - offset, text): what does not fit in front of
\* the zero byte is cut off, and the text grows no further than that.  The
\* caller gives up only if nothing was written.
Printed(acc, text, out_len) ==
    LET written == Min({Len(text), out_len - Len(acc.text) - 1})
    IN  IF ~acc.ok \/ written <= 0 THEN [ok |-> FALSE, text |-> <<>>]
        ELSE [ok |-> TRUE, text |-> acc.text \o SubSeq(text, 1, written)]

\* What is printed of component i, as three texts: nothing is printed where the
\* second or the third is empty.
Number(path, i) == Numbers!Itoa[path[i].index]
Mark(path, i) == IF path[i].hardened THEN <<"'">> ELSE <<>>
Slash(path, i) == IF i # Len(path) THEN <<"/">> ELSE <<>>

PrintedIfAny(acc, text, out_len) ==
    IF text = <<>> THEN acc ELSE Printed(acc, text, out_len)

\* One turn of the loop.
PrintedComponent(acc, path, i, out_len) ==
    LET number == Printed(acc, Number(path, i), out_len)
        marked == PrintedIfAny(number, Mark(path, i), out_len)
    IN  PrintedIfAny(marked, Slash(path, i), out_len)

\* What is printed after the first n components.
Printing(path, out_len) ==
    LET acc[n \in 0 .. Len(path)] ==
            IF n = 0 THEN [ok |-> TRUE, text |-> <<>>]
            ELSE PrintedComponent(acc[n - 1], path, n, out_len)
    IN  acc

PathFormat(path, out_len) ==
    IF Len(path) = 0 \/ Len(path) > MaxBip32Path
    THEN [ok |-> FALSE, text |-> <<>>]
    ELSE Printing(path, out_len)[Len(path)]

=============================================================================
