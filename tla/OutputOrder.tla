---------------------------- MODULE OutputOrder ----------------------------
(***************************************************************************)
(* What src/ui/display.c computes from the list of change indices: the     *)
(* sorted walk of skip_change_outputs, and the line "number/total" of      *)
(* prepare_display_output.  A list is a sequence of uint8_t, in the order  *)
(* the host sent them; it may name an index twice.                         *)
(***************************************************************************)
EXTENDS Integers, Sequences, FiniteSetsExt, SequencesExt

CONSTANT Modulus    \* 2^8: counters and indices are uint8_t

Next8(n) == (n + 1) % Modulus

\* inplace_selection_sort: the place of the first smallest number from i on.
PositionOfLeast(list, i) ==
    CHOOSE p \in i .. Len(list) :
        /\ \A j \in i .. Len(list) : list[p] <= list[j]
        /\ \A j \in i .. p - 1 : list[p] < list[j]

Swapped(list, i, p) == [list EXCEPT ![i] = list[p], ![p] = list[i]]

\* The list after the first n turns of the loop.
Turns(list) ==
    LET turn[n \in 0 .. Len(list)] ==
            IF n = 0 THEN list
            ELSE Swapped(turn[n - 1], n, PositionOfLeast(turn[n - 1], n))
    IN  turn

Sorted_Unsorted(list) == list
Sorted(list) == Turns(list)[Len(list) - 1]

\* check_output_index_state returns true at confirmed output c and slot d.
Stops(c, d, outputs_len, buffer_output_len) ==
    c = outputs_len \/ d = buffer_output_len

\* One turn of the loop of skip_change_outputs: the counters, and whether it
\* stopped.
Skipped(at, index, outputs_len, buffer_output_len) ==
    IF at.stopped \/ at.c # index THEN at
    ELSE [c |-> Next8(at.c),
          d |-> Next8(at.d),
          stopped |-> Stops(Next8(at.c), Next8(at.d), outputs_len, buffer_output_len)]

\* The loop over a sorted list, after its first n turns.
WalkTurns(sorted, c, d, outputs_len, buffer_output_len) ==
    LET at[n \in 0 .. Len(sorted)] ==
            IF n = 0 THEN [c |-> c, d |-> d, stopped |-> FALSE]
            ELSE Skipped(at[n - 1], sorted[n], outputs_len, buffer_output_len)
    IN  at

\* skip_change_outputs, which looks at change_len first.
Walk(list, c, d, outputs_len, buffer_output_len) ==
    LET sorted == IF list = <<>> THEN list ELSE Sorted(list)
    IN  WalkTurns(sorted, c, d, outputs_len, buffer_output_len)[Len(list)]

-----------------------------------------------------------------------------
\* total_outputs and fake_output_index.
Total(list, outputs_len) == (outputs_len - Len(list)) % Modulus

Number_NotShifted(list, index) == Next8(index)
Number(list, index) ==
    (index + 1 - Cardinality({i \in DOMAIN list : index > list[i]})) % Modulus

=============================================================================
