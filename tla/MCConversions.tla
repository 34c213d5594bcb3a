--------------------------- MODULE MCConversions ---------------------------
(***************************************************************************)
(* Conversions with small bytes for the outputs and tokens, which have as  *)
(* many as their places, and the real ones for base 58.                    *)
(***************************************************************************)
EXTENDS Conversions

\* OP_DUP, OP_HASH160 and the length of the hash; OP_EQUALVERIFY, OP_CHECKSIG
MCOpcodesBefore == <<1, 2, 1>>
MCOpcodesAfter == <<2, 0>>

=============================================================================
