--------------------------- MODULE MCDecodeBuffer ---------------------------
(***************************************************************************)
(* DecodeBuffer with the real sizes.  The change information is absent (1  *)
(* byte), of the old protocol with a path of n components (2 + 4n), or of  *)
(* the new one with any number of paths; a few lengths stand for them.     *)
(***************************************************************************)
EXTENDS DecodeBuffer

MCChangeLengths == {1, 22, 244}
MCChunkLengths == {5, 9, 31, 36, 64, 255}

=============================================================================
