------------------------------ MODULE MCApduIO ------------------------------
(***************************************************************************)
(* ApduIO is finite as it stands: TLC checks all of it.                    *)
(***************************************************************************)
EXTENDS ApduIO

=============================================================================
