-------------------------- MODULE MCTokenRegistry --------------------------
(***************************************************************************)
(* TokenRegistry with three tokens.  The first two have the same uid and,  *)
(* symbol and name put together, the same letters; the third has the       *)
(* symbol of the first.                                                    *)
(***************************************************************************)
EXTENDS TokenRegistry

MCTokens ==
    {[uid |-> "u1", symbol |-> <<"a">>, name |-> <<"b", "c">>],
     [uid |-> "u1", symbol |-> <<"a", "b">>, name |-> <<"c">>],
     [uid |-> "u2", symbol |-> <<"a">>, name |-> <<"c">>]}

=============================================================================
