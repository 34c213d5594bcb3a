------------------------------ MODULE MCSignTx ------------------------------
(***************************************************************************)
(* SignTx on instances small enough for TLC: counters of six values, so    *)
(* that they wrap, and an output array longer than a chunk, as the ten     *)
(* slots are for the eight outputs that fit in the decode buffer.          *)
(***************************************************************************)
EXTENDS SignTx

=============================================================================
