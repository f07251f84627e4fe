------------------------------ MODULE MCClient ------------------------------
(* An instance of Client for TLC. *)
EXTENDS Client, TLC

FileRows == {<<"f">>, <<"f", "f">>}

\* The handles are alike.
Alike == Permutations(Handle)
=============================================================================
