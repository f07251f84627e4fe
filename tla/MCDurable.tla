----------------------------- MODULE MCDurable -----------------------------
(* Instances of Durable for TLC. *)
EXTENDS Durable, TLC

CONSTANTS a, b, p1, p2

\* The base file has two rows.
TwoRows == <<a, b>>

\* Values not in the base file are interchangeable, whoever writes them.
NewValues == Permutations(Val \ {a, b})
=============================================================================
