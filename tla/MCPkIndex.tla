----------------------------- MODULE MCPkIndex -----------------------------
(***************************************************************************)
(* Keys and hashes for model checking PkIndex.  a and b share a hash, c    *)
(* has another with the same home in a table of 4 slots but not of 8.      *)
(***************************************************************************)
EXTENDS PkIndex, TLC

CONSTANTS a, b, c

Keys == {a, b, c}

Colliding == [k \in Keys |-> CASE k = a -> 3 [] k = b -> 3 [] k = c -> 7]

\* Keys that are distinct as doubles too.
Exact == [k \in Keys |-> CASE k = a -> 1 [] k = b -> 2 [] k = c -> 3]

\* a and b differ in nothing: their hash is the same, their images distinct.
Symmetric == Permutations({a, b})

\* INT keys past 2^53: a and c round to the same double.
Rounded == [k \in Keys |-> CASE k = a -> 1 [] k = b -> 2 [] k = c -> 1]

=============================================================================
