----------------------------- MODULE MCCatalog -----------------------------
(***************************************************************************)
(* Declarations for model checking Catalog: tables that are referenced,    *)
(* with a key of either type, and tables that reference one other.         *)
(***************************************************************************)
EXTENDS Catalog, TLC

CONSTANTS int, text

Plain == {[key |-> k, refs |-> {}] : k \in Type}

Referencing ==
  {[key |-> int, refs |-> {[table |-> n, type |-> int]}] : n \in Name}

Shapes == Plain \cup Referencing

Alone == {[key |-> int, refs |-> {}]}

\* Where TLC goes on: tables reference each other and no row was ever written,
\* or two tables that reference none have rows.
RowsOrReferences ==
  \/ /\ file = [p \in Path |-> Empty]
     /\ \A i \in Places : catalog[i].data = Empty
  \/ /\ Len(catalog) <= 2
     /\ \A i \in Places : catalog[i].shape \in Alone

Symmetric == Permutations(Name) \cup Permutations(Path) \cup Permutations(Row)

=============================================================================
