------------------------------ MODULE MCEngine ------------------------------
(* Instances of Engine for TLC: a keyed table, and a parent with a child.  *)
EXTENDS EngineAtomic

CONSTANTS Solo, Parent, Child, Id, Ref

\* One table: a key and a payload column.
SoloPk  == [t \in {Solo} |-> Id]
SoloDom == [t \in {Solo} |-> [c \in Col |-> IF c = Id THEN Cell ELSE Val]]

\* Two tables: Child.Ref references Parent.Id; Parent has only its key, Child
\* has no key of its own.
PairPk  == [t \in {Parent, Child} |-> IF t = Parent THEN Id ELSE NoCol]
PairFk  == {<<Child, Ref, Parent>>}
PairDom == [t \in {Parent, Child} |-> [c \in Col |->
              IF <<t, c>> \in {<<Parent, Id>>, <<Child, Ref>>} THEN Cell ELSE {NULL}]]
=============================================================================
