------------------------------ MODULE AtomicDb ------------------------------
(***************************************************************************)
(* What a connection promises its user: tables are sequences of rows (the  *)
(* order SELECT * shows), a statement changes one table in one step, and a *)
(* transaction can be taken back as a whole.  Row numbers, tombstones, the *)
(* undo log and the rows of an unfinished statement are not part of it.    *)
(***************************************************************************)
EXTENDS Integers, Sequences

CONSTANTS Table, Tuple

VARIABLES
  db,      \* [Table -> Seq(Tuple)]: what a SELECT sees between statements
  open,    \* the user's transaction is open
  saved    \* what ROLLBACK gives back

vars == <<db, open, saved>>

Init == /\ \A t \in Table : db[t] \in Seq(Tuple)
        /\ open = FALSE
        /\ saved = db

\* s with some of its rows left out, in order.
Subsequence(r, s) ==
  \E f \in [1..Len(r) -> 1..Len(s)] :
    /\ \A i, j \in 1..Len(r) : i < j => f[i] < f[j]
    /\ \A i \in 1..Len(r) : r[i] = s[f[i]]

Insert(t) == /\ Len(db'[t]) > Len(db[t])
             /\ SubSeq(db'[t], 1, Len(db[t])) = db[t]

Update(t) == Len(db'[t]) = Len(db[t])

Delete(t) == Subsequence(db'[t], db[t])

Statement ==
  /\ \E t \in Table : /\ Insert(t) \/ Update(t) \/ Delete(t)
                      /\ \A u \in Table \ {t} : db'[u] = db[u]
  /\ open' = open
  /\ saved' = IF open THEN saved ELSE db'

Begin == ~open /\ open' = TRUE /\ saved' = db /\ db' = db

Commit == open /\ open' = FALSE /\ saved' = db /\ db' = db

Rollback == open /\ open' = FALSE /\ db' = saved /\ saved' = saved

Spec == Init /\ [][Statement \/ Begin \/ Commit \/ Rollback]_vars
=============================================================================
