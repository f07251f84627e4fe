---------------------------- MODULE EngineAtomic ----------------------------
(***************************************************************************)
(* The row-by-row engine implements the atomic one.  While a call runs,    *)
(* the user's view is what it was when the call started; the user's        *)
(* transaction is open only if he opened it (autocommit's is implicit).    *)
(***************************************************************************)
EXTENDS Engine

\* The rows of table t a cursor has met when it has passed row r: the live ones,
\* in the order of their numbers.
Met(S, t) ==
  LET met[r \in 0..MaxRow] ==
        IF r = 0 THEN <<>>
        ELSE IF <<t, r>> \in S.live THEN Append(met[r - 1], S.cell[<<t, r>>])
                                    ELSE met[r - 1]
  IN  met

Rows(S, t) == Met(S, t)[MaxRow]

View(S) == [t \in Table |-> Rows(S, t)]

UserTxn == active /\ ~stmt.auto

Atomic == INSTANCE AtomicDb WITH
            db    <- View(seen),
            open  <- UserTxn,
            saved <- IF UserTxn THEN View(begun) ELSE View(seen)

\* Every behaviour of the engine is one of AtomicDb: a statement takes effect
\* at once or not at all, on one table, keeping the order of the rows it does
\* not touch; ROLLBACK returns to BEGIN; a compaction is invisible.
ImplementsAtomic == Atomic!Spec
=============================================================================
