------------------------------- MODULE Engine -------------------------------
(***************************************************************************)
(* One connection of db4: its tables in memory (table.c), the undo log of  *)
(* its transaction (txn.c) and the execution of BEGIN, COMMIT, ROLLBACK,   *)
(* INSERT, UPDATE and DELETE over them (interp.c), plus the row            *)
(* renumbering that .checkpoint performs in memory (table_compact).        *)
(*                                                                         *)
(* A row reference is a slot <<table, row number>>; row numbers start at 1 *)
(* here and at 0 in the code.  A statement runs row by row, because a row  *)
(* may fail after earlier rows of the same statement were applied: `pc'    *)
(* says where in the statement the connection is.  WHERE clauses and right *)
(* hand sides are nondeterministic: any row may match, any value of the    *)
(* column's domain may be assigned.                                        *)
(***************************************************************************)
EXTENDS Integers, Sequences

CONSTANTS
  Table,    \* names of the tables in the catalog
  Col,      \* column names
  Val,      \* non-NULL cell values
  NULL,     \* the NULL cell
  NoCol,    \* "this table has no primary key" (pk_col = -1)
  Pk,       \* [Table -> Col \cup {NoCol}]: the primary key column
  Fk,       \* set of <<child table, child column, parent table>>
  Dom,      \* [Table -> [Col -> SUBSET cells]]: the cells a statement may write
  Faults,   \* subset of {"log", "heap", "commit"}: which calls may fail
  MaxRow,   \* bound: rows a table ever allocates between two compactions
  MaxLog,   \* bound: entries of the undo log
  MaxSet    \* bound: assignments in one UPDATE

Cell == Val \cup {NULL}
Row  == 1..MaxRow
Slot == Table \X Row
Tuple == [Col -> Cell]
NullTuple == [c \in Col |-> NULL]

ASSUME SchemaAssumption ==
  /\ Table # {}
  /\ NULL \notin Val
  /\ NoCol \notin Col
  /\ Pk \in [Table -> Col \cup {NoCol}]
  /\ Fk \subseteq Table \X Col \X Table
  /\ Dom \in [Table -> [Col -> SUBSET Cell]]
  /\ \A f \in Fk : f[1] # f[3] /\ Pk[f[3]] \in Col

ASSUME BoundAssumption == MaxRow \in Nat /\ MaxLog \in Nat /\ MaxSet \in Nat

VARIABLES
  n,        \* [Table -> Nat]: t->n_rows, rows allocated (live or dead)
  live,     \* the slots whose dead bit is clear
  cell,     \* [Slot -> Tuple]: the columns, null bit and value together
  failed,   \* tables whose allocation failure is latched (table_failed)
  active,   \* txn->active
  log,      \* txn->log, oldest entry first
  pc,       \* where the connection is in the call it is executing
  stmt,     \* the statement being executed
  hist,     \* ghost: hist[i] is the memory just before log[i] was pushed
  begun,    \* ghost: the memory at BEGIN
  seen      \* ghost: the memory when the running call started

mem  == <<n, live, cell>>
vars == <<n, live, cell, failed, active, log, pc, stmt, hist, begun, seen>>

-----------------------------------------------------------------------------
(* Memory images, and what one undo entry does to one.                     *)

Image == [n |-> n, live |-> live, cell |-> cell]

Allocated(S, s) == s[2] <= S.n[s[1]]

\* What a SELECT sees: the live rows and their cells.
Contents(S) == [s \in S.live |-> S.cell[s]]

NoStmt == [kind |-> "none", tab |-> CHOOSE t \in Table : TRUE, auto |-> FALSE,
           mark |-> 0, cur |-> 0, set |-> <<>>, pos |-> 0]

\* Fault: the two last fields of an undo entry are exchanged.
EntrySwapped(k, s, c, v) == [kind |-> k, slot |-> s, col |-> v, old |-> c]

\* UndoEntry, with what undo_one needs: the row, the column, its old cell.
Entry(k, s, c, v) == [kind |-> k, slot |-> s, col |-> c, old |-> v]

\* undo_one: an INSERT is undone by a tombstone (the row number stays used),
\* a DELETE by clearing it, an UPDATE by restoring the one cell it logged.
Undone(e, S) ==
  CASE e.kind = "insert" -> [S EXCEPT !.live = @ \ {e.slot}]
    [] e.kind = "delete" -> [S EXCEPT !.live = @ \cup {e.slot}]
    [] e.kind = "update" -> [S EXCEPT !.cell[e.slot][e.col] = e.old]

-----------------------------------------------------------------------------
(* The constraint checks of interp.c, by their scan definition: the primary *)
(* key index only narrows the rows they look at (module PkIndex).          *)

\* Fault: a duplicate key is looked for among the rows after this one only.
RowConstraintsLaterRows(L, C, s) ==
  /\ LET k == Pk[s[1]] IN
       k # NoCol => /\ C[s][k] # NULL
                    /\ \A q \in L : q[1] = s[1] /\ q[2] > s[2] => C[q][k] # C[s][k]
  /\ \A f \in Fk : f[1] = s[1] /\ C[s][f[2]] # NULL =>
       \E q \in L : q[1] = f[3] /\ C[q][Pk[f[3]]] = C[s][f[2]]

\* check_row_constraints: the key is set and unique, each foreign key of the
\* row that is not NULL finds a live row of the table it references.
CheckRowConstraints(L, C, s) ==
  /\ LET k == Pk[s[1]] IN
       k # NoCol => /\ C[s][k] # NULL
                    /\ \A q \in L : q[1] = s[1] /\ q # s => C[q][k] # C[s][k]
  /\ \A f \in Fk : f[1] = s[1] /\ C[s][f[2]] # NULL =>
       \E q \in L : q[1] = f[3] /\ C[q][Pk[f[3]]] = C[s][f[2]]

\* check_pk_not_referenced, negated: a live row elsewhere points at row s.
PkReferenced(L, C, s) ==
  /\ Pk[s[1]] # NoCol
  /\ \E f \in Fk, q \in L : /\ f[3] = s[1] /\ q[1] = f[1]
                            /\ C[q][f[2]] # NULL
                            /\ C[q][f[2]] = C[s][Pk[s[1]]]

-----------------------------------------------------------------------------
(* Initial states: tables as load_csv leaves them, every row checked.      *)

WellFormed(L, C) == \A s \in L : CheckRowConstraints(L, C, s)

Writable(t) == {x \in Tuple : \A c \in Col : x[c] \in Dom[t][c]}

Init ==
  /\ n \in [Table -> 0..MaxRow]
  /\ live = {s \in Slot : s[2] <= n[s[1]]}
  /\ cell \in [Slot -> Tuple]
  /\ \A s \in Slot : IF s \in live THEN cell[s] \in Writable(s[1])
                                   ELSE cell[s] = NullTuple
  /\ WellFormed(live, cell)
  /\ failed = {}
  /\ active = FALSE
  /\ log = <<>>
  /\ pc = "idle"
  /\ stmt = NoStmt
  /\ hist = <<>>
  /\ begun = Image
  /\ seen = Image

-----------------------------------------------------------------------------
(* Transaction statements.                                                 *)

\* Push an undo entry, remembering the memory it was taken in.
Push(e) == /\ Len(log) < MaxLog
           /\ log' = Append(log, e)
           /\ hist' = Append(hist, Image)

\* The call returns to its caller; what it left in memory becomes visible.
Return == /\ pc' = "idle"
          /\ stmt' = NoStmt
          /\ seen' = Image'

\* BEGIN (refused, changing nothing, when a transaction is active).
Begin ==
  /\ pc = "idle" /\ ~active
  /\ active' = TRUE
  /\ begun' = Image
  /\ UNCHANGED <<mem, failed, log, pc, stmt, hist, seen>>

Commit ==
  /\ pc = "idle" /\ active
  /\ pc' = "commit"
  /\ UNCHANGED <<mem, failed, active, log, stmt, hist, begun, seen>>

\* interp_exec_commit, every table's share made durable: the log is dropped.
CommitOk ==
  /\ pc = "commit"
  /\ active' = FALSE
  /\ log' = <<>> /\ hist' = <<>>
  /\ begun' = Image
  /\ UNCHANGED <<mem, failed>>
  /\ Return

\* Fault: the log is dropped before the outcome of the append is known.
CommitFailDropsLog ==
  /\ "commit" \in Faults
  /\ pc = "commit" /\ log # <<>>
  /\ log' = <<>> /\ hist' = <<>>
  /\ UNCHANGED <<mem, failed, active, begun>>
  /\ Return

\* A table's append failed: interp_exec_commit returns at once, with the
\* transaction still active and its log intact - and interp_exec returns that
\* failure for an autocommitted statement without rolling it back.
CommitFail ==
  /\ "commit" \in Faults
  /\ pc = "commit" /\ log # <<>>
  /\ UNCHANGED <<mem, failed, active, log, hist, begun>>
  /\ Return

Rollback ==
  /\ pc = "idle" /\ active
  /\ pc' = "rollback"
  /\ UNCHANGED <<mem, failed, active, log, stmt, hist, begun, seen>>

\* One turn of the loops of txn_rollback and txn_rollback_to.
UndoOne ==
  /\ pc \in {"undo", "rollback"}
  /\ Len(log) > stmt.mark
  /\ LET U == Undone(log[Len(log)], Image)
     IN  live' = U.live /\ cell' = U.cell
  /\ log' = SubSeq(log, 1, Len(log) - 1)
  /\ hist' = SubSeq(hist, 1, Len(hist) - 1)
  /\ UNCHANGED <<n, failed, active, pc, stmt, begun, seen>>

EndRollback ==
  /\ pc = "rollback" /\ Len(log) = stmt.mark
  /\ active' = FALSE
  /\ begun' = Image
  /\ UNCHANGED <<mem, failed, log, hist>>
  /\ Return

\* A statement that failed has unwound to its mark; under autocommit the
\* implicit transaction is rolled back too (its log is empty by now).
EndFailed ==
  /\ pc = "undo" /\ Len(log) = stmt.mark
  /\ active' = (active /\ ~stmt.auto)
  /\ begun' = IF stmt.auto THEN Image ELSE begun
  /\ UNCHANGED <<mem, failed, log, hist>>
  /\ Return

-----------------------------------------------------------------------------
(* INSERT, UPDATE, DELETE: start, one action per row, end.                 *)

\* interp_exec opens the implicit transaction; the statement notes its mark.
\* kind "update" carries the columns it assigns, in order, repeats allowed.
StartAt(mark, k, t, set) ==
  /\ pc = "idle"
  /\ pc' = "row"
  /\ stmt' = [kind |-> k, tab |-> t, auto |-> ~active, mark |-> mark,
              cur |-> 0, set |-> set, pos |-> 0]
  /\ active' = TRUE
  /\ begun' = IF active THEN begun ELSE Image
  /\ UNCHANGED <<mem, failed, log, hist, seen>>

\* Fault: a failing statement undoes the statements before it as well.
StartAtZero(k, t, set) == StartAt(0, k, t, set)

Start(k, t, set) == StartAt(Len(log), k, t, set)

Fail == pc' = "undo" /\ UNCHANGED <<active, begun, seen, stmt>>

Running(k) == pc = "row" /\ stmt.kind = k

\* A value that does not fit (count, type, column reference): no row yet.
InsertReject ==
  /\ Running("insert")
  /\ Fail
  /\ UNCHANGED <<mem, failed, log, hist>>

\* One VALUES row: append, assign, check, log.  A row that fails its check, or
\* cannot be logged, becomes a tombstone no undo entry knows of.
InsertRow(x) ==
  LET t == stmt.tab
      s == <<t, n[t] + 1>>
      C == [cell EXCEPT ![s] = x]
      ok == CheckRowConstraints(live \cup {s}, C, s)
  IN /\ Running("insert")
     /\ t \notin failed /\ n[t] < MaxRow
     /\ x \in Writable(t)
     /\ n' = [n EXCEPT ![t] = @ + 1]
     /\ cell' = C
     /\ UNCHANGED failed
     /\ \/ /\ ok
           /\ live' = live \cup {s}
           /\ Push(Entry("insert", s, NoCol, NULL))
           /\ stmt' = [stmt EXCEPT !.cur = @ + 1]
           /\ UNCHANGED <<active, pc, begun, seen>>
        \/ /\ ~ok \/ "log" \in Faults
           /\ Fail
           /\ UNCHANGED <<live, log, hist>>

\* table_grow or a cell's storage ran out: the failure is latched, and a row
\* that was appended is deleted again.
InsertOom ==
  LET t == stmt.tab
      s == <<t, n[t] + 1>>
  IN /\ "heap" \in Faults
     /\ Running("insert")
     /\ t \notin failed
     /\ failed' = failed \cup {t}
     /\ \/ UNCHANGED <<n, cell>>
        \/ /\ n[t] < MaxRow
           /\ n' = [n EXCEPT ![t] = @ + 1]
           /\ cell' = [cell EXCEPT ![s] = NullTuple]
     /\ Fail
     /\ UNCHANGED <<live, log, hist>>

\* The table failed earlier: the append succeeds when capacity is left, the
\* latched failure is taken for this row's, and the row is not deleted.
InsertLatched ==
  LET t == stmt.tab
      s == <<t, n[t] + 1>>
  IN /\ Running("insert")
     /\ t \in failed
     /\ \/ UNCHANGED mem
        \/ /\ n[t] < MaxRow
           /\ n' = [n EXCEPT ![t] = @ + 1]
           /\ live' = live \cup {s}
           /\ cell' = [cell EXCEPT ![s] = NullTuple]
     /\ Fail
     /\ UNCHANGED <<failed, log, hist>>

\* cursor_next: r is the next live row of the statement's table.
NextRow(r) ==
  /\ <<stmt.tab, r>> \in live /\ r > stmt.cur
  /\ \A q \in Row : q > stmt.cur /\ q < r => <<stmt.tab, q>> \notin live

\* WHERE is not TRUE on this row.
SkipRow(r) ==
  /\ Running("update") \/ Running("delete")
  /\ NextRow(r)
  /\ stmt' = [stmt EXCEPT !.cur = r]
  /\ UNCHANGED <<mem, failed, active, log, pc, hist, begun, seen>>

DeleteRow(r) ==
  LET s == <<stmt.tab, r>> IN
    /\ Running("delete") /\ NextRow(r)
    /\ UNCHANGED <<n, cell, failed>>
    /\ \/ /\ ~PkReferenced(live, cell, s)
          /\ Push(Entry("delete", s, NoCol, NULL))
          /\ live' = live \ {s}
          /\ stmt' = [stmt EXCEPT !.cur = r]
          /\ UNCHANGED <<active, pc, begun, seen>>
       \/ /\ PkReferenced(live, cell, s) \/ "log" \in Faults
          /\ Fail
          /\ UNCHANGED <<live, log, hist>>

\* WHERE matched: the key may only change while nothing references it.
UpdateRow(r) ==
  LET s == <<stmt.tab, r>>
      pkUpdated == \E i \in DOMAIN stmt.set : stmt.set[i] = Pk[stmt.tab]
  IN /\ Running("update") /\ NextRow(r)
     /\ Len(log) + Len(stmt.set) <= MaxLog
     /\ IF pkUpdated /\ PkReferenced(live, cell, s)
        THEN Fail
        ELSE /\ pc' = "assign"
             /\ stmt' = [stmt EXCEPT !.cur = r, !.pos = 1]
             /\ UNCHANGED <<active, begun, seen>>
     /\ UNCHANGED <<mem, failed, log, hist>>

Assigning == pc = "assign" /\ stmt.pos <= Len(stmt.set)

\* Fault: the value assigned is logged, not the one it replaces.
AssignCellLogsNew(v) ==
  LET s == <<stmt.tab, stmt.cur>>
      c == stmt.set[stmt.pos]
  IN /\ Assigning
     /\ v \in Dom[stmt.tab][c]
     /\ Push(Entry("update", s, c, v))
     /\ cell' = [cell EXCEPT ![s][c] = v]
     /\ stmt' = [stmt EXCEPT !.pos = @ + 1]
     /\ UNCHANGED <<n, live, failed, active, pc, begun, seen>>

\* One assignment: the old cell is logged, then overwritten with v.
AssignCell(v) ==
  LET s == <<stmt.tab, stmt.cur>>
      c == stmt.set[stmt.pos]
  IN /\ Assigning
     /\ v \in Dom[stmt.tab][c]
     /\ Push(Entry("update", s, c, cell[s][c]))
     /\ cell' = [cell EXCEPT ![s][c] = v]
     /\ stmt' = [stmt EXCEPT !.pos = @ + 1]
     /\ UNCHANGED <<n, live, failed, active, pc, begun, seen>>

\* The undo log cannot grow: the assignment is not applied.
AssignNoLog ==
  /\ "log" \in Faults
  /\ Assigning
  /\ Fail
  /\ UNCHANGED <<mem, failed, log, hist>>

\* The cell's text finds no room: logged, not applied, failure latched.
AssignOom ==
  LET s == <<stmt.tab, stmt.cur>>
      c == stmt.set[stmt.pos]
  IN /\ "heap" \in Faults
     /\ Assigning
     /\ Push(Entry("update", s, c, cell[s][c]))
     /\ failed' = failed \cup {stmt.tab}
     /\ stmt' = [stmt EXCEPT !.pos = @ + 1]
     /\ UNCHANGED <<mem, active, pc, begun, seen>>

\* Fault: the table's latched failure is not looked at.
CheckUpdatedNotLatched ==
  /\ pc = "assign" /\ stmt.pos > Len(stmt.set)
  /\ IF CheckRowConstraints(live, cell, <<stmt.tab, stmt.cur>>)
     THEN pc' = "row" /\ UNCHANGED <<active, begun, seen, stmt>>
     ELSE Fail
  /\ UNCHANGED <<mem, failed, log, hist>>

\* All assignments of the row applied: table_failed, then the constraints.
CheckUpdated ==
  /\ pc = "assign" /\ stmt.pos > Len(stmt.set)
  /\ IF /\ stmt.tab \notin failed
        /\ CheckRowConstraints(live, cell, <<stmt.tab, stmt.cur>>)
     THEN pc' = "row" /\ UNCHANGED <<active, begun, seen, stmt>>
     ELSE Fail
  /\ UNCHANGED <<mem, failed, log, hist>>

\* The row loop is over; under autocommit the implicit COMMIT follows.
StmtOk ==
  /\ pc = "row"
  /\ IF stmt.kind = "insert" THEN stmt.cur > 0
                             ELSE \A r \in Row : ~NextRow(r)
  /\ UNCHANGED <<mem, failed, active, log, hist, begun>>
  /\ IF stmt.auto THEN pc' = "commit" /\ UNCHANGED <<stmt, seen>>
                  ELSE Return

-----------------------------------------------------------------------------
(* .checkpoint renumbers the live rows of a table, in memory first.        *)

\* table_compact: f[i] is the i-th live row of t, moved to row i.  Rows past
\* the new n_rows are out of reach until they are appended again.
Renumbered(t) ==
  \E m \in 0..MaxRow : \E f \in [1..m -> Row] :
    /\ \A i, j \in 1..m : i < j => f[i] < f[j]
    /\ \A r \in Row : <<t, r>> \in live <=> \E i \in 1..m : f[i] = r
    /\ n' = [n EXCEPT ![t] = m]
    /\ live' = {s \in Slot : IF s[1] = t THEN s[2] <= m ELSE s \in live}
    /\ cell' = [s \in Slot |-> IF s[1] # t THEN cell[s]
                               ELSE IF s[2] <= m THEN cell[<<t, f[s[2]]>>]
                               ELSE NullTuple]

\* Fault: .checkpoint runs inside a transaction as well.
CompactInTxn(t) ==
  /\ pc = "idle"
  /\ Renumbered(t)
  /\ seen' = Image'
  /\ begun' = IF active THEN begun ELSE Image'
  /\ UNCHANGED <<failed, active, log, pc, stmt, hist>>

\* cmd_checkpoint is refused while a transaction is open (main.c:109).
Compact(t) ==
  /\ pc = "idle" /\ ~active
  /\ Renumbered(t)
  /\ begun' = Image' /\ seen' = Image'
  /\ UNCHANGED <<failed, active, log, pc, stmt, hist>>

-----------------------------------------------------------------------------
Assignments == UNION {[1..k -> Col] : k \in 1..MaxSet}

StartAny == \E t \in Table : \/ Start("insert", t, <<>>)
                             \/ Start("delete", t, <<>>)
                             \/ \E set \in Assignments : Start("update", t, set)

Next ==
  \/ Begin \/ Commit \/ CommitOk \/ CommitFail \/ Rollback
  \/ UndoOne \/ EndRollback \/ EndFailed
  \/ StartAny
  \/ InsertReject \/ InsertOom \/ InsertLatched
  \/ \E x \in Tuple : InsertRow(x)
  \/ \E r \in Row : SkipRow(r) \/ DeleteRow(r) \/ UpdateRow(r)
  \/ \E v \in Cell : AssignCell(v)
  \/ AssignNoLog \/ AssignOom
  \/ CheckUpdated \/ StmtOk
  \/ \E t \in Table : Compact(t)

Spec == Init /\ [][Next]_vars

-----------------------------------------------------------------------------
(* Properties.                                                             *)

Images == [n : [Table -> 0..MaxRow], live : SUBSET Slot, cell : [Slot -> Tuple]]

Entries ==
  [kind : {"insert", "delete"}, slot : Slot, col : {NoCol}, old : {NULL}]
    \cup [kind : {"update"}, slot : Slot, col : Col, old : Cell]

Stmts == [kind : {"none", "insert", "update", "delete"}, tab : Table,
          auto : BOOLEAN, mark : Nat, cur : Nat, set : Seq(Col), pos : Nat]

\* Every variable keeps its type: an undo entry names a slot, a column only
\* when it is an update, and the cell undo_one is to restore.
TypeOK ==
  /\ n \in [Table -> 0..MaxRow]
  /\ live \subseteq Slot
  /\ cell \in [Slot -> Tuple]
  /\ failed \subseteq Table
  /\ active \in BOOLEAN
  /\ log \in Seq(Entries) /\ hist \in Seq(Images)
  /\ Len(log) = Len(hist)
  /\ pc \in {"idle", "row", "assign", "undo", "rollback", "commit"}
  /\ stmt \in Stmts
  /\ begun \in Images /\ seen \in Images

\* T holds everything S held: the same live rows, and the same cells in every
\* row allocated in S - tombstones included, which an undo may bring back.
Agrees(S, T) ==
  /\ S.live = T.live
  /\ \A t \in Table : S.n[t] <= T.n[t]
  /\ \A s \in Slot : Allocated(S, s) => S.cell[s] = T.cell[s]

\* The memory just before log entry i was pushed, or the present memory.
Before(i) == IF i <= Len(log) THEN hist[i] ELSE Image

\* The undo log is exact at every moment, in the middle of a statement and of
\* a rollback as well: undoing entry i in the memory that entry i+1 was pushed
\* in gives the memory entry i was pushed in.  Nothing to undo survives the end
\* of a transaction.  Rows that were appended and
\* never logged (a failed INSERT row) are tombstones nothing has to undo.
UndoExact ==
  /\ \A i \in 1..Len(log) : Agrees(hist[i], Undone(log[i], Before(i + 1)))
  /\ IF active THEN Agrees(begun, Before(1)) ELSE log = <<>>
  /\ pc \in {"row", "assign", "undo"} =>
       /\ stmt.mark <= Len(log)
       /\ Agrees(seen, Before(stmt.mark + 1))

\* A statement that fails leaves what a SELECT sees as it found it, whatever
\* rows it had already changed (interp_exec_insert, _update, _delete).
FailedStatementChangesNothing ==
  [][pc = "undo" /\ pc' = "idle" => Contents(Image') = Contents(seen)]_vars

\* ROLLBACK gives back exactly what was visible at BEGIN, after any mix of
\* successful and failed statements and failed COMMITs.
RollbackRestores ==
  [][pc = "rollback" /\ pc' = "idle" => Contents(Image') = Contents(begun)]_vars

\* Between calls every live row of a table with a primary key has a key, no
\* two have the same one, and no foreign key points at a missing row - after
\* multi-row updates of keys, deletes of referenced rows and partial undos.
Integrity == pc \in {"idle", "commit"} => WellFormed(live, cell)

\* Once a table ran out of memory, no statement that returns has changed a cell
\* of it, whichever row the failure struck at: its rows are those the statement
\* found, less the deleted ones (and blank ones, left by a failed append).
LatchedTableKeepsCells ==
  [][pc' = "idle" /\ pc \in {"row", "undo", "commit"} =>
       \A s \in live' : s[1] \in failed =>
         cell'[s] = IF s \in seen.live THEN seen.cell[s] ELSE NullTuple]_vars

\* Claim of interp.c:1773-1774: a mutation outside a transaction runs in "an
\* implicit BEGIN/COMMIT (or ROLLBACK on failure)"; either way the implicit
\* transaction is over when the statement returns.
AutocommitCloses ==
  [][stmt.auto /\ pc # "idle" /\ pc' = "idle" => ~active']_vars
=============================================================================
