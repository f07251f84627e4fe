------------------------------- MODULE Client -------------------------------
(***************************************************************************)
(* An embedding program on one connection: statement handles (db4.c) that  *)
(* it prepares, binds, steps, resets and finalizes in any order, on a      *)
(* table with one TEXT column whose heap they share (table.c), with .load  *)
(* and .checkpoint in between (load.c, wal.c), all charged to one memory   *)
(* budget.  Statements are atomic here: Engine has their rows one by one,  *)
(* Durable and Reload the files.  db4_exec is Prepare, Steps and Finalize, *)
(* and the calls of its callback come in between.                          *)
(***************************************************************************)
EXTENDS Memory, Sequences

CONSTANTS
  Handle,
  Kinds,        \* the statements prepared: see Exec
  Text,         \* the values bound, NULL aside
  NULL,
  Freed,        \* what is read through a pointer into memory given back
  FileTexts,    \* what a .load may find: sequences of rows
  AstSizes,     \* what a parsed statement takes of its arena
  FileSize,     \* bytes of the file
  Reserve,      \* LOAD_ARENA_RESERVE
  FirstRows,    \* the first row_cap (8 in the code)
  FirstHeap,    \* the first heap_cap (64 in the code)
  MaxRow,       \* bound: row numbers
  MaxHeap,      \* bound: texts in the heap
  Malloc        \* whether malloc may fail: {TRUE} or BOOLEAN

ASSUME ClientAssumption ==
  /\ {FileSize, Reserve, MaxRow, MaxHeap} \cup AstSizes \subseteq Nat
  /\ {FirstRows, FirstHeap} \subseteq Nat \ {0}
  /\ Malloc \subseteq BOOLEAN
  /\ Kinds \subseteq {"select", "insert", "update", "delete", "begin", "commit", "rollback",
                      "garbage"}
  /\ \A texts \in FileTexts : texts \in Seq({texts[i] : i \in DOMAIN texts})

\* The arenas: the table's, those of a load or a heap compaction, and one for
\* each handle's parsed statement.
OwnArenas == {"rows", "heap", "schema", "csv", "new rows", "new heap"}
Arenas    == OwnArenas \cup Handle

ASSUME HandleAssumption == IsFiniteSet(Handle) /\ Handle \cap OwnArenas = {}

VARIABLES
  m,       \* memory: [used, arena]
  t,       \* the table: loaded, rows [ref, null, dead], heap, and their capacities
  txn,     \* active, and the rows a ROLLBACK leaves
  h,       \* the handles
  pc       \* where load_csv is

vars == <<m, t, txn, h, pc>>

NoTable == [loaded |-> FALSE, rows |-> <<>>, rowcap |-> 0, heap |-> <<>>, heapcap |-> 0]
Closed  == [open |-> FALSE]
NoTxn   == [active |-> FALSE, saved |-> <<>>]

Init ==
  /\ m = [used |-> 0, arena |-> [a \in Arenas |-> NoArena]]
  /\ t = NoTable /\ txn = NoTxn
  /\ h = [x \in Handle |-> Closed]
  /\ pc = "idle"

(***************************************************************************)
(* The table                                                               *)
(***************************************************************************)
table_failed(x) == x.arena["rows"].failed \/ x.arena["heap"].failed

\* The rows a cursor meets.
LiveRows(tab) ==
  LET live[n \in 0..Len(tab.rows)] ==
        IF n = 0 THEN <<>>
        ELSE IF tab.rows[n].dead THEN live[n - 1] ELSE Append(live[n - 1], tab.rows[n])
  IN  live[Len(tab.rows)]

Cell(tab, row) == IF row.null THEN NULL ELSE tab.heap[row.ref]
Contents(tab) == [i \in DOMAIN LiveRows(tab) |-> Cell(tab, LiveRows(tab)[i])]

\* s is [m, t, ref]: buf_append into the heap arena a; a full buffer is copied
\* to one twice as large, and the old one stays until the arena ends.
buf_append(s, a, v, malloc) ==
  LET full == Len(s.t.heap) + 1 > s.t.heapcap
      cap  == IF s.t.heapcap = 0 THEN FirstHeap ELSE 2 * s.t.heapcap
      mem  == IF full THEN arena_alloc(s.m, a, cap, malloc) ELSE s.m
  IN  IF mem.arena[a].failed THEN [s EXCEPT !.m = mem, !.ref = -1]
      ELSE [m   |-> mem,
            t   |-> [s.t EXCEPT !.heap = Append(@, v), !.heapcap = IF full THEN cap ELSE @],
            ref |-> Len(s.t.heap) + 1]

\* table_append_row: a blank live row; the columns grow by doubling.
table_append_row(s, a, malloc) ==
  LET full == Len(s.t.rows) = s.t.rowcap
      cap  == IF s.t.rowcap = 0 THEN FirstRows ELSE 2 * s.t.rowcap
      mem  == IF full THEN arena_alloc(s.m, a, cap, malloc) ELSE s.m
  IN  IF full /\ mem.arena[a].failed THEN [s EXCEPT !.m = mem, !.ref = -1]
      ELSE [m   |-> mem,
            t   |-> [s.t EXCEPT !.rows = Append(@, [ref |-> 0, null |-> TRUE, dead |-> FALSE]),
                                !.rowcap = IF full THEN cap ELSE @],
            ref |-> 0]

\* Fault for the mutants: a text is written over the one it replaces.
SetTextInPlace(s, row, v, malloc) ==
  LET old == s.t.rows[row].ref
      new == buf_append(s, "heap", v, malloc)
  IN  IF v = NULL THEN [s EXCEPT !.t.rows[row].null = TRUE]
      ELSE IF old # 0 THEN [s EXCEPT !.t.heap[old] = v, !.t.rows[row].null = FALSE]
      ELSE IF new.ref = -1 THEN [s EXCEPT !.m = new.m]
      ELSE [new EXCEPT !.t.rows[row] = [s.t.rows[row] EXCEPT !.ref = new.ref, !.null = FALSE]]

\* assign_value, table_set_text: the text is appended to the heap, the row
\* points to it; a text that was there stays where it is, and a NULL leaves the
\* row pointing to it.
table_set_text(s, row, v, malloc) ==
  LET new == buf_append(s, "heap", v, malloc)
  IN  IF v = NULL THEN [s EXCEPT !.t.rows[row].null = TRUE]
      ELSE IF new.ref = -1 THEN [s EXCEPT !.m = new.m]
      ELSE [new EXCEPT !.t.rows[row] = [s.t.rows[row] EXCEPT !.ref = new.ref, !.null = FALSE]]

(***************************************************************************)
(* interp_exec: what the statement of a handle does, and its result        *)
(***************************************************************************)
Result(mem, tab, tx, ok, rs) == [m |-> mem, t |-> tab, txn |-> tx, ok |-> ok, rs |-> rs]

Refused == Result(m, t, txn, FALSE, <<>>)

\* A row that was added to the table, as a ROLLBACK leaves it.
Undone(row, logged) == [row EXCEPT !.dead = logged \/ row.dead]

\* The transaction when a statement ends with the rows of tab: new rows are what
\* a ROLLBACK makes tombstones, but for those the undo log does not know.
Extended(tab, logged) ==
  IF ~txn.active THEN txn
  ELSE [txn EXCEPT !.saved =
          txn.saved \o [i \in 1..Len(tab.rows) - Len(txn.saved) |->
                           Undone(tab.rows[Len(txn.saved) + i], logged)]]

\* A cell that was NULL is NULL again, and keeps the text it got.
Restored(old, rows) ==
  [i \in DOMAIN old |-> IF old[i].null THEN [old[i] EXCEPT !.ref = rows[i].ref] ELSE old[i]]

\* SELECT v FROM t: the cells are pointers into the heap.
Select ==
  IF ~t.loaded THEN Refused
  ELSE Result(m, t, txn, TRUE, [i \in DOMAIN LiveRows(t) |-> IF LiveRows(t)[i].null THEN 0 ELSE LiveRows(t)[i].ref])

\* INSERT INTO t VALUES (?)
InsertRow(v, malloc) ==
  LET n   == Len(t.rows) + 1
      app == table_append_row([m |-> m, t |-> t, ref |-> 0], "rows", malloc)
      set == table_set_text(app, n, v, malloc)
      dead == [set.t EXCEPT !.rows[n].dead = TRUE]
  IN  IF ~t.loaded THEN Refused
      ELSE IF app.ref = -1 THEN Result(app.m, t, txn, FALSE, <<>>)
      ELSE IF table_failed(app.m) THEN Result(app.m, app.t, Extended(app.t, FALSE), FALSE, <<>>)
      ELSE IF table_failed(set.m) THEN Result(set.m, dead, Extended(dead, TRUE), FALSE, <<>>)
      ELSE Result(set.m, set.t, Extended(set.t, TRUE), TRUE, <<>>)

\* UPDATE t SET v = ?, row by row to the first failure, which takes all back.
UpdateRows(v, malloc) ==
  LET One(s, row) == LET new == table_set_text(s, row, v, malloc)
                     IN  [new EXCEPT !.ref = IF table_failed(new.m) THEN -1 ELSE 0]
      set[n \in 0..Len(t.rows)] ==
        IF n = 0 THEN [m |-> m, t |-> t, ref |-> 0]
        ELSE IF t.rows[n].dead \/ set[n - 1].ref = -1 THEN set[n - 1]
        ELSE One(set[n - 1], n)
      end == set[Len(t.rows)]
  IN  IF ~t.loaded THEN Refused
      ELSE IF end.ref = -1
      THEN Result(end.m, [end.t EXCEPT !.rows = Restored(t.rows, end.t.rows)], txn, FALSE, <<>>)
      ELSE Result(end.m, end.t, txn, TRUE, <<>>)

\* DELETE FROM t
DeleteRows ==
  IF ~t.loaded THEN Refused
  ELSE Result(m, [t EXCEPT !.rows = [i \in DOMAIN t.rows |-> [t.rows[i] EXCEPT !.dead = TRUE]]],
              txn, TRUE, <<>>)

Begin    == IF txn.active THEN Refused
            ELSE Result(m, t, [active |-> TRUE, saved |-> t.rows], TRUE, <<>>)
Commit   == IF txn.active THEN Result(m, t, NoTxn, TRUE, <<>>) ELSE Refused
Rollback == IF txn.active
            THEN Result(m, [t EXCEPT !.rows = Restored(txn.saved, t.rows)], NoTxn, TRUE, <<>>)
            ELSE Refused

Exec(x, malloc) ==
  CASE h[x].kind = "select"   -> Select
    [] h[x].kind = "insert"   -> InsertRow(h[x].param, malloc)
    [] h[x].kind = "update"   -> UpdateRows(h[x].param, malloc)
    [] h[x].kind = "delete"   -> DeleteRows
    [] h[x].kind = "begin"    -> Begin
    [] h[x].kind = "commit"   -> Commit
    [] h[x].kind = "rollback" -> Rollback

(***************************************************************************)
(* The handles                                                             *)
(***************************************************************************)
\* db4_prepare: parse into the handle's arena.  A text that is no statement, and
\* one for which memory runs out, leaves a message and no arena.
Prepare(x, kind, size, malloc) ==
  LET parsed == arena_alloc(arena_init(m, x, malloc), x, size, malloc)
      ok == kind # "garbage" /\ ~parsed.arena[x].failed
  IN  /\ pc = "idle" /\ ~h[x].open
      /\ m' = IF ok THEN parsed ELSE arena_term(parsed, x)
      /\ h' = IF ok THEN [h EXCEPT ![x] = [open |-> TRUE, kind |-> kind, param |-> NULL,
                                            executed |-> FALSE, failed |-> FALSE,
                                            rs |-> <<>>, idx |-> 0, snap |-> <<>>, moved |-> FALSE]]
              ELSE h
      /\ UNCHANGED <<t, txn, pc>>

\* bind_set: refused once the statement has run.
Bind(x, v) ==
  /\ pc = "idle" /\ h[x].open /\ h[x].kind \in {"insert", "update"}
  /\ h' = IF h[x].executed THEN h ELSE [h EXCEPT ![x].param = v]
  /\ UNCHANGED <<m, t, txn, pc>>

\* What the statement of x leaves when it ran with the outcome r; snap is what
\* a SELECT saw.
Executed(x, r) ==
  [m |-> r.m, t |-> r.t, txn |-> r.txn,
   stmt |-> [h[x] EXCEPT !.executed = TRUE, !.failed = ~r.ok, !.rs = r.rs,
                         !.snap = IF h[x].kind = "select" THEN Contents(t) ELSE <<>>]]

\* Fault for the mutants: a statement that failed counts as not executed.
EnsureExecutedAgain(x, malloc) ==
  IF h[x].executed /\ ~h[x].failed THEN [m |-> m, t |-> t, txn |-> txn, stmt |-> h[x]]
  ELSE Executed(x, Exec(x, malloc))

\* The first use after prepare or reset runs the statement.
ensure_executed(x, malloc) ==
  IF h[x].executed THEN [m |-> m, t |-> t, txn |-> txn, stmt |-> h[x]]
  ELSE Executed(x, Exec(x, malloc))

\* Bounds: no statement runs that could pass them.
Roomy(x) ==
  ~h[x].executed =>
    /\ h[x].kind = "insert" => Len(t.rows) < MaxRow
    /\ h[x].kind \in {"insert", "update"} => Len(t.heap) + Len(LiveRows(t)) <= MaxHeap

Used(x, malloc, Then(_)) ==
  /\ pc = "idle" /\ h[x].open /\ Roomy(x)
  /\ \E e \in {ensure_executed(x, malloc)} :
       /\ m' = e.m /\ t' = e.t /\ txn' = e.txn
       /\ h' = [h EXCEPT ![x] = Then(e.stmt)]
  /\ UNCHANGED pc

\* db4_step: DB4_ROW while rows are left; DB4_ERROR and DB4_DONE change nothing.
Advanced(stmt) ==
  IF ~stmt.failed /\ stmt.kind = "select" /\ stmt.idx < Len(stmt.rs)
  THEN [stmt EXCEPT !.idx = @ + 1] ELSE stmt

Step(x, malloc) == Used(x, malloc, Advanced)

\* db4_column_count, db4_column_name: they run the statement too.
ColumnCount(x, malloc) == Used(x, malloc, LAMBDA stmt : stmt)

\* db4_reset: the bindings stay.
Reset(x) ==
  /\ pc = "idle" /\ h[x].open
  /\ h' = [h EXCEPT ![x] = [h[x] EXCEPT !.rs = <<>>, !.idx = 0, !.executed = FALSE,
                                        !.failed = FALSE, !.snap = <<>>, !.moved = FALSE]]
  /\ UNCHANGED <<m, t, txn, pc>>

Finalize(x) ==
  /\ pc = "idle" /\ h[x].open
  /\ m' = arena_term(m, x)
  /\ h' = [h EXCEPT ![x] = Closed]
  /\ UNCHANGED <<t, txn, pc>>

\* current_cell, db4_column_text: what the pointer of the current row reads.
ColumnText(x) ==
  LET ref == h[x].rs[h[x].idx]
  IN  IF ref = 0 THEN NULL ELSE IF h[x].moved THEN Freed ELSE t.heap[ref]

\* The heap is given back: what open results point into is gone.
Moved == [x \in Handle |-> IF h[x].open THEN [h[x] EXCEPT !.moved = h[x].rs # <<>>] ELSE h[x]]

(***************************************************************************)
(* .checkpoint: compaction (table_compact, table_compact_heap)             *)
(***************************************************************************)
\* Every text a live row points to is copied, also where the cell is NULL.
Compacted(tab) ==
  LET live == LiveRows(tab)
      One(s, r) == IF r.ref = 0 THEN [s EXCEPT !.rows = Append(@, r)]
                   ELSE [rows |-> Append(s.rows, [r EXCEPT !.ref = Len(s.heap) + 1]),
                         heap |-> Append(s.heap, tab.heap[r.ref])]
      new[n \in 0..Len(live)] ==
        IF n = 0 THEN [rows |-> <<>>, heap |-> <<>>] ELSE One(new[n - 1], live[n])
      end == new[Len(live)]
  IN  [tab EXCEPT !.rows = end.rows, !.heap = end.heap, !.heapcap = Len(end.heap)]

\* The arena b becomes the arena a, which was given back.
Becomes(mem, a, b) == [mem EXCEPT !.arena[a] = mem.arena[b], !.arena[b] = NoArena]

Checkpoint(malloc) ==
  LET dense == [t EXCEPT !.rows = LiveRows(t)]
      text  == Compacted(t)
      new   == arena_alloc(arena_init(m, "new heap", malloc), "new heap", text.heapcap, malloc)
      prior == m.arena["heap"].failed
      moved == Becomes(arena_term(new, "heap"), "heap", "new heap")
  IN  /\ pc = "idle" /\ t.loaded /\ ~txn.active
      /\ IF new.arena["new heap"].failed
         THEN /\ m' = Latched(arena_term(new, "new heap"), "heap")
              /\ t' = dense /\ h' = h
         ELSE /\ m' = IF prior THEN Latched(moved, "heap") ELSE moved
              /\ t' = text /\ h' = Moved
      /\ UNCHANGED <<txn, pc>>

(***************************************************************************)
(* .load (load_csv): what it holds of the budget on every way out          *)
(***************************************************************************)
\* Fault for the mutants: the file is compared with the cap, not with what is free.
ReadFileOfCap == FileSize + 1 + Reserve <= Limit

\* read_file looks whether the file and working memory fit; the charge itself
\* is not checked.
ReadFile == ~budget_would_exceed(m, FileSize + 1 + Reserve)

LoadStart(malloc) ==
  /\ pc = "idle" /\ ~(txn.active /\ t.loaded)
  /\ ReadFile
  /\ m' = arena_init([m EXCEPT !.used = @ + FileSize], "schema", malloc)
  /\ pc' = "schema"
  /\ UNCHANGED <<t, txn, h>>

\* Fault for the mutants: a load that fails forgets the reader's arena.
ReleasedLess ==
  LET table == arena_term(arena_term(m, "new rows"), "new heap")
  IN  budget_uncharge(arena_term(IF pc = "rows" THEN table ELSE m, "schema"), FileSize)

\* The labels fail and oom: every arena that is live, and the charge.
Released ==
  LET table == arena_term(arena_term(m, "new rows"), "new heap")
      mem   == arena_term(arena_term(IF pc = "rows" THEN table ELSE m, "schema"), "csv")
  IN  budget_uncharge(mem, FileSize)

\* A bad schema, header or constraint; each arena that failed ends here too.
LoadFail ==
  /\ pc \in {"schema", "header", "rows"}
  /\ m' = Released /\ pc' = "idle"
  /\ UNCHANGED <<t, txn, h>>

LoadSchema(malloc) ==
  /\ pc = "schema" /\ ~m.arena["schema"].failed
  /\ m' = arena_init(m, "csv", malloc)
  /\ pc' = "header"
  /\ UNCHANGED <<t, txn, h>>

\* The header is read and the table made.  A table that cannot be is left to
\* LoadFail, one that can drops the schema.
LoadTable(malloc) ==
  LET csv == arena_alloc(m, "csv", 1, malloc)
      new == arena_alloc(arena_init(arena_init(csv, "new rows", malloc), "new heap", malloc), "new rows", 1, malloc)
      bad == new.arena["new rows"].failed \/ new.arena["new heap"].failed
  IN  /\ pc = "header" /\ ~csv.arena["csv"].failed
      /\ m' = IF bad THEN new ELSE arena_term(new, "schema")
      /\ pc' = "rows"
      /\ UNCHANGED <<t, txn, h>>

\* Every row is read, appended and checked, the WAL replayed; then catalog_put
\* ends the old table and the new one takes its place.  A table that is new may
\* come in a transaction, and a ROLLBACK leaves its rows.
LoadRows(texts, malloc) ==
  LET One(s, v) == LET row == table_append_row(s, "new rows", malloc)
                       txt == buf_append(row, "new heap", v, malloc)
                   IN  IF row.ref = -1 \/ txt.ref = -1
                       THEN [s EXCEPT !.m = IF row.ref = -1 THEN row.m ELSE txt.m, !.ref = -1]
                       ELSE [txt EXCEPT !.t.rows[Len(txt.t.rows)] = [ref |-> txt.ref, null |-> FALSE, dead |-> FALSE]]
      read[n \in 0..Len(texts)] ==
        IF n = 0 THEN [m |-> m, t |-> [NoTable EXCEPT !.loaded = TRUE], ref |-> 0]
        ELSE IF read[n - 1].ref = -1 THEN read[n - 1] ELSE One(read[n - 1], texts[n])
      end == read[Len(texts)]
      old == arena_term(arena_term(end.m, "rows"), "heap")
      put == Becomes(Becomes(old, "rows", "new rows"), "heap", "new heap")
  IN  /\ pc = "rows"
      /\ ~m.arena["new rows"].failed /\ ~m.arena["new heap"].failed
      /\ IF end.ref = -1
         THEN m' = end.m /\ UNCHANGED <<t, txn, h, pc>>
         ELSE /\ m' = budget_uncharge(arena_term(put, "csv"), FileSize)
              /\ t' = end.t
              /\ txn' = IF txn.active THEN [txn EXCEPT !.saved = end.t.rows] ELSE txn
              /\ h' = Moved
              /\ pc' = "idle"

(***************************************************************************)
Next ==
  \/ \E malloc \in Malloc :
       \/ \E x \in Handle :
            \/ \E kind \in Kinds, size \in AstSizes : Prepare(x, kind, size, malloc)
            \/ Step(x, malloc)
            \/ ColumnCount(x, malloc)
       \/ Checkpoint(malloc)
       \/ LoadStart(malloc) \/ LoadSchema(malloc) \/ LoadTable(malloc)
       \/ \E texts \in FileTexts : LoadRows(texts, malloc)
  \/ \E x \in Handle :
       \/ \E v \in Text \cup {NULL} : Bind(x, v)
       \/ Reset(x)
       \/ Finalize(x)
  \/ LoadFail

Spec == Init /\ [][Next]_vars

(***************************************************************************)
(* Properties                                                              *)
(***************************************************************************)
Charged(mem) == MapThenSumSet(LAMBDA a : mem.arena[a].allocd, Arenas)

WithinLimit == Limit = 0 \/ m.used <= Limit

\* The budget holds exactly what the live arenas and the file being loaded
\* take, on every way through prepare, load and compaction, failing ones
\* included; between calls only the table and the open handles hold any.  It
\* never passes the limit, also by the charge for the file that load_csv does
\* not check (budget_charge, budget_uncharge, arena_term; load.c:142, :236).
Accounted ==
  /\ m.used = Charged(m) + (IF pc = "idle" THEN 0 ELSE FileSize)
  /\ pc = "idle" =>
       \A a \in Arenas : m.arena[a].allocd > 0 =>
         IF a \in Handle THEN h[a].open ELSE t.loaded /\ a \in {"rows", "heap"}
  /\ WithinLimit

\* A SELECT serves the rows it saw when it ran, in order, whatever the other
\* handles insert, update, delete and roll back while it is stepped; only a
\* load or a checkpoint takes them away (ResultSet, the append-only heap).
ServesWhatItSaw ==
  \A x \in Handle : h[x].open /\ ~h[x].moved =>
    /\ Len(h[x].rs) = Len(h[x].snap)
    /\ h[x].idx > 0 => ColumnText(x) = h[x].snap[h[x].idx]

\* A handle's statement runs at most once between resets: the rows change only
\* when a handle is used for the first time, and one that failed has failed
\* until it is reset (ensure_executed, db4_reset).
RunsOnce ==
  [][/\ Contents(t') # Contents(t) =>
          pc = "rows" \/ \E x \in Handle : h[x].open /\ ~h[x].executed /\ h'[x].open /\ h'[x].executed
     /\ \A x \in Handle : h[x].open /\ h[x].failed /\ h'[x].open /\ h'[x].executed
          => h'[x].failed]_vars
=============================================================================
