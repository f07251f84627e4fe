------------------------------ MODULE Catalog ------------------------------
(***************************************************************************)
(* The catalog of one connection (catalog.c): which tables it has, from    *)
(* which file each was loaded, and which table references which; .load     *)
(* (load.c), CREATE TABLE and COMMIT over several tables (interp.c), and   *)
(* .checkpoint (main.c).                                                   *)
(*                                                                         *)
(* A row's cells are one value here, and a statement one step: Engine has  *)
(* its steps, Durable those that make a file durable, and the numbers of   *)
(* rows in it.  What is left is what spans tables.  A transaction's undo   *)
(* log names tables by their place in the catalog, which .load and CREATE  *)
(* TABLE may change underneath it; COMMIT makes one file after another     *)
(* durable, and in each only the rows the log names; and a foreign key is  *)
(* checked when it is declared, against tables that a later .load          *)
(* replaces.                                                               *)
(***************************************************************************)
EXTENDS Integers, Sequences, FiniteSets

CONSTANTS
  Name,    \* names of tables
  Path,    \* files a table can be loaded from
  NULL,    \* no path: the table was made by CREATE TABLE
  Type,    \* types of columns
  NoKey,   \* a table without a primary key
  Shape,   \* what .load and CREATE TABLE declare, see Declaration
  Row,     \* the rows a table may come to have
  Content, \* what a live row may hold
  NoRow,   \* in the place of a row that is not there yet
  Dead,    \* in the place of a row that is deleted
  Faults,  \* subset of {"append", "path", "crash"}: a table's part of a commit
           \* fails (memory, lock, stale generation, I/O), the copy of a path cannot be
           \* allocated, the process dies
  MaxLog   \* bound: entries of the undo log

\* A table's primary key (its type) and its foreign keys: the table each
\* names, and its type.
Reference   == [table : Name, type : Type]
Declaration == [key : Type \cup {NoKey}, refs : SUBSET Reference]

Data  == [Row -> Content \cup {NoRow, Dead}]
Empty == [r \in Row |-> NoRow]

ASSUME ConstantAssumption ==
  /\ IsFiniteSet(Name)
  /\ NULL \notin Path /\ NoKey \notin Type
  /\ Shape \subseteq Declaration
  /\ NoRow # Dead /\ {NoRow, Dead} \cap Content = {}
  /\ MaxLog \in Nat

VARIABLES
  catalog, \* sequence of tables, catalog->tables
  active,  \* txn->active
  log,     \* txn->log, one entry per statement
  pc,      \* "idle", or "commit" inside interp_exec_commit
  at,      \* its i: the entry it looks at
  file,    \* [Path -> Data]: what a .load of the file would read
  begun    \* ghost: the tables' rows and the files when the open transaction began

txn  == <<active, log>>
vars == <<catalog, txn, pc, at, file, begun>>

Table == [name : Name, path : Path \cup {NULL}, shape : Declaration, data : Data]
Entry == [idx : Nat \ {0}, name : Name, rows : SUBSET Row, old : Data]

-----------------------------------------------------------------------------
(* Looking up tables and following references.                             *)

Places == 1..Len(catalog)

\* catalog_find
Known(n) == \E i \in Places : catalog[i].name = n
Find(n)  == CHOOSE i \in Places : catalog[i].name = n

Targets(i) == {r.table : r \in catalog[i].shape.refs}

\* Fault: only the references of the referenced table itself are looked at.
FkChainDirect(i, target, depth) == target \in Targets(i)

\* Fault: the depth that is left is tested one call early.
FkChainShort(i, target, depth) ==
  LET Chain[d \in 0..depth] ==
        [j \in Places |->
           \/ d <= 1
           \/ target \in Targets(j)
           \/ \E n \in Targets(j) : Known(n) /\ Chain[d - 1][Find(n)]]
  IN  Chain[depth][i]

\* fk_chain_reaches: does a chain of references lead from table i to target?
\* A chain longer than depth is taken for one that does.
FkChainReaches(i, target, depth) ==
  LET Chain[d \in 0..depth] ==
        [j \in Places |->
           \/ d = 0
           \/ target \in Targets(j)
           \/ \E n \in Targets(j) : Known(n) /\ Chain[d - 1][Find(n)]]
  IN  Chain[depth][i]

\* A reference to a known table's primary key, of the same type.
RefsKey(r) == Known(r.table) /\ catalog[Find(r.table)].shape.key = r.type

\* Fault: CREATE TABLE does not compare the types.
CreatableAnyType(n, s) ==
  \A r \in s.refs : r.table # n /\ Known(r.table)

\* CREATE TABLE's conditions on the foreign keys of a new table n.
Creatable(n, s) == \A r \in s.refs : r.table # n /\ RefsKey(r)

\* .load's: the table may have a name others reference already.
Loadable(n, s) ==
  \A r \in s.refs :
    /\ r.table # n /\ Known(r.table)
    /\ ~FkChainReaches(Find(r.table), n, Len(catalog))
    /\ RefsKey(r)

-----------------------------------------------------------------------------
NotBegun == [data |-> <<>>, file |-> [p \in Path |-> Empty]]

Init ==
  /\ catalog = <<>>
  /\ active = FALSE /\ log = <<>> /\ pc = "idle" /\ at = 1
  /\ file \in [Path -> Data]
  /\ begun = NotBegun

Rows(c) == [i \in DOMAIN c |-> c[i].data]

\* Fault: a name that is taken is not looked up.
PutAppends(n, path, s, d) ==
  catalog' = Append(catalog, [name |-> n, path |-> path, shape |-> s, data |-> d])

\* catalog_put, and the assignment to the slot it returns.
Put(n, path, s, d) ==
  LET t == [name |-> n, path |-> path, shape |-> s, data |-> d]
  IN  catalog' = IF Known(n) THEN [catalog EXCEPT ![Find(n)] = t]
                 ELSE Append(catalog, t)

\* Fault: .load replaces tables inside a transaction too.
LoadInTxn(n, p, s) ==
  /\ pc = "idle"
  /\ \A i \in Places : catalog[i].path = p => catalog[i].name = n
  /\ Loadable(n, s)
  /\ Put(n, p, s, file[p])
  /\ UNCHANGED <<txn, pc, at, file, begun>>

\* .load n "p" {s}.  A table whose name is taken is replaced, unless a
\* transaction is open; if then the path cannot be copied, it has none.  That
\* no file is loaded under two names is a restriction of this model.
Load(n, p, s) ==
  /\ pc = "idle"
  /\ ~(active /\ Known(n))
  /\ \A i \in Places : catalog[i].path = p => catalog[i].name = n
  /\ Loadable(n, s)
  /\ \/ Put(n, p, s, file[p])
     \/ "path" \in Faults /\ Known(n) /\ Put(n, NULL, s, file[p])
  /\ UNCHANGED <<txn, pc, at, file, begun>>

\* CREATE TABLE, in a transaction or not: it is not logged.
Create(n, s) ==
  /\ pc = "idle"
  /\ ~Known(n)
  /\ Creatable(n, s)
  /\ Put(n, NULL, s, Empty)
  /\ UNCHANGED <<txn, pc, at, file, begun>>

Mark == begun' = [data |-> Rows(catalog), file |-> file]

End  == active' = FALSE /\ log' = <<>> /\ begun' = NotBegun

Begin ==
  /\ pc = "idle" /\ ~active
  /\ active' = TRUE
  /\ Mark
  /\ UNCHANGED <<catalog, log, pc, at, file>>

\* An INSERT gives a row that was not there its contents, an UPDATE live rows
\* others, perhaps the same, a DELETE kills live rows.
Statement(old, rows, new) ==
  /\ \/ \E r \in Row : rows = {r} /\ old[r] = NoRow /\ new[r] \in Content
     \/ /\ rows # {} /\ \A r \in rows : old[r] \in Content
        /\ (\A r \in rows : new[r] \in Content) \/ (\A r \in rows : new[r] = Dead)
  /\ \A r \in Row \ rows : new[r] = old[r]

\* One that succeeds on rows of a table, and logs them.  Without a transaction
\* it opens one and goes on to commit it.  (One that fails has taken its own
\* changes back: see Engine.)
Change(i, rows, d) ==
  /\ pc = "idle" /\ Len(log) < MaxLog
  /\ Statement(catalog[i].data, rows, d)
  /\ catalog' = [catalog EXCEPT ![i].data = d]
  /\ log' = Append(log, [idx |-> i, name |-> catalog[i].name, rows |-> rows,
                         old |-> catalog[i].data])
  /\ active' = TRUE
  /\ IF active THEN UNCHANGED <<pc, at, begun>>
     ELSE pc' = "commit" /\ at' = 1 /\ Mark
  /\ UNCHANGED file

Commit ==
  /\ pc = "idle" /\ active
  /\ pc' = "commit" /\ at' = 1
  /\ UNCHANGED <<catalog, txn, file, begun>>

\* ~table_seen_before
First == \A j \in 1..(at - 1) : log[j].idx # log[at].idx

Names(e, i, r) == e.idx = i /\ r \in e.rows

\* Fault: only the rows of the entry itself, not of those after it.
LoggedHere(i) == log[at].rows

\* The rows of table i that the log names.
Logged(i) == {r \in Row : \E k \in DOMAIN log : Names(log[k], i, r)}

\* A file with a frame appended for each of some rows, as memory d has them.
WithFrames(f, rows, d) == [r \in Row |-> IF r \in rows THEN d[r] ELSE f[r]]

\* commit_wal_for_table for the entry's table, if it is its first: the path is
\* looked up by the table's name, the rows by its place.
CommitTable ==
  /\ pc = "commit" /\ at <= Len(log)
  /\ LET i == log[at].idx
         path == catalog[Find(log[at].name)].path
     IN  file' = IF First /\ path # NULL
                 THEN [file EXCEPT ![path] = WithFrames(file[path], Logged(i), catalog[i].data)]
                 ELSE file
  /\ at' = at + 1
  /\ UNCHANGED <<catalog, txn, pc, begun>>

\* It fails and takes the frames it wrote back (see Durable): COMMIT fails, the
\* transaction stays open and the tables before it durable.
CommitFails ==
  /\ pc = "commit" /\ at <= Len(log) /\ "append" \in Faults
  /\ First
  /\ pc' = "idle" /\ at' = 1
  /\ UNCHANGED <<catalog, txn, file, begun>>

CommitDone ==
  /\ pc = "commit" /\ at > Len(log)
  /\ pc' = "idle" /\ at' = 1
  /\ End
  /\ UNCHANGED <<catalog, file>>

\* What row r of table i was before the first entry that names it.
Before(i, r) ==
  LET es == {k \in DOMAIN log : Names(log[k], i, r)}
  IN  IF es = {} THEN catalog[i].data[r]
      ELSE log[CHOOSE k \in es : \A j \in es : k <= j].old[r]

\* What undoing every entry, the last one first, leaves: the same, but a row
\* that was inserted stays behind as a dead one.
Undone(i) ==
  [r \in Row |-> IF Before(i, r) = NoRow /\ catalog[i].data[r] # NoRow THEN Dead
                 ELSE Before(i, r)]

Rollback ==
  /\ pc = "idle" /\ active
  /\ catalog' = [i \in Places |-> [catalog[i] EXCEPT !.data = Undone(i)]]
  /\ End
  /\ UNCHANGED <<pc, at, file>>

\* .checkpoint: the file becomes what is in memory.
Checkpoint(i) ==
  /\ pc = "idle" /\ ~active
  /\ catalog[i].path # NULL
  /\ file' = [file EXCEPT ![catalog[i].path] = catalog[i].data]
  /\ UNCHANGED <<catalog, txn, pc, at, begun>>

\* The process dies or quits, with a transaction open or not.
Crash ==
  /\ "crash" \in Faults /\ catalog # <<>>
  /\ catalog' = <<>> /\ pc' = "idle" /\ at' = 1
  /\ End
  /\ UNCHANGED file

Next ==
  \/ \E n \in Name, s \in Shape : Create(n, s) \/ \E p \in Path : Load(n, p, s)
  \/ \E i \in Places : Checkpoint(i) \/ \E rows \in SUBSET Row, d \in Data : Change(i, rows, d)
  \/ Begin \/ Commit \/ CommitTable \/ CommitFails \/ CommitDone
  \/ Rollback \/ Crash

Spec == Init /\ [][Next]_vars

-----------------------------------------------------------------------------
(* Properties.                                                             *)

\* Every variable has its type, names are unique, and a log entry's place and
\* name are the same table's.
TypeOK ==
  /\ catalog \in Seq(Table) /\ log \in Seq(Entry) /\ active \in BOOLEAN
  /\ \A i, j \in Places : catalog[i].name = catalog[j].name => i = j
  /\ \A k \in DOMAIN log : /\ log[k].idx \in Places
                            /\ catalog[log[k].idx].name = log[k].name
  /\ pc \in {"idle", "commit"} /\ at \in 1..(Len(log) + 1)
  /\ pc = "idle" => at = 1
  /\ file \in [Path -> Data]
  /\ begun.data \in Seq(Data) /\ begun.file \in [Path -> Data]
  /\ pc = "commit" => active
  /\ ~active => log = <<>>

\* Whatever is created, loaded and loaded again, tables never reference each
\* other in a circle: they can be ranked so that references go down.
Acyclic ==
  \E rank \in [Name -> 0..Cardinality(Name)] :
    \A i \in Places : \A n \in Targets(i) : rank[n] < rank[catalog[i].name]

\* Does a chain of references lead from table i to target?  It does when every
\* set of tables closed under references, holding i's own, holds target.
Leads(i, target) ==
  \A S \in SUBSET Name :
    /\ Targets(i) \subseteq S
    /\ \A j \in Places : catalog[j].name \in S => Targets(j) \subseteq S
    => target \in S

\* The depth fk_chain_reaches is called with is enough: it says yes exactly
\* when there is a chain, and .load refuses no table for want of depth.
ChainIsExact ==
  \A i \in Places, n \in Name : FkChainReaches(i, n, Len(catalog)) <=> Leads(i, n)

\* Every foreign key names a known table's primary key of its own type
\* (interp.c, before check_pk_not_referenced).
RefsAreKeys == \A i \in Places : \A r \in catalog[i].shape.refs : RefsKey(r)

\* Only a .load over a table that another references can end that: no CREATE
\* TABLE, and no .load of a name nobody references.
OnlyReloadBreaksRefs ==
  [][RefsAreKeys /\ ~RefsAreKeys' =>
       \E i, j \in Places : /\ Len(catalog') = Len(catalog) /\ catalog'[i] # catalog[i]
                            /\ catalog[i].name \in Targets(j)]_vars

\* What a SELECT sees.
Live(d) == [r \in {q \in Row : d[q] \in Content} |-> d[r]]

\* ROLLBACK gives every table that was there at BEGIN the rows it had, however
\* the catalog grew in between and whatever a failed COMMIT wrote.
RollbackRestoresTables ==
  [][Rollback => \A i \in DOMAIN begun.data : Live(catalog'[i].data) = Live(begun.data[i])]_vars

\* The log names row r of the table that has path p.
LogsRow(p, r) == \E k \in DOMAIN log : catalog[log[k].idx].path = p /\ r \in log[k].rows

\* When COMMIT succeeds every row that the transaction changed, of any table
\* that has a path, is in its file as it is in memory, and every other row of
\* every file as it was at BEGIN: also when an earlier COMMIT of it failed half
\* way and statements followed.  (More does not hold: rows that such a COMMIT
\* made durable and a ROLLBACK took back in memory stay in the file.)
CommitWritesAll ==
  [][CommitDone =>
       /\ \A k \in DOMAIN log :
            LET t == catalog[log[k].idx]
            IN  t.path # NULL => \A r \in log[k].rows : file'[t.path][r] = t.data[r]
       /\ \A p \in Path, r \in Row : ~LogsRow(p, r) => file'[p][r] = begun.file[p][r]]_vars

\* A transaction that is rolled back has changed no file: "nothing durable until
\* commit" (dev_plan.md).
NothingDurableUntilCommit == [][Rollback => file = begun.file]_vars

=============================================================================
