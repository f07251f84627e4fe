# db4: a TLA+ verification project

db4 is an embeddable SQL engine in C over CSV files (`c/src`, `c/include`).
A table is loaded from a CSV file into memory, changed there under an undo
log, made durable by a write-ahead log (WAL) beside the file, and folded back
into the CSV by `.checkpoint`. Several processes may use the same file; an
advisory `flock` orders what they do to it.

The modules here model that behaviour from the source and check it with TLC on
small instances. With TLAPS they prove, for every value of the constants, that
the undo log is exact, that keys and references stay valid, that the row-by-row
engine implements an atomic database, what the catalog's rollback, commit and
reference checks promise, that the key index answers as a scan would, that
the files keep what was committed, and that an embedding program's handles
run their statement once, serve what it saw and balance the memory budget. Paths
below are relative to the repository.

## 1. Inventory

| Component | State | Operations | Hard behaviour | What makes it correct |
|---|---|---|---|---|
| Transaction manager (`txn.c`) | `active`, the undo log | begin, log insert/update/delete, rollback, rollback to a mark | the order of undo; a failure in the middle of a statement; a COMMIT that fails and leaves the transaction open | undo is exact; a failed statement changes nothing; ROLLBACK reaches BEGIN |
| Statement execution (`interp.c`) | the statement in progress | INSERT, UPDATE, DELETE row by row, checks, COMMIT, autocommit, SELECT, CREATE TABLE | rows are checked one at a time while the statement is half applied | keys unique, references valid, statements atomic |
| Storage engine (`table.c`, `cursor.c`) | columns, NULL bits, dead bits, TEXT heap, failure latch | append, set, delete, undelete, compact | row numbers change at compaction; allocation failures are latched | content is independent of tombstones and numbers |
| Key index (`index.c`) | slots, capacity, count, `degraded` | insert, grow, find, clear | slots are never removed; growth may fail | agrees with a scan |
| WAL (`wal.c`) | WAL file, `.gen` sidecar | append, replay, checkpoint | crashes between steps, torn frames, failed appends, several writers | what was acknowledged is read again, nothing else is |
| Lock (`lock.c`) | `flock` on `<path>.lock` | shared, exclusive, release | failing paths; death of the holder | mutual exclusion; always released |
| Loader and dumper (`load.c`, `schema.c`) | a table under construction | load, replay, install; dump | reads three files while others write; holds several arenas at once | a load is a snapshot; installed whole or not at all; what was dumped is what is loaded, but for what a CSV file cannot hold |
| CSV reader, field types (`csv.c`, `field.c`) | place in the file, line | next row; validate and infer a type | malformed rows, quotes and line ends; types that differ between two loads | the rows are the lines; a bad line costs only itself |
| Catalog (`catalog.c`) | name to table and path | find, put | `.load` over a referenced table | references stay valid |
| Query execution (`interp.c`, `value.c`, `result.c`) | rows collected | WHERE, JOIN, GROUP BY, ORDER BY, point lookup | three-valued logic; index and scan must agree | the rows the definition of the query names |
| Public API (`db4.c`) | statement handle, borrowed rows | prepare, bind, step, reset, finalize | any order of calls | a statement runs once; a SELECT serves what it saw; no call uses what an earlier one freed |
| Arena and budget (`arena.c`, `budget.c`) | blocks, charge, latch | alloc, grow, charge, refund | failure half way | charges balance |
| Lexer, parser (`lexer.c`, `parser.c`) | place in the text, latched error, parameters counted | text to tokens, to AST; AST to text (`.parse`) | precedence; tokens that are prefixes of others; memory that runs out half way | exactly the grammar, whole, and read back as printed |
| REPL (`main.c`) | none of its own | dot commands | `.checkpoint` and `.load` against an open transaction; `.read` nesting | refusals |

How they interact: the REPL and other clients call the API; a prepared
statement runs through `interp_exec`, which calls the storage engine through
cursors, logs undo entries in `txn.c`, and at COMMIT takes the exclusive lock
and appends to the WAL. `.checkpoint` (REPL) takes the same lock, compacts the
table in memory and rewrites the file. `.load` takes the shared lock, reads
CSV, WAL and generation, and installs the table in the catalog. Within one
process everything is synchronous: concurrency is between processes, through
the files and the lock. Failure is everywhere: allocation, I/O, death.

`PROJECT.json` lists every component with its status, and the hazards with the
lines at which they bite.

## 2. Modules

    AtomicDb <-- refined by -- EngineAtomic --EXTENDS--> Engine
                                    ^
                                MCEngine
    Durable <-- MCDurable           PkIndex <-- MCPkIndex
    MCCatalog --EXTENDS--> Catalog
    MCQuery --EXTENDS--> Query --EXTENDS--> Expr
    MCParser --EXTENDS--> Parser --EXTENDS--> Lexer
    MCReload --EXTENDS--> Reload --EXTENDS--> Csv
    MCClient --EXTENDS--> Client --EXTENDS--> Memory

and, with the theorems, each module extending what stands to its left:

    Engine <-- EngineProofs <-- EngineIntegrity
    EngineAtomic, EngineProofs, NatFacts <-- EngineAtomicProofs
    Durable, NatFacts <-- DurableProofs
    PkIndex, NatFacts <-- PkIndexProofs
    Catalog, NatFacts <-- CatalogProofs
    Client, NatFacts <-- ClientProofs

**Engine** is one connection in memory. `n`, `live`, `cell` are a table's
`n_rows`, the complement of its dead bits, and its columns (value and NULL bit
together); `failed` is the allocation latch; `active` and `log` are the `Txn`;
`pc` and `stmt` say which row of which statement is being executed. An INSERT,
UPDATE or DELETE is `Start`, one action per row (and per assignment of an
UPDATE), then `StmtOk`, or `Fail`, `UndoOne` for each entry back to the mark,
and `EndFailed`. Autocommit is the field `stmt.auto`. WHERE clauses and right
hand sides are nondeterministic. `hist`, `begun` and `seen` are ghosts: the
memory when each entry was logged, at BEGIN, and when the running call began.
No guard reads them.

**AtomicDb** is what a user is promised: tables are sequences of rows, one
statement is one step on one table, ROLLBACK returns to BEGIN. **EngineAtomic**
gives the refinement mapping: the view at the start of the running call, the
live rows in cursor order, and "open" only for an explicit transaction.

**Durable** is one table's files and several processes: `base` (CSV), `wal`
(a header, then one item per frame), `gen`, the lock, and each process's copy
of the table. A value names the statement that wrote it, so that "lost" and
"phantom" can be said. Commit is lock, generation check, one step per frame,
acknowledgement; checkpoint is lock and compaction, dump, removal of the WAL,
generation; load is lock, base, WAL, installation. A crash may come between
any two of them and may tear a frame. What statements do inside a transaction
is Engine's subject and is one step here. `epoch`, `numbering`, `used`,
`acked`, `unsure`, `halves` are ghosts; `epoch` is read only by the bound on
the number of checkpoints.

**PkIndex** is the open-addressing hash index, the table operations that feed
it, and its three readers. `grow` and `table_compact` call `raw_insert` in a
loop; each iteration is a step, so that the model needs no recursion. A client
may call any table operation in any order, which includes what statements,
undo and replay do. Engine checks constraints by scanning the table;
`ConstraintsAgree` is why that is the same thing as asking the index.

**Catalog** is what spans tables. `catalog` is `catalog->tables`: a sequence,
because the undo log names a table by its index in it; a table is its name, its
path, what was declared of its key and its references, and what each of its rows
holds: contents, nothing yet, or a tombstone. `log` has one entry per statement,
with the rows it named, `pc` and `at` say where `interp_exec_commit`'s loop over
the log is, `file` is what a `.load` of each file would read, row by row. A
statement is one step (Engine has its rows), appending one table's frames another
(Durable has theirs, and the numbers of rows); COMMIT is the loop over them, which
writes of each table the rows the log names and no others, with a failure possible
at each. `.load` and CREATE TABLE check references as the
code does, `fk_chain_reaches` with its depth, and `begun` is a ghost: rows and
files when the open transaction began.

**Expr** is a clause: `ExprType` is `infer_expr_type`, `EvalTri` and `EvalValue`
are `eval_tri` and `eval_value`, over expressions that are records. A literal and
a bound parameter are both a value, for the code treats them alike after binding.

**Query** is SELECT. The constant `Families` gives databases and statements; `q`
is the `SelectStmt`, `cur` the array of row tuples that `exec_select_plain` and
`exec_select_grouped` rebuild at each stage, one action per stage (per join, and
per group). An index is a list of entries, stale and colliding ones among them:
that it has an entry for every live key is PkIndex's `LookupMissesNothing`.
What `qsort` does with equal rows is left open, and so is what an INT SUM comes to
whose `+=` leaves the width: the code computes it signed, where the operators of an
expression wrap. `Asked`, `Before` and `RowFor` define the result without regard
to how it is found, sums being those of arithmetic.

**Lexer** and **Parser** are functions, named as in the code. A lexer is its
position and line (`skip_trivia`, `lexer_next`); a parser is a record of tokens,
place, latched error, parameters numbered so far, and the number of allocations
its arena still grants, so that "the arena ran out here" is an input
(`Rooms`). Each function returns the parser it leaves and what it read; a loop of the
code (`parse_term` and its like) is a recursion whose arguments are the operator
and the left operand so far. The state
is a text that grows by a character, or a statement that grows by a token while
more tokens could still mend it. What they are held against says nothing of
left to right: `Lexeme` is what a token is, `Trees` is every derivation of an
expression in the grammar of eight levels. Two things a reader of the code may
not expect, and `OnInOrder` and `Unfaithful` name them: of repeated ON DELETE
clauses the last wins without complaint, and `.parse` prints `?1`, a string with
a quote in it, and doubles by `%g`, none of which is read back.

**Csv** is the reader of a file's body, the field types, and the writer, again
as functions; a reader is a position and the line it is on. **Reload** puts
them into a session: a file is typed symbol by symbol, loaded under types that
are declared or inferred, changed by autocommitted statements that append frames
to the WAL, checkpointed, and loaded again. Durable has the same files with
opaque rows, several processes and crashes; here a cell has a text and a type,
the WAL's header has the types, and a frame remembers what types it was encoded
under, so that a wrong decoding can be seen. A statement stores what its kinds
allow, which is more than a file can give back. `unread` is a ghost: the rows a
checkpoint wrote and the reader will refuse.

**Memory** is the budget and the arenas as functions on one record; **Client** is
a program that embeds db4: two statement handles prepared, bound, stepped, reset
and finalized in any order, over one table with a TEXT column whose heap the
results point into, with transactions, `.load` in its stages and `.checkpoint`.
Each allocation goes through `arena_alloc`, and `malloc` may refuse it. A
statement is one step (Engine has its rows). A table that is new may be loaded
while a transaction is open, which then leaves the loaded rows to a ROLLBACK
(`load.c:179`). `snap` and `moved` in a handle are
ghosts: what a SELECT saw, and whether the heap it points into was given back.

Operators marked "Fault" in the modules are plausible bugs, used by nothing
in the specification: replacing the definition that follows by one of them
makes a property fail (`PROJECT.json`, "mutants").

## 3. Runs

| Run | Instance | Question | Result |
|---|---|---|---|
| EngineUndo | 1 keyed table, 2 rows, 2 columns, 2 values, log of 3, 2 assignments; log and commit may fail | Is the undo log exact, are failed statements and ROLLBACK clean? | holds |
| EngineAtomic | parent and child, 2 rows each, 2 values, log of 2, 1 assignment | Is the engine an atomic database? Are keys and references intact after every call? | holds |
| EngineLatch | as EngineUndo, log of 2; allocations fail | Does a table that ran out of memory keep its cells? | holds |
| DurableSolo | 1 process, 2 rows in the file, 3 at most, 2 new values, 1 checkpoint; appends fail, crashes | Is what was acknowledged, and nothing else, read again? | holds |
| DurableShared | 2 processes that both write, 4 rows, 2 checkpoints, one row per transaction; appends and dumps fail, crashes, torn frames | Do the locks exclude, is a load a snapshot, does a frame ever go out under old row numbers, are locks given back? | holds |
| Catalog | 3 tables that may reference each other, without rows, and 2 tables of 2 rows each without references; 2 files, keys of 2 types, log of 2; a table's commit and the copy of a path may fail, crashes | Are references acyclic, and the search for a cycle exact? What can break a reference? Does ROLLBACK restore all tables? Does COMMIT write every row of its log, and no other? | holds |
| PkIndex | 2 rows, 3 keys (2 with one hash, the third with the same home until the index grows), 4 slots growing to 8; growth may fail | Does the index answer as a scan would? | holds |
| Query | t(id, v, b), u(m, x), w(x) of 2 or 3 rows, one of them dead in t; 125 conditions, 7 joins, 3-table chains, ORDER BY, LIMIT, GROUP BY; INT of 3 bits | Does a SELECT return what it means, however it finds it? Are types and NULLs sound? | holds |
| Parser | texts of 5 characters out of 9; statements of 10 to 19 tokens out of the words their clauses are made of | Are tokens the longest and at their lines? Is an expression accepted exactly when the grammar has it, and as its one tree? Is a statement whole, its parameters in order, and printed so that it is read back? | holds |
| Reload | 2 columns, fields of 3 symbols; files of 6 symbols out of `x 1 , " LF CR`, loaded when they have at most 2, and two longer ones; 2 rows, 2 frames, values with a quote, a CR, a zero byte, over the limit, infinite; types declared | Are the rows the lines, a malformed one costing only itself? Does a load show what the session saw, and what exactly is lost? | holds |
| ReloadDrift | one row, first column declared TEXT or inferred INT, 3 rows, 2 frames | Is a frame only ever decoded under the types it was encoded with? | violated |
| Client | 2 handles, 8 kinds of statement, 2 rows, 4 texts in the heap, files of one and two rows; a budget of 34 units with blocks of 2; malloc may fail | Do charges balance on every path? Does a result keep what it saw? Does a statement run once? | holds |

A violated run checks one statement of the documentation, a comment or a test
against the code; `PROJECT.json`, "findings", quotes it and says what the
code does instead.

### Configurations beside the runs

These ask the same modules further questions, and TLC finds each property
violated; the runs above are the ones repeated on every change. Where a
configuration has two rows, the property of the second is reached with `-continue`.

| Configuration | Property violated | What the code does | What it is held against |
|---|---|---|---|
| EngineAuto | `AutocommitCloses` | when the commit of an autocommitted statement fails, `interp_exec` (`interp.c:1824`) returns with the implicit transaction open and the change in memory; the next bare statement runs inside it | "in an implicit BEGIN/COMMIT (or ROLLBACK on failure) when no explicit transaction is already open" (`interp.c:1773-1775`) |
| EngineHeap | `FailedStatementChangesNothing` | `table_append_row` succeeds, the table's failure was latched by an earlier statement, and `interp_exec_insert` (`interp.c:1372`) goes to `fail` without deleting the appended row, which no undo entry knows of: a live all-NULL row stays | "any failure below can cleanly unwind back to exactly that point via txn_rollback_to" (`interp.c:1347-1350`) |
| DurableTwoWriters | `NothingLost` | two processes that loaded the same file append frames for new rows under the same number (`interp.c:1710`); replay keeps the later | "the exclusive lock around each commit's WAL append must serialize them so neither frame is lost/corrupted" (`tests/run_tests.py:600-601`); the test passes when one process ends before the other loads |
| DurableFold | `NothingLost` | a checkpoint dumps its own process's memory and removes the WAL (`wal.c:406`): commits of another process since it loaded are gone | "commits and checkpoints are now safe to interleave across processes sharing the same CSV+WAL files (no torn reads, no lost WAL frames)" (`docs/dev_plan.md:523-525`) |
| DurableCkCrash | `NothingLost` | a crash between the rename of the dump and the removal of the WAL (`wal.c:407`) leaves a renumbered base beside frames with the old numbers | "a crash mid-write can't corrupt a table" (`src/README.md:53-54`) |
| DurableCkFails | `NothingLost` | `table_compact` renumbers memory before `dump_csv` fails (`wal.c:402`); base, WAL and generation are unchanged, so the next commit passes the check under the new numbers | "nothing holds a row number across the renumbering this performs" (`wal.c:393-394`) |
| DurableTorn | `NothingLost` | neither load nor append cuts off a frame torn by a crash (`wal.c:310`): a commit appended behind it is never replayed | "every frame appended after the tear would be silently lost" (`wal.c:185`), said of what its truncation prevents |
| DurableTorn | `CommitIsAtomic` | the frames of one transaction carry no commit record (`wal.c:165`): a crash leaves a prefix, which a reload applies | "fully committed or fully not" (`docs/persistence_progression.md:293-295`) |
| DurableBlank | `StaysLoadable` | a checkpoint of a table without live rows writes a header only, which `load_csv` refuses (`load.c:358`) | the checkpoint as "the periodic maintenance step" that folds the WAL into the base (`wal.h:26-28`) |
| PkIndexRound | `LookupMissesNothing` | `compare_values` compares INTs as doubles, `value_hash` hashes 64 bits: of the keys 9007199254740992 and 9007199254740993 the lookup selects one where a scan selects both (`interp.c:533`) | "never a missed real match" (`interp.c:495-496`) |
| PkIndexRound | `LookupSelectsOnce` | `UPDATE t SET id = 1 WHERE id = 1` gives the row a second slot under one hash, and `WHERE id = 1` returns it twice (`interp.c:723`) | a stale entry "can only produce a spurious candidate that gets filtered out downstream" (`interp.c:493-496`) |
| QueryNaN | `GroupsAreThoseAsked` | `0/0` stores a NaN, which `compare_values` (`value.c:42`) finds equal to every number: `GROUP BY` puts the rows of other keys into its group, and `WHERE d = 2.5` selects it | "NaN never compares equal to itself" (`value.c:105`), and `qsort`'s need of an order |
| DurableBlank | `NoBlankRow` | a rolled-back or rejected INSERT keeps its row number and is never logged; the next committed INSERT has a higher one, and `wal_replay` appends blank live rows to reach it (`wal.c:326`): a reload shows an all-NULL row nobody wrote | "a reload sees every committed change", "nothing durable until commit" (`docs/dev_plan.md:501-502`, `403`) |
| CatalogPartly | `NothingDurableUntilCommit` | `interp_exec_commit` appends to one table's WAL after another and returns at the first that fails (`interp.c:1765`); a ROLLBACK undoes memory only, and a later COMMIT of other rows writes nothing that would put the file right | "nothing durable until commit" (`docs/dev_plan.md:403`, and `interp.c:1728`) |
| QueryLate | `ColumnsResolve` | every ON clause is type-checked against all tables of the statement (`interp.c:657`), that of join j evaluated with the first j + 1: `SELECT * FROM t JOIN u ON t.id = w.y JOIN w ON w.y = u.x` reads a source it never set | "infer_expr_type already proved this resolves" (`interp.c:280-281`) |
| ParserMemory | `WholeOrRefused` | the copy of a name is not looked at (`parser.c:70`, `83`, `454`, `516`, `666`, `742`, `801`) and the arena's failure is not the parser's: a statement for whose last name there is no memory is accepted with a NULL name | "Fails latched, like Arena's ArenaFailure" (`parser.h:12`) |
| ReloadInferred | `LoadGivesBack` | a column is TEXT by its first row; that row is updated to '1' and checkpointed; the next load infers INT, and every other value of the column becomes NULL | "WAL replay" and `.checkpoint` as what makes changes last (`src/README.md:51-54`); the warning counts the values |
| CatalogReload | `RefsAreKeys` | `.load` over a table that another references checks nothing of the other (`load.c:447`): its foreign key names a column that is no key, or of another type, and deletions from the new table are no longer checked | "FKs can only ever target a primary key column (load.c's loader and CREATE TABLE both require that)" (`interp.c:408-410`) |

Seventeen behaviours were also seen on the built program: the reference to a table
joined later (it ends the process), the group of the NaN, the blank row, the
transaction left open, the commit lost to another process's checkpoint, the
failed checkpoint, the commit behind a torn frame, the row selected twice, the
file that cannot be loaded, the two INT keys, the first table of a COMMIT that
failed and was rolled back, the reference to what is no key, the frame decoded
under other types, the column lost to inference, the statement without its name,
the infinity read as NULL, and the frame that named the wrong row behind a text over
the limit.

### Bounds, and why they are enough

* Engine: two rows per table and three log entries hold a statement of two rows
  after an earlier statement of one, so that undo to a mark has something to
  undo and something to leave; two assignments allow the same column twice
  (`SET v = 1, v = 2`) and a key update with another column (EngineUndo).
  EngineAtomic needs room for two tables instead: two rows and two key values
  in each let keys collide, a referenced row be deleted after its reference and
  a reference be inserted before a rollback; its statements assign one column
  and no operation fails, since EngineUndo has the faults.
* Durable: two rows exist at first, so that deleting the first makes a
  compaction renumber the second; two new values make a commit of two rows or
  two commits in sequence; three rows let one INSERT be rejected or rolled back.
  One replacement of the base file suffices for the solo run, two in the run
  about stale numbers. The number of rows a transaction touches is bounded by
  `MaxTxn` (1 or 2).
  DurableShared has only INSERT: a row deleted behind a torn frame comes back
  and may be deleted again without end; DurableSolo has all statements. Two
  writers of one row each, two checkpoints and a row number that both use are
  what a stale frame takes.
* PkIndex: `INITIAL_CAP` is 4 instead of 8 (below 4 the load factor
  `cap / 4 * 3` is zero); the index may grow once, and the bound stops writes
  when it would grow again. Stale slots are what matters, and they accumulate
  with two rows as with more.
* Catalog: a circle that only a search along references finds needs three
  tables, and rows have no part in it: the constraint `RowsOrReferences` keeps TLC to
  states with references and no rows, or two tables with rows and no references.
  A declaration has one reference at most. Files are loaded under one name at a
  time. Two files let a COMMIT of two tables fail between them; two entries
  in the log are two tables, one table twice, one row twice; two rows let one be
  logged and the other not, so that a rolled-back row of a half-written COMMIT
  is in its file when the other is committed. Rows differ in being there, live or
  dead; what they hold is Engine's.
* Query: three rows are enough to have two equal keys and one other in every
  order, and a row left out by a LIMIT; two source rows make a join with and
  without a match. Conditions are one comparison, or two under AND, OR and NOT.
  With 3 bits and the ids 3, 1 and -2 a SUM stays within the width, leaves it, and
  leaves it in some orders only.
* Parser: five characters hold a literal with a doubled quote, a comment and its
  line end, a number with a dot behind a word. Ten tokens hold three binary
  operators and a pair of parentheses, enough for two neighbouring levels in
  either order and a third around them; the longest bounds are those of the
  statements whose clauses need most words. A statement grows only while more
  tokens could mend it, since the rest is refused whatever follows.
* Reload: six symbols are two quoted fields with a line end in one of them, or a
  malformed line between two good ones; two are a row to load and change, and the two
  longer files have a malformed row, an empty text, a quote and a number that is
  printed otherwise. `MaxField` is 3 instead of `CSV_MAX_FIELD_LEN`, so that fields
  and values pass it.
  Two frames are two changes of one row, or of two.
* Client: a block of 2 units makes the first text and the first row fit and the
  second need a new block; 34 units let a load replace a table beside an open
  statement as long as table and file are small, but never beside two, so that
  the budget fails at each stage of a load and every stage is also passed; two
  handles let one write between the steps of the other. The first capacities are 1 instead of 8 rows and 64 bytes.
* Symmetry is used for table names, files and rows (Catalog), for keys with the same hash, for the new values, for the handles (Client), and for two
  identical processes; never in a run with a liveness property.
* Deadlock is checked in the Engine, PkIndex and Client runs. Texts, statements and files
  are bounded, so the Parser and Reload runs end. The Catalog runs need not
  check it, since a client may do nothing; the Query runs end with the statement. The Durable runs stop when
  values run out, a process may stop using the table, and the check is off.

### Fairness

Only `LocksReleased` needs it. `FairSpec` assumes weak fairness of the steps of
a process that holds a lock: between taking and releasing it the code runs
straight through calls that do not wait for another process (`wal_append`,
`wal_checkpoint`, `load_csv`), so it goes on or dies, and death releases the
lock. Nothing is assumed of a process that has not got the lock: `flock` makes
no promise about order.

## 4. Proofs

Every theorem below holds for every value of the constants that satisfies the
named assumptions of its module (`SchemaAssumption`, `BoundAssumption`,
`ConstantAssumption`, `FreeAssumption`, `MemoryAssumption`, `ClientAssumption`,
`HandleAssumption`), and under every fault unless it says
otherwise. Each inductive invariant was also checked by TLC on an instance
of the runs.

| Module | Theorem | Says | Under |
|---|---|---|---|
| EngineProofs | `TypeCorrect` | `[]TypeOK` | |
| | `UndoLogIsExact` | `[]UndoExact` | no table allocation fails |
| | `FailedStatementRestores`, `RollbackIsExact` | `FailedStatementChangesNothing`, `RollbackRestores` | the same |
| | `LatchedTablesKeep` | `LatchedTableKeepsCells` | |
| EngineIntegrity | `KeysAndReferencesHold` | `[]Integrity` | no table allocation fails |
| EngineAtomicProofs | `ClosedEngineIsAtomic` | `Spec` with `AutocommitCloses` implements AtomicDb | the same |
| | `EngineIsAtomic` | `Spec` implements AtomicDb | and no commit fails |
| CatalogProofs | `CatalogTypeCorrect` | `[]TypeOK` | |
| | `RollbackRestoresCatalog` | `RollbackRestoresTables` | |
| | `CommitIsWhole` | `CommitWritesAll` | |
| | `OnlyReloadBreaks` | `OnlyReloadBreaksRefs` | |
| | `NeverACircle`, `ChainsAreFound` | `[]Acyclic`, `[]ChainIsExact` | |
| DurableProofs | `DurableTypeCorrect` | `[]TypeOK` | |
| | `WritersAlone` | `[]MutualExclusion` | |
| | `LoadsAreSnapshots` | `[]LoadIsSnapshot` | |
| | `FramesAreCurrent` | `[]NoStaleFrame` | `CheckpointsKeepNumbers` |
| | `CommitsAreKept`, `NothingElseIsThere` | `[]NothingLost`, `[]NothingExtra` | one writer, `Survived` |
| PkIndexProofs | `IndexTypeCorrect`, `AlwaysRoom` | `[]TypeOK`, `[]RoomToInsert` | |
| | `InsertEnds` | `raw_insert` finds a free slot | |
| | `IndexAgrees` | `[]ConstraintsAgree` | |
| | `LookupComplete` | `[]LookupMissesNothing` | `EqualHashAlike` |
| ClientProofs | `BudgetIsAccounted` | `[]Accounted` | |
| | `ResultsStay` | `[]ServesWhatItSaw` | |
| | `StatementsRunOnce` | `RunsOnce` | |

The assumptions are needed, and a configuration shows the property fail without
each. *No table allocation fails* (`"heap" \notin Faults`): EngineHeap, where a
failed INSERT leaves a blank row that is in no log entry. *`AutocommitCloses`*,
or no failing commit: EngineAuto, where the implicit transaction stays open and
two statements become one. *`CheckpointsKeepNumbers`*: a checkpoint that stops
after it renumbered the rows in memory (DurableCkFails) or in the base file
(DurableCkCrash); a checkpoint that fails before the base file is written is
allowed where there are no tombstones to drop. *One writer*:
DurableTwoWriters and DurableFold, where a second writer's rows get the numbers of
the first's, or its checkpoint folds without them. *`Survived`*: crashes outside
a checkpoint and failed appends, with whole frames: DurableTorn, DurableCkCrash,
DurableCkFails are the others. *`EqualHashAlike`*: PkIndexRound. The runs
DurableSolo and PkIndex satisfy theirs, and DurableShared satisfies
`CheckpointsKeepNumbers`.

### The engine

`UndoInv` strengthens `UndoExact` by what its steps need.
`Exact` says entry i, undone in the memory that entry i+1 was pushed in, gives
the memory it was pushed in; `Anchored` ties the first entry to `begun` and the
running statement's mark to `seen`; `AllSound` says an entry names a row that is
allocated and, for DELETE and UPDATE, what it needs to be undone; `Calm` that no
table is latched. Three facts do the work. Undoing is monotone in `Agrees`: two
memories that agree still agree after the same entry is undone
(`UndoneMonotone`). The present memory may drift, by appending tombstones nothing
logged, as long as it agrees with what was (`Drift`). Pushing an entry together
with its change keeps `Exact` (`Pushed`), and undoing the last one keeps it too
(`Popped`). Every action is one of those three, or starts or ends a call, where
the log is empty or as long as the mark. Row numbers only grow between
compactions, and a compaction happens only with an empty log, because
`.checkpoint` is refused inside a transaction: mutant `CompactInTxn` shows what
happens otherwise.

*What a latched table keeps* cannot come from `UndoInv`, whose memories part from
the real one as soon as a row is appended and not logged. `KeepInv` looks at the
log alone: `CellsLogged` says that a cell of a row the statement found is as it
found it, or an entry of the statement names it and the first such entry has the
old value; that a row it did not find is blank, or its INSERT is logged.
`LatchedAsFound` says that until the statement fails a latched table is as it was,
but for the row being assigned. `Reach` (rows in use and rows in the log are
allocated) makes the next appended row a new one.

*Integrity.* The checks look at one row, while rows of the same statement may
still be wrong, so `Integrity` is not inductive. `ValidInv` says that the memory is
well formed between rows as well (`pc = "row"`), and that while one row is being
assigned all others are right but for what they have to do with it
(`Halfway`): no other two rows have one key, and a reference may point at the
row only if the UPDATE does not assign its key (`StandsWithout`). When the row's own checks
pass, the whole memory is well formed again; when they fail, the undo log leads
back to `seen`, which was.

*Refinement.* Every step is a step of AtomicDb or a stutter. `RefineInv` says what
the running statement has done to the memory it found: other tables are
untouched, an INSERT added rows behind the others, a DELETE took rows, an UPDATE left
the rows in place (`Doing`; `Done` when it is over). What a SELECT sees of a
table is a recursive function of the cursor's position (`Met`), and the lemmas
about it go by induction on the position.

### The catalog

* `RollbackRestoresCatalog`. `UndoInv` says that every row of every table of BEGIN
  was, before the log, what it was at BEGIN. Before the log it was what the first
  entry that names it found, or, if none does, what it is (`BeforeFirst`,
  `BeforeNone`): a logged change alters neither (`ChangeKeepsBefore`), a new table
  has a place behind the others, and `.load` replaces none while a transaction is
  open, which mutant `LoadInTxn` drops. A row that was inserted stays behind dead,
  which a SELECT does not see.
* `CommitIsWhole`. Of the tables of the entries before `at`, every row that any
  entry names is in its file (`Written`: the code collects the rows of a table at
  its first entry, from all that follow, which mutant `LoggedHere` drops); a row that
  no entry names is in every file as at BEGIN (`Untouched`, also over COMMITs
  that failed half way, for what they wrote is still in the log); and no two
  tables have one file (`OnePath`): else a later entry would write over an
  earlier one. That file and memory are equal after a COMMIT is not so and not
  claimed: rows that a half-written COMMIT wrote and a ROLLBACK took back in
  memory stay in the file until a statement names them again or a checkpoint.
* `OnlyReloadBreaks`. A reference goes on naming a key while its table keeps
  place, name and shape (`RefStays`), and every step but a `.load` over a
  referenced table leaves them.
* `NeverACircle`. Of every nonempty set of tables one references none of the
  set (`Sinks`), which a circle's tables would contradict; a declaration is
  accepted when its references lead away from the new table, to a set no
  reference leaves (`PutSinks`). `ChainsAreFound`: by `Sinks` the tables can be
  ranked so that references go down (`Ranked`, by induction on the number of
  tables); a chain is no longer than the rank of its start, so the search's
  depth is enough, and the tables it answers no for are ones that no reference
  leaves (`Clear`).

### The files

* `TypeInv` of DurableProofs has `MutualExclusion` in it, for what a process may do
  depends on the lock it holds. `Snapshot`: while a process reads, it holds
  the lock, so the files are those its copy was made from. For
  `FramesAreCurrent`, `Numbered` says that the generation a process remembers is the
  epoch of its row numbers, and that outside a checkpoint the generation
  in the file is the number of base files written.
* `Kept` relates the writer's memory to what the next reader
  would get: they differ only in rows nobody sees, dead for the one, blank or
  missing for the other (`Covers`); an open transaction changed the rows
  it logged and no others (`Drafted`); and in the middle of a commit the files
  hold the first rows of the transaction as they are in memory and the others
  as before (`Half`), so that a failed append, which truncates the WAL to where it was,
  and a crash both leave what was promised (`Promised`).

### The key index

`IInv` says that every slot between the home of an entry and the entry is filled
(`Chain`), that the count is that of the filled slots, also while `grow` has
copied some of them (`Counted`), and that every row with a key has its
entry in the index, in the part of the old index not copied yet, or is waiting to
be entered (`Indexed`, as long as the index is not `degraded`). From the count
and the load factor there is a free slot, so `raw_insert`'s loop ends; from
`Chain` a lookup that stops at a free slot has passed the entry.

### The embedding program

`IInv` of ClientProofs has four parts, for any number of handles, any texts,
files and sizes, and a malloc and a budget that may refuse at every call.

* `MemInv`. `Books` says that what is charged is what the arenas hold, and the file
  while it is loaded, and is within the limit; every operation of Memory keeps it,
  for one arena changes and with it the sum by the same amount
  (`ChargedChange`). `Holders` are the arenas that may hold anything: the open
  handles', the table's, and those a load has made by then. The charge for the
  file is checked nowhere; `read_file`'s question, which asks for more than that, is
  what makes it fit (`ChargeFile`). When the rows are read the schema's arena is
  empty unless one of the table's failed, which `LoadRows` relies on, as it ends
  only the others.
* `RowsInv`. Every row points into the heap, and so do the rows a ROLLBACK leaves,
  which are as many as the table has (`SavedInv`).
* `HandleInv`. What an open handle shows is what its SELECT saw (`Shows`), as long as
  the heap is there. Every statement only adds to the heap (`Kept`), so that
  `Shows` survives whatever other handles do (`KeptStmt`). `Left` is what each
  statement leaves, failing ones included; `UpdateIs` and `LoadedIs` find it by
  induction on the rows.
* `CompactedContents` says that a compaction, which copies the texts of the live
  rows to a new heap, leaves what a SELECT sees. So does the one that has no
  memory for the heap and only drops tombstones (`DenseContents`). That is why
  `RunsOnce` holds across a checkpoint.

The proof found a step the model had wrong: a new table loaded inside a
transaction left the rows of the transaction's beginning to its ROLLBACK, fewer
than the table had (`SavedInv`); the model now does what `.load` does there.

### Induction

The prover has no induction over an operator, so NatFacts states it over a set: a
set of numbers that holds 0 and with every number the next one is `Nat`. Loops of
the code are recursive functions (in `FkChainReaches`, `Compacted`, `Met`,
PkIndex's list of the rows a compaction keeps, and Client's `LiveRows`, `UpdateRows`,
`LoadRows` and Memory's `next_block_capacity`), and `Rounds` and `RoundsTo` give the function of
a loop's states. The sum over the arenas is a fold over a finite set: `SumsUp`
shows that it obeys its recursion, by induction on the set (`SubsetInduction`).

Only model-checked: Query, Parser and Reload, which compute by recursive operators (`Expr`,
`Lexer`, `Parser` and `Csv`), which the prover does not take; and `LocksReleased`,
which, being a liveness property, is out of the prover's reach. All other properties
of the passing runs are theorems.

## 5. What is abstracted or left out

* Engine: the layout of columns and of the TEXT heap (a cell is a value; the
  undo log's `StringRef`s stay valid because the heap only grows inside a
  transaction); wording of errors; `CREATE TABLE`. A table referencing itself
  is excluded by `SchemaAssumption`. `interp_exec_commit`'s files are one step
  here and Durable's subject.
* Durable: one table, loaded under one name; a schema that stays as it is, so
  that the WAL's fingerprint matches; a load gets the lock it asks for (the code
  reads without it, with a warning, when the lock file cannot be opened). CSV
  text is a sequence of rows. A crash loses memory, not synced files; what was
  written and not yet synced survives it (a process dies, the machine does not),
  except for the torn item. Constraint checks are not repeated at load.
* Catalog: cells, foreign key values (Engine has the checks) and the numbers of rows
  (Durable); `.dump`;
  one file under two names; changes of a file by other processes (Durable).
* PkIndex: hashes are given by a constant; NaN keys are not modelled.
* Query: projection and the names of result columns; out of memory. A DOUBLE is
  an integer, an infinity or NaN, a quotient rounded down; `compare_values`'
  rounding of INTs past 2^53 is PkIndex's subject. Of an INT SUM that leaves the
  width the code's result is undefined: any INT may come out, and where the order of
  the rows decides whether it leaves, only the type is asked for. A statement reads a database
  that does not change, since SELECT runs to its end in one call.
* Parser: the wording and, but for the lexer's, the lines of errors; letters of
  either case; identifiers too long to be names; numbers are tokens.
* Csv, Reload: signs, exponents, numbers out of range, and `false` (a BOOL is
  `true` or NULL); the header and a BOM; out of memory (Client has it). Primary
  keys and references, which Catalog has: a key that is read as NULL makes the code refuse the
  whole file. A row in the base file loses what `ReadBack` lists (an infinity or NaN
  and an empty TEXT become NULL, a TEXT ends at its zero byte), and
  `LoadGivesBack` says so; rows in the WAL lose nothing. It says nothing of one
  load: when a checkpoint wrote a TEXT over the reader's limit, whose row is
  dropped, and frames were appended after it. They name rows by numbers the load does
  not give, and a committed UPDATE or DELETE lands on another row. A frame decoded under other types is
  one value, "garbage".
* Client: alignment; the key index and its memory, which is malloc'd and not
  charged; WHERE clauses; the undo log's memory (Engine has its failures); CREATE
  TABLE. `.load` is given one file, whose rows are always good, or fails.
  The change count and the error message, which no property speaks of.
* Not modelled: see `PROJECT.json`, "components".

## 6. Plan

Done, in this order: Engine and its refinement; Durable; PkIndex; Catalog; Expr
and Query; Lexer and Parser; Csv and Reload; Memory and Client; the proofs about
Engine, Catalog, Durable, PkIndex and Client.

Next, by importance:

1. `.dump` over the base file of a loaded table, and one file under two names
   (Durable has one name per file); `.read` nesting.
2. A commit record in Durable's frames, as an alternative to check against
   `CommitIsAtomic`; foreign key values in Catalog's rows, for a `.load` that drops what
   others reference.
3. The recursive operators of Expr and Query as recursive functions, so that
   `GroupsAreThoseAsked` and its like could be proved about as well as checked.
