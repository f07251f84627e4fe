--------------------------- MODULE CatalogProofs ---------------------------
(***************************************************************************)
(* Theorems about Catalog, for any number of tables, files and changes:    *)
(* its type invariant; that ROLLBACK restores every table, for which the   *)
(* invariant says that the first log entry of a row holds what it was at   *)
(* BEGIN; that only a .load over a referenced table can leave a foreign    *)
(* key that names no key; that a COMMIT that succeeds has written every    *)
(* row its log names and no other; that references never form a circle,    *)
(* since of every set of tables one references none of the set; and that   *)
(* fk_chain_reaches is exact, since along a chain a rank goes down.        *)
(***************************************************************************)
EXTENDS Catalog, NatFacts, FiniteSetTheorems

LEMMA Typing ==
  ASSUME TypeOK
  PROVE  /\ Len(catalog) \in Nat /\ Len(log) \in Nat
         /\ DOMAIN catalog = Places /\ DOMAIN log = 1..Len(log)
         /\ \A i \in Places : catalog[i] \in Table
         /\ \A k \in DOMAIN log : log[k] \in Entry
BY DEF TypeOK, Places

LEMMA FindKnown ==
  ASSUME NEW n, Known(n)
  PROVE  Find(n) \in Places /\ catalog[Find(n)].name = n
BY DEF Known, Find

\* With unique names Find inverts name.
LEMMA FindPlace ==
  ASSUME TypeOK, NEW i \in Places
  PROVE  Known(catalog[i].name) /\ Find(catalog[i].name) = i
BY FindKnown DEF TypeOK, Known

LEMMA RowsType ==
  ASSUME TypeOK
  PROVE  /\ Rows(catalog) \in Seq(Data) /\ Len(Rows(catalog)) = Len(catalog)
         /\ DOMAIN Rows(catalog) = Places
         /\ \A i \in Places : Rows(catalog)[i] = catalog[i].data
<1>1. Rows(catalog) = [i \in 1..Len(catalog) |-> catalog[i].data]
  BY Typing DEF Rows, Places
<1>2. \A i \in 1..Len(catalog) : catalog[i].data \in Data
  BY Typing DEF Table, Places
<1>. QED
  BY <1>1, <1>2, Typing DEF Places

LEMMA EmptyType == Empty \in Data
BY DEF Empty, Data

LEMMA NotBegunType ==
  NotBegun.data \in Seq(Data) /\ NotBegun.file \in [Path -> Data]
BY EmptyType DEF NotBegun

LEMMA FramesType ==
  ASSUME NEW f \in Data, NEW d \in Data, NEW rows
  PROVE  /\ WithFrames(f, rows, d) \in Data
         /\ \A r \in Row : WithFrames(f, rows, d)[r] = IF r \in rows THEN d[r] ELSE f[r]
BY DEF WithFrames, Data

\* The first entry of a row is the one Before chooses, here and after a step.
LEMMA FirstChosen ==
  ASSUME NEW l \in Seq(Entry), NEW i, NEW r, NEW m \in DOMAIN l, Names(l[m], i, r),
         \A k \in DOMAIN l : Names(l[k], i, r) => m <= k
  PROVE  LET es == {k \in DOMAIN l : Names(l[k], i, r)}
         IN  es # {} /\ (CHOOSE k \in es : \A j \in es : k <= j) = m
<1>. DEFINE es == {k \in DOMAIN l : Names(l[k], i, r)}
<1>1. m \in es /\ es # {} /\ es \subseteq Nat
  OBVIOUS
<1>2. \A j \in es : m <= j
  OBVIOUS
<1>. HIDE DEF es
<1>3. \A k \in es : (\A j \in es : k <= j) => k = m
  BY <1>1, <1>2
<1>4. (CHOOSE k \in es : \A j \in es : k <= j) = m
  BY <1>1, <1>2, <1>3
<1>. QED
  BY <1>1, <1>4 DEF es

LEMMA BeforeFirst ==
  ASSUME TypeOK, NEW i, NEW r, NEW m \in DOMAIN log, Names(log[m], i, r),
         \A k \in DOMAIN log : Names(log[k], i, r) => m <= k
  PROVE  Before(i, r) = log[m].old[r]
BY FirstChosen DEF Before, TypeOK

LEMMA BeforeFirstNext ==
  ASSUME TypeOK', NEW i, NEW r, NEW m \in DOMAIN log', Names(log'[m], i, r),
         \A k \in DOMAIN log' : Names(log'[k], i, r) => m <= k
  PROVE  Before(i, r)' = log'[m].old[r]
<1>1. log' \in Seq(Entry)
  BY DEF TypeOK
<1>. QED
  BY <1>1, FirstChosen DEF Before

LEMMA BeforeNone ==
  ASSUME NEW i, NEW r, \A k \in DOMAIN log : ~Names(log[k], i, r)
  PROVE  Before(i, r) = catalog[i].data[r]
BY DEF Before

LEMMA BeforeNoneNext ==
  ASSUME NEW i, NEW r, \A k \in DOMAIN log' : ~Names(log'[k], i, r)
  PROVE  Before(i, r)' = catalog'[i].data[r]
BY DEF Before

LEMMA BeforeSome ==
  ASSUME TypeOK, NEW i, NEW r, NEW l \in DOMAIN log, Names(log[l], i, r)
  PROVE  \E m \in DOMAIN log : /\ Names(log[m], i, r)
                               /\ \A k \in DOMAIN log : Names(log[k], i, r) => m <= k
<1>. DEFINE es == {k \in DOMAIN log : Names(log[k], i, r)}
<1>1. es \subseteq Nat /\ es # {}
  BY Typing
<1>. QED
  BY <1>1, LeastNat

LEMMA UndoneType ==
  ASSUME TypeOK, NEW i \in Places
  PROVE  Undone(i) \in Data
<1>1. ASSUME NEW r \in Row
      PROVE  Before(i, r) \in Content \cup {NoRow, Dead}
  <2>1. CASE \A k \in DOMAIN log : ~Names(log[k], i, r)
    <3>1. catalog[i].data \in Data
      BY Typing DEF Table
    <3>. QED
      BY <2>1, <3>1, BeforeNone DEF Data
  <2>2. CASE \E k \in DOMAIN log : Names(log[k], i, r)
    <3>1. PICK m \in DOMAIN log : Before(i, r) = log[m].old[r]
      BY <2>2, BeforeSome, BeforeFirst
    <3>2. log[m].old \in Data
      BY Typing DEF Entry
    <3>. QED
      BY <3>1, <3>2 DEF Data
  <2>. QED
    BY <2>1, <2>2
<1>. QED
  BY <1>1 DEF Undone, Data

-----------------------------------------------------------------------------
(* Type correctness.                                                       *)

\* What catalog_put leaves, when the name is known and when it is new.
LEMMA PutType ==
  ASSUME TypeOK, NEW n \in Name, NEW p \in Path \cup {NULL}, NEW s \in Shape,
         NEW d \in Data, Put(n, p, s, d)
  PROVE  /\ catalog' \in Seq(Table)
         /\ \A i, j \in Places' : catalog'[i].name = catalog'[j].name => i = j
         /\ Places \subseteq Places'
         /\ ~Known(n) => /\ Len(catalog') = Len(catalog) + 1
                         /\ \A i \in Places : catalog'[i] = catalog[i]
                         /\ catalog'[Len(catalog) + 1].name = n
                         /\ catalog'[Len(catalog) + 1].shape = s
                         /\ catalog'[Len(catalog) + 1].path = p
         /\ Known(n) => /\ Len(catalog') = Len(catalog)
                        /\ \A i \in Places \ {Find(n)} : catalog'[i] = catalog[i]
                        /\ catalog'[Find(n)].name = n
                        /\ catalog'[Find(n)].shape = s
                        /\ catalog'[Find(n)].path = p
<1>. DEFINE t == [name |-> n, path |-> p, shape |-> s, data |-> d]
<1>1. t \in Table
  BY ConstantAssumption DEF Table
<1>2. CASE Known(n)
  <2>1. Find(n) \in 1..Len(catalog) /\ catalog[Find(n)].name = n
    BY <1>2, FindKnown DEF Places
  <2>2. catalog' = [catalog EXCEPT ![Find(n)] = t]
    BY <1>2 DEF Put
  <2>. HIDE DEF t
  <2>3. /\ catalog' \in Seq(Table) /\ Len(catalog') = Len(catalog)
        /\ \A i \in 1..Len(catalog) : catalog'[i] = IF i = Find(n) THEN t ELSE catalog[i]
    BY <2>1, <2>2, <1>1 DEF TypeOK
  <2>4. t.name = n /\ t.shape = s /\ t.path = p
    BY DEF t
  <2>5. Places = 1..Len(catalog) /\ Places' = Places
    BY <2>3 DEF Places
  <2>6. \A i, j \in Places : catalog[i].name = catalog[j].name => i = j
    BY DEF TypeOK
  <2>7. \A i \in Places : catalog'[i].name = catalog[i].name
    BY <2>1, <2>3, <2>4, <2>5
  <2>. QED
    BY <1>2, <2>1, <2>3, <2>4, <2>5, <2>6, <2>7
<1>3. CASE ~Known(n)
  <2>2. catalog' = Append(catalog, t)
    BY <1>3 DEF Put
  <2>. HIDE DEF t
  <2>3. /\ catalog' \in Seq(Table) /\ Len(catalog') = Len(catalog) + 1
        /\ \A i \in 1..Len(catalog) : catalog'[i] = catalog[i]
        /\ catalog'[Len(catalog) + 1] = t
    BY <2>2, <1>1 DEF TypeOK
  <2>4. t.name = n /\ t.shape = s /\ t.path = p
    BY DEF t
  <2>5. \A i \in 1..Len(catalog) : catalog[i].name # n
    BY <1>3 DEF Known, Places
  <2>6. Places = 1..Len(catalog) /\ Places' = 1..(Len(catalog) + 1)
    BY <2>3 DEF Places
  <2>7. Len(catalog) \in Nat
    BY Typing
  <2>8. \A i, j \in 1..Len(catalog) : catalog[i].name = catalog[j].name => i = j
    BY DEF TypeOK, Places
  <2>9. \A i, j \in Places' : catalog'[i].name = catalog'[j].name => i = j
    <3>. TAKE i, j \in Places'
    <3>1. i \in 1..Len(catalog) \/ i = Len(catalog) + 1
      BY <2>6, <2>7
    <3>2. j \in 1..Len(catalog) \/ j = Len(catalog) + 1
      BY <2>6, <2>7
    <3>. QED
      BY <3>1, <3>2, <2>3, <2>4, <2>5, <2>8
  <2>. QED
    BY <1>3, <2>3, <2>4, <2>6, <2>7, <2>9
<1>. QED
  BY <1>2, <1>3

\* A step that changes rows only, of any of the tables.
LEMMA DataType ==
  ASSUME TypeOK, NEW f \in [Places -> Data],
         catalog' = [i \in Places |-> [catalog[i] EXCEPT !.data = f[i]]]
  PROVE  /\ catalog' \in Seq(Table) /\ Places' = Places /\ Len(catalog') = Len(catalog)
         /\ \A i \in Places : /\ catalog'[i].name = catalog[i].name
                              /\ catalog'[i].shape = catalog[i].shape
                              /\ catalog'[i].path = catalog[i].path
                              /\ catalog'[i].data = f[i]
<1>1. \A i \in Places : /\ [catalog[i] EXCEPT !.data = f[i]] \in Table
                        /\ [catalog[i] EXCEPT !.data = f[i]].name = catalog[i].name
                        /\ [catalog[i] EXCEPT !.data = f[i]].shape = catalog[i].shape
                        /\ [catalog[i] EXCEPT !.data = f[i]].path = catalog[i].path
                        /\ [catalog[i] EXCEPT !.data = f[i]].data = f[i]
  BY Typing DEF Table
<1>2. Len(catalog) \in Nat /\ Places = 1..Len(catalog)
  BY Typing DEF Places
<1>3. catalog' \in [1..Len(catalog) -> Table]
  BY <1>1, <1>2
<1>4. catalog' \in Seq(Table) /\ Len(catalog') = Len(catalog)
  BY <1>2, <1>3
<1>. QED
  BY <1>1, <1>2, <1>4 DEF Places

LEMMA ChangeData ==
  ASSUME TypeOK, NEW i \in Places, NEW rows, NEW d \in Data, Change(i, rows, d)
  PROVE  \E f \in [Places -> Data] :
           /\ catalog' = [j \in Places |-> [catalog[j] EXCEPT !.data = f[j]]]
           /\ f[i] = d /\ \A j \in Places \ {i} : f[j] = catalog[j].data
<1>. DEFINE f == [j \in Places |-> IF j = i THEN d ELSE catalog[j].data]
<1>1. f \in [Places -> Data]
  BY Typing DEF Table
<1>2. \A j \in Places : catalog[j] = [catalog[j] EXCEPT !.data = catalog[j].data]
  BY Typing DEF Table
<1>3. catalog' = [catalog EXCEPT ![i] = [catalog[i] EXCEPT !.data = d]]
  BY DEF Change
<1>4. catalog = [j \in Places |-> catalog[j]]
  BY Typing DEF TypeOK, Places
<1>5. catalog' = [j \in Places |-> [catalog[j] EXCEPT !.data = f[j]]]
  BY <1>2, <1>3, <1>4
<1>. QED
  BY <1>1, <1>5

LEMMA RollbackData ==
  ASSUME TypeOK, Rollback
  PROVE  \E f \in [Places -> Data] :
           /\ catalog' = [j \in Places |-> [catalog[j] EXCEPT !.data = f[j]]]
           /\ \A j \in Places : f[j] = Undone(j)
<1>. DEFINE f == [j \in Places |-> Undone(j)]
<1>1. f \in [Places -> Data]
  BY UndoneType
<1>2. \A j \in Places : f[j] = Undone(j)
  OBVIOUS
<1>3. catalog' = [j \in Places |-> [catalog[j] EXCEPT !.data = Undone(j)]]
  BY DEF Rollback
<1>4. catalog' = [j \in Places |-> [catalog[j] EXCEPT !.data = f[j]]]
  BY <1>2, <1>3, Zenon
<1>. HIDE DEF f
<1>. QED
  BY <1>1, <1>2, <1>4

\* TypeOK in parts: the catalog, the log against it, the rest.
CatalogOK ==
  catalog \in Seq(Table) /\ \A i, j \in Places : catalog[i].name = catalog[j].name => i = j

LogOK ==
  /\ log \in Seq(Entry)
  /\ \A k \in DOMAIN log : /\ log[k].idx \in Places
                            /\ catalog[log[k].idx].name = log[k].name

RestOK ==
  /\ active \in BOOLEAN
  /\ pc \in {"idle", "commit"} /\ at \in 1..(Len(log) + 1)
  /\ pc = "idle" => at = 1
  /\ file \in [Path -> Data]
  /\ begun.data \in Seq(Data) /\ begun.file \in [Path -> Data]
  /\ pc = "commit" => active
  /\ ~active => log = <<>>

LEMMA Parts ==
  /\ TypeOK <=> CatalogOK /\ LogOK /\ RestOK
  /\ TypeOK' <=> CatalogOK' /\ LogOK' /\ RestOK'
BY DEF TypeOK, CatalogOK, LogOK, RestOK

LEMMA SameCatalog ==
  ASSUME CatalogOK, catalog' = catalog
  PROVE  CatalogOK'
BY DEF CatalogOK, Places

LEMMA SameLog ==
  ASSUME LogOK, catalog' = catalog, log' = log
  PROVE  LogOK'
BY DEF LogOK, Places

\* The catalog keeps the names of the places it has, or grows.
LEMMA KeptLog ==
  ASSUME TypeOK, log' = log, Places \subseteq Places',
         \A i \in Places : catalog'[i].name = catalog[i].name
  PROVE  LogOK'
BY DEF TypeOK, LogOK

LEMMA EndType ==
  ASSUME RestOK, End, pc' = "idle", at' = 1, file' = file
  PROVE  LogOK' /\ RestOK'
<1>1. log' = <<>> /\ log' \in Seq(Entry) /\ Len(log') = 0 /\ DOMAIN log' = {}
  BY DEF End
<1>2. LogOK'
  BY <1>1 DEF LogOK
<1>3. begun'.data \in Seq(Data) /\ begun'.file \in [Path -> Data]
  BY NotBegunType DEF End
<1>4. at' \in 1..(Len(log') + 1)
  BY <1>1
<1>5. RestOK'
  BY <1>1, <1>3, <1>4 DEF End, RestOK
<1>. QED
  BY <1>2, <1>5

LEMMA TypeInit ==
  Init => TypeOK
<1>. SUFFICES ASSUME Init PROVE TypeOK
  OBVIOUS
<1>1. catalog \in Seq(Table) /\ Len(catalog) = 0
  BY DEF Init
<1>2. log \in Seq(Entry) /\ Len(log) = 0 /\ DOMAIN log = {}
  BY DEF Init
<1>3. CatalogOK /\ LogOK
  BY <1>1, <1>2 DEF CatalogOK, LogOK, Places
<1>4. begun.data \in Seq(Data) /\ begun.file \in [Path -> Data]
  BY NotBegunType DEF Init
<1>5. at \in 1..(Len(log) + 1)
  BY <1>2 DEF Init
<1>6. RestOK
  BY <1>4, <1>5 DEF Init, RestOK
<1>. QED
  BY <1>3, <1>6, Parts

LEMMA PutTypeOK ==
  ASSUME TypeOK, NEW n \in Name, NEW p \in Path \cup {NULL}, NEW s \in Shape,
         NEW d \in Data, Put(n, p, s, d), UNCHANGED <<txn, pc, at, file, begun>>
  PROVE  TypeOK'
<1>1. CatalogOK'
  BY PutType DEF CatalogOK
<1>2. Places \subseteq Places' /\ \A i \in Places : catalog'[i].name = catalog[i].name
  <2>1. CASE Known(n)
    BY <2>1, PutType, FindKnown
  <2>2. CASE ~Known(n)
    BY <2>2, PutType
  <2>. QED
    BY <2>1, <2>2
<1>3. LogOK'
  BY <1>2, KeptLog DEF txn
<1>4. RestOK'
  BY Parts DEF RestOK, txn
<1>. QED
  BY <1>1, <1>3, <1>4, Parts

LEMMA TypeNext ==
  ASSUME TypeOK, [Next]_vars
  PROVE  TypeOK'
<1>. USE Parts
<1>1. ASSUME NEW n \in Name, NEW s \in Shape, Create(n, s)
      PROVE  TypeOK'
  BY <1>1, PutTypeOK, EmptyType DEF Create
<1>2. ASSUME NEW n \in Name, NEW s \in Shape, NEW p \in Path, Load(n, p, s)
      PROVE  TypeOK'
  <2>1. file[p] \in Data
    BY DEF TypeOK
  <2>2. PICK q \in {p, NULL} : Put(n, q, s, file[p])
    BY <1>2 DEF Load
  <2>3. q \in Path \cup {NULL}
    OBVIOUS
  <2>. QED
    BY <1>2, <2>1, <2>2, <2>3, PutTypeOK DEF Load
<1>3. CASE Begin
  <2>1. RestOK'
    BY <1>3, RowsType DEF RestOK, Begin, Mark
  <2>. QED
    BY <1>3, <2>1, SameCatalog, SameLog DEF Begin
<1>4. ASSUME NEW i \in Places, NEW rows \in SUBSET Row, NEW d \in Data, Change(i, rows, d)
      PROVE  TypeOK'
  <2>1. /\ catalog' \in Seq(Table) /\ Places' = Places
        /\ \A j \in Places : catalog'[j].name = catalog[j].name
    BY <1>4, ChangeData, DataType
  <2>2. CatalogOK'
    BY <2>1 DEF CatalogOK
  <2>. DEFINE e == [idx |-> i, name |-> catalog[i].name, rows |-> rows, old |-> catalog[i].data]
  <2>3. e \in Entry /\ e.idx = i /\ e.name = catalog[i].name
    BY Typing DEF Table, Entry, Places
  <2>4. log' = Append(log, e)
    BY <1>4 DEF Change
  <2>. HIDE DEF e
  <2>5. /\ log' \in Seq(Entry) /\ Len(log') = Len(log) + 1
        /\ DOMAIN log' = 1..(Len(log) + 1)
        /\ log'[Len(log) + 1] = e
        /\ \A k \in 1..Len(log) : log'[k] = log[k]
    BY <2>3, <2>4 DEF TypeOK
  <2>6. ASSUME NEW k \in DOMAIN log'
        PROVE  log'[k].idx \in Places' /\ catalog'[log'[k].idx].name = log'[k].name
    <3>1. k \in DOMAIN log \/ k = Len(log) + 1
      BY <2>5, Typing
    <3>2. CASE k \in DOMAIN log
      BY <3>2, <2>1, <2>5, Typing DEF LogOK
    <3>3. CASE k = Len(log) + 1
      BY <3>3, <2>1, <2>3, <2>5
    <3>. QED
      BY <3>1, <3>2, <3>3
  <2>7. LogOK'
    BY <2>5, <2>6 DEF LogOK
  <2>8. begun'.data \in Seq(Data) /\ begun'.file \in [Path -> Data]
    BY <1>4, RowsType DEF Change, Mark, RestOK
  <2>9. /\ pc' \in {"idle", "commit"} /\ at' \in 1..(Len(log') + 1)
        /\ active' = TRUE /\ file' = file
        /\ pc' = "idle" => at' = 1
    BY <1>4, <2>5, Typing DEF Change, RestOK
  <2>10. RestOK'
    BY <2>8, <2>9 DEF RestOK
  <2>. QED
    BY <2>2, <2>7, <2>10
<1>5. CASE Commit
  <2>1. RestOK'
    BY <1>5, Typing DEF RestOK, Commit, txn
  <2>. QED
    BY <1>5, <2>1, SameCatalog, SameLog DEF Commit, txn
<1>6. CASE CommitTable
  <2>1. at \in DOMAIN log /\ at' \in 1..(Len(log) + 1)
    BY <1>6, Typing DEF CommitTable, RestOK
  <2>. DEFINE i == log[at].idx
  <2>2. i \in Places /\ log[at].name = catalog[i].name
    BY <2>1 DEF LogOK
  <2>3. Find(log[at].name) = i
    BY <2>2, FindPlace
  <2>4. catalog[i].path \in Path \cup {NULL} /\ catalog[i].data \in Data
    BY <2>2, Typing DEF Table
  <2>. DEFINE w == WithFrames(file[catalog[i].path], Logged(i), catalog[i].data)
  <2>5. file' = IF First /\ catalog[i].path # NULL
                THEN [file EXCEPT ![catalog[i].path] = w] ELSE file
    BY <1>6, <2>3 DEF CommitTable
  <2>8. catalog[i].path # NULL => w \in Data
    BY <2>4, FramesType DEF RestOK
  <2>. HIDE DEF i, w
  <2>6. file' \in [Path -> Data]
    BY <2>4, <2>5, <2>8 DEF RestOK
  <2>7. RestOK'
    BY <1>6, <2>1, <2>6 DEF RestOK, CommitTable, txn
  <2>. QED
    BY <1>6, <2>7, SameCatalog, SameLog DEF CommitTable, txn
<1>7. CASE CommitFails
  <2>1. RestOK'
    BY <1>7, Typing DEF RestOK, CommitFails, txn
  <2>. QED
    BY <1>7, <2>1, SameCatalog, SameLog DEF CommitFails, txn
<1>8. CASE CommitDone
  BY <1>8, EndType, SameCatalog DEF CommitDone
<1>9. CASE Rollback
  <2>1. /\ catalog' \in Seq(Table) /\ Places' = Places
        /\ \A j \in Places : catalog'[j].name = catalog[j].name
    BY <1>9, RollbackData, DataType
  <2>2. CatalogOK'
    BY <2>1 DEF CatalogOK
  <2>3. at = 1
    BY <1>9 DEF Rollback, RestOK
  <2>. QED
    BY <1>9, <2>2, <2>3, EndType DEF Rollback
<1>10. ASSUME NEW i \in Places, Checkpoint(i)
       PROVE  TypeOK'
  <2>1. file' \in [Path -> Data]
    BY <1>10, Typing DEF Checkpoint, RestOK, Table
  <2>2. RestOK'
    BY <1>10, <2>1 DEF RestOK, Checkpoint, txn
  <2>. QED
    BY <1>10, <2>2, SameCatalog, SameLog DEF Checkpoint, txn
<1>11. CASE Crash
  <2>1. catalog' \in Seq(Table) /\ Len(catalog') = 0
    BY <1>11 DEF Crash
  <2>2. CatalogOK'
    BY <2>1 DEF CatalogOK, Places
  <2>. QED
    BY <1>11, <2>2, EndType DEF Crash
<1>12. CASE UNCHANGED vars
  <2>1. RestOK'
    BY <1>12 DEF RestOK, vars, txn
  <2>. QED
    BY <1>12, <2>1, SameCatalog, SameLog DEF vars, txn
<1>. QED
  BY <1>1, <1>2, <1>3, <1>4, <1>5, <1>6, <1>7, <1>8, <1>9, <1>10, <1>11, <1>12 DEF Next

\* Every variable keeps its type and names stay unique (catalog_put).
THEOREM CatalogTypeCorrect == Spec => []TypeOK
<1>. QED
  BY TypeInit, TypeNext, PTL DEF Spec

-----------------------------------------------------------------------------
(* ROLLBACK.                                                               *)

\* The rows were before the open transaction's log what they were at BEGIN.
UndoInv ==
  active => /\ Len(begun.data) <= Len(catalog)
            /\ \A i \in DOMAIN begun.data : \A r \in Row : Before(i, r) = begun.data[i][r]

\* That does not change with the rows of a statement, when it logs them...
LEMMA ChangeKeepsBefore ==
  ASSUME TypeOK, TypeOK', NEW c \in Places, NEW rows \in SUBSET Row, NEW d \in Data,
         Change(c, rows, d), NEW i \in Places, NEW r \in Row
  PROVE  Before(i, r)' = Before(i, r)
<1>. DEFINE e == [idx |-> c, name |-> catalog[c].name, rows |-> rows, old |-> catalog[c].data]
            n == Len(log)
<1>1. log' = Append(log, e) /\ e.idx = c /\ e.rows = rows /\ e.old = catalog[c].data
  BY DEF Change
<1>. HIDE DEF e
<1>2. /\ n \in Nat /\ DOMAIN log = 1..n /\ DOMAIN log' = 1..(n + 1)
      /\ log'[n + 1] = e /\ \A k \in 1..n : log'[k] = log[k]
  BY <1>1, Typing DEF TypeOK
<1>. HIDE DEF n
<1>3. CASE \E l \in DOMAIN log : Names(log[l], i, r)
  <2>1. PICK m \in DOMAIN log : /\ Names(log[m], i, r)
                                /\ \A k \in DOMAIN log : Names(log[k], i, r) => m <= k
    BY <1>3, BeforeSome
  <2>2. Before(i, r) = log[m].old[r]
    BY <2>1, BeforeFirst
  <2>3. m \in DOMAIN log' /\ log'[m] = log[m] /\ m <= n + 1
    BY <2>1, <1>2
  <2>4. \A k \in DOMAIN log' : Names(log'[k], i, r) => m <= k
    BY <2>1, <2>3, <1>2
  <2>5. Before(i, r)' = log'[m].old[r]
    BY <2>1, <2>3, <2>4, BeforeFirstNext
  <2>. QED
    BY <2>2, <2>3, <2>5
<1>4. CASE ~ \E l \in DOMAIN log : Names(log[l], i, r)
  <2>1. Before(i, r) = catalog[i].data[r]
    BY <1>4, BeforeNone
  <2>2. CASE Names(e, i, r)
    <3>1. n + 1 \in DOMAIN log' /\ Names(log'[n + 1], i, r)
      BY <1>2, <2>2
    <3>2. \A k \in DOMAIN log' : Names(log'[k], i, r) => n + 1 <= k
      BY <1>2, <1>4
    <3>3. Before(i, r)' = log'[n + 1].old[r]
      BY <3>1, <3>2, BeforeFirstNext
    <3>4. c = i
      BY <1>1, <2>2 DEF Names
    <3>. QED
      BY <1>1, <1>2, <2>1, <3>3, <3>4
  <2>3. CASE ~Names(e, i, r)
    <3>1. \A k \in DOMAIN log' : ~Names(log'[k], i, r)
      BY <1>2, <1>4, <2>3
    <3>2. Before(i, r)' = catalog'[i].data[r]
      BY <3>1, BeforeNoneNext
    <3>3. PICK f \in [Places -> Data] :
            /\ catalog' = [j \in Places |-> [catalog[j] EXCEPT !.data = f[j]]]
            /\ f[c] = d /\ \A j \in Places \ {c} : f[j] = catalog[j].data
      BY ChangeData
    <3>4. catalog'[i].data = f[i]
      BY <3>3, DataType
    <3>5. c = i => d[r] = catalog[i].data[r]
      BY <1>1, <2>3 DEF Names, Change, Statement
    <3>. QED
      BY <2>1, <3>2, <3>3, <3>4, <3>5
  <2>. QED
    BY <2>2, <2>3
<1>. QED
  BY <1>3, <1>4

\* ... nor when they and the log stay as they are.
LEMMA SameBefore ==
  ASSUME NEW i, log' = log, catalog'[i].data = catalog[i].data
  PROVE  \A r : Before(i, r)' = Before(i, r)
BY DEF Before

\* At BEGIN nothing is logged.
LEMMA MarkUndo ==
  ASSUME TypeOK, log = <<>>, Mark
  PROVE  /\ Len(begun'.data) = Len(catalog) /\ DOMAIN begun'.data = Places
         /\ begun'.file = file
         /\ \A i \in Places : \A r \in Row : Before(i, r) = begun'.data[i][r]
<1>1. \A i \in Places : \A r \in Row : Before(i, r) = catalog[i].data[r]
  BY BeforeNone
<1>2. begun'.data = Rows(catalog) /\ begun'.file = file
  BY DEF Mark
<1>. QED
  BY <1>1, <1>2, RowsType

LEMMA UndoInit ==
  Init => UndoInv
BY DEF Init, UndoInv

LEMMA UndoNext ==
  ASSUME TypeOK, TypeOK', UndoInv, [Next]_vars
  PROVE  UndoInv'
<1>0. DOMAIN begun.data = 1..Len(begun.data) /\ Len(begun.data) \in Nat /\ Len(catalog) \in Nat
  BY Typing DEF TypeOK
<1>1. ASSUME log' = log, active' = active, begun' = begun, Places \subseteq Places',
             Len(catalog) <= Len(catalog'),
             active => \A i \in Places : catalog'[i].data = catalog[i].data
      PROVE  UndoInv'
  <2>. SUFFICES ASSUME active
                PROVE  /\ Len(begun.data) <= Len(catalog')
                       /\ \A i \in DOMAIN begun.data : \A r \in Row : Before(i, r)' = begun.data[i][r]
    BY <1>1 DEF UndoInv
  <2>1. Len(begun.data) <= Len(catalog)
    BY DEF UndoInv
  <2>2. Len(catalog') \in Nat
    BY DEF TypeOK
  <2>3. \A i \in DOMAIN begun.data : i \in Places
    BY <1>0, <2>1 DEF Places
  <2>4. \A i \in DOMAIN begun.data : \A r \in Row : Before(i, r)' = Before(i, r)
    BY <1>1, <2>3, SameBefore
  <2>. QED
    BY <1>0, <1>1, <2>1, <2>2, <2>4 DEF UndoInv
<1>2. ASSUME catalog' = catalog, log' = log, active' = active, begun' = begun
      PROVE  UndoInv'
  BY <1>0, <1>1, <1>2 DEF Places
<1>3. ASSUME NEW n \in Name, NEW p \in Path \cup {NULL}, NEW s \in Shape, NEW d \in Data,
             Put(n, p, s, d), ~(active /\ Known(n)), UNCHANGED <<txn, pc, at, file, begun>>
      PROVE  UndoInv'
  <2>1. Places \subseteq Places' /\ Len(catalog) <= Len(catalog')
    <3>1. /\ Places \subseteq Places'
          /\ Len(catalog') = Len(catalog) \/ Len(catalog') = Len(catalog) + 1
      BY <1>3, PutType, Zenon
    <3>. QED
      BY <1>0, <3>1
  <2>2. active => \A i \in Places : catalog'[i] = catalog[i]
    BY <1>3, PutType
  <2>. QED
    BY <1>1, <1>3, <2>1, <2>2 DEF txn
<1>4. ASSUME NEW n \in Name, NEW s \in Shape, Create(n, s)
      PROVE  UndoInv'
  BY <1>3, <1>4, EmptyType DEF Create
<1>5. ASSUME NEW n \in Name, NEW s \in Shape, NEW p \in Path, Load(n, p, s)
      PROVE  UndoInv'
  <2>1. file[p] \in Data
    BY DEF TypeOK
  <2>2. PICK q \in {p, NULL} : Put(n, q, s, file[p])
    BY <1>5 DEF Load
  <2>3. q \in Path \cup {NULL}
    OBVIOUS
  <2>. QED
    BY <1>3, <1>5, <2>1, <2>2, <2>3 DEF Load
<1>6. CASE Begin
  <2>1. log = <<>> /\ Mark /\ catalog' = catalog /\ log' = log
    BY <1>6 DEF Begin, TypeOK
  <2>2. \A i \in Places : \A r \in Row : Before(i, r)' = Before(i, r)
    BY <2>1, SameBefore
  <2>. QED
    BY <1>0, <2>1, <2>2, MarkUndo DEF UndoInv
<1>7. ASSUME NEW c \in Places, NEW rows \in SUBSET Row, NEW d \in Data, Change(c, rows, d)
      PROVE  UndoInv'
  <2>1. \A i \in Places : \A r \in Row : Before(i, r)' = Before(i, r)
    BY <1>7, ChangeKeepsBefore
  <2>2. Len(catalog') = Len(catalog)
    BY <1>7, ChangeData, DataType
  <2>3. CASE active
    <3>1. begun' = begun /\ Len(begun.data) <= Len(catalog)
      BY <1>7, <2>3 DEF Change, UndoInv
    <3>2. \A i \in DOMAIN begun.data : i \in Places
      BY <1>0, <3>1 DEF Places
    <3>. QED
      BY <2>1, <2>2, <2>3, <3>1, <3>2 DEF UndoInv
  <2>4. CASE ~active
    <3>1. log = <<>> /\ Mark
      BY <1>7, <2>4 DEF Change, TypeOK
    <3>. QED
      BY <1>0, <2>1, <2>2, <3>1, MarkUndo DEF UndoInv
  <2>. QED
    BY <2>3, <2>4
<1>8. CASE Commit \/ CommitTable \/ CommitFails
  BY <1>2, <1>8 DEF Commit, CommitTable, CommitFails, txn
<1>9. CASE CommitDone \/ Rollback \/ Crash
  BY <1>9 DEF CommitDone, Rollback, Crash, End, UndoInv
<1>10. ASSUME NEW i \in Places, Checkpoint(i)
       PROVE  UndoInv'
  BY <1>2, <1>10 DEF Checkpoint, txn
<1>11. CASE UNCHANGED vars
  BY <1>2, <1>11 DEF vars, txn
<1>. QED
  BY <1>4, <1>5, <1>6, <1>7, <1>8, <1>9, <1>10, <1>11 DEF Next

\* ROLLBACK restores every table the transaction began with, whatever was
\* loaded or created meanwhile, and however many tables and changes there are.
THEOREM RollbackRestoresCatalog == Spec => RollbackRestoresTables
<1>1. ASSUME TypeOK, UndoInv, Rollback, NEW i \in DOMAIN begun.data
      PROVE  Live(catalog'[i].data) = Live(begun.data[i])
  <2>1. active /\ Len(begun.data) <= Len(catalog)
    BY <1>1 DEF Rollback, UndoInv
  <2>2. i \in Places
    BY <1>1, <2>1, Typing DEF Places, TypeOK
  <2>3. catalog'[i].data = Undone(i)
    BY <1>1, <2>2, RollbackData, DataType
  <2>4. ASSUME NEW r \in Row
        PROVE  \/ Undone(i)[r] = begun.data[i][r]
               \/ Undone(i)[r] = Dead /\ begun.data[i][r] = NoRow
    BY <1>1, <2>1 DEF UndoInv, Undone
  <2>. DEFINE u == Undone(i)
              b == begun.data[i]
  <2>. HIDE DEF u, b
  <2>5. \A r \in Row : /\ u[r] \in Content <=> b[r] \in Content
                       /\ u[r] \in Content => u[r] = b[r]
    BY <2>4, ConstantAssumption DEF u, b
  <2>6. Live(u) = Live(b)
    BY <2>5 DEF Live
  <2>. QED
    BY <2>3, <2>6 DEF u, b
<1>2. ASSUME TypeOK, UndoInv, [Next]_vars
      PROVE  [Rollback => \A i \in DOMAIN begun.data : Live(catalog'[i].data) = Live(begun.data[i])]_vars
  BY <1>1, <1>2
<1>3. TypeOK /\ TypeOK' /\ UndoInv /\ [Next]_vars => UndoInv'
  BY UndoNext
<1>. QED
  BY CatalogTypeCorrect, UndoInit, <1>2, <1>3, PTL DEF Spec, RollbackRestoresTables

-----------------------------------------------------------------------------
(* Foreign keys.                                                           *)

\* A reference goes on naming a key while its table keeps place, name, shape.
LEMMA RefStays ==
  ASSUME TypeOK, TypeOK', NEW r, RefsKey(r), Find(r.table) \in Places',
         catalog'[Find(r.table)].name = catalog[Find(r.table)].name,
         catalog'[Find(r.table)].shape = catalog[Find(r.table)].shape
  PROVE  RefsKey(r)'
<1>. DEFINE k == Find(r.table)
<1>1. k \in Places /\ catalog[k].name = r.table /\ catalog[k].shape.key = r.type
  BY FindKnown DEF RefsKey
<1>. HIDE DEF k
<1>2. k \in Places' /\ catalog'[k].name = r.table /\ catalog'[k].shape.key = r.type
  BY <1>1 DEF k
<1>3. Known(r.table)'
  BY <1>2 DEF Known
<1>4. \E j \in Places' : catalog'[j].name = r.table
  BY <1>2
<1>5. Find(r.table)' \in Places' /\ catalog'[Find(r.table)'].name = r.table
  BY <1>4 DEF Find
<1>6. Find(r.table)' = k
  BY <1>2, <1>5 DEF TypeOK
<1>. QED
  BY <1>2, <1>3, <1>6 DEF RefsKey

\* Steps that keep every table's place, name and shape keep its references.
LEMMA ShapesKept ==
  ASSUME TypeOK, TypeOK', RefsAreKeys, Places' = Places,
         \A i \in Places : /\ catalog'[i].name = catalog[i].name
                           /\ catalog'[i].shape = catalog[i].shape
  PROVE  RefsAreKeys'
<1>. SUFFICES ASSUME NEW i \in Places, NEW r \in catalog[i].shape.refs
              PROVE  RefsKey(r)'
  BY DEF RefsAreKeys
<1>1. RefsKey(r)
  BY DEF RefsAreKeys
<1>2. Find(r.table) \in Places
  BY <1>1, FindKnown DEF RefsKey
<1>. QED
  BY <1>1, <1>2, RefStays

\* A new table whose own references are in order goes behind the others.
LEMMA NewTableKeepsRefs ==
  ASSUME TypeOK, TypeOK', RefsAreKeys, NEW n \in Name, NEW p \in Path \cup {NULL},
         NEW s \in Shape, NEW d \in Data, Put(n, p, s, d), ~Known(n),
         \A r \in s.refs : RefsKey(r)
  PROVE  RefsAreKeys'
<1>1. /\ Len(catalog') = Len(catalog) + 1 /\ Places \subseteq Places'
      /\ \A i \in Places : catalog'[i] = catalog[i]
      /\ catalog'[Len(catalog) + 1].shape = s
  BY PutType
<1>2. ASSUME NEW r, RefsKey(r)
      PROVE  RefsKey(r)'
  <2>1. Find(r.table) \in Places
    BY <1>2, FindKnown DEF RefsKey
  <2>. QED
    BY <1>1, <1>2, <2>1, RefStays
<1>3. ASSUME NEW i \in Places'
      PROVE  i \in Places \/ i = Len(catalog) + 1
  BY <1>1, <1>3, Typing DEF Places
<1>4. ASSUME NEW i \in Places', NEW r \in catalog'[i].shape.refs
      PROVE  RefsKey(r)
  BY <1>1, <1>3, <1>4 DEF RefsAreKeys
<1>. QED
  BY <1>2, <1>4 DEF RefsAreKeys

\* A table nobody references is replaced by one whose references are in order.
LEMMA ReplacedTableKeepsRefs ==
  ASSUME TypeOK, TypeOK', RefsAreKeys, NEW n \in Name, NEW p \in Path \cup {NULL},
         NEW s \in Shape, NEW d \in Data, Put(n, p, s, d), Known(n),
         \A r \in s.refs : r.table # n /\ RefsKey(r),
         \A j \in Places : n \notin Targets(j)
  PROVE  RefsAreKeys'
<1>1. /\ Places' = Places
      /\ \A i \in Places \ {Find(n)} : catalog'[i] = catalog[i]
      /\ catalog'[Find(n)].shape = s
  BY PutType DEF Places
<1>2. ASSUME NEW r, RefsKey(r), r.table # n
      PROVE  RefsKey(r)'
  <2>1. Find(r.table) \in Places /\ catalog[Find(r.table)].name = r.table
    BY <1>2, FindKnown DEF RefsKey
  <2>2. Find(r.table) # Find(n)
    BY <1>2, <2>1, FindKnown
  <2>. QED
    BY <1>1, <1>2, <2>1, <2>2, RefStays
<1>3. ASSUME NEW i \in Places', NEW r \in catalog'[i].shape.refs
      PROVE  RefsKey(r) /\ r.table # n
  <2>1. CASE i = Find(n)
    BY <1>1, <1>3, <2>1
  <2>2. CASE i # Find(n)
    <3>1. i \in Places /\ r \in catalog[i].shape.refs
      BY <1>1, <1>3, <2>2
    <3>2. r.table \in Targets(i)
      BY <3>1 DEF Targets
    <3>. QED
      BY <3>1, <3>2 DEF RefsAreKeys
  <2>. QED
    BY <2>1, <2>2
<1>. QED
  BY <1>2, <1>3 DEF RefsAreKeys

\* Some table that another references is replaced by a different one.
ReplacesReferenced ==
  \E i, j \in Places : /\ Len(catalog') = Len(catalog) /\ catalog'[i] # catalog[i]
                       /\ catalog[i].name \in Targets(j)

LEMMA RefsNext ==
  ASSUME TypeOK, TypeOK', RefsAreKeys, [Next]_vars
  PROVE  RefsAreKeys' \/ ReplacesReferenced
<1>1. ASSUME catalog' = catalog
      PROVE  RefsAreKeys'
  BY <1>1, ShapesKept DEF Places
<1>2. ASSUME NEW n \in Name, NEW s \in Shape, Create(n, s)
      PROVE  RefsAreKeys'
  BY <1>2, NewTableKeepsRefs, EmptyType DEF Create, Creatable
<1>3. ASSUME NEW n \in Name, NEW s \in Shape, NEW p \in Path, Load(n, p, s)
      PROVE  RefsAreKeys' \/ ReplacesReferenced
  <2>1. file[p] \in Data
    BY DEF TypeOK
  <2>2. PICK q \in {p, NULL} : Put(n, q, s, file[p])
    BY <1>3 DEF Load
  <2>3. q \in Path \cup {NULL}
    OBVIOUS
  <2>4. \A r \in s.refs : r.table # n /\ RefsKey(r)
    BY <1>3 DEF Load, Loadable
  <2>5. CASE ~Known(n)
    BY <2>1, <2>2, <2>3, <2>4, <2>5, NewTableKeepsRefs
  <2>6. CASE Known(n)
    <3>1. /\ Len(catalog') = Len(catalog)
          /\ \A i \in Places \ {Find(n)} : catalog'[i] = catalog[i]
      BY <2>1, <2>2, <2>3, <2>6, PutType
    <3>2. Find(n) \in Places /\ catalog[Find(n)].name = n
      BY <2>6, FindKnown
    <3>3. CASE catalog'[Find(n)] = catalog[Find(n)]
      BY <3>1, <3>2, <3>3, ShapesKept DEF Places
    <3>4. CASE catalog'[Find(n)] # catalog[Find(n)]
      <4>1. CASE \E j \in Places : n \in Targets(j)
        BY <3>1, <3>2, <3>4, <4>1 DEF ReplacesReferenced
      <4>2. CASE \A j \in Places : n \notin Targets(j)
        BY <2>1, <2>2, <2>3, <2>4, <2>6, <4>2, ReplacedTableKeepsRefs
      <4>. QED
        BY <4>1, <4>2
    <3>. QED
      BY <3>3, <3>4
  <2>. QED
    BY <2>5, <2>6
<1>4. ASSUME NEW i \in Places, NEW rows \in SUBSET Row, NEW d \in Data, Change(i, rows, d)
      PROVE  RefsAreKeys'
  BY <1>4, ChangeData, DataType, ShapesKept
<1>5. CASE Rollback
  BY <1>5, RollbackData, DataType, ShapesKept
<1>6. CASE Begin \/ Commit \/ CommitTable \/ CommitFails \/ CommitDone
  BY <1>1, <1>6 DEF Begin, Commit, CommitTable, CommitFails, CommitDone
<1>7. ASSUME NEW i \in Places, Checkpoint(i)
      PROVE  RefsAreKeys'
  BY <1>1, <1>7 DEF Checkpoint
<1>8. CASE Crash
  <2>1. Places' = {}
    BY <1>8 DEF Crash, Places
  <2>. QED
    BY <2>1 DEF RefsAreKeys
<1>9. CASE UNCHANGED vars
  BY <1>1, <1>9 DEF vars
<1>. QED
  BY <1>2, <1>3, <1>4, <1>5, <1>6, <1>7, <1>8, <1>9 DEF Next

\* In any catalog, only a .load over a table that another references makes a
\* foreign key name something that is no key of its type.
THEOREM OnlyReloadBreaks == Spec => OnlyReloadBreaksRefs
<1>1. ASSUME TypeOK, TypeOK', [Next]_vars
      PROVE  [RefsAreKeys /\ ~RefsAreKeys' => ReplacesReferenced]_vars
  BY <1>1, RefsNext
<1>. QED
  BY CatalogTypeCorrect, <1>1, PTL DEF Spec, OnlyReloadBreaksRefs, ReplacesReferenced


-----------------------------------------------------------------------------
(* What COMMIT has written.                                                *)

OnePath == \A i, j \in Places : catalog[i].path = catalog[j].path /\ catalog[i].path # NULL => i = j

\* Of the tables of the entries before `at' every row the log names, in any of
\* its entries, is in the file.
Written ==
  pc = "commit" => \A k \in 1..(at - 1) :
    LET t == catalog[log[k].idx]
    IN  t.path # NULL => \A r \in Logged(log[k].idx) : file[t.path][r] = t.data[r]

\* No row that the log does not name has changed in a file since BEGIN.
Untouched ==
  active => \A p \in Path : \A r \in Row : ~LogsRow(p, r) => file[p][r] = begun.file[p][r]

\* .load loads a file into one table, CREATE TABLE none.
LEMMA PutOnePath ==
  ASSUME TypeOK, OnePath, NEW n \in Name, NEW p \in Path \cup {NULL}, NEW s \in Shape,
         NEW d \in Data, Put(n, p, s, d),
         p # NULL => \A i \in Places : catalog[i].path = p => catalog[i].name = n
  PROVE  OnePath'
<1>0. ASSUME Len(catalog') = Len(catalog) + 1
      PROVE  Places' = Places \cup {Len(catalog) + 1}
  BY <1>0, Typing DEF Places
<1>. USE PutType
<1>1. PICK k \in Places' : /\ catalog'[k].path = p
                           /\ \A i \in Places' \ {k} : i \in Places /\ catalog'[i] = catalog[i]
                           /\ \A i \in Places \ {k} : catalog[i].name # n
  <2>1. CASE Known(n)
    <3>1. Find(n) \in Places' /\ Places' = Places
      BY <2>1, FindKnown DEF Places
    <3>2. \A i \in Places : catalog[i].name = n => i = Find(n)
      BY FindPlace
    <3>. QED
      BY <2>1, <3>1, <3>2
  <2>2. CASE ~Known(n)
    <3>1. Len(catalog') = Len(catalog) + 1
      BY <2>2, Zenon
    <3>2. Places' = Places \cup {Len(catalog) + 1}
      BY <1>0, <3>1, Zenon
    <3>. QED
      BY <2>2, <3>2 DEF Known
  <2>. QED
    BY <2>1, <2>2
<1>2. ASSUME NEW i \in Places', i # k, catalog'[i].path = p, p # NULL
      PROVE  FALSE
  BY <1>1, <1>2
<1>. QED
  BY <1>1, <1>2 DEF OnePath

\* Paths stay.
LEMMA SamePaths ==
  ASSUME OnePath, Places' = Places, \A i \in Places : catalog'[i].path = catalog[i].path
  PROVE  OnePath'
BY DEF OnePath

\* The one file that a table's part of a commit writes.
LEMMA CommitFile ==
  ASSUME TypeOK, CommitTable
  PROVE  LET i == log[at].idx
         IN  /\ i \in Places /\ catalog[i].path \in Path \cup {NULL}
             /\ (First /\ catalog[i].path # NULL) =>
                  /\ file'[catalog[i].path] \in Data
                  /\ \A r \in Row : file'[catalog[i].path][r] =
                       IF r \in Logged(i) THEN catalog[i].data[r] ELSE file[catalog[i].path][r]
                  /\ \A p \in Path \ {catalog[i].path} : file'[p] = file[p]
             /\ ~(First /\ catalog[i].path # NULL) => file' = file
<1>. DEFINE i == log[at].idx
            w == WithFrames(file[catalog[i].path], Logged(i), catalog[i].data)
<1>1. at \in DOMAIN log
  BY Typing DEF CommitTable, TypeOK
<1>2. i \in Places /\ log[at].name = catalog[i].name
  BY <1>1 DEF TypeOK
<1>3. Find(log[at].name) = i
  BY <1>2, FindPlace
<1>4. catalog[i].path \in Path \cup {NULL} /\ catalog[i].data \in Data
  BY <1>2, Typing DEF Table
<1>5. file' = IF First /\ catalog[i].path # NULL
              THEN [file EXCEPT ![catalog[i].path] = w] ELSE file
  BY <1>3 DEF CommitTable
<1>6. file \in [Path -> Data]
  BY DEF TypeOK
<1>7. catalog[i].path # NULL =>
        /\ w \in Data
        /\ \A r \in Row : w[r] = IF r \in Logged(i) THEN catalog[i].data[r]
                                 ELSE file[catalog[i].path][r]
  BY <1>4, <1>6, FramesType
<1>. HIDE DEF i, w
<1>8. ASSUME First, catalog[i].path # NULL
      PROVE  /\ file'[catalog[i].path] = w
             /\ \A p \in Path \ {catalog[i].path} : file'[p] = file[p]
  BY <1>4, <1>5, <1>6, <1>8
<1>. QED
  BY <1>2, <1>4, <1>5, <1>7, <1>8 DEF i

LEMMA WrittenNext ==
  ASSUME TypeOK, OnePath, Written, [Next]_vars
  PROVE  OnePath' /\ Written'
<1>1. ASSUME NEW n \in Name, NEW s \in Shape, Create(n, s)
      PROVE  OnePath' /\ Written'
  BY <1>1, PutOnePath, EmptyType DEF Create, Written
<1>2. ASSUME NEW n \in Name, NEW s \in Shape, NEW p \in Path, Load(n, p, s)
      PROVE  OnePath' /\ Written'
  <2>1. file[p] \in Data
    BY DEF TypeOK
  <2>2. PICK q \in {p, NULL} : Put(n, q, s, file[p])
    BY <1>2 DEF Load
  <2>3. q # NULL => \A i \in Places : catalog[i].path = q => catalog[i].name = n
    BY <1>2 DEF Load
  <2>4. q \in Path \cup {NULL}
    OBVIOUS
  <2>. QED
    BY <1>2, <2>1, <2>2, <2>3, <2>4, PutOnePath DEF Load, Written
<1>3. CASE Begin \/ Commit \/ CommitFails \/ CommitDone
  <2>1. catalog' = catalog /\ (pc' = "commit" => at' = 1)
    BY <1>3 DEF Begin, Commit, CommitFails, CommitDone
  <2>. QED
    BY <2>1, SamePaths DEF Places, Written
<1>4. ASSUME NEW i \in Places, NEW rows \in SUBSET Row, NEW d \in Data, Change(i, rows, d)
      PROVE  OnePath' /\ Written'
  <2>1. Places' = Places /\ \A j \in Places : catalog'[j].path = catalog[j].path
    BY <1>4, ChangeData, DataType
  <2>2. pc' = "commit" => at' = 1
    BY <1>4 DEF Change
  <2>. QED
    BY <2>1, <2>2, SamePaths DEF Written
<1>5. CASE CommitTable
  <2>. DEFINE i == log[at].idx
  <2>1. at \in DOMAIN log /\ at \in Nat \ {0}
    BY <1>5, Typing DEF CommitTable, TypeOK
  <2>2. /\ i \in Places /\ catalog[i].path \in Path \cup {NULL}
        /\ (First /\ catalog[i].path # NULL) =>
             /\ file'[catalog[i].path] \in Data
             /\ \A r \in Row : file'[catalog[i].path][r] =
                  IF r \in Logged(i) THEN catalog[i].data[r] ELSE file[catalog[i].path][r]
             /\ \A p \in Path \ {catalog[i].path} : file'[p] = file[p]
        /\ ~(First /\ catalog[i].path # NULL) => file' = file
    BY <1>5, CommitFile
  <2>5. /\ catalog' = catalog /\ log' = log /\ pc' = pc /\ at' = at + 1 /\ pc = "commit"
        /\ \A j : Logged(j)' = Logged(j)
    BY <1>5 DEF CommitTable, txn, Logged
  <2>6. \A k \in 1..(at - 1) : log[k].idx \in Places /\ catalog[log[k].idx].path \in Path \cup {NULL}
    <3>1. \A k \in 1..(at - 1) : k \in DOMAIN log
      BY <2>1, Typing
    <3>. QED
      BY <3>1, Typing DEF TypeOK, Table
  <2>. HIDE DEF i
  <2>7. ASSUME NEW k \in 1..at, catalog[log[k].idx].path # NULL, NEW r \in Logged(log[k].idx)
        PROVE  file'[catalog[log[k].idx].path][r] = catalog[log[k].idx].data[r]
    <3>0. r \in Row
      BY <2>7 DEF Logged
    <3>1. CASE k < at
      <4>1. /\ file[catalog[log[k].idx].path][r] = catalog[log[k].idx].data[r]
            /\ k \in 1..(at - 1)
        BY <2>1, <2>5, <2>7, <3>1 DEF Written
      <4>2. CASE First /\ catalog[i].path # NULL
        <5>1. log[k].idx # i
          BY <4>1, <4>2 DEF First, i
        <5>2. catalog[log[k].idx].path # catalog[i].path
          BY <2>2, <2>6, <2>7, <4>1, <5>1 DEF OnePath
        <5>3. file'[catalog[log[k].idx].path] = file[catalog[log[k].idx].path]
          BY <2>2, <2>6, <2>7, <4>1, <4>2, <5>2
        <5>. QED
          BY <4>1, <5>3
      <4>3. CASE ~(First /\ catalog[i].path # NULL)
        BY <2>2, <4>1, <4>3
      <4>. QED
        BY <4>2, <4>3
    <3>2. CASE k = at /\ First
      BY <2>2, <2>7, <3>0, <3>2 DEF i
    <3>3. CASE k = at /\ ~First
      <4>1. PICK j \in 1..(at - 1) : log[j].idx = i
        BY <3>3 DEF First, i
      <4>2. file[catalog[i].path][r] = catalog[i].data[r]
        BY <2>5, <2>7, <3>3, <4>1 DEF Written, i
      <4>. QED
        BY <2>2, <3>3, <4>2 DEF i
    <3>. QED
      BY <2>1, <3>1, <3>2, <3>3
  <2>8. \A k \in 1..(at' - 1) : k \in 1..at
    BY <2>1, <2>5
  <2>9. Written'
    BY <2>5, <2>7, <2>8 DEF Written
  <2>. QED
    BY <2>5, <2>9, SamePaths DEF Places
<1>6. CASE Rollback
  <2>1. Places' = Places /\ \A j \in Places : catalog'[j].path = catalog[j].path
    BY <1>6, RollbackData, DataType
  <2>. QED
    BY <1>6, <2>1, SamePaths DEF Rollback, Written
<1>7. ASSUME NEW i \in Places, Checkpoint(i)
      PROVE  OnePath' /\ Written'
  BY <1>7, SamePaths DEF Checkpoint, Written, Places
<1>8. CASE Crash
  <2>1. Places' = {}
    BY <1>8 DEF Crash, Places
  <2>. QED
    BY <1>8, <2>1 DEF Crash, OnePath, Written
<1>9. CASE UNCHANGED vars
  BY <1>9, SamePaths DEF vars, txn, Places, Written, Logged
<1>. QED
  BY <1>1, <1>2, <1>3, <1>4, <1>5, <1>6, <1>7, <1>8, <1>9 DEF Next

LEMMA UntouchedNext ==
  ASSUME TypeOK, TypeOK', Untouched, [Next]_vars
  PROVE  Untouched'
<1>1. ASSUME active' = active, log' = log, begun' = begun, file' = file,
             active => \A k \in DOMAIN log : catalog'[log[k].idx] = catalog[log[k].idx]
      PROVE  Untouched'
  <2>1. active => \A p, r : LogsRow(p, r)' = LogsRow(p, r)
    BY <1>1 DEF LogsRow
  <2>. QED
    BY <1>1, <2>1 DEF Untouched
<1>2. ASSUME NEW n \in Name, NEW p \in Path \cup {NULL}, NEW s \in Shape, NEW d \in Data,
             Put(n, p, s, d), ~(active /\ Known(n)), UNCHANGED <<txn, pc, at, file, begun>>
      PROVE  Untouched'
  <2>1. active => \A i \in Places : catalog'[i] = catalog[i]
    BY <1>2, PutType
  <2>2. \A k \in DOMAIN log : log[k].idx \in Places
    BY DEF TypeOK
  <2>. QED
    BY <1>1, <1>2, <2>1, <2>2 DEF txn
<1>3. ASSUME NEW n \in Name, NEW s \in Shape, Create(n, s)
      PROVE  Untouched'
  BY <1>2, <1>3, EmptyType DEF Create
<1>4. ASSUME NEW n \in Name, NEW s \in Shape, NEW p \in Path, Load(n, p, s)
      PROVE  Untouched'
  <2>1. file[p] \in Data
    BY DEF TypeOK
  <2>2. PICK q \in {p, NULL} : Put(n, q, s, file[p])
    BY <1>4 DEF Load
  <2>3. q \in Path \cup {NULL}
    OBVIOUS
  <2>. QED
    BY <1>2, <1>4, <2>1, <2>2, <2>3 DEF Load
<1>5. CASE Begin
  <2>1. begun'.file = file /\ file' = file
    BY <1>5 DEF Begin, Mark
  <2>. QED
    BY <2>1 DEF Untouched
<1>6. ASSUME NEW i \in Places, NEW rows \in SUBSET Row, NEW d \in Data, Change(i, rows, d)
      PROVE  Untouched'
  <2>1. CASE ~active
    <3>1. begun'.file = file /\ file' = file
      BY <1>6, <2>1 DEF Change, Mark
    <3>. QED
      BY <3>1 DEF Untouched
  <2>2. CASE active
    <3>1. \A j \in Places : catalog'[j].path = catalog[j].path
      BY <1>6, ChangeData, DataType
    <3>2. PICK e : log' = Append(log, e)
      BY <1>6 DEF Change
    <3>3. \A k \in DOMAIN log : k \in DOMAIN log' /\ log'[k] = log[k] /\ log[k].idx \in Places
      BY <3>2, Typing DEF TypeOK
    <3>4. \A p, r : LogsRow(p, r) => LogsRow(p, r)'
      BY <3>1, <3>3 DEF LogsRow
    <3>. QED
      BY <1>6, <2>2, <3>4 DEF Change, Untouched
  <2>. QED
    BY <2>1, <2>2
<1>7. CASE Commit \/ CommitFails
  BY <1>1, <1>7 DEF Commit, CommitFails, txn
<1>8. CASE CommitTable
  <2>. DEFINE i == log[at].idx
  <2>1. /\ catalog' = catalog /\ log' = log /\ active' = active /\ begun' = begun
    BY <1>8 DEF CommitTable, txn
  <2>2. ASSUME NEW p \in Path, NEW r \in Row, ~LogsRow(p, r)
        PROVE  file'[p][r] = file[p][r]
    <3>1. CASE First /\ catalog[i].path # NULL /\ p = catalog[i].path
      <4>1. r \notin Logged(i)
        BY <2>2, <3>1 DEF Logged, Names, LogsRow
      <4>. QED
        BY <1>8, <3>1, <4>1, CommitFile
    <3>2. CASE First /\ catalog[i].path # NULL /\ p # catalog[i].path
      BY <1>8, <3>2, CommitFile
    <3>3. CASE ~(First /\ catalog[i].path # NULL)
      BY <1>8, <3>3, CommitFile
    <3>. QED
      BY <3>1, <3>2, <3>3
  <2>3. \A p, r : LogsRow(p, r)' = LogsRow(p, r)
    BY <2>1 DEF LogsRow
  <2>. QED
    BY <2>1, <2>2, <2>3 DEF Untouched
<1>9. CASE CommitDone \/ Rollback \/ Crash
  BY <1>9 DEF CommitDone, Rollback, Crash, End, Untouched
<1>10. ASSUME NEW i \in Places, Checkpoint(i)
       PROVE  Untouched'
  BY <1>10 DEF Checkpoint, txn, Untouched
<1>11. CASE UNCHANGED vars
  BY <1>1, <1>11 DEF vars, txn
<1>. QED
  BY <1>3, <1>4, <1>5, <1>6, <1>7, <1>8, <1>9, <1>10, <1>11 DEF Next

\* When COMMIT succeeds every row the log names is in its table's file: the loop
\* passes over a table only if it wrote it before (table_seen_before), and then
\* with the rows of all its entries; no table's write spoils another's, and each
\* time it starts from the first entry.  And no other row of a file has changed
\* since BEGIN.
THEOREM CommitIsWhole == Spec => CommitWritesAll
<1>1. Init => OnePath /\ Written /\ Untouched
  BY DEF Init, OnePath, Written, Untouched, Places
<1>2. ASSUME TypeOK, Written, CommitDone, NEW k \in DOMAIN log,
             catalog[log[k].idx].path # NULL, NEW r \in log[k].rows
      PROVE  file'[catalog[log[k].idx].path][r] = catalog[log[k].idx].data[r]
  <2>1. k \in 1..(at - 1) /\ pc = "commit" /\ file' = file
    BY <1>2, Typing DEF CommitDone, TypeOK
  <2>2. log[k].rows \subseteq Row
    BY <1>2, Typing DEF Entry
  <2>3. r \in Logged(log[k].idx)
    BY <1>2, <2>2 DEF Logged, Names
  <2>. QED
    BY <1>2, <2>1, <2>3 DEF Written
<1>3. ASSUME TypeOK, Untouched, CommitDone, NEW p \in Path, NEW r \in Row, ~LogsRow(p, r)
      PROVE  file'[p][r] = begun.file[p][r]
  BY <1>3 DEF CommitDone, Untouched, TypeOK
<1>4. TypeOK /\ Written /\ Untouched =>
        [CommitDone =>
           /\ \A k \in DOMAIN log :
                LET t == catalog[log[k].idx]
                IN  t.path # NULL => \A r \in log[k].rows : file'[t.path][r] = t.data[r]
           /\ \A p \in Path, r \in Row : ~LogsRow(p, r) => file'[p][r] = begun.file[p][r]]_vars
  BY <1>2, <1>3
<1>5. TypeOK /\ OnePath /\ Written /\ [Next]_vars => (OnePath /\ Written)'
  BY WrittenNext
<1>6. TypeOK /\ TypeOK' /\ Untouched /\ [Next]_vars => Untouched'
  BY UntouchedNext
<1>. QED
  BY <1>1, <1>4, <1>5, <1>6, TypeInit, TypeNext, PTL DEF Spec, CommitWritesAll

-----------------------------------------------------------------------------
(* References never form a circle.                                         *)

TargetsKnown == \A i \in Places : \A m \in Targets(i) : Known(m)

\* Every set of tables has one that references none of the set.
Sink(x, X) == \A i \in Places : catalog[i].name = x => Targets(i) \cap X = {}
Sinks      == \A X \in SUBSET Name : X # {} => \E x \in X : Sink(x, X)

LEMMA TargetNames ==
  ASSUME TypeOK
  PROVE  \A i \in Places : Targets(i) \subseteq Name
BY Typing DEF Table, Declaration, Reference, Targets

\* A table n is declared whose references stay within R, a set that it is not
\* in and that no reference leaves.
LEMMA PutSinks ==
  ASSUME TypeOK, Sinks, TargetsKnown,
         NEW n \in Name, NEW p \in Path \cup {NULL}, NEW s \in Shape, NEW d \in Data,
         Put(n, p, s, d), NEW R \in SUBSET Name, n \notin R,
         \A i \in Places : catalog[i].name \in R => Targets(i) \subseteq R,
         \A r \in s.refs : r.table \in R /\ Known(r.table)
  PROVE  Sinks' /\ TargetsKnown'
<1>1. PICK k \in Places' : /\ catalog'[k].name = n /\ catalog'[k].shape = s
                           /\ \A i \in Places' \ {k} : i \in Places /\ catalog'[i] = catalog[i]
                           /\ \A i \in Places : i # k => i \in Places' /\ catalog'[i] = catalog[i]
  <2>1. CASE Known(n)
    <3>1. Find(n) \in Places' /\ Places' = Places
      BY <2>1, PutType, FindKnown DEF Places
    <3>. QED
      BY <2>1, <3>1, PutType
  <2>2. CASE ~Known(n)
    <3>1. Places' = Places \cup {Len(catalog) + 1} /\ Len(catalog) + 1 \notin Places
      BY <2>2, PutType, Typing DEF Places
    <3>. QED
      BY <2>2, <3>1, PutType
  <2>. QED
    BY <2>1, <2>2
<1>2. \A i \in Places' \ {k} : i \in Places /\ Targets(i)' = Targets(i) /\ catalog'[i].name = catalog[i].name
  BY <1>1 DEF Targets
<1>3. Targets(k)' \subseteq R /\ \A m \in Targets(k)' : Known(m)
  BY <1>1 DEF Targets
<1>4. \A i \in Places' : catalog'[i].name = n => i = k
  BY <1>1, PutType
<1>5. Sinks'
  <2>. SUFFICES ASSUME NEW X \in SUBSET Name, X # {}
                PROVE  \E x \in X : Sink(x, X)'
    BY DEF Sinks
  <2>1. CASE X \cap R # {}
    <3>1. PICK x \in X \cap R : Sink(x, X \cap R)
      BY <2>1 DEF Sinks
    <3>2. ASSUME NEW i \in Places', catalog'[i].name = x
          PROVE  Targets(i)' \cap X = {}
      <4>1. i \in Places /\ catalog[i].name = x /\ Targets(i)' = Targets(i)
        BY <1>1, <1>2, <3>1, <3>2
      <4>2. Targets(i) \subseteq R /\ Targets(i) \cap (X \cap R) = {}
        BY <3>1, <4>1 DEF Sink
      <4>. QED
        BY <4>1, <4>2
    <3>. QED
      BY <3>1, <3>2 DEF Sink
  <2>2. CASE X \cap R = {} /\ n \in X
    BY <1>3, <1>4, <2>2 DEF Sink
  <2>3. CASE n \notin X
    <3>1. PICK x \in X : Sink(x, X)
      BY DEF Sinks
    <3>2. ASSUME NEW i \in Places', catalog'[i].name = x
          PROVE  Targets(i)' \cap X = {}
      BY <1>1, <1>2, <2>3, <3>1, <3>2 DEF Sink
    <3>. QED
      BY <3>1, <3>2 DEF Sink
  <2>. QED
    BY <2>1, <2>2, <2>3
<1>6. ASSUME NEW m, Known(m)
      PROVE  Known(m)'
  <2>1. PICK i \in Places : catalog[i].name = m
    BY <1>6 DEF Known
  <2>2. CASE i = k
    <3>1. m = n
      <4>1. CASE Known(n)
        BY <1>1, <2>1, <2>2, <4>1, PutType, FindKnown, FindPlace
      <4>2. CASE ~Known(n)
        BY <1>1, <2>1, <2>2, <4>2, PutType
      <4>. QED
        BY <4>1, <4>2
    <3>. QED
      BY <1>1, <3>1 DEF Known
  <2>3. CASE i # k
    BY <1>1, <2>1, <2>3 DEF Known
  <2>. QED
    BY <2>2, <2>3
<1>7. TargetsKnown'
  BY <1>2, <1>3, <1>6 DEF TargetsKnown
<1>. QED
  BY <1>5, <1>7

\* Steps that change no table's name or references.
LEMMA SameSinks ==
  ASSUME Sinks, TargetsKnown, Places' = Places,
         \A i \in Places : /\ catalog'[i].name = catalog[i].name
                           /\ catalog'[i].shape = catalog[i].shape
  PROVE  Sinks' /\ TargetsKnown'
<1>1. \A i \in Places : Targets(i)' = Targets(i)
  BY DEF Targets
<1>2. \A x, X : Sink(x, X)' <=> Sink(x, X)
  BY <1>1 DEF Sink
<1>3. Sinks'
  BY <1>2 DEF Sinks
<1>4. \A m : Known(m)' <=> Known(m)
  BY DEF Known
<1>. QED
  BY <1>1, <1>3, <1>4 DEF TargetsKnown

\* The tables of a set can be ranked so that references within it go down: a
\* sink comes lowest, and the others of the set above it as they are ranked
\* without it.
Ranks(rank, X) ==
  \A i \in Places : catalog[i].name \in X =>
    \A m \in Targets(i) \cap X : rank[m] < rank[catalog[i].name]

LEMMA Ranked ==
  ASSUME Sinks, NEW X \in SUBSET Name
  PROVE  \E rank \in [X -> 0..(Cardinality(X) - 1)] : Ranks(rank, X)
<1>. DEFINE Has(Y, k) == \E rank \in [Y -> 0..(k - 1)] : Ranks(rank, Y)
            T == {k \in Nat : \A Y \in SUBSET Name : Cardinality(Y) = k => Has(Y, k)}
<1>1. \A Y \in SUBSET Name : IsFiniteSet(Y) /\ Cardinality(Y) \in Nat
  BY ConstantAssumption, FS_Subset, FS_CardinalityType
<1>2. 0 \in T
  <2>1. ASSUME NEW Y \in SUBSET Name, Cardinality(Y) = 0
        PROVE  Has(Y, 0)
    <3>1. Y = {}
      BY <1>1, <2>1, FS_EmptySet
    <3>2. [y \in {} |-> 0] \in [Y -> 0..(0 - 1)]
      BY <3>1
    <3>. QED
      BY <3>1, <3>2 DEF Ranks
  <2>. HIDE DEF Has
  <2>. QED
    BY <2>1
<1>3. ASSUME NEW k \in Nat, k \in T
      PROVE  k + 1 \in T
  <2>1. ASSUME NEW Y \in SUBSET Name, Cardinality(Y) = k + 1
        PROVE  Has(Y, k + 1)
    <3>1. Y # {}
      BY <2>1, FS_EmptySet
    <3>2. PICK x \in Y : Sink(x, Y)
      BY <3>1 DEF Sinks
    <3>. DEFINE Z == Y \ {x}
    <3>3. Cardinality(Z) = k /\ Z \in SUBSET Name
      BY <1>1, <2>1, FS_RemoveElement
    <3>4. Has(Z, k)
      BY <1>3, <3>3
    <3>5. PICK f \in [Z -> 0..(k - 1)] : Ranks(f, Z)
      BY <3>4
    <3>. DEFINE g == [y \in Y |-> IF y = x THEN 0 ELSE f[y] + 1]
    <3>6. \A y \in Z : f[y] \in 0..(k - 1) /\ g[y] = f[y] + 1
      BY <3>5
    <3>7. g[x] = 0
      BY <3>2
    <3>8. g \in [Y -> 0..((k + 1) - 1)]
      BY <3>6
    <3>. HIDE DEF g
    <3>9. ASSUME NEW i \in Places, catalog[i].name \in Y, NEW m \in Targets(i) \cap Y
          PROVE  g[m] < g[catalog[i].name]
      <4>1. catalog[i].name # x
        BY <3>2, <3>9 DEF Sink
      <4>2. CASE m = x
        BY <3>6, <3>7, <3>9, <4>1, <4>2
      <4>3. CASE m # x
        <5>1. m \in Z /\ catalog[i].name \in Z
          BY <3>9, <4>1, <4>3
        <5>2. f[m] < f[catalog[i].name]
          BY <3>5, <3>9, <5>1 DEF Ranks
        <5>. QED
          BY <3>6, <5>1, <5>2
      <4>. QED
        BY <4>2, <4>3
    <3>. QED
      BY <3>8, <3>9 DEF Ranks
  <2>. HIDE DEF Has
  <2>. QED
    BY <2>1
<1>4. Nat \subseteq T
  <2>. HIDE DEF T
  <2>. QED
    BY <1>2, <1>3, Induction
<1>. QED
  BY <1>1, <1>4

-----------------------------------------------------------------------------
(* What fk_chain_reaches answers.                                          *)

\* With no depth left, yes; else by the table's own references, and by those
\* of the tables they name with one level less.
LEMMA ChainSteps ==
  ASSUME TypeOK, NEW n, NEW i \in Places
  PROVE  /\ FkChainReaches(i, n, 0) = TRUE
         /\ \A d \in Nat : FkChainReaches(i, n, d + 1) =
              (n \in Targets(i) \/ \E m \in Targets(i) : Known(m) /\ FkChainReaches(Find(m), n, d))
<1>. DEFINE X == [Places -> BOOLEAN]
            Turn(g) == [j \in Places |-> n \in Targets(j)
                                          \/ \E m \in Targets(j) : Known(m) /\ g[Find(m)]]
            e == [j \in Places |-> TRUE]
            G == [k \in Nat |-> [g \in X |-> Turn(g)]]
            Level(f, d) == [j \in Places |->
                             \/ d = 0
                             \/ n \in Targets(j)
                             \/ \E m \in Targets(j) : Known(m) /\ f[d - 1][Find(m)]]
            Loop(f, D) == f = [d \in 0..D |-> Level(f, d)]
            c(D) == CHOOSE f : Loop(f, D)
<1>1. PICK h : IsLoop(h, X, e, G)
  <2>1. G \in RoundsOf(X) /\ e \in X
    BY DEF RoundsOf
  <2>. HIDE DEF G, e, X
  <2>. QED
    BY <2>1, Rounds
<1>2. h[0] = e /\ \A d \in Nat : h[d] \in X
  BY <1>1 DEF IsLoop
<1>3. ASSUME NEW d \in Nat
      PROVE  h[d + 1] = Turn(h[d])
  <2>1. h[d + 1] = G[d + 1][h[d]]
    <3>. HIDE DEF G
    <3>. QED
      BY <1>1 DEF IsLoop
  <2>2. h[d] \in X /\ d + 1 \in Nat
    BY <1>2
  <2>. HIDE DEF X, Turn
  <2>. QED
    BY <2>1, <2>2
<1>. HIDE DEF G, X
<1>4. ASSUME NEW D \in Nat
      PROVE  \A d \in 0..D : c(D)[d] = h[d]
  <2>1. Loop([d \in 0..D |-> h[d]], D)
    <3>. DEFINE g == [d \in 0..D |-> h[d]]
    <3>1. ASSUME NEW d \in 0..D
          PROVE  h[d] = Level(g, d)
      <4>1. CASE d = 0
        BY <1>2, <4>1
      <4>2. CASE d # 0
        <5>1. d - 1 \in 0..D /\ d - 1 \in Nat /\ (d - 1) + 1 = d
          BY <4>2
        <5>2. h[d] = Turn(h[d - 1]) /\ g[d - 1] = h[d - 1]
          BY <1>3, <5>1
        <5>. QED
          BY <4>2, <5>2
      <4>. QED
        BY <4>1, <4>2
    <3>. QED
      BY <3>1, Zenon
  <2>2. Loop(c(D), D)
    <3>. HIDE DEF Loop
    <3>. QED
      BY <2>1
  <2>. DEFINE T == {d \in Nat : d <= D => c(D)[d] = h[d]}
  <2>. HIDE DEF c
  <2>3. 0 \in T
    BY <1>2, <2>2
  <2>4. ASSUME NEW d \in Nat, d \in T
        PROVE  d + 1 \in T
    <3>. SUFFICES ASSUME d + 1 <= D PROVE c(D)[d + 1] = h[d + 1]
      OBVIOUS
    <3>1. c(D)[d] = h[d] /\ d + 1 \in 0..D /\ (d + 1) - 1 = d /\ d + 1 # 0
      BY <2>4
    <3>2. c(D)[d + 1] = Level(c(D), d + 1)
      <4>. HIDE DEF Level
      <4>. QED
        BY <2>2, <3>1
    <3>3. c(D)[d + 1] = Turn(h[d])
      BY <3>1, <3>2
    <3>. QED
      BY <1>3, <3>3
  <2>5. Nat \subseteq T
    <3>. HIDE DEF T
    <3>. QED
      BY <2>3, <2>4, Induction
  <2>. QED
    BY <2>5
<1>5. ASSUME NEW D \in Nat, NEW j \in Places
      PROVE  FkChainReaches(j, n, D) = h[D][j]
  <2>1. FkChainReaches(j, n, D) = c(D)[D][j]
    BY DEF FkChainReaches
  <2>. HIDE DEF c
  <2>. QED
    BY <1>4, <2>1
<1>. HIDE DEF c
<1>6. FkChainReaches(i, n, 0) = TRUE
  BY <1>2, <1>5
<1>7. ASSUME NEW d \in Nat
      PROVE  FkChainReaches(i, n, d + 1) =
               (n \in Targets(i) \/ \E m \in Targets(i) : Known(m) /\ FkChainReaches(Find(m), n, d))
  <2>1. \A m \in Targets(i) : Known(m) => FkChainReaches(Find(m), n, d) = h[d][Find(m)]
    BY <1>5, FindKnown
  <2>2. FkChainReaches(i, n, d + 1) = h[d + 1][i]
    BY <1>5
  <2>3. h[d + 1][i] = (n \in Targets(i) \/ \E m \in Targets(i) : Known(m) /\ h[d][Find(m)])
    BY <1>3
  <2>. QED
    BY <2>1, <2>2, <2>3
<1>. QED
  BY <1>6, <1>7

\* The tables no chain leads from to n: no reference leaves them.
Clear(n) == {m \in Name \ {n} : Known(m) /\ \E d \in Nat : ~FkChainReaches(Find(m), n, d)}

LEMMA ClearStep ==
  ASSUME TypeOK, TargetsKnown, NEW n \in Name, NEW i \in Places, NEW d \in Nat,
         ~FkChainReaches(i, n, d)
  PROVE  Targets(i) \subseteq Clear(n)
<1>1. d # 0
  BY ChainSteps
<1>2. d - 1 \in Nat /\ (d - 1) + 1 = d
  BY <1>1
<1>3. ~(n \in Targets(i) \/ \E m \in Targets(i) : Known(m) /\ FkChainReaches(Find(m), n, d - 1))
  BY <1>2, ChainSteps
<1>. QED
  BY <1>2, <1>3, TargetNames DEF Clear, TargetsKnown

LEMMA ClearClosed ==
  ASSUME TypeOK, TargetsKnown, NEW n \in Name, NEW i \in Places, catalog[i].name \in Clear(n)
  PROVE  Targets(i) \subseteq Clear(n)
BY ClearStep, FindPlace DEF Clear

\* .load and CREATE TABLE, the only steps that declare references, keep them
\* out of the tables that lead back to the one they declare.
LEMMA SinksNext ==
  ASSUME TypeOK, TypeOK', Sinks, TargetsKnown, [Next]_vars
  PROVE  Sinks' /\ TargetsKnown'
<1>1. ASSUME NEW n \in Name, NEW s \in Shape, Create(n, s)
      PROVE  Sinks' /\ TargetsKnown'
  <2>. DEFINE R == {m \in Name : Known(m)}
  <2>1. /\ Put(n, NULL, s, Empty) /\ n \notin R
        /\ \A r \in s.refs : r.table \in R /\ Known(r.table)
    BY <1>1, ConstantAssumption DEF Create, Creatable, RefsKey, Declaration, Reference
  <2>2. \A i \in Places : Targets(i) \subseteq R
    BY TargetNames DEF TargetsKnown
  <2>3. R \in SUBSET Name /\ Empty \in Data /\ NULL \in Path \cup {NULL}
    BY EmptyType
  <2>. HIDE DEF R
  <2>. QED
    BY <2>1, <2>2, <2>3, PutSinks
<1>2. ASSUME NEW n \in Name, NEW s \in Shape, NEW p \in Path, Load(n, p, s)
      PROVE  Sinks' /\ TargetsKnown'
  <2>1. file[p] \in Data
    BY DEF TypeOK
  <2>2. PICK q \in {p, NULL} : Put(n, q, s, file[p])
    BY <1>2 DEF Load
  <2>3. q \in Path \cup {NULL} /\ Clear(n) \in SUBSET Name /\ n \notin Clear(n)
    BY DEF Clear
  <2>4. \A r \in s.refs : r.table \in Clear(n) /\ Known(r.table)
    BY <1>2, Typing, ConstantAssumption DEF Load, Loadable, Clear, Declaration, Reference
  <2>. QED
    BY <2>1, <2>2, <2>3, <2>4, PutSinks, ClearClosed
<1>3. CASE Begin \/ Commit \/ CommitTable \/ CommitFails \/ CommitDone
  BY <1>3, SameSinks DEF Begin, Commit, CommitTable, CommitFails, CommitDone, Places
<1>4. ASSUME NEW i \in Places, NEW rows \in SUBSET Row, NEW d \in Data, Change(i, rows, d)
      PROVE  Sinks' /\ TargetsKnown'
  BY <1>4, ChangeData, DataType, SameSinks
<1>5. CASE Rollback
  BY <1>5, RollbackData, DataType, SameSinks
<1>6. ASSUME NEW i \in Places, Checkpoint(i)
      PROVE  Sinks' /\ TargetsKnown'
  BY <1>6, SameSinks DEF Checkpoint, Places
<1>7. CASE Crash
  <2>1. Places' = {}
    BY <1>7 DEF Crash, Places
  <2>. QED
    BY <2>1 DEF Sinks, Sink, TargetsKnown
<1>8. CASE UNCHANGED vars
  BY <1>8, SameSinks DEF vars, Places
<1>. QED
  BY <1>1, <1>2, <1>3, <1>4, <1>5, <1>6, <1>7, <1>8 DEF Next

LEMMA SinksHold == Spec => [](TypeOK /\ Sinks /\ TargetsKnown)
<1>1. Init => Sinks /\ TargetsKnown
  <2>. SUFFICES ASSUME Init PROVE Sinks /\ TargetsKnown
    OBVIOUS
  <2>1. Places = {}
    BY DEF Init, Places
  <2>. QED
    BY <2>1 DEF Sinks, Sink, TargetsKnown
<1>2. TypeOK /\ [Next]_vars => TypeOK'
  BY TypeNext
<1>3. TypeOK /\ TypeOK' /\ Sinks /\ TargetsKnown /\ [Next]_vars => (Sinks /\ TargetsKnown)'
  BY SinksNext
<1>. QED
  BY <1>1, <1>2, <1>3, TypeInit, PTL DEF Spec

\* However tables are created, loaded and loaded again, references form no
\* circle: what .load refuses is enough.
THEOREM NeverACircle == Spec => []Acyclic
<1>1. TypeOK /\ Sinks /\ TargetsKnown => Acyclic
  <2>. SUFFICES ASSUME TypeOK, Sinks PROVE Acyclic
    OBVIOUS
  <2>1. PICK rank \in [Name -> 0..(Cardinality(Name) - 1)] : Ranks(rank, Name)
    BY Ranked
  <2>2. rank \in [Name -> 0..Cardinality(Name)]
    BY ConstantAssumption, FS_CardinalityType
  <2>3. \A i \in Places : catalog[i].name \in Name /\ Targets(i) \subseteq Name
    BY TargetNames, Typing DEF Table
  <2>. QED
    BY <2>1, <2>2, <2>3 DEF Acyclic, Ranks
<1>. QED
  BY <1>1, SinksHold, PTL

\* Along a chain the rank goes down, so that none is longer than there are
\* tables.
LEMMA RankedPlaces ==
  ASSUME TypeOK, Sinks
  PROVE  \E rank \in [Places -> 0..(Len(catalog) - 1)] :
           \A i \in Places : \A m \in Targets(i) : Known(m) => rank[Find(m)] < rank[i]
<1>. DEFINE N == {catalog[i].name : i \in Places}
            name == [i \in Places |-> catalog[i].name]
<1>1. N \in SUBSET Name
  BY Typing DEF Table
<1>2. Cardinality(N) <= Len(catalog) /\ Cardinality(N) \in Nat
  <2>1. name \in Surjection(Places, N)
    BY DEF Surjection
  <2>2. IsFiniteSet(Places) /\ Cardinality(Places) = Len(catalog)
    <3>1. ASSUME NEW k \in Nat
          PROVE  IsFiniteSet(1..k) /\ Cardinality(1..k) = k
      <4>1. 1 \in Int /\ k \in Int
        OBVIOUS
      <4>2. IsFiniteSet(1..k) /\ Cardinality(1..k) = IF 1 > k THEN 0 ELSE k - 1 + 1
        BY <4>1, FS_Interval, Zenon
      <4>. QED
        BY <4>2
    <3>. QED
      BY <3>1, Typing DEF Places
  <2>. HIDE DEF name, N
  <2>. QED
    BY <2>1, <2>2, FS_Surjection, FS_CardinalityType
<1>3. PICK f \in [N -> 0..(Cardinality(N) - 1)] : Ranks(f, N)
  <2>. HIDE DEF N
  <2>. QED
    BY <1>1, Ranked
<1>. DEFINE g == [i \in Places |-> f[catalog[i].name]]
<1>4. g \in [Places -> 0..(Len(catalog) - 1)]
  BY <1>2, <1>3, Typing
<1>5. ASSUME NEW i \in Places, NEW m \in Targets(i), Known(m)
      PROVE  g[Find(m)] < g[i]
  <2>1. Find(m) \in Places /\ catalog[Find(m)].name = m /\ m \in N /\ catalog[i].name \in N
    BY <1>5, FindKnown
  <2>2. f[m] < f[catalog[i].name]
    BY <1>3, <2>1 DEF Ranks
  <2>. QED
    BY <2>1, <2>2
<1>. HIDE DEF g
<1>. QED
  BY <1>4, <1>5

\* Where no chain leads, a depth above the rank is enough to see it.
LEMMA DeepEnough ==
  ASSUME TypeOK, TargetsKnown, NEW rank \in [Places -> 0..(Len(catalog) - 1)],
         \A i \in Places : \A m \in Targets(i) : Known(m) => rank[Find(m)] < rank[i],
         NEW n, NEW S, n \notin S,
         \A j \in Places : catalog[j].name \in S => Targets(j) \subseteq S,
         NEW i \in Places, Targets(i) \subseteq S
  PROVE  ~FkChainReaches(i, n, Len(catalog))
<1>. DEFINE T == {d \in Nat : \A j \in Places :
                     Targets(j) \subseteq S /\ rank[j] < d => ~FkChainReaches(j, n, d)}
<1>1. 0 \in T
  BY Typing
<1>2. ASSUME NEW d \in Nat, d \in T
      PROVE  d + 1 \in T
  <2>. SUFFICES ASSUME NEW j \in Places, Targets(j) \subseteq S, rank[j] < d + 1
                PROVE  ~FkChainReaches(j, n, d + 1)
    OBVIOUS
  <2>1. ASSUME NEW m \in Targets(j), Known(m)
        PROVE  ~FkChainReaches(Find(m), n, d)
    <3>1. Find(m) \in Places /\ catalog[Find(m)].name = m /\ rank[Find(m)] < rank[j]
      BY <2>1, FindKnown
    <3>2. Targets(Find(m)) \subseteq S
      BY <2>1, <3>1
    <3>3. rank[Find(m)] < d
      BY <3>1, Typing
    <3>. QED
      BY <1>2, <3>1, <3>2, <3>3
  <2>2. n \notin Targets(j)
    OBVIOUS
  <2>. QED
    BY <2>1, <2>2, ChainSteps
<1>3. Nat \subseteq T
  <2>. HIDE DEF T
  <2>. QED
    BY <1>1, <1>2, Induction
<1>4. Len(catalog) \in T /\ rank[i] < Len(catalog)
  BY <1>3, Typing
<1>. QED
  BY <1>4

\* The depth it is called with is never used up on the way: fk_chain_reaches
\* says yes exactly where a chain of references leads to the table.
THEOREM ChainsAreFound == Spec => []ChainIsExact
<1>1. TypeOK /\ Sinks /\ TargetsKnown => ChainIsExact
  <2>. SUFFICES ASSUME TypeOK, Sinks, TargetsKnown, NEW i \in Places, NEW n \in Name
                PROVE  FkChainReaches(i, n, Len(catalog)) <=> Leads(i, n)
    BY DEF ChainIsExact
  <2>1. ASSUME ~FkChainReaches(i, n, Len(catalog))
        PROVE  ~Leads(i, n)
    <3>1. Targets(i) \subseteq Clear(n)
      BY <2>1, ClearStep, Typing
    <3>2. Clear(n) \in SUBSET Name /\ n \notin Clear(n)
      BY DEF Clear
    <3>. QED
      BY <3>1, <3>2, ClearClosed DEF Leads
  <2>2. ASSUME ~Leads(i, n)
        PROVE  ~FkChainReaches(i, n, Len(catalog))
    <3>1. PICK S \in SUBSET Name : /\ Targets(i) \subseteq S /\ n \notin S
                                   /\ \A j \in Places : catalog[j].name \in S => Targets(j) \subseteq S
      BY <2>2 DEF Leads
    <3>. QED
      BY <3>1, RankedPlaces, DeepEnough
  <2>. QED
    BY <2>1, <2>2
<1>. QED
  BY <1>1, SinksHold, PTL
=============================================================================
