------------------------------- MODULE Query -------------------------------
(***************************************************************************)
(* SELECT (interp.c): the checks made before any row is read, the first    *)
(* table's rows by scan or by key index, the joins one after another,      *)
(* WHERE, ORDER BY and LIMIT; and for GROUP BY and aggregates the rows     *)
(* collected, sorted by key, and cut into groups.                          *)
(*                                                                         *)
(* An instance is a database and a statement; what the statement returns   *)
(* is compared with a definition that says nothing of how.  A tuple is a   *)
(* sequence of row numbers, one per source.  Projection of plain columns   *)
(* is left out: a result row is its tuple.                                 *)
(***************************************************************************)
EXTENDS Expr, SequencesExt

CONSTANTS
  PkCol,      \* [Table -> Nat]: t->pk_col + 1, 0 when there is no key
  Hash(_),    \* value_hash
  Families    \* the databases and statements to run: sets of [db, q]

NoExpr == [op |-> "none"]
Star   == [op |-> "star"]

MAX_JOIN_SOURCES == 8

VARIABLES
  db,   \* [Table -> [rows, index, usable]]: a row is [live, cells], an index
        \* entry [hash, row], in the order in which probing meets them
  q,    \* the statement: [from, on, where, order, desc, limit, group, items]
  pc,
  at,   \* the join, or the first row of the group, that comes next
  cur,  \* the tuples so far
  out   \* the groups' result rows so far

vars == <<db, q, pc, at, cur, out>>

-----------------------------------------------------------------------------
(* Tables.                                                                 *)

Rows(t)    == db[t].rows
Live(t)    == {r \in DOMAIN Rows(t) : Rows(t)[r].live}
Cells(t,r) == Rows(t)[r].cells

\* cursor_next, until it ends.
Scan(t) == SelectSeq([r \in DOMAIN Rows(t) |-> r], LAMBDA r : r \in Live(t))

\* Fault: dead rows are not passed over.
LookupDead(t, v) ==
  LET found == SelectSeq(db[t].index, LAMBDA e : e.hash = Hash(v))
  IN  [i \in DOMAIN found |-> found[i].row]

\* table_find_by_pk_hash, and the dead rows its caller passes over.
Lookup(t, v) ==
  LET found == SelectSeq(db[t].index, LAMBDA e : e.hash = Hash(v) /\ e.row \in Live(t))
  IN  [i \in DOMAIN found |-> found[i].row]

PkName(t) == Columns[t][PkCol[t]].name
PkKind(t) == Columns[t][PkCol[t]].kind

\* pk_col >= 0 && table_pk_index_usable
Indexed(t) == PkCol[t] > 0 /\ db[t].usable

-----------------------------------------------------------------------------
(* The checks made before any row is read.                                 *)

NSources == Len(q.from)
Joined(n) == SubSeq(q.from, 1, n)

Grouped == q.group # <<>> \/ \E i \in DOMAIN q.items : q.items[i].agg # "none"

RejectedPlain ==
  \/ NSources > MAX_JOIN_SOURCES
  \/ ~(ToSet(q.from) \subseteq Table)
  \/ \E i, j \in DOMAIN q.from : i # j /\ q.from[i] = q.from[j]
  \/ \E j \in DOMAIN q.on : ~IsCondition(q.on[j], q.from)
  \/ q.where # NoExpr /\ ~IsCondition(q.where, q.from)
  \/ \E i \in DOMAIN q.items : ~Resolves(q.items[i].col, q.from)
  \/ q.order # NoExpr /\ ~Resolves(q.order, q.from)

\* The number of a column of the first table: table_find_column.
ColNo(name) == CHOOSE c \in DOMAIN Columns[q.from[1]] : Columns[q.from[1]][c].name = name
HasCol(name) == \E c \in DOMAIN Columns[q.from[1]] : Columns[q.from[1]][c].name = name
ColKind(name) == Columns[q.from[1]][ColNo(name)].kind

\* The qualifier of an item is not looked at, that of a grouping column is.
RejectedGrouped ==
  \/ q.on # <<>> \/ q.order # NoExpr \/ q.limit # <<>>
  \/ q.from[1] \notin Table
  \/ q.items = <<>>
  \/ \E g \in DOMAIN q.group : ~Resolves(q.group[g], q.from)
  \/ \E i \in DOMAIN q.items :
       LET item == q.items[i]
       IN  \/ item.col # Star /\ ~HasCol(item.col.name)
           \/ item.agg = "none" /\ \A g \in DOMAIN q.group : q.group[g].name # item.col.name
           \/ item.agg \in {"sum", "avg"} /\ ColKind(item.col.name) \notin Numeric
  \/ q.where # NoExpr /\ ~IsCondition(q.where, q.from)

Rejected == IF Grouped THEN RejectedGrouped ELSE RejectedPlain

Reject ==
  /\ pc = "start" /\ Rejected
  /\ pc' = "error"
  /\ UNCHANGED <<db, q, at, cur, out>>

-----------------------------------------------------------------------------
(* The index: which conjunct of a condition names a key.                   *)

\* Fault: a key of another type is looked up all the same.
PkEqualityAnyKind(e) ==
  IF e.op = "eq" /\ e.a.op = "col" /\ e.b.op = "const" /\ e.a.name = PkName(q.from[1])
  THEN <<e.b.val>> ELSE <<>>

\* find_pk_equality: <<the value>> that WHERE equates the key with, or <<>>.
RECURSIVE PkEquality(_)
PkEquality(e) ==
  IF e.op = "and"
  THEN LET l == PkEquality(e.a) IN IF l # <<>> THEN l ELSE PkEquality(e.b)
  ELSE IF e.op # "eq" THEN <<>>
  ELSE LET t == q.from[1]
           sides == IF e.a.op = "col" /\ ~HasColumn(e.b) THEN <<e.a, e.b>>
                    ELSE IF e.b.op = "col" /\ ~HasColumn(e.a) THEN <<e.b, e.a>> ELSE <<>>
       IN  IF \/ sides = <<>>
              \/ sides[1].table \notin {NoTable, t} \/ sides[1].name # PkName(t)
           THEN <<>>
           ELSE LET v == EvalValue(sides[2], <<>>, <<>>)
                IN  IF v.null \/ v.kind # PkKind(t) THEN <<>> ELSE <<v>>

\* find_join_pk_equality: <<the expression>> that ON equates inner's key with.
RECURSIVE JoinPkEquality(_, _)
JoinPkEquality(e, inner) ==
  IF e.op = "and"
  THEN LET l == JoinPkEquality(e.a, inner)
       IN  IF l # <<>> THEN l ELSE JoinPkEquality(e.b, inner)
  ELSE LET isKey(x) == x = Col(inner, PkName(inner))
       IN  IF e.op # "eq" THEN <<>>
           ELSE IF isKey(e.a) THEN <<e.b>> ELSE IF isKey(e.b) THEN <<e.a>> ELSE <<>>

\* Fault: a key of another type is looked up all the same.
OuterKeyAnyKind(j) ==
  LET inner == q.from[j + 1]
      e == IF Indexed(inner) THEN JoinPkEquality(q.on[j], inner) ELSE <<>>
  IN  IF e # <<>> /\ ExprType(e[1], Joined(j)) # "error" THEN e ELSE <<>>

\* outer_key_expr of join j: usable when it is about the tables joined
\* before, and of the key's own type.
OuterKey(j) ==
  LET inner == q.from[j + 1]
      e == IF Indexed(inner) THEN JoinPkEquality(q.on[j], inner) ELSE <<>>
  IN  IF e # <<>> /\ ExprType(e[1], Joined(j)) = PkKind(inner) THEN e ELSE <<>>

-----------------------------------------------------------------------------
(* exec_select_plain.                                                      *)

RowsOf(tup) == [s \in DOMAIN tup |-> Cells(q.from[s], tup[s])]

\* A condition holds of a tuple of the first tables.
True(e, tup) == EvalTri(e, Joined(Len(tup)), RowsOf(tup)) = "true"

Wanted(tup) == q.where = NoExpr \/ True(q.where, tup)

\* The rows of the first table: a point lookup, or all of them.
Base ==
  LET t == q.from[1]
      key == IF NSources = 1 /\ q.where # NoExpr /\ Indexed(t) THEN PkEquality(q.where) ELSE <<>>
      rows == IF key # <<>> THEN Lookup(t, key[1]) ELSE Scan(t)
  IN  /\ pc = "start" /\ ~Rejected /\ ~Grouped
      /\ cur' = [i \in DOMAIN rows |-> <<rows[i]>>]
      /\ pc' = "join"
      /\ UNCHANGED <<db, q, at, out>>

\* The rows of the next table that are tried for tuple tup: those the index
\* has under the key, if there is one, or all of them.
Candidates(tup) ==
  LET inner == q.from[at + 1]
      e == OuterKey(at)
      key == EvalValue(e[1], Joined(at), RowsOf(tup))
  IN  IF e = <<>> THEN Scan(inner)
      ELSE IF key.null THEN <<>> ELSE Lookup(inner, key)

\* ON was checked against all the tables; it is evaluated on those joined.
OnResolves == AllResolve(q.on[at], Joined(at + 1))

Join ==
  /\ pc = "join" /\ at <= Len(q.on) /\ OnResolves
  /\ cur' = FlattenSeq([i \in DOMAIN cur |->
       LET tuples == [k \in DOMAIN Candidates(cur[i]) |-> Append(cur[i], Candidates(cur[i])[k])]
       IN  SelectSeq(tuples, LAMBDA tup : True(q.on[at], tup))])
  /\ at' = at + 1
  /\ UNCHANGED <<db, q, pc, out>>

\* eval_value ignores that resolve_column failed, and uses a source and a
\* column it never set: whatever follows is undefined.
JoinUnresolved ==
  /\ pc = "join" /\ at <= Len(q.on) /\ ~OnResolves
  /\ IF \E i \in DOMAIN cur : Candidates(cur[i]) # <<>>
     THEN pc' = "undefined" /\ UNCHANGED <<at, cur>>
     ELSE at' = at + 1 /\ cur' = <<>> /\ UNCHANGED pc
  /\ UNCHANGED <<db, q, out>>

Filter ==
  /\ pc = "join" /\ at > Len(q.on)
  /\ cur' = SelectSeq(cur, Wanted)
  /\ pc' = IF q.order # NoExpr THEN "sort" ELSE "limit"
  /\ UNCHANGED <<db, q, at, out>>

\* The cell comparison of join_sort_cmp and group_key_cmp.
CellCmp(a, b) ==
  IF a.null /\ b.null THEN 0 ELSE IF a.null THEN -1 ELSE IF b.null THEN 1 ELSE Compare(a, b)

\* What qsort may leave: any order in which no neighbours are the wrong way
\* round.  It promises nothing of equal rows, and a NaN equals every number.
Sorted(s, Cmp(_, _)) ==
  {p \in {[i \in DOMAIN s |-> s[f[i]]] : f \in SetToSeqs(DOMAIN s)} :
      \A i \in 1..(Len(s) - 1) : Cmp(p[i], p[i + 1]) <= 0}

OrderCell(tup) == EvalValue(q.order, q.from, RowsOf(tup))

\* Fault: a descending order reverses the numbers only.
JoinSortCmpNulls(a, b) ==
  LET x == OrderCell(a)
      y == OrderCell(b)
  IN  IF x.null \/ y.null \/ ~q.desc THEN CellCmp(x, y) ELSE -CellCmp(x, y)

\* join_sort_cmp
JoinSortCmp(a, b) ==
  LET c == CellCmp(OrderCell(a), OrderCell(b)) IN IF q.desc THEN -c ELSE c

Sort ==
  /\ pc = "sort"
  /\ cur' \in Sorted(cur, JoinSortCmp)
  /\ pc' = "limit"
  /\ UNCHANGED <<db, q, at, out>>

\* q.limit is <<>> or <<n>>; a negative limit is 0.
Limit ==
  LET n == IF q.limit # <<>> /\ q.limit[1] < 0 THEN 0 ELSE q.limit[1]
  IN  /\ pc = "limit"
      /\ cur' = IF q.limit # <<>> /\ n < Len(cur) THEN SubSeq(cur, 1, n) ELSE cur
      /\ pc' = "done"
      /\ UNCHANGED <<db, q, at, out>>

-----------------------------------------------------------------------------
(* exec_select_grouped.  Its rows are tuples of one.                       *)

Cell(tup, name) == Cells(q.from[1], tup[1])[ColNo(name)]

\* group_key_cmp: the first column that differs decides.
GroupCmp(a, b) ==
  LET c(g) == CellCmp(Cell(a, q.group[g].name), Cell(b, q.group[g].name))
      differ == {g \in DOMAIN q.group : c(g) # 0}
  IN  IF differ = {} THEN 0 ELSE c(CHOOSE g \in differ : \A h \in differ : g <= h)

\* Fault: a NULL belongs to the group before it.
GroupKeyEqualNulls(a, b) ==
  \A g \in DOMAIN q.group :
    LET x == Cell(a, q.group[g].name)
        y == Cell(b, q.group[g].name)
    IN  x.null \/ y.null \/ Compare(x, y) = 0

\* group_key_equal
GroupKeyEqual(a, b) ==
  \A g \in DOMAIN q.group :
    LET x == Cell(a, q.group[g].name)
        y == Cell(b, q.group[g].name)
    IN  x.null = y.null /\ (x.null \/ Compare(x, y) = 0)

Collect ==
  /\ pc = "start" /\ ~Rejected /\ Grouped
  /\ LET rows == Scan(q.from[1])
     IN  cur' = SelectSeq([i \in DOMAIN rows |-> <<rows[i]>>], Wanted)
  /\ pc' = IF q.group # <<>> THEN "gsort" ELSE "all"
  /\ UNCHANGED <<db, q, at, out>>

GroupSort ==
  /\ pc = "gsort"
  /\ cur' \in Sorted(cur, GroupCmp)
  /\ pc' = "group"
  /\ UNCHANGED <<db, q, at, out>>

Given(item, rows) == SelectSeq(rows, LAMBDA tup : ~Cell(tup, item.col.name).null)

\* The sum after each addition of build_group_row's loop.
Sums(item, rows) ==
  LET add(acc, tup) == Append(acc, Plus(Last(acc), Cell(tup, item.col.name).n))
  IN  FoldLeft(add, <<0>>, Given(item, rows))

\* An item's value for the rows of a group, where it is defined.
ItemValue(item, rows) ==
  LET given == Given(item, rows)
      total == Last(Sums(item, rows))
  IN  CASE item.agg = "none"  -> Cell(rows[1], item.col.name)
        [] item.agg = "count" -> Val("int", IF item.col = Star THEN Len(rows) ELSE Len(given))
        [] item.agg = "sum" ->
             LET kind == ColKind(item.col.name)
             IN  IF given = <<>> THEN Null(kind) ELSE Val(kind, total)
        [] item.agg = "avg" ->
             IF given = <<>> THEN Null("double") ELSE Val("double", Over(total, Len(given)))

\* An INT SUM is a plain +=, unlike the additions of eval_value: once it leaves
\* the width nothing is defined.
Undefined(rows) ==
  {i \in DOMAIN q.items :
     /\ q.items[i].agg = "sum" /\ ColKind(q.items[i].col.name) = "int"
     /\ ~(ToSet(Sums(q.items[i], rows)) \subseteq IntValues)}

\* build_group_row: any INT may come out of an undefined sum.
BuildGroupRow(rows) ==
  \E any \in [Undefined(rows) -> IntValues] :
    out' = Append(out, [i \in DOMAIN q.items |->
             IF i \in Undefined(rows) THEN Val("int", any[i]) ELSE ItemValue(q.items[i], rows)])

\* Without GROUP BY there is one group, of all rows, even of none.
GroupAll ==
  /\ pc = "all"
  /\ BuildGroupRow(cur)
  /\ pc' = "done"
  /\ UNCHANGED <<db, q, at, cur>>

\* The end of the group that starts at i: the first row whose key differs
\* from its first row's.
GroupEnd(i) ==
  LET differ == {j \in (i + 1)..Len(cur) : ~GroupKeyEqual(cur[i], cur[j])}
  IN  IF differ = {} THEN Len(cur) + 1 ELSE CHOOSE j \in differ : \A k \in differ : j <= k

GroupOne ==
  /\ pc = "group" /\ at <= Len(cur)
  /\ BuildGroupRow(SubSeq(cur, at, GroupEnd(at) - 1))
  /\ at' = GroupEnd(at)
  /\ UNCHANGED <<db, q, pc, cur>>

GroupsEnd ==
  /\ pc = "group" /\ at > Len(cur)
  /\ pc' = "done"
  /\ UNCHANGED <<db, q, at, cur, out>>

-----------------------------------------------------------------------------
Init ==
  /\ \E F \in Families : \E i \in F : db = i.db /\ q = i.q
  /\ pc = "start" /\ at = 1 /\ cur = <<>> /\ out = <<>>

Next ==
  \/ Reject
  \/ Base \/ Join \/ JoinUnresolved \/ Filter \/ Sort \/ Limit
  \/ Collect \/ GroupSort \/ GroupAll \/ GroupOne \/ GroupsEnd

Spec == Init /\ [][Next]_vars

-----------------------------------------------------------------------------
(* What a SELECT means.                                                    *)

Tuples == {tup \in [1..NSources -> UNION {Live(t) : t \in Table}] :
             \A s \in 1..NSources : tup[s] \in Live(q.from[s])}

\* The tuples asked for: every condition holds, read of the whole tuple.
Asked == {tup \in Tuples :
            /\ \A j \in DOMAIN q.on : EvalTri(q.on[j], q.from, RowsOf(tup)) = "true"
            /\ Wanted(tup)}

\* No index has a row twice under one hash (PkIndex has what follows if one has).
IndexesClean == \A t \in Table : IsInjective(db[t].index)

\* NULL is below every number.
Less(x, y) == ~y.null /\ (x.null \/ x.n < y.n)

Before(a, b) == IF q.desc THEN Less(OrderCell(b), OrderCell(a))
                ELSE Less(OrderCell(a), OrderCell(b))

\* The group of a tuple: its values in the grouping columns.
KeyOf(tup) == [g \in DOMAIN q.group |-> Cell(tup, q.group[g].name)]

\* An item's value for a set of tuples, its sums those of arithmetic.
Aggregate(item, S) ==
  LET num(tup) == Cell(tup, item.col.name).n
      given == {tup \in S : ~Cell(tup, item.col.name).null}
      total == MapThenSumSet(num, given)
      kind  == ColKind(item.col.name)
  IN  CASE item.agg = "none"  -> Cell(CHOOSE tup \in S : TRUE, item.col.name)
        [] item.agg = "count" -> Val("int", Cardinality(IF item.col = Star THEN S ELSE given))
        [] item.agg = "sum"   -> IF given = {} THEN Null(kind) ELSE Val(kind, total)
        [] item.agg = "avg"   -> IF given = {} THEN Null("double")
                                 ELSE Val("double", total \div Cardinality(given))

\* Some order of adding the tuples' INTs leaves the width: the positive ones
\* first, or the negative ones.
MayOverflow(item, S) ==
  LET num(tup) == Cell(tup, item.col.name).n
      given == {tup \in S : ~Cell(tup, item.col.name).null}
  IN  /\ item.agg = "sum" /\ ColKind(item.col.name) = "int"
      /\ ~(\A P \in {{tup \in given : num(tup) > 0}, {tup \in given : num(tup) < 0}} :
             MapThenSumSet(num, P) \in IntValues)

\* A result row for a set of tuples.  Of a sum that may overflow only the type
\* is asked.
RowFor(row, S) ==
  \A i \in DOMAIN q.items :
    IF MayOverflow(q.items[i], S) THEN row[i] \in {Val("int", n) : n \in IntValues}
    ELSE row[i] = Aggregate(q.items[i], S)

\* The rows of a tuple with 0 or 1 in the place of every NULL.
Completions(tup) ==
  LET rows == RowsOf(tup)
      nulls == {p \in UNION {{s} \X DOMAIN rows[s] : s \in DOMAIN tup} : rows[p[1]][p[2]].null}
  IN  {[s \in DOMAIN tup |-> [c \in DOMAIN rows[s] |->
          IF <<s, c>> \in nulls THEN Val(rows[s][c].kind, f[<<s, c>>]) ELSE rows[s][c]]]
       : f \in [nulls -> {0, 1}]}

\* The conditions of a statement that passed its checks and was executed.
Conditions ==
  IF pc # "done" THEN {} ELSE ToSet(q.on) \cup (IF q.where = NoExpr THEN {} ELSE {q.where})

-----------------------------------------------------------------------------
(* Properties.                                                             *)

\* The tuples in hand are made of live rows, one of each table joined so
\* far: what later stages read through read_column exists.
TypeOK ==
  /\ pc \in {"start", "join", "sort", "limit", "gsort", "all", "group", "done", "error", "undefined"}
  /\ at \in 1..(Len(cur) + NSources + 1)
  /\ \A i \in DOMAIN cur :
       /\ Len(cur[i]) = IF pc \in {"join", "undefined"} THEN at ELSE NSources
       /\ \A s \in DOMAIN cur[i] : cur[i][s] \in Live(q.from[s])
  /\ \A i \in DOMAIN out : DOMAIN out[i] = DOMAIN q.items

\* A SELECT without LIMIT returns the tuples asked for, no more and no fewer,
\* whether rows were found by scanning or through a key index with hash
\* collisions and stale entries, and whatever the types compared; each once,
\* unless an index has a row twice (exec_select_plain).
RowsAreThoseAsked ==
  pc = "done" /\ ~Grouped /\ q.limit = <<>> =>
    /\ ToSet(cur) = Asked
    /\ IndexesClean => IsInjective(cur)

\* With ORDER BY the rows come in order, NULL first or, descending, last; with
\* LIMIT as many come as there are and were allowed, and none was left out
\* that belongs before one that came (join_sort_cmp, exec_select_plain).
InOrderAndCut ==
  pc = "done" /\ ~Grouped =>
    /\ q.order # NoExpr =>
         \A k \in DOMAIN cur :
           /\ \A i \in 1..(k - 1) : ~Before(cur[k], cur[i])
           /\ \A tup \in Asked \ ToSet(cur) : ~Before(tup, cur[k])
    /\ q.limit # <<>> /\ IndexesClean =>
         Len(cur) = Min({Cardinality(Asked), Max({0, q.limit[1]})})

\* A grouped SELECT returns one row for each key among the rows that satisfy
\* WHERE, with the aggregates of exactly the rows of that key, NULL being a
\* key like another; without GROUP BY one row for all.  A SUM is the exact one
\* unless INTs are added beyond their width, which C leaves undefined
\* (group_key_equal, build_group_row, exec_select_grouped).
GroupsAreThoseAsked ==
  pc = "done" /\ Grouped =>
    IF q.group = <<>> THEN Len(out) = 1 /\ RowFor(out[1], Asked)
    ELSE \E keys \in SetToSeqs({KeyOf(tup) : tup \in Asked}) :
           /\ Len(out) = Len(keys)
           /\ \A i \in DOMAIN out : RowFor(out[i], {tup \in Asked : KeyOf(tup) = keys[i]})

\* Once a condition has passed infer_expr_type, every part of it evaluates, on
\* every row, to NULL or to a value of the type inferred: nobody who trusts
\* the type reads the bits of another (eval_value).
TypesHold ==
  \A e \in Conditions : \A p \in Parts(e) : \A tup \in Tuples :
    LET v == EvalValue(p, q.from, RowsOf(tup))
    IN  v.null \/ v.kind = ExprType(p, q.from)

\* A condition that comes out true or false with NULLs in its row comes out
\* the same whatever values the NULLs stand for (eval_tri, eval_comparison).
KnownDespiteNull ==
  \A e \in Conditions : \A tup \in Tuples :
    LET t == EvalTri(e, q.from, RowsOf(tup))
    IN  t # "unknown" => \A rows \in Completions(tup) : EvalTri(e, q.from, rows) = t

\* Every column reference resolves where it is evaluated: the comment in
\* eval_value says that infer_expr_type proved it.
ColumnsResolve == pc # "undefined"

=============================================================================
