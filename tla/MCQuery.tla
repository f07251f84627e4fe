------------------------------ MODULE MCQuery ------------------------------
(***************************************************************************)
(* Tables and statements for model checking Query: t(id INT key,           *)
(* v DOUBLE, b BOOL), u(m DOUBLE key, x INT) and w(x INT), with one family *)
(* of instances for each stage of a SELECT.                                *)
(***************************************************************************)
EXTENDS Query

MCColumns == [
  t |-> <<[name |-> "id", kind |-> "int"], [name |-> "v", kind |-> "double"],
          [name |-> "b", kind |-> "bool"]>>,
  u |-> <<[name |-> "m", kind |-> "double"], [name |-> "x", kind |-> "int"]>>,
  w |-> <<[name |-> "x", kind |-> "int"]>>]

MCPkCol == [t |-> 1, u |-> 1, w |-> 0]

\* 0 and 2 of one kind share a hash.
MCHash(v) == <<v.kind, v.n % 2>>

-----------------------------------------------------------------------------
(* Databases.                                                              *)

Row(live, cells) == [live |-> live, cells |-> cells]

\* Each row under its key's hash, and some entries more.
KeyEntries(rows, more) ==
  [r \in DOMAIN rows |-> [hash |-> MCHash(rows[r].cells[1]), row |-> r]] \o more

Entry(v, r) == [hash |-> MCHash(v), row |-> r]

Tab(rows, more) == [rows |-> rows, index |-> KeyEntries(rows, more), usable |-> TRUE]

OrNull(kind, S) == {Null(kind)} \cup {Val(kind, n) : n \in S}

\* t: two live rows and a dead one, whose key the second row has now.
TRows == {<<Row(TRUE, <<Val("int", 0), v1, b>>), Row(TRUE, <<Val("int", k), v2, Bool(TRUE)>>),
            Row(FALSE, <<Val("int", k), Val("double", 1), Bool(FALSE)>>)>> :
            k \in {1, 2}, v1 \in OrNull("double", {0, 1}), v2 \in OrNull("double", {1}),
            b \in {Null("bool"), Bool(FALSE)}}

\* Stale entries: none, one for a key the first row had, or its own again.
Stale == {<<>>, <<Entry(Val("int", 1), 1)>>, <<Entry(Val("int", 0), 1)>>}

URows == {<<Row(TRUE, <<Val("double", 0), x1>>), Row(TRUE, <<Val("double", k), x2>>)>> :
            k \in {1, 2}, x1 \in OrNull("int", {1}), x2 \in {Val("int", 0), Val("int", 1)}}

WTab(n) == [rows |-> [i \in 1..n |-> Row(TRUE, <<Val("int", i - 1)>>)], index |-> <<>>,
            usable |-> FALSE]

None == Tab(<<>>, <<>>)

Db(t, u, w) == [t |-> t, u |-> u, w |-> w]

-----------------------------------------------------------------------------
(* Statements.                                                             *)

Plain(from, on, where) ==
  [from |-> from, on |-> on, where |-> where, order |-> NoExpr, desc |-> FALSE,
   limit |-> <<>>, group |-> <<>>, items |-> <<>>]

I(n) == Const(Val("int", n))
D(n) == Const(Val("double", n))

Id == Col(NoTable, "id")
V  == Col("t", "v")
B  == Col(NoTable, "b")

\* Conditions on t: keys by value and by arithmetic, NULLs, the wrong type.
KeyConditions ==
  {Bin("eq", Id, e) : e \in {I(0), I(2), D(2), Const(Null("text")), Neg(I(0)), V,
                             Bin("add", I(1), I(1)), Bin("div", I(2), I(1))}}
  \cup {Bin("eq", I(2), Id), Bin("eq", Col("t", "id"), I(1)), Bin("ne", Id, I(0)),
        Bin("eq", Id, Const(Bool(TRUE)))}

OtherConditions ==
  {B, Not(B), Bin("lt", V, D(1)), Bin("eq", V, V), Bin("eq", Bin("add", Id, V), I(1)),
   Bin("ge", Bin("sub", Id, I(1)), V), Bin("gt", Bin("mul", Id, Neg(V)), I(-1)),
   Bin("le", Bin("div", Id, I(2)), Bin("mul", Id, I(2))), Const(Null("text"))}

Simple == {B, Bin("lt", V, D(1)), Bin("eq", V, V)}

TConditions ==
  KeyConditions \cup OtherConditions
  \cup {Bin(op, k, c) : op \in {"and", "or"}, k \in KeyConditions, c \in Simple}
  \cup {Not(Bin(op, c, d)) : op \in {"and", "or"}, c, d \in Simple}

Lookups ==
  {[db |-> Db(Tab(rows, more), None, WTab(0)),
    q |-> Plain(<<"t">>, <<>>, where)] :
      rows \in TRows, more \in Stale, where \in TConditions}

\* Joins of w, t and u in two orders, by key of the same type and of another.
OnTU == {Bin("eq", Col("u", "m"), V), Bin("eq", Id, Col("u", "m")),
         Bin("eq", Col("u", "m"), Bin("div", Id, I(1))), Bin("eq", Col("u", "x"), Id),
         Bin("and", Bin("lt", V, D(1)), Bin("eq", V, Col("u", "m"))),
         Bin("eq", Col("u", "m"), Col("u", "x")), Bin("or", B, Bin("eq", V, Col("u", "m")))}

Joins ==
  {[db |-> Db(Tab(rows, more), Tab(urows, <<>>), WTab(2)),
    q |-> Plain(from, <<on>>, NoExpr)] :
      rows \in {r \in TRows : r[1].cells[3].null}, more \in Stale, urows \in URows, from \in {<<"t", "u">>, <<"u", "t">>},
      on \in OnTU}

\* Three tables; x is a column of two, and some conditions are about a table
\* that is joined later.
OnLate == {Bin("eq", Col("w", "x"), Id), Bin("eq", Id, Col("u", "x")),
           Bin("eq", Col("u", "m"), V), Bin("and", B, Bin("eq", Col("u", "x"), Col("w", "x"))),
           Bin("eq", Id, Col(NoTable, "x"))}

Chains ==
  {[db |-> Db(Tab(rows, <<>>), Tab(urows, <<>>), WTab(n)),
    q |-> Plain(<<"t", "u", "w">>, <<on1, on2>>, NoExpr)] :
      rows \in TRows, urows \in {CHOOSE r \in URows : \A i \in {1, 2} : ~r[i].cells[2].null},
      n \in {0, 2}, on1, on2 \in OnLate}

\* ORDER BY and LIMIT over three rows, whose ids overflow when 1 is added to 3.
Three(S) ==
           {<<Row(TRUE, <<Val("int", 3), v1, Bool(TRUE)>>), Row(TRUE, <<Val("int", 1), v2, Bool(TRUE)>>),
            Row(TRUE, <<Val("int", -2), v3, b>>)>> :
            v1, v2, v3 \in OrNull("double", S), b \in {Null("bool"), Bool(TRUE)}}

Orders ==
  {[db |-> Db(Tab(rows, <<>>), None, WTab(0)),
    q |-> [Plain(<<"t">>, <<>>, where) EXCEPT !.order = V, !.desc = desc, !.limit = limit]] :
      rows \in Three({0, 1}), where \in {NoExpr, B}, desc \in BOOLEAN, limit \in {<<>>, <<-1>>, <<0>>, <<1>>, <<2>>}}

Item(agg, col) == [agg |-> agg, col |-> col]

Groups ==
  {[db |-> Db(Tab(rows, <<>>), None, WTab(0)),
    q |-> [Plain(<<"t">>, <<>>, where) EXCEPT !.group = group, !.items = items]] :
      rows \in Three({0, 1}),
      where \in {NoExpr, B, Bin("gt", Id, I(3))},
      group \in {<<>>, <<V>>, <<B>>, <<B, V>>, <<Col("u", "v")>>},
      items \in {<<>>, <<Item("none", V), Item("count", Star)>>,
                 <<Item("count", V), Item("sum", Id), Item("sum", V), Item("avg", Id)>>,
                 <<Item("none", B), Item("avg", V)>>, <<Item("sum", B)>>}}

\* Rows of which one may hold a NaN, as UPDATE t SET v = 0/0 leaves it.
NaNs ==
  {[db |-> Db(Tab(rows, <<>>), None, WTab(0)),
    q |-> [Plain(<<"t">>, <<>>, NoExpr) EXCEPT !.group = <<V>>,
             !.items = <<Item("none", V), Item("count", Star)>>]] : rows \in Three({0, 1, NaN})}

NaNOnly == {NaNs}

AllFamilies == {Lookups, Joins, Chains, Orders, Groups}

LateOnly == {Chains}

=============================================================================
