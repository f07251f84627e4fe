------------------------------ MODULE Parser ------------------------------
(***************************************************************************)
(* The SQL parser and printer (parser.c), from tokens to statements and    *)
(* back, and beside it the lexer.  A token is a string: a keyword or a     *)
(* symbol stands for itself, an identifier or a literal for its text.      *)
(*                                                                         *)
(* A parser is a record: the tokens, the place of the current one, whether *)
(* an error is latched, the parameters numbered so far, and how many more  *)
(* allocations its arena grants.  A function that parses returns the       *)
(* parser it leaves behind and what it read.  A latched parser passes      *)
(* through every step unchanged, which stands for the early returns.       *)
(***************************************************************************)
EXTENDS Lexer, SequencesExt

CONSTANTS
  Ident,       \* identifiers
  TypeName,    \* those among them that name a column type
  IntLit, FloatLit, StringLit,
  TooBig,      \* integer literals out of range
  Seeds,       \* beginnings of statements
  Vocabulary,  \* [first word -> the tokens that may follow a seed]
  MaxTokens,   \* [first word -> bound: tokens of a statement]
  Rooms        \* how many allocations the arena may grant

VARIABLES
  input,       \* the tokens of a statement
  room,        \* the arena's room
  result       \* what the parser makes of it

Literal == IntLit \cup FloatLit \cup StringLit \cup {"TRUE", "FALSE", "NULL"}
Compare == {"=", "!=", "<", "<=", ">", ">="}
Aggregate == {"count", "sum", "avg"}

None    == [op |-> "none"]          \* no expression
NoName  == ""                       \* a NULL name the grammar leaves out
Missing == "\\0"                    \* a name there was no memory for
Column(t, n)    == [op |-> "column", table |-> t, name |-> n]
Value(v)        == [op |-> "literal", value |-> v]
Param(i)        == [op |-> "param", index |-> i]
Unary(o, e)     == [op |-> o, operand |-> e]
Binary(o, l, r) == [op |-> o, left |-> l, right |-> r]

-----------------------------------------------------------------------------
(* The parser's own steps.                                                 *)

cur(p) == IF p.at <= Len(p.toks) THEN p.toks[p.at] ELSE "EOF"

parser_fail(p) == [p EXCEPT !.failed = TRUE]

Arrived(p) == IF cur(p) = "ERROR" THEN parser_fail(p) ELSE p

advance(p) == IF p.failed THEN p ELSE Arrived([p EXCEPT !.at = @ + 1])

parser_init(toks, n) ==
  Arrived([toks |-> toks, at |-> 1, failed |-> FALSE, params |-> 0, room |-> n])

\* One token lookahead.
peek_next(p) == cur([p EXCEPT !.at = @ + 1])

expect(p, tokens) == IF cur(p) \in tokens THEN p ELSE parser_fail(p)

\* expect and advance.
Take(p, t) == advance(expect(p, {t}))

\* An allocation whose failure is an error, and one nobody looks at: the
\* arena latches its own failure, the parser goes on with a NULL name.
Alloc(p) == IF p.room = 0 THEN parser_fail(p) ELSE [p EXCEPT !.room = @ - 1]

Name(p) ==
  LET q == expect(p, Ident)
  IN  [p |-> advance(IF q.room = 0 THEN q ELSE [q EXCEPT !.room = @ - 1]),
       e |-> IF q.room = 0 THEN Missing ELSE cur(q)]

new_expr(p, e) == [p |-> Alloc(p), e |-> e]

\* What was read, and the parenthesis that closes it.
Enclosed(read) == [p |-> Take(read.p, ")"), e |-> read.e]

parse_qualified_name(p) ==
  LET Of(first, second) == [p |-> second.p, e |-> Column(first.e, second.e)]
      Rest(first) == IF cur(first.p) # "." THEN [p |-> first.p, e |-> Column(NoName, first.e)]
                     ELSE Of(first, Name(advance(first.p)))
  IN  Rest(Name(p))

-----------------------------------------------------------------------------
(* Expressions: one function per level of precedence.                      *)

\* Fault: the first parameter has the number 0.
LiteralCountsFromZero(p) ==
  IF cur(p) = "?"
  THEN [p |-> advance([Alloc(p) EXCEPT !.params = @ + 1]), e |-> Param(p.params)]
  ELSE IF cur(p) \in Literal \ TooBig THEN [p |-> advance(Alloc(p)), e |-> Value(cur(p))]
  ELSE [p |-> parser_fail(p), e |-> None]

\* A string's text is copied too.
make_literal_from_token(p) ==
  LET q == IF cur(p) \in StringLit THEN Alloc(Alloc(p)) ELSE Alloc(p)
  IN  IF cur(p) = "?"
      THEN [p |-> advance([q EXCEPT !.params = @ + 1]), e |-> Param(p.params + 1)]
      ELSE IF cur(p) \in Literal \ TooBig THEN [p |-> advance(q), e |-> Value(cur(p))]
      ELSE [p |-> parser_fail(p), e |-> None]

\* The loops of the levels below: an operand follows at p, and op and left are
\* what was read before it; there is no op yet when a level begins.
RECURSIVE Disjuncts(_, _, _), Conjuncts(_, _, _), Terms(_, _, _), Factors(_, _, _)
NoOp == ""

parse_or(p) == Disjuncts(p, NoOp, None)

parse_primary(p) ==
  CASE p.failed          -> [p |-> p, e |-> None]
    [] cur(p) \in Ident  -> parse_qualified_name(Alloc(p))
    [] cur(p) = "("      -> Enclosed(parse_or(advance(p)))
    [] OTHER             -> make_literal_from_token(p)

new_binary(left, op, right) == new_expr(right.p, Binary(op, left, right.e))

Prefixed(op, read) == new_expr(read.p, Unary(op, read.e))

RECURSIVE parse_unary(_)
parse_unary(p) ==
  IF ~p.failed /\ cur(p) = "-" THEN Prefixed("-", parse_unary(advance(p))) ELSE parse_primary(p)

Joined(left, op, right) == IF op = NoOp THEN right ELSE new_binary(left, op, right)

\* An operator of this level comes next.
Goes(read, ops) == ~read.p.failed /\ cur(read.p) \in ops

Factors(p, op, left) ==
  LET More(read) == IF Goes(read, {"*", "/"})
                    THEN Factors(advance(read.p), cur(read.p), read.e) ELSE read
  IN  More(Joined(left, op, parse_unary(p)))

parse_term(p) == Factors(p, NoOp, None)

Terms(p, op, left) ==
  LET More(read) == IF Goes(read, {"+", "-"})
                    THEN Terms(advance(read.p), cur(read.p), read.e) ELSE read
  IN  More(Joined(left, op, parse_term(p)))

parse_arith(p) == Terms(p, NoOp, None)

\* Comparisons do not chain.
Compared(left) ==
  IF Goes(left, Compare) THEN new_binary(left.e, cur(left.p), parse_arith(advance(left.p))) ELSE left

\* Fault: a comparison may be compared again.
ComparisonChains(p) == Compared(Compared(parse_arith(p)))

parse_comparison(p) == Compared(parse_arith(p))

RECURSIVE parse_not(_)
parse_not(p) ==
  IF ~p.failed /\ cur(p) = "NOT" THEN Prefixed("NOT", parse_not(advance(p))) ELSE parse_comparison(p)

Conjuncts(p, op, left) ==
  LET More(read) == IF Goes(read, {"AND"}) THEN Conjuncts(advance(read.p), "AND", read.e) ELSE read
  IN  More(Joined(left, op, parse_not(p)))

parse_and(p) == Conjuncts(p, NoOp, None)

Disjuncts(p, op, left) ==
  LET More(read) == IF Goes(read, {"OR"}) THEN Disjuncts(advance(read.p), "OR", read.e) ELSE read
  IN  More(Joined(left, op, parse_and(p)))

-----------------------------------------------------------------------------
(* Statements.                                                             *)

\* A statement that grows by a field with every clause: x is the parser and the
\* statement so far, read the clause.
With(x, field, read) == [p |-> read.p, e |-> (field :> read.e) @@ x.e]

Statement(p, kind) == [p |-> p, e |-> [kind |-> kind]]

\* The table's name behind these words.
TableAfter(p, kind, words) == With(Statement(p, kind), "table", Name(FoldLeft(Take, p, words)))

\* [WHERE e]
Where(p) ==
  IF ~p.failed /\ cur(p) = "WHERE" THEN parse_or(advance(p)) ELSE [p |-> p, e |-> None]

WithWhere(x) == With(x, "where", Where(x.p))

Item(agg, c) == [agg |-> agg, table |-> c.table, name |-> c.name]

parse_select_item(p) ==
  LET q    == expect(p, Ident)
      plain == parse_qualified_name(q)
      args == advance(advance(q))
      Of(arg) == [p |-> arg.p, e |-> Item(cur(q), arg.e)]
  IN  IF q.failed \/ peek_next(q) # "(" THEN [p |-> plain.p, e |-> Item(NoName, plain.e)]
      ELSE IF cur(q) \notin Aggregate \/ (cur(args) = "*" /\ cur(q) # "count")
      THEN [p |-> parser_fail(q), e |-> None]
      ELSE IF cur(args) = "*"
      THEN Enclosed([p |-> advance(args), e |-> Item("count", Column(NoName, "*"))])
      ELSE Enclosed(Of(parse_qualified_name(args)))

parse_fk_action(p) ==
  CASE cur(p) \in {"CASCADE", "RESTRICT"} -> [p |-> advance(p), e |-> cur(p)]
    [] cur(p) = "SET" -> [p |-> Take(advance(p), "NULL"), e |-> "SET NULL"]
    [] OTHER -> [p |-> parser_fail(p), e |-> NoName]

\* (ON DELETE action | ON UPDATE action)*: a repeated clause replaces the first.
RECURSIVE OnClauses(_, _)
OnClauses(p, def) ==
  LET on  == advance(p)
      act == parse_fk_action(advance(on))
  IN  IF p.failed \/ cur(p) # "ON" THEN [p |-> p, e |-> def]
      ELSE IF cur(on) = "DELETE" THEN OnClauses(act.p, [def EXCEPT !.on_delete = act.e])
      ELSE IF cur(on) = "UPDATE" THEN OnClauses(act.p, [def EXCEPT !.on_update = act.e])
      ELSE [p |-> parser_fail(on), e |-> def]

\* [REFERENCES table ( column ) on clauses]
References(p, def) ==
  LET table  == Name(advance(p))
      column == Name(Take(table.p, "("))
  IN  IF p.failed \/ cur(p) # "REFERENCES" THEN [p |-> p, e |-> def]
      ELSE OnClauses(Take(column.p, ")"),
                     [def EXCEPT !.fk_table = table.e, !.fk_column = column.e])

parse_column_def(p) ==
  LET name == Name(p)
      type == expect(name.p, TypeName)
      next == advance(type)
      key  == cur(next) = "PRIMARY"
  IN  References(IF key THEN Take(advance(next), "KEY") ELSE next,
                 [name |-> name.e, type |-> cur(type), primary |-> key,
                  fk_table |-> NoName, fk_column |-> NoName,
                  on_delete |-> NoName, on_update |-> NoName])

Assignment(p) ==
  LET name   == Name(p)
      Of(e)  == [p |-> e.p, e |-> [column |-> name.e, value |-> e.e]]
  IN  Of(parse_or(Take(name.p, "=")))

\* Lists: the elements read so far, doubling their memory when it is full.
RECURSIVE List(_, _, _)

parse_value_row(p) == Enclosed(List(Alloc(Take(p, "(")), "value", <<>>))

Element(p, kind) ==
  CASE kind = "item"   -> parse_select_item(p)
    [] kind = "group"  -> parse_qualified_name(p)
    [] kind = "value"  -> parse_or(p)
    [] kind = "row"    -> parse_value_row(p)
    [] kind = "name"   -> Name(p)
    [] kind = "assign" -> Assignment(p)
    [] kind = "def"    -> parse_column_def(p)

List(p, kind, read) ==
  LET Room(x) == IF Len(read) \in {4, 8} THEN Alloc(x.p) ELSE x.p
      More(q, all) == IF q.failed \/ cur(q) # "," THEN [p |-> q, e |-> all]
                      ELSE List(advance(q), kind, all)
      Then(x) == More(Room(x), Append(read, x.e))
  IN  Then(Element(p, kind))

parse_column_list(p) ==
  IF cur(p) = "*" THEN [p |-> advance(p), e |-> <<>>] ELSE List(Alloc(p), "item", <<>>)

RECURSIVE parse_joins(_, _)
parse_joins(p, read) ==
  LET q     == IF cur(p) = "INNER" THEN advance(p) ELSE p
      table == Name(Take(q, "JOIN"))
      Then(on) == parse_joins(IF Len(read) \in {0, 4} THEN Alloc(on.p) ELSE on.p,
                              Append(read, [table |-> table.e, on |-> on.e]))
  IN  IF p.failed \/ cur(p) \notin {"INNER", "JOIN"} THEN [p |-> p, e |-> read]
      ELSE Then(parse_or(Take(table.p, "ON")))

GroupBy(p) ==
  IF p.failed \/ cur(p) # "GROUP" THEN [p |-> p, e |-> <<>>]
  ELSE List(Alloc(Alloc(Take(advance(p), "BY"))), "group", <<>>)

\* Fault: DESC is read and forgotten.
OrderAscending(p) ==
  LET c == parse_qualified_name(expect(Take(advance(p), "BY"), Ident))
  IN  [p |-> IF p.failed \/ cur(p) # "ORDER" THEN p
             ELSE IF cur(c.p) \in {"ASC", "DESC"} THEN advance(c.p) ELSE c.p,
       e |-> [column |-> IF p.failed \/ cur(p) # "ORDER" THEN None ELSE c.e, desc |-> FALSE]]

OrderBy(p) ==
  LET c == parse_qualified_name(expect(Take(advance(p), "BY"), Ident))
  IN  IF p.failed \/ cur(p) # "ORDER"
      THEN [p |-> p, e |-> [column |-> None, desc |-> FALSE]]
      ELSE [p |-> IF cur(c.p) \in {"ASC", "DESC"} THEN advance(c.p) ELSE c.p,
            e |-> [column |-> c.e, desc |-> cur(c.p) = "DESC"]]

Limit(p) ==
  LET n == expect(advance(p), IntLit \ TooBig)
  IN  IF p.failed \/ cur(p) # "LIMIT" THEN [p |-> p, e |-> NoName] ELSE [p |-> advance(n), e |-> cur(n)]

parser_parse_select(p) ==
  LET Items(x) == With(x, "items", parse_column_list(Take(x.p, "SELECT")))
      Table(x) == With(x, "table", Name(Take(x.p, "FROM")))
      Joins(x) == With(x, "joins", parse_joins(x.p, <<>>))
      Group(x) == With(x, "group", GroupBy(x.p))
      Order(x) == With(x, "order", OrderBy(x.p))
      Limited(x) == With(x, "limit", Limit(x.p))
  IN  Limited(Order(Group(WithWhere(Joins(Table(Items(Statement(Alloc(p), "SELECT"))))))))

parse_insert_stmt(p) ==
  LET Names(q) == IF cur(q) = "(" THEN Enclosed(List(Alloc(advance(q)), "name", <<>>))
                  ELSE [p |-> q, e |-> <<>>]
      Columns(x) == With(x, "columns", Names(x.p))
      Rows(x)    == With(x, "rows", List(Alloc(Take(x.p, "VALUES")), "row", <<>>))
  IN  Rows(Columns(TableAfter(p, "INSERT", <<"INSERT", "INTO">>)))

parse_update_stmt(p) ==
  LET Sets(x) == With(x, "sets", List(Alloc(Take(x.p, "SET")), "assign", <<>>))
  IN  WithWhere(Sets(TableAfter(p, "UPDATE", <<"UPDATE">>)))

parse_delete_stmt(p) == WithWhere(TableAfter(p, "DELETE", <<"DELETE", "FROM">>))

parse_create_table_stmt(p) ==
  LET Columns(x) == With(x, "columns", Enclosed(List(Alloc(Take(x.p, "(")), "def", <<>>)))
  IN  Columns(TableAfter(p, "CREATE", <<"CREATE", "TABLE">>))

Short(p) ==
  LET q == advance(p)
  IN  [p |-> IF cur(p) = "BEGIN" /\ cur(q) = "TRANSACTION" THEN advance(q) ELSE q,
       e |-> [kind |-> cur(p)]]

\* Every statement ends the input, but for one semicolon.
parser_parse_statement(p) ==
  LET End(read) == expect(IF cur(read.p) = ";" THEN advance(read.p) ELSE read.p, {"EOF"})
      Answer(stmt, end) ==
        IF end.failed THEN [ok |-> FALSE, at |-> end.at]
                      ELSE [ok |-> TRUE, at |-> end.at, stmt |-> stmt, params |-> end.params]
      Whole(read) == Answer(read.e, End(read))
  IN  Whole(CASE cur(p) = "SELECT" -> parser_parse_select(p)
              [] cur(p) = "INSERT" -> parse_insert_stmt(p)
              [] cur(p) = "UPDATE" -> parse_update_stmt(p)
              [] cur(p) = "DELETE" -> parse_delete_stmt(p)
              [] cur(p) = "CREATE" -> parse_create_table_stmt(p)
              [] cur(p) \in {"BEGIN", "COMMIT", "ROLLBACK"} -> Short(p)
              [] OTHER -> [p |-> parser_fail(p), e |-> None])

Parse(toks, n) == parser_parse_statement(Alloc(parser_init(toks, n)))

-----------------------------------------------------------------------------
(* The printer (.parse), as the tokens its text is read as.  It puts       *)
(* parentheses around every operator; paren says whether they are wanted.  *)

\* %g drops digits and writes large numbers with an exponent, and quotes in a
\* literal are not doubled: those two kinds are not read back as one token.
Unfaithful == {"1000000.0", "'it''s'"}

Printed(v) == CASE v = "1000000.0" -> <<"1", "e", "+", "6">>
                [] v = "'it''s'"   -> <<"'it'", "s", "ERROR">>
                [] OTHER           -> <<v>>

print_qualified(c) == IF c.table = NoName THEN <<c.name>> ELSE <<c.table, ".", c.name>>

\* Fault: operators are printed without parentheses.
NoParens(paren, s) == s

Parens(paren, s) == IF paren THEN <<"(">> \o s \o <<")">> ELSE s

RECURSIVE print_expr(_, _)
print_expr(e, paren) ==
  CASE e.op = "none"    -> <<>>
    [] e.op = "column"  -> print_qualified(e)
    [] e.op = "literal" -> IF paren THEN Printed(e.value) ELSE <<e.value>>
    [] e.op = "param"   -> <<"?">>
    [] "operand" \in DOMAIN e -> Parens(paren, <<e.op>> \o print_expr(e.operand, paren))
    [] "left" \in DOMAIN e ->
         Parens(paren, print_expr(e.left, paren) \o <<e.op>> \o print_expr(e.right, paren))

Commas(ss) == FlattenSeq([i \in DOMAIN ss |-> IF i = 1 THEN ss[i] ELSE <<",">> \o ss[i]])

print_select_item(x) ==
  IF x.agg = NoName THEN print_qualified(x) ELSE <<x.agg, "(">> \o print_qualified(x) \o <<")">>

\* A clause that may be missing.
Clause(words, s) == IF s = <<>> THEN <<>> ELSE words \o s

select_stmt_print(s, paren) ==
  <<"SELECT">> \o (IF s.items = <<>> THEN <<"*">>
                   ELSE Commas([i \in DOMAIN s.items |-> print_select_item(s.items[i])]))
  \o <<"FROM", s.table>>
  \o FlattenSeq([i \in DOMAIN s.joins |->
       <<"INNER", "JOIN", s.joins[i].table, "ON">> \o print_expr(s.joins[i].on, paren)])
  \o Clause(<<"WHERE">>, print_expr(s.where, paren))
  \o Clause(<<"GROUP", "BY">>, Commas([i \in DOMAIN s.group |-> print_qualified(s.group[i])]))
  \o (IF s.order.column = None THEN <<>>
      ELSE <<"ORDER", "BY">> \o print_qualified(s.order.column)
           \o <<IF s.order.desc THEN "DESC" ELSE "ASC">>)
  \o (IF s.limit = NoName THEN <<>> ELSE <<"LIMIT", s.limit>>)

fk_action_label(a) == IF a = "SET NULL" THEN <<"SET", "NULL">> ELSE IF a = NoName THEN <<>> ELSE <<a>>

print_column_def(c) ==
  <<c.name, c.type>> \o (IF c.primary THEN <<"PRIMARY", "KEY">> ELSE <<>>)
  \o (IF c.fk_table = NoName THEN <<>>
      ELSE <<"REFERENCES", c.fk_table, "(", c.fk_column, ")">>
           \o Clause(<<"ON", "DELETE">>, fk_action_label(c.on_delete))
           \o Clause(<<"ON", "UPDATE">>, fk_action_label(c.on_update)))

stmt_print(s, paren) ==
  CASE s.kind = "SELECT" -> select_stmt_print(s, paren)
    [] s.kind = "INSERT" ->
         <<"INSERT", "INTO", s.table>>
         \o (IF s.columns = <<>> THEN <<>>
             ELSE <<"(">> \o Commas([i \in DOMAIN s.columns |-> <<s.columns[i]>>]) \o <<")">>)
         \o <<"VALUES">>
         \o Commas([i \in DOMAIN s.rows |->
              <<"(">> \o Commas([j \in DOMAIN s.rows[i] |-> print_expr(s.rows[i][j], paren)])
              \o <<")">>])
    [] s.kind = "UPDATE" ->
         <<"UPDATE", s.table, "SET">>
         \o Commas([i \in DOMAIN s.sets |->
              <<s.sets[i].column, "=">> \o print_expr(s.sets[i].value, paren)])
         \o Clause(<<"WHERE">>, print_expr(s.where, paren))
    [] s.kind = "DELETE" ->
         <<"DELETE", "FROM", s.table>> \o Clause(<<"WHERE">>, print_expr(s.where, paren))
    [] s.kind = "CREATE" ->
         <<"CREATE", "TABLE", s.table, "(">>
         \o Commas([i \in DOMAIN s.columns |-> print_column_def(s.columns[i])]) \o <<")">>
    [] OTHER -> <<s.kind>>

-----------------------------------------------------------------------------
(* A text is typed, or a statement is put together token by token.         *)

vars == <<text, input, room, result>>

Init ==
  /\ text = <<>> /\ input \in Seeds \cup {<<>>} /\ room \in Rooms
  /\ result = Parse(input, room)

\* More tokens mend a statement that is complete or ends too early, no other.
Unfinished == result.ok \/ result.at > Len(input)

TypeText(c) == input = <<>> /\ Type(c) /\ UNCHANGED <<input, room, result>>

Extend(t) ==
  /\ text = <<>> /\ input # <<>>
  /\ t \in Vocabulary[input[1]] /\ Len(input) < MaxTokens[input[1]]
  /\ Unfinished
  /\ input' = Append(input, t) /\ result' = Parse(input', room)
  /\ UNCHANGED <<text, room>>

Next == \/ \E c \in Char : TypeText(c)
        \/ \E t \in UNION Range(Vocabulary) : Extend(t)

Spec == Init /\ [][Next]_vars

-----------------------------------------------------------------------------
(* The grammar of expressions: every tree a sequence of tokens can be      *)
(* derived as.  The levels are those of the functions above, loosest       *)
(* first; k question marks lie before the sequence.                        *)

Infix  == <<{"OR"}, {"AND"}, {}, Compare, {"+", "-"}, {"*", "/"}, {}>>
Prefix == <<{}, {}, {"NOT"}, {}, {}, {}, {"-"}>>
Chains == {1, 2, 5, 6}   \* a comparison's operands are not comparisons

Questions(s) == Len(SelectSeq(s, LAMBDA t : t = "?"))

RECURSIVE Trees(_, _, _)
Trees(s, level, k) ==
  IF s = <<>> THEN {}
  ELSE IF level = 8
  THEN {Column(NoName, n) : n \in {m \in Ident : s = <<m>>}}
       \cup {Column(c[1], c[2]) : c \in {d \in Ident \X Ident : s = <<d[1], ".", d[2]>>}}
       \cup {Value(v) : v \in {w \in Literal \ TooBig : s = <<w>>}}
       \cup (IF s = <<"?">> THEN {Param(k + 1)} ELSE {})
       \cup (IF s[1] = "(" /\ s[Len(s)] = ")" THEN Trees(SubSeq(s, 2, Len(s) - 1), 1, k) ELSE {})
  ELSE Trees(s, level + 1, k)
       \cup (IF s[1] \in Prefix[level]
             THEN {Unary(s[1], e) : e \in Trees(Tail(s), level, k)} ELSE {})
       \cup UNION {{Binary(s[i], l, r) :
              l \in Trees(SubSeq(s, 1, i - 1), IF level \in Chains THEN level ELSE level + 1, k),
              r \in Trees(SubSeq(s, i + 1, Len(s)), level + 1, k + Questions(SubSeq(s, 1, i)))}
            : i \in {j \in 2..(Len(s) - 1) : s[j] \in Infix[level]}}

-----------------------------------------------------------------------------
(* Properties.                                                             *)

Without(s, tokens) == SelectSeq(s, LAMBDA t : t \notin tokens)

\* The condition of a DELETE, and the statement without it.
Condition ==
  LET n == Len(input)
  IN  SubSeq(input, 5, IF input[n] = ";" THEN n - 1 ELSE n)

\* Exactly the expressions of the grammar are accepted, and each is read as
\* the one tree the precedences allow, its parameters numbered from left to
\* right (parse_or down to parse_primary; parser.c:226, 283).
WhereAsGrammar ==
  (Len(input) > 4 /\ SubSeq(input, 1, 4) = <<"DELETE", "FROM", "t", "WHERE">>) =>
    Trees(Condition, 1, 0) = IF result.ok THEN {result.stmt.where} ELSE {}

\* No column has an ON clause after an ON UPDATE or a second ON DELETE: of
\* repeated clauses the last one wins, and the printer has its own order.
OnInOrder ==
  \A i, j \in 1..(Len(input) - 1) :
    (i < j /\ input[i] = "ON" /\ input[j] = "ON" /\ input[1] = "CREATE") =>
      \/ \E k \in i..j : input[k] = ","
      \/ input[i + 1] = "DELETE" /\ input[j + 1] = "UPDATE"

RECURSIVE Indexes(_)
Indexes(e) ==
  CASE e.op = "param" -> <<e.index>>
    [] "operand" \in DOMAIN e -> Indexes(e.operand)
    [] "left" \in DOMAIN e -> Indexes(e.left) \o Indexes(e.right)
    [] OTHER -> <<>>

AllIndexes(s) ==
  CASE s.kind = "SELECT" -> FlattenSeq([i \in DOMAIN s.joins |-> Indexes(s.joins[i].on)])
                            \o Indexes(s.where)
    [] s.kind = "INSERT" -> FlattenSeq([i \in DOMAIN s.rows |->
                              FlattenSeq([j \in DOMAIN s.rows[i] |-> Indexes(s.rows[i][j])])])
    [] s.kind = "UPDATE" -> FlattenSeq([i \in DOMAIN s.sets |-> Indexes(s.sets[i].value)])
                            \o Indexes(s.where)
    [] s.kind = "DELETE" -> Indexes(s.where)
    [] OTHER -> <<>>

TokensKept ==
  LET filler  == {"INNER", "ASC", "TRANSACTION", ";"}
      written == Without(input, filler)
      printed == Without(stmt_print(result.stmt, FALSE), filler)
  IN  IF Len(written) = Len(printed) THEN written = printed
      ELSE Without(written, {"(", ")"}) = Without(printed, {"(", ")"})

ParamsInOrder ==
  /\ AllIndexes(result.stmt) = [i \in 1..result.params |-> i]
  /\ result.params = Questions(input)

\* An accepted statement holds all of its text, in its order, and nothing
\* else: no token is skipped, repeated or taken for another clause.  Words
\* that mean nothing are left out, and so are parentheses if the expressions
\* have some.  Its parameters are numbered 1, 2, ... in the order of the text,
\* over all its clauses, and the statement knows how many there are: what
\* db4_bind_* relies on (parser_parse_statement; db4.h:58).
NothingSkipped ==
  (input # <<>> /\ result.ok) => ParamsInOrder /\ (OnInOrder => TokensKept)

\* What .parse prints is read back as the same statement, unless it has a
\* parameter or a literal that is not printed as it is read (stmt_print).
PrintsBack ==
  (input # <<>> /\ result.ok /\ ~ \E i \in DOMAIN input : input[i] \in Unfaithful \cup {"?"}) =>
    \E again \in {Parse(stmt_print(result.stmt, TRUE), room)} :
      again.ok /\ again.stmt = result.stmt

\* A parse fails or builds the whole statement, wherever the memory runs out
\* (parser.h:11).
WholeOrRefused ==
  (input # <<>> /\ result.ok) => result = Parse(input, 1000)
=============================================================================
