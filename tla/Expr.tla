-------------------------------- MODULE Expr --------------------------------
(***************************************************************************)
(* Expressions: infer_expr_type, which checks a clause once before any row *)
(* is read, and eval_tri / eval_value, which evaluate it on rows, with     *)
(* three-valued logic (interp.c).  A literal and a bound parameter are     *)
(* both a "const" with its value.                                          *)
(*                                                                         *)
(* Numbers stand for both INT and DOUBLE.  An INT has Bits bits and wraps  *)
(* in an expression; a DOUBLE is an integer, an infinity or NaN, and a     *)
(* quotient is rounded down, since no property tells fractions apart.      *)
(* TEXT and BOOL values are numbers of another kind.                       *)
(***************************************************************************)
EXTENDS Integers, Sequences, FiniteSets

CONSTANTS
  Columns, \* [table name -> sequence of [name, kind]]
  Bits,    \* width of an INT
  Inf,     \* a number above every finite DOUBLE in use: infinity
  NaN      \* a number that is no DOUBLE in use

ASSUME ExprAssumption == Bits \in Nat \ {0} /\ Inf \in Nat /\ NaN \in Nat /\ NaN > Inf

Table == DOMAIN Columns

Kind == {"int", "double", "bool", "text"}
Numeric == {"int", "double"}
Arith == {"add", "sub", "mul", "div"}
Comparison == {"eq", "ne", "lt", "le", "gt", "ge"}

-----------------------------------------------------------------------------
(* Values.                                                                 *)

Val(kind, n) == [kind |-> kind, null |-> FALSE, n |-> n]
Null(kind)   == [kind |-> kind, null |-> TRUE, n |-> 0]

Bool(b) == Val("bool", IF b THEN 1 ELSE 0)

\* The values of an int64_t.
IntValues == -(2 ^ (Bits - 1))..(2 ^ (Bits - 1) - 1)

\* The int64_t that a uint64_t result is converted to.
Wrap(n) == LET h == 2 ^ (Bits - 1) IN ((n + h) % (2 * h)) - h

Finite(x) == -Inf < x /\ x < Inf

Infinity(sign) == IF sign THEN Inf ELSE -Inf

\* IEEE addition, multiplication and division.
Plus(x, y) ==
  IF NaN \in {x, y} THEN NaN
  ELSE IF ~Finite(x) THEN (IF y = -x THEN NaN ELSE x)
  ELSE IF ~Finite(y) THEN y ELSE x + y

Minus(x) == IF x = NaN THEN NaN ELSE -x

Times(x, y) ==
  IF NaN \in {x, y} THEN NaN
  ELSE IF Finite(x) /\ Finite(y) THEN x * y
  ELSE IF 0 \in {x, y} THEN NaN ELSE Infinity((x > 0) = (y > 0))

Over(x, y) ==
  IF NaN \in {x, y} \/ (x = 0 /\ y = 0) \/ (~Finite(x) /\ ~Finite(y)) THEN NaN
  ELSE IF ~Finite(y) THEN 0
  ELSE IF Finite(x) /\ y # 0 THEN x \div y ELSE Infinity((x > 0) = (y >= 0))

\* compare_values on two values of comparable kinds.  A NaN is neither below
\* nor above any number.
Compare(a, b) ==
  IF NaN \in {a.n, b.n} \/ a.n = b.n THEN 0 ELSE IF a.n < b.n THEN -1 ELSE 1

-----------------------------------------------------------------------------
(* Expressions and the columns they name.                                  *)

NoTable == ""

Const(v)       == [op |-> "const", val |-> v]
Col(t, c)      == [op |-> "col", table |-> t, name |-> c]
Not(e)         == [op |-> "not", a |-> e]
Neg(e)         == [op |-> "neg", a |-> e]
Bin(op, a, b)  == [op |-> op, a |-> a, b |-> b]

Unary(e)  == e.op \in {"not", "neg"}
Binary(e) == e.op \notin {"const", "col", "not", "neg"}

\* The parts of an expression, itself included.
RECURSIVE Parts(_)
Parts(e) ==
  {e} \cup (IF Unary(e) THEN Parts(e.a)
            ELSE IF Binary(e) THEN Parts(e.a) \cup Parts(e.b) ELSE {})

\* expr_has_column_ref
HasColumn(e) == \E p \in Parts(e) : p.op = "col"

\* resolve_column: the <<source, column>> pairs a reference can mean when
\* the sources are the tables of names; it resolves when there is one.
Meanings(col, names) ==
  {<<s, c>> \in UNION {{s} \X (1..Len(Columns[names[s]])) : s \in DOMAIN names} :
      /\ col.table \in {NoTable, names[s]}
      /\ Columns[names[s]][c].name = col.name}

Resolves(col, names) == Cardinality(Meanings(col, names)) = 1
Meaning(col, names)  == CHOOSE m \in Meanings(col, names) : TRUE

AllResolve(e, names) == \A p \in Parts(e) : p.op = "col" => Resolves(p, names)

-----------------------------------------------------------------------------
(* infer_expr_type: a kind, "null", or "error".                            *)

Boolean(ty) == ty \in {"bool", "null"}

\* The type of l op r from the types of its operands.
BinaryType(op, l, r) ==
  CASE op \in {"and", "or"} -> IF Boolean(l) /\ Boolean(r) THEN "bool" ELSE "error"
    [] op \in Arith -> IF ~({l, r} \subseteq Numeric \cup {"null"}) THEN "error"
                       ELSE IF "null" \in {l, r} THEN "null"
                       ELSE IF op = "div" \/ "double" \in {l, r} THEN "double" ELSE "int"
    [] op \in Comparison -> IF \/ "null" \in {l, r} \/ l = r
                               \/ {l, r} \subseteq Numeric
                            THEN "bool" ELSE "error"

RECURSIVE ExprType(_, _)
ExprType(e, names) ==
  CASE e.op = "col"   -> IF ~Resolves(e, names) THEN "error"
                         ELSE LET m == Meaning(e, names) IN Columns[names[m[1]]][m[2]].kind
    [] e.op = "const" -> IF e.val.null THEN "null" ELSE e.val.kind
    [] e.op = "not"   -> IF Boolean(ExprType(e.a, names)) THEN "bool" ELSE "error"
    [] e.op = "neg"   -> LET ty == ExprType(e.a, names)
                         IN  IF ty \in Numeric \cup {"null"} THEN ty ELSE "error"
    [] OTHER -> LET l == ExprType(e.a, names)
                    r == ExprType(e.b, names)
                IN  IF "error" \in {l, r} THEN "error" ELSE BinaryType(e.op, l, r)

\* validate_where, and the same check of an ON clause.
IsCondition(e, names) == Boolean(ExprType(e, names))

-----------------------------------------------------------------------------
(* eval_tri and eval_value.  rows[s] is the row of source s, a sequence of *)
(* its values; every column resolves.                                      *)

\* value_to_tri
ToTri(v) == IF v.null THEN "unknown" ELSE IF v.n # 0 THEN "true" ELSE "false"

\* A Tri as a BOOL value.
FromTri(t) == IF t = "unknown" THEN Null("bool") ELSE Bool(t = "true")

Holds(op, c) ==
  CASE op = "eq" -> c = 0 [] op = "ne" -> c # 0 [] op = "lt" -> c < 0
    [] op = "le" -> c <= 0 [] op = "gt" -> c > 0 [] op = "ge" -> c >= 0

\* Fault: only a NULL on the left makes a comparison unknown.
CompareHalf(op, l, r) ==
  IF l.null THEN "unknown" ELSE IF Holds(op, Compare(l, r)) THEN "true" ELSE "false"

\* eval_comparison
EvalComparison(op, l, r) ==
  IF l.null \/ r.null THEN "unknown"
  ELSE IF Holds(op, Compare(l, r)) THEN "true" ELSE "false"

\* Fault: an INT on the left makes the result an INT.
ArithmeticOfLeft(op, l, r) ==
  IF l.null \/ r.null THEN Null("double") ELSE Val(l.kind, Wrap(l.n + r.n))

\* The arithmetic cases of eval_value.
Arithmetic(op, l, r) ==
  LET real == CASE op = "add" -> Plus(l.n, r.n) [] op = "sub" -> Plus(l.n, Minus(r.n))
                [] op = "mul" -> Times(l.n, r.n) [] op = "div" -> Over(l.n, r.n)
      whole == CASE op = "add" -> l.n + r.n [] op = "sub" -> l.n - r.n
                 [] op = "mul" -> l.n * r.n
  IN  IF l.null \/ r.null THEN Null("double")
      ELSE IF op = "div" \/ "double" \in {l.kind, r.kind} THEN Val("double", real)
      ELSE Val("int", Wrap(whole))

\* Fault: unknown taken for true.
AndHopeful(l, r) == IF "false" \in {l, r} THEN "false" ELSE "true"

\* AND and OR of eval_tri; both sides are always evaluated.
And(l, r) == IF "false" \in {l, r} THEN "false"
             ELSE IF "unknown" \in {l, r} THEN "unknown" ELSE "true"

Or(l, r)  == IF "true" \in {l, r} THEN "true"
             ELSE IF "unknown" \in {l, r} THEN "unknown" ELSE "false"

RECURSIVE EvalTri(_, _, _), EvalValue(_, _, _)

EvalTri(e, names, rows) ==
  CASE e.op = "not" -> LET t == EvalTri(e.a, names, rows)
                       IN  IF t = "unknown" THEN t ELSE IF t = "true" THEN "false" ELSE "true"
    [] e.op = "and" -> And(EvalTri(e.a, names, rows), EvalTri(e.b, names, rows))
    [] e.op = "or"  -> Or(EvalTri(e.a, names, rows), EvalTri(e.b, names, rows))
    [] e.op \in Comparison ->
         EvalComparison(e.op, EvalValue(e.a, names, rows), EvalValue(e.b, names, rows))
    [] OTHER -> ToTri(EvalValue(e, names, rows))

EvalValue(e, names, rows) ==
  CASE e.op = "col"   -> LET m == Meaning(e, names) IN rows[m[1]][m[2]]
    [] e.op = "const" -> e.val
    [] e.op = "neg"   -> LET v == EvalValue(e.a, names, rows)
                         IN  IF v.null THEN v
                             ELSE IF v.kind = "int" THEN Val("int", Wrap(-v.n))
                             ELSE Val("double", Minus(v.n))
    [] e.op \in Arith -> Arithmetic(e.op, EvalValue(e.a, names, rows), EvalValue(e.b, names, rows))
    [] OTHER -> FromTri(EvalTri(e, names, rows))

=============================================================================
