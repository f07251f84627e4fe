-------------------------------- MODULE Csv --------------------------------
(***************************************************************************)
(* The CSV reader (csv.c), the writer of a base file (load.c) and the      *)
(* field types (field.c), over the body of a file: what follows the        *)
(* header.  A symbol is a character, or a word the reader never splits     *)
(* ("true", "inf", "zero" for a zero byte).  A cell that is not NULL is    *)
(* the text of its value in normal form, for the writer prints INTs and    *)
(* finite DOUBLEs so that they are read back as the same number.  Signs,   *)
(* exponents and INTs beyond 64 bits are left out, and so is running out   *)
(* of memory.                                                              *)
(***************************************************************************)
EXTENDS Integers, SequencesExt

CONSTANTS
  NULL,
  NCols,     \* the fields of the header
  MaxField   \* CSV_MAX_FIELD_LEN

ASSUME CsvAssumption == NCols \in Nat \ {0} /\ MaxField \in Nat

Quote == "\""
LineEnd == {"\r", "\n"}

At(D, p) == IF p <= Len(D) THEN D[p] ELSE "EOF"

\* Fault for the mutants: a quoted line feed is read without being counted.
PastUncounted(D, r) == [pos |-> r.pos + 1, line |-> r.line]

\* A reader is a position and the line it is on; Past moves it over one symbol,
\* counting what the code counts: line feeds inside quotes, or PastLine outside.
Past(D, r) == [pos |-> r.pos + 1, line |-> r.line + (IF At(D, r.pos) = "\n" THEN 1 ELSE 0)]

PastLine(D, r) ==
  [pos  |-> r.pos + (IF At(D, r.pos) = "\r" /\ At(D, r.pos + 1) = "\n" THEN 2 ELSE 1),
   line |-> r.line + 1]

\* resync_to_next_row: skip the rest of a row that cannot be read.
RECURSIVE resync_to_next_row(_, _, _)
resync_to_next_row(D, r, inQuotes) ==
  LET c == At(D, r.pos) IN
  IF c = "EOF" THEN r
  ELSE IF c = Quote THEN resync_to_next_row(D, Past(D, r), ~inQuotes)
  ELSE IF c \in LineEnd /\ ~inQuotes THEN PastLine(D, r)
  ELSE resync_to_next_row(D, Past(D, r), inQuotes)

Field(status, s, quoted, r) == [status |-> status, text |-> s, quoted |-> quoted, r |-> r]
TooLarge(D, s, quoted, r) == Field("too large", s, quoted, resync_to_next_row(D, r, quoted))

\* read_field: a quoted field up to its closing quote, where "" is a quote.
RECURSIVE QuotedField(_, _, _)
QuotedField(D, r, s) ==
  LET c == At(D, r.pos)
      double == c = Quote /\ At(D, r.pos + 1) = Quote
      closed == Past(D, r)
      next   == IF double THEN Past(D, Past(D, r)) ELSE Past(D, r)
      grown  == Append(s, c)
  IN  IF c = "EOF" THEN Field("unterminated", s, TRUE, r)
      ELSE IF c = Quote /\ ~double
      THEN IF At(D, closed.pos) \in LineEnd \cup {",", "EOF"}
           THEN Field("ok", s, TRUE, closed)
           ELSE Field("bad trailing", s, TRUE, resync_to_next_row(D, closed, FALSE))
      ELSE IF Len(grown) > MaxField THEN TooLarge(D, grown, TRUE, next)
      ELSE QuotedField(D, next, grown)

\* A plain field up to a comma or a line end; quotes in it are text.
RECURSIVE PlainField(_, _, _)
PlainField(D, r, s) ==
  LET c == At(D, r.pos)
      grown == Append(s, c)
  IN  IF c \in LineEnd \cup {",", "EOF"} THEN Field("ok", s, FALSE, r)
      ELSE IF Len(grown) > MaxField THEN TooLarge(D, grown, FALSE, Past(D, r))
      ELSE PlainField(D, Past(D, r), grown)

read_field(D, r) ==
  IF At(D, r.pos) = Quote THEN QuotedField(D, Past(D, r), <<>>) ELSE PlainField(D, r, <<>>)

\* csv_reader_next_row: the fields of one row, or an error at the row's line.
\* A row with another number of fields than the header is an error too.
RECURSIVE RowFrom(_, _, _, _)
RowFrom(D, start, r, fields) ==
  LET f == read_field(D, r)
      all == Append(fields, f)
      Row(status, after) == [status |-> status, line |-> start.line, at |-> start.pos,
                             fields |-> all, r |-> after]
      Counted(after) == Row(IF Len(all) = NCols THEN "ok" ELSE "columns", after)
  IN  IF f.status # "ok" THEN Row(f.status, f.r)
      ELSE IF At(D, f.r.pos) = "EOF" THEN Counted(f.r)
      ELSE IF At(D, f.r.pos) = "," THEN RowFrom(D, start, Past(D, f.r), all)
      ELSE Counted(PastLine(D, f.r))

csv_reader_next_row(D, r) == RowFrom(D, r, r, <<>>)

\* load_csv's loop: every row to the end of the file, the malformed ones too.
\* The header is line 1 and ends with a line feed.
RECURSIVE RowsFrom(_, _)
RowsFrom(D, r) ==
  IF r.pos > Len(D) THEN <<>>
  ELSE LET row == csv_reader_next_row(D, r) IN <<row>> \o RowsFrom(D, row.r)

Rows(D) == RowsFrom(D, [pos |-> 1, line |-> 2])
\* Fault for the mutants: a row with another number of fields is taken for good.
UsableRows(D) == SelectSeq(Rows(D), LAMBDA row : row.status \in {"ok", "columns"})

GoodRows(D) == SelectSeq(Rows(D), LAMBDA row : row.status = "ok")

(***************************************************************************)
(* Field types                                                             *)
(***************************************************************************)
Digit == {"0", "1"}
FieldType == {"INT", "DOUBLE", "BOOL", "TEXT"}

AllIn(f, S) == f # <<>> /\ ToSet(f) \subseteq S

validate_int(f)    == AllIn(f, Digit)
validate_double(f) ==
  /\ AllIn(f, Digit \cup {"."})
  /\ \E i \in DOMAIN f : f[i] \in Digit
  /\ \A i, j \in DOMAIN f : f[i] = "." /\ f[j] = "." => i = j
validate_bool(f)   == f = <<"true">>

field_validate(f, type) ==
  \/ type = "INT" /\ validate_int(f)
  \/ type = "DOUBLE" /\ validate_double(f)
  \/ type = "BOOL" /\ validate_bool(f)
  \/ type = "TEXT"

has_leading_zero(f) == At(f, 1) = "0" /\ At(f, 2) \in Digit

field_infer_type(f) ==
  IF has_leading_zero(f) THEN "TEXT"
  ELSE IF validate_int(f) THEN "INT"
  ELSE IF validate_double(f) THEN "DOUBLE"
  ELSE IF validate_bool(f) THEN "BOOL"
  ELSE "TEXT"

\* The whole part of a number without leading zeros, its fraction without
\* trailing ones: what strtoll or strtod and printing make of a field.
Whole(f) ==
  LET kept == {i \in DOMAIN f : \E k \in 1..i : f[k] # "0"}
      s == SubSeq(f, Len(f) - Cardinality(kept) + 1, Len(f))
  IN  IF s = <<>> THEN <<"0">> ELSE s

Printed(f) ==
  IF "." \notin ToSet(f) THEN Whole(f)
  ELSE LET dot  == CHOOSE i \in DOMAIN f : f[i] = "."
           last == {i \in dot + 1..Len(f) : \E k \in i..Len(f) : f[k] # "0"}
           frac == SubSeq(f, dot + 1, dot + Cardinality(last))
       IN  Whole(SubSeq(f, 1, dot - 1)) \o (IF frac = <<>> THEN <<>> ELSE <<".">> \o frac)

\* What is kept of a field's text: it is read as a C string.
CString(s) ==
  LET zero == SelectInSeq(s, LAMBDA c : c = "zero")
  IN  IF zero = 0 THEN s ELSE SubSeq(s, 1, zero - 1)

\* Fault for the mutants: a field is converted without being validated.
SetCellUnchecked(field, type) ==
  LET s == CString(field.text)
  IN  IF s = <<>> /\ ~field.quoted THEN NULL
      ELSE IF type \in {"INT", "DOUBLE"} THEN Printed(s) ELSE s

\* load_row, set_cell: an empty plain field is NULL, and so is one that is no
\* value of the column's type.
set_cell(field, type) ==
  LET s == CString(field.text)
  IN  IF (s = <<>> /\ ~field.quoted) \/ ~field_validate(s, type) THEN NULL
      ELSE IF type \in {"INT", "DOUBLE"} THEN Printed(s) ELSE s

(***************************************************************************)
(* The writer                                                              *)
(***************************************************************************)
\* Fault for the mutants: a carriage return is written bare.
NeedsQuotesNotCr(s) == ToSet(s) \cap {",", Quote, "\n"} # {}

csv_field_needs_quotes(s) == ToSet(s) \cap (LineEnd \cup {",", Quote}) # {}

write_csv_field(s) ==
  IF csv_field_needs_quotes(s)
  THEN <<Quote>> \o FlattenSeq([i \in DOMAIN s |-> IF s[i] = Quote THEN <<Quote, Quote>> ELSE <<s[i]>>])
         \o <<Quote>>
  ELSE s

dump_cell(v) == IF v = NULL THEN <<>> ELSE write_csv_field(v)

DumpRow(cells) ==
  FlattenSeq([c \in 1..NCols |-> (IF c > 1 THEN <<",">> ELSE <<>>) \o dump_cell(cells[c])]) \o <<"\n">>

write_csv_body(rows) == FlattenSeq([i \in DOMAIN rows |-> DumpRow(rows[i])])
=============================================================================
