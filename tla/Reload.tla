------------------------------- MODULE Reload -------------------------------
(***************************************************************************)
(* One table, its base file and its WAL through loading, autocommitted     *)
(* statements, checkpoints and loading again: what of a session's values   *)
(* survives being written as CSV and read back under types that are        *)
(* declared or inferred (load.c, csv.c, field.c, wal.c).  Durable has the  *)
(* same files with opaque rows, several processes and faults.              *)
(***************************************************************************)
EXTENDS Csv

CONSTANTS
  Dead,        \* in the place of a deleted row's cells
  NoTypes,     \* in the place of a table's types
  Symbol,      \* what a file is typed of
  Seeds,       \* bodies other programs left, beside those typed
  MaxText,     \* bound: symbols typed
  MaxLoaded,   \* bound: symbols of a typed file that is loaded
  Schemas,     \* what a .load may say: column -> declared type, or "inferred"
  Values,      \* the cells statements write, NULL aside
  MaxRow,      \* bound: row numbers in memory
  MaxFrame     \* bound: frames in the WAL

ASSUME ReloadAssumption ==
  /\ {MaxText, MaxLoaded, MaxRow, MaxFrame} \subseteq Nat
  /\ Schemas \subseteq [1..NCols -> FieldType \cup {"inferred"}]

Column == 1..NCols

VARIABLES
  data,    \* the body of the base file
  wal,     \* [fp: the types in the header, frames: row, cells or Dead, types]
  types,   \* the loaded table's column types, or NoTypes
  mem,     \* its rows by number: cells or Dead
  call,    \* the last command, for the properties
  unread   \* the rows of mem the reader will refuse, for the properties

vars == <<data, wal, types, mem, call, unread>>

NoWal == [fp |-> NoTypes, frames |-> <<>>]

Init ==
  /\ data \in {<<>>} \cup Seeds
  /\ wal = NoWal /\ types = NoTypes /\ mem = <<>> /\ call = "type" /\ unread = {}

\* Some program writes the file, a symbol at a time, before it is ever loaded.
Type ==
  /\ call = "type" /\ data \notin Seeds /\ Len(data) < MaxText
  /\ \E c \in Symbol : data' = Append(data, c)
  /\ UNCHANGED <<wal, types, mem, call, unread>>

\* load_csv: a declared type, or the one the first good row suggests.
TypesOf(schema, rows) ==
  [c \in Column |-> IF schema[c] # "inferred" THEN schema[c]
                    ELSE field_infer_type(CString(rows[1].fields[c].text))]

LoadedRows(rows, ts) ==
  [i \in DOMAIN rows |-> [c \in Column |-> set_cell(rows[i].fields[c], ts[c])]]

\* apply_row_payload: a cell is decoded as the type of the table, whatever type
\* it was encoded as; a NULL has no type, and the bytes of another type are not
\* the value.
Decoded(frame, ts) ==
  IF frame.cells = Dead THEN Dead
  ELSE [c \in Column |->
          IF frame.cells[c] = NULL \/ frame.types[c] = ts[c] THEN frame.cells[c] ELSE <<"garbage">>]

\* wal_replay: refused whole when the header's types are not the table's; rows
\* beyond the base are appended, blank up to the frame's own.
Applied(rows, frame, ts) ==
  LET n == IF frame.row > Len(rows) THEN frame.row ELSE Len(rows)
  IN  [r \in 1..n |-> IF r = frame.row THEN Decoded(frame, ts)
                      ELSE IF r <= Len(rows) THEN rows[r] ELSE [c \in Column |-> NULL]]

wal_replay(rows, ts) ==
  IF wal.fp # ts THEN rows
  ELSE FoldLeft(LAMBDA acc, frame : Applied(acc, frame, ts), rows, wal.frames)

\* load_csv, also over the table already loaded; refused without a good row.
Load(schema) ==
  LET rows == GoodRows(data)
      ts   == TypesOf(schema, rows)
  IN  /\ call # "type" \/ data \in Seeds \/ Len(data) <= MaxLoaded
      /\ rows # <<>> /\ Len(rows) <= MaxRow
      /\ types' = ts
      /\ mem' = wal_replay(LoadedRows(rows, ts), ts)
      /\ call' = "load" /\ unread' = {}
      /\ UNCHANGED <<data, wal>>

\* A committed frame.  The header is written when the file is new, and an
\* existing one is not looked at.
wal_append(row, cells) ==
  /\ Len(wal.frames) < MaxFrame
  /\ wal' = [fp     |-> IF wal = NoWal THEN types ELSE wal.fp,
             frames |-> Append(wal.frames, [row |-> row, cells |-> cells, types |-> types])]

\* What a statement may store: it checks the kind of a value alone, so a DOUBLE
\* may be an infinity or no number (1/0, a bound parameter) and a TEXT may have
\* any length and hold any byte.
\* The cells being texts, a text is an INT or a finite DOUBLE if it reads as one.
NonFinite == {<<"inf">>, <<"nan">>}

expr_fits_column(v, type) ==
  IF v = NULL \/ (type = "DOUBLE" /\ v \in NonFinite) THEN TRUE
  ELSE field_validate(v, type) /\ (type \in {"INT", "DOUBLE"} => Printed(v) = v)

Insert(cells) ==
  /\ types # NoTypes /\ Len(mem) < MaxRow
  /\ \A c \in Column : expr_fits_column(cells[c], types[c])
  /\ mem' = Append(mem, cells)
  /\ wal_append(Len(mem) + 1, cells)
  /\ call' = "statement"
  /\ UNCHANGED <<data, types, unread>>

Update(row, c, v) ==
  /\ types # NoTypes /\ mem[row] # Dead /\ expr_fits_column(v, types[c])
  /\ mem' = [mem EXCEPT ![row][c] = v]
  /\ wal_append(row, mem'[row])
  /\ call' = "statement"
  /\ UNCHANGED <<data, types, unread>>

Delete(row) ==
  /\ types # NoTypes /\ mem[row] # Dead
  /\ mem' = [mem EXCEPT ![row] = Dead]
  /\ wal_append(row, Dead)
  /\ call' = "statement"
  /\ UNCHANGED <<data, types, unread>>

Live(rows) == SelectSeq(rows, LAMBDA r : r # Dead)

TooLong(cells) == \E c \in Column : cells[c] # NULL /\ Len(cells[c]) > MaxField

\* cmd_checkpoint, wal_checkpoint: compact, write the base file, drop the WAL.
\* Nothing looks at the length of a text.
Checkpoint ==
  /\ types # NoTypes
  /\ mem' = Live(mem)
  /\ data' = write_csv_body(Live(mem))
  /\ wal' = NoWal
  /\ call' = "checkpoint" /\ unread' = {r \in DOMAIN mem' : TooLong(mem'[r])}
  /\ UNCHANGED types

Next ==
  \/ Type
  \/ \E schema \in Schemas : Load(schema)
  \/ \E cells \in [Column -> Values \cup {NULL}] : Insert(cells)
  \/ \E row \in DOMAIN mem, c \in Column, v \in Values \cup {NULL} : Update(row, c, v)
  \/ \E row \in DOMAIN mem : Delete(row)
  \/ Checkpoint

Spec == Init /\ [][Next]_vars

TypeOK ==
  /\ types = NoTypes \/ types \in [Column -> FieldType]
  /\ \A r \in DOMAIN mem : mem[r] = Dead \/ \A c \in Column : expr_fits_column(mem[r][c], types[c])
  /\ wal.fp = NoTypes <=> wal.frames = <<>>
  /\ \A i \in DOMAIN wal.frames : wal.frames[i].row \in 1..MaxRow

(***************************************************************************)
(* Reading a file                                                          *)
(***************************************************************************)
\* Reference: the texts between the places of D in ends.
Cut(D, ends) ==
  LET at == <<0>> \o SelectSeq([i \in DOMAIN D |-> i], LAMBDA i : i \in ends) \o <<Len(D) + 1>>
  IN  [k \in 1..Len(at) - 1 |-> SubSeq(D, at[k] + 1, at[k + 1] - 1)]

LineOf(D) ==
  LET unix == SelectSeq([i \in DOMAIN D |-> IF At(D, i) = "\r" /\ At(D, i + 1) = "\n" THEN ""
                                            ELSE IF D[i] = "\r" THEN "\n" ELSE D[i]],
                        LAMBDA s : s # "")
      body == IF unix # <<>> /\ Last(unix) = "\n" THEN Front(unix) ELSE unix
  IN  IF unix = <<>> THEN <<>> ELSE Cut(body, {i \in DOMAIN body : body[i] = "\n"})

FieldsOf(line) == Cut(line, {i \in DOMAIN line : line[i] = ","})

WellFormed(line) == Len(FieldsOf(line)) = NCols /\ \A f \in ToSet(FieldsOf(line)) : Len(f) <= MaxField

RowsOfLines ==
  Quote \notin ToSet(data) =>
    LET good == GoodRows(data)
        line == SelectSeq(LineOf(data), WellFormed)
    IN  [i \in DOMAIN good |-> [c \in Column |-> good[i].fields[c].text]]
          = [i \in DOMAIN line |-> FieldsOf(line[i])]

LineOfRow ==
  (\A i \in DOMAIN data : data[i] = "\r" => At(data, i + 1) = "\n") =>
    \A i \in DOMAIN Rows(data) :
      LET row == Rows(data)[i]
      IN  row.line = 2 + Cardinality({k \in 1..row.at - 1 : data[k] = "\n"})

\* In a file without quotes the rows loaded are the lines with as many fields
\* as the header, none of them too long, in order: whatever ends the lines, a
\* malformed line costs only itself.  The line reported for a row is where it
\* starts, also behind quoted line feeds, rows that were skipped and CRLFs
\* (csv_reader_next_row, csv_reader_error_line, load_csv's loop).
ReadsLines == call = "type" => RowsOfLines /\ LineOfRow

(***************************************************************************)
(* Reading back what was written                                           *)
(***************************************************************************)
\* What the value v may be once it was written to the base file and read back:
\* a DOUBLE that is not finite is refused as one, a TEXT ends at a zero byte,
\* and an empty text is written as nothing, which is read as NULL.
ReadBack(v, type) ==
  IF v = NULL THEN {v}
  ELSE IF type = "DOUBLE" THEN {v} \cup (IF v \in NonFinite THEN {NULL} ELSE {})
  ELSE {v, CString(v)} \cup (IF CString(v) = <<>> THEN {NULL} ELSE {})

Logged(r) == \E i \in DOMAIN wal.frames : wal.frames[i].row = r

GivenBack(r, cells) ==
  IF mem[r] = Dead \/ Logged(r) THEN cells = mem[r]
  ELSE cells # Dead /\ \A c \in Column : cells[c] \in ReadBack(mem[r][c], types[c])

\* Loading a table again shows the rows the session saw, in order and under the
\* same numbers: a row with a frame in the WAL exactly as it was, one from the
\* base file with no more lost than ReadBack says (wal_replay, dump_csv).  Only
\* a row a checkpoint wrote with a TEXT over CSV_MAX_FIELD_LEN is missing; the
\* rows behind it have then other numbers than in the session that wrote them,
\* and frames it appended after the checkpoint name the wrong rows: of such a
\* load nothing is said.
LoadGivesBack ==
  [][call' = "load" /\ types # NoTypes /\ (unread = {} \/ wal = NoWal) =>
       LET kept == SelectSeq([r \in DOMAIN mem |-> r], LAMBDA r : r \notin unread)
       IN  /\ Len(mem') = Len(kept)
           /\ \A i \in DOMAIN kept : GivenBack(kept[i], mem'[i])]_vars

\* The claim of wal.c:104-111 and :273-279: comparing fingerprints keeps
\* frames from being decoded under types they were not encoded with.
DecodedAsEncoded ==
  \A r \in DOMAIN mem : mem[r] # Dead => \A c \in Column : mem[r][c] # <<"garbage">>
=============================================================================
