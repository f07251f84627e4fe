------------------------------ MODULE PkIndex ------------------------------
(***************************************************************************)
(* The hash index over a table's primary key (index.c), the table          *)
(* operations that feed it (table.c) and the three ways it is read: the    *)
(* duplicate check, the foreign-key match, and the point lookup of a WHERE *)
(* or JOIN equality (interp.c).                                            *)
(*                                                                         *)
(* The index only ever gains slots: nothing takes one away when a key is   *)
(* overwritten, set to NULL, or its row deleted.  Its readers must make up *)
(* for that.  raw_insert's callers are loops (a grown index is refilled    *)
(* slot by slot, a compacted table re-indexed row by row); each iteration  *)
(* is a step here, and a reader runs only when they are done.              *)
(***************************************************************************)
EXTENDS Integers, Sequences, FiniteSets

CONSTANTS
  Key,         \* values of the key column
  NULL,        \* a NULL cell
  Free,        \* an unoccupied slot
  Hash,        \* [Key -> Nat]: value_hash
  Image,       \* [Key -> Nat]: what compare_values compares, the key as a double
  INITIAL_CAP, \* slots of the first allocation
  Faults,      \* subset of {"oom"}: an allocation of the table's arena may fail
  MaxRow,      \* bound: rows appended
  MaxCap       \* bound: slots of the index

ASSUME ConstantAssumption ==
  /\ NULL \notin Key
  /\ Hash \in [Key -> Nat] /\ Image \in [Key -> Nat]
  /\ INITIAL_CAP \in Nat /\ INITIAL_CAP >= 4
  /\ MaxRow \in Nat /\ MaxCap \in Nat

Row  == 0..(MaxRow - 1)
Slot == [hash : Nat, row : Row]

ASSUME FreeAssumption == Free \notin Slot

VARIABLES
  key,      \* sequence: the key cell of row r is key[r + 1]
  dead,     \* the tombstoned rows
  slots,    \* [0..cap-1 -> Slot or Free]
  cap,
  count,    \* slots filled since the last clear
  degraded, \* an insertion was dropped
  latched,  \* the arena's failure latch: no allocation succeeds any more
  pc,       \* "idle", "insert" (row_index_insert is entered), "rehash" (grow's
            \* loop), "place" (its raw_insert)
  todo,     \* the rows still to be inserted, in order
  old,      \* the slots grow is copying from
  from      \* and the next of them to copy

table == <<key, dead>>
index == <<slots, cap, count, degraded>>
work  == <<todo, old, from>>
vars  == <<table, index, latched, pc, work>>

-----------------------------------------------------------------------------
(* Reading the table.                                                      *)

NRows == Len(key)
Rows  == 0..(NRows - 1)

KeyOf(r) == key[r + 1]

\* The rows that dup_visit, match_visit and the scans do not pass over.
Keyed == {r \in Rows : r \notin dead /\ KeyOf(r) # NULL}

-----------------------------------------------------------------------------
(* Open addressing with linear probing.                                    *)

NoSlots == [i \in {} |-> Free]

Filled(s) == {i \in DOMAIN s : s[i] # Free}

\* The slots a probe for hash h passes before it comes to slot i.
Path(h, i, c) ==
  LET home == h % c
  IN  IF home <= i THEN home..(i - 1) ELSE home..(c - 1) \cup 0..(i - 1)

\* Slot i is where a probe for hash h meets no free slot before it.
Reached(s, c, h, i) == \A j \in Path(h, i, c) : s[j] # Free

\* raw_insert: sl' is s with the entry in the first free slot from its home.
RawInsert(s, c, entry) ==
  \E i \in 0..(c - 1) :
    /\ s[i] = Free /\ Reached(s, c, entry.hash, i)
    /\ slots' = [s EXCEPT ![i] = entry]

\* Fault: the index grows one insertion late.
NeedsGrowLate == cap = 0 \/ count > cap

NeedsGrow == cap = 0 \/ count >= (cap \div 4) * 3

\* row_index_find: the slots whose row is visited, every one with that hash
\* up to the first free slot (one lap at most).
Found(h) ==
  IF cap = 0 THEN {}
  ELSE {i \in 0..(cap - 1) : /\ slots[i] # Free /\ slots[i].hash = h
                             /\ Reached(slots, cap, h, i)}

\* row_index_usable
Usable == ~degraded

-----------------------------------------------------------------------------
(* The readers.  r is a row whose key is not NULL, k the key looked for.   *)

\* table_column_has_duplicate, through the index and by scanning.
DupByIndex(r) ==
  \E i \in Found(Hash[KeyOf(r)]) :
    LET q == slots[i].row IN q # r /\ q \in Keyed /\ KeyOf(q) = KeyOf(r)

DupByScan(r) == \E q \in Keyed : q # r /\ KeyOf(q) = KeyOf(r)

\* table_has_matching_value: k is the referencing row's value.
MatchByIndex(k) ==
  \E i \in Found(Hash[k]) : slots[i].row \in Keyed /\ KeyOf(slots[i].row) = k

MatchByScan(k) == \E q \in Keyed : KeyOf(q) = k

\* eval_comparison's "=" on two keys, by compare_values.
Equal(k, l) == Image[k] = Image[l]

\* "WHERE pk = k" and "ON pk = k": the candidates that are neither dead nor
\* rejected by the condition, which is evaluated on each.  By the index a
\* candidate is a slot, by the scan a row.
SlotsSelected(k) ==
  {i \in Found(Hash[k]) : slots[i].row \in Keyed /\ Equal(KeyOf(slots[i].row), k)}

RowsSelected(k) == {r \in Keyed : Equal(KeyOf(r), k)}

-----------------------------------------------------------------------------
Init ==
  /\ key = <<>> /\ dead = {}
  /\ slots = NoSlots /\ cap = 0 /\ count = 0
  /\ degraded = FALSE /\ latched = FALSE
  /\ pc = "idle" /\ todo = <<>> /\ old = NoSlots /\ from = 0

\* The insertions q remain; with none left the call returns.
Continue(q) == todo' = q /\ pc' = IF q = <<>> THEN "idle" ELSE "insert"

\* table_append_row: all cells NULL, nothing to index.
AppendRow ==
  /\ pc = "idle" /\ NRows < MaxRow
  /\ key' = Append(key, NULL)
  /\ UNCHANGED <<dead, index, latched, pc, work>>

\* table_set_int, _double, _bool, _text on the key column, by an INSERT, an
\* UPDATE, the undo of one, or wal_replay: the row is indexed whatever its
\* cell held before.
SetKey(r, k) ==
  /\ pc = "idle" /\ r \notin dead
  /\ NeedsGrow => 2 * cap <= MaxCap      \* bound
  /\ key' = [key EXCEPT ![r + 1] = k]
  /\ Continue(<<r>>)
  /\ UNCHANGED <<dead, index, latched, old, from>>

\* table_set_null
SetNull(r) ==
  /\ pc = "idle" /\ r \notin dead /\ KeyOf(r) # NULL
  /\ key' = [key EXCEPT ![r + 1] = NULL]
  /\ UNCHANGED <<dead, index, latched, pc, work>>

\* table_delete_row
DeleteRow(r) ==
  /\ pc = "idle" /\ r \notin dead
  /\ dead' = dead \cup {r}
  /\ UNCHANGED <<key, index, latched, pc, work>>

\* table_undelete_row: the slots of the row are still there.
UndeleteRow(r) ==
  /\ pc = "idle" /\ r \in dead
  /\ dead' = dead \ {r}
  /\ UNCHANGED <<key, index, latched, pc, work>>

\* A loop over the row numbers below n that takes up those in S.
InOrder(S, n) ==
  LET taken[r \in 0..n] ==
        IF r = 0 THEN <<>>
        ELSE IF r - 1 \in S THEN Append(taken[r - 1], r - 1) ELSE taken[r - 1]
  IN  taken[n]

\* The row numbers of the non-NULL keys of ks, in order.
KeyedOf(ks) == InOrder({r \in 0..(Len(ks) - 1) : ks[r + 1] # NULL}, Len(ks))

\* Fault: clearing the index leaves its count.
CompactKeepsCount ==
  /\ pc = "idle"
  /\ LET live == InOrder(Rows \ dead, NRows)
     IN  key' = [i \in 1..Len(live) |-> KeyOf(live[i])]
  /\ dead' = {}
  /\ slots' = NoSlots /\ cap' = 0 /\ degraded' = FALSE /\ count' = count
  /\ Continue(KeyedOf(key'))
  /\ UNCHANGED <<latched, old, from>>

\* table_compact: live rows move up, the index is cleared (with it the
\* degraded flag) and every key is inserted anew.
Compact ==
  /\ pc = "idle"
  /\ LET live == InOrder(Rows \ dead, NRows)
     IN  key' = [i \in 1..Len(live) |-> KeyOf(live[i])]
  /\ dead' = {}
  /\ slots' = NoSlots /\ cap' = 0 /\ count' = 0 /\ degraded' = FALSE
  /\ Continue(KeyedOf(key'))
  /\ UNCHANGED <<latched, old, from>>

-----------------------------------------------------------------------------
(* row_index_insert of Head(todo).                                         *)

\* There is room.
Proceed ==
  /\ pc = "insert" /\ ~NeedsGrow
  /\ pc' = "place"
  /\ UNCHANGED <<table, index, latched, work>>

\* Fault: the old slots keep their places, whatever the new mask.
GrowInPlace ==
  /\ pc = "insert" /\ NeedsGrow /\ ~latched
  /\ cap' = IF cap = 0 THEN INITIAL_CAP ELSE 2 * cap
  /\ slots' = [i \in 0..(cap' - 1) |-> IF i < cap THEN slots[i] ELSE Free]
  /\ old' = NoSlots /\ from' = cap
  /\ pc' = "place"
  /\ UNCHANGED <<table, count, degraded, latched, todo>>

\* grow: twice the slots, all free; the old ones are to be copied.
Grow ==
  /\ pc = "insert" /\ NeedsGrow /\ ~latched
  /\ cap' = IF cap = 0 THEN INITIAL_CAP ELSE 2 * cap
  /\ slots' = [i \in 0..(cap' - 1) |-> Free]
  /\ old' = slots /\ from' = 0
  /\ pc' = "rehash"
  /\ UNCHANGED <<table, count, degraded, latched, todo>>

\* Fault: the dropped insertion is not remembered.
GrowFailsQuietly ==
  /\ pc = "insert" /\ NeedsGrow /\ (latched \/ "oom" \in Faults)
  /\ latched' = TRUE
  /\ Continue(Tail(todo))
  /\ UNCHANGED <<table, index, old, from>>

\* grow finds no memory: the row is not indexed and the index not used again.
GrowFails ==
  /\ pc = "insert" /\ NeedsGrow /\ (latched \/ "oom" \in Faults)
  /\ latched' = TRUE
  /\ degraded' = TRUE
  /\ Continue(Tail(todo))
  /\ UNCHANGED <<table, slots, cap, count, old, from>>

\* One iteration of grow's loop; the last frees the old slots.
Rehash ==
  /\ pc = "rehash"
  /\ IF from \in DOMAIN old
     THEN /\ IF old[from] = Free THEN slots' = slots
             ELSE RawInsert(slots, cap, old[from])
          /\ from' = from + 1
          /\ UNCHANGED <<old, pc>>
     ELSE /\ pc' = "place" /\ old' = NoSlots /\ from' = 0
          /\ UNCHANGED slots
  /\ UNCHANGED <<table, cap, count, degraded, latched, todo>>

\* raw_insert of the new row.
Place ==
  /\ pc = "place"
  /\ LET r == Head(todo)
     IN  RawInsert(slots, cap, [hash |-> Hash[KeyOf(r)], row |-> r])
  /\ count' = count + 1
  /\ Continue(Tail(todo))
  /\ UNCHANGED <<table, cap, degraded, latched, old, from>>

Next ==
  \/ AppendRow \/ Compact
  \/ \E r \in Rows : SetNull(r) \/ DeleteRow(r) \/ UndeleteRow(r)
  \/ \E r \in Rows, k \in Key : SetKey(r, k)
  \/ Proceed \/ Grow \/ GrowFails \/ Rehash \/ Place

Spec == Init /\ [][Next]_vars

-----------------------------------------------------------------------------
(* Properties.                                                             *)

TypeOK ==
  /\ key \in Seq(Key \cup {NULL}) /\ NRows <= MaxRow
  /\ dead \subseteq Rows
  /\ cap \in Nat /\ (cap = 0 \/ cap >= INITIAL_CAP)
  /\ slots \in [0..(cap - 1) -> Slot \cup {Free}]
  /\ count \in 0..cap
  /\ degraded \in BOOLEAN /\ latched \in BOOLEAN
  /\ pc \in {"idle", "insert", "rehash", "place"}
  /\ todo \in Seq(Rows) /\ (todo = <<>> <=> pc = "idle")
  /\ from \in Nat

\* raw_insert's loop ends: whenever it may run, a slot is free, and while
\* the index rests its load stays below one so that probes end early too.
RoomToInsert ==
  /\ pc \in {"rehash", "place"} => Filled(slots) # DOMAIN slots
  /\ count = Cardinality(Filled(slots)) \/ pc = "rehash"

\* The duplicate check and the foreign-key match answer what a scan of the
\* table would, whatever was overwritten, deleted, restored or renumbered
\* since a slot was filled.
ConstraintsAgree ==
  pc = "idle" /\ Usable =>
    /\ \A r \in Keyed : DupByIndex(r) <=> DupByScan(r)
    /\ \A k \in Key : MatchByIndex(k) <=> MatchByScan(k)

\* The point lookup selects the rows a scan would: a "missed real match"
\* never happens (interp.c, find_pk_equality).
LookupMissesNothing ==
  pc = "idle" /\ Usable =>
    \A k \in Key : {slots[i].row : i \in SlotsSelected(k)} = RowsSelected(k)

\* ... and each of them once: stale entries "can only cost a wasted check,
\* never a wrong result".
LookupSelectsOnce ==
  pc = "idle" /\ Usable =>
    \A k \in Key : \A i, j \in SlotsSelected(k) :
      slots[i].row = slots[j].row => i = j

=============================================================================
