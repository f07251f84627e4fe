--------------------------- MODULE PkIndexProofs ---------------------------
(***************************************************************************)
(* The index over the primary key, for every table, hash and allocation    *)
(* failure: it never fills up, its constraint checks answer what a scan    *)
(* would, and so does a point lookup where keys that compare equal hash    *)
(* alike.                                                                  *)
(***************************************************************************)
EXTENDS PkIndex, NatFacts, FiniteSetTheorems

-----------------------------------------------------------------------------
(* The inductive invariant.                                                *)

SlotsOf(n) == [0..(n - 1) -> Slot \cup {Free}]

Typed ==
  /\ TypeOK
  /\ \E n \in Nat : old \in SlotsOf(n)
  /\ pc \in {"rehash", "place"} => count < cap
  /\ \A n \in 1..Len(todo) : KeyOf(todo[n]) # NULL

\* A probe for a slot's hash comes to it.
Chain(s, c) == \A i \in Filled(s) : Reached(s, c, s[i].hash, i)

\* grow has copied as many slots as it has passed filled ones.
Counted ==
  /\ pc # "rehash" => count = Cardinality(Filled(slots))
  /\ pc = "rehash" =>
       /\ count = Cardinality(Filled(old))
       /\ Cardinality(Filled(slots)) = Cardinality({i \in Filled(old) : i < from})

Entry(r) == [hash |-> Hash[KeyOf(r)], row |-> r]

\* Where the entry of a keyed row is, or that it is still to be made.
Indexed ==
  ~degraded => \A r \in Rows : KeyOf(r) # NULL =>
    \/ \E n \in 1..Len(todo) : todo[n] = r
    \/ \E i \in Filled(slots) : slots[i] = Entry(r)
    \/ pc = "rehash" /\ \E i \in Filled(old) : i >= from /\ old[i] = Entry(r)

IInv == Typed /\ Counted /\ Chain(slots, cap) /\ Indexed

-----------------------------------------------------------------------------
(* Compacting lists the rows it keeps, each of them.                       *)

\* q is a sequence of numbers in S below n, no more than n of them, and has
\* every one.
Lists(q, S, n) ==
  /\ q \in Seq(Nat) /\ Len(q) <= n
  /\ \A i \in 1..Len(q) : q[i] \in S /\ q[i] < n
  /\ \A r \in Nat : r \in S /\ r < n => \E i \in 1..Len(q) : q[i] = r

\* One round of the loop.
LEMMA TakeUp ==
  ASSUME NEW S, NEW n \in Nat, NEW q, Lists(q, S, n)
  PROVE  Lists(IF n \in S THEN Append(q, n) ELSE q, S, n + 1)
<1>1. q \in Seq(Nat) /\ Len(q) \in Nat /\ Len(q) <= n
  BY DEF Lists
<1>2. CASE n \in S
  <2>. DEFINE p == Append(q, n)
  <2>1. /\ p \in Seq(Nat) /\ Len(p) = Len(q) + 1 /\ p[Len(q) + 1] = n
        /\ \A i \in 1..Len(q) : p[i] = q[i]
    BY <1>1, AppendIs
  <2>. HIDE DEF p
  <2>2. \A i \in 1..Len(p) : p[i] \in S /\ p[i] < n + 1
    BY <1>1, <1>2, <2>1 DEF Lists
  <2>3. ASSUME NEW r \in Nat, r \in S, r < n + 1
        PROVE  \E i \in 1..Len(p) : p[i] = r
    <3>1. CASE r = n
      BY <1>1, <2>1, <3>1
    <3>2. CASE r # n
      <4>1. PICK i \in 1..Len(q) : q[i] = r
        BY <2>3, <3>2 DEF Lists
      <4>. QED
        BY <1>1, <2>1, <4>1
    <3>. QED
      BY <3>1, <3>2
  <2>4. Lists(p, S, n + 1)
    BY <1>1, <2>1, <2>2, <2>3 DEF Lists
  <2>. QED
    BY <1>2, <2>4 DEF p
<1>3. CASE n \notin S
  <2>1. \A r \in Nat : r \in S /\ r < n + 1 => r < n
    BY <1>3
  <2>2. Lists(q, S, n + 1)
    BY <1>1, <2>1 DEF Lists
  <2>. QED
    BY <1>3, <2>2
<1>. QED
  BY <1>2, <1>3

LEMMA InOrderLists ==
  ASSUME NEW S, NEW n \in Nat
  PROVE  Lists(InOrder(S, n), S, n)
<1>. DEFINE e == <<>>
            G == [r \in Nat |-> [q \in Seq(Nat) |->
                   IF r - 1 \in S /\ r # 0 THEN Append(q, r - 1) ELSE q]]
            Loop(f) == f = [r \in 0..n |->
                              IF r = 0 THEN <<>>
                              ELSE IF r - 1 \in S THEN Append(f[r - 1], r - 1)
                                   ELSE f[r - 1]]
            c == CHOOSE f : Loop(f)
<1>1. PICK h : IsLoop(h, Seq(Nat), e, G)
  <2>1. G \in RoundsOf(Seq(Nat)) /\ e \in Seq(Nat)
    BY DEF RoundsOf
  <2>. HIDE DEF G, e
  <2>. QED
    BY <2>1, Rounds
<1>2. Loop([r \in 0..n |-> h[r]])
  <2>. DEFINE g == [r \in 0..n |-> h[r]]
  <2>1. ASSUME NEW r \in 0..n, r # 0
        PROVE  h[r] = IF r - 1 \in S THEN Append(g[r - 1], r - 1) ELSE g[r - 1]
    <3>1. r - 1 \in Nat /\ (r - 1) + 1 = r /\ r \in Nat /\ r - 1 \in 0..n
      BY <2>1
    <3>2. h[(r - 1) + 1] = G[(r - 1) + 1][h[r - 1]] /\ h[r - 1] \in Seq(Nat)
      <4>. HIDE DEF G
      <4>. QED
        BY <1>1, <3>1 DEF IsLoop
    <3>3. G[r][h[r - 1]] = IF r - 1 \in S /\ r # 0 THEN Append(h[r - 1], r - 1) ELSE h[r - 1]
      BY <3>1, <3>2
    <3>. HIDE DEF G
    <3>. QED
      BY <2>1, <3>1, <3>2, <3>3
  <2>2. h[0] = <<>>
    BY <1>1 DEF IsLoop
  <2>3. \A r \in 0..n : g[r] = h[r]
    OBVIOUS
  <2>. HIDE DEF G
  <2>4. \A r \in 0..n : g[r] = IF r = 0 THEN <<>>
                               ELSE IF r - 1 \in S THEN Append(g[r - 1], r - 1) ELSE g[r - 1]
    BY <2>1, <2>2, <2>3
  <2>. QED
    BY <2>4, Zenon
<1>3. Loop(c)
  <2>. HIDE DEF Loop
  <2>. QED
    BY <1>2
<1>4. InOrder(S, n) = c[n]
  BY DEF InOrder
<1>5. /\ c[0] = <<>>
      /\ \A r \in 0..n : r # 0 =>
           c[r] = IF r - 1 \in S THEN Append(c[r - 1], r - 1) ELSE c[r - 1]
  <2>. HIDE DEF c
  <2>1. \A r \in 0..n : c[r] = IF r = 0 THEN <<>>
                               ELSE IF r - 1 \in S THEN Append(c[r - 1], r - 1)
                                    ELSE c[r - 1]
    BY <1>3
  <2>2. 0 \in 0..n
    OBVIOUS
  <2>. QED
    BY <2>1, <2>2
<1>. HIDE DEF c
<1>. DEFINE T == {r \in Nat : r <= n => Lists(c[r], S, r)}
<1>6. 0 \in T
  <2>1. Lists(<<>>, S, 0)
    BY DEF Lists
  <2>. QED
    BY <1>5, <2>1
<1>7. ASSUME NEW r \in Nat, r \in T
      PROVE  r + 1 \in T
  <2>1. SUFFICES ASSUME r + 1 <= n
                 PROVE  Lists(c[r + 1], S, r + 1)
    OBVIOUS
  <2>2. Lists(c[r], S, r)
    BY <1>7, <2>1
  <2>3. c[r + 1] = IF r \in S THEN Append(c[r], r) ELSE c[r]
    <3>1. r + 1 \in 0..n /\ r + 1 # 0 /\ (r + 1) - 1 = r
      BY <2>1
    <3>. QED
      BY <1>5, <3>1
  <2>. QED
    BY <2>2, <2>3, TakeUp, Zenon
<1>8. Nat \subseteq T
  <2>. HIDE DEF T
  <2>. QED
    BY <1>6, <1>7, Induction
<1>9. Lists(c[n], S, n)
  BY <1>8
<1>. QED
  BY <1>4, <1>9

-----------------------------------------------------------------------------
(* Open addressing.                                                        *)

\* s2 is s with entry e put in a free slot that a probe for it comes to.
Puts(s2, s, c, e) ==
  \E i \in 0..(c - 1) : /\ s[i] = Free /\ Reached(s, c, e.hash, i)
                        /\ s2 = [s EXCEPT ![i] = e]

LEMMA FilledFacts ==
  ASSUME NEW c \in Nat, NEW s \in SlotsOf(c)
  PROVE  /\ Filled(s) \subseteq 0..(c - 1) /\ IsFiniteSet(Filled(s))
         /\ Cardinality(Filled(s)) \in Nat
<1>1. IsFiniteSet(0..(c - 1))
  BY FS_Interval
<1>2. Filled(s) \subseteq 0..(c - 1)
  BY DEF Filled, SlotsOf
<1>. QED
  BY <1>1, <1>2, FS_Subset, FS_CardinalityType

\* A probe runs through slots of the index.
LEMMA PathFacts ==
  ASSUME NEW c \in Nat, NEW h \in Nat, NEW i \in 0..(c - 1)
  PROVE  Path(h, i, c) \subseteq 0..(c - 1) /\ i \notin Path(h, i, c)
<1>1. h % c \in 0..(c - 1)
  OBVIOUS
<1>. QED
  BY <1>1 DEF Path

\* raw_insert fills one slot, keeps the others, and every entry stays within
\* a probe's reach.
LEMMA PutsFacts ==
  ASSUME NEW c \in Nat, NEW s \in SlotsOf(c), NEW e \in Slot, NEW s2, Puts(s2, s, c, e)
  PROVE  /\ s2 \in SlotsOf(c)
         /\ Cardinality(Filled(s2)) = Cardinality(Filled(s)) + 1
         /\ \A i \in Filled(s) : i \in Filled(s2) /\ s2[i] = s[i]
         /\ \E i \in Filled(s2) : s2[i] = e
         /\ Chain(s, c) => Chain(s2, c)
<1>1. PICK i \in 0..(c - 1) : /\ s[i] = Free /\ Reached(s, c, e.hash, i)
                              /\ s2 = [s EXCEPT ![i] = e]
  BY DEF Puts
<1>2. e # Free
  BY FreeAssumption
<1>3. s2 \in SlotsOf(c) /\ DOMAIN s2 = 0..(c - 1) /\ DOMAIN s = 0..(c - 1)
  BY <1>1 DEF SlotsOf
<1>4. s2[i] = e /\ \A j \in 0..(c - 1) : j # i => s2[j] = s[j]
  BY <1>1 DEF SlotsOf
<1>. HIDE DEF SlotsOf
<1>5. Filled(s2) = Filled(s) \cup {i} /\ i \notin Filled(s)
  BY <1>1, <1>2, <1>3, <1>4 DEF Filled
<1>6. Cardinality(Filled(s2)) = Cardinality(Filled(s)) + 1
  BY <1>5, FilledFacts, FS_AddElement
<1>7. \A j \in Filled(s) : j \in Filled(s2) /\ s2[j] = s[j]
  BY <1>3, <1>4, <1>5 DEF Filled
<1>8. ASSUME Chain(s, c), NEW j \in Filled(s2)
      PROVE  Reached(s2, c, s2[j].hash, j)
  <2>1. j \in 0..(c - 1) /\ s2[j] \in Slot
    BY <1>3, <1>5, FilledFacts DEF SlotsOf, Filled
  <2>2. s2[j].hash \in Nat
    BY <2>1 DEF Slot
  <2>3. Reached(s, c, s2[j].hash, j)
    <3>1. CASE j = i
      BY <1>1, <1>4, <3>1
    <3>2. CASE j # i
      BY <1>4, <1>5, <1>8, <2>1, <3>2 DEF Chain
    <3>. QED
      BY <3>1, <3>2
  <2>4. \A l \in Path(s2[j].hash, j, c) : l \in 0..(c - 1) /\ s[l] # Free
    BY <2>1, <2>2, <2>3, PathFacts DEF Reached
  <2>5. \A l \in 0..(c - 1) : s[l] # Free => s2[l] # Free
    BY <1>1, <1>4
  <2>. QED
    BY <2>4, <2>5 DEF Reached
<1>. QED
  BY <1>3, <1>4, <1>5, <1>6, <1>7, <1>8 DEF Chain

\* raw_insert's loop ends: where a slot is free, a probe comes to one.
LEMMA ProbeEnds ==
  ASSUME NEW c \in Nat, NEW s \in SlotsOf(c), Filled(s) # DOMAIN s, NEW h \in Nat
  PROVE  \E i \in 0..(c - 1) : s[i] = Free /\ Reached(s, c, h, i)
<1>. DEFINE home == h % c
            free == {i \in 0..(c - 1) : s[i] = Free}
            ahead == {i \in free : home <= i}
<1>1. free # {} /\ free \subseteq Nat
  BY DEF Filled, SlotsOf
<1>2. home \in 0..(c - 1)
  BY <1>1
<1>3. CASE ahead # {}
  <2>1. PICK i \in ahead : \A j \in ahead : i <= j
    <3>1. ahead \subseteq Nat
      OBVIOUS
    <3>. QED
      BY <1>3, <3>1, LeastNat, Zenon
  <2>2. Reached(s, c, h, i)
    BY <1>2, <2>1 DEF Reached, Path
  <2>. QED
    BY <2>1, <2>2
<1>4. CASE ahead = {}
  <2>1. PICK i \in free : \A j \in free : i <= j
    <3>. HIDE DEF free
    <3>. QED
      BY <1>1, LeastNat
  <2>2. i < home
    BY <1>2, <1>4
  <2>3. Reached(s, c, h, i)
    BY <1>2, <1>4, <2>1, <2>2 DEF Reached, Path
  <2>. QED
    BY <2>1, <2>3
<1>. QED
  BY <1>3, <1>4

-----------------------------------------------------------------------------
(* Type correctness and room.                                              *)

LEMMA StateFacts ==
  ASSUME Typed
  PROVE  /\ NRows \in Nat /\ cap \in Nat /\ count \in Nat /\ from \in Nat
         /\ slots \in SlotsOf(cap) /\ DOMAIN slots = 0..(cap - 1)
         /\ \A r \in Rows : /\ r \in Nat /\ r + 1 \in 1..NRows
                            /\ KeyOf(r) \in Key \cup {NULL}
                            /\ KeyOf(r) # NULL => Entry(r) \in Slot
<1>1. key \in Seq(Key \cup {NULL}) /\ NRows \in Nat /\ NRows <= MaxRow
  BY DEF Typed, TypeOK, NRows
<1>2. cap \in Nat /\ count \in 0..cap /\ from \in Nat /\ slots \in SlotsOf(cap)
  BY DEF Typed, TypeOK, SlotsOf
<1>3. DOMAIN slots = 0..(cap - 1) /\ count \in Nat
  BY <1>2 DEF SlotsOf
<1>4. \A r \in Rows : r \in Nat /\ r + 1 \in 1..NRows /\ KeyOf(r) \in Key \cup {NULL}
  BY <1>1 DEF Rows, NRows, KeyOf
<1>5. \A r \in Rows : r \in Row
  BY <1>1, ConstantAssumption DEF Rows, Row
<1>6. ASSUME NEW r \in Rows, KeyOf(r) # NULL
      PROVE  Entry(r) \in Slot
  BY <1>4, <1>5, <1>6, ConstantAssumption DEF Entry, Slot
<1>. QED
  BY <1>1, <1>2, <1>3, <1>4, <1>6

\* What is left to insert.
LEMMA TodoFacts ==
  ASSUME Typed, pc # "idle"
  PROVE  /\ Len(todo) \in Nat \ {0} /\ todo[1] = Head(todo)
         /\ Head(todo) \in Rows /\ KeyOf(Head(todo)) # NULL
         /\ Tail(todo) \in Seq(Rows) /\ Len(Tail(todo)) = Len(todo) - 1
         /\ \A n \in 1..(Len(todo) - 1) : Tail(todo)[n] = todo[n + 1]
<1>1. todo \in Seq(Rows) /\ todo # <<>>
  BY DEF Typed, TypeOK
<1>2. Len(todo) \in Nat \ {0} /\ todo[1] = Head(todo) /\ Head(todo) \in Rows
  BY <1>1
<1>3. KeyOf(Head(todo)) # NULL
  BY <1>2 DEF Typed
<1>. QED
  BY <1>1, <1>2, <1>3

\* The table operations that leave the index alone.
Quiet == AppendRow \/ \E r \in Rows : SetNull(r) \/ DeleteRow(r) \/ UndeleteRow(r)

LEMMA QuietFacts ==
  ASSUME Typed, Quiet
  PROVE  /\ pc = "idle" /\ todo = <<>> /\ UNCHANGED <<index, latched, pc, work>>
         /\ key' \in Seq(Key \cup {NULL}) /\ NRows' \in Nat /\ NRows <= NRows'
         /\ NRows' <= MaxRow /\ dead' \subseteq Rows'
         /\ \A r \in Rows' : KeyOf(r)' # NULL => r \in Rows /\ KeyOf(r)' = KeyOf(r)
<1>1. pc = "idle" /\ todo = <<>> /\ UNCHANGED <<index, latched, pc, work>>
  BY DEF Quiet, AppendRow, SetNull, DeleteRow, UndeleteRow, Typed, TypeOK
<1>2. key \in Seq(Key \cup {NULL}) /\ Len(key) \in Nat /\ Len(key) <= MaxRow /\ dead \subseteq Rows
  BY DEF Typed, TypeOK, NRows
<1>3. CASE AppendRow
  <2>1. /\ key' \in Seq(Key \cup {NULL}) /\ Len(key') = Len(key) + 1
        /\ key'[Len(key) + 1] = NULL /\ \A n \in 1..Len(key) : key'[n] = key[n]
    BY <1>2, <1>3 DEF AppendRow
  <2>2. Len(key) < MaxRow /\ dead' = dead
    BY <1>3 DEF AppendRow, NRows
  <2>3. MaxRow \in Nat
    BY ConstantAssumption
  <2>4. ASSUME NEW r \in 0..(Len(key') - 1), key'[r + 1] # NULL
        PROVE  r \in 0..(Len(key) - 1) /\ key'[r + 1] = key[r + 1]
    BY <1>2, <2>1, <2>4
  <2>. QED
    BY <1>1, <1>2, <2>1, <2>2, <2>3, <2>4 DEF NRows, Rows, KeyOf
<1>4. CASE \E r \in Rows : SetNull(r)
  <2>1. PICK r \in Rows : SetNull(r)
    BY <1>4
  <2>2. r + 1 \in 1..Len(key) /\ r \in 0..(Len(key) - 1)
    BY <1>2, <2>1 DEF Rows, NRows
  <2>3. key' = [key EXCEPT ![r + 1] = NULL] /\ dead' = dead
    BY <2>1 DEF SetNull
  <2>4. /\ key' \in Seq(Key \cup {NULL}) /\ Len(key') = Len(key) /\ key'[r + 1] = NULL
        /\ \A n \in 1..Len(key) : n # r + 1 => key'[n] = key[n]
    BY <1>2, <2>2, <2>3
  <2>5. ASSUME NEW q \in 0..(Len(key') - 1), key'[q + 1] # NULL
        PROVE  q \in 0..(Len(key) - 1) /\ key'[q + 1] = key[q + 1]
    BY <1>2, <2>2, <2>4, <2>5
  <2>. QED
    BY <1>1, <1>2, <2>3, <2>4, <2>5 DEF NRows, Rows, KeyOf
<1>5. CASE \E r \in Rows : DeleteRow(r) \/ UndeleteRow(r)
  <2>1. key' = key /\ dead' \subseteq Rows
    BY <1>2, <1>5 DEF DeleteRow, UndeleteRow
  <2>. QED
    BY <1>1, <1>2, <2>1 DEF NRows, Rows, KeyOf
<1>. QED
  BY <1>3, <1>4, <1>5 DEF Quiet

\* table_set_*: one key changes, and its row is to be inserted.
LEMMA SetKeyFacts ==
  ASSUME Typed, NEW r \in Rows, NEW k \in Key, SetKey(r, k)
  PROVE  /\ key' \in Seq(Key \cup {NULL}) /\ NRows' = NRows /\ Rows' = Rows
         /\ KeyOf(r)' = k /\ \A q \in Rows : q # r => KeyOf(q)' = KeyOf(q)
         /\ todo' = <<r>> /\ pc' = "insert" /\ dead' = dead
         /\ UNCHANGED <<index, latched, old, from>>
<1>1. key \in Seq(Key \cup {NULL}) /\ Len(key) \in Nat
  BY DEF Typed, TypeOK
<1>2. r + 1 \in 1..Len(key) /\ \A q \in Rows : q + 1 \in 1..Len(key) /\ (q # r => q + 1 # r + 1)
  BY <1>1 DEF Rows, NRows
<1>3. key' = [key EXCEPT ![r + 1] = k]
  BY DEF SetKey
<1>4. /\ key' \in Seq(Key \cup {NULL}) /\ Len(key') = Len(key) /\ key'[r + 1] = k
      /\ \A n \in 1..Len(key) : n # r + 1 => key'[n] = key[n]
  BY <1>1, <1>2, <1>3
<1>5. todo' = <<r>> /\ pc' = "insert"
  BY DEF SetKey, Continue
<1>. QED
  BY <1>2, <1>4, <1>5 DEF SetKey, NRows, Rows, KeyOf, index

\* table_compact: every key that is left is to be inserted.
LEMMA CompactFacts ==
  ASSUME Typed, Compact
  PROVE  /\ key' \in Seq(Key \cup {NULL}) /\ NRows' \in Nat /\ NRows' <= NRows
         /\ todo' \in Seq(Rows') /\ \A n \in 1..Len(todo') : KeyOf(todo[n])' # NULL
         /\ \A r \in Rows' : KeyOf(r)' # NULL => \E n \in 1..Len(todo') : todo'[n] = r
         /\ Continue(todo') /\ dead' = {}
         /\ slots' = NoSlots /\ cap' = 0 /\ count' = 0 /\ degraded' = FALSE
         /\ UNCHANGED <<latched, old, from>>
<1>. DEFINE live == InOrder(Rows \ dead, NRows)
            S == {r \in 0..(Len(key') - 1) : key'[r + 1] # NULL}
<1>1. /\ key' = [i \in 1..Len(live) |-> KeyOf(live[i])]
      /\ Continue(KeyedOf(key')) /\ dead' = {}
      /\ slots' = NoSlots /\ cap' = 0 /\ count' = 0 /\ degraded' = FALSE
      /\ UNCHANGED <<latched, old, from>>
  BY DEF Compact
<1>2. Lists(live, Rows \ dead, NRows)
  BY StateFacts, InOrderLists
<1>. HIDE DEF live
<1>3. /\ Len(live) \in Nat /\ Len(live) <= NRows
      /\ \A i \in 1..Len(live) : KeyOf(live[i]) \in Key \cup {NULL}
  BY <1>2, StateFacts DEF Lists
<1>4. key' \in Seq(Key \cup {NULL}) /\ Len(key') = Len(live)
  BY <1>1, <1>3
<1>5. todo' = InOrder(S, Len(key')) /\ Continue(todo')
  BY <1>1 DEF Continue, KeyedOf
<1>6. Lists(todo', S, Len(key'))
  BY <1>3, <1>4, <1>5, InOrderLists
<1>7. /\ \A n \in 1..Len(todo') : todo'[n] \in 0..(Len(key') - 1) /\ key'[todo'[n] + 1] # NULL
      /\ \A r \in 0..(Len(key') - 1) : key'[r + 1] # NULL => \E n \in 1..Len(todo') : todo'[n] = r
      /\ todo' \in Seq(Nat)
  <2>1. /\ todo' \in Seq(Nat)
        /\ \A n \in 1..Len(todo') : todo'[n] \in S
        /\ \A r \in Nat : r \in S /\ r < Len(key') => \E n \in 1..Len(todo') : todo'[n] = r
    <3>. HIDE DEF S
    <3>. QED
      BY <1>6 DEF Lists
  <2>2. \A r \in 0..(Len(key') - 1) : r \in Nat /\ r < Len(key') /\ (key'[r + 1] # NULL => r \in S)
    BY <1>3, <1>4
  <2>3. \A r \in S : r \in 0..(Len(key') - 1) /\ key'[r + 1] # NULL
    OBVIOUS
  <2>. HIDE DEF S
  <2>. QED
    BY <2>1, <2>2, <2>3
<1>8. todo' \in Seq(0..(Len(key') - 1))
  BY <1>7
<1>. QED
  BY <1>1, <1>3, <1>4, <1>5, <1>7, <1>8 DEF NRows, Rows, KeyOf

\* The start of an index: no slots.
LEMMA NoSlotsFacts ==
  /\ NoSlots \in SlotsOf(0) /\ Filled(NoSlots) = {} /\ Cardinality(Filled(NoSlots)) = 0
<1>1. NoSlots \in SlotsOf(0) /\ Filled(NoSlots) = {}
  BY DEF NoSlots, SlotsOf, Filled
<1>. QED
  BY <1>1, FS_EmptySet

LEMMA InitInv == Init => IInv
<1>. SUFFICES ASSUME Init PROVE IInv
  OBVIOUS
<1>1. /\ key \in Seq(Key \cup {NULL}) /\ Len(key) = 0 /\ todo \in Seq(Rows)
      /\ todo = <<>> /\ Len(todo) = 0 /\ Rows = {}
  BY DEF Init, Rows, NRows
<1>2. Typed
  <2>1. TypeOK
    <3>1. NRows = 0 /\ 0 <= MaxRow /\ dead \subseteq Rows /\ from \in Nat
      BY <1>1, ConstantAssumption DEF Init, NRows
    <3>2. cap = 0 /\ count \in 0..cap /\ slots \in SlotsOf(cap)
      BY NoSlotsFacts DEF Init
    <3>3. pc = "idle" /\ degraded \in BOOLEAN /\ latched \in BOOLEAN
      BY DEF Init
    <3>. QED
      BY <1>1, <3>1, <3>2, <3>3 DEF TypeOK, SlotsOf
  <2>. QED
    BY <1>1, <2>1, NoSlotsFacts DEF Init, Typed
<1>3. Counted /\ Chain(slots, cap)
  BY NoSlotsFacts DEF Init, Counted, Chain
<1>4. Indexed
  BY <1>1 DEF Indexed
<1>. QED
  BY <1>2, <1>3, <1>4 DEF IInv

\* A successful step of raw_insert leaves the types standing.
LEMMA TypedNext ==
  ASSUME IInv, [Next]_vars
  PROVE  Typed'
<1>. USE DEF IInv
<1>1. /\ todo \in Seq(Rows) /\ (todo = <<>> <=> pc = "idle")
      /\ pc \in {"idle", "insert", "rehash", "place"}
      /\ (cap = 0 \/ cap >= INITIAL_CAP) /\ count \in 0..cap
      /\ degraded \in BOOLEAN /\ latched \in BOOLEAN
      /\ key \in Seq(Key \cup {NULL}) /\ NRows <= MaxRow /\ dead \subseteq Rows
  BY DEF Typed, TypeOK
<1>2. INITIAL_CAP \in Nat /\ INITIAL_CAP >= 4
  BY ConstantAssumption
<1>3. ASSUME UNCHANGED table
      PROVE  Rows' = Rows /\ NRows' = NRows /\ \A r \in Rows : KeyOf(r)' = KeyOf(r)
  BY <1>3 DEF table, Rows, NRows, KeyOf
<1>4. CASE Quiet
  <2>1. TypeOK'
    BY <1>1, <1>4, QuietFacts, SMTT(30) DEF TypeOK, NRows, index, work, Typed
  <2>. QED
    BY <1>1, <1>4, <2>1, QuietFacts DEF Typed, work, index
<1>5. ASSUME NEW r \in Rows, NEW k \in Key, SetKey(r, k)
      PROVE  Typed'
  <2>1. todo' \in Seq(Rows') /\ todo' # <<>> /\ Len(todo') = 1 /\ todo'[1] = r
    BY <1>5, SetKeyFacts, SMTT(30)
  <2>2. KeyOf(r)' # NULL
    BY <1>5, SetKeyFacts, ConstantAssumption
  <2>3. TypeOK'
    BY <1>1, <1>5, <2>1, SetKeyFacts DEF TypeOK, index, Typed
  <2>. QED
    BY <1>5, <2>1, <2>2, <2>3, SetKeyFacts DEF Typed
<1>6. CASE Compact
  <2>1. TypeOK'
    <3>1. slots' \in SlotsOf(0) /\ cap' = 0 /\ count' = 0 /\ degraded' = FALSE /\ latched' = latched
      BY <1>6, CompactFacts, NoSlotsFacts
    <3>2. NRows' <= MaxRow /\ dead' \subseteq Rows' /\ from' = from
      BY <1>1, <1>6, CompactFacts, StateFacts, ConstantAssumption
    <3>3. (todo' = <<>> <=> pc' = "idle") /\ pc' \in {"idle", "insert"}
      BY <1>6, CompactFacts DEF Continue
    <3>. QED
      BY <1>1, <1>2, <1>6, <3>1, <3>2, <3>3, CompactFacts, StateFacts DEF TypeOK, SlotsOf
  <2>2. pc' \notin {"rehash", "place"}
    BY <1>6, CompactFacts DEF Continue
  <2>. QED
    BY <1>6, <2>1, <2>2, CompactFacts DEF Typed
<1>7. CASE Proceed
  <2>1. count < cap
    BY <1>1, <1>2, <1>7, StateFacts DEF Proceed, NeedsGrow
  <2>2. TypeOK'
    BY <1>1, <1>3, <1>7 DEF Proceed, TypeOK, index, work, Typed, table
  <2>. QED
    BY <1>3, <1>7, <2>1, <2>2, <1>1 DEF Proceed, Typed, index, work
<1>8. CASE Grow
  <2>1. cap' \in Nat /\ cap' >= INITIAL_CAP /\ count < cap' /\ slots' \in SlotsOf(cap')
    BY <1>1, <1>2, <1>8, StateFacts, SMTT(30) DEF Grow, SlotsOf
  <2>2. TypeOK'
    BY <1>1, <1>3, <1>8, <2>1, StateFacts, SMTT(30) DEF Grow, TypeOK, SlotsOf, table
  <2>. QED
    BY <1>1, <1>3, <1>8, <2>1, <2>2, StateFacts, SMTT(30) DEF Grow, Typed
<1>9. CASE GrowFails
  <2>1. pc # "idle" /\ todo' = Tail(todo) /\ pc' \in {"idle", "insert"}
        /\ (todo' = <<>> <=> pc' = "idle") /\ degraded' = TRUE /\ latched' = TRUE
        /\ UNCHANGED <<table, slots, cap, count, old, from>>
    BY <1>9 DEF GrowFails, Continue
  <2>2. TypeOK'
    BY <1>1, <1>3, <2>1, TodoFacts DEF TypeOK, table, Typed
  <2>3. \A n \in 1..Len(todo') : KeyOf(todo[n])' # NULL
    BY <1>1, <1>3, <2>1, TodoFacts DEF Typed
  <2>. QED
    BY <2>1, <2>2, <2>3 DEF Typed
<1>10. CASE Rehash
  <2>1. slots' \in SlotsOf(cap)
    <3>1. PICK n \in Nat : old \in SlotsOf(n)
      BY DEF Typed
    <3>2. CASE slots' = slots
      BY <3>2, StateFacts
    <3>3. CASE from \in DOMAIN old /\ old[from] # Free /\ RawInsert(slots, cap, old[from])
      <4>1. old[from] \in Slot
        BY <3>1, <3>3 DEF SlotsOf
      <4>2. Puts(slots', slots, cap, old[from])
        BY <3>3 DEF RawInsert, Puts
      <4>. QED
        BY <4>1, <4>2, StateFacts, PutsFacts
    <3>. QED
      BY <1>10, <3>2, <3>3 DEF Rehash
  <2>2. /\ UNCHANGED <<table, cap, count, degraded, latched, todo>> /\ from' \in Nat
        /\ pc' \in {"rehash", "place"} /\ (old' = old \/ old' = NoSlots) /\ pc = "rehash"
    BY <1>10, StateFacts DEF Rehash
  <2>3. TypeOK'
    BY <1>1, <1>3, <2>1, <2>2, StateFacts DEF TypeOK, SlotsOf, table
  <2>4. \E n \in Nat : old' \in SlotsOf(n)
    BY <2>2, NoSlotsFacts DEF Typed
  <2>5. \A n \in 1..Len(todo') : KeyOf(todo[n])' # NULL
    BY <1>1, <1>3, <2>2, TodoFacts DEF Typed
  <2>. QED
    BY <2>2, <2>3, <2>4, <2>5 DEF Typed
<1>11. CASE Place
  <2>1. pc # "idle" /\ todo' = Tail(todo) /\ pc' \in {"idle", "insert"}
        /\ (todo' = <<>> <=> pc' = "idle") /\ count' = count + 1
        /\ UNCHANGED <<table, cap, degraded, latched, old, from>>
    BY <1>11 DEF Place, Continue
  <2>2. count' \in 0..cap
    BY <1>1, <1>11, <2>1, StateFacts DEF Place, Typed
  <2>3. slots' \in SlotsOf(cap)
    <3>1. Puts(slots', slots, cap, Entry(Head(todo)))
      BY <1>11 DEF Place, RawInsert, Puts, Entry
    <3>2. Entry(Head(todo)) \in Slot
      BY <2>1, TodoFacts, StateFacts
    <3>. QED
      BY <3>1, <3>2, StateFacts, PutsFacts
  <2>4. TypeOK'
    BY <1>1, <1>3, <2>1, <2>2, <2>3, TodoFacts, StateFacts DEF TypeOK, table, SlotsOf
  <2>5. \A n \in 1..Len(todo') : KeyOf(todo[n])' # NULL
    <3>1. /\ Len(todo') = Len(todo) - 1 /\ Len(todo) \in Nat
          /\ \A n \in 1..Len(todo') : todo'[n] = todo[n + 1] /\ n + 1 \in 1..Len(todo)
      BY <2>1, TodoFacts
    <3>2. \A n \in 1..Len(todo) : KeyOf(todo[n]) # NULL
      BY DEF Typed
    <3>. QED
      BY <2>1, <3>1, <3>2 DEF KeyOf, table
  <2>. QED
    BY <2>1, <2>4, <2>5 DEF Typed
<1>12. CASE UNCHANGED vars
  <2>1. TypeOK'
    BY <1>1, <1>12 DEF Typed, TypeOK, vars, table, index, work, NRows, Rows
  <2>. QED
    BY <1>12, <2>1 DEF Typed, vars, table, index, work, KeyOf
<1>. QED
  BY <1>4, <1>5, <1>6, <1>7, <1>8, <1>9, <1>10, <1>11, <1>12 DEF Next, Quiet

-----------------------------------------------------------------------------
(* The entries.                                                            *)

\* Place puts the entry of the row in hand.
LEMMA PlaceFacts ==
  ASSUME Typed, Place
  PROVE  /\ Entry(Head(todo)) \in Slot /\ Puts(slots', slots, cap, Entry(Head(todo)))
         /\ pc = "place" /\ pc' \in {"idle", "insert"} /\ todo' = Tail(todo)
         /\ count' = count + 1 /\ UNCHANGED <<table, cap, degraded, old, from>>
<1>1. Puts(slots', slots, cap, Entry(Head(todo)))
  BY DEF Place, RawInsert, Puts, Entry
<1>2. pc = "place" /\ pc' \in {"idle", "insert"} /\ todo' = Tail(todo)
  BY DEF Place, Continue
<1>3. Entry(Head(todo)) \in Slot
  BY <1>2, TodoFacts, StateFacts
<1>. QED
  BY <1>1, <1>2, <1>3 DEF Place

\* grow's loop passes a free slot, copies a filled one, or ends.
LEMMA RehashFacts ==
  ASSUME Typed, Rehash
  PROVE  /\ pc = "rehash" /\ UNCHANGED <<table, cap, count, degraded, todo>>
         /\ \/ /\ from \notin Filled(old) /\ from \in DOMAIN old /\ slots' = slots
               /\ from' = from + 1 /\ UNCHANGED <<old, pc>>
            \/ /\ from \in Filled(old) /\ old[from] \in Slot
               /\ Puts(slots', slots, cap, old[from])
               /\ from' = from + 1 /\ UNCHANGED <<old, pc>>
            \/ from \notin DOMAIN old /\ slots' = slots /\ pc' = "place"
<1>1. PICK n \in Nat : old \in SlotsOf(n)
  BY DEF Typed
<1>2. \A i \in DOMAIN old : old[i] \in Slot \cup {Free}
  BY <1>1 DEF SlotsOf
<1>3. ASSUME from \in DOMAIN old, old[from] = Free
      PROVE  from \notin Filled(old)
  BY <1>3 DEF Filled
<1>4. ASSUME from \in DOMAIN old, old[from] # Free, RawInsert(slots, cap, old[from])
      PROVE  from \in Filled(old) /\ old[from] \in Slot /\ Puts(slots', slots, cap, old[from])
  BY <1>2, <1>4 DEF Filled, RawInsert, Puts
<1>. QED
  BY <1>3, <1>4 DEF Rehash

LEMMA CountedNext ==
  ASSUME IInv, [Next]_vars
  PROVE  Counted'
<1>. USE DEF IInv
<1>1. CASE Quiet \/ (\E r \in Rows, k \in Key : SetKey(r, k)) \/ Proceed \/ GrowFails
  <2>1. UNCHANGED <<slots, count>> /\ pc # "rehash" /\ pc' # "rehash"
    <3>1. CASE Quiet
      BY <3>1, QuietFacts DEF index
    <3>2. CASE \E r \in Rows, k \in Key : SetKey(r, k)
      BY <3>2 DEF SetKey, Continue, index
    <3>3. CASE Proceed \/ GrowFails
      BY <3>3 DEF Proceed, GrowFails, Continue, index
    <3>. QED
      BY <1>1, <3>1, <3>2, <3>3
  <2>. QED
    BY <2>1 DEF Counted
<1>2. CASE Compact
  <2>1. slots' = NoSlots /\ count' = 0 /\ pc' # "rehash"
    BY <1>2, CompactFacts DEF Continue
  <2>. QED
    BY <2>1, NoSlotsFacts DEF Counted
<1>3. CASE Grow
  <2>1. /\ count' = Cardinality(Filled(slots)) /\ old' = slots /\ from' = 0 /\ pc' = "rehash"
        /\ slots' = [i \in 0..(cap' - 1) |-> Free]
    BY <1>3 DEF Grow, Counted
  <2>2. Filled(slots') = {} /\ {i \in Filled(old') : i < from'} = {}
    BY <2>1, StateFacts, FilledFacts DEF Filled
  <2>. QED
    BY <2>1, <2>2 DEF Counted
<1>4. CASE Rehash
  <2>. DEFINE past(n) == {i \in Filled(old) : i < n}
  <2>1. PICK n \in Nat : old \in SlotsOf(n)
    BY DEF Typed
  <2>2. /\ Filled(old) \subseteq 0..(n - 1) /\ IsFiniteSet(Filled(old))
        /\ DOMAIN old = 0..(n - 1)
    BY <2>1, FilledFacts DEF SlotsOf
  <2>3. count = Cardinality(Filled(old)) /\ Cardinality(Filled(slots)) = Cardinality(past(from))
    BY <1>4, RehashFacts DEF Counted
  <2>4. ASSUME from \notin Filled(old), slots' = slots, from' = from + 1, UNCHANGED <<old, pc>>
        PROVE  Counted'
    <3>1. past(from + 1) = past(from)
      BY <2>2, <2>4, StateFacts
    <3>. QED
      BY <1>4, <2>3, <2>4, <3>1, RehashFacts DEF Counted
  <2>5. ASSUME from \in Filled(old), old[from] \in Slot, Puts(slots', slots, cap, old[from]),
               from' = from + 1, UNCHANGED <<old, pc>>
        PROVE  Counted'
    <3>1. past(from + 1) = past(from) \cup {from} /\ from \notin past(from)
      BY <2>2, <2>5, StateFacts
    <3>2. IsFiniteSet(past(from))
      BY <2>2, FS_Subset
    <3>3. Cardinality(past(from + 1)) = Cardinality(past(from)) + 1
      <4>. HIDE DEF past
      <4>. QED
        BY <3>1, <3>2, FS_AddElement
    <3>4. Cardinality(Filled(slots')) = Cardinality(Filled(slots)) + 1
      BY <2>5, StateFacts, PutsFacts
    <3>. QED
      BY <1>4, <2>3, <2>5, <3>3, <3>4, RehashFacts DEF Counted
  <2>6. ASSUME from \notin DOMAIN old, slots' = slots, pc' = "place"
        PROVE  Counted'
    <3>1. past(from) = Filled(old)
      BY <2>2, <2>6, StateFacts
    <3>. QED
      BY <1>4, <2>3, <2>6, <3>1, RehashFacts DEF Counted
  <2>. QED
    BY <1>4, <2>4, <2>5, <2>6, RehashFacts
<1>5. CASE Place
  <2>1. /\ Cardinality(Filled(slots')) = Cardinality(Filled(slots)) + 1
        /\ count = Cardinality(Filled(slots)) /\ count' = count + 1 /\ pc' # "rehash"
    BY <1>5, PlaceFacts, StateFacts, PutsFacts DEF Counted
  <2>. QED
    BY <2>1 DEF Counted
<1>6. CASE UNCHANGED vars
  BY <1>6 DEF Counted, vars, index, work
<1>. QED
  BY <1>1, <1>2, <1>3, <1>4, <1>5, <1>6 DEF Next, Quiet

\* No slot is emptied, so no entry is cut off from the probes for it.
LEMMA ChainNext ==
  ASSUME IInv, [Next]_vars
  PROVE  Chain(slots', cap')
<1>. USE DEF IInv
<1>1. CASE UNCHANGED <<slots, cap>>
  BY <1>1
<1>2. CASE Filled(slots') = {}
  BY <1>2 DEF Chain
<1>3. ASSUME NEW e \in Slot, Puts(slots', slots, cap, e), cap' = cap
      PROVE  Chain(slots', cap')
  BY <1>3, StateFacts, PutsFacts
<1>4. CASE Compact
  BY <1>2, <1>4, CompactFacts, NoSlotsFacts
<1>5. CASE Grow
  BY <1>2, <1>5 DEF Grow, Filled
<1>6. CASE Rehash
  BY <1>1, <1>3, <1>6, RehashFacts
<1>7. CASE Place
  BY <1>3, <1>7, PlaceFacts
<1>8. CASE Quiet \/ (\E r \in Rows, k \in Key : SetKey(r, k)) \/ Proceed \/ GrowFails \/ UNCHANGED vars
  <2>1. UNCHANGED <<slots, cap>>
    BY <1>8, QuietFacts DEF SetKey, Proceed, GrowFails, vars, index
  <2>. QED
    BY <1>1, <2>1
<1>. QED
  BY <1>4, <1>5, <1>6, <1>7, <1>8 DEF Next, Quiet

\* Every keyed row is found in the index, in the slots grow has yet to copy,
\* or among the rows yet to be inserted.
Waits(r) == \E n \in 1..Len(todo) : todo[n] = r
Entered(r) == \E i \in Filled(slots) : slots[i] = Entry(r)
Copied(r) == pc = "rehash" /\ \E i \in Filled(old) : i >= from /\ old[i] = Entry(r)

LEMMA IndexedNext ==
  ASSUME IInv, [Next]_vars
  PROVE  Indexed'
<1>. USE DEF IInv
<1>1. SUFFICES ASSUME ~degraded', NEW r \in Rows', KeyOf(r)' # NULL
               PROVE  Waits(r)' \/ Entered(r)' \/ Copied(r)'
  BY DEF Indexed, Waits, Entered, Copied
<1>2. ASSUME ~degraded, r \in Rows, KeyOf(r) # NULL
      PROVE  Waits(r) \/ Entered(r) \/ Copied(r)
  BY <1>2 DEF Indexed, Waits, Entered, Copied
<1>3. ASSUME UNCHANGED table
      PROVE  r \in Rows /\ KeyOf(r) # NULL /\ Entry(r)' = Entry(r)
  BY <1>1, <1>3 DEF table, Rows, NRows, KeyOf, Entry
<1>4. ASSUME NEW e \in Slot, Puts(slots', slots, cap, e), Entry(r)' = Entry(r), Entered(r) \/ e = Entry(r)
      PROVE  Entered(r)'
  BY <1>4, StateFacts, PutsFacts DEF Entered
<1>5. CASE Quiet
  <2>1. ~degraded /\ r \in Rows /\ KeyOf(r) # NULL /\ Entry(r)' = Entry(r)
    BY <1>1, <1>5, QuietFacts DEF Entry, index
  <2>2. Entered(r)
    BY <1>2, <1>5, <2>1, QuietFacts DEF Waits, Copied
  <2>. QED
    BY <1>5, <2>1, <2>2, QuietFacts DEF Entered, index
<1>6. ASSUME NEW q \in Rows, NEW k \in Key, SetKey(q, k)
      PROVE  Waits(r)' \/ Entered(r)' \/ Copied(r)'
  <2>1. todo' = <<q>> /\ pc = "idle" /\ todo = <<>> /\ UNCHANGED index /\ r \in Rows
    BY <1>1, <1>6, SetKeyFacts DEF SetKey, Typed, TypeOK
  <2>2. CASE r = q
    BY <2>1, <2>2 DEF Waits
  <2>3. CASE r # q
    <3>1. ~degraded /\ KeyOf(r) # NULL /\ Entry(r)' = Entry(r)
      BY <1>1, <1>6, <2>1, <2>3, SetKeyFacts DEF Entry, index
    <3>2. Entered(r)
      BY <1>2, <2>1, <3>1 DEF Waits, Copied
    <3>. QED
      BY <2>1, <3>1, <3>2 DEF Entered, index
  <2>. QED
    BY <2>2, <2>3
<1>7. CASE Compact
  BY <1>1, <1>7, CompactFacts DEF Waits
<1>8. CASE Proceed \/ UNCHANGED vars
  <2>1. UNCHANGED <<table, slots, degraded, todo>> /\ (Copied(r) => Copied(r)')
    BY <1>3, <1>8 DEF Proceed, vars, index, work, Copied
  <2>. QED
    BY <1>1, <1>2, <1>3, <2>1 DEF Waits, Entered
<1>9. CASE Grow
  <2>1. /\ UNCHANGED <<table, degraded, todo>> /\ pc = "insert" /\ pc' = "rehash"
        /\ old' = slots /\ from' = 0
    BY <1>9 DEF Grow
  <2>2. \A i \in Filled(slots) : i >= 0
    BY StateFacts, FilledFacts
  <2>3. Entered(r) => Copied(r)'
    BY <1>3, <2>1, <2>2 DEF Entered, Copied
  <2>. QED
    BY <1>1, <1>2, <1>3, <2>1, <2>3 DEF Waits, Copied
<1>10. CASE GrowFails
  BY <1>1, <1>10 DEF GrowFails
<1>11. CASE Rehash
  <2>1. UNCHANGED <<table, degraded, todo>>
    BY <1>11, RehashFacts
  <2>2. CASE Waits(r)
    BY <2>1, <2>2 DEF Waits
  <2>3. CASE Entered(r)
    <3>1. CASE slots' = slots
      BY <1>3, <2>1, <2>3, <3>1 DEF Entered
    <3>2. CASE slots' # slots
      BY <1>3, <1>4, <1>11, <2>1, <2>3, <3>2, RehashFacts
    <3>. QED
      BY <3>1, <3>2
  <2>4. CASE Copied(r)
    <3>1. PICK i \in Filled(old) : i >= from /\ old[i] = Entry(r)
      BY <2>4 DEF Copied
    <3>2. from \in DOMAIN old /\ i \in Nat /\ from \in Nat
      <4>1. PICK n \in Nat : old \in SlotsOf(n)
        BY DEF Typed
      <4>2. i \in 0..(n - 1) /\ DOMAIN old = 0..(n - 1)
        BY <4>1, <3>1, FilledFacts DEF SlotsOf
      <4>. QED
        BY <3>1, <4>2, StateFacts
    <3>3. CASE i = from
      <4>1. old[from] \in Slot /\ Puts(slots', slots, cap, old[from])
        BY <1>11, <3>1, <3>2, <3>3, RehashFacts
      <4>. QED
        BY <1>3, <1>4, <2>1, <3>1, <3>3, <4>1
    <3>4. CASE i # from
      <4>1. from' = from + 1 /\ UNCHANGED <<old, pc>> /\ i >= from + 1
        BY <1>11, <3>1, <3>2, <3>4, RehashFacts
      <4>. QED
        BY <1>3, <2>1, <2>4, <3>1, <4>1 DEF Copied
    <3>. QED
      BY <3>3, <3>4
  <2>. QED
    BY <1>1, <1>2, <1>3, <2>1, <2>2, <2>3, <2>4
<1>12. CASE Place
  <2>1. UNCHANGED <<table, degraded>> /\ pc = "place" /\ todo' = Tail(todo)
    BY <1>12, PlaceFacts
  <2>2. CASE Waits(r)
    <3>1. PICK n \in 1..Len(todo) : todo[n] = r
      BY <2>2 DEF Waits
    <3>2. CASE n = 1
      BY <1>3, <1>4, <1>12, <2>1, <3>1, <3>2, PlaceFacts, TodoFacts
    <3>3. CASE n # 1
      <4>1. n - 1 \in 1..(Len(todo) - 1) /\ (n - 1) + 1 = n /\ Len(todo') = Len(todo) - 1
        BY <2>1, <3>3, TodoFacts
      <4>2. todo'[n - 1] = r
        BY <2>1, <3>1, <4>1, TodoFacts
      <4>. QED
        BY <4>1, <4>2 DEF Waits
    <3>. QED
      BY <3>2, <3>3
  <2>3. CASE Entered(r)
    BY <1>3, <1>4, <1>12, <2>1, <2>3, PlaceFacts
  <2>. QED
    BY <1>1, <1>2, <1>3, <2>1, <2>2, <2>3 DEF Copied
<1>. QED
  BY <1>5, <1>6, <1>7, <1>8, <1>9, <1>10, <1>11, <1>12 DEF Next, Quiet

THEOREM Invariance == Spec => []IInv
<1>1. Init => IInv
  BY InitInv
<1>2. IInv /\ [Next]_vars => IInv'
  BY TypedNext, CountedNext, ChainNext, IndexedNext DEF IInv
<1>. QED
  BY <1>1, <1>2, PTL DEF Spec

-----------------------------------------------------------------------------
(* The results.                                                            *)

\* The type invariant: the slots are as many as cap says, the count no more
\* than they are, and every row that waits for its insertion exists.
THEOREM IndexTypeCorrect == Spec => []TypeOK
<1>1. IInv => TypeOK
  BY DEF IInv, Typed
<1>. QED
  BY <1>1, Invariance, PTL

LEMMA RoomHolds == IInv => RoomToInsert
<1>. SUFFICES ASSUME IInv PROVE RoomToInsert
  OBVIOUS
<1>. USE DEF IInv
<1>1. count = Cardinality(Filled(slots)) \/ pc = "rehash"
  BY DEF Counted
<1>2. ASSUME pc \in {"rehash", "place"}
      PROVE  Filled(slots) # DOMAIN slots
  <2>1. Cardinality(Filled(slots)) <= count
    <3>1. PICK n \in Nat : old \in SlotsOf(n)
      BY DEF Typed
    <3>2. CASE pc = "rehash"
      <4>1. {i \in Filled(old) : i < from} \subseteq Filled(old)
        OBVIOUS
      <4>2. Cardinality({i \in Filled(old) : i < from}) <= Cardinality(Filled(old))
        BY <3>1, <4>1, FilledFacts, FS_Subset
      <4>. QED
        BY <3>2, <4>2 DEF Counted
    <3>3. CASE pc # "rehash"
      BY <3>3, StateFacts DEF Counted
    <3>. QED
      BY <3>2, <3>3
  <2>2. count < cap
    BY <1>2 DEF Typed
  <2>3. Cardinality(DOMAIN slots) = cap
    <3>. cap - 1 \in Int /\ 0 \in Int
      BY StateFacts
    <3>1. Cardinality(0..(cap - 1)) = IF 0 > cap - 1 THEN 0 ELSE (cap - 1) - 0 + 1
      BY FS_Interval
    <3>. QED
      BY <3>1, StateFacts
  <2>4. Cardinality(Filled(slots)) \in Nat
    BY StateFacts, FilledFacts
  <2>. QED
    BY <2>1, <2>2, <2>3, <2>4, StateFacts
<1>. QED
  BY <1>1, <1>2 DEF RoomToInsert

\* raw_insert always finds a free slot: an index grows before it is full, and
\* while it is grown no more is copied than fits.  The count is that of the
\* filled slots.
THEOREM AlwaysRoom == Spec => []RoomToInsert
<1>. QED
  BY Invariance, RoomHolds, PTL

\* So raw_insert's loop, which has no bound, ends for every hash.
Ends == pc \in {"rehash", "place"} =>
          \A h \in Nat : \E i \in 0..(cap - 1) :
            slots[i] = Free /\ Reached(slots, cap, h, i)

THEOREM InsertEnds == Spec => []Ends
<1>1. IInv => Ends
  BY RoomHolds, StateFacts, ProbeEnds DEF IInv, RoomToInsert, Ends
<1>. QED
  BY <1>1, Invariance, PTL

\* At rest, an index that dropped nothing leads a probe for a row's hash to a
\* slot of that row.
LEMMA FoundAtRest ==
  ASSUME IInv, pc = "idle", Usable, NEW r \in Keyed
  PROVE  \E i \in Found(Hash[KeyOf(r)]) : slots[i].row = r
<1>. USE DEF IInv
<1>1. r \in Rows /\ KeyOf(r) # NULL /\ todo = <<>>
  BY DEF Keyed, Typed, TypeOK
<1>2. PICK i \in Filled(slots) : slots[i] = Entry(r)
  BY <1>1 DEF Indexed, Usable
<1>3. slots[i].hash = Hash[KeyOf(r)] /\ slots[i].row = r
  BY <1>2 DEF Entry
<1>4. Reached(slots, cap, slots[i].hash, i)
  BY DEF Chain
<1>5. i \in 0..(cap - 1) /\ slots[i] # Free
  BY StateFacts DEF Filled
<1>6. cap # 0
  BY <1>5
<1>. QED
  BY <1>3, <1>4, <1>5, <1>6 DEF Found

\* The duplicate check and the foreign-key match by the index answer what a
\* scan answers.
THEOREM IndexAgrees == Spec => []ConstraintsAgree
<1>1. ASSUME IInv, pc = "idle", Usable, NEW r \in Keyed
      PROVE  DupByIndex(r) <=> DupByScan(r)
  <2>1. DupByIndex(r) => DupByScan(r)
    BY DEF DupByIndex, DupByScan
  <2>2. ASSUME NEW q \in Keyed, q # r, KeyOf(q) = KeyOf(r)
        PROVE  DupByIndex(r)
    BY <1>1, <2>2, FoundAtRest DEF DupByIndex
  <2>. QED
    BY <2>1, <2>2 DEF DupByScan
<1>2. ASSUME IInv, pc = "idle", Usable, NEW k \in Key
      PROVE  MatchByIndex(k) <=> MatchByScan(k)
  <2>1. MatchByIndex(k) => MatchByScan(k)
    BY DEF MatchByIndex, MatchByScan
  <2>2. ASSUME NEW q \in Keyed, KeyOf(q) = k
        PROVE  MatchByIndex(k)
    BY <1>2, <2>2, FoundAtRest DEF MatchByIndex
  <2>. QED
    BY <2>1, <2>2 DEF MatchByScan
<1>3. IInv => ConstraintsAgree
  BY <1>1, <1>2 DEF ConstraintsAgree
<1>. QED
  BY <1>3, Invariance, PTL

\* A point lookup selects the rows a scan selects, where keys that compare
\* equal hash alike.  value_hash does not promise that of INT keys beyond 2^53,
\* which compare_values rounds.
EqualHashAlike == \A k, l \in Key : Image[k] = Image[l] => Hash[k] = Hash[l]

THEOREM LookupComplete ==
  ASSUME EqualHashAlike
  PROVE  Spec => []LookupMissesNothing
<1>1. ASSUME IInv, pc = "idle", Usable, NEW k \in Key
      PROVE  {slots[i].row : i \in SlotsSelected(k)} = RowsSelected(k)
  <2>1. ASSUME NEW i \in SlotsSelected(k)
        PROVE  slots[i].row \in RowsSelected(k)
    BY DEF SlotsSelected, RowsSelected
  <2>2. ASSUME NEW r \in RowsSelected(k)
        PROVE  \E i \in SlotsSelected(k) : slots[i].row = r
    <3>1. r \in Keyed /\ Image[KeyOf(r)] = Image[k]
      BY DEF RowsSelected, Equal
    <3>2. KeyOf(r) \in Key
      BY <1>1, <3>1, StateFacts DEF Keyed, IInv
    <3>3. Hash[KeyOf(r)] = Hash[k]
      BY <3>1, <3>2 DEF EqualHashAlike
    <3>4. PICK i \in Found(Hash[KeyOf(r)]) : slots[i].row = r
      BY <1>1, <3>1, FoundAtRest
    <3>. QED
      BY <3>1, <3>3, <3>4 DEF SlotsSelected, Equal
  <2>. QED
    BY <2>1, <2>2
<1>2. IInv => LookupMissesNothing
  BY <1>1 DEF LookupMissesNothing
<1>. QED
  BY <1>2, Invariance, PTL
=============================================================================
