---------------------------- MODULE DurableProofs ----------------------------
(***************************************************************************)
(* Theorems about Durable, for any number of processes, rows and values.   *)
(***************************************************************************)
EXTENDS Durable, NatFacts, TLAPS, SequenceTheorems

\* What a row can hold.
Cell == Val \cup {Blank, Dead}

-----------------------------------------------------------------------------
(* Compacting keeps the live rows, each once.                              *)

\* The loop of Compacted, as a function of the rows it has looked at.
LEMMA CompactedLoop ==
  ASSUME NEW m \in Content
  PROVE  \E f \in [0..Len(m) -> Content] :
           /\ f[0] = <<>>
           /\ \A n \in 1..Len(m) :
                f[n] = IF m[n] = Dead THEN f[n - 1] ELSE Append(f[n - 1], m[n])
           /\ Compacted(m) = f[Len(m)]
<1>. DEFINE G == [n \in Nat |-> [s \in Content |->
                   IF n \notin 1..Len(m) \/ m[n] = Dead THEN s ELSE Append(s, m[n])]]
            Loop(f) == f = [n \in 0..Len(m) |->
                              IF n = 0 THEN <<>>
                              ELSE IF m[n] = Dead THEN f[n - 1]
                                   ELSE Append(f[n - 1], m[n])]
            e == <<>>
<1>1. G \in [Nat -> [Content -> Content]] /\ e \in Content
  BY DEF Content
<1>2. PICK h : IsLoop(h, Content, e, G)
  <2>1. G \in RoundsOf(Content)
    BY <1>1 DEF RoundsOf
  <2>. HIDE DEF G, e
  <2>. QED
    BY <1>1, <2>1, Rounds
<1>. DEFINE g == [n \in 0..Len(m) |-> h[n]]
<1>3. Len(m) \in Nat
  BY DEF Content
<1>4. \A n \in 1..Len(m) : h[n] = IF m[n] = Dead THEN h[n - 1] ELSE Append(h[n - 1], m[n])
  <2>1. SUFFICES ASSUME NEW n \in 1..Len(m)
                 PROVE  h[n] = IF m[n] = Dead THEN h[n - 1] ELSE Append(h[n - 1], m[n])
    OBVIOUS
  <2>2. n - 1 \in Nat /\ (n - 1) + 1 = n
    BY <1>3
  <2>3. h[(n - 1) + 1] = G[(n - 1) + 1][h[n - 1]] /\ h[n - 1] \in Content /\ n \in Nat
    <3>. HIDE DEF G
    <3>1. n \in Nat
      BY <1>3
    <3>. QED
      BY <1>2, <2>2, <3>1 DEF IsLoop
  <2>. QED
    BY <2>2, <2>3
<1>5. Loop(g)
  <2>1. ASSUME NEW n \in 0..Len(m)
        PROVE  g[n] = IF n = 0 THEN <<>>
                      ELSE IF m[n] = Dead THEN g[n - 1] ELSE Append(g[n - 1], m[n])
    <3>1. CASE n = 0
      BY <1>2, <1>3, <3>1 DEF IsLoop
    <3>2. CASE n # 0
      <4>1. n \in 1..Len(m) /\ n - 1 \in 0..Len(m)
        BY <1>3, <3>2
      <4>2. g[n] = h[n] /\ g[n - 1] = h[n - 1]
        BY <4>1
      <4>. QED
        BY <1>4, <3>2, <4>1, <4>2
    <3>. QED
      BY <3>1, <3>2
  <2>. QED
    BY <2>1, Zenon
<1>. DEFINE c == CHOOSE f : Loop(f)
<1>6. Loop(c)
  BY <1>5
<1>7. Compacted(m) = c[Len(m)]
  BY DEF Compacted
<1>. HIDE DEF c, g, G
<1>8. c \in [0..Len(m) -> Content]
  <2>. DEFINE T == {n \in Nat : n <= Len(m) => c[n] \in Content}
  <2>1. 0 \in T
    BY <1>3, <1>6 DEF Content
  <2>2. ASSUME NEW n \in Nat, n \in T, n + 1 <= Len(m)
        PROVE  c[n + 1] \in Content
    <3>1. /\ c[n] \in Content /\ n + 1 \in 1..Len(m) /\ n + 1 \in 0..Len(m)
          /\ (n + 1) - 1 = n /\ n + 1 # 0
      BY <1>3, <2>2
    <3>2. c[n + 1] = IF m[n + 1] = Dead THEN c[n] ELSE Append(c[n], m[n + 1])
      BY <1>6, <3>1
    <3>. QED
      BY <3>1, <3>2 DEF Content
  <2>3. \A n \in Nat : n \in T => n + 1 \in T
    BY <2>2
  <2>. HIDE DEF T
  <2>4. Nat \subseteq T
    BY <2>1, <2>3, Induction
  <2>5. \A n \in 0..Len(m) : c[n] \in Content
    BY <1>3, <2>4 DEF T
  <2>. QED
    BY <1>6, <2>5
<1>9. c[0] = <<>>
  BY <1>3, <1>6
<1>10. ASSUME NEW n \in 1..Len(m)
       PROVE  c[n] = IF m[n] = Dead THEN c[n - 1] ELSE Append(c[n - 1], m[n])
  <2>1. n # 0 /\ n \in 0..Len(m)
    BY <1>3
  <2>. QED
    BY <1>6, <2>1
<1>. QED
  BY <1>7, <1>8, <1>9, <1>10

\* c has the live rows of m up to number n, in their order, and nothing else:
\* its item i is row at[i].
Gathers(c, m, n, at) ==
  /\ at \in [1..Len(c) -> 1..n]
  /\ \A i \in 1..Len(c) : m[at[i]] # Dead /\ c[i] = m[at[i]]
  /\ \A i, j \in 1..Len(c) : i < j => at[i] < at[j]
  /\ \A r \in 1..n : m[r] # Dead => \E i \in 1..Len(c) : at[i] = r

LEMMA CompactedGathers ==
  ASSUME NEW m \in Content
  PROVE  /\ Compacted(m) \in Content
         /\ \E at : Gathers(Compacted(m), m, Len(m), at)
<1>. DEFINE N == Len(m)
<1>1. PICK f \in [0..N -> Content] :
             /\ f[0] = <<>>
             /\ \A n \in 1..N : f[n] = IF m[n] = Dead THEN f[n - 1]
                                     ELSE Append(f[n - 1], m[n])
             /\ Compacted(m) = f[N]
  BY CompactedLoop
<1>2. N \in Nat
  BY DEF Content
<1>. DEFINE T == {n \in Nat : n <= N => \E at : Gathers(f[n], m, n, at)}
<1>3. 0 \in T
  <2>1. Gathers(f[0], m, 0, <<>>)
    BY <1>1 DEF Gathers
  <2>. QED
    BY <2>1
<1>4. ASSUME NEW n \in Nat, n \in T, n + 1 <= N
      PROVE  \E at : Gathers(f[n + 1], m, n + 1, at)
  <2>1. PICK at : Gathers(f[n], m, n, at)
    BY <1>2, <1>4
  <2>2. /\ n + 1 \in 1..N /\ (n + 1) - 1 = n /\ f[n] \in Content /\ m[n + 1] \in Cell
        /\ Len(f[n]) \in Nat
    <3>1. n + 1 \in 1..N /\ (n + 1) - 1 = n /\ n \in 0..N
      BY <1>2, <1>4
    <3>2. f[n] \in Content
      BY <1>1, <3>1
    <3>3. m \in Seq(Cell) /\ f[n] \in Seq(Cell)
      BY <3>2 DEF Content, Cell
    <3>. HIDE DEF T
    <3>4. m[n + 1] \in Cell /\ Len(f[n]) \in Nat
      BY <3>1, <3>3
    <3>. QED
      BY <3>1, <3>2, <3>4
  <2>3. f[n + 1] = IF m[n + 1] = Dead THEN f[n] ELSE Append(f[n], m[n + 1])
    BY <1>1, <2>2
  <2>4. CASE m[n + 1] = Dead
    <3>1. Gathers(f[n], m, n + 1, at)
      BY <2>1, <2>2, <2>4 DEF Gathers
    <3>. QED
      BY <2>3, <2>4, <3>1
  <2>5. CASE m[n + 1] # Dead
    <3>. DEFINE c == Append(f[n], m[n + 1])
                k == Len(f[n])
                to == [i \in 1..(k + 1) |-> IF i <= k THEN at[i] ELSE n + 1]
    <3>1. /\ Len(c) = k + 1 /\ c[k + 1] = m[n + 1]
          /\ \A i \in 1..k : c[i] = f[n][i]
      <4>1. f[n] \in Seq(Cell) /\ m[n + 1] \in Cell
        BY <2>2 DEF Content, Cell
      <4>. QED
        BY <4>1, AppendIs
    <3>2. \A i \in 1..k : at[i] \in 1..n /\ to[i] = at[i]
      BY <2>1, <2>2, SMTT(30) DEF Gathers
    <3>3. to[k + 1] = n + 1 /\ to \in [1..(k + 1) -> 1..(n + 1)]
      <4>1. k + 1 \in 1..(k + 1) /\ n + 1 \in 1..(n + 1) /\ ~(k + 1 <= k)
        BY <2>2
      <4>2. to[k + 1] = n + 1
        BY <4>1
      <4>3. \A i \in 1..(k + 1) : to[i] \in 1..(n + 1)
        <5>. HIDE DEF to
        <5>. QED
          BY <2>2, <3>2, <4>1, <4>2, SMTT(30)
      <4>. QED
        BY <4>2, <4>3
    <3>4. \A i \in 1..(k + 1) : i = k + 1 \/ i \in 1..k
      BY <2>2
    <3>. HIDE DEF to, c
    <3>5. \A i \in 1..(k + 1) : m[to[i]] # Dead /\ c[i] = m[to[i]]
      BY <2>1, <2>5, <3>1, <3>2, <3>3, <3>4 DEF Gathers
    <3>6. \A i, j \in 1..(k + 1) : i < j => to[i] < to[j]
      BY <2>1, <2>2, <3>2, <3>3, <3>4 DEF Gathers
    <3>7. ASSUME NEW r \in 1..(n + 1), m[r] # Dead
          PROVE  \E i \in 1..(k + 1) : to[i] = r
      <4>1. CASE r = n + 1
        BY <2>2, <3>3, <4>1
      <4>2. CASE r \in 1..n
        <5>1. PICK i \in 1..k : at[i] = r
          BY <2>1, <3>7, <4>2 DEF Gathers
        <5>. QED
          BY <2>2, <3>2, <5>1, SMTT(30)
      <4>. QED
        BY <4>1, <4>2
    <3>8. Gathers(c, m, n + 1, to)
      BY <3>1, <3>3, <3>5, <3>6, <3>7 DEF Gathers
    <3>. QED
      BY <2>3, <2>5, <3>8 DEF c
  <2>. QED
    BY <2>4, <2>5
<1>5. ASSUME NEW n \in Nat, n \in T
      PROVE  n + 1 \in T
  <2>1. n + 1 <= N => \E at : Gathers(f[n + 1], m, n + 1, at)
    BY <1>4, <1>5
  <2>2. n + 1 \in Nat
    OBVIOUS
  <2>. QED
    BY <2>1, <2>2, Zenon
<1>. HIDE DEF T
<1>6. N \in T
  BY <1>2, <1>3, <1>5, Induction
<1>7. \E at : Gathers(f[N], m, N, at)
  BY <1>2, <1>6 DEF T
<1>. QED
  BY <1>1, <1>2, <1>7

\* The values of a table with numbered rows; no value of a program's data is
\* there twice.
Values(m) == {m[r] : r \in 1..Len(m)} \cap Val

Distinct(m) == \A r, q \in 1..Len(m) : m[r] = m[q] /\ m[r] \in Val => r = q

LEMMA CompactedShows ==
  ASSUME NEW m \in Content
  PROVE  /\ Compacted(m) \in Content
         /\ Shown(Compacted(m)) = Shown(m)
         /\ Values(Compacted(m)) = Values(m)
         /\ Distinct(m) => Distinct(Compacted(m))
<1>. DEFINE c == Compacted(m)
<1>1. c \in Content
  BY CompactedGathers
<1>2. PICK at : Gathers(c, m, Len(m), at)
  BY CompactedGathers
<1>3. Len(m) \in Nat /\ Len(c) \in Nat
  BY <1>1 DEF Content
<1>. HIDE DEF c
<1>4. \A i \in 1..Len(c) : at[i] \in 1..Len(m) /\ c[i] = m[at[i]] /\ c[i] # Dead
  BY <1>2 DEF Gathers
<1>5. \A r \in 1..Len(m) : m[r] # Dead => \E i \in 1..Len(c) : c[i] = m[r]
  BY <1>2 DEF Gathers
<1>8. Shown(c) = Shown(m)
  <2>1. Shown(c) = {c[i] : i \in 1..Len(c)}
    BY <1>4 DEF Shown, LiveRows
  <2>. QED
    BY <2>1, <1>4, <1>5, SMTT(30) DEF Shown, LiveRows
<1>9. Values(c) = Values(m)
  <2>1. Dead \notin Val
    BY ConstantAssumption
  <2>. QED
    BY <2>1, <1>4, <1>5 DEF Values
<1>6. ASSUME Distinct(m), NEW r \in 1..Len(c), NEW q \in 1..Len(c),
             c[r] = c[q], c[r] \in Val
      PROVE  r = q
  <2>1. at[r] = at[q]
    BY <1>2, <1>3, <1>6 DEF Gathers, Distinct
  <2>2. at[r] \in Nat /\ at[q] \in Nat
    BY <1>2 DEF Gathers
  <2>3. ~(r < q) /\ ~(q < r)
    BY <1>2, <2>1, <2>2 DEF Gathers
  <2>. QED
    BY <1>3, <2>3
<1>7. Distinct(m) => Distinct(c)
  BY <1>6 DEF Distinct
<1>. QED
  BY <1>1, <1>7, <1>8, <1>9 DEF c

-----------------------------------------------------------------------------
(* What a reader gets.                                                     *)

\* Behind its first item a WAL holds frames, or pieces of frames.
FramesFollow(w) == \A i \in 2..Len(w) : w[i] \in Frame \cup {Torn}

LEMMA FrameFields ==
  ASSUME NEW f \in Frame
  PROVE  f.row \in 1..MaxRow /\ f.row \in Nat /\ f.val \in Cell /\ f # Torn /\ f # Header
BY ConstantAssumption DEF Frame, RowNum, Cell

LEMMA GoodFrames ==
  ASSUME NEW w \in Seq(Items), FramesFollow(w), NEW i \in Good(w)
  PROVE  i \in 2..Len(w) /\ i \in Nat /\ w[i] \in Frame
<1>1. i \in 2..Len(w) /\ Len(w) \in Nat
  BY DEF Good
<1>2. i \in 2..i
  BY <1>1
<1>3. w[i] # Torn
  BY <1>2 DEF Good
<1>. QED
  BY <1>1, <1>3 DEF FramesFollow

LEMMA LastRowType ==
  ASSUME NEW b \in Content, NEW w \in Seq(Items), FramesFollow(w)
  PROVE  /\ LastRow(b, w) \in Nat /\ Len(b) <= LastRow(b, w)
         /\ \A i \in Good(w) : w[i].row <= LastRow(b, w)
         /\ LastRow(b, w) = Len(b) \/ \E i \in Good(w) : w[i].row = LastRow(b, w)
<1>. DEFINE S == {Len(b)} \cup {w[i].row : i \in Good(w)}
            B == Len(b) + MaxRow
<1>1. Len(b) \in Nat /\ MaxRow \in Nat /\ B \in Nat
  BY ConstantAssumption DEF Content
<1>2. \A i \in Good(w) : w[i].row \in 1..MaxRow
  BY GoodFrames, FrameFields
<1>3. S \subseteq 0..B /\ S # {} /\ Len(b) \in S
  BY <1>1, <1>2
<1>. HIDE DEF S, B
<1>4. Max(S) \in S /\ \A m \in S : m <= Max(S)
  BY <1>1, <1>3, MaxNat
<1>5. LastRow(b, w) = Max(S)
  BY DEF LastRow, S
<1>6. Max(S) \in 0..B
  BY <1>3, <1>4
<1>7. LastRow(b, w) \in Nat /\ Len(b) <= LastRow(b, w)
  BY <1>1, <1>3, <1>4, <1>5, <1>6
<1>8. \A i \in Good(w) : w[i].row <= LastRow(b, w)
  <2>1. \A i \in Good(w) : w[i].row \in S
    BY DEF S
  <2>. QED
    BY <1>4, <1>5, <2>1
<1>9. LastRow(b, w) = Len(b) \/ \E i \in Good(w) : w[i].row = LastRow(b, w)
  <2>1. \A m \in S : m = Len(b) \/ \E i \in Good(w) : w[i].row = m
    BY DEF S
  <2>. QED
    BY <1>4, <1>5, <2>1
<1>. QED
  BY <1>7, <1>8, <1>9

LEMMA OfRowLast ==
  ASSUME NEW w \in Seq(Items), FramesFollow(w), NEW r, OfRow(w, r) # {}
  PROVE  /\ Max(OfRow(w, r)) \in OfRow(w, r)
         /\ \A i \in OfRow(w, r) : i <= Max(OfRow(w, r))
<1>1. OfRow(w, r) \subseteq 0..Len(w) /\ Len(w) \in Nat
  BY GoodFrames DEF OfRow
<1>. QED
  BY <1>1, MaxNat

\* Loading gives a table.
LEMMA ReplayType ==
  ASSUME NEW b \in Content, NEW w \in Seq(Items), FramesFollow(w)
  PROVE  Replay(b, w) \in Content
<1>1. CASE w = <<>> \/ w[1] # Header
  BY <1>1 DEF Replay
<1>2. CASE ~(w = <<>> \/ w[1] # Header)
  <2>. DEFINE at(r) == IF OfRow(w, r) # {} THEN w[Max(OfRow(w, r))].val
                       ELSE IF r <= Len(b) THEN b[r] ELSE Blank
  <2>1. LastRow(b, w) \in Nat /\ Len(b) \in Nat
    BY LastRowType DEF Content
  <2>2. ASSUME NEW r \in 1..LastRow(b, w)
        PROVE  at(r) \in Cell
    <3>1. CASE OfRow(w, r) # {}
      <4>1. w[Max(OfRow(w, r))] \in Frame
        BY <3>1, OfRowLast, GoodFrames DEF OfRow
      <4>. QED
        BY <3>1, <4>1, FrameFields
    <3>2. CASE OfRow(w, r) = {}
      BY <2>1, <3>2 DEF Content, Cell
    <3>. QED
      BY <3>1, <3>2
  <2>3. Replay(b, w) = [r \in 1..LastRow(b, w) |-> at(r)]
    BY <1>2 DEF Replay
  <2>. HIDE DEF at
  <2>. QED
    BY <2>1, <2>2, <2>3 DEF Content, Cell
<1>. QED
  BY <1>1, <1>2

\* A frame written behind a whole WAL sets its row, and what it has to grow
\* the table for stays blank.
LEMMA ReplayAppend ==
  ASSUME NEW b \in Content, NEW w \in Seq(Items), w # <<>>, w[1] = Header,
         \A i \in 2..Len(w) : w[i] \in Frame, NEW f \in Frame
  PROVE  LET d == Replay(b, w)
             e == Replay(b, Append(w, f))
         IN  /\ Len(e) = IF f.row > Len(d) THEN f.row ELSE Len(d)
             /\ \A r \in 1..Len(e) : e[r] = IF r = f.row THEN f.val
                                           ELSE IF r <= Len(d) THEN d[r] ELSE Blank
<1>. DEFINE v == Append(w, f)
            k == Len(w)
<1>1. /\ v \in Seq(Items) /\ Len(v) = k + 1 /\ v[k + 1] = f
      /\ \A i \in 1..k : v[i] = w[i]
  BY DEF Items
<1>2. k \in Nat \ {0} /\ v # <<>> /\ v[1] = Header
  BY <1>1
<1>. HIDE DEF v
<1>3. \A i \in 2..(k + 1) : v[i] \in Frame
  BY <1>1, <1>2
<1>4. FramesFollow(w) /\ FramesFollow(v)
  BY <1>1, <1>3 DEF FramesFollow
<1>5. Good(w) = 2..k
  BY FrameFields DEF Good
<1>6. Good(v) = 2..(k + 1)
  BY <1>1, <1>3, FrameFields DEF Good
<1>7. /\ LastRow(b, w) \in Nat /\ Len(b) <= LastRow(b, w) /\ Len(b) \in Nat
      /\ \A i \in 2..k : w[i].row <= LastRow(b, w) /\ w[i].row \in Nat
      /\ LastRow(b, w) = Len(b) \/ \E i \in 2..k : w[i].row = LastRow(b, w)
  BY <1>4, <1>5, LastRowType, FrameFields DEF Content
<1>8. /\ LastRow(b, v) \in Nat /\ Len(b) <= LastRow(b, v)
      /\ \A i \in 2..(k + 1) : v[i].row <= LastRow(b, v)
      /\ LastRow(b, v) = Len(b) \/ \E i \in 2..(k + 1) : v[i].row = LastRow(b, v)
  BY <1>1, <1>4, <1>6, LastRowType
<1>9. LastRow(b, v) = IF f.row > LastRow(b, w) THEN f.row ELSE LastRow(b, w)
  <2>1. \A i \in 2..k : v[i].row = w[i].row /\ i \in 2..(k + 1)
    BY <1>1, <1>2
  <2>2. v[k + 1].row = f.row /\ k + 1 \in 2..(k + 1) /\ f.row \in Nat
    BY <1>1, <1>2, FrameFields
  <2>3. \A i \in 2..(k + 1) : i \in 2..k \/ i = k + 1
    BY <1>2
  <2>4. \A i \in 2..(k + 1) : v[i].row <= LastRow(b, w) \/ v[i].row = f.row
    BY <1>7, <2>1, <2>2, <2>3
  <2>5. f.row <= LastRow(b, v)
    BY <1>8, <2>2
  <2>6. LastRow(b, w) <= LastRow(b, v)
    BY <1>7, <1>8, <2>1
  <2>7. LastRow(b, v) <= LastRow(b, w) \/ LastRow(b, v) = f.row
    BY <1>7, <1>8, <2>4
  <2>. QED
    BY <1>7, <1>8, <2>2, <2>5, <2>6, <2>7
<1>10. ASSUME NEW r, r # f.row
       PROVE  OfRow(v, r) = OfRow(w, r)
  BY <1>1, <1>2, <1>5, <1>6, <1>10 DEF OfRow
<1>11. Max(OfRow(v, f.row)) = k + 1 /\ k + 1 \in OfRow(v, f.row)
  <2>1. k + 1 \in OfRow(v, f.row)
    BY <1>1, <1>2, <1>6 DEF OfRow
  <2>2. OfRow(v, f.row) \subseteq Nat /\ \A i \in OfRow(v, f.row) : i <= k + 1
    BY <1>2, <1>6 DEF OfRow
  <2>. QED
    BY <2>1, <2>2, MaxIs
<1>. DEFINE at(x, r) == IF OfRow(x, r) # {} THEN x[Max(OfRow(x, r))].val
                        ELSE IF r <= Len(b) THEN b[r] ELSE Blank
<1>12. /\ Replay(b, w) = [r \in 1..LastRow(b, w) |-> at(w, r)]
       /\ Replay(b, v) = [r \in 1..LastRow(b, v) |-> at(v, r)]
  BY <1>2 DEF Replay
<1>13. Len(Replay(b, w)) = LastRow(b, w) /\ Len(Replay(b, v)) = LastRow(b, v)
  <2>. HIDE DEF at
  <2>. QED
    BY <1>7, <1>8, <1>12
<1>14. at(v, f.row) = f.val
  BY <1>1, <1>11
<1>15. ASSUME NEW r \in 1..LastRow(b, v), r # f.row
       PROVE  at(v, r) = at(w, r)
  <2>1. CASE OfRow(w, r) = {}
    BY <1>10, <1>15, <2>1
  <2>2. CASE OfRow(w, r) # {}
    <3>1. Max(OfRow(w, r)) \in 2..k
      BY <1>4, <1>5, <2>2, OfRowLast DEF OfRow
    <3>2. v[Max(OfRow(w, r))] = w[Max(OfRow(w, r))]
      BY <1>1, <3>1
    <3>. QED
      BY <1>10, <1>15, <2>2, <3>2
  <2>. QED
    BY <2>1, <2>2
<1>16. ASSUME NEW r \in 1..LastRow(b, v), r > LastRow(b, w)
       PROVE  at(w, r) = Blank
  <2>1. OfRow(w, r) = {}
    BY <1>5, <1>7, <1>16 DEF OfRow
  <2>2. ~(r <= Len(b))
    BY <1>7, <1>8, <1>16
  <2>. QED
    BY <2>1, <2>2
<1>. HIDE DEF at
<1>17. ASSUME NEW r \in 1..LastRow(b, v)
       PROVE  Replay(b, v)[r] = IF r = f.row THEN f.val
                                ELSE IF r <= LastRow(b, w) THEN Replay(b, w)[r] ELSE Blank
  <2>1. r <= LastRow(b, w) => r \in 1..LastRow(b, w)
    BY <1>7
  <2>2. r <= LastRow(b, w) \/ r > LastRow(b, w)
    BY <1>7, <1>8
  <2>. QED
    BY <1>12, <1>14, <1>15, <1>16, <2>1, <2>2
<1>. QED
  BY <1>9, <1>13, <1>17 DEF v


-----------------------------------------------------------------------------
(* The invariant behind the type invariant, for any processes and faults.  *)

Typed ==
  /\ base \in Content /\ wal \in Seq(Items) /\ gen \in Nat /\ epoch \in 0..MaxGen
  /\ shared \subseteq Proc /\ excl \in Proc \cup {Nobody}
  /\ pc \in [Proc -> Places] /\ loaded \in [Proc -> BOOLEAN]
  /\ mem \in [Proc -> Content] /\ saved \in [Proc -> Content] /\ part \in [Proc -> Content]
  /\ mgen \in [Proc -> 0..MaxGen] /\ size \in [Proc -> Nat]
  /\ touched \in [Proc -> Seq(RowNum)] /\ numbering \in [Proc -> Nat \cup {-1}]

\* The generation follows the base file, which a checkpoint replaces first.
GenFollows ==
  /\ gen <= epoch
  /\ \A p \in Proc : pc[p] \in {"remove", "stamp"} => gen < epoch
  /\ \A p \in Proc : pc[p] = "dump" => epoch < MaxGen

\* A transaction is open only between calls and in a commit; its rows are
\* rows of the table; a commit's frames are the end of the WAL.
TxnShape ==
  /\ \A p \in Proc : pc[p] \in {"dump", "remove", "stamp", "load", "replay", "install"}
                     => touched[p] = <<>>
  /\ \A p \in Proc : \A i \in 1..Len(touched[p]) : touched[p][i] \in 1..Len(mem[p])
  /\ \A p \in Proc : pc[p] = "append" => size[p] <= Len(wal)

\* No value is there that was never written.
FrameValues(w) == {v \in Val : \E i \in 2..Len(w) : w[i] \in Frame /\ w[i].val = v}

OnlyUsed ==
  /\ Values(base) \cup FrameValues(wal) \subseteq used
  /\ \A p \in Proc : Values(mem[p]) \cup Values(saved[p]) \cup Values(part[p]) \subseteq used

GhostTyped == used \subseteq Val /\ acked \subseteq used /\ unsure \subseteq used

TypeInv ==
  Typed /\ MutualExclusion /\ FramesFollow(wal) /\ GenFollows /\ TxnShape
  /\ OnlyUsed /\ GhostTyped

LEMMA InitTyped == Init => TypeInv
<1>. SUFFICES ASSUME Init PROVE TypeInv
  OBVIOUS
<1>. USE ConstantAssumption DEF Init
<1>1. Typed
  BY DEF Typed, Content, Places, Items
<1>2. MutualExclusion
  BY DEF MutualExclusion
<1>3. FramesFollow(wal) /\ GenFollows /\ TxnShape
  BY DEF FramesFollow, GenFollows, TxnShape
<1>4. OnlyUsed
  <2>1. Values(base) \subseteq used
    BY DEF Values, Shown, LiveRows
  <2>2. FrameValues(wal) = {}
    BY DEF FrameValues
  <2>3. \A p \in Proc : Values(mem[p]) = {} /\ Values(saved[p]) = {} /\ Values(part[p]) = {}
    BY DEF Values
  <2>. QED
    BY <2>1, <2>2, <2>3 DEF OnlyUsed
<1>5. GhostTyped
  BY DEF GhostTyped, Shown, LiveRows
<1>. QED
  BY <1>1, <1>2, <1>3, <1>4, <1>5 DEF TypeInv

\* What a statement or a rollback of p leaves: m, t and s in its copy.
Leaves(p, m, t, s) ==
  /\ mem' = [mem EXCEPT ![p] = m]
  /\ touched' = [touched EXCEPT ![p] = t]
  /\ saved' = [saved EXCEPT ![p] = s]
  /\ UNCHANGED <<disk, lock, local, pc, loaded, mgen, numbering, acked, unsure, halves>>

Local(p) ==
  \/ \E v \in Val : Insert(p, v) \/ \E r \in RowNum : Update(p, r, v)
  \/ \E r \in RowNum : Delete(p, r)
  \/ Reject(p) \/ Rollback(p)

\* The rows touched after row r was.
WithRow(t, r) == IF \E i \in DOMAIN t : t[i] = r THEN t ELSE Append(t, r)

LEMMA WithRowRows ==
  ASSUME NEW t \in Seq(RowNum), NEW r \in RowNum
  PROVE  /\ WithRow(t, r) \in Seq(RowNum) /\ WithRow(t, r) # <<>>
         /\ \A i \in 1..Len(WithRow(t, r)) : WithRow(t, r)[i] = r \/ \E j \in 1..Len(t) : t[j] = WithRow(t, r)[i]
         /\ \E i \in 1..Len(WithRow(t, r)) : WithRow(t, r)[i] = r
         /\ \A j \in 1..Len(t) : \E i \in 1..Len(WithRow(t, r)) : t[j] = WithRow(t, r)[i]
<1>1. Len(t) \in Nat /\ DOMAIN t = 1..Len(t)
  OBVIOUS
<1>2. CASE \E i \in DOMAIN t : t[i] = r
  <2>1. WithRow(t, r) = t
    BY <1>2 DEF WithRow
  <2>. QED
    BY <1>1, <1>2, <2>1
<1>3. CASE ~\E i \in DOMAIN t : t[i] = r
  <2>. DEFINE w == Append(t, r)
  <2>1. WithRow(t, r) = w
    BY <1>3 DEF WithRow
  <2>2. /\ w \in Seq(RowNum) /\ w # <<>> /\ Len(w) = Len(t) + 1 /\ w[Len(t) + 1] = r
        /\ \A i \in 1..Len(t) : w[i] = t[i]
    BY <1>1
  <2>3. 1..Len(t) \subseteq 1..Len(w) /\ Len(t) + 1 \in 1..Len(w)
        /\ \A i \in 1..Len(w) : i \in 1..Len(t) \/ i = Len(t) + 1
    BY <1>1, <2>2
  <2>. HIDE DEF w
  <2>. QED
    BY <2>1, <2>2, <2>3
<1>. QED
  BY <1>2, <1>3

LEMMA InsertLeaves ==
  ASSUME Typed, NEW p \in Proc, NEW v \in Val, Insert(p, v)
  PROVE  /\ Leaves(p, Append(mem[p], v), WithRow(touched[p], Len(mem[p]) + 1),
                   IF InTxn(p) THEN saved[p] ELSE mem[p])
         /\ Len(mem[p]) + 1 \in RowNum /\ v \notin used /\ used' = used \cup {v}
         /\ Idle(p) /\ loaded[p]
<1>1. Len(mem[p]) + 1 \in RowNum
  BY ConstantAssumption DEF Typed, Insert, Content, RowNum
<1>. QED
  BY <1>1 DEF Typed, Insert, Statement, Leaves, Touches, Remembers, WithRow


LEMMA UpdateLeaves ==
  ASSUME Typed, NEW p \in Proc, NEW r \in RowNum, NEW v \in Val, Update(p, r, v)
  PROVE  /\ Leaves(p, [mem[p] EXCEPT ![r] = v], WithRow(touched[p], r),
                   IF InTxn(p) THEN saved[p] ELSE mem[p])
         /\ r \in LiveRows(mem[p]) /\ v \notin used /\ used' = used \cup {v}
         /\ Idle(p) /\ loaded[p]
BY DEF Typed, Update, Statement, Leaves, Touches, Remembers, WithRow

LEMMA DeleteLeaves ==
  ASSUME Typed, NEW p \in Proc, NEW r \in RowNum, Delete(p, r)
  PROVE  /\ Leaves(p, [mem[p] EXCEPT ![r] = Dead], WithRow(touched[p], r),
                   IF InTxn(p) THEN saved[p] ELSE mem[p])
         /\ r \in LiveRows(mem[p]) /\ used' = used
         /\ Idle(p) /\ loaded[p]
BY DEF Typed, Delete, Statement, Leaves, Touches, Remembers, WithRow

LEMMA RejectLeaves ==
  ASSUME Typed, NEW p \in Proc, Reject(p)
  PROVE  /\ Leaves(p, Append(mem[p], Dead), touched[p], saved[p])
         /\ used' = used /\ Idle(p) /\ loaded[p]
BY DEF Typed, Reject, Statement, Leaves

\* The table after a ROLLBACK.
RolledBack(m, s) ==
  [r \in DOMAIN m |-> IF r <= Len(s) THEN s[r] ELSE Dead]

LEMMA RollbackLeaves ==
  ASSUME Typed, NEW p \in Proc, Rollback(p)
  PROVE  /\ Leaves(p, RolledBack(mem[p], saved[p]), <<>>, <<>>)
         /\ used' = used /\ Idle(p) /\ loaded[p] /\ InTxn(p)
BY DEF Typed, Rollback, EndTxn, Statement, Leaves, RolledBack

\* A process's copy, its transaction and the rows it remembers fit together.
CopyFits(m, t, s, u) ==
  /\ m \in Content /\ t \in Seq(RowNum) /\ s \in Content
  /\ \A i \in 1..Len(t) : t[i] \in 1..Len(m)
  /\ Values(m) \cup Values(s) \subseteq u

LEMMA SetRow ==
  ASSUME NEW m \in Content, NEW r \in 1..Len(m), NEW v \in Cell, NEW x,
         x = [m EXCEPT ![r] = v]
  PROVE  /\ x \in Content /\ Len(x) = Len(m)
         /\ \A q \in 1..Len(m) : x[q] = IF q = r THEN v ELSE m[q]
         /\ Values(x) \subseteq Values(m) \cup ({v} \cap Val)
<1>1. /\ x \in Content /\ Len(x) = Len(m)
      /\ \A q \in 1..Len(m) : x[q] = IF q = r THEN v ELSE m[q]
  BY DEF Content, Cell
<1>. QED
  BY <1>1 DEF Values

LEMMA NewRow ==
  ASSUME NEW m \in Content, NEW v \in Cell, NEW x, x = Append(m, v)
  PROVE  /\ x \in Content /\ Len(x) = Len(m) + 1 /\ x[Len(m) + 1] = v
         /\ \A q \in 1..Len(m) : x[q] = m[q]
         /\ Values(x) \subseteq Values(m) \cup ({v} \cap Val)
<1>1. /\ x \in Content /\ Len(x) = Len(m) + 1 /\ x[Len(m) + 1] = v
      /\ \A q \in 1..Len(m) : x[q] = m[q]
  BY DEF Content, Cell
<1>2. \A q \in 1..Len(x) : q \in 1..Len(m) \/ q = Len(m) + 1
  BY <1>1 DEF Content
<1>. QED
  BY <1>1, <1>2 DEF Values

LEMMA RolledBackType ==
  ASSUME NEW m \in Content, NEW s \in Content
  PROVE  /\ RolledBack(m, s) \in Content /\ Len(RolledBack(m, s)) = Len(m)
         /\ Values(RolledBack(m, s)) \subseteq Values(s)
<1>. DEFINE x == RolledBack(m, s)
<1>1. Len(m) \in Nat /\ DOMAIN m = 1..Len(m) /\ Len(s) \in Nat
  BY DEF Content
<1>2. \A r \in 1..Len(m) : x[r] = IF r <= Len(s) THEN s[r] ELSE Dead
  BY <1>1 DEF RolledBack
<1>3. \A r \in 1..Len(m) : r <= Len(s) => r \in 1..Len(s) /\ s[r] \in Cell
  BY <1>1 DEF Content, Cell
<1>4. x \in [1..Len(m) -> Cell]
  BY <1>1, <1>3 DEF RolledBack, Cell
<1>5. x \in Content /\ Len(x) = Len(m)
  BY <1>1, <1>4 DEF Content, Cell
<1>6. Dead \notin Val
  BY ConstantAssumption
<1>. HIDE DEF x
<1>7. Values(x) \subseteq Values(s)
  BY <1>2, <1>3, <1>5, <1>6 DEF Values
<1>. QED
  BY <1>5, <1>7 DEF x

LEMMA LocalFits ==
  ASSUME TypeInv, NEW p \in Proc, Local(p)
  PROVE  /\ \E m, t, s : Leaves(p, m, t, s) /\ CopyFits(m, t, s, used')
         /\ used \subseteq used' /\ used' \subseteq Val /\ Idle(p)
<1>. DEFINE m == mem[p]
            t == touched[p]
            s == saved[p]
            S == IF InTxn(p) THEN s ELSE m
<1>1. CopyFits(m, t, s, used) /\ used \subseteq Val
  BY DEF TypeInv, Typed, TxnShape, OnlyUsed, GhostTyped, CopyFits
<1>2. CopyFits(m, t, S, used)
  BY <1>1 DEF CopyFits
<1>. HIDE DEF S
<1>3. Len(m) \in Nat /\ Blank \in Cell /\ Dead \in Cell /\ Val \subseteq Cell /\ Dead \notin Val
  BY <1>1, ConstantAssumption DEF CopyFits, Content, Cell
<1>4. ASSUME NEW v \in Val, Insert(p, v)
      PROVE  CopyFits(Append(m, v), WithRow(t, Len(m) + 1), S, used \cup {v})
  <2>1. Len(m) + 1 \in RowNum
    BY <1>4, InsertLeaves DEF TypeInv
  <2>2. /\ Append(m, v) \in Content /\ Len(Append(m, v)) = Len(m) + 1
        /\ Values(Append(m, v)) \subseteq Values(m) \cup ({v} \cap Val)
    <3>1. v \in Cell /\ m \in Content
      BY <1>1, <1>3 DEF CopyFits
    <3>. QED
      BY <3>1, NewRow
  <2>3. /\ WithRow(t, Len(m) + 1) \in Seq(RowNum)
        /\ \A i \in 1..Len(WithRow(t, Len(m) + 1)) :
             WithRow(t, Len(m) + 1)[i] \in 1..(Len(m) + 1)
    <3>. DEFINE n == Len(m) + 1
                w == WithRow(t, n)
    <3>1. \A j \in 1..Len(t) : t[j] \in 1..n
      BY <1>1, <1>3 DEF CopyFits
    <3>2. n \in 1..n /\ t \in Seq(RowNum)
      BY <1>1, <1>3 DEF CopyFits
    <3>3. /\ w \in Seq(RowNum)
          /\ \A i \in 1..Len(w) : w[i] = n \/ \E j \in 1..Len(t) : t[j] = w[i]
      BY <2>1, <3>2, WithRowRows
    <3>. HIDE DEF n, w
    <3>4. \A i \in 1..Len(w) : w[i] \in 1..n
      BY <3>1, <3>2, <3>3
    <3>. QED
      BY <3>3, <3>4 DEF n, w
  <2>. QED
    BY <1>2, <2>2, <2>3 DEF CopyFits
<1>5. ASSUME NEW r \in RowNum, r \in LiveRows(m), NEW v \in Cell
      PROVE  CopyFits([m EXCEPT ![r] = v], WithRow(t, r), S, used \cup ({v} \cap Val))
  <2>1. r \in 1..Len(m)
    BY <1>5 DEF LiveRows
  <2>2. /\ [m EXCEPT ![r] = v] \in Content /\ Len([m EXCEPT ![r] = v]) = Len(m)
        /\ Values([m EXCEPT ![r] = v]) \subseteq Values(m) \cup ({v} \cap Val)
    BY <1>1, <2>1, SetRow DEF CopyFits
  <2>3. /\ WithRow(t, r) \in Seq(RowNum)
        /\ \A i \in 1..Len(WithRow(t, r)) : WithRow(t, r)[i] \in 1..Len(m)
    <3>. DEFINE w == WithRow(t, r)
    <3>1. t \in Seq(RowNum) /\ \A j \in 1..Len(t) : t[j] \in 1..Len(m)
      BY <1>1 DEF CopyFits
    <3>2. /\ w \in Seq(RowNum)
          /\ \A i \in 1..Len(w) : w[i] = r \/ \E j \in 1..Len(t) : t[j] = w[i]
      BY <3>1, WithRowRows
    <3>. HIDE DEF w
    <3>3. \A i \in 1..Len(w) : w[i] \in 1..Len(m)
      BY <2>1, <3>1, <3>2
    <3>. QED
      BY <3>2, <3>3 DEF w
  <2>. QED
    BY <1>2, <2>2, <2>3 DEF CopyFits
<1>6. CopyFits(Append(m, Dead), t, s, used)
  <2>1. /\ Append(m, Dead) \in Content /\ Len(Append(m, Dead)) = Len(m) + 1
        /\ Values(Append(m, Dead)) \subseteq Values(m)
    <3>1. m \in Content /\ {Dead} \cap Val = {}
      BY <1>1, <1>3 DEF CopyFits
    <3>2. Values(Append(m, Dead)) \subseteq Values(m) \cup ({Dead} \cap Val)
      BY <1>3, <3>1, NewRow
    <3>. QED
      BY <1>3, <3>1, <3>2, NewRow
  <2>2. \A i \in 1..Len(t) : t[i] \in 1..(Len(m) + 1)
    BY <1>1, <1>3 DEF CopyFits
  <2>. QED
    BY <1>1, <2>1, <2>2 DEF CopyFits
<1>7. CopyFits(RolledBack(m, s), <<>>, <<>>, used)
  <2>1. Values(<<>>) = {} /\ <<>> \in Content
    BY DEF Values, Content
  <2>. QED
    BY <1>1, <2>1, RolledBackType DEF CopyFits
<1>8. CASE \E v \in Val : Insert(p, v)
  <2>1. PICK v \in Val : Insert(p, v)
    BY <1>8
  <2>2. CopyFits(Append(m, v), WithRow(t, Len(m) + 1), S, used \cup {v})
    BY <1>4, <2>1
  <2>3. /\ Leaves(p, Append(m, v), WithRow(t, Len(m) + 1), S)
        /\ used' = used \cup {v} /\ Idle(p)
    BY <2>1, InsertLeaves DEF TypeInv, S
  <2>. QED
    BY <1>1, <2>2, <2>3
<1>9. CASE \E v \in Val : \E r \in RowNum : Update(p, r, v)
  <2>1. PICK v \in Val, r \in RowNum : Update(p, r, v)
    BY <1>9
  <2>2. {v} \cap Val = {v} /\ v \in Cell
    BY <1>3
  <2>3. CopyFits([m EXCEPT ![r] = v], WithRow(t, r), S, used \cup {v})
    BY <1>5, <2>1, <2>2, UpdateLeaves DEF TypeInv
  <2>. QED
    <3>1. /\ Leaves(p, [m EXCEPT ![r] = v], WithRow(t, r), S)
          /\ used' = used \cup {v} /\ Idle(p)
      BY <2>1, UpdateLeaves DEF TypeInv, S
    <3>2. CopyFits([m EXCEPT ![r] = v], WithRow(t, r), S, used')
      BY <2>3, <3>1
    <3>3. used \subseteq used' /\ used' \subseteq Val
      BY <1>1, <3>1
    <3>. QED
      BY <3>1, <3>2, <3>3, Zenon
<1>10. CASE \E r \in RowNum : Delete(p, r)
  <2>1. PICK r \in RowNum : Delete(p, r)
    BY <1>10
  <2>2. used \cup ({Dead} \cap Val) = used
    BY <1>3
  <2>3. CopyFits([m EXCEPT ![r] = Dead], WithRow(t, r), S, used)
    BY <1>3, <1>5, <2>1, <2>2, DeleteLeaves DEF TypeInv
  <2>. QED
    <3>1. /\ Leaves(p, [m EXCEPT ![r] = Dead], WithRow(t, r), S)
          /\ used' = used /\ Idle(p)
      BY <2>1, DeleteLeaves DEF TypeInv, S
    <3>. QED
      BY <1>1, <2>3, <3>1
<1>11. CASE Reject(p)
  BY <1>1, <1>6, <1>11, RejectLeaves DEF TypeInv
<1>12. CASE Rollback(p)
  BY <1>1, <1>7, <1>12, RollbackLeaves DEF TypeInv
<1>. QED
  BY <1>8, <1>9, <1>10, <1>11, <1>12 DEF Local


LEMMA LocalTyped ==
  ASSUME TypeInv, NEW p \in Proc, Local(p)
  PROVE  TypeInv'
<1>1. PICK m, t, s : Leaves(p, m, t, s) /\ CopyFits(m, t, s, used')
  BY LocalFits
<1>2. used \subseteq used' /\ used' \subseteq Val /\ Idle(p)
  BY LocalFits
<1>. USE <1>1, <1>2 DEF TypeInv, Leaves, CopyFits, disk, lock, local
<1>3. Typed'
  BY DEF Typed
<1>4. MutualExclusion' /\ FramesFollow(wal)' /\ GenFollows'
  BY DEF MutualExclusion, FramesFollow, GenFollows
<1>5. TxnShape'
  BY DEF TxnShape, Typed, Idle
<1>6. OnlyUsed'
  <2>1. Values(base)' \cup FrameValues(wal)' \subseteq used'
    BY DEF OnlyUsed, Values, FrameValues
  <2>2. ASSUME NEW q \in Proc
        PROVE  (Values(mem[q]) \cup Values(saved[q]) \cup Values(part[q]) \subseteq used)'
    <3>1. mem'[q] = IF q = p THEN m ELSE mem[q]
      BY DEF Typed
    <3>2. saved'[q] = IF q = p THEN s ELSE saved[q]
      BY DEF Typed
    <3>3. part'[q] = part[q]
      OBVIOUS
    <3>4. Values(mem[q]) \cup Values(saved[q]) \cup Values(part[q]) \subseteq used
      BY DEF OnlyUsed
    <3>5. (Values(mem[q]) \cup Values(saved[q]) \cup Values(part[q]))'
          = Values(mem'[q]) \cup Values(saved'[q]) \cup Values(part'[q])
      BY DEF Values
    <3>. QED
      BY <3>1, <3>2, <3>3, <3>4, <3>5
  <2>. QED
    BY <2>1, <2>2 DEF OnlyUsed
<1>7. GhostTyped'
  BY DEF GhostTyped
<1>. QED
  BY <1>3, <1>4, <1>5, <1>6, <1>7

LEMMA CommitLockTyped ==
  ASSUME TypeInv, NEW p \in Proc, CommitLock(p)
  PROVE  TypeInv'
<1>. USE DEF TypeInv, CommitLock, Idle, LockExclusive, Goto, disk, copy, local, ghost
<1>1. Typed'
  BY DEF Typed, Places
<1>2. MutualExclusion'
  BY ConstantAssumption DEF Typed, MutualExclusion
<1>3. FramesFollow(wal)' /\ GenFollows' /\ GhostTyped'
  BY DEF Typed, FramesFollow, GenFollows, GhostTyped
<1>4. TxnShape'
  BY DEF Typed, TxnShape
<1>5. OnlyUsed'
  BY DEF OnlyUsed, Values, FrameValues
<1>. QED
  BY <1>1, <1>2, <1>3, <1>4, <1>5

\* The end of a call.
LEMMA UnlockFacts ==
  ASSUME TypeInv, NEW p \in Proc, Unlock(p)
  PROVE  /\ excl' \in Proc \cup {Nobody} /\ shared' \subseteq Proc
         /\ pc' \in [Proc -> Places] /\ size' \in [Proc -> Nat] /\ part' \in [Proc -> Content]
         /\ MutualExclusion'
         /\ pc' = [pc EXCEPT ![p] = "idle"]
         /\ \A q \in Proc : Values(part'[q]) \subseteq Values(part[q])
         /\ \A q \in Proc \ {p} : size'[q] = size[q] /\ part'[q] = part[q]
<1>. USE DEF TypeInv, Unlock, Goto
<1>1. /\ excl' \in Proc \cup {Nobody} /\ shared' \subseteq Proc
      /\ pc' \in [Proc -> Places] /\ size' \in [Proc -> Nat]
  BY DEF Typed, Places
<1>2. part' \in [Proc -> Content]
  BY SMTT(30) DEF Typed, Content
<1>3. MutualExclusion'
  <2>1. shared' # {} => shared # {}
    OBVIOUS
  <2>2. ASSUME NEW q \in Proc
        PROVE  /\ (pc[q] \in {"check", "append", "dump", "remove", "stamp"} <=> excl = q)'
               /\ (pc[q] \in {"load", "replay", "install"} <=> q \in shared)'
    <3>1. CASE q = p
      BY <3>1, ConstantAssumption DEF Typed
    <3>2. CASE q # p
      <4>1. pc'[q] = pc[q] /\ (q \in shared' <=> q \in shared)
        BY <3>2 DEF Typed
      <4>2. excl' = q <=> excl = q
        BY <3>2, ConstantAssumption DEF Typed
      <4>. QED
        BY <4>1, <4>2 DEF MutualExclusion
    <3>. QED
      BY <3>1, <3>2
  <2>3. excl' # Nobody => excl # Nobody
    BY ConstantAssumption DEF Typed
  <2>. QED
    BY <2>1, <2>2, <2>3 DEF MutualExclusion
<1>4. \A q \in Proc : part'[q] = IF q = p THEN <<>> ELSE part[q]
  BY DEF Typed
<1>5. Values(<<>>) = {}
  BY DEF Values
<1>6. \A q \in Proc \ {p} : size'[q] = size[q]
  BY DEF Typed
<1>. QED
  BY <1>1, <1>2, <1>3, <1>4, <1>5, <1>6

LEMMA CommitCheckTyped ==
  ASSUME TypeInv, NEW p \in Proc, CommitCheck(p)
  PROVE  TypeInv'
<1>. USE DEF disk, copy, ghost
<1>1. CASE gen # mgen[p] /\ Unlock(p)
  <2>1. UNCHANGED <<disk, copy, ghost>>
    BY DEF CommitCheck
  <2>. USE <1>1, <2>1, UnlockFacts DEF TypeInv
  <2>2. Typed'
    BY DEF Typed
  <2>3. FramesFollow(wal)' /\ GenFollows' /\ GhostTyped'
    BY DEF Typed, FramesFollow, GenFollows, GhostTyped
  <2>4. TxnShape'
    BY DEF Typed, TxnShape
  <2>5. OnlyUsed'
    BY SMTT(30) DEF OnlyUsed, Values, FrameValues
  <2>. QED
    BY <2>2, <2>3, <2>4, <2>5
<1>2. CASE ~(gen # mgen[p] /\ Unlock(p))
  <2>1. /\ UNCHANGED <<disk, copy, ghost, lock, part>> /\ pc[p] = "check"
        /\ size' = [size EXCEPT ![p] = Len(wal)] /\ pc' = [pc EXCEPT ![p] = "append"]
    BY <1>2 DEF CommitCheck, Goto
  <2>. USE <2>1 DEF TypeInv, lock
  <2>2. Typed'
    BY DEF Typed, Places
  <2>3. MutualExclusion'
    BY DEF Typed, MutualExclusion
  <2>4. FramesFollow(wal)' /\ GenFollows' /\ GhostTyped'
    BY DEF Typed, FramesFollow, GenFollows, GhostTyped
  <2>5. TxnShape'
    BY DEF Typed, TxnShape
  <2>6. OnlyUsed'
    BY DEF OnlyUsed, Values, FrameValues
  <2>. QED
    BY <2>2, <2>3, <2>4, <2>5, <2>6
<1>. QED
  BY <1>1, <1>2 DEF CommitCheck

\* Writing to a WAL and cutting it.
LEMMA WalGrows ==
  ASSUME NEW w \in Seq(Items), FramesFollow(w), NEW f \in Frame \cup {Torn}
  PROVE  /\ Append(w, f) \in Seq(Items) /\ Len(Append(w, f)) = Len(w) + 1
         /\ FramesFollow(Append(w, f))
         /\ \A v \in FrameValues(Append(w, f)) :
              v \in FrameValues(w) \/ (f \in Frame /\ v = f.val)
<1>. DEFINE x == Append(w, f)
<1>1. /\ x \in Seq(Items) /\ Len(x) = Len(w) + 1 /\ x[Len(w) + 1] = f
      /\ \A i \in 1..Len(w) : x[i] = w[i]
  BY DEF Items
<1>2. \A i \in 2..Len(x) : i = Len(w) + 1 \/ i \in 2..Len(w)
  BY <1>1
<1>3. 2..Len(w) \subseteq 1..Len(w)
  OBVIOUS
<1>. HIDE DEF x
<1>4. FramesFollow(x)
  BY <1>1, <1>2, <1>3 DEF FramesFollow
<1>5. \A v \in FrameValues(x) : v \in FrameValues(w) \/ (f \in Frame /\ v = f.val)
  BY <1>1, <1>2, <1>3 DEF FrameValues
<1>. QED
  BY <1>1, <1>4, <1>5 DEF x

LEMMA WalCut ==
  ASSUME NEW w \in Seq(Items), FramesFollow(w), NEW n \in Nat, n <= Len(w)
  PROVE  /\ SubSeq(w, 1, n) \in Seq(Items) /\ Len(SubSeq(w, 1, n)) = n
         /\ \A i \in 1..n : SubSeq(w, 1, n)[i] = w[i]
         /\ FramesFollow(SubSeq(w, 1, n))
         /\ FrameValues(SubSeq(w, 1, n)) \subseteq FrameValues(w)
<1>. DEFINE x == SubSeq(w, 1, n)
<1>1. x \in Seq(Items) /\ Len(x) = n /\ \A i \in 1..n : x[i] = w[i]
  OBVIOUS
<1>2. \A i \in 2..n : i \in 1..n /\ i \in 2..Len(w)
  OBVIOUS
<1>. HIDE DEF x
<1>3. FramesFollow(x) /\ FrameValues(x) \subseteq FrameValues(w)
  BY <1>1, <1>2 DEF FramesFollow, FrameValues
<1>. QED
  BY <1>1, <1>3 DEF x

\* How far a commit is.
LEMMA AppendedType ==
  ASSUME TypeInv, NEW p \in Proc, pc[p] = "append"
  PROVE  /\ Appended(p) \in Nat /\ Len(touched[p]) \in Nat
         /\ Appended(p) < Len(touched[p]) => NextFrame(p) \in Frame
         /\ \A v \in Val : Appended(p) < Len(touched[p]) /\ NextFrame(p).val = v
                           => v \in Values(mem[p])
<1>1. /\ size[p] \in Nat /\ Len(wal) \in Nat /\ size[p] <= Len(wal)
      /\ touched[p] \in Seq(RowNum) /\ mem[p] \in Content
      /\ \A i \in 1..Len(touched[p]) : touched[p][i] \in 1..Len(mem[p])
  BY DEF TypeInv, Typed, TxnShape
<1>2. Appended(p) \in Nat /\ Len(touched[p]) \in Nat
  BY <1>1 DEF Appended
<1>3. ASSUME Appended(p) < Len(touched[p])
      PROVE  /\ NextFrame(p) \in Frame
             /\ \A v \in Val : NextFrame(p).val = v => v \in Values(mem[p])
  <2>. DEFINE r == touched[p][Appended(p) + 1]
  <2>1. Appended(p) + 1 \in 1..Len(touched[p])
    BY <1>2, <1>3
  <2>2. r \in RowNum /\ r \in 1..Len(mem[p])
    BY <1>1, <2>1
  <2>3. NextFrame(p) = [row |-> r, val |-> mem[p][r]]
    BY DEF NextFrame
  <2>. HIDE DEF r
  <2>. QED
    BY <1>1, <2>2, <2>3 DEF Frame, Content, Values
<1>. QED
  BY <1>2, <1>3

\* The WAL changes where one process is writing to it.
LEMMA WalStepTyped ==
  ASSUME TypeInv, NEW p \in Proc, wal' \in Seq(Items), FramesFollow(wal'),
         FrameValues(wal') \subseteq used,
         UNCHANGED <<base, gen, epoch, copy, ghost>>,
         \/ UNCHANGED <<lock, local, pc>> /\ pc[p] = "append" /\ Len(wal') >= Len(wal)
         \/ Unlock(p) /\ pc[p] = "append"
  PROVE  TypeInv'
<1>. USE DEF TypeInv, copy, local, lock, ghost
<1>1. Typed' /\ MutualExclusion'
  BY UnlockFacts DEF Typed, MutualExclusion
<1>2. FramesFollow(wal)' /\ GhostTyped'
  BY DEF FramesFollow, GhostTyped
<1>3. pc' = pc \/ pc' = [pc EXCEPT ![p] = "idle"]
  BY UnlockFacts
<1>4. GenFollows'
  BY <1>3 DEF Typed, GenFollows
<1>5. \A q \in Proc : pc'[q] = "append" => size'[q] <= Len(wal')
  <2>. SUFFICES ASSUME NEW q \in Proc, pc'[q] = "append"
                PROVE  size'[q] <= Len(wal')
    OBVIOUS
  <2>1. pc[q] = "append"
    BY <1>3 DEF Typed
  <2>2. q = p
    BY <2>1 DEF MutualExclusion
  <2>3. ~Unlock(p)
    BY <2>2, UnlockFacts DEF Typed
  <2>. QED
    BY <2>1, <2>2, <2>3 DEF TxnShape, Typed
<1>6. TxnShape'
  BY <1>3, <1>5 DEF TxnShape, Typed
<1>7. \A q \in Proc : Values(part'[q]) \subseteq Values(part[q])
  BY UnlockFacts
<1>8. OnlyUsed'
  BY <1>7 DEF OnlyUsed, Values, FrameValues
<1>. QED
  BY <1>1, <1>2, <1>4, <1>6, <1>8

LEMMA AppendItemTyped ==
  ASSUME TypeInv, NEW p \in Proc, AppendItem(p)
  PROVE  TypeInv'
<1>. USE DEF AppendItem
<1>1. wal \in Seq(Items) /\ FramesFollow(wal) /\ FrameValues(wal) \subseteq used
  BY DEF TypeInv, Typed, OnlyUsed
<1>2. CASE wal = <<>>
  <2>1. wal' = <<Header>>
    BY <1>2
  <2>2. wal' \in Seq(Items) /\ FramesFollow(wal') /\ FrameValues(wal') = {} /\ Len(wal') >= Len(wal)
    BY <1>2, <2>1 DEF Items, FramesFollow, FrameValues
  <2>. QED
    BY <1>2, <2>2, WalStepTyped
<1>3. CASE wal # <<>>
  <2>1. Appended(p) < Len(touched[p]) /\ wal' = Append(wal, NextFrame(p)) /\ pc[p] = "append"
    BY <1>3
  <2>2. /\ NextFrame(p) \in Frame
        /\ \A v \in Val : NextFrame(p).val = v => v \in used
    BY <2>1, AppendedType DEF TypeInv, OnlyUsed
  <2>3. /\ wal' \in Seq(Items) /\ Len(wal') = Len(wal) + 1 /\ FramesFollow(wal')
        /\ \A v \in FrameValues(wal') : v \in FrameValues(wal) \/ v = NextFrame(p).val
    BY <1>1, <2>1, <2>2, WalGrows
  <2>4. FrameValues(wal') \subseteq used
    <3>1. FrameValues(wal') \subseteq Val
      BY DEF FrameValues
    <3>. QED
      BY <1>1, <2>2, <2>3, <3>1
  <2>5. Len(wal') >= Len(wal)
    BY <1>1, <2>3
  <2>. QED
    BY <2>1, <2>3, <2>4, <2>5, WalStepTyped
<1>. QED
  BY <1>2, <1>3

LEMMA AppendFailsTyped ==
  ASSUME TypeInv, NEW p \in Proc, AppendFails(p)
  PROVE  TypeInv'
<1>1. /\ wal \in Seq(Items) /\ FramesFollow(wal) /\ FrameValues(wal) \subseteq used
      /\ size[p] \in Nat /\ size[p] <= Len(wal)
  BY DEF TypeInv, Typed, TxnShape, OnlyUsed, AppendFails
<1>2. wal' \in Seq(Items) /\ FramesFollow(wal') /\ FrameValues(wal') \subseteq used
  BY <1>1, WalCut DEF AppendFails
<1>. QED
  BY <1>2, WalStepTyped DEF AppendFails

\* The values of a commit are values of the process's copy.
LEMMA CommitValues ==
  ASSUME TypeInv, NEW p \in Proc
  PROVE  Writes(p) \subseteq used /\ Replaces(p) \subseteq used
<1>1. /\ \A i \in 1..Len(touched[p]) : touched[p][i] \in 1..Len(mem[p])
      /\ DOMAIN touched[p] = 1..Len(touched[p]) /\ DOMAIN saved[p] = 1..Len(saved[p])
      /\ Values(mem[p]) \subseteq used /\ Values(saved[p]) \subseteq used
  BY SMTT(30) DEF TypeInv, Typed, TxnShape, OnlyUsed, Content
<1>2. Writes(p) \subseteq Values(mem[p])
  BY <1>1 DEF Writes, Values
<1>3. Replaces(p) \subseteq Values(saved[p])
  BY <1>1 DEF Replaces, Values
<1>. QED
  BY <1>1, <1>2, <1>3

LEMMA CommitDoneTyped ==
  ASSUME TypeInv, NEW p \in Proc, CommitDone(p)
  PROVE  TypeInv'
<1>1. /\ Unlock(p) /\ UNCHANGED <<disk, loaded, mem, mgen, numbering, used>>
      /\ touched' = [touched EXCEPT ![p] = <<>>] /\ saved' = [saved EXCEPT ![p] = <<>>]
      /\ acked' = (acked \ Replaces(p)) \cup Writes(p) /\ unsure' = unsure \ Replaces(p)
  BY DEF CommitDone, EndTxn
<1>. USE <1>1, UnlockFacts DEF TypeInv, disk
<1>8. /\ \A q \in Proc : saved'[q] = IF q = p THEN <<>> ELSE saved[q]
      /\ \A q \in Proc : touched'[q] = IF q = p THEN <<>> ELSE touched[q]
      /\ saved' \in [Proc -> Content] /\ touched' \in [Proc -> Seq(RowNum)]
  <2>1. <<>> \in Content /\ <<>> \in Seq(RowNum)
    BY DEF Content
  <2>. QED
    BY <2>1 DEF Typed
<1>2. Typed'
  BY <1>8 DEF Typed
<1>3. GhostTyped'
  BY CommitValues DEF GhostTyped
<1>4. FramesFollow(wal)' /\ GenFollows'
  BY DEF Typed, FramesFollow, GenFollows
<1>5. TxnShape'
  <2>1. \A q \in Proc : \A i \in 1..Len(touched'[q]) : touched'[q][i] \in 1..Len(mem[q])
    BY <1>8 DEF TxnShape
  <2>2. \A q \in Proc : touched[q] = <<>> => touched'[q] = <<>>
    BY <1>8
  <2>3. \A q \in Proc : pc'[q] = IF q = p THEN "idle" ELSE pc[q]
    BY DEF Typed
  <2>. QED
    BY <2>1, <2>2, <2>3 DEF TxnShape
<1>6. \A q \in Proc : Values(saved'[q]) \subseteq Values(saved[q])
  <2>1. Values(<<>>) = {}
    BY DEF Values
  <2>. QED
    BY <1>8, <2>1
<1>7. OnlyUsed'
  <2>1. \A q \in Proc : Values(mem'[q]) \cup Values(saved'[q]) \cup Values(part'[q]) \subseteq used'
    BY <1>6 DEF OnlyUsed
  <2>2. Values(base') \cup FrameValues(wal') \subseteq used'
    BY DEF OnlyUsed
  <2>. QED
    BY <2>1, <2>2 DEF OnlyUsed, Values, FrameValues
<1>. QED
  BY <1>2, <1>3, <1>4, <1>5, <1>7

LEMMA CheckpointLockTyped ==
  ASSUME TypeInv, NEW p \in Proc, CheckpointLock(p)
  PROVE  TypeInv'
<1>. DEFINE c == Compacted(mem[p])
<1>1. /\ epoch < MaxGen /\ pc[p] = "idle" /\ touched[p] = <<>>
      /\ shared = {} /\ excl = Nobody /\ excl' = p /\ UNCHANGED shared
      /\ mem' = [mem EXCEPT ![p] = c]
      /\ numbering' = [numbering EXCEPT ![p] = IF mem[p] = c THEN numbering[p] ELSE -1]
      /\ pc' = [pc EXCEPT ![p] = "dump"]
      /\ UNCHANGED <<disk, local, loaded, mgen, touched, saved, ghost>>
  BY DEF CheckpointLock, Idle, InTxn, LockExclusive, Goto, Typed
<1>2. c \in Content /\ Values(c) = Values(mem[p])
  BY CompactedShows DEF TypeInv, Typed
<1>. HIDE DEF c
<1>. USE <1>1 DEF TypeInv, disk, local, ghost
<1>8. \A q \in Proc : mem'[q] = IF q = p THEN c ELSE mem[q]
  BY DEF Typed
<1>3. Typed'
  <2>1. mem' \in [Proc -> Content]
    BY <1>2 DEF Typed
  <2>2. numbering' \in [Proc -> Nat \cup {-1}]
    <3>1. (IF mem[p] = c THEN numbering[p] ELSE -1) \in Nat \cup {-1}
      BY DEF Typed
    <3>. QED
      BY <3>1 DEF Typed
  <2>3. pc' \in [Proc -> Places]
    BY DEF Typed, Places
  <2>. QED
    BY <2>1, <2>2, <2>3 DEF Typed
<1>4. MutualExclusion'
  BY ConstantAssumption DEF Typed, MutualExclusion
<1>5. FramesFollow(wal)' /\ GenFollows' /\ GhostTyped'
  BY DEF Typed, FramesFollow, GenFollows, GhostTyped
<1>6. TxnShape'
  <2>1. \A q \in Proc : \A i \in 1..Len(touched[q]) : touched[q][i] \in 1..Len(mem'[q])
    BY <1>8 DEF TxnShape
  <2>2. \A q \in Proc : pc'[q] = IF q = p THEN "dump" ELSE pc[q]
    BY DEF Typed
  <2>. QED
    BY <2>1, <2>2 DEF TxnShape
<1>7. OnlyUsed'
  <2>1. \A q \in Proc : Values(mem'[q]) = Values(mem[q])
    BY <1>2, <1>8
  <2>2. \A q \in Proc : Values(mem'[q]) \cup Values(saved'[q]) \cup Values(part'[q]) \subseteq used
    BY <2>1 DEF OnlyUsed
  <2>3. Values(base') \cup FrameValues(wal') \subseteq used
    BY DEF OnlyUsed
  <2>. QED
    BY <2>2, <2>3 DEF OnlyUsed, Values, FrameValues
<1>. QED
  BY <1>3, <1>4, <1>5, <1>6, <1>7

LEMMA CheckpointStepTyped ==
  ASSUME TypeInv, NEW p \in Proc, Dump(p) \/ RemoveWal(p) \/ Stamp(p) \/ CheckpointFails(p)
  PROVE  TypeInv'
<1>. USE DEF TypeInv, disk, copy, local, lock, ghost
<1>1. CASE Dump(p)
  <2>. USE <1>1 DEF Dump, Goto
  <2>0. \A q \in Proc : q # p => pc[q] \notin {"dump", "remove", "stamp"}
    BY DEF MutualExclusion
  <2>1. Typed'
    <3>1. epoch + 1 \in 0..MaxGen /\ epoch + 1 \in Nat
      BY ConstantAssumption DEF Typed, GenFollows
    <3>2. numbering' \in [Proc -> Nat \cup {-1}]
      BY <3>1 DEF Typed
    <3>3. base' \in Content /\ pc' \in [Proc -> Places]
      BY DEF Typed, Places
    <3>. QED
      BY <3>1, <3>2, <3>3 DEF Typed
  <2>2. MutualExclusion'
    BY DEF Typed, MutualExclusion
  <2>3. FramesFollow(wal)' /\ GhostTyped'
    BY DEF FramesFollow, GhostTyped
  <2>4. GenFollows'
    BY <2>0 DEF Typed, GenFollows
  <2>5. TxnShape'
    BY DEF Typed, TxnShape
  <2>6. OnlyUsed'
    BY DEF Typed, OnlyUsed, Values, FrameValues
  <2>. QED
    BY <2>1, <2>2, <2>3, <2>4, <2>5, <2>6
<1>2. CASE RemoveWal(p)
  <2>. USE <1>2 DEF RemoveWal, Goto
  <2>1. Typed'
    BY DEF Typed, Places
  <2>2. MutualExclusion'
    BY DEF Typed, MutualExclusion
  <2>3. FramesFollow(wal)' /\ GenFollows' /\ GhostTyped'
    BY DEF Typed, FramesFollow, GenFollows, GhostTyped
  <2>4. TxnShape'
    BY DEF Typed, TxnShape, MutualExclusion
  <2>5. OnlyUsed'
    BY DEF OnlyUsed, Values, FrameValues
  <2>. QED
    BY <2>1, <2>2, <2>3, <2>4, <2>5
<1>3. CASE Stamp(p)
  <2>. USE <1>3, UnlockFacts DEF Stamp
  <2>0. /\ \A q \in Proc : q # p => pc[q] \notin {"dump", "remove", "stamp"}
        /\ gen + 1 <= epoch /\ gen + 1 \in 0..MaxGen
    BY ConstantAssumption DEF MutualExclusion, GenFollows, Typed
  <2>1. Typed'
    BY <2>0, SMTT(30) DEF Typed
  <2>2. FramesFollow(wal)' /\ GhostTyped'
    BY DEF FramesFollow, GhostTyped
  <2>3. GenFollows'
    <3>1. gen' = gen + 1 /\ epoch' = epoch /\ pc' = [pc EXCEPT ![p] = "idle"]
      OBVIOUS
    <3>2. \A q \in Proc : pc'[q] \notin {"dump", "remove", "stamp"}
      <4>1. pc \in [Proc -> Places]
        BY DEF Typed
      <4>. QED
        BY <2>0, <3>1, <4>1
    <3>. QED
      BY <2>0, <3>1, <3>2 DEF GenFollows
  <2>4. TxnShape'
    BY DEF Typed, TxnShape
  <2>5. OnlyUsed'
    BY DEF OnlyUsed, Values, FrameValues
  <2>. QED
    BY <2>1, <2>2, <2>3, <2>4, <2>5
<1>4. CASE CheckpointFails(p)
  <2>. USE <1>4, UnlockFacts DEF CheckpointFails
  <2>1. Typed'
    BY DEF Typed
  <2>2. FramesFollow(wal)' /\ GenFollows' /\ GhostTyped'
    BY SMTT(30) DEF Typed, FramesFollow, GenFollows, GhostTyped
  <2>3. TxnShape'
    BY DEF Typed, TxnShape
  <2>4. OnlyUsed'
    BY DEF OnlyUsed, Values, FrameValues
  <2>. QED
    BY <2>1, <2>2, <2>3, <2>4
<1>. QED
  BY <1>1, <1>2, <1>3, <1>4

\* A load adds no value to those in the files.
LEMMA ReplayValues ==
  ASSUME NEW b \in Content, NEW w \in Seq(Items), FramesFollow(w)
  PROVE  Values(Replay(b, w)) \subseteq Values(b) \cup FrameValues(w)
<1>1. CASE w = <<>> \/ w[1] # Header
  BY <1>1 DEF Replay
<1>2. CASE ~(w = <<>> \/ w[1] # Header)
  <2>. DEFINE d == Replay(b, w)
  <2>1. LastRow(b, w) \in Nat /\ Len(b) \in Nat
    BY LastRowType DEF Content
  <2>2. d = [r \in 1..LastRow(b, w) |->
               IF OfRow(w, r) # {} THEN w[Max(OfRow(w, r))].val
               ELSE IF r <= Len(b) THEN b[r] ELSE Blank]
    BY <1>2 DEF Replay
  <2>3. ASSUME NEW r \in 1..Len(d), d[r] \in Val
        PROVE  d[r] \in Values(b) \cup FrameValues(w)
    <3>1. Len(d) = LastRow(b, w)
      <4>. HIDE DEF d
      <4>. QED
        BY <2>1, <2>2
    <3>2. r \in 1..LastRow(b, w)
      BY <3>1
    <3>3. d[r] = IF OfRow(w, r) # {} THEN w[Max(OfRow(w, r))].val
                 ELSE IF r <= Len(b) THEN b[r] ELSE Blank
      BY <2>2, <3>2
    <3>4. CASE OfRow(w, r) # {}
      <4>. DEFINE i == Max(OfRow(w, r))
      <4>1. i \in 2..Len(w) /\ w[i] \in Frame
        BY <3>4, OfRowLast, GoodFrames DEF OfRow
      <4>. HIDE DEF i, d
      <4>. QED
        BY <2>3, <3>3, <3>4, <4>1 DEF FrameValues, i
    <3>5. CASE OfRow(w, r) = {}
      <4>1. Blank \notin Val
        BY ConstantAssumption
      <4>2. r <= Len(b) /\ d[r] = b[r] /\ r \in 1..Len(b)
        BY <2>1, <2>3, <3>2, <3>3, <3>5, <4>1
      <4>. HIDE DEF d
      <4>. QED
        BY <2>3, <4>2 DEF Values
    <3>. QED
      BY <3>4, <3>5
  <2>. HIDE DEF d
  <2>. QED
    BY <2>3 DEF Values, d
<1>. QED
  BY <1>1, <1>2

LEMMA LoadStepTyped ==
  ASSUME TypeInv, NEW p \in Proc, LoadLock(p) \/ LoadBase(p) \/ LoadWal(p)
  PROVE  TypeInv'
<1>. USE DEF TypeInv, disk, copy, local, ghost
<1>1. ASSUME UNCHANGED <<disk, copy, ghost>>, MutualExclusion',
             excl' \in Proc \cup {Nobody}, shared' \subseteq Proc,
             part' \in [Proc -> Content], size' \in [Proc -> Nat],
             NEW l \in {"idle", "load", "replay", "install"},
             pc' = [pc EXCEPT ![p] = l], touched[p] = <<>>,
             \A q \in Proc : Values(part'[q]) \subseteq used,
             \A q \in Proc : q # p => size'[q] = size[q]
      PROVE  TypeInv'
  <2>. USE <1>1
  <2>0. \A q \in Proc : pc'[q] = IF q = p THEN l ELSE pc[q]
    BY DEF Typed
  <2>1. Typed'
    BY DEF Typed, Places
  <2>2. FramesFollow(wal)' /\ GhostTyped'
    BY DEF FramesFollow, GhostTyped
  <2>3. GenFollows'
    BY <2>0 DEF GenFollows
  <2>4. TxnShape'
    BY <2>0 DEF TxnShape
  <2>5. OnlyUsed'
    <3>1. \A q \in Proc : Values(mem'[q]) \cup Values(saved'[q]) \cup Values(part'[q]) \subseteq used'
      BY DEF OnlyUsed
    <3>2. Values(base') \cup FrameValues(wal') \subseteq used'
      BY DEF OnlyUsed
    <3>. QED
      BY <3>1, <3>2 DEF OnlyUsed, Values, FrameValues
  <2>. QED
    BY <2>1, <2>2, <2>3, <2>4, <2>5
<1>2. \A q \in Proc : Values(part[q]) \subseteq used
  BY DEF OnlyUsed
<1>3. CASE LoadLock(p)
  <2>. USE <1>3 DEF LoadLock, Idle, InTxn, Goto
  <2>1. MutualExclusion'
    BY DEF Typed, MutualExclusion
  <2>2. touched[p] = <<>> /\ pc' = [pc EXCEPT ![p] = "load"]
    BY DEF Typed
  <2>3. excl' \in Proc \cup {Nobody} /\ shared' \subseteq Proc
    BY DEF Typed
  <2>4. UNCHANGED <<disk, copy, ghost, part, size>>
    OBVIOUS
  <2>5. part' \in [Proc -> Content] /\ size' \in [Proc -> Nat]
    BY <2>4 DEF Typed
  <2>. QED
    BY <1>1, <1>2, <2>1, <2>2, <2>3, <2>4, <2>5
<1>4. CASE Unlock(p) /\ LoadBase(p)
  <2>1. touched[p] = <<>> /\ UNCHANGED <<disk, copy, ghost>>
    BY <1>4 DEF LoadBase, TxnShape
  <2>2. \A q \in Proc : Values(part'[q]) \subseteq used
    BY <1>2, <1>4, UnlockFacts
  <2>. QED
    BY <1>1, <1>4, <2>1, <2>2, UnlockFacts
<1>5. CASE ~Unlock(p) /\ LoadBase(p)
  <2>. USE <1>5 DEF LoadBase, Goto, lock
  <2>1. touched[p] = <<>> /\ pc' = [pc EXCEPT ![p] = "replay"]
    BY DEF TxnShape
  <2>2. UNCHANGED <<disk, copy, ghost, lock, size>> /\ part' = [part EXCEPT ![p] = base]
    OBVIOUS
  <2>3. MutualExclusion'
    BY <2>1, <2>2 DEF Typed, MutualExclusion
  <2>4. part' \in [Proc -> Content] /\ \A q \in Proc : part'[q] = IF q = p THEN base ELSE part[q]
    BY <2>2 DEF Typed
  <2>5. \A q \in Proc : Values(part'[q]) \subseteq used
    BY <1>2, <2>4 DEF OnlyUsed
  <2>6. excl' \in Proc \cup {Nobody} /\ shared' \subseteq Proc /\ size' \in [Proc -> Nat]
    BY <2>2 DEF Typed
  <2>. QED
    BY <1>1, <2>1, <2>2, <2>3, <2>4, <2>5, <2>6
<1>6. CASE LoadWal(p)
  <2>. USE <1>6 DEF LoadWal, Goto, lock
  <2>. DEFINE d == Replay(part[p], wal)
  <2>0. d \in Content /\ Values(d) \subseteq used
    <3>1. part[p] \in Content /\ wal \in Seq(Items) /\ FramesFollow(wal)
      BY DEF Typed
    <3>. QED
      BY <3>1, ReplayType, ReplayValues DEF OnlyUsed
  <2>1. touched[p] = <<>> /\ pc' = [pc EXCEPT ![p] = "install"]
    BY DEF TxnShape
  <2>2. UNCHANGED <<disk, copy, ghost, lock, size>> /\ part' = [part EXCEPT ![p] = d]
    OBVIOUS
  <2>. HIDE DEF d
  <2>3. MutualExclusion'
    BY <2>1, <2>2 DEF Typed, MutualExclusion
  <2>4. part' \in [Proc -> Content] /\ \A q \in Proc : part'[q] = IF q = p THEN d ELSE part[q]
    BY <2>0, <2>2 DEF Typed
  <2>5. \A q \in Proc : Values(part'[q]) \subseteq used
    BY <1>2, <2>0, <2>4
  <2>6. excl' \in Proc \cup {Nobody} /\ shared' \subseteq Proc /\ size' \in [Proc -> Nat]
    BY <2>2 DEF Typed
  <2>. QED
    BY <1>1, <2>1, <2>2, <2>3, <2>4, <2>5, <2>6
<1>. QED
  BY <1>3, <1>4, <1>5, <1>6

LEMMA LoadDoneTyped ==
  ASSUME TypeInv, NEW p \in Proc, LoadDone(p)
  PROVE  TypeInv'
<1>1. /\ pc[p] = "install" /\ Unlock(p) /\ UNCHANGED <<disk, touched, saved, ghost>>
      /\ mem' = [mem EXCEPT ![p] = part[p]] /\ mgen' = [mgen EXCEPT ![p] = gen]
      /\ loaded' = [loaded EXCEPT ![p] = TRUE] /\ numbering' = [numbering EXCEPT ![p] = epoch]
  BY DEF LoadDone
<1>. USE <1>1, UnlockFacts DEF TypeInv, disk, ghost
<1>2. gen \in 0..MaxGen /\ epoch \in Nat
  BY ConstantAssumption DEF Typed, GenFollows
<1>3. \A q \in Proc : mem'[q] = IF q = p THEN part[q] ELSE mem[q]
  BY DEF Typed
<1>4. Typed'
  <2>1. mgen' \in [Proc -> 0..MaxGen] /\ numbering' \in [Proc -> Nat \cup {-1}]
    BY <1>2 DEF Typed
  <2>2. mem' \in [Proc -> Content] /\ loaded' \in [Proc -> BOOLEAN]
    BY DEF Typed
  <2>. QED
    BY <2>1, <2>2 DEF Typed
<1>5. FramesFollow(wal)' /\ GenFollows' /\ GhostTyped'
  BY SMTT(30) DEF Typed, FramesFollow, GenFollows, GhostTyped
<1>6. TxnShape'
  <2>1. \A q \in Proc : pc'[q] = IF q = p THEN "idle" ELSE pc[q]
    BY DEF Typed
  <2>2. touched[p] = <<>>
    BY DEF TxnShape
  <2>3. \A q \in Proc : \A i \in 1..Len(touched'[q]) : touched'[q][i] \in 1..Len(mem'[q])
    BY <1>3, <2>2 DEF TxnShape
  <2>. QED
    BY <2>1, <2>3 DEF TxnShape
<1>7. OnlyUsed'
  <2>1. \A q \in Proc : Values(mem'[q]) \cup Values(saved'[q]) \cup Values(part'[q]) \subseteq used'
    BY <1>3, SMTT(30) DEF OnlyUsed
  <2>2. Values(base') \cup FrameValues(wal') \subseteq used'
    BY DEF OnlyUsed
  <2>. QED
    BY <2>1, <2>2 DEF OnlyUsed, Values, FrameValues
<1>. QED
  BY <1>4, <1>5, <1>6, <1>7

LEMMA CrashTyped ==
  ASSUME TypeInv, NEW p \in Proc, Crash(p)
  PROVE  TypeInv'
<1>1. /\ Unlock(p) /\ UNCHANGED <<base, gen, epoch, used>>
      /\ mem' = [mem EXCEPT ![p] = <<>>] /\ mgen' = [mgen EXCEPT ![p] = 0]
      /\ loaded' = [loaded EXCEPT ![p] = FALSE] /\ numbering' = [numbering EXCEPT ![p] = -1]
      /\ touched' = [touched EXCEPT ![p] = <<>>] /\ saved' = [saved EXCEPT ![p] = <<>>]
      /\ UNCHANGED wal \/ (wal' = Append(wal, Torn) /\ pc[p] = "append")
      /\ \/ /\ acked' = acked \ Replaces(p)
            /\ unsure' = unsure \cup Writes(p) \cup Replaces(p)
         \/ UNCHANGED <<acked, unsure>>
  BY DEF Crash, EndTxn
<1>. USE <1>1, UnlockFacts DEF TypeInv
<1>2. wal' \in Seq(Items) /\ FramesFollow(wal') /\ FrameValues(wal') \subseteq used
      /\ Len(wal') >= Len(wal)
  <2>1. wal \in Seq(Items) /\ FramesFollow(wal) /\ FrameValues(wal) \subseteq used /\ Len(wal) \in Nat
    BY DEF Typed, OnlyUsed
  <2>2. Torn \notin Frame
    BY ConstantAssumption
  <2>3. CASE wal' = Append(wal, Torn)
    <3>1. /\ wal' \in Seq(Items) /\ FramesFollow(wal') /\ Len(wal') = Len(wal) + 1
          /\ \A v \in FrameValues(wal') : v \in FrameValues(wal)
      BY <2>1, <2>2, <2>3, WalGrows
    <3>. QED
      BY <2>1, <3>1
  <2>. QED
    BY <2>1, <2>3
<1>3. /\ \A q \in Proc : mem'[q] = IF q = p THEN <<>> ELSE mem[q]
      /\ \A q \in Proc : saved'[q] = IF q = p THEN <<>> ELSE saved[q]
      /\ \A q \in Proc : touched'[q] = IF q = p THEN <<>> ELSE touched[q]
      /\ \A q \in Proc : pc'[q] = IF q = p THEN "idle" ELSE pc[q]
      /\ mem' \in [Proc -> Content] /\ saved' \in [Proc -> Content]
      /\ touched' \in [Proc -> Seq(RowNum)]
  <2>1. <<>> \in Content /\ <<>> \in Seq(RowNum)
    BY DEF Content
  <2>. QED
    BY <2>1 DEF Typed
<1>4. Typed'
  <2>1. mgen' \in [Proc -> 0..MaxGen] /\ numbering' \in [Proc -> Nat \cup {-1}]
        /\ loaded' \in [Proc -> BOOLEAN]
    BY ConstantAssumption DEF Typed
  <2>. QED
    BY <1>2, <1>3, <2>1 DEF Typed
<1>5. FramesFollow(wal)' /\ GenFollows'
  BY <1>2, <1>3, SMTT(30) DEF Typed, FramesFollow, GenFollows
<1>6. GhostTyped'
  BY CommitValues DEF GhostTyped
<1>7. TxnShape'
  <2>1. \A q \in Proc : \A i \in 1..Len(touched'[q]) : touched'[q][i] \in 1..Len(mem'[q])
    BY <1>3 DEF TxnShape
  <2>2. \A q \in Proc : touched[q] = <<>> => touched'[q] = <<>>
    BY <1>3
  <2>3. \A q \in Proc : pc'[q] = "append" => size'[q] <= Len(wal')
    <3>1. Len(wal) \in Nat /\ Len(wal') \in Nat
      BY <1>2 DEF Typed
    <3>2. \A q \in Proc : pc'[q] = "append" => q # p /\ pc[q] = "append"
      BY <1>3
    <3>3. \A q \in Proc : pc[q] = "append" => size[q] \in Nat /\ size[q] <= Len(wal)
      BY DEF TxnShape, Typed
    <3>. QED
      BY <1>2, <3>1, <3>2, <3>3
  <2>. QED
    BY <1>3, <2>1, <2>2, <2>3 DEF TxnShape
<1>8. OnlyUsed'
  <2>1. Values(<<>>) = {}
    BY DEF Values
  <2>2. \A q \in Proc : Values(mem'[q]) \cup Values(saved'[q]) \cup Values(part'[q]) \subseteq used'
    <3>1. \A q \in Proc : /\ Values(mem'[q]) \subseteq Values(mem[q])
                           /\ Values(saved'[q]) \subseteq Values(saved[q])
                           /\ Values(part'[q]) \subseteq Values(part[q])
      BY <1>3, <2>1
    <3>. QED
      BY <3>1 DEF OnlyUsed
  <2>3. Values(base') \cup FrameValues(wal') \subseteq used'
    BY <1>2 DEF OnlyUsed
  <2>. QED
    BY <2>2, <2>3 DEF OnlyUsed, Values, FrameValues
<1>. QED
  BY <1>4, <1>5, <1>6, <1>7, <1>8


LEMMA StutterTyped ==
  ASSUME TypeInv, UNCHANGED vars
  PROVE  TypeInv'
BY DEF TypeInv, vars, disk, lock, copy, local, ghost, Typed, MutualExclusion, FramesFollow,
       GenFollows, TxnShape, OnlyUsed, Values, FrameValues, GhostTyped

LEMMA TypeStep == TypeInv /\ [Next]_vars => TypeInv'
<1>. SUFFICES ASSUME TypeInv, [Next]_vars
              PROVE  TypeInv'
  OBVIOUS
<1>1. CASE UNCHANGED vars
  BY <1>1, StutterTyped
<1>2. CASE Next
  <2>1. PICK p \in Proc :
          \/ Local(p)
          \/ CommitLock(p) \/ CommitCheck(p) \/ AppendItem(p) \/ AppendFails(p) \/ CommitDone(p)
          \/ CheckpointLock(p)
          \/ Dump(p) \/ RemoveWal(p) \/ Stamp(p) \/ CheckpointFails(p)
          \/ LoadLock(p) \/ LoadBase(p) \/ LoadWal(p) \/ LoadDone(p)
          \/ Crash(p)
    BY <1>2 DEF Next, Local
  <2>. QED
    BY <2>1, LocalTyped, CommitLockTyped, CommitCheckTyped, AppendItemTyped, AppendFailsTyped,
       CommitDoneTyped, CheckpointLockTyped, CheckpointStepTyped, LoadStepTyped,
       LoadDoneTyped, CrashTyped
<1>. QED
  BY <1>1, <1>2

LEMMA TypeInvHolds == Spec => []TypeInv
<1>1. Init => TypeInv
  BY InitTyped
<1>2. TypeInv /\ [Next]_vars => TypeInv'
  BY TypeStep
<1>. QED
  BY <1>1, <1>2, PTL DEF Spec

\* Every variable keeps its type: frames name rows a table can have, the WAL
\* and the tables hold only values that were written, and a generation is
\* never ahead of the base file it counts.
THEOREM DurableTypeCorrect == Spec => []TypeOK
<1>1. TypeInv => TypeOK
  BY ConstantAssumption DEF TypeInv, Typed, GenFollows, GhostTyped, TypeOK
<1>. QED
  BY <1>1, TypeInvHolds, PTL

\* lock.h's promise for db4's use of it: whoever is in a commit or a
\* checkpoint is alone with the files, whatever fails or dies.
THEOREM WritersAlone == Spec => []MutualExclusion
<1>1. TypeInv => MutualExclusion
  BY DEF TypeInv
<1>. QED
  BY <1>1, TypeInvHolds, PTL


-----------------------------------------------------------------------------
(* Loads: the files stand still while a process reads them.                *)

\* What a load has read is still what the files say.
Snapshot ==
  \A p \in Proc : /\ pc[p] = "replay" => part[p] = base
                  /\ pc[p] = "install" => part[p] = Replay(base, wal)

\* The files change only under the exclusive lock, where nobody reads.
LEMMA FilesStand ==
  ASSUME TypeInv, NEW p \in Proc, pc[p] \in {"append", "dump", "remove"}
  PROVE  \A q \in Proc : pc[q] \notin {"replay", "install"}
<1>1. excl = p /\ p # Nobody
  BY ConstantAssumption DEF TypeInv, MutualExclusion
<1>2. shared = {}
  BY <1>1 DEF TypeInv, MutualExclusion
<1>. QED
  BY <1>2 DEF TypeInv, MutualExclusion

LEMMA SnapshotStep ==
  ASSUME TypeInv, Snapshot, [Next]_vars
  PROVE  Snapshot'
<1>. USE DEF TypeInv, disk, lock, copy, local, ghost
<1>1. ASSUME NEW p \in Proc, pc' = pc \/ \E l \in Places : pc' = [pc EXCEPT ![p] = l],
             pc'[p] \notin {"replay", "install"},
             \A q \in Proc : q # p => part'[q] = part[q],
             \/ UNCHANGED <<base, wal>>
             \/ \A q \in Proc : pc[q] \notin {"replay", "install"}
      PROVE  Snapshot'
  <2>. SUFFICES ASSUME NEW q \in Proc, pc'[q] \in {"replay", "install"}
                PROVE  /\ pc'[q] = "replay" => part'[q] = base'
                       /\ pc'[q] = "install" => part'[q] = Replay(base', wal')
    BY Zenon DEF Snapshot
  <2>1. q # p /\ pc'[q] = pc[q]
    BY <1>1 DEF Typed
  <2>2. UNCHANGED <<base, wal>>
    BY <1>1, <2>1
  <2>. QED
    BY <1>1, <2>1, <2>2 DEF Snapshot
<1>2. CASE UNCHANGED vars
  BY <1>2 DEF vars, Snapshot
<1>3. ASSUME NEW p \in Proc, Local(p)
      PROVE  Snapshot'
  <2>1. PICK m, t, s : Leaves(p, m, t, s)
    BY <1>3, LocalFits
  <2>. QED
    BY <2>1 DEF Leaves, Snapshot
<1>4. ASSUME NEW p \in Proc, CommitLock(p) \/ CheckpointLock(p) \/ LoadLock(p)
      PROVE  Snapshot'
  <2>1. /\ \E l \in {"check", "dump", "load"} : pc' = [pc EXCEPT ![p] = l]
        /\ UNCHANGED <<base, wal, part>>
    BY <1>4 DEF CommitLock, CheckpointLock, LoadLock, Goto
  <2>. QED
    BY <1>1, <2>1 DEF Typed, Places
<1>5. ASSUME NEW p \in Proc, Unlock(p), UNCHANGED <<base, wal>> \/ pc[p] = "append"
      PROVE  Snapshot'
  <2>1. pc' = [pc EXCEPT ![p] = "idle"] /\ \A q \in Proc : q # p => part'[q] = part[q]
    BY <1>5, UnlockFacts
  <2>. QED
    BY <1>1, <1>5, <2>1, FilesStand DEF Typed, Places
<1>6. ASSUME NEW p \in Proc,
             CommitCheck(p) \/ AppendItem(p) \/ Dump(p) \/ RemoveWal(p), ~Unlock(p)
      PROVE  Snapshot'
  <2>1. /\ (pc' = pc /\ pc[p] = "append") \/ \E l \in {"append", "remove", "stamp"} : pc' = [pc EXCEPT ![p] = l]
        /\ UNCHANGED part
        /\ UNCHANGED <<base, wal>> \/ pc[p] \in {"append", "dump", "remove"}
    BY <1>6 DEF CommitCheck, AppendItem, Dump, RemoveWal, Goto
  <2>2. pc'[p] \notin {"replay", "install"}
    BY <2>1 DEF Typed
  <2>3. pc' = pc \/ \E l \in Places : pc' = [pc EXCEPT ![p] = l]
    BY <2>1 DEF Places
  <2>. QED
    BY <1>1, <2>1, <2>2, <2>3, FilesStand
<1>7. ASSUME NEW p \in Proc, LoadBase(p) \/ LoadWal(p), ~Unlock(p)
      PROVE  Snapshot'
  <2>1. UNCHANGED <<base, wal>>
    BY <1>7 DEF LoadBase, LoadWal
  <2>2. \A q \in Proc : q # p => part'[q] = part[q] /\ pc'[q] = pc[q]
    BY <1>7 DEF LoadBase, LoadWal, Goto, Typed
  <2>3. \/ pc'[p] = "replay" /\ part'[p] = base
        \/ pc[p] = "replay" /\ pc'[p] = "install" /\ part'[p] = Replay(part[p], wal)
    BY <1>7 DEF LoadBase, LoadWal, Goto, Typed
  <2>4. ASSUME NEW q \in Proc
        PROVE  /\ pc'[q] = "replay" => part'[q] = base'
               /\ pc'[q] = "install" => part'[q] = Replay(base', wal')
    <3>1. CASE q = p
      BY <2>1, <2>3, <3>1 DEF Snapshot
    <3>2. CASE q # p
      BY <2>1, <2>2, <3>2 DEF Snapshot
    <3>. QED
      BY <3>1, <3>2
  <2>. QED
    BY <2>4, Zenon DEF Snapshot
<1>8. ASSUME NEW p \in Proc,
             AppendFails(p) \/ CommitDone(p) \/ Stamp(p) \/ CheckpointFails(p)
             \/ LoadDone(p) \/ Crash(p)
      PROVE  Snapshot'
  <2>1. Unlock(p) /\ (UNCHANGED <<base, wal>> \/ pc[p] = "append")
    BY <1>8 DEF AppendFails, CommitDone, Stamp, CheckpointFails, LoadDone, Crash
  <2>. QED
    BY <1>5, <2>1
<1>9. ASSUME NEW p \in Proc, CommitCheck(p) \/ LoadBase(p), Unlock(p)
      PROVE  Snapshot'
  <2>1. UNCHANGED <<base, wal>>
    BY <1>9 DEF CommitCheck, LoadBase
  <2>. QED
    BY <1>5, <1>9, <2>1
<1>10. ASSUME NEW p \in Proc, AppendItem(p) \/ Dump(p) \/ RemoveWal(p) \/ LoadWal(p)
       PROVE  ~Unlock(p)
  BY <1>10 DEF AppendItem, Dump, RemoveWal, LoadWal, Unlock, Goto, Typed
<1>11. CASE Next
  BY <1>3, <1>4, <1>6, <1>7, <1>8, <1>9, <1>10, <1>11, Zenon DEF Next, Local
<1>. QED
  BY <1>2, <1>11

\* load.c reads the base file and the WAL one after the other and the
\* generation last; under the shared lock that is one moment's content.
THEOREM LoadsAreSnapshots == Spec => []LoadIsSnapshot
<1>1. Init => Snapshot
  BY DEF Init, Snapshot
<1>2. TypeInv /\ Snapshot /\ [Next]_vars => Snapshot'
  BY SnapshotStep
<1>3. TypeInv /\ Snapshot => LoadIsSnapshot
  <2>. SUFFICES ASSUME TypeInv, Snapshot, NEW p \in Proc, pc[p] = "install"
                PROVE  part[p] = Replay(base, wal) /\ excl = Nobody
    BY DEF LoadIsSnapshot
  <2>. QED
    BY DEF TypeInv, MutualExclusion, Snapshot
<1>. QED
  BY <1>1, <1>2, <1>3, TypeInvHolds, PTL DEF Spec


-----------------------------------------------------------------------------
(* Row numbers.                                                            *)

NoDead(m) == \A r \in 1..Len(m) : m[r] # Dead

\* Where no row is dead, compacting keeps every number.
LEMMA CompactedSame ==
  ASSUME NEW m \in Content, NoDead(m)
  PROVE  Compacted(m) = m
<1>. DEFINE N == Len(m)
<1>1. PICK f \in [0..N -> Content] :
             /\ f[0] = <<>>
             /\ \A n \in 1..N : f[n] = IF m[n] = Dead THEN f[n - 1]
                                     ELSE Append(f[n - 1], m[n])
             /\ Compacted(m) = f[N]
  BY CompactedLoop
<1>2. N \in Nat /\ m \in Seq(Cell)
  BY DEF Content, Cell
<1>. DEFINE Same(n) == Len(f[n]) = n /\ \A i \in 1..n : f[n][i] = m[i]
            T == {n \in Nat : n <= N => Same(n)}
<1>3. 0 \in T
  BY <1>1
<1>4. ASSUME NEW n \in Nat, n \in T, n + 1 <= N
      PROVE  Same(n + 1)
  <2>1. n + 1 \in 1..N /\ (n + 1) - 1 = n /\ n \in 0..N /\ Same(n)
    BY <1>2, <1>4
  <2>2. f[n + 1] = Append(f[n], m[n + 1])
    BY <1>1, <2>1 DEF NoDead
  <2>3. f[n] \in Seq(Cell)
    BY <1>1, <2>1 DEF Content, Cell
  <2>4. m[n + 1] \in Cell
    BY <1>2, <2>1
  <2>. QED
    BY <2>1, <2>2, <2>3, <2>4
<1>5. ASSUME NEW n \in Nat, n \in T
      PROVE  n + 1 \in T
  <2>1. n + 1 <= N => Same(n + 1)
    BY <1>4, <1>5
  <2>2. n + 1 \in Nat
    OBVIOUS
  <2>. QED
    BY <2>1, <2>2, Zenon
<1>. HIDE DEF T
<1>6. N \in T
  BY <1>2, <1>3, <1>5, Induction
<1>7. Same(N)
  BY <1>2, <1>6 DEF T
<1>8. f[N] \in Seq(Cell)
  BY <1>1, <1>2 DEF Content, Cell
<1>. QED
  BY <1>1, <1>2, <1>7, <1>8, SeqEqual

\* What a failing checkpoint may leave renumbered: nothing where it always
\* gets as far as the base file, or where there are no tombstones.
CheckpointsKeepNumbers ==
  /\ {"checkpoint", "crash in checkpoint"} \cap Faults = {}
  /\ "dump" \in Faults => {"delete", "reject", "rollback"} \cap Ops = {}

\* No tombstones anywhere.
AllAlive ==
  /\ NoDead(base)
  /\ \A i \in 2..Len(wal) : wal[i] \in Frame => wal[i].val # Dead
  /\ \A p \in Proc : NoDead(mem[p]) /\ NoDead(part[p])

\* The generation a process remembers is the epoch of its row numbers.
NumberedAt(p) ==
  /\ pc[p] \in {"remove", "stamp"} => gen + 1 = epoch /\ numbering[p] = epoch
  /\ loaded[p] /\ pc[p] \notin {"dump", "remove", "stamp"} => numbering[p] = mgen[p]
  /\ pc[p] = "dump" /\ "dump" \in Faults => numbering[p] = mgen[p]
  /\ pc[p] = "append" => mgen[p] = gen
  /\ ~loaded[p] => /\ touched[p] = <<>>
                   /\ pc[p] \notin {"check", "append", "dump", "remove", "stamp"}

Numbered ==
  /\ (\A p \in Proc : pc[p] \notin {"remove", "stamp"}) => gen = epoch
  /\ \A p \in Proc : NumberedAt(p)

LEMMA ReplayAlive ==
  ASSUME NEW b \in Content, NEW w \in Seq(Items), FramesFollow(w), NoDead(b),
         \A i \in 2..Len(w) : w[i] \in Frame => w[i].val # Dead
  PROVE  NoDead(Replay(b, w))
<1>1. CASE w = <<>> \/ w[1] # Header
  BY <1>1 DEF Replay
<1>2. CASE ~(w = <<>> \/ w[1] # Header)
  <2>. DEFINE d == Replay(b, w)
  <2>1. LastRow(b, w) \in Nat /\ Len(b) \in Nat
    BY LastRowType DEF Content
  <2>2. d = [r \in 1..LastRow(b, w) |->
               IF OfRow(w, r) # {} THEN w[Max(OfRow(w, r))].val
               ELSE IF r <= Len(b) THEN b[r] ELSE Blank]
    BY <1>2 DEF Replay
  <2>3. Len(d) = LastRow(b, w)
    <3>. HIDE DEF d
    <3>. QED
      BY <2>1, <2>2
  <2>4. ASSUME NEW r \in 1..Len(d)
        PROVE  d[r] # Dead
    <3>1. d[r] = IF OfRow(w, r) # {} THEN w[Max(OfRow(w, r))].val
                 ELSE IF r <= Len(b) THEN b[r] ELSE Blank
      BY <2>2, <2>3
    <3>2. CASE OfRow(w, r) # {}
      <4>1. Max(OfRow(w, r)) \in 2..Len(w) /\ w[Max(OfRow(w, r))] \in Frame
        BY <3>2, OfRowLast, GoodFrames DEF OfRow
      <4>. HIDE DEF d
      <4>. QED
        BY <3>1, <3>2, <4>1
    <3>3. CASE OfRow(w, r) = {}
      <4>1. r <= Len(b) => r \in 1..Len(b)
        BY <2>1, <2>3
      <4>. HIDE DEF d
      <4>. QED
        BY <3>1, <3>3, <4>1, ConstantAssumption DEF NoDead
    <3>. QED
      BY <3>2, <3>3
  <2>. QED
    BY <2>4 DEF NoDead
<1>. QED
  BY <1>1, <1>2

LEMMA AliveStep ==
  ASSUME TypeInv, AllAlive, {"delete", "reject", "rollback"} \cap Ops = {}, [Next]_vars
  PROVE  AllAlive'
<1>. USE DEF TypeInv, disk, lock, copy, local, ghost
<1>1. ASSUME NEW p \in Proc, NEW m \in Content, NEW d \in Content, NoDead(m), NoDead(d),
             mem' = [mem EXCEPT ![p] = m], part' = [part EXCEPT ![p] = d],
             NoDead(base'), \A i \in 2..Len(wal') : wal'[i] \in Frame => wal'[i].val # Dead
      PROVE  AllAlive'
  <2>1. \A q \in Proc : /\ mem'[q] = IF q = p THEN m ELSE mem[q]
                        /\ part'[q] = IF q = p THEN d ELSE part[q]
    BY <1>1 DEF Typed
  <2>2. \A q \in Proc : NoDead(mem'[q]) /\ NoDead(part'[q])
    BY <1>1, <2>1 DEF AllAlive
  <2>. QED
    BY <1>1, <2>2 DEF AllAlive, NoDead
<1>2. \A p \in Proc : /\ mem[p] \in Content /\ part[p] \in Content
                      /\ NoDead(mem[p]) /\ NoDead(part[p])
                      /\ mem = [mem EXCEPT ![p] = mem[p]] /\ part = [part EXCEPT ![p] = part[p]]
  BY DEF Typed, AllAlive
<1>3. NoDead(<<>>) /\ <<>> \in Content
  BY DEF NoDead, Content
<1>4. CASE UNCHANGED vars
  BY <1>4 DEF vars, AllAlive, NoDead
<1>5. ASSUME NEW p \in Proc, Local(p)
      PROVE  AllAlive'
  <2>1. UNCHANGED <<base, wal, part>>
    BY <1>5, LocalFits DEF Leaves
  <2>2. \E m \in Content : NoDead(m) /\ mem' = [mem EXCEPT ![p] = m]
    <3>1. \A v \in Val : v # Dead /\ v \in Cell
      BY ConstantAssumption DEF Cell
    <3>2. ASSUME NEW v \in Val, Insert(p, v)
          PROVE  \E m \in Content : NoDead(m) /\ mem' = [mem EXCEPT ![p] = m]
      <4>. DEFINE x == Append(mem[p], v)
      <4>1. /\ x \in Content /\ Len(x) = Len(mem[p]) + 1 /\ x[Len(mem[p]) + 1] = v
            /\ \A q \in 1..Len(mem[p]) : x[q] = mem[p][q]
        <5>1. v \in Cell /\ mem[p] \in Seq(Cell)
          BY <1>2, <3>1 DEF Content, Cell
        <5>2. x \in Seq(Cell)
          BY <5>1
        <5>. QED
          BY <5>1, <5>2 DEF Content, Cell
      <4>2. mem' = [mem EXCEPT ![p] = x]
        BY <3>2 DEF Insert
      <4>3. Len(mem[p]) \in Nat
        BY <1>2 DEF Content
      <4>. HIDE DEF x
      <4>4. NoDead(x)
        BY <1>2, <3>1, <4>1, <4>3 DEF NoDead
      <4>. QED
        BY <4>1, <4>2, <4>4
    <3>3. ASSUME NEW v \in Val, NEW r \in RowNum, Update(p, r, v)
          PROVE  \E m \in Content : NoDead(m) /\ mem' = [mem EXCEPT ![p] = m]
      <4>. DEFINE x == [mem[p] EXCEPT ![r] = v]
      <4>1. r \in 1..Len(mem[p])
        BY <3>3 DEF Update, LiveRows
      <4>2. /\ x \in Content /\ Len(x) = Len(mem[p])
            /\ \A q \in 1..Len(mem[p]) : x[q] = IF q = r THEN v ELSE mem[p][q]
        BY <1>2, <3>1, <4>1, SetRow
      <4>3. mem' = [mem EXCEPT ![p] = x]
        BY <3>3, UpdateLeaves DEF Leaves
      <4>. HIDE DEF x
      <4>4. NoDead(x)
        BY <1>2, <3>1, <4>2 DEF NoDead
      <4>. QED
        BY <4>2, <4>3, <4>4
    <3>4. ~Reject(p) /\ ~Rollback(p) /\ \A r \in RowNum : ~Delete(p, r)
      BY DEF Reject, Rollback, Delete, Statement
    <3>. QED
      BY <1>5, <3>2, <3>3, <3>4 DEF Local
  <2>3. NoDead(base') /\ \A i \in 2..Len(wal') : wal'[i] \in Frame => wal'[i].val # Dead
    BY <2>1 DEF AllAlive
  <2>4. part' = [part EXCEPT ![p] = part[p]]
    BY <1>2, <2>1
  <2>. QED
    BY <1>1, <1>2, <2>2, <2>3, <2>4

<1>6. ASSUME NEW p \in Proc, UNCHANGED <<base, wal, mem>>,
             \E d \in Content : NoDead(d) /\ part' = [part EXCEPT ![p] = d]
      PROVE  AllAlive'
  <2>1. NoDead(base') /\ \A i \in 2..Len(wal') : wal'[i] \in Frame => wal'[i].val # Dead
    BY <1>6 DEF AllAlive
  <2>2. mem' = [mem EXCEPT ![p] = mem[p]]
    BY <1>2, <1>6
  <2>. QED
    BY <1>1, <1>2, <1>6, <2>1, <2>2
<1>7. ASSUME NEW p \in Proc, Unlock(p)
      PROVE  \E d \in Content : NoDead(d) /\ part' = [part EXCEPT ![p] = d]
  BY <1>3, <1>7 DEF Unlock
<1>8. ASSUME NEW p \in Proc, UNCHANGED part
      PROVE  \E d \in Content : NoDead(d) /\ part' = [part EXCEPT ![p] = d]
  BY <1>2, <1>8
<1>9. ASSUME NEW p \in Proc,
             CommitLock(p) \/ CommitCheck(p) \/ CommitDone(p) \/ CheckpointFails(p)
             \/ LoadLock(p) \/ LoadBase(p) \/ LoadWal(p)
      PROVE  AllAlive'
  <2>1. UNCHANGED <<base, wal, mem>>
    BY <1>9 DEF CommitLock, CommitCheck, CommitDone, CheckpointFails, LoadLock, LoadBase, LoadWal
  <2>2. \/ Unlock(p) \/ UNCHANGED part
        \/ part' = [part EXCEPT ![p] = base]
        \/ part' = [part EXCEPT ![p] = Replay(part[p], wal)]
    BY <1>9 DEF CommitLock, CommitCheck, CommitDone, CheckpointFails, LoadLock, LoadBase, LoadWal
  <2>3. base \in Content /\ NoDead(base)
    BY DEF Typed, AllAlive
  <2>4. Replay(part[p], wal) \in Content /\ NoDead(Replay(part[p], wal))
    <3>1. wal \in Seq(Items) /\ FramesFollow(wal)
      BY DEF Typed
    <3>. QED
      BY <1>2, <3>1, ReplayType, ReplayAlive DEF AllAlive
  <2>. QED
    BY <1>6, <1>7, <1>8, <2>1, <2>2, <2>3, <2>4
<1>10. ASSUME NEW p \in Proc, AppendItem(p) \/ AppendFails(p)
       PROVE  AllAlive'
  <2>1. UNCHANGED <<base, mem>>
    BY <1>10 DEF AppendItem, AppendFails
  <2>2. \E d \in Content : NoDead(d) /\ part' = [part EXCEPT ![p] = d]
    BY <1>7, <1>8, <1>10 DEF AppendItem, AppendFails
  <2>3. wal \in Seq(Items) /\ Len(wal) \in Nat /\ FramesFollow(wal)
    BY DEF Typed
  <2>4. \A i \in 2..Len(wal') : wal'[i] \in Frame => wal'[i].val # Dead
    <3>1. CASE AppendFails(p)
      <4>1. size[p] \in Nat /\ size[p] <= Len(wal) /\ wal' = SubSeq(wal, 1, size[p])
        BY <3>1 DEF AppendFails, Typed, TxnShape
      <4>2. Len(wal') = size[p] /\ \A i \in 1..size[p] : wal'[i] = wal[i]
        BY <2>3, <4>1, WalCut
      <4>3. \A i \in 2..Len(wal') : i \in 1..size[p] /\ i \in 2..Len(wal)
        BY <2>3, <4>1, <4>2
      <4>. QED
        BY <4>2, <4>3 DEF AllAlive
    <3>2. CASE AppendItem(p) /\ wal = <<>>
      <4>1. wal' = <<Header>>
        BY <3>2 DEF AppendItem
      <4>2. Len(wal') = 1
        BY <4>1
      <4>. QED
        BY <4>2
    <3>3. CASE AppendItem(p) /\ wal # <<>>
      <4>1. /\ Appended(p) < Len(touched[p]) /\ wal' = Append(wal, NextFrame(p))
            /\ pc[p] = "append"
        BY <3>3 DEF AppendItem
      <4>2. NextFrame(p) \in Items
        BY <4>1, AppendedType DEF Items
      <4>3. NextFrame(p).val # Dead
        <5>1. /\ touched[p] \in Seq(RowNum) /\ Appended(p) \in Nat
              /\ \A i \in 1..Len(touched[p]) : touched[p][i] \in 1..Len(mem[p])
          BY <4>1, AppendedType DEF Typed, TxnShape
        <5>2. touched[p][Appended(p) + 1] \in 1..Len(mem[p])
          BY <4>1, <5>1
        <5>3. NextFrame(p).val = mem[p][touched[p][Appended(p) + 1]]
          BY DEF NextFrame
        <5>. QED
          BY <1>2, <5>2, <5>3 DEF NoDead
      <4>4. /\ Len(wal') = Len(wal) + 1 /\ wal'[Len(wal) + 1] = NextFrame(p)
            /\ \A i \in 1..Len(wal) : wal'[i] = wal[i]
        BY <2>3, <4>1, <4>2
      <4>5. \A i \in 2..Len(wal') : i = Len(wal) + 1 \/ (i \in 2..Len(wal) /\ i \in 1..Len(wal))
        BY <2>3, <4>4
      <4>. QED
        BY <4>3, <4>4, <4>5 DEF AllAlive
    <3>. QED
      BY <1>10, <3>1, <3>2, <3>3
  <2>5. NoDead(base')
    BY <2>1 DEF AllAlive
  <2>6. mem' = [mem EXCEPT ![p] = mem[p]]
    BY <1>2, <2>1
  <2>. QED
    BY <1>1, <1>2, <2>2, <2>4, <2>5, <2>6
<1>11. ASSUME NEW p \in Proc, CheckpointLock(p)
       PROVE  AllAlive'
  <2>1. Compacted(mem[p]) = mem[p]
    BY <1>2, CompactedSame
  <2>2. UNCHANGED <<base, wal, mem>> /\ UNCHANGED part
    BY <1>2, <1>11, <2>1 DEF CheckpointLock
  <2>. QED
    BY <1>6, <1>8, <2>2
<1>12. ASSUME NEW p \in Proc, Dump(p) \/ RemoveWal(p)
       PROVE  AllAlive'
  <2>1. /\ base' = base \/ base' = mem[p]
        /\ wal' = wal \/ wal' = <<>>
        /\ UNCHANGED <<mem, part>>
    BY <1>12 DEF Dump, RemoveWal
  <2>2. NoDead(base') /\ \A i \in 2..Len(wal') : wal'[i] \in Frame => wal'[i].val # Dead
    BY <1>2, <2>1 DEF AllAlive
  <2>. QED
    BY <1>2, <2>1, <2>2 DEF AllAlive, NoDead
<1>13. ASSUME NEW p \in Proc, Stamp(p)
       PROVE  AllAlive'
  BY <1>6, <1>7, <1>13 DEF Stamp
<1>14. ASSUME NEW p \in Proc, LoadDone(p)
       PROVE  AllAlive'
  <2>1. UNCHANGED <<base, wal>> /\ mem' = [mem EXCEPT ![p] = part[p]] /\ Unlock(p)
    BY <1>14 DEF LoadDone
  <2>2. NoDead(base') /\ \A i \in 2..Len(wal') : wal'[i] \in Frame => wal'[i].val # Dead
    BY <2>1 DEF AllAlive
  <2>. QED
    BY <1>1, <1>2, <1>7, <2>1, <2>2
<1>15. ASSUME NEW p \in Proc, Crash(p)
       PROVE  AllAlive'
  <2>1. /\ UNCHANGED base /\ mem' = [mem EXCEPT ![p] = <<>>] /\ Unlock(p)
        /\ wal' = wal \/ wal' = Append(wal, Torn)
    BY <1>15 DEF Crash
  <2>2. NoDead(base')
    BY <2>1 DEF AllAlive
  <2>3. ASSUME NEW i \in 2..Len(wal'), wal'[i] \in Frame
        PROVE  wal'[i].val # Dead
    <3>1. CASE wal' = wal
      BY <2>3, <3>1 DEF AllAlive
    <3>2. CASE wal' = Append(wal, Torn)
      <4>1. wal \in Seq(Items) /\ Torn \in Items /\ Torn \notin Frame
        BY ConstantAssumption DEF Typed, Items
      <4>2. /\ Len(wal') = Len(wal) + 1 /\ wal'[Len(wal) + 1] = Torn
            /\ \A k \in 1..Len(wal) : wal'[k] = wal[k]
        BY <3>2, <4>1
      <4>3. i \in 2..Len(wal) /\ i \in 1..Len(wal)
        BY <2>3, <4>1, <4>2
      <4>. QED
        BY <2>3, <4>2, <4>3 DEF AllAlive
    <3>. QED
      BY <2>1, <3>1, <3>2
  <2>. QED
    BY <1>1, <1>3, <1>7, <2>1, <2>2, <2>3
<1>. QED
  BY <1>4, <1>5, <1>9, <1>10, <1>11, <1>12, <1>13, <1>14, <1>15, Zenon DEF Next, Local

LEMMA NumberedStep ==
  ASSUME TypeInv, Numbered, CheckpointsKeepNumbers, "dump" \in Faults => AllAlive,
         [Next]_vars
  PROVE  Numbered'
<1>. USE DEF TypeInv, disk, lock, copy, local, ghost
<1>1. CASE UNCHANGED vars
  BY <1>1 DEF vars, Numbered, NumberedAt
<1>2. ASSUME NEW p \in Proc, NumberedAt(p)', UNCHANGED <<gen, epoch>>,
             pc[p] \notin {"remove", "stamp"},
             \A q \in Proc \ {p} : /\ pc'[q] = pc[q] /\ numbering'[q] = numbering[q]
                                   /\ loaded'[q] = loaded[q] /\ mgen'[q] = mgen[q]
                                   /\ touched'[q] = touched[q]
      PROVE  Numbered'
  <2>1. \A q \in Proc \ {p} : NumberedAt(q)'
    BY <1>2 DEF Numbered, NumberedAt
  <2>2. (\A q \in Proc : pc'[q] \notin {"remove", "stamp"}) =>
          \A q \in Proc : pc[q] \notin {"remove", "stamp"}
    BY <1>2
  <2>3. (\A q \in Proc : pc'[q] \notin {"remove", "stamp"}) => gen' = epoch'
    BY <1>2, <2>2 DEF Numbered
  <2>. QED
    BY <1>2, <2>1, <2>3, Zenon DEF Numbered
<1>3. ASSUME NEW p \in Proc, NEW l, pc' = [pc EXCEPT ![p] = l],
             UNCHANGED <<gen, epoch, loaded, mgen, numbering, touched>>
      PROVE  /\ pc'[p] = l
             /\ \A q \in Proc \ {p} : /\ pc'[q] = pc[q] /\ numbering'[q] = numbering[q]
                                      /\ loaded'[q] = loaded[q] /\ mgen'[q] = mgen[q]
                                      /\ touched'[q] = touched[q]
  BY <1>3 DEF Typed
<1>4. \A p \in Proc : NumberedAt(p)
  BY DEF Numbered
<1>5. ASSUME NEW p \in Proc, Local(p)
      PROVE  Numbered'
  <2>1. PICK m, t, s : Leaves(p, m, t, s)
    BY <1>5, LocalFits
  <2>2. loaded[p] /\ pc[p] = "idle"
    BY <1>5 DEF Local, Insert, Update, Delete, Reject, Rollback, Statement, Idle
  <2>3. /\ UNCHANGED <<gen, epoch, pc, loaded, mgen, numbering>>
        /\ touched' = [touched EXCEPT ![p] = t]
    BY <2>1 DEF Leaves
  <2>4. \A q \in Proc \ {p} : touched'[q] = touched[q]
    BY <2>3 DEF Typed
  <2>5. NumberedAt(p)'
    BY <1>4, <2>2, <2>3 DEF NumberedAt
  <2>. QED
    BY <1>2, <2>2, <2>3, <2>4, <2>5
\* Steps to another place of the call, or out of it.
<1>6. ASSUME NEW p \in Proc,
             CommitLock(p) \/ CommitCheck(p) \/ AppendFails(p) \/ CheckpointFails(p)
             \/ LoadLock(p) \/ LoadBase(p) \/ LoadWal(p)
      PROVE  Numbered'
  <2>. DEFINE stays == UNCHANGED <<gen, epoch, loaded, mgen, numbering, touched>>
              moves(l) == pc' = [pc EXCEPT ![p] = l] /\ stays
  <2>1. \/ moves("check") /\ pc[p] = "idle" /\ touched[p] # <<>>
        \/ moves("append") /\ pc[p] = "check" /\ gen = mgen[p]
        \/ moves("idle") /\ pc[p] \notin {"remove", "stamp", "dump"}
        \/ moves("idle") /\ pc[p] = "dump" /\ "dump" \in Faults
        \/ moves("load") /\ pc[p] = "idle"
        \/ moves("replay") /\ pc[p] = "load"
        \/ moves("install") /\ pc[p] = "replay"
    <3>1. CASE CommitLock(p)
      BY <3>1 DEF CommitLock, Idle, InTxn, Goto
    <3>2. CASE CommitCheck(p)
      BY <3>2 DEF CommitCheck, Unlock, Goto
    <3>3. CASE AppendFails(p)
      BY <3>3 DEF AppendFails, Unlock, Goto
    <3>4. CASE CheckpointFails(p)
      <4>1. pc[p] = "dump" /\ "dump" \in Faults
        BY <3>4 DEF CheckpointFails, CheckpointsKeepNumbers
      <4>. QED
        BY <3>4, <4>1 DEF CheckpointFails, Unlock, Goto
    <3>5. CASE LoadLock(p) \/ LoadBase(p) \/ LoadWal(p)
      BY <3>5 DEF LoadLock, LoadBase, LoadWal, Unlock, Goto, Idle
    <3>. QED
      BY <1>6, <3>1, <3>2, <3>3, <3>4, <3>5
  <2>2. PICK l : moves(l) /\ \/ l = "check" /\ pc[p] = "idle" /\ touched[p] # <<>>
                             \/ l = "append" /\ pc[p] = "check" /\ gen = mgen[p]
                             \/ l = "idle" /\ pc[p] \notin {"remove", "stamp", "dump"}
                             \/ l = "idle" /\ pc[p] = "dump" /\ "dump" \in Faults
                             \/ l = "load" /\ pc[p] = "idle"
                             \/ l = "replay" /\ pc[p] = "load"
                             \/ l = "install" /\ pc[p] = "replay"
    <3>. HIDE DEF moves
    <3>. QED
      BY <2>1
  <2>3. stays /\ pc'[p] = l
    BY <1>3, <2>2
  <2>4. NumberedAt(p)'
    BY <1>4, <2>2, <2>3 DEF NumberedAt
  <2>. QED
    BY <1>2, <1>3, <2>2, <2>4
<1>7. ASSUME NEW p \in Proc, AppendItem(p)
      PROVE  Numbered'
  BY <1>7 DEF AppendItem, Numbered, NumberedAt
<1>8. ASSUME NEW p \in Proc, CommitDone(p)
      PROVE  Numbered'
  <2>1. /\ pc[p] = "append" /\ pc' = [pc EXCEPT ![p] = "idle"]
        /\ touched' = [touched EXCEPT ![p] = <<>>]
        /\ UNCHANGED <<gen, epoch, loaded, mgen, numbering>>
    BY <1>8 DEF CommitDone, Unlock, Goto, EndTxn
  <2>2. /\ pc'[p] = "idle" /\ touched'[p] = <<>>
        /\ \A q \in Proc \ {p} : pc'[q] = pc[q] /\ touched'[q] = touched[q]
    BY <2>1 DEF Typed
  <2>3. NumberedAt(p)'
    BY <1>4, <2>1, <2>2 DEF NumberedAt
  <2>. QED
    BY <1>2, <2>1, <2>2, <2>3
<1>9. ASSUME NEW p \in Proc, CheckpointLock(p)
      PROVE  Numbered'
  <2>1. "dump" \in Faults => mem[p] = Compacted(mem[p])
    BY CompactedSame DEF AllAlive, Typed
  <2>2. /\ pc[p] = "idle" /\ loaded[p] /\ pc' = [pc EXCEPT ![p] = "dump"]
        /\ numbering' = [numbering EXCEPT ![p] =
                           IF mem[p] = Compacted(mem[p]) THEN numbering[p] ELSE -1]
        /\ UNCHANGED <<gen, epoch, loaded, mgen, touched>>
    BY <1>9 DEF CheckpointLock, Idle, Goto
  <2>3. "dump" \in Faults => numbering'[p] = numbering[p]
    BY <2>1, <2>2 DEF Typed
  <2>4. /\ \A q \in Proc \ {p} : numbering'[q] = numbering[q] /\ pc'[q] = pc[q]
        /\ pc'[p] = "dump"
    BY <2>2 DEF Typed
  <2>5. NumberedAt(p)'
    BY <1>4, <2>2, <2>3, <2>4 DEF NumberedAt
  <2>. QED
    BY <1>2, <2>2, <2>4, <2>5
\* Only one process is in a checkpoint.
<1>10. ASSUME NEW p \in Proc, pc[p] \in {"dump", "remove", "stamp"}
       PROVE  \A q \in Proc \ {p} :
                pc[q] \notin {"check", "append", "dump", "remove", "stamp"}
  <2>1. MutualExclusion
    OBVIOUS
  <2>. QED
    BY <1>10, <2>1 DEF MutualExclusion
<1>11. ASSUME NEW p \in Proc, Dump(p)
       PROVE  Numbered'
  <2>1. /\ pc[p] = "dump" /\ pc' = [pc EXCEPT ![p] = "remove"]
        /\ numbering' = [numbering EXCEPT ![p] = epoch'] /\ epoch' = epoch + 1
        /\ UNCHANGED <<gen, loaded, mgen, touched>>
    BY <1>11 DEF Dump, Goto
  <2>2. /\ pc'[p] = "remove" /\ numbering'[p] = epoch'
        /\ \A q \in Proc \ {p} : pc'[q] = pc[q] /\ numbering'[q] = numbering[q]
    BY <2>1 DEF Typed
  <2>3. gen = epoch
    <3>1. \A q \in Proc : pc[q] \notin {"remove", "stamp"}
      BY <1>10, <2>1
    <3>. QED
      BY <3>1 DEF Numbered
  <2>4. NumberedAt(p)'
    BY <1>4, <2>1, <2>2, <2>3 DEF NumberedAt
  <2>5. ASSUME NEW q \in Proc \ {p}
        PROVE  NumberedAt(q)'
    BY <1>4, <1>10, <2>1, <2>2 DEF NumberedAt
  <2>6. ~ \A q \in Proc : pc'[q] \notin {"remove", "stamp"}
    BY <2>2
  <2>. QED
    BY <2>4, <2>5, <2>6, Zenon DEF Numbered
<1>12. ASSUME NEW p \in Proc, RemoveWal(p)
       PROVE  Numbered'
  <2>1. /\ pc[p] = "remove" /\ pc' = [pc EXCEPT ![p] = "stamp"]
        /\ UNCHANGED <<gen, epoch, loaded, mgen, numbering, touched>>
    BY <1>12 DEF RemoveWal, Goto
  <2>2. pc'[p] = "stamp" /\ \A q \in Proc \ {p} : pc'[q] = pc[q]
    BY <2>1 DEF Typed
  <2>3. \A q \in Proc : NumberedAt(q)'
    BY <1>4, <2>1, <2>2 DEF NumberedAt
  <2>4. ~ \A q \in Proc : pc'[q] \notin {"remove", "stamp"}
    BY <2>2
  <2>. QED
    BY <2>3, <2>4, Zenon DEF Numbered
<1>13. ASSUME NEW p \in Proc, Stamp(p)
       PROVE  Numbered'
  <2>1. /\ pc[p] = "stamp" /\ pc' = [pc EXCEPT ![p] = "idle"]
        /\ mgen' = [mgen EXCEPT ![p] = gen'] /\ gen' = gen + 1
        /\ UNCHANGED <<epoch, loaded, touched, numbering>>
    BY <1>13 DEF Stamp, Unlock, Goto
  <2>2. /\ pc'[p] = "idle" /\ mgen'[p] = gen'
        /\ \A q \in Proc \ {p} : pc'[q] = pc[q] /\ mgen'[q] = mgen[q]
    BY <2>1 DEF Typed
  <2>3. gen' = epoch' /\ NumberedAt(p)'
    BY <1>4, <2>1, <2>2 DEF NumberedAt
  <2>4. ASSUME NEW q \in Proc \ {p}
        PROVE  NumberedAt(q)'
    BY <1>4, <1>10, <2>1, <2>2 DEF NumberedAt
  <2>. QED
    BY <2>3, <2>4, Zenon DEF Numbered
<1>14. ASSUME NEW p \in Proc, LoadDone(p)
       PROVE  Numbered'
  <2>1. /\ pc[p] = "install" /\ pc' = [pc EXCEPT ![p] = "idle"]
        /\ mgen' = [mgen EXCEPT ![p] = gen] /\ loaded' = [loaded EXCEPT ![p] = TRUE]
        /\ numbering' = [numbering EXCEPT ![p] = epoch]
        /\ UNCHANGED <<gen, epoch, touched>>
    BY <1>14 DEF LoadDone, Unlock, Goto
  <2>2. /\ pc'[p] = "idle" /\ mgen'[p] = gen /\ loaded'[p] /\ numbering'[p] = epoch
        /\ \A q \in Proc \ {p} : /\ pc'[q] = pc[q] /\ mgen'[q] = mgen[q]
                                 /\ loaded'[q] = loaded[q] /\ numbering'[q] = numbering[q]
    BY <2>1 DEF Typed
  <2>3. gen = epoch
    <3>1. MutualExclusion
      OBVIOUS
    <3>2. excl = Nobody
      BY <2>1, <3>1 DEF MutualExclusion
    <3>3. \A q \in Proc : pc[q] \notin {"remove", "stamp"}
      BY <3>1, <3>2, ConstantAssumption DEF MutualExclusion
    <3>. QED
      BY <3>3 DEF Numbered
  <2>4. NumberedAt(p)'
    BY <2>1, <2>2, <2>3 DEF NumberedAt
  <2>. QED
    BY <1>2, <2>1, <2>2, <2>4
<1>15. ASSUME NEW p \in Proc, Crash(p)
       PROVE  Numbered'
  <2>1. pc[p] \notin {"dump", "remove", "stamp"}
    BY <1>15 DEF Crash, CheckpointsKeepNumbers
  <2>2. /\ pc' = [pc EXCEPT ![p] = "idle"] /\ loaded' = [loaded EXCEPT ![p] = FALSE]
        /\ mgen' = [mgen EXCEPT ![p] = 0] /\ numbering' = [numbering EXCEPT ![p] = -1]
        /\ touched' = [touched EXCEPT ![p] = <<>>] /\ UNCHANGED <<gen, epoch>>
    BY <1>15 DEF Crash, Unlock, Goto, EndTxn
  <2>3. /\ pc'[p] = "idle" /\ ~loaded'[p] /\ touched'[p] = <<>>
        /\ \A q \in Proc \ {p} : /\ pc'[q] = pc[q] /\ mgen'[q] = mgen[q]
                                 /\ loaded'[q] = loaded[q] /\ numbering'[q] = numbering[q]
                                 /\ touched'[q] = touched[q]
    BY <2>2 DEF Typed
  <2>4. NumberedAt(p)'
    BY <2>3 DEF NumberedAt
  <2>. QED
    BY <1>2, <2>1, <2>2, <2>3, <2>4
<1>. QED
  BY <1>1, <1>5, <1>6, <1>7, <1>8, <1>9, <1>11, <1>12, <1>13, <1>14, <1>15, Zenon
     DEF Next, Local

\* The comparison of generations in commit_wal_for_table does what it is for:
\* a frame never goes out under a row number of an older base file, unless a
\* checkpoint failed, or was cut short, after it had renumbered the rows.
THEOREM FramesAreCurrent ==
  ASSUME CheckpointsKeepNumbers
  PROVE  Spec => []NoStaleFrame
<1>. DEFINE Alive == "dump" \in Faults => AllAlive
<1>1. Init => Numbered /\ Alive
  <2>. SUFFICES ASSUME Init PROVE Numbered /\ AllAlive
    BY DEF AllAlive
  <2>1. Numbered
    BY DEF Init, Numbered, NumberedAt
  <2>2. AllAlive
    BY ConstantAssumption DEF Init, AllAlive, NoDead
  <2>. QED
    BY <2>1, <2>2
<1>2. TypeInv /\ Numbered /\ Alive /\ [Next]_vars => Numbered' /\ Alive'
  <2>. SUFFICES ASSUME TypeInv, Numbered, Alive, [Next]_vars
                PROVE  Numbered' /\ Alive'
    OBVIOUS
  <2>1. Numbered'
    BY NumberedStep
  <2>2. Alive'
    BY AliveStep DEF CheckpointsKeepNumbers
  <2>. QED
    BY <2>1, <2>2
<1>3. TypeInv /\ Numbered => NoStaleFrame
  <2>. SUFFICES ASSUME TypeInv, Numbered, NEW p \in Proc, pc[p] = "append"
                PROVE  numbering[p] = epoch
    BY DEF NoStaleFrame
  <2>1. loaded[p] /\ numbering[p] = mgen[p] /\ mgen[p] = gen
    BY DEF Numbered, NumberedAt, TypeInv, Typed
  <2>2. gen = epoch
    BY DEF Numbered, TypeInv, MutualExclusion
  <2>. QED
    BY <2>1, <2>2
<1>. HIDE DEF Alive
<1>. QED
  BY <1>1, <1>2, <1>3, TypeInvHolds, PTL DEF Spec

-----------------------------------------------------------------------------
(* Where one process writes: what a commit promised is there, and nothing  *)
(* else is.                                                                *)

\* A WAL without a tear: its header, then frames.
WholeWal(x) == x = <<>> \/ (x[1] = Header /\ \A i \in 2..Len(x) : x[i] \in Frame)

\* Rows that hold what was promised, and nothing that was not.
Promised(d, ack, may) ==
  Distinct(d) /\ ack \subseteq Shown(d) /\ Shown(d) \subseteq ack \cup may \cup {Blank}

\* A writer's rows s are those a reader gets, up to rows nobody can see: what
\* was never logged is dead to the writer, and to the reader blank or not there.
Covers(s, d) ==
  /\ Len(d) <= Len(s)
  /\ \A r \in 1..Len(d) : d[r] = s[r] \/ (d[r] = Blank /\ s[r] = Dead)
  /\ \A r \in (Len(d) + 1)..Len(s) : s[r] = Dead

RowsOf(t) == {t[i] : i \in 1..Len(t)}

\* An open transaction changed the rows it logged, and no others; what it
\* wrote there is new.
Draft(m, t, s) ==
  /\ Len(s) <= Len(m)
  /\ \A r \in 1..Len(m) : r \notin RowsOf(t) => m[r] = IF r <= Len(s) THEN s[r] ELSE Dead
  /\ \A r \in RowsOf(t) : m[r] \notin Values(s)

\* What a reader would get in the middle of a commit that has written the
\* first k of its rows t: those as in m, the others as before in d.
Half(e, d, m, t, k) ==
  /\ Len(d) <= Len(e)
  /\ Len(e) = Len(d) \/ \E i \in 1..k : t[i] = Len(e)
  /\ \A i \in 1..k : t[i] <= Len(e) /\ e[t[i]] = m[t[i]]
  /\ \A r \in 1..Len(e) : (\A i \in 1..k : t[i] # r)
                           => e[r] = IF r <= Len(d) THEN d[r] ELSE Blank

-----------------------------------------------------------------------------
(* Statements and rollback.                                                *)

LEMMA LenContent ==
  ASSUME NEW m \in Content
  PROVE  Len(m) \in Nat /\ DOMAIN m = 1..Len(m) /\ \A r \in 1..Len(m) : m[r] \in Cell
BY DEF Content, Cell

\* Row r of m was set to x[r], or appended.
SetsRow(x, m, r) ==
  /\ Len(m) <= Len(x) /\ r \in 1..Len(x)
  /\ \A q \in 1..Len(x) : q # r => q \in 1..Len(m) /\ x[q] = m[q]

\* A statement that writes a new value, or a tombstone, over a row.
LEMMA DraftSets ==
  ASSUME NEW m \in Content, NEW x \in Content, NEW s \in Content,
         NEW t \in Seq(RowNum), NEW r \in RowNum,
         SetsRow(x, m, r), RowsOf(t) \subseteq 1..Len(m), Draft(m, t, s), Distinct(m),
         x[r] = Dead \/ x[r] \in Val \ (Values(m) \cup Values(s))
  PROVE  Draft(x, WithRow(t, r), s) /\ Distinct(x)
<1>. DEFINE w == WithRow(t, r)
<1>1. Len(m) \in Nat /\ Len(x) \in Nat /\ Len(s) \in Nat /\ Dead \notin Val
  BY LenContent, ConstantAssumption
<1>2. RowsOf(w) = RowsOf(t) \cup {r}
  <2>1. /\ \A i \in 1..Len(w) : w[i] = r \/ \E j \in 1..Len(t) : t[j] = w[i]
        /\ \E i \in 1..Len(w) : w[i] = r
        /\ \A j \in 1..Len(t) : \E i \in 1..Len(w) : t[j] = w[i]
    BY WithRowRows
  <2>. HIDE DEF w
  <2>2. RowsOf(w) \subseteq RowsOf(t) \cup {r}
    BY <2>1 DEF RowsOf
  <2>3. r \in RowsOf(w)
    BY <2>1 DEF RowsOf
  <2>4. ASSUME NEW q \in RowsOf(t)
        PROVE  q \in RowsOf(w)
    <3>1. PICK j \in 1..Len(t) : t[j] = q
      BY <2>4 DEF RowsOf
    <3>. QED
      BY <2>1, <3>1 DEF RowsOf
  <2>. QED
    BY <2>2, <2>3, <2>4
<1>. HIDE DEF w
<1>3. Draft(x, w, s)
  <2>1. Len(s) <= Len(x)
    BY <1>1 DEF Draft, SetsRow
  <2>2. ASSUME NEW q \in 1..Len(x), q \notin RowsOf(w)
        PROVE  x[q] = IF q <= Len(s) THEN s[q] ELSE Dead
    BY <1>2, <2>2 DEF Draft, SetsRow
  <2>3. ASSUME NEW q \in RowsOf(w)
        PROVE  x[q] \notin Values(s)
    <3>1. CASE q = r
      BY <1>1, <3>1 DEF Values
    <3>2. CASE q # r
      <4>1. q \in RowsOf(t) /\ q \in 1..Len(m)
        BY <1>2, <2>3, <3>2
      <4>2. q \in 1..Len(x)
        BY <1>1, <4>1 DEF SetsRow
      <4>. QED
        BY <3>2, <4>1, <4>2 DEF Draft, SetsRow
    <3>. QED
      BY <3>1, <3>2
  <2>. QED
    BY <2>1, <2>2, <2>3 DEF Draft
<1>4. ASSUME NEW i \in 1..Len(x), NEW j \in 1..Len(x), x[i] = x[j], x[i] \in Val
      PROVE  i = j
  <2>1. CASE i # r /\ j # r
    BY <1>4, <2>1 DEF SetsRow, Distinct
  <2>2. CASE i = r /\ j # r
    BY <1>1, <1>4, <2>2 DEF SetsRow, Values
  <2>3. CASE i # r /\ j = r
    BY <1>1, <1>4, <2>3 DEF SetsRow, Values
  <2>. QED
    BY <2>1, <2>2, <2>3
<1>. QED
  BY <1>3, <1>4 DEF Distinct, w

\* An appended tombstone is nothing to a transaction, and to a reader.
LEMMA DeadAppended ==
  ASSUME NEW m \in Content, NEW x \in Content, NEW s \in Content,
         NEW t, RowsOf(t) \subseteq 1..Len(m),
         Len(x) = Len(m) + 1, x[Len(m) + 1] = Dead, \A q \in 1..Len(m) : x[q] = m[q],
         Distinct(m)
  PROVE  /\ Distinct(x)
         /\ Draft(m, t, s) => Draft(x, t, s)
         /\ \A d \in Content : Covers(m, d) => Covers(x, d)
<1>1. Len(m) \in Nat /\ Len(s) \in Nat /\ Dead \notin Val
  BY LenContent, ConstantAssumption
<1>2. \A q \in 1..Len(x) : q \in 1..Len(m) \/ (q = Len(m) + 1 /\ x[q] = Dead)
  BY <1>1
<1>3. Distinct(x)
  BY <1>1, <1>2 DEF Distinct
<1>4. ASSUME Draft(m, t, s)
      PROVE  Draft(x, t, s)
  <2>1. Len(s) <= Len(x) /\ ~(Len(m) + 1 <= Len(s))
    BY <1>1, <1>4 DEF Draft
  <2>. QED
    BY <1>2, <1>4, <2>1 DEF Draft
<1>5. ASSUME NEW d \in Content, Covers(m, d)
      PROVE  Covers(x, d)
  <2>1. Len(d) \in Nat /\ Len(d) <= Len(m)
    BY <1>5, LenContent DEF Covers
  <2>2. Len(d) <= Len(x)
    BY <1>1, <2>1
  <2>3. \A r \in 1..Len(d) : r \in 1..Len(m)
    BY <1>1, <2>1
  <2>4. \A r \in 1..Len(d) : d[r] = x[r] \/ (d[r] = Blank /\ x[r] = Dead)
    BY <1>5, <2>3 DEF Covers
  <2>5. \A r \in (Len(d) + 1)..Len(x) : x[r] = Dead
    BY <1>1, <1>2, <1>5, <2>1 DEF Covers
  <2>. QED
    BY <2>2, <2>4, <2>5 DEF Covers
<1>. QED
  BY <1>3, <1>4, <1>5

\* A rollback ends where the transaction began, but for rows nobody can see.
LEMMA RolledBackKeeps ==
  ASSUME NEW m \in Content, NEW s \in Content, Len(s) <= Len(m), Distinct(s)
  PROVE  LET x == RolledBack(m, s)
         IN  /\ Distinct(x)
             /\ \A d \in Content : Covers(s, d) => Covers(x, d)
<1>. DEFINE x == RolledBack(m, s)
<1>1. Len(m) \in Nat /\ Len(s) \in Nat /\ Dead \notin Val
  BY LenContent, ConstantAssumption
<1>2. /\ Len(x) = Len(m) /\ DOMAIN m = 1..Len(m)
      /\ \A r \in 1..Len(m) : x[r] = IF r <= Len(s) THEN s[r] ELSE Dead
  BY RolledBackType, LenContent DEF RolledBack
<1>. HIDE DEF x
<1>3. Distinct(x)
  BY <1>1, <1>2 DEF Distinct
<1>4. ASSUME NEW d \in Content, Covers(s, d)
      PROVE  Covers(x, d)
  <2>1. Len(d) \in Nat /\ Len(d) <= Len(s)
    BY <1>4, LenContent DEF Covers
  <2>2. Len(d) <= Len(x)
    BY <1>1, <1>2, <2>1
  <2>3. \A r \in 1..Len(d) : x[r] = s[r]
    BY <1>1, <1>2, <2>1
  <2>4. \A r \in (Len(d) + 1)..Len(x) : x[r] = Dead
    BY <1>1, <1>2, <1>4, <2>1 DEF Covers
  <2>. QED
    BY <1>4, <2>2, <2>3, <2>4 DEF Covers
<1>. QED
  BY <1>3, <1>4 DEF x

-----------------------------------------------------------------------------
(* Commits, frame by frame.                                                *)

LEMMA NothingToReplay ==
  ASSUME NEW b \in Content
  PROVE  Replay(b, <<>>) = b /\ Replay(b, <<Header>>) = b
<1>1. Replay(b, <<>>) = b
  BY DEF Replay
<1>. DEFINE w == <<Header>>
<1>2. w # <<>> /\ w[1] = Header /\ Len(w) = 1 /\ w \in Seq(Items)
  BY DEF Items
<1>. HIDE DEF w
<1>3. Good(w) = {} /\ FramesFollow(w)
  BY <1>2 DEF Good, FramesFollow
<1>4. LastRow(b, w) = Len(b)
  BY <1>2, <1>3, LastRowType
<1>5. \A r : OfRow(w, r) = {}
  BY <1>3 DEF OfRow
<1>6. Replay(b, w) = [r \in 1..Len(b) |-> b[r]]
  <2>1. Replay(b, w) = [r \in 1..Len(b) |-> IF r <= Len(b) THEN b[r] ELSE Blank]
    BY <1>2, <1>4, <1>5 DEF Replay
  <2>2. \A r \in 1..Len(b) : r <= Len(b)
    BY LenContent
  <2>. QED
    BY <2>1, <2>2
<1>7. [r \in 1..Len(b) |-> b[r]] = b
  BY DEF Content
<1>. QED
  BY <1>1, <1>6, <1>7 DEF w

LEMMA HalfStarts ==
  ASSUME NEW d \in Content, NEW m, NEW t
  PROVE  Half(d, d, m, t, 0)
<1>1. Len(d) \in Nat
  BY LenContent
<1>. QED
  BY <1>1 DEF Half

LEMMA HalfGrows ==
  ASSUME NEW b \in Content, NEW x \in Seq(Items), x # <<>>, WholeWal(x),
         NEW d \in Content, NEW m \in Content, NEW t \in Seq(RowNum),
         NEW k \in Nat, k < Len(t), RowsOf(t) \subseteq 1..Len(m),
         Half(Replay(b, x), d, m, t, k),
         NEW f, f = [row |-> t[k + 1], val |-> m[t[k + 1]]]
  PROVE  Half(Replay(b, Append(x, f)), d, m, t, k + 1)
<1>. DEFINE e == Replay(b, x)
            g == Replay(b, Append(x, f))
            r == t[k + 1]
<1>1. Len(t) \in Nat /\ k + 1 \in 1..Len(t) /\ r \in RowNum /\ r \in RowsOf(t)
  BY DEF RowsOf
<1>2. r \in 1..Len(m) /\ m[r] \in Cell /\ r \in Nat
  BY <1>1, LenContent DEF RowNum
<1>3. f \in Frame /\ f.row = r /\ f.val = m[r]
  BY <1>1, <1>2 DEF Frame, Cell
<1>4. x[1] = Header /\ \A i \in 2..Len(x) : x[i] \in Frame
  BY DEF WholeWal
<1>5. /\ Len(g) = IF r > Len(e) THEN r ELSE Len(e)
      /\ \A q \in 1..Len(g) : g[q] = IF q = r THEN m[r]
                                    ELSE IF q <= Len(e) THEN e[q] ELSE Blank
  BY <1>3, <1>4, ReplayAppend, SMTT(30)
<1>6. FramesFollow(x)
  BY <1>4 DEF FramesFollow
<1>7. Len(e) \in Nat /\ Len(d) \in Nat
  BY <1>6, ReplayType, LenContent
<1>. HIDE DEF e, g
<1>8. Half(e, d, m, t, k)
  BY DEF e
<1>. HIDE DEF r
<1>9. \A i \in 1..(k + 1) : i \in 1..k \/ (i = k + 1 /\ t[i] = r)
  BY DEF r
<1>10. \A i \in 1..k : i \in 1..(k + 1)
  OBVIOUS
<1>11. k + 1 \in 1..(k + 1) /\ t[k + 1] = r
  BY DEF r
<1>12. Len(d) <= Len(g) /\ Len(e) <= Len(g) /\ r <= Len(g) /\ r \in 1..Len(g)
  BY <1>2, <1>5, <1>7, <1>8 DEF Half
<1>13. Len(g) = Len(d) \/ \E i \in 1..(k + 1) : t[i] = Len(g)
  BY <1>5, <1>7, <1>8, <1>10, <1>11 DEF Half
<1>14. \A i \in 1..(k + 1) : t[i] <= Len(g) /\ g[t[i]] = m[t[i]]
  <2>1. g[r] = m[r]
    BY <1>5, <1>12
  <2>2. ASSUME NEW i \in 1..k
        PROVE  t[i] <= Len(g) /\ g[t[i]] = m[t[i]]
    <3>1. i \in 1..Len(t)
      BY <1>1
    <3>2. t[i] \in 1..MaxRow /\ t[i] \in Nat /\ t[i] >= 1
      BY <3>1, ConstantAssumption, SMTT(30) DEF RowNum
    <3>3. t[i] <= Len(e) /\ e[t[i]] = m[t[i]]
      BY <1>8 DEF Half
    <3>4. t[i] <= Len(g) /\ t[i] \in 1..Len(g)
      BY <1>5, <1>7, <1>12, <3>2, <3>3
    <3>. QED
      BY <1>5, <2>1, <3>3, <3>4
  <2>. QED
    BY <1>9, <1>12, <2>1, <2>2
<1>15. ASSUME NEW q \in 1..Len(g), \A i \in 1..(k + 1) : t[i] # q
       PROVE  g[q] = IF q <= Len(d) THEN d[q] ELSE Blank
  <2>1. q # r /\ \A i \in 1..k : t[i] # q
    BY <1>10, <1>11, <1>15
  <2>2. q <= Len(e) => q \in 1..Len(e)
    BY <1>7
  <2>3. q <= Len(d) => q <= Len(e)
    BY <1>7, <1>8 DEF Half
  <2>. QED
    BY <1>5, <1>8, <2>1, <2>2, <2>3 DEF Half
<1>. QED
  BY <1>12, <1>13, <1>14, <1>15 DEF Half, g

\* What a transaction on rows t of m writes, and what it replaces in s.
NewValues(m, t) == {m[r] : r \in RowsOf(t)} \cap Val
OldValues(s, t) == {s[r] : r \in RowsOf(t) \cap 1..Len(s)} \cap Val

LEMMA WritesReplaces ==
  ASSUME TypeInv, NEW p \in Proc
  PROVE  /\ Writes(p) = NewValues(mem[p], touched[p])
         /\ Replaces(p) = OldValues(saved[p], touched[p])
<1>1. DOMAIN touched[p] = 1..Len(touched[p]) /\ DOMAIN saved[p] = 1..Len(saved[p])
  BY LenContent DEF TypeInv, Typed
<1>2. Writes(p) = NewValues(mem[p], touched[p])
  BY <1>1 DEF Writes, NewValues, RowsOf
<1>3. Replaces(p) = OldValues(saved[p], touched[p])
  BY <1>1 DEF Replaces, OldValues, RowsOf
<1>. QED
  BY <1>2, <1>3

\* The middle of a commit: d was promised, k of the rows t are written, e is
\* what a reader gets, m the writer's rows, s those at BEGIN.
InCommit(d, e, m, s, t, k, ack, may) ==
  /\ d \in Content /\ e \in Content /\ m \in Content /\ s \in Content
  /\ t \in Seq(RowNum) /\ RowsOf(t) \subseteq 1..Len(m) /\ k \in 0..Len(t)
  /\ Half(e, d, m, t, k) /\ Covers(s, d) /\ Draft(m, t, s)
  /\ Distinct(m) /\ Distinct(s) /\ ack \subseteq Val /\ may \subseteq Val
  /\ Promised(d, ack, may)

\* Any number of frames of a commit may be there: a reader gets some of what
\* it writes, and all that it does not replace.
LEMMA HalfShows ==
  ASSUME NEW d, NEW e, NEW m, NEW s, NEW t, NEW k, NEW a, NEW u,
         InCommit(d, e, m, s, t, k, a, u)
  PROVE  /\ Distinct(e)
         /\ a \ OldValues(s, t) \subseteq Shown(e)
         /\ Shown(e) \subseteq a \cup u \cup {Blank} \cup NewValues(m, t)
         /\ k = Len(t) => /\ NewValues(m, t) \subseteq Shown(e)
                          /\ Shown(e) \subseteq ((a \cup u) \ OldValues(s, t))
                                                \cup {Blank} \cup NewValues(m, t)
<1>. USE DEF InCommit
<1>. DEFINE done(r) == \E i \in 1..k : t[i] = r
<1>1. /\ Len(d) \in Nat /\ Len(e) \in Nat /\ Len(m) \in Nat /\ Len(s) \in Nat
      /\ Len(t) \in Nat /\ k \in Nat /\ k <= Len(t)
      /\ Len(d) <= Len(e) /\ Len(d) <= Len(s)
  BY LenContent DEF Half, Covers
<1>2. {Blank, Dead} \cap Val = {} /\ Blank # Dead
  BY ConstantAssumption
<1>3. ASSUME NEW r, done(r)
      PROVE  r \in RowsOf(t) /\ r \in 1..Len(m) /\ r \in 1..Len(e) /\ e[r] = m[r]
  <2>1. PICK i \in 1..k : t[i] = r
    BY <1>3
  <2>2. i \in 1..Len(t)
    BY <1>1
  <2>3. r \in RowsOf(t)
    BY <2>1, <2>2 DEF RowsOf
  <2>4. r \in 1..Len(m)
    BY <2>3
  <2>5. r <= Len(e) /\ e[r] = m[r]
    BY <2>1 DEF Half
  <2>. QED
    BY <1>1, <2>3, <2>4, <2>5
<1>4. ASSUME NEW r \in 1..Len(e), ~done(r), r <= Len(d)
      PROVE  r \in 1..Len(d) /\ e[r] = d[r] /\ r \in 1..Len(s)
  BY <1>1, <1>4 DEF Half
<1>5. ASSUME NEW r \in 1..Len(e), ~done(r), ~(r <= Len(d))
      PROVE  e[r] = Blank
  BY <1>5 DEF Half
<1>. HIDE DEF done
<1>6. ASSUME NEW r \in 1..Len(d), d[r] \in Val
      PROVE  r \in 1..Len(s) /\ s[r] = d[r]
  BY <1>1, <1>2, <1>6 DEF Covers
<1>7. ASSUME NEW r \in RowsOf(t), m[r] \in Val, NEW q \in 1..Len(s)
      PROVE  m[r] # s[q]
  BY <1>7 DEF Draft, Values
<1>8. Distinct(e)
  <2>. SUFFICES ASSUME NEW i \in 1..Len(e), NEW j \in 1..Len(e), e[i] = e[j], e[i] \in Val
                PROVE  i = j
    BY DEF Distinct
  <2>1. CASE done(i) /\ done(j)
    BY <1>3, <2>1 DEF Distinct
  <2>2. ASSUME NEW q \in 1..Len(e), ~done(q), e[q] \in Val
        PROVE  q \in 1..Len(d) /\ e[q] = d[q] /\ q \in 1..Len(s) /\ s[q] = d[q]
    BY <1>2, <1>4, <1>5, <1>6, <2>2
  <2>3. CASE ~done(i) /\ ~done(j)
    BY <2>2, <2>3 DEF Promised, Distinct
  <2>4. CASE done(i) /\ ~done(j)
    BY <1>3, <1>7, <2>2, <2>4
  <2>5. CASE ~done(i) /\ done(j)
    BY <1>3, <1>7, <2>2, <2>5
  <2>. QED
    BY <2>1, <2>3, <2>4, <2>5
<1>9. ASSUME NEW v \in a, v \notin OldValues(s, t)
      PROVE  v \in Shown(e)
  <2>1. PICK r \in 1..Len(d) : d[r] = v /\ v \in Val
    BY DEF Promised, Shown, LiveRows
  <2>2. s[r] = v /\ r \in 1..Len(s)
    BY <1>6, <2>1
  <2>3. r \notin RowsOf(t)
    BY <1>9, <2>1, <2>2 DEF OldValues
  <2>4. ~done(r) /\ r \in 1..Len(e) /\ r <= Len(d)
    BY <1>1, <1>3, <2>3
  <2>5. e[r] = v
    BY <1>4, <2>1, <2>4
  <2>. QED
    BY <1>2, <2>1, <2>4, <2>5 DEF Shown, LiveRows
<1>10. ASSUME NEW r \in 1..Len(e), e[r] # Dead, done(r)
       PROVE  e[r] \in {Blank} \cup NewValues(m, t)
  <2>1. r \in RowsOf(t) /\ e[r] = m[r] /\ m[r] \in Cell
    BY <1>3, <1>10, LenContent
  <2>. QED
    BY <1>10, <2>1 DEF NewValues, Cell
<1>11. ASSUME NEW r \in 1..Len(e), e[r] # Dead, ~done(r)
       PROVE  e[r] = Blank \/ (e[r] \in a \cup u /\ r \in 1..Len(d) /\ e[r] = d[r])
  <2>1. CASE r <= Len(d)
    <3>1. e[r] = d[r] /\ r \in 1..Len(d)
      BY <1>4, <1>11, <2>1
    <3>2. e[r] \in Shown(d)
      BY <1>11, <3>1 DEF Shown, LiveRows
    <3>. QED
      BY <3>1, <3>2 DEF Promised
  <2>2. CASE ~(r <= Len(d))
    BY <1>5, <1>11, <2>2
  <2>. QED
    BY <2>1, <2>2
<1>12. Shown(e) \subseteq a \cup u \cup {Blank} \cup NewValues(m, t)
  BY <1>10, <1>11 DEF Shown, LiveRows
<1>13. ASSUME k = Len(t)
       PROVE  \A r : r \in RowsOf(t) <=> done(r)
  BY <1>13 DEF RowsOf, done
<1>14. ASSUME k = Len(t), NEW v \in NewValues(m, t)
       PROVE  v \in Shown(e)
  <2>1. PICK r \in RowsOf(t) : m[r] = v /\ v \in Val
    BY <1>14 DEF NewValues
  <2>2. r \in 1..Len(e) /\ e[r] = v
    BY <1>3, <1>13, <1>14, <2>1
  <2>. QED
    BY <1>2, <2>1, <2>2 DEF Shown, LiveRows
<1>15. ASSUME k = Len(t), NEW v \in Shown(e)
       PROVE  v \in ((a \cup u) \ OldValues(s, t)) \cup {Blank} \cup NewValues(m, t)
  <2>1. PICK r \in 1..Len(e) : e[r] = v /\ v # Dead
    BY <1>15 DEF Shown, LiveRows
  <2>2. CASE done(r)
    BY <1>10, <2>1, <2>2
  <2>3. CASE ~done(r) /\ v # Blank
    <3>1. v \in a \cup u /\ r \in 1..Len(d) /\ d[r] = v /\ v \in Val
      BY <1>11, <2>1, <2>3
    <3>2. r \in 1..Len(s) /\ s[r] = v /\ r \notin RowsOf(t)
      BY <1>6, <1>13, <1>15, <2>3, <3>1
    <3>3. v \notin OldValues(s, t)
      <4>1. ASSUME NEW q \in RowsOf(t) \cap 1..Len(s)
            PROVE  s[q] # v
        BY <1>15, <3>1, <3>2, <4>1 DEF Distinct
      <4>. QED
        BY <4>1 DEF OldValues
    <3>. QED
      BY <3>1, <3>3
  <2>. QED
    BY <2>2, <2>3
<1>. QED
  BY <1>8, <1>9, <1>12, <1>14, <1>15, Zenon

\* A whole commit: the file says what the writer's copy says.
LEMMA HalfCovers ==
  ASSUME NEW d \in Content, NEW e \in Content, NEW m \in Content, NEW s \in Content,
         NEW t \in Seq(RowNum), RowsOf(t) \subseteq 1..Len(m),
         Half(e, d, m, t, Len(t)), Covers(s, d), Draft(m, t, s)
  PROVE  Covers(m, e)
<1>1. /\ Len(d) \in Nat /\ Len(e) \in Nat /\ Len(m) \in Nat /\ Len(s) \in Nat
      /\ Len(t) \in Nat /\ Len(d) <= Len(e) /\ Len(d) <= Len(s) /\ Len(s) <= Len(m)
  BY LenContent DEF Half, Covers, Draft
<1>2. \A i \in 1..Len(t) : t[i] \in 1..Len(m) /\ t[i] <= Len(e)
  BY DEF RowsOf, Half
<1>3. Len(e) <= Len(m)
  BY <1>1, <1>2 DEF Half
<1>4. ASSUME NEW r \in 1..Len(e)
      PROVE  e[r] = m[r] \/ (e[r] = Blank /\ m[r] = Dead)
  <2>1. CASE \E i \in 1..Len(t) : t[i] = r
    BY <2>1 DEF Half
  <2>2. CASE \A i \in 1..Len(t) : t[i] # r
    <3>1. e[r] = IF r <= Len(d) THEN d[r] ELSE Blank
      BY <2>2 DEF Half
    <3>2. r \in 1..Len(m) /\ r \notin RowsOf(t)
      BY <1>1, <1>3, <2>2 DEF RowsOf
    <3>3. m[r] = IF r <= Len(s) THEN s[r] ELSE Dead
      BY <3>2 DEF Draft
    <3>4. CASE r <= Len(d)
      <4>1. r \in 1..Len(d) /\ r <= Len(s)
        BY <1>1, <3>4
      <4>. QED
        BY <3>1, <3>3, <3>4, <4>1 DEF Covers
    <3>5. CASE ~(r <= Len(d))
      <4>1. r <= Len(s) => r \in (Len(d) + 1)..Len(s)
        BY <1>1, <3>5
      <4>2. m[r] = Dead
        BY <3>3, <4>1 DEF Covers
      <4>. QED
        BY <3>1, <3>5, <4>2
    <3>. QED
      BY <3>4, <3>5
  <2>. QED
    BY <2>1, <2>2
<1>5. ASSUME NEW r \in (Len(e) + 1)..Len(m)
      PROVE  m[r] = Dead
  <2>1. \A i \in 1..Len(t) : t[i] # r
    BY <1>1, <1>2
  <2>2. r \in 1..Len(m) /\ r \notin RowsOf(t) /\ ~(r <= Len(d))
    BY <1>1, <2>1 DEF RowsOf
  <2>3. m[r] = IF r <= Len(s) THEN s[r] ELSE Dead
    BY <2>2 DEF Draft
  <2>4. r <= Len(s) => r \in (Len(d) + 1)..Len(s)
    BY <1>1, <2>2
  <2>. QED
    BY <2>3, <2>4 DEF Covers
<1>. QED
  BY <1>3, <1>4, <1>5 DEF Covers

-----------------------------------------------------------------------------
(* The invariant, for the only writer w.                                   *)

Busy == {"check", "append", "dump", "remove", "stamp"}

\* The rows of w when its open transaction began, if one is open.
Settled(w) == IF InTxn(w) THEN saved[w] ELSE mem[w]

\* What a reader gets without the running commit of w.
Before(w) == Replay(base, SubSeq(wal, 1, size[w]))

\* Nobody else has a transaction, or writes files.
Alone(w) ==
  /\ \A p \in Proc \ {w} : touched[p] = <<>> /\ pc[p] \notin Busy
  /\ ~loaded[w] => touched[w] = <<>> /\ pc[w] \notin Busy
  /\ pc[w] \in {"check", "append"} => InTxn(w)

Drafted(w) ==
  Distinct(mem[w]) /\ Distinct(Settled(w)) /\ Draft(mem[w], touched[w], Settled(w))

\* Between a checkpoint's first step and its last the promise is kept by the
\* writer's copy, else by the files, where a running commit does not count yet.
FilesKept(w) ==
  /\ WholeWal(wal)
  /\ pc[w] \notin {"append", "dump", "remove"} =>
       /\ Promised(Replay(base, wal), acked, unsure)
       /\ loaded[w] => Covers(Settled(w), Replay(base, wal))
  /\ pc[w] = "append" =>
       /\ Promised(Before(w), acked, unsure) /\ Covers(Settled(w), Before(w))
       /\ Appended(w) \in 0..Len(touched[w])
       /\ Half(Replay(base, wal), Before(w), mem[w], touched[w], Appended(w))
  /\ pc[w] \in {"dump", "remove"} => Promised(mem[w], acked, unsure)
  /\ pc[w] = "remove" => base = mem[w]

Kept(w) == Alone(w) /\ Drafted(w) /\ FilesKept(w)

LEMMA KeptTypes ==
  ASSUME TypeInv, NEW w \in Proc
  PROVE  /\ mem[w] \in Content /\ saved[w] \in Content /\ Settled(w) \in Content
         /\ touched[w] \in Seq(RowNum) /\ RowsOf(touched[w]) \subseteq 1..Len(mem[w])
         /\ Replay(base, wal) \in Content /\ base \in Content /\ wal \in Seq(Items)
         /\ Values(mem[w]) \cup Values(Settled(w)) \subseteq used
         /\ acked \in SUBSET Val /\ unsure \in SUBSET Val /\ used \subseteq Val
<1>1. /\ mem[w] \in Content /\ saved[w] \in Content /\ touched[w] \in Seq(RowNum)
      /\ base \in Content /\ wal \in Seq(Items) /\ FramesFollow(wal)
      /\ acked \in SUBSET Val /\ unsure \in SUBSET Val /\ used \subseteq Val
  BY DEF TypeInv, Typed, GhostTyped
<1>2. RowsOf(touched[w]) \subseteq 1..Len(mem[w])
  BY DEF TypeInv, TxnShape, RowsOf
<1>3. Replay(base, wal) \in Content
  BY <1>1, ReplayType
<1>4. Values(mem[w]) \cup Values(Settled(w)) \subseteq used
  BY DEF TypeInv, OnlyUsed, Settled
<1>. QED
  BY <1>1, <1>2, <1>3, <1>4 DEF Settled

\* Statements and rollback change the copy of w only, and what they leave is
\* again a draft of what the files say.
LEMMA LocalKept ==
  ASSUME TypeInv, NEW w \in Proc, Kept(w), Local(w)
  PROVE  Kept(w)'
<1>. DEFINE m == mem[w]
            t == touched[w]
            s == Settled(w)
            D == Replay(base, wal)
<1>1. /\ m \in Content /\ s \in Content /\ D \in Content /\ t \in Seq(RowNum)
      /\ RowsOf(t) \subseteq 1..Len(m) /\ Values(m) \cup Values(s) \subseteq used
  BY KeptTypes
<1>2. Distinct(m) /\ Distinct(s) /\ Draft(m, t, s)
  BY DEF Kept, Drafted
<1>3. pc[w] = "idle" /\ loaded[w]
  BY DEF Local, Insert, Update, Delete, Reject, Rollback, Statement, Idle
<1>4. Covers(s, D)
  BY <1>3 DEF Kept, FilesKept
<1>5. ASSUME NEW x, NEW u, NEW v, Leaves(w, x, u, v), NEW z, z = IF u # <<>> THEN v ELSE x,
             Distinct(x), Distinct(z), Draft(x, u, z), Covers(z, D)
      PROVE  Kept(w)'
  <2>1. /\ mem'[w] = x /\ touched'[w] = u /\ saved'[w] = v
        /\ \A q \in Proc \ {w} : touched'[q] = touched[q]
        /\ UNCHANGED <<base, wal, pc, loaded, acked, unsure>>
    BY <1>5 DEF Leaves, TypeInv, Typed, disk
  <2>2. Settled(w)' = z
    BY <1>5, <2>1 DEF Settled, InTxn
  <2>3. Alone(w)'
    BY <1>3, <2>1 DEF Kept, Alone
  <2>4. Drafted(w)'
    BY <1>5, <2>1, <2>2 DEF Drafted
  <2>5. FilesKept(w)'
    BY <1>3, <1>5, <2>1, <2>2 DEF Kept, FilesKept
  <2>. QED
    BY <2>3, <2>4, <2>5 DEF Kept
<1>6. s = IF InTxn(w) THEN saved[w] ELSE mem[w]
  BY DEF Settled
<1>7. TypeInv => Typed
  BY DEF TypeInv
<1>. HIDE DEF s, D
<1>8. ASSUME NEW x \in Content, NEW r \in RowNum, Leaves(w, x, WithRow(t, r), s), SetsRow(x, m, r),
             x[r] = Dead \/ x[r] \in Val \ used
      PROVE  Kept(w)'
  <2>1. Draft(x, WithRow(t, r), s) /\ Distinct(x)
    BY <1>1, <1>2, <1>8, DraftSets
  <2>2. WithRow(t, r) # <<>>
    BY <1>1, WithRowRows
  <2>. QED
    BY <1>2, <1>4, <1>5, <1>8, <2>1, <2>2
<1>9. ASSUME NEW v \in Val, Insert(w, v)
      PROVE  Kept(w)'
  <2>. DEFINE x == Append(m, v)
              r == Len(m) + 1
  <2>1. Leaves(w, x, WithRow(t, r), s) /\ r \in RowNum /\ v \notin used
    BY <1>6, <1>7, <1>9, InsertLeaves
  <2>2. v \in Cell /\ Len(m) \in Nat
    BY <1>1, LenContent DEF Cell
  <2>3. /\ x \in Content /\ Len(x) = Len(m) + 1 /\ x[Len(m) + 1] = v
        /\ \A q \in 1..Len(m) : x[q] = m[q]
    <3>1. m \in Seq(Cell)
      BY <1>1 DEF Content, Cell
    <3>. HIDE DEF m
    <3>. QED
      BY <2>2, <3>1 DEF Content, Cell
  <2>. HIDE DEF x
  <2>4. SetsRow(x, m, r) /\ x[r] \in Val \ used
    BY <2>1, <2>2, <2>3 DEF SetsRow
  <2>. QED
    BY <1>8, <2>1, <2>3, <2>4
<1>10. ASSUME NEW r \in RowNum, NEW v \in Cell, r \in LiveRows(m), v = Dead \/ v \in Val \ used,
              Leaves(w, [m EXCEPT ![r] = v], WithRow(t, r), s)
       PROVE  Kept(w)'
  <2>. DEFINE x == [m EXCEPT ![r] = v]
  <2>1. r \in 1..Len(m) /\ Len(m) \in Nat
    BY <1>1, <1>10, LenContent DEF LiveRows
  <2>2. /\ x \in Content /\ Len(x) = Len(m)
        /\ \A q \in 1..Len(m) : x[q] = IF q = r THEN v ELSE m[q]
    <3>1. m \in Seq(Cell)
      BY <1>1 DEF Content, Cell
    <3>. HIDE DEF m
    <3>. QED
      BY <2>1, <3>1 DEF Content, Cell
  <2>3. SetsRow(x, m, r) /\ x[r] = v
    <3>. HIDE DEF x, m
    <3>. QED
      BY <2>1, <2>2 DEF SetsRow
  <2>4. Leaves(w, x, WithRow(t, r), s)
    BY <1>10
  <2>. HIDE DEF x
  <2>. QED
    BY <1>8, <1>10, <2>2, <2>3, <2>4
<1>11. ASSUME NEW r \in RowNum, NEW v \in Val, Update(w, r, v)
       PROVE  Kept(w)'
  <2>1. v \in Cell
    BY DEF Cell
  <2>2. /\ Leaves(w, [m EXCEPT ![r] = v], WithRow(t, r), s)
        /\ r \in LiveRows(m) /\ v \notin used
    BY <1>6, <1>7, <1>11, UpdateLeaves
  <2>. QED
    BY <1>10, <2>1, <2>2
<1>12. ASSUME NEW r \in RowNum, Delete(w, r)
       PROVE  Kept(w)'
  <2>1. Dead \in Cell
    BY DEF Cell
  <2>2. Leaves(w, [m EXCEPT ![r] = Dead], WithRow(t, r), s) /\ r \in LiveRows(m)
    BY <1>6, <1>7, <1>12, DeleteLeaves
  <2>. QED
    BY <1>10, <2>1, <2>2
<1>13. ASSUME Reject(w)
       PROVE  Kept(w)'
  <2>. DEFINE x == Append(m, Dead)
  <2>1. Leaves(w, x, t, saved[w])
    BY <1>7, <1>13, RejectLeaves
  <2>2. /\ x \in Content /\ Len(x) = Len(m) + 1 /\ x[Len(m) + 1] = Dead
        /\ \A q \in 1..Len(m) : x[q] = m[q]
    <3>1. m \in Seq(Cell) /\ Dead \in Cell
      BY <1>1 DEF Content, Cell
    <3>. HIDE DEF m
    <3>. QED
      BY <3>1 DEF Content, Cell
  <2>. HIDE DEF x
  <2>3. /\ Distinct(x) /\ Draft(x, t, s)
        /\ Covers(m, D) => Covers(x, D)
    BY <1>1, <1>2, <2>2, DeadAppended
  <2>4. CASE t # <<>>
    BY <1>2, <1>4, <1>5, <1>6, <2>1, <2>3, <2>4 DEF InTxn
  <2>5. CASE t = <<>>
    <3>1. s = m
      BY <1>6, <2>5 DEF InTxn
    <3>2. Draft(x, t, x)
      BY <2>2, <2>5, LenContent DEF Draft, RowsOf
    <3>. QED
      BY <1>4, <1>5, <2>1, <2>3, <2>5, <3>1, <3>2
  <2>. QED
    BY <2>4, <2>5
<1>14. ASSUME Rollback(w)
       PROVE  Kept(w)'
  <2>. DEFINE x == RolledBack(m, s)
  <2>1. InTxn(w) /\ s = saved[w]
    BY <1>6, <1>7, <1>14, RollbackLeaves
  <2>2. Leaves(w, x, <<>>, <<>>)
    BY <1>7, <1>14, <2>1, RollbackLeaves
  <2>3. Len(s) <= Len(m)
    BY <1>2 DEF Draft
  <2>4. Distinct(x) /\ Covers(x, D) /\ x \in Content
    BY <1>1, <1>2, <1>4, <2>3, RolledBackKeeps, RolledBackType
  <2>. HIDE DEF x
  <2>5. Draft(x, <<>>, x)
    BY <2>4, LenContent DEF Draft, RowsOf
  <2>. QED
    BY <1>5, <2>2, <2>4, <2>5
<1>. QED
  BY <1>9, <1>11, <1>12, <1>13, <1>14, Zenon DEF Local

\* What other processes do: load, and die.
LEMMA OthersKept ==
  ASSUME TypeInv, NEW w \in Proc, Writers = {w}, Kept(w), NEW p \in Proc \ {w},
         Local(p) \/ CommitLock(p) \/ CommitCheck(p) \/ AppendItem(p) \/ AppendFails(p)
         \/ CommitDone(p) \/ CheckpointLock(p) \/ Dump(p) \/ RemoveWal(p) \/ Stamp(p)
         \/ CheckpointFails(p) \/ LoadLock(p) \/ LoadBase(p) \/ LoadWal(p)
         \/ LoadDone(p) \/ Crash(p)
  PROVE  Kept(w)'
<1>. USE DEF disk, copy, local, ghost
<1>1. /\ touched[p] = <<>> /\ pc[p] \notin Busy /\ p \notin Writers
      /\ \A q \in Proc \ {w} : touched[q] = <<>> /\ pc[q] \notin Busy
  BY DEF Kept, Alone
<1>2. LoadLock(p) \/ LoadBase(p) \/ LoadWal(p) \/ LoadDone(p) \/ Crash(p)
  <2>1. ~Local(p) /\ ~CheckpointLock(p)
    BY <1>1 DEF Local, Insert, Update, Delete, Reject, Rollback, Statement, CheckpointLock
  <2>2. ~CommitLock(p) /\ ~CommitCheck(p) /\ ~AppendItem(p) /\ ~AppendFails(p) /\ ~CommitDone(p)
    BY <1>1 DEF CommitLock, CommitCheck, AppendItem, AppendFails, CommitDone, InTxn, Busy
  <2>3. ~Dump(p) /\ ~RemoveWal(p) /\ ~Stamp(p) /\ ~CheckpointFails(p)
    BY <1>1 DEF Dump, RemoveWal, Stamp, CheckpointFails, Busy
  <2>. QED
    BY <2>1, <2>2, <2>3
<1>3. ASSUME UNCHANGED <<base, wal, acked, unsure>>,
             NEW l \in Places \ Busy, pc' = [pc EXCEPT ![p] = l],
             touched' = touched \/ touched' = [touched EXCEPT ![p] = <<>>],
             mem'[w] = mem[w], saved'[w] = saved[w], loaded'[w] = loaded[w], size'[w] = size[w]
      PROVE  Kept(w)'
  <2>1. /\ pc'[w] = pc[w] /\ touched'[w] = touched[w]
        /\ \A q \in Proc \ {w} : pc'[q] = (IF q = p THEN l ELSE pc[q]) /\ touched'[q] = <<>>
    BY <1>1, <1>3 DEF TypeInv, Typed
  <2>2. Alone(w)'
    BY <1>1, <1>3, <2>1 DEF Kept, Alone, InTxn
  <2>3. Settled(w)' = Settled(w)
    BY <1>3, <2>1 DEF Settled, InTxn
  <2>4. Drafted(w)'
    BY <1>3, <2>1, <2>3 DEF Kept, Drafted
  <2>5. Before(w)' = Before(w) /\ Appended(w)' = Appended(w)
    BY <1>3 DEF Before, Appended
  <2>6. FilesKept(w)'
    BY <1>3, <2>1, <2>3, <2>5 DEF Kept, FilesKept
  <2>. QED
    BY <2>2, <2>4, <2>6 DEF Kept
<1>4. ASSUME Unlock(p)
      PROVE  pc' = [pc EXCEPT ![p] = "idle"] /\ size'[w] = size[w]
  BY <1>4 DEF Unlock, Goto, TypeInv, Typed
<1>5. "idle" \in Places \ Busy /\ "load" \in Places \ Busy /\ "replay" \in Places \ Busy
      /\ "install" \in Places \ Busy
  BY DEF Places, Busy
<1>6. CASE LoadLock(p) \/ LoadBase(p) \/ LoadWal(p)
  <2>1. /\ UNCHANGED <<base, wal, acked, unsure, touched, mem, saved, loaded>>
        /\ \/ Unlock(p)
           \/ /\ size' = size
              /\ \E l \in {"load", "replay", "install"} : pc' = [pc EXCEPT ![p] = l]
    BY <1>6 DEF LoadLock, LoadBase, LoadWal, Goto
  <2>. QED
    BY <1>3, <1>4, <1>5, <2>1
<1>7. CASE LoadDone(p)
  <2>1. /\ UNCHANGED <<base, wal, acked, unsure, touched, saved>> /\ Unlock(p)
        /\ mem'[w] = mem[w] /\ loaded'[w] = loaded[w]
    BY <1>7 DEF LoadDone, TypeInv, Typed
  <2>. QED
    BY <1>3, <1>4, <1>5, <2>1
<1>8. CASE Crash(p)
  <2>1. /\ UNCHANGED <<base, wal, acked, unsure>> /\ Unlock(p)
        /\ touched' = [touched EXCEPT ![p] = <<>>]
        /\ mem'[w] = mem[w] /\ loaded'[w] = loaded[w] /\ saved'[w] = saved[w]
    BY <1>1, <1>8 DEF Crash, EndTxn, TypeInv, Typed, Busy
  <2>. QED
    BY <1>3, <1>4, <1>5, <2>1
<1>. QED
  BY <1>2, <1>6, <1>7, <1>8

\* A step of w leaves the others where they are.
LEMMA StaysAlone ==
  ASSUME TypeInv, NEW w \in Proc, Kept(w), NEW l \in Places, pc' = [pc EXCEPT ![w] = l],
         touched' = touched \/ touched' = [touched EXCEPT ![w] = <<>>],
         ~loaded'[w] => touched'[w] = <<>> /\ l \notin Busy,
         l \in {"check", "append"} => touched'[w] # <<>>
  PROVE  Alone(w)' /\ pc'[w] = l
<1>1. /\ pc'[w] = l
      /\ \A q \in Proc \ {w} : pc'[q] = pc[q] /\ touched'[q] = touched[q]
  BY DEF TypeInv, Typed
<1>. QED
  BY <1>1 DEF Kept, Alone, InTxn

\* Steps of w that touch neither the files nor its copy, and are not in the
\* middle of something.
LEMMA MovesKept ==
  ASSUME TypeInv, NEW w \in Proc, Kept(w), NEW l \in Places, pc' = [pc EXCEPT ![w] = l],
         UNCHANGED <<base, wal, acked, unsure, mem, touched, saved, loaded>>,
         {pc[w], l} \cap {"append", "dump", "remove"} = {},
         l \in Busy => loaded[w], l \in {"check", "append"} => touched[w] # <<>>
  PROVE  Kept(w)'
<1>1. Alone(w)' /\ pc'[w] = l
  <2>1. ~loaded'[w] => touched'[w] = <<>> /\ l \notin Busy
    BY DEF Kept, Alone
  <2>. QED
    BY <2>1, StaysAlone
<1>2. Settled(w)' = Settled(w)
  BY DEF Settled, InTxn
<1>3. Drafted(w)'
  BY <1>2 DEF Kept, Drafted
<1>4. FilesKept(w)'
  BY <1>1, <1>2 DEF Kept, FilesKept
<1>. QED
  BY <1>1, <1>3, <1>4 DEF Kept

\* A table is its own draft.
LEMMA NoDraft ==
  ASSUME NEW m \in Content
  PROVE  Draft(m, <<>>, m)
<1>1. Len(m) \in Nat
  BY LenContent
<1>. QED
  BY <1>1 DEF Draft, RowsOf

LEMMA CutAppended ==
  ASSUME NEW x \in Seq(Items), NEW f \in Items, NEW n \in Nat, n <= Len(x)
  PROVE  /\ SubSeq(Append(x, f), 1, n) = SubSeq(x, 1, n)
         /\ SubSeq(x, 1, Len(x)) = x
<1>1. /\ Append(x, f) \in Seq(Items) /\ Len(Append(x, f)) = Len(x) + 1
      /\ \A i \in 1..Len(x) : Append(x, f)[i] = x[i]
  OBVIOUS
<1>. DEFINE y == SubSeq(Append(x, f), 1, n)
            z == SubSeq(x, 1, n)
<1>2. z \in Seq(Items) /\ Len(z) = n /\ \A i \in 1..n : z[i] = x[i]
  OBVIOUS
<1>3. y \in Seq(Items) /\ Len(y) = n /\ \A i \in 1..n : y[i] = x[i]
  <2>. DEFINE a == Append(x, f)
  <2>1. a \in Seq(Items) /\ n <= Len(a) /\ \A i \in 1..n : a[i] = x[i]
    BY <1>1
  <2>. HIDE DEF a
  <2>2. SubSeq(a, 1, n) \in Seq(Items) /\ Len(SubSeq(a, 1, n)) = n
        /\ \A i \in 1..n : SubSeq(a, 1, n)[i] = a[i]
    BY <2>1
  <2>. QED
    BY <2>1, <2>2 DEF a
<1>4. y = z
  <2>. HIDE DEF y, z
  <2>. QED
    BY <1>2, <1>3, SeqEqual
<1>5. SubSeq(x, 1, Len(x)) = x
  OBVIOUS
<1>. QED
  BY <1>4, <1>5

LEMMA CommitCheckKept ==
  ASSUME TypeInv, NEW w \in Proc, Kept(w), CommitCheck(w)
  PROVE  Kept(w)'
<1>. USE DEF disk, copy, local, ghost
<1>1. /\ pc[w] = "check" /\ UNCHANGED <<base, wal, acked, unsure, mem, touched, saved, loaded>>
      /\ \/ pc' = [pc EXCEPT ![w] = "idle"]
         \/ pc' = [pc EXCEPT ![w] = "append"] /\ size' = [size EXCEPT ![w] = Len(wal)]
  BY DEF CommitCheck, Unlock, Goto
<1>2. "idle" \in Places \ Busy /\ "append" \in Places
  BY DEF Places, Busy
<1>3. loaded[w] /\ touched[w] # <<>>
  BY <1>1 DEF Kept, Alone, InTxn, Busy
<1>4. CASE pc' = [pc EXCEPT ![w] = "idle"]
  <2>1. {pc[w], "idle"} \cap {"append", "dump", "remove"} = {}
    BY <1>1
  <2>. QED
    BY <1>1, <1>2, <1>3, <1>4, <2>1, MovesKept
<1>5. CASE pc' = [pc EXCEPT ![w] = "append"] /\ size' = [size EXCEPT ![w] = Len(wal)]
  <2>. DEFINE D == Replay(base, wal)
  <2>1. /\ D \in Content /\ wal \in Seq(Items) /\ Len(wal) \in Nat
        /\ touched[w] \in Seq(RowNum) /\ Len(touched[w]) \in Nat
    BY KeptTypes
  <2>2. Alone(w)' /\ pc'[w] = "append"
    BY <1>1, <1>2, <1>3, <1>5, StaysAlone
  <2>3. size'[w] = Len(wal)
    BY <1>5 DEF TypeInv, Typed
  <2>4. Before(w)' = D
    <3>1. SubSeq(wal, 1, Len(wal)) = wal
      BY <2>1
    <3>. QED
      BY <1>1, <2>3, <3>1 DEF Before
  <2>5. Appended(w)' = 0
    BY <1>1, <2>1, <2>3 DEF Appended
  <2>6. Settled(w)' = Settled(w)
    BY <1>1 DEF Settled, InTxn
  <2>7. Drafted(w)'
    BY <1>1, <2>6 DEF Kept, Drafted
  <2>8. Half(D, D, mem[w], touched[w], 0)
    BY <2>1, HalfStarts
  <2>9. WholeWal(wal) /\ Promised(D, acked, unsure) /\ Covers(Settled(w), D)
    BY <1>1, <1>3 DEF Kept, FilesKept
  <2>10. 0 \in 0..Len(touched[w])
    BY <2>1
  <2>11. Replay(base', wal') = D
    BY <1>1
  <2>. HIDE DEF D
  <2>12. FilesKept(w)'
    BY <1>1, <2>2, <2>4, <2>5, <2>6, <2>8, <2>9, <2>10, <2>11 DEF FilesKept
  <2>. QED
    BY <2>2, <2>7, <2>12 DEF Kept
<1>. QED
  BY <1>1, <1>4, <1>5

LEMMA AppendItemKept ==
  ASSUME TypeInv, NEW w \in Proc, Kept(w), AppendItem(w)
  PROVE  Kept(w)'
<1>. USE DEF copy, local, ghost
<1>. DEFINE m == mem[w]
            t == touched[w]
            B == Before(w)
            k == Appended(w)
<1>1. /\ pc[w] = "append"
      /\ UNCHANGED <<base, size, acked, unsure, mem, touched, saved, loaded, pc>>
  BY DEF AppendItem
<1>2. /\ m \in Content /\ t \in Seq(RowNum) /\ Len(t) \in Nat /\ RowsOf(t) \subseteq 1..Len(m)
      /\ base \in Content /\ wal \in Seq(Items) /\ Len(wal) \in Nat
      /\ size[w] \in Nat /\ size[w] <= Len(wal) /\ FramesFollow(wal)
  BY <1>1, KeptTypes DEF TypeInv, Typed, TxnShape
<1>3. /\ WholeWal(wal) /\ Promised(B, acked, unsure) /\ Covers(Settled(w), B)
      /\ k \in 0..Len(t) /\ Half(Replay(base, wal), B, m, t, k)
  BY <1>1 DEF Kept, FilesKept
<1>4. B \in Content
  <2>1. SubSeq(wal, 1, size[w]) \in Seq(Items) /\ FramesFollow(SubSeq(wal, 1, size[w]))
    BY <1>2, WalCut
  <2>. QED
    BY <1>2, <2>1, ReplayType DEF Before
<1>5. Alone(w)' /\ Drafted(w)' /\ Settled(w)' = Settled(w) /\ pc'[w] = "append"
  BY <1>1 DEF Kept, Alone, Drafted, Settled, InTxn
<1>6. SUFFICES /\ WholeWal(wal') /\ Before(w)' = B /\ Appended(w)' \in 0..Len(t)
               /\ Half(Replay(base, wal'), B, m, t, Appended(w)')
  <2>. HIDE DEF B
  <2>. QED
    BY <1>1, <1>3, <1>5 DEF Kept, FilesKept
<1>7. CASE wal = <<>>
  <2>1. wal' = <<Header>> /\ Len(wal') = 1 /\ size[w] = 0
    BY <1>2, <1>7 DEF AppendItem
  <2>2. WholeWal(wal')
    BY <2>1 DEF WholeWal
  <2>3. SubSeq(wal, 1, 0) = <<>> /\ SubSeq(wal', 1, 0) = <<>>
    <3>1. wal' \in Seq(Items)
      BY <2>1 DEF Items
    <3>. QED
      BY <1>2, <3>1
  <2>4. Before(w)' = B /\ B = base
    BY <1>1, <1>2, <2>1, <2>3, NothingToReplay DEF Before
  <2>5. k = 0 /\ Appended(w)' = 0
    BY <1>1, <1>7, <2>1 DEF Appended
  <2>6. Replay(base, wal') = base
    BY <1>2, <2>1, NothingToReplay
  <2>7. Half(base, base, m, t, 0)
    BY <1>2, HalfStarts
  <2>. HIDE DEF B
  <2>. QED
    BY <1>2, <2>2, <2>4, <2>5, <2>6, <2>7
<1>8. CASE wal # <<>>
  <2>. DEFINE f == NextFrame(w)
  <2>1. k < Len(t) /\ wal' = Append(wal, f)
    BY <1>8 DEF AppendItem
  <2>2. f \in Frame /\ f = [row |-> t[k + 1], val |-> m[t[k + 1]]]
    BY <1>1, <2>1, AppendedType DEF NextFrame
  <2>. HIDE DEF f
  <2>3. f \in Items
    BY <2>2 DEF Items
  <2>4. /\ Len(wal') = Len(wal) + 1 /\ wal'[Len(wal) + 1] = f
        /\ \A i \in 1..Len(wal) : wal'[i] = wal[i]
    BY <1>2, <2>1, <2>3
  <2>5. Len(wal) >= 1
    BY <1>2, <1>8
  <2>6. WholeWal(wal')
    <3>1. wal'[1] = Header
      BY <1>3, <1>8, <2>4, <2>5 DEF WholeWal
    <3>2. \A i \in 2..Len(wal') : wal'[i] \in Frame
      <4>1. \A i \in 2..Len(wal') : i = Len(wal) + 1 \/ (i \in 2..Len(wal) /\ i \in 1..Len(wal))
        BY <1>2, <2>4
      <4>. QED
        BY <1>3, <1>8, <2>2, <2>4, <4>1 DEF WholeWal
    <3>. QED
      BY <3>1, <3>2 DEF WholeWal
  <2>7. Before(w)' = B
    <3>1. SubSeq(Append(wal, f), 1, size[w]) = SubSeq(wal, 1, size[w])
      BY <1>2, <2>3, CutAppended
    <3>. QED
      BY <1>1, <2>1, <3>1 DEF Before
  <2>8. Appended(w)' = k + 1
    BY <1>1, <1>2, <2>4, <2>5 DEF Appended
  <2>9. Half(Replay(base, Append(wal, f)), B, m, t, k + 1)
    <3>. HIDE DEF B, k, m, t
    <3>1. k \in Nat
      BY <1>2, <1>3
    <3>. QED
      BY <1>2, <1>3, <1>4, <1>8, <2>1, <2>2, <3>1, HalfGrows
  <2>10. k + 1 \in 0..Len(t)
    <3>. HIDE DEF B, k, m, t
    <3>. QED
      BY <1>2, <1>3, <2>1
  <2>. HIDE DEF B, k, m, t
  <2>. QED
    BY <2>1, <2>6, <2>7, <2>8, <2>9, <2>10
<1>. QED
  BY <1>7, <1>8

LEMMA AppendFailsKept ==
  ASSUME TypeInv, NEW w \in Proc, Kept(w), AppendFails(w)
  PROVE  Kept(w)'
<1>. USE DEF copy, ghost
<1>1. /\ pc[w] = "append" /\ pc' = [pc EXCEPT ![w] = "idle"]
      /\ wal' = SubSeq(wal, 1, size[w])
      /\ UNCHANGED <<base, acked, unsure, mem, touched, saved, loaded>>
  BY DEF AppendFails, Unlock, Goto
<1>2. "idle" \in Places \ Busy
  BY DEF Places, Busy
<1>3. Alone(w)' /\ pc'[w] = "idle"
  <2>1. loaded'[w]
    BY <1>1 DEF Kept, Alone, Busy
  <2>. QED
    BY <1>1, <1>2, <2>1, StaysAlone
<1>4. Settled(w)' = Settled(w) /\ Drafted(w)'
  BY <1>1 DEF Kept, Drafted, Settled, InTxn
<1>5. WholeWal(wal')
  <2>1. /\ wal \in Seq(Items) /\ FramesFollow(wal) /\ size[w] \in Nat /\ size[w] <= Len(wal)
        /\ Len(wal) \in Nat
    BY <1>1 DEF TypeInv, Typed, TxnShape
  <2>2. wal' \in Seq(Items) /\ Len(wal') = size[w] /\ \A i \in 1..size[w] : wal'[i] = wal[i]
    BY <1>1, <2>1, WalCut
  <2>3. WholeWal(wal)
    BY DEF Kept, FilesKept
  <2>4. CASE size[w] = 0
    BY <2>2, <2>4 DEF WholeWal
  <2>5. CASE size[w] # 0
    <3>1. wal # <<>> /\ 1 \in 1..size[w]
      BY <2>1, <2>5
    <3>2. \A i \in 2..Len(wal') : i \in 1..size[w] /\ i \in 2..Len(wal)
      BY <2>1, <2>2
    <3>. QED
      BY <2>2, <2>3, <3>1, <3>2 DEF WholeWal
  <2>. QED
    BY <2>4, <2>5
<1>6. Replay(base', wal') = Before(w)
  BY <1>1 DEF Before
<1>7. FilesKept(w)'
  BY <1>1, <1>3, <1>4, <1>5, <1>6 DEF Kept, FilesKept
<1>. QED
  BY <1>3, <1>4, <1>7 DEF Kept

LEMMA MidCommit ==
  ASSUME TypeInv, NEW w \in Proc, Kept(w), pc[w] = "append"
  PROVE  /\ InCommit(Before(w), Replay(base, wal), mem[w], saved[w], touched[w],
                     Appended(w), acked, unsure)
         /\ WholeWal(wal)
<1>1. Settled(w) = saved[w]
  BY DEF Kept, Alone, Settled
<1>2. Before(w) \in Content
  <2>1. /\ wal \in Seq(Items) /\ FramesFollow(wal) /\ size[w] \in Nat /\ size[w] <= Len(wal)
        /\ base \in Content
    BY DEF TypeInv, Typed, TxnShape
  <2>2. SubSeq(wal, 1, size[w]) \in Seq(Items) /\ FramesFollow(SubSeq(wal, 1, size[w]))
    BY <2>1, WalCut
  <2>. QED
    BY <2>1, <2>2, ReplayType DEF Before
<1>3. /\ mem[w] \in Content /\ saved[w] \in Content /\ touched[w] \in Seq(RowNum)
      /\ RowsOf(touched[w]) \subseteq 1..Len(mem[w]) /\ Replay(base, wal) \in Content
      /\ acked \in SUBSET Val /\ unsure \in SUBSET Val
  BY KeptTypes
<1>4. /\ Draft(mem[w], touched[w], saved[w]) /\ Distinct(mem[w]) /\ Distinct(saved[w])
  BY <1>1 DEF Kept, Drafted
<1>5. /\ Appended(w) \in 0..Len(touched[w])
      /\ Half(Replay(base, wal), Before(w), mem[w], touched[w], Appended(w))
      /\ Covers(saved[w], Before(w)) /\ Promised(Before(w), acked, unsure) /\ WholeWal(wal)
  BY <1>1 DEF Kept, FilesKept
<1>. QED
  BY <1>2, <1>3, <1>4, <1>5 DEF InCommit

LEMMA CommitDoneKept ==
  ASSUME TypeInv, NEW w \in Proc, Kept(w), CommitDone(w)
  PROVE  Kept(w)'
<1>. USE DEF disk
<1>. DEFINE m == mem[w]
            t == touched[w]
            E == Replay(base, wal)
            W == NewValues(m, t)
            R == OldValues(saved[w], t)
<1>1. /\ pc[w] = "append" /\ pc' = [pc EXCEPT ![w] = "idle"]
      /\ touched' = [touched EXCEPT ![w] = <<>>]
      /\ UNCHANGED <<base, wal, mem, loaded>> /\ Appended(w) = Len(t)
  BY DEF CommitDone, Unlock, Goto, EndTxn
<1>2. acked' = (acked \ R) \cup W /\ unsure' = unsure \ R
  BY WritesReplaces DEF CommitDone
<1>3. Distinct(E) /\ acked \ R \subseteq Shown(E) /\ W \subseteq Shown(E)
      /\ Shown(E) \subseteq ((acked \cup unsure) \ R) \cup {Blank} \cup W
  BY <1>1, MidCommit, HalfShows
<1>4. Covers(m, E)
  <2>1. /\ Half(E, Before(w), m, t, Len(t)) /\ Covers(saved[w], Before(w))
        /\ Draft(m, t, saved[w]) /\ Before(w) \in Content /\ E \in Content
        /\ m \in Content /\ saved[w] \in Content /\ t \in Seq(RowNum)
        /\ RowsOf(t) \subseteq 1..Len(m)
    BY <1>1, MidCommit DEF InCommit
  <2>. QED
    BY <2>1, HalfCovers
<1>5. Promised(E, acked', unsure')
  <2>. HIDE DEF E, W, R
  <2>. QED
    BY <1>2, <1>3 DEF Promised
<1>6. "idle" \in Places \ Busy
  BY DEF Places, Busy
<1>7. Alone(w)' /\ pc'[w] = "idle"
  <2>1. loaded'[w]
    BY <1>1 DEF Kept, Alone, Busy
  <2>. QED
    BY <1>1, <1>6, <2>1, StaysAlone
<1>8. touched'[w] = <<>> /\ mem'[w] = m /\ Settled(w)' = m
  BY <1>1 DEF TypeInv, Typed, Settled, InTxn
<1>9. Drafted(w)'
  <2>1. m \in Content /\ Distinct(m)
    BY <1>1, MidCommit DEF InCommit
  <2>2. Draft(m, <<>>, m)
    BY <2>1, NoDraft
  <2>. QED
    BY <1>8, <2>1, <2>2 DEF Drafted
<1>10. FilesKept(w)'
  <2>1. WholeWal(wal)
    BY <1>1, MidCommit
  <2>2. Replay(base', wal') = E
    BY <1>1
  <2>. HIDE DEF E
  <2>. QED
    BY <1>1, <1>4, <1>5, <1>7, <1>8, <2>1, <2>2 DEF FilesKept
<1>. QED
  BY <1>7, <1>9, <1>10 DEF Kept

-----------------------------------------------------------------------------
(* Checkpoints, loads and crashes.                                         *)

LEMMA CoversItself ==
  ASSUME NEW d \in Content
  PROVE  Covers(d, d)
<1>1. Len(d) \in Nat
  BY LenContent
<1>. QED
  BY <1>1 DEF Covers

\* What the files promise, the writer's rows hold.
LEMMA CoversShows ==
  ASSUME NEW s \in Content, NEW d \in Content, Covers(s, d), NEW a, NEW u, a \subseteq Val,
         Promised(d, a, u)
  PROVE  a \subseteq Shown(s) /\ Shown(s) \subseteq a \cup u \cup {Blank}
<1>1. Len(s) \in Nat /\ Len(d) \in Nat /\ {Blank, Dead} \cap Val = {}
  BY LenContent, ConstantAssumption
<1>2. ASSUME NEW v \in a
      PROVE  v \in Shown(s)
  <2>1. PICK r \in 1..Len(d) : d[r] = v /\ v \in Val
    BY DEF Promised, Shown, LiveRows
  <2>2. r \in 1..Len(s) /\ s[r] = v
    BY <1>1, <2>1 DEF Covers
  <2>. QED
    BY <1>1, <2>1, <2>2 DEF Shown, LiveRows
<1>3. ASSUME NEW v \in Shown(s)
      PROVE  v \in Shown(d)
  <2>1. PICK r \in 1..Len(s) : s[r] = v /\ v # Dead
    BY <1>3 DEF Shown, LiveRows
  <2>2. r \in 1..Len(d)
    BY <1>1, <2>1 DEF Covers
  <2>3. d[r] = v
    BY <2>1, <2>2 DEF Covers
  <2>. QED
    BY <2>1, <2>2, <2>3 DEF Shown, LiveRows
<1>. QED
  BY <1>2, <1>3 DEF Promised

LEMMA CheckpointLockKept ==
  ASSUME TypeInv, NEW w \in Proc, Kept(w), CheckpointLock(w)
  PROVE  Kept(w)'
<1>. USE DEF disk, local, ghost
<1>. DEFINE m == mem[w]
            c == Compacted(m)
            D == Replay(base, wal)
<1>1. /\ pc[w] = "idle" /\ loaded[w] /\ touched[w] = <<>> /\ pc' = [pc EXCEPT ![w] = "dump"]
      /\ mem' = [mem EXCEPT ![w] = c]
      /\ UNCHANGED <<base, wal, acked, unsure, loaded, touched, saved>>
  BY DEF CheckpointLock, Idle, Goto, InTxn
<1>2. m \in Content /\ D \in Content /\ acked \subseteq Val
  BY KeptTypes
<1>3. Settled(w) = m
  BY <1>1 DEF Settled, InTxn
<1>4. Distinct(m) /\ Covers(m, D) /\ Promised(D, acked, unsure) /\ WholeWal(wal)
  BY <1>1, <1>3 DEF Kept, Drafted, FilesKept
<1>5. c \in Content /\ Distinct(c) /\ Shown(c) = Shown(m)
  BY <1>2, <1>4, CompactedShows
<1>6. Promised(c, acked, unsure)
  <2>. HIDE DEF c, m, D
  <2>. QED
    BY <1>2, <1>4, <1>5, CoversShows DEF Promised
<1>7. "dump" \in Places \ {"check", "append"}
  BY DEF Places
<1>8. Alone(w)' /\ pc'[w] = "dump"
  BY <1>1, <1>7, StaysAlone
<1>9. mem'[w] = c /\ Settled(w)' = c /\ touched'[w] = <<>>
  BY <1>1 DEF TypeInv, Typed, Settled, InTxn
<1>. HIDE DEF c
<1>10. Drafted(w)'
  BY <1>5, <1>9, NoDraft DEF Drafted
<1>11. FilesKept(w)'
  BY <1>1, <1>4, <1>6, <1>8, <1>9 DEF FilesKept
<1>. QED
  BY <1>8, <1>10, <1>11 DEF Kept

LEMMA DumpKept ==
  ASSUME TypeInv, NEW w \in Proc, Kept(w), Dump(w) \/ RemoveWal(w)
  PROVE  Kept(w)'
<1>. USE DEF copy, local, ghost
<1>1. UNCHANGED <<mem, touched, saved, loaded, acked, unsure>>
  BY DEF Dump, RemoveWal
<1>2. pc[w] \in {"dump", "remove"} /\ loaded[w] /\ touched[w] = <<>>
  <2>1. pc[w] \in {"dump", "remove"}
    BY DEF Dump, RemoveWal
  <2>. QED
    BY <2>1 DEF Kept, Alone, Busy, TypeInv, TxnShape
<1>3. Settled(w)' = Settled(w) /\ Settled(w) = mem[w] /\ Drafted(w)'
  BY <1>1, <1>2 DEF Settled, InTxn, Kept, Drafted
<1>4. Promised(mem[w], acked, unsure) /\ WholeWal(wal) /\ mem[w] \in Content
  BY <1>2, KeptTypes DEF Kept, FilesKept
<1>5. "remove" \in Places \ {"check", "append"} /\ "stamp" \in Places \ {"check", "append"}
  BY DEF Places
<1>6. CASE Dump(w)
  <2>1. base' = mem[w] /\ wal' = wal /\ pc' = [pc EXCEPT ![w] = "remove"]
    BY <1>6 DEF Dump, Goto
  <2>2. Alone(w)' /\ pc'[w] = "remove"
    BY <1>1, <1>2, <1>5, <2>1, StaysAlone
  <2>3. FilesKept(w)'
    BY <1>1, <1>4, <2>1, <2>2 DEF FilesKept
  <2>. QED
    BY <1>3, <2>2, <2>3 DEF Kept
<1>7. CASE RemoveWal(w)
  <2>1. base' = base /\ wal' = <<>> /\ pc' = [pc EXCEPT ![w] = "stamp"] /\ base = mem[w]
    BY <1>7 DEF RemoveWal, Goto, Kept, FilesKept
  <2>2. Alone(w)' /\ pc'[w] = "stamp"
    BY <1>1, <1>2, <1>5, <2>1, StaysAlone
  <2>3. Replay(base', wal') = mem[w] /\ WholeWal(wal')
    BY <1>4, <2>1, NothingToReplay DEF WholeWal
  <2>4. Covers(mem[w], mem[w])
    BY <1>4, CoversItself
  <2>5. FilesKept(w)'
    BY <1>1, <1>3, <1>4, <2>2, <2>3, <2>4 DEF FilesKept
  <2>. QED
    BY <1>3, <2>2, <2>5 DEF Kept
<1>. QED
  BY <1>6, <1>7

LEMMA LoadDoneKept ==
  ASSUME TypeInv, NEW w \in Proc, Kept(w), Snapshot, LoadDone(w)
  PROVE  Kept(w)'
<1>. USE DEF disk, ghost
<1>. DEFINE D == Replay(base, wal)
<1>1. /\ pc[w] = "install" /\ pc' = [pc EXCEPT ![w] = "idle"]
      /\ mem' = [mem EXCEPT ![w] = part[w]] /\ loaded' = [loaded EXCEPT ![w] = TRUE]
      /\ UNCHANGED <<base, wal, acked, unsure, touched, saved>>
  BY DEF LoadDone, Unlock, Goto
<1>2. part[w] = D /\ touched[w] = <<>>
  BY <1>1 DEF Snapshot, TypeInv, TxnShape
<1>3. mem'[w] = D /\ Settled(w)' = D /\ touched'[w] = <<>> /\ loaded'[w]
  BY <1>1, <1>2 DEF TypeInv, Typed, Settled, InTxn
<1>4. Promised(D, acked, unsure) /\ WholeWal(wal) /\ D \in Content
  BY <1>1, KeptTypes DEF Kept, FilesKept
<1>5. "idle" \in Places \ Busy
  BY DEF Places, Busy
<1>6. Alone(w)' /\ pc'[w] = "idle"
  BY <1>1, <1>3, <1>5, StaysAlone
<1>7. Replay(base', wal') = D
  BY <1>1
<1>. HIDE DEF D
<1>8. Drafted(w)'
  BY <1>3, <1>4, NoDraft DEF Drafted, Promised
<1>9. FilesKept(w)'
  BY <1>1, <1>3, <1>4, <1>6, <1>7, CoversItself DEF FilesKept
<1>. QED
  BY <1>6, <1>8, <1>9 DEF Kept

LEMMA EmptyTable == <<>> \in Content /\ Distinct(<<>>) /\ Draft(<<>>, <<>>, <<>>)
<1>1. <<>> \in Content
  BY DEF Content
<1>2. Distinct(<<>>)
  BY DEF Distinct
<1>. QED
  BY <1>1, <1>2, NoDraft

LEMMA CrashKept ==
  ASSUME TypeInv, NEW w \in Proc, Kept(w), Crash(w),
         {"crash in checkpoint", "torn"} \cap Faults = {}
  PROVE  Kept(w)'
<1>. DEFINE E == Replay(base, wal)
            W == NewValues(mem[w], touched[w])
            R == OldValues(saved[w], touched[w])
<1>1. /\ pc[w] \notin {"dump", "remove", "stamp"} /\ pc' = [pc EXCEPT ![w] = "idle"]
      /\ mem' = [mem EXCEPT ![w] = <<>>] /\ loaded' = [loaded EXCEPT ![w] = FALSE]
      /\ touched' = [touched EXCEPT ![w] = <<>>] /\ UNCHANGED <<base, wal>>
  BY DEF Crash, Unlock, Goto, EndTxn
<1>2. IF pc[w] = "append" THEN acked' = acked \ R /\ unsure' = unsure \cup W \cup R
      ELSE UNCHANGED <<acked, unsure>>
  BY WritesReplaces DEF Crash
<1>3. mem'[w] = <<>> /\ touched'[w] = <<>> /\ ~loaded'[w] /\ Settled(w)' = <<>>
  <2>1. mem'[w] = <<>> /\ touched'[w] = <<>> /\ ~loaded'[w]
    BY <1>1 DEF TypeInv, Typed
  <2>. QED
    BY <2>1 DEF Settled, InTxn
<1>4. WholeWal(wal) /\ E \in Content
  BY KeptTypes DEF Kept, FilesKept
<1>5. Promised(E, acked', unsure')
  <2>1. CASE pc[w] = "append"
    <3>1. /\ Distinct(E) /\ acked \ R \subseteq Shown(E)
          /\ Shown(E) \subseteq acked \cup unsure \cup {Blank} \cup W
      BY <2>1, MidCommit, HalfShows
    <3>. HIDE DEF E, W, R
    <3>. QED
      BY <1>2, <2>1, <3>1 DEF Promised
  <2>2. CASE pc[w] # "append"
    BY <1>1, <1>2, <2>2 DEF Kept, FilesKept
  <2>. QED
    BY <2>1, <2>2
<1>6. "idle" \in Places \ Busy
  BY DEF Places, Busy
<1>7. Alone(w)' /\ pc'[w] = "idle"
  BY <1>1, <1>3, <1>6, StaysAlone
<1>8. Drafted(w)'
  BY <1>3, EmptyTable DEF Drafted
<1>9. Replay(base', wal') = E
  BY <1>1
<1>. HIDE DEF E
<1>10. FilesKept(w)'
  BY <1>1, <1>3, <1>4, <1>5, <1>7, <1>9 DEF FilesKept
<1>. QED
  BY <1>7, <1>8, <1>10 DEF Kept

-----------------------------------------------------------------------------
(* The theorems.                                                           *)

\* What the files survive: appends that fail, and crashes outside a
\* checkpoint that leave whole items.
Survived == Faults \subseteq {"append", "crash"}

LEMMA KeptStep ==
  ASSUME NEW w \in Proc, Writers = {w}, Survived, TypeInv, Snapshot, Kept(w), [Next]_vars
  PROVE  Kept(w)'
<1>. USE DEF disk, copy, local, ghost
<1>1. CASE UNCHANGED vars
  BY <1>1 DEF vars, Kept, Alone, Drafted, FilesKept, Settled, Before, Appended, InTxn
<1>2. ASSUME NEW p \in Proc, p # w,
             Local(p) \/ CommitLock(p) \/ CommitCheck(p) \/ AppendItem(p) \/ AppendFails(p)
             \/ CommitDone(p) \/ CheckpointLock(p) \/ Dump(p) \/ RemoveWal(p) \/ Stamp(p)
             \/ CheckpointFails(p) \/ LoadLock(p) \/ LoadBase(p) \/ LoadWal(p)
             \/ LoadDone(p) \/ Crash(p)
      PROVE  Kept(w)'
  BY <1>2, OthersKept
<1>3. {"idle", "load", "replay", "install"} \subseteq Places \ Busy /\ "check" \in Places
  BY DEF Places, Busy
<1>4. CASE CommitLock(w)
  <2>1. /\ pc[w] = "idle" /\ touched[w] # <<>> /\ pc' = [pc EXCEPT ![w] = "check"]
        /\ UNCHANGED <<base, wal, acked, unsure, mem, touched, saved, loaded>>
    BY <1>4 DEF CommitLock, Idle, InTxn, Goto
  <2>2. loaded[w]
    BY <2>1 DEF Kept, Alone
  <2>. QED
    BY <1>3, <2>1, <2>2, MovesKept
<1>5. CASE LoadLock(w) \/ LoadBase(w) \/ LoadWal(w) \/ Stamp(w)
  <2>1. /\ pc[w] \notin {"append", "dump", "remove"}
        /\ \E l \in {"idle", "load", "replay", "install"} : pc' = [pc EXCEPT ![w] = l]
        /\ UNCHANGED <<base, wal, acked, unsure, mem, touched, saved, loaded>>
    BY <1>5 DEF LoadLock, LoadBase, LoadWal, Stamp, Idle, Goto, Unlock
  <2>. QED
    BY <1>3, <2>1, MovesKept DEF Busy
<1>6. ~CheckpointFails(w)
  BY DEF CheckpointFails, Survived
<1>7. CASE Crash(w)
  BY <1>7, CrashKept DEF Survived
<1>. QED
  BY <1>1, <1>2, <1>4, <1>5, <1>6, <1>7, LocalKept, CommitCheckKept, AppendItemKept,
     AppendFailsKept, CommitDoneKept, CheckpointLockKept, DumpKept, LoadDoneKept, Zenon
     DEF Next, Local

LEMMA InitKept ==
  ASSUME NEW w \in Proc, Init
  PROVE  Kept(w)
<1>1. /\ base = Start /\ wal = <<>> /\ acked = Shown(Start) /\ unsure = {}
      /\ \A p \in Proc : /\ pc[p] = "idle" /\ touched[p] = <<>> /\ mem[p] = <<>>
                         /\ ~loaded[p]
  BY DEF Init
<1>2. Start \in Content /\ Distinct(Start) /\ <<>> \in Content
  BY ConstantAssumption DEF Content, Distinct
<1>3. Replay(base, wal) = Start
  BY <1>1, <1>2, NothingToReplay
<1>4. Promised(Start, acked, unsure)
  BY <1>1, <1>2 DEF Promised
<1>5. Alone(w)
  BY <1>1 DEF Alone, Busy
<1>6. Settled(w) = <<>> /\ mem[w] = <<>> /\ touched[w] = <<>>
  BY <1>1 DEF Settled, InTxn
<1>7. Drafted(w)
  BY <1>2, <1>6, NoDraft DEF Drafted, Distinct
<1>8. FilesKept(w)
  BY <1>1, <1>3, <1>4 DEF FilesKept, WholeWal
<1>. QED
  BY <1>5, <1>7, <1>8 DEF Kept

LEMMA KeptHolds ==
  ASSUME NEW w \in Proc, Writers = {w}, Survived
  PROVE  Spec => []Kept(w)
<1>1. Init => Kept(w)
  BY InitKept
<1>2. TypeInv /\ Snapshot /\ Kept(w) /\ [Next]_vars => Kept(w)'
  BY KeptStep
<1>3. Spec => []Snapshot
  <2>1. Init => Snapshot
    BY DEF Init, Snapshot
  <2>2. TypeInv /\ Snapshot /\ [Next]_vars => Snapshot'
    BY SnapshotStep
  <2>. QED
    BY <2>1, <2>2, TypeInvHolds, PTL DEF Spec
<1>. QED
  BY <1>1, <1>2, <1>3, TypeInvHolds, PTL DEF Spec

\* Where one process writes, what its acknowledged commits wrote is in the
\* files for the next reader, whatever statements, rollbacks and checkpoints
\* came since, and whatever append failed and whichever process died between.
THEOREM CommitsAreKept ==
  ASSUME NEW w \in Proc, Writers = {w}, Survived
  PROVE  Spec => []NothingLost
<1>1. TypeInv /\ Kept(w) => NothingLost
  <2>. SUFFICES ASSUME TypeInv, Kept(w), excl = Nobody
                PROVE  acked \subseteq Readable
    BY DEF NothingLost, Quiet
  <2>1. pc[w] \notin {"append", "dump", "remove"}
    BY ConstantAssumption DEF TypeInv, MutualExclusion
  <2>. QED
    BY <2>1 DEF Kept, FilesKept, Promised, Readable
<1>. QED
  BY <1>1, KeptHolds, TypeInvHolds, PTL

\* And the next reader gets nothing else: no row that was rolled back,
\* rejected, replaced or deleted, and of a commit a crash interrupted only
\* what it may have written.
THEOREM NothingElseIsThere ==
  ASSUME NEW w \in Proc, Writers = {w}, Survived
  PROVE  Spec => []NothingExtra
<1>1. TypeInv /\ Kept(w) => NothingExtra
  <2>. SUFFICES ASSUME TypeInv, Kept(w), excl = Nobody
                PROVE  Readable \subseteq acked \cup unsure \cup {Blank}
    BY DEF NothingExtra, Quiet
  <2>1. pc[w] \notin {"append", "dump", "remove"}
    BY ConstantAssumption DEF TypeInv, MutualExclusion
  <2>. QED
    BY <2>1 DEF Kept, FilesKept, Promised, Readable
<1>. QED
  BY <1>1, KeptHolds, TypeInvHolds, PTL
=============================================================================
