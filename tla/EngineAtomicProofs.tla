------------------------- MODULE EngineAtomicProofs -------------------------
(***************************************************************************)
(* The row-by-row engine implements the atomic database, for every schema  *)
(* and every bound.                                                        *)
(***************************************************************************)
EXTENDS EngineAtomic, EngineProofs, NatFacts

-----------------------------------------------------------------------------
(* The rows a cursor has met.                                              *)

LEMMA RowInduction ==
  ASSUME NEW T, 0 \in T, \A r \in Row : r - 1 \in T => r \in T
  PROVE  \A r \in 0..MaxRow : r \in T
<1>. DEFINE U == {r \in Nat : r <= MaxRow => r \in T}
<1>1. 0 \in U
  OBVIOUS
<1>2. ASSUME NEW r \in Nat, r \in U
      PROVE  r + 1 \in U
  <2>1. SUFFICES ASSUME r + 1 <= MaxRow PROVE r + 1 \in T
    OBVIOUS
  <2>2. r + 1 \in Row /\ (r + 1) - 1 = r /\ r <= MaxRow
    BY <2>1, BoundAssumption DEF Row
  <2>3. r \in T
    BY <1>2, <2>2
  <2>. QED
    BY <2>2, <2>3
<1>. HIDE DEF U
<1>3. Nat \subseteq U
  BY <1>1, <1>2, Induction
<1>. QED
  BY <1>3, BoundAssumption DEF U

LEMMA MetIs ==
  ASSUME NEW S \in Images, NEW t \in Table
  PROVE  /\ Met(S, t)[0] = <<>>
         /\ \A r \in Row :
              Met(S, t)[r] = IF <<t, r>> \in S.live
                             THEN Append(Met(S, t)[r - 1], S.cell[<<t, r>>])
                             ELSE Met(S, t)[r - 1]
         /\ \A r \in 0..MaxRow : Met(S, t)[r] \in Seq(Tuple)
<1>. DEFINE e == <<>>
            G == [r \in Nat |-> [q \in Seq(Tuple) |->
                   IF r \in Row /\ <<t, r>> \in S.live THEN Append(q, S.cell[<<t, r>>]) ELSE q]]
            Loop(f) == f = [r \in 0..MaxRow |->
                              IF r = 0 THEN <<>>
                              ELSE IF <<t, r>> \in S.live
                                   THEN Append(f[r - 1], S.cell[<<t, r>>])
                                   ELSE f[r - 1]]
            c == CHOOSE f : Loop(f)
<1>1. \A r \in Row : r \in Nat /\ r # 0 /\ r - 1 \in Nat /\ r - 1 \in 0..MaxRow
                     /\ (r - 1) + 1 = r /\ r \in 0..MaxRow /\ S.cell[<<t, r>>] \in Tuple
  BY BoundAssumption DEF Row, Slot, Images
<1>2. PICK h : IsLoop(h, Seq(Tuple), e, G)
  <2>1. G \in RoundsOf(Seq(Tuple)) /\ e \in Seq(Tuple)
    BY <1>1 DEF RoundsOf
  <2>. HIDE DEF G, e
  <2>. QED
    BY <2>1, Rounds
<1>3. \A r \in Nat : h[r] \in Seq(Tuple)
  BY <1>2 DEF IsLoop
<1>4. h[0] = <<>>
  BY <1>2 DEF IsLoop
<1>5. ASSUME NEW r \in Row
      PROVE  h[r] = IF <<t, r>> \in S.live THEN Append(h[r - 1], S.cell[<<t, r>>]) ELSE h[r - 1]
  <2>1. h[r] = G[r][h[r - 1]]
    <3>. HIDE DEF G
    <3>. QED
      BY <1>1, <1>2 DEF IsLoop
  <2>2. h[r - 1] \in Seq(Tuple) /\ r \in Nat
    BY <1>1, <1>3
  <2>3. G[r][h[r - 1]] = IF r \in Row /\ <<t, r>> \in S.live
                         THEN Append(h[r - 1], S.cell[<<t, r>>]) ELSE h[r - 1]
    BY <2>2
  <2>. HIDE DEF G
  <2>. QED
    BY <2>1, <2>3
<1>. HIDE DEF G
<1>6. Loop([r \in 0..MaxRow |-> h[r]])
  <2>. DEFINE g == [r \in 0..MaxRow |-> h[r]]
  <2>1. \A r \in 0..MaxRow : g[r] = h[r]
    OBVIOUS
  <2>2. \A r \in 0..MaxRow : r # 0 => r \in Row
    BY BoundAssumption DEF Row
  <2>. HIDE DEF g
  <2>3. \A r \in 0..MaxRow : h[r] = IF r = 0 THEN <<>>
                               ELSE IF <<t, r>> \in S.live THEN Append(g[r - 1], S.cell[<<t, r>>])
                               ELSE g[r - 1]
    BY <1>1, <1>4, <1>5, <2>1, <2>2
  <2>. QED
    BY <2>3, Zenon DEF g
<1>7. Loop(c)
  <2>. HIDE DEF Loop
  <2>. QED
    BY <1>6
<1>8. Met(S, t) = c
  BY DEF Met
<1>. HIDE DEF c
<1>9. \A r \in 0..MaxRow : c[r] = IF r = 0 THEN <<>>
                             ELSE IF <<t, r>> \in S.live THEN Append(c[r - 1], S.cell[<<t, r>>])
                             ELSE c[r - 1]
  BY <1>7
<1>10. 0 \in 0..MaxRow /\ c[0] = <<>>
  <2>1. 0 \in 0..MaxRow
    BY BoundAssumption
  <2>. QED
    BY <1>9, <2>1, Zenon
<1>11. \A r \in Row : c[r] = IF <<t, r>> \in S.live THEN Append(c[r - 1], S.cell[<<t, r>>])
                             ELSE c[r - 1]
  BY <1>1, <1>9
<1>. DEFINE T == {r \in 0..MaxRow : c[r] \in Seq(Tuple)}
<1>12. 0 \in T
  <2>1. <<>> \in Seq(Tuple)
    OBVIOUS
  <2>. QED
    BY <1>10, <2>1
<1>13. ASSUME NEW r \in Row, r - 1 \in T
       PROVE  r \in T
  <2>1. c[r - 1] \in Seq(Tuple) /\ S.cell[<<t, r>>] \in Tuple /\ r \in 0..MaxRow
    BY <1>1, <1>13
  <2>2. Append(c[r - 1], S.cell[<<t, r>>]) \in Seq(Tuple)
    BY <2>1
  <2>3. c[r] \in Seq(Tuple)
    BY <1>11, <2>1, <2>2, Zenon
  <2>. QED
    BY <2>1, <2>3
<1>14. \A r \in 0..MaxRow : r \in T
  <2>. HIDE DEF T
  <2>. QED
    BY <1>12, <1>13, RowInduction
<1>. QED
  BY <1>8, <1>10, <1>11, <1>14

\* Two images whose rows are the same up to row m.
LEMMA MetSame ==
  ASSUME NEW S \in Images, NEW T \in Images, NEW t \in Table, NEW m \in 0..MaxRow,
         \A r \in Row : r <= m =>
           /\ <<t, r>> \in S.live <=> <<t, r>> \in T.live
           /\ <<t, r>> \in S.live => S.cell[<<t, r>>] = T.cell[<<t, r>>]
  PROVE  Met(S, t)[m] = Met(T, t)[m]
<1>. DEFINE Same == {r \in 0..MaxRow : r <= m => Met(S, t)[r] = Met(T, t)[r]}
<1>1. 0 \in Same
  BY MetIs, BoundAssumption
<1>2. ASSUME NEW r \in Row, r - 1 \in Same
      PROVE  r \in Same
  <2>1. r \in 0..MaxRow /\ (r <= m => r - 1 <= m)
    BY BoundAssumption DEF Row
  <2>2. ASSUME r <= m
        PROVE  Met(S, t)[r] = Met(T, t)[r]
    <3>1. Met(S, t)[r - 1] = Met(T, t)[r - 1]
      BY <1>2, <2>1, <2>2
    <3>2. /\ <<t, r>> \in S.live <=> <<t, r>> \in T.live
          /\ <<t, r>> \in S.live => S.cell[<<t, r>>] = T.cell[<<t, r>>]
      BY <2>2
    <3>3. CASE <<t, r>> \in S.live
      <4>1. Met(S, t)[r] = Append(Met(S, t)[r - 1], S.cell[<<t, r>>])
        BY <3>3, MetIs
      <4>2. Met(T, t)[r] = Append(Met(T, t)[r - 1], T.cell[<<t, r>>])
        BY <3>2, <3>3, MetIs
      <4>. QED
        BY <3>1, <3>2, <3>3, <4>1, <4>2
    <3>4. CASE <<t, r>> \notin S.live
      <4>1. Met(S, t)[r] = Met(S, t)[r - 1] /\ Met(T, t)[r] = Met(T, t)[r - 1]
        BY <3>2, <3>4, MetIs
      <4>. QED
        BY <3>1, <4>1
    <3>. QED
      BY <3>3, <3>4
  <2>. QED
    BY <2>1, <2>2
<1>3. m \in Same
  <2>. HIDE DEF Same
  <2>. QED
    BY <1>1, <1>2, RowInduction
<1>. QED
  BY <1>3

\* q begins with p.
Begins(p, q) == Len(p) <= Len(q) /\ \A i \in 1..Len(p) : q[i] = p[i]

\* A cursor that goes on keeps the rows it has met; it has more as soon as it
\* meets a live one.
LEMMA MetGrows ==
  ASSUME NEW S \in Images, NEW t \in Table, NEW m \in 0..MaxRow, NEW k \in 0..MaxRow, m <= k
  PROVE  /\ Begins(Met(S, t)[m], Met(S, t)[k])
         /\ (\E r \in Row : m < r /\ r <= k /\ <<t, r>> \in S.live) =>
              Len(Met(S, t)[m]) < Len(Met(S, t)[k])
         /\ (\A r \in Row : m < r /\ r <= k => <<t, r>> \notin S.live) =>
              Met(S, t)[k] = Met(S, t)[m]
<1>. DEFINE M == Met(S, t)
            More(j) == \E r \in Row : m < r /\ r <= j /\ <<t, r>> \in S.live
            Goal(j) == /\ Begins(M[m], M[j])
                         /\ IF More(j) THEN Len(M[m]) < Len(M[j]) ELSE M[j] = M[m]
            U == {r \in 0..MaxRow : m <= r => Goal(r)}
<1>0. /\ \A r \in 0..MaxRow : M[r] \in Seq(Tuple)
      /\ \A r \in Row : M[r] = IF <<t, r>> \in S.live THEN Append(M[r - 1], S.cell[<<t, r>>])
                               ELSE M[r - 1]
  BY MetIs
<1>. HIDE DEF M
<1>1. Goal(m)
  <2>1. ASSUME NEW r \in Row, m < r, r <= m
        PROVE  FALSE
    BY <2>1, BoundAssumption DEF Row
  <2>2. ~More(m)
    BY <2>1
  <2>3. Begins(M[m], M[m])
    BY <1>0 DEF Begins
  <2>. HIDE DEF More
  <2>. QED
    BY <2>2, <2>3
<1>2. 0 \in U
  <2>1. 0 \in 0..MaxRow /\ (m <= 0 => m = 0)
    BY BoundAssumption
  <2>. HIDE DEF Goal
  <2>. QED
    BY <1>1, <2>1
<1>3. ASSUME NEW r \in Row, r - 1 \in U
      PROVE  r \in U
  <2>1. r \in 0..MaxRow /\ r - 1 \in 0..MaxRow
    BY BoundAssumption DEF Row
  <2>2. CASE r <= m
    <3>1. m <= r => r = m
      BY <2>1, <2>2
    <3>. HIDE DEF Goal
    <3>. QED
      BY <1>1, <2>1, <3>1
  <2>3. CASE m <= r - 1
    <3>0. Goal(r - 1)
      BY <1>3, <2>3
    <3>1. CASE <<t, r>> \in S.live
      <4>1. More(r)
        BY <2>1, <2>3, <3>1
      <4>2. /\ M[r] = Append(M[r - 1], S.cell[<<t, r>>]) /\ M[r - 1] \in Seq(Tuple)
            /\ S.cell[<<t, r>>] \in Tuple /\ M[m] \in Seq(Tuple)
        BY <1>0, <2>1, <3>1 DEF Slot, Images
      <4>3. /\ Len(M[r]) = Len(M[r - 1]) + 1
            /\ \A i \in 1..Len(M[r - 1]) : M[r][i] = M[r - 1][i]
        BY <4>2, AppendIs
      <4>4. Len(M[m]) <= Len(M[r - 1]) /\ \A i \in 1..Len(M[m]) : M[r - 1][i] = M[m][i]
        BY <3>0 DEF Begins
      <4>5. Len(M[m]) \in Nat /\ Len(M[r - 1]) \in Nat
        BY <4>2
      <4>6. Begins(M[m], M[r]) /\ Len(M[m]) < Len(M[r])
        BY <4>3, <4>4, <4>5 DEF Begins
      <4>. HIDE DEF More
      <4>. QED
        BY <2>1, <4>1, <4>6
    <3>2. CASE <<t, r>> \notin S.live
      <4>1. M[r] = M[r - 1]
        BY <1>0, <3>2
      <4>2. More(r) <=> More(r - 1)
        <5>1. \A q \in Row : q <= r <=> q <= r - 1 \/ q = r
          BY <2>1 DEF Row
        <5>. QED
          BY <3>2, <5>1
      <4>. HIDE DEF More
      <4>. QED
        BY <2>1, <3>0, <4>1, <4>2
    <3>. QED
      BY <3>1, <3>2
  <2>. QED
    BY <2>1, <2>2, <2>3
<1>4. k \in U
  <2>. HIDE DEF U
  <2>. QED
    BY <1>2, <1>3, RowInduction
<1>. QED
  BY <1>4 DEF M

\* The same rows are live: there are as many, whatever they hold.
LEMMA MetAsMany ==
  ASSUME NEW S \in Images, NEW T \in Images, NEW t \in Table,
         \A r \in Row : <<t, r>> \in S.live <=> <<t, r>> \in T.live
  PROVE  Len(Rows(S, t)) = Len(Rows(T, t))
<1>. DEFINE U == {r \in 0..MaxRow : Len(Met(S, t)[r]) = Len(Met(T, t)[r])}
<1>1. 0 \in U
  BY MetIs, BoundAssumption
<1>2. ASSUME NEW r \in Row, r - 1 \in U
      PROVE  r \in U
  <2>1. r \in 0..MaxRow /\ r - 1 \in 0..MaxRow
    BY BoundAssumption DEF Row
  <2>2. S.cell[<<t, r>>] \in Tuple /\ T.cell[<<t, r>>] \in Tuple
    BY DEF Slot, Images
  <2>3. Met(S, t)[r - 1] \in Seq(Tuple) /\ Met(T, t)[r - 1] \in Seq(Tuple)
    BY <2>1, MetIs
  <2>4. CASE <<t, r>> \in S.live
    <3>1. /\ Met(S, t)[r] = Append(Met(S, t)[r - 1], S.cell[<<t, r>>])
          /\ Met(T, t)[r] = Append(Met(T, t)[r - 1], T.cell[<<t, r>>])
      BY <2>4, MetIs
    <3>2. /\ Len(Met(S, t)[r]) = Len(Met(S, t)[r - 1]) + 1
          /\ Len(Met(T, t)[r]) = Len(Met(T, t)[r - 1]) + 1
      BY <2>2, <2>3, <3>1, AppendIs
    <3>. QED
      BY <1>2, <2>1, <3>2
  <2>5. CASE <<t, r>> \notin S.live
    <3>1. Met(S, t)[r] = Met(S, t)[r - 1] /\ Met(T, t)[r] = Met(T, t)[r - 1]
      BY <2>5, MetIs
    <3>. QED
      BY <1>2, <2>1, <3>1
  <2>. QED
    BY <2>4, <2>5
<1>3. MaxRow \in U
  <2>. HIDE DEF U
  <2>. QED
    BY <1>1, <1>2, RowInduction, BoundAssumption
<1>. QED
  BY <1>3 DEF Rows

\* Parts of sequences.
LEMMA PartOfNone ==
  ASSUME NEW X, NEW q \in Seq(X)
  PROVE  Atomic!Subsequence(<<>>, q)
<1>. DEFINE f == [i \in 1..0 |-> i]
<1>1. Len(<<>>) = 0 /\ \A i \in 1..0 : FALSE
  OBVIOUS
<1>2. f \in [1..Len(<<>>) -> 1..Len(q)]
  BY <1>1
<1>. HIDE DEF f
<1>. QED
  BY <1>1, <1>2 DEF Atomic!Subsequence

LEMMA PartOfLonger ==
  ASSUME NEW X, NEW p \in Seq(X), NEW q \in Seq(X), NEW e \in X, Atomic!Subsequence(p, q)
  PROVE  /\ Atomic!Subsequence(p, Append(q, e))
         /\ Atomic!Subsequence(Append(p, e), Append(q, e))
<1>1. PICK f \in [1..Len(p) -> 1..Len(q)] :
        /\ \A i, j \in 1..Len(p) : i < j => f[i] < f[j]
        /\ \A i \in 1..Len(p) : p[i] = q[f[i]]
  BY DEF Atomic!Subsequence
<1>. DEFINE P == Append(p, e)
            Q == Append(q, e)
            g == [i \in 1..(Len(p) + 1) |-> IF i <= Len(p) THEN f[i] ELSE Len(q) + 1]
<1>2. Len(p) \in Nat /\ Len(q) \in Nat
  OBVIOUS
<1>3. /\ Len(P) = Len(p) + 1 /\ P[Len(p) + 1] = e
      /\ \A i \in 1..Len(p) : P[i] = p[i]
  BY AppendIs
<1>4. /\ Len(Q) = Len(q) + 1 /\ Q[Len(q) + 1] = e
      /\ \A i \in 1..Len(q) : Q[i] = q[i]
  BY AppendIs
<1>. HIDE DEF P, Q
<1>5. Atomic!Subsequence(p, Q)
  <2>1. f \in [1..Len(p) -> 1..Len(Q)]
    BY <1>2, <1>4
  <2>2. \A i \in 1..Len(p) : p[i] = Q[f[i]]
    BY <1>1, <1>4
  <2>. QED
    BY <1>1, <2>1, <2>2 DEF Atomic!Subsequence
<1>6. Atomic!Subsequence(P, Q)
  <2>1. g \in [1..Len(P) -> 1..Len(Q)]
    BY <1>2, <1>3, <1>4
  <2>2. \A i, j \in 1..Len(P) : i < j => g[i] < g[j]
    BY <1>1, <1>2, <1>3
  <2>3. ASSUME NEW i \in 1..Len(P)
        PROVE  P[i] = Q[g[i]]
    <3>1. CASE i <= Len(p)
      <4>1. i \in 1..Len(p) /\ g[i] = f[i] /\ f[i] \in 1..Len(q)
        BY <1>2, <1>3, <3>1
      <4>. HIDE DEF g
      <4>. QED
        BY <1>1, <1>3, <1>4, <4>1
    <3>2. CASE ~(i <= Len(p))
      <4>1. i = Len(p) + 1 /\ g[i] = Len(q) + 1
        BY <1>2, <1>3, <3>2
      <4>. HIDE DEF g
      <4>. QED
        BY <1>3, <1>4, <4>1
    <3>. QED
      BY <3>1, <3>2
  <2>. HIDE DEF g
  <2>. QED
    BY <2>1, <2>2, <2>3 DEF Atomic!Subsequence
<1>. QED
  BY <1>5, <1>6 DEF P, Q

\* Some of the rows are live, as they were: they are a part of what was, in order.
LEMMA MetFewer ==
  ASSUME NEW S \in Images, NEW T \in Images, NEW t \in Table,
         \A r \in Row : <<t, r>> \in T.live =>
           <<t, r>> \in S.live /\ T.cell[<<t, r>>] = S.cell[<<t, r>>]
  PROVE  Atomic!Subsequence(Rows(T, t), Rows(S, t))
<1>. DEFINE U == {r \in 0..MaxRow : Atomic!Subsequence(Met(T, t)[r], Met(S, t)[r])}
<1>1. 0 \in U
  <2>1. 0 \in 0..MaxRow
    BY BoundAssumption
  <2>2. Atomic!Subsequence(Met(T, t)[0], Met(S, t)[0])
    <3>1. <<>> \in Seq(Tuple)
      OBVIOUS
    <3>. QED
      BY <3>1, MetIs, PartOfNone
  <2>. QED
    BY <2>1, <2>2
<1>2. ASSUME NEW r \in Row, r - 1 \in U
      PROVE  r \in U
  <2>1. r \in 0..MaxRow /\ r - 1 \in 0..MaxRow
    BY BoundAssumption DEF Row
  <2>2. S.cell[<<t, r>>] \in Tuple
    BY DEF Slot, Images
  <2>3. Met(S, t)[r - 1] \in Seq(Tuple) /\ Met(T, t)[r - 1] \in Seq(Tuple)
    BY <2>1, MetIs
  <2>4. Atomic!Subsequence(Met(T, t)[r - 1], Met(S, t)[r - 1])
    BY <1>2
  <2>5. /\ Atomic!Subsequence(Met(T, t)[r - 1], Append(Met(S, t)[r - 1], S.cell[<<t, r>>]))
        /\ Atomic!Subsequence(Append(Met(T, t)[r - 1], S.cell[<<t, r>>]),
                              Append(Met(S, t)[r - 1], S.cell[<<t, r>>]))
    BY <2>2, <2>3, <2>4, PartOfLonger
  <2>6. Atomic!Subsequence(Met(T, t)[r], Met(S, t)[r])
    <3>1. CASE <<t, r>> \in T.live
      <4>1. /\ Met(T, t)[r] = Append(Met(T, t)[r - 1], S.cell[<<t, r>>])
            /\ Met(S, t)[r] = Append(Met(S, t)[r - 1], S.cell[<<t, r>>])
        BY <3>1, MetIs
      <4>. QED
        BY <2>5, <4>1
    <3>2. CASE <<t, r>> \notin T.live
      <4>1. Met(T, t)[r] = Met(T, t)[r - 1]
        BY <3>2, MetIs
      <4>2. \/ Met(S, t)[r] = Met(S, t)[r - 1]
            \/ Met(S, t)[r] = Append(Met(S, t)[r - 1], S.cell[<<t, r>>])
        BY MetIs
      <4>. QED
        BY <2>4, <2>5, <4>1, <4>2
    <3>. QED
      BY <3>1, <3>2
  <2>. QED
    BY <2>1, <2>6
<1>3. MaxRow \in U
  <2>. HIDE DEF U
  <2>. QED
    BY <1>1, <1>2, RowInduction, BoundAssumption
<1>. QED
  BY <1>3 DEF Rows

\* Renumbered rows are met in the order they were: f[i] is the row row i was.
LEMMA MetRenumbered ==
  ASSUME NEW S \in Images, NEW T \in Images, NEW t \in Table,
         NEW m \in 0..MaxRow, NEW f \in [1..m -> Row],
         \A i, j \in 1..m : i < j => f[i] < f[j],
         \A r \in Row : <<t, r>> \in S.live <=> \E i \in 1..m : f[i] = r,
         \A r \in Row : <<t, r>> \in T.live <=> r <= m,
         \A i \in 1..m : T.cell[<<t, i>>] = S.cell[<<t, f[i]>>]
  PROVE  Rows(T, t) = Rows(S, t)
<1>. DEFINE Passed(r, k) == \A i \in 1..m : f[i] <= r <=> i <= k
            U == {r \in 0..MaxRow :
                    \A k \in 0..m : Passed(r, k) => Met(S, t)[r] = Met(T, t)[k]}
<1>1. /\ m \in Nat /\ \A i \in 1..m : f[i] \in Nat /\ f[i] >= 1 /\ f[i] <= MaxRow
      /\ \A i \in 1..m : i \in Row
  BY BoundAssumption DEF Row
<1>2. 0 \in U
  <2>1. 0 \in 0..MaxRow
    BY BoundAssumption
  <2>2. ASSUME NEW k \in 0..m, Passed(0, k)
        PROVE  k = 0
    <3>1. SUFFICES ASSUME k # 0 PROVE FALSE
      OBVIOUS
    <3>2. 1 \in 1..m /\ 1 <= k
      BY <1>1, <3>1
    <3>. QED
      BY <1>1, <2>2, <3>2
  <2>. HIDE DEF Passed
  <2>. QED
    BY <2>1, <2>2, MetIs
<1>3. ASSUME NEW r \in Row, r - 1 \in U
      PROVE  r \in U
  <2>1. r \in 0..MaxRow /\ r - 1 \in 0..MaxRow /\ r \in Nat
    BY BoundAssumption DEF Row
  <2>2. ASSUME NEW k \in 0..m, Passed(r, k)
        PROVE  Met(S, t)[r] = Met(T, t)[k]
    <3>1. CASE \E i \in 1..m : f[i] = r
      <4>1. PICK i \in 1..m : f[i] = r
        BY <3>1
      <4>2. \A j \in 1..m : f[j] <= r <=> j <= i
        <5>1. ASSUME NEW j \in 1..m
              PROVE  f[j] <= r <=> j <= i
          BY <1>1, <2>1, <4>1
        <5>. QED
          BY <5>1
      <4>3. k = i
        <5>1. i <= k
          BY <2>2, <4>1, <1>1
        <5>2. k \in 1..m
          BY <1>1, <5>1
        <5>3. k <= i
          BY <2>2, <4>2, <5>2, <1>1
        <5>. QED
          BY <5>1, <5>3, <1>1
      <4>4. Passed(r - 1, k - 1)
        <5>1. ASSUME NEW j \in 1..m
              PROVE  f[j] <= r - 1 <=> j <= k - 1
          <6>1. f[j] <= r <=> j <= i
            BY <4>2
          <6>2. f[j] = r => j = i
            BY <1>1, <4>1
          <6>. QED
            BY <1>1, <2>1, <4>1, <4>3, <6>1, <6>2
        <5>. QED
          BY <5>1
      <4>5. k - 1 \in 0..m /\ k \in Row /\ k \in 1..m
        BY <1>1, <4>3
      <4>6. Met(S, t)[r - 1] = Met(T, t)[k - 1]
        <5>. HIDE DEF Passed
        <5>. QED
          BY <1>3, <4>4, <4>5
      <4>7. <<t, r>> \in S.live /\ <<t, k>> \in T.live /\ T.cell[<<t, k>>] = S.cell[<<t, r>>]
        BY <4>1, <4>3, <4>5
      <4>8. /\ Met(S, t)[r] = Append(Met(S, t)[r - 1], S.cell[<<t, r>>])
            /\ Met(T, t)[k] = Append(Met(T, t)[k - 1], T.cell[<<t, k>>])
        BY <4>5, <4>7, MetIs
      <4>. QED
        BY <4>6, <4>7, <4>8
    <3>2. CASE ~\E i \in 1..m : f[i] = r
      <4>1. Passed(r - 1, k)
        <5>1. ASSUME NEW j \in 1..m
              PROVE  f[j] <= r - 1 <=> f[j] <= r
          BY <1>1, <2>1, <3>2
        <5>. QED
          BY <2>2, <5>1
      <4>2. Met(S, t)[r - 1] = Met(T, t)[k]
        <5>. HIDE DEF Passed
        <5>. QED
          BY <1>3, <4>1
      <4>3. Met(S, t)[r] = Met(S, t)[r - 1]
        BY <3>2, MetIs
      <4>. QED
        BY <4>2, <4>3
    <3>. QED
      BY <3>1, <3>2
  <2>. HIDE DEF Passed
  <2>. QED
    BY <2>1, <2>2
<1>4. MaxRow \in 0..MaxRow
  BY BoundAssumption
<1>5. MaxRow \in U
  <2>. HIDE DEF U
  <2>. QED
    BY <1>2, <1>3, <1>4, RowInduction
<1>6. Met(S, t)[MaxRow] = Met(T, t)[m]
  <2>1. Passed(MaxRow, m) /\ m \in 0..m
    BY <1>1
  <2>. HIDE DEF Passed
  <2>. QED
    BY <1>5, <2>1
<1>7. Met(T, t)[MaxRow] = Met(T, t)[m]
  <2>1. ASSUME NEW r \in Row, m < r, <<t, r>> \in T.live
        PROVE  FALSE
    BY <2>1, <1>1, BoundAssumption DEF Row
  <2>2. m <= MaxRow
    BY BoundAssumption
  <2>. QED
    BY <1>4, <2>1, <2>2, MetGrows
<1>. QED
  BY <1>6, <1>7 DEF Rows

\* table_compact cannot be seen.
LEMMA CompactUnseen ==
  ASSUME TypeInv, TypeInv', NEW t \in Table, Renumbered(t)
  PROVE  View(Image') = View(Image)
<1>1. Image \in Images /\ Image' \in Images
  BY ImageType, NextImageType DEF TypeInv, TypeOK
<1>2. PICK m \in 0..MaxRow : \E f \in [1..m -> Row] :
        /\ \A i, j \in 1..m : i < j => f[i] < f[j]
        /\ \A r \in Row : <<t, r>> \in live <=> \E i \in 1..m : f[i] = r
        /\ n' = [n EXCEPT ![t] = m]
        /\ live' = {s \in Slot : IF s[1] = t THEN s[2] <= m ELSE s \in live}
        /\ cell' = [s \in Slot |-> IF s[1] # t THEN cell[s]
                                   ELSE IF s[2] <= m THEN cell[<<t, f[s[2]]>>]
                                   ELSE NullTuple]
  BY DEF Renumbered
<1>3. PICK f \in [1..m -> Row] :
        /\ \A i, j \in 1..m : i < j => f[i] < f[j]
        /\ \A r \in Row : <<t, r>> \in live <=> \E i \in 1..m : f[i] = r
        /\ live' = {s \in Slot : IF s[1] = t THEN s[2] <= m ELSE s \in live}
        /\ cell' = [s \in Slot |-> IF s[1] # t THEN cell[s]
                                   ELSE IF s[2] <= m THEN cell[<<t, f[s[2]]>>]
                                   ELSE NullTuple]
  BY <1>2
<1>4. \A u \in Table, r \in Row : /\ <<u, r>> \in Slot /\ <<u, r>>[1] = u /\ <<u, r>>[2] = r
  BY DEF Slot
<1>5. Rows(Image', t) = Rows(Image, t)
  <2>1. \A r \in Row : <<t, r>> \in live' <=> r <= m
    BY <1>3, <1>4
  <2>2. \A i \in 1..m : cell'[<<t, i>>] = cell[<<t, f[i]>>]
    <3>1. ASSUME NEW i \in 1..m PROVE i \in Row /\ i <= m
      BY BoundAssumption DEF Row
    <3>. QED
      BY <1>3, <1>4, <3>1
  <2>3. /\ Image'.live = live' /\ Image'.cell = cell' /\ Image.live = live /\ Image.cell = cell
    BY DEF Image
  <2>4. /\ \A r \in Row : <<t, r>> \in Image.live <=> \E i \in 1..m : f[i] = r
        /\ \A r \in Row : <<t, r>> \in Image'.live <=> r <= m
        /\ \A i \in 1..m : Image'.cell[<<t, i>>] = Image.cell[<<t, f[i]>>]
    BY <1>3, <2>1, <2>2, <2>3
  <2>. QED
    BY <1>1, <1>3, <2>4, MetRenumbered, Zenon
<1>6. ASSUME NEW u \in Table, u # t
      PROVE  Rows(Image', u) = Rows(Image, u)
  <2>1. \A r \in Row : /\ <<u, r>> \in live' <=> <<u, r>> \in live
                       /\ cell'[<<u, r>>] = cell[<<u, r>>]
    BY <1>3, <1>4, <1>6
  <2>2. /\ Image'.live = live' /\ Image'.cell = cell' /\ Image.live = live /\ Image.cell = cell
    BY DEF Image
  <2>3. MaxRow \in 0..MaxRow
    BY BoundAssumption
  <2>. QED
    BY <1>1, <2>1, <2>2, <2>3, MetSame DEF Rows
<1>. QED
  BY <1>5, <1>6 DEF View

-----------------------------------------------------------------------------
(* What a statement has done so far to the memory it found.                *)

\* T has the rows of S in every table but t.
Untouched(S, T, t) ==
  \A s \in Slot : s[1] # t =>
    /\ s \in S.live <=> s \in T.live
    /\ s \in S.live => S.cell[s] = T.cell[s]

\* Row s of table t was appended since S.
New(S, s, t) == s[1] = t /\ s[2] > S.n[t]

\* T has the rows of S in table t too, and new ones.
Inserted(S, T, t) ==
  /\ \A s \in S.live : s[1] = t => s \in T.live /\ S.cell[s] = T.cell[s]
  /\ \A s \in T.live : s[1] = t => s \in S.live \/ New(S, s, t)

Deleted(S, T, t) == \A s \in T.live : s[1] = t => s \in S.live /\ S.cell[s] = T.cell[s]

Updated(S, T, t) == \A s \in Slot : s[1] = t => (s \in S.live <=> s \in T.live)

\* The running statement, from the memory `seen' it found to the present one.
Doing ==
  LET t == stmt.tab
  IN  /\ Untouched(seen, Image, t)
      /\ \A u \in Table : seen.n[u] <= n[u]
      /\ stmt.kind \in {"insert", "delete", "update"}
      /\ stmt.kind = "insert" =>
           /\ Inserted(seen, Image, t)
           /\ stmt.cur > 0 => \E s \in live : New(seen, s, t)
      /\ stmt.kind = "delete" => Deleted(seen, Image, t)
      /\ stmt.kind = "update" => Updated(seen, Image, t)

\* All of its rows done.
Done == Doing /\ (stmt.kind = "insert" => \E s \in live : New(seen, s, stmt.tab))

RefineInv ==
  /\ UndoInv
  /\ pc \in {"idle", "rollback"} => stmt = NoStmt
  /\ pc \in {"row", "assign"} => Doing
  /\ pc = "assign" => stmt.kind = "update"
  /\ pc = "commit" => IF stmt.auto THEN Done ELSE stmt = NoStmt /\ seen = Image

-----------------------------------------------------------------------------
(* What it has done when it is over is one step of AtomicDb.               *)

LEMMA UntouchedRows ==
  ASSUME NEW S \in Images, NEW T \in Images, NEW t \in Table, NEW u \in Table, u # t,
         Untouched(S, T, t)
  PROVE  View(T)[u] = View(S)[u]
<1>1. \A r \in Row : /\ <<u, r>> \in S.live <=> <<u, r>> \in T.live
                     /\ <<u, r>> \in S.live => S.cell[<<u, r>>] = T.cell[<<u, r>>]
  BY DEF Untouched, Slot
<1>2. MaxRow \in 0..MaxRow
  BY BoundAssumption
<1>3. Rows(S, u) = Rows(T, u)
  BY <1>1, <1>2, MetSame DEF Rows
<1>. QED
  BY <1>3 DEF View

LEMMA InsertedRows ==
  ASSUME NEW S \in Images, NEW T \in Images, NEW t \in Table, Sound(S),
         Inserted(S, T, t), \E s \in T.live : New(S, s, t)
  PROVE  /\ Len(View(T)[t]) > Len(View(S)[t])
         /\ SubSeq(View(T)[t], 1, Len(View(S)[t])) = View(S)[t]
<1>. DEFINE m == S.n[t]
            p == Met(S, t)[MaxRow]
            q == Met(T, t)[MaxRow]
<1>1. m \in 0..MaxRow /\ MaxRow \in 0..MaxRow /\ m <= MaxRow
  BY BoundAssumption DEF Images
<1>2. \A r \in Row : <<t, r>> \in Slot /\ <<t, r>>[1] = t /\ <<t, r>>[2] = r
  BY DEF Slot
<1>3. p = Met(S, t)[m]
  <2>1. ASSUME NEW r \in Row, m < r, <<t, r>> \in S.live
        PROVE  FALSE
    BY <1>1, <1>2, <2>1, BoundAssumption DEF Sound, Allocated, Row
  <2>. HIDE DEF m
  <2>. QED
    BY <1>1, <2>1, MetGrows
<1>4. Met(S, t)[m] = Met(T, t)[m]
  <2>1. ASSUME NEW r \in Row, r <= m
        PROVE  /\ <<t, r>> \in S.live <=> <<t, r>> \in T.live
               /\ <<t, r>> \in S.live => S.cell[<<t, r>>] = T.cell[<<t, r>>]
    <3>1. ~New(S, <<t, r>>, t)
      BY <1>1, <2>1, BoundAssumption DEF New, Row
    <3>. QED
      BY <1>2, <3>1 DEF Inserted
  <2>. HIDE DEF m
  <2>. QED
    BY <1>1, <2>1, MetSame
<1>5. \E r \in Row : m < r /\ r <= MaxRow /\ <<t, r>> \in T.live
  <2>1. PICK s \in T.live : New(S, s, t)
    OBVIOUS
  <2>2. s = <<t, s[2]>> /\ s[2] \in Row /\ s[2] > m
    BY <2>1 DEF Images, Slot, New
  <2>. QED
    BY <2>1, <2>2, BoundAssumption DEF Row
<1>6. Begins(Met(T, t)[m], q) /\ Len(Met(T, t)[m]) < Len(q)
  <2>. HIDE DEF m
  <2>. QED
    BY <1>1, <1>5, MetGrows
<1>7. p \in Seq(Tuple) /\ q \in Seq(Tuple)
  BY <1>1, MetIs
<1>8. Begins(p, q) /\ Len(p) < Len(q)
  BY <1>3, <1>4, <1>6
<1>. HIDE DEF p, q
<1>9. SubSeq(q, 1, Len(p)) = p
  <2>1. Len(p) \in Nat /\ Len(q) \in Nat
    BY <1>7
  <2>2. \A i \in 1..Len(p) : q[i] = p[i]
    BY <1>8 DEF Begins
  <2>3. SubSeq(q, 1, Len(p)) \in Seq(Tuple) /\ Len(SubSeq(q, 1, Len(p))) = Len(p)
    BY <1>7, <1>8, <2>1
  <2>4. \A i \in 1..Len(p) : SubSeq(q, 1, Len(p))[i] = p[i]
    BY <1>7, <1>8, <2>1, <2>2
  <2>. QED
    BY <1>7, <2>3, <2>4
<1>10. View(S)[t] = p /\ View(T)[t] = q
  BY DEF View, Rows, p, q
<1>. QED
  BY <1>7, <1>8, <1>9, <1>10

LEMMA DeletedRows ==
  ASSUME NEW S \in Images, NEW T \in Images, NEW t \in Table, Deleted(S, T, t)
  PROVE  Atomic!Subsequence(View(T)[t], View(S)[t])
<1>1. \A r \in Row : <<t, r>> \in T.live =>
        <<t, r>> \in S.live /\ T.cell[<<t, r>>] = S.cell[<<t, r>>]
  BY DEF Deleted
<1>2. Atomic!Subsequence(Rows(T, t), Rows(S, t))
  BY <1>1, MetFewer
<1>. QED
  BY <1>2 DEF View

LEMMA UpdatedRows ==
  ASSUME NEW S \in Images, NEW T \in Images, NEW t \in Table, Updated(S, T, t)
  PROVE  Len(View(T)[t]) = Len(View(S)[t])
<1>1. \A r \in Row : <<t, r>> \in S.live <=> <<t, r>> \in T.live
  BY DEF Updated, Slot
<1>2. Len(Rows(S, t)) = Len(Rows(T, t))
  BY <1>1, MetAsMany
<1>. QED
  BY <1>2 DEF View

\* The memory has come back to an image.
LEMMA AgreesView ==
  ASSUME NEW S \in Images, NEW T \in Images, Sound(S), Agrees(S, T)
  PROVE  View(T) = View(S)
<1>1. ASSUME NEW t \in Table
      PROVE  Rows(T, t) = Rows(S, t)
  <2>1. \A r \in Row : /\ <<t, r>> \in S.live <=> <<t, r>> \in T.live
                       /\ <<t, r>> \in S.live => S.cell[<<t, r>>] = T.cell[<<t, r>>]
    BY DEF Agrees, Sound, Slot
  <2>2. MaxRow \in 0..MaxRow
    BY BoundAssumption
  <2>. QED
    BY <2>1, <2>2, MetSame DEF Rows
<1>. QED
  BY <1>1 DEF View

\* The statement's step.
LEMMA DoneIsAStep ==
  ASSUME RefineInv, Done, pc \in {"row", "commit"}, View(seen)' = View(Image)
  PROVE  \E t \in Table : /\ Atomic!Insert(t) \/ Atomic!Update(t) \/ Atomic!Delete(t)
                          /\ \A u \in Table \ {t} : View(seen)'[u] = View(seen)[u]
<1>. DEFINE t == stmt.tab
<1>1. seen \in Images /\ Image \in Images /\ t \in Table /\ Sound(seen)
  BY UndoFacts, StmtType DEF RefineInv, UndoInv, TypeInv, TypeOK, AllSound
<1>2. Image.live = live
  BY DEF Image
<1>3. \A u \in Table \ {t} : View(Image)[u] = View(seen)[u]
  BY <1>1, UntouchedRows DEF Done, Doing
<1>4. CASE stmt.kind = "insert"
  <2>1. Inserted(seen, Image, t) /\ \E s \in Image.live : New(seen, s, t)
    BY <1>2, <1>4 DEF Done, Doing
  <2>2. /\ Len(View(Image)[t]) > Len(View(seen)[t])
        /\ SubSeq(View(Image)[t], 1, Len(View(seen)[t])) = View(seen)[t]
    BY <1>1, <2>1, InsertedRows
  <2>3. Atomic!Insert(t)
    BY <2>2 DEF Atomic!Insert
  <2>. QED
    BY <1>1, <1>3, <2>3
<1>5. CASE stmt.kind = "delete"
  <2>1. Atomic!Delete(t)
    BY <1>1, <1>5, DeletedRows DEF Done, Doing, Atomic!Delete
  <2>. QED
    BY <1>1, <1>3, <2>1
<1>6. CASE stmt.kind = "update"
  <2>1. Atomic!Update(t)
    BY <1>1, <1>6, UpdatedRows DEF Done, Doing, Atomic!Update
  <2>. QED
    BY <1>1, <1>3, <2>1
<1>. QED
  BY <1>4, <1>5, <1>6 DEF Done, Doing

-----------------------------------------------------------------------------
(* The invariant holds.                                                    *)

LEMMA InitRefine == Init => RefineInv
BY InitUndo DEF Init, RefineInv

\* A call returns, or gives up.
LEMMA RefineOver ==
  ASSUME UndoInv', pc' \in {"idle", "undo", "rollback"},
         pc' \in {"idle", "rollback"} => stmt' = NoStmt
  PROVE  RefineInv'
BY DEF RefineInv

\* A row was looked at, and nothing changed.
LEMMA KeepDoing ==
  ASSUME Doing, UNCHANGED <<mem, seen>>, stmt'.tab = stmt.tab, stmt'.kind = stmt.kind,
         stmt'.cur = stmt.cur \/ stmt.kind # "insert"
  PROVE  Doing'
<1>1. Image' = Image /\ live' = live /\ n' = n /\ seen' = seen
  BY DEF Image, mem
<1>. QED
  BY <1>1 DEF Doing

LEMMA RefineStart ==
  ASSUME RefineInv, UndoInv', StartAny
  PROVE  RefineInv'
<1>1. PICK k \in {"insert", "delete", "update"}, t \in Table :
        \E set \in Assignments \cup {<<>>} : Start(k, t, set)
  BY DEF StartAny
<1>2. /\ pc = "idle" /\ pc' = "row" /\ UNCHANGED <<mem, seen>>
      /\ stmt'.kind = k /\ stmt'.tab = t /\ stmt'.cur = 0
  BY <1>1 DEF Start, StartAt
<1>3. seen = Image /\ Image' = Image /\ TypeOK
  BY <1>2, UndoFacts DEF RefineInv, UndoInv, Calm, Image, mem
<1>4. \A u \in Table : n[u] <= n[u]
  BY <1>3, BoundAssumption DEF TypeOK
<1>5. Doing'
  <2>1. /\ Untouched(Image, Image, t) /\ Inserted(Image, Image, t)
        /\ Deleted(Image, Image, t) /\ Updated(Image, Image, t)
    BY DEF Untouched, Inserted, Deleted, Updated
  <2>2. seen' = Image /\ seen'.n = n' /\ n' = n
    BY <1>2, <1>3 DEF Image, mem
  <2>3. ~(stmt'.cur > 0)
    BY <1>2
  <2>. QED
    BY <1>2, <1>3, <1>4, <2>1, <2>2, <2>3 DEF Doing
<1>. QED
  BY <1>2, <1>5 DEF RefineInv

LEMMA RefineInsertRow ==
  ASSUME RefineInv, UndoInv', NEW x \in Tuple, InsertRow(x)
  PROVE  RefineInv'
<1>. DEFINE t == stmt.tab
            s == <<t, n[t] + 1>>
<1>1. /\ pc = "row" /\ stmt.kind = "insert" /\ n[t] < MaxRow /\ seen' = seen
      /\ n' = [n EXCEPT ![t] = @ + 1] /\ cell' = [cell EXCEPT ![s] = x]
  BY DEF InsertRow, Running, Fail
<1>2. TypeOK /\ t \in Table /\ Doing /\ Sound(seen) /\ Sound(Image)
  BY <1>1, UndoFacts, StmtType DEF RefineInv, UndoInv, TypeInv, AllSound
<1>3. CASE Fail
  BY <1>3, RefineOver DEF Fail
<1>4. CASE ~Fail
  <2>1. live' = live \cup {s} /\ pc' = "row" /\ stmt' = [stmt EXCEPT !.cur = @ + 1]
    BY <1>1, <1>4 DEF InsertRow
  <2>2. stmt'.tab = t /\ stmt'.kind = "insert"
    BY <1>1, <1>2, <2>1 DEF TypeOK, Stmts
  <2>3. s \in Slot /\ s[1] = t /\ s[2] = n[t] + 1 /\ n[t] \in Nat /\ seen.n[t] \in Nat
    <3>1. n[t] \in 0..MaxRow /\ seen.n[t] \in 0..MaxRow
      BY <1>2 DEF TypeOK, Images
    <3>. QED
      BY <1>1, <1>2, <3>1, BoundAssumption DEF Slot, Row
  <2>4. New(seen, s, t) /\ s \notin seen.live
    <3>1. seen.n[t] <= n[t]
      BY <1>2 DEF Doing
    <3>. QED
      BY <1>2, <2>3, <3>1 DEF New, Sound, Allocated
  <2>5. /\ Image.live = live /\ Image.cell = cell /\ Image.n = n
        /\ Image'.live = live' /\ Image'.cell = cell' /\ Image'.n = n'
    BY DEF Image
  <2>6. \A q \in Slot : q # s => cell'[q] = cell[q]
    BY <1>1, <1>2 DEF TypeOK
  <2>. HIDE DEF s
  <2>7. Untouched(seen, Image', t)
    BY <1>2, <2>1, <2>3, <2>5, <2>6 DEF Doing, Untouched
  <2>8. Inserted(seen, Image', t)
    <3>1. Inserted(seen, Image, t)
      BY <1>1, <1>2 DEF Doing
    <3>2. seen.live \subseteq Slot
      BY <1>2 DEF TypeOK, Images
    <3>. QED
      BY <2>1, <2>4, <2>5, <2>6, <3>1, <3>2 DEF Inserted
  <2>9. \A u \in Table : seen.n[u] <= n'[u]
    <3>1. ASSUME NEW u \in Table
          PROVE  seen.n[u] <= n'[u]
      <4>1. seen.n[u] <= n[u] /\ seen.n[u] \in 0..MaxRow /\ n[u] \in 0..MaxRow
        BY <1>2 DEF Doing, TypeOK, Images
      <4>2. n'[u] = n[u] \/ n'[u] = n[u] + 1
        BY <1>1, <1>2 DEF TypeOK
      <4>. QED
        BY <4>1, <4>2, BoundAssumption
    <3>. QED
      BY <3>1
  <2>10. \E q \in live' : New(seen', q, t)
    BY <1>1, <2>1, <2>4
  <2>11. Doing'
    BY <1>1, <2>2, <2>7, <2>8, <2>9, <2>10 DEF Doing
  <2>. QED
    BY <2>1, <2>11 DEF RefineInv
<1>. QED
  BY <1>3, <1>4

LEMMA RefineDeleteRow ==
  ASSUME RefineInv, UndoInv', NEW r \in Row, DeleteRow(r)
  PROVE  RefineInv'
<1>. DEFINE t == stmt.tab
            s == <<t, r>>
<1>1. pc = "row" /\ stmt.kind = "delete" /\ seen' = seen /\ UNCHANGED <<n, cell>>
  BY DEF DeleteRow, Running, Fail
<1>2. TypeOK /\ Doing
  BY <1>1, UndoFacts DEF RefineInv
<1>3. CASE Fail
  BY <1>3, RefineOver DEF Fail
<1>4. CASE ~Fail
  <2>1. live' = live \ {s} /\ pc' = "row" /\ stmt' = [stmt EXCEPT !.cur = r]
    BY <1>1, <1>4 DEF DeleteRow
  <2>2. stmt'.tab = t /\ stmt'.kind = "delete"
    BY <1>1, <1>2, <2>1 DEF TypeOK, Stmts
  <2>3. /\ Image.live = live /\ Image.cell = cell
        /\ Image'.live = live' /\ Image'.cell = cell' /\ Image'.n = n'
    BY DEF Image
  <2>4. Untouched(seen, Image', t)
    BY <1>1, <1>2, <2>1, <2>3 DEF Doing, Untouched
  <2>5. Deleted(seen, Image', t)
    BY <1>1, <1>2, <2>1, <2>3 DEF Doing, Deleted
  <2>6. Doing'
    BY <1>1, <1>2, <2>2, <2>4, <2>5 DEF Doing
  <2>. QED
    BY <2>1, <2>6 DEF RefineInv
<1>. QED
  BY <1>3, <1>4

LEMMA RefineAssignCell ==
  ASSUME RefineInv, UndoInv', NEW v \in Cell, AssignCell(v)
  PROVE  RefineInv'
<1>. DEFINE t == stmt.tab
            s == <<t, stmt.cur>>
            c == stmt.set[stmt.pos]
<1>1. /\ pc = "assign" /\ pc' = "assign" /\ seen' = seen /\ UNCHANGED <<n, live>>
      /\ cell' = [cell EXCEPT ![s][c] = v] /\ stmt' = [stmt EXCEPT !.pos = @ + 1]
  BY DEF AssignCell, Assigning
<1>2. TypeOK /\ Doing /\ stmt.kind = "update"
  BY <1>1, UndoFacts DEF RefineInv
<1>3. stmt'.tab = t /\ stmt'.kind = "update"
  BY <1>1, <1>2 DEF TypeOK, Stmts
<1>4. \A q \in Slot : q[1] # t => cell'[q] = cell[q]
  BY <1>1, <1>2 DEF TypeOK
<1>5. /\ Image.live = live /\ Image.cell = cell
      /\ Image'.live = live' /\ Image'.cell = cell' /\ Image'.n = n'
  BY DEF Image
<1>6. Untouched(seen, Image', t)
  BY <1>1, <1>2, <1>4, <1>5 DEF Doing, Untouched
<1>7. Updated(seen, Image', t)
  BY <1>1, <1>2, <1>5 DEF Doing, Updated
<1>8. Doing'
  BY <1>1, <1>2, <1>3, <1>6, <1>7 DEF Doing
<1>. QED
  BY <1>1, <1>3, <1>8 DEF RefineInv

\* The steps of a statement that leave the memory alone.
LEMMA RefineWalk ==
  ASSUME RefineInv, UndoInv',
         \/ InsertReject \/ AssignNoLog \/ CheckUpdated
         \/ \E r \in Row : SkipRow(r) \/ UpdateRow(r)
  PROVE  RefineInv'
<1>1. /\ UNCHANGED <<mem, seen>> /\ pc \in {"row", "assign"} /\ TypeOK /\ Doing
      /\ pc' \in {"row", "assign", "undo"}
  BY UndoFacts DEF InsertReject, AssignNoLog, CheckUpdated, SkipRow, UpdateRow, Fail, Running,
     Assigning, RefineInv
<1>2. CASE pc' = "undo"
  BY <1>2, RefineOver
<1>3. CASE \E r \in Row : SkipRow(r)
  <2>1. PICK r \in Row : SkipRow(r)
    BY <1>3
  <2>2. /\ stmt' = [stmt EXCEPT !.cur = r] /\ pc' = "row" /\ stmt.kind # "insert"
    BY <2>1 DEF SkipRow, Running
  <2>3. stmt'.tab = stmt.tab /\ stmt'.kind = stmt.kind
    BY <1>1, <2>2 DEF TypeOK, Stmts
  <2>. QED
    BY <1>1, <2>2, <2>3, KeepDoing DEF RefineInv
<1>4. CASE pc' # "undo" /\ \E r \in Row : UpdateRow(r)
  <2>1. PICK r \in Row : UpdateRow(r)
    BY <1>4
  <2>2. /\ stmt' = [stmt EXCEPT !.cur = r, !.pos = 1] /\ pc' = "assign"
        /\ stmt.kind = "update"
    BY <1>4, <2>1 DEF UpdateRow, Running, Fail
  <2>3. stmt'.tab = stmt.tab /\ stmt'.kind = stmt.kind
    BY <1>1, <2>2 DEF TypeOK, Stmts
  <2>. QED
    BY <1>1, <2>2, <2>3, KeepDoing DEF RefineInv
<1>5. CASE pc' # "undo" /\ CheckUpdated
  <2>1. stmt' = stmt /\ pc' = "row"
    BY <1>5 DEF CheckUpdated, Fail
  <2>. QED
    BY <1>1, <2>1, KeepDoing DEF RefineInv
<1>. QED
  BY <1>2, <1>3, <1>4, <1>5 DEF InsertReject, AssignNoLog, Fail

LEMMA RefineStmtOk ==
  ASSUME RefineInv, UndoInv', StmtOk
  PROVE  RefineInv' /\ Done
<1>1. UNCHANGED mem /\ pc = "row" /\ Doing /\ (stmt.kind = "insert" => stmt.cur > 0)
  BY DEF StmtOk, RefineInv
<1>2. Done
  BY <1>1 DEF Doing, Done
<1>3. CASE pc' = "commit" /\ UNCHANGED <<stmt, seen>> /\ stmt.auto
  <2>1. Image' = Image /\ live' = live /\ n' = n /\ seen' = seen /\ stmt' = stmt
    BY <1>1, <1>3 DEF Image, mem
  <2>2. Done'
    BY <1>2, <2>1 DEF Done, Doing
  <2>. QED
    BY <1>2, <1>3, <2>1, <2>2 DEF RefineInv
<1>4. CASE Return
  BY <1>2, <1>4, RefineOver DEF Return
<1>. QED
  BY <1>3, <1>4 DEF StmtOk

LEMMA NextRefine ==
  ASSUME "heap" \notin Faults
  PROVE  RefineInv /\ [Next]_vars => RefineInv'
<1>. SUFFICES ASSUME RefineInv, [Next]_vars PROVE RefineInv'
  OBVIOUS
<1>1. UndoInv'
  BY NextUndo DEF RefineInv
<1>2. CASE Begin \/ Rollback \/ UndoOne
  <2>1. /\ pc' \in {"idle", "undo", "rollback"} /\ stmt' = stmt
        /\ pc' \in {"idle", "rollback"} => pc \in {"idle", "rollback"}
    BY <1>2 DEF Begin, Rollback, UndoOne
  <2>. QED
    BY <1>1, <2>1, RefineOver DEF RefineInv
<1>3. CASE Commit
  <2>1. pc = "idle" /\ pc' = "commit" /\ stmt' = stmt /\ seen' = seen /\ Image' = Image
    BY <1>3 DEF Commit, Image, mem
  <2>2. stmt = NoStmt /\ seen = Image /\ ~stmt.auto
    BY <2>1 DEF RefineInv, UndoInv, Calm, NoStmt
  <2>. QED
    BY <1>1, <2>1, <2>2 DEF RefineInv
<1>4. CASE CommitOk \/ CommitFail \/ EndRollback \/ EndFailed
  <2>1. pc' = "idle" /\ stmt' = NoStmt
    BY <1>4 DEF CommitOk, CommitFail, EndRollback, EndFailed, Return
  <2>. QED
    BY <1>1, <2>1, RefineOver
<1>5. CASE StartAny
  BY <1>1, <1>5, RefineStart
<1>6. ASSUME NEW x \in Tuple, InsertRow(x) PROVE RefineInv'
  BY <1>1, <1>6, RefineInsertRow
<1>7. ASSUME NEW r \in Row, DeleteRow(r) PROVE RefineInv'
  BY <1>1, <1>7, RefineDeleteRow
<1>8. ASSUME NEW v \in Cell, AssignCell(v) PROVE RefineInv'
  BY <1>1, <1>8, RefineAssignCell
<1>9. CASE \/ InsertReject \/ AssignNoLog \/ CheckUpdated
           \/ \E r \in Row : SkipRow(r) \/ UpdateRow(r)
  BY <1>1, <1>9, RefineWalk
<1>10. CASE StmtOk
  BY <1>1, <1>10, RefineStmtOk
<1>11. ASSUME NEW t \in Table, Compact(t) PROVE RefineInv'
  <2>1. pc = "idle" /\ pc' = "idle" /\ stmt' = stmt
    BY <1>11 DEF Compact
  <2>. QED
    BY <1>1, <2>1, RefineOver DEF RefineInv
<1>12. CASE InsertOom \/ InsertLatched \/ AssignOom
  BY <1>12, NoOom DEF RefineInv
<1>13. CASE UNCHANGED vars
  <2>1. Image' = Image /\ UNCHANGED <<n, live, pc, stmt, seen>>
    BY <1>13 DEF vars, mem, Image
  <2>2. Doing' = Doing /\ Done' = Done
    BY <2>1 DEF Doing, Done
  <2>. QED
    BY <1>1, <2>1, <2>2 DEF RefineInv
<1>. QED
  BY <1>2, <1>3, <1>4, <1>5, <1>6, <1>7, <1>8, <1>9, <1>10, <1>11, <1>12, <1>13 DEF Next

-----------------------------------------------------------------------------
(* Every step is a step of AtomicDb, or none.                              *)

AtomicNext == Atomic!Statement \/ Atomic!Begin \/ Atomic!Commit \/ Atomic!Rollback

LEMMA Unseen ==
  ASSUME View(seen)' = View(seen), UserTxn' = UserTxn, UserTxn => View(begun)' = View(begun)
  PROVE  UNCHANGED Atomic!vars
BY DEF Atomic!vars

LEMMA InitImplements == Init => Atomic!Init
<1>. SUFFICES ASSUME Init PROVE Atomic!Init
  OBVIOUS
<1>1. seen \in Images /\ ~UserTxn /\ MaxRow \in 0..MaxRow
  BY InitType, BoundAssumption DEF Init, TypeInv, TypeOK, UserTxn
<1>2. \A t \in Table : View(seen)[t] \in Seq(Tuple)
  BY <1>1, MetIs DEF View, Rows
<1>. QED
  BY <1>1, <1>2 DEF Atomic!Init

\* The view a call ends with.
LEMMA ReturnView ==
  ASSUME Return, UNCHANGED mem
  PROVE  View(seen)' = View(Image) /\ stmt'.auto = FALSE
<1>1. seen' = Image' /\ Image' = Image
  BY DEF Return, Image, mem
<1>. QED
  BY <1>1 DEF Return, NoStmt

\* Between calls, and while the user's COMMIT or ROLLBACK runs.
LEMMA AtRest ==
  ASSUME RefineInv, pc \in {"idle", "rollback"} \/ (pc = "commit" /\ ~stmt.auto)
  PROVE  /\ stmt = NoStmt /\ ~stmt.auto /\ (UserTxn <=> active)
         /\ pc \in {"idle", "commit"} => seen = Image
         /\ pc # "idle" => active
BY DEF RefineInv, UndoInv, Calm, NoStmt, UserTxn

LEMMA BeginImplements ==
  ASSUME RefineInv, Begin
  PROVE  Atomic!Begin
<1>1. /\ ~UserTxn /\ UserTxn' /\ seen' = seen /\ begun' = Image /\ seen = Image
  BY AtRest DEF Begin, UserTxn
<1>. QED
  BY <1>1 DEF Atomic!Begin

LEMMA CommitImplements ==
  ASSUME RefineInv, CommitOk
  PROVE  AtomicNext
<1>1. View(seen)' = View(Image) /\ UserTxn' = FALSE /\ pc = "commit"
  BY ReturnView DEF CommitOk, UserTxn
<1>2. CASE stmt.auto
  <2>1. UserTxn = FALSE /\ Done
    BY <1>1, <1>2 DEF RefineInv, UserTxn
  <2>2. Atomic!Statement
    BY <1>1, <2>1, DoneIsAStep DEF Atomic!Statement
  <2>. QED
    BY <2>2 DEF AtomicNext
<1>3. CASE ~stmt.auto
  <2>1. UserTxn /\ seen = Image
    BY <1>1, <1>3, AtRest
  <2>2. Atomic!Commit
    BY <1>1, <2>1 DEF Atomic!Commit
  <2>. QED
    BY <2>2 DEF AtomicNext
<1>. QED
  BY <1>2, <1>3

\* A COMMIT that fails leaves the user's transaction as it was; that of an
\* autocommitted statement would be left open.
LEMMA CommitFailImplements ==
  ASSUME RefineInv, CommitFail, ~(stmt.auto /\ active')
  PROVE  UNCHANGED Atomic!vars
<1>1. /\ View(seen)' = View(Image) /\ stmt'.auto = FALSE /\ pc = "commit"
      /\ active' = active /\ begun' = begun
  BY ReturnView DEF CommitFail
<1>2. active
  BY <1>1 DEF RefineInv, UndoInv, Calm
<1>3. UserTxn /\ UserTxn' /\ seen = Image
  BY <1>1, <1>2, AtRest DEF UserTxn
<1>. QED
  BY <1>1, <1>3, Unseen

LEMMA EndRollbackImplements ==
  ASSUME RefineInv, EndRollback
  PROVE  Atomic!Rollback
<1>1. View(seen)' = View(Image) /\ ~UserTxn' /\ pc = "rollback" /\ Len(log) = stmt.mark
  BY ReturnView DEF EndRollback, UserTxn
<1>2. UserTxn /\ active /\ stmt.mark = 0
  BY <1>1, AtRest DEF NoStmt
<1>3. Agrees(begun, Image)
  <2>1. Before(1) = Image
    BY <1>1, <1>2 DEF Before
  <2>. QED
    BY <1>2, <2>1 DEF RefineInv, UndoInv, Anchored
<1>4. View(Image) = View(begun)
  BY <1>3, UndoFacts, AgreesView DEF RefineInv, UndoInv, AllSound, TypeInv, TypeOK
<1>. QED
  BY <1>1, <1>2, <1>4 DEF Atomic!Rollback

LEMMA EndFailedImplements ==
  ASSUME RefineInv, EndFailed
  PROVE  UNCHANGED Atomic!vars
<1>1. /\ View(seen)' = View(Image) /\ stmt'.auto = FALSE /\ pc = "undo" /\ Len(log) = stmt.mark
      /\ active' = (active /\ ~stmt.auto) /\ (~stmt.auto => begun' = begun)
  BY ReturnView DEF EndFailed
<1>2. Agrees(seen, Image)
  BY <1>1, UndoFacts DEF RefineInv, UndoInv, Anchored
<1>3. View(Image) = View(seen)
  BY <1>2, UndoFacts, AgreesView DEF RefineInv, UndoInv, AllSound, TypeInv, TypeOK
<1>4. UserTxn' = UserTxn /\ (UserTxn => begun' = begun)
  BY <1>1 DEF UserTxn
<1>. QED
  BY <1>1, <1>3, <1>4, Unseen

LEMMA StmtOkImplements ==
  ASSUME RefineInv, UndoInv', StmtOk
  PROVE  Atomic!Statement \/ UNCHANGED Atomic!vars
<1>1. pc = "row" /\ active' = active /\ begun' = begun /\ Done /\ UNCHANGED mem
  BY RefineStmtOk DEF StmtOk
<1>2. CASE stmt.auto
  <2>1. UNCHANGED <<stmt, seen>>
    BY <1>2 DEF StmtOk
  <2>. QED
    BY <1>1, <2>1, Unseen DEF UserTxn
<1>3. CASE ~stmt.auto
  <2>1. View(seen)' = View(Image) /\ stmt'.auto = FALSE
    BY <1>1, <1>3, ReturnView DEF StmtOk
  <2>2. UserTxn = TRUE /\ UserTxn' = TRUE
    BY <1>1, <1>3, <2>1 DEF RefineInv, UndoInv, Calm, UserTxn
  <2>3. Atomic!Statement
    BY <1>1, <2>1, <2>2, DoneIsAStep DEF Atomic!Statement
  <2>. QED
    BY <2>3
<1>. QED
  BY <1>2, <1>3

LEMMA CompactImplements ==
  ASSUME RefineInv, UndoInv', NEW t \in Table, Compact(t)
  PROVE  UNCHANGED Atomic!vars
<1>1. /\ pc = "idle" /\ ~active /\ active' = active /\ stmt' = stmt /\ seen' = Image'
      /\ Renumbered(t)
  BY DEF Compact
<1>2. View(Image') = View(Image) /\ seen = Image
  BY <1>1, CompactUnseen, AtRest DEF RefineInv, UndoInv
<1>3. View(seen)' = View(seen) /\ UserTxn = FALSE /\ UserTxn' = FALSE
  BY <1>1, <1>2 DEF UserTxn
<1>. QED
  BY <1>3, Unseen

\* The other steps leave what the user sees as it was.
LEMMA WithinImplements ==
  ASSUME RefineInv, UndoInv',
         \/ Commit \/ Rollback \/ UndoOne \/ StartAny \/ InsertReject \/ AssignNoLog
         \/ CheckUpdated \/ UNCHANGED vars
         \/ \E x \in Tuple : InsertRow(x)
         \/ \E r \in Row : SkipRow(r) \/ DeleteRow(r) \/ UpdateRow(r)
         \/ \E v \in Cell : AssignCell(v)
  PROVE  UNCHANGED Atomic!vars
<1>1. TypeOK
  BY UndoFacts DEF RefineInv
<1>2. seen' = seen /\ UserTxn' = UserTxn /\ (UserTxn => begun' = begun)
  <2>1. CASE StartAny
    <3>1. PICK k \in {"insert", "delete", "update"}, t \in Table :
            \E set \in Assignments \cup {<<>>} : Start(k, t, set)
      BY <2>1 DEF StartAny
    <3>2. /\ pc = "idle" /\ seen' = seen /\ active' /\ stmt'.auto = ~active
          /\ active => begun' = begun
      BY <3>1 DEF Start, StartAt
    <3>3. (UserTxn <=> active) /\ active \in BOOLEAN
      BY <1>1, <3>2, AtRest DEF TypeOK
    <3>. QED
      BY <3>2, <3>3 DEF UserTxn
  <2>2. CASE ~StartAny
    <3>1. UNCHANGED <<seen, begun, active>>
      BY <2>2 DEF Commit, Rollback, UndoOne, InsertReject, AssignNoLog, CheckUpdated, vars,
         InsertRow, SkipRow, DeleteRow, UpdateRow, AssignCell, Fail
    <3>2. \/ stmt' = stmt
          \/ \E r \in Nat : \/ stmt' = [stmt EXCEPT !.cur = r]
                            \/ stmt' = [stmt EXCEPT !.cur = r, !.pos = 1]
                            \/ stmt' = [stmt EXCEPT !.pos = r]
      <4>1. stmt.cur + 1 \in Nat /\ stmt.pos + 1 \in Nat /\ Row \subseteq Nat
        BY <1>1, StmtType, BoundAssumption DEF Row
      <4>. QED
        BY <2>2, <4>1 DEF Commit, Rollback, UndoOne, InsertReject, AssignNoLog, CheckUpdated,
           vars, InsertRow, SkipRow, DeleteRow, UpdateRow, AssignCell, Fail
    <3>3. stmt'.auto = stmt.auto
      BY <1>1, <3>2 DEF TypeOK, Stmts
    <3>. QED
      BY <3>1, <3>3 DEF UserTxn
  <2>. QED
    BY <2>1, <2>2
<1>. QED
  BY <1>2, Unseen

\* The implicit transaction of a statement is over when the statement is.
Closes == stmt.auto /\ pc # "idle" /\ pc' = "idle" => ~active'

LEMMA NextImplements ==
  ASSUME "heap" \notin Faults
  PROVE  RefineInv /\ [Next]_vars /\ [Closes]_vars => [AtomicNext]_(Atomic!vars)
<1>. SUFFICES ASSUME RefineInv, [Next]_vars, [Closes]_vars
              PROVE  AtomicNext \/ UNCHANGED Atomic!vars
  OBVIOUS
<1>1. UndoInv'
  BY NextUndo DEF RefineInv
<1>2. CASE CommitFail
  <2>1. stmt.auto => ~active'
    <3>1. pc = "commit" /\ pc' = "idle"
      BY <1>2 DEF CommitFail, Return
    <3>. QED
      BY <3>1 DEF Closes, vars
  <2>. QED
    BY <1>2, <2>1, CommitFailImplements
<1>3. CASE InsertOom \/ InsertLatched \/ AssignOom
  BY <1>3, NoOom DEF RefineInv
<1>. QED
  BY <1>1, <1>2, <1>3, BeginImplements, CommitImplements, EndRollbackImplements,
     EndFailedImplements, StmtOkImplements, CompactImplements, WithinImplements
  DEF Next, AtomicNext

LEMMA RefineInvariant == ASSUME "heap" \notin Faults PROVE Spec => []RefineInv
<1>1. RefineInv /\ [Next]_vars => RefineInv'
  BY NextRefine
<1>. QED
  BY <1>1, InitRefine, PTL DEF Spec

\* The engine is the atomic database wherever the implicit transaction of an
\* autocommitted statement ends with it.  Its COMMIT failing is all that can
\* keep it open; a COMMIT of the user's that fails is harmless.
THEOREM ClosedEngineIsAtomic ==
  ASSUME "heap" \notin Faults
  PROVE  Spec /\ AutocommitCloses => ImplementsAtomic
<1>1. RefineInv /\ [Next]_vars /\ [Closes]_vars => [AtomicNext]_(Atomic!vars)
  BY NextImplements
<1>2. AutocommitCloses <=> [][Closes]_vars
  BY DEF AutocommitCloses, Closes
<1>3. ImplementsAtomic <=> Atomic!Init /\ [][AtomicNext]_(Atomic!vars)
  BY DEF ImplementsAtomic, Atomic!Spec, AtomicNext
<1>. QED
  BY <1>1, <1>2, <1>3, InitImplements, RefineInvariant, PTL DEF Spec

\* Without failing commits, the engine is the atomic database.
THEOREM EngineIsAtomic ==
  ASSUME "heap" \notin Faults, "commit" \notin Faults
  PROVE  Spec => ImplementsAtomic
<1>1. RefineInv /\ [Next]_vars => [Closes]_vars
  <2>. SUFFICES ASSUME RefineInv, Next, stmt.auto, pc # "idle", pc' = "idle"
                PROVE  ~active'
    BY DEF Closes, vars
  <2>. QED
    BY DEF Next, Begin, Commit, CommitOk, CommitFail, Rollback, UndoOne, EndRollback, EndFailed,
       StartAny, Start, StartAt, InsertReject, InsertOom, InsertLatched, InsertRow, SkipRow,
       DeleteRow, UpdateRow, AssignCell, AssignNoLog, AssignOom, Assigning, Running,
       CheckUpdated, StmtOk, Compact, Fail, Return
<1>2. AutocommitCloses <=> [][Closes]_vars
  BY DEF AutocommitCloses, Closes
<1>. QED
  BY <1>1, <1>2, ClosedEngineIsAtomic, RefineInvariant, PTL DEF Spec
=============================================================================
