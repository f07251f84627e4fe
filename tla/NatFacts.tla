------------------------------ MODULE NatFacts ------------------------------
(***************************************************************************)
(* Facts about the natural numbers the proofs share.  Induction is stated  *)
(* over a set, not a predicate: a set of numbers that holds 0 and, with    *)
(* every number, the next one holds them all.  What a loop of the code     *)
(* computes, modelled by a recursive function, is proved with it.          *)
(***************************************************************************)
EXTENDS Integers, Sequences, FiniteSetsExt, WellFoundedInduction, TLAPS

\* A set of naturals has a least element.
LEMMA LeastNat ==
  ASSUME NEW S, S \subseteq Nat, S # {}
  PROVE  \E n \in S : \A m \in S : n <= m
<1>. DEFINE R == {ss \in Nat \X Nat : ss[1] < ss[2]}
<1>1. IsWellFoundedOn(R, Nat)
  BY NatLessThanWellFounded DEF OpToRel
<1>. HIDE DEF R
<1>2. PICK n \in S : \A m \in S : <<m, n>> \notin R
  BY <1>1, WFMin, Zenon
<1>3. \A m \in S : ~(m < n)
  BY <1>2 DEF R
<1>. QED
  BY <1>3

\* Induction.
LEMMA Induction ==
  ASSUME NEW T, 0 \in T, \A n \in Nat : n \in T => n + 1 \in T
  PROVE  Nat \subseteq T
<1>. SUFFICES ASSUME Nat \ T # {}
              PROVE  FALSE
  OBVIOUS
<1>1. PICK n \in Nat \ T : \A m \in Nat \ T : n <= m
  BY LeastNat
<1>2. n # 0 /\ n - 1 \in Nat
  BY <1>1
<1>3. n - 1 \in T
  BY <1>1, <1>2
<1>. QED
  BY <1>1, <1>2, <1>3

\* Max of a set of naturals with an upper bound is its greatest element.
LEMMA MaxNat ==
  ASSUME NEW S, NEW b \in Nat, S \subseteq 0..b, S # {}
  PROVE  Max(S) \in S /\ \A m \in S : m <= Max(S)
<1>. DEFINE D == {b - m : m \in S}
<1>1. \A m \in S : b - m \in Nat
  OBVIOUS
<1>2. PICK d \in D : \A e \in D : d <= e
  <2>1. D \subseteq Nat /\ D # {}
    BY <1>1, Zenon
  <2>. HIDE DEF D
  <2>. QED
    BY <2>1, LeastNat
<1>3. PICK n \in S : d = b - n
  BY <1>2
<1>4. \A m \in S : n >= m
  BY <1>2, <1>3
<1>. QED
  BY <1>3, <1>4 DEF Max

\* There is at most one such element.
LEMMA MaxIs ==
  ASSUME NEW S, NEW n \in S, S \subseteq Nat, \A m \in S : m <= n
  PROVE  Max(S) = n
<1>1. S \subseteq 0..n /\ S # {} /\ n \in Nat
  OBVIOUS
<1>2. Max(S) \in S /\ n <= Max(S)
  BY <1>1, MaxNat
<1>3. Max(S) \in Nat /\ Max(S) <= n
  BY <1>2
<1>. QED
  BY <1>1, <1>2, <1>3

\* A sequence with one more element.
LEMMA AppendIs ==
  ASSUME NEW X, NEW s \in Seq(X), NEW e \in X
  PROVE  /\ Append(s, e) \in Seq(X) /\ Len(Append(s, e)) = Len(s) + 1
         /\ Append(s, e)[Len(s) + 1] = e
         /\ \A i \in 1..Len(s) : Append(s, e)[i] = s[i]
OBVIOUS

\* What the rounds of a loop do to its state, which is one of X.
RoundsOf(X) == [Nat -> [X -> X]]

\* f[n] is the state after n rounds of G, from a.
IsLoop(f, X, a, G) ==
  f \in [Nat -> X] /\ f[0] = a /\ \A n \in Nat : f[n + 1] = G[n + 1][f[n]]

\* Such a function exists.
LEMMA Rounds ==
  ASSUME NEW X, NEW a \in X, NEW G \in RoundsOf(X)
  PROVE  \E f : IsLoop(f, X, a, G)
<1>. USE DEF RoundsOf
<1>. DEFINE OK(n, g) == /\ g \in [0..n -> X] /\ g[0] = a
                        /\ \A k \in 0..(n - 1) : g[k + 1] = G[k + 1][g[k]]
            T == {n \in Nat : \E g \in [0..n -> X] : OK(n, g)}
<1>1. 0 \in T
  <2>1. OK(0, [k \in 0..0 |-> a])
    OBVIOUS
  <2>. QED
    BY <2>1
<1>2. ASSUME NEW n \in Nat, n \in T
      PROVE  n + 1 \in T
  <2>1. PICK g \in [0..n -> X] : OK(n, g)
    BY <1>2
  <2>. DEFINE h == [k \in 0..(n + 1) |-> IF k <= n THEN g[k] ELSE G[n + 1][g[n]]]
  <2>2. h \in [0..(n + 1) -> X] /\ OK(n + 1, h)
    BY <2>1
  <2>. HIDE DEF OK, h
  <2>. QED
    BY <2>2
<1>3. Nat \subseteq T
  <2>. HIDE DEF T
  <2>. QED
    BY <1>1, <1>2, Induction
<1>4. ASSUME NEW m \in Nat, NEW n \in Nat, m <= n,
             NEW g \in [0..m -> X], OK(m, g), NEW h \in [0..n -> X], OK(n, h)
      PROVE  g[m] = h[m]
  <2>. DEFINE S == {k \in Nat : k <= m => g[k] = h[k]}
  <2>1. 0 \in S
    BY <1>4
  <2>2. ASSUME NEW k \in Nat, k \in S
        PROVE  k + 1 \in S
    BY <1>4, <2>2
  <2>. HIDE DEF S
  <2>3. m \in S
    BY <2>1, <2>2, Induction
  <2>. QED
    BY <2>3 DEF S
<1>. DEFINE w == [n \in Nat |-> CHOOSE g \in [0..n -> X] : OK(n, g)]
            f == [n \in Nat |-> w[n][n]]
<1>5. \A n \in Nat : w[n] \in [0..n -> X] /\ OK(n, w[n])
  BY <1>3
<1>. HIDE DEF w
<1>6. f \in [Nat -> X] /\ f[0] = a
  <2>1. \A n \in Nat : w[n][n] \in X /\ w[n][0] = a
    BY <1>5
  <2>. QED
    BY <2>1
<1>7. ASSUME NEW n \in Nat
      PROVE  f[n + 1] = G[n + 1][f[n]]
  <2>1. w[n + 1][n + 1] = G[n + 1][w[n + 1][n]]
    <3>1. OK(n + 1, w[n + 1])
      BY <1>5
    <3>2. n \in 0..((n + 1) - 1)
      OBVIOUS
    <3>. QED
      BY <3>1, <3>2
  <2>2. w[n][n] = w[n + 1][n]
    <3>1. n + 1 \in Nat /\ n <= n + 1
      OBVIOUS
    <3>. HIDE DEF OK
    <3>. QED
      BY <1>4, <1>5, <3>1
  <2>. QED
    BY <2>1, <2>2
<1>. QED
  BY <1>6, <1>7 DEF IsLoop

\* The same for a loop of N rounds.
ToRounds(X, N) == [1..N -> [X -> X]]

IsLoopTo(f, X, N, a, G) ==
  f \in [0..N -> X] /\ f[0] = a /\ \A n \in 1..N : f[n] = G[n][f[n - 1]]

LEMMA RoundsTo ==
  ASSUME NEW X, NEW a \in X, NEW N \in Nat, NEW G \in ToRounds(X, N)
  PROVE  \E f : IsLoopTo(f, X, N, a, G)
<1>. USE DEF ToRounds
<1>. DEFINE H == [n \in Nat |-> IF n \in 1..N THEN G[n] ELSE [x \in X |-> x]]
<1>1. H \in RoundsOf(X)
  BY DEF RoundsOf
<1>2. PICK h : IsLoop(h, X, a, H)
  <2>. HIDE DEF H
  <2>. QED
    BY <1>1, Rounds
<1>. DEFINE f == [n \in 0..N |-> h[n]]
<1>3. f \in [0..N -> X] /\ f[0] = a
  BY <1>2 DEF IsLoop
<1>4. ASSUME NEW n \in 1..N
      PROVE  f[n] = G[n][f[n - 1]]
  <2>1. n - 1 \in Nat /\ (n - 1) + 1 = n /\ n - 1 \in 0..N /\ n \in 0..N /\ n \in Nat
    OBVIOUS
  <2>2. h[n] = H[n][h[n - 1]]
    <3>. HIDE DEF H
    <3>. QED
      BY <1>2, <2>1 DEF IsLoop
  <2>3. H[n] = G[n]
    BY <2>1
  <2>. QED
    BY <2>1, <2>2, <2>3
<1>. QED
  BY <1>3, <1>4 DEF IsLoopTo

\* Two loops that do the same in each round.
InStep(f, g, N) == f[0] = g[0] /\ \A n \in 1..N : f[n - 1] = g[n - 1] => f[n] = g[n]

LEMMA SameLoop ==
  ASSUME NEW N \in Nat, NEW f, NEW g, InStep(f, g, N)
  PROVE  \A n \in 0..N : f[n] = g[n]
<1>. USE DEF InStep
<1>. DEFINE T == {n \in Nat : n <= N => f[n] = g[n]}
<1>1. 0 \in T
  OBVIOUS
<1>2. ASSUME NEW n \in Nat, n \in T
      PROVE  n + 1 \in T
  <2>1. CASE n + 1 <= N
    <3>1. n + 1 \in 1..N /\ (n + 1) - 1 = n /\ f[n] = g[n]
      BY <1>2, <2>1
    <3>. QED
      BY <3>1
  <2>2. CASE ~(n + 1 <= N)
    BY <2>2
  <2>. QED
    BY <2>1, <2>2
<1>. HIDE DEF T
<1>3. Nat \subseteq T
  BY <1>1, <1>2, Induction
<1>. QED
  BY <1>3 DEF T

\* A loop that keeps its state in X.
LEMMA LoopIn ==
  ASSUME NEW X, NEW N \in Nat, NEW g, g[0] \in X, \A n \in 1..N : g[n - 1] \in X => g[n] \in X
  PROVE  \A n \in 0..N : g[n] \in X
<1>. DEFINE T == {n \in Nat : n <= N => g[n] \in X}
<1>1. 0 \in T
  OBVIOUS
<1>2. ASSUME NEW n \in Nat, n \in T
      PROVE  n + 1 \in T
  <2>1. CASE n + 1 <= N
    <3>1. n + 1 \in 1..N /\ (n + 1) - 1 = n /\ g[n] \in X
      BY <1>2, <2>1
    <3>. QED
      BY <3>1
  <2>2. CASE ~(n + 1 <= N)
    BY <2>2
  <2>. QED
    BY <2>1, <2>2
<1>. HIDE DEF T
<1>3. Nat \subseteq T
  BY <1>1, <1>2, Induction
<1>. QED
  BY <1>3 DEF T
=============================================================================
