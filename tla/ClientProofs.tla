---------------------------- MODULE ClientProofs ----------------------------
(***************************************************************************)
(* Theorems about Client, for any handles, sizes, limit and failing calls  *)
(* of malloc.                                                              *)
(***************************************************************************)
EXTENDS Client, NatFacts, FiniteSetTheorems, SequenceTheorems

-----------------------------------------------------------------------------
(* Sums over a finite set.                                                 *)

\* Induction over the subsets of a finite set.
LEMMA SubsetInduction ==
  ASSUME NEW S, IsFiniteSet(S), NEW T, {} \in T,
         \A s \in SUBSET S : s # {} /\ (\A x \in s : s \ {x} \in T) => s \in T
  PROVE  \A s \in SUBSET S : s \in T
<1>. DEFINE U == {n \in Nat : \A s \in SUBSET S : Cardinality(s) = n => s \in T}
<1>1. \A s \in SUBSET S : IsFiniteSet(s) /\ Cardinality(s) \in Nat
  BY FS_Subset, FS_CardinalityType
<1>2. 0 \in U
  BY <1>1, FS_EmptySet
<1>3. ASSUME NEW n \in Nat, n \in U
      PROVE  n + 1 \in U
  <2>1. ASSUME NEW s \in SUBSET S, Cardinality(s) = n + 1
        PROVE  s \in T
    <3>1. s # {}
      <4>1. n + 1 # 0
        OBVIOUS
      <4>. QED
        BY <2>1, <4>1, FS_EmptySet, Zenon
    <3>2. \A x \in s : s \ {x} \in SUBSET S /\ Cardinality(s \ {x}) = n
      BY <1>1, <2>1, FS_RemoveElement
    <3>. QED
      BY <1>3, <3>1, <3>2
  <2>. QED
    BY <2>1
<1>. HIDE DEF U
<1>4. Nat \subseteq U
  BY <1>2, <1>3, Induction
<1>. QED
  BY <1>1, <1>4 DEF U

Chosen(s) == CHOOSE x \in s : TRUE

\* g[s] is the sum of f over s.
Sums(g, S, f) ==
  g = [s \in SUBSET S |-> IF s = {} THEN 0 ELSE f[Chosen(s)] + g[s \ {Chosen(s)}]]

SumsUp(g, S, f) ==
  /\ g[{}] = 0
  /\ \A s \in SUBSET S : s # {} =>
       /\ Chosen(s) \in s /\ s \ {Chosen(s)} \in SUBSET S
       /\ g[s] = f[Chosen(s)] + g[s \ {Chosen(s)}]

LEMMA SumsAre ==
  ASSUME NEW S, NEW f, NEW g, Sums(g, S, f)
  PROVE  SumsUp(g, S, f)
<1>2. \A s \in SUBSET S : s # {} => Chosen(s) \in s
  BY DEF Chosen
<1>3. \A s \in SUBSET S : g[s] = IF s = {} THEN 0 ELSE f[Chosen(s)] + g[s \ {Chosen(s)}]
  BY Zenon DEF Sums
<1>. QED
  BY <1>2, <1>3 DEF SumsUp

LEMMA SumsExist ==
  ASSUME NEW S, IsFiniteSet(S), NEW f \in [S -> Nat]
  PROVE  \E g : Sums(g, S, f)
<1>. DEFINE X == [SUBSET S -> Nat]
            a == [s \in SUBSET S |-> 0]
            G == [n \in Nat |-> [g \in X |->
                   [s \in SUBSET S |-> IF s = {} THEN 0 ELSE f[Chosen(s)] + g[s \ {Chosen(s)}]]]]
<1>1. \A s \in SUBSET S : s # {} => Chosen(s) \in s
  BY DEF Chosen
<1>2. G \in RoundsOf(X) /\ a \in X
  BY <1>1 DEF RoundsOf
<1>3. PICK loop : IsLoop(loop, X, a, G)
  <2>. HIDE DEF X, G, a
  <2>. QED
    BY <1>2, Rounds
<1>4. \A s \in SUBSET S : IsFiniteSet(s) /\ Cardinality(s) \in Nat
  BY FS_Subset, FS_CardinalityType
<1>. DEFINE g == [s \in SUBSET S |-> loop[Cardinality(s)][s]]
<1>5. ASSUME NEW s \in SUBSET S
      PROVE  g[s] = IF s = {} THEN 0 ELSE f[Chosen(s)] + g[s \ {Chosen(s)}]
  <2>1. CASE s = {}
    BY <1>3, <2>1, FS_EmptySet DEF IsLoop
  <2>2. CASE s # {}
    <3>. DEFINE r == s \ {Chosen(s)}
                k == Cardinality(r)
    <3>1. k \in Nat /\ Cardinality(s) = k + 1 /\ r \in SUBSET S
      BY <1>1, <1>4, <2>2, FS_RemoveElement
    <3>. HIDE DEF r, k
    <3>2. loop[k + 1] = G[k + 1][loop[k]] /\ loop[k] \in X /\ k + 1 \in Nat
      <4>. HIDE DEF X, G
      <4>. QED
        BY <1>3, <3>1 DEF IsLoop
    <3>3. loop[k + 1][s] = f[Chosen(s)] + loop[k][r]
      BY <2>2, <3>2 DEF r
    <3>4. g[s] = loop[k + 1][s] /\ g[r] = loop[k][r]
      BY <3>1 DEF k
    <3>. QED
      BY <2>2, <3>3, <3>4 DEF r
  <2>. QED
    BY <2>1, <2>2
<1>6. Sums(g, S, f)
  <2>. HIDE DEF G, X, a
  <2>. QED
    BY <1>5, Zenon DEF Sums
<1>. QED
  BY <1>6

LEMMA SumsType ==
  ASSUME NEW S, IsFiniteSet(S), NEW f \in [S -> Nat], NEW g, Sums(g, S, f)
  PROVE  \A s \in SUBSET S : g[s] \in Nat
<1>. DEFINE T == {s \in SUBSET S : g[s] \in Nat}
<1>0. SumsUp(g, S, f)
  BY SumsAre
<1>1. {} \in T
  BY <1>0 DEF SumsUp
<1>2. ASSUME NEW s \in SUBSET S, s # {}, \A x \in s : s \ {x} \in T
      PROVE  s \in T
  <2>1. Chosen(s) \in s /\ g[s] = f[Chosen(s)] + g[s \ {Chosen(s)}]
    BY <1>0, <1>2 DEF SumsUp
  <2>2. g[s \ {Chosen(s)}] \in Nat /\ f[Chosen(s)] \in Nat
    BY <1>2, <2>1
  <2>. QED
    BY <2>1, <2>2
<1>. HIDE DEF T
<1>3. \A s \in SUBSET S : s \in T
  BY <1>1, <1>2, SubsetInduction
<1>. QED
  BY <1>3 DEF T

\* Where f2 differs from f in one place, so do the sums.
LEMMA SumsDiffer ==
  ASSUME NEW S, IsFiniteSet(S), NEW f \in [S -> Nat], NEW f2 \in [S -> Nat], NEW a \in S,
         \A b \in S : b # a => f2[b] = f[b],
         NEW g, Sums(g, S, f), NEW g2, Sums(g2, S, f2)
  PROVE  g2[S] + f[a] = g[S] + f2[a]
<1>0. \A s \in SUBSET S : g[s] \in Nat /\ g2[s] \in Nat
  BY SumsType
<1>. DEFINE T == {s \in SUBSET S : g2[s] + (IF a \in s THEN f[a] ELSE 0)
                                     = g[s] + (IF a \in s THEN f2[a] ELSE 0)}
<1>00. SumsUp(g, S, f)
  BY SumsAre
<1>01. SumsUp(g2, S, f2)
  BY SumsAre
<1>1. {} \in T
  BY <1>00, <1>01 DEF SumsUp
<1>2. ASSUME NEW s \in SUBSET S, s # {}, \A x \in s : s \ {x} \in T
      PROVE  s \in T
  <2>. DEFINE x == Chosen(s)
              r == s \ {x}
  <2>1. /\ x \in s /\ r \in T /\ r \in SUBSET S
        /\ g[s] = f[x] + g[r] /\ g2[s] = f2[x] + g2[r]
    BY <1>2, <1>00, <1>01 DEF SumsUp
  <2>. DEFINE p == g[r]
              q == g2[r]
  <2>2. p \in Nat /\ q \in Nat /\ f[x] \in Nat /\ f2[x] \in Nat /\ f[a] \in Nat /\ f2[a] \in Nat
    BY <1>0, <2>1
  <2>3. q + (IF a \in r THEN f[a] ELSE 0) = p + (IF a \in r THEN f2[a] ELSE 0)
    BY <2>1
  <2>4. a \in r <=> a \in s /\ a # x
    OBVIOUS
  <2>. HIDE DEF x, r, p, q
  <2>5. g[s] = f[x] + p /\ g2[s] = f2[x] + q
    BY <2>1 DEF p, q
  <2>6. CASE x = a
    BY <2>1, <2>2, <2>3, <2>4, <2>5, <2>6
  <2>7. CASE x # a
    BY <2>1, <2>2, <2>3, <2>4, <2>5, <2>7
  <2>. QED
    BY <2>6, <2>7
<1>. HIDE DEF T
<1>3. \A s \in SUBSET S : s \in T
  BY <1>1, <1>2, SubsetInduction
<1>. QED
  BY <1>3 DEF T

LEMMA SumsOfNothing ==
  ASSUME NEW S, IsFiniteSet(S), NEW f \in [S -> Nat], \A a \in S : f[a] = 0, NEW g, Sums(g, S, f)
  PROVE  g[S] = 0
<1>. DEFINE T == {s \in SUBSET S : g[s] = 0}
<1>0. SumsUp(g, S, f)
  BY SumsAre
<1>1. {} \in T
  BY <1>0 DEF SumsUp
<1>2. ASSUME NEW s \in SUBSET S, s # {}, \A x \in s : s \ {x} \in T
      PROVE  s \in T
  <2>1. Chosen(s) \in s /\ g[s] = f[Chosen(s)] + g[s \ {Chosen(s)}]
    BY <1>0, <1>2 DEF SumsUp
  <2>2. g[s \ {Chosen(s)}] = 0 /\ f[Chosen(s)] = 0
    BY <1>2, <2>1
  <2>. QED
    BY <2>1, <2>2
<1>. HIDE DEF T
<1>3. \A s \in SUBSET S : s \in T
  BY <1>1, <1>2, SubsetInduction
<1>. QED
  BY <1>3 DEF T

-----------------------------------------------------------------------------
(* What the arenas charged.                                                *)

ArenaType == [cap : Nat, fill : Nat, size : Nat \ {0}, allocd : Nat, failed : BOOLEAN]
MemType   == [used : Nat, arena : [Arenas -> ArenaType]]

Allocd(mem) == [a \in Arenas |-> mem.arena[a].allocd]

LEMMA ArenasFinite == IsFiniteSet(Arenas)
<1>1. IsFiniteSet({"rows", "heap", "schema", "csv", "new rows", "new heap"})
  <2>1. IsFiniteSet({"rows"}) /\ IsFiniteSet({"heap"}) /\ IsFiniteSet({"schema"})
        /\ IsFiniteSet({"csv"}) /\ IsFiniteSet({"new rows"}) /\ IsFiniteSet({"new heap"})
    BY FS_Singleton
  <2>2. IsFiniteSet({"rows"} \cup {"heap"}) /\ IsFiniteSet({"schema"} \cup {"csv"})
        /\ IsFiniteSet({"new rows"} \cup {"new heap"})
    BY <2>1, FS_Union
  <2>3. IsFiniteSet(({"rows"} \cup {"heap"}) \cup ({"schema"} \cup {"csv"}))
    BY <2>2, FS_Union
  <2>4. IsFiniteSet((({"rows"} \cup {"heap"}) \cup ({"schema"} \cup {"csv"})) \cup ({"new rows"} \cup {"new heap"}))
    BY <2>2, <2>3, FS_Union
  <2>5. (({"rows"} \cup {"heap"}) \cup ({"schema"} \cup {"csv"})) \cup ({"new rows"} \cup {"new heap"})
        = {"rows", "heap", "schema", "csv", "new rows", "new heap"}
    OBVIOUS
  <2>. QED
    BY <2>4, <2>5
<1>. QED
  BY <1>1, HandleAssumption, FS_Union DEF Arenas, OwnArenas

LEMMA ChargedIs ==
  ASSUME NEW mem \in MemType
  PROVE  \E g : Sums(g, Arenas, Allocd(mem)) /\ Charged(mem) = g[Arenas]
<1>. DEFINE Iter(g) == g = [s \in SUBSET Arenas |->
                              IF s = {} THEN 0
                              ELSE mem.arena[CHOOSE x \in s : TRUE].allocd
                                     + g[s \ {CHOOSE x \in s : TRUE}]]
            c == CHOOSE g : Iter(g)
<1>1. Charged(mem) = c[Arenas]
  BY DEF Charged, MapThenSumSet, MapThenFoldSet
<1>2. \A g : Sums(g, Arenas, Allocd(mem)) <=> Iter(g)
  <2>. SUFFICES ASSUME NEW g
                PROVE  Sums(g, Arenas, Allocd(mem)) <=> Iter(g)
    OBVIOUS
  <2>1. \A s \in SUBSET Arenas : s # {} => Allocd(mem)[Chosen(s)] = mem.arena[Chosen(s)].allocd
    BY DEF Allocd, Chosen
  <2>2. [s \in SUBSET Arenas |-> IF s = {} THEN 0 ELSE Allocd(mem)[Chosen(s)] + g[s \ {Chosen(s)}]]
        = [s \in SUBSET Arenas |-> IF s = {} THEN 0 ELSE mem.arena[Chosen(s)].allocd + g[s \ {Chosen(s)}]]
    BY <2>1, Zenon
  <2>. QED
    BY <2>2, Zenon DEF Sums, Chosen
<1>3. Allocd(mem) \in [Arenas -> Nat]
  BY DEF Allocd, MemType, ArenaType
<1>4. Iter(c)
  <2>1. \E g : Sums(g, Arenas, Allocd(mem))
    BY <1>3, SumsExist, ArenasFinite, Zenon
  <2>. HIDE DEF Iter
  <2>2. \E g : Iter(g)
    BY <1>2, <2>1
  <2>. QED
    BY <2>2, Zenon
<1>. QED
  BY <1>1, <1>2, <1>4

LEMMA AllocdType ==
  ASSUME NEW mem \in MemType
  PROVE  /\ Allocd(mem) \in [Arenas -> Nat]
         /\ \A a \in Arenas : Allocd(mem)[a] = mem.arena[a].allocd
BY DEF Allocd, MemType, ArenaType

LEMMA ChargedType ==
  ASSUME NEW mem \in MemType
  PROVE  Charged(mem) \in Nat
<1>1. PICK g : Sums(g, Arenas, Allocd(mem)) /\ Charged(mem) = g[Arenas]
  BY ChargedIs
<1>2. \A s \in SUBSET Arenas : g[s] \in Nat
  BY <1>1, AllocdType, ArenasFinite, SumsType
<1>. QED
  BY <1>1, <1>2

\* One arena's charge changes, and the sum by as much.
LEMMA ChargedChange ==
  ASSUME NEW mem \in MemType, NEW mem2 \in MemType, NEW a \in Arenas,
         \A b \in Arenas : b # a => mem2.arena[b].allocd = mem.arena[b].allocd
  PROVE  Charged(mem2) + mem.arena[a].allocd = Charged(mem) + mem2.arena[a].allocd
<1>1. PICK g : Sums(g, Arenas, Allocd(mem)) /\ Charged(mem) = g[Arenas]
  BY ChargedIs
<1>2. PICK g2 : Sums(g2, Arenas, Allocd(mem2)) /\ Charged(mem2) = g2[Arenas]
  BY ChargedIs
<1>3. \A b \in Arenas : b # a => Allocd(mem2)[b] = Allocd(mem)[b]
  BY AllocdType
<1>4. g2[Arenas] + Allocd(mem)[a] = g[Arenas] + Allocd(mem2)[a]
  BY <1>1, <1>2, <1>3, AllocdType, ArenasFinite, SumsDiffer
<1>. QED
  BY <1>1, <1>2, <1>4, AllocdType

LEMMA ChargedNothing ==
  ASSUME NEW mem \in MemType, \A a \in Arenas : mem.arena[a].allocd = 0
  PROVE  Charged(mem) = 0
<1>1. PICK g : Sums(g, Arenas, Allocd(mem)) /\ Charged(mem) = g[Arenas]
  BY ChargedIs
<1>2. \A a \in Arenas : Allocd(mem)[a] = 0
  BY AllocdType
<1>3. g[Arenas] = 0
  BY <1>1, <1>2, AllocdType, ArenasFinite, SumsOfNothing
<1>. QED
  BY <1>1, <1>3

LEMMA NoArenaType == NoArena \in ArenaType /\ NoArena.allocd = 0
BY MemoryAssumption DEF NoArena, ArenaType

\* An arena charged no more than all of them.
LEMMA ChargedLeast ==
  ASSUME NEW mem \in MemType, NEW a \in Arenas
  PROVE  mem.arena[a].allocd <= Charged(mem)
<1>. DEFINE mem2 == [mem EXCEPT !.arena[a] = NoArena]
<1>1. mem2 \in MemType /\ mem2.arena[a].allocd = 0
  BY NoArenaType DEF MemType
<1>2. \A b \in Arenas : b # a => mem2.arena[b].allocd = mem.arena[b].allocd
  BY DEF MemType
<1>. HIDE DEF mem2
<1>3. Charged(mem2) + mem.arena[a].allocd = Charged(mem)
  BY <1>1, <1>2, ChargedChange, ChargedType
<1>4. mem.arena[a].allocd \in Nat
  BY DEF MemType, ArenaType
<1>. QED
  BY <1>1, <1>3, <1>4, ChargedType

-----------------------------------------------------------------------------
(* What a call does to the memory.  The books are right when the budget    *)
(* holds what the arenas charged, and x more.                              *)

Books(mem, x) ==
  mem \in MemType /\ mem.used = Charged(mem) + x /\ (Limit = 0 \/ mem.used <= Limit)

\* Nothing but arena a changed.
Others(mem, mem2, a) == \A b \in Arenas : b # a => mem2.arena[b] = mem.arena[b]

LEMMA BooksChange ==
  ASSUME NEW x \in Nat, NEW mem, Books(mem, x), NEW a \in Arenas, NEW mem2 \in MemType,
         Others(mem, mem2, a), Limit = 0 \/ mem2.used <= Limit,
         mem2.used + mem.arena[a].allocd = mem.used + mem2.arena[a].allocd
  PROVE  Books(mem2, x)
<1>1. mem \in MemType /\ mem.used = Charged(mem) + x
  BY DEF Books
<1>2. Charged(mem2) + mem.arena[a].allocd = Charged(mem) + mem2.arena[a].allocd
  BY <1>1, ChargedChange DEF Others
<1>3. /\ Charged(mem) \in Nat /\ Charged(mem2) \in Nat /\ mem2.used \in Nat /\ mem.used \in Nat
      /\ mem.arena[a].allocd \in Nat /\ mem2.arena[a].allocd \in Nat
  BY <1>1, ChargedType DEF MemType, ArenaType
<1>. QED
  BY <1>1, <1>2, <1>3 DEF Books

LEMMA LatchedBooks ==
  ASSUME NEW x \in Nat, NEW mem, Books(mem, x), NEW a \in Arenas
  PROVE  /\ Books(Latched(mem, a), x) /\ Others(mem, Latched(mem, a), a)
         /\ Latched(mem, a).arena[a].failed
         /\ Latched(mem, a).arena[a].allocd = mem.arena[a].allocd
<1>1. mem \in MemType
  BY DEF Books
<1>. DEFINE mem2 == Latched(mem, a)
<1>2. /\ mem2 \in MemType /\ Others(mem, mem2, a) /\ mem2.used = mem.used
      /\ mem2.arena[a].allocd = mem.arena[a].allocd /\ mem2.arena[a].failed
  BY <1>1 DEF MemType, ArenaType, Latched, Others
<1>. HIDE DEF mem2
<1>3. Books(mem2, x)
  BY <1>2, BooksChange DEF Books
<1>. QED
  BY <1>2, <1>3 DEF mem2

LEMMA GrownIs ==
  ASSUME NEW r \in ArenaType, NEW cap \in Nat
  PROVE  /\ Grown(r, cap) \in ArenaType /\ Grown(r, cap).allocd = r.allocd + (cap + Header)
         /\ Grown(r, cap).size = r.size /\ Grown(r, cap).failed = r.failed
         /\ Grown(r, cap).cap = cap /\ Grown(r, cap).fill = 0
<1>1. cap + Header \in Nat /\ r.allocd \in Nat /\ r.allocd + cap + Header = r.allocd + (cap + Header)
  BY MemoryAssumption DEF ArenaType
<1>. DEFINE n == r.allocd + cap + Header
<1>2. n \in Nat
  BY <1>1
<1>. HIDE DEF n
<1>3. Grown(r, cap) = [r EXCEPT !.cap = cap, !.fill = 0, !.allocd = n]
  BY DEF Grown, n
<1>. DEFINE g == [r EXCEPT !.cap = cap, !.fill = 0, !.allocd = n]
<1>4. g \in ArenaType
  BY <1>2 DEF ArenaType
<1>5. g.allocd = n /\ g.cap = cap /\ g.fill = 0
  BY DEF ArenaType
<1>6. g.size = r.size /\ g.failed = r.failed
  BY DEF ArenaType
<1>. HIDE DEF g
<1>7. Grown(r, cap) = g
  BY <1>3 DEF g
<1>8. g.allocd = r.allocd + (cap + Header)
  BY <1>1, <1>5 DEF n
<1>. QED
  BY <1>4, <1>5, <1>6, <1>7, <1>8

LEMMA NewBlockBooks ==
  ASSUME NEW x \in Nat, NEW mem, Books(mem, x), NEW a \in Arenas, NEW cap \in Nat, NEW malloc
  PROVE  /\ Books(new_block(mem, a, cap, malloc), x)
         /\ Others(mem, new_block(mem, a, cap, malloc), a)
         /\ new_block(mem, a, cap, malloc).arena[a].size = mem.arena[a].size
<1>. DEFINE n == cap + Header
            more == [mem EXCEPT !.used = @ + n]
            new == [more EXCEPT !.arena[a] = Grown(mem.arena[a], cap)]
<1>0. mem \in MemType /\ mem.used \in Nat /\ Header \in Nat /\ Limit \in Nat /\ n \in Nat
  BY MemoryAssumption DEF Books, MemType
<1>1. CASE budget_would_exceed(mem, n)
  <2>1. new_block(mem, a, cap, malloc) = Latched(mem, a)
    BY <1>1 DEF new_block
  <2>2. Latched(mem, a).arena[a].size = mem.arena[a].size
    BY <1>0 DEF Latched, MemType, ArenaType
  <2>. QED
    BY <2>1, <2>2, LatchedBooks
<1>2. CASE ~budget_would_exceed(mem, n) /\ ~malloc
  <2>1. budget_charge(mem, n) = more
    BY <1>2 DEF budget_charge
  <2>2. budget_uncharge(more, n) = mem
    <3>1. more.used = mem.used + n /\ more.arena = mem.arena /\ more \in MemType
      BY <1>0 DEF MemType
    <3>2. ~(n > mem.used + n) /\ mem.used + n - n = mem.used
      BY <1>0
    <3>. HIDE DEF n
    <3>3. [more EXCEPT !.used = mem.used] = mem
      BY <1>0 DEF MemType
    <3>. HIDE DEF more
    <3>4. (IF n > more.used THEN 0 ELSE more.used - n) = mem.used
      BY <1>0, <3>1, <3>2
    <3>. QED
      BY <3>3, <3>4 DEF budget_uncharge
  <2>3. new_block(mem, a, cap, malloc) = Latched(mem, a)
    BY <1>2, <2>1, <2>2 DEF new_block
  <2>4. Latched(mem, a).arena[a].size = mem.arena[a].size
    BY <1>0 DEF Latched, MemType, ArenaType
  <2>. QED
    BY <2>3, <2>4, LatchedBooks
<1>3. CASE ~budget_would_exceed(mem, n) /\ malloc
  <2>1. budget_charge(mem, n) = more
    BY <1>3 DEF budget_charge
  <2>2. new_block(mem, a, cap, malloc) = new
    BY <1>3, <2>1, Zenon DEF new_block
  <2>. DEFINE b == Grown(mem.arena[a], cap)
  <2>30. mem.arena[a] \in ArenaType
    BY <1>0 DEF MemType
  <2>31. b \in ArenaType /\ b.allocd = mem.arena[a].allocd + n /\ b.size = mem.arena[a].size
    BY <2>30, GrownIs
  <2>. HIDE DEF b
  <2>32. new = [more EXCEPT !.arena[a] = b]
    BY DEF b
  <2>33. more \in MemType /\ more.used = mem.used + n /\ more.arena = mem.arena
    <3>. HIDE DEF n
    <3>1. mem.used + n \in Nat
      BY <1>0
    <3>. QED
      BY <1>0, <3>1 DEF MemType
  <2>. HIDE DEF more
  <2>3. /\ new \in MemType /\ Others(mem, new, a) /\ new.used = mem.used + n
        /\ new.arena[a] = b
    <3>1. new \in MemType /\ new.used = more.used /\ new.arena[a] = b
      BY <2>31, <2>32, <2>33 DEF MemType
    <3>2. \A c \in Arenas : c # a => new.arena[c] = more.arena[c]
      BY <2>31, <2>32, <2>33 DEF MemType
    <3>. QED
      BY <2>33, <3>1, <3>2 DEF Others
  <2>4. Limit = 0 \/ mem.used + n <= Limit
    BY <1>0, <1>3 DEF budget_would_exceed, Books
  <2>5. mem.arena[a].allocd \in Nat
    BY <2>30 DEF ArenaType
  <2>. HIDE DEF new, n
  <2>6. Books(new, x)
    BY <1>0, <2>31, <2>3, <2>4, <2>5, BooksChange
  <2>. QED
    BY <2>2, <2>31, <2>3, <2>6
<1>. QED
  BY <1>1, <1>2, <1>3

\* The blocks double, and so the loop that looks for one large enough ends.
LEMMA BlockCapacity ==
  ASSUME NEW size \in Nat \ {0}, NEW n \in Nat
  PROVE  next_block_capacity(size, n) \in Nat \ {0}
<1>. DEFINE N == n * HogFactor
            X == Nat \ {0}
            Loop(f) == f = [k \in 0..N |-> IF k = 0 THEN size ELSE 2 * f[k - 1]]
            G == [k \in 1..N |-> [y \in X |-> 2 * y]]
            cap == CHOOSE f : Loop(f)
            S == {k \in 0..N : cap[k] >= N}
<1>1. N \in Nat
  BY MemoryAssumption
<1>. HIDE DEF N
<1>20. PICK f : IsLoopTo(f, X, N, size, G)
  <2>1. G \in ToRounds(X, N) /\ size \in X
    BY DEF ToRounds
  <2>. HIDE DEF G, X
  <2>. QED
    BY <1>1, <2>1, RoundsTo
<1>2. f \in [0..N -> X] /\ f[0] = size /\ \A k \in 1..N : f[k] = G[k][f[k - 1]]
  <2>. HIDE DEF G, X
  <2>. QED
    BY <1>20 DEF IsLoopTo
<1>3. \A k \in 1..N : f[k] = 2 * f[k - 1] /\ f[k - 1] \in X /\ k - 1 \in 0..N
  <2>1. \A k \in 1..N : k - 1 \in 0..N /\ k \in 0..N
    BY <1>1
  <2>2. \A k \in 1..N : f[k - 1] \in X
    BY <1>2, <2>1
  <2>3. \A k \in 1..N : f[k] = G[k][f[k - 1]]
    BY <1>2
  <2>. HIDE DEF X
  <2>4. \A k \in 1..N : G[k][f[k - 1]] = 2 * f[k - 1]
    BY <2>2
  <2>. QED
    BY <2>1, <2>2, <2>3, <2>4
<1>4. Loop(f)
  <2>1. \A k \in 0..N : f[k] = IF k = 0 THEN size ELSE 2 * f[k - 1]
    BY <1>1, <1>2, <1>3
  <2>. QED
    BY <1>2, <2>1
<1>5. Loop(cap)
  BY <1>4, Zenon
<1>6. \A k \in 0..N : cap[k] = f[k]
  <2>1. \A k \in 0..N : cap[k] = IF k = 0 THEN size ELSE 2 * cap[k - 1]
    BY <1>5, Zenon
  <2>. HIDE DEF cap
  <2>2. cap[0] = f[0]
    BY <1>1, <1>2, <2>1
  <2>3. \A k \in 1..N : k \in 0..N /\ k # 0
    BY <1>1
  <2>4. \A k \in 1..N : cap[k - 1] = f[k - 1] => cap[k] = f[k]
    BY <1>3, <2>1, <2>3
  <2>5. InStep(cap, f, N)
    BY <2>2, <2>4 DEF InStep
  <2>. QED
    BY <1>1, <2>5, SameLoop
<1>7. \A k \in Nat : k <= N => f[k] >= k + 1
  <2>. DEFINE T == {k \in Nat : k <= N => f[k] >= k + 1}
  <2>1. 0 \in T
    BY <1>2
  <2>2. ASSUME NEW k \in Nat, k \in T
        PROVE  k + 1 \in T
    <3>1. CASE k + 1 <= N
      <4>1. k + 1 \in 1..N /\ (k + 1) - 1 = k
        BY <1>1, <3>1
      <4>2. f[k + 1] = 2 * f[k] /\ f[k] \in X
        BY <1>3, <4>1
      <4>3. f[k] >= k + 1
        BY <1>1, <2>2, <3>1
      <4>. QED
        BY <4>2, <4>3
    <3>2. CASE ~(k + 1 <= N)
      BY <3>2
    <3>. QED
      BY <3>1, <3>2
  <2>. HIDE DEF T
  <2>3. Nat \subseteq T
    BY <2>1, <2>2, Induction
  <2>. QED
    BY <2>3 DEF T
<1>. HIDE DEF cap
<1>8. N \in S
  BY <1>1, <1>2, <1>6, <1>7
<1>9. Min(S) \in S
  <2>1. S \subseteq Nat /\ S # {}
    BY <1>1, <1>8
  <2>. HIDE DEF S
  <2>2. \E k \in S : \A j \in S : k <= j
    BY <2>1, LeastNat
  <2>. QED
    BY <2>2 DEF Min
<1>10. next_block_capacity(size, n) = cap[Min(S)]
  BY DEF next_block_capacity, cap, N
<1>. QED
  BY <1>2, <1>6, <1>9, <1>10

LEMMA ArenaInit ==
  ASSUME NEW x \in Nat, NEW mem, Books(mem, x), NEW a \in Arenas, mem.arena[a].allocd = 0, NEW malloc
  PROVE  /\ Books(arena_init(mem, a, malloc), x)
         /\ Others(mem, arena_init(mem, a, malloc), a)
<1>. DEFINE bare == [mem EXCEPT !.arena[a] = NoArena]
<1>0. mem \in MemType /\ BlockSize \in Nat
  BY MemoryAssumption DEF Books
<1>1. /\ bare \in MemType /\ Others(mem, bare, a) /\ bare.used = mem.used
      /\ bare.arena[a].allocd = 0
  BY <1>0, NoArenaType DEF MemType, Others
<1>2. arena_init(mem, a, malloc) = new_block(bare, a, BlockSize, malloc)
  BY DEF arena_init
<1>. HIDE DEF bare
<1>3. Books(bare, x)
  BY <1>0, <1>1, BooksChange DEF Books
<1>4. Books(new_block(bare, a, BlockSize, malloc), x) /\ Others(bare, new_block(bare, a, BlockSize, malloc), a)
  BY <1>0, <1>3, NewBlockBooks
<1>. QED
  BY <1>1, <1>2, <1>4 DEF Others

LEMMA ArenaTerm ==
  ASSUME NEW x \in Nat, NEW mem, Books(mem, x), NEW a \in Arenas
  PROVE  /\ Books(arena_term(mem, a), x)
         /\ Others(mem, arena_term(mem, a), a)
         /\ arena_term(mem, a).arena[a] = NoArena
<1>. DEFINE n == mem.arena[a].allocd
            left == budget_uncharge(mem, n)
            mem2 == arena_term(mem, a)
<1>0. mem \in MemType /\ mem.used = Charged(mem) + x /\ mem.used \in Nat /\ Limit \in Nat
  BY MemoryAssumption DEF Books, MemType
<1>1. n \in Nat /\ n <= mem.used
  <2>1. n \in Nat /\ n <= Charged(mem) /\ Charged(mem) \in Nat
    BY <1>0, ChargedLeast, ChargedType DEF MemType, ArenaType
  <2>. QED
    BY <1>0, <2>1
<1>. HIDE DEF n
<1>2. left \in MemType /\ left.used = mem.used - n /\ left.arena = mem.arena
  <2>. DEFINE u == IF n > mem.used THEN 0 ELSE mem.used - n
  <2>1. u = mem.used - n /\ u \in Nat
    BY <1>0, <1>1
  <2>. HIDE DEF u
  <2>2. left = [mem EXCEPT !.used = u]
    BY DEF budget_uncharge, u
  <2>. QED
    BY <1>0, <2>1, <2>2 DEF MemType
<1>3. mem2 = [left EXCEPT !.arena[a] = NoArena]
  BY DEF arena_term, n
<1>. HIDE DEF left, mem2
<1>4. mem2 \in MemType /\ mem2.used = left.used /\ mem2.arena[a] = NoArena
  BY <1>2, <1>3, NoArenaType DEF MemType
<1>5. Others(mem, mem2, a)
  BY <1>2, <1>3 DEF MemType, Others
<1>6. mem2.used + mem.arena[a].allocd = mem.used + mem2.arena[a].allocd
  BY <1>0, <1>1, <1>2, <1>4, NoArenaType DEF n
<1>7. Limit = 0 \/ mem2.used <= Limit
  BY <1>0, <1>1, <1>2, <1>4 DEF Books
<1>8. Books(mem2, x)
  BY <1>4, <1>5, <1>6, <1>7, BooksChange
<1>. QED
  BY <1>4, <1>5, <1>8 DEF mem2

LEMMA ArenaAlloc ==
  ASSUME NEW x \in Nat, NEW mem, Books(mem, x), NEW a \in Arenas, NEW n \in Nat, NEW malloc
  PROVE  /\ Books(arena_alloc(mem, a, n, malloc), x)
         /\ Others(mem, arena_alloc(mem, a, n, malloc), a)
<1>. DEFINE cap == next_block_capacity(mem.arena[a].size, n)
            more == new_block(mem, a, cap, malloc)
            Take(y) == [y EXCEPT !.arena[a].fill = @ + n]
            Sized(y) == [y EXCEPT !.arena[a].size = cap]
<1>0. mem \in MemType /\ mem.arena[a] \in ArenaType
  BY DEF Books, MemType
<1>1. cap \in Nat \ {0}
  BY <1>0, BlockCapacity DEF ArenaType
<1>2. Books(more, x) /\ Others(mem, more, a)
  BY <1>1, NewBlockBooks
<1>. HIDE DEF cap, more
<1>3. ASSUME NEW y, Books(y, x)
      PROVE  Books(Take(y), x) /\ Others(y, Take(y), a)
  <2>1. y \in MemType /\ y.arena[a] \in ArenaType
    BY <1>3 DEF Books, MemType
  <2>2. y.arena[a].fill + n \in Nat
    BY <2>1 DEF ArenaType
  <2>. DEFINE r == [y.arena[a] EXCEPT !.fill = y.arena[a].fill + n]
  <2>3. r \in ArenaType /\ r.allocd = y.arena[a].allocd
    BY <2>1, <2>2 DEF ArenaType
  <2>4. Take(y) = [y EXCEPT !.arena[a] = r]
    BY <2>1 DEF MemType, ArenaType
  <2>. HIDE DEF r, Take
  <2>5. Take(y) \in MemType /\ Take(y).used = y.used /\ Take(y).arena[a].allocd = y.arena[a].allocd
    BY <2>1, <2>3, <2>4 DEF MemType
  <2>6. Others(y, Take(y), a)
    BY <2>1, <2>3, <2>4 DEF MemType, Others
  <2>7. Books(Take(y), x)
    BY <1>3, <2>5, <2>6, BooksChange DEF Books
  <2>. QED
    BY <2>6, <2>7
<1>4. ASSUME NEW y, Books(y, x)
      PROVE  Books(Sized(y), x) /\ Others(y, Sized(y), a)
  <2>1. y \in MemType /\ y.arena[a] \in ArenaType
    BY <1>4 DEF Books, MemType
  <2>. DEFINE r == [y.arena[a] EXCEPT !.size = cap]
  <2>3. r \in ArenaType /\ r.allocd = y.arena[a].allocd
    BY <1>1, <2>1 DEF ArenaType
  <2>4. Sized(y) = [y EXCEPT !.arena[a] = r]
    BY <2>1 DEF MemType, ArenaType
  <2>. HIDE DEF r, Sized
  <2>5. Sized(y) \in MemType /\ Sized(y).used = y.used /\ Sized(y).arena[a].allocd = y.arena[a].allocd
    BY <2>1, <2>3, <2>4 DEF MemType
  <2>6. Others(y, Sized(y), a)
    BY <2>1, <2>3, <2>4 DEF MemType, Others
  <2>7. Books(Sized(y), x)
    BY <1>4, <2>5, <2>6, BooksChange DEF Books
  <2>. QED
    BY <2>6, <2>7
<1>5. arena_alloc(mem, a, n, malloc) \in {mem, Take(mem), more, Sized(Take(more))}
  BY DEF arena_alloc, cap, more
<1>. HIDE DEF Take, Sized
<1>6. Others(mem, mem, a)
  BY DEF Others
<1>7. Books(Take(mem), x) /\ Others(mem, Take(mem), a)
  BY <1>3
<1>8. Books(Sized(Take(more)), x) /\ Others(mem, Sized(Take(more)), a)
  <2>1. Books(Take(more), x) /\ Others(more, Take(more), a)
    BY <1>2, <1>3
  <2>2. Books(Sized(Take(more)), x) /\ Others(Take(more), Sized(Take(more)), a)
    BY <1>4, <2>1
  <2>. QED
    BY <1>2, <2>1, <2>2 DEF Others
<1>. QED
  BY <1>2, <1>5, <1>6, <1>7, <1>8

\* A failed arena gives nothing.
LEMMA FailedAlloc ==
  ASSUME NEW mem, NEW a, NEW n, NEW malloc, mem.arena[a].failed
  PROVE  arena_alloc(mem, a, n, malloc) = mem
BY DEF arena_alloc

LEMMA BecomesBooks ==
  ASSUME NEW x \in Nat, NEW mem, Books(mem, x), NEW a \in Arenas, NEW b \in Arenas, a # b,
         mem.arena[a].allocd = 0
  PROVE  /\ Books(Becomes(mem, a, b), x)
         /\ Becomes(mem, a, b).arena[a] = mem.arena[b] /\ Becomes(mem, a, b).arena[b] = NoArena
         /\ \A c \in Arenas : c # a /\ c # b => Becomes(mem, a, b).arena[c] = mem.arena[c]
<1>. DEFINE mid == [mem EXCEPT !.arena[a] = mem.arena[b]]
            mem2 == Becomes(mem, a, b)
<1>0. mem \in MemType /\ Charged(mem) \in Nat /\ mem.used \in Nat
  BY ChargedType DEF Books, MemType
<1>1. mid \in MemType /\ mid.arena[a] = mem.arena[b] /\ \A c \in Arenas : c # a => mid.arena[c] = mem.arena[c]
  BY <1>0 DEF MemType
<1>2. /\ mem2 \in MemType /\ mem2.used = mem.used /\ mem2.arena[b] = NoArena
      /\ \A c \in Arenas : c # b => mem2.arena[c] = mid.arena[c]
  BY <1>0, NoArenaType DEF MemType, Becomes
<1>. HIDE DEF mid, mem2
<1>3. Charged(mid) + mem.arena[a].allocd = Charged(mem) + mid.arena[a].allocd
  BY <1>0, <1>1, ChargedChange
<1>4. Charged(mem2) + mid.arena[b].allocd = Charged(mid) + mem2.arena[b].allocd
  BY <1>1, <1>2, ChargedChange
<1>5. mem.arena[b].allocd \in Nat /\ Charged(mid) \in Nat /\ Charged(mem2) \in Nat
  BY <1>0, <1>1, <1>2, ChargedType DEF MemType, ArenaType
<1>6. Charged(mem2) = Charged(mem)
  BY <1>0, <1>1, <1>2, <1>3, <1>4, <1>5, NoArenaType
<1>7. Books(mem2, x)
  BY <1>2, <1>6 DEF Books
<1>. QED
  BY <1>1, <1>2, <1>7 DEF mem2

LEMMA UnchargeFile ==
  ASSUME NEW mem, Books(mem, FileSize)
  PROVE  /\ Books(budget_uncharge(mem, FileSize), 0)
         /\ budget_uncharge(mem, FileSize).arena = mem.arena
<1>0. /\ mem \in MemType /\ Charged(mem) \in Nat /\ mem.used = Charged(mem) + FileSize
      /\ FileSize \in Nat /\ Limit \in Nat /\ (Limit = 0 \/ mem.used <= Limit)
  BY ChargedType, ClientAssumption, MemoryAssumption DEF Books
<1>. DEFINE u == IF FileSize > mem.used THEN 0 ELSE mem.used - FileSize
            mem2 == budget_uncharge(mem, FileSize)
<1>1. u = Charged(mem) /\ u \in Nat
  BY <1>0
<1>. HIDE DEF u
<1>2. mem2 = [mem EXCEPT !.used = u]
  BY DEF budget_uncharge, u
<1>. HIDE DEF mem2
<1>3. mem2 \in MemType /\ mem2.used = u /\ mem2.arena = mem.arena
  BY <1>0, <1>1, <1>2 DEF MemType
<1>4. Charged(mem2) = Charged(mem)
  BY <1>3 DEF Charged
<1>5. Limit = 0 \/ u <= Limit
  BY <1>0, <1>1
<1>6. Books(mem2, 0)
  BY <1>0, <1>1, <1>3, <1>4, <1>5 DEF Books
<1>. QED
  BY <1>3, <1>6 DEF mem2

\* What read_file looks for is enough for the charge that nothing checks.
LEMMA ChargeFile ==
  ASSUME NEW mem, Books(mem, 0), ~budget_would_exceed(mem, FileSize + 1 + Reserve)
  PROVE  Books([mem EXCEPT !.used = @ + FileSize], FileSize)
<1>0. /\ mem \in MemType /\ Charged(mem) \in Nat /\ mem.used = Charged(mem) + 0 /\ mem.used \in Nat
      /\ FileSize \in Nat /\ Reserve \in Nat /\ Limit \in Nat
  BY ChargedType, ClientAssumption, MemoryAssumption DEF Books, MemType
<1>. DEFINE u == mem.used + FileSize
            mem2 == [mem EXCEPT !.used = @ + FileSize]
<1>1. u = Charged(mem) + FileSize /\ u \in Nat
  BY <1>0
<1>2. Limit = 0 \/ u <= Limit
  BY <1>0 DEF budget_would_exceed
<1>3. mem2 = [mem EXCEPT !.used = u]
  OBVIOUS
<1>. HIDE DEF u, mem2
<1>4. mem2 \in MemType /\ mem2.used = u /\ mem2.arena = mem.arena
  BY <1>0, <1>1, <1>3 DEF MemType
<1>5. Charged(mem2) = Charged(mem)
  BY <1>4 DEF Charged
<1>6. Books(mem2, FileSize)
  BY <1>1, <1>2, <1>4, <1>5 DEF Books
<1>. QED
  BY <1>6 DEF mem2

-----------------------------------------------------------------------------
(* The state: types.                                                       *)

RowType   == [ref : Nat, null : BOOLEAN, dead : BOOLEAN]
Texts     == Text \cup {NULL} \cup UNION {{texts[i] : i \in DOMAIN texts} : texts \in FileTexts}
TableType == [loaded : BOOLEAN, rows : Seq(RowType), rowcap : Nat, heap : Seq(Texts), heapcap : Nat]

\* The state of a loop over rows.
StateType == [m : MemType, t : TableType, ref : Int]

OpenType == [open : {TRUE}, kind : Kinds \ {"garbage"}, param : Text \cup {NULL},
             executed : BOOLEAN, failed : BOOLEAN, rs : Seq(Nat), idx : Nat, snap : Seq(Texts),
             moved : BOOLEAN]

\* A text of the heap stays where it is; rows point to texts of the heap.
Kept(heap, heap2) == Len(heap) <= Len(heap2) /\ \A i \in 1..Len(heap) : heap2[i] = heap[i]

Points(row, heap) == row.ref \in 0..Len(heap) /\ (~row.null => row.ref > 0)
Good(rows, heap)  == \A i \in 1..Len(rows) : Points(rows[i], heap)

LEMMA KeptGood ==
  ASSUME NEW heap \in Seq(Texts), NEW heap2 \in Seq(Texts), Kept(heap, heap2), NEW rows, Good(rows, heap)
  PROVE  Good(rows, heap2)
BY DEF Kept, Good, Points

LEMMA BufAppend ==
  ASSUME NEW x \in Nat, NEW s \in StateType, Books(s.m, x), NEW a \in Arenas, NEW v \in Texts, NEW malloc,
         NEW r, r = buf_append(s, a, v, malloc)
  PROVE  /\ r \in StateType /\ Books(r.m, x) /\ Others(s.m, r.m, a)
         /\ r.t.loaded = s.t.loaded /\ r.t.rows = s.t.rows
         /\ \/ r.ref = -1 /\ r.t = s.t
            \/ r.ref = Len(s.t.heap) + 1 /\ r.t.heap = Append(s.t.heap, v)
<1>. DEFINE full == Len(s.t.heap) + 1 > s.t.heapcap
            cap  == IF s.t.heapcap = 0 THEN FirstHeap ELSE 2 * s.t.heapcap
            mem  == IF full THEN arena_alloc(s.m, a, cap, malloc) ELSE s.m
            cap2 == IF full THEN cap ELSE s.t.heapcap
            tab  == [s.t EXCEPT !.heap = Append(@, v), !.heapcap = cap2]
<1>1. s.t \in TableType /\ s.m \in MemType
  BY DEF StateType
<1>2. s.t.heapcap \in Nat /\ s.t.heap \in Seq(Texts)
  BY <1>1 DEF TableType
<1>3. cap \in Nat /\ cap2 \in Nat
  BY <1>2, ClientAssumption
<1>. HIDE DEF full, cap, cap2
<1>4. Books(mem, x) /\ Others(s.m, mem, a)
  <2>1. Books(s.m, x) /\ Others(s.m, s.m, a)
    BY DEF Others
  <2>2. Books(arena_alloc(s.m, a, cap, malloc), x) /\ Others(s.m, arena_alloc(s.m, a, cap, malloc), a)
    BY <1>3, ArenaAlloc
  <2>. QED
    BY <2>1, <2>2
<1>5. Append(s.t.heap, v) \in Seq(Texts)
  BY <1>2
<1>6. tab \in TableType /\ tab.heap = Append(s.t.heap, v) /\ tab.rows = s.t.rows /\ tab.loaded = s.t.loaded
  BY <1>1, <1>3, <1>5 DEF TableType
<1>7. r = IF mem.arena[a].failed THEN [s EXCEPT !.m = mem, !.ref = -1]
          ELSE [m |-> mem, t |-> tab, ref |-> Len(s.t.heap) + 1]
  BY DEF buf_append, full, cap, cap2
<1>. HIDE DEF mem, tab
<1>8. mem \in MemType
  BY <1>4 DEF Books
<1>9. CASE mem.arena[a].failed
  <2>1. r = [s EXCEPT !.m = mem, !.ref = -1]
    BY <1>7, <1>9
  <2>2. r = [m |-> mem, t |-> s.t, ref |-> -1]
    BY <2>1 DEF StateType
  <2>3. -1 \in Int
    OBVIOUS
  <2>4. r \in StateType /\ r.m = mem /\ r.t = s.t /\ r.ref = -1
    BY <1>1, <1>8, <2>2, <2>3 DEF StateType
  <2>. QED
    BY <1>4, <2>4
<1>10. CASE ~mem.arena[a].failed
  <2>1. r = [m |-> mem, t |-> tab, ref |-> Len(s.t.heap) + 1]
    BY <1>7, <1>10
  <2>2. r.m = mem /\ r.t = tab /\ r.ref = Len(s.t.heap) + 1
    BY <2>1
  <2>3. r \in StateType
    BY <1>2, <1>6, <1>8, <2>1 DEF StateType
  <2>. QED
    BY <1>4, <1>6, <2>2, <2>3
<1>. QED
  BY <1>9, <1>10

Blank == [ref |-> 0, null |-> TRUE, dead |-> FALSE]

LEMMA AppendRow ==
  ASSUME NEW x \in Nat, NEW s \in StateType, Books(s.m, x), NEW a \in Arenas, NEW malloc,
         NEW r, r = table_append_row(s, a, malloc)
  PROVE  /\ r \in StateType /\ Books(r.m, x) /\ Others(s.m, r.m, a)
         /\ r.t.loaded = s.t.loaded /\ r.t.heap = s.t.heap
         /\ \/ r.ref = -1 /\ r.t = s.t
            \/ r.ref = 0 /\ r.t.rows = Append(s.t.rows, Blank)
<1>. DEFINE full == Len(s.t.rows) = s.t.rowcap
            cap  == IF s.t.rowcap = 0 THEN FirstRows ELSE 2 * s.t.rowcap
            mem  == IF full THEN arena_alloc(s.m, a, cap, malloc) ELSE s.m
            cap2 == IF full THEN cap ELSE s.t.rowcap
            tab  == [s.t EXCEPT !.rows = Append(@, Blank), !.rowcap = cap2]
<1>1. s.t \in TableType /\ s.m \in MemType
  BY DEF StateType
<1>2. s.t.rowcap \in Nat /\ s.t.rows \in Seq(RowType)
  BY <1>1 DEF TableType
<1>3. cap \in Nat /\ cap2 \in Nat
  BY <1>2, ClientAssumption
<1>. HIDE DEF full, cap, cap2
<1>4. Books(mem, x) /\ Others(s.m, mem, a)
  <2>1. Books(s.m, x) /\ Others(s.m, s.m, a)
    BY DEF Others
  <2>2. Books(arena_alloc(s.m, a, cap, malloc), x) /\ Others(s.m, arena_alloc(s.m, a, cap, malloc), a)
    BY <1>3, ArenaAlloc
  <2>. QED
    BY <2>1, <2>2
<1>5. Append(s.t.rows, Blank) \in Seq(RowType)
  BY <1>2 DEF Blank, RowType
<1>6. tab \in TableType /\ tab.rows = Append(s.t.rows, Blank) /\ tab.heap = s.t.heap /\ tab.loaded = s.t.loaded
  BY <1>1, <1>3, <1>5 DEF TableType
<1>7. r = IF full /\ mem.arena[a].failed THEN [s EXCEPT !.m = mem, !.ref = -1]
          ELSE [m |-> mem, t |-> tab, ref |-> 0]
  BY DEF table_append_row, full, cap, cap2, Blank
<1>. HIDE DEF mem, tab
<1>8. mem \in MemType
  BY <1>4 DEF Books
<1>9. CASE full /\ mem.arena[a].failed
  <2>1. r = [s EXCEPT !.m = mem, !.ref = -1]
    BY <1>7, <1>9
  <2>2. r = [m |-> mem, t |-> s.t, ref |-> -1]
    BY <2>1 DEF StateType
  <2>3. -1 \in Int
    OBVIOUS
  <2>4. r \in StateType /\ r.m = mem /\ r.t = s.t /\ r.ref = -1
    BY <1>1, <1>8, <2>2, <2>3 DEF StateType
  <2>. QED
    BY <1>4, <2>4
<1>10. CASE ~(full /\ mem.arena[a].failed)
  <2>1. r = [m |-> mem, t |-> tab, ref |-> 0]
    BY <1>7, <1>10
  <2>2. r.m = mem /\ r.t = tab /\ r.ref = 0
    BY <2>1
  <2>3. r \in StateType
    BY <1>6, <1>8, <2>1 DEF StateType
  <2>. QED
    BY <1>4, <1>6, <2>2, <2>3
<1>. QED
  BY <1>9, <1>10

\* A table with another row at n.
WithRow(tab, n, row) == [tab EXCEPT !.rows = [tab.rows EXCEPT ![n] = row]]

LEMMA WithRowIs ==
  ASSUME NEW tab \in TableType, NEW n \in 1..Len(tab.rows), NEW row \in RowType
  PROVE  /\ WithRow(tab, n, row) \in TableType /\ Len(WithRow(tab, n, row).rows) = Len(tab.rows)
         /\ WithRow(tab, n, row).rows[n] = row
         /\ \A i \in 1..Len(tab.rows) : i # n => WithRow(tab, n, row).rows[i] = tab.rows[i]
         /\ WithRow(tab, n, row).heap = tab.heap /\ WithRow(tab, n, row).loaded = tab.loaded
<1>. DEFINE rows == [tab.rows EXCEPT ![n] = row]
<1>1. tab.rows \in Seq(RowType)
  BY DEF TableType
<1>2. /\ rows \in Seq(RowType) /\ Len(rows) = Len(tab.rows) /\ rows[n] = row
      /\ \A i \in 1..Len(tab.rows) : i # n => rows[i] = tab.rows[i]
  BY <1>1
<1>3. WithRow(tab, n, row) = [tab EXCEPT !.rows = rows]
  BY DEF WithRow
<1>. HIDE DEF rows
<1>4. WithRow(tab, n, row).rows = rows
  BY <1>3 DEF TableType
<1>5. WithRow(tab, n, row) \in TableType /\ WithRow(tab, n, row).heap = tab.heap
      /\ WithRow(tab, n, row).loaded = tab.loaded
  BY <1>2, <1>3 DEF TableType
<1>. QED
  BY <1>2, <1>4, <1>5

LEMMA WithGoodRow ==
  ASSUME NEW tab \in TableType, NEW n \in 1..Len(tab.rows), NEW row \in RowType,
         NEW heap, \A i \in 1..Len(tab.rows) : i # n => Points(tab.rows[i], heap), Points(row, heap)
  PROVE  Good(WithRow(tab, n, row).rows, heap)
<1>1. \A i \in 1..Len(tab.rows) : Points(WithRow(tab, n, row).rows[i], heap)
  <2>1. \A i \in 1..Len(tab.rows) : i # n => WithRow(tab, n, row).rows[i] = tab.rows[i]
    BY WithRowIs
  <2>2. WithRow(tab, n, row).rows[n] = row
    BY WithRowIs
  <2>. QED
    BY <2>1, <2>2
<1>2. Len(WithRow(tab, n, row).rows) = Len(tab.rows)
  BY WithRowIs
<1>. QED
  BY <1>1, <1>2 DEF Good

LEMMA SetText ==
  ASSUME NEW x \in Nat, NEW s \in StateType, Books(s.m, x), NEW row \in 1..Len(s.t.rows),
         NEW v \in Text \cup {NULL}, NEW malloc, NEW r, r = table_set_text(s, row, v, malloc)
  PROVE  /\ r \in StateType /\ Books(r.m, x) /\ Others(s.m, r.m, "heap")
         /\ r.t.loaded = s.t.loaded /\ Len(r.t.rows) = Len(s.t.rows) /\ Kept(s.t.heap, r.t.heap)
         /\ Good(s.t.rows, s.t.heap) => Good(r.t.rows, r.t.heap)
<1>. DEFINE new == buf_append(s, "heap", v, malloc)
            old == s.t.rows[row]
<1>1. "heap" \in Arenas /\ v \in Texts
  BY DEF Arenas, OwnArenas, Texts
<1>2. s.t \in TableType /\ s.m \in MemType /\ s.ref \in Int
  BY DEF StateType
<1>3. old \in RowType
  BY <1>2 DEF TableType
<1>4. /\ new \in StateType /\ Books(new.m, x) /\ Others(s.m, new.m, "heap")
      /\ new.t.loaded = s.t.loaded /\ new.t.rows = s.t.rows
      /\ \/ new.ref = -1 /\ new.t = s.t
         \/ new.ref = Len(s.t.heap) + 1 /\ new.t.heap = Append(s.t.heap, v)
  <2>1. PICK a \in Arenas : a = "heap"
    BY <1>1
  <2>2. v \in Texts
    BY <1>1
  <2>3. new = buf_append(s, a, v, malloc)
    BY <2>1
  <2>. HIDE DEF new
  <2>4. /\ new \in StateType /\ Books(new.m, x) /\ Others(s.m, new.m, a)
        /\ new.t.loaded = s.t.loaded /\ new.t.rows = s.t.rows
        /\ \/ new.ref = -1 /\ new.t = s.t
           \/ new.ref = Len(s.t.heap) + 1 /\ new.t.heap = Append(s.t.heap, v)
    BY <2>2, <2>3, BufAppend
  <2>. QED
    BY <2>1, <2>4
<1>5. r = IF v = NULL THEN [s EXCEPT !.t.rows[row].null = TRUE]
          ELSE IF new.ref = -1 THEN [s EXCEPT !.m = new.m]
          ELSE [new EXCEPT !.t.rows[row] = [old EXCEPT !.ref = new.ref, !.null = FALSE]]
  BY DEF table_set_text
<1>. HIDE DEF new
<1>6. Kept(s.t.heap, s.t.heap) /\ Others(s.m, s.m, "heap") /\ Len(s.t.heap) \in Nat
  BY <1>2 DEF Kept, Others, TableType
<1>7. CASE v = NULL
  <2>. DEFINE rr == [old EXCEPT !.null = TRUE]
  <2>1. rr \in RowType /\ rr.ref = old.ref /\ rr.null
    BY <1>3 DEF RowType
  <2>2. r = [s EXCEPT !.t = WithRow(s.t, row, rr)]
    BY <1>2, <1>5, <1>7 DEF WithRow, StateType, TableType
  <2>. HIDE DEF rr, old
  <2>. DEFINE tab == WithRow(s.t, row, rr)
  <2>3. /\ tab \in TableType /\ Len(tab.rows) = Len(s.t.rows) /\ tab.heap = s.t.heap
        /\ tab.loaded = s.t.loaded
    BY <1>2, <2>1, WithRowIs
  <2>4. Good(s.t.rows, s.t.heap) => Good(tab.rows, s.t.heap)
    <3>. SUFFICES ASSUME Good(s.t.rows, s.t.heap)
                  PROVE  Good(tab.rows, s.t.heap)
      OBVIOUS
    <3>1. Points(rr, s.t.heap)
      BY <2>1 DEF Good, Points, old
    <3>. QED
      BY <1>2, <2>1, <3>1, WithGoodRow DEF Good
  <2>. HIDE DEF tab
  <2>5. r = [m |-> s.m, t |-> tab, ref |-> s.ref]
    BY <2>2 DEF StateType, tab
  <2>6. r \in StateType /\ r.m = s.m /\ r.t = tab
    BY <1>2, <2>3, <2>5 DEF StateType
  <2>. QED
    BY <1>6, <2>3, <2>4, <2>6
<1>8. CASE v # NULL /\ new.ref = -1
  <2>1. r = [m |-> new.m, t |-> s.t, ref |-> s.ref]
    BY <1>5, <1>8 DEF StateType
  <2>2. new.m \in MemType
    BY <1>4 DEF StateType
  <2>3. r \in StateType /\ r.m = new.m /\ r.t = s.t
    BY <1>2, <2>1, <2>2 DEF StateType
  <2>. QED
    BY <1>4, <1>6, <2>3
<1>9. CASE v # NULL /\ new.ref # -1
  <2>. DEFINE n == Len(s.t.heap) + 1
              rr == [old EXCEPT !.ref = n, !.null = FALSE]
  <2>0. /\ new.ref = n /\ new.t.heap = Append(s.t.heap, v) /\ n \in Nat
        /\ new.t \in TableType /\ new.m \in MemType
    BY <1>4, <1>6, <1>9 DEF StateType
  <2>00. Len(new.t.heap) = n /\ Kept(s.t.heap, new.t.heap)
    <3>1. s.t.heap \in Seq(Texts)
      BY <1>2 DEF TableType
    <3>. QED
      BY <1>1, <2>0, <3>1 DEF Kept
  <2>. HIDE DEF n
  <2>1. rr \in RowType /\ rr.ref = n /\ rr.null = FALSE
    BY <1>3, <2>0 DEF RowType
  <2>2. r = [new EXCEPT !.t = WithRow(new.t, row, rr)]
    <3>1. r = [new EXCEPT !.t.rows[row] = rr]
      BY <1>5, <1>9, <2>0
    <3>2. new = [m |-> new.m, t |-> new.t, ref |-> new.ref]
      BY <1>4 DEF StateType
    <3>. HIDE DEF rr, new
    <3>. QED
      BY <3>1, <3>2 DEF WithRow
  <2>. HIDE DEF rr, old
  <2>. DEFINE tab == WithRow(new.t, row, rr)
  <2>3. /\ tab \in TableType /\ Len(tab.rows) = Len(s.t.rows) /\ tab.heap = new.t.heap
        /\ tab.loaded = s.t.loaded
    BY <1>4, <2>0, <2>1, WithRowIs
  <2>4. Good(s.t.rows, s.t.heap) => Good(tab.rows, new.t.heap)
    <3>. SUFFICES ASSUME Good(s.t.rows, s.t.heap)
                  PROVE  Good(tab.rows, new.t.heap)
      OBVIOUS
    <3>1. Points(rr, new.t.heap)
      BY <1>6, <2>00, <2>1 DEF Points, n
    <3>2. Good(new.t.rows, new.t.heap)
      BY <1>2, <1>4, <2>0, <2>00, KeptGood DEF TableType
    <3>. QED
      BY <1>4, <2>0, <2>1, <3>1, <3>2, WithGoodRow DEF Good
  <2>. HIDE DEF tab
  <2>5. r = [m |-> new.m, t |-> tab, ref |-> n]
    BY <1>4, <2>0, <2>2 DEF StateType, tab
  <2>6. r \in StateType /\ r.m = new.m /\ r.t = tab
    BY <2>0, <2>3, <2>5 DEF StateType
  <2>. QED
    BY <1>4, <2>00, <2>3, <2>4, <2>6
<1>. QED
  BY <1>7, <1>8, <1>9

-----------------------------------------------------------------------------
(* The rows a cursor meets.                                                *)

LiveLoop(f, rows) ==
  f = [n \in 0..Len(rows) |->
         IF n = 0 THEN <<>> ELSE IF rows[n].dead THEN f[n - 1] ELSE Append(f[n - 1], rows[n])]

LEMMA LiveRowsLoop ==
  ASSUME NEW tab, NEW R, tab.rows \in Seq(R)
  PROVE  \E f : LiveLoop(f, tab.rows) /\ LiveRows(tab) = f[Len(tab.rows)]
<1>. DEFINE rows == tab.rows
            N == Len(rows)
            X == Seq(R)
            G == [n \in 1..N |-> [y \in X |-> IF rows[n].dead THEN y ELSE Append(y, rows[n])]]
            Loop(f) == f = [n \in 0..Len(tab.rows) |->
                              IF n = 0 THEN <<>>
                              ELSE IF tab.rows[n].dead THEN f[n - 1] ELSE Append(f[n - 1], tab.rows[n])]
            live == CHOOSE f : Loop(f)
<1>1. N \in Nat /\ \A n \in 1..N : rows[n] \in R
  OBVIOUS
<1>2. PICK f : IsLoopTo(f, X, N, <<>>, G)
  <2>1. G \in ToRounds(X, N) /\ <<>> \in X
    BY <1>1 DEF ToRounds
  <2>. HIDE DEF G, X, N
  <2>. QED
    BY <1>1, <2>1, RoundsTo
<1>3. f \in [0..N -> X] /\ f[0] = <<>> /\ \A n \in 1..N : f[n] = G[n][f[n - 1]]
  <2>. HIDE DEF G, X, N
  <2>. QED
    BY <1>2 DEF IsLoopTo
<1>4. ASSUME NEW n \in 1..N
      PROVE  f[n] = IF rows[n].dead THEN f[n - 1] ELSE Append(f[n - 1], rows[n])
  <2>1. n - 1 \in 0..N
    BY <1>1
  <2>. HIDE DEF N, X
  <2>2. f[n - 1] \in X
    BY <1>3, <2>1
  <2>. QED
    BY <1>3, <2>2
<1>5. Loop(f)
  <2>1. \A n \in 0..N : n # 0 => n \in 1..N
    BY <1>1
  <2>. HIDE DEF N, X, G, rows
  <2>2. \A n \in 0..N : f[n] = IF n = 0 THEN <<>> ELSE IF rows[n].dead THEN f[n - 1] ELSE Append(f[n - 1], rows[n])
    BY <1>3, <1>4, <2>1
  <2>3. f = [n \in 0..N |-> IF n = 0 THEN <<>> ELSE IF rows[n].dead THEN f[n - 1] ELSE Append(f[n - 1], rows[n])]
    BY <1>3, <2>2
  <2>. QED
    BY <2>3 DEF N, rows
<1>6. Loop(live)
  BY <1>5, Zenon
<1>7. LiveRows(tab) = live[N]
  BY DEF LiveRows
<1>8. LiveLoop(live, rows)
  <2>. HIDE DEF live
  <2>. QED
    BY <1>6, Zenon DEF LiveLoop
<1>. QED
  BY <1>7, <1>8

LEMMA LiveRowsAre ==
  ASSUME NEW tab, NEW R, tab.rows \in Seq(R)
  PROVE  /\ LiveRows(tab) \in Seq(R)
         /\ \A i \in 1..Len(LiveRows(tab)) :
              /\ ~LiveRows(tab)[i].dead
              /\ \E j \in 1..Len(tab.rows) : LiveRows(tab)[i] = tab.rows[j]
<1>. DEFINE rows == tab.rows
            N == Len(rows)
            Live == {row \in R : ~row.dead /\ \E j \in 1..N : row = rows[j]}
<1>1. PICK f : LiveLoop(f, rows) /\ LiveRows(tab) = f[N]
  BY LiveRowsLoop
<1>2. \A n \in 0..N : f[n] = IF n = 0 THEN <<>> ELSE IF rows[n].dead THEN f[n - 1] ELSE Append(f[n - 1], rows[n])
  BY <1>1, Zenon DEF LiveLoop
<1>3. N \in Nat /\ \A n \in 1..N : rows[n] \in R
  OBVIOUS
<1>4. f[0] \in Seq(Live)
  <2>1. 0 \in 0..N
    BY <1>3
  <2>2. f[0] = <<>>
    BY <1>2, <2>1
  <2>. HIDE DEF Live
  <2>. QED
    BY <2>2
<1>5. ASSUME NEW n \in 1..N, f[n - 1] \in Seq(Live)
      PROVE  f[n] \in Seq(Live)
  <2>1. n \in 0..N /\ n # 0
    BY <1>3
  <2>2. f[n] = IF rows[n].dead THEN f[n - 1] ELSE Append(f[n - 1], rows[n])
    BY <1>2, <2>1
  <2>3. ~rows[n].dead => rows[n] \in Live
    BY <1>3
  <2>. HIDE DEF Live, rows, N
  <2>. QED
    BY <1>5, <2>2, <2>3
<1>6. LiveRows(tab) \in Seq(Live)
  <2>. HIDE DEF Live, rows
  <2>1. \A n \in 0..N : f[n] \in Seq(Live)
    <3>. HIDE DEF N
    <3>. QED
      BY <1>3, <1>4, <1>5, LoopIn
  <2>. QED
    BY <1>1, <1>3, <2>1
<1>7. Live \subseteq R /\ \A row \in Live : ~row.dead /\ \E j \in 1..N : row = rows[j]
  OBVIOUS
<1>. HIDE DEF Live
<1>. QED
  BY <1>6, <1>7

\* Where no row is dead, all are live.
LEMMA AllLive ==
  ASSUME NEW tab, NEW R, tab.rows \in Seq(R), \A i \in 1..Len(tab.rows) : ~tab.rows[i].dead
  PROVE  LiveRows(tab) = tab.rows
<1>. DEFINE rows == tab.rows
            N == Len(rows)
            At(f, n) == f[n] \in Seq(R) /\ Len(f[n]) = n /\ \A i \in 1..n : f[n][i] = rows[i]
<1>1. PICK f : LiveLoop(f, rows) /\ LiveRows(tab) = f[N]
  BY LiveRowsLoop
<1>2. \A n \in 0..N : f[n] = IF n = 0 THEN <<>> ELSE IF rows[n].dead THEN f[n - 1] ELSE Append(f[n - 1], rows[n])
  BY <1>1, Zenon DEF LiveLoop
<1>3. N \in Nat /\ \A n \in 1..N : rows[n] \in R /\ ~rows[n].dead
  OBVIOUS
<1>. HIDE DEF rows, N
<1>. DEFINE U == {n \in Nat : n <= N => At(f, n)}
<1>4. 0 \in U
  <2>1. 0 \in 0..N
    BY <1>3
  <2>2. f[0] = <<>>
    BY <1>2, <2>1
  <2>3. At(f, 0)
    BY <2>2
  <2>. QED
    BY <2>3
<1>5. ASSUME NEW n \in Nat, n \in U
      PROVE  n + 1 \in U
  <2>1. CASE n + 1 <= N
    <3>1. n + 1 \in 1..N /\ n + 1 \in 0..N /\ (n + 1) - 1 = n /\ n + 1 # 0 /\ At(f, n)
      BY <1>3, <1>5, <2>1
    <3>2. f[n + 1] = Append(f[n], rows[n + 1]) /\ rows[n + 1] \in R
      BY <1>2, <1>3, <3>1
    <3>3. /\ f[n + 1] \in Seq(R) /\ Len(f[n + 1]) = n + 1 /\ f[n + 1][n + 1] = rows[n + 1]
          /\ \A i \in 1..n : f[n + 1][i] = rows[i]
      <4>1. f[n] \in Seq(R) /\ Len(f[n]) = n /\ \A i \in 1..n : f[n][i] = rows[i]
        BY <3>1
      <4>2. /\ Append(f[n], rows[n + 1]) \in Seq(R)
            /\ Len(Append(f[n], rows[n + 1])) = Len(f[n]) + 1
            /\ Append(f[n], rows[n + 1])[Len(f[n]) + 1] = rows[n + 1]
            /\ \A i \in 1..Len(f[n]) : Append(f[n], rows[n + 1])[i] = f[n][i]
        BY <3>2, <4>1, AppendIs
      <4>. QED
        BY <3>2, <4>1, <4>2
    <3>4. \A i \in 1..n + 1 : i \in 1..n \/ i = n + 1
      OBVIOUS
    <3>5. At(f, n + 1)
      BY <3>3, <3>4
    <3>. QED
      BY <3>5
  <2>2. CASE ~(n + 1 <= N)
    BY <2>2
  <2>. QED
    BY <2>1, <2>2
<1>6. At(f, N)
  <2>. HIDE DEF At
  <2>1. \A n \in Nat : n \in U
    <3>. HIDE DEF U
    <3>1. Nat \subseteq U
      BY <1>4, <1>5, Induction
    <3>. QED
      BY <3>1
  <2>. QED
    BY <1>3, <2>1
<1>7. f[N] = rows
  BY <1>6 DEF N, rows
<1>. QED
  BY <1>1, <1>7 DEF rows

-----------------------------------------------------------------------------
(* What a checkpoint makes of the table.                                   *)

CopyType == [rows : Seq(RowType), heap : Seq(Texts)]

\* The row r of the table, copied after the rows of s.
CopyRow(tab, s, r) ==
  IF r.ref = 0 THEN [s EXCEPT !.rows = Append(@, r)]
  ELSE [rows |-> Append(s.rows, [r EXCEPT !.ref = Len(s.heap) + 1]),
        heap |-> Append(s.heap, tab.heap[r.ref])]

CopyLoop(f, tab) ==
  f = [n \in 0..Len(LiveRows(tab)) |->
         IF n = 0 THEN [rows |-> <<>>, heap |-> <<>>] ELSE CopyRow(tab, f[n - 1], LiveRows(tab)[n])]

\* The row in the copy and the row it was copied from show the same cell.
SameCell(new, heap2, row, heap) ==
  /\ ~new.dead /\ new.null = row.null /\ Points(new, heap2)
  /\ ~row.null => heap2[new.ref] = heap[row.ref]

LEMMA CopyRowIs ==
  ASSUME NEW tab \in TableType, NEW s \in CopyType, NEW r \in RowType, Points(r, tab.heap), ~r.dead
  PROVE  /\ CopyRow(tab, s, r) \in CopyType
         /\ Len(CopyRow(tab, s, r).rows) = Len(s.rows) + 1
         /\ \A i \in 1..Len(s.rows) : CopyRow(tab, s, r).rows[i] = s.rows[i]
         /\ Kept(s.heap, CopyRow(tab, s, r).heap)
         /\ SameCell(CopyRow(tab, s, r).rows[Len(s.rows) + 1], CopyRow(tab, s, r).heap, r, tab.heap)
<1>. DEFINE c == CopyRow(tab, s, r)
<1>1. s.rows \in Seq(RowType) /\ s.heap \in Seq(Texts) /\ tab.heap \in Seq(Texts)
  BY DEF CopyType, TableType
<1>2. CASE r.ref = 0
  <2>1. c = [s EXCEPT !.rows = Append(s.rows, r)]
    BY <1>2 DEF CopyRow
  <2>. HIDE DEF c
  <2>2. /\ Append(s.rows, r) \in Seq(RowType) /\ Len(Append(s.rows, r)) = Len(s.rows) + 1
        /\ Append(s.rows, r)[Len(s.rows) + 1] = r
        /\ \A i \in 1..Len(s.rows) : Append(s.rows, r)[i] = s.rows[i]
    BY <1>1, AppendIs
  <2>3. c.rows = Append(s.rows, r) /\ c.heap = s.heap /\ c \in CopyType
    BY <1>1, <2>1, <2>2 DEF CopyType
  <2>4. Kept(s.heap, s.heap)
    BY <1>1 DEF Kept
  <2>5. r.null
    BY <1>2 DEF Points
  <2>6. SameCell(r, s.heap, r, tab.heap)
    BY <1>1, <1>2, <2>5 DEF SameCell, Points
  <2>. QED
    BY <2>2, <2>3, <2>4, <2>6 DEF c
<1>3. CASE r.ref # 0
  <2>. DEFINE k == Len(s.heap) + 1
              q == [r EXCEPT !.ref = k]
              v == tab.heap[r.ref]
  <2>1. k \in Nat /\ k > 0
    BY <1>1
  <2>2. v \in Texts
    BY <1>1, <1>3 DEF Points
  <2>3. c = [rows |-> Append(s.rows, q), heap |-> Append(s.heap, v)]
    BY <1>3 DEF CopyRow
  <2>. HIDE DEF c, k
  <2>4. q \in RowType /\ q.ref = k /\ q.null = r.null /\ q.dead = r.dead
    BY <2>1 DEF RowType
  <2>. HIDE DEF q, v
  <2>5. /\ Append(s.rows, q) \in Seq(RowType) /\ Len(Append(s.rows, q)) = Len(s.rows) + 1
        /\ Append(s.rows, q)[Len(s.rows) + 1] = q
        /\ \A i \in 1..Len(s.rows) : Append(s.rows, q)[i] = s.rows[i]
    BY <1>1, <2>4, AppendIs
  <2>6. /\ Append(s.heap, v) \in Seq(Texts) /\ Len(Append(s.heap, v)) = Len(s.heap) + 1
        /\ Append(s.heap, v)[Len(s.heap) + 1] = v
        /\ \A i \in 1..Len(s.heap) : Append(s.heap, v)[i] = s.heap[i]
    BY <1>1, <2>2, AppendIs
  <2>7. c.rows = Append(s.rows, q) /\ c.heap = Append(s.heap, v) /\ c \in CopyType
    BY <2>3, <2>5, <2>6 DEF CopyType
  <2>8. Kept(s.heap, Append(s.heap, v))
    BY <1>1, <2>6 DEF Kept
  <2>9. SameCell(q, Append(s.heap, v), r, tab.heap)
    BY <2>1, <2>4, <2>6 DEF SameCell, Points, k, v
  <2>. QED
    BY <2>5, <2>7, <2>8, <2>9 DEF c
<1>. QED
  BY <1>2, <1>3

\* A row of the copy shows its cell also when the copy has grown.
LEMMA SameCellKept ==
  ASSUME NEW heap1 \in Seq(Texts), NEW heap2 \in Seq(Texts), Kept(heap1, heap2),
         NEW new, NEW row, NEW heap, SameCell(new, heap1, row, heap)
  PROVE  SameCell(new, heap2, row, heap)
<1>1. Points(new, heap2)
  BY DEF SameCell, Points, Kept
<1>2. ~row.null => heap2[new.ref] = heap[row.ref]
  BY DEF SameCell, Points, Kept
<1>. QED
  BY <1>1, <1>2 DEF SameCell

LEMMA LiveGood ==
  ASSUME NEW tab \in TableType, Good(tab.rows, tab.heap)
  PROVE  /\ LiveRows(tab) \in Seq(RowType) /\ Good(LiveRows(tab), tab.heap)
         /\ \A i \in 1..Len(LiveRows(tab)) : ~LiveRows(tab)[i].dead
<1>1. tab.rows \in Seq(RowType)
  BY DEF TableType
<1>2. /\ LiveRows(tab) \in Seq(RowType)
      /\ \A i \in 1..Len(LiveRows(tab)) :
           /\ ~LiveRows(tab)[i].dead
           /\ \E j \in 1..Len(tab.rows) : LiveRows(tab)[i] = tab.rows[j]
  BY <1>1, LiveRowsAre
<1>. QED
  BY <1>2 DEF Good

LEMMA CompactedLoop ==
  ASSUME NEW tab \in TableType, Good(tab.rows, tab.heap)
  PROVE  \E f : /\ CopyLoop(f, tab)
                /\ LET end == f[Len(LiveRows(tab))]
                   IN  Compacted(tab) = [tab EXCEPT !.rows = end.rows, !.heap = end.heap,
                                                    !.heapcap = Len(end.heap)]
<1>. DEFINE live == LiveRows(tab)
            N == Len(live)
            X == CopyType
            none == [rows |-> <<>>, heap |-> <<>>]
            G == [n \in 1..N |-> [y \in X |-> CopyRow(tab, y, live[n])]]
            One(s, r) == IF r.ref = 0 THEN [s EXCEPT !.rows = Append(@, r)]
                         ELSE [rows |-> Append(s.rows, [r EXCEPT !.ref = Len(s.heap) + 1]),
                               heap |-> Append(s.heap, tab.heap[r.ref])]
            Loop(f) == f = [n \in 0..Len(live) |->
                              IF n = 0 THEN [rows |-> <<>>, heap |-> <<>>] ELSE One(f[n - 1], live[n])]
            new == CHOOSE f : Loop(f)
<1>1. N \in Nat /\ \A n \in 1..N : live[n] \in RowType /\ Points(live[n], tab.heap) /\ ~live[n].dead
  BY LiveGood DEF Good
<1>2. none \in X
  BY DEF CopyType
<1>3. \A n \in 1..N : \A y \in X : CopyRow(tab, y, live[n]) \in X
  BY <1>1, CopyRowIs
<1>. HIDE DEF X, none, live
<1>4. PICK f : IsLoopTo(f, X, N, none, G)
  <2>1. G \in ToRounds(X, N)
    <3>. HIDE DEF N
    <3>. QED
      BY <1>3 DEF ToRounds
  <2>. HIDE DEF G, N
  <2>. QED
    BY <1>1, <1>2, <2>1, RoundsTo
<1>5. f \in [0..N -> X] /\ f[0] = none /\ \A n \in 1..N : f[n] = G[n][f[n - 1]]
  <2>. HIDE DEF G, N
  <2>. QED
    BY <1>4 DEF IsLoopTo
<1>6. ASSUME NEW n \in 1..N
      PROVE  f[n] = CopyRow(tab, f[n - 1], live[n])
  <2>1. n - 1 \in 0..N
    BY <1>1
  <2>. HIDE DEF N
  <2>2. f[n - 1] \in X
    BY <1>5, <2>1
  <2>. QED
    BY <1>5, <2>2
<1>7. \A s, r : One(s, r) = CopyRow(tab, s, r)
  BY DEF CopyRow
<1>8. Loop(f)
  <2>1. \A n \in 0..N : n # 0 => n \in 1..N
    BY <1>1
  <2>. HIDE DEF N, G, One
  <2>2. \A n \in 0..N : f[n] = IF n = 0 THEN none ELSE One(f[n - 1], live[n])
    BY <1>5, <1>6, <1>7, <2>1
  <2>3. f = [n \in 0..N |-> IF n = 0 THEN none ELSE One(f[n - 1], live[n])]
    BY <1>5, <2>2
  <2>. QED
    BY <2>3 DEF N, none
<1>9. Loop(new)
  <2>. HIDE DEF One
  <2>. QED
    BY <1>8, Zenon
<1>10. Compacted(tab) = [tab EXCEPT !.rows = new[N].rows, !.heap = new[N].heap, !.heapcap = Len(new[N].heap)]
  BY DEF Compacted, live
<1>11. CopyLoop(new, tab)
  <2>. HIDE DEF new, One
  <2>1. new = [n \in 0..Len(live) |-> IF n = 0 THEN [rows |-> <<>>, heap |-> <<>>] ELSE One(new[n - 1], live[n])]
    BY <1>9
  <2>2. [n \in 0..Len(live) |-> IF n = 0 THEN [rows |-> <<>>, heap |-> <<>>] ELSE One(new[n - 1], live[n])]
        = [n \in 0..Len(live) |-> IF n = 0 THEN [rows |-> <<>>, heap |-> <<>>] ELSE CopyRow(tab, new[n - 1], live[n])]
    BY <1>7, Zenon
  <2>. QED
    BY <2>1, <2>2, Zenon DEF CopyLoop, live
<1>. QED
  BY <1>10, <1>11 DEF live

LEMMA CompactedIs ==
  ASSUME NEW tab \in TableType, Good(tab.rows, tab.heap)
  PROVE  /\ Compacted(tab) \in TableType /\ Compacted(tab).loaded = tab.loaded
         /\ Len(Compacted(tab).rows) = Len(LiveRows(tab))
         /\ \A i \in 1..Len(LiveRows(tab)) :
              SameCell(Compacted(tab).rows[i], Compacted(tab).heap, LiveRows(tab)[i], tab.heap)
<1>. DEFINE live == LiveRows(tab)
            N == Len(live)
<1>1. N \in Nat /\ \A n \in 1..N : live[n] \in RowType /\ Points(live[n], tab.heap) /\ ~live[n].dead
  BY LiveGood DEF Good
<1>2. PICK f : /\ CopyLoop(f, tab)
               /\ LET end == f[N]
                  IN  Compacted(tab) = [tab EXCEPT !.rows = end.rows, !.heap = end.heap, !.heapcap = Len(end.heap)]
  BY CompactedLoop
<1>3. \A n \in 0..N : f[n] = IF n = 0 THEN [rows |-> <<>>, heap |-> <<>>] ELSE CopyRow(tab, f[n - 1], live[n])
  BY <1>2, Zenon DEF CopyLoop
<1>. HIDE DEF live, N
<1>. DEFINE At(s, n) == /\ s \in CopyType /\ Len(s.rows) = n
                        /\ \A i \in 1..n : SameCell(s.rows[i], s.heap, live[i], tab.heap)
            U == {n \in Nat : n <= N => At(f[n], n)}
<1>4. 0 \in U
  <2>1. 0 \in 0..N
    BY <1>1
  <2>2. f[0] = [rows |-> <<>>, heap |-> <<>>]
    BY <1>3, <2>1
  <2>3. At([rows |-> <<>>, heap |-> <<>>], 0)
    BY DEF CopyType
  <2>. HIDE DEF At
  <2>. QED
    BY <2>2, <2>3
<1>5. ASSUME NEW n \in Nat, n \in U
      PROVE  n + 1 \in U
  <2>1. CASE n + 1 <= N
    <3>1. n + 1 \in 1..N /\ n + 1 \in 0..N /\ (n + 1) - 1 = n /\ n + 1 # 0 /\ At(f[n], n)
      BY <1>1, <1>5, <2>1
    <3>. DEFINE s == f[n]
                r == live[n + 1]
                c == CopyRow(tab, s, r)
    <3>2. f[n + 1] = c
      BY <1>3, <3>1
    <3>3. r \in RowType /\ Points(r, tab.heap) /\ ~r.dead
      BY <1>1, <3>1
    <3>4. s \in CopyType /\ Len(s.rows) = n /\ \A i \in 1..n : SameCell(s.rows[i], s.heap, live[i], tab.heap)
      BY <3>1
    <3>. HIDE DEF s, At
    <3>5. /\ c \in CopyType /\ Len(c.rows) = n + 1
          /\ \A i \in 1..n : c.rows[i] = s.rows[i]
          /\ Kept(s.heap, c.heap) /\ SameCell(c.rows[n + 1], c.heap, r, tab.heap)
      <4>. HIDE DEF r
      <4>. QED
        BY <3>3, <3>4, CopyRowIs
    <3>. HIDE DEF c
    <3>6. \A i \in 1..n : SameCell(c.rows[i], c.heap, live[i], tab.heap)
      <4>1. s.heap \in Seq(Texts) /\ c.heap \in Seq(Texts)
        BY <3>4, <3>5 DEF CopyType
      <4>2. ASSUME NEW i \in 1..n
            PROVE  SameCell(s.rows[i], c.heap, live[i], tab.heap)
        <5>1. SameCell(s.rows[i], s.heap, live[i], tab.heap)
          BY <3>4
        <5>. QED
          BY <3>5, <4>1, <5>1, SameCellKept
      <4>. QED
        BY <3>5, <4>2
    <3>7. \A i \in 1..n + 1 : i \in 1..n \/ i = n + 1
      OBVIOUS
    <3>8. At(c, n + 1)
      BY <3>5, <3>6, <3>7 DEF At
    <3>. QED
      BY <3>2, <3>8
  <2>2. CASE ~(n + 1 <= N)
    BY <2>2
  <2>. QED
    BY <2>1, <2>2
<1>6. At(f[N], N)
  <2>. HIDE DEF At
  <2>1. \A n \in Nat : n \in U
    <3>. HIDE DEF U
    <3>1. Nat \subseteq U
      BY <1>4, <1>5, Induction
    <3>. QED
      BY <3>1
  <2>. QED
    BY <1>1, <2>1
<1>. DEFINE end == f[N]
            c == Compacted(tab)
<1>7. c = [tab EXCEPT !.rows = end.rows, !.heap = end.heap, !.heapcap = Len(end.heap)]
  BY <1>2
<1>8. end.rows \in Seq(RowType) /\ end.heap \in Seq(Texts) /\ Len(end.heap) \in Nat
  BY <1>6 DEF CopyType
<1>. HIDE DEF end, c
<1>9. c \in TableType /\ c.loaded = tab.loaded /\ c.rows = end.rows /\ c.heap = end.heap
  BY <1>7, <1>8 DEF TableType
<1>10. At(end, N)
  BY <1>6 DEF end
<1>. QED
  BY <1>9, <1>10 DEF c, live, N

\* The rows that are left, with the texts that are left, are the contents.
LEMMA CompactedContents ==
  ASSUME NEW tab \in TableType, Good(tab.rows, tab.heap)
  PROVE  /\ Good(Compacted(tab).rows, Compacted(tab).heap)
         /\ Contents(Compacted(tab)) = Contents(tab)
<1>. DEFINE c == Compacted(tab)
            live == LiveRows(tab)
<1>1. /\ c \in TableType /\ Len(c.rows) = Len(live)
      /\ \A i \in 1..Len(live) : SameCell(c.rows[i], c.heap, live[i], tab.heap)
  BY CompactedIs
<1>2. live \in Seq(RowType)
  BY LiveGood
<1>. HIDE DEF c, live
<1>3. Good(c.rows, c.heap)
  BY <1>1 DEF Good, SameCell
<1>4. LiveRows(c) = c.rows
  <2>1. c.rows \in Seq(RowType)
    BY <1>1 DEF TableType
  <2>2. \A i \in 1..Len(c.rows) : ~c.rows[i].dead
    BY <1>1 DEF SameCell
  <2>. QED
    BY <2>1, <2>2, AllLive
<1>5. DOMAIN live = 1..Len(live) /\ DOMAIN c.rows = 1..Len(live)
  BY <1>1, <1>2 DEF TableType
<1>6. \A i \in 1..Len(live) : Cell(c, c.rows[i]) = Cell(tab, live[i])
  BY <1>1 DEF SameCell, Cell
<1>7. Contents(c) = [i \in 1..Len(live) |-> Cell(c, c.rows[i])]
  BY <1>4, <1>5 DEF Contents
<1>8. Contents(tab) = [i \in 1..Len(live) |-> Cell(tab, live[i])]
  BY <1>5 DEF Contents, live
<1>9. Contents(c) = Contents(tab)
  BY <1>6, <1>7, <1>8
<1>. QED
  BY <1>3, <1>9 DEF c

\* The same where only the dead rows were taken out.
LEMMA DenseContents ==
  ASSUME NEW tab \in TableType, Good(tab.rows, tab.heap),
         NEW dense, dense = [tab EXCEPT !.rows = LiveRows(tab)]
  PROVE  /\ dense \in TableType /\ dense.loaded = tab.loaded /\ dense.heap = tab.heap
         /\ Good(dense.rows, dense.heap) /\ Contents(dense) = Contents(tab)
<1>. DEFINE live == LiveRows(tab)
<1>1. live \in Seq(RowType) /\ Good(live, tab.heap) /\ \A i \in 1..Len(live) : ~live[i].dead
  BY LiveGood
<1>. HIDE DEF live
<1>2. dense = [tab EXCEPT !.rows = live]
  BY DEF live
<1>3. /\ dense \in TableType /\ dense.loaded = tab.loaded /\ dense.heap = tab.heap
      /\ dense.rows = live
  BY <1>1, <1>2 DEF TableType
<1>4. LiveRows(dense) = live
  BY <1>1, <1>3, AllLive
<1>5. Contents(dense) = Contents(tab)
  BY <1>3, <1>4 DEF Contents, Cell, live
<1>. QED
  BY <1>1, <1>3, <1>5

-----------------------------------------------------------------------------
(* The invariant.                                                          *)

TxnType == [active : BOOLEAN, saved : Seq(RowType)]

TypeInv ==
  /\ t \in TableType /\ txn \in TxnType
  /\ h \in [Handle -> {Closed} \cup OpenType]
  /\ pc \in {"idle", "schema", "header", "rows"}

\* The arenas a load has made by then.
InLoad ==
  CASE pc = "idle"   -> {}
    [] pc = "schema" -> {"schema"}
    [] pc = "header" -> {"schema", "csv"}
    [] pc = "rows"   -> {"schema", "csv", "new rows", "new heap"}

Holders == {x \in Handle : h[x].open} \cup (IF t.loaded THEN {"rows", "heap"} ELSE {}) \cup InLoad

MemInv ==
  /\ Books(m, IF pc = "idle" THEN 0 ELSE FileSize)
  /\ \A a \in Arenas : m.arena[a].allocd > 0 => a \in Holders
  /\ pc = "rows" /\ ~m.arena["new rows"].failed /\ ~m.arena["new heap"].failed
       => m.arena["schema"].allocd = 0

\* The rows of the table, and those a ROLLBACK leaves.
SavedInv(tab, tx) == tx.active => Good(tx.saved, tab.heap) /\ Len(tx.saved) = Len(tab.rows)

RowsInv ==
  /\ Good(t.rows, t.heap) /\ SavedInv(t, txn)
  /\ ~t.loaded => Len(t.rows) = 0

\* What an open handle keeps of its result.
Shows(stmt, heap) ==
  \A i \in 1..Len(stmt.rs) :
    /\ stmt.rs[i] \in 0..Len(heap)
    /\ stmt.snap[i] = IF stmt.rs[i] = 0 THEN NULL ELSE heap[stmt.rs[i]]

StmtInv(stmt, heap) ==
  /\ Len(stmt.rs) = Len(stmt.snap) /\ stmt.idx <= Len(stmt.rs)
  /\ stmt.failed => stmt.executed
  /\ ~stmt.executed => stmt.idx = 0
  /\ ~stmt.moved => Shows(stmt, heap)

HandleInv == \A x \in Handle : h[x].open => StmtInv(h[x], t.heap)

IInv == TypeInv /\ MemInv /\ RowsInv /\ HandleInv

-----------------------------------------------------------------------------
(* What each statement leaves, its memory between calls.                   *)

Left(r) ==
  /\ Books(r.m, 0) /\ \A a \in Arenas \ {"rows", "heap"} : r.m.arena[a] = m.arena[a]
  /\ ~t.loaded => r.m = m
  /\ r.t \in TableType /\ r.t.loaded = t.loaded /\ Kept(t.heap, r.t.heap)
  /\ Good(r.t.rows, r.t.heap) /\ (~t.loaded => Len(r.t.rows) = 0)
  /\ r.txn \in TxnType /\ SavedInv(r.t, r.txn)

Outcome(r) == Left(r) /\ r.ok \in BOOLEAN

Ready == TypeInv /\ RowsInv /\ Books(m, 0)

LEMMA KeptSame ==
  ASSUME NEW tab \in TableType
  PROVE  Kept(tab.heap, tab.heap)
BY DEF Kept, TableType

\* The table and the memory are as they were.
LEMMA SameOutcome ==
  ASSUME Ready, NEW r, r.m = m, r.t = t, r.txn \in TxnType, SavedInv(t, r.txn), r.ok \in BOOLEAN
  PROVE  Outcome(r)
<1>1. Kept(t.heap, t.heap)
  BY KeptSame DEF Ready, TypeInv
<1>. QED
  BY <1>1 DEF Ready, TypeInv, RowsInv, Outcome, Left

LEMMA RefusedIs ==
  ASSUME Ready
  PROVE  Outcome(Refused) /\ Refused.rs = <<>>
BY SameOutcome DEF Refused, Result, Ready, TypeInv, RowsInv

LEMMA SelectIs ==
  ASSUME Ready
  PROVE  /\ Outcome(Select) /\ Select.rs \in Seq(Nat) /\ Contents(t) \in Seq(Texts)
         /\ Len(Select.rs) = Len(Contents(t))
         /\ \A i \in 1..Len(Select.rs) :
              /\ Select.rs[i] \in 0..Len(t.heap)
              /\ Contents(t)[i] = IF Select.rs[i] = 0 THEN NULL ELSE t.heap[Select.rs[i]]
<1>. DEFINE live == LiveRows(t)
            rs == [i \in DOMAIN live |-> IF live[i].null THEN 0 ELSE live[i].ref]
<1>0. t \in TableType /\ t.rows \in Seq(RowType) /\ t.heap \in Seq(Texts) /\ Good(t.rows, t.heap)
  BY DEF Ready, TypeInv, RowsInv, TableType
<1>1. live \in Seq(RowType) /\ Good(live, t.heap)
  BY <1>0, LiveGood
<1>2. DOMAIN live = 1..Len(live) /\ Len(live) \in Nat
  BY <1>1
<1>3. Contents(t) = [i \in 1..Len(live) |-> Cell(t, live[i])]
  BY <1>2 DEF Contents
<1>. HIDE DEF live
<1>4. \A i \in 1..Len(live) : live[i].ref \in 0..Len(t.heap) /\ (~live[i].null => live[i].ref > 0)
  BY <1>1 DEF Good, Points
<1>5. \A i \in 1..Len(live) : Cell(t, live[i]) \in Texts
  BY <1>0, <1>4 DEF Cell, Texts
<1>6. Contents(t) \in Seq(Texts) /\ Len(Contents(t)) = Len(live)
  BY <1>2, <1>3, <1>5
<1>7. rs \in Seq(Nat) /\ Len(rs) = Len(live) /\ \A i \in 1..Len(live) : rs[i] \in 0..Len(t.heap)
  BY <1>0, <1>2, <1>4
<1>8. \A i \in 1..Len(live) : Cell(t, live[i]) = IF rs[i] = 0 THEN NULL ELSE t.heap[rs[i]]
  BY <1>2, <1>4 DEF Cell
<1>9. CASE ~t.loaded
  <2>1. Select = Refused
    BY <1>9 DEF Select
  <2>2. Len(live) = 0
    <3>1. Len(t.rows) = 0
      BY <1>9 DEF Ready, RowsInv
    <3>2. \A i \in 1..Len(live) : \E j \in 1..Len(t.rows) : live[i] = t.rows[j]
      BY <1>0, LiveRowsAre DEF live
    <3>. QED
      BY <1>2, <3>1, <3>2
  <2>3. Refused.rs = <<>> /\ Outcome(Refused)
    BY RefusedIs
  <2>. QED
    BY <1>6, <2>1, <2>2, <2>3
<1>10. CASE t.loaded
  <2>1. Select = Result(m, t, txn, TRUE, rs)
    BY <1>10 DEF Select, live
  <2>. HIDE DEF rs
  <2>2. Select.m = m /\ Select.t = t /\ Select.txn = txn /\ Select.ok = TRUE /\ Select.rs = rs
    BY <2>1 DEF Result
  <2>3. Outcome(Select)
    <3>1. txn \in TxnType /\ SavedInv(t, txn)
      BY DEF Ready, TypeInv, RowsInv
    <3>. QED
      BY <2>2, <3>1, SameOutcome
  <2>4. \A i \in 1..Len(live) : Contents(t)[i] = Cell(t, live[i])
    BY <1>3
  <2>. QED
    BY <1>6, <1>7, <1>8, <2>2, <2>3, <2>4
<1>. QED
  BY <1>9, <1>10

LEMMA BeginIs ==
  ASSUME Ready
  PROVE  Outcome(Begin) /\ Begin.rs = <<>>
<1>1. CASE txn.active
  BY <1>1, RefusedIs DEF Begin
<1>2. CASE ~txn.active
  <2>. DEFINE tx == [active |-> TRUE, saved |-> t.rows]
  <2>1. tx \in TxnType /\ SavedInv(t, tx)
    BY DEF Ready, TypeInv, RowsInv, TableType, TxnType, SavedInv
  <2>2. Begin.m = m /\ Begin.t = t /\ Begin.txn = tx /\ Begin.ok = TRUE /\ Begin.rs = <<>>
    BY <1>2 DEF Begin, Result
  <2>. HIDE DEF tx
  <2>. QED
    BY <2>1, <2>2, SameOutcome
<1>. QED
  BY <1>1, <1>2

LEMMA CommitIs ==
  ASSUME Ready
  PROVE  Outcome(Commit) /\ Commit.rs = <<>>
<1>1. CASE ~txn.active
  BY <1>1, RefusedIs DEF Commit
<1>2. CASE txn.active
  <2>1. NoTxn \in TxnType /\ SavedInv(t, NoTxn)
    BY DEF TxnType, SavedInv, NoTxn
  <2>2. Commit.m = m /\ Commit.t = t /\ Commit.txn = NoTxn /\ Commit.ok = TRUE /\ Commit.rs = <<>>
    BY <1>2 DEF Commit, Result
  <2>. QED
    BY <2>1, <2>2, SameOutcome
<1>. QED
  BY <1>1, <1>2

\* The rows of the table are others, the texts the same.
LEMMA RowsOutcome ==
  ASSUME Ready, NEW rows \in Seq(RowType), Good(rows, t.heap), ~t.loaded => Len(rows) = 0,
         NEW tx \in TxnType, tx.active => Good(tx.saved, t.heap) /\ Len(tx.saved) = Len(rows),
         NEW r, r.m = m, r.t = [t EXCEPT !.rows = rows], r.txn = tx, r.ok \in BOOLEAN
  PROVE  Outcome(r)
<1>0. t \in TableType
  BY DEF Ready, TypeInv
<1>1. r.t \in TableType /\ r.t.rows = rows /\ r.t.heap = t.heap /\ r.t.loaded = t.loaded
  BY <1>0 DEF TableType
<1>2. Kept(t.heap, t.heap)
  BY <1>0, KeptSame
<1>. QED
  BY <1>1, <1>2 DEF Outcome, Left, SavedInv, Ready

LEMMA DeadRow ==
  ASSUME NEW row \in RowType, NEW new, new = [row EXCEPT !.dead = TRUE]
  PROVE  new \in RowType /\ new.ref = row.ref /\ new.null = row.null
BY DEF RowType

LEMMA DeleteIs ==
  ASSUME Ready
  PROVE  Outcome(DeleteRows) /\ DeleteRows.rs = <<>>
<1>1. CASE ~t.loaded
  BY <1>1, RefusedIs DEF DeleteRows
<1>2. CASE t.loaded
  <2>. DEFINE rows == [i \in DOMAIN t.rows |-> [t.rows[i] EXCEPT !.dead = TRUE]]
  <2>0. t.rows \in Seq(RowType) /\ DOMAIN t.rows = 1..Len(t.rows) /\ Len(t.rows) \in Nat
    BY DEF Ready, TypeInv, TableType
  <2>1. \A i \in 1..Len(t.rows) :
          [t.rows[i] EXCEPT !.dead = TRUE] \in RowType
          /\ [t.rows[i] EXCEPT !.dead = TRUE].ref = t.rows[i].ref
          /\ [t.rows[i] EXCEPT !.dead = TRUE].null = t.rows[i].null
    <3>. TAKE i \in 1..Len(t.rows)
    <3>1. t.rows[i] \in RowType
      BY <2>0
    <3>. QED
      BY <3>1, DeadRow
  <2>2. rows \in Seq(RowType) /\ Len(rows) = Len(t.rows)
        /\ \A i \in 1..Len(t.rows) : rows[i].ref = t.rows[i].ref /\ rows[i].null = t.rows[i].null
    BY <2>0, <2>1
  <2>3. /\ DeleteRows.m = m /\ DeleteRows.t = [t EXCEPT !.rows = rows] /\ DeleteRows.txn = txn
        /\ DeleteRows.ok = TRUE /\ DeleteRows.rs = <<>>
    BY <1>2 DEF DeleteRows, Result
  <2>. HIDE DEF rows
  <2>4. Good(rows, t.heap)
    BY <2>2 DEF Ready, RowsInv, Good, Points
  <2>5. txn \in TxnType /\ (txn.active => Good(txn.saved, t.heap) /\ Len(txn.saved) = Len(rows))
    BY <2>2 DEF Ready, TypeInv, RowsInv, SavedInv
  <2>. QED
    BY <1>2, <2>2, <2>3, <2>4, <2>5, RowsOutcome
<1>. QED
  BY <1>1, <1>2

\* The rows that are taken back point to texts.
LEMMA RestoredIs ==
  ASSUME NEW heap, NEW old \in Seq(RowType), Good(old, heap), NEW rows \in Seq(RowType), Good(rows, heap),
         Len(old) <= Len(rows)
  PROVE  /\ Restored(old, rows) \in Seq(RowType) /\ Len(Restored(old, rows)) = Len(old)
         /\ Good(Restored(old, rows), heap)
<1>. DEFINE Row(i) == IF old[i].null THEN [old[i] EXCEPT !.ref = rows[i].ref] ELSE old[i]
<1>0. DOMAIN old = 1..Len(old) /\ Len(old) \in Nat /\ Len(rows) \in Nat
  OBVIOUS
<1>1. ASSUME NEW i \in 1..Len(old)
      PROVE  Row(i) \in RowType /\ Points(Row(i), heap)
  <2>1. old[i] \in RowType /\ rows[i] \in RowType /\ i \in 1..Len(rows)
    BY <1>0
  <2>2. Points(old[i], heap) /\ Points(rows[i], heap)
    BY <2>1 DEF Good
  <2>3. CASE old[i].null
    <3>. DEFINE row == [old[i] EXCEPT !.ref = rows[i].ref]
    <3>1. row \in RowType /\ row.ref = rows[i].ref /\ row.null
      BY <2>1, <2>3 DEF RowType
    <3>2. Row(i) = row
      BY <2>3
    <3>. HIDE DEF row
    <3>. QED
      BY <2>2, <3>1, <3>2 DEF Points
  <2>4. CASE ~old[i].null
    BY <2>1, <2>2, <2>4
  <2>. QED
    BY <2>3, <2>4
<1>2. Restored(old, rows) = [i \in 1..Len(old) |-> Row(i)]
  BY <1>0 DEF Restored
<1>. HIDE DEF Row
<1>3. Restored(old, rows) \in Seq(RowType) /\ Len(Restored(old, rows)) = Len(old)
  BY <1>0, <1>1, <1>2
<1>. QED
  BY <1>1, <1>2, <1>3 DEF Good

LEMMA RollbackIs ==
  ASSUME Ready
  PROVE  Outcome(Rollback) /\ Rollback.rs = <<>>
<1>1. CASE ~txn.active
  BY <1>1, RefusedIs DEF Rollback
<1>2. CASE txn.active
  <2>. DEFINE rows == Restored(txn.saved, t.rows)
  <2>0. /\ t.rows \in Seq(RowType) /\ Good(t.rows, t.heap) /\ Len(t.rows) \in Nat
        /\ txn.saved \in Seq(RowType) /\ Good(txn.saved, t.heap) /\ Len(txn.saved) = Len(t.rows)
    BY <1>2 DEF Ready, TypeInv, RowsInv, SavedInv, TableType, TxnType
  <2>1. rows \in Seq(RowType) /\ Len(rows) = Len(t.rows) /\ Good(rows, t.heap)
    BY <2>0, RestoredIs
  <2>2. /\ Rollback.m = m /\ Rollback.t = [t EXCEPT !.rows = rows] /\ Rollback.txn = NoTxn
        /\ Rollback.ok = TRUE /\ Rollback.rs = <<>>
    BY <1>2 DEF Rollback, Result
  <2>. HIDE DEF rows
  <2>3. NoTxn \in TxnType /\ ~NoTxn.active
    BY DEF TxnType, NoTxn
  <2>4. ~t.loaded => Len(rows) = 0
    BY <2>1 DEF Ready, RowsInv
  <2>. QED
    BY <2>1, <2>2, <2>3, <2>4, RowsOutcome
<1>. QED
  BY <1>1, <1>2

LEMMA ExtendedIs ==
  ASSUME Ready, NEW tab \in TableType, Kept(t.heap, tab.heap), Good(tab.rows, tab.heap),
         Len(t.rows) <= Len(tab.rows), NEW logged \in BOOLEAN
  PROVE  Extended(tab, logged) \in TxnType /\ SavedInv(tab, Extended(tab, logged))
<1>0. txn \in TxnType /\ t.heap \in Seq(Texts) /\ tab.heap \in Seq(Texts) /\ tab.rows \in Seq(RowType)
  BY DEF Ready, TypeInv, TableType
<1>1. CASE ~txn.active
  BY <1>0, <1>1 DEF Extended, SavedInv
<1>2. CASE txn.active
  <2>. DEFINE old == txn.saved
              k == Len(tab.rows) - Len(old)
              new == [i \in 1..k |-> Undone(tab.rows[Len(old) + i], logged)]
              saved == old \o new
  <2>1. old \in Seq(RowType) /\ Good(old, t.heap) /\ Len(old) = Len(t.rows) /\ Len(old) \in Nat
    BY <1>0, <1>2 DEF Ready, RowsInv, SavedInv, TxnType
  <2>2. k \in Nat /\ Len(tab.rows) \in Nat
    BY <1>0, <2>1
  <2>3. ASSUME NEW row \in RowType, Points(row, tab.heap)
        PROVE  Undone(row, logged) \in RowType /\ Points(Undone(row, logged), tab.heap)
    <3>1. logged \/ row.dead \in BOOLEAN
      BY DEF RowType
    <3>2. Undone(row, logged) \in RowType /\ Undone(row, logged).ref = row.ref /\ Undone(row, logged).null = row.null
      BY <3>1 DEF Undone, RowType
    <3>. QED
      BY <2>3, <3>2 DEF Points
  <2>4. \A i \in 1..k : new[i] \in RowType /\ Points(new[i], tab.heap)
    <3>. TAKE i \in 1..k
    <3>1. Len(old) + i \in 1..Len(tab.rows)
      BY <2>1, <2>2
    <3>2. tab.rows[Len(old) + i] \in RowType /\ Points(tab.rows[Len(old) + i], tab.heap)
      BY <1>0, <3>1 DEF Good
    <3>. QED
      BY <2>3, <3>2
  <2>. HIDE DEF k
  <2>5. new \in Seq(RowType) /\ Len(new) = k
    <3>1. new \in [1..k -> RowType]
      BY <2>4
    <3>2. k \in Nat
      BY <2>2
    <3>. HIDE DEF new
    <3>3. new \in Seq(RowType)
      BY <3>1, <3>2, SeqDef
    <3>4. DOMAIN new = 1..k
      BY <3>1
    <3>. QED
      BY <3>2, <3>3, <3>4
  <2>. HIDE DEF new, old
  <2>6. /\ saved \in Seq(RowType) /\ Len(saved) = Len(old) + k
        /\ \A i \in 1..Len(saved) : saved[i] = IF i <= Len(old) THEN old[i] ELSE new[i - Len(old)]
    <3>0. old \in Seq(RowType) /\ new \in Seq(RowType)
      BY <2>1, <2>5
    <3>1. /\ saved \in Seq(RowType) /\ Len(saved) = Len(old) + Len(new)
          /\ \A i \in 1..Len(old) + Len(new) : saved[i] = IF i <= Len(old) THEN old[i] ELSE new[i - Len(old)]
      BY <3>0, ConcatProperties, Zenon
    <3>. HIDE DEF saved
    <3>. QED
      BY <2>5, <3>1
  <2>7. Len(saved) = Len(tab.rows)
    BY <2>1, <2>2, <2>6 DEF k
  <2>8. Good(saved, tab.heap)
    <3>1. Good(old, tab.heap)
      BY <1>0, <2>1, KeptGood
    <3>2. ASSUME NEW i \in 1..Len(saved)
          PROVE  Points(saved[i], tab.heap)
      <4>1. CASE i <= Len(old)
        <5>1. i \in 1..Len(old) /\ saved[i] = old[i]
          BY <2>1, <2>6, <4>1
        <5>. QED
          BY <3>1, <5>1 DEF Good
      <4>2. CASE ~(i <= Len(old))
        <5>1. i - Len(old) \in 1..k /\ saved[i] = new[i - Len(old)]
          BY <2>1, <2>2, <2>6, <4>2
        <5>. QED
          BY <2>4, <5>1
      <4>. QED
        BY <4>1, <4>2
    <3>. QED
      BY <3>2 DEF Good
  <2>9. Extended(tab, logged) = [txn EXCEPT !.saved = saved]
    BY <1>2 DEF Extended, old, new, k
  <2>. HIDE DEF saved
  <2>10. Extended(tab, logged) \in TxnType /\ Extended(tab, logged).saved = saved
    BY <1>0, <2>6, <2>9 DEF TxnType
  <2>. QED
    BY <2>7, <2>8, <2>10 DEF SavedInv
<1>. QED
  BY <1>1, <1>2

\* The start of a loop, or of a row.
LEMMA StartIs ==
  ASSUME Ready, NEW s, s = [m |-> m, t |-> t, ref |-> 0]
  PROVE  s \in StateType /\ s.m = m /\ s.t = t /\ Books(s.m, 0)
<1>1. m \in MemType /\ t \in TableType /\ Books(m, 0)
  BY DEF Ready, TypeInv, Books
<1>. QED
  BY <1>1 DEF StateType

LEMMA TableArenas == {"rows", "heap", "schema", "csv", "new rows", "new heap"} \subseteq Arenas
BY DEF Arenas, OwnArenas

LEMMA InsertIs ==
  ASSUME Ready, NEW v \in Text \cup {NULL}, NEW malloc
  PROVE  Outcome(InsertRow(v, malloc)) /\ InsertRow(v, malloc).rs = <<>>
<1>. DEFINE n == Len(t.rows) + 1
            s == [m |-> m, t |-> t, ref |-> 0]
            app == table_append_row(s, "rows", malloc)
            set == table_set_text(app, n, v, malloc)
            dead == [set.t EXCEPT !.rows[n].dead = TRUE]
            r == InsertRow(v, malloc)
<1>0. t.rows \in Seq(RowType) /\ t.heap \in Seq(Texts) /\ Len(t.rows) \in Nat /\ Good(t.rows, t.heap)
      /\ t \in TableType
  BY DEF Ready, TypeInv, RowsInv, TableType
<1>1. s \in StateType /\ s.m = m /\ s.t = t /\ Books(s.m, 0)
  <2>. HIDE DEF s
  <2>. QED
    BY StartIs DEF s
<1>2. r = IF ~t.loaded THEN Refused
          ELSE IF app.ref = -1 THEN Result(app.m, t, txn, FALSE, <<>>)
          ELSE IF table_failed(app.m) THEN Result(app.m, app.t, Extended(app.t, FALSE), FALSE, <<>>)
          ELSE IF table_failed(set.m) THEN Result(set.m, dead, Extended(dead, TRUE), FALSE, <<>>)
          ELSE Result(set.m, set.t, Extended(set.t, TRUE), TRUE, <<>>)
  BY DEF InsertRow
<1>. HIDE DEF s, r
<1>3. /\ app \in StateType /\ Books(app.m, 0) /\ Others(m, app.m, "rows")
      /\ app.t.loaded = t.loaded /\ app.t.heap = t.heap
      /\ \/ app.ref = -1 /\ app.t = t
         \/ app.ref = 0 /\ app.t.rows = Append(t.rows, Blank)
  <2>. HIDE DEF app
  <2>1. "rows" \in Arenas /\ 0 \in Nat
    BY TableArenas
  <2>2. /\ app \in StateType /\ Books(app.m, 0) /\ Others(s.m, app.m, "rows")
        /\ app.t.loaded = s.t.loaded /\ app.t.heap = s.t.heap
        /\ \/ app.ref = -1 /\ app.t = s.t
           \/ app.ref = 0 /\ app.t.rows = Append(s.t.rows, Blank)
    BY <1>1, <2>1, AppendRow DEF app
  <2>. QED
    BY <1>1, <2>2
<1>. HIDE DEF app
<1>4. \A a \in Arenas \ {"rows", "heap"} : app.m.arena[a] = m.arena[a]
  BY <1>3 DEF Others
<1>5. Kept(t.heap, t.heap)
  BY <1>0, KeptSame
<1>6. CASE ~t.loaded
  BY <1>2, <1>6, RefusedIs DEF r
<1>7. CASE t.loaded /\ app.ref = -1
  <2>1. r.m = app.m /\ r.t = t /\ r.txn = txn /\ r.ok = FALSE /\ r.rs = <<>>
    BY <1>2, <1>7 DEF Result
  <2>2. txn \in TxnType /\ SavedInv(t, txn)
    BY DEF Ready, TypeInv, RowsInv
  <2>3. Outcome(r)
    BY <1>0, <1>3, <1>4, <1>5, <1>7, <2>1, <2>2 DEF Outcome, Left
  <2>. QED
    BY <2>1, <2>3 DEF r
<1>8. CASE t.loaded /\ app.ref # -1
  <2>1. Blank \in RowType /\ Points(Blank, t.heap)
    BY <1>0 DEF Blank, RowType, Points
  <2>2. /\ app.t.rows \in Seq(RowType) /\ Len(app.t.rows) = n /\ app.t.rows[n] = Blank
        /\ \A i \in 1..Len(t.rows) : app.t.rows[i] = t.rows[i]
    <3>1. app.t.rows = Append(t.rows, Blank)
      BY <1>3, <1>8
    <3>. QED
      BY <1>0, <2>1, <3>1, AppendIs
  <2>3. n \in 1..Len(app.t.rows) /\ n \in Nat
    BY <1>0, <2>2
  <2>4. Good(app.t.rows, app.t.heap)
    <3>1. \A i \in 1..Len(app.t.rows) : i \in 1..Len(t.rows) \/ i = n
      BY <1>0, <2>2
    <3>. HIDE DEF n
    <3>. QED
      BY <1>0, <1>3, <2>1, <2>2, <3>1 DEF Good
  <2>5. app.t \in TableType
    BY <1>3 DEF StateType
  <2>6. /\ set \in StateType /\ Books(set.m, 0) /\ Others(app.m, set.m, "heap")
        /\ set.t.loaded = t.loaded /\ Len(set.t.rows) = n /\ Kept(t.heap, set.t.heap)
        /\ Good(set.t.rows, set.t.heap)
    <3>. HIDE DEF set, n
    <3>1. 0 \in Nat
      OBVIOUS
    <3>2. /\ set \in StateType /\ Books(set.m, 0) /\ Others(app.m, set.m, "heap")
          /\ set.t.loaded = app.t.loaded /\ Len(set.t.rows) = Len(app.t.rows)
          /\ Kept(app.t.heap, set.t.heap)
          /\ Good(app.t.rows, app.t.heap) => Good(set.t.rows, set.t.heap)
      BY <1>3, <2>3, <3>1, SetText DEF set
    <3>. QED
      BY <1>3, <2>2, <2>4, <3>2
  <2>. DEFINE row == set.t.rows[n]
              gone == [row EXCEPT !.dead = TRUE]
  <2>. HIDE DEF set
  <2>7. set.t \in TableType /\ row \in RowType /\ n \in 1..Len(set.t.rows)
    <3>1. set.t \in TableType /\ n \in 1..Len(set.t.rows)
      BY <2>2, <2>3, <2>6 DEF StateType
    <3>. HIDE DEF n
    <3>. QED
      BY <3>1 DEF TableType
  <2>8. \A a \in Arenas \ {"rows", "heap"} : set.m.arena[a] = m.arena[a]
    BY <1>4, <2>6 DEF Others
  <2>. HIDE DEF n, row
  <2>9. gone \in RowType /\ gone.ref = row.ref /\ gone.null = row.null
    BY <2>7, DeadRow
  <2>10. dead = WithRow(set.t, n, gone)
    BY <2>7 DEF WithRow, TableType, row
  <2>. HIDE DEF dead, gone
  <2>11. /\ dead \in TableType /\ Len(dead.rows) = n /\ dead.heap = set.t.heap /\ dead.loaded = t.loaded
    BY <2>6, <2>7, <2>9, <2>10, WithRowIs
  <2>12. Good(dead.rows, dead.heap)
    <3>1. Points(row, set.t.heap)
      BY <2>6, <2>7 DEF Good, row
    <3>2. Points(gone, set.t.heap)
      BY <2>9, <3>1 DEF Points
    <3>3. \A i \in 1..Len(set.t.rows) : i # n => Points(set.t.rows[i], set.t.heap)
      BY <2>6 DEF Good
    <3>4. Good(WithRow(set.t, n, gone).rows, set.t.heap)
      BY <2>7, <2>9, <3>2, <3>3, WithGoodRow
    <3>. QED
      BY <2>10, <2>11, <3>4
  <2>13. Len(t.rows) <= n
    BY <1>0 DEF n
  <2>14. CASE table_failed(app.m)
    <3>1. /\ r.m = app.m /\ r.t = app.t /\ r.txn = Extended(app.t, FALSE) /\ r.ok = FALSE
          /\ r.rs = <<>>
      BY <1>2, <1>8, <2>14 DEF Result
    <3>2. Extended(app.t, FALSE) \in TxnType /\ SavedInv(app.t, Extended(app.t, FALSE))
      BY <1>3, <1>5, <2>2, <2>4, <2>5, <2>13, ExtendedIs
    <3>3. Outcome(r)
      BY <1>3, <1>4, <1>5, <1>8, <2>4, <2>5, <3>1, <3>2 DEF Outcome, Left
    <3>. QED
      BY <3>1, <3>3 DEF r
  <2>15. CASE ~table_failed(app.m) /\ table_failed(set.m)
    <3>1. /\ r.m = set.m /\ r.t = dead /\ r.txn = Extended(dead, TRUE) /\ r.ok = FALSE
          /\ r.rs = <<>>
      BY <1>2, <1>8, <2>15 DEF Result
    <3>2. Extended(dead, TRUE) \in TxnType /\ SavedInv(dead, Extended(dead, TRUE))
      BY <2>6, <2>11, <2>12, <2>13, ExtendedIs
    <3>3. Outcome(r)
      BY <1>8, <2>6, <2>8, <2>11, <2>12, <3>1, <3>2 DEF Outcome, Left
    <3>. QED
      BY <3>1, <3>3 DEF r
  <2>16. CASE ~table_failed(app.m) /\ ~table_failed(set.m)
    <3>1. /\ r.m = set.m /\ r.t = set.t /\ r.txn = Extended(set.t, TRUE) /\ r.ok = TRUE
          /\ r.rs = <<>>
      BY <1>2, <1>8, <2>16 DEF Result
    <3>2. Extended(set.t, TRUE) \in TxnType /\ SavedInv(set.t, Extended(set.t, TRUE))
      BY <2>6, <2>7, <2>13, ExtendedIs
    <3>3. Outcome(r)
      BY <1>8, <2>6, <2>7, <2>8, <3>1, <3>2 DEF Outcome, Left
    <3>. QED
      BY <3>1, <3>3 DEF r
  <2>. QED
    BY <2>14, <2>15, <2>16
<1>. QED
  BY <1>6, <1>7, <1>8

LEMMA KeptTwice ==
  ASSUME NEW heap1 \in Seq(Texts), NEW heap2 \in Seq(Texts), NEW heap3 \in Seq(Texts),
         Kept(heap1, heap2), Kept(heap2, heap3)
  PROVE  Kept(heap1, heap3)
BY DEF Kept

\* The states an UPDATE goes through.
Updating ==
  {s \in StateType :
     /\ Books(s.m, 0) /\ \A a \in Arenas \ {"rows", "heap"} : s.m.arena[a] = m.arena[a]
     /\ s.t.loaded = t.loaded /\ Len(s.t.rows) = Len(t.rows)
     /\ Kept(t.heap, s.t.heap) /\ Good(s.t.rows, s.t.heap)}

UpdateOne(s, row, v, malloc) ==
  LET new == table_set_text(s, row, v, malloc)
  IN  [new EXCEPT !.ref = IF table_failed(new.m) THEN -1 ELSE 0]

LEMMA UpdateOneIs ==
  ASSUME Ready, NEW s \in Updating, NEW row \in 1..Len(t.rows), NEW v \in Text \cup {NULL}, NEW malloc
  PROVE  UpdateOne(s, row, v, malloc) \in Updating
<1>. DEFINE new == table_set_text(s, row, v, malloc)
            ref == IF table_failed(new.m) THEN -1 ELSE 0
            r == UpdateOne(s, row, v, malloc)
<1>1. /\ s \in StateType /\ Books(s.m, 0) /\ \A a \in Arenas \ {"rows", "heap"} : s.m.arena[a] = m.arena[a]
      /\ s.t.loaded = t.loaded /\ Len(s.t.rows) = Len(t.rows)
      /\ Kept(t.heap, s.t.heap) /\ Good(s.t.rows, s.t.heap)
  BY DEF Updating
<1>2. /\ new \in StateType /\ Books(new.m, 0) /\ Others(s.m, new.m, "heap")
      /\ new.t.loaded = s.t.loaded /\ Len(new.t.rows) = Len(s.t.rows) /\ Kept(s.t.heap, new.t.heap)
      /\ Good(s.t.rows, s.t.heap) => Good(new.t.rows, new.t.heap)
  <2>1. row \in 1..Len(s.t.rows) /\ 0 \in Nat
    BY <1>1
  <2>. HIDE DEF new
  <2>. QED
    BY <1>1, <2>1, SetText DEF new
<1>3. ref \in Int
  OBVIOUS
<1>4. r = [new EXCEPT !.ref = ref]
  BY DEF UpdateOne
<1>. HIDE DEF new, ref, r
<1>5. r = [m |-> new.m, t |-> new.t, ref |-> ref]
  BY <1>2, <1>4 DEF StateType
<1>6. r \in StateType /\ r.m = new.m /\ r.t = new.t
  BY <1>2, <1>3, <1>5 DEF StateType
<1>7. Kept(t.heap, new.t.heap)
  <2>1. t.heap \in Seq(Texts) /\ s.t.heap \in Seq(Texts) /\ new.t.heap \in Seq(Texts)
    BY <1>1, <1>2 DEF Ready, TypeInv, TableType, StateType
  <2>. QED
    BY <1>1, <1>2, <2>1, KeptTwice
<1>8. \A a \in Arenas \ {"rows", "heap"} : new.m.arena[a] = m.arena[a]
  BY <1>1, <1>2 DEF Others
<1>9. r \in Updating
  BY <1>1, <1>2, <1>6, <1>7, <1>8 DEF Updating
<1>. QED
  BY <1>9 DEF r

LEMMA UpdateIs ==
  ASSUME Ready, NEW v \in Text \cup {NULL}, NEW malloc
  PROVE  Outcome(UpdateRows(v, malloc)) /\ UpdateRows(v, malloc).rs = <<>>
<1>. DEFINE start == [m |-> m, t |-> t, ref |-> 0]
            N == Len(t.rows)
            X == Updating
            Round(n, s) == IF t.rows[n].dead \/ s.ref = -1 THEN s ELSE UpdateOne(s, n, v, malloc)
            G == [n \in 1..N |-> [s \in X |-> Round(n, s)]]
            One(s, row) == LET new == table_set_text(s, row, v, malloc)
                           IN  [new EXCEPT !.ref = IF table_failed(new.m) THEN -1 ELSE 0]
            Loop(f) == f = [n \in 0..Len(t.rows) |->
                              IF n = 0 THEN [m |-> m, t |-> t, ref |-> 0]
                              ELSE IF t.rows[n].dead \/ f[n - 1].ref = -1 THEN f[n - 1]
                              ELSE One(f[n - 1], n)]
            set == CHOOSE f : Loop(f)
            end == set[Len(t.rows)]
            r == UpdateRows(v, malloc)
<1>0. N \in Nat /\ t \in TableType /\ t.heap \in Seq(Texts)
  BY DEF Ready, TypeInv, TableType
<1>1. start \in X
  <2>. HIDE DEF start
  <2>1. start \in StateType /\ start.m = m /\ start.t = t /\ Books(start.m, 0)
    BY StartIs DEF start
  <2>2. Kept(t.heap, t.heap)
    BY <1>0, KeptSame
  <2>. QED
    BY <2>1, <2>2 DEF Updating, Ready, RowsInv
<1>2. \A n \in 1..N : \A s \in X : Round(n, s) \in X
  <2>. SUFFICES ASSUME NEW n \in 1..N, NEW s \in X
                PROVE  Round(n, s) \in X
    OBVIOUS
  <2>. HIDE DEF X
  <2>1. UpdateOne(s, n, v, malloc) \in X
    BY UpdateOneIs DEF X
  <2>. QED
    BY <2>1
<1>3. \A s, n : UpdateOne(s, n, v, malloc) = One(s, n)
  BY DEF UpdateOne
<1>. HIDE DEF X, One, Round, start
<1>4. PICK f : IsLoopTo(f, X, N, start, G)
  <2>1. G \in ToRounds(X, N)
    <3>. HIDE DEF N
    <3>. QED
      BY <1>2 DEF ToRounds
  <2>. HIDE DEF G, N
  <2>. QED
    BY <1>0, <1>1, <2>1, RoundsTo
<1>5. f \in [0..N -> X] /\ f[0] = start /\ \A n \in 1..N : f[n] = G[n][f[n - 1]]
  <2>. HIDE DEF G, N
  <2>. QED
    BY <1>4 DEF IsLoopTo
<1>6. ASSUME NEW n \in 1..N
      PROVE  f[n] = Round(n, f[n - 1])
  <2>1. n - 1 \in 0..N
    BY <1>0
  <2>. HIDE DEF N
  <2>2. f[n - 1] \in X
    BY <1>5, <2>1
  <2>. QED
    BY <1>5, <2>2
<1>7. ASSUME NEW n, NEW s
      PROVE  Round(n, s) = IF t.rows[n].dead \/ s.ref = -1 THEN s ELSE One(s, n)
  BY <1>3 DEF Round
<1>8. Loop(f)
  <2>1. \A n \in 0..N : n # 0 => n \in 1..N
    BY <1>0
  <2>. HIDE DEF N, G
  <2>2. \A n \in 0..N : f[n] = IF n = 0 THEN start
                               ELSE IF t.rows[n].dead \/ f[n - 1].ref = -1 THEN f[n - 1] ELSE One(f[n - 1], n)
    BY <1>5, <1>6, <1>7, <2>1
  <2>3. f = [n \in 0..N |-> IF n = 0 THEN start
                            ELSE IF t.rows[n].dead \/ f[n - 1].ref = -1 THEN f[n - 1] ELSE One(f[n - 1], n)]
    BY <1>5, <2>2
  <2>. QED
    BY <2>3 DEF N, start
<1>9. Loop(set)
  BY <1>8, Zenon
<1>10. r = IF ~t.loaded THEN Refused
           ELSE IF end.ref = -1
           THEN Result(end.m, [end.t EXCEPT !.rows = Restored(t.rows, end.t.rows)], txn, FALSE, <<>>)
           ELSE Result(end.m, end.t, txn, TRUE, <<>>)
  BY DEF UpdateRows, One
<1>11. \A n \in 0..N : set[n] = IF n = 0 THEN start
                                ELSE IF t.rows[n].dead \/ set[n - 1].ref = -1 THEN set[n - 1]
                                ELSE One(set[n - 1], n)
  <2>. HIDE DEF set
  <2>. QED
    BY <1>9, Zenon DEF start
<1>. HIDE DEF set, r
<1>12. end \in X
  <2>1. set[0] \in X
    BY <1>0, <1>1, <1>11
  <2>2. ASSUME NEW n \in 1..N, set[n - 1] \in X
        PROVE  set[n] \in X
    <3>1. n \in 0..N /\ n # 0
      BY <1>0
    <3>2. set[n] = Round(n, set[n - 1])
      <4>. HIDE DEF N
      <4>1. set[n] = IF t.rows[n].dead \/ set[n - 1].ref = -1 THEN set[n - 1] ELSE One(set[n - 1], n)
        BY <1>11, <3>1
      <4>. QED
        BY <1>7, <4>1
    <3>. QED
      BY <1>2, <2>2, <3>2
  <2>3. \A n \in 0..N : set[n] \in X
    <3>. HIDE DEF N
    <3>. QED
      BY <1>0, <2>1, <2>2, LoopIn
  <2>. QED
    BY <1>0, <2>3
<1>. HIDE DEF end
<1>13. /\ end \in StateType /\ Books(end.m, 0)
       /\ \A a \in Arenas \ {"rows", "heap"} : end.m.arena[a] = m.arena[a]
       /\ end.t.loaded = t.loaded /\ Len(end.t.rows) = Len(t.rows)
       /\ Kept(t.heap, end.t.heap) /\ Good(end.t.rows, end.t.heap)
  BY <1>12 DEF X, Updating
<1>14. end.t \in TableType /\ end.t.heap \in Seq(Texts) /\ end.t.rows \in Seq(RowType)
  BY <1>13 DEF StateType, TableType
<1>15. txn \in TxnType /\ SavedInv(t, txn)
  BY DEF Ready, TypeInv, RowsInv
<1>16. ASSUME NEW tab, Kept(t.heap, tab.heap), tab.heap \in Seq(Texts), Len(tab.rows) = Len(t.rows)
       PROVE  SavedInv(tab, txn)
  BY <1>0, <1>15, <1>16, KeptGood DEF SavedInv
<1>17. CASE ~t.loaded
  BY <1>10, <1>17, RefusedIs DEF r
<1>18. CASE t.loaded /\ end.ref = -1
  <2>. DEFINE rows == Restored(t.rows, end.t.rows)
              tab == [end.t EXCEPT !.rows = rows]
  <2>1. rows \in Seq(RowType) /\ Len(rows) = Len(t.rows) /\ Good(rows, end.t.heap)
    <3>1. t.rows \in Seq(RowType) /\ Len(t.rows) <= Len(end.t.rows)
      BY <1>0, <1>13 DEF TableType
    <3>2. Good(t.rows, end.t.heap)
      BY <1>0, <1>13, <1>14, KeptGood DEF Ready, RowsInv
    <3>. QED
      BY <1>13, <1>14, <3>1, <3>2, RestoredIs
  <2>2. r.m = end.m /\ r.t = tab /\ r.txn = txn /\ r.ok = FALSE /\ r.rs = <<>>
    BY <1>10, <1>18 DEF Result
  <2>. HIDE DEF rows
  <2>3. tab \in TableType /\ tab.rows = rows /\ tab.heap = end.t.heap /\ tab.loaded = t.loaded
    BY <1>13, <1>14, <2>1 DEF TableType
  <2>. HIDE DEF tab
  <2>4. SavedInv(tab, txn)
    BY <1>13, <1>14, <1>16, <2>1, <2>3
  <2>5. Outcome(r)
    BY <1>13, <1>15, <1>18, <2>1, <2>2, <2>3, <2>4 DEF Outcome, Left
  <2>. QED
    BY <2>2, <2>5 DEF r
<1>19. CASE t.loaded /\ end.ref # -1
  <2>1. r.m = end.m /\ r.t = end.t /\ r.txn = txn /\ r.ok = TRUE /\ r.rs = <<>>
    BY <1>10, <1>19 DEF Result
  <2>2. SavedInv(end.t, txn)
    BY <1>13, <1>14, <1>16
  <2>3. Outcome(r)
    BY <1>13, <1>14, <1>15, <1>19, <2>1, <2>2 DEF Outcome, Left
  <2>. QED
    BY <2>1, <2>3 DEF r
<1>. QED
  BY <1>17, <1>18, <1>19

LEMMA ExecIs ==
  ASSUME Ready, NEW x \in Handle, h[x] \in OpenType, NEW malloc
  PROVE  /\ Outcome(Exec(x, malloc))
         /\ h[x].kind = "select" => Exec(x, malloc) = Select
         /\ h[x].kind # "select" => Exec(x, malloc).rs = <<>>
<1>1. /\ h[x].param \in Text \cup {NULL}
      /\ h[x].kind \in {"select", "insert", "update", "delete", "begin", "commit", "rollback"}
  BY ClientAssumption DEF OpenType
<1>2. CASE h[x].kind = "select"
  BY <1>2, SelectIs DEF Exec
<1>3. CASE h[x].kind = "insert"
  <2>1. Exec(x, malloc) = InsertRow(h[x].param, malloc)
    BY <1>3 DEF Exec
  <2>. QED
    BY <1>1, <1>3, <2>1, InsertIs
<1>4. CASE h[x].kind = "update"
  <2>1. Exec(x, malloc) = UpdateRows(h[x].param, malloc)
    BY <1>4 DEF Exec
  <2>. QED
    BY <1>1, <1>4, <2>1, UpdateIs
<1>5. CASE h[x].kind = "delete"
  BY <1>5, DeleteIs DEF Exec
<1>6. CASE h[x].kind = "begin"
  BY <1>6, BeginIs DEF Exec
<1>7. CASE h[x].kind = "commit"
  BY <1>7, CommitIs DEF Exec
<1>8. CASE h[x].kind = "rollback"
  BY <1>8, RollbackIs DEF Exec
<1>. QED
  BY <1>1, <1>2, <1>3, <1>4, <1>5, <1>6, <1>7, <1>8

\* A result shows the same where the heap has grown.
LEMMA KeptStmt ==
  ASSUME NEW heap1 \in Seq(Texts), NEW heap2 \in Seq(Texts), Kept(heap1, heap2),
         NEW stmt, StmtInv(stmt, heap1)
  PROVE  StmtInv(stmt, heap2)
<1>1. Len(heap1) \in Nat /\ Len(heap2) \in Nat
  OBVIOUS
<1>2. Shows(stmt, heap1) => Shows(stmt, heap2)
  BY <1>1 DEF Shows, Kept
<1>. QED
  BY <1>2 DEF StmtInv

LEMMA EnsureExecutedIs ==
  ASSUME Ready, HandleInv, NEW x \in Handle, h[x] \in OpenType, NEW malloc,
         NEW e, e = ensure_executed(x, malloc)
  PROVE  /\ Left(e) /\ e.stmt \in OpenType /\ StmtInv(e.stmt, e.t.heap) /\ e.stmt.executed
         /\ h[x].executed => e.t = t /\ e.stmt = h[x]
<1>0. h[x].open
  BY DEF OpenType
<1>1. CASE h[x].executed
  <2>1. e = [m |-> m, t |-> t, txn |-> txn, stmt |-> h[x]]
    BY <1>1 DEF ensure_executed
  <2>2. Kept(t.heap, t.heap)
    BY KeptSame DEF Ready, TypeInv
  <2>3. Left(e)
    BY <2>1, <2>2 DEF Left, Ready, TypeInv, RowsInv
  <2>. QED
    BY <1>0, <1>1, <2>1, <2>3 DEF HandleInv
<1>2. CASE ~h[x].executed
  <2>. DEFINE r == Exec(x, malloc)
              snap == IF h[x].kind = "select" THEN Contents(t) ELSE <<>>
              stmt == [h[x] EXCEPT !.executed = TRUE, !.failed = ~r.ok, !.rs = r.rs, !.snap = snap]
  <2>1. Outcome(r)
    BY ExecIs
  <2>2. r.ok \in BOOLEAN
    BY <2>1 DEF Outcome
  <2>3. /\ r.rs \in Seq(Nat) /\ snap \in Seq(Texts) /\ Len(r.rs) = Len(snap)
        /\ \A i \in 1..Len(r.rs) : /\ r.rs[i] \in 0..Len(t.heap)
                                   /\ snap[i] = IF r.rs[i] = 0 THEN NULL ELSE t.heap[r.rs[i]]
    <3>1. CASE h[x].kind = "select"
      <4>1. r = Select /\ snap = Contents(t)
        BY <3>1, ExecIs
      <4>. HIDE DEF r, snap
      <4>. QED
        BY <4>1, SelectIs
    <3>2. CASE h[x].kind # "select"
      <4>1. r.rs = <<>> /\ snap = <<>>
        BY <3>2, ExecIs
      <4>. HIDE DEF r, snap
      <4>. QED
        BY <4>1
    <3>. QED
      BY <3>1, <3>2
  <2>4. e = [m |-> r.m, t |-> r.t, txn |-> r.txn, stmt |-> stmt]
    BY <1>2 DEF ensure_executed, Executed
  <2>. HIDE DEF r, snap
  <2>5. stmt \in OpenType
    BY <2>2, <2>3 DEF OpenType
  <2>6. /\ stmt.rs = r.rs /\ stmt.snap = snap /\ stmt.executed /\ stmt.failed = ~r.ok
        /\ stmt.idx = h[x].idx /\ stmt.moved = h[x].moved
    BY DEF OpenType
  <2>. HIDE DEF stmt
  <2>7. e.m = r.m /\ e.t = r.t /\ e.txn = r.txn /\ e.stmt = stmt
    BY <2>4
  <2>8. Left(e)
    BY <2>1, <2>7 DEF Outcome, Left
  <2>9. StmtInv(stmt, t.heap)
    <3>1. h[x].idx = 0 /\ Len(r.rs) \in Nat
      BY <1>0, <1>2, <2>3 DEF HandleInv, StmtInv
    <3>. QED
      BY <2>3, <2>6, <3>1 DEF StmtInv, Shows
  <2>10. StmtInv(stmt, r.t.heap)
    <3>1. t.heap \in Seq(Texts) /\ r.t.heap \in Seq(Texts) /\ Kept(t.heap, r.t.heap)
      BY <2>1 DEF Outcome, Left, Ready, TypeInv, TableType
    <3>. QED
      BY <2>9, <3>1, KeptStmt
  <2>. QED
    BY <1>2, <2>5, <2>6, <2>7, <2>8, <2>10
<1>. QED
  BY <1>1, <1>2

-----------------------------------------------------------------------------
(* The invariant holds, first where a program starts.                      *)

LEMMA InitIInv == Init => IInv
<1>. SUFFICES ASSUME Init
              PROVE  IInv
  OBVIOUS
<1>. USE DEF Init
<1>1. TypeInv
  <2>1. NoTable \in TableType
    BY DEF NoTable, TableType
  <2>2. NoTxn \in TxnType
    BY DEF NoTxn, TxnType
  <2>. QED
    BY <2>1, <2>2 DEF TypeInv
<1>2. MemInv
  <2>1. m \in MemType /\ m.used = 0 /\ \A a \in Arenas : m.arena[a].allocd = 0
    BY NoArenaType DEF MemType
  <2>2. Charged(m) = 0
    BY <2>1, ChargedNothing
  <2>3. Books(m, 0)
    BY <2>1, <2>2, MemoryAssumption DEF Books
  <2>4. \A a \in Arenas : ~(m.arena[a].allocd > 0)
    BY <2>1
  <2>. QED
    BY <2>3, <2>4 DEF MemInv
<1>3. RowsInv
  BY DEF RowsInv, Good, SavedInv, NoTable, NoTxn
<1>4. HandleInv
  BY DEF HandleInv, Closed
<1>. QED
  BY <1>1, <1>2, <1>3, <1>4 DEF IInv

LEMMA IdleReady ==
  ASSUME IInv, pc = "idle"
  PROVE  Ready /\ HandleInv
BY DEF IInv, MemInv, Ready

\* An arena nobody holds charged nothing.
LEMMA NotHeld ==
  ASSUME IInv, NEW a \in Arenas, a \notin Holders
  PROVE  m.arena[a].allocd = 0
<1>1. m.arena[a].allocd \in Nat /\ ~(m.arena[a].allocd > 0)
  BY DEF IInv, MemInv, Books, MemType, ArenaType
<1>. QED
  BY <1>1

\* The names of a load's arenas are no handle's.
LEMMA Names ==
  /\ \A a \in OwnArenas : a \in Arenas /\ a \notin Handle
  /\ \A x \in Handle : x \in Arenas /\ x \notin OwnArenas
  /\ OwnArenas = {"rows", "heap", "schema", "csv", "new rows", "new heap"}
BY HandleAssumption DEF Arenas, OwnArenas

\* One handle changes, the table does not.
LEMMA HandleChange ==
  ASSUME IInv, NEW x \in Handle, NEW stmt \in {Closed} \cup OpenType,
         stmt.open => StmtInv(stmt, t.heap),
         h' = [h EXCEPT ![x] = stmt], UNCHANGED <<t, txn, pc>>
  PROVE  TypeInv' /\ RowsInv' /\ HandleInv'
<1>1. h \in [Handle -> {Closed} \cup OpenType]
  BY DEF IInv, TypeInv
<1>2. TypeInv'
  BY <1>1 DEF IInv, TypeInv
<1>3. RowsInv'
  BY DEF IInv, RowsInv
<1>4. HandleInv'
  <2>1. ASSUME NEW y \in Handle, h'[y].open
        PROVE  StmtInv(h'[y], t'.heap)
    <3>1. CASE y = x
      BY <1>1, <2>1, <3>1
    <3>2. CASE y # x
      BY <1>1, <2>1, <3>2 DEF IInv, HandleInv
    <3>. QED
      BY <3>1, <3>2
  <2>. QED
    BY <2>1 DEF HandleInv
<1>. QED
  BY <1>2, <1>3, <1>4

\* The memory changes.
LEMMA MemChange ==
  ASSUME IInv, pc = "idle", pc' = pc, NEW mem, m' = mem, Books(mem, 0),
         \A a \in Arenas : mem.arena[a].allocd > 0 => a \in Holders'
  PROVE  MemInv'
BY DEF MemInv

Fresh(kind) ==
  [open |-> TRUE, kind |-> kind, param |-> NULL, executed |-> FALSE, failed |-> FALSE,
   rs |-> <<>>, idx |-> 0, snap |-> <<>>, moved |-> FALSE]

LEMMA PrepareInv ==
  ASSUME IInv, NEW x \in Handle, NEW kind \in Kinds, NEW size \in AstSizes, NEW malloc,
         Prepare(x, kind, size, malloc)
  PROVE  IInv'
<1>. DEFINE made == arena_init(m, x, malloc)
            parsed == arena_alloc(made, x, size, malloc)
            ok == kind # "garbage" /\ ~parsed.arena[x].failed
            gone == arena_term(parsed, x)
<1>0. /\ pc = "idle" /\ ~h[x].open /\ m' = (IF ok THEN parsed ELSE gone)
      /\ h' = (IF ok THEN [h EXCEPT ![x] = Fresh(kind)] ELSE h) /\ UNCHANGED <<t, txn, pc>>
  BY DEF Prepare, Fresh
<1>1. x \in Arenas /\ size \in Nat /\ x \notin OwnArenas
  BY Names, ClientAssumption
<1>2. x \notin Holders
  BY <1>0, <1>1, Names DEF Holders, InLoad
<1>3. Books(m, 0) /\ m.arena[x].allocd = 0
  BY <1>0, <1>1, <1>2, NotHeld DEF IInv, MemInv
<1>4. Books(made, 0) /\ Others(m, made, x)
  <2>. HIDE DEF made
  <2>. QED
    BY <1>1, <1>3, ArenaInit DEF made
<1>. HIDE DEF made
<1>5. Books(parsed, 0) /\ Others(made, parsed, x)
  <2>. HIDE DEF parsed
  <2>. QED
    BY <1>1, <1>4, ArenaAlloc DEF parsed
<1>. HIDE DEF parsed
<1>6. Books(gone, 0) /\ Others(parsed, gone, x) /\ gone.arena[x].allocd = 0
  <2>. HIDE DEF gone
  <2>. QED
    BY <1>1, <1>5, ArenaTerm, NoArenaType DEF gone
<1>. HIDE DEF gone
<1>7. h \in [Handle -> {Closed} \cup OpenType]
  BY DEF IInv, TypeInv
<1>8. CASE ok
  <2>1. m' = parsed /\ h' = [h EXCEPT ![x] = Fresh(kind)]
    BY <1>0, <1>8
  <2>2. Fresh(kind) \in OpenType
    BY <1>8 DEF Fresh, OpenType
  <2>3. StmtInv(Fresh(kind), t.heap)
    BY DEF Fresh, StmtInv, Shows
  <2>4. TypeInv' /\ RowsInv' /\ HandleInv'
    BY <1>0, <2>1, <2>2, <2>3, HandleChange
  <2>5. Holders \cup {x} \subseteq Holders'
    <3>1. h'[x].open /\ \A y \in Handle : h[y].open => h'[y].open
      BY <1>7, <2>1 DEF Fresh
    <3>. QED
      BY <1>0, <3>1 DEF Holders, InLoad
  <2>6. \A a \in Arenas : parsed.arena[a].allocd > 0 => a \in Holders'
    BY <1>4, <1>5, <2>5 DEF Others, IInv, MemInv
  <2>7. MemInv'
    BY <1>0, <1>5, <2>1, <2>6, MemChange
  <2>. QED
    BY <2>4, <2>7 DEF IInv
<1>9. CASE ~ok
  <2>1. m' = gone /\ h' = h
    BY <1>0, <1>9
  <2>2. TypeInv' /\ RowsInv' /\ HandleInv'
    BY <1>0, <2>1 DEF IInv, TypeInv, RowsInv, HandleInv
  <2>3. Holders' = Holders
    BY <1>0, <2>1 DEF Holders, InLoad
  <2>4. \A a \in Arenas : gone.arena[a].allocd > 0 => a \in Holders'
    <3>. TAKE a \in Arenas
    <3>1. CASE a = x
      BY <1>6, <3>1
    <3>2. CASE a # x
      BY <1>4, <1>5, <1>6, <2>3, <3>2 DEF Others, IInv, MemInv
    <3>. QED
      BY <3>1, <3>2
  <2>5. MemInv'
    BY <1>0, <1>6, <2>1, <2>4, MemChange
  <2>. QED
    BY <2>2, <2>5 DEF IInv
<1>. QED
  BY <1>8, <1>9

\* The memory does not change, nor do the handles that are open.
LEMMA SameMem ==
  ASSUME IInv, UNCHANGED <<m, t, txn, pc>>, \A x \in Handle : h'[x].open <=> h[x].open
  PROVE  MemInv'
<1>1. Holders' = Holders
  BY DEF Holders, InLoad
<1>. QED
  BY <1>1 DEF IInv, MemInv

LEMMA BindInv ==
  ASSUME IInv, NEW x \in Handle, NEW v \in Text \cup {NULL}, Bind(x, v)
  PROVE  IInv'
<1>. DEFINE stmt == IF h[x].executed THEN h[x] ELSE [h[x] EXCEPT !.param = v]
<1>0. /\ h[x].open /\ h' = (IF h[x].executed THEN h ELSE [h EXCEPT ![x].param = v])
      /\ UNCHANGED <<m, t, txn, pc>> /\ h \in [Handle -> {Closed} \cup OpenType]
  BY DEF Bind, IInv, TypeInv
<1>1. h[x] \in OpenType /\ StmtInv(h[x], t.heap)
  BY <1>0 DEF Closed, IInv, HandleInv
<1>2. stmt \in OpenType /\ stmt.open /\ StmtInv(stmt, t.heap)
  <2>1. CASE h[x].executed
    BY <1>0, <1>1, <2>1
  <2>2. CASE ~h[x].executed
    <3>. DEFINE s == [h[x] EXCEPT !.param = v]
    <3>1. s \in OpenType /\ s.open
      BY <1>1 DEF OpenType
    <3>2. /\ s.rs = h[x].rs /\ s.snap = h[x].snap /\ s.idx = h[x].idx /\ s.failed = h[x].failed
          /\ s.executed = h[x].executed /\ s.moved = h[x].moved
      BY <1>1 DEF OpenType
    <3>3. stmt = s
      BY <2>2
    <3>. HIDE DEF s, stmt
    <3>4. Shows(h[x], t.heap) => Shows(s, t.heap)
      BY <3>2 DEF Shows
    <3>5. StmtInv(s, t.heap)
      BY <1>1, <3>2, <3>4 DEF StmtInv
    <3>. QED
      BY <3>1, <3>3, <3>5
  <2>. HIDE DEF stmt
  <2>. QED
    BY <2>1, <2>2
<1>3. h' = [h EXCEPT ![x] = stmt]
  BY <1>0
<1>. HIDE DEF stmt
<1>4. TypeInv' /\ RowsInv' /\ HandleInv'
  BY <1>0, <1>2, <1>3, HandleChange
<1>5. MemInv'
  BY <1>0, <1>2, <1>3, SameMem
<1>. QED
  BY <1>4, <1>5 DEF IInv

LEMMA ResetInv ==
  ASSUME IInv, NEW x \in Handle, Reset(x)
  PROVE  IInv'
<1>. DEFINE stmt == [h[x] EXCEPT !.rs = <<>>, !.idx = 0, !.executed = FALSE, !.failed = FALSE,
                                 !.snap = <<>>, !.moved = FALSE]
<1>0. /\ h[x].open /\ h' = [h EXCEPT ![x] = stmt]
      /\ UNCHANGED <<m, t, txn, pc>> /\ h \in [Handle -> {Closed} \cup OpenType]
  BY DEF Reset, IInv, TypeInv
<1>1. h[x] \in OpenType
  BY <1>0 DEF Closed
<1>2. stmt \in OpenType /\ stmt.open
  <2>1. <<>> \in Seq(Nat) /\ <<>> \in Seq(Texts) /\ 0 \in Nat
    OBVIOUS
  <2>2. stmt \in OpenType
    BY <1>1, <2>1 DEF OpenType
  <2>. HIDE DEF stmt
  <2>. QED
    BY <2>2 DEF OpenType
<1>3. stmt.rs = <<>> /\ stmt.snap = <<>> /\ stmt.idx = 0 /\ ~stmt.failed
  BY <1>1 DEF OpenType
<1>. HIDE DEF stmt
<1>4. StmtInv(stmt, t.heap)
  BY <1>3 DEF StmtInv, Shows
<1>5. TypeInv' /\ RowsInv' /\ HandleInv'
  BY <1>0, <1>2, <1>4, HandleChange
<1>6. MemInv'
  BY <1>0, <1>2, SameMem
<1>. QED
  BY <1>5, <1>6 DEF IInv

LEMMA FinalizeInv ==
  ASSUME IInv, NEW x \in Handle, Finalize(x)
  PROVE  IInv'
<1>. DEFINE gone == arena_term(m, x)
<1>0. /\ pc = "idle" /\ h[x].open /\ m' = gone /\ h' = [h EXCEPT ![x] = Closed]
      /\ UNCHANGED <<t, txn, pc>> /\ h \in [Handle -> {Closed} \cup OpenType] /\ Books(m, 0)
  BY DEF Finalize, IInv, TypeInv, MemInv
<1>1. x \in Arenas
  BY Names
<1>2. Books(gone, 0) /\ Others(m, gone, x) /\ gone.arena[x].allocd = 0
  <2>. HIDE DEF gone
  <2>. QED
    BY <1>0, <1>1, ArenaTerm, NoArenaType DEF gone
<1>. HIDE DEF gone
<1>3. TypeInv' /\ RowsInv' /\ HandleInv'
  BY <1>0, HandleChange DEF Closed
<1>4. Holders \ {x} \subseteq Holders'
  <2>1. \A y \in Handle : y # x /\ h[y].open => h'[y].open
    BY <1>0
  <2>. QED
    BY <1>0, <2>1 DEF Holders, InLoad
<1>5. \A a \in Arenas : gone.arena[a].allocd > 0 => a \in Holders'
  <2>. TAKE a \in Arenas
  <2>1. CASE a = x
    BY <1>2, <2>1
  <2>2. CASE a # x
    BY <1>2, <1>4, <2>2 DEF Others, IInv, MemInv
  <2>. QED
    BY <2>1, <2>2
<1>6. MemInv'
  BY <1>0, <1>2, <1>5, MemChange
<1>. QED
  BY <1>3, <1>6 DEF IInv

LEMMA UsedInv ==
  ASSUME IInv, NEW x \in Handle, h[x].open, pc = "idle", pc' = pc, NEW e, Left(e),
         m' = e.m, t' = e.t, txn' = e.txn,
         NEW stmt \in OpenType, StmtInv(stmt, e.t.heap), h' = [h EXCEPT ![x] = stmt]
  PROVE  IInv'
<1>0. h \in [Handle -> {Closed} \cup OpenType] /\ stmt.open
  BY DEF IInv, TypeInv, OpenType
<1>1. TypeInv'
  BY <1>0 DEF Left, TypeInv, IInv
<1>2. RowsInv'
  BY DEF Left, RowsInv
<1>3. Kept(t.heap, e.t.heap) /\ t.heap \in Seq(Texts) /\ e.t.heap \in Seq(Texts)
  BY DEF Left, IInv, TypeInv, TableType
<1>4. HandleInv'
  <2>1. ASSUME NEW y \in Handle, h'[y].open
        PROVE  StmtInv(h'[y], e.t.heap)
    <3>1. CASE y = x
      BY <1>0, <3>1
    <3>2. CASE y # x
      <4>1. h'[y] = h[y] /\ StmtInv(h[y], t.heap)
        BY <1>0, <2>1, <3>2 DEF IInv, HandleInv
      <4>. QED
        BY <1>3, <4>1, KeptStmt
    <3>. QED
      BY <3>1, <3>2
  <2>. QED
    BY <2>1 DEF HandleInv
<1>5. Holders' = Holders
  <2>1. \A y \in Handle : h'[y].open <=> h[y].open
    BY <1>0
  <2>2. t'.loaded = t.loaded
    BY DEF Left
  <2>. QED
    BY <2>1, <2>2 DEF Holders, InLoad
<1>6. \A a \in Arenas : m'.arena[a].allocd > 0 => a \in Holders'
  <2>. TAKE a \in Arenas
  <2>1. m.arena[a].allocd > 0 => a \in Holders
    BY DEF IInv, MemInv
  <2>2. CASE a \in {"rows", "heap"} /\ t.loaded
    BY <1>5, <2>2 DEF Holders
  <2>3. CASE a \notin {"rows", "heap"} \/ ~t.loaded
    <3>1. m'.arena[a] = m.arena[a]
      BY <2>3 DEF Left
    <3>. QED
      BY <1>5, <2>1, <3>1
  <2>. QED
    BY <2>2, <2>3
<1>7. Books(m', 0)
  BY DEF Left
<1>8. MemInv'
  BY <1>6, <1>7 DEF MemInv
<1>. QED
  BY <1>1, <1>2, <1>4, <1>8 DEF IInv

LEMMA AdvancedIs ==
  ASSUME NEW stmt \in OpenType, NEW heap, StmtInv(stmt, heap), stmt.executed
  PROVE  /\ Advanced(stmt) \in OpenType /\ StmtInv(Advanced(stmt), heap) /\ Advanced(stmt).executed
         /\ Advanced(stmt).failed = stmt.failed
<1>1. CASE ~stmt.failed /\ stmt.kind = "select" /\ stmt.idx < Len(stmt.rs)
  <2>. DEFINE k == stmt.idx + 1
              s == [stmt EXCEPT !.idx = k]
  <2>1. stmt.idx \in Nat /\ Len(stmt.rs) \in Nat
    BY DEF OpenType
  <2>2. k \in Nat /\ k <= Len(stmt.rs)
    BY <1>1, <2>1
  <2>3. Advanced(stmt) = s
    BY <1>1 DEF Advanced
  <2>. HIDE DEF k
  <2>4. s \in OpenType
    BY <2>2 DEF OpenType
  <2>5. /\ s.rs = stmt.rs /\ s.snap = stmt.snap /\ s.idx = k /\ s.failed = stmt.failed
        /\ s.executed = stmt.executed /\ s.moved = stmt.moved
    BY DEF OpenType
  <2>. HIDE DEF s
  <2>6. Shows(stmt, heap) => Shows(s, heap)
    BY <2>5 DEF Shows
  <2>7. StmtInv(s, heap)
    BY <2>2, <2>5, <2>6 DEF StmtInv
  <2>. QED
    BY <2>3, <2>4, <2>5, <2>7
<1>2. CASE ~(~stmt.failed /\ stmt.kind = "select" /\ stmt.idx < Len(stmt.rs))
  BY <1>2 DEF Advanced
<1>. QED
  BY <1>1, <1>2

LEMMA StepIs ==
  ASSUME IInv, NEW x \in Handle, NEW malloc, Step(x, malloc) \/ ColumnCount(x, malloc)
  PROVE  /\ IInv' /\ pc = "idle" /\ h[x].open /\ h'[x].open /\ h'[x].executed
         /\ h[x].executed => t' = t /\ h'[x].failed = h[x].failed
         /\ \A y \in Handle : y # x => h'[y] = h[y]
<1>. DEFINE e == ensure_executed(x, malloc)
<1>1. /\ pc = "idle" /\ h[x].open /\ pc' = pc /\ m' = e.m /\ t' = e.t /\ txn' = e.txn
      /\ h' = [h EXCEPT ![x] = e.stmt] \/ h' = [h EXCEPT ![x] = Advanced(e.stmt)]
  <2>1. CASE Step(x, malloc)
    BY <2>1 DEF Step, Used
  <2>2. CASE ColumnCount(x, malloc)
    BY <2>2 DEF ColumnCount, Used
  <2>. QED
    BY <2>1, <2>2
<1>2. h \in [Handle -> {Closed} \cup OpenType] /\ h[x] \in OpenType
  BY <1>1 DEF IInv, TypeInv, Closed
<1>3. /\ Left(e) /\ e.stmt \in OpenType /\ StmtInv(e.stmt, e.t.heap) /\ e.stmt.executed
      /\ h[x].executed => e.t = t /\ e.stmt = h[x]
  <2>. HIDE DEF e
  <2>. QED
    BY <1>1, <1>2, IdleReady, EnsureExecutedIs DEF e
<1>. HIDE DEF e
<1>4. PICK stmt \in OpenType : /\ h' = [h EXCEPT ![x] = stmt] /\ StmtInv(stmt, e.t.heap)
                               /\ stmt.executed /\ stmt.failed = e.stmt.failed
  BY <1>1, <1>3, AdvancedIs
<1>5. IInv'
  BY <1>1, <1>3, <1>4, UsedInv
<1>6. stmt.open
  BY DEF OpenType
<1>. QED
  BY <1>1, <1>2, <1>3, <1>4, <1>5, <1>6

-----------------------------------------------------------------------------
(* A checkpoint, a load.                                                   *)

\* The results that are left when the heap is given back.
LEMMA MovedIs ==
  ASSUME IInv, NEW heap, h' = Moved
  PROVE  /\ h' \in [Handle -> {Closed} \cup OpenType]
         /\ \A x \in Handle : /\ h'[x].open = h[x].open
                              /\ h[x].open => /\ h'[x].executed = h[x].executed
                                              /\ h'[x].failed = h[x].failed
                                              /\ StmtInv(h'[x], heap)
<1>1. h \in [Handle -> {Closed} \cup OpenType]
  BY DEF IInv, TypeInv
<1>2. ASSUME NEW x \in Handle, ~h[x].open
      PROVE  h'[x] = h[x]
  BY <1>2 DEF Moved
<1>3. ASSUME NEW x \in Handle, h[x].open
      PROVE  /\ h'[x] \in OpenType /\ h'[x].executed = h[x].executed /\ h'[x].failed = h[x].failed
             /\ h'[x].open /\ StmtInv(h'[x], heap)
  <2>. DEFINE b == h[x].rs # <<>>
              s == [h[x] EXCEPT !.moved = b]
  <2>1. h[x] \in OpenType /\ StmtInv(h[x], t.heap)
    BY <1>1, <1>3 DEF Closed, IInv, HandleInv
  <2>2. h'[x] = s
    BY <1>3 DEF Moved
  <2>3. b \in BOOLEAN /\ (~b => Len(h[x].rs) = 0)
    BY <2>1 DEF OpenType
  <2>. HIDE DEF b
  <2>4. s \in OpenType
    BY <2>1, <2>3 DEF OpenType
  <2>5. /\ s.open /\ s.rs = h[x].rs /\ s.snap = h[x].snap /\ s.idx = h[x].idx /\ s.failed = h[x].failed
        /\ s.executed = h[x].executed /\ s.moved = b
    BY <1>3, <2>1 DEF OpenType
  <2>. HIDE DEF s
  <2>6. StmtInv(s, heap)
    BY <2>1, <2>3, <2>5 DEF StmtInv, Shows
  <2>. QED
    BY <2>2, <2>4, <2>5, <2>6
<1>4. h' = [x \in Handle |-> h'[x]]
  BY DEF Moved
<1>5. \A x \in Handle : h'[x] \in {Closed} \cup OpenType /\ h'[x].open = h[x].open
  <2>. TAKE x \in Handle
  <2>1. CASE h[x].open
    BY <1>3, <2>1 
  <2>2. CASE ~h[x].open
    BY <1>1, <1>2, <2>2
  <2>. QED
    BY <2>1, <2>2
<1>. QED
  BY <1>3, <1>4, <1>5

LEMMA CheckpointInv ==
  ASSUME IInv, NEW malloc, Checkpoint(malloc)
  PROVE  /\ IInv' /\ Contents(t') = Contents(t)
         /\ \A x \in Handle : h'[x].open = h[x].open /\ (h[x].open => h'[x].failed = h[x].failed)
<1>. DEFINE dense == [t EXCEPT !.rows = LiveRows(t)]
            text == Compacted(t)
            made == arena_init(m, "new heap", malloc)
            new == arena_alloc(made, "new heap", text.heapcap, malloc)
            gone == arena_term(new, "new heap")
            bare == arena_term(new, "heap")
            moved == Becomes(bare, "heap", "new heap")
<1>0. /\ pc = "idle" /\ t.loaded /\ ~txn.active /\ UNCHANGED <<txn, pc>>
      /\ IF new.arena["new heap"].failed
         THEN m' = Latched(gone, "heap") /\ t' = dense /\ h' = h
         ELSE m' \in {moved, Latched(moved, "heap")} /\ t' = text /\ h' = Moved
  BY DEF Checkpoint
<1>1. /\ "heap" \in Arenas /\ "new heap" \in Arenas /\ "new heap" \notin Handle
      /\ 0 \in Nat /\ "heap" # "new heap"
  BY Names
<1>2. Books(m, 0) /\ m.arena["new heap"].allocd = 0
  <2>1. "new heap" \notin Holders
    BY <1>0, <1>1 DEF Holders, InLoad
  <2>. QED
    BY <1>0, <1>1, <2>1, NotHeld DEF IInv, MemInv
<1>3. Books(made, 0) /\ Others(m, made, "new heap")
  <2>. HIDE DEF made
  <2>. QED
    BY <1>1, <1>2, ArenaInit DEF made
<1>40. t \in TableType /\ Good(t.rows, t.heap)
  BY DEF IInv, TypeInv, RowsInv
<1>4. /\ text \in TableType /\ text.loaded = t.loaded /\ Good(text.rows, text.heap)
      /\ Contents(text) = Contents(t)
  <2>. HIDE DEF text
  <2>. QED
    BY <1>40, CompactedIs, CompactedContents DEF text
<1>5. /\ dense \in TableType /\ dense.loaded = t.loaded /\ dense.heap = t.heap
      /\ Good(dense.rows, dense.heap) /\ Contents(dense) = Contents(t)
  <2>. HIDE DEF dense
  <2>. QED
    BY <1>40, DenseContents DEF dense
<1>. HIDE DEF made, text, dense
<1>6. Books(new, 0) /\ Others(made, new, "new heap")
  <2>1. text.heapcap \in Nat
    BY <1>4 DEF TableType
  <2>. HIDE DEF new
  <2>. QED
    BY <1>1, <1>3, <2>1, ArenaAlloc DEF new
<1>. HIDE DEF new
<1>7. Books(gone, 0) /\ Others(new, gone, "new heap") /\ gone.arena["new heap"].allocd = 0
  <2>. HIDE DEF gone
  <2>. QED
    BY <1>1, <1>6, ArenaTerm, NoArenaType DEF gone
<1>8. Books(bare, 0) /\ Others(new, bare, "heap") /\ bare.arena["heap"].allocd = 0
  <2>. HIDE DEF bare
  <2>. QED
    BY <1>1, <1>6, ArenaTerm, NoArenaType DEF bare
<1>. HIDE DEF gone, bare
<1>9. /\ Books(moved, 0) /\ moved.arena["new heap"] = NoArena
      /\ \A c \in Arenas : c # "heap" /\ c # "new heap" => moved.arena[c] = bare.arena[c]
  <2>1. \A a, b \in Arenas : a # b /\ bare.arena[a].allocd = 0 =>
          /\ Books(Becomes(bare, a, b), 0) /\ Becomes(bare, a, b).arena[b] = NoArena
          /\ \A c \in Arenas : c # a /\ c # b => Becomes(bare, a, b).arena[c] = bare.arena[c]
    <3>. SUFFICES ASSUME NEW a \in Arenas, NEW b \in Arenas, a # b, bare.arena[a].allocd = 0
                  PROVE  /\ Books(Becomes(bare, a, b), 0) /\ Becomes(bare, a, b).arena[b] = NoArena
                         /\ \A c \in Arenas : c # a /\ c # b => Becomes(bare, a, b).arena[c] = bare.arena[c]
      OBVIOUS
    <3>1. Books(bare, 0) /\ 0 \in Nat
      BY <1>8
    <3>. QED
      <4>1. Books(Becomes(bare, a, b), 0)
        BY <3>1, BecomesBooks
      <4>2. Becomes(bare, a, b).arena[b] = NoArena
        BY <3>1, BecomesBooks
      <4>3. \A c \in Arenas : c # a /\ c # b => Becomes(bare, a, b).arena[c] = bare.arena[c]
        BY <3>1, BecomesBooks
      <4>. QED
        BY <4>1, <4>2, <4>3
  <2>. HIDE DEF moved
  <2>. QED
    BY <1>1, <1>8, <2>1 DEF moved
<1>. HIDE DEF moved
<1>10. ASSUME NEW mem, NEW tab \in TableType, tab.loaded = t.loaded, Good(tab.rows, tab.heap),
              Books(mem, 0), mem.arena["new heap"].allocd = 0,
              \A c \in Arenas : c # "heap" /\ c # "new heap" => mem.arena[c] = m.arena[c],
              m' = mem, t' = tab, h' \in [Handle -> {Closed} \cup OpenType],
              \A x \in Handle : /\ h'[x].open = h[x].open
                                /\ h[x].open => StmtInv(h'[x], tab.heap)
       PROVE  IInv'
  <2>1. TypeInv'
    BY <1>0, <1>10 DEF IInv, TypeInv
  <2>2. RowsInv'
    BY <1>0, <1>10 DEF RowsInv, SavedInv
  <2>3. HandleInv'
    BY <1>10 DEF HandleInv
  <2>4. Holders' = Holders
    BY <1>0, <1>10 DEF Holders, InLoad
  <2>5. "heap" \in Holders'
    BY <1>0, <1>10 DEF Holders
  <2>6. \A a \in Arenas : mem.arena[a].allocd > 0 => a \in Holders'
    <3>. TAKE a \in Arenas
    <3>1. CASE a = "heap"
      BY <2>5, <3>1
    <3>2. CASE a = "new heap"
      <4>1. mem.arena[a].allocd = 0
        BY <1>10, <3>2
      <4>2. ~(0 > 0)
        OBVIOUS
      <4>. QED
        BY <4>1, <4>2
    <3>3. CASE a # "heap" /\ a # "new heap"
      <4>1. mem.arena[a] = m.arena[a] /\ (m.arena[a].allocd > 0 => a \in Holders)
        BY <1>10, <3>3 DEF IInv, MemInv
      <4>. QED
        BY <2>4, <4>1
    <3>. QED
      BY <3>1, <3>2, <3>3
  <2>7. MemInv'
    BY <1>0, <1>10, <2>6, MemChange
  <2>. QED
    BY <2>1, <2>2, <2>3, <2>7 DEF IInv
<1>11. CASE new.arena["new heap"].failed
  <2>. DEFINE mem == Latched(gone, "heap")
  <2>1. /\ Books(mem, 0) /\ Others(gone, mem, "heap")
    BY <1>1, <1>7, LatchedBooks
  <2>2. m' = mem /\ t' = dense /\ h' = h
    BY <1>0, <1>11
  <2>. HIDE DEF mem
  <2>3. mem.arena["new heap"].allocd = 0
    BY <1>1, <1>7, <2>1 DEF Others
  <2>4. \A c \in Arenas : c # "heap" /\ c # "new heap" => mem.arena[c] = m.arena[c]
    BY <1>3, <1>6, <1>7, <2>1 DEF Others
  <2>5. \A x \in Handle : h[x].open => StmtInv(h[x], dense.heap)
    BY <1>5 DEF IInv, HandleInv
  <2>6. h \in [Handle -> {Closed} \cup OpenType]
    BY DEF IInv, TypeInv
  <2>7. IInv'
    BY <1>5, <1>10, <2>1, <2>2, <2>3, <2>4, <2>5, <2>6
  <2>. QED
    BY <1>5, <2>2, <2>7
<1>12. CASE ~new.arena["new heap"].failed
  <2>0. m' \in {moved, Latched(moved, "heap")} /\ t' = text /\ h' = Moved
    BY <1>0, <1>12
  <2>1. /\ Books(Latched(moved, "heap"), 0) /\ Others(moved, Latched(moved, "heap"), "heap")
    BY <1>1, <1>9, LatchedBooks
  <2>2. /\ Books(m', 0) /\ \A c \in Arenas : c # "heap" => m'.arena[c] = moved.arena[c]
    BY <1>9, <2>0, <2>1 DEF Others
  <2>3. m'.arena["new heap"].allocd = 0
    BY <1>1, <1>9, <2>2, NoArenaType
  <2>4. \A c \in Arenas : c # "heap" /\ c # "new heap" => m'.arena[c] = m.arena[c]
    BY <1>3, <1>6, <1>8, <1>9, <2>2 DEF Others
  <2>5. /\ h' \in [Handle -> {Closed} \cup OpenType]
        /\ \A x \in Handle : /\ h'[x].open = h[x].open
                             /\ h[x].open => h'[x].failed = h[x].failed /\ StmtInv(h'[x], text.heap)
    BY <2>0, MovedIs
  <2>6. IInv'
    BY <1>4, <1>10, <2>0, <2>2, <2>3, <2>4, <2>5
  <2>. QED
    BY <1>4, <2>0, <2>5, <2>6
<1>. QED
  BY <1>11, <1>12

\* Only the memory changes, and how far the load is.
LEMMA LoadChange ==
  ASSUME IInv, UNCHANGED <<t, txn, h>>, pc' \in {"idle", "schema", "header", "rows"}, MemInv'
  PROVE  IInv'
BY DEF IInv, TypeInv, RowsInv, HandleInv

LEMMA LoadStartInv ==
  ASSUME IInv, NEW malloc, LoadStart(malloc)
  PROVE  IInv'
<1>. DEFINE charged == [m EXCEPT !.used = @ + FileSize]
            made == arena_init(charged, "schema", malloc)
<1>0. pc = "idle" /\ m' = made /\ pc' = "schema" /\ UNCHANGED <<t, txn, h>>
      /\ ~budget_would_exceed(m, FileSize + 1 + Reserve)
  BY DEF LoadStart, ReadFile
<1>1. "schema" \in Arenas /\ "schema" \notin Handle /\ 0 \in Nat /\ FileSize \in Nat
  BY Names, ClientAssumption
<1>2. Books(m, 0) /\ m.arena["schema"].allocd = 0
  <2>1. "schema" \notin Holders
    BY <1>0, <1>1 DEF Holders, InLoad
  <2>. QED
    BY <1>0, <1>1, <2>1, NotHeld DEF IInv, MemInv
<1>3. Books(charged, FileSize) /\ charged.arena = m.arena
  <2>1. charged.arena = m.arena
    BY <1>2 DEF Books, MemType
  <2>. QED
    BY <1>0, <1>2, <2>1, ChargeFile
<1>. HIDE DEF charged
<1>4. Books(made, FileSize) /\ Others(charged, made, "schema")
  <2>. HIDE DEF made
  <2>. QED
    BY <1>1, <1>2, <1>3, ArenaInit DEF made
<1>. HIDE DEF made
<1>5. Holders \cup {"schema"} \subseteq Holders'
  BY <1>0 DEF Holders, InLoad
<1>6. \A a \in Arenas : made.arena[a].allocd > 0 => a \in Holders'
  <2>. TAKE a \in Arenas
  <2>1. CASE a = "schema"
    BY <1>5, <2>1
  <2>2. CASE a # "schema"
    <3>1. made.arena[a] = m.arena[a] /\ (m.arena[a].allocd > 0 => a \in Holders)
      BY <1>3, <1>4, <2>2 DEF Others, IInv, MemInv
    <3>. QED
      BY <1>5, <3>1
  <2>. QED
    BY <2>1, <2>2
<1>7. MemInv'
  BY <1>0, <1>4, <1>6 DEF MemInv
<1>. QED
  BY <1>0, <1>7, LoadChange

LEMMA LoadSchemaInv ==
  ASSUME IInv, NEW malloc, LoadSchema(malloc)
  PROVE  IInv'
<1>. DEFINE made == arena_init(m, "csv", malloc)
<1>0. pc = "schema" /\ m' = made /\ pc' = "header" /\ UNCHANGED <<t, txn, h>>
  BY DEF LoadSchema
<1>1. "csv" \in Arenas /\ "csv" \notin Handle /\ FileSize \in Nat
  BY Names, ClientAssumption
<1>2. Books(m, FileSize) /\ m.arena["csv"].allocd = 0
  <2>1. "csv" \notin Holders
    BY <1>0, <1>1 DEF Holders, InLoad
  <2>. QED
    BY <1>0, <1>1, <2>1, NotHeld DEF IInv, MemInv
<1>4. Books(made, FileSize) /\ Others(m, made, "csv")
  <2>. HIDE DEF made
  <2>. QED
    BY <1>1, <1>2, ArenaInit DEF made
<1>. HIDE DEF made
<1>5. Holders \cup {"csv"} \subseteq Holders'
  BY <1>0 DEF Holders, InLoad
<1>6. \A a \in Arenas : made.arena[a].allocd > 0 => a \in Holders'
  <2>. TAKE a \in Arenas
  <2>1. CASE a = "csv"
    BY <1>5, <2>1
  <2>2. CASE a # "csv"
    <3>1. made.arena[a] = m.arena[a] /\ (m.arena[a].allocd > 0 => a \in Holders)
      BY <1>4, <2>2 DEF Others, IInv, MemInv
    <3>. QED
      BY <1>5, <3>1
  <2>. QED
    BY <2>1, <2>2
<1>7. MemInv'
  BY <1>0, <1>4, <1>6 DEF MemInv
<1>. QED
  BY <1>0, <1>7, LoadChange

LEMMA LoadTableInv ==
  ASSUME IInv, NEW malloc, LoadTable(malloc)
  PROVE  IInv'
<1>. DEFINE csv == arena_alloc(m, "csv", 1, malloc)
            one == arena_init(csv, "new rows", malloc)
            both == arena_init(one, "new heap", malloc)
            new == arena_alloc(both, "new rows", 1, malloc)
            bad == new.arena["new rows"].failed \/ new.arena["new heap"].failed
            done == arena_term(new, "schema")
<1>0. /\ pc = "header" /\ m' = (IF bad THEN new ELSE done) /\ pc' = "rows"
      /\ UNCHANGED <<t, txn, h>>
  BY DEF LoadTable
<1>1. /\ "csv" \in Arenas /\ "new rows" \in Arenas /\ "new heap" \in Arenas /\ "schema" \in Arenas
      /\ "new rows" \notin Handle /\ "new heap" \notin Handle /\ FileSize \in Nat /\ 1 \in Nat
  BY Names, ClientAssumption
<1>2. Books(m, FileSize) /\ m.arena["new rows"].allocd = 0 /\ m.arena["new heap"].allocd = 0
  <2>1. "new rows" \notin Holders /\ "new heap" \notin Holders
    BY <1>0, <1>1 DEF Holders, InLoad
  <2>. QED
    BY <1>0, <1>1, <2>1, NotHeld DEF IInv, MemInv
<1>3. Books(csv, FileSize) /\ Others(m, csv, "csv")
  <2>. HIDE DEF csv
  <2>. QED
    BY <1>1, <1>2, ArenaAlloc DEF csv
<1>. HIDE DEF csv
<1>4. Books(one, FileSize) /\ Others(csv, one, "new rows")
  <2>1. csv.arena["new rows"].allocd = 0
    BY <1>1, <1>2, <1>3 DEF Others
  <2>. HIDE DEF one
  <2>. QED
    BY <1>1, <1>3, <2>1, ArenaInit DEF one
<1>. HIDE DEF one
<1>5. Books(both, FileSize) /\ Others(one, both, "new heap")
  <2>1. one.arena["new heap"].allocd = 0
    BY <1>1, <1>2, <1>3, <1>4 DEF Others
  <2>. HIDE DEF both
  <2>. QED
    BY <1>1, <1>4, <2>1, ArenaInit DEF both
<1>. HIDE DEF both
<1>6. Books(new, FileSize) /\ Others(both, new, "new rows")
  <2>. HIDE DEF new
  <2>. QED
    BY <1>1, <1>5, ArenaAlloc DEF new
<1>. HIDE DEF new
<1>7. Books(done, FileSize) /\ Others(new, done, "schema") /\ done.arena["schema"].allocd = 0
  <2>. HIDE DEF done
  <2>. QED
    BY <1>1, <1>6, ArenaTerm, NoArenaType DEF done
<1>. HIDE DEF done
<1>8. Books(m', FileSize)
  BY <1>0, <1>6, <1>7
<1>9. Holders \cup {"schema", "csv", "new rows", "new heap"} \subseteq Holders'
  BY <1>0 DEF Holders, InLoad
<1>10. \A a \in Arenas : m'.arena[a].allocd > 0 => a \in Holders'
  <2>. TAKE a \in Arenas
  <2>1. CASE a \in {"schema", "csv", "new rows", "new heap"}
    BY <1>9, <2>1
  <2>2. CASE a \notin {"schema", "csv", "new rows", "new heap"}
    <3>1. new.arena[a] = m.arena[a] /\ done.arena[a] = m.arena[a]
      BY <1>3, <1>4, <1>5, <1>6, <1>7, <2>2 DEF Others
    <3>2. m.arena[a].allocd > 0 => a \in Holders
      BY DEF IInv, MemInv
    <3>. QED
      BY <1>0, <1>9, <3>1, <3>2
  <2>. QED
    BY <2>1, <2>2
<1>11. ~m'.arena["new rows"].failed /\ ~m'.arena["new heap"].failed => m'.arena["schema"].allocd = 0
  BY <1>0, <1>7
<1>12. MemInv'
  BY <1>0, <1>8, <1>10, <1>11 DEF MemInv
<1>. QED
  BY <1>0, <1>12, LoadChange

\* An arena that ends leaves the books right, and the others as they are.
LEMMA EndsOne ==
  ASSUME NEW mem, Books(mem, FileSize), NEW a \in Arenas, NEW gone \in SUBSET Arenas,
         \A b \in gone : mem.arena[b].allocd = 0
  PROVE  /\ Books(arena_term(mem, a), FileSize)
         /\ \A b \in gone \cup {a} : arena_term(mem, a).arena[b].allocd = 0
         /\ Others(mem, arena_term(mem, a), a)
<1>1. FileSize \in Nat
  BY ClientAssumption
<1>2. /\ Books(arena_term(mem, a), FileSize) /\ Others(mem, arena_term(mem, a), a)
      /\ arena_term(mem, a).arena[a].allocd = 0
  BY <1>1, ArenaTerm, NoArenaType
<1>3. \A b \in gone \cup {a} : arena_term(mem, a).arena[b].allocd = 0
  <2>. TAKE b \in gone \cup {a}
  <2>1. CASE b = a
    BY <1>2, <2>1
  <2>2. CASE b # a
    BY <1>2, <2>2 DEF Others
  <2>. QED
    BY <2>1, <2>2
<1>. QED
  BY <1>2, <1>3

LEMMA LoadFailInv ==
  ASSUME IInv, LoadFail
  PROVE  IInv'
<1>. DEFINE one == arena_term(m, "new rows")
            both == arena_term(one, "new heap")
            left == IF pc = "rows" THEN both ELSE m
            three == arena_term(left, "schema")
            all == arena_term(three, "csv")
            done == budget_uncharge(all, FileSize)
<1>0. pc \in {"schema", "header", "rows"} /\ m' = done /\ pc' = "idle" /\ UNCHANGED <<t, txn, h>>
  BY DEF LoadFail, Released
<1>1. /\ "csv" \in Arenas /\ "new rows" \in Arenas /\ "new heap" \in Arenas /\ "schema" \in Arenas
      /\ "new rows" \notin Handle /\ "new heap" \notin Handle /\ 0 \in Nat
  BY Names
<1>2. Books(m, FileSize)
  BY <1>0 DEF IInv, MemInv
<1>. DEFINE New == {"new rows", "new heap"}
<1>3. Books(left, FileSize) /\ (\A b \in New : left.arena[b].allocd = 0)
      /\ \A a \in Arenas \ New : left.arena[a] = m.arena[a]
  <2>1. CASE pc = "rows"
    <3>1. Books(one, FileSize) /\ one.arena["new rows"].allocd = 0 /\ Others(m, one, "new rows")
      <4>1. {} \in SUBSET Arenas /\ \A b \in {} : m.arena[b].allocd = 0
        OBVIOUS
      <4>. HIDE DEF one
      <4>. QED
        BY <1>1, <1>2, <4>1, EndsOne DEF one
    <3>. HIDE DEF one
    <3>2. Books(both, FileSize) /\ (\A b \in New : both.arena[b].allocd = 0) /\ Others(one, both, "new heap")
      <4>1. PICK a \in Arenas : a = "new heap"
        BY <1>1
      <4>2. {"new rows"} \in SUBSET Arenas /\ \A b \in {"new rows"} : one.arena[b].allocd = 0
        BY <1>1, <3>1
      <4>3. PICK gone \in SUBSET Arenas : gone = {"new rows"} /\ \A b \in gone : one.arena[b].allocd = 0
        BY <4>2
      <4>4. Books(one, FileSize) /\ \A b \in gone : one.arena[b].allocd = 0
        BY <3>1, <4>3
      <4>5. /\ Books(arena_term(one, a), FileSize)
            /\ \A b \in gone \cup {a} : arena_term(one, a).arena[b].allocd = 0
            /\ Others(one, arena_term(one, a), a)
        BY <4>4, EndsOne
      <4>6. both = arena_term(one, a) /\ New = gone \cup {a}
        BY <4>1, <4>3
      <4>. HIDE DEF both, New
      <4>. QED
        BY <4>1, <4>5, <4>6
    <3>. QED
      BY <2>1, <3>1, <3>2 DEF Others
  <2>2. CASE pc # "rows"
    <3>1. "new rows" \notin Holders /\ "new heap" \notin Holders
      BY <1>0, <1>1, <2>2 DEF Holders, InLoad
    <3>2. \A b \in New : m.arena[b].allocd = 0
      BY <1>1, <3>1, NotHeld
    <3>. QED
      BY <1>2, <2>2, <3>2
  <2>. QED
    BY <2>1, <2>2
<1>. HIDE DEF left
<1>4. /\ Books(three, FileSize) /\ (\A b \in New \cup {"schema"} : three.arena[b].allocd = 0)
      /\ Others(left, three, "schema")
  <2>1. New \in SUBSET Arenas
    BY <1>1
  <2>. HIDE DEF three, New
  <2>. QED
    BY <1>1, <1>3, <2>1, EndsOne DEF three
<1>. HIDE DEF three
<1>5. /\ Books(all, FileSize) /\ (\A b \in New \cup {"schema", "csv"} : all.arena[b].allocd = 0)
      /\ Others(three, all, "csv")
  <2>. DEFINE Gone == New \cup {"schema"}
  <2>1. Gone \in SUBSET Arenas /\ New \cup {"schema", "csv"} = Gone \cup {"csv"}
    BY <1>1
  <2>2. \A b \in Gone : three.arena[b].allocd = 0
    BY <1>4
  <2>. HIDE DEF all, Gone
  <2>3. /\ Books(all, FileSize) /\ (\A b \in Gone \cup {"csv"} : all.arena[b].allocd = 0)
        /\ Others(three, all, "csv")
    BY <1>1, <1>4, <2>1, <2>2, EndsOne DEF all
  <2>. QED
    BY <2>1, <2>3
<1>. HIDE DEF all
<1>6. Books(done, 0) /\ done.arena = all.arena
  BY <1>5, UnchargeFile
<1>. HIDE DEF done
<1>7. Holders \ {"schema", "csv", "new rows", "new heap"} \subseteq Holders'
  BY <1>0 DEF Holders, InLoad
<1>8. \A a \in Arenas : done.arena[a].allocd > 0 => a \in Holders'
  <2>. TAKE a \in Arenas
  <2>1. CASE a \in {"schema", "csv", "new rows", "new heap"}
    <3>1. a \in New \cup {"schema", "csv"}
      BY <2>1
    <3>. HIDE DEF New
    <3>2. done.arena[a].allocd = 0
      BY <1>5, <1>6, <3>1
    <3>. QED
      BY <3>2
  <2>2. CASE a \notin {"schema", "csv", "new rows", "new heap"}
    <3>1. done.arena[a] = m.arena[a]
      BY <1>3, <1>4, <1>5, <1>6, <2>2 DEF Others
    <3>2. m.arena[a].allocd > 0 => a \in Holders
      BY DEF IInv, MemInv
    <3>. QED
      BY <1>7, <2>2, <3>1, <3>2
  <2>. QED
    BY <2>1, <2>2
<1>9. MemInv'
  BY <1>0, <1>6, <1>8 DEF MemInv
<1>. QED
  BY <1>0, <1>9, LoadChange

\* The states the rows of a file go through.
Loading ==
  {s \in StateType :
     /\ Books(s.m, FileSize)
     /\ \A a \in Arenas \ {"new rows", "new heap"} : s.m.arena[a] = m.arena[a]
     /\ s.t.loaded /\ Good(s.t.rows, s.t.heap)}

LoadOne(s, v, malloc) ==
  LET row == table_append_row(s, "new rows", malloc)
      txt == buf_append(row, "new heap", v, malloc)
  IN  IF row.ref = -1 \/ txt.ref = -1
      THEN [s EXCEPT !.m = IF row.ref = -1 THEN row.m ELSE txt.m, !.ref = -1]
      ELSE [txt EXCEPT !.t.rows[Len(txt.t.rows)] = [ref |-> txt.ref, null |-> FALSE, dead |-> FALSE]]

LEMMA LoadOneIs ==
  ASSUME NEW s \in Loading, NEW v \in Texts, NEW malloc
  PROVE  LoadOne(s, v, malloc) \in Loading
<1>. DEFINE row == table_append_row(s, "new rows", malloc)
            txt == buf_append(row, "new heap", v, malloc)
            n == Len(txt.t.rows)
            new == [ref |-> txt.ref, null |-> FALSE, dead |-> FALSE]
            r == LoadOne(s, v, malloc)
<1>0. r = IF row.ref = -1 \/ txt.ref = -1
          THEN [s EXCEPT !.m = IF row.ref = -1 THEN row.m ELSE txt.m, !.ref = -1]
          ELSE [txt EXCEPT !.t.rows[n] = new]
  BY DEF LoadOne
<1>. HIDE DEF r
<1>1. "new rows" \in Arenas /\ "new heap" \in Arenas /\ FileSize \in Nat
  BY Names, ClientAssumption
<1>2. /\ s \in StateType /\ Books(s.m, FileSize)
      /\ \A a \in Arenas \ {"new rows", "new heap"} : s.m.arena[a] = m.arena[a]
      /\ s.t.loaded /\ Good(s.t.rows, s.t.heap)
  BY DEF Loading
<1>3. /\ row \in StateType /\ Books(row.m, FileSize) /\ Others(s.m, row.m, "new rows")
      /\ row.t.loaded = s.t.loaded /\ row.t.heap = s.t.heap
      /\ \/ row.ref = -1 /\ row.t = s.t
         \/ row.ref = 0 /\ row.t.rows = Append(s.t.rows, Blank)
  <2>1. s \in StateType /\ Books(s.m, FileSize) /\ FileSize \in Nat
    BY <1>1, <1>2
  <2>. HIDE DEF row
  <2>0. row = table_append_row(s, "new rows", malloc)
    BY DEF row
  <2>2. PICK a \in Arenas : a = "new rows"
    BY <1>1
  <2>3. row = table_append_row(s, a, malloc)
    BY <2>0, <2>2
  <2>4. /\ row \in StateType /\ Books(row.m, FileSize) /\ Others(s.m, row.m, a)
        /\ row.t.loaded = s.t.loaded /\ row.t.heap = s.t.heap
        /\ \/ row.ref = -1 /\ row.t = s.t
           \/ row.ref = 0 /\ row.t.rows = Append(s.t.rows, Blank)
    BY <2>1, <2>3, AppendRow
  <2>. QED
    BY <2>2, <2>4
<1>. HIDE DEF row
<1>4. /\ txt \in StateType /\ Books(txt.m, FileSize) /\ Others(row.m, txt.m, "new heap")
      /\ txt.t.loaded = row.t.loaded /\ txt.t.rows = row.t.rows
      /\ \/ txt.ref = -1 /\ txt.t = row.t
         \/ txt.ref = Len(row.t.heap) + 1 /\ txt.t.heap = Append(row.t.heap, v)
  <2>1. row \in StateType /\ Books(row.m, FileSize) /\ FileSize \in Nat
    BY <1>1, <1>3
  <2>. HIDE DEF txt
  <2>0. txt = buf_append(row, "new heap", v, malloc)
    BY DEF txt
  <2>2. PICK a \in Arenas : a = "new heap"
    BY <1>1
  <2>3. txt = buf_append(row, a, v, malloc)
    BY <2>0, <2>2
  <2>4. /\ txt \in StateType /\ Books(txt.m, FileSize) /\ Others(row.m, txt.m, a)
        /\ txt.t.loaded = row.t.loaded /\ txt.t.rows = row.t.rows
        /\ \/ txt.ref = -1 /\ txt.t = row.t
           \/ txt.ref = Len(row.t.heap) + 1 /\ txt.t.heap = Append(row.t.heap, v)
    BY <2>1, <2>3, BufAppend
  <2>. QED
    BY <2>2, <2>4
<1>. HIDE DEF txt
<1>5. \A a \in Arenas \ {"new rows", "new heap"} : row.m.arena[a] = m.arena[a] /\ txt.m.arena[a] = m.arena[a]
  BY <1>2, <1>3, <1>4 DEF Others
<1>6. CASE row.ref = -1 \/ txt.ref = -1
  <2>. DEFINE mem == IF row.ref = -1 THEN row.m ELSE txt.m
  <2>1. /\ Books(mem, FileSize) /\ mem \in MemType
        /\ \A a \in Arenas \ {"new rows", "new heap"} : mem.arena[a] = m.arena[a]
    BY <1>3, <1>4, <1>5 DEF Books
  <2>2. r = [s EXCEPT !.m = mem, !.ref = -1]
    BY <1>0, <1>6
  <2>. HIDE DEF mem
  <2>3. r = [m |-> mem, t |-> s.t, ref |-> -1]
    BY <1>2, <2>2 DEF StateType
  <2>4. -1 \in Int
    OBVIOUS
  <2>5. r \in StateType /\ r.m = mem /\ r.t = s.t
    BY <1>2, <2>1, <2>3, <2>4 DEF StateType
  <2>6. r \in Loading
    BY <1>2, <2>1, <2>5 DEF Loading
  <2>. QED
    BY <2>6 DEF r
<1>7. CASE ~(row.ref = -1 \/ txt.ref = -1)
  <2>1. /\ txt.t \in TableType /\ txt.m \in MemType /\ txt.ref \in Int
        /\ row.t \in TableType /\ s.t \in TableType
    BY <1>2, <1>3, <1>4 DEF StateType
  <2>2. s.t.rows \in Seq(RowType) /\ s.t.heap \in Seq(Texts) /\ Blank \in RowType
    BY <2>1 DEF TableType, Blank, RowType
  <2>3. txt.t.rows = Append(s.t.rows, Blank) /\ txt.t.heap = Append(s.t.heap, v)
        /\ txt.ref = Len(s.t.heap) + 1
    BY <1>3, <1>4, <1>7
  <2>4. /\ n = Len(s.t.rows) + 1 /\ \A i \in 1..Len(s.t.rows) : txt.t.rows[i] = s.t.rows[i]
    BY <2>2, <2>3, AppendIs
  <2>5. n \in 1..Len(txt.t.rows) /\ Len(s.t.rows) \in Nat /\ n \in Nat
    BY <2>2, <2>4
  <2>6. Kept(s.t.heap, txt.t.heap) /\ Len(txt.t.heap) = txt.ref /\ txt.ref \in Nat /\ txt.ref > 0
    <3>1. Len(Append(s.t.heap, v)) = Len(s.t.heap) + 1
          /\ \A i \in 1..Len(s.t.heap) : Append(s.t.heap, v)[i] = s.t.heap[i]
      BY <2>2, AppendIs
    <3>2. Len(s.t.heap) \in Nat
      BY <2>2
    <3>. QED
      BY <2>3, <3>1, <3>2 DEF Kept
  <2>7. new \in RowType /\ Points(new, txt.t.heap)
    BY <2>6 DEF RowType, Points
  <2>. DEFINE tab == WithRow(txt.t, n, new)
  <2>8. r = [txt EXCEPT !.t = tab]
    <3>1. r = [txt EXCEPT !.t.rows[n] = new]
      BY <1>0, <1>7
    <3>. HIDE DEF new, n
    <3>. QED
      BY <1>4, <2>1, <3>1 DEF WithRow, StateType, TableType
  <2>9. Good(tab.rows, txt.t.heap)
    <3>1. \A i \in 1..Len(txt.t.rows) : i # n => Points(txt.t.rows[i], txt.t.heap)
      <4>. TAKE i \in 1..Len(txt.t.rows)
      <4>. HAVE i # n
      <4>1. i \in 1..Len(s.t.rows)
        BY <2>4, <2>5
      <4>2. Good(s.t.rows, txt.t.heap)
        BY <1>2, <2>1, <2>2, <2>6, KeptGood DEF TableType
      <4>. QED
        BY <2>4, <4>1, <4>2 DEF Good
    <3>. HIDE DEF new, n
    <3>. QED
      BY <2>1, <2>5, <2>7, <3>1, WithGoodRow
  <2>10. tab \in TableType /\ tab.heap = txt.t.heap /\ tab.loaded = txt.t.loaded
    <3>. HIDE DEF new, n
    <3>. QED
      BY <2>1, <2>5, <2>7, WithRowIs
  <2>. HIDE DEF tab
  <2>11. r = [m |-> txt.m, t |-> tab, ref |-> txt.ref]
    BY <1>4, <2>8 DEF StateType
  <2>12. r \in StateType /\ r.m = txt.m /\ r.t = tab
    BY <2>1, <2>10, <2>11 DEF StateType
  <2>13. r \in Loading
    BY <1>2, <1>3, <1>4, <1>5, <2>9, <2>10, <2>12 DEF Loading
  <2>. QED
    BY <2>13 DEF r
<1>. QED
  BY <1>6, <1>7

\* What load_csv has read when it is through, or out of memory.
LoadedRows(texts, malloc) ==
  LET One(s, v) == LET row == table_append_row(s, "new rows", malloc)
                       txt == buf_append(row, "new heap", v, malloc)
                   IN  IF row.ref = -1 \/ txt.ref = -1
                       THEN [s EXCEPT !.m = IF row.ref = -1 THEN row.m ELSE txt.m, !.ref = -1]
                       ELSE [txt EXCEPT !.t.rows[Len(txt.t.rows)] = [ref |-> txt.ref, null |-> FALSE, dead |-> FALSE]]
      read[n \in 0..Len(texts)] ==
        IF n = 0 THEN [m |-> m, t |-> [NoTable EXCEPT !.loaded = TRUE], ref |-> 0]
        ELSE IF read[n - 1].ref = -1 THEN read[n - 1] ELSE One(read[n - 1], texts[n])
  IN  read[Len(texts)]

LEMMA LoadedIs ==
  ASSUME IInv, pc = "rows", NEW texts \in FileTexts, NEW malloc
  PROVE  LoadedRows(texts, malloc) \in Loading
<1>. DEFINE empty == [NoTable EXCEPT !.loaded = TRUE]
            start == [m |-> m, t |-> empty, ref |-> 0]
            N == Len(texts)
            X == Loading
            Round(n, s) == IF s.ref = -1 THEN s ELSE LoadOne(s, texts[n], malloc)
            G == [n \in 1..N |-> [s \in X |-> Round(n, s)]]
            One(s, v) == LET row == table_append_row(s, "new rows", malloc)
                             txt == buf_append(row, "new heap", v, malloc)
                         IN  IF row.ref = -1 \/ txt.ref = -1
                             THEN [s EXCEPT !.m = IF row.ref = -1 THEN row.m ELSE txt.m, !.ref = -1]
                             ELSE [txt EXCEPT !.t.rows[Len(txt.t.rows)] = [ref |-> txt.ref, null |-> FALSE, dead |-> FALSE]]
            Loop(f) == f = [n \in 0..Len(texts) |->
                              IF n = 0 THEN [m |-> m, t |-> [NoTable EXCEPT !.loaded = TRUE], ref |-> 0]
                              ELSE IF f[n - 1].ref = -1 THEN f[n - 1] ELSE One(f[n - 1], texts[n])]
            read == CHOOSE f : Loop(f)
<1>0. N \in Nat /\ \A n \in 1..N : texts[n] \in Texts
  <2>1. texts \in Seq({texts[i] : i \in DOMAIN texts})
    BY ClientAssumption
  <2>2. N \in Nat /\ DOMAIN texts = 1..N
    BY <2>1
  <2>3. ASSUME NEW n \in 1..N
        PROVE  texts[n] \in Texts
    <3>1. texts[n] \in {texts[i] : i \in DOMAIN texts}
      BY <2>2
    <3>. QED
      BY <3>1 DEF Texts
  <2>. QED
    BY <2>2, <2>3
<1>1. start \in X
  <2>1. Books(m, FileSize) /\ m \in MemType
    BY DEF IInv, MemInv, Books
  <2>2. empty \in TableType /\ empty.loaded /\ Good(empty.rows, empty.heap)
    <3>1. NoTable \in TableType
      BY DEF NoTable, TableType
    <3>2. NoTable.rows = <<>>
      BY DEF NoTable
    <3>3. empty \in TableType /\ empty.loaded /\ empty.rows = NoTable.rows
      BY <3>1 DEF TableType
    <3>4. Len(empty.rows) = 0
      BY <3>2, <3>3
    <3>. HIDE DEF empty
    <3>. QED
      BY <3>3, <3>4 DEF Good
  <2>. HIDE DEF empty
  <2>3. start \in StateType /\ start.m = m /\ start.t = empty
    BY <2>1, <2>2 DEF StateType
  <2>. HIDE DEF start
  <2>. QED
    BY <2>1, <2>2, <2>3 DEF Loading
<1>2. \A n \in 1..N : \A s \in X : Round(n, s) \in X
  <2>. SUFFICES ASSUME NEW n \in 1..N, NEW s \in X
                PROVE  Round(n, s) \in X
    OBVIOUS
  <2>0. texts[n] \in Texts
    BY <1>0
  <2>. HIDE DEF X
  <2>1. LoadOne(s, texts[n], malloc) \in X
    BY <2>0, LoadOneIs DEF X
  <2>. QED
    BY <2>1
<1>3. \A s, v : LoadOne(s, v, malloc) = One(s, v)
  BY DEF LoadOne
<1>. HIDE DEF X, One, Round, start
<1>4. PICK f : IsLoopTo(f, X, N, start, G)
  <2>1. G \in ToRounds(X, N)
    <3>. HIDE DEF N
    <3>. QED
      BY <1>2 DEF ToRounds
  <2>. HIDE DEF G, N
  <2>. QED
    BY <1>0, <1>1, <2>1, RoundsTo
<1>5. f \in [0..N -> X] /\ f[0] = start /\ \A n \in 1..N : f[n] = G[n][f[n - 1]]
  <2>. HIDE DEF G, N
  <2>. QED
    BY <1>4 DEF IsLoopTo
<1>6. ASSUME NEW n \in 1..N
      PROVE  f[n] = Round(n, f[n - 1])
  <2>1. n - 1 \in 0..N
    BY <1>0
  <2>. HIDE DEF N
  <2>2. f[n - 1] \in X
    BY <1>5, <2>1
  <2>. QED
    BY <1>5, <2>2
<1>7. ASSUME NEW n, NEW s
      PROVE  Round(n, s) = IF s.ref = -1 THEN s ELSE One(s, texts[n])
  BY <1>3 DEF Round
<1>8. Loop(f)
  <2>1. \A n \in 0..N : n # 0 => n \in 1..N
    BY <1>0
  <2>. HIDE DEF N, G
  <2>2. \A n \in 0..N : f[n] = IF n = 0 THEN start
                               ELSE IF f[n - 1].ref = -1 THEN f[n - 1] ELSE One(f[n - 1], texts[n])
    BY <1>5, <1>6, <1>7, <2>1
  <2>3. f = [n \in 0..N |-> IF n = 0 THEN start
                            ELSE IF f[n - 1].ref = -1 THEN f[n - 1] ELSE One(f[n - 1], texts[n])]
    BY <1>5, <2>2
  <2>. QED
    BY <2>3 DEF N, start
<1>9. Loop(read)
  BY <1>8, Zenon
<1>10. LoadedRows(texts, malloc) = read[N]
  BY DEF LoadedRows, One
<1>11. \A n \in 0..N : read[n] = IF n = 0 THEN start
                                 ELSE IF read[n - 1].ref = -1 THEN read[n - 1]
                                 ELSE One(read[n - 1], texts[n])
  <2>. HIDE DEF read
  <2>. QED
    BY <1>9, Zenon DEF start
<1>. HIDE DEF read
<1>12. read[0] \in X
  BY <1>0, <1>1, <1>11
<1>13. ASSUME NEW n \in 1..N, read[n - 1] \in X
       PROVE  read[n] \in X
  <2>1. n \in 0..N /\ n # 0
    BY <1>0
  <2>2. read[n] = Round(n, read[n - 1])
    <3>. HIDE DEF N
    <3>1. read[n] = IF read[n - 1].ref = -1 THEN read[n - 1] ELSE One(read[n - 1], texts[n])
      BY <1>11, <2>1
    <3>. QED
      BY <1>7, <3>1
  <2>. QED
    BY <1>2, <1>13, <2>2
<1>14. \A n \in 0..N : read[n] \in X
  <2>. HIDE DEF N
  <2>. QED
    BY <1>0, <1>12, <1>13, LoopIn
<1>. QED
  BY <1>0, <1>10, <1>14 DEF X

\* The new table takes the place of the old one.
Put(mem) ==
  LET old == arena_term(arena_term(mem, "rows"), "heap")
      put == Becomes(Becomes(old, "rows", "new rows"), "heap", "new heap")
  IN  budget_uncharge(arena_term(put, "csv"), FileSize)

LEMMA LoadRowsIs ==
  ASSUME NEW texts, NEW malloc, LoadRows(texts, malloc)
  PROVE  \E end :
           /\ end = LoadedRows(texts, malloc)
           /\ pc = "rows" /\ ~m.arena["new rows"].failed /\ ~m.arena["new heap"].failed
           /\ \/ end.ref = -1 /\ m' = end.m /\ UNCHANGED <<t, txn, h, pc>>
              \/ /\ m' = Put(end.m)
                 /\ t' = end.t
                 /\ txn' = IF txn.active THEN [txn EXCEPT !.saved = end.t.rows] ELSE txn
                 /\ h' = Moved
                 /\ pc' = "idle"
<1>. DEFINE end == LoadedRows(texts, malloc)
<1>1. /\ pc = "rows" /\ ~m.arena["new rows"].failed /\ ~m.arena["new heap"].failed
      /\ IF end.ref = -1
         THEN m' = end.m /\ UNCHANGED <<t, txn, h, pc>>
         ELSE /\ m' = Put(end.m)
              /\ t' = end.t
              /\ txn' = IF txn.active THEN [txn EXCEPT !.saved = end.t.rows] ELSE txn
              /\ h' = Moved
              /\ pc' = "idle"
  BY DEF LoadRows, LoadedRows, Put
<1>2. end = LoadedRows(texts, malloc)
  OBVIOUS
<1>. HIDE DEF end
<1>. QED
  BY <1>1, <1>2

LEMMA PutBooks ==
  ASSUME NEW mem, Books(mem, FileSize)
  PROVE  /\ Books(Put(mem), 0)
         /\ \A a \in {"csv", "new rows", "new heap"} : Put(mem).arena[a].allocd = 0
         /\ \A a \in Arenas \ {"rows", "heap", "csv", "new rows", "new heap"} :
              Put(mem).arena[a] = mem.arena[a]
<1>. DEFINE one == arena_term(mem, "rows")
            old == arena_term(one, "heap")
            rows == Becomes(old, "rows", "new rows")
            put == Becomes(rows, "heap", "new heap")
            free == arena_term(put, "csv")
            end == Put(mem)
<1>0. end = budget_uncharge(free, FileSize)
  BY DEF Put
<1>. HIDE DEF end
<1>1. \A a \in {"rows", "heap", "csv", "new rows", "new heap"} : a \in Arenas
  BY Names
<1>2. FileSize \in Nat
  BY ClientAssumption
<1>3. /\ Books(one, FileSize) /\ one.arena["rows"].allocd = 0
      /\ \A a \in Arenas : a # "rows" => one.arena[a] = mem.arena[a]
  <2>1. PICK a \in Arenas : a = "rows"
    BY <1>1
  <2>2. Books(arena_term(mem, a), FileSize) /\ Others(mem, arena_term(mem, a), a)
        /\ arena_term(mem, a).arena[a] = NoArena
    BY <1>2, ArenaTerm
  <2>3. one = arena_term(mem, a)
    BY <2>1
  <2>. HIDE DEF one
  <2>. QED
    BY <2>1, <2>2, <2>3, NoArenaType DEF Others
<1>. HIDE DEF one
<1>4. /\ Books(old, FileSize) /\ old.arena["rows"].allocd = 0 /\ old.arena["heap"].allocd = 0
      /\ \A a \in Arenas : a # "rows" /\ a # "heap" => old.arena[a] = mem.arena[a]
  <2>1. PICK a \in Arenas : a = "heap"
    BY <1>1
  <2>2. Books(arena_term(one, a), FileSize) /\ Others(one, arena_term(one, a), a)
        /\ arena_term(one, a).arena[a] = NoArena
    BY <1>2, <1>3, ArenaTerm
  <2>3. old = arena_term(one, a)
    BY <2>1
  <2>. HIDE DEF old
  <2>. QED
    BY <1>1, <1>3, <2>1, <2>2, <2>3, NoArenaType DEF Others
<1>. HIDE DEF old
<1>5. /\ Books(rows, FileSize) /\ rows.arena["new rows"].allocd = 0 /\ rows.arena["heap"].allocd = 0
      /\ \A a \in Arenas : a # "rows" /\ a # "new rows" => rows.arena[a] = old.arena[a]
  <2>1. PICK a \in Arenas, b \in Arenas : a = "rows" /\ b = "new rows"
    BY <1>1
  <2>2. a # b /\ old.arena[a].allocd = 0
    BY <1>4, <2>1
  <2>3. /\ Books(Becomes(old, a, b), FileSize) /\ Becomes(old, a, b).arena[b] = NoArena
        /\ \A c \in Arenas : c # a /\ c # b => Becomes(old, a, b).arena[c] = old.arena[c]
    <3>0. Books(old, FileSize)
      BY <1>4
    <3>1. Books(Becomes(old, a, b), FileSize)
      BY <1>2, <2>2, <3>0, BecomesBooks
    <3>2. Books(Becomes(old, a, b), FileSize) /\ Becomes(old, a, b).arena[b] = NoArena
      BY <1>2, <2>2, <3>0, BecomesBooks
    <3>3. /\ Books(Becomes(old, a, b), FileSize)
          /\ \A c \in Arenas : c # a /\ c # b => Becomes(old, a, b).arena[c] = old.arena[c]
      BY <1>2, <2>2, <3>0, BecomesBooks
    <3>. QED
      BY <3>1, <3>2, <3>3
  <2>4. rows = Becomes(old, a, b)
    BY <2>1
  <2>. HIDE DEF rows
  <2>. QED
    BY <1>1, <1>4, <2>1, <2>3, <2>4, NoArenaType
<1>. HIDE DEF rows
<1>6. /\ Books(put, FileSize) /\ put.arena["new rows"].allocd = 0 /\ put.arena["new heap"].allocd = 0
      /\ \A a \in Arenas : a # "heap" /\ a # "new heap" => put.arena[a] = rows.arena[a]
  <2>1. PICK a \in Arenas, b \in Arenas : a = "heap" /\ b = "new heap"
    BY <1>1
  <2>2. a # b /\ rows.arena[a].allocd = 0
    BY <1>5, <2>1
  <2>3. /\ Books(Becomes(rows, a, b), FileSize) /\ Becomes(rows, a, b).arena[b] = NoArena
        /\ \A c \in Arenas : c # a /\ c # b => Becomes(rows, a, b).arena[c] = rows.arena[c]
    <3>0. Books(rows, FileSize)
      BY <1>5
    <3>1. Books(Becomes(rows, a, b), FileSize)
      BY <1>2, <2>2, <3>0, BecomesBooks
    <3>2. Books(Becomes(rows, a, b), FileSize) /\ Becomes(rows, a, b).arena[b] = NoArena
      BY <1>2, <2>2, <3>0, BecomesBooks
    <3>3. /\ Books(Becomes(rows, a, b), FileSize)
          /\ \A c \in Arenas : c # a /\ c # b => Becomes(rows, a, b).arena[c] = rows.arena[c]
      BY <1>2, <2>2, <3>0, BecomesBooks
    <3>. QED
      BY <3>1, <3>2, <3>3
  <2>4. put = Becomes(rows, a, b)
    BY <2>1
  <2>. HIDE DEF put
  <2>. QED
    BY <1>1, <1>5, <2>1, <2>3, <2>4, NoArenaType
<1>. HIDE DEF put
<1>7. /\ Books(free, FileSize) /\ free.arena["csv"].allocd = 0
      /\ \A a \in Arenas : a # "csv" => free.arena[a] = put.arena[a]
  <2>1. PICK a \in Arenas : a = "csv"
    BY <1>1
  <2>2. Books(arena_term(put, a), FileSize) /\ Others(put, arena_term(put, a), a)
        /\ arena_term(put, a).arena[a] = NoArena
    BY <1>2, <1>6, ArenaTerm
  <2>3. free = arena_term(put, a)
    BY <2>1
  <2>. HIDE DEF free
  <2>. QED
    BY <2>1, <2>2, <2>3, NoArenaType DEF Others
<1>8. Books(end, 0) /\ end.arena = free.arena
  <2>. HIDE DEF free
  <2>. QED
    BY <1>0, <1>7, UnchargeFile
<1>. HIDE DEF free
<1>9. \A a \in {"csv", "new rows", "new heap"} : end.arena[a].allocd = 0
  BY <1>1, <1>6, <1>7, <1>8
<1>10. \A a \in Arenas \ {"rows", "heap", "csv", "new rows", "new heap"} : end.arena[a] = mem.arena[a]
  BY <1>4, <1>5, <1>6, <1>7, <1>8
<1>. QED
  BY <1>8, <1>9, <1>10 DEF end

LEMMA LoadRowsInv ==
  ASSUME IInv, NEW texts \in FileTexts, NEW malloc, LoadRows(texts, malloc)
  PROVE  /\ IInv' /\ pc = "rows"
         /\ \A x \in Handle : h'[x].open = h[x].open /\ (h[x].open => h'[x].failed = h[x].failed)
<1>0. PICK end :
        /\ end = LoadedRows(texts, malloc)
        /\ pc = "rows" /\ ~m.arena["new rows"].failed /\ ~m.arena["new heap"].failed
        /\ \/ end.ref = -1 /\ m' = end.m /\ UNCHANGED <<t, txn, h, pc>>
           \/ /\ m' = Put(end.m)
              /\ t' = end.t
              /\ txn' = IF txn.active THEN [txn EXCEPT !.saved = end.t.rows] ELSE txn
              /\ h' = Moved
              /\ pc' = "idle"
  BY LoadRowsIs
<1>1. /\ end \in StateType /\ Books(end.m, FileSize)
      /\ \A a \in Arenas \ {"new rows", "new heap"} : end.m.arena[a] = m.arena[a]
      /\ end.t.loaded /\ Good(end.t.rows, end.t.heap)
  BY <1>0, LoadedIs DEF Loading
<1>2. \A a \in {"schema", "new rows", "new heap"} : a \in Arenas
  BY Names
<1>3. m.arena["schema"].allocd = 0
  BY <1>0 DEF IInv, MemInv
<1>4. CASE end.ref = -1 /\ m' = end.m /\ UNCHANGED <<t, txn, h, pc>>
  <2>1. Holders' = Holders /\ {"new rows", "new heap"} \subseteq Holders
    BY <1>0, <1>4 DEF Holders, InLoad
  <2>2. \A a \in Arenas : m'.arena[a].allocd > 0 => a \in Holders'
    <3>. TAKE a \in Arenas
    <3>1. CASE a \in {"new rows", "new heap"}
      BY <2>1, <3>1
    <3>2. CASE a \notin {"new rows", "new heap"}
      <4>1. m'.arena[a] = m.arena[a] /\ (m.arena[a].allocd > 0 => a \in Holders)
        BY <1>1, <1>4, <3>2 DEF IInv, MemInv
      <4>. QED
        BY <2>1, <4>1
    <3>. QED
      BY <3>1, <3>2
  <2>3. m'.arena["schema"].allocd = 0
    BY <1>1, <1>2, <1>3, <1>4
  <2>4. MemInv'
    BY <1>0, <1>1, <1>4, <2>2, <2>3 DEF MemInv
  <2>5. IInv'
    BY <1>0, <1>4, <2>4, LoadChange
  <2>. QED
    BY <1>0, <1>4, <2>5
<1>5. CASE /\ m' = Put(end.m) /\ t' = end.t
           /\ txn' = IF txn.active THEN [txn EXCEPT !.saved = end.t.rows] ELSE txn
           /\ h' = Moved /\ pc' = "idle"
  <2>1. /\ Books(m', 0)
        /\ \A a \in {"csv", "new rows", "new heap"} : m'.arena[a].allocd = 0
        /\ \A a \in Arenas \ {"rows", "heap", "csv", "new rows", "new heap"} :
             m'.arena[a] = end.m.arena[a]
    BY <1>1, <1>5, PutBooks
  <2>2. /\ t' \in TableType /\ t'.loaded /\ Good(t'.rows, t'.heap)
    BY <1>1, <1>5 DEF StateType
  <2>3. /\ h' \in [Handle -> {Closed} \cup OpenType]
        /\ \A x \in Handle : /\ h'[x].open = h[x].open
                             /\ h[x].open => h'[x].failed = h[x].failed /\ StmtInv(h'[x], t'.heap)
    BY <1>5, MovedIs
  <2>4. txn' \in TxnType /\ SavedInv(t', txn')
    <3>1. txn \in TxnType /\ t'.rows \in Seq(RowType)
      BY <2>2 DEF IInv, TypeInv, TableType
    <3>2. CASE txn.active
      <4>1. txn' = [txn EXCEPT !.saved = t'.rows]
        BY <1>5, <3>2
      <4>2. txn' \in TxnType /\ txn'.saved = t'.rows
        BY <3>1, <4>1 DEF TxnType
      <4>. QED
        BY <2>2, <4>2 DEF SavedInv
    <3>3. CASE ~txn.active
      BY <1>5, <3>1, <3>3 DEF SavedInv
    <3>. QED
      BY <3>2, <3>3
  <2>5. TypeInv'
    BY <1>5, <2>2, <2>3, <2>4 DEF TypeInv
  <2>6. RowsInv'
    BY <2>2, <2>4 DEF RowsInv
  <2>7. HandleInv'
    BY <2>3 DEF HandleInv
  <2>8. Holders \ {"schema", "csv", "new rows", "new heap"} \subseteq Holders'
        /\ {"rows", "heap"} \subseteq Holders'
    <3>1. \A x \in Handle : h'[x].open = h[x].open
      BY <2>3
    <3>. QED
      BY <1>0, <1>5, <2>2, <3>1 DEF Holders, InLoad
  <2>9. \A a \in Arenas : m'.arena[a].allocd > 0 => a \in Holders'
    <3>. TAKE a \in Arenas
    <3>1. CASE a \in {"rows", "heap"}
      BY <2>8, <3>1
    <3>2. CASE a \in {"csv", "new rows", "new heap"}
      <4>1. m'.arena[a].allocd = 0
        BY <2>1, <3>2
      <4>. QED
        BY <4>1
    <3>3. CASE a = "schema"
      <4>1. m'.arena[a].allocd = 0
        BY <1>1, <1>2, <1>3, <2>1, <3>3
      <4>. QED
        BY <4>1
    <3>4. CASE a \notin {"rows", "heap", "csv", "new rows", "new heap", "schema"}
      <4>1. m'.arena[a] = m.arena[a] /\ (m.arena[a].allocd > 0 => a \in Holders)
        BY <1>1, <2>1, <3>4 DEF IInv, MemInv
      <4>. QED
        BY <2>8, <3>4, <4>1
    <3>. QED
      BY <3>1, <3>2, <3>3, <3>4
  <2>10. MemInv'
    BY <1>5, <2>1, <2>9 DEF MemInv
  <2>11. IInv'
    BY <2>5, <2>6, <2>7, <2>10 DEF IInv
  <2>. QED
    BY <1>0, <2>3, <2>11
<1>. QED
  BY <1>0, <1>4, <1>5

-----------------------------------------------------------------------------
(* The invariant holds, and with it the three properties.                  *)

\* A step as the bounded model takes it.
LEMMA NextIs ==
  ASSUME Next
  PROVE  \/ \E x \in Handle, kind \in Kinds, size \in AstSizes, malloc \in Malloc : Prepare(x, kind, size, malloc)
         \/ \E x \in Handle, v \in Text \cup {NULL} : Bind(x, v)
         \/ \E x \in Handle, malloc \in Malloc : Step(x, malloc) \/ ColumnCount(x, malloc)
         \/ \E x \in Handle : Reset(x)
         \/ \E x \in Handle : Finalize(x)
         \/ \E malloc \in Malloc : Checkpoint(malloc)
         \/ \E malloc \in Malloc : LoadStart(malloc) \/ LoadSchema(malloc) \/ LoadTable(malloc)
         \/ \E texts \in FileTexts, malloc \in Malloc : LoadRows(texts, malloc)
         \/ LoadFail
BY Zenon DEF Next

LEMMA NextInv == IInv /\ [Next]_vars => IInv'
<1>. SUFFICES ASSUME IInv, [Next]_vars
              PROVE  IInv'
  OBVIOUS
<1>1. CASE UNCHANGED vars
  <2>1. UNCHANGED <<m, t, txn, h, pc>>
    BY <1>1 DEF vars
  <2>2. MemInv'
    BY <2>1 DEF IInv, MemInv, Holders, InLoad
  <2>. QED
    BY <2>1, <2>2, LoadChange DEF IInv, TypeInv
<1>2. CASE Next
  <2>1. CASE \E x \in Handle, kind \in Kinds, size \in AstSizes, malloc \in Malloc : Prepare(x, kind, size, malloc)
    BY <2>1, PrepareInv
  <2>2. CASE \E x \in Handle, v \in Text \cup {NULL} : Bind(x, v)
    BY <2>2, BindInv
  <2>3. CASE \E x \in Handle, malloc \in Malloc : Step(x, malloc) \/ ColumnCount(x, malloc)
    BY <2>3, StepIs
  <2>4. CASE \E x \in Handle : Reset(x)
    BY <2>4, ResetInv
  <2>5. CASE \E x \in Handle : Finalize(x)
    BY <2>5, FinalizeInv
  <2>6. CASE \E malloc \in Malloc : Checkpoint(malloc)
    BY <2>6, CheckpointInv
  <2>7. CASE \E malloc \in Malloc : LoadStart(malloc) \/ LoadSchema(malloc) \/ LoadTable(malloc)
    BY <2>7, LoadStartInv, LoadSchemaInv, LoadTableInv
  <2>8. CASE \E texts \in FileTexts, malloc \in Malloc : LoadRows(texts, malloc)
    BY <2>8, LoadRowsInv
  <2>9. CASE LoadFail
    BY <2>9, LoadFailInv
  <2>. QED
    BY <1>2, <2>1, <2>2, <2>3, <2>4, <2>5, <2>6, <2>7, <2>8, <2>9, NextIs
<1>. QED
  BY <1>1, <1>2

LEMMA IInvHolds == Spec => []IInv
BY InitIInv, NextInv, PTL DEF Spec

\* The budget holds what the live arenas and the file being loaded take, and
\* never passes its limit, on every way through prepare, statements,
\* compaction and load, failing ones included; between calls only the table and
\* the open handles hold any.
THEOREM BudgetIsAccounted == Spec => []Accounted
<1>1. IInv => Accounted
  <2>. SUFFICES ASSUME IInv
                PROVE  Accounted
    OBVIOUS
  <2>. DEFINE x == IF pc = "idle" THEN 0 ELSE FileSize
  <2>1. Books(m, x) /\ (\A a \in Arenas : m.arena[a].allocd > 0 => a \in Holders)
    BY DEF IInv, MemInv
  <2>2. m.used = Charged(m) + x /\ (Limit = 0 \/ m.used <= Limit)
    BY <2>1 DEF Books
  <2>3. ASSUME pc = "idle", NEW a \in Arenas, m.arena[a].allocd > 0
        PROVE  IF a \in Handle THEN h[a].open ELSE t.loaded /\ a \in {"rows", "heap"}
    <3>1. a \in {y \in Handle : h[y].open} \/ (t.loaded /\ a \in {"rows", "heap"})
      BY <2>1, <2>3 DEF Holders, InLoad
    <3>2. \A b \in {"rows", "heap"} : b \notin Handle
      BY Names
    <3>. QED
      BY <3>1, <3>2
  <2>. QED
    BY <2>2, <2>3 DEF Accounted, WithinLimit
<1>. QED
  BY <1>1, IInvHolds, PTL

\* A SELECT serves the rows it saw when it ran, whatever other handles of the
\* connection do to the table while it is stepped, until a load or a checkpoint
\* gives its heap back.
THEOREM ResultsStay == Spec => []ServesWhatItSaw
<1>1. IInv => ServesWhatItSaw
  <2>. SUFFICES ASSUME IInv, NEW x \in Handle, h[x].open, ~h[x].moved
                PROVE  /\ Len(h[x].rs) = Len(h[x].snap)
                       /\ h[x].idx > 0 => ColumnText(x) = h[x].snap[h[x].idx]
    BY DEF ServesWhatItSaw
  <2>1. /\ Len(h[x].rs) = Len(h[x].snap) /\ h[x].idx <= Len(h[x].rs)
        /\ Shows(h[x], t.heap)
    BY DEF IInv, HandleInv, StmtInv
  <2>2. h[x] \in OpenType
    BY DEF IInv, TypeInv, Closed
  <2>3. h[x].idx > 0 => h[x].idx \in 1..Len(h[x].rs)
    <3>1. h[x].idx \in Nat /\ h[x].rs \in Seq(Nat)
      BY <2>2 DEF OpenType
    <3>2. Len(h[x].rs) \in Nat /\ h[x].idx <= Len(h[x].rs)
      BY <2>1, <3>1
    <3>. QED
      BY <3>1, <3>2
  <2>. QED
    BY <2>1, <2>3 DEF Shows, ColumnText
<1>. QED
  BY <1>1, IInvHolds, PTL

\* What a step may do to the rows, and to a statement that failed.
Once ==
  /\ Contents(t') # Contents(t) =>
       pc = "rows" \/ \E x \in Handle : h[x].open /\ ~h[x].executed /\ h'[x].open /\ h'[x].executed
  /\ \A x \in Handle : h[x].open /\ h[x].failed /\ h'[x].open /\ h'[x].executed
       => h'[x].failed

LEMMA OnceOf ==
  ASSUME IInv, Contents(t') = Contents(t), NEW x \in Handle,
         \A y \in Handle : y # x => h'[y] = h[y],
         h[x].open /\ h[x].failed /\ h'[x].open /\ h'[x].executed => h'[x].failed
  PROVE  Once
BY DEF Once

LEMMA OnceStep == IInv /\ [Next]_vars => Once
<1>. SUFFICES ASSUME IInv, [Next]_vars
              PROVE  Once
  OBVIOUS
<1>0. /\ h \in [Handle -> {Closed} \cup OpenType] /\ ~Closed.open
      /\ \A x \in Handle : h[x].open => h[x] \in OpenType
      /\ \A x \in Handle : h[x].open /\ h[x].failed => h[x].executed
  BY DEF IInv, TypeInv, HandleInv, StmtInv, Closed
<1>1. ASSUME t' = t, h' = h
      PROVE  Once
  BY <1>1 DEF Once
<1>2. CASE UNCHANGED vars
  BY <1>1, <1>2 DEF vars
<1>3. ASSUME NEW x \in Handle, NEW kind \in Kinds, NEW size \in AstSizes, NEW malloc \in Malloc,
             Prepare(x, kind, size, malloc)
      PROVE  Once
  <2>1. t' = t /\ ~h[x].open /\ \A y \in Handle : y # x => h'[y] = h[y]
    BY <1>0, <1>3 DEF Prepare
  <2>. QED
    BY <2>1, OnceOf
<1>4. ASSUME NEW x \in Handle, NEW v \in Text \cup {NULL}, Bind(x, v)
      PROVE  Once
  <2>1. t' = t /\ h[x].open /\ (h' = h \/ h' = [h EXCEPT ![x] = [h[x] EXCEPT !.param = v]])
    BY <1>4 DEF Bind
  <2>2. h'[x].failed = h[x].failed /\ \A y \in Handle : y # x => h'[y] = h[y]
    BY <1>0, <2>1 DEF OpenType
  <2>. QED
    BY <2>1, <2>2, OnceOf
<1>5. ASSUME NEW x \in Handle, NEW malloc \in Malloc, Step(x, malloc) \/ ColumnCount(x, malloc)
      PROVE  Once
  <2>1. /\ h[x].open /\ h'[x].open /\ h'[x].executed
        /\ h[x].executed => t' = t /\ h'[x].failed = h[x].failed
        /\ \A y \in Handle : y # x => h'[y] = h[y]
    BY <1>5, StepIs
  <2>. QED
    BY <1>0, <2>1 DEF Once
<1>6. ASSUME NEW x \in Handle, Reset(x)
      PROVE  Once
  <2>. DEFINE s == [h[x] EXCEPT !.rs = <<>>, !.idx = 0, !.executed = FALSE, !.failed = FALSE,
                                !.snap = <<>>, !.moved = FALSE]
  <2>1. t' = t /\ h[x].open /\ h' = [h EXCEPT ![x] = s]
    BY <1>6 DEF Reset
  <2>2. ~s.executed
    BY <1>0, <2>1 DEF OpenType
  <2>. HIDE DEF s
  <2>3. ~h'[x].executed /\ \A y \in Handle : y # x => h'[y] = h[y]
    BY <1>0, <2>1, <2>2
  <2>. QED
    BY <2>1, <2>3, OnceOf
<1>7. ASSUME NEW x \in Handle, Finalize(x)
      PROVE  Once
  <2>1. t' = t /\ h' = [h EXCEPT ![x] = Closed]
    BY <1>7 DEF Finalize
  <2>2. ~h'[x].open /\ \A y \in Handle : y # x => h'[y] = h[y]
    BY <1>0, <2>1
  <2>. QED
    BY <2>1, <2>2, OnceOf
<1>8. ASSUME NEW malloc \in Malloc, Checkpoint(malloc)
      PROVE  Once
  BY <1>8, CheckpointInv DEF Once
<1>9. ASSUME NEW malloc \in Malloc, LoadStart(malloc) \/ LoadSchema(malloc) \/ LoadTable(malloc)
      PROVE  Once
  BY <1>1, <1>9 DEF LoadStart, LoadSchema, LoadTable
<1>10. ASSUME NEW texts \in FileTexts, NEW malloc \in Malloc, LoadRows(texts, malloc)
       PROVE  Once
  BY <1>10, LoadRowsInv DEF Once
<1>11. CASE LoadFail
  BY <1>1, <1>11 DEF LoadFail
<1>. QED
  BY <1>2, <1>3, <1>4, <1>5, <1>6, <1>7, <1>8, <1>9, <1>10, <1>11, NextIs

\* A statement runs at most once between resets: apart from a load, the rows
\* change only in the step in which a handle's statement is first used, and a
\* statement that failed has failed until it is reset.
THEOREM StatementsRunOnce == Spec => RunsOnce
<1>1. IInv /\ [Next]_vars => [Once]_vars
  BY OnceStep
<1>2. RunsOnce <=> [][Once]_vars
  BY DEF RunsOnce, Once
<1>. QED
  BY <1>1, <1>2, IInvHolds, PTL DEF Spec
=============================================================================
