------------------------------- MODULE Memory -------------------------------
(***************************************************************************)
(* The memory budget (budget.c) and the arenas charged to it (arena.c).    *)
(* An arena is the block it allocates from, the size of the next block,    *)
(* what it charged, and its latched failure; earlier blocks are full and   *)
(* need no names, for no code here calls arena_reset.  Sizes are in units  *)
(* of the instance, alignment is left out.  A malloc may fail at any time. *)
(***************************************************************************)
EXTENDS Integers, FiniteSetsExt

CONSTANTS
  Limit,        \* DB4_MEM_LIMIT_MB, or 0: no cap
  BlockSize,    \* ARENA_BLOCK_SIZE
  Header,       \* sizeof(Block)
  HogFactor

ASSUME MemoryAssumption ==
  /\ {Limit, Header} \subseteq Nat /\ {BlockSize, HogFactor} \subseteq Nat \ {0}

NoArena == [cap |-> 0, fill |-> 0, size |-> BlockSize, allocd |-> 0, failed |-> FALSE]

\* m is the memory: what is charged, and the arenas by name.
Latched(m, a) == [m EXCEPT !.arena[a].failed = TRUE]

budget_would_exceed(m, n) ==
  IF Limit = 0 THEN FALSE
  ELSE IF m.used >= Limit THEN n > 0
  ELSE n > Limit - m.used

budget_charge(m, n) == IF budget_would_exceed(m, n) THEN m ELSE [m EXCEPT !.used = @ + n]

budget_uncharge(m, n) == [m EXCEPT !.used = IF n > @ THEN 0 ELSE @ - n]

\* An arena with a block more.
Grown(arena, cap) == [arena EXCEPT !.cap = cap, !.fill = 0, !.allocd = @ + cap + Header]

\* Fault for the mutants: the charge of a block that malloc refuses is kept.
NewBlockKept(m, a, cap, malloc) ==
  IF budget_would_exceed(m, cap + Header) THEN Latched(m, a)
  ELSE IF ~malloc THEN Latched(budget_charge(m, cap + Header), a)
  ELSE [budget_charge(m, cap + Header) EXCEPT !.arena[a] = Grown(m.arena[a], cap)]

\* new_block, and what its callers do with the block or without it.
new_block(m, a, cap, malloc) ==
  LET charged == budget_charge(m, cap + Header)
  IN  IF budget_would_exceed(m, cap + Header) THEN Latched(m, a)
      ELSE IF ~malloc THEN Latched(budget_uncharge(charged, cap + Header), a)
      ELSE [charged EXCEPT !.arena[a] = Grown(m.arena[a], cap)]

arena_init(m, a, malloc) == new_block([m EXCEPT !.arena[a] = NoArena], a, BlockSize, malloc)

arena_term(m, a) == [budget_uncharge(m, m.arena[a].allocd) EXCEPT !.arena[a] = NoArena]

\* The next block is the first doubling of the last that holds n HogFactor times.
next_block_capacity(size, n) ==
  LET cap[k \in 0..n * HogFactor] == IF k = 0 THEN size ELSE 2 * cap[k - 1]
  IN  cap[Min({k \in 0..n * HogFactor : cap[k] >= n * HogFactor})]

\* A failed arena allocates nothing; else from its block, or from a new one.
arena_alloc(m, a, n, malloc) ==
  LET cap  == next_block_capacity(m.arena[a].size, n)
      more == new_block(m, a, cap, malloc)
      Take(x) == [x EXCEPT !.arena[a].fill = @ + n]
  IN  IF m.arena[a].failed THEN m
      ELSE IF n <= m.arena[a].cap - m.arena[a].fill THEN Take(m)
      ELSE IF more.arena[a].failed THEN more
      ELSE [Take(more) EXCEPT !.arena[a].size = cap]
=============================================================================
