-------------------------- MODULE EngineIntegrity --------------------------
(***************************************************************************)
(* Keys and references, for every schema and every bound: checking one row *)
(* at a time, while a statement is half applied, keeps all the rows of all *)
(* tables right whenever a call has returned.                              *)
(***************************************************************************)
EXTENDS EngineProofs

Valid(S) == WellFormed(S.live, S.cell)

\* Row q is right but for what it may have to do with row s, which is being
\* assigned: s may get any key, and loses its own if `keyed'.
StandsWithout(L, C, q, s, keyed) ==
  /\ Pk[q[1]] # NoCol =>
       /\ C[q][Pk[q[1]]] # NULL
       /\ \A p \in L : p[1] = q[1] /\ p # q /\ p # s => C[p][Pk[q[1]]] # C[q][Pk[q[1]]]
  /\ \A f \in Fk : f[1] = q[1] /\ C[q][f[2]] # NULL =>
       \E p \in L : /\ p[1] = f[3] /\ C[p][Pk[f[3]]] = C[q][f[2]]
                    /\ p = s => ~keyed

\* The UPDATE assigns the key.
KeyAssigned == \E i \in DOMAIN stmt.set : stmt.set[i] = Pk[stmt.tab]

Halfway ==
  pc = "assign" =>
    LET s == <<stmt.tab, stmt.cur>>
    IN  /\ s \in live
        /\ \A q \in live : q # s => StandsWithout(live, cell, q, s, KeyAssigned)

ValidInv ==
  /\ UndoInv
  /\ Valid(begun) /\ Valid(seen)
  /\ pc \in {"idle", "row", "commit"} => Valid(Image)
  /\ Halfway

-----------------------------------------------------------------------------
(* What the checks of one row say of the others.                           *)

\* The checks read only the live rows.
LEMMA SameCells ==
  ASSUME NEW L, NEW C, NEW D, \A q \in L : C[q] = D[q], WellFormed(L, C)
  PROVE  WellFormed(L, D)
<1>1. ASSUME NEW s \in L
      PROVE  CheckRowConstraints(L, D, s)
  BY <1>1 DEF WellFormed, CheckRowConstraints
<1>. QED
  BY <1>1 DEF WellFormed

\* An image the memory has come back to is right when it is.
LEMMA AgreesValid ==
  ASSUME NEW S \in Images, NEW T \in Images, Sound(S), Agrees(S, T), Valid(S)
  PROVE  Valid(T)
<1>1. S.live = T.live /\ \A q \in S.live : S.cell[q] = T.cell[q]
  BY DEF Sound, Agrees, Images
<1>. QED
  BY <1>1, SameCells DEF Valid

\* An appended row that passes its check.
LEMMA InsertValid ==
  ASSUME NEW L, NEW C, NEW D, NEW s, s \notin L, \A q \in L : C[q] = D[q],
         WellFormed(L, C), CheckRowConstraints(L \cup {s}, D, s)
  PROVE  WellFormed(L \cup {s}, D)
<1>1. ASSUME NEW q \in L
      PROVE  CheckRowConstraints(L \cup {s}, D, q)
  <2>1. CheckRowConstraints(L, C, q)
    BY DEF WellFormed
  <2>2. ASSUME Pk[q[1]] # NoCol
        PROVE  /\ D[q][Pk[q[1]]] # NULL
               /\ \A p \in L \cup {s} : p[1] = q[1] /\ p # q => D[p][Pk[q[1]]] # D[q][Pk[q[1]]]
    BY <2>1, <2>2 DEF CheckRowConstraints
  <2>3. ASSUME NEW f \in Fk, f[1] = q[1], D[q][f[2]] # NULL
        PROVE  \E p \in L \cup {s} : p[1] = f[3] /\ D[p][Pk[f[3]]] = D[q][f[2]]
    BY <2>1, <2>3 DEF CheckRowConstraints
  <2>. QED
    BY <2>2, <2>3 DEF CheckRowConstraints
<1>. QED
  BY <1>1 DEF WellFormed

\* A deleted row that nothing refers to.
LEMMA DeleteValid ==
  ASSUME NEW L, NEW C, NEW s \in L, WellFormed(L, C), ~PkReferenced(L, C, s)
  PROVE  WellFormed(L \ {s}, C)
<1>1. ASSUME NEW q \in L \ {s}
      PROVE  CheckRowConstraints(L \ {s}, C, q)
  <2>1. CheckRowConstraints(L, C, q)
    BY DEF WellFormed
  <2>2. ASSUME NEW f \in Fk, f[1] = q[1], C[q][f[2]] # NULL
        PROVE  \E p \in L \ {s} : p[1] = f[3] /\ C[p][Pk[f[3]]] = C[q][f[2]]
    <3>1. PICK p \in L : p[1] = f[3] /\ C[p][Pk[f[3]]] = C[q][f[2]]
      BY <2>1, <2>2 DEF CheckRowConstraints
    <3>2. Pk[f[3]] # NoCol
      BY SchemaAssumption
    <3>3. p # s
      BY <2>2, <3>1, <3>2 DEF PkReferenced
    <3>. QED
      BY <3>1, <3>3
  <2>. QED
    BY <2>1, <2>2 DEF CheckRowConstraints
<1>. QED
  BY <1>1 DEF WellFormed

\* A row is picked for its assignments: nothing refers to its key, or it keeps it.
LEMMA PickedStands ==
  ASSUME NEW L, NEW C, NEW s \in L, NEW q \in L, NEW keyed, WellFormed(L, C),
         ~(keyed /\ PkReferenced(L, C, s))
  PROVE  StandsWithout(L, C, q, s, keyed)
<1>1. CheckRowConstraints(L, C, q)
  BY DEF WellFormed
<1>2. ASSUME NEW f \in Fk, f[1] = q[1], C[q][f[2]] # NULL
      PROVE  \E p \in L : p[1] = f[3] /\ C[p][Pk[f[3]]] = C[q][f[2]] /\ (p = s => ~keyed)
  <2>1. PICK p \in L : p[1] = f[3] /\ C[p][Pk[f[3]]] = C[q][f[2]]
    BY <1>1, <1>2 DEF CheckRowConstraints
  <2>2. Pk[f[3]] # NoCol
    BY SchemaAssumption
  <2>3. p = s => ~keyed
    BY <1>2, <2>1, <2>2 DEF PkReferenced
  <2>. QED
    BY <2>1, <2>3
<1>. QED
  BY <1>1, <1>2 DEF StandsWithout, CheckRowConstraints

\* All of its assignments made, the row passes its check.
LEMMA AssignedValid ==
  ASSUME NEW L, NEW C, NEW s \in L, NEW keyed, CheckRowConstraints(L, C, s),
         \A q \in L : q # s => StandsWithout(L, C, q, s, keyed)
  PROVE  WellFormed(L, C)
<1>1. ASSUME NEW q \in L, q # s
      PROVE  CheckRowConstraints(L, C, q)
  <2>1. StandsWithout(L, C, q, s, keyed)
    BY <1>1
  <2>2. ASSUME Pk[q[1]] # NoCol
        PROVE  /\ C[q][Pk[q[1]]] # NULL
               /\ \A p \in L : p[1] = q[1] /\ p # q => C[p][Pk[q[1]]] # C[q][Pk[q[1]]]
    BY <1>1, <2>1, <2>2 DEF StandsWithout, CheckRowConstraints
  <2>. QED
    BY <2>1, <2>2 DEF StandsWithout, CheckRowConstraints
<1>. QED
  BY <1>1 DEF WellFormed

\* Renumbered rows are right as they were: to[q] is the row q was.
LEMMA RenumberedValid ==
  ASSUME NEW L, NEW C, NEW M, NEW D, NEW to \in [M -> L],
         \A q \in M : to[q][1] = q[1] /\ D[q] = C[to[q]],
         \A p, q \in M : to[p] = to[q] => p = q,
         \A p \in L : \E q \in M : to[q] = p,
         WellFormed(L, C)
  PROVE  WellFormed(M, D)
<1>1. ASSUME NEW q \in M
      PROVE  CheckRowConstraints(M, D, q)
  <2>1. CheckRowConstraints(L, C, to[q])
    BY DEF WellFormed
  <2>2. ASSUME Pk[q[1]] # NoCol
        PROVE  /\ D[q][Pk[q[1]]] # NULL
               /\ \A p \in M : p[1] = q[1] /\ p # q => D[p][Pk[q[1]]] # D[q][Pk[q[1]]]
    BY <2>1, <2>2 DEF CheckRowConstraints
  <2>3. ASSUME NEW f \in Fk, f[1] = q[1], D[q][f[2]] # NULL
        PROVE  \E p \in M : p[1] = f[3] /\ D[p][Pk[f[3]]] = D[q][f[2]]
    <3>1. PICK p \in L : p[1] = f[3] /\ C[p][Pk[f[3]]] = C[to[q]][f[2]]
      BY <2>1, <2>3 DEF CheckRowConstraints
    <3>. QED
      BY <3>1
  <2>. QED
    BY <2>2, <2>3 DEF CheckRowConstraints
<1>. QED
  BY <1>1 DEF WellFormed

-----------------------------------------------------------------------------
(* The steps.                                                              *)

LEMMA InitValid == Init => ValidInv
<1>. SUFFICES ASSUME Init PROVE ValidInv
  OBVIOUS
<1>1. Valid(Image) /\ begun = Image /\ seen = Image /\ pc = "idle"
  BY DEF Init, Valid, Image
<1>. QED
  BY <1>1, InitUndo DEF ValidInv, Halfway

\* The ghosts take the memory as it is, or stay.
LEMMA GhostsValid ==
  ASSUME ValidInv, begun' \in {begun, Image'}, seen' \in {seen, Image'},
         begun' = Image' \/ seen' = Image' => Valid(Image')
  PROVE  Valid(begun') /\ Valid(seen')
BY DEF ValidInv

\* The memory stays right over steps that leave it alone or come back to it.
LEMMA ValidTxn ==
  ASSUME ValidInv, Begin \/ Commit \/ CommitOk \/ CommitFail \/ Rollback \/ StartAny \/ StmtOk
  PROVE  Valid(begun') /\ Valid(seen') /\ Valid(Image') /\ pc' # "assign"
<1>1. UNCHANGED mem /\ pc \in {"idle", "row", "commit"} /\ pc' # "assign"
  BY DEF Begin, Commit, CommitOk, CommitFail, Rollback, StartAny, Start, StartAt, StmtOk, Return
<1>2. Image' = Image /\ Valid(Image)
  BY <1>1 DEF Image, mem, ValidInv
<1>3. begun' \in {begun, Image} /\ seen' \in {seen, Image'}
  BY <1>2 DEF Begin, Commit, CommitOk, CommitFail, Rollback, StartAny, Start, StartAt, StmtOk, Return
<1>. QED
  BY <1>1, <1>2, <1>3, GhostsValid

LEMMA ValidEnd ==
  ASSUME ValidInv, EndRollback \/ EndFailed
  PROVE  Valid(begun') /\ Valid(seen') /\ Valid(Image') /\ pc' # "assign"
<1>1. /\ Image' = Image /\ pc' = "idle" /\ seen' = Image' /\ begun' \in {begun, Image}
      /\ Len(log) = stmt.mark
  BY DEF EndRollback, EndFailed, Return, Image, mem
<1>2. Image \in Images /\ begun \in Images /\ seen \in Images
  BY UndoFacts DEF ValidInv, TypeOK
<1>3. Agrees(begun, Image) \/ Agrees(seen, Image)
  <2>1. CASE EndRollback
    <3>1. pc = "rollback" /\ Before(1) = Image /\ active
      BY <1>1, <2>1 DEF EndRollback, ValidInv, UndoInv, Calm, Before
    <3>. QED
      BY <3>1 DEF ValidInv, UndoInv, Anchored
  <2>2. CASE EndFailed
    BY <1>1, <2>2, UndoFacts DEF EndFailed, ValidInv, UndoInv, Anchored
  <2>. QED
    BY <2>1, <2>2
<1>4. Valid(Image)
  BY <1>2, <1>3, AgreesValid DEF ValidInv, UndoInv, AllSound
<1>. QED
  BY <1>1, <1>4, GhostsValid

\* A statement that gives up, or is being undone, shows nothing yet.
LEMMA ValidUndoing ==
  ASSUME ValidInv, pc' \in {"undo", "rollback"}, UNCHANGED <<begun, seen>>
  PROVE  Valid(begun') /\ Valid(seen') /\ pc' \notin {"idle", "row", "commit", "assign"}
BY DEF ValidInv

LEMMA ValidInsertRow ==
  ASSUME ValidInv, NEW x \in Tuple, InsertRow(x), ~Fail
  PROVE  Valid(Image') /\ pc' = "row" /\ UNCHANGED <<begun, seen>>
<1>. DEFINE s == <<stmt.tab, n[stmt.tab] + 1>>
            D == [cell EXCEPT ![s] = x]
<1>1. /\ CheckRowConstraints(live \cup {s}, D, s) /\ live' = live \cup {s} /\ cell' = D
      /\ pc = "row" /\ UNCHANGED <<pc, begun, seen>>
  BY DEF InsertRow, Running
<1>2. s \notin live /\ cell \in [Slot -> Tuple] /\ live \subseteq Slot
  <2>1. n[stmt.tab] \in Nat /\ TypeOK
    BY StmtType, BoundAssumption DEF ValidInv, UndoInv, TypeInv, TypeOK
  <2>2. \A q \in live : q[2] <= n[q[1]]
    BY DEF ValidInv, UndoInv, AllSound, Sound, Allocated, Image
  <2>. QED
    BY <2>1, <2>2 DEF TypeOK
<1>3. \A q \in live : cell[q] = D[q]
  BY <1>2
<1>4. WellFormed(live, cell)
  BY <1>1 DEF ValidInv, Valid, Image
<1>. HIDE DEF D, s
<1>5. WellFormed(live \cup {s}, D)
  BY <1>1, <1>2, <1>3, <1>4, InsertValid
<1>. QED
  BY <1>1, <1>5 DEF Valid, Image

LEMMA ValidDeleteRow ==
  ASSUME ValidInv, NEW r \in Row, DeleteRow(r), ~Fail
  PROVE  Valid(Image') /\ pc' = "row" /\ UNCHANGED <<begun, seen>>
<1>. DEFINE s == <<stmt.tab, r>>
<1>1. /\ s \in live /\ ~PkReferenced(live, cell, s) /\ live' = live \ {s} /\ cell' = cell
      /\ pc = "row" /\ UNCHANGED <<pc, begun, seen>>
  BY DEF DeleteRow, Running, NextRow
<1>2. WellFormed(live, cell)
  BY <1>1 DEF ValidInv, Valid, Image
<1>. HIDE DEF s
<1>3. WellFormed(live \ {s}, cell)
  BY <1>1, <1>2, DeleteValid
<1>. QED
  BY <1>1, <1>3 DEF Valid, Image

LEMMA ValidUpdateRow ==
  ASSUME ValidInv, TypeInv', NEW r \in Row, UpdateRow(r), ~Fail
  PROVE  Halfway' /\ pc' = "assign" /\ UNCHANGED <<begun, seen>>
<1>. DEFINE s == <<stmt.tab, r>>
<1>1. /\ s \in live /\ ~(KeyAssigned /\ PkReferenced(live, cell, s)) /\ UNCHANGED <<live, cell>>
      /\ pc = "row" /\ pc' = "assign" /\ UNCHANGED <<begun, seen>>
      /\ stmt' = [stmt EXCEPT !.cur = r, !.pos = 1]
  BY DEF UpdateRow, Running, NextRow, KeyAssigned, mem
<1>2. stmt'.tab = stmt.tab /\ stmt'.cur = r /\ stmt'.set = stmt.set
  BY <1>1 DEF ValidInv, UndoInv, TypeInv, TypeOK, Stmts
<1>3. KeyAssigned' = KeyAssigned
  BY <1>2 DEF KeyAssigned
<1>4. WellFormed(live, cell)
  BY <1>1 DEF ValidInv, Valid, Image
<1>. HIDE DEF s
<1>5. \A q \in live : StandsWithout(live, cell, q, s, KeyAssigned)
  BY <1>1, <1>4, PickedStands
<1>. QED
  BY <1>1, <1>2, <1>3, <1>5 DEF Halfway, s

LEMMA ValidAssignCell ==
  ASSUME ValidInv, NEW v \in Cell, AssignCell(v)
  PROVE  Halfway' /\ pc' = "assign" /\ UNCHANGED <<begun, seen>>
<1>. DEFINE s == <<stmt.tab, stmt.cur>>
            c == stmt.set[stmt.pos]
            D == [cell EXCEPT ![s][c] = v]
<1>1. /\ pc = "assign" /\ stmt.pos <= Len(stmt.set) /\ live' = live /\ cell' = D
      /\ UNCHANGED <<pc, begun, seen>> /\ stmt' = [stmt EXCEPT !.pos = @ + 1]
  BY DEF AssignCell, Assigning
<1>2. stmt'.tab = stmt.tab /\ stmt'.cur = stmt.cur /\ stmt'.set = stmt.set
  BY <1>1 DEF ValidInv, UndoInv, TypeInv, TypeOK, Stmts
<1>3. KeyAssigned' = KeyAssigned
  BY <1>2 DEF KeyAssigned
<1>4. /\ s \in live /\ s \in Slot /\ cell \in [Slot -> Tuple] /\ live \subseteq Slot
      /\ \A q \in live : q # s => StandsWithout(live, cell, q, s, KeyAssigned)
  BY <1>1 DEF Halfway, ValidInv, UndoInv, TypeInv, TypeOK
<1>5. c \in Col /\ (~KeyAssigned => c # Pk[stmt.tab])
  <2>1. stmt.pos \in 1..Len(stmt.set) /\ stmt.set \in Seq(Col)
    BY <1>1, StmtType DEF ValidInv, UndoInv, TypeInv, InStatement
  <2>. QED
    BY <2>1 DEF KeyAssigned
<1>6. \A q \in live : q # s => D[q] = cell[q]
  BY <1>4
<1>7. ~KeyAssigned => D[s][Pk[stmt.tab]] = cell[s][Pk[stmt.tab]]
  <2>1. cell[s] \in [Col -> Cell] /\ D[s] = [cell[s] EXCEPT ![c] = v]
    BY <1>4 DEF Tuple
  <2>2. ASSUME ~KeyAssigned PROVE D[s][Pk[stmt.tab]] = cell[s][Pk[stmt.tab]]
    <3>1. c # Pk[stmt.tab]
      BY <1>5, <2>2
    <3>. HIDE DEF c, D, s
    <3>. QED
      BY <2>1, <3>1
  <2>. QED
    BY <2>2
<1>8. s[1] = stmt.tab
  OBVIOUS
<1>. HIDE DEF D, s, c
<1>9. ASSUME NEW q \in live, q # s
      PROVE  StandsWithout(live, D, q, s, KeyAssigned)
  <2>1. StandsWithout(live, cell, q, s, KeyAssigned)
    BY <1>4, <1>9
  <2>2. ASSUME NEW f \in Fk, f[1] = q[1], D[q][f[2]] # NULL
        PROVE  \E p \in live : /\ p[1] = f[3] /\ D[p][Pk[f[3]]] = D[q][f[2]]
                               /\ p = s => ~KeyAssigned
    <3>1. PICK p \in live : /\ p[1] = f[3] /\ cell[p][Pk[f[3]]] = cell[q][f[2]]
                            /\ p = s => ~KeyAssigned
      BY <1>6, <1>9, <2>1, <2>2 DEF StandsWithout
    <3>2. D[p][Pk[f[3]]] = cell[p][Pk[f[3]]]
      BY <1>6, <1>7, <1>8, <3>1
    <3>. QED
      BY <1>6, <1>9, <3>1, <3>2
  <2>. QED
    BY <1>6, <1>9, <2>1, <2>2 DEF StandsWithout
<1>. QED
  BY <1>1, <1>2, <1>3, <1>4, <1>9 DEF Halfway, s

LEMMA ValidCheckUpdated ==
  ASSUME ValidInv, CheckUpdated, ~Fail
  PROVE  Valid(Image') /\ pc' = "row" /\ UNCHANGED <<begun, seen>>
<1>. DEFINE s == <<stmt.tab, stmt.cur>>
<1>1. /\ pc = "assign" /\ CheckRowConstraints(live, cell, s) /\ UNCHANGED <<live, cell>>
      /\ pc' = "row" /\ UNCHANGED <<begun, seen>>
  BY DEF CheckUpdated, mem
<1>2. s \in live /\ \A q \in live : q # s => StandsWithout(live, cell, q, s, KeyAssigned)
  BY <1>1 DEF ValidInv, Halfway
<1>. HIDE DEF s
<1>3. WellFormed(live, cell)
  BY <1>1, <1>2, AssignedValid
<1>. QED
  BY <1>1, <1>3 DEF Valid, Image

LEMMA ValidCompact ==
  ASSUME ValidInv, NEW t \in Table, Compact(t)
  PROVE  Valid(begun') /\ Valid(seen') /\ Valid(Image') /\ pc' # "assign"
<1>1. begun' = Image' /\ seen' = Image' /\ pc = "idle" /\ pc' = pc
  BY DEF Compact
<1>2. PICK m \in 0..MaxRow : \E f \in [1..m -> Row] :
        /\ \A i, j \in 1..m : i < j => f[i] < f[j]
        /\ \A r \in Row : <<t, r>> \in live <=> \E i \in 1..m : f[i] = r
        /\ live' = {s \in Slot : IF s[1] = t THEN s[2] <= m ELSE s \in live}
        /\ cell' = [s \in Slot |-> IF s[1] # t THEN cell[s]
                                   ELSE IF s[2] <= m THEN cell[<<t, f[s[2]]>>]
                                   ELSE NullTuple]
  BY DEF Compact, Renumbered
<1>3. PICK f \in [1..m -> Row] :
        /\ \A i, j \in 1..m : i < j => f[i] < f[j]
        /\ \A r \in Row : <<t, r>> \in live <=> \E i \in 1..m : f[i] = r
        /\ live' = {s \in Slot : IF s[1] = t THEN s[2] <= m ELSE s \in live}
        /\ cell' = [s \in Slot |-> IF s[1] # t THEN cell[s]
                                   ELSE IF s[2] <= m THEN cell[<<t, f[s[2]]>>]
                                   ELSE NullTuple]
  BY <1>2
<1>4. live \subseteq Slot /\ live' \subseteq Slot /\ m \in Nat
  BY <1>3, BoundAssumption DEF ValidInv, UndoInv, TypeInv, TypeOK
<1>5. \A s \in Slot : s[1] \in Table /\ s[2] \in Row /\ s[2] \in Nat /\ s[2] >= 1 /\ s = <<s[1], s[2]>>
  BY BoundAssumption DEF Slot, Row
<1>6. \A i, j \in 1..m : f[i] = f[j] => i = j
  <2>1. \A i \in 1..m : f[i] \in Nat
    BY BoundAssumption DEF Row
  <2>. QED
    BY <1>3, <2>1
<1>. DEFINE to == [q \in live' |-> IF q[1] = t THEN <<t, f[q[2]]>> ELSE q]
<1>7. ASSUME NEW q \in live'
      PROVE  /\ to[q] \in live /\ to[q][1] = q[1] /\ cell'[q] = cell[to[q]]
             /\ q[1] = t => q[2] \in 1..m /\ to[q] = <<t, f[q[2]]>>
             /\ q[1] # t => to[q] = q
  <2>1. q \in Slot
    BY <1>4
  <2>2. CASE q[1] = t
    <3>1. q[2] \in 1..m
      BY <1>3, <1>4, <1>5, <2>1, <2>2
    <3>2. to[q] = <<t, f[q[2]]>> /\ f[q[2]] \in Row
      BY <2>2, <3>1
    <3>3. to[q] \in live
      BY <1>3, <3>1, <3>2
    <3>. HIDE DEF to
    <3>4. cell'[q] = cell[<<t, f[q[2]]>>]
      BY <1>3, <1>4, <2>1, <2>2, <3>1
    <3>. QED
      BY <2>2, <3>1, <3>2, <3>3, <3>4
  <2>3. CASE q[1] # t
    BY <1>3, <2>1, <2>3
  <2>. QED
    BY <2>2, <2>3
<1>. HIDE DEF to
<1>8. to \in [live' -> live]
  BY <1>7 DEF to
<1>9. ASSUME NEW p \in live', NEW q \in live', to[p] = to[q]
      PROVE  p = q
  <2>1. p[1] = q[1] /\ p \in Slot /\ q \in Slot
    BY <1>4, <1>7, <1>9
  <2>2. CASE p[1] = t
    <3>1. f[p[2]] = f[q[2]] /\ p[2] \in 1..m /\ q[2] \in 1..m
      BY <1>7, <1>9, <2>1, <2>2
    <3>. QED
      BY <1>5, <1>6, <2>1, <3>1
  <2>3. CASE p[1] # t
    BY <1>7, <1>9, <2>1, <2>3
  <2>. QED
    BY <2>2, <2>3
<1>10. ASSUME NEW p \in live
       PROVE  \E q \in live' : to[q] = p
  <2>1. p \in Slot
    BY <1>4
  <2>2. CASE p[1] = t
    <3>1. p[2] \in Row /\ p = <<t, p[2]>>
      BY <1>5, <2>1, <2>2
    <3>2. PICK i \in 1..m : f[i] = p[2]
      BY <1>3, <3>1
    <3>3. <<t, i>> \in live'
      <4>1. i \in Row
        BY <3>2, BoundAssumption DEF Row
      <4>2. <<t, i>> \in Slot /\ i <= m
        BY <4>1, <3>2, <1>4 DEF Slot
      <4>. QED
        BY <1>3, <4>2
    <3>. QED
      BY <1>7, <3>1, <3>2, <3>3
  <2>3. CASE p[1] # t
    <3>1. p \in live'
      BY <1>3, <2>1, <2>3
    <3>. QED
      BY <1>7, <2>3, <3>1
  <2>. QED
    BY <2>2, <2>3
<1>11. WellFormed(live, cell)
  BY <1>1 DEF ValidInv, Valid, Image
<1>12. WellFormed(live', cell')
  BY <1>7, <1>8, <1>9, <1>10, <1>11, RenumberedValid
<1>13. Valid(Image')
  BY <1>12 DEF Valid, Image
<1>. QED
  BY <1>1, <1>13

LEMMA NextValid ==
  ASSUME "heap" \notin Faults
  PROVE  ValidInv /\ [Next]_vars => ValidInv'
<1>. SUFFICES ASSUME ValidInv, [Next]_vars PROVE ValidInv'
  OBVIOUS
<1>1. UndoInv'
  BY NextUndo DEF ValidInv
<1>2. TypeInv'
  BY <1>1 DEF UndoInv
<1>3. ASSUME Valid(begun'), Valid(seen'), Valid(Image'), pc' # "assign"
      PROVE  ValidInv'
  BY <1>1, <1>3 DEF ValidInv, Halfway, Valid
<1>4. ASSUME UNCHANGED <<begun, seen>>, Valid(Image'), pc' # "assign"
      PROVE  ValidInv'
  BY <1>1, <1>4 DEF ValidInv, Halfway, Valid
<1>5. ASSUME UNCHANGED <<begun, seen>>, pc' = "assign", Halfway'
      PROVE  ValidInv'
  BY <1>1, <1>5 DEF ValidInv, Valid
<1>6. ASSUME UNCHANGED <<begun, seen>>, pc' \in {"undo", "rollback"}
      PROVE  ValidInv'
  BY <1>1, <1>6 DEF ValidInv, Halfway, Valid
<1>7. CASE Begin \/ Commit \/ CommitOk \/ CommitFail \/ Rollback \/ StartAny \/ StmtOk
  BY <1>3, <1>7, ValidTxn
<1>8. CASE EndRollback \/ EndFailed
  BY <1>3, <1>8, ValidEnd
<1>9. CASE UndoOne
  BY <1>6, <1>9 DEF UndoOne
<1>10. CASE InsertReject \/ AssignNoLog
  BY <1>6, <1>10 DEF InsertReject, AssignNoLog, Fail
<1>11. ASSUME NEW x \in Tuple, InsertRow(x)
       PROVE  ValidInv'
  BY <1>4, <1>6, <1>11, ValidInsertRow DEF Fail
<1>12. ASSUME NEW r \in Row, SkipRow(r)
       PROVE  ValidInv'
  <2>1. UNCHANGED <<begun, seen>> /\ Image' = Image /\ pc' = pc /\ pc = "row"
    BY <1>12 DEF SkipRow, Running, mem, Image
  <2>. QED
    BY <1>4, <2>1 DEF ValidInv
<1>13. ASSUME NEW r \in Row, DeleteRow(r)
       PROVE  ValidInv'
  BY <1>4, <1>6, <1>13, ValidDeleteRow DEF Fail
<1>14. ASSUME NEW r \in Row, UpdateRow(r)
       PROVE  ValidInv'
  BY <1>2, <1>5, <1>6, <1>14, ValidUpdateRow DEF Fail
<1>15. ASSUME NEW v \in Cell, AssignCell(v)
       PROVE  ValidInv'
  BY <1>5, <1>15, ValidAssignCell
<1>16. CASE CheckUpdated
  BY <1>4, <1>6, <1>16, ValidCheckUpdated DEF Fail
<1>17. ASSUME NEW t \in Table, Compact(t)
       PROVE  ValidInv'
  BY <1>3, <1>17, ValidCompact
<1>18. CASE InsertOom \/ InsertLatched \/ AssignOom
  BY <1>18, NoOom DEF ValidInv
<1>19. CASE UNCHANGED vars
  <2>1. UNCHANGED <<begun, seen, live, cell, pc, stmt>> /\ Image' = Image
    BY <1>19 DEF vars, Image
  <2>2. Halfway'
    BY <2>1 DEF ValidInv, Halfway, KeyAssigned
  <2>. QED
    BY <1>1, <2>1, <2>2 DEF ValidInv
<1>. QED
  BY <1>7, <1>8, <1>9, <1>10, <1>11, <1>12, <1>13, <1>14, <1>15, <1>16, <1>17, <1>18, <1>19
  DEF Next

\* Whenever a call has returned, keys are set and unique and references find
\* their rows, when the tables' own storage does not run out: over statements
\* of many rows, repeated assignments, deletions of what was referenced,
\* statements undone half way, ROLLBACK and renumbering.
THEOREM KeysAndReferencesHold ==
  ASSUME "heap" \notin Faults
  PROVE  Spec => []Integrity
<1>1. ValidInv /\ [Next]_vars => ValidInv'
  BY NextValid
<1>2. ValidInv => Integrity
  BY DEF ValidInv, Valid, Integrity, Image
<1>. QED
  BY <1>1, <1>2, InitValid, PTL DEF Spec
=============================================================================
