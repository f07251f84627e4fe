---------------------------- MODULE EngineProofs ----------------------------
(***************************************************************************)
(* Theorems about Engine, for every schema and every bound: its type       *)
(* invariant; when the tables' own storage does not run out, the exactness *)
(* of the undo log, from which a failed statement and a ROLLBACK are seen  *)
(* to restore what they must; and, whatever runs out, what a table that    *)
(* ran out of memory keeps of its cells.                                   *)
(***************************************************************************)
EXTENDS Engine, TLAPS

\* Where the statement stands, as far as typing needs it: between the moment
\* a row is picked and the moment it is checked it has a row and a position.
InStatement == pc = "assign" => stmt.cur \in Row /\ stmt.pos >= 1

TypeInv == TypeOK /\ InStatement

-----------------------------------------------------------------------------

LEMMA ImageType ==
  ASSUME TypeOK
  PROVE  Image \in Images
BY DEF TypeOK, Image, Images

LEMMA NextImageType ==
  ASSUME n' \in [Table -> 0..MaxRow], live' \subseteq Slot, cell' \in [Slot -> Tuple]
  PROVE  Image' \in Images
BY DEF Image, Images

LEMMA NoStmtType ==
  NoStmt \in Stmts
<1>1. (CHOOSE t \in Table : TRUE) \in Table
  BY SchemaAssumption
<1>2. <<>> \in Seq(Col)
  OBVIOUS
<1>. QED
  BY <1>1, <1>2 DEF NoStmt, Stmts

\* The types of what Return assigns.
LEMMA ReturnType ==
  ASSUME Return, n' \in [Table -> 0..MaxRow], live' \subseteq Slot, cell' \in [Slot -> Tuple]
  PROVE  /\ pc' = "idle"
         /\ stmt' \in Stmts
         /\ seen' \in Images
BY NoStmtType, NextImageType DEF Return

LEMMA StmtType ==
  ASSUME TypeOK
  PROVE  /\ stmt.tab \in Table /\ stmt.auto \in BOOLEAN /\ stmt.set \in Seq(Col)
         /\ stmt.mark \in Nat /\ stmt.cur \in Nat /\ stmt.pos \in Nat
BY DEF TypeOK, Stmts

\* The statement moves to another row, or to another position in it.
LEMMA StmtMoveType ==
  ASSUME TypeOK, NEW i \in Nat
  PROVE  /\ [stmt EXCEPT !.cur = i] \in Stmts
         /\ [stmt EXCEPT !.pos = i] \in Stmts
         /\ [stmt EXCEPT !.pos = i].cur = stmt.cur
         /\ [stmt EXCEPT !.pos = i].pos = i
BY DEF TypeOK, Stmts

\* Pushing a typed entry keeps the log and its ghost typed and of one length.
LEMMA PushType ==
  ASSUME TypeOK, NEW e \in Entries, Push(e)
  PROVE  /\ log' \in Seq(Entries) /\ hist' \in Seq(Images)
         /\ Len(log') = Len(log) + 1 /\ Len(log') = Len(hist')
BY ImageType DEF TypeOK, Push

\* What undo_one leaves is a memory image again.
LEMMA UndoneType ==
  ASSUME NEW S \in Images, NEW e \in Entries
  PROVE  Undone(e, S) \in Images
<1>1. CASE e.kind = "insert"
  BY <1>1 DEF Undone, Images, Entries
<1>2. CASE e.kind = "delete"
  BY <1>2 DEF Undone, Images, Entries
<1>3. CASE e.kind = "update"
  <2>1. e.slot \in Slot /\ e.col \in Col /\ e.old \in Cell
    BY <1>3 DEF Entries
  <2>2. [S.cell[e.slot] EXCEPT ![e.col] = e.old] \in Tuple
    BY <2>1 DEF Images, Tuple
  <2>3. [S.cell EXCEPT ![e.slot] = [@ EXCEPT ![e.col] = e.old]] \in [Slot -> Tuple]
    BY <2>1, <2>2 DEF Images
  <2>. QED
    BY <1>3, <2>3 DEF Undone, Images
<1>. QED
  BY <1>1, <1>2, <1>3 DEF Entries

LEMMA InitType == Init => TypeInv
<1>. SUFFICES ASSUME Init PROVE TypeInv
  OBVIOUS
<1>1. /\ n \in [Table -> 0..MaxRow] /\ live \subseteq Slot /\ cell \in [Slot -> Tuple]
  BY DEF Init
<1>2. Image \in Images
  BY <1>1 DEF Image, Images
<1>3. <<>> \in Seq(Entries) /\ <<>> \in Seq(Images)
  OBVIOUS
<1>. QED
  BY <1>1, <1>2, <1>3, NoStmtType DEF Init, TypeInv, TypeOK, InStatement

\* Steps that leave the memory, the log and the statement's row alone.
LEMMA StartType ==
  ASSUME TypeInv, NEW k \in {"insert", "update", "delete"}, NEW t \in Table,
         NEW set \in Seq(Col), Start(k, t, set)
  PROVE  TypeInv'
<1>1. Image \in Images
  BY ImageType DEF TypeInv
<1>2. Len(log) \in Nat
  BY DEF TypeInv, TypeOK
<1>3. stmt' \in Stmts
  BY <1>2 DEF Start, StartAt, TypeInv, TypeOK, Stmts
<1>. QED
  BY <1>1, <1>3 DEF Start, StartAt, TypeInv, TypeOK, InStatement, mem

LEMMA TxnType ==
  ASSUME TypeInv,
         \/ Begin \/ Commit \/ CommitOk \/ CommitFail
         \/ Rollback \/ EndRollback \/ EndFailed
  PROVE  TypeInv'
<1>1. Image \in Images
  BY ImageType DEF TypeInv
<1>2. CASE Begin \/ Commit \/ Rollback
  BY <1>1, <1>2 DEF Begin, Commit, Rollback, TypeInv, TypeOK, InStatement, mem
<1>3. CASE CommitOk \/ CommitFail \/ EndRollback \/ EndFailed
  <2>1. UNCHANGED mem /\ Return
    BY <1>3 DEF CommitOk, CommitFail, EndRollback, EndFailed
  <2>2. /\ pc' = "idle"
        /\ stmt' \in Stmts
        /\ seen' \in Images
    BY <2>1, ReturnType DEF mem, TypeInv, TypeOK
  <2>3. <<>> \in Seq(Entries) /\ <<>> \in Seq(Images)
    OBVIOUS
  <2>. QED
    BY <1>1, <1>3, <2>1, <2>2, <2>3
    DEF CommitOk, CommitFail, EndRollback, EndFailed, TypeInv, TypeOK, InStatement, mem
<1>. QED
  BY <1>2, <1>3

LEMMA UndoType ==
  ASSUME TypeInv, UndoOne
  PROVE  TypeInv'
<1>. DEFINE L == Len(log)
            U == Undone(log[L], Image)
<1>1. L \in Nat /\ L >= 1 /\ log[L] \in Entries /\ L = Len(hist)
  BY StmtType DEF TypeInv, TypeOK, UndoOne
<1>3. U \in Images
  BY <1>1, ImageType, UndoneType DEF TypeInv
<1>4. live' \subseteq Slot /\ cell' \in [Slot -> Tuple]
  BY <1>3 DEF UndoOne, Images
<1>5. /\ SubSeq(log, 1, L - 1) \in Seq(Entries) /\ SubSeq(hist, 1, L - 1) \in Seq(Images)
      /\ Len(SubSeq(log, 1, L - 1)) = L - 1 /\ Len(SubSeq(hist, 1, L - 1)) = L - 1
  BY <1>1 DEF TypeInv, TypeOK
<1>6. /\ log' \in Seq(Entries) /\ hist' \in Seq(Images)
      /\ Len(log') = Len(hist')
  BY <1>1, <1>5 DEF UndoOne
<1>7. UNCHANGED <<n, failed, active, pc, stmt, begun, seen>>
  BY DEF UndoOne
<1>. QED
  BY <1>4, <1>6, <1>7 DEF TypeInv, TypeOK, InStatement

\* One more row in table t, holding x.
LEMMA AppendType ==
  ASSUME n \in [Table -> 0..MaxRow], cell \in [Slot -> Tuple],
         NEW t \in Table, NEW x \in Tuple, n[t] < MaxRow
  PROVE  /\ <<t, n[t] + 1>> \in Slot
         /\ [n EXCEPT ![t] = @ + 1] \in [Table -> 0..MaxRow]
         /\ [cell EXCEPT ![<<t, n[t] + 1>>] = x] \in [Slot -> Tuple]
<1>1. n[t] \in 0..MaxRow /\ MaxRow \in Nat
  BY BoundAssumption
<1>2. n[t] + 1 \in 0..MaxRow /\ n[t] + 1 \in Row
  BY <1>1 DEF Row
<1>. QED
  BY <1>2 DEF Slot

LEMMA InsertType ==
  ASSUME TypeInv,
         \/ InsertReject \/ InsertOom \/ InsertLatched
         \/ \E x \in Tuple : InsertRow(x)
  PROVE  TypeInv'
<1>. DEFINE t == stmt.tab
            s == <<t, n[t] + 1>>
<1>1. /\ t \in Table /\ n \in [Table -> 0..MaxRow] /\ live \subseteq Slot
      /\ cell \in [Slot -> Tuple] /\ stmt.cur \in Nat /\ NullTuple \in Tuple
  BY StmtType DEF TypeInv, TypeOK, NullTuple, Tuple, Cell
<1>2. n[t] < MaxRow => s \in Slot
  BY <1>1, AppendType, NullTuple \in Tuple
<1>3. CASE InsertReject
  BY <1>3 DEF InsertReject, Fail, TypeInv, TypeOK, InStatement, mem
<1>4. CASE InsertOom
  <2>1. \/ UNCHANGED <<n, cell>>
        \/ /\ n[t] < MaxRow
           /\ n' = [n EXCEPT ![t] = @ + 1]
           /\ cell' = [cell EXCEPT ![s] = NullTuple]
    BY <1>4 DEF InsertOom
  <2>2. n' \in [Table -> 0..MaxRow] /\ cell' \in [Slot -> Tuple]
    BY <1>1, <2>1, AppendType
  <2>. QED
    BY <1>1, <1>4, <2>2 DEF InsertOom, Fail, TypeInv, TypeOK, InStatement
<1>5. CASE InsertLatched
  <2>1. \/ UNCHANGED mem
        \/ /\ n[t] < MaxRow
           /\ n' = [n EXCEPT ![t] = @ + 1]
           /\ live' = live \cup {s}
           /\ cell' = [cell EXCEPT ![s] = NullTuple]
    BY <1>5 DEF InsertLatched
  <2>2. n' \in [Table -> 0..MaxRow] /\ cell' \in [Slot -> Tuple] /\ live' \subseteq Slot
    BY <1>1, <1>2, <2>1, AppendType DEF mem
  <2>. QED
    BY <1>1, <1>5, <2>2 DEF InsertLatched, Fail, TypeInv, TypeOK, InStatement
<1>6. ASSUME NEW x \in Tuple, InsertRow(x) PROVE TypeInv'
  <2>0. /\ n[t] < MaxRow /\ pc = "row" /\ failed' = failed
        /\ n' = [n EXCEPT ![t] = @ + 1]
        /\ cell' = [cell EXCEPT ![s] = x]
    BY <1>6 DEF InsertRow, Running
  <2>1. n' \in [Table -> 0..MaxRow] /\ cell' \in [Slot -> Tuple]
    BY <1>1, <2>0, AppendType
  <2>2. Entry("insert", s, NoCol, NULL) \in Entries
    BY <1>2, <2>0 DEF Entry, Entries
  <2>3. CASE Fail /\ UNCHANGED <<live, log, hist>>
    BY <2>0, <2>1, <2>3 DEF Fail, TypeInv, TypeOK, InStatement
  <2>4. CASE /\ live' = live \cup {s}
             /\ Push(Entry("insert", s, NoCol, NULL))
             /\ stmt' = [stmt EXCEPT !.cur = @ + 1]
             /\ UNCHANGED <<active, pc, begun, seen>>
    <3>0. s \in Slot
      BY <1>2, <2>0
    <3>1. live' \subseteq Slot /\ pc' = "row"
      BY <1>1, <2>0, <2>4, <3>0
    <3>2. log' \in Seq(Entries) /\ hist' \in Seq(Images) /\ Len(log') = Len(hist')
      BY <2>2, <2>4, PushType DEF TypeInv
    <3>3. stmt.cur + 1 \in Nat
      BY <1>1
    <3>4. stmt' \in Stmts
      BY <2>4, <3>3, StmtMoveType DEF TypeInv
    <3>. QED
      BY <2>0, <2>1, <2>4, <3>1, <3>2, <3>4 DEF TypeInv, TypeOK, InStatement
  <2>. QED
    BY <1>6, <2>3, <2>4 DEF InsertRow
<1>. QED
  BY <1>3, <1>4, <1>5, <1>6

LEMMA RowType ==
  ASSUME TypeInv,
         NEW r \in Row, SkipRow(r) \/ DeleteRow(r) \/ UpdateRow(r)
  PROVE  TypeInv'
<1>. DEFINE s == <<stmt.tab, r>>
<1>1. s \in Slot /\ r \in Nat
  BY BoundAssumption, StmtType DEF TypeInv, Slot, Row
<1>2. CASE SkipRow(r)
  <2>1. stmt' \in Stmts
    BY <1>1, <1>2 DEF SkipRow, TypeInv, TypeOK, Stmts
  <2>. QED
    BY <1>2, <2>1 DEF SkipRow, Running, TypeInv, TypeOK, InStatement, mem
<1>3. CASE UpdateRow(r)
  <2>1. CASE Fail
    BY <1>3, <2>1 DEF UpdateRow, Fail, TypeInv, TypeOK, InStatement, mem
  <2>2. CASE /\ pc' = "assign"
             /\ stmt' = [stmt EXCEPT !.cur = r, !.pos = 1]
             /\ UNCHANGED <<active, begun, seen>>
    <3>1. stmt' \in Stmts /\ stmt'.cur = r /\ stmt'.pos = 1
      BY <1>1, <2>2 DEF TypeInv, TypeOK, Stmts
    <3>. QED
      BY <1>3, <2>2, <3>1 DEF UpdateRow, TypeInv, TypeOK, InStatement, mem
  <2>. QED
    BY <1>3, <2>1, <2>2 DEF UpdateRow
<1>4. CASE DeleteRow(r)
  <2>1. Entry("delete", s, NoCol, NULL) \in Entries
    BY <1>1 DEF Entry, Entries
  <2>2. CASE Fail /\ UNCHANGED <<live, log, hist>>
    BY <1>4, <2>2 DEF DeleteRow, Fail, TypeInv, TypeOK, InStatement
  <2>3. CASE /\ Push(Entry("delete", s, NoCol, NULL))
             /\ live' = live \ {s}
             /\ stmt' = [stmt EXCEPT !.cur = r]
             /\ UNCHANGED <<active, pc, begun, seen>>
    <3>1. log' \in Seq(Entries) /\ hist' \in Seq(Images) /\ Len(log') = Len(hist')
      BY <2>1, <2>3, PushType DEF TypeInv
    <3>2. stmt' \in Stmts
      BY <1>1, <2>3 DEF TypeInv, TypeOK, Stmts
    <3>. QED
      BY <1>4, <2>3, <3>1, <3>2 DEF DeleteRow, Running, TypeInv, TypeOK, InStatement
  <2>. QED
    BY <1>4, <2>2, <2>3 DEF DeleteRow
<1>. QED
  BY <1>2, <1>3, <1>4

LEMMA AssignType ==
  ASSUME TypeInv,
         AssignNoLog \/ AssignOom \/ \E v \in Cell : AssignCell(v)
  PROVE  TypeInv'
<1>. DEFINE s == <<stmt.tab, stmt.cur>>
            c == stmt.set[stmt.pos]
<1>1. CASE AssignNoLog
  BY <1>1 DEF AssignNoLog, Fail, TypeInv, TypeOK, InStatement, mem
<1>2. ASSUME Assigning
      PROVE  /\ s \in Slot /\ c \in Col /\ cell[s][c] \in Cell
             /\ stmt.cur \in Row /\ stmt.pos \in Nat /\ stmt.pos >= 1
  <2>1. stmt.cur \in Row /\ stmt.pos \in 1..Len(stmt.set)
    BY <1>2, StmtType DEF Assigning, TypeInv, InStatement
  <2>2. s \in Slot /\ c \in Col
    BY <2>1, StmtType DEF TypeInv, Slot
  <2>. QED
    BY <2>1, <2>2 DEF TypeInv, TypeOK, Tuple
<1>3. ASSUME Assigning, stmt' = [stmt EXCEPT !.pos = @ + 1], pc' = pc
      PROVE  stmt' \in Stmts /\ InStatement'
  <2>0. stmt.pos + 1 \in Nat
    BY <1>2, <1>3
  <2>1. stmt' \in Stmts /\ stmt'.cur = stmt.cur /\ stmt'.pos = stmt.pos + 1
    BY <1>3, <2>0, StmtMoveType DEF TypeInv
  <2>. QED
    BY <1>2, <1>3, <2>1 DEF InStatement
<1>4. CASE AssignOom
  <2>1. Entry("update", s, c, cell[s][c]) \in Entries
    BY <1>2, <1>4 DEF AssignOom, Entry, Entries
  <2>2. log' \in Seq(Entries) /\ hist' \in Seq(Images) /\ Len(log') = Len(hist')
    BY <1>4, <2>1, PushType DEF AssignOom, TypeInv
  <2>3. stmt' \in Stmts /\ InStatement'
    BY <1>3, <1>4 DEF AssignOom
  <2>4. stmt.tab \in Table
    BY StmtType DEF TypeInv
  <2>. QED
    BY <1>4, <2>2, <2>3, <2>4 DEF AssignOom, TypeInv, TypeOK, mem
<1>5. ASSUME NEW v \in Cell, AssignCell(v) PROVE TypeInv'
  <2>1. Entry("update", s, c, cell[s][c]) \in Entries
    BY <1>2, <1>5 DEF AssignCell, Entry, Entries
  <2>2. log' \in Seq(Entries) /\ hist' \in Seq(Images) /\ Len(log') = Len(hist')
    BY <1>5, <2>1, PushType DEF AssignCell, TypeInv
  <2>3. cell' \in [Slot -> Tuple]
    BY <1>2, <1>5 DEF AssignCell, TypeInv, TypeOK, Tuple
  <2>4. stmt' \in Stmts /\ InStatement'
    BY <1>3, <1>5 DEF AssignCell
  <2>. QED
    BY <1>5, <2>2, <2>3, <2>4 DEF AssignCell, TypeInv, TypeOK
<1>. QED
  BY <1>1, <1>4, <1>5

LEMMA EndRowsType ==
  ASSUME TypeInv, CheckUpdated \/ StmtOk
  PROVE  TypeInv'
<1>1. CASE CheckUpdated
  BY <1>1 DEF CheckUpdated, Fail, TypeInv, TypeOK, InStatement, mem
<1>2. CASE StmtOk
  <2>1. CASE Return
    <3>1. pc' = "idle" /\ stmt' \in Stmts /\ seen' \in Images
      BY <1>2, <2>1, ReturnType DEF StmtOk, TypeInv, TypeOK, mem
    <3>. QED
      BY <1>2, <3>1 DEF StmtOk, TypeInv, TypeOK, InStatement, mem
  <2>2. CASE pc' = "commit" /\ UNCHANGED <<stmt, seen>>
    BY <1>2, <2>2 DEF StmtOk, TypeInv, TypeOK, InStatement, mem
  <2>. QED
    BY <1>2, <2>1, <2>2 DEF StmtOk
<1>. QED
  BY <1>1, <1>2

LEMMA CompactType ==
  ASSUME TypeInv, NEW t \in Table, Compact(t)
  PROVE  TypeInv'
<1>1. PICK m \in 0..MaxRow : \E f \in [1..m -> Row] :
        /\ n' = [n EXCEPT ![t] = m]
        /\ live' = {s \in Slot : IF s[1] = t THEN s[2] <= m ELSE s \in live}
        /\ cell' = [s \in Slot |-> IF s[1] # t THEN cell[s]
                                   ELSE IF s[2] <= m THEN cell[<<t, f[s[2]]>>]
                                   ELSE NullTuple]
  BY DEF Compact, Renumbered
<1>2. PICK f \in [1..m -> Row] :
        cell' = [s \in Slot |-> IF s[1] # t THEN cell[s]
                               ELSE IF s[2] <= m THEN cell[<<t, f[s[2]]>>]
                               ELSE NullTuple]
  BY <1>1
<1>3. n' \in [Table -> 0..MaxRow] /\ live' \subseteq Slot
  BY <1>1 DEF TypeInv, TypeOK
<1>4. ASSUME NEW s \in Slot PROVE cell'[s] \in Tuple
  <2>1. NullTuple \in Tuple /\ cell[s] \in Tuple
    BY DEF NullTuple, Tuple, Cell, TypeInv, TypeOK
  <2>2. ASSUME s[2] <= m PROVE cell[<<t, f[s[2]]>>] \in Tuple
    <3>1. s[2] \in 1..m
      BY <2>2, BoundAssumption DEF Slot, Row
    <3>2. <<t, f[s[2]]>> \in Slot
      BY <3>1 DEF Slot
    <3>. QED
      BY <3>2 DEF TypeInv, TypeOK
  <2>. QED
    BY <1>2, <2>1, <2>2
<1>5. cell' \in [Slot -> Tuple]
  BY <1>2, <1>4
<1>6. Image' \in Images
  BY <1>3, <1>5, NextImageType
<1>. QED
  BY <1>3, <1>5, <1>6 DEF Compact, TypeInv, TypeOK, InStatement

LEMMA NextType == TypeInv /\ [Next]_vars => TypeInv'
<1>. SUFFICES ASSUME TypeInv, [Next]_vars PROVE TypeInv'
  OBVIOUS
<1>1. CASE Begin \/ Commit \/ CommitOk \/ CommitFail \/ Rollback \/ EndRollback \/ EndFailed
  BY <1>1, TxnType
<1>2. CASE UndoOne
  BY <1>2, UndoType
<1>3. CASE StartAny
  <2>1. PICK t \in Table : \/ Start("insert", t, <<>>)
                          \/ Start("delete", t, <<>>)
                          \/ \E set \in Assignments : Start("update", t, set)
    BY <1>3 DEF StartAny
  <2>2. <<>> \in Seq(Col) /\ \A set \in Assignments : set \in Seq(Col)
    BY BoundAssumption DEF Assignments
  <2>. QED
    BY <2>1, <2>2, StartType
<1>4. CASE InsertReject \/ InsertOom \/ InsertLatched \/ \E x \in Tuple : InsertRow(x)
  BY <1>4, InsertType
<1>5. ASSUME NEW r \in Row, SkipRow(r) \/ DeleteRow(r) \/ UpdateRow(r) PROVE TypeInv'
  BY <1>5, RowType
<1>6. CASE AssignNoLog \/ AssignOom \/ \E v \in Cell : AssignCell(v)
  BY <1>6, AssignType
<1>7. CASE CheckUpdated \/ StmtOk
  BY <1>7, EndRowsType
<1>8. ASSUME NEW t \in Table, Compact(t) PROVE TypeInv'
  BY <1>8, CompactType
<1>9. CASE UNCHANGED vars
  BY <1>9 DEF vars, TypeInv, TypeOK, InStatement
<1>. QED
  BY <1>1, <1>2, <1>3, <1>4, <1>5, <1>6, <1>7, <1>8, <1>9 DEF Next

\* The type invariant of the connection holds in every reachable state,
\* whatever the schema, the faults and the bounds.
THEOREM TypeCorrect == Spec => []TypeOK
<1>1. Spec => []TypeInv
  BY InitType, NextType, PTL DEF Spec
<1>2. TypeInv => TypeOK
  BY DEF TypeInv
<1>. QED
  BY <1>1, <1>2, PTL

-----------------------------------------------------------------------------
(* Agreement of memory images.                                             *)

LEMMA AgreesRefl ==
  ASSUME NEW S \in Images
  PROVE  Agrees(S, S)
BY BoundAssumption DEF Agrees, Images

LEMMA AgreesTrans ==
  ASSUME NEW S \in Images, NEW T \in Images, NEW U \in Images, Agrees(S, T), Agrees(T, U)
  PROVE  Agrees(S, U)
<1>1. \A t \in Table : S.n[t] \in Nat /\ T.n[t] \in Nat /\ U.n[t] \in Nat
  BY BoundAssumption DEF Images
<1>2. ASSUME NEW t \in Table PROVE S.n[t] <= U.n[t]
  <2>1. S.n[t] <= T.n[t] /\ T.n[t] <= U.n[t]
    BY DEF Agrees
  <2>. QED
    BY <1>1, <2>1
<1>3. ASSUME NEW s \in Slot, Allocated(S, s) PROVE S.cell[s] = U.cell[s]
  <2>1. s[1] \in Table /\ s[2] \in Nat
    BY BoundAssumption DEF Slot, Row
  <2>2. Allocated(T, s)
    BY <1>1, <1>3, <2>1 DEF Agrees, Allocated
  <2>. QED
    BY <1>3, <2>2 DEF Agrees
<1>. QED
  BY <1>2, <1>3 DEF Agrees

\* Undoing an entry in two images that agree gives images that agree.
LEMMA UndoneMonotone ==
  ASSUME NEW S \in Images, NEW T \in Images, NEW e \in Entries, Agrees(S, T)
  PROVE  Agrees(Undone(e, S), Undone(e, T))
<1>1. CASE e.kind = "insert"
  BY <1>1 DEF Undone, Agrees, Allocated, Images
<1>2. CASE e.kind = "delete"
  BY <1>2 DEF Undone, Agrees, Allocated, Images
<1>3. CASE e.kind = "update"
  <2>1. e.slot \in Slot /\ e.col \in Col
    BY <1>3 DEF Entries
  <2>2. /\ Undone(e, S) = [S EXCEPT !.cell[e.slot][e.col] = e.old]
        /\ Undone(e, T) = [T EXCEPT !.cell[e.slot][e.col] = e.old]
    BY <1>3 DEF Undone
  <2>3. ASSUME NEW s \in Slot, S.cell[s] = T.cell[s]
        PROVE  Undone(e, S).cell[s] = Undone(e, T).cell[s]
    BY <2>1, <2>2, <2>3 DEF Images
  <2>. QED
    BY <2>2, <2>3 DEF Agrees, Allocated, Images
<1>. QED
  BY <1>1, <1>2, <1>3 DEF Entries

\* A live row is an allocated one.
Sound(S) == \A s \in S.live : Allocated(S, s)

\* Taking back the append of a row past the allocated ones.
LEMMA UndoInsert ==
  ASSUME NEW S \in Images, NEW T \in Images, NEW s \in Slot, Sound(S),
         s[2] = S.n[s[1]] + 1, T.live = S.live \cup {s}, T.n = [S.n EXCEPT ![s[1]] = @ + 1],
         \A q \in Slot : q # s => T.cell[q] = S.cell[q]
  PROVE  Agrees(S, Undone(Entry("insert", s, NoCol, NULL), T))
<1>1. ~Allocated(S, s)
  BY BoundAssumption DEF Allocated, Images, Slot, Row
<1>2. S.live = T.live \ {s}
  BY <1>1 DEF Sound
<1>3. \A t \in Table : S.n[t] <= T.n[t]
  BY BoundAssumption DEF Images
<1>. QED
  BY <1>1, <1>2, <1>3 DEF Agrees, Undone, Entry, Images

\* Taking back a tombstone.
LEMMA UndoDelete ==
  ASSUME NEW S \in Images, NEW T \in Images, NEW s \in S.live,
         T.live = S.live \ {s}, T.n = S.n, T.cell = S.cell
  PROVE  Agrees(S, Undone(Entry("delete", s, NoCol, NULL), T))
<1>1. S.live = T.live \cup {s}
  OBVIOUS
<1>. QED
  BY <1>1, AgreesRefl DEF Agrees, Undone, Entry, Images

\* Taking back an assignment.
LEMMA UndoAssign ==
  ASSUME NEW S \in Images, NEW s \in Slot, NEW c \in Col, NEW v \in Cell, NEW T \in Images,
         T.n = S.n, T.live = S.live, T.cell = [S.cell EXCEPT ![s][c] = v]
  PROVE  Agrees(S, Undone(Entry("update", s, c, S.cell[s][c]), T))
<1>. DEFINE e == Entry("update", s, c, S.cell[s][c])
<1>1. Undone(e, T) = [T EXCEPT !.cell[s][c] = S.cell[s][c]]
  BY DEF Undone, Entry
<1>2. S.cell \in [Slot -> Tuple] /\ S.cell[s] \in [Col -> Cell]
  BY DEF Images, Tuple
<1>3. T.cell \in [Slot -> Tuple] /\ T.cell[s] = [S.cell[s] EXCEPT ![c] = v]
  BY <1>2 DEF Images
<1>4. [T.cell[s] EXCEPT ![c] = S.cell[s][c]] = S.cell[s]
  BY <1>2, <1>3
<1>5. \A q \in Slot : q # s => T.cell[q] = S.cell[q]
  BY <1>2
<1>6. Undone(e, T).cell = [T.cell EXCEPT ![s] = [T.cell[s] EXCEPT ![c] = S.cell[s][c]]]
  BY <1>1 DEF Images
<1>7. \A q \in Slot : Undone(e, T).cell[q] = S.cell[q]
  BY <1>3, <1>4, <1>5, <1>6
<1>8. Undone(e, T).live = S.live /\ Undone(e, T).n = S.n
  BY <1>1 DEF Images
<1>. QED
  BY <1>7, <1>8, AgreesRefl DEF Agrees

-----------------------------------------------------------------------------
(* The undo log: what a step does to it.                                   *)

Exact == \A i \in 1..Len(log) : Agrees(hist[i], Undone(log[i], Before(i + 1)))

LEMMA BeforeType ==
  ASSUME TypeInv, NEW i \in Nat, i >= 1
  PROVE  Before(i) \in Images
BY ImageType DEF TypeInv, TypeOK, Before

\* Neither pushed nor popped, and the memory agrees with what it was.
LEMMA Drift ==
  ASSUME TypeInv, TypeInv', Exact, UNCHANGED <<log, hist>>, Agrees(Image, Image')
  PROVE  /\ Exact'
         /\ \A S \in Images : \A i \in Nat :
              i >= 1 /\ Agrees(S, Before(i)) => Agrees(S, Before(i)')
<1>1. ASSUME NEW i \in Nat, i >= 1
      PROVE  Before(i)' \in Images /\ Agrees(Before(i), Before(i)')
  <2>1. Before(i) \in Images /\ Image \in Images /\ Image' \in Images
    BY <1>1, BeforeType, ImageType, NextImageType DEF TypeInv, TypeOK
  <2>2. CASE i <= Len(log)
    BY <2>1, <2>2, AgreesRefl DEF Before
  <2>3. CASE ~(i <= Len(log))
    BY <2>1, <2>3 DEF Before
  <2>. QED
    BY <2>2, <2>3
<1>2. ASSUME NEW S \in Images, NEW i \in Nat, i >= 1, Agrees(S, Before(i))
      PROVE  Agrees(S, Before(i)')
  BY <1>1, <1>2, BeforeType, AgreesTrans
<1>3. ASSUME NEW i \in 1..Len(log)
      PROVE  Agrees(hist[i], Undone(log[i], Before(i + 1)'))
  <2>1. /\ log[i] \in Entries /\ hist[i] \in Images /\ i + 1 \in Nat /\ i + 1 >= 1
    BY DEF TypeInv, TypeOK
  <2>2. /\ Before(i + 1) \in Images /\ Before(i + 1)' \in Images
        /\ Agrees(Before(i + 1), Before(i + 1)')
    BY <1>1, <2>1, BeforeType
  <2>3. Agrees(Undone(log[i], Before(i + 1)), Undone(log[i], Before(i + 1)'))
    BY <2>1, <2>2, UndoneMonotone
  <2>4. Undone(log[i], Before(i + 1)) \in Images /\ Undone(log[i], Before(i + 1)') \in Images
    BY <2>1, <2>2, UndoneType
  <2>. QED
    BY <2>1, <2>3, <2>4, AgreesTrans DEF Exact
<1>4. Exact'
  BY <1>3 DEF Exact
<1>. QED
  BY <1>2, <1>4

\* An entry is pushed that takes the step back.
LEMMA Pushed ==
  ASSUME TypeInv, Exact, NEW e \in Entries, Push(e), Agrees(Image, Undone(e, Image'))
  PROVE  /\ Exact'
         /\ \A i \in 1..(Len(log) + 1) : Before(i)' = Before(i)
<1>1. Len(log) \in Nat /\ Len(hist) = Len(log)
  BY DEF TypeInv, TypeOK
<1>2. /\ Len(log') = Len(log) + 1
      /\ \A i \in 1..Len(log) : log'[i] = log[i] /\ hist'[i] = hist[i]
      /\ log'[Len(log) + 1] = e /\ hist'[Len(log) + 1] = Image
  BY <1>1 DEF Push, TypeInv, TypeOK
<1>3. ASSUME NEW i \in 1..(Len(log) + 1) PROVE Before(i)' = Before(i)
  BY <1>1, <1>2 DEF Before
<1>4. ASSUME NEW i \in Nat, i = Len(log) + 2 PROVE Before(i)' = Image'
  BY <1>1, <1>2, <1>4 DEF Before
<1>5. ASSUME NEW i \in 1..(Len(log) + 1)
      PROVE  Agrees(hist'[i], Undone(log'[i], Before(i + 1)'))
  <2>1. CASE i = Len(log) + 1
    <3>1. i + 1 \in Nat /\ i + 1 = Len(log) + 2
      BY <1>1, <2>1
    <3>2. Before(i + 1)' = Image'
      BY <1>4, <3>1
    <3>. QED
      BY <1>2, <2>1, <3>2
  <2>2. CASE i # Len(log) + 1
    <3>1. i \in 1..Len(log) /\ i + 1 \in 1..(Len(log) + 1)
      BY <1>1, <2>2
    <3>2. Before(i + 1)' = Before(i + 1)
      BY <1>3, <3>1
    <3>. QED
      BY <1>2, <3>1, <3>2 DEF Exact
  <2>. QED
    BY <2>1, <2>2
<1>6. Exact'
  BY <1>2, <1>5 DEF Exact
<1>. QED
  BY <1>3, <1>6

\* undo_one takes back the newest entry.
LEMMA Popped ==
  ASSUME TypeInv, TypeInv', Exact, UndoOne
  PROVE  /\ Exact'
         /\ Len(log') = Len(log) - 1
         /\ \A S \in Images : \A i \in 1..Len(log) :
              Agrees(S, Before(i)) => Agrees(S, Before(i)')
<1>. DEFINE L == Len(log)
<1>1. /\ L \in Nat /\ L >= 1 /\ L = Len(hist) /\ log[L] \in Entries
      /\ hist[L] \in Images
  BY StmtType DEF TypeInv, TypeOK, UndoOne
<1>2. /\ Len(log') = L - 1
      /\ \A i \in 1..(L - 1) : log'[i] = log[i] /\ hist'[i] = hist[i]
  BY <1>1 DEF UndoOne, TypeInv, TypeOK
<1>3. Image' = Undone(log[L], Image)
  <2>1. Image \in Images /\ Undone(log[L], Image) \in Images
    BY <1>1, ImageType, UndoneType DEF TypeInv
  <2>2. Undone(log[L], Image).n = n
    BY <1>1, <2>1 DEF Undone, Entries, Image, Images
  <2>. QED
    BY <2>1, <2>2 DEF UndoOne, Image, Images
<1>4. Agrees(hist[L], Image')
  <2>1. Before(L + 1) = Image
    BY <1>1 DEF Before
  <2>. QED
    BY <1>1, <1>3, <2>1 DEF Exact
<1>5. Image' \in Images
  BY NextImageType DEF TypeInv, TypeOK
<1>6. ASSUME NEW i \in 1..L
      PROVE  Before(i)' \in Images /\ Agrees(Before(i), Before(i)')
  <2>1. Before(i) = hist[i] /\ hist[i] \in Images
    BY <1>1 DEF Before, TypeInv, TypeOK
  <2>2. CASE i = L
    <3>1. Before(i)' = Image'
      BY <1>1, <1>2, <2>2 DEF Before
    <3>. QED
      BY <1>4, <1>5, <2>1, <2>2, <3>1
  <2>3. CASE i # L
    <3>1. i \in 1..(L - 1) /\ i <= Len(log')
      BY <1>1, <1>2, <2>3
    <3>2. Before(i)' = hist[i]
      BY <1>2, <3>1 DEF Before
    <3>. QED
      BY <2>1, <3>2, AgreesRefl
  <2>. QED
    BY <2>2, <2>3
<1>7. ASSUME NEW S \in Images, NEW i \in 1..L, Agrees(S, Before(i))
      PROVE  Agrees(S, Before(i)')
  BY <1>1, <1>6, <1>7, BeforeType, AgreesTrans
<1>8. ASSUME NEW i \in 1..(L - 1)
      PROVE  Agrees(hist[i], Undone(log[i], Before(i + 1)'))
  <2>1. /\ i \in 1..L /\ i + 1 \in 1..L
    BY <1>1
  <2>2. log[i] \in Entries /\ hist[i] \in Images
    BY <1>1, <2>1 DEF TypeInv, TypeOK
  <2>3. /\ Before(i + 1) \in Images /\ Before(i + 1)' \in Images
        /\ Agrees(Before(i + 1), Before(i + 1)')
    BY <1>6, <2>1, BeforeType
  <2>4. Agrees(Undone(log[i], Before(i + 1)), Undone(log[i], Before(i + 1)'))
    BY <2>2, <2>3, UndoneMonotone
  <2>5. Undone(log[i], Before(i + 1)) \in Images /\ Undone(log[i], Before(i + 1)') \in Images
    BY <2>2, <2>3, UndoneType
  <2>. QED
    BY <2>1, <2>2, <2>4, <2>5, AgreesTrans DEF Exact
<1>9. Exact'
  BY <1>2, <1>8 DEF Exact
<1>. QED
  BY <1>2, <1>7, <1>9

-----------------------------------------------------------------------------
(* The invariant.  UndoExact is not inductive: the log must be empty when  *)
(* a transaction ends, the rows a popped entry revives must be allocated,  *)
(* and no table may have lost a row to a latched allocation failure.       *)

Anchored ==
  /\ IF active THEN Agrees(begun, Before(1)) ELSE log = <<>>
  /\ pc \in {"row", "assign", "undo"} =>
       stmt.mark <= Len(log) /\ Agrees(seen, Before(stmt.mark + 1))

AllSound ==
  /\ Sound(Image) /\ Sound(begun) /\ Sound(seen)
  /\ \A i \in 1..Len(hist) : Sound(hist[i])

Calm ==
  /\ failed = {}
  /\ IF pc = "idle" THEN seen = Image ELSE active
  /\ pc \in {"idle", "rollback"} \/ stmt.auto => stmt.mark = 0

UndoInv == TypeInv /\ Exact /\ Anchored /\ AllSound /\ Calm

LEMMA UndoInvImplies == UndoInv => UndoExact
BY DEF UndoInv, Exact, Anchored, UndoExact

LEMMA InitUndo == Init => UndoInv
<1>. SUFFICES ASSUME Init PROVE UndoInv
  OBVIOUS
<1>1. TypeInv
  BY InitType
<1>2. Sound(Image)
  BY DEF Init, Sound, Allocated, Image
<1>. QED
  BY <1>1, <1>2 DEF Init, NoStmt, UndoInv, Exact, Anchored, AllSound, Calm

\* Memory and log are left alone.
LEMMA Still ==
  ASSUME UndoInv, UNCHANGED <<mem, log, hist>>
  PROVE  /\ Exact' /\ Image' = Image
         /\ \A i \in Nat : Before(i)' = Before(i)
         /\ begun' \in {begun, Image} /\ seen' \in {seen, Image} => AllSound'
<1>1. Image' = Image
  BY DEF Image, mem
<1>2. ASSUME NEW i \in Nat PROVE Before(i)' = Before(i)
  BY <1>1 DEF Before
<1>3. Exact'
  BY <1>1 DEF UndoInv, Exact, Before
<1>4. begun' \in {begun, Image} /\ seen' \in {seen, Image} => AllSound'
  BY <1>1 DEF UndoInv, AllSound
<1>. QED
  BY <1>1, <1>2, <1>3, <1>4

\* What UndoInv says about the images, in the form the steps use it.
LEMMA UndoFacts ==
  ASSUME UndoInv
  PROVE  /\ TypeOK /\ Len(log) \in Nat /\ stmt.mark \in Nat /\ Image \in Images
         /\ Agrees(Image, Image) /\ Before(Len(log) + 1) = Image
         /\ Len(hist) = Len(log) /\ log \in Seq(Entries)
<1>1. TypeOK
  BY DEF UndoInv, TypeInv
<1>2. Len(log) \in Nat /\ Len(hist) = Len(log) /\ log \in Seq(Entries)
  BY <1>1 DEF TypeOK
<1>3. Before(Len(log) + 1) = Image
  BY <1>2 DEF Before
<1>. QED
  BY <1>1, <1>2, <1>3, StmtType, ImageType, AgreesRefl

LEMMA UndoTxn ==
  ASSUME UndoInv, TypeInv', Begin \/ Commit \/ CommitOk \/ CommitFail \/ Rollback
  PROVE  UndoInv'
<1>1. CASE Begin
  <2>1. Image' = Image /\ AllSound' /\ Exact' /\ Before(1)' = Before(1)
    BY <1>1, Still DEF Begin
  <2>2. log = <<>>
    BY <1>1 DEF Begin, UndoInv, Anchored
  <2>3. Before(1) = Image
    BY <2>2 DEF Before
  <2>. QED
    BY <1>1, <2>1, <2>3, UndoFacts DEF Begin, UndoInv, Anchored, Calm
<1>2. CASE Commit \/ Rollback
  <2>1. Image' = Image /\ AllSound' /\ Exact' /\ Before(1)' = Before(1)
    BY <1>2, Still DEF Commit, Rollback
  <2>. QED
    BY <1>2, <2>1 DEF Commit, Rollback, UndoInv, Anchored, Calm
<1>3. CASE CommitFail
  <2>1. begun' = begun /\ seen' = Image' /\ active' = active /\ log' = log /\ pc' = "idle"
    BY <1>3 DEF CommitFail, Return
  <2>2. UNCHANGED <<mem, log, hist>>
    BY <1>3 DEF CommitFail
  <2>3. Image' = Image /\ Exact' /\ Before(1)' = Before(1) /\ AllSound'
    BY <2>1, <2>2, Still
  <2>4. stmt'.mark = 0 /\ stmt'.auto = FALSE /\ failed' = failed
    BY <1>3 DEF CommitFail, Return, NoStmt
  <2>. QED
    BY <2>1, <2>3, <2>4 DEF UndoInv, Anchored, Calm
<1>4. CASE CommitOk
  <2>1. /\ begun' = Image /\ seen' = Image' /\ active' = FALSE /\ pc' = "idle"
        /\ log' = <<>> /\ hist' = <<>> /\ failed' = failed
        /\ stmt'.mark = 0 /\ stmt'.auto = FALSE
    BY <1>4 DEF CommitOk, Return, NoStmt
  <2>2. Image' = Image
    BY <1>4 DEF CommitOk, Image, mem
  <2>. QED
    BY <2>1, <2>2 DEF UndoInv, Exact, Anchored, AllSound, Calm
<1>. QED
  BY <1>1, <1>2, <1>3, <1>4

LEMMA UndoEnd ==
  ASSUME UndoInv, TypeInv', EndRollback \/ EndFailed
  PROVE  UndoInv'
<1>1. UNCHANGED <<mem, log, hist>>
  BY DEF EndRollback, EndFailed
<1>2. /\ seen' = Image' /\ pc' = "idle" /\ failed' = failed
      /\ stmt'.mark = 0 /\ stmt'.auto = FALSE
  BY DEF EndRollback, EndFailed, Return, NoStmt
<1>3. begun' \in {begun, Image}
  BY DEF EndRollback, EndFailed
<1>4. Image' = Image
  BY <1>1, Still
<1>5. Exact' /\ Before(1)' = Before(1) /\ AllSound'
  BY <1>1, <1>2, <1>3, <1>4, Still
<1>6. IF active' THEN Agrees(begun', Before(1)) ELSE log = <<>>
  <2>1. stmt.mark = 0 /\ Len(log) = stmt.mark => log = <<>>
    BY UndoFacts
  <2>2. CASE EndRollback
    BY <2>1, <2>2 DEF EndRollback, UndoInv, Calm
  <2>3. CASE EndFailed /\ stmt.auto
    BY <2>1, <2>3 DEF EndFailed, UndoInv, Calm
  <2>4. CASE EndFailed /\ ~stmt.auto
    BY <2>4 DEF EndFailed, UndoInv, Anchored
  <2>. QED
    BY <2>2, <2>3, <2>4
<1>. QED
  BY <1>1, <1>2, <1>5, <1>6 DEF UndoInv, Anchored, Calm

LEMMA UndoStart ==
  ASSUME UndoInv, TypeInv', NEW k, NEW t, NEW set, Start(k, t, set)
  PROVE  UndoInv'
<1>1. /\ UNCHANGED <<mem, log, hist, seen, failed>> /\ pc = "idle" /\ pc' = "row"
      /\ active' = TRUE /\ begun' = (IF active THEN begun ELSE Image)
      /\ stmt'.mark = Len(log) /\ stmt'.auto = ~active
  BY DEF Start, StartAt
<1>2. Image' = Image /\ Exact' /\ AllSound' /\ \A i \in Nat : Before(i)' = Before(i)
  BY <1>1, Still
<1>3. log = <<>> => Before(1) = Image
  BY DEF Before
<1>4. Agrees(begun', Before(1))
  BY <1>1, <1>3, UndoFacts DEF UndoInv, Anchored
<1>5. Agrees(seen, Before(Len(log) + 1)) /\ Len(log) + 1 \in Nat
  BY <1>1, UndoFacts DEF UndoInv, Calm
<1>6. Anchored'
  BY <1>1, <1>2, <1>4, <1>5, UndoFacts DEF Anchored
<1>7. Calm'
  BY <1>1 DEF UndoInv, Anchored, Calm
<1>. QED
  BY <1>2, <1>6, <1>7 DEF UndoInv

LEMMA UndoUndoOne ==
  ASSUME UndoInv, TypeInv', UndoOne
  PROVE  UndoInv'
<1>1. /\ UNCHANGED <<n, failed, active, pc, stmt, begun, seen>>
      /\ pc \in {"undo", "rollback"} /\ Len(log) > stmt.mark
      /\ Len(log) \in Nat /\ stmt.mark \in Nat /\ stmt.mark + 1 \in 1..Len(log)
      /\ 1 \in 1..Len(log) /\ Len(log) = Len(hist)
  BY UndoFacts DEF UndoOne
<1>2. /\ Exact' /\ Len(log') = Len(log) - 1
      /\ \A S \in Images : \A i \in 1..Len(log) :
           Agrees(S, Before(i)) => Agrees(S, Before(i)')
  BY Popped DEF UndoInv
<1>3. begun \in Images /\ seen \in Images
  BY DEF UndoInv, TypeInv, TypeOK
<1>4. Anchored'
  <2>1. active
    BY <1>1 DEF UndoInv, Anchored
  <2>2. Agrees(begun, Before(1)')
    BY <1>1, <1>2, <1>3, <2>1 DEF UndoInv, Anchored
  <2>3. pc = "undo" => Agrees(seen, Before(stmt.mark + 1)')
    <3>1. ASSUME NEW i \in 1..Len(log), i = stmt.mark + 1, pc = "undo"
          PROVE  Agrees(seen, Before(i)')
      BY <1>2, <1>3, <3>1 DEF UndoInv, Anchored
    <3>2. ASSUME NEW i \in 1..Len(log), i = stmt.mark + 1
          PROVE  Before(i)' = Before(stmt.mark + 1)'
      BY <1>1, <3>2
    <3>. QED
      BY <1>1, <3>1, <3>2
  <2>. QED
    BY <1>1, <1>2, <2>1, <2>2, <2>3 DEF Anchored
<1>5. AllSound'
  <2>1. Agrees(hist[Len(log)], Image')
    <3>1. Before(Len(log) + 1) = Image
      BY UndoFacts
    <3>2. Agrees(hist[Len(log)], Undone(log[Len(log)], Image))
      BY <1>1, <3>1 DEF UndoInv, Exact
    <3>3. log[Len(log)] \in Entries /\ Image \in Images
      BY <1>1, UndoFacts
    <3>4. Undone(log[Len(log)], Image) \in Images /\ Undone(log[Len(log)], Image).n = n
      BY <3>3, UndoneType DEF Undone, Entries, Image, Images
    <3>. QED
      BY <1>1, <3>2, <3>4 DEF UndoOne, Image, Images
  <2>2. Sound(hist[Len(log)]) /\ hist[Len(log)] \in Images
    BY <1>1 DEF UndoInv, TypeInv, TypeOK, AllSound
  <2>3. Image' \in Images
    BY NextImageType DEF UndoInv, TypeInv, TypeOK
  <2>4. Sound(Image')
    <3>. SUFFICES ASSUME NEW s \in Image'.live PROVE Allocated(Image', s)
      BY DEF Sound
    <3>1. s \in hist[Len(log)].live /\ s \in Slot
      BY <2>1, <2>3 DEF Agrees, Images
    <3>2. s[1] \in Table /\ s[2] \in Nat
      BY <3>1, BoundAssumption DEF Slot, Row
    <3>3. /\ s[2] <= hist[Len(log)].n[s[1]]
          /\ hist[Len(log)].n[s[1]] <= Image'.n[s[1]]
      BY <2>1, <2>2, <3>1, <3>2 DEF Sound, Agrees, Allocated
    <3>4. hist[Len(log)].n[s[1]] \in Nat /\ Image'.n[s[1]] \in Nat
      BY <2>2, <2>3, <3>2, BoundAssumption DEF Images
    <3>. QED
      BY <3>2, <3>3, <3>4 DEF Allocated
  <2>5. \A i \in 1..Len(hist') : hist'[i] = hist[i] /\ i \in 1..Len(hist)
    BY <1>1 DEF UndoOne, UndoInv, TypeInv, TypeOK
  <2>. QED
    BY <1>1, <2>4, <2>5 DEF UndoInv, AllSound
<1>6. Calm'
  BY <1>1 DEF UndoInv, Calm
<1>. QED
  BY <1>2, <1>4, <1>5, <1>6 DEF UndoInv

\* A step that pushes an entry which takes it back, inside a statement.
LEMMA UndoPushed ==
  ASSUME UndoInv, TypeInv', NEW e \in Entries, Push(e), Agrees(Image, Undone(e, Image')),
         pc \in {"row", "assign"}, UNCHANGED <<failed, active, pc, begun, seen>>,
         stmt'.mark = stmt.mark, stmt'.auto = stmt.auto, Sound(Image')
  PROVE  UndoInv'
<1>1. Exact' /\ \A i \in 1..(Len(log) + 1) : Before(i)' = Before(i)
  BY Pushed DEF UndoInv
<1>2. /\ Len(log) \in Nat /\ Len(log') = Len(log) + 1 /\ Len(hist) = Len(log)
      /\ \A i \in 1..Len(hist') : hist'[i] = Image \/ (i \in 1..Len(hist) /\ hist'[i] = hist[i])
  BY UndoFacts DEF Push, UndoInv, TypeInv, TypeOK
<1>3. stmt.mark \in Nat /\ stmt.mark <= Len(log) /\ Agrees(seen, Before(stmt.mark + 1))
  BY UndoFacts DEF UndoInv, Anchored
<1>4. Before(1)' = Before(1)
  BY <1>1, <1>2
<1>5. active
  BY DEF UndoInv, Calm
<1>6. Agrees(begun, Before(1)')
  BY <1>4, <1>5 DEF UndoInv, Anchored
<1>7. Agrees(seen, Before(stmt.mark + 1)')
  <2>1. ASSUME NEW i \in 1..(Len(log) + 1), i = stmt.mark + 1
        PROVE  Agrees(seen, Before(i)')
    BY <1>1, <1>3, <2>1
  <2>2. stmt.mark + 1 \in 1..(Len(log) + 1)
    BY <1>2, <1>3
  <2>3. ASSUME NEW i \in 1..(Len(log) + 1), i = stmt.mark + 1
        PROVE  Before(i)' = Before(stmt.mark + 1)'
    BY <2>3
  <2>. QED
    BY <2>1, <2>2, <2>3
<1>8. Anchored'
  BY <1>2, <1>3, <1>5, <1>6, <1>7 DEF Anchored
<1>9. AllSound'
  BY <1>2 DEF UndoInv, AllSound
<1>10. Calm'
  BY DEF UndoInv, Calm
<1>. QED
  BY <1>1, <1>8, <1>9, <1>10 DEF UndoInv

\* A step inside a statement that pushes nothing and keeps what it had: rows
\* nobody can see may have been appended.
LEMMA UndoDrift ==
  ASSUME UndoInv, TypeInv', UNCHANGED <<log, hist, failed, active, begun, seen>>,
         Agrees(Image, Image'), Sound(Image'),
         pc \in {"row", "assign"}, pc' \in {"row", "assign", "undo"},
         stmt'.mark = stmt.mark, stmt'.auto = stmt.auto
  PROVE  UndoInv'
<1>1. /\ Exact'
      /\ \A S \in Images : \A i \in Nat :
           i >= 1 /\ Agrees(S, Before(i)) => Agrees(S, Before(i)')
  BY Drift DEF UndoInv
<1>2. begun \in Images /\ seen \in Images /\ stmt.mark \in Nat /\ Len(log) \in Nat
  BY UndoFacts DEF TypeOK
<1>3. Agrees(begun, Before(1)')
  BY <1>1, <1>2 DEF UndoInv, Anchored, Calm
<1>4. Agrees(seen, Before(stmt.mark + 1)')
  <2>1. ASSUME NEW i \in Nat, i = stmt.mark + 1
        PROVE  Agrees(seen, Before(i)')
    BY <1>1, <1>2, <2>1 DEF UndoInv, Anchored
  <2>2. ASSUME NEW i \in Nat, i = stmt.mark + 1
        PROVE  Before(i)' = Before(stmt.mark + 1)'
    BY <2>2
  <2>. QED
    BY <1>2, <2>1, <2>2
<1>5. Anchored'
  BY <1>3, <1>4 DEF UndoInv, Anchored, Calm
<1>6. AllSound' /\ Calm'
  BY DEF UndoInv, AllSound, Calm
<1>. QED
  BY <1>1, <1>5, <1>6 DEF UndoInv

LEMMA UndoInsertRow ==
  ASSUME UndoInv, TypeInv', NEW x \in Tuple, InsertRow(x)
  PROVE  UndoInv'
<1>. DEFINE t == stmt.tab
            s == <<t, n[t] + 1>>
<1>1. /\ n[t] < MaxRow /\ pc = "row" /\ failed' = failed
      /\ n' = [n EXCEPT ![t] = @ + 1]
      /\ cell' = [cell EXCEPT ![s] = x]
  BY DEF InsertRow, Running
<1>2. /\ Image \in Images /\ Image' \in Images /\ t \in Table /\ s \in Slot
      /\ s[1] = t /\ s[2] = n[t] + 1 /\ n[t] \in Nat
  BY <1>1, UndoFacts, StmtType, AppendType, NextImageType, BoundAssumption
  DEF UndoInv, TypeInv, TypeOK
<1>3. Sound(Image)
  BY DEF UndoInv, AllSound
<1>4. \A q \in Slot : q # s => cell'[q] = cell[q]
  BY <1>1 DEF UndoInv, TypeInv, TypeOK
<1>5. \A u \in Table : n[u] \in Nat /\ n'[u] \in Nat /\ n[u] <= n'[u]
  BY <1>1, <1>2, BoundAssumption DEF Image, Images
<1>6. Sound([n |-> n', live |-> live \cup {s}, cell |-> cell'])
  BY <1>1, <1>2, <1>3, <1>5, BoundAssumption DEF Sound, Allocated, Image, Images, Slot, Row
<1>7. CASE /\ live' = live \cup {s}
           /\ Push(Entry("insert", s, NoCol, NULL))
           /\ stmt' = [stmt EXCEPT !.cur = @ + 1]
           /\ UNCHANGED <<active, pc, begun, seen>>
  <2>1. Agrees(Image, Undone(Entry("insert", s, NoCol, NULL), Image'))
    <3>1. /\ s[2] = Image.n[s[1]] + 1 /\ Image'.live = Image.live \cup {s}
          /\ Image'.n = [Image.n EXCEPT ![s[1]] = @ + 1]
          /\ \A q \in Slot : q # s => Image'.cell[q] = Image.cell[q]
      BY <1>1, <1>2, <1>4, <1>7 DEF Image
    <3>. QED
      BY <1>2, <1>3, <3>1, UndoInsert
  <2>2. Sound(Image')
    BY <1>6, <1>7 DEF Image
  <2>3. Entry("insert", s, NoCol, NULL) \in Entries
    BY <1>2 DEF Entry, Entries
  <2>4. stmt'.mark = stmt.mark /\ stmt'.auto = stmt.auto
    BY <1>7 DEF UndoInv, TypeInv, TypeOK, Stmts
  <2>. QED
    BY <1>1, <1>7, <2>1, <2>2, <2>3, <2>4, UndoPushed
<1>8. CASE Fail /\ UNCHANGED <<live, log, hist>>
  <2>1. ~Allocated(Image, s)
    BY <1>2 DEF Allocated, Image
  <2>2. Agrees(Image, Image')
    BY <1>4, <1>5, <1>8, <2>1 DEF Agrees, Image
  <2>3. Sound(Image')
    BY <1>6, <1>8 DEF Sound, Image, Allocated
  <2>. QED
    BY <1>1, <1>8, <2>2, <2>3, UndoDrift DEF Fail
<1>. QED
  BY <1>7, <1>8 DEF InsertRow

LEMMA UndoDeleteRow ==
  ASSUME UndoInv, TypeInv', NEW r \in Row, DeleteRow(r)
  PROVE  UndoInv'
<1>. DEFINE s == <<stmt.tab, r>>
<1>1. /\ UNCHANGED <<n, cell, failed>> /\ pc = "row" /\ s \in live
  BY DEF DeleteRow, Running, NextRow
<1>2. Image \in Images /\ Image' \in Images /\ Sound(Image) /\ s \in Slot
  BY <1>1, UndoFacts, NextImageType DEF UndoInv, AllSound, TypeInv, TypeOK
<1>3. CASE /\ Push(Entry("delete", s, NoCol, NULL))
           /\ live' = live \ {s}
           /\ stmt' = [stmt EXCEPT !.cur = r]
           /\ UNCHANGED <<active, pc, begun, seen>>
  <2>1. Agrees(Image, Undone(Entry("delete", s, NoCol, NULL), Image'))
    BY <1>1, <1>2, <1>3, UndoDelete DEF Image
  <2>2. Sound(Image')
    BY <1>1, <1>2, <1>3 DEF Sound, Allocated, Image
  <2>3. Entry("delete", s, NoCol, NULL) \in Entries
    BY <1>2 DEF Entry, Entries
  <2>4. stmt'.mark = stmt.mark /\ stmt'.auto = stmt.auto
    BY <1>3 DEF UndoInv, TypeInv, TypeOK, Stmts
  <2>. QED
    BY <1>1, <1>3, <2>1, <2>2, <2>3, <2>4, UndoPushed
<1>4. CASE Fail /\ UNCHANGED <<live, log, hist>>
  <2>1. Image' = Image
    BY <1>1, <1>4 DEF Image
  <2>. QED
    BY <1>1, <1>2, <1>4, <2>1, UndoFacts, UndoDrift DEF Fail
<1>. QED
  BY <1>3, <1>4 DEF DeleteRow

LEMMA UndoAssignCell ==
  ASSUME UndoInv, TypeInv', NEW v \in Cell, AssignCell(v)
  PROVE  UndoInv'
<1>. DEFINE s == <<stmt.tab, stmt.cur>>
            c == stmt.set[stmt.pos]
            e == Entry("update", s, c, cell[s][c])
<1>1. /\ UNCHANGED <<n, live, failed, active, pc, begun, seen>> /\ pc = "assign"
      /\ Push(e) /\ cell' = [cell EXCEPT ![s][c] = v]
      /\ stmt' = [stmt EXCEPT !.pos = @ + 1]
      /\ stmt.cur \in Row /\ stmt.pos \in 1..Len(stmt.set)
  BY StmtType DEF AssignCell, Assigning, UndoInv, TypeInv, InStatement
<1>2. Image \in Images /\ Image' \in Images /\ Sound(Image)
  BY <1>1, UndoFacts, NextImageType DEF UndoInv, AllSound, TypeInv, TypeOK
<1>3. s \in Slot /\ c \in Col
  BY <1>1, StmtType DEF UndoInv, TypeInv, Slot
<1>4. /\ Image'.n = Image.n /\ Image'.live = Image.live
      /\ Image'.cell = [Image.cell EXCEPT ![s][c] = v] /\ Image.cell = cell
  BY <1>1 DEF Image
<1>5. Agrees(Image, Undone(e, Image'))
  BY <1>2, <1>3, <1>4, UndoAssign
<1>6. Sound(Image')
  BY <1>1, <1>2 DEF Sound, Allocated, Image
<1>7. e \in Entries
  BY <1>3 DEF Entry, Entries, UndoInv, TypeInv, TypeOK, Tuple
<1>8. stmt'.mark = stmt.mark /\ stmt'.auto = stmt.auto
  BY <1>1 DEF UndoInv, TypeInv, TypeOK, Stmts
<1>. QED
  BY <1>1, <1>5, <1>6, <1>7, <1>8, UndoPushed

\* The steps of a statement that leave memory and log alone.
LEMMA UndoWalk ==
  ASSUME UndoInv, TypeInv',
         \/ InsertReject \/ AssignNoLog \/ CheckUpdated
         \/ \E r \in Row : SkipRow(r) \/ UpdateRow(r)
  PROVE  UndoInv'
<1>1. /\ UNCHANGED <<mem, log, hist, failed, active, begun, seen>>
      /\ pc \in {"row", "assign"} /\ pc' \in {"row", "assign", "undo"}
  BY DEF InsertReject, AssignNoLog, CheckUpdated, SkipRow, UpdateRow, Fail, Running, Assigning
<1>2. \/ stmt' = stmt
      \/ \E r \in Row : \/ stmt' = [stmt EXCEPT !.cur = r]
                        \/ stmt' = [stmt EXCEPT !.cur = r, !.pos = 1]
  BY DEF InsertReject, AssignNoLog, CheckUpdated, SkipRow, UpdateRow, Fail
<1>3. stmt'.mark = stmt.mark /\ stmt'.auto = stmt.auto
  BY <1>2 DEF UndoInv, TypeInv, TypeOK, Stmts
<1>4. Image' = Image
  BY <1>1 DEF Image, mem
<1>5. Agrees(Image, Image') /\ Sound(Image')
  BY <1>4, UndoFacts DEF UndoInv, AllSound
<1>. QED
  BY <1>1, <1>3, <1>5, UndoDrift

LEMMA UndoStmtOk ==
  ASSUME UndoInv, TypeInv', StmtOk
  PROVE  UndoInv'
<1>1. /\ UNCHANGED <<mem, log, hist, failed, active, begun>> /\ pc = "row"
  BY DEF StmtOk
<1>2. /\ Image' = Image /\ Exact' /\ Before(1)' = Before(1)
      /\ seen' \in {seen, Image} => AllSound'
  BY <1>1, Still
<1>3. \/ pc' = "commit" /\ UNCHANGED <<stmt, seen>> /\ stmt.auto
      \/ /\ pc' = "idle" /\ seen' = Image' /\ stmt'.mark = 0 /\ stmt'.auto = FALSE
  BY DEF StmtOk, Return, NoStmt
<1>. QED
  BY <1>1, <1>2, <1>3 DEF UndoInv, Anchored, Calm

LEMMA UndoCompact ==
  ASSUME UndoInv, TypeInv', NEW t \in Table, Compact(t)
  PROVE  UndoInv'
<1>1. /\ pc = "idle" /\ ~active /\ begun' = Image' /\ seen' = Image'
      /\ UNCHANGED <<failed, active, log, pc, stmt, hist>>
  BY DEF Compact
<1>2. log = <<>> /\ Len(hist) = Len(log)
  BY <1>1, UndoFacts DEF UndoInv, Anchored
<1>3. PICK m \in 0..MaxRow :
        /\ n' = [n EXCEPT ![t] = m]
        /\ live' = {s \in Slot : IF s[1] = t THEN s[2] <= m ELSE s \in live}
  BY DEF Compact, Renumbered
<1>4. Sound(Image')
  BY <1>3 DEF UndoInv, AllSound, TypeInv, TypeOK, Sound, Allocated, Image, Slot
<1>. QED
  BY <1>1, <1>2, <1>4 DEF UndoInv, Exact, Anchored, AllSound, Calm

\* Steps that only an exhausted heap makes possible.
LEMMA NoOom ==
  ASSUME UndoInv, "heap" \notin Faults, InsertOom \/ InsertLatched \/ AssignOom
  PROVE  FALSE
BY DEF InsertOom, InsertLatched, AssignOom, UndoInv, Calm

LEMMA NextUndo ==
  ASSUME "heap" \notin Faults
  PROVE  UndoInv /\ [Next]_vars => UndoInv'
<1>. SUFFICES ASSUME UndoInv, [Next]_vars PROVE UndoInv'
  OBVIOUS
<1>1. TypeInv'
  BY NextType DEF UndoInv
<1>2. CASE Begin \/ Commit \/ CommitOk \/ CommitFail \/ Rollback
  BY <1>1, <1>2, UndoTxn
<1>3. CASE EndRollback \/ EndFailed
  BY <1>1, <1>3, UndoEnd
<1>4. CASE UndoOne
  BY <1>1, <1>4, UndoUndoOne
<1>5. CASE StartAny
  BY <1>1, <1>5, UndoStart DEF StartAny
<1>6. CASE \E x \in Tuple : InsertRow(x)
  BY <1>1, <1>6, UndoInsertRow
<1>7. CASE \E r \in Row : DeleteRow(r)
  BY <1>1, <1>7, UndoDeleteRow
<1>8. CASE \E v \in Cell : AssignCell(v)
  BY <1>1, <1>8, UndoAssignCell
<1>9. CASE \/ InsertReject \/ AssignNoLog \/ CheckUpdated
           \/ \E r \in Row : SkipRow(r) \/ UpdateRow(r)
  BY <1>1, <1>9, UndoWalk
<1>10. CASE StmtOk
  BY <1>1, <1>10, UndoStmtOk
<1>11. CASE \E t \in Table : Compact(t)
  BY <1>1, <1>11, UndoCompact
<1>12. CASE InsertOom \/ InsertLatched \/ AssignOom
  BY <1>12, NoOom
<1>13. CASE UNCHANGED vars
  <2>1. UNCHANGED <<mem, log, hist, begun, seen, failed, active, pc, stmt>>
    BY <1>13 DEF vars, mem
  <2>2. Image' = Image /\ Exact' /\ AllSound' /\ \A i \in Nat : Before(i)' = Before(i)
    BY <2>1, Still
  <2>. QED
    BY <1>1, <2>1, <2>2, UndoFacts DEF UndoInv, Anchored, Calm
<1>. QED
  BY <1>2, <1>3, <1>4, <1>5, <1>6, <1>7, <1>8, <1>9, <1>10, <1>11, <1>12, <1>13 DEF Next

LEMMA UndoInvariant == ASSUME "heap" \notin Faults PROVE Spec => []UndoInv
<1>1. UndoInv /\ [Next]_vars => UndoInv'
  BY NextUndo
<1>. QED
  BY <1>1, InitUndo, PTL DEF Spec

-----------------------------------------------------------------------------
(* What follows for the user.                                              *)

\* The undo log is exact in every reachable state, when the tables' own
\* storage does not run out ("heap"); the log itself may fail to grow.
THEOREM UndoLogIsExact == ASSUME "heap" \notin Faults PROVE Spec => []UndoExact
BY UndoInvariant, UndoInvImplies, PTL

\* An image the present memory has come back to shows the same rows.
LEMMA AgreesContents ==
  ASSUME NEW S \in Images, NEW T \in Images, Sound(S), Agrees(S, T)
  PROVE  Contents(T) = Contents(S)
BY DEF Sound, Agrees, Contents, Images

LEMMA UndoEndsRight ==
  ASSUME UndoInv, UndoInv', [Next]_vars, pc' = "idle"
  PROVE  /\ pc = "undo" => Contents(Image') = Contents(seen)
         /\ pc = "rollback" => Contents(Image') = Contents(begun)
<1>. SUFFICES ASSUME pc \in {"undo", "rollback"}
              PROVE  /\ pc = "undo" => Contents(Image') = Contents(seen)
                     /\ pc = "rollback" => Contents(Image') = Contents(begun)
  OBVIOUS
<1>1. EndFailed \/ EndRollback
  BY DEF Next, vars, Begin, Commit, CommitOk, CommitFail, Rollback, UndoOne, StartAny,
         Start, StartAt, InsertReject, InsertOom, InsertLatched, InsertRow, SkipRow, DeleteRow,
         UpdateRow, AssignCell, AssignNoLog, AssignOom, Assigning, Running, CheckUpdated,
         StmtOk, Compact
<1>2. Image' = Image /\ Len(log) = stmt.mark
  BY <1>1 DEF EndFailed, EndRollback, Image, mem
<1>3. Image \in Images /\ begun \in Images /\ seen \in Images
  BY UndoFacts DEF TypeOK
<1>4. pc = "undo" => Agrees(seen, Image)
  BY <1>2, UndoFacts DEF UndoInv, Anchored
<1>5. pc = "rollback" => Agrees(begun, Image)
  <2>1. ASSUME pc = "rollback" PROVE Before(1) = Image
    BY <1>2, <2>1 DEF UndoInv, Calm, Before
  <2>. QED
    BY <2>1 DEF UndoInv, Anchored, Calm
<1>. QED
  BY <1>2, <1>3, <1>4, <1>5, AgreesContents DEF UndoInv, AllSound

\* A failed statement leaves what a SELECT sees as it was.
THEOREM FailedStatementRestores ==
  ASSUME "heap" \notin Faults PROVE Spec => FailedStatementChangesNothing
<1>1. UndoInv /\ UndoInv' /\ [Next]_vars =>
        [pc = "undo" /\ pc' = "idle" => Contents(Image') = Contents(seen)]_vars
  BY UndoEndsRight
<1>. QED
  BY <1>1, UndoInvariant, PTL DEF Spec, FailedStatementChangesNothing

\* ROLLBACK gives back what was visible at BEGIN.
THEOREM RollbackIsExact ==
  ASSUME "heap" \notin Faults PROVE Spec => RollbackRestores
<1>1. UndoInv /\ UndoInv' /\ [Next]_vars =>
        [pc = "rollback" /\ pc' = "idle" => Contents(Image') = Contents(begun)]_vars
  BY UndoEndsRight
<1>. QED
  BY <1>1, UndoInvariant, PTL DEF Spec, RollbackRestores

-----------------------------------------------------------------------------
(* What a statement that fails leaves, also when the tables' own storage   *)
(* runs out: told from the log alone, since the rows a latched table was   *)
(* given without a log entry part the memory from what undoing restores.   *)

\* Rows in use, and rows an undo entry names, are allocated.
InReach(m, s) == s[2] <= m[s[1]]

Reach ==
  /\ \A s \in live \cup seen.live : InReach(n, s)
  /\ \A k \in 1..Len(log) : InReach(n, log[k].slot)

\* Between calls `seen` is what is there; only a transaction has a log; only an
\* UPDATE assigns.
CallOK ==
  /\ ~active => log = <<>>
  /\ IF pc = "idle" THEN seen = Image ELSE active
  /\ pc \in {"idle", "rollback"} \/ stmt.auto => stmt.mark = 0
  /\ pc = "assign" => stmt.kind = "update" /\ <<stmt.tab, stmt.cur>> \in live

\* The entries of the running statement.
Own == (stmt.mark + 1)..Len(log)

\* Entry k of log g is of an assignment to column c of row s.
Assigns(g, k, s, c) == g[k].kind = "update" /\ g[k].slot = s /\ g[k].col = c

\* A cell is as the statement found it, or is logged, and its first entry has
\* what it found; a row that was not there is blank, or its INSERT is logged.
CellsLogged ==
  /\ \A s \in seen.live : \A c \in Col :
       cell[s][c] = seen.cell[s][c] \/ \E k \in Own : Assigns(log, k, s, c)
  /\ \A k \in Own : \A s \in seen.live : \A c \in Col :
       Assigns(log, k, s, c) /\ (\A j \in Own : j < k => ~Assigns(log, j, s, c))
         => log[k].old = seen.cell[s][c]
  /\ \A s \in live \ seen.live :
       cell[s] = NullTuple \/ \E k \in Own : log[k].kind = "insert" /\ log[k].slot = s

\* While a statement runs or is undone, its entries tell what it changed.
StatementLogged ==
  pc \in {"row", "assign", "undo"} =>
    /\ stmt.mark <= Len(log)
    /\ \A k \in Own : /\ log[k].kind = stmt.kind
                      /\ stmt.kind # "insert" => log[k].slot \in seen.live
    /\ stmt.kind # "insert" /\ pc # "undo" => live \subseteq seen.live
    /\ CellsLogged

\* Until the statement fails, a latched table is as it found it, but for the
\* row it is assigning to.
LatchedAsFound ==
  pc \in {"row", "assign", "commit"} =>
    \A s \in live : s[1] \in failed /\ (pc = "assign" => s[1] # stmt.tab) =>
      s \in seen.live /\ cell[s] = seen.cell[s]

KeepInv == TypeInv /\ Reach /\ CallOK /\ StatementLogged /\ LatchedAsFound

LEMMA PushIs ==
  ASSUME TypeOK, NEW e \in Entries, Push(e)
  PROVE  /\ Len(log) \in Nat /\ Len(log') = Len(log) + 1 /\ log'[Len(log) + 1] = e
         /\ \A k \in 1..Len(log) : log'[k] = log[k]
BY DEF TypeOK, Push

LEMMA PopIs ==
  ASSUME TypeOK, UndoOne
  PROVE  /\ Len(log) \in Nat \ {0} /\ Len(log') = Len(log) - 1
         /\ \A k \in 1..Len(log) : log[k] \in Entries
         /\ \A k \in 1..(Len(log) - 1) : log'[k] = log[k]
BY StmtType DEF TypeOK, UndoOne

LEMMA EntryIs ==
  /\ \A s \in Slot : /\ Entry("insert", s, NoCol, NULL) \in Entries
                     /\ Entry("delete", s, NoCol, NULL) \in Entries
  /\ \A s \in Slot, c \in Col, v \in Cell : Entry("update", s, c, v) \in Entries
  /\ \A k, s, c, v : /\ Entry(k, s, c, v).kind = k /\ Entry(k, s, c, v).slot = s
                     /\ Entry(k, s, c, v).col = c /\ Entry(k, s, c, v).old = v
BY DEF Entry, Entries

\* The row a statement is at.
LEMMA CurrentRow ==
  ASSUME TypeInv
  PROVE  /\ \A r \in Row : <<stmt.tab, r>> \in Slot
         /\ pc = "assign" => <<stmt.tab, stmt.cur>> \in Slot
         /\ Assigning => stmt.set[stmt.pos] \in Col
         /\ \A s \in Slot, c \in Col : cell[s][c] \in Cell
         /\ n[stmt.tab] < MaxRow => <<stmt.tab, n[stmt.tab] + 1>> \in Slot
<1>1. stmt.tab \in Table /\ stmt.set \in Seq(Col) /\ stmt.pos \in Nat
  BY StmtType DEF TypeInv
<1>2. n[stmt.tab] \in 0..MaxRow
  BY <1>1 DEF TypeInv, TypeOK
<1>3. \A r \in Row : <<stmt.tab, r>> \in Slot
  BY <1>1 DEF Slot
<1>4. pc = "assign" => <<stmt.tab, stmt.cur>> \in Slot
  BY <1>3 DEF TypeInv, InStatement
<1>5. Assigning => stmt.set[stmt.pos] \in Col
  BY <1>1 DEF TypeInv, InStatement, Assigning
<1>6. \A s \in Slot, c \in Col : cell[s][c] \in Cell
  BY DEF TypeInv, TypeOK, Tuple
<1>7. n[stmt.tab] < MaxRow => n[stmt.tab] + 1 \in Row
  BY <1>2, BoundAssumption DEF Row
<1>. QED
  BY <1>3, <1>4, <1>5, <1>6, <1>7

\* Row numbers only grow, and what a step takes into use it allocates.
LEMMA ReachFrom ==
  ASSUME TypeOK, TypeOK', Reach, \A t \in Table : n[t] <= n'[t],
         \A s \in live' : s \in live \/ InReach(n', s) \/ \E k \in 1..Len(log) : log[k].slot = s,
         seen' = seen \/ seen' = Image \/ seen' = Image',
         \A k \in 1..Len(log') : \/ k \in 1..Len(log) /\ log'[k] = log[k]
                                 \/ log'[k].slot \in live' \cup live
  PROVE  Reach'
<1>1. ASSUME NEW s \in Slot, InReach(n, s)
      PROVE  InReach(n', s)
  <2>1. s[1] \in Table /\ s[2] \in Nat
    BY BoundAssumption DEF Slot, Row
  <2>2. n[s[1]] \in Nat /\ n'[s[1]] \in Nat
    BY <2>1, BoundAssumption DEF TypeOK
  <2>. QED
    BY <1>1, <2>1, <2>2 DEF InReach
<1>2. live \subseteq Slot /\ live' \subseteq Slot /\ seen.live \subseteq Slot
  BY DEF TypeOK, Images
<1>3. \A k \in 1..Len(log) : log[k].slot \in Slot
  BY DEF TypeOK, Entries
<1>4. \A s \in live \cup live' : InReach(n', s)
  BY <1>1, <1>2, <1>3 DEF Reach
<1>5. \A s \in seen'.live : InReach(n', s)
  BY <1>1, <1>2, <1>4 DEF Reach, Image
<1>6. \A k \in 1..Len(log') : InReach(n', log'[k].slot)
  BY <1>1, <1>3, <1>4 DEF Reach
<1>. QED
  BY <1>4, <1>5, <1>6 DEF Reach, InReach

LEMMA ReachNext ==
  ASSUME TypeInv, TypeInv', Reach, CallOK, Next
  PROVE  Reach'
<1>. USE DEF TypeInv, mem
<1>0. \A t \in Table : n[t] \in Nat
  BY BoundAssumption DEF TypeOK
<1>1. CASE UNCHANGED mem /\ (log' = log \/ log' = <<>>)
           /\ (seen' = seen \/ seen' = Image')
  BY <1>0, <1>1, ReachFrom
<1>2. CASE UndoOne
  <2>1. live' \subseteq live \cup {log[Len(log)].slot}
    BY <1>2, PopIs DEF UndoOne, Undone, Entries, Image
  <2>2. \A s \in live' : s \in live \/ \E k \in 1..Len(log) : log[k].slot = s
    BY <1>2, <2>1, PopIs
  <2>. QED
    BY <1>0, <1>2, <2>2, PopIs, ReachFrom DEF UndoOne
<1>3. ASSUME NEW x \in Tuple, InsertRow(x)
      PROVE  Reach'
  <2>. DEFINE t == stmt.tab
              s == <<t, n[t] + 1>>
  <2>1. n' = [n EXCEPT ![t] = @ + 1] /\ seen' = seen /\ t \in Table /\ s \in Slot
    BY <1>3, StmtType, CurrentRow DEF InsertRow, Fail
  <2>2. InReach(n', s) /\ \A u \in Table : n[u] <= n'[u]
    <3>1. n'[t] = n[t] + 1 /\ \A u \in Table : u # t => n'[u] = n[u]
      BY <2>1 DEF TypeOK
    <3>. QED
      BY <1>0, <2>1, <3>1 DEF InReach
  <2>3. \/ live' = live /\ log' = log
        \/ live' = live \cup {s} /\ Push(Entry("insert", s, NoCol, NULL))
    BY <1>3 DEF InsertRow
  <2>. HIDE DEF s, t
  <2>4. CASE live' = live /\ log' = log
    BY <2>1, <2>2, <2>4, ReachFrom
  <2>5. CASE live' = live \cup {s} /\ Push(Entry("insert", s, NoCol, NULL))
    <3>1. /\ Len(log) \in Nat /\ Len(log') = Len(log) + 1 /\ log'[Len(log) + 1].slot = s
          /\ \A k \in 1..Len(log) : log'[k] = log[k]
      BY <2>1, <2>5, PushIs, EntryIs
    <3>2. \A k \in 1..Len(log') : k \in 1..Len(log) \/ k = Len(log) + 1
      BY <3>1
    <3>. QED
      BY <2>1, <2>2, <2>5, <3>1, <3>2, ReachFrom
  <2>. QED
    BY <2>3, <2>4, <2>5
<1>4. CASE InsertOom \/ InsertLatched
  <2>. DEFINE t == stmt.tab
              s == <<t, n[t] + 1>>
  <2>1. /\ log' = log /\ seen' = seen /\ t \in Table
        /\ \/ n' = n /\ live' = live
           \/ n' = [n EXCEPT ![t] = @ + 1] /\ live' \subseteq live \cup {s}
    BY <1>4, StmtType DEF InsertOom, InsertLatched, Fail
  <2>2. (n' = [n EXCEPT ![t] = @ + 1] => InReach(n', s)) /\ \A u \in Table : n[u] <= n'[u]
    <3>1. n' = [n EXCEPT ![t] = @ + 1] => n'[t] = n[t] + 1
      BY <2>1 DEF TypeOK
    <3>2. \A u \in Table : n'[u] = n[u] \/ (u = t /\ n'[u] = n[u] + 1)
      BY <2>1 DEF TypeOK
    <3>. QED
      BY <1>0, <2>1, <3>1, <3>2 DEF InReach
  <2>. HIDE DEF s, t
  <2>. QED
    BY <2>1, <2>2, ReachFrom
<1>5. ASSUME NEW r \in Row, DeleteRow(r)
      PROVE  Reach'
  <2>1. n' = n /\ live' \subseteq live /\ seen' = seen /\ <<stmt.tab, r>> \in live
    BY <1>5 DEF DeleteRow, NextRow, Fail
  <2>2. log' = log \/ Push(Entry("delete", <<stmt.tab, r>>, NoCol, NULL))
    BY <1>5 DEF DeleteRow
  <2>3. ASSUME Push(Entry("delete", <<stmt.tab, r>>, NoCol, NULL)), NEW k \in 1..Len(log')
        PROVE  (k \in 1..Len(log) /\ log'[k] = log[k]) \/ log'[k].slot = <<stmt.tab, r>>
    <3>1. PICK e : e = Entry("delete", <<stmt.tab, r>>, NoCol, NULL)
      OBVIOUS
    <3>2. e \in Entries /\ e.slot = <<stmt.tab, r>>
      BY <3>1, EntryIs, CurrentRow
    <3>. QED
      BY <2>3, <3>1, <3>2, PushIs
  <2>. QED
    BY <1>0, <2>1, <2>2, <2>3, ReachFrom
<1>6. CASE AssignOom \/ \E v \in Cell : AssignCell(v)
  <2>. DEFINE s == <<stmt.tab, stmt.cur>>
              c == stmt.set[stmt.pos]
  <2>1. /\ n' = n /\ live' = live /\ seen' = seen /\ s \in live /\ Assigning
        /\ Push(Entry("update", s, c, cell[s][c]))
    BY <1>6 DEF AssignOom, AssignCell, Assigning, CallOK
  <2>2. Entry("update", s, c, cell[s][c]) \in Entries /\ Entry("update", s, c, cell[s][c]).slot = s
    <3>1. s \in Slot /\ c \in Col /\ cell[s][c] \in Cell
      BY <2>1, CurrentRow DEF Assigning
    <3>. HIDE DEF s, c
    <3>. QED
      BY <3>1, EntryIs
  <2>. HIDE DEF s, c
  <2>3. \A k \in 1..Len(log') : (k \in 1..Len(log) /\ log'[k] = log[k]) \/ log'[k].slot = s
    BY <2>1, <2>2, PushIs
  <2>. QED
    BY <1>0, <2>1, <2>3, ReachFrom
<1>7. ASSUME NEW t \in Table, Compact(t)
      PROVE  Reach'
  <2>1. log' = <<>> /\ seen' = Image'
    BY <1>7 DEF Compact, CallOK
  <2>2. PICK m \in 0..MaxRow :
          /\ n' = [n EXCEPT ![t] = m]
          /\ live' = {s \in Slot : IF s[1] = t THEN s[2] <= m ELSE s \in live}
    BY <1>7 DEF Compact, Renumbered
  <2>3. \A s \in live' : InReach(n', s)
    BY <2>2 DEF InReach, Reach, TypeOK
  <2>. QED
    BY <2>1, <2>3 DEF Reach, Image, InReach
<1>. QED
  BY <1>1, <1>2, <1>3, <1>4, <1>5, <1>6, <1>7
  DEF Next, Begin, Commit, CommitOk, CommitFail, Rollback, EndRollback, EndFailed, StartAny,
      Start, StartAt, InsertReject, SkipRow, UpdateRow, AssignNoLog, CheckUpdated, StmtOk,
      Return, Fail

LEMMA CallNext ==
  ASSUME TypeInv, TypeInv', CallOK, Next, StatementLogged
  PROVE  CallOK'
<1>. USE DEF CallOK
<1>1. CASE Begin \/ Commit \/ Rollback
  BY <1>1 DEF Begin, Commit, Rollback, mem, Image
<1>2. CASE CommitOk \/ CommitFail
  BY <1>2 DEF CommitOk, CommitFail, Return, NoStmt
<1>3. CASE EndRollback \/ EndFailed
  <2>1. stmt.mark = 0 /\ Len(log) = stmt.mark => log = <<>>
    BY DEF TypeInv, TypeOK
  <2>2. /\ seen' = Image' /\ pc' = "idle" /\ stmt'.mark = 0 /\ log' = log
        /\ Len(log) = stmt.mark
    BY <1>3 DEF EndRollback, EndFailed, Return, NoStmt
  <2>3. stmt.mark = 0 \/ active' = active
    BY <1>3 DEF EndRollback, EndFailed, TypeInv, TypeOK
  <2>. QED
    BY <2>1, <2>2, <2>3
<1>4. ASSUME NEW k, NEW t, NEW set, Start(k, t, set)
      PROVE  CallOK'
  <2>1. /\ active' = TRUE /\ pc' = "row" /\ pc = "idle" /\ stmt'.mark = Len(log)
        /\ stmt'.auto = ~active
    BY <1>4 DEF Start, StartAt
  <2>. QED
    BY <2>1
<1>5. CASE UndoOne
  BY <1>5 DEF UndoOne
<1>6. ASSUME active' = active, pc' = "undo" \/ pc' = "row", pc # "idle",
             stmt'.mark = stmt.mark, stmt'.auto = stmt.auto
      PROVE  CallOK'
  BY <1>6
<1>7. stmt \in Stmts
  BY DEF TypeInv, TypeOK
<1>8. CASE InsertReject \/ InsertOom \/ InsertLatched \/ (\E x \in Tuple : InsertRow(x))
            \/ AssignNoLog \/ CheckUpdated
  <2>1. /\ active' = active /\ pc \in {"row", "assign"} /\ pc' \in {"undo", "row"}
        /\ stmt' = stmt \/ (pc = "row" /\ stmt' = [stmt EXCEPT !.cur = @ + 1])
    BY <1>8 DEF InsertReject, InsertOom, InsertLatched, InsertRow, AssignNoLog, CheckUpdated, Fail,
                Running, Assigning
  <2>2. stmt'.mark = stmt.mark /\ stmt'.auto = stmt.auto
    BY <1>7, <2>1 DEF Stmts
  <2>. QED
    BY <1>6, <2>1, <2>2
<1>9. ASSUME NEW r \in Row, SkipRow(r) \/ DeleteRow(r)
      PROVE  CallOK'
  <2>1. /\ active' = active /\ pc = "row" /\ pc' \in {"undo", "row"}
        /\ stmt' = stmt \/ stmt' = [stmt EXCEPT !.cur = r]
    BY <1>9 DEF SkipRow, DeleteRow, Running, Fail
  <2>2. stmt'.mark = stmt.mark /\ stmt'.auto = stmt.auto
    BY <1>7, <2>1 DEF Stmts
  <2>. QED
    BY <1>6, <2>1, <2>2
<1>10. ASSUME NEW r \in Row, UpdateRow(r)
       PROVE  CallOK'
  <2>1. /\ active' = active /\ pc = "row" /\ live' = live /\ <<stmt.tab, r>> \in live
        /\ stmt.kind = "update"
        /\ \/ pc' = "undo" /\ stmt' = stmt
           \/ pc' = "assign" /\ stmt' = [stmt EXCEPT !.cur = r, !.pos = 1]
    BY <1>10 DEF UpdateRow, Running, NextRow, Fail, mem
  <2>2. /\ stmt'.mark = stmt.mark /\ stmt'.auto = stmt.auto /\ stmt'.kind = stmt.kind
        /\ stmt'.tab = stmt.tab /\ (pc' = "assign" => stmt'.cur = r)
    BY <1>7, <2>1 DEF Stmts
  <2>. QED
    BY <2>1, <2>2
<1>11. CASE AssignOom \/ \E v \in Cell : AssignCell(v)
  <2>1. /\ active' = active /\ pc = "assign" /\ pc' = pc /\ live' = live
        /\ stmt' = [stmt EXCEPT !.pos = @ + 1]
    BY <1>11 DEF AssignOom, AssignCell, Assigning, mem
  <2>2. /\ stmt'.mark = stmt.mark /\ stmt'.auto = stmt.auto /\ stmt'.kind = stmt.kind
        /\ stmt'.tab = stmt.tab /\ stmt'.cur = stmt.cur
    BY <1>7, <2>1 DEF Stmts
  <2>. QED
    BY <2>1, <2>2
<1>12. CASE StmtOk
  BY <1>12 DEF StmtOk, Return, NoStmt
<1>13. ASSUME NEW t \in Table, Compact(t)
       PROVE  CallOK'
  BY <1>13 DEF Compact
<1>. QED
  BY <1>1, <1>2, <1>3, <1>4, <1>5, <1>8, <1>9, <1>10, <1>11, <1>12, <1>13 DEF Next, StartAny

\* The statement logs nothing, and changes no row that was there.
LEMMA LoggedDrift ==
  ASSUME TypeOK, StatementLogged, pc \in {"row", "assign", "undo"},
         log' = log, seen' = seen, stmt'.mark = stmt.mark, stmt'.kind = stmt.kind,
         \A s \in seen.live : cell'[s] = cell[s],
         \A s \in live' \ seen.live : (s \in live /\ cell'[s] = cell[s]) \/ cell'[s] = NullTuple,
         pc' = "undo" \/ (pc # "undo" /\ live' \subseteq live)
  PROVE  StatementLogged'
<1>1. Own' = Own
  BY DEF Own
<1>2. CellsLogged'
  BY <1>1 DEF StatementLogged, CellsLogged, Assigns
<1>. QED
  BY <1>1, <1>2 DEF StatementLogged

\* The statement logs an entry.
LEMMA LoggedPush ==
  ASSUME TypeOK, NEW e \in Entries, Push(e), StatementLogged, pc \in {"row", "assign"}, pc' = pc,
         seen' = seen, stmt'.mark = stmt.mark, stmt'.kind = stmt.kind, e.kind = stmt.kind,
         stmt.kind # "insert" => e.slot \in seen.live /\ live' \subseteq live,
         \A s \in seen.live : \A c \in Col :
           cell'[s][c] = cell[s][c] \/ (e.kind = "update" /\ e.slot = s /\ e.col = c),
         e.kind = "update" => e.old = cell[e.slot][e.col],
         \A s \in live' \ seen.live :
           (s \in live /\ cell'[s] = cell[s]) \/ (e.kind = "insert" /\ e.slot = s)
  PROVE  StatementLogged'
<1>0. PICK L \in Nat : L = Len(log)
  BY PushIs
<1>1. /\ Len(log') = L + 1 /\ log'[L + 1] = e /\ \A k \in 1..L : log'[k] = log[k]
      /\ stmt.mark \in Nat /\ stmt.mark <= L
  BY <1>0, PushIs, StmtType DEF StatementLogged
<1>2. /\ Own' = Own \cup {L + 1} /\ Own \subseteq 1..L /\ L + 1 \notin Own
      /\ \A k \in Own : k < L + 1
  BY <1>0, <1>1 DEF Own
<1>3. /\ \A k \in Own : log'[k] = log[k]
      /\ \A k \in Own, s \in seen.live, c \in Col : Assigns(log', k, s, c) <=> Assigns(log, k, s, c)
      /\ \A s \in seen.live, c \in Col :
           Assigns(log', L + 1, s, c) <=> e.kind = "update" /\ e.slot = s /\ e.col = c
  BY <1>1, <1>2 DEF Assigns
<1>4. ASSUME NEW s \in seen.live, NEW c \in Col
      PROVE  cell'[s][c] = seen.cell[s][c] \/ \E k \in Own' : Assigns(log', k, s, c)
  <2>1. cell[s][c] = seen.cell[s][c] \/ \E k \in Own : Assigns(log, k, s, c)
    BY DEF StatementLogged, CellsLogged
  <2>. QED
    BY <1>2, <1>3, <2>1
<1>5. ASSUME NEW k \in Own', NEW s \in seen.live, NEW c \in Col, Assigns(log', k, s, c),
             \A j \in Own' : j < k => ~Assigns(log', j, s, c)
      PROVE  log'[k].old = seen.cell[s][c]
  <2>1. CASE k \in Own
    BY <1>2, <1>3, <1>5, <2>1 DEF StatementLogged, CellsLogged
  <2>2. CASE k = L + 1
    <3>1. \A j \in Own : ~Assigns(log, j, s, c)
      BY <1>2, <1>3, <1>5, <2>2
    <3>2. cell[s][c] = seen.cell[s][c]
      BY <3>1 DEF StatementLogged, CellsLogged
    <3>. QED
      BY <1>1, <1>3, <1>5, <2>2, <3>2
  <2>. QED
    BY <1>2, <2>1, <2>2
<1>6. ASSUME NEW s \in live' \ seen.live
      PROVE  cell'[s] = NullTuple \/ \E k \in Own' : log'[k].kind = "insert" /\ log'[k].slot = s
  <2>1. CASE e.kind = "insert" /\ e.slot = s
    BY <1>1, <1>2, <2>1
  <2>2. CASE s \in live /\ cell'[s] = cell[s]
    <3>1. cell[s] = NullTuple \/ \E k \in Own : log[k].kind = "insert" /\ log[k].slot = s
      BY <1>6, <2>2 DEF StatementLogged, CellsLogged
    <3>. QED
      BY <1>2, <1>3, <2>2, <3>1
  <2>. QED
    BY <1>6, <2>1, <2>2
<1>7. CellsLogged'
  BY <1>4, <1>5, <1>6 DEF CellsLogged
<1>8. \A k \in Own' : /\ log'[k].kind = stmt'.kind
                      /\ stmt'.kind # "insert" => log'[k].slot \in seen'.live
  BY <1>1, <1>2, <1>3 DEF StatementLogged
<1>9. stmt'.mark <= Len(log') /\ (stmt'.kind # "insert" /\ pc' # "undo" => live' \subseteq seen'.live)
  BY <1>1 DEF StatementLogged
<1>. QED
  BY <1>7, <1>8, <1>9 DEF StatementLogged

\* The newest entry is taken back.
LEMMA LoggedPop ==
  ASSUME TypeOK, StatementLogged, UndoOne, pc = "undo"
  PROVE  StatementLogged'
<1>0. PICK L \in Nat \ {0} : L = Len(log)
  BY PopIs
<1>. DEFINE e == log[L]
<1>1. /\ Len(log') = L - 1 /\ e \in Entries
      /\ \A k \in 1..(L - 1) : log'[k] = log[k]
      /\ stmt.mark \in Nat /\ stmt.mark <= L - 1
      /\ pc' = pc /\ stmt' = stmt /\ seen' = seen
  BY <1>0, PopIs, StmtType DEF UndoOne
<1>2. /\ L \in Own /\ Own' = Own \ {L} /\ Own' \subseteq 1..(L - 1)
      /\ \A k \in Own' : k < L
  BY <1>0, <1>1 DEF Own
<1>3. /\ e.kind = "insert" => live' = live \ {e.slot} /\ cell' = cell
      /\ e.kind = "delete" => live' = live \cup {e.slot} /\ cell' = cell
      /\ e.kind = "update" => live' = live /\ cell' = [cell EXCEPT ![e.slot][e.col] = e.old]
                              /\ e.slot \in Slot /\ e.col \in Col
      /\ e.kind \in {"insert", "delete", "update"}
  BY <1>0, <1>1 DEF UndoOne, Undone, Entries, Image
<1>4. e.kind = stmt.kind /\ (stmt.kind # "insert" => e.slot \in seen.live)
  BY <1>2 DEF StatementLogged
<1>5. /\ \A k \in Own' : log'[k] = log[k]
      /\ \A k \in Own', s \in seen.live, c \in Col : Assigns(log', k, s, c) <=> Assigns(log, k, s, c)
  BY <1>1, <1>2 DEF Assigns
<1>6. ASSUME NEW s \in seen.live, NEW c \in Col
      PROVE  cell'[s][c] = seen.cell[s][c] \/ \E k \in Own' : Assigns(log', k, s, c)
  <2>1. cell[s][c] = seen.cell[s][c] \/ \E k \in Own : Assigns(log, k, s, c)
    BY DEF StatementLogged, CellsLogged
  <2>2. CASE Assigns(log, L, s, c) /\ \A k \in Own' : ~Assigns(log, k, s, c)
    <3>1. e.old = seen.cell[s][c]
      BY <1>2, <2>2 DEF StatementLogged, CellsLogged
    <3>2. cell'[s][c] = e.old
      BY <1>3, <2>2 DEF Assigns, TypeOK, Tuple
    <3>. QED
      BY <3>1, <3>2
  <2>3. CASE ~Assigns(log, L, s, c) /\ \A k \in Own' : ~Assigns(log, k, s, c)
    <3>1. cell'[s][c] = cell[s][c]
      BY <1>3, <2>3 DEF Assigns, TypeOK, Tuple, Images
    <3>. QED
      BY <1>2, <2>1, <2>3, <3>1
  <2>. QED
    BY <1>5, <2>2, <2>3
<1>7. ASSUME NEW k \in Own', NEW s \in seen.live, NEW c \in Col, Assigns(log', k, s, c),
             \A j \in Own' : j < k => ~Assigns(log', j, s, c)
      PROVE  log'[k].old = seen.cell[s][c]
  <2>1. k \in Own /\ Assigns(log, k, s, c) /\ log'[k] = log[k]
    BY <1>2, <1>5, <1>7
  <2>2. \A j \in Own : j < k => ~Assigns(log, j, s, c)
    BY <1>1, <1>2, <1>5, <1>7
  <2>. QED
    BY <2>1, <2>2 DEF StatementLogged, CellsLogged
<1>8. ASSUME NEW s \in live' \ seen.live
      PROVE  cell'[s] = NullTuple \/ \E k \in Own' : log'[k].kind = "insert" /\ log'[k].slot = s
  <2>1. s \in live /\ cell'[s] = cell[s] /\ (e.kind = "insert" => s # e.slot)
    BY <1>3, <1>4, <1>8 DEF TypeOK
  <2>2. cell[s] = NullTuple \/ \E k \in Own : log[k].kind = "insert" /\ log[k].slot = s
    BY <1>8, <2>1 DEF StatementLogged, CellsLogged
  <2>. QED
    BY <1>2, <1>5, <2>1, <2>2
<1>9. CellsLogged'
  BY <1>1, <1>6, <1>7, <1>8 DEF CellsLogged
<1>10. \A k \in Own' : /\ log'[k].kind = stmt'.kind
                       /\ stmt'.kind # "insert" => log'[k].slot \in seen'.live
  BY <1>1, <1>2, <1>5 DEF StatementLogged
<1>. QED
  BY <1>1, <1>9, <1>10 DEF StatementLogged

\* The next row to be appended is not in use.
LEMMA NotInUse ==
  ASSUME TypeOK, Reach, NEW t \in Table
  PROVE  <<t, n[t] + 1>> \notin live \cup seen.live
<1>1. n[t] \in Nat
  BY BoundAssumption DEF TypeOK
<1>2. ~InReach(n, <<t, n[t] + 1>>)
  BY <1>1 DEF InReach
<1>. QED
  BY <1>2 DEF Reach

LEMMA LoggedNext ==
  ASSUME TypeInv, TypeInv', Reach, CallOK, StatementLogged, Next
  PROVE  StatementLogged'
<1>. USE DEF TypeInv, mem
<1>0. stmt \in Stmts /\ stmt.tab \in Table
  BY StmtType DEF TypeOK
<1>1. CASE pc' \in {"idle", "commit", "rollback"}
  BY <1>1 DEF StatementLogged
<1>2. ASSUME NEW k, NEW t, NEW set, Start(k, t, set)
      PROVE  StatementLogged'
  <2>1. /\ live' = seen.live /\ cell' = seen.cell /\ seen' = seen
        /\ stmt'.mark = Len(log) /\ log' = log
    BY <1>2 DEF Start, StartAt, CallOK, Image
  <2>2. Own' = {} /\ Len(log) \in Nat
    BY <2>1 DEF Own, TypeOK
  <2>. QED
    BY <2>1, <2>2 DEF StatementLogged, CellsLogged
<1>3. CASE UndoOne
  BY <1>1, <1>3, LoggedPop DEF UndoOne
<1>4. CASE InsertReject \/ AssignNoLog \/ CheckUpdated \/ \E r \in Row : SkipRow(r) \/ UpdateRow(r)
  <2>1. /\ UNCHANGED <<mem, log, seen>> /\ pc \in {"row", "assign"}
        /\ \/ stmt' = stmt
           \/ \E r \in Row : \/ stmt' = [stmt EXCEPT !.cur = r]
                             \/ stmt' = [stmt EXCEPT !.cur = r, !.pos = 1]
    BY <1>4 DEF InsertReject, AssignNoLog, CheckUpdated, SkipRow, UpdateRow, Running, Assigning, Fail
  <2>2. stmt'.mark = stmt.mark /\ stmt'.kind = stmt.kind
    BY <1>0, <2>1 DEF Stmts
  <2>. QED
    BY <2>1, <2>2, LoggedDrift
<1>5. ASSUME NEW x \in Tuple, InsertRow(x)
      PROVE  StatementLogged'
  <2>. DEFINE s == <<stmt.tab, n[stmt.tab] + 1>>
  <2>1. /\ s \in Slot /\ cell' = [cell EXCEPT ![s] = x] /\ seen' = seen
        /\ pc = "row" /\ stmt.kind = "insert"
        /\ \/ live' = live \cup {s} /\ pc' = pc /\ stmt' = [stmt EXCEPT !.cur = @ + 1]
              /\ Push(Entry("insert", s, NoCol, NULL))
           \/ live' = live /\ log' = log /\ pc' = "undo" /\ stmt' = stmt
    BY <1>5, CurrentRow DEF InsertRow, Running, Fail
  <2>2. s \notin live \cup seen.live
    BY <1>0, NotInUse
  <2>. HIDE DEF s
  <2>3. \A q \in live \cup seen.live : cell'[q] = cell[q]
    BY <2>1, <2>2 DEF TypeOK, Images
  <2>4. CASE live' = live
    BY <2>1, <2>2, <2>3, <2>4, LoggedDrift
  <2>5. CASE live' # live
    <3>1. stmt'.mark = stmt.mark /\ stmt'.kind = stmt.kind
      BY <1>0, <2>1, <2>5 DEF Stmts
    <3>2. PICK e \in Entries : e = Entry("insert", s, NoCol, NULL)
      BY <2>1, EntryIs
    <3>3. e.kind = "insert" /\ e.slot = s
      BY <3>2, EntryIs
    <3>. QED
      BY <2>1, <2>3, <2>5, <3>1, <3>2, <3>3, LoggedPush
  <2>. QED
    BY <2>4, <2>5
<1>6. CASE InsertOom \/ InsertLatched
  <2>. DEFINE s == <<stmt.tab, n[stmt.tab] + 1>>
  <2>1. /\ log' = log /\ seen' = seen /\ stmt' = stmt /\ pc = "row" /\ pc' = "undo"
        /\ live' \subseteq live \cup {s}
        /\ \/ cell' = cell /\ live' = live
           \/ s \in Slot /\ cell' = [cell EXCEPT ![s] = NullTuple]
    BY <1>6, CurrentRow DEF InsertOom, InsertLatched, Running, Fail
  <2>2. s \notin live \cup seen.live
    BY <1>0, NotInUse
  <2>. HIDE DEF s
  <2>3. /\ \A q \in live \cup seen.live : cell'[q] = cell[q]
        /\ \A q \in live' : q \in live \/ cell'[q] = NullTuple
    BY <2>1, <2>2 DEF TypeOK, Images
  <2>. QED
    BY <2>1, <2>3, LoggedDrift
<1>7. ASSUME NEW r \in Row, DeleteRow(r)
      PROVE  StatementLogged'
  <2>. DEFINE s == <<stmt.tab, r>>
  <2>1. /\ s \in live /\ s \in Slot /\ cell' = cell /\ seen' = seen
        /\ pc = "row" /\ stmt.kind = "delete"
        /\ \/ live' = live \ {s} /\ pc' = pc /\ stmt' = [stmt EXCEPT !.cur = r]
              /\ Push(Entry("delete", s, NoCol, NULL))
           \/ live' = live /\ log' = log /\ pc' = "undo" /\ stmt' = stmt
    BY <1>7, CurrentRow DEF DeleteRow, Running, NextRow, Fail
  <2>. HIDE DEF s
  <2>2. CASE live' = live
    BY <2>1, <2>2, LoggedDrift
  <2>3. CASE live' # live
    <3>1. stmt'.mark = stmt.mark /\ stmt'.kind = stmt.kind
      BY <1>0, <2>1, <2>3 DEF Stmts
    <3>2. PICK e \in Entries : e = Entry("delete", s, NoCol, NULL)
      BY <2>1, EntryIs
    <3>3. e.kind = "delete" /\ e.slot = s /\ s \in seen.live
      BY <2>1, <3>2, EntryIs DEF StatementLogged
    <3>. QED
      BY <2>1, <2>3, <3>1, <3>2, <3>3, LoggedPush
  <2>. QED
    BY <2>2, <2>3
<1>8. CASE AssignOom \/ \E v \in Cell : AssignCell(v)
  <2>. DEFINE s == <<stmt.tab, stmt.cur>>
              c == stmt.set[stmt.pos]
  <2>1. /\ live' = live /\ seen' = seen /\ pc = "assign" /\ pc' = pc /\ Assigning
        /\ Push(Entry("update", s, c, cell[s][c])) /\ stmt' = [stmt EXCEPT !.pos = @ + 1]
        /\ cell' = cell \/ \E v \in Cell : cell' = [cell EXCEPT ![s][c] = v]
    BY <1>8 DEF AssignOom, AssignCell, Assigning
  <2>2. s \in Slot /\ c \in Col /\ cell[s][c] \in Cell /\ stmt.kind = "update" /\ s \in live
    BY <2>1, CurrentRow DEF CallOK
  <2>. HIDE DEF s, c
  <2>3. /\ \A q \in Slot, b \in Col : cell'[q][b] = cell[q][b] \/ (q = s /\ b = c)
        /\ \A q \in Slot : q # s => cell'[q] = cell[q]
    BY <2>1, <2>2 DEF TypeOK, Tuple
  <2>4. stmt'.mark = stmt.mark /\ stmt'.kind = stmt.kind
    BY <1>0, <2>1 DEF Stmts
  <2>5. PICK e \in Entries : e = Entry("update", s, c, cell[s][c])
    BY <2>2, EntryIs
  <2>6. e.kind = "update" /\ e.slot = s /\ e.col = c /\ e.old = cell[s][c] /\ s \in seen.live
    BY <2>1, <2>2, <2>5, EntryIs DEF StatementLogged
  <2>7. live' \ seen.live = {} /\ seen.live \subseteq Slot
    BY <2>1, <2>2 DEF StatementLogged, TypeOK, Images
  <2>8. Push(e)
    BY <2>1, <2>5
  <2>9. \A q \in seen.live : \A b \in Col :
          cell'[q][b] = cell[q][b] \/ (e.kind = "update" /\ e.slot = q /\ e.col = b)
    BY <2>3, <2>6, <2>7
  <2>10. e.old = cell[e.slot][e.col] /\ e.kind = stmt.kind /\ e.slot \in seen.live
    BY <2>2, <2>6
  <2>. QED
    BY <2>1, <2>4, <2>7, <2>8, <2>9, <2>10, LoggedPush
<1>. QED
  BY <1>1, <1>2, <1>3, <1>4, <1>5, <1>6, <1>7, <1>8
  DEF Next, Begin, Commit, CommitOk, CommitFail, Rollback, EndRollback, EndFailed, StartAny,
      StmtOk, Compact, Return

LEMMA AsFoundNext ==
  ASSUME TypeInv, TypeInv', Reach, CallOK, LatchedAsFound, Next
  PROVE  LatchedAsFound'
<1>. USE DEF TypeInv, mem
<1>0. stmt \in Stmts /\ stmt.tab \in Table
  BY StmtType DEF TypeOK
<1>1. CASE pc' \in {"idle", "rollback", "undo"}
  BY <1>1 DEF LatchedAsFound
<1>2. CASE Commit \/ StartAny
  <2>1. live' = seen.live /\ cell' = seen.cell /\ seen' = seen
    BY <1>2 DEF Commit, StartAny, Start, StartAt, CallOK, Image
  <2>. QED
    BY <2>1 DEF LatchedAsFound
<1>3. CASE CheckUpdated
  BY <1>1, <1>3 DEF CheckUpdated, LatchedAsFound, Fail
<1>4. ASSUME NEW r \in Row, SkipRow(r) \/ UpdateRow(r) \/ DeleteRow(r)
      PROVE  LatchedAsFound'
  <2>1. /\ live' \subseteq live /\ cell' = cell /\ failed' = failed /\ seen' = seen
        /\ pc = "row" /\ pc' \in {"row", "assign", "undo"}
    BY <1>4 DEF SkipRow, UpdateRow, DeleteRow, Running, Fail
  <2>. QED
    BY <2>1 DEF LatchedAsFound
<1>5. ASSUME NEW x \in Tuple, InsertRow(x)
      PROVE  LatchedAsFound'
  <2>. DEFINE s == <<stmt.tab, n[stmt.tab] + 1>>
  <2>1. /\ cell' = [cell EXCEPT ![s] = x] /\ seen' = seen /\ failed' = failed
        /\ pc = "row" /\ (pc' = pc \/ pc' = "undo") /\ live' \subseteq live \cup {s}
        /\ s[1] \notin failed
    BY <1>5 DEF InsertRow, Running, Fail
  <2>2. s \notin live
    BY <1>0, NotInUse
  <2>. HIDE DEF s
  <2>3. \A q \in live : cell'[q] = cell[q]
    BY <2>1, <2>2 DEF TypeOK
  <2>. QED
    BY <2>1, <2>3 DEF LatchedAsFound
<1>6. CASE AssignOom \/ \E v \in Cell : AssignCell(v)
  <2>. DEFINE s == <<stmt.tab, stmt.cur>>
              c == stmt.set[stmt.pos]
  <2>1. /\ live' = live /\ seen' = seen /\ pc = "assign" /\ pc' = pc
        /\ failed' \subseteq failed \cup {stmt.tab} /\ stmt' = [stmt EXCEPT !.pos = @ + 1]
        /\ cell' = cell \/ \E v \in Cell : cell' = [cell EXCEPT ![s][c] = v]
    BY <1>6 DEF AssignOom, AssignCell, Assigning
  <2>2. stmt'.tab = stmt.tab /\ s[1] = stmt.tab
    BY <1>0, <2>1 DEF Stmts
  <2>. HIDE DEF s, c
  <2>3. \A q \in Slot : q # s => cell'[q] = cell[q]
    BY <2>1 DEF TypeOK
  <2>. QED
    BY <2>1, <2>2, <2>3 DEF LatchedAsFound, TypeOK
<1>7. CASE StmtOk
  BY <1>7 DEF StmtOk, LatchedAsFound, Return
<1>. QED
  BY <1>1, <1>2, <1>3, <1>4, <1>5, <1>6, <1>7
  DEF Next, Begin, CommitOk, CommitFail, Rollback, EndRollback, EndFailed, Compact, Return,
      InsertReject, InsertOom, InsertLatched, AssignNoLog, Fail, UndoOne

\* The statement is over: what it logged it has taken back, or a latched table
\* was none it wrote to.
LEMMA KeepsCells ==
  ASSUME TypeInv, StatementLogged, LatchedAsFound, Next,
         pc \in {"row", "undo", "commit"}, pc' = "idle", NEW s \in live', s[1] \in failed
  PROVE  cell'[s] = IF s \in seen.live THEN seen.cell[s] ELSE NullTuple
<1>1. live' = live /\ cell' = cell
  BY DEF Next, Begin, Commit, CommitOk, CommitFail, Rollback, UndoOne, EndRollback, EndFailed,
         StartAny, Start, StartAt, InsertReject, InsertOom, InsertLatched, InsertRow, SkipRow,
         DeleteRow, UpdateRow, AssignCell, AssignNoLog, AssignOom, Assigning, CheckUpdated, StmtOk,
         Compact, Fail, Running, mem
<1>2. CASE pc # "undo"
  BY <1>1, <1>2 DEF LatchedAsFound
<1>3. CASE pc = "undo"
  <2>1. EndFailed
    BY <1>3 DEF Next, Begin, Commit, CommitOk, CommitFail, Rollback, UndoOne, EndRollback,
         StartAny, Start, StartAt, InsertReject, InsertOom, InsertLatched, InsertRow, SkipRow,
         DeleteRow, UpdateRow, AssignCell, AssignNoLog, AssignOom, Assigning, CheckUpdated, StmtOk,
         Compact, Fail, Running
  <2>2. Own = {}
    BY <2>1, StmtType DEF EndFailed, Own, TypeInv, TypeOK
  <2>3. CellsLogged
    BY <1>3 DEF StatementLogged
  <2>4. CASE s \in seen.live
    <3>1. \A c \in Col : cell[s][c] = seen.cell[s][c]
      BY <2>2, <2>3, <2>4 DEF CellsLogged
    <3>2. cell[s] \in Tuple /\ seen.cell[s] \in Tuple
      BY <2>4 DEF TypeInv, TypeOK, Images
    <3>. QED
      BY <1>1, <2>4, <3>1, <3>2 DEF Tuple
  <2>5. CASE s \notin seen.live
    BY <1>1, <2>2, <2>3, <2>5 DEF CellsLogged
  <2>. QED
    BY <2>4, <2>5
<1>. QED
  BY <1>2, <1>3

\* Under every fault: when a statement returns, the rows of a table that ran out
\* of memory, in this statement or before, are those it found, less the ones it
\* deleted, and blank ones.
THEOREM LatchedTablesKeep == Spec => LatchedTableKeepsCells
<1>1. Init => Reach /\ CallOK /\ StatementLogged /\ LatchedAsFound
  <2>. SUFFICES ASSUME Init PROVE Reach /\ CallOK /\ StatementLogged /\ LatchedAsFound
    OBVIOUS
  <2>1. Reach
    BY DEF Init, Reach, InReach, Image
  <2>. QED
    BY <2>1 DEF Init, CallOK, StatementLogged, LatchedAsFound, NoStmt
<1>2. KeepInv /\ TypeInv' /\ Next => KeepInv'
  BY ReachNext, CallNext, LoggedNext, AsFoundNext DEF KeepInv
<1>3. KeepInv /\ TypeInv' /\ UNCHANGED vars => KeepInv'
  <2>. SUFFICES ASSUME KeepInv, TypeInv', UNCHANGED vars PROVE KeepInv'
    OBVIOUS
  <2>. USE DEF vars, mem
  <2>1. Image' = Image /\ Own' = Own
    BY DEF Image, Own
  <2>2. CellsLogged' <=> CellsLogged
    BY <2>1 DEF CellsLogged
  <2>. QED
    BY <2>1, <2>2 DEF KeepInv, Reach, CallOK, StatementLogged, LatchedAsFound
<1>4. KeepInv /\ [Next]_vars =>
        [pc' = "idle" /\ pc \in {"row", "undo", "commit"} =>
           \A s \in live' : s[1] \in failed =>
             cell'[s] = IF s \in seen.live THEN seen.cell[s] ELSE NullTuple]_vars
  BY KeepsCells DEF KeepInv
<1>5. KeepInv /\ [Next]_vars => KeepInv'
  BY <1>2, <1>3, NextType DEF KeepInv
<1>6. Init => KeepInv
  BY <1>1, InitType DEF KeepInv
<1>. QED
  BY <1>4, <1>5, <1>6, PTL DEF Spec, LatchedTableKeepsCells
=============================================================================
