------------------------------ MODULE Durable ------------------------------
(***************************************************************************)
(* One table backed by files, used by several db4 processes: the base CSV, *)
(* the write-ahead log beside it (wal.c), the checkpoint generation, and   *)
(* the advisory lock (lock.c) around commits (interp.c), checkpoints       *)
(* (main.c) and loads (load.c).  Each process works on its own copy.       *)
(*                                                                         *)
(* A row is one value; every write uses a value never used before, so a    *)
(* value names the statement that wrote it.  What statements and rollback  *)
(* do to memory is Engine's subject: here they are one step, and a         *)
(* rollback gives back the rows of BEGIN, with the rows appended since     *)
(* left behind as tombstones.  Row numbers start at 1.                     *)
(***************************************************************************)
EXTENDS Integers, Sequences, FiniteSetsExt

CONSTANTS
  Proc,      \* processes
  Nobody,    \* no process
  Val,       \* row values
  Blank,     \* a row whose cells are all NULL
  Dead,      \* a tombstone
  Header,    \* the WAL's first item: magic and schema fingerprint
  Torn,      \* an item cut short by a crash
  Start,     \* the rows of the base file in the beginning
  Writers,   \* the processes that change rows
  Ops,       \* subset of {"insert", "update", "delete", "reject", "rollback",
             \*            "checkpoint"}: what writers may do
  Faults,    \* subset of {"append", "dump", "checkpoint", "crash",
             \*            "crash in checkpoint", "torn"}: what may go wrong, and where
  MaxRow,    \* bound: rows of a table
  MaxGen,    \* bound: times the base file is replaced
  MaxTxn     \* bound: rows changed by one transaction

RowNum  == 1..MaxRow
Frame   == [row : RowNum, val : Val \cup {Blank, Dead}]
Content == Seq(Val \cup {Blank, Dead})

\* A value names who wrote it, those of the base file too: it has none twice.
ASSUME ConstantAssumption ==
  /\ Nobody \notin Proc /\ Writers \subseteq Proc
  /\ {Blank, Dead, Header, Torn} \cap Val = {} /\ Blank # Dead
  /\ Header # Torn /\ {Header, Torn} \cap Frame = {}
  /\ Start \in Seq(Val) /\ MaxRow \in Nat /\ MaxGen \in Nat /\ MaxTxn \in Nat
  /\ \A i, j \in DOMAIN Start : Start[i] = Start[j] => i = j

VARIABLES
  base,      \* the rows of the CSV file
  wal,       \* the items of the WAL file; <<>> when there is none
  gen,       \* the .gen sidecar
  shared,    \* processes holding the lock shared
  excl,      \* the process holding it exclusively, or Nobody
  pc,        \* [Proc -> where the process is in the call it is executing]
  loaded,    \* [Proc -> BOOLEAN]: the table is in its catalog
  mem,       \* [Proc -> the rows of its table]
  mgen,      \* [Proc -> t->wal_generation]
  touched,   \* [Proc -> the rows its open transaction logged, in that order]
  saved,     \* [Proc -> the rows at BEGIN]
  part,      \* [Proc -> the table a load is building]
  size,      \* [Proc -> the length of the WAL when its append began]
  epoch,     \* ghost: how often the base file was replaced
  numbering, \* [Proc -> ghost: the epoch its row numbers come from, or -1]
  used,      \* ghost: the values written so far
  acked,     \* ghost: the values acknowledged commits promise to a reader
  unsure,    \* ghost: values whose commit was interrupted, or was replacing them
  halves     \* ghost: what each interrupted commit was writing

disk  == <<base, wal, gen, epoch>>
lock  == <<shared, excl>>
copy  == <<loaded, mem, mgen, touched, saved, numbering>>
local == <<part, size>>
ghost == <<used, acked, unsure, halves>>
vars  == <<disk, lock, copy, local, pc, ghost>>

-----------------------------------------------------------------------------
(* Reading the files.                                                      *)

\* The indices of the frames wal_replay applies: those before the first tear.
Good(w) == {i \in 2..Len(w) : \A j \in 2..i : w[j] # Torn}

OfRow(w, r) == {i \in Good(w) : w[i].row = r}

\* How many rows a reader gets: a row number past the base file's grows it.
LastRow(b, w) == Max({Len(b)} \cup {w[i].row : i \in Good(w)})

\* wal_replay: a row is what its last frame says, else what the base file
\* says; a row number past both was appended blank to reach a later one.
\* Without a whole header nothing is applied.
Replay(b, w) ==
  IF w = <<>> \/ w[1] # Header THEN b
  ELSE [r \in 1..LastRow(b, w) |->
          IF OfRow(w, r) # {} THEN w[Max(OfRow(w, r))].val
          ELSE IF r <= Len(b) THEN b[r] ELSE Blank]

LiveRows(m) == {r \in 1..Len(m) : m[r] # Dead}

Shown(m) == {m[r] : r \in LiveRows(m)}

\* table_compact, and what dump_csv writes: the live rows, in order.
Compacted(m) ==
  LET live[n \in 0..Len(m)] ==
        IF n = 0 THEN <<>>
        ELSE IF m[n] = Dead THEN live[n - 1] ELSE Append(live[n - 1], m[n])
  IN  live[Len(m)]

\* A file without a data row cannot be loaded (load.c: "has no data rows").
Loadable == base # <<>>

-----------------------------------------------------------------------------
Init ==
  /\ base = Start /\ wal = <<>> /\ gen = 0 /\ epoch = 0
  /\ shared = {} /\ excl = Nobody
  /\ pc = [p \in Proc |-> "idle"]
  /\ loaded = [p \in Proc |-> FALSE]
  /\ mem = [p \in Proc |-> <<>>] /\ saved = mem /\ part = mem
  /\ mgen = [p \in Proc |-> 0] /\ size = mgen
  /\ touched = [p \in Proc |-> <<>>]
  /\ numbering = [p \in Proc |-> -1]
  /\ used = Shown(Start) /\ acked = used
  /\ unsure = {} /\ halves = {}

Idle(p) == pc[p] = "idle"

Goto(p, l) == pc' = [pc EXCEPT ![p] = l]

\* Fault: the lock is granted while readers hold it.
LockOverReaders(p) ==
  /\ excl = Nobody
  /\ excl' = p /\ UNCHANGED shared

\* db4_lock_exclusive returns.
LockExclusive(p) ==
  /\ shared = {} /\ excl = Nobody
  /\ excl' = p /\ UNCHANGED shared

\* The call gives its lock back and returns; its locals are gone.
Unlock(p) == /\ excl' = (IF excl = p THEN Nobody ELSE excl)
             /\ shared' = shared \ {p}
             /\ Goto(p, "idle")
             /\ size' = [size EXCEPT ![p] = 0]
             /\ part' = [part EXCEPT ![p] = <<>>]

\* The transaction is over: nothing to undo, nothing to make durable.
EndTxn(p) == /\ touched' = [touched EXCEPT ![p] = <<>>]
             /\ saved' = [saved EXCEPT ![p] = <<>>]

-----------------------------------------------------------------------------
(* Statements, on the process's own copy.                                  *)

InTxn(p) == touched[p] # <<>>

Touches(p, r) ==
  IF \E i \in DOMAIN touched[p] : touched[p][i] = r
  THEN UNCHANGED touched
  ELSE /\ Len(touched[p]) < MaxTxn
       /\ touched' = [touched EXCEPT ![p] = Append(@, r)]

Remembers(p) == saved' = IF InTxn(p) THEN saved ELSE [saved EXCEPT ![p] = mem[p]]

Statement(p, op) ==
  /\ Idle(p) /\ loaded[p] /\ p \in Writers /\ op \in Ops
  /\ UNCHANGED <<disk, lock, local, pc, loaded, mgen, numbering, acked, unsure, halves>>

Insert(p, v) ==
  /\ Statement(p, "insert")
  /\ v \notin used /\ Len(mem[p]) < MaxRow
  /\ mem' = [mem EXCEPT ![p] = Append(@, v)]
  /\ Touches(p, Len(mem[p]) + 1)
  /\ Remembers(p)
  /\ used' = used \cup {v}

\* An INSERT that fails leaves a tombstone no commit will log.
Reject(p) ==
  /\ Statement(p, "reject")
  /\ Len(mem[p]) < MaxRow
  /\ mem' = [mem EXCEPT ![p] = Append(@, Dead)]
  /\ UNCHANGED <<touched, saved, used>>

Update(p, r, v) ==
  /\ Statement(p, "update")
  /\ r \in LiveRows(mem[p]) /\ v \notin used
  /\ mem' = [mem EXCEPT ![p][r] = v]
  /\ Touches(p, r)
  /\ Remembers(p)
  /\ used' = used \cup {v}

Delete(p, r) ==
  /\ Statement(p, "delete")
  /\ r \in LiveRows(mem[p])
  /\ mem' = [mem EXCEPT ![p][r] = Dead]
  /\ Touches(p, r)
  /\ Remembers(p)
  /\ UNCHANGED used

\* Fault: the undo log is dropped, not played back.
RollbackKeepsRows(p) ==
  /\ Statement(p, "rollback")
  /\ InTxn(p)
  /\ EndTxn(p)
  /\ UNCHANGED <<mem, used>>

Rollback(p) ==
  /\ Statement(p, "rollback")
  /\ InTxn(p)
  /\ mem' = [mem EXCEPT ![p] = [r \in DOMAIN @ |->
                IF r <= Len(saved[p]) THEN saved[p][r] ELSE Dead]]
  /\ EndTxn(p)
  /\ UNCHANGED used

-----------------------------------------------------------------------------
(* Commit: commit_wal_for_table under the exclusive lock.                  *)

CommitLock(p) ==
  /\ Idle(p) /\ InTxn(p)
  /\ LockExclusive(p)
  /\ Goto(p, "check")
  /\ UNCHANGED <<disk, copy, local, ghost>>

\* Fault: any process that loaded the table may append to its WAL.
CheckNothing(p) ==
  /\ pc[p] = "check"
  /\ size' = [size EXCEPT ![p] = Len(wal)]
  /\ Goto(p, "append") /\ UNCHANGED <<lock, part>>
  /\ UNCHANGED <<disk, copy, ghost>>

\* The base file was renumbered since this process loaded it: refused, with
\* the transaction still open.  Else the WAL is opened at its end.
CommitCheck(p) ==
  /\ pc[p] = "check"
  /\ \/ gen # mgen[p] /\ Unlock(p)
     \/ /\ gen = mgen[p]
        /\ size' = [size EXCEPT ![p] = Len(wal)]
        /\ Goto(p, "append") /\ UNCHANGED <<lock, part>>
  /\ UNCHANGED <<disk, copy, ghost>>

\* How many frames of the running commit are in the file.
Appended(p) == LET k == Len(wal) - size[p]
               IN  IF size[p] = 0 /\ k > 0 THEN k - 1 ELSE k

\* Fault: row numbers counted from one where the reader counts from zero.
NextFrameOffByOne(p) == LET r == touched[p][Appended(p) + 1]
                        IN  [row |-> r - 1, val |-> mem[p][r]]

\* The state of the row now, whatever the transaction did to it before.
NextFrame(p) == LET r == touched[p][Appended(p) + 1]
                IN  [row |-> r, val |-> mem[p][r]]

\* wal_append: the header of a fresh file, then a frame per row touched.
AppendItem(p) ==
  /\ pc[p] = "append"
  /\ IF wal = <<>> THEN wal' = <<Header>>
     ELSE /\ Appended(p) < Len(touched[p])
          /\ wal' = Append(wal, NextFrame(p))
  /\ UNCHANGED <<base, gen, epoch, lock, copy, local, pc, ghost>>

\* Fault: a failed append leaves what it wrote in the file.
AppendFailsUntruncated(p) ==
  /\ "append" \in Faults /\ pc[p] = "append"
  /\ wal' = Append(wal, Torn)
  /\ Unlock(p)
  /\ UNCHANGED <<base, gen, epoch, copy, ghost>>

\* Fault: a failed append returns without giving the lock back.
AppendFailsLocked(p) ==
  /\ "append" \in Faults /\ pc[p] = "append"
  /\ wal' = SubSeq(wal, 1, size[p])
  /\ Goto(p, "idle")
  /\ UNCHANGED <<base, gen, epoch, lock, local, copy, ghost>>

\* A write or the fsync failed: the file is cut back to where it was.
AppendFails(p) ==
  /\ "append" \in Faults /\ pc[p] = "append"
  /\ wal' = SubSeq(wal, 1, size[p])
  /\ Unlock(p)
  /\ UNCHANGED <<base, gen, epoch, copy, ghost>>

\* The values a commit writes, and those it replaces.
Writes(p)   == {mem[p][touched[p][i]] : i \in DOMAIN touched[p]} \cap Val
Replaces(p) == {saved[p][r] : r \in {touched[p][i] : i \in DOMAIN touched[p]}
                                     \cap DOMAIN saved[p]} \cap Val

\* Flushed and synced: the commit succeeds.
CommitDone(p) ==
  /\ pc[p] = "append" /\ wal # <<>> /\ Appended(p) = Len(touched[p])
  /\ acked'  = (acked \ Replaces(p)) \cup Writes(p)
  /\ unsure' = unsure \ Replaces(p)
  /\ halves' = {h \ Replaces(p) : h \in halves}
  /\ EndTxn(p)
  /\ Unlock(p)
  /\ UNCHANGED <<disk, loaded, mem, mgen, numbering, used>>

-----------------------------------------------------------------------------
(* Checkpoint: wal_checkpoint under the exclusive lock.                    *)

\* table_compact renumbers the process's copy before anything is written.
CheckpointLock(p) ==
  /\ "checkpoint" \in Ops /\ p \in Writers
  /\ epoch < MaxGen                            \* bound
  /\ Idle(p) /\ loaded[p] /\ ~InTxn(p)
  /\ LockExclusive(p)
  /\ mem' = [mem EXCEPT ![p] = Compacted(@)]
  /\ numbering' = [numbering EXCEPT ![p] = IF mem[p] = Compacted(mem[p]) THEN @ ELSE -1]
  /\ Goto(p, "dump")
  /\ UNCHANGED <<disk, local, loaded, mgen, touched, saved, ghost>>

\* dump_csv: a temporary file, synced and renamed over the base file.
Dump(p) ==
  /\ pc[p] = "dump"
  /\ base' = mem[p] /\ epoch' = epoch + 1
  /\ numbering' = [numbering EXCEPT ![p] = epoch']
  /\ Goto(p, "remove")
  /\ UNCHANGED <<wal, gen, lock, local, loaded, mem, mgen, touched, saved, ghost>>

RemoveWal(p) ==
  /\ pc[p] = "remove"
  /\ wal' = <<>>
  /\ Goto(p, "stamp")
  /\ UNCHANGED <<base, gen, epoch, lock, copy, local, ghost>>

Stamp(p) ==
  /\ pc[p] = "stamp"
  /\ gen' = gen + 1
  /\ mgen' = [mgen EXCEPT ![p] = gen']
  /\ Unlock(p)
  /\ UNCHANGED <<base, wal, epoch, loaded, mem, touched, saved, numbering, ghost>>

\* One of its steps failed; what was done before stays done.
CheckpointFails(p) ==
  /\ pc[p] \in {"dump", "remove", "stamp"}
  /\ (IF pc[p] = "dump" THEN "dump" ELSE "checkpoint") \in Faults
  /\ Unlock(p)
  /\ UNCHANGED <<disk, copy, ghost>>

-----------------------------------------------------------------------------
(* Load: load_csv under the shared lock.                                   *)

\* Fault: the table is read without waiting for a writer to finish.
LoadUnlocked(p) ==
  /\ Idle(p) /\ ~InTxn(p)
  /\ Goto(p, "load") /\ UNCHANGED lock
  /\ UNCHANGED <<disk, copy, local, ghost>>

\* Refused while a transaction is open.
LoadLock(p) ==
  /\ Idle(p) /\ ~InTxn(p)
  /\ excl = Nobody
  /\ shared' = shared \cup {p} /\ UNCHANGED excl
  /\ Goto(p, "load")
  /\ UNCHANGED <<disk, copy, local, ghost>>

\* The base file is read into a new table, or has nothing to read.
LoadBase(p) ==
  /\ pc[p] = "load"
  /\ \/ ~Loadable /\ Unlock(p)
     \/ /\ Loadable
        /\ part' = [part EXCEPT ![p] = base]
        /\ Goto(p, "replay") /\ UNCHANGED <<lock, size>>
  /\ UNCHANGED <<disk, copy, ghost>>

LoadWal(p) ==
  /\ pc[p] = "replay"
  /\ part' = [part EXCEPT ![p] = Replay(@, wal)]
  /\ Goto(p, "install") /\ UNCHANGED <<lock, size>>
  /\ UNCHANGED <<disk, copy, ghost>>

\* The generation is read, the table put in the catalog.
LoadDone(p) ==
  /\ pc[p] = "install"
  /\ mem' = [mem EXCEPT ![p] = part[p]]
  /\ mgen' = [mgen EXCEPT ![p] = gen]
  /\ loaded' = [loaded EXCEPT ![p] = TRUE]
  /\ numbering' = [numbering EXCEPT ![p] = epoch]
  /\ Unlock(p)
  /\ UNCHANGED <<disk, touched, saved, ghost>>

-----------------------------------------------------------------------------
\* The process dies: its memory and its locks are gone, a commit is cut off
\* where it stands, in the middle of an item if one was still to be written.
Crash(p) ==
  /\ (IF pc[p] \in {"dump", "remove", "stamp"} THEN "crash in checkpoint" ELSE "crash") \in Faults
  /\ loaded[p] \/ ~Idle(p)
  /\ Unlock(p)
  /\ loaded'  = [loaded EXCEPT ![p] = FALSE]
  /\ mem'     = [mem EXCEPT ![p] = <<>>]
  /\ mgen'    = [mgen EXCEPT ![p] = 0]
  /\ numbering' = [numbering EXCEPT ![p] = -1]
  /\ EndTxn(p)
  /\ \/ UNCHANGED wal
     \/ /\ "torn" \in Faults /\ pc[p] = "append"
        /\ wal = <<>> \/ Appended(p) < Len(touched[p])
        /\ wal' = Append(wal, Torn)
  /\ IF pc[p] = "append"
     THEN /\ acked'  = acked \ Replaces(p)
          /\ unsure' = unsure \cup Writes(p) \cup Replaces(p)
          /\ halves' = halves \cup {Writes(p)}
     ELSE UNCHANGED <<acked, unsure, halves>>
  /\ UNCHANGED <<base, gen, epoch, used>>

Next == \E p \in Proc :
  \/ Reject(p) \/ Rollback(p)
  \/ \E v \in Val : Insert(p, v) \/ \E r \in RowNum : Update(p, r, v)
  \/ \E r \in RowNum : Delete(p, r)
  \/ CommitLock(p) \/ CommitCheck(p) \/ AppendItem(p) \/ AppendFails(p) \/ CommitDone(p)
  \/ CheckpointLock(p) \/ Dump(p) \/ RemoveWal(p) \/ Stamp(p) \/ CheckpointFails(p)
  \/ LoadLock(p) \/ LoadBase(p) \/ LoadWal(p) \/ LoadDone(p)
  \/ Crash(p)

Spec == Init /\ [][Next]_vars

\* A call that holds a lock never waits for anything else.
FairSpec == Spec /\ \A p \in Proc :
  WF_vars(\/ CommitCheck(p) \/ AppendItem(p) \/ CommitDone(p)
          \/ Dump(p) \/ RemoveWal(p) \/ Stamp(p)
          \/ LoadBase(p) \/ LoadWal(p) \/ LoadDone(p))

-----------------------------------------------------------------------------
(* Properties.                                                             *)

Items == Frame \cup {Header, Torn}

Places == {"idle", "check", "append", "dump", "remove", "stamp", "load", "replay", "install"}

TypeOK ==
  /\ base \in Content /\ wal \in Seq(Items) /\ gen \in 0..MaxGen /\ epoch \in Nat
  /\ shared \subseteq Proc /\ excl \in Proc \cup {Nobody}
  /\ pc \in [Proc -> Places] /\ loaded \in [Proc -> BOOLEAN]
  /\ \A p \in Proc : mem[p] \in Content /\ saved[p] \in Content /\ part[p] \in Content
  /\ mgen \in [Proc -> 0..MaxGen] /\ size \in [Proc -> Nat]
  /\ touched \in [Proc -> Seq(RowNum)] /\ numbering \in [Proc -> Nat \cup {-1}]
  /\ used \subseteq Val /\ acked \subseteq used /\ unsure \subseteq used

\* A process that may write has the lock to itself, and readers keep it from
\* the files (lock.h).
MutualExclusion ==
  /\ excl # Nobody => shared = {}
  /\ \A p \in Proc :
       /\ pc[p] \in {"check", "append", "dump", "remove", "stamp"} <=> excl = p
       /\ pc[p] \in {"load", "replay", "install"} <=> p \in shared

\* What a reader who loads the table now would see.
Readable == Shown(Replay(base, wal))

Quiet == excl = Nobody /\ Loadable

\* Whatever an acknowledged commit wrote and no later one replaced is there
\* for the next reader, across checkpoints, crashes and failed commits.
NothingLost == Quiet => acked \subseteq Readable

\* The next reader sees no rolled back, replaced or never committed value; of
\* a commit that was interrupted he may see some.
NothingExtra == Quiet => Readable \subseteq acked \cup unsure \cup {Blank}

\* A reader sees only rows that somebody wrote.
NoBlankRow == Quiet => Blank \notin Readable

\* An interrupted commit is there as a whole or not at all.
CommitIsAtomic ==
  Quiet => \A h \in halves : h \subseteq Readable \/ h \cap Readable = {}

\* A load ends with what the files say at that moment: whole commits only, of
\* one generation, although it reads the files one after the other.
LoadIsSnapshot ==
  \A p \in Proc : pc[p] = "install" =>
    /\ part[p] = Replay(base, wal)
    /\ excl = Nobody

\* A frame goes to the WAL under a row number of the base file it belongs to.
NoStaleFrame == \A p \in Proc : pc[p] = "append" => numbering[p] = epoch

\* A table that was checkpointed can be loaded again.
StaysLoadable == excl = Nobody => Loadable

\* Every lock taken is given back, on the failing paths too.
LocksReleased ==
  \A p \in Proc : excl = p \/ p \in shared ~> excl # p /\ p \notin shared
=============================================================================
