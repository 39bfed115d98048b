------------------------------ MODULE ScanCache ------------------------------
(***************************************************************************)
(* The disk-backed memo of file probes (_scancache.py): a table in memory  *)
(* in front of a SQLite database that other processes use too, filled in   *)
(* batches.  Threads of several processes probe files that grow, while     *)
(* processes exit or are killed and the database may be locked.            *)
(*                                                                         *)
(* A file's version stands for its (mtime_ns, size), and the value of a    *)
(* probe is the version it read.  One kind of probe is modelled, as kinds  *)
(* share nothing but the batch; so is only the table of file probes, as    *)
(* the one of get_static and put_static is the same without versions.      *)
(* Opening the database (_connect) is one step, and a file that is missing *)
(* is left out: its probe runs, and nothing is kept.                       *)
(*                                                                         *)
(* The database is in WAL mode: reading never waits, one connection writes *)
(* at a time, and a transaction that has read an older state than the last *)
(* commit can no longer write.                                             *)
(*                                                                         *)
(* A definition named Bug... is the one after it with a plausible mistake. *)
(* Nothing uses it: it is there to try the properties on.                  *)
(***************************************************************************)
EXTENDS Naturals, Sequences, FiniteSets

CONSTANTS Procs, Workers,   \* processes, and their threads
          Layouts,          \* [Workers -> Procs]: which thread may be whose
          Keys,             \* paths
          NoEntry, NoWorker,
          FlushEvery,       \* _FLUSH_EVERY
          MaxVersion        \* bound: versions of a file

ASSUME LayoutsAssumption == Layouts \subseteq [Workers -> Procs]
ASSUME KeysAssumption == Keys # {}
ASSUME NumbersAssumption == FlushEvery \in Nat /\ MaxVersion \in Nat
ASSUME MarksAssumption ==
  /\ NoWorker \notin Workers
  /\ NoEntry \notin [tag : 0..MaxVersion, value : 0..MaxVersion]
  /\ NoEntry \notin [file : Keys, since : 0..MaxVersion]

VARIABLES
  procOf,     \* [Workers -> the process each is a thread of]
  version,    \* [Keys -> version of the file]
  mem,        \* _mem: [Procs -> [Keys -> an entry, or NoEntry]]
  pending,    \* _pending: [Procs -> <<[key, entry], ...>>]
  preloaded,  \* _preloaded: [Procs -> whether it has the kind]
  conn,       \* _conn and _conn_failed: [Procs -> "none", "open" or "failed"]
  dbLock,     \* _db_lock: [Procs -> the worker holding it, or NoWorker]
  db,         \* the rows committed: [Keys -> an entry, or NoEntry]
  txn,        \* [Procs -> its connection's transaction: "none", begun, reading, writing]
  view,       \* [Procs -> the rows as its transaction sees them]
  behind,     \* [Procs -> whether others have committed since its transaction read]
  pc, job,    \* [Workers -> where its call is], [Workers -> locals of its call]
  reply       \* history: what the call that made this step returned or wrote

vars == <<procOf, version, mem, pending, preloaded, conn, dbLock, db, txn, view, behind, pc,
          job, reply>>
memory == <<mem, pending, preloaded>>
database == <<conn, dbLock, db, txn, view, behind>>

Versions == 0..MaxVersion
Entries == [tag : Versions, value : Versions]
NoRows == [k \in Keys |-> NoEntry]
NoJob == [call |-> "none", key |-> CHOOSE k \in Keys : TRUE, tag |-> 0, value |-> 0,
          batch |-> <<>>, rows |-> NoRows]
NoReply == [by |-> "none", began |-> 0, value |-> 0, free |-> FALSE]

Init ==
  /\ procOf \in Layouts
  /\ version = [k \in Keys |-> 0]
  /\ mem = [p \in Procs |-> NoRows]
  /\ pending = [p \in Procs |-> <<>>]
  /\ preloaded = [p \in Procs |-> FALSE]
  /\ conn = [p \in Procs |-> "none"]
  /\ dbLock = [p \in Procs |-> NoWorker]
  /\ db = NoRows
  /\ txn = [p \in Procs |-> "none"]
  /\ view = [p \in Procs |-> NoRows]
  /\ behind = [p \in Procs |-> FALSE]
  /\ pc = [w \in Workers |-> "idle"]
  /\ job = [w \in Workers |-> NoJob]
  /\ reply = NoReply

-----------------------------------------------------------------------------
(* memo *)

Goto(w, label) == pc' = [pc EXCEPT ![w] = label]
Set(w, field, x) == job' = [job EXCEPT ![w] = [job[w] EXCEPT ![field] = x]]
Silent == reply' = NoReply

(* The call returns.                                                       *)
Return(w, value) ==
  /\ Goto(w, "idle")
  /\ job' = [job EXCEPT ![w] = NoJob]
  /\ reply' = IF job[w].call = "memo"
              THEN [NoReply EXCEPT !.by = "memo", !.began = job[w].tag, !.value = value]
              ELSE NoReply

(* stat: the entry that may be used, and the one that will be stored, are  *)
(* the ones of this version.                                               *)
Memo(w, k) ==
  /\ pc[w] = "idle"
  /\ job' = [job EXCEPT ![w] = [NoJob EXCEPT !.call = "memo", !.key = k, !.tag = version[k]]]
  /\ Goto(w, "mem")
  /\ Silent
  /\ UNCHANGED <<procOf, version, memory, database>>

Valid(entry, tag) == entry # NoEntry /\ entry.tag = tag

CheckMem(w) ==
  LET hit == mem[procOf[w]][job[w].key] IN
  /\ pc[w] = "mem"
  /\ \/ Valid(hit, job[w].tag) /\ Return(w, hit.value)
     \/ ~Valid(hit, job[w].tag) /\ Goto(w, "load") /\ Silent /\ UNCHANGED job
  /\ UNCHANGED <<procOf, version, memory, database>>

(* _connect, once: a failure is remembered.                                *)
Connect(w) ==
  /\ pc[w] \in {"load", "rows", "insert"}
  /\ conn[procOf[w]] = "none"
  /\ \E outcome \in {"open", "failed"} : conn' = [conn EXCEPT ![procOf[w]] = outcome]
  /\ Silent
  /\ UNCHANGED <<procOf, version, memory, dbLock, db, txn, view, behind, pc, job>>

(* What a SELECT reads.  In a transaction that has not read yet, it fixes  *)
(* what the transaction sees from then on.                                 *)
Rows(p) == IF txn[p] \in {"reading", "writing"} THEN view[p] ELSE db

Select(p) ==
  /\ conn[p] = "open" /\ dbLock[p] = NoWorker
  /\ txn' = IF txn[p] = "begun" THEN [txn EXCEPT ![p] = "reading"] ELSE txn
  /\ view' = IF txn[p] = "begun" THEN [view EXCEPT ![p] = db] ELSE view
  /\ UNCHANGED <<conn, dbLock, db, behind>>

Load(w) ==
  LET row == Rows(procOf[w])[job[w].key] IN
  /\ pc[w] = "load"
  /\ Select(procOf[w])
  /\ \/ Valid(row, job[w].tag) /\ Set(w, "value", row.value) /\ Goto(w, "loaded")
     \/ ~Valid(row, job[w].tag) /\ Goto(w, "compute") /\ UNCHANGED job
  /\ Silent
  /\ UNCHANGED <<procOf, version, memory>>

(* No connection, or sqlite3.Error.                                        *)
LoadFails(w) ==
  /\ pc[w] = "load"
  /\ conn[procOf[w]] = "failed" \/ (conn[procOf[w]] = "open" /\ dbLock[procOf[w]] = NoWorker)
  /\ Goto(w, "compute")
  /\ Silent
  /\ UNCHANGED <<procOf, version, memory, database, job>>

BugEntryTaggedAfter(w) == [tag |-> version[job[w].key], value |-> job[w].value]

(* What is kept of a probe: its value, under the version stat saw before.  *)
Entry(w) == [tag |-> job[w].tag, value |-> job[w].value]

Loaded(w) ==
  /\ pc[w] = "loaded"
  /\ mem' = [mem EXCEPT ![procOf[w]] =
       [mem[procOf[w]] EXCEPT ![job[w].key] = Entry(w)]]
  /\ Return(w, job[w].value)
  /\ UNCHANGED <<procOf, version, pending, preloaded, database>>

Compute(w) ==
  /\ pc[w] = "compute"
  /\ Set(w, "value", version[job[w].key])
  /\ Goto(w, "put")
  /\ Silent
  /\ UNCHANGED <<procOf, version, memory, database>>

Put(w) ==
  LET p == procOf[w]
      batch == Append(pending[p], [key |-> job[w].key, entry |-> Entry(w)])
  IN
  /\ pc[w] = "put"
  /\ mem' = [mem EXCEPT ![p] = [mem[p] EXCEPT ![job[w].key] = Entry(w)]]
  /\ pending' = [pending EXCEPT ![p] = batch]
  /\ \/ Len(batch) >= FlushEvery /\ Goto(w, "take") /\ Silent /\ UNCHANGED job
     \/ Len(batch) < FlushEvery /\ Return(w, job[w].value)
  /\ UNCHANGED <<procOf, version, preloaded, database>>

-----------------------------------------------------------------------------
(* flush *)

Take(w) ==
  LET p == procOf[w] IN
  /\ pc[w] = "take"
  /\ pending' = [pending EXCEPT ![p] = <<>>]
  /\ \/ pending[p] = <<>> /\ Goto(w, "flushed") /\ UNCHANGED job
     \/ pending[p] # <<>> /\ Set(w, "batch", pending[p]) /\ Goto(w, "insert")
  /\ Silent
  /\ UNCHANGED <<procOf, version, mem, preloaded, database>>

(* INSERT OR REPLACE of the batch, in its order.                           *)
Replaced(rows, batch) ==
  [k \in Keys |->
     LET mine == {i \in DOMAIN batch : batch[i].key = k} IN
     IF mine = {} THEN rows[k]
     ELSE batch[CHOOSE i \in mine : \A j \in mine : j <= i].entry]

BugWritable(p) == ~behind[p]

Writable(p) == ~behind[p] /\ \A q \in Procs \ {p} : txn[q] # "writing"

Insert(w) ==
  LET p == procOf[w] IN
  /\ pc[w] = "insert"
  /\ conn[p] = "open" /\ dbLock[p] = NoWorker /\ Writable(p)
  /\ dbLock' = [dbLock EXCEPT ![p] = w]
  /\ txn' = [txn EXCEPT ![p] = "writing"]
  /\ view' = [view EXCEPT ![p] = Replaced(Rows(p), job[w].batch)]
  /\ Goto(w, "commit")
  /\ Silent
  /\ UNCHANGED <<procOf, version, memory, conn, db, behind, job>>

Commit(w) ==
  LET p == procOf[w] IN
  /\ pc[w] = "commit"
  /\ db' = view[p]
  /\ txn' = [txn EXCEPT ![p] = "none"]
  /\ view' = [view EXCEPT ![p] = NoRows]
  /\ behind' = [q \in Procs |-> behind[q] \/ txn[q] = "reading"]
  /\ dbLock' = [dbLock EXCEPT ![p] = NoWorker]
  /\ Goto(w, "flushed")
  /\ Silent
  /\ UNCHANGED <<procOf, version, memory, conn, job>>

(* sqlite3.OperationalError: the lock timed out, or the transaction is     *)
(* behind.  The BEGIN that preceded the INSERT stays; the batch does not.  *)
BugBusyKeepsLock(w) == dbLock' = [dbLock EXCEPT ![procOf[w]] = w]

Unlock(w) == UNCHANGED dbLock

Busy(w) ==
  LET p == procOf[w] IN
  /\ pc[w] = "insert"
  /\ conn[p] = "open" /\ dbLock[p] = NoWorker /\ ~Writable(p)
  /\ txn' = IF txn[p] = "none" THEN [txn EXCEPT ![p] = "begun"] ELSE txn
  /\ Unlock(w)
  /\ Goto(w, "flushed")
  /\ reply' = [NoReply EXCEPT !.by = "flush", !.free = \A q \in Procs : txn[q] # "writing"]
  /\ UNCHANGED <<procOf, version, memory, conn, db, view, behind, job>>

Unconnected(w) ==
  /\ pc[w] = "insert" /\ conn[procOf[w]] = "failed"
  /\ Goto(w, "flushed")
  /\ Silent
  /\ UNCHANGED <<procOf, version, memory, database, job>>

(* The process is gone, and its connection with it.                        *)
Gone(p) ==
  /\ mem' = [mem EXCEPT ![p] = NoRows]
  /\ pending' = [pending EXCEPT ![p] = <<>>]
  /\ preloaded' = [preloaded EXCEPT ![p] = FALSE]
  /\ conn' = [conn EXCEPT ![p] = "none"]
  /\ dbLock' = [dbLock EXCEPT ![p] = NoWorker]
  /\ txn' = [txn EXCEPT ![p] = "none"]
  /\ view' = [view EXCEPT ![p] = NoRows]
  /\ behind' = [behind EXCEPT ![p] = FALSE]
  /\ pc' = [w \in Workers |-> IF procOf[w] = p THEN "idle" ELSE pc[w]]
  /\ job' = [w \in Workers |-> IF procOf[w] = p THEN NoJob ELSE job[w]]
  /\ Silent
  /\ UNCHANGED <<procOf, version, db>>

Flushed(w) ==
  /\ pc[w] = "flushed"
  /\ \/ job[w].call = "memo" /\ Return(w, job[w].value)
        /\ UNCHANGED <<procOf, version, memory, database>>
     \/ job[w].call = "exit" /\ Gone(procOf[w])

-----------------------------------------------------------------------------
(* preload, at the start of a scan *)

Preload(w) ==
  /\ pc[w] = "idle" /\ ~preloaded[procOf[w]]
  /\ job' = [job EXCEPT ![w] = [NoJob EXCEPT !.call = "preload"]]
  /\ Goto(w, "rows")
  /\ Silent
  /\ UNCHANGED <<procOf, version, memory, database>>

PreloadRows(w) ==
  /\ pc[w] = "rows"
  /\ \/ /\ Select(procOf[w])
        /\ Set(w, "rows", Rows(procOf[w]))
        /\ Goto(w, "merge")
        /\ Silent
     \/ /\ conn[procOf[w]] \in {"open", "failed"} /\ dbLock[procOf[w]] = NoWorker
        /\ Return(w, 0)
        /\ UNCHANGED database
  /\ UNCHANGED <<procOf, version, memory>>

(* setdefault: what was probed meanwhile stays.                            *)
Merge(w) ==
  LET p == procOf[w] IN
  /\ pc[w] = "merge"
  /\ mem' = [mem EXCEPT ![p] =
       [k \in Keys |-> IF mem[p][k] = NoEntry THEN job[w].rows[k] ELSE mem[p][k]]]
  /\ preloaded' = [preloaded EXCEPT ![p] = TRUE]
  /\ Return(w, 0)
  /\ UNCHANGED <<procOf, version, pending, database>>

-----------------------------------------------------------------------------
(* The environment *)

(* The interpreter exits: atexit runs flush once the calls are over.       *)
Exit(w) ==
  /\ \A v \in Workers : procOf[v] = procOf[w] => pc[v] = "idle"
  /\ job' = [job EXCEPT ![w] = [NoJob EXCEPT !.call = "exit"]]
  /\ Goto(w, "take")
  /\ Silent
  /\ UNCHANGED <<procOf, version, memory, database>>

Kill(p) == Gone(p)

Grow(k) ==
  /\ version[k] < MaxVersion
  /\ version' = [version EXCEPT ![k] = version[k] + 1]
  /\ Silent
  /\ UNCHANGED <<procOf, memory, database, pc, job>>

Step(w) ==
  \/ CheckMem(w) \/ Connect(w) \/ Load(w) \/ LoadFails(w) \/ Loaded(w) \/ Compute(w) \/ Put(w)
  \/ Take(w) \/ Insert(w) \/ Commit(w) \/ Busy(w) \/ Unconnected(w) \/ Flushed(w)
  \/ PreloadRows(w) \/ Merge(w)

Next ==
  \/ \E w \in Workers : Step(w) \/ Preload(w) \/ Exit(w)
  \/ \E w \in Workers, k \in Keys : Memo(w, k)
  \/ \E p \in Procs : Kill(p)
  \/ \E k \in Keys : Grow(k)

(* Started threads run.                                                    *)
Fairness == \A w \in Workers : WF_vars(Step(w))

Spec == Init /\ [][Next]_vars
FairSpec == Spec /\ Fairness

-----------------------------------------------------------------------------
(* Properties *)

Labels == {"idle", "mem", "load", "loaded", "compute", "put", "take", "insert", "commit",
           "flushed", "rows", "merge"}
Batches == Seq([key : Keys, entry : Entries])
Tables == [Keys -> Entries \cup {NoEntry}]
Jobs == [call : {"none", "memo", "preload", "exit"}, key : Keys, tag : Versions,
         value : Versions, batch : Batches, rows : Tables]
Replies == [by : {"none", "memo", "flush"}, began : Versions, value : Versions,
            free : BOOLEAN]

(* The variables have their types; one connection writes at a time, and a  *)
(* thread that writes is the one that holds its process's _db_lock.        *)
TypeOK ==
  /\ procOf \in [Workers -> Procs]
  /\ version \in [Keys -> Versions]
  /\ mem \in [Procs -> Tables] /\ db \in Tables /\ view \in [Procs -> Tables]
  /\ pending \in [Procs -> Batches]
  /\ preloaded \in [Procs -> BOOLEAN] /\ behind \in [Procs -> BOOLEAN]
  /\ conn \in [Procs -> {"none", "open", "failed"}]
  /\ dbLock \in [Procs -> Workers \cup {NoWorker}]
  /\ txn \in [Procs -> {"none", "begun", "reading", "writing"}]
  /\ pc \in [Workers -> Labels] /\ job \in [Workers -> Jobs]
  /\ reply \in Replies
  /\ \A w \in Workers : pc[w] = "commit" <=>
       txn[procOf[w]] = "writing" /\ dbLock[procOf[w]] = w
  /\ \A p, q \in Procs : txn[p] = "writing" /\ txn[q] = "writing" => p = q

(* Through memory, batches, the database, other processes and restarts, a  *)
(* call returns what the probe gives on the file as it was when the call   *)
(* looked at it or later: "a changed file is re-probed" (memo).            *)
MemoIsFresh == reply.by = "memo" => reply.value >= reply.began

(* The memo answers as a probe of the file at a moment of the call would:  *)
(* neither from before the call nor of contents the file never had, and    *)
(* once for each call, unless its process ends.                            *)
Asked ==
  [w \in Workers |-> IF job[w].call = "memo" THEN [file |-> job[w].key, since |-> job[w].tag]
                     ELSE NoEntry]
Answered ==
  IF reply.by = "memo" THEN [since |-> reply.began, value |-> reply.value] ELSE NoEntry
Promise == INSTANCE FreshReads
  WITH Readers <- Workers, Files <- Keys, Nothing <- NoEntry, asked <- Asked, answer <- Answered
ProbesAreFresh == Promise!Spec

(* A locked, failing or abandoned database costs only speed: every call    *)
(* that is not killed returns (memo, flush, preload).                      *)
CallsReturn == \A w \in Workers : pc[w] # "idle" ~> pc[w] = "idle"

(* "Write buffered probe results to the cache database": a flush is given  *)
(* up only while another connection is writing.                            *)
FlushWritesWhenItCan == reply.by = "flush" => ~reply.free
=============================================================================
