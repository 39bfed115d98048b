--------------------------- MODULE ScanCache_proofs ---------------------------
(* Proofs about ScanCache, for every set of processes, threads and files.   *)
EXTENDS ScanCache, SequenceTheorems, WellFoundedInduction, TLAPS

-----------------------------------------------------------------------------
(* The inductive invariant: every entry anywhere, in memory, in a batch, in *)
(* a transaction or committed, holds a value no older than its version.     *)

FreshEntries == {e \in Entries : e.tag <= e.value}
FreshTables == [Keys -> FreshEntries \cup {NoEntry}]
FreshRows == [key : Keys, entry : FreshEntries]
FreshBatches == Seq(FreshRows)
FreshJobs == [call : {"none", "memo", "preload", "exit"}, key : Keys, tag : Versions,
              value : Versions, batch : FreshBatches, rows : FreshTables]

Stored ==
  /\ mem \in [Procs -> FreshTables] /\ pending \in [Procs -> FreshBatches]
  /\ preloaded \in [Procs -> BOOLEAN]
  /\ conn \in [Procs -> {"none", "open", "failed"}]
  /\ db \in FreshTables /\ view \in [Procs -> FreshTables]
  /\ behind \in [Procs -> BOOLEAN]

(* Before the probe, the version looked at is at most the file's; after it,  *)
(* at most the value.                                                        *)
Before == {"mem", "load", "compute"}
After == {"loaded", "put", "take", "insert", "commit", "flushed"}

Sane(label, j) ==
  /\ label \in Before => j.tag <= version[j.key]
  /\ label \in After => j.tag <= j.value
  /\ label \in {"rows", "merge"} => j.call = "preload"

Calls ==
  /\ procOf \in [Workers -> Procs]
  /\ version \in [Keys -> Versions]
  /\ pc \in [Workers -> Labels]
  /\ job \in [Workers -> FreshJobs]
  /\ \A w \in Workers : Sane(pc[w], job[w])

Locks ==
  /\ dbLock \in [Procs -> Workers \cup {NoWorker}]
  /\ txn \in [Procs -> {"none", "begun", "reading", "writing"}]
  /\ \A w \in Workers : pc[w] = "commit" <=>
       txn[procOf[w]] = "writing" /\ dbLock[procOf[w]] = w
  /\ \A p, q \in Procs : txn[p] = "writing" /\ txn[q] = "writing" => p = q

Answers == reply \in Replies /\ MemoIsFresh

IInv == Stored /\ Calls /\ Locks /\ Answers

-----------------------------------------------------------------------------
(* Values *)

LEMMA Numbers == 0 \in Versions /\ Versions \subseteq Nat
BY NumbersAssumption DEF Versions

(* A set of numbers below a bound has a last one.                           *)
LEMMA LastOf ==
  ASSUME NEW n \in Nat, NEW S, S \subseteq 1..n, S # {}
  PROVE  \E i \in S : \A j \in S : j <= i
<1> DEFINE less == {pair \in Nat \X Nat : pair[1] < pair[2]}
           T == {n - i : i \in S}
<1>1. IsWellFoundedOn(less, Nat) BY NatLessThanWellFounded DEF OpToRel
<1>2. T \subseteq Nat /\ T # {}
  <2>1. \A i \in S : i \in Nat /\ i <= n OBVIOUS
  <2>2. \A i \in S : n - i \in Nat BY <2>1
  <2>3. QED BY <2>2
<1>3. PICK m \in T : \A k \in T : ~(<<k, m>> \in less)
  <2> HIDE DEF less, T
  <2>1. QED BY <1>1, <1>2, WFMin
<1>4. \A k \in T : m <= k
  <2>1. \A k \in T : k \in Nat BY <1>2
  <2>2. m \in Nat BY <1>2
  <2>3. \A k \in Nat : k < m => <<k, m>> \in less BY <2>2
  <2>4. SUFFICES ASSUME NEW k \in T PROVE m <= k
    OBVIOUS
  <2>5. k \in Nat BY <2>1
  <2>6. <<k, m>> \notin less BY <1>3
  <2>7. ~(k < m) BY <2>3, <2>5, <2>6
  <2>8. QED BY <2>2, <2>5, <2>7
<1>5. PICK i \in S : m = n - i BY <1>3
<1>6. \A j \in S : n - j \in T OBVIOUS
<1>7. \A j \in S : j <= i
  <2> HIDE DEF T
  <2>1. QED BY <1>4, <1>5, <1>6
<1>8. QED BY <1>7

LEMMA Blank == NoRows \in FreshTables /\ NoJob \in FreshJobs /\ NoReply \in Replies
<1>1. NoRows \in FreshTables BY DEF NoRows, FreshTables
<1>2. (CHOOSE k \in Keys : TRUE) \in Keys BY KeysAssumption
<1>3. <<>> \in FreshBatches BY DEF FreshBatches
<1>4. NoJob \in FreshJobs BY <1>1, <1>2, <1>3, Numbers DEF NoJob, FreshJobs
<1>5. NoReply \in Replies BY Numbers DEF NoReply, Replies
<1>6. QED BY <1>1, <1>4, <1>5

(* A valid entry answers a call as freshly as the call began.               *)
LEMMA ValidEntry ==
  ASSUME NEW t \in FreshTables, NEW k \in Keys, NEW tag \in Versions, Valid(t[k], tag)
  PROVE  t[k].value \in Versions /\ tag <= t[k].value
<1>1. t[k] \in FreshEntries BY DEF FreshTables, Valid
<1>2. QED BY <1>1 DEF FreshEntries, Entries, Valid

LEMMA EntryIsFresh ==
  ASSUME IInv, NEW w \in Workers, pc[w] \in After
  PROVE  Entry(w) \in FreshEntries
<1>1. job[w] \in FreshJobs BY DEF IInv, Calls
<1>2. job[w].tag <= job[w].value BY DEF IInv, Calls, Sane
<1>3. job[w].tag \in Versions /\ job[w].value \in Versions BY <1>1 DEF FreshJobs
<1>4. QED BY <1>2, <1>3 DEF Entry, FreshEntries, Entries

(* INSERT OR REPLACE keeps a table fresh.                                   *)
LEMMA ReplacedIsFresh ==
  ASSUME NEW t \in FreshTables, NEW b \in FreshBatches
  PROVE  Replaced(t, b) \in FreshTables
<1> SUFFICES ASSUME NEW k \in Keys
             PROVE  Replaced(t, b)[k] \in FreshEntries \cup {NoEntry}
  BY DEF Replaced, FreshTables
<1> DEFINE mine == {i \in DOMAIN b : b[i].key = k}
           last == CHOOSE i \in mine : \A j \in mine : j <= i
<1>1. CASE mine = {}
  BY <1>1 DEF Replaced, FreshTables
<1>2. CASE mine # {}
  <2>1. Len(b) \in Nat /\ DOMAIN b = 1..Len(b) BY DEF FreshBatches
  <2>2. \E i \in mine : \A j \in mine : j <= i
    <3>1. mine \subseteq 1..Len(b) BY <2>1
    <3>2. QED BY <1>2, <2>1, <3>1, LastOf
  <2>3. last \in DOMAIN b BY <2>2
  <2>4. b[last] \in FreshRows BY <2>1, <2>3 DEF FreshBatches
  <2>5. Replaced(t, b)[k] = b[last].entry BY <1>2 DEF Replaced
  <2>6. QED BY <2>4, <2>5 DEF FreshRows
<1>3. QED BY <1>1, <1>2

-----------------------------------------------------------------------------
(* Steps of one call *)

LEMMA InitInv == Init => IInv
<1> SUFFICES ASSUME Init PROVE IInv
  OBVIOUS
<1>1. Stored
  <2>1. <<>> \in FreshBatches BY DEF FreshBatches
  <2>2. QED BY <2>1, Blank DEF Init, Stored
<1>2. Calls
  <2>1. procOf \in [Workers -> Procs] BY LayoutsAssumption DEF Init
  <2>2. QED BY <2>1, Blank, Numbers DEF Init, Calls, Labels, Sane, Before, After
<1>3. Locks
  <2>1. \A w \in Workers : procOf[w] \in Procs BY <1>2 DEF Calls
  <2>2. \A p \in Procs : txn[p] = "none" BY DEF Init
  <2>3. \A w \in Workers : pc[w] = "idle" BY DEF Init
  <2>4. QED BY <2>1, <2>2, <2>3 DEF Init, Locks
<1>4. Answers BY Blank DEF Init, Answers, MemoIsFresh, NoReply
<1>5. QED BY <1>1, <1>2, <1>3, <1>4 DEF IInv

LEMMA SilentAnswers == Silent => Answers'
BY Blank DEF Silent, Answers, MemoIsFresh, NoReply

(* One call moves and has the locals j.                                     *)
LEMMA MoveCalls ==
  ASSUME IInv, NEW w \in Workers, NEW label \in Labels, NEW j \in FreshJobs,
         Goto(w, label), job' = [job EXCEPT ![w] = j],
         UNCHANGED <<procOf, version>>, Sane(label, j)
  PROVE  Calls'
<1>1. pc' \in [Workers -> Labels] BY DEF IInv, Calls, Goto
<1>2. job' \in [Workers -> FreshJobs] BY DEF IInv, Calls
<1>3. ASSUME NEW v \in Workers PROVE Sane(pc[v], job[v])'
  <2>1. CASE v = w
    <3>1. pc'[w] = label /\ job'[w] = j BY DEF IInv, Calls, Goto
    <3>2. QED BY <2>1, <3>1 DEF Sane
  <2>2. CASE v # w
    <3>1. pc'[v] = pc[v] /\ job'[v] = job[v] BY <2>2 DEF IInv, Calls, Goto
    <3>2. QED BY <3>1 DEF IInv, Calls, Sane
  <2>3. QED BY <2>1, <2>2
<1>4. QED BY <1>1, <1>2, <1>3 DEF IInv, Calls

LEMMA ReturnInv ==
  ASSUME IInv, NEW w \in Workers, NEW value \in Versions, Return(w, value),
         UNCHANGED <<procOf, version>>,
         job[w].call = "memo" => job[w].tag <= value
  PROVE  Calls' /\ Answers'
<1>1. Calls'
  <2>1. "idle" \in Labels BY DEF Labels
  <2>2. Sane("idle", NoJob) BY DEF Sane, Before, After
  <2>3. QED BY <2>1, <2>2, Blank, MoveCalls DEF Return
<1>2. Answers'
  <2>1. job[w].tag \in Versions BY DEF IInv, Calls, FreshJobs
  <2>2. CASE job[w].call = "memo"
    <3>1. reply' = [NoReply EXCEPT !.by = "memo", !.began = job[w].tag, !.value = value]
      BY <2>2 DEF Return
    <3>2. reply' \in Replies BY <2>1, <3>1, Blank DEF Replies
    <3>3. reply'.value = value /\ reply'.began = job[w].tag BY <3>1 DEF NoReply
    <3>4. QED BY <2>1, <2>2, <3>2, <3>3, Numbers DEF Answers, MemoIsFresh
  <2>3. CASE job[w].call # "memo"
    <3>1. Silent BY <2>3 DEF Return, Silent
    <3>2. QED BY <3>1, SilentAnswers
  <2>4. QED BY <2>2, <2>3
<1>3. QED BY <1>1, <1>2

(* A move that leaves the locks alone, neither into nor out of a commit.    *)
LEMMA MoveLocks ==
  ASSUME IInv, NEW w \in Workers, NEW label \in Labels \ {"commit"}, Goto(w, label),
         pc[w] # "commit", UNCHANGED <<procOf, dbLock, txn>>
  PROVE  Locks'
<1>1. \A v \in Workers : pc'[v] = "commit" <=> pc[v] = "commit"
  BY DEF IInv, Calls, Goto
<1>2. QED BY <1>1 DEF IInv, Locks

LEMMA ReturnLocks ==
  ASSUME IInv, NEW w \in Workers, NEW value, Return(w, value),
         pc[w] # "commit", UNCHANGED <<procOf, dbLock, txn>>
  PROVE  Locks'
<1>1. "idle" \in Labels \ {"commit"} BY DEF Labels
<1>2. QED BY <1>1, MoveLocks DEF Return

-----------------------------------------------------------------------------
(* memo *)

LEMMA CallFacts ==
  ASSUME IInv, NEW w \in Workers
  PROVE  /\ procOf[w] \in Procs /\ job[w] \in FreshJobs /\ pc[w] \in Labels
         /\ job[w].key \in Keys /\ job[w].tag \in Versions /\ job[w].value \in Versions
         /\ job[w].batch \in FreshBatches /\ job[w].rows \in FreshTables
         /\ Sane(pc[w], job[w])
BY DEF IInv, Calls, FreshJobs

LEMMA RowsFresh == ASSUME IInv, NEW p \in Procs PROVE Rows(p) \in FreshTables
BY DEF IInv, Stored, Rows

(* A SELECT moves a transaction, never one that writes.                     *)
LEMMA SelectInv ==
  ASSUME IInv, NEW p \in Procs, Select(p), NEW w \in Workers,
         NEW label \in Labels \ {"commit"}, Goto(w, label), pc[w] # "commit",
         UNCHANGED <<procOf, memory>>
  PROVE  Stored' /\ Locks'
<1>1. Stored' BY DEF IInv, Stored, Select, memory
<1>2. Locks'
  <2>1. \A v \in Workers : pc'[v] = "commit" <=> pc[v] = "commit"
    BY DEF IInv, Calls, Goto
  <2>2. dbLock' = dbLock /\ txn' \in [Procs -> {"none", "begun", "reading", "writing"}]
    BY DEF IInv, Locks, Select
  <2>3. \A q \in Procs : txn'[q] = "writing" <=> txn[q] = "writing"
    BY DEF IInv, Locks, Select
  <2>4. \A v \in Workers : procOf[v] \in Procs BY CallFacts
  <2>5. QED BY <2>1, <2>2, <2>3, <2>4 DEF IInv, Locks
<1>3. QED BY <1>1, <1>2

LEMMA MemoInv ==
  ASSUME IInv, NEW w \in Workers, NEW k \in Keys, Memo(w, k)
  PROVE  IInv'
<1> DEFINE j == [NoJob EXCEPT !.call = "memo", !.key = k, !.tag = version[k]]
<1>1. j \in FreshJobs BY Blank DEF IInv, Calls, FreshJobs
<1>2. j.tag <= version[j.key]
  <2>1. j.tag = version[k] /\ j.key = k BY DEF NoJob
  <2>2. version[k] \in Nat BY Numbers DEF IInv, Calls
  <2>3. QED BY <2>1, <2>2
<1>3. Sane("mem", j) /\ "mem" \in Labels \ {"commit"}
  BY <1>2 DEF Sane, Before, After, Labels
<1>4. Calls'
  <2> HIDE DEF j
  <2>1. job' = [job EXCEPT ![w] = j] BY DEF Memo, j
  <2>2. QED BY <1>1, <1>3, <2>1, MoveCalls DEF Memo
<1>5. Locks' BY <1>3, MoveLocks DEF Memo, database
<1>6. Stored' /\ Answers' BY SilentAnswers DEF IInv, Stored, Memo, memory, database
<1>7. QED BY <1>4, <1>5, <1>6 DEF IInv

LEMMA CheckMemInv ==
  ASSUME IInv, NEW w \in Workers, CheckMem(w)
  PROVE  IInv'
<1> DEFINE hit == mem[procOf[w]][job[w].key]
<1>1. Stored' BY DEF IInv, Stored, CheckMem, memory, database
<1>2. CASE Valid(hit, job[w].tag) /\ Return(w, hit.value)
  <2>1. mem[procOf[w]] \in FreshTables BY CallFacts DEF IInv, Stored
  <2>2. hit.value \in Versions /\ job[w].tag <= hit.value
    BY <1>2, <2>1, CallFacts, ValidEntry
  <2>3. Calls' /\ Answers' BY <1>2, <2>2, ReturnInv DEF CheckMem
  <2>4. Locks' BY <1>2, ReturnLocks DEF CheckMem, database
  <2>5. QED BY <1>1, <2>3, <2>4 DEF IInv
<1>3. CASE Goto(w, "load") /\ Silent /\ UNCHANGED job
  <2>1. job' = [job EXCEPT ![w] = job[w]] BY <1>3 DEF IInv, Calls
  <2>2. Sane("load", job[w]) /\ "load" \in Labels \ {"commit"}
    BY CallFacts DEF CheckMem, Sane, Before, After, Labels
  <2>3. Calls' BY <1>3, <2>1, <2>2, CallFacts, MoveCalls DEF CheckMem
  <2>4. Locks' BY <1>3, <2>2, MoveLocks DEF CheckMem, database
  <2>5. QED BY <1>1, <1>3, <2>3, <2>4, SilentAnswers DEF IInv
<1>4. QED BY <1>2, <1>3 DEF CheckMem

LEMMA ConnectInv ==
  ASSUME IInv, NEW w \in Workers, Connect(w)
  PROVE  IInv'
<1>1. PICK outcome \in {"open", "failed"} : conn' = [conn EXCEPT ![procOf[w]] = outcome]
  BY DEF Connect
<1>2. Stored' BY <1>1 DEF IInv, Stored, Connect, memory
<1>3. Calls' BY DEF IInv, Calls, Connect, Sane
<1>4. Locks' BY DEF IInv, Locks, Connect
<1>5. QED BY <1>2, <1>3, <1>4, SilentAnswers DEF IInv, Connect

LEMMA LoadInv ==
  ASSUME IInv, NEW w \in Workers, Load(w)
  PROVE  IInv'
<1> DEFINE row == Rows(procOf[w])[job[w].key]
<1>1. procOf[w] \in Procs /\ Select(procOf[w]) /\ pc[w] = "load" BY CallFacts DEF Load
<1>2. UNCHANGED <<procOf, version, memory>> /\ Answers' BY SilentAnswers DEF Load
<1>3. CASE Valid(row, job[w].tag) /\ Set(w, "value", row.value) /\ Goto(w, "loaded")
  <2> DEFINE j == [job[w] EXCEPT !.value = row.value]
  <2>1. row.value \in Versions /\ job[w].tag <= row.value
    BY <1>1, <1>3, CallFacts, RowsFresh, ValidEntry
  <2>2. j \in FreshJobs /\ j.value = row.value /\ j.tag = job[w].tag
    BY <2>1, CallFacts DEF FreshJobs
  <2>3. Sane("loaded", j) /\ "loaded" \in Labels \ {"commit"}
    BY <2>1, <2>2 DEF Sane, Before, After, Labels
  <2>4. job' = [job EXCEPT ![w] = j] BY <1>3 DEF Set
  <2> HIDE DEF j
  <2>5. Calls' BY <1>2, <1>3, <2>2, <2>3, <2>4, MoveCalls
  <2>6. Stored' /\ Locks' BY <1>1, <1>2, <1>3, <2>3, SelectInv
  <2>7. QED BY <1>2, <2>5, <2>6 DEF IInv
<1>4. CASE Goto(w, "compute") /\ UNCHANGED job
  <2>1. job' = [job EXCEPT ![w] = job[w]] BY <1>4 DEF IInv, Calls
  <2>2. Sane("compute", job[w]) /\ "compute" \in Labels \ {"commit"}
    BY <1>1, CallFacts DEF Sane, Before, After, Labels
  <2>3. Calls' BY <1>2, <1>4, <2>1, <2>2, CallFacts, MoveCalls
  <2>4. Stored' /\ Locks' BY <1>1, <1>2, <1>4, <2>2, SelectInv
  <2>5. QED BY <1>2, <2>3, <2>4 DEF IInv
<1>5. QED BY <1>3, <1>4 DEF Load

(* Moves that keep their locals and touch neither the tables nor the locks. *)
LEMMA PassInv ==
  ASSUME IInv, NEW w \in Workers, NEW label \in Labels \ {"commit"}, Goto(w, label),
         pc[w] # "commit", Sane(label, job[w]), Silent,
         UNCHANGED <<procOf, version, memory, database, job>>
  PROVE  IInv'
<1>1. job' = [job EXCEPT ![w] = job[w]] BY DEF IInv, Calls
<1>2. Calls' BY <1>1, CallFacts, MoveCalls
<1>3. Locks' BY MoveLocks DEF database
<1>4. Stored' BY DEF IInv, Stored, memory, database
<1>5. QED BY <1>2, <1>3, <1>4, SilentAnswers DEF IInv

LEMMA LoadFailsInv ==
  ASSUME IInv, NEW w \in Workers, LoadFails(w)
  PROVE  IInv'
<1>1. Sane("compute", job[w]) /\ "compute" \in Labels \ {"commit"}
  BY CallFacts DEF LoadFails, Sane, Before, After, Labels
<1>2. QED BY <1>1, PassInv DEF LoadFails

LEMMA MemEntry ==
  ASSUME IInv, NEW w \in Workers, pc[w] \in After
  PROVE  [mem EXCEPT ![procOf[w]] = [mem[procOf[w]] EXCEPT ![job[w].key] = Entry(w)]]
           \in [Procs -> FreshTables]
<1>1. Entry(w) \in FreshEntries BY EntryIsFresh
<1>2. mem[procOf[w]] \in FreshTables BY CallFacts DEF IInv, Stored
<1>3. [mem[procOf[w]] EXCEPT ![job[w].key] = Entry(w)] \in FreshTables
  BY <1>1, <1>2 DEF FreshTables
<1>4. QED BY <1>3 DEF IInv, Stored

LEMMA LoadedInv ==
  ASSUME IInv, NEW w \in Workers, Loaded(w)
  PROVE  IInv'
<1>1. pc[w] \in After /\ pc[w] # "commit" BY DEF Loaded, After
<1>2. Stored' BY <1>1, MemEntry DEF IInv, Stored, Loaded, database
<1>3. job[w].tag <= job[w].value BY <1>1, CallFacts DEF Sane
<1>4. Calls' /\ Answers' BY <1>3, CallFacts, ReturnInv DEF Loaded
<1>5. Locks' BY <1>1, ReturnLocks DEF Loaded, database
<1>6. QED BY <1>2, <1>4, <1>5 DEF IInv

LEMMA ComputeInv ==
  ASSUME IInv, NEW w \in Workers, Compute(w)
  PROVE  IInv'
<1> DEFINE j == [job[w] EXCEPT !.value = version[job[w].key]]
<1>1. version[job[w].key] \in Versions BY CallFacts DEF IInv, Calls
<1>2. j \in FreshJobs BY <1>1, CallFacts DEF FreshJobs
<1>3. j.tag = job[w].tag /\ j.value = version[job[w].key] BY CallFacts DEF FreshJobs
<1>4. job[w].tag <= version[job[w].key] BY CallFacts DEF Compute, Sane, Before
<1>5. Sane("put", j) /\ "put" \in Labels \ {"commit"}
  BY <1>3, <1>4 DEF Sane, Before, After, Labels
<1>6. job' = [job EXCEPT ![w] = j] BY DEF Compute, Set
<1> HIDE DEF j
<1>7. Calls' BY <1>2, <1>5, <1>6, MoveCalls DEF Compute
<1>8. Locks' BY <1>5, MoveLocks DEF Compute, database
<1>9. Stored' BY DEF IInv, Stored, Compute, memory, database
<1>10. QED BY <1>7, <1>8, <1>9, SilentAnswers DEF IInv, Compute

LEMMA PutInv ==
  ASSUME IInv, NEW w \in Workers, Put(w)
  PROVE  IInv'
<1> DEFINE p == procOf[w]
           row == [key |-> job[w].key, entry |-> Entry(w)]
           batch == Append(pending[p], row)
<1>1. pc[w] = "put" /\ pc[w] \in After BY DEF Put, After
<1>2. job[w].tag <= job[w].value BY <1>1, CallFacts DEF Sane
<1>3. row \in FreshRows BY <1>1, CallFacts, EntryIsFresh DEF FreshRows
<1>4. pending[p] \in FreshBatches BY CallFacts DEF IInv, Stored
<1>5. batch \in FreshBatches
  <2> HIDE DEF row
  <2>1. QED BY <1>3, <1>4 DEF FreshBatches
<1>6. mem' \in [Procs -> FreshTables] BY <1>1, MemEntry DEF Put
<1>7. pending' \in [Procs -> FreshBatches]
  <2>1. pending' = [pending EXCEPT ![p] = batch] BY DEF Put
  <2> HIDE DEF batch
  <2>2. QED BY <1>5, <2>1 DEF IInv, Stored
<1>8. Stored' BY <1>6, <1>7 DEF IInv, Stored, Put, database
<1>9. CASE Goto(w, "take") /\ Silent /\ UNCHANGED job
  <2>1. Sane("take", job[w]) /\ "take" \in Labels \ {"commit"}
    BY <1>2 DEF Sane, Before, After, Labels
  <2>2. job' = [job EXCEPT ![w] = job[w]] BY <1>9 DEF IInv, Calls
  <2>3. Calls' BY <1>9, <2>1, <2>2, CallFacts, MoveCalls DEF Put
  <2>4. Locks' BY <1>1, <1>9, <2>1, MoveLocks DEF Put, database
  <2>5. QED BY <1>8, <1>9, <2>3, <2>4, SilentAnswers DEF IInv
<1>10. CASE Return(w, job[w].value)
  <2>1. Calls' /\ Answers' BY <1>2, <1>10, CallFacts, ReturnInv DEF Put
  <2>2. Locks' BY <1>1, <1>10, ReturnLocks DEF Put, database
  <2>3. QED BY <1>8, <2>1, <2>2 DEF IInv
<1>11. QED BY <1>9, <1>10 DEF Put

-----------------------------------------------------------------------------
(* flush *)

LEMMA TakeInv ==
  ASSUME IInv, NEW w \in Workers, Take(w)
  PROVE  IInv'
<1>1. pc[w] = "take" /\ job[w].tag <= job[w].value BY CallFacts DEF Take, Sane, After
<1>2. Stored'
  <2>1. <<>> \in FreshBatches BY DEF FreshBatches
  <2>2. QED BY <2>1 DEF IInv, Stored, Take, database
<1>3. ASSUME NEW label \in {"flushed", "insert"}, NEW j \in FreshJobs, Goto(w, label),
             job' = [job EXCEPT ![w] = j], j.tag <= j.value
      PROVE  IInv'
  <2>1. Sane(label, j) /\ label \in Labels \ {"commit"}
    BY <1>3 DEF Sane, Before, After, Labels
  <2>2. Calls' BY <1>3, <2>1, MoveCalls DEF Take
  <2>3. Locks' BY <1>1, <1>3, <2>1, MoveLocks DEF Take, database
  <2>4. QED BY <1>2, <2>2, <2>3, SilentAnswers DEF IInv, Take
<1>4. CASE Goto(w, "flushed") /\ UNCHANGED job
  <2>1. job' = [job EXCEPT ![w] = job[w]] BY <1>4 DEF IInv, Calls
  <2>2. QED BY <1>1, <1>3, <1>4, <2>1, CallFacts
<1>5. CASE Set(w, "batch", pending[procOf[w]]) /\ Goto(w, "insert")
  <2> DEFINE j == [job[w] EXCEPT !.batch = pending[procOf[w]]]
  <2>1. pending[procOf[w]] \in FreshBatches BY CallFacts DEF IInv, Stored
  <2>2. j \in FreshJobs /\ j.tag = job[w].tag /\ j.value = job[w].value
    BY <2>1, CallFacts DEF FreshJobs
  <2>3. job' = [job EXCEPT ![w] = j] BY <1>5 DEF Set
  <2> HIDE DEF j
  <2>4. QED BY <1>1, <1>3, <1>5, <2>2, <2>3
<1>6. QED BY <1>4, <1>5 DEF Take

LEMMA InsertInv ==
  ASSUME IInv, NEW w \in Workers, Insert(w)
  PROVE  IInv'
<1> DEFINE p == procOf[w]
<1>1. pc[w] = "insert" /\ dbLock[p] = NoWorker /\ Writable(p) /\ p \in Procs
  BY CallFacts DEF Insert
<1>2. Stored'
  <2>1. Replaced(Rows(p), job[w].batch) \in FreshTables
    BY <1>1, CallFacts, RowsFresh, ReplacedIsFresh
  <2>2. view' \in [Procs -> FreshTables] BY <2>1 DEF IInv, Stored, Insert
  <2>3. QED BY <2>2 DEF IInv, Stored, Insert, memory
<1>3. Calls'
  <2>1. Sane("commit", job[w]) /\ "commit" \in Labels
    BY <1>1, CallFacts DEF Sane, Before, After, Labels
  <2>2. job' = [job EXCEPT ![w] = job[w]] BY DEF IInv, Calls, Insert
  <2>3. QED BY <2>1, <2>2, CallFacts, MoveCalls DEF Insert
<1>4. Locks'
  <2>1. dbLock' = [dbLock EXCEPT ![p] = w] /\ txn' = [txn EXCEPT ![p] = "writing"]
    BY DEF Insert
  <2>2. dbLock' \in [Procs -> Workers \cup {NoWorker}]
        /\ txn' \in [Procs -> {"none", "begun", "reading", "writing"}]
    BY <2>1 DEF IInv, Locks
  <2>3. ASSUME NEW v \in Workers
        PROVE  pc'[v] = "commit" <=> txn'[procOf[v]] = "writing" /\ dbLock'[procOf[v]] = v
    <3>1. procOf[v] \in Procs BY CallFacts
    <3>2. CASE v = w
      BY <1>1, <2>1, <3>2 DEF IInv, Calls, Locks, Insert, Goto
    <3>3. CASE v # w
      <4>1. pc'[v] = pc[v] BY <3>3 DEF IInv, Calls, Insert, Goto
      <4>2. CASE procOf[v] = p
        <5>1. dbLock'[procOf[v]] # v BY <1>1, <2>1, <3>3, <4>2 DEF IInv, Locks
        <5>2. pc[v] # "commit" BY <1>1, <4>2, MarksAssumption DEF IInv, Locks
        <5>3. QED BY <4>1, <5>1, <5>2
      <4>3. CASE procOf[v] # p
        BY <2>1, <3>1, <4>1, <4>3 DEF IInv, Locks
      <4>4. QED BY <4>2, <4>3
    <3>4. QED BY <3>2, <3>3
  <2>4. \A q, r \in Procs : txn'[q] = "writing" /\ txn'[r] = "writing" => q = r
    BY <1>1, <2>1 DEF IInv, Locks, Writable
  <2>5. procOf' = procOf BY DEF Insert
  <2>6. QED BY <2>2, <2>3, <2>4, <2>5 DEF Locks
<1>5. QED BY <1>2, <1>3, <1>4, SilentAnswers DEF IInv, Insert

LEMMA CommitInv ==
  ASSUME IInv, NEW w \in Workers, Commit(w)
  PROVE  IInv'
<1> DEFINE p == procOf[w]
<1>1. pc[w] = "commit" /\ p \in Procs BY CallFacts DEF Commit
<1>2. Stored'
  <2>1. view[p] \in FreshTables BY <1>1 DEF IInv, Stored
  <2>2. view' \in [Procs -> FreshTables] BY Blank DEF IInv, Stored, Commit
  <2>3. behind' \in [Procs -> BOOLEAN] BY DEF IInv, Stored, Commit
  <2>4. QED BY <2>1, <2>2, <2>3 DEF IInv, Stored, Commit, memory
<1>3. Calls'
  <2>1. Sane("flushed", job[w]) /\ "flushed" \in Labels
    BY <1>1, CallFacts DEF Sane, Before, After, Labels
  <2>2. job' = [job EXCEPT ![w] = job[w]] BY DEF IInv, Calls, Commit
  <2>3. QED BY <2>1, <2>2, CallFacts, MoveCalls DEF Commit
<1>4. Locks'
  <2>1. dbLock' = [dbLock EXCEPT ![p] = NoWorker] /\ txn' = [txn EXCEPT ![p] = "none"]
    BY DEF Commit
  <2>2. dbLock' \in [Procs -> Workers \cup {NoWorker}]
        /\ txn' \in [Procs -> {"none", "begun", "reading", "writing"}]
    BY <2>1 DEF IInv, Locks
  <2>3. ASSUME NEW v \in Workers
        PROVE  pc'[v] = "commit" <=> txn'[procOf[v]] = "writing" /\ dbLock'[procOf[v]] = v
    <3>1. procOf[v] \in Procs BY CallFacts
    <3>2. CASE v = w
      <4>1. pc'[v] = "flushed" BY <3>2 DEF IInv, Calls, Commit, Goto
      <4>2. txn'[procOf[v]] = "none" BY <1>1, <2>1, <3>2 DEF IInv, Locks
      <4>3. QED BY <4>1, <4>2
    <3>3. CASE v # w
      <4>1. pc'[v] = pc[v] BY <3>3 DEF IInv, Calls, Commit, Goto
      <4>2. CASE procOf[v] = p
        <5>1. txn'[procOf[v]] = "none" BY <1>1, <2>1, <4>2 DEF IInv, Locks
        <5>2. dbLock[p] = w BY <1>1 DEF IInv, Locks
        <5>3. pc[v] # "commit" BY <3>3, <4>2, <5>2 DEF IInv, Locks
        <5>4. QED BY <4>1, <5>1, <5>3
      <4>3. CASE procOf[v] # p
        BY <2>1, <3>1, <4>1, <4>3 DEF IInv, Locks
      <4>4. QED BY <4>2, <4>3
    <3>4. QED BY <3>2, <3>3
  <2>4. \A q, r \in Procs : txn'[q] = "writing" /\ txn'[r] = "writing" => q = r
    BY <2>1 DEF IInv, Locks
  <2>5. procOf' = procOf BY DEF Commit
  <2>6. QED BY <2>2, <2>3, <2>4, <2>5 DEF Locks
<1>5. QED BY <1>2, <1>3, <1>4, SilentAnswers DEF IInv, Commit

LEMMA BusyInv ==
  ASSUME IInv, NEW w \in Workers, Busy(w)
  PROVE  IInv'
<1>1. pc[w] = "insert" /\ dbLock' = dbLock BY DEF Busy, Unlock
<1>2. Stored' BY DEF IInv, Stored, Busy, memory
<1>3. Sane("flushed", job[w]) /\ "flushed" \in Labels \ {"commit"}
  BY <1>1, CallFacts DEF Sane, Before, After, Labels
<1>4. Calls'
  <2>1. job' = [job EXCEPT ![w] = job[w]] BY DEF IInv, Calls, Busy
  <2>2. QED BY <1>3, <2>1, CallFacts, MoveCalls DEF Busy
<1>5. Locks'
  <2>1. \A v \in Workers : pc'[v] = "commit" <=> pc[v] = "commit"
    BY <1>1, <1>3 DEF IInv, Calls, Busy, Goto
  <2>2. txn' \in [Procs -> {"none", "begun", "reading", "writing"}]
    BY DEF IInv, Locks, Busy
  <2>3. \A q \in Procs : txn'[q] = "writing" <=> txn[q] = "writing"
    BY DEF IInv, Locks, Busy
  <2>4. \A v \in Workers : procOf[v] \in Procs BY CallFacts
  <2>5. procOf' = procOf BY DEF Busy
  <2>6. QED BY <1>1, <2>1, <2>2, <2>3, <2>4, <2>5 DEF IInv, Locks
<1>6. Answers'
  <2>1. reply' \in Replies BY Blank DEF Busy, Replies
  <2>2. reply'.by = "flush" BY DEF Busy, NoReply
  <2>3. QED BY <2>1, <2>2 DEF Answers, MemoIsFresh
<1>7. QED BY <1>2, <1>4, <1>5, <1>6 DEF IInv

LEMMA UnconnectedInv ==
  ASSUME IInv, NEW w \in Workers, Unconnected(w)
  PROVE  IInv'
<1>1. Sane("flushed", job[w]) /\ "flushed" \in Labels \ {"commit"}
  BY CallFacts DEF Unconnected, Sane, Before, After, Labels
<1>2. QED BY <1>1, PassInv DEF Unconnected

LEMMA GoneInv ==
  ASSUME IInv, NEW p \in Procs, Gone(p)
  PROVE  IInv'
<1>1. Stored'
  <2>1. <<>> \in FreshBatches BY DEF FreshBatches
  <2>2. QED BY <2>1, Blank DEF IInv, Stored, Gone
<1>2. Calls'
  <2>1. pc' \in [Workers -> Labels] BY DEF IInv, Calls, Gone, Labels
  <2>2. job' \in [Workers -> FreshJobs] BY Blank DEF IInv, Calls, Gone
  <2>3. ASSUME NEW w \in Workers PROVE Sane(pc[w], job[w])'
    <3>1. CASE procOf[w] = p
      <4>1. pc'[w] = "idle" BY <3>1 DEF Gone
      <4>2. QED BY <4>1 DEF Sane, Before, After
    <3>2. CASE procOf[w] # p
      <4>1. pc'[w] = pc[w] /\ job'[w] = job[w] /\ version' = version BY <3>2 DEF Gone
      <4>2. QED BY <4>1, CallFacts DEF Sane
    <3>3. QED BY <3>1, <3>2
  <2>4. QED BY <2>1, <2>2, <2>3 DEF IInv, Calls, Gone
<1>3. Locks'
  <2>1. dbLock' = [dbLock EXCEPT ![p] = NoWorker] /\ txn' = [txn EXCEPT ![p] = "none"]
    BY DEF Gone
  <2>2. dbLock' \in [Procs -> Workers \cup {NoWorker}]
        /\ txn' \in [Procs -> {"none", "begun", "reading", "writing"}]
    BY <2>1 DEF IInv, Locks
  <2>3. ASSUME NEW v \in Workers
        PROVE  pc'[v] = "commit" <=> txn'[procOf[v]] = "writing" /\ dbLock'[procOf[v]] = v
    <3>1. procOf[v] \in Procs BY CallFacts
    <3>2. CASE procOf[v] = p
      <4>1. pc'[v] = "idle" BY <3>2 DEF Gone
      <4>2. txn'[procOf[v]] = "none" BY <2>1, <3>2 DEF IInv, Locks
      <4>3. QED BY <4>1, <4>2
    <3>3. CASE procOf[v] # p
      <4>1. pc'[v] = pc[v] BY <3>3 DEF Gone
      <4>2. QED BY <2>1, <3>1, <3>3, <4>1 DEF IInv, Locks
    <3>4. QED BY <3>2, <3>3
  <2>4. \A q, r \in Procs : txn'[q] = "writing" /\ txn'[r] = "writing" => q = r
    BY <2>1 DEF IInv, Locks
  <2>5. procOf' = procOf BY DEF Gone
  <2>6. QED BY <2>2, <2>3, <2>4, <2>5 DEF Locks
<1>4. QED BY <1>1, <1>2, <1>3, SilentAnswers DEF IInv, Gone

LEMMA FlushedInv ==
  ASSUME IInv, NEW w \in Workers, Flushed(w)
  PROVE  IInv'
<1>1. pc[w] = "flushed" /\ job[w].tag <= job[w].value
  BY CallFacts DEF Flushed, Sane, After
<1>2. CASE Return(w, job[w].value) /\ UNCHANGED <<procOf, version, memory, database>>
  <2>1. Calls' /\ Answers' BY <1>1, <1>2, CallFacts, ReturnInv
  <2>2. Locks' BY <1>1, <1>2, ReturnLocks DEF database
  <2>3. Stored' BY <1>2 DEF IInv, Stored, memory, database
  <2>4. QED BY <2>1, <2>2, <2>3 DEF IInv
<1>3. CASE Gone(procOf[w])
  BY <1>3, CallFacts, GoneInv
<1>4. QED BY <1>2, <1>3 DEF Flushed

-----------------------------------------------------------------------------
(* preload, and the environment *)

(* A call that begins with no locals of its own.                            *)
LEMMA BeginInv ==
  ASSUME IInv, NEW w \in Workers, NEW label \in {"rows", "take"},
         NEW call \in {"preload", "exit"}, label = "rows" => call = "preload",
         pc[w] = "idle", Goto(w, label),
         job' = [job EXCEPT ![w] = [NoJob EXCEPT !.call = call]], Silent,
         UNCHANGED <<procOf, version, memory, database>>
  PROVE  IInv'
<1> DEFINE j == [NoJob EXCEPT !.call = call]
<1>1. j \in FreshJobs BY Blank DEF FreshJobs
<1>2. j.tag = 0 /\ j.value = 0 /\ j.call = call BY DEF NoJob
<1>3. Sane(label, j) /\ label \in Labels \ {"commit"}
  BY <1>2 DEF Sane, Before, After, Labels
<1> HIDE DEF j
<1>4. job' = [job EXCEPT ![w] = j] BY DEF j
<1>5. Calls' BY <1>1, <1>3, <1>4, MoveCalls
<1>6. Locks' BY <1>3, MoveLocks DEF database
<1>7. Stored' BY DEF IInv, Stored, memory, database
<1>8. QED BY <1>5, <1>6, <1>7, SilentAnswers DEF IInv

LEMMA PreloadInv ==
  ASSUME IInv, NEW w \in Workers, Preload(w)
  PROVE  IInv'
BY BeginInv DEF Preload

LEMMA PreloadRowsInv ==
  ASSUME IInv, NEW w \in Workers, PreloadRows(w)
  PROVE  IInv'
<1>1. pc[w] = "rows" /\ job[w].call = "preload" BY CallFacts DEF PreloadRows, Sane
<1>2. CASE /\ Select(procOf[w])
           /\ Set(w, "rows", Rows(procOf[w]))
           /\ Goto(w, "merge")
           /\ Silent
  <2> DEFINE j == [job[w] EXCEPT !.rows = Rows(procOf[w])]
  <2>1. j \in FreshJobs BY CallFacts, RowsFresh DEF FreshJobs
  <2>2. j.call = "preload" BY <1>1, CallFacts DEF FreshJobs
  <2>3. Sane("merge", j) /\ "merge" \in Labels \ {"commit"}
    BY <2>2 DEF Sane, Before, After, Labels
  <2>4. job' = [job EXCEPT ![w] = j] BY <1>2 DEF Set
  <2> HIDE DEF j
  <2>5. Calls' BY <1>2, <2>1, <2>3, <2>4, MoveCalls DEF PreloadRows
  <2>6. Stored' /\ Locks' BY <1>1, <1>2, <2>3, CallFacts, SelectInv DEF PreloadRows
  <2>7. QED BY <1>2, <2>5, <2>6, SilentAnswers DEF IInv
<1>3. CASE Return(w, 0) /\ UNCHANGED database
  <2>1. Calls' /\ Answers' BY <1>1, <1>3, Numbers, ReturnInv DEF PreloadRows
  <2>2. Locks' BY <1>1, <1>3, ReturnLocks DEF PreloadRows, database
  <2>3. Stored' BY <1>3 DEF IInv, Stored, PreloadRows, memory, database
  <2>4. QED BY <2>1, <2>2, <2>3 DEF IInv
<1>4. QED BY <1>2, <1>3 DEF PreloadRows

LEMMA MergeInv ==
  ASSUME IInv, NEW w \in Workers, Merge(w)
  PROVE  IInv'
<1> DEFINE p == procOf[w]
           t == [k \in Keys |-> IF mem[p][k] = NoEntry THEN job[w].rows[k] ELSE mem[p][k]]
<1>1. pc[w] = "merge" /\ job[w].call = "preload" BY CallFacts DEF Merge, Sane
<1>2. t \in FreshTables
  <2>1. mem[p] \in FreshTables /\ job[w].rows \in FreshTables
    BY CallFacts DEF IInv, Stored
  <2>2. QED BY <2>1 DEF FreshTables
<1>3. Stored'
  <2>1. mem' = [mem EXCEPT ![p] = t] BY DEF Merge
  <2> HIDE DEF t
  <2>2. mem' \in [Procs -> FreshTables] BY <1>2, <2>1 DEF IInv, Stored
  <2>3. QED BY <2>2 DEF IInv, Stored, Merge, database
<1>4. Calls' /\ Answers' BY <1>1, Numbers, ReturnInv DEF Merge
<1>5. Locks' BY <1>1, ReturnLocks DEF Merge, database
<1>6. QED BY <1>3, <1>4, <1>5 DEF IInv

LEMMA ExitInv ==
  ASSUME IInv, NEW w \in Workers, Exit(w)
  PROVE  IInv'
BY BeginInv DEF Exit

LEMMA GrowInv ==
  ASSUME IInv, NEW k \in Keys, Grow(k)
  PROVE  IInv'
<1>1. version' \in [Keys -> Versions]
  BY NumbersAssumption DEF IInv, Calls, Grow, Versions
<1>2. Calls'
  <2>1. ASSUME NEW w \in Workers PROVE Sane(pc[w], job[w])'
    <3>1. version[job[w].key] \in Nat /\ job[w].tag \in Nat BY CallFacts, Numbers DEF IInv, Calls
    <3>2. version'[job[w].key] >= version[job[w].key]
      BY <3>1, CallFacts DEF IInv, Calls, Grow
    <3>3. version'[job[w].key] \in Nat BY <1>1, CallFacts, Numbers
    <3>4. pc'[w] = pc[w] /\ job'[w] = job[w] BY DEF Grow
    <3>5. QED BY <3>1, <3>2, <3>3, <3>4, CallFacts DEF Sane
  <2>2. QED BY <1>1, <2>1 DEF IInv, Calls, Grow
<1>3. Stored' BY DEF IInv, Stored, Grow, memory, database
<1>4. Locks' BY DEF IInv, Locks, Grow, database
<1>5. QED BY <1>2, <1>3, <1>4, SilentAnswers DEF IInv, Grow

LEMMA StepInv ==
  ASSUME IInv, NEW w \in Workers, Step(w)
  PROVE  IInv'
<1>1. CASE CheckMem(w) BY <1>1, CheckMemInv
<1>2. CASE Connect(w) BY <1>2, ConnectInv
<1>3. CASE Load(w) BY <1>3, LoadInv
<1>4. CASE LoadFails(w) BY <1>4, LoadFailsInv
<1>5. CASE Loaded(w) BY <1>5, LoadedInv
<1>6. CASE Compute(w) BY <1>6, ComputeInv
<1>7. CASE Put(w) BY <1>7, PutInv
<1>8. CASE Take(w) BY <1>8, TakeInv
<1>9. CASE Insert(w) BY <1>9, InsertInv
<1>10. CASE Commit(w) BY <1>10, CommitInv
<1>11. CASE Busy(w) BY <1>11, BusyInv
<1>12. CASE Unconnected(w) BY <1>12, UnconnectedInv
<1>13. CASE Flushed(w) BY <1>13, FlushedInv
<1>14. CASE PreloadRows(w) BY <1>14, PreloadRowsInv
<1>15. CASE Merge(w) BY <1>15, MergeInv
<1>16. QED
  BY <1>1, <1>2, <1>3, <1>4, <1>5, <1>6, <1>7, <1>8, <1>9, <1>10, <1>11, <1>12, <1>13,
     <1>14, <1>15 DEF Step

LEMMA NextInv ==
  ASSUME IInv, [Next]_vars
  PROVE  IInv'
<1>1. ASSUME NEW w \in Workers, Step(w) PROVE IInv' BY <1>1, StepInv
<1>2. ASSUME NEW w \in Workers, Preload(w) PROVE IInv' BY <1>2, PreloadInv
<1>3. ASSUME NEW w \in Workers, Exit(w) PROVE IInv' BY <1>3, ExitInv
<1>4. ASSUME NEW w \in Workers, NEW k \in Keys, Memo(w, k) PROVE IInv' BY <1>4, MemoInv
<1>5. ASSUME NEW p \in Procs, Kill(p) PROVE IInv' BY <1>5, GoneInv DEF Kill
<1>6. ASSUME NEW k \in Keys, Grow(k) PROVE IInv' BY <1>6, GrowInv
<1>7. CASE UNCHANGED vars
  <2>1. Stored' BY <1>7 DEF IInv, Stored, vars
  <2>2. Calls' BY <1>7 DEF IInv, Calls, Sane, vars
  <2>3. Locks' BY <1>7 DEF IInv, Locks, vars
  <2>4. Answers' BY <1>7 DEF IInv, Answers, MemoIsFresh, vars
  <2>5. QED BY <2>1, <2>2, <2>3, <2>4 DEF IInv
<1>8. QED BY <1>1, <1>2, <1>3, <1>4, <1>5, <1>6, <1>7 DEF Next

-----------------------------------------------------------------------------
(* The theorems *)

LEMMA FreshIsTyped ==
  /\ FreshTables \subseteq Tables
  /\ FreshBatches \subseteq Batches
  /\ FreshJobs \subseteq Jobs
<1>1. FreshEntries \subseteq Entries BY DEF FreshEntries
<1>2. FreshTables \subseteq Tables BY <1>1 DEF FreshTables, Tables
<1>3. FreshBatches \subseteq Batches
  <2>1. FreshRows \subseteq [key : Keys, entry : Entries] BY <1>1 DEF FreshRows
  <2>2. ASSUME NEW b \in FreshBatches PROVE b \in Batches
    <3>1. b \in [1..Len(b) -> FreshRows] /\ Len(b) \in Nat BY DEF FreshBatches
    <3>2. b \in [1..Len(b) -> [key : Keys, entry : Entries]] BY <2>1, <3>1
    <3>3. QED BY <3>1, <3>2, SeqDef DEF Batches
  <2>3. QED BY <2>2
<1>4. FreshJobs \subseteq Jobs BY <1>2, <1>3 DEF FreshJobs, Jobs
<1>5. QED BY <1>2, <1>3, <1>4

(* The variables have their types, one connection writes at a time, and the *)
(* thread that writes holds its process's _db_lock (_scancache.py, flush).  *)
THEOREM TypeCorrect == Spec => []TypeOK
<1>1. IInv => TypeOK
  BY FreshIsTyped DEF IInv, Stored, Calls, Locks, Answers, TypeOK
<1>2. QED BY <1>1, InitInv, NextInv, PTL DEF Spec

(* A call of memo returns what its probe gives on the file as it was when   *)
(* the call looked at it or later, whatever threads and processes do.       *)
THEOREM MemoAnswersFresh == Spec => []MemoIsFresh
<1>1. IInv => MemoIsFresh BY DEF IInv, Answers
<1>2. QED BY <1>1, InitInv, NextInv, PTL DEF Spec

-----------------------------------------------------------------------------
(* ScanCache implements FreshReads.                                         *)

(* The invariant that this needs besides IInv: no entry, wherever it is     *)
(* kept, holds a value the file has not had yet, and an idle thread asks    *)
(* for nothing.                                                             *)

PastTable(t, v) == \A k \in Keys : t[k] # NoEntry => t[k].value <= v[k]
PastBatch(b, v) == \A i \in DOMAIN b : b[i].entry.value <= v[b[i].key]

PastJob(label, j, v) ==
  /\ label = "idle" => j.call # "memo"
  /\ label \in After => j.value <= v[j.key]
  /\ PastBatch(j.batch, v) /\ PastTable(j.rows, v)

PastStored ==
  /\ \A p \in Procs : PastTable(mem[p], version) /\ PastTable(view[p], version)
  /\ \A p \in Procs : PastBatch(pending[p], version)
  /\ PastTable(db, version)

PastCalls == \A w \in Workers : PastJob(pc[w], job[w], version)

PastInv == PastStored /\ PastCalls

-----------------------------------------------------------------------------
(* Tables and batches *)

LEMMA BlankIsPast ==
  ASSUME NEW v \in [Keys -> Versions]
  PROVE  PastTable(NoRows, v) /\ PastBatch(<<>>, v) /\ PastJob("idle", NoJob, v)
<1>1. PastTable(NoRows, v) BY DEF PastTable, NoRows
<1>2. PastBatch(<<>>, v) BY DEF PastBatch
<1>3. PastJob("idle", NoJob, v) BY <1>1, <1>2 DEF PastJob, NoJob, After
<1>4. QED BY <1>1, <1>2, <1>3

(* A valid entry answers with a value the file has had.                     *)
LEMMA ValidIsPast ==
  ASSUME NEW t, NEW v, NEW k \in Keys, NEW tag, PastTable(t, v), Valid(t[k], tag)
  PROVE  t[k].value <= v[k]
BY DEF PastTable, Valid

(* One entry more.                                                          *)
LEMMA PastEntry ==
  ASSUME NEW t \in FreshTables, NEW v, NEW k \in Keys, NEW e, PastTable(t, v), e.value <= v[k]
  PROVE  PastTable([t EXCEPT ![k] = e], v)
BY DEF PastTable, FreshTables

LEMMA PastAppend ==
  ASSUME NEW b \in FreshBatches, NEW v, NEW row \in FreshRows,
         PastBatch(b, v), row.entry.value <= v[row.key]
  PROVE  PastBatch(Append(b, row), v)
<1>1. b \in Seq(FreshRows) BY DEF FreshBatches
<1>2. DOMAIN Append(b, row) = 1..Len(b) + 1 /\ DOMAIN b = 1..Len(b) /\ Len(b) \in Nat BY <1>1
<1>3. ASSUME NEW i \in 1..Len(b) + 1
      PROVE  Append(b, row)[i].entry.value <= v[Append(b, row)[i].key]
  <2>1. CASE i = Len(b) + 1
    <3>1. Append(b, row)[i] = row BY <1>1, <2>1
    <3>2. QED BY <3>1
  <2>2. CASE i \in 1..Len(b)
    <3>1. Append(b, row)[i] = b[i] BY <1>1, <2>2
    <3>2. QED BY <1>2, <2>2, <3>1 DEF PastBatch
  <2>3. QED BY <1>2, <2>1, <2>2
<1>4. QED BY <1>2, <1>3 DEF PastBatch

LEMMA PastReplaced ==
  ASSUME NEW t \in FreshTables, NEW b \in FreshBatches, NEW v, PastTable(t, v), PastBatch(b, v)
  PROVE  PastTable(Replaced(t, b), v)
<1> SUFFICES ASSUME NEW k \in Keys, Replaced(t, b)[k] # NoEntry
             PROVE  Replaced(t, b)[k].value <= v[k]
  BY DEF PastTable
<1> DEFINE mine == {i \in DOMAIN b : b[i].key = k}
           last == CHOOSE i \in mine : \A j \in mine : j <= i
<1>1. CASE mine = {}
  BY <1>1 DEF Replaced, PastTable
<1>2. CASE mine # {}
  <2>1. Len(b) \in Nat /\ DOMAIN b = 1..Len(b) BY DEF FreshBatches
  <2>2. \E i \in mine : \A j \in mine : j <= i
    <3>1. mine \subseteq 1..Len(b) BY <2>1
    <3>2. QED BY <1>2, <2>1, <3>1, LastOf
  <2>3. last \in DOMAIN b /\ b[last].key = k BY <2>2
  <2>4. Replaced(t, b)[k] = b[last].entry BY <1>2 DEF Replaced
  <2>5. QED BY <2>3, <2>4 DEF PastBatch
<1>3. QED BY <1>1, <1>2

-----------------------------------------------------------------------------
(* Steps of one call *)

LEMMA InitPast == Init => PastInv
<1> SUFFICES ASSUME Init PROVE PastInv
  OBVIOUS
<1>1. version \in [Keys -> Versions] BY Numbers DEF Init
<1>2. PastStored BY <1>1, BlankIsPast DEF Init, PastStored
<1>3. PastCalls BY <1>1, BlankIsPast DEF Init, PastCalls
<1>4. QED BY <1>2, <1>3 DEF PastInv

LEMMA MovePast ==
  ASSUME IInv, PastInv, NEW w \in Workers, NEW label, NEW j, Goto(w, label),
         job' = [job EXCEPT ![w] = j], UNCHANGED version, PastJob(label, j, version)
  PROVE  PastCalls'
<1>1. ASSUME NEW u \in Workers PROVE PastJob(pc'[u], job'[u], version)
  <2>1. CASE u = w
    BY <2>1 DEF IInv, Calls, Goto
  <2>2. CASE u # w
    <3>1. pc'[u] = pc[u] /\ job'[u] = job[u] BY <2>2 DEF IInv, Calls, Goto
    <3>2. QED BY <3>1 DEF PastInv, PastCalls
  <2>3. QED BY <2>1, <2>2
<1>2. QED BY <1>1 DEF PastCalls

(* A move that keeps its locals, and is neither the end of the call nor the *)
(* point from which its value counts.                                       *)
LEMMA PassPast ==
  ASSUME IInv, PastInv, NEW w \in Workers, NEW label \in Labels \ {"idle"}, Goto(w, label),
         label \in After => pc[w] \in After,
         UNCHANGED <<job, version>>
  PROVE  PastCalls'
<1>1. job' = [job EXCEPT ![w] = job[w]] BY DEF IInv, Calls
<1>2. PastJob(label, job[w], version) BY DEF PastInv, PastCalls, PastJob
<1>3. QED BY <1>1, <1>2, MovePast

LEMMA ReturnPast ==
  ASSUME IInv, PastInv, NEW w \in Workers, NEW value, Return(w, value), UNCHANGED version
  PROVE  PastCalls'
<1>1. version \in [Keys -> Versions] BY DEF IInv, Calls
<1>2. QED BY <1>1, BlankIsPast, MovePast DEF Return

LEMMA RowsPast == ASSUME PastInv, NEW p \in Procs PROVE PastTable(Rows(p), version)
BY DEF PastInv, PastStored, Rows

LEMMA SelectPast ==
  ASSUME IInv, PastInv, NEW p \in Procs, Select(p), UNCHANGED <<version, memory>>
  PROVE  PastStored'
<1>1. \A q \in Procs : view'[q] = view[q] \/ view'[q] = db
  BY DEF IInv, Stored, Select
<1>2. QED BY <1>1 DEF PastInv, PastStored, Select, memory

(* One entry of this call is stored in memory.                              *)
LEMMA PastMem ==
  ASSUME IInv, PastInv, NEW w \in Workers, pc[w] \in After,
         mem' = [mem EXCEPT ![procOf[w]] = [mem[procOf[w]] EXCEPT ![job[w].key] = Entry(w)]]
  PROVE  \A p \in Procs : PastTable(mem'[p], version)
<1>1. Entry(w).value <= version[job[w].key] BY DEF PastInv, PastCalls, PastJob, Entry
<1>2. procOf[w] \in Procs /\ job[w].key \in Keys BY CallFacts
<1>3. mem \in [Procs -> FreshTables] BY DEF IInv, Stored
<1>4. PastTable([mem[procOf[w]] EXCEPT ![job[w].key] = Entry(w)], version)
  BY <1>1, <1>2, <1>3, PastEntry DEF PastInv, PastStored
<1>5. QED BY <1>2, <1>3, <1>4 DEF PastInv, PastStored

LEMMA KeepStored ==
  ASSUME PastInv, UNCHANGED <<version, mem, pending, db, view>>
  PROVE  PastStored'
BY DEF PastInv, PastStored

-----------------------------------------------------------------------------
(* One lemma for each action *)

LEMMA CheckMemPast ==
  ASSUME IInv, PastInv, NEW w \in Workers, CheckMem(w)
  PROVE  PastInv'
<1>1. PastStored' BY KeepStored DEF CheckMem, memory, database
<1>2. PastCalls'
  <2>1. CASE Return(w, mem[procOf[w]][job[w].key].value) BY <2>1, ReturnPast DEF CheckMem
  <2>2. CASE Goto(w, "load") /\ UNCHANGED job
    BY <2>2, PassPast DEF CheckMem, Labels, After
  <2>3. QED BY <2>1, <2>2 DEF CheckMem
<1>3. QED BY <1>1, <1>2 DEF PastInv

LEMMA LoadPast ==
  ASSUME IInv, PastInv, NEW w \in Workers, Load(w)
  PROVE  PastInv'
<1> DEFINE row == Rows(procOf[w])[job[w].key]
<1>1. PastStored' BY CallFacts, SelectPast DEF Load
<1>2. CASE Valid(row, job[w].tag) /\ Set(w, "value", row.value) /\ Goto(w, "loaded")
  <2> DEFINE j == [job[w] EXCEPT !.value = row.value]
  <2>1. row.value <= version[job[w].key] BY <1>2, CallFacts, RowsPast, ValidIsPast
  <2>2. j.value = row.value /\ j.key = job[w].key /\ j.batch = job[w].batch
        /\ j.rows = job[w].rows
    BY CallFacts DEF FreshJobs
  <2>3. job' = [job EXCEPT ![w] = j] BY <1>2 DEF Set
  <2> HIDE DEF j
  <2>4. PastJob("loaded", j, version) BY <2>1, <2>2 DEF PastInv, PastCalls, PastJob
  <2>5. PastCalls' BY <1>2, <2>3, <2>4, MovePast DEF Load
  <2>6. QED BY <1>1, <2>5 DEF PastInv
<1>3. CASE Goto(w, "compute") /\ UNCHANGED job
  <2>1. PastCalls' BY <1>3, PassPast DEF Load, Labels, After
  <2>2. QED BY <1>1, <2>1 DEF PastInv
<1>4. QED BY <1>2, <1>3 DEF Load

LEMMA LoadFailsPast ==
  ASSUME IInv, PastInv, NEW w \in Workers, LoadFails(w)
  PROVE  PastInv'
<1>1. PastStored' BY KeepStored DEF LoadFails, memory, database
<1>2. PastCalls' BY PassPast DEF LoadFails, Labels, After
<1>3. QED BY <1>1, <1>2 DEF PastInv

LEMMA LoadedPast ==
  ASSUME IInv, PastInv, NEW w \in Workers, Loaded(w)
  PROVE  PastInv'
<1>1. pc[w] \in After BY DEF Loaded, After
<1>2. \A p \in Procs : PastTable(mem'[p], version) BY <1>1, PastMem DEF Loaded
<1>3. PastStored' BY <1>2 DEF PastInv, PastStored, Loaded, database
<1>4. PastCalls' BY ReturnPast DEF Loaded
<1>5. QED BY <1>3, <1>4 DEF PastInv

LEMMA ComputePast ==
  ASSUME IInv, PastInv, NEW w \in Workers, Compute(w)
  PROVE  PastInv'
<1> DEFINE j == [job[w] EXCEPT !.value = version[job[w].key]]
<1>1. version[job[w].key] \in Nat BY CallFacts, Numbers DEF IInv, Calls
<1>2. j.value = version[job[w].key] /\ j.key = job[w].key /\ j.batch = job[w].batch
      /\ j.rows = job[w].rows
  BY CallFacts DEF FreshJobs
<1>3. job' = [job EXCEPT ![w] = j] BY DEF Compute, Set
<1> HIDE DEF j
<1>4. PastJob("put", j, version) BY <1>1, <1>2 DEF PastInv, PastCalls, PastJob
<1>5. PastCalls' BY <1>3, <1>4, MovePast DEF Compute
<1>6. PastStored' BY KeepStored DEF Compute, memory, database
<1>7. QED BY <1>5, <1>6 DEF PastInv

LEMMA PutPast ==
  ASSUME IInv, PastInv, NEW w \in Workers, Put(w)
  PROVE  PastInv'
<1> DEFINE p == procOf[w]
           row == [key |-> job[w].key, entry |-> Entry(w)]
           batch == Append(pending[p], row)
<1>1. pc[w] \in After BY DEF Put, After
<1>2. \A q \in Procs : PastTable(mem'[q], version) BY <1>1, PastMem DEF Put
<1>3. \A q \in Procs : PastBatch(pending'[q], version)
  <2>1. row \in FreshRows BY <1>1, CallFacts, EntryIsFresh DEF FreshRows
  <2>2. row.entry.value <= version[row.key]
    BY <1>1 DEF PastInv, PastCalls, PastJob, Entry
  <2>3. p \in Procs /\ pending[p] \in FreshBatches BY CallFacts DEF IInv, Stored
  <2>4. pending' = [pending EXCEPT ![p] = batch] BY DEF Put
  <2> HIDE DEF row
  <2>5. PastBatch(batch, version)
    BY <2>1, <2>2, <2>3, PastAppend DEF PastInv, PastStored
  <2> HIDE DEF batch
  <2>6. QED BY <2>3, <2>4, <2>5 DEF IInv, Stored, PastInv, PastStored
<1>4. PastStored' BY <1>2, <1>3 DEF PastInv, PastStored, Put, database
<1>5. PastCalls'
  <2>1. CASE Goto(w, "take") /\ UNCHANGED job
    BY <1>1, <2>1, PassPast DEF Put, Labels
  <2>2. CASE Return(w, job[w].value) BY <2>2, ReturnPast DEF Put
  <2>3. QED BY <2>1, <2>2 DEF Put
<1>6. QED BY <1>4, <1>5 DEF PastInv

LEMMA TakePast ==
  ASSUME IInv, PastInv, NEW w \in Workers, Take(w)
  PROVE  PastInv'
<1>1. pc[w] \in After /\ procOf[w] \in Procs BY CallFacts DEF Take, After
<1>2. PastStored'
  <2>1. PastBatch(<<>>, version) BY DEF PastBatch
  <2>2. QED BY <2>1 DEF IInv, Stored, PastInv, PastStored, Take, database
<1>3. CASE Goto(w, "flushed") /\ UNCHANGED job
  <2>1. PastCalls' BY <1>1, <1>3, PassPast DEF Take, Labels
  <2>2. QED BY <1>2, <2>1 DEF PastInv
<1>4. CASE Set(w, "batch", pending[procOf[w]]) /\ Goto(w, "insert")
  <2> DEFINE j == [job[w] EXCEPT !.batch = pending[procOf[w]]]
  <2>1. j.batch = pending[procOf[w]] /\ j.key = job[w].key /\ j.value = job[w].value
        /\ j.rows = job[w].rows
    BY CallFacts DEF FreshJobs
  <2>2. job' = [job EXCEPT ![w] = j] BY <1>4 DEF Set
  <2> HIDE DEF j
  <2>3. PastJob("insert", j, version)
    BY <1>1, <2>1 DEF PastInv, PastStored, PastCalls, PastJob
  <2>4. PastCalls' BY <1>4, <2>2, <2>3, MovePast DEF Take
  <2>5. QED BY <1>2, <2>4 DEF PastInv
<1>5. QED BY <1>3, <1>4 DEF Take

(* The two steps of a flush that change the tables.                         *)
LEMMA InsertPast ==
  ASSUME IInv, PastInv, NEW w \in Workers, Insert(w)
  PROVE  PastInv'
<1> DEFINE t == Replaced(Rows(procOf[w]), job[w].batch)
<1>1. procOf[w] \in Procs /\ pc[w] \in After BY CallFacts DEF Insert, After
<1>2. PastTable(t, version)
  BY <1>1, CallFacts, RowsFresh, RowsPast, PastReplaced DEF PastInv, PastCalls, PastJob
<1>3. view' = [view EXCEPT ![procOf[w]] = t] BY DEF Insert
<1> HIDE DEF t
<1>4. PastStored'
  BY <1>1, <1>2, <1>3 DEF IInv, Stored, PastInv, PastStored, Insert, memory
<1>5. PastCalls' BY <1>1, PassPast DEF Insert, Labels
<1>6. QED BY <1>4, <1>5 DEF PastInv

LEMMA CommitPast ==
  ASSUME IInv, PastInv, NEW w \in Workers, Commit(w)
  PROVE  PastInv'
<1>1. procOf[w] \in Procs /\ pc[w] \in After BY CallFacts DEF Commit, After
<1>2. PastTable(NoRows, version) BY DEF PastTable, NoRows
<1>3. PastStored'
  BY <1>1, <1>2 DEF IInv, Stored, PastInv, PastStored, Commit, memory
<1>4. PastCalls' BY <1>1, PassPast DEF Commit, Labels
<1>5. QED BY <1>3, <1>4 DEF PastInv

LEMMA BusyPast ==
  ASSUME IInv, PastInv, NEW w \in Workers, Busy(w)
  PROVE  PastInv'
<1>1. pc[w] \in After BY DEF Busy, After
<1>2. PastStored' BY KeepStored DEF Busy, memory
<1>3. PastCalls' BY <1>1, PassPast DEF Busy, Labels
<1>4. QED BY <1>2, <1>3 DEF PastInv

LEMMA UnconnectedPast ==
  ASSUME IInv, PastInv, NEW w \in Workers, Unconnected(w)
  PROVE  PastInv'
<1>1. pc[w] \in After BY DEF Unconnected, After
<1>2. PastStored' BY KeepStored DEF Unconnected, memory, database
<1>3. PastCalls' BY <1>1, PassPast DEF Unconnected, Labels
<1>4. QED BY <1>2, <1>3 DEF PastInv

LEMMA GonePast ==
  ASSUME IInv, PastInv, NEW p \in Procs, Gone(p)
  PROVE  PastInv'
<1>1. version \in [Keys -> Versions] BY DEF IInv, Calls
<1>2. PastStored'
  BY <1>1, BlankIsPast DEF IInv, Stored, PastInv, PastStored, Gone
<1>3. ASSUME NEW w \in Workers PROVE PastJob(pc'[w], job'[w], version)
  <2>1. CASE procOf[w] = p
    BY <1>1, <2>1, BlankIsPast DEF Gone
  <2>2. CASE procOf[w] # p
    BY <2>2 DEF PastInv, PastCalls, Gone
  <2>3. QED BY <2>1, <2>2
<1>4. PastCalls' BY <1>3 DEF PastCalls, Gone
<1>5. QED BY <1>2, <1>4 DEF PastInv

LEMMA FlushedPast ==
  ASSUME IInv, PastInv, NEW w \in Workers, Flushed(w)
  PROVE  PastInv'
<1>1. CASE Return(w, job[w].value) /\ UNCHANGED <<procOf, version, memory, database>>
  <2>1. PastStored' BY <1>1, KeepStored DEF memory, database
  <2>2. PastCalls' BY <1>1, ReturnPast
  <2>3. QED BY <2>1, <2>2 DEF PastInv
<1>2. CASE Gone(procOf[w]) BY <1>2, CallFacts, GonePast
<1>3. QED BY <1>1, <1>2 DEF Flushed

(* A call of preload or of the exit's flush begins.                         *)
LEMMA BeginPast ==
  ASSUME IInv, PastInv, NEW w \in Workers, NEW label \in {"rows", "take"},
         NEW call \in {"preload", "exit"}, Goto(w, label),
         job' = [job EXCEPT ![w] = [NoJob EXCEPT !.call = call]],
         UNCHANGED <<procOf, version, memory, database>>
  PROVE  PastInv'
<1> DEFINE j == [NoJob EXCEPT !.call = call]
<1>1. version \in [Keys -> Versions] BY DEF IInv, Calls
<1>2. j.value = 0 /\ j.key \in Keys /\ j.batch = <<>> /\ j.rows = NoRows
  BY KeysAssumption DEF NoJob
<1>3. 0 <= version[j.key] BY <1>1, <1>2, Numbers
<1>4. job' = [job EXCEPT ![w] = j] OBVIOUS
<1> HIDE DEF j
<1>5. PastJob(label, j, version)
  BY <1>1, <1>2, <1>3, BlankIsPast DEF PastJob
<1>6. PastCalls' BY <1>4, <1>5, MovePast
<1>7. PastStored' BY KeepStored DEF memory, database
<1>8. QED BY <1>6, <1>7 DEF PastInv

LEMMA MemoPast ==
  ASSUME IInv, PastInv, NEW w \in Workers, NEW k \in Keys, Memo(w, k)
  PROVE  PastInv'
<1> DEFINE j == [NoJob EXCEPT !.call = "memo", !.key = k, !.tag = version[k]]
<1>1. version \in [Keys -> Versions] BY DEF IInv, Calls
<1>2. j.batch = <<>> /\ j.rows = NoRows BY DEF NoJob
<1>3. job' = [job EXCEPT ![w] = j] BY DEF Memo
<1> HIDE DEF j
<1>4. PastJob("mem", j, version) BY <1>1, <1>2, BlankIsPast DEF PastJob, After
<1>5. PastCalls' BY <1>3, <1>4, MovePast DEF Memo
<1>6. PastStored' BY KeepStored DEF Memo, memory, database
<1>7. QED BY <1>5, <1>6 DEF PastInv

LEMMA PreloadRowsPast ==
  ASSUME IInv, PastInv, NEW w \in Workers, PreloadRows(w)
  PROVE  PastInv'
<1>1. CASE Select(procOf[w]) /\ Set(w, "rows", Rows(procOf[w])) /\ Goto(w, "merge")
  <2> DEFINE j == [job[w] EXCEPT !.rows = Rows(procOf[w])]
  <2>1. j.rows = Rows(procOf[w]) /\ j.batch = job[w].batch BY CallFacts DEF FreshJobs
  <2>2. job' = [job EXCEPT ![w] = j] BY <1>1 DEF Set
  <2> HIDE DEF j
  <2>3. PastJob("merge", j, version)
    BY <2>1, CallFacts, RowsPast DEF PastInv, PastCalls, PastJob, After
  <2>4. PastCalls' BY <1>1, <2>2, <2>3, MovePast DEF PreloadRows
  <2>5. PastStored' BY <1>1, CallFacts, SelectPast DEF PreloadRows
  <2>6. QED BY <2>4, <2>5 DEF PastInv
<1>2. CASE Return(w, 0) /\ UNCHANGED database
  <2>1. PastCalls' BY <1>2, ReturnPast DEF PreloadRows
  <2>2. PastStored' BY <1>2, KeepStored DEF PreloadRows, memory, database
  <2>3. QED BY <2>1, <2>2 DEF PastInv
<1>3. QED BY <1>1, <1>2 DEF PreloadRows

LEMMA MergePast ==
  ASSUME IInv, PastInv, NEW w \in Workers, Merge(w)
  PROVE  PastInv'
<1> DEFINE p == procOf[w]
           t == [k \in Keys |-> IF mem[p][k] = NoEntry THEN job[w].rows[k] ELSE mem[p][k]]
<1>1. PastTable(mem[p], version) /\ PastTable(job[w].rows, version)
  BY CallFacts DEF PastInv, PastStored, PastCalls, PastJob
<1>2. PastTable(t, version) BY <1>1 DEF PastTable
<1>3. mem' = [mem EXCEPT ![p] = t] BY DEF Merge
<1> HIDE DEF t
<1>4. PastStored'
  BY <1>2, <1>3, CallFacts DEF IInv, Stored, PastInv, PastStored, Merge, database
<1>5. PastCalls' BY ReturnPast DEF Merge
<1>6. QED BY <1>4, <1>5 DEF PastInv

(* A file grows: what it has had, it has had.                               *)
LEMMA GrowPast ==
  ASSUME IInv, PastInv, NEW k \in Keys, Grow(k)
  PROVE  PastInv'
<1>1. version \in [Keys -> Nat] /\ version' \in [Keys -> Nat]
      /\ \A f \in Keys : version[f] <= version'[f]
  <2>1. version \in [Keys -> Nat]
    <3>1. version \in [Keys -> Versions] BY DEF IInv, Calls
    <3>2. QED BY <3>1, Numbers
  <2>2. version' = [version EXCEPT ![k] = version[k] + 1] BY DEF Grow
  <2>3. QED BY <2>1, <2>2
<1>2. ASSUME NEW f \in Keys, NEW n \in Nat, n <= version[f] PROVE n <= version'[f]
  BY <1>1, <1>2
<1>3. ASSUME NEW t \in FreshTables, PastTable(t, version) PROVE PastTable(t, version')
  <2>1. ASSUME NEW f \in Keys, t[f] # NoEntry PROVE t[f].value <= version'[f]
    <3>1. t[f] \in FreshEntries BY <2>1 DEF FreshTables
    <3>2. t[f].value \in Nat BY <3>1, Numbers DEF FreshEntries, Entries
    <3>3. t[f].value <= version[f] BY <1>3, <2>1 DEF PastTable
    <3>4. QED BY <1>2, <3>2, <3>3
  <2>2. QED BY <2>1 DEF PastTable
<1>4. ASSUME NEW b \in FreshBatches, PastBatch(b, version) PROVE PastBatch(b, version')
  <2>1. ASSUME NEW i \in DOMAIN b PROVE b[i].entry.value <= version'[b[i].key]
    <3>1. b[i] \in FreshRows BY <2>1 DEF FreshBatches
    <3>2. b[i].key \in Keys /\ b[i].entry.value \in Nat
      BY <3>1, Numbers DEF FreshRows, FreshEntries, Entries
    <3>3. b[i].entry.value <= version[b[i].key] BY <1>4, <2>1 DEF PastBatch
    <3>4. QED BY <1>2, <3>2, <3>3
  <2>2. QED BY <2>1 DEF PastBatch
<1>5. PastStored'
  BY <1>3, <1>4 DEF IInv, Stored, PastInv, PastStored, Grow, memory, database
<1>6. ASSUME NEW w \in Workers PROVE PastJob(pc[w], job[w], version')
  <2>1. job[w].value \in Nat /\ job[w].key \in Keys BY CallFacts, Numbers
  <2>2. PastJob(pc[w], job[w], version) BY DEF PastInv, PastCalls
  <2>3. PastBatch(job[w].batch, version') /\ PastTable(job[w].rows, version')
    BY <1>3, <1>4, <2>2, CallFacts DEF PastJob
  <2>4. QED BY <1>2, <2>1, <2>2, <2>3 DEF PastJob
<1>7. PastCalls' BY <1>6 DEF PastCalls, Grow
<1>8. QED BY <1>5, <1>7 DEF PastInv

LEMMA StepPast ==
  ASSUME IInv, PastInv, NEW w \in Workers, Step(w)
  PROVE  PastInv'
<1>1. CASE CheckMem(w) BY <1>1, CheckMemPast
<1>2. CASE Connect(w)
  BY <1>2 DEF Connect, memory, PastInv, PastStored, PastCalls
<1>3. CASE Load(w) BY <1>3, LoadPast
<1>4. CASE LoadFails(w) BY <1>4, LoadFailsPast
<1>5. CASE Loaded(w) BY <1>5, LoadedPast
<1>6. CASE Compute(w) BY <1>6, ComputePast
<1>7. CASE Put(w) BY <1>7, PutPast
<1>8. CASE Take(w) BY <1>8, TakePast
<1>9. CASE Insert(w) BY <1>9, InsertPast
<1>10. CASE Commit(w) BY <1>10, CommitPast
<1>11. CASE Busy(w) BY <1>11, BusyPast
<1>12. CASE Unconnected(w) BY <1>12, UnconnectedPast
<1>13. CASE Flushed(w) BY <1>13, FlushedPast
<1>14. CASE PreloadRows(w) BY <1>14, PreloadRowsPast
<1>15. CASE Merge(w) BY <1>15, MergePast
<1>16. QED
  BY <1>1, <1>2, <1>3, <1>4, <1>5, <1>6, <1>7, <1>8, <1>9, <1>10, <1>11, <1>12, <1>13,
     <1>14, <1>15 DEF Step

LEMMA NextPast ==
  ASSUME IInv, PastInv, [Next]_vars
  PROVE  PastInv'
<1>1. ASSUME NEW w \in Workers, Step(w) PROVE PastInv' BY <1>1, StepPast
<1>2. ASSUME NEW w \in Workers, Preload(w) PROVE PastInv' BY <1>2, BeginPast DEF Preload
<1>3. ASSUME NEW w \in Workers, Exit(w) PROVE PastInv' BY <1>3, BeginPast DEF Exit
<1>4. ASSUME NEW w \in Workers, NEW k \in Keys, Memo(w, k) PROVE PastInv'
  BY <1>4, MemoPast
<1>5. ASSUME NEW p \in Procs, Kill(p) PROVE PastInv' BY <1>5, GonePast DEF Kill
<1>6. ASSUME NEW k \in Keys, Grow(k) PROVE PastInv' BY <1>6, GrowPast
<1>7. CASE UNCHANGED vars
  BY <1>7 DEF PastInv, PastStored, PastCalls, vars
<1>8. QED BY <1>1, <1>2, <1>3, <1>4, <1>5, <1>6, <1>7 DEF Next

-----------------------------------------------------------------------------
(* Each step is one of FreshReads *)

Question(j) == IF j.call = "memo" THEN [file |-> j.key, since |-> j.tag] ELSE NoEntry

LEMMA NoQuestion == Question(NoJob) = NoEntry BY DEF Question, NoJob

(* A step that leaves every call with its question, and answers none.       *)
LEMMA SilentMaps ==
  ASSUME \A w \in Workers : Question(job'[w]) = Question(job[w]),
         reply'.by # "memo", UNCHANGED version
  PROVE  Promise!Next
<1>1. Asked' = Asked BY DEF Asked, Question
<1>2. Answered' = NoEntry BY DEF Answered
<1>3. Promise!Silent BY <1>1, <1>2 DEF Promise!Silent
<1>4. QED BY <1>3 DEF Promise!Next

LEMMA SetMaps ==
  ASSUME IInv, NEW w \in Workers, NEW j, job' = [job EXCEPT ![w] = j],
         Question(j) = Question(job[w]), reply'.by # "memo", UNCHANGED version
  PROVE  Promise!Next
<1>1. \A u \in Workers : Question(job'[u]) = Question(job[u]) BY DEF IInv, Calls
<1>2. QED BY <1>1, SilentMaps

LEMMA SilentReply == Silent => reply'.by # "memo" BY DEF Silent, NoReply

(* The answer of memo is one that FreshReads gives.                         *)
LEMMA ReturnMaps ==
  ASSUME IInv, NEW w \in Workers, NEW value \in Versions, Return(w, value),
         UNCHANGED version,
         job[w].call = "memo" => job[w].tag <= value /\ value <= version[job[w].key]
  PROVE  Promise!Next
<1>1. job' = [job EXCEPT ![w] = NoJob] BY DEF Return
<1>2. CASE job[w].call # "memo"
  <2>1. reply'.by # "memo" BY <1>2 DEF Return, NoReply
  <2>2. Question(NoJob) = Question(job[w]) BY <1>2, NoQuestion DEF Question
  <2>3. QED BY <1>1, <2>1, <2>2, SetMaps
<1>3. CASE job[w].call = "memo"
  <2>1. Asked[w] = [file |-> job[w].key, since |-> job[w].tag] BY <1>3 DEF Asked
  <2>2. Asked[w] # NoEntry
    <3>1. Asked[w] \in [file : Keys, since : 0..MaxVersion]
      BY <2>1, CallFacts DEF Versions
    <3>2. QED BY <3>1, MarksAssumption
  <2>3. Asked' = [Asked EXCEPT ![w] = NoEntry]
    <3>1. \A u \in Workers : job'[u] = IF u = w THEN NoJob ELSE job[u]
      BY <1>1 DEF IInv, Calls
    <3>2. NoJob.call # "memo" BY DEF NoJob
    <3>3. QED BY <3>1, <3>2 DEF Asked
  <2>4. Answered' = [since |-> Asked[w].since, value |-> value]
    <3>1. reply' = [NoReply EXCEPT !.by = "memo", !.began = job[w].tag, !.value = value]
      BY <1>3 DEF Return
    <3>2. reply'.by = "memo" /\ reply'.began = job[w].tag /\ reply'.value = value
      BY <3>1 DEF NoReply
    <3>3. QED BY <2>1, <3>2 DEF Answered
  <2>5. value \in Asked[w].since..version[Asked[w].file]
    <3>1. job[w].tag \in Nat /\ value \in Nat /\ version[job[w].key] \in Nat
      BY CallFacts, Numbers DEF IInv, Calls
    <3>2. QED BY <1>3, <2>1, <3>1
  <2>6. Promise!Answer(w) BY <2>2, <2>3, <2>4, <2>5 DEF Promise!Answer
  <2>7. QED BY <2>6 DEF Promise!Next
<1>4. QED BY <1>2, <1>3

LEMMA MemoMaps ==
  ASSUME IInv, PastInv, NEW w \in Workers, NEW k \in Keys, Memo(w, k)
  PROVE  Promise!Next
<1> DEFINE j == [NoJob EXCEPT !.call = "memo", !.key = k, !.tag = version[k]]
<1>1. Asked[w] = NoEntry BY DEF Memo, PastInv, PastCalls, PastJob, Asked
<1>2. Asked' = [Asked EXCEPT ![w] = [file |-> k, since |-> version[k]]]
  <2>1. j.call = "memo" /\ j.key = k /\ j.tag = version[k] BY DEF NoJob
  <2>2. job' = [job EXCEPT ![w] = j] BY DEF Memo
  <2> HIDE DEF j
  <2>3. \A u \in Workers : job'[u] = IF u = w THEN j ELSE job[u]
    BY <2>2 DEF IInv, Calls
  <2>4. QED BY <2>1, <2>3 DEF Asked
<1>3. Answered' = NoEntry BY SilentReply DEF Memo, Answered
<1>4. version' = version BY DEF Memo
<1>5. Promise!Ask(w, k) BY <1>1, <1>2, <1>3, <1>4 DEF Promise!Ask
<1>6. QED BY <1>5 DEF Promise!Next

(* The questions of a process that ends are abandoned.                      *)
LEMMA GoneMaps ==
  ASSUME IInv, NEW p \in Procs, Gone(p)
  PROVE  Promise!Next
<1> DEFINE gone == {w \in Workers : procOf[w] = p}
<1>1. Asked' = [w \in Workers |-> IF w \in gone THEN NoEntry ELSE Asked[w]]
  <2>1. \A w \in Workers : job'[w] = IF procOf[w] = p THEN NoJob ELSE job[w] BY DEF Gone
  <2>2. NoJob.call # "memo" BY DEF NoJob
  <2>3. QED BY <2>1, <2>2 DEF Asked
<1>2. Answered' = NoEntry /\ version' = version BY SilentReply DEF Gone, Answered
<1>3. gone \in SUBSET Workers OBVIOUS
<1> HIDE DEF gone
<1>4. Promise!Abandon(gone) BY <1>1, <1>2 DEF Promise!Abandon
<1>5. QED BY <1>3, <1>4 DEF Promise!Next

LEMMA GrowMaps ==
  ASSUME NEW k \in Keys, Grow(k)
  PROVE  Promise!Next
<1>1. Asked' = Asked /\ Answered' = NoEntry BY SilentReply DEF Grow, Asked, Answered
<1>2. Promise!Grow(k) BY <1>1 DEF Grow, Promise!Grow
<1>3. QED BY <1>2 DEF Promise!Next

(* A value that is returned after the call looked at its file: not before   *)
(* the version it looked at, and not a version the file has not had.        *)
LEMMA ValueIsBetween ==
  ASSUME IInv, PastInv, NEW w \in Workers, pc[w] \in After
  PROVE  job[w].tag <= job[w].value /\ job[w].value <= version[job[w].key]
BY DEF IInv, Calls, Sane, PastInv, PastCalls, PastJob

LEMMA CheckMemMaps ==
  ASSUME IInv, PastInv, NEW w \in Workers, CheckMem(w)
  PROVE  Promise!Next
<1> DEFINE t == mem[procOf[w]]
           hit == t[job[w].key]
<1>1. CASE Valid(hit, job[w].tag) /\ Return(w, hit.value)
  <2>1. t \in FreshTables /\ PastTable(t, version)
    BY CallFacts DEF IInv, Stored, PastInv, PastStored
  <2> HIDE DEF t
  <2>2. hit.value \in Versions /\ job[w].tag <= hit.value
    BY <1>1, <2>1, CallFacts, ValidEntry
  <2>3. hit.value <= version[job[w].key] BY <1>1, <2>1, CallFacts, ValidIsPast
  <2>4. QED BY <1>1, <2>2, <2>3, ReturnMaps DEF CheckMem
<1>2. CASE Silent /\ UNCHANGED job
  BY <1>2, SilentReply, SilentMaps DEF CheckMem
<1>3. QED BY <1>1, <1>2 DEF CheckMem

LEMMA LoadMaps ==
  ASSUME IInv, NEW w \in Workers, Load(w)
  PROVE  Promise!Next
<1> DEFINE j == [job[w] EXCEPT !.value = Rows(procOf[w])[job[w].key].value]
<1>1. reply'.by # "memo" /\ version' = version BY SilentReply DEF Load
<1>2. CASE job' = [job EXCEPT ![w] = j]
  <2>1. j.call = job[w].call /\ j.key = job[w].key /\ j.tag = job[w].tag
    BY CallFacts DEF FreshJobs
  <2> HIDE DEF j
  <2>2. Question(j) = Question(job[w]) BY <2>1 DEF Question
  <2>3. QED BY <1>1, <1>2, <2>2, SetMaps
<1>3. CASE UNCHANGED job BY <1>1, <1>3, SilentMaps
<1>4. QED BY <1>2, <1>3 DEF Load, Set

LEMMA ComputeMaps ==
  ASSUME IInv, NEW w \in Workers, Compute(w)
  PROVE  Promise!Next
<1> DEFINE j == [job[w] EXCEPT !.value = version[job[w].key]]
<1>1. j.call = job[w].call /\ j.key = job[w].key /\ j.tag = job[w].tag
  BY CallFacts DEF FreshJobs
<1>2. job' = [job EXCEPT ![w] = j] BY DEF Compute, Set
<1> HIDE DEF j
<1>3. Question(j) = Question(job[w]) BY <1>1 DEF Question
<1>4. QED BY <1>2, <1>3, SilentReply, SetMaps DEF Compute

LEMMA TakeMaps ==
  ASSUME IInv, NEW w \in Workers, Take(w)
  PROVE  Promise!Next
<1> DEFINE j == [job[w] EXCEPT !.batch = pending[procOf[w]]]
<1>1. reply'.by # "memo" /\ version' = version BY SilentReply DEF Take
<1>2. CASE job' = [job EXCEPT ![w] = j]
  <2>1. j.call = job[w].call /\ j.key = job[w].key /\ j.tag = job[w].tag
    BY CallFacts DEF FreshJobs
  <2> HIDE DEF j
  <2>2. Question(j) = Question(job[w]) BY <2>1 DEF Question
  <2>3. QED BY <1>1, <1>2, <2>2, SetMaps
<1>3. CASE UNCHANGED job BY <1>1, <1>3, SilentMaps
<1>4. QED BY <1>2, <1>3 DEF Take, Set

LEMMA PutMaps ==
  ASSUME IInv, PastInv, NEW w \in Workers, Put(w)
  PROVE  Promise!Next
<1>1. CASE Return(w, job[w].value)
  <2>1. pc[w] \in After BY DEF Put, After
  <2>2. QED BY <1>1, <2>1, CallFacts, ValueIsBetween, ReturnMaps DEF Put
<1>2. CASE Silent /\ UNCHANGED job BY <1>2, SilentReply, SilentMaps DEF Put
<1>3. QED BY <1>1, <1>2 DEF Put

LEMMA FlushedMaps ==
  ASSUME IInv, PastInv, NEW w \in Workers, Flushed(w)
  PROVE  Promise!Next
<1>1. CASE Return(w, job[w].value) /\ UNCHANGED version
  <2>1. pc[w] \in After BY DEF Flushed, After
  <2>2. QED BY <1>1, <2>1, CallFacts, ValueIsBetween, ReturnMaps
<1>2. CASE Gone(procOf[w]) BY <1>2, CallFacts, GoneMaps
<1>3. QED BY <1>1, <1>2 DEF Flushed

(* A call of preload or of the exit's flush asks nothing.                   *)
LEMMA BeginMaps ==
  ASSUME IInv, PastInv, NEW w \in Workers, NEW call \in {"preload", "exit"},
         pc[w] = "idle", job' = [job EXCEPT ![w] = [NoJob EXCEPT !.call = call]], Silent,
         UNCHANGED version
  PROVE  Promise!Next
<1> DEFINE j == [NoJob EXCEPT !.call = call]
<1>1. Question(j) = NoEntry BY DEF Question, NoJob
<1>2. Question(job[w]) = NoEntry BY DEF Question, PastInv, PastCalls, PastJob
<1>3. job' = [job EXCEPT ![w] = j] OBVIOUS
<1> HIDE DEF j
<1>4. QED BY <1>1, <1>2, <1>3, SilentReply, SetMaps

LEMMA PreloadRowsMaps ==
  ASSUME IInv, NEW w \in Workers, PreloadRows(w)
  PROVE  Promise!Next
<1> DEFINE j == [job[w] EXCEPT !.rows = Rows(procOf[w])]
<1>1. job[w].call = "preload" /\ version' = version
  BY CallFacts DEF PreloadRows, Sane
<1>2. CASE job' = [job EXCEPT ![w] = j] /\ Silent
  <2>1. j.call = job[w].call BY CallFacts DEF FreshJobs
  <2> HIDE DEF j
  <2>2. Question(j) = Question(job[w]) BY <1>1, <2>1 DEF Question
  <2>3. QED BY <1>1, <1>2, <2>2, SilentReply, SetMaps
<1>3. CASE Return(w, 0) BY <1>1, <1>3, Numbers, ReturnMaps
<1>4. QED BY <1>2, <1>3 DEF PreloadRows, Set

LEMMA StepMaps ==
  ASSUME IInv, PastInv, NEW w \in Workers, Step(w)
  PROVE  Promise!Next
<1>1. CASE CheckMem(w) BY <1>1, CheckMemMaps
<1>2. CASE Load(w) BY <1>2, LoadMaps
<1>3. CASE Compute(w) BY <1>3, ComputeMaps
<1>4. CASE Loaded(w)
  <2>1. pc[w] \in After BY <1>4 DEF Loaded, After
  <2>2. QED BY <1>4, <2>1, CallFacts, ValueIsBetween, ReturnMaps DEF Loaded
<1>5. CASE Put(w) BY <1>5, PutMaps
<1>6. CASE Take(w) BY <1>6, TakeMaps
<1>7. CASE Connect(w) \/ LoadFails(w) \/ Insert(w) \/ Commit(w) \/ Unconnected(w)
  <2>1. Silent /\ UNCHANGED <<job, version>>
    BY <1>7 DEF Connect, LoadFails, Insert, Commit, Unconnected
  <2>2. QED BY <2>1, SilentReply, SilentMaps
<1>8. CASE Busy(w)
  <2>1. reply'.by # "memo" BY <1>8 DEF Busy, NoReply
  <2>2. QED BY <1>8, <2>1, SilentMaps DEF Busy
<1>9. CASE Flushed(w) BY <1>9, FlushedMaps
<1>10. CASE PreloadRows(w) BY <1>10, PreloadRowsMaps
<1>11. CASE Merge(w)
  <2>1. job[w].call = "preload" BY <1>11, CallFacts DEF Merge, Sane
  <2>2. QED BY <1>11, <2>1, Numbers, ReturnMaps DEF Merge
<1>12. QED
  BY <1>1, <1>2, <1>3, <1>4, <1>5, <1>6, <1>7, <1>8, <1>9, <1>10, <1>11 DEF Step

LEMMA NextMaps ==
  ASSUME IInv, PastInv, [Next]_vars
  PROVE  [Promise!Next]_(Promise!vars)
<1>1. ASSUME NEW w \in Workers, Step(w) PROVE Promise!Next BY <1>1, StepMaps
<1>2. ASSUME NEW w \in Workers, Preload(w) PROVE Promise!Next
  BY <1>2, BeginMaps DEF Preload
<1>3. ASSUME NEW w \in Workers, Exit(w) PROVE Promise!Next
  <2>1. pc[w] = "idle" BY <1>3 DEF Exit
  <2>2. QED BY <1>3, <2>1, BeginMaps DEF Exit
<1>4. ASSUME NEW w \in Workers, NEW k \in Keys, Memo(w, k) PROVE Promise!Next
  BY <1>4, MemoMaps
<1>5. ASSUME NEW p \in Procs, Kill(p) PROVE Promise!Next BY <1>5, GoneMaps DEF Kill
<1>6. ASSUME NEW k \in Keys, Grow(k) PROVE Promise!Next BY <1>6, GrowMaps
<1>7. CASE UNCHANGED vars
  <2>1. Asked' = Asked /\ Answered' = Answered /\ version' = version
    BY <1>7 DEF vars, Asked, Answered
  <2>2. QED BY <2>1 DEF Promise!vars
<1>8. QED BY <1>1, <1>2, <1>3, <1>4, <1>5, <1>6, <1>7 DEF Next

LEMMA InitMaps == Init => Promise!Init
<1> SUFFICES ASSUME Init PROVE Promise!Init
  OBVIOUS
<1>1. Asked = [w \in Workers |-> NoEntry] BY DEF Init, Asked, NoJob
<1>2. Answered = NoEntry BY DEF Init, Answered, NoReply
<1>3. QED BY <1>1, <1>2 DEF Init, Promise!Init

(* Whatever threads, processes, flushes and crashes do to the tables and    *)
(* the database of _scancache.py, a call of memo is answered once, with     *)
(* what its probe gives on the file at a moment of the call.                *)
THEOREM MemoImplementsFreshReads == Spec => ProbesAreFresh
<1>1. Init => IInv /\ PastInv /\ Promise!Init BY InitInv, InitPast, InitMaps
<1>2. IInv /\ PastInv /\ [Next]_vars => IInv' /\ PastInv' BY NextInv, NextPast
<1>3. IInv /\ PastInv /\ [Next]_vars => [Promise!Next]_(Promise!vars) BY NextMaps
<1>4. QED BY <1>1, <1>2, <1>3, PTL DEF Spec, ProbesAreFresh, Promise!Spec
=============================================================================
