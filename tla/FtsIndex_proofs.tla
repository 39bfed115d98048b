--------------------------- MODULE FtsIndex_proofs ---------------------------
(* Proofs about FtsIndex, for every set of commands, records and scopes.    *)
EXTENDS FtsIndex, FiniteSetTheorems, TLAPS

-----------------------------------------------------------------------------
(* Type correctness *)

Holders == {"records", "parse", "write", "stamp"}

LEMMA EmptyType == Empty \in Contents /\ NoJob \in Jobs /\ NoReply \in Replies
<1>1. 0 \in Times BY MaxAppendsAssumption DEF Times
<1>2. [r \in Records |-> {}] \in [Records -> SUBSET Times]
  OBVIOUS
<1>3. [r \in Records |-> NoRow] \in [Records -> Times \cup {NoRow}]
  OBVIOUS
<1>4. [r \in Records |-> 0] \in [Records -> Times] BY <1>1
<1>5. Empty \in Contents
  <2>1. {} \in SUBSET Records OBVIOUS
  <2>2. QED BY <1>2, <1>3, <2>1 DEF Empty, Contents
<1>6. NoJob \in Jobs BY <1>1, <1>4 DEF NoJob, Jobs
<1>7. NoReply \in Replies BY <1>2, <1>4 DEF NoReply, NoJob, Empty, Replies
<1>8. QED BY <1>5, <1>6, <1>7

LEMMA InitType == Init => TypeOK
<1> SUFFICES ASSUME Init PROVE TypeOK
  OBVIOUS
<1>1. 0 \in Times BY MaxAppendsAssumption DEF Times
<1>2. version \in [Records -> Times] /\ now \in Times /\ gone \subseteq Records
  BY <1>1 DEF Init
<1>3. index \in Contents /\ txn \in Contents /\ reply \in Replies
  BY EmptyType DEF Init
<1>4. pc \in [Procs -> Labels] BY DEF Init, Labels
<1>5. job \in [Procs -> Jobs] BY EmptyType DEF Init
<1>6. lock = NoProc /\ file \in BOOLEAN /\ tables \in BOOLEAN /\ built \in BOOLEAN
        /\ passedBy \subseteq Records
  BY DEF Init
<1>7. QED BY <1>2, <1>3, <1>4, <1>5, <1>6 DEF TypeOK

(* A command that ends, failing or not, leaves the types and the lock.      *)
LEMMA RollbackType ==
  ASSUME TypeOK, NEW p \in Procs, Rollback(p), End(p)
  PROVE  /\ file' \in BOOLEAN /\ tables' \in BOOLEAN /\ index' \in Contents /\ txn' \in Contents
         /\ lock' \in Procs \cup {NoProc}
         /\ pc' \in [Procs -> Labels] /\ job' \in [Procs -> Jobs]
         /\ lock' # NoProc => pc'[lock'] \in Holders
<1>1. file' \in BOOLEAN /\ tables' \in BOOLEAN /\ index' \in Contents
  BY DEF TypeOK, Rollback
<1>2. txn' \in Contents /\ lock' \in Procs \cup {NoProc}
  BY EmptyType DEF TypeOK, Rollback
<1>3. pc' \in [Procs -> Labels] /\ job' \in [Procs -> Jobs]
  BY EmptyType DEF TypeOK, End, Goto, Labels
<1>4. lock' # NoProc => lock' = lock /\ lock # p
  BY DEF Rollback
<1>5. lock' # NoProc => pc'[lock'] \in Holders
  BY <1>4 DEF TypeOK, End, Goto, Holders
<1>6. QED BY <1>1, <1>2, <1>3, <1>5

LEMMA FailType ==
  ASSUME TypeOK, NEW p \in Procs, Fail(p)
  PROVE  TypeOK'
<1>1. Rollback(p) /\ End(p) BY DEF Fail
<1>2. reply' \in Replies
  <2>1. [NoReply EXCEPT !.by = "grep"] \in Replies BY EmptyType DEF Replies
  <2>2. QED BY <2>1, EmptyType DEF Fail
<1>3. UNCHANGED <<version, now, gone, built, passedBy>>
  BY DEF Fail, sources, history
<1>4. QED BY <1>1, <1>2, <1>3, RollbackType DEF TypeOK, Holders

LEMMA CoversType ==
  ASSUME TypeOK, NEW p \in Procs, NEW scope \in SUBSET Records,
         NEW mode \in {"refresh", "search"}, Covers(p, mode, scope)
  PROVE  /\ job' \in [Procs -> Jobs] /\ reply' \in Replies
         /\ UNCHANGED <<version, now, gone>>
<1>1. 0 \in Times BY MaxAppendsAssumption DEF Times
<1> DEFINE j == [NoJob EXCEPT
       !.mode = mode, !.todo = scope,
       !.seen = [r \in Records |-> IF r \in scope THEN version[r] ELSE 0]]
<1>2. [r \in Records |-> IF r \in scope THEN version[r] ELSE 0] \in [Records -> Times]
  BY <1>1 DEF TypeOK
<1>3. j \in Jobs BY <1>2, EmptyType DEF Jobs
<1>4. job' = [job EXCEPT ![p] = j] BY DEF Covers
<1>5. job' \in [Procs -> Jobs] BY <1>3, <1>4 DEF TypeOK
<1>6. QED BY <1>5, EmptyType DEF Covers, sources

LEMMA ViewIsContents ==
  ASSUME TypeOK, NEW p \in Procs
  PROVE  View(p) \in Contents
BY DEF TypeOK, View

LEMMA MtimeType == TypeOK => \A r \in Records : SourceMtime(r) \in Times
<1>1. 0 \in Times BY MaxAppendsAssumption DEF Times
<1>2. QED BY <1>1 DEF TypeOK, SourceMtime

(* Updates of one command's locals.                                         *)
LEMMA JobType ==
  ASSUME TypeOK, NEW p \in Procs, NEW j \in Jobs
  PROVE  [job EXCEPT ![p] = j] \in [Procs -> Jobs]
BY DEF TypeOK

LEMMA DoneType ==
  ASSUME TypeOK, NEW p \in Procs, NEW r \in Records
  PROVE  Done(p, r) \in [Procs -> Jobs]
<1>1. 0 \in Times BY MaxAppendsAssumption DEF Times
<1>2. job[p] \in Jobs BY DEF TypeOK
<1>3. [job[p] EXCEPT !.todo = job[p].todo \ {r}, !.rec = {}, !.got = 0] \in Jobs
  BY <1>1, <1>2 DEF Jobs
<1>4. QED BY <1>3, JobType DEF Done

(* A step that moves only one command, which keeps its lock if it has it.   *)
LEMMA MoveType ==
  ASSUME TypeOK, NEW p \in Procs, NEW label \in Labels, Goto(p, label),
         lock = p => label \in Holders
  PROVE  /\ pc' \in [Procs -> Labels]
         /\ lock # NoProc => pc'[lock] \in Holders
BY DEF TypeOK, Goto, Holders

LEMMA BuildType ==
  ASSUME TypeOK, NEW p \in Procs, Build(p)
  PROVE  TypeOK'
<1> USE DEF sources, store, history
<1>0. 0 \in Times /\ NoReply \in Replies BY EmptyType, MaxAppendsAssumption DEF Times
<1>1. CASE Connect(p)
  <2>1. lock # p BY <1>1, MarksAssumption DEF TypeOK, Connect
  <2>2. Goto(p, "schema") /\ "schema" \in Labels BY <1>1 DEF Connect, Labels
  <2>3. QED BY <1>0, <1>1, <2>1, <2>2, MoveType DEF TypeOK, Connect, Holders
<1>2. CASE InitSchema(p)
  <2>1. Goto(p, "records") /\ "records" \in Labels /\ "records" \in Holders
    BY <1>2 DEF InitSchema, Labels, Holders
  <2>2. QED BY <1>0, <1>2, <2>1, MoveType DEF TypeOK, InitSchema, Holders
<1>3. CASE LockTimeout(p)
  BY <1>3, FailType DEF LockTimeout
<1>4. CASE Commit(p)
  <2>1. View(p) \in Contents BY ViewIsContents
  <2>2. reply' \in Replies
    BY <1>0, <1>4, <2>1 DEF TypeOK, Commit, Replies, Jobs, Contents
  <2>3. index' \in Contents /\ txn' \in Contents BY <1>4, <2>1, EmptyType DEF TypeOK, Commit
  <2>4. pc' \in [Procs -> Labels] /\ job' \in [Procs -> Jobs]
    BY <1>4, EmptyType DEF TypeOK, Commit, End, Goto, Labels
  <2>5. lock' \in Procs \cup {NoProc} /\ (lock' # NoProc => lock' = lock /\ lock # p)
    BY <1>4 DEF TypeOK, Commit
  <2>6. \A q \in Procs : q # p => pc'[q] = pc[q]
    BY <1>4 DEF TypeOK, Commit, End, Goto
  <2>7. lock' # NoProc => pc'[lock'] \in Holders
    BY <2>5, <2>6 DEF TypeOK, Holders
  <2>8. built' \in BOOLEAN /\ UNCHANGED <<version, now, gone, file, tables, passedBy>>
    BY <1>4 DEF Commit
  <2>9. QED BY <2>2, <2>3, <2>4, <2>5, <2>7, <2>8 DEF TypeOK, Holders
<1>5. ASSUME NEW r \in Records, Missing(p, r) PROVE TypeOK'
  BY <1>0, <1>5, DoneType DEF TypeOK, Missing
<1>6. ASSUME NEW r \in Records, Take(p, r) PROVE TypeOK'
  <2>1. job[p] \in Jobs BY DEF TypeOK
  <2>2. [job[p] EXCEPT !.rec = {r}] \in Jobs BY <1>6, <2>1 DEF Jobs
  <2>3. job' \in [Procs -> Jobs]
    <3>1. CASE job' = Done(p, r) BY <3>1, DoneType
    <3>2. CASE job' = [job EXCEPT ![p] = [job[p] EXCEPT !.rec = {r}]]
      BY <2>2, <3>2, JobType
    <3>3. QED BY <1>6, <3>1, <3>2 DEF Take
  <2>4. pc' \in [Procs -> Labels] /\ (lock # NoProc => pc'[lock] \in Holders)
    BY <1>6 DEF TypeOK, Take, Goto, Labels, Holders
  <2>5. QED BY <1>0, <1>6, <2>3, <2>4 DEF TypeOK, Take, Holders
<1>7. ASSUME NEW r \in Records, Parse(p, r) PROVE TypeOK'
  <2>1. job[p] \in Jobs /\ version[r] \in Times BY <1>7 DEF TypeOK
  <2>2. [job[p] EXCEPT !.got = version[r]] \in Jobs BY <2>1 DEF Jobs
  <2>3. job' \in [Procs -> Jobs] BY <1>7, <2>2, JobType DEF Parse
  <2>4. pc' \in [Procs -> Labels] /\ (lock # NoProc => pc'[lock] \in Holders)
    BY <1>7 DEF TypeOK, Parse, Goto, Labels, Holders
  <2>5. QED BY <1>0, <1>7, <2>3, <2>4 DEF TypeOK, Parse, Holders
<1>8. ASSUME NEW r \in Records, ParseNone(p, r) PROVE TypeOK'
  <2>1. pc' \in [Procs -> Labels] /\ (lock # NoProc => pc'[lock] \in Holders)
    BY <1>8 DEF TypeOK, ParseNone, Goto, Labels, Holders
  <2>2. QED BY <1>0, <1>8, <2>1, DoneType DEF TypeOK, ParseNone, Holders
<1>9. ASSUME NEW r \in Records, ParseRaises(p, r) PROVE TypeOK'
  BY <1>9, FailType DEF ParseRaises
<1>10. ASSUME NEW r \in Records, WriteRows(p, r) PROVE TypeOK'
  <2>1. View(p) \in Contents /\ job[p].got \in Times
    BY ViewIsContents DEF TypeOK, Jobs
  <2>2. Rows(p, r) \in [Records -> SUBSET Times]
    BY <2>1 DEF Rows, Contents
  <2>3. txn' \in Contents BY <1>10, <2>1, <2>2 DEF WriteRows, Contents
  <2>4. pc' \in [Procs -> Labels] /\ lock' = p /\ pc'[p] \in Holders
    BY <1>10 DEF TypeOK, WriteRows, Goto, Labels, Holders
  <2>5. QED BY <1>0, <1>10, <2>3, <2>4 DEF TypeOK, WriteRows, Holders
<1>11. ASSUME NEW r \in Records, Stamp(p, r) PROVE TypeOK'
  <2>1. SourceMtime(r) \in Times BY MtimeType
  <2>2. txn' \in Contents
    <3>1. [txn.mtimes EXCEPT ![r] = SourceMtime(r)] \in [Records -> Times \cup {NoRow}]
      BY <2>1 DEF TypeOK, Contents
    <3>2. txn.rows \in [Records -> SUBSET Times] /\ txn.late \subseteq Records
      BY DEF TypeOK, Contents
    <3>3. QED BY <1>11, <3>1, <3>2 DEF Stamp, Contents
  <2>3. pc' \in [Procs -> Labels] /\ (lock # NoProc => pc'[lock] \in Holders)
    BY <1>11 DEF TypeOK, Stamp, Goto, Labels, Holders
  <2>4. QED BY <1>0, <1>11, <2>2, <2>3, DoneType DEF TypeOK, Stamp, Holders
<1>12. QED
  BY <1>1, <1>2, <1>3, <1>4, <1>5, <1>6, <1>7, <1>8, <1>9, <1>10, <1>11 DEF Build

LEMMA SearchType ==
  ASSUME TypeOK, NEW p \in Procs,
         Refresh(p) \/ Search(p) \/ ReadNewest(p) \/ CompareDisk(p) \/ Query(p)
  PROVE  TypeOK'
<1> USE DEF sources, store, history
<1>0. 0 \in Times /\ NoReply \in Replies BY EmptyType, MaxAppendsAssumption DEF Times
<1>1. CASE Refresh(p)
  <2>1. PICK scope \in Scopes : Covers(p, "refresh", scope) BY <1>1 DEF Refresh
  <2>2. scope \in SUBSET Records BY <2>1, RecordsAssumption
  <2>3. pc' \in [Procs -> Labels] /\ (lock # NoProc => pc'[lock] \in Holders)
    BY <1>1 DEF TypeOK, Refresh, Goto, Labels, Holders
  <2>4. QED BY <1>1, <2>1, <2>2, <2>3, CoversType DEF TypeOK, Refresh, Holders
<1>2. CASE Search(p)
  <2>1. PICK scope \in SUBSET Records : Covers(p, "search", scope) BY <1>2 DEF Search
  <2>2. pc' \in [Procs -> Labels] /\ (lock # NoProc => pc'[lock] \in Holders)
    BY <1>2 DEF TypeOK, Search, Goto, Labels, Holders
  <2>3. QED BY <1>2, <2>1, <2>2, CoversType DEF TypeOK, Search, Holders
<1>3. CASE ReadNewest(p)
  <2>1. pc' \in [Procs -> Labels] /\ (lock # NoProc => pc'[lock] \in Holders)
    BY <1>3 DEF TypeOK, ReadNewest, Goto, Labels, Holders
  <2>2. IndexedMtimes \subseteq Times
    BY <1>0 DEF TypeOK, IndexedMtimes, Contents
  <2>3. job[p] \in Jobs BY DEF TypeOK
  <2>4. \A n \in Times : [job[p] EXCEPT !.got = n] \in Jobs BY <2>3 DEF Jobs
  <2>5. job' \in [Procs -> Jobs]
    <3>1. CASE UNCHANGED job BY <3>1 DEF TypeOK
    <3>2. CASE \E n \in IndexedMtimes : job' = [job EXCEPT ![p] = [job[p] EXCEPT !.got = n]]
      BY <3>2, <2>2, <2>4, JobType
    <3>3. QED BY <1>3, <3>1, <3>2 DEF ReadNewest
  <2>6. QED BY <1>0, <1>3, <2>1, <2>5 DEF TypeOK, ReadNewest, Holders
<1>4. CASE CompareDisk(p)
  <2>1. pc' \in [Procs -> Labels] /\ (lock # NoProc => pc'[lock] \in Holders)
    BY <1>4 DEF TypeOK, CompareDisk, Goto, Labels, Holders
  <2>2. [r \in Records |-> SourceMtime(r)] \in [Records -> Times] BY MtimeType
  <2>3. Freshness(job[p].got) \in {"unknown", "fresh", "stale"} BY DEF Freshness
  <2>4. job[p] \in Jobs BY DEF TypeOK
  <2>5. [job[p] EXCEPT !.freshness = Freshness(job[p].got), !.got = 0,
                       !.seen = [r \in Records |-> SourceMtime(r)]] \in Jobs
    BY <1>0, <2>2, <2>3, <2>4 DEF Jobs
  <2>6. job' \in [Procs -> Jobs] BY <1>4, <2>5, JobType DEF CompareDisk
  <2>7. QED BY <1>0, <1>4, <2>1, <2>6 DEF TypeOK, CompareDisk, Holders
<1>5. CASE Query(p)
  <2>1. pc' \in [Procs -> Labels] /\ (lock # NoProc => pc'[lock] \in Holders)
    BY <1>5 DEF TypeOK, Query, End, Goto, Labels, Holders
  <2>2. Joined \in [Records -> SUBSET Times] BY DEF TypeOK, Joined, Contents
  <2>3. job[p].seen \in [Records -> Times] BY DEF TypeOK, Jobs
  <2>4. [by |-> "index", fresh |-> job[p].freshness = "fresh",
         seen |-> job[p].seen, hits |-> Joined] \in Replies
    BY <2>2, <2>3 DEF Replies
  <2>5. [NoReply EXCEPT !.by = "grep"] \in Replies BY <1>0 DEF Replies
  <2>6. reply' \in Replies BY <1>5, <2>4, <2>5 DEF Query
  <2>7. job' \in [Procs -> Jobs] BY <1>5, EmptyType DEF TypeOK, Query, End
  <2>8. QED BY <1>5, <2>1, <2>6, <2>7 DEF TypeOK, Query, Holders
<1>6. QED BY <1>1, <1>2, <1>3, <1>4, <1>5

LEMMA TypeStep == TypeOK /\ [Next]_vars => TypeOK'
<1> SUFFICES ASSUME TypeOK, [Next]_vars PROVE TypeOK'
  OBVIOUS
<1>1. ASSUME NEW p \in Procs, Kill(p) PROVE TypeOK'
  BY <1>1, RollbackType, EmptyType DEF TypeOK, Kill, Holders, sources, history
<1>2. ASSUME NEW r \in Records, Append(r) PROVE TypeOK'
  <2>1. now + 1 \in Times BY <1>2, MaxAppendsAssumption DEF TypeOK, Append, Times
  <2>2. version' \in [Records -> Times] /\ now' \in Times
    BY <1>2, <2>1 DEF TypeOK, Append
  <2>3. passedBy' \subseteq Records BY <1>2 DEF TypeOK, Append
  <2>4. QED BY <1>2, <2>2, <2>3, EmptyType DEF TypeOK, Append, store
<1>3. ASSUME NEW r \in Records, Delete(r) PROVE TypeOK'
  BY <1>3, EmptyType DEF TypeOK, Delete, store, history
<1>4. CASE UNCHANGED vars BY <1>4 DEF TypeOK, vars
<1>5. QED BY <1>1, <1>2, <1>3, <1>4, BuildType, SearchType DEF Next

(* The variables have their types, and the write transaction is held by a   *)
(* command that is between its first write and its commit (build_index).    *)
THEOREM TypeCorrect == Spec => []TypeOK
<1>1. Init => TypeOK BY InitType
<1>2. TypeOK /\ [Next]_vars => TypeOK' BY TypeStep
<1>3. QED BY <1>1, <1>2, PTL DEF Spec

-----------------------------------------------------------------------------
(* A session is never in the index twice *)

(* All records are whole, except that the rows of the ones in E, which have *)
(* been written, may not have their record yet.                             *)
Whole(i, E) ==
  \A r \in Records :
    \/ i.rows[r] = {} /\ i.mtimes[r] = NoRow /\ r \notin E
    \/ (\E v \in Times : i.rows[r] = {v}) /\ (i.mtimes[r] # NoRow \/ r \in E)

Unstamped(p) == IF pc[p] = "stamp" THEN job[p].rec ELSE {}

(* OneVersionPerSession is not inductive: a commit publishes what the       *)
(* transaction holds, so it is strengthened with the same fact of the open  *)
(* transaction, between the writes of its one record in progress.           *)
OnceInv ==
  /\ Whole(index, {})
  /\ \A p \in Procs : pc[p] = "stamp" => lock = p
  /\ lock # NoProc => Whole(txn, Unstamped(lock))

LEMMA OnceImplies == TypeOK /\ OnceInv => OneVersionPerSession
<1> SUFFICES ASSUME OnceInv, NEW r \in Records
             PROVE  /\ Cardinality(index.rows[r]) <= 1
                    /\ index.rows[r] = {} <=> index.mtimes[r] = NoRow
  BY DEF OneVersionPerSession
<1>1. CASE index.rows[r] = {} /\ index.mtimes[r] = NoRow
  BY <1>1, FS_EmptySet
<1>2. CASE (\E v \in Times : index.rows[r] = {v}) /\ index.mtimes[r] # NoRow
  BY <1>2, FS_Singleton
<1>3. QED BY <1>1, <1>2 DEF OnceInv, Whole

LEMMA OnceInit == Init => OnceInv
<1> SUFFICES ASSUME Init PROVE OnceInv
  OBVIOUS
<1>1. Whole(index, {}) BY DEF Init, Empty, Whole
<1>2. QED BY <1>1 DEF Init, OnceInv

(* A step of one command that writes nothing.                               *)
LEMMA OnceFrame ==
  ASSUME TypeOK, OnceInv, NEW p \in Procs, UNCHANGED <<index, txn, lock>>,
         \A q \in Procs \ {p} : pc'[q] = pc[q] /\ job'[q] = job[q],
         pc[p] # "stamp", pc'[p] # "stamp"
  PROVE  OnceInv'
<1>1. Whole(index, {})' BY DEF OnceInv, Whole
<1>2. \A q \in Procs : pc'[q] = "stamp" => lock' = q BY DEF OnceInv
<1>3. ASSUME lock # NoProc PROVE Whole(txn, Unstamped(lock))'
  <2>1. lock \in Procs BY <1>3 DEF TypeOK
  <2>2. Unstamped(lock)' = Unstamped(lock) BY <2>1 DEF Unstamped
  <2>3. QED BY <1>3, <2>2 DEF OnceInv, Whole
<1>4. QED BY <1>1, <1>2, <1>3 DEF OnceInv

(* The end of a command, whatever it was doing.                             *)
LEMMA OnceRollback ==
  ASSUME TypeOK, OnceInv, NEW p \in Procs, Rollback(p), End(p)
  PROVE  OnceInv'
<1>1. Whole(index, {})' BY DEF OnceInv, Whole, Rollback
<1>2. \A q \in Procs : pc'[q] = "stamp" => lock' = q
  BY DEF OnceInv, TypeOK, Rollback, End, Goto
<1>3. ASSUME lock' # NoProc PROVE Whole(txn, Unstamped(lock))'
  <2>1. lock' = lock /\ txn' = txn /\ lock # p /\ lock \in Procs
    BY <1>3 DEF Rollback, TypeOK
  <2>2. Unstamped(lock)' = Unstamped(lock)
    BY <2>1 DEF Unstamped, TypeOK, End, Goto
  <2>3. QED BY <1>3, <2>1, <2>2 DEF OnceInv, Whole
<1>4. QED BY <1>1, <1>2, <1>3 DEF OnceInv

LEMMA OnceWrite ==
  ASSUME TypeOK, OnceInv, NEW p \in Procs, NEW r \in Records, WriteRows(p, r)
  PROVE  OnceInv'
<1>1. lock' = p /\ lock' # NoProc /\ pc'[p] = "stamp" /\ job' = job /\ index' = index
  BY MarksAssumption DEF TypeOK, WriteRows, Goto
<1>2. Unstamped(lock)' = {r} BY <1>1 DEF Unstamped, WriteRows
<1>3. Whole(View(p), {}) /\ View(p) \in Contents
  <2>1. CASE lock = p
    BY <1>1, <2>1, ViewIsContents DEF OnceInv, View, WriteRows, Unstamped
  <2>2. CASE lock # p
    BY <2>2, ViewIsContents DEF OnceInv, View
  <2>3. QED BY <2>1, <2>2
<1>4. job[p].got \in Times BY DEF TypeOK, Jobs
<1>5. /\ txn'.mtimes = View(p).mtimes
      /\ \A q \in Records : txn'.rows[q] = IF q = r THEN {job[p].got} ELSE View(p).rows[q]
  <2>1. txn' = [View(p) EXCEPT !.rows = Rows(p, r)] BY DEF WriteRows
  <2>2. txn'.mtimes = View(p).mtimes /\ txn'.rows = Rows(p, r)
    BY <1>3, <2>1 DEF Contents
  <2>3. View(p).rows \in [Records -> SUBSET Times] BY <1>3 DEF Contents
  <2>4. QED BY <2>2, <2>3 DEF Rows
<1>6. Whole(txn, Unstamped(lock))'
  <2>1. ASSUME NEW q \in Records
        PROVE  \/ txn'.rows[q] = {} /\ txn'.mtimes[q] = NoRow /\ q \notin {r}
               \/ (\E v \in Times : txn'.rows[q] = {v}) /\ (txn'.mtimes[q] # NoRow \/ q \in {r})
    <3>1. CASE q = r BY <3>1, <1>4, <1>5
    <3>2. CASE q # r BY <3>2, <1>3, <1>5 DEF Whole
    <3>3. QED BY <3>1, <3>2
  <2>2. Whole(txn', {r}) BY <2>1 DEF Whole
  <2>3. QED BY <2>2, <1>2 DEF Whole
<1>7. \A q \in Procs : pc'[q] = "stamp" => lock' = q
  BY <1>1, MarksAssumption DEF OnceInv, TypeOK, WriteRows, Goto
<1>8. QED BY <1>1, <1>6, <1>7 DEF OnceInv, Whole

LEMMA OnceStamp ==
  ASSUME TypeOK, OnceInv, NEW p \in Procs, NEW r \in Records, Stamp(p, r)
  PROVE  OnceInv'
<1>1. lock = p /\ lock' = p /\ lock # NoProc /\ pc'[p] = "records" /\ index' = index
  BY MarksAssumption DEF OnceInv, TypeOK, Stamp, Goto
<1>2. Whole(txn, {r}) BY <1>1 DEF OnceInv, Unstamped, Stamp
<1>3. txn \in Contents /\ SourceMtime(r) \in Times BY MtimeType DEF TypeOK
<1>4. /\ txn'.rows = txn.rows
      /\ \A q \in Records : txn'.mtimes[q] = IF q = r THEN SourceMtime(r) ELSE txn.mtimes[q]
  BY <1>3 DEF Stamp, Contents
<1>5. SourceMtime(r) # NoRow BY <1>3, MarksAssumption DEF Times
<1>6. Whole(txn, {})' BY <1>2, <1>4, <1>5 DEF Whole
<1>7. Unstamped(lock)' = {} BY <1>1 DEF Unstamped
<1>8. \A q \in Procs : pc'[q] = "stamp" => lock' = q
  BY <1>1 DEF OnceInv, TypeOK, Stamp, Goto
<1>9. QED BY <1>1, <1>6, <1>7, <1>8 DEF OnceInv, Whole

LEMMA OnceCommit ==
  ASSUME TypeOK, OnceInv, NEW p \in Procs, Commit(p)
  PROVE  OnceInv'
<1>1. pc[p] = "records" /\ pc'[p] # "stamp"
  BY DEF TypeOK, Commit, End, Goto
<1>2. \A q \in Procs \ {p} : pc'[q] = pc[q] /\ job'[q] = job[q]
  BY DEF TypeOK, Commit, End, Goto
<1>3. Whole(View(p), {})
  <2>1. CASE lock = p
    BY <1>1, <2>1, MarksAssumption DEF OnceInv, View, Unstamped
  <2>2. CASE lock # p
    BY <2>2 DEF OnceInv, View
  <2>3. QED BY <2>1, <2>2
<1>4. Whole(index, {})' BY <1>3 DEF Commit, Whole
<1>5. \A q \in Procs : pc'[q] = "stamp" => lock' = q
  BY <1>1, <1>2 DEF OnceInv, Commit
<1>6. ASSUME lock' # NoProc PROVE Whole(txn, Unstamped(lock))'
  <2>1. lock' = lock /\ txn' = txn /\ lock # p /\ lock \in Procs
    BY <1>6 DEF Commit, TypeOK
  <2>2. Unstamped(lock)' = Unstamped(lock) BY <1>2, <2>1 DEF Unstamped
  <2>3. QED BY <1>6, <2>1, <2>2 DEF OnceInv, Whole
<1>7. QED BY <1>4, <1>5, <1>6 DEF OnceInv

LEMMA OnceStep == TypeOK /\ OnceInv /\ [Next]_vars => OnceInv'
<1> SUFFICES ASSUME TypeOK, OnceInv, [Next]_vars PROVE OnceInv'
  OBVIOUS
<1> USE DEF sources, store
<1>1. ASSUME NEW p \in Procs, Connect(p) \/ InitSchema(p) PROVE OnceInv'
  BY <1>1, OnceFrame DEF TypeOK, Connect, InitSchema, Goto
<1>2. ASSUME NEW p \in Procs, NEW r \in Records, Missing(p, r) \/ Parse(p, r) \/ ParseNone(p, r)
      PROVE OnceInv'
  BY <1>2, OnceFrame DEF TypeOK, Missing, Parse, ParseNone, Done, Goto
<1>3. ASSUME NEW p \in Procs, NEW r \in Records, Take(p, r) PROVE OnceInv'
  <2>1. pc[p] # "stamp" /\ pc'[p] # "stamp" BY <1>3 DEF TypeOK, Take, Goto
  <2>2. \A q \in Procs \ {p} : pc'[q] = pc[q] BY <1>3 DEF TypeOK, Take, Goto
  <2>3. \A q \in Procs \ {p} : job'[q] = job[q] BY <1>3 DEF TypeOK, Take, Done
  <2>4. QED BY <1>3, <2>1, <2>2, <2>3, OnceFrame DEF Take
<1>4. ASSUME NEW p \in Procs, NEW r \in Records, ParseRaises(p, r) PROVE OnceInv'
  BY <1>4, OnceRollback DEF ParseRaises, Fail
<1>5. ASSUME NEW p \in Procs, LockTimeout(p) \/ Kill(p) PROVE OnceInv'
  BY <1>5, OnceRollback DEF LockTimeout, Fail, Kill
<1>6. ASSUME NEW p \in Procs, Refresh(p) \/ Search(p) PROVE OnceInv'
  BY <1>6, OnceFrame DEF TypeOK, Refresh, Search, Covers, Goto
<1>7. ASSUME NEW p \in Procs, ReadNewest(p) PROVE OnceInv'
  <2>1. pc[p] # "stamp" /\ pc'[p] # "stamp" BY <1>7 DEF TypeOK, ReadNewest, Goto
  <2>2. \A q \in Procs \ {p} : pc'[q] = pc[q] BY <1>7 DEF TypeOK, ReadNewest, Goto
  <2>3. \A q \in Procs \ {p} : job'[q] = job[q] BY <1>7 DEF TypeOK, ReadNewest
  <2>4. QED BY <1>7, <2>1, <2>2, <2>3, OnceFrame DEF ReadNewest
<1>8. ASSUME NEW p \in Procs, CompareDisk(p) \/ Query(p) PROVE OnceInv'
  BY <1>8, OnceFrame DEF TypeOK, CompareDisk, Query, End, Goto
<1>9. ASSUME NEW r \in Records, Append(r) \/ Delete(r) PROVE OnceInv'
  BY <1>9 DEF Append, Delete, OnceInv, Whole, Unstamped
<1>10. CASE UNCHANGED vars BY <1>10 DEF vars, OnceInv, Whole, Unstamped
<1>11. QED
  BY <1>1, <1>2, <1>3, <1>4, <1>5, <1>6, <1>7, <1>8, <1>9, <1>10,
     OnceWrite, OnceStamp, OnceCommit DEF Next, Build

(* However builds overlap, wait for each other, fail or are killed, the     *)
(* index holds one version of a session at most, and its record with it.    *)
THEOREM IndexedOnce == Spec => []OneVersionPerSession
<1>1. Init => OnceInv BY OnceInit
<1>2. TypeOK /\ OnceInv /\ [Next]_vars => OnceInv' BY OnceStep
<1>3. TypeOK /\ OnceInv => OneVersionPerSession BY OnceImplies
<1>4. QED BY <1>1, <1>2, <1>3, TypeCorrect, PTL DEF Spec

-----------------------------------------------------------------------------
(* A refresh picks up what it covers *)

Files == FileRecords \ gone

(* The mtime in i's record of r is that of a version no older than v.       *)
StampedSince(i, r, v) == i.mtimes[r] # NoRow /\ i.mtimes[r] >= v

(* But for the ones in E, whose record is still to be written, i holds of a *)
(* file the version it is stamped with, unless it was stamped late.         *)
Stamped(i, E) ==
  \A r \in Files \ E : i.mtimes[r] # NoRow /\ r \notin i.late => i.rows[r] = {i.mtimes[r]}

(* A stamp is no newer than its file, and a stamp is late only if the file  *)
(* grew while a build ran.                                                  *)
StampsOf(i) ==
  /\ \A r \in Records : i.mtimes[r] # NoRow => i.mtimes[r] <= version[r]
  /\ i.late \cap Files \subseteq passedBy

InThePast ==
  /\ \A r \in Records : version[r] <= now
  /\ StampsOf(index) /\ StampsOf(txn)

(* The open transaction takes no stamp back.                                *)
TxnKeeps ==
  lock # NoProc =>
    /\ Stamped(txn, Unstamped(lock))
    /\ \A r \in Files : index.mtimes[r] # NoRow => StampedSince(txn, r, index.mtimes[r])

(* What a build is about to write, or has just written, of a record.        *)
InHand(p, r) ==
  pc[p] \in {"write", "stamp"} /\ job[p].rec = {r} =>
    /\ job[p].seen[r] <= job[p].got /\ job[p].got <= version[r]
    /\ job[p].got = version[r] \/ r \in passedBy
    /\ pc[p] = "stamp" => lock = p /\ txn.rows[r] = {job[p].got}

(* What a build is done with, it leaves picked up: a file is stamped no     *)
(* older than when the build began, anything else is in the build's own     *)
(* transaction, no older than then.                                         *)
PickedUp(p, r) ==
  r \notin job[p].todo /\ job[p].seen[r] > 0 /\ r \notin gone \cup Unparsed =>
    \/ r \in FileRecords /\ StampedSince(View(p), r, job[p].seen[r])
    \/ r \notin FileRecords /\ lock = p /\ \E v \in txn.rows[r] : v >= job[p].seen[r]

InTrack(p, r) == job[p].seen[r] <= version[r] /\ InHand(p, r) /\ PickedUp(p, r)

PickInv ==
  /\ InThePast /\ Stamped(index, {}) /\ TxnKeeps
  /\ \A p \in Building : \A r \in Records : InTrack(p, r)
  /\ RefreshPicksUp

LEMMA PickInit == Init => PickInv
<1> SUFFICES ASSUME Init PROVE PickInv
  OBVIOUS
<1>1. \A r \in Records : Empty.mtimes[r] = NoRow BY DEF Empty
<1>2. Empty.late = {} BY DEF Empty
<1>3. InThePast BY <1>1, <1>2 DEF Init, InThePast, StampsOf
<1>4. Stamped(index, {}) BY <1>1, RecordsAssumption DEF Init, Stamped, Files
<1>5. TxnKeeps BY DEF Init, TxnKeeps
<1>6. Building = {} BY DEF Init, Building
<1>7. RefreshPicksUp BY DEF Init, NoReply, RefreshPicksUp
<1>8. QED BY <1>3, <1>4, <1>5, <1>6, <1>7 DEF PickInv

(* What the connection of a build reads and extends keeps the index's       *)
(* stamps.                                                                  *)
LEMMA ViewKeeps ==
  ASSUME TypeOK, PickInv, NEW p \in Procs, NEW r \in Files, NEW v \in Nat,
         StampedSince(index, r, v)
  PROVE  StampedSince(View(p), r, v)
<1>1. CASE lock = p
  <2>1. StampedSince(txn, r, index.mtimes[r])
    BY <1>1, MarksAssumption DEF PickInv, TxnKeeps, StampedSince
  <2>2. r \in Records BY RecordsAssumption DEF Files
  <2>3. index.mtimes[r] \in Nat /\ txn.mtimes[r] \in Nat
    BY <2>1, <2>2 DEF TypeOK, Contents, Times, StampedSince
  <2>4. QED BY <1>1, <2>1, <2>3 DEF StampedSince, View
<1>2. CASE lock # p BY <1>2 DEF View
<1>3. QED BY <1>1, <1>2

LEMMA StampsOfView ==
  ASSUME TypeOK, PickInv, NEW p \in Procs
  PROVE  StampsOf(View(p))
BY DEF PickInv, InThePast, View

(* A step of one command that writes nothing.                               *)
LEMMA PickFrame ==
  ASSUME TypeOK, PickInv, NEW p \in Procs, UNCHANGED <<version, now, gone, index, txn, lock>>,
         passedBy \subseteq passedBy', pc[p] # "stamp", pc'[p] # "stamp",
         \A q \in Procs \ {p} : pc'[q] = pc[q] /\ job'[q] = job[q],
         reply'.by # "build",
         p \in Building' => \A r \in Records : InTrack(p, r)'
  PROVE  PickInv'
<1>1. InThePast' BY DEF PickInv, InThePast, StampsOf, Files
<1>2. Stamped(index, {})' BY DEF PickInv, Stamped, Files
<1>3. TxnKeeps'
  <2> SUFFICES ASSUME lock # NoProc
               PROVE  (/\ Stamped(txn, Unstamped(lock))
                       /\ \A r \in Files : index.mtimes[r] # NoRow =>
                                             StampedSince(txn, r, index.mtimes[r]))'
    BY DEF TxnKeeps
  <2>1. lock \in Procs BY DEF TypeOK
  <2>2. Unstamped(lock)' = Unstamped(lock) BY <2>1 DEF Unstamped
  <2>3. QED BY <2>2 DEF PickInv, TxnKeeps, Stamped, StampedSince, Files
<1>4. RefreshPicksUp' BY DEF RefreshPicksUp
<1>5. ASSUME NEW q \in Building', NEW r \in Records PROVE InTrack(q, r)'
  <2>1. CASE q = p BY <2>1, <1>5
  <2>2. CASE q # p
    <3>1. q \in Building /\ pc'[q] = pc[q] /\ job'[q] = job[q] BY <2>2, <1>5 DEF Building
    <3>2. InTrack(q, r) BY <3>1, <1>5 DEF PickInv
    <3>3. QED BY <3>1, <3>2 DEF InTrack, InHand, PickedUp, StampedSince, View
  <2>3. QED BY <2>1, <2>2
<1>6. QED BY <1>1, <1>2, <1>3, <1>4, <1>5 DEF PickInv

LEMMA PickRollback ==
  ASSUME TypeOK, PickInv, NEW p \in Procs, Rollback(p), End(p), UNCHANGED <<sources, passedBy>>,
         reply'.by # "build"
  PROVE  PickInv'
<1>0. UNCHANGED <<version, now, gone, passedBy>> /\ index' = index
  BY DEF sources, Rollback
<1>1. InThePast'
  <2>1. StampsOf(Empty)' BY DEF StampsOf, Empty
  <2>2. StampsOf(txn)'
    <3>1. CASE txn' = txn BY <1>0, <3>1 DEF PickInv, InThePast, StampsOf, Files
    <3>2. CASE txn' = Empty BY <2>1, <3>2 DEF StampsOf
    <3>3. QED BY <3>1, <3>2 DEF Rollback
  <2>3. StampsOf(index)' BY <1>0 DEF PickInv, InThePast, StampsOf, Files
  <2>4. QED BY <1>0, <2>2, <2>3 DEF PickInv, InThePast
<1>2. Stamped(index, {})' BY <1>0 DEF PickInv, Stamped, Files
<1>3. TxnKeeps'
  <2> SUFFICES ASSUME lock' # NoProc
               PROVE  (/\ Stamped(txn, Unstamped(lock))
                       /\ \A r \in Files : index.mtimes[r] # NoRow =>
                                             StampedSince(txn, r, index.mtimes[r]))'
    BY DEF TxnKeeps
  <2>1. lock' = lock /\ txn' = txn /\ lock # p /\ lock \in Procs BY DEF Rollback, TypeOK
  <2>2. Unstamped(lock)' = Unstamped(lock) BY <2>1 DEF Unstamped, TypeOK, End, Goto
  <2>3. QED BY <1>0, <2>1, <2>2 DEF PickInv, TxnKeeps, Stamped, StampedSince, Files
<1>4. RefreshPicksUp' BY DEF RefreshPicksUp
<1>5. ASSUME NEW q \in Building', NEW r \in Records PROVE InTrack(q, r)'
  <2>1. q # p BY <1>5 DEF TypeOK, Building, End, Goto
  <2>2. q \in Building /\ pc'[q] = pc[q] /\ job'[q] = job[q]
    BY <1>5, <2>1 DEF TypeOK, Building, End, Goto
  <2>3. lock = q => lock' = q /\ txn' = txn BY <2>1 DEF Rollback
  <2>4. lock # q => lock' # q BY <2>2, MarksAssumption DEF Rollback, Building
  <2>5. InTrack(q, r) BY <2>2, <1>5 DEF PickInv
  <2>6. View(q)' = View(q) BY <1>0, <2>3, <2>4 DEF View
  <2>7. QED BY <1>0, <2>2, <2>3, <2>4, <2>5, <2>6 DEF InTrack, InHand, PickedUp, StampedSince
<1>6. QED BY <1>1, <1>2, <1>3, <1>4, <1>5 DEF PickInv

LEMMA PickWrite ==
  ASSUME TypeOK, PickInv, NEW p \in Procs, NEW s \in Records, WriteRows(p, s)
  PROVE  PickInv'
<1>0. UNCHANGED <<version, now, gone, index, job, passedBy>> BY DEF WriteRows, sources, history
<1>1. pc[p] = "write" /\ pc'[p] = "stamp" /\ lock' = p /\ lock' # NoProc /\ job[p].rec = {s}
  BY MarksAssumption DEF TypeOK, WriteRows, Goto
<1>2. p \in Building BY <1>1 DEF Building
<1>3. View(p) \in Contents BY ViewIsContents
<1>4. /\ txn'.mtimes = View(p).mtimes /\ txn'.late = View(p).late
      /\ \A r \in Records : txn'.rows[r] = IF r = s THEN {job[p].got} ELSE View(p).rows[r]
  <2>1. txn' = [View(p) EXCEPT !.rows = Rows(p, s)] BY DEF WriteRows
  <2>2. txn'.mtimes = View(p).mtimes /\ txn'.late = View(p).late /\ txn'.rows = Rows(p, s)
    BY <1>3, <2>1 DEF Contents
  <2>3. View(p).rows \in [Records -> SUBSET Times] BY <1>3 DEF Contents
  <2>4. QED BY <2>2, <2>3 DEF Rows
<1>5. InTrack(p, s) BY <1>2 DEF PickInv
<1>6. /\ job[p].seen[s] <= job[p].got /\ job[p].got <= version[s]
      /\ job[p].got = version[s] \/ s \in passedBy
  BY <1>1, <1>5 DEF InTrack, InHand
<1>7. Unstamped(lock)' = {s} BY <1>1, <1>0 DEF Unstamped
<1>8. InThePast'
  <2>1. StampsOf(View(p)) BY StampsOfView
  <2>2. StampsOf(txn)' BY <1>0, <1>4, <2>1 DEF StampsOf, Files
  <2>3. StampsOf(index)' BY <1>0 DEF PickInv, InThePast, StampsOf, Files
  <2>4. QED BY <1>0, <2>2, <2>3 DEF PickInv, InThePast
<1>9. Stamped(View(p), {})
  <2>1. CASE lock = p
    <3>1. Unstamped(p) = {} BY <1>1 DEF Unstamped
    <3>2. QED BY <2>1, <3>1, MarksAssumption DEF PickInv, TxnKeeps, View
  <2>2. CASE lock # p BY <2>2 DEF PickInv, View
  <2>3. QED BY <2>1, <2>2
<1>10. TxnKeeps'
  <2>1. Stamped(txn, Unstamped(lock))'
    <3>1. Files' = Files /\ Files \subseteq Records BY <1>0, RecordsAssumption DEF Files
    <3>2. QED BY <1>4, <1>7, <1>9, <3>1 DEF Stamped
  <2>2. ASSUME NEW r \in Files, index.mtimes[r] # NoRow
        PROVE  StampedSince(txn, r, index.mtimes[r])'
    <3>1. r \in Records BY RecordsAssumption DEF Files
    <3>2. index.mtimes[r] \in Nat BY <2>2, <3>1 DEF TypeOK, Contents, Times
    <3>3. StampedSince(index, r, index.mtimes[r]) BY <2>2, <3>2 DEF StampedSince
    <3>4. StampedSince(View(p), r, index.mtimes[r]) BY <3>2, <3>3, ViewKeeps
    <3>5. QED BY <1>0, <1>4, <3>4 DEF StampedSince
  <2>3. QED BY <1>0, <2>1, <2>2 DEF TxnKeeps, Files
<1>11. Stamped(index, {})' BY <1>0 DEF PickInv, Stamped, Files
<1>12. RefreshPicksUp' BY DEF WriteRows, NoReply, RefreshPicksUp
<1>13. ASSUME NEW r \in Records PROVE InTrack(p, r)'
  <2>1. InTrack(p, r) BY <1>2 DEF PickInv
  <2>2. InHand(p, r)' BY <1>0, <1>1, <1>4, <1>6 DEF InHand
  <2>3. PickedUp(p, r)'
    <3> SUFFICES ASSUME r \notin job[p].todo, job[p].seen[r] > 0, r \notin gone \cup Unparsed
                 PROVE  \/ r \in FileRecords /\ StampedSince(txn', r, job[p].seen[r])
                        \/ r \notin FileRecords /\ \E v \in txn'.rows[r] : v >= job[p].seen[r]
      BY <1>0, <1>1 DEF PickedUp, View, StampedSince
    <3>1. CASE r \in FileRecords
      <4>1. StampedSince(View(p), r, job[p].seen[r]) BY <2>1, <3>1 DEF InTrack, PickedUp
      <4>2. QED BY <1>4, <3>1, <4>1 DEF StampedSince
    <3>2. CASE r \notin FileRecords
      <4>1. lock = p /\ \E v \in txn.rows[r] : v >= job[p].seen[r]
        BY <2>1, <3>2 DEF InTrack, PickedUp
      <4>2. View(p) = txn BY <4>1 DEF View
      <4>3. job[p].seen[r] \in Nat /\ job[p].got \in Nat BY DEF TypeOK, Jobs, Times
      <4>4. CASE r = s
        <5>1. txn'.rows[r] = {job[p].got} BY <1>4, <4>4
        <5>2. job[p].got >= job[p].seen[r] BY <1>6, <4>3, <4>4
        <5>3. QED BY <3>2, <5>1, <5>2
      <4>5. CASE r # s BY <1>4, <3>2, <4>1, <4>2, <4>5
      <4>6. QED BY <4>4, <4>5
    <3>3. QED BY <3>1, <3>2
  <2>4. QED BY <1>0, <2>1, <2>2, <2>3 DEF InTrack
<1>14. ASSUME NEW q \in Building', NEW r \in Records PROVE InTrack(q, r)'
  <2>1. CASE q = p BY <2>1, <1>13
  <2>2. CASE q # p
    <3>1. q \in Procs /\ pc'[q] = pc[q] BY <1>14, <2>2 DEF TypeOK, Building, WriteRows, Goto
    <3>2. q \in Building BY <1>14, <3>1 DEF Building
    <3>3. lock # q /\ lock' # q BY <1>1, <2>2, <3>1, MarksAssumption DEF WriteRows
    <3>4. InTrack(q, r) BY <3>2 DEF PickInv
    <3>5. View(q)' = View(q) BY <1>0, <3>3 DEF View
    <3>6. QED BY <1>0, <3>1, <3>3, <3>4, <3>5 DEF InTrack, InHand, PickedUp, StampedSince
  <2>3. QED BY <2>1, <2>2
<1>15. QED BY <1>8, <1>10, <1>11, <1>12, <1>14 DEF PickInv

LEMMA PickStamp ==
  ASSUME TypeOK, PickInv, NEW p \in Procs, NEW s \in Records, Stamp(p, s)
  PROVE  PickInv'
<1>0. UNCHANGED <<version, now, gone, index, lock, passedBy>> BY DEF Stamp, sources, history
<1>1. pc[p] = "stamp" /\ pc'[p] = "records" /\ job[p].rec = {s}
  BY DEF TypeOK, Stamp, Goto
<1>2. p \in Building BY <1>1 DEF Building
<1>3. InTrack(p, s) BY <1>2 DEF PickInv
<1>4. /\ lock = p /\ lock # NoProc /\ txn.rows[s] = {job[p].got}
      /\ job[p].seen[s] <= job[p].got /\ job[p].got <= version[s]
      /\ job[p].got = version[s] \/ s \in passedBy
  BY <1>1, <1>3, MarksAssumption DEF InTrack, InHand
<1>5. /\ txn \in Contents /\ SourceMtime(s) \in Nat /\ SourceMtime(s) # NoRow
      /\ version[s] \in Nat /\ job[p].got \in Nat /\ job[p].seen[s] \in Nat
  BY MtimeType, MarksAssumption DEF TypeOK, Times, Jobs
<1>6. /\ txn'.rows = txn.rows
      /\ \A r \in Records : txn'.mtimes[r] = IF r = s THEN SourceMtime(s) ELSE txn.mtimes[r]
      /\ txn'.late = IF SourceMtime(s) > job[p].got THEN txn.late \cup {s} ELSE txn.late \ {s}
  BY <1>5 DEF Stamp, Contents
<1>7. job'[p].seen = job[p].seen /\ job'[p].todo = job[p].todo \ {s}
  BY DEF TypeOK, Jobs, Stamp, Done
<1>8. \A q \in Procs \ {p} : job'[q] = job[q] /\ pc'[q] = pc[q]
  BY DEF TypeOK, Stamp, Done, Goto
<1>9. SourceMtime(s) <= version[s] /\ (s \in Files => SourceMtime(s) = version[s])
  BY <1>5 DEF SourceMtime, Files
<1>10. InThePast'
  <2>1. StampsOf(txn) /\ StampsOf(index) BY DEF PickInv, InThePast
  <2>2. \A r \in Records : txn'.mtimes[r] # NoRow => txn'.mtimes[r] <= version[r]
    BY <1>6, <1>9, <2>1 DEF StampsOf
  <2>3. s \in Files /\ s \in txn'.late => s \in passedBy
    BY <1>4, <1>5, <1>6, <1>9
  <2>4. txn'.late \cap Files \subseteq passedBy BY <1>6, <2>1, <2>3 DEF StampsOf
  <2>5. StampsOf(txn)' BY <1>0, <2>2, <2>4 DEF StampsOf, Files
  <2>6. StampsOf(index)' BY <1>0, <2>1 DEF StampsOf, Files
  <2>7. QED BY <1>0, <2>5, <2>6 DEF PickInv, InThePast
<1>11. Unstamped(lock) = {s} /\ Unstamped(lock)' = {}
  BY <1>0, <1>1, <1>4 DEF Unstamped
<1>12. Files' = Files /\ Files \subseteq Records BY <1>0, RecordsAssumption DEF Files
<1>13. Stamped(txn, Unstamped(lock))'
  <2>1. Stamped(txn, {s}) BY <1>4, <1>11 DEF PickInv, TxnKeeps
  <2>2. ASSUME NEW r \in Files, txn'.mtimes[r] # NoRow, r \notin txn'.late
        PROVE  txn'.rows[r] = {txn'.mtimes[r]}
    <3>1. CASE r = s
      <4>1. SourceMtime(s) <= job[p].got BY <1>5, <1>6, <2>2, <3>1
      <4>2. job[p].got = SourceMtime(s) BY <1>4, <1>5, <1>9, <3>1, <4>1
      <4>3. QED BY <1>4, <1>6, <1>12, <3>1, <4>2
    <3>2. CASE r # s BY <1>6, <1>12, <2>1, <2>2, <3>2 DEF Stamped
    <3>3. QED BY <3>1, <3>2
  <2>3. QED BY <1>11, <1>12, <2>2 DEF Stamped
<1>14. ASSUME NEW r \in Files, NEW v \in Nat, StampedSince(txn, r, v), v <= version[r]
       PROVE  StampedSince(txn, r, v)'
  BY <1>5, <1>6, <1>9, <1>12, <1>14 DEF StampedSince
<1>15. TxnKeeps'
  <2>1. ASSUME NEW r \in Files, index.mtimes[r] # NoRow
        PROVE  StampedSince(txn, r, index.mtimes[r])'
    <3>1. index.mtimes[r] \in Nat BY <2>1, <1>12 DEF TypeOK, Contents, Times
    <3>2. StampedSince(txn, r, index.mtimes[r]) BY <1>4, <2>1 DEF PickInv, TxnKeeps
    <3>3. index.mtimes[r] <= version[r] BY <1>12, <2>1 DEF PickInv, InThePast, StampsOf
    <3>4. PICK v \in Nat : v = index.mtimes[r] BY <3>1
    <3>5. StampedSince(txn, r, v)' BY <1>14, <3>2, <3>3, <3>4
    <3>6. QED BY <1>0, <3>4, <3>5 DEF StampedSince
  <2>2. QED BY <1>0, <1>12, <1>13, <2>1 DEF TxnKeeps
<1>16. Stamped(index, {})' BY <1>0 DEF PickInv, Stamped, Files
<1>17. RefreshPicksUp' BY DEF Stamp, NoReply, RefreshPicksUp
<1>18. ASSUME NEW r \in Records PROVE InTrack(p, r)'
  <2>1. InTrack(p, r) BY <1>2 DEF PickInv
  <2>2. InHand(p, r)' BY <1>1 DEF InHand
  <2>3. View(p) = txn /\ View(p)' = txn' BY <1>0, <1>4 DEF View
  <2>4. job[p].seen[r] \in Nat BY DEF TypeOK, Jobs, Times
  <2>5. PickedUp(p, r)'
    <3> SUFFICES ASSUME r \notin job'[p].todo, job[p].seen[r] > 0, r \notin gone \cup Unparsed
                 PROVE  \/ r \in FileRecords /\ StampedSince(txn', r, job[p].seen[r])
                        \/ r \notin FileRecords /\ \E v \in txn'.rows[r] : v >= job[p].seen[r]
      BY <1>0, <1>4, <1>7, <2>3 DEF PickedUp, StampedSince
    <3>1. CASE r = s
      <4>1. CASE r \in FileRecords
        <5>1. SourceMtime(s) >= job[p].seen[s] BY <1>4, <1>5, <1>9, <3>1, <4>1 DEF Files
        <5>2. QED BY <1>5, <1>6, <3>1, <4>1, <5>1 DEF StampedSince
      <4>2. CASE r \notin FileRecords
        <5>1. job[p].got >= job[p].seen[s] BY <1>4, <1>5
        <5>2. QED BY <1>4, <1>6, <3>1, <4>2, <5>1
      <4>3. QED BY <4>1, <4>2
    <3>2. CASE r # s BY <1>6, <1>7, <2>1, <2>3, <3>2 DEF InTrack, PickedUp, StampedSince
    <3>3. QED BY <3>1, <3>2
  <2>6. QED BY <1>0, <1>7, <2>1, <2>2, <2>5 DEF InTrack
<1>19. ASSUME NEW q \in Building', NEW r \in Records PROVE InTrack(q, r)'
  <2>1. CASE q = p BY <2>1, <1>18
  <2>2. CASE q # p
    <3>1. q \in Procs BY <1>19 DEF Building
    <3>2. q \in Building /\ pc'[q] = pc[q] /\ job'[q] = job[q]
      BY <1>8, <1>19, <2>2, <3>1 DEF Building
    <3>3. InTrack(q, r) BY <3>2 DEF PickInv
    <3>4. lock # q BY <1>4, <2>2
    <3>5. View(q)' = View(q) BY <1>0, <3>4 DEF View
    <3>6. QED BY <1>0, <3>2, <3>3, <3>4, <3>5 DEF InTrack, InHand, PickedUp, StampedSince
  <2>3. QED BY <2>1, <2>2
<1>20. QED BY <1>10, <1>15, <1>16, <1>17, <1>19 DEF PickInv

LEMMA PickCommit ==
  ASSUME TypeOK, PickInv, NEW p \in Procs, Commit(p)
  PROVE  PickInv'
<1>0. UNCHANGED <<version, now, gone, passedBy>> /\ index' = View(p)
  BY DEF Commit, sources
<1>1. pc[p] = "records" /\ job[p].todo = {} /\ p \in Building /\ p \notin Building'
  BY DEF TypeOK, Commit, Building, End, Goto
<1>2. \A q \in Procs \ {p} : job'[q] = job[q] /\ pc'[q] = pc[q]
  BY DEF TypeOK, Commit, End, Goto
<1>3. InThePast'
  <2>1. StampsOf(View(p)) BY StampsOfView
  <2>2. StampsOf(index)' BY <1>0, <2>1 DEF StampsOf, Files
  <2>3. StampsOf(Empty)' BY DEF StampsOf, Empty
  <2>4. StampsOf(txn)'
    <3>1. CASE txn' = txn BY <1>0, <3>1 DEF PickInv, InThePast, StampsOf, Files
    <3>2. CASE txn' = Empty BY <2>3, <3>2 DEF StampsOf
    <3>3. QED BY <3>1, <3>2 DEF Commit
  <2>5. QED BY <1>0, <2>2, <2>4 DEF PickInv, InThePast
<1>4. Stamped(View(p), {})
  <2>1. CASE lock = p
    <3>1. Unstamped(p) = {} BY <1>1 DEF Unstamped
    <3>2. QED BY <2>1, <3>1, MarksAssumption DEF PickInv, TxnKeeps, View
  <2>2. CASE lock # p BY <2>2 DEF PickInv, View
  <2>3. QED BY <2>1, <2>2
<1>5. Stamped(index, {})' BY <1>0, <1>4 DEF Stamped, Files
<1>6. TxnKeeps'
  <2> SUFFICES ASSUME lock' # NoProc
               PROVE  (/\ Stamped(txn, Unstamped(lock))
                       /\ \A r \in Files : index.mtimes[r] # NoRow =>
                                             StampedSince(txn, r, index.mtimes[r]))'
    BY DEF TxnKeeps
  <2>1. lock' = lock /\ txn' = txn /\ lock # p /\ lock \in Procs BY DEF Commit, TypeOK
  <2>2. index' = index BY <1>0, <2>1 DEF View
  <2>3. Unstamped(lock)' = Unstamped(lock) BY <1>2, <2>1 DEF Unstamped
  <2>4. QED BY <1>0, <2>1, <2>2, <2>3 DEF PickInv, TxnKeeps, Stamped, StampedSince, Files
<1>7. RefreshPicksUp'
  <2>1. reply'.seen = job[p].seen /\ reply'.hits = View(p).rows
    BY EmptyType DEF Commit, Replies
  <2> SUFFICES ASSUME NEW r \in Records \ (gone \cup Unparsed \cup View(p).late), job[p].seen[r] > 0
               PROVE  \E v \in View(p).rows[r] : v >= job[p].seen[r]
    BY <1>0, <2>1 DEF RefreshPicksUp
  <2>2. PickedUp(p, r) BY <1>1 DEF PickInv, InTrack
  <2>3. CASE r \in FileRecords /\ StampedSince(View(p), r, job[p].seen[r])
    BY <1>4, <2>3 DEF Stamped, StampedSince, Files
  <2>4. CASE lock = p /\ \E v \in txn.rows[r] : v >= job[p].seen[r]
    BY <2>4 DEF View
  <2>5. QED BY <1>1, <2>2, <2>3, <2>4 DEF PickedUp
<1>8. ASSUME NEW q \in Building', NEW r \in Records PROVE InTrack(q, r)'
  <2>1. q \in Procs /\ q # p BY <1>1, <1>8 DEF Building
  <2>2. q \in Building /\ pc'[q] = pc[q] /\ job'[q] = job[q]
    BY <1>2, <1>8, <2>1 DEF Building
  <2>3. InTrack(q, r) BY <2>2 DEF PickInv
  <2>4. lock = q => lock' = q /\ txn' = txn BY <2>1 DEF Commit
  <2>5. lock # q => lock' # q BY <2>1, MarksAssumption DEF Commit
  <2>6. job[q].seen[r] \in Nat BY <2>1 DEF TypeOK, Jobs, Times
  <2>7. ASSUME r \in Files, StampedSince(View(q), r, job[q].seen[r])
        PROVE  StampedSince(View(q)', r, job[q].seen[r])
    <3>1. CASE lock = q BY <2>4, <2>7, <3>1 DEF View
    <3>2. CASE lock # q
      <4>1. View(q) = index /\ View(q)' = View(p) BY <1>0, <2>5, <3>2 DEF View
      <4>2. StampedSince(View(p), r, job[q].seen[r]) BY <2>6, <2>7, <4>1, ViewKeeps
      <4>3. QED BY <4>1, <4>2
    <3>3. QED BY <3>1, <3>2
  <2>8. InHand(q, r)' BY <1>0, <2>2, <2>3, <2>4 DEF InTrack, InHand
  <2>9. PickedUp(q, r)'
    <3> SUFFICES ASSUME r \notin job[q].todo, job[q].seen[r] > 0, r \notin gone \cup Unparsed
                 PROVE  \/ r \in FileRecords /\ StampedSince(View(q)', r, job[q].seen[r])
                        \/ r \notin FileRecords /\ lock' = q /\ \E v \in txn'.rows[r] : v >= job[q].seen[r]
      BY <1>0, <2>2 DEF PickedUp, StampedSince
    <3>1. \/ r \in FileRecords /\ StampedSince(View(q), r, job[q].seen[r])
          \/ r \notin FileRecords /\ lock = q /\ \E v \in txn.rows[r] : v >= job[q].seen[r]
      BY <2>3 DEF InTrack, PickedUp
    <3>2. QED BY <2>4, <2>7, <3>1 DEF Files
  <2>10. QED BY <1>0, <2>2, <2>3, <2>8, <2>9 DEF InTrack
<1>9. QED BY <1>3, <1>5, <1>6, <1>7, <1>8 DEF PickInv

(* A session that grows while a build runs is passed by.                    *)
LEMMA PickAppend ==
  ASSUME TypeOK, PickInv, NEW s \in Records, Append(s)
  PROVE  PickInv'
<1>0. UNCHANGED <<gone, index, txn, lock, pc, job>> /\ now' = now + 1 /\ s \notin gone
  BY DEF Append, store
<1>1. \A r \in Records : version'[r] = IF r = s THEN now + 1 ELSE version[r]
  BY DEF TypeOK, Append
<1>2. now \in Nat /\ \A r \in Records : version[r] \in Nat BY DEF TypeOK, Times
<1>3. passedBy \subseteq passedBy' /\ (Building # {} => s \in passedBy') BY DEF Append
<1>4. \A r \in Records : version[r] <= now BY DEF PickInv, InThePast
<1>5. \A r \in Records : version[r] <= version'[r] /\ version'[r] <= now' /\ version'[r] \in Nat
  BY <1>0, <1>1, <1>2, <1>4
<1>6. ASSUME NEW i \in Contents, StampsOf(i) PROVE StampsOf(i)'
  <2>1. PICK m \in [Records -> Times \cup {NoRow}], l \in SUBSET Records : m = i.mtimes /\ l = i.late
    BY <1>6 DEF Contents
  <2>2. ASSUME NEW r \in Records, m[r] # NoRow PROVE m[r] <= version'[r]
    <3>1. m[r] \in Nat /\ m[r] <= version[r] BY <1>6, <2>1, <2>2 DEF StampsOf, Times
    <3>2. QED BY <1>2, <1>5, <3>1
  <2>3. l \cap Files \subseteq passedBy' BY <1>3, <1>6, <2>1 DEF StampsOf
  <2>4. QED BY <1>0, <2>1, <2>2, <2>3 DEF StampsOf, Files
<1>7. InThePast'
  <2>1. StampsOf(index)' /\ StampsOf(txn)'
    BY <1>0, <1>6 DEF PickInv, InThePast, TypeOK, StampsOf
  <2>2. QED BY <1>5, <2>1 DEF InThePast
<1>8. Stamped(index, {})' BY <1>0 DEF PickInv, Stamped, Files
<1>9. TxnKeeps' BY <1>0 DEF PickInv, TxnKeeps, Stamped, StampedSince, Unstamped, Files
<1>10. RefreshPicksUp' BY DEF Append, NoReply, RefreshPicksUp
<1>11. ASSUME NEW q \in Building', NEW r \in Records PROVE InTrack(q, r)'
  <2>1. q \in Building /\ q \in Procs BY <1>0, <1>11 DEF Building
  <2>2. InTrack(q, r) BY <2>1 DEF PickInv
  <2>3. job[q].seen[r] \in Nat /\ job[q].got \in Nat BY <2>1 DEF TypeOK, Jobs, Times
  <2>4. job[q].seen[r] <= version'[r] BY <1>2, <1>5, <2>2, <2>3 DEF InTrack
  <2>5. r # s => version'[r] = version[r] BY <1>1
  <2>6. s \in passedBy' BY <1>3, <2>1
  <2>7. InHand(q, r)'
    <3> SUFFICES ASSUME pc[q] \in {"write", "stamp"}, job[q].rec = {r}
                 PROVE  /\ job[q].seen[r] <= job[q].got /\ job[q].got <= version'[r]
                        /\ job[q].got = version'[r] \/ r \in passedBy'
                        /\ pc[q] = "stamp" => lock = q /\ txn.rows[r] = {job[q].got}
      BY <1>0 DEF InHand
    <3>1. /\ job[q].seen[r] <= job[q].got /\ job[q].got <= version[r]
          /\ job[q].got = version[r] \/ r \in passedBy
          /\ pc[q] = "stamp" => lock = q /\ txn.rows[r] = {job[q].got}
      BY <2>2 DEF InTrack, InHand
    <3>2. job[q].got <= version'[r] BY <1>2, <1>5, <2>3, <3>1
    <3>3. job[q].got = version'[r] \/ r \in passedBy' BY <1>3, <2>5, <2>6, <3>1
    <3>4. QED BY <3>1, <3>2, <3>3
  <2>8. PickedUp(q, r)' BY <1>0, <2>2 DEF InTrack, PickedUp, StampedSince, View
  <2>9. QED BY <1>0, <2>4, <2>7, <2>8 DEF InTrack
<1>12. QED BY <1>7, <1>8, <1>9, <1>10, <1>11 DEF PickInv

(* Deleting weakens everything.                                             *)
LEMMA PickDelete ==
  ASSUME TypeOK, PickInv, NEW s \in Records, Delete(s)
  PROVE  PickInv'
<1>0. UNCHANGED <<version, now, index, txn, lock, pc, job, passedBy>> /\ gone \subseteq gone'
  BY DEF Delete, store, history
<1>1. Files' \subseteq Files BY <1>0 DEF Files
<1>2. InThePast' BY <1>0, <1>1 DEF PickInv, InThePast, StampsOf
<1>3. Stamped(index, {})' BY <1>0, <1>1 DEF PickInv, Stamped
<1>4. TxnKeeps' BY <1>0, <1>1 DEF PickInv, TxnKeeps, Stamped, StampedSince, Unstamped
<1>5. RefreshPicksUp' BY DEF Delete, NoReply, RefreshPicksUp
<1>6. ASSUME NEW q \in Building', NEW r \in Records PROVE InTrack(q, r)'
  <2>1. q \in Building BY <1>0, <1>6 DEF Building
  <2>2. InTrack(q, r) BY <2>1 DEF PickInv
  <2>3. QED BY <1>0, <2>2 DEF InTrack, InHand, PickedUp, StampedSince, View
<1>7. QED BY <1>2, <1>3, <1>4, <1>5, <1>6 DEF PickInv

(* The steps of a build that only read.                                     *)
LEMMA PickBegin ==
  ASSUME TypeOK, PickInv, NEW p \in Procs, NEW mode \in {"refresh", "search"},
         NEW scope \in SUBSET Records, Covers(p, mode, scope), UNCHANGED store,
         passedBy \subseteq passedBy', pc[p] = "idle", Goto(p, "connect")
  PROVE  PickInv'
<1>1. UNCHANGED <<version, now, gone, index, txn, lock>> BY DEF Covers, sources, store
<1>2. \A q \in Procs \ {p} : pc'[q] = pc[q] /\ job'[q] = job[q]
  BY DEF TypeOK, Covers, Goto
<1>3. pc'[p] = "connect" BY DEF TypeOK, Goto
<1>4. /\ job'[p].todo = scope
      /\ \A r \in Records : job'[p].seen[r] = IF r \in scope THEN version[r] ELSE 0
  <2> DEFINE j == [NoJob EXCEPT
       !.mode = mode, !.todo = scope,
       !.seen = [r \in Records |-> IF r \in scope THEN version[r] ELSE 0]]
  <2>1. job'[p] = j BY DEF TypeOK, Covers
  <2>2. j.todo = scope /\ j.seen = [r \in Records |-> IF r \in scope THEN version[r] ELSE 0]
    BY DEF NoJob
  <2>3. QED BY <2>1, <2>2
<1>5. ASSUME NEW r \in Records PROVE InTrack(p, r)'
  <2>1. version[r] \in Nat BY DEF TypeOK, Times
  <2>2. QED BY <1>1, <1>3, <1>4, <2>1 DEF InTrack, InHand, PickedUp
<1>6. reply'.by # "build" BY DEF Covers, NoReply
<1>7. QED BY <1>1, <1>2, <1>3, <1>5, <1>6, PickFrame

LEMMA PickTake ==
  ASSUME TypeOK, PickInv, NEW p \in Procs, NEW s \in Records, Take(p, s)
  PROVE  PickInv'
<1>1. UNCHANGED <<version, now, gone, index, txn, lock, passedBy>>
  BY DEF Take, sources, store, history
<1>2. \A q \in Procs \ {p} : pc'[q] = pc[q] BY DEF TypeOK, Take, Goto
<1>3. \A q \in Procs \ {p} : job'[q] = job[q] BY DEF TypeOK, Take, Done
<1>4. pc[p] = "records" /\ pc'[p] \in {"records", "parse"} /\ p \in Building
  BY DEF TypeOK, Take, Goto, Building
<1>5. reply'.by # "build" BY DEF Take, NoReply
<1>6. ASSUME NEW r \in Records PROVE InTrack(p, r)'
  <2>1. InTrack(p, r) BY <1>4 DEF PickInv
  <2>2. InHand(p, r)' BY <1>4 DEF InHand
  <2>3. View(p)' = View(p) BY <1>1 DEF View
  <2>4. CASE UpToDate(p, s) /\ job' = Done(p, s)
    <3>1. job'[p].seen = job[p].seen /\ job'[p].todo = job[p].todo \ {s}
      BY <2>4 DEF TypeOK, Jobs, Done
    <3>2. s \in Files /\ View(p).mtimes[s] = version[s]
      BY <2>4 DEF UpToDate, SourceMtime, Files
    <3>3. PickedUp(p, r)'
      <4>1. CASE r = s
        <5>1. version[s] \in Nat /\ version[s] # NoRow BY MarksAssumption DEF TypeOK, Times
        <5>2. job[p].seen[s] <= version[s] /\ job[p].seen[s] \in Nat
          BY <2>1, <4>1 DEF InTrack, TypeOK, Jobs, Times
        <5>3. StampedSince(View(p), s, job[p].seen[s]) BY <3>2, <5>1, <5>2 DEF StampedSince
        <5>4. QED BY <2>3, <3>1, <3>2, <4>1, <5>3 DEF PickedUp, StampedSince, Files
      <4>2. CASE r # s
        BY <4>2, <1>1, <2>1, <2>3, <3>1 DEF InTrack, PickedUp, StampedSince
      <4>3. QED BY <4>1, <4>2
    <3>4. QED BY <1>1, <2>1, <2>2, <3>1, <3>3 DEF InTrack
  <2>5. CASE job' = [job EXCEPT ![p] = [job[p] EXCEPT !.rec = {s}]]
    <3>1. job'[p].seen = job[p].seen /\ job'[p].todo = job[p].todo
      <4>1. job'[p] = [job[p] EXCEPT !.rec = {s}] /\ job[p] \in Jobs BY <2>5 DEF TypeOK
      <4>2. QED BY <4>1 DEF Jobs
    <3>2. QED BY <1>1, <2>1, <2>2, <2>3, <3>1 DEF InTrack, PickedUp, StampedSince
  <2>6. QED BY <2>4, <2>5 DEF Take
<1>7. pc[p] # "stamp" /\ pc'[p] # "stamp" BY <1>4
<1>8. QED BY <1>1, <1>2, <1>3, <1>5, <1>6, <1>7, PickFrame

(* A record that is not listed, or cannot be parsed, is done with.          *)
LEMMA PickSkip ==
  ASSUME TypeOK, PickInv, NEW p \in Procs, NEW s \in Records,
         Missing(p, s) \/ ParseNone(p, s)
  PROVE  PickInv'
<1>1. UNCHANGED <<version, now, gone, index, txn, lock, passedBy>>
  BY DEF Missing, ParseNone, sources, store, history
<1>2. \A q \in Procs \ {p} : pc'[q] = pc[q] /\ job'[q] = job[q]
  BY DEF TypeOK, Missing, ParseNone, Done, Goto
<1>3. pc[p] \in {"records", "parse"} /\ pc'[p] = "records" /\ p \in Building
  BY DEF TypeOK, Missing, ParseNone, Goto, Building
<1>4. job'[p].seen = job[p].seen /\ job'[p].todo = job[p].todo \ {s}
  <2>1. job' = Done(p, s) BY DEF Missing, ParseNone
  <2>2. job[p] \in Jobs /\ job'[p] = [job[p] EXCEPT !.todo = job[p].todo \ {s}, !.rec = {}, !.got = 0]
    BY <2>1 DEF TypeOK, Done
  <2>3. QED BY <2>2 DEF Jobs
<1>5. version[s] = 0 \/ s \in gone \cup Unparsed BY DEF Missing, ParseNone
<1>6. reply'.by # "build" BY DEF Missing, ParseNone, NoReply
<1>7. ASSUME NEW r \in Records PROVE InTrack(p, r)'
  <2>1. InTrack(p, r) BY <1>3 DEF PickInv
  <2>2. InHand(p, r)' BY <1>3 DEF InHand
  <2>3. View(p)' = View(p) BY <1>1 DEF View
  <2>4. PickedUp(p, r)'
    <3>1. CASE r = s
      <4>1. job[p].seen[s] \in Nat /\ job[p].seen[s] <= version[s]
        BY <2>1, <3>1 DEF InTrack, TypeOK, Jobs, Times
      <4>2. QED BY <3>1, <4>1, <1>1, <1>4, <1>5 DEF PickedUp
    <3>2. CASE r # s
      BY <3>2, <1>1, <1>4, <2>1, <2>3 DEF InTrack, PickedUp, StampedSince
    <3>3. QED BY <3>1, <3>2
  <2>5. QED BY <1>1, <1>4, <2>1, <2>2, <2>4 DEF InTrack
<1>8. pc[p] # "stamp" /\ pc'[p] # "stamp" BY <1>3
<1>9. QED BY <1>1, <1>2, <1>6, <1>7, <1>8, PickFrame

LEMMA PickParse ==
  ASSUME TypeOK, PickInv, NEW p \in Procs, NEW s \in Records, Parse(p, s)
  PROVE  PickInv'
<1>1. UNCHANGED <<version, now, gone, index, txn, lock, passedBy>>
  BY DEF Parse, sources, store, history
<1>2. \A q \in Procs \ {p} : pc'[q] = pc[q] /\ job'[q] = job[q]
  BY DEF TypeOK, Parse, Goto
<1>3. pc[p] = "parse" /\ pc'[p] = "write" /\ p \in Building /\ job[p].rec = {s}
  BY DEF TypeOK, Parse, Goto, Building
<1>4. /\ job'[p].seen = job[p].seen /\ job'[p].todo = job[p].todo
      /\ job'[p].rec = {s} /\ job'[p].got = version[s]
  BY <1>3 DEF TypeOK, Jobs, Parse
<1>5. reply'.by # "build" BY DEF Parse, NoReply
<1>6. ASSUME NEW r \in Records PROVE InTrack(p, r)'
  <2>1. InTrack(p, r) BY <1>3 DEF PickInv
  <2>2. job[p].seen[r] \in Nat /\ version[r] \in Nat BY DEF TypeOK, Jobs, Times
  <2>3. InHand(p, r)' BY <1>1, <1>3, <1>4, <2>1, <2>2 DEF InTrack, InHand
  <2>4. View(p)' = View(p) BY <1>1 DEF View
  <2>5. PickedUp(p, r)' BY <1>1, <1>4, <2>1, <2>4 DEF InTrack, PickedUp, StampedSince
  <2>6. QED BY <1>1, <1>4, <2>1, <2>3, <2>5 DEF InTrack
<1>7. pc[p] # "stamp" /\ pc'[p] # "stamp" BY <1>3
<1>8. QED BY <1>1, <1>2, <1>5, <1>6, <1>7, PickFrame

LEMMA PickStep == TypeOK /\ PickInv /\ [Next]_vars => PickInv'
<1> SUFFICES ASSUME TypeOK, PickInv, [Next]_vars PROVE PickInv'
  OBVIOUS
<1>1. ASSUME NEW p \in Procs, Refresh(p) PROVE PickInv'
  <2>1. PICK scope \in Scopes : Covers(p, "refresh", scope) BY <1>1 DEF Refresh
  <2>2. scope \in SUBSET Records BY RecordsAssumption
  <2>3. passedBy \subseteq passedBy' BY <1>1 DEF Refresh
  <2>4. pc[p] = "idle" /\ Goto(p, "connect") /\ UNCHANGED store BY <1>1 DEF Refresh
  <2>5. QED BY <2>1, <2>2, <2>3, <2>4, PickBegin
<1>2. ASSUME NEW p \in Procs, Connect(p) \/ InitSchema(p) PROVE PickInv'
  <2>1. UNCHANGED <<version, now, gone, index, txn, lock, job, passedBy>>
    BY <1>2 DEF Connect, InitSchema, sources, history
  <2>2. p \in Building /\ pc[p] # "stamp" /\ pc'[p] \in {"schema", "records"}
        /\ \A q \in Procs \ {p} : pc'[q] = pc[q]
    BY <1>2 DEF TypeOK, Connect, InitSchema, Goto, Building
  <2>3. reply'.by # "build" BY <1>2 DEF Connect, InitSchema, NoReply
  <2>4. ASSUME NEW r \in Records PROVE InTrack(p, r)'
    <3>1. InTrack(p, r) BY <2>2 DEF PickInv
    <3>2. QED BY <2>1, <2>2, <3>1 DEF InTrack, InHand, PickedUp, StampedSince, View
  <2>5. QED BY <2>1, <2>2, <2>3, <2>4, PickFrame
<1>3. ASSUME NEW p \in Procs, LockTimeout(p) PROVE PickInv'
  BY <1>3, PickRollback DEF LockTimeout, Fail, NoReply, history
<1>4. ASSUME NEW p \in Procs, NEW r \in Records, ParseRaises(p, r) PROVE PickInv'
  BY <1>4, PickRollback DEF ParseRaises, Fail, NoReply, history
<1>5. ASSUME NEW p \in Procs, Kill(p) PROVE PickInv'
  BY <1>5, PickRollback DEF Kill, NoReply, history
<1>6. ASSUME NEW p \in Procs, Search(p) PROVE PickInv'
  <2>1. CASE ~file
    <3>1. Covers(p, "search", Records) /\ Goto(p, "connect") /\ UNCHANGED store
          /\ pc[p] = "idle" /\ passedBy' = passedBy
      BY <1>6, <2>1 DEF Search, history
    <3>2. QED BY <3>1, PickBegin
  <2>2. CASE file
    <3>1. /\ p \notin Building' /\ pc[p] # "stamp" /\ pc'[p] # "stamp"
          /\ \A q \in Procs \ {p} : pc'[q] = pc[q] /\ job'[q] = job[q]
      BY <1>6, <2>2 DEF TypeOK, Search, Covers, Goto, Building
    <3>2. UNCHANGED <<version, now, gone, index, txn, lock, passedBy>> /\ reply'.by # "build"
      BY <1>6 DEF Search, Covers, NoReply, sources, store, history
    <3>3. QED BY <3>1, <3>2, PickFrame
  <2>3. QED BY <2>1, <2>2
<1>7. ASSUME NEW p \in Procs, ReadNewest(p) \/ CompareDisk(p) \/ Query(p) PROVE PickInv'
  <2>1. /\ p \notin Building' /\ pc[p] # "stamp" /\ pc'[p] # "stamp"
        /\ \A q \in Procs \ {p} : pc'[q] = pc[q]
    BY <1>7 DEF TypeOK, ReadNewest, CompareDisk, Query, End, Goto, Building
  <2>2. \A q \in Procs \ {p} : job'[q] = job[q]
    BY <1>7 DEF TypeOK, ReadNewest, CompareDisk, Query, End
  <2>3. reply'.by # "build"
    BY <1>7 DEF ReadNewest, CompareDisk, Query, NoReply
  <2>4. UNCHANGED <<version, now, gone, index, txn, lock, passedBy>>
    BY <1>7 DEF ReadNewest, CompareDisk, Query, sources, store, history
  <2>5. QED BY <2>1, <2>2, <2>3, <2>4, PickFrame
<1>8. CASE UNCHANGED vars
  <2>1. InThePast' /\ Stamped(index, {})' /\ TxnKeeps'
    BY <1>8 DEF vars, PickInv, InThePast, StampsOf, Stamped, TxnKeeps, StampedSince, Unstamped, Files
  <2>2. RefreshPicksUp' BY <1>8 DEF vars, PickInv, RefreshPicksUp
  <2>3. \A p \in Building' : \A r \in Records : InTrack(p, r)'
    BY <1>8 DEF vars, PickInv, Building, InTrack, InHand, PickedUp, StampedSince, View
  <2>4. QED BY <2>1, <2>2, <2>3 DEF PickInv
<1>9. QED
  BY <1>1, <1>2, <1>3, <1>4, <1>5, <1>6, <1>7, <1>8, PickTake, PickSkip, PickParse,
     PickWrite, PickStamp, PickCommit, PickAppend, PickDelete DEF Next, Build

(* A build that succeeds leaves each session it covered and can parse       *)
(* indexed no older than the session was when the build began, whatever     *)
(* grows meanwhile and whatever other builds do and fail to do - but for    *)
(* one stamped with a later mtime than that of what was parsed.             *)
THEOREM RefreshesPickUp == Spec => []RefreshPicksUp
<1>1. Init => PickInv BY PickInit
<1>2. TypeOK /\ PickInv /\ [Next]_vars => PickInv' BY PickStep
<1>3. PickInv => RefreshPicksUp BY DEF PickInv
<1>4. QED BY <1>1, <1>2, <1>3, TypeCorrect, PTL DEF Spec

-----------------------------------------------------------------------------
(* A search that does not warn has not missed a file *)

(* The index has all files that were last appended to by time m, but for    *)
(* those that some build passed by.                                         *)
CompleteTo(m) ==
  \A r \in Files \ passedBy :
    0 < version[r] /\ version[r] <= m => index.mtimes[r] = version[r]

(* What a command knows of the files, where it is.                          *)
Knows(label, j) ==
  /\ label \in {"connect", "schema", "records", "parse", "write", "stamp"} =>
       \A r \in FileRecords \ passedBy : j.seen[r] = version[r]
  /\ label # "query" => j.freshness # "fresh"
  /\ label = "disk" => j.got <= now /\ CompleteTo(j.got)
  /\ label = "query" /\ j.freshness = "fresh" =>
       \A r \in (Watched \cap Files) \ passedBy :
         j.seen[r] > 0 => StampedSince(index, r, j.seen[r])

(* Any mtime in the index may be the newest that a search compares with the *)
(* disk, so the index must be complete to each.                             *)
SilentInv ==
  /\ \A r \in Records : index.mtimes[r] # NoRow => CompleteTo(index.mtimes[r])
  /\ \A p \in Procs : Knows(pc[p], job[p])
  /\ SilentAnswerIsComplete

LEMMA SilentInit == Init => SilentInv
<1> SUFFICES ASSUME Init PROVE SilentInv
  OBVIOUS
<1>1. \A r \in Records : index.mtimes[r] = NoRow BY DEF Init, Empty
<1>2. \A p \in Procs : pc[p] = "idle" /\ job[p].freshness = "unknown" BY DEF Init, NoJob
<1>3. reply.by = "none" BY DEF Init, NoReply
<1>4. QED BY <1>1, <1>2, <1>3 DEF SilentInv, Knows, SilentAnswerIsComplete

LEMMA DoneKeeps ==
  ASSUME TypeOK, NEW p \in Procs, NEW r \in Records, job' = Done(p, r)
  PROVE  job'[p].seen = job[p].seen /\ job'[p].freshness = job[p].freshness
<1>1. job[p] \in Jobs /\ job'[p] = [job[p] EXCEPT !.todo = job[p].todo \ {r}, !.rec = {}, !.got = 0]
  BY DEF TypeOK, Done
<1>2. QED BY <1>1 DEF Jobs

(* A step of one command that commits nothing.                              *)
LEMMA SilentFrame ==
  ASSUME TypeOK, SilentInv, NEW p \in Procs, UNCHANGED <<version, now, gone, index>>,
         passedBy \subseteq passedBy',
         \A q \in Procs \ {p} : pc'[q] = pc[q] /\ job'[q] = job[q],
         SilentAnswerIsComplete', Knows(pc[p], job[p])'
  PROVE  SilentInv'
<1>1. ASSUME NEW q \in Procs \ {p} PROVE Knows(pc[q], job[q])'
  <2>1. Knows(pc[q], job[q]) BY DEF SilentInv
  <2>2. QED BY <2>1 DEF Knows, CompleteTo, StampedSince, Files
<1>2. \A r \in Records : (index.mtimes[r] # NoRow => CompleteTo(index.mtimes[r]))'
  BY DEF SilentInv, CompleteTo, Files
<1>3. QED BY <1>1, <1>2 DEF SilentInv

(* The steps of a build that keep it a build, and know what it knew.        *)
LEMMA SilentBuild ==
  ASSUME TypeOK, SilentInv, NEW p \in Procs, UNCHANGED <<version, now, gone, index, passedBy>>,
         pc[p] \in {"connect", "schema", "records", "parse", "write", "stamp"},
         pc'[p] \in {"connect", "schema", "records", "parse", "write", "stamp"},
         \A q \in Procs \ {p} : pc'[q] = pc[q] /\ job'[q] = job[q],
         job'[p].seen = job[p].seen, job'[p].freshness = job[p].freshness, reply' = NoReply
  PROVE  SilentInv'
<1>1. SilentAnswerIsComplete' BY DEF NoReply, SilentAnswerIsComplete
<1>2. Knows(pc[p], job[p])'
  <2>1. Knows(pc[p], job[p]) BY DEF SilentInv
  <2>2. QED BY <2>1 DEF Knows
<1>3. QED BY <1>1, <1>2, SilentFrame

(* A command that is over knows nothing.                                    *)
LEMMA SilentEnd ==
  ASSUME TypeOK, SilentInv, NEW p \in Procs, UNCHANGED <<version, now, gone, index, passedBy>>,
         End(p), SilentAnswerIsComplete'
  PROVE  SilentInv'
<1>1. \A q \in Procs \ {p} : pc'[q] = pc[q] /\ job'[q] = job[q] BY DEF TypeOK, End, Goto
<1>2. pc'[p] = "idle" /\ job'[p].freshness = "unknown" BY DEF TypeOK, End, Goto, NoJob
<1>3. Knows(pc[p], job[p])' BY <1>2 DEF Knows
<1>4. QED BY <1>1, <1>3, SilentFrame

(* A build knows the files it is to cover; the others it passes by.         *)
LEMMA SilentBegin ==
  ASSUME TypeOK, SilentInv, NEW p \in Procs, Refresh(p) \/ Search(p)
  PROVE  SilentInv'
<1>1. PICK mode \in {"refresh", "search"}, scope \in SUBSET Records :
        /\ Covers(p, mode, scope)
        /\ (pc'[p] = "connect" /\ Records \ scope \subseteq passedBy') \/ pc'[p] = "newest"
  <2>1. CASE Refresh(p)
    <3>1. PICK scope \in Scopes :
            Covers(p, "refresh", scope) /\ passedBy' = passedBy \cup (Records \ scope)
      BY <2>1 DEF Refresh
    <3>2. scope \in SUBSET Records /\ pc'[p] = "connect"
      BY <2>1, RecordsAssumption DEF Refresh, TypeOK, Goto
    <3>3. QED BY <3>1, <3>2
  <2>2. CASE Search(p)
    <3>1. CASE file BY <2>2, <3>1 DEF Search, TypeOK, Goto
    <3>2. CASE ~file BY <2>2, <3>2 DEF Search, TypeOK, Goto
    <3>3. QED BY <3>1, <3>2
  <2>3. QED BY <2>1, <2>2
<1>2. UNCHANGED <<version, now, gone, index>> /\ reply' = NoReply /\ passedBy \subseteq passedBy'
  BY DEF Refresh, Search, Covers, sources, store, history
<1>3. \A q \in Procs \ {p} : pc'[q] = pc[q] /\ job'[q] = job[q]
  BY DEF TypeOK, Refresh, Search, Covers, Goto
<1>4. /\ job'[p].freshness = "unknown"
      /\ \A r \in Records : job'[p].seen[r] = IF r \in scope THEN version[r] ELSE 0
  <2> DEFINE j == [NoJob EXCEPT
       !.mode = mode, !.todo = scope,
       !.seen = [r \in Records |-> IF r \in scope THEN version[r] ELSE 0]]
  <2>1. job'[p] = j BY <1>1 DEF TypeOK, Covers
  <2>2. /\ j.freshness = "unknown"
        /\ j.seen = [r \in Records |-> IF r \in scope THEN version[r] ELSE 0]
    BY DEF NoJob
  <2>3. QED BY <2>1, <2>2
<1>5. Knows(pc[p], job[p])' BY <1>1, <1>2, <1>4, RecordsAssumption DEF Knows
<1>6. SilentAnswerIsComplete' BY <1>2 DEF NoReply, SilentAnswerIsComplete
<1>7. QED BY <1>2, <1>3, <1>5, <1>6, SilentFrame

LEMMA SilentReadNewest ==
  ASSUME TypeOK, PickInv, SilentInv, NEW p \in Procs, ReadNewest(p)
  PROVE  SilentInv'
<1>1. UNCHANGED <<version, now, gone, index, passedBy>> /\ reply' = NoReply
  BY DEF ReadNewest, sources, store, history
<1>2. \A q \in Procs \ {p} : pc'[q] = pc[q] BY DEF TypeOK, ReadNewest, Goto
<1>3. \A q \in Procs \ {p} : job'[q] = job[q] BY DEF TypeOK, ReadNewest
<1>4. job[p] \in Jobs /\ job[p].freshness # "fresh"
  BY DEF TypeOK, ReadNewest, SilentInv, Knows
<1>5. Knows(pc'[p], job'[p])
  <2>1. CASE Goto(p, "query") /\ UNCHANGED job
    <3>1. pc'[p] = "query" /\ job'[p] = job[p] BY <2>1 DEF TypeOK, Goto
    <3>2. QED BY <1>4, <3>1 DEF Knows
  <2>2. ASSUME NEW n \in IndexedMtimes, job' = [job EXCEPT ![p] = [job[p] EXCEPT !.got = n]],
               Goto(p, "disk")
        PROVE  Knows(pc'[p], job'[p])
    <3>1. pc'[p] = "disk" /\ job'[p] = [job[p] EXCEPT !.got = n] BY <2>2 DEF TypeOK, Goto
    <3>2. job'[p].got = n /\ job'[p].freshness = job[p].freshness BY <1>4, <3>1 DEF Jobs
    <3>3. n <= now /\ CompleteTo(n)
      <4>1. CASE n = 0
        <5>1. now \in Nat /\ \A r \in Records : version[r] \in Nat BY DEF TypeOK, Times
        <5>2. QED BY <4>1, <5>1, RecordsAssumption DEF CompleteTo, Files
      <4>2. ASSUME NEW r \in Records, index.mtimes[r] # NoRow, n = index.mtimes[r]
            PROVE  n <= now /\ CompleteTo(n)
        <5>1. n \in Nat /\ version[r] \in Nat /\ now \in Nat BY <4>2 DEF TypeOK, Contents, Times
        <5>2. n <= version[r] /\ version[r] <= now BY <4>2 DEF PickInv, InThePast, StampsOf
        <5>3. QED BY <4>2, <5>1, <5>2 DEF SilentInv
      <4>3. QED BY <4>1, <4>2 DEF IndexedMtimes
    <3>4. QED BY <1>4, <3>1, <3>2, <3>3 DEF Knows
  <2>3. QED BY <2>1, <2>2 DEF ReadNewest
<1>6. Knows(pc[p], job[p])' BY <1>1, <1>5 DEF Knows, CompleteTo, StampedSince, Files
<1>7. SilentAnswerIsComplete' BY <1>1 DEF NoReply, SilentAnswerIsComplete
<1>8. QED BY <1>1, <1>2, <1>3, <1>6, <1>7, SilentFrame

LEMMA SilentCompareDisk ==
  ASSUME TypeOK, SilentInv, NEW p \in Procs, CompareDisk(p)
  PROVE  SilentInv'
<1>1. UNCHANGED <<version, now, gone, index, passedBy>> /\ reply' = NoReply
  BY DEF CompareDisk, sources, store, history
<1>2. \A q \in Procs \ {p} : pc'[q] = pc[q] /\ job'[q] = job[q]
  BY DEF TypeOK, CompareDisk, Goto
<1>3. pc'[p] = "query" /\ CompleteTo(job[p].got)
  BY DEF TypeOK, CompareDisk, Goto, SilentInv, Knows
<1>4. /\ job'[p].freshness = Freshness(job[p].got)
      /\ \A r \in Records : job'[p].seen[r] = SourceMtime(r)
  <2>1. job[p] \in Jobs /\ job'[p] = [job[p] EXCEPT !.freshness = Freshness(job[p].got), !.got = 0,
                                                    !.seen = [r \in Records |-> SourceMtime(r)]]
    BY DEF TypeOK, CompareDisk
  <2>2. QED BY <2>1 DEF Jobs
<1>5. ASSUME job'[p].freshness = "fresh", NEW r \in (Watched \cap Files) \ passedBy,
             job'[p].seen[r] > 0
      PROVE  StampedSince(index, r, job'[p].seen[r])
  <2>1. r \in Records /\ version[r] \in Nat /\ version[r] # NoRow
    BY RecordsAssumption, MarksAssumption DEF Files, TypeOK, Times
  <2>2. job'[p].seen[r] = version[r] BY <1>4, <2>1 DEF SourceMtime, Files
  <2>3. SourceMtime(r) <= job[p].got BY <1>4, <1>5, <2>1 DEF Freshness
  <2>4. version[r] <= job[p].got BY <2>3 DEF SourceMtime, Files
  <2>5. index.mtimes[r] = version[r]
    BY <1>3, <1>5, <2>1, <2>2, <2>4 DEF CompleteTo
  <2>6. QED BY <2>1, <2>2, <2>5 DEF StampedSince
<1>6. Knows(pc'[p], job'[p]) BY <1>3, <1>5 DEF Knows
<1>7. Knows(pc[p], job[p])' BY <1>1, <1>6 DEF Knows, CompleteTo, StampedSince, Files
<1>8. SilentAnswerIsComplete' BY <1>1 DEF NoReply, SilentAnswerIsComplete
<1>9. QED BY <1>1, <1>2, <1>7, <1>8, SilentFrame

LEMMA SilentQuery ==
  ASSUME TypeOK, PickInv, SilentInv, NEW p \in Procs, Query(p)
  PROVE  SilentInv'
<1>1. UNCHANGED <<version, now, gone, index, passedBy>> /\ End(p) /\ pc[p] = "query"
  BY DEF Query, sources, store, history
<1>2. SilentAnswerIsComplete'
  <2>1. CASE reply' = [by |-> "index", fresh |-> job[p].freshness = "fresh",
                       seen |-> job[p].seen, hits |-> Joined]
    <3> SUFFICES ASSUME job[p].freshness = "fresh", NEW r \in Watched \ (gone \cup passedBy),
                        job[p].seen[r] > 0
                 PROVE  \E v \in Joined[r] : v >= job[p].seen[r]
      BY <1>1, <2>1 DEF SilentAnswerIsComplete
    <3>1. r \in Records /\ r \in Files BY RecordsAssumption DEF Files
    <3>2. StampedSince(index, r, job[p].seen[r]) BY <1>1, <3>1 DEF SilentInv, Knows
    <3>3. r \notin index.late BY <3>1 DEF PickInv, InThePast, StampsOf
    <3>4. index.rows[r] = {index.mtimes[r]}
      BY <3>1, <3>2, <3>3 DEF PickInv, Stamped, StampedSince
    <3>5. Joined[r] = index.rows[r] BY <3>1, <3>2 DEF Joined, StampedSince
    <3>6. QED BY <3>2, <3>4, <3>5 DEF StampedSince
  <2>2. CASE reply' = [NoReply EXCEPT !.by = "grep"]
    BY <2>2 DEF NoReply, SilentAnswerIsComplete
  <2>3. QED BY <2>1, <2>2 DEF Query
<1>3. QED BY <1>1, <1>2, SilentEnd

(* A build leaves every file that none passed by as it is now.              *)
LEMMA SilentCommit ==
  ASSUME TypeOK, PickInv, SilentInv, NEW p \in Procs, Commit(p)
  PROVE  SilentInv'
<1>1. UNCHANGED <<version, now, gone, passedBy>> /\ index' = View(p) /\ reply'.by = "build"
  BY DEF Commit, sources, NoReply
<1>2. pc[p] = "records" /\ job[p].todo = {} /\ p \in Building
  BY DEF Commit, Building
<1>3. \A q \in Procs \ {p} : job'[q] = job[q] /\ pc'[q] = pc[q]
  BY DEF TypeOK, Commit, End, Goto
<1>4. ASSUME NEW r \in Files \ passedBy, version[r] > 0 PROVE index'.mtimes[r] = version[r]
  <2>1. r \in Records /\ r \in FileRecords /\ r \notin gone \cup Unparsed
    BY RecordsAssumption DEF Files
  <2>2. job[p].seen[r] = version[r] BY <1>2, <2>1 DEF SilentInv, Knows
  <2>3. PickedUp(p, r) BY <1>2, <2>1 DEF PickInv, InTrack
  <2>4. StampedSince(View(p), r, version[r]) BY <1>2, <1>4, <2>1, <2>2, <2>3 DEF PickedUp
  <2>5. View(p).mtimes[r] <= version[r] BY <2>1, <2>4, StampsOfView DEF StampsOf, StampedSince
  <2>6. version[r] \in Nat /\ View(p).mtimes[r] \in Nat
    BY <2>1, <2>4, ViewIsContents DEF TypeOK, Contents, Times, StampedSince
  <2>7. View(p).mtimes[r] = version[r] BY <2>4, <2>5, <2>6 DEF StampedSince
  <2>8. QED BY <1>1, <2>7
<1>5. \A m : CompleteTo(m)' BY <1>1, <1>4 DEF CompleteTo, Files
<1>6. ASSUME NEW q \in Procs \ {p} PROVE Knows(pc[q], job[q])'
  <2>1. Knows(pc[q], job[q]) /\ job[q] \in Jobs BY DEF SilentInv, TypeOK
  <2>2. ASSUME NEW r \in Watched \cap Files, StampedSince(index, r, job[q].seen[r])
        PROVE  StampedSince(index', r, job[q].seen[r])
    <3>1. r \in Records /\ job[q].seen[r] \in Nat
      BY <2>1, RecordsAssumption DEF Files, Times, Jobs
    <3>2. StampedSince(View(p), r, job[q].seen[r]) BY <2>2, <3>1, ViewKeeps
    <3>3. QED BY <1>1, <3>2
  <2>3. pc'[q] = "query" /\ job'[q].freshness = "fresh" =>
          \A r \in (Watched \cap Files) \ passedBy :
            job'[q].seen[r] > 0 => StampedSince(index', r, job'[q].seen[r])
    BY <1>3, <2>1, <2>2 DEF Knows
  <2>4. QED BY <1>1, <1>3, <1>5, <2>1, <2>3 DEF Knows, Files, StampedSince
<1>7. Knows(pc[p], job[p])'
  <2>1. job[p].freshness # "fresh" BY <1>2 DEF SilentInv, Knows
  <2>2. CASE End(p)
    <3>1. pc'[p] = "idle" /\ job'[p].freshness = "unknown" BY <2>2 DEF TypeOK, End, Goto, NoJob
    <3>2. QED BY <3>1 DEF Knows
  <2>3. CASE Goto(p, "query") /\ UNCHANGED job
    <3>1. pc'[p] = "query" /\ job'[p] = job[p] BY <2>3 DEF TypeOK, Goto
    <3>2. QED BY <2>1, <3>1 DEF Knows
  <2>4. QED BY <2>2, <2>3 DEF Commit
<1>8. SilentAnswerIsComplete' BY <1>1 DEF SilentAnswerIsComplete
<1>9. QED BY <1>5, <1>6, <1>7, <1>8 DEF SilentInv

(* A file appended to is newer than every mtime that was read, and passed   *)
(* by if a build runs.                                                      *)
LEMMA SilentAppend ==
  ASSUME TypeOK, PickInv, SilentInv, NEW s \in Records, Append(s)
  PROVE  SilentInv'
<1>1. UNCHANGED <<gone, index, pc, job>> /\ reply' = NoReply /\ s \notin gone
  BY DEF Append, store
<1>2. \A r \in Records : version'[r] = IF r = s THEN now + 1 ELSE version[r]
  BY DEF TypeOK, Append
<1>3. now \in Nat /\ now' = now + 1 /\ \A r \in Records : version[r] \in Nat /\ version[r] <= now
  BY DEF TypeOK, Times, Append, PickInv, InThePast
<1>4. passedBy \subseteq passedBy' /\ (Building # {} => s \in passedBy') BY DEF Append
<1>5. ASSUME NEW m \in Nat, m <= now, CompleteTo(m) PROVE CompleteTo(m)'
  <2> SUFFICES ASSUME NEW r \in Files \ passedBy', 0 < version'[r], version'[r] <= m
               PROVE  index.mtimes[r] = version'[r]
    BY <1>1 DEF CompleteTo, Files
  <2>1. r \in Records /\ r \in Files \ passedBy BY <1>4, RecordsAssumption DEF Files
  <2>2. r # s BY <1>2, <1>3, <1>5, <2>1
  <2>3. version'[r] = version[r] BY <1>2, <2>1, <2>2
  <2>4. QED BY <1>5, <2>1, <2>3 DEF CompleteTo
<1>6. ASSUME NEW r \in Records, index.mtimes[r] # NoRow PROVE CompleteTo(index.mtimes[r])'
  <2>1. index.mtimes[r] \in Nat BY <1>6 DEF TypeOK, Contents, Times
  <2>2. index.mtimes[r] <= version[r] BY <1>6 DEF PickInv, InThePast, StampsOf
  <2>3. index.mtimes[r] <= now BY <1>3, <2>1, <2>2
  <2>4. CompleteTo(index.mtimes[r]) BY <1>6 DEF SilentInv
  <2>5. QED BY <1>1, <1>5, <2>1, <2>3, <2>4 DEF CompleteTo
<1>7. ASSUME NEW q \in Procs PROVE Knows(pc[q], job[q])'
  <2>1. Knows(pc[q], job[q]) /\ job[q].got \in Nat BY DEF SilentInv, TypeOK, Jobs, Times
  <2>2. ASSUME pc[q] \in {"connect", "schema", "records", "parse", "write", "stamp"},
               NEW r \in FileRecords \ passedBy'
        PROVE  job[q].seen[r] = version'[r]
    <3>1. q \in Building BY <2>2 DEF Building
    <3>2. r # s /\ r \in Records /\ r \in FileRecords \ passedBy
      BY <1>4, <2>2, <3>1, RecordsAssumption
    <3>3. QED BY <1>2, <2>1, <2>2, <3>2 DEF Knows
  <2>3. ASSUME pc[q] = "disk" PROVE job[q].got <= now' /\ CompleteTo(job[q].got)'
    <3>1. job[q].got <= now /\ CompleteTo(job[q].got) BY <2>1, <2>3 DEF Knows
    <3>2. job[q].got <= now' BY <1>3, <2>1, <3>1
    <3>3. CompleteTo(job[q].got)' BY <1>1, <1>5, <2>1, <3>1 DEF CompleteTo
    <3>4. QED BY <3>2, <3>3
  <2>4. pc[q] # "query" => job[q].freshness # "fresh" BY <2>1 DEF Knows
  <2>5. pc[q] = "query" /\ job[q].freshness = "fresh" =>
          \A r \in (Watched \cap Files) \ passedBy' :
            job[q].seen[r] > 0 => StampedSince(index, r, job[q].seen[r])
    BY <1>4, <2>1 DEF Knows
  <2>6. QED BY <1>1, <2>2, <2>3, <2>4, <2>5 DEF Knows, Files, StampedSince
<1>8. SilentAnswerIsComplete' BY <1>1 DEF NoReply, SilentAnswerIsComplete
<1>9. QED BY <1>1, <1>6, <1>7, <1>8 DEF SilentInv

LEMMA SilentDelete ==
  ASSUME TypeOK, SilentInv, NEW s \in Records, Delete(s)
  PROVE  SilentInv'
<1>1. UNCHANGED <<version, now, index, pc, job, passedBy>> /\ reply' = NoReply /\ gone \subseteq gone'
  BY DEF Delete, store, history
<1>2. Files' \subseteq Files BY <1>1 DEF Files
<1>3. \A m : CompleteTo(m) => CompleteTo(m)' BY <1>1, <1>2 DEF CompleteTo
<1>4. \A r \in Records : (index.mtimes[r] # NoRow => CompleteTo(index.mtimes[r]))'
  BY <1>1, <1>2 DEF SilentInv, CompleteTo
<1>5. ASSUME NEW q \in Procs PROVE Knows(pc[q], job[q])'
  <2>1. Knows(pc[q], job[q]) BY DEF SilentInv
  <2>2. QED BY <1>1, <1>2, <2>1 DEF Knows, CompleteTo, StampedSince
<1>6. SilentAnswerIsComplete' BY <1>1 DEF NoReply, SilentAnswerIsComplete
<1>7. QED BY <1>4, <1>5, <1>6 DEF SilentInv

LEMMA SilentStep == TypeOK /\ PickInv /\ SilentInv /\ [Next]_vars => SilentInv'
<1> SUFFICES ASSUME TypeOK, PickInv, SilentInv, [Next]_vars
             PROVE  SilentInv'
  OBVIOUS
<1>1. ASSUME NEW p \in Procs, Connect(p) \/ InitSchema(p) PROVE SilentInv'
  BY <1>1, SilentBuild DEF TypeOK, Connect, InitSchema, Goto, sources, history
<1>2. ASSUME NEW p \in Procs, NEW r \in Records, Missing(p, r) \/ ParseNone(p, r) \/ Stamp(p, r)
      PROVE  SilentInv'
  <2>1. job' = Done(p, r) /\ UNCHANGED <<version, now, gone, index, passedBy>> /\ reply' = NoReply
    BY <1>2 DEF Missing, ParseNone, Stamp, sources, store, history
  <2>2. job'[p].seen = job[p].seen /\ job'[p].freshness = job[p].freshness BY <2>1, DoneKeeps
  <2>3. /\ pc[p] \in {"records", "parse", "stamp"} /\ pc'[p] = "records"
        /\ \A q \in Procs \ {p} : pc'[q] = pc[q]
    BY <1>2 DEF TypeOK, Missing, ParseNone, Stamp, Goto
  <2>4. \A q \in Procs \ {p} : job'[q] = job[q] BY <2>1 DEF TypeOK, Done
  <2>5. QED BY <2>1, <2>2, <2>3, <2>4, SilentBuild
<1>3. ASSUME NEW p \in Procs, NEW r \in Records, Take(p, r) \/ Parse(p, r) \/ WriteRows(p, r)
      PROVE  SilentInv'
  <2>1. UNCHANGED <<version, now, gone, index, passedBy>> /\ reply' = NoReply
    BY <1>3 DEF Take, Parse, WriteRows, sources, store, history
  <2>2. /\ pc[p] \in {"records", "parse", "write"}
        /\ pc'[p] \in {"records", "parse", "write", "stamp"}
        /\ \A q \in Procs \ {p} : pc'[q] = pc[q]
    BY <1>3 DEF TypeOK, Take, Parse, WriteRows, Goto
  <2>3. \/ job' = Done(p, r) \/ job' = job
        \/ job' = [job EXCEPT ![p] = [job[p] EXCEPT !.rec = {r}]]
        \/ job' = [job EXCEPT ![p] = [job[p] EXCEPT !.got = version[r]]]
    BY <1>3 DEF Take, Parse, WriteRows
  <2>4. \A q \in Procs \ {p} : job'[q] = job[q] BY <2>3 DEF TypeOK, Done
  <2>5. job'[p].seen = job[p].seen /\ job'[p].freshness = job[p].freshness
    <3>1. job[p] \in Jobs BY DEF TypeOK
    <3>2. CASE job' = Done(p, r) BY <3>2, DoneKeeps
    <3>3. CASE job' = job BY <3>3
    <3>4. CASE job' = [job EXCEPT ![p] = [job[p] EXCEPT !.rec = {r}]]
      BY <3>1, <3>4 DEF TypeOK, Jobs
    <3>5. CASE job' = [job EXCEPT ![p] = [job[p] EXCEPT !.got = version[r]]]
      BY <3>1, <3>5 DEF TypeOK, Jobs
    <3>6. QED BY <2>3, <3>2, <3>3, <3>4, <3>5
  <2>6. QED BY <2>1, <2>2, <2>4, <2>5, SilentBuild
<1>4. ASSUME NEW p \in Procs, Fail(p) \/ Kill(p) PROVE SilentInv'
  <2>1. UNCHANGED <<version, now, gone, index, passedBy>> /\ End(p)
    BY <1>4 DEF Fail, Kill, Rollback, sources, history
  <2>2. reply'.by # "index" BY <1>4 DEF Fail, Kill, NoReply
  <2>3. QED BY <2>1, <2>2, SilentEnd DEF SilentAnswerIsComplete
<1>5. CASE UNCHANGED vars
  <2>1. SilentAnswerIsComplete' BY <1>5 DEF vars, SilentInv, SilentAnswerIsComplete
  <2>2. QED BY <1>5, <2>1 DEF vars, SilentInv, Knows, CompleteTo, StampedSince, Files
<1>6. QED
  BY <1>1, <1>2, <1>3, <1>4, <1>5, SilentBegin, SilentReadNewest, SilentCompareDisk, SilentQuery,
     SilentCommit, SilentAppend, SilentDelete DEF Next, Build, LockTimeout, ParseRaises

(* A search that looked and does not warn answers from an index that has    *)
(* each file it looked at as it was at that look, but for those that some   *)
(* build passed by - did not cover, or ran as they grew.                    *)
THEOREM SilentAnswersAreComplete == Spec => []SilentAnswerIsComplete
<1>1. Init => PickInv /\ SilentInv BY PickInit, SilentInit
<1>2. TypeOK /\ (PickInv /\ SilentInv) /\ [Next]_vars => (PickInv /\ SilentInv)'
  BY PickStep, SilentStep
<1>3. PickInv /\ SilentInv => SilentAnswerIsComplete BY DEF SilentInv
<1>4. QED BY <1>1, <1>2, <1>3, TypeCorrect, PTL DEF Spec
=============================================================================
