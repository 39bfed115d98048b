------------------------------ MODULE FtsIndex ------------------------------
(***************************************************************************)
(* The SQLite full-text index (_fts.py), the commands that fill it         *)
(* (`refresh`, `reindex`: cli.py) and the default content search that      *)
(* reads it, builds it on first use and falls back to grep (_search.py).   *)
(* Each command is a process of its own; all share one index file, with    *)
(* one write transaction at a time, while agents append to the sessions.   *)
(*                                                                         *)
(* A session's version is the time of its last append, which is also the   *)
(* mtime of its file; records kept in databases have no mtime.  A parse    *)
(* gives the version the session has then (_cached_parse never gives an    *)
(* older one for a file).  What is indexed of a version is the version.    *)
(*                                                                         *)
(* A definition named Bug... is the one after it with a plausible mistake. *)
(* Nothing uses it: it is there to try the properties on.                  *)
(***************************************************************************)
EXTENDS Naturals, FiniteSets

CONSTANTS Procs,          \* commands
          Records,        \* trajectory records, by their id
          FileRecords,    \* the ones whose source is a Path
          Watched,        \* those in the stores that _newest_source_mtime looks at;
                          \* the other files are in extra folders
          Unparsed,       \* the ones parse_record has no branch for: opencode's
          Store,          \* [Records -> its place in the order of the stores]
          Scopes,         \* what a refresh may cover: all records, or one directory's
          NoRow, NoProc,
          MaxAppends,     \* bound: appends in a behaviour
          MaxDeleted      \* bound: records deleted

ASSUME RecordsAssumption ==
  /\ FileRecords \subseteq Records /\ Watched \subseteq FileRecords
  /\ Unparsed \subseteq Records \ FileRecords
  /\ Scopes \subseteq SUBSET Records /\ Store \in [Records -> Nat]
ASSUME MarksAssumption == NoRow \notin Nat /\ NoProc \notin Procs
ASSUME MaxAppendsAssumption == MaxAppends \in Nat
ASSUME MaxDeletedAssumption == MaxDeleted \in Nat

VARIABLES
  version,   \* [Records -> time of the last append, 0 before the first]
  now,       \* appends so far
  gone,      \* records whose source was deleted
  file,      \* whether the index file exists
  tables,    \* whether its tables do
  index,     \* committed: [rows |-> versions of each record in steps_fts,
             \*             mtimes |-> records.source_mtime of each, or NoRow,
             \*             late |-> history: the ones stamped with a later mtime
             \*                      than that of what was parsed]
  txn,       \* the same, as the open write transaction sees it
  lock,      \* the process whose write transaction is open, or NoProc
  pc, job,   \* [Procs -> where its command is], [Procs -> locals of its command]
  built,     \* history: some build has been committed
  passedBy,  \* history: records that some build did not cover, or that grew as one ran
  reply      \* history: what a command did or answered in this step

vars == <<version, now, gone, file, tables, index, txn, lock, pc, job, built, passedBy, reply>>
sources == <<version, now, gone>>
store == <<file, tables, index, txn, lock>>

Times == 0..MaxAppends
Empty == [rows |-> [r \in Records |-> {}], mtimes |-> [r \in Records |-> NoRow], late |-> {}]
history == <<built, passedBy>>
NoJob == [mode |-> "none", todo |-> {}, rec |-> {}, got |-> 0, freshness |-> "unknown",
          seen |-> [r \in Records |-> 0]]
NoReply == [by |-> "none", fresh |-> FALSE, seen |-> NoJob.seen, hits |-> Empty.rows]

Init ==
  /\ version = [r \in Records |-> 0] /\ now = 0 /\ gone = {}
  /\ file = FALSE /\ tables = FALSE
  /\ index = Empty /\ txn = Empty /\ lock = NoProc
  /\ pc = [p \in Procs |-> "idle"]
  /\ job = [p \in Procs |-> NoJob]
  /\ built = FALSE /\ passedBy = {}
  /\ reply = NoReply

(* _source_mtime: 0.0 for what is not a file, or no longer is.             *)
SourceMtime(r) == IF r \in FileRecords \ gone THEN version[r] ELSE 0

(* The connection's view: its own transaction's, else what is committed.   *)
View(p) == IF lock = p THEN txn ELSE index

-----------------------------------------------------------------------------
(* build_index *)

Goto(p, label) == pc' = [pc EXCEPT ![p] = label]

BugCommitOnClose(p) ==
  /\ lock' = IF lock = p THEN NoProc ELSE lock
  /\ txn' = IF lock = p THEN Empty ELSE txn
  /\ index' = View(p)
  /\ UNCHANGED <<file, tables>>

BugLockOutlives(p) ==
  /\ txn' = IF lock = p THEN Empty ELSE txn
  /\ UNCHANGED <<file, tables, index, lock>>

(* The command ends: its connection closes, which rolls back what it has   *)
(* not committed.                                                          *)
Rollback(p) ==
  /\ lock' = IF lock = p THEN NoProc ELSE lock
  /\ txn' = IF lock = p THEN Empty ELSE txn
  /\ UNCHANGED <<file, tables, index>>

End(p) ==
  /\ Goto(p, "idle")
  /\ job' = [job EXCEPT ![p] = NoJob]

(* build_index raises: a refresh dies of it, the default search answers    *)
(* with grep instead.                                                      *)
Fail(p) ==
  /\ Rollback(p)
  /\ reply' = IF job[p].mode = "search" THEN [NoReply EXCEPT !.by = "grep"] ELSE NoReply
  /\ End(p)
  /\ UNCHANGED <<sources, history>>

(* What the command is to cover, and how far each session was then.        *)
Covers(p, mode, scope) ==
  /\ job' = [job EXCEPT ![p] = [NoJob EXCEPT
       !.mode = mode, !.todo = scope,
       !.seen = [r \in Records |-> IF r \in scope THEN version[r] ELSE 0]]]
  /\ UNCHANGED sources
  /\ reply' = NoReply

Refresh(p) ==
  /\ pc[p] = "idle"
  /\ \E scope \in Scopes :
       Covers(p, "refresh", scope) /\ passedBy' = passedBy \cup (Records \ scope)
  /\ Goto(p, "connect")
  /\ UNCHANGED <<store, built>>

Connect(p) ==
  /\ pc[p] = "connect"
  /\ file' = TRUE
  /\ Goto(p, "schema")
  /\ reply' = NoReply
  /\ UNCHANGED <<sources, tables, index, txn, lock, job, history>>

(* executescript commits the tables whatever becomes of the build.         *)
InitSchema(p) ==
  /\ pc[p] = "schema"
  /\ tables' = TRUE
  /\ Goto(p, "records")
  /\ reply' = NoReply
  /\ UNCHANGED <<sources, file, index, txn, lock, job, history>>

Done(p, r) == [job EXCEPT ![p] =
  [job[p] EXCEPT !.todo = job[p].todo \ {r}, !.rec = {}, !.got = 0]]

(* records_iter lists each store when it comes to it: a session that is    *)
(* not there, or no longer there, is not met.  One deleted after its store *)
(* was listed is; so is one whose database still holds it.                 *)
ComesNext(p, r) == r \in job[p].todo /\ \A q \in job[p].todo : Store[r] <= Store[q]

Missing(p, r) ==
  /\ pc[p] = "records" /\ ComesNext(p, r)
  /\ version[r] = 0 \/ r \in gone
  /\ job' = Done(p, r)
  /\ reply' = NoReply
  /\ UNCHANGED <<sources, store, pc, history>>

BugUpToDateOnceIndexed(p, r) == SourceMtime(r) # 0 /\ View(p).mtimes[r] # NoRow

UpToDate(p, r) == SourceMtime(r) # 0 /\ View(p).mtimes[r] = SourceMtime(r)

Take(p, r) ==
  /\ pc[p] = "records" /\ ComesNext(p, r)
  /\ version[r] > 0 /\ (r \in gone => job[p].seen[r] > 0)
  /\ \/ UpToDate(p, r) /\ job' = Done(p, r) /\ UNCHANGED pc
     \/ ~UpToDate(p, r) /\ job' = [job EXCEPT ![p] = [job[p] EXCEPT !.rec = {r}]] /\ Goto(p, "parse")
  /\ reply' = NoReply
  /\ UNCHANGED <<sources, store, history>>

(* parse_record, before anything is written of it: None of a session it    *)
(* cannot parse, or when a codex_db session's rollout is gone;             *)
(* FileNotFoundError when a file is.                                       *)
Parse(p, r) ==
  /\ pc[p] = "parse" /\ job[p].rec = {r}
  /\ r \notin gone \cup Unparsed
  /\ job' = [job EXCEPT ![p] = [job[p] EXCEPT !.got = version[r]]]
  /\ Goto(p, "write")
  /\ reply' = NoReply
  /\ UNCHANGED <<sources, store, history>>

ParseNone(p, r) ==
  /\ pc[p] = "parse" /\ job[p].rec = {r}
  /\ r \in (gone \ FileRecords) \cup Unparsed
  /\ job' = Done(p, r)
  /\ Goto(p, "records")
  /\ reply' = NoReply
  /\ UNCHANGED <<sources, store, history>>

ParseRaises(p, r) ==
  /\ pc[p] = "parse" /\ job[p].rec = {r}
  /\ r \in gone \cap FileRecords
  /\ Fail(p)

(* DELETE, then INSERT: the first write of a build opens its transaction,  *)
(* waiting for any other to end.                                           *)
Rows(p, r) == [View(p).rows EXCEPT ![r] = {job[p].got}]

WriteRows(p, r) ==
  /\ pc[p] = "write" /\ job[p].rec = {r}
  /\ lock \in {p, NoProc}
  /\ lock' = p
  /\ txn' = [View(p) EXCEPT !.rows = Rows(p, r)]
  /\ Goto(p, "stamp")
  /\ reply' = NoReply
  /\ UNCHANGED <<sources, file, tables, index, job, history>>

LockTimeout(p) ==
  /\ pc[p] = "write"
  /\ lock \notin {p, NoProc}
  /\ Fail(p)

(* INSERT OR REPLACE INTO records, with the mtime the source has by now.   *)
Stamp(p, r) ==
  /\ pc[p] = "stamp" /\ job[p].rec = {r}
  /\ txn' = [rows |-> txn.rows, mtimes |-> [txn.mtimes EXCEPT ![r] = SourceMtime(r)],
             late |-> IF SourceMtime(r) > job[p].got THEN txn.late \cup {r} ELSE txn.late \ {r}]
  /\ job' = Done(p, r)
  /\ Goto(p, "records")
  /\ reply' = NoReply
  /\ UNCHANGED <<sources, file, tables, index, lock, history>>

Commit(p) ==
  /\ pc[p] = "records" /\ job[p].todo = {}
  /\ index' = View(p)
  /\ lock' = IF lock = p THEN NoProc ELSE lock
  /\ txn' = IF lock = p THEN Empty ELSE txn
  /\ built' = TRUE /\ UNCHANGED passedBy
  /\ reply' = [NoReply EXCEPT !.by = "build", !.seen = job[p].seen, !.hits = View(p).rows]
  /\ \/ job[p].mode = "refresh" /\ End(p)
     \/ job[p].mode = "search" /\ Goto(p, "query") /\ UNCHANGED job
  /\ UNCHANGED <<sources, file, tables>>

Build(p) ==
  \/ Connect(p) \/ InitSchema(p) \/ LockTimeout(p) \/ Commit(p)
  \/ \E r \in Records : \/ Missing(p, r) \/ Take(p, r) \/ WriteRows(p, r) \/ Stamp(p, r)
                        \/ Parse(p, r) \/ ParseNone(p, r) \/ ParseRaises(p, r)

-----------------------------------------------------------------------------
(* The default content search: SqliteBackend.search, grep if it raises. *)

(* The first search builds the index itself, over all records.             *)
Search(p) ==
  /\ pc[p] = "idle"
  /\ Covers(p, "search", IF file THEN {} ELSE Records)
  /\ Goto(p, IF file THEN "newest" ELSE "connect")
  /\ UNCHANGED <<store, history>>

(* MAX(source_mtime), or the 0.0 of no row.                                *)
IndexedMtimes == {0} \cup {index.mtimes[r] : r \in {q \in Records : index.mtimes[q] # NoRow}}
IsIndexedNewest(n) == n \in IndexedMtimes /\ \A m \in IndexedMtimes : m <= n

(* stale_summary reads it in the index, unless the index cannot be read:   *)
(* then nothing is known ...                                               *)
ReadNewest(p) ==
  /\ pc[p] = "newest"
  /\ \/ /\ tables
        /\ \E n \in IndexedMtimes :
             IsIndexedNewest(n) /\ job' = [job EXCEPT ![p] = [job[p] EXCEPT !.got = n]]
        /\ Goto(p, "disk")
     \/ /\ ~tables \/ lock # NoProc
        /\ Goto(p, "query") /\ UNCHANGED job
  /\ reply' = NoReply
  /\ UNCHANGED <<sources, store, history>>

(* ... and compares the newest file of the stores it looks at with it,     *)
(* which are not all that iter_all_records gives to the index.             *)
BugFreshness(indexed) ==
  IF \E r \in Watched : SourceMtime(r) <= indexed THEN "fresh" ELSE "stale"

Freshness(indexed) ==
  IF \A r \in Watched : SourceMtime(r) <= indexed THEN "fresh" ELSE "stale"

CompareDisk(p) ==
  /\ pc[p] = "disk"
  /\ job' = [job EXCEPT ![p] = [job[p] EXCEPT
       !.freshness = Freshness(job[p].got), !.got = 0,
       !.seen = [r \in Records |-> SourceMtime(r)]]]
  /\ Goto(p, "query")
  /\ reply' = NoReply
  /\ UNCHANGED <<sources, store, history>>

(* search_fts joins the committed rows with their records.  "no such       *)
(* table" and "database is locked" both end in grep.                       *)
Joined == [r \in Records |-> IF index.mtimes[r] = NoRow THEN {} ELSE index.rows[r]]

Query(p) ==
  /\ pc[p] = "query"
  /\ \/ /\ tables
        /\ reply' = [by |-> "index", fresh |-> job[p].freshness = "fresh",
                     seen |-> job[p].seen, hits |-> Joined]
     \/ /\ ~tables \/ lock # NoProc
        /\ reply' = [NoReply EXCEPT !.by = "grep"]
  /\ End(p)
  /\ UNCHANGED <<sources, store, history>>

-----------------------------------------------------------------------------
(* The environment *)

Building == {p \in Procs : pc[p] \in {"connect", "schema", "records", "parse", "write", "stamp"}}

Append(r) ==
  /\ now < MaxAppends
  /\ r \notin gone
  /\ now' = now + 1
  /\ version' = [version EXCEPT ![r] = now + 1]
  /\ passedBy' = IF Building = {} THEN passedBy ELSE passedBy \cup {r}
  /\ reply' = NoReply
  /\ UNCHANGED <<gone, store, pc, job, built>>

(* `delete`, or the agent's own clean-up.                                  *)
Delete(r) ==
  /\ version[r] > 0 /\ r \notin gone /\ Cardinality(gone) < MaxDeleted
  /\ gone' = gone \cup {r}
  /\ reply' = NoReply
  /\ UNCHANGED <<version, now, store, pc, job, history>>

(* A command is killed.                                                    *)
Kill(p) ==
  /\ pc[p] # "idle"
  /\ Rollback(p)
  /\ End(p)
  /\ reply' = NoReply
  /\ UNCHANGED <<sources, history>>

Next ==
  \/ \E p \in Procs : \/ Refresh(p) \/ Build(p) \/ Search(p) \/ ReadNewest(p)
                      \/ CompareDisk(p) \/ Query(p) \/ Kill(p)
  \/ \E r \in Records : Append(r) \/ Delete(r)

Spec == Init /\ [][Next]_vars

-----------------------------------------------------------------------------
(* Properties *)

Contents == [rows : [Records -> SUBSET Times], mtimes : [Records -> Times \cup {NoRow}],
             late : SUBSET Records]

Jobs == [mode : {"none", "refresh", "search"}, todo : SUBSET Records, rec : SUBSET Records,
         got : Times, freshness : {"unknown", "fresh", "stale"}, seen : [Records -> Times]]

Replies == [by : {"none", "build", "index", "grep"}, fresh : BOOLEAN,
            seen : [Records -> Times], hits : [Records -> SUBSET Times]]

Labels == {"idle", "connect", "schema", "records", "parse", "write", "stamp",
           "newest", "disk", "query"}

(* The variables have their types; only a command that has written holds   *)
(* the write transaction.                                                  *)
TypeOK ==
  /\ version \in [Records -> Times] /\ now \in Times /\ gone \subseteq Records
  /\ file \in BOOLEAN /\ tables \in BOOLEAN /\ built \in BOOLEAN
  /\ passedBy \subseteq Records
  /\ index \in Contents /\ txn \in Contents
  /\ lock \in Procs \cup {NoProc}
  /\ pc \in [Procs -> Labels]
  /\ job \in [Procs -> Jobs]
  /\ reply \in Replies
  /\ lock # NoProc => pc[lock] \in {"records", "parse", "write", "stamp"}

(* A session is never in the index twice: whatever refreshes overlapped,   *)
(* waited for each other, failed or were killed, the index holds the steps *)
(* of one version of it at most, and those of no session the records table *)
(* does not name (build_index replaces both in one transaction).           *)
OneVersionPerSession ==
  \A r \in Records : /\ Cardinality(index.rows[r]) <= 1
                     /\ index.rows[r] = {} <=> index.mtimes[r] = NoRow

(* A build that succeeds leaves each session it covered and can parse      *)
(* indexed no older than the session was when the build began, whatever    *)
(* grows, overlaps and fails meanwhile - but for one that grew between its *)
(* parse and its stamp in the build that indexed it: that one waits until  *)
(* it grows again.                                                         *)
RefreshPicksUp ==
  reply.by = "build" =>
    \A r \in Records \ (gone \cup Unparsed \cup index.late) :
      reply.seen[r] > 0 => \E v \in reply.hits[r] : v >= reply.seen[r]

(* What `refresh` is documented to do, "run `trajectoriz-cli refresh`      *)
(* periodically to pick up new trajectories", of the sessions of each      *)
(* agent that parse_record is documented to parse.                         *)
RefreshPicksUpAll ==
  reply.by = "build" =>
    \A r \in Records \ gone :
      reply.seen[r] > 0 => \E v \in reply.hits[r] : v >= reply.seen[r]

(* A search that says nothing of the index being stale, after looking,     *)
(* answers from an index that has each file of the stores it looked at as  *)
(* it was at that look, unless some build passed the file by: did not      *)
(* cover it, or ran while it grew.                                         *)
SilentAnswerIsComplete ==
  reply.by = "index" /\ reply.fresh =>
    \A r \in Watched \ (gone \cup passedBy) :
      reply.seen[r] > 0 => \E v \in reply.hits[r] : v >= reply.seen[r]

(* What stale_summary is documented to tell by its silence: no "trajectory *)
(* files newer than the FTS index exist on disk", where every build covers *)
(* all records and no file grows as one runs.                              *)
SilentMeansIndexed ==
  reply.by = "index" /\ reply.fresh =>
    \A r \in FileRecords \ (gone \cup passedBy) :
      reply.seen[r] > 0 => \E v \in reply.hits[r] : v >= reply.seen[r]

(* With session files on disk, the default search answers from the index   *)
(* only when one was built: "if the index is missing/broken, fall back to  *)
(* grep (always correct, just slower)".                                    *)
AnswersFromABuiltIndex ==
  reply.by = "index" /\ ~built => \A r \in Records : reply.seen[r] = 0
=============================================================================
