# Trajectoriz in TLA+

Trajectoriz finds the sessions ("trajectories") that coding agents leave on a
machine, lists, searches and exports them, and mounts them as a directory of
ATIF files. This directory holds TLA+ models of its stateful parts, TLC
configurations that check them on small instances, and TLAPS proofs of their
main safety properties for all instances. Paths below are relative to the
repository (`trajectoriz/...`) or to this directory.

To run a check: `tlc -config ScanCache.cfg MCScanCache`. To check proofs:
`tlapm ScanCache_proofs.tla`. `PROJECT.json` lists every run, the code lines
each definition stands for, the findings, the hazards and the theorems.

## The system

| Component | Code | State | Operations | Module |
|---|---|---|---|---|
| Directory listing of the mount | `_memoryfs.py` | `_listing`, `_listing_at`, `_scanning`, `_scans`, one scan thread | readdir, and the lookup of getattr, open, read | `MemoryListing` |
| Rendered payloads of the mount | `_memoryfs.py` | LRU `_content`, `_content_bytes`, `_handles`; sizes in the scan cache | open, read, release, getattr, remount | `PayloadCache` |
| Scan cache | `_scancache.py` | `_mem`, `_pending`, `_preloaded`, `_conn`, a WAL database shared by processes | memo, flush, preload, exit | `ScanCache` |
| Full-text index, default search | `_fts.py`, `_search.py`, `cli.py` | SQLite FTS index with stored mtimes | refresh, reindex, search, staleness warning | `FtsIndex` |
| Store walk | `__init__.py` 22-134 | mount table read per walk, excluded directories | iter_files_outside_fuse, exclude_from_scans | `StoreWalk` |
| Memory mounts | `cli.py` 1151-1301 | mount table and FUSE connections of the kernel | memory, memory --unmount | `MemoryMount`, with `StoreWalk` |
| Store iterators, records | `__init__.py` 132-450, 582-608, 845-1052 | none | iter_local_records, iter_all_records | `Sessions` |
| Delete | `cli.py` 756-1001 | the files it unlinks | cmd_delete | `Sessions` |
| Probes of session files | `__init__.py` 466-608, 792-847 | none (cached by the scan cache) | first message, format, cwd | first message and cwd in `Sessions` |
| Parse cache | `__init__.py` 1062-1159 | one pickle per session, shared by processes | parse_record | `ParseCache` |
| Parsers | `__init__.py` 1162-2063, 2254-2354 | accumulators of one pass | one per agent | `Parsers` |
| ATIF rendering | `atif.py` | none | a record and its parse to a document | in `PayloadCache`, as what it depends on |
| Secrets scan | `_secrets.py` | needles, matches, leaks of one scan | scan | `Secrets` |
| grep and recoll backends | `_search.py`, `_recoll/` | recoll's external index | search | not modelled |
| Other commands | `cli.py` | none | list, show, info, stats, blame | not modelled |
| Picking a run's trajectory | `__init__.py` 2066-2131 | two listings around a run | collect_trajectory_state, pick_trajectory_id | not modelled |

`FreshReads` is no part of the code: it is what `_scancache.memo` and
`_cached_parse` both promise their callers, and `ScanCache` and `ParseCache` are
shown to implement it.

How they interact. The agents write session files and databases; nothing here
ever locks them. Every command, and every scan of a mount, walks the stores
through the iterators, which probe each file through the scan cache. `refresh`,
`reindex` and a first search parse what they list (through the parse cache) into
the full-text index. A mount is one process with many FUSE handler threads: a
handler looks a name up in the listing, which a helper thread refreshes from the
stores, and then renders the session through the payload cache. Several
processes (mounts and commands) share the scan cache, the parse cache and the
index on disk.

What is hard:

- handlers of one mount share the listing, the payload cache and the scan
  cache, and agents append to the sessions they read all the time;
- a store may hang or raise during a scan, and a mount that waits for it wedges
  every process that touches the directory;
- values are cached under an mtime that is read at another moment than the
  content;
- commands overlap, wait for SQLite locks, fail or are killed between two
  commits; processes rewrite shared files in place;
- a session may be in two places (a rollout and a row, a live file and its
  backup), and appears, moves on or goes while it is listed;
- a parser learns from a later line what an earlier one meant, reads lines torn
  by a crash, and is run again on the same file when that has grown;
- a value may lie across the blocks a file is searched in;
- a command that unmounts cannot wait for a daemon that may be the one that hangs.

What makes each part correct is stated by the properties of its module. The hazards
of PROJECT.json give the lines where it could go wrong, and which property
would catch it.

## The modules

An action is one critical section, system call, SQL statement or parse: what
other threads or processes can come between. Names are the code's where it has
one. Definitions called `Bug...` are plausible mistakes, used by nothing in the
models: putting one in the place of the definition after it must break a
property.

| Module | Extends, instantiates | For TLC | Proofs |
|---|---|---|---|
| `MemoryListing` | | `MCMemoryListing` | `MemoryMount_proofs` |
| `PayloadCache` | | `MCPayloadCache` | `PayloadCache_proofs` |
| `FtsIndex` | | `MCFtsIndex` | `FtsIndex_proofs` |
| `FreshReads` | | | |
| `ScanCache` | instance of `FreshReads` | `MCScanCache` | `ScanCache_proofs` |
| `ParseCache` | instance of `FreshReads` | `MCParseCache` | `ParseCache_proofs` |
| `StoreWalk` | | | |
| `MemoryMount` | extends `StoreWalk` | `MCMemoryMount` | `MemoryMount_proofs` |
| `Parsers` | | `MCParsers` | `Parsers_proofs` |
| `Secrets` | | `MCSecrets` | `Secrets_proofs` |
| `Sessions` | | `MCSessions` | `Sessions_proofs` |

### MemoryListing

One handler call per thread: `CheckFresh`/`CheckStale` is `_cached_listing`,
`Claim` the critical section that takes `_scanning` or joins the scan in flight,
`Spawn` the `Thread.start` (which may raise: `SpawnError`), `Arm`,
`WaitServed`, `WaitTimeout` the wait on the condition. `Return` is the end of
`_records` in readdir or in `_lookup`, with its second try at a shorter age. The
scan thread looks at one name at a time while sessions come and go (`ScanVisit`,
`RecordSession`, `RemoveSession`), then publishes or fails. Time is discrete; it never runs
past a waiter's deadline, and the listing's age saturates above every age
compared with it. History variables remember what the scan in flight could have
seen (`kept`, `present`), what the published one is accountable for (`settled`) and
what each starter was promised (`stable`).

Fairness: handlers and time run; the scan thread is assumed to do nothing at
all, since a store may hang. Only `SlotComesBack` assumes (in its own statement)
that scan threads run.

### PayloadCache

`_lookup` has given the call its record. The rest of a call is one action per
step outside or under the lock: `ContentMtime`, `ContentHit`/`ContentMiss`,
`RenderPayload`/`RenderFail`, `Insert` with its eviction, then `FinishOpen`,
`FinishRead` or `FinishGetattr`; before these, getattr looks for a size
(`SizeMtime`, `ContentSize`, `SizeMemo`). A payload is the version of the source
that was parsed and whether the listed record had a first message; its length
grows with both. `Relist` is a new listing, `Remount` a new process with what
was flushed of the size memo. `misled` is history: the file sessions that a call
was on with a record older than their first message.

### FtsIndex

A build is `Connect`, `InitSchema` (which commits the tables at once),
`Take`/`UpToDate` (the mtime test), `Parse`, `WriteRows` (where the write lock
is taken or waited for in vain), `Stamp` (the mtime stored), `Commit`. Records
come store by store (`ComesNext`). One may vanish, raise, which aborts the build
and rolls it back, or parse to nothing, as every OpenCode session does
(`Unparsed`: `parse_record` has no branch for them). A search builds the index
if there is none, reads the newest stored mtime, compares it with the files of
the four stores that `_newest_source_mtime` looks at (`Watched`; extra folders
are indexed, but not among them), queries, and falls back to grep on an error. A
version is the time of the append that made it, so that mtimes compare across
files as `MAX(source_mtime)` compares them. Sessions grow at any time, during a
build too. Two history variables say for which of them the code promises
nothing: `late`, in the index, those stamped with a later mtime than that of what
was parsed; `passedBy`, those that some build did not cover or that grew as one
ran.

### ScanCache

Threads of several processes call `memo`: the stat (`Memo`), the table in memory
(`CheckMem`), the database (`Load`), the probe (`Compute`), the entry and the
batch (`Put`), and every few entries a flush (`Take`, `Insert`, `Commit`).
`Preload` merges the database's rows into the table, `Exit` is the atexit flush.
The database is in WAL mode: a read never waits; a connection that has begun and
read keeps its snapshot (`view`), and cannot write once others have committed
(`behind`). `Insert` meets a locked database in `Busy`, where Python's implicit
BEGIN stays. A probe's value is the version of the file it read. Left out:
`get_static`/`put_static` (the same steps, no versions), `clear_memory_cache`
(tests only), a file that cannot be stat-ed (its probe runs uncached).

Fairness: a started thread runs (weak fairness of each thread's steps), as the
OS schedules it. Since a process probes each version once, it flushes finitely
often before it ends, so that a thread waiting for `_db_lock` finds it free in
the end; against a partner that took the lock again and again for ever, only the
fairness of the lock itself would help.


### FreshReads

What a cache of sessions promises, with nothing of how: a reader asks about a
file, the file grows, and the one answer is what the file gave at some moment
between the question and the answer. There is no state for what is kept, so an
implementation may forget, recompute or share as it likes; it may not go back,
invent, or answer twice.

### ParseCache

`ParseRecord` is the stat, `Look` the test that the pickle exists, `ReadPart`
and `Load` the read and the test of its mtime, `Parse` the parser, `Open` and
`WritePart` the pickle written in place over what is there, `WriteFails` an
`OSError`. `Restart` kills a process and starts another, perhaps of another
version of the package. A pickle that fits in the buffers of a file is read and
written at once; a larger one in parts, each at its writer's own position.
`Layouts` says which processes run, which revisions are installed and in how many
parts a pickle is written. What a call loads is taken to be the parse of the last
part, under the mtime of the first. `reply.mixed` is history: that some part of it
was of an older parse than its first.

### Parsers

Agents append entries to a log, are killed in the middle of a line (`Crash`) and
go on in the same file; then a parser reads it from the start; and the session
may be resumed (`Resume`) and its grown file parsed again, by a parser that knows
nothing of the first. `heard` and `before` are history: the lines that an earlier
parse read, and the steps it made. There is one action per kind of entry of
each format: Claude, Codex, Copilot's events, the Copilot and Hermes databases,
the two generations of agent_probe, and the output of `codex exec --json`, of
which a single torn line leaves nothing (`ExecLoaded`). What the parsers keep while they read
(the pending step, the results found ahead, the task nobody may have typed) are
the variables. The writing side makes the logs that agents make: calls before
their results, results late or never, tasks that repeat what was typed.
A line is in the log when it is whole: one that is half written when the file is
parsed and completed later is one that is not yet written. What `codex exec`
prints is read once. `MaxMore` bounds what is written between two parses.

### StoreWalk, MemoryMount

`StoreWalk` is one walk: the mount table read once (`Begin`), then a directory a
step (`Visit`), links resolved as the code does, textually and one level at a
time (`Target`), while the kernel follows them all (`Follow`). A directory on the
stack has the name the walk gave it, the path the walk believes to be its real
one, and the path where the kernel finds it. `Reached` is the reference for what
a walk should find: the least set of directories that has the store and is
closed under entries and links outside the mounts.
`MemoryMount` has mounts that come, wedge and go meanwhile, processes that sleep
in a wedged one, and `memory --unmount`: the connection looked up first
(`ReadConnection`), five commands that may each fail, time out, or time out
after having worked (`Succeeds`, `Fails`), and the abort at the end, which needs a
connection that is still listed and an abort file that can be written; `denied`
remembers that a live one could not be.

Fairness: the unmount command runs on (weak fairness of its steps), since each
of its steps is a call with a timeout. Walks, daemons and sleepers need not.

### Secrets

`scan`: one grep over all files, or its failure and the search in process, in
blocks with a replayed tail (`ReadFile`, `ReadBlock`), then the sessions and
database rows that hold what was found (`Report`, `ReportStore`), while agents
append, sessions are deleted and SQLite checkpoints. `Letters` are the characters
of one byte, any set of them; one other character takes two bytes, so that a
block may end inside it, and half of it is decoded as a replacement. What
`str.count` and `grep -o -F` find is `Occurrences`: from left to right the longest
needle at each place that none before it covers. The texts are computed by
recursive functions over places, so that they can be reasoned about. The hits in
the database are reported together: it is opened once for all of them
(`OpenStore`), its tables are read in turn, a few rows at a time (`ReadTable`), and
what was read is reported (`ReportStore`). A database that does not open has no
rows; an error in a table loses the rows not fetched yet; if the tables cannot be
listed, or a file is deleted just before its `stat` (`StartFails`), the scan ends
with an exception. `rows` are the rows sqlite gave, and `seen` remembers what was
searched: the properties compare the report with them.

### Sessions

The stores are walked in the code's order (`OpenStore`, `Reach`), each place
probed as it is reached, so that a session may begin, be backed up or vanish
between two stores. `Skipped` is the de-duplication: a database row whose
rollout was walked, and in a local listing a backup of a live file. What a local
listing passes over is `Overlooked`; what tells it of a copy, `KnownCopy`. `delete`
decides on each record as it is listed (`Take`), asks (`Confirm`, `Refuse`), and
unlinks (`Unlink`) while agents write on.

## What the runs check

| Run | Configuration | Shows |
|---|---|---|
| `listing` | `MemoryListing.cfg` | 2 handlers, 1 name, one refused thread: the slot of a scan has one holder and comes back, what is published is one scan's view, no settled session is missing or answered ENOENT, waits are bounded, every request returns |
| `payload` | `PayloadCacheFiles.cfg` | 2 clients, one file-backed and one database session, a cache that holds one of the larger payloads: the byte counter is right, what is being used is evicted last, one open shows one payload, file payloads are current, sizes match |
| `fts_index` | `FtsIndex.cfg` | 2 commands, 2 Claude sessions, one in an extra folder, one of OpenCode and one of Hermes, 2 appends, one deletion: no session twice, a refresh picks up what it covers, but for what is stamped late, and a search without a warning misses no watched file that no build passed by |
| `scan_cache` | `ScanCache.cfg` | 2 threads of one process or of two, one file and 2 versions of it, batches of 2: the memo implements `FreshReads`, and every call returns |
| `parse_cache` | `ParseCache.cfg` | 2 processes with small pickles of 2 parser revisions, 2 with pickles in two parts, 1 with pickles in two parts of 2 revisions, 3 versions: the parse cache implements `FreshReads`, but for a call that loads a mixed pickle |
| `parsers` | `Parsers.cfg` | every log of up to 4 entries and 2 calls that each of 8 formats allows, with a crash, and every parse of its beginnings and then of one entry more: steps numbered in order, nothing lost, results with their calls, and what was shown only grows from a parse to the next |
| `mounts` | `MemoryMount.cfg` | a tree with two stores, one mountpoint and the links of the layouts in `MCMemoryMount`, two mounts in turn: walks stay out of the mounts they know and find each session once, and unmounting releases who slept there, unless it may not abort what it detached lazily |
| `secrets` | `Secrets.cfg` | every journal of 6 bytes and a sidecar, a database of 2 tables, 5 values, blocks of 4 bytes, one row fetched at a time, with errors at any of them: each occurrence counted once, each hit reported under all its labels, but for those in rows that were lost |
| `sessions` | `Sessions.cfg` | 9 places in every kind of store, 2 writes: no session missed but in places that a local listing passes over, none listed with a copy the code can know, and a file deleted was what the check said |
| `sessions_local` | `SessionsLocal.cfg` | violated: a local listing never shows a Codex session that has a rollout |
| `delete_trusts_first` | `SessionsDelete.cfg` | violated: a long Copilot session is deleted for its first message |
| `scan_cache_flush` | `ScanCacheFlush.cfg` | violated: a flush fails though nobody is writing |

Bounds. Two actors are enough for every race the code has, since each shared
thing is held by one and disturbed by another; a third only repeats the second.
One name or file suffices where properties speak of each one alone; two, with
a cache too small for both, where they compete for space (`payload`), and
sessions of every kind the index tells apart, two of one kind, where one newest
mtime stands for all (`fts_index`; builds of one directory are left to the proof,
whose scopes are arbitrary). Two versions of a source tell an old value from a new one.
Four entries make a call, its late result and a step between or after them, or a
task, its answer and a message that makes it a repetition; each parser's state
is settled again within that many. Six bytes put a needle of two or three on
every side of, and across, blocks of four. The limits of time, `MaxCalls`,
`MaxOpens`, `MaxAppends`, `MaxDeleted`, `MaxVersion`, `MaxMtime`, `MaxWrites`, `MaxLog`,
`MaxConn`, stop counters that otherwise grow for ever; none of them keeps an
action from happening, and every action happens in a passing run. `SYMMETRY` is
used in runs without liveness only.

Deadlock. Runs check it unless the program really stops: the log is read to its
end (`parsers`), the scan is done (`secrets`), the command has exited
(`sessions`), the last mount of the bound is gone (`mounts`).

### Where the code does otherwise than the repository says

Refuted by a listed run:

1. After one "database is locked", `flush` leaves a transaction open (no
   rollback); once another process has committed, every later flush of that
   process fails (`scan_cache_flush`). Replaying the trace with two Python
   processes gives the same.
2. A local listing never shows a Codex session that has a rollout
   (`sessions_local`): `get_cwd_from_trajectory` does not look into the payload,
   where Codex writes the directory, so the rollout does not match; and its path
   hides the database row, which does. Calling `iter_local_records` on such a
   directory gives nothing. `SessionsBelow.cfg`, by hand: nor does it show the
   Claude sessions of a subdirectory (`__init__.py:925` opens the project of the
   directory alone), though its docstring says "cwd or a subdirectory"
   (`__init__.py:908`); nor those that only Copilot's database has.
3. `delete` takes Copilot and agent_probe sessions of any length when the first
   message is the one given (`delete_trusts_first`), where its docstring says
   "only one user message".

Refuted by configurations kept beside the runs, to be run by hand in the same
way (`tlc -config <name>.cfg MC<module>`):

4. `MemoryListingOneTimeout.cfg`: a lookup of an absent name waits twice for a
   hanging store, so a request may take two `scan_timeout`s where `_memoryfs.py:9-10`
   and the repository's `README.md:201` say one (`RecordsWaitIsBounded` is of
   each wait). `MemoryListingOncePerTTL.cfg`: a scan may start sooner than
   `listing_ttl` after the last.
5. `PayloadCacheStores.cfg`: payloads of sessions that live in a database are
   cached under mtime 0.0 and are served for ever, while the mount's README says
   content is generated when read.
6. `PayloadCacheSizes.cfg`: the size memo outlives the mount and depends on the
   source's mtime only, since "the size is a pure function of the source file and
   the renderer" (`_memoryfs.py:221-229`), while a payload also contains the
   listed first message: getattr may give a size that reads do not have
   (`SizeIsOfTheSource`). `StatSizeIsPayloadSize` excepts the sessions that a call
   was on with such a record; with it, `PayloadCacheLate.cfg` passes for a session
   in a file that is listed before its first message.
7. `FtsIndexLive.cfg`: `_index_one` stores the mtime the source has after it was
   parsed: what was appended in between is not indexed until the file changes
   again.
   `FtsIndexOpencode.cfg`: `parse_record`, which the repository's `README.md:13` says parses
   OpenCode's sessions, has no branch for them: no refresh ever indexes one.
8. `FtsIndexUnbuilt.cfg`: `executescript` commits the tables of a new index
   before anything is in it: if the first build dies, searches answer "nothing"
   instead of using grep. `FtsIndexExtra.cfg`: a new session in an extra folder
   is not indexed and gives no warning, where `stale_summary` promises one if
   "trajectory files newer than the FTS index exist on disk".
9. `MemoryMountRelative.cfg`: a relative link in a directory reached through
   another link is resolved against the path walked, where the kernel uses the
   real directory: the walk enters the mount the link leads to, although "Store
   scans never descend into a FUSE mount" (`README.md:195`). `MemoryMountLate.cfg`:
   a walk that has read the mount table enters a mount that appears after that.
10. `ParseCacheMixed.cfg` refutes `NeverAnOlderParse`: two processes that write one
   large pickle in place can leave the head of a newer parse, with its mtime, and
   the rest of an older one, which loads, and is an older parse than the call. Two
   writers interleaved by hand give such a file.
11. `MemoryMountDenied.cfg`: an abort file that cannot be written leaves the
   connection alive (`cli.py:1184-1189`), and after a lazy unmount the command
   still reports success, sleepers and all, where the repository's
   `README.md:209-212` says that it aborts the connection, "which is what frees
   processes already stuck on it".
12. `EverySecretIsReported`: "every secret stored in the OS keyring is searched
   for, verbatim, in every trajectory" (`_secrets.py:3-4`). `SecretsOverlap.cfg`:
   of two needles that overlap in a file grep prints one, and if the other is
   nowhere else it is not reported. `SecretsWide.cfg`: "matches can't straddle"
   blocks (`_secrets.py:280`), but a character of several bytes can, and a needle
   with it is missed by the search in process. `SecretsStore.cfg`: a needle found
   in a database is not reported when the database does not open, or its table or
   row cannot be read (`_secrets.py:488-489`, `501-502`, `510-511`).
   `EveryHitIsReported` excepts the three; both are of scans that end, and of the
   bytes that were on disk when they were searched.

Facts that no document contradicts, but worth knowing: a handler that joins a
scan in flight may miss a session recorded just before it was called; if
`Thread.start` raises, the listing is never refreshed again (`SlotIsHeldOnce` and
`SlotComesBack` except that case); after `reindex --dir` on one directory, other
stale sessions give no warning, nor does one that grew while a build ran past it; a slow refresh may put back an older version of
a database session, and deleted sessions stay in the index; a session in an extra folder and in a live
store is listed twice by `iter_all_records`, which removes only rows of
rollouts, and so is one that Copilot has in its events and in its database
(`SessionsTwice.cfg`); a secret written since the last checkpoint of a database is
not found, and a scan ends with an exception when a file is deleted between `exists`
and `stat`, or the tables of a database cannot be listed; a line torn inside a
character of several bytes makes every parser of that file raise `UnicodeDecodeError`
(the model tears lines between characters); a database that is locked is left out of a listing in
silence.


## What is proved

The theorems are in the `_proofs` modules, for all values of
the constants that satisfy the assumptions named in the modules (disjoint marks,
natural numbers, at least one session, finitely many clients).

`MemoryListing`, in the second part of `MemoryMount_proofs`. `IInv` conjoins the
type invariant, the properties, and what they need: `ScanInv` says that the collecting scan has everything that
stayed except what it has still to look at, and nothing that was never there;
`StarterInv` that a starter's promise is owed by the scan in flight or given by
the published one; `WaitInv` what a `_records` call has waited, point by point. None of the
properties is inductive alone: completeness of the listing needs `ScanInv`,
which needs that scans do not overlap, which needs that the slot is handed from
the handler to exactly one thread. From it: `ListingTypeCorrect`, `ScansNeverOverlap`
(the slot has one holder, and is never lost unless a thread was refused),
`ListingIsComplete`, `PublishedListingIsOneScan`, `AbsentNamesAreAbsent`,
`StartersSeeTheirPast`, `WaitsAreBounded`.

`FtsIndex_proofs`. `IndexedOnce`: both the committed index and the write
transaction hold one version of a session at most, with its record unless it is
the one being stamped, and only the holder of the lock is stamping.
`RefreshesPickUp`: a file that was not stamped late is indexed as of its stamp
(`Stamped`), no stamp is newer than its file (`StampsOf`), the open transaction
takes no stamp back (`TxnKeeps`), and each session of a running build is still to
do, in hand, or picked up, that is stamped no older than when the build began.
Nothing is assumed of when sessions grow. `SilentAnswersAreComplete`: but for what
some build passed by, the index has all files that are no newer than any mtime it
holds (`SilentInv`), which is what makes one newest mtime stand for all; the
invariant follows it through a search, from the mtime read in the index, past
the look at the disk, to the query, while other commands commit. What is passed
by is exempt because it must be: after a `reindex` of one directory, or an
append to one file while another is stamped, the newest mtime says nothing of
the rest. The scopes and the order of the stores are arbitrary.

`ScanCache_proofs`. Every entry, wherever it is kept (memory, batch, transaction,
snapshot, database, rows being merged), holds a value no older than its tag; a
call that has not computed yet has a tag no newer than the file, one that has, a
value no older than its tag. With the lock discipline, that is the inductive
invariant `IInv`, from which `TypeCorrect` and `MemoAnswersFresh` follow. It
needs nothing of SQLite but that a read gives rows that were once written, so
it holds however transactions fail.

The same module has `MemoImplementsFreshReads`: the scan cache implements
`FreshReads`, where a call's question is its file with the version `stat` saw.
`IInv` bounds an answer from below only; `PastInv` adds the other side, that no
entry, wherever it is kept, holds a value its file has not had yet, and that an
idle thread asks nothing. Then each action is one of `FreshReads`: `Memo` asks,
the return of a memo call answers, `Gone` (a kill, or an exit) abandons the
questions of its threads, `Grow` grows, and every other step, each flush and
each failure among them, is silent.

`ParseCache_proofs`. A pickle, whoever wrote it, is a parse by its own revision,
with a version and an mtime its session has had; and what makes it an answer is
that its version is no older than what any call under way saw when it saw that
mtime or an older one (`Kept`, and `Held` for what a process has in hand). That clause has
to speak of all calls at once, since a pickle written late by one process is
read by another that began before. `TypeCorrect` follows.

The same module has `ParsesImplementFreshReads`: the parse cache implements
`FreshReads`, however many processes write one pickle in parts at once. A call
that loads a mixed pickle, one with a part of an older parse than the first, is
mapped to one that ends with no answer; any other call loads parts none of which
is under an older mtime than it saw, so that the invariant makes the last of them
an answer. `ParseCacheMixed.cfg` shows that the exception is needed.

`PayloadCache_proofs`. A payload of a file is tagged with no later mtime than it
was read at (`CacheTagged`); what a call has of a file is no older than where the
call began, step by step (`CallsFresh`); each open file has a handle no other
has, which shows what was rendered for it (`HandlesKept`), and a handle is left
for each open under way (`HandlesLeft`, which bounds the counter). From it:
`TypeCorrect`, `OpenFilesAreOnePayload`, `FilePayloadsAreCurrent`. `LastUsedStays`
is of the eviction loop: it drops from the other end, and stops at the last.
`CacheIsCounted` (`CacheAccounts`): `Bytes` of a cache is a sum by recursion on its
length; the lemmas on it (of a concatenation, of an entry more, of what is left
of an eviction) are by induction, through `EveryNumber`, and the invariant
`CacheCounted` is that the counter is that sum, no name is there twice, and only a
single payload exceeds the bound. `SizesAreOfWhatIsShown` is
`StatSizeIsPayloadSize`, with no hypothesis on what is listed: what it excepts is
in `misled`, and finding 6 shows that this is needed. Its invariant, `Sized`: a
payload tagged with the mtime of now is the one of now; a size stored under an
mtime was rendered no earlier than that, and no later than now; a call that
nothing has disturbed has the tag and the payload of now; and outside `misled`
what is cached, memoized or in a call has the first message if and only if its
version has one.

`Sessions_proofs`. `TypeCorrect` and `ChecksBeforeItDeletes` hold on every machine
of the assumptions named in `Sessions` (a file has one key, of an agent that is
known; what a machine may begin with is a state of the stores).
`DeletesWhatItChecked` is an action property of a decision that takes three
steps, while agents write: it needs that what is asked about is what was taken,
with the first message that a probe saw, and that a first message, once there,
stays what it is. `NoneIsMissedOrCopied` is `SessionsAreListed`, with no assumption
on which sessions are where but that the rollout a row names is of its session:
the places that a local listing passes over, and the copies it cannot know, are
in the property (`Overlooked`, `KnownCopy`). Its invariant follows each session
through the order of the stores: a session that has been there since the walk
began is in a place still to reach, or has been listed from one passed, and the
place that stands for it is the one the de-duplication keeps.

`MemoryMount_proofs`, of the mounts. `CoreInv`: a connection serves at most one
mountpoint and a new one is like none before. Of the connection that the command
has read, `Held`: it serves the target or nothing; while the tools that refuse a
busy mount are tried, it is still the target's, or nobody is asleep in it - a
tool that timed out may have detached it, and another mount may be in its place
- and after the lazy ones only the abort can tell: when it is denied, the command
succeeds if it had unmounted, which is the exception of `UnmountReleases`. From
it `TypeCorrect` and `UnmountLetsGo`.

The same module, of the walk, where links are plain (`PlainLinks`: what the text
of a link says, resolved one level at a time, is where the kernel ends, and a
relative link is in no directory that a link leads to; `MemoryMountRelative.cfg`
shows that this is needed). `Right`, of each directory on the stack: the walk
knows where it really is, its name is its real path unless a link led there, and
it is inside no mount. Of an entry that is kept the same follows, whichever way
its link goes, which gives `WalksStayOutside`. `Listed`, of each directory visited:
every session in it that is outside the mounts has been found, and every
directory it leads to is visited or on the stack; so that, when the stack is
empty, the directories visited are closed, and contain `Reached`. With `FoundInv`
(what is found lies in a directory visited, and nothing twice) this gives
`WalksFindEachOnce`, for cyclic links as well.

Where a theorem has such a hypothesis on the machine or the tree, an assumption
of the MC module (`UsualIsUsual`, `PlainIsPlain`) has TLC check that the instances
of the runs satisfy it.

`Parsers_proofs`. `StepsAreNumbered`: the steps that are closed are numbered from
one, the step in the making is the next, and the formats whose entries are steps
have none in the making. It says nothing of what is in the log, so it needs no
assumption on what agents write. `TypeCorrect` needs the log: entries as the
formats allow them, calls numbered within `MaxCalls` (`Inv`, the types by part:
file, steps, counters). `StepsGrow` is of one parse, from `Advances`, shown of
every action but `Resume`: the steps closed stay in place, the step in the making
goes on or is closed as it was or with more, and others come after it. Of the
next parse of a grown file, `NothingIsTakenBack`: it tells again, first and in
the same order, what the earlier one told, and shows its calls. It follows from
the invariant of `NothingIsLost` (`DInv`): what is told after the last line that
the earlier parse read is what that one told (`Catches`), since both are what
these lines say; and later lines only add to it (`TellsAgain`). That each step is there again with its
number (`StepsOnlyGrow`) is only model-checked: the proof would need a second
copy of the parser's variables, run beside the first. The helpers that go
along a sequence (`Chosen`, `Joined`, `Added`) are recursive functions; the
induction that they are defined, and what they give, is done once in lemmas over
lengths.

`AnswersAreWithCalls` is `AnswersShown`, in two parts (`AInv`). Of the log
(`LogInv`): a call is made once, a command of `codex exec` comes with its own
output, and between a call of agentknit and its result there are only results
and half lines - which follows, while the agent writes, from `Running`: what is
unanswered was said last. Reading a log through torn lines keeps this
(`PicksKeep`). Of the steps: each has only calls that were read, and no two
share one (`CallsInv`); where results are looked up when a step is closed, it has
those of its calls (`LookedUp`); where they are read as they come, those of its
calls that were read, and of no other's (`Collected`), because the message whose
calls may still be answered is the step in the making (`Answering`). Every
handler is then one case of `ReadAnswers`: the entry brings its calls to one step
(`Comes`), and a result to the step that made the call (`Own`).

`NothingIsLost` is `NothingLost`, after every line and not only at the end. `Said`
is defined by what comes later in the file (a task counts if an answer follows
it), so the equation with what is told cannot be kept alone. `LInv` adds, of
agentknit, which task the parser holds: the one that no message has followed yet,
if it is not blank (`HoldsTask`); and that its last prompt is the last of those
that count (`LastPrompt`). A line of the file then does one of four things to what
was said (`QuietLine`, `HoldsNoMore`, `UserLine`, `AssistantLine`); the other formats
say what the line says (`Heard`). Of the log it needs what each kind of entry may
hold (`PlainLog`: where calls have entries of their own a message has none, and of
`codex exec` only half a line follows the end of the turn). Of a handler it needs
what it adds to the words, the calls and the tokens shown (`Shows`). Of the
tokens: the counter of the prompt is no less than what the steps used, which for
Codex holds because it is the running total (`prompt = UsedBy(pos - 1)`) and for
`codex exec` because the turn that is counted is the only one.

`Secrets_proofs` begins with what the helpers compute, for all texts. `Reads`: the
characters of a decoded text stand at ascending places of the bytes, one at each
that continues no other (`DecodeReads`), also in two texts put together
(`ReadsConcat`); so a needle of one-byte characters is at the same places in the
text and in the bytes (`PlacesRead`), whatever was cut in half around it. `Tiles`:
what is found does not overlap, and whatever is not found is covered by something
that is (`OccurrencesTile`); so a count is positive if the needle is there, and is
the number of its places if these are apart (`CountFacts`), and a needle that no
other overlaps is printed by grep (`PlainIsFound`). Lines joined with newlines end with one (`JoinedFacts`).

`TypeCorrect` is from `TInv`: the types, what the actions leave in each phase
(`Phases`: while files are read nothing is reported, and the file in hand is not to
be read again) and `OfPeriod`, that only files of the period are searched.
`CountedOnce` is `EachIsCountedOnce`, from `SInv`. `Reading` is the loop invariant
of `_iter_file_text`: the replayed tail is the end of what was read, and is as long
as the longest needle, or else what precedes the next block is a newline, which is
in no needle (a block shorter than the overlap is the last one of a file that ends
with a line, and the file may have grown since). `ChunkCount` then says of one chunk
that it counts the places that end in its block, no others, and `CountAfter` that
these and those counted before are all there are. Of a needle that overlaps itself
`CountedOnce` says nothing (but `AllReported` that it is found); of one with
characters of several bytes neither does, since a block may cut one in half.

`AllReported` is `EveryHitIsReported`. `Searched` (in `SInv`) says that a needle in
what was searched is among the matches, whether grep printed it or a chunk counted
it, and after grep has failed and all begins again; `RInv`, that a match which is no
hit any more is `Reported`: too common, or in a leak with all its labels, for the
database one for each searched row that holds it and was read (`RowsSaid`); and that
while rows are read, whichever of them are lost, no match in the database has been
reported yet. It is of the needles that finding 12 leaves. TLC agrees with both invariants on the instance of
the run. Assumed: letters are none of the marks of the model, no line of a value
has a newline (`splitlines`) or is longer than a block, the database is not a
session file.

Only model-checked: liveness (`RequestsReturn`, `SlotComesBack`, `CallsReturn`,
`SleepersAreReleased`), which is beyond the prover.

## What is not modelled

What bytes contain and how they are laid out: the text a probe extracts, ATIF
documents, snippets, ranking, quoting, tables of the commands (list, show, info,
stats, blame read what the iterators and the parsers give and keep no state).
Grep is a loop over parsed records. Recoll, FUSE, SQLite and the keyring are
external; of SQLite, its locking and snapshots are modelled as the code meets
them. `pick_trajectory_id` compares two listings around a run of an agent;
nothing in the repository calls it. `get_static` and `put_static` of the scan
cache take the steps of `memo` without versions.

Left out of the models that are there: a database in WAL mode whose mtime does
not change when it is written; an append within one tick of the file system's
clock, which leaves the mtime equal (each append has its own); a FUSE connection
number that the kernel gives to another mount between the lookup and the abort.
`build/` is an older copy of the package.

## Plan

In this order, with what each has to show:

1. `MemoryFS`: the listing and the payloads composed, with the abstract
   specification of a mount, a directory whose files are some view of the
   sessions no older than the last settled scan.
2. `pick_trajectory_id`: that the session picked is the one of the run, with
   other agents at work in the same directory.
