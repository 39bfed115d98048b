---------------------------- MODULE PayloadCache ----------------------------
(***************************************************************************)
(* The rendered payloads of `trajectoriz memory` (_memoryfs.py): the byte- *)
(* bounded LRU of _content_for, the open-file handles, and the sizes that  *)
(* getattr takes from the disk memo, while agents keep appending to the    *)
(* sessions being read.                                                    *)
(*                                                                         *)
(* A client is a process using the mount; each of its system calls is one  *)
(* handler call, run by a FUSE thread.  A payload is what the rendering    *)
(* depends on: the version of the source that was parsed and the first     *)
(* message in the record, which is as old as the listing.  Its length      *)
(* grows with both.  _lookup is MemoryListing's subject: here a call       *)
(* starts with the record it returned.                                     *)
(*                                                                         *)
(* A definition named Bug... is the one after it with a plausible mistake. *)
(* Nothing uses it: it is there to try the properties on.                  *)
(***************************************************************************)
EXTENDS Naturals, Sequences, FiniteSets, FiniteSetsExt, SequencesExt

CONSTANTS Clients,
          Names,
          FileNames,      \* names whose record has a file as its source (a Path)
          CacheBytes,     \* cache_bytes
          LateNames,      \* names whose session is listed before its first message
          MaxVersion,     \* bound: versions of a source
          MaxOpens        \* bound: file handles given out by one mount

ASSUME NamesAssumption == Names # {} /\ FileNames \subseteq Names /\ LateNames \subseteq Names
ASSUME ClientsAssumption == IsFiniteSet(Clients)
ASSUME NumbersAssumption == {CacheBytes, MaxVersion, MaxOpens} \subseteq Nat

VARIABLES
  version,  \* [Names -> version of the source]
  first,    \* [Names -> whether the listed record has a first message]
  content,  \* self._content, oldest first: <<[name, tag, data], ...>>
  bytes,    \* self._content_bytes
  handles,  \* self._handles
  nextFh,   \* self._next_fh
  sizes,    \* size memo: [FileNames -> {} or {[tag, size]}]
  pc,       \* [Clients -> where its handler call is]
  task,     \* [Clients -> locals of its handler call]
  opened,   \* [Clients -> {} or {[path, fh]} of the file it has open]
  got,      \* history: [Clients -> payloads its open file has shown it]
    misled,   \* history: file sessions a call was on with a record older than their first message
  statSize  \* history: [Clients -> {} or {the st_size it is answered by this step}]

vars == <<version, first, misled, content, bytes, handles, nextFh, sizes, pc, task, opened, got, statSize>>
cacheVars == <<content, bytes>>
handleVars == <<handles, nextFh, opened, got>>

Payloads == [version : 0..MaxVersion, first : BOOLEAN]
Length(p) == 1 + p.version + IF p.first THEN 1 ELSE 0
HasFirst(n, v) == n \notin LateNames \/ v > 0
Render(n, rec) == [version |-> version[n], first |-> rec]

(* _source_mtime: 0.0 for a record that is not a file of its own.          *)
SourceMtime(n) == IF n \in FileNames THEN version[n] + 1 ELSE 0

Entries(n) == {i \in DOMAIN content : content[i].name = n}
Without(c, n) ==
  LET places == {i \in DOMAIN c : c[i].name = n} IN
  IF places = {} THEN c ELSE RemoveAt(c, CHOOSE i \in places : TRUE)
Bytes(c) ==
  LET sum[k \in 0..Len(c)] == IF k = 0 THEN 0 ELSE sum[k - 1] + Length(c[k].data) IN sum[Len(c)]
Hits(n, tag) == {i \in Entries(n) : content[i].tag = tag}

NoTask == [op |-> "none", name |-> CHOOSE n \in Names : TRUE, first |-> FALSE, tag |-> 0,
           memoTag |-> 0, data |-> [version |-> 0, first |-> FALSE], began |-> 0, quiet |-> TRUE]

NoSize == [c \in Clients |-> {}]

Init ==
  /\ version = [n \in Names |-> 0]
  /\ first = [n \in Names |-> HasFirst(n, 0)]
  /\ content = <<>> /\ bytes = 0
  /\ handles = <<>> /\ nextFh = 1
  /\ sizes = [n \in FileNames |-> {}]
  /\ pc = [c \in Clients |-> "idle"]
  /\ task = [c \in Clients |-> NoTask]
  /\ opened = [c \in Clients |-> {}]
  /\ got = [c \in Clients |-> {}]
  /\ statSize = NoSize /\ misled = {}

-----------------------------------------------------------------------------
(* Handler calls *)

NoReply == statSize' = NoSize

Opening == {c \in Clients : task[c].op = "open"}

(* open, getattr, or read without a handle of ours, after _lookup.  The    *)
(* size of a file's payload is looked for before it is rendered.           *)
Begin(c, op, n) ==
  /\ pc[c] = "idle"
  /\ op = "open" => opened[c] = {} /\ nextFh + Cardinality(Opening) <= MaxOpens
  /\ op = "read" => opened[c] = {}
  /\ task' = [task EXCEPT ![c] = [NoTask EXCEPT !.op = op, !.name = n, !.first = first[n],
                                                !.began = version[n]]]
  /\ pc' = [pc EXCEPT ![c] = IF op = "getattr" /\ n \in FileNames THEN "size" ELSE "mtime"]
  /\ misled' = misled \cup {k \in {n} \cap FileNames : first[k] # HasFirst(k, version[k])}
  /\ NoReply
  /\ UNCHANGED <<version, first, cacheVars, handleVars, sizes>>

(* _size_of takes the source's mtime for _content_size.                    *)
SizeMtime(c) ==
  /\ pc[c] = "size"
  /\ task' = [task EXCEPT ![c] = [task[c] EXCEPT !.tag = SourceMtime(task[c].name)]]
  /\ pc' = [pc EXCEPT ![c] = "contentsize"]
  /\ UNCHANGED <<version, first, misled, cacheVars, handleVars, sizes>> /\ NoReply

Return(c, reply) ==
  /\ statSize' = [NoSize EXCEPT ![c] = reply]
  /\ pc' = [pc EXCEPT ![c] = "idle"]
  /\ task' = [task EXCEPT ![c] = NoTask]


ContentSize(c) ==
  /\ pc[c] = "contentsize"
  /\ LET hits == Hits(task[c].name, task[c].tag) IN
       \/ /\ hits # {}
          /\ Return(c, {Length(content[Min(hits)].data)})
       \/ /\ hits = {}
          /\ pc' = [pc EXCEPT ![c] = "memo"]
          /\ UNCHANGED <<task>> /\ NoReply
  /\ UNCHANGED <<version, first, misled, cacheVars, handleVars, sizes>>

(* _scancache.memo: stat the file, reuse the size stored under that stat,  *)
(* or else go and render the payload.                                      *)
SizeMemo(c) ==
  /\ pc[c] = "memo"
  /\ LET n == task[c].name
         hits == {m \in sizes[n] : m.tag = SourceMtime(n)} IN
       \/ \E m \in hits : Return(c, {m.size})
       \/ /\ hits = {}
          /\ task' = [task EXCEPT ![c] = [task[c] EXCEPT !.memoTag = SourceMtime(n)]]
          /\ pc' = [pc EXCEPT ![c] = "mtime"]
          /\ NoReply
  /\ UNCHANGED <<version, first, misled, cacheVars, handleVars, sizes>>

(* _content_for: mtime, cache hit under the lock, parse and render without *)
(* it, insert under it.                                                    *)
ContentMtime(c) ==
  /\ pc[c] = "mtime"
  /\ task' = [task EXCEPT ![c] = [task[c] EXCEPT !.tag = SourceMtime(task[c].name)]]
  /\ pc' = [pc EXCEPT ![c] = "lookup"]
  /\ UNCHANGED <<version, first, misled, cacheVars, handleVars, sizes>> /\ NoReply

ContentHit(c) ==
  /\ pc[c] = "lookup"
  /\ \E i \in Hits(task[c].name, task[c].tag) :
       /\ content' = Append(Without(content, task[c].name), content[i])
       /\ task' = [task EXCEPT ![c] = [task[c] EXCEPT !.data = content[i].data]]
  /\ pc' = [pc EXCEPT ![c] = "done"]
  /\ UNCHANGED <<version, first, misled, bytes, handleVars, sizes>> /\ NoReply

ContentMiss(c) ==
  /\ pc[c] = "lookup"
  /\ Hits(task[c].name, task[c].tag) = {}
  /\ pc' = [pc EXCEPT ![c] = "parse"]
  /\ UNCHANGED <<version, first, misled, cacheVars, handleVars, sizes, task>> /\ NoReply

RenderPayload(c) ==
  /\ pc[c] = "parse"
  /\ task' = [task EXCEPT ![c] = [task[c] EXCEPT !.data = Render(task[c].name, task[c].first)]]
  /\ pc' = [pc EXCEPT ![c] = "insert"]
  /\ UNCHANGED <<version, first, misled, cacheVars, handleVars, sizes>> /\ NoReply

(* Parsing or rendering raised: the call fails, nothing is cached.         *)
RenderFail(c) ==
  /\ pc[c] = "parse"
  /\ Return(c, {})
  /\ UNCHANGED <<version, first, misled, cacheVars, handleVars, sizes>>

(* How many of the oldest entries of c the eviction loop pops.             *)
Evicted(c, total) ==
  Min({k \in 0..Len(c) - 1 :
         total - Bytes(SubSeq(c, 1, k)) <= CacheBytes \/ k = Len(c) - 1})

(* The stale payload of the same name goes first: its bytes, and its place *)
(* in the order.                                                           *)
BugStaleBytesStay(n) == 0
StaleBytes(n) ==
  IF Entries(n) = {} THEN 0 ELSE Length(content[Min(Entries(n))].data)

BugKeepPlace(n, entry) ==
  IF Entries(n) = {} THEN Append(content, entry) ELSE [content EXCEPT ![Min(Entries(n))] = entry]
Replaced(n, entry) == Append(Without(content, n), entry)

BugTagAtInsert(c) ==
  [name |-> task[c].name, tag |-> SourceMtime(task[c].name), data |-> task[c].data]
Entry(c) == [name |-> task[c].name, tag |-> task[c].tag, data |-> task[c].data]

Insert(c) ==
  /\ pc[c] = "insert"
  /\ LET full == Replaced(task[c].name, Entry(c))
         total == bytes - StaleBytes(task[c].name) + Length(task[c].data)
         k == Evicted(full, total) IN
       /\ content' = SubSeq(full, k + 1, Len(full))
       /\ bytes' = total - Bytes(SubSeq(full, 1, k))
  /\ pc' = [pc EXCEPT ![c] = "done"]
  /\ UNCHANGED <<version, first, misled, handleVars, sizes, task>> /\ NoReply

BugHandleNotKept(c) == handles
NewHandles(c) ==
  [h \in DOMAIN handles \cup {nextFh} |-> IF h = nextFh THEN task[c].data ELSE handles[h]]

FinishOpen(c) ==
  /\ pc[c] = "done" /\ task[c].op = "open"
  /\ handles' = NewHandles(c)
  /\ opened' = [opened EXCEPT ![c] = {[path |-> task[c].name, fh |-> nextFh]}]
  /\ nextFh' = nextFh + 1
  /\ got' = [got EXCEPT ![c] = {}]
  /\ Return(c, {})
  /\ UNCHANGED <<version, first, misled, cacheVars, sizes>>

FinishRead(c) ==
  /\ pc[c] = "done" /\ task[c].op = "read"
  /\ Return(c, {})
  /\ UNCHANGED <<version, first, misled, cacheVars, handleVars, sizes>>

BugMemoTagAfter(c) == SourceMtime(task[c].name)
MemoTag(c) == task[c].memoTag

(* getattr of a file's payload came here through the memo, which keeps the *)
(* size under the stat it took first.                                      *)
FinishGetattr(c) ==
  /\ pc[c] = "done" /\ task[c].op = "getattr"
  /\ LET size == Length(task[c].data) n == task[c].name IN
       /\ Return(c, {size})
       /\ sizes' = IF n \in FileNames
                   THEN [sizes EXCEPT ![n] = {[tag |-> MemoTag(c), size |-> size]}]
                   ELSE sizes
  /\ UNCHANGED <<version, first, misled, cacheVars, handleVars>>

BugReadCacheFirst(o) == {content[i].data : i \in Entries(o.path)}
HandleData(o) == {handles[o.fh]}

(* The kernel's reads of an open file, and its release.                    *)
ReadHandle(c) ==
  /\ pc[c] = "idle"
  /\ \E o \in opened[c] :
       o.fh \in DOMAIN handles /\ got' = [got EXCEPT ![c] = got[c] \cup HandleData(o)]
  /\ UNCHANGED <<version, first, misled, cacheVars, handles, nextFh, opened, sizes, pc, task>> /\ NoReply

Release(c) ==
  /\ pc[c] = "idle"
  /\ \E o \in opened[c] : handles' = Restrict(handles, DOMAIN handles \ {o.fh})
  /\ opened' = [opened EXCEPT ![c] = {}]
  /\ got' = [got EXCEPT ![c] = {}]
  /\ UNCHANGED <<version, first, misled, cacheVars, nextFh, sizes, pc, task>> /\ NoReply

-----------------------------------------------------------------------------
(* Environment *)

Disturb(n) ==
  [c \in Clients |-> IF pc[c] # "idle" /\ task[c].name = n THEN [task[c] EXCEPT !.quiet = FALSE]
                    ELSE task[c]]

(* The agent appends to its session.                                       *)
AppendToSource(n) ==
  /\ version[n] < MaxVersion
  /\ version' = [version EXCEPT ![n] = version[n] + 1]
  /\ task' = Disturb(n)
  /\ misled' = misled \cup {k \in {n} \cap FileNames :
                             \E c \in Clients : /\ pc[c] # "idle" /\ task[c].name = k
                                                /\ task[c].first # HasFirst(k, version'[k])}
  /\ UNCHANGED <<first, cacheVars, handleVars, sizes, pc>> /\ NoReply

(* A scan publishes a listing whose record is up to date.                  *)
Relist(n) ==
  /\ first[n] # HasFirst(n, version[n])
  /\ first' = [first EXCEPT ![n] = HasFirst(n, version[n])]
  /\ task' = Disturb(n)
  /\ UNCHANGED <<version, misled, cacheVars, handleVars, sizes, pc>> /\ NoReply

(* The mount ends and starts again: memory is gone, the memo on disk stays *)
(* except for what was not flushed.                                        *)
Remount ==
  /\ content' = <<>> /\ bytes' = 0
  /\ handles' = <<>> /\ nextFh' = 1
  /\ pc' = [c \in Clients |-> "idle"]
  /\ task' = [c \in Clients |-> NoTask]
  /\ opened' = [c \in Clients |-> {}]
  /\ got' = [c \in Clients |-> {}]
  /\ NoReply
  /\ first' = [n \in Names |-> HasFirst(n, version[n])]
  /\ \E kept \in SUBSET FileNames :
       sizes' = [n \in FileNames |-> IF n \in kept THEN sizes[n] ELSE {}]
  /\ UNCHANGED <<version, misled>>

Handler(c) ==
  \/ \E op \in {"open", "getattr", "read"}, n \in Names : Begin(c, op, n)
  \/ SizeMtime(c) \/ ContentSize(c) \/ SizeMemo(c)
  \/ ContentMtime(c) \/ ContentHit(c) \/ ContentMiss(c)
  \/ RenderPayload(c) \/ RenderFail(c) \/ Insert(c)
  \/ FinishOpen(c) \/ FinishRead(c) \/ FinishGetattr(c)
  \/ ReadHandle(c) \/ Release(c)

Next ==
  \/ \E c \in Clients : Handler(c)
  \/ \E n \in Names : AppendToSource(n) \/ Relist(n)
  \/ Remount

Spec == Init /\ [][Next]_vars

-----------------------------------------------------------------------------
(* Properties *)

(* Every variable has its type, and an open file its handle.               *)
TypeOK ==
  /\ version \in [Names -> 0..MaxVersion] /\ first \in [Names -> BOOLEAN]
  /\ misled \subseteq FileNames
  /\ \A i \in DOMAIN content :
       content[i] \in [name : Names, tag : 0..MaxVersion + 1, data : Payloads]
  /\ DOMAIN handles \subseteq 1..MaxOpens /\ nextFh \in 1..MaxOpens + 1
  /\ \A h \in DOMAIN handles : handles[h] \in Payloads
  /\ \A n \in FileNames : \A m \in sizes[n] : m \in [tag : Nat, size : Nat]
  /\ \A c \in Clients : task[c].data \in Payloads /\ \A o \in opened[c] : o.fh \in DOMAIN handles

(* The byte counter is what the cached payloads add up to, although two    *)
(* handlers may render and insert the same name at once; there is one      *)
(* payload per name; and the bound is exceeded only by a single payload    *)
(* larger than the whole cache.                                            *)
CacheAccounts ==
  /\ bytes = Bytes(content)
  /\ \A n \in Names : Cardinality(Entries(n)) <= 1
  /\ bytes <= CacheBytes \/ Len(content) = 1

(* The payload a handler has just rendered or found is the last the cache  *)
(* will evict: re-reading one session never pushes it out itself.          *)
LastUsedIsKept ==
  [][\A c \in Clients :
       pc'[c] = "done" /\ pc[c] # "done" => Last(content').name = task[c].name]_vars

(* All the reads of one open file show one payload, whatever is appended,  *)
(* re-rendered, evicted, opened or released in between.                    *)
OneOpenOnePayload == \A c \in Clients : Cardinality(got[c]) <= 1

(* What opening or reading a file-backed session returns is at least as    *)
(* new as the session was when the call began.                             *)
CurrentFor(S) ==
  \A c \in Clients :
    pc[c] = "done" /\ task[c].name \in S => task[c].data.version >= task[c].began
FilePayloadIsCurrent == CurrentFor(FileNames)

(* The README of the mount says it of every file: generated when read, a   *)
(* view and not a copy.                                                    *)
PayloadIsGeneratedWhenRead == CurrentFor(Names)

(* st_size of a file-backed session is the length of what an open at that  *)
(* moment would show, when neither the session nor its listed record       *)
(* changed during the call - unless some call was ever on the session with *)
(* a record listed before its first message.                               *)
WouldShow(n) ==
  LET hits == Hits(n, SourceMtime(n)) IN
    IF hits # {} THEN content[Min(hits)].data ELSE Render(n, first[n])
SizesRightFor(S) ==
  \A c \in Clients :
    (statSize'[c] # {} /\ pc[c] # "idle" /\ task[c].quiet /\ task[c].name \in S)
      => statSize'[c] = {Length(WouldShow(task[c].name))}
StatSizeIsPayloadSize == [][SizesRightFor(FileNames \ misled)]_vars

(* What _size_of says of it: "The size is a pure function of the source    *)
(* file and the renderer", so that the memo always has the right one.      *)
SizeIsOfTheSource == [][SizesRightFor(FileNames)]_vars
=============================================================================
