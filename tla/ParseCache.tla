----------------------------- MODULE ParseCache -----------------------------
(***************************************************************************)
(* The pickled parses of ~/.cache/trajectoriz (_cached_parse, called by    *)
(* parse_record): processes that parse sessions through files they all     *)
(* read, truncate and rewrite in place, while agents write the sessions    *)
(* and processes are killed, or installed anew with another parser.        *)
(*                                                                         *)
(* A session's version stands for its contents and mtime for the mtime of  *)
(* the file, or of the database, that holds it: an append changes both, a  *)
(* write to another session of the database only the mtime.  (A database   *)
(* in WAL mode, which is written with no change of its mtime, is left      *)
(* out.)  A parse is the parser's revision and the version it read.        *)
(*                                                                         *)
(* A pickle that fits in the buffers of its file is written, and read, at  *)
(* once.  A larger one is written and read in parts (frames of 64 KB),     *)
(* each at the writer's own position: a file of the cache is its parts,    *)
(* each one of some writer.  Of a session that grew, the steps already     *)
(* there are pickled first and alike: the first part of one parse with the *)
(* rest of another may well load.                                          *)
(*                                                                         *)
(* A definition named Bug... is the one after it with a plausible mistake. *)
(* Nothing uses it: it is there to try the properties on.                  *)
(***************************************************************************)
EXTENDS Naturals, FiniteSets

CONSTANTS Procs, Keys,    \* processes, one call each at a time; sessions
          Revisions,      \* values of PARSER_REVISION
                    Layouts,        \* processes, installed revisions and parts of a pickle that go together
          Nothing,
          MaxVersion, MaxMtime   \* bounds: versions and mtimes of a session

ASSUME RevisionsAssumption == Revisions # {} /\ Revisions \subseteq Nat
ASSUME LayoutsAssumption ==
    Layouts \subseteq [running : SUBSET Procs, revisions : SUBSET Revisions, parts : Nat \ {0}]
ASSUME KeysAssumption == Keys # {}
ASSUME NumbersAssumption == MaxVersion \in Nat /\ MaxMtime \in Nat

VARIABLES
    layout,        \* what runs, what is installed, and the parts a pickle is written in
  version, mtime,  \* [Keys -> of the session]
  revision,      \* [Procs -> the parser it was started with]
  cache,         \* [Revisions \X Keys -> <<part, ...>>, or Nothing: no file]
  pc, job,       \* [Procs -> where its call is], [Procs -> locals of its call]
  reply          \* history: what the call that made this step returned

vars == <<layout, version, mtime, revision, cache, pc, job, reply>>
session == <<layout, version, mtime>>

Versions == 0..MaxVersion
Parses == [revision : Revisions, version : Versions]
Parts == 1..layout.parts
Pickles == [mtime : 0..MaxMtime, parse : Parses]
Truncated == [i \in Parts |-> Nothing]

Files == [Parts -> Pickles \cup {Nothing}]

(* Nothing is none of what there may be.                                   *)
ASSUME NothingAssumption ==
  LET pickles == [mtime : 0..MaxMtime, parse : Parses] IN
  /\ Nothing \notin pickles
  /\ \A l \in Layouts : Nothing \notin [1..l.parts -> pickles \cup {Nothing}]
  /\ Nothing \notin [file : Keys, since : Versions]
  /\ Nothing \notin [by : Procs, since : Versions, parse : Parses, mixed : BOOLEAN]

NoParse == [revision |-> CHOOSE r \in Revisions : TRUE, version |-> 0]
NoJob == [key |-> CHOOSE k \in Keys : TRUE, mtime |-> 0, since |-> 0, parse |-> NoParse,
          part |-> 1, read |-> Truncated]

Init ==
  /\ layout \in Layouts
  /\ version = [k \in Keys |-> 0] /\ mtime = [k \in Keys |-> 0]
  /\ revision \in [Procs -> layout.revisions]
  /\ cache = [c \in Revisions \X Keys |-> Nothing]
  /\ pc = [p \in Procs |-> "idle"] /\ job = [p \in Procs |-> NoJob]
  /\ reply = Nothing

Goto(p, label) == pc' = [pc EXCEPT ![p] = label]
Silent == reply' = Nothing

(* A pickle of several writers, some part of it of an older parse than its *)
(* first.                                                                  *)
Mixed(read) == \E i \in Parts : read[i].mtime < read[1].mtime

Return(p, parse) ==
  /\ Goto(p, "idle")
  /\ job' = [job EXCEPT ![p] = NoJob]
  /\ reply' = [by |-> p, since |-> job[p].since, parse |-> parse,
               mixed |-> pc[p] = "read" /\ Mixed(job[p].read)]

BugCachePath(p) == <<CHOOSE r \in Revisions : TRUE, job[p].key>>

(* The revision is part of the key.                                        *)
CachePath(p) == <<revision[p], job[p].key>>

-----------------------------------------------------------------------------
(* parse_record: stat, before anything is read.                            *)
ParseRecord(p, k) ==
  /\ p \in layout.running /\ pc[p] = "idle"
  /\ job' = [job EXCEPT ![p] =
               [NoJob EXCEPT !.key = k, !.mtime = mtime[k], !.since = version[k]]]
  /\ Goto(p, "look")
  /\ Silent
  /\ UNCHANGED <<session, revision, cache>>

Look(p) ==
  /\ pc[p] = "look"
  /\ Goto(p, IF cache[CachePath(p)] = Nothing THEN "parse" ELSE "read")
  /\ Silent
  /\ UNCHANGED <<session, revision, cache, job>>

ReadPart(p) ==
  LET i == job[p].part IN
  /\ pc[p] = "read" /\ i \in Parts
  /\ job' = [job EXCEPT ![p] =
       [job[p] EXCEPT !.read = [job[p].read EXCEPT ![i] = cache[CachePath(p)][i]],
                      !.part = i + 1]]
  /\ Silent
  /\ UNCHANGED <<session, revision, cache, pc>>

(* What pickle.load may make of the parts: the mtime is in the first, the  *)
(* end in the last.  Nothing: it raised, and the exception is a miss.      *)
Loads(read) ==
  IF \E i \in Parts : read[i] = Nothing THEN {Nothing}
  ELSE LET whole == [mtime |-> read[1].mtime, parse |-> read[layout.parts].parse] IN
       IF \A i \in Parts : read[i] = whole THEN {whole} ELSE {Nothing, whole}

BugCurrent(p, loaded) == loaded # Nothing

Current(p, loaded) == loaded \in [mtime : {job[p].mtime}, parse : Parses]

Load(p) ==
  /\ pc[p] = "read" /\ job[p].part \notin Parts
  /\ \E loaded \in Loads(job[p].read) :
       \/ Current(p, loaded) /\ Return(p, loaded.parse)
       \/ ~Current(p, loaded) /\ Goto(p, "parse") /\ Silent /\ UNCHANGED job
  /\ UNCHANGED <<session, revision, cache>>

(* parse_fn.                                                               *)
Parse(p) ==
  /\ pc[p] = "parse"
  /\ job' = [job EXCEPT ![p] =
       [job[p] EXCEPT !.parse = [revision |-> revision[p], version |-> version[job[p].key]]]]
  /\ Goto(p, "open")
  /\ Silent
  /\ UNCHANGED <<session, revision, cache>>

(* open("wb") truncates the file under readers and other writers.          *)
Open(p) ==
  /\ pc[p] = "open"
  /\ cache' = [cache EXCEPT ![CachePath(p)] = Truncated]
  /\ job' = [job EXCEPT ![p] = [job[p] EXCEPT !.part = 1]]
  /\ Goto(p, "write")
  /\ Silent
  /\ UNCHANGED <<session, revision>>

BugPickle(p) == [mtime |-> mtime[job[p].key], parse |-> job[p].parse]

(* What is kept: the parse, under the mtime from before it.                *)
Pickle(p) == [mtime |-> job[p].mtime, parse |-> job[p].parse]

WritePart(p) ==
  LET i == job[p].part IN
  /\ pc[p] = "write"
  /\ cache' = [cache EXCEPT ![CachePath(p)] = [cache[CachePath(p)] EXCEPT ![i] = Pickle(p)]]
  /\ \/ /\ i < layout.parts
        /\ job' = [job EXCEPT ![p] = [job[p] EXCEPT !.part = i + 1]]
        /\ Silent /\ UNCHANGED pc
     \/ i = layout.parts /\ Return(p, job[p].parse)
  /\ UNCHANGED <<session, revision>>

(* OSError: a full disk, an unwritable directory.                          *)
WriteFails(p) ==
  /\ pc[p] \in {"open", "write"}
  /\ Return(p, job[p].parse)
  /\ UNCHANGED <<session, revision, cache>>

-----------------------------------------------------------------------------
(* The environment *)

Grow(k) ==
  /\ version[k] < MaxVersion /\ mtime[k] < MaxMtime
  /\ version' = [version EXCEPT ![k] = version[k] + 1]
  /\ mtime' = [mtime EXCEPT ![k] = mtime[k] + 1]
  /\ Silent
  /\ UNCHANGED <<layout, revision, cache, pc, job>>

(* Another session of its database is written, or the file is touched.     *)
Touch(k) ==
  /\ mtime[k] < MaxMtime
  /\ mtime' = [mtime EXCEPT ![k] = mtime[k] + 1]
  /\ Silent
  /\ UNCHANGED <<layout, version, revision, cache, pc, job>>

(* The process is killed; the next one may run another version.            *)
Restart(p, r) ==
    /\ p \in layout.running /\ r \in layout.revisions
  /\ revision' = [revision EXCEPT ![p] = r]
  /\ pc' = [pc EXCEPT ![p] = "idle"]
  /\ job' = [job EXCEPT ![p] = NoJob]
  /\ Silent
  /\ UNCHANGED <<session, cache>>

Step(p) ==
  Look(p) \/ ReadPart(p) \/ Load(p) \/ Parse(p) \/ Open(p) \/ WritePart(p) \/ WriteFails(p)

Next ==
  \/ \E p \in Procs : Step(p)
  \/ \E p \in Procs, k \in Keys : ParseRecord(p, k)
  \/ \E p \in Procs, r \in Revisions : Restart(p, r)
  \/ \E k \in Keys : Grow(k) \/ Touch(k)

Spec == Init /\ [][Next]_vars

-----------------------------------------------------------------------------
(* Properties *)

Labels == {"idle", "look", "read", "parse", "open", "write"}

(* The variables have their types, and what is in the file of a revision   *)
(* was parsed by that revision, from no version the session has not had.   *)
TypeOK ==
  /\ layout \in Layouts
  /\ version \in [Keys -> Versions] /\ mtime \in [Keys -> 0..MaxMtime]
  /\ revision \in [Procs -> Revisions]
  /\ pc \in [Procs -> Labels]
  /\ \A p \in Procs :
       /\ job[p].key \in Keys /\ job[p].mtime \in 0..mtime[job[p].key]
       /\ job[p].since \in 0..version[job[p].key]
       /\ job[p].parse \in Parses
       /\ job[p].part \in 1..layout.parts + 1
       /\ job[p].read \in Files
  /\ \A r \in Revisions, k \in Keys :
       LET file == cache[<<r, k>>] IN
       file # Nothing =>
         /\ file \in Files
         /\ \A i \in Parts : file[i] # Nothing =>
              file[i].parse.revision = r /\ file[i].parse.version <= version[k]

(* Through the files of the cache, shared with other processes, killed     *)
(* writers, slower ones and other parsers, parse_record gives what this    *)
(* process's parser makes of the session as it was during the call - but   *)
(* to a call that loaded a mixed pickle: of what that gets nothing is said.*)
Asked ==
  [p \in Procs |-> IF pc[p] = "idle" THEN Nothing
                   ELSE [file |-> job[p].key, since |-> job[p].since]]
Answered ==
    IF reply = Nothing \/ reply.mixed THEN Nothing
  ELSE [since |-> reply.since,
        value |-> IF reply.parse.revision = revision[reply.by] THEN reply.parse.version
                  ELSE "of another parser"]
Promise == INSTANCE FreshReads
  WITH Readers <- Procs, Files <- Keys, asked <- Asked, answer <- Answered
ParsesAreFresh == Promise!Spec

(* "Return parse_fn(), using an mtime-keyed pickle cache": no call at all  *)
(* gives a parse of the session older than the call (_cached_parse).       *)
NeverAnOlderParse == reply # Nothing => reply.parse.version >= reply.since
=============================================================================
