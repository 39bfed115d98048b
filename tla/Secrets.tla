------------------------------- MODULE Secrets -------------------------------
(***************************************************************************)
(* The scan for keyring secrets (_secrets.py): every value of the keyring  *)
(* is searched for in every session file and in the databases of sessions, *)
(* by one grep or, where grep cannot be used, in blocks of a file read     *)
(* with an overlap; then every file found is parsed, and every database    *)
(* read, to say in which session, and step, the value is.  Agents write    *)
(* all the while, and a session may be deleted.                            *)
(*                                                                         *)
(* A file is a sequence of lines, each a sequence of bytes; a character    *)
(* takes one byte, or the two bytes "hi" "lo".  The database is a sequence *)
(* of cells, each the text of a row of some table, with the ids in its row *)
(* in the order of _SESSION_COLUMNS; a cell is on disk from the next       *)
(* checkpoint on.  What is a step of a session is a property of its line.  *)
(*                                                                         *)
(* Of what is reported, the counts of what was skipped, the fingerprints,  *)
(* the destinations and the redacted contexts are left out.                *)
(*                                                                         *)
(* A definition named Bug... is the one after it with a plausible mistake. *)
(* Nothing uses it: it is there to try the properties on.                  *)
(***************************************************************************)
EXTENDS Naturals, Sequences, FiniteSets, SequencesExt

CONSTANTS
  Letters,      \* the characters of one byte, but the newline
  Files,        \* session files, and sidecars of some
  Sessions,     \* sessions of the database
  Database,     \* its path
  Tables,       \* its tables
  Owner,        \* [Files -> the record that has the file]
  Lines,        \* what agents append: [step : BOOLEAN, bytes]
  Cells,        \* what agents insert: [table, hints : Seq(ids), bytes]
  Scans,        \* what scan() is called with, and what it finds at the start
  MinLength, ReadChunk,   \* min_length, _READ_CHUNK
  FetchRows,    \* how many rows are fetched at a time (200)
  MaxWrites     \* bound: lines and cells written during the scan

Records == {Owner[f] : f \in Files} \cup Sessions
Paths == Files \cup {Database}

Bytes == Letters \cup {"newline", "hi", "lo"}
Chars == Letters \cup {"newline", "wide", "?"}
LinesOf == [step : BOOLEAN, bytes : Seq(Bytes)]

IsCell(cell) ==
  /\ cell.table \in Tables
  /\ cell.hints \in Seq(Range(cell.hints)) /\ cell.bytes \in Seq(Bytes)

(* A value has a line (splitlines() or [""]), and a block is longer than   *)
(* each of them.                                                           *)
IsValue(value) ==
  /\ value \in Seq(Seq(Chars \ {"newline"})) \ {<<>>}
  /\ \A line \in Range(value) : Len(line) <= ReadChunk

ASSUME LettersAssumption == Letters \cap {"newline", "hi", "lo", "wide", "?"} = {}
ASSUME PathsAssumption == Database \notin Files
ASSUME NumbersAssumption ==
  MinLength \in Nat \ {0} /\ {ReadChunk, FetchRows, MaxWrites} \subseteq Nat
ASSUME WritesAssumption == Lines \subseteq LinesOf /\ \A cell \in Cells : IsCell(cell)
ASSUME ScansAssumption ==
  \A s \in Scans :
    /\ \A l \in DOMAIN s.keyring : IsValue(s.keyring[l])
    /\ s.maxFiles \in Nat /\ s.useGrep \in BOOLEAN
    /\ s.file \in [Files -> Seq(LinesOf)]
    /\ s.cells \in Seq(Range(s.cells)) /\ \A cell \in Range(s.cells) : IsCell(cell)

VARIABLES
  scan,      \* [keyring : [labels -> values], useGrep, maxFiles, period, inPeriod]
  file,      \* [Files -> <<line, ...>>, or <<>> once deleted]
  cells,     \* the rows of the database
  synced,    \* how many of them are in the file of the database
  pc,
  todo,      \* paths not searched yet
  reader,    \* the file being read in blocks: [path, pos, tail]
  matches,   \* {[needle, path, count]}
  hits,      \* those not reported yet
  tables,    \* the tables of the database still to be read
  rows,      \* places, in cells, of the rows that were read
  leaks,     \* {[needle, labels, record, path, step, count]}
  common,    \* needles reported as too common
  seen,      \* history: [Paths -> the bytes searched]
  writes     \* how many writes there were

vars == <<scan, file, cells, synced, pc, todo, reader, matches, hits, tables, rows, leaks,
          common, seen, writes>>
stores == <<file, cells, synced, writes>>
inspected == <<tables, rows>>
found == <<leaks, common, hits>>

Init ==
  /\ \E s \in Scans :
       /\ scan = [keyring |-> s.keyring, useGrep |-> s.useGrep, maxFiles |-> s.maxFiles,
                  period |-> s.period, inPeriod |-> s.inPeriod]
       /\ file = s.file /\ cells = s.cells /\ synced = Len(s.cells)
  /\ pc = "start" /\ todo = {} /\ reader = [path |-> Database, pos |-> 0, tail |-> <<>>]
  /\ matches = {} /\ hits = {} /\ leaks = {} /\ common = {}
  /\ tables = {} /\ rows = {}
  /\ seen = [p \in Paths |-> <<>>] /\ writes = 0

-----------------------------------------------------------------------------
(* Text *)

Continues(bytes, i) == i > 1 /\ bytes[i - 1] = "hi" /\ bytes[i] = "lo"

(* Where the characters begin, in ascending order.                         *)
Starts(bytes) ==
  LET upTo[i \in 0..Len(bytes)] ==
        IF i = 0 THEN <<>>
        ELSE IF Continues(bytes, i) THEN upTo[i - 1] ELSE Append(upTo[i - 1], i)
  IN upTo[Len(bytes)]

(* decode("utf-8", "replace") of the character that begins at i.           *)
CharAt(bytes, i) ==
  IF bytes[i] \notin {"hi", "lo"} THEN bytes[i]
  ELSE IF bytes[i] = "hi" /\ i < Len(bytes) /\ bytes[i + 1] = "lo" THEN "wide" ELSE "?"

Decode(bytes) == LET at == Starts(bytes) IN [c \in 1..Len(at) |-> CharAt(bytes, at[c])]

Encode(text) ==
  LET upTo[i \in 0..Len(text)] ==
        IF i = 0 THEN <<>>
        ELSE upTo[i - 1] \o (IF text[i] = "wide" THEN <<"hi", "lo">> ELSE <<text[i]>>)
  IN upTo[Len(text)]

IsAt(text, needle, i) ==
  i + Len(needle) - 1 <= Len(text) /\ SubSeq(text, i, i + Len(needle) - 1) = needle
Places(text, needle) == {i \in 1..Len(text) : IsAt(text, needle, i)}
Holds(text, needle) == Places(text, needle) # {}

Longest(needles) == CHOOSE n \in needles : \A o \in needles : Len(o) <= Len(n)

(* From left to right, and from the place after skipped, the longest       *)
(* needle at each place that none before it covers.                        *)
Occurrences(text, needles, skipped) ==
  LET taken[i \in 0..Len(text)] ==
        IF i <= skipped THEN {}
        ELSE LET before == taken[i - 1]
                 here == {n \in needles : IsAt(text, n, i)}
             IN IF here = {} \/ \E o \in before : o.at + Len(o.needle) > i THEN before
                ELSE before \cup {[at |-> i, needle |-> Longest(here)]}
  IN taken[Len(text)]

(* text.count(needle, skipped)                                             *)
Count(text, needle, skipped) == Cardinality(Occurrences(text, {needle}, skipped))

Joined(lines) ==
  LET upTo[i \in 0..Len(lines)] ==
        IF i = 0 THEN <<>> ELSE upTo[i - 1] \o Append(lines[i].bytes, "newline")
  IN upTo[Len(lines)]

RawBytes(p) == IF p = Database THEN Joined(SubSeq(cells, 1, synced)) ELSE Joined(file[p])

-----------------------------------------------------------------------------
(* What is searched for *)

(* KeyringSecret.needle: the longest line of the value, the first of them. *)
Needle(value) ==
  value[CHOOSE i \in DOMAIN value : \A j \in DOMAIN value :
          Len(value[j]) < Len(value[i]) \/ (Len(value[j]) = Len(value[i]) /\ i <= j)]

Usable == {l \in DOMAIN scan.keyring : Len(Needle(scan.keyring[l])) >= MinLength}
Needles == {Needle(scan.keyring[l]) : l \in Usable}
Overlap == CHOOSE n \in {Len(x) : x \in Needles} : \A x \in Needles : Len(x) <= n

BugLabelsOf(needle) ==
  {l \in Usable : scan.keyring[l] = CHOOSE v \in {scan.keyring[m] : m \in Usable} : Needle(v) = needle}

(* The labels of all the values that share the needle.                     *)
LabelsOf(needle) == {l \in Usable : Needle(scan.keyring[l]) = needle}

BugTargets == {f \in Files : file[f] # <<>>} \cup {Database}

(* collect_targets: the files of the sessions of the period, the database. *)
Targets == {f \in Files : file[f] # <<>> /\ Owner[f] \in scan.inPeriod} \cup {Database}

Start ==
  /\ pc = "start"
  /\ IF Usable = {} THEN pc' = "done" /\ todo' = {} ELSE pc' = "match" /\ todo' = Targets
  /\ UNCHANGED <<scan, stores, reader, matches, found, inspected, seen>>

(* A session is deleted between exists() and stat(), which raises.         *)
StartFails ==
  /\ pc = "start" /\ Usable # {} /\ writes < MaxWrites
  /\ \E f \in Targets \ {Database} : file' = [file EXCEPT ![f] = <<>>]
  /\ pc' = "failed" /\ writes' = writes + 1
  /\ UNCHANGED <<scan, cells, synced, todo, reader, matches, found, inspected, seen>>

-----------------------------------------------------------------------------
(* Stage A: the files that hold a needle *)

NonZero(found_) == {m \in found_ : m.count > 0}

(* _grep_matches, of one file: grep -o -F prints each pattern it finds.    *)
Grep(p) ==
  LET printed == Occurrences(RawBytes(p), {Encode(n) : n \in Needles}, 0) IN
  /\ pc = "match" /\ scan.useGrep /\ p \in todo
  /\ matches' = matches \cup NonZero(
       {[needle |-> n, path |-> p, count |-> Cardinality({o \in printed : o.needle = Encode(n)})]
          : n \in Needles})
  /\ seen' = [seen EXCEPT ![p] = RawBytes(p)]
  /\ todo' = todo \ {p}
  /\ UNCHANGED <<scan, stores, pc, reader, found, inspected>>

(* It cannot be started, or is killed: what it found is forgotten.         *)
GrepFails ==
  /\ pc = "match" /\ scan.useGrep /\ todo # {}
  /\ scan' = [scan EXCEPT !.useGrep = FALSE]
  /\ matches' = {} /\ todo' = Targets
  /\ seen' = [p \in Paths |-> <<>>]
  /\ UNCHANGED <<stores, pc, reader, found, inspected>>

BugSkipped(skip, needle) == skip

(* Where the count starts in a chunk with a replayed prefix: at the first  *)
(* occurrence that ends after it.                                          *)
Skipped(skip, needle) == IF skip < Len(needle) THEN 0 ELSE skip - Len(needle) + 1

Counted(p, text, skip) ==
  LET before(n) == {m \in matches : m.needle = n /\ m.path = p}
      count(n) == Count(text, n, Skipped(skip, n))
  IN {m \in matches : m.path # p} \cup NonZero(
       {[needle |-> n, path |-> p,
         count |-> count(n) + (IF before(n) = {} THEN 0 ELSE (CHOOSE m \in before(n) : TRUE).count)]
          : n \in Needles})

(* _iter_file_text: a small file is one chunk; of a large one, stat and    *)
(* open come before the first block.                                       *)
ReadFile(p) ==
  /\ pc = "match" /\ ~scan.useGrep /\ p \in todo
  /\ todo' = todo \ {p}
  /\ IF Len(RawBytes(p)) <= ReadChunk
     THEN /\ matches' = Counted(p, Decode(RawBytes(p)), 0)
          /\ seen' = [seen EXCEPT ![p] = RawBytes(p)]
          /\ UNCHANGED <<pc, reader>>
     ELSE /\ reader' = [path |-> p, pos |-> 0, tail |-> <<>>]
          /\ pc' = "block"
          /\ UNCHANGED <<matches, seen>>
  /\ UNCHANGED <<scan, stores, found, inspected>>

ReadBlock ==
  LET p == reader.path
      raw == RawBytes(p)
      left == Len(raw) - reader.pos
      block == SubSeq(raw, reader.pos + 1, reader.pos + (IF left < ReadChunk THEN left ELSE ReadChunk))
      prefix == Decode(reader.tail)
      cut == IF Len(block) < Overlap THEN 0 ELSE Len(block) - Overlap
  IN
  /\ pc = "block"
  /\ IF left <= 0
     THEN pc' = "match" /\ UNCHANGED <<reader, matches, seen>>
     ELSE /\ matches' = Counted(p, prefix \o Decode(block), Len(prefix))
          /\ reader' = [reader EXCEPT !.pos = reader.pos + Len(block),
                                      !.tail = SubSeq(block, cut + 1, Len(block))]
          /\ seen' = [seen EXCEPT ![p] = seen[p] \o block]
          /\ UNCHANGED pc
  /\ UNCHANGED <<scan, stores, todo, found, inspected>>

Located ==
  /\ pc = "match" /\ todo = {}
  /\ pc' = "report" /\ hits' = matches
  /\ UNCHANGED <<scan, stores, todo, reader, matches, leaks, common, inspected, seen>>

-----------------------------------------------------------------------------
(* Stage B: the sessions that hold it *)

Leak(m, record, step, count) ==
  [needle |-> m.needle, labels |-> LabelsOf(m.needle), record |-> record, path |-> m.path,
   step |-> step, count |-> count]

(* _leaks_for_file: the steps of the session, parsed now, or else the file.*)
LeaksForFile(m) ==
  LET record == Owner[m.path]
      log == IF record \in Files THEN file[record] ELSE <<>>
      text(i) == Decode(log[i].bytes)
      steps == {i \in DOMAIN log : log[i].step /\ Holds(text(i), m.needle)}
  IN IF steps = {} THEN {Leak(m, record, 0, m.count)}
     ELSE {Leak(m, record, i, Count(text(i), m.needle, 0)) : i \in steps}

TooCommon(needle) ==
  scan.maxFiles > 0 /\ Cardinality({m \in matches : m.needle = needle}) > scan.maxFiles

Report(m) ==
  /\ pc = "report" /\ m \in hits /\ m.path # Database
  /\ hits' = hits \ {m}
  /\ IF TooCommon(m.needle)
     THEN common' = common \cup {m.needle} /\ UNCHANGED leaks
     ELSE leaks' = leaks \cup LeaksForFile(m) /\ UNCHANGED common
  /\ UNCHANGED <<scan, stores, pc, todo, reader, matches, inspected, seen>>

BugSessionOf(cell) == IF cell.hints = <<>> THEN "-" ELSE cell.hints[1]

(* The first id of the row that is a session's, or else its first id.      *)
FirstKnown(hints, i) == hints[i] \in Sessions /\ \A j \in 1..i - 1 : hints[j] \notin Sessions
SessionOf(cell) ==
  LET known == {i \in DOMAIN cell.hints : FirstKnown(cell.hints, i)} IN
  IF cell.hints = <<>> THEN "-"
  ELSE cell.hints[IF known = {} THEN 1 ELSE CHOOSE i \in known : TRUE]

(* _leaks_for_store: the database is opened, once for all the needles, and *)
(* its tables are listed.  If it does not open, there is nothing in it; if *)
(* they cannot be listed, nothing catches it and the scan ends.            *)
Present == {m \in hits : ~TooCommon(m.needle)}

OpenStore ==
  /\ pc = "report" /\ hits # {} /\ \A m \in hits : m.path = Database
  /\ \/ pc' = "tables" /\ tables' \in {IF Present = {} THEN {} ELSE Tables, {}}
     \/ pc' = "failed" /\ Present # {} /\ UNCHANGED tables
  /\ UNCHANGED <<scan, stores, todo, reader, matches, found, rows, seen>>

(* A table is read, a few rows at a time: an error leaves out the rows not *)
(* fetched yet, all of them if the first query fails.                      *)
RowNumber(i) == Cardinality({j \in 1..i : cells[j].table = cells[i].table})
Fetched(table, n) == {i \in DOMAIN cells : cells[i].table = table /\ RowNumber(i) <= n * FetchRows}

ReadTable(table) ==
  /\ pc = "tables" /\ table \in tables
  /\ tables' = tables \ {table}
  /\ \E n \in 0..Len(cells) : rows' = rows \cup Fetched(table, n)
  /\ UNCHANGED <<scan, stores, pc, todo, reader, matches, found, seen>>

(* How often the rows of session s that were read have the needle.         *)
Total(needle, s) ==
  LET upTo[i \in 0..Len(cells)] ==
        IF i = 0 THEN 0
        ELSE upTo[i - 1] + (IF i \in rows /\ SessionOf(cells[i]) = s
                            THEN Count(Decode(cells[i].bytes), needle, 0) ELSE 0)
  IN upTo[Len(cells)]

LeaksForStore(m) ==
  {Leak(m, SessionOf(cells[i]), 0, Total(m.needle, SessionOf(cells[i])))
     : i \in {j \in rows : Holds(Decode(cells[j].bytes), m.needle)}}

(* One leak for a needle and a session, and the filter of the period.      *)
ReportStore ==
  /\ pc = "tables" /\ tables = {}
  /\ pc' = "report" /\ hits' = {}
  /\ common' = common \cup {m.needle : m \in hits \ Present}
  /\ leaks' = leaks \cup {l \in UNION {LeaksForStore(m) : m \in Present} :
                            scan.period => l.record \in scan.inPeriod}
  /\ UNCHANGED <<scan, stores, todo, reader, matches, inspected, seen>>

Finish ==
  /\ pc = "report" /\ hits = {}
  /\ pc' = "done"
  /\ UNCHANGED <<scan, stores, todo, reader, matches, found, inspected, seen>>

-----------------------------------------------------------------------------
(* The environment *)

Over == pc \in {"done", "failed"}
Writing == writes < MaxWrites /\ ~Over /\ writes' = writes + 1
Elsewhere == UNCHANGED <<scan, pc, todo, reader, matches, found, inspected, seen>>

AppendLine(f, line) ==
  /\ Writing /\ file[f] # <<>>
  /\ file' = [file EXCEPT ![f] = Append(file[f], line)]
  /\ Elsewhere /\ UNCHANGED <<cells, synced>>

(* (A file that is open stays readable: it counts as deleted once closed.) *)
Delete(f) ==
  /\ Writing /\ file[f] # <<>> /\ ~(pc = "block" /\ reader.path = f)
  /\ file' = [file EXCEPT ![f] = <<>>]
  /\ Elsewhere /\ UNCHANGED <<cells, synced>>

InsertCell(cell) ==
  /\ Writing
  /\ cells' = Append(cells, cell)
  /\ Elsewhere /\ UNCHANGED <<file, synced>>

Checkpoint ==
  /\ synced < Len(cells) /\ ~Over
  /\ synced' = Len(cells)
  /\ Elsewhere /\ UNCHANGED <<file, cells, writes>>

Scan ==
  \/ Start \/ StartFails \/ GrepFails \/ ReadBlock \/ Located \/ Finish
  \/ \E p \in Paths : Grep(p) \/ ReadFile(p)
  \/ OpenStore \/ ReportStore
  \/ \E table \in Tables : ReadTable(table)
  \/ \E m \in hits : Report(m)

Agents ==
  \/ \E f \in Files : Delete(f) \/ \E line \in Lines : AppendLine(f, line)
  \/ \E cell \in Cells : InsertCell(cell)
  \/ Checkpoint

Next == Scan \/ Agents

Spec == Init /\ [][Next]_vars

-----------------------------------------------------------------------------
(* Properties *)

Spots == [path : Paths, pos : Nat, tail : Seq(Bytes)]

(* The variables have their types, and what is reported of a scan of a     *)
(* period is of sessions of that period.                                   *)
TypeOK ==
  /\ pc \in {"start", "match", "block", "report", "tables", "done", "failed"}
  /\ todo \subseteq Paths /\ synced \in 0..Len(cells) /\ writes \in 0..MaxWrites
  /\ reader \in Spots /\ seen \in [Paths -> Seq(Bytes)]
  /\ \A m \in matches : m.needle \in Needles /\ m.path \in Paths /\ m.count \in Nat \ {0}
  /\ \A m, n \in matches : m.needle = n.needle /\ m.path = n.path => m = n
  /\ hits \subseteq matches /\ common \subseteq Needles
  /\ tables \subseteq Tables /\ rows \subseteq 1..Len(cells)
  /\ \A k \in leaks :
       /\ k.needle \in Needles /\ k.path \in Paths /\ k.labels \subseteq Usable
       /\ k.labels # {} /\ k.count \in Nat \ {0}
       /\ scan.period => k.record \in scan.inPeriod

(* A needle's characters take one byte each.                               *)
OneByte(needle) == Range(needle) \cap {"wide", "?"} = {}

Apart(text, needle) == \A i, j \in Places(text, needle) : i < j => i + Len(needle) <= j

(* "Matches can't straddle" the blocks a file is read in, and what the     *)
(* previous chunk counted is not counted again: in what was read of a file *)
(* that grows, each occurrence of a needle is counted, once.               *)
EachIsCountedOnce ==
  ~scan.useGrep =>
    \A n \in Needles, p \in Paths :
      OneByte(n) /\ Apart(seen[p], n) =>
        {m.count : m \in {x \in matches : x.needle = n /\ x.path = p}}
          = {Cardinality(Places(seen[p], n))} \ {0}

(* No needle overlaps the one at i.                                        *)
Plain(bytes, needle, i) ==
  \A n \in Needles : \A j \in Places(bytes, Encode(n)) :
    (n = needle /\ j = i) \/ j + Len(Encode(n)) <= i \/ i + Len(needle) <= j

(* grep prints one of the needles that overlap; in process each is found.  *)
Found(bytes, needle) ==
  /\ OneByte(needle)
  /\ \E i \in Places(bytes, needle) : scan.useGrep => Plain(bytes, needle, i)

(* A label is in a leak of p and of r.                                     *)
Said(l, p, r) ==
  \E k \in leaks :
    k.needle = Needle(scan.keyring[l]) /\ k.path = p /\ k.record = r /\ l \in k.labels

(* Row i, searched, of the session of its id h in the period, has needle.  *)
RowHolds(i, h, needle) ==
  /\ FirstKnown(cells[i].hints, h) /\ cells[i].hints[h] \in scan.inPeriod
  /\ Len(Joined(SubSeq(cells, 1, i))) <= Len(seen[Database])
  /\ Holds(Decode(cells[i].bytes), needle)

(* At the end each label whose needle was in a file of the period is in a  *)
(* leak of that file, and each one found in the database that is in a row  *)
(* of a session of the period, if sqlite gave that row, is in a leak of    *)
(* that session, or the needle is reported as too common; whatever was     *)
(* written, deleted and lost meanwhile.                                    *)
EveryHitIsReported ==
  pc = "done" =>
    \A l \in Usable :
      LET needle == Needle(scan.keyring[l]) IN
      needle \in common \/
         /\ \A f \in Files : Found(seen[f], needle) => Said(l, f, Owner[f])
         /\ Found(seen[Database], needle) =>
              \A i \in rows : \A h \in DOMAIN cells[i].hints :
                RowHolds(i, h, needle) => Said(l, Database, cells[i].hints[h])

(* "Every secret stored in the OS keyring is searched for, verbatim, in    *)
(* every trajectory" (_secrets.py): what was in a file, or a row, that was *)
(* searched is reported.  Not so of needles that overlap, with grep, of    *)
(* characters of several bytes, without, and of rows that are lost.        *)
EverySecretIsReported ==
  pc = "done" =>
    \A l \in Usable :
      LET needle == Needle(scan.keyring[l]) IN
      needle \in common \/
         /\ \A f \in Files : Holds(Decode(seen[f]), needle) => Said(l, f, Owner[f])
         /\ \A i \in DOMAIN cells : \A h \in DOMAIN cells[i].hints :
              RowHolds(i, h, needle) => Said(l, Database, cells[i].hints[h])
=============================================================================
