------------------------- MODULE ParseCache_proofs ---------------------------
(* Proofs about ParseCache, for every set of processes, sessions and layouts. *)
EXTENDS ParseCache, TLAPS

-----------------------------------------------------------------------------
(* The inductive invariant.  What makes a pickle an answer to a call is that *)
(* its version is no older than the one of any call under way that saw its   *)
(* mtime or an older one; and, as a call may begin now, that a pickle with   *)
(* the mtime of now is of the version of now.                                *)

Jobs == [key : Keys, mtime : 0..MaxMtime, since : Versions, parse : Parses,
         part : 1..layout.parts + 1, read : Files]

Types ==
  /\ layout \in Layouts
  /\ version \in [Keys -> Versions] /\ mtime \in [Keys -> 0..MaxMtime]
  /\ revision \in [Procs -> Revisions]
  /\ pc \in [Procs -> Labels] /\ job \in [Procs -> Jobs]
  /\ cache \in [Revisions \X Keys -> Files \cup {Nothing}]

(* The calls under way, as what they saw.                                    *)
UnderWay ==
  {[key |-> job[p].key, mtime |-> job[p].mtime, since |-> job[p].since] :
     p \in {q \in Procs : pc[q] # "idle"}}

Good(x, r, k, v, m, calls) ==
  x # Nothing =>
    /\ x.parse.revision = r /\ x.parse.version <= v[k] /\ x.mtime <= m[k]
    /\ x.mtime = m[k] => v[k] <= x.parse.version
    /\ \A c \in calls : c.key = k /\ c.mtime <= x.mtime => c.since <= x.parse.version

KeptWell(files, v, m, calls) ==
  \A r \in Revisions, k \in Keys :
    files[<<r, k>>] # Nothing =>
      \A i \in Parts : Good(files[<<r, k>>][i], r, k, v, m, calls)

HeldWell(label, j, r, files, v, m, calls) ==
  /\ \A i \in Parts : Good(j.read[i], r, j.key, v, m, calls)
  /\ label \in {"open", "write"} =>
       Good([mtime |-> j.mtime, parse |-> j.parse], r, j.key, v, m, calls)
  /\ label \in {"read", "write"} => files[<<r, j.key>>] # Nothing
  /\ j.since <= v[j.key] /\ j.mtime <= m[j.key]

Kept == KeptWell(cache, version, mtime, UnderWay)
Held == \A p \in Procs : HeldWell(pc[p], job[p], revision[p], cache, version, mtime, UnderWay)
IInv == Types /\ Kept /\ Held

-----------------------------------------------------------------------------
(* Values *)

LEMMA Numbers ==
  /\ Versions \subseteq Nat /\ 0 \in Versions /\ 0..MaxMtime \subseteq Nat /\ 0 \in 0..MaxMtime
BY NumbersAssumption DEF Versions

LEMMA PartsAre ==
  ASSUME layout \in Layouts
  PROVE  /\ layout.running \subseteq Procs /\ layout.parts \in Nat \ {0}
         /\ Parts \subseteq Nat /\ 1 \in Parts /\ layout.parts \in Parts
         /\ Nothing \notin Files
         /\ Truncated \in Files
<1>1. layout.running \subseteq Procs /\ layout.parts \in Nat \ {0}
  BY LayoutsAssumption
<1>2. Parts \subseteq Nat /\ 1 \in Parts /\ layout.parts \in Parts BY <1>1 DEF Parts
<1>3. Nothing \notin Files BY NothingAssumption DEF Files, Parts, Pickles
<1>4. Truncated \in Files BY DEF Truncated, Files
<1>5. QED BY <1>1, <1>2, <1>3, <1>4

LEMMA PickleIsSome == Nothing \notin Pickles BY NothingAssumption DEF Pickles

LEMMA NoJobIsJob ==
  ASSUME layout \in Layouts
  PROVE  NoJob \in Jobs /\ NoJob.key \in Keys /\ NoJob.mtime = 0 /\ NoJob.since = 0
         /\ NoJob.read = Truncated /\ NoJob.part = 1
<1>1. (CHOOSE k \in Keys : TRUE) \in Keys BY KeysAssumption
<1>2. (CHOOSE r \in Revisions : TRUE) \in Revisions BY RevisionsAssumption
<1>3. NoParse \in Parses BY <1>2, Numbers DEF NoParse, Parses
<1>4. 1 \in 1..layout.parts + 1 BY PartsAre
<1>5. QED BY <1>1, <1>3, <1>4, Numbers, PartsAre DEF NoJob, Jobs

(* What a process has of its call.                                           *)
LEMMA CallFacts ==
  ASSUME Types, NEW p \in Procs
  PROVE  /\ job[p] \in Jobs /\ pc[p] \in Labels /\ revision[p] \in Revisions
         /\ job[p].key \in Keys /\ job[p].mtime \in 0..MaxMtime /\ job[p].since \in Versions
         /\ job[p].parse \in Parses /\ job[p].part \in 1..layout.parts + 1
         /\ job[p].read \in Files /\ CachePath(p) \in Revisions \X Keys
         /\ CachePath(p) = <<revision[p], job[p].key>>
         /\ Pickle(p) \in Pickles /\ layout \in Layouts
BY DEF Types, Jobs, CachePath, Pickle, Pickles

-----------------------------------------------------------------------------
(* Fewer calls under way ask less of a pickle.                               *)

LEMMA GoodForLess ==
  ASSUME NEW x, NEW r, NEW k, NEW v, NEW m, NEW C, NEW D, D \subseteq C,
         Good(x, r, k, v, m, C)
  PROVE  Good(x, r, k, v, m, D)
BY DEF Good

LEMMA KeptForLess ==
  ASSUME NEW files, NEW v, NEW m, NEW C, NEW D, D \subseteq C, KeptWell(files, v, m, C)
  PROVE  KeptWell(files, v, m, D)
BY GoodForLess DEF KeptWell

LEMMA HeldForLess ==
  ASSUME NEW label, NEW j, NEW r, NEW files, NEW v, NEW m, NEW C, NEW D, D \subseteq C,
         HeldWell(label, j, r, files, v, m, C)
  PROVE  HeldWell(label, j, r, files, v, m, D)
BY GoodForLess DEF HeldWell

(* A call goes on, or returns.                                               *)
LEMMA MoveTypes ==
  ASSUME IInv, NEW p \in Procs, NEW label \in Labels, NEW j \in Jobs,
         Goto(p, label), job' = [job EXCEPT ![p] = j],
         UNCHANGED <<session, revision>>,
                  cache' \in [Revisions \X Keys -> Files \cup {Nothing}]
  PROVE  Types'
<1>1. layout' = layout /\ version' = version /\ mtime' = mtime BY DEF session
<1>2. Parts' = Parts BY <1>1 DEF Parts
<1>3. Files' = Files /\ Jobs' = Jobs BY <1>1, <1>2 DEF Files, Jobs
<1>4. pc' \in [Procs -> Labels] BY DEF IInv, Types, Goto
<1>5. job' \in [Procs -> Jobs] BY DEF IInv, Types
<1>6. QED BY <1>1, <1>3, <1>4, <1>5 DEF IInv, Types

LEMMA MoveUnderWay ==
  ASSUME IInv, NEW p \in Procs, NEW label, NEW j,
         Goto(p, label), job' = [job EXCEPT ![p] = j],
         label # "idle" =>
           pc[p] # "idle" /\ j.key = job[p].key /\ j.mtime = job[p].mtime
           /\ j.since = job[p].since
  PROVE  UnderWay' \subseteq UnderWay
<1>1. ASSUME NEW q \in Procs, pc'[q] # "idle"
      PROVE  /\ pc[q] # "idle" /\ job'[q].key = job[q].key
             /\ job'[q].mtime = job[q].mtime /\ job'[q].since = job[q].since
  <2>1. CASE q = p BY <1>1, <2>1 DEF IInv, Types, Goto
  <2>2. CASE q # p BY <1>1, <2>2 DEF IInv, Types, Goto
  <2>3. QED BY <2>1, <2>2
<1>2. QED BY <1>1 DEF UnderWay

LEMMA MoveHeld ==
  ASSUME IInv, NEW p \in Procs, NEW label, NEW j,
         Goto(p, label), job' = [job EXCEPT ![p] = j], UNCHANGED <<session, revision>>,
         UnderWay' \subseteq UnderWay,
         \A c \in Revisions \X Keys : cache[c] # Nothing => cache'[c] # Nothing,
         HeldWell(label, j, revision[p], cache', version, mtime, UnderWay)
  PROVE  Held'
<1>1. Parts' = Parts BY DEF Parts, session
<1>2. ASSUME NEW q \in Procs
      PROVE  HeldWell(pc'[q], job'[q], revision[q], cache', version, mtime, UnderWay)
  <2>1. CASE q = p
    <3>1. pc'[q] = label /\ job'[q] = j BY <2>1 DEF IInv, Types, Goto
    <3>2. QED BY <2>1, <3>1
  <2>2. CASE q # p
    <3>1. pc'[q] = pc[q] /\ job'[q] = job[q] BY <2>2 DEF IInv, Types, Goto
    <3>2. HeldWell(pc[q], job[q], revision[q], cache, version, mtime, UnderWay)
      BY DEF IInv, Held
    <3>3. <<revision[q], job[q].key>> \in Revisions \X Keys BY CallFacts DEF IInv
    <3>4. QED BY <3>1, <3>2, <3>3 DEF HeldWell
  <2>3. QED BY <2>1, <2>2
<1>3. ASSUME NEW q \in Procs
      PROVE  HeldWell(pc'[q], job'[q], revision[q], cache', version, mtime, UnderWay')
  BY <1>2, HeldForLess
<1>4. revision' = revision /\ version' = version /\ mtime' = mtime BY DEF session
<1>5. ASSUME NEW q \in Procs
      PROVE  HeldWell(pc[q], job[q], revision[q], cache, version, mtime, UnderWay)'
  <2>1. HeldWell(pc'[q], job'[q], revision'[q], cache', version', mtime', UnderWay')
    BY <1>3, <1>4
  <2>2. QED BY <1>1, <2>1 DEF HeldWell, Good
<1>6. QED BY <1>5 DEF Held

(* A call that goes on with what it holds, over a cache that stays.          *)
LEMMA PassInv ==
  ASSUME IInv, NEW p \in Procs, NEW label \in Labels \ {"idle"}, NEW j \in Jobs,
         pc[p] # "idle", Goto(p, label), job' = [job EXCEPT ![p] = j],
         j.key = job[p].key, j.mtime = job[p].mtime, j.since = job[p].since,
         UNCHANGED <<session, revision, cache>>,
         HeldWell(label, j, revision[p], cache, version, mtime, UnderWay)
  PROVE  IInv'
<1>1. UnderWay' \subseteq UnderWay BY MoveUnderWay
<1>2. Types' BY MoveTypes DEF IInv, Types
<1>3. Held' BY <1>1, MoveHeld
<1>4. Kept'
  <2>1. Parts' = Parts /\ version' = version /\ mtime' = mtime BY DEF Parts, session
  <2>2. KeptWell(cache, version, mtime, UnderWay') BY <1>1, KeptForLess DEF IInv, Kept
  <2>3. QED BY <2>1, <2>2 DEF Kept, KeptWell, Good
<1>5. QED BY <1>2, <1>3, <1>4 DEF IInv

LEMMA HeldFacts ==
  ASSUME IInv, NEW p \in Procs
  PROVE  HeldWell(pc[p], job[p], revision[p], cache, version, mtime, UnderWay)
BY DEF IInv, Held

LEMMA InitInv == Init => IInv
<1> SUFFICES ASSUME Init PROVE IInv
  OBVIOUS
<1>1. layout \in Layouts BY DEF Init
<1>2. Types
  <2>1. version \in [Keys -> Versions] /\ mtime \in [Keys -> 0..MaxMtime]
    BY Numbers DEF Init
  <2>2. job \in [Procs -> Jobs] BY <1>1, NoJobIsJob DEF Init
  <2>3. revision \in [Procs -> Revisions] BY <1>1, LayoutsAssumption DEF Init
  <2>4. QED BY <1>1, <2>1, <2>2, <2>3 DEF Init, Types, Labels
<1>3. Kept BY DEF Init, Kept, KeptWell
<1>4. Held
  <2>1. ASSUME NEW p \in Procs
        PROVE  HeldWell("idle", NoJob, revision[p], cache, version, mtime, UnderWay)
    <3>1. \A i \in Parts : NoJob.read[i] = Nothing BY <1>1, NoJobIsJob DEF Truncated
    <3>2. NoJob.since = version[NoJob.key] /\ NoJob.mtime = mtime[NoJob.key]
      BY <1>1, NoJobIsJob DEF Init
    <3>3. version[NoJob.key] \in Nat /\ mtime[NoJob.key] \in Nat
      BY <1>1, <1>2, NoJobIsJob, Numbers DEF Types
    <3>4. QED BY <3>1, <3>2, <3>3 DEF HeldWell, Good
  <2>2. QED BY <2>1 DEF Init, Held
<1>5. QED BY <1>2, <1>3, <1>4 DEF IInv

(* A call that is over holds nothing.                                        *)
LEMMA NoJobHeld ==
  ASSUME IInv, NEW r, NEW files
  PROVE  HeldWell("idle", NoJob, r, files, version, mtime, UnderWay)
<1>1. layout \in Layouts BY DEF IInv, Types
<1>2. \A i \in Parts : NoJob.read[i] = Nothing BY <1>1, NoJobIsJob DEF Truncated
<1>3. version[NoJob.key] \in Nat /\ mtime[NoJob.key] \in Nat
  BY <1>1, NoJobIsJob, Numbers DEF IInv, Types
<1>4. NoJob.since <= version[NoJob.key] /\ NoJob.mtime <= mtime[NoJob.key]
  BY <1>1, <1>3, NoJobIsJob
<1>5. QED BY <1>2, <1>4 DEF HeldWell, Good

(* A return, and what the cache has become by it.                            *)
LEMMA ReturnInv ==
  ASSUME IInv, NEW p \in Procs, NEW parse, Return(p, parse), UNCHANGED <<session, revision>>,
         cache' \in [Revisions \X Keys -> Files \cup {Nothing}],
         KeptWell(cache', version, mtime, UnderWay),
         \A c \in Revisions \X Keys : cache[c] # Nothing => cache'[c] # Nothing
  PROVE  IInv'
<1>1. layout \in Layouts /\ "idle" \in Labels BY DEF IInv, Types, Labels
<1>2. Goto(p, "idle") /\ job' = [job EXCEPT ![p] = NoJob] BY DEF Return
<1>3. UnderWay' \subseteq UnderWay BY <1>2, MoveUnderWay
<1>4. Types' BY <1>1, <1>2, NoJobIsJob, MoveTypes
<1>5. HeldWell("idle", NoJob, revision[p], cache', version, mtime, UnderWay) BY NoJobHeld
<1>6. Held' BY <1>2, <1>3, <1>5, MoveHeld
<1>7. Kept'
  <2>1. Parts' = Parts /\ version' = version /\ mtime' = mtime BY DEF Parts, session
  <2>2. KeptWell(cache', version, mtime, UnderWay') BY <1>3, KeptForLess
  <2>3. QED BY <2>1, <2>2 DEF Kept, KeptWell, Good
<1>8. QED BY <1>4, <1>6, <1>7 DEF IInv

-----------------------------------------------------------------------------
(* One lemma for each action *)

(* A call begins.  It saw the mtime of now: any pickle with that one is of   *)
(* the version of now.                                                       *)
LEMMA ParseRecordInv ==
  ASSUME IInv, NEW p \in Procs, NEW k \in Keys, ParseRecord(p, k)
  PROVE  IInv'
<1> DEFINE j == [NoJob EXCEPT !.key = k, !.mtime = mtime[k], !.since = version[k]]
           call == [key |-> k, mtime |-> mtime[k], since |-> version[k]]
<1>1. layout \in Layouts /\ Parts' = Parts /\ "look" \in Labels
  BY DEF IInv, Types, ParseRecord, session, Parts, Labels
<1>2. j.key = k /\ j.mtime = mtime[k] /\ j.since = version[k] /\ j.read = Truncated
  BY <1>1, NoJobIsJob DEF NoJob
<1>3. j \in Jobs
  <2>1. NoJob \in Jobs /\ mtime[k] \in 0..MaxMtime /\ version[k] \in Versions
    BY <1>1, NoJobIsJob DEF IInv, Types
  <2>2. QED BY <2>1 DEF Jobs
<1>4. job' = [job EXCEPT ![p] = j] BY DEF ParseRecord
<1> HIDE DEF j
<1>5. Types'
  <2>1. Files' = Files /\ Jobs' = Jobs BY <1>1 DEF Files, Jobs, ParseRecord, session
  <2>2. job' \in [Procs -> Jobs] BY <1>3, <1>4 DEF IInv, Types
  <2>3. pc' \in [Procs -> Labels] BY <1>1 DEF IInv, Types, ParseRecord, Goto
  <2>4. QED BY <2>1, <2>2, <2>3 DEF IInv, Types, ParseRecord, session
<1>7. UnderWay' \subseteq UnderWay \cup {call}
  <2>1. ASSUME NEW q \in Procs, pc'[q] # "idle"
        PROVE  [key |-> job'[q].key, mtime |-> job'[q].mtime, since |-> job'[q].since]
                 \in UnderWay \cup {call}
    <3>1. CASE q = p
      <4>1. job'[q] = j BY <1>4, <3>1 DEF IInv, Types
      <4>2. QED BY <1>2, <4>1
    <3>2. CASE q # p
      <4>1. job'[q] = job[q] /\ pc[q] # "idle"
        BY <1>4, <2>1, <3>2 DEF IInv, Types, ParseRecord, Goto
      <4>2. QED BY <4>1 DEF UnderWay
    <3>3. QED BY <3>1, <3>2
  <2>2. QED BY <2>1 DEF UnderWay
<1>8. ASSUME NEW x \in Pickles \cup {Nothing}, NEW r, NEW l \in Keys,
             Good(x, r, l, version, mtime, UnderWay)
      PROVE  Good(x, r, l, version, mtime, UnderWay')
  <2>1. Good(x, r, l, version, mtime, UnderWay \cup {call})
    <3> SUFFICES ASSUME x # Nothing
        PROVE  Good(x, r, l, version, mtime, UnderWay \cup {call})
      BY DEF Good
    <3>1. x.mtime \in Nat /\ mtime[k] \in Nat BY Numbers DEF IInv, Types, Pickles
    <3>2. mtime[k] <= x.mtime /\ l = k => version[k] <= x.parse.version
      BY <1>8, <3>1 DEF Good
    <3>3. ASSUME NEW c \in UnderWay \cup {call}, c.key = l, c.mtime <= x.mtime
          PROVE  c.since <= x.parse.version
      <4>1. CASE c \in UnderWay BY <1>8, <3>3, <4>1 DEF Good
      <4>2. CASE c = call BY <3>2, <3>3, <4>2
      <4>3. QED BY <3>3, <4>1, <4>2
    <3>4. QED BY <1>8, <3>3 DEF Good
  <2> HIDE DEF call
  <2>2. QED BY <1>7, <2>1, GoodForLess
<1>9. version' = version /\ mtime' = mtime /\ cache' = cache /\ revision' = revision
  BY DEF ParseRecord, session
<1>10. Kept'
    <2>1. ASSUME NEW r \in Revisions, NEW l \in Keys, cache[<<r, l>>] # Nothing, NEW i \in Parts
        PROVE  Good(cache[<<r, l>>][i], r, l, version, mtime, UnderWay')
    <3>1. cache[<<r, l>>] \in Files BY <2>1 DEF IInv, Types
    <3>2. cache[<<r, l>>][i] \in Pickles \cup {Nothing} BY <3>1 DEF Files
    <3>3. Good(cache[<<r, l>>][i], r, l, version, mtime, UnderWay)
      BY <2>1 DEF IInv, Kept, KeptWell
    <3>4. QED BY <1>8, <3>2, <3>3
  <2>2. KeptWell(cache, version, mtime, UnderWay') BY <2>1 DEF KeptWell
  <2>3. QED BY <1>1, <1>9, <2>2 DEF Kept, KeptWell, Good
<1>11. Held'
  <2>1. ASSUME NEW q \in Procs
        PROVE  HeldWell(pc'[q], job'[q], revision[q], cache, version, mtime, UnderWay')
    <3>1. CASE q = p
      <4>1. pc'[q] = "look" /\ job'[q] = j
        BY <1>4, <3>1 DEF IInv, Types, ParseRecord, Goto
      <4>2. \A i \in Parts : j.read[i] = Nothing BY <1>2 DEF Truncated
      <4>3. version[k] \in Nat /\ mtime[k] \in Nat BY Numbers DEF IInv, Types
      <4>4. QED BY <1>2, <4>1, <4>2, <4>3 DEF HeldWell, Good
    <3>2. CASE q # p
      <4>1. pc'[q] = pc[q] /\ job'[q] = job[q]
        BY <1>4, <3>2 DEF IInv, Types, ParseRecord, Goto
            <4>2. job[q].key \in Keys BY CallFacts DEF IInv
      <4>3. ASSUME NEW i \in Parts
            PROVE  Good(job[q].read[i], revision[q], job[q].key, version, mtime, UnderWay')
        <5>1. job[q].read[i] \in Pickles \cup {Nothing} BY CallFacts DEF IInv, Files
        <5>2. Good(job[q].read[i], revision[q], job[q].key, version, mtime, UnderWay)
          BY HeldFacts DEF HeldWell
        <5>3. QED BY <1>8, <4>2, <5>1, <5>2
      <4>4. ASSUME pc[q] \in {"open", "write"}
            PROVE  Good([mtime |-> job[q].mtime, parse |-> job[q].parse], revision[q],
                        job[q].key, version, mtime, UnderWay')
        <5>1. [mtime |-> job[q].mtime, parse |-> job[q].parse] \in Pickles
          BY CallFacts DEF IInv, Pickles
        <5>2. Good([mtime |-> job[q].mtime, parse |-> job[q].parse], revision[q],
                   job[q].key, version, mtime, UnderWay)
          BY <4>4, HeldFacts DEF HeldWell
        <5>3. QED BY <1>8, <4>2, <5>1, <5>2
      <4>5. QED BY <4>1, <4>3, <4>4, HeldFacts DEF HeldWell
    <3>3. QED BY <3>1, <3>2
  <2>2. QED BY <1>1, <1>9, <2>1 DEF Held, HeldWell, Good
<1>12. QED BY <1>5, <1>10, <1>11 DEF IInv

LEMMA LookInv ==
  ASSUME IInv, NEW p \in Procs, Look(p)
  PROVE  IInv'
<1> DEFINE label == IF cache[CachePath(p)] = Nothing THEN "parse" ELSE "read"
<1>1. label \in Labels \ {"idle"} /\ pc[p] # "idle" BY DEF Look, Labels
<1>2. job' = [job EXCEPT ![p] = job[p]] BY DEF IInv, Types, Look
<1>3. HeldWell(label, job[p], revision[p], cache, version, mtime, UnderWay)
  BY HeldFacts, CallFacts DEF HeldWell, IInv
<1>4. Goto(p, label) BY DEF Look
<1> HIDE DEF label
<1>5. QED BY <1>1, <1>2, <1>3, <1>4, CallFacts, PassInv DEF Look, IInv

LEMMA ReadPartInv ==
  ASSUME IInv, NEW p \in Procs, ReadPart(p)
  PROVE  IInv'
<1> DEFINE n == job[p].part
           x == cache[CachePath(p)][n]
           read == [job[p].read EXCEPT ![n] = x]
           j == [job[p] EXCEPT !.read = read, !.part = n + 1]
<1>1. pc[p] = "read" /\ n \in Parts /\ job' = [job EXCEPT ![p] = j] /\ UNCHANGED pc
  BY DEF ReadPart
<1>2. cache[CachePath(p)] \in Files
  BY <1>1, HeldFacts, CallFacts DEF IInv, Types, HeldWell
<1>3. x \in Pickles \cup {Nothing} BY <1>1, <1>2 DEF Files
<1>4. Good(x, revision[p], job[p].key, version, mtime, UnderWay)
  BY <1>1, <1>2, HeldFacts, CallFacts DEF IInv, Kept, KeptWell, HeldWell
<1>5. job[p].read \in Files BY CallFacts DEF IInv
<1> HIDE DEF x
<1>6. read \in Files BY <1>3, <1>5 DEF Files
<1>7. \A i \in Parts : read[i] = IF i = n THEN x ELSE job[p].read[i]
  BY <1>5 DEF Files
<1> HIDE DEF read
<1>8. n + 1 \in 1..layout.parts + 1
  BY <1>1, CallFacts, PartsAre DEF Parts, IInv
<1>9. j.read = read /\ j.key = job[p].key /\ j.mtime = job[p].mtime
      /\ j.since = job[p].since /\ j.parse = job[p].parse
  BY CallFacts DEF Jobs, IInv
<1>10. j \in Jobs BY <1>6, <1>8, CallFacts DEF Jobs, IInv
<1> HIDE DEF j
<1>11. HeldWell("read", j, revision[p], cache, version, mtime, UnderWay)
  BY <1>1, <1>4, <1>7, <1>9, HeldFacts DEF HeldWell
<1>12. Goto(p, "read") /\ "read" \in Labels \ {"idle"}
  BY <1>1 DEF IInv, Types, Goto, Labels
<1>13. QED BY <1>1, <1>9, <1>10, <1>11, <1>12, PassInv DEF ReadPart

LEMMA LoadInv ==
  ASSUME IInv, NEW p \in Procs, Load(p)
  PROVE  IInv'
<1>1. ASSUME NEW parse, Return(p, parse) PROVE IInv'
  BY <1>1, ReturnInv DEF Load, IInv, Types, Kept
<1>2. CASE Goto(p, "parse") /\ UNCHANGED job
  <2>1. job' = [job EXCEPT ![p] = job[p]] BY <1>2 DEF IInv, Types
  <2>2. HeldWell("parse", job[p], revision[p], cache, version, mtime, UnderWay)
    BY HeldFacts DEF HeldWell
  <2>3. "parse" \in Labels \ {"idle"} /\ pc[p] # "idle" BY DEF Labels, Load
  <2>4. QED BY <1>2, <2>1, <2>2, <2>3, CallFacts, PassInv DEF Load, IInv
<1>3. QED BY <1>1, <1>2 DEF Load

(* No call under way began with a version the session has not had.           *)
LEMMA CallsArePast ==
  ASSUME IInv, NEW c \in UnderWay
  PROVE  c.key \in Keys /\ c.since <= version[c.key]
<1>1. PICK q \in Procs :
        c = [key |-> job[q].key, mtime |-> job[q].mtime, since |-> job[q].since]
  BY DEF UnderWay
<1>2. QED BY <1>1, HeldFacts, CallFacts DEF HeldWell, IInv

LEMMA ParseInv ==
  ASSUME IInv, NEW p \in Procs, Parse(p)
  PROVE  IInv'
<1> DEFINE k == job[p].key
           parse == [revision |-> revision[p], version |-> version[k]]
           j == [job[p] EXCEPT !.parse = parse]
<1>1. k \in Keys /\ version[k] \in Versions /\ version[k] \in Nat /\ revision[p] \in Revisions
  BY CallFacts, Numbers DEF IInv, Types
<1>2. parse \in Parses BY <1>1 DEF Parses
<1>3. j \in Jobs /\ j.parse = parse /\ j.key = k /\ j.mtime = job[p].mtime
      /\ j.since = job[p].since /\ j.read = job[p].read
  BY <1>2, CallFacts DEF Jobs, IInv
<1>4. job' = [job EXCEPT ![p] = j] BY DEF Parse
<1>5. Good([mtime |-> j.mtime, parse |-> parse], revision[p], k, version, mtime, UnderWay)
  <2>1. job[p].mtime <= mtime[k] BY HeldFacts DEF HeldWell
  <2>2. \A c \in UnderWay : c.key = k => c.since <= version[k] BY CallsArePast
  <2>3. QED BY <1>1, <1>3, <2>1, <2>2 DEF Good
<1> HIDE DEF j, parse
<1>6. HeldWell("open", j, revision[p], cache, version, mtime, UnderWay)
  BY <1>3, <1>5, HeldFacts DEF HeldWell
<1>7. "open" \in Labels \ {"idle"} /\ pc[p] # "idle" /\ Goto(p, "open") BY DEF Labels, Parse
<1>8. QED BY <1>3, <1>4, <1>6, <1>7, PassInv DEF Parse

(* The file of a path becomes another one, with nothing bad in it.           *)
LEMMA WriteKept ==
  ASSUME IInv, NEW p \in Procs, NEW f \in Files, cache' = [cache EXCEPT ![CachePath(p)] = f],
         \A i \in Parts : Good(f[i], revision[p], job[p].key, version, mtime, UnderWay)
  PROVE  /\ cache' \in [Revisions \X Keys -> Files \cup {Nothing}]
         /\ KeptWell(cache', version, mtime, UnderWay)
         /\ \A c \in Revisions \X Keys : cache[c] # Nothing => cache'[c] # Nothing
         /\ cache'[CachePath(p)] = f /\ f # Nothing
<1>1. cache \in [Revisions \X Keys -> Files \cup {Nothing}] /\ CachePath(p) \in Revisions \X Keys
  BY CallFacts DEF IInv, Types
<1>2. f # Nothing BY PartsAre, CallFacts DEF IInv
<1>3. \A c \in Revisions \X Keys : cache'[c] = IF c = CachePath(p) THEN f ELSE cache[c]
  BY <1>1
<1>4. cache' \in [Revisions \X Keys -> Files \cup {Nothing}] BY <1>1
<1>5. KeptWell(cache', version, mtime, UnderWay)
  <2>1. ASSUME NEW r \in Revisions, NEW k \in Keys, cache'[<<r, k>>] # Nothing,
               NEW i \in Parts
        PROVE  Good(cache'[<<r, k>>][i], r, k, version, mtime, UnderWay)
    <3>1. CASE <<r, k>> = CachePath(p)
      <4>1. r = revision[p] /\ k = job[p].key BY <3>1 DEF CachePath
      <4>2. cache'[<<r, k>>] = f BY <1>3, <3>1
      <4>3. QED BY <4>1, <4>2
    <3>2. CASE <<r, k>> # CachePath(p)
      <4>1. cache'[<<r, k>>] = cache[<<r, k>>] BY <1>3, <3>2
      <4>2. QED BY <2>1, <4>1 DEF IInv, Kept, KeptWell
    <3>3. QED BY <3>1, <3>2
  <2>2. QED BY <2>1 DEF KeptWell
<1>6. QED BY <1>1, <1>2, <1>3, <1>4, <1>5

(* A call that goes on and writes.                                           *)
LEMMA WriteInv ==
  ASSUME IInv, NEW p \in Procs, NEW f \in Files, NEW j \in Jobs,
         pc[p] \in {"open", "write"}, Goto(p, "write"), job' = [job EXCEPT ![p] = j],
         j.key = job[p].key, j.mtime = job[p].mtime, j.since = job[p].since,
         j.parse = job[p].parse, j.read = job[p].read,
         UNCHANGED <<session, revision>>, cache' = [cache EXCEPT ![CachePath(p)] = f],
         \A i \in Parts : Good(f[i], revision[p], job[p].key, version, mtime, UnderWay)
  PROVE  IInv'
<1>1. /\ cache' \in [Revisions \X Keys -> Files \cup {Nothing}]
      /\ KeptWell(cache', version, mtime, UnderWay)
      /\ \A c \in Revisions \X Keys : cache[c] # Nothing => cache'[c] # Nothing
      /\ cache'[CachePath(p)] = f /\ f # Nothing
  BY WriteKept
<1>2. UnderWay' \subseteq UnderWay BY MoveUnderWay
<1>3. "write" \in Labels BY DEF Labels
<1>4. Types' BY <1>1, <1>3, MoveTypes
<1>5. HeldWell("write", j, revision[p], cache', version, mtime, UnderWay)
  BY <1>1, HeldFacts DEF HeldWell, CachePath
<1>6. Held' BY <1>1, <1>2, <1>5, MoveHeld
<1>7. Kept'
  <2>1. Parts' = Parts /\ version' = version /\ mtime' = mtime BY DEF Parts, session
  <2>2. KeptWell(cache', version, mtime, UnderWay') BY <1>1, <1>2, KeptForLess
  <2>3. QED BY <2>1, <2>2 DEF Kept, KeptWell, Good
<1>8. QED BY <1>4, <1>6, <1>7 DEF IInv

LEMMA OpenInv ==
  ASSUME IInv, NEW p \in Procs, Open(p)
  PROVE  IInv'
<1> DEFINE j == [job[p] EXCEPT !.part = 1]
<1>1. 1 \in 1..layout.parts + 1 /\ Truncated \in Files
  BY PartsAre, CallFacts DEF IInv
<1>2. j \in Jobs /\ j.key = job[p].key /\ j.mtime = job[p].mtime
      /\ j.since = job[p].since /\ j.parse = job[p].parse /\ j.read = job[p].read
  BY <1>1, CallFacts DEF Jobs, IInv
<1>3. job' = [job EXCEPT ![p] = j] BY DEF Open
<1> HIDE DEF j
<1>4. \A i \in Parts : Good(Truncated[i], revision[p], job[p].key, version, mtime, UnderWay)
  BY DEF Truncated, Good
<1>5. QED BY <1>1, <1>2, <1>3, <1>4, WriteInv DEF Open

LEMMA WritePartInv ==
  ASSUME IInv, NEW p \in Procs, WritePart(p)
  PROVE  IInv'
<1> DEFINE n == job[p].part
           old == cache[CachePath(p)]
           f == [old EXCEPT ![n] = Pickle(p)]
<1>1. pc[p] = "write" /\ cache' = [cache EXCEPT ![CachePath(p)] = f] BY DEF WritePart
<1>2. old \in Files /\ old # Nothing
  BY <1>1, HeldFacts, CallFacts DEF IInv, Types, HeldWell
<1>3. f \in Files BY <1>2, CallFacts DEF Files, IInv
<1>4. \A i \in Parts : Good(f[i], revision[p], job[p].key, version, mtime, UnderWay)
  <2>1. Good(Pickle(p), revision[p], job[p].key, version, mtime, UnderWay)
    BY <1>1, HeldFacts DEF HeldWell, Pickle
  <2>2. \A i \in Parts : Good(old[i], revision[p], job[p].key, version, mtime, UnderWay)
    BY <1>2, CallFacts DEF IInv, Kept, KeptWell
  <2>3. \A i \in Parts : f[i] = IF i = n THEN Pickle(p) ELSE old[i] BY <1>2 DEF Files
  <2> HIDE DEF f
  <2>4. QED BY <2>1, <2>2, <2>3
<1> HIDE DEF f
<1>5. CASE Return(p, job[p].parse)
  <2>1. /\ cache' \in [Revisions \X Keys -> Files \cup {Nothing}]
        /\ KeptWell(cache', version, mtime, UnderWay)
        /\ \A c \in Revisions \X Keys : cache[c] # Nothing => cache'[c] # Nothing
    BY <1>1, <1>3, <1>4, WriteKept
  <2>2. QED BY <1>5, <2>1, ReturnInv DEF WritePart
<1>6. CASE n < layout.parts /\ job' = [job EXCEPT ![p] = [job[p] EXCEPT !.part = n + 1]]
           /\ UNCHANGED pc
  <2> DEFINE j == [job[p] EXCEPT !.part = n + 1]
  <2>1. n + 1 \in 1..layout.parts + 1 BY <1>6, CallFacts, PartsAre DEF IInv
  <2>2. j \in Jobs /\ j.key = job[p].key /\ j.mtime = job[p].mtime
        /\ j.since = job[p].since /\ j.parse = job[p].parse /\ j.read = job[p].read
    BY <2>1, CallFacts DEF Jobs, IInv
  <2>3. job' = [job EXCEPT ![p] = j] BY <1>6
  <2> HIDE DEF j
  <2>4. Goto(p, "write") BY <1>1, <1>6 DEF IInv, Types, Goto
  <2>5. QED BY <1>1, <1>3, <1>4, <2>2, <2>3, <2>4, WriteInv DEF WritePart
<1>7. QED BY <1>5, <1>6 DEF WritePart

LEMMA WriteFailsInv ==
  ASSUME IInv, NEW p \in Procs, WriteFails(p)
  PROVE  IInv'
BY ReturnInv DEF WriteFails, IInv, Types, Kept

(* A session grows, or only its mtime moves: then nothing that is kept has   *)
(* the mtime of now.                                                         *)
Newer(v2, m2) ==
  \A k \in Keys :
    \/ v2[k] = version[k] /\ m2[k] = mtime[k]
    \/ version[k] <= v2[k] /\ mtime[k] < m2[k]

LEMMA NewerGood ==
  ASSUME IInv, NEW v2 \in [Keys -> Versions], NEW m2 \in [Keys -> 0..MaxMtime], Newer(v2, m2),
         NEW x \in Pickles \cup {Nothing}, NEW r, NEW k \in Keys,
         Good(x, r, k, version, mtime, UnderWay)
  PROVE  Good(x, r, k, v2, m2, UnderWay)
<1> SUFFICES ASSUME x # Nothing PROVE Good(x, r, k, v2, m2, UnderWay)
  BY DEF Good
<1>1. x.mtime \in Nat /\ x.parse.version \in Nat BY Numbers DEF Pickles, Parses
<1>2. version[k] \in Nat /\ mtime[k] \in Nat /\ v2[k] \in Nat /\ m2[k] \in Nat
  BY Numbers DEF IInv, Types
<1>3. QED BY <1>1, <1>2 DEF Newer, Good

LEMMA NewerInv ==
  ASSUME IInv, version' \in [Keys -> Versions], mtime' \in [Keys -> 0..MaxMtime],
         Newer(version', mtime'), UNCHANGED <<layout, revision, cache, pc, job>>
  PROVE  IInv'
<1>1. Parts' = Parts /\ Files' = Files /\ Jobs' = Jobs /\ UnderWay' = UnderWay
  BY DEF Parts, Files, Jobs, UnderWay
<1>2. Types' BY <1>1 DEF IInv, Types
<1>3. Kept'
  <2>1. ASSUME NEW r \in Revisions, NEW k \in Keys, cache[<<r, k>>] # Nothing,
               NEW i \in Parts
        PROVE  Good(cache[<<r, k>>][i], r, k, version', mtime', UnderWay)
    <3>1. cache[<<r, k>>] \in Files BY <2>1 DEF IInv, Types
    <3>2. cache[<<r, k>>][i] \in Pickles \cup {Nothing} BY <3>1 DEF Files
    <3>3. Good(cache[<<r, k>>][i], r, k, version, mtime, UnderWay)
      BY <2>1 DEF IInv, Kept, KeptWell
    <3>4. QED BY <3>2, <3>3, NewerGood
  <2>2. QED BY <1>1, <2>1 DEF Kept, KeptWell
<1>4. Held'
  <2>1. ASSUME NEW p \in Procs
        PROVE  HeldWell(pc[p], job[p], revision[p], cache, version', mtime', UnderWay)
    <3>1. job[p].key \in Keys /\ job[p].since \in Nat /\ job[p].mtime \in Nat
      BY CallFacts, Numbers DEF IInv
    <3>2. ASSUME NEW i \in Parts
          PROVE  Good(job[p].read[i], revision[p], job[p].key, version', mtime', UnderWay)
      <4>1. job[p].read[i] \in Pickles \cup {Nothing} BY CallFacts DEF IInv, Files
      <4>2. Good(job[p].read[i], revision[p], job[p].key, version, mtime, UnderWay)
        BY HeldFacts DEF HeldWell
      <4>3. QED BY <3>1, <4>1, <4>2, NewerGood
    <3>3. ASSUME pc[p] \in {"open", "write"}
          PROVE  Good([mtime |-> job[p].mtime, parse |-> job[p].parse], revision[p],
                      job[p].key, version', mtime', UnderWay)
      <4>1. [mtime |-> job[p].mtime, parse |-> job[p].parse] \in Pickles
        BY CallFacts DEF IInv, Pickles
      <4>2. Good([mtime |-> job[p].mtime, parse |-> job[p].parse], revision[p],
                 job[p].key, version, mtime, UnderWay)
        BY <3>3, HeldFacts DEF HeldWell
      <4>3. QED BY <3>1, <4>1, <4>2, NewerGood
    <3>4. job[p].since <= version'[job[p].key] /\ job[p].mtime <= mtime'[job[p].key]
      <4>1. job[p].since <= version[job[p].key] /\ job[p].mtime <= mtime[job[p].key]
        BY HeldFacts DEF HeldWell
      <4>2. version[job[p].key] \in Nat /\ mtime[job[p].key] \in Nat
            /\ version'[job[p].key] \in Nat /\ mtime'[job[p].key] \in Nat
        BY <3>1, Numbers DEF IInv, Types
      <4>3. QED BY <3>1, <4>1, <4>2 DEF Newer
    <3>5. QED BY <3>2, <3>3, <3>4, HeldFacts DEF HeldWell
  <2>2. QED BY <1>1, <2>1 DEF Held, HeldWell
<1>5. QED BY <1>2, <1>3, <1>4 DEF IInv

LEMMA GrowInv ==
  ASSUME IInv, NEW k \in Keys, Grow(k)
  PROVE  IInv'
<1>1. version[k] \in Nat /\ mtime[k] \in Nat BY Numbers DEF IInv, Types
<1>2. version[k] + 1 \in Versions /\ mtime[k] + 1 \in 0..MaxMtime
  BY <1>1, NumbersAssumption DEF Grow, Versions
<1>3. version' = [version EXCEPT ![k] = version[k] + 1]
      /\ mtime' = [mtime EXCEPT ![k] = mtime[k] + 1]
  BY DEF Grow
<1>4. version' \in [Keys -> Versions] /\ mtime' \in [Keys -> 0..MaxMtime]
  BY <1>2, <1>3 DEF IInv, Types
<1>5. Newer(version', mtime') BY <1>1, <1>3 DEF Newer, IInv, Types
<1>6. QED BY <1>4, <1>5, NewerInv DEF Grow

LEMMA TouchInv ==
  ASSUME IInv, NEW k \in Keys, Touch(k)
  PROVE  IInv'
<1>1. version[k] \in Nat /\ mtime[k] \in Nat BY Numbers DEF IInv, Types
<1>2. mtime[k] + 1 \in 0..MaxMtime BY <1>1, NumbersAssumption DEF Touch
<1>3. version' = version /\ mtime' = [mtime EXCEPT ![k] = mtime[k] + 1] BY DEF Touch
<1>4. version' \in [Keys -> Versions] /\ mtime' \in [Keys -> 0..MaxMtime]
  BY <1>2, <1>3 DEF IInv, Types
<1>5. Newer(version', mtime') BY <1>1, <1>3, Numbers DEF Newer, IInv, Types
<1>6. QED BY <1>4, <1>5, NewerInv DEF Touch

LEMMA RestartInv ==
  ASSUME IInv, NEW p \in Procs, NEW r \in Revisions, Restart(p, r)
  PROVE  IInv'
<1>1. layout' = layout /\ version' = version /\ mtime' = mtime /\ cache' = cache
      /\ layout \in Layouts
  BY DEF Restart, session, IInv, Types
<1>2. Parts' = Parts /\ Files' = Files /\ Jobs' = Jobs
  BY <1>1 DEF Parts, Files, Jobs
<1>3. Types'
  <2>1. revision' \in [Procs -> Revisions] /\ pc' \in [Procs -> Labels]
    BY DEF IInv, Types, Restart, Labels
  <2>2. job' \in [Procs -> Jobs] BY <1>1, NoJobIsJob DEF IInv, Types, Restart
  <2>3. QED BY <1>1, <1>2, <2>1, <2>2 DEF IInv, Types
<1>4. Goto(p, "idle") /\ job' = [job EXCEPT ![p] = NoJob] BY DEF Restart, Goto
<1>5. UnderWay' \subseteq UnderWay BY <1>4, MoveUnderWay
<1>6. Kept'
  <2>1. KeptWell(cache, version, mtime, UnderWay') BY <1>5, KeptForLess DEF IInv, Kept
  <2>2. QED BY <1>1, <1>2, <2>1 DEF Kept, KeptWell, Good
<1>7. Held'
  <2>1. ASSUME NEW q \in Procs
        PROVE  HeldWell(pc'[q], job'[q], revision'[q], cache, version, mtime, UnderWay)
    <3>1. CASE q = p
      <4>1. pc'[q] = "idle" /\ job'[q] = NoJob
        BY <1>4, <3>1 DEF IInv, Types, Goto
      <4>2. QED BY <4>1, NoJobHeld
    <3>2. CASE q # p
      <4>1. pc'[q] = pc[q] /\ job'[q] = job[q] /\ revision'[q] = revision[q]
        BY <1>4, <3>2 DEF IInv, Types, Goto, Restart
      <4>2. QED BY <4>1, HeldFacts
    <3>3. QED BY <3>1, <3>2
  <2>2. ASSUME NEW q \in Procs
        PROVE  HeldWell(pc'[q], job'[q], revision'[q], cache, version, mtime, UnderWay')
        BY <1>5, <2>1, HeldForLess
  <2>3. ASSUME NEW q \in Procs
        PROVE  HeldWell(pc[q], job[q], revision[q], cache, version, mtime, UnderWay)'
    <3>1. HeldWell(pc'[q], job'[q], revision'[q], cache', version', mtime', UnderWay')
      BY <1>1, <2>2
    <3>2. QED BY <1>2, <3>1 DEF HeldWell, Good
  <2>4. QED BY <2>3 DEF Held
<1>8. QED BY <1>3, <1>6, <1>7 DEF IInv

LEMMA NextInv ==
  ASSUME IInv, [Next]_vars
  PROVE  IInv'
<1>1. ASSUME NEW p \in Procs, Step(p) PROVE IInv'
  BY <1>1, LookInv, ReadPartInv, LoadInv, ParseInv, OpenInv, WritePartInv, WriteFailsInv
     DEF Step
<1>2. ASSUME NEW p \in Procs, NEW k \in Keys, ParseRecord(p, k) PROVE IInv'
  BY <1>2, ParseRecordInv
<1>3. ASSUME NEW p \in Procs, NEW r \in Revisions, Restart(p, r) PROVE IInv'
  BY <1>3, RestartInv
<1>4. ASSUME NEW k \in Keys, Grow(k) PROVE IInv' BY <1>4, GrowInv
<1>5. ASSUME NEW k \in Keys, Touch(k) PROVE IInv' BY <1>5, TouchInv
<1>6. CASE UNCHANGED vars
  <2>1. Parts' = Parts /\ Files' = Files /\ Jobs' = Jobs /\ UnderWay' = UnderWay
    BY <1>6 DEF vars, session, Parts, Files, Jobs, UnderWay
  <2>2. Types' BY <1>6, <2>1 DEF IInv, Types, vars, session
  <2>3. Kept' BY <1>6, <2>1 DEF IInv, Kept, KeptWell, Good, vars, session
  <2>4. Held' BY <1>6, <2>1 DEF IInv, Held, HeldWell, Good, vars, session
    <2>5. QED BY <2>2, <2>3, <2>4 DEF IInv
<1>7. QED BY <1>1, <1>2, <1>3, <1>4, <1>5, <1>6 DEF Next

(* The variables have their types, and the file of a revision holds, in each *)
(* of its parts, what that revision made of some version the session had     *)
(* (_cached_parse), however large the pickles and whoever writes them.       *)
THEOREM TypeCorrect == Spec => []TypeOK
<1>1. IInv => TypeOK
  <2> SUFFICES ASSUME IInv PROVE TypeOK
    OBVIOUS
  <2>1. ASSUME NEW p \in Procs
        PROVE  /\ job[p].key \in Keys /\ job[p].mtime \in 0..mtime[job[p].key]
               /\ job[p].since \in 0..version[job[p].key]
               /\ job[p].parse \in Parses
               /\ job[p].part \in 1..layout.parts + 1
               /\ job[p].read \in Files
    <3>1. job[p].since \in Nat /\ job[p].mtime \in Nat /\ job[p].key \in Keys
      BY CallFacts, Numbers DEF IInv
    <3>2. version[job[p].key] \in Nat /\ mtime[job[p].key] \in Nat
      BY <3>1, Numbers DEF IInv, Types
    <3>3. job[p].since <= version[job[p].key] /\ job[p].mtime <= mtime[job[p].key]
      BY HeldFacts DEF HeldWell
    <3>4. QED BY <3>1, <3>2, <3>3, CallFacts DEF IInv
  <2>2. ASSUME NEW r \in Revisions, NEW k \in Keys, cache[<<r, k>>] # Nothing
        PROVE  /\ cache[<<r, k>>] \in Files
               /\ \A i \in Parts : cache[<<r, k>>][i] # Nothing =>
                    cache[<<r, k>>][i].parse.revision = r
                    /\ cache[<<r, k>>][i].parse.version <= version[k]
    BY <2>2 DEF IInv, Types, Kept, KeptWell, Good
  <2>3. QED BY <2>1, <2>2 DEF IInv, Types, TypeOK
<1>2. QED BY <1>1, InitInv, NextInv, PTL DEF Spec

-----------------------------------------------------------------------------
(* What a call returns *)

(* What a call may load: the last of the parts that it read tells which      *)
(* parse, the first under which mtime.                                       *)
LEMMA LoadsWhole ==
  ASSUME IInv, NEW p \in Procs, NEW loaded \in Loads(job[p].read), loaded # Nothing
  PROVE  LET read == job[p].read IN
         /\ loaded = [mtime |-> read[1].mtime, parse |-> read[layout.parts].parse]
         /\ read[1] \in Pickles /\ read[layout.parts] \in Pickles
<1> DEFINE read == job[p].read
           whole == [mtime |-> read[1].mtime, parse |-> read[layout.parts].parse]
<1>1. read \in Files /\ 1 \in Parts /\ layout.parts \in Parts
  BY CallFacts, PartsAre DEF IInv
<1> HIDE DEF read
<1>2. loaded = whole /\ \A i \in Parts : read[i] # Nothing BY DEF Loads, read
<1>3. read[1] \in Pickles /\ read[layout.parts] \in Pickles BY <1>1, <1>2 DEF Files
<1>4. QED BY <1>2, <1>3 DEF read

(* A pickle good for a call, of no older mtime than it saw, is an answer.    *)
LEMMA GoodAnswers ==
  ASSUME IInv, NEW p \in Procs, pc[p] # "idle", NEW x \in Pickles, job[p].mtime <= x.mtime,
         Good(x, revision[p], job[p].key, version, mtime, UnderWay)
  PROVE  /\ x.parse \in Parses /\ x.parse.revision = revision[p]
         /\ x.parse.version \in job[p].since..version[job[p].key]
<1> DEFINE call == [key |-> job[p].key, mtime |-> job[p].mtime, since |-> job[p].since]
<1>1. x.parse \in Parses /\ x.parse.version \in Nat BY Numbers DEF Pickles, Parses
<1>2. job[p].since \in Nat /\ version[job[p].key] \in Nat
  BY CallFacts, Numbers DEF IInv, Types
<1>3. call \in UnderWay BY DEF UnderWay
<1>4. x # Nothing BY PickleIsSome
<1>5. x.parse.revision = revision[p] /\ x.parse.version <= version[job[p].key]
  BY <1>4 DEF Good
<1>6. call.since <= x.parse.version BY <1>3, <1>4 DEF Good
<1>7. QED BY <1>1, <1>2, <1>5, <1>6

-----------------------------------------------------------------------------
(* Each step of ParseCache is one of FreshReads *)

LEMMA AskedMoves ==
  ASSUME IInv, NEW p \in Procs, NEW label, NEW j,
         Goto(p, label), job' = [job EXCEPT ![p] = j]
  PROVE  Asked' = [Asked EXCEPT ![p] =
                     IF label = "idle" THEN Nothing ELSE [file |-> j.key, since |-> j.since]]
<1>1. ASSUME NEW q \in Procs
      PROVE  Asked'[q] = IF q = p
                         THEN IF label = "idle" THEN Nothing ELSE [file |-> j.key, since |-> j.since]
                         ELSE Asked[q]
  <2>1. CASE q = p
    <3>1. pc'[q] = label /\ job'[q] = j BY <2>1 DEF IInv, Types, Goto
    <3>2. QED BY <2>1, <3>1 DEF Asked
  <2>2. CASE q # p
    <3>1. pc'[q] = pc[q] /\ job'[q] = job[q] BY <2>2 DEF IInv, Types, Goto
    <3>2. QED BY <2>2, <3>1 DEF Asked
  <2>3. QED BY <2>1, <2>2
<1>2. QED BY <1>1 DEF Asked

LEMMA AskedIs ==
  ASSUME IInv, NEW p \in Procs
  PROVE  /\ pc[p] = "idle" => Asked[p] = Nothing
         /\ pc[p] # "idle" => /\ Asked[p] = [file |-> job[p].key, since |-> job[p].since]
                              /\ Asked[p] # Nothing
<1>1. [file |-> job[p].key, since |-> job[p].since] # Nothing
  BY CallFacts, NothingAssumption DEF IInv
<1>2. QED BY <1>1 DEF Asked

LEMMA SilentMaps ==
  ASSUME IInv, NEW p \in Procs, NEW label, NEW j, pc[p] # "idle", label # "idle",
         Goto(p, label), job' = [job EXCEPT ![p] = j], j.key = job[p].key,
         j.since = job[p].since, Silent, version' = version
  PROVE  Promise!Next
<1>1. Asked' = [Asked EXCEPT ![p] = [file |-> job[p].key, since |-> job[p].since]]
  BY AskedMoves
<1>2. Asked' = Asked BY <1>1 DEF Asked
<1>3. Answered' = Nothing BY DEF Silent, Answered
<1>4. Promise!Silent BY <1>2, <1>3 DEF Promise!Silent
<1>5. QED BY <1>4 DEF Promise!Next

LEMMA ReturnMaps ==
  ASSUME IInv, NEW p \in Procs, pc[p] # "idle", NEW x \in Pickles, job[p].mtime <= x.mtime,
         Good(x, revision[p], job[p].key, version, mtime, UnderWay),
         pc[p] = "read" => ~Mixed(job[p].read),
         Return(p, x.parse), UNCHANGED <<session, revision>>
  PROVE  Promise!Next
<1>1. /\ x.parse \in Parses /\ x.parse.revision = revision[p]
      /\ x.parse.version \in job[p].since..version[job[p].key]
  BY GoodAnswers
<1> DEFINE mixed == pc[p] = "read" /\ Mixed(job[p].read)
<1>2. reply' = [by |-> p, since |-> job[p].since, parse |-> x.parse, mixed |-> mixed]
  BY DEF Return
<1>10. mixed = FALSE OBVIOUS
<1> HIDE DEF mixed
<1>3. reply' # Nothing /\ ~reply'.mixed
  <2>1. reply' = [by |-> p, since |-> job[p].since, parse |-> x.parse, mixed |-> FALSE]
    BY <1>2, <1>10
  <2>2. job[p].since \in Versions BY CallFacts DEF IInv
  <2>3. reply' \in [by : Procs, since : Versions, parse : Parses, mixed : BOOLEAN]
    BY <1>1, <2>1, <2>2
  <2>4. QED BY <2>1, <2>3, NothingAssumption
<1>4. Answered' = [since |-> job[p].since, value |-> x.parse.version]
  BY <1>1, <1>2, <1>3 DEF Answered
<1>5. Asked' = [Asked EXCEPT ![p] = Nothing] BY AskedMoves DEF Return
<1>6. Asked[p] # Nothing /\ Asked[p].since = job[p].since /\ Asked[p].file = job[p].key
  <2>1. Asked[p] # Nothing /\ Asked[p] = [file |-> job[p].key, since |-> job[p].since]
    BY AskedIs
  <2>2. QED BY <2>1
<1>7. version' = version BY DEF session
<1>8. Promise!Answer(p) BY <1>1, <1>4, <1>5, <1>6, <1>7 DEF Promise!Answer
<1>9. QED BY <1>8 DEF Promise!Next

(* A call that loaded a mixed pickle only ends.                              *)
LEMMA MixedMaps ==
  ASSUME IInv, NEW p \in Procs, NEW parse, pc[p] = "read", Mixed(job[p].read),
         Return(p, parse), UNCHANGED <<session, revision>>
  PROVE  Promise!Next
<1> DEFINE mixed == pc[p] = "read" /\ Mixed(job[p].read)
<1>1. reply' = [by |-> p, since |-> job[p].since, parse |-> parse, mixed |-> mixed]
  BY DEF Return
<1>2. mixed = TRUE OBVIOUS
<1> HIDE DEF mixed
<1>3. reply'.mixed = TRUE BY <1>1, <1>2
<1>4. Answered' = Nothing BY <1>3 DEF Answered
<1>5. Asked' = [Asked EXCEPT ![p] = Nothing] BY AskedMoves DEF Return
<1>6. Asked' = [q \in Procs |-> IF q \in {p} THEN Nothing ELSE Asked[q]]
  BY <1>5 DEF Asked
<1>7. Promise!Abandon({p}) BY <1>4, <1>6 DEF Promise!Abandon, session
<1>8. {p} \in SUBSET Procs OBVIOUS
<1>9. QED BY <1>7, <1>8 DEF Promise!Next

LEMMA LoadMaps ==
  ASSUME IInv, NEW p \in Procs, Load(p)
  PROVE  Promise!Next
<1>1. PICK loaded \in Loads(job[p].read) :
        \/ Current(p, loaded) /\ Return(p, loaded.parse)
        \/ ~Current(p, loaded) /\ Goto(p, "parse") /\ Silent /\ UNCHANGED job
  BY DEF Load
<1>2. pc[p] = "read" BY DEF Load
<1>3. CASE Current(p, loaded) /\ Return(p, loaded.parse)
    <2> DEFINE head == job[p].read[1]
             rest == job[p].read[layout.parts]
  <2>1. loaded \in Pickles /\ loaded.mtime = job[p].mtime
    BY <1>3, CallFacts DEF Current, Pickles, IInv
  <2>2. loaded # Nothing BY <2>1, PickleIsSome
  <2>3. head \in Pickles /\ rest \in Pickles
        /\ head.mtime = job[p].mtime /\ rest.parse = loaded.parse
    BY <2>1, <2>2, LoadsWhole
  <2>4. layout.parts \in Parts BY PartsAre DEF IInv, Types
  <2>5. Good(rest, revision[p], job[p].key, version, mtime, UnderWay)
    BY <2>4, HeldFacts DEF HeldWell
  <2>6. CASE Mixed(job[p].read) BY <1>2, <1>3, <2>6, MixedMaps DEF Load
  <2>7. CASE ~Mixed(job[p].read)
    <3>1. ~(rest.mtime < head.mtime) BY <2>4, <2>7 DEF Mixed
    <3>2. rest.mtime \in Nat /\ head.mtime \in Nat BY <2>3, Numbers DEF Pickles
    <3> HIDE DEF head, rest
    <3>3. job[p].mtime <= rest.mtime BY <2>3, <3>1, <3>2
    <3>4. Return(p, rest.parse) BY <1>3, <2>3
    <3>5. QED BY <1>2, <2>3, <2>5, <2>7, <3>3, <3>4, ReturnMaps DEF Load
  <2>8. QED BY <2>6, <2>7
<1>4. CASE Goto(p, "parse") /\ Silent /\ UNCHANGED job
  <2>1. job' = [job EXCEPT ![p] = job[p]] BY <1>4 DEF IInv, Types
  <2>2. version' = version BY DEF Load, session
  <2>3. QED BY <1>2, <1>4, <2>1, <2>2, SilentMaps
<1>5. QED BY <1>1, <1>3, <1>4

(* A writer returns its own parse.                                             *)
LEMMA WrittenMaps ==
  ASSUME IInv, NEW p \in Procs, pc[p] \in {"open", "write"}, Return(p, job[p].parse),
         UNCHANGED <<session, revision>>
  PROVE  Promise!Next
<1>1. /\ Pickle(p) \in Pickles /\ Pickle(p).parse = job[p].parse
      /\ Pickle(p).mtime = job[p].mtime /\ Pickle(p).mtime \in Nat
  BY CallFacts, Numbers DEF IInv, Pickle
<1>2. Good(Pickle(p), revision[p], job[p].key, version, mtime, UnderWay)
  BY HeldFacts DEF HeldWell, Pickle
<1>3. job[p].mtime <= Pickle(p).mtime /\ pc[p] # "read" BY <1>1
<1>4. QED BY <1>1, <1>2, <1>3, ReturnMaps

LEMMA WritePartMaps ==
  ASSUME IInv, NEW p \in Procs, WritePart(p)
  PROVE  Promise!Next
<1>1. pc[p] = "write" BY DEF WritePart
<1>2. CASE Return(p, job[p].parse) BY <1>1, <1>2, WrittenMaps DEF WritePart
<1>3. CASE job' = [job EXCEPT ![p] = [job[p] EXCEPT !.part = job[p].part + 1]]
           /\ Silent /\ UNCHANGED pc
  <2> DEFINE j == [job[p] EXCEPT !.part = job[p].part + 1]
  <2>1. j.key = job[p].key /\ j.since = job[p].since BY CallFacts DEF Jobs, IInv
  <2>2. job' = [job EXCEPT ![p] = j] BY <1>3
  <2> HIDE DEF j
  <2>3. Goto(p, "write") BY <1>1, <1>3 DEF IInv, Types, Goto
  <2>4. version' = version BY DEF WritePart, session
  <2>5. QED BY <1>1, <1>3, <2>1, <2>2, <2>3, <2>4, SilentMaps
<1>4. QED BY <1>2, <1>3 DEF WritePart

LEMMA QuietMaps ==
  ASSUME IInv, NEW p \in Procs, Look(p) \/ ReadPart(p) \/ Parse(p) \/ Open(p)
  PROVE  Promise!Next
<1>1. pc[p] # "idle" /\ Silent /\ version' = version
  BY DEF Look, ReadPart, Parse, Open, session
<1>2. PICK label \in Labels \ {"idle"} : Goto(p, label)
  BY DEF Look, ReadPart, Parse, Open, Goto, IInv, Types, Labels
<1>3. PICK j : job' = [job EXCEPT ![p] = j] /\ j.key = job[p].key /\ j.since = job[p].since
  <2>1. job[p] \in Jobs BY CallFacts DEF IInv
  <2>2. CASE Look(p)
    <3>1. job' = [job EXCEPT ![p] = job[p]] BY <2>2 DEF Look, IInv, Types
    <3>2. QED BY <3>1
  <2>3. CASE ReadPart(p)
    <3> DEFINE j == [job[p] EXCEPT
          !.read = [job[p].read EXCEPT ![job[p].part] = cache[CachePath(p)][job[p].part]],
          !.part = job[p].part + 1]
    <3>1. j.key = job[p].key /\ j.since = job[p].since BY <2>1 DEF Jobs
    <3>2. job' = [job EXCEPT ![p] = j] BY <2>3 DEF ReadPart
    <3> HIDE DEF j
    <3>3. QED BY <3>1, <3>2
  <2>4. CASE Parse(p)
    <3> DEFINE j == [job[p] EXCEPT
          !.parse = [revision |-> revision[p], version |-> version[job[p].key]]]
    <3>1. j.key = job[p].key /\ j.since = job[p].since BY <2>1 DEF Jobs
    <3>2. job' = [job EXCEPT ![p] = j] BY <2>4 DEF Parse
    <3> HIDE DEF j
    <3>3. QED BY <3>1, <3>2
  <2>5. CASE Open(p)
    <3> DEFINE j == [job[p] EXCEPT !.part = 1]
    <3>1. j.key = job[p].key /\ j.since = job[p].since BY <2>1 DEF Jobs
    <3>2. job' = [job EXCEPT ![p] = j] BY <2>5 DEF Open
    <3> HIDE DEF j
    <3>3. QED BY <3>1, <3>2
  <2>6. QED BY <2>2, <2>3, <2>4, <2>5
<1>4. QED BY <1>1, <1>2, <1>3, SilentMaps

LEMMA ParseRecordMaps ==
  ASSUME IInv, NEW p \in Procs, NEW k \in Keys, ParseRecord(p, k)
  PROVE  Promise!Next
<1> DEFINE j == [NoJob EXCEPT !.key = k, !.mtime = mtime[k], !.since = version[k]]
<1>1. j.key = k /\ j.since = version[k] BY DEF NoJob
<1>2. job' = [job EXCEPT ![p] = j] /\ Goto(p, "look") BY DEF ParseRecord
<1> HIDE DEF j
<1>3. Asked' = [Asked EXCEPT ![p] = [file |-> k, since |-> version[k]]]
  BY <1>1, <1>2, AskedMoves
<1>4. Asked[p] = Nothing BY AskedIs DEF ParseRecord
<1>5. Answered' = Nothing /\ version' = version
  BY DEF ParseRecord, session, Silent, Answered
<1>6. Promise!Ask(p, k) BY <1>3, <1>4, <1>5 DEF Promise!Ask
<1>7. QED BY <1>6 DEF Promise!Next

LEMMA RestartMaps ==
  ASSUME IInv, NEW p \in Procs, NEW r \in Revisions, Restart(p, r)
  PROVE  Promise!Next
<1>1. Goto(p, "idle") /\ job' = [job EXCEPT ![p] = NoJob] BY DEF Restart, Goto
<1>2. Asked' = [Asked EXCEPT ![p] = Nothing] BY <1>1, AskedMoves
<1>3. Asked' = [q \in Procs |-> IF q \in {p} THEN Nothing ELSE Asked[q]]
  BY <1>2 DEF Asked
<1>4. Answered' = Nothing /\ version' = version
  BY DEF Restart, session, Silent, Answered
<1>5. Promise!Abandon({p}) BY <1>3, <1>4 DEF Promise!Abandon
<1>6. {p} \in SUBSET Procs OBVIOUS
<1>7. QED BY <1>5, <1>6 DEF Promise!Next

LEMMA GrowMaps ==
  ASSUME NEW k \in Keys, Grow(k)
  PROVE  Promise!Next
<1>1. Asked' = Asked /\ Answered' = Nothing BY DEF Grow, Asked, Silent, Answered
<1>2. Promise!Grow(k) BY <1>1 DEF Grow, Promise!Grow
<1>3. QED BY <1>2 DEF Promise!Next

LEMMA TouchMaps ==
  ASSUME NEW k \in Keys, Touch(k)
  PROVE  Promise!Next
<1>1. Asked' = Asked /\ Answered' = Nothing BY DEF Touch, Asked, Silent, Answered
<1>2. Promise!Silent BY <1>1 DEF Touch, Promise!Silent
<1>3. QED BY <1>2 DEF Promise!Next

LEMMA NextMaps ==
  ASSUME IInv, [Next]_vars
  PROVE  [Promise!Next]_(Promise!vars)
<1>1. ASSUME NEW p \in Procs, WriteFails(p) PROVE Promise!Next
  BY <1>1, WrittenMaps DEF WriteFails
<1>2. ASSUME NEW p \in Procs, Step(p) PROVE Promise!Next
  BY <1>1, <1>2, QuietMaps, LoadMaps, WritePartMaps DEF Step
<1>3. ASSUME NEW p \in Procs, NEW k \in Keys, ParseRecord(p, k) PROVE Promise!Next
  BY <1>3, ParseRecordMaps
<1>4. ASSUME NEW p \in Procs, NEW r \in Revisions, Restart(p, r) PROVE Promise!Next
  BY <1>4, RestartMaps
<1>5. ASSUME NEW k \in Keys, Grow(k) PROVE Promise!Next BY <1>5, GrowMaps
<1>6. ASSUME NEW k \in Keys, Touch(k) PROVE Promise!Next BY <1>6, TouchMaps
<1>7. CASE UNCHANGED vars
  <2>1. Asked' = Asked /\ Answered' = Answered /\ version' = version
    BY <1>7 DEF vars, session, Asked, Answered
  <2>2. QED BY <2>1 DEF Promise!vars
<1>8. QED BY <1>2, <1>3, <1>4, <1>5, <1>6, <1>7 DEF Next

LEMMA InitMaps == Init => Promise!Init
<1> SUFFICES ASSUME Init PROVE Promise!Init
  OBVIOUS
<1>1. Asked = [p \in Procs |-> Nothing] BY DEF Init, Asked
<1>2. Answered = Nothing BY DEF Init, Answered
<1>3. QED BY <1>1, <1>2 DEF Init, Promise!Init

(* parse_record is answered with what the caller's own parser makes of the    *)
(* session at a moment of the call, whoever reads, writes, truncates and is   *)
(* killed while it writes, and however large the pickles - but for a call     *)
(* that loaded a pickle some part of which is of an older parse than its      *)
(* first.                                                                     *)
THEOREM ParsesImplementFreshReads == Spec => ParsesAreFresh
<1>1. Init => IInv /\ Promise!Init BY InitInv, InitMaps
<1>2. IInv /\ [Next]_vars => IInv' BY NextInv
<1>3. IInv /\ [Next]_vars => [Promise!Next]_(Promise!vars) BY NextMaps
<1>4. QED BY <1>1, <1>2, <1>3, PTL DEF Spec, ParsesAreFresh, Promise!Spec
=============================================================================
