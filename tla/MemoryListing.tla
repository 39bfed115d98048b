--------------------------- MODULE MemoryListing ---------------------------
(***************************************************************************)
(* The directory listing of `trajectoriz memory` (_memoryfs.py): FUSE      *)
(* handler threads share one listing, guarded by the Condition self._lock. *)
(* A handler that finds it stale claims the scan slot and starts a helper  *)
(* thread, or joins the scan in flight, and waits for at most scan_timeout *)
(* before it serves whatever listing there is.                             *)
(*                                                                         *)
(* A request is one handler call that needs the listing: readdir, or the   *)
(* _lookup that getattr, open and a handle-less read begin with.  Names    *)
(* are the file names _filename_for can give.  Time is discrete; the age   *)
(* of the listing saturates once it is older than every max_age.           *)
(*                                                                         *)
(* A definition named Bug... is the one after it with a plausible mistake. *)
(* Nothing uses it: it is there to try the properties on.                  *)
(***************************************************************************)
EXTENDS Naturals, FiniteSets

CONSTANTS Requests,       \* handler threads
          Names,          \* file names of records
          ReadDir,        \* what a readdir wants, not a name
          NoListing,      \* self._listing is None
          ListingTTL,     \* listing_ttl
          MissAge,        \* _MISS_REFRESH_AGE
          ScanTimeout,    \* scan_timeout
          MaxCalls,       \* bound: handler calls
          MaxSpawnErrors  \* bound: threads the OS refuses to start

ASSUME NamesAssumption == ReadDir \notin Names /\ \A L \in SUBSET Names : L # NoListing
ASSUME TimeAssumption == ListingTTL \in Nat /\ MissAge \in Nat /\ ScanTimeout \in Nat
ASSUME BoundsAssumption == MaxCalls \in Nat /\ MaxSpawnErrors \in Nat

AgeCap == 1 + IF ListingTTL > MissAge THEN ListingTTL ELSE MissAge

VARIABLES
  store,     \* the records a scan would find now
  listing,   \* self._listing
  age,       \* time.monotonic() - self._listing_at
  scans,     \* self._scans
  scanning,  \* self._scanning
  thread,    \* [Requests -> phase of the scan thread this request started]
  todo,      \* [Requests -> names its scan thread has still to look at]
  scanned,   \* [Requests -> names its scan thread has collected]
  handler,   \* [Requests -> where the handler is]
  want,      \* [Requests -> the name looked up, or ReadDir]
  attempt,   \* [Requests -> first or second _records call of the lookup]
  awaited,    \* [Requests -> number of completed scans it waits for]
  left,      \* [Requests -> time left until its deadline]
  answer,    \* [Requests -> how its last call ended]
  calls, spawnErrors,
  waited,    \* history: [Requests -> time this _records call has waited for its scan]
  waitedBefore, \* history: [Requests -> what the first attempt of the lookup has waited]
  kept,      \* history: names present throughout the scan that holds the slot
  present,   \* history: names present at some moment of that scan
  settled,   \* history: kept, as of the published scan, less what was removed since
  stable     \* history: [Requests -> names present ever since it took the slot]

scanVars == <<listing, age, scans, scanning, thread, todo, scanned>>
requestVars == <<handler, want, attempt, awaited, left, answer>>
boundVars == <<calls, spawnErrors>>
waitVars == <<waited, waitedBefore>>
historyVars == <<waitVars, kept, present, settled, stable>>
listingVars == <<store, scanVars, requestVars, boundVars, historyVars>>

Served == IF listing = NoListing THEN {} ELSE listing
MaxAge(r) == IF attempt[r] = 1 THEN ListingTTL ELSE MissAge

ListingInit ==
  /\ store \in SUBSET Names
  /\ listing = NoListing /\ age = 0 /\ scans = 0 /\ scanning = FALSE
  /\ thread = [r \in Requests |-> "none"]
  /\ todo = [r \in Requests |-> {}]
  /\ scanned = [r \in Requests |-> {}]
  /\ handler = [r \in Requests |-> "idle"]
  /\ want = [r \in Requests |-> ReadDir]
  /\ attempt = [r \in Requests |-> 1]
  /\ awaited = [r \in Requests |-> 0]
  /\ left = [r \in Requests |-> 0]
  /\ answer = [r \in Requests |-> "none"]
  /\ calls = 0 /\ spawnErrors = 0
  /\ waited = [r \in Requests |-> 0] /\ waitedBefore = [r \in Requests |-> 0]
  /\ kept = {} /\ present = {} /\ settled = {}
  /\ stable = [r \in Requests |-> {}]

-----------------------------------------------------------------------------
(* Handlers *)

Call(r, w) ==
  /\ handler[r] = "idle"
  /\ calls < MaxCalls
  /\ calls' = calls + 1
  /\ handler' = [handler EXCEPT ![r] = "check"]
  /\ want' = [want EXCEPT ![r] = w]
  /\ attempt' = [attempt EXCEPT ![r] = 1]
  /\ answer' = [answer EXCEPT ![r] = "none"]
  /\ waited' = [waited EXCEPT ![r] = 0] /\ waitedBefore' = [waitedBefore EXCEPT ![r] = 0]
  /\ UNCHANGED <<store, scanVars, awaited, left, spawnErrors, kept, present, settled, stable>>

BugAttemptNotReset(r, L) ==
  /\ awaited' = [awaited EXCEPT ![r] = 0]
  /\ left' = [left EXCEPT ![r] = 0]
  /\ stable' = [stable EXCEPT ![r] = {}]
  /\ handler' = [handler EXCEPT ![r] = IF want[r] \in Names \ L THEN "check" ELSE "idle"]
  /\ attempt' = [attempt EXCEPT ![r] = @ + 1]
  /\ UNCHANGED <<answer, waitVars>>
(* _records returns listing L: readdir is done; _lookup is done if its     *)
(* name is there, and otherwise asks a second time before ENOENT.          *)
Return(r, L) ==
  /\ awaited' = [awaited EXCEPT ![r] = 0]
  /\ left' = [left EXCEPT ![r] = 0]
  /\ stable' = [stable EXCEPT ![r] = {}]
  /\ IF want[r] \in Names \ L /\ attempt[r] = 1
     THEN /\ handler' = [handler EXCEPT ![r] = "check"]
          /\ attempt' = [attempt EXCEPT ![r] = 2]
          /\ waited' = [waited EXCEPT ![r] = 0]
          /\ waitedBefore' = [waitedBefore EXCEPT ![r] = waited[r]]
          /\ UNCHANGED answer
     ELSE /\ handler' = [handler EXCEPT ![r] = "idle"]
          /\ answer' = [answer EXCEPT
                          ![r] = IF want[r] \in Names \ L THEN "absent" ELSE "served"]
          /\ UNCHANGED <<attempt, waitVars>>

Fresh(r) == listing # NoListing /\ age <= MaxAge(r)

CheckFresh(r) ==
  /\ handler[r] = "check" /\ Fresh(r)
  /\ Return(r, listing)
  /\ UNCHANGED <<store, scanVars, want, boundVars, kept, present, settled>>

CheckStale(r) ==
  /\ handler[r] = "check" /\ ~Fresh(r)
  /\ handler' = [handler EXCEPT ![r] = "claim"]
  /\ UNCHANGED <<store, scanVars, want, attempt, awaited, left, answer, boundVars, historyVars>>

(* The critical section that takes the scan slot or joins the scan in      *)
(* flight.                                                                 *)
BugAlwaysStart == TRUE
Start == ~scanning

BugTargetOffByOne == scans
NextScan == scans + 1

Claim(r) ==
  /\ handler[r] = "claim"
  /\ awaited' = [awaited EXCEPT ![r] = NextScan]
  /\ scanning' = TRUE
  /\ IF Start
     THEN /\ handler' = [handler EXCEPT ![r] = "spawn"]
          /\ kept' = store /\ present' = store
          /\ stable' = [stable EXCEPT ![r] = store]
     ELSE /\ handler' = [handler EXCEPT ![r] = "arm"]
          /\ UNCHANGED <<kept, present, stable>>
  /\ UNCHANGED <<store, listing, age, scans, thread, todo, scanned, want, attempt, left,
                 answer, boundVars, waitVars, settled>>

Spawn(r) ==
  /\ handler[r] = "spawn"
  /\ handler' = [handler EXCEPT ![r] = "arm"]
  /\ thread' = [thread EXCEPT ![r] = "scanning"]
  /\ todo' = [todo EXCEPT ![r] = Names]
  /\ scanned' = [scanned EXCEPT ![r] = {}]
  /\ UNCHANGED <<store, listing, age, scans, scanning, want, attempt, awaited, left,
                 answer, boundVars, historyVars>>

(* Thread.start raises: the handler fails, and nobody resets _scanning.    *)
SpawnError(r) ==
  /\ handler[r] = "spawn"
  /\ spawnErrors < MaxSpawnErrors
  /\ spawnErrors' = spawnErrors + 1
  /\ handler' = [handler EXCEPT ![r] = "idle"]
  /\ answer' = [answer EXCEPT ![r] = "error"]
  /\ awaited' = [awaited EXCEPT ![r] = 0]
  /\ stable' = [stable EXCEPT ![r] = {}]
  /\ UNCHANGED <<store, scanVars, want, attempt, left, calls, waitVars, kept, present, settled>>

Arm(r) ==
  /\ handler[r] = "arm"
  /\ handler' = [handler EXCEPT ![r] = "wait"]
  /\ left' = [left EXCEPT ![r] = ScanTimeout]
  /\ UNCHANGED <<store, scanVars, want, attempt, awaited, answer, boundVars, historyVars>>

WaitServed(r) ==
  /\ handler[r] = "wait" /\ scans >= awaited[r]
  /\ Return(r, Served)
  /\ UNCHANGED <<store, scanVars, want, boundVars, kept, present, settled>>

BugTimeoutServesNothing(r) ==
  /\ handler[r] = "wait" /\ scans < awaited[r] /\ left[r] = 0
  /\ Return(r, {})
  /\ UNCHANGED <<store, scanVars, want, boundVars, kept, present, settled>>
BugNoDeadline(r) ==
  /\ handler[r] = "wait" /\ scans >= awaited[r] /\ left[r] = 0
  /\ Return(r, Served)
  /\ UNCHANGED <<store, scanVars, want, boundVars, kept, present, settled>>
WaitTimeout(r) ==
  /\ handler[r] = "wait" /\ scans < awaited[r] /\ left[r] = 0
  /\ Return(r, Served)
  /\ UNCHANGED <<store, scanVars, want, boundVars, kept, present, settled>>

-----------------------------------------------------------------------------
(* Scan threads *)

(* iter_local_records looks at the stores one record after another.        *)
ScanVisit(r, n) ==
  /\ thread[r] = "scanning" /\ n \in todo[r]
  /\ todo' = [todo EXCEPT ![r] = @ \ {n}]
  /\ scanned' = [scanned EXCEPT ![r] = IF n \in store THEN @ \cup {n} ELSE @]
  /\ UNCHANGED <<store, listing, age, scans, scanning, thread, requestVars, boundVars,
                 historyVars>>

BugMergeListings(r) ==
  /\ thread[r] = "scanning" /\ todo[r] = {}
  /\ thread' = [thread EXCEPT ![r] = "none"]
  /\ scanned' = [scanned EXCEPT ![r] = {}]
  /\ listing' = Served \cup scanned[r] /\ age' = 0
  /\ scans' = scans + 1
  /\ scanning' = FALSE
  /\ settled' = kept
  /\ kept' = {} /\ present' = {}
  /\ UNCHANGED <<store, todo, requestVars, boundVars, waitVars, stable>>
ScanPublish(r) ==
  /\ thread[r] = "scanning" /\ todo[r] = {}
  /\ thread' = [thread EXCEPT ![r] = "none"]
  /\ scanned' = [scanned EXCEPT ![r] = {}]
  /\ listing' = scanned[r] /\ age' = 0
  /\ scans' = scans + 1
  /\ scanning' = FALSE
  /\ settled' = kept
  /\ kept' = {} /\ present' = {}
  /\ UNCHANGED <<store, todo, requestVars, boundVars, waitVars, stable>>

BugFailKeepsSlot(r) ==
  /\ thread[r] = "scanning"
  /\ thread' = [thread EXCEPT ![r] = "none"]
  /\ todo' = [todo EXCEPT ![r] = {}]
  /\ scanned' = [scanned EXCEPT ![r] = {}]
  /\ kept' = {} /\ present' = {}
  /\ UNCHANGED <<store, listing, age, scans, scanning, requestVars, boundVars, waitVars,
                 settled, stable>>
BugFailPublishesPart(r) ==
  /\ thread[r] = "scanning"
  /\ thread' = [thread EXCEPT ![r] = "none"]
  /\ todo' = [todo EXCEPT ![r] = {}]
  /\ scanned' = [scanned EXCEPT ![r] = {}]
  /\ listing' = scanned[r] /\ age' = 0
  /\ scanning' = FALSE
  /\ kept' = {} /\ present' = {}
  /\ UNCHANGED <<store, scans, requestVars, boundVars, waitVars, settled, stable>>
BugFailRearms(r) ==
  /\ thread[r] = "scanning"
  /\ thread' = [thread EXCEPT ![r] = "none"]
  /\ todo' = [todo EXCEPT ![r] = {}]
  /\ scanned' = [scanned EXCEPT ![r] = {}]
  /\ scanning' = FALSE
  /\ kept' = {} /\ present' = {}
  /\ left' = [s \in Requests |-> IF handler[s] = "wait" THEN ScanTimeout ELSE left[s]]
  /\ UNCHANGED <<store, listing, age, scans, handler, want, attempt, awaited, answer, boundVars,
                 waitVars, settled, stable>>
(* A store raised: the listing stays, the slot is released, and whoever    *)
(* waits is woken to wait on for what is left of its time.                 *)
ScanFail(r) ==
  /\ thread[r] = "scanning"
  /\ thread' = [thread EXCEPT ![r] = "none"]
  /\ todo' = [todo EXCEPT ![r] = {}]
  /\ scanned' = [scanned EXCEPT ![r] = {}]
  /\ scanning' = FALSE
  /\ kept' = {} /\ present' = {}
  /\ UNCHANGED <<store, listing, age, scans, requestVars, boundVars, waitVars, settled,
                 stable>>

-----------------------------------------------------------------------------
(* Environment: the agents that record and delete sessions, and time *)

RecordSession(n) ==
  /\ n \notin store
  /\ store' = store \cup {n}
  /\ present' = IF scanning THEN present \cup {n} ELSE present
  /\ UNCHANGED <<scanVars, requestVars, boundVars, waitVars, kept, settled, stable>>

RemoveSession(n) ==
  /\ n \in store
  /\ store' = store \ {n}
  /\ kept' = kept \ {n}
  /\ settled' = settled \ {n}
  /\ stable' = [r \in Requests |-> stable[r] \ {n}]
  /\ UNCHANGED <<scanVars, requestVars, boundVars, waitVars, present>>

Waiting == {r \in Requests : handler[r] = "wait"}

(* A waiter's deadline wakes it: time does not run past it.                *)
Tick ==
  /\ \A r \in Waiting : left[r] > 0
  /\ Waiting # {} \/ (listing # NoListing /\ age < AgeCap)
  /\ age' = IF listing # NoListing /\ age < AgeCap THEN age + 1 ELSE age
  /\ left' = [r \in Requests |-> IF r \in Waiting THEN left[r] - 1 ELSE left[r]]
  /\ waited' = [r \in Requests |-> IF r \in Waiting THEN waited[r] + 1 ELSE waited[r]]
  /\ UNCHANGED <<store, listing, scans, scanning, thread, todo, scanned, handler, want, attempt,
                 awaited, answer, boundVars, waitedBefore, kept, present, settled, stable>>

Handler(r) ==
  \/ CheckFresh(r) \/ CheckStale(r) \/ Claim(r) \/ Spawn(r) \/ SpawnError(r)
  \/ Arm(r) \/ WaitServed(r) \/ WaitTimeout(r)

ScanThread(r) == ScanPublish(r) \/ ScanFail(r) \/ \E n \in Names : ScanVisit(r, n)

ListingNext ==
  \/ \E r \in Requests : \E w \in Names \cup {ReadDir} : Call(r, w)
  \/ \E r \in Requests : Handler(r)
  \/ \E r \in Requests : ScanThread(r)
  \/ \E n \in Names : RecordSession(n) \/ RemoveSession(n)
  \/ Tick

ListingSpec == ListingInit /\ [][ListingNext]_listingVars

(* The OS runs every handler thread and lets time pass; nothing is assumed *)
(* of the stores, so a scan may hang for ever.                             *)
ListingFairSpec ==
  ListingSpec /\ WF_listingVars(Tick) /\ \A r \in Requests : WF_listingVars(Handler(r))

-----------------------------------------------------------------------------
(* Properties *)

(* Every variable has its type.                                            *)
ListingTypeOK ==
  /\ store \in SUBSET Names
  /\ listing \in (SUBSET Names) \cup {NoListing}
  /\ age \in Nat /\ scans \in Nat /\ scanning \in BOOLEAN
  /\ thread \in [Requests -> {"none", "scanning"}]
  /\ todo \in [Requests -> SUBSET Names]
  /\ scanned \in [Requests -> SUBSET Names]
  /\ handler \in [Requests -> {"idle", "check", "claim", "spawn", "arm", "wait"}]
  /\ want \in [Requests -> Names \cup {ReadDir}]
  /\ attempt \in [Requests -> {1, 2}]
  /\ awaited \in [Requests -> Nat]
  /\ left \in [Requests -> Nat]
  /\ answer \in [Requests -> {"none", "served", "absent", "error"}]
  /\ calls \in Nat /\ spawnErrors \in Nat
  /\ waited \in [Requests -> Nat] /\ waitedBefore \in [Requests -> Nat]
  /\ kept \in SUBSET Names /\ present \in SUBSET Names /\ settled \in SUBSET Names
  /\ stable \in [Requests -> SUBSET Names]

(* Scans never overlap: _scanning, set by one handler, handed to the       *)
(* thread it starts and reset by that thread, is held by at most one of    *)
(* them at a time and by nobody when it is clear.                          *)
Holds(r) == handler[r] = "spawn" \/ thread[r] = "scanning"
OneScanAtATime ==
  /\ \A r, s \in Requests : Holds(r) /\ Holds(s) => r = s
  /\ \A r \in Requests : Holds(r) => scanning
  /\ \A r \in Requests : ~(handler[r] = "spawn" /\ thread[r] = "scanning")

(* The slot is lost only when the OS refused a thread: whatever a store    *)
(* does, _scan leaves _scanning set only while it runs.                    *)
SlotNotLeaked ==
  scanning /\ spawnErrors = 0 => \E r \in Requests : Holds(r)

(* The two together: the slot of a scan has one holder while it is taken,  *)
(* unless a thread was refused, and none when it is free (_records, _scan). *)
SlotIsHeldOnce == OneScanAtATime /\ SlotNotLeaked

(* The listing a request is served, however it was obtained (cached, from  *)
(* a scan it waited for, or the previous one after the deadline), has      *)
(* every session that was recorded before the scan behind it began and     *)
(* still is.                                                               *)
ListingCoversSettled == settled \subseteq Served

(* The listing changes only when a scan completes, and is then that scan's *)
(* view: a name no store held at any moment of it is not published, one    *)
(* they held throughout is, and nothing of an earlier scan survives.       *)
PublishesItsScan ==
  [][IF scans' = scans THEN listing' = listing
     ELSE kept \subseteq listing' /\ listing' \subseteq present]_listingVars

(* ENOENT is never the answer for a session recorded before the last       *)
(* published scan began, timeouts and failed scans included.               *)
AbsentIsJustified ==
  [][\A r \in Requests :
       answer'[r] = "absent" /\ answer[r] # "absent" => want[r] \notin settled]_listingVars

(* A handler that took the scan slot and is then woken by a completed scan *)
(* is served every session recorded before it took the slot: the scan that *)
(* woke it, its own or, when that failed, a later one, began after.  (A    *)
(* handler that joined a scan in flight has no such promise.)              *)
StarterSeesItsPast ==
  \A r \in Requests :
    handler[r] = "wait" /\ scans >= awaited[r] => stable[r] \subseteq Served

(* A _records call waits for its scan no longer than scan_timeout, however *)
(* often failing scans, its own or others', wake it up before that.        *)
RecordsWaitIsBounded == \A r \in Requests : waited[r] <= ScanTimeout

(* What the module's docstring says: one scan_timeout per request.         *)
RequestWaitsAtMostScanTimeout ==
  \A r \in Requests : waitedBefore[r] + waited[r] <= ScanTimeout

(* What the module's docstring says: the listing is refreshed at most once *)
(* per listing_ttl.                                                        *)
RefreshedOncePerTTL ==
  [][scanning' /\ ~scanning => listing = NoListing \/ age > ListingTTL]_listingVars

(* Every handler call returns, though scans may hang, fail or never start. *)
RequestsReturn == \A r \in Requests : handler[r] # "idle" ~> handler[r] = "idle"

(* As long as no thread was refused and the stores answer (a scan thread   *)
(* that can run does), the scan slot is always given back, failed scans    *)
(* included: no scan is the last one.                                      *)
SlotComesBack ==
  (\A r \in Requests : WF_listingVars(ScanThread(r)))
    => (scanning /\ spawnErrors = 0 ~> ~scanning \/ spawnErrors > 0)

-----------------------------------------------------------------------------
(* The inductive invariant *)

(* What a scan in flight has collected so far: nothing that was never      *)
(* there, and all that stayed, except what it has still to look at.        *)
ScanInv ==
  /\ kept \subseteq store
  /\ scanning => store \subseteq present
  /\ \A r \in Requests :
       thread[r] = "scanning" =>
         kept \subseteq scanned[r] \cup todo[r] /\ scanned[r] \subseteq present

(* What a handler was promised when it took the slot: the scan in flight   *)
(* still owes it, or the published one has given it.                       *)
StarterInv ==
  \A r \in Requests :
    /\ stable[r] \subseteq store
    /\ scanning => stable[r] \subseteq kept
    /\ handler[r] \in {"spawn", "arm", "wait"} /\ scans >= awaited[r] => stable[r] \subseteq settled

(* How long a _records call has waited, at each point of it.               *)
WaitInv ==
  \A r \in Requests :
    /\ handler[r] \in {"check", "claim", "spawn", "arm"} => waited[r] = 0
    /\ handler[r] = "wait" => waited[r] + left[r] <= ScanTimeout
    /\ waited[r] <= ScanTimeout

IInv ==
  ListingTypeOK /\ OneScanAtATime /\ SlotNotLeaked /\ ListingCoversSettled /\ ScanInv /\ StarterInv
    /\ WaitInv
=============================================================================
