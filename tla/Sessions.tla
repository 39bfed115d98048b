------------------------------ MODULE Sessions ------------------------------
(***************************************************************************)
(* The sessions of a machine as a command sees them: the stores walked one *)
(* after the other (iter_all_records, iter_local_records), each file       *)
(* probed for its directory and first message as it is reached, and        *)
(* `delete`, which picks sessions while they are listed, asks, and unlinks *)
(* them.  Agents begin sessions and write them all the while, files are    *)
(* backed up to the extra folders, and files disappear.                    *)
(*                                                                         *)
(* A place is a file, or a row of a database; a session may be in several: *)
(* a codex session is in its rollout and in a row that names it, and a     *)
(* backup in an extra folder has the last two parts of the path (the key)  *)
(* of the live file.  What is said in a place is the sequence of its user  *)
(* messages.  The probes read the file: their memo is ScanCache.           *)
(*                                                                         *)
(* A definition named Bug... is the one after it with a plausible mistake. *)
(* Nothing uses it: it is there to try the properties on.                  *)
(***************************************************************************)
EXTENDS Naturals, Sequences, FiniteSets, SequencesExt

CONSTANTS
  Places,        \* files and rows
  Info,          \* [Places -> what the place is: see Kinds]
  Starts,        \* [said, all, active]: what the places hold at the start, the
                 \* scope of the command, and the places that agents write
  Message,       \* what `delete` is given
  Other,         \* any other message
  Absent,
  MaxWrites      \* bound: steps of agents and of others

(* Of a place: the agent, the session, its key, whether it is in an extra  *)
(* folder, the rollout a codex row names, where the session ran ("here",   *)
(* "below" the directory asked for, or "elsewhere"), and whether the file  *)
(* has that directory in its payload only, as codex writes it.             *)
Rows == {p \in Places : Info[p].agent \in {"opencode", "codex_db", "hermes", "copilot_db"}}
Extras == {p \in Places : Info[p].extra}
LiveFiles == Places \ (Extras \cup Rows)

Texts == Seq({Message, Other}) \ {<<>>}
SameKey(p, q) == Info[p].key = Info[q].key

(* What the agents see to: a folder of backups has files only; the name of  *)
(* a session's file is its own (_mirror_key: "this tail identifies the same *)
(* session in both"); and the rollout that a row names is of its session.   *)
ASSUME KnownAgents ==
  \A p \in Places :
    Info[p].agent \in {"claude", "codex", "copilot", "agent_probe", "opencode", "codex_db",
                      "hermes", "copilot_db"}
ASSUME ExtrasAreFiles == Extras \cap Rows = {}
ASSUME KeysIdentify ==
  \A p \in LiveFiles, q \in LiveFiles \cup Extras :
    SameKey(p, q) => Info[p].session = Info[q].session /\ (q \in LiveFiles => p = q)
Named(p, q) ==
  p \in LiveFiles /\ Info[p].agent = "codex" /\ Info[q].agent = "codex_db" /\ Info[q].rollout = p
ASSUME RowsNameTheirOwn ==
  \A p, q \in Places : Named(p, q) => Info[p].session = Info[q].session
ASSUME AbsentIsNoText == Absent \notin {Message, Other} /\ Absent \notin Texts

(* p holds a session that begins with message, or is gone for good.         *)
Begun(p, message, there, agents) ==
  IF there[p] = Absent THEN p \notin agents ELSE there[p][1] = message

(* A backup that is there at the start was made of a file that was.         *)
ASSUME StartsAreStates ==
  \A s \in Starts :
    /\ s.said \in [Places -> Texts \cup {Absent}] /\ s.all \in BOOLEAN /\ s.active \subseteq Places
    /\ \A p \in LiveFiles, q \in Extras :
         SameKey(p, q) /\ s.said[q] # Absent => Begun(p, s.said[q][1], s.said, s.active)

VARIABLES
  said,       \* [Places -> the user messages there, or Absent]
  active,     \* the places agents write
  command,    \* [name, all, yes]: what is run
  pc,
  stores,     \* the stores still to be walked
  todo,       \* places of the store being walked, found but not reached yet
  current,    \* the record just made: [place, first]
  rollouts,   \* codex_rollout_paths
  live,       \* keys of the live files listed
  listed,     \* records given to the command
  matching,   \* records to delete
  deleted,    \* files unlinked
  steady,     \* history: places that were there from the start to now
  checked,    \* history: [Places -> what was there when delete checked it]
  writes

vars == <<said, active, command, pc, stores, todo, current, rollouts, live, listed, matching, deleted,
          steady, checked, writes>>
walk == <<stores, todo, rollouts, live>>
world == <<said, active, steady, writes>>

StoreOrder ==
  <<"claude", "codex", "copilot", "agent_probe", "opencode", "codex_db", "hermes", "copilot_db",
    "extra">>

Init ==
  /\ \E s \in Starts :
       /\ said = s.said /\ active = s.active
       /\ command \in [name : {"list"}, all : {s.all}, yes : {TRUE}]
                  \cup [name : {"delete"}, all : {s.all}, yes : BOOLEAN]
  /\ pc = "store" /\ stores = StoreOrder /\ todo = {}
  /\ current = Absent
  /\ rollouts = {} /\ live = {} /\ listed = {} /\ matching = {} /\ deleted = {}
  /\ steady = {p \in Places : said[p] # Absent}
  /\ checked = [p \in Places |-> <<>>]
  /\ writes = 0

-----------------------------------------------------------------------------
(* The stores *)

(* The first message; a database of copilot is not asked for it.           *)
First(p) ==
  IF said[p] = Absent \/ Info[p].agent = "copilot_db" THEN Absent ELSE said[p][1]

(* get_cwd_from_trajectory looks at the top of a line and into its         *)
(* context, not into the payload; a row has its directory in a column.     *)
CwdOf(p) == IF Info[p].inPayload \/ (p \notin Rows /\ said[p] = Absent) THEN "" ELSE Info[p].ran

CwdMatches(p) == CwdOf(p) \in {"here", "below"}

(* The claude store is asked by directory, and has one for each project.   *)
InStore(p, store) ==
  /\ said[p] # Absent
  /\ IF store = "extra" THEN p \in Extras ELSE p \notin Extras /\ Info[p].agent = store
  /\ store = "claude" /\ ~command.all => Info[p].ran = "here"

(* The next store: its files are walked, or its rows are read, at once.    *)
(* Databases of copilot are listed by iter_all_records only.               *)
OpenStore ==
  /\ pc = "store" /\ stores # <<>>
  /\ todo' = {p \in Places : InStore(p, stores[1])
                             /\ (stores[1] = "copilot_db" => command.all)}
  /\ stores' = Tail(stores)
  /\ pc' = "walk"
  /\ UNCHANGED <<world, command, current, rollouts, live, listed, matching, deleted, checked>>

CloseStore ==
  /\ pc = "walk" /\ todo = {}
  /\ pc' = "store"
  /\ UNCHANGED <<world, command, walk, current, listed, matching, deleted, checked>>

BugKeyOf(p) == p

(* _mirror_key                                                             *)
KeyOf(p) == Info[p].key

(* A codex row whose rollout was walked is the same session; so is, in a   *)
(* local listing, a backup of a live file that was listed.                 *)
Skipped(p) ==
  \/ Info[p].agent = "codex_db" /\ Info[p].rollout \in rollouts
  \/ ~command.all /\ p \in Extras /\ KeyOf(p) \in live

(* The place is probed and its record made, or passed over.                *)
Reach(p) ==
  LET byDirectory == Info[p].agent = "claude" /\ p \notin Extras
      yields == ~Skipped(p) /\ (command.all \/ byDirectory \/ CwdMatches(p))
  IN
  /\ pc = "walk" /\ p \in todo
  /\ todo' = todo \ {p}
  /\ rollouts' = IF Info[p].agent = "codex" /\ p \notin Extras THEN rollouts \cup {p} ELSE rollouts
  /\ live' = IF yields /\ p \in LiveFiles THEN live \cup {KeyOf(p)} ELSE live
  /\ IF yields THEN pc' = "record" /\ current' = [place |-> p, first |-> First(p)]
               ELSE UNCHANGED <<pc, current>>
  /\ UNCHANGED <<world, command, stores, listed, matching, deleted, checked>>

-----------------------------------------------------------------------------
(* The commands *)

BugIsSingle(p) == TRUE

(* _is_single_message_only, once the first message is the one: claude and  *)
(* codex files are parsed, others are trusted.                             *)
IsSingle(p) == Info[p].agent \in {"claude", "codex"} => said[p] # Absent /\ Len(said[p]) = 1

Take ==
  LET p == current.place
      picked == command.name = "delete" /\ current.first = Message /\ IsSingle(p)
  IN
  /\ pc = "record"
  /\ listed' = listed \cup {current}
  /\ matching' = IF picked THEN matching \cup {current} ELSE matching
  /\ checked' = IF command.name = "delete" THEN [checked EXCEPT ![p] = said[p]] ELSE checked
  /\ current' = Absent
  /\ pc' = "walk"
  /\ UNCHANGED <<world, command, walk, deleted>>

Listed ==
  /\ pc = "store" /\ stores = <<>>
  /\ pc' = IF matching = {} THEN "done" ELSE IF command.yes THEN "unlink" ELSE "prompt"
  /\ UNCHANGED <<world, command, walk, current, listed, matching, deleted, checked>>

(* "Delete these? [y/N]": anything but y, or the end of input, aborts.     *)
Confirm ==
  /\ pc = "prompt"
  /\ command' = [command EXCEPT !.yes = TRUE]
  /\ pc' = "unlink"
  /\ UNCHANGED <<world, walk, current, listed, matching, deleted, checked>>

Refuse ==
  /\ pc = "prompt"
  /\ pc' = "done"
  /\ UNCHANGED <<world, command, walk, current, listed, matching, deleted, checked>>

BugDeletable(p) == said[p] # Absent

(* A file that is still there; rows are skipped.                           *)
Deletable(p) == p \notin Rows /\ said[p] # Absent

Unlink(r) ==
  /\ pc = "unlink" /\ r \in matching
  /\ matching' = matching \ {r}
  /\ IF Deletable(r.place)
     THEN /\ said' = [said EXCEPT ![r.place] = Absent]
          /\ active' = active \ {r.place}
          /\ steady' = steady \ {r.place}
          /\ deleted' = deleted \cup {r.place}
     ELSE UNCHANGED <<said, active, steady, deleted>>
  /\ UNCHANGED <<command, pc, walk, current, listed, checked, writes>>

Unlinked ==
  /\ pc = "unlink" /\ matching = {}
  /\ pc' = "done"
  /\ UNCHANGED <<world, command, walk, current, listed, matching, deleted, checked>>

-----------------------------------------------------------------------------
(* The environment *)

Elsewhere ==
  /\ pc # "done" /\ writes < MaxWrites /\ writes' = writes + 1
  /\ UNCHANGED <<command, pc, walk, current, listed, matching, deleted, checked>>

(* An agent begins its session, or goes on.                                *)
Say(p, message) ==
  /\ p \in active \ Extras
  /\ said' = [said EXCEPT ![p] = IF said[p] = Absent THEN <<message>>
                                 ELSE Append(said[p], message)]
  /\ Elsewhere
  /\ UNCHANGED <<active, steady>>

Backup(p, q) ==
  /\ p \in LiveFiles /\ q \in Extras /\ SameKey(p, q)
  /\ said[p] # Absent
  /\ said' = [said EXCEPT ![q] = said[p]]
  /\ Elsewhere
  /\ UNCHANGED <<active, steady>>

(* The name of a session's file is its own: what is gone does not begin.   *)
Vanish(p) ==
  /\ p \notin Rows /\ said[p] # Absent
  /\ said' = [said EXCEPT ![p] = Absent]
  /\ active' = active \ {p}
  /\ steady' = steady \ {p}
  /\ Elsewhere

Next ==
  \/ OpenStore \/ CloseStore \/ Take \/ Listed \/ Confirm \/ Refuse \/ Unlinked
  \/ \E p \in Places : Reach(p) \/ Vanish(p)
  \/ \E r \in matching : Unlink(r)
  \/ \E p \in Places, m \in {Message, Other} : Say(p, m)
  \/ \E p, q \in Places : Backup(p, q)

Spec == Init /\ [][Next]_vars

-----------------------------------------------------------------------------
(* Properties *)

Records == [place : Places, first : {Message, Other, Absent}]

(* The variables have their types, and what is deleted was picked from     *)
(* what was listed.                                                        *)
TypeOK ==
  /\ said \in [Places -> Seq({Message, Other}) \cup {Absent}]
  /\ pc \in {"store", "walk", "record", "prompt", "unlink", "done"}
  /\ IsSuffix(stores, StoreOrder) /\ todo \subseteq Places
  /\ IF pc = "record" THEN current \in Records ELSE current = Absent
  /\ rollouts \subseteq Places \ (Rows \cup Extras) /\ live \subseteq {Info[p].key : p \in Places}
  /\ listed \subseteq Records /\ matching \subseteq listed
  /\ command.name = "list" => matching = {}
  /\ deleted \subseteq {r.place : r \in listed} \ Rows
  /\ steady \subseteq Places /\ checked \in [Places -> Seq({Message, Other}) \cup {Absent}]

SessionsOf(records) == {Info[r.place].session : r \in records}
Complete == pc \in {"prompt", "unlink", "done"}

(* "Yield trajectory records across all supported local stores", and of a  *)
(* local listing those "whose working directory is cwd or a subdirectory": *)
(* no session is missed that is somewhere throughout the listing, whatever *)
(* begins, is backed up or goes meanwhile.                                 *)
EverySessionIsListed ==
  Complete =>
    \A p \in steady :
      command.all \/ Info[p].ran \in {"here", "below"}
        => Info[p].session \in SessionsOf(listed)

(* What a local listing passes over, wherever the session ran: files that   *)
(* have the directory in their payload; sessions of claude of a directory   *)
(* below, which has a store of its own; the database of copilot; and a row  *)
(* whose rollout was walked, which is not listed for it.                    *)
Overlooked(p) ==
  /\ ~command.all
  /\ \/ Info[p].inPayload
     \/ Info[p].agent = "claude" /\ p \notin Extras /\ Info[p].ran # "here"
     \/ Info[p].agent = "copilot_db"
     \/ Info[p].agent = "codex_db" /\ Info[p].rollout \in rollouts

(* What tells the code that two places have one session: that a row names   *)
(* the rollout, and in a local listing that a copy in an extra folder has   *)
(* the key of the live file.  Nothing tells it of a session that copilot    *)
(* keeps in a file and in its database, or of copies of a copy.             *)
Backs(p, q) == p \in LiveFiles /\ q \in Extras /\ SameKey(p, q)
KnownCopy(p, q) == Named(p, q) \/ (~command.all /\ Backs(p, q))

(* Whatever begins, is backed up or goes while the stores are walked: no     *)
(* session is missed that is, throughout, in a place the listing does not   *)
(* pass over, be it that the place is hidden by another one of the session; *)
(* and no place is listed twice, nor with one that it is a copy of.         *)
SessionsAreListed ==
  /\ Complete =>
       \A p \in steady :
         (command.all \/ Info[p].ran \in {"here", "below"}) /\ ~Overlooked(p)
           => Info[p].session \in SessionsOf(listed)
  /\ \A r, o \in listed :
       ~KnownCopy(r.place, o.place) /\ (r # o => r.place # o.place)

(* Each session is listed once: not so of copilot's, nor of everything that *)
(* has a copy in an extra folder.                                           *)
EachSessionIsListedOnce ==
  \A r, o \in listed : Info[r.place].session = Info[o.place].session => r = o

(* A file is deleted only if the user said so, and if it was, when it was  *)
(* checked, what the parser calls a session of that one message, the       *)
(* agents of which the code trusts the first message excepted.             *)
DeletesWhatItChecked ==
  \A p \in deleted :
    /\ command.name = "delete" /\ command.yes
    /\ Info[p].agent \in {"claude", "codex"} => checked[p] = <<Message>>

(* "Delete trajectories that have only one user message matching the given *)
(* text" (cmd_delete).                                                     *)
DeletesOnlySingleMessages == \A p \in deleted : checked[p] = <<Message>>
=============================================================================
