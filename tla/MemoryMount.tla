----------------------------- MODULE MemoryMount -----------------------------
(***************************************************************************)
(* Memory mounts as they come and go (cmd_memory and _unmount in           *)
(* trajectoriz/cli.py) while a store is walked.  A mount has a FUSE        *)
(* connection, which lives on when its directory is detached lazily; a     *)
(* client of a mount whose daemon is wedged sleeps until the connection is *)
(* aborted.                                                                *)
(*                                                                         *)
(* The kernel, the daemons and the tools called are modelled by what       *)
(* _unmount relies on: a mount in use is not detached but lazily, a tool   *)
(* may be missing or fail, and one that times out may have done its work.  *)
(* What a mount serves while it answers is MemoryListing and PayloadCache. *)
(***************************************************************************)
EXTENDS StoreWalk

CONSTANTS Clients, NoConn, MaxConn   \* bound: connections ever made

ASSUME ConnAssumption == MaxConn \in Nat /\ NoConn \notin 1..MaxConn

VARIABLES
  conn,         \* [MountPoints -> its connection, or NoConn]
  made,         \* connections made so far
  wedged,       \* those whose daemon has stopped answering
  blocked,      \* [Clients -> the connection whose answer it waits for, or NoConn]
  pc,           \* the --unmount command: "idle", "connect", "try", "abort" or "done"
  target, connection, tries, unmounted, lazy,
  status,       \* its exit status
  denied        \* history: it could not write the abort file of a live connection

daemons == <<conn, made, wedged, blocked>>
command == <<pc, target, connection, tries, unmounted, lazy, status, denied>>
vars == <<link, excluded, attached, walkVars, daemons, command>>

Conns == 1..MaxConn
Busy(c) == \E p \in Clients : blocked[p] = c
Alive(c) == c \in Conns /\ ((\E m \in MountPoints : conn[m] = c) \/ Busy(c))

-----------------------------------------------------------------------------
(* memory MOUNTPOINT: refused where a FUSE file system is mounted already.  *)
Mount(m) ==
  /\ m \notin attached /\ made < MaxConn
  /\ made' = made + 1
  /\ conn' = [conn EXCEPT ![m] = made']
  /\ attached' = attached \cup {m}
  /\ UNCHANGED <<link, excluded, walkVars, wedged, blocked, command>>

Wedge(c) ==
  /\ Alive(c) /\ c \notin wedged
  /\ wedged' = wedged \cup {c}
  /\ UNCHANGED <<link, excluded, attached, walkVars, conn, made, blocked, command>>

Request(p, m) ==
  /\ blocked[p] = NoConn /\ m \in attached
  /\ blocked' = [blocked EXCEPT ![p] = conn[m]]
  /\ UNCHANGED <<link, excluded, attached, walkVars, conn, made, wedged, command>>

Answer(p) ==
  /\ blocked[p] # NoConn /\ blocked[p] \notin wedged
  /\ blocked' = [blocked EXCEPT ![p] = NoConn]
  /\ UNCHANGED <<link, excluded, attached, walkVars, conn, made, wedged, command>>

BugDetached(m) ==
  /\ attached' = attached \ {m}
  /\ UNCHANGED conn
Detached(m) ==
  /\ attached' = attached \ {m}
  /\ conn' = [conn EXCEPT ![m] = NoConn]

(* What the kernel does with an aborted connection: its requests fail, and  *)
(* the daemon exits, which detaches it (auto_unmount).                      *)
BugReleased(c) ==
  /\ attached' = attached \ {m \in MountPoints : conn[m] = c}
  /\ conn' = [m \in MountPoints |-> IF conn[m] = c THEN NoConn ELSE conn[m]]
  /\ UNCHANGED blocked
Released(c) ==
  /\ attached' = attached \ {m \in MountPoints : conn[m] = c}
  /\ conn' = [m \in MountPoints |-> IF conn[m] = c THEN NoConn ELSE conn[m]]
  /\ blocked' = [p \in Clients |-> IF blocked[p] = c THEN NoConn ELSE blocked[p]]

(* The daemon is killed, and auto_unmount cleans up.                        *)
Die(c) ==
  /\ \E m \in MountPoints : conn[m] = c
  /\ c \in Conns
  /\ Released(c)
  /\ UNCHANGED <<link, excluded, walkVars, made, wedged, command>>

-----------------------------------------------------------------------------
(* memory --unmount MOUNTPOINT.                                             *)
Unmount(m) ==
  /\ pc \in {"idle", "done"}
  /\ m \in attached
  /\ target' = m /\ pc' = "connect"
  /\ connection' = NoConn /\ tries' = 0 /\ unmounted' = FALSE /\ lazy' = FALSE
  /\ status' = 1 /\ denied' = FALSE
  /\ UNCHANGED <<link, excluded, attached, walkVars, daemons>>

ReadConnection ==
  /\ pc = "connect"
  /\ connection' = conn[target] /\ pc' = "try"
  /\ UNCHANGED <<link, excluded, attached, walkVars, daemons, target, tries, unmounted, lazy, status,
                 denied>>

(* fusermount -u and fusermount3 -u, then the same with -uz, then umount -l.*)
IsLazy(i) == i > 2
Commands == 5

Detaches(i) ==
  /\ target \in attached
  /\ IsLazy(i) \/ ~Busy(conn[target])
  /\ Detached(target)

BugSucceeds ==
  /\ pc = "try" /\ tries < Commands
  /\ Detaches(tries + 1)
  /\ unmounted' = TRUE /\ lazy' = IsLazy(tries + 1)
  /\ pc' = "done" /\ status' = 0
  /\ UNCHANGED <<link, excluded, walkVars, made, wedged, blocked, target, connection, tries,
                 denied>>
Succeeds ==
  /\ pc = "try" /\ tries < Commands
  /\ Detaches(tries + 1)
  /\ unmounted' = TRUE /\ lazy' = IsLazy(tries + 1)
  /\ pc' = IF lazy' THEN "abort" ELSE "done"
  /\ status' = IF lazy' THEN status ELSE 0
  /\ UNCHANGED <<link, excluded, walkVars, made, wedged, blocked, target, connection, tries,
                 denied>>

(* It is missing, or fails, or times out - its work done or not.            *)
Fails ==
  /\ pc = "try" /\ tries < Commands
  /\ Detaches(tries + 1) \/ UNCHANGED <<attached, conn>>
  /\ tries' = tries + 1
  /\ pc' = IF tries' = Commands THEN "abort" ELSE "try"
  /\ UNCHANGED <<link, excluded, walkVars, made, wedged, blocked, target, connection,
                 unmounted, lazy, status, denied>>

(* The connection is aborted, if it is known and its abort file is there    *)
(* and can be written.                                                      *)
Abort ==
  /\ pc = "abort" /\ pc' = "done"
  /\ \/ /\ Alive(connection)
        /\ Released(connection)
        /\ status' = 0 /\ denied' = FALSE
     \/ /\ status' = IF unmounted THEN 0 ELSE 1
        /\ denied' = Alive(connection)
        /\ UNCHANGED <<attached, conn, blocked>>
  /\ UNCHANGED <<link, excluded, walkVars, made, wedged, target, connection, tries, unmounted, lazy>>

-----------------------------------------------------------------------------
Init ==
  /\ WalkInit
  /\ attached = {} /\ conn = [m \in MountPoints |-> NoConn]
  /\ made = 0 /\ wedged = {} /\ blocked = [p \in Clients |-> NoConn]
  /\ pc = "idle" /\ target \in MountPoints /\ connection = NoConn
  /\ tries = 0 /\ unmounted = FALSE /\ lazy = FALSE /\ status = 1 /\ denied = FALSE

mounts == <<attached, daemons, command>>
BeginWalk == Begin /\ UNCHANGED mounts
VisitNext == Visit /\ UNCHANGED mounts
SkipSeen == SeenBefore /\ UNCHANGED mounts
EndWalk == End /\ UNCHANGED mounts

Command == ReadConnection \/ Succeeds \/ Fails \/ Abort

Next ==
  \/ BeginWalk \/ VisitNext \/ SkipSeen \/ EndWalk
  \/ \E m \in MountPoints : Mount(m) \/ Unmount(m)
  \/ \E c \in Conns : Wedge(c) \/ Die(c)
  \/ \E p \in Clients : Answer(p) \/ \E m \in MountPoints : Request(p, m)
  \/ Command

Spec == Init /\ [][Next]_vars
FairSpec == Spec /\ WF_vars(Command)

-----------------------------------------------------------------------------
(* The mount table and the connections agree, and a client sleeps only in a *)
(* connection that was made.                                                *)
TypeOK ==
  /\ walkPc \in {"idle", "walking", "done"} /\ known \subseteq MountPoints
  /\ attached = {m \in MountPoints : conn[m] # NoConn}
  /\ conn \in [MountPoints -> 1..made \cup {NoConn}] /\ made \in 0..MaxConn
  /\ wedged \subseteq 1..made /\ blocked \in [Clients -> 1..made \cup {NoConn}]
  /\ pc \in {"idle", "connect", "try", "abort", "done"} /\ target \in MountPoints
  /\ connection \in Conns \cup {NoConn} /\ tries \in 0..Commands
  /\ unmounted \in BOOLEAN /\ lazy \in BOOLEAN /\ status \in 0..1 /\ denied \in BOOLEAN

(* When memory --unmount reports success, no process is left asleep in the  *)
(* connection that served the mountpoint when the command began - unless it *)
(* detached the mount lazily and then could not abort the connection.       *)
UnmountReleases ==
  pc = "done" /\ status = 0 /\ ~(lazy /\ denied) =>
    \A p \in Clients : connection = NoConn \/ blocked[p] # connection

(* Once the command has read the connection of a mount, every process asleep *)
(* in it is let go, whatever the tools do, unless it may not be aborted.    *)
SleepersAreReleased ==
  \A p \in Clients, c \in Conns :
    pc = "try" /\ connection = c /\ blocked[p] = c ~> blocked[p] # c \/ denied

(* What the README says of it: --unmount "unmounts lazily, and aborts the   *)
(* FUSE connection if it is wedged, which is what frees processes already   *)
(* stuck on it".                                                            *)
UnmountFrees ==
  pc = "done" /\ status = 0 =>
    \A p \in Clients : connection = NoConn \/ blocked[p] # connection

(* What the README says of it: "Store scans never descend into a FUSE mount".*)
NeverDescends ==
  [][\A m \in attached, p \in touched' \ touched : Below(m, p) => p = m]_vars
=============================================================================
