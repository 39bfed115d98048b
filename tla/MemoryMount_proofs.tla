------------------------- MODULE MemoryMount_proofs --------------------------
(* Proofs about the memory mount.  MemoryMount and the walk of StoreWalk, for *)
(* every tree and every set of mountpoints, clients and connections; then    *)
(* MemoryListing, for every set of handlers and of names, every timing and   *)
(* every bound.                                                              *)
EXTENDS MemoryMount, MemoryListing, SequenceTheorems, FiniteSetTheorems, TLAPS

-----------------------------------------------------------------------------
(* The mounts.  A connection serves one mountpoint, and was made; the one    *)
(* that the command read is the target's, or of no mountpoint.  While the    *)
(* commands that refuse a busy mount are tried, it is the target's, or has   *)
(* nobody left asleep in it.                                                 *)

Asleep(c) == \E p \in Clients : blocked[p] = c
Serves(c) == \E m \in MountPoints : conn[m] = c

MountInv ==
  /\ made \in 0..MaxConn
  /\ conn \in [MountPoints -> 1..made \cup {NoConn}]
  /\ attached = {m \in MountPoints : conn[m] # NoConn}
  /\ \A m, n \in MountPoints : conn[m] = conn[n] /\ conn[m] # NoConn => m = n
  /\ wedged \subseteq 1..made /\ blocked \in [Clients -> 1..made \cup {NoConn}]

CommandInv ==
  /\ pc \in {"idle", "connect", "try", "abort", "done"} /\ target \in MountPoints
  /\ connection \in 1..made \cup {NoConn} /\ tries \in 0..Commands
  /\ unmounted \in BOOLEAN /\ lazy \in BOOLEAN /\ status \in 0..1 /\ denied \in BOOLEAN
  /\ pc = "connect" => connection = NoConn
  /\ pc \in {"connect", "try"} => ~unmounted
  /\ pc = "abort" /\ unmounted => lazy

Held ==
  connection # NoConn =>
    /\ \A m \in MountPoints : conn[m] = connection => m = target
    /\ pc = "try" /\ tries <= 2 => conn[target] = connection \/ ~Asleep(connection)
    /\ pc = "done" /\ status = 0 /\ ~(lazy /\ denied) => ~Serves(connection) /\ ~Asleep(connection)

KnownInv ==
  /\ walkPc \in {"idle", "walking", "done"}
  /\ excluded \in Exclusions /\ known \subseteq MountPoints

CoreInv == MountInv /\ CommandInv /\ Held /\ KnownInv

LEMMA NoConnIsNone == MaxConn \in Nat /\ \A c \in 1..MaxConn : c # NoConn
BY ConnAssumption

(* The steps of the command and of the world, as they change the mounts.     *)
LEMMA InitCore == Init => CoreInv
<1> SUFFICES ASSUME Init PROVE CoreInv OBVIOUS
<1>1. MountInv
  <2>1. attached = {} /\ conn = [m \in MountPoints |-> NoConn] /\ made = 0 /\ wedged = {}
        /\ blocked = [p \in Clients |-> NoConn]
    BY DEF Init
  <2>2. made \in 0..MaxConn BY <2>1, NoConnIsNone
  <2>3. conn \in [MountPoints -> 1..made \cup {NoConn}] BY <2>1
  <2>4. \A m \in MountPoints : conn[m] = NoConn BY <2>1
  <2>5. attached = {m \in MountPoints : conn[m] # NoConn} BY <2>1, <2>4
  <2>6. wedged \subseteq 1..made /\ blocked \in [Clients -> 1..made \cup {NoConn}] BY <2>1
  <2>7. \A m, n \in MountPoints : conn[m] = conn[n] /\ conn[m] # NoConn => m = n BY <2>4
  <2>8. QED BY <2>2, <2>3, <2>5, <2>6, <2>7 DEF MountInv
<1>2. CommandInv
  <2>1. /\ pc = "idle" /\ target \in MountPoints /\ connection = NoConn
        /\ tries = 0 /\ unmounted = FALSE /\ lazy = FALSE /\ status = 1
    BY DEF Init
  <2>2. connection \in 1..made \cup {NoConn} /\ tries \in 0..5 /\ status \in 0..1 BY <2>1
  <2>3. unmounted \in BOOLEAN /\ lazy \in BOOLEAN /\ denied \in BOOLEAN BY DEF Init
  <2>4. QED BY <2>1, <2>2, <2>3 DEF CommandInv, Commands
<1>3. Held BY DEF Init, Held
<1>4. KnownInv BY DEF Init, WalkInit, KnownInv
<1>5. QED BY <1>1, <1>2, <1>3, <1>4 DEF CoreInv

(* What neither makes a connection, nor goes back to one.                    *)
LEMMA Receding ==
  ASSUME MountInv, conn' \in [MountPoints -> 1..made \cup {NoConn}],
         \A m \in MountPoints : conn'[m] \in {conn[m], NoConn},
         attached' = {m \in MountPoints : conn'[m] # NoConn},
         blocked' \in [Clients -> 1..made \cup {NoConn}], UNCHANGED <<made, wedged>>
  PROVE  MountInv'
BY DEF MountInv

LEMMA DetachedIs ==
  ASSUME MountInv, NEW m \in MountPoints, Detached(m)
  PROVE  /\ conn' \in [MountPoints -> 1..made \cup {NoConn}]
         /\ conn'[m] = NoConn /\ \A n \in MountPoints : n # m => conn'[n] = conn[n]
         /\ attached' = {n \in MountPoints : conn'[n] # NoConn}
<1>1. conn' = [conn EXCEPT ![m] = NoConn] /\ attached' = attached \ {m} BY DEF Detached
<1>2. conn \in [MountPoints -> 1..made \cup {NoConn}]
      /\ attached = {n \in MountPoints : conn[n] # NoConn}
  BY DEF MountInv
<1>3. conn' \in [MountPoints -> 1..made \cup {NoConn}] BY <1>1, <1>2
<1>4. \A n \in MountPoints : conn'[n] = IF n = m THEN NoConn ELSE conn[n] BY <1>1, <1>2
<1>5. QED BY <1>1, <1>2, <1>3, <1>4

LEMMA ReleasedIs ==
  ASSUME MountInv, NEW c \in 1..MaxConn, Released(c)
  PROVE  /\ conn' \in [MountPoints -> 1..made \cup {NoConn}]
         /\ \A m \in MountPoints : conn'[m] = IF conn[m] = c THEN NoConn ELSE conn[m]
         /\ attached' = {m \in MountPoints : conn'[m] # NoConn}
         /\ blocked' \in [Clients -> 1..made \cup {NoConn}]
         /\ \A p \in Clients : blocked'[p] = IF blocked[p] = c THEN NoConn ELSE blocked[p]
<1>1. /\ attached' = attached \ {m \in MountPoints : conn[m] = c}
      /\ conn' = [m \in MountPoints |-> IF conn[m] = c THEN NoConn ELSE conn[m]]
      /\ blocked' = [p \in Clients |-> IF blocked[p] = c THEN NoConn ELSE blocked[p]]
  BY DEF Released
<1>2. /\ conn \in [MountPoints -> 1..made \cup {NoConn}]
      /\ attached = {n \in MountPoints : conn[n] # NoConn}
      /\ blocked \in [Clients -> 1..made \cup {NoConn}]
  BY DEF MountInv
<1>3. conn' \in [MountPoints -> 1..made \cup {NoConn}]
      /\ blocked' \in [Clients -> 1..made \cup {NoConn}]
  BY <1>1, <1>2
<1>4. /\ \A m \in MountPoints : conn'[m] = IF conn[m] = c THEN NoConn ELSE conn[m]
      /\ \A p \in Clients : blocked'[p] = IF blocked[p] = c THEN NoConn ELSE blocked[p]
  BY <1>1
<1>5. attached' = {m \in MountPoints : conn'[m] # NoConn} BY <1>1, <1>2, <1>4
<1>6. QED BY <1>3, <1>4, <1>5

LEMMA MountStep ==
  ASSUME CoreInv, [Next]_vars
  PROVE  MountInv'
<1>0. MountInv /\ CommandInv BY DEF CoreInv
<1>1. ASSUME NEW m \in MountPoints, Mount(m) PROVE MountInv'
  <2>1. /\ m \notin attached /\ made < MaxConn /\ made' = made + 1
        /\ conn' = [conn EXCEPT ![m] = made'] /\ attached' = attached \cup {m}
        /\ UNCHANGED <<wedged, blocked>>
    BY <1>1 DEF Mount
  <2>2. /\ made \in 0..MaxConn /\ conn \in [MountPoints -> 1..made \cup {NoConn}]
        /\ attached = {n \in MountPoints : conn[n] # NoConn}
        /\ wedged \subseteq 1..made /\ blocked \in [Clients -> 1..made \cup {NoConn}]
    BY <1>0 DEF MountInv
  <2>3. made' \in 1..MaxConn /\ made' \notin 1..made /\ 1..made \subseteq 1..made' /\ made' # NoConn
    BY <2>1, <2>2, NoConnIsNone
  <2>4. conn' \in [MountPoints -> 1..made' \cup {NoConn}] BY <2>1, <2>2, <2>3
  <2>5. \A n \in MountPoints : conn'[n] = IF n = m THEN made' ELSE conn[n] BY <2>1, <2>2
  <2>6. attached' = {n \in MountPoints : conn'[n] # NoConn} BY <2>1, <2>2, <2>3, <2>5
  <2>7. \A x, n \in MountPoints : conn'[x] = conn'[n] /\ conn'[x] # NoConn => x = n
    BY <1>0, <2>2, <2>3, <2>5 DEF MountInv
  <2>8. wedged' \subseteq 1..made' /\ blocked' \in [Clients -> 1..made' \cup {NoConn}]
    BY <2>1, <2>2, <2>3
  <2>9. made' \in 0..MaxConn BY <2>3
  <2>10. QED BY <2>4, <2>6, <2>7, <2>8, <2>9 DEF MountInv
<1>2. ASSUME NEW c \in Conns, Wedge(c) PROVE MountInv'
  <2>1. UNCHANGED <<attached, conn, made, blocked>> /\ wedged' = wedged \cup {c} /\ Alive(c)
    BY <1>2 DEF Wedge
  <2>2. c \in 1..made
    <3>1. c # NoConn BY NoConnIsNone DEF Conns
    <3>2. QED BY <1>0, <2>1, <3>1 DEF Alive, Busy, MountInv
  <2>3. QED BY <1>0, <2>1, <2>2 DEF MountInv
<1>3. ASSUME NEW c \in Conns, Die(c) PROVE MountInv'
  <2>1. Released(c) /\ UNCHANGED <<made, wedged>> BY <1>3 DEF Die
  <2>2. QED BY <1>0, <2>1, ReleasedIs, Receding DEF Conns
<1>4. ASSUME NEW p \in Clients, Answer(p) \/ \E m \in MountPoints : Request(p, m) PROVE MountInv'
  <2>1. UNCHANGED <<attached, conn, made, wedged>> BY <1>4 DEF Answer, Request
  <2>2. blocked' \in [Clients -> 1..made \cup {NoConn}] BY <1>0, <1>4 DEF Answer, Request, MountInv
  <2>3. QED BY <1>0, <2>1, <2>2 DEF MountInv
<1>5. CASE Succeeds \/ Fails
  <2>1. (Detached(target) \/ UNCHANGED <<attached, conn>>) /\ UNCHANGED <<made, wedged, blocked>>
    BY <1>5 DEF Succeeds, Fails, Detaches
  <2>2. CASE Detached(target) BY <1>0, <2>1, <2>2, DetachedIs, Receding DEF CommandInv, MountInv
  <2>3. CASE UNCHANGED <<attached, conn>> BY <1>0, <2>1, <2>3 DEF MountInv
  <2>4. QED BY <2>1, <2>2, <2>3
<1>6. CASE Abort
  <2>1. UNCHANGED <<made, wedged>> BY <1>6 DEF Abort
  <2>2. CASE Alive(connection) /\ Released(connection)
    BY <1>0, <2>1, <2>2, ReleasedIs, Receding DEF Alive, Conns
  <2>3. CASE UNCHANGED <<attached, conn, blocked>> BY <1>0, <2>1, <2>3 DEF MountInv
  <2>4. QED BY <1>6, <2>2, <2>3 DEF Abort
<1>7. CASE UNCHANGED <<attached, daemons>> BY <1>0, <1>7 DEF MountInv, daemons
<1>8. (\E m \in MountPoints : Unmount(m)) \/ ReadConnection \/ UNCHANGED vars
      \/ BeginWalk \/ VisitNext \/ SkipSeen \/ EndWalk => UNCHANGED <<attached, daemons>>
  BY DEF Unmount, ReadConnection, vars, BeginWalk, VisitNext, SkipSeen, EndWalk, mounts
<1>9. QED BY <1>1, <1>2, <1>3, <1>4, <1>5, <1>6, <1>7, <1>8 DEF Next, Command

LEMMA CommandStep ==
  ASSUME CoreInv, [Next]_vars
  PROVE  CommandInv'
<1>0. MountInv /\ CommandInv BY DEF CoreInv
<1>1. made' \in 0..MaxConn /\ 1..made \subseteq 1..made'
  <2>1. made \in 0..MaxConn /\ made' \in 0..MaxConn BY <1>0, MountStep DEF MountInv
  <2>2. made' = made + 1 \/ made' = made
    BY DEF Next, Mount, Unmount, Wedge, Die, Answer, Request, Command, ReadConnection, Succeeds,
           Fails, Abort, BeginWalk, VisitNext, SkipSeen, EndWalk, vars, mounts, daemons
  <2>3. QED BY <2>1, <2>2, NoConnIsNone
<1>2. /\ pc \in {"idle", "connect", "try", "abort", "done"} /\ target \in MountPoints
      /\ connection \in 1..made \cup {NoConn} /\ tries \in 0..5
      /\ unmounted \in BOOLEAN /\ lazy \in BOOLEAN /\ status \in 0..1 /\ denied \in BOOLEAN
      /\ pc = "connect" => connection = NoConn
      /\ pc \in {"connect", "try"} => ~unmounted
      /\ pc = "abort" /\ unmounted => lazy
  BY <1>0 DEF CommandInv, Commands
<1>3. CASE UNCHANGED command BY <1>1, <1>2, <1>3 DEF command, CommandInv, Commands
<1>4. ASSUME NEW m \in MountPoints, Unmount(m) PROVE CommandInv'
  <2>1. /\ target' = m /\ pc' = "connect" /\ connection' = NoConn /\ tries' = 0
        /\ unmounted' = FALSE /\ lazy' = FALSE /\ status' = 1 /\ denied' = FALSE
    BY <1>4 DEF Unmount
  <2>2. connection' \in 1..made' \cup {NoConn} /\ tries' \in 0..5 /\ status' \in 0..1 BY <2>1
  <2>3. unmounted' \in BOOLEAN /\ lazy' \in BOOLEAN /\ denied' \in BOOLEAN BY <2>1
  <2>4. QED BY <2>1, <2>2, <2>3 DEF CommandInv, Commands
<1>5. CASE ReadConnection
  <2>1. /\ pc = "connect" /\ connection' = conn[target] /\ pc' = "try"
        /\ UNCHANGED <<target, tries, unmounted, lazy, status, denied>>
    BY <1>5 DEF ReadConnection
  <2>2. conn[target] \in 1..made \cup {NoConn} BY <1>0, <1>2 DEF MountInv
  <2>3. QED BY <1>1, <1>2, <2>1, <2>2 DEF CommandInv, Commands
<1>6. CASE Succeeds
  <2>1. /\ unmounted' = TRUE /\ lazy' = IsLazy(tries + 1)
        /\ pc' = IF lazy' THEN "abort" ELSE "done"
        /\ status' = IF lazy' THEN status ELSE 0
        /\ UNCHANGED <<target, connection, tries, denied>>
    BY <1>6 DEF Succeeds
  <2>2. lazy' \in BOOLEAN BY <2>1 DEF IsLazy
  <2>3. pc' \in {"abort", "done"} /\ status' \in 0..1 /\ (pc' = "abort" => lazy')
    BY <1>2, <2>1, <2>2
  <2>4. QED BY <1>1, <1>2, <2>1, <2>2, <2>3 DEF CommandInv, Commands
<1>7. CASE Fails
  <2>1. /\ tries < 5 /\ tries' = tries + 1 /\ pc' = IF tries' = 5 THEN "abort" ELSE "try"
        /\ pc = "try" /\ UNCHANGED <<target, connection, unmounted, lazy, status, denied>>
    BY <1>7 DEF Fails, Commands
  <2>2. tries' \in 0..5 /\ pc' \in {"abort", "try"} BY <1>2, <2>1
  <2>3. ~unmounted' /\ pc' # "connect"
    <3>1. ~unmounted /\ unmounted' = unmounted BY <1>2, <2>1
    <3>2. QED BY <2>2, <3>1
  <2>4. QED BY <1>1, <1>2, <2>1, <2>2, <2>3 DEF CommandInv, Commands
<1>8. CASE Abort
  <2>1. pc' = "done" /\ UNCHANGED <<target, connection, tries, unmounted, lazy>> BY <1>8 DEF Abort
  <2>2. status' \in 0..1 BY <1>8 DEF Abort
  <2>3. denied' \in BOOLEAN
    <3>1. denied' = FALSE \/ denied' = Alive(connection) BY <1>8 DEF Abort
    <3>2. QED BY <3>1 DEF Alive
  <2>4. QED BY <1>1, <1>2, <2>1, <2>2, <2>3 DEF CommandInv, Commands
<1>9. UNCHANGED command \/ (\E m \in MountPoints : Unmount(m)) \/ Command
  BY DEF Next, Mount, Wedge, Die, Answer, Request, BeginWalk, VisitNext, SkipSeen, EndWalk, vars,
         mounts
<1>10. QED BY <1>3, <1>4, <1>5, <1>6, <1>7, <1>8, <1>9 DEF Command

(* A connection that the command has read, and that now serves or has        *)
(* sleepers only where it did: what it holds of it is kept.                  *)
LEMMA HeldKept ==
  ASSUME Held, target \in MountPoints,
         UNCHANGED <<target, connection, pc, tries, status, lazy, denied>>,
         connection # NoConn,
         \A m \in MountPoints : conn'[m] = connection => conn[m] = connection,
         conn[target] = connection =>
           conn'[target] = connection \/ (\A p \in Clients : blocked'[p] # connection),
         \A p \in Clients : blocked'[p] = connection => Serves(connection) \/ Asleep(connection),
         conn[target] # connection => 
           \A p \in Clients : blocked'[p] = connection => Asleep(connection)
  PROVE  Held'
BY DEF Held, Serves, Asleep


LEMMA HeldStep ==
  ASSUME CoreInv, [Next]_vars
  PROVE  Held'
<1>0. MountInv /\ CommandInv /\ Held BY DEF CoreInv
<1>1. /\ target \in MountPoints /\ made \in 0..MaxConn /\ connection \in 1..made \cup {NoConn}
      /\ conn \in [MountPoints -> 1..made \cup {NoConn}]
      /\ attached = {m \in MountPoints : conn[m] # NoConn}
      /\ blocked \in [Clients -> 1..made \cup {NoConn}]
  BY <1>0 DEF MountInv, CommandInv
<1>2. SUFFICES ASSUME connection' # NoConn PROVE Held'
  BY DEF Held
<1>3. ASSUME NEW m \in MountPoints, Mount(m) PROVE Held'
  <2>1. /\ m \notin attached /\ conn' = [conn EXCEPT ![m] = made + 1]
        /\ UNCHANGED <<blocked, command>>
    BY <1>3 DEF Mount
  <2>2. conn[m] = NoConn /\ connection # made + 1 /\ connection # NoConn
        /\ UNCHANGED <<target, connection, pc, tries, status, lazy, denied>>
    BY <1>1, <1>2, <2>1, NoConnIsNone DEF command
  <2>3. \A n \in MountPoints : conn'[n] = IF n = m THEN made + 1 ELSE conn[n] BY <1>1, <2>1
  <2>4. QED BY <1>0, <1>1, <2>1, <2>2, <2>3, HeldKept DEF Asleep
<1>4. ASSUME NEW c \in Conns, Wedge(c) PROVE Held'
  <2>1. UNCHANGED <<conn, blocked, target, connection, pc, tries, status, lazy, denied>> BY <1>4 DEF Wedge, command
  <2>2. QED BY <1>0, <1>1, <1>2, <2>1, HeldKept DEF Asleep
<1>5. ASSUME NEW c \in Conns, Die(c) PROVE Held'
  <2>1. Released(c) /\ UNCHANGED <<target, connection, pc, tries, status, lazy, denied>>
    BY <1>5 DEF Die, command
  <2>2. /\ \A m \in MountPoints : conn'[m] = IF conn[m] = c THEN NoConn ELSE conn[m]
        /\ \A p \in Clients : blocked'[p] = IF blocked[p] = c THEN NoConn ELSE blocked[p]
    BY <1>0, <2>1, ReleasedIs DEF Conns
  <2>3. connection # NoConn BY <1>2, <2>1
  <2>4. QED BY <1>0, <1>1, <2>1, <2>2, <2>3, HeldKept DEF Asleep
<1>6. ASSUME NEW p \in Clients, Answer(p) \/ \E m \in MountPoints : Request(p, m) PROVE Held'
  <2>1. UNCHANGED <<conn, target, connection, pc, tries, status, lazy, denied>>
    BY <1>6 DEF Answer, Request, command
  <2>2. PICK c \in {NoConn} \cup {conn[m] : m \in MountPoints} :
          blocked' = [blocked EXCEPT ![p] = c]
    BY <1>6 DEF Answer, Request
  <2>3. \A q \in Clients : blocked'[q] = IF q = p THEN c ELSE blocked[q] BY <1>1, <2>2
  <2>4. \A q \in Clients : blocked'[q] = connection => Serves(connection) \/ Asleep(connection)
    BY <1>2, <2>1, <2>2, <2>3 DEF Serves, Asleep
  <2>5. conn[target] # connection => ~Serves(connection)
    BY <1>0, <1>2, <2>1 DEF Held, Serves
  <2>6. QED BY <1>0, <1>1, <1>2, <2>1, <2>3, <2>4, <2>5, HeldKept DEF Asleep
<1>7. CASE \E m \in MountPoints : Unmount(m) BY <1>2, <1>7 DEF Unmount
<1>8. CASE ReadConnection
  <2>1. /\ connection' = conn[target] /\ pc' = "try"
        /\ UNCHANGED <<target, conn, blocked, tries, status>>
    BY <1>8 DEF ReadConnection, daemons
  <2>2. \A m \in MountPoints : conn[m] = conn[target] /\ conn[m] # NoConn => m = target
    BY <1>0, <1>1 DEF MountInv
  <2>3. QED BY <1>2, <2>1, <2>2 DEF Held
<1>9. CASE Succeeds \/ Fails
  <2>1. pc = "try" /\ UNCHANGED <<target, connection, blocked>> BY <1>9 DEF Succeeds, Fails
  <2>2. \/ (IsLazy(tries + 1) \/ ~Busy(conn[target])) /\ Detached(target)
        \/ Fails /\ UNCHANGED <<attached, conn>>
    BY <1>9 DEF Succeeds, Fails, Detaches
  <2>3. (Detached(target) \/ UNCHANGED <<attached, conn>>) /\ tries \in 0..5
    BY <1>0, <2>2 DEF CommandInv, Commands
  <2>4. Detached(target) =>
          conn'[target] = NoConn /\ \A n \in MountPoints : n # target => conn'[n] = conn[n]
    BY <1>0, <1>1, DetachedIs
  <2>5. \A m \in MountPoints : conn'[m] = connection => conn[m] = connection
    BY <1>2, <2>1, <2>3, <2>4
  <2>6. Detached(target) /\ tries + 1 <= 2 => ~Asleep(connection)
    <3>1. SUFFICES ASSUME Detached(target), tries + 1 <= 2 PROVE ~Asleep(connection) OBVIOUS
    <3>2. tries <= 2 /\ ~IsLazy(tries + 1) BY <2>3, <3>1 DEF IsLazy
    <3>3. conn[target] = connection \/ ~Asleep(connection) BY <1>0, <1>2, <2>1, <3>2 DEF Held
    <3>4. CASE ~Busy(conn[target]) BY <3>3, <3>4 DEF Busy, Asleep
    <3>5. CASE Fails /\ UNCHANGED <<attached, conn>>
      <4>1. conn[target] = NoConn BY <1>1, <2>4, <3>1, <3>5
      <4>2. QED BY <1>2, <2>1, <3>3, <4>1
    <3>6. QED BY <2>2, <3>2, <3>4, <3>5
  <2>7. CASE Succeeds
    <3>1. /\ Detached(target) /\ lazy' = IsLazy(tries + 1) /\ UNCHANGED tries
          /\ pc' = IF lazy' THEN "abort" ELSE "done"
      BY <2>7 DEF Succeeds, Detaches
    <3>2. CASE IsLazy(tries + 1)
      <4>1. pc' = "abort" BY <3>1, <3>2
      <4>2. QED BY <1>0, <1>2, <2>1, <2>5, <4>1 DEF Held
    <3>3. CASE ~IsLazy(tries + 1)
      <4>0. tries + 1 <= 2 BY <2>3, <3>3 DEF IsLazy
      <4>1. pc' = "done" /\ tries + 1 <= 2 BY <3>1, <3>3, <4>0
      <4>2. ~Asleep(connection) BY <2>6, <3>1, <4>1
      <4>3. \A m \in MountPoints : conn'[m] # connection
        BY <1>0, <1>2, <2>1, <2>4, <2>5, <3>1 DEF Held
      <4>4. QED BY <2>1, <4>1, <4>2, <4>3 DEF Held, Serves, Asleep
    <3>4. QED BY <3>2, <3>3
  <2>8. CASE Fails
    <3>1. tries' = tries + 1 /\ pc' \in {"abort", "try"} BY <2>8 DEF Fails
    <3>2. \A m \in MountPoints : conn'[m] = connection => m = target
      BY <1>0, <1>2, <2>1, <2>5 DEF Held
    <3>3. tries' <= 2 => tries <= 2 /\ tries + 1 <= 2 BY <2>3, <3>1
    <3>4. tries' <= 2 => conn'[target] = connection \/ ~Asleep(connection)
      BY <1>0, <1>1, <1>2, <2>1, <2>3, <2>6, <3>3 DEF Held
    <3>5. QED BY <2>1, <3>1, <3>2, <3>4 DEF Held, Asleep
  <2>9. QED BY <1>9, <2>7, <2>8
<1>10. CASE Abort
  <2>1. pc' = "done" /\ UNCHANGED <<target, connection>> BY <1>10 DEF Abort
  <2>2. connection \in Conns /\ connection # NoConn
    BY <1>1, <1>2, <2>1, NoConnIsNone DEF Conns
  <2>3. CASE Released(connection)
    <3>1. /\ \A m \in MountPoints :
               conn'[m] = IF conn[m] = connection THEN NoConn ELSE conn[m]
          /\ \A p \in Clients :
               blocked'[p] = IF blocked[p] = connection THEN NoConn ELSE blocked[p]
      BY <1>0, <2>2, <2>3, ReleasedIs DEF Conns
    <3>2. \A m \in MountPoints : conn'[m] # connection BY <2>2, <3>1
    <3>3. \A p \in Clients : blocked'[p] # connection BY <2>2, <3>1
    <3>4. QED BY <2>1, <3>2, <3>3 DEF Held, Serves, Asleep
  <2>4. CASE ~Alive(connection) /\ UNCHANGED <<attached, conn, blocked>>
    <3>1. ~Serves(connection) /\ ~Asleep(connection)
      BY <2>2, <2>4 DEF Alive, Busy, Serves, Asleep
    <3>2. QED BY <2>1, <2>4, <3>1 DEF Held, Serves, Asleep
  <2>5. CASE /\ Alive(connection) /\ denied' = Alive(connection)
             /\ status' = (IF unmounted THEN 0 ELSE 1) /\ UNCHANGED <<conn, blocked>>
    <3>1. denied' = TRUE /\ lazy' = lazy BY <1>10, <2>5 DEF Abort
    <3>2. pc = "abort" BY <1>10 DEF Abort
    <3>3. status' = 0 => lazy' BY <1>0, <2>5, <3>1, <3>2 DEF CommandInv
    <3>4. \A m \in MountPoints : conn'[m] = connection => m = target
      BY <1>0, <2>2, <2>5 DEF Held
    <3>5. QED BY <2>1, <3>1, <3>3, <3>4 DEF Held
  <2>6. QED BY <1>10, <2>3, <2>4, <2>5 DEF Abort
<1>11. CASE UNCHANGED <<daemons, command>>
  BY <1>0, <1>11 DEF Held, Serves, Asleep, daemons, command
<1>12. UNCHANGED vars \/ BeginWalk \/ VisitNext \/ SkipSeen \/ EndWalk
       => UNCHANGED <<daemons, command>>
  BY DEF vars, BeginWalk, VisitNext, SkipSeen, EndWalk, mounts
<1>13. QED
  BY <1>3, <1>4, <1>5, <1>6, <1>7, <1>8, <1>9, <1>10, <1>11, <1>12 DEF Next, Command


LEMMA KnownStep ==
  ASSUME CoreInv, [Next]_vars
  PROVE  KnownInv'
<1>1. /\ walkPc \in {"idle", "walking", "done"} /\ excluded \in Exclusions
      /\ known \subseteq MountPoints /\ attached \subseteq MountPoints
  BY DEF CoreInv, KnownInv, MountInv
<1>2. excluded' = excluded
  BY DEF Next, Command, Mount, Unmount, Wedge, Die, Answer, Request, ReadConnection, Succeeds, Fails,
         Abort, BeginWalk, VisitNext, SkipSeen, EndWalk, Begin, Visit, SeenBefore, End, vars
<1>3. CASE BeginWalk
  <2>1. known' = attached \cup excluded /\ walkPc' \in {"walking", "done"}
    BY <1>3 DEF BeginWalk, Begin
  <2>2. QED BY <1>1, <1>2, <2>1, MountsAssumption DEF KnownInv
<1>4. CASE walkPc' \in {walkPc, "done"} /\ UNCHANGED known BY <1>1, <1>2, <1>4 DEF KnownInv
<1>5. BeginWalk \/ (walkPc' \in {walkPc, "done"} /\ UNCHANGED known)
  BY DEF Next, Command, Mount, Unmount, Wedge, Die, Answer, Request, ReadConnection, Succeeds, Fails,
         Abort, VisitNext, SkipSeen, EndWalk, Visit, SeenBefore, End, vars, walkVars
<1>6. QED BY <1>3, <1>4, <1>5

LEMMA CoreIsKept == Spec => []CoreInv
<1>1. CoreInv /\ [Next]_vars => CoreInv'
  <2>1. SUFFICES ASSUME CoreInv, [Next]_vars PROVE CoreInv' OBVIOUS
  <2>2. QED BY <2>1, MountStep, CommandStep, HeldStep, KnownStep DEF CoreInv
<1>2. QED BY <1>1, InitCore, PTL DEF Spec

(* The mount table and the connections agree, a client sleeps only in a      *)
(* connection that was made, and the state of the command and of the walk    *)
(* is of its kind (_unmount, iter_files_outside_fuse).                       *)
THEOREM TypeCorrect == Spec => []TypeOK
<1>1. CoreInv => TypeOK
  <2>1. SUFFICES ASSUME CoreInv PROVE TypeOK OBVIOUS
  <2>2. MountInv /\ CommandInv /\ KnownInv BY <2>1 DEF CoreInv
  <2>3. connection \in Conns \cup {NoConn}
    <3>1. made \in 0..MaxConn /\ connection \in 1..made \cup {NoConn}
      BY <2>2 DEF MountInv, CommandInv
    <3>2. QED BY <3>1, NoConnIsNone DEF Conns
  <2>4. QED BY <2>2, <2>3 DEF TypeOK, MountInv, CommandInv, KnownInv
<1>2. QED BY <1>1, CoreIsKept, PTL

(* When memory --unmount reports success, nobody is asleep in the connection *)
(* it read, whichever of its tools were missing, failed or timed out, and    *)
(* whatever was mounted meanwhile - unless it detached the mount lazily and  *)
(* could not write the abort file, which it does not report (_unmount,       *)
(* _abort_fuse_connection).                                                  *)
THEOREM UnmountLetsGo == Spec => []UnmountReleases
<1>1. CoreInv => UnmountReleases BY DEF CoreInv, Held, UnmountReleases, Asleep
<1>2. QED BY <1>1, CoreIsKept, PTL


-----------------------------------------------------------------------------
(* Paths, which are sequences of names: what is below what.                  *)
LEMMA BelowIs ==
  ASSUME NEW m \in Paths, NEW p \in Paths
  PROVE  Below(m, p) <=> Len(m) <= Len(p) /\ \A i \in 1..Len(m) : m[i] = p[i]
<1>1. m \in Seq(STRING) /\ p \in Seq(STRING) /\ Len(m) \in Nat /\ Len(p) \in Nat BY DEF Paths
<1>2. SubSeq(m, 1, Len(m)) = m BY <1>1, SubSeqFull
<1>3. ASSUME Len(m) <= Len(p)
      PROVE  /\ SubSeq(p, 1, Len(m)) \in Seq(STRING) /\ Len(SubSeq(p, 1, Len(m))) = Len(m)
             /\ \A i \in 1..Len(m) : SubSeq(p, 1, Len(m))[i] = p[i]
  <2>1. \A i \in 1..Len(m) : p[i] \in STRING BY <1>1, <1>3, ElementOfSeq
  <2>2. QED BY <1>1, <2>1, SubSeqProperties
<1>4. ASSUME Len(m) <= Len(p), \A i \in 1..Len(m) : m[i] = p[i]
      PROVE  m = SubSeq(p, 1, Len(m))
  BY <1>1, <1>3, <1>4, SeqEqual
<1>5. QED BY <1>2, <1>3, <1>4 DEF Below, IsPrefix

LEMMA Upward ==
  ASSUME NEW e \in Paths, e # <<>>
  PROVE  /\ Parent(e) \in Paths /\ Last(e) \in STRING /\ Len(e) \in Nat \ {0}
         /\ Len(Parent(e)) = Len(e) - 1 /\ \A i \in 1..(Len(e) - 1) : Parent(e)[i] = e[i]
         /\ e = Append(Parent(e), Last(e))
<1>1. e \in Seq(STRING) /\ Len(e) \in Nat \ {0} BY EmptySeq DEF Paths
<1>2. Last(e) = e[Len(e)] /\ Last(e) \in STRING BY <1>1, ElementOfSeq DEF Last
<1>3. Parent(e) = SubSeq(e, 1, Len(e) - 1) BY DEF Parent, Front
<1>4. \A i \in 1..(Len(e) - 1) : e[i] \in STRING BY <1>1, ElementOfSeq
<1>5. /\ Parent(e) \in Seq(STRING) /\ Len(Parent(e)) = Len(e) - 1
      /\ \A i \in 1..(Len(e) - 1) : Parent(e)[i] = e[i]
  <2> DEFINE k == Len(e) - 1
  <2>1. k \in Nat /\ 1 \in Int /\ k \in Int BY <1>1
  <2>2. \A i \in 1..k : e[i] \in STRING BY <1>4
  <2> HIDE DEF k
  <2>3. /\ SubSeq(e, 1, k) \in Seq(STRING) /\ Len(SubSeq(e, 1, k)) = IF 1 <= k THEN k - 1 + 1 ELSE 0
        /\ \A i \in 1..(k - 1 + 1) : SubSeq(e, 1, k)[i] = e[1 + i - 1]
    BY <2>1, <2>2, SubSeqProperties
  <2>4. Len(SubSeq(e, 1, k)) = k BY <2>1, <2>3
  <2>5. \A i \in 1..k : i \in 1..(k - 1 + 1) /\ 1 + i - 1 = i BY <2>1
  <2>6. \A i \in 1..k : SubSeq(e, 1, k)[i] = e[i] BY <2>3, <2>5
  <2>7. QED BY <1>3, <2>3, <2>4, <2>6 DEF k
<1>6. e = Append(Parent(e), Last(e))
  <2>1. Append(Parent(e), Last(e)) \in Seq(STRING) /\ Len(Append(Parent(e), Last(e))) = Len(e)
    BY <1>1, <1>2, <1>5
  <2>2. \A i \in 1..Len(e) : Append(Parent(e), Last(e))[i] = e[i] BY <1>1, <1>2, <1>5
  <2>3. QED BY <1>1, <2>1, <2>2, SeqEqual
<1>7. QED BY <1>1, <1>2, <1>5, <1>6 DEF Paths

LEMMA Downward ==
  ASSUME NEW p \in Paths, NEW x \in STRING
  PROVE  /\ Append(p, x) \in Paths /\ Append(p, x) # <<>> /\ Parent(Append(p, x)) = p
         /\ Last(Append(p, x)) = x
<1>1. /\ p \in Seq(STRING) /\ Len(p) \in Nat /\ Append(p, x) \in Seq(STRING)
      /\ Len(Append(p, x)) = Len(p) + 1 /\ Append(p, x)[Len(p) + 1] = x
      /\ \A i \in 1..Len(p) : Append(p, x)[i] = p[i]
  BY DEF Paths
<1>2. Append(p, x) \in Paths /\ Append(p, x) # <<>>
  <2>1. Len(Append(p, x)) # 0 BY <1>1
  <2>2. Len(<<>>) = 0 BY EmptySeq
  <2>3. QED BY <1>1, <2>1, <2>2 DEF Paths
<1>3. /\ Parent(Append(p, x)) \in Seq(STRING) /\ Len(Parent(Append(p, x))) = Len(p)
      /\ \A i \in 1..Len(p) : Parent(Append(p, x))[i] = p[i]
  <2>1. /\ Parent(Append(p, x)) \in Paths
        /\ Len(Parent(Append(p, x))) = Len(Append(p, x)) - 1
        /\ \A i \in 1..(Len(Append(p, x)) - 1) : Parent(Append(p, x))[i] = Append(p, x)[i]
    BY <1>2, Upward
  <2>2. Len(Append(p, x)) - 1 = Len(p) BY <1>1
  <2>3. QED BY <1>1, <2>1, <2>2 DEF Paths
<1>4. Parent(Append(p, x)) = p BY <1>1, <1>3, SeqEqual
<1>5. QED BY <1>1, <1>2, <1>4 DEF Last

LEMMA BelowItself == ASSUME NEW p \in Paths PROVE Below(p, p)
BY BelowIs DEF Paths

LEMMA BelowAnEntry ==
  ASSUME NEW m \in Paths, NEW e \in Paths, e # <<>>
  PROVE  Below(m, e) <=> m = e \/ Below(m, Parent(e))
<1>1. /\ Parent(e) \in Paths /\ Len(e) \in Nat \ {0} /\ Len(m) \in Nat
      /\ Len(Parent(e)) = Len(e) - 1 /\ \A i \in 1..(Len(e) - 1) : Parent(e)[i] = e[i]
  BY Upward DEF Paths
<1>2. ASSUME Below(m, e), m # e PROVE Below(m, Parent(e))
  <2>1. Len(m) <= Len(e) /\ \A i \in 1..Len(m) : m[i] = e[i] BY <1>2, BelowIs
  <2>2. Len(m) # Len(e) BY <1>2, <2>1, SeqEqual DEF Paths
  <2>3. Len(m) <= Len(Parent(e)) BY <1>1, <2>1, <2>2
  <2>4. \A i \in 1..Len(m) : m[i] = Parent(e)[i] BY <1>1, <2>1, <2>3
  <2>5. QED BY <1>1, <2>3, <2>4, BelowIs
<1>3. ASSUME Below(m, Parent(e)) PROVE Below(m, e)
  <2>1. Len(m) <= Len(Parent(e)) /\ \A i \in 1..Len(m) : m[i] = Parent(e)[i]
    BY <1>1, <1>3, BelowIs
  <2>2. Len(m) <= Len(e) BY <1>1, <2>1
  <2>3. \A i \in 1..Len(m) : m[i] = e[i] BY <1>1, <2>1
  <2>4. QED BY <2>2, <2>3, BelowIs
<1>4. QED BY <1>2, <1>3, BelowItself

(* A finite set as a sequence.                                               *)
LEMMA SetToSeqIs ==
  ASSUME NEW S, IsFiniteSet(S)
  PROVE  /\ SetToSeq(S) \in Seq(S)
         /\ \A x \in S : \E i \in 1..Len(SetToSeq(S)) : SetToSeq(S)[i] = x
         /\ \A i, j \in 1..Len(SetToSeq(S)) : SetToSeq(S)[i] = SetToSeq(S)[j] => i = j
<1> DEFINE n == Cardinality(S)
           s == SetToSeq(S)
<1>1. n \in Nat /\ ExistsBijection(1..n, S) BY FS_CardinalityType
<1>2. \E f \in [1..n -> S] : IsInjective(f)
  BY <1>1 DEF ExistsBijection, Bijection, Injection
<1>3. s \in [1..n -> S] /\ IsInjective(s) BY <1>2 DEF SetToSeq
<1>4. s \in Seq(S) /\ Len(s) = n BY <1>1, <1>3, SeqDef
<1>5. s \in Injection(1..n, S) BY <1>3 DEF Injection
<1>6. IsFiniteSet(1..n) /\ Cardinality(1..n) = n BY <1>1, FS_Interval
<1>7. s \in Surjection(1..n, S) BY <1>5, <1>6, FS_Injection
<1>8. \A x \in S : \E i \in 1..n : s[i] = x BY <1>7 DEF Surjection
<1>9. QED BY <1>3, <1>4, <1>8 DEF IsInjective

-----------------------------------------------------------------------------
(* The walk, where links are plain.  A directory on the stack is where the   *)
(* walk believes it to be, outside the mounts, and is named by its real path *)
(* but where a link led to it; what a directory visited holds was found, or  *)
(* is to visit.                                                              *)

Items == [walk : Paths, real : Paths, at : Paths]

Right(d) ==
  /\ d.at = d.real
  /\ d.walk = d.at \/ \E k \in DOMAIN link : Below(Leads(link, k), d.at)
  /\ d.walk \in Dirs => d.walk = d.at
  /\ \A m \in known : ~Below(m, d.at)

ToVisit(d) == \E i \in 1..Len(stack) : stack[i].real = d
Found(f) == \E i \in 1..Len(found) : found[i] = f
Open(path) == \A m \in known : ~Below(m, path)

Listed(d) ==
  \A e \in Entries(d) :
    Open(e) /\ Open(Place(link, e)) =>
      /\ e \in Files => Found(e)
      /\ Place(link, e) \in Dirs => Place(link, e) \in seen \/ ToVisit(Place(link, e))

StackInv == stack \in Seq(Items) /\ \A i \in 1..Len(stack) : Right(stack[i])
TouchInv == \A path \in touched : Open(path)
FoundInv ==
  /\ found \in Seq(Files) /\ \A i \in 1..Len(found) : Parent(found[i]) \in seen
  /\ \A i, j \in 1..Len(found) : found[i] = found[j] => i = j
SeenInv ==
  /\ \A d \in seen : Listed(d)
  /\ walkPc = "walking" => Resolve(base) \in seen \/ ToVisit(Resolve(base))
StartInv ==
  /\ base \in Bases /\ link \in Layouts
  /\ walkPc = "idle" => seen = {} /\ stack = <<>> /\ found = <<>> /\ touched = {}
  /\ walkPc # "idle" => excluded \subseteq known

WalkInv == StartInv /\ StackInv /\ TouchInv /\ FoundInv /\ SeenInv

LEMMA PathsAre ==
  /\ Dirs \subseteq Paths /\ Files \subseteq Paths /\ Bases \subseteq Paths
  /\ MountPoints \subseteq Paths
BY TreeAssumption, MountsAssumption

LEMMA LinkIs ==
  ASSUME PlainLinks(Layouts), link \in Layouts, NEW l \in DOMAIN link
  PROVE  /\ l \in Paths /\ l # <<>> /\ l \notin Dirs /\ l \notin Files
         /\ Leads(link, l) = Target(link, Parent(l), l) /\ Leads(link, l) \in Dirs
         /\ \A m \in MountPoints : Below(m, Leads(link, l)) => m = Leads(link, l)
         /\ ~link[l].absolute => \A k \in DOMAIN link : ~Below(Leads(link, k), Parent(l))
<1>1. l \in Paths \ {<<>>} /\ DOMAIN link \cap (Dirs \cup Files) = {} BY LinksAssumption
<1>2. QED BY <1>1 DEF PlainLinks

LEMMA StoreIs ==
  ASSUME PlainLinks(Layouts), link \in Layouts, base \in Bases
  PROVE  /\ Resolve(base) = Place(link, base)
         /\ base \notin DOMAIN link => \A m \in MountPoints : Below(m, base) => m = base
BY DEF PlainLinks, Resolve

LEMMA EntryIs ==
  ASSUME PlainLinks(Layouts), link \in Layouts, NEW d, NEW e \in Entries(d)
  PROVE  /\ e \in Paths /\ e # <<>> /\ Parent(e) = d /\ e = Append(d, Last(e)) /\ Last(e) \in STRING
         /\ e \in Dirs \/ e \in Files \/ e \in DOMAIN link
         /\ Place(link, e) = IF e \in DOMAIN link THEN Leads(link, e) ELSE e
         /\ Place(link, e) \in Paths
<1>1. e \in Dirs \cup Files \cup DOMAIN link /\ e # <<>> /\ Parent(e) = d BY DEF Entries
<1>2. e \in Paths BY <1>1, PathsAre, LinkIs
<1>3. e = Append(d, Last(e)) /\ Last(e) \in STRING BY <1>1, <1>2, Upward
<1>4. Place(link, e) = IF e \in DOMAIN link THEN Leads(link, e) ELSE e BY DEF Place
<1>5. Place(link, e) \in Paths BY <1>2, <1>4, LinkIs, PathsAre
<1>6. QED BY <1>1, <1>2, <1>3, <1>4, <1>5

(* What an entry of a directory is to the walk.                              *)
LEMMA ChildIs ==
  ASSUME PlainLinks(Layouts), link \in Layouts, NEW d \in Items, Right(d), NEW e \in Entries(d.at)
  PROVE  LET c == Child(d, e) IN
         /\ c \in Items /\ c.walk = Append(d.walk, Last(e)) /\ c.at = Place(link, e) /\ c.real = c.at
         /\ c.walk = c.at \/ \E k \in DOMAIN link : Below(Leads(link, k), c.at)
         /\ c.walk \in Dirs => c.walk = c.at
<1> DEFINE c == Child(d, e)
           x == Last(e)
<1>1. /\ d.walk \in Paths /\ d.real = d.at /\ d.at \in Paths
      /\ d.walk = d.at \/ \E k \in DOMAIN link : Below(Leads(link, k), d.at)
      /\ d.walk \in Dirs => d.walk = d.at
  BY DEF Items, Right
<1>2. /\ e \in Paths /\ e # <<>> /\ Parent(e) = d.at /\ e = Append(d.at, x) /\ x \in STRING
      /\ Place(link, e) = IF e \in DOMAIN link THEN Leads(link, e) ELSE e
      /\ Place(link, e) \in Paths
  BY EntryIs
<1>3. /\ c = [walk |-> Append(d.walk, x),
              real |-> IF e \in DOMAIN link THEN Target(link, d.walk, e) ELSE Append(d.real, x),
              at |-> Place(link, e)]
      /\ c.walk = Append(d.walk, x) /\ c.at = Place(link, e)
      /\ c.real = IF e \in DOMAIN link THEN Target(link, d.walk, e) ELSE Append(d.real, x)
  BY DEF Child
<1>4. c.walk \in Paths /\ c.walk # <<>> /\ Parent(c.walk) = d.walk BY <1>1, <1>2, <1>3, Downward
<1>5. c.real = c.at
  <2>1. CASE e \notin DOMAIN link BY <1>1, <1>2, <1>3, <2>1
  <2>2. CASE e \in DOMAIN link /\ link[e].absolute
    <3>1. Target(link, d.walk, e) = Target(link, d.at, e) BY <2>2 DEF Target
    <3>2. QED BY <1>2, <1>3, <2>2, <3>1, LinkIs
  <2>3. CASE e \in DOMAIN link /\ ~link[e].absolute
    <3>1. d.walk = d.at BY <1>1, <1>2, <2>3, LinkIs
    <3>2. QED BY <1>2, <1>3, <2>3, <3>1, LinkIs
  <2>4. QED BY <2>1, <2>2, <2>3
<1>6. c.walk = c.at \/ \E k \in DOMAIN link : Below(Leads(link, k), c.at)
  <2>1. CASE e \in DOMAIN link
    <3>1. c.at = Leads(link, e) BY <1>2, <1>3, <2>1
    <3>2. Below(c.at, c.at) BY <1>2, <1>3, BelowItself
    <3>3. QED BY <2>1, <3>1, <3>2
  <2>2. CASE e \notin DOMAIN link
    <3>1. c.at = e BY <1>2, <1>3, <2>2
    <3>2. d.walk = d.at => c.walk = c.at BY <1>2, <1>3, <3>1
    <3>3. ASSUME NEW k \in DOMAIN link, Below(Leads(link, k), d.at) PROVE Below(Leads(link, k), c.at)
      <4>1. Leads(link, k) \in Paths BY LinkIs, PathsAre
      <4>2. QED BY <1>2, <3>1, <3>3, <4>1, BelowAnEntry
    <3>4. QED BY <1>1, <3>2, <3>3
  <2>3. QED BY <2>1, <2>2
<1>7. ASSUME c.walk \in Dirs PROVE c.walk = c.at
  <2>1. d.walk \in Dirs BY <1>4, <1>7, TreeAssumption
  <2>2. c.walk = e BY <1>1, <1>2, <1>3, <2>1
  <2>3. e \notin DOMAIN link BY <1>7, <2>2, LinkIs
  <2>4. QED BY <1>2, <1>3, <2>2, <2>3
<1>8. c \in Items BY <1>2, <1>3, <1>4, <1>5 DEF Items
<1> HIDE DEF c
<1>9. QED BY <1>3, <1>5, <1>6, <1>7, <1>8 DEF c

LEMMA KeptIs ==
  ASSUME PlainLinks(Layouts), link \in Layouts, known \subseteq MountPoints,
         NEW d \in Items, Right(d), NEW c \in Kept(d)
  PROVE  /\ c \in Items /\ Right(c)
         /\ \E e \in Entries(d.at) : c.at = Place(link, e)
         /\ c.at \notin Dirs => c.at \in Files /\ Parent(c.at) = d.at
<1>1. PICK e \in Entries(d.at) : c = Child(d, e) /\ c.real \notin known BY DEF Kept
<1>2. /\ c \in Items /\ c.at = Place(link, e) /\ c.real = c.at
      /\ c.walk = c.at \/ \E k \in DOMAIN link : Below(Leads(link, k), c.at)
      /\ c.walk \in Dirs => c.walk = c.at
  BY <1>1, ChildIs
<1>3. /\ e \in Paths /\ e # <<>> /\ Parent(e) = d.at
      /\ e \in Dirs \/ e \in Files \/ e \in DOMAIN link
      /\ Place(link, e) = IF e \in DOMAIN link THEN Leads(link, e) ELSE e
  BY EntryIs
<1>4. ASSUME NEW m \in known, Below(m, c.at) PROVE FALSE
  <2>1. m \in MountPoints /\ m \in Paths /\ m # c.at BY <1>1, <1>2, PathsAre
  <2>2. CASE e \in DOMAIN link BY <1>2, <1>3, <1>4, <2>1, <2>2, LinkIs
  <2>3. CASE e \notin DOMAIN link
    <3>1. Below(m, d.at) BY <1>2, <1>3, <1>4, <2>1, <2>3, BelowAnEntry
    <3>2. QED BY <3>1 DEF Right
  <2>4. QED BY <2>2, <2>3
<1>5. Right(c) BY <1>2, <1>4 DEF Right
<1>6. c.at \notin Dirs => c.at \in Files /\ Parent(c.at) = d.at BY <1>2, <1>3, LinkIs
<1>7. QED BY <1>2, <1>5, <1>6

(* No entry outside the mounts is left out.                                  *)
LEMMA OpenIsKept ==
  ASSUME PlainLinks(Layouts), link \in Layouts, known \subseteq MountPoints,
         NEW d \in Items, Right(d), NEW e \in Entries(d.at), Open(Place(link, e))
  PROVE  Child(d, e) \in Kept(d) /\ Child(d, e).at = Place(link, e)
<1> DEFINE c == Child(d, e)
<1>1. c.at = Place(link, e) /\ c.real = c.at /\ (c.walk \in Dirs => c.walk = c.at) BY ChildIs
<1>2. c.at \notin known
  <2>1. Place(link, e) \in Paths BY EntryIs
  <2>2. QED BY <1>1, <2>1, BelowItself DEF Open
<1>3. c.walk \notin known BY <1>1, <1>2, MountsAssumption
<1> HIDE DEF c
<1>4. c \in Kept(d) BY <1>1, <1>2, <1>3 DEF Kept, c
<1>5. QED BY <1>1, <1>4 DEF c

LEMMA EntriesAreFinite ==
  ASSUME link \in Layouts, NEW d PROVE IsFiniteSet(Kept(d))
<1>1. IsFiniteSet(Dirs \cup Files) /\ IsFiniteSet(DOMAIN link) BY TreeAssumption, LinksAssumption
<1>2. IsFiniteSet((Dirs \cup Files) \cup DOMAIN link) BY <1>1, FS_Union
<1>3. IsFiniteSet(Entries(d.at))
  <2>1. Entries(d.at) \in SUBSET ((Dirs \cup Files) \cup DOMAIN link) BY DEF Entries
  <2>2. QED BY <1>2, <2>1, FS_Subset
<1> DEFINE E == Entries(d.at)
           T == {Child(d, e) : e \in E}
           f == [e \in E |-> Child(d, e)]
<1>4. f \in Surjection(E, T)
  <2>1. f \in [E -> T] /\ \A t \in T : \E e \in E : f[e] = t OBVIOUS
  <2>2. QED BY <2>1 DEF Surjection
<1>5. IsFiniteSet(T) BY <1>3, <1>4, FS_Surjection
<1>6. Kept(d) \in SUBSET T BY DEF Kept
<1>7. QED BY <1>5, <1>6, FS_Subset

-----------------------------------------------------------------------------
(* Sequences that grow by the elements of a set.                             *)
LEMMA FrontIs ==
  ASSUME NEW T, NEW s \in Seq(T), s # <<>>
  PROVE  /\ Front(s) \in Seq(T) /\ Len(s) \in Nat \ {0} /\ Len(Front(s)) = Len(s) - 1
         /\ \A i \in 1..(Len(s) - 1) : Front(s)[i] = s[i]
         /\ Last(s) = s[Len(s)] /\ Last(s) \in T
<1> DEFINE k == Len(s) - 1
<1>1. Len(s) \in Nat \ {0} /\ Last(s) = s[Len(s)] /\ Last(s) \in T
  BY EmptySeq, ElementOfSeq DEF Last
<1>2. k \in Nat /\ 1 \in Int /\ k \in Int /\ \A i \in 1..k : i \in 1..Len(s) BY <1>1
<1>3. \A i \in 1..k : s[i] \in T BY <1>2, ElementOfSeq
<1>4. Front(s) = SubSeq(s, 1, k) BY DEF Front
<1> HIDE DEF k
<1>5. /\ SubSeq(s, 1, k) \in Seq(T) /\ Len(SubSeq(s, 1, k)) = IF 1 <= k THEN k - 1 + 1 ELSE 0
      /\ \A i \in 1..(k - 1 + 1) : SubSeq(s, 1, k)[i] = s[1 + i - 1]
  BY <1>2, <1>3, SubSeqProperties
<1>6. Len(SubSeq(s, 1, k)) = k BY <1>2, <1>5
<1>7. \A i \in 1..k : i \in 1..(k - 1 + 1) /\ 1 + i - 1 = i BY <1>2
<1>8. \A i \in 1..k : SubSeq(s, 1, k)[i] = s[i] BY <1>5, <1>7
<1>9. QED BY <1>1, <1>4, <1>5, <1>6, <1>8 DEF k

Adds(T, s, S, r) ==
  /\ r \in Seq(T)
  /\ \A i \in 1..Len(r) : r[i] \in S \/ \E j \in 1..Len(s) : r[i] = s[j]
  /\ \A j \in 1..Len(s) : \E i \in 1..Len(r) : r[i] = s[j]
  /\ \A x \in S : \E i \in 1..Len(r) : r[i] = x
  /\ (\A i, j \in 1..Len(s) : s[i] = s[j] => i = j) /\ (\A j \in 1..Len(s) : s[j] \notin S)
       => \A i, j \in 1..Len(r) : r[i] = r[j] => i = j

LEMMA AddedIs ==
  ASSUME NEW T, NEW s \in Seq(T), NEW S \in SUBSET T, IsFiniteSet(S)
  PROVE  Adds(T, s, S, s \o SetToSeq(S))
<1> DEFINE t == SetToSeq(S)
           r == s \o t
           n == Len(s)
           k == Len(t)
<1>1. /\ t \in Seq(S) /\ \A x \in S : \E i \in 1..k : t[i] = x
      /\ \A i, j \in 1..k : t[i] = t[j] => i = j
  BY SetToSeqIs
<1>2. t \in Seq(T) /\ n \in Nat /\ k \in Nat BY <1>1, SeqMonotonic
<1>3. \A i \in 1..k : t[i] \in S BY <1>1, ElementOfSeq
<1> HIDE DEF t, n, k
<1>4. r \in Seq(T) /\ Len(r) = n + k /\ \A i \in 1..(n + k) : r[i] = IF i <= n THEN s[i] ELSE t[i - n]
  BY <1>2, ConcatProperties DEF n, k
<1> HIDE DEF r
<1>5. \A i \in 1..n : i \in 1..(n + k) /\ r[i] = s[i] BY <1>2, <1>4
<1>6. \A i \in 1..k : n + i \in 1..(n + k) /\ r[n + i] = t[i]
  <2>1. SUFFICES ASSUME NEW i \in 1..k PROVE n + i \in 1..(n + k) /\ r[n + i] = t[i] OBVIOUS
  <2>2. n + i \in 1..(n + k) BY <1>2
  <2>3. ASSUME NEW j \in 1..(n + k), j = n + i PROVE r[j] = t[i]
    <3>1. ~(j <= n) /\ j - n = i BY <1>2, <2>3
    <3>2. r[j] = t[j - n] BY <1>4, <3>1
    <3>3. QED BY <3>1, <3>2
  <2>4. QED BY <2>2, <2>3
<1>7. \A i \in 1..(n + k) : i \in 1..n \/ \E j \in 1..k : i = n + j
  <2>1. SUFFICES ASSUME NEW i \in 1..(n + k), i \notin 1..n PROVE \E j \in 1..k : i = n + j OBVIOUS
  <2>2. i - n \in 1..k /\ i = n + (i - n) BY <1>2, <2>1
  <2>3. QED BY <2>2
<1>8. \A i \in 1..Len(r) : r[i] \in S \/ \E j \in 1..n : r[i] = s[j] BY <1>3, <1>4, <1>5, <1>6, <1>7
<1>9. \A x \in S : \E i \in 1..Len(r) : r[i] = x BY <1>1, <1>4, <1>6
<1>10. ASSUME \A i, j \in 1..n : s[i] = s[j] => i = j, \A j \in 1..n : s[j] \notin S,
              NEW i \in 1..Len(r), NEW j \in 1..Len(r), r[i] = r[j]
       PROVE  i = j
  <2>1. i \in 1..n /\ j \in 1..n => i = j BY <1>5, <1>10
  <2>2. ASSUME i \in 1..n, NEW b \in 1..k, j = n + b PROVE FALSE
    BY <1>3, <1>5, <1>6, <1>10, <2>2
  <2>3. ASSUME j \in 1..n, NEW a \in 1..k, i = n + a PROVE FALSE
    BY <1>3, <1>5, <1>6, <1>10, <2>3
  <2>4. ASSUME NEW a \in 1..k, NEW b \in 1..k, i = n + a, j = n + b PROVE i = j
    <3>1. t[a] = t[b] BY <1>6, <1>10, <2>4
    <3>2. QED BY <1>1, <2>4, <3>1
  <2>5. QED BY <1>4, <1>7, <1>10, <2>1, <2>2, <2>3, <2>4
<1>11. QED BY <1>4, <1>5, <1>8, <1>9, <1>10 DEF n, r, t, Adds

-----------------------------------------------------------------------------
(* The steps of the walk.                                                    *)
LEMMA InitWalk == Init => WalkInv
<1> SUFFICES ASSUME Init PROVE WalkInv OBVIOUS
<1>1. /\ base \in Bases /\ link \in Layouts /\ walkPc = "idle" /\ seen = {} /\ stack = <<>>
      /\ found = <<>> /\ touched = {}
  BY DEF Init, WalkInit
<1>2. stack \in Seq(Items) /\ Len(stack) = 0 /\ found \in Seq(Files) /\ Len(found) = 0
  BY <1>1, EmptySeq
<1>3. QED BY <1>1, <1>2 DEF WalkInv, StartInv, StackInv, TouchInv, FoundInv, SeenInv

(* What was listed remains so, if nothing found or to visit is lost.         *)
LEMMA ListedKept ==
  ASSUME UNCHANGED <<link, known>>, \A f : Found(f) => Found(f)',
         \A p : p \in seen \/ ToVisit(p) => p \in seen' \/ ToVisit(p)',
         NEW d, Listed(d)
  PROVE  Listed(d)'
<1>1. Entries(d)' = Entries(d) /\ \A e : Place(link, e)' = Place(link, e) /\ Open(e)' = Open(e)
  BY DEF Entries, Open
<1>2. SUFFICES ASSUME NEW e \in Entries(d), Open(e), Open(Place(link, e))
               PROVE  /\ e \in Files => Found(e)'
                      /\ Place(link, e) \in Dirs =>
                           Place(link, e) \in seen' \/ ToVisit(Place(link, e))'
  BY <1>1 DEF Listed, Entries, Open
<1>3. /\ e \in Files => Found(e)
      /\ Place(link, e) \in Dirs => Place(link, e) \in seen \/ ToVisit(Place(link, e))
  BY <1>2 DEF Listed
<1>4. QED BY <1>3

LEMMA BeginStep ==
  ASSUME PlainLinks(Layouts), attached \subseteq MountPoints, excluded \in Exclusions, WalkInv, Begin
  PROVE  WalkInv'
<1>1. /\ base \in Bases /\ link \in Layouts /\ walkPc = "idle" /\ seen = {} /\ stack = <<>>
      /\ found = <<>> /\ touched = {}
  BY DEF WalkInv, StartInv, Begin
<1>2. known' = attached \cup excluded /\ UNCHANGED <<base, link, excluded, seen, found, touched>>
  BY DEF Begin
<1>3. known' \subseteq MountPoints BY <1>2, MountsAssumption
<1>4. found \in Seq(Files) /\ Len(found) = 0 BY <1>1, EmptySeq
<1>5. TouchInv' /\ FoundInv' BY <1>1, <1>2, <1>4 DEF TouchInv, FoundInv
<1>6. CASE walkPc' = "done" /\ UNCHANGED stack
  <2>1. stack \in Seq(Items) /\ Len(stack) = 0 BY <1>1, EmptySeq
  <2>2. StackInv' /\ StartInv' BY <1>1, <1>2, <1>6, <2>1 DEF StackInv, StartInv
  <2>3. SeenInv' BY <1>1, <1>2, <1>6 DEF SeenInv
  <2>4. QED BY <1>5, <2>2, <2>3 DEF WalkInv
<1>7. ASSUME NEW real, real = IF base \in DOMAIN link THEN Target(link, Parent(base), base) ELSE base,
             {base, real} \cap known' = {}, walkPc' = "walking",
             stack' = <<[walk |-> base, real |-> real, at |-> Resolve(base)]>>
      PROVE  WalkInv'
  <2>1. /\ base \in Paths /\ Resolve(base) = Place(link, base)
        /\ base \notin DOMAIN link => \A m \in MountPoints : Below(m, base) => m = base
    BY <1>1, PathsAre, StoreIs
  <2>2. Resolve(base) = real /\ real \in Paths
        /\ real = IF base \in DOMAIN link THEN Leads(link, base) ELSE base
    BY <1>1, <1>7, <2>1, LinkIs, PathsAre DEF Place
  <2>3. PICK d \in Items : /\ d = [walk |-> base, real |-> real, at |-> Resolve(base)]
                           /\ d.walk = base /\ d.at = real /\ d.real = real
    <3>1. [walk |-> base, real |-> real, at |-> real] \in Items BY <2>1, <2>2 DEF Items
    <3>2. QED BY <2>2, <3>1
  <2>4. real = base \/ \E k \in DOMAIN link : Below(Leads(link, k), real) BY <2>2, BelowItself
  <2>5. base \in Dirs => real = base BY <1>1, <2>2, LinkIs
  <2>6. \A m \in known' : ~Below(m, real)
    <3>1. SUFFICES ASSUME NEW m \in known', Below(m, real) PROVE FALSE OBVIOUS
    <3>2. m \in MountPoints /\ m # real BY <1>3, <1>7, <3>1
    <3>3. QED BY <1>1, <2>1, <2>2, <3>1, <3>2, LinkIs
  <2>7. Right(d)' BY <1>2, <2>3, <2>4, <2>5, <2>6 DEF Right
  <2>8. stack' \in Seq(Items) /\ Len(stack') = 1 /\ stack'[1] = d BY <1>7, <2>3
  <2>9. StackInv' BY <2>7, <2>8 DEF StackInv
  <2>10. StartInv' BY <1>1, <1>2, <1>7 DEF StartInv
  <2>11. ToVisit(real)' BY <2>3, <2>8 DEF ToVisit
  <2>12. Resolve(base)' = real BY <1>2, <2>2 DEF Resolve
  <2>13. SeenInv' BY <1>1, <1>2, <2>11, <2>12 DEF SeenInv
  <2>14. QED BY <1>5, <2>9, <2>10, <2>13 DEF WalkInv
<1>8. QED BY <1>6, <1>7 DEF Begin


LEMMA SeenBeforeStep ==
  ASSUME WalkInv, SeenBefore
  PROVE  WalkInv'
<1>1. /\ walkPc = "walking" /\ stack # <<>> /\ Last(stack).real \in seen /\ stack' = Front(stack)
      /\ UNCHANGED <<base, link, excluded, walkPc, known, seen, found, touched>>
  BY DEF SeenBefore
<1>2. /\ stack \in Seq(Items) /\ \A i \in 1..Len(stack) : Right(stack[i])
      /\ StartInv /\ TouchInv /\ FoundInv /\ SeenInv
  BY DEF WalkInv, StackInv
<1>3. /\ stack' \in Seq(Items) /\ Len(stack) \in Nat \ {0} /\ Len(stack') = Len(stack) - 1
      /\ \A i \in 1..(Len(stack) - 1) : stack'[i] = stack[i]
      /\ Last(stack) = stack[Len(stack)]
  BY <1>1, <1>2, FrontIs
<1>4. StackInv'
  <2>1. ASSUME NEW i \in 1..Len(stack'), NEW d, d = stack'[i] PROVE Right(d)'
    <3>1. i \in 1..Len(stack) /\ stack'[i] = stack[i] BY <1>3
    <3>2. Right(d) BY <1>2, <2>1, <3>1
    <3>3. QED BY <1>1, <3>2 DEF Right
  <2>2. QED BY <1>3, <2>1 DEF StackInv, Right
<1>5. \A p : p \in seen \/ ToVisit(p) => p \in seen' \/ ToVisit(p)'
  <2>1. SUFFICES ASSUME NEW i \in 1..Len(stack), NEW p, p = stack[i].real
                 PROVE  p \in seen' \/ ToVisit(p)'
    BY <1>1 DEF ToVisit
  <2>2. CASE i = Len(stack) BY <1>1, <1>3, <2>1, <2>2
  <2>3. CASE i # Len(stack)
    <3>1. i \in 1..(Len(stack) - 1) /\ i \in 1..Len(stack') /\ stack'[i] = stack[i] BY <1>3, <2>3
    <3>2. QED BY <2>1, <3>1 DEF ToVisit
  <2>4. QED BY <2>2, <2>3
<1>6. \A f : Found(f) => Found(f)' BY <1>1 DEF Found
<1>7. \A d \in seen : Listed(d)' BY <1>1, <1>2, <1>5, <1>6, ListedKept DEF SeenInv
<1>8. SeenInv'
  <2>1. Resolve(base)' = Resolve(base) BY <1>1 DEF Resolve
  <2>2. QED BY <1>1, <1>2, <1>5, <1>7, <2>1 DEF SeenInv
<1>9. StartInv' /\ TouchInv' /\ FoundInv'
  BY <1>1, <1>2 DEF StartInv, TouchInv, FoundInv, Open
<1>10. QED BY <1>4, <1>8, <1>9 DEF WalkInv

LEMMA VisitStep ==
  ASSUME PlainLinks(Layouts), known \subseteq MountPoints, WalkInv, Visit
  PROVE  WalkInv'
<1>1. /\ stack \in Seq(Items) /\ \A i \in 1..Len(stack) : Right(stack[i])
      /\ StartInv /\ TouchInv /\ FoundInv /\ SeenInv
  BY DEF WalkInv, StackInv
<1>2. PICK dir, children, subdirs :
        /\ dir = Last(stack) /\ children = Kept(dir) /\ subdirs = {c \in children : c.at \in Dirs}
        /\ walkPc = "walking" /\ stack # <<>> /\ dir.real \notin seen
        /\ seen' = seen \cup {dir.real} /\ stack' = Front(stack) \o SetToSeq(subdirs)
        /\ found' = found \o SetToSeq({c.at : c \in children \ subdirs})
        /\ touched' = touched \cup {dir.at} \cup {c.at : c \in children}
        /\ UNCHANGED <<base, link, excluded, walkPc, known>>
  BY DEF Visit
<1>3. /\ Front(stack) \in Seq(Items) /\ Len(stack) \in Nat \ {0}
      /\ Len(Front(stack)) = Len(stack) - 1
      /\ \A i \in 1..(Len(stack) - 1) : Front(stack)[i] = stack[i]
      /\ dir = stack[Len(stack)] /\ dir \in Items
  BY <1>1, <1>2, FrontIs
<1>4. Right(dir) /\ dir.at = dir.real
  <2>1. Right(dir) BY <1>1, <1>3
  <2>2. QED BY <2>1 DEF Right
<1>5. link \in Layouts BY <1>1 DEF StartInv
<1>6. /\ \A c \in children : /\ c \in Items /\ Right(c)
                             /\ c.at \notin Dirs => c.at \in Files /\ Parent(c.at) = dir.at
  BY <1>2, <1>3, <1>4, <1>5, KeptIs
<1>7. IsFiniteSet(children) /\ IsFiniteSet(subdirs) /\ subdirs \in SUBSET Items
  <2>1. IsFiniteSet(children) BY <1>2, <1>5, EntriesAreFinite
  <2>2. subdirs \in SUBSET children BY <1>2
  <2>3. QED BY <1>6, <2>1, <2>2, FS_Subset
<1> DEFINE files == {c.at : c \in children \ subdirs}
<1>8. files \in SUBSET Files /\ IsFiniteSet(files) /\ \A f \in files : Parent(f) = dir.at
  <2>1. \A f \in files : f \in Files /\ Parent(f) = dir.at BY <1>2, <1>6
  <2>2. files \in SUBSET (Dirs \cup Files) BY <2>1
  <2>3. QED BY <2>1, <2>2, FS_Subset, TreeAssumption
<1>9. found' = found \o SetToSeq(files) BY <1>2
<1>24. \A c \in children \ subdirs : c.at \in files OBVIOUS
<1> HIDE DEF files
<1>10. /\ stack' \in Seq(Items)
       /\ \A i \in 1..Len(stack') :
            stack'[i] \in subdirs \/ \E j \in 1..(Len(stack) - 1) : stack'[i] = stack[j]
       /\ \A j \in 1..(Len(stack) - 1) : \E i \in 1..Len(stack') : stack'[i] = stack[j]
       /\ \A x \in subdirs : \E i \in 1..Len(stack') : stack'[i] = x
  <2> DEFINE s == Front(stack)
  <2>1. s \in Seq(Items) /\ Len(s) = Len(stack) - 1 /\ stack' = s \o SetToSeq(subdirs)
        /\ \A i \in 1..(Len(stack) - 1) : s[i] = stack[i]
    BY <1>2, <1>3
  <2> HIDE DEF s
  <2>2. /\ stack' \in Seq(Items)
        /\ \A i \in 1..Len(stack') : stack'[i] \in subdirs \/ \E j \in 1..Len(s) : stack'[i] = s[j]
        /\ \A j \in 1..Len(s) : \E i \in 1..Len(stack') : stack'[i] = s[j]
        /\ \A x \in subdirs : \E i \in 1..Len(stack') : stack'[i] = x
    <3>1. Adds(Items, s, subdirs, stack') BY <1>7, <2>1, AddedIs
    <3>2. QED BY <3>1 DEF Adds
  <2>3. ASSUME NEW i \in 1..Len(stack')
        PROVE  stack'[i] \in subdirs \/ \E j \in 1..(Len(stack) - 1) : stack'[i] = stack[j]
    <3>1. CASE stack'[i] \in subdirs BY <3>1
    <3>2. ASSUME NEW j \in 1..Len(s), stack'[i] = s[j]
          PROVE  j \in 1..(Len(stack) - 1) /\ stack'[i] = stack[j]
      BY <2>1, <3>2
    <3>3. QED BY <2>2, <3>1, <3>2
  <2>4. ASSUME NEW j \in 1..(Len(stack) - 1) PROVE \E i \in 1..Len(stack') : stack'[i] = stack[j]
    <3>1. j \in 1..Len(s) /\ s[j] = stack[j] BY <2>1
    <3>2. QED BY <2>2, <3>1
  <2>5. QED BY <2>2, <2>3, <2>4
<1>11. /\ found \in Seq(Files) /\ \A i \in 1..Len(found) : Parent(found[i]) \in seen
       /\ \A i, j \in 1..Len(found) : found[i] = found[j] => i = j
  BY <1>1 DEF FoundInv
<1>12. \A j \in 1..Len(found) : found[j] \notin files BY <1>2, <1>4, <1>8, <1>11
<1>13. /\ found' \in Seq(Files)
       /\ \A i \in 1..Len(found') : found'[i] \in files \/ \E j \in 1..Len(found) : found'[i] = found[j]
       /\ \A j \in 1..Len(found) : \E i \in 1..Len(found') : found'[i] = found[j]
       /\ \A x \in files : \E i \in 1..Len(found') : found'[i] = x
       /\ \A i, j \in 1..Len(found') : found'[i] = found'[j] => i = j
  <2>1. Adds(Files, found, files, found') BY <1>8, <1>9, <1>11, AddedIs
  <2>2. QED BY <1>11, <1>12, <2>1 DEF Adds
<1>14. StackInv'
  <2>1. ASSUME NEW i \in 1..Len(stack'), NEW d, d = stack'[i] PROVE Right(d)'
    <3>1. Right(d)
      <4>1. d \in subdirs => Right(d) BY <1>2, <1>6
      <4>2. ASSUME NEW j \in 1..(Len(stack) - 1) PROVE Right(stack[j]) BY <1>1, <1>3
      <4>3. QED BY <1>10, <2>1, <4>1, <4>2
    <3>2. QED BY <1>2, <3>1 DEF Right
  <2>2. QED BY <1>10, <2>1 DEF StackInv, Right
<1>15. FoundInv'
  <2>1. ASSUME NEW i \in 1..Len(found') PROVE Parent(found'[i]) \in seen'
    <3>1. CASE found'[i] \in files BY <1>2, <1>4, <1>8, <3>1
    <3>2. CASE found'[i] \notin files
      <4>1. PICK j \in 1..Len(found) : found'[i] = found[j] BY <1>13, <3>2
      <4>2. QED BY <1>2, <1>11, <4>1
    <3>3. QED BY <3>1, <3>2
  <2>2. QED BY <1>13, <2>1 DEF FoundInv
<1>16. TouchInv'
  <2>1. \A path \in touched' : Open(path)
    <3>1. \A c \in children : Open(c.at) BY <1>6 DEF Right, Open
    <3>2. Open(dir.at) BY <1>4 DEF Right, Open
    <3>3. QED BY <1>1, <1>2, <3>1, <3>2 DEF TouchInv
  <2>2. QED BY <1>2, <2>1 DEF TouchInv, Open
<1>17. StartInv' BY <1>1, <1>2 DEF StartInv
<1>18. \A f : Found(f) => Found(f)' BY <1>13 DEF Found
<1>19. \A p : p \in seen \/ ToVisit(p) => p \in seen' \/ ToVisit(p)'
  <2>5. SUFFICES ASSUME NEW p, ToVisit(p) PROVE p \in seen' \/ ToVisit(p)' BY <1>2
  <2>1. PICK i \in 1..Len(stack) : p = stack[i].real BY <2>5 DEF ToVisit
  <2>2. CASE i = Len(stack) BY <1>2, <1>3, <2>1, <2>2
  <2>3. CASE i # Len(stack)
    <3>1. i \in 1..(Len(stack) - 1) BY <1>3, <2>3
    <3>2. PICK j \in 1..Len(stack') : stack'[j] = stack[i] BY <1>10, <3>1
    <3>3. QED BY <2>1, <3>2 DEF ToVisit
  <2>4. QED BY <2>2, <2>3
<1>20. \A d \in seen : Listed(d)' BY <1>1, <1>2, <1>18, <1>19, ListedKept DEF SeenInv
<1>21. Listed(dir.at)'
  <2>1. SUFFICES ASSUME NEW e \in Entries(dir.at), NEW p, p = Place(link, e), Open(e), Open(p)
                 PROVE  (e \in Files => Found(e)') /\ (p \in Dirs => p \in seen' \/ ToVisit(p)')
    BY <1>2 DEF Listed, Entries, Open, ToVisit
  <2>2. PICK c \in children : c = Child(dir, e) /\ c.at = p
    BY <1>2, <1>3, <1>4, <1>5, <2>1, OpenIsKept
  <2>3. c \in Items /\ Right(c) /\ c.real = c.at BY <1>6 DEF Right
  <2>4. ASSUME p \in Dirs PROVE ToVisit(p)'
    <3>1. c \in subdirs BY <1>2, <2>2, <2>4
    <3>2. PICK i \in 1..Len(stack') : stack'[i] = c BY <1>10, <3>1
    <3>3. QED BY <2>2, <2>3, <3>2 DEF ToVisit
  <2>5. ASSUME e \in Files PROVE Found(e)'
    <3>1. c.at = e /\ e \notin Dirs
      BY <1>5, <2>1, <2>2, <2>5, LinksAssumption, TreeAssumption DEF Place
    <3>2. c \in children \ subdirs BY <1>2, <3>1
    <3>3. e \in files BY <1>24, <3>1, <3>2
    <3>4. QED BY <1>13, <3>3 DEF Found
  <2>6. QED BY <2>4, <2>5
<1>22. SeenInv'
  <2>1. Resolve(base)' = Resolve(base) BY <1>2 DEF Resolve
  <2>2. walkPc = "walking" /\ (Resolve(base) \in seen \/ ToVisit(Resolve(base)))
    BY <1>1, <1>2 DEF SeenInv
  <2>3. \A d \in seen' : Listed(d)' BY <1>2, <1>4, <1>20, <1>21
  <2>4. QED BY <1>19, <2>1, <2>2, <2>3 DEF SeenInv, ToVisit
<1>23. QED BY <1>14, <1>15, <1>16, <1>17, <1>22 DEF WalkInv

LEMMA EndStep ==
  ASSUME WalkInv, End
  PROVE  WalkInv'
<1>1. walkPc = "walking" /\ walkPc' = "done"
      /\ UNCHANGED <<base, link, excluded, known, seen, stack, found, touched>>
  BY DEF End
<1>2. StackInv' BY <1>1 DEF WalkInv, StackInv, Right
<1>3. TouchInv' /\ FoundInv' /\ StartInv' BY <1>1 DEF WalkInv, TouchInv, FoundInv, StartInv, Open
<1>4. SeenInv'
  <2>1. \A d \in seen : Listed(d)'
    BY <1>1, ListedKept DEF WalkInv, SeenInv, Found, ToVisit
  <2>2. QED BY <1>1, <2>1 DEF SeenInv
<1>5. QED BY <1>2, <1>3, <1>4 DEF WalkInv

LEMMA ElsewhereStep ==
  ASSUME WalkInv, UNCHANGED <<link, excluded, walkVars>>
  PROVE  WalkInv'
<1>1. UNCHANGED <<base, link, excluded, walkPc, known, seen, stack, found, touched>> BY DEF walkVars
<1>2. StackInv' BY <1>1 DEF WalkInv, StackInv, Right
<1>3. TouchInv' /\ FoundInv' /\ StartInv' BY <1>1 DEF WalkInv, TouchInv, FoundInv, StartInv, Open
<1>4. SeenInv'
  <2>1. \A d \in seen : Listed(d)'
    BY <1>1, ListedKept DEF WalkInv, SeenInv, Found, ToVisit
  <2>2. QED BY <1>1, <2>1 DEF WalkInv, SeenInv, Resolve, ToVisit
<1>5. QED BY <1>2, <1>3, <1>4 DEF WalkInv

LEMMA WalkIsKept ==
  ASSUME PlainLinks(Layouts)
  PROVE  Spec => [](CoreInv /\ WalkInv)
<1>1. CoreInv /\ WalkInv /\ [Next]_vars => WalkInv'
  <2> SUFFICES ASSUME CoreInv, WalkInv, [Next]_vars PROVE WalkInv' OBVIOUS
  <2>1. known \subseteq MountPoints /\ attached \subseteq MountPoints /\ excluded \in Exclusions
    BY DEF CoreInv, KnownInv, MountInv
  <2>2. CASE BeginWalk BY <2>1, <2>2, BeginStep DEF BeginWalk
  <2>3. CASE VisitNext BY <2>1, <2>3, VisitStep DEF VisitNext
  <2>4. CASE SkipSeen BY <2>4, SeenBeforeStep DEF SkipSeen
  <2>5. CASE EndWalk BY <2>5, EndStep DEF EndWalk
  <2>6. CASE UNCHANGED <<link, excluded, walkVars>> BY <2>6, ElsewhereStep
  <2>7. BeginWalk \/ VisitNext \/ SkipSeen \/ EndWalk \/ UNCHANGED <<link, excluded, walkVars>>
    BY DEF Next, Command, Mount, Unmount, Wedge, Die, Answer, Request, ReadConnection, Succeeds,
           Fails, Abort, vars
  <2>8. QED BY <2>2, <2>3, <2>4, <2>5, <2>6, <2>7
<1>2. QED BY <1>1, InitWalk, CoreIsKept, PTL DEF Spec

(* A walk asks the kernel nothing about a mount that the mount table showed  *)
(* when it began, or that its process excluded, however the links lie        *)
(* (PlainLinks) and whatever is mounted and unmounted meanwhile              *)
(* (iter_files_outside_fuse).                                                *)
THEOREM WalksStayOutside ==
  ASSUME PlainLinks(Layouts)
  PROVE  Spec => []StaysOutside
<1>1. CoreInv /\ WalkInv => StaysOutside
  <2> SUFFICES ASSUME CoreInv, WalkInv, NEW m \in known \cup excluded, NEW path \in touched
               PROVE  ~Below(m, path)
    BY DEF StaysOutside
  <2>1. walkPc # "idle" BY DEF WalkInv, StartInv
  <2>2. m \in known BY <2>1 DEF WalkInv, StartInv
  <2>3. QED BY <2>2 DEF WalkInv, TouchInv, Open
<1>2. QED BY <1>1, WalkIsKept, PTL

(* What has been visited when a walk ends is all that can be reached.        *)
LEMMA AllReached ==
  ASSUME PlainLinks(Layouts), WalkInv, walkPc = "walking", stack = <<>>
  PROVE  Reached \subseteq seen
<1> DEFINE start == {Resolve(base)} \cap Dirs
           closed == {S \in SUBSET Dirs : start \subseteq S /\ Closed(S, Ways)}
           S == seen \cap Dirs
<1>1. Len(stack) = 0 BY EmptySeq
<1>2. \A p : ~ToVisit(p) BY <1>1 DEF ToVisit
<1>3. start \subseteq S BY <1>2 DEF WalkInv, SeenInv
<1>4. ASSUME NEW way \in Ways, way[1] \in S, way[2] \in Dirs PROVE way[2] \in S
  <2>1. PICK e \in (Dirs \cup DOMAIN link) \ {<<>>} :
          Outside(e) /\ Outside(Place(link, e)) /\ way = <<Parent(e), Place(link, e)>>
    BY DEF Ways
  <2>2. e \in Entries(way[1]) BY <2>1 DEF Entries
  <2>3. Open(e) /\ Open(Place(link, e)) BY <2>1 DEF Outside, Open
  <2>4. Listed(way[1]) BY <1>4 DEF WalkInv, SeenInv
  <2>5. QED BY <1>2, <1>4, <2>1, <2>2, <2>3, <2>4 DEF Listed
<1>5. Closed(S, Ways) BY <1>4 DEF Closed
<1>6. S \in closed BY <1>3, <1>5
<1>7. Reached = {d \in Dirs : \A X \in closed : d \in X} BY DEF Reached
<1> HIDE DEF closed
<1>8. QED BY <1>6, <1>7

(* A walk that ends has found every session of the store that is outside the *)
(* mounts, and none twice, however many links lead to it, and around in      *)
(* circles (iter_files_outside_fuse).                                        *)
THEOREM WalksFindEachOnce ==
  ASSUME PlainLinks(Layouts)
  PROVE  Spec => FoundOnce
<1>1. CoreInv /\ WalkInv /\ [Next]_vars =>
        [walkPc = "walking" /\ walkPc' = "done" =>
           /\ \A i, j \in DOMAIN found : found[i] = found[j] => i = j
           /\ Outside(Resolve(base)) =>
                LET reached == Reached IN
                  {f \in Files : Outside(f) /\ Parent(f) \in reached} \subseteq ToSet(found)]_walkVars
  <2> SUFFICES ASSUME CoreInv, WalkInv, [Next]_vars, walkPc = "walking", walkPc' = "done"
               PROVE  /\ \A i, j \in DOMAIN found : found[i] = found[j] => i = j
                      /\ {f \in Files : Outside(f) /\ Parent(f) \in Reached} \subseteq ToSet(found)
    OBVIOUS
  <2>1. stack = <<>>
    BY DEF Next, Command, Mount, Unmount, Wedge, Die, Answer, Request, ReadConnection, Succeeds,
           Fails, Abort, vars, BeginWalk, VisitNext, SkipSeen, EndWalk, Begin, Visit, SeenBefore, End,
           walkVars
  <2>2. DOMAIN found = 1..Len(found) /\ \A i, j \in 1..Len(found) : found[i] = found[j] => i = j
    BY DEF WalkInv, FoundInv
  <2>3. ASSUME NEW f \in Files, Outside(f), Parent(f) \in Reached PROVE f \in ToSet(found)
    <3>1. Parent(f) \in seen BY <2>1, <2>3, AllReached
    <3>2. f # <<>> /\ f \in Entries(Parent(f)) BY TreeAssumption DEF Entries
    <3>3. link \in Layouts BY DEF WalkInv, StartInv
    <3>4. Place(link, f) = f BY <3>3, LinksAssumption DEF Place
    <3>5. Open(f) BY <2>3 DEF Outside, Open
    <3>6. Listed(Parent(f)) BY <3>1 DEF WalkInv, SeenInv
    <3>7. Found(f) BY <3>2, <3>4, <3>5, <3>6 DEF Listed
    <3>8. QED BY <2>2, <3>7 DEF Found, ToSet
  <2>4. QED BY <2>2, <2>3
<1>2. QED BY <1>1, WalkIsKept, PTL DEF FoundOnce, Spec

-----------------------------------------------------------------------------
(* The listing of the mount: its handlers and scans are well typed. *)

LEMMA ReturnType ==
  ASSUME ListingTypeOK, NEW r \in Requests, NEW L \in SUBSET Names, Return(r, L)
  PROVE  /\ handler' \in [Requests -> {"idle", "check", "claim", "spawn", "arm", "wait"}]
         /\ attempt' \in [Requests -> {1, 2}]
         /\ awaited' \in [Requests -> Nat] /\ left' \in [Requests -> Nat]
         /\ answer' \in [Requests -> {"none", "served", "absent", "error"}]
                  /\ stable' \in [Requests -> SUBSET Names]
         /\ waited' \in [Requests -> Nat] /\ waitedBefore' \in [Requests -> Nat]
<1>1. CASE want[r] \in Names \ L /\ attempt[r] = 1
  BY <1>1 DEF ListingTypeOK, Return, waitVars
<1>2. CASE ~(want[r] \in Names \ L /\ attempt[r] = 1)
  BY <1>2 DEF ListingTypeOK, Return, waitVars
<1>3. QED BY <1>1, <1>2

LEMMA ServedType == ListingTypeOK => Served \in SUBSET Names
BY DEF ListingTypeOK, Served

LEMMA TypeStep == ListingTypeOK /\ [ListingNext]_listingVars => ListingTypeOK'
<1>1. SUFFICES ASSUME ListingTypeOK, [ListingNext]_listingVars PROVE ListingTypeOK'
  OBVIOUS
<1> USE DEF scanVars, requestVars, boundVars, waitVars, historyVars
<1>2. ASSUME NEW r \in Requests, NEW w \in Names \cup {ReadDir}, Call(r, w) PROVE ListingTypeOK'
  BY <1>1, <1>2 DEF ListingTypeOK, Call
<1>3. ASSUME NEW r \in Requests, CheckFresh(r) PROVE ListingTypeOK'
  <2>1. listing \in SUBSET Names
    BY <1>1, <1>3 DEF ListingTypeOK, CheckFresh, Fresh
  <2>2. Return(r, listing) BY <1>3 DEF CheckFresh
  <2>3. QED BY <1>1, <1>3, <2>1, <2>2, ReturnType DEF ListingTypeOK, CheckFresh
<1>4. ASSUME NEW r \in Requests, CheckStale(r) PROVE ListingTypeOK'
  BY <1>1, <1>4 DEF ListingTypeOK, CheckStale
<1>5. ASSUME NEW r \in Requests, Claim(r) PROVE ListingTypeOK'
  BY <1>1, <1>5 DEF ListingTypeOK, Claim, Start, NextScan
<1>6. ASSUME NEW r \in Requests, Spawn(r) PROVE ListingTypeOK'
  BY <1>1, <1>6 DEF ListingTypeOK, Spawn
<1>7. ASSUME NEW r \in Requests, SpawnError(r) PROVE ListingTypeOK'
  BY <1>1, <1>7 DEF ListingTypeOK, SpawnError
<1>8. ASSUME NEW r \in Requests, Arm(r) PROVE ListingTypeOK'
  BY <1>1, <1>8, TimeAssumption DEF ListingTypeOK, Arm
<1>9. ASSUME NEW r \in Requests, WaitServed(r) \/ WaitTimeout(r) PROVE ListingTypeOK'
  <2>1. Return(r, Served) BY <1>9 DEF WaitServed, WaitTimeout
  <2>2. QED BY <1>1, <1>9, <2>1, ServedType, ReturnType DEF ListingTypeOK, WaitServed, WaitTimeout
<1>10. ASSUME NEW r \in Requests, NEW n \in Names, ScanVisit(r, n) PROVE ListingTypeOK'
  BY <1>1, <1>10 DEF ListingTypeOK, ScanVisit
<1>11. ASSUME NEW r \in Requests, ScanPublish(r) PROVE ListingTypeOK'
  <2>1. listing' \in SUBSET Names /\ settled' \in SUBSET Names
    BY <1>1, <1>11 DEF ListingTypeOK, ScanPublish
  <2>2. age' \in Nat /\ scans' \in Nat /\ scanning' \in BOOLEAN
    <3>1. age' = 0 /\ scans' = scans + 1 /\ scanning' = FALSE
      BY <1>11 DEF ScanPublish
    <3>2. scans \in Nat BY <1>1 DEF ListingTypeOK
    <3>3. scanning' \in BOOLEAN BY <3>1
    <3>4. QED BY <3>1, <3>2, <3>3
  <2>3. thread' \in [Requests -> {"none", "scanning"}] /\ scanned' \in [Requests -> SUBSET Names]
    BY <1>1, <1>11 DEF ListingTypeOK, ScanPublish
  <2>4. kept' \in SUBSET Names /\ present' \in SUBSET Names
    BY <1>11 DEF ScanPublish
  <2>5. UNCHANGED <<store, todo, requestVars, boundVars, waitVars, stable>>
    BY <1>11 DEF ScanPublish
  <2>6. QED BY <1>1, <2>1, <2>2, <2>3, <2>4, <2>5 DEF ListingTypeOK
<1>12. ASSUME NEW r \in Requests, ScanFail(r) PROVE ListingTypeOK'
  BY <1>1, <1>12 DEF ListingTypeOK, ScanFail
<1>13. ASSUME NEW n \in Names, RecordSession(n) PROVE ListingTypeOK'
  BY <1>1, <1>13 DEF ListingTypeOK, RecordSession
<1>14. ASSUME NEW n \in Names, RemoveSession(n) PROVE ListingTypeOK'
  BY <1>1, <1>14 DEF ListingTypeOK, RemoveSession
<1>15. ASSUME Tick PROVE ListingTypeOK'
  BY <1>1, <1>15 DEF ListingTypeOK, Tick, Waiting
<1>16. ASSUME UNCHANGED listingVars PROVE ListingTypeOK'
  BY <1>1, <1>16 DEF ListingTypeOK, listingVars
<1>17. QED
  BY <1>1, <1>2, <1>3, <1>4, <1>5, <1>6, <1>7, <1>8, <1>9, <1>10, <1>11, <1>12, <1>13,
     <1>14, <1>15, <1>16 DEF ListingNext, Handler, ScanThread

(* Every reachable state of the listing protocol is well typed, whatever   *)
(* the number of handlers, names and time limits.                          *)
THEOREM ListingTypeCorrect == ListingSpec => []ListingTypeOK
<1>1. ListingInit => ListingTypeOK
  <2> SUFFICES ASSUME ListingInit PROVE ListingTypeOK
    OBVIOUS
  <2>1. store \in SUBSET Names /\ listing \in (SUBSET Names) \cup {NoListing}
    BY DEF ListingInit
  <2>2. age \in Nat /\ scans \in Nat /\ scanning \in BOOLEAN /\ calls \in Nat /\ spawnErrors \in Nat
    BY DEF ListingInit
  <2>3. /\ thread \in [Requests -> {"none", "scanning"}]
        /\ todo \in [Requests -> SUBSET Names]
        /\ scanned \in [Requests -> SUBSET Names]
    BY DEF ListingInit
  <2>4. /\ handler \in [Requests -> {"idle", "check", "claim", "spawn", "arm", "wait"}]
        /\ want \in [Requests -> Names \cup {ReadDir}]
        /\ attempt \in [Requests -> {1, 2}]
        /\ awaited \in [Requests -> Nat] /\ left \in [Requests -> Nat]
        /\ answer \in [Requests -> {"none", "served", "absent", "error"}]
    BY DEF ListingInit
  <2>5. /\ waited \in [Requests -> Nat] /\ waitedBefore \in [Requests -> Nat]
        /\ stable \in [Requests -> SUBSET Names]
        /\ kept \in SUBSET Names /\ present \in SUBSET Names /\ settled \in SUBSET Names
    BY DEF ListingInit
  <2>6. QED BY <2>1, <2>2, <2>3, <2>4, <2>5 DEF ListingTypeOK
<1>2. QED BY <1>1, TypeStep, PTL DEF ListingSpec

-----------------------------------------------------------------------------
(* The scan slot *)

(* Returning from _records leaves the slot alone and no handler at "spawn". *)
LEMMA ReturnPc ==
  ASSUME ListingTypeOK, NEW r \in Requests, NEW L, Return(r, L)
  PROVE  \A s \in Requests : handler'[s] = "spawn" => handler[s] = "spawn"
BY DEF ListingTypeOK, Return

(* Every step keeps the slot with at most one owner and, while no thread   *)
(* was refused, with one as long as _scanning is set.                      *)
LEMMA SlotStep ==
  ListingTypeOK /\ OneScanAtATime /\ SlotNotLeaked /\ [ListingNext]_listingVars => OneScanAtATime' /\ SlotNotLeaked'
<1> SUFFICES ASSUME ListingTypeOK, OneScanAtATime, SlotNotLeaked, [ListingNext]_listingVars
             PROVE  OneScanAtATime' /\ SlotNotLeaked'
  OBVIOUS
<1> USE DEF scanVars, requestVars, boundVars, waitVars, historyVars
<1>1. ASSUME UNCHANGED <<scanning, thread>>, spawnErrors' = 0 => spawnErrors = 0,
             \A s \in Requests : handler'[s] = "spawn" <=> handler[s] = "spawn"
      PROVE  OneScanAtATime' /\ SlotNotLeaked'
  BY <1>1 DEF OneScanAtATime, SlotNotLeaked, Holds
<1>2. ASSUME NEW r \in Requests, NEW w \in Names \cup {ReadDir}, Call(r, w)
      PROVE  OneScanAtATime' /\ SlotNotLeaked'
  BY <1>1, <1>2 DEF Call, ListingTypeOK
<1>3. ASSUME NEW r \in Requests,
             CheckFresh(r) \/ CheckStale(r) \/ Arm(r) \/ WaitServed(r) \/ WaitTimeout(r)
      PROVE  OneScanAtATime' /\ SlotNotLeaked'
  <2>1. UNCHANGED <<scanning, thread, spawnErrors>>
    BY <1>3 DEF CheckFresh, CheckStale, Arm, WaitServed, WaitTimeout
  <2>2. \A s \in Requests : handler'[s] = "spawn" <=> handler[s] = "spawn"
    BY <1>3 DEF CheckFresh, CheckStale, Arm, WaitServed, WaitTimeout, Return, ListingTypeOK
  <2>3. QED BY <1>1, <2>1, <2>2
<1>4. ASSUME NEW r \in Requests, Claim(r) PROVE OneScanAtATime' /\ SlotNotLeaked'
  <2>1. CASE scanning
    BY <1>1, <1>4, <2>1 DEF Claim, Start, NextScan, ListingTypeOK
  <2>2. CASE ~scanning
    <3>1. \A s \in Requests : handler'[s] = "spawn" <=> s = r
      BY <1>4, <2>2 DEF Claim, Start, NextScan, ListingTypeOK, OneScanAtATime, Holds
    <3>2. scanning' /\ UNCHANGED thread /\ \A s \in Requests : thread[s] # "scanning"
      BY <1>4, <2>2 DEF Claim, Start, NextScan, OneScanAtATime, Holds
    <3>3. QED BY <3>1, <3>2 DEF OneScanAtATime, SlotNotLeaked, Holds
  <2>3. QED BY <2>1, <2>2
<1>5. ASSUME NEW r \in Requests, Spawn(r) PROVE OneScanAtATime' /\ SlotNotLeaked'
  <2>1. \A s \in Requests : Holds(s) <=> s = r
    BY <1>5 DEF Spawn, OneScanAtATime, Holds
  <2>2. scanning /\ UNCHANGED scanning
    BY <1>5, <2>1 DEF Spawn, OneScanAtATime
  <2>3. /\ \A s \in Requests : handler'[s] # "spawn"
        /\ \A s \in Requests : thread'[s] = "scanning" <=> s = r
    BY <1>5, <2>1 DEF Spawn, ListingTypeOK, Holds
  <2>4. QED BY <2>2, <2>3 DEF OneScanAtATime, SlotNotLeaked, Holds
<1>6. ASSUME NEW r \in Requests, SpawnError(r) PROVE OneScanAtATime' /\ SlotNotLeaked'
  <2>1. UNCHANGED <<scanning, thread>> /\ spawnErrors' # 0
    BY <1>6 DEF SpawnError, ListingTypeOK
  <2>2. \A s \in Requests : handler'[s] = "spawn" => handler[s] = "spawn"
    BY <1>6 DEF SpawnError, ListingTypeOK
  <2>3. QED BY <2>1, <2>2 DEF OneScanAtATime, SlotNotLeaked, Holds
<1>7. ASSUME NEW r \in Requests, NEW n \in Names, ScanVisit(r, n)
      PROVE  OneScanAtATime' /\ SlotNotLeaked'
  BY <1>1, <1>7 DEF ScanVisit
<1>8. ASSUME NEW r \in Requests, ScanPublish(r) \/ ScanFail(r)
      PROVE  OneScanAtATime' /\ SlotNotLeaked'
  <2>1. \A s \in Requests : Holds(s) <=> s = r
    BY <1>8 DEF ScanPublish, ScanFail, OneScanAtATime, Holds
  <2>2. handler[r] # "spawn" /\ UNCHANGED handler /\ ~scanning'
    BY <1>8 DEF ScanPublish, ScanFail, OneScanAtATime
  <2>3. \A s \in Requests : thread'[s] # "scanning"
    BY <1>8, <2>1 DEF ScanPublish, ScanFail, ListingTypeOK, Holds
  <2>4. QED BY <2>1, <2>2, <2>3 DEF OneScanAtATime, SlotNotLeaked, Holds
<1>9. ASSUME NEW n \in Names, RecordSession(n) \/ RemoveSession(n) PROVE OneScanAtATime' /\ SlotNotLeaked'
  BY <1>1, <1>9 DEF RecordSession, RemoveSession
<1>10. ASSUME Tick \/ UNCHANGED listingVars PROVE OneScanAtATime' /\ SlotNotLeaked'
  BY <1>1, <1>10 DEF Tick, listingVars
<1>11. QED
  BY <1>2, <1>3, <1>4, <1>5, <1>6, <1>7, <1>8, <1>9, <1>10 DEF ListingNext, Handler, ScanThread

(* Two scans never run at once, for any number of handlers: the slot one   *)
(* handler takes under the lock is the slot its thread gives back.         *)
THEOREM ScansNeverOverlap == ListingSpec => []SlotIsHeldOnce
<1>1. ListingInit => SlotIsHeldOnce
  BY DEF ListingInit, SlotIsHeldOnce, OneScanAtATime, SlotNotLeaked, Holds
<1>2. ListingTypeOK /\ SlotIsHeldOnce /\ [ListingNext]_listingVars => SlotIsHeldOnce'
  BY SlotStep DEF SlotIsHeldOnce
<1>3. QED BY <1>1, <1>2, ListingTypeCorrect, PTL DEF ListingSpec

-----------------------------------------------------------------------------
(* What the published listing holds *)

(* While a thread scans, what stayed is collected or still to be looked    *)
(* at, and nothing is collected that was never there.                      *)
LEMMA ScanStep ==
  ListingTypeOK /\ OneScanAtATime /\ ScanInv /\ [ListingNext]_listingVars => ScanInv'
<1> SUFFICES ASSUME ListingTypeOK, OneScanAtATime, ScanInv, [ListingNext]_listingVars PROVE ScanInv'
  OBVIOUS
<1> USE DEF scanVars, requestVars, boundVars, waitVars, historyVars
<1>1. ASSUME UNCHANGED <<store, scanning, thread, todo, scanned, kept, present>> PROVE ScanInv'
  BY <1>1 DEF ScanInv
<1>2. ASSUME NEW r \in Requests, NEW w \in Names \cup {ReadDir}, Call(r, w) PROVE ScanInv'
  BY <1>1, <1>2 DEF Call
<1>3. ASSUME NEW r \in Requests,
             \/ CheckFresh(r) \/ CheckStale(r) \/ SpawnError(r) \/ Arm(r)
             \/ WaitServed(r) \/ WaitTimeout(r)
      PROVE  ScanInv'
  BY <1>1, <1>3 DEF CheckFresh, CheckStale, SpawnError, Arm, WaitServed, WaitTimeout
<1>4. ASSUME NEW r \in Requests, Claim(r) PROVE ScanInv'
  <2>1. CASE scanning
    BY <1>1, <1>4, <2>1 DEF Claim, Start, NextScan
  <2>2. CASE ~scanning
    <3>1. \A s \in Requests : thread'[s] # "scanning"
      BY <1>4, <2>2 DEF Claim, Start, NextScan, OneScanAtATime, Holds
    <3>2. kept' = store' /\ present' = store'
      BY <1>4, <2>2 DEF Claim, Start, NextScan
    <3>3. QED BY <3>1, <3>2 DEF ScanInv
  <2>3. QED BY <2>1, <2>2
<1>5. ASSUME NEW r \in Requests, Spawn(r) PROVE ScanInv'
  <2>1. todo'[r] = Names /\ scanned'[r] = {} /\ UNCHANGED <<store, scanning, kept, present>>
    BY <1>5 DEF Spawn, ListingTypeOK
  <2>2. \A s \in Requests \ {r} : UNCHANGED <<thread[s], todo[s], scanned[s]>>
    BY <1>5 DEF Spawn, ListingTypeOK
  <2>3. kept \subseteq Names BY DEF ListingTypeOK
  <2>4. QED BY <2>1, <2>2, <2>3 DEF ScanInv
<1>6. ASSUME NEW r \in Requests, NEW n \in Names, ScanVisit(r, n) PROVE ScanInv'
  <2>1. /\ UNCHANGED <<store, scanning, thread, kept, present>> /\ scanning
        /\ todo'[r] = todo[r] \ {n}
        /\ scanned'[r] = IF n \in store THEN scanned[r] \cup {n} ELSE scanned[r]
    BY <1>6 DEF ScanVisit, ListingTypeOK, OneScanAtATime, Holds
  <2>2. \A s \in Requests \ {r} : UNCHANGED <<todo[s], scanned[s]>>
    BY <1>6 DEF ScanVisit, ListingTypeOK
  <2>3. thread[r] = "scanning" BY <1>6 DEF ScanVisit
  <2>4. kept \subseteq scanned'[r] \cup todo'[r] /\ scanned'[r] \subseteq present
    BY <2>1, <2>3 DEF ScanInv
  <2>5. QED BY <2>1, <2>2, <2>4 DEF ScanInv
<1>7. ASSUME NEW r \in Requests, ScanPublish(r) \/ ScanFail(r) PROVE ScanInv'
  <2>1. \A s \in Requests : thread'[s] # "scanning"
    BY <1>7 DEF ScanPublish, ScanFail, ListingTypeOK, OneScanAtATime, Holds
  <2>2. kept' = {} /\ ~scanning'
    BY <1>7 DEF ScanPublish, ScanFail
  <2>3. QED BY <2>1, <2>2 DEF ScanInv
<1>8. ASSUME NEW n \in Names, RecordSession(n) PROVE ScanInv'
  <2>1. /\ store' = store \cup {n} /\ (scanning => present' = present \cup {n})
        /\ (~scanning => present' = present) /\ UNCHANGED <<scanning, thread, todo, scanned, kept>>
    BY <1>8 DEF RecordSession
  <2>2. QED BY <2>1 DEF ScanInv
<1>9. ASSUME NEW n \in Names, RemoveSession(n) PROVE ScanInv'
  BY <1>9 DEF RemoveSession, ScanInv
<1>10. ASSUME Tick \/ UNCHANGED listingVars PROVE ScanInv'
  BY <1>1, <1>10 DEF Tick, listingVars
<1>11. QED
  BY <1>2, <1>3, <1>4, <1>5, <1>6, <1>7, <1>8, <1>9, <1>10 DEF ListingNext, Handler, ScanThread

(* What a step does to the listing and to what it must contain: nothing,   *)
(* or a removal, or the publication of the scan that holds the slot.       *)
LEMMA ListingChange ==
  ASSUME ListingTypeOK, OneScanAtATime, ScanInv, [ListingNext]_listingVars
  PROVE  \/ UNCHANGED <<listing, scans>> /\ settled' \subseteq settled
         \/ /\ listing' \in SUBSET Names
            /\ kept \subseteq listing' /\ listing' \subseteq present
            /\ settled' = kept /\ scans' # scans
<1> USE DEF scanVars, requestVars, boundVars, waitVars, historyVars
<1>1. ASSUME NEW r \in Requests, ScanPublish(r)
      PROVE  /\ listing' \in SUBSET Names /\ kept \subseteq listing' /\ listing' \subseteq present
             /\ settled' = kept /\ scans' # scans
  <2>1. thread[r] = "scanning" /\ todo[r] = {} /\ listing' = scanned[r]
    BY <1>1 DEF ScanPublish
  <2>2. scans' = scans + 1 /\ scans \in Nat BY <1>1 DEF ScanPublish, ListingTypeOK
  <2>3. scanned[r] \in SUBSET Names BY DEF ListingTypeOK
  <2>4. kept \subseteq scanned[r] /\ scanned[r] \subseteq present BY <2>1 DEF ScanInv
  <2>5. settled' = kept
    BY <1>1 DEF ScanPublish
  <2>6. QED BY <2>1, <2>2, <2>3, <2>4, <2>5
<1>2. ASSUME NEW r \in Requests, NEW w \in Names \cup {ReadDir}, Call(r, w)
      PROVE  UNCHANGED <<listing, scans, settled>>
  BY <1>2 DEF Call
<1>3. ASSUME NEW r \in Requests, Handler(r) PROVE UNCHANGED <<listing, scans, settled>>
  BY <1>3 DEF Handler, CheckFresh, CheckStale, Claim, Spawn, SpawnError, Arm, WaitServed,
              WaitTimeout
<1>4. ASSUME NEW r \in Requests, ScanFail(r) \/ \E n \in Names : ScanVisit(r, n)
      PROVE  UNCHANGED <<listing, scans, settled>>
  BY <1>4 DEF ScanFail, ScanVisit
<1>5. ASSUME NEW n \in Names, RecordSession(n) \/ RemoveSession(n)
      PROVE  UNCHANGED <<listing, scans>> /\ settled' \subseteq settled
  BY <1>5 DEF RecordSession, RemoveSession
<1>6. ASSUME Tick \/ UNCHANGED listingVars PROVE UNCHANGED <<listing, scans, settled>>
  BY <1>6 DEF Tick, listingVars
<1>7. QED BY <1>1, <1>2, <1>3, <1>4, <1>5, <1>6 DEF ListingNext, ScanThread

LEMMA CoverStep ==
  ListingTypeOK /\ OneScanAtATime /\ ScanInv /\ ListingCoversSettled /\ [ListingNext]_listingVars
    => ListingCoversSettled'
<1> SUFFICES ASSUME ListingTypeOK, OneScanAtATime, ScanInv, ListingCoversSettled, [ListingNext]_listingVars
             PROVE  ListingCoversSettled'
  OBVIOUS
<1>1. CASE UNCHANGED <<listing, scans>> /\ settled' \subseteq settled
  BY <1>1 DEF ListingCoversSettled, Served
<1>2. CASE listing' \in SUBSET Names /\ kept \subseteq listing' /\ settled' = kept
  BY <1>2, NamesAssumption DEF ListingCoversSettled, Served
<1>3. QED BY <1>1, <1>2, ListingChange

(* The part of the inductive invariant that is about the listing.          *)
LEMMA ListingInvariant == ListingSpec => [](OneScanAtATime /\ ScanInv /\ ListingCoversSettled)
<1>1. ListingInit => ScanInv /\ ListingCoversSettled
  BY DEF ListingInit, ScanInv, ListingCoversSettled
<1>2. SlotIsHeldOnce => OneScanAtATime BY DEF SlotIsHeldOnce
<1>3. QED
  BY <1>1, <1>2, ScanStep, CoverStep, ListingTypeCorrect, ScansNeverOverlap, PTL DEF ListingSpec

(* Whatever listing a handler is served has every session that was there   *)
(* before the scan behind it began and still is.                           *)
THEOREM ListingIsComplete == ListingSpec => []ListingCoversSettled
BY ListingInvariant, PTL

(* A published listing is one scan's view: nothing of another scan, and    *)
(* nothing of the listing before it.                                       *)
THEOREM PublishedListingIsOneScan == ListingSpec => PublishesItsScan
<1>1. ListingTypeOK /\ OneScanAtATime /\ ScanInv /\ [ListingNext]_listingVars
        => [IF scans' = scans THEN listing' = listing
            ELSE kept \subseteq listing' /\ listing' \subseteq present]_listingVars
  BY ListingChange
<1>2. QED BY <1>1, ListingTypeCorrect, ListingInvariant, PTL DEF ListingSpec, PublishesItsScan

(* ENOENT is answered only for a name the listing need not contain.        *)
THEOREM AbsentNamesAreAbsent == ListingSpec => AbsentIsJustified
<1>1. ASSUME ListingTypeOK, ListingCoversSettled, [ListingNext]_listingVars, NEW r \in Requests,
             answer'[r] = "absent", answer[r] # "absent"
      PROVE  want[r] \notin settled
  <2> USE DEF scanVars, requestVars, boundVars, historyVars
  <2>1. ASSUME NEW s \in Requests, NEW L \in SUBSET Names, Return(s, L)
        PROVE  want[r] \in Names \ L /\ r = s
    BY <1>1, <2>1 DEF ListingTypeOK, Return
  <2>2. ASSUME NEW s \in Requests, CheckFresh(s) PROVE want[r] \notin settled
    <3>1. listing \in SUBSET Names /\ settled \subseteq listing /\ Return(s, listing)
      BY <1>1, <2>2 DEF CheckFresh, Fresh, ListingTypeOK, ListingCoversSettled, Served
    <3>2. QED BY <2>1, <3>1
  <2>3. ASSUME NEW s \in Requests, WaitServed(s) \/ WaitTimeout(s)
        PROVE  want[r] \notin settled
    <3>1. Served \in SUBSET Names /\ settled \subseteq Served /\ Return(s, Served)
      BY <1>1, <2>3, ServedType DEF WaitServed, WaitTimeout, ListingCoversSettled
    <3>2. QED BY <2>1, <3>1
  <2>4. ASSUME NEW s \in Requests,
               \/ \E w \in Names \cup {ReadDir} : Call(s, w)
               \/ CheckStale(s) \/ Claim(s) \/ Spawn(s) \/ SpawnError(s) \/ Arm(s)
               \/ ScanThread(s)
        PROVE  FALSE
    BY <1>1, <2>4 DEF ListingTypeOK, Call, CheckStale, Claim, Spawn, SpawnError, Arm, ScanThread,
                      ScanVisit, ScanPublish, ScanFail
  <2>5. ASSUME Tick \/ UNCHANGED listingVars \/ \E n \in Names : RecordSession(n) \/ RemoveSession(n) PROVE FALSE
    BY <1>1, <2>5 DEF Tick, RecordSession, RemoveSession, listingVars
  <2>6. QED BY <1>1, <2>2, <2>3, <2>4, <2>5 DEF ListingNext, Handler
<1>2. ListingTypeOK /\ ListingCoversSettled /\ [ListingNext]_listingVars
        => [\A r \in Requests :
              answer'[r] = "absent" /\ answer[r] # "absent" => want[r] \notin settled]_listingVars
  BY <1>1
<1>3. QED BY <1>2, ListingTypeCorrect, ListingIsComplete, PTL DEF ListingSpec, AbsentIsJustified

-----------------------------------------------------------------------------
(* What a handler that took the slot is served *)

LEMMA StarterStep ==
  ListingTypeOK /\ OneScanAtATime /\ ScanInv /\ StarterInv /\ [ListingNext]_listingVars => StarterInv'
<1> SUFFICES ASSUME ListingTypeOK, OneScanAtATime, ScanInv, StarterInv, [ListingNext]_listingVars PROVE StarterInv'
  OBVIOUS
<1> USE DEF scanVars, requestVars, boundVars, waitVars, historyVars
<1>1. ASSUME UNCHANGED <<store, scanning, kept, scans, settled>>,
             NEW r \in Requests, \A s \in Requests \ {r} : UNCHANGED <<handler[s], awaited[s], stable[s]>>,
             \/ stable'[r] = {}
             \/ stable'[r] = stable[r] /\ handler'[r] \notin {"spawn", "arm", "wait"}
             \/ /\ stable'[r] = stable[r] /\ awaited'[r] = awaited[r]
                /\ handler[r] \in {"spawn", "arm", "wait"}
      PROVE  StarterInv'
  BY <1>1 DEF StarterInv
<1>2. ASSUME UNCHANGED <<handler, awaited, stable, scans>>, settled' = settled, kept' = kept,
             store \subseteq store', scanning' => scanning
      PROVE  StarterInv'
  BY <1>2 DEF StarterInv
<1>3. ASSUME NEW r \in Requests,
             \/ \E w \in Names \cup {ReadDir} : Call(r, w)
             \/ CheckFresh(r) \/ CheckStale(r) \/ SpawnError(r) \/ Arm(r)
             \/ WaitServed(r) \/ WaitTimeout(r) \/ Spawn(r)
      PROVE  StarterInv'
  <2>1. UNCHANGED <<store, scanning, kept, scans, settled>>
    BY <1>3 DEF Call, CheckFresh, CheckStale, SpawnError, Arm, WaitServed, WaitTimeout, Spawn
  <2>2. \A s \in Requests \ {r} : UNCHANGED <<handler[s], awaited[s], stable[s]>>
    BY <1>3 DEF ListingTypeOK, Call, CheckFresh, CheckStale, SpawnError, Arm, WaitServed, WaitTimeout,
                Spawn, Return
  <2>3. \/ stable'[r] = {}
        \/ stable'[r] = stable[r] /\ handler'[r] \notin {"spawn", "arm", "wait"}
        \/ /\ stable'[r] = stable[r] /\ awaited'[r] = awaited[r]
           /\ handler[r] \in {"spawn", "arm", "wait"}
    BY <1>3 DEF ListingTypeOK, Call, CheckFresh, CheckStale, SpawnError, Arm, WaitServed, WaitTimeout,
                Spawn, Return
  <2>4. QED BY <1>1, <2>1, <2>2, <2>3
<1>4. ASSUME NEW r \in Requests, Claim(r) PROVE StarterInv'
  <2>1. /\ UNCHANGED <<store, scans, settled>> /\ awaited'[r] = scans + 1
        /\ \A s \in Requests \ {r} : UNCHANGED <<handler[s], awaited[s], stable[s]>>
    BY <1>4 DEF Claim, Start, NextScan, ListingTypeOK
  <2>2. scans \in Nat BY DEF ListingTypeOK
  <2>3. CASE scanning
    <3>1. UNCHANGED <<kept, stable>> BY <1>4, <2>3 DEF Claim, Start, NextScan
    <3>2. QED BY <2>1, <2>2, <2>3, <3>1 DEF StarterInv
  <2>4. CASE ~scanning
    <3>1. kept' = store /\ stable'[r] = store BY <1>4, <2>4 DEF Claim, Start, NextScan, ListingTypeOK
    <3>2. QED BY <2>1, <2>2, <3>1 DEF StarterInv
  <2>5. QED BY <2>3, <2>4
<1>5. ASSUME NEW r \in Requests, ScanPublish(r) PROVE StarterInv'
  <2>1. scanning BY <1>5 DEF ScanPublish, OneScanAtATime, Holds
  <2>2. settled' = kept /\ ~scanning' /\ UNCHANGED <<store, handler, awaited, stable>>
    BY <1>5 DEF ScanPublish
  <2>3. QED BY <2>1, <2>2 DEF StarterInv
<1>6. ASSUME NEW r \in Requests, ScanFail(r) PROVE StarterInv'
  <2>1. ~scanning' /\ UNCHANGED <<store, scans, settled, handler, awaited, stable>>
    BY <1>6 DEF ScanFail
  <2>2. QED BY <2>1 DEF StarterInv
<1>7. ASSUME NEW r \in Requests, NEW n \in Names, ScanVisit(r, n) PROVE StarterInv'
  BY <1>2, <1>7 DEF ScanVisit
<1>8. ASSUME NEW n \in Names, RecordSession(n) PROVE StarterInv'
  BY <1>2, <1>8 DEF RecordSession
<1>9. ASSUME NEW n \in Names, RemoveSession(n) PROVE StarterInv'
  <2>1. \A s \in Requests : stable'[s] = stable[s] \ {n}
    BY <1>9 DEF RemoveSession
  <2>2. /\ store' = store \ {n} /\ kept' = kept \ {n} /\ settled' = settled \ {n}
        /\ UNCHANGED <<scanning, scans, handler, awaited>>
    BY <1>9 DEF RemoveSession
  <2>3. QED BY <2>1, <2>2 DEF StarterInv
<1>10. ASSUME Tick PROVE StarterInv'
  BY <1>2, <1>10 DEF Tick
<1>11. ASSUME UNCHANGED listingVars PROVE StarterInv'
  BY <1>2, <1>11 DEF listingVars
<1>12. QED
  BY <1>3, <1>4, <1>5, <1>6, <1>7, <1>8, <1>9, <1>10, <1>11 DEF ListingNext, Handler, ScanThread

(* A handler that took the scan slot and is woken by a completed scan gets *)
(* every session recorded before it took the slot, even when its own scan  *)
(* failed and another handler's woke it.                                   *)
THEOREM StartersSeeTheirPast == ListingSpec => []StarterSeesItsPast
<1>1. ListingInit => StarterInv
  BY DEF ListingInit, StarterInv
<1>2. StarterInv /\ ListingCoversSettled => StarterSeesItsPast
  BY DEF StarterInv, ListingCoversSettled, StarterSeesItsPast
<1>3. QED
  BY <1>1, <1>2, StarterStep, ListingTypeCorrect, ListingInvariant, PTL DEF ListingSpec

-----------------------------------------------------------------------------
(* How long a _records call waits *)

LEMMA WaitStep == ListingTypeOK /\ WaitInv /\ [ListingNext]_listingVars => WaitInv'
<1> SUFFICES ASSUME ListingTypeOK, WaitInv, [ListingNext]_listingVars PROVE WaitInv'
  OBVIOUS
<1> USE DEF scanVars, requestVars, boundVars, waitVars, historyVars
<1> DEFINE W(r) == /\ handler[r] \in {"check", "claim", "spawn", "arm"} => waited[r] = 0
                   /\ handler[r] = "wait" => waited[r] + left[r] <= ScanTimeout
                   /\ waited[r] <= ScanTimeout
<1>1. \A r \in Requests : W(r) /\ waited[r] \in Nat /\ left[r] \in Nat
  BY DEF WaitInv, ListingTypeOK
<1>2. ASSUME NEW r \in Requests, W(r)',
             \A s \in Requests \ {r} : UNCHANGED <<handler[s], waited[s], left[s]>>
      PROVE  WaitInv'
  BY <1>1, <1>2 DEF WaitInv
<1>3. ASSUME UNCHANGED <<handler, waited, left>> PROVE WaitInv'
  BY <1>3 DEF WaitInv
<1>4. ASSUME NEW r \in Requests, NEW w \in Names \cup {ReadDir}, Call(r, w) PROVE WaitInv'
  <2>1. handler'[r] = "check" /\ waited'[r] = 0 BY <1>4 DEF Call, ListingTypeOK
  <2>2. W(r)' BY <2>1, TimeAssumption
  <2>3. QED BY <1>2, <1>4, <2>2 DEF Call, ListingTypeOK
<1>5. ASSUME NEW r \in Requests, NEW L, Return(r, L) PROVE WaitInv'
  <2>1. \/ handler'[r] = "check" /\ waited'[r] = 0
        \/ handler'[r] = "idle" /\ waited'[r] = waited[r]
    BY <1>5 DEF Return, ListingTypeOK
  <2>2. W(r)' BY <1>1, <2>1, TimeAssumption
  <2>3. QED BY <1>2, <1>5, <2>2 DEF Return, ListingTypeOK
<1>6. ASSUME NEW r \in Requests, CheckFresh(r) \/ WaitServed(r) \/ WaitTimeout(r) PROVE WaitInv'
  BY <1>5, <1>6 DEF CheckFresh, WaitServed, WaitTimeout
<1>7. ASSUME NEW r \in Requests, CheckStale(r) \/ Claim(r) \/ Spawn(r) \/ SpawnError(r)
      PROVE  WaitInv'
  <2>1. /\ handler[r] \in {"check", "claim", "spawn"} /\ handler'[r] \in {"claim", "spawn", "arm", "idle"}
        /\ UNCHANGED <<waited, left>>
        /\ \A s \in Requests \ {r} : UNCHANGED <<handler[s]>>
    BY <1>7 DEF CheckStale, Claim, Spawn, SpawnError, ListingTypeOK
  <2>2. W(r)' BY <1>1, <2>1
  <2>3. QED BY <1>2, <2>1, <2>2
<1>8. ASSUME NEW r \in Requests, Arm(r) PROVE WaitInv'
  <2>1. /\ handler[r] = "arm" /\ handler'[r] = "wait" /\ left'[r] = ScanTimeout
        /\ UNCHANGED waited
        /\ \A s \in Requests \ {r} : UNCHANGED <<handler[s], left[s]>>
    BY <1>8 DEF Arm, ListingTypeOK
  <2>2. W(r)' BY <1>1, <2>1, TimeAssumption
  <2>3. QED BY <1>2, <2>1, <2>2
<1>9. ASSUME Tick PROVE WaitInv'
  <2> SUFFICES ASSUME NEW r \in Requests PROVE W(r)'
    BY DEF WaitInv
  <2>1. UNCHANGED handler BY <1>9 DEF Tick
  <2>2. CASE handler[r] = "wait"
    <3>1. left[r] > 0 /\ left'[r] = left[r] - 1 /\ waited'[r] = waited[r] + 1
      BY <1>9, <2>2 DEF Tick, Waiting
    <3>2. QED BY <1>1, <2>1, <2>2, <3>1, TimeAssumption
  <2>3. CASE handler[r] # "wait"
    <3>1. left'[r] = left[r] /\ waited'[r] = waited[r]
      BY <1>9, <2>3 DEF Tick, Waiting
    <3>2. QED BY <1>1, <2>1, <2>3, <3>1
  <2>4. QED BY <2>2, <2>3
<1>10. ASSUME NEW r \in Requests, ScanThread(r) PROVE WaitInv'
  BY <1>3, <1>10 DEF ScanThread, ScanVisit, ScanPublish, ScanFail
<1>11. ASSUME NEW n \in Names, RecordSession(n) \/ RemoveSession(n) PROVE WaitInv'
  BY <1>3, <1>11 DEF RecordSession, RemoveSession
<1>12. ASSUME UNCHANGED listingVars PROVE WaitInv'
  BY <1>3, <1>12 DEF listingVars
<1>13. QED
  BY <1>4, <1>6, <1>7, <1>8, <1>9, <1>10, <1>11, <1>12 DEF ListingNext, Handler

(* No _records call ever waits for its scan longer than scan_timeout,      *)
(* whatever the stores and the other handlers do, and however often it is  *)
(* woken by a scan that failed.  (A lookup that misses makes two.)         *)
THEOREM WaitsAreBounded == ListingSpec => []RecordsWaitIsBounded
<1>1. ListingInit => WaitInv
  BY TimeAssumption DEF ListingInit, WaitInv
<1>2. WaitInv => RecordsWaitIsBounded
  BY DEF WaitInv, RecordsWaitIsBounded
<1>3. QED BY <1>1, <1>2, WaitStep, ListingTypeCorrect, PTL DEF ListingSpec
=============================================================================
