------------------------------ MODULE StoreWalk ------------------------------
(***************************************************************************)
(* How the stores of sessions are walked (iter_files_outside_fuse in       *)
(* trajectoriz/__init__.py): directory by directory, through symbolic      *)
(* links, but never into a FUSE mount that the mount table showed when the *)
(* walk began, or that this process excluded as its own.                   *)
(*                                                                         *)
(* A path is a sequence of names from the root.  The walk resolves links   *)
(* textually, one at a time; the kernel follows them all.  Every file is a *)
(* session, links lead to directories, and no directory is unreadable.     *)
(*                                                                         *)
(* A definition named Bug... is the one after it with a plausible mistake. *)
(* Nothing uses it: it is there to try the properties on.                  *)
(***************************************************************************)
EXTENDS Naturals, Sequences, FiniteSets, SequencesExt

CONSTANTS Dirs, Files,   \* the paths of real directories and files
          MountPoints,   \* directories where a FUSE file system may be mounted
          Bases,         \* the stores that may be walked
          Layouts,       \* functions from links to what they contain
          Exclusions     \* what this process may have excluded from its walks

ASSUME MountsAssumption == MountPoints \subseteq Dirs /\ Exclusions \subseteq SUBSET MountPoints

Paths == Seq(STRING)
Parent(path) == IF path = <<>> THEN <<>> ELSE Front(path)
Below(m, path) == IsPrefix(m, path)

(* A tree: what is in it is in a directory, and is one thing.               *)
ASSUME TreeAssumption ==
  /\ Dirs \cup Files \cup Bases \subseteq Paths /\ IsFiniteSet(Dirs \cup Files)
  /\ Dirs \cap Files = {} /\ <<>> \notin Files
  /\ \A p \in (Dirs \cup Files) \ {<<>>} : Parent(p) \in Dirs
ASSUME LinksAssumption ==
  \A f \in Layouts :
    /\ DOMAIN f \subseteq Paths \ {<<>>} /\ IsFiniteSet(DOMAIN f)
    /\ DOMAIN f \cap (Dirs \cup Files) = {} /\ \A l \in DOMAIN f : Parent(l) \in Dirs

VARIABLES
  base,            \* the store
  link,            \* [the paths of links -> [absolute, to]]
  excluded,        \* _excluded_dirs
  attached,        \* the mount table
  walkPc,          \* "idle", "walking" or "done"
  known,           \* mounts, as the walk knows them
  seen, stack,     \* real paths visited; directories to visit, [walk, real]
  found,           \* the files yielded, by their real paths
  touched          \* history: what the kernel was asked about

walkVars == <<base, walkPc, known, seen, stack, found, touched>>

-----------------------------------------------------------------------------
(* What the kernel makes of a path: every link on the way is followed, but  *)
(* for a cycle of links.  One name of the path is done in a hop.            *)
Hops == 12

Hop(links, way) ==
  IF way.todo = <<>> THEN way
  ELSE LET next == Append(way.done, Head(way.todo))
           rest == Tail(way.todo)
       IN  IF Head(way.todo) = ".." THEN [done |-> Parent(way.done), todo |-> rest]
           ELSE IF next \in DOMAIN links
           THEN [done |-> IF links[next].absolute THEN <<>> ELSE way.done,
                 todo |-> links[next].to \o rest]
           ELSE [done |-> next, todo |-> rest]

Follow(links, start, path) ==
  LET way[n \in 0..Hops] ==
        IF n = 0 THEN [done |-> start, todo |-> path] ELSE Hop(links, way[n - 1])
  IN  way[Hops].done

(* Where a link leads, and a path from the root.                            *)
Leads(links, l) == Follow(links, IF links[l].absolute THEN <<>> ELSE Parent(l), links[l].to)
Place(links, e) == IF e \in DOMAIN links THEN Leads(links, e) ELSE e
Resolve(path) == Follow(link, <<>>, path)

Entries(dir) == {p \in Dirs \cup Files \cup DOMAIN link : p # <<>> /\ Parent(p) = dir}

(* os.path.normpath, and a link's target joined to a directory.             *)
NormPath(path) ==
  FoldLeft(LAMBDA p, name : IF name = ".." THEN Parent(p) ELSE Append(p, name), <<>>, path)

Target(links, dir, l) == NormPath(IF links[l].absolute THEN links[l].to ELSE dir \o links[l].to)

-----------------------------------------------------------------------------
(* The mount table and the directories excluded are read once.              *)
BugBegin ==
  /\ walkPc = "idle"
  /\ known' = attached
  /\ stack' = <<[walk |-> base, real |-> base, at |-> Resolve(base)]>> /\ walkPc' = "walking"
  /\ UNCHANGED <<base, link, excluded, seen, found, touched>>
Begin ==
  /\ walkPc = "idle"
  /\ known' = attached \cup excluded
  /\ LET real == IF base \in DOMAIN link THEN Target(link, Parent(base), base) ELSE base IN
     \/ /\ {base, real} \cap known' # {}
        /\ walkPc' = "done"
        /\ UNCHANGED stack
     \/ /\ {base, real} \cap known' = {}
        /\ walkPc' = "walking"
        /\ stack' = <<[walk |-> base, real |-> real, at |-> Resolve(base)]>>
  /\ UNCHANGED <<base, link, excluded, seen, found, touched>>

(* An entry as the walk names it, as it believes it really is, and where    *)
(* the kernel finds it.                                                     *)
Child(dir, entry) ==
  [walk |-> Append(dir.walk, Last(entry)),
   real |-> IF entry \in DOMAIN link THEN Target(link, dir.walk, entry)
            ELSE Append(dir.real, Last(entry)),
   at |-> Place(link, entry)]

Kept(dir) ==
  {c \in {Child(dir, e) : e \in Entries(dir.at)} : c.walk \notin known /\ c.real \notin known}

(* One directory is taken from the stack.                                   *)
BugVisit ==
  LET dir == Last(stack)
      children == Kept(dir)
      subdirs == {c \in children : c.at \in Dirs}
  IN
  /\ walkPc = "walking" /\ stack # <<>> /\ dir.walk \notin seen
  /\ seen' = seen \cup {dir.walk}
  /\ stack' = Front(stack) \o SetToSeq(subdirs)
  /\ found' = found \o SetToSeq({c.at : c \in children \ subdirs})
  /\ touched' = touched \cup {dir.at}
  /\ UNCHANGED <<base, link, excluded, walkPc, known>>
Visit ==
  LET dir == Last(stack)
      children == Kept(dir)
      subdirs == {c \in children : c.at \in Dirs}
  IN
  /\ walkPc = "walking" /\ stack # <<>> /\ dir.real \notin seen
  /\ seen' = seen \cup {dir.real}
  /\ stack' = Front(stack) \o SetToSeq(subdirs)
  /\ found' = found \o SetToSeq({c.at : c \in children \ subdirs})
  /\ touched' = touched \cup {dir.at} \cup {c.at : c \in children}
  /\ UNCHANGED <<base, link, excluded, walkPc, known>>

SeenBefore ==
  /\ walkPc = "walking" /\ stack # <<>> /\ Last(stack).real \in seen
  /\ stack' = Front(stack)
  /\ UNCHANGED <<base, link, excluded, walkPc, known, seen, found, touched>>

End ==
  /\ walkPc = "walking" /\ stack = <<>>
  /\ walkPc' = "done"
  /\ UNCHANGED <<base, link, excluded, known, seen, stack, found, touched>>

WalkInit ==
  /\ base \in Bases /\ link \in Layouts /\ excluded \in Exclusions
  /\ walkPc = "idle" /\ known = {} /\ seen = {} /\ stack = <<>> /\ found = <<>> /\ touched = {}

Walk == Begin \/ Visit \/ SeenBefore \/ End

-----------------------------------------------------------------------------
(* A walk asks the kernel nothing about a mount that was in the mount table *)
(* when it began, or that its process excluded: the daemon of that mount    *)
(* may be wedged, or be the process that walks.                             *)
StaysOutside == \A m \in known \cup excluded, path \in touched : ~Below(m, path)

(* What a theorem about this needs: a link leads where its text says, to a  *)
(* directory that is not inside a mount, and one that is relative is not in *)
(* a directory that a link leads to; no link is on the way to a store,      *)
(* though it may be one, nor is a store inside a mount.                     *)
PlainLinks(layouts) ==
  \A f \in layouts :
    /\ \A l \in DOMAIN f :
         /\ Leads(f, l) = Target(f, Parent(l), l) /\ Leads(f, l) \in Dirs
         /\ \A m \in MountPoints : Below(m, Leads(f, l)) => m = Leads(f, l)
         /\ ~f[l].absolute => \A k \in DOMAIN f : ~Below(Leads(f, k), Parent(l))
    /\ \A b \in Bases :
         /\ Follow(f, <<>>, b) = Place(f, b)
         /\ b \notin DOMAIN f => \A m \in MountPoints : Below(m, b) => m = b

(* The directories the kernel can reach from the store outside the mounts.  *)
Outside(path) == \A m \in known \cup attached : ~Below(m, path)

Ways ==
  {<<Parent(e), Place(link, e)>> :
     e \in {x \in (Dirs \cup DOMAIN link) \ {<<>>} : Outside(x) /\ Outside(Place(link, x))}}

Closed(S, ways) == \A way \in ways : way[1] \in S /\ way[2] \in Dirs => way[2] \in S

Reached ==
  LET start == {Resolve(base)} \cap Dirs
      ways == Ways
      closed == {S \in SUBSET Dirs : start \subseteq S /\ Closed(S, ways)}
  IN  {d \in Dirs : \A S \in closed : d \in S}

(* A walk that ends has found every session of the store that is outside    *)
(* the mounts, once, however many links lead to it, and around in circles.  *)
FoundOnce ==
  [][walkPc = "walking" /\ walkPc' = "done" =>
       /\ \A i, j \in DOMAIN found : found[i] = found[j] => i = j
       /\ Outside(Resolve(base)) =>
            LET reached == Reached IN
              {f \in Files : Outside(f) /\ Parent(f) \in reached} \subseteq ToSet(found)]_walkVars
=============================================================================
