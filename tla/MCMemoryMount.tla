---------------------------- MODULE MCMemoryMount ----------------------------
(* MemoryMount on a small tree, for TLC: two stores, one of them a link as  *)
(* agent_probe's is, and a repository that holds a memory mount.            *)
EXTENDS MemoryMount

CONSTANTS p1

store == <<"home", "store">>
probe == <<"home", "probe">>
repo == <<"repo">>
mem == <<"repo", "mem">>
inStore == <<"home", "store", "l">>
inRepo == <<"repo", "k">>

TreeDirs == {<<>>, <<"home">>, store, repo, mem, <<"repo", "day">>}
TreeFiles == {<<"home", "store", "s">>, <<"repo", "day", "s">>, <<"repo", "mem", "s">>}
OnlyMem == {mem}
Stores == {store, probe}
OwnOrNot == {{}, {mem}}

To(path) == [absolute |-> TRUE, to |-> path]
From(path) == [absolute |-> FALSE, to |-> path]

Functions(S, T) == UNION {[D -> T] : D \in SUBSET S}

(* Links as textual resolution takes them: their target is a directory by   *)
(* its real path, a mountpoint but nothing inside it, and a relative one is *)
(* not in a directory that another link leads to.                           *)
PlainLayouts ==
  {f @@ (probe :> To(repo)) : f \in [{inStore} -> {To(<<"home">>), To(repo), To(mem)}]
                                     \cup [{inRepo} -> {To(store), To(repo)}]}
  \cup {(inStore :> To(repo)) @@ (inRepo :> To(store)) @@ (probe :> From(<<"store">>)),
        (probe :> To(mem)),
        (inStore :> From(<<"..", "..", "repo", "mem">>)) @@ (probe :> To(repo))}

(* StoreWalk's theorems are of these.                                       *)
ASSUME PlainIsPlain == PlainLinks(PlainLayouts)

(* A relative link in a directory that another link leads to.               *)
RelativeLayouts == {(probe :> To(repo)) @@ (inRepo :> From(<<"mem">>))}
=============================================================================
