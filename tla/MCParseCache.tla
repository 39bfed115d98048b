---------------------------- MODULE MCParseCache ----------------------------
(* The layouts of the runs of ParseCache.                                  *)
EXTENDS ParseCache, TLC

CONSTANTS p, q

Symmetry == Permutations({p, q})

(* Large sessions parsed by two processes at once, of one parser.          *)
Large == {[running |-> {p, q}, revisions |-> {1}, parts |-> 2]}

(* And small ones by two processes, which may be upgraded, and large ones  *)
(* by one that may be.                                                     *)
Usual ==
  Large \cup {[running |-> {p, q}, revisions |-> {1, 2}, parts |-> 1],
              [running |-> {p}, revisions |-> {1, 2}, parts |-> 2]}
=============================================================================
