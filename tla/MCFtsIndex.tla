----------------------------- MODULE MCFtsIndex -----------------------------
(* FtsIndex on small sets, for TLC: a, b are Claude's, o is opencode's,     *)
(* s is Hermes's, e is in an extra folder.                                  *)
EXTENDS FtsIndex, TLC

CONSTANTS a, b, o, s, e

StoreOf(r) == CASE r \in {a, b} -> 1 [] r = o -> 2 [] r = s -> 3 [] OTHER -> 4
InOrder == [r \in Records |-> StoreOf(r)]
FullScope == {Records}
Symmetry == Permutations(Procs) \cup Permutations({a, b})
=============================================================================
