-------------------------- MODULE MCMemoryListing --------------------------
(* MemoryListing on small sets, for TLC.                                    *)
EXTENDS MemoryListing, TLC

Symmetric == Permutations(Requests) \cup Permutations(Names)
=============================================================================
