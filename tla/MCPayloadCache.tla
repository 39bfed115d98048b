--------------------------- MODULE MCPayloadCache ---------------------------
(* PayloadCache on small sets, for TLC.                                     *)
EXTENDS PayloadCache

ClientSymmetry == Permutations(Clients)
=============================================================================
