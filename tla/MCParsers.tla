------------------------------ MODULE MCParsers ------------------------------
(* Parsers on short logs of every format, for TLC.  What users say is only  *)
(* compared.                                                                *)
EXTENDS Parsers, TLC

CONSTANTS hi, go, ok

Symmetry == Permutations(Texts)
=============================================================================
