----------------------------- MODULE MCScanCache -----------------------------
(* ScanCache on small sets, for TLC: two threads, either both of a mount or *)
(* one of a mount and one of a command that shares the database with it.    *)
EXTENDS ScanCache

CONSTANTS mount, command, t1, t2

OneOrTwoProcesses ==
  {[w \in Workers |-> IF w = t2 THEN p ELSE mount] : p \in {mount, command}}
=============================================================================
