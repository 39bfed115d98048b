----------------------------- MODULE FreshReads -----------------------------
(***************************************************************************)
(* What the caches of trajectoriz promise to their callers, with nothing   *)
(* of how: session files grow while readers ask about them, and an answer  *)
(* is what the file gave at some moment between the question and the       *)
(* answer.  ScanCache and ParseCache are shown to implement this.          *)
(***************************************************************************)
EXTENDS Naturals

CONSTANTS Readers, Files,
          Nothing      \* no question, no answer

VARIABLES version,     \* [Files -> how often the file has grown]
          asked,       \* [Readers -> the question under way, or Nothing]
          answer       \* the answer this step gave, or Nothing

vars == <<version, asked, answer>>

Init ==
  /\ version = [f \in Files |-> 0]
  /\ asked = [r \in Readers |-> Nothing]
  /\ answer = Nothing

Grow(f) ==
  /\ version' = [version EXCEPT ![f] = version[f] + 1]
  /\ answer' = Nothing
  /\ UNCHANGED asked

Ask(r, f) ==
  /\ asked[r] = Nothing
  /\ asked' = [asked EXCEPT ![r] = [file |-> f, since |-> version[f]]]
  /\ answer' = Nothing
  /\ UNCHANGED version

(* The reader is told what the file held at a moment of the call.          *)
Answer(r) ==
  /\ asked[r] # Nothing
  /\ asked' = [asked EXCEPT ![r] = Nothing]
  /\ \E v \in asked[r].since..version[asked[r].file] :
       answer' = [since |-> asked[r].since, value |-> v]
  /\ UNCHANGED version

(* A process ends, and the questions of its threads with it.               *)
Abandon(gone) ==
  /\ asked' = [r \in Readers |-> IF r \in gone THEN Nothing ELSE asked[r]]
  /\ answer' = Nothing
  /\ UNCHANGED version

(* Whatever else the cache does.                                           *)
Silent == answer' = Nothing /\ UNCHANGED <<version, asked>>

Next ==
  \/ \E f \in Files : Grow(f)
  \/ \E r \in Readers, f \in Files : Ask(r, f)
  \/ \E r \in Readers : Answer(r)
  \/ \E gone \in SUBSET Readers : Abandon(gone)
  \/ Silent

Spec == Init /\ [][Next]_vars
=============================================================================
