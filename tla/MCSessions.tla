----------------------------- MODULE MCSessions -----------------------------
(* The machines of the runs of Sessions.                                   *)
EXTENDS Sessions, TLC

CONSTANTS project, sub, rollout, thread, events, backup, foreign, row, store

Place(agent, session, key, ran) ==
  [agent |-> agent, session |-> session, key |-> key, ran |-> ran, extra |-> FALSE,
   rollout |-> Absent, inPayload |-> FALSE]

Machine ==
     (project :> Place("claude", 1, "k1", "here"))
  @@ (sub :> Place("claude", 6, "k6", "below"))
  @@ (rollout :> [Place("codex", 2, "k2", "here") EXCEPT !.inPayload = TRUE])
  @@ (thread :> [Place("codex_db", 2, "row", "here") EXCEPT !.rollout = rollout])
  @@ (events :> Place("copilot", 3, "k3", "below"))
  @@ (backup :> [Place("claude", 1, "k1", "here") EXCEPT !.extra = TRUE])
  @@ (foreign :> Place("agent_probe", 4, "k4", "elsewhere"))
  @@ (store :> Place("copilot_db", 3, "row", "below"))
  @@ (row :> Place("opencode", 5, "row", "below"))

Start(all, present, written) ==
  [all |-> all, active |-> written,
   said |-> [p \in Places |-> IF p \in present THEN <<Message>> ELSE Absent]]

(* Listings of everything and of the directory, with sessions that stay, go *)
(* and begin: in a rollout and a row, a live file and a backup, copilot's   *)
(* file and its database, and below the directory.                          *)
Usual ==
  {Start(TRUE, {rollout, thread, sub}, {rollout, thread, sub}),
   Start(TRUE, {thread, store, backup}, {rollout, events}),
   Start(FALSE, {project, backup, events, store}, {project, events}),
   Start(FALSE, {backup, foreign, row}, {row}),
   Start(FALSE, {row, sub}, {project, events}),
   Start(FALSE, {thread, project}, {rollout, foreign})}
WithRollouts == {Start(FALSE, {rollout, thread}, {})}
Below == {Start(FALSE, {sub}, {})}
Both == {Start(TRUE, {events, store}, {})}
Trusted == {Start(FALSE, {project, events}, {events})}
=============================================================================
