SPECIFICATION Spec
CONSTANTS
  project = project
  sub = sub
  rollout = rollout
  thread = thread
  events = events
  backup = backup
  foreign = foreign
  row = row
  store = store
  Places = {project, sub, rollout, thread, events, backup, foreign, row, store}
  Info <- Machine
  Starts <- WithRollouts
  Message = Message
  Other = Other
  Absent = Absent
  MaxWrites = 2
INVARIANT EverySessionIsListed
CHECK_DEADLOCK FALSE
