SPECIFICATION Spec
CONSTANTS
  project = project
  sub = sub
  rollout = rollout
  thread = thread
  events = events
  backup = backup
  foreign = foreign
  row = row
  store = store
  Places = {project, sub, rollout, thread, events, backup, foreign, row, store}
  Info <- Machine
  Starts <- Usual
  Message = Message
  Other = Other
  Absent = Absent
  MaxWrites = 2
INVARIANT TypeOK SessionsAreListed DeletesWhatItChecked
CHECK_DEADLOCK FALSE
