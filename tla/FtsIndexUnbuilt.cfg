SPECIFICATION Spec
CONSTANTS
  a = a
  b = b
  o = o
  s = s
  e = e
  Procs = {p}
  Records = {a}
  FileRecords = {a}
  Watched = {a}
  Unparsed = {}
  Store <- InOrder
  Scopes <- FullScope
  NoRow = NoRow
  NoProc = NoProc
  MaxAppends = 1
  MaxDeleted = 0
INVARIANT AnswersFromABuiltIndex
