SPECIFICATION Spec
CONSTANTS
  a = a
  b = b
  o = o
  s = s
  e = e
  Procs = {p}
  Records = {a, e}
  FileRecords = {a, e}
  Watched = {a}
  Unparsed = {}
  Store <- InOrder
  Scopes <- FullScope
  NoRow = NoRow
  NoProc = NoProc
  MaxAppends = 2
  MaxDeleted = 0
INVARIANT SilentMeansIndexed
