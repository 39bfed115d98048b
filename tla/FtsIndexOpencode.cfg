SPECIFICATION Spec
CONSTANTS
  a = a
  b = b
  o = o
  s = s
  e = e
  Procs = {p}
  Records = {o}
  FileRecords = {}
  Watched = {}
  Unparsed = {o}
  Store <- InOrder
  Scopes <- FullScope
  NoRow = NoRow
  NoProc = NoProc
  MaxAppends = 1
  MaxDeleted = 0
INVARIANT RefreshPicksUpAll
