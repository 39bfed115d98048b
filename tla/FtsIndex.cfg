SPECIFICATION Spec
CONSTANTS
  a = a
  b = b
  o = o
  s = s
  e = e
  Procs = {p, q}
  Records = {a, b, o, s, e}
  FileRecords = {a, b, e}
  Watched = {a, b}
  Unparsed = {o}
  Store <- InOrder
  Scopes <- FullScope
  NoRow = NoRow
  NoProc = NoProc
  MaxAppends = 2
  MaxDeleted = 1
SYMMETRY Symmetry
INVARIANT TypeOK OneVersionPerSession RefreshPicksUp SilentAnswerIsComplete
