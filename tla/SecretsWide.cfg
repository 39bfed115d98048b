SPECIFICATION Spec
CONSTANTS
  Letters = {"a", "b", "x"}
  journal = journal
  sidecar = sidecar
  old = old
  s = s
  t = t
  Files = {journal, sidecar, old}
  Sessions = {s, t}
  Database = Database
  turns = turns
  threads = threads
  Tables = {turns, threads}
  Owner <- OwnerOf
  Lines <- Appended
  Cells <- Inserted
  Scans <- Straddling
  MinLength = 2
  ReadChunk = 4
  FetchRows = 1
  MaxWrites = 0
INVARIANT EverySecretIsReported
CHECK_DEADLOCK FALSE
