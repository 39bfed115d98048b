SPECIFICATION Spec
CONSTANTS
  Clients = {c1, c2}
  Names = {d}
  FileNames = {}
  CacheBytes = 2
  LateNames = {d}
  MaxVersion = 1
  MaxOpens = 2
INVARIANT PayloadIsGeneratedWhenRead
