SPECIFICATION Spec
CONSTANTS
  Clients = {c1, c2}
  Names = {f, d}
  FileNames = {f}
  CacheBytes = 4
  LateNames = {f}
  MaxVersion = 1
  MaxOpens = 1
SYMMETRY ClientSymmetry
INVARIANT TypeOK CacheAccounts OneOpenOnePayload FilePayloadIsCurrent
PROPERTY LastUsedIsKept StatSizeIsPayloadSize
