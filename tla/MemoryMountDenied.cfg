SPECIFICATION Spec
CONSTANTS
  p1 = p1
  Dirs <- TreeDirs
  Files <- TreeFiles
  MountPoints <- OnlyMem
  Bases <- Stores
  Layouts <- PlainLayouts
  Exclusions <- OwnOrNot
  Clients = {p1}
  NoConn = NoConn
  MaxConn = 2
INVARIANT UnmountFrees
CHECK_DEADLOCK FALSE
