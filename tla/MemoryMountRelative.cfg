SPECIFICATION Spec
CONSTANTS
  p1 = p1
  Dirs <- TreeDirs
  Files <- TreeFiles
  MountPoints <- OnlyMem
  Bases <- Stores
  Layouts <- RelativeLayouts
  Exclusions <- OwnOrNot
  Clients = {p1}
  NoConn = NoConn
  MaxConn = 2
INVARIANT StaysOutside
CHECK_DEADLOCK FALSE
