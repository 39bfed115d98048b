SPECIFICATION Spec
CONSTANTS
  Clients = {c1}
  Names = {f}
  FileNames = {f}
  CacheBytes = 4
  LateNames = {f}
  MaxVersion = 1
  MaxOpens = 2
PROPERTY SizeIsOfTheSource
