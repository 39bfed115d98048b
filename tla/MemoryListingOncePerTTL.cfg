SPECIFICATION ListingSpec
CONSTANTS
  Requests = {r1, r2}
  Names = {n1}
  ReadDir = ReadDir
  NoListing = NoListing
  ListingTTL = 2
  MissAge = 1
  ScanTimeout = 1
  MaxCalls = 2
  MaxSpawnErrors = 0
PROPERTY RefreshedOncePerTTL
