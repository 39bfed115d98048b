SPECIFICATION ListingFairSpec
CONSTANTS
  Requests = {r1, r2}
  Names = {n1}
  ReadDir = ReadDir
  NoListing = NoListing
  ListingTTL = 1
  MissAge = 0
  ScanTimeout = 1
  MaxCalls = 2
  MaxSpawnErrors = 1
INVARIANT ListingTypeOK SlotIsHeldOnce ListingCoversSettled StarterSeesItsPast RecordsWaitIsBounded
PROPERTY PublishesItsScan AbsentIsJustified RequestsReturn SlotComesBack
