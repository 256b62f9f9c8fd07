SPECIFICATION FairSpec
CONSTANTS
  Content <- MCContent
  Unsafe = {}
  ProfileOf <- MCProfileOf
  DocumentOf <- MCDocumentOf
  Log <- MCLog
  FirstFiles <- MCFirstFiles
  Written <- MCWritten
  Chunks <- MCChunks
  MaxLists = 3
  MaxFaults = 1
  MaxEdits = 1
  MaxSyncs = 1
INVARIANTS
  Attributed
  ListingIsOwn
  OpensCurrent
PROPERTIES
  SyncEnds
CHECK_DEADLOCK FALSE
