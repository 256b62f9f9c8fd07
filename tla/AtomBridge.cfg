SPECIFICATION FairSpec
CONSTANTS
  Capacity = 2
  MaxChunks = 3
  MaxAttempts = 2
INVARIANTS
  TypeOK
  Conservation
  GenerationIsolation
  NoGapInSession
  FreshHandshake
  SetupStaysLocal
  ClientOutlivesSend
  ClientHasSession
PROPERTIES
  OnlyNanoReenumerates
  RecoveryCompletes
  ImplementsSession
CHECK_DEADLOCK FALSE
