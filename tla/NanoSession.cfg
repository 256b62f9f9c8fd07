SPECIFICATION FairSpec
CONSTANTS
  Profile <- MCProfile
  Log <- MCLog
  OldLog <- MCOldLog
  Damaged <- MCDamaged
  MaxSync = 1
  MaxDrops = 1
  MaxResets = 1
INVARIANTS
  Attributed
  RefusedOnce
PROPERTIES
  CatchesUp
CHECK_DEADLOCK FALSE
