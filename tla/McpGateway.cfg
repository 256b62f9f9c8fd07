SPECIFICATION FairSpec
CONSTANTS
  Request <- MCRequest
  Agent <- MCAgent
  By <- MCBy
  Asks <- MCAsks
  Writers <- MCAgent
  MaxActive = 2
  MaxPerAgent = 1
  PeerBurst = 2
  AgentBurst = 1
  MaxFaults = 1
  MaxWaits = 1
INVARIANTS
  TypeOK
  CountersExact
  NotMisreported
PROPERTIES
  Answered
CHECK_DEADLOCK FALSE
