SPECIFICATION Spec
CONSTANTS
  b1 = b1  b2 = b2
  k1 = k1  k2 = k2
  c1 = c1  c2 = c2  c3 = c3
  None = None
  Bridge <- MCBridge
  Claim <- MCClaim
  Conn <- MCConn
  MaxRevokes = 1
  MaxRestarts = 1
SYMMETRY IdSymmetry
INVARIANT RevocationDetaches
CHECK_DEADLOCK FALSE
