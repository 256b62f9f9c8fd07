SPECIFICATION Spec
CONSTANTS
  a1 = a1  a2 = a2
  u1 = u1  u2 = u2
  d1 = d1  d2 = d2
  None = None
  Attachment <- MCAttachment
  Upload <- MCUpload
  Digest <- MCDigest
  ContentOf <- MCContentOf
  Replicated = TRUE
  MaxEdits = 1
  MaxRestarts = 1
SYMMETRY RowSymmetry
INVARIANTS
  LostOnlyByRace
  AcceptedIsReplicated
  PassClosesGap
PROPERTIES
  CollectsWhatItReplaced
CHECK_DEADLOCK FALSE
