SPECIFICATION Spec
CONSTANTS
  a1 = a1  a2 = a2
  u1 = u1  u2 = u2
  d1 = d1  d2 = d2
  None = None
  Attachment <- MCAttachment
  Upload <- MCUpload
  Digest <- MCDigest
  ContentOf <- MCContentOf
  Replicated = FALSE
  MaxEdits = 1
  MaxRestarts = 1
SYMMETRY RowSymmetry
INVARIANT Retrievable
CHECK_DEADLOCK FALSE
