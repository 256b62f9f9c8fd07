---------------------------- MODULE MCAttachments ---------------------------
(* Two rows, two digests.  Uploads of both contents, so that the content one *)
(* upload replaces is the content another brings.                            *)
EXTENDS Attachments, TLC

CONSTANTS a1, a2, u1, u2, d1, d2

MCAttachment == {a1, a2}
MCUpload == {u1, u2}
MCDigest == {d1, d2}
MCContentOf == [u \in MCUpload |-> IF u = u2 THEN d2 ELSE d1]
RowSymmetry == Permutations(MCAttachment)
=============================================================================
