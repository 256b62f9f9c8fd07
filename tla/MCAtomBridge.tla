---------------------------- MODULE MCAtomBridge ----------------------------
(* A ring of two chunks and a handful of chunks and attempts: enough for an *)
(* overflow, for chunks popped and pushed across two failed sessions, and   *)
(* for a third session to show what the second left behind.                 *)
EXTENDS AtomBridge
=============================================================================
