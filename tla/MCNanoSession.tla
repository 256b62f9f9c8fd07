--------------------------- MODULE MCNanoSession ---------------------------
(* A profile, an old log whose transfer fails, and logs still to be roasted. *)
EXTENDS NanoSession

MCProfile == {5}
MCLog == {1, 2, 3}
MCOldLog == {1}
MCDamaged == {1}
=============================================================================
