----------------------------- MODULE MCNanoSync -----------------------------
(* One log on the Nano, and a second that a roast writes.                    *)
EXTENDS NanoSync

MCContent == {"a", "b"}
MCProfileOf == [c \in MCContent |-> "profile"]
MCDocumentOf == [c \in MCContent |-> "document"]
MCLog == {1, 2}
MCFirstFiles == << "a" >>
MCWritten == {<<2, "b">>}
MCChunks == [logs |-> 2, profiles |-> 1, log |-> 1]
=============================================================================
