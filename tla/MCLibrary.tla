------------------------------ MODULE MCLibrary ------------------------------
(* The demo notebook or an empty one, two logs and one more version of each. *)
EXTENDS Library

MCContent == {"a", "b"}
MCProfileOf == [c \in MCContent |-> "profile"]
MCDocumentOf == [c \in MCContent |-> c]
MCName == {"x", "y"}
MCNormal == [n \in MCName |-> n]
MCRoastedAt == [c \in MCContent \cup {"seed"} |-> IF c = "seed" THEN 1 ELSE 2]
MCPath == {1, 2}
MCFirstNotebooks == {EmptyNotebook, Seeded("x", "y", "x")}
MCQuery(filter, grouped, first) ==
  [filter |-> filter, grouped |-> grouped, path |-> << >>, first |-> first]
MCQueries ==
  {MCQuery([op |-> "all"], FALSE, 1), MCQuery([op |-> "all"], TRUE, 1),
   MCQuery([op |-> "is_null"], FALSE, 1), MCQuery([op |-> "search", word |-> "x"], FALSE, 2)}
=============================================================================
