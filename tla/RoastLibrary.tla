----------------------------- MODULE RoastLibrary ----------------------------
(***************************************************************************)
(* Queries of the companion's roast library                                *)
(* (apps/companion/src/services/roast-library-query.ts) and the cursors of *)
(* their pages (cursor.ts).                                                *)
(*                                                                         *)
(* A query has a filter, perhaps groups, the path of one group it looks    *)
(* into, and a page size; the library is grouped by coffee, and rows are   *)
(* in the default order.                                                   *)
(***************************************************************************)
EXTENDS Catalog, FiniteSets, SequencesExt

CONSTANT RoastedAt    \* when a roast took place, by the facts of its log

-----------------------------------------------------------------------------

\* compileFilter, for one clause of each kind.
Satisfies(db, n, filter) ==
  CASE filter.op = "all"     -> TRUE
    [] filter.op = "is_null" -> db.rows[n].coffee = 0
    [] filter.op = "search"  ->
         filter.word \in {db.fts[n].coffee, db.fts[n].provider} \cup db.fts[n].notes

\* compileGroupPath: the key of a group is the coffee, or nothing.
InPath(db, n, path) == path = << >> \/ db.rows[n].coffee = path[1]

Matching(db, q) ==
  {n \in DOMAIN db.rows : Satisfies(db, n, q.filter) /\ InPath(db, n, q.path)}

\* Newest first; the identifier, which grows with time, makes the order total.
Before(db, a, b) ==
  LET at(n) == RoastedAt[db.rows[n].facts]
  IN  at(a) > at(b) \/ (at(a) = at(b) /\ a < b)

\* ORDER BY a total order: an element has its place by how many come before it.
InOrder(S, before) ==
  [i \in 1 .. Cardinality(S) |->
     CHOOSE x \in S : Cardinality({y \in S : <<y, x>> \in before}) = i - 1]

Rows(db, q) ==
  LET ns == Matching(db, q)
  IN  InOrder(ns, {ab \in ns \X ns : Before(db, ab[1], ab[2])})

\* GROUP BY the coffee and its name: coffees in order, no coffee last.
GroupSet(db, q) ==
  {[key |-> db.rows[n].coffee, label |-> db.rows[n].coffeeName] : n \in Matching(db, q)}

GroupBefore(a, b) ==
  \/ a.key # 0 /\ (b.key = 0 \/ a.key < b.key)
  \/ a.key = b.key /\ a.label = Null /\ b.label # Null

GroupKeys(db, q) ==
  LET gs     == GroupSet(db, q)
      groups == InOrder(gs, {ab \in gs \X gs : GroupBefore(ab[1], ab[2])})
  IN  [i \in DOMAIN groups |-> groups[i].key]

Count(db, q, key, label) ==
  Cardinality({n \in Matching(db, q) :
                 db.rows[n].coffee = key /\ db.rows[n].coffeeName = label})

\* The rows or the groups a query is about.
IsGrouped(q) == q.grouped /\ q.path = << >>
Items(db, q) == IF IsGrouped(q) THEN GroupKeys(db, q) ELSE Rows(db, q)

-----------------------------------------------------------------------------
(* Pages.                                                                  *)

\* issue: what a cursor carries, signed.
Cursor(session, q, offset) == [session |-> session, query |-> q, offset |-> offset]

\* Faulty: a cursor of another query is taken.
AcceptsAny(cursor, session, q) == cursor.session = session

\* read: of this run of the companion and of this query; a cursor may also be too old.
Accepts(cursor, session, q) == cursor.session = session /\ cursor.query = q

\* One row more than the page is asked for.
PageFrom(db, q, offset) ==
  LET items == Items(db, q)
  IN  [items   |-> SubSeq(items, offset + 1, IF Len(items) < offset + q.first
                                               THEN Len(items) ELSE offset + q.first),
       hasNext |-> Len(items) > offset + q.first]

=============================================================================
