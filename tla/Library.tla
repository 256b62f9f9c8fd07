------------------------------- MODULE Library -------------------------------
(***************************************************************************)
(* The companion's notebook in use: logs are imported, clients edit the    *)
(* catalogue and assign roasts (Catalog), one reads the library page by    *)
(* page (RoastLibrary), or a roast and then its curve.                     *)
(*                                                                         *)
(* The companion is one JavaScript thread: what a route does after the     *)
(* body has been parsed (routes/catalog-routes.ts, roast-routes.ts) is one *)
(* step.  Between two steps of a client anything may happen.               *)
(***************************************************************************)
EXTENDS RoastLibrary

CONSTANTS
  Path,          \* paths of logs on the Nano
  FirstNotebooks, \* databases the companion may start with
  Queries,       \* first queries of a reader
  MaxWrites,     \* bound: writes that succeed
  MaxRestarts    \* bound: restarts of the companion

ASSUME LibraryAssumption ==
  /\ {MaxWrites, MaxRestarts} \subseteq Nat
  /\ \A q \in Queries :
       /\ q = [filter |-> q.filter, grouped |-> q.grouped, path |-> << >>, first |-> q.first]
       /\ q.first \in Nat \ {0}
  /\ \A facts \in Content \cup {SeedFacts} : RoastedAt[facts] \in Nat
  /\ FirstNotebooks \subseteq
       {EmptyNotebook} \cup {Seeded(names[1], names[2], names[3]) : names \in Name \X Name \X Name}

VARIABLES
  db,        \* the database
  session,   \* the run of the companion, which signs its cursors
  pager,     \* the reader, in the library
  viewer,    \* the reader, at one roast
  writes     \* bound

vars == <<db, session, pager, viewer, writes>>

-----------------------------------------------------------------------------

NoQuery == [filter |-> [op |-> "all"], grouped |-> FALSE, path |-> << >>, first |-> 1]

\* owed: what was listed at first, as long as nothing of it has gone, or has moved
\* towards the beginning; calm: nothing in the list has changed; expects: how many rows the reader was told of, if it was.
FirstPager ==
  [query |-> NoQuery, cursor |-> << >>, got |-> << >>, done |-> FALSE,
   owed |-> {}, calm |-> TRUE, expects |-> << >>]

FirstViewer == [roast |-> 0, stream |-> 0, facts |-> Null, points |-> Null]

Init ==
  /\ db \in FirstNotebooks
  /\ session = 1 /\ pager = FirstPager /\ viewer = FirstViewer /\ writes = 0

-----------------------------------------------------------------------------
(* Writes.  What the reader has come to the end of is history.             *)

\* What a query shows: groups with their counts, or rows.
View(d, q) ==
  IF IsGrouped(q) THEN {<<g.key, g.label, Count(d, q, g.key, g.label)>> : g \in GroupSet(d, q)}
  ELSE Rows(d, q)

\* Nothing of the old list has gone, or is nearer the beginning than it was.
Grew(old, new) ==
  /\ ToSet(old) \subseteq ToSet(new)
  /\ \A i \in DOMAIN new : new[i] \in ToSet(old) =>
       \E j \in DOMAIN old : j <= i /\ old[j] = new[i]

Disturbed(d) ==
  LET q == pager.query
  IN  [pager EXCEPT !.owed = IF Grew(Items(db, q), Items(d, q)) THEN @ ELSE {},
                    !.calm = @ /\ View(d, q) = View(db, q)]

Writes(answer) ==
  /\ db' = answer.db
  /\ writes < MaxWrites /\ writes' = IF answer.db = db THEN writes ELSE writes + 1
  /\ pager'  = IF answer.db # db /\ pager.done THEN FirstPager ELSE Disturbed(answer.db)
  /\ viewer' = IF answer.db # db /\ viewer.points # Null THEN FirstViewer ELSE viewer
  /\ UNCHANGED session

\* A client has read a revision some time ago.
Known(record) == {record.revision, record.revision - 1} \ {0}

ImportLog ==
  \E c \in Content, path \in Path :
    Writes([db |-> Import(db, c, path).db, status |-> 200])

EditProviders ==
  \/ \E name \in Name : Writes(CreateProvider(db, name))
  \/ \E id \in DOMAIN db.providers : \E revision \in Known(db.providers[id]) :
       \/ \E name \in Name : Writes(UpdateProvider(db, id, revision, name))
       \/ Writes(ArchiveProvider(db, id, revision))

EditCoffees ==
  \/ \E name \in Name : Writes(CreateCoffee(db, name))
  \/ \E id \in DOMAIN db.coffees : \E revision \in Known(db.coffees[id]) :
       \/ \E name \in Name, fits \in BOOLEAN : Writes(UpdateCoffee(db, id, revision, name, fits))
       \/ Writes(ArchiveCoffee(db, id, revision))

EditLots ==
  \/ \E line \in DOMAIN db.lines, code \in Name : Writes(CreateLot(db, line, code))
  \/ \E id \in DOMAIN db.lots, code \in Name, archived \in BOOLEAN :
       \E revision \in Known(db.lots[id]) : Writes(UpdateLot(db, id, revision, code, archived))

\* A client may also ask for a coffee that is not there.
EditRoast ==
  \E n \in DOMAIN db.roasts, number \in 0 .. Len(db.coffees) + 1 :
    \E revision \in Known(db.roasts[n]) : Writes(AssignCoffee(db, n, revision, number))

-----------------------------------------------------------------------------
(* Readers.                                                                *)

\* The answer to a page that is accepted.
Shown(reader, q, offset) ==
  LET page == PageFrom(db, q, offset)
  IN  [reader EXCEPT !.query = q, !.got = @ \o page.items, !.done = ~page.hasNext,
                     !.cursor = IF page.hasNext THEN << Cursor(session, q, offset + q.first) >>
                                ELSE << >>]

\* A listing from its beginning.
Begun(q, expects) ==
  Shown([FirstPager EXCEPT !.owed = ToSet(Items(db, q)), !.expects = expects], q, 0)

FirstPage ==
  /\ \E q \in Queries : pager' = Begun(q, << >>)
  /\ viewer' = FirstViewer
  /\ UNCHANGED <<db, session, writes>>

\* The client sends the cursor it has, with the same query or another one.  A cursor
\* that is refused, or too old, is forgotten.
NextPage ==
  /\ pager.cursor # << >>
  /\ \/ \E q \in Queries \cup {pager.query} :
          pager' = IF Accepts(pager.cursor[1], session, q)
                     THEN Shown(pager, q, pager.cursor[1].offset) ELSE FirstPager
     \/ pager' = FirstPager
  /\ UNCHANGED <<db, session, viewer, writes>>

\* The client looks into a group it was shown with its count.
OpenGroup ==
  LET q == pager.query IN
  /\ IsGrouped(q)
  /\ \E g \in GroupSet(db, q) :
       /\ g.key \in ToSet(pager.got)
       /\ pager' = Begun([q EXCEPT !.path = << g.key >>],
                         IF pager.calm THEN << Count(db, q, g.key, g.label) >>
                         ELSE << >>)
  /\ UNCHANGED <<db, session, viewer, writes>>

GetDetail ==
  /\ \E n \in DOMAIN db.roasts :
       viewer' = [roast |-> n, stream |-> Detail(db, n).stream,
                  facts |-> Detail(db, n).facts, points |-> Null]
  /\ pager' = FirstPager
  /\ UNCHANGED <<db, session, writes>>

\* On a conflict the client reads the roast again.
GetSeries ==
  /\ viewer.roast # 0
  /\ LET answer == Series(db, viewer.roast, viewer.stream)
     IN  viewer' = IF answer.status = 200 THEN [viewer EXCEPT !.points = answer.points]
                   ELSE FirstViewer
  /\ UNCHANGED <<db, session, pager, writes>>

\* The database stays; cursors of the last run are not its own.
Restart ==
  /\ session <= MaxRestarts /\ session' = session + 1
  /\ UNCHANGED <<db, pager, viewer, writes>>

-----------------------------------------------------------------------------

Next ==
  \/ ImportLog \/ EditProviders \/ EditCoffees \/ EditLots \/ EditRoast
  \/ FirstPage \/ NextPage \/ OpenGroup \/ GetDetail \/ GetSeries \/ Restart

Spec == Init /\ [][Next]_vars

-----------------------------------------------------------------------------
(* Properties.                                                             *)

Roasts == DOMAIN db.roasts

\* Every reference is to something that is there; a roast has one row and one entry.
TypeOK ==
  /\ DOMAIN db.rows = Roasts /\ DOMAIN db.fts = Roasts
  /\ \A n \in Roasts :
       /\ db.roasts[n].coffee \in 0 .. Len(db.coffees) /\ db.roasts[n].lot \in 0 .. Len(db.lots)
       /\ db.rows[n].coffee \in 0 .. Len(db.coffees)
       /\ db.rows[n].provider \in 0 .. Len(db.providers) /\ db.rows[n].lot \in 0 .. Len(db.lots)
       /\ {db.roasts[n].stream, db.roasts[n].revision, db.rows[n].revision} \subseteq Nat \ {0}
  /\ ToSet(pager.got) \subseteq 0 .. Len(db.rows) + Len(db.coffees)
  /\ {pager.done, pager.calm} \subseteq BOOLEAN
  /\ viewer.roast \in 0 .. Len(db.roasts)

\* A roast without a coffee has no name, or the importer's.
NameShown(id) == IF id = 0 THEN {Null, Unassigned} ELSE {db.coffees[id].name}

RowAgrees(n) ==
  LET row    == db.rows[n]
      detail == Detail(db, n)
  IN  /\ row.coffee = db.roasts[n].coffee /\ row.lot = db.roasts[n].lot
      /\ row.coffeeName \in NameShown(row.coffee)
      /\ row.providerName = detail.provider /\ row.lotCode = detail.lot
      /\ row.revision = detail.revision /\ row.facts = detail.facts

\* An entry may have lost the notes of the log, but has none of a replaced log.
EntryAgrees(n) ==
  LET row   == db.rows[n]
      entry == db.fts[n]
  IN  /\ entry.coffee \in NameShown(row.coffee)
      /\ entry.provider = row.providerName
      /\ entry.notes \subseteq row.tasting \cup {row.facts}

\* What the library lists and finds is what the roast's own page shows, after any
\* sequence of imports, renamings, archivings and assignments: none of the writers of
\* the copies leaves one behind.
LibraryAgrees == \A n \in Roasts : RowAgrees(n) /\ EntryAgrees(n)

\* A reader who has come to the last page has been given everything that was listed when
\* it began, unless something listed has gone or moved towards the beginning; if nothing
\* has changed, nothing twice, and of a group as many rows as its count said.  Roasts
\* without a coffee are the exception: they make up two groups with one key once one of
\* them had a coffee.
PagesWhole ==
  pager.done =>
    /\ pager.owed \subseteq ToSet(pager.got)
    /\ pager.calm =>
         \A i, j \in DOMAIN pager.got : pager.got[i] = pager.got[j] =>
           i = j \/ (IsGrouped(pager.query) /\ pager.got[i] = 0)
    /\ pager.calm /\ pager.expects # << >> /\ pager.query.path # << 0 >> =>
         Len(pager.got) = pager.expects[1]

\* The curve a reader is given is that of the roast it has read, though the log may have
\* been replaced in between.
SeriesIsOwn == viewer.points # Null => viewer.points = viewer.facts

=============================================================================
