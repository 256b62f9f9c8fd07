------------------------------- MODULE Catalog -------------------------------
(***************************************************************************)
(* The companion's catalogue and its roasts                                *)
(* (apps/companion/src/repositories/catalog-repository.ts,                 *)
(* roast-repository.ts), beside the importer's tables: each operation an   *)
(* operator from the database to the database and the status of the        *)
(* response.                                                               *)
(*                                                                         *)
(* The library's rows and its search index are copies of what the          *)
(* catalogue says; every operation below keeps them by hand.               *)
(***************************************************************************)
EXTENDS KlogImport

CONSTANTS
  Name,     \* names and codes
  Normal    \* normalizeName: for each name, its normal form

ASSUME CatalogAssumption == Name \subseteq DOMAIN Normal /\ Null \notin Name

\* Providers, coffees and lots are known by their places; none is ever deleted.
\* A lot belongs to a line of a purchase: a coffee, of a provider.
EmptyNotebook ==
  [files |-> {}, quarantine |-> << >>, profiles |-> << >>,
   roasts |-> << >>, rows |-> << >>, fts |-> << >>,
   providers |-> << >>, coffees |-> << >>, lines |-> << >>, lots |-> << >>]

\* The demo data: a roast of a lot of a coffee, which came from no log.
SeedFacts == "seed"

Seeded(provider, coffee, code) ==
  [EmptyNotebook EXCEPT
     !.providers = << [name |-> provider, revision |-> 1, archived |-> FALSE] >>,
     !.coffees   = << [name |-> coffee, revision |-> 1, archived |-> FALSE] >>,
     !.lines     = << [coffee |-> 1, provider |-> 1] >>,
     !.lots      = << [code |-> code, line |-> 1, revision |-> 1, archived |-> FALSE] >>,
     !.roasts    = << [source |-> [sha |-> Null, path |-> 0], facts |-> SeedFacts, stream |-> 1,
                       points |-> SeedFacts, revision |-> 1, coffee |-> 1, lot |-> 1] >>,
     !.rows      = << [revision |-> 1, facts |-> SeedFacts, profile |-> << "seed", 1 >>,
                       coffee |-> 1, coffeeName |-> coffee,
                       provider |-> 1, providerName |-> provider,
                       lot |-> 1, lotCode |-> code, tasting |-> {"jasmine"}] >>,
     !.fts       = << [coffee |-> coffee, provider |-> provider, notes |-> {"jasmine"}] >>]

Answer(db, status) == [db |-> db, status |-> status]

\* The revision of If-Match, then the constraints; a write that passes both is one
\* immediate transaction.
Guarded(db, record, revision, conflict, written) ==
  CASE record.revision # revision -> Answer(db, 412)
    [] record.revision = revision /\ conflict -> Answer(db, 409)
    [] OTHER -> Answer(written, 200)

-----------------------------------------------------------------------------
(* The copies.                                                             *)

\* refreshFts: entries are made again from the rows, which do not hold the notes
\* of an imported roast.
Entry(row) == [coffee |-> row.coffeeName, provider |-> row.providerName, notes |-> row.tasting]

RefreshFts(db, ns) ==
  [db EXCEPT !.fts = [n \in DOMAIN @ |-> IF n \in ns THEN Entry(db.rows[n]) ELSE @[n]]]

RowsOfProvider(db, id) == {n \in DOMAIN db.rows : db.rows[n].provider = id}
RowsOfCoffee(db, id)   == {n \in DOMAIN db.rows : db.rows[n].coffee = id}
RowsOfLot(db, id)      == {n \in DOMAIN db.rows : db.rows[n].lot = id}

-----------------------------------------------------------------------------
(* Providers.                                                              *)

\* The unique index covers providers that are not archived.
NameTaken(db, id, name) ==
  \E p \in DOMAIN db.providers :
    p # id /\ ~db.providers[p].archived /\ Normal[db.providers[p].name] = Normal[name]

CreateProvider(db, name) ==
  IF NameTaken(db, 0, name) THEN Answer(db, 409)
  ELSE Answer([db EXCEPT !.providers =
                 Append(@, [name |-> name, revision |-> 1, archived |-> FALSE])], 201)

UpdateProvider(db, id, revision, name) ==
  LET provider == db.providers[id]
      renamed  == [db EXCEPT
        !.providers[id] = [NextRevision(@) EXCEPT !.name = name],
        !.rows = [n \in DOMAIN @ |-> IF n \in RowsOfProvider(db, id)
                                       THEN [@[n] EXCEPT !.providerName = name] ELSE @[n]]]
  IN  Guarded(db, provider, revision, ~provider.archived /\ NameTaken(db, id, name),
              RefreshFts(renamed, RowsOfProvider(db, id)))

\* A second archiving counts as well.
ArchiveProvider(db, id, revision) ==
  Guarded(db, db.providers[id], revision, FALSE,
          [db EXCEPT !.providers[id] = [NextRevision(@) EXCEPT !.archived = TRUE]])

-----------------------------------------------------------------------------
(* Coffees, whose names need not differ.                                   *)

CreateCoffee(db, name) ==
  Answer([db EXCEPT !.coffees =
            Append(@, [name |-> name, revision |-> 1, archived |-> FALSE])], 201)

\* fits: the altitudes, merged with those that stay, are in order.
UpdateCoffee(db, id, revision, name, fits) ==
  LET renamed == [db EXCEPT
        !.coffees[id] = [NextRevision(@) EXCEPT !.name = name],
        !.rows = [n \in DOMAIN @ |-> IF n \in RowsOfCoffee(db, id)
                                       THEN [@[n] EXCEPT !.coffeeName = name] ELSE @[n]]]
      answer  == Guarded(db, db.coffees[id], revision, FALSE,
                         RefreshFts(renamed, RowsOfCoffee(db, id)))
  IN  IF answer.status = 200 /\ ~fits THEN Answer(db, 422) ELSE answer

ArchiveCoffee(db, id, revision) ==
  Guarded(db, db.coffees[id], revision, FALSE,
          [db EXCEPT !.coffees[id] = [NextRevision(@) EXCEPT !.archived = TRUE]])

-----------------------------------------------------------------------------
(* Lots.                                                                   *)

CodeTaken(db, id, code) == \E l \in DOMAIN db.lots : l # id /\ db.lots[l].code = code

CreateLot(db, line, code) ==
  IF CodeTaken(db, 0, code) THEN Answer(db, 409)
  ELSE Answer([db EXCEPT !.lots = Append(@, [code |-> code, line |-> line, revision |-> 1,
                                             archived |-> FALSE])], 201)

\* The search index has no code.
UpdateLot(db, id, revision, code, archived) ==
  Guarded(db, db.lots[id], revision, CodeTaken(db, id, code),
    [db EXCEPT
       !.lots[id] = [NextRevision(@) EXCEPT !.code = code, !.archived = archived],
       !.rows = [n \in DOMAIN @ |-> IF n \in RowsOfLot(db, id)
                                      THEN [@[n] EXCEPT !.lotCode = code] ELSE @[n]]])

-----------------------------------------------------------------------------
(* Roasts.                                                                 *)

\* 0 takes the coffee away; an archived coffee cannot be given.
Assignable(db, number) ==
  number = 0 \/ (number \in DOMAIN db.coffees /\ ~db.coffees[number].archived)

CoffeeShown(db, id) == IF id \in DOMAIN db.coffees THEN db.coffees[id].name ELSE Null

\* Faulty: the row keeps the lot of the coffee it had.
AssignedKeepingLot(db, n, number) ==
  [db EXCEPT
     !.roasts[n] = [NextRevision(@) EXCEPT !.coffee = number, !.lot = 0],
     !.rows[n]   = [NextRevision(@) EXCEPT !.coffee = number,
                                           !.coffeeName = CoffeeShown(db, number),
                                           !.provider = 0, !.providerName = Null]]

\* The lot, and with it the provider, is another coffee's.
Assigned(db, n, number) ==
  [db EXCEPT
     !.roasts[n] = [NextRevision(@) EXCEPT !.coffee = number, !.lot = 0],
     !.rows[n]   = [NextRevision(@) EXCEPT !.coffee = number,
                                           !.coffeeName = CoffeeShown(db, number),
                                           !.provider = 0, !.providerName = Null,
                                           !.lot = 0, !.lotCode = Null]]

AssignCoffee(db, n, revision, number) ==
  LET answer == Guarded(db, db.roasts[n], revision, FALSE,
                        RefreshFts(Assigned(db, n, number), {n}))
  IN  IF answer.status = 200 /\ ~Assignable(db, number) THEN Answer(db, 404) ELSE answer

\* getDetail joins: the coffee of the roast, its lot, and the provider of the lot.
Detail(db, n) ==
  LET roast == db.roasts[n]
  IN  [revision |-> roast.revision, facts |-> roast.facts,
       coffee   |-> CoffeeShown(db, roast.coffee),
       lot      |-> IF roast.lot = 0 THEN Null ELSE db.lots[roast.lot].code,
       provider |-> IF roast.lot = 0 THEN Null
                    ELSE db.providers[db.lines[db.lots[roast.lot].line].provider].name,
       stream   |-> roast.stream]

\* getSeries: the points of the stream the reader has seen the description of.
Series(db, n, stream) ==
  IF db.roasts[n].stream # stream THEN [status |-> 409, points |-> Null]
  ELSE [status |-> 200, points |-> db.roasts[n].points]

=============================================================================
