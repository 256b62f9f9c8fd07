---------------------------- MODULE Library_proofs ---------------------------
(***************************************************************************)
(* The copies the notebook keeps of its catalogue, and the curve of a      *)
(* roast, for any logs, names and paths and any number of writes.  The     *)
(* operations of the database are operators, so most of what is proved is  *)
(* about a database d and what an operation makes of it.                   *)
(***************************************************************************)
EXTENDS Library, FiniteSetTheorems, TLAPS

\* A list, of whatever.
IsSeq(s) == \E S : s \in Seq(S)

Fields == {"files", "quarantine", "profiles", "roasts", "rows", "fts", "providers", "coffees",
           "lines", "lots"}
RoastFields == {"source", "facts", "stream", "points", "revision", "coffee", "lot"}
RowFields   == {"revision", "facts", "profile", "coffee", "coffeeName", "provider",
                "providerName", "lot", "lotCode", "tasting"}
NameFields  == {"name", "revision", "archived"}
LotFields   == {"code", "line", "revision", "archived"}

\* The tables are lists, and what they refer to is there.
Tables(d) ==
  /\ DOMAIN d = Fields
  /\ IsSeq(d.roasts) /\ IsSeq(d.rows) /\ IsSeq(d.fts)
  /\ IsSeq(d.providers) /\ IsSeq(d.coffees) /\ IsSeq(d.lots)
  /\ Len(d.rows) = Len(d.roasts) /\ Len(d.fts) = Len(d.roasts)

Catalogue(d) ==
  /\ \A id \in DOMAIN d.providers : DOMAIN d.providers[id] = NameFields
  /\ \A id \in DOMAIN d.coffees : DOMAIN d.coffees[id] = NameFields /\ d.coffees[id].name \in Name
  /\ \A line \in DOMAIN d.lines : d.lines[line].provider \in DOMAIN d.providers
  /\ \A id \in DOMAIN d.lots : DOMAIN d.lots[id] = LotFields /\ d.lots[id].line \in DOMAIN d.lines

RoastOK(d, roast) ==
  /\ DOMAIN roast = RoastFields
  /\ roast.coffee = 0 \/ roast.coffee \in DOMAIN d.coffees
  /\ roast.lot = 0 \/ roast.lot \in DOMAIN d.lots
  /\ roast.stream \in Nat /\ roast.points = roast.facts
  /\ roast.facts \in Content \cup {SeedFacts}

\* What a coffee, a lot or a provider is called.
CoffeeNames(d, id) == IF id = 0 THEN {Null, Unassigned} ELSE {d.coffees[id].name}
ProviderOf(d, lot) == IF lot = 0 THEN 0 ELSE d.lines[d.lots[lot].line].provider
ProviderName(d, id) == IF id = 0 THEN Null ELSE d.providers[id].name
LotCode(d, lot) == IF lot = 0 THEN Null ELSE d.lots[lot].code

\* A row and its entry, for a roast.
RowOK(d, roast, row) ==
  /\ DOMAIN row = RowFields
  /\ row.coffee = roast.coffee /\ row.lot = roast.lot
  /\ row.revision = roast.revision /\ row.facts = roast.facts
  /\ row.coffeeName \in CoffeeNames(d, row.coffee)
  /\ row.provider = ProviderOf(d, row.lot)
  /\ row.providerName = ProviderName(d, row.provider)
  /\ row.lotCode = LotCode(d, row.lot)

EntryOK(d, row, entry) ==
  /\ entry.coffee \in CoffeeNames(d, row.coffee)
  /\ entry.provider = row.providerName
  /\ entry.notes \subseteq row.tasting \cup {row.facts}

Copies(d) ==
  \A n \in DOMAIN d.roasts :
    RoastOK(d, d.roasts[n]) /\ RowOK(d, d.roasts[n], d.rows[n]) /\ EntryOK(d, d.rows[n], d.fts[n])

NotebookOK(d) == Tables(d) /\ Catalogue(d) /\ Copies(d)

-----------------------------------------------------------------------------
(* Sequences.                                                              *)

\* The places of a list, and of one that has grown by one.
LEMMA Grown ==
  ASSUME NEW s, IsSeq(s), NEW x
  PROVE  /\ Len(s) \in Nat /\ DOMAIN s = 1 .. Len(s)
         /\ DOMAIN Append(s, x) = 1 .. Len(s) + 1 /\ Len(Append(s, x)) = Len(s) + 1
         /\ Append(s, x)[Len(s) + 1] = x /\ \A i \in DOMAIN s : Append(s, x)[i] = s[i]
         /\ IsSeq(Append(s, x))
<1>1. PICK S : s \in Seq(S)
  BY DEF IsSeq
<1>2. Append(s, x) \in Seq(S \cup {x})
  BY <1>1
<1>3. IsSeq(Append(s, x))
  BY <1>2 DEF IsSeq
<1> QED
  BY <1>1, <1>3

\* A list whose elements are made anew.
LEMMA Renewed ==
  ASSUME NEW s, IsSeq(s), NEW t, DOMAIN t = DOMAIN s, t = [i \in DOMAIN s |-> t[i]]
  PROVE  IsSeq(t) /\ Len(t) = Len(s)
<1>1. Len(s) \in Nat /\ DOMAIN s = 1 .. Len(s)
  BY DEF IsSeq
<1>2. t \in Seq({t[i] : i \in DOMAIN t}) /\ Len(t) = Len(s)
  BY <1>1
<1> QED
  BY <1>1, <1>2 DEF IsSeq

-----------------------------------------------------------------------------
(* Operations that leave the copies alone.                                 *)

\* No roast is deleted, and another curve has another number.
Follows(d, e) ==
  \A n \in DOMAIN d.roasts :
    /\ n \in DOMAIN e.roasts
    /\ \/ e.roasts[n].stream = d.roasts[n].stream /\ e.roasts[n].facts = d.roasts[n].facts
       \/ e.roasts[n].stream > d.roasts[n].stream

Good(d, e) == NotebookOK(e) /\ Follows(d, e)

\* Names and codes stay, and so do roasts and their copies.
Keeps(d, e) ==
  /\ DOMAIN e = Fields
  /\ e.roasts = d.roasts /\ e.rows = d.rows /\ e.fts = d.fts /\ e.lines = d.lines
  /\ IsSeq(e.providers) /\ IsSeq(e.coffees) /\ IsSeq(e.lots)
  /\ \A id \in DOMAIN d.providers :
       id \in DOMAIN e.providers /\ e.providers[id].name = d.providers[id].name
  /\ \A id \in DOMAIN d.coffees :
       id \in DOMAIN e.coffees /\ e.coffees[id].name = d.coffees[id].name
  /\ \A id \in DOMAIN d.lots : /\ id \in DOMAIN e.lots
                               /\ e.lots[id].code = d.lots[id].code
                               /\ e.lots[id].line = d.lots[id].line

\* What a row refers to is there.
LEMMA Refers ==
  ASSUME NEW d, NotebookOK(d), NEW n \in DOMAIN d.roasts
  PROVE  /\ RoastOK(d, d.roasts[n]) /\ RowOK(d, d.roasts[n], d.rows[n])
         /\ EntryOK(d, d.rows[n], d.fts[n])
         /\ d.rows[n].coffee # 0 => d.rows[n].coffee \in DOMAIN d.coffees
         /\ d.rows[n].lot # 0 => /\ d.rows[n].lot \in DOMAIN d.lots
                                 /\ d.lots[d.rows[n].lot].line \in DOMAIN d.lines
         /\ d.rows[n].provider # 0 => d.rows[n].provider \in DOMAIN d.providers
         /\ n \in DOMAIN d.rows /\ n \in DOMAIN d.fts
         /\ DOMAIN d.rows = DOMAIN d.roasts /\ DOMAIN d.fts = DOMAIN d.roasts
<1>1. RoastOK(d, d.roasts[n]) /\ RowOK(d, d.roasts[n], d.rows[n]) /\ EntryOK(d, d.rows[n], d.fts[n])
  BY DEF NotebookOK, Copies
<1>2. DOMAIN d.rows = DOMAIN d.roasts /\ DOMAIN d.fts = DOMAIN d.roasts
  BY Grown DEF NotebookOK, Tables
<1> QED
  BY <1>1, <1>2 DEF RoastOK, RowOK, ProviderOf, NotebookOK, Catalogue

\* Then the copies agree as they did.
LEMMA Kept ==
  ASSUME NEW d, NotebookOK(d), NEW e, Keeps(d, e), Catalogue(e)
  PROVE  Good(d, e)
<1>1. Tables(e)
  BY DEF Keeps, NotebookOK, Tables
<1>2. ASSUME NEW n \in DOMAIN e.roasts
      PROVE  RoastOK(e, e.roasts[n]) /\ RowOK(e, e.roasts[n], e.rows[n]) /\ EntryOK(e, e.rows[n], e.fts[n])
  <2> DEFINE row == d.rows[n]
  <2>0. e.roasts[n] = d.roasts[n] /\ e.rows[n] = row /\ e.fts[n] = d.fts[n] /\ n \in DOMAIN d.roasts
    BY <1>2 DEF Keeps
  <2>1. /\ CoffeeNames(e, row.coffee) = CoffeeNames(d, row.coffee)
        /\ ProviderOf(e, row.lot) = ProviderOf(d, row.lot)
        /\ ProviderName(e, row.provider) = ProviderName(d, row.provider)
        /\ LotCode(e, row.lot) = LotCode(d, row.lot)
    BY <2>0, Refers DEF Keeps, CoffeeNames, ProviderOf, ProviderName, LotCode
  <2>2. RoastOK(e, d.roasts[n])
    BY <2>0, Refers DEF RoastOK, Keeps
  <2>3. RowOK(e, d.roasts[n], row) /\ EntryOK(e, row, d.fts[n])
    BY <2>0, <2>1, Refers DEF RowOK, EntryOK
  <2> QED
    BY <2>0, <2>2, <2>3
<1>3. Follows(d, e)
  BY DEF Follows, Keeps
<1> QED
  BY <1>1, <1>2, <1>3 DEF Good, NotebookOK, Copies

\* Nothing is written.
LEMMA Unchanged ==
  ASSUME NEW d, NotebookOK(d)
  PROVE  Good(d, d)
  BY DEF Good, Follows

\* A guarded write is made, or it is not.
LEMMA GuardedWrite ==
  ASSUME NEW d, NotebookOK(d), NEW written, Good(d, written), NEW record, NEW revision,
         NEW conflict
  PROVE  Good(d, Guarded(d, record, revision, conflict, written).db)
<1>1. Guarded(d, record, revision, conflict, written).db \in {d, written}
  BY DEF Guarded, Answer
<1> QED
  BY <1>1, Unchanged

\* A new provider, coffee or lot.
LEMMA Created ==
  ASSUME NEW d, NotebookOK(d), NEW name \in Name
  PROVE  /\ Good(d, CreateProvider(d, name).db) /\ Good(d, CreateCoffee(d, name).db)
         /\ \A line \in DOMAIN d.lines : Good(d, CreateLot(d, line, name).db)
<1> DEFINE named == [name |-> name, revision |-> 1, archived |-> FALSE]
<1>0. /\ DOMAIN d = Fields /\ Catalogue(d)
      /\ IsSeq(d.providers) /\ IsSeq(d.coffees) /\ IsSeq(d.lots)
  BY DEF NotebookOK, Tables
<1>1. Good(d, CreateProvider(d, name).db)
  <2> DEFINE e == [d EXCEPT !.providers = Append(@, named)]
  <2>1. /\ DOMAIN e = Fields /\ e.providers = Append(d.providers, named)
        /\ e.roasts = d.roasts /\ e.rows = d.rows /\ e.fts = d.fts /\ e.lines = d.lines
        /\ e.coffees = d.coffees /\ e.lots = d.lots
    BY <1>0 DEF Fields
  <2>2. /\ IsSeq(e.providers)
        /\ \A id \in DOMAIN e.providers : id \in DOMAIN d.providers \/ e.providers[id] = named
        /\ \A id \in DOMAIN d.providers :
             id \in DOMAIN e.providers /\ e.providers[id] = d.providers[id]
    BY <1>0, <2>1, Grown
  <2>3. DOMAIN named = NameFields
    BY DEF NameFields
  <2>4. CreateProvider(d, name).db \in {d, e}
    BY DEF CreateProvider, Answer
  <2> HIDE DEF e, named
  <2>5. Keeps(d, e) /\ Catalogue(e)
    BY <1>0, <2>1, <2>2, <2>3 DEF Keeps, Catalogue
  <2> QED
    BY <2>4, <2>5, Kept, Unchanged
<1>2. Good(d, CreateCoffee(d, name).db)
  <2> DEFINE e == [d EXCEPT !.coffees = Append(@, named)]
  <2>1. /\ DOMAIN e = Fields /\ e.coffees = Append(d.coffees, named)
        /\ e.roasts = d.roasts /\ e.rows = d.rows /\ e.fts = d.fts /\ e.lines = d.lines
        /\ e.providers = d.providers /\ e.lots = d.lots
    BY <1>0 DEF Fields
  <2>2. /\ IsSeq(e.coffees)
        /\ \A id \in DOMAIN e.coffees : id \in DOMAIN d.coffees \/ e.coffees[id] = named
        /\ \A id \in DOMAIN d.coffees : id \in DOMAIN e.coffees /\ e.coffees[id] = d.coffees[id]
    BY <1>0, <2>1, Grown
  <2>3. DOMAIN named = NameFields /\ named.name \in Name
    BY DEF NameFields
  <2>4. CreateCoffee(d, name).db = e
    BY DEF CreateCoffee, Answer
  <2> HIDE DEF e, named
  <2>5. Keeps(d, e) /\ Catalogue(e)
    BY <1>0, <2>1, <2>2, <2>3 DEF Keeps, Catalogue
  <2> QED
    BY <2>4, <2>5, Kept
<1>3. ASSUME NEW line \in DOMAIN d.lines PROVE Good(d, CreateLot(d, line, name).db)
  <2> DEFINE lot == [code |-> name, line |-> line, revision |-> 1, archived |-> FALSE]
             e   == [d EXCEPT !.lots = Append(@, lot)]
  <2>1. /\ DOMAIN e = Fields /\ e.lots = Append(d.lots, lot)
        /\ e.roasts = d.roasts /\ e.rows = d.rows /\ e.fts = d.fts /\ e.lines = d.lines
        /\ e.providers = d.providers /\ e.coffees = d.coffees
    BY <1>0 DEF Fields
  <2>2. /\ IsSeq(e.lots)
        /\ \A id \in DOMAIN e.lots : id \in DOMAIN d.lots \/ e.lots[id] = lot
        /\ \A id \in DOMAIN d.lots : id \in DOMAIN e.lots /\ e.lots[id] = d.lots[id]
    BY <1>0, <2>1, Grown
  <2>3. DOMAIN lot = LotFields /\ lot.line \in DOMAIN d.lines
    BY DEF LotFields
  <2>4. CreateLot(d, line, name).db \in {d, e}
    BY DEF CreateLot, Answer
  <2> HIDE DEF e, lot
  <2>5. Keeps(d, e) /\ Catalogue(e)
    BY <1>0, <2>1, <2>2, <2>3 DEF Keeps, Catalogue
  <2> QED
    BY <2>4, <2>5, Kept, Unchanged
<1> QED
  BY <1>1, <1>2, <1>3

\* Archiving.
LEMMA Archived ==
  ASSUME NEW d, NotebookOK(d), NEW revision
  PROVE  /\ \A id \in DOMAIN d.providers : Good(d, ArchiveProvider(d, id, revision).db)
         /\ \A id \in DOMAIN d.coffees : Good(d, ArchiveCoffee(d, id, revision).db)
<1>0. /\ DOMAIN d = Fields /\ Catalogue(d)
      /\ IsSeq(d.providers) /\ IsSeq(d.coffees) /\ IsSeq(d.lots)
  BY DEF NotebookOK, Tables
<1>1. ASSUME NEW id \in DOMAIN d.providers PROVE Good(d, ArchiveProvider(d, id, revision).db)
  <2> DEFINE old == d.providers[id]
             new == [NextRevision(old) EXCEPT !.archived = TRUE]
             all == [d.providers EXCEPT ![id] = new]
             e   == [d EXCEPT !.providers = all]
  <2>1. DOMAIN new = NameFields /\ new.name = old.name
    BY <1>0 DEF Catalogue, NameFields, NextRevision
  <2> HIDE DEF new
  <2>2. /\ DOMAIN all = DOMAIN d.providers /\ all[id] = new
        /\ \A other \in DOMAIN d.providers : other # id => all[other] = d.providers[other]
        /\ all = [i \in DOMAIN d.providers |-> all[i]]
    OBVIOUS
  <2> HIDE DEF all
  <2>3. IsSeq(all)
    BY <1>0, <2>2, Renewed
  <2>4. /\ DOMAIN e = Fields /\ e.providers = all
        /\ e.roasts = d.roasts /\ e.rows = d.rows /\ e.fts = d.fts /\ e.lines = d.lines
        /\ e.coffees = d.coffees /\ e.lots = d.lots
    BY <1>0 DEF Fields
  <2>5. ArchiveProvider(d, id, revision).db = Guarded(d, old, revision, FALSE, e).db
    BY DEF ArchiveProvider, new, all
  <2> HIDE DEF e
  <2>6. Keeps(d, e)
    BY <1>0, <2>1, <2>2, <2>3, <2>4 DEF Keeps
  <2>8. Catalogue(e)
    BY <1>0, <2>1, <2>2, <2>4 DEF Catalogue
  <2>7. Good(d, e)
    BY <2>6, <2>8, Kept
  <2> QED
    BY <2>5, <2>7, GuardedWrite
<1>2. ASSUME NEW id \in DOMAIN d.coffees PROVE Good(d, ArchiveCoffee(d, id, revision).db)
  <2> DEFINE old == d.coffees[id]
             new == [NextRevision(old) EXCEPT !.archived = TRUE]
             all == [d.coffees EXCEPT ![id] = new]
             e   == [d EXCEPT !.coffees = all]
  <2>1. DOMAIN new = NameFields /\ new.name = old.name
    BY <1>0 DEF Catalogue, NameFields, NextRevision
  <2> HIDE DEF new
  <2>2. /\ DOMAIN all = DOMAIN d.coffees /\ all[id] = new
        /\ \A other \in DOMAIN d.coffees : other # id => all[other] = d.coffees[other]
        /\ all = [i \in DOMAIN d.coffees |-> all[i]]
    OBVIOUS
  <2> HIDE DEF all
  <2>3. IsSeq(all)
    BY <1>0, <2>2, Renewed
  <2>4. /\ DOMAIN e = Fields /\ e.coffees = all
        /\ e.roasts = d.roasts /\ e.rows = d.rows /\ e.fts = d.fts /\ e.lines = d.lines
        /\ e.providers = d.providers /\ e.lots = d.lots
    BY <1>0 DEF Fields
  <2>5. ArchiveCoffee(d, id, revision).db = Guarded(d, old, revision, FALSE, e).db
    BY DEF ArchiveCoffee, new, all
  <2> HIDE DEF e
  <2>6. Keeps(d, e)
    BY <1>0, <2>1, <2>2, <2>3, <2>4 DEF Keeps
  <2>8. Catalogue(e)
    BY <1>0, <2>1, <2>2, <2>4 DEF Catalogue
  <2>7. Good(d, e)
    BY <2>6, <2>8, Kept
  <2> QED
    BY <2>5, <2>7, GuardedWrite
<1> QED
  BY <1>1, <1>2

-----------------------------------------------------------------------------
(* Renamings: the rows that refer to what is renamed, and their entries.   *)

\* The entries that are made again, and the others.
LEMMA Refreshed ==
  ASSUME NEW d, DOMAIN d = Fields, IsSeq(d.fts), NEW ns
  PROVE  LET e == RefreshFts(d, ns) IN
         /\ DOMAIN e = Fields
         /\ \A field \in Fields \ {"fts"} : e[field] = d[field]
         /\ IsSeq(e.fts) /\ Len(e.fts) = Len(d.fts) /\ DOMAIN e.fts = DOMAIN d.fts
         /\ \A n \in DOMAIN d.fts : e.fts[n] = IF n \in ns THEN Entry(d.rows[n]) ELSE d.fts[n]
<1> DEFINE all == [n \in DOMAIN d.fts |-> IF n \in ns THEN Entry(d.rows[n]) ELSE d.fts[n]]
           e   == RefreshFts(d, ns)
<1>1. /\ DOMAIN all = DOMAIN d.fts
      /\ \A n \in DOMAIN d.fts : all[n] = IF n \in ns THEN Entry(d.rows[n]) ELSE d.fts[n]
      /\ all = [n \in DOMAIN d.fts |-> all[n]]
  OBVIOUS
<1>2. e = [d EXCEPT !.fts = all]
  BY DEF RefreshFts
<1> HIDE DEF all
<1>3. IsSeq(all) /\ Len(all) = Len(d.fts)
  BY <1>1, Renewed
<1> HIDE DEF e
<1>4. DOMAIN e = Fields /\ e.fts = all /\ \A field \in Fields \ {"fts"} : e[field] = d[field]
  BY <1>2 DEF Fields
<1> QED
  BY <1>1, <1>3, <1>4 DEF e

\* An entry that is made from a row agrees with it.
LEMMA EntryOfRow ==
  ASSUME NEW d, NEW roast, NEW row, RowOK(d, roast, row)
  PROVE  EntryOK(d, row, Entry(row))
  BY DEF RowOK, EntryOK, Entry

\* A provider gets another name.
LEMMA ProviderRenamed ==
  ASSUME NEW d, NotebookOK(d), NEW id \in DOMAIN d.providers, NEW revision, NEW name \in Name
  PROVE  Good(d, UpdateProvider(d, id, revision, name).db)
<1> DEFINE ns   == RowsOfProvider(d, id)
           new  == [NextRevision(d.providers[id]) EXCEPT !.name = name]
           all  == [d.providers EXCEPT ![id] = new]
           rows == [n \in DOMAIN d.rows |-> IF n \in ns THEN [d.rows[n] EXCEPT !.providerName = name]
                                            ELSE d.rows[n]]
           c    == [d EXCEPT !.providers = all, !.rows = rows]
           e    == RefreshFts(c, ns)
<1>0. /\ DOMAIN d = Fields /\ Tables(d) /\ Catalogue(d) /\ IsSeq(d.fts) /\ IsSeq(d.providers)
      /\ IsSeq(d.rows)
  BY DEF NotebookOK, Tables
<1>1. DOMAIN new = NameFields /\ new.name = name
  BY <1>0 DEF Catalogue, NameFields, NextRevision
<1> HIDE DEF new
<1>2. /\ DOMAIN all = DOMAIN d.providers /\ all[id] = new
      /\ \A other \in DOMAIN d.providers : other # id => all[other] = d.providers[other]
      /\ all = [i \in DOMAIN d.providers |-> all[i]]
  OBVIOUS
<1>3. /\ DOMAIN rows = DOMAIN d.rows /\ rows = [n \in DOMAIN d.rows |-> rows[n]]
      /\ \A n \in DOMAIN d.rows :
           rows[n] = IF n \in ns THEN [d.rows[n] EXCEPT !.providerName = name] ELSE d.rows[n]
  OBVIOUS
<1> HIDE DEF all, rows, ns
<1>4. IsSeq(all) /\ IsSeq(rows) /\ Len(rows) = Len(d.rows)
  BY <1>0, <1>2, <1>3, Renewed
<1>5. /\ DOMAIN c = Fields /\ c.providers = all /\ c.rows = rows /\ c.fts = d.fts
      /\ c.roasts = d.roasts /\ c.lines = d.lines /\ c.coffees = d.coffees /\ c.lots = d.lots
  BY <1>0 DEF Fields
<1>6. UpdateProvider(d, id, revision, name).db =
        Guarded(d, d.providers[id], revision,
                ~d.providers[id].archived /\ NameTaken(d, id, name), e).db
  BY DEF UpdateProvider, new, all, rows, ns
<1> HIDE DEF c
<1>7. /\ DOMAIN e = Fields /\ e.providers = all /\ e.rows = rows /\ e.roasts = d.roasts
      /\ e.lines = d.lines /\ e.coffees = d.coffees /\ e.lots = d.lots
      /\ IsSeq(e.fts) /\ Len(e.fts) = Len(d.fts) /\ DOMAIN e.fts = DOMAIN d.fts
      /\ \A n \in DOMAIN d.fts : e.fts[n] = IF n \in ns THEN Entry(rows[n]) ELSE d.fts[n]
  BY <1>0, <1>5, Refreshed DEF Fields
<1> HIDE DEF e
<1>8. Tables(e) /\ Catalogue(e)
  BY <1>0, <1>1, <1>2, <1>4, <1>7 DEF Tables, Catalogue
<1>9. ASSUME NEW n \in DOMAIN d.roasts
      PROVE  RoastOK(e, e.roasts[n]) /\ RowOK(e, e.roasts[n], e.rows[n]) /\ EntryOK(e, e.rows[n], e.fts[n])
  <2> DEFINE old == d.rows[n]
             row == rows[n]
  <2>0. /\ RoastOK(d, d.roasts[n]) /\ RowOK(d, d.roasts[n], old) /\ EntryOK(d, old, d.fts[n])
        /\ n \in DOMAIN d.rows /\ n \in DOMAIN d.fts
        /\ old.provider # 0 => old.provider \in DOMAIN d.providers
    BY Refers
  <2>1. /\ DOMAIN row = RowFields /\ \A field \in RowFields \ {"providerName"} : row[field] = old[field]
        /\ row.providerName = IF n \in ns THEN name ELSE old.providerName
    BY <1>3, <2>0 DEF RowOK, RowFields
  <2>2. n \in ns <=> old.provider = id
    BY <2>0 DEF ns, RowsOfProvider
  <2> HIDE DEF row
  <2>3. /\ CoffeeNames(e, row.coffee) = CoffeeNames(d, old.coffee)
        /\ ProviderOf(e, row.lot) = ProviderOf(d, old.lot)
        /\ LotCode(e, row.lot) = LotCode(d, old.lot)
    BY <1>7, <2>1 DEF CoffeeNames, ProviderOf, LotCode, RowFields
  <2>i. id # 0
    BY <1>0, Grown
  <2>4. row.providerName = ProviderName(e, row.provider)
    BY <1>1, <1>2, <1>7, <2>0, <2>1, <2>2, <2>i DEF RowOK, ProviderName, RowFields
  <2>5. RoastOK(e, e.roasts[n])
    BY <1>7, <2>0 DEF RoastOK
  <2>6. RowOK(e, e.roasts[n], row)
    BY <1>7, <2>0, <2>1, <2>3, <2>4 DEF RowOK, RowFields
  <2>7. EntryOK(e, row, e.fts[n])
    <3>1. CASE n \in ns
      BY <1>7, <2>0, <2>6, <3>1, EntryOfRow DEF row
    <3>2. CASE n \notin ns
      BY <1>7, <2>0, <2>1, <2>3, <3>2 DEF EntryOK, RowFields
    <3> QED
      BY <3>1, <3>2
  <2> QED
    BY <1>7, <2>5, <2>6, <2>7 DEF row
<1>10. Good(d, e)
  BY <1>7, <1>8, <1>9 DEF Good, NotebookOK, Copies, Follows
<1> QED
  BY <1>6, <1>10, GuardedWrite

\* A coffee gets another name.
LEMMA CoffeeRenamed ==
  ASSUME NEW d, NotebookOK(d), NEW id \in DOMAIN d.coffees, NEW revision, NEW name \in Name,
         NEW fits
  PROVE  Good(d, UpdateCoffee(d, id, revision, name, fits).db)
<1> DEFINE ns   == RowsOfCoffee(d, id)
           new  == [NextRevision(d.coffees[id]) EXCEPT !.name = name]
           all  == [d.coffees EXCEPT ![id] = new]
           rows == [n \in DOMAIN d.rows |-> IF n \in ns THEN [d.rows[n] EXCEPT !.coffeeName = name]
                                            ELSE d.rows[n]]
           c    == [d EXCEPT !.coffees = all, !.rows = rows]
           e    == RefreshFts(c, ns)
<1>0. /\ DOMAIN d = Fields /\ Tables(d) /\ Catalogue(d) /\ IsSeq(d.fts) /\ IsSeq(d.coffees)
      /\ IsSeq(d.rows)
  BY DEF NotebookOK, Tables
<1>1. DOMAIN new = NameFields /\ new.name = name
  BY <1>0 DEF Catalogue, NameFields, NextRevision
<1> HIDE DEF new
<1>2. /\ DOMAIN all = DOMAIN d.coffees /\ all[id] = new
      /\ \A other \in DOMAIN d.coffees : other # id => all[other] = d.coffees[other]
      /\ all = [i \in DOMAIN d.coffees |-> all[i]]
  OBVIOUS
<1>3. /\ DOMAIN rows = DOMAIN d.rows /\ rows = [n \in DOMAIN d.rows |-> rows[n]]
      /\ \A n \in DOMAIN d.rows :
           rows[n] = IF n \in ns THEN [d.rows[n] EXCEPT !.coffeeName = name] ELSE d.rows[n]
  OBVIOUS
<1> HIDE DEF all, rows, ns
<1>4. IsSeq(all) /\ IsSeq(rows) /\ Len(rows) = Len(d.rows)
  BY <1>0, <1>2, <1>3, Renewed
<1>5. /\ DOMAIN c = Fields /\ c.coffees = all /\ c.rows = rows /\ c.fts = d.fts
      /\ c.roasts = d.roasts /\ c.lines = d.lines /\ c.providers = d.providers /\ c.lots = d.lots
  BY <1>0 DEF Fields
<1>6. UpdateCoffee(d, id, revision, name, fits).db
        \in {d, Guarded(d, d.coffees[id], revision, FALSE, e).db}
  BY DEF UpdateCoffee, Answer, new, all, rows, ns
<1> HIDE DEF c
<1>7. /\ DOMAIN e = Fields /\ e.coffees = all /\ e.rows = rows /\ e.roasts = d.roasts
      /\ e.lines = d.lines /\ e.providers = d.providers /\ e.lots = d.lots
      /\ IsSeq(e.fts) /\ Len(e.fts) = Len(d.fts) /\ DOMAIN e.fts = DOMAIN d.fts
      /\ \A n \in DOMAIN d.fts : e.fts[n] = IF n \in ns THEN Entry(rows[n]) ELSE d.fts[n]
  BY <1>0, <1>5, Refreshed DEF Fields
<1> HIDE DEF e
<1>8. Tables(e) /\ Catalogue(e)
  BY <1>0, <1>1, <1>2, <1>4, <1>7 DEF Tables, Catalogue
<1>9. ASSUME NEW n \in DOMAIN d.roasts
      PROVE  RoastOK(e, e.roasts[n]) /\ RowOK(e, e.roasts[n], e.rows[n]) /\ EntryOK(e, e.rows[n], e.fts[n])
  <2> DEFINE old == d.rows[n]
             row == rows[n]
  <2>0. /\ RoastOK(d, d.roasts[n]) /\ RowOK(d, d.roasts[n], old) /\ EntryOK(d, old, d.fts[n])
        /\ n \in DOMAIN d.rows /\ n \in DOMAIN d.fts
        /\ old.coffee # 0 => old.coffee \in DOMAIN d.coffees
    BY Refers
  <2>1. /\ DOMAIN row = RowFields /\ \A field \in RowFields \ {"coffeeName"} : row[field] = old[field]
        /\ row.coffeeName = IF n \in ns THEN name ELSE old.coffeeName
    BY <1>3, <2>0 DEF RowOK, RowFields
  <2>2. n \in ns <=> old.coffee = id
    BY <2>0 DEF ns, RowsOfCoffee
  <2> HIDE DEF row
  <2>3. /\ ProviderName(e, row.provider) = ProviderName(d, old.provider)
        /\ ProviderOf(e, row.lot) = ProviderOf(d, old.lot)
        /\ LotCode(e, row.lot) = LotCode(d, old.lot)
    BY <1>7, <2>1 DEF ProviderName, ProviderOf, LotCode, RowFields
  <2>i. id # 0
    BY <1>0, Grown
  <2>4. IF n \in ns THEN CoffeeNames(e, row.coffee) = {name}
        ELSE CoffeeNames(e, row.coffee) = CoffeeNames(d, old.coffee)
    BY <1>1, <1>2, <1>7, <2>0, <2>1, <2>2, <2>i DEF CoffeeNames, RowFields
  <2>5. RoastOK(e, e.roasts[n])
    BY <1>2, <1>7, <2>0 DEF RoastOK
  <2>6. RowOK(e, e.roasts[n], row)
    BY <1>7, <2>0, <2>1, <2>3, <2>4 DEF RowOK, RowFields
  <2>7. EntryOK(e, row, e.fts[n])
    <3>1. CASE n \in ns
      BY <1>7, <2>0, <2>6, <3>1, EntryOfRow DEF row
    <3>2. CASE n \notin ns
      BY <1>7, <2>0, <2>1, <2>4, <3>2 DEF EntryOK, RowFields
    <3> QED
      BY <3>1, <3>2
  <2> QED
    BY <1>7, <2>5, <2>6, <2>7 DEF row
<1>10. Good(d, e)
  BY <1>7, <1>8, <1>9 DEF Good, NotebookOK, Copies, Follows
<1> QED
  BY <1>6, <1>10, GuardedWrite, Unchanged

\* A lot gets another code.
LEMMA LotRecoded ==
  ASSUME NEW d, NotebookOK(d), NEW id \in DOMAIN d.lots, NEW revision, NEW code \in Name,
         NEW archived
  PROVE  Good(d, UpdateLot(d, id, revision, code, archived).db)
<1> DEFINE ns   == RowsOfLot(d, id)
           new  == [NextRevision(d.lots[id]) EXCEPT !.code = code, !.archived = archived]
           all  == [d.lots EXCEPT ![id] = new]
           rows == [n \in DOMAIN d.rows |-> IF n \in ns THEN [d.rows[n] EXCEPT !.lotCode = code]
                                            ELSE d.rows[n]]
           e    == [d EXCEPT !.lots = all, !.rows = rows]
<1>0. /\ DOMAIN d = Fields /\ Tables(d) /\ Catalogue(d) /\ IsSeq(d.lots) /\ IsSeq(d.rows)
  BY DEF NotebookOK, Tables
<1>1. DOMAIN new = LotFields /\ new.code = code /\ new.line = d.lots[id].line
  BY <1>0 DEF Catalogue, LotFields, NextRevision
<1> HIDE DEF new
<1>2. /\ DOMAIN all = DOMAIN d.lots /\ all[id] = new
      /\ \A other \in DOMAIN d.lots : other # id => all[other] = d.lots[other]
      /\ all = [i \in DOMAIN d.lots |-> all[i]]
  OBVIOUS
<1>3. /\ DOMAIN rows = DOMAIN d.rows /\ rows = [n \in DOMAIN d.rows |-> rows[n]]
      /\ \A n \in DOMAIN d.rows :
           rows[n] = IF n \in ns THEN [d.rows[n] EXCEPT !.lotCode = code] ELSE d.rows[n]
  OBVIOUS
<1> HIDE DEF all, rows, ns
<1>4. IsSeq(all) /\ IsSeq(rows) /\ Len(rows) = Len(d.rows)
  BY <1>0, <1>2, <1>3, Renewed
<1>5. /\ DOMAIN e = Fields /\ e.lots = all /\ e.rows = rows /\ e.fts = d.fts
      /\ e.roasts = d.roasts /\ e.lines = d.lines /\ e.providers = d.providers
      /\ e.coffees = d.coffees
  BY <1>0 DEF Fields
<1>6. UpdateLot(d, id, revision, code, archived).db =
        Guarded(d, d.lots[id], revision, CodeTaken(d, id, code), e).db
  BY DEF UpdateLot, new, all, rows, ns
<1> HIDE DEF e
<1>8. Tables(e) /\ Catalogue(e)
  BY <1>0, <1>1, <1>2, <1>4, <1>5 DEF Tables, Catalogue
<1>9. ASSUME NEW n \in DOMAIN d.roasts
      PROVE  RoastOK(e, e.roasts[n]) /\ RowOK(e, e.roasts[n], e.rows[n]) /\ EntryOK(e, e.rows[n], e.fts[n])
  <2> DEFINE old == d.rows[n]
             row == rows[n]
  <2>0. /\ RoastOK(d, d.roasts[n]) /\ RowOK(d, d.roasts[n], old) /\ EntryOK(d, old, d.fts[n])
        /\ n \in DOMAIN d.rows /\ (old.lot # 0 => old.lot \in DOMAIN d.lots)
    BY Refers
  <2>1. /\ DOMAIN row = RowFields /\ \A field \in RowFields \ {"lotCode"} : row[field] = old[field]
        /\ row.lotCode = IF n \in ns THEN code ELSE old.lotCode
    BY <1>3, <2>0 DEF RowOK, RowFields
  <2>2. n \in ns <=> old.lot = id
    BY <2>0 DEF ns, RowsOfLot
  <2> HIDE DEF row
  <2>3. /\ ProviderName(e, row.provider) = ProviderName(d, old.provider)
        /\ CoffeeNames(e, row.coffee) = CoffeeNames(d, old.coffee)
    BY <1>5, <2>1 DEF ProviderName, CoffeeNames, RowFields
  <2>i. id # 0
    BY <1>0, Grown
  <2>4. ProviderOf(e, row.lot) = ProviderOf(d, old.lot) /\ row.lotCode = LotCode(e, row.lot)
    <3>1. row.lot = old.lot /\ old.lotCode = LotCode(d, old.lot)
      BY <2>0, <2>1 DEF RowOK, RowFields
    <3>2. old.lot # 0 => /\ e.lots[old.lot].line = d.lots[old.lot].line
                         /\ e.lots[old.lot].code = IF old.lot = id THEN code ELSE d.lots[old.lot].code
      BY <1>1, <1>2, <1>5, <2>0
    <3>3. ProviderOf(e, old.lot) = ProviderOf(d, old.lot)
      BY <1>5, <3>2 DEF ProviderOf
    <3>4. row.lotCode = LotCode(e, old.lot)
      BY <2>1, <2>2, <2>i, <3>1, <3>2 DEF LotCode
    <3> QED
      BY <3>1, <3>3, <3>4
  <2>5. RoastOK(e, e.roasts[n])
    BY <1>2, <1>5, <2>0 DEF RoastOK
  <2>6. RowOK(e, e.roasts[n], row) /\ EntryOK(e, row, e.fts[n])
    BY <1>5, <2>0, <2>1, <2>3, <2>4 DEF RowOK, EntryOK, RowFields
  <2> QED
    BY <1>5, <2>5, <2>6 DEF row
<1>10. Good(d, e)
  BY <1>5, <1>8, <1>9 DEF Good, NotebookOK, Copies, Follows
<1> QED
  BY <1>6, <1>10, GuardedWrite

-----------------------------------------------------------------------------
(* Writes of one roast, its row and its entry.                             *)

\* The others keep theirs, and the catalogue is what it was.
OneWritten(d, e, n) ==
  /\ DOMAIN e = Fields
  /\ e.providers = d.providers /\ e.coffees = d.coffees /\ e.lines = d.lines /\ e.lots = d.lots
  /\ IsSeq(e.roasts) /\ IsSeq(e.rows) /\ IsSeq(e.fts)
  /\ Len(e.rows) = Len(e.roasts) /\ Len(e.fts) = Len(e.roasts)
  /\ DOMAIN e.roasts = DOMAIN d.roasts \cup {n}
  /\ \A m \in DOMAIN d.roasts \ {n} :
       e.roasts[m] = d.roasts[m] /\ e.rows[m] = d.rows[m] /\ e.fts[m] = d.fts[m]

\* So it is enough to look at the one.
LEMMA WrittenOne ==
  ASSUME NEW d, NotebookOK(d), NEW e, NEW n, OneWritten(d, e, n),
         RoastOK(d, e.roasts[n]), RowOK(d, e.roasts[n], e.rows[n]), EntryOK(d, e.rows[n], e.fts[n]),
         n \in DOMAIN d.roasts =>
           \/ /\ e.roasts[n].stream = d.roasts[n].stream
              /\ e.roasts[n].facts = d.roasts[n].facts
           \/ e.roasts[n].stream > d.roasts[n].stream
  PROVE  Good(d, e)
<1>1. Tables(e) /\ Catalogue(e)
  BY DEF OneWritten, NotebookOK, Tables, Catalogue
<1>2. ASSUME NEW m \in DOMAIN e.roasts
      PROVE  RoastOK(e, e.roasts[m]) /\ RowOK(e, e.roasts[m], e.rows[m]) /\ EntryOK(e, e.rows[m], e.fts[m])
  <2>1. /\ \A id : CoffeeNames(e, id) = CoffeeNames(d, id) /\ ProviderOf(e, id) = ProviderOf(d, id)
                   /\ ProviderName(e, id) = ProviderName(d, id) /\ LotCode(e, id) = LotCode(d, id)
    BY DEF OneWritten, CoffeeNames, ProviderOf, ProviderName, LotCode
  <2>2. RoastOK(d, e.roasts[m]) /\ RowOK(d, e.roasts[m], e.rows[m]) /\ EntryOK(d, e.rows[m], e.fts[m])
    BY DEF OneWritten, NotebookOK, Copies
  <2>3. RoastOK(e, e.roasts[m])
    BY <2>2 DEF OneWritten, RoastOK
  <2>4. RowOK(e, e.roasts[m], e.rows[m]) /\ EntryOK(e, e.rows[m], e.fts[m])
    BY <2>1, <2>2 DEF RowOK, EntryOK
  <2> QED
    BY <2>3, <2>4
<1>3. Follows(d, e)
  BY DEF OneWritten, Follows
<1> QED
  BY <1>1, <1>2, <1>3 DEF Good, NotebookOK, Copies

\* A list one of whose elements is another.
LEMMA Replaced ==
  ASSUME NEW s, IsSeq(s), NEW n \in DOMAIN s, NEW x
  PROVE  LET t == [s EXCEPT ![n] = x] IN
         /\ IsSeq(t) /\ Len(t) = Len(s) /\ DOMAIN t = DOMAIN s /\ t[n] = x
         /\ \A m \in DOMAIN s \ {n} : t[m] = s[m]
<1> DEFINE t == [s EXCEPT ![n] = x]
<1>1. /\ DOMAIN t = DOMAIN s /\ t[n] = x /\ t = [i \in DOMAIN s |-> t[i]]
      /\ \A m \in DOMAIN s \ {n} : t[m] = s[m]
  OBVIOUS
<1> HIDE DEF t
<1>2. IsSeq(t) /\ Len(t) = Len(s)
  BY <1>1, Renewed
<1> QED
  BY <1>1, <1>2 DEF t

\* A roast is given a coffee, or none.
LEMMA CoffeeAssigned ==
  ASSUME NEW d, NotebookOK(d), NEW n \in DOMAIN d.roasts, NEW revision, NEW number
  PROVE  Good(d, AssignCoffee(d, n, revision, number).db)
<1> DEFINE roast == [NextRevision(d.roasts[n]) EXCEPT !.coffee = number, !.lot = 0]
           row   == [NextRevision(d.rows[n]) EXCEPT !.coffee = number,
                                                    !.coffeeName = CoffeeShown(d, number),
                                                    !.provider = 0, !.providerName = Null,
                                                    !.lot = 0, !.lotCode = Null]
           roasts == [d.roasts EXCEPT ![n] = roast]
           rows   == [d.rows EXCEPT ![n] = row]
           c == [d EXCEPT !.roasts = roasts, !.rows = rows]
           e == RefreshFts(c, {n})
<1>0. /\ DOMAIN d = Fields /\ Tables(d)
      /\ IsSeq(d.roasts) /\ IsSeq(d.rows) /\ IsSeq(d.fts) /\ IsSeq(d.coffees)
      /\ RoastOK(d, d.roasts[n]) /\ RowOK(d, d.roasts[n], d.rows[n])
      /\ n \in DOMAIN d.rows /\ n \in DOMAIN d.fts
      /\ DOMAIN d.fts = DOMAIN d.roasts
  BY Refers DEF NotebookOK, Tables
<1>1. AssignCoffee(d, n, revision, number).db
        \in {d, IF Assignable(d, number)
                  THEN Guarded(d, d.roasts[n], revision, FALSE, e).db ELSE d}
  BY DEF AssignCoffee, Assigned, Answer, Guarded
<1>2. /\ DOMAIN roast = RoastFields /\ roast.coffee = number /\ roast.lot = 0
      /\ roast.stream = d.roasts[n].stream /\ roast.facts = d.roasts[n].facts
      /\ roast.points = d.roasts[n].points /\ roast.revision = d.roasts[n].revision + 1
  BY <1>0 DEF RoastOK, RoastFields, NextRevision
<1>3. /\ DOMAIN row = RowFields /\ row.coffee = number /\ row.coffeeName = CoffeeShown(d, number)
      /\ row.provider = 0 /\ row.providerName = Null /\ row.lot = 0 /\ row.lotCode = Null
      /\ row.facts = d.rows[n].facts /\ row.revision = d.rows[n].revision + 1
  BY <1>0 DEF RowOK, RowFields, NextRevision
<1> HIDE DEF roast, row
<1>4. /\ IsSeq(roasts) /\ Len(roasts) = Len(d.roasts) /\ DOMAIN roasts = DOMAIN d.roasts
      /\ roasts[n] = roast /\ \A m \in DOMAIN d.roasts \ {n} : roasts[m] = d.roasts[m]
  BY <1>0, Replaced
<1>5. /\ IsSeq(rows) /\ Len(rows) = Len(d.rows) /\ DOMAIN rows = DOMAIN d.rows
      /\ rows[n] = row /\ \A m \in DOMAIN d.rows \ {n} : rows[m] = d.rows[m]
  BY <1>0, Replaced
<1> HIDE DEF roasts, rows
<1>6. /\ DOMAIN c = Fields /\ c.roasts = roasts /\ c.rows = rows /\ c.fts = d.fts
      /\ c.providers = d.providers /\ c.lines = d.lines /\ c.coffees = d.coffees /\ c.lots = d.lots
  BY <1>0 DEF Fields
<1> HIDE DEF c
<1>7. /\ DOMAIN e = Fields /\ e.roasts = roasts /\ e.rows = rows /\ e.coffees = d.coffees
      /\ e.lines = d.lines /\ e.providers = d.providers /\ e.lots = d.lots
      /\ IsSeq(e.fts) /\ Len(e.fts) = Len(d.fts) /\ DOMAIN e.fts = DOMAIN d.fts
      /\ \A m \in DOMAIN d.fts : e.fts[m] = IF m \in {n} THEN Entry(rows[m]) ELSE d.fts[m]
  BY <1>0, <1>6, Refreshed DEF Fields
<1> HIDE DEF e
<1>8. ASSUME Assignable(d, number) PROVE Good(d, e)
  <2>1. OneWritten(d, e, n)
    <3>1. Len(e.rows) = Len(e.roasts) /\ Len(e.fts) = Len(e.roasts)
      BY <1>0, <1>4, <1>5, <1>7 DEF Tables
    <3>2. DOMAIN d.rows = DOMAIN d.roasts
      BY Refers
    <3> QED
      BY <1>0, <1>4, <1>5, <1>7, <3>1, <3>2 DEF OneWritten
  <2>2. RoastOK(d, roast)
    BY <1>0, <1>2, <1>8 DEF RoastOK, Assignable
  <2>i. 0 \notin DOMAIN d.coffees
    BY <1>0, Grown
  <2>3. CoffeeShown(d, number) \in CoffeeNames(d, number)
    BY <1>8, <2>i DEF Assignable, CoffeeShown, CoffeeNames
  <2>4. RowOK(d, roast, row)
    BY <1>0, <1>2, <1>3, <2>3 DEF RowOK, ProviderOf, ProviderName, LotCode
  <2>5. EntryOK(d, row, e.fts[n])
    BY <1>0, <1>5, <1>7, <2>4, EntryOfRow
  <2> QED
    BY <1>2, <1>4, <1>5, <1>7, <2>1, <2>2, <2>4, <2>5, WrittenOne
<1> QED
  BY <1>1, <1>8, GuardedWrite, Unchanged

\* A log that is kept aside, or whose profile is noted.
LEMMA Noted ==
  ASSUME NEW d, NotebookOK(d), NEW c, NEW file
  PROVE  /\ Good(d, Quarantine(d, c))
         /\ LET e == ResolveProfile([d EXCEPT !.files = @ \cup {file}], c)
            IN  NotebookOK(e) /\ Keeps(d, e)
<1>0. /\ DOMAIN d = Fields /\ Catalogue(d)
      /\ IsSeq(d.providers) /\ IsSeq(d.coffees) /\ IsSeq(d.lots)
  BY DEF NotebookOK, Tables
<1>1. ASSUME NEW x, NEW e, e = [d EXCEPT !.quarantine = x] PROVE Good(d, e)
  <2>1. Keeps(d, e) /\ Catalogue(e)
    BY <1>0, <1>1 DEF Keeps, Fields, Catalogue
  <2> QED
    BY <2>1, Kept
<1>2. Good(d, Quarantine(d, c))
  BY <1>1 DEF Quarantine
<1>3. ASSUME NEW x, NEW y, NEW e,
             e = [d EXCEPT !.files = x] \/ e = [[d EXCEPT !.files = x] EXCEPT !.profiles = y]
      PROVE  NotebookOK(e) /\ Keeps(d, e)
  <2>1. /\ DOMAIN e = Fields
        /\ e.roasts = d.roasts /\ e.rows = d.rows /\ e.fts = d.fts /\ e.lines = d.lines
        /\ e.providers = d.providers /\ e.coffees = d.coffees /\ e.lots = d.lots
    BY <1>0, <1>3 DEF Fields
  <2>2. Keeps(d, e) /\ Catalogue(e)
    BY <1>0, <2>1 DEF Keeps, Catalogue
  <2> QED
    BY <2>2, Kept DEF Good
<1>4. LET e == ResolveProfile([d EXCEPT !.files = @ \cup {file}], c) IN NotebookOK(e) /\ Keeps(d, e)
  BY <1>3 DEF ResolveProfile
<1> QED
  BY <1>2, <1>4

\* A new roast has a curve, a row without coffee, and an entry.
LEMMA RoastInserted ==
  ASSUME NEW d, NotebookOK(d), NEW file, file.sha \in Content
  PROVE  Good(d, InsertRoast(d, file))
<1> DEFINE c == file.sha
           bare  == [source |-> file, facts |-> c, stream |-> 0, points |-> Null,
                     revision |-> 1, coffee |-> 0, lot |-> 0]
           roast == ReplaceTelemetry(bare, c)
           b     == [d EXCEPT !.roasts = Append(@, roast)]
           row   == [revision |-> 1, facts |-> c, profile |-> RevisionShown(b, c),
                     coffee |-> 0, coffeeName |-> Unassigned,
                     provider |-> 0, providerName |-> Null,
                     lot |-> 0, lotCode |-> Null, tasting |-> {}]
           entry == [coffee |-> Unassigned, provider |-> Null, notes |-> {c}]
           e == [b EXCEPT !.rows = Append(@, row), !.fts = Append(@, entry)]
           n == Len(d.roasts) + 1
<1>0. /\ DOMAIN d = Fields /\ Tables(d) /\ IsSeq(d.roasts) /\ IsSeq(d.rows) /\ IsSeq(d.fts)
      /\ Len(d.rows) = Len(d.roasts) /\ Len(d.fts) = Len(d.roasts)
  BY DEF NotebookOK, Tables
<1>1. InsertRoast(d, file) = e
  BY DEF InsertRoast, InsertProjection
<1>2. /\ DOMAIN roast = RoastFields /\ roast.coffee = 0 /\ roast.lot = 0 /\ roast.stream = 1
      /\ roast.points = c /\ roast.facts = c /\ roast.revision = 1
  BY DEF ReplaceTelemetry, RoastFields
<1>3. /\ DOMAIN row = RowFields /\ row.coffee = 0 /\ row.coffeeName = Unassigned
      /\ row.provider = 0 /\ row.providerName = Null /\ row.lot = 0 /\ row.lotCode = Null
      /\ row.facts = c /\ row.revision = 1
  BY DEF RowFields
<1>4. entry.coffee = Unassigned /\ entry.provider = Null /\ entry.notes = {c}
  OBVIOUS
<1> HIDE DEF roast, row, entry
<1>5. /\ DOMAIN e = Fields /\ e.roasts = Append(d.roasts, roast)
      /\ e.rows = Append(d.rows, row) /\ e.fts = Append(d.fts, entry)
      /\ e.providers = d.providers /\ e.lines = d.lines /\ e.coffees = d.coffees /\ e.lots = d.lots
  BY <1>0 DEF Fields
<1> HIDE DEF e
<1>6. /\ Len(d.roasts) \in Nat /\ DOMAIN d.roasts = 1 .. Len(d.roasts)
      /\ IsSeq(e.roasts) /\ DOMAIN e.roasts = 1 .. n /\ e.roasts[n] = roast
      /\ Len(e.roasts) = n /\ \A m \in DOMAIN d.roasts : e.roasts[m] = d.roasts[m]
  BY <1>0, <1>5, Grown
<1>7. /\ DOMAIN d.rows = 1 .. Len(d.roasts) /\ IsSeq(e.rows) /\ e.rows[n] = row
      /\ Len(e.rows) = n /\ \A m \in DOMAIN d.rows : e.rows[m] = d.rows[m]
  BY <1>0, <1>5, Grown
<1>8. /\ DOMAIN d.fts = 1 .. Len(d.roasts) /\ IsSeq(e.fts) /\ e.fts[n] = entry
      /\ Len(e.fts) = n /\ \A m \in DOMAIN d.fts : e.fts[m] = d.fts[m]
  BY <1>0, <1>5, Grown
<1>9. OneWritten(d, e, n)
  BY <1>5, <1>6, <1>7, <1>8 DEF OneWritten
<1>10. RoastOK(d, roast) /\ RowOK(d, roast, row) /\ EntryOK(d, row, entry)
  BY <1>2, <1>3, <1>4 DEF RoastOK, RowOK, EntryOK, CoffeeNames, ProviderOf, ProviderName, LotCode
<1>11. n \notin DOMAIN d.roasts
  BY <1>6
<1> QED
  BY <1>1, <1>6, <1>7, <1>8, <1>9, <1>10, <1>11, WrittenOne

\* A roast whose log is replaced has another curve; its row and entry keep the coffee.
LEMMA RoastUpdated ==
  ASSUME NEW d, NotebookOK(d), NEW n \in DOMAIN d.roasts, NEW file, file.sha \in Content
  PROVE  Good(d, UpdateRoast(d, n, file))
<1> DEFINE c == file.sha
           bare   == [NextRevision(d.roasts[n]) EXCEPT !.source = file, !.facts = file.sha]
           roast  == ReplaceTelemetry(bare, c)
           roasts == [d.roasts EXCEPT ![n] = roast]
           b      == [d EXCEPT !.roasts = roasts]
           old    == d.rows[n]
           row    == [NextRevision(b.rows[n]) EXCEPT !.facts = c, !.profile = RevisionShown(b, c)]
           rows   == [b.rows EXCEPT ![n] = row]
           entry  == [coffee   |-> IF b.rows[n].coffeeName = Null THEN Unassigned
                                   ELSE b.rows[n].coffeeName,
                      provider |-> b.rows[n].providerName, notes |-> b.rows[n].tasting \cup {c}]
           a      == [b EXCEPT !.rows = rows]
           fts    == [a.fts EXCEPT ![n] = entry]
           e      == [a EXCEPT !.fts = fts]
<1>0. /\ DOMAIN d = Fields /\ Tables(d) /\ Catalogue(d)
      /\ IsSeq(d.roasts) /\ IsSeq(d.rows) /\ IsSeq(d.fts)
      /\ Len(d.rows) = Len(d.roasts) /\ Len(d.fts) = Len(d.roasts)
      /\ RoastOK(d, d.roasts[n]) /\ RowOK(d, d.roasts[n], old)
      /\ n \in DOMAIN d.rows /\ n \in DOMAIN d.fts
      /\ DOMAIN d.fts = DOMAIN d.roasts /\ DOMAIN d.rows = DOMAIN d.roasts
      /\ (old.coffee # 0 => old.coffee \in DOMAIN d.coffees)
  BY Refers DEF NotebookOK, Tables
<1>1. UpdateRoast(d, n, file) = e
  BY DEF UpdateRoast, RefreshExistingProjection, ReplaceFts
<1>2. /\ DOMAIN roast = RoastFields /\ roast.coffee = d.roasts[n].coffee
      /\ roast.lot = d.roasts[n].lot /\ roast.stream = d.roasts[n].stream + 1
      /\ roast.points = c /\ roast.facts = c /\ roast.revision = d.roasts[n].revision + 1
  BY <1>0 DEF ReplaceTelemetry, NextRevision, RoastOK, RoastFields
<1> HIDE DEF roast
<1>b. /\ DOMAIN b = Fields /\ b.roasts = roasts /\ b.rows = d.rows /\ b.fts = d.fts
      /\ b.providers = d.providers /\ b.lines = d.lines /\ b.coffees = d.coffees /\ b.lots = d.lots
  BY <1>0 DEF Fields
<1> HIDE DEF b
<1>3. /\ DOMAIN row = RowFields /\ row.facts = c /\ row.revision = old.revision + 1
      /\ \A field \in RowFields \ {"facts", "revision", "profile"} : row[field] = old[field]
  BY <1>0, <1>b DEF RowOK, RowFields, NextRevision
<1>4. /\ entry.coffee = (IF old.coffeeName = Null THEN Unassigned ELSE old.coffeeName)
      /\ entry.provider = old.providerName /\ entry.notes = old.tasting \cup {c}
  BY <1>b
<1> HIDE DEF row, entry
<1>5. /\ IsSeq(roasts) /\ Len(roasts) = Len(d.roasts) /\ DOMAIN roasts = DOMAIN d.roasts
      /\ roasts[n] = roast /\ \A m \in DOMAIN d.roasts \ {n} : roasts[m] = d.roasts[m]
  BY <1>0, Replaced
<1>6. /\ IsSeq(rows) /\ Len(rows) = Len(d.rows) /\ DOMAIN rows = DOMAIN d.rows
      /\ rows[n] = row /\ \A m \in DOMAIN d.rows \ {n} : rows[m] = d.rows[m]
  BY <1>0, <1>b, Replaced
<1> HIDE DEF rows, roasts
<1>a. /\ DOMAIN a = Fields /\ a.roasts = roasts /\ a.rows = rows /\ a.fts = d.fts
      /\ a.providers = d.providers /\ a.lines = d.lines /\ a.coffees = d.coffees /\ a.lots = d.lots
  BY <1>b DEF Fields
<1> HIDE DEF a
<1>7. /\ IsSeq(fts) /\ Len(fts) = Len(d.fts) /\ DOMAIN fts = DOMAIN d.fts
      /\ fts[n] = entry /\ \A m \in DOMAIN d.fts \ {n} : fts[m] = d.fts[m]
  BY <1>0, <1>a, Replaced
<1> HIDE DEF fts
<1>8. /\ DOMAIN e = Fields /\ e.roasts = roasts /\ e.rows = rows /\ e.fts = fts
      /\ e.providers = d.providers /\ e.lines = d.lines /\ e.coffees = d.coffees /\ e.lots = d.lots
  BY <1>a DEF Fields
<1> HIDE DEF e
<1>9. OneWritten(d, e, n)
  BY <1>0, <1>5, <1>6, <1>7, <1>8 DEF OneWritten
<1>10. RoastOK(d, roast) /\ roast.stream > d.roasts[n].stream
  BY <1>0, <1>2 DEF RoastOK
<1>11. RowOK(d, roast, row)
  BY <1>0, <1>2, <1>3 DEF RowOK, RowFields
<1>12. EntryOK(d, row, entry)
  <2>1. row.coffee = old.coffee /\ row.providerName = old.providerName /\ row.tasting = old.tasting
    BY <1>3 DEF RowFields
  <2>2. old.coffee # 0 => old.coffeeName # Null
    BY <1>0, CatalogAssumption DEF RowOK, CoffeeNames, Catalogue
  <2>3. entry.coffee \in CoffeeNames(d, row.coffee)
    BY <1>0, <1>4, <2>1, <2>2 DEF RowOK, CoffeeNames
  <2> QED
    BY <1>3, <1>4, <2>1, <2>3 DEF EntryOK
<1> QED
  BY <1>1, <1>5, <1>6, <1>7, <1>8, <1>9, <1>10, <1>11, <1>12, WrittenOne

\* The import of a log, whatever becomes of it.
LEMMA Imported ==
  ASSUME NEW d, NotebookOK(d), NEW c \in Content, NEW path
  PROVE  Good(d, Import(d, c, path).db)
<1> DEFINE file == [sha |-> c, path |-> path]
           b    == ResolveProfile([d EXCEPT !.files = @ \cup {file}], c)
           n    == CHOOSE m \in FromPath(d, path) : TRUE
<1>1. NotebookOK(b) /\ Keeps(d, b)
  BY Noted
<1>2. Good(d, d) /\ Good(d, Quarantine(d, c))
  BY Noted, Unchanged
<1>3. ASSUME NEW e, Good(b, e) PROVE Good(d, e)
  BY <1>1, <1>3 DEF Good, Follows, Keeps
<1>4. Good(d, InsertRoast(b, file))
  BY <1>1, <1>3, RoastInserted
<1>5. ASSUME FromPath(d, path) # {} PROVE Good(d, UpdateRoast(b, n, file))
  <2>1. n \in DOMAIN d.roasts
    BY <1>5 DEF FromPath
  <2>2. n \in DOMAIN b.roasts
    BY <1>1, <2>1 DEF Keeps
  <2> HIDE DEF b, n
  <2> QED
    BY <1>1, <1>3, <2>2, RoastUpdated
<1>6. \/ Import(d, c, path).db \in {d, Quarantine(d, c), InsertRoast(b, file)}
      \/ FromPath(d, path) # {} /\ Import(d, c, path).db = UpdateRoast(b, n, file)
  BY DEF Import, Record
<1> QED
  BY <1>2, <1>4, <1>5, <1>6

-----------------------------------------------------------------------------
(* Lists in order.                                                         *)

\* A strict total order of the elements.
Orders(before, S) ==
  /\ \A x \in S : <<x, x>> \notin before
  /\ \A x, y \in S : x # y => <<x, y>> \in before \/ <<y, x>> \in before
  /\ \A x, y, z \in S : <<x, y>> \in before /\ <<y, z>> \in before => <<x, z>> \in before

\* In order, every element of a finite set has a place of its own: as many elements
\* come before two of them only if they are one.
LEMMA Ordered ==
  ASSUME NEW S, IsFiniteSet(S), NEW before, Orders(before, S)
  PROVE  LET s == InOrder(S, before) IN
         /\ Cardinality(S) \in Nat /\ s \in [1 .. Cardinality(S) -> S]
         /\ \A i, j \in DOMAIN s : s[i] = s[j] => i = j
<1> DEFINE n == Cardinality(S)
           below(x) == {y \in S : <<y, x>> \in before}
           rank == [x \in S |-> Cardinality(below(x)) + 1]
           s == InOrder(S, before)
<1>1. n \in Nat
  BY FS_CardinalityType
<1>2. ASSUME NEW x \in S
      PROVE  IsFiniteSet(below(x)) /\ Cardinality(below(x)) \in 0 .. n - 1
  <2>1. below(x) \in SUBSET S /\ x \notin below(x)
    BY DEF Orders
  <2> HIDE DEF below
  <2>2. IsFiniteSet(below(x)) /\ Cardinality(below(x)) <= n /\ (n = Cardinality(below(x)) => S = below(x))
    BY <2>1, FS_Subset
  <2>3. Cardinality(below(x)) \in Nat
    BY <2>2, FS_CardinalityType
  <2> QED
    BY <1>1, <2>1, <2>2, <2>3
<1>3. ASSUME NEW x \in S, NEW y \in S, <<x, y>> \in before
      PROVE  Cardinality(below(x)) # Cardinality(below(y))
  <2>1. below(x) \in SUBSET below(y) /\ x \in below(y) /\ x \notin below(x)
    BY <1>3 DEF Orders
  <2>2. IsFiniteSet(below(y))
    BY <1>2
  <2> HIDE DEF below
  <2> QED
    BY <2>1, <2>2, FS_Subset
<1> HIDE DEF below
<1>4. rank \in [S -> 1 .. n] /\ \A x \in S : rank[x] = Cardinality(below(x)) + 1
  <2>1. ASSUME NEW x \in S PROVE Cardinality(below(x)) + 1 \in 1 .. n
    BY <1>1, <1>2
  <2> QED
    BY <2>1
<1> HIDE DEF rank
<1>5. ASSUME NEW x \in S, NEW y \in S, rank[x] = rank[y] PROVE x = y
  <2>1. Cardinality(below(x)) = Cardinality(below(y))
    <3>1. Cardinality(below(x)) \in Nat /\ Cardinality(below(y)) \in Nat
      BY <1>1, <1>2
    <3> QED
      BY <1>4, <1>5, <3>1
  <2>2. <<x, y>> \notin before /\ <<y, x>> \notin before
    BY <1>3, <2>1
  <2> QED
    BY <2>2 DEF Orders
<1>6. ASSUME NEW i \in 1 .. n PROVE \E x \in S : Cardinality(below(x)) = i - 1
  <2>1. rank \in Injection(S, 1 .. n)
    BY <1>4, <1>5 DEF Injection, IsInjective
  <2>2. IsFiniteSet(1 .. n) /\ Cardinality(1 .. n) = n
    BY <1>1, FS_Interval
  <2>3. rank \in Surjection(S, 1 .. n)
    BY <2>1, <2>2, FS_Injection
  <2>4. PICK x \in S : rank[x] = i
    BY <2>3 DEF Surjection
  <2>5. Cardinality(below(x)) \in Nat /\ Cardinality(below(x)) + 1 = i
    BY <1>1, <1>2, <1>4, <2>4
  <2> QED
    BY <2>5
<1>7. ASSUME NEW i \in 1 .. n PROVE s[i] \in S /\ Cardinality(below(s[i])) = i - 1
  <2>1. s[i] = CHOOSE x \in S : Cardinality(below(x)) = i - 1
    BY DEF InOrder, below
  <2> HIDE DEF s
  <2> QED
    BY <1>6, <2>1
<1>8. DOMAIN s = 1 .. n /\ s = [i \in 1 .. n |-> s[i]]
  <2> DEFINE at(i) == CHOOSE x \in S : Cardinality(below(x)) = i - 1
  <2>1. s = [i \in 1 .. n |-> at(i)]
    BY DEF InOrder, below
  <2> HIDE DEF s, at
  <2> QED
    BY <2>1
<1> HIDE DEF s
<1>9. s \in [1 .. n -> S]
  BY <1>7, <1>8
<1>10. ASSUME NEW i \in 1 .. n, NEW j \in 1 .. n, s[i] = s[j] PROVE i = j
  BY <1>1, <1>7, <1>10
<1> QED
  BY <1>1, <1>8, <1>9, <1>10 DEF s

\* The rows of a query are finitely many, and the newest come first.
LEMMA RowsOrdered ==
  ASSUME NEW d, NotebookOK(d), NEW q
  PROVE  LET ns == Matching(d, q) IN
         /\ ns \subseteq DOMAIN d.roasts /\ IsFiniteSet(ns)
         /\ Orders({ab \in ns \X ns : Before(d, ab[1], ab[2])}, ns)
<1> DEFINE ns == Matching(d, q)
           before == {ab \in ns \X ns : Before(d, ab[1], ab[2])}
<1>1. DOMAIN d.rows = DOMAIN d.roasts /\ DOMAIN d.roasts = 1 .. Len(d.roasts) /\ Len(d.roasts) \in Nat
  BY Grown DEF NotebookOK, Tables
<1>2. ns \subseteq 1 .. Len(d.roasts)
  BY <1>1 DEF Matching
<1>3. IsFiniteSet(1 .. Len(d.roasts))
  BY <1>1, FS_Interval
<1> HIDE DEF ns
<1>4. IsFiniteSet(ns)
  BY <1>2, <1>3, FS_Subset
<1>5. ASSUME NEW n \in ns PROVE RoastedAt[d.rows[n].facts] \in Nat /\ n \in Nat
  BY <1>1, <1>2, Refers, LibraryAssumption DEF RowOK, RoastOK
<1>6. \A a, b \in ns : <<a, b>> \in before <=> Before(d, a, b)
  OBVIOUS
<1> HIDE DEF before
<1>7. ASSUME NEW a \in ns, NEW b \in ns
      PROVE  ~Before(d, a, a) /\ (a # b => Before(d, a, b) \/ Before(d, b, a))
  BY <1>5 DEF Before
<1>8. ASSUME NEW a \in ns, NEW b \in ns, NEW c \in ns, Before(d, a, b), Before(d, b, c)
      PROVE  Before(d, a, c)
  BY <1>5, <1>8 DEF Before
<1>9. Orders(before, ns)
  BY <1>6, <1>7, <1>8 DEF Orders
<1> QED
  BY <1>1, <1>2, <1>4, <1>9 DEF before, ns

\* A group has one key and one label; of one coffee there is only one group.
LEMMA Grouped ==
  ASSUME NEW d, NotebookOK(d), NEW q, NEW g \in GroupSet(d, q)
  PROVE  /\ g = [key |-> g.key, label |-> g.label] /\ g.key \in Nat
         /\ g.key # 0 => g.label = d.coffees[g.key].name
         /\ g.key = 0 => g.label \in {Null, Unassigned}
<1>1. PICK n \in Matching(d, q) : g = [key |-> d.rows[n].coffee, label |-> d.rows[n].coffeeName]
  BY DEF GroupSet
<1>2. n \in DOMAIN d.roasts
  BY RowsOrdered
<1>3. /\ d.rows[n].coffeeName \in CoffeeNames(d, d.rows[n].coffee)
      /\ d.rows[n].coffee # 0 => d.rows[n].coffee \in DOMAIN d.coffees
  BY <1>2, Refers DEF RowOK
<1>4. DOMAIN d.coffees \subseteq Nat
  BY Grown DEF NotebookOK, Tables
<1> QED
  BY <1>1, <1>3, <1>4 DEF CoffeeNames

\* The groups of a query are finitely many, and those without a coffee come last.
LEMMA GroupsOrdered ==
  ASSUME NEW d, NotebookOK(d), NEW q
  PROVE  LET gs == GroupSet(d, q) IN
         /\ IsFiniteSet(gs)
         /\ Orders({ab \in gs \X gs : GroupBefore(ab[1], ab[2])}, gs)
<1> DEFINE gs == GroupSet(d, q)
           ns == Matching(d, q)
           before == {ab \in gs \X gs : GroupBefore(ab[1], ab[2])}
           f == [n \in ns |-> [key |-> d.rows[n].coffee, label |-> d.rows[n].coffeeName]]
<1>1. f \in Surjection(ns, gs)
  BY DEF GroupSet, Surjection
<1>2. IsFiniteSet(gs)
  <2>1. IsFiniteSet(ns)
    BY RowsOrdered
  <2> HIDE DEF ns, gs, f
  <2> QED
    BY <1>1, <2>1, FS_Surjection
<1>3. ASSUME NEW a \in gs, NEW b \in gs
      PROVE  ~GroupBefore(a, a) /\ (a # b => GroupBefore(a, b) \/ GroupBefore(b, a))
  <2>1. /\ a = [key |-> a.key, label |-> a.label] /\ b = [key |-> b.key, label |-> b.label]
        /\ a.key \in Nat /\ b.key \in Nat
    BY Grouped
  <2>2. a.key = b.key /\ a.key # 0 => a.label = b.label
    BY Grouped
  <2>3. a.key = 0 /\ b.key = 0 => {a.label, b.label} \subseteq {Null, Unassigned}
    BY Grouped
  <2>4. a # b => a.key # b.key \/ a.label # b.label
    BY <2>1
  <2> HIDE DEF gs
  <2> QED
    BY <2>1, <2>2, <2>3, <2>4 DEF GroupBefore
<1>4. ASSUME NEW a \in gs, NEW b \in gs, NEW c \in gs, GroupBefore(a, b), GroupBefore(b, c)
      PROVE  GroupBefore(a, c)
  <2>1. a.key \in Nat /\ b.key \in Nat /\ c.key \in Nat
    BY Grouped
  <2> HIDE DEF gs
  <2> QED
    BY <1>4, <2>1 DEF GroupBefore
<1> HIDE DEF gs
<1>5. \A a, b \in gs : <<a, b>> \in before <=> GroupBefore(a, b)
  OBVIOUS
<1> HIDE DEF before
<1>6. Orders(before, gs)
  BY <1>3, <1>4, <1>5 DEF Orders
<1> QED
  BY <1>2, <1>6 DEF before, gs

\* What a query is about is a list without repetitions, but for the groups without a
\* coffee; of rows it is as long as there are rows.
LEMMA Listed ==
  ASSUME NEW d, NotebookOK(d), NEW q
  PROVE  LET items == Items(d, q) IN
         /\ IsSeq(items) /\ Len(items) \in Nat /\ DOMAIN items = 1 .. Len(items)
         /\ \A i, j \in DOMAIN items : items[i] = items[j] =>
              i = j \/ (IsGrouped(q) /\ items[i] = 0)
         /\ ~IsGrouped(q) => Len(items) = Cardinality(Matching(d, q))
<1> DEFINE items == Items(d, q)
<1>1. ASSUME NEW S, NEW n \in Nat, NEW s \in [1 .. n -> S]
      PROVE  IsSeq(s) /\ Len(s) = n /\ DOMAIN s = 1 .. n
  <2>1. s \in Seq(S) /\ Len(s) = n
    OBVIOUS
  <2> QED
    BY <2>1 DEF IsSeq
<1>2. CASE ~IsGrouped(q)
  <2> DEFINE ns == Matching(d, q)
             before == {ab \in ns \X ns : Before(d, ab[1], ab[2])}
  <2>1. items = InOrder(ns, before)
    BY <1>2 DEF Items, Rows
  <2>2. IsFiniteSet(ns) /\ Orders(before, ns)
    BY RowsOrdered
  <2> HIDE DEF ns, before, items
  <2>3. /\ Cardinality(ns) \in Nat /\ items \in [1 .. Cardinality(ns) -> ns]
        /\ \A i, j \in DOMAIN items : items[i] = items[j] => i = j
    BY <2>1, <2>2, Ordered
  <2>4. IsSeq(items) /\ Len(items) = Cardinality(ns) /\ DOMAIN items = 1 .. Len(items)
    BY <1>1, <2>3
  <2> QED
    BY <2>3, <2>4 DEF items, ns
<1>3. CASE IsGrouped(q)
  <2> DEFINE gs == GroupSet(d, q)
             before == {ab \in gs \X gs : GroupBefore(ab[1], ab[2])}
             groups == InOrder(gs, before)
  <2>1. items = [i \in DOMAIN groups |-> groups[i].key]
    BY <1>3 DEF Items, GroupKeys
  <2>2. IsFiniteSet(gs) /\ Orders(before, gs)
    BY GroupsOrdered
  <2>g. \A g \in gs : /\ g = [key |-> g.key, label |-> g.label]
                      /\ g.key # 0 => g.label = d.coffees[g.key].name
    BY Grouped
  <2>3. /\ Cardinality(gs) \in Nat /\ groups \in [1 .. Cardinality(gs) -> gs]
        /\ \A i, j \in DOMAIN groups : groups[i] = groups[j] => i = j
    BY <2>2, Ordered
  <2> HIDE DEF gs, before, groups, items
  <2>4. items \in [1 .. Cardinality(gs) -> {g.key : g \in gs}]
    BY <2>1, <2>3
  <2>5. IsSeq(items) /\ Len(items) = Cardinality(gs) /\ DOMAIN items = 1 .. Len(items)
    BY <1>1, <2>3, <2>4
  <2>6. ASSUME NEW i \in DOMAIN items, NEW j \in DOMAIN items, items[i] = items[j], items[i] # 0
        PROVE  i = j
    <3>1. /\ groups[i] \in gs /\ groups[j] \in gs /\ i \in DOMAIN groups /\ j \in DOMAIN groups
          /\ groups[i].key = groups[j].key /\ groups[i].key # 0
      BY <2>1, <2>3, <2>6
    <3>2. groups[i].label = groups[j].label
      BY <2>g, <3>1
    <3>3. groups[i] = groups[j]
      BY <2>g, <3>1, <3>2
    <3> QED
      BY <2>3, <3>1, <3>3
  <2> QED
    BY <1>3, <2>3, <2>5, <2>6 DEF items
<1> QED
  BY <1>2, <1>3

\* A list that shows the same holds the same.
LEMMA SameView ==
  ASSUME NEW d, NotebookOK(d), NEW e, NotebookOK(e), NEW q, View(d, q) = View(e, q)
  PROVE  Items(d, q) = Items(e, q)
<1>1. CASE ~IsGrouped(q)
  BY <1>1 DEF View, Items
<1>2. CASE IsGrouped(q)
  <2>1. ASSUME NEW a, NotebookOK(a), NEW b, NotebookOK(b), View(a, q) = View(b, q),
               NEW g \in GroupSet(a, q)
        PROVE  g \in GroupSet(b, q)
    <3>1. <<g.key, g.label, Count(a, q, g.key, g.label)>> \in View(a, q)
      BY <1>2 DEF View
    <3>2. PICK h \in GroupSet(b, q) :
            <<g.key, g.label, Count(a, q, g.key, g.label)>>
              = <<h.key, h.label, Count(b, q, h.key, h.label)>>
      BY <1>2, <2>1, <3>1 DEF View
    <3>3. g.key = h.key /\ g.label = h.label
      BY <3>2
    <3>4. g = [key |-> g.key, label |-> g.label] /\ h = [key |-> h.key, label |-> h.label]
      BY <2>1, Grouped
    <3> QED
      BY <3>3, <3>4
  <2>2. GroupSet(d, q) = GroupSet(e, q)
    BY <2>1
  <2> QED
    BY <1>2, <2>2 DEF Items, GroupKeys
<1> QED
  BY <1>1, <1>2

\* A group has as many rows as its count says: those of its coffee all have its label.
LEMMA Counted ==
  ASSUME NEW d, NotebookOK(d), NEW q, IsGrouped(q), NEW g \in GroupSet(d, q), g.key # 0,
         NEW r, r.filter = q.filter, r.path = << g.key >>
  PROVE  Len(Items(d, r)) = Count(d, q, g.key, g.label)
<1>1. ~IsGrouped(r)
  BY DEF IsGrouped
<1>2. q.path = << >>
  BY DEF IsGrouped
<1>3. ASSUME NEW n \in DOMAIN d.rows, d.rows[n].coffee = g.key PROVE d.rows[n].coffeeName = g.label
  <2>1. n \in DOMAIN d.roasts
    BY Grown DEF NotebookOK, Tables
  <2>2. d.rows[n].coffeeName \in CoffeeNames(d, d.rows[n].coffee)
    BY <2>1, Refers DEF RowOK
  <2> QED
    BY <1>3, <2>2, Grouped DEF CoffeeNames
<1>4. Matching(d, r) = {n \in Matching(d, q) :
                          d.rows[n].coffee = g.key /\ d.rows[n].coffeeName = g.label}
  BY <1>2, <1>3 DEF Matching, InPath
<1> QED
  BY <1>1, <1>4, Listed DEF Count

-----------------------------------------------------------------------------
(* Pages.                                                                  *)

PagerFields == {"query", "cursor", "got", "done", "owed", "calm", "expects"}

QueryOK(q) ==
  /\ q = [filter |-> q.filter, grouped |-> q.grouped, path |-> q.path, first |-> q.first]
  /\ q.first \in Nat \ {0}

\* A reader before the place offset of a list: it has all of what it is owed that lies
\* before; while nothing has changed, it has just what lies before, and has been told how
\* long the list is.
Reading(p, q, items, offset) ==
  /\ p.owed \subseteq ToSet(items)
  /\ \A i \in DOMAIN items : i <= offset /\ items[i] \in p.owed => items[i] \in ToSet(p.got)
  /\ p.calm =>
       /\ offset <= Len(items) /\ Len(p.got) = offset
       /\ \A i \in 1 .. offset : p.got[i] = items[i]
       /\ p.expects # << >> /\ q.path # << 0 >> => p.expects[1] = Len(items)

\* What PagesWhole says of a reader.
Whole(p) ==
  /\ p.owed \subseteq ToSet(p.got)
  /\ p.calm =>
       \A i, j \in DOMAIN p.got : p.got[i] = p.got[j] =>
         i = j \/ (IsGrouped(p.query) /\ p.got[i] = 0)
  /\ p.calm /\ p.expects # << >> /\ p.query.path # << 0 >> => Len(p.got) = p.expects[1]

PagerOK(p, d) ==
  /\ DOMAIN p = PagerFields /\ IsSeq(p.got) /\ QueryOK(p.query)
  /\ p.cursor # << >> =>
       /\ ~p.done /\ p.cursor[1].query = p.query /\ p.cursor[1].offset \in Nat
       /\ Reading(p, p.query, Items(d, p.query), p.cursor[1].offset)
  /\ p.done => Whole(p)

\* A reader that has nothing.
LEMMA FirstPagerOK ==
  ASSUME NEW d
  PROVE  PagerOK(FirstPager, d)
<1>1. << >> \in Seq({0})
  OBVIOUS
<1> QED
  BY <1>1 DEF FirstPager, NoQuery, PagerOK, PagerFields, QueryOK, IsSeq

\* The page from one place to another.
LEMMA PageTaken ==
  ASSUME NEW items, IsSeq(items), NEW offset \in Nat, NEW upto \in Nat, upto <= Len(items)
  PROVE  LET page == SubSeq(items, offset + 1, upto) IN
         /\ IsSeq(page) /\ Len(page) \in Nat
         /\ Len(page) = (IF offset <= upto THEN upto - offset ELSE 0)
         /\ \A i \in 1 .. Len(page) : page[i] = items[offset + i]
<1>1. PICK S : items \in Seq(S)
  BY DEF IsSeq
<1>2. Len(items) \in Nat
  BY <1>1
<1> DEFINE page == SubSeq(items, offset + 1, upto)
<1>3. /\ page \in Seq(S) /\ Len(page) = (IF offset + 1 <= upto THEN upto - offset ELSE 0)
      /\ \A i \in 1 .. Len(page) : page[i] = items[offset + i]
  BY <1>1, <1>2
<1> HIDE DEF page
<1>4. (IF offset + 1 <= upto THEN upto - offset ELSE 0) = (IF offset <= upto THEN upto - offset ELSE 0)
  OBVIOUS
<1>5. IsSeq(page) /\ Len(page) \in Nat
  BY <1>3 DEF IsSeq
<1> QED
  BY <1>3, <1>4, <1>5 DEF page

\* A page put after what there is.
LEMMA PageAppended ==
  ASSUME NEW got, IsSeq(got), NEW page, IsSeq(page)
  PROVE  LET all == got \o page IN
         /\ Len(got) \in Nat /\ DOMAIN got = 1 .. Len(got)
         /\ IsSeq(all) /\ DOMAIN all = 1 .. Len(all) /\ Len(all) = Len(got) + Len(page)
         /\ \A i \in 1 .. Len(got) : all[i] = got[i]
         /\ \A i \in 1 .. Len(page) : all[Len(got) + i] = page[i]
<1>1. PICK S : page \in Seq(S)
  BY DEF IsSeq
<1>2. PICK T : got \in Seq(T)
  BY DEF IsSeq
<1> DEFINE all == got \o page
<1>3. all \in Seq(S \cup T) /\ Len(all) = Len(got) + Len(page)
  BY <1>1, <1>2
<1>4. Len(got) \in Nat /\ DOMAIN got = 1 .. Len(got) /\ Len(page) \in Nat
  BY <1>1, <1>2
<1>5. /\ \A i \in 1 .. Len(got) : all[i] = got[i]
      /\ \A i \in 1 .. Len(page) : all[Len(got) + i] = page[i]
  BY <1>1, <1>2, <1>4
<1> HIDE DEF all
<1>6. IsSeq(all) /\ DOMAIN all = 1 .. Len(all)
  BY <1>3 DEF IsSeq
<1> QED
  BY <1>3, <1>4, <1>5, <1>6 DEF all

\* A page is shown to a reader before its place: it is then before the next, or done.
LEMMA PageShown ==
  ASSUME NotebookOK(db), NEW p, DOMAIN p = PagerFields, IsSeq(p.got), NEW q, QueryOK(q),
         NEW offset \in Nat, Reading(p, q, Items(db, q), offset)
  PROVE  PagerOK(Shown(p, q, offset), db)
<1> DEFINE r     == Shown(p, q, offset)
           items == Items(db, q)
           first == q.first
           next  == offset + first
           upto  == IF Len(items) < next THEN Len(items) ELSE next
           page  == SubSeq(items, offset + 1, upto)
           all   == p.got \o page
           more  == Len(items) > next
<1>1. first \in Nat \ {0}
  BY DEF QueryOK
<1>2. PageFrom(db, q, offset).items = page /\ PageFrom(db, q, offset).hasNext = more
  BY DEF PageFrom
<1>3. /\ IsSeq(items) /\ Len(items) \in Nat /\ DOMAIN items = 1 .. Len(items)
      /\ \A i, j \in DOMAIN items : items[i] = items[j] => i = j \/ (IsGrouped(q) /\ items[i] = 0)
  BY Listed
<1>4. Reading(p, q, items, offset)
  OBVIOUS
<1> HIDE DEF items
<1>5. /\ DOMAIN r = PagerFields /\ r.query = q /\ r.got = all /\ r.done = ~more
      /\ r.cursor = (IF more THEN << Cursor(session, q, next) >> ELSE << >>)
      /\ r.owed = p.owed /\ r.calm = p.calm /\ r.expects = p.expects
  BY <1>2 DEF PagerFields, Shown
<1> HIDE DEF r
<1>6. upto \in Nat /\ next \in Nat /\ upto <= Len(items) /\ upto <= next /\ offset <= next
  BY <1>1, <1>3
<1>7. ~more => upto = Len(items)
  BY <1>1, <1>3
<1>8. more => upto = next /\ next <= Len(items)
  BY <1>1, <1>3
<1>o. offset <= Len(items) => offset <= upto
  BY <1>1, <1>3
<1> HIDE DEF upto, next, more, first
<1>p. /\ IsSeq(page) /\ Len(page) \in Nat
      /\ Len(page) = (IF offset <= upto THEN upto - offset ELSE 0)
      /\ \A i \in 1 .. Len(page) : page[i] = items[offset + i]
  BY <1>3, <1>6, PageTaken
<1> HIDE DEF page
<1>a. /\ Len(p.got) \in Nat /\ DOMAIN p.got = 1 .. Len(p.got)
      /\ IsSeq(all) /\ DOMAIN all = 1 .. Len(all) /\ Len(all) = Len(p.got) + Len(page)
      /\ \A i \in 1 .. Len(p.got) : all[i] = p.got[i]
      /\ \A i \in 1 .. Len(page) : all[Len(p.got) + i] = page[i]
  <2> DEFINE got == p.got
  <2>1. IsSeq(got) /\ IsSeq(page)
    BY <1>p
  <2> HIDE DEF got
  <2>2. LET sum == got \o page IN
        /\ Len(got) \in Nat /\ DOMAIN got = 1 .. Len(got)
        /\ IsSeq(sum) /\ DOMAIN sum = 1 .. Len(sum) /\ Len(sum) = Len(got) + Len(page)
        /\ \A i \in 1 .. Len(got) : sum[i] = got[i]
        /\ \A i \in 1 .. Len(page) : sum[Len(got) + i] = page[i]
    BY <2>1, PageAppended
  <2> QED
    BY <2>2 DEF got
<1> HIDE DEF all
<1>9. ASSUME NEW i \in offset + 1 .. upto
      PROVE  /\ Len(p.got) + (i - offset) \in 1 .. Len(all)
             /\ all[Len(p.got) + (i - offset)] = items[i]
  <2> DEFINE k == i - offset
  <2>1. k \in 1 .. Len(page) /\ offset + k = i
    BY <1>6, <1>p
  <2> HIDE DEF k
  <2>2. page[k] = items[i] /\ all[Len(p.got) + k] = page[k]
    BY <1>p, <1>a, <2>1
  <2>3. Len(p.got) + k \in 1 .. Len(all)
    BY <1>p, <1>a, <2>1
  <2> QED
    BY <2>2, <2>3 DEF k
\* What it has, it keeps, and the page is added.
<1>10. \A x \in ToSet(p.got) : x \in ToSet(all)
  <2>1. ASSUME NEW i \in DOMAIN p.got PROVE p.got[i] \in ToSet(all)
    <3>1. i \in DOMAIN all /\ all[i] = p.got[i]
      BY <1>p, <1>a
    <3> QED
      BY <3>1 DEF ToSet
  <2> QED
    BY <2>1 DEF ToSet
<1>11. ASSUME NEW i \in DOMAIN items, i <= upto, items[i] \in p.owed PROVE items[i] \in ToSet(all)
  <2>1. CASE i <= offset
    BY <1>4, <1>10, <1>11, <2>1 DEF Reading
  <2>2. CASE ~(i <= offset)
    <3>1. i \in offset + 1 .. upto
      BY <1>3, <1>6, <1>11, <2>2
    <3>2. Len(p.got) + (i - offset) \in DOMAIN all /\ all[Len(p.got) + (i - offset)] = items[i]
      BY <1>9, <1>a, <3>1
    <3> QED
      BY <3>2 DEF ToSet
  <2> QED
    BY <2>1, <2>2
\* While nothing has changed, it has what lies before the next place.
<1>12. ASSUME p.calm
       PROVE  /\ offset <= upto /\ Len(all) = upto
              /\ \A i \in 1 .. upto : all[i] = items[i]
              /\ p.expects # << >> /\ q.path # << 0 >> => p.expects[1] = Len(items)
  <2>1. /\ offset <= Len(items) /\ Len(p.got) = offset
        /\ \A i \in 1 .. offset : p.got[i] = items[i]
        /\ p.expects # << >> /\ q.path # << 0 >> => p.expects[1] = Len(items)
    BY <1>4, <1>12 DEF Reading
  <2>2. offset <= upto
    BY <1>o, <2>1
  <2>3. Len(all) = upto
    BY <1>6, <1>p, <1>a, <2>1, <2>2
  <2>4. ASSUME NEW i \in 1 .. upto PROVE all[i] = items[i]
    <3>1. CASE i <= offset
      <4>1. i \in 1 .. Len(p.got)
        BY <2>1, <3>1
      <4> QED
        BY <1>a, <2>1, <4>1
    <3>2. CASE ~(i <= offset)
      <4>1. i \in offset + 1 .. upto /\ offset + (i - offset) = i
        BY <1>6, <3>2
      <4> QED
        BY <1>9, <2>1, <4>1
    <3> QED
      BY <3>1, <3>2
  <2> QED
    BY <2>1, <2>2, <2>3, <2>4
<1>13. ASSUME more PROVE PagerOK(r, db)
  <2>1. Reading(r, q, items, next)
    <3>1. r.owed \subseteq ToSet(items)
      BY <1>4, <1>5 DEF Reading
    <3>2. \A i \in DOMAIN items : i <= next /\ items[i] \in r.owed => items[i] \in ToSet(r.got)
      BY <1>5, <1>8, <1>11, <1>13
    <3>3. r.calm => /\ next <= Len(items) /\ Len(r.got) = next
                    /\ \A i \in 1 .. next : r.got[i] = items[i]
                    /\ r.expects # << >> /\ q.path # << 0 >> => r.expects[1] = Len(items)
      BY <1>5, <1>8, <1>12, <1>13
    <3> QED
      BY <3>1, <3>2, <3>3 DEF Reading
  <2>2. r.cursor = << Cursor(session, q, next) >> /\ ~r.done
    BY <1>5, <1>13
  <2>3. r.cursor[1].query = q /\ r.cursor[1].offset = next
    BY <2>2 DEF Cursor
  <2>4. Reading(r, r.query, Items(db, r.query), r.cursor[1].offset)
    BY <1>5, <2>1, <2>3 DEF items
  <2>5. IsSeq(r.got) /\ QueryOK(r.query)
    BY <1>5, <1>a
  <2> QED
    BY <1>5, <1>6, <2>2, <2>3, <2>4, <2>5 DEF PagerOK
<1>14. ASSUME ~more PROVE PagerOK(r, db)
  <2>1. upto = Len(items)
    BY <1>7, <1>14
  <2>2. r.owed \subseteq ToSet(r.got)
    <3>1. ASSUME NEW x \in p.owed PROVE x \in ToSet(all)
      <4>1. PICK i \in DOMAIN items : items[i] = x
        BY <1>4 DEF Reading, ToSet
      <4>2. i <= upto
        BY <1>3, <2>1
      <4> QED
        BY <1>11, <4>1, <4>2
    <3> QED
      BY <1>5, <3>1
  <2>3. ASSUME r.calm
        PROVE  \A i, j \in DOMAIN r.got : r.got[i] = r.got[j] =>
                 i = j \/ (IsGrouped(r.query) /\ r.got[i] = 0)
    <3>1. DOMAIN all = DOMAIN items /\ \A i \in DOMAIN items : all[i] = items[i]
      BY <1>3, <1>5, <1>a, <1>12, <2>1, <2>3
    <3> QED
      BY <1>3, <1>5, <3>1
  <2>4. r.calm /\ r.expects # << >> /\ r.query.path # << 0 >> => Len(r.got) = r.expects[1]
    BY <1>5, <1>12, <2>1
  <2>5. r.cursor = << >> /\ IsSeq(r.got) /\ QueryOK(r.query)
    BY <1>5, <1>a, <1>14
  <2> QED
    BY <1>5, <2>2, <2>3, <2>4, <2>5 DEF PagerOK, Whole
<1> QED
  BY <1>13, <1>14 DEF r

\* A reader begins: it is owed what is listed, and may have been told how much that is.
LEMMA PagerBegun ==
  ASSUME NotebookOK(db), NEW q, QueryOK(q), NEW expects,
         expects # << >> /\ q.path # << 0 >> => expects[1] = Len(Items(db, q))
  PROVE  PagerOK(Begun(q, expects), db)
<1> DEFINE items == Items(db, q)
           p == [FirstPager EXCEPT !.owed = ToSet(items), !.expects = expects]
<1>1. /\ DOMAIN p = PagerFields /\ p.got = << >> /\ p.owed = ToSet(items) /\ p.expects = expects
      /\ p.calm = TRUE
  BY DEF FirstPager, PagerFields
<1>2. Len(items) \in Nat /\ DOMAIN items = 1 .. Len(items)
  BY Listed
<1>3. IsSeq(<< >>)
  <2>1. << >> \in Seq({0})
    OBVIOUS
  <2> QED
    BY <2>1 DEF IsSeq
<1>5. Begun(q, expects) = Shown(p, q, 0)
  BY DEF Begun
<1> HIDE DEF items, p
<1>4. Reading(p, q, items, 0)
  BY <1>1, <1>2 DEF Reading, items
<1>6. Reading(p, q, Items(db, q), 0) /\ IsSeq(p.got)
  BY <1>1, <1>3, <1>4 DEF items
<1>7. PagerOK(Shown(p, q, 0), db)
  BY <1>1, <1>6, PageShown
<1> QED
  BY <1>5, <1>7

\* A write: as long as nothing listed has gone or come nearer the beginning, what was
\* owed and lies before the place of the reader lay there before.
LEMMA PagerDisturbed ==
  ASSUME NotebookOK(db), NEW e, NotebookOK(e), PagerOK(pager, db), pager.done => e = db
  PROVE  PagerOK(Disturbed(e), e)
<1> DEFINE q == pager.query
           old == Items(db, q)
           new == Items(e, q)
           r == Disturbed(e)
<1>1. /\ DOMAIN r = PagerFields /\ r.query = q /\ r.got = pager.got /\ r.done = pager.done
      /\ r.cursor = pager.cursor /\ r.expects = pager.expects
      /\ r.owed = (IF Grew(old, new) THEN pager.owed ELSE {})
      /\ r.calm = (pager.calm /\ View(e, q) = View(db, q))
  BY DEF Disturbed, PagerOK, PagerFields
<1> HIDE DEF r
<1>2. QueryOK(q) /\ IsSeq(r.got)
  BY <1>1 DEF PagerOK
<1>3. Len(old) \in Nat /\ DOMAIN old = 1 .. Len(old) /\ Len(new) \in Nat /\ DOMAIN new = 1 .. Len(new)
  BY Listed
<1>4. View(e, q) = View(db, q) => new = old
  BY SameView
<1> HIDE DEF old, new
<1>5. ASSUME pager.done PROVE Whole(r)
  BY <1>1, <1>5 DEF PagerOK, Whole
<1>6. ASSUME NEW offset \in Nat, Reading(pager, q, old, offset) PROVE Reading(r, q, new, offset)
  <2>1. CASE ~Grew(old, new)
    BY <1>1, <1>4, <1>6, <2>1 DEF Reading
  <2>2. CASE Grew(old, new)
    <3>1. r.owed \subseteq ToSet(new)
      BY <1>1, <1>6, <2>2 DEF Reading, Grew
    <3>2. ASSUME NEW i \in DOMAIN new, i <= offset, new[i] \in r.owed PROVE new[i] \in ToSet(r.got)
      <4>1. new[i] \in ToSet(old)
        BY <1>1, <1>6, <3>2 DEF Reading
      <4>2. PICK j \in DOMAIN old : j <= i /\ old[j] = new[i]
        BY <2>2, <4>1 DEF Grew
      <4>3. j <= offset
        BY <1>3, <3>2, <4>2
      <4> QED
        BY <1>1, <1>6, <2>2, <3>2, <4>2, <4>3 DEF Reading
    <3> QED
      BY <1>1, <1>4, <1>6, <3>1, <3>2 DEF Reading
  <2> QED
    BY <2>1, <2>2
<1>7. ASSUME r.cursor # << >>
      PROVE  /\ ~r.done /\ r.cursor[1].query = r.query /\ r.cursor[1].offset \in Nat
             /\ Reading(r, r.query, Items(e, r.query), r.cursor[1].offset)
  <2>1. /\ ~pager.done /\ pager.cursor[1].query = q /\ pager.cursor[1].offset \in Nat
        /\ Reading(pager, q, old, pager.cursor[1].offset)
    BY <1>1, <1>7 DEF PagerOK, old
  <2>2. Reading(r, q, new, pager.cursor[1].offset)
    BY <1>6, <2>1
  <2> QED
    BY <1>1, <2>1, <2>2 DEF new
<1>8. r.done => Whole(r)
  BY <1>1, <1>5
<1>9. DOMAIN r = PagerFields /\ QueryOK(r.query)
  BY <1>1, <1>2
<1>10. PagerOK(r, e)
  BY <1>2, <1>7, <1>8, <1>9 DEF PagerOK
<1> QED
  BY <1>10 DEF r

-----------------------------------------------------------------------------
(* The notebook in use.                                                    *)

\* What a reader has of a roast is what the roast had under that number of its curve.
ViewerOK ==
  /\ viewer.roast = 0 => viewer.points = Null
  /\ viewer.roast # 0 =>
       /\ viewer.roast \in DOMAIN db.roasts /\ viewer.stream \in Nat
       /\ viewer.stream <= db.roasts[viewer.roast].stream
       /\ viewer.stream = db.roasts[viewer.roast].stream =>
            viewer.facts = db.roasts[viewer.roast].facts
  /\ SeriesIsOwn
  /\ DOMAIN viewer = {"roast", "stream", "facts", "points"}

Inv == NotebookOK(db) /\ ViewerOK /\ PagerOK(pager, db)

\* A write leaves a notebook.
LEMMA AnswerGood ==
  ASSUME Inv, ImportLog \/ EditProviders \/ EditCoffees \/ EditLots \/ EditRoast
  PROVE  \E e : /\ Good(db, e) /\ db' = e
                /\ viewer' = viewer \/ viewer' = FirstViewer
                /\ \/ pager' = FirstPager
                   \/ pager' = Disturbed(e) /\ (pager.done => e = db)
<1>1. ASSUME NEW answer, Good(db, answer.db), Writes(answer)
      PROVE  \E e : /\ Good(db, e) /\ db' = e
                    /\ viewer' = viewer \/ viewer' = FirstViewer
                    /\ \/ pager' = FirstPager
                       \/ pager' = Disturbed(e) /\ (pager.done => e = db)
  BY <1>1 DEF Writes
<1>2. CASE ImportLog
  BY <1>1, <1>2, Imported DEF ImportLog, Inv
<1>3. CASE EditProviders
  BY <1>1, <1>3, Created, ProviderRenamed, Archived DEF EditProviders, Inv
<1>4. CASE EditCoffees
  BY <1>1, <1>4, Created, CoffeeRenamed, Archived DEF EditCoffees, Inv
<1>5. CASE EditLots
  BY <1>1, <1>5, Created, LotRecoded DEF EditLots, Inv
<1>6. CASE EditRoast
  BY <1>1, <1>6, CoffeeAssigned DEF EditRoast, Inv
<1> QED
  BY <1>2, <1>3, <1>4, <1>5, <1>6

\* A reader that has nothing, and one that read what has not been replaced since.
LEMMA ViewerKept ==
  ASSUME Inv, NEW e, Good(db, e), db' = e, viewer' = viewer \/ viewer' = FirstViewer
  PROVE  ViewerOK'
<1>1. CASE viewer' = FirstViewer
  BY <1>1 DEF FirstViewer, ViewerOK, SeriesIsOwn
<1>2. CASE viewer' = viewer
  <2>1. ASSUME viewer.roast # 0
        PROVE  /\ viewer.roast \in DOMAIN e.roasts
               /\ viewer.stream <= e.roasts[viewer.roast].stream
               /\ viewer.stream = e.roasts[viewer.roast].stream =>
                    viewer.facts = e.roasts[viewer.roast].facts
    <3>1. /\ viewer.roast \in DOMAIN db.roasts /\ viewer.stream \in Nat
          /\ viewer.stream <= db.roasts[viewer.roast].stream
          /\ viewer.stream = db.roasts[viewer.roast].stream =>
               viewer.facts = db.roasts[viewer.roast].facts
      BY <2>1 DEF Inv, ViewerOK
    <3>2. db.roasts[viewer.roast].stream \in Nat
      BY <3>1 DEF Inv, NotebookOK, Copies, RoastOK
    <3>3. viewer.roast \in DOMAIN e.roasts /\ e.roasts[viewer.roast].stream \in Nat
      BY <3>1 DEF Good, Follows, NotebookOK, Copies, RoastOK
    <3> QED
      BY <3>1, <3>2, <3>3 DEF Good, Follows
  <2> QED
    BY <1>2, <2>1 DEF ViewerOK, Inv, SeriesIsOwn
<1> QED
  BY <1>1, <1>2

\* The notebooks there are at first: an empty one, and the demo data.
LEMMA InitInv ==
  ASSUME Init
  PROVE  Inv
<1>1. ViewerOK
  BY DEF Init, ViewerOK, FirstViewer, SeriesIsOwn
<1>0. ASSUME NEW x PROVE IsSeq(<< >>) /\ IsSeq(<< x >>)
  <2>1. << >> \in Seq({x}) /\ << x >> \in Seq({x})
    OBVIOUS
  <2> QED
    BY <2>1 DEF IsSeq
<1>2. NotebookOK(EmptyNotebook)
  <2>1. Tables(EmptyNotebook)
    BY <1>0 DEF EmptyNotebook, Tables, Fields
  <2>2. Catalogue(EmptyNotebook)
    BY DEF EmptyNotebook, Catalogue
  <2>3. Copies(EmptyNotebook)
    BY DEF EmptyNotebook, Copies
  <2> QED
    BY <2>1, <2>2, <2>3 DEF NotebookOK
<1>3. ASSUME NEW provider \in Name, NEW coffee \in Name, NEW code \in Name
      PROVE  NotebookOK(Seeded(provider, coffee, code))
  <2> DEFINE d == Seeded(provider, coffee, code)
  <2>1. /\ DOMAIN d = Fields
        /\ d.providers = << [name |-> provider, revision |-> 1, archived |-> FALSE] >>
        /\ d.coffees   = << [name |-> coffee, revision |-> 1, archived |-> FALSE] >>
        /\ d.lines     = << [coffee |-> 1, provider |-> 1] >>
        /\ d.lots      = << [code |-> code, line |-> 1, revision |-> 1, archived |-> FALSE] >>
        /\ d.roasts    = << [source |-> [sha |-> Null, path |-> 0], facts |-> SeedFacts,
                             stream |-> 1, points |-> SeedFacts, revision |-> 1, coffee |-> 1,
                             lot |-> 1] >>
        /\ d.rows      = << [revision |-> 1, facts |-> SeedFacts, profile |-> << "seed", 1 >>,
                             coffee |-> 1, coffeeName |-> coffee,
                             provider |-> 1, providerName |-> provider,
                             lot |-> 1, lotCode |-> code, tasting |-> {"jasmine"}] >>
        /\ d.fts       = << [coffee |-> coffee, provider |-> provider, notes |-> {"jasmine"}] >>
    BY DEF Seeded, EmptyNotebook, Fields
  <2> HIDE DEF d
  <2>2. Tables(d)
    <3>1. /\ IsSeq(d.roasts) /\ IsSeq(d.rows) /\ IsSeq(d.fts)
          /\ IsSeq(d.providers) /\ IsSeq(d.coffees) /\ IsSeq(d.lots)
      BY <1>0, <2>1
    <3>2. Len(d.rows) = 1 /\ Len(d.roasts) = 1 /\ Len(d.fts) = 1
      BY <2>1
    <3> QED
      BY <2>1, <3>1, <3>2 DEF Tables
  <2>3. Catalogue(d)
    BY <2>1 DEF Catalogue, NameFields, LotFields
  <2>4. DOMAIN d.roasts = {1} /\ DOMAIN d.coffees = {1} /\ DOMAIN d.lots = {1}
    BY <2>1
  <2>5. RoastOK(d, d.roasts[1])
    BY <2>1, <2>4 DEF RoastOK, RoastFields
  <2>6. RowOK(d, d.roasts[1], d.rows[1])
    <3>1. /\ CoffeeNames(d, 1) = {coffee} /\ ProviderOf(d, 1) = 1
          /\ ProviderName(d, 1) = provider /\ LotCode(d, 1) = code
      BY <2>1 DEF CoffeeNames, ProviderOf, ProviderName, LotCode
    <3> DEFINE roast == d.roasts[1]
               row   == d.rows[1]
    <3>2. roast.coffee = 1 /\ roast.lot = 1 /\ roast.revision = 1 /\ roast.facts = SeedFacts
      BY <2>1
    <3>3. /\ DOMAIN row = RowFields /\ row.coffee = 1 /\ row.lot = 1 /\ row.revision = 1
          /\ row.facts = SeedFacts /\ row.coffeeName = coffee /\ row.provider = 1
          /\ row.providerName = provider /\ row.lotCode = code
      BY <2>1 DEF RowFields
    <3> HIDE DEF roast, row
    <3>4. RowOK(d, roast, row)
      BY <3>1, <3>2, <3>3 DEF RowOK
    <3> QED
      BY <3>4 DEF roast, row
  <2>7. EntryOK(d, d.rows[1], d.fts[1])
    BY <2>1 DEF EntryOK, CoffeeNames
  <2> QED
    BY <2>2, <2>3, <2>4, <2>5, <2>6, <2>7 DEF NotebookOK, Copies, d
<1>4. NotebookOK(db)
  BY <1>2, <1>3, LibraryAssumption DEF Init
<1>5. PagerOK(pager, db)
  BY FirstPagerOK DEF Init
<1> QED
  BY <1>1, <1>4, <1>5 DEF Inv

\* Every step keeps the notebook and what the reader has.
LEMMA NextInv ==
  ASSUME Inv, [Next]_vars
  PROVE  Inv'
<1>1. CASE ImportLog \/ EditProviders \/ EditCoffees \/ EditLots \/ EditRoast
  <2>1. PICK e : /\ Good(db, e) /\ db' = e /\ (viewer' = viewer \/ viewer' = FirstViewer)
                 /\ \/ pager' = FirstPager
                    \/ pager' = Disturbed(e) /\ (pager.done => e = db)
    BY <1>1, AnswerGood
  <2>2. NotebookOK(db')
    BY <2>1 DEF Good
  <2>3. ViewerOK'
    BY <2>1, ViewerKept
  <2>4. PagerOK(pager', e)
    BY <2>1, FirstPagerOK, PagerDisturbed DEF Inv, Good
  <2> QED
    BY <2>1, <2>2, <2>3, <2>4 DEF Inv
<1>2. ASSUME db' = db, viewer' = viewer \/ viewer' = FirstViewer, PagerOK(pager', db) PROVE Inv'
  BY <1>2 DEF Inv, ViewerOK, SeriesIsOwn, FirstViewer
<1>3. CASE FirstPage
  <2>1. PICK q \in Queries : pager' = Begun(q, << >>)
    BY <1>3 DEF FirstPage
  <2>2. QueryOK(q)
    <3>1. /\ q = [filter |-> q.filter, grouped |-> q.grouped, path |-> << >>, first |-> q.first]
          /\ q.first \in Nat \ {0}
      BY LibraryAssumption
    <3>2. q.path = << >>
      BY <3>1
    <3> QED
      BY <3>1, <3>2 DEF QueryOK
  <2>3. PagerOK(pager', db)
    BY <2>1, <2>2, PagerBegun DEF Inv
  <2> QED
    BY <1>2, <1>3, <2>3 DEF FirstPage
<1>4. CASE NextPage
  <2>1. PagerOK(pager', db)
    <3>1. CASE pager' = FirstPager
      BY <3>1, FirstPagerOK
    <3>2. ASSUME NEW q, Accepts(pager.cursor[1], session, q),
                 pager' = Shown(pager, q, pager.cursor[1].offset)
          PROVE  PagerOK(pager', db)
      <4>1. /\ pager.cursor[1].query = pager.query /\ pager.cursor[1].offset \in Nat
            /\ Reading(pager, pager.query, Items(db, pager.query), pager.cursor[1].offset)
            /\ DOMAIN pager = PagerFields /\ IsSeq(pager.got) /\ QueryOK(pager.query)
        BY <1>4 DEF NextPage, Inv, PagerOK
      <4>2. q = pager.query
        BY <3>2, <4>1 DEF Accepts
      <4>3. NotebookOK(db)
        BY DEF Inv
      <4> QED
        BY <3>2, <4>1, <4>2, <4>3, PageShown
    <3> QED
      BY <1>4, <3>1, <3>2 DEF NextPage
  <2> QED
    BY <1>2, <1>4, <2>1 DEF NextPage
<1>5. CASE OpenGroup
  <2> DEFINE q == pager.query
  <2>1. /\ IsGrouped(q)
        /\ \E g \in GroupSet(db, q) :
             pager' = Begun([q EXCEPT !.path = << g.key >>],
                            IF pager.calm THEN << Count(db, q, g.key, g.label) >> ELSE << >>)
    BY <1>5 DEF OpenGroup
  <2>2. PICK g \in GroupSet(db, q) :
             pager' = Begun([q EXCEPT !.path = << g.key >>],
                            IF pager.calm THEN << Count(db, q, g.key, g.label) >> ELSE << >>)
    BY <2>1
  <2>3. NotebookOK(db) /\ QueryOK(q)
    BY DEF Inv, PagerOK
  <2> DEFINE r == [q EXCEPT !.path = << g.key >>]
             expects == IF pager.calm THEN << Count(db, q, g.key, g.label) >> ELSE << >>
  <2> HIDE DEF q
  <2>4. /\ r = [filter |-> q.filter, grouped |-> q.grouped, path |-> << g.key >>, first |-> q.first]
    BY <2>3 DEF QueryOK
  <2> HIDE DEF r
  <2>5. QueryOK(r) /\ r.filter = q.filter /\ r.path = << g.key >>
    BY <2>3, <2>4 DEF QueryOK
  <2>6. ASSUME expects # << >>, r.path # << 0 >> PROVE expects[1] = Len(Items(db, r))
    <3>1. expects[1] = Count(db, q, g.key, g.label)
      BY <2>6
    <3>2. g.key # 0
      BY <2>5, <2>6
    <3> QED
      BY <2>1, <2>3, <2>5, <3>1, <3>2, Counted
  <2>7. pager' = Begun(r, expects)
    BY <2>2 DEF r, q
  <2> HIDE DEF expects
  <2>8. PagerOK(pager', db)
    BY <2>3, <2>5, <2>6, <2>7, PagerBegun
  <2> QED
    BY <1>2, <1>5, <2>8 DEF OpenGroup
<1>6. CASE Restart \/ UNCHANGED vars
  BY <1>2, <1>6 DEF Restart, vars, Inv
<1>7. CASE GetDetail
  <2>1. PICK n \in DOMAIN db.roasts :
          viewer' = [roast |-> n, stream |-> Detail(db, n).stream,
                     facts |-> Detail(db, n).facts, points |-> Null]
    BY <1>7 DEF GetDetail
  <2>2. /\ viewer'.roast = n /\ viewer'.stream = db.roasts[n].stream
        /\ viewer'.facts = db.roasts[n].facts /\ viewer'.points = Null
        /\ DOMAIN viewer' = {"roast", "stream", "facts", "points"}
    BY <2>1 DEF Detail
  <2>3. n # 0 /\ db.roasts[n].stream \in Nat
    BY Grown DEF Inv, NotebookOK, Tables, Copies, RoastOK
  <2>4. db' = db /\ PagerOK(pager', db)
    BY <1>7, FirstPagerOK DEF GetDetail
  <2> QED
    BY <2>2, <2>3, <2>4 DEF Inv, ViewerOK, SeriesIsOwn
<1>8. CASE GetSeries
  <2>0. /\ viewer.roast # 0 /\ db' = db /\ pager' = pager /\ viewer.roast \in DOMAIN db.roasts
        /\ db.roasts[viewer.roast].points = db.roasts[viewer.roast].facts
    BY <1>8 DEF GetSeries, Inv, ViewerOK, NotebookOK, Copies, RoastOK
  <2>1. CASE viewer' = FirstViewer
    BY <1>2, <2>0, <2>1 DEF Inv
  <2>2. CASE db.roasts[viewer.roast].stream = viewer.stream
    <3>1. viewer' = [viewer EXCEPT !.points = db.roasts[viewer.roast].points]
      BY <1>8, <2>2 DEF GetSeries, Series
    <3>2. /\ viewer'.roast = viewer.roast /\ viewer'.stream = viewer.stream
          /\ viewer'.facts = viewer.facts /\ DOMAIN viewer' = DOMAIN viewer
          /\ viewer'.points = viewer.facts
      BY <2>0, <2>2, <3>1 DEF Inv, ViewerOK
    <3> QED
      BY <2>0, <3>2 DEF Inv, ViewerOK, SeriesIsOwn
  <2> QED
    BY <1>8, <2>1, <2>2 DEF GetSeries, Series
<1> QED
  BY <1>1, <1>3, <1>4, <1>5, <1>6, <1>7, <1>8 DEF Next

\* What the properties rest on.
THEOREM Invariant == Spec => []Inv
<1>1. Init => Inv
  BY InitInv
<1>2. Inv /\ [Next]_vars => Inv'
  BY NextInv
<1> QED
  BY <1>1, <1>2, PTL DEF Spec

\* What the library lists and finds is what the page of the roast shows, after any
\* imports, renamings, archivings and assignments (catalog-repository.ts,
\* roast-repository.ts and klog-importer.ts all write the copies).
THEOREM CopiesAgree == Spec => []LibraryAgrees
<1>1. ASSUME Inv PROVE LibraryAgrees
  <2> SUFFICES ASSUME NEW n \in Roasts PROVE RowAgrees(n) /\ EntryAgrees(n)
    BY DEF LibraryAgrees
  <2>1. /\ n \in DOMAIN db.roasts /\ RoastOK(db, db.roasts[n])
        /\ RowOK(db, db.roasts[n], db.rows[n]) /\ EntryOK(db, db.rows[n], db.fts[n])
    BY <1>1, Refers DEF Inv, Roasts
  <2>2. \A id : CoffeeNames(db, id) = NameShown(id)
    BY DEF CoffeeNames, NameShown
  <2>3. /\ Detail(db, n).provider = ProviderName(db, ProviderOf(db, db.roasts[n].lot))
        /\ Detail(db, n).lot = LotCode(db, db.roasts[n].lot)
        /\ Detail(db, n).revision = db.roasts[n].revision
        /\ Detail(db, n).facts = db.roasts[n].facts
    <3>1. db.roasts[n].lot # 0 => ProviderOf(db, db.roasts[n].lot) # 0
      <4>1. ASSUME db.roasts[n].lot # 0
            PROVE  ProviderOf(db, db.roasts[n].lot) \in DOMAIN db.providers
        BY <1>1, <2>1, <4>1 DEF Inv, NotebookOK, Catalogue, RoastOK, ProviderOf
      <4>2. 0 \notin DOMAIN db.providers
        BY <1>1, Grown DEF Inv, NotebookOK, Tables
      <4> QED
        BY <4>1, <4>2
    <3> QED
      BY <3>1 DEF Detail, ProviderName, ProviderOf, LotCode
  <2>4. RowAgrees(n)
    BY <2>1, <2>2, <2>3 DEF RowAgrees, RowOK
  <2>5. EntryAgrees(n)
    BY <2>1, <2>2 DEF EntryAgrees, EntryOK
  <2> QED
    BY <2>4, <2>5
<1> QED
  BY <1>1, Invariant, PTL

\* The curve a reader is given is that of the roast it read, though the log may have been
\* replaced in between (getSeries and its stream version).
THEOREM CurveIsOwn == Spec => []SeriesIsOwn
<1>1. Inv => SeriesIsOwn
  BY DEF Inv, ViewerOK
<1> QED
  BY <1>1, Invariant, PTL

\* A reader who has come to the last page has been given everything it is owed; if nothing
\* has changed, nothing twice but the groups without a coffee, and of a group as many rows
\* as its count said (roast-library-query.ts, the cursors of cursor.ts), whatever else
\* is written meanwhile and for pages of any size.
THEOREM PagesAreWhole == Spec => []PagesWhole
<1>1. Inv => PagesWhole
  BY DEF Inv, PagerOK, Whole, PagesWhole
<1> QED
  BY <1>1, Invariant, PTL

=============================================================================
