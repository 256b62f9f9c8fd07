------------------------------ MODULE KlogImport -----------------------------
(***************************************************************************)
(* The companion's import of one roast log                                 *)
(* (apps/companion/src/import/klog-importer.ts), as an operator from the   *)
(* database to the database and the outcome of the call.                   *)
(*                                                                         *)
(* A content is a model value: what a log holds.  Its SHA-256 is the       *)
(* content itself.  Facts read from it (level, masses, times, notes) are   *)
(* named by the content they come from, its telemetry likewise.            *)
(***************************************************************************)
EXTENDS Naturals, Sequences

CONSTANTS
  Content,     \* what a log file may hold
  Unsafe,      \* contents that cannot be parsed or projected safely
  ProfileOf,   \* for each content, the normalized name of its profile
  DocumentOf   \* for each content, the profile document extracted from it

ASSUME KlogImportAssumption ==
  Unsafe \subseteq Content /\ Content \subseteq DOMAIN ProfileOf \cap DOMAIN DocumentOf

\* native_files and native_file_quarantine, profiles with their revisions, the
\* roasts with their current stream, the library rows and their search index.
\* A roast is known by its serial number: none is ever deleted.
EmptyDatabase ==
  [files |-> {}, quarantine |-> << >>, profiles |-> << >>,
   roasts |-> << >>, rows |-> << >>, fts |-> << >>]

Outcomes == {"imported", "updated", "known", "quarantined", "duplicate"}

Unassigned == "Unassigned coffee"
Null == "null"     \* a name that is not there; identifiers use 0

-----------------------------------------------------------------------------

\* assertImportProjection, and the parser before it.
Importable(c) == c \notin Unsafe

\* #quarantine: one row per content, which counts its attempts.
Quarantine(db, c) ==
  [db EXCEPT !.quarantine =
     [d \in DOMAIN @ \cup {c} |->
        IF d # c THEN @[d] ELSE IF c \in DOMAIN @ THEN @[c] + 1 ELSE 1]]

\* Roasts whose current source has this content, or came from this path.
WithContent(db, c) == {n \in DOMAIN db.roasts : db.roasts[n].source.sha = c}
FromPath(db, path) == {n \in DOMAIN db.roasts : db.roasts[n].source.path = path}

Stored(db, c) == \E f \in db.files : f.sha = c

\* #resolveProfile: the profile of that name, the revision with that document.
Revisions(db, name) == IF name \in DOMAIN db.profiles THEN db.profiles[name] ELSE << >>

HasDocument(db, c) ==
  \E i \in DOMAIN Revisions(db, ProfileOf[c]) :
    Revisions(db, ProfileOf[c])[i] = DocumentOf[c]

ResolveProfile(db, c) ==
  IF HasDocument(db, c) THEN db
  ELSE [db EXCEPT !.profiles =
          [name \in DOMAIN @ \cup {ProfileOf[c]} |->
             IF name = ProfileOf[c] THEN Append(Revisions(db, name), DocumentOf[c])
             ELSE @[name]]]

\* What the row shows of it, once it is resolved: the name and the number.
RevisionShown(db, c) ==
  << ProfileOf[c],
     CHOOSE i \in DOMAIN Revisions(db, ProfileOf[c]) :
       Revisions(db, ProfileOf[c])[i] = DocumentOf[c] >>

-----------------------------------------------------------------------------

\* A write of a record counts.
NextRevision(record) == [record EXCEPT !.revision = @ + 1]

\* Faulty: the stream that replaces another keeps its version.
ReplaceTelemetryInPlace(roast, c) ==
  [roast EXCEPT !.stream = IF @ = 0 THEN 1 ELSE @, !.points = c]

\* #replaceTelemetry: one stream per roast, under the next version.
ReplaceTelemetry(roast, c) == [roast EXCEPT !.stream = @ + 1, !.points = c]

\* #replaceFts: one search entry per roast.
ReplaceFts(db, n, entry) == [db EXCEPT !.fts[n] = entry]

\* #insertProjection.
InsertProjection(db, c) ==
  [db EXCEPT
     !.rows = Append(@, [revision |-> 1, facts |-> c, profile |-> RevisionShown(db, c),
                         coffee |-> 0, coffeeName |-> Unassigned,
                         provider |-> 0, providerName |-> Null,
                         lot |-> 0, lotCode |-> Null, tasting |-> {}]),
     !.fts  = Append(@, [coffee |-> Unassigned, provider |-> Null, notes |-> {c}])]

\* #refreshExistingProjection: what the row says of coffee, provider and lot stays.
RefreshExistingProjection(db, n, c) ==
  LET row == db.rows[n]
  IN  ReplaceFts([db EXCEPT !.rows[n] = [NextRevision(row) EXCEPT !.facts = c,
                                                    !.profile = RevisionShown(db, c)]],
                 n,
                 [coffee   |-> IF row.coffeeName = Null THEN Unassigned ELSE row.coffeeName,
                  provider |-> row.providerName, notes |-> row.tasting \cup {c}])

\* A new roast, with the next serial number.
InsertRoast(db, file) ==
  LET roast == [source |-> file, facts |-> file.sha, stream |-> 0, points |-> Null,
                revision |-> 1, coffee |-> 0, lot |-> 0]
  IN  InsertProjection(
        [db EXCEPT !.roasts = Append(@, ReplaceTelemetry(roast, file.sha))], file.sha)

\* A roast the path is known for.
UpdateRoast(db, n, file) ==
  LET roast == [NextRevision(db.roasts[n]) EXCEPT !.source = file, !.facts = file.sha]
  IN  RefreshExistingProjection(
        [db EXCEPT !.roasts[n] = ReplaceTelemetry(roast, file.sha)], n, file.sha)

\* One immediate transaction: a failed INSERT leaves nothing behind.
Record(db, c, path) ==
  LET file     == [sha |-> c, path |-> path]
      resolved == ResolveProfile([db EXCEPT !.files = @ \cup {file}], c)
  IN  IF Stored(db, c) THEN [db |-> db, outcome |-> "duplicate"]
      ELSE IF FromPath(db, path) = {}
        THEN [db |-> InsertRoast(resolved, file), outcome |-> "imported"]
        ELSE [db |-> UpdateRoast(resolved, CHOOSE n \in FromPath(db, path) : TRUE, file),
              outcome |-> "updated"]

\* import: a rejected log is kept aside; a content that is some roast's current
\* source is left alone; any other goes through the transaction.
Import(db, c, path) ==
  IF ~Importable(c) THEN [db |-> Quarantine(db, c), outcome |-> "quarantined"]
  ELSE IF WithContent(db, c) # {} THEN [db |-> db, outcome |-> "known"]
  ELSE Record(db, c, path)

=============================================================================
