----------------------------- MODULE Attachments ----------------------------
(***************************************************************************)
(* Attachment content: rows in the database (core_api.rs), bytes in a      *)
(* content-addressed store (object_store.rs, object_store/gcs.rs).         *)
(*                                                                         *)
(* A row names its bytes by digest.  Nothing makes the row and the bytes   *)
(* one transaction: an upload spools to disk, copies to the bucket when    *)
(* there is one, then updates the row, then deletes the bytes the row      *)
(* named before when no row names them any more.  Uploads, the start-up    *)
(* replication pass and restarts interleave at every await.                *)
(***************************************************************************)
EXTENDS Integers, FiniteSets

CONSTANTS
  Attachment,    \* attachment rows
  Upload,        \* content uploads a client may make (each at most once)
  Digest,        \* SHA-256 digests
  None,          \* no content, or no digest
  ContentOf,     \* the digest of each upload's body
  Replicated,    \* TRUE with a Cloud Storage bucket, FALSE on local disk only
  MaxEdits,      \* bound: metadata edits (PATCH) of a row
  MaxRestarts    \* bound: restarts of the service

ASSUME AttachmentsAssumption ==
  /\ None \notin Digest
  /\ ContentOf \in [Upload -> Digest]
  /\ Replicated \in BOOLEAN
  /\ MaxEdits \in Nat /\ MaxRestarts \in Nat

VARIABLES
  row,       \* attachments: digest and revision of each row
  disk,      \* digests under {db-dir}/attachments/objects
  bucket,    \* digests in the bucket
  upload,    \* the request handler of each upload
  pass,      \* the start-up replication pass
  edits,     \* PATCHes made
  restarts,  \* restarts so far
  checked,   \* history: uploads whose reference check found no row
  raced      \* history: digests deleted after that check and wanted by then

vars == <<row, disk, bucket, upload, pass, edits, restarts, checked, raced>>

-----------------------------------------------------------------------------

\* Where a handler is: the await it has reached.
Stages == {"idle", "spooling", "inspected", "stored", "inspecting_bucket",
           "posting", "saving", "checking", "deleting", "deleting_remote",
           "done", "refused"}

\* A handler remembers the revision its client named and the digest it read.
NoUpload == [stage |-> "idle", target |-> None, expected |-> 0, previous |-> None]

\* The pass: digests still to copy, the one being copied, and whether any failed.
NewPass == [stage |-> "booting", todo |-> {}, current |-> None, failed |-> FALSE]

Referenced == {row[a].sha : a \in Attachment} \ {None}

\* The service starts on a notebook whose rows point at bytes the disk holds and
\* the bucket, just configured, does not.
Init ==
  /\ \E sha \in [Attachment -> Digest \cup {None}] :
       row = [a \in Attachment |-> [sha |-> sha[a], revision |-> 1]]
  /\ disk = Referenced /\ bucket = {}
  /\ upload = [u \in Upload |-> NoUpload]
  /\ pass = NewPass
  /\ edits = 0 /\ restarts = 0 /\ checked = {} /\ raced = {}

MoveTo(u, stage) == upload' = [upload EXCEPT ![u].stage = stage]

\* A row names these bytes, or an upload of the same content counts on finding them.
Wanted(d, u) ==
  \/ d \in Referenced
  \/ \E v \in Upload \ {u} :
       /\ ContentOf[v] = d
       /\ upload[v].stage \in {"stored", "inspecting_bucket", "saving"}

-----------------------------------------------------------------------------
(* attachments_put_content and ObjectStore::put.                           *)

\* The If-Match revision is the row's; the digest it has now is remembered and
\* the lock released.  (A stale revision is refused here and changes nothing.)
BeginUpload(u, a) ==
  /\ upload[u].stage = "idle"
  /\ upload' = [upload EXCEPT ![u] = [stage |-> "spooling", target |-> a,
                                      expected |-> row[a].revision,
                                      previous |-> row[a].sha]]
  /\ UNCHANGED <<row, disk, bucket, pass, edits, restarts, checked, raced>>

\* The body is spooled under a temporary name and hashed; when the disk holds its
\* digest already the temporary is removed, else it is about to be renamed.
Inspect(u) ==
  /\ upload[u].stage = "spooling"
  /\ MoveTo(u, IF ContentOf[u] \in disk THEN "stored" ELSE "inspected")
  /\ UNCHANGED <<row, disk, bucket, pass, edits, restarts, checked, raced>>

Rename(u) ==
  /\ upload[u].stage = "inspected"
  /\ disk' = disk \cup {ContentOf[u]}
  /\ MoveTo(u, "stored")
  /\ UNCHANGED <<row, bucket, pass, edits, restarts, checked, raced>>

\* Faulty: a spooled object is not copied to the bucket.
StoredLocally(u) ==
  /\ upload[u].stage = "stored"
  /\ MoveTo(u, "saving")
  /\ UNCHANGED <<row, disk, bucket, pass, edits, restarts, checked, raced>>

\* The disk adapter is done; the bucket adapter goes on to replicate().
Stored(u) ==
  /\ upload[u].stage = "stored"
  /\ MoveTo(u, IF Replicated THEN "inspecting_bucket" ELSE "saving")
  /\ UNCHANGED <<row, disk, bucket, pass, edits, restarts, checked, raced>>

\* replicate(): the bucket has it, or it is uploaded from the spooled file, which
\* must still be there to be opened.
InspectBucket(u) ==
  /\ upload[u].stage = "inspecting_bucket"
  /\ MoveTo(u, CASE ContentOf[u] \in bucket -> "saving"
                 [] ContentOf[u] \notin bucket /\ ContentOf[u] \in disk -> "posting"
                 [] OTHER -> "refused")
  /\ UNCHANGED <<row, disk, bucket, pass, edits, restarts, checked, raced>>

Post(u) ==
  /\ upload[u].stage = "posting"
  /\ bucket' = bucket \cup {ContentOf[u]}
  /\ MoveTo(u, "saving")
  /\ UNCHANGED <<row, disk, pass, edits, restarts, checked, raced>>

\* A body that breaks off, a disk or a bucket that refuses: the request fails, and
\* what was stored stays.
Refuse(u) ==
  /\ upload[u].stage \in {"spooling", "inspected", "inspecting_bucket", "posting"}
  /\ MoveTo(u, "refused")
  /\ UNCHANGED <<row, disk, bucket, pass, edits, restarts, checked, raced>>

\* The row is written, and the handler goes on by what it replaced.
Update(u, current, sha) ==
  LET a == upload[u].target
      replaced == upload[u].previous \notin {None, ContentOf[u]}
  IN  /\ row' = IF current
                  THEN [row EXCEPT ![a].sha = sha, ![a].revision = @ + 1]
                  ELSE row
      /\ MoveTo(u, CASE ~current -> "refused"
                     [] current /\ replaced -> "checking"
                     [] OTHER -> "done")

IsCurrent(u) == row[upload[u].target].revision = upload[u].expected

\* Faulty: the revision is not compared.
SaveUnconditionally(u) ==
  /\ upload[u].stage = "saving"
  /\ Update(u, TRUE, ContentOf[u])
  /\ UNCHANGED <<disk, bucket, pass, edits, restarts, checked, raced>>

\* UPDATE ... WHERE id=? AND revision=?: the row takes the new digest, or a write
\* in between makes the request stale.
Save(u) ==
  /\ upload[u].stage = "saving"
  /\ Update(u, IsCurrent(u), ContentOf[u])
  /\ UNCHANGED <<disk, bucket, pass, edits, restarts, checked, raced>>

\* Faulty: the bytes are collected without a look at the rows.
NeverReferenced(u) == FALSE

\* Under the lock again: does any row still name the replaced bytes?
StillReferenced(u) == upload[u].previous \in Referenced

CheckReferences(u) ==
  /\ upload[u].stage = "checking"
  /\ MoveTo(u, IF StillReferenced(u) THEN "done" ELSE "deleting")
  /\ checked' = IF upload[u].previous \in Referenced THEN checked ELSE checked \cup {u}
  /\ UNCHANGED <<row, disk, bucket, pass, edits, restarts, raced>>

\* Deleting these bytes now takes them from a row, or from an upload, that has come
\* to want them since the check.
Raced(u) ==
  raced \cup {d \in {upload[u].previous} : u \in checked /\ Wanted(d, u)}

\* ObjectStore::delete, without the lock: the disk first ...
DeleteLocal(u) ==
  /\ upload[u].stage = "deleting"
  /\ disk' = disk \ {upload[u].previous}
  /\ raced' = Raced(u)
  /\ MoveTo(u, IF Replicated THEN "deleting_remote" ELSE "done")
  /\ UNCHANGED <<row, bucket, pass, edits, restarts, checked>>

\* ... then the bucket.
DeleteRemote(u) ==
  /\ upload[u].stage = "deleting_remote"
  /\ bucket' = bucket \ {upload[u].previous}
  /\ raced' = Raced(u)
  /\ MoveTo(u, "done")
  /\ UNCHANGED <<row, disk, pass, edits, restarts, checked>>

\* A delete that fails is ignored.
DeleteFails(u) ==
  /\ upload[u].stage \in {"deleting", "deleting_remote"}
  /\ MoveTo(u, "done")
  /\ UNCHANGED <<row, disk, bucket, pass, edits, restarts, checked, raced>>

-----------------------------------------------------------------------------
(* Other writers of the row: attachments_patch, attachments_put_links.     *)

Edit(a) ==
  /\ edits < MaxEdits
  /\ edits' = edits + 1
  /\ row' = [row EXCEPT ![a].revision = @ + 1]
  /\ UNCHANGED <<disk, bucket, upload, pass, restarts, checked, raced>>

-----------------------------------------------------------------------------
(* spawn_attachment_replication and replicate_local_objects.               *)

PassScan ==
  /\ Replicated /\ pass.stage = "booting"
  /\ pass' = [pass EXCEPT !.stage = "copying", !.todo = disk]
  /\ UNCHANGED <<row, disk, bucket, upload, edits, restarts, checked, raced>>

\* One digest: already in the bucket, opened for posting, or gone from the disk.
PassInspect(d) ==
  /\ pass.stage = "copying" /\ d \in pass.todo
  /\ pass' = CASE d \in bucket -> [pass EXCEPT !.todo = @ \ {d}]
               [] d \notin bucket /\ d \in disk ->
                    [pass EXCEPT !.stage = "posting", !.current = d, !.todo = @ \ {d}]
               [] OTHER -> [pass EXCEPT !.todo = @ \ {d}, !.failed = TRUE]
  /\ UNCHANGED <<row, disk, bucket, upload, edits, restarts, checked, raced>>

\* Faulty: a failed copy is not counted.
PassPostUncounted ==
  /\ pass.stage = "posting"
  /\ bucket' \in {bucket, bucket \cup {pass.current}}
  /\ pass' = [pass EXCEPT !.stage = "copying", !.current = None]
  /\ UNCHANGED <<row, disk, upload, edits, restarts, checked, raced>>

\* A failed copy is counted and does not abandon the rest.
PassPost ==
  /\ pass.stage = "posting"
  /\ \E ok \in BOOLEAN :
       /\ bucket' = IF ok THEN bucket \cup {pass.current} ELSE bucket
       /\ pass' = [pass EXCEPT !.stage = "copying", !.current = None,
                               !.failed = @ \/ ~ok]
  /\ UNCHANGED <<row, disk, upload, edits, restarts, checked, raced>>

PassDone ==
  /\ pass.stage = "copying" /\ pass.todo = {}
  /\ pass' = [pass EXCEPT !.stage = "finished"]
  /\ UNCHANGED <<row, disk, bucket, upload, edits, restarts, checked, raced>>

-----------------------------------------------------------------------------
(* The process dies at any point; the database, the disk and the bucket    *)
(* stay as they are, and the pass runs on every start.                     *)

Abandoned ==
  [u \in Upload |-> IF upload[u].stage = "idle" THEN upload[u]
                    ELSE [upload[u] EXCEPT !.stage = IF @ = "done" THEN @ ELSE "refused"]]

Restart ==
  /\ restarts < MaxRestarts
  /\ restarts' = restarts + 1
  /\ upload' = Abandoned
  /\ pass' = NewPass
  /\ UNCHANGED <<row, disk, bucket, edits, checked, raced>>

\* The volume is lost after a pass that copied everything; the notebook comes
\* back from its own backup, the attachments from the bucket.
DiskLost ==
  /\ Replicated /\ pass.stage = "finished" /\ ~pass.failed
  /\ restarts < MaxRestarts
  /\ restarts' = restarts + 1
  /\ disk' = {}
  /\ upload' = Abandoned
  /\ pass' = NewPass
  /\ UNCHANGED <<row, bucket, edits, checked, raced>>

-----------------------------------------------------------------------------

Handler(u) ==
  \/ \E a \in Attachment : BeginUpload(u, a)
  \/ Inspect(u) \/ Rename(u) \/ Stored(u) \/ InspectBucket(u) \/ Post(u)
  \/ Refuse(u) \/ Save(u) \/ CheckReferences(u)
  \/ DeleteLocal(u) \/ DeleteRemote(u) \/ DeleteFails(u)

Next ==
  \/ \E u \in Upload : Handler(u)
  \/ \E a \in Attachment : Edit(a)
  \/ PassScan \/ (\E d \in Digest : PassInspect(d)) \/ PassPost \/ PassDone
  \/ Restart \/ DiskLost

Spec == Init /\ [][Next]_vars

-----------------------------------------------------------------------------
(* Properties.                                                             *)

TypeOK ==
  /\ row \in [Attachment -> [sha : Digest \cup {None}, revision : Nat]]
  /\ disk \subseteq Digest /\ bucket \subseteq Digest
  /\ checked \subseteq Upload /\ raced \subseteq Digest
  /\ upload \in [Upload -> [stage : Stages, target : Attachment \cup {None},
                            expected : Nat, previous : Digest \cup {None}]]
  /\ pass \in [stage : {"booting", "copying", "posting", "finished"},
               todo : SUBSET Digest, current : Digest \cup {None}, failed : BOOLEAN]
  /\ edits \in Nat /\ restarts \in Nat

\* Content a row names can be read back: attachments_get_content finds the bytes
\* on the disk or in the bucket.
Retrievable == Referenced \subseteq disk \cup bucket

\* The only way to lose bytes a row names is the window between the reference
\* check and the delete, in which another upload of the same content finds the
\* object still there.  No crash, failed request, edit or lost disk does it.
LostOnlyByRace == Referenced \ (disk \cup bucket) \subseteq raced

\* With a bucket, an upload that was accepted is in the bucket: what its row names
\* does not depend on the disk.
AcceptedIsReplicated ==
  Replicated =>
    \A u \in Upload :
      /\ upload[u].stage \in {"checking", "deleting", "deleting_remote", "done"}
      /\ row[upload[u].target].sha = ContentOf[u]
      => ContentOf[u] \in bucket \cup raced

\* A pass that copied everything leaves nothing on the disk alone, even with
\* uploads, deletes and edits running while it walks a listing taken earlier.
PassClosesGap ==
  pass.stage = "finished" /\ ~pass.failed => Referenced \subseteq bucket \cup raced

\* An upload collects exactly what it replaced: when it changes the row, the row
\* still names what the handler read before the body arrived.
CollectsWhatItReplaced ==
  [][\A u \in Upload :
       upload[u].stage = "saving" /\ upload'[u].stage \in {"checking", "done"}
         => row[upload[u].target].sha = upload[u].previous]_vars

=============================================================================
