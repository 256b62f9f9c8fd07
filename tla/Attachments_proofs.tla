-------------------------- MODULE Attachments_proofs --------------------------
(***************************************************************************)
(* Content that a row names is lost only by the race of a delete with an   *)
(* upload: for any rows, uploads and contents, with or without a bucket,   *)
(* and any number of edits and restarts.                                   *)
(***************************************************************************)
EXTENDS Attachments, TLAPS

Uploads == [stage : Stages, target : Attachment \cup {None}, expected : Nat,
            previous : Digest \cup {None}]
Passes == [stage : {"booting", "copying", "posting", "finished"}, todo : SUBSET Digest,
           current : Digest \cup {None}, failed : BOOLEAN]
RowRecords == [sha : Digest \cup {None}, revision : Nat]

\* An upload that has begun is for a row, whose revision has not gone back since, and
\* whose digest it remembers as long as the revision is the same.
Remembers ==
  \A u \in Upload : upload[u].stage # "idle" =>
    /\ upload[u].target \in Attachment
    /\ upload[u].expected <= row[upload[u].target].revision
    /\ upload[u].expected = row[upload[u].target].revision =>
         upload[u].previous = row[upload[u].target].sha

\* Contents that somebody counts on finding: a row, or an upload that has found them.
Counts(u) == upload[u].stage \in {"stored", "inspecting_bucket", "saving"}
Needed(d) == d \in Referenced \/ \E u \in Upload : ContentOf[u] = d /\ Counts(u)

\* An upload that is about to name its content knows that it is there.
Relies ==
  \A u \in Upload :
    /\ upload[u].stage = "stored" => ContentOf[u] \in disk \cup raced
    /\ upload[u].stage = "saving" =>
         /\ ContentOf[u] \in disk \cup bucket \cup raced
         /\ Replicated => ContentOf[u] \in bucket \cup raced

\* An upload that deletes has looked.
Looked == \A u \in Upload :
            upload[u].stage \in {"deleting", "deleting_remote"} => u \in checked

\* What the pass has not copied, it still has before it, unless a copy failed.
Covers ==
  /\ pass.stage # "booting" => Replicated
  /\ pass.stage = "posting" => pass.current \in Digest
  /\ pass.stage = "finished" => pass.todo = {}
  /\ pass.stage # "booting" /\ ~pass.failed =>
       \A d \in Referenced : \/ d \in bucket \cup raced \cup pass.todo
                             \/ pass.stage = "posting" /\ d = pass.current

Inv ==
  /\ TypeOK /\ Remembers /\ Relies /\ Looked /\ Covers
  /\ LostOnlyByRace /\ AcceptedIsReplicated

-----------------------------------------------------------------------------

\* The records that handlers and the pass keep.
LEMMA Records ==
  ASSUME Inv
  PROVE  /\ \A u \in Upload : upload[u] \in Uploads /\ ContentOf[u] \in Digest
         /\ \A a \in Attachment : row[a] \in RowRecords
         /\ pass \in Passes
  BY AttachmentsAssumption DEF Inv, TypeOK, Uploads, Passes, RowRecords

\* A row that names a content makes it referenced.
LEMMA Names ==
  ASSUME NEW a \in Attachment, row[a].sha # None
  PROVE  row[a].sha \in Referenced
  BY DEF Referenced

\* What is needed and there stays, where it was or as raced.
Preserves ==
  \A d \in Digest : Needed(d) =>
    /\ d \in disk \cup raced => d \in disk' \cup raced'
    /\ d \in bucket \cup raced => d \in bucket' \cup raced'

\* The sets keep their types, and the histories grow.
SetsOK ==
  /\ disk' \subseteq Digest /\ bucket' \subseteq Digest /\ raced' \subseteq Digest
  /\ checked' \subseteq Upload /\ checked \subseteq checked' /\ raced \subseteq raced'
  /\ edits' \in Nat /\ restarts' \in Nat

\* What is stored is taken from nobody who needs it, but for the race.
Grows == disk \subseteq disk' /\ bucket \subseteq bucket' /\ raced \subseteq raced'

\* A step that only adds takes nothing from anybody.
LEMMA GrowsPreserves ==
  ASSUME Grows
  PROVE  Preserves
  BY DEF Grows, Preserves

Accepted == {"checking", "deleting", "deleting_remote", "done"}

\* An upload moves on, and no row changes.
LEMMA Moved ==
  ASSUME Inv, NEW u \in Upload, NEW stage \in Stages, MoveTo(u, stage),
         UNCHANGED <<row, pass>>, Preserves, SetsOK,
         upload[u].stage # "idle", stage # "idle",
         stage = "stored" => ContentOf[u] \in disk' \cup raced',
         stage = "saving" => /\ ContentOf[u] \in disk' \cup bucket' \cup raced'
                             /\ Replicated => ContentOf[u] \in bucket' \cup raced',
         stage \in Accepted => upload[u].stage \in Accepted,
         stage \in {"deleting", "deleting_remote"} => u \in checked'
  PROVE  Inv'
<1>1. /\ upload' \in [Upload -> Uploads]
      /\ \A v \in Upload \ {u} : upload'[v] = upload[v]
      /\ upload'[u].stage = stage /\ upload'[u].target = upload[u].target
      /\ upload'[u].expected = upload[u].expected /\ upload'[u].previous = upload[u].previous
  <2> DEFINE q == [upload[u] EXCEPT !.stage = stage]
  <2>1. /\ q \in Uploads /\ q.stage = stage /\ q.target = upload[u].target
        /\ q.expected = upload[u].expected /\ q.previous = upload[u].previous
    BY Records DEF Uploads
  <2>2. upload' = [upload EXCEPT ![u] = q] /\ upload \in [Upload -> Uploads]
    BY DEF MoveTo, Inv, TypeOK, Uploads
  <2> HIDE DEF q
  <2> QED
    BY <2>1, <2>2
<1>2. TypeOK'
  BY <1>1 DEF Inv, TypeOK, SetsOK, Uploads
<1>3. Remembers'
  BY <1>1 DEF Inv, Remembers
<1>4. Referenced' = Referenced /\ \A d \in Referenced : d \in Digest /\ Needed(d)
  BY Records DEF Referenced, RowRecords, Needed
<1>5. Relies'
  <2>1. \A v \in Upload \ {u} : Counts(v) => Needed(ContentOf[v])
    BY DEF Needed
  <2> QED
    BY <1>1, <2>1, Records DEF Inv, Relies, Preserves, Counts
<1>6. Looked'
  BY <1>1 DEF Inv, Looked, SetsOK
<1>7. Covers'
  BY <1>4 DEF Inv, Covers, Preserves
<1>8. LostOnlyByRace'
  BY <1>4 DEF Inv, LostOnlyByRace, Preserves
<1>9. AcceptedIsReplicated'
  <2>1. SUFFICES ASSUME Replicated, NEW v \in Upload, upload'[v].stage \in Accepted,
                        row[upload[v].target].sha = ContentOf[v]
                 PROVE  ContentOf[v] \in bucket' \cup raced'
    BY <1>1 DEF AcceptedIsReplicated, Accepted
  <2>2. upload[v].stage \in Accepted /\ upload[v].target \in Attachment
    BY <1>1, <2>1 DEF Inv, Remembers, Accepted
  <2>3. ContentOf[v] \in Digest /\ ContentOf[v] \in bucket \cup raced
    BY <2>1, <2>2, Records DEF Inv, AcceptedIsReplicated, Accepted
  <2>4. ContentOf[v] \in Referenced
    BY <2>1, <2>2, <2>3, Names, AttachmentsAssumption
  <2> QED
    BY <1>4, <2>3, <2>4 DEF Preserves
<1> QED
  BY <1>2, <1>3, <1>5, <1>6, <1>7, <1>8, <1>9 DEF Inv

-----------------------------------------------------------------------------
(* The handler of an upload.                                               *)

\* A request for content is read and its row looked up: nothing is relied on yet.
LEMMA BeginUploadStep ==
  ASSUME Inv, NEW u \in Upload, NEW a \in Attachment, BeginUpload(u, a)
  PROVE  Inv'
<1> DEFINE q == [stage |-> "spooling", target |-> a, expected |-> row[a].revision,
                 previous |-> row[a].sha]
<1>1. q \in Uploads /\ row[a] \in RowRecords
  BY Records DEF Uploads, RowRecords, Stages
<1>2. upload' = [upload EXCEPT ![u] = q] /\ upload \in [Upload -> Uploads]
      /\ UNCHANGED <<row, disk, bucket, pass, edits, restarts, checked, raced>>
  BY DEF BeginUpload, Inv, TypeOK, Uploads
<1>3. q.stage = "spooling" /\ q.target = a /\ q.expected = row[a].revision
      /\ q.previous = row[a].sha
  OBVIOUS
<1> HIDE DEF q
<1>4. upload' \in [Upload -> Uploads] /\ upload'[u] = q
      /\ \A v \in Upload \ {u} : upload'[v] = upload[v]
  BY <1>1, <1>2
<1>5. TypeOK'
  BY <1>2, <1>4 DEF Inv, TypeOK, Uploads
<1>6. Remembers'
  BY <1>1, <1>2, <1>3, <1>4 DEF Inv, Remembers, RowRecords
<1>7. Relies' /\ Looked' /\ AcceptedIsReplicated'
  BY <1>2, <1>3, <1>4 DEF Inv, Relies, Looked, AcceptedIsReplicated
<1>8. Covers' /\ LostOnlyByRace'
  BY <1>2 DEF Inv, Covers, LostOnlyByRace, Referenced
<1> QED
  BY <1>5, <1>6, <1>7, <1>8 DEF Inv

\* Storing the content.
LEMMA StoringStep ==
  ASSUME Inv, NEW u \in Upload,
         Inspect(u) \/ Rename(u) \/ Stored(u) \/ InspectBucket(u) \/ Post(u) \/ Refuse(u)
  PROVE  Inv'
<1>1. ContentOf[u] \in Digest
  BY Records
<1>2. Grows /\ SetsOK /\ UNCHANGED <<row, pass>>
  BY <1>1 DEF Inv, TypeOK, Grows, SetsOK, Inspect, Rename, Stored, InspectBucket, Post, Refuse
<1>3. Preserves
  BY <1>2, GrowsPreserves
<1>4. CASE Inspect(u)
  <2>1. PICK stage \in {"stored", "inspected"} :
          MoveTo(u, stage) /\ (stage = "stored" => ContentOf[u] \in disk)
    BY <1>4 DEF Inspect
  <2> QED
    BY <1>2, <1>3, <1>4, <2>1, Moved DEF Inspect, Stages, Accepted
<1>5. CASE Rename(u)
  <2>1. MoveTo(u, "stored") /\ ContentOf[u] \in disk' /\ upload[u].stage = "inspected"
    BY <1>5 DEF Rename
  <2> QED
    BY <1>2, <1>3, <2>1, Moved DEF Stages, Accepted
<1>6. CASE Stored(u)
  <2>1. PICK stage \in {"saving", "inspecting_bucket"} :
          MoveTo(u, stage) /\ (stage = "saving" => ~Replicated)
    BY <1>6, AttachmentsAssumption DEF Stored
  <2>2. ContentOf[u] \in disk \cup raced /\ upload[u].stage = "stored" /\ UNCHANGED <<disk, raced>>
    BY <1>6 DEF Stored, Inv, Relies
  <2> QED
    BY <1>2, <1>3, <2>1, <2>2, Moved DEF Stages, Accepted
<1>7. CASE InspectBucket(u)
  <2>1. PICK stage \in {"saving", "posting", "refused"} :
          MoveTo(u, stage) /\ (stage = "saving" => ContentOf[u] \in bucket)
    BY <1>7 DEF InspectBucket
  <2>2. UNCHANGED bucket /\ upload[u].stage = "inspecting_bucket"
    BY <1>7 DEF InspectBucket
  <2> QED
    BY <1>2, <1>3, <2>1, <2>2, Moved DEF Stages, Accepted
<1>8. CASE Post(u)
  <2>1. MoveTo(u, "saving") /\ ContentOf[u] \in bucket' /\ upload[u].stage = "posting"
    BY <1>8 DEF Post
  <2> QED
    BY <1>2, <1>3, <2>1, Moved DEF Stages, Accepted
<1>9. CASE Refuse(u)
  <2>1. MoveTo(u, "refused") /\ upload[u].stage # "idle"
    BY <1>9 DEF Refuse
  <2> QED
    BY <1>2, <1>3, <2>1, Moved DEF Stages, Accepted
<1> QED
  BY <1>4, <1>5, <1>6, <1>7, <1>8, <1>9

\* The row names the new content.
LEMMA SavedStep ==
  ASSUME Inv, NEW u \in Upload, Save(u), IsCurrent(u)
  PROVE  Inv'
<1> DEFINE a == upload[u].target
           d == ContentOf[u]
           stage == IF upload[u].previous \notin {None, d} THEN "checking" ELSE "done"
<1>0. /\ upload[u].stage = "saving" /\ a \in Attachment /\ d \in Digest
      /\ UNCHANGED <<disk, bucket, pass, edits, restarts, checked, raced>>
  BY Records DEF Save, Inv, Remembers
<1>1. stage \in {"checking", "done"} /\ MoveTo(u, stage)
  BY DEF Save, Update
<1>2. /\ row' \in [Attachment -> RowRecords]
      /\ \A b \in Attachment \ {a} : row'[b] = row[b]
      /\ row'[a].sha = d /\ row'[a].revision = row[a].revision + 1 /\ row[a].revision \in Nat
  <2> DEFINE n == row[a].revision + 1
             q == [row[a] EXCEPT !.sha = d, !.revision = n]
  <2>1. n \in Nat /\ row[a] \in RowRecords /\ row \in [Attachment -> RowRecords]
    BY <1>0, Records DEF RowRecords, Inv, TypeOK
  <2>2. row' = [row EXCEPT ![a] = q]
    BY <1>0, <2>1 DEF Save, Update, RowRecords
  <2>3. q.revision = row[a].revision + 1 /\ row[a].revision \in Nat
    BY <2>1 DEF RowRecords
  <2> HIDE DEF n
  <2>4. q \in RowRecords /\ q.sha = d
    BY <1>0, <2>1 DEF RowRecords
  <2> HIDE DEF q
  <2> QED
    BY <1>0, <2>1, <2>2, <2>3, <2>4
<1>3. /\ upload' \in [Upload -> Uploads]
      /\ \A v \in Upload \ {u} : upload'[v] = upload[v]
      /\ upload'[u].stage = stage /\ upload'[u].target = a
      /\ upload'[u].expected = upload[u].expected
  <2> DEFINE q == [upload[u] EXCEPT !.stage = stage]
  <2> HIDE DEF stage
  <2>1. /\ q \in Uploads /\ q.stage = stage /\ q.target = a
        /\ q.expected = upload[u].expected
    BY <1>1, Records DEF Uploads, Stages
  <2>2. upload' = [upload EXCEPT ![u] = q] /\ upload \in [Upload -> Uploads]
    BY <1>1 DEF MoveTo, Inv, TypeOK, Uploads
  <2> HIDE DEF q
  <2> QED
    BY <2>1, <2>2
<1> HIDE DEF stage
<1>4. Referenced' \subseteq Referenced \cup {d}
  BY <1>2 DEF Referenced
<1>5. d \in disk \cup bucket \cup raced /\ (Replicated => d \in bucket \cup raced)
  BY <1>0 DEF Inv, Relies
<1>6. TypeOK'
  BY <1>0, <1>2, <1>3 DEF Inv, TypeOK, Uploads, RowRecords
<1>7. Remembers'
  <2>1. ASSUME NEW v \in Upload, upload'[v].stage # "idle"
        PROVE  /\ upload'[v].target \in Attachment
               /\ upload'[v].expected <= row'[upload'[v].target].revision
               /\ upload'[v].expected = row'[upload'[v].target].revision =>
                    upload'[v].previous = row'[upload'[v].target].sha
    <3>1. /\ upload[v].stage # "idle" /\ upload'[v].target = upload[v].target
          /\ upload'[v].expected = upload[v].expected /\ upload[v].expected \in Nat
      BY <1>0, <1>3, <2>1, Records DEF Uploads
    <3>2. CASE upload[v].target = a
      BY <1>0, <1>2, <3>1, <3>2 DEF Inv, Remembers
    <3>3. CASE upload[v].target # a
      <4>1. v # u /\ upload'[v] = upload[v]
        BY <1>3, <3>3
      <4> QED
        BY <1>2, <3>1, <3>3, <4>1 DEF Inv, Remembers
    <3> QED
      BY <3>2, <3>3
  <2> QED
    BY <2>1 DEF Remembers
<1>8. Relies' /\ Looked'
  BY <1>0, <1>1, <1>3 DEF Inv, Relies, Looked
<1>9. Covers' /\ LostOnlyByRace'
  BY <1>0, <1>4, <1>5 DEF Inv, Covers, LostOnlyByRace
<1>10. AcceptedIsReplicated'
  BY <1>0, <1>2, <1>3, <1>5 DEF Inv, AcceptedIsReplicated, Remembers
<1> QED
  BY <1>6, <1>7, <1>8, <1>9, <1>10 DEF Inv

\* Or it has become stale.
LEMMA StaleStep ==
  ASSUME Inv, NEW u \in Upload, Save(u), ~IsCurrent(u)
  PROVE  Inv'
<1>1. MoveTo(u, "refused") /\ UNCHANGED row /\ upload[u].stage = "saving"
  BY DEF Save, Update
<1>2. UNCHANGED <<disk, bucket, pass, edits, restarts, checked, raced>>
  BY DEF Save
<1>3. Preserves /\ SetsOK
  BY <1>2, GrowsPreserves DEF Grows, SetsOK, Inv, TypeOK
<1> QED
  BY <1>1, <1>2, <1>3, Moved DEF Stages, Accepted

\* After the reference check an upload is done, or deletes as one that has looked.
LEMMA CheckReferencesStep ==
  ASSUME Inv, NEW u \in Upload, CheckReferences(u)
  PROVE  Inv'
<1>1. PICK stage \in {"done", "deleting"} :
        MoveTo(u, stage) /\ (stage = "deleting" => u \in checked')
  BY DEF CheckReferences, StillReferenced
<1>2. UNCHANGED <<row, disk, bucket, pass, edits, restarts, raced>>
      /\ checked' \in {checked, checked \cup {u}} /\ upload[u].stage = "checking"
  BY DEF CheckReferences
<1>3. Preserves /\ SetsOK
  BY <1>2, GrowsPreserves DEF Grows, SetsOK, Inv, TypeOK
<1> QED
  BY <1>1, <1>2, <1>3, Moved DEF Stages, Accepted

\* What an upload deletes although it is needed has been raced for.
LEMMA DeletingStep ==
  ASSUME Inv, NEW u \in Upload, DeleteLocal(u) \/ DeleteRemote(u) \/ DeleteFails(u)
  PROVE  Inv'
<1>1. upload[u].stage \in {"deleting", "deleting_remote"} /\ u \in checked
      /\ UNCHANGED <<row, pass, edits, restarts, checked>>
  BY DEF DeleteLocal, DeleteRemote, DeleteFails, Inv, Looked
<1>2. PICK stage \in {"deleting_remote", "done"} : MoveTo(u, stage)
  BY DEF DeleteLocal, DeleteRemote, DeleteFails
<1> DEFINE d == upload[u].previous
<1>3. /\ disk \ {d} \subseteq disk' /\ bucket \ {d} \subseteq bucket'
      /\ disk' \subseteq disk /\ bucket' \subseteq bucket /\ raced \subseteq raced'
      /\ raced' = Raced(u) \/ UNCHANGED <<disk, bucket>>
      /\ raced' \in {raced, Raced(u)}
  BY DEF DeleteLocal, DeleteRemote, DeleteFails, Raced
<1>4. Needed(d) => Wanted(d, u)
  BY <1>1 DEF Needed, Wanted, Counts
<1>5. Wanted(d, u) => d \in Digest
  BY Records DEF Wanted, Referenced, RowRecords
<1>6. Raced(u) = IF Wanted(d, u) THEN raced \cup {d} ELSE raced
  BY <1>1 DEF Raced
<1>7. Preserves
  BY <1>3, <1>4, <1>6 DEF Preserves
<1>8. SetsOK
  BY <1>1, <1>3, <1>5, <1>6 DEF SetsOK, Inv, TypeOK
<1> QED
  BY <1>1, <1>2, <1>7, <1>8, Moved DEF Stages, Accepted

-----------------------------------------------------------------------------
(* The other steps.                                                        *)

\* An edit of the attachment's other fields raises the revision, so that no upload still counts
\* on the one it read.
LEMMA EditStep ==
  ASSUME Inv, NEW a \in Attachment, Edit(a)
  PROVE  Inv'
<1> DEFINE n == row[a].revision + 1
           q == [row[a] EXCEPT !.revision = n]
<1>1. n \in Nat /\ row[a] \in RowRecords /\ row \in [Attachment -> RowRecords]
      /\ n = row[a].revision + 1 /\ row[a].revision \in Nat
  BY Records DEF RowRecords, Inv, TypeOK
<1>2. row' = [row EXCEPT ![a] = q] /\ edits' = edits + 1
      /\ UNCHANGED <<disk, bucket, upload, pass, restarts, checked, raced>>
  BY <1>1 DEF Edit, RowRecords
<1> HIDE DEF n
<1>3. q \in RowRecords /\ q.sha = row[a].sha /\ q.revision = n
  BY <1>1 DEF RowRecords
<1> HIDE DEF q
<1>4. /\ row' \in [Attachment -> RowRecords]
      /\ \A b \in Attachment : row'[b].sha = row[b].sha
      /\ \A b \in Attachment \ {a} : row'[b] = row[b]
      /\ row'[a].revision = n
  BY <1>1, <1>2, <1>3
<1>5. TypeOK'
  BY <1>2, <1>4 DEF Inv, TypeOK, RowRecords
<1>6. Remembers'
  <2>1. \A u \in Upload : upload[u].expected \in Nat
    BY Records DEF Uploads
  <2> QED
    BY <1>1, <1>2, <1>4, <2>1 DEF Inv, Remembers
<1>7. Referenced' = Referenced
  BY <1>4 DEF Referenced
<1>8. Relies' /\ Looked' /\ Covers' /\ LostOnlyByRace'
  BY <1>2, <1>7 DEF Inv, Relies, Looked, Covers, LostOnlyByRace
<1>9. AcceptedIsReplicated'
  BY <1>2, <1>4 DEF Inv, AcceptedIsReplicated, Remembers
<1> QED
  BY <1>5, <1>6, <1>8, <1>9 DEF Inv

\* The replication pass.
LEMMA PassStep ==
  ASSUME Inv, PassScan \/ (\E d \in Digest : PassInspect(d)) \/ PassPost \/ PassDone
  PROVE  Inv'
<1>1. UNCHANGED <<row, disk, upload, edits, restarts, checked, raced>> /\ pass \in Passes
  BY Records DEF PassScan, PassInspect, PassPost, PassDone
<1>2. Referenced' = Referenced /\ Referenced \subseteq Digest
  BY <1>1, Records DEF Referenced, RowRecords
<1>3. bucket \subseteq bucket' /\ bucket' \subseteq Digest /\ pass' \in Passes /\ Covers'
  <2>1. CASE PassScan
    <3>1. pass' = [pass EXCEPT !.stage = "copying", !.todo = disk] /\ UNCHANGED bucket /\ Replicated
      BY <2>1 DEF PassScan
    <3>2. pass' \in Passes /\ pass'.stage = "copying" /\ pass'.todo = disk
      BY <1>1, <3>1 DEF Passes, Inv, TypeOK
    <3> QED
      BY <1>1, <1>2, <3>1, <3>2 DEF Covers, Inv, LostOnlyByRace, TypeOK
  <2>2. CASE \E d \in Digest : PassInspect(d)
    <3>1. PICK d \in Digest : PassInspect(d)
      BY <2>2
    <3>2. UNCHANGED bucket /\ pass.stage = "copying" /\ Replicated
      BY <3>1 DEF PassInspect, Inv, Covers
    <3> DEFINE rest == pass.todo \ {d}
    <3>3. rest \in SUBSET Digest /\ pass.todo \subseteq rest \cup {d}
      BY <1>1 DEF Passes
    <3>4. CASE d \in bucket
      <4>1. pass' = [pass EXCEPT !.todo = rest]
        BY <1>1, <3>1, <3>4 DEF PassInspect, Passes
      <4> HIDE DEF rest
      <4>2. pass' \in Passes /\ pass'.stage = "copying" /\ pass'.todo = rest
            /\ pass'.failed = pass.failed
        BY <1>1, <3>2, <3>3, <4>1 DEF Passes
      <4> QED
        BY <1>1, <1>2, <3>2, <3>3, <3>4, <4>2 DEF Covers, Inv, TypeOK
    <3>5. CASE d \notin bucket /\ d \in disk
      <4>1. pass' = [pass EXCEPT !.stage = "posting", !.current = d, !.todo = rest]
        BY <1>1, <3>1, <3>5 DEF PassInspect, Passes
      <4> HIDE DEF rest
      <4>2. pass' \in Passes /\ pass'.stage = "posting" /\ pass'.todo = rest
            /\ pass'.current = d /\ pass'.failed = pass.failed
        BY <1>1, <3>3, <4>1 DEF Passes
      <4> QED
        BY <1>1, <1>2, <3>2, <3>3, <4>2 DEF Covers, Inv, TypeOK
    <3>6. CASE d \notin bucket /\ d \notin disk
      <4>1. pass' = [pass EXCEPT !.todo = rest, !.failed = TRUE]
        BY <1>1, <3>1, <3>6 DEF PassInspect, Passes
      <4> HIDE DEF rest
      <4>2. pass' \in Passes /\ pass'.stage = "copying" /\ pass'.failed
        BY <1>1, <3>2, <3>3, <4>1 DEF Passes
      <4> QED
        BY <1>1, <3>2, <4>2 DEF Covers, Inv, TypeOK
    <3> QED
      BY <3>4, <3>5, <3>6
  <2>3. CASE PassPost
    <3>1. PICK ok \in BOOLEAN :
            /\ bucket' = IF ok THEN bucket \cup {pass.current} ELSE bucket
            /\ pass' = [pass EXCEPT !.stage = "copying", !.current = None,
                                    !.failed = @ \/ ~ok]
      BY <2>3 DEF PassPost
    <3>2. pass.stage = "posting" /\ pass.current \in Digest /\ Replicated
      BY <2>3 DEF PassPost, Inv, Covers
    <3>3. pass' \in Passes /\ pass'.stage = "copying" /\ pass'.todo = pass.todo
          /\ (~pass'.failed => ~pass.failed /\ ok)
      BY <1>1, <3>1 DEF Passes
    <3>4. bucket \subseteq bucket' /\ bucket' \subseteq Digest /\ (ok => pass.current \in bucket')
      BY <3>1, <3>2 DEF Inv, TypeOK
    <3> QED
      BY <1>1, <1>2, <3>2, <3>3, <3>4 DEF Covers, Inv
  <2>4. CASE PassDone
    <3>1. pass' = [pass EXCEPT !.stage = "finished"] /\ UNCHANGED bucket
          /\ pass.stage = "copying" /\ pass.todo = {} /\ Replicated
      BY <2>4 DEF PassDone, Inv, Covers
    <3>2. pass' \in Passes /\ pass'.stage = "finished" /\ pass'.todo = {}
          /\ pass'.failed = pass.failed
      BY <1>1, <3>1 DEF Passes
    <3> QED
      BY <1>1, <1>2, <3>1, <3>2 DEF Covers, Inv, TypeOK
  <2> QED
    BY <2>1, <2>2, <2>3, <2>4
<1>4. TypeOK' /\ Remembers' /\ Looked'
  BY <1>1, <1>3 DEF Inv, TypeOK, Remembers, Looked, Passes
<1>5. Relies' /\ LostOnlyByRace' /\ AcceptedIsReplicated'
  BY <1>1, <1>2, <1>3 DEF Inv, Relies, LostOnlyByRace, AcceptedIsReplicated
<1> QED
  BY <1>3, <1>4, <1>5 DEF Inv

\* A restart: handlers are abandoned, what they stored stays, or the disk is lost.
LEMMA RestartStep ==
  ASSUME Inv, Restart \/ DiskLost
  PROVE  Inv'
<1>1. /\ upload' = Abandoned /\ pass' = NewPass /\ restarts' = restarts + 1
      /\ UNCHANGED <<row, bucket, edits, checked, raced>>
      /\ disk' \in {disk, {}}
  BY DEF Restart, DiskLost
<1>2. Referenced' = Referenced /\ Referenced \subseteq disk' \cup bucket \cup raced
  <2>1. CASE Restart
    BY <2>1 DEF Restart, Inv, LostOnlyByRace, Referenced
  <2>2. CASE DiskLost
    BY <2>2 DEF DiskLost, Inv, Covers, Referenced
  <2> QED
    BY <2>1, <2>2
<1>3. \A u \in Upload :
        /\ upload'[u] \in Uploads
        /\ upload'[u].stage \in {"idle", "done", "refused"}
        /\ upload'[u].stage = "idle" <=> upload[u].stage = "idle"
        /\ upload'[u].stage = "done" => upload[u].stage = "done"
        /\ upload'[u].target = upload[u].target /\ upload'[u].expected = upload[u].expected
        /\ upload'[u].previous = upload[u].previous
  <2>1. ASSUME NEW u \in Upload, upload[u].stage = "idle"
        PROVE  upload'[u] = upload[u]
    BY <1>1, <2>1 DEF Abandoned
  <2>2. ASSUME NEW u \in Upload, upload[u].stage # "idle"
        PROVE  upload'[u] = [upload[u] EXCEPT
                  !.stage = IF upload[u].stage = "done" THEN "done" ELSE "refused"]
    BY <1>1, <2>2, Records DEF Abandoned, Uploads
  <2>3. ASSUME NEW u \in Upload, upload[u].stage # "idle"
        PROVE  /\ upload'[u] \in Uploads
               /\ upload'[u].stage = IF upload[u].stage = "done" THEN "done" ELSE "refused"
               /\ upload'[u].target = upload[u].target /\ upload'[u].expected = upload[u].expected
               /\ upload'[u].previous = upload[u].previous
    <3> DEFINE stage == IF upload[u].stage = "done" THEN "done" ELSE "refused"
    <3>1. stage \in {"done", "refused"} /\ upload[u] \in Uploads
      BY Records
    <3>2. upload'[u] = [upload[u] EXCEPT !.stage = stage]
      BY <2>2, <2>3
    <3> HIDE DEF stage
    <3>3. /\ upload'[u] \in Uploads /\ upload'[u].stage = stage
          /\ upload'[u].target = upload[u].target /\ upload'[u].expected = upload[u].expected
          /\ upload'[u].previous = upload[u].previous
      BY <3>1, <3>2 DEF Uploads, Stages
    <3> QED
      BY <3>3 DEF stage
  <2> QED
    BY <2>1, <2>3, Records
<1>4. upload' = [u \in Upload |-> upload'[u]]
  BY <1>1 DEF Abandoned
<1>5. TypeOK'
  <2>1. upload' \in [Upload -> Uploads]
    BY <1>3, <1>4
  <2>2. pass' \in Passes
    BY <1>1 DEF NewPass, Passes
  <2> QED
    BY <1>1, <2>1, <2>2 DEF Inv, TypeOK, Uploads, Passes
<1>6. Remembers' /\ Relies' /\ Looked' /\ AcceptedIsReplicated'
  BY <1>1, <1>3 DEF Inv, Remembers, Relies, Looked, AcceptedIsReplicated
<1>7. Covers' /\ LostOnlyByRace'
  BY <1>1, <1>2 DEF Covers, LostOnlyByRace, NewPass
<1> QED
  BY <1>5, <1>6, <1>7 DEF Inv

-----------------------------------------------------------------------------

\* At first every content that a row names is stored.
LEMMA InitInv ==
  ASSUME Init
  PROVE  Inv
<1>1. PICK sha \in [Attachment -> Digest \cup {None}] :
        row = [a \in Attachment |-> [sha |-> sha[a], revision |-> 1]]
  BY DEF Init
<1>2. row \in [Attachment -> RowRecords]
  BY <1>1 DEF RowRecords
<1>3. Referenced \subseteq Digest
  BY <1>2 DEF Referenced, RowRecords
<1>4. TypeOK
  BY <1>2, <1>3 DEF Init, TypeOK, RowRecords, NoUpload, NewPass, Stages
<1>5. Remembers /\ Relies /\ Looked /\ AcceptedIsReplicated
  BY DEF Init, Remembers, Relies, Looked, AcceptedIsReplicated, NoUpload
<1>6. Covers /\ LostOnlyByRace
  BY DEF Init, Covers, LostOnlyByRace, NewPass
<1> QED
  BY <1>4, <1>5, <1>6 DEF Inv

\* Every step of the handler of an upload preserves the invariant.
LEMMA HandlerStep ==
  ASSUME Inv, NEW u \in Upload, Handler(u)
  PROVE  Inv'
<1>1. CASE Save(u)
  BY <1>1, SavedStep, StaleStep
<1> QED
  BY <1>1, BeginUploadStep, StoringStep, CheckReferencesStep, DeletingStep DEF Handler

\* Every step of the system does.
LEMMA NextInv ==
  ASSUME Inv, [Next]_vars
  PROVE  Inv'
<1>1. CASE UNCHANGED vars
  BY <1>1 DEF vars, Inv, TypeOK, Remembers, Relies, Looked, Covers, LostOnlyByRace,
     AcceptedIsReplicated, Referenced
<1> QED
  BY <1>1, HandlerStep, EditStep, PassStep, RestartStep DEF Next

\* The invariant holds in every behaviour.
LEMMA Invariant == Spec => []Inv
<1>1. Init => Inv
  BY InitInv
<1>2. Inv /\ [Next]_vars => Inv'
  BY NextInv
<1> QED
  BY <1>1, <1>2, PTL DEF Spec

\* Rows, stores, handlers and the pass keep their types.
THEOREM TypeCorrect == Spec => []TypeOK
<1>1. Inv => TypeOK
  BY DEF Inv
<1> QED
  BY <1>1, Invariant, PTL

\* Content that a row names is lost only by the race between the reference check of
\* attachments_put_content and its delete, and another upload: by no crash, failed
\* request, edit, lost disk or order of steps.
THEOREM LossIsRace == Spec => []LostOnlyByRace
<1>1. Inv => LostOnlyByRace
  BY DEF Inv
<1> QED
  BY <1>1, Invariant, PTL

\* With a bucket, what an accepted upload's row names is in the bucket, but for the race.
THEOREM AcceptedHasCopy == Spec => []AcceptedIsReplicated
<1>1. Inv => AcceptedIsReplicated
  BY DEF Inv
<1> QED
  BY <1>1, Invariant, PTL

\* A replication pass without a failed copy leaves nothing that only the disk has,
\* although uploads, deletes and edits run while it walks an old listing.
THEOREM PassLeavesNothing == Spec => []PassClosesGap
<1>1. Inv => PassClosesGap
  BY DEF Inv, Covers, PassClosesGap
<1> QED
  BY <1>1, Invariant, PTL

\* When an upload changes its row, the row names what the handler read before the body
\* arrived: it is that content, and no other, that it may collect.
THEOREM CollectsReplaced == Spec => CollectsWhatItReplaced
<1> DEFINE Collects == \A u \in Upload :
             upload[u].stage = "saving" /\ upload'[u].stage \in {"checking", "done"}
               => row[upload[u].target].sha = upload[u].previous
<1>1. Inv /\ [Next]_vars => Collects
  <2>1. SUFFICES ASSUME Inv, [Next]_vars, NEW u \in Upload, upload[u].stage = "saving",
                        upload'[u].stage \in {"checking", "done"}
                 PROVE  row[upload[u].target].sha = upload[u].previous
    OBVIOUS
  <2>2. upload \in [Upload -> Uploads]
    BY <2>1 DEF Inv, TypeOK, Uploads
  <2>3. CASE \E v \in Upload : Handler(v)
    <3>1. PICK v \in Upload : Handler(v)
      BY <2>3
    <3>2. v # u => upload'[u] = upload[u]
      BY <3>1, <2>2 DEF Handler, BeginUpload, Inspect, Rename, Stored, InspectBucket, Post,
         Refuse, Save, Update, CheckReferences, DeleteLocal, DeleteRemote, DeleteFails, MoveTo
    <3>3. v = u /\ Save(u)
      BY <2>1, <3>1, <3>2 DEF Handler, BeginUpload, Inspect, Rename, Stored, InspectBucket,
         Post, Refuse, CheckReferences, DeleteLocal, DeleteRemote, DeleteFails
    <3>4. ~IsCurrent(u) => upload'[u].stage = "refused"
      BY <2>2, <3>3 DEF Save, Update, MoveTo
    <3> QED
      BY <2>1, <3>4 DEF IsCurrent, Inv, Remembers
  <2>4. CASE Restart \/ DiskLost
    <3>1. upload' = Abandoned
      BY <2>4 DEF Restart, DiskLost
    <3> QED
      BY <2>1, <2>2, <3>1 DEF Abandoned, Uploads
  <2>5. CASE UNCHANGED upload
    BY <2>1, <2>5
  <2> QED
    BY <2>1, <2>3, <2>4, <2>5
    DEF Next, Edit, PassScan, PassInspect, PassPost, PassDone, vars
<1> QED
  BY <1>1, Invariant, PTL DEF Spec, CollectsWhatItReplaced

=============================================================================
