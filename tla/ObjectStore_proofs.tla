------------------------- MODULE ObjectStore_proofs -------------------------
(***************************************************************************)
(* Theorems about ObjectStore and, with crashes inside its operations,     *)
(* ObjectStoreCrash, for every value of their constants.                   *)
(*                                                                         *)
(*   TypeCorrect        every reachable state is well typed                *)
(*   FilesSafe          no file that a row points at is released, by       *)
(*                      FilesInv                                           *)
(*   RowsSafe           rows and version ids are unique, by RowsInv        *)
(*   PutsOrdered        puts of a key are published in ticket order        *)
(*   VersionsKept       only a version delete releases versioned bytes,    *)
(*                      without copies and DeleteObjects                   *)
(*   MarkersOnlyUnhide  deleting a latest delete marker replaces nothing   *)
(*                                                                         *)
(* and, while a bucket's setting never changes,                            *)
(*                                                                         *)
(*   HistoryWhole            the versions of a key are reachable, and one  *)
(*                           id names one of them                          *)
(*   RecordedFilesAccounted  no file whose id was recorded is lost         *)
(*   LifecycleImplemented    every step is a step of FileLifecycle, or none*)
(*   DeletionsPromote        deleting a version promotes the newest left   *)
(*                                                                         *)
(* and, where versioning was switched on before,                           *)
(*                                                                         *)
(*   VersionsStayReachable   a version is behind a row or a latest marker, *)
(*                           also when the process dies inside a delete    *)
(*                                                                         *)
(* For each invariant there is a lemma per action (or per group of actions *)
(* that disturb the same variables), then one for Next, then the theorem.  *)
(* DeletionsPromote is for puts only: copies draw their version ids        *)
(* without waiting for their turn, so an id says nothing of the time.      *)
(***************************************************************************)
EXTENDS ObjectStoreCrash, WellFoundedInduction, TLAPS

USE StoreAssumption DEF Request

LEMMA InitTyped == Init => TypeOK
  BY DEF Init, TypeOK, Mode, StagingStatus, DriveState, PC

LEMMA RowFields ==
  ASSUME TypeOK, NEW k
  PROVE  /\ RowAt(k) \subseteq objects
         /\ \A r \in RowAt(k) : r \in ObjectRow /\ r.key = k
  BY DEF RowAt, TypeOK

\* The row a put publishes is a row of the objects table.
LEMMA PublishedTyped ==
  ASSUME TypeOK, NEW u \in Upload
  PROVE  PublishedRow(u) \in ObjectRow
<1>1. Target[u] \in Key
  OBVIOUS
<1>2. RowAt(Target[u]) # {} => (CHOOSE r \in RowAt(Target[u]) : TRUE) \in RowAt(Target[u])
  OBVIOUS
<1>3. (CHOOSE r \in RowAt(Target[u]) : TRUE).id \in Nat \/ RowAt(Target[u]) = {}
  BY <1>2, RowFields DEF ObjectRow
<1> QED
  BY <1>1, <1>3 DEF PublishedRow, TypeOK, ObjectRow, NullVersion, ObjectStatus

\* ArchivedRow, and clearing the latest flag, keep the shape of rows.
LEMMA ArchiveTyped ==
  ASSUME NEW r \in ObjectRow
  PROVE  Archive(r) \subseteq VersionRow
  BY DEF Archive, ArchivedRow, ObjectRow, VersionRow

LEMMA ClearLatestTyped ==
  ASSUME NEW ms \in SUBSET MarkerRow, NEW k
  PROVE  ClearLatest(ms, k) \in SUBSET MarkerRow
<1>1. \A m \in MarkerRow : [m EXCEPT !.latest = FALSE] \in MarkerRow
  BY DEF MarkerRow
<1> QED
  BY <1>1 DEF ClearLatest

LEMMA CommitTyped ==
  ASSUME TypeOK, NEW u \in Upload, Commit(u)
  PROVE  TypeOK'
<1> DEFINE k == Target[u]
           archived == {r \in RowAt(k) : ArchivesPrevious(r, modeAt[u])}
           replaced == QueuesReplaced(RowAt(k), modeAt[u])
<1>1. objects' \subseteq ObjectRow
  BY PublishedTyped DEF Commit, TypeOK
<1>2. versions' \subseteq VersionRow
  <2>1. \A r \in archived : Archive(r) \subseteq VersionRow
    BY RowFields, ArchiveTyped
  <2> QED
    BY <2>1 DEF Commit, TypeOK
<1>3. markers' \subseteq MarkerRow
  BY ClearLatestTyped DEF Commit, TypeOK
<1>4. replaced \subseteq Upload
  BY RowFields DEF QueuesReplaced, ObjectRow
<1>5. cleanup' \subseteq Upload /\ draining' \in [Request -> SUBSET Upload]
  BY <1>4 DEF Commit, TypeOK
<1>6. pc' \in [Request -> PC] /\ staging' \in [Upload -> StagingStatus]
  BY DEF Commit, TypeOK, PC, StagingStatus
<1> QED
  BY <1>1, <1>2, <1>3, <1>5, <1>6 DEF Commit, TypeOK, bounds

LEMMA UploadStepTyped ==
  ASSUME TypeOK, NEW u \in Upload, UploadStep(u)
  PROVE  TypeOK'
<1> USE DEF db, memory, bounds
<1>1. CASE BeginUpload(u)
  BY <1>1 DEF TypeOK, BeginUpload, CommitMode, PC, Mode
<1>2. CASE Grant(u)
  BY <1>2 DEF TypeOK, Grant, PC
<1>3. CASE GiveUp(u)
  BY <1>3 DEF TypeOK, GiveUp, PC
<1>4. CASE Stage(u)
  BY <1>4 DEF TypeOK, Stage, PC, StagingStatus
<1>5. CASE DriveCreates(u)
  BY <1>5 DEF TypeOK, DriveCreates, PC, DriveState
<1>6. CASE UploadFails(u)
  BY <1>6 DEF TypeOK, UploadFails, PC, StagingStatus
<1>7. CASE Reject(u)
  BY <1>7 DEF TypeOK, Reject, PC, StagingStatus, RejectQueues
<1>8. CASE Commit(u)
  BY <1>8, CommitTyped
<1> QED
  BY <1>1, <1>2, <1>3, <1>4, <1>5, <1>6, <1>7, <1>8 DEF UploadStep

LEMMA DeleteStepTyped ==
  ASSUME TypeOK, NEW d \in Deleter, DeleteStep(d)
  PROVE  TypeOK'
<1> USE DEF db, memory, bounds
<1>1. ActiveAt(Target[d]) \in SUBSET ObjectRow
  BY RowFields DEF ActiveAt, TypeOK
<1>2. CASE Authorize(d)
  BY <1>1, <1>2 DEF TypeOK, Authorize, PC
<1>3. CASE ReadForBulk(d)
  BY <1>1, <1>3 DEF TypeOK, ReadForBulk, PC
<1>4. CASE DeleteRefused(d)
  BY <1>4 DEF TypeOK, DeleteRefused, PC
<1>5. CASE PerformDelete(d)
  <2>1. PICK r \in StillCurrent(d) :
           IF modeAt[d] = "Disabled" THEN DeleteUnversioned(d, r) ELSE DeleteVersioned(d, r)
    BY <1>5 DEF PerformDelete
  <2>2. r \in objects /\ r \in ObjectRow
    BY RowFields DEF StillCurrent, ActiveAt
  <2>3. seen' \in [Deleter -> SUBSET ObjectRow]
    BY <1>5 DEF PerformDelete, TypeOK
  <2>4. CASE modeAt[d] = "Disabled"
    BY <1>5, <2>1, <2>2, <2>3, <2>4 DEF TypeOK, PerformDelete, DeleteUnversioned, PC, ObjectRow
  <2>5. CASE modeAt[d] # "Disabled"
    <3>1. DeleteVersioned(d, r)
      BY <2>1, <2>5
    <3>2. versions' \subseteq VersionRow
      BY <3>1, <2>2, ArchiveTyped DEF DeleteVersioned, WithoutNull, TypeOK
    <3>3. markers' \subseteq MarkerRow
      <4>1. ClearLatest(markers, r.key) \subseteq MarkerRow
        BY ClearLatestTyped DEF TypeOK
      <4>2. r.key \in Key /\ clock \in Nat /\ NullVersion \in Nat
        BY <2>2 DEF ObjectRow, TypeOK, NullVersion
      <4>3. ASSUME NEW ver \in Nat
            PROVE  [key |-> r.key, ver |-> ver, latest |-> TRUE] \in MarkerRow
        BY <4>2 DEF MarkerRow
      <4> QED
        BY <3>1, <4>1, <4>2, <4>3 DEF DeleteVersioned, WithoutNull
    <3>4. /\ objects' \subseteq ObjectRow
          /\ cleanup' \subseteq Upload
          /\ draining' \in [Request -> SUBSET Upload]
          /\ pc' \in [Request -> PC]
          /\ clock' \in Nat
      BY <3>1, <2>2 DEF DeleteVersioned, WithoutNull, TypeOK, PC, ObjectRow
    <3> QED
      BY <1>5, <2>3, <3>2, <3>3, <3>4 DEF PerformDelete, TypeOK
  <2> QED
    BY <2>4, <2>5
<1> QED
  BY <1>2, <1>3, <1>4, <1>5 DEF DeleteStep

LEMMA DrainStepTyped ==
  ASSUME TypeOK, NEW p \in Request, DrainStep(p)
  PROVE  TypeOK'
  BY DEF TypeOK, DrainStep, DrainRemoves, DrainCompletes, DrainFails, Remove,
         PC, DriveState, db, memory, bounds

\* Promotion moves one row between the two tables.
LEMMA PromoteTyped ==
  ASSUME TypeOK, NEW k, NEW existing \in SUBSET RowAt(k),
         NEW rows \in SUBSET versions, NEW ms \in SUBSET markers,
         Promote(k, existing, rows, ms)
  PROVE  /\ objects' \subseteq ObjectRow
         /\ versions' \subseteq VersionRow
         /\ markers' \subseteq MarkerRow
<1> DEFINE newest == NewestVersion({r \in rows : r.key = k})
<1>1. newest \subseteq VersionRow
  BY DEF NewestVersion, TypeOK
<1>2. existing \subseteq ObjectRow
  BY RowFields
<1>3. ASSUME NEW n \in newest
      PROVE  PromotedRow(n, existing) \in ObjectRow
  <2>1. existing # {} => (CHOOSE e \in existing : TRUE) \in existing
    OBVIOUS
  <2>2. (IF existing = {} THEN clock ELSE (CHOOSE e \in existing : TRUE).id) \in Nat
    BY <1>2, <2>1 DEF TypeOK, ObjectRow
  <2>3. n \in VersionRow
    BY <1>1
  <2> QED
    BY <2>2, <2>3 DEF PromotedRow, TypeOK, ObjectRow, VersionRow, ObjectStatus
<1>4. objects' \subseteq ObjectRow
  BY <1>2, <1>3 DEF Promote, TypeOK
<1>5. versions' \subseteq VersionRow
  BY DEF Promote, TypeOK
<1>6. markers' \subseteq MarkerRow
  BY ClearLatestTyped DEF Promote, TypeOK
<1> QED
  BY <1>4, <1>5, <1>6

LEMMA AdminStepTyped ==
  ASSUME TypeOK, AdminStep
  PROVE  TypeOK'
<1>1. CASE DeleteObjectVersion
  <2>1. /\ objects' \subseteq ObjectRow
        /\ versions' \subseteq VersionRow
        /\ markers' \subseteq MarkerRow
        /\ cleanup' \subseteq Upload
    <3>1. CASE \E r \in objects : DeleteCurrentVersion(r)
      <4>1. PICK r \in objects : DeleteCurrentVersion(r)
        BY <3>1
      <4>2. cleanup' \subseteq Upload
        BY <4>1 DEF DeleteCurrentVersion, TypeOK, ObjectRow
      <4>3. Promote(r.key, {}, versions, markers) /\ {} \in SUBSET RowAt(r.key)
        BY <4>1 DEF DeleteCurrentVersion
      <4> QED
        BY <4>2, <4>3, PromoteTyped
    <3>2. CASE \E r \in versions : DeleteArchivedVersion(r)
      BY <3>2 DEF DeleteArchivedVersion, Releases, TypeOK, VersionRow
    <3>3. CASE \E m \in markers : DeleteMarker(m)
      <4>1. PICK m \in markers : DeleteMarker(m)
        BY <3>3
      <4>2. cleanup' \subseteq Upload
        BY <4>1 DEF DeleteMarker, TypeOK
      <4>3. Promote(m.key, RowAt(m.key), versions, markers \ {m})
        BY <4>1 DEF DeleteMarker
      <4>4. markers \ {m} \in SUBSET markers
        OBVIOUS
      <4> HIDE StoreAssumption
      <4> QED
        BY <4>2, <4>3, <4>4, PromoteTyped
    <3> QED
      BY <1>1, <3>1, <3>2, <3>3 DEF DeleteObjectVersion
  <2> QED
    BY <1>1, <2>1 DEF TypeOK, DeleteObjectVersion, Event, memory
<1>2. ASSUME NEW m \in Modes, PutBucketVersioning(m)
      PROVE  TypeOK'
  BY <1>2 DEF TypeOK, PutBucketVersioning, Event, memory
<1> QED
  BY <1>1, <1>2 DEF AdminStep

LEMMA InspectStepTyped ==
  ASSUME TypeOK, InspectStep
  PROVE  TypeOK'
<1> USE DEF db, memory, bounds
<1>1. ASSUME NEW id, NEW status \in ObjectStatus
      PROVE  MarkStatus(id, status) \subseteq ObjectRow
  BY DEF MarkStatus, TypeOK, ObjectRow
<1>2. ASSUME NEW f \in Upload, Touch(f)
      PROVE  TypeOK'
  BY <1>2 DEF TypeOK, Touch, DriveState
<1>3. ASSUME NEW k \in Key, LookUp(k)
      PROVE  TypeOK'
  BY <1>3, RowFields DEF TypeOK, LookUp, Event
<1>4. ASSUME NEW r \in looked, Reconcile(r)
      PROVE  TypeOK'
  <2>1. HeadStatus(r.file) \in ObjectStatus
    BY DEF HeadStatus, ObjectStatus
  <2> QED
    BY <1>1, <1>4, <2>1 DEF TypeOK, Reconcile
<1>5. ASSUME NEW r \in looked, DownloadNotFound(r)
      PROVE  TypeOK'
  <2>1. "missing" \in ObjectStatus
    BY DEF ObjectStatus
  <2> QED
    BY <1>1, <1>5, <2>1 DEF TypeOK, DownloadNotFound
<1> QED
  BY <1>2, <1>3, <1>4, <1>5 DEF InspectStep

LEMMA WorkerStepTyped ==
  ASSUME TypeOK, WorkerStep
  PROVE  TypeOK'
  BY DEF TypeOK, WorkerStep, WorkerFetch, WorkerRemoves, WorkerCompletes, WorkerRetries,
         Remove, DriveState, db, memory, bounds

LEMMA RestartTyped ==
  ASSUME TypeOK, NEW S \in SUBSET Unfinished, NEW W \in SUBSET Upload, Restart(S, W)
  PROVE  TypeOK'
<1>1. S \subseteq Upload
  BY DEF Unfinished
<1>2. staging' \in [Upload -> StagingStatus]
  <2>1. \A u \in Upload : RecoveredStatus(u, recorded \cup W) \in StagingStatus
    BY DEF RecoveredStatus, StagingStatus
  <2> QED
    BY <2>1 DEF Restart, TypeOK, StagingStatus
<1>3. cleanup' \subseteq Upload
  BY <1>1 DEF Restart, OrphansOf, TypeOK
<1>4. /\ pc' \in [Request -> PC] /\ seen' \in [Deleter -> SUBSET ObjectRow]
      /\ draining' \in [Request -> SUBSET Upload]
  BY DEF Restart, LoseMemory, TypeOK, PC
<1>5. /\ batch' = {} /\ erasing' = {} /\ looked' = {}
      /\ modeAt' \in [Request -> Mode] /\ ticket' \in [Upload -> Nat]
      /\ recorded' \subseteq Upload /\ restarts' \in Nat
  BY DEF Restart, LoseMemory, TypeOK
<1>6. /\ mode' \in Mode /\ objects' \subseteq ObjectRow /\ versions' \subseteq VersionRow
      /\ markers' \subseteq MarkerRow /\ clock' \in Nat
      /\ drive' \in [Upload -> DriveState] /\ touches' \in Nat /\ events' \in Nat
  BY DEF Restart, TypeOK
<1> QED
  BY <1>2, <1>3, <1>4, <1>5, <1>6 DEF TypeOK

LEMMA NextTyped == TypeOK /\ [Next]_vars => TypeOK'
<1> SUFFICES ASSUME TypeOK, [Next]_vars PROVE TypeOK'
  OBVIOUS
<1>1. CASE UNCHANGED vars
  BY <1>1 DEF TypeOK, vars, db, memory, bounds
<1> QED
  BY <1>1, UploadStepTyped, DeleteStepTyped, DrainStepTyped, AdminStepTyped,
     InspectStepTyped, WorkerStepTyped, RestartTyped DEF Next

\* Every step keeps the shape of the tables and of the process's memory.
THEOREM TypeCorrect == Spec => []TypeOK
  BY InitTyped, NextTyped, PTL DEF Spec

-----------------------------------------------------------------------------
(***************************************************************************)
(* Files.  FilesInv is inductive relative to TypeOK.  FilesFrame reduces   *)
(* every action to five facts: which rows point where, which removals are  *)
(* new, and which uploads are still unpublished.                           *)
(***************************************************************************)

LEMMA InitFiles == Init => FilesInv
  BY DEF Init, FilesInv, LiveFileSafe, NoSharedFile, UnpublishedUntouched, Unpublished,
         StagingFollowsHandler, Referenced, BeingRemoved

\* No new removal, no newly referenced file but one that was unpublished, and
\* only files being removed are newly gone.
FilesMoveOn ==
  /\ \A f \in Upload : Referenced(f)' => (Referenced(f) \/ f \in Unpublished \ Unpublished')
  /\ \A f \in Upload : BeingRemoved(f)' =>
        (BeingRemoved(f) \/ (~Referenced(f)' /\ f \notin Unpublished'))
  /\ \A f \in Upload : drive'[f] = "gone" => (drive[f] = "gone" \/ BeingRemoved(f))
  /\ Unpublished' \subseteq Unpublished

LEMMA FilesFrame ==
  ASSUME FilesInv, FilesMoveOn, NoSharedFile', StagingFollowsHandler'
  PROVE  FilesInv'
<1> USE DEF FilesInv, FilesMoveOn
<1>1. \A f \in Upload : Referenced(f)' => f \notin Unpublished'
  BY DEF UnpublishedUntouched
<1>2. ASSUME NEW f \in Upload, Referenced(f)'
      PROVE  ~BeingRemoved(f)' /\ drive'[f] # "gone"
  <2>1. ~BeingRemoved(f) /\ drive[f] # "gone"
    BY <1>2 DEF LiveFileSafe, UnpublishedUntouched
  <2> QED
    BY <1>2, <2>1
<1>3. ASSUME NEW u \in Unpublished'
      PROVE  ~Referenced(u)' /\ ~BeingRemoved(u)' /\ drive'[u] # "gone"
  <2>1. u \in Unpublished /\ u \in Upload
    BY DEF Unpublished
  <2>2. ~BeingRemoved(u) /\ drive[u] # "gone"
    BY <2>1 DEF UnpublishedUntouched
  <2> QED
    BY <1>1, <2>1, <2>2
<1> QED
  BY <1>2, <1>3 DEF LiveFileSafe, UnpublishedUntouched

\* The frame for a step that leaves the rows and the staging table alone.
LEMMA FilesFrameQuiet ==
  ASSUME TypeOK, FilesInv, UNCHANGED <<objects, versions, staging>>,
         \A f \in Upload : BeingRemoved(f)' => BeingRemoved(f),
         \A f \in Upload : drive'[f] = "gone" => (drive[f] = "gone" \/ BeingRemoved(f)),
         StagingFollowsHandler'
  PROVE  FilesInv'
<1>1. FilesMoveOn
  <2>1. \A f \in Upload : Referenced(f)' => Referenced(f)
    BY DEF Referenced
  <2>2. Unpublished' = Unpublished
    BY DEF Unpublished
  <2> QED
    BY <2>1, <2>2 DEF FilesMoveOn
<1>2. NoSharedFile'
  BY DEF FilesInv, NoSharedFile
<1> QED
  BY <1>1, <1>2, FilesFrame

\* Steps of an upload before it publishes, or that end it.
LEMMA UploadQuietFiles ==
  ASSUME TypeOK, FilesInv, NEW u \in Upload,
         BeginUpload(u) \/ Grant(u) \/ GiveUp(u) \/ DriveCreates(u)
  PROVE  FilesInv'
<1>1. UNCHANGED <<objects, versions, staging>>
  BY DEF BeginUpload, Grant, GiveUp, DriveCreates, db
<1>2. \A f \in Upload : BeingRemoved(f)' => BeingRemoved(f)
  BY DEF BeginUpload, Grant, GiveUp, DriveCreates, db, BeingRemoved
<1>3. \A f \in Upload : drive'[f] = "gone" => (drive[f] = "gone" \/ BeingRemoved(f))
  BY DEF BeginUpload, Grant, GiveUp, DriveCreates, TypeOK
<1>4. StagingFollowsHandler'
  BY DEF BeginUpload, Grant, GiveUp, DriveCreates, db, TypeOK, FilesInv, StagingFollowsHandler
<1> QED
  BY <1>1, <1>2, <1>3, <1>4, FilesFrameQuiet

LEMMA StageFiles ==
  ASSUME TypeOK, FilesInv, NEW u \in Upload, Stage(u)
  PROVE  FilesInv'
<1>1. \A f \in Upload : (Referenced(f)' <=> Referenced(f)) /\ (BeingRemoved(f)' <=> BeingRemoved(f))
  BY DEF Stage, Referenced, BeingRemoved
<1>2. drive' = drive
  BY DEF Stage
<1>3. Unpublished' \subseteq Unpublished
  BY DEF Stage, Unpublished, TypeOK, FilesInv, StagingFollowsHandler
<1>4. FilesMoveOn
  BY <1>1, <1>2, <1>3 DEF FilesMoveOn
<1>5. NoSharedFile'
  BY DEF Stage, FilesInv, NoSharedFile
<1>6. StagingFollowsHandler'
  BY DEF Stage, TypeOK, FilesInv, StagingFollowsHandler
<1> QED
  BY <1>4, <1>5, <1>6, FilesFrame

\* A failed upload gives up its claim in the same stretch that queues its file.
LEMMA FailedUploadFiles ==
  ASSUME TypeOK, FilesInv, NEW u \in Upload, UploadFails(u) \/ Reject(u)
  PROVE  FilesInv'
<1>1. u \in Unpublished
  BY DEF UploadFails, Reject, FilesInv, StagingFollowsHandler, Unpublished
<1>2. \A f \in Upload : Referenced(f)' => Referenced(f)
  BY DEF UploadFails, Reject, Referenced
<1>3. ~Referenced(u)
  BY <1>1 DEF FilesInv, UnpublishedUntouched
<1>4. Unpublished' \subseteq Unpublished /\ u \notin Unpublished'
  BY DEF UploadFails, Reject, Unpublished, TypeOK
<1>5. \A f \in Upload : BeingRemoved(f)' => (BeingRemoved(f) \/ f = u)
  BY DEF UploadFails, Reject, RejectQueues, BeingRemoved
<1>6. drive' = drive
  BY DEF UploadFails, Reject
<1>7. FilesMoveOn
  BY <1>2, <1>3, <1>4, <1>5, <1>6 DEF FilesMoveOn
<1>8. NoSharedFile'
  BY DEF UploadFails, Reject, FilesInv, NoSharedFile
<1>9. StagingFollowsHandler'
  BY DEF UploadFails, Reject, TypeOK, FilesInv, StagingFollowsHandler
<1> QED
  BY <1>7, <1>8, <1>9, FilesFrame

\* The transaction of a commit: the new file was nobody's, an archived row
\* takes its file along, and a file that is queued loses its only row.
LEMMA CommitFiles ==
  ASSUME TypeOK, FilesInv, NEW u \in Upload, Commit(u)
  PROVE  FilesInv'
<1> DEFINE k == Target[u]
           archived == {r \in RowAt(k) : ArchivesPrevious(r, modeAt[u])}
           replaced == QueuesReplaced(RowAt(k), modeAt[u])
           kept == UNION {Archive(r) : r \in archived}
<1>1. u \in Unpublished /\ ~Referenced(u) /\ ~BeingRemoved(u)
  BY DEF Commit, FilesInv, StagingFollowsHandler, Unpublished, UnpublishedUntouched
<1>2. /\ objects' = (objects \ RowAt(k)) \cup {PublishedRow(u)}
      /\ versions' = versions \cup kept
      /\ PublishedRow(u).file = u
  BY DEF Commit, PublishedRow
<1>3. \A v \in kept : \E r \in archived : v.file = r.file
  BY DEF Archive, ArchivedRow
<1>4. \A v, w \in kept : v.file = w.file => v = w
  BY DEF Archive, ArchivedRow, RowAt, FilesInv, NoSharedFile
<1>5. RowAt(k) \subseteq objects /\ archived \subseteq RowAt(k)
  BY DEF RowAt
<1>6. \A r \in objects \cup versions : r.file # u
  BY <1>1 DEF Referenced
<1>7. NoSharedFile'
  <2>1. \A r, s \in objects' : r.file = s.file => r = s
    BY <1>2, <1>6 DEF FilesInv, NoSharedFile
  <2>2. \A r, s \in versions' : r.file = s.file => r = s
    BY <1>2, <1>3, <1>4, <1>5 DEF FilesInv, NoSharedFile
  <2>3. \A r \in objects', s \in versions' : r.file # s.file
    BY <1>2, <1>3, <1>5, <1>6 DEF FilesInv, NoSharedFile
  <2> QED
    BY <2>1, <2>2, <2>3 DEF NoSharedFile
<1>8. \A f \in Upload : Referenced(f)' => (Referenced(f) \/ f = u)
  BY <1>2, <1>3, <1>5 DEF Referenced
<1>9. Unpublished' = Unpublished \ {u}
  BY DEF Commit, Unpublished, TypeOK
<1>10. \A f \in replaced : \E r \in RowAt(k) : f = r.file /\ r \notin archived
  BY DEF QueuesReplaced
<1>11. \A f \in replaced : ~Referenced(f)' /\ Referenced(f)
  BY <1>2, <1>3, <1>5, <1>6, <1>10 DEF Referenced, FilesInv, NoSharedFile
<1>12. \A f \in Upload : BeingRemoved(f)' => (BeingRemoved(f) \/ f \in replaced)
  BY DEF Commit, BeingRemoved, TypeOK
<1>13. replaced \cap Unpublished = {}
  BY <1>11 DEF FilesInv, UnpublishedUntouched
<1>14. drive' = drive
  BY DEF Commit
<1>15. FilesMoveOn
  BY <1>1, <1>8, <1>9, <1>11, <1>12, <1>13, <1>14 DEF FilesMoveOn
<1>16. StagingFollowsHandler'
  BY DEF Commit, TypeOK, FilesInv, StagingFollowsHandler
<1> QED
  BY <1>7, <1>15, <1>16, FilesFrame

\* A delete drops the key's row; its file is archived with it or queued, and
\* never both.
LEMMA PerformDeleteFiles ==
  ASSUME TypeOK, FilesInv, NEW d \in Deleter, PerformDelete(d)
  PROVE  FilesInv'
<1>1. PICK r \in StillCurrent(d) :
         IF modeAt[d] = "Disabled" THEN DeleteUnversioned(d, r) ELSE DeleteVersioned(d, r)
  BY DEF PerformDelete
<1>2. r \in objects /\ objects' = objects \ {r} /\ r.file \in Upload
  BY <1>1 DEF StillCurrent, ActiveAt, RowAt, DeleteUnversioned, DeleteVersioned, WithoutNull, TypeOK, ObjectRow
<1>3. drive' = drive /\ staging' = staging /\ batch' = batch
  BY DEF PerformDelete
<1>4. Referenced(r.file) /\ r.file \notin Unpublished
  BY <1>2 DEF Referenced, FilesInv, UnpublishedUntouched
<1>5. StagingFollowsHandler'
  BY <1>1, <1>3 DEF DeleteUnversioned, DeleteVersioned, WithoutNull, TypeOK, FilesInv, StagingFollowsHandler
<1>6. CASE /\ versions' \subseteq versions
           /\ cleanup' = cleanup \cup {r.file}
           /\ draining' = [draining EXCEPT ![d] = {r.file}]
  <2>1. NoSharedFile'
    BY <1>2, <1>6 DEF FilesInv, NoSharedFile
  <2>2. ~Referenced(r.file)'
    BY <1>2, <1>6 DEF FilesInv, NoSharedFile, Referenced
  <2>3. \A f \in Upload : Referenced(f)' => Referenced(f)
    BY <1>2, <1>6 DEF Referenced
  <2>4. \A f \in Upload : BeingRemoved(f)' => (BeingRemoved(f) \/ f = r.file)
    BY <1>3, <1>6 DEF BeingRemoved, TypeOK
  <2>5. FilesMoveOn
    BY <1>3, <1>4, <2>2, <2>3, <2>4 DEF FilesMoveOn, Unpublished
  <2> QED
    BY <1>5, <2>1, <2>5, FilesFrame
<1>7. CASE /\ versions' \subseteq versions \cup Archive(r)
           /\ cleanup' = cleanup
           /\ draining' = [draining EXCEPT ![d] = {}]
  <2>1. \A v \in Archive(r) : v.file = r.file
    BY DEF Archive, ArchivedRow
  <2>2. \A v, w \in Archive(r) : v = w
    BY DEF Archive
  <2>3. NoSharedFile'
    BY <1>2, <1>7, <2>1, <2>2 DEF FilesInv, NoSharedFile
  <2>4. \A f \in Upload : Referenced(f)' => Referenced(f)
    BY <1>2, <1>7, <2>1 DEF Referenced
  <2>5. \A f \in Upload : BeingRemoved(f)' => BeingRemoved(f)
    BY <1>3, <1>7 DEF BeingRemoved, TypeOK
  <2>6. FilesMoveOn
    BY <1>3, <2>4, <2>5 DEF FilesMoveOn, Unpublished
  <2> QED
    BY <1>5, <2>3, <2>6, FilesFrame
<1>8. CASE modeAt[d] = "Disabled"
  BY <1>1, <1>6, <1>8 DEF DeleteUnversioned
<1>9. CASE modeAt[d] # "Disabled"
  <2>1. DeleteVersioned(d, r)
    BY <1>1, <1>9
  <2>2. versions' \subseteq versions \cup (IF ArchivesPrevious(r, modeAt[d]) THEN Archive(r) ELSE {})
    BY <2>1 DEF DeleteVersioned, WithoutNull
  <2> QED
    BY <1>6, <1>7, <2>1, <2>2 DEF DeleteVersioned, WithoutNull
<1> QED
  BY <1>8, <1>9

LEMMA DeleteStepFiles ==
  ASSUME TypeOK, FilesInv, NEW d \in Deleter, DeleteStep(d)
  PROVE  FilesInv'
<1>1. CASE Authorize(d) \/ ReadForBulk(d) \/ DeleteRefused(d)
  <2>1. UNCHANGED <<objects, versions, staging, drive>>
    BY <1>1 DEF Authorize, ReadForBulk, DeleteRefused, db
  <2>2. \A f \in Upload : BeingRemoved(f)' => BeingRemoved(f)
    BY <1>1 DEF Authorize, ReadForBulk, DeleteRefused, db, BeingRemoved
  <2>3. StagingFollowsHandler'
    BY <1>1 DEF Authorize, ReadForBulk, DeleteRefused, db, TypeOK, FilesInv, StagingFollowsHandler
  <2> QED
    BY <2>1, <2>2, <2>3, FilesFrameQuiet
<1> QED
  BY <1>1, PerformDeleteFiles DEF DeleteStep

LEMMA DrainStepFiles ==
  ASSUME TypeOK, FilesInv, NEW p \in Request, DrainStep(p)
  PROVE  FilesInv'
<1> USE DEF DrainStep, DrainRemoves, DrainCompletes, DrainFails
<1>1. UNCHANGED <<objects, versions, staging>>
  BY DEF db
<1>2. \A f \in Upload : BeingRemoved(f)' => BeingRemoved(f)
  BY DEF db, BeingRemoved, TypeOK
<1>3. \A f \in Upload : drive'[f] = "gone" => (drive[f] = "gone" \/ BeingRemoved(f))
  BY DEF Remove, BeingRemoved, TypeOK
<1>4. StagingFollowsHandler'
  BY DEF db, TypeOK, FilesInv, StagingFollowsHandler
<1> QED
  BY <1>1, <1>2, <1>3, <1>4, FilesFrameQuiet

\* Promotion moves one file from an archived row to a current row.
LEMMA PromoteFiles ==
  ASSUME TypeOK, FilesInv, NEW k, NEW existing \in SUBSET RowAt(k),
         NEW ms, Promote(k, existing, versions, ms)
  PROVE  /\ NoSharedFile'
         /\ \A f \in Upload : Referenced(f)' => Referenced(f)
         /\ \A o \in objects' : \/ o \in objects \ (RowAt(k) \ existing)
                                \/ \E v \in versions : o.file = v.file
         /\ versions' \subseteq versions
<1> DEFINE newest == NewestVersion({r \in versions : r.key = k})
           promoted == {PromotedRow(n, existing) : n \in newest}
<1>1. newest \subseteq versions
  BY DEF NewestVersion
<1>2. \A n \in newest : PromotedRow(n, existing).file = n.file
  BY DEF PromotedRow
<1>3. versions' = versions \ newest
  BY DEF Promote
<1>4. CASE newest = {}
  <2>1. objects' = (objects \ RowAt(k)) \cup existing
    BY <1>4 DEF Promote
  <2>2. objects' \subseteq objects /\ objects' \subseteq objects \ (RowAt(k) \ existing)
    BY <2>1 DEF RowAt
  <2> QED
    BY <1>3, <2>2 DEF FilesInv, NoSharedFile, Referenced
<1>5. CASE newest # {}
  <2>1. objects' = (objects \ RowAt(k)) \cup promoted
    BY <1>5 DEF Promote
  <2>2. \A o \in promoted : \E n \in newest : o = PromotedRow(n, existing) /\ o.file = n.file
    BY <1>2
  <2>3. NoSharedFile'
    <3>1. \A r, s \in objects' : r.file = s.file => r = s
      <4>1. ASSUME NEW r \in promoted, NEW s \in promoted, r.file = s.file
            PROVE  r = s
        <5>1. PICK n \in newest : r = PromotedRow(n, existing) /\ r.file = n.file
          BY <2>2
        <5>2. PICK m \in newest : s = PromotedRow(m, existing) /\ s.file = m.file
          BY <2>2
        <5>3. n = m
          BY <1>1, <4>1, <5>1, <5>2 DEF FilesInv, NoSharedFile
        <5> QED
          BY <5>1, <5>2, <5>3
      <4>2. \A r \in objects, s \in promoted : r.file # s.file
        BY <1>1, <2>2 DEF FilesInv, NoSharedFile
      <4>3. \A r \in objects' : r \in objects \/ r \in promoted
        BY <2>1
      <4> HIDE DEF promoted, newest
      <4> QED
        BY <4>1, <4>2, <4>3 DEF FilesInv, NoSharedFile
    <3>2. \A r, s \in versions' : r.file = s.file => r = s
      BY <1>3 DEF FilesInv, NoSharedFile
    <3>3. \A r \in objects', s \in versions' : r.file # s.file
      BY <1>1, <1>3, <2>1, <2>2 DEF FilesInv, NoSharedFile
    <3> QED
      BY <3>1, <3>2, <3>3 DEF NoSharedFile
  <2>4. \A o \in objects' : \/ o \in objects \ (RowAt(k) \ existing)
                            \/ \E v \in versions : o.file = v.file
    BY <1>1, <2>1, <2>2
  <2> QED
    BY <1>3, <2>3, <2>4 DEF Referenced
<1> QED
  BY <1>4, <1>5

LEMMA AdminStepFiles ==
  ASSUME TypeOK, FilesInv, AdminStep
  PROVE  FilesInv'
<1>1. /\ staging' = staging /\ drive' = drive /\ pc' = pc
      /\ batch' = batch /\ draining' = draining
  BY DEF AdminStep, DeleteObjectVersion, PutBucketVersioning, memory
<1>2. StagingFollowsHandler'
  BY <1>1 DEF FilesInv, StagingFollowsHandler
<1>3. ASSUME NEW r \in objects \cup versions, cleanup' = cleanup \cup {r.file}, NoSharedFile',
             \A f \in Upload : Referenced(f)' => Referenced(f), ~Referenced(r.file)'
      PROVE  FilesInv'
  <2>1. Referenced(r.file)
    BY DEF Referenced
  <2>2. r.file \notin Unpublished
    BY <2>1 DEF FilesInv, UnpublishedUntouched
  <2>3. \A f \in Upload : BeingRemoved(f)' => (BeingRemoved(f) \/ f = r.file)
    BY <1>1, <1>3 DEF BeingRemoved
  <2>4. FilesMoveOn
    BY <1>1, <1>3, <2>2, <2>3 DEF FilesMoveOn, Unpublished
  <2> QED
    BY <1>2, <1>3, <2>4, FilesFrame
<1>4. ASSUME cleanup' = cleanup, NoSharedFile',
             \A f \in Upload : Referenced(f)' => Referenced(f)
      PROVE  FilesInv'
  <2>1. \A f \in Upload : BeingRemoved(f)' => BeingRemoved(f)
    BY <1>1, <1>4 DEF BeingRemoved
  <2>2. FilesMoveOn
    BY <1>1, <1>4, <2>1 DEF FilesMoveOn, Unpublished
  <2> QED
    BY <1>2, <1>4, <2>2, FilesFrame
<1>5. ASSUME NEW r \in objects, DeleteCurrentVersion(r)
      PROVE  FilesInv'
  <2>1. Promote(r.key, {}, versions, markers) /\ cleanup' = cleanup \cup {r.file}
    BY <1>5 DEF DeleteCurrentVersion
  <2>2. /\ NoSharedFile'
        /\ \A f \in Upload : Referenced(f)' => Referenced(f)
        /\ \A o \in objects' : \/ o \in objects \ RowAt(r.key)
                               \/ \E v \in versions : o.file = v.file
        /\ versions' \subseteq versions
    <3>1. {} \in SUBSET RowAt(r.key) /\ RowAt(r.key) \ {} = RowAt(r.key)
      OBVIOUS
    <3>2. /\ NoSharedFile'
          /\ \A f \in Upload : Referenced(f)' => Referenced(f)
          /\ \A o \in objects' : \/ o \in objects \ (RowAt(r.key) \ {})
                                 \/ \E v \in versions : o.file = v.file
          /\ versions' \subseteq versions
      BY <2>1, <3>1, PromoteFiles
    <3> QED
      BY <3>1, <3>2
  <2>3. r \in RowAt(r.key)
    BY DEF RowAt
  <2>4. ~Referenced(r.file)'
    BY <2>2, <2>3 DEF Referenced, FilesInv, NoSharedFile
  <2> QED
    BY <1>3, <2>1, <2>2, <2>4
<1>6. ASSUME NEW r \in versions, DeleteArchivedVersion(r)
      PROVE  FilesInv'
  <2>1. /\ versions' = versions \ {r} /\ objects' = objects
        /\ cleanup' = cleanup \cup {r.file}
    BY <1>6 DEF DeleteArchivedVersion, Releases
  <2>2. NoSharedFile' /\ ~Referenced(r.file)'
    BY <2>1 DEF Referenced, FilesInv, NoSharedFile
  <2>3. \A f \in Upload : Referenced(f)' => Referenced(f)
    BY <2>1 DEF Referenced
  <2> QED
    BY <1>3, <2>1, <2>2, <2>3
<1>7. ASSUME NEW m \in markers, DeleteMarker(m)
      PROVE  FilesInv'
  <2>1. Promote(m.key, RowAt(m.key), versions, markers \ {m}) /\ cleanup' = cleanup
    BY <1>7 DEF DeleteMarker
  <2>2. NoSharedFile' /\ \A f \in Upload : Referenced(f)' => Referenced(f)
    BY <2>1, PromoteFiles
  <2> QED
    BY <1>4, <2>1, <2>2
<1>8. ASSUME NEW m \in Modes, PutBucketVersioning(m)
      PROVE  FilesInv'
  <2>1. UNCHANGED <<objects, versions, cleanup>>
    BY <1>8 DEF PutBucketVersioning
  <2> QED
    BY <1>4, <2>1 DEF Referenced, FilesInv, NoSharedFile
<1> QED
  BY <1>5, <1>6, <1>7, <1>8 DEF AdminStep, DeleteObjectVersion

\* The owner's changes and status marks touch no file id.
LEMMA InspectStepFiles ==
  ASSUME TypeOK, FilesInv, InspectStep
  PROVE  FilesInv'
<1>1. /\ UNCHANGED <<versions, staging, cleanup, batch, draining, pc>>
      /\ \A f \in Upload : drive'[f] = "gone" => drive[f] = "gone"
  BY DEF InspectStep, Touch, LookUp, Reconcile, DownloadNotFound, db, memory, TypeOK
<1>2. ASSUME NEW id, NEW status, objects' = MarkStatus(id, status)
      PROVE  /\ \A o \in objects' : \E r \in objects : o.file = r.file
             /\ \A o, p \in objects' : o.file = p.file => o = p
  <2>1. \A r \in objects : [r EXCEPT !.status = status].file = r.file
    BY DEF TypeOK, ObjectRow
  <2>2. \A o \in objects' : \E r \in objects :
           /\ o = IF r.id = id THEN [r EXCEPT !.status = status] ELSE r
           /\ o.file = r.file
    BY <1>2, <2>1 DEF MarkStatus
  <2> QED
    BY <2>2 DEF FilesInv, NoSharedFile
<1>3. /\ \A o \in objects' : \E r \in objects : o.file = r.file
      /\ \A o, p \in objects' : o.file = p.file => o = p
  <2>1. CASE objects' = objects
    BY <2>1 DEF FilesInv, NoSharedFile
  <2> QED
    BY <1>2, <2>1 DEF InspectStep, Touch, LookUp, Reconcile, DownloadNotFound, db
<1>4. NoSharedFile'
  BY <1>1, <1>3 DEF FilesInv, NoSharedFile
<1>5. \A f \in Upload : Referenced(f)' => Referenced(f)
  BY <1>1, <1>3 DEF Referenced
<1>6. \A f \in Upload : BeingRemoved(f)' => BeingRemoved(f)
  BY <1>1 DEF BeingRemoved
<1>7. FilesMoveOn
  BY <1>1, <1>5, <1>6 DEF FilesMoveOn, Unpublished
<1>8. StagingFollowsHandler'
  BY <1>1 DEF FilesInv, StagingFollowsHandler
<1> QED
  BY <1>4, <1>7, <1>8, FilesFrame

LEMMA WorkerStepFiles ==
  ASSUME TypeOK, FilesInv, WorkerStep
  PROVE  FilesInv'
<1> USE DEF WorkerStep, WorkerFetch, WorkerRemoves, WorkerCompletes, WorkerRetries
<1>1. UNCHANGED <<objects, versions, staging, pc>>
  BY DEF db
<1>2. \A f \in Upload : BeingRemoved(f)' => BeingRemoved(f)
  BY DEF db, BeingRemoved
<1>3. \A f \in Upload : drive'[f] = "gone" => (drive[f] = "gone" \/ BeingRemoved(f))
  BY DEF Remove, BeingRemoved, TypeOK
<1>4. StagingFollowsHandler'
  BY <1>1 DEF FilesInv, StagingFollowsHandler
<1> QED
  BY <1>1, <1>2, <1>3, <1>4, FilesFrameQuiet

\* Recovery queues only files of staging rows it closes, which no row points at.
LEMMA RestartFiles ==
  ASSUME TypeOK, FilesInv, NEW S \in SUBSET Unfinished, NEW W \in SUBSET Upload, Restart(S, W)
  PROVE  FilesInv'
<1>1. S \subseteq Unpublished
  BY DEF Unfinished, Unpublished
<1>2. W \subseteq Unpublished
  BY DEF Restart, FilesInv, StagingFollowsHandler, Unpublished
<1>3. UNCHANGED <<objects, versions, drive>>
  BY DEF Restart
<1>4. Unpublished' = Unpublished \ S
  <2>1. \A u \in S : staging'[u] \in {"committed", "failed"}
    BY DEF Restart, TypeOK, RecoveredStatus, Unfinished
  <2>2. \A u \in Upload \ S : staging'[u] = IF u \in W THEN "uploaded" ELSE staging[u]
    BY DEF Restart, TypeOK
  <2> QED
    BY <1>1, <1>2, <2>1, <2>2 DEF Unpublished
<1>5. \A f \in Upload : BeingRemoved(f)' => (BeingRemoved(f) \/ f \in S)
  BY DEF Restart, LoseMemory, OrphansOf, BeingRemoved
<1>6. \A f \in Upload : Referenced(f)' <=> Referenced(f)
  BY <1>3 DEF Referenced
<1>7. \A f \in S : ~Referenced(f)
  BY <1>1 DEF FilesInv, UnpublishedUntouched
<1>8. FilesMoveOn
  BY <1>3, <1>4, <1>5, <1>6, <1>7 DEF FilesMoveOn
<1>9. NoSharedFile'
  BY <1>3 DEF FilesInv, NoSharedFile
<1>10. StagingFollowsHandler'
  <2>1. ASSUME NEW u \in Upload
        PROVE  /\ pc'[u] \in {"idle", "done"}
               /\ pc'[u] = "idle" => pc[u] = "idle"
    BY DEF Restart, LoseMemory
  <2>2. \A u \in Upload : pc[u] = "idle" => u \notin S /\ u \notin W /\ staging[u] = "none"
    BY DEF Restart, FilesInv, StagingFollowsHandler, Unfinished
  <2>3. \A u \in Upload : u \notin S /\ u \notin W => staging'[u] = staging[u]
    BY DEF Restart, TypeOK
  <2> QED
    BY <2>1, <2>2, <2>3 DEF StagingFollowsHandler
<1> QED
  BY <1>8, <1>9, <1>10, FilesFrame

LEMMA FilesStep == TypeOK /\ FilesInv /\ [Next]_vars => FilesInv'
<1> SUFFICES ASSUME TypeOK, FilesInv, [Next]_vars PROVE FilesInv'
  OBVIOUS
<1>1. CASE UNCHANGED vars
  BY <1>1 DEF vars, db, memory, FilesInv, LiveFileSafe, NoSharedFile, UnpublishedUntouched,
              StagingFollowsHandler, Referenced, BeingRemoved, Unpublished
<1>2. ASSUME NEW u \in Upload, UploadStep(u) PROVE FilesInv'
  BY <1>2, UploadQuietFiles, StageFiles, FailedUploadFiles, CommitFiles DEF UploadStep
<1> QED
  BY <1>1, <1>2, DeleteStepFiles, DrainStepFiles, AdminStepFiles, InspectStepFiles,
     WorkerStepFiles, RestartFiles DEF Next

\* Whatever interleaves, a file some row points at is neither queued for
\* removal nor being removed nor gone, and no two rows share a file.
THEOREM FilesSafe == Spec => [](LiveFileSafe /\ NoSharedFile)
<1>1. Spec => []FilesInv
  BY InitFiles, FilesStep, TypeCorrect, PTL DEF Spec
<1>2. FilesInv => LiveFileSafe /\ NoSharedFile
  BY DEF FilesInv
<1> QED
  BY <1>1, <1>2, PTL

-----------------------------------------------------------------------------
(***************************************************************************)
(* Rows.  RowsInv is inductive relative to TypeOK: ids are drawn from a    *)
(* clock that is past every id in use.                                     *)
(***************************************************************************)

LEMMA InitRows == Init => RowsInv
  BY DEF Init, RowsInv, RowsUnique, IdsPast

\* Clearing the latest flag keeps each marker's key and id.
LEMMA ClearLatestKeys ==
  ASSUME NEW ms \in SUBSET MarkerRow, NEW k
  PROVE  \A m \in ClearLatest(ms, k) : \E n \in ms :
            /\ m.key = n.key /\ m.ver = n.ver
            /\ m = n \/ (n.key = k /\ m = [n EXCEPT !.latest = FALSE])
  BY DEF ClearLatest, MarkerRow

LEMMA ClearLatestUnique ==
  ASSUME NEW ms \in SUBSET MarkerRow, NEW k,
         \A r, s \in ms : r.key = s.key /\ r.ver = s.ver => r = s
  PROVE  \A r, s \in ClearLatest(ms, k) : r.key = s.key /\ r.ver = s.ver => r = s
<1> SUFFICES ASSUME NEW r \in ClearLatest(ms, k), NEW s \in ClearLatest(ms, k),
                    r.key = s.key, r.ver = s.ver
             PROVE  r = s
  OBVIOUS
<1>1. PICK m \in ms : /\ r.key = m.key /\ r.ver = m.ver
                      /\ r = m \/ (m.key = k /\ r = [m EXCEPT !.latest = FALSE])
  BY ClearLatestKeys
<1>2. PICK n \in ms : /\ s.key = n.key /\ s.ver = n.ver
                      /\ s = n \/ (n.key = k /\ s = [n EXCEPT !.latest = FALSE])
  BY ClearLatestKeys
<1>3. m = n
  BY <1>1, <1>2
<1>4. r.key # k => r = m
  BY <1>1
<1>5. r.key = k => r = [m EXCEPT !.latest = FALSE]
  BY <1>1 DEF ClearLatest
<1>6. s.key = k => s = [n EXCEPT !.latest = FALSE]
  BY <1>2 DEF ClearLatest
<1> QED
  BY <1>1, <1>2, <1>3, <1>4, <1>5, <1>6

\* A step that leaves the tables alone and moves the clock and tickets on.
LEMMA RowsFrame ==
  ASSUME TypeOK, RowsInv, UNCHANGED <<objects, versions, markers>>,
         clock' \in Nat, clock' >= clock, \A u \in Upload : ticket'[u] < clock'
  PROVE  RowsInv'
<1>1. \A r \in objects \cup versions \cup markers : r.ver \in Nat
  BY DEF TypeOK, ObjectRow, VersionRow, MarkerRow
<1> QED
  BY <1>1 DEF RowsInv, RowsUnique, IdsPast, TypeOK

LEMMA CommitRows ==
  ASSUME TypeOK, RowsInv, NEW u \in Upload, Commit(u)
  PROVE  RowsInv'
<1> DEFINE k == Target[u]
           archived == {r \in RowAt(k) : ArchivesPrevious(r, modeAt[u])}
           kept == UNION {Archive(r) : r \in archived}
<1> USE DEF RowsInv
<1>1. /\ objects' = (objects \ RowAt(k)) \cup {PublishedRow(u)}
      /\ versions' = versions \cup kept
      /\ markers' = ClearLatest(markers, k)
      /\ clock' = clock + 1 /\ ticket' = ticket
  BY DEF Commit
<1>2. PublishedRow(u).key = k /\ PublishedRow(u).ver \in Nat /\ PublishedRow(u).ver < clock
  BY DEF PublishedRow, TypeOK, IdsPast, NullVersion
<1>3. \A r, s \in objects' : r.key = s.key => r = s
  BY <1>1, <1>2 DEF RowAt, RowsUnique
<1>4. \A v \in kept : \E r \in objects :
          /\ v.key = r.key /\ v.ver = r.ver /\ v = ArchivedRow(r) /\ r.key = k
          /\ ~VersionIdTaken(v.key, v.ver)
  BY DEF Archive, ArchivedRow, RowAt
<1>5. \A v, w \in kept : v = w
  BY <1>4 DEF RowsUnique
<1>6. \A r, s \in versions' : r.key = s.key /\ r.ver = s.ver => r = s
  BY <1>1, <1>4, <1>5 DEF RowsUnique, VersionIdTaken, VersionsAt
<1>7. \A r, s \in markers' : r.key = s.key /\ r.ver = s.ver => r = s
  BY <1>1, ClearLatestUnique DEF RowsUnique, TypeOK
<1>8. \A m \in markers' : \E n \in markers : m.key = n.key /\ m.ver = n.ver
  BY <1>1, ClearLatestKeys DEF TypeOK
<1>9. \A r \in versions', m \in markers' : ~(r.key = m.key /\ r.ver = m.ver)
  BY <1>1, <1>4, <1>8 DEF RowsUnique, VersionIdTaken, MarkersAt
<1>10. \A r \in objects \cup versions \cup markers : r.ver \in Nat
  BY DEF TypeOK, ObjectRow, VersionRow, MarkerRow
<1>11. \A r \in objects' \cup versions' \cup markers' : r.ver \in Nat /\ r.ver < clock
  BY <1>1, <1>2, <1>4, <1>8, <1>10 DEF IdsPast
<1>12. IdsPast'
  BY <1>1, <1>11 DEF IdsPast, TypeOK
<1> QED
  BY <1>3, <1>6, <1>7, <1>9, <1>12 DEF RowsUnique

LEMMA PerformDeleteRows ==
  ASSUME TypeOK, RowsInv, NEW d \in Deleter, PerformDelete(d)
  PROVE  RowsInv'
<1> USE DEF RowsInv
<1>1. PICK r \in StillCurrent(d) :
         IF modeAt[d] = "Disabled" THEN DeleteUnversioned(d, r) ELSE DeleteVersioned(d, r)
  BY DEF PerformDelete
<1>2. r \in objects /\ ticket' = ticket
  BY DEF StillCurrent, ActiveAt, RowAt, PerformDelete
<1>3. \A x \in objects \cup versions \cup markers : x.ver \in Nat
  BY DEF TypeOK, ObjectRow, VersionRow, MarkerRow
<1>4. CASE modeAt[d] = "Disabled"
  BY <1>1, <1>2, <1>4 DEF DeleteUnversioned, RowsUnique, IdsPast
<1>5. CASE modeAt[d] # "Disabled"
  <2> DEFINE k == r.key
             enabled == modeAt[d] = "Enabled"
             ver == IF enabled THEN clock ELSE NullVersion
             marker == [key |-> k, ver |-> ver, latest |-> TRUE]
             kept == IF ArchivesPrevious(r, modeAt[d]) THEN Archive(r) ELSE {}
             Null(x) == x.key = k /\ x.ver = NullVersion
  <2>1. DeleteVersioned(d, r)
    BY <1>1, <1>5
  <2>2. /\ versions' \subseteq versions \cup kept
        /\ markers' \subseteq ClearLatest(markers, k) \cup {marker}
        /\ objects' = objects \ {r}
        /\ clock' = IF enabled THEN clock + 1 ELSE clock
    BY <2>1 DEF DeleteVersioned, WithoutNull
  <2>3. ~enabled => /\ \A x \in versions' : ~Null(x)
                    /\ \A x \in markers' : x = marker \/ ~Null(x)
    BY <2>1 DEF DeleteVersioned, WithoutNull
  <2>4. \A v \in kept : v.key = k /\ v.ver = r.ver /\ ~VersionIdTaken(k, v.ver)
    BY DEF Archive, ArchivedRow
  <2>5. \A v, w \in kept : v = w
    BY DEF Archive
  <2>6. \A m \in ClearLatest(markers, k) : \E n \in markers : m.key = n.key /\ m.ver = n.ver
    BY ClearLatestKeys DEF TypeOK
  <2>7. \A x \in versions \cup kept \cup ClearLatest(markers, k) : x.ver \in Nat /\ x.ver < clock
    BY <1>2, <1>3, <2>4, <2>6 DEF IdsPast
  <2>8. marker.key = k /\ marker.ver = ver /\ ver \in Nat /\ ver < clock' /\ clock' \in Nat
    BY <2>2 DEF TypeOK, NullVersion, IdsPast
  <2>9. \A x \in versions \cup kept \cup ClearLatest(markers, k) :
           (x \in versions' \/ (x \in markers' /\ x # marker)) => ~(x.key = k /\ x.ver = ver)
    BY <2>3, <2>7 DEF TypeOK
  <2>10. \A x, y \in objects' : x.key = y.key => x = y
    BY <2>2 DEF RowsUnique
  <2>11. \A x, y \in versions' : x.key = y.key /\ x.ver = y.ver => x = y
    BY <2>2, <2>4, <2>5 DEF RowsUnique, VersionIdTaken, VersionsAt
  <2>12. \A x, y \in markers' : x.key = y.key /\ x.ver = y.ver => x = y
    <3>1. \A x, y \in ClearLatest(markers, k) : x.key = y.key /\ x.ver = y.ver => x = y
      BY ClearLatestUnique DEF RowsUnique, TypeOK
    <3> HIDE DEF marker, ver
    <3> QED
      BY <2>2, <2>8, <2>9, <3>1
  <2>13. \A x \in versions', m \in markers' : ~(x.key = m.key /\ x.ver = m.ver)
    <3>1. \A x \in versions \cup kept, m \in ClearLatest(markers, k) :
             ~(x.key = m.key /\ x.ver = m.ver)
      BY <2>4, <2>6 DEF RowsUnique, VersionIdTaken, MarkersAt
    <3> HIDE DEF marker, ver, kept
    <3> QED
      BY <2>2, <2>8, <2>9, <3>1
  <2>14. IdsPast'
    <3>1. \A x \in objects' \cup versions' \cup markers' : x.ver < clock'
      <4>1. clock <= clock'
        BY <2>2 DEF TypeOK
      <4>2. \A x \in objects' : x.ver \in Nat /\ x.ver < clock
        BY <1>3, <2>2 DEF IdsPast
      <4>3. \A x \in versions' : x.ver \in Nat /\ x.ver < clock
        BY <2>2, <2>7
      <4>4. \A x \in markers' : x = marker \/ (x.ver \in Nat /\ x.ver < clock)
        BY <2>2, <2>7
      <4> HIDE DEF marker, ver, kept
      <4> QED
        BY <2>8, <4>1, <4>2, <4>3, <4>4 DEF TypeOK
    <3> QED
      BY <1>2, <2>2, <3>1 DEF IdsPast, TypeOK
  <2> QED
    BY <2>10, <2>11, <2>12, <2>13, <2>14 DEF RowsUnique
<1> QED
  BY <1>4, <1>5

\* At most one version of a key sorts first, so at most one row is promoted.
LEMMA PromoteRows ==
  ASSUME TypeOK, RowsInv, NEW k, NEW existing \in SUBSET RowAt(k),
         NEW ms \in SUBSET markers, Promote(k, existing, versions, ms),
         clock' = clock + 1, ticket' = ticket
  PROVE  RowsInv'
<1> DEFINE newest == NewestVersion({r \in versions : r.key = k})
           promoted == {PromotedRow(n, existing) : n \in newest}
<1> USE DEF RowsInv
<1>1. \A n \in newest : n \in versions /\ n.key = k /\ n.ver \in Nat
  BY DEF NewestVersion, TypeOK, VersionRow
<1>2. \A n, m \in newest : n = m
  <2>1. \A n, m \in newest : SortsFirst(n.ver, m.ver) /\ SortsFirst(m.ver, n.ver)
    BY DEF NewestVersion
  <2>2. \A n, m \in newest : n.ver = m.ver
    BY <1>1, <2>1 DEF SortsFirst, NullVersion
  <2> QED
    BY <1>1, <2>2 DEF RowsUnique
<1>3. \A n \in newest : PromotedRow(n, existing).key = k /\ PromotedRow(n, existing).ver = n.ver
  BY <1>1 DEF PromotedRow
<1>4. \A o, p \in promoted : o = p
  BY <1>2
<1>5. \A o \in promoted : o.key = k /\ \E n \in versions : o.ver = n.ver
  BY <1>1, <1>3
<1>6. /\ objects' \subseteq (objects \ RowAt(k)) \cup existing \cup promoted
      /\ versions' \subseteq versions
      /\ markers' = ClearLatest(ms, k)
      /\ promoted = {} \/ objects' = (objects \ RowAt(k)) \cup promoted
  BY DEF Promote
<1>7. \A r, s \in objects' : r.key = s.key => r = s
  <2>1. \A r \in objects \ RowAt(k) : r.key # k
    BY DEF RowAt
  <2>2. \A r \in existing : r \in objects
    BY DEF RowAt
  <2> HIDE DEF promoted
  <2> QED
    BY <1>4, <1>5, <1>6, <2>1, <2>2 DEF RowsUnique
<1>8. \A m \in markers' : \E n \in markers : m.key = n.key /\ m.ver = n.ver
  BY <1>6, ClearLatestKeys DEF TypeOK
<1>9. \A r, s \in markers' : r.key = s.key /\ r.ver = s.ver => r = s
  BY <1>6, ClearLatestUnique DEF RowsUnique, TypeOK
<1>10. \A r \in objects \cup versions \cup markers : r.ver \in Nat
  BY DEF TypeOK, ObjectRow, VersionRow, MarkerRow
<1>11. \A r \in objects' \cup versions' \cup markers' :
          \E s \in objects \cup versions \cup markers : r.ver = s.ver
  <2>1. existing \subseteq objects
    BY DEF RowAt
  <2> HIDE DEF promoted
  <2> QED
    BY <1>5, <1>6, <1>8, <2>1
<1>12. IdsPast'
  BY <1>10, <1>11 DEF IdsPast, TypeOK
<1> QED
  BY <1>6, <1>7, <1>8, <1>9, <1>12 DEF RowsUnique

LEMMA AdminStepRows ==
  ASSUME TypeOK, RowsInv, AdminStep
  PROVE  RowsInv'
<1>1. CASE DeleteObjectVersion
  <2>1. clock' = clock + 1 /\ ticket' = ticket
    BY <1>1 DEF DeleteObjectVersion, memory
  <2>2. ASSUME NEW r \in objects, DeleteCurrentVersion(r)
        PROVE  RowsInv'
    BY <2>1, <2>2, PromoteRows DEF DeleteCurrentVersion
  <2>3. ASSUME NEW r \in versions, DeleteArchivedVersion(r)
        PROVE  RowsInv'
    <3>1. versions' = versions \ {r} /\ UNCHANGED <<objects, markers>>
      BY <2>3 DEF DeleteArchivedVersion
    <3>2. \A x \in objects \cup versions \cup markers : x.ver \in Nat
      BY DEF TypeOK, ObjectRow, VersionRow, MarkerRow
    <3> QED
      BY <2>1, <3>1, <3>2 DEF RowsInv, RowsUnique, IdsPast, TypeOK
  <2>4. ASSUME NEW m \in markers, DeleteMarker(m)
        PROVE  RowsInv'
    BY <2>1, <2>4, PromoteRows DEF DeleteMarker
  <2> QED
    BY <1>1, <2>2, <2>3, <2>4 DEF DeleteObjectVersion
<1>2. ASSUME NEW m \in Modes, PutBucketVersioning(m)
      PROVE  RowsInv'
  BY <1>2, RowsFrame DEF PutBucketVersioning, memory, TypeOK, RowsInv, IdsPast
<1> QED
  BY <1>1, <1>2 DEF AdminStep

LEMMA InspectStepRows ==
  ASSUME TypeOK, RowsInv, InspectStep
  PROVE  RowsInv'
<1>1. UNCHANGED <<versions, markers, clock, ticket>>
  BY DEF InspectStep, Touch, LookUp, Reconcile, DownloadNotFound, db, memory
<1>2. ASSUME NEW id, NEW status, objects' = MarkStatus(id, status)
      PROVE  RowsInv'
  <2>1. \A r \in objects : LET s == [r EXCEPT !.status = status] IN s.key = r.key /\ s.ver = r.ver
    BY DEF TypeOK, ObjectRow
  <2>2. \A o \in objects' : \E r \in objects :
           /\ o = IF r.id = id THEN [r EXCEPT !.status = status] ELSE r
           /\ o.key = r.key /\ o.ver = r.ver
    BY <1>2, <2>1 DEF MarkStatus
  <2> QED
    BY <1>1, <2>2 DEF RowsInv, RowsUnique, IdsPast
<1>3. CASE objects' = objects
  BY <1>1, <1>3 DEF RowsInv, RowsUnique, IdsPast
<1> QED
  BY <1>2, <1>3 DEF InspectStep, Touch, LookUp, Reconcile, DownloadNotFound, db

LEMMA RowsStep == TypeOK /\ RowsInv /\ [Next]_vars => RowsInv'
<1> SUFFICES ASSUME TypeOK, RowsInv, [Next]_vars PROVE RowsInv'
  OBVIOUS
<1> USE DEF db, memory, bounds
<1>1. CASE UNCHANGED vars
  BY <1>1 DEF vars, RowsInv, RowsUnique, IdsPast
<1>2. ASSUME NEW u \in Upload, UploadStep(u) PROVE RowsInv'
  <2>1. CASE Commit(u)
    BY <2>1, CommitRows
  <2>2. CASE BeginUpload(u) \/ Stage(u)
    <3>1. /\ UNCHANGED <<objects, versions, markers>>
          /\ clock' \in Nat /\ clock' >= clock
          /\ \A w \in Upload : ticket'[w] < clock'
      BY <2>2 DEF BeginUpload, Stage, TypeOK, RowsInv, IdsPast
    <3> QED
      BY <3>1, RowsFrame
  <2>3. CASE Grant(u) \/ GiveUp(u) \/ DriveCreates(u) \/ UploadFails(u) \/ Reject(u)
    BY <2>3, RowsFrame DEF Grant, GiveUp, DriveCreates, UploadFails, Reject, TypeOK,
                           RowsInv, IdsPast
  <2> QED
    BY <1>2, <2>1, <2>2, <2>3 DEF UploadStep
<1>3. ASSUME NEW d \in Deleter, DeleteStep(d) PROVE RowsInv'
  <2>1. CASE Authorize(d) \/ ReadForBulk(d) \/ DeleteRefused(d)
    BY <2>1, RowsFrame DEF Authorize, ReadForBulk, DeleteRefused, TypeOK, RowsInv, IdsPast
  <2> QED
    BY <1>3, <2>1, PerformDeleteRows DEF DeleteStep
<1>4. ASSUME NEW p \in Request, DrainStep(p) PROVE RowsInv'
  BY <1>4, RowsFrame DEF DrainStep, DrainRemoves, DrainCompletes, DrainFails, TypeOK,
                         RowsInv, IdsPast
<1>5. CASE WorkerStep
  BY <1>5, RowsFrame DEF WorkerStep, WorkerFetch, WorkerRemoves, WorkerCompletes,
                         WorkerRetries, TypeOK, RowsInv, IdsPast
<1>6. ASSUME NEW S, NEW W, Restart(S, W) PROVE RowsInv'
  BY <1>6, RowsFrame DEF Restart, LoseMemory, TypeOK, RowsInv, IdsPast
<1> QED
  BY <1>1, <1>2, <1>3, <1>4, <1>5, <1>6, AdminStepRows, InspectStepRows DEF Next

\* The handlers' lookups are unambiguous: a key has one current row, and a key
\* and version id one archived row or marker.
THEOREM RowsSafe == Spec => []RowsUnique
<1>1. Spec => []RowsInv
  BY InitRows, RowsStep, TypeCorrect, PTL DEF Spec
<1>2. RowsInv => RowsUnique
  BY DEF RowsInv
<1> QED
  BY <1>1, <1>2, PTL

-----------------------------------------------------------------------------
LEMMA FilesAlways == Spec => [](TypeOK /\ FilesInv /\ RowsInv)
  BY InitFiles, FilesStep, InitRows, RowsStep, TypeCorrect, PTL DEF Spec

-----------------------------------------------------------------------------
(***************************************************************************)
(* What a step may do to the staging rows, the tickets and the settings    *)
(* that handlers have read, and where the rows of the tables come from.    *)
(***************************************************************************)

\* Deletes, removals, administration, inspections and the worker leave the
\* uploads alone, but for a handler that removes the file it replaced.
OtherStep ==
    \/ \E d \in Deleter : DeleteStep(d)
    \/ \E p \in Request : DrainStep(p)
    \/ AdminStep \/ InspectStep \/ WorkerStep

LEMMA OtherSteps ==
  ASSUME TypeOK, OtherStep
  PROVE  /\ UNCHANGED <<staging, recorded, ticket>>
         /\ \A u \in Upload :
               /\ modeAt'[u] = modeAt[u]
               /\ \/ pc'[u] = pc[u]
                  \/ pc[u] \in {"draining", "drained"} /\ pc'[u] \in {"drained", "done"}
<1> USE DEF TypeOK
<1>1. ASSUME NEW d \in Deleter, DeleteStep(d)
      PROVE  /\ UNCHANGED <<staging, recorded, ticket>>
             /\ \A u \in Upload : modeAt'[u] = modeAt[u] /\ pc'[u] = pc[u]
  <2>1. UNCHANGED <<staging, recorded, ticket>> /\ \A u \in Upload : modeAt'[u] = modeAt[u]
    BY <1>1 DEF DeleteStep, Authorize, ReadForBulk, DeleteRefused, PerformDelete, db
  <2>2. \E at \in PC : pc' = [pc EXCEPT ![d] = at]
    BY <1>1 DEF DeleteStep, Authorize, ReadForBulk, DeleteRefused, PerformDelete,
                DeleteUnversioned, DeleteVersioned, PC
  <2> QED
    BY <2>1, <2>2
<1>2. ASSUME NEW p \in Request, DrainStep(p)
      PROVE  /\ UNCHANGED <<staging, recorded, ticket, modeAt>>
             /\ pc[p] \in {"draining", "drained"}
             /\ \E at \in {"drained", "done"} : pc' = [pc EXCEPT ![p] = at]
  BY <1>2 DEF DrainStep, DrainRemoves, DrainCompletes, DrainFails, db
<1>3. CASE AdminStep \/ InspectStep \/ WorkerStep
  BY <1>3 DEF AdminStep, DeleteObjectVersion, PutBucketVersioning, InspectStep, Touch, LookUp,
              Reconcile, DownloadNotFound, WorkerStep, WorkerFetch, WorkerRemoves,
              WorkerCompletes, WorkerRetries, db, memory
<1> QED
  BY <1>1, <1>2, <1>3 DEF OtherStep

\* A restart ends every handler and publishes nothing: it fails what it
\* recovers, or leaves it to the next recovery.
LEMMA RestartMoves ==
  ASSUME TypeOK, FilesInv, NEW S \in SUBSET Unfinished, NEW W \in SUBSET Upload, Restart(S, W)
  PROVE  /\ UNCHANGED <<ticket, modeAt>>
         /\ \A p \in Request : pc'[p] = IF pc[p] = "idle" THEN "idle" ELSE "done"
         /\ \A u \in Upload :
               \/ staging'[u] = staging[u] /\ u \notin W
               \/ staging[u] \in {"uploading", "uploaded"} /\ staging'[u] \in {"uploaded", "failed"}
<1> USE DEF TypeOK, FilesInv
<1>1. \A v \in W : pc[v] = "sent" /\ staging[v] = "uploading"
  BY DEF Restart, StagingFollowsHandler
<1>2. \A u \in Upload :
         staging'[u] = IF u \in S THEN RecoveredStatus(u, recorded \cup W)
                       ELSE IF u \in W THEN "uploaded" ELSE staging[u]
  BY DEF Restart
<1>3. \A u \in S : u \in Unpublished /\ staging[u] \in {"uploading", "uploaded"}
  BY DEF Unfinished, Unpublished
<1>4. \A u \in Unpublished : ~\E r \in ActiveAt(Target[u]) : r.file = u
  BY DEF UnpublishedUntouched, Unpublished, Referenced, ActiveAt, RowAt
<1>5. UNCHANGED <<ticket, modeAt>>
      /\ \A p \in Request : pc'[p] = IF pc[p] = "idle" THEN "idle" ELSE "done"
  BY DEF Restart, LoseMemory
<1> QED
  BY <1>1, <1>2, <1>3, <1>4, <1>5 DEF RecoveredStatus

\* A staging row is opened by Stage and published by its own Commit only; what
\* a restart recovers it fails, or leaves to the next recovery.
LEMMA StagingMoves ==
  ASSUME TypeOK, FilesInv, [Next]_vars, NEW u \in Upload
  PROVE  \/ staging'[u] = staging[u]
         \/ Stage(u) /\ staging[u] = "none" /\ staging'[u] = "uploading"
         \/ Commit(u) /\ staging[u] = "uploading" /\ staging'[u] = "committed"
         \/ staging[u] \in {"uploading", "uploaded"} /\ staging'[u] \in {"uploaded", "failed"}
<1> USE DEF TypeOK, FilesInv
<1>1. CASE UNCHANGED vars
  BY <1>1 DEF vars, db
<1>2. ASSUME NEW w \in Upload, UploadStep(w)
      PROVE  \/ staging' = staging
             \/ /\ Stage(w) /\ staging[w] = "none"
                /\ staging' = [staging EXCEPT ![w] = "uploading"]
             \/ /\ Commit(w) /\ staging[w] = "uploading"
                /\ staging' = [staging EXCEPT ![w] = "committed"]
             \/ staging[w] = "uploading" /\ staging' = [staging EXCEPT ![w] = "failed"]
  <2>1. CASE Stage(w)
    BY <2>1 DEF Stage, StagingFollowsHandler
  <2>2. CASE Commit(w)
    BY <2>2 DEF Commit, StagingFollowsHandler
  <2>3. CASE UploadFails(w) \/ Reject(w)
    BY <2>3 DEF UploadFails, Reject, StagingFollowsHandler
  <2>4. CASE BeginUpload(w) \/ Grant(w) \/ GiveUp(w) \/ DriveCreates(w)
    BY <2>4 DEF BeginUpload, Grant, GiveUp, DriveCreates, db
  <2> QED
    BY <1>2, <2>1, <2>2, <2>3, <2>4 DEF UploadStep
<1>3. CASE OtherStep
  BY <1>3, OtherSteps
<1>4. ASSUME NEW S \in SUBSET Unfinished, NEW W \in SUBSET Upload, Restart(S, W),
             staging'[u] # staging[u]
      PROVE  staging[u] \in {"uploading", "uploaded"} /\ staging'[u] \in {"uploaded", "failed"}
  BY <1>4, RestartMoves
<1> QED
  BY <1>1, <1>2, <1>3, <1>4 DEF Next, OtherStep

\* An upload draws its ticket once, when it begins or, for a copy, when it
\* stages, and it reads the bucket's setting once.
HasTicket(u) == (u \in Puts /\ pc[u] # "idle") \/ staging[u] # "none"
TicketsKept(U) ==
    \A u \in U : ticket'[u] = ticket[u] /\ (HasTicket(u)' => HasTicket(u))
TicketDrawn(u) ==
    /\ ~HasTicket(u) /\ ticket'[u] = clock /\ clock' = clock + 1
    /\ TicketsKept(Upload \ {u})
    /\ UNCHANGED markers

LEMMA TicketMoves ==
  ASSUME TypeOK, FilesInv, [Next]_vars
  PROVE  /\ TicketsKept(Upload) \/ \E u \in Upload : TicketDrawn(u)
         /\ \A u \in Upload : pc[u] # "idle" => pc'[u] # "idle" /\ modeAt'[u] = modeAt[u]
<1> DEFINE ModeKept == \A u \in Upload : pc[u] # "idle" => pc'[u] # "idle" /\ modeAt'[u] = modeAt[u]
<1> USE DEF TypeOK, HasTicket, Puts, TicketsKept
<1>1. CASE UNCHANGED vars
  BY <1>1 DEF vars, db, memory
<1>2. ASSUME NEW u \in Upload, UploadStep(u)
      PROVE  (TicketsKept(Upload) \/ TicketDrawn(u)) /\ ModeKept
  <2>1. CASE BeginUpload(u)
    <3>1. staging[u] = "none" /\ staging' = staging /\ pc[u] = "idle" /\ markers' = markers
      BY <2>1 DEF BeginUpload, FilesInv, StagingFollowsHandler
    <3>2. \A w \in Upload \ {u} : pc'[w] = pc[w] /\ ticket'[w] = ticket[w] /\ modeAt'[w] = modeAt[w]
      BY <2>1 DEF BeginUpload
    <3>3. u \in Puts => ticket'[u] = clock /\ clock' = clock + 1
      BY <2>1 DEF BeginUpload
    <3>4. u \notin Puts => ticket' = ticket
      BY <2>1 DEF BeginUpload
    <3> QED
      BY <3>1, <3>2, <3>3, <3>4 DEF TicketDrawn
  <2>2. CASE Stage(u)
    <3>1. staging[u] = "none" /\ pc[u] = "locked" /\ markers' = markers /\ modeAt' = modeAt
          /\ pc'[u] # "idle"
      BY <2>2 DEF Stage, FilesInv, StagingFollowsHandler
    <3>2. \A w \in Upload \ {u} : pc'[w] = pc[w] /\ staging'[w] = staging[w] /\ ticket'[w] = ticket[w]
      BY <2>2 DEF Stage
    <3>3. u \in Puts => ticket' = ticket
      BY <2>2 DEF Stage
    <3>4. u \notin Puts => ticket'[u] = clock /\ clock' = clock + 1
      BY <2>2 DEF Stage
    <3> QED
      BY <3>1, <3>2, <3>3, <3>4 DEF TicketDrawn
  <2>3. CASE Grant(u) \/ GiveUp(u) \/ DriveCreates(u) \/ UploadFails(u) \/ Reject(u) \/ Commit(u)
    <3>1. /\ ticket' = ticket /\ modeAt' = modeAt /\ pc[u] # "idle" /\ pc'[u] # "idle"
          /\ \A w \in Upload \ {u} : pc'[w] = pc[w]
      BY <2>3 DEF Grant, GiveUp, DriveCreates, UploadFails, Reject, Commit
    <3>2. \A w \in Upload : staging'[w] # "none" => staging[w] # "none"
      BY <2>3 DEF Grant, GiveUp, DriveCreates, UploadFails, Reject, Commit, db,
                  FilesInv, StagingFollowsHandler
    <3> QED
      BY <3>1, <3>2
  <2> QED
    BY <1>2, <2>1, <2>2, <2>3 DEF UploadStep
<1>3. CASE OtherStep
  BY <1>3, OtherSteps
<1>4. ASSUME NEW S \in SUBSET Unfinished, NEW W \in SUBSET Upload, Restart(S, W)
      PROVE  TicketsKept(Upload) /\ ModeKept
  BY <1>4, RestartMoves
<1> QED
  BY <1>1, <1>2, <1>3, <1>4 DEF Next, OtherStep

-----------------------------------------------------------------------------
(***************************************************************************)
(* The order of the puts.  The key lock admits one put at a time, in the   *)
(* order of their tickets, and a put keeps the lock until it has committed *)
(* or given up: so who still waits or writes came after all who committed. *)
(***************************************************************************)

Writing == {"locked", "slot", "sent"}
Rivals(u, w) == u \in Puts /\ w \in Puts /\ Target[u] = Target[w]

OneHolder == \A u, w \in Puts : Rivals(u, w) /\ HoldsLock(u) /\ HoldsLock(w) => u = w
WaitersAreLater ==
    \A u, w \in Puts :
        Rivals(u, w) /\ pc[u] = "waiting" /\ (HoldsLock(w) \/ staging[w] = "committed")
            => ticket[w] < ticket[u]
WritersAreLater ==
    \A u, w \in Puts :
        Rivals(u, w) /\ u # w /\ pc[u] \in Writing /\ staging[w] = "committed"
            => ticket[w] < ticket[u]
WaitersDiffer ==
    \A u, w \in Puts : pc[u] = "waiting" /\ pc[w] = "waiting" /\ ticket[u] = ticket[w] => u = w
OrderInv == OneHolder /\ WaitersAreLater /\ WritersAreLater /\ WaitersDiffer

LEMMA InitOrder == Init => OrderInv
  BY DEF Init, OrderInv, OneHolder, WaitersAreLater, WritersAreLater, WaitersDiffer, HoldsLock,
         Writing, Puts

\* A step that gives nobody the lock and publishes nothing others wait for.
LEMMA OrderFrame ==
  ASSUME OrderInv, \A u \in Puts : ticket'[u] = ticket[u],
         \A u \in Puts : /\ HoldsLock(u)' => HoldsLock(u)
                         /\ pc'[u] = "waiting" => pc[u] = "waiting"
                         /\ pc'[u] \in Writing => pc[u] \in Writing,
         \A u, w \in Puts : /\ pc'[u] \in Writing \cup {"waiting"}
                            /\ staging'[w] = "committed"
                            => staging[w] = "committed"
  PROVE  OrderInv'
<1>1. OneHolder'
  BY DEF OrderInv, OneHolder, Rivals
<1>2. WaitersAreLater'
  BY DEF OrderInv, WaitersAreLater, Rivals
<1>3. WritersAreLater'
  BY DEF OrderInv, WritersAreLater, Rivals
<1>4. WaitersDiffer'
  BY DEF OrderInv, WaitersDiffer
<1> QED
  BY <1>1, <1>2, <1>3, <1>4 DEF OrderInv

LEMMA BeginOrder ==
  ASSUME TypeOK, FilesInv, RowsInv, OrderInv, NEW u \in Upload, BeginUpload(u)
  PROVE  OrderInv'
<1>1. u \in Request /\ pc[u] = "idle" /\ staging[u] = "none" /\ staging' = staging
  BY DEF BeginUpload, FilesInv, StagingFollowsHandler
<1>2. \A w \in Puts \ {u} : pc'[w] = pc[w] /\ ticket'[w] = ticket[w] /\ ticket[w] < clock
                            /\ (HoldsLock(w)' <=> HoldsLock(w))
  BY DEF BeginUpload, TypeOK, RowsInv, IdsPast, Puts, HoldsLock
<1>3. u \in Puts => pc'[u] = "waiting" /\ ticket'[u] = clock /\ ~HoldsLock(u)'
  BY DEF BeginUpload, TypeOK, HoldsLock
<1>4. clock \in Nat /\ \A w \in Puts : ticket[w] \in Nat
  BY DEF TypeOK, Puts
<1>5. OneHolder'
  BY <1>2, <1>3 DEF OrderInv, OneHolder, Rivals
<1>6. WaitersAreLater'
  BY <1>1, <1>2, <1>3, <1>4 DEF OrderInv, WaitersAreLater, Rivals
<1>7. WritersAreLater'
  BY <1>1, <1>2, <1>3, <1>4 DEF OrderInv, WritersAreLater, Rivals, Writing
<1>8. WaitersDiffer'
  BY <1>2, <1>3, <1>4 DEF OrderInv, WaitersDiffer
<1> QED
  BY <1>5, <1>6, <1>7, <1>8 DEF OrderInv

LEMMA GrantOrder ==
  ASSUME TypeOK, FilesInv, OrderInv, NEW u \in Upload, Grant(u)
  PROVE  OrderInv'
<1>1. u \in Request /\ pc[u] = "waiting" /\ staging[u] = "none"
      /\ UNCHANGED <<staging, ticket>> /\ KeyFree(Target[u]) /\ FirstInLine(u)
  BY DEF Grant, FilesInv, StagingFollowsHandler, db
<1>2. \A w \in Puts \ {u} : pc'[w] = pc[w] /\ (HoldsLock(w)' <=> HoldsLock(w))
  BY DEF Grant, TypeOK, Puts, HoldsLock
<1>3. u \in Puts => pc'[u] = "locked"
  BY DEF Grant, TypeOK
<1>4. \A w \in Puts : ticket[w] \in Nat
  BY DEF TypeOK, Puts
<1>5. OneHolder'
  BY <1>1, <1>2 DEF OrderInv, OneHolder, Rivals, KeyFree
<1>6. WaitersAreLater'
  <2> SUFFICES ASSUME NEW v \in Puts, NEW w \in Puts, Rivals(v, w), pc'[v] = "waiting",
                      HoldsLock(w)' \/ staging'[w] = "committed"
               PROVE  ticket'[w] < ticket'[v]
    BY DEF WaitersAreLater, Rivals
  <2>1. v # u /\ pc[v] = "waiting"
    BY <1>2, <1>3
  <2>2. CASE w = u
    BY <1>1, <1>4, <2>1, <2>2 DEF FirstInLine, OrderInv, WaitersDiffer, Rivals
  <2>3. CASE w # u
    BY <1>1, <1>2, <2>1, <2>3 DEF OrderInv, WaitersAreLater
  <2> QED
    BY <2>2, <2>3
<1>7. WritersAreLater'
  BY <1>1, <1>2, <1>3 DEF OrderInv, WritersAreLater, WaitersAreLater, Rivals, Writing
<1>8. WaitersDiffer'
  BY <1>1, <1>2, <1>3 DEF OrderInv, WaitersDiffer
<1> QED
  BY <1>5, <1>6, <1>7, <1>8 DEF OrderInv

LEMMA CommitOrder ==
  ASSUME TypeOK, OrderInv, NEW u \in Upload, Commit(u)
  PROVE  OrderInv'
<1>1. u \in Request /\ pc[u] = "sent" /\ ticket' = ticket
      /\ staging' = [staging EXCEPT ![u] = "committed"]
      /\ pc'[u] \in {"done", "draining"} /\ \A w \in Puts \ {u} : pc'[w] = pc[w]
  BY DEF Commit, TypeOK, Puts
<1>2. \A w \in Puts : (HoldsLock(w)' => HoldsLock(w)) /\ (w = u => HoldsLock(w))
  BY <1>1 DEF HoldsLock
<1>3. \A w \in Puts \ {u} : staging'[w] = staging[w]
  BY <1>1 DEF TypeOK, Puts
<1>4. OneHolder'
  BY <1>2 DEF OrderInv, OneHolder, Rivals
<1>5. WaitersAreLater'
  BY <1>1, <1>2, <1>3 DEF OrderInv, WaitersAreLater, Rivals
<1>6. WritersAreLater'
  <2>1. \A w \in Puts : pc'[w] \in Writing => w # u /\ pc[w] \in Writing /\ HoldsLock(w)
    BY <1>1 DEF Writing, HoldsLock
  <2> QED
    BY <1>1, <1>2, <1>3, <2>1 DEF OrderInv, WritersAreLater, OneHolder, Rivals
<1>7. WaitersDiffer'
  BY <1>1 DEF OrderInv, WaitersDiffer
<1> QED
  BY <1>4, <1>5, <1>6, <1>7 DEF OrderInv

LEMMA OrderStep == TypeOK /\ FilesInv /\ RowsInv /\ OrderInv /\ [Next]_vars => OrderInv'
<1> SUFFICES ASSUME TypeOK, FilesInv, RowsInv, OrderInv, [Next]_vars PROVE OrderInv'
  OBVIOUS
<1> USE DEF HoldsLock, Writing, Puts, TypeOK
<1>1. CASE UNCHANGED vars
  BY <1>1, OrderFrame DEF vars, db, memory
<1>2. ASSUME NEW u \in Upload, UploadStep(u) PROVE OrderInv'
  <2>1. CASE GiveUp(u)
    BY <2>1, OrderFrame DEF GiveUp, db
  <2>2. CASE Stage(u)
    <3>1. /\ \A w \in Puts : ticket'[w] = ticket[w]
          /\ \A w \in Upload : staging'[w] = "committed" => staging[w] = "committed"
      BY <2>2 DEF Stage
    <3>2. \A w \in Upload \ {u} : pc'[w] = pc[w]
      BY <2>2 DEF Stage
    <3>3. pc[u] = "locked" /\ pc'[u] \in {"done", "slot"}
      BY <2>2 DEF Stage
    <3> QED
      BY <3>1, <3>2, <3>3, OrderFrame
  <2>3. CASE DriveCreates(u)
    BY <2>3, OrderFrame DEF DriveCreates, db
  <2>4. CASE UploadFails(u)
    BY <2>4, OrderFrame DEF UploadFails
  <2>5. CASE Reject(u)
    BY <2>5, OrderFrame DEF Reject
  <2> QED
    BY <1>2, <2>1, <2>2, <2>3, <2>4, <2>5, BeginOrder, GrantOrder, CommitOrder DEF UploadStep
<1>3. CASE OtherStep
  BY <1>3, OtherSteps, OrderFrame
<1>4. ASSUME NEW S \in SUBSET Unfinished, NEW W \in SUBSET Upload, Restart(S, W) PROVE OrderInv'
  <2>1. ticket' = ticket /\ \A u \in Puts : pc'[u] \in {"idle", "done"}
    BY <1>4, RestartMoves
  <2> QED
    BY <2>1, OrderFrame
<1> QED
  BY <1>1, <1>2, <1>3, <1>4 DEF Next, OtherStep

\* Puts of a key are published in the order their requests queued.
THEOREM PutsOrdered == Spec => PutsInOrder
<1> DEFINE Ordered ==
             \A u, w \in Puts :
                (/\ Target[u] = Target[w]
                 /\ staging[u] = "uploading" /\ staging'[u] = "committed"
                 /\ staging[w] = "committed") => ticket[w] < ticket[u]
<1>1. TypeOK /\ FilesInv /\ OrderInv /\ [Next]_vars => Ordered
  <2> SUFFICES ASSUME TypeOK, FilesInv, OrderInv, [Next]_vars, NEW u \in Puts, NEW w \in Puts,
                      Target[u] = Target[w], staging[u] = "uploading",
                      staging'[u] = "committed", staging[w] = "committed"
               PROVE  ticket[w] < ticket[u]
    OBVIOUS
  <2>1. Commit(u)
    BY StagingMoves DEF Puts
  <2> QED
    BY <2>1 DEF Commit, OrderInv, WritersAreLater, Rivals, Writing
<1>2. Spec => []OrderInv
  BY InitOrder, OrderStep, FilesAlways, PTL DEF Spec
<1>3. [Next]_vars /\ Ordered => [Ordered]_vars
  OBVIOUS
<1>4. Spec => [][Ordered]_vars
  BY <1>1, <1>2, FilesAlways, PTL DEF Spec
<1> QED
  BY <1>4 DEF PutsInOrder

-----------------------------------------------------------------------------
(***************************************************************************)
(* Where rows and markers come from.                                       *)
(***************************************************************************)

SameFile(r, o) == o.key = r.key /\ o.file = r.file /\ o.ver = r.ver

LEMMA PromoteKeeps ==
  ASSUME TypeOK, NEW k, NEW existing \in SUBSET RowAt(k),
         NEW ms \in SUBSET markers, Promote(k, existing, versions, ms)
  PROVE  \A r \in objects' \cup versions' : \E o \in objects \cup versions : SameFile(r, o)
<1> DEFINE newest == NewestVersion({r \in versions : r.key = k})
<1>1. newest \subseteq versions /\ existing \subseteq objects
  BY DEF NewestVersion, RowAt
<1>2. \A n \in newest : SameFile(PromotedRow(n, existing), n)
  BY DEF PromotedRow, SameFile
<1>3. /\ objects' \subseteq objects \cup {PromotedRow(n, existing) : n \in newest}
      /\ versions' \subseteq versions
  BY <1>1 DEF Promote
<1>4. \A r \in objects \cup versions : SameFile(r, r)
  BY DEF SameFile
<1> HIDE DEF newest
<1> QED
  BY <1>1, <1>2, <1>3, <1>4

\* A reconcile or a download marks a row and keeps what it says.
LEMMA MarkedRows ==
  ASSUME TypeOK, InspectStep
  PROVE  \A r \in objects' : \E o \in objects : SameFile(r, o)
<1>1. \A o \in objects : SameFile(o, o)
  BY DEF SameFile
<1>2. ASSUME NEW id, NEW status, NEW r \in MarkStatus(id, status)
      PROVE  \E o \in objects : SameFile(r, o)
  <2>1. PICK o \in objects : r = IF o.id = id THEN [o EXCEPT !.status = status] ELSE o
    BY <1>2 DEF MarkStatus
  <2> QED
    BY <2>1 DEF TypeOK, ObjectRow, SameFile
<1>3. objects' = objects \/ \E id, status : objects' = MarkStatus(id, status)
  BY DEF InspectStep, Touch, LookUp, Reconcile, DownloadNotFound, db
<1>4. CASE \E id, status : objects' = MarkStatus(id, status)
  BY <1>2, <1>4
<1> QED
  BY <1>1, <1>3, <1>4

\* A row that was not there is the one a commit publishes: archiving, promoting
\* and marking move rows about and keep what they say.
LEMMA RowsComeFrom ==
  ASSUME TypeOK, [Next]_vars, NEW r \in objects' \cup versions'
  PROVE  \/ \E o \in objects \cup versions : SameFile(r, o)
         \/ \E u \in Upload : Commit(u) /\ r = PublishedRow(u)
<1> DEFINE Old == \E o \in objects \cup versions : SameFile(r, o)
<1>1. (r \in objects \cup versions) => Old
  BY DEF SameFile
<1>2. \A o \in objects : r \in Archive(o) => Old
  BY DEF Archive, ArchivedRow, SameFile
<1>3. CASE UNCHANGED vars
  BY <1>1, <1>3 DEF vars, db
<1>4. ASSUME NEW u \in Upload, UploadStep(u)
      PROVE  Old \/ (Commit(u) /\ r = PublishedRow(u))
  <2>1. CASE Commit(u)
    <3>1. \A o \in RowAt(Target[u]) : o \in objects
      BY DEF RowAt
    <3> HIDE DEF Old
    <3> QED
      BY <1>1, <1>2, <2>1, <3>1 DEF Commit
  <2>2. CASE ~Commit(u)
    BY <1>1, <1>4, <2>2 DEF UploadStep, BeginUpload, Grant, GiveUp, Stage, DriveCreates,
                             UploadFails, Reject, db
  <2> QED
    BY <2>1, <2>2
<1>5. ASSUME NEW d \in Deleter, DeleteStep(d) PROVE Old
  <2>1. CASE PerformDelete(d)
    <3>1. PICK o \in StillCurrent(d) :
             IF modeAt[d] = "Disabled" THEN DeleteUnversioned(d, o) ELSE DeleteVersioned(d, o)
      BY <2>1 DEF PerformDelete
    <3>2. o \in objects
      BY DEF StillCurrent, ActiveAt, RowAt
    <3>3. objects' \subseteq objects /\ versions' \subseteq versions \cup Archive(o)
      BY <3>1 DEF DeleteUnversioned, DeleteVersioned, WithoutNull
    <3> HIDE DEF Old
    <3> QED
      BY <1>1, <1>2, <3>2, <3>3
  <2> QED
    BY <1>1, <1>5, <2>1 DEF DeleteStep, Authorize, ReadForBulk, DeleteRefused, db
<1>6. CASE AdminStep
  <2>1. ASSUME NEW m \in Modes, PutBucketVersioning(m) PROVE Old
    BY <1>1, <2>1 DEF PutBucketVersioning
  <2>2. ASSUME NEW o \in objects, DeleteCurrentVersion(o) PROVE Old
    <3>1. {} \in SUBSET RowAt(o.key) /\ Promote(o.key, {}, versions, markers)
      BY <2>2 DEF DeleteCurrentVersion
    <3> QED
      BY <3>1, PromoteKeeps
  <2>3. ASSUME NEW o \in versions, DeleteArchivedVersion(o) PROVE Old
    BY <1>1, <2>3 DEF DeleteArchivedVersion
  <2>4. ASSUME NEW m \in markers, DeleteMarker(m) PROVE Old
    <3>1. /\ RowAt(m.key) \in SUBSET RowAt(m.key) /\ markers \ {m} \in SUBSET markers
          /\ Promote(m.key, RowAt(m.key), versions, markers \ {m})
      BY <2>4 DEF DeleteMarker
    <3> QED
      BY <3>1, PromoteKeeps
  <2> QED
    BY <1>6, <2>1, <2>2, <2>3, <2>4 DEF AdminStep, DeleteObjectVersion
<1>7. CASE InspectStep
  <2>1. versions' = versions
    BY <1>7 DEF InspectStep, Touch, LookUp, Reconcile, DownloadNotFound, db
  <2> QED
    BY <1>1, <1>7, <2>1, MarkedRows
<1>8. CASE \/ \E p \in Request : DrainStep(p)
           \/ WorkerStep
           \/ \E S \in SUBSET Unfinished, W \in SUBSET Upload : Restart(S, W)
  BY <1>1, <1>8 DEF DrainStep, DrainRemoves, DrainCompletes, DrainFails, WorkerStep, WorkerFetch,
              WorkerRemoves, WorkerCompletes, WorkerRetries, Restart, db
<1> QED
  BY <1>3, <1>4, <1>5, <1>6, <1>7, <1>8 DEF Next

\* Clearing a key's latest flag leaves the latest markers of the other keys.
LEMMA ClearLatestHides ==
  ASSUME NEW ms \in SUBSET MarkerRow, NEW k, NEW m \in ClearLatest(ms, k)
  PROVE  /\ m.latest => m \in ms /\ m.key # k
         /\ \E n \in ms : n.key = m.key /\ n.ver = m.ver
<1>1. \A n \in MarkerRow : [n EXCEPT !.latest = FALSE].latest = FALSE
  BY DEF MarkerRow
<1>2. m \in {n \in ms : n.key # k} \/ \E n \in ms : n.key = k /\ m = [n EXCEPT !.latest = FALSE]
  BY DEF ClearLatest
<1>3. \E n \in ms : n.key = m.key /\ n.ver = m.ver
  BY ClearLatestKeys
<1> QED
  BY <1>1, <1>2, <1>3

\* A new marker has the null version id, or one drawn with the step.
LEMMA MarkersComeFrom ==
  ASSUME TypeOK, [Next]_vars, NEW m \in markers'
  PROVE  \/ \E n \in markers : n.key = m.key /\ n.ver = m.ver
         \/ m.ver = NullVersion \/ (m.ver = clock /\ clock' = clock + 1)
<1> DEFINE Old == \E n \in markers : n.key = m.key /\ n.ver = m.ver
<1>1. (m \in markers) => Old
  OBVIOUS
<1>2. ASSUME NEW ms \in SUBSET markers, NEW k, m \in ClearLatest(ms, k)
      PROVE  Old
  BY <1>2, ClearLatestHides DEF TypeOK
<1> HIDE DEF Old
<1>3. CASE UNCHANGED vars
  BY <1>1, <1>3 DEF vars, db
<1>4. ASSUME NEW u \in Upload, UploadStep(u) PROVE Old
  BY <1>1, <1>2, <1>4 DEF UploadStep, BeginUpload, Grant, GiveUp, Stage, DriveCreates,
                          UploadFails, Reject, Commit, db
<1>5. ASSUME NEW d \in Deleter, DeleteStep(d) PROVE Old \/ m.ver = NullVersion \/ (m.ver = clock /\ clock' = clock + 1)
  <2>1. CASE PerformDelete(d)
    <3>1. PICK o \in StillCurrent(d) :
             IF modeAt[d] = "Disabled" THEN DeleteUnversioned(d, o) ELSE DeleteVersioned(d, o)
      BY <2>1 DEF PerformDelete
    <3>2. CASE DeleteUnversioned(d, o)
      BY <1>1, <3>2 DEF DeleteUnversioned
    <3>3. CASE DeleteVersioned(d, o)
      <4> DEFINE ver == IF modeAt[d] = "Enabled" THEN clock ELSE NullVersion
      <4>1. /\ m \in ClearLatest(markers, o.key) \/ m = [key |-> o.key, ver |-> ver, latest |-> TRUE]
            /\ modeAt[d] = "Enabled" => clock' = clock + 1
        BY <3>3 DEF DeleteVersioned, WithoutNull
      <4> QED
        BY <1>2, <4>1
    <3> QED
      BY <3>1, <3>2, <3>3
  <2> QED
    BY <1>1, <1>5, <2>1 DEF DeleteStep, Authorize, ReadForBulk, DeleteRefused, db
<1>6. CASE AdminStep
  <2>1. markers' = markers \/ \E ms \in SUBSET markers : \E k : markers' = ClearLatest(ms, k)
    <3>1. ASSUME NEW n \in markers, DeleteMarker(n)
          PROVE  markers' = ClearLatest(markers \ {n}, n.key) /\ markers \ {n} \in SUBSET markers
      BY <3>1 DEF DeleteMarker, Promote
    <3> QED
      BY <1>6, <3>1 DEF AdminStep, PutBucketVersioning, DeleteObjectVersion,
                  DeleteCurrentVersion, DeleteArchivedVersion, Promote
  <2>2. ASSUME NEW ms \in SUBSET markers, NEW k, markers' = ClearLatest(ms, k) PROVE Old
    BY <1>2, <2>2
  <2> QED
    BY <1>1, <2>1, <2>2 DEF Old
<1>7. CASE \/ \E p \in Request : DrainStep(p)
           \/ InspectStep \/ WorkerStep
           \/ \E S \in SUBSET Unfinished, W \in SUBSET Upload : Restart(S, W)
  BY <1>1, <1>7 DEF DrainStep, DrainRemoves, DrainCompletes, DrainFails, InspectStep, Touch,
              LookUp, Reconcile, DownloadNotFound, WorkerStep, WorkerFetch,
              WorkerRemoves, WorkerCompletes, WorkerRetries, Restart, db
<1> QED
  BY <1>3, <1>4, <1>5, <1>6, <1>7 DEF Next, Old

-----------------------------------------------------------------------------
(***************************************************************************)
(* What the ids say.  A row's file was committed for the row's key, and a  *)
(* version id other than 'null' is the ticket of the upload that wrote the *)
(* bytes, under an enabled setting.  No two tickets are the same, and no   *)
(* delete marker has one.                                                  *)
(***************************************************************************)

Origin(r) ==
    /\ staging[r.file] = "committed" /\ Target[r.file] = r.key
    /\ r.ver # NullVersion => r.ver = ticket[r.file] /\ modeAt[r.file] = "Enabled"
RowsHaveOrigins == \A r \in objects \cup versions : Origin(r)
TicketsDiffer ==
    /\ \A u \in Upload : HasTicket(u) => ticket[u] > 0
    /\ \A u, w \in Upload : HasTicket(u) /\ HasTicket(w) /\ ticket[u] = ticket[w] => u = w
MarkersHaveNoTicket == \A m \in markers, u \in Upload : HasTicket(u) => m.ver # ticket[u]
OriginInv == RowsHaveOrigins /\ TicketsDiffer /\ MarkersHaveNoTicket

LEMMA InitOrigin == Init => OriginInv
  BY DEF Init, OriginInv, RowsHaveOrigins, TicketsDiffer, MarkersHaveNoTicket, HasTicket, Puts

LEMMA OriginStep == TypeOK /\ FilesInv /\ RowsInv /\ OriginInv /\ [Next]_vars => OriginInv'
<1> SUFFICES ASSUME TypeOK, FilesInv, RowsInv, OriginInv, [Next]_vars PROVE OriginInv'
  OBVIOUS
<1>1. \A u \in Upload : /\ HasTicket(u) => ticket'[u] = ticket[u]
                        /\ ticket[u] \in Nat /\ ticket[u] < clock
  BY TicketMoves DEF TicketsKept, TicketDrawn, TypeOK, RowsInv, IdsPast
<1>2. \A u \in Upload : staging[u] = "committed" =>
         staging'[u] = "committed" /\ HasTicket(u) /\ modeAt'[u] = modeAt[u]
  <2> SUFFICES ASSUME NEW u \in Upload, staging[u] = "committed"
               PROVE  staging'[u] = "committed" /\ HasTicket(u) /\ modeAt'[u] = modeAt[u]
    OBVIOUS
  <2>1. staging'[u] = "committed"
    BY StagingMoves
  <2>2. pc[u] # "idle"
    BY DEF FilesInv, StagingFollowsHandler
  <2> QED
    BY <2>1, <2>2, TicketMoves DEF HasTicket
<1>3. RowsHaveOrigins'
  <2> SUFFICES ASSUME NEW r \in objects' \cup versions'
               PROVE  Origin(r)'
    BY DEF RowsHaveOrigins
  <2>1. ASSUME NEW o \in objects \cup versions, SameFile(r, o)
        PROVE  Origin(r)'
    <3>1. o.file \in Upload
      BY DEF TypeOK, ObjectRow, VersionRow
    <3> QED
      BY <1>1, <1>2, <2>1, <3>1 DEF OriginInv, RowsHaveOrigins, Origin, SameFile
  <2>2. ASSUME NEW u \in Upload, Commit(u), r = PublishedRow(u)
        PROVE  Origin(r)'
    BY <2>2 DEF Commit, PublishedRow, Origin, TypeOK
  <2> QED
    BY <2>1, <2>2, RowsComeFrom
<1>4. TicketsDiffer'
  <2>1. CASE TicketsKept(Upload)
    BY <1>1, <2>1 DEF TicketsKept, OriginInv, TicketsDiffer
  <2>2. ASSUME NEW u \in Upload, TicketDrawn(u) PROVE TicketsDiffer'
    <3>1. clock > 0 /\ clock \in Nat
      BY DEF RowsInv, IdsPast, TypeOK
    <3> QED
      BY <1>1, <2>2, <3>1 DEF TicketDrawn, TicketsKept, OriginInv, TicketsDiffer
  <2> QED
    BY <2>1, <2>2, TicketMoves
<1>5. MarkersHaveNoTicket'
  <2>1. CASE TicketsKept(Upload)
    <3> SUFFICES ASSUME NEW m \in markers', NEW u \in Upload, HasTicket(u)'
                 PROVE  m.ver # ticket'[u]
      BY DEF MarkersHaveNoTicket
    <3>1. HasTicket(u) /\ ticket'[u] = ticket[u] /\ ticket[u] > 0 /\ ticket[u] < clock /\ ticket[u] \in Nat
      BY <1>1, <2>1 DEF TicketsKept, OriginInv, TicketsDiffer
    <3>2. m.ver = NullVersion \/ m.ver = clock => m.ver # ticket[u]
      BY <3>1 DEF NullVersion, TypeOK
    <3> QED
      BY <3>1, <3>2, MarkersComeFrom DEF OriginInv, MarkersHaveNoTicket
  <2>2. ASSUME NEW u \in Upload, TicketDrawn(u) PROVE MarkersHaveNoTicket'
    <3>1. \A m \in markers : m.ver \in Nat /\ m.ver < clock
      BY DEF RowsInv, IdsPast, TypeOK, MarkerRow
    <3> QED
      BY <2>2, <3>1 DEF TicketDrawn, TicketsKept, OriginInv, MarkersHaveNoTicket, TypeOK
  <2> QED
    BY <2>1, <2>2, TicketMoves
<1> QED
  BY <1>3, <1>4, <1>5 DEF OriginInv

LEMMA OriginAlways == Spec => []OriginInv
  BY InitOrigin, OriginStep, FilesAlways, PTL DEF Spec
LEMMA OrderAlways == Spec => []OrderInv
  BY InitOrder, OrderStep, FilesAlways, PTL DEF Spec

-----------------------------------------------------------------------------
(***************************************************************************)
(* Settings.  A bucket's versioning is never disabled again, so an upload  *)
(* that read 'Disabled' drew its ticket before every upload that did not,  *)
(* and a delete that read 'Disabled' captured a row written before that.   *)
(* Both need the setting and the row, or the ticket and the place in the   *)
(* line, to be read together: copies and the deletes of a DeleteObjects    *)
(* request do not, and VersionedBytesKept is false of them.                *)
(***************************************************************************)

ReadsTogether == Copies = {} /\ Bulk = {}

DisabledIsFirst == mode = "Disabled" => \A p \in Request : modeAt[p] = "Disabled"
DisabledWritesFirst ==
    \A u, w \in Upload :
        (/\ pc[u] # "idle" /\ pc[w] # "idle"
         /\ modeAt[u] = "Disabled" /\ modeAt[w] # "Disabled") => ticket[u] < ticket[w]
DisabledSeesOldRows ==
    \A d \in Deleter :
        /\ pc[d] # "authorized"
        /\ \A s \in seen[d] : /\ staging[s.file] = "committed"
                              /\ modeAt[d] = "Disabled" => modeAt[s.file] # "Enabled"
SettingInv == DisabledIsFirst /\ DisabledWritesFirst /\ DisabledSeesOldRows

LEMMA InitSetting == Init => SettingInv
  BY DEF Init, SettingInv, DisabledIsFirst, DisabledWritesFirst, DisabledSeesOldRows

\* A handler reads the setting when it begins, and what it read is current.
LEMMA SettingMoves ==
  ASSUME TypeOK, FilesInv, ReadsTogether, [Next]_vars
  PROVE  /\ mode' = "Disabled" => mode = "Disabled"
         /\ \A p \in Request : modeAt'[p] \in {modeAt[p], mode}
         /\ \A u \in Upload : pc[u] = "idle" /\ pc'[u] # "idle" => modeAt'[u] = mode
<1> USE DEF TypeOK
<1>1. CASE UNCHANGED vars
  BY <1>1 DEF vars, db, memory
<1>2. ASSUME NEW u \in Upload, BeginUpload(u)
      PROVE  /\ mode' = mode /\ modeAt' = [modeAt EXCEPT ![u] = mode]
             /\ \A w \in Upload \ {u} : pc'[w] = pc[w]
  BY <1>2 DEF BeginUpload, CommitMode, ReadsTogether
<1>3. ASSUME NEW u \in Upload, UploadStep(u), ~BeginUpload(u)
      PROVE  /\ mode' = mode /\ modeAt' = modeAt
             /\ pc[u] # "idle" /\ \A w \in Upload \ {u} : pc'[w] = pc[w]
  BY <1>3 DEF UploadStep, Grant, GiveUp, Stage, DriveCreates, UploadFails, Reject, Commit, db
<1>4. ASSUME OtherStep
      PROVE  mode' = "Disabled" => mode = "Disabled"
  BY <1>4 DEF OtherStep, DeleteStep, Authorize, ReadForBulk, DeleteRefused, PerformDelete,
              DrainStep, DrainRemoves, DrainCompletes, DrainFails, AdminStep,
              DeleteObjectVersion, PutBucketVersioning, InspectStep, Touch, LookUp,
              Reconcile, DownloadNotFound, WorkerStep, WorkerFetch, WorkerRemoves,
              WorkerCompletes, WorkerRetries, db
<1>5. ASSUME OtherStep
      PROVE  \A p \in Request : modeAt'[p] \in {modeAt[p], mode}
  BY <1>5 DEF OtherStep, DeleteStep, Authorize, ReadForBulk, DeleteRefused, PerformDelete,
              DrainStep, DrainRemoves, DrainCompletes, DrainFails, AdminStep,
              DeleteObjectVersion, PutBucketVersioning, InspectStep, Touch, LookUp,
              Reconcile, DownloadNotFound, WorkerStep, WorkerFetch, WorkerRemoves,
              WorkerCompletes, WorkerRetries, memory
<1>6. ASSUME NEW S \in SUBSET Unfinished, NEW W \in SUBSET Upload, Restart(S, W)
      PROVE  mode' = mode
  BY <1>6 DEF Restart
<1>7. CASE OtherStep
  BY <1>4, <1>5, <1>7, OtherSteps
<1> QED
  BY <1>1, <1>2, <1>3, <1>6, <1>7, RestartMoves DEF Next, OtherStep

LEMMA SettingStep ==
  ASSUME TypeOK, FilesInv, RowsInv, OriginInv, SettingInv, ReadsTogether, [Next]_vars
  PROVE  SettingInv'
<1>1. DisabledIsFirst'
  BY SettingMoves DEF SettingInv, DisabledIsFirst
<1>2. \A u \in Upload : HasTicket(u) <=> pc[u] # "idle"
  BY DEF HasTicket, Puts, ReadsTogether, FilesInv, StagingFollowsHandler
<1>3. \A u \in Upload : pc'[u] # "idle" => HasTicket(u)'
  BY DEF HasTicket, Puts, ReadsTogether
<1>4. DisabledWritesFirst'
  <2>1. CASE TicketsKept(Upload)
    BY <1>2, <1>3, <2>1, TicketMoves DEF TicketsKept, SettingInv, DisabledWritesFirst
  <2>2. ASSUME NEW x \in Upload, TicketDrawn(x) PROVE DisabledWritesFirst'
    <3>1. \A w \in Upload : ticket[w] \in Nat /\ ticket[w] < clock
      BY DEF TypeOK, RowsInv, IdsPast
    <3>2. pc[x] = "idle" /\ ticket'[x] = clock
          /\ \A w \in Upload \ {x} : ticket'[w] = ticket[w] /\ (pc'[w] # "idle" => pc[w] # "idle")
      BY <1>2, <1>3, <2>2 DEF TicketDrawn, TicketsKept
    <3>3. \A w \in Upload : pc[w] # "idle" => modeAt'[w] = modeAt[w]
      BY TicketMoves
    <3>4. pc'[x] # "idle" => modeAt'[x] = mode
      BY <3>2, SettingMoves
    <3>5. mode = "Disabled" => \A w \in Upload : modeAt[w] = "Disabled"
      BY DEF SettingInv, DisabledIsFirst
    <3> QED
      BY <3>1, <3>2, <3>3, <3>4, <3>5 DEF SettingInv, DisabledWritesFirst
  <2> QED
    BY <2>1, <2>2, TicketMoves
<1>5. \A u \in Upload : staging[u] = "committed" =>
         staging'[u] = "committed" /\ modeAt'[u] = modeAt[u]
  BY StagingMoves, TicketMoves DEF FilesInv, StagingFollowsHandler
<1>6. DisabledSeesOldRows'
  <2>1. \A d \in Deleter : seen[d] \subseteq ObjectRow /\ d \in Request
    BY DEF TypeOK
  <2>2. ASSUME NEW d \in Deleter, pc'[d] # "authorized", modeAt'[d] = modeAt[d],
               seen'[d] \subseteq seen[d]
        PROVE  /\ pc'[d] # "authorized"
               /\ \A s \in seen'[d] : /\ staging'[s.file] = "committed"
                                      /\ modeAt'[d] = "Disabled" => modeAt'[s.file] # "Enabled"
    BY <1>5, <2>1, <2>2 DEF SettingInv, DisabledSeesOldRows, ObjectRow
  <2>3. ASSUME NEW d \in Deleter, Authorize(d)
        PROVE  DisabledSeesOldRows'
    <3>1. /\ modeAt'[d] = mode /\ pc'[d] # "authorized" /\ seen'[d] \subseteq objects
          /\ \A e \in Deleter \ {d} : /\ pc'[e] = pc[e] /\ modeAt'[e] = modeAt[e]
                                      /\ seen'[e] = seen[e]
      BY <2>3 DEF Authorize, TypeOK, ReadsTogether, ActiveAt, RowAt
    <3>2. \A s \in objects : /\ s.file \in Upload /\ staging[s.file] = "committed"
                             /\ mode = "Disabled" => modeAt[s.file] # "Enabled"
      BY DEF OriginInv, RowsHaveOrigins, Origin, SettingInv, DisabledIsFirst, TypeOK, ObjectRow
    <3>3. \A s \in seen'[d] : /\ staging'[s.file] = "committed"
                              /\ modeAt'[d] = "Disabled" => modeAt'[s.file] # "Enabled"
      BY <1>5, <3>1, <3>2
    <3>4. \A e \in Deleter \ {d} : pc'[e] # "authorized"
      BY <3>1 DEF SettingInv, DisabledSeesOldRows
    <3> QED
      BY <2>2, <3>1, <3>3, <3>4 DEF DisabledSeesOldRows
  <2>4. ASSUME NEW d \in Deleter, DeleteStep(d), ~Authorize(d)
        PROVE  DisabledSeesOldRows'
    <3>1. pc[d] # "authorized"
      BY DEF SettingInv, DisabledSeesOldRows
    <3>2. /\ seen' = [seen EXCEPT ![d] = {}] /\ modeAt' = modeAt
          /\ \E at \in {"done", "draining"} : pc' = [pc EXCEPT ![d] = at]
      BY <2>4, <3>1 DEF DeleteStep, ReadForBulk, DeleteRefused, PerformDelete,
                        DeleteUnversioned, DeleteVersioned
    <3>3. \A e \in Deleter : pc'[e] # "authorized" /\ modeAt'[e] = modeAt[e] /\ seen'[e] \subseteq seen[e]
      BY <3>2 DEF TypeOK, SettingInv, DisabledSeesOldRows
    <3> QED
      BY <2>2, <3>3 DEF DisabledSeesOldRows
  <2>5. ASSUME \A e \in Deleter : pc'[e] # "authorized" /\ modeAt'[e] = modeAt[e] /\ seen'[e] \subseteq seen[e]
        PROVE  DisabledSeesOldRows'
    BY <2>2, <2>5 DEF DisabledSeesOldRows
  <2>6. \A e \in Deleter : pc[e] # "authorized"
    BY DEF SettingInv, DisabledSeesOldRows
  <2>7. CASE UNCHANGED vars
    BY <2>5, <2>6, <2>7 DEF vars, memory
  <2>8. ASSUME NEW u \in Upload, UploadStep(u) PROVE DisabledSeesOldRows'
    <3>1. \A e \in Deleter : pc'[e] = pc[e] /\ modeAt'[e] = modeAt[e] /\ seen'[e] = seen[e]
      BY <2>8 DEF UploadStep, BeginUpload, Grant, GiveUp, Stage, DriveCreates, UploadFails,
                  Reject, Commit, TypeOK
    <3> QED
      BY <2>5, <2>6, <3>1
  <2>9. ASSUME NEW p \in Request, DrainStep(p) PROVE DisabledSeesOldRows'
    <3>1. /\ modeAt' = modeAt /\ seen' = seen
          /\ \E at \in {"drained", "done"} : pc' = [pc EXCEPT ![p] = at]
      BY <2>9 DEF DrainStep, DrainRemoves, DrainCompletes, DrainFails
    <3> QED
      BY <2>5, <2>6, <3>1 DEF TypeOK
  <2>10. CASE AdminStep \/ InspectStep \/ WorkerStep
    <3>1. UNCHANGED <<pc, modeAt, seen>>
      BY <2>10 DEF AdminStep, DeleteObjectVersion, PutBucketVersioning, InspectStep, Touch,
                   LookUp, Reconcile, DownloadNotFound, WorkerStep, WorkerFetch, WorkerRemoves,
                   WorkerCompletes, WorkerRetries, memory
    <3> QED
      BY <2>5, <2>6, <3>1
  <2>11. ASSUME NEW S \in SUBSET Unfinished, NEW W \in SUBSET Upload, Restart(S, W)
         PROVE  DisabledSeesOldRows'
    <3>1. modeAt' = modeAt /\ seen' = [d \in Deleter |-> {}]
          /\ \A d \in Deleter : pc'[d] \in {"idle", "done"}
      BY <2>11 DEF Restart, LoseMemory
    <3> QED
      BY <2>5, <3>1
  <2> QED
    BY <2>3, <2>4, <2>7, <2>8, <2>9, <2>10, <2>11 DEF Next
<1> QED
  BY <1>1, <1>4, <1>6 DEF SettingInv

\* Whose commit meets a row with a drawn version id read a setting after it.
LEMMA CommitMeetsOldRows ==
  ASSUME TypeOK, FilesInv, OriginInv, OrderInv, SettingInv, ReadsTogether,
         NEW u \in Upload, Commit(u), NEW r \in RowAt(Target[u]), ~ArchivesPrevious(r, modeAt[u])
  PROVE  r.ver = NullVersion
<1> SUFFICES ASSUME r.ver # NullVersion PROVE FALSE
  OBVIOUS
<1>1. modeAt[u] = "Disabled"
  BY DEF ArchivesPrevious, TypeOK, Mode
<1>2. r \in objects /\ r.key = Target[u] /\ r.file \in Upload
  BY DEF RowAt, TypeOK, ObjectRow
<1>3. staging[r.file] = "committed" /\ Target[r.file] = Target[u] /\ modeAt[r.file] = "Enabled"
  BY <1>2 DEF OriginInv, RowsHaveOrigins, Origin
<1>4. pc[u] = "sent" /\ staging[u] = "uploading" /\ pc[r.file] # "idle"
  BY <1>2, <1>3 DEF Commit, FilesInv, StagingFollowsHandler
<1>5. ticket[r.file] < ticket[u]
  BY <1>2, <1>3, <1>4 DEF OrderInv, WritersAreLater, Rivals, Writing, Puts, ReadsTogether
<1>6. ticket[u] < ticket[r.file]
  BY <1>1, <1>2, <1>3, <1>4 DEF SettingInv, DisabledWritesFirst
<1>7. ticket[u] \in Nat /\ ticket[r.file] \in Nat
  BY <1>2 DEF TypeOK
<1> QED
  BY <1>5, <1>6, <1>7

LEMMA DeleteMeetsOldRows ==
  ASSUME TypeOK, OriginInv, SettingInv, NEW d \in Deleter, NEW r \in StillCurrent(d),
         ~ArchivesPrevious(r, modeAt[d])
  PROVE  r.ver = NullVersion
<1>1. r \in objects /\ \E s \in seen[d] : r.file = s.file
  BY DEF StillCurrent, ActiveAt, RowAt
<1>2. modeAt[d] = "Disabled" => modeAt[r.file] # "Enabled"
  BY <1>1 DEF SettingInv, DisabledSeesOldRows
<1>3. modeAt[d] \in Mode
  BY DEF TypeOK
<1> QED
  BY <1>1, <1>2, <1>3 DEF ArchivesPrevious, Mode, OriginInv, RowsHaveOrigins, Origin

VersionedKept ==
    \A f \in Upload :
        (/\ \E r \in objects \cup versions : r.file = f /\ r.ver # NullVersion
         /\ f \in cleanup' \ cleanup) => events' # events

LEMMA VersionedKeptStep ==
  ASSUME TypeOK, FilesInv, OriginInv, OrderInv, SettingInv, ReadsTogether, Next
  PROVE  VersionedKept
<1> SUFFICES ASSUME NEW f \in Upload, NEW r \in objects \cup versions,
                    r.file = f, r.ver # NullVersion, f \in cleanup' \ cleanup
             PROVE  events' # events
  BY DEF VersionedKept
<1>1. Referenced(f) /\ f \notin Unpublished
  BY DEF Referenced, FilesInv, UnpublishedUntouched
<1>2. \A o \in objects : o.file = f => o = r
  BY DEF FilesInv, NoSharedFile
<1>3. ASSUME NEW u \in Upload, UploadStep(u) PROVE FALSE
  <2>1. CASE Reject(u)
    <3>1. f = u
      BY <2>1 DEF Reject, RejectQueues
    <3>2. staging[u] = "uploading"
      BY <2>1 DEF Reject, FilesInv, StagingFollowsHandler
    <3> QED
      BY <1>1, <3>1, <3>2 DEF Unpublished
  <2>2. CASE Commit(u)
    <3>1. f \in QueuesReplaced(RowAt(Target[u]), modeAt[u])
      BY <2>2 DEF Commit
    <3>2. PICK o \in RowAt(Target[u]) : ~ArchivesPrevious(o, modeAt[u]) /\ o.file = f
      BY <3>1 DEF QueuesReplaced
    <3>3. o = r
      BY <1>2, <3>2 DEF RowAt
    <3> QED
      BY <2>2, <3>2, <3>3, CommitMeetsOldRows
  <2> QED
    BY <1>3, <2>1, <2>2 DEF UploadStep, BeginUpload, Grant, GiveUp, Stage, DriveCreates,
                            UploadFails, db
<1>4. ASSUME NEW d \in Deleter, DeleteStep(d) PROVE FALSE
  <2>1. PerformDelete(d)
    BY <1>4 DEF DeleteStep, Authorize, ReadForBulk, DeleteRefused, db
  <2>2. PICK o \in StillCurrent(d) :
           IF modeAt[d] = "Disabled" THEN DeleteUnversioned(d, o) ELSE DeleteVersioned(d, o)
    BY <2>1 DEF PerformDelete
  <2>3. f = o.file /\ ~ArchivesPrevious(o, modeAt[d])
    BY <2>2 DEF DeleteUnversioned, DeleteVersioned, ArchivesPrevious
  <2>4. o = r
    BY <1>2, <2>3 DEF StillCurrent, ActiveAt, RowAt
  <2> QED
    BY <2>3, <2>4, DeleteMeetsOldRows
<1>5. CASE AdminStep
  BY <1>5 DEF AdminStep, DeleteObjectVersion, PutBucketVersioning, Event, TypeOK
<1>6. ASSUME \/ \E p \in Request : DrainStep(p)
             \/ InspectStep \/ WorkerStep
      PROVE  FALSE
  BY <1>6 DEF DrainStep, DrainRemoves, DrainCompletes, DrainFails, InspectStep, Touch,
              LookUp, Reconcile, DownloadNotFound, WorkerStep, WorkerFetch,
              WorkerRemoves, WorkerCompletes, WorkerRetries, db
<1>7. ASSUME NEW S \in SUBSET Unfinished, NEW W \in SUBSET Upload, Restart(S, W) PROVE FALSE
  BY <1>1, <1>7 DEF Restart, OrphansOf, Unfinished, Unpublished
<1> QED
  BY <1>3, <1>4, <1>5, <1>6, <1>7 DEF Next

\* Where every write is a put or a delete of one key, bytes written under
\* versioning are let go only by a delete that names their version.
THEOREM VersionsKept ==
  ASSUME ReadsTogether
  PROVE  Spec => VersionedBytesKept
<1>1. Spec => [](TypeOK /\ FilesInv /\ RowsInv /\ OriginInv /\ OrderInv)
  BY FilesAlways, OriginAlways, OrderAlways, PTL
<1>2. TypeOK /\ FilesInv /\ RowsInv /\ OriginInv /\ SettingInv /\ [Next]_vars => SettingInv'
  BY SettingStep
<1>3. Spec => []SettingInv
  BY <1>1, <1>2, InitSetting, PTL DEF Spec
<1>4. (TypeOK /\ FilesInv /\ OriginInv /\ OrderInv /\ SettingInv) /\ [Next]_vars => [VersionedKept]_vars
  BY VersionedKeptStep
<1>5. Spec => [][VersionedKept]_vars
  BY <1>1, <1>3, <1>4, PTL DEF Spec
<1> QED
  BY <1>5 DEF VersionedBytesKept, VersionedKept

-----------------------------------------------------------------------------
(***************************************************************************)
(* Files in Drive.  Nothing knows a file before Drive has made it, and a   *)
(* file leaves the removal queue only when it is gone.                     *)
(***************************************************************************)

DrainsOne == \A p \in Request : \A f, g \in draining[p] : f = g
DrainedIsGone ==
    \A p \in Request : pc[p] = "drained" => \A f \in draining[p] : drive[f] = "gone"
ErasedIsGone == \A f \in erasing : drive[f] = "gone"
RemovalsQueued == \A f \in Upload : BeingRemoved(f) => f \in cleanup \/ drive[f] = "gone"
Known(f) == pc[f] = "sent" \/ f \in recorded \/ BeingRemoved(f) \/ Referenced(f)
UnmadeUnknown == \A f \in Upload : drive[f] = "none" => ~Known(f)
NotYetMade ==
    \A u \in Upload : pc[u] \in {"idle", "waiting", "locked", "slot"} => drive[u] = "none"
RecordedIsPast == \A u \in recorded : staging[u] \in {"uploaded", "committed", "failed"}
DriveInv ==
    /\ DrainsOne /\ DrainedIsGone /\ ErasedIsGone /\ RemovalsQueued
    /\ UnmadeUnknown /\ NotYetMade /\ RecordedIsPast

LEMMA InitDrive == Init => DriveInv
  BY DEF Init, DriveInv, DrainsOne, DrainedIsGone, ErasedIsGone, RemovalsQueued, UnmadeUnknown,
         NotYetMade, RecordedIsPast, Known, BeingRemoved, Referenced

\* What a step may do to a file in Drive.
LEMMA DriveMoves ==
  ASSUME TypeOK, FilesInv, DriveInv, [Next]_vars, NEW f \in Upload
  PROVE  /\ drive[f] = "gone" => drive'[f] = "gone"
         /\ drive[f] # "none" => drive'[f] # "none"
         /\ \/ drive'[f] = drive[f]
            \/ DriveCreates(f) /\ drive[f] = "none" /\ drive'[f] = "present" /\ pc'[f] = "sent"
            \/ drive'[f] = "gone" /\ BeingRemoved(f) /\ drive[f] \notin {"none", "gone"}
            \/ {drive[f], drive'[f]} \subseteq {"present", "altered", "removed"}
<1> USE DEF TypeOK
<1>1. CASE UNCHANGED vars
  BY <1>1 DEF vars
<1>2. ASSUME NEW u \in Upload, UploadStep(u)
      PROVE  \/ drive' = drive
             \/ /\ DriveCreates(u) /\ drive[u] = "none" /\ pc'[u] = "sent"
                /\ drive' = [drive EXCEPT ![u] = "present"]
  BY <1>2 DEF UploadStep, BeginUpload, Grant, GiveUp, Stage, DriveCreates, UploadFails, Reject,
              Commit, DriveInv, NotYetMade
<1>3. ASSUME NEW d \in Deleter, DeleteStep(d) PROVE drive' = drive
  BY <1>3 DEF DeleteStep, Authorize, ReadForBulk, DeleteRefused, PerformDelete
<1>4. ASSUME NEW g \in Upload, BeingRemoved(g), drive[g] # "gone", drive' = Remove(g)
      PROVE  /\ drive[g] \notin {"none", "gone"}
             /\ drive' = [drive EXCEPT ![g] = "gone"]
  BY <1>4 DEF Remove, DriveInv, UnmadeUnknown, Known
<1>5. ASSUME NEW p \in Request, DrainStep(p)
      PROVE  \/ drive' = drive
             \/ \E g \in Upload : BeingRemoved(g) /\ drive[g] # "gone" /\ drive' = Remove(g)
  BY <1>5 DEF DrainStep, DrainRemoves, DrainCompletes, DrainFails, BeingRemoved
<1>6. CASE AdminStep
  BY <1>6 DEF AdminStep, DeleteObjectVersion, PutBucketVersioning
<1>7. CASE InspectStep
  <2>1. CASE \E g \in Upload : Touch(g)
    BY <2>1 DEF Touch
  <2>2. CASE drive' = drive
    BY <2>2
  <2> QED
    BY <1>7, <2>1, <2>2 DEF InspectStep, LookUp, Reconcile, DownloadNotFound
<1>8. ASSUME WorkerStep
      PROVE  \/ drive' = drive
             \/ \E g \in Upload : BeingRemoved(g) /\ drive[g] # "gone" /\ drive' = Remove(g)
  BY <1>8 DEF WorkerStep, WorkerFetch, WorkerRemoves, WorkerCompletes, WorkerRetries, BeingRemoved
<1>9. ASSUME NEW S, NEW W, Restart(S, W) PROVE drive' = drive
  BY <1>9 DEF Restart
<1>10. CASE \E g \in Upload : BeingRemoved(g) /\ drive[g] # "gone" /\ drive' = Remove(g)
  BY <1>4, <1>10
<1> QED
  BY <1>1, <1>2, <1>3, <1>5, <1>6, <1>7, <1>8, <1>9, <1>10 DEF Next

\* A delete queues the file of the row it removes and starts to remove it, or
\* keeps it as a version.
DeleteQueues(d, S) ==
    /\ cleanup' = cleanup \cup S
    /\ draining' = [draining EXCEPT ![d] = S]
    /\ pc' = [pc EXCEPT ![d] = IF S = {} THEN "done" ELSE "draining"]

LEMMA DeleteMoves ==
  ASSUME TypeOK, NEW d \in Deleter, DeleteStep(d)
  PROVE  /\ UNCHANGED <<batch, erasing, drive>>
         /\ \/ UNCHANGED <<objects, versions, cleanup, draining>>
               /\ \E at \in {"authorized", "checking", "done"} : pc' = [pc EXCEPT ![d] = at]
            \/ PerformDelete(d) /\ \E r \in objects, S \in SUBSET Upload :
                                     S \subseteq {r.file} /\ DeleteQueues(d, S)
<1>1. CASE PerformDelete(d)
  <2>1. PICK r \in StillCurrent(d) :
           IF modeAt[d] = "Disabled" THEN DeleteUnversioned(d, r) ELSE DeleteVersioned(d, r)
    BY <1>1 DEF PerformDelete
  <2>2. r \in objects /\ r.file \in Upload
    BY DEF StillCurrent, ActiveAt, RowAt, TypeOK, ObjectRow
  <2>3. CASE DeleteUnversioned(d, r)
    <3>1. DeleteQueues(d, {r.file})
      BY <2>3 DEF DeleteUnversioned, DeleteQueues
    <3> QED
      BY <1>1, <2>2, <3>1 DEF PerformDelete
  <2>4. CASE DeleteVersioned(d, r)
    <3>1. CASE ArchivesPrevious(r, modeAt[d])
      <4>1. DeleteQueues(d, {})
        BY <2>4, <3>1 DEF DeleteVersioned, DeleteQueues
      <4> QED
        BY <1>1, <2>2, <4>1 DEF PerformDelete
    <3>2. CASE ~ArchivesPrevious(r, modeAt[d])
      <4>1. DeleteQueues(d, {r.file})
        BY <2>4, <3>2 DEF DeleteVersioned, DeleteQueues
      <4> QED
        BY <1>1, <2>2, <4>1 DEF PerformDelete
    <3> QED
      BY <3>1, <3>2
  <2> QED
    BY <2>1, <2>3, <2>4
<1>2. CASE ~PerformDelete(d)
  BY <1>2 DEF DeleteStep, Authorize, ReadForBulk, DeleteRefused, db
<1> QED
  BY <1>1, <1>2

\* A file becomes known when Drive answers with it, and not before.
LEMMA KnownMoves ==
  ASSUME TypeOK, FilesInv, [Next]_vars, NEW f \in Upload, Known(f)'
  PROVE  Known(f) \/ DriveCreates(f)
<1> USE DEF TypeOK
<1>1. ASSUME Referenced(f)' PROVE Known(f)
  <2>1. PICK r \in objects' \cup versions' : r.file = f
    BY <1>1 DEF Referenced
  <2>2. CASE \E o \in objects \cup versions : SameFile(r, o)
    BY <2>1, <2>2 DEF SameFile, Known, Referenced
  <2>3. ASSUME NEW u \in Upload, Commit(u), r = PublishedRow(u) PROVE Known(f)
    BY <2>1, <2>3 DEF Commit, PublishedRow, Known
  <2> QED
    BY <2>2, <2>3, RowsComeFrom
<1>2. \A r \in objects \cup versions : r.file = f => Known(f)
  BY DEF Known, Referenced
<1>3. f \in cleanup \cup batch \/ (\E p \in Request : f \in draining[p]) \/ f \in recorded => Known(f)
  BY DEF Known, BeingRemoved
<1>4. SUFFICES ASSUME ~Referenced(f)' PROVE Known(f) \/ DriveCreates(f)
  BY <1>1
<1>5. pc'[f] = "sent" \/ f \in recorded' \/ f \in cleanup' \cup batch'
      \/ \E p \in Request : f \in draining'[p]
  BY <1>4 DEF Known, BeingRemoved
<1>6. CASE UNCHANGED vars
  BY <1>3, <1>5, <1>6 DEF vars, db, memory, Known
<1>7. ASSUME NEW u \in Upload, UploadStep(u) PROVE Known(f) \/ DriveCreates(f)
  <2>1. pc[u] = "sent" => Known(u)
    BY DEF Known
  <2>2. CASE Commit(u)
    <3>1. \A g \in QueuesReplaced(RowAt(Target[u]), modeAt[u]) : \E r \in objects : r.file = g
      BY DEF QueuesReplaced, RowAt
    <3>2. pc'[f] = "sent" => pc[f] = "sent"
      BY <2>2 DEF Commit
    <3>3. f \in recorded' => f \in recorded \/ f = u
      BY <2>2 DEF Commit
    <3>4. f \in cleanup' \cup batch' => f \in cleanup \cup batch \/ \E r \in objects : r.file = f
      BY <2>2, <3>1 DEF Commit
    <3>5. \A p \in Request : f \in draining'[p] => f \in draining[p] \/ \E r \in objects : r.file = f
      BY <2>2, <3>1 DEF Commit
    <3> QED
      BY <1>2, <1>3, <1>5, <2>1, <2>2, <3>2, <3>3, <3>4, <3>5 DEF Commit, Known
  <2>3. CASE Reject(u)
    BY <1>3, <1>5, <2>1, <2>3 DEF Reject, RejectQueues, Known
  <2>4. CASE ~Commit(u) /\ ~Reject(u)
    <3>1. UNCHANGED <<recorded, cleanup, batch, draining>>
      BY <1>7, <2>4 DEF UploadStep, BeginUpload, Grant, GiveUp, Stage, DriveCreates, UploadFails, db
    <3>2. pc'[f] = "sent" => pc[f] = "sent" \/ DriveCreates(f)
      BY <1>7, <2>4 DEF UploadStep, BeginUpload, Grant, GiveUp, Stage, DriveCreates, UploadFails
    <3> QED
      BY <1>3, <1>5, <3>1, <3>2 DEF Known
  <2> QED
    BY <2>2, <2>3, <2>4
<1>8. ASSUME OtherStep PROVE Known(f)
  <2>1. recorded' = recorded /\ (pc'[f] = "sent" => pc[f] = "sent")
    BY <1>8, OtherSteps
  <2>2. f \in cleanup' \cup batch' => f \in cleanup \cup batch \/ \E r \in objects \cup versions : r.file = f
    <3>1. ASSUME NEW d \in Deleter, DeleteStep(d)
          PROVE  batch' = batch /\ (f \in cleanup' => f \in cleanup \/ \E r \in objects : r.file = f)
      BY <3>1, DeleteMoves DEF DeleteQueues
    <3>2. ASSUME NEW p \in Request, DrainStep(p)
          PROVE  batch' = batch /\ cleanup' \subseteq cleanup
      BY <3>2 DEF DrainStep, DrainRemoves, DrainCompletes, DrainFails, db
    <3>3. ASSUME AdminStep
          PROVE  batch' = batch /\ (f \in cleanup' => f \in cleanup \/ \E r \in objects \cup versions : r.file = f)
      BY <3>3 DEF AdminStep, PutBucketVersioning, DeleteObjectVersion, DeleteCurrentVersion,
                  DeleteArchivedVersion, DeleteMarker, Releases, memory
    <3>4. ASSUME InspectStep
          PROVE  batch' = batch /\ cleanup' = cleanup
      BY <3>4 DEF InspectStep, Touch, LookUp, Reconcile, DownloadNotFound, db, memory
    <3>5. ASSUME WorkerStep
          PROVE  batch' \subseteq cleanup \cup batch /\ cleanup' \subseteq cleanup
      BY <3>5 DEF WorkerStep, WorkerFetch, WorkerRemoves, WorkerCompletes, WorkerRetries, db
    <3> QED
      BY <1>8, <3>1, <3>2, <3>3, <3>4, <3>5 DEF OtherStep
  <2>3. ASSUME NEW p \in Request, f \in draining'[p]
        PROVE  f \in draining[p] \/ \E r \in objects : r.file = f
    <3>1. ASSUME NEW d \in Deleter, DeleteStep(d)
          PROVE  f \in draining[p] \/ \E r \in objects : r.file = f
      BY <2>3, <3>1, DeleteMoves DEF DeleteQueues
    <3>2. ASSUME NEW q \in Request, DrainStep(q)
          PROVE  f \in draining[p]
      BY <2>3, <3>2 DEF DrainStep, DrainRemoves, DrainCompletes, DrainFails
    <3>3. ASSUME AdminStep \/ InspectStep \/ WorkerStep
          PROVE  draining' = draining
      BY <3>3 DEF AdminStep, PutBucketVersioning, DeleteObjectVersion, InspectStep, Touch, LookUp,
                  Reconcile, DownloadNotFound, WorkerStep, WorkerFetch, WorkerRemoves,
                  WorkerCompletes, WorkerRetries, memory
    <3> QED
      BY <1>8, <2>3, <3>1, <3>2, <3>3 DEF OtherStep
  <2> QED
    BY <1>2, <1>3, <1>5, <2>1, <2>2, <2>3 DEF Known
<1>9. ASSUME NEW S \in SUBSET Unfinished, NEW W \in SUBSET Upload, Restart(S, W) PROVE Known(f)
  <2>1. /\ recorded' = recorded \cup W /\ \A u \in W : pc[u] = "sent"
        /\ cleanup' \subseteq cleanup \cup recorded \cup W /\ batch' = {}
        /\ draining' = [p \in Request |-> {}] /\ pc'[f] # "sent"
    BY <1>9 DEF Restart, LoseMemory, OrphansOf
  <2> QED
    BY <1>3, <1>5, <2>1 DEF Known
<1> QED
  BY <1>6, <1>7, <1>8, <1>9 DEF Next, OtherStep

Starting == {"idle", "waiting", "locked", "slot"}

\* No handler goes back to its beginning, and a staging row's file is recorded
\* when it is published, rejected, or left behind by a crash.
LEMMA NoReturn ==
  ASSUME TypeOK, FilesInv, [Next]_vars, NEW u \in Upload
  PROVE  /\ pc'[u] \in Starting => pc[u] \in Starting
         /\ u \in recorded' => u \in recorded \/ staging'[u] \in {"uploaded", "committed", "failed"}
<1> USE DEF TypeOK, Starting
<1>1. CASE UNCHANGED vars
  BY <1>1 DEF vars, db, memory
<1>2. ASSUME NEW w \in Upload, UploadStep(w)
      PROVE  pc[w] \in Starting \/ pc'[w] \notin Starting
  BY <1>2 DEF UploadStep, BeginUpload, Grant, GiveUp, Stage, DriveCreates, UploadFails, Reject, Commit
<1>3. ASSUME NEW w \in Upload, UploadStep(w)
      PROVE  \A v \in Upload \ {w} : pc'[v] = pc[v]
  BY <1>3 DEF UploadStep, BeginUpload, Grant, GiveUp, Stage, DriveCreates, UploadFails, Reject, Commit
<1>4. ASSUME NEW w \in Upload, UploadStep(w)
      PROVE  \/ recorded' = recorded
             \/ recorded' = recorded \cup {w} /\ staging'[w] \in {"committed", "failed"}
  BY <1>4 DEF UploadStep, BeginUpload, Grant, GiveUp, Stage, DriveCreates, UploadFails, Reject, Commit, db
<1>5. ASSUME NEW S \in SUBSET Unfinished, NEW W \in SUBSET Upload, Restart(S, W)
      PROVE  \A v \in W : staging'[v] \in {"uploaded", "failed"}
  BY <1>5, RestartMoves
<1>6. ASSUME NEW S \in SUBSET Unfinished, NEW W \in SUBSET Upload, Restart(S, W)
      PROVE  recorded' = recorded \cup W
  BY <1>6 DEF Restart
<1>7. ASSUME NEW w \in Upload, UploadStep(w)
      PROVE  /\ pc'[u] \in Starting => pc[u] \in Starting
             /\ u \in recorded' => u \in recorded \/ staging'[u] \in {"uploaded", "committed", "failed"}
  BY <1>2, <1>3, <1>4, <1>7
<1>8. CASE OtherStep
  BY <1>8, OtherSteps
<1>9. ASSUME NEW S \in SUBSET Unfinished, NEW W \in SUBSET Upload, Restart(S, W)
      PROVE  /\ pc'[u] \in Starting => pc[u] \in Starting
             /\ u \in recorded' => u \in recorded \/ staging'[u] \in {"uploaded", "committed", "failed"}
  <2>1. pc'[u] = IF pc[u] = "idle" THEN "idle" ELSE "done"
    BY <1>9, RestartMoves
  <2>2. u \in recorded' => u \in recorded \/ u \in W
    BY <1>6, <1>9
  <2>3. u \in W => staging'[u] \in {"uploaded", "failed"}
    BY <1>5, <1>9
  <2> QED
    BY <2>1, <2>2, <2>3
<1> QED
  BY <1>1, <1>7, <1>8, <1>9 DEF Next, OtherStep

\* Removals: what handlers and the worker hold is queued or gone.
RemovalInv == DrainsOne /\ DrainedIsGone /\ ErasedIsGone /\ RemovalsQueued

LEMMA RemovalFrame ==
  ASSUME TypeOK, RemovalInv, \A f \in Upload : drive[f] = "gone" => drive'[f] = "gone",
         cleanup \subseteq cleanup', batch' \subseteq batch, erasing' \subseteq erasing,
         \A p \in Request : /\ draining'[p] \subseteq draining[p]
                            /\ pc'[p] = "drained" => pc[p] = "drained"
  PROVE  RemovalInv'
<1>1. DrainsOne' /\ DrainedIsGone' /\ ErasedIsGone'
  BY DEF RemovalInv, DrainsOne, DrainedIsGone, ErasedIsGone, TypeOK
<1>2. RemovalsQueued'
  <2> SUFFICES ASSUME NEW f \in Upload, BeingRemoved(f)' PROVE f \in cleanup' \/ drive'[f] = "gone"
    BY DEF RemovalsQueued
  <2>1. BeingRemoved(f) \/ f \in cleanup'
    BY DEF BeingRemoved
  <2> QED
    BY <2>1 DEF RemovalInv, RemovalsQueued
<1> QED
  BY <1>1, <1>2 DEF RemovalInv

\* A handler takes on one file, and queues it with the same step.
LEMMA QueueFrame ==
  ASSUME TypeOK, RemovalInv, NEW p \in Request, NEW S \in SUBSET Upload, \A f, g \in S : f = g,
         UNCHANGED <<drive, batch, erasing>>, cleanup' = cleanup \cup S,
         draining' = [draining EXCEPT ![p] = S],
         pc'[p] # "drained", \A q \in Request \ {p} : pc'[q] = pc[q]
  PROVE  RemovalInv'
<1>1. draining'[p] = S /\ \A q \in Request \ {p} : draining'[q] = draining[q]
  BY DEF TypeOK
<1>2. DrainsOne' /\ DrainedIsGone' /\ ErasedIsGone'
  BY <1>1 DEF RemovalInv, DrainsOne, DrainedIsGone, ErasedIsGone
<1>3. RemovalsQueued'
  <2> SUFFICES ASSUME NEW f \in Upload, BeingRemoved(f)' PROVE f \in cleanup' \/ drive'[f] = "gone"
    BY DEF RemovalsQueued
  <2>1. BeingRemoved(f) \/ f \in S
    BY <1>1 DEF BeingRemoved
  <2> QED
    BY <2>1 DEF RemovalInv, RemovalsQueued
<1> QED
  BY <1>2, <1>3 DEF RemovalInv

\* A removal that is forgotten is of files that are gone.
LEMMA ForgetFrame ==
  ASSUME TypeOK, RemovalInv, NEW S \in SUBSET Upload, \A f \in S : drive[f] = "gone",
         drive' = drive, cleanup' = cleanup \ S, batch' \subseteq batch, erasing' = {} \/ erasing' = erasing,
         \A p \in Request : /\ draining'[p] \subseteq draining[p]
                            /\ pc'[p] = "drained" => pc[p] = "drained"
  PROVE  RemovalInv'
<1>1. DrainsOne' /\ DrainedIsGone' /\ ErasedIsGone'
  BY DEF RemovalInv, DrainsOne, DrainedIsGone, ErasedIsGone, TypeOK
<1>2. RemovalsQueued'
  <2> SUFFICES ASSUME NEW f \in Upload, BeingRemoved(f)' PROVE f \in cleanup' \/ drive'[f] = "gone"
    BY DEF RemovalsQueued
  <2>1. BeingRemoved(f)
    BY DEF BeingRemoved
  <2> QED
    BY <2>1 DEF RemovalInv, RemovalsQueued
<1> QED
  BY <1>1, <1>2 DEF RemovalInv

LEMMA RemovalStep ==
  ASSUME TypeOK, FilesInv, RowsInv, DriveInv, [Next]_vars
  PROVE  RemovalInv'
<1>1. RemovalInv /\ \A f \in Upload : drive[f] = "gone" => drive'[f] = "gone"
  BY DriveMoves DEF DriveInv, RemovalInv
<1>2. CASE UNCHANGED vars
  BY <1>1, <1>2, RemovalFrame DEF vars, db, memory
<1>3. ASSUME NEW u \in Upload, UploadStep(u) PROVE RemovalInv'
  <2>1. CASE Commit(u)
    <3> DEFINE S == QueuesReplaced(RowAt(Target[u]), modeAt[u])
    <3>1. S \in SUBSET Upload /\ \A f, g \in S : f = g
      BY DEF QueuesReplaced, RowAt, RowsInv, RowsUnique, TypeOK, ObjectRow
    <3>2. /\ UNCHANGED <<drive, batch, erasing>> /\ cleanup' = cleanup \cup S
          /\ draining' = [draining EXCEPT ![u] = S] /\ u \in Request
          /\ pc'[u] # "drained" /\ \A q \in Request \ {u} : pc'[q] = pc[q]
      BY <2>1 DEF Commit, TypeOK
    <3> HIDE DEF S
    <3> QED
      BY <1>1, <3>1, <3>2, QueueFrame
  <2>2. CASE ~Commit(u)
    <3>1. cleanup \subseteq cleanup' /\ batch' = batch /\ erasing' = erasing /\ draining' = draining
      BY <1>3, <2>2 DEF UploadStep, BeginUpload, Grant, GiveUp, Stage, DriveCreates, UploadFails,
                        Reject, db
    <3>2. \A p \in Request : pc'[p] = "drained" => pc[p] = "drained"
      BY <1>3, <2>2 DEF UploadStep, BeginUpload, Grant, GiveUp, Stage, DriveCreates, UploadFails,
                        Reject, TypeOK
    <3> QED
      BY <1>1, <3>1, <3>2, RemovalFrame
  <2> QED
    BY <2>1, <2>2
<1>4. ASSUME NEW d \in Deleter, DeleteStep(d) PROVE RemovalInv'
  <2>1. CASE UNCHANGED <<objects, versions, cleanup, draining>>
             /\ \E at \in {"authorized", "checking", "done"} : pc' = [pc EXCEPT ![d] = at]
    <3>1. \A p \in Request : pc'[p] = "drained" => pc[p] = "drained"
      BY <2>1 DEF TypeOK
    <3> QED
      BY <1>1, <1>4, <2>1, <3>1, DeleteMoves, RemovalFrame
  <2>2. ASSUME NEW r \in objects, NEW S \in SUBSET Upload, S \subseteq {r.file}, DeleteQueues(d, S)
        PROVE  RemovalInv'
    <3>1. pc'[d] # "drained" /\ \A q \in Request \ {d} : pc'[q] = pc[q]
      BY <2>2 DEF DeleteQueues, TypeOK
    <3>2. UNCHANGED <<drive, batch, erasing>>
      BY <1>4, DeleteMoves
    <3>3. \A f, g \in S : f = g
      BY <2>2
    <3>4. d \in Request /\ cleanup' = cleanup \cup S /\ draining' = [draining EXCEPT ![d] = S]
      BY <2>2 DEF DeleteQueues
    <3> QED
      BY <1>1, <3>1, <3>2, <3>3, <3>4, QueueFrame
  <2> QED
    BY <1>4, <2>1, <2>2, DeleteMoves
<1>5. ASSUME NEW p \in Request, DrainStep(p) PROVE RemovalInv'
  <2>1. CASE DrainRemoves(p)
    <3>1. PICK f \in draining[p] : drive' = Remove(f)
      BY <2>1 DEF DrainRemoves
    <3>2. \A g \in draining[p] : g = f /\ drive'[f] = "gone"
      BY <1>1, <3>1 DEF RemovalInv, DrainsOne, Remove, TypeOK
    <3>3. UNCHANGED <<cleanup, batch, erasing, draining>> /\ \A q \in Request \ {p} : pc'[q] = pc[q]
      BY <2>1 DEF DrainRemoves, db, TypeOK
    <3>4. DrainsOne' /\ ErasedIsGone'
      BY <1>1, <3>3 DEF RemovalInv, DrainsOne, ErasedIsGone, TypeOK
    <3>5. DrainedIsGone'
      <4>1. \A q \in Request : draining[q] \subseteq Upload
        BY DEF TypeOK
      <4> QED
        BY <1>1, <3>2, <3>3, <4>1 DEF RemovalInv, DrainedIsGone
    <3>6. RemovalsQueued'
      BY <1>1, <3>3 DEF RemovalInv, RemovalsQueued, BeingRemoved
    <3> QED
      BY <3>4, <3>5, <3>6 DEF RemovalInv
  <2>2. CASE DrainCompletes(p)
    <3>1. draining[p] \in SUBSET Upload /\ \A f \in draining[p] : drive[f] = "gone"
      BY <1>1, <2>2 DEF DrainCompletes, RemovalInv, DrainedIsGone, TypeOK
    <3>2. /\ UNCHANGED <<drive, batch, erasing>> /\ cleanup' = cleanup \ draining[p]
          /\ \A q \in Request : /\ draining'[q] \subseteq draining[q]
                                /\ pc'[q] = "drained" => pc[q] = "drained"
      BY <2>2 DEF DrainCompletes, TypeOK
    <3> QED
      BY <1>1, <3>1, <3>2, ForgetFrame
  <2>3. CASE DrainFails(p)
    <3>1. /\ UNCHANGED <<cleanup, batch, erasing>>
          /\ \A q \in Request : /\ draining'[q] \subseteq draining[q]
                                /\ pc'[q] = "drained" => pc[q] = "drained"
      BY <2>3 DEF DrainFails, db, TypeOK
    <3> QED
      BY <1>1, <3>1, RemovalFrame
  <2> QED
    BY <1>5, <2>1, <2>2, <2>3 DEF DrainStep
<1>6. CASE AdminStep \/ InspectStep
  <2>1. cleanup \subseteq cleanup' /\ UNCHANGED <<batch, erasing, draining, pc>>
    BY <1>6 DEF AdminStep, PutBucketVersioning, DeleteObjectVersion, DeleteCurrentVersion,
                DeleteArchivedVersion, DeleteMarker, InspectStep, Touch, LookUp, Reconcile,
                DownloadNotFound, db, memory
  <2> QED
    BY <1>1, <2>1, RemovalFrame
<1>7. CASE WorkerStep
  <2>1. ASSUME NEW S \in SUBSET cleanup, WorkerFetch(S) PROVE RemovalInv'
    <3>1. UNCHANGED <<cleanup, drive, erasing, draining, pc>> /\ batch' \subseteq cleanup
      BY <2>1 DEF WorkerFetch, db
    <3> QED
      BY <1>1, <3>1 DEF RemovalInv, DrainsOne, DrainedIsGone, ErasedIsGone, RemovalsQueued, BeingRemoved
  <2>2. ASSUME NEW f \in batch, WorkerRemoves(f) PROVE RemovalInv'
    <3>1. UNCHANGED <<cleanup, batch, draining, pc>> /\ erasing' = {f} /\ drive'[f] = "gone"
      BY <2>2 DEF WorkerRemoves, Remove, db, TypeOK
    <3>2. \A q \in Request : draining[q] \subseteq Upload
      BY DEF TypeOK
    <3> QED
      BY <1>1, <3>1, <3>2 DEF RemovalInv, DrainsOne, DrainedIsGone, ErasedIsGone, RemovalsQueued, BeingRemoved
  <2>3. ASSUME NEW f \in batch, WorkerCompletes(f) PROVE RemovalInv'
    <3>1. drive[f] = "gone" /\ f \in Upload
      BY <1>1, <2>3 DEF WorkerCompletes, Confirmed, RemovalInv, ErasedIsGone, TypeOK
    <3>2. /\ UNCHANGED <<drive, draining, pc>> /\ cleanup' = cleanup \ {f} /\ batch' \subseteq batch
          /\ erasing' = {}
      BY <2>3 DEF WorkerCompletes
    <3>3. {f} \in SUBSET Upload /\ \A g \in {f} : drive[g] = "gone"
      BY <3>1
    <3> QED
      BY <1>1, <3>2, <3>3, ForgetFrame
  <2>4. ASSUME NEW f \in batch, WorkerRetries(f) PROVE RemovalInv'
    <3>1. UNCHANGED <<cleanup, draining, pc>> /\ batch' \subseteq batch /\ erasing' \subseteq erasing
      BY <2>4 DEF WorkerRetries, db
    <3> QED
      BY <1>1, <3>1, RemovalFrame
  <2> QED
    BY <1>7, <2>1, <2>2, <2>3, <2>4 DEF WorkerStep
<1>8. ASSUME NEW S, NEW W, Restart(S, W) PROVE RemovalInv'
  <2>1. /\ cleanup \subseteq cleanup' /\ batch' = {} /\ erasing' = {}
        /\ \A p \in Request : draining'[p] = {} /\ pc'[p] # "drained"
    BY <1>8 DEF Restart, LoseMemory
  <2> QED
    BY <1>1, <2>1, RemovalFrame
<1> QED
  BY <1>2, <1>3, <1>4, <1>5, <1>6, <1>7, <1>8 DEF Next

LEMMA DriveStep == TypeOK /\ FilesInv /\ RowsInv /\ DriveInv /\ [Next]_vars => DriveInv'
<1> SUFFICES ASSUME TypeOK, FilesInv, RowsInv, DriveInv, [Next]_vars PROVE DriveInv'
  OBVIOUS
<1>1. UnmadeUnknown'
  <2> SUFFICES ASSUME NEW f \in Upload, drive'[f] = "none", Known(f)' PROVE FALSE
    BY DEF UnmadeUnknown
  <2>1. drive[f] = "none" /\ ~Known(f)
    BY DriveMoves DEF DriveInv, UnmadeUnknown
  <2>2. DriveCreates(f)
    BY <2>1, KnownMoves
  <2> QED
    BY <2>2 DEF DriveCreates, TypeOK
<1>2. NotYetMade'
  <2> SUFFICES ASSUME NEW u \in Upload, pc'[u] \in Starting PROVE drive'[u] = "none"
    BY DEF NotYetMade, Starting
  <2>1. pc[u] \in Starting /\ drive[u] = "none" /\ ~BeingRemoved(u)
    BY NoReturn DEF DriveInv, NotYetMade, UnmadeUnknown, Known, Starting
  <2> QED
    BY <2>1, DriveMoves DEF Starting
<1>3. RecordedIsPast'
  <2> SUFFICES ASSUME NEW u \in recorded' PROVE staging'[u] \in {"uploaded", "committed", "failed"}
    BY DEF RecordedIsPast
  <2>1. u \in Upload
    <3>1. recorded' \subseteq Upload
      BY NextTyped DEF TypeOK
    <3> QED
      BY <3>1
  <2>2. u \in recorded => staging[u] \in {"uploaded", "committed", "failed"}
    BY DEF DriveInv, RecordedIsPast
  <2> QED
    BY <2>1, <2>2, NoReturn, StagingMoves
<1> QED
  BY <1>1, <1>2, <1>3, RemovalStep DEF DriveInv, RemovalInv

LEMMA DriveAlways == Spec => []DriveInv
  BY InitDrive, DriveStep, FilesAlways, PTL DEF Spec

-----------------------------------------------------------------------------
(***************************************************************************)
(* Delete markers.  The latest marker of a key and a current row of the    *)
(* key exclude each other.                                                 *)
(***************************************************************************)

MarkersHide == \A m \in markers : m.latest => RowAt(m.key) = {}

LEMMA HideFrame ==
  ASSUME MarkersHide, markers' = markers, \A o \in objects' : \E p \in objects : p.key = o.key
  PROVE  MarkersHide'
  BY DEF MarkersHide, RowAt

\* A step that clears the latest flag of one key, whose row may be new.
LEMMA HideFrameAt ==
  ASSUME TypeOK, MarkersHide, NEW k, NEW ms \in SUBSET markers, markers' = ClearLatest(ms, k),
         \A o \in objects' : o.key = k \/ \E p \in objects : p.key = o.key
  PROVE  MarkersHide'
<1> SUFFICES ASSUME NEW m \in markers', m.latest, NEW o \in objects', o.key = m.key PROVE FALSE
  BY DEF MarkersHide, RowAt
<1>1. m \in markers /\ m.key # k
  BY ClearLatestHides DEF TypeOK
<1>2. \E p \in objects : p.key = m.key
  BY <1>1
<1> QED
  BY <1>1, <1>2 DEF MarkersHide, RowAt

LEMMA PromoteHides ==
  ASSUME TypeOK, MarkersHide, NEW k, NEW existing \in SUBSET RowAt(k),
         NEW ms \in SUBSET markers, Promote(k, existing, versions, ms)
  PROVE  MarkersHide'
<1> DEFINE newest == NewestVersion({r \in versions : r.key = k})
<1>1. \A n \in newest : PromotedRow(n, existing).key = k
  BY DEF NewestVersion, PromotedRow
<1>2. \A o \in objects' : o \in objects \/ \E n \in newest : o = PromotedRow(n, existing)
  BY DEF Promote, RowAt
<1>3. \A o \in objects' : o.key = k \/ \E p \in objects : p.key = o.key
  BY <1>1, <1>2
<1>4. markers' = ClearLatest(ms, k)
  BY DEF Promote
<1> QED
  BY <1>3, <1>4, HideFrameAt

LEMMA HideStep == TypeOK /\ RowsInv /\ MarkersHide /\ [Next]_vars => MarkersHide'
<1> SUFFICES ASSUME TypeOK, RowsInv, MarkersHide, [Next]_vars PROVE MarkersHide'
  OBVIOUS
<1>1. CASE UNCHANGED vars
  BY <1>1, HideFrame DEF vars, db
<1>2. ASSUME NEW u \in Upload, UploadStep(u) PROVE MarkersHide'
  <2>1. CASE Commit(u)
    <3>1. markers' = ClearLatest(markers, Target[u]) /\ markers \in SUBSET markers
      BY <2>1 DEF Commit
    <3>2. \A o \in objects' : o.key = Target[u] \/ \E p \in objects : p.key = o.key
      BY <2>1 DEF Commit, PublishedRow
    <3> QED
      BY <3>1, <3>2, HideFrameAt
  <2>2. CASE ~Commit(u)
    BY <1>2, <2>2, HideFrame DEF UploadStep, BeginUpload, Grant, GiveUp, Stage, DriveCreates,
                              UploadFails, Reject, db
  <2> QED
    BY <2>1, <2>2
<1>3. ASSUME NEW d \in Deleter, DeleteStep(d) PROVE MarkersHide'
  <2>1. CASE PerformDelete(d)
    <3>1. PICK r \in StillCurrent(d) :
             IF modeAt[d] = "Disabled" THEN DeleteUnversioned(d, r) ELSE DeleteVersioned(d, r)
      BY <2>1 DEF PerformDelete
    <3>2. r \in objects /\ \A o \in objects : o.key = r.key => o = r
      BY DEF StillCurrent, ActiveAt, RowAt, RowsInv, RowsUnique
    <3>3. CASE DeleteUnversioned(d, r)
      BY <3>3, HideFrame DEF DeleteUnversioned
    <3>4. CASE DeleteVersioned(d, r)
      <4> SUFFICES ASSUME NEW m \in markers', m.latest, NEW o \in objects', o.key = m.key PROVE FALSE
        BY DEF MarkersHide, RowAt
      <4>1. o \in objects /\ o.key # r.key
        BY <3>2, <3>4 DEF DeleteVersioned
      <4>2. m \in ClearLatest(markers, r.key) \/ m.key = r.key
        BY <3>4 DEF DeleteVersioned, WithoutNull
      <4>3. m \in markers
        BY <4>1, <4>2, ClearLatestHides DEF TypeOK
      <4> QED
        BY <4>1, <4>3 DEF MarkersHide, RowAt
    <3> QED
      BY <3>1, <3>3, <3>4
  <2>2. CASE ~PerformDelete(d)
    BY <1>3, <2>2, HideFrame DEF DeleteStep, Authorize, ReadForBulk, DeleteRefused, db
  <2> QED
    BY <2>1, <2>2
<1>4. CASE AdminStep
  <2>1. ASSUME NEW m \in Modes, PutBucketVersioning(m) PROVE MarkersHide'
    BY <2>1, HideFrame DEF PutBucketVersioning
  <2>2. ASSUME NEW r \in objects, DeleteCurrentVersion(r) PROVE MarkersHide'
    <3>1. {} \in SUBSET RowAt(r.key) /\ markers \in SUBSET markers /\ Promote(r.key, {}, versions, markers)
      BY <2>2 DEF DeleteCurrentVersion
    <3> QED
      BY <3>1, PromoteHides
  <2>3. ASSUME NEW r \in versions, DeleteArchivedVersion(r) PROVE MarkersHide'
    BY <2>3, HideFrame DEF DeleteArchivedVersion
  <2>4. ASSUME NEW m \in markers, DeleteMarker(m) PROVE MarkersHide'
    <3>1. /\ RowAt(m.key) \in SUBSET RowAt(m.key) /\ markers \ {m} \in SUBSET markers
          /\ Promote(m.key, RowAt(m.key), versions, markers \ {m})
      BY <2>4 DEF DeleteMarker
    <3> QED
      BY <3>1, PromoteHides
  <2> QED
    BY <1>4, <2>1, <2>2, <2>3, <2>4 DEF AdminStep, DeleteObjectVersion
<1>5. CASE InspectStep
  <2>1. markers' = markers /\ \A o \in objects' : \E p \in objects : p.key = o.key
    BY <1>5, MarkedRows DEF SameFile, InspectStep, Touch, LookUp, Reconcile, DownloadNotFound, db
  <2> QED
    BY <2>1, HideFrame
<1>6. CASE \/ \E p \in Request : DrainStep(p)
           \/ WorkerStep
           \/ \E S \in SUBSET Unfinished, W \in SUBSET Upload : Restart(S, W)
  BY <1>6, HideFrame DEF DrainStep, DrainRemoves, DrainCompletes, DrainFails, WorkerStep,
              WorkerFetch, WorkerRemoves, WorkerCompletes, WorkerRetries, Restart, db
<1> QED
  BY <1>1, <1>2, <1>3, <1>4, <1>5, <1>6 DEF Next

LEMMA HideAlways == Spec => []MarkersHide
<1>1. Init => MarkersHide
  BY DEF Init, MarkersHide
<1> QED
  BY <1>1, HideStep, FilesAlways, PTL DEF Spec

\* Clearing the latest flag of a key with a current row changes nothing.
LEMMA NothingToClear ==
  ASSUME TypeOK, MarkersHide, NEW r \in objects
  PROVE  ClearLatest(markers, r.key) = markers
<1>1. \A m \in markers : m.key = r.key => ~m.latest
  BY DEF MarkersHide, RowAt
<1>2. \A m \in MarkerRow : ~m.latest => [m EXCEPT !.latest = FALSE] = m
  BY DEF MarkerRow
<1>3. \A m \in markers : m.key = r.key => [m EXCEPT !.latest = FALSE] = m
  BY <1>1, <1>2 DEF TypeOK
<1> DEFINE Ours == {n \in markers : n.key = r.key}
           Low(m) == [m EXCEPT !.latest = FALSE]
<1>4. \A m \in Ours : Low(m) = m
  BY <1>3
<1>5. {Low(m) : m \in Ours} = Ours
  <2> HIDE DEF Low, Ours
  <2> QED
    BY <1>4
<1> QED
  BY <1>5 DEF ClearLatest

OnlyUnhides ==
    \A o \in objects :
        (/\ markers # markers' /\ pc' = pc /\ mode' = mode
         /\ Cardinality(markers') < Cardinality(markers)
         /\ o.status = "active")
        => \E n \in objects' : n.key = o.key /\ n.file = o.file

LEMMA OnlyUnhidesStep ==
  ASSUME TypeOK, MarkersHide, "oldMarker" \notin VersionDeletes, Next
  PROVE  OnlyUnhides
<1> SUFFICES ASSUME NEW o \in objects, markers # markers', pc' = pc, o.status = "active"
             PROVE  \E n \in objects' : n.key = o.key /\ n.file = o.file
  BY DEF OnlyUnhides
<1>1. ASSUME NEW u \in Upload, Commit(u) PROVE FALSE
  <2>1. pc[u] = "sent" /\ pc'[u] # "sent"
    BY <1>1 DEF Commit, TypeOK
  <2> QED
    BY <2>1
<1>2. ASSUME NEW d \in Deleter, PerformDelete(d) PROVE FALSE
  <2>1. pc[d] = "checking" /\ pc'[d] # "checking"
    BY <1>2 DEF PerformDelete, DeleteUnversioned, DeleteVersioned, TypeOK
  <2> QED
    BY <2>1
<1>3. PICK m \in markers : DeleteMarker(m)
  <2>1. AdminStep
    BY <1>1, <1>2 DEF Next, UploadStep, BeginUpload, Grant, GiveUp, Stage, DriveCreates, UploadFails,
        Reject, DeleteStep, Authorize, ReadForBulk, DeleteRefused, DrainStep, DrainRemoves,
        DrainCompletes, DrainFails, InspectStep, Touch, LookUp, Reconcile, DownloadNotFound,
        WorkerStep, WorkerFetch, WorkerRemoves, WorkerCompletes, WorkerRetries, Restart, db
  <2>2. ASSUME NEW r \in objects, DeleteCurrentVersion(r) PROVE FALSE
    BY <2>2, NothingToClear DEF DeleteCurrentVersion, Promote
  <2> QED
    BY <2>1, <2>2 DEF AdminStep, DeleteObjectVersion, PutBucketVersioning, DeleteArchivedVersion
<1>4. RowAt(m.key) = {}
  BY <1>3 DEF DeleteMarker, MarkersHide
<1>5. o.key # m.key /\ objects \ RowAt(m.key) \subseteq objects'
  BY <1>3, <1>4 DEF DeleteMarker, Promote, RowAt
<1> QED
  BY <1>4, <1>5

\* Where clients delete latest delete markers only, deleting one never
\* replaces a row that is being served.
THEOREM MarkersOnlyUnhide ==
  ASSUME "oldMarker" \notin VersionDeletes
  PROVE  Spec => MarkerDeleteOnlyUnhides
<1>1. TypeOK /\ MarkersHide /\ [Next]_vars => [OnlyUnhides]_vars
  BY OnlyUnhidesStep
<1>2. Spec => [][OnlyUnhides]_vars
  BY <1>1, HideAlways, TypeCorrect, PTL DEF Spec
<1> QED
  BY <1>2 DEF MarkerDeleteOnlyUnhides, OnlyUnhides

-----------------------------------------------------------------------------
(***************************************************************************)
(* Buckets whose setting never changes.  Every handler then works with the *)
(* bucket's setting, a completion, which works as if it were 'Disabled',   *)
(* among them; and a delete marker is deleted while it hides its key only. *)
(* Copies are free to race.  The setting itself, and a completion in a     *)
(* versioned bucket, do leave two versions with one id, or a row that is   *)
(* neither kept nor queued.                                                *)
(***************************************************************************)

OneSetting ==
    /\ \E m \in Mode : Modes = {m} /\ (Completions # {} => m = "Disabled")
    /\ "oldMarker" \notin VersionDeletes

SettingFixed == mode \in Modes /\ \A p \in Request : modeAt[p] = mode

LEMMA FixedStep == OneSetting /\ TypeOK /\ SettingFixed /\ [Next]_vars => SettingFixed'
<1> SUFFICES ASSUME OneSetting, TypeOK, SettingFixed, [Next]_vars PROVE SettingFixed'
  OBVIOUS
<1>1. mode' = mode
  <2>1. \A m \in Modes : m = mode
    BY DEF OneSetting, SettingFixed
  <2>2. \A m \in Modes : ~PutBucketVersioning(m)
    BY <2>1 DEF PutBucketVersioning
  <2> QED
    BY <2>2 DEF Next, UploadStep, BeginUpload, Grant, GiveUp, Stage, DriveCreates, UploadFails, Reject,
           Commit, DeleteStep, Authorize, ReadForBulk, DeleteRefused, PerformDelete, DrainStep,
           DrainRemoves, DrainCompletes, DrainFails, AdminStep, DeleteObjectVersion,
           InspectStep, Touch, LookUp, Reconcile, DownloadNotFound, WorkerStep, WorkerFetch,
           WorkerRemoves, WorkerCompletes, WorkerRetries, Restart, LoseMemory, vars, db
<1>2. \A u \in Upload : CommitMode(u) = mode
  BY DEF OneSetting, SettingFixed, CommitMode
<1>3. modeAt' = modeAt \/ \E p \in Request : modeAt' = [modeAt EXCEPT ![p] = mode]
  <2>1. ASSUME NEW u \in Upload, UploadStep(u)
        PROVE  modeAt' = modeAt \/ \E p \in Request : modeAt' = [modeAt EXCEPT ![p] = mode]
    BY <1>2, <2>1 DEF UploadStep, BeginUpload, Grant, GiveUp, Stage, DriveCreates, UploadFails, Reject, Commit
  <2>2. ASSUME NEW d \in Deleter, DeleteStep(d)
        PROVE  modeAt' = modeAt \/ \E p \in Request : modeAt' = [modeAt EXCEPT ![p] = mode]
    BY <2>2 DEF DeleteStep, Authorize, ReadForBulk, DeleteRefused, PerformDelete
  <2> QED
    BY <2>1, <2>2 DEF Next, DrainStep, DrainRemoves, DrainCompletes, DrainFails, AdminStep,
           DeleteObjectVersion, PutBucketVersioning, InspectStep, Touch, LookUp, Reconcile,
           DownloadNotFound, WorkerStep, WorkerFetch, WorkerRemoves, WorkerCompletes,
           WorkerRetries, Restart, LoseMemory, vars, memory
<1> QED
  BY <1>1, <1>3 DEF SettingFixed, TypeOK

\* A nonempty set of numbers has a least element, and a bounded one a greatest.
Less == OpToRel(<, Nat)

LEMMA LessPairs == \A m, k \in Nat : m < k => <<m, k>> \in Less
  BY Zenon DEF Less, OpToRel

LEMMA LeastExists ==
  ASSUME NEW S \in SUBSET Nat, S # {}
  PROVE  \E n \in S : \A m \in S : n <= m
<1>1. IsWellFoundedOn(Less, Nat)
  BY NatLessThanWellFounded DEF Less
<1>2. PICK n \in S : \A m \in S : <<m, n>> \notin Less
  BY <1>1, WFMin
<1>3. \A m \in S : m \in Nat /\ n \in Nat /\ ~(m < n)
  BY <1>2, LessPairs
<1> QED
  BY <1>3

LEMMA GreatestExists ==
  ASSUME NEW S \in SUBSET Nat, S # {}, NEW top \in Nat, \A n \in S : n < top
  PROVE  \E n \in S : \A m \in S : m <= n
<1> DEFINE Gaps == {top - n : n \in S}
<1>1. Gaps \in SUBSET Nat /\ Gaps # {}
  OBVIOUS
<1> HIDE DEF Gaps
<1>2. PICK g \in Gaps : \A h \in Gaps : g <= h
  BY <1>1, LeastExists
<1>3. PICK n \in S : g = top - n
  BY DEF Gaps
<1>4. \A m \in S : top - m \in Gaps
  BY DEF Gaps
<1>5. \A m \in S : n \in Nat /\ m \in Nat /\ top - n <= top - m
  BY <1>2, <1>3, <1>4
<1> QED
  BY <1>5

\* A key with versions has a newest one.
LEMMA NewestExists ==
  ASSUME TypeOK, IdsPast, NEW rows \in SUBSET versions, rows # {}
  PROVE  NewestVersion(rows) # {}
<1>1. CASE \E r \in rows : r.ver = NullVersion
  BY <1>1 DEF NewestVersion, SortsFirst
<1>2. CASE \A r \in rows : r.ver # NullVersion
  <2> DEFINE ids == {r.ver : r \in rows}
  <2>1. ids \in SUBSET Nat /\ ids # {} /\ \A n \in ids : n < clock
    BY DEF TypeOK, VersionRow, IdsPast
  <2>2. \A r \in rows : r.ver \in ids
    OBVIOUS
  <2>3. \A n \in ids : \E r \in rows : r.ver = n
    OBVIOUS
  <2> HIDE DEF ids
  <2>4. PICK n \in ids : \A m \in ids : m <= n
    BY <2>1, GreatestExists DEF TypeOK
  <2>5. PICK r \in rows : r.ver = n
    BY <2>3
  <2>6. \A s \in rows : SortsFirst(r.ver, s.ver)
    BY <1>2, <2>2, <2>4, <2>5 DEF SortsFirst, TypeOK, VersionRow
  <2> QED
    BY <2>6 DEF NewestVersion
<1> QED
  BY <1>1, <1>2

-----------------------------------------------------------------------------
(***************************************************************************)
(* The history of a key under one setting.  Enabled: the current row's id  *)
(* is no archived row's and no marker's, so that archiving it never meets  *)
(* the ON CONFLICT clause.  Otherwise: nothing is archived and every row   *)
(* has the null version id.                                                *)
(***************************************************************************)

IdsApart == mode = "Enabled" => \A r \in objects : ~VersionIdTaken(r.key, r.ver)
NullOnly == mode # "Enabled" => versions = {} /\ \A r \in objects : r.ver = NullVersion
HistoryInv == IdsApart /\ NullOnly /\ VersionsReachable

SameId(r, o) == o.key = r.key /\ o.ver = r.ver

LEMMA IdsFrame ==
  ASSUME IdsApart, mode' = mode,
         \A r \in objects' : \E o \in objects : SameId(r, o),
         \A r \in versions' : \E o \in versions : SameId(r, o),
         \A m \in markers' : \E n \in markers : SameId(m, n)
  PROVE  IdsApart'
<1> SUFFICES ASSUME mode = "Enabled", NEW r \in objects', VersionIdTaken(r.key, r.ver)' PROVE FALSE
  BY DEF IdsApart
<1>1. PICK o \in objects : SameId(r, o)
  OBVIOUS
<1>2. VersionIdTaken(r.key, r.ver)
  BY DEF VersionIdTaken, VersionsAt, MarkersAt, SameId
<1> QED
  BY <1>1, <1>2 DEF IdsApart, SameId

\* A step that may change key k leaves the versions of the other keys reachable.
LEMMA ReachFrame ==
  ASSUME VersionsReachable, NEW k,
         \A v \in versions' : v.key = k \/ \E w \in versions : w.key = v.key,
         \A o \in objects : o.key = k \/ \E p \in objects' : p.key = o.key,
         \A m \in markers : m.latest /\ m.key # k => m \in markers',
         (\E v \in versions' : v.key = k)
            => (\E o \in objects' : o.key = k) \/ (\E m \in markers' : m.key = k /\ m.latest)
  PROVE  VersionsReachable'
<1> SUFFICES ASSUME NEW v \in versions'
             PROVE  (\E o \in objects' : o.key = v.key) \/ (\E m \in markers' : m.key = v.key /\ m.latest)
  BY DEF VersionsReachable, RowAt, MarkersAt
<1>1. CASE v.key # k
  <2>1. PICK w \in versions : w.key = v.key
    BY <1>1
  <2>2. (\E o \in objects : o.key = v.key) \/ (\E m \in markers : m.key = v.key /\ m.latest)
    BY <2>1 DEF VersionsReachable, RowAt, MarkersAt
  <2> QED
    BY <1>1, <2>2
<1> QED
  BY <1>1

\* A step that keeps the keys of the tables and the flags of the markers.
LEMMA ReachQuiet ==
  ASSUME VersionsReachable, versions' \subseteq versions, markers' = markers,
         \A o \in objects : \E p \in objects' : p.key = o.key
  PROVE  VersionsReachable'
<1> SUFFICES ASSUME NEW v \in versions'
             PROVE  (\E o \in objects' : o.key = v.key) \/ (\E m \in markers' : m.key = v.key /\ m.latest)
  BY DEF VersionsReachable, RowAt, MarkersAt
<1>1. (\E o \in objects : o.key = v.key) \/ (\E m \in markers : m.key = v.key /\ m.latest)
  BY DEF VersionsReachable, RowAt, MarkersAt
<1> QED
  BY <1>1

LEMMA PromoteIds ==
  ASSUME TypeOK, RowsInv, IdsApart, mode' = mode, NEW k, NEW existing \in SUBSET RowAt(k),
         NEW ms \in SUBSET markers, Promote(k, existing, versions, ms)
  PROVE  IdsApart'
<1> DEFINE newest == NewestVersion({r \in versions : r.key = k})
<1>1. newest \subseteq versions
  BY DEF NewestVersion
<1>2. \A n \in newest : SameId(PromotedRow(n, existing), n)
  BY DEF PromotedRow, SameId
<1>3. \A o \in objects' : o \in objects \/ \E n \in newest : o = PromotedRow(n, existing)
  BY DEF Promote, RowAt
<1>4. versions' = versions \ newest
  BY DEF Promote
<1>5. \A m \in markers' : \E n \in markers : SameId(m, n)
  BY ClearLatestHides DEF Promote, SameId, TypeOK
<1> HIDE DEF newest
<1> SUFFICES ASSUME mode = "Enabled", NEW r \in objects', VersionIdTaken(r.key, r.ver)' PROVE FALSE
  BY DEF IdsApart
<1>6. CASE r \in objects
  BY <1>4, <1>5, <1>6 DEF IdsApart, VersionIdTaken, VersionsAt, MarkersAt, SameId
<1>7. ASSUME NEW n \in newest, r = PromotedRow(n, existing) PROVE FALSE
  <2>1. n \in versions /\ SameId(r, n)
    BY <1>1, <1>2, <1>7
  <2>2. \A v \in versions' : ~SameId(r, v)
    BY <1>4, <2>1 DEF SameId, RowsInv, RowsUnique
  <2>3. \A m \in markers' : ~SameId(r, m)
    BY <1>5, <2>1 DEF SameId, RowsInv, RowsUnique
  <2> QED
    BY <2>2, <2>3 DEF VersionIdTaken, VersionsAt, MarkersAt, SameId
<1> QED
  BY <1>3, <1>6, <1>7

LEMMA PromoteReaches ==
  ASSUME TypeOK, IdsPast, VersionsReachable, NEW k, NEW existing \in SUBSET RowAt(k),
         NEW ms \in SUBSET markers, \A m \in markers \ ms : m.key = k, Promote(k, existing, versions, ms)
  PROVE  VersionsReachable'
<1> DEFINE ours == {r \in versions : r.key = k}
           newest == NewestVersion(ours)
<1>1. versions' = versions \ newest
  BY DEF Promote
<1>2. \A o \in objects : o.key = k \/ o \in objects'
  BY DEF Promote, RowAt
<1>3. \A m \in markers : m.latest /\ m.key # k => m \in markers'
  BY DEF Promote, ClearLatest
<1>4. ours # {} => \E o \in objects' : o.key = k
  <2>1. ASSUME ours # {} PROVE \E n : n \in newest
    <3> HIDE DEF newest
    <3>1. ours \in SUBSET versions
      OBVIOUS
    <3> HIDE DEF ours
    <3> QED
      BY <2>1, <3>1, NewestExists DEF newest
  <2>2. ASSUME NEW n \in newest PROVE PromotedRow(n, existing) \in objects' /\ PromotedRow(n, existing).key = k
    <3>1. n.key = k
      BY DEF NewestVersion
    <3>2. objects' = (objects \ RowAt(k)) \cup {PromotedRow(x, existing) : x \in newest}
      BY <2>2 DEF Promote
    <3>3. PromotedRow(n, existing).key = k
      BY <3>1 DEF PromotedRow
    <3> HIDE DEF newest
    <3> QED
      BY <2>2, <3>2, <3>3
  <2> HIDE DEF newest
  <2> QED
    BY <2>1, <2>2
<1>5. (\E v \in versions' : v.key = k) => ours # {}
  BY <1>1
<1> HIDE DEF ours, newest
<1> QED
  BY <1>1, <1>2, <1>3, <1>4, <1>5, ReachFrame

LEMMA InitHistory == Init => HistoryInv
  BY DEF Init, HistoryInv, IdsApart, NullOnly, VersionsReachable, RowAt

\* A version row that a commit adds is the replaced row's.
LEMMA CommitArchives ==
  ASSUME NEW u \in Upload, Commit(u), NEW v \in versions'
  PROVE  v \in versions \/ \E p \in RowAt(Target[u]) : ArchivesPrevious(p, modeAt[u]) /\ v = ArchivedRow(p)
<1> DEFINE archived == {p \in RowAt(Target[u]) : ArchivesPrevious(p, modeAt[u])}
<1>1. versions' = versions \cup UNION {Archive(p) : p \in archived}
  BY DEF Commit
<1>2. v \in versions \/ \E p \in archived : v \in Archive(p)
  BY <1>1
<1>3. \A p : v \in Archive(p) => v = ArchivedRow(p)
  BY DEF Archive
<1> QED
  BY <1>2, <1>3

LEMMA CommitHistory ==
  ASSUME TypeOK, FilesInv, RowsInv, OriginInv, SettingFixed, HistoryInv, NEW u \in Upload, Commit(u)
  PROVE  HistoryInv'
<1> DEFINE k == Target[u]
<1>1. modeAt[u] = mode /\ mode' = mode /\ staging[u] = "uploading"
  BY DEF SettingFixed, Commit, FilesInv, StagingFollowsHandler
<1>2. PublishedRow(u).key = k /\ PublishedRow(u).ver = IF mode = "Enabled" THEN ticket[u] ELSE NullVersion
  BY <1>1 DEF PublishedRow
<1>3. objects' = (objects \ RowAt(k)) \cup {PublishedRow(u)}
  BY DEF Commit
<1>4. \A m \in markers' : \E n \in markers : SameId(m, n)
  <2>1. markers' = ClearLatest(markers, k)
    BY DEF Commit
  <2> QED
    BY <2>1, ClearLatestHides DEF SameId, TypeOK
<1>5. \A v \in versions' : v \in versions \/ \E p \in RowAt(k) : v = ArchivedRow(p)
  BY CommitArchives
<1>6. \A v \in versions' : v \in versions \/ v.key = k
  <2>1. \A p \in RowAt(k) : ArchivedRow(p).key = k
    BY DEF ArchivedRow, RowAt
  <2> QED
    BY <1>5, <2>1
<1>7. IdsApart'
  <2> SUFFICES ASSUME mode = "Enabled", NEW r \in objects', VersionIdTaken(r.key, r.ver)' PROVE FALSE
    BY <1>1 DEF IdsApart
  <2>1. PICK t : t \in versions' \cup markers' /\ SameId(r, t)
    BY DEF VersionIdTaken, VersionsAt, MarkersAt, SameId
  <2>2. CASE r \in objects /\ r.key # k
    <3>1. ~VersionIdTaken(r.key, r.ver)
      BY <2>2 DEF HistoryInv, IdsApart
    <3>2. t \notin versions /\ \A n \in markers : ~SameId(r, n)
      BY <3>1, <2>1 DEF VersionIdTaken, VersionsAt, MarkersAt, SameId
    <3> QED
      BY <1>4, <1>6, <2>1, <2>2, <3>2 DEF SameId
  <2>3. CASE r = PublishedRow(u)
    <3>1. r.ver = ticket[u] /\ HasTicket(u) /\ ticket[u] > 0
      BY <1>1, <1>2, <2>3 DEF HasTicket, OriginInv, TicketsDiffer
    <3>2. \A n \in markers : n.ver # ticket[u]
      BY <3>1 DEF OriginInv, MarkersHaveNoTicket
    <3>3. ASSUME NEW o \in objects \cup versions PROVE o.ver # ticket[u]
      <4>1. o.file \in Upload /\ Origin(o)
        BY DEF TypeOK, ObjectRow, VersionRow, OriginInv, RowsHaveOrigins
      <4>2. o.file # u /\ HasTicket(o.file)
        BY <1>1, <4>1 DEF Origin, HasTicket
      <4>3. ticket[o.file] # ticket[u]
        BY <3>1, <4>1, <4>2 DEF OriginInv, TicketsDiffer
      <4>4. NullVersion # ticket[u]
        BY <3>1 DEF NullVersion, TypeOK
      <4> QED
        BY <4>1, <4>3, <4>4 DEF Origin
    <3>4. \A v \in versions' : v.ver # ticket[u]
      <4>1. \A p \in RowAt(k) : ArchivedRow(p).ver = p.ver /\ p \in objects
        BY DEF ArchivedRow, RowAt
      <4> QED
        BY <1>5, <3>3, <4>1
    <3> QED
      BY <1>4, <2>1, <3>1, <3>2, <3>4 DEF SameId
  <2> QED
    BY <1>3, <2>2, <2>3 DEF RowAt
<1>8. NullOnly'
  <2> SUFFICES ASSUME mode # "Enabled" PROVE versions' = {} /\ \A r \in objects' : r.ver = NullVersion
    BY <1>1 DEF NullOnly
  <2>1. versions = {} /\ \A r \in objects : r.ver = NullVersion
    BY DEF HistoryInv, NullOnly
  <2>2. \A p \in RowAt(k) : ~ArchivesPrevious(p, modeAt[u])
    BY <1>1, <2>1 DEF ArchivesPrevious, RowAt
  <2>3. versions' = {}
    BY <2>1, <2>2, CommitArchives
  <2> QED
    BY <1>2, <1>3, <2>1, <2>3
<1>9. VersionsReachable'
  <2>1. \A v \in versions' : v.key = k \/ \E w \in versions : w.key = v.key
    BY <1>6
  <2>2. PublishedRow(u) \in objects' /\ PublishedRow(u).key = k
    BY <1>2, <1>3
  <2>3. \A o \in objects : o.key = k \/ \E p \in objects' : p.key = o.key
    BY <1>3 DEF RowAt
  <2>4. \A m \in markers : m.latest /\ m.key # k => m \in markers'
    BY DEF Commit, ClearLatest
  <2> HIDE DEF k
  <2>5. \E o \in objects' : o.key = k
    BY <2>2
  <2> QED
    BY <2>1, <2>3, <2>4, <2>5, ReachFrame DEF HistoryInv
<1> QED
  BY <1>7, <1>8, <1>9 DEF HistoryInv

LEMMA DeleteHistory ==
  ASSUME TypeOK, FilesInv, RowsInv, SettingFixed, HistoryInv, NEW d \in Deleter, PerformDelete(d)
  PROVE  HistoryInv'
<1>1. modeAt[d] = mode /\ mode' = mode
  BY DEF SettingFixed, PerformDelete
<1>2. PICK r \in StillCurrent(d) :
         IF modeAt[d] = "Disabled" THEN DeleteUnversioned(d, r) ELSE DeleteVersioned(d, r)
  BY DEF PerformDelete
<1>3. r \in objects /\ objects' = objects \ {r} /\ \A o \in objects' : o.key # r.key
  BY <1>2 DEF StillCurrent, ActiveAt, RowAt, DeleteUnversioned, DeleteVersioned, RowsInv, RowsUnique
<1>4. CASE mode # "Enabled"
  <2>1. versions = {} /\ \A o \in objects : o.ver = NullVersion
    BY <1>4 DEF HistoryInv, NullOnly
  <2>2. ~ArchivesPrevious(r, modeAt[d])
    BY <1>1, <1>3, <1>4, <2>1 DEF ArchivesPrevious
  <2>3. versions' = {}
    BY <1>2, <2>1, <2>2 DEF DeleteUnversioned, DeleteVersioned, WithoutNull
  <2> QED
    BY <1>1, <1>3, <1>4, <2>1, <2>3 DEF HistoryInv, IdsApart, NullOnly, VersionsReachable
<1>5. CASE mode = "Enabled"
  <2> DEFINE marker == [key |-> r.key, ver |-> clock, latest |-> TRUE]
  <2>1. /\ versions' = versions \cup Archive(r)
        /\ markers' = ClearLatest(markers, r.key) \cup {marker}
    BY <1>1, <1>2, <1>5 DEF DeleteVersioned, ArchivesPrevious
  <2>2. \A v \in versions' : v \in versions \/ v.key = r.key
    BY <2>1 DEF Archive, ArchivedRow
  <2>3. \A m \in markers' : m.key = r.key \/ \E n \in markers : SameId(m, n)
    BY <2>1, ClearLatestHides DEF SameId, TypeOK
  <2>4. IdsApart'
    BY <1>3, <1>5, <2>2, <2>3 DEF HistoryInv, IdsApart, VersionIdTaken, VersionsAt, MarkersAt, SameId
  <2>5. VersionsReachable'
    <3>1. marker \in markers' /\ marker.key = r.key /\ marker.latest
      BY <2>1
    <3>2. \A o \in objects : o.key = r.key \/ \E p \in objects' : p.key = o.key
      BY <1>3
    <3>3. \A v \in versions' : v.key = r.key \/ \E w \in versions : w.key = v.key
      BY <2>2
    <3>4. \A m \in markers : m.latest /\ m.key # r.key => m \in markers'
      BY <2>1 DEF ClearLatest
    <3> HIDE DEF marker
    <3> QED
      BY <3>1, <3>2, <3>3, <3>4, ReachFrame DEF HistoryInv
  <2> QED
    BY <1>1, <1>5, <2>4, <2>5 DEF HistoryInv, NullOnly
<1> QED
  BY <1>4, <1>5

LEMMA AdminHistory ==
  ASSUME TypeOK, RowsInv, OneSetting, SettingFixed, HistoryInv, AdminStep
  PROVE  HistoryInv'
<1>1. \A m \in Modes : ~PutBucketVersioning(m)
  BY DEF OneSetting, SettingFixed, PutBucketVersioning
<1>2. mode' = mode /\ DeleteObjectVersion
  BY <1>1 DEF AdminStep, DeleteObjectVersion
<1>3. IdsApart /\ VersionsReachable
  BY DEF HistoryInv
<1>4. ASSUME NEW k, NEW existing \in SUBSET RowAt(k), NEW ms \in SUBSET markers,
             \A m \in markers \ ms : m.key = k, Promote(k, existing, versions, ms)
      PROVE  HistoryInv'
  <2>1. IdsApart' /\ VersionsReachable'
    BY <1>2, <1>3, <1>4, PromoteIds, PromoteReaches DEF RowsInv
  <2>2. ASSUME mode # "Enabled" PROVE versions' = {} /\ \A o \in objects' : o.ver = NullVersion
    <3>1. versions = {} /\ \A o \in objects : o.ver = NullVersion
      BY <2>2 DEF HistoryInv, NullOnly
    <3>2. NewestVersion({r \in versions : r.key = k}) = {}
      BY <3>1 DEF NewestVersion
    <3>3. versions' \subseteq versions /\ objects' \subseteq objects
      BY <1>4, <3>2 DEF Promote, RowAt
    <3> QED
      BY <3>1, <3>3
  <2> QED
    BY <1>2, <2>1, <2>2 DEF HistoryInv, NullOnly
<1>5. ASSUME NEW r \in objects, DeleteCurrentVersion(r) PROVE HistoryInv'
  <2>1. {} \in SUBSET RowAt(r.key) /\ markers \in SUBSET markers /\ Promote(r.key, {}, versions, markers)
    BY <1>5 DEF DeleteCurrentVersion
  <2> QED
    BY <1>4, <2>1
<1>6. ASSUME NEW r \in versions, DeleteArchivedVersion(r) PROVE HistoryInv'
  <2>1. versions' \subseteq versions /\ objects' = objects /\ markers' = markers
    BY <1>6 DEF DeleteArchivedVersion
  <2>2. IdsApart'
    BY <1>2, <1>3, <2>1, IdsFrame DEF SameId
  <2>3. VersionsReachable'
    BY <1>3, <2>1, ReachQuiet
  <2> QED
    BY <1>2, <2>1, <2>2, <2>3 DEF HistoryInv, NullOnly
<1>7. ASSUME NEW m \in markers, DeleteMarker(m) PROVE HistoryInv'
  <2>1. /\ RowAt(m.key) \in SUBSET RowAt(m.key) /\ markers \ {m} \in SUBSET markers
        /\ \A n \in markers \ (markers \ {m}) : n.key = m.key
        /\ Promote(m.key, RowAt(m.key), versions, markers \ {m})
    BY <1>7 DEF DeleteMarker
  <2> QED
    BY <1>4, <2>1
<1> QED
  BY <1>2, <1>5, <1>6, <1>7 DEF DeleteObjectVersion

LEMMA QuietHistory ==
  ASSUME HistoryInv, mode' = mode, versions' = versions, markers' = markers,
         \A r \in objects' : \E o \in objects : SameId(r, o),
         \A o \in objects : \E p \in objects' : p.key = o.key
  PROVE  HistoryInv'
<1>1. IdsApart'
  BY IdsFrame DEF HistoryInv, SameId
<1>2. VersionsReachable'
  BY ReachQuiet DEF HistoryInv
<1>3. NullOnly'
  BY DEF HistoryInv, NullOnly, SameId
<1> QED
  BY <1>1, <1>2, <1>3 DEF HistoryInv

\* A reconcile or a download drops no row.
LEMMA RowsStay ==
  ASSUME TypeOK, InspectStep
  PROVE  \A o \in objects : \E p \in objects' : SameFile(p, o)
<1>1. \A o \in objects : SameFile(o, o)
  BY DEF SameFile
<1>2. ASSUME NEW id, NEW status, NEW o \in objects
      PROVE  \E p \in MarkStatus(id, status) : SameFile(p, o)
  <2> DEFINE p == IF o.id = id THEN [o EXCEPT !.status = status] ELSE o
  <2>1. p \in MarkStatus(id, status)
    BY DEF MarkStatus
  <2>2. SameFile(p, o)
    BY DEF TypeOK, ObjectRow, SameFile
  <2> QED
    BY <2>1, <2>2
<1>3. objects' = objects \/ \E id, status : objects' = MarkStatus(id, status)
  BY DEF InspectStep, Touch, LookUp, Reconcile, DownloadNotFound, db
<1>4. CASE \E id, status : objects' = MarkStatus(id, status)
  BY <1>2, <1>4
<1> QED
  BY <1>1, <1>3, <1>4

LEMMA HistoryStep ==
  TypeOK /\ FilesInv /\ RowsInv /\ OriginInv /\ OneSetting /\ SettingFixed /\ HistoryInv /\ [Next]_vars
    => HistoryInv'
<1> SUFFICES ASSUME TypeOK, FilesInv, RowsInv, OriginInv, OneSetting, SettingFixed, HistoryInv, [Next]_vars
             PROVE  HistoryInv'
  OBVIOUS
<1>1. ASSUME UNCHANGED <<mode, objects, versions, markers>> PROVE HistoryInv'
  BY <1>1, QuietHistory DEF SameId
<1>2. ASSUME NEW u \in Upload, UploadStep(u) PROVE HistoryInv'
  <2>1. CASE Commit(u)
    BY <2>1, CommitHistory
  <2> QED
    BY <1>1, <1>2, <2>1 DEF UploadStep, BeginUpload, Grant, GiveUp, Stage, DriveCreates,
                             UploadFails, Reject, db
<1>3. ASSUME NEW d \in Deleter, DeleteStep(d) PROVE HistoryInv'
  <2>1. CASE PerformDelete(d)
    BY <2>1, DeleteHistory
  <2> QED
    BY <1>1, <1>3, <2>1 DEF DeleteStep, Authorize, ReadForBulk, DeleteRefused, db
<1>4. CASE InspectStep
  <2>1. UNCHANGED <<mode, versions, markers>>
    BY <1>4 DEF InspectStep, Touch, LookUp, Reconcile, DownloadNotFound, db
  <2>2. /\ \A r \in objects' : \E o \in objects : SameId(r, o)
        /\ \A o \in objects : \E p \in objects' : p.key = o.key
    BY <1>4, MarkedRows, RowsStay DEF SameFile, SameId
  <2> QED
    BY <2>1, <2>2, QuietHistory
<1>5. CASE \/ UNCHANGED vars
           \/ \E p \in Request : DrainStep(p)
           \/ WorkerStep
           \/ \E S \in SUBSET Unfinished, W \in SUBSET Upload : Restart(S, W)
  BY <1>1, <1>5 DEF vars, db, DrainStep, DrainRemoves, DrainCompletes, DrainFails, WorkerStep,
              WorkerFetch, WorkerRemoves, WorkerCompletes, WorkerRetries, Restart
<1> QED
  BY <1>2, <1>3, <1>4, <1>5, AdminHistory DEF Next

LEMMA HistoryAlways ==
  ASSUME OneSetting
  PROVE  Spec => [](SettingFixed /\ HistoryInv)
<1>1. Init => SettingFixed
  BY DEF Init, SettingFixed
<1>2. Spec => []SettingFixed
  BY <1>1, FixedStep, TypeCorrect, PTL DEF Spec
<1> QED
  BY <1>2, InitHistory, HistoryStep, FilesAlways, OriginAlways, PTL DEF Spec

\* In a bucket whose setting never changes, every archived version leads to a
\* current row or a latest marker, and no id names two versions of a key.
THEOREM HistoryWhole ==
  ASSUME OneSetting
  PROVE  Spec => []HistoryIntact
<1>1. HistoryInv => HistoryIntact
  BY DEF HistoryInv, IdsApart, NullOnly, HistoryIntact, CurrentNotArchived, VersionIdTaken, VersionsAt
<1> QED
  BY <1>1, HistoryAlways, PTL

-----------------------------------------------------------------------------
(***************************************************************************)
(* No step drops a file: a row that leaves the tables is archived, or its  *)
(* file is queued for removal with the same step.                          *)
(***************************************************************************)

SettledInv == OneSetting /\ SettingFixed /\ HistoryInv

LEMMA PromoteDrops ==
  ASSUME NEW k, NEW ms, Promote(k, {}, versions, ms), NEW r \in objects \cup versions, r \notin RowAt(k)
  PROVE  Referenced(r.file)'
<1> DEFINE newest == NewestVersion({v \in versions : v.key = k})
<1>1. versions' = versions \ newest
  BY DEF Promote
<1>2. objects \ RowAt(k) \subseteq objects'
  BY DEF Promote
<1>3. \A n \in newest : PromotedRow(n, {}) \in objects'
  <2>1. ASSUME newest # {} PROVE objects' = (objects \ RowAt(k)) \cup {PromotedRow(n, {}) : n \in newest}
    BY <2>1 DEF Promote
  <2> HIDE DEF newest
  <2> QED
    BY <2>1
<1>4. \A n \in newest : PromotedRow(n, {}).file = n.file
  BY DEF PromotedRow
<1> HIDE DEF newest
<1> QED
  BY <1>1, <1>2, <1>3, <1>4 DEF Referenced

LEMMA NothingDropped ==
  ASSUME TypeOK, RowsInv, MarkersHide, SettledInv, [Next]_vars, NEW f \in Upload, Referenced(f)
  PROVE  Referenced(f)' \/ f \in cleanup'
<1> DEFINE Kept == Referenced(f)' \/ f \in cleanup'
<1>1. PICK r \in objects \cup versions : r.file = f
  BY DEF Referenced
<1>2. r \in objects' \cup versions' => Kept
  BY <1>1 DEF Referenced
<1>3. ASSUME r \in objects, mode = "Enabled" PROVE Archive(r) = {ArchivedRow(r)} /\ ArchivedRow(r).file = f
  BY <1>1, <1>3 DEF SettledInv, HistoryInv, IdsApart, Archive, ArchivedRow
<1>4. ASSUME mode # "Enabled" PROVE versions = {} /\ r \in objects /\ ~ArchivesPrevious(r, mode)
  BY <1>4 DEF SettledInv, HistoryInv, NullOnly, ArchivesPrevious
<1>5. ASSUME NEW u \in Upload, Commit(u) PROVE Kept
  <2>1. modeAt[u] = mode
    BY DEF SettledInv, SettingFixed
  <2>2. CASE r \notin RowAt(Target[u])
    BY <1>2, <1>5, <2>2 DEF Commit
  <2>3. CASE r \in RowAt(Target[u]) /\ ArchivesPrevious(r, mode)
    <3> DEFINE archived == {p \in RowAt(Target[u]) : ArchivesPrevious(p, modeAt[u])}
    <3>1. r \in objects /\ mode = "Enabled" /\ r \in archived
      BY <1>4, <2>1, <2>3 DEF RowAt
    <3>2. versions' = versions \cup UNION {Archive(p) : p \in archived}
      BY <1>5 DEF Commit
    <3> HIDE DEF archived
    <3>3. ArchivedRow(r) \in versions'
      BY <1>3, <3>1, <3>2
    <3> QED
      BY <1>3, <3>1, <3>3 DEF Referenced
  <2>4. CASE r \in RowAt(Target[u]) /\ ~ArchivesPrevious(r, mode)
    <3>1. f \in QueuesReplaced(RowAt(Target[u]), modeAt[u])
      BY <1>1, <2>1, <2>4 DEF QueuesReplaced
    <3> QED
      BY <1>5, <3>1 DEF Commit
  <2> QED
    BY <2>2, <2>3, <2>4
<1>6. ASSUME NEW d \in Deleter, PerformDelete(d) PROVE Kept
  <2>1. modeAt[d] = mode
    BY DEF SettledInv, SettingFixed
  <2>2. PICK o \in StillCurrent(d) :
           IF modeAt[d] = "Disabled" THEN DeleteUnversioned(d, o) ELSE DeleteVersioned(d, o)
    BY <1>6 DEF PerformDelete
  <2>3. objects' = objects \ {o} /\ o \in objects
    BY <2>2 DEF DeleteUnversioned, DeleteVersioned, StillCurrent, ActiveAt, RowAt
  <2>4. CASE mode = "Enabled"
    <3>1. versions' = versions \cup Archive(o)
      BY <2>1, <2>2, <2>4 DEF DeleteVersioned, ArchivesPrevious
    <3>2. CASE r = o
      <4>1. ArchivedRow(r) \in versions'
        BY <1>3, <2>3, <2>4, <3>1, <3>2
      <4> QED
        BY <1>3, <2>3, <2>4, <3>2, <4>1 DEF Referenced
    <3> QED
      BY <1>2, <2>3, <3>1, <3>2
  <2>5. CASE mode # "Enabled"
    <3>1. CASE r = o
      BY <1>1, <1>4, <2>1, <2>2, <2>5, <3>1 DEF DeleteUnversioned, DeleteVersioned
    <3> QED
      BY <1>2, <1>4, <2>3, <2>5, <3>1
  <2> QED
    BY <2>4, <2>5
<1>7. ASSUME NEW o \in objects, DeleteCurrentVersion(o) PROVE Kept
  <2>1. CASE r \in RowAt(o.key)
    <3>1. (r \in versions => Kept) /\ (r \in objects => r = o)
      <4>1. CASE r \in versions /\ r \notin objects
        BY <1>1, <1>7, <4>1, PromoteDrops DEF DeleteCurrentVersion, RowAt
      <4> QED
        BY <1>1, <1>7, <2>1, <4>1 DEF DeleteCurrentVersion, RowAt, RowsInv, RowsUnique
    <3> QED
      BY <1>1, <1>7, <3>1 DEF DeleteCurrentVersion, RowAt
  <2> QED
    BY <1>1, <1>7, <2>1, PromoteDrops DEF DeleteCurrentVersion
<1>8. ASSUME NEW o \in versions, DeleteArchivedVersion(o) PROVE Kept
  BY <1>1, <1>2, <1>8 DEF DeleteArchivedVersion, Releases
<1>9. ASSUME NEW m \in markers, DeleteMarker(m) PROVE Kept
  <2>1. RowAt(m.key) = {}
    BY <1>9 DEF DeleteMarker, MarkersHide, SettledInv, OneSetting
  <2>2. Promote(m.key, {}, versions, markers \ {m})
    BY <1>9, <2>1 DEF DeleteMarker
  <2> QED
    BY <1>1, <2>1, <2>2, PromoteDrops
<1>10. CASE InspectStep
  <2>1. versions' = versions
    BY <1>10 DEF InspectStep, Touch, LookUp, Reconcile, DownloadNotFound, db
  <2> QED
    BY <1>1, <1>2, <1>10, <2>1, RowsStay DEF SameFile, Referenced
<1>11. ASSUME UNCHANGED <<objects, versions>> PROVE Kept
  BY <1>2, <1>11
<1> HIDE DEF Kept
<1>12. ASSUME NEW u \in Upload, UploadStep(u) PROVE Kept
  BY <1>5, <1>11, <1>12 DEF UploadStep, BeginUpload, Grant, GiveUp, Stage, DriveCreates,
                             UploadFails, Reject, db
<1>13. ASSUME NEW d \in Deleter, DeleteStep(d) PROVE Kept
  BY <1>6, <1>11, <1>13 DEF DeleteStep, Authorize, ReadForBulk, DeleteRefused, db
<1>14. ASSUME AdminStep PROVE Kept
  BY <1>7, <1>8, <1>9, <1>11, <1>14 DEF AdminStep, DeleteObjectVersion, PutBucketVersioning
<1>15. ASSUME \/ UNCHANGED vars
              \/ \E p \in Request : DrainStep(p)
              \/ WorkerStep
              \/ \E S \in SUBSET Unfinished, W \in SUBSET Upload : Restart(S, W)
       PROVE  Kept
  BY <1>11, <1>15 DEF vars, db, DrainStep, DrainRemoves, DrainCompletes, DrainFails, WorkerStep,
              WorkerFetch, WorkerRemoves, WorkerCompletes, WorkerRetries, Restart
<1> QED
  BY <1>10, <1>12, <1>13, <1>14, <1>15 DEF Next, Kept

\* A file is in the tables after a step exactly when it was and was not queued,
\* or when the step published it.
LEMMA ReferencedMoves ==
  ASSUME TypeOK, FilesInv, RowsInv, MarkersHide, SettledInv, [Next]_vars, NEW f \in Upload,
         staging'[f] = "committed" => staging[f] = "committed"
  PROVE  Referenced(f)' <=> Referenced(f) /\ f \notin cleanup'
<1>1. FilesInv'
  BY FilesStep
<1>2. Referenced(f)' => f \notin cleanup'
  BY <1>1 DEF FilesInv, LiveFileSafe, BeingRemoved
<1>3. Referenced(f)' => Referenced(f)
  <2> SUFFICES ASSUME NEW r \in objects' \cup versions', r.file = f PROVE Referenced(f)
    BY DEF Referenced
  <2>1. ASSUME NEW o \in objects \cup versions, SameFile(r, o) PROVE Referenced(f)
    BY <2>1 DEF SameFile, Referenced
  <2>2. ASSUME NEW u \in Upload, Commit(u), r = PublishedRow(u) PROVE FALSE
    <3>1. f = u
      BY <2>2 DEF PublishedRow
    <3>2. staging[u] = "uploading" /\ staging'[u] = "committed"
      BY <2>2 DEF Commit, FilesInv, StagingFollowsHandler, TypeOK
    <3> QED
      BY <3>1, <3>2
  <2> QED
    BY <2>1, <2>2, RowsComeFrom
<1> QED
  BY <1>2, <1>3, NothingDropped

\* A commit references the file it publishes and records.
LEMMA CommitReferences ==
  ASSUME NEW u \in Upload, Commit(u)
  PROVE  Referenced(u)'
<1>1. PublishedRow(u) \in objects'
  BY DEF Commit
<1>2. PublishedRow(u).file = u
  BY DEF PublishedRow
<1> QED
  BY <1>1, <1>2 DEF Referenced

Accounted(f) == Referenced(f) \/ f \in cleanup \/ staging[f] = "uploaded"

LEMMA AccountedStep ==
  TypeOK /\ FilesInv /\ RowsInv /\ DriveInv /\ MarkersHide /\ SettledInv /\ RecordedFileAccounted
    /\ [Next]_vars => RecordedFileAccounted'
<1> SUFFICES ASSUME TypeOK, FilesInv, RowsInv, DriveInv, MarkersHide, SettledInv, RecordedFileAccounted,
                    [Next]_vars, NEW f \in recorded', drive'[f] # "gone"
             PROVE  Accounted(f)'
  BY DEF RecordedFileAccounted, Accounted
<1>1. f \in Upload
  <2>1. TypeOK'
    BY NextTyped
  <2> QED
    BY <2>1 DEF TypeOK
<1>2. drive[f] # "gone"
  BY <1>1, DriveMoves
<1>3. f \in recorded => Accounted(f)
  BY <1>2 DEF RecordedFileAccounted, Accounted
\* A handler or the worker forgets a row of the queue when the file is gone.
<1>4. f \in cleanup => f \in cleanup'
  <2>1. ASSUME NEW u \in Upload, UploadStep(u) PROVE cleanup \subseteq cleanup'
    BY <2>1 DEF UploadStep, BeginUpload, Grant, GiveUp, Stage, DriveCreates, UploadFails, Reject,
                Commit, db
  <2>2. ASSUME NEW d \in Deleter, DeleteStep(d) PROVE cleanup \subseteq cleanup'
    BY <2>2, DeleteMoves DEF DeleteQueues
  <2>3. ASSUME NEW p \in Request, DrainStep(p) PROVE f \in cleanup => f \in cleanup'
    <3>1. CASE DrainCompletes(p)
      <4>1. f \notin draining[p]
        BY <1>2, <3>1 DEF DrainCompletes, DriveInv, DrainedIsGone
      <4> QED
        BY <3>1, <4>1 DEF DrainCompletes
    <3> QED
      BY <2>3, <3>1 DEF DrainStep, DrainRemoves, DrainFails, db
  <2>4. ASSUME WorkerStep PROVE f \in cleanup => f \in cleanup'
    <3>1. ASSUME NEW g \in batch, WorkerCompletes(g) PROVE g # f
      BY <1>2, <3>1 DEF WorkerCompletes, Confirmed, DriveInv, ErasedIsGone
    <3> QED
      BY <2>4, <3>1 DEF WorkerStep, WorkerFetch, WorkerRemoves, WorkerCompletes, WorkerRetries, db
  <2>5. ASSUME AdminStep \/ InspectStep PROVE cleanup \subseteq cleanup'
    BY <2>5 DEF AdminStep, DeleteObjectVersion, DeleteCurrentVersion, DeleteArchivedVersion,
                DeleteMarker, PutBucketVersioning, InspectStep, Touch, LookUp, Reconcile,
                DownloadNotFound, db
  <2>6. ASSUME NEW S, NEW W, Restart(S, W) PROVE cleanup \subseteq cleanup'
    BY <2>6 DEF Restart
  <2>7. ASSUME UNCHANGED vars PROVE cleanup \subseteq cleanup'
    BY <2>7 DEF vars, db
  <2> QED
    BY <2>1, <2>2, <2>3, <2>4, <2>5, <2>6, <2>7 DEF Next
<1>5. Referenced(f) => Accounted(f)'
  BY <1>1, NothingDropped DEF Accounted
<1>6. ASSUME f \in recorded, staging'[f] = staging[f] PROVE Accounted(f)'
  BY <1>3, <1>4, <1>5, <1>6 DEF Accounted
<1>7. ASSUME NEW u \in Upload, UploadStep(u) PROVE Accounted(f)'
  <2>1. CASE Commit(u) /\ f = u
    BY <2>1, CommitReferences DEF Accounted
  <2>2. CASE Reject(u) /\ f = u
    BY <2>2 DEF Reject, RejectQueues, Accounted
  <2>3. CASE f \in recorded
    <3>1. staging[f] = "uploaded" => staging'[f] = "uploaded"
      <4>1. staging[u] = "uploaded" => pc[u] \notin {"locked", "slot", "sent"}
        BY DEF FilesInv, StagingFollowsHandler
      <4>2. staging' = staging \/ \E s : staging' = [staging EXCEPT ![u] = s] /\ pc[u] \in {"locked", "slot", "sent"}
        BY <1>7 DEF UploadStep, BeginUpload, Grant, GiveUp, Stage, DriveCreates, UploadFails, Reject,
                    Commit, db
      <4> QED
        BY <1>1, <4>1, <4>2 DEF TypeOK
    <3> QED
      BY <1>3, <1>4, <1>5, <2>3, <3>1 DEF Accounted
  <2> QED
    BY <1>7, <2>1, <2>2, <2>3 DEF UploadStep, BeginUpload, Grant, GiveUp, Stage, DriveCreates,
                                  UploadFails, Reject, Commit, db
<1>8. CASE OtherStep \/ UNCHANGED vars
  <2>1. recorded' = recorded /\ staging' = staging
    BY <1>8, OtherSteps DEF vars, db
  <2> QED
    BY <1>6, <2>1
<1>9. ASSUME NEW S \in SUBSET Unfinished, NEW W \in SUBSET Upload, Restart(S, W) PROVE Accounted(f)'
  <2> DEFINE rec == recorded \cup W
             rows == \E r \in ActiveAt(Target[f]) : r.file = f
  <2>1. recorded' = rec /\ cleanup' = cleanup \cup OrphansOf(S, rec)
    BY <1>9 DEF Restart
  <2>2. staging'[f] = IF f \in S THEN RecoveredStatus(f, rec)
                      ELSE IF f \in W THEN "uploaded" ELSE staging[f]
    BY <1>1, <1>9 DEF Restart
  <2>3. CASE f \in S /\ rows
    <3>1. Referenced(f)
      BY <2>3 DEF ActiveAt, RowAt, Referenced
    <3> QED
      BY <1>5, <3>1
  <2>4. CASE f \in S /\ ~rows
    BY <2>1, <2>4 DEF OrphansOf, Accounted
  <2>5. CASE f \notin S
    BY <1>6, <2>1, <2>2, <2>5 DEF Accounted
  <2> QED
    BY <2>3, <2>4, <2>5
<1> QED
  BY <1>7, <1>8, <1>9 DEF Next, OtherStep

\* In a bucket whose setting never changes, no file whose id was recorded is
\* lost: the tables, the queue or the next recovery knows of it.
THEOREM RecordedFilesAccounted ==
  ASSUME OneSetting
  PROVE  Spec => []RecordedFileAccounted
<1>1. Init => RecordedFileAccounted
  BY DEF Init, RecordedFileAccounted
<1>2. SettingFixed /\ HistoryInv => SettledInv
  BY DEF SettledInv
<1> QED
  BY <1>1, <1>2, AccountedStep, FilesAlways, DriveAlways, HideAlways, HistoryAlways, PTL DEF Spec

-----------------------------------------------------------------------------
(***************************************************************************)
(* The lives of the files: every step of the namespace is a step of        *)
(* FileLifecycle, or none, for the bucket of one setting.                  *)
(***************************************************************************)

Sound == TypeOK /\ FilesInv /\ RowsInv /\ OriginInv /\ DriveInv /\ MarkersHide /\ SettledInv

CurrentOf(k) == {r.file : r \in RowAt(k)}
Pending(f) == pc[f] = "sent" \/ staging[f] = "uploaded"
InDrive == {"present", "altered", "removed"}

LEMMA LiveLife ==
  ASSUME Sound, NEW f \in Upload, Referenced(f)
  PROVE  LifeOf(f) = "live" /\ drive[f] \in InDrive /\ f \notin cleanup
<1>1. drive[f] # "none"
  BY DEF Sound, DriveInv, UnmadeUnknown, Known
<1>2. f \notin cleanup /\ drive[f] # "gone"
  BY DEF Sound, FilesInv, LiveFileSafe, BeingRemoved
<1>3. drive[f] \in InDrive
  BY <1>1, <1>2 DEF Sound, TypeOK, DriveState, InDrive
<1> QED
  BY <1>1, <1>2, <1>3 DEF LifeOf

LEMMA PendingLife ==
  ASSUME Sound, NEW f \in Upload, pc[f] = "sent"
  PROVE  LifeOf(f) = "pending" /\ staging[f] = "uploading" /\ drive[f] \in InDrive
         /\ f \notin cleanup /\ ~Referenced(f)
<1>1. drive[f] # "none"
  BY DEF Sound, DriveInv, UnmadeUnknown, Known
<1>2. staging[f] = "uploading" /\ f \in Unpublished
  BY DEF Sound, FilesInv, StagingFollowsHandler, Unpublished
<1>3. ~Referenced(f) /\ f \notin cleanup /\ drive[f] # "gone"
  BY <1>2 DEF Sound, FilesInv, UnpublishedUntouched, BeingRemoved
<1>4. drive[f] \in InDrive
  BY <1>1, <1>3 DEF Sound, TypeOK, DriveState, InDrive
<1> QED
  BY <1>1, <1>2, <1>3, <1>4 DEF LifeOf

\* What a step must not touch for a file to stay where it is in its life.
LEMMA LifeKept ==
  ASSUME Sound, [Next]_vars, NEW g \in Upload,
         staging'[g] = "committed" => staging[g] = "committed",
         drive'[g] = drive[g] \/ {drive[g], drive'[g]} \subseteq InDrive,
         drive[g] \in InDrive => (g \in cleanup' <=> g \in cleanup),
         drive[g] \in InDrive /\ ~Referenced(g) /\ g \notin cleanup => (Pending(g)' <=> Pending(g))
  PROVE  LifeOf(g)' = LifeOf(g)
<1>1. Referenced(g)' <=> Referenced(g) /\ g \notin cleanup'
  BY ReferencedMoves DEF Sound
<1>2. drive[g] \in {"none", "gone"} \/ drive[g] \in InDrive
  BY DEF Sound, TypeOK, DriveState, InDrive
<1>3. CASE drive[g] \in {"none", "gone"}
  BY <1>3 DEF LifeOf, InDrive
<1>4. CASE drive[g] \in InDrive /\ Referenced(g)
  BY <1>1, <1>4, LiveLife DEF LifeOf, InDrive
<1>5. CASE drive[g] \in InDrive /\ ~Referenced(g)
  BY <1>1, <1>5 DEF LifeOf, InDrive, Pending
<1> QED
  BY <1>2, <1>3, <1>4, <1>5

(***************************************************************************)
(* The steps of FileLifecycle, in terms of LifeOf and CurrentOf.           *)
(***************************************************************************)

CurrentKept(K) == \A k \in K : CurrentOf(k)' = CurrentOf(k)

LEMMA StutterMaps ==
  ASSUME \A g \in Upload : LifeOf(g)' = LifeOf(g), CurrentKept(Key)
  PROVE  [Lifecycle!Next]_<<[f \in Upload |-> LifeOf(f)], [k \in Key |-> {r.file : r \in RowAt(k)}]>>
  BY DEF CurrentKept, CurrentOf

LEMMA CreateMaps ==
  ASSUME NEW u \in Upload, LifeOf(u) = "none", LifeOf(u)' = "pending",
         \A g \in Upload \ {u} : LifeOf(g)' = LifeOf(g), CurrentKept(Key)
  PROVE  Lifecycle!Create(u)
  BY DEF CurrentKept, CurrentOf, Lifecycle!Create

LEMMA SupersedesMaps ==
  ASSUME NEW k \in Key, NEW u \in Upload, NEW dropped \in SUBSET CurrentOf(k), u \notin dropped,
         LifeOf(u)' = "live",
         \A g \in Upload \ {u} : LifeOf(g)' = IF g \in dropped THEN "released" ELSE LifeOf(g),
         CurrentOf(k)' = {u}, CurrentKept(Key \ {k})
  PROVE  Lifecycle!Supersedes(k, u)
<1> DEFINE life == [f \in Upload |-> LifeOf(f)]
           current == [j \in Key |-> {r.file : r \in RowAt(j)}]
<1>1. dropped \in SUBSET current[k]
  BY DEF CurrentOf
<1>2. life' = [g \in Upload |-> IF g = u THEN "live" ELSE IF g \in dropped THEN "released" ELSE life[g]]
  OBVIOUS
<1>3. current' = [current EXCEPT ![k] = {u}]
  BY DEF CurrentKept, CurrentOf
<1> HIDE DEF life, current
<1> QED
  BY <1>1, <1>2, <1>3 DEF Lifecycle!Supersedes, life, current

LEMMA HideMaps ==
  ASSUME NEW k \in Key, NEW dropped \in SUBSET CurrentOf(k), CurrentOf(k) # {},
         \A g \in Upload : LifeOf(g)' = IF g \in dropped THEN "released" ELSE LifeOf(g),
         CurrentOf(k)' = {}, CurrentKept(Key \ {k})
  PROVE  Lifecycle!Hide(k)
<1> DEFINE life == [f \in Upload |-> LifeOf(f)]
           current == [j \in Key |-> {r.file : r \in RowAt(j)}]
<1>1. dropped \in SUBSET current[k] /\ current[k] # {}
  BY DEF CurrentOf
<1>2. life' = [g \in Upload |-> IF g \in dropped THEN "released" ELSE life[g]]
  OBVIOUS
<1>3. current' = [current EXCEPT ![k] = {}]
  BY DEF CurrentKept, CurrentOf
<1> HIDE DEF life, current
<1> QED
  BY <1>1, <1>2, <1>3 DEF Lifecycle!Hide, life, current

LEMMA ReleaseMaps ==
  ASSUME NEW u \in Upload, Target[u] \in Key, LifeOf(u) = "live", u \notin CurrentOf(Target[u]),
         LifeOf(u)' = "released", \A g \in Upload \ {u} : LifeOf(g)' = LifeOf(g), CurrentKept(Key)
  PROVE  Lifecycle!ReleaseVersion(u)
  BY DEF CurrentKept, CurrentOf, Lifecycle!ReleaseVersion

LEMMA EraseMaps ==
  ASSUME NEW u \in Upload, LifeOf(u) = "released", LifeOf(u)' = "erased",
         \A g \in Upload \ {u} : LifeOf(g)' = LifeOf(g), CurrentKept(Key)
  PROVE  Lifecycle!Erase(u)
  BY DEF CurrentKept, CurrentOf, Lifecycle!Erase

LEMMA AbandonMaps ==
  ASSUME \A g \in Upload : \/ LifeOf(g)' = LifeOf(g)
                           \/ LifeOf(g) = "pending" /\ LifeOf(g)' \in {"released", "lost"},
         CurrentKept(Key)
  PROVE  Lifecycle!Abandon
<1>1. \A g \in Upload : LifeOf(g)' \in Lifecycle!Life
  BY DEF LifeOf, Lifecycle!Life
<1> QED
  BY <1>1 DEF CurrentKept, CurrentOf, Lifecycle!Abandon

LifeStep == [Lifecycle!Next]_<<[f \in Upload |-> LifeOf(f)], [k \in Key |-> {r.file : r \in RowAt(k)}]>>

LEMMA SameRows ==
  ASSUME objects' = objects
  PROVE  CurrentKept(Key)
  BY DEF CurrentKept, CurrentOf, RowAt

LEMMA InspectRows ==
  ASSUME TypeOK, InspectStep
  PROVE  CurrentKept(Key)
<1> SUFFICES ASSUME NEW k \in Key, NEW f PROVE f \in CurrentOf(k)' <=> f \in CurrentOf(k)
  BY DEF CurrentKept
<1>1. \A r : r \in objects' => \E o \in objects : SameFile(r, o)
  BY MarkedRows
<1>2. \A o : o \in objects => \E r \in objects' : SameFile(r, o)
  BY RowsStay
<1>3. f \in CurrentOf(k)' <=> \E r \in objects' : r.key = k /\ r.file = f
  BY DEF CurrentOf, RowAt
<1>4. f \in CurrentOf(k) <=> \E r \in objects : r.key = k /\ r.file = f
  BY DEF CurrentOf, RowAt
<1> QED
  BY <1>1, <1>2, <1>3, <1>4 DEF SameFile

\* The steps that leave every file where it is.
LEMMA QuietLife ==
  ASSUME Sound, [Next]_vars, CurrentKept(Key), staging' = staging,
         \A g \in Upload : /\ drive'[g] = drive[g] \/ {drive[g], drive'[g]} \subseteq InDrive
                           /\ drive[g] \in InDrive => (g \in cleanup' <=> g \in cleanup)
                           /\ pc'[g] = "sent" <=> pc[g] = "sent"
  PROVE  LifeStep
<1>1. \A g \in Upload : LifeOf(g)' = LifeOf(g)
  BY LifeKept DEF Pending
<1> QED
  BY <1>1, StutterMaps DEF LifeStep

LEMMA BeginLife ==
  ASSUME Sound, [Next]_vars, NEW u \in Upload, BeginUpload(u) \/ Grant(u) \/ GiveUp(u)
  PROVE  LifeStep
<1>1. staging' = staging /\ drive' = drive /\ cleanup' = cleanup /\ objects' = objects
  BY DEF BeginUpload, Grant, GiveUp, db
<1>2. \A g \in Upload : pc'[g] = "sent" <=> pc[g] = "sent"
  BY DEF BeginUpload, Grant, GiveUp, Sound, TypeOK
<1> QED
  BY <1>1, <1>2, SameRows, QuietLife

LEMMA StageLife ==
  ASSUME Sound, [Next]_vars, NEW u \in Upload, Stage(u)
  PROVE  LifeStep
<1>1. drive' = drive /\ cleanup' = cleanup /\ objects' = objects
  BY DEF Stage
<1>2. drive[u] = "none"
  BY DEF Stage, Sound, DriveInv, NotYetMade
<1>3. \A g \in Upload \ {u} : pc'[g] = pc[g] /\ staging'[g] = staging[g]
  BY DEF Stage, Sound, TypeOK
<1>4. staging'[u] = "committed" => staging[u] = "committed"
  BY DEF Stage, Sound, TypeOK
<1>5. \A g \in Upload \ {u} : LifeOf(g)' = LifeOf(g)
  BY <1>1, <1>3, LifeKept DEF Pending
<1>6. LifeOf(u)' = LifeOf(u)
  BY <1>1, <1>2, <1>4, LifeKept DEF InDrive
<1> QED
  BY <1>1, <1>5, <1>6, SameRows, StutterMaps DEF LifeStep

LEMMA CreateLife ==
  ASSUME Sound, [Next]_vars, NEW u \in Upload, DriveCreates(u)
  PROVE  LifeStep
<1>1. staging' = staging /\ cleanup' = cleanup /\ objects' = objects
  BY DEF DriveCreates, db
<1>2. drive[u] = "none" /\ ~Referenced(u) /\ u \notin cleanup
  BY DEF DriveCreates, Sound, DriveInv, NotYetMade, UnmadeUnknown, Known, BeingRemoved
<1>3. drive'[u] = "present" /\ pc'[u] = "sent"
  BY DEF DriveCreates, Sound, TypeOK
<1>4. \A g \in Upload \ {u} : pc'[g] = pc[g] /\ drive'[g] = drive[g]
  BY DEF DriveCreates, Sound, TypeOK
<1>5. \A g \in Upload \ {u} : LifeOf(g)' = LifeOf(g)
  BY <1>1, <1>4, LifeKept DEF Pending
<1>6. ~Referenced(u)'
  BY <1>1, <1>2, ReferencedMoves DEF Sound
<1>7. LifeOf(u) = "none" /\ LifeOf(u)' = "pending"
  BY <1>1, <1>2, <1>3, <1>6 DEF LifeOf
<1>8. Lifecycle!Create(u)
  BY <1>1, <1>5, <1>7, SameRows, CreateMaps
<1> QED
  BY <1>8 DEF LifeStep, Lifecycle!Next

\* An upload that ends without publishing: its file is queued, or left behind.
LEMMA FailLife ==
  ASSUME Sound, [Next]_vars, NEW u \in Upload, UploadFails(u) \/ Reject(u)
  PROVE  LifeStep
<1>1. objects' = objects /\ drive' = drive /\ staging'[u] = "failed" /\ pc'[u] = "done"
  BY DEF UploadFails, Reject, Sound, TypeOK
<1>2. \A g \in Upload \ {u} : pc'[g] = pc[g] /\ staging'[g] = staging[g] /\ (g \in cleanup' <=> g \in cleanup)
  BY DEF UploadFails, Reject, RejectQueues, Sound, TypeOK
<1>3. \A g \in Upload \ {u} : LifeOf(g)' = LifeOf(g)
  BY <1>1, <1>2, LifeKept DEF Pending
<1>4. CASE pc[u] = "sent"
  <2>1. LifeOf(u) = "pending" /\ drive[u] \in InDrive /\ ~Referenced(u)
    BY <1>4, PendingLife
  <2>2. ~Referenced(u)'
    BY <1>1, <2>1, ReferencedMoves DEF Sound
  <2>3. LifeOf(u)' \in {"released", "lost"}
    BY <1>1, <2>1, <2>2 DEF LifeOf, InDrive
  <2>4. Lifecycle!Abandon
    BY <1>1, <1>3, <2>1, <2>3, SameRows, AbandonMaps
  <2> QED
    BY <2>4 DEF LifeStep, Lifecycle!Next
<1>5. CASE pc[u] # "sent"
  <2>1. drive[u] = "none"
    BY <1>5 DEF UploadFails, Reject, Sound, DriveInv, NotYetMade
  <2>2. LifeOf(u)' = LifeOf(u)
    BY <1>1, <2>1 DEF LifeOf
  <2> QED
    BY <1>1, <1>3, <2>2, SameRows, StutterMaps DEF LifeStep
<1> QED
  BY <1>4, <1>5

\* A file that leaves the tables while it is queued is released.
LEMMA DroppedLife ==
  ASSUME Sound, [Next]_vars, NEW g \in Upload, Referenced(g), g \in cleanup', drive'[g] = drive[g],
         staging'[g] = "committed" => staging[g] = "committed"
  PROVE  LifeOf(g)' = "released"
<1>1. drive[g] \in InDrive
  BY LiveLife
<1>2. ~Referenced(g)'
  BY ReferencedMoves DEF Sound
<1> QED
  BY <1>1, <1>2 DEF LifeOf, InDrive

LEMMA CurrentIsLive ==
  ASSUME NEW k, NEW f \in CurrentOf(k)
  PROVE  Referenced(f)
  BY DEF CurrentOf, RowAt, Referenced

LEMMA CommitLife ==
  ASSUME Sound, [Next]_vars, NEW u \in Upload, Commit(u)
  PROVE  LifeStep
<1> DEFINE k == Target[u]
           dropped == QueuesReplaced(RowAt(k), modeAt[u])
<1>1. k \in Key /\ dropped \in SUBSET CurrentOf(k)
  BY DEF QueuesReplaced, CurrentOf
<1>2. \A g \in dropped : Referenced(g)
  BY <1>1, CurrentIsLive
<1>3. /\ drive' = drive /\ cleanup' = cleanup \cup dropped
      /\ objects' = (objects \ RowAt(k)) \cup {PublishedRow(u)}
      /\ pc[u] = "sent" /\ pc' = [pc EXCEPT ![u] = pc'[u]]
      /\ staging' = [staging EXCEPT ![u] = "committed"]
  BY DEF Commit, Sound, TypeOK
<1> HIDE DEF dropped
<1>4. \A g \in Upload \ {u} : (pc'[g] = "sent" <=> pc[g] = "sent") /\ staging'[g] = staging[g]
  BY <1>3 DEF Sound, TypeOK
<1>5. LifeOf(u) = "pending" /\ drive[u] \in InDrive /\ ~Referenced(u)
  BY <1>3, PendingLife
<1>6. LifeOf(u)' = "live" /\ u \notin dropped
  BY <1>2, <1>3, <1>5, CommitReferences DEF LifeOf, InDrive
<1>7. \A g \in Upload \ {u} : LifeOf(g)' = IF g \in dropped THEN "released" ELSE LifeOf(g)
  <2>1. ASSUME NEW g \in Upload \ {u}, g \in dropped PROVE LifeOf(g)' = "released"
    BY <1>2, <1>3, <1>4, <2>1, DroppedLife
  <2>2. ASSUME NEW g \in Upload \ {u}, g \notin dropped PROVE LifeOf(g)' = LifeOf(g)
    BY <1>3, <1>4, <2>2, LifeKept DEF Pending
  <2> QED
    BY <2>1, <2>2
<1>8. CurrentOf(k)' = {u} /\ CurrentKept(Key \ {k})
  <2>1. PublishedRow(u).key = k /\ PublishedRow(u).file = u
    BY DEF PublishedRow
  <2>2. RowAt(k)' = {PublishedRow(u)} /\ \A j \in Key \ {k} : RowAt(j)' = RowAt(j)
    BY <1>3, <2>1 DEF RowAt
  <2> QED
    BY <2>1, <2>2 DEF CurrentOf, CurrentKept
<1> HIDE DEF k
<1>9. Lifecycle!Supersedes(k, u)
  BY <1>1, <1>6, <1>7, <1>8, SupersedesMaps
<1>10. Lifecycle!Publish(u)
  BY <1>5, <1>9 DEF k, Lifecycle!Publish
<1> QED
  BY <1>10 DEF LifeStep, Lifecycle!Next

LEMMA DeleteLife ==
  ASSUME Sound, [Next]_vars, NEW d \in Deleter, PerformDelete(d)
  PROVE  LifeStep
<1>1. PICK r \in StillCurrent(d) :
         IF modeAt[d] = "Disabled" THEN DeleteUnversioned(d, r) ELSE DeleteVersioned(d, r)
  BY DEF PerformDelete
<1>2. r \in objects /\ r.key \in Key /\ objects' = objects \ {r}
  BY <1>1 DEF StillCurrent, ActiveAt, RowAt, DeleteUnversioned, DeleteVersioned, Sound, TypeOK, ObjectRow
<1>3. RowAt(r.key) = {r}
  BY <1>2 DEF RowAt, Sound, RowsInv, RowsUnique
<1> DEFINE dropped == IF ArchivesPrevious(r, modeAt[d]) THEN {} ELSE {r.file}
<1>4. CurrentOf(r.key) = {r.file} /\ dropped \in SUBSET CurrentOf(r.key)
  BY <1>3 DEF CurrentOf
<1>5. cleanup' = cleanup \cup dropped
  BY <1>1 DEF DeleteUnversioned, DeleteVersioned, ArchivesPrevious
<1>6. staging' = staging /\ drive' = drive
  BY DEF PerformDelete
<1>7. \A g \in Upload : pc'[g] = pc[g]
  <2>1. \E at : pc' = [pc EXCEPT ![d] = at]
    BY <1>1 DEF DeleteUnversioned, DeleteVersioned
  <2> QED
    BY <2>1 DEF Sound, TypeOK
<1> HIDE DEF dropped
<1>8. \A g \in Upload : LifeOf(g)' = IF g \in dropped THEN "released" ELSE LifeOf(g)
  <2>1. ASSUME NEW g \in Upload, g \in dropped PROVE LifeOf(g)' = "released"
    BY <1>4, <1>5, <1>6, <2>1, CurrentIsLive, DroppedLife
  <2>2. ASSUME NEW g \in Upload, g \notin dropped PROVE LifeOf(g)' = LifeOf(g)
    BY <1>5, <1>6, <1>7, <2>2, LifeKept DEF Pending
  <2> QED
    BY <2>1, <2>2
<1>9. CurrentOf(r.key)' = {} /\ CurrentKept(Key \ {r.key})
  <2>1. RowAt(r.key)' = {} /\ \A j \in Key \ {r.key} : RowAt(j)' = RowAt(j)
    BY <1>2, <1>3 DEF RowAt
  <2> QED
    BY <2>1 DEF CurrentOf, CurrentKept
<1>10. Lifecycle!Hide(r.key)
  BY <1>2, <1>4, <1>8, <1>9, HideMaps
<1> QED
  BY <1>2, <1>10 DEF LifeStep, Lifecycle!Next

\* A removal: the file was released, whoever is removing it.
LEMMA EraseLife ==
  ASSUME Sound, [Next]_vars, NEW f \in Upload, BeingRemoved(f), drive[f] # "gone", drive' = Remove(f),
         objects' = objects, staging' = staging, cleanup' = cleanup,
         \A g \in Upload : pc'[g] = "sent" <=> pc[g] = "sent"
  PROVE  LifeStep
<1>1. f \in cleanup /\ ~Referenced(f) /\ drive[f] # "none"
  BY DEF Sound, FilesInv, LiveFileSafe, DriveInv, RemovalsQueued, UnmadeUnknown, Known
<1>2. drive'[f] = "gone" /\ \A g \in Upload \ {f} : drive'[g] = drive[g]
  BY DEF Remove, Sound, TypeOK
<1>3. LifeOf(f) = "released" /\ LifeOf(f)' = "erased"
  BY <1>1, <1>2 DEF LifeOf
<1>4. \A g \in Upload \ {f} : LifeOf(g)' = LifeOf(g)
  BY <1>2, LifeKept DEF Pending
<1>5. Lifecycle!Erase(f)
  BY <1>3, <1>4, SameRows, EraseMaps
<1> QED
  BY <1>5 DEF LifeStep, Lifecycle!Next

LEMMA DrainLife ==
  ASSUME Sound, [Next]_vars, NEW p \in Request, DrainStep(p)
  PROVE  LifeStep
<1>1. objects' = objects /\ staging' = staging
  BY DEF DrainStep, DrainRemoves, DrainCompletes, DrainFails, db
<1>2. \A g \in Upload : pc'[g] = "sent" <=> pc[g] = "sent"
  BY DEF DrainStep, DrainRemoves, DrainCompletes, DrainFails, Sound, TypeOK
<1>3. CASE DrainRemoves(p)
  <2>1. cleanup' = cleanup /\ draining[p] \subseteq Upload
    BY <1>3 DEF DrainRemoves, db, Sound, TypeOK
  <2>2. PICK f \in draining[p] : drive[f] # "gone" /\ drive' = Remove(f)
    BY <1>3 DEF DrainRemoves
  <2>3. BeingRemoved(f)
    BY DEF BeingRemoved
  <2> QED
    BY <1>1, <1>2, <2>1, <2>2, <2>3, EraseLife
<1>4. CASE DrainCompletes(p)
  <2>1. \A f \in draining[p] : drive[f] = "gone"
    BY <1>4 DEF DrainCompletes, Sound, DriveInv, DrainedIsGone
  <2>2. drive' = drive /\ cleanup' = cleanup \ draining[p]
    BY <1>4 DEF DrainCompletes
  <2>3. \A g \in Upload : drive[g] \in InDrive => (g \in cleanup' <=> g \in cleanup)
    BY <2>1, <2>2 DEF InDrive
  <2> QED
    BY <1>1, <1>2, <2>2, <2>3, SameRows, QuietLife
<1>5. CASE DrainFails(p)
  BY <1>1, <1>2, <1>5, SameRows, QuietLife DEF DrainFails, db
<1> QED
  BY <1>3, <1>4, <1>5 DEF DrainStep

LEMMA WorkerLife ==
  ASSUME Sound, [Next]_vars, WorkerStep
  PROVE  LifeStep
<1>1. objects' = objects /\ staging' = staging /\ pc' = pc
  BY DEF WorkerStep, WorkerFetch, WorkerRemoves, WorkerCompletes, WorkerRetries, db
<1>2. ASSUME NEW f \in batch, WorkerRemoves(f) PROVE LifeStep
  <2>1. f \in Upload /\ BeingRemoved(f)
    BY DEF Sound, TypeOK, BeingRemoved
  <2> QED
    BY <1>1, <1>2, <2>1, EraseLife DEF WorkerRemoves, db
<1>3. ASSUME NEW f \in batch, WorkerCompletes(f) PROVE LifeStep
  <2>1. drive[f] = "gone"
    BY <1>3 DEF WorkerCompletes, Confirmed, Sound, DriveInv, ErasedIsGone
  <2>2. drive' = drive /\ cleanup' = cleanup \ {f}
    BY <1>3 DEF WorkerCompletes
  <2>3. \A g \in Upload : drive[g] \in InDrive => (g \in cleanup' <=> g \in cleanup)
    BY <2>1, <2>2 DEF InDrive
  <2> QED
    BY <1>1, <2>2, <2>3, SameRows, QuietLife
<1>4. ASSUME cleanup' = cleanup, drive' = drive PROVE LifeStep
  BY <1>1, <1>4, SameRows, QuietLife
<1> QED
  BY <1>2, <1>3, <1>4 DEF WorkerStep, WorkerFetch, WorkerRetries, db

LEMMA InspectLife ==
  ASSUME Sound, [Next]_vars, InspectStep
  PROVE  LifeStep
<1>1. staging' = staging /\ pc' = pc /\ cleanup' = cleanup
  BY DEF InspectStep, Touch, LookUp, Reconcile, DownloadNotFound, db, memory
<1>2. CurrentKept(Key)
  BY InspectRows DEF Sound
<1>3. \A g \in Upload : drive'[g] = drive[g] \/ {drive[g], drive'[g]} \subseteq InDrive
  <2>1. CASE \E f \in Upload : Touch(f)
    BY <2>1 DEF Touch, Sound, TypeOK, InDrive
  <2>2. CASE drive' = drive
    BY <2>2
  <2> QED
    BY <2>1, <2>2 DEF InspectStep, LookUp, Reconcile, DownloadNotFound
<1> QED
  BY <1>1, <1>2, <1>3, QuietLife

\* Of the versions of a key one is the newest.
LEMMA NewestUnique ==
  ASSUME TypeOK, RowsInv, NEW k
  PROVE  \A m, n \in NewestVersion({r \in versions : r.key = k}) : m = n
<1> SUFFICES ASSUME NEW m \in NewestVersion({r \in versions : r.key = k}),
                    NEW n \in NewestVersion({r \in versions : r.key = k})
             PROVE  m = n
  OBVIOUS
<1>1. m \in versions /\ n \in versions /\ m.key = n.key
  BY DEF NewestVersion
<1>2. SortsFirst(m.ver, n.ver) /\ SortsFirst(n.ver, m.ver) /\ m.ver \in Nat /\ n.ver \in Nat
  BY <1>1 DEF NewestVersion, TypeOK, VersionRow
<1>3. m.ver = n.ver
  BY <1>2 DEF SortsFirst, NullVersion
<1> QED
  BY <1>1, <1>3 DEF RowsInv, RowsUnique

LEMMA PromoteLife ==
  ASSUME Sound, [Next]_vars, NEW k \in Key, NEW ms, Promote(k, {}, versions, ms),
         NEW dropped \in SUBSET CurrentOf(k), cleanup' = cleanup \cup dropped,
         UNCHANGED <<staging, drive, pc>>
  PROVE  LifeStep
<1> DEFINE newest == NewestVersion({r \in versions : r.key = k})
<1>1. \A g \in Upload : LifeOf(g)' = IF g \in dropped THEN "released" ELSE LifeOf(g)
  <2>1. ASSUME NEW g \in Upload, g \in dropped PROVE LifeOf(g)' = "released"
    BY <2>1, CurrentIsLive, DroppedLife
  <2>2. ASSUME NEW g \in Upload, g \notin dropped PROVE LifeOf(g)' = LifeOf(g)
    BY <2>2, LifeKept DEF Pending
  <2> QED
    BY <2>1, <2>2
<1>2. CASE newest = {}
  <2>1. objects' = objects \ RowAt(k)
    BY <1>2 DEF Promote
  <2>2. CurrentOf(k)' = {} /\ CurrentKept(Key \ {k})
    <3>1. RowAt(k)' = {} /\ \A j \in Key \ {k} : RowAt(j)' = RowAt(j)
      BY <2>1 DEF RowAt
    <3> QED
      BY <3>1 DEF CurrentOf, CurrentKept
  <2>3. CASE CurrentOf(k) # {}
    <3>1. Lifecycle!Hide(k)
      BY <1>1, <2>2, <2>3, HideMaps
    <3> QED
      BY <3>1 DEF LifeStep, Lifecycle!Next
  <2>4. CASE CurrentOf(k) = {}
    <3>1. CurrentKept(Key) /\ \A g \in Upload : LifeOf(g)' = LifeOf(g)
      BY <1>1, <2>2, <2>4 DEF CurrentKept
    <3> QED
      BY <3>1, StutterMaps DEF LifeStep
  <2> QED
    BY <2>3, <2>4
<1>3. ASSUME NEW n \in newest PROVE LifeStep
  <2>1. newest = {n}
    <3>1. \A x, y \in newest : x = y
      BY NewestUnique DEF Sound
    <3> HIDE DEF newest
    <3> QED
      BY <1>3, <3>1
  <2>2. n \in versions /\ n.key = k /\ n.file \in Upload
    BY DEF NewestVersion, Sound, TypeOK, VersionRow
  <2> DEFINE f == n.file
             row == PromotedRow(n, {})
  <2>3. row.key = k /\ row.file = f
    BY <2>2 DEF PromotedRow
  <2> HIDE DEF row
  <2>4. objects' = (objects \ RowAt(k)) \cup {row}
    <3>1. objects' = (objects \ RowAt(k)) \cup {PromotedRow(m, {}) : m \in newest}
      BY <2>1 DEF Promote
    <3> HIDE DEF newest
    <3> QED
      BY <2>1, <3>1 DEF row
  <2>5. Target[f] = k
    BY <2>2 DEF Sound, OriginInv, RowsHaveOrigins, Origin
  <2>6. Referenced(f) /\ LifeOf(f) = "live"
    BY <2>2, LiveLife DEF Referenced
  <2>7. f \notin CurrentOf(k)
    BY <2>2 DEF CurrentOf, RowAt, Sound, FilesInv, NoSharedFile
  <2>8. CurrentOf(k)' = {f} /\ CurrentKept(Key \ {k})
    <3>1. RowAt(k)' = {row} /\ \A j \in Key \ {k} : RowAt(j)' = RowAt(j)
      BY <2>3, <2>4 DEF RowAt
    <3> QED
      BY <2>3, <3>1 DEF CurrentOf, CurrentKept
  <2> HIDE DEF f
  <2>9. f \in Upload /\ f \notin dropped /\ LifeOf(f)' = "live"
    BY <1>1, <2>2, <2>6, <2>7 DEF f
  <2>10. Lifecycle!Supersedes(k, f)
    BY <1>1, <2>8, <2>9, SupersedesMaps
  <2>11. k = Target[f] /\ f \notin {r.file : r \in RowAt(k)}
    BY <2>5, <2>7 DEF CurrentOf
  <2>12. Lifecycle!Restore(f)
    BY <2>6, <2>9, <2>10, <2>11 DEF Lifecycle!Restore
  <2> QED
    BY <2>9, <2>12 DEF LifeStep, Lifecycle!Next
<1> QED
  BY <1>2, <1>3

LEMMA AdminLife ==
  ASSUME Sound, [Next]_vars, AdminStep
  PROVE  LifeStep
<1>1. UNCHANGED <<staging, drive, pc>>
  BY DEF AdminStep, DeleteObjectVersion, PutBucketVersioning, memory
<1>2. ASSUME NEW m \in Modes, PutBucketVersioning(m) PROVE LifeStep
  BY <1>1, <1>2, SameRows, QuietLife DEF PutBucketVersioning
<1>3. ASSUME NEW r \in objects, DeleteCurrentVersion(r) PROVE LifeStep
  <2>1. r.key \in Key /\ {r.file} \in SUBSET CurrentOf(r.key)
    BY DEF Sound, TypeOK, ObjectRow, CurrentOf, RowAt
  <2>2. Promote(r.key, {}, versions, markers) /\ cleanup' = cleanup \cup {r.file}
    BY <1>3 DEF DeleteCurrentVersion
  <2> QED
    BY <1>1, <2>1, <2>2, PromoteLife
<1>4. ASSUME NEW r \in versions, DeleteArchivedVersion(r) PROVE LifeStep
  <2> DEFINE f == r.file
  <2>1. f \in Upload /\ Referenced(f)
    BY DEF Sound, TypeOK, VersionRow, Referenced
  <2>2. objects' = objects /\ cleanup' = cleanup \cup {f}
    BY <1>4 DEF DeleteArchivedVersion, Releases
  <2>3. f \notin CurrentOf(Target[f])
    BY DEF CurrentOf, RowAt, Sound, FilesInv, NoSharedFile
  <2>4. Target[f] \in Key
    BY <2>1
  <2> HIDE DEF f
  <2>5. LifeOf(f) = "live" /\ LifeOf(f)' = "released"
    BY <1>1, <2>1, <2>2, LiveLife, DroppedLife
  <2>6. \A g \in Upload \ {f} : LifeOf(g)' = LifeOf(g)
    BY <1>1, <2>2, LifeKept DEF Pending
  <2>7. Lifecycle!ReleaseVersion(f)
    BY <2>1, <2>2, <2>3, <2>4, <2>5, <2>6, SameRows, ReleaseMaps
  <2> QED
    BY <2>1, <2>7 DEF LifeStep, Lifecycle!Next
<1>5. ASSUME NEW m \in markers, DeleteMarker(m) PROVE LifeStep
  <2>1. RowAt(m.key) = {} /\ m.key \in Key
    BY <1>5 DEF DeleteMarker, Sound, MarkersHide, SettledInv, OneSetting, TypeOK, MarkerRow
  <2>2. Promote(m.key, {}, versions, markers \ {m}) /\ cleanup' = cleanup
    BY <1>5, <2>1 DEF DeleteMarker
  <2>3. {} \in SUBSET CurrentOf(m.key) /\ cleanup' = cleanup \cup {}
    BY <2>2
  <2> QED
    BY <1>1, <2>1, <2>2, <2>3, PromoteLife
<1> QED
  BY <1>2, <1>3, <1>4, <1>5 DEF AdminStep, DeleteObjectVersion

\* A crash and the recovery after it: what was being uploaded is left behind,
\* queued when its id was recorded, or left to the next recovery.
LEMMA RestartLife ==
  ASSUME Sound, [Next]_vars, NEW S \in SUBSET Unfinished, NEW W \in SUBSET Upload, Restart(S, W)
  PROVE  LifeStep
<1> DEFINE rec == recorded \cup W
<1>1. /\ objects' = objects /\ drive' = drive /\ cleanup' = cleanup \cup OrphansOf(S, rec)
      /\ \A g \in W : pc[g] = "sent"
      /\ \A g \in Upload : pc'[g] # "sent"
  BY DEF Restart, LoseMemory
<1>2. \A g \in Upload : \/ staging'[g] = staging[g] /\ g \notin W
                        \/ staging[g] \in {"uploading", "uploaded"} /\ staging'[g] \in {"uploaded", "failed"}
  BY RestartMoves DEF Sound
<1>3. \A g \in Upload : staging'[g] = "committed" => staging[g] = "committed"
  BY <1>2
<1>4. \A g \in Upload : g \in OrphansOf(S, rec) => Pending(g) /\ ~Referenced(g)
  <2> SUFFICES ASSUME NEW g \in Upload, g \in S, g \in rec PROVE Pending(g) /\ ~Referenced(g)
    BY DEF OrphansOf
  <2>1. g \in Unpublished /\ staging[g] \in {"uploading", "uploaded"}
    BY DEF Unfinished, Unpublished
  <2>2. g \in recorded => staging[g] = "uploaded"
    BY <2>1 DEF Sound, DriveInv, RecordedIsPast
  <2> QED
    BY <1>1, <2>1, <2>2 DEF Pending, Sound, FilesInv, UnpublishedUntouched
<1>5. ASSUME NEW g \in Upload
      PROVE  LifeOf(g)' = LifeOf(g) \/ (LifeOf(g) = "pending" /\ LifeOf(g)' \in {"released", "lost"})
  <2>1. Referenced(g)' <=> Referenced(g) /\ g \notin cleanup'
    BY <1>3, ReferencedMoves DEF Sound
  <2>2. CASE Referenced(g) \/ drive[g] \in {"none", "gone"} \/ g \in cleanup
    <3>1. g \in cleanup' <=> g \in cleanup \/ g \in OrphansOf(S, rec)
      BY <1>1
    <3>2. CASE drive[g] \in {"none", "gone"}
      BY <1>1, <3>2 DEF LifeOf
    <3>3. CASE Referenced(g)
      <4>1. Referenced(g)' /\ g \notin cleanup
        BY <1>4, <2>1, <3>1, <3>3, LiveLife
      <4> QED
        BY <1>1, <3>3, <4>1 DEF LifeOf
    <3>4. CASE ~Referenced(g) /\ g \in cleanup /\ drive[g] \notin {"none", "gone"}
      BY <1>1, <2>1, <3>1, <3>4 DEF LifeOf
    <3> QED
      BY <2>2, <3>2, <3>3, <3>4
  <2>3. CASE ~Referenced(g) /\ drive[g] \notin {"none", "gone"} /\ g \notin cleanup /\ Pending(g)
    BY <1>1, <2>1, <2>3 DEF LifeOf, Pending
  <2>4. CASE ~Referenced(g) /\ drive[g] \notin {"none", "gone"} /\ g \notin cleanup /\ ~Pending(g)
    <3>1. g \notin cleanup' /\ g \notin W
      BY <1>1, <1>4, <2>4 DEF Pending
    <3>2. staging'[g] # "uploaded"
      <4>1. staging'[g] = IF g \in S THEN RecoveredStatus(g, rec) ELSE staging[g]
        BY <3>1 DEF Restart
      <4> QED
        BY <2>4, <4>1 DEF RecoveredStatus, Pending
    <3> QED
      BY <1>1, <2>1, <2>4, <3>1, <3>2 DEF LifeOf, Pending
  <2> QED
    BY <2>2, <2>3, <2>4
<1>6. Lifecycle!Abandon
  BY <1>1, <1>5, SameRows, AbandonMaps
<1> QED
  BY <1>6 DEF LifeStep, Lifecycle!Next

LEMMA LifecycleStep == Sound /\ [Next]_vars => LifeStep
<1> SUFFICES ASSUME Sound, [Next]_vars PROVE LifeStep
  OBVIOUS
<1>1. CASE UNCHANGED vars
  BY <1>1, SameRows, QuietLife DEF vars, db, memory
<1>2. ASSUME NEW u \in Upload, UploadStep(u) PROVE LifeStep
  BY <1>2, BeginLife, StageLife, CreateLife, FailLife, CommitLife DEF UploadStep
<1>3. ASSUME NEW d \in Deleter, DeleteStep(d) PROVE LifeStep
  <2>1. CASE ~PerformDelete(d)
    <3>1. UNCHANGED <<objects, staging, cleanup, drive>>
      BY <1>3, <2>1 DEF DeleteStep, Authorize, ReadForBulk, DeleteRefused, db
    <3>2. \E at : pc' = [pc EXCEPT ![d] = at]
      BY <1>3, <2>1 DEF DeleteStep, Authorize, ReadForBulk, DeleteRefused
    <3>3. \A g \in Upload : pc'[g] = pc[g]
      BY <3>2 DEF Sound, TypeOK
    <3> QED
      BY <3>1, <3>3, SameRows, QuietLife
  <2> QED
    BY <2>1, DeleteLife
<1> QED
  BY <1>1, <1>2, <1>3, DrainLife, AdminLife, InspectLife, WorkerLife, RestartLife DEF Next

LEMMA LifecycleInit == Init => Lifecycle!Init
<1> SUFFICES ASSUME Init PROVE Lifecycle!Init
  OBVIOUS
<1>1. \A f \in Upload : LifeOf(f) = "none"
  BY DEF Init, LifeOf
<1>2. \A k \in Key : {r.file : r \in RowAt(k)} = {}
  BY DEF Init, RowAt
<1> QED
  BY <1>1, <1>2 DEF Lifecycle!Init

\* In a bucket whose setting never changes the namespace implements
\* FileLifecycle: whatever uploads, copies, deletes, version deletes, removals
\* and crashes interleave, a file is published at most once, is erased only
\* after it was let go, and is never lost once it was published.
THEOREM LifecycleImplemented ==
  ASSUME OneSetting
  PROVE  Spec => ImplementsLifecycle
<1>1. SettingFixed /\ HistoryInv => SettledInv
  BY DEF SettledInv
<1>2. Spec => []Sound
  BY <1>1, FilesAlways, OriginAlways, DriveAlways, HideAlways, HistoryAlways, PTL DEF Sound
<1>3. Sound /\ [Next]_vars =>
        [Lifecycle!Next]_<<[f \in Upload |-> LifeOf(f)], [k \in Key |-> {r.file : r \in RowAt(k)}]>>
  BY LifecycleStep DEF LifeStep
<1> QED
  BY <1>2, <1>3, LifecycleInit, PTL DEF Spec, ImplementsLifecycle, Lifecycle!Spec

-----------------------------------------------------------------------------
(***************************************************************************)
(* Ages.  Where puts are the only writes and the setting never changes,    *)
(* the version ids of a key grow with the times its versions were written, *)
(* and the current row is younger than the archived ones: its ticket was   *)
(* drawn after theirs because puts are published in ticket order.          *)
(***************************************************************************)

OnlyPuts == OneSetting /\ Copies = {}

AtPast == \A r \in objects \cup versions : r.at < clock
NoNulls == mode = "Enabled" => \A r \in objects \cup versions : r.ver # NullVersion
VersionsInOrder == \A r, s \in versions : r.key = s.key /\ r.ver < s.ver => r.at < s.at
CurrentIsNewest == \A r \in versions, o \in objects : r.key = o.key => r.ver < o.ver /\ r.at < o.at
AgeInv == AtPast /\ NoNulls /\ VersionsInOrder /\ CurrentIsNewest

SameRow(r, o) == o.key = r.key /\ o.ver = r.ver /\ o.at = r.at

LEMMA InitAge == Init => AgeInv
  BY DEF Init, AgeInv, AtPast, NoNulls, VersionsInOrder, CurrentIsNewest

LEMMA RowNumbers ==
  ASSUME TypeOK
  PROVE  /\ \A r \in objects \cup versions : r.ver \in Nat /\ r.at \in Nat /\ r.key \in Key
         /\ clock \in Nat
  BY DEF TypeOK, ObjectRow, VersionRow

LEMMA AgeFrame ==
  ASSUME TypeOK, AgeInv, mode' = mode, clock' \in Nat, clock <= clock', versions' \subseteq versions,
         \A r \in objects' : \E o \in objects : SameRow(r, o)
  PROVE  AgeInv'
<1>1. AtPast'
  BY RowNumbers DEF AgeInv, AtPast, SameRow
<1>2. NoNulls'
  BY DEF AgeInv, NoNulls, SameRow
<1>3. VersionsInOrder'
  BY DEF AgeInv, VersionsInOrder
<1>4. CurrentIsNewest'
  BY DEF AgeInv, CurrentIsNewest, SameRow
<1> QED
  BY <1>1, <1>2, <1>3, <1>4 DEF AgeInv

\* A version with an id before every other of its key, and the others.
LEMMA NewestIsYoungest ==
  ASSUME TypeOK, RowsInv, AgeInv, mode = "Enabled", NEW k,
         NEW n \in NewestVersion({r \in versions : r.key = k}), NEW s \in versions, s.key = k, s # n
  PROVE  s.ver < n.ver /\ s.at < n.at
<1>1. n \in versions /\ n.key = k /\ SortsFirst(n.ver, s.ver)
  BY DEF NewestVersion
<1>2. n.ver # NullVersion /\ s.ver # NullVersion /\ n.ver \in Nat /\ s.ver \in Nat /\ n.ver # s.ver
  BY <1>1, RowNumbers DEF AgeInv, NoNulls, RowsInv, RowsUnique
<1>3. s.ver < n.ver
  BY <1>1, <1>2 DEF SortsFirst
<1> QED
  BY <1>1, <1>3 DEF AgeInv, VersionsInOrder

\* What a promotion makes of the tables.
LEMMA PromotedTables ==
  ASSUME TypeOK, NEW k, NEW ms, Promote(k, {}, versions, ms)
  PROVE  LET newest == NewestVersion({r \in versions : r.key = k}) IN
         /\ versions' = versions \ newest
         /\ \A o \in objects' : \/ o \in objects /\ o.key # k
                                \/ \E n \in newest : o.key = k /\ o.ver = n.ver /\ o.file = n.file /\ o.at = clock
<1> DEFINE newest == NewestVersion({r \in versions : r.key = k})
<1>1. versions' = versions \ newest
  BY DEF Promote
<1>2. \A n \in newest : n.key = k
  BY DEF NewestVersion
<1>3. \A o \in objects' : o \in objects \ RowAt(k) \/ \E n \in newest : o = PromotedRow(n, {})
  BY DEF Promote
<1>4. \A n : PromotedRow(n, {}).key = n.key /\ PromotedRow(n, {}).ver = n.ver
             /\ PromotedRow(n, {}).file = n.file /\ PromotedRow(n, {}).at = clock
  BY DEF PromotedRow
<1> HIDE DEF newest
<1>5. \A o \in objects' : \/ o \in objects /\ o.key # k
                          \/ \E n \in newest : o.key = k /\ o.ver = n.ver /\ o.file = n.file /\ o.at = clock
  BY <1>2, <1>3, <1>4 DEF RowAt
<1> QED
  BY <1>1, <1>5 DEF newest

LEMMA PromoteAge ==
  ASSUME TypeOK, RowsInv, SettledInv, AgeInv, NEW k, NEW ms, Promote(k, {}, versions, ms), mode' = mode,
         clock' = clock + 1
  PROVE  AgeInv'
<1> DEFINE newest == NewestVersion({r \in versions : r.key = k})
<1>1. versions' = versions \ newest
  BY PromotedTables
<1>2. \A o \in objects' : \/ o \in objects /\ o.key # k
                          \/ \E n \in newest : o.key = k /\ o.ver = n.ver /\ o.file = n.file /\ o.at = clock
  BY PromotedTables
<1>3. newest \subseteq versions
  BY DEF NewestVersion
<1>4. ASSUME NEW n \in newest, NEW s \in versions', s.key = k PROVE s.ver < n.ver
  <2>1. s \in versions /\ s # n /\ mode = "Enabled"
    BY <1>1, <1>4 DEF SettledInv, HistoryInv, NullOnly
  <2> QED
    BY <1>4, <2>1, NewestIsYoungest
<1> HIDE DEF newest
<1>5. AtPast'
  BY <1>1, <1>2, RowNumbers DEF AgeInv, AtPast
<1>6. NoNulls'
  BY <1>1, <1>2, <1>3 DEF AgeInv, NoNulls
<1>7. VersionsInOrder'
  BY <1>1 DEF AgeInv, VersionsInOrder
<1>8. CurrentIsNewest'
  BY <1>1, <1>2, <1>4 DEF AgeInv, CurrentIsNewest, AtPast
<1> QED
  BY <1>5, <1>6, <1>7, <1>8 DEF AgeInv

LEMMA CommitAge ==
  ASSUME TypeOK, FilesInv, RowsInv, OrderInv, OriginInv, OnlyPuts, SettingFixed, HistoryInv, AgeInv,
         NEW u \in Upload, Commit(u)
  PROVE  AgeInv'
<1> DEFINE k == Target[u]
           new == PublishedRow(u)
<1>1. modeAt[u] = mode /\ mode' = mode /\ clock' = clock + 1
  BY DEF SettingFixed, Commit
<1>2. new.key = k /\ new.ver = (IF mode = "Enabled" THEN ticket[u] ELSE NullVersion) /\ new.at = clock
  BY <1>1 DEF PublishedRow
<1>3. objects' = (objects \ RowAt(k)) \cup {new}
  BY DEF Commit
<1>4. CASE mode # "Enabled"
  <2>1. HistoryInv'
    BY <1>1, CommitHistory
  <2>2. versions' = {} /\ versions = {}
    BY <1>1, <1>4, <2>1 DEF HistoryInv, NullOnly
  <2>3. AtPast'
    BY <1>1, <1>2, <1>3, <2>2, RowNumbers DEF AgeInv, AtPast
  <2> QED
    BY <1>1, <1>4, <2>2, <2>3 DEF AgeInv, NoNulls, VersionsInOrder, CurrentIsNewest
<1>5. CASE mode = "Enabled"
  <2> HIDE DEF new
  <2>1. \A v \in versions' : v \in versions \/ \E p \in RowAt(k) : v = ArchivedRow(p)
    BY CommitArchives
  <2>2. \A p \in RowAt(k) : SameRow(ArchivedRow(p), p) /\ p.key = k /\ p \in objects
    BY DEF ArchivedRow, SameRow, RowAt
  <2>3. \A v \in versions' : v \in versions \/ (v.key = k /\ \E p \in objects : SameRow(v, p))
    BY <2>1, <2>2 DEF SameRow
  <2>4. ASSUME NEW r \in objects \cup versions, r.key = k PROVE r.ver < ticket[u]
    <3>1. r.file \in Upload /\ Origin(r) /\ r.ver # NullVersion
      BY <1>5 DEF TypeOK, ObjectRow, VersionRow, OriginInv, RowsHaveOrigins, AgeInv, NoNulls
    <3>2. pc[u] \in Writing /\ staging[u] = "uploading"
      BY DEF Commit, Writing, FilesInv, StagingFollowsHandler
    <3>3. Rivals(u, r.file) /\ u # r.file
      BY <2>4, <3>1, <3>2 DEF Rivals, Puts, OnlyPuts, Origin
    <3> QED
      BY <3>1, <3>2, <3>3 DEF OrderInv, WritersAreLater, Origin, Rivals
  <2>5. AtPast'
    BY <1>1, <1>2, <1>3, <2>3, RowNumbers DEF AgeInv, AtPast, SameRow
  <2>6. NoNulls'
    <3>1. HasTicket(u)
      BY DEF HasTicket, Commit, FilesInv, StagingFollowsHandler
    <3>2. ticket[u] # NullVersion
      BY <3>1 DEF OriginInv, TicketsDiffer, NullVersion, TypeOK
    <3> QED
      BY <1>1, <1>2, <1>3, <1>5, <2>3, <3>2 DEF AgeInv, NoNulls, SameRow
  <2>7. VersionsInOrder'
    <3> SUFFICES ASSUME NEW r \in versions', NEW s \in versions', r.key = s.key, r.ver < s.ver
                 PROVE  r.at < s.at
      BY DEF VersionsInOrder
    <3>1. CASE r \in versions /\ s \in versions
      BY <3>1 DEF AgeInv, VersionsInOrder
    <3>2. CASE r \in versions /\ s.key = k /\ \E p \in objects : SameRow(s, p)
      BY <3>2 DEF AgeInv, CurrentIsNewest, SameRow
    <3>3. ASSUME r.key = k, NEW p \in objects, SameRow(r, p), s \in versions PROVE FALSE
      <4>1. s.ver < r.ver
        BY <3>3 DEF AgeInv, CurrentIsNewest, SameRow
      <4> QED
        BY <3>3, <4>1, RowNumbers DEF SameRow
    <3>4. ASSUME r.key = k, NEW p \in objects, SameRow(r, p), NEW q \in objects, SameRow(s, q) PROVE FALSE
      <4>1. p = q /\ p.ver \in Nat
        BY <3>4, RowNumbers DEF SameRow, RowsInv, RowsUnique
      <4> QED
        BY <3>4, <4>1 DEF SameRow
    <3> QED
      BY <2>3, <3>1, <3>2, <3>3, <3>4
  <2>8. CurrentIsNewest'
    <3> SUFFICES ASSUME NEW r \in versions', NEW o \in objects', r.key = o.key
                 PROVE  r.ver < o.ver /\ r.at < o.at
      BY DEF CurrentIsNewest
    <3>1. CASE o \in objects /\ o.key # k
      BY <2>3, <3>1 DEF AgeInv, CurrentIsNewest
    <3>2. CASE o = new
      BY <1>2, <1>5, <2>3, <2>4, <3>2 DEF SameRow, AgeInv, AtPast
    <3> QED
      BY <1>3, <3>1, <3>2 DEF RowAt
  <2> QED
    BY <2>5, <2>6, <2>7, <2>8 DEF AgeInv
<1> QED
  BY <1>4, <1>5

LEMMA DeleteAge ==
  ASSUME TypeOK, FilesInv, RowsInv, SettingFixed, HistoryInv, AgeInv, NEW d \in Deleter, PerformDelete(d)
  PROVE  AgeInv'
<1>1. modeAt[d] = mode /\ mode' = mode
  BY DEF SettingFixed, PerformDelete
<1>2. PICK r \in StillCurrent(d) :
         IF modeAt[d] = "Disabled" THEN DeleteUnversioned(d, r) ELSE DeleteVersioned(d, r)
  BY DEF PerformDelete
<1>3. r \in objects /\ objects' = objects \ {r} /\ \A o \in objects' : o.key # r.key
  BY <1>2 DEF StillCurrent, ActiveAt, RowAt, DeleteUnversioned, DeleteVersioned, RowsInv, RowsUnique
<1>4. clock' \in Nat /\ clock <= clock'
  BY <1>2 DEF DeleteUnversioned, DeleteVersioned, TypeOK
<1>5. CASE mode # "Enabled"
  <2>1. HistoryInv'
    BY DeleteHistory
  <2>2. versions' \subseteq versions
    BY <1>1, <1>5, <2>1 DEF HistoryInv, NullOnly
  <2> QED
    BY <1>1, <1>3, <1>4, <2>2, AgeFrame DEF SameRow
<1>6. CASE mode = "Enabled"
  <2>1. versions' = versions \cup Archive(r)
    BY <1>1, <1>2, <1>6 DEF DeleteVersioned, ArchivesPrevious
  <2>2. \A v \in versions' : v \in versions \/ SameRow(v, r)
    BY <2>1 DEF Archive, ArchivedRow, SameRow
  <2>3. AtPast'
    BY <1>3, <1>4, <2>2, RowNumbers DEF AgeInv, AtPast, SameRow
  <2>4. NoNulls'
    BY <1>1, <1>3, <2>2 DEF AgeInv, NoNulls, SameRow
  <2>5. VersionsInOrder'
    <3> SUFFICES ASSUME NEW v \in versions', NEW s \in versions', v.key = s.key, v.ver < s.ver
                 PROVE  v.at < s.at
      BY DEF VersionsInOrder
    <3>1. CASE v \in versions /\ s \in versions
      BY <3>1 DEF AgeInv, VersionsInOrder
    <3>2. CASE v \in versions /\ SameRow(s, r)
      BY <1>3, <3>2 DEF AgeInv, CurrentIsNewest, SameRow
    <3>3. CASE SameRow(v, r) /\ s \in versions
      <4>1. s.ver < v.ver /\ s.ver \in Nat /\ v.ver \in Nat
        BY <1>3, <3>3, RowNumbers DEF AgeInv, CurrentIsNewest, SameRow
      <4> QED
        BY <4>1
    <3>4. CASE SameRow(v, r) /\ SameRow(s, r)
      BY <1>3, <3>4, RowNumbers DEF SameRow
    <3> QED
      BY <2>2, <3>1, <3>2, <3>3, <3>4
  <2>6. CurrentIsNewest'
    BY <1>3, <2>2 DEF AgeInv, CurrentIsNewest, SameRow
  <2> QED
    BY <2>3, <2>4, <2>5, <2>6 DEF AgeInv
<1> QED
  BY <1>5, <1>6

LEMMA MarkedTimes ==
  ASSUME TypeOK, InspectStep
  PROVE  \A r \in objects' : \E o \in objects : SameRow(r, o)
<1>1. \A o \in objects : SameRow(o, o)
  BY DEF SameRow
<1>2. ASSUME NEW id, NEW status, NEW r \in MarkStatus(id, status)
      PROVE  \E o \in objects : SameRow(r, o)
  <2>1. PICK o \in objects : r = IF o.id = id THEN [o EXCEPT !.status = status] ELSE o
    BY <1>2 DEF MarkStatus
  <2> QED
    BY <2>1 DEF TypeOK, ObjectRow, SameRow
<1>3. objects' = objects \/ \E id, status : objects' = MarkStatus(id, status)
  BY DEF InspectStep, Touch, LookUp, Reconcile, DownloadNotFound, db
<1>4. CASE \E id, status : objects' = MarkStatus(id, status)
  BY <1>2, <1>4
<1> QED
  BY <1>1, <1>3, <1>4

AgedInv == TypeOK /\ FilesInv /\ RowsInv /\ OrderInv /\ OriginInv /\ MarkersHide /\ OnlyPuts /\ SettledInv /\ AgeInv

\* Every deletion that promotes a version promotes it in the place of no row.
LEMMA PromotionsAreInto ==
  ASSUME AgedInv, AdminStep
  PROVE  /\ mode' = mode /\ clock' = clock + 1
         /\ \/ \E k, ms : Promote(k, {}, versions, ms)
            \/ \E r \in versions : DeleteArchivedVersion(r)
<1>1. \A m \in Modes : ~PutBucketVersioning(m)
  BY DEF AgedInv, OnlyPuts, OneSetting, SettledInv, SettingFixed, PutBucketVersioning
<1>2. mode' = mode /\ DeleteObjectVersion
  BY <1>1 DEF AdminStep, DeleteObjectVersion
<1>3. ASSUME NEW m \in markers, DeleteMarker(m) PROVE \E k, ms : Promote(k, {}, versions, ms)
  <2>1. RowAt(m.key) = {}
    BY <1>3 DEF DeleteMarker, AgedInv, MarkersHide, OnlyPuts, OneSetting
  <2> QED
    BY <1>3, <2>1 DEF DeleteMarker
<1>4. ASSUME NEW r \in objects, DeleteCurrentVersion(r) PROVE \E k, ms : Promote(k, {}, versions, ms)
  BY <1>4 DEF DeleteCurrentVersion
<1> QED
  BY <1>2, <1>3, <1>4 DEF DeleteObjectVersion

LEMMA AgeStep == AgedInv /\ [Next]_vars => AgeInv'
<1> SUFFICES ASSUME AgedInv, [Next]_vars PROVE AgeInv'
  OBVIOUS
<1>1. /\ TypeOK /\ FilesInv /\ RowsInv /\ OrderInv /\ OriginInv /\ OnlyPuts /\ SettingFixed /\ HistoryInv
      /\ SettledInv /\ AgeInv /\ clock \in Nat
  BY DEF AgedInv, SettledInv, TypeOK
<1>2. ASSUME UNCHANGED <<mode, objects, versions>>, clock' = clock \/ clock' = clock + 1 PROVE AgeInv'
  BY <1>1, <1>2, AgeFrame DEF SameRow
<1>3. ASSUME NEW u \in Upload, UploadStep(u) PROVE AgeInv'
  <2>1. CASE Commit(u)
    BY <1>1, <2>1, CommitAge
  <2> QED
    BY <1>2, <1>3, <2>1 DEF UploadStep, BeginUpload, Grant, GiveUp, Stage, DriveCreates,
                             UploadFails, Reject, db
<1>4. ASSUME NEW d \in Deleter, DeleteStep(d) PROVE AgeInv'
  <2>1. CASE PerformDelete(d)
    BY <1>1, <2>1, DeleteAge
  <2> QED
    BY <1>2, <1>4, <2>1 DEF DeleteStep, Authorize, ReadForBulk, DeleteRefused, db
<1>5. ASSUME AdminStep PROVE AgeInv'
  <2>1. mode' = mode /\ clock' = clock + 1
    BY <1>5, PromotionsAreInto
  <2>2. ASSUME NEW k, NEW ms, Promote(k, {}, versions, ms) PROVE AgeInv'
    BY <1>1, <2>1, <2>2, PromoteAge
  <2>3. ASSUME NEW r \in versions, DeleteArchivedVersion(r) PROVE AgeInv'
    BY <1>1, <2>1, <2>3, AgeFrame DEF DeleteArchivedVersion, SameRow
  <2> QED
    BY <1>5, <2>2, <2>3, PromotionsAreInto
<1>6. ASSUME InspectStep PROVE AgeInv'
  <2>1. UNCHANGED <<mode, versions, clock>>
    BY <1>6 DEF InspectStep, Touch, LookUp, Reconcile, DownloadNotFound, db
  <2> QED
    BY <1>1, <1>6, <2>1, MarkedTimes, AgeFrame
<1>7. ASSUME \/ UNCHANGED vars
             \/ \E p \in Request : DrainStep(p)
             \/ WorkerStep
             \/ \E S \in SUBSET Unfinished, W \in SUBSET Upload : Restart(S, W)
      PROVE  AgeInv'
  BY <1>2, <1>7 DEF vars, db, DrainStep, DrainRemoves, DrainCompletes, DrainFails, WorkerStep,
              WorkerFetch, WorkerRemoves, WorkerCompletes, WorkerRetries, Restart
<1> QED
  BY <1>3, <1>4, <1>5, <1>6, <1>7 DEF Next

Newest ==
    \A o \in objects' : \A r \in versions :
        (o.file = r.file /\ r \notin versions') => \A s \in versions' : s.key = r.key => s.at < r.at

LEMMA NewestStep == AgedInv /\ [Next]_vars => Newest
<1> SUFFICES ASSUME AgedInv, [Next]_vars, NEW o \in objects', NEW r \in versions, o.file = r.file,
                    r \notin versions', NEW s \in versions', s.key = r.key
             PROVE  s.at < r.at
  BY DEF Newest
<1>1. TypeOK /\ RowsInv /\ AgeInv /\ mode = "Enabled"
  BY DEF AgedInv, SettledInv, HistoryInv, NullOnly
<1>2. ASSUME NEW k, NEW ms, Promote(k, {}, versions, ms) PROVE s.at < r.at
  <2>1. r \in NewestVersion({v \in versions : v.key = k}) /\ s \in versions /\ s # r
    BY <1>1, <1>2, PromotedTables
  <2>2. s.key = k
    BY <2>1 DEF NewestVersion
  <2> QED
    BY <1>1, <2>1, <2>2, NewestIsYoungest
<1>3. ASSUME NEW v \in versions, DeleteArchivedVersion(v) PROVE FALSE
  <2>1. o \in objects
    BY <1>3 DEF DeleteArchivedVersion
  <2> QED
    BY <2>1 DEF AgedInv, FilesInv, NoSharedFile
<1>4. AdminStep
  <2>1. ASSUME NEW u \in Upload, UploadStep(u) PROVE FALSE
    BY <2>1 DEF UploadStep, BeginUpload, Grant, GiveUp, Stage, DriveCreates, UploadFails, Reject,
                Commit, db
  <2>2. ASSUME NEW d \in Deleter, PerformDelete(d) PROVE FALSE
    <3>1. modeAt[d] = "Enabled"
      BY <1>1 DEF AgedInv, SettledInv, SettingFixed
    <3> QED
      BY <2>2, <3>1 DEF PerformDelete, DeleteVersioned
  <2> QED
    BY <2>1, <2>2 DEF Next, DeleteStep, Authorize, ReadForBulk, DeleteRefused, DrainStep, DrainRemoves,
           DrainCompletes, DrainFails, InspectStep, Touch, LookUp, Reconcile, DownloadNotFound,
           WorkerStep, WorkerFetch, WorkerRemoves, WorkerCompletes, WorkerRetries, Restart, vars, db
<1> QED
  BY <1>2, <1>3, <1>4, PromotionsAreInto

\* Where puts are the only writes and the setting never changes, deleting a
\* version promotes the one written last among those kept, and deleting a
\* latest delete marker replaces nothing that is being served.
THEOREM DeletionsPromote ==
  ASSUME OnlyPuts
  PROVE  Spec => DeletesPromote
<1>1. OneSetting /\ "oldMarker" \notin VersionDeletes
  BY DEF OnlyPuts, OneSetting
<1>2. Spec => [](TypeOK /\ FilesInv /\ RowsInv /\ OrderInv /\ OriginInv /\ MarkersHide /\ SettingFixed /\ HistoryInv)
  BY <1>1, FilesAlways, OrderAlways, OriginAlways, HideAlways, HistoryAlways, PTL
<1>3. TypeOK /\ FilesInv /\ RowsInv /\ OrderInv /\ OriginInv /\ MarkersHide /\ SettingFixed /\ HistoryInv /\ AgeInv
        => AgedInv
  BY <1>1 DEF AgedInv, SettledInv
<1>4. Spec => []AgedInv
  BY <1>2, <1>3, InitAge, AgeStep, PTL DEF Spec
<1>5. AgedInv /\ [Next]_vars => [Newest]_vars
  BY NewestStep
<1>6. Spec => [][Newest]_vars
  BY <1>4, <1>5, PTL DEF Spec
<1>7. Spec => PromotesNewest
  BY <1>6 DEF PromotesNewest, Newest
<1> QED
  BY <1>1, <1>7, MarkersOnlyUnhide DEF DeletesPromote

-----------------------------------------------------------------------------
(***************************************************************************)
(* A crash between two statements of a versioned delete.  Rows may then    *)
(* share an id, so RowsUnique is lost; that ids were drawn before, and     *)
(* that versions are reachable, is not.                                    *)
(***************************************************************************)

\* What such a crash leaves of the row and its key.
LEMMA CrashLeaves ==
  ASSUME NEW d \in Deleter, NEW n \in 1..5, CrashInDelete(d, n)
  PROVE  \E r \in objects :
           /\ objects' = objects \/ (objects' = objects \ {r} /\ n >= 5)
           /\ \A v \in versions' : v \in versions \/ v \in Archive(r)
           /\ \A m \in markers' : \/ m \in markers \/ m \in ClearLatest(markers, r.key)
                                  \/ \E ver \in {NullVersion, clock} : m = [key |-> r.key, ver |-> ver, latest |-> TRUE]
           /\ n >= 4 => \E m \in markers' : m.key = r.key /\ m.latest
           /\ \A m \in markers : m.latest /\ m.key # r.key => m \in markers'
<1>1. PICK r \in StillCurrent(d) :
        LET k == r.key
            suspended == modeAt[d] = "Suspended"
            nullGone == suspended /\ n >= 3
            marker == IF suspended THEN NullVersion ELSE clock
            cleared == IF n >= 2 THEN ClearLatest(markers, k) ELSE markers
            Kept(rows) == IF nullGone THEN WithoutNull(rows, k) ELSE rows
        IN
        /\ versions' = Kept(versions \cup ArchivesBy(modeAt[d], r, n))
        /\ markers' = Kept(cleared) \cup
               (IF n >= 4 THEN {[key |-> k, ver |-> marker, latest |-> TRUE]} ELSE {})
        /\ objects' = IF DropsBy(n) THEN objects \ {r} ELSE objects
  BY DEF CrashInDelete
<1>2. r \in objects
  BY DEF StillCurrent, ActiveAt, RowAt
<1> DEFINE marker == IF modeAt[d] = "Suspended" THEN NullVersion ELSE clock
           new == [key |-> r.key, ver |-> marker, latest |-> TRUE]
           cleared == IF n >= 2 THEN ClearLatest(markers, r.key) ELSE markers
<1>3. objects' = objects \/ (objects' = objects \ {r} /\ n >= 5)
  BY <1>1 DEF DropsBy
<1>4. \A v \in versions' : v \in versions \/ v \in Archive(r)
  BY <1>1 DEF ArchivesBy, WithoutNull
<1>5. /\ \A m \in markers' : m \in cleared \/ m = new
      /\ n >= 4 => new \in markers'
      /\ \A m \in cleared : m.key # r.key => m \in markers'
  BY <1>1 DEF WithoutNull
<1>6. \A m \in markers : m.key # r.key => m \in cleared
  BY DEF ClearLatest
<1>7. marker \in {NullVersion, clock} /\ new.key = r.key /\ new.latest
  OBVIOUS
<1>8. \A m \in cleared : m \in markers \/ m \in ClearLatest(markers, r.key)
  OBVIOUS
<1> HIDE DEF cleared, marker
<1> QED
  BY <1>2, <1>3, <1>4, <1>5, <1>6, <1>7, <1>8

LEMMA CrashTyped ==
  ASSUME TypeOK, NEW d \in Deleter, NEW n \in 1..5, CrashInDelete(d, n)
  PROVE  TypeOK'
<1>1. PICK r \in objects :
        /\ objects' = objects \/ (objects' = objects \ {r} /\ n >= 5)
        /\ \A v \in versions' : v \in versions \/ v \in Archive(r)
        /\ \A m \in markers' : \/ m \in markers \/ m \in ClearLatest(markers, r.key)
                               \/ \E ver \in {NullVersion, clock} : m = [key |-> r.key, ver |-> ver, latest |-> TRUE]
  BY CrashLeaves
<1>2. objects' \subseteq ObjectRow /\ r \in ObjectRow /\ r.key \in Key
  BY <1>1 DEF TypeOK, ObjectRow
<1>3. versions' \subseteq VersionRow
  BY <1>1, <1>2, ArchiveTyped DEF TypeOK
<1>4. markers' \subseteq MarkerRow
  <2>1. ClearLatest(markers, r.key) \subseteq MarkerRow
    BY ClearLatestTyped DEF TypeOK
  <2>2. \A ver \in {NullVersion, clock} : [key |-> r.key, ver |-> ver, latest |-> TRUE] \in MarkerRow
    BY <1>2 DEF TypeOK, MarkerRow, NullVersion
  <2> QED
    BY <1>1, <2>1, <2>2 DEF TypeOK
<1>5. /\ restarts' = restarts + 1 /\ clock' = clock + 1
      /\ pc' = [p \in Request |-> IF pc[p] = "idle" THEN "idle" ELSE "done"]
      /\ seen' = [e \in Deleter |-> {}] /\ draining' = [p \in Request |-> {}]
      /\ batch' = {} /\ erasing' = {} /\ looked' = {}
      /\ UNCHANGED <<mode, staging, recorded, drive, touches, cleanup, events, modeAt, ticket>>
  BY DEF CrashInDelete, CrashNow, LoseMemory
<1> QED
  BY <1>2, <1>3, <1>4, <1>5 DEF TypeOK, PC

LEMMA IdsPastC ==
  TypeOK /\ IdsPast /\ [NextC]_vars => IdsPast'
<1> SUFFICES ASSUME TypeOK, IdsPast, [NextC]_vars PROVE IdsPast'
  OBVIOUS
<1>1. clock \in Nat /\ clock > 0 /\ NullVersion < clock
  BY DEF TypeOK, IdsPast, NullVersion
<1>2. \A r \in objects \cup versions \cup markers : r.ver \in Nat /\ r.ver < clock
  BY DEF TypeOK, ObjectRow, VersionRow, MarkerRow, IdsPast
<1>3. CASE [Next]_vars
  <2>1. clock' = clock \/ clock' = clock + 1
    BY <1>3 DEF Next, UploadStep, BeginUpload, Grant, GiveUp, Stage, DriveCreates, UploadFails, Reject,
           Commit, DeleteStep, Authorize, ReadForBulk, DeleteRefused, PerformDelete, DeleteUnversioned, DeleteVersioned,
           DrainStep, DrainRemoves, DrainCompletes, DrainFails, AdminStep, DeleteObjectVersion, PutBucketVersioning,
           InspectStep, Touch, LookUp, Reconcile, DownloadNotFound, WorkerStep, WorkerFetch,
           WorkerRemoves, WorkerCompletes, WorkerRetries, Restart, vars, db
  <2>2. ASSUME NEW r \in objects' \cup versions' PROVE r.ver < clock'
    <3>1. CASE \E o \in objects \cup versions : SameFile(r, o)
      BY <1>1, <1>2, <2>1, <3>1 DEF SameFile
    <3>2. CASE \E u \in Upload : r = PublishedRow(u)
      <4>1. PICK u \in Upload : r = PublishedRow(u)
        BY <3>2
      <4>2. r.ver < clock
        BY <1>1, <4>1 DEF PublishedRow, IdsPast
      <4>3. r.ver \in Nat
        BY <4>1 DEF PublishedRow, TypeOK, NullVersion
      <4> QED
        BY <1>1, <2>1, <4>2, <4>3
    <3> QED
      BY <1>3, <3>1, <3>2, RowsComeFrom
  <2>3. ASSUME NEW m \in markers' PROVE m.ver < clock'
    <3>1. \/ \E n \in markers : n.ver = m.ver
          \/ m.ver = NullVersion \/ (m.ver = clock /\ clock' = clock + 1)
      BY <1>3, MarkersComeFrom
    <3> QED
      BY <1>1, <1>2, <2>1, <3>1 DEF NullVersion
  <2>4. ASSUME NEW u \in Upload PROVE ticket'[u] < clock'
    <3>1. ticket'[u] = ticket[u] \/ (ticket'[u] = clock /\ clock' = clock + 1)
      <4>1. ASSUME NEW w \in Upload, UploadStep(w)
            PROVE  ticket' = ticket \/ (ticket' = [ticket EXCEPT ![w] = clock] /\ clock' = clock + 1)
        BY <4>1 DEF UploadStep, BeginUpload, Grant, GiveUp, Stage, DriveCreates, UploadFails, Reject, Commit
      <4>2. (\E w \in Upload : UploadStep(w)) \/ ticket' = ticket
        BY <1>3 DEF Next, DeleteStep, Authorize, ReadForBulk, DeleteRefused, PerformDelete,
             DrainStep, DrainRemoves, DrainCompletes, DrainFails, AdminStep, DeleteObjectVersion, PutBucketVersioning,
             InspectStep, Touch, LookUp, Reconcile, DownloadNotFound, WorkerStep, WorkerFetch,
             WorkerRemoves, WorkerCompletes, WorkerRetries, Restart, LoseMemory, vars, memory
      <4> QED
        BY <4>1, <4>2 DEF TypeOK
    <3>2. ticket[u] \in Nat /\ ticket[u] < clock
      BY DEF TypeOK, IdsPast
    <3> QED
      BY <1>1, <2>1, <3>1, <3>2
  <2> QED
    BY <1>1, <2>1, <2>2, <2>3, <2>4 DEF IdsPast
<1>4. ASSUME NEW d \in Deleter, NEW n \in 1..5, CrashInDelete(d, n) PROVE IdsPast'
  <2>1. PICK r \in objects :
          /\ objects' = objects \/ objects' = objects \ {r}
          /\ \A v \in versions' : v \in versions \/ v \in Archive(r)
          /\ \A m \in markers' : \/ m \in markers \/ m \in ClearLatest(markers, r.key)
                                 \/ \E ver \in {NullVersion, clock} : m = [key |-> r.key, ver |-> ver, latest |-> TRUE]
    BY <1>4, CrashLeaves
  <2>2. clock' = clock + 1 /\ ticket' = ticket
    BY <1>4 DEF CrashInDelete, CrashNow, LoseMemory
  <2>3. \A o \in objects' : o.ver < clock'
    BY <1>1, <1>2, <2>1, <2>2
  <2>4. ASSUME NEW v \in versions' PROVE v.ver < clock'
    <3>1. v \in versions \/ v.ver = r.ver
      BY <2>1 DEF Archive, ArchivedRow
    <3> QED
      BY <1>1, <1>2, <2>2, <3>1
  <2>5. ASSUME NEW m \in markers' PROVE m.ver < clock'
    <3>1. ASSUME m \in ClearLatest(markers, r.key)
          PROVE  \E n2 \in markers : n2.ver = m.ver
      <4>1. markers \in SUBSET MarkerRow
        BY DEF TypeOK
      <4>2. PICK n2 \in markers : m = IF n2.key = r.key THEN [n2 EXCEPT !.latest = FALSE] ELSE n2
        BY <3>1 DEF ClearLatest
      <4>3. n2 \in MarkerRow
        BY <4>1
      <4> QED
        BY <4>2, <4>3 DEF MarkerRow
    <3>2. (\E n2 \in markers : n2.ver = m.ver) \/ m.ver = NullVersion \/ m.ver = clock
      BY <2>1, <3>1
    <3> QED
      BY <1>1, <1>2, <2>2, <3>2 DEF NullVersion
  <2>6. \A u \in Upload : ticket'[u] < clock'
    BY <1>1, <2>2 DEF IdsPast, TypeOK
  <2> QED
    BY <1>1, <2>2, <2>3, <2>4, <2>5, <2>6 DEF IdsPast
<1> QED
  BY <1>3, <1>4 DEF NextC

-----------------------------------------------------------------------------
LEMMA CommitReaches ==
  ASSUME VersionsReachable, NEW u \in Upload, Commit(u)
  PROVE  VersionsReachable'
<1>1. PICK k : k = Target[u]
  OBVIOUS
<1>2. PublishedRow(u).key = k /\ PublishedRow(u) \in objects' /\ objects' = (objects \ RowAt(k)) \cup {PublishedRow(u)}
  BY <1>1 DEF PublishedRow, Commit
<1>3. \A v \in versions' : v.key = k \/ \E w \in versions : w.key = v.key
  BY <1>1, CommitArchives DEF ArchivedRow, RowAt
<1>4. \A o \in objects : o.key = k \/ \E p \in objects' : p.key = o.key
  BY <1>2 DEF RowAt
<1>5. \A m \in markers : m.latest /\ m.key # k => m \in markers'
  BY <1>1 DEF Commit, ClearLatest
<1>6. \E o \in objects' : o.key = k
  BY <1>2
<1> QED
  BY <1>3, <1>4, <1>5, <1>6, ReachFrame

LEMMA DeleteReaches ==
  ASSUME VersionsReachable, NEW d \in Deleter, modeAt[d] # "Disabled", PerformDelete(d)
  PROVE  VersionsReachable'
<1>1. PICK r \in StillCurrent(d) : DeleteVersioned(d, r)
  BY DEF PerformDelete
<1>2. PICK k : k = r.key
  OBVIOUS
<1> DEFINE marker == [key |-> k, ver |-> IF modeAt[d] = "Enabled" THEN clock ELSE NullVersion, latest |-> TRUE]
<1>3. marker \in markers' /\ marker.key = k /\ marker.latest
  BY <1>1, <1>2 DEF DeleteVersioned
<1>4. \A v \in versions' : v.key = k \/ \E w \in versions : w.key = v.key
  BY <1>1, <1>2 DEF DeleteVersioned, WithoutNull, Archive, ArchivedRow
<1>5. \A o \in objects : o.key = k \/ \E p \in objects' : p.key = o.key
  BY <1>1, <1>2 DEF DeleteVersioned
<1>6. \A m \in markers : m.latest /\ m.key # k => m \in markers'
  BY <1>1, <1>2 DEF DeleteVersioned, WithoutNull, ClearLatest
<1> HIDE DEF marker
<1>7. \E m \in markers' : m.key = k /\ m.latest
  BY <1>3
<1> QED
  BY <1>4, <1>5, <1>6, <1>7, ReachFrame

LEMMA AdminReaches ==
  ASSUME TypeOK, IdsPast, VersionsReachable, AdminStep
  PROVE  VersionsReachable'
<1>1. ASSUME NEW r \in objects, DeleteCurrentVersion(r) PROVE VersionsReachable'
  <2>1. {} \in SUBSET RowAt(r.key) /\ markers \in SUBSET markers /\ Promote(r.key, {}, versions, markers)
    BY <1>1 DEF DeleteCurrentVersion
  <2> QED
    BY <2>1, PromoteReaches
<1>2. ASSUME NEW r \in versions, DeleteArchivedVersion(r) PROVE VersionsReachable'
  <2>1. versions' \subseteq versions /\ objects' = objects /\ markers' = markers
    BY <1>2 DEF DeleteArchivedVersion
  <2> QED
    BY <2>1, ReachQuiet
<1>3. ASSUME NEW m \in markers, DeleteMarker(m) PROVE VersionsReachable'
  <2>1. /\ RowAt(m.key) \in SUBSET RowAt(m.key) /\ markers \ {m} \in SUBSET markers
        /\ \A n \in markers \ (markers \ {m}) : n.key = m.key
        /\ Promote(m.key, RowAt(m.key), versions, markers \ {m})
    BY <1>3 DEF DeleteMarker
  <2> QED
    BY <2>1, PromoteReaches
<1>4. ASSUME NEW m \in Modes, PutBucketVersioning(m) PROVE VersionsReachable'
  <2>1. UNCHANGED <<objects, versions, markers>>
    BY <1>4 DEF PutBucketVersioning
  <2> QED
    BY <2>1, ReachQuiet
<1> QED
  BY <1>1, <1>2, <1>3, <1>4 DEF AdminStep, DeleteObjectVersion

LEMMA CrashReaches ==
  ASSUME VersionsReachable, NEW d \in Deleter, NEW n \in 1..5, CrashInDelete(d, n)
  PROVE  VersionsReachable'
<1>1. PICK r \in objects :
        /\ objects' = objects \/ (objects' = objects \ {r} /\ n >= 5)
        /\ \A v \in versions' : v \in versions \/ v \in Archive(r)
        /\ n >= 4 => \E m \in markers' : m.key = r.key /\ m.latest
        /\ \A m \in markers : m.latest /\ m.key # r.key => m \in markers'
  BY CrashLeaves
<1>2. PICK k : k = r.key
  OBVIOUS
<1>3. \A v \in versions' : v.key = k \/ \E w \in versions : w.key = v.key
  BY <1>1, <1>2 DEF Archive, ArchivedRow
<1>4. \A o \in objects : o.key = k \/ \E p \in objects' : p.key = o.key
  BY <1>1, <1>2
<1>5. \A m \in markers : m.latest /\ m.key # k => m \in markers'
  BY <1>1, <1>2
<1>6. (\E o \in objects' : o.key = k) \/ (\E m \in markers' : m.key = k /\ m.latest)
  BY <1>1, <1>2
<1> QED
  BY <1>3, <1>4, <1>5, <1>6, ReachFrame

\* Neither the setting nor what a delete read of it is Disabled.
SwitchedOn == mode # "Disabled" /\ \A d \in Deleter : modeAt[d] # "Disabled"

LEMMA SwitchedOnStep ==
  ASSUME "Disabled" \notin Modes, TypeOK, SwitchedOn, [NextC]_vars
  PROVE  SwitchedOn'
<1>1. mode' = mode \/ mode' \in Modes
  BY DEF NextC, CrashInDelete, CrashNow, Next, UploadStep, BeginUpload, Grant, GiveUp, Stage, DriveCreates, UploadFails,
         Reject, Commit, DeleteStep, Authorize, ReadForBulk, DeleteRefused, PerformDelete, DrainStep,
         DrainRemoves, DrainCompletes, DrainFails, AdminStep, DeleteObjectVersion, PutBucketVersioning,
         InspectStep, Touch, LookUp, Reconcile, DownloadNotFound, WorkerStep, WorkerFetch,
         WorkerRemoves, WorkerCompletes, WorkerRetries, Restart, vars, db
<1>2. \/ modeAt' = modeAt
      \/ \E d \in Deleter : modeAt' = [modeAt EXCEPT ![d] = mode]
      \/ \E u \in Upload : modeAt' = [modeAt EXCEPT ![u] = CommitMode(u)]
  <2>1. ASSUME NEW u \in Upload, UploadStep(u)
        PROVE  modeAt' = modeAt \/ modeAt' = [modeAt EXCEPT ![u] = CommitMode(u)]
    BY <2>1 DEF UploadStep, BeginUpload, Grant, GiveUp, Stage, DriveCreates, UploadFails, Reject, Commit
  <2>2. ASSUME NEW d \in Deleter, DeleteStep(d)
        PROVE  modeAt' = modeAt \/ modeAt' = [modeAt EXCEPT ![d] = mode]
    BY <2>2 DEF DeleteStep, Authorize, ReadForBulk, DeleteRefused, PerformDelete
  <2>3. ASSUME NEW d \in Deleter, NEW n \in 1..5, CrashInDelete(d, n) PROVE modeAt' = modeAt
    BY <2>3 DEF CrashInDelete, CrashNow, LoseMemory
  <2> QED
    BY <2>1, <2>2, <2>3 DEF NextC, Next, DrainStep, DrainRemoves, DrainCompletes, DrainFails, AdminStep,
           DeleteObjectVersion, PutBucketVersioning, InspectStep, Touch, LookUp, Reconcile,
           DownloadNotFound, WorkerStep, WorkerFetch, WorkerRemoves, WorkerCompletes,
           WorkerRetries, Restart, LoseMemory, vars, memory
<1>3. \A d \in Deleter : modeAt'[d] = modeAt[d] \/ modeAt'[d] = mode
  BY <1>2 DEF TypeOK
<1> QED
  BY <1>1, <1>3 DEF SwitchedOn

LEMMA ReachesStep ==
  ASSUME TypeOK, IdsPast, SwitchedOn, VersionsReachable, [NextC]_vars
  PROVE  VersionsReachable'
<1>1. ASSUME UNCHANGED <<objects, versions, markers>> PROVE VersionsReachable'
  BY <1>1, ReachQuiet
<1>2. ASSUME NEW u \in Upload, UploadStep(u) PROVE VersionsReachable'
  <2>1. CASE Commit(u)
    BY <2>1, CommitReaches
  <2> QED
    BY <1>1, <1>2, <2>1 DEF UploadStep, BeginUpload, Grant, GiveUp, Stage, DriveCreates, UploadFails, Reject, db
<1>3. ASSUME NEW d \in Deleter, DeleteStep(d) PROVE VersionsReachable'
  <2>1. CASE PerformDelete(d)
    BY <2>1, DeleteReaches DEF SwitchedOn
  <2> QED
    BY <1>1, <1>3, <2>1 DEF DeleteStep, Authorize, ReadForBulk, DeleteRefused, db
<1>4. CASE InspectStep
  <2>1. versions' = versions /\ markers' = markers
    BY <1>4 DEF InspectStep, Touch, LookUp, Reconcile, DownloadNotFound, db
  <2>2. \A o \in objects : \E p \in objects' : p.key = o.key
    BY <1>4, RowsStay DEF SameFile
  <2> QED
    BY <2>1, <2>2, ReachQuiet
<1>5. CASE \/ UNCHANGED vars
           \/ \E p \in Request : DrainStep(p)
           \/ WorkerStep
           \/ \E S \in SUBSET Unfinished, W \in SUBSET Upload : Restart(S, W)
  BY <1>1, <1>5 DEF vars, db, DrainStep, DrainRemoves, DrainCompletes, DrainFails, WorkerStep,
              WorkerFetch, WorkerRemoves, WorkerCompletes, WorkerRetries, Restart
<1>6. ASSUME NEW d \in Deleter, NEW n \in 1..5, CrashInDelete(d, n) PROVE VersionsReachable'
  BY <1>6, CrashReaches
<1> QED
  BY <1>2, <1>3, <1>4, <1>5, <1>6, AdminReaches DEF NextC, Next

\* In a bucket where versioning is on or suspended when requests begin,
\* whatever requests, version deletes and changes of the setting interleave,
\* and between whichever two statements of a delete the process dies, an
\* archived version stays behind a current row or a latest delete marker
\* (object-service.ts, the versioned branch of delete).
THEOREM VersionsStayReachable ==
  ASSUME "Disabled" \notin Modes
  PROVE  SpecC => []VersionsReachable
<1>1. Init => TypeOK /\ IdsPast /\ SwitchedOn /\ VersionsReachable
  <2>1. Init => IdsPast
    BY InitRows DEF RowsInv
  <2>2. Init => SwitchedOn /\ VersionsReachable
    BY DEF Init, SwitchedOn, VersionsReachable
  <2> QED
    BY <2>1, <2>2, InitTyped
<1>2. TypeOK /\ [NextC]_vars => TypeOK'
  <2>1. TypeOK /\ [Next]_vars => TypeOK'
    BY NextTyped
  <2>2. ASSUME TypeOK, NEW d \in Deleter, NEW n \in 1..5, CrashInDelete(d, n) PROVE TypeOK'
    BY <2>2, CrashTyped
  <2> QED
    BY <2>1, <2>2 DEF NextC
<1>3. TypeOK /\ SwitchedOn /\ [NextC]_vars => SwitchedOn'
  BY SwitchedOnStep
<1>4. TypeOK /\ IdsPast /\ SwitchedOn /\ VersionsReachable /\ [NextC]_vars => VersionsReachable'
  BY ReachesStep
<1> QED
  BY <1>1, <1>2, <1>3, <1>4, IdsPastC, PTL DEF SpecC

=============================================================================
