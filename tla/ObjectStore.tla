----------------------------- MODULE ObjectStore -----------------------------
(***************************************************************************)
(* The object namespace of one bucket: the rows SQLite keeps for its keys, *)
(* the staging rows of the writes in flight, the queue of Drive files to   *)
(* remove, and the files themselves in Google Drive.                       *)
(*                                                                         *)
(* The gateway is one JavaScript process.  A request handler runs without  *)
(* interruption from one await to the next, so an action is one such       *)
(* stretch, and requests interleave at the awaits only.  The process may   *)
(* crash: SQLite keeps what was committed, every handler is lost, and the  *)
(* startup recovery runs before traffic is served again.                   *)
(*                                                                         *)
(* An upload request creates at most one staging row and one Drive file,   *)
(* so a Drive file is named by the upload that creates it.  Object ids,    *)
(* version ids and timestamps are all drawn from one counter, clock: in    *)
(* the code they are unique and the last two grow with time.  The version  *)
(* id that the code spells 'null' is 0.                                    *)
(***************************************************************************)
EXTENDS Naturals, FiniteSets

CONSTANTS
    Key,            \* object keys of the bucket
    Upload,         \* requests that write an object (and the files they create)
    Deleter,        \* requests that delete a key
    Target,         \* Target[p]: the key request p names
    Copies,         \* uploads that take no key lock
    Completions,    \* of the copies, multipart completions: no write options either
    IfAbsent,       \* uploads that must not replace an existing key
    Bulk,           \* deletes that are one key of a DeleteObjects request
    Modes,          \* values the bucket's versioning setting may take
    VersionDeletes, \* kinds of version that clients delete by version id
    BatchSize,      \* rows the cleanup worker fetches at a time (cleanupBatchSize)
    MaxRestarts,    \* bound: crashes of the process
    MaxTouches,     \* bound: changes the account owner makes in Drive
    MaxEvents       \* bound: administrative steps (settings, version deletes, checks)

Request == Upload \cup Deleter
Mode == {"Disabled", "Enabled", "Suspended"}
VersionKind == {"current", "archived", "latestMarker", "oldMarker"}
ObjectStatus == {"active", "missing", "externally_modified"}
StagingStatus == {"none", "uploading", "uploaded", "committed", "failed"}
DriveState == {"none", "present", "altered", "removed", "gone"}
NullVersion == 0

ASSUME StoreAssumption ==
    /\ Upload \cap Deleter = {}
    /\ Target \in [Request -> Key]
    /\ Completions \subseteq Copies /\ Copies \subseteq Upload
    /\ IfAbsent \subseteq Upload \ Copies
    /\ Bulk \subseteq Deleter
    /\ Modes \subseteq Mode /\ Modes # {}
    /\ VersionDeletes \subseteq VersionKind
    /\ BatchSize \in Nat \ {0}
    /\ MaxRestarts \in Nat /\ MaxTouches \in Nat /\ MaxEvents \in Nat

VARIABLES
    (* SQLite: survives a crash. *)
    mode,       \* buckets.versioning
    objects,    \* objects: the current row of each key
    versions,   \* object_versions: superseded versions that hold bytes
    markers,    \* object_versions: delete markers
    staging,    \* object_staging.status of each upload
    recorded,   \* uploads whose staging row has new_drive_file_id set
    cleanup,    \* pending_cleanup: Drive files waiting for removal
    clock,      \* next fresh id, version id and timestamp
    (* Google Drive. *)
    drive,      \* state of each upload's file
    (* Memory of the process: lost in a crash. *)
    pc,         \* where each request's handler stands
    modeAt,     \* the versioning setting the handler read with its bucket row
    ticket,     \* the id an upload drew when it began
    seen,       \* the object row a delete captured (at most one)
    draining,   \* the file a handler is removing before it answers
    batch,      \* rows the cleanup worker has fetched
    erasing,    \* rows of the batch whose Drive call has succeeded
    looked,     \* the row a reconcile or a download has captured
    (* Bounds. *)
    restarts, touches, events

db == <<mode, objects, versions, markers, staging, recorded, cleanup, clock>>
memory == <<pc, modeAt, ticket, seen, draining, batch, erasing, looked>>
bounds == <<restarts, touches, events>>
vars == <<db, drive, memory, bounds>>

ObjectRow == [key : Key, id : Nat, file : Upload, ver : Nat,
              status : ObjectStatus, at : Nat]
VersionRow == [key : Key, ver : Nat, file : Upload, at : Nat]
MarkerRow == [key : Key, ver : Nat, latest : BOOLEAN]

PC == {"idle", "waiting", "locked", "slot", "sent", "authorized", "checking",
       "draining", "drained", "done"}

TypeOK ==
    /\ mode \in Mode
    /\ objects \subseteq ObjectRow
    /\ versions \subseteq VersionRow
    /\ markers \subseteq MarkerRow
    /\ staging \in [Upload -> StagingStatus]
    /\ recorded \subseteq Upload
    /\ cleanup \subseteq Upload
    /\ clock \in Nat
    /\ drive \in [Upload -> DriveState]
    /\ pc \in [Request -> PC]
    /\ modeAt \in [Request -> Mode]
    /\ ticket \in [Upload -> Nat]
    /\ seen \in [Deleter -> SUBSET ObjectRow]
    /\ draining \in [Request -> SUBSET Upload]
    /\ batch \subseteq Upload
    /\ erasing \subseteq Upload
    /\ looked \subseteq ObjectRow
    /\ restarts \in Nat /\ touches \in Nat /\ events \in Nat

Init ==
    /\ mode \in Modes
    /\ objects = {} /\ versions = {} /\ markers = {}
    /\ staging = [u \in Upload |-> "none"]
    /\ recorded = {}
    /\ cleanup = {}
    /\ clock = 1
    /\ drive = [u \in Upload |-> "none"]
    /\ pc = [p \in Request |-> "idle"]
    /\ modeAt = [p \in Request |-> mode]
    /\ ticket = [u \in Upload |-> 0]
    /\ seen = [d \in Deleter |-> {}]
    /\ draining = [p \in Request |-> {}]
    /\ batch = {} /\ erasing = {} /\ looked = {}
    /\ restarts = 0 /\ touches = 0 /\ events = 0

-----------------------------------------------------------------------------
(***************************************************************************)
(* Queries on the tables.                                                  *)
(***************************************************************************)

RowAt(k) == {r \in objects : r.key = k}
ActiveAt(k) == {r \in RowAt(k) : r.status = "active"}
VersionsAt(k) == {r \in versions : r.key = k}
MarkersAt(k) == {m \in markers : m.key = k}

\* UNIQUE(bucket_id, object_key, version_id) of object_versions.
VersionIdTaken(k, ver) ==
    \/ \E r \in VersionsAt(k) : r.ver = ver
    \/ \E m \in MarkersAt(k) : m.ver = ver

\* Whether the row a write replaces must be kept as a version.
ArchivesPrevious(prev, m) ==
    \/ m = "Enabled"
    \/ m = "Suspended" /\ prev.ver # NullVersion

\* INSERT INTO object_versions ... ON CONFLICT DO NOTHING.
ArchivedRow(prev) == [key |-> prev.key, ver |-> prev.ver, file |-> prev.file,
                      at |-> prev.at]
Archive(prev) ==
    IF VersionIdTaken(prev.key, prev.ver) THEN {} ELSE {ArchivedRow(prev)}

\* UPDATE object_versions SET is_latest = 0 for one key.
ClearLatest(ms, k) ==
    {m \in ms : m.key # k} \cup {[m EXCEPT !.latest = FALSE] : m \in {n \in ms : n.key = k}}

-----------------------------------------------------------------------------
(***************************************************************************)
(* Writes: ObjectService.upload, the two copy operations, and the end of   *)
(* CompleteMultipartUpload.                                                *)
(***************************************************************************)

Puts == Upload \ Copies

\* A put holds its key's lock from the grant until its handler ends.
HoldsLock(u) == u \in Puts /\ pc[u] \in {"locked", "slot", "sent", "draining", "drained"}

\* The request is authorised; a put draws its version id and queues for the
\* key lock in the same stretch, a copy draws its own when it starts staging.
\* A completion commits without the bucket's setting, as if it were Disabled.
CommitMode(u) == IF u \in Completions THEN "Disabled" ELSE mode
BeginUpload(u) ==
    /\ pc[u] = "idle"
    /\ modeAt' = [modeAt EXCEPT ![u] = CommitMode(u)]
    /\ IF u \in Puts
       THEN /\ pc' = [pc EXCEPT ![u] = "waiting"]
            /\ ticket' = [ticket EXCEPT ![u] = clock]
            /\ clock' = clock + 1
       ELSE /\ pc' = [pc EXCEPT ![u] = "locked"]
            /\ UNCHANGED <<ticket, clock>>
    /\ UNCHANGED <<mode, objects, versions, markers, staging, recorded, cleanup,
                   drive, seen, draining, batch, erasing, looked, bounds>>

\* The registry hands a key to its waiters first in, first out; tickets are
\* drawn as the requests queue.
MutFirstInLine(u) == TRUE
FirstInLine(u) ==
    \A w \in Puts : Target[w] = Target[u] /\ pc[w] = "waiting" => ticket[u] <= ticket[w]

MutKeyFree(k) == TRUE
KeyFree(k) == \A w \in Puts : Target[w] = k => ~HoldsLock(w)

Grant(u) ==
    /\ pc[u] = "waiting"
    /\ KeyFree(Target[u])
    /\ FirstInLine(u)
    /\ pc' = [pc EXCEPT ![u] = "locked"]
    /\ UNCHANGED <<db, drive, modeAt, ticket, seen, draining, batch, erasing, looked, bounds>>

\* The client goes away while waiting for the lock, access to the Shared Drive
\* is refused, or the wait for an upload slot is aborted.  The last happens
\* outside the try block: the staging row stays 'uploading'.
GiveUp(u) ==
    /\ pc[u] \in {"waiting", "locked", "slot"}
    /\ pc' = [pc EXCEPT ![u] = "done"]
    /\ UNCHANGED <<db, drive, modeAt, ticket, seen, draining, batch, erasing, looked, bounds>>

Stage(u) ==
    /\ pc[u] = "locked"
    /\ IF u \in IfAbsent /\ RowAt(Target[u]) # {}
       THEN /\ pc' = [pc EXCEPT ![u] = "done"]
            /\ UNCHANGED <<staging, ticket, clock>>
       ELSE /\ pc' = [pc EXCEPT ![u] = "slot"]
            /\ staging' = [staging EXCEPT ![u] = "uploading"]
            /\ IF u \in Copies
               THEN ticket' = [ticket EXCEPT ![u] = clock] /\ clock' = clock + 1
               ELSE UNCHANGED <<ticket, clock>>
    /\ UNCHANGED <<mode, objects, versions, markers, recorded, cleanup, drive,
                   modeAt, seen, draining, batch, erasing, looked, bounds>>

\* Drive has the whole file; its answer is on the way.
DriveCreates(u) ==
    /\ pc[u] = "slot"
    /\ drive' = [drive EXCEPT ![u] = "present"]
    /\ pc' = [pc EXCEPT ![u] = "sent"]
    /\ UNCHANGED <<db, modeAt, ticket, seen, draining, batch, erasing, looked, bounds>>

\* streamingUpload throws, before Drive made the file or after (a lost answer,
\* an abort): the handler knows no file id, so it only fails the staging row.
UploadFails(u) ==
    /\ pc[u] \in {"slot", "sent"}
    /\ staging' = [staging EXCEPT ![u] = "failed"]
    /\ pc' = [pc EXCEPT ![u] = "done"]
    /\ UNCHANGED <<mode, objects, versions, markers, recorded, cleanup, clock,
                   drive, modeAt, ticket, seen, draining, batch, erasing, looked, bounds>>

\* The answer arrives and the payload digest does not match, or another
\* request created the key that this one needed absent.
RejectQueues(u) == {u}
Reject(u) ==
    /\ pc[u] = "sent"
    /\ \/ u \in Puts /\ UNCHANGED recorded
       \/ u \in IfAbsent /\ RowAt(Target[u]) # {} /\ recorded' = recorded \cup {u}
    /\ staging' = [staging EXCEPT ![u] = "failed"]
    /\ cleanup' = cleanup \cup RejectQueues(u)
    /\ pc' = [pc EXCEPT ![u] = "done"]
    /\ UNCHANGED <<mode, objects, versions, markers, clock, drive,
                   modeAt, ticket, seen, draining, batch, erasing, looked, bounds>>

\* The row of the new current version: a replaced row keeps its id.
PublishedRow(u) ==
    [key |-> Target[u],
     id |-> IF RowAt(Target[u]) = {} THEN ticket[u]
            ELSE (CHOOSE r \in RowAt(Target[u]) : TRUE).id,
     file |-> u,
     ver |-> IF modeAt[u] = "Enabled" THEN ticket[u] ELSE NullVersion,
     status |-> "active",
     at |-> clock]

\* The answer arrives: markUploaded, then the transaction of
\* commitStagedObject, then the removal of the replaced file begins.
MutQueuesArchivedToo(rows, m) == {r.file : r \in rows}
QueuesReplaced(rows, m) == {r.file : r \in {x \in rows : ~ArchivesPrevious(x, m)}}
Commit(u) ==
    LET k == Target[u]
        archived == {r \in RowAt(k) : ArchivesPrevious(r, modeAt[u])}
        replaced == QueuesReplaced(RowAt(k), modeAt[u])
    IN
    /\ pc[u] = "sent"
    /\ ~(u \in IfAbsent /\ RowAt(k) # {})
    /\ objects' = (objects \ RowAt(k)) \cup {PublishedRow(u)}
    /\ versions' = versions \cup UNION {Archive(r) : r \in archived}
    /\ markers' = ClearLatest(markers, k)
    /\ cleanup' = cleanup \cup replaced
    /\ staging' = [staging EXCEPT ![u] = "committed"]
    /\ recorded' = recorded \cup {u}
    /\ clock' = clock + 1
    /\ draining' = [draining EXCEPT ![u] = replaced]
    /\ pc' = [pc EXCEPT ![u] = IF replaced = {} THEN "done" ELSE "draining"]
    /\ UNCHANGED <<mode, drive, modeAt, ticket, seen, batch, erasing, looked, bounds>>

-----------------------------------------------------------------------------
(***************************************************************************)
(* Deletes of a key: deleteObject, each key of deleteObjects, and          *)
(* ObjectService.delete behind both.                                       *)
(***************************************************************************)

\* A single delete reads the bucket and the object together; DeleteObjects
\* reads the bucket once and each key's object when its turn comes.
Authorize(d) ==
    /\ pc[d] = "idle"
    /\ modeAt' = [modeAt EXCEPT ![d] = mode]
    /\ IF d \in Bulk
       THEN pc' = [pc EXCEPT ![d] = "authorized"] /\ UNCHANGED seen
       ELSE /\ pc' = [pc EXCEPT ![d] = IF ActiveAt(Target[d]) = {} THEN "done" ELSE "checking"]
            /\ seen' = [seen EXCEPT ![d] = ActiveAt(Target[d])]
    /\ UNCHANGED <<db, drive, ticket, draining, batch, erasing, looked, bounds>>

ReadForBulk(d) ==
    /\ pc[d] = "authorized"
    /\ seen' = [seen EXCEPT ![d] = ActiveAt(Target[d])]
    /\ pc' = [pc EXCEPT ![d] = IF ActiveAt(Target[d]) = {} THEN "done" ELSE "checking"]
    /\ UNCHANGED <<db, drive, modeAt, ticket, draining, batch, erasing, looked, bounds>>

\* The row the delete may act on: still the object it captured.
MutStillCurrent(d) == ActiveAt(Target[d])
StillCurrent(d) ==
    {r \in ActiveAt(Target[d]) : \E s \in seen[d] : r.id = s.id /\ r.file = s.file}

DeleteRefused(d) ==
    /\ pc[d] = "checking"
    /\ pc' = [pc EXCEPT ![d] = "done"]
    /\ seen' = [seen EXCEPT ![d] = {}]
    /\ UNCHANGED <<db, drive, modeAt, ticket, draining, batch, erasing, looked, bounds>>

\* Without versioning: the row goes and its file is queued, in one transaction.
DeleteUnversioned(d, r) ==
    /\ objects' = objects \ {r}
    /\ cleanup' = cleanup \cup {r.file}
    /\ draining' = [draining EXCEPT ![d] = {r.file}]
    /\ pc' = [pc EXCEPT ![d] = "draining"]
    /\ UNCHANGED <<versions, markers, clock>>

\* DELETE FROM object_versions ... version_id = 'null' for one key.
WithoutNull(rows, k) == {x \in rows : ~(x.key = k /\ x.ver = NullVersion)}

\* With versioning: the row is archived unless it is the null version of a
\* suspended bucket, and a delete marker hides the key.
DeleteVersioned(d, r) ==
    LET k == r.key
        enabled == modeAt[d] = "Enabled"
        retain == ArchivesPrevious(r, modeAt[d])
        marker == IF enabled THEN clock ELSE NullVersion
        NullGone(rows) == IF enabled THEN rows ELSE WithoutNull(rows, k)
    IN
    /\ versions' = NullGone(versions \cup (IF retain THEN Archive(r) ELSE {}))
    /\ markers' = NullGone(ClearLatest(markers, k))
                      \cup {[key |-> k, ver |-> marker, latest |-> TRUE]}
    /\ objects' = objects \ {r}
    /\ cleanup' = IF retain THEN cleanup ELSE cleanup \cup {r.file}
    /\ draining' = [draining EXCEPT ![d] = IF retain THEN {} ELSE {r.file}]
    /\ pc' = [pc EXCEPT ![d] = IF retain THEN "done" ELSE "draining"]
    /\ clock' = IF enabled THEN clock + 1 ELSE clock

PerformDelete(d) ==
    /\ pc[d] = "checking"
    /\ \E r \in StillCurrent(d) :
          IF modeAt[d] = "Disabled" THEN DeleteUnversioned(d, r) ELSE DeleteVersioned(d, r)
    /\ seen' = [seen EXCEPT ![d] = {}]
    /\ UNCHANGED <<mode, staging, recorded, drive, modeAt, ticket, batch,
                   erasing, looked, bounds>>

-----------------------------------------------------------------------------
(***************************************************************************)
(* drainDriveFileNow: the handler removes a replaced or deleted file       *)
(* before it answers; every error is left to the cleanup worker.           *)
(***************************************************************************)

Remove(f) == [drive EXCEPT ![f] = "gone"]

DrainRemoves(p) ==
    /\ pc[p] = "draining"
    /\ \E f \in draining[p] : drive[f] # "gone" /\ drive' = Remove(f)
    /\ pc' = [pc EXCEPT ![p] = "drained"]
    /\ UNCHANGED <<db, modeAt, ticket, seen, draining, batch, erasing, looked, bounds>>

DrainCompletes(p) ==
    /\ pc[p] = "drained"
    /\ cleanup' = cleanup \ draining[p]
    /\ draining' = [draining EXCEPT ![p] = {}]
    /\ pc' = [pc EXCEPT ![p] = "done"]
    /\ UNCHANGED <<mode, objects, versions, markers, staging, recorded, clock, drive,
                   modeAt, ticket, seen, batch, erasing, looked, bounds>>

DrainFails(p) ==
    /\ pc[p] \in {"draining", "drained"}
    /\ draining' = [draining EXCEPT ![p] = {}]
    /\ pc' = [pc EXCEPT ![p] = "done"]
    /\ UNCHANGED <<db, drive, modeAt, ticket, seen, batch, erasing, looked, bounds>>

-----------------------------------------------------------------------------
(***************************************************************************)
(* DELETE ?versionId=: one stretch of the handler, ending with the         *)
(* promotion of the newest archived version.                               *)
(***************************************************************************)

Event == events < MaxEvents /\ events' = events + 1

\* ORDER BY version_id ASC: an id drawn later sorts first, and the text
\* 'null' sorts before every drawn id.
SortsFirst(a, b) == a = NullVersion \/ (b # NullVersion /\ a >= b)
MutNewestVersion(rows) == {}
NewestVersion(rows) == {r \in rows : \A s \in rows : SortsFirst(r.ver, s.ver)}

\* objects.upsert of promoteNewestVersion: an existing row keeps its id.
PromotedRow(newest, existing) ==
    [key |-> newest.key,
     id |-> IF existing = {} THEN clock ELSE (CHOOSE e \in existing : TRUE).id,
     file |-> newest.file, ver |-> newest.ver, status |-> "active", at |-> clock]

\* promoteNewestVersion on the tables given: existing is the key's row.
Promote(k, existing, rows, ms) ==
    LET newest == NewestVersion({r \in rows : r.key = k}) IN
    /\ objects' = IF newest = {} THEN (objects \ RowAt(k)) \cup existing
                  ELSE (objects \ RowAt(k)) \cup {PromotedRow(n, existing) : n \in newest}
    /\ versions' = rows \ newest
    /\ markers' = ClearLatest(ms, k)

DeleteCurrentVersion(r) ==
    /\ "current" \in VersionDeletes
    /\ r.status = "active"
    /\ cleanup' = cleanup \cup {r.file}
    /\ Promote(r.key, {}, versions, markers)

Releases(r) == {r.file}
DeleteArchivedVersion(r) ==
    /\ "archived" \in VersionDeletes
    /\ ~\E o \in ActiveAt(r.key) : o.ver = r.ver
    /\ versions' = versions \ {r}
    /\ cleanup' = cleanup \cup Releases(r)
    /\ UNCHANGED <<objects, markers>>

DeleteMarker(m) ==
    /\ (IF m.latest THEN "latestMarker" ELSE "oldMarker") \in VersionDeletes
    /\ ~\E o \in ActiveAt(m.key) : o.ver = m.ver
    /\ Promote(m.key, RowAt(m.key), versions, markers \ {m})
    /\ UNCHANGED cleanup

DeleteObjectVersion ==
    /\ Event
    /\ \/ \E r \in objects : DeleteCurrentVersion(r)
       \/ \E r \in versions : DeleteArchivedVersion(r)
       \/ \E m \in markers : DeleteMarker(m)
    /\ clock' = clock + 1
    /\ UNCHANGED <<mode, staging, recorded, drive, memory, restarts, touches>>

PutBucketVersioning(m) ==
    /\ Event
    /\ m \in Modes \ {"Disabled", mode}
    /\ mode' = m
    /\ UNCHANGED <<objects, versions, markers, staging, recorded, cleanup, clock,
                   drive, memory, restarts, touches>>

-----------------------------------------------------------------------------
(***************************************************************************)
(* The account owner works on the files in Drive; reconcile and download   *)
(* find out and mark the row, by object id.                                *)
(***************************************************************************)

Touch(f) ==
    /\ touches < MaxTouches
    /\ drive[f] \in {"present", "altered"}
    /\ \E s \in {"altered", "removed"} : drive' = [drive EXCEPT ![f] = s]
    /\ touches' = touches + 1
    /\ UNCHANGED <<db, memory, restarts, events>>

\* listForReconcile, or the object row a download starts from.
LookUp(k) ==
    /\ Event
    /\ looked = {}
    /\ RowAt(k) # {}
    /\ looked' = RowAt(k)
    /\ UNCHANGED <<db, drive, pc, modeAt, ticket, seen, draining, batch, erasing,
                   restarts, touches>>

MarkStatus(id, status) ==
    {IF r.id = id THEN [r EXCEPT !.status = status] ELSE r : r \in objects}

HeadStatus(f) ==
    CASE drive[f] \in {"removed", "gone"} -> "missing"
      [] drive[f] = "altered" -> "externally_modified"
      [] OTHER -> "active"

Reconcile(r) ==
    /\ r \in looked
    /\ objects' = IF HeadStatus(r.file) = r.status THEN objects
                  ELSE MarkStatus(r.id, HeadStatus(r.file))
    /\ looked' = {}
    /\ UNCHANGED <<mode, versions, markers, staging, recorded, cleanup, clock, drive,
                   pc, modeAt, ticket, seen, draining, batch, erasing, bounds>>

\* Drive answers 404 to a download of an active object.
DownloadNotFound(r) ==
    /\ r \in looked
    /\ r.status = "active"
    /\ drive[r.file] \in {"removed", "gone"}
    /\ objects' = MarkStatus(r.id, "missing")
    /\ looked' = {}
    /\ UNCHANGED <<mode, versions, markers, staging, recorded, cleanup, clock, drive,
                   pc, modeAt, ticket, seen, draining, batch, erasing, bounds>>

-----------------------------------------------------------------------------
(***************************************************************************)
(* The cleanup worker: fetch a batch of due rows, remove each file, and    *)
(* forget the row only when Drive has confirmed.                           *)
(***************************************************************************)

WorkerFetch(S) ==
    /\ batch = {} /\ S # {} /\ S \subseteq cleanup /\ Cardinality(S) <= BatchSize
    /\ batch' = S
    /\ UNCHANGED <<db, drive, pc, modeAt, ticket, seen, draining, erasing, looked, bounds>>

WorkerRemoves(f) ==
    /\ f \in batch /\ erasing = {} /\ drive[f] # "gone"
    /\ drive' = Remove(f)
    /\ erasing' = {f}
    /\ UNCHANGED <<db, pc, modeAt, ticket, seen, draining, batch, looked, bounds>>

\* The call succeeded, or Drive says the file is already gone.
MutConfirmedNot404(f) == f \in erasing
Confirmed(f) == f \in erasing \/ drive[f] = "gone"
WorkerCompletes(f) ==
    /\ f \in batch /\ erasing \subseteq {f}
    /\ Confirmed(f)
    /\ cleanup' = cleanup \ {f}
    /\ batch' = batch \ {f}
    /\ erasing' = {}
    /\ UNCHANGED <<mode, objects, versions, markers, staging, recorded, clock, drive,
                   pc, modeAt, ticket, seen, draining, looked, bounds>>

\* Any other error: the row stays queued with a later attempt time.
WorkerRetries(f) ==
    /\ f \in batch /\ erasing \subseteq {f}
    /\ batch' = batch \ {f}
    /\ erasing' = {}
    /\ UNCHANGED <<db, drive, pc, modeAt, ticket, seen, draining, looked, bounds>>

-----------------------------------------------------------------------------
(***************************************************************************)
(* Crash and startup.  Recovery takes the staging rows that are not        *)
(* terminal and old enough: S is any set of them.                          *)
(***************************************************************************)

Unfinished == {u \in Upload : staging[u] \in {"uploading", "uploaded"}}

MutOrphansOf(S, rec) == {}
OrphansOf(S, rec) ==
    {u \in S : u \in rec /\ ~\E r \in ActiveAt(Target[u]) : r.file = u}

RecoveredStatus(u, rec) ==
    IF u \in rec /\ \E r \in ActiveAt(Target[u]) : r.file = u THEN "committed" ELSE "failed"

LoseMemory ==
    /\ pc' = [p \in Request |-> IF pc[p] = "idle" THEN "idle" ELSE "done"]
    /\ seen' = [d \in Deleter |-> {}]
    /\ draining' = [p \in Request |-> {}]
    /\ batch' = {} /\ erasing' = {} /\ looked' = {}
    /\ UNCHANGED <<modeAt, ticket>>

\* W is empty, or the one upload whose handler died between markUploaded and
\* the namespace transaction.
Restart(S, W) ==
    LET marked == [u \in Upload |-> IF u \in W THEN "uploaded" ELSE staging[u]]
        rec == recorded \cup W
    IN
    /\ restarts < MaxRestarts
    /\ \A u \in W : pc[u] = "sent"
    /\ \A u \in W, v \in W : u = v
    /\ S \subseteq Unfinished
    /\ recorded' = rec
    /\ cleanup' = cleanup \cup OrphansOf(S, rec)
    /\ staging' = [u \in Upload |-> IF u \in S THEN RecoveredStatus(u, rec) ELSE marked[u]]
    /\ LoseMemory
    /\ restarts' = restarts + 1
    /\ UNCHANGED <<mode, objects, versions, markers, clock, drive, touches, events>>

-----------------------------------------------------------------------------
UploadStep(u) ==
    \/ BeginUpload(u) \/ Grant(u) \/ GiveUp(u) \/ Stage(u) \/ DriveCreates(u)
    \/ UploadFails(u) \/ Reject(u) \/ Commit(u)

DeleteStep(d) ==
    Authorize(d) \/ ReadForBulk(d) \/ DeleteRefused(d) \/ PerformDelete(d)

DrainStep(p) == DrainRemoves(p) \/ DrainCompletes(p) \/ DrainFails(p)

AdminStep ==
    \/ DeleteObjectVersion
    \/ \E m \in Modes : PutBucketVersioning(m)

InspectStep ==
    \/ \E f \in Upload : Touch(f)
    \/ \E k \in Key : LookUp(k)
    \/ \E r \in looked : Reconcile(r) \/ DownloadNotFound(r)

WorkerStep ==
    \/ \E S \in SUBSET cleanup : WorkerFetch(S)
    \/ \E f \in batch : WorkerRemoves(f) \/ WorkerCompletes(f) \/ WorkerRetries(f)

Next ==
    \/ \E u \in Upload : UploadStep(u)
    \/ \E d \in Deleter : DeleteStep(d)
    \/ \E p \in Request : DrainStep(p)
    \/ AdminStep
    \/ InspectStep
    \/ WorkerStep
    \/ \E S \in SUBSET Unfinished, W \in SUBSET Upload : Restart(S, W)

Spec == Init /\ [][Next]_vars

-----------------------------------------------------------------------------
(***************************************************************************)
(* What must hold.                                                         *)
(***************************************************************************)

\* Some row of the namespace, current or archived, points at the file.
Referenced(f) ==
    \/ \E r \in objects : r.file = f
    \/ \E r \in versions : r.file = f

\* The file is queued for removal, or a handler or the worker is removing it.
BeingRemoved(f) ==
    \/ f \in cleanup \cup batch
    \/ \E p \in Request : f \in draining[p]

\* A file that a row points at is never queued for removal, never being
\* removed, and never removed by the gateway, whatever requests, version
\* deletes, settings changes and crashes between awaits interleave.
LiveFileSafe ==
    \A f \in Upload : Referenced(f) => ~BeingRemoved(f) /\ drive[f] # "gone"

\* No two rows share a file: releasing the file of one row can then never take
\* the bytes of another.  deleteObjectVersion and commitStagedObject rely on it.
NoSharedFile ==
    /\ \A r, s \in objects : r.file = s.file => r = s
    /\ \A r, s \in versions : r.file = s.file => r = s
    /\ \A r \in objects, s \in versions : r.file # s.file

\* A key has one current row, and a (key, version id) pair one archived row or
\* marker: the two UNIQUE constraints the handlers' lookups rely on.
RowsUnique ==
    /\ \A r, s \in objects : r.key = s.key => r = s
    /\ \A r, s \in versions : r.key = s.key /\ r.ver = s.ver => r = s
    /\ \A r, s \in markers : r.key = s.key /\ r.ver = s.ver => r = s
    /\ \A r \in versions, s \in markers : ~(r.key = s.key /\ r.ver = s.ver)

\* What makes LiveFileSafe and NoSharedFile inductive: until its staging row
\* says committed or failed an upload's file is in no row and in no removal,
\* and a handler that may still publish or fail has its staging row open.
Unpublished == {u \in Upload : staging[u] \in {"none", "uploading", "uploaded"}}
UnpublishedUntouched ==
    \A u \in Unpublished : ~Referenced(u) /\ ~BeingRemoved(u) /\ drive[u] # "gone"
StagingFollowsHandler ==
    \A u \in Upload :
        /\ pc[u] \in {"idle", "waiting", "locked"} => staging[u] = "none"
        /\ pc[u] \in {"slot", "sent"} => staging[u] = "uploading"
FilesInv == LiveFileSafe /\ NoSharedFile /\ UnpublishedUntouched /\ StagingFollowsHandler

\* What makes RowsUnique inductive: every id in use was drawn before.
IdsPast ==
    /\ clock > 0
    /\ \A r \in objects \cup versions \cup markers : r.ver < clock
    /\ \A u \in Upload : ticket[u] < clock
RowsInv == RowsUnique /\ IdsPast

\* A file whose id a staging row has recorded is never lost: it is published,
\* queued for removal, or still owed to startup recovery.
RecordedFileAccounted ==
    \A f \in recorded : drive[f] # "gone" =>
        Referenced(f) \/ f \in cleanup \/ staging[f] = "uploaded"

\* A key that still has archived versions resolves to a current row or is
\* hidden by a latest delete marker (deleteObjectVersion's promotion).
VersionsReachable ==
    \A r \in versions :
        \/ RowAt(r.key) # {}
        \/ \E m \in MarkersAt(r.key) : m.latest

\* A version id names one thing: the current row of a key is not archived under
\* the same id as well (the header of object-versions.ts).
CurrentNotArchived ==
    \A o \in objects : ~\E r \in versions : r.key = o.key /\ r.ver = o.ver

\* Puts of a key are published in the order their requests queued, the order
\* in which their version ids sort.
PutsInOrder ==
    [][\A u, w \in Puts :
          (/\ Target[u] = Target[w]
           /\ staging[u] = "uploading" /\ staging'[u] = "committed"
           /\ staging[w] = "committed") => ticket[w] < ticket[u]]_vars

\* Bytes written under versioning leave the namespace only through a delete
\* that names their version: no put, copy or plain delete releases them.
VersionedBytesKept ==
    [][\A f \in Upload :
          (/\ \E r \in objects \cup versions : r.file = f /\ r.ver # NullVersion
           /\ f \in cleanup' \ cleanup) => events' # events]_vars

\* Deleting a version promotes the version written last among those kept.
PromotesNewest ==
    [][\A o \in objects' : \A r \in versions :
          (o.file = r.file /\ r \notin versions') =>
              \A s \in versions' : s.key = r.key => s.at < r.at]_vars

\* Deleting a delete marker only un-hides a key: it never replaces a current
\* row that is being served.
MarkerDeleteOnlyUnhides ==
    [][\A o \in objects :
          (/\ markers # markers' /\ pc' = pc /\ mode' = mode
           /\ Cardinality(markers') < Cardinality(markers)
           /\ o.status = "active")
          => \E n \in objects' : n.key = o.key /\ n.file = o.file]_vars

\* An object is marked missing only when its own file is not in Drive.
MissingIsMissing ==
    [][\A n \in objects' :
          (n \notin objects /\ n.status = "missing")
          => drive[n.file] \in {"removed", "gone"}]_vars

-----------------------------------------------------------------------------
(***************************************************************************)
(* The abstract life of a Drive file, read off the tables.                 *)
(***************************************************************************)

LifeOf(f) ==
    IF drive[f] = "none" THEN "none"
    ELSE IF drive[f] = "gone" THEN "erased"
    ELSE IF Referenced(f) THEN "live"
    ELSE IF f \in cleanup THEN "released"
    ELSE IF pc[f] = "sent" \/ staging[f] = "uploaded" THEN "pending"
    ELSE "lost"

Lifecycle == INSTANCE FileLifecycle WITH
    File <- Upload,
    KeyOf <- Target,
    life <- [f \in Upload |-> LifeOf(f)],
    current <- [k \in Key |-> {r.file : r \in RowAt(k)}]

\* Requests, version deletes, workers, crashes and recovery together take each
\* file through the life FileLifecycle allows: published at most once, erased
\* only after it was let go, and never lost once published.
ImplementsLifecycle == Lifecycle!Spec

-----------------------------------------------------------------------------
(***************************************************************************)
(* Progress.  Handlers run to their end (the runtime schedules every       *)
(* ready continuation and every Drive call answers or times out).  The     *)
(* worker runs on a timer and takes due rows oldest first, and a failed    *)
(* row moves behind the others, so every row is fetched again and again;   *)
(* Drive is assumed not to refuse a file's removal forever.                *)
(***************************************************************************)

RequestProceeds(u) ==
    Grant(u) \/ Stage(u) \/ DriveCreates(u) \/ UploadFails(u) \/ Reject(u) \/ Commit(u)
Fairness ==
    /\ \A u \in Upload : WF_vars(RequestProceeds(u))
    /\ \A d \in Deleter : WF_vars(ReadForBulk(d) \/ DeleteRefused(d) \/ PerformDelete(d))
    /\ \A p \in Request : WF_vars(DrainStep(p))
    /\ \A f \in Upload :
          /\ SF_vars(\E S \in SUBSET cleanup : f \in S /\ WorkerFetch(S))
          /\ SF_vars(WorkerRemoves(f))
          /\ SF_vars(WorkerCompletes(f))
          /\ WF_vars(WorkerRetries(f) \/ WorkerCompletes(f))

FairSpec == Spec /\ Fairness

\* Every file queued for removal is removed and its row forgotten.
CleanupDrains == \A f \in Upload : f \in cleanup ~> f \notin cleanup

\* No request waits forever, for its key's lock or anything else.
RequestsFinish == \A p \in Request : pc[p] # "idle" ~> pc[p] = "done"

\* The history of a key is whole: every version row leads to its bytes, and
\* none is both the current row and an archived one.
HistoryIntact == VersionsReachable /\ CurrentNotArchived

\* Deleting a version restores the newest one left, and deleting a marker
\* never replaces what is being served.
DeletesPromote == PromotesNewest /\ MarkerDeleteOnlyUnhides

\* Every queued file is removed and every request ends.
WorkEnds == CleanupDrains /\ RequestsFinish

=============================================================================
