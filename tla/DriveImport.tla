----------------------------- MODULE DriveImport -----------------------------
(***************************************************************************)
(* The import of one Drive folder into a bucket: the scan of its folders   *)
(* page by page, the copy of the files found, the worker that does both,   *)
(* and the staging rows that tell a restarted worker how far an item got.  *)
(*                                                                         *)
(* A bucket has one import at work and a folder is imported into it once,  *)
(* so there is one job.  Clients write and delete the same keys meanwhile. *)
(* The worker's awaits are the listing of a page, the question whether a   *)
(* file is still as it was found, the wait for its key, and the upload.    *)
(***************************************************************************)
EXTENDS Naturals, Sequences, FiniteSets, FiniteSetsExt

CONSTANTS
    File,         \* source files, numbered in the order their rows are made
    Folder,       \* folders, Root the one that was chosen
    Root,
    Pages,        \* the listing of each folder: its pages, sets of files and folders
    Key,
    KeyOf,        \* the key of a file, made from its path
    Supported,    \* files that can be downloaded as they are
    ImportBatch,  \* driveImportBatchSize
    MaxImportEvents  \* bound: writes by clients, stops and crashes

ASSUME DriveImportAssumption ==
    /\ File \subseteq Nat /\ IsFiniteSet(File) /\ File \cap Folder = {}
    /\ Root \in Folder
    /\ Pages \in [Folder -> Seq(SUBSET (File \cup Folder))]
    /\ \A f \in Folder : Pages[f] # <<>>
    /\ KeyOf \in [File -> Key]
    /\ Supported \subseteq File
    /\ ImportBatch \in Nat \ {0} /\ MaxImportEvents \in Nat

VARIABLES
    job,       \* drive_import_jobs
    folders,   \* drive_import_folders: status and next_page_token
    items,     \* drive_import_items.status
    staging,   \* object_staging.status of each item's request id
    stored,    \* objects: what each key holds
    released,  \* pending_cleanup: Drive files to remove
    copies,    \* Drive files made for each item
    hand,      \* the worker: what it awaits and the rest of its batch
    importEvents,
    commits    \* history: how often an item became an object

importVars == <<job, folders, items, staging, stored, released, copies, hand, importEvents, commits>>

JobActive == {"queued", "running", "cancel_requested"}
JobEnded == {"completed", "cancelled", "failed"}
Outstanding == {"pending", "importing"}
NoObject == <<>>
Client == <<"client">>   \* an object that a client wrote
NoCounts == [imported |-> 0, conflict |-> 0, unsupported |-> 0, failed |-> 0]
NoHand == [step |-> "idle", folder |-> Root, batch |-> {}]

ImportTypeOK ==
    /\ job \in [status : JobActive \cup JobEnded \cup {"none"}, phase : {"scan", "copy"},
                discovered : Nat, counted : [DOMAIN NoCounts -> Nat]]
    /\ folders \in [Folder -> [status : {"none", "pending", "scanning", "completed"}, page : Nat]]
    /\ items \in [File -> {"none", "imported", "conflict", "unsupported", "failed"} \cup Outstanding]
    /\ staging \in [File -> {"none", "uploading", "uploaded", "committed", "failed"}]
    /\ stored \in [Key -> {NoObject, Client} \cup (File \X Nat)]
    /\ released \subseteq File \X Nat
    /\ copies \in [File -> Nat] /\ commits \in [File -> Nat]
    /\ hand \in [step : {"idle", "listing", "next", "asking", "waiting", "uploading"},
                 folder : Folder, batch : SUBSET File]
    /\ importEvents \in Nat

ImportInit ==
    /\ job = [status |-> "none", phase |-> "scan", discovered |-> 0, counted |-> NoCounts]
    /\ folders = [f \in Folder |-> [status |-> "none", page |-> 1]]
    /\ items = [i \in File |-> "none"]
    /\ staging = [i \in File |-> "none"]
    /\ stored = [k \in Key |-> NoObject]
    /\ released = {}
    /\ copies = [i \in File |-> 0] /\ commits = [i \in File |-> 0]
    /\ hand = NoHand
    /\ importEvents = 0

-----------------------------------------------------------------------------
(***************************************************************************)
(* The job.                                                                *)
(***************************************************************************)

NewJob == [job EXCEPT !.status = "queued"]

\* The chosen folder was looked up before, so that it is there to be scanned.
Created ==
    /\ job' = NewJob
    /\ folders' = [folders EXCEPT ![Root].status = "pending"]

CreateJob ==
    /\ job.status = "none"
    /\ Created
    /\ UNCHANGED <<items, staging, stored, released, copies, hand, importEvents, commits>>

Cancelled(j) == [j EXCEPT !.status = IF @ \in {"queued", "running"} THEN "cancel_requested" ELSE @]

CancelJob ==
    /\ job' = Cancelled(job) /\ job' # job
    /\ UNCHANGED <<folders, items, staging, stored, released, copies, hand, importEvents, commits>>

Left(rows) == \E i \in File : rows[i] \in Outstanding

\* refreshAndMaybeFinish, given the items as they are by now.
Refreshed(j, rows) ==
    [j EXCEPT
        !.counted = [c \in DOMAIN NoCounts |-> Cardinality({i \in File : rows[i] = c})],
        !.status = IF @ = "cancel_requested" THEN "cancelled"
                   ELSE IF j.phase = "copy" /\ ~Left(rows) THEN "completed" ELSE @]

FinishCancel ==
    /\ hand = NoHand /\ job.status = "cancel_requested"
    /\ job' = Refreshed(job, items)
    /\ UNCHANGED <<folders, items, staging, stored, released, copies, hand, importEvents, commits>>

\* failJob: the bucket or the listing cannot be had.
JobFails ==
    /\ \/ hand = NoHand /\ job.status \in {"queued", "running"} /\ job.phase = "copy"
       \/ hand.step = "listing"
    /\ job' = [job EXCEPT !.status = "failed"]
    /\ hand' = NoHand
    /\ UNCHANGED <<folders, items, staging, stored, released, copies, importEvents, commits>>

-----------------------------------------------------------------------------
(***************************************************************************)
(* The scan.                                                               *)
(***************************************************************************)

Scanning == hand = NoHand /\ job.status \in {"queued", "running"} /\ job.phase = "scan"
FoldersThat(status) == {f \in Folder : folders[f].status = status}
NextFolders == IF FoldersThat("scanning") # {} THEN FoldersThat("scanning") ELSE FoldersThat("pending")

ClaimFolder ==
    /\ Scanning
    /\ \E f \in NextFolders :
          /\ folders' = [folders EXCEPT ![f].status = "scanning"]
          /\ hand' = [NoHand EXCEPT !.step = "listing", !.folder = f]
    /\ job' = [job EXCEPT !.status = "running"]
    /\ UNCHANGED <<items, staging, stored, released, copies, importEvents, commits>>

\* unsupportedImportReason.
FoundAs(i) == IF i \in Supported THEN "pending" ELSE "unsupported"

\* What the pages name: files by what becomes of them, and folders to scan.
Listed(at) == Pages[at][folders[at].page]

\* saveFolderPage: INSERT OR IGNORE, and only what was inserted is counted.
Inserted(found) == {i \in found : items[i] = "none"}

SavePage ==
    /\ hand.step = "listing"
    /\ LET at == hand.folder
           page == Listed(at)
           more == folders[at].page < Len(Pages[at])
           found == Inserted(page \cap File)
       IN  /\ folders' = [f \in Folder |->
                  IF f = at THEN [status |-> IF more THEN "scanning" ELSE "completed",
                                  page |-> folders[at].page + IF more THEN 1 ELSE 0]
                  ELSE [folders[f] EXCEPT !.status = IF f \in page /\ @ = "none" THEN "pending" ELSE @]]
           /\ items' = [i \in File |->
                  IF i \in page \cap File /\ items[i] = "none"
                  THEN FoundAs(i) ELSE items[i]]
           /\ job' = [job EXCEPT !.discovered = @ + Cardinality(found)]
    /\ hand' = NoHand
    /\ UNCHANGED <<staging, stored, released, copies, importEvents, commits>>

\* Two files of one key are both left out, and so is a key that is taken.
Conflicts(i) == \/ \E j \in File \ {i} : items[j] # "none" /\ KeyOf[j] = KeyOf[i]
                \/ stored[KeyOf[i]] # NoObject

FinalizeScan ==
    /\ Scanning /\ NextFolders = {}
    /\ items' = [i \in File |-> IF items[i] = "pending" /\ Conflicts(i) THEN "conflict" ELSE items[i]]
    /\ job' = Refreshed([job EXCEPT !.phase = "copy"], items')
    /\ UNCHANGED <<folders, staging, stored, released, copies, hand, importEvents, commits>>

-----------------------------------------------------------------------------
(***************************************************************************)
(* The copy.                                                               *)
(***************************************************************************)

Oldest(rows) == {i \in rows : Cardinality({j \in rows : j < i}) < ImportBatch}
ItemsThat(status) == {i \in File : items[i] = status}
ToClaim == IF ItemsThat("importing") # {} THEN ItemsThat("importing") ELSE ItemsThat("pending")

\* claimItems: what a restart interrupted comes first.  The batch is claimed
\* whole, and an empty one finishes the job.
ClaimItems ==
    /\ hand = NoHand /\ job.status \in {"queued", "running"} /\ job.phase = "copy"
    /\ LET batch == Oldest(ToClaim)
       IN  /\ items' = [i \in File |-> IF i \in batch THEN "importing" ELSE items[i]]
           /\ IF batch = {} THEN job' = Refreshed(job, items) /\ UNCHANGED hand
              ELSE hand' = [NoHand EXCEPT !.step = "next", !.batch = batch] /\ UNCHANGED job
    /\ UNCHANGED <<folders, staging, stored, released, copies, importEvents, commits>>

Item == Min(hand.batch)
Copy(i) == <<i, copies[i]>>
MutTaken(i) == stored[KeyOf[i]] \notin {NoObject, Client}
Taken(i) == stored[KeyOf[i]] # NoObject

\* markItem, and on to the next item; after the last one the job is refreshed.
Mark(i, status) ==
    /\ items' = [items EXCEPT ![i] = status]
    /\ IF hand.batch = {i}
       THEN hand' = NoHand /\ job' = Refreshed(job, items')
       ELSE hand' = [hand EXCEPT !.step = "next", !.batch = @ \ {i}] /\ UNCHANGED job

\* commitStagedObject with ifAbsent.
Publish(i, copy) ==
    /\ staging' = [staging EXCEPT ![i] = "committed"]
    /\ stored' = [stored EXCEPT ![KeyOf[i]] = copy]
    /\ commits' = [commits EXCEPT ![i] = @ + 1]

\* The key was taken: the file is not needed.
Discard(i, copy) ==
    /\ staging' = [staging EXCEPT ![i] = "failed"]
    /\ released' = released \cup {copy}

Already == {"committed"}

\* An interrupted item is an object already, or becomes one from the file its
\* staging row names, or starts again without that row.
TakeItem ==
    /\ hand.step = "next"
    /\ LET i == Item
       IN  CASE staging[i] \in Already -> Mark(i, "imported") /\ UNCHANGED <<staging, stored, released, commits>>
             [] staging[i] = "uploaded" /\ ~Taken(i) ->
                   Publish(i, Copy(i)) /\ Mark(i, "imported") /\ UNCHANGED released
             [] staging[i] = "uploaded" /\ Taken(i) ->
                   Discard(i, Copy(i)) /\ Mark(i, "conflict") /\ UNCHANGED <<stored, commits>>
             [] OTHER -> /\ staging' = [staging EXCEPT ![i] = "none"]
                         /\ hand' = [hand EXCEPT !.step = "asking"]
                         /\ UNCHANGED <<items, job, stored, released, commits>>
    /\ UNCHANGED <<folders, copies, importEvents>>

\* The file is as it was found and its download begins, or the item fails.
SourceAnswers ==
    /\ hand.step = "asking"
    /\ \/ hand' = [hand EXCEPT !.step = "waiting"] /\ UNCHANGED <<items, job>>
       \/ Mark(Item, "failed")
    /\ UNCHANGED <<folders, staging, stored, released, copies, importEvents, commits>>

\* The key is ours: ObjectService.upload with ifAbsent stages the write.
StageItem ==
    /\ hand.step = "waiting"
    /\ \/ Taken(Item) /\ Mark(Item, "conflict") /\ UNCHANGED staging
       \/ ~Taken(Item) /\ staging' = [staging EXCEPT ![Item] = "uploading"]
          /\ hand' = [hand EXCEPT !.step = "uploading"] /\ UNCHANGED <<items, job>>
    /\ UNCHANGED <<folders, stored, released, copies, importEvents, commits>>

\* Drive has the file.  It is not what was found, or its key is taken by now,
\* or it becomes the object.
Uploaded ==
    /\ hand.step = "uploading"
    /\ LET i == Item
           copy == <<i, copies[i] + 1>>
       IN  /\ copies' = [copies EXCEPT ![i] = @ + 1]
           /\ \/ Discard(i, copy) /\ Mark(i, "failed") /\ UNCHANGED <<stored, commits>>
              \/ Taken(i) /\ Discard(i, copy) /\ Mark(i, "conflict") /\ UNCHANGED <<stored, commits>>
              \/ ~Taken(i) /\ Publish(i, copy) /\ Mark(i, "imported") /\ UNCHANGED released
    /\ UNCHANGED <<folders, importEvents>>

UploadFails ==
    /\ hand.step = "uploading"
    /\ staging' = [staging EXCEPT ![Item] = "failed"]
    /\ Mark(Item, "failed")
    /\ UNCHANGED <<folders, stored, released, copies, importEvents, commits>>

-----------------------------------------------------------------------------
(***************************************************************************)
(* Clients, and the end and the start of the process.                      *)
(***************************************************************************)

CountImportEvent == importEvents < MaxImportEvents /\ importEvents' = importEvents + 1
ReleaseOf(k) == released' = released \cup ({stored[k]} \cap (File \X Nat))

\* Puts of a key wait for an upload of it; copies, completions and deletes do not.
ClientWrites(k) ==
    /\ CountImportEvent
    /\ stored' = [stored EXCEPT ![k] = Client]
    /\ ReleaseOf(k)
    /\ UNCHANGED <<job, folders, items, staging, copies, hand, commits>>

ClientDeletes(k) ==
    /\ CountImportEvent
    /\ stored[k] # NoObject
    /\ stored' = [stored EXCEPT ![k] = NoObject]
    /\ ReleaseOf(k)
    /\ UNCHANGED <<job, folders, items, staging, copies, hand, commits>>

Recoverable == {"uploading", "uploaded"}

\* recoverStaleStaging, over the rows old enough.  A row that failed keeps its
\* request id, which is what the item is found by.
Recovered(rows, made) ==
    \E stale \in SUBSET {i \in File : rows[i] \in Recoverable} :
        /\ staging' = [i \in File |-> IF i \in stale THEN "failed" ELSE rows[i]]
        /\ released' = released \cup {<<i, made[i]>> : i \in {j \in stale : rows[j] # "uploading"}}

\* A stop aborts what is awaited.  The item in hand counts as failed; the rest
\* of the batch is left to the next start.
Stop ==
    /\ CountImportEvent
    /\ hand # NoHand
    /\ items' = IF hand.step \in {"asking", "waiting", "uploading"}
                THEN [items EXCEPT ![Item] = "failed"] ELSE items
    /\ job' = IF items' # items /\ hand.batch = {Item} THEN Refreshed(job, items') ELSE job
    /\ hand' = NoHand
    /\ \/ Recovered(staging, copies)
       \/ hand.step = "uploading" /\ Recovered([staging EXCEPT ![Item] = "failed"], copies)
    /\ UNCHANGED <<folders, stored, copies, commits>>

Crash ==
    /\ CountImportEvent
    /\ hand # NoHand
    /\ hand' = NoHand
    /\ Recovered(staging, copies)
    /\ UNCHANGED <<job, folders, items, stored, copies, commits>>

\* A crash between markUploaded and the commit, or between the commit and markItem.
CrashInUpload ==
    /\ CountImportEvent
    /\ hand.step = "uploading"
    /\ copies' = [copies EXCEPT ![Item] = @ + 1]
    /\ \/ Recovered([staging EXCEPT ![Item] = "uploaded"], copies') /\ UNCHANGED <<stored, commits>>
       \/ ~Taken(Item) /\ Publish(Item, <<Item, copies[Item] + 1>>) /\ UNCHANGED released
    /\ hand' = NoHand
    /\ UNCHANGED <<job, folders, items>>

-----------------------------------------------------------------------------
ImportWorks ==
    \/ FinishCancel \/ ClaimFolder \/ SavePage \/ FinalizeScan
    \/ ClaimItems \/ TakeItem \/ SourceAnswers \/ StageItem \/ Uploaded \/ UploadFails

ImportNext ==
    \/ CreateJob \/ CancelJob \/ JobFails
    \/ ImportWorks
    \/ \E k \in Key : ClientWrites(k) \/ ClientDeletes(k)
    \/ Stop \/ Crash \/ CrashInUpload

ImportSpec == ImportInit /\ [][ImportNext]_importVars
ImportFairness == WF_importVars(ImportWorks)
ImportFairSpec == ImportSpec /\ ImportFairness
-----------------------------------------------------------------------------
(***************************************************************************)
(* What must hold.                                                         *)
(***************************************************************************)

\* A file becomes an object at most once, however often the worker is
\* interrupted between the upload, the commit and the mark (copyItem).
ImportedOnce == \A i \in File : commits[i] <= 1

\* An import never replaces an object, whoever wrote it and whenever
\* ("are never overwritten", commitStagedObject with ifAbsent).
NeverOverwrites ==
    [][\A k \in Key : stored[k] # NoObject => stored'[k] \in {stored[k], Client, NoObject}]_importVars

\* What the report of a completed job says is so: the files reported as
\* imported are those that became objects, and every file found is counted.
ReportIsTrue ==
    job.status = "completed" =>
        /\ \A i \in File : items[i] = "imported" <=> commits[i] = 1
        /\ job.discovered = job.counted.imported + job.counted.conflict
                               + job.counted.unsupported + job.counted.failed

\* A file that an object is served from is not queued for removal, also when
\* recovery, the interrupted item and a client each dispose of a copy.
ImportedFileKept == \A k \in Key : stored[k] \notin released

\* Every import ends, whatever its scan finds and wherever it is interrupted.
ImportEnds == job.status \in JobActive ~> job.status \in JobEnded

\* What an import promises: it adds objects, each once, replaces none, keeps
\* the files they are served from and reports what it did.
ImportSafe ==
    /\ [](ImportTypeOK /\ ImportedOnce /\ ReportIsTrue /\ ImportedFileKept)
    /\ NeverOverwrites

=============================================================================
