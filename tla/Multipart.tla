------------------------------ MODULE Multipart ------------------------------
(***************************************************************************)
(* Multipart uploads: their rows and part rows in SQLite, the part files   *)
(* of the temp directory, and the requests and workers that move an upload *)
(* from open to its end.                                                   *)
(*                                                                         *)
(* Completion, abort and expiry of an upload exclude each other by a lock  *)
(* named after the upload; parts take no lock.  The lock of an abort or of *)
(* an expiry is held for one stretch only, so it is part of their guard.   *)
(*                                                                         *)
(* The bytes of a part stand for its ETag as well.  All bodies count as    *)
(* equally long, the worst case for validation, which compares sizes.  The *)
(* object a completion commits is recorded in published; how the commit    *)
(* treats the key's earlier row is in ObjectStore (Completions).           *)
(***************************************************************************)
EXTENDS Naturals

CONSTANTS
    Upload,       \* multipart uploads
    Number,       \* part numbers
    Bytes,        \* what a part may contain
    Part,         \* UploadPart and UploadPartCopy requests
    Completer,    \* CompleteMultipartUpload requests
    Aborter,      \* AbortMultipartUpload requests
    Of,           \* Of[q]: the upload request q names
    At,           \* At[r]: the number of part request r
    Body,         \* Body[r]: the bytes it carries
    MaxRestarts   \* bound: crashes of the process

Request == Part \cup Completer \cup Aborter
Path == Upload \X Number
NoFile == "no file"
Status == {"none", "open", "completing", "completed", "aborted", "expired"}
Ended == {"completed", "aborted", "expired"}

ASSUME MultipartAssumption ==
    /\ Part \cap Completer = {} /\ Part \cap Aborter = {} /\ Completer \cap Aborter = {}
    /\ Of \in [Request -> Upload]
    /\ At \in [Part -> Number]
    /\ Body \in [Part -> Bytes]
    /\ NoFile \notin Bytes
    /\ MaxRestarts \in Nat

VARIABLES
    (* SQLite. *)
    status,     \* multipart_uploads.status
    overdue,    \* uploads whose expires_at has passed
    parts,      \* multipart_parts
    queue,      \* pending_cleanup: temp files waiting for removal
    published,  \* objects committed by completions
    (* The temp directory. *)
    files,      \* contents of <uploadId>/<number>.part
    (* Memory of the process: lost in a crash. *)
    pc,         \* where each request's handler stands
    selected,   \* the part rows a completion validated
    read,       \* what its stream has read, by part number
    leftover,   \* temp files it still has to remove
    expiring,   \* the expiry worker's batch
    unlinked,   \* the queued file the cleanup worker has just removed
    (* Bound. *)
    restarts

disk == <<status, overdue, parts, queue, published, files>>
memory == <<pc, selected, read, leftover, expiring, unlinked>>
vars == <<disk, memory, restarts>>

PartRow == [upload : Upload, number : Number, etag : Bytes]
PublishedObject == [upload : Upload, by : Completer,
                    named : SUBSET PartRow, bytes : SUBSET PartRow]

PC == {"idle", "writing", "renaming", "waiting", "locked", "reading", "checking",
       "slot", "streaming", "draining", "unlinking", "done"}

TypeOK ==
    /\ status \in [Upload -> Status]
    /\ overdue \subseteq Upload
    /\ parts \subseteq PartRow
    /\ queue \subseteq Path
    /\ published \subseteq PublishedObject
    /\ files \in [Path -> Bytes \cup {NoFile}]
    /\ pc \in [Request -> PC]
    /\ selected \in [Completer -> SUBSET PartRow]
    /\ read \in [Completer -> SUBSET PartRow]
    /\ leftover \in [Completer -> SUBSET Path]
    /\ expiring \subseteq Upload
    /\ unlinked \subseteq Path
    /\ restarts \in Nat

Init ==
    /\ status = [u \in Upload |-> "none"]
    /\ overdue = {} /\ parts = {} /\ queue = {} /\ published = {}
    /\ files = [p \in Path |-> NoFile]
    /\ pc = [q \in Request |-> "idle"]
    /\ selected = [c \in Completer |-> {}]
    /\ read = [c \in Completer |-> {}]
    /\ leftover = [c \in Completer |-> {}]
    /\ expiring = {} /\ unlinked = {}
    /\ restarts = 0

-----------------------------------------------------------------------------
(***************************************************************************)
(* Queries.                                                                *)
(***************************************************************************)

PartsOf(u) == {r \in parts : r.upload = u}
PathOf(r) == <<r.upload, r.number>>
PathsOf(rows) == {PathOf(r) : r \in rows}

\* requireUpload and the check of completeLocked.
MutIsOpen(u) == status[u] \in {"open", "completing"}
IsOpen(u) == status[u] = "open"

\* A completion holds the upload's lock over every await of its handler.
MutHeldToCheck(c) == pc[c] \in {"locked", "reading", "checking"}
MutNeverReleased(c) == pc[c] \notin {"idle", "waiting"}
InHand(c) == pc[c] \in {"locked", "reading", "checking", "slot", "streaming",
                        "draining", "unlinking"}
MutLockFree(u) == TRUE
LockFree(u) == \A c \in Completer : Of[c] = u => ~InHand(c)

Goes(q, from, to) == pc[q] = from /\ pc' = [pc EXCEPT ![q] = to]

-----------------------------------------------------------------------------
(***************************************************************************)
(* Creating an upload, and its parts: written to a private file, renamed   *)
(* into place, and recorded, with an await after each.                     *)
(***************************************************************************)

CreateMultipartUpload(u) ==
    /\ status[u] = "none"
    /\ status' = [status EXCEPT ![u] = "open"]
    /\ UNCHANGED <<overdue, parts, queue, published, files, memory, restarts>>

BeginPart(r) ==
    /\ IsOpen(Of[r])
    /\ Goes(r, "idle", "writing")
    /\ UNCHANGED <<disk, selected, read, leftover, expiring, unlinked, restarts>>

\* The client goes away, the bytes are refused, or the disk is full.
PartFails(r) ==
    /\ Goes(r, "writing", "done")
    /\ UNCHANGED <<disk, selected, read, leftover, expiring, unlinked, restarts>>

PartPath(r) == <<Of[r], At[r]>>
RenamePart(r) ==
    /\ Goes(r, "writing", "renaming")
    /\ files' = [files EXCEPT ![PartPath(r)] = Body[r]]
    /\ UNCHANGED <<status, overdue, parts, queue, published, selected, read, leftover,
                   expiring, unlinked, restarts>>

\* multipartParts.upsert; nothing looks at the upload's status again.
RecordPart(r) ==
    /\ Goes(r, "renaming", "done")
    /\ parts' = {p \in parts : ~(p.upload = Of[r] /\ p.number = At[r])}
                    \cup {[upload |-> Of[r], number |-> At[r], etag |-> Body[r]]}
    /\ UNCHANGED <<status, overdue, queue, published, files, selected, read, leftover,
                   expiring, unlinked, restarts>>

-----------------------------------------------------------------------------
(***************************************************************************)
(* CompleteMultipartUpload.                                                *)
(***************************************************************************)

BeginComplete(c) ==
    /\ Goes(c, "idle", "waiting")
    /\ UNCHANGED <<disk, selected, read, leftover, expiring, unlinked, restarts>>

Grant(c) ==
    /\ LockFree(Of[c])
    /\ Goes(c, "waiting", "locked")
    /\ UNCHANGED <<disk, selected, read, leftover, expiring, unlinked, restarts>>

\* Access to the bucket was verified; the body is awaited next.
CheckOpen(c) ==
    /\ IsOpen(Of[c])
    /\ Goes(c, "locked", "reading")
    /\ UNCHANGED <<disk, selected, read, leftover, expiring, unlinked, restarts>>

\* The client names parts by number and ETag; the stored rows must agree.
SelectParts(c) ==
    /\ Goes(c, "reading", "checking")
    /\ \E rows \in SUBSET PartsOf(Of[c]) :
          rows # {} /\ selected' = [selected EXCEPT ![c] = rows]
    /\ UNCHANGED <<disk, read, leftover, expiring, unlinked, restarts>>

\* Every file is there with the recorded size: markCompleting.
MarkCompleting(c) ==
    /\ \A p \in PathsOf(selected[c]) : files[p] # NoFile
    /\ IsOpen(Of[c])
    /\ Goes(c, "checking", "slot")
    /\ status' = [status EXCEPT ![Of[c]] = "completing"]
    /\ UNCHANGED <<overdue, parts, queue, published, files, selected, read, leftover,
                   expiring, unlinked, restarts>>

\* The client leaves, or the request is refused, before markCompleting.
CompleteRefused(c) ==
    /\ pc[c] \in {"waiting", "locked", "reading", "checking"}
    /\ pc' = [pc EXCEPT ![c] = "done"]
    /\ UNCHANGED <<disk, selected, read, leftover, expiring, unlinked, restarts>>

GetSlot(c) ==
    /\ Goes(c, "slot", "streaming")
    /\ UNCHANGED <<disk, selected, read, leftover, expiring, unlinked, restarts>>

\* The cipher cannot be made or the wait for a slot is aborted, outside the
\* try block: the upload stays 'completing'.
GiveUpSlot(c) ==
    /\ Goes(c, "slot", "done")
    /\ UNCHANGED <<disk, selected, read, leftover, expiring, unlinked, restarts>>

\* multipartConcatStream opens the file of the next part.
ReadPart(c) ==
    /\ pc[c] = "streaming"
    /\ \E r \in selected[c] :
          /\ PathOf(r) \notin PathsOf(read[c])
          /\ \A s \in selected[c] : PathOf(s) \notin PathsOf(read[c]) => r.number <= s.number
          /\ files[PathOf(r)] # NoFile
          /\ read' = [read EXCEPT ![c] = @ \cup {[r EXCEPT !.etag = files[PathOf(r)]]}]
    /\ UNCHANGED <<disk, pc, selected, leftover, expiring, unlinked, restarts>>

\* The stream or Drive fails: the catch block ends the upload as 'aborted'.
AfterFailure(s) == IF s \in {"open", "completing"} THEN "aborted" ELSE s
StreamFails(c) ==
    /\ Goes(c, "streaming", "done")
    /\ status' = [status EXCEPT ![Of[c]] = AfterFailure(@)]
    /\ UNCHANGED <<overdue, parts, queue, published, files, selected, read, leftover,
                   expiring, unlinked, restarts>>

\* Drive has answered: markUploaded and commitStagedObject, then the await of
\* the old file's removal.
MutWholeRead(c) == TRUE
WholeRead(c) == PathsOf(read[c]) = PathsOf(selected[c])
CommitObject(c) ==
    /\ WholeRead(c)
    /\ Goes(c, "streaming", "draining")
    /\ published' = published \cup
           {[upload |-> Of[c], by |-> c, named |-> selected[c], bytes |-> read[c]]}
    /\ UNCHANGED <<status, overdue, parts, queue, files, selected, read, leftover,
                   expiring, unlinked, restarts>>

\* markCompleted, whatever the status, and deleteAll.
MarkCompleted(c) ==
    /\ Goes(c, "draining", "unlinking")
    /\ status' = [status EXCEPT ![Of[c]] = "completed"]
    /\ parts' = parts \ PartsOf(Of[c])
    /\ leftover' = [leftover EXCEPT ![c] = PathsOf(PartsOf(Of[c]))]
    /\ UNCHANGED <<overdue, queue, published, files, selected, read, expiring, unlinked, restarts>>

\* cleanupTempFiles: rm, or queue the path when rm fails.
CleanupTempFile(c) ==
    /\ pc[c] = "unlinking"
    /\ \E p \in leftover[c] :
          /\ leftover' = [leftover EXCEPT ![c] = @ \ {p}]
          /\ \/ files' = [files EXCEPT ![p] = NoFile] /\ UNCHANGED queue
             \/ queue' = queue \cup {p} /\ UNCHANGED files
    /\ UNCHANGED <<status, overdue, parts, published, pc, selected, read, expiring,
                   unlinked, restarts>>

Answer(c) ==
    /\ leftover[c] = {}
    /\ Goes(c, "unlinking", "done")
    /\ UNCHANGED <<disk, selected, read, leftover, expiring, unlinked, restarts>>

-----------------------------------------------------------------------------
(***************************************************************************)
(* Abort and expiry: each ends the upload and queues its files.            *)
(***************************************************************************)

EndUpload(u, how) ==
    /\ status' = [status EXCEPT ![u] = how]
    /\ parts' = parts \ PartsOf(u)
    /\ queue' = queue \cup PathsOf(PartsOf(u))

AbortMultipartUpload(a) ==
    /\ Goes(a, "idle", "done")
    /\ LockFree(Of[a])
    /\ status[Of[a]] \in {"open", "completing"}
    /\ EndUpload(Of[a], "aborted")
    /\ UNCHANGED <<overdue, published, files, selected, read, leftover, expiring,
                   unlinked, restarts>>

TimePasses(u) ==
    /\ status[u] # "none"
    /\ overdue' = overdue \cup {u}
    /\ UNCHANGED <<status, parts, queue, published, files, memory, restarts>>

ListExpired ==
    /\ expiring = {}
    /\ expiring' = {u \in overdue : status[u] = "open"}
    /\ UNCHANGED <<disk, pc, selected, read, leftover, unlinked, restarts>>

\* Each row of the batch in turn, under its lock.
ExpireOne(u) ==
    /\ u \in expiring
    /\ LockFree(u)
    /\ expiring' = expiring \ {u}
    /\ IF status[u] = "open" THEN EndUpload(u, "expired")
                             ELSE UNCHANGED <<status, parts, queue>>
    /\ UNCHANGED <<overdue, published, files, pc, selected, read, leftover, unlinked, restarts>>

-----------------------------------------------------------------------------
(***************************************************************************)
(* The cleanup worker's temp_file rows, and a crash.                       *)
(***************************************************************************)

\* unlink, whose error is ignored, then complete.
UnlinkQueued(p) ==
    /\ p \in queue /\ unlinked = {}
    /\ files' \in {files, [files EXCEPT ![p] = NoFile]}
    /\ unlinked' = {p}
    /\ UNCHANGED <<status, overdue, parts, queue, published, pc, selected, read, leftover,
                   expiring, restarts>>

ForgetQueued(p) ==
    /\ p \in unlinked
    /\ queue' = queue \ {p}
    /\ unlinked' = {}
    /\ UNCHANGED <<status, overdue, parts, published, files, pc, selected, read, leftover,
                   expiring, restarts>>

\* A crash: the process comes back without its memory.
Crash ==
    /\ restarts < MaxRestarts
    /\ restarts' = restarts + 1
    /\ pc' = [q \in Request |-> IF pc[q] = "idle" THEN "idle" ELSE "done"]
    /\ selected' = [c \in Completer |-> {}]
    /\ read' = [c \in Completer |-> {}]
    /\ leftover' = [c \in Completer |-> {}]
    /\ expiring' = {} /\ unlinked' = {}

Restart == Crash /\ UNCHANGED disk

\* A crash inside an abort: after markAborted, and maybe after deleteAll and
\* some of the enqueues.
CrashInAbort(a) ==
    /\ Crash
    /\ pc[a] = "idle"
    /\ LockFree(Of[a])
    /\ status[Of[a]] \in {"open", "completing"}
    /\ status' = [status EXCEPT ![Of[a]] = "aborted"]
    /\ \/ UNCHANGED <<parts, queue>>
       \/ /\ parts' = parts \ PartsOf(Of[a])
          /\ \E S \in SUBSET PathsOf(PartsOf(Of[a])) : queue' = queue \cup S
    /\ UNCHANGED <<overdue, published, files>>

\* A crash after markCompleted, before deleteAll.
CrashInCompletion(c) ==
    /\ Crash
    /\ pc[c] = "draining"
    /\ status' = [status EXCEPT ![Of[c]] = "completed"]
    /\ UNCHANGED <<overdue, parts, queue, published, files>>

-----------------------------------------------------------------------------
PartStep(r) == BeginPart(r) \/ PartFails(r) \/ RenamePart(r) \/ RecordPart(r)

CompleteStep(c) ==
    \/ BeginComplete(c) \/ Grant(c) \/ CheckOpen(c) \/ SelectParts(c)
    \/ MarkCompleting(c) \/ CompleteRefused(c) \/ GetSlot(c) \/ GiveUpSlot(c)
    \/ ReadPart(c) \/ StreamFails(c) \/ CommitObject(c) \/ MarkCompleted(c)
    \/ CleanupTempFile(c) \/ Answer(c)

WorkerStep ==
    \/ ListExpired
    \/ \E u \in Upload : ExpireOne(u)
    \/ \E p \in queue : UnlinkQueued(p) \/ ForgetQueued(p)

Next ==
    \/ \E u \in Upload : CreateMultipartUpload(u) \/ TimePasses(u)
    \/ \E r \in Part : PartStep(r)
    \/ \E c \in Completer : CompleteStep(c)
    \/ \E a \in Aborter : AbortMultipartUpload(a)
    \/ WorkerStep
    \/ Restart
    \/ \E a \in Aborter : CrashInAbort(a)
    \/ \E c \in Completer : CrashInCompletion(c)

Spec == Init /\ [][Next]_vars
-----------------------------------------------------------------------------
(***************************************************************************)
(* What must hold.                                                         *)
(***************************************************************************)

\* An upload ends once: completed, aborted and expired are final.  Completion
\* sets its status without looking, so this rests on the upload's lock.
EndsOnce ==
    [][\A u \in Upload : status[u] \in Ended => status'[u] = status[u]]_vars

\* An upload becomes at most one object, however often its completion is sent
\* again, by concurrent requests or after a crash.
PublishedOnce == \A o, p \in published : o.upload = p.upload => o = p

\* An object is committed only while its upload is completing: never after an
\* abort or an expiry has answered.
CommitsWhileCompleting ==
    [][\A o \in published' \ published : status[o.upload] = "completing"]_vars

\* What a completion, an abort and an expiry answer stays true.
EndsCleanly == EndsOnce /\ CommitsWhileCompleting

\* The files a completion has validated stay on disk until it has read them:
\* neither another request nor a worker removes them under its stream.
SelectedFilesKept ==
    \A c \in Completer : pc[c] \in {"slot", "streaming"} =>
        \A p \in PathsOf(selected[c]) : files[p] # NoFile

\* A completion that is sent makes one object, from files that are there.
CompletionSafe == PublishedOnce /\ SelectedFilesKept

\* The object holds the bytes of exactly the parts the client named, when
\* every request for one part number carries the same bytes.
BytesAsNamed == \A o \in published : o.bytes = o.named

\* The part rows of an upload that can still be completed have their files: a
\* row is written after its file and forgotten before the file goes.
RowsHaveFiles ==
    \A r \in parts : status[r.upload] \in {"open", "completing"} => files[PathOf(r)] # NoFile

-----------------------------------------------------------------------------
(***************************************************************************)
(* Progress: handlers run to their end, and the expiry worker on a timer.  *)
(***************************************************************************)

Fairness ==
    /\ \A r \in Part : WF_vars(PartFails(r) \/ RenamePart(r) \/ RecordPart(r))
    /\ \A c \in Completer : WF_vars(~(pc[c] = "idle") /\ CompleteStep(c))
    /\ WF_vars(ListExpired)
    /\ \A u \in Upload : WF_vars(ExpireOne(u))

FairSpec == Spec /\ Fairness

\* An open upload that is overdue does not stay open (MultipartExpiryWorker).
OverdueOpenEnds ==
    \A u \in Upload : status[u] = "open" /\ u \in overdue ~> status[u] # "open"

\* Every overdue upload ends, whatever happened to its requests: after a crash
\* the workers resume from SQLite (OPERATIONS.md, multipart storage).
UnfinishedUploadsEnd ==
    \A u \in Upload :
        status[u] \in {"open", "completing"} /\ u \in overdue ~> status[u] \in Ended


=============================================================================
