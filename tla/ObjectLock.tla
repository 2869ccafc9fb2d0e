----------------------------- MODULE ObjectLock -----------------------------
(***************************************************************************)
(* Retention and legal hold on the versions of one key: who reads a lock,  *)
(* when it was read, and what is done with a version in the meantime.      *)
(*                                                                         *)
(* Versions are ordered as their ids are: an id counts up from 1, and the  *)
(* id "null", 0 here, sorts before every other and so counts as the newest.*)
(* A version is known by its file, which no two writes share.              *)
(***************************************************************************)
EXTENDS Naturals, FiniteSets, FiniteSetsExt

CONSTANTS
    Requests,    \* bound: requests that await something, numbered as they start
    Doors,       \* the handlers that are in use
    MaxTime,     \* bound: the clock stops here
    MaxSettings  \* bound: changes of the bucket's settings

ASSUME ObjectLockAssumption ==
    /\ Doors \subseteq {"put", "multipart", "s3", "bulk", "dashboard", "version", "dashboardVersion",
                        "prune", "retention", "hold", "settings"}
    /\ Requests \in Nat /\ MaxTime \in Nat /\ MaxSettings \in Nat

VARIABLES
    lockBucket,  \* versioning, object_lock_enabled, the mode of the default retention
    row,         \* the objects row of the key
    archive,     \* object_versions of the key
    req,         \* the requests
    clock,
    nextFile, nextId,   \* files and version ids given out
    settingsMade,
    via          \* what the last step did, and from which captured state

lockVars == <<lockBucket, row, archive, req, clock, nextFile, nextId, settingsMade, via>>

Free == [mode |-> "none", until |-> 0, hold |-> FALSE]
Lock == [mode : {"none", "GOVERNANCE", "COMPLIANCE"}, until : Nat, hold : BOOLEAN]
NoRow == [file |-> 0, vid |-> 0, lock |-> Free]
Idle == [op |-> "idle", step |-> "idle", versioning |-> "Disabled", vid |-> 0, file |-> 0,
         archived |-> FALSE, seen |-> Free, want |-> Free, bypass |-> FALSE]
LockReq == 1..Requests
Quiet == [op |-> "none", allowed |-> FALSE, versioning |-> "Enabled", fresh |-> TRUE]

LockTypeOK ==
    /\ lockBucket \in [versioning : {"Disabled", "Enabled", "Suspended"}, on : BOOLEAN,
                       default : {"none", "GOVERNANCE", "COMPLIANCE"}]
    /\ row \in [file : Nat, vid : Nat, lock : Lock]
    /\ archive \subseteq [file : Nat, vid : Nat, lock : Lock, marker : BOOLEAN]
    /\ \A v, w \in archive : v.vid = w.vid => v = w
    /\ \A r \in LockReq : req[r].seen \in Lock /\ req[r].want \in Lock
    /\ clock \in 0..MaxTime /\ nextFile \in Nat /\ nextId \in Nat /\ settingsMade \in 0..MaxSettings

Exists == row.file # 0
Said(op) == [Quiet EXCEPT !.op = op]

-----------------------------------------------------------------------------
(***************************************************************************)
(* The rules: pure functions of a lock and the clock.  A bypass counts     *)
(* when it is asked for by the owner of the bucket.                        *)
(***************************************************************************)

RetentionActive(lock) == lock.mode # "none" /\ lock.until > clock

MutEvaluateDelete(lock, bypass) ==
    /\ ~lock.hold
    /\ RetentionActive(lock) => bypass

EvaluateDelete(lock, bypass) ==
    /\ ~lock.hold
    /\ RetentionActive(lock) => lock.mode = "GOVERNANCE" /\ bypass


CanReplaceRetention(current, mode, until, bypass) ==
    \/ ~RetentionActive(current)
    \/ /\ until >= current.until
       /\ (current.mode = "COMPLIANCE" => mode = "COMPLIANCE")
    \/ /\ until < current.until
       /\ current.mode # "COMPLIANCE" /\ bypass

\* What a write asks for, completed by the bucket's default.
WriteLock(asked) ==
    IF ~lockBucket.on THEN Free
    ELSE IF asked.mode # "none" \/ lockBucket.default = "none" THEN asked
    ELSE [asked EXCEPT !.mode = lockBucket.default, !.until = clock + 1]

-----------------------------------------------------------------------------
(***************************************************************************)
(* The tables.                                                             *)
(***************************************************************************)

Archived(o) == [file |-> o.file, vid |-> o.vid, lock |-> o.lock, marker |-> FALSE]
Has(vid) == \E v \in archive : v.vid = vid
\* INSERT ... ON CONFLICT DO NOTHING
Archive(o) == IF Has(o.vid) THEN archive ELSE archive \cup {Archived(o)}
Named(vid) == CHOOSE v \in archive : v.vid = vid
Without(vs, vid) == {v \in vs : v.vid # vid}

Bodies(vs) == {v \in vs : ~v.marker}
\* ORDER BY version_id ASC LIMIT 1
NewestOf(vs) == IF \E v \in vs : v.vid = 0 THEN CHOOSE v \in vs : v.vid = 0
              ELSE CHOOSE v \in vs : \A w \in vs : w.vid <= v.vid

\* The promoted row gets no lock columns: a new row has none, and a row that
\* was there keeps its own.
Promoted(vs, o) == IF Bodies(vs) = {} THEN o
                   ELSE [file |-> NewestOf(Bodies(vs)).file, vid |-> NewestOf(Bodies(vs)).vid, lock |-> o.lock]
LeftOver(vs) == IF Bodies(vs) = {} THEN vs ELSE Without(vs, NewestOf(Bodies(vs)).vid)

Retains(versioning, o) == versioning = "Enabled" \/ (versioning = "Suspended" /\ o.vid # 0)

-----------------------------------------------------------------------------
LockInit ==
    /\ lockBucket \in {[versioning |-> "Disabled", on |-> FALSE, default |-> "none"],
                       [versioning |-> "Enabled", on |-> TRUE, default |-> "none"]}
    /\ row = NoRow /\ archive = {}
    /\ req = [r \in LockReq |-> Idle]
    /\ clock = 0 /\ nextFile = 1 /\ nextId = 1 /\ settingsMade = 0
    /\ via = Quiet

Tick ==
    /\ clock < MaxTime
    /\ clock' = clock + 1 /\ via' = Quiet
    /\ UNCHANGED <<lockBucket, row, archive, req, nextFile, nextId, settingsMade>>

Change(b) ==
    /\ "settings" \in Doors /\ settingsMade < MaxSettings
    /\ settingsMade' = settingsMade + 1
    /\ lockBucket' = b /\ via' = Quiet
    /\ UNCHANGED <<row, archive, req, clock, nextFile, nextId>>

PutVersioning(status) == Change([lockBucket EXCEPT !.versioning = status])

\* enableObjectLock turns versioning on, and only when the lock was off.
PutLockConfiguration(mode) ==
    Change([on |-> TRUE, default |-> IF mode = "none" THEN lockBucket.default ELSE mode,
            versioning |-> IF lockBucket.on THEN lockBucket.versioning ELSE "Enabled"])

Starts(r, door, record) ==
    /\ door \in Doors /\ req[r] = Idle /\ \A s \in 1..(r - 1) : req[s] # Idle
    /\ req' = [req EXCEPT ![r] = record]
    /\ via' = Quiet
    /\ UNCHANGED <<lockBucket, row, archive, clock, settingsMade>>
Done == [Idle EXCEPT !.step = "done"]
Ended(r) == req' = [req EXCEPT ![r] = Done]

\* A PUT knows its lock, its versioning and its version id before its body.
BeginPut(r, asked) ==
    /\ asked # Free => lockBucket.on
    /\ Starts(r, "put", [Idle EXCEPT !.op = "put", !.step = "body", !.versioning = lockBucket.versioning,
                         !.vid = IF lockBucket.versioning = "Enabled" THEN nextId ELSE 0,
                         !.want = WriteLock(asked)])
    /\ nextId' = IF lockBucket.versioning = "Enabled" THEN nextId + 1 ELSE nextId
    /\ UNCHANGED nextFile

\* A completed multipart upload commits with neither a lock nor a versioning mode.
BeginComplete(r) ==
    /\ Starts(r, "multipart", [Idle EXCEPT !.op = "multipart", !.step = "body"])
    /\ UNCHANGED <<nextFile, nextId>>

CommitPut(r) ==
    LET q == req[r]
    IN  /\ q.step = "body"
        /\ archive' = IF Exists /\ Retains(q.versioning, row) THEN Archive(row) ELSE archive
        /\ row' = [file |-> nextFile, vid |-> q.vid, lock |-> q.want]
        /\ nextFile' = nextFile + 1
        /\ Ended(r)
        /\ via' = [Said(q.op) EXCEPT !.versioning = q.versioning]
        /\ UNCHANGED <<lockBucket, clock, nextId, settingsMade>>

-----------------------------------------------------------------------------
(***************************************************************************)
(* DELETE of the key: the bucket and the row are those of the start.       *)
(***************************************************************************)

BeginDelete(r, door, bypass) ==
    /\ Exists /\ (bypass => door = "s3")
    /\ Starts(r, door, [Idle EXCEPT !.op = door, !.step = IF door = "dashboard" THEN "verify" ELSE "access",
                        !.versioning = lockBucket.versioning, !.file = IF door = "bulk" THEN 0 ELSE row.file,
                        !.seen = IF door = "s3" THEN row.lock ELSE Free, !.bypass = bypass])
    /\ UNCHANGED <<nextFile, nextId>>

\* After the check of Drive: DeleteObject evaluates the lock it has seen,
\* DeleteObjects looks for the key and evaluates none.
CheckDelete(r) ==
    LET q == req[r]
    IN  /\ q.step = "access"
        /\ IF q.op = "bulk"
           THEN req' = [req EXCEPT ![r] = IF Exists THEN [q EXCEPT !.step = "verify", !.file = row.file]
                                          ELSE Done]
           ELSE req' = [req EXCEPT ![r] = IF q.versioning = "Enabled" \/ EvaluateDelete(q.seen, q.bypass)
                                          THEN [q EXCEPT !.step = "verify", !.seen = Free, !.bypass = FALSE]
                                          ELSE Done]
        /\ via' = Quiet
        /\ UNCHANGED <<lockBucket, row, archive, clock, nextFile, nextId, settingsMade>>

Marker(vid) == [file |-> 0, vid |-> vid, lock |-> Free, marker |-> TRUE]

\* ObjectService.delete, after its own check of Drive.
FinishDelete(r) ==
    LET q == req[r]
        mark == IF q.versioning = "Enabled" THEN nextId ELSE 0
    IN  /\ q.step = "verify"
        /\ Ended(r)
        /\ IF row.file # q.file
           THEN via' = Quiet /\ UNCHANGED <<row, archive, nextId>>
           ELSE /\ row' = NoRow
                /\ archive' = IF q.versioning = "Disabled" THEN archive
                              ELSE LET kept == IF Retains(q.versioning, row) THEN Archive(row) ELSE archive
                                   IN  (IF mark = 0 THEN Without(kept, 0) ELSE kept) \cup {Marker(mark)}
                /\ nextId' = IF q.versioning = "Enabled" THEN nextId + 1 ELSE nextId
                /\ via' = [Said(q.op) EXCEPT !.versioning = q.versioning]
        /\ UNCHANGED <<lockBucket, clock, nextFile, settingsMade>>

-----------------------------------------------------------------------------
(***************************************************************************)
(* DELETE of one version, and the clearing of old ones.                    *)
(***************************************************************************)

Deletes(bypass) == via' = [Said("version") EXCEPT !.allowed = bypass]

DeleteCurrentVersion(vid, bypass) ==
    /\ "version" \in Doors /\ Exists /\ row.vid = vid
    /\ EvaluateDelete(row.lock, bypass)
    /\ row' = Promoted(archive, NoRow)
    /\ archive' = LeftOver(archive)
    /\ Deletes(bypass)
    /\ UNCHANGED <<lockBucket, req, clock, nextFile, nextId, settingsMade>>

DeleteArchivedVersion(vid, bypass) ==
    LET left == Without(archive, vid)
    IN  /\ "version" \in Doors /\ ~(Exists /\ row.vid = vid) /\ Has(vid)
        /\ EvaluateDelete(Named(vid).lock, bypass)
        /\ row' = IF Named(vid).marker THEN Promoted(left, row) ELSE row
        /\ archive' = IF Named(vid).marker THEN LeftOver(left) ELSE left
        /\ Deletes(bypass)
        /\ UNCHANGED <<lockBucket, req, clock, nextFile, nextId, settingsMade>>

\* The dashboard's removal of a version, of a key that has a current one.
DashboardDeleteVersion(vid) ==
    /\ "dashboardVersion" \in Doors /\ Exists /\ Has(vid)
    /\ archive' = Without(archive, vid)
    /\ via' = Said("dashboardVersion")
    /\ UNCHANGED <<lockBucket, row, req, clock, nextFile, nextId, settingsMade>>

Prunable(v) == ~v.marker /\ ~v.lock.hold /\ (v.lock.mode = "none" \/ v.lock.until <= clock)

PruneVersions ==
    /\ "prune" \in Doors
    /\ \E v \in archive : Prunable(v)
    /\ archive' = {v \in archive : ~Prunable(v)}
    /\ via' = Said("prune")
    /\ UNCHANGED <<lockBucket, row, req, clock, nextFile, nextId, settingsMade>>

-----------------------------------------------------------------------------
(***************************************************************************)
(* PUT ?retention and ?legal-hold: the target is resolved before the body  *)
(* is read and written after.                                              *)
(***************************************************************************)

ResolveTarget(r, op, vid, want, bypass) ==
    /\ lockBucket.on
    /\ (Exists /\ vid = row.vid) \/ Has(vid)
    /\ LET current == Exists /\ vid = row.vid
       IN  Starts(r, op, [Idle EXCEPT !.op = op, !.step = "xml", !.vid = vid, !.archived = ~current,
                          !.file = IF current THEN row.file ELSE Named(vid).file,
                          !.seen = IF current THEN row.lock ELSE Named(vid).lock,
                          !.want = want, !.bypass = bypass])
    /\ UNCHANGED <<nextFile, nextId>>

\* setLock names the columns of one of the two, and leaves the other's alone.
Set(lock, q) == IF q.op = "hold" THEN [lock EXCEPT !.hold = q.want.hold]
                ELSE [lock EXCEPT !.mode = q.want.mode, !.until = q.want.until]

\* An archived version is found by its id, a current one by the key alone.
ApplyLock(q) ==
    IF q.archived
    THEN /\ archive' = {IF v.vid = q.vid THEN [v EXCEPT !.lock = Set(@, q)] ELSE v : v \in archive}
         /\ UNCHANGED row
    ELSE /\ row' = IF Exists THEN [row EXCEPT !.lock = Set(@, q)] ELSE row
         /\ UNCHANGED archive

\* The lock the request is about to write still says what it said.
StillAsSeen(q) ==
    IF q.archived THEN \A v \in archive : v.vid = q.vid => v.file = q.file /\ v.lock = q.seen
    ELSE Exists => row.file = q.file /\ row.lock = q.seen

FinishLock(r) ==
    LET q == req[r]
        permitted == q.op = "hold" \/ CanReplaceRetention(q.seen, q.want.mode, q.want.until, q.bypass)
    IN  /\ q.step = "xml"
        /\ Ended(r)
        /\ IF permitted THEN ApplyLock(q) ELSE UNCHANGED <<row, archive>>
        /\ via' = [Said(q.op) EXCEPT !.allowed = q.bypass, !.fresh = StillAsSeen(q)]
        /\ UNCHANGED <<lockBucket, clock, nextFile, nextId, settingsMade>>

-----------------------------------------------------------------------------
Retentions == {[mode |-> m, until |-> u, hold |-> FALSE] : m \in {"GOVERNANCE", "COMPLIANCE"}, u \in 1..(MaxTime + 1)}
Holds == {[Free EXCEPT !.hold = h] : h \in BOOLEAN}
Asked == {Free} \cup {l \in Retentions : l.until = MaxTime + 1}
Vids == 0..(nextId - 1)

LockNext ==
    \/ Tick
    \/ \E s \in {"Enabled", "Suspended"} : PutVersioning(s)
    \/ \E m \in {"none", "GOVERNANCE", "COMPLIANCE"} : PutLockConfiguration(m)
    \/ PruneVersions
    \/ \E vid \in Vids : DashboardDeleteVersion(vid)
    \/ \E vid \in Vids, bypass \in BOOLEAN :
         DeleteCurrentVersion(vid, bypass) \/ DeleteArchivedVersion(vid, bypass)
    \/ \E r \in LockReq :
         \/ \E asked \in Asked : BeginPut(r, asked)
         \/ BeginComplete(r) \/ CommitPut(r)
         \/ \E door \in {"s3", "bulk", "dashboard"}, bypass \in BOOLEAN : BeginDelete(r, door, bypass)
         \/ CheckDelete(r) \/ FinishDelete(r) \/ FinishLock(r)
         \/ \E vid \in Vids, bypass \in BOOLEAN :
              \/ \E want \in Retentions : ResolveTarget(r, "retention", vid, want, bypass)
              \/ \E want \in Holds : ResolveTarget(r, "hold", vid, want, bypass)

LockSpec == LockInit /\ [][LockNext]_lockVars

-----------------------------------------------------------------------------
(***************************************************************************)
(* Properties.                                                             *)
(***************************************************************************)

\* The versions of the key, as file and lock.
Versions == {[file |-> v.file, lock |-> v.lock] : v \in Bodies(archive)}
            \cup (IF Exists THEN {[file |-> row.file, lock |-> row.lock]} ELSE {})
FilesOf(vs) == {v.file : v \in vs}
LockOf(f) == (CHOOSE v \in Versions : v.file = f).lock

\* Which of the code's ways to write or remove a version ask no lock: an
\* overwrite or a delete by a request that took the bucket for one without
\* versioning (a completed multipart upload always does) or with versioning
\* suspended, and the dashboard's removal of a version.
AsksNoLock == \/ via'.op \in {"put", "multipart", "s3", "bulk", "dashboard"} /\ via'.versioning # "Enabled"
              \/ via'.op = "dashboardVersion"

\* A row of the version id "null" that is replaced or deleted while another one
\* of that id is archived already: the insert that should archive it does nothing.
NullClash(file) == via'.op \in {"put", "s3", "bulk", "dashboard"} /\ row.file = file /\ row.vid = 0 /\ Has(0)

\* A version under a lock is destroyed by nothing but those ways, the bypass
\* of GOVERNANCE by the owner, a promotion over a row that is there, and the
\* archiving of a second version "null".
LockedIsKept ==
    [][\A v \in Versions :
          v.file \notin FilesOf(Versions') /\ (v.lock.hold \/ RetentionActive(v.lock))
             => \/ AsksNoLock
                \/ NullClash(v.file)
                \/ via'.op = "version" /\ via'.allowed /\ ~v.lock.hold /\ v.lock.mode = "GOVERNANCE"
                \/ via'.op = "version" /\ Exists /\ row.file = v.file /\ row'.file # 0 /\ Has(row'.vid)]_lockVars

\* A lock that is not a request's to change stays as it is while its version
\* is overwritten, archived and restored, except for a promotion.
LockTravels ==
    [][\A v \in Versions :
          v.file \in FilesOf(Versions') /\ via'.op \notin {"retention", "hold", "version"}
             => LockOf(v.file)' = v.lock]_lockVars

\* PUT ?retention on a version whose lock is still the one it read never
\* shortens a COMPLIANCE period nor makes it one that can be bypassed, and
\* shortens a GOVERNANCE one for an owner who bypasses it.  A legal hold is
\* none of its business, and a retention none of the hold's.
RetentionOnlyGrows ==
    [][\A v \in Versions :
          via'.op \in {"retention", "hold"} /\ via'.fresh /\ v.file \in FilesOf(Versions')
             => LET new == LockOf(v.file)'
                IN  /\ RetentionActive(v.lock) /\ v.lock.mode = "COMPLIANCE"
                          => new.mode = "COMPLIANCE" /\ new.until >= v.lock.until
                    /\ RetentionActive(v.lock) /\ new.until < v.lock.until => via'.allowed
                    /\ via'.op = "retention" => new.hold = v.lock.hold]_lockVars

\* What the README promises: nobody lifts a COMPLIANCE lock, so a version
\* under one is still there after every step, under one that ends no sooner.
NobodyLiftsCompliance ==
    [][\A v \in Versions :
          RetentionActive(v.lock) /\ v.lock.mode = "COMPLIANCE"
             => /\ v.file \in FilesOf(Versions')
                /\ LockOf(v.file)'.mode = "COMPLIANCE" /\ LockOf(v.file)'.until >= v.lock.until]_lockVars

\* What the lock of a version promises over every step.
LocksHold == []LockTypeOK /\ LockedIsKept /\ LockTravels /\ RetentionOnlyGrows

=============================================================================
