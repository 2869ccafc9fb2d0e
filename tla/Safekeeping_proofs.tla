------------------------- MODULE Safekeeping_proofs -------------------------
(***************************************************************************)
(* Theorems about what keeps a version: its lock and its encryption.       *)
(*                                                                         *)
(* The lock of a version holds because no two rows ever are of one file    *)
(* and an id other than "null" is given out once: a version can be told    *)
(* by its file from one state to the next, and what a step does to it is   *)
(* what the step does to the one row that has the file.                    *)
(*                                                                         *)
(* A record of encryption is of its file because a file that is uploaded   *)
(* is of no row and of no other request, and because a request that goes   *)
(* by the key either finds the row it began with or has been told that the *)
(* row moved.                                                              *)
(***************************************************************************)
EXTENDS ObjectLock, Encryption, WellFoundedInduction, TLAPS

(***************************************************************************)
(* Object lock.                                                            *)
(***************************************************************************)

LockRow == [file : Nat, vid : Nat, lock : Lock]
LockVersion == [file : Nat, vid : Nat, lock : Lock, marker : BOOLEAN]
LockRequest == [op : {"idle", "put", "multipart", "s3", "bulk", "dashboard", "retention", "hold"},
                step : {"idle", "body", "access", "verify", "xml", "done"},
                versioning : {"Disabled", "Enabled", "Suspended"}, vid : Nat, file : Nat, archived : BOOLEAN,
                seen : Lock, want : Lock, bypass : BOOLEAN]

\* No two versions are of one file, and files and ids are given out once.
TablesInv ==
    /\ row \in LockRow /\ row.file < nextFile /\ row.vid < nextId
    /\ archive \subseteq LockVersion
    /\ \A v \in archive : v.vid < nextId /\ (~v.marker => v.file \in 1..(nextFile - 1) /\ v.file # row.file)
    /\ \A v, w \in archive : v.vid = w.vid => v = w
    /\ \A v, w \in Bodies(archive) : v.file = w.file => v = w

\* An id other than "null" is that of one version or of one write under way.
Writes(r) == req[r].step = "body" /\ req[r].vid # 0
IdsInv ==
    /\ row.vid # 0 => ~Has(row.vid)
    /\ \A r \in LockReq : Writes(r) => ~Has(req[r].vid) /\ row.vid # req[r].vid
    /\ \A r, s \in LockReq : Writes(r) /\ Writes(s) /\ req[r].vid = req[s].vid => r = s

\* What a request is about at each of its steps.
AskedInv(r) ==
    /\ req[r].vid < nextId
    /\ req[r].step = "body" => req[r].op \in {"put", "multipart"}
    /\ req[r].op = "multipart" => req[r].versioning = "Disabled"
    /\ req[r].step = "access" => req[r].op \in {"s3", "bulk"} /\ (req[r].op = "s3" => req[r].file # 0)
    /\ req[r].step = "verify" => req[r].op \in {"s3", "bulk", "dashboard"} /\ req[r].file # 0
    /\ req[r].step = "xml" => req[r].op \in {"retention", "hold"}
    /\ req[r].step \in {"idle", "done"} => req[r].op = "idle"

LockInv ==
    /\ lockBucket \in [versioning : {"Disabled", "Enabled", "Suspended"}, on : BOOLEAN,
                       default : {"none", "GOVERNANCE", "COMPLIANCE"}]
    /\ clock \in 0..MaxTime /\ nextFile \in Nat \ {0} /\ nextId \in Nat \ {0} /\ settingsMade \in 0..MaxSettings
    /\ req \in [LockReq -> LockRequest] /\ \A r \in LockReq : AskedInv(r)
    /\ TablesInv /\ IdsInv

-----------------------------------------------------------------------------
LEMMA LockGiven == Requests \in Nat /\ MaxTime \in Nat /\ MaxSettings \in Nat
  BY ObjectLockAssumption

LEMMA LockFields ==
    /\ Free \in Lock /\ Free.mode = "none" /\ ~Free.hold
    /\ \A l \in Lock : l.mode \in {"none", "GOVERNANCE", "COMPLIANCE"} /\ l.until \in Nat /\ l.hold \in BOOLEAN
  BY DEF Free, Lock

LEMMA IdleFields ==
    /\ Idle \in LockRequest /\ Idle.op = "idle" /\ Idle.step = "idle" /\ Idle.vid = 0 /\ Idle.file = 0
    /\ Done \in LockRequest /\ Done.op = "idle" /\ Done.step = "done" /\ Done.vid = 0
    /\ Idle.versioning = "Disabled"
  BY LockFields DEF Idle, Done, LockRequest

LEMMA SaidFields ==
    ASSUME NEW op
    PROVE  /\ Said(op).op = op /\ Quiet.op = "none" /\ Said(op).versioning = "Enabled"
           /\ \A m : [Said(op) EXCEPT !.versioning = m].op = op /\ [Said(op) EXCEPT !.versioning = m].versioning = m
           /\ \A b : [Said(op) EXCEPT !.allowed = b].op = op /\ [Said(op) EXCEPT !.allowed = b].allowed = b
           /\ \A b, f : /\ [Said(op) EXCEPT !.allowed = b, !.fresh = f].op = op
                        /\ [Said(op) EXCEPT !.allowed = b, !.fresh = f].allowed = b
                        /\ [Said(op) EXCEPT !.allowed = b, !.fresh = f].fresh = f
  BY DEF Said, Quiet

-----------------------------------------------------------------------------
(***************************************************************************)
(* The versions, and the lock a file is found with.                        *)
(***************************************************************************)

LEMMA VersionsAre ==
    ASSUME NEW v
    PROVE  v \in Versions <=> \/ \E a \in archive : ~a.marker /\ v = [file |-> a.file, lock |-> a.lock]
                              \/ row.file # 0 /\ v = [file |-> row.file, lock |-> row.lock]
  BY DEF Versions, Bodies, Exists

LEMMA VersionsAreNext ==
    ASSUME NEW v
    PROVE  v \in Versions' <=> \/ \E a \in archive' : ~a.marker /\ v = [file |-> a.file, lock |-> a.lock]
                               \/ row'.file # 0 /\ v = [file |-> row'.file, lock |-> row'.lock]
  BY DEF Versions, Bodies, Exists

LEMMA VersionsApart ==
    ASSUME TablesInv, NEW v \in Versions, NEW w \in Versions, v.file = w.file
    PROVE  v = w
  BY VersionsAre DEF TablesInv, Bodies

LEMMA VersionsApartNext ==
    ASSUME TablesInv', NEW v \in Versions', NEW w \in Versions', v.file = w.file
    PROVE  v = w
  BY VersionsAreNext DEF TablesInv, Bodies

LEMMA VersionFields ==
    ASSUME TablesInv, nextFile \in Nat, NEW v \in Versions
    PROVE  v.file \in Nat /\ v.file < nextFile /\ v.lock \in Lock
  BY VersionsAre DEF TablesInv, LockRow, LockVersion

\* The lock a step leaves a file with is that of the one version of it.
LEMMA LockOfNext ==
    ASSUME TablesInv', NEW w \in Versions'
    PROVE  LockOf(w.file)' = w.lock
  <1>1. \E u \in Versions' : u.file = w.file
    OBVIOUS
  <1>2. (CHOOSE u \in Versions' : u.file = w.file) = w
    BY <1>1, VersionsApartNext
  <1>3. QED
    BY <1>2 DEF LockOf

-----------------------------------------------------------------------------
(***************************************************************************)
(* What a step promises.                                                   *)
(***************************************************************************)

KeepsLocked ==
    \A v \in Versions :
        v.file \notin FilesOf(Versions') /\ (v.lock.hold \/ RetentionActive(v.lock))
           => \/ AsksNoLock
              \/ NullClash(v.file)
              \/ via'.op = "version" /\ via'.allowed /\ ~v.lock.hold /\ v.lock.mode = "GOVERNANCE"
              \/ via'.op = "version" /\ Exists /\ row.file = v.file /\ row'.file # 0 /\ Has(row'.vid)
Travels ==
    \A v \in Versions :
        v.file \in FilesOf(Versions') /\ via'.op \notin {"retention", "hold", "version"}
           => LockOf(v.file)' = v.lock
Grows ==
    \A v \in Versions :
        via'.op \in {"retention", "hold"} /\ via'.fresh /\ v.file \in FilesOf(Versions')
           => LET new == LockOf(v.file)'
              IN  /\ RetentionActive(v.lock) /\ v.lock.mode = "COMPLIANCE"
                        => new.mode = "COMPLIANCE" /\ new.until >= v.lock.until
                  /\ RetentionActive(v.lock) /\ new.until < v.lock.until => via'.allowed
                  /\ via'.op = "retention" => new.hold = v.lock.hold
StepHolds == KeepsLocked /\ Travels /\ Grows

\* A version that a step leaves is one there was, or of a new file.
LEMMA TravelsIf ==
    ASSUME LockInv, TablesInv', \A w \in Versions' : w \in Versions \/ w.file = nextFile
    PROVE  Travels
  <1>1. ASSUME NEW v \in Versions, v.file \in FilesOf(Versions')
        PROVE  LockOf(v.file)' = v.lock
    <2>1. PICK w \in Versions' : w.file = v.file
      BY <1>1 DEF FilesOf
    <2>2. LockOf(w.file)' = w.lock
      BY LockOfNext
    <2>3. w.file # nextFile
      BY <2>1, VersionFields DEF LockInv
    <2>4. w = v
      BY <2>1, <2>3, VersionsApart DEF LockInv
    <2>5. QED
      BY <2>1, <2>2, <2>4, Zenon
  <1>2. QED
    BY <1>1 DEF Travels

\* A step that writes no table.
LEMMA QuietStep ==
    ASSUME LockInv, TablesInv', row' = row, archive' = archive, via'.op \notin {"retention", "hold"}
    PROVE  StepHolds
  <1>1. \A w : w \in Versions' <=> w \in Versions
    BY VersionsAre, VersionsAreNext
  <1>2. Travels
    BY <1>1, TravelsIf
  <1>3. KeepsLocked
    BY <1>1 DEF KeepsLocked, FilesOf
  <1>4. QED
    BY <1>2, <1>3 DEF StepHolds, Grows

\* A step that has left every version its file, except for some that it may take.
LEMMA TakingStep ==
    ASSUME LockInv, TablesInv', via'.op \notin {"retention", "hold"},
           via'.op = "version" \/ \A w \in Versions' : w \in Versions \/ w.file = nextFile,
           KeepsLocked
    PROVE  StepHolds
  <1>1. Travels
    <2>1. CASE via'.op = "version"
      BY <2>1 DEF Travels
    <2>2. CASE via'.op # "version"
      BY <2>2, TravelsIf
    <2>3. QED
      BY <2>1, <2>2
  <1>2. QED
    BY <1>1 DEF StepHolds, Grows

-----------------------------------------------------------------------------
(***************************************************************************)
(* Steps that write no table.                                              *)
(***************************************************************************)

LEMMA TablesStay ==
    ASSUME TablesInv, row' = row, archive' = archive, nextFile' = nextFile,
           nextId \in Nat, nextId' \in Nat, nextId <= nextId'
    PROVE  TablesInv'
  BY DEF TablesInv, LockRow, LockVersion, Bodies

\* Ids are given out once, whatever moves between the tables.
LEMMA IdsStay ==
    ASSUME LockInv,
           \A r \in LockReq : Writes(r)' => Writes(r) /\ req'[r].vid = req[r].vid /\ row'.vid # req[r].vid,
           \A v \in archive' : v.vid \in {0, row.vid, nextId} \/ Has(v.vid),
           row'.vid # 0 => \A v \in archive' : v.vid # row'.vid
    PROVE  IdsInv'
  <1>1. row'.vid # 0 => ~Has(row.vid)'
    BY DEF Has
  <1>2. ASSUME NEW r \in LockReq, Writes(r)'
        PROVE  ~Has(req[r].vid)' /\ row'.vid # req'[r].vid
    <2>1. Writes(r) /\ req'[r].vid = req[r].vid /\ row'.vid # req[r].vid
      BY <1>2
    <2>2. req[r].vid # 0 /\ req[r].vid < nextId /\ nextId \in Nat
      BY <2>1 DEF Writes, LockInv, AskedInv
    <2>3. ~Has(req[r].vid) /\ row.vid # req[r].vid
      BY <2>1 DEF LockInv, IdsInv
    <2>4. \A v \in archive' : v.vid # req[r].vid
      BY <2>2, <2>3
    <2>5. QED
      BY <2>1, <2>4 DEF Has
  <1>3. \A r, s \in LockReq : Writes(r)' /\ Writes(s)' /\ req'[r].vid = req'[s].vid => r = s
    BY DEF LockInv, IdsInv
  <1>4. QED
    BY <1>1, <1>2, <1>3 DEF IdsInv

LEMMA TickStep ==
    ASSUME LockInv, Tick
    PROVE  LockInv' /\ StepHolds
  <1>1. /\ clock < MaxTime /\ clock' = clock + 1 /\ via' = Quiet
        /\ UNCHANGED <<lockBucket, row, archive, req, nextFile, nextId, settingsMade>>
    BY DEF Tick
  <1>2. TablesInv'
    BY <1>1, TablesStay DEF LockInv
  <1>3. StepHolds
    BY <1>1, <1>2, SaidFields, QuietStep
  <1>4. LockInv'
    BY <1>1, <1>2, LockGiven DEF LockInv, AskedInv, IdsInv, Writes, Has
  <1>5. QED
    BY <1>3, <1>4

LEMMA ChangeStep ==
    ASSUME LockInv, NEW b, Change(b),
           b \in [versioning : {"Disabled", "Enabled", "Suspended"}, on : BOOLEAN,
                  default : {"none", "GOVERNANCE", "COMPLIANCE"}]
    PROVE  LockInv' /\ StepHolds
  <1>1. /\ settingsMade < MaxSettings /\ settingsMade' = settingsMade + 1 /\ via' = Quiet /\ lockBucket' = b
        /\ UNCHANGED <<row, archive, req, clock, nextFile, nextId>>
    BY DEF Change
  <1>2. TablesInv'
    BY <1>1, TablesStay DEF LockInv
  <1>3. StepHolds
    BY <1>1, <1>2, SaidFields, QuietStep
  <1>4. LockInv'
    BY <1>1, <1>2, LockGiven DEF LockInv, AskedInv, IdsInv, Writes, Has
  <1>5. QED
    BY <1>3, <1>4

LEMMA SettingSteps ==
    ASSUME LockInv,
           \/ \E s \in {"Enabled", "Suspended"} : PutVersioning(s)
           \/ \E m \in {"none", "GOVERNANCE", "COMPLIANCE"} : PutLockConfiguration(m)
    PROVE  LockInv' /\ StepHolds
  <1>1. ASSUME NEW s \in {"Enabled", "Suspended"}, PutVersioning(s) PROVE LockInv' /\ StepHolds
    BY <1>1, ChangeStep DEF PutVersioning, LockInv
  <1>2. ASSUME NEW m \in {"none", "GOVERNANCE", "COMPLIANCE"}, PutLockConfiguration(m) PROVE LockInv' /\ StepHolds
    BY <1>2, ChangeStep DEF PutLockConfiguration, LockInv
  <1>3. QED
    BY <1>1, <1>2

\* One request starts or goes on and nothing is written; a version id may be drawn.
LEMMA OneRequestStep ==
    ASSUME LockInv, NEW r \in LockReq, NEW q \in LockRequest, req' = [req EXCEPT ![r] = q],
           UNCHANGED <<lockBucket, row, archive, clock, nextFile, settingsMade>>, via' = Quiet,
           nextId' \in Nat, nextId <= nextId', q.vid < nextId', q.step = "body" /\ q.vid # 0 => q.vid = nextId,
           AskedInv(r)'
    PROVE  LockInv' /\ StepHolds
  <1>1. nextId \in Nat \ {0} /\ req' \in [LockReq -> LockRequest] /\ req'[r] = q
        /\ \A s \in LockReq : s # r => req'[s] = req[s]
    BY DEF LockInv
  <1>2. TablesInv'
    BY <1>1, TablesStay DEF LockInv
  <1>3. StepHolds
    BY <1>2, SaidFields, QuietStep
  <1>4. \A s \in LockReq : s # r => AskedInv(s)'
    <2>1. ASSUME NEW s \in LockReq, s # r PROVE AskedInv(s)'
      <3>1. AskedInv(s) /\ req'[s] = req[s] /\ req[s] \in LockRequest
        BY <1>1, <2>1 DEF LockInv
      <3>2. req[s].vid \in Nat
        BY <3>1 DEF LockRequest
      <3>3. req'[s].vid < nextId'
        BY <1>1, <3>1, <3>2 DEF AskedInv
      <3>4. QED
        BY <3>1, <3>3 DEF AskedInv
    <2>2. QED
      BY <2>1
  <1>5. IdsInv'
    <2>1. \A s \in LockReq : Writes(s) => req[s].vid < nextId
      BY DEF LockInv, AskedInv
    <2>2. row.vid < nextId /\ row.vid \in Nat /\ \A v \in archive : v.vid < nextId /\ v.vid \in Nat
      BY DEF LockInv, TablesInv, LockRow, LockVersion
    <2>3. \A s \in LockReq : Writes(s)' => (s # r /\ Writes(s) /\ req'[s].vid = req[s].vid)
                                           \/ (s = r /\ req'[s].vid = nextId)
      BY <1>1 DEF Writes
    <2>4. \A s \in LockReq : req[s].vid \in Nat
      BY DEF LockInv, LockRequest
    <2>5. row'.vid # 0 => ~Has(row.vid)'
      BY DEF LockInv, IdsInv, Has
    <2>6. \A s \in LockReq : Writes(s)' => ~Has(req[s].vid)' /\ row'.vid # req'[s].vid
      <3>1. ASSUME NEW s \in LockReq, Writes(s)' PROVE (\A v \in archive : v.vid # req'[s].vid) /\ row'.vid # req'[s].vid
        <4>1. CASE s = r /\ req'[s].vid = nextId
          BY <1>1, <2>2, <4>1
        <4>2. CASE s # r /\ Writes(s) /\ req'[s].vid = req[s].vid
          BY <4>2 DEF LockInv, IdsInv, Has
        <4>3. QED
          BY <2>3, <3>1, <4>1, <4>2
      <3>2. QED
        BY <3>1 DEF Has
    <2>7. \A s, t \in LockReq : Writes(s)' /\ Writes(t)' /\ req'[s].vid = req'[t].vid => s = t
      <3>1. TAKE s, t \in LockReq
      <3>2. HAVE Writes(s)' /\ Writes(t)' /\ req'[s].vid = req'[t].vid
      <3>3. CASE s # r /\ t # r
        BY <2>3, <3>2, <3>3 DEF LockInv, IdsInv
      <3>4. CASE s = r \/ t = r
        BY <1>1, <2>1, <2>3, <2>4, <3>2, <3>4
      <3>5. QED
        BY <3>3, <3>4
    <2>8. QED
      BY <2>5, <2>6, <2>7 DEF IdsInv
  <1>6. nextId' \in Nat \ {0}
    BY <1>1
  <1>7. LockInv'
    BY <1>1, <1>2, <1>4, <1>5, <1>6 DEF LockInv
  <1>8. QED
    BY <1>3, <1>7

LEMMA AskedFields ==
    ASSUME NEW asked \in Asked \cup Retentions \cup Holds
    PROVE  asked \in Lock
  <1>1. 1..(MaxTime + 1) \subseteq Nat
    BY LockGiven
  <1>2. CASE asked \in Holds
    BY <1>2 DEF Holds, Free, Lock
  <1>3. CASE asked \in Retentions
    <2>1. PICK m \in {"GOVERNANCE", "COMPLIANCE"}, u \in 1..(MaxTime + 1) :
               asked = [mode |-> m, until |-> u, hold |-> FALSE]
      BY <1>3 DEF Retentions
    <2>2. QED
      BY <1>1, <2>1 DEF Lock
  <1>4. QED
    BY <1>2, <1>3, LockFields DEF Asked

LEMMA BeginPutStep ==
    ASSUME LockInv, NEW r \in LockReq, NEW asked \in Asked, BeginPut(r, asked)
    PROVE  LockInv' /\ StepHolds
  <1> DEFINE vid == IF lockBucket.versioning = "Enabled" THEN nextId ELSE 0
             want == WriteLock(asked)
             q == [Idle EXCEPT !.op = "put", !.step = "body", !.versioning = lockBucket.versioning,
                               !.vid = vid, !.want = want]
  <1>1. /\ req' = [req EXCEPT ![r] = q] /\ via' = Quiet
        /\ UNCHANGED <<lockBucket, row, archive, clock, nextFile, settingsMade>>
        /\ nextId' = (IF lockBucket.versioning = "Enabled" THEN nextId + 1 ELSE nextId)
    BY DEF BeginPut, Starts
  <1>2. nextId \in Nat /\ nextId # 0 /\ clock \in Nat
    BY LockGiven DEF LockInv
  <1>3. nextId' \in Nat /\ nextId <= nextId' /\ vid < nextId' /\ vid \in Nat /\ (vid # 0 => vid = nextId)
    BY <1>1, <1>2
  <1>4. want \in Lock
    <2>1. asked \in Lock /\ clock + 1 \in Nat /\ lockBucket.default \in {"none", "GOVERNANCE", "COMPLIANCE"}
      BY <1>2, AskedFields DEF LockInv
    <2>2. QED
      BY <2>1, LockFields DEF WriteLock, Lock
  <1>5. lockBucket.versioning \in {"Disabled", "Enabled", "Suspended"}
    BY DEF LockInv
  <1> HIDE DEF vid, want
  <1>6. q \in LockRequest /\ q.op = "put" /\ q.step = "body" /\ q.vid = vid
    BY <1>3, <1>4, <1>5, LockFields DEF Idle, LockRequest
  <1> HIDE DEF q
  <1>7. req'[r] = q
    BY <1>1 DEF LockInv
  <1>8. AskedInv(r)'
    BY <1>3, <1>6, <1>7 DEF AskedInv
  <1>9. QED
    BY <1>1, <1>3, <1>6, <1>8, OneRequestStep

LEMMA BeginCompleteStep ==
    ASSUME LockInv, NEW r \in LockReq, BeginComplete(r)
    PROVE  LockInv' /\ StepHolds
  <1> DEFINE q == [Idle EXCEPT !.op = "multipart", !.step = "body"]
  <1>1. /\ req' = [req EXCEPT ![r] = q] /\ via' = Quiet
        /\ UNCHANGED <<lockBucket, row, archive, clock, nextFile, settingsMade, nextId>>
    BY DEF BeginComplete, Starts
  <1>2. nextId \in Nat /\ 0 < nextId
    BY DEF LockInv
  <1>3. q \in LockRequest /\ q.op = "multipart" /\ q.step = "body" /\ q.vid = 0 /\ q.versioning = "Disabled"
    BY LockFields DEF Idle, LockRequest
  <1> HIDE DEF q
  <1>4. req'[r] = q
    BY <1>1 DEF LockInv
  <1>5. AskedInv(r)'
    BY <1>1, <1>2, <1>3, <1>4 DEF AskedInv
  <1>6. QED
    <2>1. nextId' \in Nat /\ nextId <= nextId' /\ q.vid < nextId' /\ (q.step = "body" /\ q.vid # 0 => q.vid = nextId)
      BY <1>1, <1>2, <1>3
    <2>2. QED
      BY <1>1, <1>3, <1>5, <2>1, OneRequestStep

LEMMA BeginDeleteStep ==
    ASSUME LockInv, NEW r \in LockReq, NEW door \in {"s3", "bulk", "dashboard"}, NEW bypass \in BOOLEAN,
           BeginDelete(r, door, bypass)
    PROVE  LockInv' /\ StepHolds
  <1> DEFINE q == [Idle EXCEPT !.op = door, !.step = IF door = "dashboard" THEN "verify" ELSE "access",
                        !.versioning = lockBucket.versioning, !.file = IF door = "bulk" THEN 0 ELSE row.file,
                        !.seen = IF door = "s3" THEN row.lock ELSE Free, !.bypass = bypass]
  <1>1. /\ req' = [req EXCEPT ![r] = q] /\ via' = Quiet /\ row.file # 0
        /\ UNCHANGED <<lockBucket, row, archive, clock, nextFile, settingsMade, nextId>>
    BY DEF BeginDelete, Starts, Exists
  <1>2. nextId \in Nat /\ 0 < nextId
    BY DEF LockInv
  <1>3. lockBucket.versioning \in {"Disabled", "Enabled", "Suspended"} /\ row.file \in Nat /\ row.lock \in Lock
    BY DEF LockInv, TablesInv, LockRow
  <1>4. q \in LockRequest /\ q.op = door /\ q.step = (IF door = "dashboard" THEN "verify" ELSE "access") /\ q.vid = 0
        /\ q.file = (IF door = "bulk" THEN 0 ELSE row.file)
    BY <1>3, LockFields DEF Idle, LockRequest
  <1> HIDE DEF q
  <1>5. req'[r] = q
    BY <1>1 DEF LockInv
  <1>6. AskedInv(r)'
    BY <1>1, <1>2, <1>4, <1>5 DEF AskedInv
  <1>7. QED
    <2>1. nextId' \in Nat /\ nextId <= nextId' /\ q.vid < nextId' /\ (q.step = "body" /\ q.vid # 0 => q.vid = nextId)
      BY <1>1, <1>2, <1>4
    <2>2. QED
      BY <1>1, <1>4, <1>6, <2>1, OneRequestStep

LEMMA CheckDeleteStep ==
    ASSUME LockInv, NEW r \in LockReq, CheckDelete(r)
    PROVE  LockInv' /\ StepHolds
  <1> DEFINE q == req[r]
  <1>1. q.step = "access" /\ via' = Quiet
        /\ UNCHANGED <<lockBucket, row, archive, clock, nextFile, nextId, settingsMade>>
    BY DEF CheckDelete
  <1>2. nextId \in Nat /\ 0 < nextId /\ q \in LockRequest /\ AskedInv(r) /\ row.file \in Nat
    BY DEF LockInv, TablesInv, LockRow
  <1>3. PICK p : /\ req' = [req EXCEPT ![r] = p]
                 /\ \/ p = Done
                    \/ q.op = "bulk" /\ row.file # 0 /\ p = [q EXCEPT !.step = "verify", !.file = row.file]
                    \/ q.op = "s3" /\ p = [q EXCEPT !.step = "verify", !.seen = Free, !.bypass = FALSE]
    <2>1. CASE q.op = "bulk"
      <3>1. CASE row.file # 0
        BY <2>1, <3>1 DEF CheckDelete, Exists
      <3>2. CASE row.file = 0
        BY <2>1, <3>2 DEF CheckDelete, Exists
      <3>3. QED
        BY <3>1, <3>2
    <2>2. CASE q.op = "s3"
      <3>1. CASE q.versioning = "Enabled" \/ EvaluateDelete(q.seen, q.bypass)
        BY <2>2, <3>1 DEF CheckDelete
      <3>2. CASE ~(q.versioning = "Enabled" \/ EvaluateDelete(q.seen, q.bypass))
        BY <2>2, <3>2 DEF CheckDelete
      <3>3. QED
        BY <3>1, <3>2
    <2>3. QED
      BY <1>1, <1>2, <2>1, <2>2 DEF AskedInv
  <1>4. /\ p \in LockRequest /\ p.vid < nextId /\ p.step \in {"verify", "done"}
        /\ p.step = "done" => p.op = "idle"
        /\ p.step = "verify" => p.op \in {"s3", "bulk"} /\ p.file # 0
    <2>1. CASE p = Done
      BY <1>2, <2>1, IdleFields
    <2>2. CASE q.op = "bulk" /\ row.file # 0 /\ p = [q EXCEPT !.step = "verify", !.file = row.file]
      BY <1>2, <2>2 DEF LockRequest, AskedInv
    <2>3. CASE q.op = "s3" /\ p = [q EXCEPT !.step = "verify", !.seen = Free, !.bypass = FALSE]
      BY <1>1, <1>2, <2>3, LockFields DEF LockRequest, AskedInv
    <2>4. QED
      BY <1>3, <2>1, <2>2, <2>3
  <1>5. req'[r] = p
    BY <1>3 DEF LockInv
  <1>6. AskedInv(r)'
    BY <1>1, <1>2, <1>4, <1>5 DEF AskedInv
  <1>7. QED
    <2>1. nextId' \in Nat /\ nextId <= nextId' /\ p.vid < nextId' /\ (p.step = "body" /\ p.vid # 0 => p.vid = nextId)
      BY <1>1, <1>2, <1>4
    <2>2. QED
      BY <1>1, <1>3, <1>4, <1>6, <2>1, OneRequestStep

\* A version that has an id is found by it.
LEMMA NamedIs ==
    ASSUME TablesInv, NEW vid, Has(vid)
    PROVE  Named(vid) \in archive /\ Named(vid).vid = vid /\ \A v \in archive : v.vid = vid => v = Named(vid)
  <1>1. \E v \in archive : v.vid = vid
    BY DEF Has
  <1>2. Named(vid) \in archive /\ Named(vid).vid = vid
    BY <1>1 DEF Named
  <1>3. QED
    BY <1>2 DEF TablesInv

LEMMA ResolveTargetStep ==
    ASSUME LockInv, NEW r \in LockReq, NEW op \in {"retention", "hold"}, NEW vid \in Vids,
           NEW want \in Retentions \cup Holds, NEW bypass \in BOOLEAN, ResolveTarget(r, op, vid, want, bypass)
    PROVE  LockInv' /\ StepHolds
  <1>1. (row.file # 0 /\ vid = row.vid) \/ Has(vid)
    BY DEF ResolveTarget, Exists
  <1> DEFINE isCurrent == row.file # 0 /\ vid = row.vid
             file == IF isCurrent THEN row.file ELSE Named(vid).file
             seen == IF isCurrent THEN row.lock ELSE Named(vid).lock
             q == [Idle EXCEPT !.op = op, !.step = "xml", !.vid = vid, !.archived = ~isCurrent,
                          !.file = file, !.seen = seen, !.want = want, !.bypass = bypass]
  <1>2. /\ req' = [req EXCEPT ![r] = q] /\ via' = Quiet
        /\ UNCHANGED <<lockBucket, row, archive, clock, nextFile, settingsMade, nextId>>
    BY DEF ResolveTarget, Starts, Exists
  <1>3. nextId \in Nat /\ vid \in Nat /\ vid < nextId /\ want \in Lock
    BY AskedFields DEF LockInv, Vids
  <1>4. file \in Nat /\ seen \in Lock /\ (~isCurrent) \in BOOLEAN
    <2>1. CASE isCurrent
      BY <2>1 DEF LockInv, TablesInv, LockRow
    <2>2. CASE ~isCurrent
      <3>1. Named(vid) \in LockVersion
        BY <1>1, <2>2, NamedIs DEF LockInv, TablesInv
      <3>2. QED
        BY <2>2, <3>1 DEF LockVersion
    <2>3. QED
      BY <2>1, <2>2
  <1> HIDE DEF isCurrent, file, seen
  <1>5. q \in LockRequest /\ q.op = op /\ q.step = "xml" /\ q.vid = vid
    BY <1>3, <1>4 DEF Idle, LockRequest
  <1> HIDE DEF q
  <1>6. req'[r] = q
    BY <1>2 DEF LockInv
  <1>7. AskedInv(r)'
    BY <1>2, <1>3, <1>5, <1>6 DEF AskedInv
  <1>8. QED
    <2>1. nextId' \in Nat /\ nextId <= nextId' /\ q.vid < nextId' /\ (q.step = "body" /\ q.vid # 0 => q.vid = nextId)
      BY <1>2, <1>3, <1>5
    <2>2. QED
      BY <1>2, <1>5, <1>7, <2>1, OneRequestStep

-----------------------------------------------------------------------------
(***************************************************************************)
(* Writes and deletes of the key.                                          *)
(***************************************************************************)

\* A file that a step loses is of no version after it.
LEMMA LostFile ==
    ASSUME NEW v \in Versions, v.file \notin FilesOf(Versions')
    PROVE  /\ \A a \in archive' : ~a.marker => a.file # v.file
           /\ row'.file # 0 => row'.file # v.file
  <1>1. \A w \in Versions' : w.file # v.file
    BY DEF FilesOf
  <1>2. ASSUME NEW a \in archive', ~a.marker PROVE a.file # v.file
    <2> DEFINE w == [file |-> a.file, lock |-> a.lock]
    <2>1. w \in Versions'
      BY <1>2, VersionsAreNext
    <2>2. w.file = a.file
      OBVIOUS
    <2>3. QED
      BY <1>1, <2>1, <2>2
  <1>3. ASSUME row'.file # 0 PROVE row'.file # v.file
    <2> DEFINE w == [file |-> row'.file, lock |-> row'.lock]
    <2>1. w \in Versions'
      BY <1>3, VersionsAreNext
    <2>2. w.file = row'.file
      OBVIOUS
    <2>3. QED
      BY <1>1, <2>1, <2>2
  <1>4. QED
    BY <1>2, <1>3

\* The row as it is archived.
LEMMA ArchivedFields ==
    ASSUME LockInv, row.file # 0
    PROVE  /\ Archived(row) \in LockVersion /\ ~Archived(row).marker /\ Archived(row).file = row.file
           /\ Archived(row).vid = row.vid /\ Archived(row).lock = row.lock
           /\ row.file \in 1..(nextFile - 1) /\ row.vid < nextId
  BY DEF LockInv, TablesInv, LockRow, LockVersion, Archived

\* With the row archived, files and ids are still of one version each.
LEMMA ArchiveIsRight ==
    ASSUME LockInv, row.file # 0, NEW kept, kept = archive \/ kept = Archive(row)
    PROVE  /\ archive \subseteq kept /\ kept \subseteq LockVersion
           /\ \A v \in kept : /\ v.vid < nextId /\ (~v.marker => v.file \in 1..(nextFile - 1))
                              /\ v.vid = row.vid \/ Has(v.vid)
                              /\ v \in archive \/ v = Archived(row)
           /\ \A v, w \in kept : v.vid = w.vid => v = w
           /\ \A v, w \in Bodies(kept) : v.file = w.file => v = w
  <1>1. archive \subseteq LockVersion
        /\ \A v \in archive : /\ v.vid < nextId /\ (~v.marker => v.file \in 1..(nextFile - 1) /\ v.file # row.file)
                              /\ Has(v.vid)
    BY DEF LockInv, TablesInv, Has
  <1>2. \A v, w \in archive : v.vid = w.vid => v = w
    BY DEF LockInv, TablesInv
  <1>3. \A v, w \in Bodies(archive) : v.file = w.file => v = w
    BY DEF LockInv, TablesInv
  <1>4. CASE kept = archive
    BY <1>1, <1>2, <1>3, <1>4
  <1>5. CASE kept = archive \cup {Archived(row)} /\ ~Has(row.vid)
    <2>1. \A v \in archive : v.vid # row.vid
      BY <1>5 DEF Has
    <2>2. \A v, w \in kept : v.vid = w.vid => v = w
      BY <1>2, <1>5, <2>1, ArchivedFields
    <2>3. \A v, w \in Bodies(kept) : v.file = w.file => v = w
      BY <1>1, <1>3, <1>5, ArchivedFields DEF Bodies
    <2>4. QED
      BY <1>1, <1>5, <2>2, <2>3, ArchivedFields
  <1>6. QED
    BY <1>4, <1>5 DEF Archive

LEMMA RequestEnds ==
    ASSUME LockInv, NEW r \in LockReq, Ended(r), nextId' \in Nat, nextId <= nextId'
    PROVE  /\ req' \in [LockReq -> LockRequest] /\ \A s \in LockReq : AskedInv(s)'
           /\ \A s \in LockReq : Writes(s)' => s # r /\ Writes(s) /\ req'[s].vid = req[s].vid
  <1>1. req' \in [LockReq -> LockRequest] /\ req'[r] = Done /\ \A s \in LockReq : s # r => req'[s] = req[s]
    BY IdleFields DEF LockInv, Ended
  <1>2. nextId \in Nat /\ 0 < nextId
    BY DEF LockInv
  <1>3. ASSUME NEW s \in LockReq PROVE AskedInv(s)'
    <2>1. CASE s = r
      BY <1>1, <1>2, <2>1, IdleFields DEF AskedInv, Idle, Done
    <2>2. CASE s # r
      <3>1. AskedInv(s) /\ req'[s] = req[s] /\ req[s].vid \in Nat
        BY <1>1, <2>2 DEF LockInv, LockRequest
      <3>2. req'[s].vid < nextId'
        BY <1>2, <3>1 DEF AskedInv
      <3>3. QED
        BY <3>1, <3>2 DEF AskedInv
    <2>3. QED
      BY <2>1, <2>2
  <1>4. \A s \in LockReq : Writes(s)' => s # r /\ Writes(s) /\ req'[s].vid = req[s].vid
    BY <1>1, IdleFields DEF Writes
  <1>5. QED
    BY <1>1, <1>3, <1>4

LEMMA CommitPutStep ==
    ASSUME LockInv, NEW r \in LockReq, CommitPut(r)
    PROVE  LockInv' /\ StepHolds
  <1> DEFINE q == req[r]
             keeps == row.file # 0 /\ Retains(q.versioning, row)
  <1>1. /\ q.step = "body" /\ archive' = (IF keeps THEN Archive(row) ELSE archive)
        /\ row' = [file |-> nextFile, vid |-> q.vid, lock |-> q.want] /\ nextFile' = nextFile + 1 /\ Ended(r)
        /\ via' = [Said(q.op) EXCEPT !.versioning = q.versioning]
        /\ UNCHANGED <<lockBucket, clock, nextId, settingsMade>>
    BY DEF CommitPut, Exists
  <1>2. /\ nextFile \in Nat /\ nextFile # 0 /\ nextId \in Nat /\ q \in LockRequest /\ q.vid \in Nat /\ q.want \in Lock
        /\ q.vid < nextId /\ q.op \in {"put", "multipart"} /\ (q.op = "multipart" => q.versioning = "Disabled")
    BY <1>1 DEF LockInv, AskedInv, LockRequest
  <1>3. row' \in LockRow /\ row'.file = nextFile /\ row'.vid = q.vid /\ row'.lock = q.want
    BY <1>1, <1>2 DEF LockRow
  <1>4. /\ archive \subseteq archive' /\ archive' \subseteq LockVersion
        /\ \A v \in archive' : /\ v.vid < nextId /\ (~v.marker => v.file \in 1..(nextFile - 1))
                               /\ v.vid = row.vid \/ Has(v.vid)
                               /\ v \in archive \/ (row.file # 0 /\ v = Archived(row))
        /\ \A v, w \in archive' : v.vid = w.vid => v = w
        /\ \A v, w \in Bodies(archive') : v.file = w.file => v = w
    <2>1. CASE row.file # 0
      BY <1>1, <2>1, ArchiveIsRight
    <2>2. CASE row.file = 0
      BY <1>1, <2>2 DEF LockInv, TablesInv, Has
    <2>3. QED
      BY <2>1, <2>2
  <1>5. TablesInv'
    <2>1. ASSUME NEW v \in archive', ~v.marker PROVE v.file \in 1..(nextFile' - 1) /\ v.file # row'.file
      BY <1>1, <1>2, <1>3, <1>4, <2>1
    <2>2. row'.file < nextFile' /\ row'.vid < nextId'
      BY <1>1, <1>2, <1>3
    <2>3. QED
      BY <1>1, <1>3, <1>4, <2>1, <2>2 DEF TablesInv, Bodies
  <1>6. /\ req' \in [LockReq -> LockRequest] /\ \A s \in LockReq : AskedInv(s)'
        /\ \A s \in LockReq : Writes(s)' => s # r /\ Writes(s) /\ req'[s].vid = req[s].vid
    BY <1>1, <1>2, RequestEnds
  <1>7. q.vid # 0 => Writes(r)
    BY <1>1 DEF Writes
  <1>8. IdsInv'
    <2>1. \A s \in LockReq : Writes(s)' => row'.vid # req[s].vid
      BY <1>3, <1>6, <1>7 DEF LockInv, IdsInv, Writes
    <2>2. row'.vid # 0 => \A v \in archive' : v.vid # row'.vid
      BY <1>3, <1>4, <1>7 DEF LockInv, IdsInv
    <2>3. QED
      BY <1>4, <1>6, <2>1, <2>2, IdsStay
  <1>9. LockInv'
    BY <1>1, <1>2, <1>5, <1>6, <1>8 DEF LockInv
  <1>10. via'.op = q.op /\ via'.versioning = q.versioning
    BY <1>1, SaidFields
  <1>11. KeepsLocked
    <2>1. ASSUME NEW v \in Versions, v.file \notin FilesOf(Versions')
          PROVE  AsksNoLock \/ NullClash(v.file)
      <3>1. \A a \in archive' : ~a.marker => a.file # v.file
        BY <2>1, LostFile
      <3>2. row.file # 0 /\ v.file = row.file
        BY <1>4, <3>1, VersionsAre
      <3>3. CASE q.versioning # "Enabled"
        BY <1>2, <1>10, <3>3 DEF AsksNoLock
      <3>4. CASE q.versioning = "Enabled"
        <4>1. q.op = "put" /\ archive' = Archive(row)
          BY <1>1, <1>2, <3>2, <3>4 DEF Retains
        <4>2. Has(row.vid)
          BY <3>1, <3>2, <4>1, ArchivedFields DEF Archive
        <4>3. row.vid = 0
          BY <4>2 DEF LockInv, IdsInv
        <4>4. QED
          BY <1>10, <3>2, <4>1, <4>2, <4>3 DEF NullClash
      <3>5. QED
        BY <3>3, <3>4
    <2>2. QED
      BY <2>1 DEF KeepsLocked
  <1>12. \A w \in Versions' : w \in Versions \/ w.file = nextFile
    <2>1. TAKE w \in Versions'
    <2>2. CASE row'.file # 0 /\ w = [file |-> row'.file, lock |-> row'.lock]
      BY <1>3, <2>2
    <2>3. ASSUME NEW a \in archive', ~a.marker, w = [file |-> a.file, lock |-> a.lock]
          PROVE  w \in Versions
      <3>1. CASE a \in archive
        BY <2>3, <3>1, VersionsAre
      <3>2. CASE row.file # 0 /\ a = Archived(row)
        BY <2>3, <3>2, ArchivedFields, VersionsAre
      <3>3. QED
        BY <1>4, <3>1, <3>2
    <2>4. QED
      BY <2>2, <2>3, VersionsAreNext
  <1>13. StepHolds
    BY <1>2, <1>5, <1>10, <1>11, <1>12, TakingStep
  <1>14. QED
    BY <1>9, <1>13

LEMMA FinishDeleteStep ==
    ASSUME LockInv, NEW r \in LockReq, FinishDelete(r)
    PROVE  LockInv' /\ StepHolds
  <1> DEFINE q == req[r]
             mark == IF q.versioning = "Enabled" THEN nextId ELSE 0
             kept == IF Retains(q.versioning, row) THEN Archive(row) ELSE archive
  <1>1. q.step = "verify" /\ Ended(r) /\ UNCHANGED <<lockBucket, clock, nextFile, settingsMade>>
    BY DEF FinishDelete
  <1>2. /\ nextFile \in Nat /\ nextFile # 0 /\ nextId \in Nat /\ nextId # 0 /\ q \in LockRequest
        /\ q.op \in {"s3", "bulk", "dashboard"} /\ q.file # 0
    BY <1>1 DEF LockInv, AskedInv
  <1>3. CASE row.file # q.file
    <2>1. via' = Quiet /\ row' = row /\ archive' = archive /\ nextId' = nextId
      BY <1>3 DEF FinishDelete
    <2>2. TablesInv'
      BY <1>1, <1>2, <2>1, TablesStay DEF LockInv
    <2>3. StepHolds
      BY <2>1, <2>2, SaidFields, QuietStep
    <2>4. /\ req' \in [LockReq -> LockRequest] /\ \A s \in LockReq : AskedInv(s)'
          /\ \A s \in LockReq : Writes(s)' => Writes(s) /\ req'[s].vid = req[s].vid
      BY <1>1, <1>2, <2>1, RequestEnds
    <2>5. IdsInv'
      BY <2>1, <2>4 DEF LockInv, IdsInv, Has
    <2>6. QED
      BY <1>1, <2>1, <2>2, <2>3, <2>4, <2>5 DEF LockInv
  <1>4. CASE row.file = q.file
    <2>1. /\ row' = NoRow /\ nextId' = (IF q.versioning = "Enabled" THEN nextId + 1 ELSE nextId)
          /\ via' = [Said(q.op) EXCEPT !.versioning = q.versioning]
          /\ archive' = (IF q.versioning = "Disabled" THEN archive
                         ELSE (IF mark = 0 THEN Without(kept, 0) ELSE kept) \cup {Marker(mark)})
      BY <1>4 DEF FinishDelete
    <2>2. row.file # 0 /\ nextId' \in Nat \ {0} /\ nextId <= nextId'
      BY <1>2, <1>4, <2>1
    <2>3. /\ archive \subseteq kept /\ kept \subseteq LockVersion
          /\ \A v \in kept : /\ v.vid < nextId /\ (~v.marker => v.file \in 1..(nextFile - 1))
                             /\ v.vid = row.vid \/ Has(v.vid)
                             /\ v \in archive \/ v = Archived(row)
          /\ \A v, w \in kept : v.vid = w.vid => v = w
          /\ \A v, w \in Bodies(kept) : v.file = w.file => v = w
      <3>1. kept = archive \/ kept = Archive(row)
        OBVIOUS
      <3> HIDE DEF kept
      <3>2. QED
        BY <2>2, <3>1, ArchiveIsRight
    <2>4. /\ Marker(mark).vid = mark /\ Marker(mark).marker /\ Marker(mark) \in LockVersion /\ mark < nextId'
          /\ (q.versioning = "Enabled" => mark = nextId) /\ (q.versioning # "Enabled" => mark = 0)
      BY <1>2, <2>1, LockFields DEF Marker, LockVersion
    <2> HIDE DEF mark
    <2>5. \A v \in archive' : v = Marker(mark) \/ v \in kept
      BY <2>1, <2>3 DEF Without
    <2>6. \A v, w \in archive' : v.vid = w.vid => v = w
      <3>1. CASE q.versioning = "Disabled"
        BY <2>1, <3>1 DEF LockInv, TablesInv
      <3>2. CASE q.versioning = "Enabled"
        <4>1. archive' = kept \cup {Marker(mark)} /\ mark = nextId
          BY <1>2, <2>1, <2>4, <3>2
        <4>2. \A v \in kept : v.vid # mark
          BY <1>2, <2>3, <4>1 DEF LockVersion
        <4> HIDE DEF kept
        <4>3. QED
          BY <2>3, <2>4, <4>1, <4>2
      <3>3. CASE q.versioning \notin {"Disabled", "Enabled"}
        <4>1. archive' = Without(kept, 0) \cup {Marker(mark)} /\ mark = 0
          BY <2>1, <2>4, <3>3
        <4> HIDE DEF kept
        <4>2. QED
          BY <2>3, <2>4, <4>1 DEF Without
      <3>4. QED
        BY <3>1, <3>2, <3>3
    <2> HIDE DEF kept
    <2>7. NoRow.file = 0 /\ NoRow.vid = 0 /\ NoRow \in LockRow
      BY LockFields DEF NoRow, LockRow
    <2>8. TablesInv'
      <3>1. archive' \subseteq LockVersion
        BY <2>3, <2>4, <2>5
      <3>2. ASSUME NEW v \in archive'
            PROVE  v.vid < nextId' /\ (~v.marker => v.file \in 1..(nextFile' - 1) /\ v.file # row'.file)
        <4>1. CASE v = Marker(mark)
          BY <2>4, <4>1
        <4>2. CASE v \in kept
          <5>1. v.vid \in Nat /\ v.vid < nextId /\ (~v.marker => v.file \in 1..(nextFile - 1))
            BY <2>3, <4>2 DEF LockVersion
          <5>2. QED
            BY <1>1, <1>2, <2>1, <2>2, <2>7, <5>1
        <4>3. QED
          BY <2>5, <4>1, <4>2
      <3>3. \A v, w \in Bodies(archive') : v.file = w.file => v = w
        BY <2>3, <2>4, <2>5 DEF Bodies
      <3>4. row'.file < nextFile' /\ row'.vid < nextId'
        BY <1>1, <1>2, <2>1, <2>2, <2>7
      <3>5. QED
        BY <2>1, <2>6, <2>7, <3>1, <3>2, <3>3, <3>4 DEF TablesInv, Bodies
    <2>9. /\ req' \in [LockReq -> LockRequest] /\ \A s \in LockReq : AskedInv(s)'
          /\ \A s \in LockReq : Writes(s)' => Writes(s) /\ req'[s].vid = req[s].vid
      BY <1>1, <2>2, RequestEnds
    <2>10. IdsInv'
      <3>1. row'.vid = 0
        BY <2>1, <2>7
      <3>2. \A v \in archive' : v.vid \in {0, row.vid, nextId} \/ Has(v.vid)
        BY <2>3, <2>4, <2>5
      <3>3. \A s \in LockReq : Writes(s)' => row'.vid # req[s].vid
        BY <2>9, <3>1 DEF Writes
      <3>4. QED
        BY <2>9, <3>1, <3>2, <3>3, IdsStay
    <2>11. LockInv'
      BY <1>1, <2>2, <2>8, <2>9, <2>10 DEF LockInv
    <2>12. via'.op = q.op /\ via'.versioning = q.versioning
      BY <2>1, SaidFields
    <2>13. KeepsLocked
      <3>1. ASSUME NEW v \in Versions, v.file \notin FilesOf(Versions')
            PROVE  AsksNoLock \/ NullClash(v.file)
        <4>1. \A a \in archive' : ~a.marker => a.file # v.file
          BY <3>1, LostFile
        <4>2. CASE q.versioning # "Enabled"
          BY <1>2, <2>12, <4>2 DEF AsksNoLock
        <4>3. CASE q.versioning = "Enabled"
          <5>1. kept \subseteq archive'
            BY <1>2, <2>1, <2>4, <4>3
          <5>2. v.file = row.file
            BY <2>3, <4>1, <5>1, VersionsAre
          <5>3. kept = Archive(row)
            BY <4>3 DEF Retains, kept
          <5>4. Has(row.vid)
            BY <2>2, <4>1, <5>1, <5>2, <5>3, ArchivedFields DEF Archive
          <5>5. row.vid = 0
            BY <5>4 DEF LockInv, IdsInv
          <5>6. QED
            BY <1>2, <2>12, <5>2, <5>4, <5>5 DEF NullClash
        <4>4. QED
          BY <4>2, <4>3
      <3>2. QED
        BY <3>1 DEF KeepsLocked
    <2>14. \A w \in Versions' : w \in Versions
      <3>1. TAKE w \in Versions'
      <3>2. PICK a \in archive' : ~a.marker /\ w = [file |-> a.file, lock |-> a.lock]
        BY <2>1, <2>7, VersionsAreNext
      <3>3. a \in archive \/ a = Archived(row)
        BY <2>3, <2>4, <2>5, <3>2
      <3>4. CASE a \in archive
        BY <3>2, <3>4, VersionsAre
      <3>5. CASE a = Archived(row)
        BY <2>2, <3>2, <3>5, ArchivedFields, VersionsAre
      <3>6. QED
        BY <3>3, <3>4, <3>5
    <2>15. StepHolds
      BY <1>2, <2>8, <2>12, <2>13, <2>14, TakingStep
    <2>16. QED
      BY <2>11, <2>15
  <1>5. QED
    BY <1>3, <1>4

-----------------------------------------------------------------------------
(***************************************************************************)
(* Versions deleted, pruned and promoted.                                  *)
(***************************************************************************)

\* The newest of the versions that are not markers is one of them.
LEMMA NewestIs ==
    ASSUME LockInv, NEW vs \in SUBSET archive, Bodies(vs) # {}
    PROVE  NewestOf(Bodies(vs)) \in Bodies(vs)
  <1> DEFINE bodies == Bodies(vs)
  <1>1. nextId \in Nat /\ \A v \in bodies : v.vid \in Nat /\ v.vid < nextId
    BY DEF LockInv, TablesInv, LockVersion, Bodies
  <1> HIDE DEF bodies
  <1> DEFINE Distances == {n \in Nat : \E v \in bodies : n = nextId - v.vid}
             Smaller == OpToRel(<, Nat)
  <1>2. Distances # {}
    <2>1. PICK v \in bodies : TRUE
      BY DEF bodies
    <2>2. nextId - v.vid \in Nat
      BY <1>1
    <2>3. QED
      BY <2>2
  <1>3. IsWellFoundedOn(Smaller, Nat)
    BY NatLessThanWellFounded
  <1>4. PICK n \in Distances : \A m \in Distances : <<m, n>> \notin Smaller
    BY <1>2, <1>3, WFMin
  <1>5. \A m \in Distances : n <= m
    <2>1. \A m \in Distances : m < n => <<m, n>> \in Smaller
      BY DEF OpToRel
    <2>2. \A m \in Distances : ~(m < n)
      BY <1>4, <2>1, Zenon
    <2>3. QED
      BY <2>2
  <1>6. PICK v \in bodies : n = nextId - v.vid
    OBVIOUS
  <1>7. \A w \in bodies : w.vid <= v.vid
    <2>1. ASSUME NEW w \in bodies PROVE w.vid <= v.vid
      <3>1. nextId - w.vid \in Distances
        BY <1>1
      <3>2. n <= nextId - w.vid
        BY <1>5, <3>1
      <3>3. QED
        BY <1>1, <1>6, <3>2
    <2>2. QED
      BY <2>1
  <1>8. NewestOf(bodies) \in bodies
    BY <1>6, <1>7 DEF NewestOf
  <1>9. QED
    BY <1>8 DEF bodies

\* What a step leaves of the tables that only takes rows from the archive,
\* and puts one of them in the row or leaves it.
LEMMA FewerRows ==
    ASSUME LockInv, row' \in LockRow, archive' \subseteq archive,
           \/ row'.file = row.file /\ row'.vid = row.vid
           \/ row'.file = 0 /\ row'.vid = 0
           \/ \E n \in archive \ archive' : ~n.marker /\ row'.file = n.file /\ row'.vid = n.vid,
           UNCHANGED <<lockBucket, req, clock, nextFile, nextId, settingsMade>>
    PROVE  LockInv'
  <1>1. /\ nextFile \in Nat /\ nextFile # 0 /\ nextId \in Nat /\ nextId # 0 /\ row \in LockRow /\ row.file < nextFile
        /\ row.vid < nextId
        /\ \A v \in archive : /\ v \in LockVersion /\ v.vid < nextId
                              /\ ~v.marker => v.file \in 1..(nextFile - 1) /\ v.file # row.file
        /\ \A v, w \in archive : v.vid = w.vid => v = w
        /\ \A v, w \in Bodies(archive) : v.file = w.file => v = w
    BY DEF LockInv, TablesInv
  <1>2. row'.file < nextFile /\ row'.vid < nextId
    BY <1>1
  <1>3. \A v \in archive' : ~v.marker => v.file # row'.file
    BY <1>1 DEF Bodies
  <1>4. TablesInv'
    BY <1>1, <1>2, <1>3 DEF TablesInv, Bodies
  <1>5. row'.vid # 0 => \A v \in archive' : v.vid # row'.vid
    BY <1>1 DEF LockInv, IdsInv, Has
  <1>6. \A s \in LockReq : Writes(s)' => row'.vid # req[s].vid
    BY DEF LockInv, IdsInv, Has, Writes
  <1>7. IdsInv'
    BY <1>5, <1>6, IdsStay DEF Has, Writes
  <1>8. QED
    BY <1>4, <1>7 DEF LockInv, AskedInv

\* What a promotion out of some of the archive leaves.
LEMMA PromotionIs ==
    ASSUME LockInv, NEW vs \in SUBSET archive, NEW o \in LockRow, row' = Promoted(vs, o), archive' = LeftOver(vs)
    PROVE  /\ row' \in LockRow /\ archive' \subseteq vs
           /\ \/ row' = o /\ archive' = vs
              \/ \E n \in vs \ archive' : /\ ~n.marker /\ row'.file = n.file /\ row'.vid = n.vid
                                          /\ \A v \in vs : v \in archive' \/ v = n
  <1>1. CASE Bodies(vs) = {}
    BY <1>1 DEF Promoted, LeftOver
  <1>2. CASE Bodies(vs) # {}
    <2>1. PICK n : n = NewestOf(Bodies(vs)) /\ n \in Bodies(vs)
      BY <1>2, NewestIs
    <2>2. row' = [file |-> n.file, vid |-> n.vid, lock |-> o.lock] /\ archive' = {v \in vs : v.vid # n.vid}
      BY <1>2, <2>1 DEF Promoted, LeftOver, Without
    <2>3. n \in vs /\ ~n.marker /\ n \in LockVersion
      BY <2>1 DEF Bodies, LockInv, TablesInv
    <2>4. row' \in LockRow /\ row'.file = n.file /\ row'.vid = n.vid
      BY <2>2, <2>3 DEF LockRow, LockVersion
    <2>5. \A v \in vs : v \in archive' \/ v = n
      BY <2>2, <2>3 DEF LockInv, TablesInv
    <2>6. QED
      BY <2>2, <2>3, <2>4, <2>5
  <1>3. QED
    BY <1>1, <1>2

LEMMA DeleteCurrentVersionStep ==
    ASSUME LockInv, NEW vid \in Vids, NEW bypass \in BOOLEAN, DeleteCurrentVersion(vid, bypass)
    PROVE  LockInv' /\ StepHolds
  <1>1. /\ row.file # 0 /\ EvaluateDelete(row.lock, bypass) /\ row' = Promoted(archive, NoRow)
        /\ archive' = LeftOver(archive) /\ via' = [Said("version") EXCEPT !.allowed = bypass]
        /\ UNCHANGED <<lockBucket, req, clock, nextFile, nextId, settingsMade>>
    BY DEF DeleteCurrentVersion, Deletes, Exists
  <1>2. NoRow \in LockRow /\ NoRow.file = 0 /\ NoRow.vid = 0
    BY LockFields DEF NoRow, LockRow
  <1>3. /\ row' \in LockRow /\ archive' \subseteq archive
        /\ \/ row' = NoRow /\ archive' = archive
           \/ \E n \in archive \ archive' : /\ ~n.marker /\ row'.file = n.file /\ row'.vid = n.vid
                                            /\ \A v \in archive : v \in archive' \/ v = n
    BY <1>1, <1>2, PromotionIs
  <1>4. LockInv'
    BY <1>1, <1>2, <1>3, FewerRows
  <1>5. via'.op = "version" /\ via'.allowed = bypass
    BY <1>1, SaidFields
  <1>6. KeepsLocked
    <2>1. ASSUME NEW v \in Versions, v.file \notin FilesOf(Versions'), v.lock.hold \/ RetentionActive(v.lock)
          PROVE  via'.op = "version" /\ via'.allowed /\ ~v.lock.hold /\ v.lock.mode = "GOVERNANCE"
      <3>1. /\ \A a \in archive' : ~a.marker => a.file # v.file
            /\ row'.file # 0 => row'.file # v.file
        BY <2>1, LostFile
      <3>2. v = [file |-> row.file, lock |-> row.lock]
        <4>1. ASSUME NEW a \in archive, ~a.marker, v = [file |-> a.file, lock |-> a.lock] PROVE FALSE
          <5>1. a.file # 0 /\ v.file = a.file
            BY <4>1 DEF LockInv, TablesInv
          <5>2. QED
            BY <1>3, <3>1, <4>1, <5>1
        <4>2. QED
          BY <4>1, VersionsAre
      <3>3. v.lock = row.lock
        BY <3>2
      <3>4. QED
        BY <1>1, <1>5, <2>1, <3>3 DEF EvaluateDelete
    <2>2. QED
      BY <2>1 DEF KeepsLocked
  <1>7. StepHolds
    BY <1>4, <1>5, <1>6, TakingStep DEF LockInv
  <1>8. QED
    BY <1>4, <1>7

LEMMA DeleteArchivedVersionStep ==
    ASSUME LockInv, NEW vid \in Vids, NEW bypass \in BOOLEAN, DeleteArchivedVersion(vid, bypass)
    PROVE  LockInv' /\ StepHolds
  <1> DEFINE left == Without(archive, vid)
             gone == Named(vid)
  <1>1. /\ Has(vid) /\ EvaluateDelete(gone.lock, bypass)
        /\ row' = (IF gone.marker THEN Promoted(left, row) ELSE row)
        /\ archive' = (IF gone.marker THEN LeftOver(left) ELSE left)
        /\ via' = [Said("version") EXCEPT !.allowed = bypass]
        /\ UNCHANGED <<lockBucket, req, clock, nextFile, nextId, settingsMade>>
    BY DEF DeleteArchivedVersion, Deletes
  <1>2. gone \in archive /\ gone.vid = vid /\ \A v \in archive : v.vid = vid => v = gone
    BY <1>1, NamedIs DEF LockInv
  <1> HIDE DEF gone
  <1>3. left \subseteq archive /\ \A v \in archive : v \in left \/ v = gone
    BY <1>2 DEF Without
  <1> HIDE DEF left
  <1>4. row \in LockRow
    BY DEF LockInv, TablesInv
  <1>5. /\ row' \in LockRow /\ archive' \subseteq left
        /\ \/ row' = row /\ archive' = left
           \/ gone.marker /\ \E n \in left \ archive' : /\ ~n.marker /\ row'.file = n.file /\ row'.vid = n.vid
                                                        /\ \A v \in left : v \in archive' \/ v = n
    <2>1. CASE gone.marker
      BY <1>1, <1>3, <1>4, <2>1, PromotionIs
    <2>2. CASE ~gone.marker
      BY <1>1, <1>4, <2>2
    <2>3. QED
      BY <2>1, <2>2
  <1>6. LockInv'
    BY <1>1, <1>3, <1>5, FewerRows
  <1>7. via'.op = "version" /\ via'.allowed = bypass
    BY <1>1, SaidFields
  <1>8. KeepsLocked
    <2>1. ASSUME NEW v \in Versions, v.file \notin FilesOf(Versions'), v.lock.hold \/ RetentionActive(v.lock)
          PROVE  \/ via'.op = "version" /\ via'.allowed /\ ~v.lock.hold /\ v.lock.mode = "GOVERNANCE"
                 \/ via'.op = "version" /\ Exists /\ row.file = v.file /\ row'.file # 0 /\ Has(row'.vid)
      <3>1. /\ \A a \in archive' : ~a.marker => a.file # v.file
            /\ row'.file # 0 => row'.file # v.file
        BY <2>1, LostFile
      <3>2. CASE row.file # 0 /\ v = [file |-> row.file, lock |-> row.lock]
        <4>1. v.file = row.file
          BY <3>2
        <4>2. PICK n \in left : row'.file = n.file /\ row'.vid = n.vid /\ ~n.marker
          BY <1>5, <3>1, <3>2, <4>1
        <4>3. row'.file # 0 /\ Has(row'.vid)
          BY <1>3, <4>2 DEF LockInv, TablesInv, Has
        <4>4. QED
          BY <1>7, <3>2, <4>1, <4>3 DEF Exists
      <3>3. ASSUME NEW a \in archive, ~a.marker, v = [file |-> a.file, lock |-> a.lock]
            PROVE  via'.op = "version" /\ via'.allowed /\ ~v.lock.hold /\ v.lock.mode = "GOVERNANCE"
        <4>1. a.file # 0 /\ v.file = a.file /\ v.lock = a.lock
          BY <3>3 DEF LockInv, TablesInv
        <4>2. a = gone
          BY <1>3, <1>5, <3>1, <3>3, <4>1
        <4>3. QED
          BY <1>1, <1>7, <2>1, <4>1, <4>2 DEF EvaluateDelete
      <3>4. QED
        BY <3>2, <3>3, VersionsAre
    <2>2. QED
      BY <2>1 DEF KeepsLocked
  <1>9. StepHolds
    BY <1>6, <1>7, <1>8, TakingStep DEF LockInv
  <1>10. QED
    BY <1>6, <1>9

LEMMA DashboardDeleteVersionStep ==
    ASSUME LockInv, NEW vid \in Vids, DashboardDeleteVersion(vid)
    PROVE  LockInv' /\ StepHolds
  <1>1. /\ archive' = Without(archive, vid) /\ via' = Said("dashboardVersion")
        /\ UNCHANGED <<lockBucket, row, req, clock, nextFile, nextId, settingsMade>>
    BY DEF DashboardDeleteVersion
  <1>2. archive' \subseteq archive /\ row \in LockRow
    BY <1>1 DEF Without, LockInv, TablesInv
  <1>3. LockInv'
    BY <1>1, <1>2, FewerRows
  <1>4. via'.op = "dashboardVersion"
    BY <1>1, SaidFields
  <1>5. KeepsLocked
    BY <1>4 DEF KeepsLocked, AsksNoLock
  <1>6. \A w \in Versions' : w \in Versions
    BY <1>1, <1>2, VersionsAre, VersionsAreNext
  <1>7. StepHolds
    BY <1>3, <1>4, <1>5, <1>6, TakingStep DEF LockInv
  <1>8. QED
    BY <1>3, <1>7

LEMMA PruneVersionsStep ==
    ASSUME LockInv, PruneVersions
    PROVE  LockInv' /\ StepHolds
  <1>1. /\ archive' = {v \in archive : ~Prunable(v)} /\ via' = Said("prune")
        /\ UNCHANGED <<lockBucket, row, req, clock, nextFile, nextId, settingsMade>>
    BY DEF PruneVersions
  <1>2. archive' \subseteq archive /\ row \in LockRow
    BY <1>1 DEF LockInv, TablesInv
  <1>3. LockInv'
    BY <1>1, <1>2, FewerRows
  <1>4. via'.op = "prune"
    BY <1>1, SaidFields
  <1>5. KeepsLocked
    <2>1. ASSUME NEW v \in Versions, v.file \notin FilesOf(Versions'), v.lock.hold \/ RetentionActive(v.lock)
          PROVE  FALSE
      <3>1. \A a \in archive' : ~a.marker => a.file # v.file
        BY <2>1, LostFile
      <3>2. row.file # 0 => row.file # v.file
        BY <1>1, <2>1, LostFile
      <3>3. PICK a \in archive : ~a.marker /\ v = [file |-> a.file, lock |-> a.lock]
        BY <3>2, VersionsAre
      <3>4. Prunable(a) /\ v.lock = a.lock
        BY <1>1, <3>1, <3>3
      <3>5. clock \in Nat /\ a.lock \in Lock
        BY LockGiven DEF LockInv, TablesInv, LockVersion
      <3>6. QED
        BY <2>1, <3>4, <3>5, LockFields DEF Prunable, RetentionActive
    <2>2. QED
      BY <2>1 DEF KeepsLocked
  <1>6. \A w \in Versions' : w \in Versions
    BY <1>1, <1>2, VersionsAre, VersionsAreNext
  <1>7. StepHolds
    BY <1>3, <1>4, <1>5, <1>6, TakingStep DEF LockInv
  <1>8. QED
    BY <1>3, <1>7

-----------------------------------------------------------------------------
(***************************************************************************)
(* Retention and legal hold.                                               *)
(***************************************************************************)

\* The lock a request makes of the one it has seen.
LEMMA SetGrows ==
    ASSUME NEW q \in LockRequest, NEW l \in Lock, clock \in Nat, q.op \in {"retention", "hold"}
    PROVE  /\ Set(l, q) \in Lock
           /\ q.op = "retention" => Set(l, q).hold = l.hold
           /\ q.op = "hold" \/ CanReplaceRetention(l, q.want.mode, q.want.until, q.bypass)
                => /\ RetentionActive(l) /\ l.mode = "COMPLIANCE"
                         => Set(l, q).mode = "COMPLIANCE" /\ Set(l, q).until >= l.until
                   /\ RetentionActive(l) /\ Set(l, q).until < l.until => q.bypass
  <1>1. q.want \in Lock
    BY DEF LockRequest
  <1>2. CASE q.op = "hold"
    BY <1>1, <1>2 DEF Set, Lock
  <1>3. CASE q.op = "retention"
    <2>1. Set(l, q) \in Lock /\ Set(l, q).hold = l.hold /\ Set(l, q).mode = q.want.mode /\ Set(l, q).until = q.want.until
      BY <1>1, <1>3 DEF Set, Lock
    <2>2. l.until \in Nat /\ q.want.until \in Nat
      BY <1>1, LockFields
    <2>3. QED
      BY <1>3, <2>1, <2>2 DEF CanReplaceRetention
  <1>4. QED
    BY <1>2, <1>3

\* A step that changes the lock of some rows and nothing else of them.
LEMMA Relocked ==
    ASSUME LockInv, NEW r \in LockReq, Ended(r), UNCHANGED <<lockBucket, clock, nextFile, nextId, settingsMade>>,
           row' \in LockRow, row'.file = row.file, row'.vid = row.vid,
           NEW next, archive' = {next[v] : v \in archive},
           \A v \in archive : /\ next[v] \in LockVersion /\ next[v].file = v.file /\ next[v].vid = v.vid
                              /\ next[v].marker = v.marker
    PROVE  LockInv'
  <1>1. /\ nextId \in Nat
        /\ \A v \in archive : /\ v \in LockVersion /\ v.vid < nextId
                              /\ ~v.marker => v.file \in 1..(nextFile - 1) /\ v.file # row.file
        /\ \A v, w \in archive : v.vid = w.vid => v = w
        /\ \A v, w \in archive : ~v.marker /\ ~w.marker /\ v.file = w.file => v = w
        /\ row.file < nextFile /\ row.vid < nextId
    BY DEF LockInv, TablesInv, Bodies
  <1>2. \A v \in archive' : \E u \in archive : /\ v = next[u] /\ v \in LockVersion /\ v.file = u.file
                                               /\ v.vid = u.vid /\ v.marker = u.marker
    OBVIOUS
  <1>3. archive' \subseteq LockVersion
        /\ \A v \in archive' : v.vid < nextId /\ (~v.marker => v.file \in 1..(nextFile - 1) /\ v.file # row'.file)
    <2>1. ASSUME NEW v \in archive'
          PROVE  v \in LockVersion /\ v.vid < nextId /\ (~v.marker => v.file \in 1..(nextFile - 1) /\ v.file # row.file)
      <3>1. PICK u \in archive : v \in LockVersion /\ v.file = u.file /\ v.vid = u.vid /\ v.marker = u.marker
        BY <1>2
      <3>2. u.vid < nextId /\ (~u.marker => u.file \in 1..(nextFile - 1) /\ u.file # row.file)
        BY <1>1
      <3>3. QED
        BY <3>1, <3>2, Zenon
    <2>2. QED
      BY <2>1
  <1>4. \A v, w \in archive' : v.vid = w.vid \/ (~v.marker /\ ~w.marker /\ v.file = w.file) => v = w
    BY <1>1, <1>2
  <1>5. TablesInv'
    BY <1>1, <1>3, <1>4 DEF TablesInv, Bodies
  <1>6. /\ req' \in [LockReq -> LockRequest] /\ \A s \in LockReq : AskedInv(s)'
        /\ \A s \in LockReq : Writes(s)' => Writes(s) /\ req'[s].vid = req[s].vid
    BY <1>1, RequestEnds
  <1>7. IdsInv'
    <2>1. \A v \in archive' : Has(v.vid)
      BY <1>2 DEF Has
    <2>2. row'.vid # 0 => \A v \in archive' : v.vid # row'.vid
      BY <2>1 DEF LockInv, IdsInv, Has
    <2>3. \A s \in LockReq : Writes(s)' => row'.vid # req[s].vid
      BY <1>6 DEF LockInv, IdsInv
    <2>4. QED
      BY <1>6, <2>1, <2>2, <2>3, IdsStay
  <1>8. QED
    BY <1>5, <1>6, <1>7 DEF LockInv

\* The versions before and after it go together, and those whose lock is
\* another one got it from the request.
LEMMA GrowsIf ==
    ASSUME LockInv, LockInv', NEW q \in LockRequest, q.op \in {"retention", "hold"},
           via'.op = q.op, via'.allowed = q.bypass,
           \A v \in Versions : \E w \in Versions' : w.file = v.file,
           \A v \in Versions, w \in Versions' :
               w.file = v.file => \/ w.lock = v.lock
                                  \/ /\ w.lock = Set(v.lock, q)
                                     /\ via'.fresh => /\ v.lock = q.seen
                                                      /\ \/ q.op = "hold"
                                                         \/ CanReplaceRetention(q.seen, q.want.mode, q.want.until, q.bypass)
    PROVE  StepHolds
  <1>1. Travels
    BY DEF Travels
  <1>2. KeepsLocked
    BY DEF KeepsLocked, FilesOf
  <1>3. ASSUME NEW v \in Versions, via'.fresh, v.file \in FilesOf(Versions'), NEW new, new = LockOf(v.file)'
        PROVE  /\ RetentionActive(v.lock) /\ v.lock.mode = "COMPLIANCE"
                        => new.mode = "COMPLIANCE" /\ new.until >= v.lock.until
               /\ RetentionActive(v.lock) /\ new.until < v.lock.until => via'.allowed
               /\ via'.op = "retention" => new.hold = v.lock.hold
    <2>1. PICK w \in Versions' : w.file = v.file
      BY <1>3 DEF FilesOf
    <2>2. LockOf(w.file)' = w.lock
      BY LockOfNext DEF LockInv
    <2>3. new = w.lock
      BY <1>3, <2>1, <2>2, Zenon
    <2>4. v.lock \in Lock /\ v.lock.until \in Nat /\ clock \in Nat
      BY VersionFields, LockFields, LockGiven DEF LockInv
    <2>5. CASE w.lock = v.lock
      BY <2>3, <2>4, <2>5
    <2>6. CASE w.lock = Set(v.lock, q) /\ v.lock = q.seen
               /\ (q.op = "hold" \/ CanReplaceRetention(q.seen, q.want.mode, q.want.until, q.bypass))
      BY <2>3, <2>4, <2>6, SetGrows
    <2>7. QED
      BY <1>3, <2>1, <2>5, <2>6
  <1>4. Grows
    BY <1>3 DEF Grows
  <1>5. QED
    BY <1>1, <1>2, <1>4 DEF StepHolds

LEMMA FinishLockStep ==
    ASSUME LockInv, NEW r \in LockReq, FinishLock(r)
    PROVE  LockInv' /\ StepHolds
  <1> DEFINE q == req[r]
             permitted == q.op = "hold" \/ CanReplaceRetention(q.seen, q.want.mode, q.want.until, q.bypass)
  <1>1. /\ q.step = "xml" /\ Ended(r) /\ (IF permitted THEN ApplyLock(q) ELSE UNCHANGED <<row, archive>>)
        /\ via' = [Said(q.op) EXCEPT !.allowed = q.bypass, !.fresh = StillAsSeen(q)]
        /\ UNCHANGED <<lockBucket, clock, nextFile, nextId, settingsMade>>
    BY DEF FinishLock
  <1>2. /\ q \in LockRequest /\ q.op \in {"retention", "hold"} /\ clock \in Nat
        /\ row \in LockRow /\ archive \subseteq LockVersion
    BY <1>1, LockGiven DEF LockInv, AskedInv, TablesInv
  <1>3. via'.op = q.op /\ via'.allowed = q.bypass /\ via'.fresh = StillAsSeen(q)
    BY <1>1, SaidFields
  <1>4. CASE ~permitted
    <2>1. row' = row /\ archive' = archive
      BY <1>1, <1>4
    <2> DEFINE same == [v \in archive |-> v]
    <2>2. archive' = {same[v] : v \in archive}
      BY <2>1
    <2>3. LockInv'
      BY <1>1, <1>2, <2>1, <2>2, Relocked
    <2>4. \A w : w \in Versions' <=> w \in Versions
      BY <2>1, VersionsAre, VersionsAreNext
    <2>5. \A v \in Versions, w \in Versions' : w.file = v.file => w.lock = v.lock
      BY <2>4, VersionsApart DEF LockInv
    <2>6. QED
      BY <1>2, <1>3, <2>3, <2>4, <2>5, GrowsIf
  <1>5. CASE permitted /\ q.archived
    <2> DEFINE next == [v \in archive |-> IF v.vid = q.vid THEN [v EXCEPT !.lock = Set(@, q)] ELSE v]
    <2>1. row' = row /\ archive' = {next[v] : v \in archive}
      BY <1>1, <1>5 DEF ApplyLock
    <2>2. ASSUME NEW v \in archive
          PROVE  /\ next[v] \in LockVersion /\ next[v].file = v.file /\ next[v].vid = v.vid /\ next[v].marker = v.marker
                 /\ next[v].lock = IF v.vid = q.vid THEN Set(v.lock, q) ELSE v.lock
      <3>1. v \in LockVersion /\ v.lock \in Lock
        BY <1>2 DEF LockVersion
      <3>2. Set(v.lock, q) \in Lock
        BY <1>2, <3>1, SetGrows
      <3>3. QED
        BY <3>1, <3>2 DEF LockVersion
    <2> HIDE DEF next
    <2>3. LockInv'
      BY <1>1, <1>2, <2>1, <2>2, Relocked
    <2>4. ASSUME NEW v \in Versions PROVE \E w \in Versions' : w.file = v.file
      <3>1. CASE row.file # 0 /\ v = [file |-> row.file, lock |-> row.lock]
        <4>1. v \in Versions'
          BY <2>1, <3>1, VersionsAreNext
        <4>2. QED
          BY <4>1
      <3>2. ASSUME NEW a \in archive, ~a.marker, v = [file |-> a.file, lock |-> a.lock]
            PROVE  \E w \in Versions' : w.file = v.file
        <4>1. next[a] \in archive' /\ ~next[a].marker /\ next[a].file = a.file
          BY <2>1, <2>2, <3>2
        <4>2. [file |-> next[a].file, lock |-> next[a].lock] \in Versions'
          BY <4>1, VersionsAreNext
        <4>3. QED
          BY <3>2, <4>1, <4>2
      <3>3. QED
        BY <3>1, <3>2, VersionsAre
    <2>5. ASSUME NEW v \in Versions, NEW w \in Versions', w.file = v.file
          PROVE  w.lock = v.lock \/ (w.lock = Set(v.lock, q) /\ (StillAsSeen(q) => v.lock = q.seen))
      <3>1. CASE row'.file # 0 /\ w = [file |-> row'.file, lock |-> row'.lock]
        <4>1. w \in Versions
          BY <2>1, <3>1, VersionsAre
        <4>2. QED
          BY <2>5, <4>1, VersionsApart DEF LockInv
      <3>2. ASSUME NEW b \in archive', ~b.marker, w = [file |-> b.file, lock |-> b.lock]
            PROVE  w.lock = v.lock \/ (w.lock = Set(v.lock, q) /\ (StillAsSeen(q) => v.lock = q.seen))
        <4>1. PICK a \in archive : b = next[a]
          BY <2>1
        <4>2. ~a.marker /\ w.file = a.file /\ w.lock = next[a].lock
          BY <2>2, <3>2, <4>1
        <4> DEFINE u == [file |-> a.file, lock |-> a.lock]
        <4>3. u \in Versions /\ u.file = a.file /\ u.lock = a.lock
          BY <4>2, VersionsAre
        <4> HIDE DEF u
        <4>4. v.lock = a.lock
          <5>1. TablesInv /\ v.file = u.file
            BY <2>5, <4>2, <4>3 DEF LockInv
          <5>2. v = u
            BY <4>3, <5>1, VersionsApart
          <5>3. QED
            BY <4>3, <5>2
        <4>5. StillAsSeen(q) /\ a.vid = q.vid => a.lock = q.seen
          BY <1>5 DEF StillAsSeen
        <4>6. QED
          BY <2>2, <4>2, <4>4, <4>5
      <3>3. QED
        BY <3>1, <3>2, VersionsAreNext
    <2>6. QED
      BY <1>2, <1>3, <1>5, <2>3, <2>4, <2>5, GrowsIf
  <1>6. CASE permitted /\ ~q.archived
    <2> DEFINE same == [v \in archive |-> v]
    <2>1. archive' = archive /\ archive' = {same[v] : v \in archive}
          /\ row' = (IF row.file # 0 THEN [row EXCEPT !.lock = Set(row.lock, q)] ELSE row)
      BY <1>1, <1>6 DEF ApplyLock, Exists
    <2>2. Set(row.lock, q) \in Lock
      BY <1>2, SetGrows DEF LockRow
    <2>3. row' \in LockRow /\ row'.file = row.file /\ row'.vid = row.vid
          /\ (row.file # 0 => row'.lock = Set(row.lock, q))
      BY <1>2, <2>1, <2>2 DEF LockRow
    <2>4. LockInv'
      BY <1>1, <1>2, <2>1, <2>3, Relocked
    <2>5. ASSUME NEW v \in Versions PROVE \E w \in Versions' : w.file = v.file
      <3>1. CASE row.file # 0 /\ v = [file |-> row.file, lock |-> row.lock]
        <4>1. [file |-> row'.file, lock |-> row'.lock] \in Versions'
          BY <2>3, <3>1, VersionsAreNext
        <4>2. QED
          BY <2>3, <3>1, <4>1
      <3>2. ASSUME NEW a \in archive, ~a.marker, v = [file |-> a.file, lock |-> a.lock]
            PROVE  v \in Versions'
        BY <2>1, <3>2, VersionsAreNext
      <3>3. QED
        BY <3>1, <3>2, VersionsAre
    <2>6. ASSUME NEW v \in Versions, NEW w \in Versions', w.file = v.file
          PROVE  w.lock = v.lock \/ (w.lock = Set(v.lock, q) /\ (StillAsSeen(q) => v.lock = q.seen))
      <3>1. CASE row'.file # 0 /\ w = [file |-> row'.file, lock |-> row'.lock]
        <4> DEFINE u == [file |-> row.file, lock |-> row.lock]
        <4>1. u \in Versions /\ u.file = row.file /\ u.lock = row.lock
          BY <2>3, <3>1, VersionsAre
        <4> HIDE DEF u
        <4>2. w.file = row.file /\ w.lock = Set(row.lock, q)
          BY <2>3, <3>1
        <4>3. v.lock = row.lock
          BY <2>6, <4>1, <4>2, VersionsApart DEF LockInv
        <4>4. StillAsSeen(q) => row.lock = q.seen
          BY <1>6, <2>3, <3>1 DEF StillAsSeen, Exists
        <4>5. QED
          BY <4>2, <4>3, <4>4
      <3>2. ASSUME NEW a \in archive', ~a.marker, w = [file |-> a.file, lock |-> a.lock]
            PROVE  w \in Versions
        BY <2>1, <3>2, VersionsAre
      <3>3. QED
        BY <2>6, <3>1, <3>2, VersionsAreNext, VersionsApart DEF LockInv
    <2>7. QED
      BY <1>2, <1>3, <1>6, <2>4, <2>5, <2>6, GrowsIf
  <1>7. QED
    BY <1>4, <1>5, <1>6

-----------------------------------------------------------------------------
LEMMA LockInvInitially == LockInit => LockInv
  <1> SUFFICES ASSUME LockInit PROVE LockInv
    OBVIOUS
  <1>1. \A r \in LockReq : req[r] = Idle
    BY DEF LockInit
  <1>2. req \in [LockReq -> LockRequest] /\ \A r \in LockReq : AskedInv(r) /\ ~Writes(r)
    BY <1>1, IdleFields DEF LockInit, AskedInv, Writes
  <1>3. TablesInv
    BY LockFields DEF LockInit, TablesInv, NoRow, LockRow, Bodies
  <1>4. IdsInv
    BY <1>2 DEF LockInit, IdsInv, Has
  <1>5. QED
    <2>1. lockBucket \in [versioning : {"Disabled", "Enabled", "Suspended"}, on : BOOLEAN,
                          default : {"none", "GOVERNANCE", "COMPLIANCE"}]
      <3>1. \/ lockBucket = [versioning |-> "Disabled", on |-> FALSE, default |-> "none"]
            \/ lockBucket = [versioning |-> "Enabled", on |-> TRUE, default |-> "none"]
        BY DEF LockInit
      <3>2. CASE lockBucket = [versioning |-> "Disabled", on |-> FALSE, default |-> "none"]
        BY <3>2
      <3>3. CASE lockBucket = [versioning |-> "Enabled", on |-> TRUE, default |-> "none"]
        BY <3>3
      <3>4. QED
        BY <3>1, <3>2, <3>3
    <2>2. clock \in 0..MaxTime /\ nextFile \in Nat \ {0} /\ nextId \in Nat \ {0} /\ settingsMade \in 0..MaxSettings
      BY LockGiven DEF LockInit
    <2>3. QED
      BY <1>2, <1>3, <1>4, <2>1, <2>2 DEF LockInv

LEMMA LockSteps == LockInv /\ LockNext => LockInv' /\ StepHolds
  <1> SUFFICES ASSUME LockInv, LockNext PROVE LockInv' /\ StepHolds
    OBVIOUS
  <1>1. ASSUME NEW vid \in Vids, NEW bypass \in BOOLEAN,
               DeleteCurrentVersion(vid, bypass) \/ DeleteArchivedVersion(vid, bypass)
        PROVE  LockInv' /\ StepHolds
    BY <1>1, DeleteCurrentVersionStep, DeleteArchivedVersionStep
  <1>2. ASSUME NEW r \in LockReq, NEW vid \in Vids, NEW bypass \in BOOLEAN,
               \/ \E want \in Retentions : ResolveTarget(r, "retention", vid, want, bypass)
               \/ \E want \in Holds : ResolveTarget(r, "hold", vid, want, bypass)
        PROVE  LockInv' /\ StepHolds
    BY <1>2, ResolveTargetStep
  <1>3. ASSUME NEW r \in LockReq, NEW door \in {"s3", "bulk", "dashboard"}, NEW bypass \in BOOLEAN,
               BeginDelete(r, door, bypass)
        PROVE  LockInv' /\ StepHolds
    BY <1>3, BeginDeleteStep
  <1>4. ASSUME NEW r \in LockReq, NEW asked \in Asked, BeginPut(r, asked)
        PROVE  LockInv' /\ StepHolds
    BY <1>4, BeginPutStep
  <1>5. QED
    BY <1>1, <1>2, <1>3, <1>4, TickStep, SettingSteps, PruneVersionsStep, DashboardDeleteVersionStep, BeginCompleteStep,
       CommitPutStep, CheckDeleteStep, FinishDeleteStep, FinishLockStep DEF LockNext

LEMMA LockInvIsTyped == LockInv => LockTypeOK
  BY DEF LockInv, LockTypeOK, TablesInv, LockRow, LockVersion, LockRequest

\* For any requests, doors, settings and clock: no step destroys a locked
\* version but those that ask no lock or lose a second "null" version, locks go
\* with their versions through overwrites and deletes, and PUT ?retention whose
\* target is what it read never shortens a COMPLIANCE period (object-lock.ts,
\* lock.ts, commitStagedObject, deleteObjectVersion).
THEOREM LocksAreHeld == LockSpec => LocksHold
  <1>1. LockInit => LockInv
    BY LockInvInitially
  <1>2. LockInv /\ [LockNext]_lockVars => LockInv'
    <2>1. LockInv /\ UNCHANGED lockVars => LockInv'
      BY DEF lockVars, LockInv, AskedInv, TablesInv, IdsInv, Writes, Has, Bodies
    <2>2. QED
      BY <2>1, LockSteps
  <1>3. LockInv => LockTypeOK
    BY LockInvIsTyped
  <1>4. LockInv /\ [LockNext]_lockVars => [KeepsLocked]_lockVars /\ [Travels]_lockVars /\ [Grows]_lockVars
    BY LockSteps DEF StepHolds
  <1>5. LockSpec => []LockTypeOK
    BY <1>1, <1>2, <1>3, PTL DEF LockSpec
  <1>6. LockSpec => [][KeepsLocked]_lockVars /\ [][Travels]_lockVars /\ [][Grows]_lockVars
    BY <1>1, <1>2, <1>4, PTL DEF LockSpec
  <1>7. QED
    BY <1>5, <1>6 DEF LocksHold, LockedIsKept, LockTravels, RetentionOnlyGrows, KeepsLocked, Travels, Grows

-----------------------------------------------------------------------------
(***************************************************************************)
(* Encryption at rest.                                                     *)
(***************************************************************************)

Key == Cmk \cup {Gateway}
Master == [version : Nat, active : BOOLEAN]
Row == [id : Nat, vid : Nat, file : Nat]
Version == [vid : Nat, file : Nat, sse : Sse]
SealRequest == [op : {"idle", "put", "read", "version", "copy", "dashboard"},
                step : {"idle", "drive", "plan", "upload", "done"},
                id : Nat, file : Nat, sse : Sse, customer : BOOLEAN, plan : Sse, target : Nat, moved : BOOLEAN]

-----------------------------------------------------------------------------
\* The key material a record names is there.
Sound(s) == s.key # "none" => s.version > 0 /\ HasMaterial(s.key, s.version)

\* What a record says of the file it is of, unless a promotion went wrong.
True(s, f) == overRow \/ s = sealed[f]

FilesInv ==
    /\ sealed \in Seq(Sse) /\ Len(sealed) = plans /\ plans \in Nat
    /\ \A f \in 1..plans : Sound(sealed[f]) /\ (sealed[f].scheme = "none" => sealed[f] = Plain)

\* A row in use is of a file that was planned and of no other row, and its
\* record is of that file.
RowsInv ==
    /\ current \in Row /\ currentSse \in Sse /\ versions \subseteq Version
    /\ \A v \in versions : /\ v.file \in 1..plans /\ v.vid <= plans /\ v.file # current.file
                           /\ Sound(v.sse) /\ True(v.sse, v.file)
    /\ \A v, w \in versions : v.file = w.file => v = w
    /\ current.id = 0 => current = Absent /\ currentSse = Plain
    /\ current.id # 0 => /\ current.file \in 1..plans /\ current.vid <= plans
                         /\ Sound(currentSse) /\ True(currentSse, current.file)

\* What a request knows: the file it uploads is of no row and no other request,
\* and encrypted as it will record; the record it goes by is of the file it
\* reads; or the row it began with is the one that is there, unless it moved.
Uploads(r) == seal[r].step = "upload"
ReadsKey(r) == seal[r].op \in {"read", "dashboard"} /\ seal[r].step \in {"drive", "plan"}
HasRecord(r) == \/ seal[r].op \in {"version", "copy"} /\ seal[r].step \in {"drive", "plan", "upload"}
                \/ seal[r].op = "dashboard" /\ seal[r].step = "upload" /\ ~seal[r].moved
UploadInv(r) ==
    Uploads(r) => /\ seal[r].op \in {"put", "copy", "dashboard"}
                  /\ seal[r].target \in 1..plans /\ seal[r].plan = sealed[seal[r].target]
                  /\ seal[r].target # current.file /\ \A v \in versions : v.file # seal[r].target
SourceInv(r) ==
    /\ seal[r].step = "drive" => seal[r].op \in {"read", "version"}
    /\ seal[r].step = "plan" => seal[r].op \in {"copy", "dashboard"}
    /\ HasRecord(r) => seal[r].file \in 1..plans /\ True(seal[r].sse, seal[r].file)
    /\ ReadsKey(r) /\ ~seal[r].moved
          => current.id # 0 /\ current.id = seal[r].id /\ current.file = seal[r].file
    /\ ReadsKey(r) => seal[r].file \in 1..plans
TargetsApart == \A r, s \in SealReq : Uploads(r) /\ Uploads(s) /\ seal[r].target = seal[s].target => r = s
RequestsInv ==
    /\ seal \in [SealReq -> SealRequest]
    /\ \A r \in SealReq : UploadInv(r) /\ SourceInv(r)
    /\ TargetsApart

RestInv ==
    /\ masters \in [Key -> Master] /\ superseded \subseteq Key \X Nat
    /\ defaultSse \in [scheme : {"none", "sse-s3", "sse-kms"}, versioned : BOOLEAN]
    /\ ids \in Nat /\ keyEvents \in Nat /\ markers \in Nat /\ overRow \in BOOLEAN

SealInv == RestInv /\ FilesInv /\ RowsInv /\ RequestsInv /\ ReadsAreClear

-----------------------------------------------------------------------------
LEMMA SealGiven == Gateway \notin Cmk /\ SealRequests \in Nat /\ MaxKeyEvents \in Nat
  BY EncryptionAssumption

USE SealGiven

LEMMA SseFields ==
    /\ Plain \in Sse /\ Plain.key = "none" /\ Plain.scheme = "none"
    /\ \A s \in Sse : s.key \in Key \cup {"none"} /\ s.version \in Nat
  BY DEF Sse, Plain, Key

LEMMA PlainIsSound == Sound(Plain)
  BY SseFields DEF Sound

LEMMA RequestFields ==
    ASSUME NEW q \in SealRequest
    PROVE  /\ q.sse \in Sse /\ q.plan \in Sse /\ q.file \in Nat /\ q.target \in Nat /\ q.id \in Nat
           /\ q.moved \in BOOLEAN /\ q.customer \in BOOLEAN
  BY DEF SealRequest

LEMMA OverFields == Over \in SealRequest /\ Over.step = "done" /\ Waiting \in SealRequest /\ Waiting.step = "idle"
                    /\ Waiting.op = "idle" /\ Waiting.sse = Plain
  BY SseFields DEF Over, Waiting, SealRequest

\* Keys are made and rotated, never lost.
LEMMA SoundAfterKeys ==
    ASSUME RestInv, superseded \subseteq superseded',
           \A k \in Key : masters'[k].version = masters[k].version \/ masters[k].version = 0
                             \/ <<k, masters[k].version>> \in superseded',
           NEW s \in Sse, Sound(s)
    PROVE  Sound(s)'
  <1>1. CASE s.key = "none"
    BY <1>1 DEF Sound
  <1>2. CASE s.key # "none"
    <2>1. s.key \in Key /\ s.version \in Nat /\ s.version > 0 /\ HasMaterial(s.key, s.version)
      BY <1>2, SseFields DEF Sound
    <2>2. HasMaterial(s.key, s.version)'
      BY <2>1 DEF HasMaterial
    <2>3. QED
      BY <2>1, <2>2 DEF Sound
  <1>3. QED
    BY <1>1, <1>2

LEMMA SoundSame ==
    ASSUME masters' = masters, superseded' = superseded, NEW s, Sound(s)
    PROVE  Sound(s)'
  BY DEF Sound, HasMaterial

\* The version that a promotion takes is there.
LEMMA NewestIsThere ==
    ASSUME RowsInv, plans \in Nat, versions # {}
    PROVE  Newest \in versions
  <1> DEFINE Distances == {n \in Nat : \E v \in versions : n = plans - v.vid}
             Smaller == OpToRel(<, Nat)
  <1>1. \A v \in versions : v.vid \in Nat /\ v.vid <= plans
    BY DEF RowsInv, Version
  <1>2. Distances # {}
    <2>1. PICK v \in versions : TRUE
      OBVIOUS
    <2>2. plans - v.vid \in Nat
      BY <1>1
    <2>3. QED
      BY <2>2
  <1>3. IsWellFoundedOn(Smaller, Nat)
    BY NatLessThanWellFounded
  <1>4. PICK n \in Distances : \A m \in Distances : <<m, n>> \notin Smaller
    BY <1>2, <1>3, WFMin
  <1>5. \A m \in Distances : n <= m
    <2>1. \A m \in Distances : m < n => <<m, n>> \in Smaller
      BY DEF OpToRel
    <2>2. \A m \in Distances : ~(m < n)
      BY <1>4, <2>1, Zenon
    <2>3. QED
      BY <2>2
  <1>6. PICK v \in versions : n = plans - v.vid
    OBVIOUS
  <1>7. \A w \in versions : w.vid <= v.vid
    <2>1. ASSUME NEW w \in versions PROVE w.vid <= v.vid
      <3>1. plans - w.vid \in Distances
        BY <1>1
      <3>2. n <= plans - w.vid
        BY <1>5, <3>1
      <3>3. QED
        BY <1>1, <1>6, <3>2
    <2>2. QED
      BY <2>1
  <1>8. QED
    BY <1>6, <1>7 DEF Newest

-----------------------------------------------------------------------------
(***************************************************************************)
(* Rows and requests that stay while keys and files come.                  *)
(***************************************************************************)

LEMMA RowsStayRight ==
    ASSUME RowsInv, current' = current, currentSse' = currentSse, versions' = versions, overRow' = overRow,
           plans \in Nat, plans' \in Nat, plans <= plans', \A f \in 1..plans : sealed'[f] = sealed[f],
           \A s \in Sse : Sound(s) => Sound(s)'
    PROVE  RowsInv'
  <1>1. 1..plans \subseteq 1..plans'
    OBVIOUS
  <1>2. \A f \in 1..plans, s \in Sse : True(s, f) => True(s, f)'
    BY DEF True
  <1>3. ASSUME NEW v \in versions
        PROVE  /\ v.file \in 1..plans' /\ v.vid <= plans' /\ v.file # current.file
               /\ Sound(v.sse)' /\ True(v.sse, v.file)'
    <2>1. v.sse \in Sse /\ v.vid \in Nat /\ v.file \in 1..plans /\ v.vid <= plans /\ v.file # current.file
          /\ Sound(v.sse) /\ True(v.sse, v.file)
      BY DEF RowsInv, Version
    <2>2. QED
      BY <1>1, <1>2, <2>1
  <1>4. current.id # 0 => /\ current.file \in 1..plans' /\ current.vid <= plans'
                          /\ Sound(currentSse)' /\ True(currentSse, current.file)'
    <2>1. HAVE current.id # 0
    <2>2. currentSse \in Sse /\ current.vid \in Nat /\ current.file \in 1..plans /\ current.vid <= plans
          /\ Sound(currentSse) /\ True(currentSse, current.file)
      BY <2>1 DEF RowsInv, Row
    <2>3. Sound(currentSse)'
      BY <2>2 DEF Sound
    <2>4. True(currentSse, current.file)'
      BY <2>2 DEF True
    <2>5. QED
      BY <1>1, <2>2, <2>3, <2>4
  <1>5. QED
    BY <1>3, <1>4 DEF RowsInv

LEMMA FilesStayRight ==
    ASSUME FilesInv, sealed' = sealed, plans' = plans, \A s \in Sse : Sound(s) => Sound(s)'
    PROVE  FilesInv'
  <1>1. \A f \in 1..plans : sealed[f] \in Sse /\ Sound(sealed[f])
    BY DEF FilesInv
  <1>2. \A f \in 1..plans : Sound(sealed[f])'
    BY <1>1 DEF Sound
  <1>3. QED
    BY <1>2 DEF FilesInv

LEMMA RequestsStay ==
    ASSUME RequestsInv, seal' = seal, current' = current, versions' = versions, overRow' = overRow,
           sealed' = sealed, plans' = plans
    PROVE  RequestsInv'
  BY DEF RequestsInv, UploadInv, SourceInv, TargetsApart, Uploads, ReadsKey, HasRecord, True

\* A step that moves only one request, which uploads nothing.
LEMMA OneRequest ==
    ASSUME RequestsInv, NEW r \in SealReq, NEW q \in SealRequest, seal' = [seal EXCEPT ![r] = q],
           q.step # "upload", SourceInv(r)',
           current' = current, versions' = versions, overRow' = overRow, sealed' = sealed, plans' = plans
    PROVE  RequestsInv'
  <1>1. seal' \in [SealReq -> SealRequest] /\ seal'[r] = q /\ \A s \in SealReq : s # r => seal'[s] = seal[s]
    BY DEF RequestsInv
  <1>2. \A s \in SealReq : Uploads(s)' => s # r /\ Uploads(s)
    BY <1>1 DEF Uploads
  <1>3. ASSUME NEW s \in SealReq
        PROVE  UploadInv(s)'
    <2>1. CASE s = r
      BY <1>2, <2>1 DEF UploadInv
    <2>2. CASE s # r
      BY <1>1, <2>2 DEF RequestsInv, UploadInv, Uploads
    <2>3. QED
      BY <2>1, <2>2
  <1>4. ASSUME NEW s \in SealReq, s # r
        PROVE  SourceInv(s)'
    BY <1>1, <1>4 DEF RequestsInv, SourceInv, HasRecord, ReadsKey, True
  <1>5. TargetsApart'
    BY <1>1, <1>2 DEF RequestsInv, TargetsApart, Uploads
  <1>6. QED
    BY <1>1, <1>3, <1>4, <1>5 DEF RequestsInv

LEMMA MovedFields ==
    ASSUME RequestsInv, NEW r \in SealReq
    PROVE  /\ Moved(seal)[r] \in SealRequest
           /\ ~(ReadsKey(r) /\ seal[r].id = current.id) => Moved(seal)[r] = seal[r]
           /\ ReadsKey(r) /\ seal[r].id = current.id => Moved(seal)[r].moved
           /\ \A f \in {"op", "step", "id", "file", "sse", "customer", "plan", "target"} :
                 Moved(seal)[r][f] = seal[r][f]
  <1>1. seal[r] \in SealRequest
    BY DEF RequestsInv
  <1>2. Moved(seal)[r] = IF ReadsKey(r) /\ seal[r].id = current.id THEN [seal[r] EXCEPT !.moved = TRUE] ELSE seal[r]
    BY DEF Moved, ReadsKey
  <1>3. QED
    BY <1>1, <1>2 DEF SealRequest

\* A row is rewritten: who reads it is told, and the only new file in the rows
\* is that of a request that is over.
LEMMA RowsMoveRequests ==
    ASSUME RequestsInv, seal' \in [SealReq -> SealRequest],
           \A r \in SealReq : seal'[r] = Over \/ seal'[r] = Moved(seal)[r],
           \A r \in SealReq : Uploads(r) /\ seal'[r] # Over
               => seal[r].target # current'.file /\ \A v \in versions' : v.file # seal[r].target,
           overRow => overRow', sealed' = sealed, plans' = plans
    PROVE  RequestsInv'
  <1>1. \A r \in SealReq : seal'[r] = Over => ~Uploads(r)' /\ ~ReadsKey(r)' /\ ~HasRecord(r)' /\ seal'[r].step = "done"
    BY OverFields DEF Uploads, ReadsKey, HasRecord
  <1>2. ASSUME NEW r \in SealReq, seal'[r] # Over
        PROVE  /\ seal'[r].op = seal[r].op /\ seal'[r].step = seal[r].step /\ seal'[r].id = seal[r].id
               /\ seal'[r].file = seal[r].file /\ seal'[r].sse = seal[r].sse /\ seal'[r].plan = seal[r].plan
               /\ seal'[r].target = seal[r].target
               /\ ReadsKey(r) => seal'[r].moved \/ (~seal[r].moved /\ seal[r].id # current.id)
               /\ ~ReadsKey(r) => seal'[r].moved = seal[r].moved
    BY <1>2, MovedFields
  <1>3. ASSUME NEW r \in SealReq PROVE UploadInv(r)'
    <2>1. CASE seal'[r] = Over
      BY <1>1, <2>1 DEF UploadInv
    <2>2. CASE seal'[r] # Over
      BY <1>2, <2>2 DEF RequestsInv, UploadInv, Uploads
    <2>3. QED
      BY <2>1, <2>2
  <1>4. ASSUME NEW r \in SealReq PROVE SourceInv(r)'
    <2>1. CASE seal'[r] = Over
      BY <1>1, <2>1 DEF SourceInv
    <2>2. CASE seal'[r] # Over
      <3>1. SourceInv(r)
        BY DEF RequestsInv
      <3>2. ReadsKey(r)' => ReadsKey(r) /\ seal'[r].moved
        BY <1>2, <2>2, <3>1 DEF ReadsKey, SourceInv
      <3>3. HasRecord(r)' => HasRecord(r)
        BY <1>2, <2>2 DEF HasRecord, ReadsKey
      <3>4. QED
        BY <1>2, <2>2, <3>1, <3>2, <3>3 DEF SourceInv, True
    <2>3. QED
      BY <2>1, <2>2
  <1>5. TargetsApart'
    <2>1. \A r \in SealReq : Uploads(r)' => Uploads(r) /\ seal'[r].target = seal[r].target
      BY <1>1, <1>2 DEF Uploads
    <2>2. QED
      BY <2>1 DEF RequestsInv, TargetsApart
  <1>6. QED
    BY <1>3, <1>4, <1>5 DEF RequestsInv

-----------------------------------------------------------------------------
(***************************************************************************)
(* The keys.                                                               *)
(***************************************************************************)

LEMMA KeySteps ==
    ASSUME SealInv,
           \/ \E k \in Cmk : CreateKey(k)
           \/ \E k \in Key : RotateKey(k) \/ \E on \in BOOLEAN : SetKeyStatus(k, on)
    PROVE  SealInv'
  <1>1. /\ keyEvents' = keyEvents + 1 /\ read' = Nothing /\ defaultSse' = defaultSse /\ current' = current
        /\ currentSse' = currentSse /\ versions' = versions /\ sealed' = sealed /\ seal' = seal /\ ids' = ids
        /\ plans' = plans /\ markers' = markers /\ overRow' = overRow
    BY DEF CreateKey, RotateKey, SetKeyStatus, KeyEvent
  <1>2. PICK k \in Key : \/ masters[k].version = 0 /\ masters' = Created(k) /\ superseded' = superseded
                         \/ superseded' = Retired(k) /\ masters' = [masters EXCEPT ![k].version = @ + 1]
                         \/ \E on \in BOOLEAN : masters' = [masters EXCEPT ![k].active = on] /\ superseded' = superseded
    BY DEF CreateKey, RotateKey, SetKeyStatus, Key
  <1>3. masters \in [Key -> Master] /\ masters[k] \in Master /\ superseded \subseteq Key \X Nat
    BY DEF SealInv, RestInv
  <1>4. /\ masters' \in [Key -> Master] /\ superseded' \subseteq Key \X Nat /\ superseded \subseteq superseded'
        /\ \A l \in Key : masters'[l].version = masters[l].version \/ masters[l].version = 0
                             \/ <<l, masters[l].version>> \in superseded'
    <2>1. CASE masters[k].version = 0 /\ masters' = Created(k) /\ superseded' = superseded
      BY <1>3, <2>1 DEF Created, Master
    <2>2. CASE superseded' = Retired(k) /\ masters' = [masters EXCEPT ![k].version = @ + 1]
      <3>1. masters[k].version \in Nat /\ masters[k].version + 1 \in Nat
        BY <1>3 DEF Master
      <3>2. superseded' = superseded \cup {<<k, masters[k].version>>}
        BY <2>2 DEF Retired
      <3>3. masters' = [masters EXCEPT ![k].version = masters[k].version + 1]
        BY <2>2
      <3> DEFINE n == masters[k].version + 1
      <3>4. masters' \in [Key -> Master] /\ \A l \in Key : l # k => masters'[l] = masters[l]
        <4>1. masters' = [masters EXCEPT ![k].version = n] /\ n \in Nat
          BY <3>1, <3>3
        <4> HIDE DEF n
        <4>2. QED
          BY <1>3, <4>1 DEF Master
      <3>5. QED
        BY <1>3, <3>1, <3>2, <3>4
    <2>3. ASSUME NEW on \in BOOLEAN, masters' = [masters EXCEPT ![k].active = on], superseded' = superseded
          PROVE  /\ masters' \in [Key -> Master] /\ superseded' \subseteq Key \X Nat /\ superseded \subseteq superseded'
                 /\ \A l \in Key : masters'[l].version = masters[l].version
      BY <1>3, <2>3 DEF Master
    <2>4. QED
      BY <1>2, <2>1, <2>2, <2>3
  <1>5. \A s \in Sse : Sound(s) => Sound(s)'
    BY <1>4, SoundAfterKeys DEF SealInv
  <1>6. FilesInv' /\ RowsInv'
    <2>1. plans \in Nat
      BY DEF SealInv, FilesInv
    <2>2. QED
      BY <1>1, <1>5, <2>1, FilesStayRight, RowsStayRight DEF SealInv
  <1>7. RequestsInv'
    BY <1>1, RequestsStay DEF SealInv
  <1>8. RestInv' /\ ReadsAreClear'
    BY <1>1, <1>4 DEF SealInv, RestInv, ReadsAreClear, Nothing
  <1>9. QED
    BY <1>6, <1>7, <1>8 DEF SealInv

-----------------------------------------------------------------------------
(***************************************************************************)
(* Reads and the beginning of copies.                                      *)
(***************************************************************************)

\* What is the same after a step that moves one request and no row.
LEMMA RowsAreSame ==
    ASSUME SealInv, UNCHANGED <<masters, superseded, defaultSse, current, currentSse, versions, sealed, ids, plans,
                                keyEvents, markers, overRow>>
    PROVE  RestInv' /\ FilesInv' /\ RowsInv'
  <1>1. \A s \in Sse : Sound(s) => Sound(s)'
    BY SoundSame
  <1>2. plans \in Nat
    BY DEF SealInv, FilesInv
  <1>3. FilesInv' /\ RowsInv'
    BY <1>1, <1>2, FilesStayRight, RowsStayRight DEF SealInv
  <1>4. RestInv'
    BY DEF SealInv, RestInv
  <1>5. QED
    BY <1>3, <1>4

LEMMA RefuseCopyStep ==
    ASSUME SealInv, NEW r \in SealReq, RefuseCopy(r)
    PROVE  SealInv'
  <1>1. seal' = [seal EXCEPT ![r] = Over] /\ read' = Nothing
        /\ UNCHANGED <<masters, superseded, defaultSse, current, currentSse, versions, sealed, ids, plans,
                       keyEvents, markers, overRow>>
    BY DEF RefuseCopy, Sets, RowsStay
  <1>2. seal'[r] = Over
    BY <1>1 DEF SealInv, RequestsInv
  <1>3. SourceInv(r)'
    BY <1>2, OverFields DEF SourceInv, HasRecord, ReadsKey
  <1>4. RequestsInv'
    BY <1>1, <1>3, OneRequest, OverFields DEF SealInv
  <1>5. QED
    BY <1>1, <1>4, RowsAreSame DEF SealInv, ReadsAreClear, Nothing

LEMMA BeginReadStep ==
    ASSUME SealInv, NEW r \in SealReq, NEW customer \in BOOLEAN, BeginRead(r, customer)
    PROVE  SealInv'
  <1> DEFINE q == [Waiting EXCEPT !.op = "read", !.step = "drive", !.id = current.id,
                                  !.file = current.file, !.customer = customer]
  <1>1. seal' = [seal EXCEPT ![r] = q] /\ read' = Nothing /\ current.id # 0
        /\ UNCHANGED <<masters, superseded, defaultSse, current, currentSse, versions, sealed, ids, plans,
                       keyEvents, markers, overRow>>
    BY DEF BeginRead, Sets, RowsStay
  <1>2. q \in SealRequest /\ q.op = "read" /\ q.step = "drive" /\ q.id = current.id /\ q.file = current.file
    BY SseFields DEF SealInv, RowsInv, Row, Waiting, SealRequest
  <1> HIDE DEF q
  <1>3. seal'[r] = q
    BY <1>1 DEF SealInv, RequestsInv
  <1>4. SourceInv(r)'
    BY <1>1, <1>2, <1>3 DEF SourceInv, HasRecord, ReadsKey, SealInv, RowsInv
  <1>5. RequestsInv'
    BY <1>1, <1>2, <1>4, OneRequest DEF SealInv
  <1>6. QED
    BY <1>1, <1>5, RowsAreSame DEF SealInv, ReadsAreClear, Nothing

LEMMA DashboardCopiesStep ==
    ASSUME SealInv, NEW r \in SealReq, DashboardCopies(r)
    PROVE  SealInv'
  <1> DEFINE q == [Waiting EXCEPT !.op = "dashboard", !.step = "plan", !.id = current.id, !.file = current.file]
  <1>1. seal' = [seal EXCEPT ![r] = q] /\ read' = Nothing /\ current.id # 0
        /\ UNCHANGED <<masters, superseded, defaultSse, current, currentSse, versions, sealed, ids, plans,
                       keyEvents, markers, overRow>>
    BY DEF DashboardCopies, Sets, RowsStay
  <1>2. q \in SealRequest /\ q.op = "dashboard" /\ q.step = "plan" /\ q.id = current.id /\ q.file = current.file
    BY SseFields DEF SealInv, RowsInv, Row, Waiting, SealRequest
  <1> HIDE DEF q
  <1>3. seal'[r] = q
    BY <1>1 DEF SealInv, RequestsInv
  <1>4. SourceInv(r)'
    BY <1>1, <1>2, <1>3 DEF SourceInv, HasRecord, ReadsKey, SealInv, RowsInv
  <1>5. RequestsInv'
    BY <1>1, <1>2, <1>4, OneRequest DEF SealInv
  <1>6. QED
    BY <1>1, <1>5, RowsAreSame DEF SealInv, ReadsAreClear, Nothing

\* What is found of a version is true of it.
LEMMA FoundIsTrue ==
    ASSUME RowsInv, NEW v \in Found
    PROVE  v.file \in 1..plans /\ v.sse \in Sse /\ True(v.sse, v.file) /\ Sound(v.sse)
  <1>1. CASE \E w \in versions : v = [file |-> w.file, sse |-> w.sse]
    BY <1>1 DEF RowsInv, Version
  <1>2. CASE current.id # 0 /\ v = [file |-> current.file, sse |-> currentSse]
    BY <1>2 DEF RowsInv
  <1>3. QED
    BY <1>1, <1>2 DEF Found

LEMMA BeginVersionStep ==
    ASSUME SealInv, NEW r \in SealReq, NEW op \in {"version", "copy"}, NEW v \in Found, NEW customer \in BOOLEAN,
           BeginVersion(r, op, v, customer)
    PROVE  SealInv'
  <1> DEFINE q == [Waiting EXCEPT !.op = op, !.step = IF op = "copy" THEN "plan" ELSE "drive",
                                  !.file = v.file, !.sse = v.sse, !.customer = customer]
  <1>1. seal' = [seal EXCEPT ![r] = q] /\ read' = Nothing
        /\ UNCHANGED <<masters, superseded, defaultSse, current, currentSse, versions, sealed, ids, plans,
                       keyEvents, markers, overRow>>
    BY DEF BeginVersion, Sets, RowsStay
  <1>2. v.file \in 1..plans /\ v.sse \in Sse /\ True(v.sse, v.file) /\ v.file \in Nat
    <2>1. plans \in Nat
      BY DEF SealInv, FilesInv
    <2>2. QED
      BY <2>1, FoundIsTrue DEF SealInv
  <1>3. q \in SealRequest /\ q.op = op /\ q.step = (IF op = "copy" THEN "plan" ELSE "drive")
        /\ q.file = v.file /\ q.sse = v.sse
    BY <1>2, SseFields DEF Waiting, SealRequest
  <1> HIDE DEF q
  <1>4. seal'[r] = q
    BY <1>1 DEF SealInv, RequestsInv
  <1>5. True(v.sse, v.file)'
    BY <1>1, <1>2 DEF True
  <1>6. SourceInv(r)'
    BY <1>1, <1>2, <1>3, <1>4, <1>5 DEF SourceInv, HasRecord, ReadsKey, True
  <1>7. RequestsInv'
    BY <1>1, <1>3, <1>6, OneRequest DEF SealInv
  <1>8. QED
    BY <1>1, <1>7, RowsAreSame DEF SealInv, ReadsAreClear, Nothing

\* A true and sound record opens its file, or needs a customer's key.
LEMMA Opens ==
    ASSUME NEW f, NEW s, s = sealed[f], Sound(s), NEW customer
    PROVE  Opened(f, s, customer) \in {"clear", "refused"}
  BY DEF Opened, Sound

LEMMA FinishReadStep ==
    ASSUME SealInv, NEW r \in SealReq, FinishRead(r)
    PROVE  SealInv'
  <1> DEFINE q == seal[r]
  <1>1. q.step = "drive" /\ read' = [how |-> q.op, outcome |-> Served(q), moved |-> q.moved]
        /\ seal' = [seal EXCEPT ![r] = Over]
        /\ UNCHANGED <<masters, superseded, defaultSse, current, currentSse, versions, sealed, ids, plans,
                       keyEvents, markers, overRow>>
    BY DEF FinishRead
  <1>2. seal'[r] = Over
    BY <1>1 DEF SealInv, RequestsInv
  <1>3. SourceInv(r)'
    BY <1>2, OverFields DEF SourceInv, HasRecord, ReadsKey
  <1>4. RequestsInv'
    BY <1>1, <1>3, OneRequest, OverFields DEF SealInv
  <1>5. ReadsAreClear'
    <2>1. CASE overRow
      BY <1>1, <2>1 DEF ReadsAreClear
    <2>2. CASE ~overRow /\ q.op = "read" /\ q.moved
      BY <1>1, <2>2 DEF ReadsAreClear
    <2>3. CASE ~overRow /\ ~(q.op = "read" /\ q.moved)
      <3>1. Recorded(q) = sealed[q.file] /\ q.file \in 1..plans
        <4>1. CASE q.op = "version"
          BY <1>1, <2>3, <4>1 DEF SealInv, RequestsInv, SourceInv, HasRecord, True, Recorded
        <4>2. CASE q.op = "read"
          BY <1>1, <2>3, <4>2 DEF SealInv, RequestsInv, RowsInv, SourceInv, ReadsKey, True, Recorded
        <4>3. QED
          BY <1>1, <4>1, <4>2 DEF SealInv, RequestsInv, SourceInv
      <3>2. Sound(sealed[q.file])
        BY <3>1 DEF SealInv, FilesInv
      <3>3. Opened(q.file, Recorded(q), q.customer) \in {"clear", "refused"}
        BY <3>1, <3>2, Opens
      <3>4. Served(q) \in {"clear", "refused"}
        BY <3>1, <3>3 DEF Served
      <3>5. QED
        BY <1>1, <3>4 DEF ReadsAreClear
    <2>4. QED
      BY <2>1, <2>2, <2>3 DEF SealInv, RestInv
  <1>6. QED
    BY <1>1, <1>4, <1>5, RowsAreSame DEF SealInv

-----------------------------------------------------------------------------
(***************************************************************************)
(* Rows that are archived, promoted and deleted.                           *)
(***************************************************************************)

RightRow(v) == v.file \in 1..plans /\ v.vid <= plans /\ Sound(v.sse) /\ True(v.sse, v.file)

\* The rows with the one that is archived are of files of their own.
LEMMA KeptIsRight ==
    ASSUME SealInv
    PROVE  /\ Kept \subseteq Version /\ \A v \in Kept : RightRow(v)
           /\ \A v, w \in Kept : v.file = w.file => v = w
           /\ \A v \in Kept : v \in versions \/ (current.id # 0 /\ v.file = current.file)
  <1> DEFINE c == [vid |-> current.vid, file |-> current.file, sse |-> currentSse]
  <1>1. CASE current.id # 0 /\ defaultSse.versioned
    <2>1. Kept = versions \cup {c}
      BY <1>1 DEF Kept
    <2>2. c \in Version /\ RightRow(c) /\ c.file = current.file
      BY <1>1 DEF SealInv, RowsInv, Row, Version, RightRow
    <2> HIDE DEF c
    <2>3. \A v \in versions : v \in Version /\ RightRow(v) /\ v.file # current.file
      BY DEF SealInv, RowsInv, RightRow
    <2>4. \A v, w \in versions : v.file = w.file => v = w
      BY DEF SealInv, RowsInv
    <2>5. QED
      BY <1>1, <2>1, <2>2, <2>3, <2>4
  <1>2. CASE ~(current.id # 0 /\ defaultSse.versioned)
    <2>1. Kept = versions
      BY <1>2 DEF Kept
    <2>2. QED
      BY <2>1 DEF SealInv, RowsInv, RightRow
  <1>3. QED
    BY <1>1, <1>2

\* What a step that writes rows has to show, of which no file was planned.
LEMMA RowsRewritten ==
    ASSUME SealInv, UNCHANGED <<masters, superseded, sealed, plans>>, overRow => overRow',
           current' \in Row, currentSse' \in Sse, versions' \subseteq Version,
           \A v \in versions' : RightRow(v) /\ v.file # current'.file,
           \A v, w \in versions' : v.file = w.file => v = w,
           current'.id = 0 => current' = Absent /\ currentSse' = Plain,
           current'.id # 0 => /\ current'.file \in 1..plans /\ current'.vid <= plans /\ Sound(currentSse')
                              /\ overRow' \/ currentSse' = sealed[current'.file]
    PROVE  RowsInv' /\ FilesInv'
  <1>1. \A s \in Sse : Sound(s) => Sound(s)'
    BY SoundSame
  <1>2. FilesInv'
    BY <1>1, FilesStayRight DEF SealInv
  <1>3. ASSUME NEW v \in versions'
        PROVE  Sound(v.sse)' /\ True(v.sse, v.file)' /\ v.file \in 1..plans' /\ v.vid <= plans'
    BY <1>1 DEF RightRow, Version, True, Sound, HasMaterial
  <1>4. current'.id # 0 => Sound(currentSse)' /\ True(currentSse, current.file)'
    BY DEF Sound, HasMaterial, True
  <1>5. QED
    BY <1>2, <1>3, <1>4 DEF RowsInv

LEMMA MovedIsTyped ==
    ASSUME RequestsInv
    PROVE  Moved(seal) \in [SealReq -> SealRequest]
  <1>1. \A r \in SealReq : Moved(seal)[r] \in SealRequest
    BY MovedFields
  <1>2. Moved(seal) = [r \in SealReq |-> Moved(seal)[r]]
    BY DEF Moved
  <1>3. QED
    BY <1>1, <1>2

LEMMA DeleteKeyStep ==
    ASSUME SealInv, DeleteKey
    PROVE  SealInv'
  <1>1. /\ keyEvents' = keyEvents + 1 /\ read' = Nothing /\ current.id # 0 /\ versions' = Kept /\ current' = Absent
        /\ currentSse' = Plain /\ seal' = Moved(seal)
        /\ markers' = IF defaultSse.versioned THEN markers + 1 ELSE markers
        /\ UNCHANGED <<masters, superseded, defaultSse, sealed, plans, ids, overRow>>
    BY DEF DeleteKey, Rows
  <1>2. Absent \in Row /\ Absent.id = 0 /\ Absent.file = 0 /\ Plain \in Sse
    BY SseFields DEF Absent, Row
  <1>3. plans \in Nat
    BY DEF SealInv, FilesInv
  <1>4. \A v \in Kept : v.file # 0
    BY <1>3, KeptIsRight DEF RightRow
  <1>5. RowsInv' /\ FilesInv'
    BY <1>1, <1>2, <1>4, KeptIsRight, RowsRewritten
  <1>6. \A r \in SealReq : Uploads(r) => seal[r].target # current'.file /\ \A v \in versions' : v.file # seal[r].target
    BY <1>1, <1>2, <1>3, KeptIsRight DEF SealInv, RequestsInv, UploadInv
  <1>7. RequestsInv'
    BY <1>1, <1>6, MovedIsTyped, RowsMoveRequests DEF SealInv
  <1>8. RestInv' /\ ReadsAreClear'
    BY <1>1 DEF SealInv, RestInv, ReadsAreClear, Nothing
  <1>9. QED
    BY <1>5, <1>7, <1>8 DEF SealInv

LEMMA DeleteArchivedStep ==
    ASSUME SealInv, NEW v \in versions, DeleteArchived(v)
    PROVE  SealInv'
  <1>1. /\ keyEvents' = keyEvents + 1 /\ read' = Nothing /\ versions' = versions \ {v}
        /\ UNCHANGED <<masters, superseded, defaultSse, sealed, plans, current, currentSse, ids, markers, overRow, seal>>
    BY DEF DeleteArchived, Rows
  <1>2. versions' \subseteq versions
    BY <1>1
  <1>3. RowsInv' /\ FilesInv'
    BY <1>1, <1>2, RowsRewritten DEF SealInv, RowsInv, RightRow, True
  <1>4. RequestsInv'
    BY <1>1, <1>2 DEF SealInv, RequestsInv, UploadInv, SourceInv, TargetsApart, Uploads, ReadsKey, HasRecord, True
  <1>5. RestInv' /\ ReadsAreClear'
    BY <1>1 DEF SealInv, RestInv, ReadsAreClear, Nothing
  <1>6. QED
    BY <1>3, <1>4, <1>5 DEF SealInv

\* The record of a promoted version is of its file.
LEMMA PromotedIsRight ==
    ASSUME SealInv, versions # {}, NEW had \in Sse, Sound(had)
    PROVE  /\ Newest \in versions /\ Newest \in Version /\ RightRow(Newest)
           /\ PromotedSse(Newest, had) \in Sse /\ Sound(PromotedSse(Newest, had))
           /\ had = Plain => True(PromotedSse(Newest, had), Newest.file)
           /\ Demoted \subseteq Version /\ \A v \in Demoted : v \in versions /\ RightRow(v) /\ v.file # Newest.file
           /\ \A v, w \in Demoted : v.file = w.file => v = w
  <1>1. Newest \in versions
    BY NewestIsThere DEF SealInv, FilesInv
  <1>2. Newest \in Version /\ RightRow(Newest) /\ Newest.sse \in Sse
    BY <1>1 DEF SealInv, RowsInv, RightRow, Version
  <1>3. PromotedSse(Newest, had) \in Sse /\ Sound(PromotedSse(Newest, had))
    BY <1>2 DEF PromotedSse, RightRow
  <1>4. had = Plain => True(PromotedSse(Newest, had), Newest.file)
    BY <1>2 DEF PromotedSse, RightRow, True, SealInv, FilesInv
  <1>5. \A v \in Demoted : v \in versions /\ RightRow(v) /\ v.file # Newest.file
    BY <1>1 DEF Demoted, SealInv, RowsInv, RightRow
  <1>6. Demoted \subseteq Version /\ \A v, w \in Demoted : v.file = w.file => v = w
    BY DEF Demoted, SealInv, RowsInv
  <1>7. QED
    BY <1>1, <1>2, <1>3, <1>4, <1>5, <1>6

\* The newest version is put in the row.
LEMMA Promotes ==
    ASSUME SealInv, versions # {}, NEW had \in Sse, Sound(had), had = Plain \/ overRow', overRow => overRow',
           NEW id \in Nat, id # 0, current' = [id |-> id, vid |-> Newest.vid, file |-> Newest.file],
           currentSse' = PromotedSse(Newest, had), versions' = Demoted, seal' = Moved(seal),
           UNCHANGED <<masters, superseded, sealed, plans>>
    PROVE  RowsInv' /\ FilesInv' /\ RequestsInv'
  <1>1. current' \in Row /\ current'.id = id /\ current'.vid = Newest.vid /\ current'.file = Newest.file
    BY PromotedIsRight DEF Row, Version
  <1>2. overRow' \/ currentSse' = sealed[current'.file]
    BY <1>1, PromotedIsRight DEF True
  <1>3. current'.file \in 1..plans /\ current'.vid <= plans
    BY <1>1, PromotedIsRight DEF RightRow
  <1>4. RowsInv' /\ FilesInv'
    BY <1>1, <1>2, <1>3, PromotedIsRight, RowsRewritten
  <1>5. \A r \in SealReq : Uploads(r) => seal[r].target # current'.file /\ \A v \in versions' : v.file # seal[r].target
    BY <1>1, PromotedIsRight DEF SealInv, RequestsInv, UploadInv
  <1>6. RequestsInv'
    BY <1>5, MovedIsTyped, RowsMoveRequests DEF SealInv
  <1>7. QED
    BY <1>4, <1>6

LEMMA DeleteCurrentStep ==
    ASSUME SealInv, DeleteCurrent
    PROVE  SealInv'
  <1>1. /\ keyEvents' = keyEvents + 1 /\ read' = Nothing /\ current.id # 0 /\ seal' = Moved(seal)
        /\ UNCHANGED <<masters, superseded, defaultSse, sealed, plans, markers, overRow>>
    BY DEF DeleteCurrent, Rows
  <1>2. ids \in Nat /\ plans \in Nat
    BY DEF SealInv, RestInv, FilesInv
  <1>3. CASE versions = {}
    <2>1. current' = Absent /\ currentSse' = Plain /\ versions' = versions /\ ids' = ids
      BY <1>3 DEF DeleteCurrent
    <2>2. Absent \in Row /\ Absent.id = 0 /\ Absent.file = 0 /\ Plain \in Sse
      BY SseFields DEF Absent, Row
    <2>3. RowsInv' /\ FilesInv'
      BY <1>1, <1>3, <2>1, <2>2, RowsRewritten
    <2>4. \A r \in SealReq : Uploads(r) => seal[r].target # current'.file /\ \A v \in versions' : v.file # seal[r].target
      BY <1>2, <1>3, <2>1, <2>2 DEF SealInv, RequestsInv, UploadInv
    <2>5. RequestsInv'
      BY <1>1, <2>4, MovedIsTyped, RowsMoveRequests DEF SealInv
    <2>6. QED
      BY <1>1, <2>1, <2>3, <2>5 DEF SealInv, RestInv, ReadsAreClear, Nothing
  <1>4. CASE versions # {}
    <2>1. /\ ids' = ids + 1 /\ current' = [id |-> ids + 1, vid |-> Newest.vid, file |-> Newest.file]
          /\ currentSse' = PromotedSse(Newest, Plain) /\ versions' = Demoted
      BY <1>4 DEF DeleteCurrent
    <2>2. RowsInv' /\ FilesInv' /\ RequestsInv'
      BY <1>1, <1>2, <1>4, <2>1, SseFields, PlainIsSound, Promotes
    <2>3. QED
      BY <1>1, <1>2, <2>1, <2>2 DEF SealInv, RestInv, ReadsAreClear, Nothing
  <1>5. QED
    BY <1>3, <1>4

LEMMA DeleteMarkerStep ==
    ASSUME SealInv, DeleteMarker
    PROVE  SealInv'
  <1>1. /\ keyEvents' = keyEvents + 1 /\ read' = Nothing /\ markers > 0 /\ markers' = markers - 1
        /\ UNCHANGED <<masters, superseded, defaultSse, sealed, plans>>
    BY DEF DeleteMarker, Rows
  <1>2. ids \in Nat /\ plans \in Nat /\ markers' \in Nat /\ overRow \in BOOLEAN
    BY <1>1 DEF SealInv, RestInv, FilesInv
  <1>3. CASE versions = {}
    <2>1. UNCHANGED <<current, currentSse, versions, ids, overRow, seal>>
      BY <1>3 DEF DeleteMarker
    <2>2. RowsInv' /\ FilesInv'
      BY <1>1, <2>1, RowsRewritten DEF SealInv, RowsInv, RightRow, True
    <2>3. RequestsInv'
      BY <1>1, <2>1, RequestsStay DEF SealInv
    <2>4. QED
      BY <1>1, <1>2, <2>1, <2>2, <2>3 DEF SealInv, RestInv, ReadsAreClear, Nothing
  <1>4. CASE versions # {}
    <2> DEFINE id == IF current.id = 0 THEN ids + 1 ELSE current.id
    <2>1. /\ ids' = IF current.id = 0 THEN ids + 1 ELSE ids
          /\ current' = [id |-> id, vid |-> Newest.vid, file |-> Newest.file]
          /\ currentSse' = PromotedSse(Newest, currentSse) /\ versions' = Demoted
          /\ overRow' = (overRow \/ current.id # 0) /\ seal' = Moved(seal)
      BY <1>4 DEF DeleteMarker
    <2>2. id \in Nat /\ id # 0 /\ ids' \in Nat
      BY <1>2, <2>1 DEF SealInv, RowsInv, Row
    <2> HIDE DEF id
    <2>3. currentSse \in Sse /\ Sound(currentSse) /\ (currentSse = Plain \/ overRow') /\ (overRow => overRow')
      BY <2>1, PlainIsSound DEF SealInv, RowsInv
    <2>4. RowsInv' /\ FilesInv' /\ RequestsInv'
      BY <1>1, <1>4, <2>1, <2>2, <2>3, Promotes
    <2>5. overRow' \in BOOLEAN
      BY <2>1
    <2>6. QED
      BY <1>1, <1>2, <2>2, <2>4, <2>5 DEF SealInv, RestInv, ReadsAreClear, Nothing
  <1>5. QED
    BY <1>3, <1>4

-----------------------------------------------------------------------------
(***************************************************************************)
(* The commit of a write or a copy.                                        *)
(***************************************************************************)

\* A copy goes by a record that is of its source, unless its row moved.
LEMMA SourceOpens ==
    ASSUME SealInv, NEW r \in SealReq, Uploads(r), seal[r].op \in {"copy", "dashboard"},
           ~overRow, ~(seal[r].op = "dashboard" /\ seal[r].moved)
    PROVE  Opened(seal[r].file, seal[r].sse, seal[r].customer) \in {"clear", "refused"}
  <1>1. HasRecord(r)
    BY DEF HasRecord, Uploads
  <1>2. seal[r].file \in 1..plans /\ seal[r].sse = sealed[seal[r].file]
    BY <1>1 DEF SealInv, RequestsInv, SourceInv, True
  <1>3. Sound(seal[r].sse)
    BY <1>2 DEF SealInv, FilesInv
  <1>4. QED
    BY <1>2, <1>3, Opens

LEMMA CommitStep ==
    ASSUME SealInv, NEW r \in SealReq, Commit(r)
    PROVE  SealInv'
  <1> DEFINE q == seal[r]
             outcome == Opened(q.file, q.sse, q.customer)
  <1>1. /\ q.step = "upload" /\ Uploads(r)
        /\ read' = IF q.op \in {"copy", "dashboard"} THEN [how |-> q.op, moved |-> q.moved, outcome |-> outcome]
                   ELSE Nothing
        /\ UNCHANGED <<masters, superseded, defaultSse, sealed, plans, keyEvents, markers, overRow>>
    BY DEF Commit, Uploads
  <1>2. ids \in Nat /\ plans \in Nat /\ current \in Row
    BY DEF SealInv, RestInv, FilesInv, RowsInv
  <1>3. ReadsAreClear'
    <2>1. CASE q.op \in {"copy", "dashboard"} /\ ~overRow /\ ~(q.op = "dashboard" /\ q.moved)
      <3>1. outcome \in {"clear", "refused"}
        BY <1>1, <2>1, SourceOpens
      <3>2. QED
        BY <1>1, <2>1, <3>1 DEF ReadsAreClear
    <2>2. CASE ~(q.op \in {"copy", "dashboard"})
      BY <1>1, <2>2 DEF ReadsAreClear, Nothing
    <2>3. CASE overRow
      BY <1>1, <2>3 DEF ReadsAreClear
    <2>4. CASE q.op = "dashboard" /\ q.moved
      BY <1>1, <2>4 DEF ReadsAreClear
    <2>5. QED
      BY <2>1, <2>2, <2>3, <2>4 DEF SealInv, RestInv
  <1>4. CASE Failed(q)
    <2>1. seal' = [seal EXCEPT ![r] = Over] /\ UNCHANGED <<current, currentSse, versions, ids>>
      BY <1>4 DEF Commit
    <2>2. seal'[r] = Over
      BY <2>1 DEF SealInv, RequestsInv
    <2>3. SourceInv(r)'
      BY <2>2, OverFields DEF SourceInv, HasRecord, ReadsKey
    <2>4. RequestsInv'
      BY <1>1, <2>1, <2>3, OneRequest, OverFields DEF SealInv
    <2>5. QED
      BY <1>1, <1>3, <2>1, <2>4, RowsAreSame DEF SealInv
  <1>5. CASE ~Failed(q)
    <2> DEFINE id == IF current.id = 0 THEN ids + 1 ELSE current.id
               vid == IF defaultSse.versioned THEN q.target ELSE 0
    <2>1. /\ versions' = Kept /\ ids' = (IF current.id = 0 THEN ids + 1 ELSE ids) /\ currentSse' = q.plan
          /\ current' = [id |-> id, vid |-> vid, file |-> q.target]
          /\ seal' = [Moved(seal) EXCEPT ![r] = Over]
      BY <1>5 DEF Commit
    <2>2. /\ q.target \in 1..plans /\ q.plan = sealed[q.target] /\ q.target # current.file
          /\ \A v \in versions : v.file # q.target
      BY <1>1 DEF SealInv, RequestsInv, UploadInv
    <2>3. id \in Nat /\ id # 0 /\ ids' \in Nat
      BY <1>2, <2>1 DEF Row
    <2>4. vid \in Nat /\ vid <= plans
      BY <1>2, <2>2
    <2>5. current' \in Row /\ current'.id = id /\ current'.vid = vid /\ current'.file = q.target
      BY <1>2, <2>1, <2>2, <2>3, <2>4 DEF Row
    <2> HIDE DEF id, vid
    <2>6. currentSse' \in Sse /\ Sound(currentSse') /\ currentSse' = sealed[current'.file]
      BY <2>1, <2>2, <2>5 DEF SealInv, FilesInv
    <2>7. \A v \in Kept : v.file # q.target
      BY <2>2, KeptIsRight
    <2>8. RowsInv' /\ FilesInv'
      BY <1>1, <2>1, <2>2, <2>3, <2>4, <2>5, <2>6, <2>7, KeptIsRight, RowsRewritten
    <2>9. /\ seal' \in [SealReq -> SealRequest] /\ seal'[r] = Over
          /\ \A s \in SealReq : s # r => seal'[s] = Moved(seal)[s]
      BY <2>1, OverFields, MovedIsTyped DEF SealInv
    <2>10. ASSUME NEW s \in SealReq, Uploads(s), s # r
           PROVE  seal[s].target # current'.file /\ \A v \in versions' : v.file # seal[s].target
      <3>1. seal[s].target # q.target
        BY <1>1, <2>10 DEF SealInv, RequestsInv, TargetsApart
      <3>2. seal[s].target # current.file /\ \A v \in versions : v.file # seal[s].target
        BY <2>10 DEF SealInv, RequestsInv, UploadInv
      <3>3. QED
        BY <2>1, <2>5, <3>1, <3>2, KeptIsRight
    <2>11. RequestsInv'
      BY <1>1, <2>9, <2>10, RowsMoveRequests DEF SealInv
    <2>12. RestInv'
      BY <1>1, <2>3 DEF SealInv, RestInv
    <2>13. QED
      BY <1>3, <2>8, <2>11, <2>12 DEF SealInv
  <1>6. QED
    BY <1>4, <1>5

-----------------------------------------------------------------------------
(***************************************************************************)
(* The plan of a write or a copy.                                          *)
(***************************************************************************)

Schemes == {"none", "sse-s3", "sse-kms", "sse-c"}
Plans(scheme) == IF scheme = "sse-s3" /\ masters[Gateway].version = 0 THEN Created(Gateway) ELSE masters

\* The key a plan names is there once the plan is made, and no key is lost.
LEMMA PlanIsSound ==
    ASSUME SealInv, NEW scheme \in Schemes, NEW k \in Cmk, Plannable(scheme, k),
           masters' = Plans(scheme), superseded' = superseded
    PROVE  /\ masters' \in [Key -> Master]
           /\ \A s \in Sse : Sound(s) => Sound(s)'
           /\ PlanOf(scheme, k) \in Sse /\ (PlanOf(scheme, k).scheme = "none" => PlanOf(scheme, k) = Plain)
           /\ PlanOf(scheme, k).key # "none"
                 => LET p == PlanOf(scheme, k) IN p.version > 0 /\ p.version = masters'[p.key].version
  <1>1. masters \in [Key -> Master] /\ superseded \subseteq Key \X Nat /\ Gateway \in Key /\ k \in Key /\ plans \in Nat
    BY DEF SealInv, RestInv, FilesInv, Key
  <1>2. masters' \in [Key -> Master] /\ \A l \in Key : masters'[l].version = masters[l].version \/ masters[l].version = 0
    <2>1. CASE scheme = "sse-s3" /\ masters[Gateway].version = 0
      BY <1>1, <2>1 DEF Plans, Created, Master
    <2>2. CASE ~(scheme = "sse-s3" /\ masters[Gateway].version = 0)
      BY <1>1, <2>2 DEF Plans
    <2>3. QED
      BY <2>1, <2>2
  <1>3. \A s \in Sse : Sound(s) => Sound(s)'
    BY <1>2, SoundAfterKeys DEF SealInv
  <1> DEFINE p == PlanOf(scheme, k)
  <1>4. p \in Sse /\ (p.scheme = "none" => p = Plain)
        /\ (p.key # "none" => p.version > 0 /\ p.version = masters'[p.key].version)
    <2>1. CASE scheme = "none"
      BY <2>1, SseFields DEF PlanOf
    <2>2. CASE scheme = "sse-c"
      <3>1. p = [scheme |-> scheme, key |-> "none", version |-> 0, of |-> plans + 1]
        BY <2>2 DEF PlanOf, Plain
      <3>2. QED
        BY <1>1, <2>2, <3>1 DEF Sse
    <2>3. CASE scheme = "sse-kms"
      <3>1. p = [scheme |-> scheme, key |-> k, version |-> masters[k].version, of |-> plans + 1]
            /\ masters[k].version > 0 /\ masters' = masters
        BY <2>3 DEF PlanOf, Plannable, KeyUsable, UsedKey, UsedVersion, Plans
      <3>2. masters[k].version \in Nat
        BY <1>1 DEF Master
      <3>3. QED
        BY <1>1, <2>3, <3>1, <3>2 DEF Sse
    <2>4. CASE scheme = "sse-s3"
      <3>1. p = [scheme |-> scheme, key |-> Gateway, version |-> masters'[Gateway].version, of |-> plans + 1]
        BY <1>1, <2>4 DEF PlanOf, UsedKey, UsedVersion, Plans, Created
      <3>2. masters[Gateway].version \in Nat
        BY <1>1 DEF Master
      <3>3. masters'[Gateway].version \in Nat /\ masters'[Gateway].version > 0
        BY <1>1, <2>4, <3>2 DEF Plans, Created
      <3>4. QED
        BY <1>1, <2>4, <3>1, <3>3 DEF Sse, Key
    <2>5. QED
      BY <2>1, <2>2, <2>3, <2>4 DEF Schemes
  <1>5. QED
    BY <1>2, <1>3, <1>4

\* What a request that goes on to upload knows of its source.
LEMMA LookedIsTrue ==
    ASSUME SealInv, NEW r \in SealReq, MayStart(r) \/ seal[r].step = "plan"
    PROVE  /\ Looked(r) \in Sse
           /\ seal[r].op = "copy" \/ (seal[r].op = "dashboard" /\ ~seal[r].moved)
                => seal[r].file \in 1..plans /\ True(Looked(r), seal[r].file)
           /\ seal[r].op \in {"idle", "copy", "dashboard"}
  <1>1. seal[r] \in SealRequest /\ SourceInv(r) /\ currentSse \in Sse
    BY DEF SealInv, RequestsInv, RowsInv
  <1>2. Looked(r) \in Sse
    BY <1>1, SseFields, RequestFields DEF Looked, Recorded
  <1>3. CASE MayStart(r)
    BY <1>2, <1>3, OverFields DEF MayStart
  <1>4. CASE seal[r].step = "plan" /\ seal[r].op = "copy"
    BY <1>1, <1>2, <1>4 DEF SourceInv, HasRecord, Looked
  <1>5. CASE seal[r].step = "plan" /\ seal[r].op = "dashboard" /\ seal[r].moved
    BY <1>2, <1>5
  <1>6. CASE seal[r].step = "plan" /\ seal[r].op = "dashboard" /\ ~seal[r].moved
    <2>1. current.id # 0 /\ current.id = seal[r].id /\ current.file = seal[r].file /\ seal[r].file \in 1..plans
      BY <1>1, <1>6 DEF SourceInv, ReadsKey
    <2>2. Looked(r) = currentSse
      BY <1>6, <2>1 DEF Looked, Recorded
    <2>3. QED
      BY <1>2, <1>6, <2>1, <2>2 DEF SealInv, RowsInv
  <1>7. QED
    BY <1>1, <1>3, <1>4, <1>5, <1>6 DEF SourceInv, SealRequest

LEMMA PlanStep ==
    ASSUME SealInv, NEW r \in SealReq, NEW asked \in Schemes, NEW k \in Cmk, Plan(r, asked, k)
    PROVE  SealInv'
  <1> DEFINE scheme == Wanted(asked)
  <1>1. /\ MayStart(r) \/ seal[r].step = "plan"
        /\ Plannable(scheme, k) /\ masters' = Plans(scheme) /\ plans' = plans + 1
        /\ sealed' = Append(sealed, PlanOf(scheme, k)) /\ read' = Nothing
        /\ UNCHANGED <<superseded, defaultSse, current, currentSse, versions, ids, keyEvents, markers, overRow>>
    BY DEF Plan, Plans
  <1>2. scheme \in Schemes
    BY DEF Wanted, Schemes, SealInv, RestInv
  <1>3. PICK p \in Sse : /\ p = PlanOf(scheme, k) /\ masters' \in [Key -> Master] /\ (p.scheme = "none" => p = Plain)
                         /\ (p.key # "none" => p.version > 0 /\ p.version = masters'[p.key].version)
    BY <1>1, <1>2, PlanIsSound
  <1>4. \A s \in Sse : Sound(s) => Sound(s)'
    BY <1>1, <1>2, PlanIsSound
  <1> DEFINE q == [seal[r] EXCEPT !.op = IF @ = "idle" THEN "put" ELSE @, !.step = "upload",
                                  !.sse = Looked(r), !.plan = p, !.target = plans + 1]
  <1>a. sealed' = Append(sealed, p) /\ seal' = [seal EXCEPT ![r] = q]
    BY <1>1, <1>3 DEF Plan, Sets
  <1> HIDE DEF scheme
  <1>5. /\ Looked(r) \in Sse /\ seal[r].op \in {"idle", "copy", "dashboard"}
        /\ seal[r].op = "copy" \/ (seal[r].op = "dashboard" /\ ~seal[r].moved)
                => seal[r].file \in 1..plans /\ True(Looked(r), seal[r].file)
    BY <1>1, LookedIsTrue
  <1>6. sealed \in Seq(Sse) /\ Len(sealed) = plans /\ plans \in Nat /\ seal[r] \in SealRequest
    BY DEF SealInv, FilesInv, RequestsInv
  <1>7. /\ sealed' \in Seq(Sse) /\ Len(sealed') = plans' /\ plans' \in Nat /\ plans <= plans'
        /\ \A f \in 1..plans : sealed'[f] = sealed[f]
        /\ sealed'[plans + 1] = p
    BY <1>1, <1>3, <1>6, <1>a
  <1>8. Sound(p)'
    BY <1>3 DEF Sound, HasMaterial
  <1>9. FilesInv'
    <2>1. ASSUME NEW f \in 1..plans'
          PROVE  Sound(sealed[f])' /\ (sealed'[f].scheme = "none" => sealed'[f] = Plain)
      <3>1. CASE f \in 1..plans
        <4>1. sealed'[f] = sealed[f] /\ sealed[f] \in Sse /\ Sound(sealed[f])
              /\ (sealed[f].scheme = "none" => sealed[f] = Plain)
          BY <1>7, <3>1 DEF SealInv, FilesInv
        <4>2. Sound(sealed[f])'
          BY <1>4, <4>1 DEF Sound
        <4>3. QED
          BY <4>1, <4>2
      <3>2. CASE f = plans + 1
        <4>1. sealed'[f] = p
          BY <1>7, <3>2
        <4>2. QED
          BY <1>3, <1>8, <4>1 DEF Sound
      <3>3. QED
        BY <1>1, <1>6, <3>1, <3>2
    <2>2. QED
      BY <1>7, <2>1 DEF FilesInv
  <1>10. RowsInv'
    BY <1>1, <1>4, <1>6, <1>7, RowsStayRight DEF SealInv
  <1>11. /\ q \in SealRequest /\ q.op = (IF seal[r].op = "idle" THEN "put" ELSE seal[r].op) /\ q.step = "upload"
         /\ q.sse = Looked(r) /\ q.plan = p /\ q.target = plans + 1 /\ q.moved = seal[r].moved /\ q.file = seal[r].file
    <2> DEFINE op == IF seal[r].op = "idle" THEN "put" ELSE seal[r].op
               n == plans + 1
    <2>1. q = [seal[r] EXCEPT !.op = op, !.step = "upload", !.sse = Looked(r), !.plan = p, !.target = n]
          /\ op \in {"put", "copy", "dashboard"} /\ n \in Nat
      BY <1>5, <1>6
    <2> HIDE DEF op, n, q
    <2>2. /\ q \in SealRequest /\ q.op = op /\ q.step = "upload" /\ q.sse = Looked(r) /\ q.plan = p /\ q.target = n
          /\ q.moved = seal[r].moved /\ q.file = seal[r].file
      BY <1>3, <1>5, <1>6, <2>1 DEF SealRequest
    <2>3. QED
      BY <2>2 DEF op, n
  <1> HIDE DEF q
  <1>12. seal' \in [SealReq -> SealRequest] /\ seal'[r] = q /\ \A s \in SealReq : s # r => seal'[s] = seal[s]
    BY <1>a, <1>11 DEF SealInv, RequestsInv
  <1>13. \A s \in SealReq : Uploads(s)' => s = r \/ Uploads(s)
    BY <1>12 DEF Uploads
  <1>14. \A s \in Sse, f \in 1..plans : True(s, f) => True(s, f)'
    BY <1>1, <1>7 DEF True
  <1>15. ASSUME NEW s \in SealReq PROVE UploadInv(s)' /\ SourceInv(s)'
    <2>1. CASE s = r
      <3>1. \A v \in versions : v.file \in 1..plans
        BY DEF SealInv, RowsInv
      <3>2. current.file # plans + 1
        BY <1>6 DEF SealInv, RowsInv, Absent
      <3>3. UploadInv(s)'
        BY <1>1, <1>5, <1>6, <1>7, <1>11, <1>12, <2>1, <3>1, <3>2 DEF UploadInv
      <3>4. HasRecord(s)' => seal[r].file \in 1..plans /\ True(Looked(r), seal[r].file)
        BY <1>5, <1>11, <1>12, <2>1 DEF HasRecord
      <3>5. HasRecord(s)' => seal'[s].file \in 1..plans' /\ True(seal[s].sse, seal[s].file)'
        BY <1>1, <1>5, <1>6, <1>7, <1>11, <1>12, <2>1, <3>4 DEF True
      <3>6. QED
        BY <1>11, <1>12, <2>1, <3>3, <3>5 DEF SourceInv, ReadsKey
    <2>2. CASE s # r
      <3>1. seal'[s] = seal[s] /\ UploadInv(s) /\ SourceInv(s)
        BY <1>12, <2>2 DEF SealInv, RequestsInv
      <3>2. UploadInv(s)'
        BY <1>1, <1>6, <1>7, <3>1 DEF UploadInv, Uploads
      <3>3. HasRecord(s)' => seal'[s].file \in 1..plans' /\ True(seal[s].sse, seal[s].file)'
        BY <1>1, <1>6, <1>7, <3>1 DEF SourceInv, HasRecord, True
      <3>4. QED
        BY <1>1, <1>6, <3>1, <3>2, <3>3 DEF SourceInv, ReadsKey
    <2>3. QED
      BY <2>1, <2>2
  <1>16. TargetsApart'
    <2>1. \A s \in SealReq : Uploads(s) => seal[s].target \in 1..plans
      BY DEF SealInv, RequestsInv, UploadInv
    <2>2. QED
      BY <1>6, <1>11, <1>12, <1>13, <2>1 DEF TargetsApart, SealInv, RequestsInv
  <1>17. RequestsInv'
    BY <1>12, <1>15, <1>16 DEF RequestsInv
  <1>18. RestInv' /\ ReadsAreClear'
    BY <1>1, <1>3 DEF SealInv, RestInv, ReadsAreClear, Nothing
  <1>19. QED
    BY <1>9, <1>10, <1>17, <1>18 DEF SealInv

-----------------------------------------------------------------------------
LEMMA SealInvInitially == SealInit => SealInv
  <1> SUFFICES ASSUME SealInit PROVE SealInv
    OBVIOUS
  <1>1. RestInv
    BY DEF SealInit, RestInv, Key, Master
  <1>2. FilesInv
    BY DEF SealInit, FilesInv
  <1>3. RowsInv
    BY SseFields DEF SealInit, RowsInv, Absent, Row
  <1>4. RequestsInv
    <2>1. \A r \in SealReq : seal[r] = Waiting
      BY DEF SealInit
    <2>2. \A r \in SealReq : ~Uploads(r) /\ ~ReadsKey(r) /\ ~HasRecord(r)
      BY <2>1, OverFields DEF Uploads, ReadsKey, HasRecord
    <2>3. seal \in [SealReq -> SealRequest]
      BY OverFields DEF SealInit
    <2>4. QED
      BY <2>1, <2>2, <2>3, OverFields DEF RequestsInv, UploadInv, SourceInv, TargetsApart
  <1>5. ReadsAreClear
    BY DEF SealInit, ReadsAreClear, Nothing
  <1>6. QED
    BY <1>1, <1>2, <1>3, <1>4, <1>5 DEF SealInv

LEMMA SealInvKept == SealInv /\ [SealNext]_sealVars => SealInv'
  <1> SUFFICES ASSUME SealInv, [SealNext]_sealVars PROVE SealInv'
    OBVIOUS
  <1>1. ASSUME NEW k \in Cmk, CreateKey(k) PROVE SealInv'
    BY <1>1, KeySteps
  <1>2. ASSUME NEW k \in Cmk \cup {Gateway}, RotateKey(k) \/ \E on \in BOOLEAN : SetKeyStatus(k, on) PROVE SealInv'
    BY <1>2, KeySteps DEF Key
  <1>3. ASSUME NEW r \in SealReq, NEW asked \in {"none", "sse-s3", "sse-kms", "sse-c"}, NEW k \in Cmk, Plan(r, asked, k)
        PROVE  SealInv'
    BY <1>3, PlanStep DEF Schemes
  <1>4. ASSUME NEW r \in SealReq, NEW customer \in BOOLEAN, NEW v \in Found, NEW op \in {"version", "copy"},
               BeginVersion(r, op, v, customer)
        PROVE  SealInv'
    BY <1>4, BeginVersionStep
  <1>5. CASE UNCHANGED sealVars
    <2>1. RequestsInv'
      BY <1>5, RequestsStay DEF SealInv, sealVars
    <2>2. QED
      BY <1>5, <2>1, RowsAreSame DEF SealInv, sealVars, ReadsAreClear
  <1>6. QED
    BY <1>1, <1>2, <1>3, <1>4, <1>5, DeleteKeyStep, DeleteCurrentStep, DeleteMarkerStep, DeleteArchivedStep,
       CommitStep, FinishReadStep, RefuseCopyStep, DashboardCopiesStep, BeginReadStep DEF SealNext

LEMMA SealInvIsSafe == SealInv => SealsSafe
  <1> SUFFICES ASSUME SealInv PROVE SealsSafe
    OBVIOUS
  <1>1. \A v \in Found : True(v.sse, v.file) /\ Sound(v.sse)
    BY FoundIsTrue DEF SealInv
  <1>2. EncryptionTravels /\ KeysAreKept
    BY <1>1 DEF EncryptionTravels, KeysAreKept, True, Sound
  <1>3. SealTypeOK
    <2>1. DOMAIN sealed = 1..plans /\ \A f \in 1..plans : sealed[f] \in Sse
      BY DEF SealInv, FilesInv
    <2>2. \A r \in SealReq : seal[r].sse \in Sse /\ seal[r].plan \in Sse
      BY RequestFields DEF SealInv, RequestsInv
    <2>3. QED
      BY <2>1, <2>2 DEF SealTypeOK, SealInv, RestInv, FilesInv, RowsInv, Key, Master, Row, Version
  <1>4. QED
    BY <1>2, <1>3 DEF SealsSafe, SealInv

\* For any keys, requests, overwrites, rotations, promotions and deletions: the
\* key version that a record names still has its material; and until a promotion
\* is made over a row that is there, what is recorded of a version is how its
\* bytes are encrypted, and reads and copies give what was stored
\* (encryption-service.ts, kms.ts, commitStagedObject, promoteNewestVersion).
THEOREM SealsAreSafe == SealSpec => []SealsSafe
  <1>1. SealInit => SealInv
    BY SealInvInitially
  <1>2. SealInv /\ [SealNext]_sealVars => SealInv'
    BY SealInvKept
  <1>3. SealInv => SealsSafe
    BY SealInvIsSafe
  <1>4. QED
    BY <1>1, <1>2, <1>3, PTL DEF SealSpec

=============================================================================
