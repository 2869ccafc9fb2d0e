----------------------------- MODULE Encryption -----------------------------
(***************************************************************************)
(* Encryption at rest of the versions of one key: the master keys of the   *)
(* bucket's owner, what a write is planned to be encrypted with, where     *)
(* that is recorded, and what a read or a copy decrypts with.              *)
(*                                                                         *)
(* A write's file and its data key are numbered by the plan of the write.  *)
(* What the gateway records of an encryption is kept with the row of the   *)
(* objects table while the version is current, and in the version's own    *)
(* row after.                                                              *)
(***************************************************************************)
EXTENDS Naturals, Sequences, FiniteSets

CONSTANTS
    Cmk,          \* the master keys their owner may create
    SealRequests, \* bound: requests that await something, numbered as they start
    MaxKeyEvents  \* bound: keys made, rotated or switched, and deletions

Gateway == "aws/s3"
ASSUME EncryptionAssumption ==
    /\ Gateway \notin Cmk /\ Cmk # {}
    /\ SealRequests \in Nat /\ MaxKeyEvents \in Nat

VARIABLES
    masters,     \* kms_keys: version, and whether active; version 0 is no key
    superseded,  \* kms_key_versions
    defaultSse,  \* the bucket's default encryption and its versioning
    current,     \* the objects row: its id, version and file
    currentSse,  \* the object_encryption row of that id
    versions,    \* object_versions, encryption columns included
    sealed,      \* how the bytes of each file really are
    seal,        \* the requests
    ids, plans, keyEvents,
    markers,     \* delete markers of the key
    overRow,     \* a promotion has replaced a current row
    read         \* what the last read or copy gave

sealVars == <<masters, superseded, defaultSse, current, currentSse, versions, sealed, seal,
              ids, plans, keyEvents, markers, overRow, read>>

Plain == [scheme |-> "none", key |-> "none", version |-> 0, of |-> 0]
Sse == [scheme : {"none", "sse-s3", "sse-kms", "sse-c"}, key : Cmk \cup {Gateway, "none"},
        version : Nat, of : Nat]
Absent == [id |-> 0, vid |-> 0, file |-> 0]
Waiting == [op |-> "idle", step |-> "idle", id |-> 0, file |-> 0, sse |-> Plain, customer |-> FALSE,
            plan |-> Plain, target |-> 0, moved |-> FALSE]
Nothing == [how |-> "none", outcome |-> "none", moved |-> FALSE]
SealReq == 1..SealRequests

SealTypeOK ==
    /\ masters \in [Cmk \cup {Gateway} -> [version : Nat, active : BOOLEAN]]
    /\ superseded \subseteq (Cmk \cup {Gateway}) \X Nat
    /\ defaultSse \in [scheme : {"none", "sse-s3", "sse-kms"}, versioned : BOOLEAN]
    /\ current \in [id : Nat, vid : Nat, file : Nat]
    /\ currentSse \in Sse
    /\ versions \subseteq [vid : Nat, file : Nat, sse : Sse]
    /\ \A v, w \in versions : v.file = w.file => v = w
    /\ \A v \in versions : v.file # current.file
    /\ DOMAIN sealed = 1..plans /\ \A f \in 1..plans : sealed[f] \in Sse
    /\ \A r \in SealReq : seal[r].sse \in Sse /\ seal[r].plan \in Sse
    /\ ids \in Nat /\ plans \in Nat /\ keyEvents \in Nat /\ markers \in Nat /\ overRow \in BOOLEAN

SealInit ==
    /\ masters = [k \in Cmk \cup {Gateway} |-> [version |-> 0, active |-> FALSE]]
    /\ superseded = {}
    /\ defaultSse \in [scheme : {"none", "sse-kms"}, versioned : BOOLEAN]
    /\ current = Absent /\ currentSse = Plain /\ versions = {}
    /\ sealed = <<>>
    /\ seal = [r \in SealReq |-> Waiting]
    /\ ids = 0 /\ plans = 0 /\ keyEvents = 0 /\ markers = 0 /\ overRow = FALSE
    /\ read = Nothing

-----------------------------------------------------------------------------
(***************************************************************************)
(* The master keys.                                                        *)
(***************************************************************************)

KeyEvent == /\ keyEvents < MaxKeyEvents /\ keyEvents' = keyEvents + 1
            /\ UNCHANGED <<defaultSse, current, currentSse, versions, sealed, seal, ids, plans, markers, overRow>>
            /\ read' = Nothing

Created(k) == [masters EXCEPT ![k] = [version |-> 1, active |-> TRUE]]

CreateKey(k) ==
    /\ KeyEvent
    /\ masters[k].version = 0
    /\ masters' = Created(k) /\ UNCHANGED superseded

Retired(k) == superseded \cup {<<k, masters[k].version>>}

\* rotate: the old material moves to the versions in the same transaction.
RotateKey(k) ==
    /\ KeyEvent
    /\ masters[k].version > 0
    /\ superseded' = Retired(k)
    /\ masters' = [masters EXCEPT ![k].version = @ + 1]

SetKeyStatus(k, active) ==
    /\ KeyEvent
    /\ masters[k].version > 0
    /\ masters' = [masters EXCEPT ![k].active = active] /\ UNCHANGED superseded

HasMaterial(k, version) == version = masters[k].version \/ <<k, version>> \in superseded

-----------------------------------------------------------------------------
(***************************************************************************)
(* planFor.  A header wins over the bucket's default; a write whose key is *)
(* missing or disabled is refused; the gateway's key is made on first use. *)
(***************************************************************************)

Wanted(asked) == IF asked = "none" THEN defaultSse.scheme ELSE asked
KeyUsable(k) == masters[k].version > 0 /\ masters[k].active
GatewayUsable == masters[Gateway].version = 0 \/ masters[Gateway].active

Plannable(scheme, k) ==
    CASE scheme = "sse-kms" -> KeyUsable(k)
      [] scheme = "sse-s3"  -> GatewayUsable
      [] OTHER              -> TRUE

UsedKey(scheme, k) == IF scheme = "sse-s3" THEN Gateway ELSE k
UsedVersion(k) == IF masters[k].version = 0 THEN 1 ELSE masters[k].version

PlanOf(scheme, k) ==
    CASE scheme = "none"  -> Plain
      [] scheme = "sse-c" -> [Plain EXCEPT !.scheme = scheme, !.of = plans + 1]
      [] OTHER -> [scheme |-> scheme, key |-> UsedKey(scheme, k),
                   version |-> UsedVersion(UsedKey(scheme, k)), of |-> plans + 1]

Sets(r, record) == seal' = [seal EXCEPT ![r] = record]
Over == [Waiting EXCEPT !.step = "done"]
RowsStay ==
    /\ UNCHANGED <<masters, superseded, defaultSse, current, currentSse, versions, sealed, ids, plans,
                   keyEvents, markers, overRow>>
    /\ read' = Nothing
MayStart(r) == seal[r] = Waiting /\ \A s \in 1..(r - 1) : seal[s] # Waiting

\* objectEncryption.find of the id the request began with.
Recorded(q) == IF q.op = "version" THEN q.sse
               ELSE IF current.id = q.id THEN currentSse ELSE Plain

\* The dashboard's copy looks up its source's encryption only after it has
\* awaited its body and the access of both owners; the S3 copy looked it up
\* with the row.
Looked(r) == IF seal[r].op = "dashboard" THEN Recorded(seal[r]) ELSE seal[r].sse

\* A write, or a copy that has checked its source, settles how it encrypts
\* and uploads a file encrypted so.
Plan(r, asked, k) ==
    LET scheme == Wanted(asked)
    IN  /\ MayStart(r) \/ seal[r].step = "plan"
        /\ seal[r].op = "dashboard" => asked = "none" /\ Looked(r).scheme # "sse-c"
        /\ Plannable(scheme, k)
        /\ masters' = IF scheme = "sse-s3" /\ masters[Gateway].version = 0 THEN Created(Gateway) ELSE masters
        /\ plans' = plans + 1
        /\ sealed' = Append(sealed, PlanOf(scheme, k))
        /\ Sets(r, [seal[r] EXCEPT !.op = IF @ = "idle" THEN "put" ELSE @, !.step = "upload",
                                   !.sse = Looked(r), !.plan = PlanOf(scheme, k), !.target = plans + 1])
        /\ UNCHANGED <<superseded, defaultSse, current, currentSse, versions, ids, keyEvents, markers, overRow>>
        /\ read' = Nothing

\* The gateway has no customer's key, so the dashboard's copy of an object
\* that is recorded as SSE-C is refused.
RefuseCopy(r) ==
    /\ seal[r].op = "dashboard" /\ seal[r].step = "plan" /\ Looked(r).scheme = "sse-c"
    /\ Sets(r, Over)
    /\ RowsStay

-----------------------------------------------------------------------------
(***************************************************************************)
(* The rows.                                                               *)
(***************************************************************************)

\* The row that is replaced is archived with its encryption columns.
Kept == IF current.id # 0 /\ defaultSse.versioned
        THEN versions \cup {[vid |-> current.vid, file |-> current.file, sse |-> currentSse]}
        ELSE versions

\* The other requests whose row this rewrites.
Moved(s) == [r \in SealReq |-> IF s[r].op \in {"read", "dashboard"} /\ s[r].step \in {"drive", "plan"}
                                  /\ s[r].id = current.id
                               THEN [s[r] EXCEPT !.moved = TRUE] ELSE s[r]]

\* What the read or copy of a file that is encrypted as "sealed" says gives
\* when it is decrypted by what was recorded of it.
Opened(file, sse, customer) ==
    IF (sse.scheme = "sse-c") # customer THEN "refused"
    ELSE IF sse.key # "none" /\ ~HasMaterial(sse.key, sse.version) THEN "error"
    ELSE IF sse = sealed[file] THEN "clear"
    ELSE "garbled"

\* What the copy stores of its source: a source that cannot be opened ends it,
\* bytes that were opened wrongly are stored as they came out.
Failed(q) == q.op \in {"copy", "dashboard"} /\ Opened(q.file, q.sse, q.customer) \in {"refused", "error"}

\* commitStagedObject: the row keeps the id of the one it replaces, and its
\* object_encryption row is replaced or cleared.
Commit(r) ==
    LET q == seal[r]
    IN  /\ q.step = "upload"
        /\ IF Failed(q)
           THEN /\ seal' = [seal EXCEPT ![r] = Over]
                /\ UNCHANGED <<current, currentSse, versions, ids>>
           ELSE /\ versions' = Kept
                /\ ids' = IF current.id = 0 THEN ids + 1 ELSE ids
                /\ current' = [id |-> IF current.id = 0 THEN ids + 1 ELSE current.id,
                               vid |-> IF defaultSse.versioned THEN q.target ELSE 0, file |-> q.target]
                /\ currentSse' = q.plan
                /\ seal' = [Moved(seal) EXCEPT ![r] = Over]
        /\ read' = IF q.op \in {"copy", "dashboard"} THEN [how |-> q.op, moved |-> q.moved,
                      outcome |-> Opened(q.file, q.sse, q.customer)] ELSE Nothing
        /\ UNCHANGED <<masters, superseded, defaultSse, sealed, plans, keyEvents, markers, overRow>>

Newest == CHOOSE v \in versions : \A w \in versions : w.vid <= v.vid
Demoted == versions \ {Newest}

\* Promotion writes the row of the newest version, and its encryption when
\* it has one; a row that was there keeps its id and its object_encryption.
MutPromotedSse(v, had) == had
PromotedSse(v, had) == IF v.sse.scheme = "none" THEN had ELSE v.sse

Rows ==
    /\ keyEvents < MaxKeyEvents /\ keyEvents' = keyEvents + 1
    /\ read' = Nothing
    /\ UNCHANGED <<masters, superseded, defaultSse, sealed, plans>>

\* DELETE of the key: with versioning its row is archived and marked.
DeleteKey ==
    /\ Rows
    /\ current.id # 0
    /\ versions' = Kept
    /\ current' = Absent /\ currentSse' = Plain
    /\ seal' = Moved(seal)
    /\ markers' = IF defaultSse.versioned THEN markers + 1 ELSE markers
    /\ UNCHANGED <<ids, overRow>>

\* DELETE of the current version, of an archived one, and of a delete marker
\* that hides the key or, once the key is written again, hides nothing.
DeleteCurrent ==
    /\ Rows
    /\ current.id # 0
    /\ IF versions = {}
       THEN current' = Absent /\ currentSse' = Plain /\ UNCHANGED <<versions, ids>>
       ELSE /\ ids' = ids + 1
            /\ current' = [id |-> ids + 1, vid |-> Newest.vid, file |-> Newest.file]
            /\ currentSse' = PromotedSse(Newest, Plain)
            /\ versions' = Demoted
    /\ seal' = Moved(seal)
    /\ UNCHANGED <<markers, overRow>>

DeleteArchived(v) ==
    /\ Rows
    /\ versions' = versions \ {v}
    /\ UNCHANGED <<current, currentSse, ids, markers, overRow, seal>>

DeleteMarker ==
    /\ Rows
    /\ markers > 0 /\ markers' = markers - 1
    /\ IF versions = {}
       THEN UNCHANGED <<current, currentSse, versions, ids, overRow, seal>>
       ELSE /\ ids' = IF current.id = 0 THEN ids + 1 ELSE ids
            /\ current' = [id |-> IF current.id = 0 THEN ids + 1 ELSE current.id,
                           vid |-> Newest.vid, file |-> Newest.file]
            /\ currentSse' = PromotedSse(Newest, currentSse)
            /\ versions' = Demoted
            /\ overRow' = (overRow \/ current.id # 0)
            /\ seal' = Moved(seal)

-----------------------------------------------------------------------------
(***************************************************************************)
(* Reads and copies.  A read of the key takes the file before Drive is     *)
(* asked and the object_encryption row after, and the dashboard's copy     *)
(* before and after the checks it awaits; a read of a version and an S3    *)
(* copy take both before.                                                  *)
(***************************************************************************)

BeginRead(r, customer) ==
    /\ MayStart(r)
    /\ current.id # 0
    /\ customer = (currentSse.scheme = "sse-c")
    /\ Sets(r, [Waiting EXCEPT !.op = "read", !.step = "drive", !.id = current.id,
                               !.file = current.file, !.customer = customer])
    /\ RowsStay

\* A version, the current one included, as file and encryption.
Found == {[file |-> v.file, sse |-> v.sse] : v \in versions}
         \cup (IF current.id = 0 THEN {} ELSE {[file |-> current.file, sse |-> currentSse]})

BeginVersion(r, op, v, customer) ==
    /\ MayStart(r)
    /\ op = "version" => customer = (v.sse.scheme = "sse-c")
    /\ Sets(r, [Waiting EXCEPT !.op = op, !.step = IF op = "copy" THEN "plan" ELSE "drive",
                               !.file = v.file, !.sse = v.sse, !.customer = customer])
    /\ RowsStay

DashboardCopies(r) ==
    /\ MayStart(r)
    /\ current.id # 0
    /\ Sets(r, [Waiting EXCEPT !.op = "dashboard", !.step = "plan", !.id = current.id, !.file = current.file])
    /\ RowsStay

\* A row without encryption serves the bytes as they are, whatever key came.
Served(q) == IF Recorded(q) = Plain /\ sealed[q.file] # Plain THEN "garbled"
             ELSE IF Recorded(q) = Plain THEN "clear"
             ELSE Opened(q.file, Recorded(q), q.customer)

FinishRead(r) ==
    LET q == seal[r]
    IN  /\ q.step = "drive"
        /\ read' = [how |-> q.op, outcome |-> Served(q), moved |-> q.moved]
        /\ seal' = [seal EXCEPT ![r] = Over]
        /\ UNCHANGED <<masters, superseded, defaultSse, current, currentSse, versions, sealed, ids, plans,
                       keyEvents, markers, overRow>>

-----------------------------------------------------------------------------
SealNext ==
    \/ \E k \in Cmk : CreateKey(k)
    \/ \E k \in Cmk \cup {Gateway} : RotateKey(k) \/ \E on \in BOOLEAN : SetKeyStatus(k, on)
    \/ DeleteKey \/ DeleteCurrent \/ DeleteMarker
    \/ \E v \in versions : DeleteArchived(v)
    \/ \E r \in SealReq :
         \/ \E asked \in {"none", "sse-s3", "sse-kms", "sse-c"}, k \in Cmk : Plan(r, asked, k)
         \/ Commit(r) \/ FinishRead(r) \/ RefuseCopy(r) \/ DashboardCopies(r)
         \/ \E customer \in BOOLEAN :
              \/ BeginRead(r, customer)
              \/ \E v \in Found, op \in {"version", "copy"} : BeginVersion(r, op, v, customer)

SealSpec == SealInit /\ [][SealNext]_sealVars

-----------------------------------------------------------------------------
(***************************************************************************)
(* Properties.                                                             *)
(***************************************************************************)

\* What the tables record of a version's encryption is how its bytes are
\* encrypted, through overwrites, archiving, deletion and promotion, as long
\* as no promotion has put a version over a current row.
EncryptionTravels == overRow \/ \A v \in Found : v.sse = sealed[v.file]

\* Rotation strands nothing: of every key version that a stored version's
\* data key is wrapped under, the material is still there.
KeysAreKept == \A v \in Found : v.sse.key # "none" => HasMaterial(v.sse.key, v.sse.version)

\* A read of a version, an S3 copy, and a read or a dashboard copy of a key
\* whose row nobody rewrote while Drive or Google was asked give the bytes
\* that were stored or are refused for the lack of the customer's key.
ReadsAreClear == overRow \/ read.how = "none" \/ read.outcome \in {"clear", "refused"} \/ (read.how \in {"read", "dashboard"} /\ read.moved)

\* What encryption at rest promises: the record of a version is of its bytes,
\* its key can still be had, and what is read is what was written.
SealsSafe == SealTypeOK /\ EncryptionTravels /\ KeysAreKept /\ ReadsAreClear

=============================================================================
