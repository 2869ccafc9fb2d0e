------------------------------- MODULE Buckets -------------------------------
(***************************************************************************)
(* The buckets of the gateway: their creation and deletion, their members, *)
(* and the requests that go through them, each split at its awaits.        *)
(*                                                                         *)
(* One name is contended for; a bucket lies in its owner's My Drive or in  *)
(* the one Shared Drive, whose own permissions change at any time.  A row  *)
(* also carries what Authorization asks of it.                             *)
(***************************************************************************)
EXTENDS Authorization

CONSTANTS
    Handler,         \* requests that can be in progress at once
    Documents,       \* the policy documents a request may carry, <<>> to remove one
    MaxBucketEvents  \* bound: requests, changes of Drive permissions, crashes

ASSUME BucketsAssumption == <<>> \in Documents /\ MaxBucketEvents \in Nat

VARIABLES
    buckets,      \* the buckets table, with each row's policy and its object
    members,      \* bucket_members
    shut,         \* members whose access_status is inaccessible
    folders,      \* the bucket folders that exist in Drive
    drive,        \* what the Shared Drive grants each user
    op,           \* the handlers, and what each remembers across its await
    confirmed,    \* history: memberships Drive has confirmed as writers
    bucketEvents

bucketVars == <<buckets, members, shut, folders, drive, op, confirmed, bucketEvents>>

Acl == {"private", "public-read", "public-read-write", "authenticated-read"}
Role == {"viewer", "editor"}
NoRow == [owner |-> NoUser, name |-> "", shared |-> FALSE, status |-> "none",
          acl |-> "private", policy |-> <<>>, object |-> "none"]
Idle == [step |-> "idle", by |-> NoUser, on |-> NoBucket, shared |-> FALSE,
         member |-> NoUser, role |-> "none", action |-> "none"]

BucketTypeOK ==
    /\ buckets \in [BucketId -> [owner : User \cup {NoUser}, name : {"", "n"}, shared : BOOLEAN,
                                 status : {"none", "creating", "active", "deleting", "error"},
                                 acl : Acl, policy : {<<>>} \cup {PolicyOf(d) : d \in {e \in Documents : ParsesPolicy(e)}},
                                 object : Acl \cup {"none"}]]
    /\ members \in [BucketId -> [User -> Role \cup {"none"}]]
    /\ shut \subseteq BucketId \X User
    /\ folders \subseteq BucketId
    /\ drive \in [User -> {"none", "read", "write"}]
    /\ op \in [Handler -> [step : {"idle", "target", "folder", "removal", "grant", "change", "verify", "work"},
                           by : Caller, on : BucketId \cup {NoBucket}, shared : BOOLEAN,
                           member : Caller, role : Role \cup {"none", "owner"}, action : Action \cup {"none"}]]
    /\ confirmed \subseteq BucketId \X User
    /\ bucketEvents \in Nat

BucketInit ==
    /\ buckets = [b \in BucketId |-> NoRow]
    /\ members = [b \in BucketId |-> [u \in User |-> "none"]]
    /\ shut = {} /\ folders = {} /\ confirmed = {}
    /\ drive \in [User -> {"read", "write"}]
    /\ op = [h \in Handler |-> Idle]
    /\ bucketEvents = 0

CountBucketEvent == bucketEvents < MaxBucketEvents /\ bucketEvents' = bucketEvents + 1

Exists(b) == buckets[b].status # "none"
Fresh == {b \in BucketId : ~Exists(b) /\ \A h \in Handler : op[h].on # b}
Ends(h) == op' = [op EXCEPT ![h] = Idle]
Waits(h, o) == op[h] = Idle /\ op' = [op EXCEPT ![h] = o]
Reads(u) == drive[u] \in {"read", "write"}
Writes(u) == drive[u] = "write"

\* findById for an operation of the owner.
Owned(u, b) == buckets[b].status = "active" /\ buckets[b].owner = u

-----------------------------------------------------------------------------
(***************************************************************************)
(* Creation and deletion.                                                  *)
(***************************************************************************)

\* hasAccessibleName: buckets that failed or are being deleted do not count.
HasAccessibleName(u, except) ==
    \E b \in BucketId \ {except} :
        /\ buckets[b].status \in {"creating", "active"}
        /\ buckets[b].owner = u \/ members[b][u] # "none"

\* findByName: the owner's row of the name, whatever its status.
HasRow(u) == \E b \in BucketId : Exists(b) /\ buckets[b].owner = u

CreateBucket(h, u, shared) ==
    /\ CountBucketEvent
    /\ ~HasAccessibleName(u, NoBucket) /\ ~HasRow(u)
    /\ Waits(h, [Idle EXCEPT !.step = "target", !.by = u, !.shared = shared])
    /\ UNCHANGED <<buckets, members, shut, folders, drive, confirmed>>

NewRow(u, shared) ==
    [NoRow EXCEPT !.owner = u, !.name = "n", !.shared = shared, !.status = "creating"]

\* The Shared Drive is validated and the root folder found or made, both in
\* awaits; then the row is inserted, unless UNIQUE (user_id, name) forbids it.
TargetAnswers(h) ==
    /\ op[h].step = "target"
    /\ \/ /\ op[h].shared => Writes(op[h].by)
          /\ ~HasRow(op[h].by)
          /\ \E b \in Fresh :
               /\ buckets' = [buckets EXCEPT ![b] = NewRow(op[h].by, op[h].shared)]
               /\ op' = [op EXCEPT ![h].step = "folder", ![h].on = b]
       \/ Ends(h) /\ UNCHANGED buckets
    /\ UNCHANGED <<members, shut, folders, drive, confirmed, bucketEvents>>

\* createBucketFolder: done, refused, or done with its answer lost.
FolderAnswers(h) ==
    /\ op[h].step = "folder"
    /\ \E made \in BOOLEAN, told \in BOOLEAN :
         /\ told => made
         /\ folders' = IF made THEN folders \cup {op[h].on} ELSE folders
         /\ buckets' = [buckets EXCEPT ![op[h].on].status = IF told THEN "active" ELSE "error"]
    /\ Ends(h)
    /\ UNCHANGED <<members, shut, drive, confirmed, bucketEvents>>

\* hasObjects; it counts unfinished multipart uploads as well.
HasObjects(b) == buckets[b].object # "none"

MutWhileDeleting == "active"
WhileDeleting == "deleting"

DeleteBucket(h, u, b) ==
    /\ CountBucketEvent
    /\ Owned(u, b) /\ ~HasObjects(b)
    /\ buckets' = [buckets EXCEPT ![b].status = WhileDeleting]
    /\ Waits(h, [Idle EXCEPT !.step = "removal", !.by = u, !.on = b])
    /\ UNCHANGED <<members, shut, folders, drive, confirmed>>

\* The row goes with its members and its objects; after an error it stays.
FolderRemoved(h) ==
    /\ op[h].step = "removal"
    /\ \E gone \in BOOLEAN, told \in BOOLEAN :
         /\ told => gone
         /\ folders' = IF gone THEN folders \ {op[h].on} ELSE folders
         /\ IF told
            THEN /\ buckets' = [buckets EXCEPT ![op[h].on] = NoRow]
                 /\ members' = [members EXCEPT ![op[h].on] = [u \in User |-> "none"]]
                 /\ shut' = {s \in shut : s[1] # op[h].on}
                /\ confirmed' = {s \in confirmed : s[1] # op[h].on}
            ELSE UNCHANGED <<buckets, members, shut, confirmed>>
    /\ Ends(h)
    /\ UNCHANGED <<drive, bucketEvents>>

-----------------------------------------------------------------------------
(***************************************************************************)
(* Members.  Each role is validated against Drive before it is written.    *)
(***************************************************************************)

AddMember(h, u, b, m, role) ==
    /\ CountBucketEvent
    /\ Owned(u, b) /\ buckets[b].shared /\ m # u
    /\ ~HasAccessibleName(m, b)
    /\ Waits(h, [Idle EXCEPT !.step = "grant", !.by = u, !.on = b, !.member = m, !.role = role])
    /\ UNCHANGED <<buckets, members, shut, folders, drive, confirmed>>

UpdateMember(h, u, b, m, role) ==
    /\ CountBucketEvent
    /\ Owned(u, b) /\ buckets[b].shared
    /\ members[b][m] # "none"
    /\ Waits(h, [Idle EXCEPT !.step = "change", !.by = u, !.on = b, !.member = m, !.role = role])
    /\ UNCHANGED <<buckets, members, shut, folders, drive, confirmed>>

Suffices(h) == IF op[h].role = "editor" THEN Writes(op[h].member) ELSE Reads(op[h].member)

Confirmed(b, m) == IF Writes(m) THEN confirmed \cup {<<b, m>>} ELSE confirmed

\* add: inserts the row or updates the one there is, and opens it again.
Added(b, m, role) ==
    /\ members' = [members EXCEPT ![b][m] = role]
    /\ shut' = shut \ {<<b, m>>}
    /\ confirmed' = Confirmed(b, m)

GrantAnswers(h) ==
    LET b == op[h].on  m == op[h].member
    IN  /\ op[h].step = "grant"
        /\ IF Suffices(h) /\ Exists(b) THEN Added(b, m, op[h].role) ELSE UNCHANGED <<members, shut, confirmed>>
        /\ Ends(h)
        /\ UNCHANGED <<buckets, folders, drive, bucketEvents>>

\* setRole: an UPDATE, which finds no row of somebody who was removed.
IsRow(b, m) == members[b][m] # "none"

ChangeAnswers(h) ==
    LET b == op[h].on  m == op[h].member
    IN  /\ op[h].step = "change"
        /\ IF Suffices(h) /\ IsRow(b, m)
           THEN members' = [members EXCEPT ![b][m] = op[h].role] /\ confirmed' = Confirmed(b, m)
           ELSE UNCHANGED <<members, confirmed>>
        /\ Ends(h)
        /\ UNCHANGED <<buckets, shut, folders, drive, bucketEvents>>

RemoveMember(u, b, m) ==
    /\ CountBucketEvent
    /\ Owned(u, b) /\ members[b][m] # "none"
    /\ members' = [members EXCEPT ![b][m] = "none"]
    /\ shut' = shut \ {<<b, m>>}
    /\ UNCHANGED <<buckets, folders, drive, op, confirmed>>

-----------------------------------------------------------------------------
(***************************************************************************)
(* Requests for objects.                                                   *)
(***************************************************************************)

Asks(u, action) == [user |-> u, action |-> action, keyed |-> TRUE, ip |-> "inside", secure |-> TRUE]
EffectiveRole(u, b) == IF buckets[b].owner = u THEN "owner" ELSE members[b][u]

\* An anonymous caller acts with the Drive of the bucket's owner, and the row
\* a name without a member was resolved to calls its caller a viewer.
DriveActor(u, b) == IF u = NoUser THEN buckets[b].owner ELSE u
RoleOfRow(u, b) == IF u = NoUser \/ EffectiveRole(u, b) = "none" THEN "viewer" ELSE EffectiveRole(u, b)

Begins(h, actor, b, role, action) ==
    Waits(h, [Idle EXCEPT !.step = IF buckets[b].shared THEN "verify" ELSE "work",
                          !.by = actor, !.on = b, !.role = role, !.action = action])

\* An S3 request; a read of a My Drive bucket changes nothing and is left out.
S3Request(h, u, action) ==
    LET r == Asks(u, action)
        b == ResolveBucket(buckets, members, "n", r)
    IN  /\ CountBucketEvent
        /\ AuthorizeBucket(buckets, members, "n", r) = "Allowed"
        /\ action \in WriteActions \/ buckets[b].shared
        /\ Begins(h, DriveActor(u, b), b, RoleOfRow(u, b), action)
        /\ UNCHANGED <<buckets, members, shut, folders, drive, confirmed>>

\* The dashboard asks for the role and for an access_status that is active.
DashboardRequest(h, u, b, action) ==
    LET role == EffectiveRole(u, b)
    IN  /\ CountBucketEvent
        /\ buckets[b].status = "active"
        /\ role \in (IF action \in WriteActions THEN {"owner", "editor"} ELSE {"owner", "editor", "viewer"})
        /\ <<b, u>> \notin shut
        /\ action \in WriteActions \/ buckets[b].shared
        /\ Begins(h, u, b, role, action)
        /\ UNCHANGED <<buckets, members, shut, folders, drive, confirmed>>

\* markAccess: an UPDATE, which finds no row of somebody who left.
\* markAccess.
Marked(b, u, passes) ==
    IF ~IsRow(b, u) THEN shut
    ELSE IF passes THEN shut \ {<<b, u>>} ELSE shut \cup {<<b, u>>}

Verified(h) ==
    LET b == op[h].on  u == op[h].by
        passes == IF op[h].action \in WriteActions THEN Writes(u) ELSE Reads(u)
    IN  /\ op[h].step = "verify"
        /\ shut' = IF op[h].role = "owner" THEN shut ELSE Marked(b, u, passes)
        /\ IF passes /\ op[h].action \in WriteActions THEN op' = [op EXCEPT ![h].step = "work"] ELSE Ends(h)
        /\ UNCHANGED <<buckets, members, folders, drive, confirmed, bucketEvents>>

\* A put or a delete ends: its bytes were stored or not, and its commit needs
\* the bucket's row, whatever the row's status.
Worked(h) ==
    LET b == op[h].on
    IN  /\ op[h].step = "work"
        /\ \/ /\ Exists(b)
              /\ buckets' = [buckets EXCEPT ![b].object = IF op[h].action = "PutObject" THEN "private" ELSE "none"]
           \/ UNCHANGED buckets
        /\ Ends(h)
        /\ UNCHANGED <<members, shut, folders, drive, confirmed, bucketEvents>>

-----------------------------------------------------------------------------
(***************************************************************************)
(* The access settings of a bucket, and the environment.                   *)
(***************************************************************************)

\* The dashboard asks for the owner, an S3 request for the decision on action.
Configures(u, b, action) ==
    LET r == [user |-> u, action |-> action, keyed |-> FALSE, ip |-> "inside", secure |-> TRUE]
    IN  \/ Owned(u, b)
        \/ b = ResolveBucket(buckets, members, "n", r) /\ AuthorizeBucket(buckets, members, "n", r) = "Allowed"

\* The ACL of the header, or the one the grants of the body stand for.
PutAcl(u, b, grants) ==
    /\ CountBucketEvent
    /\ Configures(u, b, "PutBucketAcl")
    /\ CannedAcl(grants) # "malformed"
    /\ buckets' = [buckets EXCEPT ![b].acl = CannedAcl(grants)]
    /\ UNCHANGED <<members, shut, folders, drive, op, confirmed>>

\* A document that does not parse is never stored.
PutPolicy(u, b, document) ==
    /\ CountBucketEvent
    /\ Configures(u, b, "PutBucketPolicy")
    /\ document = <<>> \/ ParsesPolicy(document)
    /\ buckets' = [buckets EXCEPT ![b].policy = PolicyOf(document)]
    /\ UNCHANGED <<members, shut, folders, drive, op, confirmed>>

DriveChanges(u, grant) ==
    /\ CountBucketEvent
    /\ drive[u] # grant
    /\ drive' = [drive EXCEPT ![u] = grant]
    /\ UNCHANGED <<buckets, members, shut, folders, op, confirmed>>

CrashBuckets ==
    /\ CountBucketEvent
    /\ \E h \in Handler : op[h] # Idle
    /\ op' = [h \in Handler |-> Idle]
    /\ UNCHANGED <<buckets, members, shut, folders, drive, confirmed>>

BucketNext ==
    \/ \E h \in Handler :
         \/ TargetAnswers(h) \/ FolderAnswers(h) \/ FolderRemoved(h)
         \/ GrantAnswers(h) \/ ChangeAnswers(h) \/ Verified(h) \/ Worked(h)
         \/ \E u \in User, shared \in BOOLEAN : CreateBucket(h, u, shared)
         \/ \E u \in Caller, action \in {"GetObject", "PutObject", "DeleteObject"} : S3Request(h, u, action)
         \/ \E u \in User, b \in BucketId :
              \/ DeleteBucket(h, u, b)
              \/ \E action \in {"GetObject", "PutObject", "DeleteObject"} : DashboardRequest(h, u, b, action)
              \/ \E m \in User, role \in Role : AddMember(h, u, b, m, role) \/ UpdateMember(h, u, b, m, role)
    \/ \E u \in User, b \in BucketId :
         \/ \E m \in User : RemoveMember(u, b, m)
         \/ \E grants \in SUBSET [to : {"all", "authenticated"}, permission : {"READ", "WRITE"}] : PutAcl(u, b, grants)
         \/ \E document \in Documents : PutPolicy(u, b, document)
    \/ \E u \in User, grant \in {"none", "read", "write"} : DriveChanges(u, grant)
    \/ CrashBuckets

BucketSpec == BucketInit /\ [][BucketNext]_bucketVars

-----------------------------------------------------------------------------
(***************************************************************************)
(* Correctness.                                                            *)
(***************************************************************************)

\* A bucket that can be used has its Drive folder: a deletion in progress,
\* refused or half done never leaves an active bucket without one.
ActiveHasFolder == \A b \in BucketId : buckets[b].status = "active" => b \in folders

\* Whoever is an editor was confirmed by Drive as somebody who may write,
\* also when roles are granted, changed and removed while Drive is asked.
EditorWasWriter ==
    \A b \in BucketId, u \in User : members[b][u] = "editor" => <<b, u>> \in confirmed

\* A membership appears only by a grant that was asked for: a change of role
\* that was validated while the member was removed does not bring it back.
OnlyGrantsAdd ==
    [][\A b \in BucketId, u \in User :
         members'[b][u] \notin {"none", members[b][u]} =>
            \E h \in Handler : /\ op[h].on = b /\ op[h].member = u /\ op[h].role = members'[b][u]
                              /\ op[h].step \in (IF members[b][u] = "none" THEN {"grant"} ELSE {"grant", "change"})]_bucketVars

\* No policy and no ACL lets somebody who is neither the owner nor a member
\* read the policy or change the policy or the ACL.
ControlStaysInside ==
    \A b \in BucketId, r \in Request :
        (r.action \in OwnerOnly /\ IsAllowed(buckets[b], members, b, r) /\ r.user # NoUser)
            => r.user = buckets[b].owner \/ members[b][r.user] # "none"

\* A statement that denies an action to everybody binds the owner, the
\* members and the ACLs alike.
DenyBinds ==
    \A b \in BucketId, r \in Request :
        (\E i \in DOMAIN buckets[b].policy :
            buckets[b].policy[i].effect = "Deny" /\ Applies(buckets[b].policy[i], r))
        => ~IsAllowed(buckets[b], members, b, r)

\* Whoever has exactly one bucket of a name gets that bucket, whatever other
\* users publish under the name.
OwnNameWins ==
    \A r \in Request, b \in BucketId :
        (r.user # NoUser /\ Accessible(buckets, members, r.user, "n") = {b})
            => ResolveBucket(buckets, members, "n", r) = b

\* Buckets that grant a caller nothing do not hide the one that does: with
\* exactly one bucket of the name open to the caller, the request is served.
ClosedNeverHide ==
    \A r \in Request :
        LET open == {b \in BucketId : buckets[b].status = "active" /\ IsAllowed(buckets[b], members, b, r)}
        IN  (Cardinality(open) = 1 /\ (r.user = NoUser \/ Accessible(buckets, members, r.user, "n") = {}))
                => AuthorizeBucket(buckets, members, "n", r) = "Allowed"

\* The grants a client reads with GET ?acl are stored by PUT ?acl as the ACL
\* they came from.
AclRoundTrips == \A b \in BucketId : CannedAcl(GrantsForAcl(buckets[b].acl)) = buckets[b].acl

\* The dashboard's public badge is on whenever the bucket itself, and not the
\* ACL of an object, admits the anonymous public (policies without NotPrincipal).
BadgeTells ==
    \A b \in BucketId, r \in Request :
        (/\ r.user = NoUser
         /\ \A i \in DOMAIN buckets[b].policy : ~buckets[b].policy[i].negated
         /\ IsAllowed([buckets[b] EXCEPT !.object = "none"], members, b, r))
            => IsPublic(buckets[b])

\* bucket-service.ts:1-3: the service "enforces idempotency + non-empty delete
\* rules", so a bucket that holds an object is never deleted.
HoldingIsKept ==
    [][\A b \in BucketId : (Exists(b) /\ HasObjects(b)) => Exists(b)']_bucketVars

\* What every decision keeps to: control stays with the owner, a deny binds,
\* one's own bucket comes first, a closed one hides none, the badge tells who
\* can read, and an ACL reads back as it was written.
DecisionsSafe ==
    /\ ControlStaysInside /\ DenyBinds /\ OwnNameWins
    /\ ClosedNeverHide /\ BadgeTells /\ AclRoundTrips

\* What the management of buckets promises: an active bucket has its folder,
\* an editor could write when made one, and only grants add to who has access.
BucketsSafe == [](BucketTypeOK /\ ActiveHasFolder /\ EditorWasWriter) /\ OnlyGrantsAdd

=============================================================================
