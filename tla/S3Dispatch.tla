----------------------------- MODULE S3Dispatch -----------------------------
(***************************************************************************)
(* Which operation the router gives a request to, and which callers that   *)
(* operation admits.  A state is one request; nothing happens to it, so    *)
(* the invariants quantify over all requests of two query parameters.      *)
(***************************************************************************)
EXTENDS Authorization, TLC

VARIABLE asked

Method == {"GET", "HEAD", "PUT", "POST", "DELETE"}
BucketParam == {"acl", "policyStatus", "policy", "object-lock", "versioning", "versions", "encryption", "location"}
Param == BucketParam \cup {"retention", "legal-hold", "uploads", "uploadId", "partNumber", "delete", "list-type"}
Level == {"service", "bucket", "object"}

-----------------------------------------------------------------------------
(***************************************************************************)
(* dispatch.  The first parameter that has a rule decides.                 *)
(***************************************************************************)

On(param, ops) == [param |-> param, ops |-> ops]

BucketRules ==
    <<On("acl", [GET |-> "GetBucketAcl", PUT |-> "PutBucketAcl"]),
      On("policyStatus", [GET |-> "GetBucketPolicyStatus"]),
      On("policy", [GET |-> "GetBucketPolicy", PUT |-> "PutBucketPolicy", DELETE |-> "DeleteBucketPolicy"]),
      On("object-lock", [GET |-> "GetObjectLockConfiguration", PUT |-> "PutObjectLockConfiguration"]),
      On("versioning", [GET |-> "GetBucketVersioning", PUT |-> "PutBucketVersioning"]),
      On("versions", [GET |-> "ListObjectVersions"]),
      On("encryption", [GET |-> "GetBucketEncryption", PUT |-> "PutBucketEncryption", DELETE |-> "DeleteBucketEncryption"]),
      On("location", [GET |-> "GetBucketLocation"])>>

\* Without one of those: uploads counts for GET, delete for POST only.
PlainBucket(params) ==
    [GET |-> IF "uploads" \in params THEN "ListMultipartUploads" ELSE "ListObjects",
     PUT |-> "CreateBucket", HEAD |-> "HeadBucket", DELETE |-> "DeleteBucket"]
BulkBucket == [POST |-> "DeleteObjects"]

ObjectRules(r) ==
    <<On("retention", [GET |-> "GetObjectRetention", PUT |-> "PutObjectRetention"]),
      On("legal-hold", [GET |-> "GetObjectLegalHold", PUT |-> "PutObjectLegalHold"]),
      On("acl", [GET |-> "GetObjectAcl", PUT |-> "PutObjectAcl"])>>
    \o (IF r.method = "POST" THEN <<On("uploads", [POST |-> "CreateMultipartUpload"])>> ELSE <<>>)
    \o <<On("uploadId",
            [GET |-> "ListParts", POST |-> "CompleteMultipartUpload", DELETE |-> "AbortMultipartUpload",
             PUT |-> IF "partNumber" \notin r.params THEN "MethodNotAllowed"
                     ELSE IF r.copy THEN "UploadPartCopy" ELSE "UploadPart"])>>
PlainObject(copy) ==
    [PUT |-> IF copy THEN "CopyObject" ELSE "PutObject",
     GET |-> "GetObject", HEAD |-> "HeadObject", DELETE |-> "DeleteObject"]

Of(ops, method) == IF method \in DOMAIN ops THEN ops[method] ELSE "MethodNotAllowed"
Decided(rules, r, plain) ==
    LET hits == {i \in DOMAIN rules : rules[i].param \in r.params}
    IN  IF hits = {} THEN Of(plain, r.method)
        ELSE Of(rules[CHOOSE i \in hits : \A j \in hits : i <= j].ops, r.method)

Dispatch(r) ==
    CASE r.level = "service" -> IF r.method = "GET" THEN "ListBuckets" ELSE "MethodNotAllowed"
      [] r.level = "bucket"  -> Decided(BucketRules, r,
                                        IF r.method = "POST" /\ "delete" \in r.params THEN BulkBucket
                                        ELSE PlainBucket(r.params))
      [] r.level = "object"  -> Decided(ObjectRules(r), r, PlainObject(r.copy))

-----------------------------------------------------------------------------
(***************************************************************************)
(* What each operation asks of its caller: an account (requireUser), an S3 *)
(* action of authorizeBucket, or a role for the operation that findByName  *)
(* is asked for.                                                           *)
(***************************************************************************)

Changes == {"PutBucketAcl", "PutBucketPolicy", "DeleteBucketPolicy", "PutObjectLockConfiguration", "PutBucketVersioning",
            "PutBucketEncryption", "DeleteBucketEncryption", "CreateBucket", "DeleteBucket", "DeleteObjects",
            "PutObjectRetention", "PutObjectLegalHold", "PutObjectAcl", "CreateMultipartUpload", "UploadPart",
            "UploadPartCopy", "CompleteMultipartUpload", "AbortMultipartUpload", "CopyObject", "PutObject", "DeleteObject"}

Anybody(action) == [user |-> FALSE, action |-> action, roles |-> {}]
AnAccount(action) == [user |-> TRUE, action |-> action, roles |-> {}]
Members(roles) == [user |-> TRUE, action |-> "none", roles |-> roles]
Readers == {"owner", "editor", "viewer"}
Writers == {"owner", "editor"}

AclPolicyGuards ==
    [GetBucketAcl |-> Anybody("GetBucketAcl"), PutBucketAcl |-> AnAccount("PutBucketAcl"),
     GetObjectAcl |-> Anybody("GetObjectAcl"), PutObjectAcl |-> AnAccount("PutObjectAcl"),
     GetBucketPolicy |-> AnAccount("GetBucketPolicy"), PutBucketPolicy |-> AnAccount("PutBucketPolicy"),
     DeleteBucketPolicy |-> AnAccount("PutBucketPolicy"), GetBucketPolicyStatus |-> AnAccount("GetBucketPolicy")]
SettingGuards ==
    [GetBucketEncryption |-> AnAccount("GetBucketAcl"), PutBucketEncryption |-> AnAccount("PutBucketAcl"),
     DeleteBucketEncryption |-> AnAccount("PutBucketAcl"), GetBucketLocation |-> Anybody("GetBucketLocation")]
MutLockGuards ==
    [GetObjectRetention |-> Anybody("GetObject"), PutObjectRetention |-> AnAccount("GetObject"),
     GetObjectLegalHold |-> Anybody("GetObject"), PutObjectLegalHold |-> AnAccount("PutObject"),
     GetObjectLockConfiguration |-> Anybody("ListBucket"), PutObjectLockConfiguration |-> AnAccount("PutBucketAcl")]
LockGuards ==
    [GetObjectRetention |-> Anybody("GetObject"), PutObjectRetention |-> AnAccount("PutObject"),
     GetObjectLegalHold |-> Anybody("GetObject"), PutObjectLegalHold |-> AnAccount("PutObject"),
     GetObjectLockConfiguration |-> Anybody("ListBucket"), PutObjectLockConfiguration |-> AnAccount("PutBucketAcl")]
VersioningGuards ==
    [GetBucketVersioning |-> Anybody("ListBucket"), PutBucketVersioning |-> AnAccount("PutBucketAcl"),
     ListObjectVersions |-> Anybody("ListBucket")]
BucketGuards ==
    [ListBuckets |-> AnAccount("none"), CreateBucket |-> AnAccount("none"), HeadBucket |-> Anybody("ListBucket"),
     DeleteBucket |-> Members({"owner"}), ListObjects |-> Anybody("ListBucket")]
ObjectGuards ==
    [PutObject |-> Anybody("PutObject"), HeadObject |-> Anybody("GetObject"), GetObject |-> Anybody("GetObject"),
     DeleteObject |-> Anybody("DeleteObject"), DeleteObjects |-> Anybody("DeleteObject"),
     CopyObject |-> AnAccount("PutObject"), UploadPartCopy |-> AnAccount("PutObject")]
MultipartGuards ==
    [CreateMultipartUpload |-> Members(Writers), UploadPart |-> Members(Writers), ListParts |-> Members(Readers),
     CompleteMultipartUpload |-> Members(Writers), AbortMultipartUpload |-> Members(Writers),
     ListMultipartUploads |-> Members(Readers)]

Guard == AclPolicyGuards @@ SettingGuards @@ LockGuards @@ VersioningGuards @@ BucketGuards @@ ObjectGuards @@ MultipartGuards

\* A caller of a bucket: its role there, and the ACL of the bucket; the object
\* has none of its own and the bucket has no policy.
Visitor == [role : {"anonymous", "stranger", "viewer", "editor", "owner"},
           acl : {"private", "authenticated-read", "public-read", "public-read-write"}]

CallerOf(c) == IF c.role = "anonymous" THEN NoUser ELSE CHOOSE u \in User : TRUE
Other == CHOOSE u \in User : u # CHOOSE v \in User : TRUE
RowOf(c) == [owner |-> IF c.role = "owner" THEN CallerOf(c) ELSE Other, acl |-> c.acl, object |-> "none", policy |-> <<>>]
MembersOf(c) == [b \in BucketId |-> [u \in User |-> IF u = CallerOf(c) /\ c.role \in {"viewer", "editor"} THEN c.role ELSE "none"]]

Admits(op, c) ==
    LET guard == Guard[op]
    IN  /\ op # "MethodNotAllowed"
        /\ guard.user => c.role # "anonymous"
        /\ guard.roles # {} => c.role \in guard.roles
        /\ guard.action # "none" =>
              IsAllowed(RowOf(c), MembersOf(c), CHOOSE b \in BucketId : TRUE,
                        [user |-> CallerOf(c), action |-> guard.action, keyed |-> FALSE, ip |-> "", secure |-> TRUE])

DispatchInit ==
    asked \in {r \in [level : Level, method : Method, params : {{p, q} : p, q \in Param} \cup {{}}, copy : BOOLEAN] :
                 r.level = "service" => r.params = {}}

-----------------------------------------------------------------------------
(***************************************************************************)
(* Properties.                                                             *)
(***************************************************************************)

\* A caller whom only a viewer's role or an ACL that grants reading lets in
\* changes nothing of a bucket, whatever it asks for; a bucket of its own it
\* may create.
ReadersChangeNothing ==
    \A c \in Visitor :
       (c.role \in {"anonymous", "stranger", "viewer"} /\ c.acl # "public-read-write" /\ Admits(Dispatch(asked), c))
       => Dispatch(asked) \notin Changes \ {"CreateBucket"}

\* Without credentials a caller changes objects at most, where the bucket's ACL
\* lets it: never a lock, an ACL, a setting or a multipart upload, which read
\* the account they act for.
AnonymousChangesObjectsOnly ==
    \A c \in Visitor :
       (c.role = "anonymous" /\ Admits(Dispatch(asked), c) /\ Dispatch(asked) \in Changes)
       => Dispatch(asked) \in {"PutObject", "DeleteObject", "DeleteObjects"}

\* No parameter, in whatever company, turns a reading method into a change.
ReadingMethodsRead == asked.method \in {"GET", "HEAD"} => Dispatch(asked) \notin Changes

=============================================================================
