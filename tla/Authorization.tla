---------------------------- MODULE Authorization ----------------------------
(***************************************************************************)
(* Who may do what to a bucket: its policy, its owner, its members, and    *)
(* the canned ACLs of the bucket and of the object, in the order the       *)
(* gateway asks them; and which bucket a name stands for, since names are  *)
(* unique per owner only.                                                  *)
(*                                                                         *)
(* A bucket row is a record with owner, name, status, acl, policy (a       *)
(* sequence of statements, empty when there is none) and object (the ACL   *)
(* of the object of the requested key, "none" without one); members maps a *)
(* bucket and a user to a role or "none".  A request names its user (or    *)
(* NoUser), its action, whether it carries an object key, its address ("": *)
(* unknown) and whether it came over TLS.  Wildcards are the sets they     *)
(* match: a list of a statement is the set of actions or of resources.     *)
(***************************************************************************)
EXTENDS Naturals, Sequences, FiniteSets

CONSTANTS
    User,       \* users of the gateway
    NoUser,     \* the caller of a request without credentials
    BucketId,   \* ids of bucket rows, used once each
    NoBucket    \* null

ASSUME AuthorizationAssumption ==
    NoUser \notin User /\ NoBucket \notin BucketId

Caller == User \cup {NoUser}

OwnerOnly == {"GetBucketPolicy", "PutBucketPolicy", "PutBucketAcl"}
WriteActions == {"PutObject", "DeleteObject", "PutBucketPolicy", "PutBucketAcl", "PutObjectAcl"}
Probes == {"GetObject", "PutObject", "DeleteObject", "ListBucket"}
Action == OwnerOnly \cup WriteActions \cup Probes
KeyedAction == {"GetObject", "PutObject", "DeleteObject", "PutObjectAcl"}

Request == {r \in [user : Caller, action : Action, keyed : BOOLEAN, ip : {"", "inside"}, secure : BOOLEAN] :
              r.keyed <=> r.action \in KeyedAction}

-----------------------------------------------------------------------------
(***************************************************************************)
(* Policies.                                                               *)
(***************************************************************************)

\* A raw statement maps the names of its fields to their values.  A field or
\* its Not- form is there, never both; what parses becomes a record whose
\* lists are negated when the Not- form was used.
OneOf(raw, f, g) == (f \in DOMAIN raw) # (g \in DOMAIN raw)
ParsesStatement(raw) ==
    /\ raw.Effect \in {"Allow", "Deny"}
    /\ OneOf(raw, "Principal", "NotPrincipal")
    /\ OneOf(raw, "Action", "NotAction")
    /\ OneOf(raw, "Resource", "NotResource")
    /\ \A c \in raw.Condition : c.operator \in {"Equals", "NotEquals"}

ListOf(raw, f, g) == IF f \in DOMAIN raw THEN [negated |-> FALSE, of |-> raw[f]] ELSE [negated |-> TRUE, of |-> raw[g]]
StatementOf(raw) ==
    LET principal == ListOf(raw, "Principal", "NotPrincipal")
    IN  [effect |-> raw.Effect, anyone |-> "*" \in principal.of, users |-> principal.of \ {"*"},
         negated |-> principal.negated,
         actions |-> ListOf(raw, "Action", "NotAction"), resources |-> ListOf(raw, "Resource", "NotResource"),
         conditions |-> {[key |-> c.key, values |-> c.values, negated |-> c.operator = "NotEquals"] : c \in raw.Condition}]

\* A document without statements, or with one that does not parse, is refused.
ParsesPolicy(document) == document # <<>> /\ \A i \in DOMAIN document : ParsesStatement(document[i])
PolicyOf(document) == [i \in DOMAIN document |-> StatementOf(document[i])]

\* A list, or its negation (NotAction, NotResource); an empty one matches nothing.
Lists(list, x) == list.of # {} /\ (x \in list.of <=> ~list.negated)

\* Somebody without credentials has no name to be listed under.
Named(s, user) == s.anyone \/ (user # NoUser /\ user \in s.users)
ForPrincipal(s, user) == Named(s, user) <=> ~s.negated

\* A condition whose key has no value holds only when it is negated.
ValueOf(key, r) ==
    CASE key = "sourceip"        -> {r.ip} \ {""}
      [] key = "securetransport" -> {IF r.secure THEN "true" ELSE "false"}
      [] key = "username"        -> {r.user} \ {NoUser}
      [] key = "principaltype"   -> {IF r.user = NoUser THEN "Anonymous" ELSE "User"}
      [] OTHER                   -> {}
Meets(c, r) == (ValueOf(c.key, r) \cap c.values # {}) <=> ~c.negated

Applies(s, r) ==
    /\ ForPrincipal(s, r.user)
    /\ Lists(s.actions, r.action)
    /\ Lists(s.resources, IF r.keyed THEN "object" ELSE "bucket")
    /\ \A c \in s.conditions : Meets(c, r)

EvaluatePolicy(policy, r) ==
    LET effects == {policy[i].effect : i \in {j \in DOMAIN policy : Applies(policy[j], r)}}
    IN  IF "Deny" \in effects THEN "deny" ELSE IF "Allow" \in effects THEN "allow" ELSE "none"

PolicyIsPublic(policy) ==
    \E i \in DOMAIN policy : policy[i].effect = "Allow" /\ policy[i].anyone /\ ~policy[i].negated

-----------------------------------------------------------------------------
(***************************************************************************)
(* Canned ACLs.                                                            *)
(***************************************************************************)

PublicRead(acl) == acl \in {"public-read", "public-read-write"}
PublicWrite(acl) == acl = "public-read-write"
AuthenticatedRead(acl) == acl = "authenticated-read" \/ PublicRead(acl)

\* The ACL as the grants of an AccessControlPolicy document, and such a document
\* as the canned ACL it is stored as; "malformed" is refused.
GrantsForAcl(acl) ==
    {[to |-> "owner", permission |-> "FULL_CONTROL"]}
    \cup (IF PublicRead(acl) THEN {[to |-> "all", permission |-> "READ"]} ELSE {})
    \cup (IF PublicWrite(acl) THEN {[to |-> "all", permission |-> "WRITE"]} ELSE {})
    \cup (IF acl = "authenticated-read" THEN {[to |-> "authenticated", permission |-> "READ"]} ELSE {})

Has(grants, to, permission) ==
    \E g \in grants : g.to = to /\ g.permission \in {permission, "FULL_CONTROL"}
Wellformed(grants) ==
    /\ grants # {}
    /\ \A g \in grants : /\ g.to \in {"owner", "all", "authenticated"}
                         /\ g.to = "owner" => g.permission = "FULL_CONTROL"

CannedAcl(grants) ==
    IF ~Wellformed(grants) THEN "malformed"
    ELSE IF Has(grants, "all", "WRITE") THEN "public-read-write"
    ELSE IF Has(grants, "all", "READ") THEN "public-read"
    ELSE IF Has(grants, "authenticated", "READ") THEN "authenticated-read" ELSE "private"

AclGrants(acl, r) ==
    IF r.action \in WriteActions THEN PublicWrite(acl)
    ELSE PublicRead(acl) \/ (r.user # NoUser /\ AuthenticatedRead(acl))

AclAllows(row, r) ==
    \/ r.keyed /\ r.action \notin WriteActions /\ row.object # "none" /\ AclGrants(row.object, r)
    \/ AclGrants(row.acl, r)

IsPublic(row) == PublicRead(row.acl) \/ PublicWrite(row.acl) \/ PolicyIsPublic(row.policy)

-----------------------------------------------------------------------------
(***************************************************************************)
(* The decision, and the resolution of names.                              *)
(***************************************************************************)

Grantable(action) == action \notin OwnerOnly

RoleAllows(role, action) == role = "editor" \/ (role = "viewer" /\ action \notin WriteActions)

MutIsAllowed(row, members, b, r) ==
    \/ r.user # NoUser /\ r.user = row.owner
    \/ EvaluatePolicy(row.policy, r) = "allow" /\ Grantable(r.action)
    \/ /\ EvaluatePolicy(row.policy, r) # "deny"
       /\ \/ r.user # NoUser /\ RoleAllows(members[b][r.user], r.action)
          \/ Grantable(r.action) /\ AclAllows(row, r)
IsAllowed(row, members, b, r) ==
    LET decision == EvaluatePolicy(row.policy, r)
    IN  /\ decision # "deny"
        /\ \/ decision = "allow" /\ Grantable(r.action)
           \/ r.user # NoUser /\ (r.user = row.owner \/ RoleAllows(members[b][r.user], r.action))
           \/ Grantable(r.action) /\ AclAllows(row, r)

\* The active buckets of a name that a user owns or is a member of.
Accessible(buckets, members, user, name) ==
    {b \in BucketId : /\ buckets[b].status = "active" /\ buckets[b].name = name
                      /\ buckets[b].owner = user \/ members[b][user] # "none"}

TheOnly(S) == IF Cardinality(S) = 1 THEN CHOOSE b \in S : TRUE ELSE NoBucket

\* findAccessibleByName, for a caller that has credentials.
Direct(buckets, members, user, name) ==
    IF user = NoUser THEN NoBucket ELSE TheOnly(Accessible(buckets, members, user, name))

ListByName(buckets, name) ==
    {b \in BucketId : buckets[b].status = "active" /\ buckets[b].name = name}

\* An anonymous caller is never told of a bucket that grants it nothing.
ResolveBucket(buckets, members, name, r) ==
    LET direct == Direct(buckets, members, r.user, name)
        Reached(actions) == {b \in ListByName(buckets, name) :
                               \E a \in actions : IsAllowed(buckets[b], members, b, [r EXCEPT !.action = a])}
        granted == Reached({r.action})
    IN  IF direct # NoBucket THEN direct
        ELSE TheOnly(IF granted = {} /\ r.user # NoUser THEN Reached(Probes) ELSE granted)

\* authorizeBucket: what the caller is answered.
Refusal(user) == IF user = NoUser THEN "NoSuchBucket" ELSE "AccessDenied"

AuthorizeBucket(buckets, members, name, r) ==
    LET b == ResolveBucket(buckets, members, name, r)
    IN  IF b = NoBucket THEN "NoSuchBucket"
        ELSE IF IsAllowed(buckets[b], members, b, r) THEN "Allowed" ELSE Refusal(r.user)

=============================================================================
