--------------------------- MODULE Access_proofs ---------------------------
(***************************************************************************)
(* Proofs about buckets, the decisions about requests, and public links:   *)
(*   BucketsAreSafe    an active bucket has its folder, an editor was      *)
(*                     confirmed as a writer, only grants add members;     *)
(*   DecisionsAreSafe  what every decision of the authorizer keeps to;     *)
(*   LinksAreSafe      what a public link shows, and when.                 *)
(* The decision lemmas speak of any policy and request of the types that   *)
(* the invariant gives; links and buckets share no variable.               *)
(***************************************************************************)
EXTENDS Buckets, PublicLinks, FiniteSetTheorems, SequenceTheorems, TLAPS

USE AuthorizationAssumption

NamesGiven == \A b \in BucketId : Exists(b) => buckets[b].name = "n"

Policies == {<<>>} \cup {PolicyOf(d) : d \in {e \in Documents : ParsesPolicy(e)}}
Row == [owner : User \cup {NoUser}, name : {"", "n"}, shared : BOOLEAN,
        status : {"none", "creating", "active", "deleting", "error"},
        acl : Acl, policy : Policies, object : Acl \cup {"none"}]

LEMMA RowsTyped == BucketTypeOK <=>
    /\ buckets \in [BucketId -> Row]
    /\ members \in [BucketId -> [User -> Role \cup {"none"}]]
    /\ shut \subseteq BucketId \X User /\ folders \subseteq BucketId
    /\ drive \in [User -> {"none", "read", "write"}]
    /\ op \in [Handler -> [step : {"idle", "target", "folder", "removal", "grant", "change", "verify", "work"},
                           by : Caller, on : BucketId \cup {NoBucket}, shared : BOOLEAN,
                           member : Caller, role : Role \cup {"none", "owner"}, action : Action \cup {"none"}]]
    /\ confirmed \subseteq BucketId \X User /\ bucketEvents \in Nat
  BY DEF BucketTypeOK, Row, Policies

LEMMA DenyDecides ==
  ASSUME NEW policy, NEW r
  PROVE  EvaluatePolicy(policy, r) = "deny" <=> \E i \in DOMAIN policy : policy[i].effect = "Deny" /\ Applies(policy[i], r)
  BY DEF EvaluatePolicy

LEMMA AllowDecides ==
  ASSUME NEW policy, NEW r, EvaluatePolicy(policy, r) = "allow"
  PROVE  \E i \in DOMAIN policy : policy[i].effect = "Allow" /\ Applies(policy[i], r)
  BY DEF EvaluatePolicy

LEMMA ControlInside == BucketTypeOK => ControlStaysInside
  BY DEF BucketTypeOK, ControlStaysInside, IsAllowed, Grantable, RoleAllows

LEMMA DenyBindsAll == DenyBinds
  <1> SUFFICES ASSUME NEW b \in BucketId, NEW r \in Request, NEW i \in DOMAIN buckets[b].policy,
                      buckets[b].policy[i].effect = "Deny" /\ Applies(buckets[b].policy[i], r)
               PROVE  ~IsAllowed(buckets[b], members, b, r)
    BY DEF DenyBinds
  <1>1. EvaluatePolicy(buckets[b].policy, r) = "deny"
    BY DenyDecides
  <1>2. QED
    BY <1>1 DEF IsAllowed

LEMMA OnlyOne == ASSUME NEW S, NEW x, S = {x} PROVE TheOnly(S) = x
  BY FS_Singleton DEF TheOnly

LEMMA OneOf1 == ASSUME NEW S, Cardinality(S) = 1 PROVE TheOnly(S) \in S
  <1>1. S # {}
    BY FS_EmptySet
  <1>2. QED
    BY <1>1 DEF TheOnly

LEMMA OwnWins == OwnNameWins
  <1> SUFFICES ASSUME NEW r \in Request, NEW b \in BucketId, r.user # NoUser, Accessible(buckets, members, r.user, "n") = {b}
               PROVE  ResolveBucket(buckets, members, "n", r) = b
    BY DEF OwnNameWins
  <1>1. Direct(buckets, members, r.user, "n") = b
    BY OnlyOne DEF Direct
  <1>2. b # NoBucket
    OBVIOUS
  <1>3. QED
    BY <1>1, <1>2 DEF ResolveBucket

LEMMA ClosedHideNone == BucketTypeOK /\ NamesGiven => ClosedNeverHide
  <1> SUFFICES ASSUME BucketTypeOK, NamesGiven, NEW r \in Request,
                      Cardinality({b \in BucketId : buckets[b].status = "active" /\ IsAllowed(buckets[b], members, b, r)}) = 1,
                      r.user = NoUser \/ Accessible(buckets, members, r.user, "n") = {}
               PROVE  AuthorizeBucket(buckets, members, "n", r) = "Allowed"
    BY DEF ClosedNeverHide
  <1> DEFINE open == {b \in BucketId : buckets[b].status = "active" /\ IsAllowed(buckets[b], members, b, r)}
             Granted == {b \in ListByName(buckets, "n") : \E a \in {r.action} : IsAllowed(buckets[b], members, b, [r EXCEPT !.action = a])}
  <1>1. [r EXCEPT !.action = r.action] = r
    BY DEF Request
  <1>2. Granted = open
    BY <1>1 DEF ListByName, NamesGiven, Exists
  <1>3. TheOnly(Granted) \in open
    BY <1>2, OneOf1
  <1>4. Direct(buckets, members, r.user, "n") = NoBucket
    BY FS_EmptySet DEF Direct, TheOnly
  <1>5. Granted # {}
    BY <1>2, <1>3
  <1>6. ResolveBucket(buckets, members, "n", r) = TheOnly(Granted)
    BY <1>4, <1>5 DEF ResolveBucket
  <1>7. QED
    BY <1>3, <1>6 DEF AuthorizeBucket

LEMMA BadgesTell == BucketTypeOK => BadgeTells
  <1> SUFFICES ASSUME BucketTypeOK, NEW b \in BucketId, NEW r \in Request, r.user = NoUser,
                      \A i \in DOMAIN buckets[b].policy : ~buckets[b].policy[i].negated,
                      IsAllowed([buckets[b] EXCEPT !.object = "none"], members, b, r)
               PROVE  IsPublic(buckets[b])
    BY DEF BadgeTells
  <1> DEFINE row == [buckets[b] EXCEPT !.object = "none"]
  <1>1. row.policy = buckets[b].policy /\ row.acl = buckets[b].acl /\ row.object = "none"
    <2>1. buckets[b] \in Row
      BY RowsTyped
    <2>2. QED
      BY <2>1 DEF Row
  <1> HIDE DEF row
  <1>2. CASE EvaluatePolicy(row.policy, r) = "allow"
    <2>1. PICK i \in DOMAIN row.policy : row.policy[i].effect = "Allow" /\ Applies(row.policy[i], r)
      BY <1>2, AllowDecides
    <2>2. row.policy[i].anyone /\ ~row.policy[i].negated
      BY <1>1, <2>1 DEF Applies, ForPrincipal, Named
    <2>3. QED
      BY <1>1, <2>1, <2>2 DEF IsPublic, PolicyIsPublic
  <1>3. CASE AclAllows(row, r)
    BY <1>1, <1>3 DEF AclAllows, AclGrants, IsPublic
  <1>4. QED
    BY <1>2, <1>3 DEF IsAllowed, row

LEMMA AclsRead == BucketTypeOK => AclRoundTrips
  <1>1. SUFFICES ASSUME NEW acl \in Acl PROVE CannedAcl(GrantsForAcl(acl)) = acl
    BY DEF BucketTypeOK, AclRoundTrips
  <1> DEFINE G == GrantsForAcl(acl)
  <1>2. /\ [to |-> "owner", permission |-> "FULL_CONTROL"] \in G
        /\ \A g \in G :
                       \/ g = [to |-> "owner", permission |-> "FULL_CONTROL"]
                       \/ PublicRead(acl) /\ g = [to |-> "all", permission |-> "READ"]
                       \/ PublicWrite(acl) /\ g = [to |-> "all", permission |-> "WRITE"]
                       \/ acl = "authenticated-read" /\ g = [to |-> "authenticated", permission |-> "READ"]
        /\ PublicRead(acl) => [to |-> "all", permission |-> "READ"] \in G
        /\ PublicWrite(acl) => [to |-> "all", permission |-> "WRITE"] \in G
        /\ acl = "authenticated-read" => [to |-> "authenticated", permission |-> "READ"] \in G
    <2> DEFINE o == [to |-> "owner", permission |-> "FULL_CONTROL"]  x == [to |-> "all", permission |-> "READ"]
               w == [to |-> "all", permission |-> "WRITE"]  z == [to |-> "authenticated", permission |-> "READ"]
    <2>1. G = {o} \cup (IF PublicRead(acl) THEN {x} ELSE {}) \cup (IF PublicWrite(acl) THEN {w} ELSE {})
                  \cup (IF acl = "authenticated-read" THEN {z} ELSE {})
      BY DEF GrantsForAcl
    <2> HIDE DEF o, x, w, z, G
    <2>4. o \in G
      BY <2>1
    <2>5. PublicRead(acl) => x \in G
      BY <2>1
    <2>6. PublicWrite(acl) => w \in G
      BY <2>1
    <2>7. acl = "authenticated-read" => z \in G
      BY <2>1
    <2>2. \A g \in G : g = o \/ (PublicRead(acl) /\ g = x) \/ (PublicWrite(acl) /\ g = w) \/ (acl = "authenticated-read" /\ g = z)
      <3> TAKE g \in G
      <3>1. \/ g \in {o} \/ g \in (IF PublicRead(acl) THEN {x} ELSE {}) \/ g \in (IF PublicWrite(acl) THEN {w} ELSE {})
            \/ g \in (IF acl = "authenticated-read" THEN {z} ELSE {})
        BY <2>1
      <3>2. QED
        BY <3>1 DEF PublicRead, PublicWrite
    <2>3. QED
      BY <2>2, <2>4, <2>5, <2>6, <2>7 DEF o, x, w, z
  <1> HIDE DEF G
  <1>3. /\ Wellformed(G)
        /\ Has(G, "all", "WRITE") <=> PublicWrite(acl)
        /\ Has(G, "all", "READ") <=> PublicRead(acl)
        /\ Has(G, "authenticated", "READ") <=> acl = "authenticated-read"
    BY <1>2 DEF Wellformed, Has
  <1>4. QED
    BY <1>3 DEF CannedAcl, Acl, PublicRead, PublicWrite, G
-----------------------------------------------------------------------------
(***************************************************************************)
(* The management of buckets.                                              *)
(***************************************************************************)

Op == [step : {"idle", "target", "folder", "removal", "grant", "change", "verify", "work"},
       by : Caller, on : BucketId \cup {NoBucket}, shared : BOOLEAN,
       member : Caller, role : Role \cup {"none", "owner"}, action : Action \cup {"none"}]

\* Only rows with a name and an owner exist.
RowFits(row) == row.status # "none" => row.name = "n" /\ row.owner \in User

\* What a handler counts on after its await: the row whose folder it makes is
\* being created, and the one whose folder it removes cannot be used again.
Fits(o, rows) ==
    /\ o.step \in {"folder", "removal", "grant", "change", "verify", "work"} => o.on \in BucketId
    /\ o.step \in {"target", "verify"} => o.by \in User
    /\ o.step \in {"grant", "change"} => o.member \in User /\ o.role \in Role
    /\ o.step = "folder" => rows[o.on].status = "creating"
    /\ o.step = "removal" => rows[o.on].status \in {"deleting", "none"}

\* A row's folder is made by one handler.
OneCreates == \A g, h \in Handler : op[g].step = "folder" /\ op[h].step = "folder" /\ op[g].on = op[h].on => g = h

HandlersFit == OneCreates /\ \A h \in Handler : Fits(op[h], buckets)

BucketInv ==
    /\ BucketTypeOK /\ HandlersFit /\ ActiveHasFolder /\ EditorWasWriter
    /\ \A b \in BucketId : RowFits(buckets[b])

LEMMA NoRowFits == NoRow \in Row /\ NoRow.status = "none" /\ RowFits(NoRow) /\ NoRow.name = ""
  BY DEF NoRow, Row, Acl, RowFits, Policies

LEMMA IdleFits == Idle \in Op /\ Idle.step = "idle" /\ Idle.on = NoBucket /\ \A rows : Fits(Idle, rows)
  BY DEF Idle, Op, Caller, Fits

LEMMA BucketInitInv == BucketInit => BucketInv
  <1> SUFFICES ASSUME BucketInit PROVE BucketInv
    OBVIOUS
  <1>1. BucketTypeOK
    <2>1. buckets \in [BucketId -> Row] /\ op \in [Handler -> Op]
      BY NoRowFits, IdleFits DEF BucketInit
    <2>2. drive \in [User -> {"none", "read", "write"}]
      BY DEF BucketInit
    <2>3. QED
      BY <2>1, <2>2, RowsTyped DEF BucketInit, Op, Role
  <1>2. HandlersFit
    BY IdleFits DEF BucketInit, HandlersFit, OneCreates
  <1>3. QED
    BY <1>1, <1>2, NoRowFits DEF BucketInit, BucketInv, ActiveHasFolder, EditorWasWriter

\* What the invariant says of types, in the names used below.
LEMMA BucketFields ==
  ASSUME BucketInv
  PROVE  /\ buckets \in [BucketId -> Row] /\ members \in [BucketId -> [User -> Role \cup {"none"}]]
         /\ shut \subseteq BucketId \X User /\ folders \subseteq BucketId /\ drive \in [User -> {"none", "read", "write"}]
         /\ op \in [Handler -> Op] /\ confirmed \subseteq BucketId \X User /\ bucketEvents \in Nat
  BY RowsTyped DEF BucketInv, Op

\* A handler goes on, or begins, in a state that suits it and all others.
LEMMA Moves ==
  ASSUME BucketInv, NEW h \in Handler, NEW o \in Op, op' = [op EXCEPT ![h] = o], Fits(o, buckets'),
         \A g \in Handler : g # h => Fits(op[g], buckets'),
         o.step = "folder" => \A g \in Handler : g # h => op[g].on # o.on
  PROVE  op' \in [Handler -> Op] /\ HandlersFit'
  <1>1. op \in [Handler -> Op]
    BY BucketFields
  <1>2. op' \in [Handler -> Op] /\ op'[h] = o /\ \A g \in Handler : g # h => op'[g] = op[g]
    BY <1>1
  <1>3. OneCreates'
    BY <1>2 DEF BucketInv, HandlersFit, OneCreates
  <1>4. QED
    BY <1>2, <1>3 DEF HandlersFit

\* Rows whose status stays suit a handler as before.
LEMMA FitsStill ==
  ASSUME NEW o, NEW rows, NEW new, Fits(o, rows), o.on \in BucketId => new[o.on].status = rows[o.on].status
  PROVE  Fits(o, new)
  BY DEF Fits

\* The invariant from its parts, where the parts that no step of the kind touches are given.
LEMMA Together ==
  ASSUME BucketInv, buckets' \in [BucketId -> Row], members' \in [BucketId -> [User -> Role \cup {"none"}]],
         shut' \subseteq BucketId \X User, folders' \subseteq BucketId, drive' \in [User -> {"none", "read", "write"}],
         op' \in [Handler -> Op], confirmed' \subseteq BucketId \X User, bucketEvents' \in Nat,
         HandlersFit', \A b \in BucketId : RowFits(buckets'[b]), ActiveHasFolder', EditorWasWriter'
  PROVE  BucketInv'
  <1>1. BucketTypeOK'
    BY DEF BucketTypeOK, Row, Policies, Op
  <1>2. QED
    BY <1>1 DEF BucketInv

\* The steps after which only a handler and the bound of events differ.
LEMMA OnlyMoves ==
  ASSUME BucketInv, UNCHANGED <<buckets, members, folders, confirmed>>, drive' \in [User -> {"none", "read", "write"}],
         shut' \subseteq BucketId \X User, bucketEvents' \in Nat, op' \in [Handler -> Op], HandlersFit'
  PROVE  BucketInv'
  BY Together, BucketFields DEF BucketInv, ActiveHasFolder, EditorWasWriter

\* A handler that begins.
LEMMA BeginInv ==
  ASSUME BucketInv, NEW h \in Handler, NEW o \in Op, Waits(h, o), Fits(o, buckets), o.step # "folder",
         UNCHANGED <<buckets, members, shut, folders, drive, confirmed>>, CountBucketEvent
  PROVE  BucketInv'
  <1>1. op' \in [Handler -> Op] /\ HandlersFit'
    BY Moves, BucketFields DEF Waits, BucketInv, HandlersFit
  <1>2. bucketEvents' \in Nat
    BY BucketFields DEF CountBucketEvent
  <1>3. QED
    BY <1>1, <1>2, OnlyMoves, BucketFields

\* A handler that ends.
LEMMA EndMoves ==
  ASSUME BucketInv, NEW h \in Handler, Ends(h), \A g \in Handler : g # h => Fits(op[g], buckets')
  PROVE  op' \in [Handler -> Op] /\ HandlersFit'
  BY Moves, IdleFits DEF Ends

LEMMA CreateBucketInv ==
  ASSUME BucketInv, NEW h \in Handler, NEW u \in User, NEW shared \in BOOLEAN, CreateBucket(h, u, shared)
  PROVE  BucketInv'
  <1> DEFINE o == [Idle EXCEPT !.step = "target", !.by = u, !.shared = shared]
  <1>1. o \in Op /\ Fits(o, buckets) /\ o.step = "target"
    BY DEF Idle, Op, Caller, Fits
  <1>2. Waits(h, o) /\ CountBucketEvent /\ UNCHANGED <<buckets, members, shut, folders, drive, confirmed>>
    BY DEF CreateBucket
  <1> HIDE DEF o
  <1>3. QED
    BY <1>1, <1>2, BeginInv

LEMMA TargetAnswersInv ==
  ASSUME BucketInv, NEW h \in Handler, TargetAnswers(h)
  PROVE  BucketInv'
  <1>1. /\ op[h].step = "target" /\ UNCHANGED <<members, shut, folders, drive, confirmed, bucketEvents>>
    BY DEF TargetAnswers
  <1>2. CASE Ends(h) /\ UNCHANGED buckets
    <2>1. \A g \in Handler : Fits(op[g], buckets')
      BY <1>2 DEF BucketInv, HandlersFit
    <2>2. QED
      BY <1>1, <1>2, <2>1, EndMoves, OnlyMoves, BucketFields
  <1>3. CASE \E b \in Fresh : /\ buckets' = [buckets EXCEPT ![b] = NewRow(op[h].by, op[h].shared)]
                              /\ op' = [op EXCEPT ![h].step = "folder", ![h].on = b]
    <2>1. PICK b \in Fresh : /\ buckets' = [buckets EXCEPT ![b] = NewRow(op[h].by, op[h].shared)]
                             /\ op' = [op EXCEPT ![h].step = "folder", ![h].on = b]
      BY <1>3
    <2> DEFINE row == NewRow(op[h].by, op[h].shared)
               o == [op[h] EXCEPT !.step = "folder", !.on = b]
    <2>2. b \in BucketId /\ buckets[b].status = "none" /\ \A g \in Handler : op[g].on # b
      BY DEF Fresh, Exists
    <2>3. op[h] \in Op /\ op[h].by \in User
      BY <1>1, BucketFields DEF BucketInv, HandlersFit, Fits
    <2>4. row \in Row /\ row.status = "creating" /\ RowFits(row)
      <3>1. op[h].shared \in BOOLEAN
        BY <2>3 DEF Op
      <3>2. QED
        BY <2>3, <3>1 DEF NewRow, NoRow, Row, Acl, RowFits, Policies
    <2>5. o \in Op /\ o.step = "folder" /\ o.on = b /\ op' = [op EXCEPT ![h] = o]
      BY <2>1, <2>2, <2>3 DEF Op
    <2>6. buckets' = [buckets EXCEPT ![b] = row]
      BY <2>1
    <2> HIDE DEF row, o
    <2>7. buckets' \in [BucketId -> Row] /\ buckets'[b] = row /\ \A c \in BucketId : c # b => buckets'[c] = buckets[c]
      BY <2>2, <2>4, <2>6, BucketFields
    <2>8. Fits(o, buckets')
      BY <2>2, <2>4, <2>5, <2>7 DEF Fits
    <2>9. \A g \in Handler : Fits(op[g], buckets')
      BY <2>2, <2>7, FitsStill DEF BucketInv, HandlersFit
    <2>10. op' \in [Handler -> Op] /\ HandlersFit'
      BY <2>2, <2>5, <2>8, <2>9, Moves
    <2>11. ActiveHasFolder' /\ EditorWasWriter' /\ \A c \in BucketId : RowFits(buckets'[c])
      BY <1>1, <2>4, <2>7 DEF BucketInv, ActiveHasFolder, EditorWasWriter
    <2>12. QED
      BY <1>1, <2>7, <2>10, <2>11, Together, BucketFields
  <1>4. QED
    BY <1>2, <1>3 DEF TargetAnswers

\* A row whose status alone is set.
LEMMA StatusSet ==
  ASSUME BucketInv, NEW b \in BucketId, NEW s \in {"active", "deleting", "error"}, buckets[b].status # "none",
         buckets' = [buckets EXCEPT ![b].status = s]
  PROVE  /\ buckets' \in [BucketId -> Row] /\ buckets'[b].status = s /\ RowFits(buckets'[b])
         /\ \A c \in BucketId : c # b => buckets'[c] = buckets[c]
  <1> DEFINE row == [buckets[b] EXCEPT !.status = s]
  <1>1. buckets[b] \in Row /\ buckets[b].name = "n" /\ buckets[b].owner \in User
    BY BucketFields DEF BucketInv, RowFits
  <1>2. row \in Row /\ row.status = s /\ row.name = "n" /\ row.owner \in User
    BY <1>1 DEF Row
  <1>3. buckets' = [buckets EXCEPT ![b] = row]
    OBVIOUS
  <1> HIDE DEF row
  <1>4. QED
    BY <1>2, <1>3, BucketFields DEF RowFits

LEMMA FolderAnswersInv ==
  ASSUME BucketInv, NEW h \in Handler, FolderAnswers(h)
  PROVE  BucketInv'
  <1> DEFINE b == op[h].on
  <1>1. op[h].step = "folder" /\ Ends(h) /\ UNCHANGED <<members, shut, drive, confirmed, bucketEvents>>
    BY DEF FolderAnswers
  <1>2. b \in BucketId /\ buckets[b].status = "creating"
    BY <1>1 DEF BucketInv, HandlersFit, Fits
  <1>3. PICK made \in BOOLEAN, told \in BOOLEAN :
          /\ told => made
          /\ folders' = IF made THEN folders \cup {b} ELSE folders
          /\ buckets' = [buckets EXCEPT ![b].status = IF told THEN "active" ELSE "error"]
    BY DEF FolderAnswers
  <1> DEFINE s == IF told THEN "active" ELSE "error"
  <1>4. s \in {"active", "deleting", "error"} /\ (s = "active" => told) /\ buckets' = [buckets EXCEPT ![b].status = s]
    BY <1>3
  <1> HIDE DEF s
  <1>5. /\ buckets' \in [BucketId -> Row] /\ buckets'[b].status = s /\ RowFits(buckets'[b])
        /\ \A c \in BucketId : c # b => buckets'[c] = buckets[c]
    BY <1>2, <1>4, StatusSet
  <1>6. ASSUME NEW g \in Handler, g # h PROVE Fits(op[g], buckets')
    <2>1. Fits(op[g], buckets) /\ (op[g].step = "folder" => op[g].on # b)
      BY <1>1, <1>6 DEF BucketInv, HandlersFit, OneCreates
    <2>2. CASE op[g].on # b
      BY <1>5, <2>1, <2>2, FitsStill
    <2>3. CASE op[g].on = b
      BY <1>2, <2>1, <2>3 DEF Fits
    <2>4. QED
      BY <2>2, <2>3
  <1>7. op' \in [Handler -> Op] /\ HandlersFit'
    BY <1>1, <1>6, EndMoves
  <1>8. folders' \subseteq BucketId /\ folders \subseteq folders' /\ (told => b \in folders')
    BY <1>2, <1>3, BucketFields
  <1>9. ActiveHasFolder'
    BY <1>4, <1>5, <1>8 DEF BucketInv, ActiveHasFolder
  <1>10. EditorWasWriter' /\ \A c \in BucketId : RowFits(buckets'[c])
    BY <1>1, <1>5 DEF BucketInv, EditorWasWriter
  <1>11. QED
    BY <1>1, <1>5, <1>7, <1>8, <1>9, <1>10, Together, BucketFields

LEMMA DeleteBucketInv ==
  ASSUME BucketInv, NEW h \in Handler, NEW u \in User, NEW b \in BucketId, DeleteBucket(h, u, b)
  PROVE  BucketInv'
  <1> DEFINE o == [Idle EXCEPT !.step = "removal", !.by = u, !.on = b]
  <1>1. /\ buckets[b].status = "active" /\ buckets' = [buckets EXCEPT ![b].status = "deleting"]
        /\ Waits(h, o) /\ bucketEvents' \in Nat /\ UNCHANGED <<members, shut, folders, drive, confirmed>>
    BY BucketFields DEF DeleteBucket, Owned, WhileDeleting, CountBucketEvent
  <1>2. o \in Op /\ o.step = "removal" /\ o.on = b
    BY DEF Idle, Op, Caller
  <1> HIDE DEF o
  <1>3. /\ buckets' \in [BucketId -> Row] /\ buckets'[b].status = "deleting" /\ RowFits(buckets'[b])
        /\ \A c \in BucketId : c # b => buckets'[c] = buckets[c]
    BY <1>1, StatusSet
  <1>4. Fits(o, buckets')
    BY <1>2, <1>3 DEF Fits
  <1>5. ASSUME NEW g \in Handler PROVE Fits(op[g], buckets')
    <2>1. Fits(op[g], buckets)
      BY DEF BucketInv, HandlersFit
    <2>2. CASE op[g].on # b
      BY <1>3, <2>1, <2>2, FitsStill
    <2>3. CASE op[g].on = b
      BY <1>1, <1>3, <2>1, <2>3 DEF Fits
    <2>4. QED
      BY <2>2, <2>3
  <1>6. op' \in [Handler -> Op] /\ HandlersFit'
    BY <1>1, <1>2, <1>4, <1>5, Moves DEF Waits
  <1>7. ActiveHasFolder' /\ EditorWasWriter' /\ \A c \in BucketId : RowFits(buckets'[c])
    BY <1>1, <1>3 DEF BucketInv, ActiveHasFolder, EditorWasWriter
  <1>8. QED
    BY <1>1, <1>3, <1>6, <1>7, Together, BucketFields

LEMMA FolderRemovedInv ==
  ASSUME BucketInv, NEW h \in Handler, FolderRemoved(h)
  PROVE  BucketInv'
  <1> DEFINE b == op[h].on
  <1>1. op[h].step = "removal" /\ Ends(h) /\ UNCHANGED <<drive, bucketEvents>>
    BY DEF FolderRemoved
  <1>2. b \in BucketId /\ buckets[b].status \in {"deleting", "none"}
    BY <1>1 DEF BucketInv, HandlersFit, Fits
  <1>3. PICK gone \in BOOLEAN, told \in BOOLEAN :
          /\ folders' = IF gone THEN folders \ {b} ELSE folders
          /\ IF told
             THEN /\ buckets' = [buckets EXCEPT ![b] = NoRow]
                  /\ members' = [members EXCEPT ![b] = [u \in User |-> "none"]]
                  /\ shut' = {s \in shut : s[1] # b}
                  /\ confirmed' = {s \in confirmed : s[1] # b}
             ELSE UNCHANGED <<buckets, members, shut, confirmed>>
    BY DEF FolderRemoved
  <1> HIDE DEF b
  <1>4. /\ buckets' \in [BucketId -> Row] /\ buckets'[b].status \in {"deleting", "none"}
        /\ \A c \in BucketId : RowFits(buckets'[c])
        /\ \A c \in BucketId : c # b => buckets'[c] = buckets[c]
    <2>1. CASE told
      BY <1>2, <1>3, <2>1, NoRowFits, BucketFields DEF BucketInv
    <2>2. CASE ~told
      BY <1>2, <1>3, <2>2, BucketFields DEF BucketInv
    <2>3. QED
      BY <2>1, <2>2
  <1>5. ASSUME NEW g \in Handler PROVE Fits(op[g], buckets')
    <2>1. Fits(op[g], buckets)
      BY DEF BucketInv, HandlersFit
    <2>2. CASE op[g].on # b
      BY <1>4, <2>1, <2>2, FitsStill
    <2>3. CASE op[g].on = b
      BY <1>2, <1>4, <2>1, <2>3 DEF Fits
    <2>4. QED
      BY <2>2, <2>3
  <1>6. op' \in [Handler -> Op] /\ HandlersFit'
    BY <1>1, <1>5, EndMoves
  <1>7. ActiveHasFolder' /\ folders' \subseteq BucketId
    <2>1. folders' \subseteq folders /\ \A c \in folders : c # b => c \in folders'
      BY <1>3
    <2>2. QED
      BY <1>4, <2>1, BucketFields DEF BucketInv, ActiveHasFolder
  <1>8. /\ members' \in [BucketId -> [User -> Role \cup {"none"}]]
        /\ shut' \subseteq BucketId \X User /\ confirmed' \subseteq BucketId \X User /\ EditorWasWriter'
    <2>1. CASE ~told
      BY <1>3, <2>1, BucketFields DEF BucketInv, EditorWasWriter
    <2>2. CASE told
      <3>1. /\ members' = [members EXCEPT ![b] = [u \in User |-> "none"]]
            /\ shut' = {s \in shut : s[1] # b} /\ confirmed' = {s \in confirmed : s[1] # b}
        BY <1>3, <2>2
      <3>2. members' \in [BucketId -> [User -> Role \cup {"none"}]]
        BY <3>1, BucketFields
      <3>3. shut' \subseteq BucketId \X User /\ confirmed' \subseteq BucketId \X User
        BY <3>1, BucketFields
      <3>4. ASSUME NEW c \in BucketId, NEW u \in User, members'[c][u] = "editor" PROVE <<c, u>> \in confirmed'
        <4>1. c # b /\ members[c][u] = "editor"
          BY <3>1, <3>4, BucketFields
        <4>2. <<c, u>> \in confirmed
          BY <4>1 DEF BucketInv, EditorWasWriter
        <4>3. QED
          BY <3>1, <4>1, <4>2
      <3>5. QED
        BY <3>2, <3>3, <3>4 DEF EditorWasWriter
    <2>3. QED
      BY <2>1, <2>2
  <1>9. QED
    BY <1>1, <1>4, <1>6, <1>7, <1>8, Together, BucketFields

LEMMA AddMemberInv ==
  ASSUME BucketInv, NEW h \in Handler, NEW u \in User, NEW b \in BucketId, NEW m \in User, NEW role \in Role,
         AddMember(h, u, b, m, role) \/ UpdateMember(h, u, b, m, role)
  PROVE  BucketInv'
  <1>1. PICK step \in {"grant", "change"} :
          /\ Waits(h, [Idle EXCEPT !.step = step, !.by = u, !.on = b, !.member = m, !.role = role]) /\ CountBucketEvent
          /\ UNCHANGED <<buckets, members, shut, folders, drive, confirmed>>
    BY DEF AddMember, UpdateMember
  <1> DEFINE o == [Idle EXCEPT !.step = step, !.by = u, !.on = b, !.member = m, !.role = role]
  <1>2. o \in Op /\ Fits(o, buckets) /\ o.step # "folder"
    BY DEF Idle, Op, Caller, Fits
  <1>3. Waits(h, o)
    BY <1>1
  <1> HIDE DEF o
  <1>4. QED
    BY <1>1, <1>2, <1>3, BeginInv

\* A step that writes memberships only, and whose handler ends.
LEMMA MembersWritten ==
  ASSUME BucketInv, UNCHANGED <<buckets, folders, drive>>, bucketEvents' \in Nat, op' \in [Handler -> Op], HandlersFit',
         members' \in [BucketId -> [User -> Role \cup {"none"}]],
         shut' \subseteq BucketId \X User, confirmed' \subseteq BucketId \X User, EditorWasWriter'
  PROVE  BucketInv'
  BY Together, BucketFields DEF BucketInv, ActiveHasFolder

\* A role is written for somebody whom Drive lets write if it is an editor's.
LEMMA RoleWritten ==
  ASSUME BucketInv, NEW b \in BucketId, NEW m \in User, NEW role \in Role, role = "editor" => Writes(m),
         members' = [members EXCEPT ![b][m] = role], confirmed' = Confirmed(b, m)
  PROVE  /\ members' \in [BucketId -> [User -> Role \cup {"none"}]]
         /\ confirmed' \subseteq BucketId \X User /\ EditorWasWriter'
  <1>1. members' \in [BucketId -> [User -> Role \cup {"none"}]]
    BY BucketFields
  <1>2. confirmed' \subseteq BucketId \X User
    BY BucketFields DEF Confirmed
  <1>3. ASSUME NEW c \in BucketId, NEW u \in User, members'[c][u] = "editor" PROVE <<c, u>> \in confirmed'
    <2>1. CASE c = b /\ u = m
      BY <1>3, <2>1, BucketFields DEF Confirmed
    <2>2. CASE ~(c = b /\ u = m)
      <3>1. members[c][u] = "editor"
        BY <1>3, <2>2, BucketFields
      <3>2. QED
        BY <3>1 DEF BucketInv, EditorWasWriter, Confirmed
    <2>3. QED
      BY <2>1, <2>2
  <1>4. QED
    BY <1>1, <1>2, <1>3 DEF EditorWasWriter

\* A handler that ends while no row changes.
LEMMA EndQuietly ==
  ASSUME BucketInv, NEW h \in Handler, Ends(h), UNCHANGED buckets
  PROVE  op' \in [Handler -> Op] /\ HandlersFit'
  BY EndMoves DEF BucketInv, HandlersFit

LEMMA GrantAnswersInv ==
  ASSUME BucketInv, NEW h \in Handler, GrantAnswers(h)
  PROVE  BucketInv'
  <1> DEFINE b == op[h].on  m == op[h].member
  <1>1. /\ op[h].step = "grant" /\ Ends(h) /\ UNCHANGED <<buckets, folders, drive, bucketEvents>>
        /\ IF Suffices(h) /\ Exists(b) THEN Added(b, m, op[h].role) ELSE UNCHANGED <<members, shut, confirmed>>
    BY DEF GrantAnswers
  <1>2. b \in BucketId /\ m \in User /\ op[h].role \in Role
    BY <1>1 DEF BucketInv, HandlersFit, Fits
  <1>3. op' \in [Handler -> Op] /\ HandlersFit'
    BY <1>1, EndQuietly
  <1>4. CASE Suffices(h) /\ Exists(b)
    <2>1. /\ members' = [members EXCEPT ![b][m] = op[h].role] /\ shut' = shut \ {<<b, m>>} /\ confirmed' = Confirmed(b, m)
          /\ op[h].role = "editor" => Writes(m)
      BY <1>1, <1>4 DEF Added, Suffices
    <2>2. QED
      BY <1>1, <1>2, <1>3, <2>1, RoleWritten, MembersWritten, BucketFields
  <1>5. CASE ~(Suffices(h) /\ Exists(b))
    BY <1>1, <1>3, <1>5, OnlyMoves, BucketFields
  <1>6. QED
    BY <1>4, <1>5

LEMMA ChangeAnswersInv ==
  ASSUME BucketInv, NEW h \in Handler, ChangeAnswers(h)
  PROVE  BucketInv'
  <1> DEFINE b == op[h].on  m == op[h].member
  <1>1. /\ op[h].step = "change" /\ Ends(h) /\ UNCHANGED <<buckets, shut, folders, drive, bucketEvents>>
        /\ IF Suffices(h) /\ IsRow(b, m)
           THEN members' = [members EXCEPT ![b][m] = op[h].role] /\ confirmed' = Confirmed(b, m)
           ELSE UNCHANGED <<members, confirmed>>
    BY DEF ChangeAnswers
  <1>2. b \in BucketId /\ m \in User /\ op[h].role \in Role
    BY <1>1 DEF BucketInv, HandlersFit, Fits
  <1>3. op' \in [Handler -> Op] /\ HandlersFit'
    BY <1>1, EndQuietly
  <1>4. CASE Suffices(h) /\ IsRow(b, m)
    <2>1. /\ members' = [members EXCEPT ![b][m] = op[h].role] /\ confirmed' = Confirmed(b, m)
          /\ op[h].role = "editor" => Writes(m)
      BY <1>1, <1>4 DEF Suffices
    <2>2. QED
      BY <1>1, <1>2, <1>3, <2>1, RoleWritten, MembersWritten, BucketFields
  <1>5. CASE ~(Suffices(h) /\ IsRow(b, m))
    BY <1>1, <1>3, <1>5, OnlyMoves, BucketFields
  <1>6. QED
    BY <1>4, <1>5

LEMMA RemoveMemberInv ==
  ASSUME BucketInv, NEW u \in User, NEW b \in BucketId, NEW m \in User, RemoveMember(u, b, m)
  PROVE  BucketInv'
  <1>1. /\ members' = [members EXCEPT ![b][m] = "none"] /\ shut' = shut \ {<<b, m>>} /\ bucketEvents' \in Nat
        /\ UNCHANGED <<buckets, folders, drive, op, confirmed>>
    BY BucketFields DEF RemoveMember, CountBucketEvent
  <1>2. members' \in [BucketId -> [User -> Role \cup {"none"}]]
    BY <1>1, BucketFields
  <1>3. EditorWasWriter'
    BY <1>1, BucketFields DEF BucketInv, EditorWasWriter
  <1>4. HandlersFit'
    BY <1>1 DEF BucketInv, HandlersFit, OneCreates
  <1>5. QED
    BY <1>1, <1>2, <1>3, <1>4, MembersWritten, BucketFields

\* A name that is served stands for an active bucket.
LEMMA OnlyOrNone == ASSUME NEW S PROVE TheOnly(S) \in S \cup {NoBucket}
  <1>1. CASE Cardinality(S) = 1
    BY <1>1, OneOf1
  <1>2. CASE Cardinality(S) # 1
    BY <1>2 DEF TheOnly
  <1>3. QED
    BY <1>1, <1>2

LEMMA ResolvesActive ==
  ASSUME NEW r, AuthorizeBucket(buckets, members, "n", r) = "Allowed"
  PROVE  LET b == ResolveBucket(buckets, members, "n", r) IN b \in BucketId /\ buckets[b].status = "active"
  <1> DEFINE b == ResolveBucket(buckets, members, "n", r)
             direct == Direct(buckets, members, r.user, "n")
             Reached(actions) == {c \in ListByName(buckets, "n") :
                                    \E a \in actions : IsAllowed(buckets[c], members, c, [r EXCEPT !.action = a])}
             granted == Reached({r.action})
             S == IF granted = {} /\ r.user # NoUser THEN Reached(Probes) ELSE granted
  <1>1. b # NoBucket
    BY DEF AuthorizeBucket
  <1>2. b = IF direct # NoBucket THEN direct ELSE TheOnly(S)
    BY DEF ResolveBucket
  <1>3. \A c \in S : c \in BucketId /\ buckets[c].status = "active"
    BY DEF ListByName
  <1>4. direct \in Accessible(buckets, members, r.user, "n") \cup {NoBucket}
    BY OnlyOrNone DEF Direct
  <1>5. \A c \in Accessible(buckets, members, r.user, "n") : c \in BucketId /\ buckets[c].status = "active"
    BY DEF Accessible
  <1> HIDE DEF b, direct, S
  <1>6. TheOnly(S) \in S \cup {NoBucket}
    BY OnlyOrNone
  <1>7. b \in BucketId /\ buckets[b].status = "active"
    BY <1>1, <1>2, <1>3, <1>4, <1>5, <1>6
  <1>8. QED
    BY <1>7 DEF b

LEMMA BeginsInv ==
  ASSUME BucketInv, NEW h \in Handler, NEW by \in User, NEW b \in BucketId, NEW role \in Role \cup {"owner"},
         NEW action \in Action, Begins(h, by, b, role, action), CountBucketEvent,
         UNCHANGED <<buckets, members, shut, folders, drive, confirmed>>
  PROVE  BucketInv'
  <1>1. PICK step \in {"verify", "work"} : Waits(h, [Idle EXCEPT !.step = step, !.by = by, !.on = b, !.role = role, !.action = action])
    BY DEF Begins
  <1> DEFINE o == [Idle EXCEPT !.step = step, !.by = by, !.on = b, !.role = role, !.action = action]
  <1>2. o \in Op /\ Fits(o, buckets) /\ o.step # "folder"
    BY DEF Idle, Op, Caller, Fits
  <1>3. Waits(h, o)
    BY <1>1
  <1> HIDE DEF o
  <1>4. QED
    BY <1>2, <1>3, BeginInv

LEMMA S3RequestInv ==
  ASSUME BucketInv, NEW h \in Handler, NEW u \in Caller, NEW action \in {"GetObject", "PutObject", "DeleteObject"}, S3Request(h, u, action)
  PROVE  BucketInv'
  <1> DEFINE r == Asks(u, action)  b == ResolveBucket(buckets, members, "n", r)
  <1>1. /\ AuthorizeBucket(buckets, members, "n", r) = "Allowed" /\ Begins(h, DriveActor(u, b), b, RoleOfRow(u, b), action)
        /\ CountBucketEvent /\ UNCHANGED <<buckets, members, shut, folders, drive, confirmed>>
    BY DEF S3Request
  <1>2. b \in BucketId /\ buckets[b].status = "active"
    BY <1>1, ResolvesActive
  <1> HIDE DEF b
  <1>3. DriveActor(u, b) \in User
    BY <1>2 DEF BucketInv, RowFits, DriveActor, Caller
  <1>4. RoleOfRow(u, b) \in Role \cup {"owner"}
    <2>1. u # NoUser => members[b][u] \in Role \cup {"none"}
      BY <1>2, BucketFields DEF Caller
    <2>2. QED
      BY <2>1 DEF RoleOfRow, EffectiveRole, Role
  <1>5. action \in Action
    BY DEF Action, Probes
  <1>6. QED
    BY <1>1, <1>2, <1>3, <1>4, <1>5, BeginsInv

LEMMA DashboardRequestInv ==
  ASSUME BucketInv, NEW h \in Handler, NEW u \in User, NEW b \in BucketId, NEW action \in {"GetObject", "PutObject", "DeleteObject"},
         DashboardRequest(h, u, b, action)
  PROVE  BucketInv'
  <1>1. action \in Action
    BY DEF Action, Probes
  <1>2. EffectiveRole(u, b) \in Role \cup {"owner"}
    BY DEF DashboardRequest, Role
  <1>3. QED
    BY <1>1, <1>2, BeginsInv DEF DashboardRequest

LEMMA VerifiedInv ==
  ASSUME BucketInv, NEW h \in Handler, Verified(h)
  PROVE  BucketInv'
  <1> DEFINE b == op[h].on  u == op[h].by
             passes == IF op[h].action \in WriteActions THEN Writes(u) ELSE Reads(u)
  <1>1. /\ op[h].step = "verify" /\ UNCHANGED <<buckets, members, folders, drive, confirmed, bucketEvents>>
        /\ shut' = IF op[h].role = "owner" THEN shut ELSE Marked(b, u, passes)
        /\ op' = [op EXCEPT ![h].step = "work"] \/ Ends(h)
    BY DEF Verified
  <1>2. op[h] \in Op /\ Fits(op[h], buckets) /\ b \in BucketId /\ u \in User
    BY <1>1, BucketFields DEF BucketInv, HandlersFit, Fits
  <1>3. shut' \subseteq BucketId \X User
    <2> HIDE DEF b, u, passes
    <2>1. QED
      BY <1>1, <1>2, BucketFields DEF Marked
  <1>4. op' \in [Handler -> Op] /\ HandlersFit'
    <2>1. CASE Ends(h)
      BY <1>1, <2>1, EndQuietly
    <2>2. CASE op' = [op EXCEPT ![h].step = "work"]
      <3> DEFINE o == [op[h] EXCEPT !.step = "work"]
      <3>1. o \in Op /\ Fits(o, buckets) /\ o.step # "folder" /\ op' = [op EXCEPT ![h] = o]
        BY <1>2, <2>2 DEF Op, Fits
      <3> HIDE DEF o
      <3>2. QED
        BY <1>1, <3>1, Moves DEF BucketInv, HandlersFit
    <2>3. QED
      BY <1>1, <2>1, <2>2
  <1>5. QED
    BY <1>1, <1>3, <1>4, OnlyMoves, BucketFields

\* A row changed where neither its status nor its name and owner are.
LEMMA RowTouched ==
  ASSUME BucketInv, NEW b \in BucketId, NEW row \in Row, buckets' = [buckets EXCEPT ![b] = row],
         row.status = buckets[b].status, row.name = buckets[b].name, row.owner = buckets[b].owner
  PROVE  /\ buckets' \in [BucketId -> Row] /\ \A c \in BucketId : buckets'[c].status = buckets[c].status
         /\ \A c \in BucketId : RowFits(buckets'[c])
         /\ \A g \in Handler : Fits(op[g], buckets')
  <1>1. buckets' \in [BucketId -> Row] /\ \A c \in BucketId : buckets'[c].status = buckets[c].status
    BY BucketFields
  <1>2. \A c \in BucketId : RowFits(buckets'[c])
    BY BucketFields DEF BucketInv, RowFits
  <1>3. ASSUME NEW g \in Handler PROVE Fits(op[g], buckets')
    <2>1. Fits(op[g], buckets) /\ (op[g].on \in BucketId => buckets'[op[g].on].status = buckets[op[g].on].status)
      BY <1>1 DEF BucketInv, HandlersFit
    <2>2. QED
      BY <2>1, FitsStill
  <1>4. QED
    BY <1>1, <1>2, <1>3

LEMMA RowTouchedInv ==
  ASSUME BucketInv, NEW b \in BucketId, NEW row \in Row, buckets' = [buckets EXCEPT ![b] = row],
         row.status = buckets[b].status, row.name = buckets[b].name, row.owner = buckets[b].owner,
         bucketEvents' \in Nat, UNCHANGED <<members, shut, folders, drive, confirmed>>,
         UNCHANGED op \/ \E h \in Handler : Ends(h)
  PROVE  BucketInv'
  <1>1. /\ buckets' \in [BucketId -> Row] /\ \A c \in BucketId : buckets'[c].status = buckets[c].status
        /\ \A c \in BucketId : RowFits(buckets'[c]) /\ \A g \in Handler : Fits(op[g], buckets')
    BY RowTouched
  <1>2. op' \in [Handler -> Op] /\ HandlersFit'
    <2>1. CASE UNCHANGED op
      BY <1>1, <2>1, BucketFields DEF BucketInv, HandlersFit, OneCreates
    <2>2. CASE \E h \in Handler : Ends(h)
      BY <1>1, <2>2, EndMoves
    <2>3. QED
      BY <2>1, <2>2
  <1>3. ActiveHasFolder' /\ EditorWasWriter'
    BY <1>1 DEF BucketInv, ActiveHasFolder, EditorWasWriter
  <1>4. QED
    BY <1>1, <1>2, <1>3, Together, BucketFields

LEMMA WorkedInv ==
  ASSUME BucketInv, NEW h \in Handler, Worked(h)
  PROVE  BucketInv'
  <1> DEFINE b == op[h].on  a == IF op[h].action = "PutObject" THEN "private" ELSE "none"
             row == [buckets[b] EXCEPT !.object = a]
  <1>1. /\ op[h].step = "work" /\ Ends(h) /\ UNCHANGED <<members, shut, folders, drive, confirmed, bucketEvents>>
        /\ buckets' = [buckets EXCEPT ![b].object = a] \/ UNCHANGED buckets
    BY DEF Worked
  <1>2. CASE UNCHANGED buckets
    BY <1>1, <1>2, EndQuietly, OnlyMoves, BucketFields
  <1>3. CASE buckets' = [buckets EXCEPT ![b].object = a]
    <2>1. b \in BucketId /\ buckets[b] \in Row /\ a \in Acl \cup {"none"}
      BY <1>1, BucketFields DEF BucketInv, HandlersFit, Fits, Acl
    <2>2. /\ row \in Row /\ buckets' = [buckets EXCEPT ![b] = row]
          /\ row.status = buckets[b].status /\ row.name = buckets[b].name /\ row.owner = buckets[b].owner
      BY <1>3, <2>1 DEF Row
    <2> HIDE DEF row
    <2>3. QED
      BY <1>1, <2>1, <2>2, RowTouchedInv, BucketFields
  <1>4. QED
    BY <1>1, <1>2, <1>3

LEMMA PutAclInv ==
  ASSUME BucketInv, NEW u \in User, NEW b \in BucketId, NEW grants, PutAcl(u, b, grants)
  PROVE  BucketInv'
  <1> DEFINE row == [buckets[b] EXCEPT !.acl = CannedAcl(grants)]
  <1>1. /\ CannedAcl(grants) # "malformed" /\ buckets' = [buckets EXCEPT ![b].acl = CannedAcl(grants)]
        /\ bucketEvents' \in Nat /\ UNCHANGED <<members, shut, folders, drive, op, confirmed>>
    BY BucketFields DEF PutAcl, CountBucketEvent
  <1>2. CannedAcl(grants) \in Acl /\ buckets[b] \in Row
    BY <1>1, BucketFields DEF CannedAcl, Acl
  <1>3. /\ row \in Row /\ buckets' = [buckets EXCEPT ![b] = row]
        /\ row.status = buckets[b].status /\ row.name = buckets[b].name /\ row.owner = buckets[b].owner
    BY <1>1, <1>2 DEF Row
  <1> HIDE DEF row
  <1>4. QED
    BY <1>1, <1>3, RowTouchedInv

LEMMA NoPolicy == PolicyOf(<<>>) = <<>>
  BY DEF PolicyOf

LEMMA PutPolicyInv ==
  ASSUME BucketInv, NEW u \in User, NEW b \in BucketId, NEW document \in Documents, PutPolicy(u, b, document)
  PROVE  BucketInv'
  <1> DEFINE row == [buckets[b] EXCEPT !.policy = PolicyOf(document)]
  <1>1. /\ document = <<>> \/ ParsesPolicy(document)
        /\ buckets' = [buckets EXCEPT ![b].policy = PolicyOf(document)]
        /\ bucketEvents' \in Nat /\ UNCHANGED <<members, shut, folders, drive, op, confirmed>>
    BY BucketFields DEF PutPolicy, CountBucketEvent
  <1>2. PolicyOf(document) \in Policies /\ buckets[b] \in Row
    BY <1>1, NoPolicy, BucketFields DEF Policies
  <1>3. /\ row \in Row /\ buckets' = [buckets EXCEPT ![b] = row]
        /\ row.status = buckets[b].status /\ row.name = buckets[b].name /\ row.owner = buckets[b].owner
    BY <1>1, <1>2 DEF Row
  <1> HIDE DEF row
  <1>4. QED
    BY <1>1, <1>3, RowTouchedInv

LEMMA DriveChangesInv ==
  ASSUME BucketInv, NEW u \in User, NEW grant \in {"none", "read", "write"}, DriveChanges(u, grant)
  PROVE  BucketInv'
  <1>1. /\ drive' \in [User -> {"none", "read", "write"}] /\ bucketEvents' \in Nat
        /\ UNCHANGED <<buckets, members, shut, folders, op, confirmed>>
    BY BucketFields DEF DriveChanges, CountBucketEvent
  <1>2. HandlersFit'
    BY <1>1 DEF BucketInv, HandlersFit, OneCreates
  <1>3. QED
    BY <1>1, <1>2, OnlyMoves, BucketFields

LEMMA CrashBucketsInv == ASSUME BucketInv, CrashBuckets PROVE BucketInv'
  <1>1. /\ op' = [h \in Handler |-> Idle] /\ bucketEvents' \in Nat
        /\ UNCHANGED <<buckets, members, shut, folders, drive, confirmed>>
    BY BucketFields DEF CrashBuckets, CountBucketEvent
  <1>2. op' \in [Handler -> Op] /\ HandlersFit'
    BY <1>1, IdleFits DEF HandlersFit, OneCreates
  <1>3. QED
    BY <1>1, <1>2, OnlyMoves, BucketFields

LEMMA BucketNextInv == ASSUME BucketInv, [BucketNext]_bucketVars PROVE BucketInv'
  <1>1. CASE UNCHANGED bucketVars
    <2>1. UNCHANGED <<buckets, members, shut, folders, drive, op, confirmed, bucketEvents>>
      BY <1>1 DEF bucketVars
    <2>2. HandlersFit'
      BY <2>1 DEF BucketInv, HandlersFit, OneCreates
    <2>3. QED
      BY <2>1, <2>2, OnlyMoves, BucketFields
  <1>2. CASE BucketNext
    <2>1. ASSUME NEW h \in Handler,
                 \/ TargetAnswers(h) \/ FolderAnswers(h) \/ FolderRemoved(h)
                 \/ GrantAnswers(h) \/ ChangeAnswers(h) \/ Verified(h) \/ Worked(h)
          PROVE  BucketInv'
      BY <2>1, TargetAnswersInv, FolderAnswersInv, FolderRemovedInv, GrantAnswersInv, ChangeAnswersInv, VerifiedInv, WorkedInv
    <2>2. ASSUME NEW h \in Handler, NEW u \in User, NEW shared \in BOOLEAN, CreateBucket(h, u, shared) PROVE BucketInv'
      BY <2>2, CreateBucketInv
    <2>3. ASSUME NEW h \in Handler, NEW u \in Caller, NEW action \in {"GetObject", "PutObject", "DeleteObject"}, S3Request(h, u, action)
          PROVE BucketInv'
      BY <2>3, S3RequestInv
    <2>4. ASSUME NEW h \in Handler, NEW u \in User, NEW b \in BucketId, DeleteBucket(h, u, b) PROVE BucketInv'
      BY <2>4, DeleteBucketInv
    <2>5. ASSUME NEW h \in Handler, NEW u \in User, NEW b \in BucketId, NEW action \in {"GetObject", "PutObject", "DeleteObject"},
                 DashboardRequest(h, u, b, action)
          PROVE BucketInv'
      BY <2>5, DashboardRequestInv
    <2>6. ASSUME NEW h \in Handler, NEW u \in User, NEW b \in BucketId, NEW m \in User, NEW role \in Role,
                 AddMember(h, u, b, m, role) \/ UpdateMember(h, u, b, m, role)
          PROVE BucketInv'
      BY <2>6, AddMemberInv
    <2>7. ASSUME NEW u \in User, NEW b \in BucketId, NEW m \in User, RemoveMember(u, b, m) PROVE BucketInv'
      BY <2>7, RemoveMemberInv
    <2>8. ASSUME NEW u \in User, NEW b \in BucketId, NEW grants, PutAcl(u, b, grants) PROVE BucketInv'
      BY <2>8, PutAclInv
    <2>9. ASSUME NEW u \in User, NEW b \in BucketId, NEW document \in Documents, PutPolicy(u, b, document) PROVE BucketInv'
      BY <2>9, PutPolicyInv
    <2>10. ASSUME NEW u \in User, NEW grant \in {"none", "read", "write"}, DriveChanges(u, grant) PROVE BucketInv'
      BY <2>10, DriveChangesInv
    <2>11. QED
      BY <1>2, <2>1, <2>2, <2>3, <2>4, <2>5, <2>6, <2>7, <2>8, <2>9, <2>10, CrashBucketsInv DEF BucketNext
  <1>3. QED
    BY <1>1, <1>2

\* No step but a grant or a change of role that was asked for writes a role.
LEMMA GrantsAlone ==
  ASSUME BucketInv, [BucketNext]_bucketVars, NEW b \in BucketId, NEW u \in User, members'[b][u] \notin {"none", members[b][u]}
  PROVE  \E h \in Handler : /\ op[h].on = b /\ op[h].member = u /\ op[h].role = members'[b][u]
                            /\ op[h].step \in (IF members[b][u] = "none" THEN {"grant"} ELSE {"grant", "change"})
  <1>1. ~UNCHANGED members
    OBVIOUS
  <1>2. ~(\E h \in Handler : FolderRemoved(h))
    <2>1. SUFFICES ASSUME NEW h \in Handler, FolderRemoved(h) PROVE FALSE
      OBVIOUS
    <2>2. op[h].on \in BucketId
      BY <2>1 DEF FolderRemoved, BucketInv, HandlersFit, Fits
    <2>3. members' = members \/ members' = [members EXCEPT ![op[h].on] = [x \in User |-> "none"]]
      BY <2>1 DEF FolderRemoved
    <2>4. QED
      BY <2>2, <2>3, BucketFields
  <1>3. ~(\E v \in User, c \in BucketId, m \in User : RemoveMember(v, c, m))
    <2>1. SUFFICES ASSUME NEW c \in BucketId, NEW m \in User, members' = [members EXCEPT ![c][m] = "none"] PROVE FALSE
      BY DEF RemoveMember
    <2>2. QED
      BY <2>1, BucketFields
  <1>4. PICK h \in Handler : GrantAnswers(h) \/ ChangeAnswers(h)
    <2>1. BucketNext
      BY <1>1 DEF bucketVars
    <2>2. CASE CrashBuckets \/ \E v \in User, grant \in {"none", "read", "write"} : DriveChanges(v, grant)
      BY <1>1, <2>2 DEF CrashBuckets, DriveChanges
    <2>3. CASE \E v \in User, c \in BucketId :
                 \/ \E m \in User : RemoveMember(v, c, m)
                 \/ \E grants \in SUBSET [to : {"all", "authenticated"}, permission : {"READ", "WRITE"}] : PutAcl(v, c, grants)
                 \/ \E document \in Documents : PutPolicy(v, c, document)
      BY <1>1, <1>3, <2>3 DEF PutAcl, PutPolicy
    <2>4. ASSUME NEW h \in Handler,
                 \/ \E v \in User, shared \in BOOLEAN : CreateBucket(h, v, shared)
                 \/ \E v \in Caller, action \in {"GetObject", "PutObject", "DeleteObject"} : S3Request(h, v, action)
                 \/ \E v \in User, c \in BucketId :
                      \/ DeleteBucket(h, v, c)
                      \/ \E action \in {"GetObject", "PutObject", "DeleteObject"} : DashboardRequest(h, v, c, action)
                      \/ \E m \in User, role \in Role : AddMember(h, v, c, m, role) \/ UpdateMember(h, v, c, m, role)
          PROVE  FALSE
      <3>1. ASSUME NEW v \in User, NEW shared \in BOOLEAN, CreateBucket(h, v, shared) PROVE FALSE
        BY <1>1, <3>1 DEF CreateBucket
      <3>2. ASSUME NEW v \in Caller, NEW action, S3Request(h, v, action) PROVE FALSE
        BY <1>1, <3>2 DEF S3Request
      <3>3. ASSUME NEW v \in User, NEW c \in BucketId, DeleteBucket(h, v, c) PROVE FALSE
        BY <1>1, <3>3 DEF DeleteBucket
      <3>4. ASSUME NEW v \in User, NEW c \in BucketId, NEW action, DashboardRequest(h, v, c, action) PROVE FALSE
        BY <1>1, <3>4 DEF DashboardRequest
      <3>5. ASSUME NEW v \in User, NEW c \in BucketId, NEW m \in User, NEW role \in Role,
                   AddMember(h, v, c, m, role) \/ UpdateMember(h, v, c, m, role)
            PROVE  FALSE
        BY <1>1, <3>5 DEF AddMember, UpdateMember
      <3>6. QED
        BY <2>4, <3>1, <3>2, <3>3, <3>4, <3>5
    <2>5. ASSUME NEW h \in Handler, TargetAnswers(h) \/ FolderAnswers(h) \/ Verified(h) \/ Worked(h) PROVE FALSE
      BY <1>1, <2>5 DEF TargetAnswers, FolderAnswers, Verified, Worked
    <2>6. ASSUME NEW h \in Handler,
                 \/ TargetAnswers(h) \/ FolderAnswers(h) \/ FolderRemoved(h)
                 \/ GrantAnswers(h) \/ ChangeAnswers(h) \/ Verified(h) \/ Worked(h)
          PROVE  \E g \in Handler : GrantAnswers(g) \/ ChangeAnswers(g)
      BY <1>2, <2>5, <2>6
    <2>7. QED
      BY <2>1, <2>2, <2>3, <2>4, <2>6 DEF BucketNext
  <1> DEFINE c == op[h].on  m == op[h].member
  <1>5. /\ c \in BucketId /\ m \in User /\ op[h].role \in Role /\ members' = [members EXCEPT ![c][m] = op[h].role]
        /\ op[h].step = "grant" \/ (op[h].step = "change" /\ IsRow(c, m))
    BY <1>1, <1>4 DEF GrantAnswers, ChangeAnswers, Added, BucketInv, HandlersFit, Fits
  <1>6. c = b /\ m = u /\ members'[b][u] = op[h].role
    BY <1>5, BucketFields
  <1>7. QED
    BY <1>5, <1>6 DEF IsRow

\* BucketsSafe: whatever users, handlers and documents there are, an active
\* bucket has its Drive folder, whoever is an editor was confirmed as a writer by
\* Drive, and a membership appears only by a grant (bucket-service.ts,
\* bucket-access-service.ts: the checks before an await and the writes after it).
THEOREM BucketsAreSafe == BucketSpec => BucketsSafe
  <1>1. BucketInit => BucketInv
    BY BucketInitInv
  <1>2. BucketInv /\ [BucketNext]_bucketVars => BucketInv'
    BY BucketNextInv
  <1>3. BucketInv => BucketTypeOK /\ ActiveHasFolder /\ EditorWasWriter
    BY DEF BucketInv
  <1>4. BucketInv /\ [BucketNext]_bucketVars =>
          [\A b \in BucketId, u \in User :
             members'[b][u] \notin {"none", members[b][u]} =>
                \E h \in Handler : /\ op[h].on = b /\ op[h].member = u /\ op[h].role = members'[b][u]
                                  /\ op[h].step \in (IF members[b][u] = "none" THEN {"grant"} ELSE {"grant", "change"})]_bucketVars
    BY GrantsAlone
  <1>5. QED
    BY <1>1, <1>2, <1>3, <1>4, PTL DEF BucketSpec, BucketsSafe, OnlyGrantsAdd

\* DecisionsSafe: for every policy, ACL, role and request, control stays with the
\* owner and the members, a deny binds, one's own bucket comes first, a closed one
\* hides none, the badge tells who can read, and an ACL reads back as written
\* (authorization-service.ts, policy.ts, acl.ts).
THEOREM DecisionsAreSafe == BucketSpec => []DecisionsSafe
  <1>1. BucketInit => BucketInv
    BY BucketInitInv
  <1>2. BucketInv /\ [BucketNext]_bucketVars => BucketInv'
    BY BucketNextInv
  <1>3. BucketInv => DecisionsSafe
    <2>1. BucketInv => BucketTypeOK /\ NamesGiven
      BY DEF BucketInv, NamesGiven, RowFits, Exists
    <2>2. QED
      BY <2>1, ControlInside, DenyBindsAll, OwnWins, ClosedHideNone, BadgesTell, AclsRead DEF DecisionsSafe
  <1>4. QED
    BY <1>1, <1>2, <1>3, PTL DEF BucketSpec

-----------------------------------------------------------------------------
(***************************************************************************)
(* Public links.                                                           *)
(***************************************************************************)

LinkRow == [object : 1..MaxFiles, status : States, until : 1..Forever]
Shared == [id : 1..MaxFiles, file : 1..MaxFiles]
View == [at : {"away", "verifying", "fetching", "served", "refused"}, through : Nat, head : BOOLEAN,
         id : Nat, file : Nat, bytes : Nat, open : BOOLEAN]

\* The object's file was uploaded as it; a link that is not gone is its; and
\* what has ended can not be followed any more.
ShareInv ==
    /\ fileOf \in Seq(1..MaxFiles) /\ Len(fileOf) <= MaxFiles /\ inDrive \subseteq 1..Len(fileOf)
    /\ object # NoObject => object \in Shared /\ object.file \in 1..Len(fileOf) /\ fileOf[object.file] = object.id
    /\ links \in Seq(LinkRow) /\ making \subseteq 1..MaxFiles /\ ended \subseteq Tokens /\ hour \in 0..Horizon
    /\ LinksHaveObjects
    /\ \A t \in ended : links[t].status # "active" \/ links[t].until <= hour

\* What a request holds from its admission on: the object of its link, and a
\* file of it, which is the one whose bytes it is given.
Holds(q) ==
    q.at \in {"verifying", "fetching", "served"} =>
        /\ q.open /\ q.file \in 1..Len(fileOf) /\ fileOf[q.file] = q.id
        /\ q.through # Owner => q.through \in Tokens /\ links[q.through].object = q.id
        /\ q.at # "verifying" => q.bytes = q.file

ViewsInv == viewing \in [Visitors -> View] /\ \A v \in Visitors : Holds(viewing[v])

LinksInv == ShareInv /\ ViewsInv

LEMMA AwayHolds == Away \in View /\ Away.at = "away"
  BY DEF Away, View, Owner

LEMMA LinksInitInv == LinksInit => LinksInv
  <1> SUFFICES ASSUME LinksInit PROVE LinksInv
    OBVIOUS
  <1>1. links = <<>> /\ fileOf = <<>> /\ object = NoObject /\ ended = {} /\ making = {} /\ inDrive = {} /\ hour = 0
    BY DEF LinksInit
  <1>2. ShareInv
    <2>1. <<>> \in Seq(1..MaxFiles) /\ <<>> \in Seq(LinkRow) /\ Len(<<>>) = 0
      BY EmptySeq
    <2>2. QED
      BY <1>1, <2>1, PublicLinksAssumption DEF ShareInv, LinksHaveObjects, Tokens
  <1>3. ViewsInv
    BY AwayHolds DEF LinksInit, ViewsInv, Holds
  <1>4. QED
    BY <1>2, <1>3 DEF LinksInv

\* A request goes on holding what it held, while files and links only come.
LEMMA HoldsStill ==
  ASSUME LinksInv, UNCHANGED viewing, Len(fileOf) <= Len(fileOf)', Len(fileOf)' \in Nat,
         \A f \in 1..Len(fileOf) : fileOf'[f] = fileOf[f],
         Len(links) <= Len(links)', Len(links)' \in Nat,
         \A t \in Tokens : links'[t].object = links[t].object
  PROVE  ViewsInv'
  <1>1. Len(fileOf) \in Nat /\ Len(links) \in Nat
    BY DEF LinksInv, ShareInv
  <1>2. 1..Len(fileOf) \subseteq 1..Len(fileOf)' /\ Tokens \subseteq Tokens'
    BY <1>1 DEF Tokens
  <1>3. ASSUME NEW v \in Visitors PROVE Holds(viewing[v])'
    <2>1. Holds(viewing[v]) /\ viewing'[v] = viewing[v]
      BY DEF LinksInv, ViewsInv
    <2>2. QED
      BY <1>2, <2>1 DEF Holds
  <1>4. QED
    BY <1>3 DEF LinksInv, ViewsInv

LEMMA IdsFew == ASSUME ShareInv, Len(fileOf) < MaxFiles PROVE FreshId \in 1..MaxFiles
  <1> DEFINE S == {fileOf[f] : f \in 1..Len(fileOf)}  n == Len(fileOf)
  <1>1. n \in Nat /\ fileOf \in [1..n -> 1..MaxFiles]
    BY LenProperties, ElementOfSeq DEF ShareInv
  <1>2. fileOf \in Surjection(1..n, S)
    BY <1>1 DEF Surjection
  <1>3. IsFiniteSet(1..n) /\ Cardinality(1..n) = n
    BY <1>1, FS_Interval
  <1>4. IsFiniteSet(S) /\ Cardinality(S) <= n
    BY <1>2, <1>3, FS_Surjection
  <1>5. Cardinality(S) \in Nat
    BY <1>4, FS_CardinalityType
  <1> HIDE DEF S, n
  <1>6. Cardinality(S) + 1 \in 1..MaxFiles
    BY <1>1, <1>4, <1>5, PublicLinksAssumption DEF n
  <1>7. QED
    BY <1>6 DEF FreshId, S

LEMMA UploadsInv ==
  ASSUME LinksInv, NEW id \in 1..MaxFiles, Uploads(id), object = NoObject \/ (object # NoObject /\ id = object.id)
  PROVE  LinksInv'
  <1> DEFINE n == Len(fileOf)
  <1>1. /\ n < MaxFiles /\ fileOf' = Append(fileOf, id) /\ inDrive' = inDrive \cup {n + 1}
        /\ object' = [id |-> id, file |-> n + 1] /\ UNCHANGED <<links, making, viewing, hour, ended>>
    BY DEF Uploads
  <1>2. n \in Nat /\ fileOf \in Seq(1..MaxFiles) /\ MaxFiles \in Nat
    BY PublicLinksAssumption DEF LinksInv, ShareInv
  <1>3. /\ fileOf' \in Seq(1..MaxFiles) /\ Len(fileOf') = n + 1 /\ fileOf'[n + 1] = id
        /\ \A f \in 1..n : fileOf'[f] = fileOf[f]
    BY <1>1, <1>2, AppendProperties
  <1>10. inDrive \subseteq 1..n /\ n < MaxFiles
    BY <1>1 DEF LinksInv, ShareInv
  <1> HIDE DEF n
  <1>4. object' \in Shared /\ object'.id = id /\ object'.file = n + 1 /\ object' # NoObject
    BY <1>1, <1>2, PublicLinksAssumption DEF Shared
  <1>5. LinksHaveObjects'
    BY <1>1, <1>4 DEF LinksInv, ShareInv, LinksHaveObjects, Tokens
  <1>6. inDrive' \subseteq 1..(n + 1) /\ n + 1 \in 1..(n + 1) /\ n + 1 <= MaxFiles
    <2>1. n + 1 \in 1..(n + 1) /\ n + 1 <= MaxFiles /\ 1..n \subseteq 1..(n + 1)
      BY <1>2, <1>10
    <2>2. inDrive' = inDrive \cup {n + 1}
      BY <1>1
    <2>3. QED
      BY <1>10, <2>1, <2>2
  <1>7. ShareInv'
    BY <1>1, <1>3, <1>4, <1>5, <1>6 DEF LinksInv, ShareInv, Tokens
  <1>8. ViewsInv'
    BY <1>1, <1>2, <1>3, HoldsStill DEF LinksInv, ShareInv, n
  <1>9. QED
    BY <1>7, <1>8 DEF LinksInv

\* Sequences that are given as functions.
LEMMA FunctionSeq ==
  ASSUME NEW n \in Nat, NEW S, NEW f \in [1..n -> S]
  PROVE  f \in Seq(S) /\ Len(f) = n
  <1>1. f \in Seq(S)
    BY SeqDef
  <1>2. QED
    BY <1>1, LenProperties

LEMMA DeleteSharedInv == ASSUME LinksInv, DeleteShared PROVE LinksInv'
  <1> DEFINE n == Len(links)
  <1>1. /\ object # NoObject /\ object' = NoObject /\ UNCHANGED <<fileOf, inDrive, making, viewing, hour>>
        /\ links' = [t \in Tokens |-> IF t \in LinksOf(object.id) THEN [links[t] EXCEPT !.status = "gone"] ELSE links[t]]
        /\ ended' = ended \cup {t \in Tokens : links[t].object = object.id}
    BY DEF DeleteShared
  <1>2. n \in Nat /\ \A t \in 1..n : links[t] \in LinkRow
    BY DEF LinksInv, ShareInv
  <1>3. ASSUME NEW t \in 1..n
        PROVE  /\ links'[t] \in LinkRow /\ links'[t].object = links[t].object /\ links'[t].until = links[t].until
               /\ links'[t].status = "gone" \/ (links'[t].status = links[t].status /\ links[t].object # object.id)
    <2>1. links[t] \in LinkRow /\ t \in Tokens
      BY <1>2, <1>3 DEF Tokens
    <2>2. CASE t \in LinksOf(object.id)
      <3>1. links'[t] = [links[t] EXCEPT !.status = "gone"]
        BY <1>1, <2>1, <2>2
      <3>2. QED
        BY <2>1, <3>1 DEF LinkRow, States
    <2>3. CASE t \notin LinksOf(object.id)
      BY <1>1, <2>1, <2>3 DEF LinksOf
    <2>4. QED
      BY <2>2, <2>3
  <1>4. links' \in Seq(LinkRow) /\ Len(links') = n
    <2>1. links' \in [1..n -> LinkRow]
      BY <1>1, <1>3 DEF Tokens
    <2>2. QED
      BY <1>2, <2>1, FunctionSeq
  <1>5. \A t \in 1..n : links'[t].status = "gone"
    BY <1>1, <1>3 DEF LinksInv, ShareInv, LinksHaveObjects, Tokens
  <1>6. LinksHaveObjects'
    BY <1>4, <1>5 DEF LinksHaveObjects, Tokens
  <1>7. ended' \subseteq 1..n
    BY <1>1 DEF LinksInv, ShareInv, Tokens
  <1>8. ShareInv'
    BY <1>1, <1>4, <1>5, <1>6, <1>7 DEF LinksInv, ShareInv, Tokens
  <1>9. ViewsInv'
    BY <1>1, <1>2, <1>3, <1>4, HoldsStill DEF LinksInv, ShareInv, Tokens
  <1>10. QED
    BY <1>8, <1>9 DEF LinksInv

LEMMA CreateLinkInv ==
  ASSUME LinksInv, NEW id \in making, NEW until \in 1..Forever, CreateLink(id, until)
  PROVE  LinksInv'
  <1> DEFINE n == Len(links)  row == [object |-> id, status |-> "active", until |-> until]
  <1>1. making' = making \ {id} /\ UNCHANGED <<object, fileOf, inDrive, viewing, hour, ended>>
    BY DEF CreateLink
  <1>2. links \in Seq(LinkRow) /\ n \in Nat /\ id \in 1..MaxFiles
    BY DEF LinksInv, ShareInv
  <1>3. CASE UNCHANGED links
    <2>1. ShareInv'
      BY <1>1, <1>3 DEF LinksInv, ShareInv, LinksHaveObjects, Tokens
    <2>2. ViewsInv'
      BY <1>1, <1>2, <1>3, HoldsStill DEF LinksInv, ShareInv, Tokens
    <2>3. QED
      BY <2>1, <2>2 DEF LinksInv
  <1>4. CASE Insertable(id) /\ links' = Append(links, row)
    <2>1. row \in LinkRow /\ row.object = id
      BY <1>2 DEF LinkRow, States
    <2> HIDE DEF row
    <2>2. /\ links' \in Seq(LinkRow) /\ Len(links') = n + 1 /\ links'[n + 1] = row
          /\ \A t \in 1..n : links'[t] = links[t]
      BY <1>2, <1>4, <2>1, AppendProperties
    <2>3. object # NoObject /\ object.id = id
      BY <1>4 DEF Insertable
    <2>4. LinksHaveObjects'
      <3>1. SUFFICES ASSUME NEW t \in 1..(n + 1), links'[t].status # "gone" PROVE object # NoObject /\ object.id = links'[t].object
        BY <1>1, <2>2 DEF LinksHaveObjects, Tokens
      <3>2. CASE t = n + 1
        BY <2>1, <2>2, <2>3, <3>2
      <3>3. CASE t # n + 1
        <4>1. t \in 1..n
          BY <1>2, <3>3
        <4>2. QED
          BY <2>2, <3>1, <4>1 DEF LinksInv, ShareInv, LinksHaveObjects, Tokens
      <3>4. QED
        BY <3>2, <3>3
    <2>5. 1..n \subseteq 1..(n + 1)
      BY <1>2
    <2>6. ShareInv'
      <3>1. \A t \in ended : t \in 1..n /\ (links[t].status # "active" \/ links[t].until <= hour)
        BY DEF LinksInv, ShareInv, Tokens
      <3>2. QED
        BY <1>1, <2>2, <2>4, <2>5, <3>1 DEF LinksInv, ShareInv, Tokens
    <2>7. ViewsInv'
      BY <1>1, <1>2, <2>2, HoldsStill DEF LinksInv, ShareInv, Tokens
    <2>8. QED
      BY <2>6, <2>7 DEF LinksInv
  <1>5. QED
    BY <1>3, <1>4 DEF CreateLink

LEMMA RevokeLinkInv ==
  ASSUME LinksInv, NEW t \in Tokens, RevokeLink(t)
  PROVE  LinksInv'
  <1> DEFINE n == Len(links)  row == [links[t] EXCEPT !.status = "revoked"]
  <1>1. /\ links' = [links EXCEPT ![t].status = "revoked"] /\ ended' = ended \cup {t}
        /\ object # NoObject /\ links[t].object = object.id
        /\ UNCHANGED <<object, fileOf, inDrive, making, viewing, hour>>
    BY DEF RevokeLink
  <1>2. links \in Seq(LinkRow) /\ n \in Nat /\ t \in 1..n /\ links[t] \in LinkRow
    BY DEF LinksInv, ShareInv, Tokens
  <1>3. /\ row \in LinkRow /\ row.object = links[t].object /\ row.until = links[t].until /\ row.status = "revoked"
        /\ links' = [links EXCEPT ![t] = row]
    BY <1>1, <1>2 DEF LinkRow, States
  <1> HIDE DEF row
  <1>4. links' \in Seq(LinkRow) /\ Len(links') = n /\ links'[t] = row /\ \A x \in 1..n : x # t => links'[x] = links[x]
    BY <1>2, <1>3, ExceptSeq
  <1>5. LinksHaveObjects'
    BY <1>1, <1>3, <1>4 DEF LinksInv, ShareInv, LinksHaveObjects, Tokens
  <1>6. ShareInv'
    BY <1>1, <1>2, <1>3, <1>4, <1>5 DEF LinksInv, ShareInv, Tokens
  <1>7. ViewsInv'
    BY <1>1, <1>2, <1>3, <1>4, HoldsStill DEF LinksInv, ShareInv, Tokens
  <1>8. QED
    BY <1>6, <1>7 DEF LinksInv

\* Steps that leave links, files and requests alone.
LEMMA AroundThem ==
  ASSUME LinksInv, UNCHANGED <<fileOf, links, viewing, object>>, ShareInv'
  PROVE  LinksInv'
  <1>1. Len(fileOf) \in Nat /\ Len(links) \in Nat
    BY DEF LinksInv, ShareInv
  <1>2. QED
    BY <1>1, HoldsStill DEF LinksInv

LEMMA HourPassesInv == ASSUME LinksInv, HourPasses PROVE LinksInv'
  <1>1. /\ hour < Horizon /\ hour' = hour + 1 /\ ended' = ended \cup {t \in Tokens : links[t].until <= hour + 1}
        /\ UNCHANGED <<object, fileOf, inDrive, links, making, viewing>>
    BY DEF HourPasses
  <1>2. hour \in Nat /\ Horizon \in Nat /\ hour' \in 0..Horizon
    BY <1>1, PublicLinksAssumption DEF LinksInv, ShareInv
  <1>3. ASSUME NEW t \in ended' PROVE t \in Tokens /\ (links[t].status # "active" \/ links[t].until <= hour + 1)
    <2>1. CASE t \in ended
      <3>1. t \in Tokens /\ (links[t].status # "active" \/ links[t].until <= hour)
        BY <2>1 DEF LinksInv, ShareInv
      <3>2. links[t] \in LinkRow
        BY <3>1 DEF LinksInv, ShareInv, Tokens
      <3>3. links[t].until \in Nat
        BY <1>2, <3>2 DEF LinkRow, Forever
      <3>4. links[t].until <= hour => links[t].until <= hour + 1
        BY <1>2, <3>3
      <3>5. QED
        BY <3>1, <3>4
    <2>2. CASE t \notin ended
      BY <1>1, <1>3, <2>2
    <2>3. QED
      BY <2>1, <2>2
  <1>4. ended' \subseteq Tokens /\ Tokens' = Tokens
    BY <1>1, <1>3 DEF Tokens
  <1>5. ShareInv'
    BY <1>1, <1>2, <1>3, <1>4 DEF LinksInv, ShareInv, LinksHaveObjects, Tokens
  <1>6. QED
    BY <1>1, <1>5, AroundThem

LEMMA SmallStepsInv ==
  ASSUME LinksInv, AskLink \/ \E f \in inDrive : CleansUp(f)
  PROVE  LinksInv'
  <1>1. CASE AskLink
    <2>1. /\ object # NoObject /\ making' = making \cup {object.id}
          /\ UNCHANGED <<object, fileOf, inDrive, links, viewing, hour, ended>>
      BY <1>1 DEF AskLink
    <2>2. ShareInv'
      BY <2>1 DEF LinksInv, ShareInv, LinksHaveObjects, Tokens, Shared
    <2>3. QED
      BY <2>1, <2>2, AroundThem
  <1>2. CASE \E f \in inDrive : CleansUp(f)
    <2>1. inDrive' \subseteq inDrive /\ UNCHANGED <<object, fileOf, links, making, viewing, hour, ended>>
      BY <1>2 DEF CleansUp
    <2>2. ShareInv'
      BY <2>1 DEF LinksInv, ShareInv, LinksHaveObjects, Tokens
    <2>3. QED
      BY <2>1, <2>2, AroundThem
  <1>3. QED
    BY <1>1, <1>2

\* A visitor's step: only its own request changes.
LEMMA ViewsStep ==
  ASSUME LinksInv, NEW v \in Visitors, NEW to \in View, Views(v, to), Holds(to)
  PROVE  LinksInv'
  <1>1. viewing' = [viewing EXCEPT ![v] = to] /\ UNCHANGED <<object, fileOf, inDrive, links, making, hour, ended>>
    BY DEF Views
  <1>2. ShareInv'
    BY <1>1 DEF LinksInv, ShareInv, LinksHaveObjects, Tokens
  <1>3. viewing' \in [Visitors -> View] /\ \A w \in Visitors : viewing'[w] = to \/ viewing'[w] = viewing[w]
    BY <1>1 DEF LinksInv, ViewsInv
  <1>5. ViewsInv'
    BY <1>3, <1>1 DEF LinksInv, ViewsInv, Holds, Tokens
  <1>6. QED
    BY <1>2, <1>5 DEF LinksInv

LEMMA ViewsTyped == ASSUME LinksInv, NEW v \in Visitors PROVE viewing[v] \in View /\ Holds(viewing[v])
  BY DEF LinksInv, ViewsInv

\* A link that resolves has not ended: its row is active, and its time has
\* not come.
LEMMA ResolvesOpen ==
  ASSUME LinksInv, NEW t \in Tokens, ResolveActive(t)
  PROVE  t \notin ended /\ object \in Shared /\ object.file \in 1..Len(fileOf) /\ fileOf[object.file] = object.id
         /\ links[t].object = object.id /\ t \in Nat
  <1>1. object # NoObject /\ links[t].object = object.id /\ links[t].status = "active" /\ links[t].until > hour
    BY DEF ResolveActive
  <1>2. links[t] \in LinkRow /\ hour \in Nat /\ Horizon \in Nat /\ t \in Nat
    BY PublicLinksAssumption DEF LinksInv, ShareInv, Tokens
  <1>3. links[t].until \in Nat
    BY <1>2 DEF LinkRow, Forever
  <1>4. ~(links[t].until <= hour)
    BY <1>1, <1>2, <1>3
  <1>5. QED
    BY <1>1, <1>2, <1>4 DEF LinksInv, ShareInv

LEMMA VisitInv ==
  ASSUME LinksInv, NEW v \in Visitors, NEW t \in Tokens, NEW head \in BOOLEAN, Visit(v, t, head)
  PROVE  LinksInv'
  <1> DEFINE in == [at |-> "verifying", through |-> t, head |-> head, id |-> object.id, file |-> object.file,
                    bytes |-> 0, open |-> t \notin ended]
             out == [Away EXCEPT !.at = "refused", !.through = t]
  <1>1. CASE ResolveActive(t)
    <2>1. t \notin ended /\ object \in Shared /\ object.file \in 1..Len(fileOf) /\ fileOf[object.file] = object.id
          /\ links[t].object = object.id /\ t \in Nat
      BY <1>1, ResolvesOpen
    <2>2. MaxFiles \in Nat /\ object.id \in Nat /\ object.file \in Nat
      BY <2>1, PublicLinksAssumption DEF Shared
    <2>3. in \in View
      BY <2>1, <2>2 DEF View
    <2>4. Holds(in)
      BY <2>1 DEF Holds
    <2>5. Views(v, in)
      BY <1>1 DEF Visit
    <2> HIDE DEF in
    <2>6. QED
      BY <2>3, <2>4, <2>5, ViewsStep
  <1>2. CASE ~ResolveActive(t)
    <2>1. t \in Nat
      BY DEF Tokens, LinksInv, ShareInv
    <2>2. out \in View /\ out.at = "refused"
      BY <2>1 DEF Away, View, Owner
    <2>3. Views(v, out)
      BY <1>2 DEF Visit
    <2> HIDE DEF out
    <2>4. Holds(out)
      BY <2>2 DEF Holds
    <2>5. QED
      BY <2>2, <2>3, <2>4, ViewsStep
  <1>3. QED
    BY <1>1, <1>2

LEMMA OwnerAsksInv ==
  ASSUME LinksInv, NEW v \in Visitors, NEW head \in BOOLEAN, OwnerAsks(v, head)
  PROVE  LinksInv'
  <1> DEFINE in == [at |-> "verifying", through |-> Owner, head |-> head, id |-> object.id, file |-> object.file,
                    bytes |-> 0, open |-> TRUE]
  <1>1. object # NoObject /\ Views(v, in)
    BY DEF OwnerAsks
  <1>2. object \in Shared /\ object.file \in 1..Len(fileOf) /\ fileOf[object.file] = object.id
    BY <1>1 DEF LinksInv, ShareInv
  <1>3. object.id \in Nat /\ object.file \in Nat
    BY <1>2, PublicLinksAssumption DEF Shared
  <1>4. in \in View
    BY <1>3 DEF View, Owner
  <1>5. Holds(in)
    BY <1>2 DEF Holds
  <1> HIDE DEF in
  <1>6. QED
    BY <1>1, <1>4, <1>5, ViewsStep

\* A request that is refused holds nothing.
LEMMA RefusedInv ==
  ASSUME LinksInv, NEW v \in Visitors, Becomes(v, "refused")
  PROVE  LinksInv'
  <1> DEFINE out == [viewing[v] EXCEPT !.at = "refused"]
  <1>1. viewing[v] \in View /\ Views(v, out)
    BY ViewsTyped DEF Becomes
  <1>2. out \in View /\ out.at = "refused"
    BY <1>1 DEF View
  <1> HIDE DEF out
  <1>3. Holds(out)
    BY <1>2 DEF Holds
  <1>4. QED
    BY <1>1, <1>2, <1>3, ViewsStep

LEMMA ReadAgainInv ==
  ASSUME LinksInv, NEW v \in Visitors, ReadAgain(v)
  PROVE  LinksInv'
  <1> DEFINE q == viewing[v]  to == Headed(q)
  <1>1. q \in View /\ Holds(q) /\ q.at = "verifying"
    BY ViewsTyped DEF ReadAgain
  <1>2. CASE SameFile(q)
    <2>1. object # NoObject /\ object.file = q.file /\ Views(v, to)
      BY <1>2 DEF SameFile, ReadAgain
    <2>2. q.open /\ q.file \in 1..Len(fileOf) /\ fileOf[q.file] = q.id
          /\ (q.through # Owner => q.through \in Tokens /\ links[q.through].object = q.id)
      BY <1>1 DEF Holds
    <2>3. q.file \in Nat
      BY <1>1 DEF View
    <2> HIDE DEF q
    <2>4. /\ to \in View /\ to.open = q.open /\ to.file = q.file /\ to.id = q.id
          /\ to.through = q.through /\ to.bytes = q.file
      <3>1. to = [q EXCEPT !.at = IF q.head THEN "served" ELSE "fetching", !.bytes = q.file]
        BY <2>1 DEF Headed
      <3>2. QED
        BY <1>1, <2>3, <3>1 DEF View
    <2> HIDE DEF to
    <2>5. Holds(to)
      BY <2>2, <2>4 DEF Holds
    <2>6. QED
      BY <2>1, <2>4, <2>5, ViewsStep
  <1>3. CASE ~SameFile(q)
    BY <1>3, RefusedInv DEF ReadAgain
  <1>4. QED
    BY <1>2, <1>3

LEMMA FetchedInv ==
  ASSUME LinksInv, NEW v \in Visitors, Fetched(v)
  PROVE  LinksInv'
  <1> DEFINE q == viewing[v]  to == [q EXCEPT !.at = "served"]
  <1>1. q \in View /\ Holds(q) /\ q.at = "fetching"
    BY ViewsTyped DEF Fetched
  <1>2. CASE Becomes(v, "refused")
    BY <1>2, RefusedInv
  <1>3. CASE Becomes(v, "served")
    <2>1. Views(v, to)
      BY <1>3 DEF Becomes
    <2> HIDE DEF q
    <2>2. /\ to \in View /\ to.open = q.open /\ to.file = q.file /\ to.id = q.id
          /\ to.through = q.through /\ to.bytes = q.bytes
      BY <1>1 DEF View
    <2> HIDE DEF to
    <2>3. Holds(to)
      BY <1>1, <2>2 DEF Holds
    <2>4. QED
      BY <2>1, <2>2, <2>3, ViewsStep
  <1>4. QED
    BY <1>2, <1>3 DEF Fetched

LEMMA LeavesInv ==
  ASSUME LinksInv, NEW v \in Visitors, Leaves(v)
  PROVE  LinksInv'
  <1>1. Views(v, Away) /\ Away \in View /\ Holds(Away)
    BY AwayHolds DEF Leaves, Holds
  <1>2. QED
    BY <1>1, ViewsStep

LEMMA LinksNextInv == LinksInv /\ [LinksNext]_linkVars => LinksInv'
  <1> SUFFICES ASSUME LinksInv, [LinksNext]_linkVars PROVE LinksInv'
    OBVIOUS
  <1>1. CASE UploadNew
    <2>1. ShareInv /\ object = NoObject /\ Uploads(FreshId) /\ Len(fileOf) < MaxFiles
      BY <1>1 DEF UploadNew, Uploads, LinksInv
    <2>2. FreshId \in 1..MaxFiles
      BY <2>1, IdsFew
    <2>3. QED
      BY <2>1, <2>2, UploadsInv
  <1>2. CASE Overwrite
    <2>1. object # NoObject /\ Uploads(object.id) /\ object.id \in 1..MaxFiles
      BY <1>2 DEF Overwrite, LinksInv, ShareInv, Shared
    <2>2. QED
      BY <2>1, UploadsInv
  <1>3. CASE DeleteShared
    BY <1>3, DeleteSharedInv
  <1>4. CASE HourPasses
    BY <1>4, HourPassesInv
  <1>5. CASE AskLink \/ \E f \in inDrive : CleansUp(f)
    BY <1>5, SmallStepsInv
  <1>6. CASE \E id \in making, until \in 1..Forever : CreateLink(id, until)
    BY <1>6, CreateLinkInv
  <1>7. CASE \E t \in Tokens : RevokeLink(t)
    BY <1>7, RevokeLinkInv
  <1>8. ASSUME NEW v \in Visitors,
               \/ ReadAgain(v) \/ Fetched(v) \/ ViewFails(v) \/ Leaves(v)
               \/ \E head \in BOOLEAN : OwnerAsks(v, head) \/ \E t \in Tokens : Visit(v, t, head)
        PROVE  LinksInv'
    <2>1. CASE ReadAgain(v)
      BY <2>1, ReadAgainInv
    <2>2. CASE Fetched(v)
      BY <2>2, FetchedInv
    <2>3. CASE ViewFails(v)
      BY <2>3, RefusedInv DEF ViewFails
    <2>4. CASE Leaves(v)
      BY <2>4, LeavesInv
    <2>5. CASE \E head \in BOOLEAN : OwnerAsks(v, head)
      BY <2>5, OwnerAsksInv
    <2>6. CASE \E head \in BOOLEAN, t \in Tokens : Visit(v, t, head)
      BY <2>6, VisitInv
    <2>7. QED
      BY <1>8, <2>1, <2>2, <2>3, <2>4, <2>5, <2>6
  <1>9. CASE UNCHANGED linkVars
    BY <1>9 DEF linkVars, LinksInv, ShareInv, ViewsInv, Holds, LinksHaveObjects, Tokens
  <1>10. QED
    BY <1>1, <1>2, <1>3, <1>4, <1>5, <1>6, <1>7, <1>8, <1>9 DEF LinksNext

\* The dashboard looks at the row once more before it answers.
LEMMA ShowsCurrentStep ==
  ASSUME LinksInv, [LinksNext]_linkVars, NEW v \in Visitors,
         viewing[v].at = "fetching", viewing'[v].at = "served", viewing[v].through = Owner
  PROVE  object # NoObject /\ object.file = viewing[v].bytes
  <1>1. viewing \in [Visitors -> View] /\ Holds(viewing[v])
    BY DEF LinksInv, ViewsInv
  <1>2. viewing' # viewing
    OBVIOUS
  <1>3. PICK w \in Visitors :
          \/ ReadAgain(w) \/ Fetched(w) \/ ViewFails(w) \/ Leaves(w)
          \/ \E head \in BOOLEAN : OwnerAsks(w, head) \/ \E t \in Tokens : Visit(w, t, head)
    BY <1>2 DEF LinksNext, UploadNew, Overwrite, Uploads, DeleteShared, HourPasses, AskLink, CleansUp,
                CreateLink, RevokeLink, linkVars
  <1>4. PICK to : Views(w, to)
    BY <1>3 DEF ReadAgain, Fetched, ViewFails, Leaves, OwnerAsks, Visit, Becomes
  <1>5. v = w
    BY <1>1, <1>4 DEF Views
  <1>6. CASE Fetched(v)
    <2>1. Becomes(v, IF LooksAgain(viewing[v]) /\ ~SameFile(viewing[v]) THEN "refused" ELSE "served")
      BY <1>6 DEF Fetched
    <2>2. CASE LooksAgain(viewing[v]) /\ ~SameFile(viewing[v])
      <3>1. viewing'[v] = [viewing[v] EXCEPT !.at = "refused"]
        BY <1>1, <2>1, <2>2 DEF Becomes, Views
      <3>2. viewing'[v].at = "refused"
        BY <1>1, <3>1 DEF View
      <3>3. QED
        BY <3>2
    <2>3. CASE ~LooksAgain(viewing[v]) \/ SameFile(viewing[v])
      <3>1. SameFile(viewing[v]) /\ viewing[v].bytes = viewing[v].file
        BY <1>1, <2>3 DEF LooksAgain, Holds
      <3>2. QED
        BY <3>1 DEF SameFile
    <2>4. QED
      BY <2>2, <2>3
  <1>7. CASE ~Fetched(v)
    <2>1. CASE ViewFails(v)
      <3>1. viewing'[v] = [viewing[v] EXCEPT !.at = "refused"]
        BY <1>1, <2>1 DEF ViewFails, Becomes, Views
      <3>2. viewing'[v].at = "refused"
        BY <1>1, <3>1 DEF View
      <3>3. QED
        BY <3>2
    <2>2. CASE ~ViewFails(v)
      BY <1>3, <1>5, <1>7, <2>2 DEF ReadAgain, Leaves, OwnerAsks, Visit
    <2>3. QED
      BY <2>1, <2>2
  <1>8. QED
    BY <1>6, <1>7

LEMMA LinksInvHolds ==
  LinksInv => LinksTypeOK /\ EndedLinksShowNothing /\ ShowsItsObject /\ HeadersAreOfTheBytes /\ LinksHaveObjects
  <1> SUFFICES ASSUME LinksInv
               PROVE LinksTypeOK /\ EndedLinksShowNothing /\ ShowsItsObject /\ HeadersAreOfTheBytes /\ LinksHaveObjects
    OBVIOUS
  <1>1. \A v \in Visitors : viewing[v] \in View /\ Holds(viewing[v])
    BY ViewsTyped
  <1>2. EndedLinksShowNothing /\ ShowsItsObject /\ HeadersAreOfTheBytes
    BY <1>1 DEF EndedLinksShowNothing, ShowsItsObject, HeadersAreOfTheBytes, Holds
  <1>3. LinksTypeOK
    <2>1. \A t \in Tokens : links[t] \in LinkRow
      BY DEF LinksInv, ShareInv, Tokens
    <2>2. \A t \in Tokens : links[t].status \in States /\ links[t].until \in 1..Forever
      BY <2>1 DEF LinkRow
    <2>3. \A v \in Visitors : viewing[v].at \in {"away", "verifying", "fetching", "served", "refused"}
      BY <1>1 DEF View
    <2>4. \A v \in Visitors : viewing[v].at \in {"fetching", "served"} => viewing[v].bytes \in 1..Len(fileOf)
      BY <1>1 DEF Holds
    <2>5. QED
      BY <2>2, <2>3, <2>4 DEF LinksTypeOK, LinksInv, ShareInv, Shared
  <1>4. QED
    BY <1>2, <1>3 DEF LinksInv, ShareInv

\* Once it has ended, a public link shows nothing; while it lasts it shows its
\* own object, never one that came under the key after a delete, with the
\* headers of the bytes it sends; and the dashboard shows what is current
\* when it answers.
THEOREM LinksAreSafe == LinksSpec => LinksSafe
  <1>1. LinksInv /\ [LinksNext]_linkVars =>
          [\A v \in Visitors : viewing[v].at = "fetching" /\ viewing'[v].at = "served" /\ viewing[v].through = Owner =>
             object # NoObject /\ object.file = viewing[v].bytes]_linkVars
    BY ShowsCurrentStep
  <1>2. QED
    BY <1>1, LinksInitInv, LinksNextInv, LinksInvHolds, PTL DEF LinksSpec, LinksSafe, DashboardShowsCurrent

=============================================================================
