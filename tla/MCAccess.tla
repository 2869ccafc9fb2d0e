------------------------------ MODULE MCAccess ------------------------------
(***************************************************************************)
(* Small instances of Buckets and of PublicLinks for TLC, which share no   *)
(* state; focus says which of them a behaviour is of.  In "manage" the     *)
(* handlers of buckets run, in "links" those of public links; in "decide"  *)
(* every combination of ACLs, roles, policies and object ACLs of two       *)
(* buckets of one name is an initial state, and nothing happens, so that   *)
(* the invariants quantify over all inputs of Authorization.               *)
(***************************************************************************)
EXTENDS Buckets, PublicLinks, TLC

VARIABLE focus

accessVars == <<focus, bucketVars, linkVars>>

Tls == [key |-> "securetransport", values |-> {"false"}, operator |-> "Equals"]
Outside == [key |-> "sourceip", values |-> {"inside"}, operator |-> "NotEquals"]
Anything == {"object", "bucket"}

OpenAll == [Effect |-> "Allow", Principal |-> {"*"}, Action |-> Action, Resource |-> Anything, Condition |-> {}]
DenyPlain == [Effect |-> "Deny", Principal |-> {"*"}, Action |-> Action, NotResource |-> {"neither"}, Condition |-> {Tls}]
DenyOthers == [Effect |-> "Deny", NotPrincipal |-> {"o"}, NotAction |-> {"GetObject"}, Resource |-> Anything, Condition |-> {Outside}]
AllowOne == [Effect |-> "Allow", Principal |-> {"o"}, Action |-> {"GetObject", "PutBucketPolicy"}, Resource |-> Anything, Condition |-> {}]
TwoPrincipals == [Effect |-> "Allow", Principal |-> {"*"}, NotPrincipal |-> {"o"}, Action |-> Action, Resource |-> Anything, Condition |-> {}]

TestDocuments == {<<>>, <<OpenAll>>, <<OpenAll, DenyPlain>>, <<DenyOthers, AllowOne>>, <<TwoPrincipals>>}
Stored == {PolicyOf(d) : d \in {e \in TestDocuments : e = <<>> \/ ParsesPolicy(e)}}

Handlers == Permutations(Handler)

Settled == [NoRow EXCEPT !.name = "n", !.status = "active", !.shared = TRUE]

Decisions ==
    \E p \in BucketId, ps \in Stored, qs \in {<<>>, PolicyOf(<<OpenAll>>)}, acl \in Acl, acl2 \in {"private", "public-read"},
       seen \in {"none", "private", "public-read"}, role \in Role \cup {"none"}, status \in {"active", "deleting"} :
      /\ buckets = [b \in BucketId |->
                      IF b = p THEN [Settled EXCEPT !.owner = "o", !.policy = ps, !.acl = acl, !.object = seen]
                      ELSE [Settled EXCEPT !.owner = "m", !.policy = qs, !.acl = acl2, !.status = status]]
      /\ members = [b \in BucketId |-> [u \in User |-> IF b = p /\ u # "o" THEN role ELSE "none"]]
      /\ folders = BucketId
      /\ confirmed = BucketId \X User
      /\ shut = {} /\ drive = [u \in User |-> "write"]
      /\ op = [h \in Handler |-> Idle] /\ bucketEvents = 0

MCInit ==
    /\ focus \in {"decide", "manage", "links"}
    /\ IF focus = "decide" THEN Decisions ELSE BucketInit /\ (focus = "links" => drive = [u \in User |-> "read"])
    /\ LinksInit

MCNext ==
    /\ UNCHANGED focus
    /\ \/ focus = "manage" /\ BucketNext /\ UNCHANGED linkVars
       \/ focus = "links" /\ LinksNext /\ UNCHANGED bucketVars

MCSpec == MCInit /\ [][MCNext]_accessVars

=============================================================================
