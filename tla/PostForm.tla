------------------------------ MODULE PostForm ------------------------------
(***************************************************************************)
(* A browser's form POST: what a signed policy agrees to, what the form    *)
(* says, and what is stored.  A state is one form with its policy; the     *)
(* invariants quantify over all of them.  Texts are sequences.             *)
(***************************************************************************)
EXTENDS Integers, Sequences, FiniteSets

LOCAL INSTANCE SequencesExt

CONSTANTS
    Texts,       \* values of fields and of conditions
    Placeholder, \* in a text, what stands for the file's name
    Bodies,      \* sizes of files
    PostPolicies \* policies: each a sequence of conditions

VARIABLE post

FormField == {"key", "bucket", "content-type", "x-amz-date", "x-ignore-this", "policy"}
Condition == [kind : {"eq", "starts-with"}, field : FormField, value : Texts]
             \cup [kind : {"content-length-range"}, min : Bodies, max : Bodies]

ASSUME PostAssumption ==
    /\ Bodies \subseteq Nat
    /\ \A p \in PostPolicies : \A i \in DOMAIN p : p[i] \in Condition

-----------------------------------------------------------------------------
\* Wherever it is in the key, the placeholder stands for one segment, the name
\* of the file.
Resolved(p) ==
    LET key == p.fields["key"]
    IN  FlattenSeq([i \in DOMAIN key |-> IF key[i] = Placeholder THEN p.filename ELSE <<key[i]>>])

\* bucket and key are those of the request, whatever fields of the name say.
Evaluated(p) == [f \in DOMAIN p.fields \cup {"bucket", "key"} |->
                   CASE f = "bucket" -> p.bucket [] f = "key" -> Resolved(p) [] OTHER -> p.fields[f]]

Ranges(policy) == SelectSeq(policy, LAMBDA c : c.kind = "content-length-range")
Constraints(policy) == {policy[i] : i \in {j \in DOMAIN policy : policy[j].kind # "content-length-range"}}

Holds(c, value) == IF c.kind = "eq" THEN value = c.value ELSE IsPrefix(c.value, value)

Unconstrained == {"policy", "x-ignore-this"}
CoversAll(p) ==
    \A f \in DOMAIN p.fields \ Unconstrained : \E c \in Constraints(p.policy) : c.field = f

CheckPostPolicy(p) ==
    LET e == Evaluated(p)
    IN  /\ ~p.late
        /\ \A c \in Constraints(p.policy) : c.field \in DOMAIN e /\ Holds(c, e[c.field])
        /\ CoversAll(p)

\* Only the first range of a policy counts: it limits the upload and is
\* checked when the size is known.
InRange(p) == Ranges(p.policy) # <<>> => p.size \in Ranges(p.policy)[1].min..Ranges(p.policy)[1].max

\* genuine: the parts of the form are there, the policy is signed with an
\* active key, and its date, if any, is within the skew.
Stores(p) ==
    /\ {"policy", "key"} \subseteq DOMAIN p.fields /\ p.genuine
    /\ Resolved(p) # <<>>
    /\ CheckPostPolicy(p)
    /\ InRange(p)

\* What is stored: the type the form gives, or that of the file's part.
MetadataOf(p) == IF "content-type" \in DOMAIN p.fields THEN p.fields["content-type"] ELSE <<>>
Stored(p) == [bucket |-> p.bucket, key |-> Resolved(p), type |-> MetadataOf(p), size |-> p.size]

PostInit ==
    \E policy \in PostPolicies, there \in SUBSET FormField, k, b, t \in Texts, name, bucket \in {u \in Texts : ~Contains(u, Placeholder)},
       size \in Bodies, genuine, late \in BOOLEAN :
      /\ {"policy", "key"} \subseteq there /\ "x-amz-date" \notin there
      /\ (~genuine => ~late)
      /\ ("bucket" \notin there => b = bucket) /\ ("content-type" \notin there => t = k)
      /\ post = [policy |-> policy, filename |-> name, bucket |-> bucket, size |-> size, genuine |-> genuine, late |-> late,
                 fields |-> [f \in there |-> CASE f = "key" -> k [] f = "bucket" -> b [] f = "content-type" -> t [] OTHER -> <<>>]]

-----------------------------------------------------------------------------
(***************************************************************************)
(* Properties.                                                             *)
(***************************************************************************)

Agreed(c, s) ==
    CASE c.kind = "content-length-range" -> s.size \in c.min..c.max
      [] c.field = "key" -> Holds(c, s.key)
      [] c.field = "bucket" -> Holds(c, s.bucket)
      [] c.field = "content-type" -> Holds(c, s.type)
      [] OTHER -> TRUE

\* What a form stores is what its signer agreed to: each condition holds of
\* the bucket, the key, the type and the size that are stored, whatever the
\* form's own fields of those names and its file's name say.  A policy has
\* one range at most here.
StoredAsAgreed ==
    Stores(post) => post.genuine /\ \A i \in DOMAIN post.policy : Agreed(post.policy[i], Stored(post))

\* A form cannot add what its signer left open: a type or a key of its own
\* that is stored has a condition of the policy about it.
NothingAdded ==
    Stores(post) =>
       /\ \E i \in DOMAIN post.policy : post.policy[i].kind # "content-length-range" /\ post.policy[i].field = "key"
       /\ "content-type" \in DOMAIN post.fields =>
             \E i \in DOMAIN post.policy :
                post.policy[i].kind # "content-length-range" /\ post.policy[i].field = "content-type"

-----------------------------------------------------------------------------
(***************************************************************************)
(* The upload forms the dashboard issues, against the gateway that takes   *)
(* them: what createPost signs is what is evaluated above.  A state is one *)
(* order for a form and one use of what came of it.                        *)
(***************************************************************************)

CONSTANTS
    FormOrders,   \* what is asked for: bucket, prefix, min, max, lifetime, key pair
    FormUses,     \* what is sent: after a wait, with which fields changed
    FormLimits,   \* the configuration: lifetimes from and to, and the largest upload
    FormSkew,     \* how far a date may be from now
    SlashChar, DotChar, IssueDate

VARIABLES order, use

-----------------------------------------------------------------------------

\* createPost refuses a lifetime or a size outside its limits, a prefix that
\* climbs, and a key pair that is not the caller's or is revoked.
Climbs(prefix) ==
    \/ prefix # <<>> /\ Head(prefix) = SlashChar
    \/ \E i \in DOMAIN prefix : i > 1 /\ prefix[i] = DotChar /\ prefix[i - 1] = DotChar
Issues(o) ==
    /\ o.lifetime \in FormLimits.shortest..FormLimits.longest
    /\ 0 <= o.min /\ o.min <= o.max /\ o.max <= FormLimits.bytes
    /\ ~Climbs(o.prefix) /\ o.pair = "active"

Equals(f, v) == [kind |-> "eq", field |-> f, value |-> v]
Begins(f, v) == [kind |-> "starts-with", field |-> f, value |-> v]
SignedPolicy(o) ==
    <<Equals("bucket", o.bucket), Begins("key", o.prefix), Equals("x-amz-date", IssueDate),
      [kind |-> "content-length-range", min |-> o.min, max |-> o.max]>>

\* A field that is shown in the form and that no condition is about would make
\* the gateway refuse the form.
IssuedFields(o) ==
    [f \in {"key", "policy", "x-amz-date"} |->
       CASE f = "key" -> Append(o.prefix, Placeholder) [] f = "x-amz-date" -> IssueDate [] OTHER -> <<>>]

\* The holder may put other texts in any field, and add or leave out fields.
Sent(o, u) ==
    LET issued == IssuedFields(o)
        there == (DOMAIN issued \cup DOMAIN u.changed) \ u.omitted
    IN  [policy |-> SignedPolicy(o), filename |-> u.filename, bucket |-> u.bucket, size |-> u.size,
         genuine |-> o.pair = "active" /\ ("x-amz-date" \in there => u.wait <= FormSkew),
         late |-> u.wait > o.lifetime,
         fields |-> [f \in there |-> IF f \in DOMAIN u.changed THEN u.changed[f] ELSE issued[f]]]

AsIssued(o, u) == DOMAIN u.changed = {} /\ u.omitted = {} /\ u.bucket = o.bucket

IssuedInit == order \in FormOrders /\ use \in FormUses

-----------------------------------------------------------------------------

\* With a form that was issued, nothing is stored outside its bucket and its
\* prefix, of a size it does not allow, or after it has run out, whatever the
\* holder makes of its fields.
FormStaysInside ==
    Issues(order) /\ Stores(Sent(order, use)) =>
       LET s == Stored(Sent(order, use))
       IN  /\ s.bucket = order.bucket /\ IsPrefix(order.prefix, s.key)
           /\ s.size \in order.min..order.max /\ s.size <= FormLimits.bytes
           /\ use.wait <= order.lifetime

\* The gateway takes the form as it was issued, with any file of an allowed
\* size, until it runs out or its date is too far away; a prefix with the
\* placeholder in it excepted, which is replaced in the key and not in the
\* condition.
FormIsTaken ==
    /\ Issues(order) /\ AsIssued(order, use) /\ ~Contains(order.prefix, Placeholder)
    /\ use.size \in order.min..order.max /\ use.wait <= order.lifetime /\ use.wait <= FormSkew
    /\ order.prefix \o use.filename # <<>>
    => Stores(Sent(order, use)) /\ Stored(Sent(order, use)).key = order.prefix \o use.filename

=============================================================================
