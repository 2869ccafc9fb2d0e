--------------------------- MODULE SignedRequests ---------------------------
(***************************************************************************)
(* Whom the gateway takes an S3 request for.  A client signs a request in  *)
(* one of the four forms (SigV4 and SigV4A, each as a header or in the     *)
(* query) or sends it bare; on its way to the gateway some part of it may  *)
(* change; access keys are created, rotated, revoked and forgotten and     *)
(* accounts suspended meanwhile; and the limits of a client's address are  *)
(* taken in the order the router takes them.                               *)
(*                                                                         *)
(* A signature is a record of the key it was made with and of the text it  *)
(* is over: it verifies when both are the ones the gateway computes.       *)
(* Which of its refusals the gateway answers is left out.  A behaviour is  *)
(* the life of one request; others have left the limits at any level.      *)
(***************************************************************************)
EXTENDS Integers, FiniteSets

CONSTANTS
    Owner,          \* of every access key id, the account it is created for
    Nobody,         \* the caller of a request without credentials
    AllowAnonymous, \* the setting
    Skew,           \* 15 minutes, in units of the clock
    Day,            \* a day, in the same units
    MinExpires, MaxExpires,
    Allowance,      \* of every scope of limits, how many requests it starts with
    MaxTime,        \* bound: the clock
    MaxDrift,       \* bound: how far the signer's clock is off
    MaxKeyEvents    \* bound: keys created, rotated, revoked, forgotten, accounts suspended

ASSUME SignedAssumption ==
    /\ Skew \in Nat /\ Day \in Nat \ {0} /\ MaxTime \in Nat /\ MaxDrift \in Nat /\ MaxKeyEvents \in Nat
    /\ MinExpires \in Nat \ {0} /\ MaxExpires \in Nat /\ MinExpires <= MaxExpires
    /\ AllowAnonymous \in BOOLEAN
    /\ Allowance \in [{"public", "anonymous", "failure"} -> Nat]
    /\ Nobody \notin {"refused", "slowed", "nothing"}
    /\ \A k \in DOMAIN Owner : Owner[k] \notin {Nobody, "refused", "slowed", "nothing"}

VARIABLES
    now,
    keys,       \* the credential rows: "none", "active", "sealed" (active, but its secret
                \* does not open under this master key), "revoked" or "forgotten"
    suspended,  \* accounts that are not active
    tokens,     \* what is left of the limits of the client's address
    sent,       \* the request a client made
    taken,      \* what the gateway made of what arrived
    keyEvents

signVars == <<now, keys, suspended, tokens, sent, taken, keyEvents>>

AccessKey == DOMAIN Owner
Account == {Owner[k] : k \in AccessKey}
Form == {"header", "query", "headerA", "queryA", "bare"}
InQuery(m) == m.form \in {"query", "queryA"}
Asymmetric(m) == m.form \in {"headerA", "queryA"}

\* What arrives: its signature names a key and a text, or is none of anybody's.
\* whole: every part of the form is there and parses.
NoSignature == [key |-> "", text |-> <<>>]
NoRequest == [form |-> "bare", signed |-> FALSE]
Unanswered == taken.who = "nothing"

DayOf(t) == t \div Day

SignTypeOK ==
    /\ now \in 0..(Day + MaxTime)
    /\ keys \in [AccessKey -> {"none", "active", "sealed", "revoked", "forgotten"}]
    /\ suspended \subseteq Account
    /\ \A s \in DOMAIN tokens : tokens[s] \in 0..Allowance[s]
    /\ sent.form \in Form
    /\ taken.who \in Account \cup {Nobody, "refused", "slowed", "nothing"}

-----------------------------------------------------------------------------
(***************************************************************************)
(* What a signature is over.                                               *)
(***************************************************************************)

\* Headers the request names as signed, as they are on the wire.
Canonical(m) == [n \in m.names \cap DOMAIN m.headers |-> m.headers[n]]

\* The payload hash is a line of its own; a signed query names none.
PayloadOf(m) == IF InQuery(m) THEN "UNSIGNED" ELSE m.payload

\* The query is signed without the signature: with key, expiry and region set.
QueryOf(m) == IF InQuery(m) THEN <<m.params, m.key, m.expires, m.region>> ELSE <<m.params>>

\* The scope of SigV4 has a region; a SigV4A request says its set elsewhere.
MutTextOf(m) ==
    [algorithm |-> Asymmetric(m), date |-> m.date, stamp |-> m.stamp,
     region |-> IF Asymmetric(m) THEN "" ELSE m.region,
     method |-> m.method, path |-> m.path, query |-> <<m.params>>,
     headers |-> Canonical(m), names |-> m.names, payload |-> PayloadOf(m)]
TextOf(m) ==
    [algorithm |-> Asymmetric(m), date |-> m.date, stamp |-> m.stamp,
     region |-> IF Asymmetric(m) THEN "" ELSE m.region,
     method |-> m.method, path |-> m.path, query |-> QueryOf(m),
     headers |-> Canonical(m), names |-> m.names, payload |-> PayloadOf(m)]

-----------------------------------------------------------------------------
(***************************************************************************)
(* The verifiers.                                                          *)
(***************************************************************************)

\* The key row and its user's are looked up, both active, and the secret opens.
Usable(k) == k \in AccessKey /\ keys[k] = "active" /\ Owner[k] \notin suspended

InTime(m) ==
    IF InQuery(m)
    THEN /\ m.expires \in MinExpires..MaxExpires
         /\ now <= m.date + m.expires
    ELSE m.date - now <= Skew /\ now - m.date <= Skew

\* Every header named as signed is on the wire, host among them; the region
\* set of a SigV4A header too.
SignsEnough(m) ==
    /\ "host" \in m.names /\ m.names \subseteq DOMAIN m.headers
    /\ m.form = "headerA" => "region" \in m.names

\* The region set of a SigV4A header is a header of its own.
RegionOf(m) == IF m.form = "headerA" THEN m.headers.region ELSE m.region
RegionMatches(m) == RegionOf(m) = "ours" \/ (Asymmetric(m) /\ RegionOf(m) = "*")

Verifies(m) ==
    /\ m.whole /\ m.signed
    /\ RegionMatches(m) /\ m.stamp = DayOf(m.date)
    /\ InTime(m) /\ SignsEnough(m) /\ Usable(m.key)
    /\ Asymmetric(m) => PayloadOf(m) # "STREAMING"
    /\ m.signature = [key |-> m.key, text |-> TextOf(m)]

\* A SigV4 query that does not parse is none, and is refused at once when it
\* has a signature; a SigV4A label without its parts is a failure.
Leftover(m) == m.form = "query" /\ ~m.whole /\ m.signed
LooksSigned(m) == m.signed \/ (m.form = "queryA" /\ ~m.whole)

-----------------------------------------------------------------------------
(***************************************************************************)
(* The client.                                                             *)
(***************************************************************************)

Unsigned == [method |-> "GET", path |-> "/b/k", params |-> {}, headers |-> [host |-> "h", other |-> "v"],
             names |-> {"host"}, payload |-> "UNSIGNED", key |-> "", date |-> 0, stamp |-> 0, region |-> "ours",
             expires |-> 0, form |-> "bare", signed |-> FALSE, whole |-> TRUE, signature |-> NoSignature]

WithSignature(m, k) == [m EXCEPT !.signature = [key |-> k, text |-> TextOf(m)]]

HeadersFor(form, region) ==
    IF form = "headerA" THEN [host |-> "h", other |-> "v", region |-> region] ELSE [host |-> "h", other |-> "v"]

\* The client made k or was given it, and reads its own clock.
Send(form, k, date, expires, payload, region) ==
    /\ sent = NoRequest
    /\ IF form = "bare" THEN sent' = Unsigned
       ELSE /\ keys[k] # "none"
            /\ sent' = WithSignature(
                 [Unsigned EXCEPT !.form = form, !.key = k, !.date = date, !.stamp = DayOf(date), !.region = region,
                                  !.expires = expires, !.payload = payload, !.signed = TRUE,
                                  !.headers = HeadersFor(form, region),
                                  !.names = IF form = "headerA" THEN {"host", "region"} ELSE {"host"}], k)
    /\ UNCHANGED <<now, keys, suspended, tokens, taken, keyEvents>>

\* What may be different when it arrives.
Changed(m) ==
    {m, [m EXCEPT !.method = "PUT"], [m EXCEPT !.path = "/b/other"], [m EXCEPT !.params = {"versionId"}],
     [m EXCEPT !.headers.other = "w"], [m EXCEPT !.headers.host = "elsewhere"], [m EXCEPT !.payload = "STREAMING"],
     [m EXCEPT !.names = @ \cup {"missing"}], [m EXCEPT !.names = {"other"}], [m EXCEPT !.whole = FALSE]}
    \cup (IF m.form = "bare" THEN {}
          ELSE {[m EXCEPT !.date = @ + 1], [m EXCEPT !.date = @ + Day], [m EXCEPT !.stamp = @ + 1],
                [m EXCEPT !.date = @ + Day, !.stamp = @ + 1],
                IF m.form = "headerA" THEN [m EXCEPT !.headers.region = "theirs"] ELSE [m EXCEPT !.region = "theirs"],
                [m EXCEPT !.expires = @ + 1], [m EXCEPT !.signature = NoSignature],
                [m EXCEPT !.signed = ~InQuery(m), !.whole = FALSE], [m EXCEPT !.signed = FALSE, !.whole = FALSE, !.form = "bare"]}
               \cup {[m EXCEPT !.key = k] : k \in AccessKey})

-----------------------------------------------------------------------------
(***************************************************************************)
(* handleS3, up to the dispatch: the limits are taken in this order.       *)
(***************************************************************************)

Took(scopes) == tokens' = [s \in DOMAIN tokens |-> IF s \in scopes /\ tokens[s] > 0 THEN tokens[s] - 1 ELSE tokens[s]]
Answer(who, m) == taken' = [who |-> who, request |-> m]


HandleS3(m) ==
    /\ sent # NoRequest /\ Unanswered
    /\ IF tokens["public"] = 0 THEN Took({}) /\ Answer("slowed", m)
       ELSE IF Verifies(m) THEN Took({"public"}) /\ Answer(Owner[m.key], m)
       ELSE IF Leftover(m) THEN Took({"public"}) /\ Answer("refused", m)
       ELSE IF AllowAnonymous /\ ~LooksSigned(m)
       THEN /\ Took({"public", "anonymous"})
            /\ Answer(IF tokens["anonymous"] = 0 THEN "slowed" ELSE Nobody, m)
       ELSE /\ Took({"public", "failure"})
            /\ Answer(IF tokens["failure"] = 0 THEN "slowed" ELSE "refused", m)
    /\ UNCHANGED <<now, keys, suspended, sent, keyEvents>>

-----------------------------------------------------------------------------
(***************************************************************************)
(* The access keys.                                                        *)
(***************************************************************************)

KeyEvent == Unanswered /\ keyEvents < MaxKeyEvents /\ keyEvents' = keyEvents + 1
KeysBecome(new) == KeyEvent /\ keys' = new /\ UNCHANGED <<now, suspended, tokens, sent, taken>>

\* A key of another master key can be among the rows from the start.
CreateKey(k) == keys[k] = "none" /\ KeysBecome([keys EXCEPT ![k] = "active"])
RevokeActive(k) == keys[k] \in {"active", "sealed"} /\ KeysBecome([keys EXCEPT ![k] = "revoked"])
\* One transaction: the new key of the same account is there and the old one revoked.
RotateActive(k, new) ==
    /\ keys[k] \in {"active", "sealed"} /\ keys[new] = "none" /\ Owner[new] = Owner[k]
    /\ KeysBecome([keys EXCEPT ![k] = "revoked", ![new] = "active"])
DeleteRevoked(k) == keys[k] = "revoked" /\ KeysBecome([keys EXCEPT ![k] = "forgotten"])

Suspend(a) ==
    /\ KeyEvent /\ a \notin suspended
    /\ suspended' = suspended \cup {a}
    /\ UNCHANGED <<now, keys, tokens, sent, taken>>

\* Time passes and the limits refill.
Pass ==
    /\ Unanswered /\ now < Day - 1 + MaxTime
    /\ now' = now + 1
    /\ tokens' = Allowance
    /\ UNCHANGED <<keys, suspended, sent, taken, keyEvents>>

SignInit ==
    /\ now = Day - 1
    /\ keys \in {[k \in AccessKey |-> IF k \in made THEN s ELSE "none"] :
                   made \in {S \in SUBSET AccessKey : Cardinality(S) = 1}, s \in {"active", "sealed", "revoked"}}
    /\ suspended = {} /\ keyEvents = 0
    /\ tokens \in {[s \in DOMAIN Allowance |-> IF s \in left THEN Allowance[s] ELSE 0] :
                      left \in {{}, {"public"}, DOMAIN Allowance}}
    /\ sent = NoRequest /\ taken = [who |-> "nothing"]

SignNext ==
    \/ Pass
    \/ \E k \in AccessKey : CreateKey(k) \/ RevokeActive(k) \/ DeleteRevoked(k)
    \/ \E k, new \in AccessKey : RotateActive(k, new)
    \/ \E a \in Account : Suspend(a)
    \/ \E form \in Form, k \in AccessKey, drift \in -MaxDrift..MaxDrift, expires \in {MinExpires - 1, MaxExpires},
          payload \in {"digest", "STREAMING"}, region \in {"ours", "*"} :
         /\ IF form \in {"query", "queryA"} THEN payload = "digest" ELSE expires = MaxExpires
         /\ region = "*" => form \in {"headerA", "queryA"}
         /\ Send(form, k, now + drift, expires, payload, region)
    \/ sent # NoRequest /\ \E m \in Changed(sent) : HandleS3(m)

SignSpec == SignInit /\ [][SignNext]_signVars

-----------------------------------------------------------------------------
(***************************************************************************)
(* Properties.                                                             *)
(***************************************************************************)

\* A request is taken for an account only if a key of that account, active at
\* that moment, signed it, and if its method, path, query, host and signed
\* headers are those that were signed, and the payload of a signed header.
TakenForItsSigner ==
    taken.who \in Account =>
       LET m == taken.request
       IN  /\ sent.form # "bare" /\ Owner[sent.key] = taken.who
           /\ keys[sent.key] = "active" /\ taken.who \notin suspended
           /\ m.method = sent.method /\ m.path = sent.path /\ m.params = sent.params
           /\ \A n \in sent.names \cup {"host"} : m.headers[n] = sent.headers[n]
           /\ InQuery(sent) \/ m.payload = sent.payload

\* The time for which a signature may be used was set by its signer: a header
\* within 15 minutes of its date, a query until its own expiry, which is one
\* the settings allow.
TakenInTime ==
    taken.who \in Account =>
       IF InQuery(sent)
       THEN now <= sent.date + sent.expires /\ sent.expires \in MinExpires..MaxExpires
       ELSE now \in (sent.date - Skew)..(sent.date + Skew)

Proper(m) ==
    /\ Usable(m.key) /\ m.region = "ours" /\ now \in (m.date - Skew)..(m.date + Skew)
    /\ IF InQuery(m) THEN m.expires \in MinExpires..MaxExpires /\ now <= m.date + m.expires
       ELSE m.form = "headerA" => m.payload # "STREAMING"

\* What a client signed with an active key and nobody changed is taken for it,
\* on either side of midnight, and however many requests without a signature
\* or with a wrong one came from its address: those have limits of their own.
IntactIsTaken ==
    [][(/\ ~Unanswered' /\ Unanswered /\ sent.form # "bare" /\ taken'.request = sent
        /\ Proper(sent) /\ tokens["public"] > 0)
          => taken'.who = Owner[sent.key]]_signVars

\* A request with a signature is taken for its signer or refused, never for
\* nobody: an expired or altered one does not become an anonymous one.
SignedIsNeverAnonymous ==
    taken.who = Nobody => AllowAnonymous /\ ~taken.request.signed

\* What the check of a signature promises: a request is taken for its signer,
\* in its time, never for an anonymous one, and an intact one is taken.
SignerKnown == [](SignTypeOK /\ TakenForItsSigner /\ TakenInTime /\ SignedIsNeverAnonymous) /\ IntactIsTaken

=============================================================================
