----------------------------- MODULE MCRequests -----------------------------
(***************************************************************************)
(* Small instances for TLC of what a request meets on its way: the limits, *)
(* its signature or its session, its body, the dispatch, its form, and the *)
(* listing that answers it; and of what an operator runs beside it all.    *)
(* They share no state; a behaviour is one of one of them, as focus says,  *)
(* so that one run explores them all.  In "dispatch", "form" and "issued"  *)
(* every input is an initial state and nothing happens, so that the        *)
(* invariants quantify over all of them.                                   *)
(***************************************************************************)
EXTENDS Listing, SignedRequests, S3Dispatch, PostForm, RateLimits, Sessions, RequestBodies,
        Deployment, TLC

VARIABLE focus

operatorVars == <<deployVars, archiveVars>>
requestVars == <<focus, listVars, signVars, asked, post, order, use, limitVars, sessionVars, chunkVars, formVars, operatorVars>>

\* Characters: 1 is the delimiter, 3 a capital letter of 2.
SomeNames == {<<2>>, <<2, 1>>, <<2, 1, 2>>, <<2, 2, 1>>, <<3>>}
SomePrefixes == {<<>>, <<2>>}
SomeDelimiters == {<<>>, <<1>>}
SomeStarts == {<<>>, <<2, 1>>}
Small == {<<3, 2>>}

KeyOwner == [a1 |-> "ann", a2 |-> "ann", b1 |-> "bob"]
OneToken == [public |-> 1, anonymous |-> 1, failure |-> 1]

\* 9 stands for the name of the file.
FormTexts == {<<>>, <<1>>, <<1, 2>>, <<1, 9>>}
Equal(f, v) == [kind |-> "eq", field |-> f, value |-> v]
Beginning(f, v) == [kind |-> "starts-with", field |-> f, value |-> v]
Sizes(a, b) == [kind |-> "content-length-range", min |-> a, max |-> b]
FormPolicies ==
    {<<Equal("key", <<1>>), Equal("bucket", <<1>>)>>,
     <<Beginning("key", <<1>>), Sizes(1, 2), Beginning("bucket", <<>>)>>,
     <<Equal("bucket", <<1>>), Beginning("key", <<>>), Equal("content-type", <<1, 2>>)>>,
     <<Equal("bucket", <<1, 2>>), Sizes(0, 0)>>}

\* One token of each fault, and one of a stranger.
Token == [sub |-> "ann", hd |-> "corp", email |-> "ann@corp", verified |-> TRUE, aud |-> "us", google |-> TRUE, fresh |-> TRUE]
SomeClaims == {Token, [Token EXCEPT !.hd = "", !.email = "ann@home"], [Token EXCEPT !.sub = "eve", !.hd = "else", !.email = "eve@else"],
               [Token EXCEPT !.aud = "others"], [Token EXCEPT !.fresh = FALSE], [Token EXCEPT !.google = FALSE],
               [Token EXCEPT !.verified = FALSE]}

\* Bodies of signed chunks, with ends of line inside.
Plain == [kind |-> "byte"]
SomeUploads == {<<<<Plain>>, <<Plain, Cr, Lf>>, <<>>>>, <<<<Plain>>, <<Plain>>, <<>>>>, <<<<Cr, Lf>>, <<>>>>, <<<<>>>>}

\* Values and files that begin delimiters; values within a delimiter of the
\* limit, at it and past it; a field twice, a field too many, one without a name.
Field(n, v) == [name |-> n, value |-> v]
NoFileSent == <<"no file">>
Long == <<"x", "x", "x", "x", "x", "x", "x">>
SomeForms == [fields : {<<>>, <<Field("k", <<"x">>)>>, <<Field("k", <<"x">>), Field("k", <<"y", "cr">>)>>,
                        <<Field("k", <<"x", "cr", "lf", "-">>), Field("p", <<"y">>)>>, <<Field("nameless", <<"x">>)>>,
                        <<Field("k", Long), Field("p", <<"x">>)>>, <<Field("k", Long), Field("p", <<"x", "x">>)>>,
                        <<Field("k", <<>>), Field("p", <<>>), Field("q", <<>>)>>},
              file : {<<>>, <<"x">>, <<"cr", "lf", "-", "cr", "lf", "-", "-">>, NoFileSent}]

\* Nothing distinguishes two handlers or two flows.
Alike == Permutations(Handler) \cup Permutations(State)

\* Of the modules a behaviour is not about, one state.
Aside(f, Chosen, Still) == IF focus = f THEN Chosen ELSE Still
NoListing ==
    /\ query = [door |-> "v1", prefix |-> <<>>, delimiter |-> <<>>, size |-> 1, start |-> <<>>]
    /\ table = {} /\ cursor = [key |-> <<>>, after |-> <<>>, version |-> 0]
    /\ listed = <<>> /\ last = TRUE /\ edits = 0 /\ stable = {} /\ ever = {}
NoSigner ==
    /\ now = 0 /\ keys = [k \in AccessKey |-> "none"] /\ suspended = {} /\ keyEvents = 0
    /\ tokens = Allowance /\ sent = NoRequest /\ taken = [who |-> "nothing"]
NoForm == post = [policy |-> <<Equal("key", <<1>>), Equal("bucket", <<1>>)>>, filename |-> <<>>, bucket |-> <<>>,
                  size |-> 0, genuine |-> FALSE, late |-> FALSE, fields |-> [f \in {"key", "policy"} |-> <<>>]]

NoChunks ==
    /\ signed = <<<<>>>> /\ wire = <<>> /\ expected = -1 /\ arrived = 0 /\ buffer = <<>> /\ previous = <<>>
    /\ line = NoLine /\ passedOn = <<>> /\ chunkPhase = "line"
NoFormBody ==
    /\ form = [fields |-> <<>>, file |-> <<>>] /\ body = <<>> /\ pulled = 0 /\ pending = <<>> /\ formPhase = "start"
    /\ name = "" /\ kept = <<>> /\ fieldBytes = 0 /\ streamed = <<>>

\* Forms that are ordered, and what may be made of one.
AnOrder == [bucket |-> <<1>>, prefix |-> <<>>, min |-> 0, max |-> 2, lifetime |-> 1, pair |-> "active"]
Orders ==
    [bucket : {<<1>>}, prefix : {<<>>, <<1>>, <<1, 9>>}, min : {0, 2, 3}, max : {2, 4}, lifetime : {0, 1, 3}, pair : {"active"}]
    \cup {[AnOrder EXCEPT !.prefix = p] : p \in {<<3>>, <<1, 3>>, <<1, 4, 4>>}} \cup {[AnOrder EXCEPT !.pair = "revoked"]}
FieldChanges ==
    [{"key"} -> {<<2>>, <<1, 2>>, <<1, 9, 2>>}] \cup [{"bucket"} -> {<<2>>}] \cup [{"content-type"} -> {<<>>}]
    \cup [{"x-amz-date"} -> {<<2>>}] \cup [{"x-ignore-this"} -> {<<2>>}]
UsesOf ==
    LET made(changes, omissions) ==
          [bucket : {<<1>>, <<2>>}, size : {1, 2, 3}, wait : 1..4, filename : {<<>>, <<4>>}, changed : changes, omitted : omissions]
    IN  made({<<>>}, {{}, {"x-amz-date"}, {"key"}}) \cup made(FieldChanges, {{}})
IssueLimits == [shortest |-> 1, longest |-> 3, bytes |-> 3]
Issue == <<6>>

NoIssue ==
    /\ order = AnOrder
    /\ use = [bucket |-> <<1>>, size |-> 1, wait |-> 1, filename |-> <<4>>, changed |-> <<>>, omitted |-> {}]

NoDeploy == DeployInit /\ envFile = "missing" /\ schema = 0 /\ checkout = [at |-> 1, branch |-> TRUE, tip |-> 1]
NoArchives == ArchivesInit /\ database = NotThere

\* Of two backups one starts first; of two keys of an account, and of two
\* master keys, one was there first.
FirstOf(S) == CHOOSE x \in S : TRUE
InOrder == backups'[FirstOf(Backup)].at = "idle" => \A b \in Backup : backups'[b].at = "idle"
FirstKey == keys["a2"] = "none"
OldKey == database # NotThere /\ database.sealed # {} => FirstOf(MasterKey) \in database.sealed

MCInit ==
    /\ focus \in {"list", "sign", "dispatch", "form", "limit", "session", "chunks", "formBody", "issued",
                "deploy", "archives"}
    /\ Aside("list", ListInit, NoListing)
    /\ Aside("sign", SignInit /\ FirstKey, NoSigner)
    /\ Aside("dispatch", DispatchInit, asked = [level |-> "service", method |-> "GET", params |-> {}, copy |-> FALSE])
    /\ Aside("form", PostInit, NoForm)
    /\ Aside("chunks", ChunkInit, NoChunks)
    /\ Aside("formBody", FormBodyInit, NoFormBody)
    /\ Aside("issued", IssuedInit, NoIssue)
    /\ Aside("deploy", DeployInit, NoDeploy)
    /\ Aside("archives", ArchivesInit /\ OldKey, NoArchives)
    /\ LimitInit /\ SessionInit

MCNext ==
    /\ UNCHANGED <<focus, asked, post, order, use>>
    /\ \/ focus = "list" /\ ListNext /\ UNCHANGED <<operatorVars, signVars, limitVars, sessionVars, chunkVars, formVars>>
       \/ focus = "sign" /\ SignNext /\ UNCHANGED <<operatorVars, listVars, limitVars, sessionVars, chunkVars, formVars>>
       \/ focus = "limit" /\ LimitNext /\ UNCHANGED <<operatorVars, listVars, signVars, sessionVars, chunkVars, formVars>>
       \/ focus = "session" /\ SessionNext /\ UNCHANGED <<operatorVars, listVars, signVars, limitVars, chunkVars, formVars>>
       \/ focus = "chunks" /\ ChunkNext /\ UNCHANGED <<operatorVars, listVars, signVars, limitVars, sessionVars, formVars>>
       \/ focus = "formBody" /\ FormBodyNext /\ UNCHANGED <<operatorVars, listVars, signVars, limitVars, sessionVars, chunkVars>>
       \/ /\ UNCHANGED <<listVars, signVars, limitVars, sessionVars, chunkVars, formVars>>
          /\ \/ focus = "deploy" /\ DeployNext /\ UNCHANGED archiveVars
             \/ focus = "archives" /\ ArchivesNext /\ InOrder /\ UNCHANGED deployVars

MCSpec == MCInit /\ [][MCNext]_requestVars

\* A request does what its sender asked for and may: it changes nothing it only
\* reads, a form stores what its policy agreed to, one that was issued what was
\* ordered and no less, and the bytes of a body are those that were signed or
\* framed.
DoneAsAsked ==
    /\ focus = "dispatch" => ReadersChangeNothing /\ AnonymousChangesObjectsOnly /\ ReadingMethodsRead
    /\ focus = "form" => StoredAsAgreed /\ NothingAdded
    /\ focus = "issued" => FormStaysInside /\ FormIsTaken
    /\ focus = "chunks" => ChunkTypeOK /\ PassedOnWasSigned /\ EndsWellIfWhole
    /\ focus = "formBody" => FormBodyTypeOK /\ FileIsExact /\ LimitIsFair

=============================================================================
