---------------------------- MODULE PublicLinks -----------------------------
(***************************************************************************)
(* Public links to the object of one key, and who looks through them.  A   *)
(* link follows an object's id: an overwrite keeps the id, so the link     *)
(* shows the new bytes; a delete takes the links along, and what is        *)
(* uploaded under the key later is another object.  A visitor's request is *)
(* let in once, and then waits for Drive while all of that goes on.        *)
(***************************************************************************)
EXTENDS Naturals, Sequences, FiniteSets

CONSTANTS Visitors, MaxLinks, MaxFiles, Horizon, NoObject

ASSUME PublicLinksAssumption ==
    MaxLinks \in Nat /\ MaxFiles \in Nat /\ Horizon \in Nat /\ NoObject \notin [id : Nat, file : Nat]

Owner == 0      \* in place of a link: the dashboard's own download
Forever == Horizon + 1

VARIABLES
    object,     \* the key's row [id, file], or NoObject
    fileOf,     \* history: the id each file was the content of
    inDrive,    \* files that Drive holds
    links,      \* the rows, in the order of their making
    making,     \* dashboard calls that wait for their body: the id they read
    viewing,    \* visitor -> request
    hour,
    ended       \* history: links that were revoked, ran out or went with their object

linkVars == <<object, fileOf, inDrive, links, making, viewing, hour, ended>>

Tokens == 1..Len(links)
Away == [at |-> "away", through |-> Owner, head |-> FALSE, id |-> 0, file |-> 0, bytes |-> 0, open |-> FALSE]
States == {"active", "revoked", "gone"}

LinksTypeOK ==
    /\ object = NoObject \/ (object.id \in 1..MaxFiles /\ object.file \in 1..Len(fileOf))
    /\ fileOf \in Seq(1..MaxFiles) /\ inDrive \subseteq 1..Len(fileOf)
    /\ \A t \in Tokens : links[t].status \in States /\ links[t].until \in 1..Forever
    /\ making \subseteq 1..MaxFiles /\ ended \subseteq Tokens /\ hour \in 0..Horizon
    /\ \A v \in Visitors : viewing[v].at \in {"away", "verifying", "fetching", "served", "refused"}
    /\ \A v \in Visitors : viewing[v].at \in {"fetching", "served"} => viewing[v].bytes \in 1..Len(fileOf)

LinksInit ==
    /\ object = NoObject /\ fileOf = <<>> /\ inDrive = {} /\ links = <<>> /\ making = {}
    /\ viewing = [v \in Visitors |-> Away] /\ hour = 0 /\ ended = {}

-----------------------------------------------------------------------------
(* What happens to the object.  Cleanup takes a file that no row names,    *)
(* also while someone reads it.                                            *)

FreshId == Cardinality({fileOf[f] : f \in 1..Len(fileOf)}) + 1
Uploads(id) ==
    /\ Len(fileOf) < MaxFiles
    /\ fileOf' = Append(fileOf, id) /\ inDrive' = inDrive \cup {Len(fileOf) + 1}
    /\ object' = [id |-> id, file |-> Len(fileOf) + 1]
    /\ UNCHANGED <<links, making, viewing, hour, ended>>
UploadNew == object = NoObject /\ Uploads(FreshId)
Overwrite == object # NoObject /\ Uploads(object.id)

\* The rows of a deleted object's links are deleted with it.
LinksOf(id) == {t \in Tokens : links[t].object = id}
DeleteShared ==
    /\ object # NoObject /\ object' = NoObject
    /\ links' = [t \in Tokens |-> IF t \in LinksOf(object.id) THEN [links[t] EXCEPT !.status = "gone"] ELSE links[t]]
    /\ ended' = ended \cup {t \in Tokens : links[t].object = object.id}
    /\ UNCHANGED <<fileOf, inDrive, making, viewing, hour>>

NamedFiles == IF object = NoObject THEN {} ELSE {object.file}
CleansUp(f) ==
    /\ f \in inDrive \ NamedFiles
    /\ inDrive' = inDrive \ {f}
    /\ UNCHANGED <<object, fileOf, links, making, viewing, hour, ended>>

-----------------------------------------------------------------------------
(* The owner's calls.                                                      *)

\* The object is looked up before the body of the call is read.
AskLink ==
    /\ object # NoObject /\ making' = making \cup {object.id}
    /\ UNCHANGED <<object, fileOf, inDrive, links, viewing, hour, ended>>

\* A row needs its object, and an end that has not come.
Insertable(id) == object # NoObject /\ object.id = id
CreateLink(id, until) ==
    /\ id \in making /\ making' = making \ {id}
    /\ links' = IF Insertable(id) /\ until > hour /\ Len(links) < MaxLinks
                THEN Append(links, [object |-> id, status |-> "active", until |-> until])
                ELSE links
    /\ UNCHANGED <<object, fileOf, inDrive, viewing, hour, ended>>

RevokeLink(t) ==
    /\ object # NoObject /\ links[t].object = object.id /\ links[t].status = "active"
    /\ links' = [links EXCEPT ![t].status = "revoked"] /\ ended' = ended \cup {t}
    /\ UNCHANGED <<object, fileOf, inDrive, making, viewing, hour>>

HourPasses ==
    /\ hour < Horizon /\ hour' = hour + 1
    /\ ended' = ended \cup {t \in Tokens : links[t].until <= hour + 1}
    /\ UNCHANGED <<object, fileOf, inDrive, links, making, viewing>>

-----------------------------------------------------------------------------
(* A visitor's request.                                                    *)

Views(v, to) ==
    /\ viewing' = [viewing EXCEPT ![v] = to]
    /\ UNCHANGED <<object, fileOf, inDrive, links, making, hour, ended>>
Becomes(v, at) == Views(v, [viewing[v] EXCEPT !.at = at])

\* The link is joined with its object: one that has no row resolves to nothing.
MutResolveByKey(t) == object # NoObject /\ links[t].until > hour /\ links[t].status \in {"active", "gone"}
ResolveActive(t) ==
    /\ object # NoObject /\ links[t].object = object.id
    /\ links[t].status = "active" /\ links[t].until > hour

Visit(v, t, head) ==
    /\ viewing[v].at = "away"
    /\ IF ResolveActive(t)
       THEN Views(v, [at |-> "verifying", through |-> t, head |-> head, id |-> object.id, file |-> object.file,
                      bytes |-> 0, open |-> t \notin ended])
       ELSE Views(v, [Away EXCEPT !.at = "refused", !.through = t])
OwnerAsks(v, head) ==
    /\ viewing[v].at = "away" /\ object # NoObject
    /\ Views(v, [at |-> "verifying", through |-> Owner, head |-> head, id |-> object.id, file |-> object.file,
                 bytes |-> 0, open |-> TRUE])

\* The row is read again, and must still be of the file that was read first.
SameFile(req) == object # NoObject /\ object.id = req.id /\ object.file = req.file
Headed(req) == [req EXCEPT !.at = IF req.head THEN "served" ELSE "fetching", !.bytes = object.file]
ReadAgain(v) ==
    /\ viewing[v].at = "verifying"
    /\ IF SameFile(viewing[v]) THEN Views(v, Headed(viewing[v])) ELSE Becomes(v, "refused")

\* Drive answers; the dashboard, and only it, looks at the row once more.
LooksAgain(req) == req.through = Owner
Fetched(v) ==
    /\ viewing[v].at = "fetching" /\ viewing[v].bytes \in inDrive
    /\ Becomes(v, IF LooksAgain(viewing[v]) /\ ~SameFile(viewing[v]) THEN "refused" ELSE "served")

\* The drive is out of reach, the file is gone, or the wait was given up.
ViewFails(v) == viewing[v].at \in {"verifying", "fetching"} /\ Becomes(v, "refused")
Leaves(v) == viewing[v].at \in {"served", "refused"} /\ Views(v, Away)

-----------------------------------------------------------------------------

LinksNext ==
    \/ UploadNew \/ Overwrite \/ DeleteShared \/ HourPasses \/ AskLink
    \/ \E f \in inDrive : CleansUp(f)
    \/ \E id \in making, until \in 1..Forever : CreateLink(id, until)
    \/ \E t \in Tokens : RevokeLink(t)
    \/ \E v \in Visitors :
          \/ ReadAgain(v) \/ Fetched(v) \/ ViewFails(v) \/ Leaves(v)
          \/ \E head \in BOOLEAN : OwnerAsks(v, head) \/ \E t \in Tokens : Visit(v, t, head)

LinksSpec == LinksInit /\ [][LinksNext]_linkVars

-----------------------------------------------------------------------------

\* A request that comes when its link has been revoked, has run out or has
\* lost its object is not answered with anything of the object's.
EndedLinksShowNothing == \A v \in Visitors : viewing[v].at = "served" => viewing[v].open

\* What a link shows was uploaded as the object that it was made for, never
\* as one that came under the same key after a delete.
ShowsItsObject ==
    \A v \in Visitors : viewing[v].at = "served" /\ viewing[v].through # Owner =>
        fileOf[viewing[v].bytes] = links[viewing[v].through].object

\* The headers of an answer are of the file its bytes come from, though the
\* object was overwritten while the answer was being made.
HeadersAreOfTheBytes == \A v \in Visitors : viewing[v].at = "served" => viewing[v].bytes = viewing[v].file

\* No link outlives its object, and none is made for one that is deleted
\* while the call reads its body.
LinksHaveObjects == \A t \in Tokens : links[t].status # "gone" => object # NoObject /\ object.id = links[t].object

\* The dashboard's download answers with what is current when it answers.
DashboardShowsCurrent ==
    [][\A v \in Visitors : viewing[v].at = "fetching" /\ viewing'[v].at = "served" /\ viewing[v].through = Owner =>
          object # NoObject /\ object.file = viewing[v].bytes]_linkVars

\* What a public link promises: once ended it shows nothing, while it lasts it
\* shows its own object, with the headers of the bytes it sends; a link has an
\* object, and the dashboard's dialog shows what it was opened for.
LinksSafe ==
    /\ [](LinksTypeOK /\ EndedLinksShowNothing /\ ShowsItsObject /\ HeadersAreOfTheBytes /\ LinksHaveObjects)
    /\ DashboardShowsCurrent

=============================================================================
