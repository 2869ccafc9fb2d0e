----------------------------- MODULE BackupSinks -----------------------------
(***************************************************************************)
(* Sending one object to an S3 destination: cut into parts as it is read,  *)
(* each request tried several times, a failed upload aborted.  A request   *)
(* or its answer may be lost, and a request given up may still arrive.     *)
(* Bytes are numbers, so that what is stored shows where it came from.     *)
(***************************************************************************)
EXTENDS Integers, Sequences, FiniteSets, FiniteSetsExt
LOCAL INSTANCE SequencesExt

CONSTANTS
    Sizes,         \* of the objects sent
    PartConfigured,
    MaxParts,
    MaxTries,      \* attempts of one request
    MaxUploads,    \* bound: multipart uploads the destination opens
    MaxLate        \* bound: requests that arrive after they were given up

ASSUME S3UploadAssumption ==
    /\ Sizes \subseteq Nat /\ PartConfigured \in Nat \ {0} /\ MaxParts \in Nat \ {0, 1} /\ MaxTries \in Nat \ {0}
    /\ MaxUploads \in Nat /\ MaxLate \in Nat

VARIABLES
    size,          \* of the object, also the hint for its parts
    given,         \* how many of its bytes the source gave
    source,        \* "open", "spent" or "released"
    gathered,      \* what the read at hand has of its part
    spare,         \* given, but not part of a read yet
    at,            \* where uploadStream is
    chunk, queued, \* the part to send and the one read ahead
    etags,         \* of the parts sent: their bytes
    upload,        \* the id the destination gave, or 0
    tries,         \* attempts of the request at hand
    cancelled,     \* the run's signal
    failure,       \* what uploadStream will throw, "none" meanwhile
    leftOpen,      \* the abort failed too
    stored,        \* under the key at the destination
    uploads,       \* the destination's multipart uploads
    late           \* requests given up that may still arrive

uploadVars == <<size, given, source, gathered, spare, at, chunk, queued, etags, upload, tries, cancelled, failure, leftOpen,
                stored, uploads, late>>
readVars == <<given, source, gathered, spare>>

Object == [i \in 1..size |-> i]
Before == <<0>>

PartSizeFor(hint) == Max({PartConfigured, (hint + MaxParts - 2) \div (MaxParts - 1)})
PartSize == PartSizeFor(size)

Reads == {"first", "second", "next"}
Sends == {"put", "create", "part", "complete", "abort"}
Ended == at \in {"done", "failed"}

UploadTypeOK ==
    /\ at \in Reads \cup Sends \cup {"done", "failed"} /\ source \in {"open", "spent", "released"}
    /\ given \in 0..size /\ Len(gathered) <= PartSize /\ tries \in 0..(MaxTries - 1)
    /\ upload \in 0..Len(uploads) /\ Len(etags) <= MaxParts
    /\ at = "done" <=> failure = "none" /\ Ended

UploadInit ==
    /\ size \in Sizes /\ given = 0 /\ source = "open" /\ gathered = <<>> /\ spare = <<>>
    /\ at = "first" /\ chunk = <<>> /\ queued = <<>> /\ etags = <<>> /\ upload = 0 /\ tries = 0
    /\ cancelled = FALSE /\ failure = "none" /\ leftOpen = FALSE
    /\ stored = Before /\ uploads = <<>> /\ late = {}

-----------------------------------------------------------------------------
(***************************************************************************)
(* Reading parts.                                                          *)
(***************************************************************************)

Reading == at \in Reads
PartRead == Len(gathered) = PartSize \/ (source = "spent" /\ spare = <<>>)
FromSource == Reading /\ ~PartRead /\ source = "open" /\ spare = <<>>

\* The source gives pieces of any size; what a part does not hold is spare.
Give(n) ==
    /\ FromSource /\ given + n <= size
    /\ given' = given + n
    /\ LET piece == SubSeq(Object, given + 1, given + n)
           take == Min({n, PartSize - Len(gathered)})
       IN  gathered' = gathered \o SubSeq(piece, 1, take) /\ spare' = SubSeq(piece, take + 1, n)
    /\ UNCHANGED <<size, source, at, chunk, queued, etags, upload, tries, cancelled, failure, leftOpen, stored, uploads, late>>

UseSpare ==
    /\ Reading /\ ~PartRead /\ spare # <<>>
    /\ LET take == Min({Len(spare), PartSize - Len(gathered)})
       IN  gathered' = gathered \o SubSeq(spare, 1, take) /\ spare' = SubSeq(spare, take + 1, Len(spare))
    /\ UNCHANGED <<size, given, source, at, chunk, queued, etags, upload, tries, cancelled, failure, leftOpen, stored, uploads, late>>

GiveLast ==
    /\ FromSource /\ given = size /\ source' = "spent"
    /\ UNCHANGED <<size, given, gathered, spare, at, chunk, queued, etags, upload, tries, cancelled, failure, leftOpen, stored,
                   uploads, late>>

\* Whatever fails: a multipart upload that is open is aborted, and the source
\* released, before the failure is thrown.
Aborts == upload # 0
Fail(why) ==
    /\ failure' = IF failure = "none" THEN why ELSE failure
    /\ tries' = 0 /\ leftOpen' = (at = "abort" /\ why # "cancelled")
    /\ IF Aborts /\ at # "abort" THEN at' = "abort" /\ UNCHANGED source
       ELSE at' = "failed" /\ source' = "released"

SourceBreaks ==
    /\ FromSource
    /\ Fail("source") /\ UNCHANGED <<size, given, gathered, spare, chunk, queued, etags, upload, cancelled, stored, uploads, late>>

Turns(next, part, ahead) == at' = next /\ chunk' = part /\ queued' = ahead

ReadFirst ==
    /\ at = "first" /\ PartRead
    /\ IF Len(gathered) = PartSize THEN Turns("second", gathered, <<>>) ELSE Turns("put", gathered, <<>>)
    /\ gathered' = <<>> /\ UNCHANGED <<size, given, source, spare, etags, upload, tries, cancelled, failure, leftOpen, stored, uploads, late>>

ReadSecond ==
    /\ at = "second" /\ PartRead
    /\ IF gathered = <<>> THEN Turns("put", chunk, <<>>) ELSE Turns("create", chunk, gathered)
    /\ gathered' = <<>> /\ UNCHANGED <<size, given, source, spare, etags, upload, tries, cancelled, failure, leftOpen, stored, uploads, late>>

\* A part follows as long as there is one, within the limit on their number.
ReadNext ==
    /\ at = "next" /\ PartRead
    /\ gathered' = <<>> /\ UNCHANGED <<size, given, spare, etags, upload, cancelled, stored, uploads, late>>
    /\ IF gathered = <<>> THEN Turns("complete", <<>>, <<>>) /\ UNCHANGED <<source, tries, failure, leftOpen>>
       ELSE IF Len(etags) = MaxParts THEN Fail("parts") /\ UNCHANGED <<chunk, queued>>
       ELSE Turns("part", gathered, <<>>) /\ UNCHANGED <<source, tries, failure, leftOpen>>

-----------------------------------------------------------------------------
(***************************************************************************)
(* The destination.                                                        *)
(***************************************************************************)

ToSend == [op |-> at, upload |-> upload, number |-> Len(etags) + 1, body |-> chunk, etags |-> etags]
Open(u) == u \in DOMAIN uploads /\ uploads[u].open
\* What was named must be what was sent.
Complete(r) == Open(r.upload) /\ \A i \in DOMAIN r.etags : i \in DOMAIN uploads[r.upload].parts
                                                          /\ uploads[r.upload].parts[i] = r.etags[i]
With(f, x, y) == [z \in DOMAIN f \cup {x} |-> IF z = x THEN y ELSE f[z]]

Takes(r) ==
    /\ uploads' = CASE r.op = "create" -> Append(uploads, [open |-> TRUE, parts |-> <<>>])
                    [] r.op = "part" /\ Open(r.upload) ->
                          [uploads EXCEPT ![r.upload].parts = With(@, r.number, r.body)]
                    [] (r.op = "abort" /\ Open(r.upload)) \/ (r.op = "complete" /\ Complete(r)) ->
                          [uploads EXCEPT ![r.upload].open = FALSE]
                    [] OTHER -> uploads
    /\ stored' = CASE r.op = "put" -> r.body
                   [] r.op = "complete" /\ Complete(r) -> FlattenSeq(r.etags)
                   [] OTHER -> stored

\* An upload that is gone is an answer like another; for the abort it is good.
Good(r) == (r.op = "part" => Open(r.upload)) /\ (r.op = "complete" => Complete(r))

-----------------------------------------------------------------------------
(***************************************************************************)
(* Requests and their answers.                                             *)
(***************************************************************************)

Sending == at \in Sends /\ (at = "create" => Len(uploads) < MaxUploads)
\* The abort is not under the run's signal.
Stops == cancelled /\ at # "abort"

Refused == Sending /\ Stops /\ Fail("cancelled")
           /\ UNCHANGED <<size, given, gathered, spare, chunk, queued, etags, upload, cancelled, stored, uploads, late>>

MutAfterPart == Turns("next", <<>>, <<>>)
AfterPart == IF queued # <<>> THEN Turns("part", queued, <<>>) ELSE Turns("next", <<>>, <<>>)

Answered ==
    /\ Sending /\ ~Stops /\ Good(ToSend)
    /\ Takes(ToSend) /\ tries' = 0
    /\ CASE at = "put" -> Turns("done", chunk, <<>>) /\ UNCHANGED <<etags, upload, source>>
         [] at = "create" -> Turns("part", chunk, queued) /\ upload' = Len(uploads) + 1 /\ UNCHANGED <<etags, source>>
         [] at = "part" -> AfterPart /\ etags' = Append(etags, chunk) /\ UNCHANGED <<upload, source>>
         [] at = "complete" -> Turns("done", chunk, <<>>) /\ UNCHANGED <<etags, upload, source>>
         [] at = "abort" -> Turns("failed", chunk, queued) /\ source' = "released" /\ UNCHANGED <<etags, upload>>
    /\ UNCHANGED <<size, given, gathered, spare, cancelled, failure, leftOpen, late>>

\* An attempt fails: tried again as long as that may help.  The destination
\* has taken it ("taken"), has not ("lost"), or will still ("late"); it was
\* too busy for it, it refused it, or it refuses all of them ("denied").
Retried(fate) == fate \notin {"refused", "denied"} /\ tries + 1 < MaxTries
Effect(fate) ==
    /\ fate = "late" => Cardinality(late) < MaxLate
    /\ IF fate = "taken" THEN Takes(ToSend) ELSE UNCHANGED <<uploads, stored>>
    /\ late' = IF fate = "late" THEN late \cup {ToSend} ELSE late
Failed(fate) ==
    /\ Sending /\ ~Stops /\ Effect(fate)
    /\ UNCHANGED <<size, given, gathered, spare, chunk, queued, etags, upload, cancelled>>
    /\ IF Retried(fate) THEN tries' = tries + 1 /\ UNCHANGED <<at, failure, leftOpen, source>>
       ELSE Fail(IF fate \in {"busy", "refused"} THEN "object" ELSE "destination")

\* The run is cancelled while a request is under way.
Cancelled(fate) ==
    /\ Sending /\ at # "abort" /\ ~cancelled /\ cancelled' = TRUE /\ Effect(fate)
    /\ Fail("cancelled") /\ UNCHANGED <<size, given, gathered, spare, chunk, queued, etags, upload>>

\* The upload is gone: completed by an attempt whose answer was lost, say.
UploadGone ==
    /\ Sending /\ ~Stops /\ ~Good(ToSend)
    /\ Fail("object") /\ UNCHANGED <<size, given, gathered, spare, chunk, queued, etags, upload, cancelled, stored, uploads, late>>

Arrives(r) ==
    /\ r \in late /\ late' = late \ {r}
    /\ r.op = "create" => Len(uploads) < MaxUploads
    /\ Takes(r)
    /\ UNCHANGED <<size, readVars, at, chunk, queued, etags, upload, tries, cancelled, failure, leftOpen>>

Cancel ==
    /\ ~cancelled /\ ~Ended /\ cancelled' = TRUE
    /\ UNCHANGED <<size, readVars, at, chunk, queued, etags, upload, tries, failure, leftOpen, stored, uploads, late>>

UploadNext ==
    \/ \E n \in 1..size : Give(n)
    \/ UseSpare \/ GiveLast \/ SourceBreaks \/ ReadFirst \/ ReadSecond \/ ReadNext
    \/ Refused \/ Answered \/ UploadGone \/ Cancel
    \/ \E fate \in {"lost", "taken", "late", "busy", "refused", "denied"} : Failed(fate)
    \/ \E fate \in {"lost", "taken", "late"} : Cancelled(fate)
    \/ \E r \in late : Arrives(r)

UploadSpec == UploadInit /\ [][UploadNext]_uploadVars

-----------------------------------------------------------------------------

\* Under the key there is the whole object or what was there before, never
\* some of its parts, whatever was lost, tried again or came late; and what
\* is reported as copied is there.
StoredWhole == stored \in {Before, Object} /\ (at = "done" => stored = Object)

\* When it is over the source is released, and an upload that the destination
\* still keeps, with the parts that it bills, is one whose abort failed as
\* often as it may, or one whose creation never answered.
NothingLeftOpen ==
    Ended => /\ source # "open"
             /\ \A u \in DOMAIN uploads : uploads[u].open => u # upload \/ leftOpen

\* An object of the size that was told is never too large for its parts.
FitsInParts == failure # "parts"

-----------------------------------------------------------------------------
(***************************************************************************)
(* Copying one object through `rclone rcat`: a pump fills the pipe of a    *)
(* child process, which stores what it was given once its input ends.      *)
(* Source, child and signal may each fail or come first.                   *)
(***************************************************************************)

CONSTANTS RcloneSizes, MaxPipe

ASSUME RcloneAssumption == RcloneSizes \subseteq Nat /\ MaxPipe \in Nat \ {0}

VARIABLES
    length,       \* the recorded size of the object
    real,         \* how much the source has of it: less, or more, when it is wrong
    ready,        \* how much it has given
    origin,       \* the source: "open", "ended" or "released"
    pump,         \* "reading", "ended", "sourceFailed", "pipeBroke"
    input,        \* the child's: "open" or "ended"
    pipe, taken,  \* bytes written and not read yet, and read
    child,        \* "running", "killed", or its exit: "ok", "fatal", "error", "signal"
    aborted,      \* the run's signal
    copy,         \* what is under the name at the remote: 0 is what was there
    outcome       \* "none", "done", "object", "destination", "cancelled", "source"

rcloneVars == <<length, real, ready, origin, pump, input, pipe, taken, child, aborted, copy, outcome>>
pumpVars == <<ready, origin, pump, input, pipe>>

Exits == {"ok", "fatal", "error", "signal"}
Nothing == -1

RcloneTypeOK ==
    /\ origin \in {"open", "ended", "released"} /\ pump \in {"reading", "ended", "sourceFailed", "pipeBroke"}
    /\ pipe \in 0..MaxPipe /\ taken + pipe = ready
    /\ pump = "ended" => origin = "ended"
    /\ outcome = "done" => child = "ok"

RcloneInit ==
    /\ length \in RcloneSizes /\ real \in RcloneSizes /\ ready = 0 /\ origin = "open" /\ pump = "reading" /\ input = "open"
    /\ pipe = 0 /\ taken = 0 /\ child = "running" /\ aborted = FALSE /\ copy = Nothing /\ outcome = "none"

Running == child = "running"
\* It takes no more of its input, and what it has not read is lost.
ChildGone == child \in Exits

-----------------------------------------------------------------------------

\* The pump waits for the pipe to drain before it reads on.
Drained == pipe < MaxPipe
Read ==
    /\ pump = "reading" /\ origin = "open" /\ Drained /\ ready < real /\ ~ChildGone
    /\ ready' = ready + 1 /\ pipe' = pipe + 1
    /\ UNCHANGED <<length, real, origin, pump, input, taken, child, aborted, copy, outcome>>

PipeBreaks ==
    /\ pump = "reading" /\ origin = "open" /\ ChildGone
    /\ pump' = "pipeBroke" /\ origin' = "released"
    /\ UNCHANGED <<length, real, ready, input, pipe, taken, child, aborted, copy, outcome>>

ReadLast ==
    /\ pump = "reading" /\ origin = "open" /\ ready = real
    /\ pump' = "ended" /\ origin' = "ended" /\ input' = "ended"
    /\ UNCHANGED <<length, real, ready, pipe, taken, child, aborted, copy, outcome>>

\* The object cannot be read on: what waits for the rest is killed.
AfterSourceFails == child' = (IF Running THEN "killed" ELSE child) /\ UNCHANGED input
SourceFails ==
    /\ pump = "reading" /\ origin = "open"
    /\ pump' = "sourceFailed" /\ origin' = "released" /\ AfterSourceFails
    /\ UNCHANGED <<length, real, ready, pipe, taken, aborted, copy, outcome>>

\* The run is cancelled: the child is killed, and the source stops too.
Killed == IF Running THEN "killed" ELSE child
Abort ==
    /\ ~aborted /\ outcome = "none" /\ aborted' = TRUE /\ child' = Killed
    /\ UNCHANGED <<length, real, pumpVars, taken, copy, outcome>>

-----------------------------------------------------------------------------
(***************************************************************************)
(* rclone, as it is used: given the size, it stores no other.              *)
(***************************************************************************)

ChildReads ==
    /\ Running /\ pipe > 0 /\ pipe' = pipe - 1 /\ taken' = taken + 1
    /\ UNCHANGED <<length, real, ready, origin, pump, input, child, aborted, copy, outcome>>

\* Its input ended: it stores what it read, if that is the size it was told.
SizeMatters == TRUE
ChildStores ==
    /\ Running /\ input = "ended" /\ pipe = 0 /\ copy # taken
    /\ (SizeMatters => taken = length) /\ copy' = taken
    /\ UNCHANGED <<length, real, pumpVars, taken, child, aborted, outcome>>

ChildExits(exit) ==
    /\ \/ Running /\ exit = "ok" /\ input = "ended" /\ pipe = 0 /\ copy = taken
       \/ Running /\ exit \in {"fatal", "error"}
       \/ child = "killed" /\ exit = "signal"
    /\ child' = exit
    /\ UNCHANGED <<length, real, pumpVars, taken, aborted, copy, outcome>>

-----------------------------------------------------------------------------

\* When the pump has stopped and the child is gone: a source that failed
\* comes first, then the signal, then what rclone says.
Over == pump # "reading" /\ ChildGone
Settle ==
    /\ outcome = "none" /\ Over
    /\ outcome' = CASE pump = "sourceFailed" -> "source"
                    [] pump # "sourceFailed" /\ aborted -> "cancelled"
                    [] pump # "sourceFailed" /\ ~aborted ->
                         (CASE child = "ok" -> "done" [] child = "fatal" -> "destination" [] OTHER -> "object")
    /\ UNCHANGED <<length, real, pumpVars, taken, child, aborted, copy>>

RcloneNext ==
    \/ Read \/ PipeBreaks \/ ReadLast \/ SourceFails \/ Abort
    \/ ChildReads \/ ChildStores \/ Settle
    \/ \E exit \in Exits : ChildExits(exit)

ChildFinishes == \E exit \in Exits : exit # "fatal" /\ input = "ended" /\ ChildExits(exit)
\* The pump goes on as long as it can, and a child that is killed or whose
\* input ended ends.
RcloneFairness ==
    /\ WF_rcloneVars(Read \/ PipeBreaks \/ ReadLast) /\ WF_rcloneVars(ChildReads) /\ WF_rcloneVars(ChildStores)
    /\ WF_rcloneVars(ChildFinishes)
    /\ WF_rcloneVars(ChildExits("signal")) /\ WF_rcloneVars(Settle)
RcloneSpec == RcloneInit /\ [][RcloneNext]_rcloneVars /\ RcloneFairness

-----------------------------------------------------------------------------

\* What is at the remote is never a part of the object, and what is reported
\* as copied is all of it, also when the source ended early.
NeverPartial == copy \in {Nothing, length} /\ (outcome = "done" => copy = length)

\* When it is over no child of it runs and the source is not held any more.
NothingLeftRunning == outcome # "none" => ChildGone /\ origin # "open"

\* It comes to an end, whoever fails first: nobody waits for the rest of an
\* object that does not come.
CopyEnds == <>(outcome # "none")

=============================================================================
