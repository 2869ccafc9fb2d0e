-------------------------- MODULE Multipart_proofs --------------------------
(***************************************************************************)
(* Theorems about Multipart, for every value of its constants.             *)
(*                                                                         *)
(*   TypeCorrect         every reachable state is well typed               *)
(*   UploadsEndOnce      completed, aborted and expired are final          *)
(*   OneObjectPerUpload  an upload becomes at most one object              *)
(*   CommitsInTime       nothing is committed for an upload that has ended *)
(*   FilesKept           nobody removes the files a completion will read   *)
(*   NamedBytesKept      an object is made of the bytes its client named   *)
(*                                                                         *)
(* The order of the upload's lock gives LockInv, from which FilesInv       *)
(* follows; BytesInv stands by itself.                                     *)
(***************************************************************************)
EXTENDS Multipart, TLAPS

USE MultipartAssumption DEF Request

(***************************************************************************)
(* The inductive invariants.                                               *)
(***************************************************************************)

\* An upload's lock has at most one holder.
OneHolder ==
    \A c, d \in Completer : Of[c] = Of[d] /\ InHand(c) /\ InHand(d) => c = d

\* From markCompleting until markCompleted its holder alone moves the status.
HolderCompletes ==
    \A c \in Completer : pc[c] \in {"slot", "streaming", "draining"} =>
        status[Of[c]] = "completing"

\* Once committed, an upload is never open again, nor is another completion of
\* it on its way to a commit.
PublishedSealed ==
    \A o \in published :
        /\ status[o.upload] \notin {"none", "open"}
        /\ \A c \in Completer : Of[c] = o.upload => pc[c] \notin {"slot", "streaming"}

LockInv == OneHolder /\ HolderCompletes /\ PublishedSealed /\ PublishedOnce

\* Only the files of ended uploads are removed.
RemovedAreEnded ==
    /\ \A p \in queue : status[p[1]] \in Ended
    /\ \A c \in Completer : \A p \in leftover[c] : status[p[1]] \in Ended

\* A part in place, or recorded, has its file while its upload has not ended.
PartsHaveFiles ==
    /\ \A r \in parts : status[r.upload] \notin Ended => files[PathOf(r)] # NoFile
    /\ \A r \in Part : pc[r] = "renaming" /\ status[Of[r]] \notin Ended =>
          files[PartPath(r)] # NoFile

\* A completion selects among the rows of its own upload.
SelectsOwn == \A c \in Completer : \A r \in selected[c] : r.upload = Of[c]

FilesInv == RemovedAreEnded /\ PartsHaveFiles /\ SelectsOwn /\ SelectedFilesKept

\* The requests for one part number of an upload carry the same bytes: the
\* client sends a part again only as a retry.
SameBytes ==
    \A q, r \in Part : PartPath(q) = PartPath(r) => Body[q] = Body[r]

\* Rows and files hold what some part request carried.
Carried(r) == \E q \in Part : PathOf(r) = PartPath(q) /\ r.etag = Body[q]

BytesInv ==
    /\ \A r \in parts : Carried(r)
    /\ \A c \in Completer : \A r \in selected[c] \cup read[c] : Carried(r)
    /\ \A p \in Path : files[p] # NoFile =>
          \E q \in Part : p = PartPath(q) /\ files[p] = Body[q]
    /\ BytesAsNamed
-----------------------------------------------------------------------------
(***************************************************************************)
(* Types.                                                                  *)
(***************************************************************************)

LEMMA InitTyped == Init => TypeOK
  BY DEF Init, TypeOK, Status, PC

LEMMA RowPaths ==
  ASSUME TypeOK, NEW u \in Upload
  PROVE  PartsOf(u) \subseteq parts /\ PathsOf(PartsOf(u)) \subseteq Upload \X Number
  BY DEF TypeOK, PartRow, PartsOf, PathsOf, PathOf

LEMMA PartStepTyped ==
  ASSUME TypeOK, NEW r \in Part, PartStep(r)
  PROVE  TypeOK'
<1> USE DEF disk, memory, Goes, TypeOK, PC
<1>1. CASE BeginPart(r) \/ PartFails(r)
  BY <1>1 DEF BeginPart, PartFails
<1>2. CASE RenamePart(r)
  BY <1>2 DEF RenamePart, Path, PartPath
<1>3. CASE RecordPart(r)
  <2>1. [upload |-> Of[r], number |-> At[r], etag |-> Body[r]] \in PartRow
    BY DEF PartRow
  <2> QED
    BY <1>3, <2>1 DEF RecordPart
<1> QED
  BY <1>1, <1>2, <1>3 DEF PartStep

LEMMA CompleteStepTyped ==
  ASSUME TypeOK, NEW c \in Completer, CompleteStep(c)
  PROVE  TypeOK'
<1> USE DEF disk, memory, Goes, PC
<1>1. CASE \/ BeginComplete(c) \/ Grant(c) \/ CheckOpen(c) \/ CompleteRefused(c)
           \/ GetSlot(c) \/ GiveUpSlot(c) \/ Answer(c)
  BY <1>1 DEF TypeOK, BeginComplete, Grant, CheckOpen, CompleteRefused, GetSlot,
              GiveUpSlot, Answer
<1>2. CASE SelectParts(c)
  BY <1>2, RowPaths DEF TypeOK, SelectParts
<1>3. CASE MarkCompleting(c) \/ StreamFails(c)
  BY <1>3 DEF TypeOK, MarkCompleting, StreamFails, AfterFailure, Status
<1>4. CASE ReadPart(c)
  <2>1. PICK r \in selected[c] :
           /\ files[PathOf(r)] # NoFile
           /\ read' = [read EXCEPT ![c] = @ \cup {[r EXCEPT !.etag = files[PathOf(r)]]}]
    BY <1>4 DEF ReadPart
  <2>2. r \in PartRow
    BY DEF TypeOK
  <2>3. files[PathOf(r)] \in Bytes
    BY <2>1, <2>2 DEF TypeOK, PathOf, Path, PartRow
  <2>4. [r EXCEPT !.etag = files[PathOf(r)]] \in PartRow
    BY <2>2, <2>3 DEF PartRow
  <2> QED
    BY <1>4, <2>1, <2>4 DEF TypeOK, ReadPart
<1>5. CASE CommitObject(c)
  <2>1. [upload |-> Of[c], by |-> c, named |-> selected[c], bytes |-> read[c]] \in PublishedObject
    BY DEF TypeOK, PublishedObject
  <2> QED
    BY <1>5, <2>1 DEF TypeOK, CommitObject
<1>6. CASE MarkCompleted(c)
  <2>1. leftover' \in [Completer -> SUBSET Path]
    BY <1>6, RowPaths DEF TypeOK, MarkCompleted, Path
  <2> QED
    BY <1>6, <2>1 DEF TypeOK, MarkCompleted, Status
<1>7. CASE CleanupTempFile(c)
  BY <1>7 DEF TypeOK, CleanupTempFile
<1> QED
  BY <1>1, <1>2, <1>3, <1>4, <1>5, <1>6, <1>7 DEF CompleteStep

LEMMA CrashTyped ==
  ASSUME TypeOK, Crash
  PROVE  /\ pc' \in [Request -> PC]
         /\ selected' \in [Completer -> SUBSET PartRow]
         /\ read' \in [Completer -> SUBSET PartRow]
         /\ leftover' \in [Completer -> SUBSET Path]
         /\ expiring' \subseteq Upload
         /\ unlinked' \subseteq Path
         /\ restarts' \in Nat
  BY DEF TypeOK, Crash, PC

LEMMA TypedStep == TypeOK /\ [Next]_vars => TypeOK'
<1> SUFFICES ASSUME TypeOK, [Next]_vars PROVE TypeOK'
  OBVIOUS
<1> USE DEF disk, memory
<1>1. CASE UNCHANGED vars
  BY <1>1 DEF vars, TypeOK
<1>2. ASSUME NEW u \in Upload, CreateMultipartUpload(u) \/ TimePasses(u) PROVE TypeOK'
  BY <1>2 DEF TypeOK, CreateMultipartUpload, TimePasses, Status
<1>3. ASSUME NEW a \in Aborter, AbortMultipartUpload(a) PROVE TypeOK'
  BY <1>3, RowPaths DEF TypeOK, AbortMultipartUpload, EndUpload, Goes, Status, PC, Path
<1>4. CASE WorkerStep
  <2>1. CASE ListExpired
    BY <2>1 DEF TypeOK, ListExpired
  <2>2. ASSUME NEW u \in Upload, ExpireOne(u) PROVE TypeOK'
    BY <2>2, RowPaths DEF TypeOK, ExpireOne, EndUpload, Status, Path
  <2>3. ASSUME NEW p \in queue, UnlinkQueued(p) \/ ForgetQueued(p) PROVE TypeOK'
    BY <2>3 DEF TypeOK, UnlinkQueued, ForgetQueued
  <2> QED
    BY <1>4, <2>1, <2>2, <2>3 DEF WorkerStep
<1>5. CASE Restart
  BY <1>5, CrashTyped DEF Restart, TypeOK
<1>6. ASSUME NEW a \in Aborter, CrashInAbort(a) PROVE TypeOK'
  <2>1. queue' \subseteq Path /\ parts' \subseteq parts
    BY <1>6, RowPaths DEF TypeOK, CrashInAbort, Path
  <2>2. status' \in [Upload -> Status]
    BY <1>6 DEF TypeOK, CrashInAbort, Status
  <2> QED
    BY <1>6, <2>1, <2>2, CrashTyped DEF CrashInAbort, TypeOK
<1>7. ASSUME NEW c \in Completer, CrashInCompletion(c) PROVE TypeOK'
  BY <1>7, CrashTyped DEF CrashInCompletion, TypeOK, Status
<1> QED
  BY <1>1, <1>2, <1>3, <1>4, <1>5, <1>6, <1>7, PartStepTyped, CompleteStepTyped DEF Next

\* Every reachable state is well typed.
THEOREM TypeCorrect == Spec => []TypeOK
  BY InitTyped, TypedStep, PTL DEF Spec

(***************************************************************************)
(* An upload ends once, and becomes at most one object.                    *)
(***************************************************************************)

LEMMA InitLock == Init => LockInv
  BY DEF Init, LockInv, OneHolder, HolderCompletes, PublishedSealed, PublishedOnce, InHand

\* A step by which no completion moves, nothing is published, and only uploads
\* that no completion holds change their status, and do not become open.
LEMMA LockFrame ==
  ASSUME TypeOK, LockInv,
         \A c \in Completer : pc'[c] = pc[c] \/ pc'[c] \in {"waiting", "done"},
         published' = published,
         \A u \in Upload : \/ status'[u] = status[u]
                           \/ /\ LockFree(u)
                              /\ status[u] = "none" \/ status'[u] \notin {"none", "open"}
  PROVE  LockInv'
<1>1. \A c \in Completer : InHand(c)' => InHand(c) /\ pc'[c] = pc[c]
  BY DEF InHand
<1>2. \A c \in Completer : InHand(c)' => status'[Of[c]] = status[Of[c]]
  BY <1>1 DEF LockFree
<1>3. OneHolder' /\ HolderCompletes'
  BY <1>1, <1>2 DEF LockInv, OneHolder, HolderCompletes, InHand
<1>4. PublishedSealed'
  BY DEF LockInv, PublishedSealed, TypeOK, PublishedObject
<1> QED
  BY <1>3, <1>4 DEF LockInv, PublishedOnce

LEMMA CompleteStepLock ==
  ASSUME TypeOK, LockInv, NEW c \in Completer, CompleteStep(c)
  PROVE  LockInv'
<1> USE DEF disk, memory, Goes
<1>1. CASE BeginComplete(c) \/ CompleteRefused(c) \/ GiveUpSlot(c) \/ Answer(c)
  <2>1. /\ status' = status /\ published' = published
        /\ \A d \in Completer : pc'[d] = pc[d] \/ pc'[d] \in {"waiting", "done"}
    BY <1>1 DEF TypeOK, BeginComplete, CompleteRefused, GiveUpSlot, Answer
  <2> QED
    BY <2>1, LockFrame
<1>2. CASE Grant(c)
  <2>1. /\ status' = status /\ published' = published
        /\ pc' = [pc EXCEPT ![c] = "locked"]
        /\ \A d \in Completer : Of[d] = Of[c] => ~InHand(d)
    BY <1>2 DEF Grant, LockFree
  <2>2. \A d \in Completer : d # c => pc'[d] = pc[d] /\ InHand(d)' = InHand(d)
    BY <2>1 DEF TypeOK, InHand
  <2>3. pc'[c] = "locked"
    BY <2>1 DEF TypeOK
  <2>4. OneHolder'
    BY <2>1, <2>2 DEF LockInv, OneHolder
  <2> QED
    BY <2>1, <2>2, <2>3, <2>4 DEF LockInv, HolderCompletes, PublishedSealed, PublishedOnce
<1>3. CASE \/ CheckOpen(c) \/ SelectParts(c) \/ GetSlot(c) \/ ReadPart(c) \/ CleanupTempFile(c)
  <2>1. status' = status /\ published' = published
    BY <1>3 DEF CheckOpen, SelectParts, GetSlot, ReadPart, CleanupTempFile
  <2>2. \A d \in Completer : /\ InHand(d)' => InHand(d)
                             /\ pc'[d] \in {"slot", "streaming", "draining"} =>
                                  pc[d] \in {"slot", "streaming", "draining"}
                             /\ pc'[d] \in {"slot", "streaming"} => pc[d] \in {"slot", "streaming"}
    BY <1>3 DEF TypeOK, CheckOpen, SelectParts, GetSlot, ReadPart, CleanupTempFile, InHand
  <2> QED
    BY <2>1, <2>2 DEF LockInv, OneHolder, HolderCompletes, PublishedSealed, PublishedOnce
<1>4. CASE MarkCompleting(c)
  <2>1. /\ status[Of[c]] = "open" /\ status' = [status EXCEPT ![Of[c]] = "completing"]
        /\ pc[c] = "checking" /\ pc' = [pc EXCEPT ![c] = "slot"]
        /\ published' = published
    BY <1>4 DEF MarkCompleting, IsOpen
  <2>2. \A d \in Completer : InHand(d)' = InHand(d)
    BY <2>1 DEF TypeOK, InHand
  <2>3. OneHolder'
    BY <2>2 DEF LockInv, OneHolder
  <2>4. HolderCompletes'
    BY <2>1 DEF TypeOK, LockInv, HolderCompletes
  <2>5. \A o \in published : o.upload # Of[c]
    BY <2>1 DEF LockInv, PublishedSealed
  <2>6. PublishedSealed'
    BY <2>1, <2>5 DEF TypeOK, PublishedObject, LockInv, PublishedSealed
  <2> QED
    BY <2>1, <2>3, <2>4, <2>6 DEF LockInv, PublishedOnce
<1>5. CASE StreamFails(c)
  <2>1. /\ pc[c] = "streaming" /\ pc' = [pc EXCEPT ![c] = "done"]
        /\ status[Of[c]] = "completing" /\ status' = [status EXCEPT ![Of[c]] = "aborted"]
        /\ published' = published
    BY <1>5 DEF StreamFails, AfterFailure, LockInv, HolderCompletes, TypeOK
  <2>2. \A d \in Completer : InHand(d)' => InHand(d) /\ pc'[d] = pc[d] /\ Of[d] # Of[c]
    BY <2>1 DEF TypeOK, InHand, LockInv, OneHolder
  <2>3. OneHolder' /\ HolderCompletes'
    BY <2>1, <2>2 DEF TypeOK, InHand, LockInv, OneHolder, HolderCompletes
  <2>4. PublishedSealed'
    BY <2>1 DEF TypeOK, PublishedObject, LockInv, PublishedSealed
  <2> QED
    BY <2>1, <2>3, <2>4 DEF LockInv, PublishedOnce
<1>6. CASE CommitObject(c)
  <2> DEFINE new == [upload |-> Of[c], by |-> c, named |-> selected[c], bytes |-> read[c]]
  <2>1. /\ pc[c] = "streaming" /\ pc' = [pc EXCEPT ![c] = "draining"]
        /\ status' = status /\ published' = published \cup {new}
    BY <1>6 DEF CommitObject
  <2>2. \A d \in Completer : InHand(d)' = InHand(d)
    BY <2>1 DEF TypeOK, InHand
  <2>3. OneHolder'
    BY <2>2 DEF LockInv, OneHolder
  <2>4. HolderCompletes'
    BY <2>1 DEF TypeOK, LockInv, HolderCompletes
  <2>5. \A d \in Completer : d # c /\ Of[d] = Of[c] => pc[d] \notin {"slot", "streaming"}
    BY <2>1 DEF LockInv, OneHolder, InHand
  <2>6. status[new.upload] = "completing"
    BY <2>1 DEF LockInv, HolderCompletes
  <2>7. PublishedSealed'
    BY <2>1, <2>5, <2>6 DEF TypeOK, LockInv, PublishedSealed
  <2>8. \A o \in published : o.upload # new.upload
    BY <2>1 DEF LockInv, PublishedSealed
  <2>9. PublishedOnce'
    BY <2>1, <2>8 DEF LockInv, PublishedOnce
  <2> QED
    BY <2>3, <2>4, <2>7, <2>9 DEF LockInv
<1>7. CASE MarkCompleted(c)
  <2>1. /\ pc[c] = "draining" /\ pc' = [pc EXCEPT ![c] = "unlinking"]
        /\ status' = [status EXCEPT ![Of[c]] = "completed"]
        /\ published' = published
    BY <1>7 DEF MarkCompleted
  <2>2. \A d \in Completer : InHand(d)' = InHand(d)
    BY <2>1 DEF TypeOK, InHand
  <2>3. OneHolder'
    BY <2>2 DEF LockInv, OneHolder
  <2>4. HolderCompletes'
    BY <2>1 DEF TypeOK, LockInv, OneHolder, HolderCompletes, InHand
  <2>5. PublishedSealed'
    BY <2>1 DEF TypeOK, PublishedObject, LockInv, PublishedSealed
  <2> QED
    BY <2>1, <2>3, <2>4, <2>5 DEF LockInv, PublishedOnce
<1> QED
  BY <1>1, <1>2, <1>3, <1>4, <1>5, <1>6, <1>7 DEF CompleteStep

LEMMA LockStep == TypeOK /\ LockInv /\ [Next]_vars => LockInv'
<1> SUFFICES ASSUME TypeOK, LockInv, [Next]_vars PROVE LockInv'
  OBVIOUS
<1> USE DEF disk, memory
<1>1. CASE UNCHANGED vars
  BY <1>1, LockFrame DEF vars
<1>2. ASSUME NEW u \in Upload, CreateMultipartUpload(u) \/ TimePasses(u) PROVE LockInv'
  <2>1. CASE TimePasses(u)
    BY <2>1, LockFrame DEF TimePasses
  <2>2. CASE CreateMultipartUpload(u)
    <3>1. \A c \in Completer : Of[c] = u => pc[c] \notin {"slot", "streaming", "draining"}
      BY <2>2 DEF LockInv, HolderCompletes, CreateMultipartUpload
    <3>2. \A o \in published : o.upload # u
      BY <2>2 DEF LockInv, PublishedSealed, CreateMultipartUpload
    <3> QED
      BY <2>2, <3>1, <3>2 DEF CreateMultipartUpload, TypeOK, PublishedObject, LockInv,
           OneHolder, HolderCompletes, PublishedSealed, PublishedOnce, InHand
  <2> QED
    BY <1>2, <2>1, <2>2
<1>3. ASSUME NEW r \in Part, PartStep(r) PROVE LockInv'
  <2>1. status' = status /\ published' = published
    BY <1>3 DEF PartStep, BeginPart, PartFails, RenamePart, RecordPart
  <2>2. \A c \in Completer : pc'[c] = pc[c]
    BY <1>3 DEF TypeOK, PartStep, BeginPart, PartFails, RenamePart, RecordPart, Goes
  <2> QED
    BY <2>1, <2>2, LockFrame
<1>4. ASSUME NEW a \in Aborter, AbortMultipartUpload(a) PROVE LockInv'
  <2>1. \A c \in Completer : pc'[c] = pc[c]
    BY <1>4 DEF TypeOK, AbortMultipartUpload, Goes
  <2> QED
    BY <1>4, <2>1, LockFrame DEF TypeOK, AbortMultipartUpload, EndUpload
<1>5. CASE WorkerStep
  <2>1. ASSUME NEW u \in Upload, ExpireOne(u) PROVE LockInv'
    BY <2>1, LockFrame DEF TypeOK, ExpireOne, EndUpload
  <2> QED
    BY <1>5, <2>1, LockFrame DEF WorkerStep, ListExpired, UnlinkQueued, ForgetQueued
<1>6. CASE Restart
  BY <1>6, LockFrame DEF Restart, Crash, TypeOK
<1>7. ASSUME NEW a \in Aborter, CrashInAbort(a) PROVE LockInv'
  BY <1>7, LockFrame DEF CrashInAbort, Crash, TypeOK
<1>8. ASSUME NEW c \in Completer, CrashInCompletion(c) PROVE LockInv'
  <2>1. \A d \in Completer : pc'[d] \in {"idle", "done"}
    BY <1>8 DEF CrashInCompletion, Crash
  <2>2. PublishedSealed'
    BY <1>8, <2>1 DEF CrashInCompletion, TypeOK, PublishedObject, LockInv, PublishedSealed
  <2> QED
    BY <1>8, <2>1, <2>2 DEF CrashInCompletion, LockInv, OneHolder, HolderCompletes,
                            PublishedOnce, InHand
<1> QED
  BY <1>1, <1>2, <1>3, <1>4, <1>5, <1>6, <1>7, <1>8, CompleteStepLock DEF Next

\* No step takes an upload out of a final status.
LEMMA FinalStep ==
  ASSUME TypeOK, LockInv, [Next]_vars
  PROVE  \A u \in Upload : status[u] \in Ended => status'[u] = status[u]
<1> USE DEF disk, memory, Ended, TypeOK, LockInv, HolderCompletes
<1>1. CASE UNCHANGED vars
  BY <1>1 DEF vars
<1>2. ASSUME NEW u \in Upload, CreateMultipartUpload(u) \/ TimePasses(u)
      PROVE  \A v \in Upload : status[v] \in Ended => status'[v] = status[v]
  BY <1>2 DEF CreateMultipartUpload, TimePasses
<1>3. ASSUME NEW r \in Part, PartStep(r) PROVE status' = status
  BY <1>3 DEF PartStep, BeginPart, PartFails, RenamePart, RecordPart
<1>4. ASSUME NEW c \in Completer, CompleteStep(c)
      PROVE  \A v \in Upload : status[v] \in Ended => status'[v] = status[v]
  <2>1. CASE MarkCompleting(c) \/ StreamFails(c) \/ MarkCompleted(c)
    BY <2>1 DEF MarkCompleting, StreamFails, MarkCompleted, IsOpen, AfterFailure, Goes
  <2> QED
    BY <1>4, <2>1 DEF CompleteStep, BeginComplete, Grant, CheckOpen, SelectParts,
         CompleteRefused, GetSlot, GiveUpSlot, ReadPart, CommitObject, CleanupTempFile, Answer
<1>5. ASSUME NEW a \in Aborter, AbortMultipartUpload(a) \/ CrashInAbort(a)
      PROVE  \A v \in Upload : status[v] \in Ended => status'[v] = status[v]
  BY <1>5 DEF AbortMultipartUpload, EndUpload, CrashInAbort
<1>6. CASE WorkerStep
  BY <1>6 DEF WorkerStep, ListExpired, ExpireOne, EndUpload, UnlinkQueued, ForgetQueued
<1>7. CASE Restart
  BY <1>7 DEF Restart
<1>8. ASSUME NEW c \in Completer, CrashInCompletion(c)
      PROVE  \A v \in Upload : status[v] \in Ended => status'[v] = status[v]
  BY <1>8 DEF CrashInCompletion
<1> QED
  BY <1>1, <1>2, <1>3, <1>4, <1>5, <1>6, <1>7, <1>8 DEF Next

\* An object is published only by CommitObject, whose upload is completing.
LEMMA CommitStep ==
  ASSUME TypeOK, LockInv, [Next]_vars
  PROVE  \A o \in published' \ published : status[o.upload] = "completing"
<1> USE DEF disk, memory
<1>1. ASSUME NEW c \in Completer, CommitObject(c)
      PROVE  \A o \in published' \ published : status[o.upload] = "completing"
  BY <1>1 DEF CommitObject, Goes, LockInv, HolderCompletes
<1>2. ASSUME NEW c \in Completer, CompleteStep(c), ~CommitObject(c) PROVE published' = published
  BY <1>2 DEF CompleteStep, BeginComplete, Grant, CheckOpen, SelectParts, MarkCompleting,
       CompleteRefused, GetSlot, GiveUpSlot, ReadPart, StreamFails, MarkCompleted,
       CleanupTempFile, Answer
<1>3. ASSUME ~\E c \in Completer : CompleteStep(c) PROVE published' = published
  BY <1>3 DEF Next, vars, CreateMultipartUpload, TimePasses, PartStep, BeginPart, PartFails,
       RenamePart, RecordPart, AbortMultipartUpload, WorkerStep, ListExpired, ExpireOne,
       UnlinkQueued, ForgetQueued, Restart, CrashInAbort, CrashInCompletion
<1> QED
  BY <1>1, <1>2, <1>3

LEMMA LockInvariant == Spec => []LockInv
  BY InitLock, LockStep, TypeCorrect, PTL DEF Spec

\* Completed, aborted and expired are final, and no object is committed after
\* an abort or an expiry has answered, under any interleaving of completions,
\* aborts, expiry and crashes.
THEOREM UploadsEndCleanly == Spec => EndsCleanly
<1>1. TypeOK /\ LockInv /\ [Next]_vars =>
        [\A u \in Upload : status[u] \in Ended => status'[u] = status[u]]_vars
  BY FinalStep
<1>2. TypeOK /\ LockInv /\ [Next]_vars =>
        [\A o \in published' \ published : status[o.upload] = "completing"]_vars
  BY CommitStep
<1> QED
  BY <1>1, <1>2, TypeCorrect, LockInvariant, PTL DEF Spec, EndsCleanly, EndsOnce, CommitsWhileCompleting

(***************************************************************************)
(* Nobody removes the files a completion will read.                        *)
(***************************************************************************)

LEMMA InitFiles == Init => FilesInv
  BY DEF Init, FilesInv, RemovedAreEnded, PartsHaveFiles, SelectsOwn, SelectedFilesKept

LEMMA OwnPaths ==
  ASSUME NEW u \in Upload
  PROVE  \A p \in PathsOf(PartsOf(u)) : p[1] = u
  BY DEF PathsOf, PartsOf, PathOf

\* A path is queued or left over only when its upload ends or has ended.
LEMMA RemovedStep ==
  ASSUME TypeOK, LockInv, FilesInv, [Next]_vars
  PROVE  RemovedAreEnded'
<1> USE DEF disk, memory
<1> DEFINE added == queue' \ queue
<1>1. \A p \in Path : status[p[1]] \in Ended => status'[p[1]] \in Ended
  BY FinalStep DEF Path
<1>2. SUFFICES /\ \A p \in added : status'[p[1]] \in Ended
               /\ \A c \in Completer : \A p \in leftover'[c] :
                     p \in leftover[c] \/ status'[p[1]] \in Ended
  BY <1>1 DEF FilesInv, RemovedAreEnded, TypeOK
<1>3. CASE queue' \subseteq queue /\ leftover' = leftover
  BY <1>3
<1>4. ASSUME NEW c \in Completer, MarkCompleted(c)
      PROVE  /\ added = {}
             /\ \A d \in Completer : \A p \in leftover'[d] :
                   p \in leftover[d] \/ status'[p[1]] \in Ended
  <2>1. status'[Of[c]] \in Ended
    BY <1>4 DEF MarkCompleted, TypeOK, Ended
  <2> QED
    BY <1>4, <2>1, OwnPaths DEF MarkCompleted, TypeOK
<1>5. ASSUME NEW c \in Completer, CleanupTempFile(c)
      PROVE  /\ \A p \in added : status'[p[1]] \in Ended
             /\ \A d \in Completer : leftover'[d] \subseteq leftover[d]
  <2>1. \A p \in leftover[c] : status[p[1]] \in Ended
    BY DEF FilesInv, RemovedAreEnded
  <2> QED
    BY <1>5, <2>1 DEF CleanupTempFile, TypeOK
<1>6. ASSUME NEW a \in Aborter, AbortMultipartUpload(a)
      PROVE  leftover' = leftover /\ \A p \in added : status'[p[1]] \in Ended
  <2>1. status'[Of[a]] \in Ended
    BY <1>6 DEF AbortMultipartUpload, EndUpload, TypeOK, Ended
  <2> QED
    BY <1>6, <2>1, OwnPaths DEF AbortMultipartUpload, EndUpload
<1>7. ASSUME NEW u \in Upload, ExpireOne(u)
      PROVE  leftover' = leftover /\ \A p \in added : status'[p[1]] \in Ended
  <2>1. status[u] = "open" => status'[u] \in Ended
    BY <1>7 DEF ExpireOne, EndUpload, TypeOK, Ended
  <2> QED
    BY <1>7, <2>1, OwnPaths DEF ExpireOne, EndUpload
<1>8. ASSUME NEW a \in Aborter, CrashInAbort(a)
      PROVE  /\ \A p \in added : status'[p[1]] \in Ended
             /\ \A d \in Completer : leftover'[d] = {}
  <2>1. status'[Of[a]] \in Ended
    BY <1>8 DEF CrashInAbort, TypeOK, Ended
  <2> QED
    BY <1>8, <2>1, OwnPaths DEF CrashInAbort, Crash
<1>9. CASE Restart \/ \E c \in Completer : CrashInCompletion(c)
  <2>1. queue' = queue /\ \A d \in Completer : leftover'[d] = {}
    BY <1>9 DEF Restart, CrashInCompletion, Crash
  <2> QED
    BY <2>1
<1>10. ASSUME NEW c \in Completer, CompleteStep(c), ~MarkCompleted(c), ~CleanupTempFile(c)
       PROVE  queue' = queue /\ leftover' = leftover
  BY <1>10 DEF CompleteStep, BeginComplete, Grant, CheckOpen, SelectParts, MarkCompleting,
       CompleteRefused, GetSlot, GiveUpSlot, ReadPart, StreamFails, CommitObject, Answer
<1>11. CASE \/ UNCHANGED vars
            \/ \E u \in Upload : CreateMultipartUpload(u) \/ TimePasses(u)
            \/ \E r \in Part : PartStep(r)
            \/ ListExpired
            \/ \E p \in queue : UnlinkQueued(p) \/ ForgetQueued(p)
  <2>1. queue' \subseteq queue /\ leftover' = leftover
    BY <1>11 DEF vars, CreateMultipartUpload, TimePasses, PartStep, BeginPart, PartFails,
         RenamePart, RecordPart, ListExpired, UnlinkQueued, ForgetQueued
  <2> QED
    BY <2>1, <1>3
<1> QED
  BY <1>4, <1>5, <1>6, <1>7, <1>8, <1>9, <1>10, <1>11, <1>3 DEF Next, WorkerStep

\* A step removes the files of ended uploads only.
LEMMA LiveFilesStay ==
  ASSUME TypeOK, LockInv, FilesInv, [Next]_vars
  PROVE  \A p \in Path : files[p] # NoFile /\ status[p[1]] \notin Ended => files'[p] # NoFile
<1> USE DEF disk, memory
<1>1. ASSUME NEW c \in Completer, CleanupTempFile(c)
      PROVE  \A p \in Path : files[p] # NoFile /\ status[p[1]] \notin Ended => files'[p] # NoFile
  BY <1>1 DEF CleanupTempFile, TypeOK, FilesInv, RemovedAreEnded
<1>2. ASSUME NEW q \in queue, UnlinkQueued(q)
      PROVE  \A p \in Path : files[p] # NoFile /\ status[p[1]] \notin Ended => files'[p] # NoFile
  BY <1>2 DEF UnlinkQueued, TypeOK, FilesInv, RemovedAreEnded
<1>3. ASSUME NEW r \in Part, RenamePart(r)
      PROVE  \A p \in Path : files[p] # NoFile => files'[p] # NoFile
  BY <1>3 DEF RenamePart, TypeOK
<1>4. ASSUME NEW c \in Completer, CompleteStep(c), ~CleanupTempFile(c) PROVE files' = files
  BY <1>4 DEF CompleteStep, BeginComplete, Grant, CheckOpen, SelectParts, MarkCompleting,
       CompleteRefused, GetSlot, GiveUpSlot, ReadPart, StreamFails, CommitObject,
       MarkCompleted, Answer
<1>5. ASSUME NEW r \in Part, PartStep(r), ~RenamePart(r) PROVE files' = files
  BY <1>5 DEF PartStep, BeginPart, PartFails, RecordPart
<1>6. CASE \/ UNCHANGED vars
           \/ \E u \in Upload : CreateMultipartUpload(u) \/ TimePasses(u) \/ ExpireOne(u)
           \/ \E a \in Aborter : AbortMultipartUpload(a) \/ CrashInAbort(a)
           \/ \E c \in Completer : CrashInCompletion(c)
           \/ \E p \in queue : ForgetQueued(p)
           \/ ListExpired \/ Restart
  BY <1>6 DEF vars, CreateMultipartUpload, TimePasses, ExpireOne, AbortMultipartUpload,
       CrashInAbort, CrashInCompletion, ForgetQueued, ListExpired, Restart
<1> QED
  BY <1>1, <1>2, <1>3, <1>4, <1>5, <1>6 DEF Next, WorkerStep

\* A row appears only when its file is in place; a file, only by RenamePart.
LEMMA PartsStep ==
  ASSUME TypeOK, LockInv, FilesInv, [Next]_vars
  PROVE  PartsHaveFiles'
<1> USE DEF disk, memory
<1>1. \A u \in Upload : status'[u] \notin Ended => status[u] \notin Ended
  BY FinalStep
<1>2. CASE /\ parts' \subseteq parts
           /\ \A r \in Part : pc'[r] = "renaming" => pc[r] = "renaming"
  <2>1. \A r \in parts' : status'[r.upload] \notin Ended => files'[PathOf(r)] # NoFile
    <3> TAKE r \in parts'
    <3>1. r \in parts /\ r.upload \in Upload /\ PathOf(r) \in Path /\ PathOf(r)[1] = r.upload
      BY <1>2 DEF TypeOK, PartRow, PathOf, Path
    <3> QED
      BY <1>1, <3>1, LiveFilesStay DEF FilesInv, PartsHaveFiles
  <2>2. \A r \in Part : pc'[r] = "renaming" /\ status'[Of[r]] \notin Ended =>
            files'[PartPath(r)] # NoFile
    <3> TAKE r \in Part
    <3>1. Of[r] \in Upload /\ PartPath(r) \in Path /\ PartPath(r)[1] = Of[r]
      BY DEF PartPath, Path
    <3> QED
      BY <1>1, <1>2, <3>1, LiveFilesStay DEF FilesInv, PartsHaveFiles
  <2> QED
    BY <2>1, <2>2 DEF PartsHaveFiles, PathOf, PartPath
<1>3. ASSUME NEW r \in Part, RenamePart(r) PROVE PartsHaveFiles'
  <2>1. /\ files' = [files EXCEPT ![PartPath(r)] = Body[r]]
        /\ PartPath(r) \in Path /\ Body[r] # NoFile
        /\ pc' = [pc EXCEPT ![r] = "renaming"] /\ parts' = parts /\ status' = status
    BY <1>3 DEF RenamePart, Goes, PartPath, Path
  <2>2. \A p \in Path : files[p] # NoFile => files'[p] # NoFile
    BY <2>1 DEF TypeOK
  <2>3. files'[PartPath(r)] # NoFile
    BY <2>1 DEF TypeOK
  <2>4. \A s \in parts : PathOf(s) \in Path
    BY DEF TypeOK, PartRow, PathOf, Path
  <2>5. \A s \in Part : PartPath(s) \in Path
    BY DEF PartPath, Path
  <2>6. \A s \in Part : s # r => pc'[s] = pc[s]
    BY <2>1 DEF TypeOK
  <2> QED
    BY <2>1, <2>2, <2>3, <2>4, <2>5, <2>6 DEF FilesInv, PartsHaveFiles, PathOf, PartPath
<1>4. ASSUME NEW r \in Part, RecordPart(r) PROVE PartsHaveFiles'
  <2> DEFINE row == [upload |-> Of[r], number |-> At[r], etag |-> Body[r]]
  <2>1. /\ pc[r] = "renaming" /\ pc' = [pc EXCEPT ![r] = "done"]
        /\ parts' \subseteq parts \cup {row} /\ status' = status /\ files' = files
    BY <1>4 DEF RecordPart, Goes
  <2>2. PathOf(row) = PartPath(r) /\ row.upload = Of[r]
    BY DEF PathOf, PartPath
  <2>3. \A s \in Part : pc'[s] = "renaming" => pc[s] = "renaming"
    BY <2>1 DEF TypeOK
  <2> QED
    BY <2>1, <2>2, <2>3 DEF FilesInv, PartsHaveFiles, PathOf, PartPath
<1>5. ASSUME NEW r \in Part, PartStep(r), ~RenamePart(r), ~RecordPart(r) PROVE PartsHaveFiles'
  BY <1>2, <1>5 DEF PartStep, BeginPart, PartFails, Goes, TypeOK
<1>6. ASSUME NEW c \in Completer, CompleteStep(c) PROVE PartsHaveFiles'
  <2>1. parts' \subseteq parts
    BY <1>6 DEF CompleteStep, BeginComplete, Grant, CheckOpen, SelectParts, MarkCompleting,
         CompleteRefused, GetSlot, GiveUpSlot, ReadPart, StreamFails, CommitObject,
         MarkCompleted, CleanupTempFile, Answer
  <2>2. \A r \in Part : pc'[r] = pc[r]
    BY <1>6 DEF CompleteStep, BeginComplete, Grant, CheckOpen, SelectParts, MarkCompleting,
         CompleteRefused, GetSlot, GiveUpSlot, ReadPart, StreamFails, CommitObject,
         MarkCompleted, CleanupTempFile, Answer, Goes, TypeOK
  <2> QED
    BY <1>2, <2>1, <2>2
<1>7. ASSUME NEW a \in Aborter, AbortMultipartUpload(a) PROVE PartsHaveFiles'
  BY <1>2, <1>7 DEF AbortMultipartUpload, EndUpload, Goes, TypeOK
<1>8. CASE Restart \/ (\E a \in Aborter : CrashInAbort(a))
             \/ (\E c \in Completer : CrashInCompletion(c))
  <2>1. parts' \subseteq parts
    BY <1>8 DEF Restart, CrashInAbort, CrashInCompletion
  <2>2. \A r \in Part : pc'[r] \in {"idle", "done"}
    BY <1>8 DEF Restart, CrashInAbort, CrashInCompletion, Crash
  <2> QED
    BY <1>2, <2>1, <2>2
<1>9. CASE UNCHANGED vars \/ WorkerStep
             \/ (\E u \in Upload : CreateMultipartUpload(u) \/ TimePasses(u))
  BY <1>2, <1>9 DEF vars, WorkerStep, ListExpired, ExpireOne, EndUpload, UnlinkQueued,
       ForgetQueued, CreateMultipartUpload, TimePasses
<1> QED
  BY <1>3, <1>4, <1>5, <1>6, <1>7, <1>8, <1>9 DEF Next

\* The selection is made once, from the upload's rows; from the check of its
\* files until they are read the upload has not ended.
LEMMA SelectedStep ==
  ASSUME TypeOK, LockInv, FilesInv, [Next]_vars
  PROVE  SelectsOwn' /\ SelectedFilesKept'
<1> USE DEF disk, memory
<1>1. ASSUME NEW c \in Completer, pc[c] \in {"slot", "streaming"}, selected'[c] = selected[c],
             NEW p \in PathsOf(selected[c])
      PROVE  files'[p] # NoFile
  <2>1. p[1] = Of[c] /\ p \in Path
    BY <1>1 DEF PathsOf, PathOf, FilesInv, SelectsOwn, TypeOK, PartRow, Path
  <2>2. status[Of[c]] \notin Ended
    BY <1>1 DEF LockInv, HolderCompletes, Ended
  <2>3. files[p] # NoFile
    BY <1>1 DEF FilesInv, SelectedFilesKept
  <2> QED
    BY <2>1, <2>2, <2>3, LiveFilesStay
<1>2. CASE /\ \A c \in Completer : selected'[c] = selected[c] \/ selected'[c] = {}
           /\ \A c \in Completer : pc'[c] \in {"slot", "streaming"} =>
                 pc[c] \in {"slot", "streaming"} /\ selected'[c] = selected[c]
  BY <1>1, <1>2 DEF FilesInv, SelectsOwn, SelectedFilesKept, PathsOf, PathOf
<1>3. ASSUME NEW c \in Completer, SelectParts(c) PROVE SelectsOwn' /\ SelectedFilesKept'
  <2>1. \A d \in Completer : d # c => selected'[d] = selected[d] /\ pc'[d] = pc[d]
    BY <1>3 DEF SelectParts, Goes, TypeOK
  <2>2. pc'[c] = "checking" /\ selected'[c] \subseteq PartsOf(Of[c])
    BY <1>3 DEF SelectParts, Goes, TypeOK
  <2>3. SelectsOwn'
    BY <2>1, <2>2 DEF FilesInv, SelectsOwn, PartsOf
  <2> QED
    BY <1>1, <2>1, <2>2, <2>3 DEF SelectedFilesKept, PathsOf, PathOf
<1>4. ASSUME NEW c \in Completer, MarkCompleting(c) PROVE SelectsOwn' /\ SelectedFilesKept'
  <2>1. selected' = selected /\ files' = files
    BY <1>4 DEF MarkCompleting
  <2>2. \A d \in Completer : d # c => pc'[d] = pc[d]
    BY <1>4 DEF MarkCompleting, Goes, TypeOK
  <2>3. \A p \in PathsOf(selected[c]) : files[p] # NoFile
    BY <1>4 DEF MarkCompleting
  <2> QED
    BY <2>1, <2>2, <2>3 DEF FilesInv, SelectsOwn, SelectedFilesKept, PathsOf, PathOf
<1>5. ASSUME NEW c \in Completer, CompleteStep(c), ~SelectParts(c), ~MarkCompleting(c)
      PROVE  SelectsOwn' /\ SelectedFilesKept'
  <2>1. selected' = selected
    BY <1>5 DEF CompleteStep, BeginComplete, Grant, CheckOpen, CompleteRefused, GetSlot,
         GiveUpSlot, ReadPart, StreamFails, CommitObject, MarkCompleted, CleanupTempFile, Answer
  <2>2. \A d \in Completer : pc'[d] \in {"slot", "streaming"} => pc[d] \in {"slot", "streaming"}
    BY <1>5 DEF CompleteStep, BeginComplete, Grant, CheckOpen, CompleteRefused, GetSlot,
         GiveUpSlot, ReadPart, StreamFails, CommitObject, MarkCompleted, CleanupTempFile,
         Answer, Goes, TypeOK
  <2> QED
    BY <1>2, <2>1, <2>2
<1>6. ASSUME NEW r \in Part, PartStep(r) PROVE SelectsOwn' /\ SelectedFilesKept'
  BY <1>2, <1>6 DEF PartStep, BeginPart, PartFails, RenamePart, RecordPart, Goes, TypeOK
<1>7. ASSUME NEW a \in Aborter, AbortMultipartUpload(a) PROVE SelectsOwn' /\ SelectedFilesKept'
  BY <1>2, <1>7 DEF AbortMultipartUpload, Goes, TypeOK
<1>8. CASE Restart \/ (\E a \in Aborter : CrashInAbort(a))
             \/ (\E c \in Completer : CrashInCompletion(c))
  <2>1. \A c \in Completer : selected'[c] = {} /\ pc'[c] \in {"idle", "done"}
    BY <1>8 DEF Restart, CrashInAbort, CrashInCompletion, Crash
  <2> QED
    BY <1>2, <2>1
<1>9. CASE UNCHANGED vars \/ WorkerStep
             \/ (\E u \in Upload : CreateMultipartUpload(u) \/ TimePasses(u))
  BY <1>2, <1>9 DEF vars, WorkerStep, ListExpired, ExpireOne, UnlinkQueued, ForgetQueued,
       CreateMultipartUpload, TimePasses
<1> QED
  BY <1>3, <1>4, <1>5, <1>6, <1>7, <1>8, <1>9 DEF Next

LEMMA FilesInvariant == Spec => []FilesInv
<1>1. TypeOK /\ LockInv /\ FilesInv /\ [Next]_vars => FilesInv'
  BY RemovedStep, PartsStep, SelectedStep DEF FilesInv
<1> QED
  BY <1>1, InitFiles, TypeCorrect, LockInvariant, PTL DEF Spec

\* An upload becomes at most one object, and its completion finds every file
\* it validated, whatever parts, aborts, expiry, cleanup and crashes do meanwhile.
THEOREM CompletionsAreSafe == Spec => [](CompletionSafe /\ RowsHaveFiles)
<1>1. LockInv /\ FilesInv => CompletionSafe /\ RowsHaveFiles
  BY DEF LockInv, FilesInv, PartsHaveFiles, RowsHaveFiles, Ended, CompletionSafe
<1> QED
  BY <1>1, LockInvariant, FilesInvariant, PTL

(***************************************************************************)
(* An object is made of the bytes its client named.                        *)
(***************************************************************************)

LEMMA InitBytes == Init => BytesInv
  BY DEF Init, BytesInv, BytesAsNamed

\* Two rows with one path that some request carried are the same row, since the
\* requests for a path carry the same bytes.
LEMMA CarriedUnique ==
  ASSUME SameBytes, NEW r \in PartRow, NEW s \in PartRow,
         Carried(r), Carried(s), PathOf(r) = PathOf(s)
  PROVE  r = s
<1>1. r.upload = s.upload /\ r.number = s.number
  BY DEF PathOf
<1>2. r.etag = s.etag
  BY DEF SameBytes, Carried
<1> QED
  BY <1>1, <1>2 DEF PartRow

LEMMA CarriedSets ==
  ASSUME SameBytes, NEW R \in SUBSET PartRow, NEW S \in SUBSET PartRow,
         \A r \in R \cup S : Carried(r), PathsOf(R) = PathsOf(S)
  PROVE  R = S
<1>1. \A r \in R : \E s \in S : PathOf(r) = PathOf(s)
  BY DEF PathsOf
<1>2. \A s \in S : \E r \in R : PathOf(s) = PathOf(r)
  BY DEF PathsOf
<1> QED
  BY <1>1, <1>2, CarriedUnique

LEMMA BytesFrame ==
  ASSUME TypeOK, BytesInv,
         parts' \subseteq parts,
         \A c \in Completer : selected'[c] \subseteq selected[c] /\ read'[c] \subseteq read[c],
         \A p \in Path : files'[p] \in {files[p], NoFile},
         published' = published
  PROVE  BytesInv'
  BY DEF BytesInv, BytesAsNamed, Carried, PathOf, PartPath

LEMMA CompleteStepBytes ==
  ASSUME SameBytes, TypeOK, BytesInv, NEW c \in Completer, CompleteStep(c)
  PROVE  BytesInv'
<1> USE DEF disk, memory
<1>1. CASE SelectParts(c)
  <2>1. \A d \in Completer : selected'[d] \subseteq selected[d] \cup parts
    BY <1>1 DEF SelectParts, TypeOK, PartsOf
  <2>2. UNCHANGED <<parts, read, files, published>>
    BY <1>1 DEF SelectParts
  <2> QED
    BY <2>1, <2>2 DEF BytesInv, BytesAsNamed, Carried, PathOf, PartPath
<1>2. CASE ReadPart(c)
  <2>1. PICK r \in selected[c] :
           /\ files[PathOf(r)] # NoFile
           /\ read' = [read EXCEPT ![c] = @ \cup {[r EXCEPT !.etag = files[PathOf(r)]]}]
    BY <1>2 DEF ReadPart
  <2> DEFINE row == [r EXCEPT !.etag = files[PathOf(r)]]
  <2>2. r \in PartRow /\ PathOf(r) \in Path
    BY DEF TypeOK, PathOf, Path, PartRow
  <2>3. PathOf(row) = PathOf(r) /\ row.etag = files[PathOf(r)]
    BY <2>2 DEF PartRow, PathOf
  <2>4. Carried(row)
    BY <2>1, <2>2, <2>3 DEF BytesInv, Carried
  <2>5. \A d \in Completer : read'[d] \subseteq read[d] \cup {row}
    BY <2>1 DEF TypeOK
  <2>6. UNCHANGED <<parts, selected, files, published>>
    BY <1>2 DEF ReadPart
  <2> HIDE DEF row
  <2> QED
    BY <2>4, <2>5, <2>6 DEF BytesInv, BytesAsNamed, Carried, PathOf, PartPath
<1>3. CASE CommitObject(c)
  <2>1. read[c] = selected[c]
    BY <1>3, CarriedSets DEF CommitObject, WholeRead, TypeOK, BytesInv
  <2>2. BytesAsNamed'
    BY <1>3, <2>1 DEF CommitObject, BytesInv, BytesAsNamed
  <2>3. UNCHANGED <<parts, selected, read, files>>
    BY <1>3 DEF CommitObject
  <2> QED
    BY <2>2, <2>3 DEF BytesInv, Carried, PathOf, PartPath
<1>4. CASE MarkCompleted(c)
  BY <1>4, BytesFrame DEF MarkCompleted
<1>5. CASE CleanupTempFile(c)
  BY <1>5, BytesFrame DEF CleanupTempFile, TypeOK
<1>6. CASE \/ BeginComplete(c) \/ Grant(c) \/ CheckOpen(c) \/ MarkCompleting(c)
           \/ CompleteRefused(c) \/ GetSlot(c) \/ GiveUpSlot(c) \/ StreamFails(c) \/ Answer(c)
  BY <1>6, BytesFrame DEF BeginComplete, Grant, CheckOpen, MarkCompleting, CompleteRefused,
     GetSlot, GiveUpSlot, StreamFails, Answer
<1> QED
  BY <1>1, <1>2, <1>3, <1>4, <1>5, <1>6 DEF CompleteStep

LEMMA PartStepBytes ==
  ASSUME TypeOK, BytesInv, NEW r \in Part, PartStep(r)
  PROVE  BytesInv'
<1> USE DEF disk, memory
<1>1. CASE RenamePart(r)
  <2>1. /\ files' = [files EXCEPT ![PartPath(r)] = Body[r]]
        /\ UNCHANGED <<parts, selected, read, published>>
    BY <1>1 DEF RenamePart
  <2>2. \A p \in Path : files'[p] = IF p = PartPath(r) THEN Body[r] ELSE files[p]
    BY <2>1 DEF TypeOK
  <2> QED
    BY <2>1, <2>2 DEF BytesInv, BytesAsNamed, Carried, PathOf, PartPath
<1>2. CASE RecordPart(r)
  <2> DEFINE row == [upload |-> Of[r], number |-> At[r], etag |-> Body[r]]
  <2>1. parts' \subseteq parts \cup {row} /\ UNCHANGED <<selected, read, files, published>>
    BY <1>2 DEF RecordPart
  <2>2. Carried(row)
    BY DEF Carried, PathOf, PartPath
  <2> HIDE DEF row
  <2> QED
    BY <2>1, <2>2 DEF BytesInv, BytesAsNamed, Carried, PathOf, PartPath
<1>3. CASE BeginPart(r) \/ PartFails(r)
  BY <1>3, BytesFrame DEF BeginPart, PartFails
<1> QED
  BY <1>1, <1>2, <1>3 DEF PartStep

LEMMA BytesStep == SameBytes /\ TypeOK /\ BytesInv /\ [Next]_vars => BytesInv'
<1> SUFFICES ASSUME SameBytes, TypeOK, BytesInv, [Next]_vars PROVE BytesInv'
  OBVIOUS
<1> USE DEF disk, memory
<1>1. CASE UNCHANGED vars
  BY <1>1, BytesFrame DEF vars
<1>2. ASSUME NEW u \in Upload, CreateMultipartUpload(u) \/ TimePasses(u) PROVE BytesInv'
  BY <1>2, BytesFrame DEF CreateMultipartUpload, TimePasses
<1>3. ASSUME NEW a \in Aborter, AbortMultipartUpload(a) PROVE BytesInv'
  BY <1>3, BytesFrame DEF AbortMultipartUpload, EndUpload
<1>4. CASE WorkerStep
  <2>1. parts' \subseteq parts /\ UNCHANGED <<selected, read, published>>
    BY <1>4 DEF WorkerStep, ListExpired, ExpireOne, EndUpload, UnlinkQueued, ForgetQueued
  <2>2. \A p \in Path : files'[p] \in {files[p], NoFile}
    BY <1>4 DEF WorkerStep, ListExpired, ExpireOne, UnlinkQueued, ForgetQueued, TypeOK
  <2> QED
    BY <2>1, <2>2, BytesFrame
<1>5. CASE Restart \/ (\E a \in Aborter : CrashInAbort(a))
             \/ (\E c \in Completer : CrashInCompletion(c))
  <2>1. parts' \subseteq parts /\ UNCHANGED <<files, published>>
    BY <1>5 DEF Restart, CrashInAbort, CrashInCompletion
  <2>2. \A c \in Completer : selected'[c] = {} /\ read'[c] = {}
    BY <1>5 DEF Restart, CrashInAbort, CrashInCompletion, Crash
  <2> QED
    BY <2>1, <2>2, BytesFrame
<1> QED
  BY <1>1, <1>2, <1>3, <1>4, <1>5, PartStepBytes, CompleteStepBytes DEF Next

\* When the requests for one part number carry the same bytes, an object holds
\* exactly the parts its client named.
THEOREM NamedBytesKept == SameBytes => (Spec => []BytesAsNamed)
<1>1. BytesInv => BytesAsNamed
  BY DEF BytesInv
<1>2. SameBytes /\ TypeOK /\ BytesInv /\ [Next]_vars => BytesInv'
  BY BytesStep
<1> SUFFICES ASSUME SameBytes PROVE Spec => []BytesAsNamed
  OBVIOUS
<1>3. TypeOK /\ BytesInv /\ [Next]_vars => BytesInv'
  BY <1>2
<1> QED
  BY <1>1, <1>3, InitBytes, TypeCorrect, PTL DEF Spec


=============================================================================
