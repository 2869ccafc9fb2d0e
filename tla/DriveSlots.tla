----------------------------- MODULE DriveSlots -----------------------------
(***************************************************************************)
(* The limits on what one Google account is used for at a time: counting   *)
(* semaphores of uploads, downloads and metadata requests, and the lock of *)
(* an object key, taken inside one another by whoever works on objects.    *)
(***************************************************************************)
EXTENDS Naturals, Sequences, FiniteSets, SequencesExt

CONSTANTS
    Task,     \* the workers, each of which works on one object
    Capacity  \* slots of every kind

Kind == {"key", "request", "upload", "download"}
ASSUME DriveSlotsAssumption ==
    Capacity \in [Kind -> Nat \ {0}] /\ Capacity["key"] = 1

VARIABLES
    sem,   \* of every kind: slots in use, and who waits, in order
    task   \* of every worker: what it does, how far it is, whether it waits, the slots it has

slotVars == <<sem, task>>

\* Serving an object, storing one, copying one or completing a multipart
\* upload, importing an item from Drive, backing one object up.
Role == {"read", "put", "copy", "import", "backup"}

-----------------------------------------------------------------------------
(***************************************************************************)
(* What each worker takes and gives, in order.  A slot is given back once: *)
(* giving it again does nothing.                                           *)
(***************************************************************************)

Take(k) == [take |-> TRUE, kind |-> k]
Give(k) == [take |-> FALSE, kind |-> k]
Request == <<Take("request"), Give("request")>>

\* verifyAccess asks Drive before a download slot is taken.
ReadPlan == Request \o <<Take("download"), Give("download")>>

\* upload: the file it replaces is deleted while the slots are held.
PutPlan == <<Take("key")>> \o Request \o <<Take("upload")>> \o Request \o <<Give("upload"), Give("key")>>

CopyPlan == Request \o <<Take("upload")>> \o Request \o <<Give("upload")>>

\* The imported file is read while it is stored; consuming it to the end
\* gives the slot back and so does the cancel that follows.
MutImportPlan == Request \o <<Take("download"), Take("upload"), Take("key")>> \o Request
                 \o <<Give("download"), Give("upload"), Give("key")>>
ImportPlan == Request \o <<Take("download"), Take("key")>> \o Request
              \o <<Take("upload"), Give("download"), Give("upload"), Give("key"), Give("download")>>

\* A Drive destination is another account's and takes none of these slots.
BackupPlan == <<Take("download"), Give("download"), Give("download")>>

Plan(t) == CASE task[t].role = "read"   -> ReadPlan
             [] task[t].role = "put"    -> PutPlan
             [] task[t].role = "copy"   -> CopyPlan
             [] task[t].role = "import" -> ImportPlan
             [] task[t].role = "backup" -> BackupPlan

Next1(t) == Plan(t)[task[t].at]

-----------------------------------------------------------------------------
SlotTypeOK ==
    /\ sem \in [Kind -> [active : Nat, queue : Seq(Task)]]
    /\ \A k \in Kind : sem[k].active \in 0..Capacity[k]
    /\ task \in [Task -> [role : Role, at : Nat, waits : BOOLEAN, has : SUBSET Kind, over : BOOLEAN]]

SlotInit ==
    /\ sem = [k \in Kind |-> [active |-> 0, queue |-> <<>>]]
    /\ task \in [Task -> {[role |-> r, at |-> 1, waits |-> FALSE, has |-> {}, over |-> FALSE] : r \in Role}]

Runs(t) == ~task[t].over /\ ~task[t].waits

Free(k) == sem[k].active < Capacity[k]

\* acquire
Acquire(t) ==
    LET k == Next1(t).kind
    IN  /\ Runs(t) /\ Next1(t).take
        /\ IF Free(k)
           THEN /\ sem' = [sem EXCEPT ![k].active = @ + 1]
                /\ task' = [task EXCEPT ![t].has = @ \cup {k}, ![t].at = @ + 1]
           ELSE /\ sem' = [sem EXCEPT ![k].queue = Append(@, t)]
                /\ task' = [task EXCEPT ![t].waits = TRUE]

\* releaseOne: the first in the queue gets the slot, or it is free.
Returned(s) == IF s.queue = <<>> THEN [s EXCEPT !.active = @ - 1] ELSE [s EXCEPT !.queue = Tail(@)]

\* buildSlot: a slot remembers that it was released.
Held(t, ks) == ks \cap task[t].has

\* t gives the slots of ks back and is left as "now" says.
Gives(t, ks, now) ==
    LET back == Held(t, ks)
    IN  /\ sem' = [k \in Kind |-> IF k \in back THEN Returned(sem[k]) ELSE sem[k]]
        /\ task' = [u \in Task |->
                      IF u = t THEN now
                      ELSE LET got == {k \in back : sem[k].queue # <<>> /\ sem[k].queue[1] = u}
                           IN  IF got = {} THEN task[u]
                               ELSE [task[u] EXCEPT !.waits = FALSE, !.has = @ \cup got, !.at = @ + 1]]

Release(t) ==
    LET k == Next1(t).kind
    IN  /\ Runs(t) /\ ~Next1(t).take
        /\ Gives(t, {k}, [task[t] EXCEPT !.at = @ + 1, !.has = @ \ {k}, !.over = (task[t].at = Len(Plan(t)))])

Over(t) == [task[t] EXCEPT !.over = TRUE, !.waits = FALSE, !.has = {}]

\* Drive, the client or the database fails the work: the finally blocks run.
Fail(t) ==
    /\ Runs(t) /\ task[t].has # {}
    /\ Gives(t, Kind, Over(t))

\* The signal aborts a wait: the waiter leaves the queue, and whoever called
\* acquire gives back what it has.
MutWithout(queue, t) == queue
Without(queue, t) == RemoveAt(queue, CHOOSE i \in 1..Len(queue) : queue[i] = t)

Abort(t) ==
    LET k == Next1(t).kind
        back == task[t].has
        got(u) == {j \in back : sem[j].queue # <<>> /\ sem[j].queue[1] = u}
    IN  /\ task[t].waits
        /\ sem' = [j \in Kind |-> IF j = k THEN [sem[j] EXCEPT !.queue = Without(@, t)]
                                  ELSE IF j \in back THEN Returned(sem[j]) ELSE sem[j]]
        /\ task' = [u \in Task |->
                      IF u = t THEN Over(t)
                      ELSE IF got(u) = {} THEN task[u]
                      ELSE [task[u] EXCEPT !.waits = FALSE, !.has = @ \cup got(u), !.at = @ + 1]]

\* decryptorFor throws after the stream that would give the slot back was
\* made: nobody reads or cancels that stream.
DecryptFails(t) ==
    /\ task[t].role = "read" /\ Runs(t) /\ "download" \in task[t].has
    /\ task' = [task EXCEPT ![t].over = TRUE]
    /\ UNCHANGED sem

SlotStep(t) == Acquire(t) \/ Release(t)
SlotNext == \E t \in Task : SlotStep(t) \/ Fail(t) \/ Abort(t) \/ DecryptFails(t)

\* Every call of Drive answers, and every body ends.
SlotFairness == \A t \in Task : WF_slotVars(SlotStep(t))

SlotSpec == SlotInit /\ [][SlotNext]_slotVars
FairSlotSpec == SlotSpec /\ SlotFairness

-----------------------------------------------------------------------------
(***************************************************************************)
(* Properties.                                                             *)
(***************************************************************************)

Holders(k) == {t \in Task : k \in task[t].has}

\* The count of slots in use is the number of workers that have one, whatever
\* was aborted or given back twice; nobody waits while a slot is free, and
\* who waits is in one queue, once, and has not ended.
SlotsAccounted ==
    \A k \in Kind :
       /\ sem[k].active = Cardinality(Holders(k))
       /\ sem[k].queue # <<>> => sem[k].active = Capacity[k]
       /\ IsInjective(sem[k].queue)
       /\ \A t \in Task : t \in ToSet(sem[k].queue) <=> (task[t].waits /\ Next1(t).kind = k)

Lost == \E t \in Task : task[t].over /\ task[t].has # {}

\* However the workers' slots nest, and with one slot of each kind, they do
\* not wait for each other for ever: each of them ends, unless a slot is lost.
EveryTaskEnds == \A t \in Task : <>(task[t].over \/ Lost)

\* Whoever has ended has given its slots back (semaphore.ts: "Slots must
\* always be released").
SlotsReturned == ~Lost

=============================================================================
