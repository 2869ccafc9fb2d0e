------------------------------- MODULE Backups -------------------------------
(***************************************************************************)
(* Backups of one bucket: the runs that copy its objects to a destination, *)
(* the ledger that makes runs incremental, the one worker that gives runs  *)
(* batches in turn, and the schedules that queue runs.                     *)
(*                                                                         *)
(* The scheduler's pass and the worker's bookkeeping between two awaits    *)
(* run uninterrupted; the awaits are the preparation of a destination and  *)
(* the copy of one object.  There is one bucket, so a destination stands   *)
(* for the pair that a run or a schedule belongs to, and has at most one   *)
(* schedule.  An object keeps its row id when it is overwritten.           *)
(***************************************************************************)
EXTENDS Naturals, FiniteSets

CONSTANTS
    Object,       \* object row ids, numbered in the order of their creation
    Content,      \* what an object may contain; stands for its ETag
    Initial,      \* what each object contains at the start
    Dest,         \* backup accounts
    BatchSize,    \* objects a run gets at a time (driveImportBatchSize)
    MaxAttempts,  \* MAX_BACKUP_ITEM_ATTEMPTS
    MaxFailures,  \* maxConsecutiveFailures
    MaxRuns,      \* bound: runs ever queued
    Schedules,    \* the schedules a destination may have at the start
    MaxEvents,    \* bound: writes, changes of schedules and accounts
    MaxRestarts   \* bound: ends of the process

Run == 1..MaxRuns
Unborn == "unborn"
Deleted == "deleted"
NoRun == 0

ASSUME BackupsAssumption ==
    /\ Object \subseteq Nat /\ IsFiniteSet(Object)
    /\ {Unborn, Deleted} \cap Content = {}
    /\ Initial \in [Object -> Content \cup {Unborn}]
    /\ Dest # {}
    /\ BatchSize \in Nat \ {0} /\ MaxAttempts \in Nat \ {0} /\ MaxFailures \in Nat \ {0}
    /\ MaxRuns \in Nat /\ MaxEvents \in Nat /\ MaxRestarts \in Nat

VARIABLES
    (* SQLite. *)
    kind,      \* backup_accounts.kind: "drive", or "store" for s3 and rclone
    etag,      \* objects.etag of each active row
    account,   \* backup_accounts.status: "active", or "error" for error and
               \* reauthorization_required alike; "none" once it is unlinked
    ledger,    \* backup_object_status
    runs,      \* backup_transfers
    turns,     \* updated_at of active runs: <<r, q>> when r's is the earlier
    schedule,  \* backup_schedules
    (* The destinations. *)
    delivered, \* contents a destination has received for an object
    (* Memory of the worker: lost when the process ends. *)
    job,       \* the batch in hand
    (* Bounds and history. *)
    events, restarts,
    disturbed  \* runs during or after which an object was written or deleted

tables == <<kind, etag, account, ledger, runs, turns, schedule>>
bounds == <<events, restarts, disturbed>>
vars == <<tables, delivered, job, bounds>>

Active == {"queued", "running", "cancel_requested"}
Terminal == {"completed", "cancelled", "failed"}
\* last_outcome, as far as anything reads it: "queued", "holding" (waiting_quiet
\* or skipped_active), and "settled" for none and the seven others.
Outcome == {"settled", "queued", "holding"}
Frequency == {"timed", "on_change"}

LedgerRow == [status : {"none", "copied", "failed"}, etag : Content \cup {Unborn},
              attempts : Nat, by : Run \cup {NoRun}]
\* Of the counters only total - skipped - copied - failed is read, and only
\* whether it is above 0; of an ended run nothing but its status and its pair.
RunRow == [status : Active \cup Terminal \cup {"none", "pruned"}, dest : Dest, manual : BOOLEAN,
           scheduled : BOOLEAN, prepared : BOOLEAN, remaining : Nat]
ScheduleRow == [exists : BOOLEAN, enabled : BOOLEAN, frequency : Frequency, failures : Nat,
                outcome : Outcome, pending : BOOLEAN, unseen : BOOLEAN]
Job == [step : {"idle", "preparing", "copying", "landed"}, run : Run \cup {NoRun},
        todo : SUBSET (Object \X Content), reached : BOOLEAN, healthy : BOOLEAN]

Closed(d, status) == [status |-> status, dest |-> d, manual |-> FALSE, scheduled |-> FALSE,
                      prepared |-> FALSE, remaining |-> 0]
NoEntry == [status |-> "none", etag |-> Unborn, attempts |-> 0, by |-> NoRun]
\* A schedule as it is created, and none.
Fresh(frequency, enabled) ==
    [exists |-> TRUE, enabled |-> enabled, frequency |-> frequency, failures |-> 0,
     outcome |-> "settled", pending |-> FALSE, unseen |-> TRUE]
NoSchedule == [Fresh("timed", FALSE) EXCEPT !.exists = FALSE]
NoJob == [step |-> "idle", run |-> NoRun, todo |-> {}, reached |-> FALSE, healthy |-> TRUE]

ASSUME SchedulesAssumption ==
    Schedules \subseteq {NoSchedule} \cup {Fresh(f, on) : f \in Frequency, on \in BOOLEAN}

TypeOK ==
    /\ kind \in [Dest -> {"drive", "store"}]
    /\ etag \in [Object -> Content \cup {Unborn, Deleted}]
    /\ account \in [Dest -> {"active", "error", "none"}]
    /\ ledger \in [Dest -> [Object -> LedgerRow]]
    /\ runs \in [Run -> RunRow]
    /\ turns \subseteq Run \X Run
    /\ schedule \in [Dest -> ScheduleRow]
    /\ delivered \in [Dest -> [Object -> SUBSET Content]]
    /\ job \in Job
    /\ events \in Nat /\ restarts \in Nat /\ disturbed \subseteq Run

Init ==
    /\ kind \in [Dest -> {"drive", "store"}]
    /\ etag = Initial
    /\ account = [d \in Dest |-> "active"]
    /\ ledger = [d \in Dest |-> [o \in Object |-> NoEntry]]
    /\ runs = [r \in Run |-> Closed(CHOOSE d \in Dest : TRUE, "none")]
    /\ turns = {}
    /\ schedule \in [Dest -> Schedules]
    /\ delivered = [d \in Dest |-> [o \in Object |-> {}]]
    /\ job = NoJob
    /\ events = 0 /\ restarts = 0 /\ disturbed = {}

-----------------------------------------------------------------------------
(***************************************************************************)
(* Queries.                                                                *)
(***************************************************************************)

ActiveObjects == {o \in Object : etag[o] \in Content}
CopiedAtCurrent(d) ==
    {o \in ActiveObjects : ledger[d][o].status = "copied" /\ ledger[d][o].etag = etag[o]}
Exhausted(d) == {o \in ActiveObjects : ledger[d][o].status = "failed" /\
                     ledger[d][o].etag = etag[o] /\ ledger[d][o].attempts >= MaxAttempts}
TriedBy(d, r) == {o \in Object : ledger[d][o].status = "failed" /\ ledger[d][o].by = r}

\* listObjectsNeedingWork without its limit; hasObjectsNeedingWork asks for no run.
NeedingWork(d) == ActiveObjects \ (CopiedAtCurrent(d) \cup Exhausted(d))
ObjectsNeedingWork(d, r) == NeedingWork(d) \ TriedBy(d, r)

\* Oldest rows first, each with the ETag it has when it is listed.
Batch(d, r) ==
    LET wanted == ObjectsNeedingWork(d, r)
    IN  {<<o, etag[o]>> : o \in {p \in wanted : Cardinality({q \in wanted : q < p}) < BatchSize}}

ActiveRuns == {r \in Run : runs[r].status \in Active}
\* idx_backup_transfers_one_active.
HasActiveRun(d) == \E r \in ActiveRuns : runs[r].dest = d

\* claimNextJob: cancellations, then runs a person started, then those that
\* have not begun, and among equals the one that has waited longest.
Rank(r) == (IF runs[r].status = "cancel_requested" THEN 0 ELSE 4)
             + (IF runs[r].manual THEN 0 ELSE 2)
             + (IF runs[r].status = "queued" THEN 0 ELSE 1)
NextJob == {r \in ActiveRuns : \A q \in ActiveRuns : \/ Rank(r) < Rank(q)
                                                     \/ Rank(r) = Rank(q) /\ <<q, r>> \notin turns}

\* An active run that is updated goes to the back of the line.
WithoutTurn(r) == {p \in turns : p[1] # r /\ p[2] # r}
Touched(r) == WithoutTurn(r) \cup (ActiveRuns \ {r}) \X {r}

\* The oldest row of the batch in hand.
Current == {p \in job.todo : \A q \in job.todo : p[1] <= q[1]}
Row == runs[job.run]

-----------------------------------------------------------------------------
(***************************************************************************)
(* What a schedule records (BackupScheduleService).                        *)
(***************************************************************************)

Paused(s) == [s EXCEPT !.enabled = FALSE, !.outcome = "settled"]

\* countFailure: at the limit an enabled schedule pauses itself.
CountFailure(s) ==
    LET counted == [s EXCEPT !.outcome = "settled", !.failures = @ + 1]
    IN  IF counted.failures >= MaxFailures /\ s.enabled THEN Paused(counted) ELSE counted

RecordRunResult(s, status) ==
    CASE status = "completed" -> [s EXCEPT !.outcome = "settled", !.failures = 0]
      [] status = "cancelled" -> [s EXCEPT !.outcome = "settled"]
      [] status = "failed"    -> CountFailure(s)

\* A run ends and its schedule is told, unless the process ends in between.
ReportToSchedule(r, status) ==
    IF runs[r].scheduled
    THEN schedule' = [schedule EXCEPT ![runs[r].dest] = RecordRunResult(@, status)]
    ELSE UNCHANGED schedule

EndProcess == restarts < MaxRestarts /\ restarts' = restarts + 1

EndRun(r, row, status) ==
    /\ runs' = [runs EXCEPT ![r] = Closed(row.dest, status)]
    /\ turns' = WithoutTurn(r)
    /\ job' = NoJob
    /\ \/ ReportToSchedule(r, status) /\ UNCHANGED restarts
       \/ EndProcess /\ UNCHANGED schedule

-----------------------------------------------------------------------------
(***************************************************************************)
(* The bucket's objects change at any time.  Deleting a row takes its      *)
(* ledger lines with it.                                                   *)
(***************************************************************************)

CountEvent == events < MaxEvents /\ events' = events + 1

RecordWrite ==
    /\ CountEvent
    /\ disturbed' = disturbed \cup {r \in Run : runs[r].status # "none"}
    /\ schedule' = [d \in Dest |-> [schedule[d] EXCEPT !.unseen = TRUE]]
    /\ UNCHANGED <<kind, account, runs, turns, delivered, job, restarts>>

WriteObject(o, c) ==
    /\ RecordWrite
    /\ etag[o] \notin {Deleted, c}
    /\ \A p \in Object : p < o => etag[p] # Unborn
    /\ etag' = [etag EXCEPT ![o] = c]
    /\ UNCHANGED ledger

DeleteObject(o) ==
    /\ RecordWrite
    /\ etag[o] \in Content
    /\ etag' = [etag EXCEPT ![o] = Deleted]
    /\ ledger' = [d \in Dest |-> [ledger[d] EXCEPT ![o] = NoEntry]]

-----------------------------------------------------------------------------
(***************************************************************************)
(* Queueing and cancelling runs.                                           *)
(***************************************************************************)

NewRun(d, manual, scheduled) ==
    [status |-> "queued", dest |-> d, manual |-> manual, scheduled |-> scheduled,
     prepared |-> FALSE,
     remaining |-> Cardinality(ActiveObjects) - Cardinality(CopiedAtCurrent(d))]

\* BackupTransferService.create: the account is there, and a Drive account is active.
Usable(d) == account[d] # "none" /\ (kind[d] = "drive" => account[d] = "active")

QueueRun(d, manual, scheduled) ==
    \E r \in Run :
        /\ runs[r].status = "none"
        /\ \A q \in Run : q < r => runs[q].status # "none"
        /\ runs' = [runs EXCEPT ![r] = NewRun(d, manual, scheduled)]
        /\ turns' = Touched(r)

CreateManual(d) ==
    /\ Usable(d) /\ ~HasActiveRun(d)
    /\ QueueRun(d, TRUE, FALSE)
    /\ UNCHANGED <<kind, etag, account, ledger, schedule, delivered, job, bounds>>

\* runNow: reports to the schedule and leaves its countdown alone.
RunNow(d) ==
    /\ schedule[d].exists
    /\ Usable(d) /\ ~HasActiveRun(d)
    /\ QueueRun(d, TRUE, TRUE)
    /\ schedule' = [schedule EXCEPT ![d].outcome = "queued"]
    /\ UNCHANGED <<kind, etag, account, ledger, delivered, job, bounds>>

MutCancellable == Active \cup Terminal
Cancellable == {"queued", "running"}
RequestCancel(r) ==
    /\ runs[r].status \in Cancellable
    /\ runs' = [runs EXCEPT ![r].status = "cancel_requested"]
    /\ turns' = Touched(r)
    /\ UNCHANGED <<kind, etag, account, ledger, schedule, delivered, job, bounds>>

-----------------------------------------------------------------------------
(***************************************************************************)
(* BackupTransferWorker: one run in hand at a time.                        *)
(***************************************************************************)

\* completeIdle looks at the status alone.
Idle(row) == row.status = "running"

\* The batch, as of now.
List(r, row, line) ==
    LET todo == Batch(row.dest, r)
    IN  IF todo = {} /\ Idle(row) THEN EndRun(r, row, "completed")
        ELSE /\ runs' = [runs EXCEPT ![r] = row]
             /\ turns' = line
             /\ job' = IF todo = {} THEN NoJob
                       ELSE [step |-> "copying", run |-> r, todo |-> todo, reached |-> FALSE,
                             healthy |-> kind[row.dest] = "drive" \/ account[row.dest] = "active"]
             /\ UNCHANGED <<schedule, restarts>>

\* Begin(r): what process does before its first await.
Begin(r) ==
    LET row == [runs[r] EXCEPT !.status = "running"]
        line == IF runs[r].status = "queued" THEN Touched(r) ELSE turns
    IN  CASE runs[r].status = "cancel_requested" -> EndRun(r, runs[r], "cancelled")
          [] runs[r].status # "cancel_requested" /\ row.prepared -> List(r, row, line)
          [] OTHER -> /\ runs' = [runs EXCEPT ![r] = row]
                      /\ turns' = line
                      /\ job' = [NoJob EXCEPT !.step = "preparing", !.run = r]
                      /\ UNCHANGED <<schedule, restarts>>

Claim ==
    /\ job = NoJob
    /\ \E r \in NextJob : Begin(r)
    /\ UNCHANGED <<kind, etag, account, ledger, delivered, events, disturbed>>

\* The source bucket is not there, or not its owner's any more.
ClaimFails ==
    /\ job = NoJob
    /\ \E r \in NextJob : runs[r].status # "cancel_requested" /\ EndRun(r, runs[r], "failed")
    /\ UNCHANGED <<kind, etag, account, ledger, delivered, events, disturbed>>

InHand(step) == job.step = step /\ Row.status \in Active

\* The run in hand went with its account: nothing is left to mark or report.
Orphaned ==
    /\ job # NoJob /\ Row.status \notin Active
    /\ job' = NoJob
    /\ UNCHANGED <<tables, delivered, bounds>>

\* A Drive account records how the refresh of its token went, on the way.
TokenRecorded(answer) ==
    account' \in {account} \cup
        IF kind[Row.dest] = "drive" THEN {[account EXCEPT ![Row.dest] = answer]} ELSE {}

Prepare ==
    /\ InHand("preparing")
    /\ List(job.run, [Row EXCEPT !.prepared = TRUE], Touched(job.run))
    /\ TokenRecorded("active")
    /\ UNCHANGED <<kind, etag, ledger, delivered, events, disturbed>>

\* failJob, after DestinationUnavailableError has marked the account.
DestinationUnavailable ==
    /\ InHand("preparing") \/ InHand("copying")
    /\ account' = [account EXCEPT ![Row.dest] = "error"]
    /\ EndRun(job.run, Row, "failed")
    /\ UNCHANGED <<kind, etag, ledger, delivered, events, disturbed>>

\* Any other failure to prepare.
PrepareFails ==
    /\ InHand("preparing")
    /\ TokenRecorded("error")
    /\ EndRun(job.run, Row, "failed")
    /\ UNCHANGED <<kind, etag, ledger, delivered, events, disturbed>>

\* The destination holds the bytes of the row that was listed; they can still
\* be read although the row has changed or gone since.
Land ==
    /\ InHand("copying")
    /\ job' = [job EXCEPT !.step = "landed"]
    /\ \E p \in Current : delivered' = [delivered EXCEPT ![Row.dest][p[1]] = @ \cup {p[2]}]
    /\ TokenRecorded("active")
    /\ UNCHANGED <<kind, etag, ledger, runs, turns, schedule, bounds>>

\* The counters of a run stop at their end, whatever else is marked.
Less(n) == IF n = 0 THEN 0 ELSE n - 1

Entry(old, status, e) == [status |-> status, etag |-> e, attempts |-> old.attempts + 1, by |-> job.run]

\* refreshAndMaybeFinish.
AfterBatch(row) ==
    IF row.status = "cancel_requested" THEN EndRun(job.run, row, "cancelled")
    ELSE IF row.remaining = 0 THEN EndRun(job.run, row, "completed")
    ELSE /\ runs' = [runs EXCEPT ![job.run] = row]
         /\ turns' = Touched(job.run)
         /\ job' = NoJob
         /\ UNCHANGED <<schedule, restarts>>

\* An account that took a copy of the batch is active again; Drive's follow
\* their tokens instead.
AccountAfter(status, ends, reached) ==
    \/ kind[Row.dest] = "drive" /\ status = "failed" /\ TokenRecorded("error")
    \/ kind[Row.dest] = "drive" /\ status = "copied" /\ UNCHANGED account
    \/ kind[Row.dest] # "drive" /\ account' =
          IF ends /\ reached /\ ~job.healthy THEN [account EXCEPT ![Row.dest] = "active"] ELSE account

MutCopiedEtag(p) == IF etag[p[1]] \in Content THEN etag[p[1]] ELSE p[2]
CopiedEtag(p) == p[2]

\* markObjectCopied or markObjectFailed, and on to the next object.  The line
\* of a row that has been deleted cannot be written: the error ends the run.
Mark(p, status) ==
    LET o == p[1]
        row == [Row EXCEPT !.remaining = Less(@)]
        reached == job.reached \/ status = "copied"
        rest == job.todo \ {p}
    IN  IF etag[o] = Deleted
        THEN EndRun(job.run, Row, "failed") /\ UNCHANGED <<ledger, account>>
        ELSE /\ ledger' = [ledger EXCEPT ![Row.dest][o] = Entry(@, status, CopiedEtag(p))]
             /\ AccountAfter(status, rest = {}, reached)
             /\ IF rest = {} THEN AfterBatch(row)
                ELSE /\ runs' = [runs EXCEPT ![job.run] = row]
                     /\ turns' = Touched(job.run)
                     /\ job' = [job EXCEPT !.step = "copying", !.todo = rest, !.reached = reached]
                     /\ UNCHANGED <<schedule, restarts>>

MarkCopied ==
    /\ InHand("landed")
    /\ \E p \in Current : Mark(p, "copied")
    /\ UNCHANGED <<kind, etag, delivered, events, disturbed>>

MarkFailed ==
    /\ InHand("copying")
    /\ \E p \in Current : Mark(p, "failed")
    /\ UNCHANGED <<kind, etag, delivered, events, disturbed>>

Restart ==
    /\ job # NoJob
    /\ EndProcess
    /\ job' = NoJob
    /\ UNCHANGED <<tables, delivered, events, disturbed>>

-----------------------------------------------------------------------------
(***************************************************************************)
(* Schedules, and the accounts they back up to.                            *)
(***************************************************************************)

CreateSchedule(d, frequency, enabled) ==
    /\ CountEvent
    /\ account[d] # "none" /\ ~schedule[d].exists
    /\ schedule' = [schedule EXCEPT ![d] = Fresh(frequency, enabled)]
    /\ UNCHANGED <<kind, etag, account, ledger, runs, turns, delivered, job, restarts, disturbed>>

\* The columns of the UPDATE, which read the row as it was.
MutUpdatedRow(s, frequency, enabled) == [s EXCEPT !.frequency = frequency, !.enabled = enabled,
    !.pending = @ /\ frequency = s.frequency]
UpdatedRow(s, frequency, enabled) ==
    LET switchedOn == enabled /\ ~s.enabled
    IN  [s EXCEPT !.frequency = frequency, !.enabled = enabled,
            !.failures = IF switchedOn THEN 0 ELSE @,
            !.pending = @ /\ frequency = s.frequency /\ ~switchedOn]

UpdateSchedule(d, frequency, enabled) ==
    /\ CountEvent
    /\ schedule[d].exists
    /\ schedule' = [schedule EXCEPT ![d] = UpdatedRow(@, frequency, enabled)]
    /\ UNCHANGED <<kind, etag, account, ledger, runs, turns, delivered, job, restarts, disturbed>>

\* ON DELETE SET NULL: the runs it queued no longer report to it.
DeleteSchedule(d) ==
    /\ CountEvent
    /\ schedule[d].exists
    /\ schedule' = [schedule EXCEPT ![d] = NoSchedule]
    /\ runs' = [r \in Run |-> IF runs[r].dest = d THEN [runs[r] EXCEPT !.scheduled = FALSE]
                                                  ELSE runs[r]]
    /\ UNCHANGED <<kind, etag, account, ledger, turns, delivered, job, restarts, disturbed>>

\* A person checks a destination, which records the answer.
TestDestination(d) ==
    /\ CountEvent
    /\ account[d] # "none"
    /\ \E answer \in {"active", "error"} : account' = [account EXCEPT ![d] = answer]
    /\ UNCHANGED <<kind, etag, ledger, runs, turns, schedule, delivered, job, restarts, disturbed>>

\* Unlinking an account takes its runs, its ledger and its schedule with it.
UnlinkAccount(d) ==
    /\ CountEvent
    /\ account[d] # "none"
    /\ account' = [account EXCEPT ![d] = "none"]
    /\ runs' = [r \in Run |-> IF runs[r].status # "none" /\ runs[r].dest = d
                              THEN Closed(d, "pruned") ELSE runs[r]]
    /\ turns' = {p \in turns : runs[p[1]].dest # d /\ runs[p[2]].dest # d}
    /\ ledger' = [ledger EXCEPT ![d] = [o \in Object |-> NoEntry]]
    /\ schedule' = [schedule EXCEPT ![d] = NoSchedule]
    /\ UNCHANGED <<kind, etag, delivered, job, restarts, disturbed>>

-----------------------------------------------------------------------------
(***************************************************************************)
(* BackupSchedulerWorker: a due schedule is claimed and fired.             *)
(***************************************************************************)

Becomes(d, s) == schedule' = [schedule EXCEPT ![d] = s] /\ UNCHANGED <<runs, turns>>

\* driveNeedsReconnecting, the active run found by the index, or a queued run.
\* What a run takes over is no longer pending.
StartRun(d, s) ==
    IF ~Usable(d) THEN Becomes(d, CountFailure(s))
    ELSE IF HasActiveRun(d) THEN Becomes(d, [s EXCEPT !.outcome = "holding"])
    ELSE /\ QueueRun(d, FALSE, TRUE)
         /\ schedule' = [schedule EXCEPT ![d] = [s EXCEPT !.outcome = "queued", !.pending = FALSE]]

FireTimed(d, s) ==
    \/ NeedingWork(d) = {} /\ Becomes(d, [s EXCEPT !.outcome = "settled"])
    \/ NeedingWork(d) # {} /\ StartRun(d, s)

\* A look that finds nothing left to copy ends the wait.
MutNothingLeft(s) == [s EXCEPT !.outcome = IF @ = "holding" THEN "settled" ELSE @]
NothingLeft(s) == [s EXCEPT !.pending = FALSE, !.outcome = IF @ = "holding" THEN "settled" ELSE @]

\* Nothing pending yet: the objects are read only when something was written
\* since the last look, or once every minIntervalMinutes (periodic).  Then the
\* changes must have settled, or have waited max_wait_minutes (settled).
FireOnChange(d, s, periodic, settled) ==
    LET held == [s EXCEPT !.pending = TRUE, !.outcome = "holding"]
        looks == ActiveObjects # {} /\ (schedule[d].unseen \/ periodic)
        ready == settled \/ ActiveObjects = {}
    IN  CASE ~s.pending /\ ~(looks /\ NeedingWork(d) # {}) -> Becomes(d, s)
          [] ~s.pending /\ looks /\ NeedingWork(d) # {} /\ ~ready -> Becomes(d, held)
          [] ~s.pending /\ looks /\ NeedingWork(d) # {} /\ ready ->
                StartRun(d, [s EXCEPT !.pending = TRUE])
          [] s.pending /\ ~ready -> Becomes(d, held)
          [] s.pending /\ ready /\ NeedingWork(d) = {} -> Becomes(d, NothingLeft(s))
          [] s.pending /\ ready /\ NeedingWork(d) # {} -> StartRun(d, s)

\* next_run_at has come: claimSlot moves it on and notes the look, and the row
\* as it was fires.
Fire(d, periodic, settled) ==
    /\ schedule[d].enabled
    /\ LET s == [schedule[d] EXCEPT !.unseen = FALSE]
       IN  \/ s.frequency = "timed" /\ FireTimed(d, s)
           \/ s.frequency = "on_change" /\ FireOnChange(d, s, periodic, settled)
    /\ UNCHANGED <<kind, etag, account, ledger, delivered, job, bounds>>

\* The bucket is not available to its owner any more.
FireUnavailable(d) ==
    /\ schedule[d].enabled
    /\ schedule' = [schedule EXCEPT ![d] = Paused([@ EXCEPT !.unseen = FALSE])]
    /\ UNCHANGED <<kind, etag, account, ledger, runs, turns, delivered, job, bounds>>

\* pruneHistory: an old run goes unless it is its destination's latest.
PruneHistory(r) ==
    /\ runs[r].status \in Terminal
    /\ \E q \in Run : q > r /\ runs[q].dest = runs[r].dest /\ runs[q].status \in Active \cup Terminal
    /\ runs' = [runs EXCEPT ![r].status = "pruned"]
    /\ ledger' = [d \in Dest |-> [o \in Object |->
           IF ledger[d][o].by = r THEN [ledger[d][o] EXCEPT !.by = NoRun] ELSE ledger[d][o]]]
    /\ UNCHANGED <<kind, etag, account, turns, schedule, delivered, job, bounds>>

-----------------------------------------------------------------------------
WorkerStep ==
    \/ Claim \/ ClaimFails \/ Orphaned \/ Prepare \/ PrepareFails
    \/ DestinationUnavailable \/ Land \/ MarkCopied \/ MarkFailed

ScheduleStep(d) ==
    \/ \E f \in Frequency, on \in BOOLEAN : CreateSchedule(d, f, on) \/ UpdateSchedule(d, f, on)
    \/ DeleteSchedule(d) \/ RunNow(d) \/ CreateManual(d)
    \/ TestDestination(d) \/ UnlinkAccount(d)
    \/ FireUnavailable(d) \/ \E periodic, settled \in BOOLEAN : Fire(d, periodic, settled)

Next ==
    \/ \E o \in Object : DeleteObject(o) \/ \E c \in Content : WriteObject(o, c)
    \/ \E d \in Dest : ScheduleStep(d)
    \/ \E r \in Run : RequestCancel(r) \/ PruneHistory(r)
    \/ WorkerStep
    \/ Restart

Spec == Init /\ [][Next]_vars
-----------------------------------------------------------------------------
(***************************************************************************)
(* What must hold.                                                         *)
(***************************************************************************)

\* What the ledger vouches for has reached the destination: an object is
\* skipped as copied only when the destination has been given that content,
\* whatever was written while it was copied (copyOne, markObjectCopied).
LedgerTruthful ==
    \A d \in Dest, o \in Object :
        ledger[d][o].status = "copied" => ledger[d][o].etag \in delivered[d][o]

\* A run fails an object at most once, also when the object is written again
\* or the process restarts in between (listObjectsNeedingWork).
FailsOnce ==
    [][\A d \in Dest, o \in Object : LET old == ledger[d][o] new == ledger'[d][o] IN
          old.status = "failed" /\ new.attempts > old.attempts => old.by = NoRun \/ new.by # old.by]_vars

\* A completed run that nobody wrote under has dealt with every object: each
\* has reached the destination as it is, or is recorded as failed.  It spans batches, restarts,
\* earlier runs' failures and the two ways a run completes.
CompletedIsDone ==
    \A r \in Run : runs[r].status = "completed" /\ r \notin disturbed /\ account[runs[r].dest] # "none" =>
        \A o \in ActiveObjects :
            etag[o] \in delivered[runs[r].dest][o] \/ ledger[runs[r].dest][o].status = "failed"

\* A run that has ended stays as it ended until its row is pruned: neither a
\* late cancel nor the worker's last statements bring it back.
EndedStaysEnded ==
    [][\A r \in Run : runs[r].status \in Terminal => runs'[r].status \in {runs[r].status, "pruned"}]_vars

\* A schedule that says its run is queued has one that is still at work, or
\* the process ended before the run's end was reported (reportToSchedule).
QueuedIsActive ==
    \A d \in Dest : schedule[d].outcome = "queued" => HasActiveRun(d) \/ restarts > 0

\* An enabled schedule is below the failure limit: failures that were reported
\* while it was off do not pause it at its first stumble.
EnabledBelowLimit == \A d \in Dest : schedule[d].enabled => schedule[d].failures < MaxFailures

\* A schedule that is not counting a wait holds no pending changes: timed
\* ones never do, and a wait does not survive being switched on again.
PendingIsOnChange == \A d \in Dest : schedule[d].pending => schedule[d].frequency = "on_change"

-----------------------------------------------------------------------------
(***************************************************************************)
(* Progress.                                                               *)
(***************************************************************************)

\* The worker and the scheduler run on timers and an await settles; a bucket
\* that changes is quiet at times, or its changes have waited long enough.
Fairness ==
    /\ WF_vars(Claim \/ Orphaned \/ Prepare \/ PrepareFails \/ DestinationUnavailable
                 \/ Land \/ MarkCopied \/ MarkFailed)
    /\ \A d \in Dest : WF_vars(Fire(d, TRUE, TRUE))

FairSpec == Spec /\ Fairness

\* Every run ends, or goes with its account: objects that vanish, fail or
\* keep changing, cancels and restarts leave none running for ever, and the next
\* one for its destination waits for it.
RunsEnd == \A d \in Dest : HasActiveRun(d) ~> ~HasActiveRun(d)

\* A change an on-change schedule holds back is not held for ever.
PendingIsTaken ==
    \A d \in Dest : schedule[d].pending ~>
        \/ ~schedule[d].pending \/ ~schedule[d].enabled \/ HasActiveRun(d)
        \/ \A r \in Run : runs[r].status # "none"  \* the bound is used up

\* What is recorded of an object is so: in the ledger's lines, and in a
\* run's end, which says of all of them that they are dealt with.
TransfersTruthful == LedgerTruthful /\ CompletedIsDone

\* What a schedule says of itself fits together: an enabled one is below its
\* limit of failures, a change is held back only by one that watches, and
\* 'queued' is said while its run is at work.
SchedulesCoherent == EnabledBelowLimit /\ PendingIsOnChange /\ QueuedIsActive

\* A run tries an object once, and once it has ended nothing changes that.
RunsAreFinal == EndedStaysEnded /\ FailsOnce

\* Runs come to their ends, and a change that was held back is taken up.
TransfersEnd == RunsEnd /\ PendingIsTaken

=============================================================================
