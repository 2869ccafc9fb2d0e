--------------------------- MODULE Backups_proofs ---------------------------
(***************************************************************************)
(* What holds of Backups for any objects, destinations, schedules and      *)
(* bounds, and any number of runs.                                         *)
(***************************************************************************)
EXTENDS Backups, FiniteSetTheorems, WellFoundedInduction, TLAPS

\* What a schedule's row never contradicts.
Coherent == {s \in ScheduleRow : /\ s.enabled => s.failures < MaxFailures
                                 /\ s.pending => s.frequency = "on_change"}
SchedulesInv == schedule \in [Dest -> Coherent]

\* The batch in hand belongs to a run, names an object once, and once a copy
\* has landed the destination has what is about to be recorded of it.
JobInv ==
    /\ job.step # "idle" => job.run \in Run /\ runs[job.run].status # "none"
    /\ \A p, q \in job.todo : p[1] = q[1] => p = q
    /\ job.step = "landed" => \A p \in Current : p[2] \in delivered[Row.dest][p[1]]

BackupsInv == TypeOK /\ SchedulesInv /\ JobInv /\ LedgerTruthful

\* A step keeps the runs there are for their destinations, and ended ones ended.
RunsKept == \A r \in Run : runs[r].status # "none" => runs'[r].status # "none" /\ runs'[r].dest = runs[r].dest
EndedKept == \A r \in Run : runs[r].status \in Terminal => runs'[r].status \in {runs[r].status, "pruned"}
RunsStep == runs' \in [Run -> RunRow] /\ RunsKept /\ EndedKept

-----------------------------------------------------------------------------
(***************************************************************************)
(* What a run has done.  A destination has one active run, whose counter   *)
(* covers the objects it has still to try, as long as none is written; the *)
(* batch in hand is of such objects, each as it is now; and a schedule     *)
(* that says 'queued' has an active run that reports to it.                *)
(***************************************************************************)

OneActive ==
    \A r, q \in Run :
        runs[r].status \in Active /\ runs[q].status \in Active /\ runs[r].dest = runs[q].dest => r = q

\* The run a schedule waits for still reports to it.
QueuedInv ==
    \A d \in Dest : schedule[d].outcome = "queued" =>
        restarts > 0 \/ \E r \in Run : runs[r].status \in Active /\ runs[r].dest = d /\ runs[r].scheduled

\* The batch is of nothing its run has tried and, until an object is written,
\* of what still needs work, as it is.  What is marked then must not contradict
\* an earlier run that completed: Untouched asks for any run of the destination.
AtWork == job.step # "idle" /\ Row.status \in Active
Untouched(d) == \E r \in Run : runs[r].status # "none" /\ runs[r].dest = d /\ r \notin disturbed
BatchInv ==
    AtWork =>
        /\ \A p \in job.todo : p[1] \notin TriedBy(Row.dest, job.run)
        /\ Untouched(Row.dest) => \A p \in job.todo : etag[p[1]] = p[2]
        /\ job.run \notin disturbed => \A p \in job.todo : p[1] \in NeedingWork(Row.dest)

Counted(r) == Cardinality(ObjectsNeedingWork(runs[r].dest, r)) <= runs[r].remaining
CountInv == \A r \in Run : runs[r].status \in Active /\ r \notin disturbed => Counted(r)

\* CompletedIsDone, of unlinked accounts as well.
Settled(d, o) == etag[o] \in delivered[d][o] \/ ledger[d][o].status = "failed"
DoneInv ==
    \A r \in Run : runs[r].status = "completed" /\ r \notin disturbed =>
        \A o \in ActiveObjects : Settled(runs[r].dest, o)

WorkInv == OneActive /\ QueuedInv /\ BatchInv /\ CountInv /\ DoneInv
TransfersInv == BackupsInv /\ WorkInv

-----------------------------------------------------------------------------
USE BackupsAssumption, SchedulesAssumption

(***************************************************************************)
(* The rows.                                                               *)
(***************************************************************************)

LEMMA CoherentRows ==
    /\ NoSchedule \in Coherent
    /\ \A f \in Frequency, on \in BOOLEAN : Fresh(f, on) \in Coherent
    /\ Schedules \subseteq Coherent
  <1>1. NoSchedule \in Coherent
    BY DEF NoSchedule, Fresh, Coherent, ScheduleRow, Frequency, Outcome
  <1>2. \A f \in Frequency, on \in BOOLEAN : Fresh(f, on) \in Coherent
    <2> SUFFICES ASSUME NEW f \in Frequency, NEW on \in BOOLEAN PROVE Fresh(f, on) \in Coherent
      OBVIOUS
    <2>2. Fresh(f, on) \in ScheduleRow
      BY DEF Fresh, ScheduleRow, Outcome
    <2>3. QED
      BY <2>2 DEF Coherent, Fresh
  <1>3. QED
    BY <1>1, <1>2

LEMMA CoherentEdits ==
    ASSUME NEW s \in Coherent
    PROVE  /\ \A o \in Outcome : [s EXCEPT !.outcome = o] \in Coherent
           /\ [s EXCEPT !.unseen = FALSE] \in Coherent /\ [s EXCEPT !.unseen = TRUE] \in Coherent
           /\ Paused(s) \in Coherent
           /\ CountFailure(s) \in Coherent
           /\ NothingLeft(s) \in Coherent
           /\ [s EXCEPT !.outcome = "queued", !.pending = FALSE] \in Coherent
           /\ s.frequency = "on_change" => [s EXCEPT !.pending = TRUE] \in Coherent
           /\ s.frequency = "on_change" => [s EXCEPT !.pending = TRUE, !.outcome = "holding"] \in Coherent
           /\ \A status \in Terminal : RecordRunResult(s, status) \in Coherent
           /\ \A f \in Frequency, on \in BOOLEAN : UpdatedRow(s, f, on) \in Coherent
  <1>1. /\ \A o \in Outcome : [s EXCEPT !.outcome = o] \in Coherent
        /\ [s EXCEPT !.unseen = FALSE] \in Coherent /\ [s EXCEPT !.unseen = TRUE] \in Coherent
    BY DEF Coherent, ScheduleRow
  <1>2. Paused(s) \in Coherent
    BY DEF Coherent, ScheduleRow, Paused, Outcome
  <1>3. CountFailure(s) \in Coherent
    <2> DEFINE counted == [s EXCEPT !.outcome = "settled", !.failures = @ + 1]
    <2>0. s \in ScheduleRow /\ s.failures + 1 \in Nat
      BY DEF Coherent, ScheduleRow
    <2>1. counted \in ScheduleRow /\ counted.failures \in Nat /\ counted.enabled = s.enabled
          /\ counted.pending = s.pending /\ counted.frequency = s.frequency
      BY <2>0 DEF ScheduleRow, Outcome
    <2> HIDE DEF counted
    <2>2. counted.pending => counted.frequency = "on_change"
      BY <2>1 DEF Coherent
    <2>3. Paused(counted) \in Coherent
      BY <2>1, <2>2 DEF Coherent, ScheduleRow, Paused, Outcome
    <2>4. CASE counted.failures >= MaxFailures /\ s.enabled
      BY <2>3, <2>4 DEF CountFailure, counted
    <2>5. CASE ~(counted.failures >= MaxFailures /\ s.enabled)
      <3>1. counted \in Coherent
        BY <2>1, <2>2, <2>5 DEF Coherent
      <3>2. CountFailure(s) = counted
        BY <2>5 DEF CountFailure, counted
      <3>3. QED
        BY <3>1, <3>2
    <2>6. QED
      BY <2>4, <2>5
  <1>4. NothingLeft(s) \in Coherent
    BY DEF Coherent, ScheduleRow, NothingLeft, Outcome
  <1>5. [s EXCEPT !.outcome = "queued", !.pending = FALSE] \in Coherent
    BY DEF Coherent, ScheduleRow, Outcome
  <1>6. s.frequency = "on_change" => [s EXCEPT !.pending = TRUE] \in Coherent
    BY DEF Coherent, ScheduleRow
  <1>7. s.frequency = "on_change" => [s EXCEPT !.pending = TRUE, !.outcome = "holding"] \in Coherent
    BY DEF Coherent, ScheduleRow, Outcome
  <1>8. \A status \in Terminal : RecordRunResult(s, status) \in Coherent
    <2>1. [s EXCEPT !.outcome = "settled", !.failures = 0] \in Coherent
      <3> DEFINE new == [s EXCEPT !.outcome = "settled", !.failures = 0]
      <3>1. /\ new \in ScheduleRow /\ new.failures = 0
            /\ new.pending = s.pending /\ new.frequency = s.frequency
        BY DEF Coherent, ScheduleRow, Outcome
      <3>2. 0 < MaxFailures
        OBVIOUS
      <3> HIDE DEF new
      <3>3. new \in Coherent
        BY <3>1, <3>2 DEF Coherent
      <3>4. QED
        BY <3>3 DEF new
    <2>2. QED
      BY <1>1, <1>3, <2>1 DEF RecordRunResult, Terminal, Outcome
  <1>9. \A f \in Frequency, on \in BOOLEAN : UpdatedRow(s, f, on) \in Coherent
    <2> SUFFICES ASSUME NEW f \in Frequency, NEW on \in BOOLEAN PROVE UpdatedRow(s, f, on) \in Coherent
      OBVIOUS
    <2> DEFINE new == UpdatedRow(s, f, on)
    <2>1. s \in ScheduleRow
      BY DEF Coherent
    <2>2. /\ new \in ScheduleRow /\ new.enabled = on /\ new.frequency = f
          /\ new.failures = IF on /\ ~s.enabled THEN 0 ELSE s.failures
          /\ new.pending => s.pending /\ f = s.frequency
      BY <2>1 DEF ScheduleRow, UpdatedRow
    <2>3. 0 < MaxFailures
      OBVIOUS
    <2> HIDE DEF new
    <2>4. new.enabled => new.failures < MaxFailures
      BY <2>2, <2>3 DEF Coherent
    <2>5. new \in Coherent
      BY <2>2, <2>4 DEF Coherent
    <2>6. QED
      BY <2>5 DEF new
  <1>10. QED
    BY <1>1, <1>2, <1>3, <1>4, <1>5, <1>6, <1>7, <1>8, <1>9

LEMMA RunRows ==
    /\ \A d \in Dest, status \in Active \cup Terminal \cup {"none", "pruned"} :
          Closed(d, status) \in RunRow /\ Closed(d, status).status = status /\ Closed(d, status).dest = d
    /\ \A row \in RunRow : /\ row.dest \in Dest /\ row.remaining \in Nat
                           /\ row.status \in Active \cup Terminal \cup {"none", "pruned"}
    /\ \A row \in RunRow, status \in Active \cup {"pruned"} :
          LET new == [row EXCEPT !.status = status]
          IN  new \in RunRow /\ new.status = status /\ new.dest = row.dest
    /\ \A row \in RunRow :
          LET new == [row EXCEPT !.prepared = TRUE]
          IN  new \in RunRow /\ new.status = row.status /\ new.dest = row.dest
    /\ \A row \in RunRow :
          LET new == [row EXCEPT !.scheduled = FALSE]
          IN  new \in RunRow /\ new.status = row.status /\ new.dest = row.dest
    /\ \A row \in RunRow :
          LET new == [row EXCEPT !.remaining = Less(@)]
          IN  new \in RunRow /\ new.status = row.status /\ new.dest = row.dest
  <1>1. \A d \in Dest, status \in Active \cup Terminal \cup {"none", "pruned"} :
          Closed(d, status) \in RunRow /\ Closed(d, status).status = status /\ Closed(d, status).dest = d
    BY DEF RunRow, Closed
  <1>2. \A row \in RunRow, status \in Active \cup {"pruned"} :
          LET new == [row EXCEPT !.status = status]
          IN  new \in RunRow /\ new.status = status /\ new.dest = row.dest
    BY DEF RunRow
  <1>3. \A row \in RunRow :
          LET new == [row EXCEPT !.remaining = Less(@)]
          IN  new \in RunRow /\ new.status = row.status /\ new.dest = row.dest
    BY DEF RunRow, Less
  <1>4. QED
    BY <1>1, <1>2, <1>3 DEF RunRow

\* A new run has no more left to copy than there are objects.
LEMMA NewRuns ==
    ASSUME NEW d \in Dest, NEW manual \in BOOLEAN, NEW scheduled \in BOOLEAN
    PROVE  /\ NewRun(d, manual, scheduled) \in RunRow
           /\ NewRun(d, manual, scheduled).status = "queued" /\ NewRun(d, manual, scheduled).dest = d
  <1>1. IsFiniteSet(ActiveObjects) /\ CopiedAtCurrent(d) \subseteq ActiveObjects
    BY FS_Subset DEF ActiveObjects, CopiedAtCurrent
  <1>2. /\ Cardinality(ActiveObjects) \in Nat /\ Cardinality(CopiedAtCurrent(d)) \in Nat
        /\ Cardinality(CopiedAtCurrent(d)) <= Cardinality(ActiveObjects)
    BY <1>1, FS_Subset, FS_CardinalityType
  <1>3. Cardinality(ActiveObjects) - Cardinality(CopiedAtCurrent(d)) \in Nat
    BY <1>2
  <1>4. QED
    BY <1>3 DEF NewRun, RunRow, Active

-----------------------------------------------------------------------------
(***************************************************************************)
(* The parts that steps are made of.                                       *)
(***************************************************************************)

LEMMA TurnsType ==
    ASSUME TypeOK, NEW r \in Run
    PROVE  WithoutTurn(r) \subseteq Run \X Run /\ Touched(r) \subseteq Run \X Run
  BY DEF TypeOK, WithoutTurn, Touched, ActiveRuns

\* A row that is written in the place of one that has not ended.
LEMMA RowWritten ==
    ASSUME TypeOK, NEW r \in Run, NEW row \in RunRow, runs' = [runs EXCEPT ![r] = row],
           runs[r].status # "none" => row.status # "none" /\ row.dest = runs[r].dest,
           runs[r].status \in Terminal => row.status = "pruned"
    PROVE  RunsStep /\ runs'[r] = row
  BY DEF TypeOK, RunsStep, RunsKept, EndedKept

LEMMA RunsStay == ASSUME TypeOK, runs' = runs PROVE RunsStep
  BY DEF TypeOK, RunsStep, RunsKept, EndedKept

LEMMA EndRunStep ==
    ASSUME TypeOK, SchedulesInv, NEW r \in Run, runs[r].status \in Active,
           NEW row, row.dest = runs[r].dest, NEW status \in Terminal, EndRun(r, row, status)
    PROVE  /\ RunsStep /\ turns' \subseteq Run \X Run /\ job' = NoJob
           /\ schedule' \in [Dest -> Coherent] /\ restarts' \in Nat
  <1>1. runs[r] \in RunRow /\ runs[r].dest \in Dest
    BY RunRows DEF TypeOK
  <1>2. RunsStep
    <2>1. /\ Closed(row.dest, status) \in RunRow /\ Closed(row.dest, status).status = status
          /\ Closed(row.dest, status).dest = row.dest
      BY <1>1, RunRows
    <2>2. runs' = [runs EXCEPT ![r] = Closed(row.dest, status)]
      BY DEF EndRun
    <2>3. QED
      BY <2>1, <2>2, RowWritten DEF Active, Terminal
  <1>3. schedule' \in [Dest -> Coherent]
    <2>1. RecordRunResult(schedule[runs[r].dest], status) \in Coherent
      BY <1>1, CoherentEdits DEF SchedulesInv
    <2>2. QED
      BY <2>1 DEF EndRun, ReportToSchedule, SchedulesInv
  <1>4. turns' \subseteq Run \X Run /\ job' = NoJob /\ restarts' \in Nat
    BY TurnsType DEF EndRun, EndProcess, TypeOK
  <1>5. QED
    BY <1>2, <1>3, <1>4

LEMMA BatchNamesOnce ==
    ASSUME TypeOK, NEW d \in Dest, NEW r \in Run
    PROVE  /\ Batch(d, r) \subseteq Object \X Content
           /\ \A p, q \in Batch(d, r) : p[1] = q[1] => p = q
  <1>1. \A p \in Batch(d, r) : \E o \in ActiveObjects : p = <<o, etag[o]>>
    BY DEF Batch, ObjectsNeedingWork, NeedingWork
  <1>2. \A o \in ActiveObjects : o \in Object /\ etag[o] \in Content
    BY DEF ActiveObjects
  <1>3. QED
    BY <1>1, <1>2

\* A batch that begins: nothing of it has landed.
Begun(j) == /\ j \in Job /\ j.step # "landed"
            /\ j.step # "idle" => j.run \in Run /\ runs'[j.run].status # "none"
            /\ \A p, q \in j.todo : p[1] = q[1] => p = q

LEMMA NoJobBegun == Begun(NoJob)
  BY DEF Begun, NoJob, Job

LEMMA ListStep ==
    ASSUME TypeOK, SchedulesInv, NEW r \in Run, runs[r].status \in Active,
           NEW row \in RunRow, row.status \in Active, row.dest = runs[r].dest,
           NEW line \in SUBSET (Run \X Run), List(r, row, line)
    PROVE  /\ RunsStep /\ turns' \subseteq Run \X Run /\ Begun(job')
           /\ schedule' \in [Dest -> Coherent] /\ restarts' \in Nat
  <1> DEFINE todo == Batch(row.dest, r)
  <1>1. todo \subseteq Object \X Content /\ \A p, q \in todo : p[1] = q[1] => p = q
    BY RunRows, BatchNamesOnce
  <1> HIDE DEF todo
  <1>2. CASE todo = {} /\ Idle(row)
    <2>1. EndRun(r, row, "completed")
      BY <1>2 DEF List, todo
    <2>2. QED
      BY <2>1, EndRunStep, NoJobBegun DEF Terminal
  <1>3. CASE ~(todo = {} /\ Idle(row))
    <2>1. /\ runs' = [runs EXCEPT ![r] = row] /\ turns' = line /\ schedule' = schedule /\ restarts' = restarts
          /\ job' = IF todo = {} THEN NoJob
                    ELSE [step |-> "copying", run |-> r, todo |-> todo, reached |-> FALSE,
                          healthy |-> kind[row.dest] = "drive" \/ account[row.dest] = "active"]
      BY <1>3 DEF List, todo
    <2>2. RunsStep /\ runs'[r] = row
      BY <2>1, RowWritten DEF Active, Terminal
    <2>3. CASE todo = {}
      BY <2>1, <2>2, <2>3, NoJobBegun DEF TypeOK, SchedulesInv
    <2>4. CASE todo # {}
      <3>1. (kind[row.dest] = "drive" \/ account[row.dest] = "active") \in BOOLEAN
        OBVIOUS
      <3>2. PICK healthy \in BOOLEAN :
              job' = [step |-> "copying", run |-> r, todo |-> todo, reached |-> FALSE, healthy |-> healthy]
        BY <2>1, <2>4, <3>1
      <3>3. Begun(job')
        BY <1>1, <2>2, <3>2 DEF Begun, Job, Active
      <3>4. QED
        BY <2>1, <2>2, <3>3 DEF TypeOK, SchedulesInv
    <2>5. QED
      BY <2>3, <2>4
  <1>4. QED
    BY <1>2, <1>3

LEMMA BeginStep ==
    ASSUME TypeOK, SchedulesInv, NEW r \in Run, runs[r].status \in Active, Begin(r)
    PROVE  /\ RunsStep /\ turns' \subseteq Run \X Run /\ Begun(job')
           /\ schedule' \in [Dest -> Coherent] /\ restarts' \in Nat
  <1> DEFINE row == [runs[r] EXCEPT !.status = "running"]
             line == IF runs[r].status = "queued" THEN Touched(r) ELSE turns
  <1>1. row \in RunRow /\ row.status = "running" /\ row.dest = runs[r].dest
    <2>1. runs[r] \in RunRow
      BY DEF TypeOK
    <2>2. "running" \in Active
      BY DEF Active
    <2>3. QED
      BY <2>1, <2>2, RunRows
  <1>2. line \in SUBSET (Run \X Run)
    BY TurnsType DEF TypeOK
  <1> HIDE DEF row, line
  <1>3. CASE runs[r].status = "cancel_requested"
    <2>1. EndRun(r, runs[r], "cancelled")
      BY <1>3 DEF Begin
    <2>2. QED
      BY <2>1, EndRunStep, NoJobBegun DEF Terminal
  <1>4. CASE runs[r].status # "cancel_requested" /\ row.prepared
    <2>1. List(r, row, line)
      BY <1>4 DEF Begin, row, line
    <2>2. QED
      BY <1>1, <1>2, <2>1, ListStep DEF Active
  <1>5. CASE runs[r].status # "cancel_requested" /\ ~row.prepared
    <2>1. /\ runs' = [runs EXCEPT ![r] = row] /\ turns' = line /\ schedule' = schedule /\ restarts' = restarts
          /\ job' = [NoJob EXCEPT !.step = "preparing", !.run = r]
      BY <1>5 DEF Begin, row, line
    <2>2. RunsStep /\ runs'[r] = row
      BY <1>1, <2>1, RowWritten DEF Active, Terminal
    <2>3. Begun(job')
      BY <1>1, <2>1, <2>2 DEF Begun, Job, NoJob
    <2>4. QED
      BY <1>2, <2>1, <2>2, <2>3 DEF TypeOK, SchedulesInv
  <1>6. QED
    BY <1>3, <1>4, <1>5

\* Steps by which nothing lands and nothing is recorded as copied.
LEMMA NothingCopied ==
    ASSUME BackupsInv, kind' = kind, etag' \in [Object -> Content \cup {Unborn, Deleted}],
           account' \in [Dest -> {"active", "error", "none"}],
           ledger' \in [Dest -> [Object -> LedgerRow]],
           \A d \in Dest, o \in Object : ledger'[d][o].status = "copied" =>
               ledger[d][o].status = "copied" /\ ledger'[d][o].etag = ledger[d][o].etag,
           RunsStep, turns' \subseteq Run \X Run, schedule' \in [Dest -> Coherent],
           delivered' = delivered, job' = job \/ Begun(job'),
           events' \in Nat, restarts' \in Nat, disturbed' \subseteq Run
    PROVE  BackupsInv' /\ EndedKept
  <1>1. TypeOK'
    <2>1. job' \in Job
      BY DEF BackupsInv, TypeOK, Begun
    <2>2. schedule' \in [Dest -> ScheduleRow]
      BY DEF Coherent
    <2>3. QED
      BY <2>1, <2>2 DEF BackupsInv, TypeOK, RunsStep
  <1>2. JobInv'
    <2>1. CASE job' = job
      BY <2>1 DEF BackupsInv, JobInv, RunsStep, RunsKept, Row, Current
    <2>2. CASE Begun(job')
      BY <2>2 DEF Begun, JobInv
    <2>3. QED
      BY <2>1, <2>2
  <1>3. LedgerTruthful'
    BY DEF BackupsInv, LedgerTruthful
  <1>4. QED
    BY <1>1, <1>2, <1>3 DEF BackupsInv, SchedulesInv, RunsStep

-----------------------------------------------------------------------------
(***************************************************************************)
(* The steps of the worker.                                                *)
(***************************************************************************)

LEMMA InitInv == Init => BackupsInv
  <1> SUFFICES ASSUME Init PROVE BackupsInv
    OBVIOUS
  <1>1. runs \in [Run -> RunRow]
    <2>1. (CHOOSE d \in Dest : TRUE) \in Dest
      OBVIOUS
    <2>2. Closed(CHOOSE d \in Dest : TRUE, "none") \in RunRow
      BY <2>1, RunRows
    <2>3. QED
      BY <2>2 DEF Init
  <1>2. schedule \in [Dest -> Coherent]
    BY CoherentRows DEF Init
  <1>3. NoEntry \in LedgerRow /\ NoEntry.status = "none" /\ NoJob \in Job
    BY DEF NoEntry, LedgerRow, NoJob, Job
  <1>4. TypeOK
    <2>1. schedule \in [Dest -> ScheduleRow]
      BY <1>2 DEF Coherent
    <2>2. QED
      BY <1>1, <1>3, <2>1 DEF Init, TypeOK
  <1>5. JobInv
    BY DEF Init, JobInv, NoJob
  <1>6. LedgerTruthful
    BY <1>3 DEF Init, LedgerTruthful
  <1>7. QED
    BY <1>2, <1>4, <1>5, <1>6 DEF BackupsInv, SchedulesInv

LEMMA ClaimStep == BackupsInv /\ (Claim \/ ClaimFails) => BackupsInv' /\ EndedKept
  <1> SUFFICES ASSUME BackupsInv, Claim \/ ClaimFails PROVE BackupsInv' /\ EndedKept
    OBVIOUS
  <1>1. TypeOK /\ SchedulesInv
    BY DEF BackupsInv
  <1>2. /\ RunsStep /\ turns' \subseteq Run \X Run /\ Begun(job')
        /\ schedule' \in [Dest -> Coherent] /\ restarts' \in Nat
    <2>1. CASE Claim
      <3>1. PICK r \in NextJob : Begin(r)
        BY <2>1 DEF Claim
      <3>2. r \in Run /\ runs[r].status \in Active
        BY <1>1, <3>1 DEF NextJob, ActiveRuns
      <3>3. QED
        BY <1>1, <3>1, <3>2, BeginStep
    <2>2. CASE ClaimFails
      <3>1. PICK r \in NextJob : EndRun(r, runs[r], "failed")
        BY <2>2 DEF ClaimFails
      <3>2. r \in Run /\ runs[r].status \in Active
        BY <1>1, <3>1 DEF NextJob, ActiveRuns
      <3>3. QED
        BY <1>1, <3>1, <3>2, EndRunStep, NoJobBegun DEF Terminal
    <2>3. QED
      BY <2>1, <2>2
  <1>3. UNCHANGED <<kind, etag, account, ledger, delivered, events, disturbed>>
    BY DEF Claim, ClaimFails
  <1>4. QED
    BY <1>1, <1>2, <1>3, NothingCopied DEF TypeOK

\* The run in hand.
LEMMA RowInHand ==
    ASSUME BackupsInv, job.step # "idle"
    PROVE  job.run \in Run /\ Row \in RunRow /\ Row.dest \in Dest /\ Row.status # "none"
  BY RunRows DEF BackupsInv, TypeOK, JobInv, Row

LEMMA TokenType ==
    ASSUME TypeOK, Row.dest \in Dest, NEW answer \in {"active", "error"}, TokenRecorded(answer)
    PROVE  account' \in [Dest -> {"active", "error", "none"}]
  <1>1. account' \in {account, [account EXCEPT ![Row.dest] = answer]}
    BY DEF TokenRecorded
  <1>2. QED
    BY <1>1 DEF TypeOK

LEMMA PreparationStep ==
    BackupsInv /\ (Prepare \/ PrepareFails \/ DestinationUnavailable) => BackupsInv' /\ EndedKept
  <1> SUFFICES ASSUME BackupsInv, Prepare \/ PrepareFails \/ DestinationUnavailable
               PROVE  BackupsInv' /\ EndedKept
    OBVIOUS
  <1>1. TypeOK /\ SchedulesInv
    BY DEF BackupsInv
  <1>2. job.step # "idle" /\ Row.status \in Active
    BY DEF Prepare, PrepareFails, DestinationUnavailable, InHand
  <1>3. job.run \in Run /\ Row \in RunRow /\ Row.dest \in Dest /\ Row = runs[job.run]
    BY <1>2, RowInHand DEF Row
  <1>4. account' \in [Dest -> {"active", "error", "none"}]
    BY <1>1, <1>3, TokenType DEF Prepare, PrepareFails, DestinationUnavailable, TypeOK
  <1>5. /\ RunsStep /\ turns' \subseteq Run \X Run /\ Begun(job')
        /\ schedule' \in [Dest -> Coherent] /\ restarts' \in Nat
    <2>1. CASE Prepare
      <3> DEFINE row == [Row EXCEPT !.prepared = TRUE]
      <3>1. row \in RunRow /\ row.status = Row.status /\ row.dest = Row.dest
        BY <1>3, RunRows
      <3>2. List(job.run, row, Touched(job.run))
        BY <2>1 DEF Prepare
      <3>3. Touched(job.run) \in SUBSET (Run \X Run)
        BY <1>1, <1>3, TurnsType
      <3> HIDE DEF row
      <3>4. QED
        BY <1>1, <1>2, <1>3, <3>1, <3>2, <3>3, ListStep
    <2>2. CASE PrepareFails \/ DestinationUnavailable
      <3>1. EndRun(job.run, Row, "failed")
        BY <2>2 DEF PrepareFails, DestinationUnavailable
      <3>2. QED
        BY <1>1, <1>2, <1>3, <3>1, EndRunStep, NoJobBegun DEF Terminal
    <2>3. QED
      BY <2>1, <2>2
  <1>6. UNCHANGED <<kind, etag, ledger, delivered, events, disturbed>>
    BY DEF Prepare, PrepareFails, DestinationUnavailable
  <1>7. QED
    BY <1>1, <1>4, <1>5, <1>6, NothingCopied DEF TypeOK

\* The destination has what lands, and what it had.
LEMMA LandStep == BackupsInv /\ Land => BackupsInv' /\ EndedKept
  <1> SUFFICES ASSUME BackupsInv, Land PROVE BackupsInv' /\ EndedKept
    OBVIOUS
  <1>1. TypeOK
    BY DEF BackupsInv
  <1>2. job.run \in Run /\ Row.dest \in Dest
    BY RowInHand DEF Land, InHand
  <1>3. PICK p \in Current : delivered' = [delivered EXCEPT ![Row.dest][p[1]] = @ \cup {p[2]}]
    BY DEF Land
  <1>4. job \in Job /\ p \in job.todo /\ job.todo \subseteq Object \X Content
    BY <1>1, <1>3 DEF TypeOK, Current, Job
  <1>5. p[1] \in Object /\ p[2] \in Content
    BY <1>4
  <1>6. /\ delivered' \in [Dest -> [Object -> SUBSET Content]]
        /\ p[2] \in delivered'[Row.dest][p[1]]
        /\ \A d \in Dest, o \in Object : delivered[d][o] \subseteq delivered'[d][o]
    <2>1. delivered \in [Dest -> [Object -> SUBSET Content]]
      BY <1>1 DEF TypeOK
    <2>2. QED
      BY <2>1, <1>2, <1>3, <1>5
  <1>7. /\ job' = [job EXCEPT !.step = "landed"]
        /\ UNCHANGED <<kind, etag, ledger, runs, turns, schedule, bounds>>
    BY DEF Land
  <1>8. job' \in Job /\ job'.run = job.run /\ job'.todo = job.todo
    BY <1>4, <1>7 DEF Job
  <1>9. account' \in [Dest -> {"active", "error", "none"}]
    BY <1>1, <1>2, TokenType DEF Land
  <1>10. TypeOK'
    BY <1>1, <1>6, <1>7, <1>8, <1>9 DEF TypeOK, bounds
  <1>11. \A q \in Current : q = p
    <2>1. \A q, r \in job.todo : q[1] = r[1] => q = r
      BY DEF BackupsInv, JobInv
    <2>2. \A q \in Current : q \in job.todo /\ q[1] <= p[1] /\ p[1] <= q[1] /\ q[1] \in Nat /\ p[1] \in Nat
      BY <1>3, <1>4 DEF Current
    <2>3. QED
      BY <1>4, <2>1, <2>2
  <1>12. JobInv'
    <2>1. Current' = Current /\ Row' = Row
      BY <1>7, <1>8 DEF Current, Row
    <2>2. runs'[job'.run].status # "none"
      BY <1>7, <1>8, RowInHand DEF Land, InHand, Row
    <2>3. \A q, r \in job'.todo : q[1] = r[1] => q = r
      BY <1>8 DEF BackupsInv, JobInv
    <2>4. QED
      BY <1>2, <1>6, <1>8, <1>11, <2>1, <2>2, <2>3 DEF JobInv
  <1>13. LedgerTruthful'
    BY <1>6, <1>7 DEF BackupsInv, LedgerTruthful
  <1>14. EndedKept
    BY <1>1, <1>7, RunsStay DEF RunsStep
  <1>15. QED
    BY <1>7, <1>10, <1>12, <1>13, <1>14 DEF BackupsInv, SchedulesInv

\* What is marked as copied is what has landed.
LEMMA MarkStep ==
    ASSUME BackupsInv, NEW p \in Current, NEW status \in {"copied", "failed"}, Mark(p, status),
           Row.status \in Active, job.step = IF status = "copied" THEN "landed" ELSE "copying",
           UNCHANGED <<kind, etag, delivered, events, disturbed>>
    PROVE  BackupsInv' /\ EndedKept
  <1> DEFINE o == p[1]
             row == [Row EXCEPT !.remaining = Less(@)]
             rest == job.todo \ {p}
             reached == job.reached \/ status = "copied"
  <1>1. TypeOK /\ SchedulesInv
    BY DEF BackupsInv
  <1>2. job.run \in Run /\ Row \in RunRow /\ Row.dest \in Dest /\ Row = runs[job.run]
    BY RowInHand DEF Row
  <1>3. row \in RunRow /\ row.status = Row.status /\ row.dest = Row.dest
    BY <1>2, RunRows
  <1>4. job \in Job /\ p \in job.todo /\ job.todo \subseteq Object \X Content
    BY <1>1 DEF TypeOK, Current, Job
  <1>5. o \in Object /\ p[2] \in Content
    BY <1>4
  <1> HIDE DEF row
  <1>6. CASE etag[o] = Deleted
    <2>1. EndRun(job.run, Row, "failed") /\ UNCHANGED <<ledger, account>>
      BY <1>6 DEF Mark
    <2>2. /\ RunsStep /\ turns' \subseteq Run \X Run /\ Begun(job')
          /\ schedule' \in [Dest -> Coherent] /\ restarts' \in Nat
      BY <1>1, <1>2, <2>1, EndRunStep, NoJobBegun DEF Terminal
    <2>3. QED
      BY <1>1, <2>1, <2>2, NothingCopied DEF TypeOK
  <1>7. CASE etag[o] # Deleted
    <2>1. /\ ledger' = [ledger EXCEPT ![Row.dest][o] = Entry(@, status, p[2])]
          /\ AccountAfter(status, rest = {}, reached)
      BY <1>7 DEF Mark, CopiedEtag
    <2>2. Entry(ledger[Row.dest][o], status, p[2]) \in LedgerRow
      <3>1. ledger[Row.dest][o] \in LedgerRow
        BY <1>1, <1>2, <1>5 DEF TypeOK
      <3>2. QED
        BY <1>2, <1>5, <3>1 DEF Entry, LedgerRow
    <2>3. ledger' \in [Dest -> [Object -> LedgerRow]]
      BY <1>1, <1>2, <1>5, <2>1, <2>2 DEF TypeOK
    <2>4. account' \in [Dest -> {"active", "error", "none"}]
      BY <1>1, <1>2, <2>1, TokenType DEF AccountAfter, TypeOK
    <2>5. /\ RunsStep /\ turns' \subseteq Run \X Run /\ Begun(job')
          /\ schedule' \in [Dest -> Coherent] /\ restarts' \in Nat
      <3>1. ASSUME runs' = [runs EXCEPT ![job.run] = row], turns' = Touched(job.run)
            PROVE  RunsStep /\ turns' \subseteq Run \X Run /\ runs'[job.run] = row
        BY <1>1, <1>2, <1>3, <3>1, RowWritten, TurnsType DEF Active, Terminal
      <3>2. CASE rest = {}
        <4>1. AfterBatch(row)
          BY <1>7, <3>2 DEF Mark, row
        <4>2. CASE row.status = "cancel_requested" \/ row.remaining = 0
          <5>1. PICK end \in {"cancelled", "completed"} : EndRun(job.run, row, end)
            BY <4>1, <4>2 DEF AfterBatch
          <5>2. QED
            BY <1>1, <1>2, <1>3, <5>1, EndRunStep, NoJobBegun DEF Terminal
        <4>3. CASE ~(row.status = "cancel_requested" \/ row.remaining = 0)
          <5>1. /\ runs' = [runs EXCEPT ![job.run] = row] /\ turns' = Touched(job.run)
                /\ job' = NoJob /\ UNCHANGED <<schedule, restarts>>
            BY <4>1, <4>3 DEF AfterBatch
          <5>2. QED
            BY <1>1, <3>1, <5>1, NoJobBegun DEF TypeOK, SchedulesInv
        <4>4. QED
          BY <4>2, <4>3
      <3>3. CASE rest # {}
        <4>1. /\ runs' = [runs EXCEPT ![job.run] = row] /\ turns' = Touched(job.run)
              /\ job' = [job EXCEPT !.step = "copying", !.todo = rest, !.reached = reached]
              /\ UNCHANGED <<schedule, restarts>>
          BY <1>7, <3>3 DEF Mark, row
        <4>2. job' \in Job /\ job'.step = "copying" /\ job'.run = job.run /\ job'.todo \subseteq job.todo
          <5>1. reached \in BOOLEAN /\ rest \subseteq Object \X Content
            BY <1>4 DEF Job
          <5> HIDE DEF reached, rest
          <5>2. QED
            BY <1>4, <4>1, <5>1 DEF Job, rest
        <4>3. Begun(job')
          <5>1. \A q, r \in job'.todo : q[1] = r[1] => q = r
            BY <4>2 DEF BackupsInv, JobInv
          <5>2. QED
            BY <1>2, <1>3, <3>1, <4>1, <4>2, <5>1 DEF Begun, Active
        <4>4. QED
          BY <1>1, <3>1, <4>1, <4>3 DEF TypeOK, SchedulesInv
      <3>4. QED
        BY <3>2, <3>3
    <2>6. TypeOK'
      <3>1. job' \in Job /\ runs' \in [Run -> RunRow] /\ schedule' \in [Dest -> ScheduleRow]
        BY <2>5 DEF Begun, RunsStep, Coherent
      <3>2. QED
        BY <1>1, <2>3, <2>4, <2>5, <3>1 DEF TypeOK
    <2>7. JobInv'
      BY <2>5 DEF Begun, JobInv
    <2>8. LedgerTruthful'
      <3>1. status = "copied" => p[2] \in delivered[Row.dest][o]
        BY DEF BackupsInv, JobInv
      <3>2. /\ Entry(ledger[Row.dest][o], status, p[2]).status = status
            /\ Entry(ledger[Row.dest][o], status, p[2]).etag = p[2]
        BY DEF Entry
      <3>3. \A d \in Dest, x \in Object :
               ledger'[d][x] = IF d = Row.dest /\ x = o THEN Entry(ledger[Row.dest][o], status, p[2])
                               ELSE ledger[d][x]
        BY <1>1, <1>2, <1>5, <2>1 DEF TypeOK
      <3>4. QED
        BY <3>1, <3>2, <3>3 DEF BackupsInv, LedgerTruthful
    <2>9. QED
      BY <2>5, <2>6, <2>7, <2>8 DEF BackupsInv, SchedulesInv, RunsStep
  <1>8. QED
    BY <1>6, <1>7

\* The end of a batch without its run: the process ends or the run has gone.
LEMMA DropStep == BackupsInv /\ (Orphaned \/ Restart) => BackupsInv' /\ EndedKept
  <1> SUFFICES ASSUME BackupsInv, Orphaned \/ Restart PROVE BackupsInv' /\ EndedKept
    OBVIOUS
  <1>1. TypeOK /\ SchedulesInv
    BY DEF BackupsInv
  <1>2. /\ UNCHANGED <<tables, delivered, events, disturbed>> /\ job' = NoJob /\ restarts' \in Nat
    BY <1>1 DEF Orphaned, Restart, bounds, EndProcess, TypeOK
  <1>3. RunsStep
    BY <1>1, <1>2, RunsStay DEF tables
  <1>4. QED
    BY <1>1, <1>2, <1>3, NoJobBegun, NothingCopied DEF TypeOK, SchedulesInv, tables

-----------------------------------------------------------------------------
(***************************************************************************)
(* What people and the scheduler do.                                       *)
(***************************************************************************)

LEMMA ObjectStep ==
    ASSUME BackupsInv, NEW o \in Object, NEW c \in Content, WriteObject(o, c) \/ DeleteObject(o)
    PROVE  BackupsInv' /\ EndedKept
  <1>1. TypeOK /\ SchedulesInv
    BY DEF BackupsInv
  <1>2. RecordWrite /\ etag' \in [Object -> Content \cup {Unborn, Deleted}]
    BY <1>1 DEF WriteObject, DeleteObject, TypeOK
  <1>3. /\ UNCHANGED <<kind, account, runs, turns, delivered, job, restarts>>
        /\ events' \in Nat /\ disturbed' \subseteq Run
    BY <1>1, <1>2 DEF RecordWrite, CountEvent, TypeOK
  <1>4. schedule' \in [Dest -> Coherent]
    BY <1>1, <1>2, CoherentEdits DEF RecordWrite, SchedulesInv
  <1>5. NoEntry \in LedgerRow /\ NoEntry.status = "none"
    BY DEF NoEntry, LedgerRow
  <1>6. /\ ledger' \in [Dest -> [Object -> LedgerRow]]
        /\ \A d \in Dest, x \in Object : ledger'[d][x] \in {ledger[d][x], NoEntry}
    BY <1>1, <1>5 DEF WriteObject, DeleteObject, TypeOK
  <1>7. \A d \in Dest, x \in Object : ledger'[d][x].status = "copied" =>
           ledger[d][x].status = "copied" /\ ledger'[d][x].etag = ledger[d][x].etag
    BY <1>5, <1>6
  <1>8. RunsStep
    BY <1>1, <1>3, RunsStay
  <1>9. QED
    BY <1>1, <1>2, <1>3, <1>4, <1>6, <1>7, <1>8, NothingCopied DEF TypeOK

\* A row of a run comes into being; the row of another is as it was.
LEMMA QueueStep ==
    ASSUME TypeOK, NEW d \in Dest, NEW manual \in BOOLEAN, NEW scheduled \in BOOLEAN,
           QueueRun(d, manual, scheduled)
    PROVE  RunsStep /\ turns' \subseteq Run \X Run
  <1>1. PICK r \in Run : /\ runs[r].status = "none" /\ turns' = Touched(r)
                         /\ runs' = [runs EXCEPT ![r] = NewRun(d, manual, scheduled)]
    BY DEF QueueRun
  <1>2. RunsStep
    BY <1>1, NewRuns, RowWritten DEF Terminal
  <1>3. QED
    BY <1>1, <1>2, TurnsType

\* Steps that write runs and schedules only.
LEMMA TablesOnly ==
    ASSUME BackupsInv, UNCHANGED <<kind, etag, ledger, delivered, job, restarts, disturbed>>,
           account' \in [Dest -> {"active", "error", "none"}],
           RunsStep, turns' \subseteq Run \X Run, schedule' \in [Dest -> Coherent], events' \in Nat
    PROVE  BackupsInv' /\ EndedKept
  BY NothingCopied DEF BackupsInv, TypeOK

LEMMA AskedStep ==
    ASSUME BackupsInv, NEW d \in Dest, CreateManual(d) \/ RunNow(d)
    PROVE  BackupsInv' /\ EndedKept
  <1>1. TypeOK /\ SchedulesInv
    BY DEF BackupsInv
  <1>2. RunsStep /\ turns' \subseteq Run \X Run
    BY <1>1, QueueStep DEF CreateManual, RunNow
  <1>3. schedule' \in [Dest -> Coherent]
    <2>1. [schedule[d] EXCEPT !.outcome = "queued"] \in Coherent
      BY <1>1, CoherentEdits DEF SchedulesInv, Outcome
    <2>2. schedule' \in {schedule, [schedule EXCEPT ![d] = [schedule[d] EXCEPT !.outcome = "queued"]]}
      BY DEF CreateManual, RunNow
    <2>3. QED
      BY <1>1, <2>1, <2>2 DEF SchedulesInv
  <1>4. UNCHANGED <<kind, etag, account, ledger, delivered, job, events, restarts, disturbed>>
    BY DEF CreateManual, RunNow, bounds
  <1>5. QED
    BY <1>1, <1>2, <1>3, <1>4, TablesOnly DEF TypeOK

\* An ended run cannot be cancelled.
LEMMA CancelStep ==
    ASSUME BackupsInv, NEW r \in Run, RequestCancel(r)
    PROVE  BackupsInv' /\ EndedKept
  <1> DEFINE row == [runs[r] EXCEPT !.status = "cancel_requested"]
  <1>1. TypeOK /\ SchedulesInv /\ runs[r] \in RunRow
    BY DEF BackupsInv, TypeOK
  <1>2. row \in RunRow /\ row.status = "cancel_requested" /\ row.dest = runs[r].dest
    BY <1>1, RunRows DEF Active
  <1>3. runs' = [runs EXCEPT ![r] = row] /\ turns' = Touched(r) /\ runs[r].status \in {"queued", "running"}
    BY DEF RequestCancel, Cancellable
  <1> HIDE DEF row
  <1>4. RunsStep /\ turns' \subseteq Run \X Run
    BY <1>1, <1>2, <1>3, RowWritten, TurnsType DEF Terminal
  <1>5. UNCHANGED <<kind, etag, account, ledger, schedule, delivered, job, events, restarts, disturbed>>
    BY DEF RequestCancel, bounds
  <1>6. QED
    BY <1>1, <1>4, <1>5, TablesOnly DEF TypeOK, SchedulesInv

LEMMA EditStep ==
    ASSUME BackupsInv, NEW d \in Dest, NEW f \in Frequency, NEW on \in BOOLEAN,
           CreateSchedule(d, f, on) \/ UpdateSchedule(d, f, on) \/ TestDestination(d)
    PROVE  BackupsInv' /\ EndedKept
  <1>1. TypeOK /\ SchedulesInv
    BY DEF BackupsInv
  <1>2. /\ UNCHANGED <<kind, etag, ledger, runs, turns, delivered, job, restarts, disturbed>>
        /\ events' \in Nat /\ account' \in [Dest -> {"active", "error", "none"}]
    BY <1>1 DEF CreateSchedule, UpdateSchedule, TestDestination, CountEvent, TypeOK
  <1>3. schedule' \in [Dest -> Coherent]
    <2>1. Fresh(f, on) \in Coherent /\ UpdatedRow(schedule[d], f, on) \in Coherent
      BY <1>1, CoherentRows, CoherentEdits DEF SchedulesInv
    <2>2. \/ schedule' = schedule
          \/ schedule' = [schedule EXCEPT ![d] = Fresh(f, on)]
          \/ schedule' = [schedule EXCEPT ![d] = UpdatedRow(schedule[d], f, on)]
      BY DEF CreateSchedule, UpdateSchedule, TestDestination
    <2>3. QED
      BY <1>1, <2>1, <2>2 DEF SchedulesInv
  <1>4. RunsStep
    BY <1>1, <1>2, RunsStay
  <1>5. QED
    BY <1>1, <1>2, <1>3, <1>4, TablesOnly DEF TypeOK

LEMMA RemovalStep ==
    ASSUME BackupsInv, NEW d \in Dest, DeleteSchedule(d) \/ UnlinkAccount(d)
    PROVE  BackupsInv' /\ EndedKept
  <1>1. TypeOK /\ SchedulesInv
    BY DEF BackupsInv
  <1>2. /\ UNCHANGED <<kind, etag, delivered, job, restarts, disturbed>>
        /\ events' \in Nat /\ account' \in [Dest -> {"active", "error", "none"}] /\ turns' \subseteq Run \X Run
    <2>1. CASE DeleteSchedule(d)
      BY <1>1, <2>1 DEF DeleteSchedule, CountEvent, TypeOK
    <2>2. CASE UnlinkAccount(d)
      <3>1. turns' \subseteq turns /\ account' = [account EXCEPT ![d] = "none"]
        BY <2>2 DEF UnlinkAccount
      <3>2. events' \in Nat /\ UNCHANGED <<kind, etag, delivered, job, restarts, disturbed>>
        BY <1>1, <2>2 DEF UnlinkAccount, CountEvent, TypeOK
      <3>3. QED
        BY <1>1, <3>1, <3>2 DEF TypeOK
    <2>3. QED
      BY <2>1, <2>2
  <1>3. schedule' \in [Dest -> Coherent]
    BY <1>1, CoherentRows DEF DeleteSchedule, UnlinkAccount, SchedulesInv
  <1>4. NoEntry \in LedgerRow /\ NoEntry.status = "none"
    BY DEF NoEntry, LedgerRow
  <1>5. /\ ledger' \in [Dest -> [Object -> LedgerRow]]
        /\ \A e \in Dest, x \in Object : ledger'[e][x] \in {ledger[e][x], NoEntry}
    <2>1. CASE DeleteSchedule(d)
      BY <1>1, <2>1 DEF DeleteSchedule, TypeOK
    <2>2. CASE UnlinkAccount(d)
      <3>1. ledger' = [ledger EXCEPT ![d] = [o \in Object |-> NoEntry]]
        BY <2>2 DEF UnlinkAccount
      <3>2. [o \in Object |-> NoEntry] \in [Object -> LedgerRow]
        BY <1>4
      <3>3. QED
        BY <1>1, <3>1, <3>2 DEF TypeOK
    <2>3. QED
      BY <2>1, <2>2
  <1>6. RunsStep
    <2>1. CASE DeleteSchedule(d)
      <3>1. runs' = [r \in Run |-> IF runs[r].dest = d THEN [runs[r] EXCEPT !.scheduled = FALSE] ELSE runs[r]]
        BY <2>1 DEF DeleteSchedule
      <3>2. \A r \in Run : /\ runs'[r] \in RunRow /\ runs'[r].status = runs[r].status
                           /\ runs'[r].dest = runs[r].dest
        BY <1>1, <3>1, RunRows DEF TypeOK
      <3>3. QED
        BY <3>1, <3>2 DEF RunsStep, RunsKept, EndedKept
    <2>2. CASE UnlinkAccount(d)
      <3>1. runs' = [r \in Run |-> IF runs[r].status # "none" /\ runs[r].dest = d THEN Closed(d, "pruned")
                                   ELSE runs[r]]
        BY <2>2 DEF UnlinkAccount
      <3>2. Closed(d, "pruned") \in RunRow /\ Closed(d, "pruned").status = "pruned" /\ Closed(d, "pruned").dest = d
        BY RunRows
      <3>3. QED
        BY <1>1, <3>1, <3>2 DEF TypeOK, RunsStep, RunsKept, EndedKept
    <2>3. QED
      BY <2>1, <2>2
  <1>7. \A e \in Dest, x \in Object : ledger'[e][x].status = "copied" =>
           ledger[e][x].status = "copied" /\ ledger'[e][x].etag = ledger[e][x].etag
    BY <1>4, <1>5
  <1>8. QED
    BY <1>1, <1>2, <1>3, <1>5, <1>6, <1>7, NothingCopied DEF TypeOK

LEMMA BecomesStep ==
    ASSUME TypeOK, SchedulesInv, NEW d \in Dest, NEW s \in Coherent, Becomes(d, s)
    PROVE  RunsStep /\ turns' \subseteq Run \X Run /\ schedule' \in [Dest -> Coherent]
  BY RunsStay DEF Becomes, SchedulesInv, TypeOK

LEMMA StartRunStep ==
    ASSUME TypeOK, SchedulesInv, NEW d \in Dest, NEW s \in Coherent, StartRun(d, s)
    PROVE  RunsStep /\ turns' \subseteq Run \X Run /\ schedule' \in [Dest -> Coherent]
  <1>1. CASE ~Usable(d)
    BY <1>1, CoherentEdits, BecomesStep DEF StartRun
  <1>2. CASE Usable(d) /\ HasActiveRun(d)
    BY <1>2, CoherentEdits, BecomesStep DEF StartRun, Outcome
  <1>3. CASE Usable(d) /\ ~HasActiveRun(d)
    <2>1. /\ QueueRun(d, FALSE, TRUE)
          /\ schedule' = [schedule EXCEPT ![d] = [s EXCEPT !.outcome = "queued", !.pending = FALSE]]
      BY <1>3 DEF StartRun
    <2>2. schedule' \in [Dest -> Coherent]
      BY <2>1, CoherentEdits DEF SchedulesInv
    <2>3. QED
      BY <2>1, <2>2, QueueStep
  <1>4. QED
    BY <1>1, <1>2, <1>3

LEMMA FireStep ==
    ASSUME BackupsInv, NEW d \in Dest, NEW periodic \in BOOLEAN, NEW settled \in BOOLEAN,
           Fire(d, periodic, settled) \/ FireUnavailable(d)
    PROVE  BackupsInv' /\ EndedKept
  <1> DEFINE s == [schedule[d] EXCEPT !.unseen = FALSE]
  <1>1. TypeOK /\ SchedulesInv
    BY DEF BackupsInv
  <1>2. s \in Coherent
    BY <1>1, CoherentEdits DEF SchedulesInv
  <1>3. UNCHANGED <<kind, etag, account, ledger, delivered, job, events, restarts, disturbed>>
    BY DEF Fire, FireUnavailable, bounds
  <1>4. RunsStep /\ turns' \subseteq Run \X Run /\ schedule' \in [Dest -> Coherent]
    <2>1. CASE FireUnavailable(d)
      <3>1. schedule' = [schedule EXCEPT ![d] = Paused(s)] /\ UNCHANGED <<runs, turns>>
        BY <2>1 DEF FireUnavailable
      <3>2. Paused(s) \in Coherent
        BY <1>2, CoherentEdits
      <3>3. QED
        BY <1>1, <3>1, <3>2, RunsStay DEF SchedulesInv, TypeOK
    <2>2. CASE FireTimed(d, s)
      BY <1>1, <1>2, <2>2, CoherentEdits, BecomesStep, StartRunStep DEF FireTimed, Outcome
    <2>3. CASE s.frequency = "on_change" /\ FireOnChange(d, s, periodic, settled)
      <3>1. /\ [s EXCEPT !.pending = TRUE, !.outcome = "holding"] \in Coherent
            /\ [s EXCEPT !.pending = TRUE] \in Coherent /\ NothingLeft(s) \in Coherent
        BY <1>2, <2>3, CoherentEdits
      <3>2. \/ \E t \in {s, [s EXCEPT !.pending = TRUE, !.outcome = "holding"], NothingLeft(s)} : Becomes(d, t)
            \/ \E t \in {s, [s EXCEPT !.pending = TRUE]} : StartRun(d, t)
        BY <1>2, <2>3 DEF FireOnChange, Coherent, ScheduleRow
      <3>3. QED
        BY <1>1, <1>2, <3>1, <3>2, BecomesStep, StartRunStep
    <2>4. QED
      BY <2>1, <2>2, <2>3 DEF Fire
  <1>5. QED
    BY <1>1, <1>3, <1>4, TablesOnly DEF TypeOK

LEMMA PruneStep ==
    ASSUME BackupsInv, NEW r \in Run, PruneHistory(r)
    PROVE  BackupsInv' /\ EndedKept
  <1> DEFINE row == [runs[r] EXCEPT !.status = "pruned"]
  <1>1. TypeOK /\ SchedulesInv /\ runs[r] \in RunRow
    BY DEF BackupsInv, TypeOK
  <1>2. row \in RunRow /\ row.status = "pruned" /\ row.dest = runs[r].dest
    BY <1>1, RunRows
  <1>3. runs' = [runs EXCEPT ![r] = row]
    BY DEF PruneHistory
  <1> HIDE DEF row
  <1>4. RunsStep
    BY <1>1, <1>2, <1>3, RowWritten
  <1>5. ledger' = [d \in Dest |-> [o \in Object |->
           IF ledger[d][o].by = r THEN [ledger[d][o] EXCEPT !.by = NoRun] ELSE ledger[d][o]]]
    BY DEF PruneHistory
  <1>6. \A d \in Dest, o \in Object :
           LET new == [ledger[d][o] EXCEPT !.by = NoRun]
           IN  new \in LedgerRow /\ new.status = ledger[d][o].status /\ new.etag = ledger[d][o].etag
    <2>1. \A e \in LedgerRow : LET new == [e EXCEPT !.by = NoRun]
                               IN  new \in LedgerRow /\ new.status = e.status /\ new.etag = e.etag
      BY DEF LedgerRow
    <2>2. \A d \in Dest, o \in Object : ledger[d][o] \in LedgerRow
      BY <1>1 DEF TypeOK
    <2>3. QED
      BY <2>1, <2>2
  <1>7. /\ ledger' \in [Dest -> [Object -> LedgerRow]]
        /\ \A d \in Dest, o \in Object :
              ledger'[d][o].status = ledger[d][o].status /\ ledger'[d][o].etag = ledger[d][o].etag
    BY <1>1, <1>5, <1>6 DEF TypeOK
  <1>8. UNCHANGED <<kind, etag, account, turns, schedule, delivered, job, events, restarts, disturbed>>
    BY DEF PruneHistory, bounds
  <1>9. QED
    BY <1>1, <1>4, <1>7, <1>8, NothingCopied DEF TypeOK, SchedulesInv

-----------------------------------------------------------------------------
LEMMA BackupsStep == BackupsInv /\ [Next]_vars => BackupsInv' /\ (EndedKept \/ UNCHANGED vars)
  <1> SUFFICES ASSUME BackupsInv, [Next]_vars PROVE BackupsInv' /\ (EndedKept \/ UNCHANGED vars)
    OBVIOUS
  <1>1. CASE UNCHANGED vars
    BY <1>1 DEF vars, tables, bounds, BackupsInv, TypeOK, SchedulesInv, JobInv, LedgerTruthful, Current, Row
  <1>2. ASSUME NEW o \in Object, DeleteObject(o) \/ \E c \in Content : WriteObject(o, c)
        PROVE  BackupsInv' /\ EndedKept
    BY <1>2, ObjectStep DEF DeleteObject
  <1>3. ASSUME NEW d \in Dest, ScheduleStep(d) PROVE BackupsInv' /\ EndedKept
    BY <1>3, EditStep, RemovalStep, AskedStep, FireStep DEF ScheduleStep, Frequency
  <1>4. ASSUME NEW r \in Run, RequestCancel(r) \/ PruneHistory(r) PROVE BackupsInv' /\ EndedKept
    BY <1>4, CancelStep, PruneStep
  <1>5. CASE WorkerStep
    <2>1. CASE MarkCopied
      BY <2>1, MarkStep DEF MarkCopied, InHand
    <2>2. CASE MarkFailed
      BY <2>2, MarkStep DEF MarkFailed, InHand
    <2>3. QED
      BY <1>5, <2>1, <2>2, ClaimStep, DropStep, PreparationStep, LandStep DEF WorkerStep
  <1>6. CASE Restart
    BY <1>6, DropStep
  <1>7. QED
    BY <1>1, <1>2, <1>3, <1>4, <1>5, <1>6 DEF Next

-----------------------------------------------------------------------------
(***************************************************************************)
(* A batch is of what is left to try.                                      *)
(***************************************************************************)

\* A nonempty set of numbers has a least element.
Smaller == OpToRel(<, Nat)

LEMMA SmallerPairs == \A m, n \in Nat : m < n => <<m, n>> \in Smaller
  BY Zenon DEF Smaller, OpToRel

LEMMA LeastExists ==
    ASSUME NEW S \in SUBSET Nat, S # {}
    PROVE  \E n \in S : \A m \in S : n <= m
  <1>1. IsWellFoundedOn(Smaller, Nat)
    BY NatLessThanWellFounded DEF Smaller
  <1>2. PICK n \in S : \A m \in S : <<m, n>> \notin Smaller
    BY <1>1, WFMin
  <1>3. \A m \in S : m \in Nat /\ n \in Nat /\ ~(m < n)
    BY <1>2, SmallerPairs
  <1>4. QED
    BY <1>3

\* A batch is empty only when there is nothing left to try.
LEMMA EmptyBatch ==
    ASSUME NEW d, NEW r, Batch(d, r) = {}
    PROVE  ObjectsNeedingWork(d, r) = {}
  <1> DEFINE wanted == ObjectsNeedingWork(d, r)
             first == {p \in wanted : Cardinality({q \in wanted : q < p}) < BatchSize}
  <1>1. wanted \in SUBSET Nat
    BY DEF ObjectsNeedingWork, NeedingWork, ActiveObjects
  <1>2. first = {}
    <2> DEFINE Line(o) == <<o, etag[o]>>
    <2>1. Batch(d, r) = {Line(o) : o \in first}
      BY DEF Batch
    <2> HIDE DEF first, Line
    <2>2. ASSUME NEW o \in first PROVE FALSE
      <3>1. Line(o) \in Batch(d, r)
        BY <2>1
      <3>2. QED
        BY <3>1
    <2>3. QED
      BY <2>2
  <1> HIDE DEF wanted
  <1>3. ASSUME wanted # {} PROVE FALSE
    <2>1. PICK p \in wanted : \A q \in wanted : p <= q
      BY <1>1, <1>3, LeastExists
    <2>2. \A q \in wanted : ~(q < p)
      BY <1>1, <2>1
    <2>3. {q \in wanted : q < p} = {}
      BY <2>2
    <2>4. Cardinality({q \in wanted : q < p}) < BatchSize
      <3>1. 0 < BatchSize
        OBVIOUS
      <3>2. QED
        BY <2>3, <3>1, FS_EmptySet
    <2>5. QED
      BY <1>2, <2>1, <2>4
  <1>4. QED
    BY <1>3 DEF wanted

LEMMA BatchIsWanted ==
    ASSUME NEW d, NEW r, NEW p \in Batch(d, r)
    PROVE  p[1] \in ObjectsNeedingWork(d, r) /\ etag[p[1]] = p[2]
  <1>1. PICK o \in ObjectsNeedingWork(d, r) : p = <<o, etag[o]>>
    BY DEF Batch
  <1>2. QED
    BY <1>1

\* Where nothing is left to try, every object is settled.
LEMMA NothingLeftToTry ==
    ASSUME LedgerTruthful, NEW d \in Dest, NEW r, ObjectsNeedingWork(d, r) = {}
    PROVE  \A o \in ActiveObjects : Settled(d, o)
  BY DEF ObjectsNeedingWork, NeedingWork, CopiedAtCurrent, Exhausted, TriedBy, ActiveObjects,
         LedgerTruthful, Settled

LEMMA WorkIsFinite ==
    ASSUME NEW d, NEW r
    PROVE  /\ IsFiniteSet(ObjectsNeedingWork(d, r))
           /\ Cardinality(ObjectsNeedingWork(d, r)) \in Nat
  <1>1. ObjectsNeedingWork(d, r) \in SUBSET Object
    BY DEF ObjectsNeedingWork, NeedingWork, ActiveObjects
  <1>2. QED
    BY <1>1, FS_Subset, FS_CardinalityType

-----------------------------------------------------------------------------
(***************************************************************************)
(* What steps leave as it was.                                             *)
(***************************************************************************)

ActiveKept ==
    \A q \in Run : runs'[q].status \in Active =>
        /\ runs[q].status \in Active
        /\ runs'[q].dest = runs[q].dest /\ runs'[q].remaining = runs[q].remaining
CompletedKept ==
    \A q \in Run : runs'[q].status = "completed" => runs[q].status = "completed" /\ runs'[q].dest = runs[q].dest
ScheduledKept ==
    \A q \in Run : runs[q].status \in Active /\ runs[q].scheduled =>
        runs'[q].status \in Active /\ runs'[q].scheduled /\ runs'[q].dest = runs[q].dest
NoNewRun ==
    \A q \in Run : runs'[q].status # "none" => runs[q].status # "none" /\ runs'[q].dest = runs[q].dest
WorkKept ==
    /\ etag' = etag /\ disturbed' = disturbed
    /\ \A d \in Dest, q \in Run :
          runs[q].status \in Active => ObjectsNeedingWork(d, q)' = ObjectsNeedingWork(d, q)
    /\ \A d \in Dest, o \in Object : Untouched(d) /\ Settled(d, o) => Settled(d, o)'

\* The work of a run is read off the ledger of its destination.
LEMMA SameWork ==
    ASSUME NEW d, NEW q, etag' = etag, \A o \in Object : ledger'[d][o] = ledger[d][o]
    PROVE  /\ NeedingWork(d)' = NeedingWork(d) /\ TriedBy(d, q)' = TriedBy(d, q)
           /\ ObjectsNeedingWork(d, q)' = ObjectsNeedingWork(d, q)
  <1>1. ActiveObjects' = ActiveObjects
    BY DEF ActiveObjects
  <1>2. CopiedAtCurrent(d)' = CopiedAtCurrent(d) /\ Exhausted(d)' = Exhausted(d)
    BY <1>1 DEF CopiedAtCurrent, Exhausted, ActiveObjects
  <1>3. TriedBy(d, q)' = TriedBy(d, q)
    BY DEF TriedBy
  <1>4. QED
    BY <1>1, <1>2, <1>3 DEF NeedingWork, ObjectsNeedingWork

LEMMA WorkOfRun ==
    ASSUME NEW d, NEW q, runs'[q].dest = d
    PROVE  ObjectsNeedingWork(runs[q].dest, q)' = ObjectsNeedingWork(d, q)'
  BY DEF ObjectsNeedingWork, NeedingWork, CopiedAtCurrent, Exhausted, TriedBy, ActiveObjects

LEMMA TablesFrame ==
    ASSUME BackupsInv, OneActive, CountInv, DoneInv, WorkKept, ActiveKept, CompletedKept
    PROVE  OneActive' /\ CountInv' /\ DoneInv'
  <1>1. OneActive'
    BY DEF OneActive, ActiveKept
  <1>2. \A q \in Run : runs[q].dest \in Dest
    BY RunRows DEF BackupsInv, TypeOK
  <1>3. CountInv'
    <2> SUFFICES ASSUME NEW q \in Run, runs'[q].status \in Active, q \notin disturbed' PROVE Counted(q)'
      BY DEF CountInv
    <2>1. /\ runs[q].status \in Active /\ q \notin disturbed
          /\ runs'[q].dest = runs[q].dest /\ runs'[q].remaining = runs[q].remaining
      BY DEF ActiveKept, WorkKept
    <2>2. ObjectsNeedingWork(runs[q].dest, q)' = ObjectsNeedingWork(runs[q].dest, q)
      BY <1>2, <2>1 DEF WorkKept, ObjectsNeedingWork, NeedingWork, CopiedAtCurrent, Exhausted, TriedBy, ActiveObjects
    <2>3. QED
      BY <2>1, <2>2 DEF CountInv, Counted
  <1>4. DoneInv'
    <2>1. ASSUME NEW q \in Run, runs'[q].status = "completed", q \notin disturbed',
                 NEW o \in ActiveObjects, NEW d \in Dest, d = runs[q].dest
          PROVE  Settled(d, o)' /\ runs'[q].dest = d
      <3>1. Settled(d, o) /\ Untouched(d) /\ runs'[q].dest = d
        BY <2>1 DEF DoneInv, WorkKept, CompletedKept, Untouched
      <3>2. QED
        BY <2>1, <3>1 DEF WorkKept, ActiveObjects
    <2>2. QED
      BY <1>2, <2>1 DEF DoneInv, WorkKept, ActiveObjects, Settled
  <1>5. QED
    BY <1>1, <1>3, <1>4

\* What is not there is not wanted, and what nobody has in hand is done.
LEMMA BatchFrame ==
    ASSUME BackupsInv, BatchInv, WorkKept, NoNewRun,
           UNCHANGED <<ledger, job>> \/ job'.step = "idle" \/ job'.todo = {},
           \A q \in Run : runs'[q].status \in Active => runs[q].status \in Active
    PROVE  BatchInv'
  <1>1. CASE job'.step = "idle" \/ job'.todo = {}
    BY <1>1 DEF BatchInv, AtWork
  <1>2. CASE UNCHANGED <<ledger, job>>
    <2> SUFFICES ASSUME AtWork' PROVE BatchInv'
      BY DEF BatchInv
    <2>1. job.step # "idle" /\ job.run \in Run
      BY <1>2 DEF AtWork, BackupsInv, JobInv
    <2>2. AtWork /\ Row'.dest = Row.dest
      BY <1>2, <2>1 DEF AtWork, Row, NoNewRun, Active
    <2>3. Untouched(Row.dest)' => Untouched(Row.dest)
      BY <2>2 DEF Untouched, NoNewRun, WorkKept
    <2>4. QED
      BY <1>2, <2>2, <2>3 DEF BatchInv, WorkKept, TriedBy, NeedingWork, CopiedAtCurrent, Exhausted,
                              ActiveObjects, Untouched
  <1>3. QED
    BY <1>1, <1>2

LEMMA QueuedFrame ==
    ASSUME QueuedInv, ScheduledKept, BackupsInv, restarts' \in Nat, restarts <= restarts',
           \A d \in Dest : schedule'[d].outcome = "queued" => schedule[d].outcome = "queued"
    PROVE  QueuedInv'
  <1> SUFFICES ASSUME NEW d \in Dest, schedule'[d].outcome = "queued", ~(restarts' > 0)
               PROVE  \E r \in Run : runs'[r].status \in Active /\ runs'[r].dest = d /\ runs'[r].scheduled
    BY DEF QueuedInv
  <1>1. ~(restarts > 0)
    BY DEF BackupsInv, TypeOK
  <1>2. PICK r \in Run : runs[r].status \in Active /\ runs[r].dest = d /\ runs[r].scheduled
    BY <1>1 DEF QueuedInv
  <1>3. QED
    BY <1>2 DEF ScheduledKept

-----------------------------------------------------------------------------
(***************************************************************************)
(* A run that is written, and one that ends.                               *)
(***************************************************************************)

LEMMA RowFields ==
    \A row \in RunRow :
        /\ row.scheduled \in BOOLEAN
        /\ \A status \in Active \cup {"pruned"} :
              [row EXCEPT !.status = status].remaining = row.remaining
              /\ [row EXCEPT !.status = status].scheduled = row.scheduled
        /\ [row EXCEPT !.prepared = TRUE].remaining = row.remaining
        /\ [row EXCEPT !.prepared = TRUE].scheduled = row.scheduled
        /\ [row EXCEPT !.remaining = Less(@)].remaining = Less(row.remaining)
        /\ [row EXCEPT !.remaining = Less(@)].scheduled = row.scheduled
  BY DEF RunRow

LEMMA RowKept ==
    ASSUME TypeOK, NEW r \in Run, runs[r].status \in Active, NEW row \in RunRow, row.status \in Active,
           row.dest = runs[r].dest, row.scheduled = runs[r].scheduled, runs' = [runs EXCEPT ![r] = row]
    PROVE  /\ CompletedKept /\ ScheduledKept /\ NoNewRun
           /\ \A q \in Run : runs'[q].status \in Active => runs[q].status \in Active
           /\ row.remaining = runs[r].remaining => ActiveKept
  BY DEF TypeOK, CompletedKept, ScheduledKept, NoNewRun, ActiveKept, Active

LEMMA ReportSettles ==
    ASSUME NEW s \in ScheduleRow, NEW status \in Terminal
    PROVE  RecordRunResult(s, status).outcome = "settled"
  <1>1. CASE status = "failed"
    <2>1. RecordRunResult(s, status) = CountFailure(s)
      BY <1>1 DEF RecordRunResult
    <2>2. QED
      BY <2>1 DEF CountFailure, Paused, ScheduleRow
  <1>2. CASE status \in {"completed", "cancelled"}
    BY <1>2 DEF RecordRunResult, ScheduleRow
  <1>3. QED
    BY <1>1, <1>2 DEF Terminal

LEMMA RunCloses ==
    ASSUME TypeOK, NEW r \in Run, runs[r].status \in Active, NEW row, row.dest = runs[r].dest,
           NEW status \in Terminal, EndRun(r, row, status)
    PROVE  /\ ActiveKept /\ NoNewRun /\ job' = NoJob
           /\ \A q \in Run \ {r} : runs'[q] = runs[q]
           /\ runs'[r].status = status /\ runs'[r].dest = runs[r].dest
  <1>1. runs' = [runs EXCEPT ![r] = Closed(row.dest, status)] /\ job' = NoJob
    BY DEF EndRun
  <1>2. Closed(row.dest, status).status = status /\ Closed(row.dest, status).dest = runs[r].dest
    BY DEF Closed
  <1>3. QED
    BY <1>1, <1>2 DEF TypeOK, ActiveKept, NoNewRun, Active, Terminal

LEMMA ScheduleTold ==
    ASSUME BackupsInv, QueuedInv, NEW r \in Run, runs[r].status \in Active, NEW row, row.dest = runs[r].dest,
           NEW status \in Terminal, EndRun(r, row, status)
    PROVE  QueuedInv'
  <1> USE DEF BackupsInv
  <1>1. \A q \in Run \ {r} : runs'[q] = runs[q]
    BY RunCloses
  <1>2. CASE EndProcess
    <2>1. restarts' > 0
      BY <1>2 DEF EndProcess, TypeOK
    <2>2. QED
      BY <2>1 DEF QueuedInv
  <1>3. CASE ReportToSchedule(r, status) /\ UNCHANGED restarts
    <2> SUFFICES ASSUME NEW d \in Dest, schedule'[d].outcome = "queued", restarts = 0
                 PROVE  \E q \in Run : runs'[q].status \in Active /\ runs'[q].dest = d /\ runs'[q].scheduled
      BY <1>3 DEF QueuedInv, TypeOK
    <2>1. runs[r].dest \in Dest
      BY RunRows DEF TypeOK
    <2>2. schedule[d].outcome = "queued" /\ ~(runs[r].scheduled /\ runs[r].dest = d)
      <3>1. CASE runs[r].scheduled
        <4>1. schedule' = [schedule EXCEPT ![runs[r].dest] = RecordRunResult(schedule[runs[r].dest], status)]
          BY <1>3, <3>1 DEF ReportToSchedule
        <4>2. QED
          BY <2>1, <4>1, ReportSettles DEF TypeOK
      <3>2. CASE ~runs[r].scheduled
        BY <1>3, <3>2 DEF ReportToSchedule
      <3>3. QED
        BY <3>1, <3>2
    <2>3. PICK q \in Run : runs[q].status \in Active /\ runs[q].dest = d /\ runs[q].scheduled
      BY <2>2 DEF QueuedInv
    <2>4. QED
      BY <1>1, <2>2, <2>3
  <1>4. QED
    BY <1>2, <1>3 DEF EndRun

\* A run may end completed once its objects are settled.
LEMMA EndWork ==
    ASSUME TransfersInv, NEW r \in Run, runs[r].status \in Active, NEW row, row.dest = runs[r].dest,
           NEW status \in Terminal, EndRun(r, row, status),
           etag' = etag, disturbed' = disturbed,
           \A d \in Dest, q \in Run \ {r} : runs[q].status \in Active /\ runs[q].dest = d =>
               ObjectsNeedingWork(d, q)' = ObjectsNeedingWork(d, q),
           \A d \in Dest, o \in ActiveObjects : Untouched(d) /\ Settled(d, o) => Settled(d, o)',
           status = "completed" /\ r \notin disturbed =>
               \A d \in Dest, o \in ActiveObjects : d = runs[r].dest => Settled(d, o)'
    PROVE  WorkInv'
  <1> USE DEF TransfersInv, WorkInv, BackupsInv
  <1>1. /\ ActiveKept /\ job' = NoJob /\ \A q \in Run \ {r} : runs'[q] = runs[q]
        /\ runs'[r].status = status /\ runs'[r].dest = runs[r].dest
    BY RunCloses
  <1>2. \A q \in Run : runs[q].dest \in Dest
    BY RunRows DEF TypeOK
  <1>3. OneActive'
    BY <1>1 DEF OneActive, ActiveKept
  <1>4. QueuedInv'
    BY ScheduleTold
  <1>5. BatchInv'
    BY <1>1 DEF BatchInv, AtWork, NoJob
  <1>6. CountInv'
    <2> SUFFICES ASSUME NEW q \in Run, runs'[q].status \in Active, q \notin disturbed PROVE Counted(q)'
      BY DEF CountInv
    <2>1. q # r /\ runs'[q] = runs[q]
      BY <1>1 DEF Active, Terminal
    <2>2. PICK d \in Dest : d = runs[q].dest /\ d = runs'[q].dest
      BY <1>2, <2>1
    <2>3. ObjectsNeedingWork(d, q)' = ObjectsNeedingWork(d, q)
      BY <2>1, <2>2
    <2>4. ObjectsNeedingWork(runs[q].dest, q)' = ObjectsNeedingWork(d, q)'
      BY <2>2, WorkOfRun
    <2>5. QED
      BY <2>1, <2>2, <2>3, <2>4 DEF CountInv, Counted
  <1>7. DoneInv'
    <2>1. ASSUME NEW q \in Run, runs'[q].status = "completed", q \notin disturbed,
                 NEW o \in ActiveObjects, NEW d \in Dest, d = runs'[q].dest
          PROVE  Settled(d, o)'
      <3>1. CASE q = r
        BY <1>1, <2>1, <3>1
      <3>2. CASE q # r
        BY <1>1, <2>1, <3>2 DEF DoneInv, Untouched
      <3>3. QED
        BY <3>1, <3>2
    <2>2. \A q \in Run : runs'[q].dest \in Dest
      BY <1>1, <1>2
    <2>3. QED
      BY <2>1, <2>2 DEF DoneInv, ActiveObjects, Settled
  <1>8. QED
    BY <1>3, <1>4, <1>5, <1>6, <1>7

\* A run that ends with its work as it was.
LEMMA EndQuietly ==
    ASSUME TransfersInv, NEW r \in Run, runs[r].status \in Active, NEW row, row.dest = runs[r].dest,
           NEW status \in Terminal, EndRun(r, row, status), UNCHANGED <<etag, ledger, delivered, disturbed>>,
           status = "completed" => ObjectsNeedingWork(runs[r].dest, r) = {}
    PROVE  WorkInv'
  <1>1. runs[r].dest \in Dest
    BY RunRows DEF TransfersInv, BackupsInv, TypeOK
  <1>2. status = "completed" => \A o \in ActiveObjects : Settled(runs[r].dest, o)
    BY <1>1, NothingLeftToTry DEF TransfersInv, BackupsInv
  <1>3. \A d \in Dest, q \in Run : ObjectsNeedingWork(d, q)' = ObjectsNeedingWork(d, q)
    BY DEF ObjectsNeedingWork, NeedingWork, CopiedAtCurrent, Exhausted, TriedBy, ActiveObjects
  <1>4. \A d \in Dest, o \in ActiveObjects : Settled(d, o) => Settled(d, o)'
    BY DEF Settled
  <1>5. QED
    BY <1>2, <1>3, <1>4, EndWork

\* Steps that change no object and no line of the ledger.
LEMMA QuietWork ==
    ASSUME UNCHANGED <<etag, ledger, disturbed>>, TypeOK,
           delivered' = delivered \/ \A d \in Dest, o \in Object : delivered[d][o] \subseteq delivered'[d][o]
    PROVE  WorkKept
  <1>1. \A d \in Dest, q \in Run : ObjectsNeedingWork(d, q)' = ObjectsNeedingWork(d, q)
    BY DEF ObjectsNeedingWork, NeedingWork, CopiedAtCurrent, Exhausted, TriedBy, ActiveObjects
  <1>2. \A d \in Dest, o \in Object : Settled(d, o) => Settled(d, o)'
    BY DEF Settled
  <1>3. QED
    BY <1>1, <1>2 DEF WorkKept

-----------------------------------------------------------------------------
(***************************************************************************)
(* The worker: batches, preparations, and what it drops or lands.          *)
(***************************************************************************)

LEMMA ListWork ==
    ASSUME TransfersInv, NEW r \in Run, runs[r].status \in Active, NEW row \in RunRow, row.status \in Active,
           row.dest = runs[r].dest, row.scheduled = runs[r].scheduled, row.remaining = runs[r].remaining,
           NEW line, List(r, row, line), UNCHANGED <<etag, ledger, delivered, disturbed>>
    PROVE  WorkInv'
  <1> DEFINE todo == Batch(row.dest, r)
  <1>1. CASE todo = {} /\ Idle(row)
    <2>1. EndRun(r, row, "completed")
      BY <1>1 DEF List
    <2>2. ObjectsNeedingWork(runs[r].dest, r) = {}
      BY <1>1, EmptyBatch
    <2>3. QED
      BY <2>1, <2>2, EndQuietly DEF Terminal
  <1>2. CASE ~(todo = {} /\ Idle(row))
    <2>1. /\ runs' = [runs EXCEPT ![r] = row] /\ schedule' = schedule /\ restarts' = restarts
          /\ \/ job' = NoJob
             \/ job'.step = "copying" /\ job'.run = r /\ job'.todo = todo
      BY <1>2 DEF List
    <2>2. TypeOK /\ BackupsInv /\ OneActive /\ CountInv /\ DoneInv /\ QueuedInv
      BY DEF TransfersInv, BackupsInv, WorkInv
    <2>3. ActiveKept /\ CompletedKept /\ ScheduledKept
      BY <2>1, <2>2, RowKept
    <2>4. WorkKept
      BY <2>2, QuietWork
    <2>5. OneActive' /\ CountInv' /\ DoneInv'
      BY <2>2, <2>3, <2>4, TablesFrame
    <2>6. QueuedInv'
      BY <2>1, <2>2, <2>3, QueuedFrame DEF TypeOK
    <2>7. BatchInv'
      <3>1. CASE job' = NoJob
        BY <3>1 DEF BatchInv, AtWork, NoJob
      <3>2. CASE job'.step = "copying" /\ job'.run = r /\ job'.todo = todo
        <4>1. Row'.dest = row.dest
          BY <2>1, <2>2, <3>2 DEF Row, TypeOK
        <4>2. \A p \in job'.todo : /\ p[1] \in NeedingWork(row.dest) /\ p[1] \notin TriedBy(row.dest, r)
                                   /\ etag[p[1]] = p[2]
          BY <3>2, BatchIsWanted DEF ObjectsNeedingWork
        <4>3. PICK d : d = row.dest
          OBVIOUS
        <4>4. /\ NeedingWork(Row.dest)' = NeedingWork(d)' /\ TriedBy(Row.dest, job.run)' = TriedBy(d, r)'
          BY <3>2, <4>1, <4>3 DEF NeedingWork, CopiedAtCurrent, Exhausted, TriedBy, ActiveObjects
        <4>5. NeedingWork(d)' = NeedingWork(d) /\ TriedBy(d, r)' = TriedBy(d, r)
          BY SameWork
        <4>6. \A p \in job'.todo : p[1] \in NeedingWork(Row.dest)' /\ p[1] \notin TriedBy(Row.dest, job.run)'
          BY <4>2, <4>3, <4>4, <4>5
        <4>7. QED
          BY <4>2, <4>6 DEF BatchInv
      <3>3. QED
        BY <2>1, <3>1, <3>2
    <2>8. QED
      BY <2>5, <2>6, <2>7 DEF WorkInv
  <1>3. QED
    BY <1>1, <1>2

LEMMA BeginWork ==
    ASSUME TransfersInv, NEW r \in Run, runs[r].status \in Active, Begin(r),
           UNCHANGED <<etag, ledger, delivered, disturbed>>
    PROVE  WorkInv'
  <1> DEFINE row == [runs[r] EXCEPT !.status = "running"]
             line == IF runs[r].status = "queued" THEN Touched(r) ELSE turns
  <1>1. TypeOK /\ BackupsInv /\ OneActive /\ CountInv /\ DoneInv /\ QueuedInv /\ BatchInv
    BY DEF TransfersInv, BackupsInv, WorkInv
  <1>2. /\ row \in RunRow /\ row.status = "running" /\ row.status \in Active /\ row.dest = runs[r].dest
        /\ row.scheduled = runs[r].scheduled /\ row.remaining = runs[r].remaining
    <2>1. runs[r] \in RunRow
      BY <1>1 DEF TypeOK
    <2>2. "running" \in Active
      BY DEF Active
    <2>3. QED
      BY <2>1, <2>2, RunRows, RowFields
  <1> HIDE DEF row, line
  <1>3. CASE runs[r].status = "cancel_requested"
    <2>1. EndRun(r, runs[r], "cancelled")
      BY <1>3 DEF Begin
    <2>2. QED
      BY <2>1, EndQuietly DEF Terminal
  <1>4. CASE runs[r].status # "cancel_requested" /\ row.prepared
    <2>1. List(r, row, line)
      BY <1>4 DEF Begin, row, line
    <2>2. QED
      BY <1>2, <2>1, ListWork
  <1>5. CASE runs[r].status # "cancel_requested" /\ ~row.prepared
    <2>1. /\ runs' = [runs EXCEPT ![r] = row] /\ schedule' = schedule /\ restarts' = restarts
          /\ job' = [NoJob EXCEPT !.step = "preparing", !.run = r]
      BY <1>5 DEF Begin, row
    <2>2. ActiveKept /\ CompletedKept /\ ScheduledKept /\ NoNewRun
      BY <1>1, <1>2, <2>1, RowKept
    <2>3. WorkKept
      BY <1>1, QuietWork
    <2>4. job'.todo = {}
      BY <2>1 DEF NoJob
    <2>5. BatchInv'
      BY <2>4 DEF BatchInv
    <2>6. QueuedInv'
      BY <1>1, <2>1, <2>2, QueuedFrame DEF TypeOK
    <2>7. QED
      BY <1>1, <2>2, <2>3, <2>5, <2>6, TablesFrame DEF WorkInv
  <1>6. QED
    BY <1>3, <1>4, <1>5

LEMMA ClaimWork ==
    ASSUME TransfersInv, Claim \/ ClaimFails
    PROVE  WorkInv'
  <1>1. UNCHANGED <<etag, ledger, delivered, disturbed>>
    BY DEF Claim, ClaimFails
  <1>2. \A r \in NextJob : r \in Run /\ runs[r].status \in Active
    BY DEF NextJob, ActiveRuns
  <1>3. CASE Claim
    BY <1>1, <1>2, <1>3, BeginWork DEF Claim
  <1>4. CASE ClaimFails
    BY <1>1, <1>2, <1>4, EndQuietly DEF ClaimFails, Terminal
  <1>5. QED
    BY <1>3, <1>4

LEMMA PreparationWork ==
    ASSUME TransfersInv, Prepare \/ PrepareFails \/ DestinationUnavailable
    PROVE  WorkInv'
  <1>1. job.step # "idle" /\ Row.status \in Active /\ UNCHANGED <<etag, ledger, delivered, disturbed>>
    BY DEF Prepare, PrepareFails, DestinationUnavailable, InHand
  <1>2. job.run \in Run /\ Row \in RunRow /\ Row = runs[job.run]
    BY <1>1, RowInHand DEF TransfersInv, Row
  <1>3. CASE Prepare
    <2> DEFINE row == [Row EXCEPT !.prepared = TRUE]
    <2>1. /\ row \in RunRow /\ row.status = Row.status /\ row.dest = Row.dest
          /\ row.scheduled = Row.scheduled /\ row.remaining = Row.remaining
      BY <1>2, RunRows, RowFields
    <2>2. List(job.run, row, Touched(job.run))
      BY <1>3 DEF Prepare
    <2> HIDE DEF row
    <2>3. QED
      BY <1>1, <1>2, <2>1, <2>2, ListWork
  <1>4. CASE PrepareFails \/ DestinationUnavailable
    <2>1. EndRun(job.run, Row, "failed")
      BY <1>4 DEF PrepareFails, DestinationUnavailable
    <2>2. QED
      BY <1>1, <1>2, <2>1, EndQuietly DEF Terminal
  <1>5. QED
    BY <1>3, <1>4

\* The batch is dropped, or one of it lands.
LEMMA RunsAsTheyWere ==
    ASSUME TypeOK, runs' = runs
    PROVE  /\ ActiveKept /\ CompletedKept /\ ScheduledKept /\ NoNewRun
           /\ \A q \in Run : runs'[q].status \in Active => runs[q].status \in Active
  BY DEF ActiveKept, CompletedKept, ScheduledKept, NoNewRun

LEMMA DropWork ==
    ASSUME TransfersInv, Orphaned \/ Restart
    PROVE  WorkInv'
  <1>1. TypeOK /\ BackupsInv /\ OneActive /\ CountInv /\ DoneInv /\ QueuedInv
    BY DEF TransfersInv, BackupsInv, WorkInv
  <1>2. /\ UNCHANGED <<etag, ledger, delivered, disturbed, runs, schedule>> /\ job' = NoJob
        /\ restarts' \in Nat /\ restarts <= restarts'
    BY <1>1 DEF Orphaned, Restart, EndProcess, tables, bounds, TypeOK
  <1>3. BatchInv'
    BY <1>2 DEF BatchInv, AtWork, NoJob
  <1>4. QED
    BY <1>1, <1>2, <1>3, RunsAsTheyWere, QuietWork, TablesFrame, QueuedFrame DEF WorkInv

LEMMA LandWork ==
    ASSUME TransfersInv, Land
    PROVE  WorkInv'
  <1>1. TypeOK /\ BackupsInv /\ OneActive /\ CountInv /\ DoneInv /\ QueuedInv /\ BatchInv
    BY DEF TransfersInv, BackupsInv, WorkInv
  <1>2. /\ UNCHANGED <<etag, ledger, disturbed, runs, schedule, restarts>>
        /\ job' = [job EXCEPT !.step = "landed"]
    BY DEF Land, bounds
  <1>3. WorkKept
    <2>1. PICK p \in Current : delivered' = [delivered EXCEPT ![Row.dest][p[1]] = @ \cup {p[2]}]
      BY DEF Land
    <2>2. \A d \in Dest, o \in Object : delivered[d][o] \subseteq delivered'[d][o]
      BY <1>1, <2>1 DEF TypeOK
    <2>3. QED
      BY <1>1, <1>2, <2>2, QuietWork
  <1>4. BatchInv'
    <2>1. job \in Job
      BY <1>1 DEF TypeOK
    <2>2. job'.run = job.run /\ job'.todo = job.todo /\ job.step # "idle"
      BY <1>2, <2>1 DEF Job, Land, InHand
    <2>3. Row' = Row /\ (AtWork' => AtWork) /\ (Untouched(Row.dest)' => Untouched(Row.dest))
      BY <1>2, <2>2 DEF Row, AtWork, Untouched
    <2>4. TriedBy(Row.dest, job.run)' = TriedBy(Row.dest, job.run) /\ NeedingWork(Row.dest)' = NeedingWork(Row.dest)
      BY <1>2, <2>2, <2>3 DEF TriedBy, NeedingWork, CopiedAtCurrent, Exhausted, ActiveObjects
    <2>5. QED
      BY <1>1, <1>2, <2>2, <2>3, <2>4 DEF BatchInv
  <1>5. QED
    BY <1>1, <1>2, <1>3, <1>4, RunsAsTheyWere, TablesFrame, QueuedFrame DEF WorkInv, TypeOK

-----------------------------------------------------------------------------
(***************************************************************************)
(* Marks.                                                                  *)
(***************************************************************************)

\* The line that is written for an object takes it off the work of its run.
LEMMA LineWritten ==
    ASSUME NEW d \in Dest, NEW r \in Run, NEW o \in Object, NEW e, etag' = etag,
           \A c \in Dest, x \in Object : c # d \/ x # o => ledger'[c][x] = ledger[c][x],
           ledger'[d][o].status \in {"copied", "failed"}, ledger'[d][o].etag = e, ledger'[d][o].by = r
    PROVE  /\ \A c \in Dest, q \in Run : c # d => ObjectsNeedingWork(c, q)' = ObjectsNeedingWork(c, q)
           /\ \A x \in Object \ {o} : (x \in NeedingWork(d)') = (x \in NeedingWork(d))
           /\ \A x \in Object \ {o} : (x \in TriedBy(d, r)') = (x \in TriedBy(d, r))
           /\ etag[o] = e => ObjectsNeedingWork(d, r)' = ObjectsNeedingWork(d, r) \ {o}
  <1>1. \A c \in Dest, q \in Run : c # d => ObjectsNeedingWork(c, q)' = ObjectsNeedingWork(c, q)
    BY SameWork
  <1>2. /\ \A x \in Object \ {o} : (x \in NeedingWork(d)') = (x \in NeedingWork(d))
        /\ \A x \in Object \ {o} : (x \in TriedBy(d, r)') = (x \in TriedBy(d, r))
    BY DEF NeedingWork, CopiedAtCurrent, Exhausted, TriedBy, ActiveObjects
  <1>3. etag[o] = e => o \notin ObjectsNeedingWork(d, r)'
    BY DEF ObjectsNeedingWork, NeedingWork, CopiedAtCurrent, TriedBy, ActiveObjects
  <1>4. ObjectsNeedingWork(d, r)' \subseteq Object /\ ObjectsNeedingWork(d, r) \subseteq Object
    BY DEF ObjectsNeedingWork, NeedingWork, ActiveObjects
  <1>5. \A x \in Object \ {o} : (x \in ObjectsNeedingWork(d, r)') = (x \in ObjectsNeedingWork(d, r))
    BY <1>2 DEF ObjectsNeedingWork
  <1>6. QED
    BY <1>1, <1>2, <1>3, <1>4, <1>5

\* What the run in hand has still to do when nothing disturbs it.
LEMMA MarkWork ==
    ASSUME TransfersInv, LedgerTruthful', NEW p \in Current, NEW status \in {"copied", "failed"}, Mark(p, status),
           Row.status \in Active, job.step = IF status = "copied" THEN "landed" ELSE "copying",
           UNCHANGED <<kind, etag, delivered, events, disturbed>>
    PROVE  WorkInv'
  <1> DEFINE row == [Row EXCEPT !.remaining = Less(@)]
             rest == job.todo \ {p}
             reached == job.reached \/ status = "copied"
  <1>1. TypeOK /\ BackupsInv /\ OneActive /\ CountInv /\ DoneInv /\ QueuedInv /\ BatchInv /\ AtWork
    BY DEF TransfersInv, BackupsInv, WorkInv, AtWork
  <1>2. PICK r \in Run, d \in Dest, o \in Object :
           /\ r = job.run /\ Row = runs[r] /\ d = runs[r].dest /\ o = p[1]
           /\ Row \in RunRow /\ p \in job.todo /\ runs[r].status \in Active
    <2>1. job.run \in Run /\ Row \in RunRow /\ Row.dest \in Dest /\ Row = runs[job.run]
      BY <1>1, RowInHand DEF Row, AtWork
    <2>2. p \in job.todo /\ p[1] \in Object
      BY <1>1 DEF Current, TypeOK, Job
    <2>3. QED
      BY <2>1, <2>2
  <1>3. /\ row \in RunRow /\ row.status = runs[r].status /\ row.dest = d
        /\ row.scheduled = runs[r].scheduled /\ row.remaining = Less(runs[r].remaining)
    BY <1>2, RunRows, RowFields
  <1> HIDE DEF row
  <1>4. CASE etag[o] = Deleted
    <2>1. EndRun(r, runs[r], "failed") /\ UNCHANGED ledger
      BY <1>2, <1>4 DEF Mark
    <2>2. QED
      BY <1>2, <2>1, EndQuietly DEF Terminal
  <1>5. CASE etag[o] # Deleted
    <2>1. PICK e : e = p[2] /\ ledger' = [ledger EXCEPT ![d][o] = Entry(@, status, e)]
      BY <1>2, <1>5 DEF Mark, CopiedEtag
    <2>2. /\ \A c \in Dest, x \in Object : c # d \/ x # o => ledger'[c][x] = ledger[c][x]
          /\ ledger'[d][o].status = status /\ ledger'[d][o].etag = p[2]
          /\ \A c \in Dest, q \in Run : c # d => ObjectsNeedingWork(c, q)' = ObjectsNeedingWork(c, q)
          /\ \A x \in Object \ {o} : (x \in NeedingWork(d)') = (x \in NeedingWork(d))
          /\ \A x \in Object \ {o} : (x \in TriedBy(d, r)') = (x \in TriedBy(d, r))
          /\ etag[o] = p[2] => ObjectsNeedingWork(d, r)' = ObjectsNeedingWork(d, r) \ {o}
      <3>1. /\ \A c \in Dest, x \in Object : c # d \/ x # o => ledger'[c][x] = ledger[c][x]
            /\ ledger'[d][o] = Entry(ledger[d][o], status, e)
        BY <1>1, <1>2, <2>1 DEF TypeOK
      <3>2. ledger'[d][o].status = status /\ ledger'[d][o].etag = e /\ ledger'[d][o].by = r
        BY <1>2, <3>1 DEF Entry
      <3>3. /\ \A c \in Dest, q \in Run : c # d => ObjectsNeedingWork(c, q)' = ObjectsNeedingWork(c, q)
            /\ \A x \in Object \ {o} : (x \in NeedingWork(d)') = (x \in NeedingWork(d))
            /\ \A x \in Object \ {o} : (x \in TriedBy(d, r)') = (x \in TriedBy(d, r))
            /\ etag[o] = e => ObjectsNeedingWork(d, r)' = ObjectsNeedingWork(d, r) \ {o}
        BY <3>1, <3>2, LineWritten
      <3>4. QED
        BY <2>1, <3>1, <3>2, <3>3
    <2>3. \A c \in Dest, x \in ActiveObjects : Untouched(c) /\ Settled(c, x) => Settled(c, x)'
      <3> SUFFICES ASSUME NEW c \in Dest, NEW x \in ActiveObjects, Untouched(c), Settled(c, x)
                   PROVE  Settled(c, x)'
        OBVIOUS
      <3>1. CASE c # d \/ x # o
        BY <2>2, <3>1 DEF Settled, ActiveObjects
      <3>2. CASE c = d /\ x = o /\ status = "failed"
        BY <2>2, <3>2 DEF Settled
      <3>3. CASE c = d /\ x = o /\ status = "copied"
        <4>1. etag[o] = p[2] /\ p[2] \in delivered[d][o]
          BY <1>1, <1>2, <3>3 DEF BatchInv, BackupsInv, JobInv
        <4>2. QED
          BY <3>3, <4>1 DEF Settled
      <3>4. QED
        BY <3>1, <3>2, <3>3
    <2>4. \A c \in Dest, q \in Run \ {r} : runs[q].status \in Active /\ runs[q].dest = c =>
             ObjectsNeedingWork(c, q)' = ObjectsNeedingWork(c, q)
      BY <1>1, <1>2, <2>2 DEF OneActive
    <2>5. ASSUME r \notin disturbed
          PROVE  /\ Cardinality(ObjectsNeedingWork(d, r)') \in Nat
                 /\ Cardinality(ObjectsNeedingWork(d, r)') <= row.remaining
      <3> DEFINE work == ObjectsNeedingWork(d, r)
      <3>1. o \in work /\ etag[o] = p[2] /\ Cardinality(work) <= runs[r].remaining
        <4>1. Untouched(d)
          BY <1>2, <2>5 DEF Untouched, Active
        <4>2. QED
          BY <1>1, <1>2, <2>5, <4>1 DEF BatchInv, CountInv, Counted, ObjectsNeedingWork
      <3>2. IsFiniteSet(work) /\ Cardinality(work) \in Nat
        BY WorkIsFinite
      <3>3. ObjectsNeedingWork(d, r)' = work \ {o}
        BY <2>2, <3>1
      <3> HIDE DEF work
      <3>4. Cardinality(work \ {o}) = Cardinality(work) - 1 /\ Cardinality(work \ {o}) \in Nat
        BY <3>1, <3>2, FS_RemoveElement, FS_CardinalityType
      <3>5. runs[r].remaining \in Nat
        BY <1>2, RunRows
      <3>6. Cardinality(work \ {o}) <= Less(runs[r].remaining)
        BY <3>1, <3>2, <3>4, <3>5 DEF Less
      <3>7. QED
        BY <1>3, <3>3, <3>4, <3>6
    <2>6. ASSUME NEW outcome \in {"cancelled", "completed"}, EndRun(r, row, outcome),
                 outcome = "completed" => row.remaining = 0
          PROVE  WorkInv'
      <3>1. outcome = "completed" /\ r \notin disturbed =>
               \A c \in Dest, x \in ActiveObjects : c = runs[r].dest => Settled(c, x)'
        <4> SUFFICES ASSUME outcome = "completed", r \notin disturbed, NEW x \in ActiveObjects
                     PROVE  Settled(d, x)'
          BY <1>2
        <4>1. ObjectsNeedingWork(d, r)' = {}
          <5> DEFINE left == ObjectsNeedingWork(d, r)'
          <5>1. IsFiniteSet(left) /\ Cardinality(left) = 0
            <6>1. left \in SUBSET Object
              BY DEF ObjectsNeedingWork, NeedingWork, ActiveObjects
            <6>2. Cardinality(left) \in Nat /\ Cardinality(left) <= row.remaining /\ row.remaining = 0
              BY <2>5, <2>6
            <6> HIDE DEF left
            <6>3. IsFiniteSet(left)
              BY <6>1, FS_Subset
            <6>4. Cardinality(left) = 0
              BY <6>2
            <6>5. QED
              BY <6>3, <6>4
          <5> HIDE DEF left
          <5>2. left = {}
            BY <5>1, FS_EmptySet
          <5>3. QED
            BY <5>2 DEF left
        <4>2. QED
          BY <4>1 DEF ObjectsNeedingWork, NeedingWork, CopiedAtCurrent, Exhausted, TriedBy, ActiveObjects,
                      LedgerTruthful, Settled
      <3>2. row.dest = runs[r].dest /\ outcome \in Terminal
        BY <1>2, <1>3 DEF Terminal
      <3>3. QED
        BY <1>2, <2>3, <2>4, <2>6, <3>1, <3>2, EndWork
    <2>7. ASSUME runs' = [runs EXCEPT ![r] = row], UNCHANGED <<schedule, restarts>>,
                 job'.step = "idle" \/ (job'.run = r /\ job'.todo = rest)
          PROVE  WorkInv'
      <3>1. /\ CompletedKept /\ ScheduledKept /\ NoNewRun
            /\ \A q \in Run : runs'[q].status \in Active => runs[q].status \in Active
        BY <1>1, <1>2, <1>3, <2>7, RowKept
      <3>2. \A q \in Run : runs[q].dest \in Dest
        BY <1>1, RunRows DEF TypeOK
      <3>3. OneActive'
        <4>1. \A q \in Run : runs'[q].status \in Active =>
                 runs[q].status \in Active /\ runs'[q].dest = runs[q].dest
          BY <3>1 DEF NoNewRun, Active
        <4>2. QED
          BY <1>1, <4>1 DEF OneActive
      <3>4. QueuedInv'
        BY <1>1, <2>7, <3>1, QueuedFrame DEF TypeOK
      <3>5. CountInv'
        <4> SUFFICES ASSUME NEW q \in Run, runs'[q].status \in Active, q \notin disturbed PROVE Counted(q)'
          BY DEF CountInv
        <4>1. CASE q = r
          <5>1. runs'[q] = row
            BY <1>1, <2>7, <4>1 DEF TypeOK
          <5>2. runs'[q].dest = d /\ runs'[q].remaining = row.remaining
            BY <1>3, <5>1
          <5>3. ObjectsNeedingWork(runs[q].dest, q)' = ObjectsNeedingWork(d, r)'
            BY <4>1, <5>2, WorkOfRun
          <5>4. QED
            BY <2>5, <4>1, <5>2, <5>3 DEF Counted
        <4>2. CASE q # r
          <5>1. runs'[q] = runs[q] /\ runs[q].status \in Active
            BY <2>7, <3>1, <4>2
          <5>2. PICK c \in Dest : c = runs[q].dest /\ c = runs'[q].dest
            BY <3>2, <5>1
          <5>3. ObjectsNeedingWork(c, q)' = ObjectsNeedingWork(c, q)
            BY <2>4, <4>2, <5>1, <5>2
          <5>4. ObjectsNeedingWork(runs[q].dest, q)' = ObjectsNeedingWork(c, q)'
            BY <5>2, WorkOfRun
          <5>5. QED
            BY <1>1, <5>1, <5>2, <5>3, <5>4 DEF CountInv, Counted
        <4>3. QED
          BY <4>1, <4>2
      <3>6. DoneInv'
        <4>1. ASSUME NEW q \in Run, runs'[q].status = "completed", q \notin disturbed,
                     NEW x \in ActiveObjects, NEW c \in Dest, c = runs[q].dest
              PROVE  Settled(c, x)' /\ runs'[q].dest = c
          <5>1. Settled(c, x) /\ Untouched(c) /\ runs'[q].dest = c
            BY <1>1, <3>1, <4>1 DEF DoneInv, CompletedKept, Untouched
          <5>2. QED
            BY <2>3, <5>1
        <4>2. ASSUME NEW q \in Run, runs'[q].status = "completed", q \notin disturbed, NEW x \in ActiveObjects
              PROVE  Settled(runs[q].dest, x)'
          <5>1. PICK c \in Dest : c = runs[q].dest
            BY <3>2
          <5>2. Settled(c, x)' /\ runs'[q].dest = c
            BY <4>1, <4>2, <5>1
          <5>3. QED
            BY <5>2 DEF Settled
        <4>3. ActiveObjects' = ActiveObjects
          BY DEF ActiveObjects
        <4>4. QED
          BY <4>2, <4>3 DEF DoneInv
      <3>7. BatchInv'
        <4>1. CASE job'.step = "idle"
          BY <4>1 DEF BatchInv, AtWork
        <4>2. CASE job'.run = r /\ job'.todo = rest
          <5>1. Row' = row /\ Row'.dest = d
            BY <1>1, <1>3, <2>7, <4>2 DEF Row, TypeOK
          <5>2. \A s \in rest : s \in job.todo /\ s[1] \in Object \ {o}
            BY <1>1, <1>2 DEF BackupsInv, JobInv, TypeOK, Job
          <5>3. \A s \in job.todo : /\ s[1] \notin TriedBy(d, r)
                                    /\ Untouched(d) => etag[s[1]] = s[2]
                                    /\ r \notin disturbed => s[1] \in NeedingWork(d)
            BY <1>1, <1>2 DEF BatchInv
          <5>4. Untouched(d)' => Untouched(d)
            BY <3>1 DEF Untouched, NoNewRun
          <5>5. \A s \in rest : /\ ~(s[1] \in TriedBy(d, r)')
                                /\ Untouched(d)' => etag[s[1]] = s[2]
                                /\ r \notin disturbed => s[1] \in NeedingWork(d)'
            BY <2>2, <5>2, <5>3, <5>4
          <5>6. /\ TriedBy(Row.dest, job.run)' = TriedBy(d, r)' /\ NeedingWork(Row.dest)' = NeedingWork(d)'
                /\ Untouched(Row.dest)' = Untouched(d)'
            BY <4>2, <5>1 DEF TriedBy, NeedingWork, CopiedAtCurrent, Exhausted, ActiveObjects, Untouched
          <5>7. QED
            BY <4>2, <5>5, <5>6 DEF BatchInv
        <4>3. QED
          BY <2>7, <4>1, <4>2
      <3>8. QED
        BY <3>3, <3>4, <3>5, <3>6, <3>7 DEF WorkInv
    <2>8. CASE rest = {}
      <3>1. AfterBatch(row)
        BY <1>2, <1>5, <2>8 DEF Mark, row
      <3>2. CASE row.status = "cancel_requested"
        <4>1. EndRun(r, row, "cancelled")
          BY <1>2, <3>1, <3>2 DEF AfterBatch
        <4>2. QED
          BY <2>6, <4>1
      <3>3. CASE row.status # "cancel_requested" /\ row.remaining = 0
        <4>1. EndRun(r, row, "completed")
          BY <1>2, <3>1, <3>3 DEF AfterBatch
        <4>2. QED
          BY <2>6, <3>3, <4>1
      <3>4. CASE row.status # "cancel_requested" /\ row.remaining # 0
        <4>1. runs' = [runs EXCEPT ![r] = row] /\ UNCHANGED <<schedule, restarts>>
          BY <1>2, <3>1, <3>4 DEF AfterBatch
        <4>2. job'.step = "idle"
          BY <1>2, <3>1, <3>4 DEF AfterBatch, NoJob
        <4>3. QED
          BY <2>7, <4>1, <4>2
      <3>5. QED
        BY <3>2, <3>3, <3>4
    <2>9. CASE rest # {}
      <3>1. /\ runs' = [runs EXCEPT ![r] = row] /\ UNCHANGED <<schedule, restarts>>
            /\ job' = [job EXCEPT !.step = "copying", !.todo = rest, !.reached = reached]
        BY <1>2, <1>5, <2>9 DEF Mark, row
      <3>2. job'.run = r /\ job'.todo = rest
        BY <1>1, <1>2, <3>1 DEF TypeOK, Job
      <3>3. QED
        BY <2>7, <3>1, <3>2
    <2>10. QED
      BY <2>8, <2>9
  <1>6. QED
    BY <1>4, <1>5

-----------------------------------------------------------------------------
(***************************************************************************)
(* Writes, and the runs that people and schedules queue.                   *)
(***************************************************************************)

\* A write disturbs every run there is; nothing is promised of those.
LEMMA ObjectWork ==
    ASSUME TransfersInv, NEW o \in Object, NEW c \in Content, WriteObject(o, c) \/ DeleteObject(o)
    PROVE  WorkInv'
  <1>1. TypeOK /\ BackupsInv /\ OneActive /\ QueuedInv /\ BatchInv
    BY DEF TransfersInv, BackupsInv, WorkInv
  <1>2. RecordWrite
    BY DEF WriteObject, DeleteObject
  <1>3. /\ UNCHANGED <<runs, job, restarts>>
        /\ disturbed' = disturbed \cup {q \in Run : runs[q].status # "none"}
        /\ schedule' = [d \in Dest |-> [schedule[d] EXCEPT !.unseen = TRUE]]
    BY <1>2 DEF RecordWrite
  <1>4. \A q \in Run : runs'[q].status # "none" => q \in disturbed'
    BY <1>3
  <1>5. OneActive' /\ CountInv' /\ DoneInv'
    BY <1>1, <1>3, <1>4 DEF OneActive, CountInv, DoneInv, Active
  <1>6. QueuedInv'
    <2>1. \A d \in Dest : schedule'[d].outcome = schedule[d].outcome
      BY <1>1, <1>3 DEF TypeOK, ScheduleRow
    <2>2. QED
      BY <1>1, <1>3, <2>1 DEF QueuedInv
  <1>7. BatchInv'
    <2>1. \A d \in Dest, x \in Object : ledger'[d][x] \in {ledger[d][x], NoEntry}
      BY <1>1 DEF WriteObject, DeleteObject, TypeOK
    <2>2. ASSUME NEW d \in Dest, NEW q \in Run PROVE TriedBy(d, q)' \subseteq TriedBy(d, q)
      <3>1. NoEntry.status # "failed"
        BY DEF NoEntry
      <3>2. ASSUME NEW x \in Object, x \in TriedBy(d, q)' PROVE x \in TriedBy(d, q)
        <4>1. ledger'[d][x].status = "failed" /\ ledger'[d][x].by = q
          BY <3>2 DEF TriedBy
        <4>2. ledger'[d][x] = ledger[d][x]
          BY <2>1, <3>1, <4>1
        <4>3. QED
          BY <4>1, <4>2 DEF TriedBy
      <3>3. TriedBy(d, q)' \subseteq Object
        BY DEF TriedBy
      <3>4. QED
        BY <3>2, <3>3
    <2> SUFFICES ASSUME AtWork' PROVE BatchInv'
      BY DEF BatchInv
    <2>3. AtWork /\ Row' = Row /\ job.run \in Run /\ Row.dest \in Dest
      BY <1>1, <1>3, RowInHand DEF AtWork, Row
    <2>4. job.run \in disturbed'
      BY <1>3, <1>4, <2>3 DEF AtWork, Row, Active
    <2>5. ~Untouched(Row.dest)'
      BY <1>4 DEF Untouched
    <2>6. PICK d \in Dest, r \in Run : d = Row.dest /\ r = job.run
      BY <2>3
    <2>7. \A p \in job.todo : ~(p[1] \in TriedBy(d, r)')
      BY <1>1, <2>2, <2>3, <2>6 DEF BatchInv
    <2>8. TriedBy(Row.dest, job.run)' = TriedBy(d, r)'
      BY <1>3, <2>3, <2>6 DEF TriedBy
    <2>9. QED
      BY <1>3, <2>4, <2>5, <2>7, <2>8 DEF BatchInv
  <1>8. QED
    BY <1>5, <1>6, <1>7 DEF WorkInv

\* What a new run counts covers what it is going to try.
LEMMA NewCount ==
    ASSUME NEW d \in Dest, NEW r \in Run
    PROVE  /\ Cardinality(ActiveObjects) - Cardinality(CopiedAtCurrent(d)) \in Nat
           /\ Cardinality(ObjectsNeedingWork(d, r))
                 <= Cardinality(ActiveObjects) - Cardinality(CopiedAtCurrent(d))
  <1> DEFINE work == ObjectsNeedingWork(d, r)
             copied == CopiedAtCurrent(d)
             all == ActiveObjects
  <1>1. /\ work \subseteq all \ copied /\ copied \subseteq all
        /\ all \subseteq Object /\ IsFiniteSet(Object)
    BY DEF ObjectsNeedingWork, NeedingWork, CopiedAtCurrent, ActiveObjects
  <1> HIDE DEF work, copied, all
  <1>2. IsFiniteSet(all) /\ IsFiniteSet(copied) /\ IsFiniteSet(all \ copied)
    BY <1>1, FS_Subset, FS_Difference
  <1>3. all \cap copied = copied
    BY <1>1
  <1>4. Cardinality(all \ copied) = Cardinality(all) - Cardinality(copied)
    BY <1>2, <1>3, FS_Difference
  <1>5. Cardinality(work) <= Cardinality(all \ copied)
    BY <1>1, <1>2, FS_Subset
  <1>6. Cardinality(all \ copied) \in Nat
    BY <1>2, FS_CardinalityType
  <1>7. QED
    BY <1>4, <1>5, <1>6 DEF work, copied, all

LEMMA QueueWork ==
    ASSUME TransfersInv, NEW d \in Dest, NEW manual \in BOOLEAN, NEW scheduled \in BOOLEAN,
           ~HasActiveRun(d), QueueRun(d, manual, scheduled),
           UNCHANGED <<etag, ledger, delivered, job, disturbed>>
    PROVE  /\ OneActive' /\ BatchInv' /\ CountInv' /\ DoneInv' /\ ScheduledKept
           /\ \E r \in Run : /\ runs'[r].status \in Active /\ runs'[r].dest = d
                             /\ runs'[r].scheduled = scheduled
  <1>1. TypeOK /\ BackupsInv /\ OneActive /\ QueuedInv /\ BatchInv /\ CountInv /\ DoneInv
    BY DEF TransfersInv, BackupsInv, WorkInv
  <1>2. PICK r \in Run : /\ runs[r].status = "none"
                         /\ runs' = [runs EXCEPT ![r] = NewRun(d, manual, scheduled)]
    BY DEF QueueRun
  <1>3. /\ runs'[r].status = "queued" /\ runs'[r].dest = d /\ runs'[r].scheduled = scheduled
        /\ runs'[r].remaining = Cardinality(ActiveObjects) - Cardinality(CopiedAtCurrent(d))
        /\ \A q \in Run \ {r} : runs'[q] = runs[q]
    BY <1>1, <1>2 DEF NewRun, TypeOK
  <1>4. \A q \in Run : runs[q].status \in Active => q # r /\ runs[q].dest # d
    BY <1>2 DEF HasActiveRun, ActiveRuns, Active
  <1>5. WorkKept
    BY <1>1, QuietWork
  <1>6. OneActive'
    BY <1>1, <1>3, <1>4 DEF OneActive
  <1>7. ScheduledKept
    BY <1>3, <1>4 DEF ScheduledKept
  <1>8. CountInv'
    <2> SUFFICES ASSUME NEW q \in Run, runs'[q].status \in Active, q \notin disturbed PROVE Counted(q)'
      BY DEF CountInv
    <2>1. PICK c \in Dest : c = runs'[q].dest
      <3>1. \A s \in Run : runs[s].dest \in Dest
        BY <1>1, RunRows DEF TypeOK
      <3>2. runs'[q].dest \in Dest
        BY <1>3, <3>1
      <3>3. QED
        BY <3>2
    <2>2. ObjectsNeedingWork(runs[q].dest, q)' = ObjectsNeedingWork(c, q)
      BY <2>1 DEF ObjectsNeedingWork, NeedingWork, CopiedAtCurrent, Exhausted, TriedBy, ActiveObjects
    <2>3. Cardinality(ObjectsNeedingWork(c, q)) <= runs'[q].remaining
      <3>1. CASE q = r
        BY <1>3, <2>1, <3>1, NewCount
      <3>2. CASE q # r
        <4>1. runs'[q] = runs[q] /\ runs[q].dest = c /\ Counted(q)
          BY <1>1, <1>3, <2>1, <3>2 DEF CountInv
        <4>2. QED
          BY <4>1 DEF Counted
      <3>3. QED
        BY <3>1, <3>2
    <2>4. QED
      BY <2>2, <2>3 DEF Counted
  <1>9. DoneInv'
    <2>1. \A q \in Run : runs'[q].status = "completed" => runs'[q] = runs[q]
      BY <1>3
    <2>2. QED
      BY <1>1, <2>1 DEF DoneInv, ActiveObjects, Settled
  <1>10. BatchInv'
    <2> SUFFICES ASSUME AtWork' PROVE BatchInv'
      BY DEF BatchInv
    <2>1. job.run \in Run \ {r}
      BY <1>1, <1>2 DEF AtWork, BackupsInv, JobInv
    <2>2. AtWork /\ Row' = Row /\ Row.dest # d
      BY <1>3, <1>4, <2>1 DEF AtWork, Row
    <2>3. Untouched(Row.dest)' => Untouched(Row.dest)
      BY <1>3, <2>2 DEF Untouched
    <2>4. QED
      BY <1>1, <2>2, <2>3 DEF BatchInv, TriedBy, NeedingWork, CopiedAtCurrent, Exhausted, ActiveObjects
  <1>11. QED
    BY <1>3, <1>6, <1>7, <1>8, <1>9, <1>10 DEF Active

\* The parts of the invariant, and what a queued run leaves of them.
LEMMA WorkParts ==
    ASSUME TransfersInv
    PROVE  /\ BackupsInv /\ TypeOK /\ JobInv /\ schedule \in [Dest -> ScheduleRow]
           /\ OneActive /\ QueuedInv /\ BatchInv /\ CountInv /\ DoneInv
  BY DEF TransfersInv, BackupsInv, WorkInv, TypeOK

\* A queued run, and the schedule that waits for it.
LEMMA QueuedWork ==
    ASSUME TransfersInv, NEW d \in Dest, NEW manual \in BOOLEAN, NEW scheduled \in BOOLEAN,
           ~HasActiveRun(d), QueueRun(d, manual, scheduled),
           UNCHANGED <<etag, ledger, delivered, job, restarts, disturbed>>,
           \A e \in Dest : schedule'[e].outcome = "queued" =>
               schedule[e].outcome = "queued" \/ (e = d /\ scheduled)
    PROVE  WorkInv'
  <1>1. /\ OneActive' /\ BatchInv' /\ CountInv' /\ DoneInv' /\ ScheduledKept
        /\ \E r \in Run : runs'[r].status \in Active /\ runs'[r].dest = d /\ runs'[r].scheduled = scheduled
    BY QueueWork
  <1>2. QueuedInv'
    <2> SUFFICES ASSUME NEW e \in Dest, schedule'[e].outcome = "queued", ~(restarts > 0)
                 PROVE  \E r \in Run : runs'[r].status \in Active /\ runs'[r].dest = e /\ runs'[r].scheduled
      BY DEF QueuedInv
    <2>1. CASE schedule[e].outcome = "queued"
      <3>1. PICK r \in Run : runs[r].status \in Active /\ runs[r].dest = e /\ runs[r].scheduled
        BY <2>1, WorkParts DEF QueuedInv
      <3>2. QED
        BY <1>1, <3>1 DEF ScheduledKept
    <2>2. CASE e = d /\ scheduled
      BY <1>1, <2>2
    <2>3. QED
      BY <2>1, <2>2
  <1>3. QED
    BY <1>1, <1>2 DEF WorkInv

-----------------------------------------------------------------------------
(***************************************************************************)
(* Schedules, accounts and history.                                        *)
(***************************************************************************)

\* Steps that leave the runs as they are and tell no schedule that one is queued.
LEMMA SchedulesWork ==
    ASSUME TransfersInv, UNCHANGED <<etag, ledger, runs, delivered, job, restarts, disturbed>>,
           \A e \in Dest : schedule'[e].outcome = "queued" => schedule[e].outcome = "queued"
    PROVE  WorkInv'
  <1>1. WorkKept
    BY WorkParts, QuietWork
  <1>2. OneActive' /\ CountInv' /\ DoneInv'
    BY <1>1, WorkParts, RunsAsTheyWere, TablesFrame
  <1>3. BatchInv'
    BY <1>1, WorkParts, RunsAsTheyWere, BatchFrame
  <1>4. QueuedInv'
    BY WorkParts, RunsAsTheyWere, QueuedFrame DEF TypeOK
  <1>5. QED
    BY <1>2, <1>3, <1>4 DEF WorkInv

LEMMA AskedWork ==
    ASSUME TransfersInv, NEW d \in Dest, CreateManual(d) \/ RunNow(d)
    PROVE  WorkInv'
  <1>1. UNCHANGED <<etag, ledger, delivered, job, restarts, disturbed>> /\ ~HasActiveRun(d)
    BY DEF CreateManual, RunNow, bounds
  <1>2. CASE CreateManual(d)
    <2>1. QueueRun(d, TRUE, FALSE) /\ schedule' = schedule
      BY <1>2 DEF CreateManual
    <2>2. QED
      BY <1>1, <2>1, QueuedWork
  <1>3. CASE RunNow(d)
    <2>1. QueueRun(d, TRUE, TRUE) /\ schedule' = [schedule EXCEPT ![d] = [schedule[d] EXCEPT !.outcome = "queued"]]
      BY <1>3 DEF RunNow
    <2>2. \A e \in Dest : e # d => schedule'[e] = schedule[e]
      BY <2>1, WorkParts
    <2>3. QED
      BY <1>1, <2>1, <2>2, QueuedWork
  <1>4. QED
    BY <1>2, <1>3

LEMMA CancelWork ==
    ASSUME TransfersInv, NEW r \in Run, RequestCancel(r)
    PROVE  WorkInv'
  <1> DEFINE row == [runs[r] EXCEPT !.status = "cancel_requested"]
  <1>1. /\ runs' = [runs EXCEPT ![r] = row] /\ runs[r].status \in Active
        /\ UNCHANGED <<etag, ledger, schedule, delivered, job, restarts, disturbed>>
    BY DEF RequestCancel, Cancellable, Active, bounds
  <1>2. /\ row \in RunRow /\ row.status = "cancel_requested" /\ row.dest = runs[r].dest
        /\ row.scheduled = runs[r].scheduled /\ row.remaining = runs[r].remaining
    <2>1. runs[r] \in RunRow /\ "cancel_requested" \in Active
      BY WorkParts DEF TypeOK, Active
    <2>2. QED
      BY <2>1, RunRows, RowFields
  <1> HIDE DEF row
  <1>3. row.status \in Active
    BY <1>2 DEF Active
  <1>4. /\ ActiveKept /\ CompletedKept /\ ScheduledKept /\ NoNewRun
        /\ \A q \in Run : runs'[q].status \in Active => runs[q].status \in Active
    BY <1>1, <1>2, <1>3, WorkParts, RowKept
  <1>5. WorkKept
    BY <1>1, WorkParts, QuietWork
  <1>6. OneActive' /\ CountInv' /\ DoneInv'
    BY <1>4, <1>5, WorkParts, TablesFrame
  <1>7. BatchInv'
    BY <1>1, <1>4, <1>5, WorkParts, BatchFrame
  <1>8. QueuedInv'
    BY <1>1, <1>4, WorkParts, QueuedFrame DEF TypeOK
  <1>9. QED
    BY <1>6, <1>7, <1>8 DEF WorkInv

LEMMA EditWork ==
    ASSUME TransfersInv, NEW d \in Dest, NEW f \in Frequency, NEW on \in BOOLEAN,
           CreateSchedule(d, f, on) \/ UpdateSchedule(d, f, on) \/ TestDestination(d)
    PROVE  WorkInv'
  <1>1. UNCHANGED <<etag, ledger, runs, delivered, job, restarts, disturbed>>
    BY DEF CreateSchedule, UpdateSchedule, TestDestination
  <1>2. \/ schedule' = schedule
        \/ schedule' = [schedule EXCEPT ![d] = Fresh(f, on)]
        \/ schedule' = [schedule EXCEPT ![d] = UpdatedRow(schedule[d], f, on)]
    BY DEF CreateSchedule, UpdateSchedule, TestDestination
  <1>3. Fresh(f, on).outcome = "settled" /\ UpdatedRow(schedule[d], f, on).outcome = schedule[d].outcome
    <2>1. schedule[d] \in ScheduleRow
      BY WorkParts
    <2>2. QED
      BY <2>1 DEF Fresh, UpdatedRow, ScheduleRow
  <1>4. \A e \in Dest : schedule'[e].outcome = "queued" => schedule[e].outcome = "queued"
    BY <1>2, <1>3, WorkParts
  <1>5. QED
    BY <1>1, <1>4, SchedulesWork

LEMMA DeleteScheduleWork ==
    ASSUME TransfersInv, NEW d \in Dest, DeleteSchedule(d)
    PROVE  WorkInv'
  <1>1. /\ schedule' = [schedule EXCEPT ![d] = NoSchedule]
        /\ runs' = [r \in Run |-> IF runs[r].dest = d THEN [runs[r] EXCEPT !.scheduled = FALSE] ELSE runs[r]]
        /\ UNCHANGED <<etag, ledger, delivered, job, restarts, disturbed>>
    BY DEF DeleteSchedule
  <1>2. /\ \A q \in Run : /\ runs'[q].status = runs[q].status /\ runs'[q].dest = runs[q].dest
                          /\ runs'[q].remaining = runs[q].remaining
        /\ \A q \in Run : runs[q].dest # d => runs'[q] = runs[q]
    <2>1. \A row \in RunRow : LET new == [row EXCEPT !.scheduled = FALSE]
                              IN  new.status = row.status /\ new.dest = row.dest /\ new.remaining = row.remaining
      BY DEF RunRow
    <2>2. \A q \in Run : runs[q] \in RunRow
      BY WorkParts DEF TypeOK
    <2>3. QED
      BY <1>1, <2>1, <2>2
  <1>3. ActiveKept /\ CompletedKept /\ NoNewRun
    BY <1>2 DEF ActiveKept, CompletedKept, NoNewRun
  <1>4. WorkKept
    BY <1>1, WorkParts, QuietWork
  <1>5. OneActive' /\ CountInv' /\ DoneInv'
    BY <1>3, <1>4, WorkParts, TablesFrame
  <1>6. BatchInv'
    BY <1>1, <1>2, <1>3, <1>4, WorkParts, BatchFrame
  <1>7. QueuedInv'
    <2> SUFFICES ASSUME NEW e \in Dest, schedule'[e].outcome = "queued", ~(restarts > 0)
                 PROVE  \E r \in Run : runs'[r].status \in Active /\ runs'[r].dest = e /\ runs'[r].scheduled
      BY <1>1 DEF QueuedInv
    <2>1. e # d /\ schedule[e].outcome = "queued"
      <3>1. NoSchedule.outcome = "settled"
        BY DEF NoSchedule, Fresh
      <3>2. QED
        BY <1>1, <3>1, WorkParts
    <2>2. PICK r \in Run : runs[r].status \in Active /\ runs[r].dest = e /\ runs[r].scheduled
      BY <2>1, WorkParts DEF QueuedInv
    <2>3. QED
      BY <1>2, <2>1, <2>2
  <1>8. QED
    BY <1>5, <1>6, <1>7 DEF WorkInv

\* What is unlinked takes its runs with it; the others see nothing of it.
LEMMA UnlinkWork ==
    ASSUME TransfersInv, NEW d \in Dest, UnlinkAccount(d)
    PROVE  WorkInv'
  <1>1. /\ schedule' = [schedule EXCEPT ![d] = NoSchedule]
        /\ runs' = [r \in Run |-> IF runs[r].status # "none" /\ runs[r].dest = d
                                  THEN Closed(d, "pruned") ELSE runs[r]]
        /\ ledger' = [ledger EXCEPT ![d] = [o \in Object |-> NoEntry]]
        /\ UNCHANGED <<etag, delivered, job, restarts, disturbed>>
    BY DEF UnlinkAccount
  <1>2. \A q \in Run : /\ runs'[q].dest = runs[q].dest
                       /\ runs[q].dest # d => runs'[q] = runs[q]
                       /\ runs[q].dest = d => runs'[q].status \in {"none", "pruned"}
                       /\ runs'[q].status # "none" => runs[q].status # "none"
    <2>1. Closed(d, "pruned").status = "pruned" /\ Closed(d, "pruned").dest = d
      BY DEF Closed
    <2>2. QED
      BY <1>1, <2>1
  <1>3. \A q \in Run : runs'[q].status \in Active \cup {"completed"} => runs[q].dest # d /\ runs'[q] = runs[q]
    BY <1>2 DEF Active
  <1>4. \A e \in Dest : e # d => ledger'[e] = ledger[e]
    BY <1>1, WorkParts DEF TypeOK
  <1>5. ASSUME NEW e \in Dest, NEW q \in Run, e # d
        PROVE  /\ ObjectsNeedingWork(e, q)' = ObjectsNeedingWork(e, q)
               /\ NeedingWork(e)' = NeedingWork(e) /\ TriedBy(e, q)' = TriedBy(e, q)
               /\ \A o \in Object : Settled(e, o)' = Settled(e, o)
    BY <1>1, <1>4, <1>5 DEF ObjectsNeedingWork, NeedingWork, CopiedAtCurrent, Exhausted, TriedBy,
                            ActiveObjects, Settled
  <1>6. OneActive'
    BY <1>3, WorkParts DEF OneActive
  <1>7. \A q \in Run : runs[q].dest \in Dest
    BY WorkParts, RunRows DEF TypeOK
  <1>8. CountInv'
    <2> SUFFICES ASSUME NEW q \in Run, runs'[q].status \in Active, q \notin disturbed PROVE Counted(q)'
      BY <1>1 DEF CountInv
    <2>1. PICK e \in Dest : e = runs[q].dest /\ runs'[q] = runs[q] /\ e # d
      BY <1>3, <1>7
    <2>2. Cardinality(ObjectsNeedingWork(e, q)) <= runs[q].remaining
      BY <2>1, WorkParts DEF CountInv, Counted
    <2>3. ObjectsNeedingWork(runs[q].dest, q)' = ObjectsNeedingWork(e, q)'
      BY <2>1 DEF ObjectsNeedingWork, NeedingWork, CopiedAtCurrent, Exhausted, TriedBy, ActiveObjects
    <2>4. QED
      BY <1>5, <2>1, <2>2, <2>3 DEF Counted
  <1>9. DoneInv'
    <2> SUFFICES ASSUME NEW q \in Run, runs'[q].status = "completed", q \notin disturbed,
                        NEW o \in Object, o \in ActiveObjects'
                 PROVE  Settled(runs[q].dest, o)'
      BY <1>1 DEF DoneInv, ActiveObjects
    <2>1. PICK e \in Dest : e = runs[q].dest /\ runs'[q] = runs[q] /\ e # d
      BY <1>3, <1>7
    <2>2. o \in ActiveObjects
      BY <1>1 DEF ActiveObjects
    <2>3. Settled(e, o)
      BY <2>1, <2>2, WorkParts DEF DoneInv
    <2>4. Settled(e, o)'
      BY <1>5, <2>1, <2>3
    <2>5. QED
      BY <2>1, <2>4 DEF Settled
  <1>10. BatchInv'
    <2> SUFFICES ASSUME AtWork' PROVE BatchInv'
      BY DEF BatchInv
    <2>1. PICK r \in Run : r = job.run
      BY <1>1, WorkParts DEF AtWork, JobInv
    <2>2. runs'[r] = runs[r] /\ runs[r].dest # d /\ AtWork
      BY <1>1, <1>3, <2>1 DEF AtWork, Row
    <2>3. PICK e \in Dest : e = runs[r].dest /\ e = Row.dest /\ e = Row'.dest /\ e # d
      BY <1>1, <1>7, <2>1, <2>2 DEF Row
    <2>4. Untouched(e)' => Untouched(e)
      BY <1>1, <1>2 DEF Untouched
    <2>5. \A p \in job.todo : /\ p[1] \notin TriedBy(e, r)
                              /\ Untouched(e) => etag[p[1]] = p[2]
                              /\ r \notin disturbed => p[1] \in NeedingWork(e)
      BY <2>1, <2>2, <2>3, WorkParts DEF BatchInv
    <2>6. /\ TriedBy(Row.dest, job.run)' = TriedBy(e, r)' /\ NeedingWork(Row.dest)' = NeedingWork(e)'
          /\ Untouched(Row.dest)' = Untouched(e)'
      BY <1>1, <2>1, <2>3 DEF TriedBy, NeedingWork, CopiedAtCurrent, Exhausted, ActiveObjects, Untouched
    <2>7. \A p \in job.todo : /\ ~(p[1] \in TriedBy(e, r)')
                              /\ Untouched(e)' => etag[p[1]] = p[2]
                              /\ r \notin disturbed => p[1] \in NeedingWork(e)'
      BY <1>5, <2>3, <2>4, <2>5
    <2>8. QED
      BY <1>1, <2>1, <2>6, <2>7 DEF BatchInv
  <1>11. QueuedInv'
    <2> SUFFICES ASSUME NEW e \in Dest, schedule'[e].outcome = "queued", ~(restarts > 0)
                 PROVE  \E r \in Run : runs'[r].status \in Active /\ runs'[r].dest = e /\ runs'[r].scheduled
      BY <1>1 DEF QueuedInv
    <2>1. e # d /\ schedule[e].outcome = "queued"
      <3>1. NoSchedule.outcome = "settled"
        BY DEF NoSchedule, Fresh
      <3>2. QED
        BY <1>1, <3>1, WorkParts
    <2>2. PICK r \in Run : runs[r].status \in Active /\ runs[r].dest = e /\ runs[r].scheduled
      BY <2>1, WorkParts DEF QueuedInv
    <2>3. QED
      BY <1>2, <2>1, <2>2
  <1>12. QED
    BY <1>6, <1>8, <1>9, <1>10, <1>11 DEF WorkInv

\* What a look at a schedule makes of it: 'queued' only with a run.
LEMMA BecomesWork ==
    ASSUME TransfersInv, NEW d \in Dest, NEW s, s.outcome = "queued" => schedule[d].outcome = "queued",
           Becomes(d, s), UNCHANGED <<etag, ledger, delivered, job, restarts, disturbed>>
    PROVE  WorkInv'
  <1>1. runs' = runs /\ schedule' = [schedule EXCEPT ![d] = s]
    BY DEF Becomes
  <1>2. \A e \in Dest : schedule'[e].outcome = "queued" => schedule[e].outcome = "queued"
    BY <1>1, WorkParts
  <1>3. QED
    BY <1>1, <1>2, SchedulesWork

LEMMA StartWork ==
    ASSUME TransfersInv, NEW d \in Dest, NEW s \in ScheduleRow,
           s.outcome = "queued" => schedule[d].outcome = "queued",
           StartRun(d, s), UNCHANGED <<etag, ledger, delivered, job, restarts, disturbed>>
    PROVE  WorkInv'
  <1>1. CASE ~Usable(d)
    <2>1. CountFailure(s).outcome = "settled"
      BY DEF CountFailure, Paused, ScheduleRow
    <2>2. Becomes(d, CountFailure(s))
      BY <1>1 DEF StartRun
    <2>3. QED
      BY <2>1, <2>2, BecomesWork
  <1>2. CASE Usable(d) /\ HasActiveRun(d)
    <2>1. [s EXCEPT !.outcome = "holding"].outcome = "holding"
      BY DEF ScheduleRow
    <2>2. Becomes(d, [s EXCEPT !.outcome = "holding"])
      BY <1>2 DEF StartRun
    <2>3. QED
      BY <2>1, <2>2, BecomesWork
  <1>3. CASE Usable(d) /\ ~HasActiveRun(d)
    <2>1. /\ QueueRun(d, FALSE, TRUE)
          /\ schedule' = [schedule EXCEPT ![d] = [s EXCEPT !.outcome = "queued", !.pending = FALSE]]
      BY <1>3 DEF StartRun
    <2>2. \A e \in Dest : e # d => schedule'[e] = schedule[e]
      BY <2>1, WorkParts
    <2>3. QED
      BY <1>3, <2>1, <2>2, QueuedWork
  <1>4. QED
    BY <1>1, <1>2, <1>3

LEMMA FireWork ==
    ASSUME TransfersInv, NEW d \in Dest, NEW periodic \in BOOLEAN, NEW settled \in BOOLEAN,
           Fire(d, periodic, settled) \/ FireUnavailable(d)
    PROVE  WorkInv'
  <1> DEFINE s == [schedule[d] EXCEPT !.unseen = FALSE]
             held == [s EXCEPT !.pending = TRUE, !.outcome = "holding"]
             pended == [s EXCEPT !.pending = TRUE]
             settles == [s EXCEPT !.outcome = "settled"]
  <1>1. UNCHANGED <<etag, ledger, delivered, job, restarts, disturbed>>
    BY DEF Fire, FireUnavailable, bounds
  <1>2. s \in ScheduleRow /\ s.outcome = schedule[d].outcome
    <2>1. schedule[d] \in ScheduleRow
      BY WorkParts
    <2>2. QED
      BY <2>1 DEF ScheduleRow
  <1> HIDE DEF s
  <1>3. /\ held.outcome = "holding" /\ settles.outcome = "settled"
        /\ pended \in ScheduleRow /\ pended.outcome = s.outcome
        /\ NothingLeft(s).outcome = "queued" => s.outcome = "queued"
        /\ Paused(s).outcome = "settled"
    BY <1>2 DEF ScheduleRow, NothingLeft, Paused
  <1> HIDE DEF held, pended, settles
  <1>4. CASE FireUnavailable(d)
    <2>1. Becomes(d, Paused(s))
      BY <1>4 DEF FireUnavailable, Becomes, s
    <2>2. QED
      BY <1>1, <1>3, <2>1, BecomesWork
  <1>5. CASE FireTimed(d, s)
    <2>1. Becomes(d, settles) \/ StartRun(d, s)
      BY <1>5 DEF FireTimed, settles
    <2>2. QED
      BY <1>1, <1>2, <1>3, <2>1, BecomesWork, StartWork
  <1>6. CASE FireOnChange(d, s, periodic, settled)
    <2>1. s.pending \in BOOLEAN
      BY <1>2 DEF ScheduleRow
    <2>2. \/ Becomes(d, s) \/ Becomes(d, held) \/ Becomes(d, NothingLeft(s))
          \/ StartRun(d, s) \/ StartRun(d, pended)
      BY <1>6, <2>1 DEF FireOnChange, held, pended
    <2>3. CASE Becomes(d, s) \/ Becomes(d, held) \/ Becomes(d, NothingLeft(s))
      BY <1>1, <1>2, <1>3, <2>3, BecomesWork
    <2>4. CASE StartRun(d, s) \/ StartRun(d, pended)
      BY <1>1, <1>2, <1>3, <2>4, StartWork
    <2>5. QED
      BY <2>2, <2>3, <2>4
  <1>7. QED
    BY <1>4, <1>5, <1>6 DEF Fire, s

\* An old row that goes takes its number out of the ledger, and with it only
\* the memory that this run has tried an object.
LEMMA PruneWork ==
    ASSUME TransfersInv, NEW r \in Run, PruneHistory(r)
    PROVE  WorkInv'
  <1>1. /\ runs' = [runs EXCEPT ![r].status = "pruned"] /\ runs[r].status \in Terminal
        /\ ledger' = [d \in Dest |-> [o \in Object |->
              IF ledger[d][o].by = r THEN [ledger[d][o] EXCEPT !.by = NoRun] ELSE ledger[d][o]]]
        /\ UNCHANGED <<etag, schedule, delivered, job, restarts, disturbed>>
    BY DEF PruneHistory, bounds
  <1>2. /\ runs'[r].status = "pruned" /\ runs'[r].dest = runs[r].dest
        /\ \A q \in Run \ {r} : runs'[q] = runs[q]
    <2>1. runs[r] \in RunRow
      BY WorkParts DEF TypeOK
    <2>2. QED
      BY <1>1, <2>1, WorkParts DEF TypeOK, RunRow
  <1>3. /\ ActiveKept /\ CompletedKept /\ ScheduledKept /\ NoNewRun
        /\ \A q \in Run : runs'[q].status \in Active => q # r /\ runs[q].status \in Active
        /\ \A q \in Run : runs[q].status \in Active => q # r
    BY <1>1, <1>2 DEF ActiveKept, CompletedKept, ScheduledKept, NoNewRun, Active, Terminal
  <1>4. \A d \in Dest, o \in Object :
           /\ ledger'[d][o].status = ledger[d][o].status /\ ledger'[d][o].etag = ledger[d][o].etag
           /\ ledger'[d][o].attempts = ledger[d][o].attempts
           /\ ledger'[d][o].by = IF ledger[d][o].by = r THEN NoRun ELSE ledger[d][o].by
    <2>1. \A e \in LedgerRow : LET new == [e EXCEPT !.by = NoRun]
                               IN  /\ new.status = e.status /\ new.etag = e.etag
                                   /\ new.attempts = e.attempts /\ new.by = NoRun
      BY DEF LedgerRow
    <2>2. \A d \in Dest, o \in Object : ledger[d][o] \in LedgerRow
      BY WorkParts DEF TypeOK
    <2>3. QED
      BY <1>1, <2>1, <2>2
  <1>5. ASSUME NEW d \in Dest, NEW q \in Run, q # r
        PROVE  /\ TriedBy(d, q)' = TriedBy(d, q) /\ NeedingWork(d)' = NeedingWork(d)
               /\ ObjectsNeedingWork(d, q)' = ObjectsNeedingWork(d, q)
    <2>1. NoRun \notin Run
      BY DEF NoRun, Run
    <2>2. TriedBy(d, q)' = TriedBy(d, q)
      BY <1>4, <1>5, <2>1 DEF TriedBy
    <2>3. NeedingWork(d)' = NeedingWork(d)
      BY <1>1, <1>4 DEF NeedingWork, CopiedAtCurrent, Exhausted, ActiveObjects
    <2>4. QED
      BY <2>2, <2>3 DEF ObjectsNeedingWork
  <1>6. WorkKept
    <2>1. \A d \in Dest, o \in Object : Settled(d, o) => Settled(d, o)'
      BY <1>1, <1>4 DEF Settled
    <2>2. QED
      BY <1>1, <1>3, <1>5, <2>1 DEF WorkKept
  <1>7. OneActive' /\ CountInv' /\ DoneInv'
    BY <1>3, <1>6, WorkParts, TablesFrame
  <1>8. QueuedInv'
    BY <1>1, <1>3, WorkParts, QueuedFrame DEF TypeOK
  <1>9. BatchInv'
    <2> SUFFICES ASSUME AtWork' PROVE BatchInv'
      BY DEF BatchInv
    <2>1. PICK q \in Run : q = job.run
      BY <1>1, WorkParts DEF AtWork, JobInv
    <2>2. q # r /\ runs'[q] = runs[q] /\ AtWork
      BY <1>1, <1>2, <1>3, <2>1 DEF AtWork, Row
    <2>3. PICK e \in Dest : e = Row.dest /\ e = Row'.dest
      <3>1. runs[q].dest \in Dest
        BY WorkParts, RunRows DEF TypeOK
      <3>2. QED
        BY <1>1, <2>1, <2>2, <3>1 DEF Row
    <2>4. Untouched(e)' => Untouched(e)
      BY <1>1, <1>3 DEF Untouched, NoNewRun
    <2>5. \A p \in job.todo : /\ p[1] \notin TriedBy(e, q)
                              /\ Untouched(e) => etag[p[1]] = p[2]
                              /\ q \notin disturbed => p[1] \in NeedingWork(e)
      BY <2>1, <2>2, <2>3, WorkParts DEF BatchInv
    <2>6. /\ TriedBy(Row.dest, job.run)' = TriedBy(e, q)' /\ NeedingWork(Row.dest)' = NeedingWork(e)'
          /\ Untouched(Row.dest)' = Untouched(e)'
      BY <1>1, <2>1, <2>3 DEF TriedBy, NeedingWork, CopiedAtCurrent, Exhausted, ActiveObjects, Untouched
    <2>7. \A p \in job.todo : /\ ~(p[1] \in TriedBy(e, q)')
                              /\ Untouched(e)' => etag[p[1]] = p[2]
                              /\ q \notin disturbed => p[1] \in NeedingWork(e)'
      BY <1>5, <2>2, <2>4, <2>5
    <2>8. QED
      BY <1>1, <2>1, <2>6, <2>7 DEF BatchInv
  <1>10. QED
    BY <1>7, <1>8, <1>9 DEF WorkInv

-----------------------------------------------------------------------------
(***************************************************************************)
(* The invariant is kept, and an attempt is counted once.                  *)
(***************************************************************************)

LEMMA InitWork == Init => TransfersInv
  <1> SUFFICES ASSUME Init PROVE WorkInv
    BY InitInv DEF TransfersInv
  <1>1. /\ \A r \in Run : runs[r].status = "none"
        /\ job.step = "idle"
    BY DEF Init, Closed, NoJob
  <1>2. \A s \in Schedules : s.outcome = "settled"
    <2>1. NoSchedule.outcome = "settled" /\ \A f \in Frequency, on \in BOOLEAN : Fresh(f, on).outcome = "settled"
      BY DEF NoSchedule, Fresh
    <2>2. QED
      BY <2>1
  <1>3. \A d \in Dest : schedule[d].outcome # "queued"
    BY <1>2 DEF Init
  <1>4. QED
    BY <1>1, <1>3 DEF WorkInv, OneActive, QueuedInv, BatchInv, AtWork, CountInv, DoneInv, Active

LEMMA QuietStep == TransfersInv /\ UNCHANGED vars => WorkInv'
  <1> SUFFICES ASSUME TransfersInv, UNCHANGED vars PROVE WorkInv'
    OBVIOUS
  <1>1. UNCHANGED <<etag, ledger, runs, schedule, delivered, job, restarts, disturbed>>
    BY DEF vars, tables, bounds
  <1>2. QED
    BY <1>1, SchedulesWork

LEMMA TransfersStep == TransfersInv /\ [Next]_vars => TransfersInv'
  <1> SUFFICES ASSUME TransfersInv, [Next]_vars PROVE WorkInv'
    BY BackupsStep DEF TransfersInv
  <1>1. CASE UNCHANGED vars
    BY <1>1, QuietStep
  <1>2. ASSUME NEW o \in Object, DeleteObject(o) \/ \E c \in Content : WriteObject(o, c) PROVE WorkInv'
    BY <1>2, ObjectWork DEF DeleteObject
  <1>3. ASSUME NEW d \in Dest, ScheduleStep(d) PROVE WorkInv'
    BY <1>3, EditWork, DeleteScheduleWork, UnlinkWork, AskedWork, FireWork DEF ScheduleStep, Frequency
  <1>4. ASSUME NEW r \in Run, RequestCancel(r) \/ PruneHistory(r) PROVE WorkInv'
    BY <1>4, CancelWork, PruneWork
  <1>5. CASE WorkerStep
    <2>1. LedgerTruthful'
      BY BackupsStep DEF TransfersInv, BackupsInv
    <2>2. CASE MarkCopied
      BY <2>1, <2>2, MarkWork DEF MarkCopied, InHand
    <2>3. CASE MarkFailed
      BY <2>1, <2>3, MarkWork DEF MarkFailed, InHand
    <2>4. QED
      BY <1>5, <2>2, <2>3, ClaimWork, DropWork, PreparationWork, LandWork DEF WorkerStep
  <1>6. CASE Restart
    BY <1>6, DropWork
  <1>7. QED
    BY <1>1, <1>2, <1>3, <1>4, <1>5, <1>6 DEF Next

\* An attempt is counted by Mark alone, for an object of the batch in hand,
\* which its run has not tried.
AttemptsOnce ==
    \A d \in Dest, o \in Object : LET old == ledger[d][o] new == ledger'[d][o] IN
        old.status = "failed" /\ new.attempts > old.attempts => old.by = NoRun \/ new.by # old.by

LEMMA NotCounted ==
    ASSUME TypeOK, \A d \in Dest, o \in Object : \/ ledger'[d][o] = NoEntry
                                                 \/ ledger'[d][o].attempts = ledger[d][o].attempts
    PROVE  AttemptsOnce
  <1>1. \A e \in LedgerRow : e.attempts \in Nat
    BY DEF LedgerRow
  <1>2. \A d \in Dest, o \in Object : ledger[d][o].attempts \in Nat
    BY <1>1 DEF TypeOK
  <1>3. NoEntry.attempts = 0
    BY DEF NoEntry
  <1>4. ASSUME NEW d \in Dest, NEW o \in Object PROVE ~(ledger'[d][o].attempts > ledger[d][o].attempts)
    <2>1. ledger'[d][o].attempts \in {0, ledger[d][o].attempts}
      BY <1>3
    <2>2. \A m, n \in Nat : m \in {0, n} => ~(m > n)
      OBVIOUS
    <2>3. QED
      BY <1>2, <2>1, <2>2
  <1>5. QED
    BY <1>4 DEF AttemptsOnce

LEMMA MarkOnce ==
    ASSUME TransfersInv, NEW p \in Current, NEW status \in {"copied", "failed"}, Mark(p, status),
           Row.status \in Active, job.step # "idle"
    PROVE  AttemptsOnce
  <1>1. PICK r \in Run, d \in Dest, o \in Object : r = job.run /\ d = Row.dest /\ o = p[1] /\ p \in job.todo
    <2>1. job.run \in Run /\ Row.dest \in Dest
      BY WorkParts, RowInHand
    <2>2. p \in job.todo /\ p[1] \in Object
      BY WorkParts DEF Current, TypeOK, Job
    <2>3. QED
      BY <2>1, <2>2
  <1>2. CASE etag[o] = Deleted
    <2>1. ledger' = ledger
      BY <1>1, <1>2 DEF Mark
    <2>2. QED
      BY <2>1, WorkParts, NotCounted
  <1>3. CASE etag[o] # Deleted
    <2>1. ledger' = [ledger EXCEPT ![d][o] = Entry(@, status, p[2])]
      BY <1>1, <1>3 DEF Mark, CopiedEtag
    <2>2. /\ \A c \in Dest, x \in Object : c # d \/ x # o => ledger'[c][x] = ledger[c][x]
          /\ ledger'[d][o] = Entry(ledger[d][o], status, p[2])
      BY <2>1, WorkParts DEF TypeOK
    <2>3. ledger'[d][o].by = r
      BY <1>1, <2>2 DEF Entry
    <2>4. o \notin TriedBy(d, r)
      BY <1>1, WorkParts DEF BatchInv, AtWork
    <2>5. ledger[d][o].status = "failed" => ledger'[d][o].by # ledger[d][o].by
      BY <2>3, <2>4 DEF TriedBy
    <2>6. \A c \in Dest, x \in Object : ledger[c][x].attempts \in Nat
      <3>1. \A e \in LedgerRow : e.attempts \in Nat
        BY DEF LedgerRow
      <3>2. QED
        BY <3>1, WorkParts DEF TypeOK
    <2>7. QED
      BY <2>2, <2>5, <2>6 DEF AttemptsOnce
  <1>4. QED
    BY <1>2, <1>3

LEMMA TriesOnce == TransfersInv /\ [Next]_vars => AttemptsOnce \/ UNCHANGED vars
  <1> SUFFICES ASSUME TransfersInv, Next PROVE AttemptsOnce
    OBVIOUS
  <1>1. TypeOK
    BY WorkParts
  <1>2. ASSUME NEW o \in Object, DeleteObject(o) PROVE AttemptsOnce
    <2>1. \A d \in Dest, x \in Object : ledger'[d][x] \in {ledger[d][x], NoEntry}
      BY <1>1, <1>2 DEF DeleteObject, TypeOK
    <2>2. QED
      BY <1>1, <2>1, NotCounted
  <1>3. ASSUME NEW d \in Dest, UnlinkAccount(d) PROVE AttemptsOnce
    <2>1. \A e \in Dest, x \in Object : ledger'[e][x] \in {ledger[e][x], NoEntry}
      BY <1>1, <1>3 DEF UnlinkAccount, TypeOK
    <2>2. QED
      BY <1>1, <2>1, NotCounted
  <1>4. ASSUME NEW r \in Run, PruneHistory(r) PROVE AttemptsOnce
    <2>1. ledger' = [d \in Dest |-> [o \in Object |->
             IF ledger[d][o].by = r THEN [ledger[d][o] EXCEPT !.by = NoRun] ELSE ledger[d][o]]]
      BY <1>4 DEF PruneHistory
    <2>2. \A d \in Dest, o \in Object : ledger[d][o] \in LedgerRow
      BY <1>1 DEF TypeOK
    <2>3. \A e \in LedgerRow : [e EXCEPT !.by = NoRun].attempts = e.attempts
      BY DEF LedgerRow
    <2>4. \A d \in Dest, o \in Object : ledger'[d][o].attempts = ledger[d][o].attempts
      BY <2>1, <2>2, <2>3
    <2>5. QED
      BY <1>1, <2>4, NotCounted
  <1>5. CASE MarkCopied \/ MarkFailed
    BY <1>5, MarkOnce DEF MarkCopied, MarkFailed, InHand
  <1>6. CASE ledger' = ledger
    BY <1>1, <1>6, NotCounted
  <1>7. ledger' = ledger \/ MarkCopied \/ MarkFailed \/ (\E o \in Object : DeleteObject(o))
          \/ (\E d \in Dest : UnlinkAccount(d)) \/ (\E r \in Run : PruneHistory(r))
    <2>1. ASSUME NEW d \in Dest, ScheduleStep(d) PROVE ledger' = ledger \/ UnlinkAccount(d)
      BY <2>1 DEF ScheduleStep, CreateSchedule, UpdateSchedule, DeleteSchedule, RunNow, CreateManual,
                  TestDestination, Fire, FireUnavailable
    <2>2. CASE WorkerStep
      BY <2>2 DEF WorkerStep, Claim, ClaimFails, Orphaned, Prepare, PrepareFails,
                  DestinationUnavailable, Land, tables
    <2>3. QED
      BY <2>1, <2>2 DEF Next, WriteObject, RequestCancel, Restart, tables
  <1>8. QED
    BY <1>2, <1>3, <1>4, <1>5, <1>6, <1>7

-----------------------------------------------------------------------------
\* Every reachable state of the tables, the destinations and the worker is
\* well typed (backup-transfers.ts, backup-schedules.ts).
THEOREM TypeCorrect == Spec => []TypeOK
  <1>1. BackupsInv => TypeOK
    BY DEF BackupsInv
  <1>2. QED
    BY <1>1, InitInv, BackupsStep, PTL DEF Spec

\* The conjunction that carries all of it.
LEMMA TransfersKept == Spec => []TransfersInv
  BY InitWork, TransfersStep, PTL DEF Spec

\* The ledger vouches only for what has arrived, and a completed run that
\* nobody wrote under has dealt with every object: for any objects, batches,
\* failures, restarts and number of runs (refreshAndMaybeFinish, completeIdle).
THEOREM RecordsAreTrue == Spec => []TransfersTruthful
  <1>1. TransfersInv => TransfersTruthful
    BY WorkParts DEF DoneInv, CompletedIsDone, Settled, TransfersTruthful, BackupsInv
  <1>2. QED
    BY <1>1, TransfersKept, PTL

\* An enabled schedule is below its limit of failures, only one that watches
\* for changes holds one back, and while it says 'queued' its destination has
\* an active run, unless the process ended (BackupScheduleService).
THEOREM SchedulesCohere == Spec => []SchedulesCoherent
  <1>1. TransfersInv => SchedulesCoherent
    <2>1. TransfersInv => QueuedIsActive
      BY WorkParts DEF QueuedInv, QueuedIsActive, HasActiveRun, ActiveRuns
    <2>2. TransfersInv => EnabledBelowLimit /\ PendingIsOnChange
      BY WorkParts DEF BackupsInv, SchedulesInv, Coherent, EnabledBelowLimit, PendingIsOnChange
    <2>3. QED
      BY <2>1, <2>2 DEF SchedulesCoherent
  <1>2. QED
    BY <1>1, TransfersKept, PTL

\* A run that has ended stays as it ended until its row is pruned, and a run
\* fails an object at most once, whatever is cancelled, marked, unlinked,
\* pruned or restarted in between (requestCancel, listObjectsNeedingWork).
THEOREM RunsStayFinal == Spec => RunsAreFinal
  <1>1. BackupsInv /\ [Next]_vars =>
          [\A r \in Run : runs[r].status \in Terminal => runs'[r].status \in {runs[r].status, "pruned"}]_vars
    BY BackupsStep DEF EndedKept
  <1>2. Spec => EndedStaysEnded
    BY <1>1, InitInv, BackupsStep, PTL DEF Spec, EndedStaysEnded
  <1>3. TransfersInv /\ [Next]_vars => [AttemptsOnce]_vars
    BY TriesOnce
  <1>4. Spec => FailsOnce
    BY <1>3, TransfersKept, PTL DEF Spec, FailsOnce, AttemptsOnce
  <1>5. QED
    BY <1>2, <1>4 DEF RunsAreFinal

=============================================================================
