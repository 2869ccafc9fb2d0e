----------------------------- MODULE DbSnapshots -----------------------------
(***************************************************************************)
(* Snapshots of the gateway's own database: the settings an admin saves,   *)
(* the worker that takes a snapshot when one is due, "run now", what a     *)
(* snapshot leaves at its destination, and the deletion of old ones.       *)
(*                                                                         *)
(* A snapshot is numbered in the order of its archive's created_at.  Its   *)
(* execution awaits the archive, each of two uploads, and each deletion.   *)
(***************************************************************************)
EXTENDS Naturals, FiniteSets

CONSTANTS
    Account,        \* backup destinations, all linked at first
    NoAccount,      \* null
    SnapScheduler,  \* backupScheduler.enabled
    Retain,         \* the values of retainCount
    DefaultRetain,  \* the one the table starts with
    MaxSnapshots,   \* bound: no slot falls due and nobody asks after these
    MaxSnapEvents   \* bound: saves, unlinked accounts and restarts

ASSUME DbSnapshotsAssumption ==
    /\ NoAccount \notin Account
    /\ SnapScheduler \in BOOLEAN
    /\ Retain \subseteq Nat \ {0} /\ DefaultRetain \in Retain
    /\ MaxSnapshots \in Nat /\ MaxSnapEvents \in Nat

VARIABLES
    settings,   \* the db_snapshot_settings row
    due,        \* next_run_at is not null and has passed
    accounts,   \* backup_accounts
    snapshots,  \* db_snapshots
    files,      \* what the destinations hold
    runner,     \* the executions: the worker's, and the one of "run now"
    made,       \* archives begun so far
    snapEvents

snapVars == <<settings, due, accounts, snapshots, files, runner, made, snapEvents>>

Runner == {"worker", "manual"}
Off == [step |-> "off", account |-> NoAccount, retain |-> DefaultRetain, id |-> 0, old |-> {}]
Row(a, n) == [account |-> a, id |-> n]
FileOf(a, n, p) == [account |-> a, id |-> n, part |-> p]

Settings == [enabled : BOOLEAN, account : Account \cup {NoAccount}, retain : Nat \ {0},
             status : {"none", "running", "completed", "failed"}]
Execution == [step : {"off", "writing", "archive", "manifest", "oldManifest", "oldArchive"},
              account : Account \cup {NoAccount}, retain : Nat \ {0}, id : Nat, old : SUBSET Nat]

SnapTypeOK ==
    /\ settings \in Settings
    /\ due \in BOOLEAN
    /\ accounts \subseteq Account
    /\ snapshots \subseteq [account : Account, id : Nat]
    /\ files \subseteq [account : Account, id : Nat, part : {"archive", "manifest"}]
    /\ runner \in [Runner -> Execution]
    /\ made \in Nat /\ snapEvents \in Nat

SnapInit ==
    /\ settings = [enabled |-> FALSE, account |-> NoAccount, retain |-> DefaultRetain, status |-> "none"]
    /\ due = FALSE
    /\ accounts = Account
    /\ snapshots = {} /\ files = {}
    /\ runner = [r \in Runner |-> Off]
    /\ made = 0 /\ snapEvents = 0

CountSnapEvent == snapEvents < MaxSnapEvents /\ snapEvents' = snapEvents + 1

-----------------------------------------------------------------------------
(***************************************************************************)
(* The settings and the accounts.                                          *)
(***************************************************************************)

\* save: an account that changes is one that is linked, and snapshots that
\* are on have one.  The next slot is counted from now.
Allowed(on, a) == /\ a \in accounts \cup {NoAccount, settings.account}
                  /\ on => a # NoAccount
Saved(on, a, n) == /\ settings' = [settings EXCEPT !.enabled = on, !.account = a, !.retain = n]
                   /\ due' = FALSE

Save(on, a, n) ==
    /\ CountSnapEvent
    /\ Allowed(on, a)
    /\ Saved(on, a, n)
    /\ UNCHANGED <<accounts, snapshots, files, runner, made>>

\* An account that is unlinked takes its rows along and leaves the settings.
UnlinkSnapshotAccount(a) ==
    /\ CountSnapEvent
    /\ a \in accounts
    /\ accounts' = accounts \ {a}
    /\ snapshots' = {s \in snapshots : s.account # a}
    /\ settings' = [settings EXCEPT !.account = IF @ = a THEN NoAccount ELSE @]
    /\ UNCHANGED <<due, files, runner, made>>

\* The clock reaches next_run_at.
FallsDue ==
    /\ settings.enabled /\ ~due /\ made < MaxSnapshots
    /\ due' = TRUE
    /\ UNCHANGED <<settings, accounts, snapshots, files, runner, made, snapEvents>>

-----------------------------------------------------------------------------
(***************************************************************************)
(* An execution.                                                           *)
(***************************************************************************)

Claimable == settings.status # "running"

Finished(status) == [settings EXCEPT !.status = status]

Nowhere == settings.account = NoAccount

\* execute, up to its first await: what the settings say is read once.
Execute(r) ==
    IF Nowhere
    THEN settings' = Finished("failed") /\ UNCHANGED <<runner, made>>
    ELSE /\ settings' = [settings EXCEPT !.status = "running"]
         /\ made' = made + 1
         /\ runner' = [runner EXCEPT ![r] = [step |-> "writing", account |-> settings.account,
                                             retain |-> settings.retain, id |-> made + 1, old |-> {}]]

WorkerFree == SnapScheduler /\ runner["worker"] = Off

\* claimDue takes the slot whether or not there is somewhere to send it.
RunIfDue ==
    /\ WorkerFree
    /\ settings.enabled /\ due /\ Claimable
    /\ due' = FALSE
    /\ Execute("worker")
    /\ UNCHANGED <<accounts, snapshots, files, snapEvents>>

StartNow ==
    /\ made < MaxSnapshots
    /\ Claimable
    /\ Execute("manual")
    /\ UNCHANGED <<due, accounts, snapshots, files, snapEvents>>

Finish(r, status) ==
    /\ settings' = Finished(status)
    /\ runner' = [runner EXCEPT ![r] = Off]

\* The archive is on disk and the destination has a folder for it.
ArchiveWritten(r) ==
    /\ runner[r].step = "writing"
    /\ runner' = [runner EXCEPT ![r].step = "archive"]
    /\ UNCHANGED <<settings, due, accounts, snapshots, files, made, snapEvents>>

Sent(r, part) == files \cup {FileOf(runner[r].account, runner[r].id, part)}

FirstPart == "archive"
SecondPart == "manifest"

ArchiveSent(r) ==
    /\ runner[r].step = "archive"
    /\ files' = Sent(r, FirstPart)
    /\ runner' = [runner EXCEPT ![r].step = "manifest"]
    /\ UNCHANGED <<settings, due, accounts, snapshots, made, snapEvents>>

RowsOf(rows, a) == {s.id : s \in {t \in rows : t.account = a}}

MutBeyondRetention(rows, a, keep) ==
    {n \in RowsOf(rows, a) : Cardinality({m \in RowsOf(rows, a) : m < n}) >= keep}
\* listBeyondRetention: all but the newest.
BeyondRetention(rows, a, keep) ==
    {n \in RowsOf(rows, a) : Cardinality({m \in RowsOf(rows, a) : m > n}) >= keep}

\* prune goes on with what is left of its list, which it takes oldest first.
PruneNext(r, old) ==
    IF old = {} THEN Finish(r, "completed")
    ELSE /\ runner' = [runner EXCEPT ![r] = [@ EXCEPT !.step = "oldManifest", !.old = old]]
         /\ UNCHANGED settings
PrunedNext(r) == {n \in runner[r].old : \A m \in runner[r].old : n <= m}

\* The row cannot be written once its account is gone.
ManifestSent(r) ==
    /\ runner[r].step = "manifest"
    /\ files' = Sent(r, SecondPart)
    /\ LET a == runner[r].account IN
       IF a \in accounts
       THEN /\ snapshots' = snapshots \cup {Row(a, runner[r].id)}
            /\ PruneNext(r, BeyondRetention(snapshots', a, runner[r].retain))
       ELSE Finish(r, "failed") /\ UNCHANGED snapshots
    /\ UNCHANGED <<due, accounts, made, snapEvents>>

\* Whatever throws before the row is written; the answer may be all that was lost.
SnapshotFails(r) ==
    /\ runner[r].step \in {"writing", "archive", "manifest"}
    /\ \/ UNCHANGED files
       \/ runner[r].step = "archive" /\ files' = Sent(r, FirstPart)
       \/ runner[r].step = "manifest" /\ files' = Sent(r, SecondPart)
    /\ Finish(r, "failed")
    /\ UNCHANGED <<due, accounts, snapshots, made, snapEvents>>

Unsent(r, n, part) == files \ {FileOf(runner[r].account, n, part)}

OldManifestDeleted(r) ==
    /\ runner[r].step = "oldManifest"
    /\ \E n \in PrunedNext(r) : files' = Unsent(r, n, "manifest")
    /\ runner' = [runner EXCEPT ![r].step = "oldArchive"]
    /\ UNCHANGED <<settings, due, accounts, snapshots, made, snapEvents>>

OldArchiveDeleted(r) ==
    /\ runner[r].step = "oldArchive"
    /\ \E n \in PrunedNext(r) :
          /\ files' = Unsent(r, n, "archive")
          /\ snapshots' = snapshots \ {Row(runner[r].account, n)}
          /\ PruneNext(r, runner[r].old \ {n})
    /\ UNCHANGED <<due, accounts, made, snapEvents>>

\* A deletion that throws, whether or not it was done, leaves the rest.
PruneFails(r) ==
    /\ runner[r].step \in {"oldManifest", "oldArchive"}
    /\ \E n \in PrunedNext(r) :
          files' \in {files, Unsent(r, n, IF runner[r].step = "oldManifest" THEN "manifest" ELSE "archive")}
    /\ Finish(r, "completed")
    /\ UNCHANGED <<due, accounts, snapshots, made, snapEvents>>

\* failInterrupted, which only a scheduler that is enabled comes to.
FailInterrupted ==
    IF SnapScheduler /\ settings.status = "running" THEN Finished("failed") ELSE settings

\* The process ends, at whatever point of an execution, and starts again.
Restart ==
    /\ CountSnapEvent
    /\ \E r \in Runner : runner[r] # Off
    /\ runner' = [r \in Runner |-> Off]
    /\ settings' = FailInterrupted
    /\ UNCHANGED <<due, accounts, snapshots, files, made>>

-----------------------------------------------------------------------------
Works(r) ==
    \/ ArchiveWritten(r) \/ ArchiveSent(r) \/ ManifestSent(r) \/ SnapshotFails(r)
    \/ OldManifestDeleted(r) \/ OldArchiveDeleted(r) \/ PruneFails(r)

SnapNext ==
    \/ \E on \in BOOLEAN, a \in Account \cup {NoAccount}, n \in Retain : Save(on, a, n)
    \/ \E a \in Account : UnlinkSnapshotAccount(a)
    \/ FallsDue \/ RunIfDue \/ StartNow \/ Restart
    \/ \E r \in Runner : Works(r)

SnapSpec == SnapInit /\ [][SnapNext]_snapVars
SnapFairness == WF_snapVars(RunIfDue) /\ \A r \in Runner : WF_snapVars(Works(r))
SnapFairSpec == SnapSpec /\ SnapFairness
-----------------------------------------------------------------------------
(***************************************************************************)
(* What must hold.                                                         *)
(***************************************************************************)

\* Two executions never overlap, whichever of a slot and "run now" comes
\* first, and while one is at work the dashboard says so (claimDue, claimNow).
OneAtATime ==
    \A r \in Runner : runner[r] # Off =>
        settings.status = "running" /\ \A q \in Runner \ {r} : runner[q] = Off

\* A destination never holds a manifest without its archive ("a manifest
\* without its archive is worse than the other way round"), wherever a
\* snapshot or a deletion is cut off.
ManifestHasArchive ==
    \A f \in files : FileOf(f.account, f.id, "archive") \in files

\* The newest snapshot on record can be restored: retention reaches only
\* older ones, also when the settings change or the process ends during it.
NewestWhole ==
    \A s \in snapshots :
        (\A t \in snapshots : t.account = s.account => t.id <= s.id)
            => \A part \in {"archive", "manifest"} : FileOf(s.account, s.id, part) \in files

\* A snapshot that is shown as running comes to an end, across restarts.
SnapshotEnds == SnapScheduler => (settings.status = "running" ~> settings.status # "running")

\* A slot that has come is taken, or the settings are saved anew.
SlotTaken == SnapScheduler => (due ~> ~due)

\* What snapshots promise: one execution at a time, no manifest without its
\* archive, and a newest snapshot that can be restored.
SnapshotsSafe == SnapTypeOK /\ OneAtATime /\ ManifestHasArchive /\ NewestWhole

=============================================================================
