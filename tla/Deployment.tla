----------------------------- MODULE Deployment -----------------------------
(***************************************************************************)
(* What an operator runs beside the gateway.                               *)
(*                                                                         *)
(* deploy.sh and redeploy.sh, with the helpers they share and              *)
(* deploy-pm2.sh: which commit the checkout, the image or dist/ and the    *)
(* running gateway are of, while commands fail, scripts are killed and two *)
(* of them are started at once.  Commits are numbered along one line of    *)
(* history; a commit's number is also its latest migration.                *)
(*                                                                         *)
(* backup-sqlite and restore-sqlite: archives of the database with their   *)
(* manifests and keys, killed between any two writes.                      *)
(***************************************************************************)
EXTENDS Naturals, FiniteSets

CONSTANTS
    Commit,       \* commits, the older ones smaller
    Sound,        \* those whose gateway becomes ready
    NoCommit,     \* nothing there
    MaxTurns,     \* bound: runs of deploy.sh and redeploy.sh
    MaxMishaps,   \* bound: commands that fail and scripts that are killed
    MasterKey,    \* values of MASTER_ENCRYPTION_KEY
    Passphrase,   \* recovery passphrases
    Weak,         \* those shorter than 12 characters
    Stamp,        \* times, to the millisecond
    Backup,       \* runs of backup-sqlite
    NotGiven,     \* undefined, null
    MaxIncidents, \* bound: starts of the gateway, secrets, losses of a disk
    MaxRestores   \* bound: runs of restore-sqlite

ASSUME DeploymentAssumption ==
    /\ Commit \subseteq Nat \ {0} /\ Sound \subseteq Commit
    /\ NoCommit \notin Commit
    /\ MaxTurns \in Nat /\ MaxMishaps \in Nat /\ MaxIncidents \in Nat /\ MaxRestores \in Nat
    /\ Weak \subseteq Passphrase
    /\ NotGiven \notin MasterKey \cup Passphrase

VARIABLES
    envFile,    \* the environment file
    checkout,   \* the working tree, whether on the branch, and the branch
    image,      \* the commit that the gateway's image was built from
    fallback,   \* and the image kept as :previous
    dist,       \* the commit dist/ was built from
    serving,    \* the container's and the PM2 process's commit
    schema,     \* the latest migration of the database
    job,        \* the script that holds .deploy.lock
    before,     \* what it found when it began to work
    turns, mishaps

deployVars == <<envFile, checkout, image, fallback, dist, serving, schema, job, before, turns, mishaps>>

Runtime == {"compose", "pm2"}
Half == 0  \* a dist/ half replaced

\* The arguments of the two scripts.
Deploys == [kind : {"deploy"}, runtime : Runtime \cup {"any"}, ref : {FALSE}, force : {FALSE}, backup : {FALSE}, rollback : {FALSE}]
Redeploys == [kind : {"redeploy"}, runtime : {"any"}, ref : BOOLEAN, force : BOOLEAN, backup : BOOLEAN, rollback : BOOLEAN]
Asked == Deploys \cup Redeploys

Steps == {"none", "mode", "target", "tag", "checkout", "build", "backup", "start", "ready",
          "pmBuild", "pmStop", "pmStart", "pmReady", "retag", "return", "leaving"}
Endings == {"none", "refused", "nothing", "failed", "deployed", "rolled back", "left", "lost"}

World == [checkout |-> checkout, image |-> image, serving |-> serving, schema |-> schema]
Asking(a) == [step |-> "mode", asked |-> a, mode |-> "none", target |-> NoCommit, archive |-> NoCommit, hadImage |-> FALSE,
              checkedOut |-> FALSE, restarted |-> FALSE, rolling |-> FALSE, undone |-> TRUE, end |-> "none"]
NoJob == [Asking(CHOOSE a \in Deploys : TRUE) EXCEPT !.step = "none"]

Deployed(c, m) == [r \in Runtime |-> IF r = m THEN c ELSE NoCommit]

DeployInit ==
    /\ envFile \in {"missing", "complete"}
    /\ checkout \in [at : Commit, branch : BOOLEAN, tip : Commit]
    /\ checkout.branch => checkout.at = checkout.tip
    /\ fallback = NoCommit
    /\ \/ serving = Deployed(NoCommit, "compose") /\ image = NoCommit /\ dist = NoCommit /\ schema = 0
       \/ \E m \in Runtime :
             /\ serving = Deployed(checkout.at, m) /\ schema = checkout.at
             /\ image = serving["compose"] /\ dist = serving["pm2"]
    /\ job = NoJob /\ before = World /\ turns = 0 /\ mishaps = 0

DeployTypeOK ==
    /\ envFile \in {"missing", "partial", "complete"}
    /\ checkout \in [at : Commit, branch : BOOLEAN, tip : Commit]
    /\ {image, fallback} \subseteq Commit \cup {NoCommit} /\ dist \in Commit \cup {NoCommit, Half}
    /\ serving \in [Runtime -> Commit \cup {NoCommit}]
    /\ schema \in Nat /\ turns \in 0..MaxTurns /\ mishaps \in 0..MaxMishaps
    /\ job.step \in Steps /\ job.end \in Endings /\ job.asked \in Asked

-----------------------------------------------------------------------------
(***************************************************************************)
(* Before anything changes.                                                *)
(***************************************************************************)

treeVars == <<checkout, image, fallback, dist, serving, schema>>

Is(step) == job.step = step
StepsTo(step) == job' = [job EXCEPT !.step = step]
Ends(end) == job' = [job EXCEPT !.step = "leaving", !.end = end]

\* The environment: created once where there is none, then checked.  A script
\* that finds the lock taken changes nothing.
BeginDeploy(a) ==
    /\ Is("none") /\ turns < MaxTurns /\ turns' = turns + 1
    /\ IF envFile = "complete"
       THEN job' = Asking(a) /\ before' = World /\ UNCHANGED envFile
       ELSE /\ envFile' = IF envFile = "missing" /\ a.kind = "deploy" THEN "partial" ELSE envFile
            /\ UNCHANGED <<job, before>>
    /\ UNCHANGED <<treeVars, mishaps>>

FillIn ==
    /\ envFile = "partial" /\ envFile' = "complete"
    /\ UNCHANGED <<treeVars, job, before, turns, mishaps>>

\* deployed_mode, and what the two scripts make of it.
Existing == {m \in Runtime : serving[m] # NoCommit}
ModesFor(a) ==
    LET open == IF Existing = {} /\ a.kind = "deploy" THEN Runtime ELSE Existing
    IN  IF Cardinality(Existing) > 1 THEN {}
        ELSE IF a.runtime = "any" THEN open ELSE open \cap {a.runtime}

FindMode ==
    /\ Is("mode")
    /\ LET modes == ModesFor(job.asked)
       IN  \/ modes = {} /\ Ends("refused")
           \/ \E m \in modes :
                job' = [job EXCEPT !.mode = m,
                                   !.step = IF job.asked.kind = "redeploy" THEN "target"
                                               ELSE IF m = "compose" THEN "build" ELSE "pmBuild"]
    /\ UNCHANGED <<treeVars, envFile, before, turns, mishaps>>

\* PREV_COMMIT and PREV_BRANCH, and TARGET: any ref, or an upstream that the
\* branch can be fast-forwarded to.
ResolveTarget(c) ==
    /\ Is("target")
    /\ IF ~job.asked.ref /\ ~(checkout.branch /\ c >= checkout.at) THEN Ends("refused")
       ELSE IF c = checkout.at /\ ~job.asked.force THEN Ends("nothing")
       ELSE job' = [job EXCEPT !.target = c, !.step = IF job.mode = "compose" THEN "tag" ELSE "backup"]
    /\ UNCHANGED <<treeVars, envFile, before, turns, mishaps>>

-----------------------------------------------------------------------------
(***************************************************************************)
(* Up to the restart.                                                      *)
(***************************************************************************)

\* redeploy_compose: the image that runs is kept under a second tag.
TagPrevious ==
    /\ Is("tag")
    /\ fallback' = IF image = NoCommit THEN fallback ELSE image
    /\ job' = [job EXCEPT !.step = "checkout", !.hadImage = image # NoCommit]
    /\ UNCHANGED <<checkout, image, dist, serving, schema, envFile, before, turns, mishaps>>

\* checkout_target.
CheckoutTarget ==
    /\ Is("checkout")
    /\ LET c == job.target
       IN  checkout' = IF job.asked.ref THEN [checkout EXCEPT !.at = c, !.branch = FALSE]
                       ELSE [checkout EXCEPT !.at = c, !.tip = c]
    /\ job' = [job EXCEPT !.checkedOut = TRUE, !.restarted = job.mode = "pm2",
                          !.step = IF job.mode = "compose" THEN "build" ELSE "pmBuild"]
    /\ UNCHANGED <<image, fallback, dist, serving, schema, envFile, before, turns, mishaps>>

BuildImage ==
    /\ Is("build")
    /\ image' = checkout.at
    /\ StepsTo(IF job.asked.kind = "redeploy" THEN "backup" ELSE "start")
    /\ UNCHANGED <<checkout, fallback, dist, serving, schema, envFile, before, turns, mishaps>>

\* take_backup: an archive of the database as it is, while the old version runs.
TakeBackup ==
    /\ Is("backup")
    /\ job' = [job EXCEPT !.archive = IF job.asked.backup THEN schema ELSE NoCommit,
                          !.step = IF job.mode = "compose" THEN "start" ELSE "checkout"]
    /\ UNCHANGED <<treeVars, envFile, before, turns, mishaps>>

\* restore_checkout.
MutPutBack == [checkout EXCEPT !.at = before.checkout.at, !.branch = FALSE]
PutBack ==
    LET was == before.checkout
    IN  IF was.branch THEN [at |-> was.at, branch |-> TRUE, tip |-> was.at]
        ELSE [checkout EXCEPT !.at = was.at, !.branch = FALSE]

\* on_exit: a script that fails with its restart not begun puts things back.
Undoes == job.checkedOut /\ ~job.restarted

Mishap == mishaps < MaxMishaps /\ mishaps' = mishaps + 1

CommandFails ==
    /\ job.step \in {"target", "tag", "checkout", "build", "backup", "retag", "return"}
    /\ Mishap
    /\ IF Undoes THEN checkout' = PutBack /\ image' = IF job.hadImage THEN fallback ELSE image
                    ELSE UNCHANGED <<checkout, image>>
    /\ Ends(IF job.restarted THEN "lost" ELSE "failed")
    /\ UNCHANGED <<fallback, dist, serving, schema, envFile, before, turns>>

\* Putting the checkout back fails as well, maybe with the tag.
UndoingFails ==
    /\ job.step \in {"build", "backup"} /\ Undoes
    /\ mishaps + 1 < MaxMishaps /\ mishaps' = mishaps + 2
    /\ image' \in {image, IF job.hadImage THEN fallback ELSE image}
    /\ job' = [job EXCEPT !.step = "leaving", !.end = "failed", !.undone = FALSE]
    /\ UNCHANGED <<checkout, fallback, dist, serving, schema, envFile, before, turns>>

-----------------------------------------------------------------------------
(***************************************************************************)
(* The restart, and the way back.                                          *)
(***************************************************************************)

Migrated(c) == IF c \in Nat /\ c > schema THEN c ELSE schema
Serves(m, c) == serving' = [serving EXCEPT ![m] = c] /\ schema' = Migrated(c)

\* compose_start: the container is recreated from the image.
Start ==
    /\ Is("start") /\ image # NoCommit
    /\ Serves("compose", image)
    /\ job' = [job EXCEPT !.step = "ready", !.restarted = TRUE]
    /\ UNCHANGED <<checkout, image, fallback, dist, envFile, before, turns, mishaps>>

\* It fails, maybe with the old container gone: nothing catches that.
StartFails ==
    /\ Is("start") /\ Mishap
    /\ serving' \in {serving, [serving EXCEPT !["compose"] = NoCommit]}
    /\ job' = [job EXCEPT !.step = "leaving", !.restarted = TRUE, !.end = "lost"]
    /\ UNCHANGED <<checkout, image, fallback, dist, schema, envFile, before, turns>>

\* What a script does with a version that is ready, and with one that is not.
Arrived == Ends(IF job.rolling THEN "rolled back" ELSE "deployed")

GoesBack == job.asked.rollback /\ ~job.rolling /\ (job.mode = "compose" => job.hadImage)
NotReady ==
    IF GoesBack
    THEN job' = [job EXCEPT !.rolling = TRUE, !.step = IF job.mode = "compose" THEN "retag" ELSE "return"]
    ELSE Ends(IF job.rolling THEN "lost" ELSE "left")

\* wait_ready.
WaitReady ==
    /\ Is("ready")
    /\ IF serving["compose"] \in Sound THEN Arrived ELSE NotReady
    /\ UNCHANGED <<treeVars, envFile, before, turns, mishaps>>

\* A sound version takes longer than READY_TIMEOUT_SECONDS, or PM2 cannot save
\* its list afterwards.
TooLate ==
    /\ job.step \in {"ready", "pmReady"} /\ Mishap
    /\ NotReady
    /\ UNCHANGED <<treeVars, envFile, before, turns>>

Retag ==
    /\ Is("retag")
    /\ image' = fallback
    /\ StepsTo("return")
    /\ UNCHANGED <<checkout, fallback, dist, serving, schema, envFile, before, turns, mishaps>>

RestoreCheckout ==
    /\ Is("return")
    /\ checkout' = PutBack
    /\ StepsTo(IF job.mode = "compose" THEN "start" ELSE "pmBuild")
    /\ UNCHANGED <<image, fallback, dist, serving, schema, envFile, before, turns, mishaps>>

\* deploy-pm2.sh: it builds, then stops what runs and starts what it built.
PmBuild ==
    /\ Is("pmBuild")
    /\ \/ dist' = checkout.at /\ StepsTo("pmStop") /\ UNCHANGED mishaps
       \/ dist' \in {dist, Half} /\ NotReady /\ Mishap
    /\ UNCHANGED <<checkout, image, fallback, serving, schema, envFile, before, turns>>

PmStop ==
    /\ Is("pmStop")
    /\ serving' = [serving EXCEPT !["pm2"] = NoCommit]
    /\ StepsTo("pmStart")
    /\ UNCHANGED <<checkout, image, fallback, dist, schema, envFile, before, turns, mishaps>>

PmStart ==
    /\ Is("pmStart")
    /\ \/ Serves("pm2", dist) /\ StepsTo("pmReady") /\ UNCHANGED mishaps
       \/ NotReady /\ Mishap /\ UNCHANGED <<serving, schema>>
    /\ UNCHANGED <<checkout, image, fallback, dist, envFile, before, turns>>

PmReady ==
    /\ Is("pmReady")
    /\ IF serving["pm2"] \in Sound THEN Arrived ELSE NotReady
    /\ UNCHANGED <<treeVars, envFile, before, turns, mishaps>>

\* A script ends, and the lock is free again; so it is when it is killed, which
\* no trap sees.
Leave == Is("leaving") /\ job' = NoJob /\ before' = World /\ UNCHANGED <<treeVars, envFile, turns, mishaps>>
Killed ==
    /\ job.step \notin {"none", "leaving"} /\ Mishap
    /\ job' = NoJob /\ before' = World
    /\ UNCHANGED <<treeVars, envFile, turns>>

DeployNext ==
    \/ FillIn \/ \E a \in Asked : BeginDeploy(a)
    \/ FindMode \/ \E c \in Commit : ResolveTarget(c)
    \/ TagPrevious \/ CheckoutTarget \/ BuildImage \/ TakeBackup \/ CommandFails \/ UndoingFails
    \/ Start \/ StartFails \/ WaitReady \/ TooLate \/ Retag \/ RestoreCheckout
    \/ PmBuild \/ PmStop \/ PmStart \/ PmReady
    \/ Leave \/ Killed

DeploySpec == DeployInit /\ [][DeployNext]_deployVars

-----------------------------------------------------------------------------
(***************************************************************************)
(* What the scripts promise.                                               *)
(***************************************************************************)

\* The checkout, the image and what runs are of one commit.
Coherent(w) == \E m \in Runtime :
    /\ w.serving = Deployed(w.checkout.at, m)
    /\ m = "compose" => w.image = w.checkout.at

Leaves(end) == Is("leaving") /\ job.end = end

\* Two runtimes never hold one database, whoever deploys with what.
OneRuntime == Cardinality(Existing) <= 1

\* A redeploy that fails before its restart leaves the checkout, the image and
\* the running gateway as it found them.
FailureLeavesAll ==
    Leaves("failed") /\ job.undone /\ job.asked.kind = "redeploy" /\ (job.mode = "compose" => job.hadImage \/ image = NoCommit) =>
        World = before

\* One that says it rolled back has what ran before running again, and the
\* checkout and image as they were; one that says it deployed serves its target.
RolledBackServes ==
    Leaves("rolled back") /\ Coherent(before) =>
        checkout = before.checkout /\ serving = before.serving /\ image = before.image
DeployedServes ==
    Leaves("deployed") =>
        /\ serving = Deployed(checkout.at, job.mode) /\ checkout.at \in Sound
        /\ job.asked.kind = "redeploy" => checkout.at = job.target

\* When no command fails, a gateway that was sound serves after any redeploy
\* that may go back.
SomethingServes ==
    Is("leaving") /\ job.asked.rollback /\ mishaps = 0 /\ Coherent(before) /\ before.checkout.at \in Sound =>
        \E m \in Runtime : serving[m] \in Sound

\* The backup that was asked for is of the database from before the new
\* version touched it.
BackedUpFirst == job.asked.backup /\ job.restarted => job.archive = before.schema

RedeploysSafe ==
    /\ DeployTypeOK /\ OneRuntime /\ FailureLeavesAll /\ RolledBackServes /\ DeployedServes /\ SomethingServes
    /\ BackedUpFirst

-----------------------------------------------------------------------------
(***************************************************************************)
(* Archives of the database, and the way back from one.  A recovery        *)
(* passphrase is compared in its normal form.                              *)
(***************************************************************************)

VARIABLES
    database,   \* at SQLITE_PATH
    gateway,    \* the key of the gateway that runs on it, or NotGiven
    archives,   \* the directory of backups
    manifests,
    backups,
    restore,
    restores,
    incidents

archiveVars == <<database, gateway, archives, manifests, backups, restore, restores, incidents>>

NotThere == [kind |-> "none"]
Torn == [kind |-> "torn"]  \* written in part
Whole(f) == f.kind \notin {"none", "torn"}

\* Of a database: the keys its secrets are sealed with, and how its schema
\* compares with the migrations of the tool.
Contents ==
    [kind : {"database"}, sealed : SUBSET MasterKey, schema : {"older", "latest", "newer"}, intact : BOOLEAN]
Empty(schemaOf) == [kind |-> "database", sealed |-> {}, schema |-> schemaOf, intact |-> TRUE]
MigratedBy(d) == IF d.schema = "older" THEN [d EXCEPT !.schema = "latest"] ELSE d

\* What a byte can be lost of: the sealed data, or the sealed key beside it.
Section == {"payload", "recovery"}
Archive == [kind : {"archive"}, data : Contents, key : MasterKey, wrapped : Passphrase \cup {NotGiven}, harm : SUBSET Section]
Manifest == [kind : {"manifest"}, of : Archive]

NoBackup == [at |-> "idle", key |-> NotGiven, pass |-> NotGiven, stamp |-> NotGiven, data |-> NotThere]
NoRestore == [at |-> "none", stamp |-> NotGiven, key |-> NotGiven, pass |-> NotGiven, force |-> FALSE, data |-> NotThere,
              opened |-> NotGiven, found |-> NotThere]

ArchivesInit ==
    /\ database \in {NotThere, Empty("newer")} \cup {[Empty("older") EXCEPT !.sealed = keys] : keys \in SUBSET MasterKey}
    /\ gateway = NotGiven
    /\ archives = [t \in Stamp |-> NotThere] /\ manifests = [t \in Stamp |-> NotThere]
    /\ backups = [b \in Backup |-> NoBackup] /\ restore = NoRestore /\ restores = 0
    /\ incidents = 0

ArchivesTypeOK ==
    /\ database \in Contents \cup {NotThere} /\ gateway \in MasterKey \cup {NotGiven}
    /\ archives \in [Stamp -> Archive \cup {NotThere, Torn}]
    /\ manifests \in [Stamp -> Manifest \cup {NotThere, Torn}]
    /\ \A b \in Backup : backups[b].at \in {"idle", "snapshot", "archive", "archived", "manifest", "ended"}
    /\ restore.at \in {"none", "temp", "migrated", "removed", "restored", "failed", "killed"}
    /\ restores \in 0..MaxRestores /\ incidents \in 0..MaxIncidents

-----------------------------------------------------------------------------

fileVars == <<archives, manifests, backups, restore, restores>>
Change == incidents < MaxIncidents /\ incidents' = incidents + 1

\* While a restore runs the gateway is stopped.
GatewayStarts(k) ==
    /\ gateway = NotGiven /\ restore.at = "none" /\ Change
    /\ database # NotThere => database.intact
    /\ gateway' = k
    /\ database' = IF database = NotThere THEN Empty("latest") ELSE MigratedBy(database)
    /\ UNCHANGED fileVars

GatewaySeals ==
    /\ gateway # NotGiven /\ gateway \notin database.sealed /\ Change
    /\ database' = [database EXCEPT !.sealed = @ \cup {gateway}]
    /\ UNCHANGED <<fileVars, gateway>>

GatewayStops == gateway # NotGiven /\ gateway' = NotGiven /\ UNCHANGED <<fileVars, database, incidents>>

\* A disk loses a page of the database, or a byte of an archive.
Decays ==
    /\ database # NotThere /\ gateway = NotGiven /\ restore.at = "none" /\ Change
    /\ database' = [database EXCEPT !.intact = FALSE]
    /\ UNCHANGED <<fileVars, gateway>>
Alters(t, section) ==
    /\ Whole(archives[t]) /\ Change
    /\ archives' = [archives EXCEPT ![t].harm = {section}]
    /\ UNCHANGED <<database, gateway, manifests, backups, restore, restores>>

-----------------------------------------------------------------------------

liveVars == <<database, gateway, restore, restores, incidents>>

BackupEnded == [NoBackup EXCEPT !.at = "ended"]
Proceeds(b, to) == backups' = [backups EXCEPT ![b] = IF to = "ended" THEN BackupEnded ELSE [@ EXCEPT !.at = to]]

\* createEncryptedBackup: a consistent copy of an intact database.  A weak
\* passphrase, and a database that is not intact, leave nothing behind.
Snapshots(b, k, p, t) ==
    /\ backups[b].at = "idle" /\ p \notin Weak /\ database # NotThere /\ database.intact
    /\ backups' = [backups EXCEPT ![b] = [at |-> "snapshot", key |-> k, pass |-> p, stamp |-> t, data |-> database]]
    /\ UNCHANGED <<liveVars, archives, manifests>>

\* The key opens one of the secrets that are looked at, or there is none.
KeyOpens(k, d) == d.sealed = {} \/ k \in d.sealed
\* Three of a column are looked at: of several keys the right one may be missed.
Missed(d) == Cardinality(d.sealed) > 1

CreatesArchive(b) ==
    LET t == backups[b].stamp
    IN  /\ backups[b].at = "snapshot"
        /\ \/ /\ KeyOpens(backups[b].key, backups[b].data) /\ archives[t] = NotThere
              /\ archives' = [archives EXCEPT ![t] = Torn] /\ Proceeds(b, "archive")
           \/ /\ archives[t] # NotThere \/ ~KeyOpens(backups[b].key, backups[b].data) \/ Missed(backups[b].data)
              /\ UNCHANGED archives /\ Proceeds(b, "ended")
        /\ UNCHANGED <<liveVars, manifests>>

\* wrapMasterKey seals the key the archive is encrypted with.
Archived(b) ==
    [kind |-> "archive", data |-> backups[b].data, key |-> backups[b].key, wrapped |-> backups[b].pass, harm |-> {}]
FinishesArchive(b) ==
    /\ backups[b].at = "archive"
    /\ archives' = [archives EXCEPT ![backups[b].stamp] = Archived(b)] /\ Proceeds(b, "archived")
    /\ UNCHANGED <<liveVars, manifests>>

CreatesManifest(b) ==
    LET t == backups[b].stamp
    IN  /\ backups[b].at = "archived"
        /\ IF manifests[t] = NotThere
           THEN manifests' = [manifests EXCEPT ![t] = Torn] /\ Proceeds(b, "manifest")
           ELSE UNCHANGED manifests /\ Proceeds(b, "ended")
        /\ UNCHANGED <<liveVars, archives>>

FinishesManifest(b) ==
    /\ backups[b].at = "manifest"
    /\ manifests' = [manifests EXCEPT ![backups[b].stamp] = [kind |-> "manifest", of |-> Archived(b)]]
    /\ Proceeds(b, "ended")
    /\ UNCHANGED <<liveVars, archives>>

\* The disk is full, or the process is killed.
BackupDies(b) ==
    /\ backups[b].at \in {"snapshot", "archive", "archived", "manifest"}
    /\ Proceeds(b, "ended")
    /\ UNCHANGED <<liveVars, archives, manifests>>

-----------------------------------------------------------------------------

backupVars == <<gateway, archives, manifests, backups>>

\* verifyManifestIfPresent and parseArchive.
Verified(t) ==
    /\ Whole(archives[t]) /\ manifests[t] # Torn
    /\ manifests[t] # NotThere => manifests[t].of = archives[t]

\* A passphrase wins over a key; without a key there must be one.
KeyFor(t, k, p) ==
    IF p = NotGiven THEN k
    ELSE IF archives[t].wrapped = p /\ "recovery" \notin archives[t].harm THEN archives[t].key ELSE NotGiven
Decrypts(t, k) == k = archives[t].key /\ "payload" \notin archives[t].harm

CanOpen(t, k, p, force) ==
    /\ force \/ database = NotThere
    /\ Verified(t) /\ Decrypts(t, KeyFor(t, k, p))

BeginsRestore(t, k, p, force) ==
    /\ restore.at = "none" /\ restores < MaxRestores /\ gateway = NotGiven
    /\ k # NotGiven \/ p # NotGiven
    /\ restores' = restores + 1
    /\ restore' = [NoRestore EXCEPT !.stamp = t, !.key = k, !.pass = p, !.force = force, !.found = database,
                     !.at = IF CanOpen(t, k, p, force) THEN "temp" ELSE "failed",
                     !.opened = IF CanOpen(t, k, p, force) THEN KeyFor(t, k, p) ELSE NotGiven,
                     !.data = IF CanOpen(t, k, p, force) THEN archives[t].data ELSE NotThere]
    /\ UNCHANGED <<backupVars, database, incidents>>

MigratesTemp ==
    /\ restore.at = "temp"
    /\ restore' = IF restore.data.intact /\ restore.data.schema # "newer"
                  THEN [restore EXCEPT !.at = "migrated", !.data = MigratedBy(restore.data)]
                  ELSE [restore EXCEPT !.at = "failed"]
    /\ UNCHANGED <<backupVars, database, incidents, restores>>

RemovesTarget ==
    /\ restore.at = "migrated"
    /\ restore' = [restore EXCEPT !.at = "removed"]
    /\ database' = IF restore.force THEN NotThere ELSE database
    /\ UNCHANGED <<backupVars, incidents, restores>>

Renames ==
    /\ restore.at = "removed"
    /\ database' = restore.data /\ restore' = [restore EXCEPT !.at = "restored"]
    /\ UNCHANGED <<backupVars, incidents, restores>>

RestoreDies ==
    /\ restore.at \in {"temp", "migrated", "removed"}
    /\ restore' = [restore EXCEPT !.at = "killed"]
    /\ UNCHANGED <<backupVars, database, incidents, restores>>

\* Whoever ran it looks at what it said.
RestoreIsOver ==
    /\ restore.at \in {"restored", "failed", "killed"}
    /\ restore' = NoRestore
    /\ UNCHANGED <<backupVars, database, incidents, restores>>

ArchivesNext ==
    \/ \E k \in MasterKey : GatewayStarts(k)
    \/ GatewaySeals \/ GatewayStops \/ Decays
    \/ \E t \in Stamp, section \in Section : Alters(t, section)
    \/ \E b \in Backup :
          \/ \E k \in MasterKey, p \in Passphrase \cup {NotGiven}, t \in Stamp : Snapshots(b, k, p, t)
          \/ CreatesArchive(b) \/ FinishesArchive(b) \/ CreatesManifest(b) \/ FinishesManifest(b) \/ BackupDies(b)
    \/ \E t \in Stamp, k \in MasterKey \cup {NotGiven}, p \in Passphrase \cup {NotGiven}, force \in BOOLEAN :
          BeginsRestore(t, k, p, force)
    \/ MigratesTemp \/ RemovesTarget \/ Renames \/ RestoreDies \/ RestoreIsOver

ArchivesSpec == ArchivesInit /\ [][ArchivesNext]_archiveVars

-----------------------------------------------------------------------------

\* An archive holds a database that was intact, under a key
\* that opens secrets in it; so a passphrase, never a weak one, gives back a
\* key that does.
ArchivesOpen ==
    \A t \in Stamp : Whole(archives[t]) =>
        /\ archives[t].data.intact
        /\ KeyOpens(archives[t].key, archives[t].data)
        /\ archives[t].wrapped \notin Weak

\* A manifest that can be read lies beside the archive it describes.
ManifestsDescribe ==
    \A t \in Stamp : Whole(manifests[t]) => Whole(archives[t]) /\ [archives[t] EXCEPT !.harm = {}] = manifests[t].of

\* What a restore puts in place is a whole archive's data, on this release's
\* schema, and the key it names opens secrets in it.
RestoredIsWhole ==
    restore.at = "restored" =>
        /\ database.intact /\ database.schema = "latest"
        /\ database = MigratedBy(archives[restore.stamp].data) /\ KeyOpens(restore.opened, database)

\* One that fails leaves the database as it was.  One that is killed leaves
\* that, the restored one or, with --force alone, none; never a part of one.
OthersLeaveIt ==
    /\ restore.at \in {"failed", "temp", "migrated"} => database = restore.found
    /\ restore.at = "killed" =>
          \/ database = restore.found
          \/ restore.force /\ database = NotThere

ArchivesSafe ==
    ArchivesTypeOK /\ ArchivesOpen /\ ManifestsDescribe /\ RestoredIsWhole /\ OthersLeaveIt

\* Whoever has an unharmed archive and its key, or the passphrase alone, gets
\* the database back.
Begun == restore.at # "failed" /\ restore'.at = "failed"
NothingElseStopsIt ==
    [][LET t == restore'.stamp
       IN  Begun /\ Whole(archives[t]) =>
            \/ archives[t].harm # {} \/ manifests[t] = Torn \/ archives[t].data.schema = "newer"
            \/ database # NotThere /\ ~restore'.force
            \/ IF restore'.pass # NotGiven THEN restore'.pass # archives[t].wrapped ELSE restore'.key # archives[t].key]_archiveVars

\* What is in an archive once it is written stays there, whatever is backed up
\* in the same millisecond.
ArchivesStay ==
    [][\A t \in Stamp : Whole(archives[t]) =>
          [archives'[t] EXCEPT !.harm = archives[t].harm] = archives[t]]_archiveVars

\* What the operator's scripts promise, of redeploys and of archives.
DeploymentSafe == [](RedeploysSafe /\ ArchivesSafe) /\ ArchivesStay /\ NothingElseStopsIt

=============================================================================
