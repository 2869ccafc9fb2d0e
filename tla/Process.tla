------------------------------ MODULE Process -------------------------------
(***************************************************************************)
(* How a process comes to serve, what it can be set to, and how it goes.   *)
(* The environment must give a configuration that can be used; the         *)
(* database is migrated, one transaction each, and compared with what this *)
(* release's migrations describe.  A release may have been edited after it *)
(* ran, be older than the database or start beside another, and any of it  *)
(* can be cut short.                                                       *)
(***************************************************************************)
EXTENDS Integers, Sequences, FiniteSets

CONSTANTS
    Processes,
    Environments,
    ProgramVersions,     \* each the sequence of its migrations, a migration the columns it adds
    Malformed            \* a value that the parser of its setting refuses

ASSUME StartupAssumption == \A r \in ProgramVersions : r \in Seq(SUBSET UNION {r[i] : i \in DOMAIN r})

Blank == ""
Week == 604800

\* The settings.  Some must be given, and a key is as many bytes as it decodes
\* to; many are only parsed, and what follows has a default.
Text == {"GOOGLE_CLIENT_ID", "GOOGLE_CLIENT_SECRET", "GOOGLE_REDIRECT_URI"}
KeyBytes == {"MASTER_ENCRYPTION_KEY", "SESSION_SECRET"}
Parsed == {"LOG_LEVEL", "S3_DELETE_MODE", "S3_PUBLIC_ENDPOINT", "S3_VIRTUAL_HOSTED_DOMAIN", "BACKUP_RCLONE_REMOTES",
           "switches", "sizes and ages"}
Counts ==
    [uploads |-> 2, downloads |-> 4, driveRequests |-> 8, attempts |-> 5, cleanupBatch |-> 50,
     cleanupInterval |-> 60000, stagingStale |-> 3600000, reconcileBatch |-> 100, importPage |-> 100,
     importBatch |-> 5, importInterval |-> 2000, expiryBatch |-> 50]
Rates ==
    [login |-> 10, credentials |-> 20, signatures |-> 30, s3 |-> 200, anonymous |-> 50, shares |-> 50, mfa |-> 8,
     keys |-> 10000]
Bounds ==
    [tick |-> 60, interval |-> 15, failures |-> 5, partMb |-> 16, chunk |-> 8388608, shortest |-> 1, longest |-> Week,
     json |-> 65536, xml |-> 1048576, parts |-> 10000, partBytes |-> 5242880, cache |-> 60]
Named ==
    [mode |-> "development", tls |-> FALSE, origin |-> "http", domain |-> Blank, emails |-> {}, inline |-> "none",
     file |-> "none", project |-> Blank]
Setting == Text \cup KeyBytes \cup Parsed \cup DOMAIN Counts \cup DOMAIN Rates \cup DOMAIN Bounds \cup DOMAIN Named

\* Without its default a setting that must be given is refused.
Default(s) ==
    IF s \in DOMAIN Counts THEN Counts[s]
    ELSE IF s \in DOMAIN Rates THEN Rates[s]
    ELSE IF s \in DOMAIN Bounds THEN Bounds[s]
    ELSE IF s \in DOMAIN Named THEN Named[s]
    ELSE IF s \in Parsed THEN "given" ELSE Malformed

\* What a value is once it is parsed: a number is whole and not negative, a
\* list holds no empty name, a key file is read where it is named.
Parses(s, v) ==
    /\ s = "mode" => v \in {"development", "production", "test"}
    /\ s = "tls" => v \in BOOLEAN
    /\ s = "origin" => v \in {"http", "https", "other"}
    /\ s = "emails" => Blank \notin v
    /\ s \in {"domain", "project"} => v # Blank
    /\ s \in {"inline", "file"} => v \in {"names a project", "names none"}
    /\ s \in Text \cup Parsed => v = "given"
    /\ s \in KeyBytes \cup DOMAIN Counts \cup DOMAIN Rates \cup DOMAIN Bounds => v \in Nat

\* An environment gives some of the settings; a blank one is not given.
IsEnvironment(e) == DOMAIN e \subseteq Setting /\ \A s \in DOMAIN e : e[s] = Malformed \/ Parses(s, e[s])
ASSUME EnvironmentsAssumption == \A e \in Environments : IsEnvironment(e)

VARIABLES
    env,        \* what the environment sets
    applied,    \* schema_migrations: its versions
    columns,    \* the columns the tables have
    committed,  \* history: the versions, in the order they were committed
    booting     \* process -> release, where it is and the versions it saw applied

startVars == <<env, applied, columns, committed, booting>>

-----------------------------------------------------------------------------
(* The configuration.                                                      *)

Value(e, s) == IF s \in DOMAIN e THEN e[s] ELSE Default(s)

\* The quota probe has a project to read and an account to read it as, or
\* neither; the account is given in one way.
ServiceAccount(e) == IF Value(e, "file") = "none" THEN Value(e, "inline") ELSE Value(e, "file")
Project(e) ==
    IF Value(e, "project") = Blank /\ ServiceAccount(e) = "names a project" THEN "its own" ELSE Value(e, "project")
QuotaAccepted(e) ==
    /\ Value(e, "cache") >= 10
    /\ Value(e, "inline") = "none" \/ Value(e, "file") = "none"
    /\ Project(e) = Blank <=> ServiceAccount(e) = "none"

ExpiriesAccepted(e) ==
    /\ Value(e, "shortest") >= 1 /\ Value(e, "longest") <= Week
    /\ Value(e, "shortest") <= Value(e, "longest")

ConfigAccepted(e) ==
    /\ \A s \in Setting : Value(e, s) # Malformed
    /\ Value(e, "MASTER_ENCRYPTION_KEY") = 32 /\ Value(e, "SESSION_SECRET") >= 32
    /\ QuotaAccepted(e) /\ ExpiriesAccepted(e)
    /\ Value(e, "domain") # Blank \/ Value(e, "emails") # {}
    /\ Value(e, "mode") = "production" => Value(e, "tls") /\ Value(e, "origin") # "http"
    /\ Value(e, "partBytes") > 0 /\ Value(e, "parts") > 0 /\ Value(e, "parts") <= 10000
    /\ \A s \in DOMAIN Counts \cup DOMAIN Rates : Value(e, s) > 0
    /\ Value(e, "tick") >= 5 /\ Value(e, "interval") >= 1 /\ Value(e, "failures") >= 1
    /\ Value(e, "partMb") >= 5 /\ Value(e, "partMb") <= 5120
    /\ Value(e, "importPage") <= 1000 /\ Value(e, "chunk") % 262144 = 0
    /\ Value(e, "json") >= 1024 /\ Value(e, "xml") >= 4096

\* What S3 and Drive take: megabytes of a part, parts of an upload, files of a page.
LargestPart == 5120
MostParts == 10000
LargestPage == 1000
PartSizes == 5..LargestPart
PartNumbers == 1..MostParts
FilesPerPage == 1..LargestPage

\* What the code that uses a configuration relies on without looking again.
Usable(e) ==
    /\ \E t \in Value(e, "shortest")..Value(e, "longest") : t \in 1..Week
    /\ Value(e, "partMb") \in PartSizes /\ Value(e, "parts") \in PartNumbers
    /\ Value(e, "importPage") \in FilesPerPage
    /\ Project(e) # Blank <=> ServiceAccount(e) \in {"names a project", "names none"}
    /\ \E who \in Value(e, "emails") \cup {Value(e, "domain")} : who # Blank
    /\ Value(e, "mode") = "production" => Value(e, "tls") = TRUE

-----------------------------------------------------------------------------

Idle == [at |-> "down", release |-> <<>>, saw |-> {}]
Expected(release) == UNION {release[i] : i \in DOMAIN release}

Boot == [at : {"down", "migrating", "serving"}, release : ProgramVersions \cup {<<>>}, saw : SUBSET Nat]

StartTypeOK ==
    /\ IsEnvironment(env) /\ committed \in Seq(Nat)
    /\ applied \subseteq Nat /\ columns \subseteq UNION {Expected(r) : r \in ProgramVersions}
    /\ booting \in [Processes -> Boot] /\ \A p \in Processes : booting[p].saw \subseteq applied

NothingYet ==
    /\ applied = {} /\ columns = {} /\ committed = <<>>
    /\ booting = [p \in Processes |-> Idle]
StartInit == env \in Environments /\ NothingYet

Enters(p, to) == booting' = [booting EXCEPT ![p] = to]
SchemaKept == UNCHANGED <<applied, columns, committed>>

\* The versions applied so far are read once, before the first transaction.
Boots(p, r) ==
    /\ booting[p].at = "down" /\ ConfigAccepted(env)
    /\ Enters(p, [at |-> "migrating", release |-> r, saw |-> applied]) /\ SchemaKept
Due(p) == {v \in DOMAIN booting[p].release : v \notin booting[p].saw}

\* A migration and its row are one transaction.  It fails, and the start with
\* it, if a column is there already or the version was recorded by another.
Commits(p, v) == v \notin applied /\ booting[p].release[v] \cap columns = {}
AfterFailure(p, v) == Idle
Migrate(p) ==
    LET v == CHOOSE w \in Due(p) : \A x \in Due(p) : w <= x
    IN  /\ booting[p].at = "migrating" /\ Due(p) # {}
        /\ IF Commits(p, v)
           THEN /\ applied' = applied \cup {v} /\ columns' = columns \cup booting[p].release[v]
                /\ committed' = Append(committed, v)
                /\ Enters(p, [booting[p] EXCEPT !.saw = @ \cup {v}])
           ELSE Enters(p, AfterFailure(p, v)) /\ SchemaKept

\* A difference in columns stops the start; a schema with more is none.
MutDrift(p) == {}
Drift(p) == Expected(booting[p].release) \ columns
Serve(p) ==
    /\ booting[p].at = "migrating" /\ Due(p) = {}
    /\ Enters(p, IF Drift(p) = {} THEN [booting[p] EXCEPT !.at = "serving"] ELSE Idle)
    /\ SchemaKept

\* Killed, or stopped: what a transaction had not committed is not there.
Down(p) == booting[p].at # "down" /\ Enters(p, Idle) /\ SchemaKept

MaxVersion(versions) == IF versions = {} THEN 0 ELSE CHOOSE v \in versions : \A w \in versions : w <= v
ReportsReady(p) == MaxVersion(applied) >= Len(booting[p].release)

StartNext ==
    /\ \E p \in Processes : Migrate(p) \/ Serve(p) \/ Down(p) \/ \E r \in ProgramVersions : Boots(p, r)
    /\ UNCHANGED env

StartSpec == StartInit /\ [][StartNext]_startVars

-----------------------------------------------------------------------------

\* A configuration that is accepted can be used: some expiry is allowed, the
\* quota probe has both its halves or none, someone can log in.
AcceptedIsUsable == ConfigAccepted(env) => Usable(env)

\* A process serves only while the database has every column that its own
\* release's migrations describe, though another was edited or ran before.
ServesItsSchema ==
    \A p \in Processes : booting[p].at = "serving" => Expected(booting[p].release) \subseteq columns /\ ReportsReady(p)

\* Every version is committed once and in order, whoever starts meanwhile.
VersionsInOrder ==
    /\ \A i \in DOMAIN committed : committed[i] = i
    /\ applied = {committed[i] : i \in DOMAIN committed}

\* What a start promises: a configuration that is accepted is usable, the
\* process serves with the schema it was built for, and versions only rise.
StartSafe == StartTypeOK /\ AcceptedIsUsable /\ ServesItsSchema /\ VersionsInOrder

-----------------------------------------------------------------------------
(***************************************************************************)
(* The background workers of a process that serves, and how they are       *)
(* stopped: one after the other, each waited for before the next is told,  *)
(* while the timers of the others go on firing.                            *)
(***************************************************************************)

CONSTANTS
    Flagged,      \* workers whose pass asks whether they are stopping
    Unflagged     \* and those whose pass does not

Order == <<"scheduler", "snapshot", "transfer", "import", "expiry", "cleanup">>
Workers == Flagged \cup Unflagged

ASSUME ShutdownAssumption == Workers = {Order[i] : i \in DOMAIN Order} /\ Flagged \cap Unflagged = {}

VARIABLES
    life,     \* of the process: "up", "draining" or "exited"
    told,     \* how many of the workers have been told to stop, in their order
    timers,   \* workers with an interval
    first,    \* workers whose first pass is still to come
    passing   \* workers in the middle of a pass

lifeVars == <<life, told, timers, first, passing>>

ShutdownTypeOK ==
    /\ life \in {"up", "draining", "exited"}
    /\ told \in 0..Len(Order)
    /\ \A ws \in {timers, first, passing} : ws \subseteq Workers
    /\ \A i \in 1..told : Order[i] \notin timers

\* Every worker that is started has an interval and an early first pass; the
\* scheduler and the snapshots may be switched off.
ShutdownInit ==
    /\ timers \in {Workers, Workers \ {"scheduler", "snapshot"}}
    /\ life = "up" /\ told = 0 /\ passing = {} /\ first = timers

-----------------------------------------------------------------------------

Stopping(w) == w \in Flagged /\ \E i \in 1..told : w = Order[i]

\* A pass begins unless one is under way, at the first timeout or an interval's.
MayPass(w) == w \notin passing /\ ~Stopping(w)
FirstFires(w) ==
    /\ life # "exited" /\ w \in first /\ first' = first \ {w}
    /\ passing' = IF MayPass(w) THEN passing \cup {w} ELSE passing
    /\ UNCHANGED <<life, told, timers>>
IntervalFires(w) ==
    /\ life # "exited" /\ w \in timers /\ MayPass(w) /\ passing' = passing \cup {w}
    /\ UNCHANGED <<life, told, timers, first>>
PassEnds(w) ==
    /\ life # "exited" /\ w \in passing /\ passing' = passing \ {w}
    /\ UNCHANGED <<life, told, timers, first>>

TellNext == told' = told + 1 /\ timers' = timers \ {Order[told + 1]}
Sigterm ==
    /\ life = "up" /\ life' = "draining" /\ TellNext /\ UNCHANGED <<first, passing>>

\* The next is told when the last one told is between passes; after the last
\* of all the database is closed and the process exits.
MutPassOver(w) == TRUE
PassOver(w) == w \notin passing
StopNext ==
    /\ life = "draining" /\ PassOver(Order[told])
    /\ IF told < Len(Order) THEN TellNext /\ UNCHANGED life
       ELSE life' = "exited" /\ UNCHANGED <<told, timers>>
    /\ UNCHANGED <<first, passing>>

ShutdownNext ==
    Sigterm \/ StopNext \/ \E w \in Workers : FirstFires(w) \/ IntervalFires(w) \/ PassEnds(w)

\* A pass is a bounded batch, or is aborted; timers fire in time.
ShutdownFairness ==
    /\ WF_lifeVars(StopNext)
    /\ \A w \in Workers : WF_lifeVars(PassEnds(w))

ShutdownSpec == ShutdownInit /\ [][ShutdownNext]_lifeVars /\ ShutdownFairness

-----------------------------------------------------------------------------

\* At the exit no worker that has such a flag is in the middle of a pass,
\* whichever timers fired while the others were waited for.
DrainedAtExit == life = "exited" => passing \cap Flagged = {}

\* A process that is told to stop does.
ShutdownEnds == (life = "draining") ~> (life = "exited")

\* What a stop promises: it ends, and with nobody at work who had been told.
StopSafe == [](ShutdownTypeOK /\ DrainedAtExit) /\ ShutdownEnds

-----------------------------------------------------------------------------
(***************************************************************************)
(* The settings an admin can change while the process serves: the Google   *)
(* client it logs in with, kept as two rows, the secret sealed, and the    *)
(* name of root folders.  Absent rows fall back to the environment.  What  *)
(* is in use is a copy in memory, and the rows are written one at a time.  *)
(***************************************************************************)

CONSTANTS
    GoogleClients,   \* each has an id and a secret of its own
    EnvClient,       \* the environment's
    FolderNames, DefaultName,
    MasterKeys,
    Unset

ASSUME SettingsAssumption ==
    /\ EnvClient \in GoogleClients /\ DefaultName \in FolderNames
    /\ Unset \notin GoogleClients \cup FolderNames \cup MasterKeys

VARIABLES
    idRow, secretRow, nameRow,  \* the rows of app_settings, or Unset
    sealedBy,                   \* the key the secret's row is sealed with
    masterKey,                  \* of the process
    inUse,                      \* its copy in memory, or Unset while it is down
    torn                        \* history: a process died between two rows

settingVars == <<idRow, secretRow, nameRow, sealedBy, masterKey, inUse, torn>>

Or(row, fallback) == IF row = Unset THEN fallback ELSE row

\* reload: what the rows, or else the environment, say.  The copy says of
\* each half whether it came from a row.
Reloaded(id, secret, name) ==
    [id |-> Or(id, EnvClient), secret |-> Or(secret, EnvClient), name |-> Or(name, DefaultName),
     idFromDb |-> id # Unset, secretFromDb |-> secret # Unset]
Readable(k) == secretRow = Unset \/ sealedBy = k

SettingsTypeOK ==
    /\ idRow \in GoogleClients \cup {Unset} /\ secretRow \in GoogleClients \cup {Unset}
    /\ nameRow \in FolderNames \cup {Unset} /\ sealedBy \in MasterKeys \cup {Unset} /\ masterKey \in MasterKeys
    /\ secretRow = Unset <=> sealedBy = Unset
    /\ inUse = Unset \/ (inUse.id \in GoogleClients /\ inUse.secret \in GoogleClients /\ inUse.name \in FolderNames)

SettingsInit ==
    /\ idRow = Unset /\ secretRow = Unset /\ nameRow = Unset /\ sealedBy = Unset
    /\ masterKey \in MasterKeys /\ inUse = Reloaded(Unset, Unset, Unset) /\ torn = FALSE

Reloads == inUse' = Reloaded(idRow', secretRow', nameRow')

-----------------------------------------------------------------------------

\* Both halves are written, each by its own statement, and then read again.
Writes(c) == idRow' = c /\ secretRow' = c /\ sealedBy' = masterKey
UpdateClient(c) ==
    /\ inUse # Unset /\ Writes(c) /\ UNCHANGED <<nameRow, masterKey>>
    /\ Reloads /\ torn' = FALSE

Erases == idRow' = Unset /\ secretRow' = Unset /\ sealedBy' = Unset
MutReloadsAfterReset == UNCHANGED inUse
ReloadsAfterReset == Reloads
ResetClient ==
    /\ inUse # Unset /\ Erases /\ UNCHANGED <<nameRow, masterKey>>
    /\ ReloadsAfterReset /\ torn' = FALSE

UpdateName(n) ==
    /\ inUse # Unset /\ nameRow' = n /\ UNCHANGED <<idRow, secretRow, sealedBy, masterKey, torn>> /\ Reloads
ResetName ==
    /\ inUse # Unset /\ nameRow' = Unset /\ UNCHANGED <<idRow, secretRow, sealedBy, masterKey, torn>> /\ Reloads

\* The process dies: between two statements, or with none under way.
Dies == inUse # Unset /\ inUse' = Unset /\ UNCHANGED masterKey
DiesInUpdate(c) ==
    /\ Dies /\ idRow' = c /\ torn' = TRUE /\ UNCHANGED <<secretRow, nameRow, sealedBy>>
DiesInReset ==
    /\ Dies /\ idRow # Unset /\ idRow' = Unset /\ torn' = TRUE /\ UNCHANGED <<secretRow, nameRow, sealedBy>>
DiesIdle == Dies /\ UNCHANGED <<idRow, secretRow, nameRow, sealedBy, torn>>

\* A secret that the key does not open stops the start, and with it the page
\* that could reset it.
Opens(k) == Readable(k)
StartsWith(k) ==
    /\ inUse = Unset /\ masterKey' = k
    /\ inUse' = IF Opens(k) THEN Reloaded(idRow, secretRow, nameRow) ELSE Unset
    /\ UNCHANGED <<idRow, secretRow, nameRow, sealedBy, torn>>

SettingsNext ==
    \/ \E c \in GoogleClients : UpdateClient(c) \/ DiesInUpdate(c)
    \/ \E n \in FolderNames : UpdateName(n)
    \/ \E k \in MasterKeys : StartsWith(k)
    \/ ResetClient \/ ResetName \/ DiesInReset \/ DiesIdle

SettingsSpec == SettingsInit /\ [][SettingsNext]_settingVars

-----------------------------------------------------------------------------

\* The id and the secret the gateway presents to Google are of one client,
\* saved or from the environment, unless a process died between the two rows
\* and neither a save nor a reset came after.
OneClientsPair == inUse # Unset /\ ~torn => inUse.id = inUse.secret

\* What is in use is what the rows say, so that a restart changes nothing; and
\* the secret in use was opened with the key it was sealed with.
UsedIsStored ==
    inUse # Unset => inUse = Reloaded(idRow, secretRow, nameRow) /\ Readable(masterKey)

\* What the stored settings promise: the pair in use is of one client, and
\* what is in use is what is stored.
SettingsSafe == SettingsTypeOK /\ OneClientsPair /\ UsedIsStored

=============================================================================
