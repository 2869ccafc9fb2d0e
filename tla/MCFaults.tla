------------------------------ MODULE MCFaults ------------------------------
(***************************************************************************)
(* Small instances for TLC of what meets faults: a versioned delete that a *)
(* crash cuts short, copies to an S3 and to an rclone destination, the     *)
(* saved destination and its folders in Drive, the quota probe, the start  *)
(* and the stop of the process and its settings; and of calculations: the  *)
(* names of copies, the times of schedules and the configuration.          *)
(* They share no state; a behaviour is one of one of them, as focus says,  *)
(* so that one run explores them all.  In "names", "times", "merge" and    *)
(* "config" every input is an initial state and nothing happens.           *)
(***************************************************************************)
EXTENDS ObjectStoreCrash, BackupSinks, Destinations, QuotaProbe, ScheduleTime,
        Process, TLC

CONSTANTS k1, u1, u2, u3, d1, m1

VARIABLE focus

faultVars ==
    <<focus, vars, uploadVars, rcloneVars, nameVars, destVars, folderVars, probeVars, timeVars,
      startVars, lifeVars, settingVars>>

OneKey == {k1}
AllToOneKey == [p \in Upload \cup Deleter |-> k1]

\* A clock ahead of UTC or behind it, and the moments around its change.
ZoneOffsets == {-2, 0, 1}
AroundTheChange == -4..14

Aside(f, Chosen, Still) == IF focus = f THEN Chosen ELSE Still
NoUpload ==
    /\ size = 0 /\ given = 0 /\ source = "open" /\ gathered = <<>> /\ spare = <<>> /\ at = "first" /\ chunk = <<>>
    /\ queued = <<>> /\ etags = <<>> /\ upload = 0 /\ tries = 0 /\ cancelled = FALSE /\ failure = "none"
    /\ leftOpen = FALSE /\ stored = Before /\ uploads = <<>> /\ late = {}
NoRclone ==
    /\ length = 0 /\ real = 0 /\ ready = 0 /\ origin = "ended" /\ pump = "ended" /\ input = "ended" /\ pipe = 0
    /\ taken = 0 /\ child = "ok" /\ aborted = FALSE /\ copy = 0 /\ outcome = "done"
NoNames == sink = "s3" /\ wanted = <<>> /\ keyA = <<"x">> /\ keyB = <<"x">>
NoProbe ==
    /\ probeNow = 0 /\ token = Unknown /\ cached = Unknown /\ inFlight = Unknown
    /\ reading = [r \in Readers |-> NotReading] /\ askedAt = [r \in Readers |-> 0] /\ loaded = <<>>
    /\ limits = {} /\ samples = {}
NoTiming ==
    /\ timing = [frequency |-> "interval", interval |-> MinInterval, time |-> NoTime, days |-> {}, quiet |-> NoTime,
                 wait |-> NoTime, forBucket |-> FALSE]
    /\ zone = [old |-> 0, new |-> 0, change |-> 0] /\ after = 0

\* Releases: two in a row, a branch of them, one that was edited afterwards.
SomeReleases == {<<{"a"}>>, <<{"a"}, {"b"}>>, <<{"a"}, {"c"}>>, <<{"a", "c"}, {"b"}>>, <<{"a"}, {}, {"d"}>>}

\* Environments: one with a way to log in and one for production, with up to
\* two settings changed, each to both sides of its limits, malformed or not
\* given.
GivenKeys == "MASTER_ENCRYPTION_KEY" :> 32 @@ "SESSION_SECRET" :> 48
LoginPath == GivenKeys @@ [s \in Text |-> "given"] @@ "domain" :> "corp"
Production == LoginPath @@ "mode" :> "production" @@ "tls" :> TRUE @@ "origin" :> "https"
Numbers ==
    [tick |-> {4, 5}, interval |-> {0, 1}, failures |-> {0}, partMb |-> {4, 5, 5120, 5121}, chunk |-> {0, 262144, 300000},
     shortest |-> {0, Week, Week + 1}, longest |-> {0, 1, Week + 1}, json |-> {1023}, xml |-> {4095},
     parts |-> {0, 10000, 10001}, partBytes |-> {0}, cache |-> {9, 10}, importPage |-> {0, 1000, 1001}, uploads |-> {0, 1},
     keys |-> {0}]
Others ==
    [mode |-> {"production"}, tls |-> {FALSE}, origin |-> {"http", "other"}, emails |-> {{}, {"ann"}},
     inline |-> {"names a project", "names none"}, file |-> {"names a project", "names none"}, project |-> {"p"},
     MASTER_ENCRYPTION_KEY |-> {31, 33}, SESSION_SECRET |-> {31, 32}, BACKUP_RCLONE_REMOTES |-> {"given"}]
Values == Numbers @@ Others
Changed(e, f, v) == f :> v @@ e
NearEnvironments ==
    UNION {{Changed(Changed(e, f, v), g, w) : v \in Values[f], w \in Values[g]} :
             e \in {LoginPath, Production}, f \in DOMAIN Values, g \in DOMAIN Values}
    \cup {Changed(e, s, Malformed) : e \in {LoginPath, Production}, s \in Setting}
    \cup {[s \in DOMAIN e \ {left} |-> e[s]] : e \in {LoginPath, Production}, left \in Setting}

MCInit ==
    /\ focus \in {"crash", "s3", "rclone", "names", "destination", "folders", "probe", "merge", "times",
                 "config", "boot", "stop", "settings"}
    /\ Init /\ Aside("crash", TRUE, mode = "Enabled")
    /\ Aside("s3", UploadInit, NoUpload)
    /\ Aside("rclone", RcloneInit, NoRclone)
    /\ Aside("names", NamesInit, NoNames)
    /\ DestinationsInit /\ FoldersInit
    /\ Aside("merge", ProbeInit, NoProbe)
    /\ Aside("times", TimeInit, NoTiming)
    /\ Aside("config", StartInit, env = (IF focus = "boot" THEN LoginPath ELSE <<>>) /\ NothingYet)
    /\ ShutdownInit /\ Aside("stop", TRUE, timers = Workers)
    /\ SettingsInit /\ Aside("settings", TRUE, masterKey = m1)

\* The parts that step.
EarlierVars == <<vars, uploadVars, rcloneVars, destVars, folderVars, probeVars>>
LaterVars == <<startVars, lifeVars, settingVars>>

Earlier ==
    \/ focus = "crash" /\ NextC /\ UNCHANGED <<uploadVars, rcloneVars, destVars, folderVars, probeVars>>
    \/ focus = "s3" /\ UploadNext /\ UNCHANGED <<vars, rcloneVars, destVars, folderVars, probeVars>>
    \/ focus = "rclone" /\ RcloneNext /\ UNCHANGED <<vars, uploadVars, destVars, folderVars, probeVars>>
    \/ focus = "destination" /\ DestinationsNext /\ UNCHANGED <<vars, uploadVars, rcloneVars, folderVars, probeVars>>
    \/ focus = "folders" /\ FoldersNext /\ UNCHANGED <<vars, uploadVars, rcloneVars, destVars, probeVars>>
    \/ focus = "probe" /\ ProbeNext /\ UNCHANGED <<vars, uploadVars, rcloneVars, destVars, folderVars>>

Later ==
    \/ focus = "boot" /\ StartNext /\ UNCHANGED <<lifeVars, settingVars>>
    \/ focus = "stop" /\ ShutdownNext /\ UNCHANGED <<startVars, settingVars>>
    \/ focus = "settings" /\ SettingsNext /\ UNCHANGED <<startVars, lifeVars>>

MCNext ==
    /\ UNCHANGED <<focus, nameVars, timeVars>>
    /\ \/ Earlier /\ UNCHANGED LaterVars
       \/ Later /\ UNCHANGED EarlierVars

\* Only where the copy through rclone or the stop is looked at is anything fair.
MCFairness ==
    /\ WF_rcloneVars(focus = "rclone" /\ (Read \/ PipeBreaks \/ ReadLast))
    /\ WF_rcloneVars(focus = "rclone" /\ ChildReads) /\ WF_rcloneVars(focus = "rclone" /\ ChildStores)
    /\ WF_rcloneVars(focus = "rclone" /\ ChildFinishes) /\ WF_rcloneVars(focus = "rclone" /\ ChildExits("signal"))
    /\ WF_rcloneVars(focus = "rclone" /\ Settle)
    /\ WF_lifeVars(focus = "stop" /\ StopNext)
    /\ \A w \in Workers : WF_lifeVars(focus = "stop" /\ PassEnds(w))
MCSpec == MCInit /\ [][MCNext]_faultVars /\ MCFairness

\* A copy that is reported is whole, one that is not leaves nothing running or
\* open, each has a name of its own under its path, and every copy ends.
CopiesSafe ==
    /\ [](/\ UploadTypeOK /\ StoredWhole /\ NothingLeftOpen /\ FitsInParts
          /\ RcloneTypeOK /\ NeverPartial /\ NothingLeftRunning
          /\ StaysUnderPath /\ KeptApart)
    /\ CopyEnds

\* A saved destination is one that was accepted, unlinked for good once it is,
\* with one folder that is alive, and its quota is asked once a window, with a
\* good token, and not borrowed from another scope.
DestinationsSafe ==
    /\ [](/\ DestinationsTypeOK /\ StoredWasAccepted /\ FoldersTypeOK /\ OneFolderEach
          /\ OncePerWindow /\ AnswersAreFresh /\ NeverBorrows)
    /\ UnlinkedStays /\ TestsChangeStatusOnly /\ NothingDeadIsUsed /\ TokenIsGood

\* A schedule is always due again, at most once a day where it says daily, with
\* the quiet time it asks for.
CalculationsRight == AlwaysDueAgain /\ OnceADay /\ QuietIsEnough

=============================================================================
