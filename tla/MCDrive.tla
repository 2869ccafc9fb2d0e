------------------------------ MODULE MCDrive -------------------------------
(***************************************************************************)
(* Small instances for TLC of what works with Google Drive: an import from *)
(* it, the snapshots of the database into it, and what every call of it    *)
(* goes through.  They share no state; a behaviour is one of one of them,  *)
(* as focus says, so that one run explores them all.                       *)
(***************************************************************************)
EXTENDS DriveImport, DbSnapshots, DriveSlots, ResumableUpload, DriveQuota, TLC

VARIABLE focus

driveVars == <<focus, importVars, snapVars, slotVars, uploadVars, quotaVars>>

\* Folder 10 lists file 1 and folder 11, then file 2; folder 11 lists file 1
\* again and two files of one key, and its parent.
TwoFolders == {10, 11}
Listing == [f \in TwoFolders |-> IF f = 10 THEN <<{1, 11}, {2}>> ELSE <<{1, 3, 4, 10}>>]
Keys == [i \in 1..4 |-> IF i = 1 THEN "a" ELSE IF i = 2 THEN "b" ELSE "c"]

OneEach == [k \in Kind |-> 1]

\* Workers that swap their roles behave alike, and nobody works elsewhere.
Number == [read |-> 1, put |-> 2, copy |-> 3, import |-> 4, backup |-> 5]
Workers == IF focus = "slots"
           THEN SlotInit /\ \A t, u \in Task : t < u => Number[task[t].role] <= Number[task[u].role]
           ELSE /\ sem = [k \in Kind |-> [active |-> 0, queue |-> <<>>]]
                /\ task = [t \in Task |-> [role |-> "read", at |-> 1, waits |-> FALSE, has |-> {}, over |-> TRUE]]
Upload == IF focus = "upload" THEN UploadInit
          ELSE /\ body = [length |-> 0, declared |-> TRUE] /\ phase = "failed" /\ streamed = 0 /\ buffer = <<>>
               /\ offset = 0 /\ ended = TRUE /\ short = FALSE
               /\ session = [bytes |-> <<>>, total |-> Unknown, file |-> FALSE]

MCInit ==
    /\ focus \in {"import", "snapshots", "slots", "upload", "meter"}
    /\ ImportInit /\ SnapInit /\ Workers /\ Upload /\ QuotaInit

MCNext ==
    /\ UNCHANGED focus
    /\ \/ focus = "import" /\ ImportNext /\ UNCHANGED <<snapVars, slotVars, uploadVars, quotaVars>>
       \/ focus = "snapshots" /\ SnapNext /\ UNCHANGED <<importVars, slotVars, uploadVars, quotaVars>>
       \/ focus = "slots" /\ SlotNext /\ UNCHANGED <<importVars, snapVars, uploadVars, quotaVars>>
       \/ focus = "upload" /\ UploadNext /\ UNCHANGED <<importVars, snapVars, slotVars, quotaVars>>
       \/ focus = "meter" /\ QuotaNext /\ UNCHANGED <<importVars, snapVars, slotVars, uploadVars>>

\* The fairness of the modules; a behaviour of another focus owes none of it.
Fairness ==
    /\ WF_importVars(focus = "import" /\ ImportWorks)
    /\ WF_snapVars(focus = "snapshots" /\ RunIfDue)
    /\ \A r \in Runner : WF_snapVars(focus = "snapshots" /\ Works(r))
    /\ \A t \in Task : WF_slotVars(focus = "slots" /\ SlotStep(t))
    /\ WF_uploadVars(focus = "upload" /\ UploadWorks)

MCSpec == MCInit /\ [][MCNext]_driveVars /\ Fairness

\* Only the workers and their slots, and only uploads through sessions.
SlotsSpec == focus = "slots" /\ MCInit /\ [][MCNext]_driveVars
SessionsSpec == focus = "upload" /\ MCInit /\ [][MCNext]_driveVars

\* What every call of Drive rests on: the slots are accounted for, an upload
\* session stores the body whole, and the meter counts every call.
TransportSafe ==
    /\ SlotTypeOK /\ SlotsAccounted
    /\ UploadTypeOK /\ StoredWhole /\ ChunksFit
    /\ QuotaTypeOK /\ WindowExact /\ UsersExact

\* Imports, snapshots, due slots, workers and uploads all come to an end.
DriveWorkEnds == ImportEnds /\ SnapshotEnds /\ SlotTaken /\ EveryTaskEnds /\ UploadEnds

=============================================================================
