--------------------------- MODULE ObjectStoreCrash ---------------------------
(***************************************************************************)
(* ObjectStore with crashes inside the handlers that change the tables in  *)
(* several statements, each committed by itself: the versioned branch of   *)
(* ObjectService.delete, and deleteObjectVersion with its promotion.  A    *)
(* crash leaves the effect of the first n statements; the process comes    *)
(* back and its recovery finds no staging row old enough to touch.         *)
(***************************************************************************)
EXTENDS ObjectStore

CrashNow ==
    /\ restarts < MaxRestarts
    /\ restarts' = restarts + 1
    /\ LoseMemory
    /\ UNCHANGED <<mode, staging, recorded, drive, touches>>

\* 1 archive, 2 clearLatest, 3 delete the null version, 4 insertDeleteMarker,
\* 5 deleteByKey; the sixth, the enqueue, is the end of the handler's stretch.
ArchivesBy(m, r, n) == IF ArchivesPrevious(r, m) /\ n >= 1 THEN Archive(r) ELSE {}

MutDropsBy(n) == n >= 1
DropsBy(n) == n >= 5

CrashInDelete(d, n) ==
    /\ pc[d] = "checking" /\ modeAt[d] # "Disabled"
    /\ CrashNow
    /\ \E r \in StillCurrent(d) :
          LET k == r.key
              suspended == modeAt[d] = "Suspended"
              nullGone == suspended /\ n >= 3
              marker == IF suspended THEN NullVersion ELSE clock
              cleared == IF n >= 2 THEN ClearLatest(markers, k) ELSE markers
              Kept(rows) == IF nullGone THEN WithoutNull(rows, k) ELSE rows
          IN
          /\ versions' = Kept(versions \cup ArchivesBy(modeAt[d], r, n))
          /\ markers' = Kept(cleared) \cup
                 (IF n >= 4 THEN {[key |-> k, ver |-> marker, latest |-> TRUE]} ELSE {})
          /\ objects' = IF DropsBy(n) THEN objects \ {r} ELSE objects
    /\ clock' = clock + 1
    /\ UNCHANGED <<cleanup, events>>

\* promoteNewestVersion cut short: 1 clearLatest, 2 upsert; a third statement
\* would delete the promoted version's archived row.
CrashInPromote(k, existing, rows, ms, n) ==
    LET newest == IF n = 2 THEN NewestVersion({r \in rows : r.key = k}) ELSE {} IN
    /\ objects' = (objects \ RowAt(k)) \cup
          (IF newest = {} THEN existing ELSE {PromotedRow(v, existing) : v \in newest})
    /\ versions' = rows
    /\ markers' = IF n >= 1 THEN ClearLatest(ms, k) ELSE ms

\* deleteObjectVersion cut short after its own delete and n statements more.
CrashInCurrent(r, n) ==
    /\ r.status = "active"
    /\ cleanup' = cleanup \cup {r.file}
    /\ CrashInPromote(r.key, {}, versions, markers, n)

CrashInArchived(r) ==
    /\ ~\E o \in ActiveAt(r.key) : o.ver = r.ver
    /\ versions' = versions \ {r}
    /\ UNCHANGED <<objects, markers, cleanup>>

CrashInMarker(m, n) ==
    /\ ~\E o \in ActiveAt(m.key) : o.ver = m.ver
    /\ CrashInPromote(m.key, RowAt(m.key), versions, markers \ {m}, n)
    /\ UNCHANGED cleanup

CrashInVersionDelete ==
    /\ Event
    /\ CrashNow
    /\ \/ \E r \in objects, n \in 0..2 : CrashInCurrent(r, n)
       \/ \E r \in versions : CrashInArchived(r)
       \/ \E m \in markers, n \in 0..2 : CrashInMarker(m, n)
    /\ clock' = clock + 1

\* Crashes inside deletes of a key, and inside deletes by version id as well.
NextC == Next \/ \E d \in Deleter, n \in 1..5 : CrashInDelete(d, n)
SpecC == Init /\ [][NextC]_vars
SpecV == Init /\ [][NextC \/ CrashInVersionDelete]_vars

=============================================================================
