---------------------------- MODULE Destinations ----------------------------
(***************************************************************************)
(* One saved S3 backup destination: created, relabelled, given a new key   *)
(* pair, tested and unlinked by calls that overlap.  A pair is checked at  *)
(* the destination before it is stored; that takes a while, and what was   *)
(* read of the row before may have changed after.                          *)
(***************************************************************************)
EXTENDS Integers, Sequences, FiniteSets
LOCAL INSTANCE SequencesExt

CONSTANTS SavingCalls, Keys, Secrets, Labels, Unlinked

ASSUME DestinationsAssumption == Unlinked \notin Labels

VARIABLES
    dest,      \* the row, or Unlinked
    used,      \* its id was given out
    saving,    \* call -> where it is, and what it holds
    accepted   \* history: pairs a check found accepted

destVars == <<dest, used, saving, accepted>>

Pairs == Keys \X Secrets
At(at, op, pair, label) == [at |-> at, op |-> op, pair |-> pair, label |-> label]
AnyPair == CHOOSE p \in Pairs : TRUE
AnyLabel == CHOOSE l \in Labels : TRUE
Done == At("ready", "none", AnyPair, AnyLabel)

DestinationsTypeOK ==
    /\ dest = Unlinked \/ (used /\ dest.key \in Keys /\ dest.secret \in Secrets /\ dest.label \in Labels
                       /\ dest.status \in {"active", "error"})
    /\ \A c \in SavingCalls : saving[c].at \in {"ready", "checking", "accepted", "rejected"}

DestinationsInit ==
    /\ dest = Unlinked /\ used = FALSE /\ saving = [c \in SavingCalls |-> Done] /\ accepted = {}

Saves(c, to) == saving' = [saving EXCEPT ![c] = to]
Ready(c) == saving[c].at = "ready"
StoredPair(d) == <<d.key, d.secret>>

-----------------------------------------------------------------------------

Create(c, pair, label) ==
    /\ Ready(c) /\ ~used /\ \A d \in SavingCalls : saving[d].op # "create"
    /\ Saves(c, At("checking", "create", pair, label))
    /\ UNCHANGED <<dest, used, accepted>>

\* A label is stored at once.
Relabel(c, label) ==
    /\ Ready(c) /\ dest # Unlinked
    /\ dest' = [dest EXCEPT !.label = label] /\ Saves(c, Done)
    /\ UNCHANGED <<used, accepted>>

\* Key id and secret are changed together or not at all.  The label is the
\* one asked for, or the one that was read now.
LabelFor(label) == IF label = Unlinked THEN dest.label ELSE label
Rotate(c, pair, label) ==
    /\ Ready(c) /\ dest # Unlinked
    /\ Saves(c, At("checking", "rotate", pair, LabelFor(label)))
    /\ UNCHANGED <<dest, used, accepted>>

Test(c) ==
    /\ Ready(c) /\ dest # Unlinked
    /\ Saves(c, At("checking", "test", StoredPair(dest), dest.label))
    /\ UNCHANGED <<dest, used, accepted>>

\* The destination accepts the pair or refuses it, or does not answer within
\* the time that it is given.
Checked(c, good) ==
    /\ saving[c].at = "checking"
    /\ Saves(c, [saving[c] EXCEPT !.at = IF good THEN "accepted" ELSE "rejected"])
    /\ accepted' = IF good THEN accepted \cup {saving[c].pair} ELSE accepted
    /\ UNCHANGED <<dest, used>>

Row(call, status) == [key |-> call.pair[1], secret |-> call.pair[2], label |-> call.label, status |-> status]
\* Both halves of a pair are written in one statement, on a row that is there.
Rotated(call) == Row(call, "active")
MutStillThere == TRUE
StillThere == dest # Unlinked

CreateSettles(c) ==
    /\ saving[c].op = "create" /\ saving[c].at \in {"accepted", "rejected"}
    /\ IF saving[c].at = "accepted" THEN dest' = Row(saving[c], "active") /\ used' = TRUE /\ Saves(c, Done)
       ELSE Saves(c, Done) /\ UNCHANGED <<dest, used>>
    /\ UNCHANGED accepted

\* A row that was unlinked meanwhile stays so, and the call fails.
RotateSettles(c) ==
    /\ saving[c].op = "rotate" /\ saving[c].at \in {"accepted", "rejected"}
    /\ IF saving[c].at = "accepted" /\ StillThere THEN dest' = Rotated(saving[c]) /\ Saves(c, Done)
       ELSE Saves(c, Done) /\ UNCHANGED dest
    /\ UNCHANGED <<used, accepted>>

\* A test writes its outcome, nothing of what it read.
Reported(call) == [dest EXCEPT !.status = IF call.at = "accepted" THEN "active" ELSE "error"]
TestSettles(c) ==
    /\ saving[c].op = "test" /\ saving[c].at \in {"accepted", "rejected"}
    /\ IF dest = Unlinked THEN UNCHANGED dest
       ELSE dest' = Reported(saving[c])
    /\ Saves(c, Done)
    /\ UNCHANGED <<used, accepted>>

Unlink(c) == Ready(c) /\ dest # Unlinked /\ dest' = Unlinked /\ Saves(c, Done) /\ UNCHANGED <<used, accepted>>

DestinationsNext ==
    \E c \in SavingCalls :
          \/ \E pair \in Pairs, label \in Labels : Create(c, pair, label)
          \/ \E pair \in Pairs, label \in Labels \cup {Unlinked} : Rotate(c, pair, label)
          \/ \E label \in Labels : Relabel(c, label)
          \/ Test(c) \/ Unlink(c) \/ (\E good \in BOOLEAN : Checked(c, good))
          \/ CreateSettles(c) \/ RotateSettles(c) \/ TestSettles(c)

DestinationsSpec == DestinationsInit /\ [][DestinationsNext]_destVars

-----------------------------------------------------------------------------

\* The key id and the secret that are stored are a pair that the destination
\* accepted once, together, however rotations, relabellings and an unlinking
\* overlapped.
StoredWasAccepted == dest # Unlinked => StoredPair(dest) \in accepted

\* A destination that was unlinked does not come back with what a call that
\* was under way writes last.
UnlinkedStays == [][used /\ dest = Unlinked => dest' = Unlinked]_destVars

\* A test never takes away or changes what is stored, also when a rotation or
\* a new label came between its read of the row and the answer.
TestsChangeStatusOnly ==
    [][\A c \in SavingCalls : saving[c].op = "test" /\ saving'[c] # saving[c] /\ dest # Unlinked
          => dest' # Unlinked /\ StoredPair(dest') = StoredPair(dest) /\ dest'.label = dest.label]_destVars

-----------------------------------------------------------------------------
(***************************************************************************)
(* The folders of a linked Drive account: its root, cached on its row, and *)
(* one for a bucket in it.  Runs make sure of both before they copy; they  *)
(* may overlap, be interrupted, and find that someone tidied up in Drive.  *)
(***************************************************************************)

CONSTANTS Ensurers, MaxFolders, NoFolder

ASSUME BackupFoldersAssumption == MaxFolders \in Nat /\ NoFolder \notin 1..MaxFolders

VARIABLES
    rootFolder,   \* of the account's row, or NoFolder
    folders,      \* those made so far: what for, where and if in the trash
    ensuring,     \* run -> where it is and what it found
    doubled       \* history: two runs looked at once

folderVars == <<rootFolder, folders, ensuring, doubled>>

Purposes == {"root", "bucket"}
Ids == DOMAIN folders
Here(at, root, ref) == [at |-> at, root |-> root, ref |-> ref]
NotEnsuring == Here("idle", NoFolder, NoFolder)
Under(f, g) == folders[f].parent = g
InTrash(f) == folders[f].trashed \/ (folders[f].parent \in Ids /\ folders[folders[f].parent].trashed)

FoldersTypeOK ==
    /\ rootFolder \in Ids \cup {NoFolder}
    /\ \A f \in Ids : folders[f].for \in Purposes /\ folders[f].parent \in Ids \cup {NoFolder}
    /\ \A r \in Ensurers : ensuring[r].at = "ready" => ensuring[r].ref \in Ids /\ Under(ensuring[r].ref, ensuring[r].root)

FoldersInit == rootFolder = NoFolder /\ folders = <<>> /\ ensuring = [r \in Ensurers |-> NotEnsuring] /\ doubled = FALSE

Ensures(r, to) == ensuring' = [ensuring EXCEPT ![r] = to]
Busy(r) == ensuring[r].at \notin {"idle", "ready"}
Begin(r) ==
    /\ ~Busy(r)
    /\ Ensures(r, Here(IF rootFolder # NoFolder THEN "cached" ELSE "findRoot", rootFolder, NoFolder))
    /\ doubled' = (doubled \/ \E q \in Ensurers \ {r} : Busy(q))
    /\ UNCHANGED <<rootFolder, folders>>

\* The cached root must still be there, or it is forgotten.
RootIsThere(f) == ~InTrash(f)
LookAtRoot(r) ==
    /\ ensuring[r].at = "cached"
    /\ IF RootIsThere(ensuring[r].root) THEN Ensures(r, [ensuring[r] EXCEPT !.at = "findBucket"]) /\ UNCHANGED rootFolder
       ELSE Ensures(r, Here("findRoot", NoFolder, NoFolder)) /\ rootFolder' = NoFolder
    /\ UNCHANGED <<folders, doubled>>

\* Folders are found by what was written on them when they were made.
Found(purpose, parent) ==
    {f \in Ids : folders[f].for = purpose /\ ~InTrash(f) /\ (purpose = "bucket" => Under(f, parent))}

FindRoot(r) ==
    /\ ensuring[r].at = "findRoot"
    /\ IF Found("root", NoFolder) = {} THEN Ensures(r, Here("makeRoot", NoFolder, NoFolder)) /\ UNCHANGED rootFolder
       ELSE \E f \in Found("root", NoFolder) : Ensures(r, Here("findBucket", f, NoFolder)) /\ rootFolder' = f
    /\ UNCHANGED <<folders, doubled>>

FindBucket(r) ==
    /\ ensuring[r].at = "findBucket"
    /\ IF Found("bucket", ensuring[r].root) = {} THEN Ensures(r, [ensuring[r] EXCEPT !.at = "makeBucket"])
       ELSE \E f \in Found("bucket", ensuring[r].root) : Ensures(r, Here("ready", ensuring[r].root, f))
    /\ UNCHANGED <<rootFolder, folders, doubled>>

Make(purpose, parent) ==
    /\ Cardinality(Ids) < MaxFolders
    /\ folders' = Append(folders, [for |-> purpose, parent |-> parent, trashed |-> FALSE])
New == Cardinality(Ids) + 1

MakeRoot(r) == ensuring[r].at = "makeRoot" /\ Make("root", NoFolder) /\ Ensures(r, Here("saveRoot", New, NoFolder)) /\ UNCHANGED <<rootFolder, doubled>>
SaveRoot(r) == ensuring[r].at = "saveRoot" /\ rootFolder' = ensuring[r].root /\ Ensures(r, [ensuring[r] EXCEPT !.at = "findBucket"])
               /\ UNCHANGED <<folders, doubled>>
MakeBucket(r) ==
    /\ ensuring[r].at = "makeBucket" /\ Make("bucket", ensuring[r].root)
    /\ Ensures(r, Here("ready", ensuring[r].root, New)) /\ UNCHANGED <<rootFolder, doubled>>

\* Drive made the folder but its answer was lost: what makes is not tried again.
LostGoesTo(r) == NotEnsuring
MadeAndLost(r) ==
    /\ ensuring[r].at \in {"makeRoot", "makeBucket"}
    /\ IF ensuring[r].at = "makeRoot" THEN Make("root", NoFolder) ELSE Make("bucket", ensuring[r].root)
    /\ Ensures(r, LostGoesTo(r)) /\ UNCHANGED <<rootFolder, doubled>>

\* The gateway stops, or Drive refuses: the run is over, what it made stays.
EnsureStops(r) == Busy(r) /\ Ensures(r, NotEnsuring) /\ UNCHANGED <<rootFolder, folders, doubled>>

Tidied(f) ==
    /\ f \in Ids /\ ~folders[f].trashed /\ folders' = [folders EXCEPT ![f].trashed = TRUE]
    /\ UNCHANGED <<rootFolder, ensuring, doubled>>

FoldersNext ==
    \/ \E r \in Ensurers : Begin(r) \/ LookAtRoot(r) \/ FindRoot(r) \/ FindBucket(r) \/ MakeRoot(r) \/ SaveRoot(r)
                           \/ MakeBucket(r) \/ MadeAndLost(r) \/ EnsureStops(r)
    \/ \E f \in Ids : Tidied(f)

FoldersSpec == FoldersInit /\ [][FoldersNext]_folderVars

-----------------------------------------------------------------------------

\* However often runs are interrupted and answers lost, there is one root and
\* one folder for the bucket in it, unless two runs looked at once.
OneFolderEach ==
    ~doubled => /\ Cardinality({f \in Ids : folders[f].for = "root" /\ ~InTrash(f)}) <= 1
                /\ \A g \in Ids : Cardinality({f \in Ids : folders[f].for = "bucket" /\ Under(f, g) /\ ~InTrash(f)}) <= 1

\* A run copies into a folder that was there when it looked, in a root that
\* was: what someone tidied up before the run is never used.
NothingDeadIsUsed ==
    [][\A r \in Ensurers : ensuring[r].at \in {"cached", "findRoot"} /\ ensuring'[r].at = "findBucket"
          => ~InTrash(ensuring'[r].root)]_folderVars

-----------------------------------------------------------------------------
(***************************************************************************)
(* Where a copy lands at an S3 or rclone destination: the path that its    *)
(* owner wanted for, the bucket, the key of the object.  What receives the  *)
(* name folds "." and ".." away.  Names are sequences of characters, "/"   *)
(* among them.                                                             *)
(***************************************************************************)

CONSTANTS Letters, MaxPath, MaxKey

ASSUME CopyNamesAssumption == {"/", "."} \subseteq Letters /\ MaxPath \in Nat /\ MaxKey \in Nat

VARIABLES sink, wanted, keyA, keyB

nameVars == <<sink, wanted, keyA, keyB>>

Slash == <<"/">>
Dots == {<<".">>, <<".", ".">>}
\* What is between one "/" and the next.
Segments(s) ==
    FoldLeft(LAMBDA done, c : IF c = "/" THEN Append(done, <<>>) ELSE Append(Front(done), Append(Last(done), c)), <<<<>>>>, s)

\* Without the slashes at both ends.
Trimmed(s) ==
    LET solid == {i \in DOMAIN s : s[i] # "/"}
    IN  IF solid = {} THEN <<>>
        ELSE SubSeq(s, CHOOSE i \in solid : \A j \in solid : i <= j, CHOOSE i \in solid : \A j \in solid : j <= i)

PathAccepted(kind, s) ==
    /\ kind = "rclone" => ~IsPrefix(Slash, s)
    /\ Trimmed(s) = <<>> \/ ToSet(Segments(Trimmed(s))) \cap (Dots \cup {<<>>}) = {}
NormalizeRelativePath(s) == Trimmed(s)

Bucket == <<"b">>
BucketKeyPrefix(path) == (IF path = <<>> THEN <<>> ELSE path \o Slash) \o Bucket \o Slash

\* An empty segment is one folder less to a file system.
Storable(kind, key) == ToSet(Segments(key)) \cap (Dots \cup IF kind = "rclone" THEN {<<>>} ELSE {}) = {}

CopyName(key) == BucketKeyPrefix(NormalizeRelativePath(wanted)) \o key

-----------------------------------------------------------------------------

\* What is made of a name where it arrives: up for "..", and for a file
\* system no empty segments.  <<"up">> is above the destination's root.
Step(here, segment) ==
    CASE segment = <<".">> \/ (sink = "rclone" /\ segment = <<>>) -> here
      [] segment = <<".", ".">> -> IF here = <<>> THEN <<<<"up">>>> ELSE Front(here)
      [] OTHER -> Append(here, segment)
ResolvedPath(name) == FoldLeft(Step, <<>>, Segments(name))

Names(n) == UNION {[1..k -> Letters] : k \in 0..n}
NamesInit ==
    /\ sink \in {"s3", "rclone"} /\ wanted \in Names(MaxPath)
    /\ keyA \in Names(MaxKey) \ {<<>>} /\ keyB \in Names(MaxKey) \ {<<>>}

-----------------------------------------------------------------------------

\* A copy lands under its bucket in the path that was wanted for, whatever
\* folds its name.
StaysUnderPath ==
    PathAccepted(sink, wanted) /\ Storable(sink, keyA) =>
        LET folder == Segments(Front(BucketKeyPrefix(NormalizeRelativePath(wanted))))
        IN  IsStrictPrefix(folder, ResolvedPath(CopyName(keyA)))

\* Two objects of a bucket never overwrite each other's copy.
KeptApart ==
    PathAccepted(sink, wanted) /\ Storable(sink, keyA) /\ Storable(sink, keyB) /\ keyA # keyB =>
        ResolvedPath(CopyName(keyA)) # ResolvedPath(CopyName(keyB))
=============================================================================
