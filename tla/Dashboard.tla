------------------------------ MODULE Dashboard ------------------------------
(***************************************************************************)
(* The web dashboard, as one browser tab runs it.  An event (a press, an   *)
(* answer, a tick) is handled to its next await in one step; answers come  *)
(* late, in any order, or not at all.  A request and the moment the        *)
(* gateway handles it are one step, except where the gateway's state       *)
(* changes: there it is handled when it is answered.                       *)
(*                                                                         *)
(* Four parts that share no state: the shell and its route, the dialogs of *)
(* a bucket's page, the polling of imports and backups on that page, and   *)
(* the dialog of one backup run.                                           *)
(***************************************************************************)
EXTENDS Naturals, FiniteSets, Sequences

CONSTANTS
    Opened,     \* buckets that can be opened
    Nowhere,    \* no bucket: the route of a section
    MaxVisits,  \* bound: routes and retries
    Row,        \* objects the page may list, maybe no longer there
    Piece,      \* versions and links
    RowOf,      \* the object each is of
    Closed,     \* no dialog, no object
    MaxFailed,  \* bound: answers that are lost or say that the gateway failed
    Work,       \* imports or backups of the bucket, in their order
    MaxWaiting, \* bound: answers under way at once
    HistoryRun, \* runs in the history of backups
    NoRun       \* no dialog of one

ASSUME DashboardAssumption ==
    /\ Nowhere \notin Opened /\ Closed \notin Row
    /\ RowOf \in [Piece -> Row] /\ Work \subseteq Nat \ {0} /\ NoRun \notin HistoryRun
    /\ {MaxVisits, MaxFailed, MaxWaiting} \subseteq Nat

-----------------------------------------------------------------------------
(***************************************************************************)
(* The shell.                                                              *)
(***************************************************************************)

VARIABLES
    shell,   \* who is signed in, and what getMe said
    routed,  \* the route's bucket, or Nowhere
    pane,    \* activeBucket with the visit it was fetched for, bucketLoading, bucketError
    due,     \* the effect on the route is to run before the next event
    asked,   \* getBucket calls under way
    visit    \* history: runs of that effect

shellVars == <<shell, routed, pane, due, asked, visit>>

NoPane == [bucket |-> Nowhere, visit |-> 0, loading |-> FALSE, error |-> FALSE]

ShellInit ==
    /\ shell = [me |-> FALSE, loading |-> TRUE, code |-> FALSE, failed |-> FALSE]
    /\ routed \in Opened \cup {Nowhere} /\ pane = NoPane /\ due = FALSE /\ asked = {} /\ visit = 0

ShellTypeOK ==
    /\ shell \in [me : BOOLEAN, loading : BOOLEAN, code : BOOLEAN, failed : BOOLEAN]
    /\ routed \in Opened \cup {Nowhere} /\ due \in BOOLEAN /\ visit \in 0..MaxVisits + 2
    /\ pane \in [bucket : Opened \cup {Nowhere}, visit : 0..visit, loading : BOOLEAN, error : BOOLEAN]
    /\ asked \subseteq [bucket : Opened, visit : 1..visit, live : BOOLEAN]

\* load: the session, one without its second factor, none, or no answer.
MeAnswers(answer) ==
    /\ shell.loading
    /\ shell' = [me |-> answer = "me", loading |-> FALSE, code |-> answer = "code", failed |-> answer = "failed"]
    /\ due' = (due \/ answer = "me")
    /\ UNCHANGED <<routed, pane, asked, visit>>

LoadAgain ==
    /\ ~shell.loading /\ (shell.failed \/ shell.code)
    /\ shell' = [shell EXCEPT !.loading = TRUE, !.code = FALSE, !.failed = FALSE]
    /\ UNCHANGED <<routed, pane, due, asked, visit>>

\* navigate, and the browser's back and forward.  A route is a new object even
\* when it is of the same bucket.
Navigate(bucket) ==
    /\ ~due /\ visit < MaxVisits
    /\ routed' = bucket /\ due' = TRUE
    /\ UNCHANGED <<shell, pane, asked, visit>>

Screen ==
    IF shell.loading THEN "spinner" ELSE IF shell.failed THEN "unavailable" ELSE IF shell.code THEN "code"
    ELSE IF ~shell.me THEN "login" ELSE IF routed = Nowhere THEN "section" ELSE "bucket"

ErrorShown == Screen = "bucket" /\ pane.error
PageShown == Screen = "bucket" /\ pane.bucket = routed
LoadingShown == Screen = "bucket" /\ (pane.loading \/ (~pane.error /\ pane.bucket # routed))

RetryBucket ==
    /\ ErrorShown /\ ~due /\ visit < MaxVisits
    /\ due' = TRUE
    /\ UNCHANGED <<shell, routed, pane, asked, visit>>

\* The effect on [me, route, bucketLoadAttempt]: the earlier one's clean-up
\* cancels what it asked.
BucketEffect ==
    /\ due /\ due' = FALSE /\ visit' = visit + 1
    /\ LET cancelled == {[a EXCEPT !.live = FALSE] : a \in asked}
       IN  IF shell.me /\ routed # Nowhere
           THEN /\ pane' = [NoPane EXCEPT !.loading = TRUE]
                /\ asked' = cancelled \cup {[bucket |-> routed, visit |-> visit', live |-> TRUE]}
           ELSE pane' = NoPane /\ asked' = cancelled
    /\ UNCHANGED <<shell, routed>>

BucketAnswers(a, found) ==
    /\ a \in asked /\ asked' = asked \ {a}
    /\ pane' = IF ~a.live THEN pane
               ELSE IF found THEN [pane EXCEPT !.bucket = a.bucket, !.visit = a.visit, !.loading = FALSE]
               ELSE [pane EXCEPT !.error = TRUE, !.loading = FALSE]
    /\ UNCHANGED <<shell, routed, due, visit>>

ShellNext ==
    \/ \E answer \in {"me", "nobody", "code", "failed"} : MeAnswers(answer)
    \/ LoadAgain \/ RetryBucket \/ BucketEffect
    \/ \E bucket \in Opened \cup {Nowhere} : Navigate(bucket)
    \/ \E a \in asked, found \in BOOLEAN : BucketAnswers(a, found)

\* A bucket's page is the one that the present visit fetched, with the role
\* held now, however late the answers of earlier visits come; and one of the
\* page, the error and the spinner is there.
ShellSafe ==
    /\ ShellTypeOK
    /\ PageShown /\ ~due => pane.visit = visit
    /\ Screen = "bucket" /\ ~due =>
          Cardinality({x \in {"page", "loading", "error"} :
              \/ x = "page" /\ PageShown
              \/ x = "loading" /\ LoadingShown
              \/ x = "error" /\ ErrorShown}) = 1

-----------------------------------------------------------------------------
(***************************************************************************)
(* The dialogs of ObjectsPage.  A piece is a version that is not the       *)
(* latest, or a link that is active; the others cannot be pressed.         *)
(***************************************************************************)

VARIABLES
    role,     \* the caller's role in the bucket
    target,   \* the object each dialog is open on
    marked,   \* revokeTarget
    call,     \* what each dialog waits for: its handler, and what it was pressed for
    shown,    \* versions, publicLinks, and the object that generated is of
    present,  \* the gateway's versions and links
    failures

dialogVars == <<role, target, marked, call, shown, present, failures>>

Dialog == {"delete", "upload", "links", "revoke", "form", "copy", "versions"}

NoCall == [does |-> "nothing", row |-> Closed, piece |-> {}]
Calls(d) == call[d] # NoCall
Reads == {"list", "load", "reload"}

\* deleting, uploading, linkBusy, revokingLink, uploadFormBusy, copyBusy,
\* versionBusy: set before a handler's first await, cleared as it ends.
Busy(d) == Calls(d) \/ (d = "links" /\ Calls("revoke"))

DialogsInit ==
    /\ role \in {"owner", "editor", "viewer"}
    /\ target = [d \in Dialog |-> Closed] /\ marked = {} /\ call = [d \in Dialog |-> NoCall]
    /\ shown = [versions |-> {}, links |-> {}, generated |-> Closed]
    /\ present \in SUBSET Piece /\ failures = 0

DialogsTypeOK ==
    /\ target \in [Dialog -> Row \cup {Closed}] /\ marked \subseteq Piece /\ Cardinality(marked) <= 1
    /\ shown \in [versions : SUBSET Piece, links : SUBSET Piece, generated : Row \cup {Closed}]
    /\ present \subseteq Piece
    /\ \A d \in Dialog : call[d].row \in Row \cup {Closed} /\ call[d].piece \subseteq Piece

\* Who is offered which dialog.
Offered(d) ==
    /\ d \in {"delete", "upload", "form"} => role # "viewer"
    /\ d = "links" => role = "owner"
    /\ d # "revoke"

\* A dialog is modal: it alone takes presses, but for the question over it.
OnTop(d) == target[d] # Closed /\ (d = "links" => target["revoke"] = Closed)

NothingOpen == \A d \in Dialog : target[d] = Closed

\* What opening and closing clear; the list of links is not.
Cleared(d) ==
    [shown EXCEPT !.versions = IF d = "versions" THEN {} ELSE @,
                  !.generated = IF d = "links" THEN Closed ELSE @]

\* openLinks, openCopy, openVersions and openUploadForm load what they show.
\* Delete and upload do not, and may open while the page still reloads.
Opens(d, row) ==
    /\ NothingOpen /\ Offered(d) /\ target' = [target EXCEPT ![d] = row]
    /\ IF d \in {"delete", "upload"} THEN UNCHANGED <<call, shown>>
       ELSE /\ call' = [call EXCEPT ![d] = [does |-> "load", row |-> row, piece |-> {}]]
            /\ shown' = Cleared(d)
    /\ UNCHANGED <<role, marked, present, failures>>

\* A busy dialog stays open.
MutMayClose(d) == TRUE
MayClose(d) == ~Busy(d)
Closes(d) ==
    /\ OnTop(d) /\ MayClose(d)
    /\ target' = [target EXCEPT ![d] = Closed]
    /\ marked' = IF d = "revoke" THEN {} ELSE marked
    /\ shown' = Cleared(d)
    /\ UNCHANGED <<role, call, present, failures>>

\* Revoke asks first, for a link that the dialog lists.
AsksToRevoke(link) ==
    /\ OnTop("links") /\ ~Busy("links") /\ link \in shown.links
    /\ target' = [target EXCEPT !["revoke"] = target["links"]] /\ marked' = {link}
    /\ UNCHANGED <<role, call, shown, present, failures>>

\* doDelete, doUpload, temporaryLink, persistentLink, revokeLink,
\* generateUploadForm, doCopy and removeVersion, up to their first await.
Pressable ==
    {<<"delete", "send">>, <<"upload", "send">>, <<"links", "sign">>, <<"links", "create">>, <<"revoke", "take">>,
     <<"form", "sign">>, <<"copy", "send">>, <<"versions", "take">>}

Presses(d, does, piece) ==
    /\ <<d, does>> \in Pressable /\ OnTop(d) /\ ~Busy(d)
    /\ CASE d = "versions" -> role # "viewer" /\ \E v \in shown.versions : piece = {v}
         [] d = "revoke" -> piece = marked
         [] OTHER -> piece = {}
    /\ call' = [call EXCEPT ![d] = [does |-> does, row |-> target[d], piece |-> piece]]
    /\ UNCHANGED <<role, target, marked, shown, present, failures>>

\* The gateway takes away a version or a link of the object the call names, and
\* knows no other; it makes a link of that object.
PiecesOf(row) == {p \in present : RowOf[p] = row}
Accepts(c) == c.does = "take" => c.piece \subseteq PiecesOf(c.row)
Afterwards(c) ==
    CASE c.does = "take" -> {present \ c.piece}
      [] c.does = "create" -> {present \cup {p} : p \in {q \in Piece \ present : RowOf[q] = c.row}}
      [] OTHER -> {present}

Waits(d, c) == call' = [call EXCEPT ![d] = c]

\* A call is answered.  What changed versions or links is followed by their
\* list, a deletion and an upload by the page's.
Answered(d) ==
    LET c == call[d]
    IN  /\ Calls(d) /\ c.does \notin Reads /\ Accepts(c) /\ present' \in Afterwards(c)
        /\ Waits(d, CASE d \in {"delete", "upload"} -> [c EXCEPT !.does = "reload"]
                      [] c.does \in {"take", "create"} -> [c EXCEPT !.does = "list"]
                      [] OTHER -> NoCall)
        /\ target' = IF d \in {"delete", "upload", "copy"} THEN [target EXCEPT ![d] = Closed] ELSE target
        /\ shown' = [shown EXCEPT !.generated = IF d = "links" THEN c.row ELSE @]
        /\ UNCHANGED <<role, marked, failures>>

Listed(d) ==
    LET c == call[d]
    IN  /\ c.does \in Reads /\ Waits(d, NoCall)
        /\ shown' = [shown EXCEPT !.versions = IF d = "versions" THEN PiecesOf(c.row) ELSE @,
                                  !.links = IF d \in {"links", "revoke"} THEN PiecesOf(c.row) ELSE @]
        /\ target' = IF d = "revoke" THEN [target EXCEPT ![d] = Closed] ELSE target
        /\ marked' = IF d = "revoke" THEN {} ELSE marked
        /\ UNCHANGED <<role, present, failures>>

\* The gateway refuses; or it fails, or does as told and its answer is lost:
\* the handler's catch and finally.
Refused(d) == Calls(d) /\ ~Accepts(call[d]) /\ Waits(d, NoCall) /\ UNCHANGED <<role, target, marked, shown, present, failures>>
Fails(d) ==
    /\ Calls(d) /\ failures < MaxFailed /\ failures' = failures + 1
    /\ present' \in {present} \cup (IF Accepts(call[d]) THEN Afterwards(call[d]) ELSE {})
    /\ Waits(d, NoCall)
    /\ UNCHANGED <<role, target, marked, shown>>

\* Somebody else's doing.
Elsewhere(p) ==
    /\ failures < MaxFailed /\ failures' = failures + 1
    /\ present' = IF p \in present THEN present \ {p} ELSE present \cup {p}
    /\ UNCHANGED <<role, target, marked, call, shown>>

DialogsNext ==
    \/ \E d \in Dialog :
          \/ Closes(d) \/ Answered(d) \/ Listed(d) \/ Refused(d) \/ Fails(d)
          \/ \E row \in Row : Opens(d, row)
          \/ \E does \in {"send", "sign", "create", "take"}, piece \in {{}} \cup {{p} : p \in Piece} : Presses(d, does, piece)
    \/ \E p \in Piece : AsksToRevoke(p) \/ Elsewhere(p)

\* What a dialog waits for is of the object that it shows, until the page's own
\* reload; so an answer reaches whoever pressed.  The versions in a dialog and
\* the address just made are of its object.
DialogsCohere ==
    /\ \A d \in Dialog : Calls(d) /\ call[d].does # "reload" => target[d] = call[d].row
    /\ \A v \in shown.versions : RowOf[v] = target["versions"]
    /\ shown.generated \in {Closed, target["links"]}
    /\ target["revoke"] \in {Closed, target["links"]}

\* The page takes away nothing but what its open dialog is about, whatever
\* lists of other objects are still in it.
TakesOwnOnly ==
    [][call' # call => \A p \in present \ present' :
          \E d \in {"versions", "revoke"} : target[d] = RowOf[p] /\ call[d].piece = {p}]_dialogVars

-----------------------------------------------------------------------------
(***************************************************************************)
(* Polling: the imports of a bucket, of which the page shows one, or its   *)
(* backups, of which it shows a list.  A request reads the gateway when it *)
(* is sent; "active" stands for queued and running, "over" for the three   *)
(* ends.                                                                   *)
(***************************************************************************)

VARIABLES
    polling,  \* "import" or "backup"
    works,    \* the status of each at the gateway
    listed,   \* and on the page: importJob, backupTransfers
    waiting,  \* answers under way, with what they say
    pressed,  \* importBusy, backupBusy
    lost

pollVars == <<polling, works, listed, waiting, pressed, lost>>

Active == {"active", "cancel"}
WorkStatus == Active \cup {"none", "over"}

Only(w, says) == [x \in Work |-> IF x = w THEN says ELSE "none"]
Newest(of) == LET there == {w \in Work : of[w] # "none"}
              IN  IF there = {} THEN 0 ELSE CHOOSE w \in there : \A x \in there : x <= w
\* What a list says: all backups, or the newest import.
ListOf == IF polling = "backup" \/ Newest(works) = 0 THEN works ELSE Only(Newest(works), works[Newest(works)])

PollInit ==
    /\ polling \in {"import", "backup"}
    /\ \E w \in Work, s \in WorkStatus : works = Only(w, s) /\ (s # "none" => \A x \in Work : w <= x)
    /\ listed = [w \in Work |-> "none"]
    /\ waiting = IF polling = "import" THEN {[as |-> "mount", of |-> 0, says |-> ListOf]} ELSE {}
    /\ pressed = FALSE /\ lost = 0

PollTypeOK ==
    /\ works \in [Work -> WorkStatus] /\ listed \in [Work -> WorkStatus] /\ lost \in 0..MaxFailed
    /\ \A a \in waiting : a.of \in Work \cup {0} /\ a.says \in [Work -> WorkStatus]
    /\ polling = "import" => Cardinality({w \in Work : listed[w] # "none"}) <= 1

\* The gateway ends one, and starts one for somebody else: one import at a time,
\* one backup for a destination.
NextWork == LET new == {w \in Work : w > Newest(works)} IN {w \in new : \A x \in new : w <= x}
MayStart == polling = "import" => \A w \in Work : works[w] \notin Active

GatewayEnds(w) ==
    /\ works[w] \in Active /\ works' = [works EXCEPT ![w] = "over"]
    /\ UNCHANGED <<polling, listed, waiting, pressed, lost>>
StartsElsewhere(w) ==
    /\ w \in NextWork /\ MayStart /\ works' = [works EXCEPT ![w] = "active"]
    /\ UNCHANGED <<polling, listed, waiting, pressed, lost>>

Asks(as, w, says) == Cardinality(waiting) < MaxWaiting /\ waiting' = waiting \cup {[as |-> as, of |-> w, says |-> says]}

\* The timer of the import shown, or of the first backup in the list that is
\* active; each tick asks, whether or not the last one was answered.
OnPage == {w \in Work : listed[w] \in Active}
Polled == {w \in OnPage : \A x \in OnPage : x <= w}
Tick ==
    /\ \E w \in Polled : Asks("poll", w, Only(w, works[w]))
    /\ UNCHANGED <<polling, works, listed, pressed, lost>>

\* openImport and openBackup.
OpensWork ==
    /\ ~pressed /\ pressed' = TRUE /\ Asks("list", 0, ListOf)
    /\ UNCHANGED <<polling, works, listed, lost>>

\* startImport and doStartBackup; the gateway answers 409 to a second one.
StartsWork(w) ==
    /\ ~pressed /\ (polling = "backup" => OnPage = {})
    /\ w \in NextWork /\ MayStart /\ works' = [works EXCEPT ![w] = "active"]
    /\ pressed' = TRUE /\ Asks("start", w, Only(w, "active"))
    /\ UNCHANGED <<polling, listed, lost>>

\* doCancelImport and doCancelBackup; 409 for one that is over.
CancelsWork(w) ==
    /\ w \in OnPage /\ works[w] = "active" /\ works' = [works EXCEPT ![w] = "cancel"]
    /\ Asks("cancel", w, Only(w, "cancel"))
    /\ UNCHANGED <<polling, listed, pressed, lost>>

\* An import that is answered takes the place of the one shown.  A backup is
\* added when it was started, and otherwise replaced where the list has it; a
\* cancelled one is marked without asking.
Put(a) ==
    IF polling = "import" THEN (IF a.as = "cancel" THEN listed ELSE a.says)
    ELSE IF a.as = "list" THEN a.says
    ELSE IF a.as = "start" \/ listed[a.of] # "none" THEN [listed EXCEPT ![a.of] = a.says[a.of]]
    ELSE listed

Settles(a) == waiting' = waiting \ {a} /\ pressed' = (pressed /\ a.as \notin {"list", "start"})
WorkAnswers(a) ==
    /\ a \in waiting /\ Settles(a) /\ listed' = Put(a)
    /\ UNCHANGED <<polling, works, lost>>
WorkLost(a) ==
    /\ a \in waiting /\ lost < MaxFailed /\ lost' = lost + 1 /\ Settles(a)
    /\ UNCHANGED <<polling, works, listed>>

SomeWorkAnswers == \E a \in waiting : WorkAnswers(a)
PollNext ==
    \/ \E w \in Work : GatewayEnds(w) \/ StartsElsewhere(w) \/ StartsWork(w) \/ CancelsWork(w)
    \/ Tick \/ OpensWork \/ SomeWorkAnswers \/ \E a \in waiting : WorkLost(a)

\* What the page calls over is over.
OverIsTrue == \A w \in Work : listed[w] = "over" => works[w] = "over"

\* What the page shows as under way it goes on asking about until it shows its
\* end, or it was replaced, however late and out of order the answers come.
PageCatchesUp == \A w \in Work : []<>(listed[w] \notin Active)

-----------------------------------------------------------------------------
(***************************************************************************)
(* The dialog of one run in the history of backups.                        *)
(***************************************************************************)

VARIABLES
    openRun,   \* openRunId
    filter,    \* objectFilter
    detail,    \* the run that was fetched
    pages,     \* what is listed of its objects
    further,   \* nextBefore, loadingMore
    fetching,  \* requests under way
    faulty     \* error

runVars == <<openRun, filter, detail, pages, further, fetching, faulty>>

Filter == {"all", "failed"}
Fetch(as, r, f) == [as |-> as, run |-> r, filter |-> f, live |-> TRUE]

RunInit ==
    /\ openRun = NoRun /\ filter = "all" /\ detail = NoRun /\ pages = {} /\ fetching = {}
    /\ further = [cursor |-> FALSE, loading |-> FALSE] /\ faulty = FALSE

RunTypeOK ==
    /\ openRun \in HistoryRun \cup {NoRun} /\ filter \in Filter /\ detail \in HistoryRun \cup {NoRun}
    /\ pages \subseteq [run : HistoryRun, filter : Filter, first : BOOLEAN]
    /\ fetching \subseteq [as : {"run", "page", "more"}, run : HistoryRun, filter : Filter, live : BOOLEAN]

\* An effect runs again: the clean-up of its earlier run cancels.
Cancelled(kinds) == {[a EXCEPT !.live = a.live /\ a.as \notin kinds] : a \in fetching}

OpenRun(r) ==
    /\ openRun = NoRun /\ Cardinality(fetching) < MaxWaiting
    /\ openRun' = r /\ filter' = "all" /\ faulty' = FALSE
    /\ fetching' = fetching \cup {Fetch("run", r, "all"), Fetch("page", r, "all")}
    /\ UNCHANGED <<detail, pages, further>>

CloseRun ==
    /\ openRun # NoRun
    /\ openRun' = NoRun /\ filter' = "all" /\ detail' = NoRun /\ pages' = {} /\ faulty' = FALSE
    /\ further' = [further EXCEPT !.cursor = FALSE] /\ fetching' = Cancelled({"run", "page"})

SetFilter(f) ==
    /\ detail # NoRun /\ f # filter /\ Cardinality(fetching) < MaxWaiting
    /\ filter' = f /\ fetching' = Cancelled({"page"}) \cup {Fetch("page", openRun, f)}
    /\ UNCHANGED <<openRun, detail, pages, further, faulty>>

\* loadMoreObjects, which nothing cancels.
PageLoading == \E a \in fetching : a.as = "page" /\ a.live
LoadMore ==
    /\ detail # NoRun /\ ~PageLoading /\ further.cursor /\ ~further.loading
    /\ further' = [further EXCEPT !.loading = TRUE] /\ fetching' = fetching \cup {Fetch("more", openRun, filter)}
    /\ UNCHANGED <<openRun, filter, detail, pages, faulty>>

RunAnswers(a, more) ==
    LET page == [run |-> a.run, filter |-> a.filter, first |-> a.as = "page"]
    IN  /\ a \in fetching /\ fetching' = fetching \ {a}
        /\ detail' = IF a.as = "run" /\ a.live THEN a.run ELSE detail
        /\ pages' = CASE a.as = "page" /\ a.live -> {page} [] a.as = "more" -> pages \cup {page} [] OTHER -> pages
        /\ further' = [cursor |-> IF a.as # "run" /\ a.live THEN more ELSE further.cursor,
                       loading |-> further.loading /\ a.as # "more"]
        /\ UNCHANGED <<openRun, filter, faulty>>

RunFails(a) ==
    /\ a \in fetching /\ fetching' = fetching \ {a} /\ faulty' = (faulty \/ a.live)
    /\ further' = [further EXCEPT !.loading = @ /\ a.as # "more"]
    /\ UNCHANGED <<openRun, filter, detail, pages>>

RunNext ==
    \/ \E r \in HistoryRun : OpenRun(r)
    \/ CloseRun \/ LoadMore
    \/ \E f \in Filter : SetFilter(f)
    \/ \E a \in fetching : RunFails(a) \/ \E more \in BOOLEAN : RunAnswers(a, more)

\* The dialog shows its own run; and the first page under its filter is of that
\* run and that filter, or is being fetched, or the dialog says that it failed.
RunIsItsOwn ==
    /\ detail \in {NoRun, openRun}
    /\ \A p \in pages : p.first => p.run = openRun /\ (p.filter = filter \/ PageLoading \/ faulty)

-----------------------------------------------------------------------------

\* A tab shows what it is about and ends up showing how it went: the bucket's
\* page, the dialogs and the run are of what is open, nothing but that is taken
\* away, and what was under way is shown as over.
DashboardSafe ==
    /\ [](ShellSafe /\ DialogsTypeOK /\ DialogsCohere /\ PollTypeOK /\ OverIsTrue /\ RunTypeOK /\ RunIsItsOwn)
    /\ TakesOwnOnly /\ PageCatchesUp

=============================================================================
