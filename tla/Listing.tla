------------------------------ MODULE Listing ------------------------------
(***************************************************************************)
(* A client that lists a bucket page by page while others write to it: the *)
(* two forms of ListObjects, the dashboard's list and ListObjectVersions.  *)
(*                                                                         *)
(* A key is a sequence of characters and characters are numbers, ordered   *)
(* as the database and the code order them; LastChar is U+10FFFF, which no *)
(* key has.  A row is a key and a version; the objects table has one row   *)
(* of a key, version 0.                                                    *)
(***************************************************************************)
EXTENDS Integers, Sequences, FiniteSets, SequencesExt

CONSTANTS
    Names,       \* the keys
    PrefixesAsked,    \* prefixes a client may ask for
    Delimiters,  \* delimiters, <<>> for none
    Starts,      \* markers and start-after keys of a first request
    PageSizes,   \* max-keys
    LastChar,
    Capital,     \* the capital letters, each as a pair with its small letter
    MaxEdits     \* bound: rows written or removed during a listing

ASSUME ListingAssumption ==
    /\ \A k \in Names : k \in Seq(1..(LastChar - 1)) /\ k # <<>>
    /\ PageSizes \subseteq Nat \ {0} /\ MaxEdits \in Nat

VARIABLES
    table,   \* the rows
    query,   \* what the client asks for
    cursor,  \* how far the client has got
    listed,  \* what it was given, in order
    last,    \* the listing is complete
    stable,  \* rows that were there all along
    ever,    \* rows that were there at some time
    edits

listVars == <<table, query, cursor, listed, last, stable, ever, edits>>

Door == {"v1", "v2", "dashboard", "versions"}
ListedRow == [key : Names, version : Int]
Entry == [group : BOOLEAN, key : Seq(1..LastChar), version : Int]

ListTypeOK ==
    /\ table \subseteq ListedRow /\ stable \subseteq table /\ table \subseteq ever
    /\ query \in [door : Door, prefix : PrefixesAsked, delimiter : Delimiters, size : PageSizes, start : Starts]
    /\ cursor.key \in Seq(1..LastChar) /\ cursor.after \in Seq(1..LastChar) /\ cursor.version \in Int
    /\ \A i \in DOMAIN listed : listed[i] \in Entry
    /\ Cardinality({i \in DOMAIN listed : ~listed[i].group}) <= Cardinality(ever)
    /\ last \in BOOLEAN /\ edits \in 0..MaxEdits

Before(a, b) ==
    \E i \in 1..Len(b) :
       /\ \A j \in 1..(i - 1) : j <= Len(a) /\ a[j] = b[j]
       /\ i > Len(a) \/ a[i] < b[i]
AtMost(a, b) == a = b \/ Before(a, b)

\* A query of the dashboard has no delimiter; ListObjectVersions starts anywhere.
ListInit ==
    /\ query \in [door : Door, prefix : PrefixesAsked, delimiter : Delimiters, size : PageSizes, start : Starts]
    /\ query.door = "dashboard" => query.delimiter = <<>>
    /\ \E there \in SUBSET Names :
          table = {[key |-> k, version |-> 0] : k \in there}
                  \cup (IF query.door = "versions" THEN {[key |-> k, version |-> 1] : k \in there} ELSE {})
    /\ cursor = [key |-> query.start, after |-> query.start, version |-> 0]
    /\ listed = <<>> /\ last = FALSE /\ edits = 0
    /\ stable = table /\ ever = table

-----------------------------------------------------------------------------
(***************************************************************************)
(* Keys and their groups.                                                  *)
(***************************************************************************)

\* LIKE, by which ListObjectVersions selects, takes capitals for small letters.
Folded(s) == [i \in DOMAIN s |-> IF \E p \in Capital : p[1] = s[i]
                                 THEN (CHOOSE p \in Capital : p[1] = s[i])[2] ELSE s[i]]
Matches(k) == IF query.door = "versions" THEN IsPrefix(Folded(query.prefix), Folded(k))
              ELSE IsPrefix(query.prefix, k)
RestOf(k) == SubSeq(k, Len(query.prefix) + 1, Len(k))
EndsAt(k, i) == /\ query.delimiter # <<>>
                /\ i >= Len(query.delimiter) /\ i <= Len(RestOf(k))
                /\ SubSeq(RestOf(k), i - Len(query.delimiter) + 1, i) = query.delimiter
Grouped(k) == \E i \in 1..Len(k) : EndsAt(k, i)

\* The common prefix: up to the first delimiter after the prefix.
Group(k) == LET i == CHOOSE n \in 1..Len(k) : EndsAt(k, n) /\ \A m \in 1..(n - 1) : ~EndsAt(k, m)
            IN  query.prefix \o SubSeq(RestOf(k), 1, i)

KeyEntry(row) == [group |-> FALSE, key |-> row.key, version |-> row.version]
GroupEntry(g) == [group |-> TRUE, key |-> g, version |-> 0]

-----------------------------------------------------------------------------
(***************************************************************************)
(* listObjects: one candidate at a time.  A group is passed by as a whole, *)
(* and so is what lies at or before the marker.                            *)
(***************************************************************************)

Shown(k, start) == IF Grouped(k) THEN ~AtMost(Group(k), start) ELSE ~AtMost(k, start)

Candidates(after, start) ==
    {r \in table : Matches(r.key) /\ Before(after, r.key) /\ Shown(r.key, start)}
NextOf(rows) == CHOOSE r \in rows : \A q \in rows : AtMost(r.key, q.key)

Passed(g) == Append(g, LastChar)

Nothing == [entries |-> <<>>, after |-> cursor.after, marker |-> <<>>]
Taken(page, start) ==
    LET rows == Candidates(page.after, start)
        k == NextOf(rows).key
    IN  IF rows = {} THEN page
        ELSE IF Grouped(k)
        THEN [entries |-> Append(page.entries, GroupEntry(Group(k))), after |-> Passed(Group(k)), marker |-> Group(k)]
        ELSE [entries |-> Append(page.entries, KeyEntry(NextOf(rows))), after |-> k, marker |-> k]

Page(start) ==
    LET upTo[n \in 0..query.size] == IF n = 0 THEN Nothing ELSE Taken(upTo[n - 1], start)
    IN  upTo[query.size]

\* What the next request says: V1 the marker that was shown, V2 a token with
\* the cursor itself, after which no marker counts.
NextCursor(page) == [key |-> IF query.door = "v1" THEN page.marker ELSE <<>>,
                     after |-> IF query.door = "v1" THEN page.marker ELSE page.after,
                     version |-> 0]

Gives(entries, more, next) ==
    /\ listed' = listed \o entries
    /\ last' = ~more
    /\ cursor' = IF more THEN next ELSE cursor
    /\ UNCHANGED <<table, query, stable, ever, edits>>

ListObjects ==
    /\ query.door \in {"v1", "v2"} /\ ~last
    /\ LET page == Page(cursor.key)
       IN  Gives(page.entries,
                 page.entries # <<>> /\ Candidates(page.after, cursor.key) # {},
                 NextCursor(page))

-----------------------------------------------------------------------------
(***************************************************************************)
(* The dashboard's list and ListObjectVersions: all rows, then a page.     *)
(***************************************************************************)

RowBefore(p, q) == Before(p.key, q.key) \/ (p.key = q.key /\ p.version < q.version)
Ordered(rows) == [i \in 1..Cardinality(rows) |->
                    CHOOSE r \in rows : Cardinality({q \in rows : RowBefore(q, r)}) = i - 1]
Size(rows) == IF Cardinality(rows) < query.size THEN Cardinality(rows) ELSE query.size
LastRow(rows) == Ordered(rows)[Size(rows)]
Entries(rows) == [i \in 1..Size(rows) |-> KeyEntry(Ordered(rows)[i])]

ListByBucket ==
    LET rows == {r \in table : Matches(r.key) /\ Before(cursor.after, r.key)}
    IN  /\ query.door = "dashboard" /\ ~last
        /\ Gives(Entries(rows), Cardinality(rows) > query.size,
                 [cursor EXCEPT !.after = LastRow(rows).key])

\* A marker of 0 is none.
Shift == MaxEdits + 1

\* Every entry after the marker; the groups of all of them come with each
\* page and count for nothing.
MutPastMarker(r) == cursor.after = <<>> \/ ~AtMost(r.key, cursor.after)
PastMarker(r) ==
    \/ cursor.after = <<>> \/ Before(cursor.after, r.key)
    \/ /\ r.key = cursor.after
       /\ cursor.version # 0 /\ r.version > cursor.version - Shift

ListVersions ==
    LET rows == {r \in table : Matches(r.key) /\ PastMarker(r)}
        kept == {r \in rows : ~Grouped(r.key)}
        groups == {GroupEntry(Group(r.key)) : r \in rows \ kept}
    IN  /\ query.door = "versions" /\ ~last
        /\ Gives(Entries(kept) \o Ordered(groups), Cardinality(kept) > query.size,
                 [cursor EXCEPT !.after = LastRow(kept).key,
                                !.version = LastRow(kept).version + Shift])

-----------------------------------------------------------------------------
(***************************************************************************)
(* The other clients.  A new version of a key comes before its others.     *)
(***************************************************************************)

Edit == ~last /\ edits < MaxEdits /\ edits' = edits + 1 /\ UNCHANGED <<query, cursor, listed, last>>

VersionBefore(k) == IF \E r \in table : r.key = k
            THEN (CHOOSE v \in -MaxEdits..1 : (\E r \in table : r.key = k /\ r.version = v)
                     /\ \A r \in table : r.key = k => v <= r.version) - 1
            ELSE 0

WriteRow(k) ==
    /\ Edit
    /\ query.door # "versions" => [key |-> k, version |-> 0] \notin table
    /\ table' = table \cup {[key |-> k, version |-> IF query.door = "versions" THEN VersionBefore(k) ELSE 0]}
    /\ ever' = ever \cup table'
    /\ UNCHANGED stable

RemoveRow(r) ==
    /\ Edit
    /\ table' = table \ {r} /\ stable' = stable \ {r} /\ UNCHANGED ever

ListNext == ListObjects \/ ListByBucket \/ ListVersions
            \/ (\E k \in Names : WriteRow(k)) \/ \E r \in table : RemoveRow(r)

ListSpec == ListInit /\ [][ListNext]_listVars

-----------------------------------------------------------------------------
(***************************************************************************)
(* Properties.                                                             *)
(***************************************************************************)

Rows == SelectSeq(listed, LAMBDA e : ~e.group)

\* Nothing is listed twice, rows come in order, and so do the groups among
\* them, whatever is written or removed between two pages and wherever in a
\* group a page ends.  ListObjectVersions gives its groups with every page.
ListedOnce ==
    /\ \A i \in 1..(Len(Rows) - 1) : RowBefore(Rows[i], Rows[i + 1])
    /\ query.door # "versions" =>
          \A i \in 1..(Len(listed) - 1) : Before(listed[i].key, listed[i + 1].key)

Wanted(r) == /\ Matches(r.key)
             /\ IF query.door = "versions" THEN query.start = <<>> \/ Before(query.start, r.key)
                ELSE Shown(r.key, query.start)
Shows(r) == \E i \in DOMAIN listed :
               IF Grouped(r.key) THEN listed[i] = GroupEntry(Group(r.key)) ELSE listed[i] = KeyEntry(r)

\* A listing that ended has, as itself or in its group, everything that was
\* there from its first page to its last.
StableIsListed == last => \A r \in stable : Wanted(r) => Shows(r)

\* What is listed was in the bucket at some time during the listing, matches
\* the prefix and lies past the marker of the first request.
ListedWasThere ==
    \A i \in DOMAIN listed :
       \E r \in ever : Wanted(r) /\ listed[i] = IF Grouped(r.key) THEN GroupEntry(Group(r.key)) ELSE KeyEntry(r)

\* Every page but the last is full and moves the cursor on, so that a listing
\* ends however small its pages are.
PagesAdvance ==
    [][~last' /\ listed' # listed =>
          /\ Len(listed') >= Len(listed) + query.size
          /\ \/ Before(cursor.after, cursor'.after)
             \/ cursor.after = cursor'.after /\ cursor.version < cursor'.version]_listVars

\* What a listing page by page promises, whatever is written meanwhile.
ListingWhole == [](ListTypeOK /\ ListedOnce /\ StableIsListed /\ ListedWasThere) /\ PagesAdvance

=============================================================================
