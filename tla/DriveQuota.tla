----------------------------- MODULE DriveQuota -----------------------------
(***************************************************************************)
(* The calls of Google Drive that the gateway counts: a ring of slots for  *)
(* everybody, which are used again as time goes on, and one for each of a  *)
(* bounded number of users.                                                *)
(***************************************************************************)
EXTENDS Integers, Sequences, FiniteSets, FiniteSetsExt

CONSTANTS
    QuotaUser,    \* the users whose calls are counted
    Slots,        \* slots of the ring of everybody
    UserSlots,    \* slots of the ring of one user
    MaxTracked,   \* users that are tracked at a time
    MaxRecords,   \* bound: calls counted
    MaxQuotaTime  \* bound: the clock stops here

ASSUME DriveQuotaAssumption ==
    /\ {Slots, UserSlots, MaxTracked} \subseteq Nat \ {0}
    /\ MaxRecords \in Nat /\ MaxQuotaTime \in Nat

VARIABLES
    now,
    ring,      \* everybody's slots
    rings,     \* slots and last call of the tracked users
    records,   \* the calls that were counted: when and whose
    since      \* after which record each tracked user was taken in

quotaVars == <<now, ring, rings, records, since>>

Slot == [stamp : Int, requests : Nat]
EmptyRing(n) == [i \in 0..(n - 1) |-> [stamp |-> 0 - 1, requests |-> 0]]
Untracked == [ring |-> EmptyRing(UserSlots), last |-> 0 - 1]
Tracked == {u \in QuotaUser : rings[u] # Untracked}

QuotaTypeOK ==
    /\ now \in 0..MaxQuotaTime
    /\ ring \in [0..(Slots - 1) -> Slot]
    /\ rings \in [QuotaUser -> [ring : [0..(UserSlots - 1) -> Slot], last : Int]]
    /\ Cardinality(Tracked) <= MaxTracked
    /\ records \in Seq([at : 0..MaxQuotaTime, user : QuotaUser])
    /\ since \in [QuotaUser -> 0..MaxRecords]

QuotaInit ==
    /\ now = 0 /\ ring = EmptyRing(Slots)
    /\ rings = [u \in QuotaUser |-> Untracked]
    /\ records = <<>> /\ since = [u \in QuotaUser |-> 0]

Pass == /\ now < MaxQuotaTime /\ now' = now + 1
        /\ UNCHANGED <<ring, rings, records, since>>

\* rollSlot: a slot of another time starts again.
Rolled(slot) == IF slot.stamp = now THEN slot ELSE [stamp |-> now, requests |-> 0]
Written(r, n) == [r EXCEPT ![now % n] = [Rolled(@) EXCEPT !.requests = @ + 1]]

Evictable(u) == \A v \in Tracked : rings[u].last <= rings[v].last

Room == Cardinality(Tracked) < MaxTracked

\* record: a new user pushes one that called least recently out of a full map.
Record(u) ==
    /\ Len(records) < MaxRecords
    /\ records' = Append(records, [at |-> now, user |-> u])
    /\ ring' = Written(ring, Slots)
    /\ LET counted == [rings EXCEPT ![u] = [ring |-> Written(rings[u].ring, UserSlots), last |-> now]]
       IN  IF u \in Tracked \/ Room THEN rings' = counted
           ELSE \E out \in Tracked : Evictable(out) /\ rings' = [counted EXCEPT ![out] = Untracked]
    /\ since' = [since EXCEPT ![u] = IF u \in Tracked THEN @ ELSE Len(records)]
    /\ UNCHANGED now

QuotaNext == Pass \/ \E u \in QuotaUser : Record(u)

QuotaSpec == QuotaInit /\ [][QuotaNext]_quotaVars

\* window and userUsage add up the slots whose time is in the window.
InWindow(slot, w) == slot.stamp >= now - w + 1 /\ slot.stamp <= now
Window(r, w) == MapThenSumSet(LAMBDA i : r[i].requests, {i \in DOMAIN r : InWindow(r[i], w)})

-----------------------------------------------------------------------------
(***************************************************************************)
(* Properties.                                                             *)
(***************************************************************************)

Within(w) == {i \in DOMAIN records : records[i].at > now - w}

\* Every window the ring is long enough for shows as many calls as were made
\* in it, however often the slots were used again and however long nobody
\* called.
WindowExact == \A w \in 1..Slots : Window(ring, w) = Cardinality(Within(w))

\* A tracked user's usage is of that user's calls, and of all since the map
\* took the user in; and whoever is among the last to call is tracked.
UsersExact ==
    /\ \A u \in Tracked :
          Window(rings[u].ring, UserSlots)
            = Cardinality({i \in Within(UserSlots) : i > since[u] /\ records[i].user = u})
    /\ \A i \in DOMAIN records :
          Cardinality({records[j].user : j \in {k \in DOMAIN records : records[k].at >= records[i].at}}) <= MaxTracked
            => records[i].user \in Tracked

=============================================================================
