----------------------------- MODULE RateLimits -----------------------------
(***************************************************************************)
(* One limiter: a token bucket per client, refilled when it is asked, and  *)
(* no more than MaxKeys buckets, of which the one asked longest ago goes.  *)
(* A token is Unit parts; Refill parts come back with every tick.          *)
(***************************************************************************)
EXTENDS Integers, Sequences, FiniteSets, SequencesExt

CONSTANTS
    Client,
    Capacity, Unit, Refill, MaxKeys,
    MaxTicks, MaxTakes   \* bounds: the clock, and how often the limiter is asked

ASSUME LimitAssumption ==
    /\ Capacity \in Nat \ {0} /\ Unit \in Nat \ {0} /\ Refill \in Nat \ {0}
    /\ MaxKeys \in Nat \ {0} /\ MaxTicks \in Nat /\ MaxTakes \in Nat

VARIABLES
    tick,
    recency,  \* the clients that have a bucket, the one asked last at the end
    bucket,   \* of those: the parts in the bucket and when it was last refilled
    asks,     \* every question since the start: who, when, allowed or not
    since     \* of every client: how many questions there were when it got its bucket

limitVars == <<tick, recency, bucket, asks, since>>

LimitTypeOK ==
    /\ tick \in 0..MaxTicks
    /\ IsInjective(recency) /\ Len(recency) <= MaxKeys
    /\ \A c \in Range(recency) : bucket[c].parts \in 0..(Capacity * Unit) /\ bucket[c].at \in 0..tick
    /\ since \in [Client -> 0..Len(asks)]

LimitInit ==
    /\ tick = 0 /\ recency = <<>> /\ asks = <<>>
    /\ bucket = [c \in Client |-> [parts |-> 0, at |-> 0]] /\ since = [c \in Client |-> 0]

Least(a, b) == IF a < b THEN a ELSE b
MutRefilled(b) == [parts |-> b.parts + Refill * (tick - b.at), at |-> tick]
Refilled(b) == [parts |-> Least(Capacity * Unit, b.parts + Refill * (tick - b.at)), at |-> tick]

\* The keys of the map without c, in their order.
Without(s, c) == [i \in 1..(Len(s) - 1) |-> IF \E j \in 1..i : s[j] = c THEN s[i + 1] ELSE s[i]]

\* A client that has none gets a full bucket, for which another may have to go.
Room(c) ==
    IF c \in Range(recency) THEN Without(recency, c)
    ELSE IF Len(recency) >= MaxKeys THEN Tail(recency) ELSE recency

Moved(c) == Append(Room(c), c)

LimiterTake(c) ==
    LET fresh == c \notin Range(recency)
        b == IF fresh THEN [parts |-> Capacity * Unit, at |-> tick] ELSE Refilled(bucket[c])
        allowed == b.parts >= Unit
    IN  /\ Len(asks) < MaxTakes
        /\ recency' = Moved(c)
        /\ bucket' = [bucket EXCEPT ![c] = [b EXCEPT !.parts = IF allowed THEN @ - Unit ELSE @]]
        /\ asks' = Append(asks, [who |-> c, at |-> tick, allowed |-> allowed])
        /\ since' = IF fresh THEN [since EXCEPT ![c] = Len(asks)] ELSE since
        /\ UNCHANGED tick

LimitTick == tick < MaxTicks /\ tick' = tick + 1 /\ UNCHANGED <<recency, bucket, asks, since>>

LimitNext == LimitTick \/ \E c \in Client : LimiterTake(c)

LimitSpec == LimitInit /\ [][LimitNext]_limitVars

-----------------------------------------------------------------------------
(***************************************************************************)
(* Properties.                                                             *)
(***************************************************************************)

\* What c was allowed from its i-th question on, while it had one bucket.
AllowedTo(c, i, j) == Cardinality({n \in i..j : asks[n].who = c /\ asks[n].allowed})

\* In no interval is a client that kept its bucket allowed more than a full
\* bucket and what comes back meanwhile.
BurstsAreBounded ==
    \A c \in Range(recency) : \A i, j \in (since[c] + 1)..Len(asks) :
       i <= j => Unit * AllowedTo(c, i, j) <= Capacity * Unit + Refill * (asks[j].at - asks[i].at)

\* A client is refused only for what it was allowed itself: one more would be
\* more than its limit in some interval.  Nobody else's questions count.
RefusedForItsOwn ==
    \A j \in 1..Len(asks) : (~asks[j].allowed /\ j > since[asks[j].who]) =>
       \E i \in 1..j : /\ asks[i].who = asks[j].who
                       /\ Unit * (AllowedTo(asks[j].who, i, j) + 1)
                             > Capacity * Unit + Refill * (asks[j].at - asks[i].at)

\* The client that loses its bucket is the one that asked longest ago.
IdlestIsForgotten ==
    [][\A c \in Range(recency) \ Range(recency') : \A d \in Range(recency) \ {c} :
          \E i \in 1..Len(asks) : asks[i].who = d /\ \A j \in i..Len(asks) : asks[j].who # c]_limitVars

\* What the limiter promises each client, with more clients than buckets.
LimitsSafe == [](LimitTypeOK /\ BurstsAreBounded /\ RefusedForItsOwn) /\ IdlestIsForgotten

=============================================================================
