----------------------------- MODULE QuotaProbe -----------------------------
(***************************************************************************)
(* The project's own request quota, read from Google for the dashboard: at *)
(* most once in a while, one read for all that ask meanwhile, failures     *)
(* kept like answers.  And how limits and consumption are put together.    *)
(***************************************************************************)
EXTENDS Integers, Sequences, FiniteSets, FiniteSetsExt

CONSTANTS
    Readers, CacheFor, TokenFor, TokenSkew,
    MaxProbeTime,     \* bound: time
    Scopes, Figures,  \* of limits and samples
    Unknown

ASSUME QuotaProbeAssumption ==
    /\ {CacheFor, TokenFor, TokenSkew, MaxProbeTime} \subseteq Nat /\ TokenSkew < TokenFor /\ Figures \subseteq Nat
    /\ Unknown \notin Readers \cup Scopes \cup Figures

VARIABLES
    probeNow, token,  \* its expiry, or Unknown
    cached,           \* what is kept: when it was read and what, or Unknown
    inFlight,         \* the read under way: by whom, where it is, or Unknown
    reading,          \* reader -> its answer and when that was read
    askedAt,            \* history: reader -> when it askedAt
    loaded,           \* history: when the last read of Google began and ended
    limits, samples   \* of one metric: limits by scope, what was consumed

probeVars == <<probeNow, token, cached, inFlight, reading, askedAt, loaded, limits, samples>>
rows == <<limits, samples>>

NotReading == [at |-> 0, result |-> "idle"]
Waiting == [at |-> 0, result |-> "waiting"]
AtMostTwo(S) == UNION {kSubset(k, S) : k \in 0..2}
\* A limit is for a user, a project or neither; so is what was consumed.
ProbeInit ==
    /\ probeNow = 0 /\ token = Unknown /\ cached = Unknown /\ inFlight = Unknown
    /\ reading = [r \in Readers |-> NotReading] /\ askedAt = [r \in Readers |-> 0] /\ loaded = <<>>
    /\ limits \in AtMostTwo(Scopes \X (Figures \cup {Unknown}))
    /\ samples \in AtMostTwo(Scopes \X Figures)

-----------------------------------------------------------------------------

\* Of the series of its own scope the largest; none, rather than another's.
Matches(limit) == {s \in samples : s[1] = limit[1]}
MergeQuotaRow(limit) ==
    LET consumed == IF Matches(limit) = {} THEN Unknown ELSE Max({s[2] : s \in Matches(limit)})
    IN  [scope |-> limit[1], limit |-> limit[2], consumed |-> consumed,
         remaining |-> IF Unknown \in {consumed, limit[2]} THEN Unknown ELSE Max({0, limit[2] - consumed})]
MergeQuotaRows == {MergeQuotaRow(l) : l \in limits}

-----------------------------------------------------------------------------

Fresh == cached # Unknown /\ probeNow - cached.at < CacheFor
TokenGood == token # Unknown /\ token - TokenSkew > probeNow

Answer(r, from) == reading' = [reading EXCEPT ![r] = from]

\* A read that is kept serves; else the one under way; else one begins.
ReadKept(r) ==
    /\ reading[r] # Waiting /\ Fresh /\ Answer(r, cached) /\ askedAt' = [askedAt EXCEPT ![r] = probeNow]
    /\ UNCHANGED <<probeNow, token, cached, inFlight, loaded, rows>>

Joins == inFlight # Unknown
ReadQuota(r) ==
    /\ reading[r] # Waiting /\ ~Fresh /\ Answer(r, Waiting) /\ askedAt' = [askedAt EXCEPT ![r] = probeNow]
    /\ IF Joins THEN UNCHANGED <<inFlight, loaded>>
       ELSE /\ inFlight' = [by |-> r, at |-> IF TokenGood THEN "figures" ELSE "token", aborted |-> FALSE]
            /\ loaded' = Append(loaded, [began |-> probeNow, ended |-> Unknown])
    /\ UNCHANGED <<probeNow, token, cached, rows>>

TokenFetched ==
    /\ inFlight # Unknown /\ inFlight.at = "token" /\ ~inFlight.aborted
    /\ token' = probeNow + TokenFor /\ inFlight' = [inFlight EXCEPT !.at = "figures"]
    /\ UNCHANGED <<probeNow, cached, reading, askedAt, loaded, rows>>

\* Whatever comes of it is kept and is the answer of all that wait for it.
Settled(result) ==
    /\ cached' = [at |-> probeNow, result |-> result] /\ inFlight' = Unknown
    /\ reading' = [r \in Readers |-> IF reading[r] = Waiting THEN cached' ELSE reading[r]]
    /\ loaded' = [loaded EXCEPT ![Len(loaded)].ended = probeNow]
    /\ UNCHANGED <<probeNow, token, askedAt, rows>>

\* Consumption may be missing; the limits may not.
FiguresRead(usage) ==
    /\ inFlight # Unknown /\ inFlight.at = "figures" /\ ~inFlight.aborted
    /\ Settled(IF usage THEN "rows" ELSE "limits")

\* Google fails, or the one whose read it is goes away.
LoadFails == inFlight # Unknown /\ Settled("error")

LeaderGoes ==
    /\ inFlight # Unknown /\ ~inFlight.aborted /\ inFlight' = [inFlight EXCEPT !.aborted = TRUE]
    /\ UNCHANGED <<probeNow, token, cached, reading, askedAt, loaded, rows>>

ProbeTick ==
    /\ probeNow < MaxProbeTime /\ probeNow' = probeNow + 1
    /\ UNCHANGED <<token, cached, inFlight, reading, askedAt, loaded, rows>>

ProbeNext ==
    \/ \E r \in Readers : ReadKept(r) \/ ReadQuota(r)
    \/ TokenFetched \/ LoadFails \/ LeaderGoes \/ ProbeTick
    \/ \E usage \in BOOLEAN : FiguresRead(usage)

ProbeSpec == ProbeInit /\ [][ProbeNext]_probeVars

-----------------------------------------------------------------------------

\* "Read the live quota, at most once per cache window": reads of Google never
\* overlap, and one begins no sooner than the answer before it, good or bad,
\* is too old.
OncePerWindow ==
    \A i \in 1..Len(loaded) - 1 :
        loaded[i].ended # Unknown /\ loaded[i + 1].began >= loaded[i].ended + CacheFor

\* What a reader gets is never older than the window at the time it askedAt, and
\* every reader that waits has a read under way to answer it.
AnswersAreFresh ==
    \A r \in Readers :
        /\ reading[r] \notin {NotReading, Waiting} => askedAt[r] < reading[r].at + Max({CacheFor, 1})
        /\ reading[r] = Waiting => inFlight # Unknown

\* Google is never askedAt with a token that is about to expire.
TokenIsGood == [][\A usage \in BOOLEAN : inFlight = Unknown /\ inFlight' # Unknown /\ inFlight'.at = "figures"
                    => token - TokenSkew > probeNow]_probeVars

\* A row shows what its own scope consumed, or that this is not known; it
\* never borrows the number of another scope.
NeverBorrows ==
    \A row \in MergeQuotaRows :
        /\ row.consumed # Unknown => <<row.scope, row.consumed>> \in samples
        /\ row.consumed = Unknown <=> \A s \in samples : s[1] # row.scope
        /\ row.remaining # Unknown => row.remaining \in 0..row.limit

=============================================================================
