---------------------------- MODULE ScheduleTime ----------------------------
(***************************************************************************)
(* When a schedule falls due next: a timing as it was asked for, what is   *)
(* kept of it, and the first moment after a given one, in a zone whose     *)
(* clock is changed once.  Instants are hours; a day has DayLength of      *)
(* them and a week has WeekLength days.                                    *)
(***************************************************************************)
EXTENDS Integers, FiniteSets, FiniteSetsExt

CONSTANTS
    DayLength, WeekLength,
    Offsets,        \* of a zone's clock, before and after its change
    ChangeAt,       \* instants at which a clock may be changed
    Moments,        \* the moments asked about
    Minutes,        \* numbers a timing is asked for with
    MinInterval, MaxInterval, MaxQuiet, MaxWait, DefaultQuiet, DefaultWait,
    NoTime

ASSUME ScheduleTimeAssumption ==
    /\ DayLength \in Nat \ {0} /\ WeekLength \in Nat \ {0} /\ Offsets \subseteq Int
    /\ ChangeAt \subseteq Int /\ Moments \subseteq Int /\ Minutes \subseteq Int
    /\ {MinInterval, MaxInterval, MaxQuiet, MaxWait, DefaultQuiet, DefaultWait} \subseteq Nat \ {0}
    /\ NoTime \notin Minutes

VARIABLES timing, zone, after

timeVars == <<timing, zone, after>>

Frequencies == {"interval", "daily", "weekly", "on_change"}
Kept(kind) == [frequency |-> kind, interval |-> NoTime, time |-> NoTime, days |-> {}, quiet |-> NoTime, wait |-> NoTime]

\* On-change timings are for buckets only; the time zone is one there is.
QuietOf(t) == IF t.quiet = NoTime THEN DefaultQuiet ELSE t.quiet
WaitOf(t) == IF t.wait = NoTime THEN Max({DefaultWait, QuietOf(t)}) ELSE t.wait

DaysAllowed(t) == t.days # {} /\ t.days \subseteq 1..WeekLength

Accepted(t) ==
    CASE t.frequency = "interval" -> t.interval # NoTime /\ t.interval \in MinInterval..MaxInterval
      [] t.frequency = "on_change" -> /\ t.forBucket /\ QuietOf(t) \in 1..MaxQuiet
                                      /\ WaitOf(t) \in QuietOf(t)..MaxWait
      [] t.frequency = "daily" -> t.time # NoTime
      [] t.frequency = "weekly" -> t.time # NoTime /\ DaysAllowed(t)

NormalizeTiming(t) ==
    CASE t.frequency = "interval" -> [Kept("interval") EXCEPT !.interval = t.interval]
      [] t.frequency = "on_change" -> [Kept("on_change") EXCEPT !.quiet = QuietOf(t), !.wait = WaitOf(t)]
      [] t.frequency = "daily" -> [Kept("daily") EXCEPT !.time = t.time]
      [] t.frequency = "weekly" -> [Kept("weekly") EXCEPT !.time = t.time, !.days = t.days]

-----------------------------------------------------------------------------

OffsetAt(i) == IF i < zone.change THEN zone.old ELSE zone.new
WallClock(i) == i + OffsetAt(i)
DayOf(wall) == wall \div DayLength
WeekdayOf(day) == (day % WeekLength) + 1

\* The offsets a day and a half to each side are those before and after a
\* change nearby.
Bracket == (3 * DayLength) \div 2
Instants(wall) == {wall - OffsetAt(wall - Bracket), wall - OffsetAt(wall + Bracket)}
MutFirstMatch(matching) == Max(matching)
FirstMatch(matching) == Min(matching)
ZonedTimeToInstant(wall) ==
    LET matching == {i \in Instants(wall) : WallClock(i) = wall}
    IN  IF matching # {} THEN FirstMatch(matching) ELSE wall - OffsetAt(wall - Bracket)

\* Days are tried in their order, today first.
Ahead == 0..WeekLength + 1
Candidates(t) ==
    {offset \in Ahead :
        LET day == DayOf(WallClock(after)) + offset
        IN  /\ t.frequency = "weekly" => WeekdayOf(day) \in t.days
            /\ ZonedTimeToInstant(day * DayLength + t.time) > after}
OnDay(t, offset) == ZonedTimeToInstant((DayOf(WallClock(after)) + offset) * DayLength + t.time)

NextRunAt(t) ==
    CASE t.frequency = "interval" -> after + t.interval
      [] t.frequency = "on_change" -> after + 1
      [] t.frequency \in {"daily", "weekly"} ->
            IF Candidates(t) = {} THEN NoTime ELSE OnDay(t, Min(Candidates(t)))

-----------------------------------------------------------------------------

OrNone(S) == S \cup {NoTime}
Timings == [frequency : Frequencies, interval : OrNone(Minutes), time : OrNone(0..DayLength - 1),
            days : {{}, {0}, {1}, {WeekLength}, {1, 3}, {2, WeekLength + 1}}, quiet : OrNone(Minutes), wait : OrNone(Minutes),
            forBucket : BOOLEAN]
\* One field that is not used is as good as another.
Plain(t) == /\ t.frequency # "interval" => t.interval = NoTime
            /\ t.frequency \notin {"daily", "weekly"} => t.time = NoTime
            /\ t.frequency # "weekly" => t.days = {}
            /\ t.frequency # "on_change" => t.quiet = NoTime /\ t.wait = NoTime /\ ~t.forBucket

TimeInit ==
    /\ timing \in {t \in Timings : Plain(t)}
    /\ zone \in [old : Offsets, new : Offsets, change : ChangeAt]
    /\ after \in Moments

\* The clock is changed within a day: what it skips, moved past what it
\* skips, is no later than midnight, and what it reads twice is on one day.
ChangesWithinADay ==
    LET jump == Max({zone.new - zone.old, 0})
    IN  DayOf(zone.change - 1 + zone.old) = DayOf(zone.change + zone.new)
        /\ DayOf(zone.change + zone.new) = DayOf(zone.change + zone.new + jump - 1)

-----------------------------------------------------------------------------

\* A timing that was accepted is always due again, later, within the time
\* that it names: "unreachable for a normalized timing".  Neither a week that
\* wraps nor a change of the clock leaves it without a next run.
AlwaysDueAgain ==
    Accepted(timing) =>
        LET next == NextRunAt(NormalizeTiming(timing))
        IN  next # NoTime /\ next > after
            /\ (timing.frequency = "daily" => next <= after + DayLength + Max({zone.new - zone.old, zone.old - zone.new}))

\* A clock that reads the time twice rings at the first; one that skips it
\* rings as much later.
RingsOn(day, t) ==
    LET wall == day * DayLength + t.time
        reads == {i \in (wall - 2 * DayLength)..(wall + 2 * DayLength) : WallClock(i) = wall}
    IN  IF reads # {} THEN Min(reads) ELSE wall - zone.old
\* A daily schedule runs exactly once a day, and a weekly one on its days, on
\* the day that the clock is changed too, when that happens within the day.
OnceADay ==
    Accepted(timing) /\ timing.frequency \in {"daily", "weekly"} /\ ChangesWithinADay =>
        LET t == NormalizeTiming(timing)
            days == {day \in DayOf(WallClock(after))..(DayOf(WallClock(after)) + WeekLength + 1) :
                        t.frequency = "weekly" => WeekdayOf(day) \in t.days}
            later == {day \in days : RingsOn(day, t) > after}
        IN  /\ NextRunAt(t) = RingsOn(Min(later), t)
            /\ DayOf(WallClock(NextRunAt(t))) = Min(later)

\* Who says how long a bucket must be quiet need not say how long changes may
\* wait for that: whatever is not said goes with what is.
QuietIsEnough ==
    timing.frequency = "on_change" /\ timing.forBucket /\ QuietOf(timing) \in 1..MaxQuiet /\ timing.wait = NoTime =>
        Accepted(timing) /\ NormalizeTiming(timing).quiet <= NormalizeTiming(timing).wait

=============================================================================
