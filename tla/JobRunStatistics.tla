--------------------------- MODULE JobRunStatistics ---------------------------
(***************************************************************************)
(* The statistics of job runs: what JobRunStatisticsManager computes from  *)
(* the rows of job_runs, and the resource cost the dashboard reads from    *)
(* its daily points.                                                       *)
(*                                                                         *)
(* Time is counted in ticks, TicksPerDay of them to a UTC day, so that the *)
(* last 24 hours and the current day differ as they do in the code.        *)
(***************************************************************************)
EXTENDS Integers, Sequences, FiniteSets, Functions, FiniteSetsExt

CONSTANTS
  Inputs,         \* the sets of job runs the properties are about
  Instants,       \* the times at which their statistics are taken
  TicksPerDay,    \* 24 hours
  RecentDays,     \* recentDaysCount
  RecentLimit,    \* recentRunsLimit and recentErrorsLimit
  NoDuration      \* the duration of a run that has none, and of a day without one

ASSUME DaysAssumption ==
  /\ TicksPerDay \in Nat \ {0}
  /\ RecentDays \in Nat /\ RecentDays >= 2
  /\ RecentLimit \in Nat
  /\ NoDuration \notin Int

Day(tick) == tick \div TicksPerDay

\* sumCounts.
Total(rows, Count(_)) == SumFunction([row \in rows |-> Count(row)])

IsErroredRun(row) == row.failed > 0 \/ row.status = "failed"

\* The runs listed before a run: the newer ones, and of those that started with
\* it the ones that come first in the listing.
Ahead(rows, row) ==
  {other \in rows : \/ other.startedAt > row.startedAt
                    \/ other.startedAt = row.startedAt /\ other.id < row.id}

SortedRuns(rows) ==
  [k \in 1..Cardinality(rows) |-> CHOOSE row \in rows : Cardinality(Ahead(rows, row)) = k - 1]

FirstOf(runs, none) == IF runs = <<>> THEN none ELSE Head(runs)
Limited(runs)       == SubSeq(runs, 1, IF Len(runs) < RecentLimit THEN Len(runs) ELSE RecentLimit)

\* JobRunStatisticsDailyAccumulator; the average is rounded, halves upwards.
DailyPoint(rows) ==
  LET timed == {row \in rows : row.duration # NoDuration}
      n     == Cardinality(timed)
  IN [runCount        |-> Cardinality(rows),
      detected        |-> Total(rows, LAMBDA row : row.detected),
      transferred     |-> Total(rows, LAMBDA row : row.transferred),
      failed          |-> Total(rows, LAMBDA row : row.failed),
      averageDuration |->
        IF n = 0 THEN NoDuration
        ELSE (2 * Total(timed, LAMBDA row : row.duration) + n) \div (2 * n)]

\* buildDailyPoints: the days up to that of now; other runs are left out.
DailyPoints(rows, now) ==
  [day \in (Day(now) - RecentDays + 1)..Day(now) |->
     DailyPoint({row \in rows : Day(row.startedAt) = day})]

\* Mutant: twice the window.
Last24HoursTwice(rows, now) == {row \in rows : row.startedAt >= now - 2 * TicksPerDay}

Last24Hours(rows, now) == {row \in rows : row.startedAt >= now - TicksPerDay}

\* getStatistics.
Statistics(rows, generatedAt, none) ==
  LET sorted    == SortedRuns(rows)
      errors    == SelectSeq(sorted, IsErroredRun)
      successes == SelectSeq(sorted, LAMBDA row : row.status = "completed")
      recent    == Last24Hours(rows, generatedAt)
  IN [generatedAt        |-> generatedAt,
      dailyPoints        |-> DailyPoints(rows, generatedAt),
      detectedLast24h    |-> Total(recent, LAMBDA row : row.detected),
      failedLast24h      |-> Total(recent, LAMBDA row : row.failed),
      transferredLast24h |-> Total(recent, LAMBDA row : row.transferred),
      lastError          |-> FirstOf(errors, none),
      lastRun            |-> FirstOf(sorted, none),
      lastSuccess        |-> FirstOf(successes, none),
      recentErrors       |-> Limited(errors),
      recentRuns         |-> Limited(sorted)]
-----------------------------------------------------------------------------
\* calculateCostScore of the dashboard, its weights 0.45, 0.35 and 0.2 and its
\* quotients over the common denominator CostUnit.
AtLeastOne(S)      == Max(S \cup {1})
MostDetected(s)    == AtLeastOne({s.dailyPoints[day].detected : day \in DOMAIN s.dailyPoints})
LongestAverage(s)  ==
  AtLeastOne({s.dailyPoints[day].averageDuration : day \in DOMAIN s.dailyPoints} \ {NoDuration})
CostUnit(s)        == 300 * MostDetected(s) * LongestAverage(s)

CostScore(s, point) ==
  LET duration == IF point.averageDuration = NoDuration THEN 0 ELSE point.averageDuration
      failed   == IF point.failed < 3 THEN point.failed ELSE 3
  IN 3 * 45 * point.detected * LongestAverage(s)
       + 3 * 35 * duration * MostDetected(s)
       + 20 * failed * MostDetected(s) * LongestAverage(s)

\* getCostLevel: expensive from 0.66, to watch from 0.4.
CostLevel(s, point) ==
  CASE 100 * CostScore(s, point) >= 66 * CostUnit(s) -> "expensive"
    [] 100 * CostScore(s, point) < 40 * CostUnit(s)  -> "efficient"
    [] OTHER                                         -> "watch"
-----------------------------------------------------------------------------
\* The job runs of a listing: with distinct ids, and no more of them of a later day
\* than the statistics were asked for than are shown, because it takes seconds.
JobRuns ==
  [id : Nat, startedAt : Nat, status : STRING, detected : Nat, transferred : Nat, failed : Nat,
   duration : Nat \cup {NoDuration}]

ASSUME InputsAssumption ==
  /\ Instants \subseteq Nat
  /\ \A rows \in Inputs :
       /\ IsFiniteSet(rows) /\ rows \subseteq JobRuns
       /\ \A a, b \in rows : a.id = b.id => a = b
       /\ \A now \in Instants :
            Cardinality({row \in rows : Day(row.startedAt) > Day(now)}) <= RecentLimit

\* The statistics agree with themselves: a run
\* of the last 24 hours is in the daily points of today or yesterday, but for the
\* runs that started on a later day than generatedAt.
LastDayInDailyPoints(s) ==
  LET today == Day(s.generatedAt)
      late  == {s.recentRuns[i] : i \in {k \in DOMAIN s.recentRuns : Day(s.recentRuns[k].startedAt) > today}}
  IN s.detectedLast24h <= s.dailyPoints[today].detected + s.dailyPoints[today - 1].detected
                            + Total(late, LAMBDA row : row.detected)

\* The costs the dashboard shows: nothing is amiss on a day that detected nothing
\* and took no time, whatever failed; the busiest day is expensive if it was the
\* slowest as well.
CostLevelsSound(s) ==
  \A day \in DOMAIN s.dailyPoints :
    LET point == s.dailyPoints[day]
    IN /\ point.detected = 0 /\ point.averageDuration \in {NoDuration, 0} =>
            CostLevel(s, point) = "efficient"
       /\ point.detected = MostDetected(s) /\ point.averageDuration = LongestAverage(s) =>
            CostLevel(s, point) = "expensive"

\* Whatever the job runs are and whenever they are asked for, the time between
\* generatedAt and the listing included.
EveryStatisticsSound ==
  \A rows \in Inputs, generatedAt \in Instants :
    LET s == Statistics(rows, generatedAt, NoDuration)
    IN LastDayInDailyPoints(s) /\ CostLevelsSound(s)
=============================================================================
