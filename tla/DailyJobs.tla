----------------------------- MODULE DailyJobs -----------------------------
(***************************************************************************)
(* When a daily job is due (scheduler.py, timeparse.py) on a laptop whose  *)
(* clock is put forward or back: time is counted in instants, the clock    *)
(* shows instants shifted by the offset in force, and the ticker asks at   *)
(* instants of its own choosing, the laptop being asleep at others.        *)
(***************************************************************************)
EXTENDS Integers, FiniteSets

CONSTANTS
  DayLength,   \* what the clock counts in a day
  Hour,        \* the job's time of day
  Weekdays,    \* the days of a week, and those the job is for (none: every day)
  OnDays,
  Shift,       \* by how much the clock is changed
  LastInstant, \* bound: instants
  LongestRun   \* bound: how long a run takes

ASSUME DailyJobsAssumption ==
  /\ DayLength \in Nat \ {0} /\ Hour \in 0..(DayLength - 1)
  /\ Weekdays \in Nat \ {0} /\ OnDays \subseteq 0..(Weekdays - 1)
  /\ Shift \in 1..DayLength /\ LastInstant \in Nat /\ LongestRun \in Nat

Instants == 0..LastInstant
Never == -1

VARIABLES
  zone,     \* when the clock is changed, and its offset before and after
  now,      \* the instant
  lastrun,  \* last_run_at: when the last run ended, if there was one
  since,    \* when the run under way began, if there is one
  runs,     \* ghost: when each run began and ended
  checked   \* ghost: when the ticker last asked, with no run under way

dailyvars == <<zone, now, lastrun, since, runs, checked>>

Zones == [at : Instants, before : {Shift, 2 * Shift}, after : {Shift, 2 * Shift}]

\* on_laptop_clock of an instant: the offset in force then.
Wall(t) == t + (IF t < zone.at THEN zone.before ELSE zone.after)
Day(t) == Wall(t) \div DayLength

\* on_laptop_clock of a wall time: the first instant that shows it; one that
\* the clock skips is read with the offset of before, and so moves forward.
InstantOf(w) ==
  IF w - zone.before < zone.at \/ w - zone.after < zone.at THEN w - zone.before ELSE w - zone.after

DailyJobsTypeOK ==
  /\ zone \in Zones /\ now \in Instants
  /\ lastrun \in Instants \cup {Never} /\ since \in Instants \cup {Never}
  /\ runs \subseteq Instants \X Instants /\ checked \in Instants \cup {Never}

\* The last hour of a day is not skipped: a job that falls into it would move
\* out of its day.  An hour that the clock shows twice is of one day.
OfOneDay(z) ==
  /\ z.before < z.after => ((z.at + z.before) % DayLength) + Shift < DayLength
  /\ z.after < z.before => ((z.at + z.after) % DayLength) + Shift <= DayLength

DailyJobsInit ==
  /\ zone \in {z \in Zones : OfOneDay(z)}
  /\ now = 0 /\ lastrun = Never /\ since = Never /\ runs = {} /\ checked = Never
-----------------------------------------------------------------------------
ForThisDay(t) == OnDays = {} \/ Day(t) % Weekdays \in OnDays

\* The job's time on the day that the clock shows.
ClockTime(t) == Day(t) * DayLength + Hour

\* Mutant of Target: today's time in the offset of the tick that asks.
TargetAtThisOffset(t) == ClockTime(t) - (Wall(t) - t)

\* Today's time, by the zone's rules for today.
Target(t) == InstantOf(ClockTime(t))

IsDue(t) ==
  /\ ForThisDay(t)
  /\ t >= Target(t)
  /\ lastrun = Never \/ lastrun < Target(t)

TimePasses ==
  /\ now < LastInstant
  /\ since # Never => now - since < LongestRun
  /\ now' = now + 1
  /\ UNCHANGED <<zone, lastrun, since, runs, checked>>

\* claim_due_jobs: a job that runs is not claimed again.
TickDaily ==
  /\ since = Never
  /\ checked' = now
  /\ since' = IF IsDue(now) THEN now ELSE Never
  /\ UNCHANGED <<zone, now, lastrun, runs>>

\* mark_ran, with the time at which the run ended.
RunEnds ==
  /\ since # Never
  /\ lastrun' = now /\ since' = Never /\ runs' = runs \cup {<<since, now>>}
  /\ UNCHANGED <<zone, now, checked>>

DailyJobsNext == TimePasses \/ TickDaily \/ RunEnds

DailyJobsSpec == DailyJobsInit /\ [][DailyJobsNext]_dailyvars
-----------------------------------------------------------------------------
\* The clock has shown the day's time, or one after it, on that day, which may have
\* begun before the first instant.
TimeHasCome(t) == \E s \in (-(2 * DayLength))..t : Day(s) = Day(t) /\ Wall(s) >= ClockTime(t)

\* A daily job runs at most once on a day of the clock, not before its time has
\* come, and has run by the end of a tick that found its time past: also on the
\* days that lose an hour or have one twice (scheduler.py:60-62).  A run that
\* ends after the next day's time stands for that day too.
OncePerDay ==
  /\ \A r, s \in runs : r # s => Day(r[1]) # Day(s[1])
  /\ \A r \in runs : ForThisDay(r[1]) /\ TimeHasCome(r[1])
  /\ checked # Never /\ ForThisDay(checked) /\ Wall(checked) >= ClockTime(checked) + Shift
       => since # Never \/ \E r \in runs : Day(checked) \in {Day(r[1]), Day(r[2])}
=============================================================================
