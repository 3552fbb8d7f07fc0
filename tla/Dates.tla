------------------------------- MODULE Dates -------------------------------
(***************************************************************************)
(* The days and moments that a phrase of the user's stands for             *)
(* (tools/dates.py and timeparse.py): holidays and their days off, "in 3   *)
(* months", "june 5", "the 31st", "next friday", "tonight at 8", "until    *)
(* 9:30", "since christmas".  What a phrase is taken for, its words, is    *)
(* left out.  A day is its ordinal, as in Python's datetime, whose years,  *)
(* months and weekdays (Monday is 0) are external; a time of day is in     *)
(* minutes, and no clock is put forward or back here (that is in           *)
(* DailyJobs).                                                             *)
(***************************************************************************)
EXTENDS Integers, FiniteSets, FiniteSetsExt

CONSTANTS
  Years,        \* the years that today may be in
  EasterYears   \* the years whose Easter is checked

\* Python's date() knows no year 0, and the year before today's is looked at.
ASSUME DatesAssumption == Years \subseteq Nat \ {0, 1} /\ EasterYears \subseteq 1583..4000

VARIABLES
  today,        \* <<year, month, day>>
  asked         \* the user asks about dates today

datevars == <<today, asked>>

NoDay == 0
-----------------------------------------------------------------------------
\* The calendar.
IsLeap(y) == y % 4 = 0 /\ (y % 100 # 0 \/ y % 400 = 0)
MonthLength(y, m) == IF m = 2 THEN (IF IsLeap(y) THEN 29 ELSE 28) ELSE IF m \in {4, 6, 9, 11} THEN 30 ELSE 31

BeforeMonth == [m \in 1..12 |-> <<0, 31, 59, 90, 120, 151, 181, 212, 243, 273, 304, 334>>[m]]
Ordinal(y, m, d) ==
  365 * (y - 1) + ((y - 1) \div 4) - ((y - 1) \div 100) + ((y - 1) \div 400)
  + BeforeMonth[m] + (IF m > 2 /\ IsLeap(y) THEN 1 ELSE 0) + d
Weekday(o) == (o - 1) % 7

\* date(...), or the ValueError of a day that the month does not have.
DateOf(y, m, d) == IF d \in 1..MonthLength(y, m) THEN Ordinal(y, m, d) ELSE NoDay

Year == today[1]
Month == today[2]
DayOfMonth == today[3]
Today == Ordinal(Year, Month, DayOfMonth)

DatesTypeOK ==
  /\ Year \in Years /\ Month \in 1..12 /\ DayOfMonth \in 1..MonthLength(Year, Month)
  /\ asked \in BOOLEAN
DatesInit == (\E y \in Years : today = <<y, 1, 1>>) /\ asked = FALSE

AskADate == ~asked /\ asked' = TRUE /\ UNCHANGED today

DayPasses ==
  /\ asked' = FALSE
  /\ \/ DayOfMonth < MonthLength(Year, Month) /\ today' = <<Year, Month, DayOfMonth + 1>>
     \/ DayOfMonth = MonthLength(Year, Month) /\ Month < 12 /\ today' = <<Year, Month + 1, 1>>

DatesNext == AskADate \/ DayPasses

DatesSpec == DatesInit /\ [][DatesNext]_datevars
-----------------------------------------------------------------------------
\* Holidays.
NthWeekday(y, m, wd, n) ==
  IF n > 0
  THEN LET first == Ordinal(y, m, 1) IN first + ((wd - Weekday(first)) % 7) + 7 * (n - 1)
  ELSE LET last == Ordinal(y, m, MonthLength(y, m)) IN last - ((Weekday(last) - wd) % 7)

\* The anonymous Gregorian computus.
Easter(y) ==
  LET a == y % 19
      b == y \div 100
      c == y % 100
      g == (b - ((b + 8) \div 25) + 1) \div 3
      h == (19 * a + b - (b \div 4) - g + 15) % 30
      l == (32 + 2 * (b % 4) + 2 * (c \div 4) - h - (c % 4)) % 7
      m == (a + 11 * h + 22 * l) \div 451
      e == h + l - 7 * m + 114
  IN Ordinal(y, e \div 31, (e % 31) + 1)

\* <<month, day>>, <<month, weekday, which>>, and days after another holiday.
FixedDays ==
  [christmas |-> <<12, 25>>, christmas_eve |-> <<12, 24>>, new_year |-> <<1, 1>>, new_years_eve |-> <<12, 31>>,
   valentine |-> <<2, 14>>, st_patrick |-> <<3, 17>>, halloween |-> <<10, 31>>, independence |-> <<7, 4>>,
   veterans |-> <<11, 11>>, boxing |-> <<12, 26>>, juneteenth |-> <<6, 19>>]
WeekdaysOfMonths ==
  [thanksgiving |-> <<11, 3, 4>>, mother |-> <<5, 6, 2>>, father |-> <<6, 6, 3>>, memorial |-> <<5, 0, -1>>,
   labor |-> <<9, 0, 1>>, luther_king |-> <<1, 0, 3>>, presidents |-> <<2, 0, 3>>, columbus |-> <<10, 0, 2>>]
Holidays ==
  DOMAIN FixedDays \cup DOMAIN WeekdaysOfMonths \cup {"easter", "good_friday", "black_friday", "cyber_monday"}

DayOf(h, y) ==
  LET thanksgiving == NthWeekday(y, 11, 3, 4) IN
  CASE h \in DOMAIN FixedDays -> Ordinal(y, FixedDays[h][1], FixedDays[h][2])
    [] h \in DOMAIN WeekdaysOfMonths ->
         NthWeekday(y, WeekdaysOfMonths[h][1], WeekdaysOfMonths[h][2], WeekdaysOfMonths[h][3])
    [] h = "easter" -> Easter(y)
    [] h = "good_friday" -> Easter(y) - 2
    [] h = "black_friday" -> thanksgiving + 1
    [] h = "cyber_monday" -> thanksgiving + 4

\* The next time a holiday falls on or after today, or in the year that is said.
NextHoliday(h) == IF DayOf(h, Year) >= Today THEN DayOf(h, Year) ELSE DayOf(h, Year + 1)

Federal == {"new_year", "luther_king", "presidents", "memorial", "juneteenth", "independence", "labor",
            "columbus", "veterans", "thanksgiving", "christmas"}

\* Saturday's on the Friday, Sunday's on the Monday.
Observed(o) == IF Weekday(o) = 5 THEN o - 1 ELSE IF Weekday(o) = 6 THEN o + 1 ELSE o

\* A day off may be in the year before its holiday.
FederalYears == {Year - 1, Year, Year + 1}

FederalDays == {<<Observed(DayOf(h, y)), DayOf(h, y)>> : h \in Federal, y \in FederalYears}
NextFederal == CHOOSE f \in FederalDays : f[1] > Today /\ \A other \in FederalDays : other[1] > Today => f[1] <= other[1]
IsFederal(o) == \E f \in FederalDays : o \in {f[1], f[2]}
-----------------------------------------------------------------------------
\* Phrases.

\* "in 3 months", "2 years ago": a month is counted on the calendar.
ShiftedMonths(count) ==
  LET index == Month - 1 + count
      y == Year + (index \div 12)
      m == (index % 12) + 1
  IN Ordinal(y, m, Min({DayOfMonth, MonthLength(y, m)}))

\* "june 5": the next time that date comes round.
MonthDay(m, d) ==
  LET candidate == DateOf(Year, m, d) IN
  IF candidate = NoDay \/ candidate >= Today THEN candidate ELSE DateOf(Year + 1, m, d)

\* "on the 31st": the next time that day of the month comes round.
MonthAhead(n) == <<Year + ((Month - 1 + n) \div 12), ((Month - 1 + n) % 12) + 1>>
DayAhead(n, d) == DateOf(MonthAhead(n)[1], MonthAhead(n)[2], d)
OnThe(d) ==
  LET fits == {n \in 0..13 : DayAhead(n, d) # NoDay /\ DayAhead(n, d) >= Today} IN
  IF fits = {} THEN NoDay ELSE DayAhead(Min(fits), d)

\* "friday", and "next friday": that of next week, weeks starting on Monday.
ComingWeekday(wd) == Today + ((wd - Weekday(Today)) % 7)

NextWeekday(wd) == Today + (7 - Weekday(Today)) + wd

\* What a day is named by: an offset, a day of the week, a date, a day of this or the next
\* month or of the coming ones, or "next week".
DayPhrases ==
  [kind : {"today", "tonight", "tomorrow", "day_after_tomorrow", "next_week"}]
  \cup [kind : {"weekday", "next_weekday"}, wd : 0..6]
  \cup {[kind |-> "written", m |-> m, d |-> d] : m \in 1..12, d \in {1, 15, 29, 31}}
  \cup {[kind |-> "written", m |-> Month, d |-> DayOfMonth]}
  \cup [kind : {"monthly", "this_month", "next_month"}, d : 1..31]

\* _find_day: a month that is named is never left for another, and its days that are past or
\* missing are refused.
FindDay(p) ==
  CASE p.kind \in {"today", "tonight"} -> Today
    [] p.kind = "tomorrow" -> Today + 1
    [] p.kind = "day_after_tomorrow" -> Today + 2
    [] p.kind = "weekday" -> ComingWeekday(p.wd)
    [] p.kind = "next_weekday" -> NextWeekday(p.wd)
    [] p.kind = "written" -> MonthDay(p.m, p.d)
    [] p.kind = "monthly" -> OnThe(p.d)
    [] p.kind = "this_month" -> IF DayAhead(0, p.d) >= Today THEN DayAhead(0, p.d) ELSE NoDay
    [] p.kind = "next_month" -> DayAhead(1, p.d)
    [] p.kind = "next_week" -> Today + 7

\* "at 6", "6:30", "6 pm": an hour, minutes if they are said, a half of the day.  A bare hour
\* from one to six is of the afternoon.
NoTime == -1
NoHalf == "none"
NormaliseClock(hour, minute, half, hadMinutes) ==
  IF minute > 59 \/ hour > 23 \/ (half # NoHalf /\ hour \notin 1..12) THEN NoTime
  ELSE IF half # NoHalf THEN 60 * ((hour % 12) + (IF half = "pm" THEN 12 ELSE 0)) + minute
  ELSE IF ~hadMinutes /\ hour \in 1..6 THEN 60 * (hour + 12) + minute
  ELSE 60 * hour + minute

\* _find_time: the half that is said with it, else that of the words around it, else of an alarm.
FindTime(t, around, default) ==
  NormaliseClock(t.hour, t.minute,
                 IF t.half # NoHalf \/ t.hour \notin 1..12 THEN t.half
                 ELSE IF around # NoHalf THEN around ELSE default,
                 t.hadMinutes)

NamedTimes == [noon |-> 720, midnight |-> 0, morning |-> 540, afternoon |-> 840, evening |-> 1080, night |-> 1200]

\* "quarter to eight" is 7:45.
QuarterTo(hour) == <<((hour - 2) % 12) + 1, 45>>

Moment(o, time) == 1440 * o + time
Now(clock) == Moment(Today, clock)

\* _day_and_time: a time alone is tomorrow's once it is past; a day is at nine unless a time is
\* said, and a week on if that is past already, but for "today", which is left to be refused.
TimeAt(time, clock) == IF time <= clock THEN Moment(Today + 1, time) ELSE Moment(Today, time)
DayAndTime(p, o, time, clock) ==
  IF o = Today /\ time <= clock /\ p.kind \notin {"today", "tonight"} THEN Moment(o + 7, time) ELSE Moment(o, time)
DefaultTime(p) == IF p.kind = "tonight" THEN NamedTimes.night ELSE NamedTimes.morning

\* "in 20 minutes", "in an hour and a half": as long as that, if it is any time at all.
InDuration(clock, minutes) == IF minutes > 0 THEN Now(clock) + minutes ELSE NoTime

\* "until 9:30": the sooner of its two readings.
UntilTime(hour, minute, clock) ==
  Min({TimeAt(FindTime([hour |-> hour, minute |-> minute, half |-> NoHalf, hadMinutes |-> TRUE], NoHalf, half), clock)
       : half \in {"am", "pm"}})

\* span_text: days, hours and minutes, or all in the unit that was asked for.
SpanText(minutes, unit) ==
  LET days == IF unit = "hours" THEN 0 ELSE minutes \div 1440
      rest == minutes - 1440 * days IN
  IF unit = "minutes" THEN <<0, 0, minutes>> ELSE <<days, rest \div 60, rest % 60>>

\* describe: a day is called by its name if it is one of the coming six.
Describe(o) ==
  LET days == o - Today IN
  IF days = 0 THEN [kind |-> "today"] ELSE IF days = 1 THEN [kind |-> "tomorrow"]
  ELSE IF days \in 2..6 THEN [kind |-> "weekday", wd |-> Weekday(o)] ELSE [kind |-> "stamp"]

\* "july 4th this year", "christmas next year": the one in that year, past or not.
PinnedYears == {Year - 1, Year, Year + 1}
InYear(p, y) == IF p.kind = "written" THEN DateOf(y, p.m, p.d) ELSE DayOf(p.name, y)
Resolve(p) == IF p.kind = "written" THEN MonthDay(p.m, p.d) ELSE NextHoliday(p.name)
YearlyPhrases ==
  [kind : {"holiday"}, name : Holidays] \cup {[kind |-> "written", m |-> m, d |-> d] : m \in 1..12, d \in {1, 15, 29, 31}}

\* "since christmas", "between march 1 and today": the last time it came round.
Since(p) ==
  LET earlier == {y \in {Year, Year - 1} : InYear(p, y) # NoDay /\ InYear(p, y) <= Today} IN
  IF Resolve(p) > Today /\ earlier # {} THEN InYear(p, Max(earlier)) ELSE Resolve(p)
SinceWeekday(wd) == IF ComingWeekday(wd) > Today THEN ComingWeekday(wd) - 7 ELSE ComingWeekday(wd)

\* calendar_fact: the next leap year, the days of a month, the quarter, how far the weekend
\* and the next holiday are, how old one is.
NextLeapYear == Min({y \in (Year + 1)..(Year + 8) : IsLeap(y)})
DaysIn(m) == MonthLength(Year, m)
Quarter == ((Month - 1) \div 3) + 1
DaysToWeekend == IF Weekday(Today) >= 5 THEN 0 ELSE 5 - Weekday(Today)
NamedHolidays == Holidays \ {"boxing", "good_friday", "black_friday", "cyber_monday"}
NamedHoliday == Min({NextHoliday(h) : h \in NamedHolidays} \ {Today})
Age(y, m, d) == Year - y - (IF Month < m \/ (Month = m /\ DayOfMonth < d) THEN 1 ELSE 0)

\* "end of the month".
EndOfMonth == Ordinal(MonthAhead(1)[1], MonthAhead(1)[2], 1) - 1
-----------------------------------------------------------------------------
\* The ecclesiastical full moon of a year, by its epact: a day of March, or past it.
FullMoon(y) ==
  LET golden == (y % 19) + 1
      century == (y \div 100) + 1
      solar == ((3 * century) \div 4) - 12
      lunar == ((8 * century + 5) \div 25) - 5
      raw == (11 * golden + 20 + lunar - solar) % 30
      epact == IF raw = 24 \/ (raw = 25 /\ golden > 11) THEN raw + 1 ELSE raw
      march == 44 - epact
  IN Ordinal(y, 3, 1) - 1 + IF march < 21 THEN march + 30 ELSE march

\* Easter is the Sunday after the full moon.
EasterIsRight(y) == Weekday(Easter(y)) = 6 /\ Easter(y) - FullMoon(y) \in 1..7

\* The next of a set of days, in this year and those around it.
FirstFrom(days, o) == o \in days /\ o >= Today /\ \A other \in days : other >= Today => o <= other
Around == {Year - 1, Year, Year + 1}
DatesOf(m, d) == {DateOf(y, m, d) : y \in Around}
MonthDays(y, m) == Ordinal(y, m, 1)..Ordinal(y, m, MonthLength(y, m))

\* The fourth Thursday has three before it in its month, the last Monday none after it.
WeekdaysAreCounted ==
  \A h \in DOMAIN WeekdaysOfMonths :
    LET m == WeekdaysOfMonths[h][1]
        wd == WeekdaysOfMonths[h][2]
        n == WeekdaysOfMonths[h][3]
        these == {o \in MonthDays(Year, m) : Weekday(o) = wd}
    IN /\ DayOf(h, Year) \in these
       /\ n > 0 => Cardinality({o \in these : o <= DayOf(h, Year)}) = n
       /\ n = -1 => \A o \in these : o <= DayOf(h, Year)

\* No holiday, day off or date that comes sooner is passed over.
NoneIsPassedOver ==
  /\ \A h \in Holidays : FirstFrom({DayOf(h, y) : y \in Around}, NextHoliday(h))
  /\ LET off == {Observed(DayOf(h, y)) : h \in Federal, y \in Around} IN
     /\ FirstFrom(off \ {Today}, NextFederal[1])
     /\ Today \in off => IsFederal(Today)
  /\ \A m \in 1..12 : \A d \in 1..MonthLength(2000, m) :
       IF MonthDay(m, d) = NoDay THEN m = 2 /\ d = 29
       ELSE FirstFrom(DatesOf(m, d), MonthDay(m, d))
  /\ \A d \in 1..31 : FirstFrom({DayAhead(n, d) : n \in -1..13}, OnThe(d))

\* A month back from 31 March is the end of February, not 3 March.
MonthsAreCounted ==
  /\ ShiftedMonths(0) = Today
  /\ \A n \in -13..13 :
       LET m == MonthAhead(n) IN
       /\ ShiftedMonths(n) < ShiftedMonths(n + 1)
       /\ ShiftedMonths(n) \in MonthDays(m[1], m[2])
  /\ EndOfMonth \in MonthDays(Year, Month) /\ EndOfMonth + 1 \notin MonthDays(Year, Month)

\* A day's name and a time stand for the next such moment, and "next" for the week after
\* this one.  What the user named outright is not moved, but for a date or a day of the month
\* that is today's, at a time that is past: it is put off by a week, as a weekday is.
Clocks == {0, 540, 600}
Times == {0, 540, 1200}
Overdue(o, time, clock) == o = Today /\ time <= clock
MomentsAreNext ==
  /\ \A p \in DayPhrases :
       LET o == FindDay(p) IN
       /\ p.kind = "weekday" => Weekday(o) = p.wd /\ o - Today \in 0..6
       /\ p.kind = "next_weekday" => Weekday(o) = p.wd /\ o - p.wd = Today - Weekday(Today) + 7
       /\ p.kind = "this_month" /\ o # NoDay => o \in Today..EndOfMonth /\ o = DateOf(Year, Month, p.d)
       /\ p.kind = "next_month" /\ o # NoDay => o = EndOfMonth + p.d
       /\ o # NoDay => \A time \in Times, clock \in Clocks :
            LET at == DayAndTime(p, o, time, clock) IN
            /\ at > Now(clock) \/ p.kind \in {"today", "tonight"}
            /\ at # Moment(o, time) => Overdue(o, time, clock) /\ at = Moment(o + 7, time)
            /\ p.kind = "weekday" => at - Moment(7, 0) <= Now(clock)
  /\ \A time \in Times, clock \in Clocks :
       TimeAt(time, clock) > Now(clock) /\ TimeAt(time, clock) - Moment(1, 0) <= Now(clock)

\* An hour is read in the half of the day that was said, and shows on a clock as it was said;
\* what is counted down to is the next time a clock shows it.  Twelve at night is no
\* exception: it is read as noon (the README says so).
Halves == {"am", "pm"}
Shows(time, hour, minute) == ((time \div 60) - hour) % 12 = 0 /\ time % 60 = minute
IsRead(hour, minute, half, around, default) ==
  LET time == FindTime([hour |-> hour, minute |-> minute, half |-> half, hadMinutes |-> minute # 0], around, default) IN
  /\ time = NoTime <=> hour > 23 \/ minute > 59 \/ (half # NoHalf /\ hour \notin 1..12)
  /\ time # NoTime => time \in 0..1439 /\ Shows(time, hour, minute)
  /\ time # NoTime /\ hour \in 1..12 /\ half # NoHalf => (time >= 720 <=> half = "pm")
  /\ time # NoTime /\ hour \in 1..12 /\ half = NoHalf /\ around # NoHalf => (time >= 720 <=> around = "pm")
  /\ time # NoTime /\ hour \in 1..12 /\ minute = 0 /\ half = NoHalf /\ around = NoHalf /\ default = NoHalf =>
       time \in 420..1080    \* a bare hour is of the day, not the night
IsCountedTo(hour, minute, clock) ==
  LET at == UntilTime(hour, minute, clock) IN
  /\ at > Now(clock) /\ Shows(at % 1440, hour, minute)
  /\ \A later \in 1..(at - Now(clock) - 1) :
       hour \in 1..12 => ~Shows((Now(clock) + later) % 1440, hour, minute)
SpanAddsUp(minutes, unit) ==
  LET parts == SpanText(minutes, unit) IN
  /\ (1440 * parts[1]) + (60 * parts[2]) + parts[3] = minutes
  /\ unit = "days" => parts[2] < 24 /\ parts[3] < 60
ClocksAreRead ==
  /\ \A hour \in 0..25, minute \in {0, 15, 59, 60}, half, around, default \in Halves \cup {NoHalf} :
       IsRead(hour, minute, half, around, default)
  /\ \A hour \in 1..12 :
       ((60 * QuarterTo(hour)[1]) + QuarterTo(hour)[2] + 15 - (60 * hour)) % 720 = 0
  /\ \A hour \in 0..23, minute \in {0, 30}, clock \in {0, 90, 570, 1170, 1439} : IsCountedTo(hour, minute, clock)
  /\ \A minutes \in {1, 59, 60, 1439, 1440, 1505, 10080}, unit \in {"days", "hours", "minutes"} :
       SpanAddsUp(minutes, unit)
  /\ InDuration(0, 0) = NoTime /\ InDuration(1430, 20) = Moment(Today + 1, 10)

\* What is read back to the user, said again, is the same day.
ReadBackIsTheSame ==
  \A o \in Today..(Today + 14) : Describe(o).kind # "stamp" => FindDay(Describe(o)) = o

\* A year that is said is kept to; "since" looks back, no further than it must, and finds every
\* day but a 29 February of other years.
Leaps(p) == p.kind = "written" /\ p.m = 2 /\ p.d = 29
YearsAreKept ==
  /\ \A p \in YearlyPhrases :
       /\ \A y \in PinnedYears :
            InYear(p, y) # NoDay => InYear(p, y) \in Ordinal(y, 1, 1)..Ordinal(y, 12, 31)
       /\ Since(p) # NoDay /\ ~Leaps(p) =>
            /\ Since(p) <= Today
            /\ \A y \in PinnedYears : ~(InYear(p, y) > Since(p) /\ InYear(p, y) <= Today)
       /\ Since(p) = NoDay => \A y \in PinnedYears : InYear(p, y) = NoDay \/ Leaps(p)
  /\ \A wd \in 0..6 : Weekday(SinceWeekday(wd)) = wd /\ Today - SinceWeekday(wd) \in 0..6

\* Facts of the calendar, counted another way.
FactsAreCounted ==
  /\ NextLeapYear > Year /\ DateOf(NextLeapYear, 2, 29) # NoDay
  /\ \A y \in (Year + 1)..(NextLeapYear - 1) : DateOf(y, 2, 29) = NoDay
  /\ \A m \in 1..12 : DateOf(Year, m, DaysIn(m)) # NoDay /\ DateOf(Year, m, DaysIn(m) + 1) = NoDay
  /\ Month \in (3 * (Quarter - 1) + 1)..(3 * Quarter)
  /\ Weekday(Today + DaysToWeekend) \in 5..6 /\ (DaysToWeekend > 0 => Weekday(Today + DaysToWeekend - 1) = 4)
  /\ NamedHoliday > Today
  /\ \A h \in NamedHolidays, y \in Around : DayOf(h, y) > Today => NamedHoliday <= DayOf(h, y)
  /\ \A m \in 1..12, d \in {1, 28, 29} : d <= MonthLength(2024, m) =>
       LET birthdays == {y \in 2025..Year : Ordinal(y, m, 1) + d - 1 <= Today} IN
       Year > 2024 => Age(2024, m, d) = Cardinality(birthdays)

\* Every answer about a date is computed, never recalled (tools/dates.py:5-7),
\* and is the next day that fits.  A 29 February is not looked for beyond this
\* year and the next.
DatesAreCounted ==
  asked =>
    /\ EasterIsRight(Year) /\ (Today = Ordinal(Year, 1, 1) => \A y \in EasterYears : EasterIsRight(y))
    /\ WeekdaysAreCounted /\ NoneIsPassedOver /\ MonthsAreCounted /\ MomentsAreNext
    /\ (Today = Ordinal(Year, 1, 1) => ClocksAreRead) /\ ReadBackIsTheSame /\ YearsAreKept /\ FactsAreCounted
=============================================================================
