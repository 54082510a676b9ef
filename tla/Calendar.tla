------------------------------ MODULE Calendar ------------------------------
(***************************************************************************)
(* Schedules: what a calendar event stands for, and the loop with which    *)
(* compute_next_event finds the first point in time after the last run.    *)
(* A point in time is [day, hour, min, sec], day counted from 1970-01-01.  *)
(* The editor of broken-down times (TmEditor) belongs to a library: adding *)
(* to a field resets the smaller ones and carries over.                    *)
(***************************************************************************)
EXTENDS Integers, FiniteSets

CONSTANTS CalEvents,    \* the events, as records of sets of DateTimeValues
          LastRuns,     \* points in time the search starts after
          LastYear,     \* of the table of dates
          Horizon,      \* days the reference definition looks ahead
          MaxCount      \* the loop's own limit (1000 in the code)

VARIABLES event, moment, count, found, first

calVars == <<event, moment, count, found, first>>

(* ------------------- the calendar (external library) -------------------- *)

IsLeap(y) == y % 4 = 0 /\ (y % 100 # 0 \/ y % 400 = 0)
\* The days before a year and before a month of it.
YearStart(y) == 365 * (y - 1970) + ((y - 1969) \div 4)      \* good until 2099
MonthOffset(y, m) ==
    <<0, 31, 59, 90, 120, 151, 181, 212, 243, 273, 304, 334, 365>>[m]
        + (IF m > 2 /\ IsLeap(y) THEN 1 ELSE 0)

Date == [day \in 0..(YearStart(LastYear + 1) - 1) |->
    LET y == CHOOSE x \in 1970..LastYear: YearStart(x) <= day /\ day < YearStart(x + 1)
        d == day - YearStart(y)
        m == CHOOSE x \in 1..12: MonthOffset(y, x) <= d /\ d < MonthOffset(y, x + 1)
    IN [year |-> y, month |-> m, day |-> d - MonthOffset(y, m) + 1]]
YearOf(day) == Date[day].year
MonthOf(day) == Date[day].month
DayOf(day) == Date[day].day
WeekdayOf(day) == (day + 3) % 7     \* Monday is 0, 1970-01-01 was a Thursday

Midnight(day) == [day |-> day, hour |-> 0, min |-> 0, sec |-> 0]
DayStart(y, m) == LET yy == y + (m - 1) \div 12  mm == ((m - 1) % 12) + 1 IN
    YearStart(yy) + MonthOffset(yy, mm)

add_years(x, n) == Midnight(DayStart(YearOf(x.day) + n, 1))
add_months(x, n) == Midnight(DayStart(YearOf(x.day), MonthOf(x.day) + n))
add_days(x, n) == Midnight(x.day + n)
\* Carry of seconds, minutes and hours into the next field.
Normal(day, h, m, s) ==
    LET m1 == m + s \div 60  h1 == h + m1 \div 60 IN
    [day |-> day + h1 \div 24, hour |-> h1 % 24, min |-> m1 % 60, sec |-> s % 60]
set_time(x, h, m, s) == Normal(x.day, h, m, s)
set_min_sec(x, m, s) == Normal(x.day, x.hour, m, s)
set_sec(x, s) == Normal(x.day, x.hour, x.min, s)
OneSecondLater(x) == Normal(x.day, x.hour, x.min, x.sec + 1)

(* ---------------------------- DateTimeValue ----------------------------- *)

\* [kind, a, b]: Single(a), Range(a, b) or Repeated(a, b).
Single(v) == [kind |-> "single", a |-> v, b |-> 0]
Between(v, w) == [kind |-> "range", a |-> v, b |-> w]
Repeated(v, r) == [kind |-> "repeated", a |-> v, b |-> r]

contains(d, v) ==
    CASE d.kind = "single" -> d.a = v
      [] d.kind = "range" -> d.a <= v /\ v <= d.b
      [] d.kind = "repeated" -> v >= d.a /\ (IF d.b > 0 THEN (v - d.a) % d.b = 0 ELSE d.a = v)

list_contains(list, v) == \E d \in list: contains(d, v)

\* The values one item of a list offers after v.
NextOf(d, v) ==
    CASE d.kind = "single" -> IF d.a > v THEN {d.a} ELSE {}
      [] d.kind = "range" -> IF v < d.a THEN {d.a} ELSE IF v + 1 <= d.b THEN {v + 1} ELSE {}
      [] d.kind = "repeated" -> IF v < d.a THEN {d.a}
                                ELSE IF d.b > 0 THEN {d.a + ((v - d.a + d.b) \div d.b) * d.b}
                                ELSE {}

find_next(list, v) == UNION {NextOf(d, v) : d \in list}
Least(S) == CHOOSE x \in S: \A y \in S: x <= y

(* ------------------------- parsing an expression ------------------------ *)

\* parse_date_time_comp: the values are below max, a range is not empty.
Component(d, max) == d.a < max /\ d.b < max /\ (d.kind = "range" => d.a <= d.b)
ComponentList(list, max) == \A d \in list: Component(d, max)
\* parse_weekdays_range: a range of weekdays may run over the end of the week.
Weekdays(start, end) == IF start > end THEN (start..6) \cup (0..end) ELSE start..end

Every == {}
At0 == {Single(0)}
\* A part that is left out: every date; midnight, or second 0 of a time.
NoDate == [year |-> Every, month |-> Every, day |-> Every]
TimeSpec(h, m) == [hour |-> h, minute |-> m, second |-> At0]
EventOf(days, date, time) ==
    [days |-> days, year |-> date.year, month |-> date.month, day |-> date.day,
     hour |-> time.hour, minute |-> time.minute, second |-> time.second]
WellFormed(e) ==
    /\ ComponentList(e.year, 2200) /\ ComponentList(e.month, 13) /\ ComponentList(e.day, 32)
    /\ ComponentList(e.hour, 24) /\ ComponentList(e.minute, 60) /\ ComponentList(e.second, 60)

\* The special values.
Special(name) ==
    CASE name = "minutely" -> EventOf({}, NoDate, TimeSpec(Every, Every))
      [] name = "hourly" -> EventOf({}, NoDate, TimeSpec(Every, At0))
      [] name = "daily" -> EventOf({}, NoDate, TimeSpec(At0, At0))
      [] name = "weekly" -> EventOf({0}, NoDate, TimeSpec(At0, At0))
      [] name = "monthly" -> EventOf({}, [NoDate EXCEPT !.day = {Single(1)}], TimeSpec(At0, At0))
      [] name = "yearly" ->
            EventOf({}, [NoDate EXCEPT !.day = {Single(1)}, !.month = {Single(1)}], TimeSpec(At0, At0))
      [] name = "quarterly" ->
            EventOf({}, [NoDate EXCEPT !.day = {Single(1)}, !.month = {Single(1), Single(4), Single(7), Single(10)}],
                    TimeSpec(At0, At0))

(* -------------------- what an event means (reference) -------------------- *)

Allows(list, v) == list = {} \/ list_contains(list, v)

DateMatches(e, day) ==
    /\ Allows(e.year, YearOf(day)) /\ Allows(e.month, MonthOf(day)) /\ Allows(e.day, DayOf(day))
    /\ e.days = {} \/ WeekdayOf(day) \in e.days

Values(list, range) == {v \in range : Allows(list, v)}

\* The first time of day that e allows and that is not before h:m:s, as a set.
FirstTimes(e, h, m, s) ==
    LET H == Values(e.hour, 0..23)  M == Values(e.minute, 0..59)  S == Values(e.second, 0..59)
    IN  {<<x, y, z>> \in (({h} \cap H) \X ({m} \cap M) \X {v \in S : v >= s})
            \cup (({h} \cap H) \X {v \in M : v > m} \X {Least(S)})
            \cup ({v \in H : v > h} \X {Least(M)} \X {Least(S)}) : TRUE}
Seconds(p) == 3600 * p[1] + 60 * p[2] + p[3]
Earliest(S) == CHOOSE p \in S: \A q \in S: Seconds(p) <= Seconds(q)

Never == Midnight(-1)

\* The first matching point in time that is not before x.
FirstMatch(e, x) ==
    LET today == DateMatches(e, x.day) /\ FirstTimes(e, x.hour, x.min, x.sec) # {}
        later == {d \in (x.day + 1)..(x.day + Horizon) : DateMatches(e, d)}
        at(d, p) == [day |-> d, hour |-> p[1], min |-> p[2], sec |-> p[3]]
    IN  IF today THEN at(x.day, Earliest(FirstTimes(e, x.hour, x.min, x.sec)))
        ELSE IF later # {} THEN at(Least(later), Earliest(FirstTimes(e, 0, 0, 0)))
        ELSE Never

(* -------------------------- compute_next_event --------------------------- *)

CalInit ==
    /\ event \in {e \in CalEvents : WellFormed(e)}
    /\ \E last \in LastRuns: moment = OneSecondLater(last)
    /\ first = FirstMatch(event, moment)
    /\ count = 0
    /\ found = "no"

Searching == found = "no" /\ count <= MaxCount
Move(x) == moment' = x /\ count' = count + 1 /\ UNCHANGED <<event, found, first>>

\* A field that matches, or that the event leaves open.
Ok(list, v) == Allows(list, v)
YearOk == Ok(event.year, YearOf(moment.day))
MonthOk == YearOk /\ Ok(event.month, MonthOf(moment.day))
DayOk == MonthOk /\ Ok(event.day, DayOf(moment.day))
WeekdayOk == DayOk /\ (event.days = {} \/ WeekdayOf(moment.day) \in event.days)
HourOk == WeekdayOk /\ Ok(event.hour, moment.hour)
MinuteOk == HourOk /\ Ok(event.minute, moment.min)

NextYear ==
    LET y == YearOf(moment.day)  n == find_next(event.year, y) IN
    /\ Searching /\ ~YearOk
    /\ IF n # {} THEN Move(add_years(moment, Least(n) - y))
       ELSE found' = "never" /\ UNCHANGED <<event, moment, count, first>>

NextMonth ==
    LET m == MonthOf(moment.day)  n == find_next(event.month, m) IN
    /\ Searching /\ YearOk /\ ~MonthOk
    /\ Move(IF n # {} THEN add_months(moment, Least(n) - m) ELSE add_years(moment, 1))

NextDay ==
    LET d == DayOf(moment.day)  n == find_next(event.day, d) IN
    /\ Searching /\ MonthOk /\ ~DayOk
    /\ Move(IF n # {} THEN add_days(moment, Least(n) - d) ELSE add_months(moment, 1))

\* Days until the next weekday of the event, or until Monday.
DaysAhead_Eight(w, days) ==
    LET n == {x \in days : x > w} IN IF n # {} THEN Least(n) - w ELSE 8 - w

DaysAhead(w, days) ==
    LET n == {x \in days : x > w} IN IF n # {} THEN Least(n) - w ELSE 7 - w

NextWeekday ==
    /\ Searching /\ DayOk /\ ~WeekdayOk
    /\ Move(add_days(moment, DaysAhead(WeekdayOf(moment.day), event.days)))

NextHour ==
    LET n == find_next(event.hour, moment.hour) IN
    /\ Searching /\ WeekdayOk /\ ~HourOk
    /\ Move(IF n # {} THEN set_time(moment, Least(n), 0, 0) ELSE add_days(moment, 1))

NextMinute ==
    LET n == find_next(event.minute, moment.min) IN
    /\ Searching /\ HourOk /\ ~MinuteOk
    /\ Move(IF n # {} THEN set_min_sec(moment, Least(n), 0) ELSE set_time(moment, moment.hour + 1, 0, 0))

NextSecond ==
    LET n == find_next(event.second, moment.sec) IN
    /\ Searching /\ MinuteOk /\ ~Ok(event.second, moment.sec)
    /\ Move(IF n # {} THEN set_sec(moment, Least(n)) ELSE set_min_sec(moment, moment.min + 1, 0))

Matched ==
    /\ Searching /\ MinuteOk /\ Ok(event.second, moment.sec)
    /\ found' = "yes"
    /\ UNCHANGED <<event, moment, count, first>>

\* More than a thousand rounds.
GiveUp ==
    /\ found = "no" /\ count > MaxCount
    /\ found' = "never"
    /\ UNCHANGED <<event, moment, count, first>>

CalNext == NextYear \/ NextMonth \/ NextDay \/ NextWeekday \/ NextHour \/ NextMinute \/ NextSecond
           \/ Matched \/ GiveUp

CalSpec == CalInit /\ [][CalNext]_calVars

(***************************************************************************)
(* Properties.                                                             *)
(***************************************************************************)

Before(x, y) == x.day < y.day
                \/ (x.day = y.day /\ Seconds(<<x.hour, x.min, x.sec>>) < Seconds(<<y.hour, y.min, y.sec>>))

\* The search never steps over a point in time the event stands for, and finds the
\* first one: compute_next_event against the meaning of the expression.
NoRunIsSkipped ==
    /\ first # Never => ~Before(first, moment)
    /\ found = "yes" => moment = first
===========================================================================
