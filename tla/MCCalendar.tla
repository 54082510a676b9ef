---------------------------- MODULE MCCalendar ----------------------------
(* Instances of Calendar for TLC.                                          *)
EXTENDS Calendar

(* Events of the documentation and of the tests, none of which asks, in a  *)
(* month that is over otherwise, for a day the month does not have.        *)
AtMidnight == TimeSpec(At0, At0)
OnDay(m, d) == [year |-> Every, month |-> m, day |-> d]
MCEvents ==
  {Special(n) : n \in {"minutely", "hourly", "daily", "weekly", "monthly", "yearly", "quarterly"}}
  \cup {EventOf(Weekdays(4, 0), NoDate, TimeSpec({Single(12)}, {Single(5)})),
        EventOf({5}, OnDay(Every, {Between(1, 7)}), TimeSpec({Single(15)}, At0)),
        EventOf({4}, NoDate, TimeSpec({Between(12, 13)}, {Repeated(5, 20)})),
        EventOf({}, NoDate, TimeSpec({Repeated(12, 2)}, {Single(5)})),
        EventOf({}, OnDay({Single(2)}, {Single(29)}), AtMidnight),
        EventOf({}, OnDay({Single(2)}, {Single(30)}), AtMidnight),
        EventOf({}, OnDay({Between(7, 9)}, {Repeated(2, 2)}), AtMidnight),
        EventOf({}, [year |-> {Single(1972)}, month |-> {Single(10)}, day |-> {Single(21)}], AtMidnight),
        EventOf({}, [year |-> {Single(1969)}, month |-> {Single(10)}, day |-> {Single(21)}], AtMidnight),
        [EventOf({}, NoDate, TimeSpec(Every, {Single(3), Single(59)})) EXCEPT
           !.second = {Single(5), Between(58, 59)}]}
(* The first and the last day: in a short month the search looks for the   *)
(* 31st and lands behind the first day of the next one.                    *)
MCLateDays == {EventOf({}, OnDay(Every, {Single(1), Single(31)}), AtMidnight)}
\* beginnings and ends of months and years, of a leap year too
MCLastRuns == {[day |-> d, hour |-> h[1], min |-> h[2], sec |-> h[3]] :
                 d \in {0, 30, 31, 33, 57, 58, 59, 89, 200, 211, 364, 365, 424, 788, 789, 790},
                 h \in {<<0, 0, 0>>, <<12, 5, 0>>, <<12, 46, 30>>, <<23, 59, 59>>}}
=============================================================================
