------------------------------ MODULE DateRanges ------------------------------
(***************************************************************************)
(* The periods that reports cover and compare, getDateRange in             *)
(* date.utils.ts. Days are numbered from the first day of the calendar;    *)
(* a period is from the start of its first to the end of its last day. The *)
(* calendar and the two rolling spans are parameters, so that an instance  *)
(* has a few short months instead of years.                                *)
(***************************************************************************)
EXTENDS Integers, Sequences, FiniteSetsExt

CONSTANTS
  MonthDays,        \* the length of each month, from the first one
  MonthsInYear,
  ShortSpan,        \* the days of period '7d'
  LongSpan          \* the days of period '30d'

ASSUME CalendarAssumption ==
  /\ MonthDays \in Seq(Nat \ {0})
  /\ MonthsInYear \in Nat \ {0}
  /\ Len(MonthDays) % MonthsInYear = 0 /\ 2 * MonthsInYear < Len(MonthDays)
  /\ ShortSpan \in Nat \ {0} /\ LongSpan \in Nat \ {0}

-----------------------------------------------------------------------------
(* The calendar: the functions of date-fns. *)

FirstDay[m \in 1..Len(MonthDays) + 1] ==
  IF m = 1 THEN 0 ELSE FirstDay[m - 1] + MonthDays[m - 1]

MonthOf(d) == CHOOSE m \in 1..Len(MonthDays) : FirstDay[m] <= d /\ d < FirstDay[m + 1]
EndOfMonth(m) == FirstDay[m + 1] - 1
FirstMonth(d) == ((MonthOf(d) - 1) \div MonthsInYear) * MonthsInYear + 1

\* The same day of an earlier month, or that month's last day.
SubMonths(d, n) ==
  LET m == MonthOf(d) - n
  IN  Min({FirstDay[m] + d - FirstDay[MonthOf(d)], EndOfMonth(m)})

\* The days with two whole years of the calendar before them, which getDateRange
\* may be asked about: the calendar of the code has no beginning.
Covered == FirstDay[2 * MonthsInYear + 1]..EndOfMonth(Len(MonthDays))

-----------------------------------------------------------------------------
(* Periods. *)

Spans == [start : Int, end : Int]
Span(start, end) == [start |-> start, end |-> end]
Within(range, d) == range.start <= d /\ d <= range.end
Days(range) == range.end - range.start + 1

Periods == {"today", "yesterday", "7d", "30d", "month", "last_month", "year", "last_year"}

Compared(current, previous) == [current |-> current, previous |-> previous]

\* Mutant: the days before a rolling period overlap it by one.
RollingOverlapping(start, end) ==
  Compared(Span(start, end), Span(start - (end - start), start))

\* A run of days and the same number of days before it.
Rolling(start, end) ==
  Compared(Span(start, end), Span(start - (end - start) - 1, start - 1))

\* From the first day of the current month, or year, to the same day earlier.
ToDate(first, back, today) ==
  Compared(Span(FirstDay[first], today),
           Span(FirstDay[first - back], SubMonths(today, back)))

\* The months from first on, and as many before them.
Whole(first, months) ==
  Compared(Span(FirstDay[first], EndOfMonth(first + months - 1)),
           Span(FirstDay[first - months], EndOfMonth(first - 1)))

\* Any other period, custom dates out of order included, falls back to today.
DateRange(period, today) ==
  CASE period = "yesterday"  -> Rolling(today - 1, today - 1)
    [] period = "7d"         -> Rolling(today - (ShortSpan - 1), today)
    [] period = "30d"        -> Rolling(today - (LongSpan - 1), today)
    [] period = "month"      -> ToDate(MonthOf(today), 1, today)
    [] period = "last_month" -> Whole(MonthOf(today) - 1, 1)
    [] period = "year"       -> ToDate(FirstMonth(today), MonthsInYear, today)
    [] period = "last_year"  -> Whole(FirstMonth(today) - MonthsInYear, MonthsInYear)
    [] OTHER                 -> Rolling(today, today)

CustomRange(from, to, today) ==
  IF to < from THEN DateRange("today", today) ELSE Rolling(from, to)
=============================================================================
