-------------------------------- MODULE Period --------------------------------
(***************************************************************************)
(* The period in the bar above every page (lib/period.ts,                  *)
(* lib/period-context.tsx, components/nav/PeriodPicker.tsx): a selection,  *)
(* the days it resolves to, and the popover it is picked in.               *)
(*                                                                         *)
(* A day is its number, counted from 1 January of FirstYear.               *)
(***************************************************************************)
EXTENDS Screen

CONSTANTS FirstYear, LastYear,  \* bound: the calendar, from a year beginning on a Sunday
          Todays,               \* bound: the day it is
          Clicked,              \* bound: the days clicked in the range picker
          Ticks                 \* the instants of a day

Modes == {"week", "month", "quarter", "year", "custom"}
Years == FirstYear..LastYear

-----------------------------------------------------------------------------
(***************************************************************************)
(* new Date(y, m, d) with a month from 0: it carries what is beyond the    *)
(* month over, and day 0 is the last one of the month before.              *)
(***************************************************************************)
IsLeap(y) == y % 4 = 0 /\ (y % 100 # 0 \/ y % 400 = 0)

BeforeMonth == <<0, 31, 59, 90, 120, 151, 181, 212, 243, 273, 304, 334>>

\* The first day of the month m, counted from January of FirstYear.
FirstDay(m) ==
    LET y == FirstYear + m \div 12
        leaps == Cardinality({x \in FirstYear..(y - 1) : IsLeap(x)})
    IN  365 * (m \div 12) + leaps + BeforeMonth[(m % 12) + 1]
            + (IF m % 12 > 1 /\ IsLeap(y) THEN 1 ELSE 0)

LastMonth == 12 * (LastYear - FirstYear + 1)

Date(y, m, d) == FirstDay(12 * (y - FirstYear) + m) + d - 1

Days == 0..(FirstDay(LastMonth) - 1)

MonthNumber(n) == CHOOSE m \in 0..(LastMonth - 1) : FirstDay(m) <= n /\ n < FirstDay(m + 1)

FullYear(n) == FirstYear + MonthNumber(n) \div 12

Month(n) == MonthNumber(n) % 12

WeekDay(n) == n % 7

-----------------------------------------------------------------------------
(***************************************************************************)
(* lib/period.ts.                                                          *)
(***************************************************************************)
\* Mutant: a Sunday belongs to the week that follows it.
MondayAfterSunday(n) == n + 1 - WeekDay(n)

ToMonday(n) == n + (IF WeekDay(n) = 0 THEN -6 ELSE 1 - WeekDay(n))

\* The month is counted from 1 here.
LastDayOfMonth(y, m) == Date(y, m, 0)

Or(x, default) == IF x = None THEN default ELSE x

WeekPeriod(sel) ==
    LET monday == ToMonday(Or(sel.weekOf, db.now)) IN [start |-> monday, end |-> monday + 6]

MonthPeriod(sel) ==
    LET y == Or(sel.year, FullYear(db.now))
        m == Or(sel.month, Month(db.now) + 1)
    IN  [start |-> Date(y, m - 1, 1), end |-> LastDayOfMonth(y, m)]

QuarterPeriod(sel) ==
    LET y == Or(sel.year, FullYear(db.now))
        q == Or(sel.quarter, (Month(db.now) + 3) \div 3)
        first == (q - 1) * 3
    IN  [start |-> Date(y, first, 1), end |-> LastDayOfMonth(y, first + 3)]

YearPeriod(sel) ==
    LET y == Or(sel.year, FullYear(db.now))
    IN  [start |-> Date(y, 0, 1), end |-> Date(y, 11, 31)]

CustomPeriod(sel) ==
    [start |-> Or(sel.from, Date(FullYear(db.now), Month(db.now), 1)), end |-> Or(sel.to, db.now)]

ResolvePeriod(sel) ==
    CASE sel.mode = "week"    -> WeekPeriod(sel)
      [] sel.mode = "month"   -> MonthPeriod(sel)
      [] sel.mode = "quarter" -> QuarterPeriod(sel)
      [] sel.mode = "year"    -> YearPeriod(sel)
      [] sel.mode = "custom"  -> CustomPeriod(sel)

\* The instants the queries send: the first and the last of the period, and the
\* first after it.
LocalStartOfDay(n) == n * Ticks
LocalEndOfDay(n) == n * Ticks + Ticks - 1
LocalExclusiveEnd(n) == (n + 1) * Ticks

NoFields(mode) == [mode |-> mode, weekOf |-> None, year |-> None, month |-> None,
                   quarter |-> None, from |-> None, to |-> None]

DefaultPeriod == NoFields("month")

-----------------------------------------------------------------------------
(***************************************************************************)
(* The popover.  A picker starts from the selection when it appears: view  *)
(* is the month the week picker shows, the year of the month and quarter   *)
(* pickers, or the first year of the year picker.                          *)
(***************************************************************************)
NoRange == [from |-> None, to |-> None]

StartOfView(mode) ==
    LET sel == ui.selection
    IN  CASE mode = "week"   -> MonthNumber(Or(sel.weekOf, db.now))
          [] mode \in {"month", "quarter"} -> Or(sel.year, FullYear(db.now))
          [] mode = "year"   -> ((IF sel.mode = "year" THEN Or(sel.year, FullYear(db.now))
                                  ELSE FullYear(db.now)) \div 10) * 10
          [] mode = "custom" -> None

StartOfRange(mode) ==
    IF mode = "custom" THEN [from |-> ui.selection.from, to |-> ui.selection.to] ELSE NoRange

Showing(mode) == [ui EXCEPT !.open = TRUE, !.mode = mode, !.view = StartOfView(mode),
                            !.range = StartOfRange(mode)]

OpenPicker == ~ui.open /\ Locally(Showing(ui.selection.mode))

Closed(sel) == [ui EXCEPT !.open = FALSE, !.mode = sel.mode, !.view = None, !.range = NoRange,
                          !.selection = sel]

ClosePicker == ui.open /\ Locally(Closed(ui.selection))

ChooseMode(mode) == ui.open /\ mode # ui.mode /\ Locally(Showing(mode))

\* The week picker's arrows turn the year with the month.
TurnMonth(by) ==
    /\ ui.open /\ ui.mode = "week" /\ ui.view + by \in 0..(LastMonth - 2)
    /\ Locally([ui EXCEPT !.view = @ + by])

TurnYear(by) ==
    /\ ui.open /\ ui.mode \in {"month", "quarter"} /\ ui.view + by \in Years
    /\ Locally([ui EXCEPT !.view = @ + by])

\* Six weeks from the one the month begins in.
Offered(i) == ToMonday(ToMonday(FirstDay(ui.view)) + 7 * i)

PickWeek(i) ==
    /\ ui.open /\ ui.mode = "week"
    /\ Offered(i) \in Days
    /\ Locally(Closed([NoFields("week") EXCEPT !.weekOf = Offered(i)]))

PickMonth(m) ==
    /\ ui.open /\ ui.mode = "month"
    /\ Locally(Closed([NoFields("month") EXCEPT !.year = ui.view, !.month = m]))

PickQuarter(q) ==
    /\ ui.open /\ ui.mode = "quarter"
    /\ Locally(Closed([NoFields("quarter") EXCEPT !.year = ui.view, !.quarter = q]))

PickYear(i) ==
    /\ ui.open /\ ui.mode = "year" /\ ui.view + i \in Years
    /\ Locally(Closed([NoFields("year") EXCEPT !.year = ui.view + i]))

\* DayPicker makes of a click a range with the day at one end, complete or not, or
\* none; a complete one closes the popover, an incomplete one selects nothing yet.
PickDay(n) ==
    /\ ui.open /\ ui.mode = "custom"
    /\ \E range \in {NoRange, [from |-> n, to |-> None], [from |-> n, to |-> n]}
                    \cup {[from |-> Min({n, m}), to |-> Max({n, m})] : m \in {ui.range.from, ui.range.to} \ {None}} :
          Locally(IF range.from # None /\ range.to # None
                  THEN Closed([NoFields("custom") EXCEPT !.from = range.from, !.to = range.to])
                  ELSE [ui EXCEPT !.range = range])

-----------------------------------------------------------------------------
PeriodInit ==
    /\ page = "period"
    /\ db \in {[now |-> n] : n \in Todays}
    /\ ui = [selection |-> DefaultPeriod, open |-> FALSE, mode |-> "month", view |-> None,
             range |-> NoRange]
    /\ seen = <<>> /\ due = {} /\ lost = FALSE
    /\ call = [k \in Slots |-> Idle]

PeriodNext ==
    \/ OpenPicker \/ ClosePicker
    \/ \E mode \in Modes : ChooseMode(mode)
    \/ \E by \in {-1, 1} : TurnMonth(by) \/ TurnYear(by)
    \/ \E i \in 0..5 : PickWeek(i)
    \/ \E m \in 1..12 : PickMonth(m)
    \/ \E q \in 1..4 : PickQuarter(q)
    \/ \E i \in 0..11 : PickYear(i)
    \/ \E n \in Clicked : PickDay(n)

-----------------------------------------------------------------------------
(***************************************************************************)
(* Properties.                                                             *)
(***************************************************************************)
PeriodTypeOK == ui.selection.mode \in Modes /\ ui.mode \in Modes /\ ui.open \in BOOLEAN

\* Whether two days are in the same week, month, quarter or year.
SameUnit(mode, d, n) ==
    CASE mode = "week"    -> (d + 6) \div 7 = (n + 6) \div 7
      [] mode = "month"   -> MonthNumber(d) = MonthNumber(n)
      [] mode = "quarter" -> MonthNumber(d) \div 3 = MonthNumber(n) \div 3
      [] mode = "year"    -> FullYear(d) = FullYear(n)

\* Whatever is picked, the days asked for are those of one whole week, month, quarter
\* or year of the calendar - the one it is today as long as none was picked - or the
\* days clicked; the weeks offered hold every day of the month shown; and an instant
\* is before the exclusive end of the period just when it is not after the inclusive.
PeriodIsWhole ==
    LET sel == ui.selection
        period == ResolvePeriod(sel)
        Within(d) == period.start <= d /\ d <= period.end
        bounds == {period.start - 1, period.start, period.end, period.end + 1} \cap Days
    IN  /\ period.start <= period.end
        /\ sel.mode # "custom" =>
              \A d \in bounds : Within(d) <=> SameUnit(sel.mode, d, Max({period.start, 0}))
        /\ sel = DefaultPeriod => Within(db.now)
        /\ sel.year # None => FullYear(period.start) = sel.year
        /\ sel.month # None => Month(period.start) = sel.month - 1
        /\ ui.open /\ ui.mode = "week" =>
              FirstDay(ui.view)..(FirstDay(ui.view + 1) - 1)
                 \subseteq UNION {Offered(i)..(Offered(i) + 6) : i \in 0..5}
        /\ LocalEndOfDay(period.end) + 1 = LocalExclusiveEnd(period.end)
        /\ LocalStartOfDay(period.start) < LocalExclusiveEnd(period.end)
=============================================================================
