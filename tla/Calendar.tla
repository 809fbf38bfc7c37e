------------------------------ MODULE Calendar ------------------------------
(***************************************************************************)
(* The dates the Financial Engine computes: days between dates, months     *)
(* added and counted, due dates of recurring events and of salaries.  A    *)
(* date is a record with the fields of Python's date.                      *)
(***************************************************************************)
EXTENDS Integers

\* datetime.MAXYEAR: Python raises for a date of a later year.  What follows
\* is defined beyond it, and says which date would be asked for.
MaxYear == 9999

Leap(year) == year % 4 = 0 /\ (year % 100 # 0 \/ year % 400 = 0)

\* calendar.monthrange(year, month)[1]
MonthLength(year, month) ==
    CASE month = 2 -> IF Leap(year) THEN 29 ELSE 28
      [] month \in {4, 6, 9, 11} -> 30
      [] OTHER -> 31

Date(year, month, day) == [year |-> year, month |-> month, day |-> day]

DaysBefore == <<0, 31, 59, 90, 120, 151, 181, 212, 243, 273, 304, 334>>

\* date.toordinal, which orders dates and counts the days between them.
Ordinal(d) ==
    LET past == d.year - 1
    IN 365 * past + past \div 4 - past \div 100 + past \div 400
       + DaysBefore[d.month] + (IF d.month > 2 /\ Leap(d.year) THEN 1 ELSE 0) + d.day

Days(from, to) == Ordinal(to) - Ordinal(from)

Tomorrow(d) ==
    IF d.day < MonthLength(d.year, d.month) THEN [d EXCEPT !.day = @ + 1]
    ELSE IF d.month < 12 THEN Date(d.year, d.month + 1, 1)
    ELSE Date(d.year + 1, 1, 1)

\* d + timedelta(days=n)
Plus(d, n) ==
    LET later[k \in 0..n] == IF k = 0 THEN d ELSE Tomorrow(later[k - 1])
    IN later[n]

Least(a, b) == IF a <= b THEN a ELSE b
Most(a, b) == IF a >= b THEN a ELSE b

\* Mutant: the day is kept, also in a month that is too short for it.
OnDay_Unclamped(d, day) == Date(d.year, d.month, day)

\* The day of d's month, or the last one of a month that is too short for it.
OnDay(d, day) == Date(d.year, d.month, Least(day, MonthLength(d.year, d.month)))

\* (d.replace(day=28) + timedelta(days=4)).replace(day=1)
NextMonth(d) == [Plus([d EXCEPT !.day = 28], 4) EXCEPT !.day = 1]

\* add_months
AddMonths(d, months) ==
    LET index == d.month - 1 + months
    IN OnDay(Date(d.year + index \div 12, (index % 12) + 1, 1), d.day)

\* months_between_ceiling
MonthsBetween(start, end) ==
    LET months == (end.year - start.year) * 12 + end.month - start.month
    IN Most(1, IF end.day > start.day THEN months + 1 ELSE months)

\* _next_occurrence of a recurring event.
NextOccurrence(asOf, day) ==
    IF Ordinal(OnDay(asOf, day)) >= Ordinal(asOf) THEN OnDay(asOf, day)
    ELSE OnDay(NextMonth(asOf), day)

\* _next_salary_date of the liquidity analysis.
NextSalaryDate(asOf, day) ==
    IF Ordinal(OnDay(asOf, day)) > Ordinal(asOf) THEN OnDay(asOf, day)
    ELSE OnDay(NextMonth(asOf), day)

\* Mutant: the months looked at end with the one of as_of.
SalaryDates_ThisMonth(asOf, until, day) ==
    {d \in {OnDay(asOf, day)} :
       Ordinal(asOf) < Ordinal(d) /\ Ordinal(d) <= Ordinal(until)}

\* _salary_dates of the forecast: the loop over the months up to until.
SalaryDates(asOf, until, day) ==
    LET months == 0..((until.year - asOf.year) * 12 + until.month - asOf.month)
        cursor[k \in months] == IF k = 0 THEN OnDay(asOf, 1) ELSE NextMonth(cursor[k - 1])
    IN {d \in {OnDay(cursor[k], day) : k \in months} :
          Ordinal(asOf) < Ordinal(d) /\ Ordinal(d) <= Ordinal(until)}
=============================================================================
