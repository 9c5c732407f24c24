--------------------------- MODULE ScheduleDates ---------------------------
(***************************************************************************)
(* The calendar arithmetic of the scheduler (compute_next_event in         *)
(* src/starbelly/schedule.py): when a schedule of so many months or years  *)
(* is due after a date.  The shorter units are durations of fixed length,  *)
(* which is how module Scheduler counts all intervals.                     *)
(***************************************************************************)
EXTENDS Integers

CONSTANTS
  DueYears,  \* years that dates are in
  MaxUnits   \* bound: num_units of an interval

ASSUME ScheduleDatesAssumption == DueYears \subseteq Nat /\ MaxUnits \in Nat

NoDate == [year |-> 0, month |-> 0, day |-> 0]

IsLeap(year) == year % 4 = 0 /\ (year % 100 # 0 \/ year % 400 = 0)

(* calendar.monthrange                                                     *)
DaysIn(year, month) ==
  IF month = 2 THEN IF IsLeap(year) THEN 29 ELSE 28
  ELSE IF month \in {4, 6, 9, 11} THEN 30 ELSE 31

(* Mutant of AddMonths: the month is not made to count from 0.             *)
AddMonthsFromOne(date, n) ==
  LET month == date.month + n
      year == date.year + month \div 12
  IN [year |-> year, month |-> (month % 12) + 1, day |-> date.day]

AddMonths(date, n) ==
  LET months == date.month + n - 1
      year == date.year + months \div 12
      month == (months % 12) + 1
      last == DaysIn(year, month)
  IN [year |-> year, month |-> month, day |-> IF date.day <= last THEN date.day ELSE last]

(* replace raises where there is no such day.                              *)
AddYears(date, n) ==
  IF date.day <= DaysIn(date.year + n, date.month) THEN [date EXCEPT !.year = @ + n] ELSE NoDate

NextEvent(date, n, unit) == IF unit = "MONTHS" THEN AddMonths(date, n) ELSE AddYears(date, n)

-----------------------------------------------------------------------------
IsDate(d) == d.month \in 1..12 /\ d.day \in 1..DaysIn(d.year, d.month)
Dates == {d \in [year : DueYears, month : 1..12, day : 1..31] : IsDate(d)}
MonthNumber(d) == 12 * d.year + d.month

(* A schedule of n months is due in the n-th month from now, on the same   *)
(* day or the last one of a shorter month.  Twelve months are a year: one  *)
(* of years is due on the day that 12 * n months lead to, but for 29       *)
(* February, from where compute_next_event raises in most years.           *)
DueOnTheDay ==
  \A d \in Dates, n \in 1..MaxUnits :
    LET months == NextEvent(d, n, "MONTHS")
        years == NextEvent(d, n, "YEARS")
    IN /\ IsDate(months) /\ MonthNumber(months) = MonthNumber(d) + n
       /\ months.day # d.day =>
            months.day < d.day /\ months.day = DaysIn(months.year, months.month)
       /\ years = NoDate => d.month = 2 /\ d.day = 29
       /\ years # NoDate => years = NextEvent(d, 12 * n, "MONTHS")
=============================================================================
