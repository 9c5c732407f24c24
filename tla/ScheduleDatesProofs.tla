------------------------- MODULE ScheduleDatesProofs -------------------------
(* Proofs about ScheduleDates: the arithmetic of months and years, for all  *)
(* dates and all numbers of units.                                          *)
EXTENDS ScheduleDates, TLAPS

(* The number of a month, counted from 0, and its year are quotient and    *)
(* remainder.                                                              *)
LEMMA TwelveMonths ==
  ASSUME NEW months \in Nat
  PROVE  /\ months \div 12 \in Nat
         /\ (months % 12) + 1 \in 1..12
         /\ months = 12 * (months \div 12) + (months % 12)
  BY SMT

(* Twelve months a year leave the month as it is.                          *)
LEMMA WholeYears ==
  ASSUME NEW month \in 1..12, NEW n \in Nat
  PROVE  /\ (month + 12 * n - 1) \div 12 = n
         /\ ((month + 12 * n - 1) % 12) + 1 = month
  BY SMT

LEMMA DaysAreMany ==
  ASSUME NEW year \in Nat, NEW month \in 1..12
  PROVE  DaysIn(year, month) \in 28..31
  BY SMT DEF DaysIn

(* A schedule of months is due in the right month, on the right day.       *)
LEMMA MonthsAreRight ==
  ASSUME NEW d \in [year : Nat, month : 1..12, day : 1..31], NEW n \in Nat
  PROVE  LET due == AddMonths(d, n)
         IN /\ due \in [year : Nat, month : 1..12, day : 1..31]
            /\ IsDate(due) /\ MonthNumber(due) = MonthNumber(d) + n
            /\ due.day # d.day => due.day < d.day /\ due.day = DaysIn(due.year, due.month)
<1> DEFINE months == d.month + n - 1
           years  == months \div 12
           rest   == months % 12
           last   == DaysIn(d.year + years, rest + 1)
           day    == IF d.day <= last THEN d.day ELSE last
           due    == [year |-> d.year + years, month |-> rest + 1, day |-> day]
<1>1. AddMonths(d, n) = due
  BY DEF AddMonths
<1>2. months \in Nat /\ months = d.month + n - 1
  OBVIOUS
<1> HIDE DEF months
<1>3. years \in Nat /\ rest + 1 \in 1..12 /\ months = 12 * years + rest
  BY <1>2, TwelveMonths
<1> HIDE DEF years, rest
<1>4. d.year + years \in Nat /\ rest + 1 \in 1..12
  BY <1>3
<1>5. last \in 28..31
  BY <1>4, DaysAreMany
<1> HIDE DEF last
<1>6. day \in 1..31 /\ day <= last /\ (day # d.day => day < d.day /\ day = last)
  BY <1>5
<1> HIDE DEF day
<1>7. due.year = d.year + years /\ due.month = rest + 1 /\ due.day = day
  OBVIOUS
<1>8. due \in [year : Nat, month : 1..12, day : 1..31]
  BY <1>4, <1>6
<1> HIDE DEF due
<1>9. last = DaysIn(due.year, due.month)
  BY <1>7 DEF last
<1>10. IsDate(due)
  BY <1>4, <1>5, <1>6, <1>7, <1>9 DEF IsDate
<1>11. rest \in Int
  BY <1>4, <1>2 DEF rest
<1>12. MonthNumber(due) = MonthNumber(d) + n
  BY <1>2, <1>3, <1>7, <1>11 DEF MonthNumber
<1>13. QED
  BY <1>1, <1>6, <1>7, <1>8, <1>9, <1>10, <1>12

(* One of years is due on the day of so many times twelve months.          *)
LEMMA YearsAreRight ==
  ASSUME NEW d \in [year : Nat, month : 1..12, day : 1..31], IsDate(d), NEW n \in Nat
  PROVE  LET due == AddYears(d, n)
         IN /\ due = NoDate => d.month = 2 /\ d.day = 29
            /\ due # NoDate => due = AddMonths(d, 12 * n)
<1>1. CASE d.day <= DaysIn(d.year + n, d.month)
  <2>1. AddYears(d, n) = [year |-> d.year + n, month |-> d.month, day |-> d.day]
    BY <1>1 DEF AddYears
  <2>2. AddMonths(d, 12 * n) = [year |-> d.year + n, month |-> d.month, day |-> d.day]
    BY <1>1, WholeYears DEF AddMonths
  <2>3. AddYears(d, n).month # NoDate.month
    BY <2>1 DEF NoDate
  <2> QED
    BY <2>1, <2>2, <2>3
<1>2. CASE ~(d.day <= DaysIn(d.year + n, d.month))
  <2>1. AddYears(d, n) = NoDate
    BY <1>2 DEF AddYears
  <2>2. d.month = 2 /\ d.day = 29
    BY <1>2, SMT DEF DaysIn, IsDate
  <2> QED
    BY <2>1, <2>2
<1>3. QED
  BY <1>1, <1>2

(* compute_next_event is right for all years and numbers of units.         *)
THEOREM DatesCorrect == DueOnTheDay
<1> SUFFICES ASSUME NEW d \in Dates, NEW n \in 1..MaxUnits
             PROVE  LET months == NextEvent(d, n, "MONTHS")
                        years == NextEvent(d, n, "YEARS")
                    IN /\ IsDate(months) /\ MonthNumber(months) = MonthNumber(d) + n
                       /\ months.day # d.day =>
                            months.day < d.day /\ months.day = DaysIn(months.year, months.month)
                       /\ years = NoDate => d.month = 2 /\ d.day = 29
                       /\ years # NoDate => years = NextEvent(d, 12 * n, "MONTHS")
  BY DEF DueOnTheDay
<1>1. d \in [year : Nat, month : 1..12, day : 1..31] /\ IsDate(d)
  BY ScheduleDatesAssumption DEF Dates
<1>2. n \in Nat /\ 12 * n \in Nat
  BY ScheduleDatesAssumption
<1>3. \A k : /\ NextEvent(d, k, "MONTHS") = AddMonths(d, k)
             /\ NextEvent(d, k, "YEARS") = AddYears(d, k)
  BY DEF NextEvent
<1>4. /\ IsDate(AddMonths(d, n)) /\ MonthNumber(AddMonths(d, n)) = MonthNumber(d) + n
      /\ AddMonths(d, n).day # d.day =>
           /\ AddMonths(d, n).day < d.day
           /\ AddMonths(d, n).day = DaysIn(AddMonths(d, n).year, AddMonths(d, n).month)
  BY <1>1, <1>2, MonthsAreRight
<1>5. /\ AddYears(d, n) = NoDate => d.month = 2 /\ d.day = 29
      /\ AddYears(d, n) # NoDate => AddYears(d, n) = AddMonths(d, 12 * n)
  BY <1>1, <1>2, YearsAreRight
<1>6. QED
  BY <1>3, <1>4, <1>5
=============================================================================
