------------------------ MODULE RecurrenceSchedule ------------------------
(***************************************************************************)
(* The dates of a recurring rule: the pure arithmetic of                   *)
(* RecurrenceSchedule. A date is its day number, 1 January of the year 1   *)
(* being day 1; a month is 12 * year + (month - 1), as in java.time. An    *)
(* instant is 2 * date for the morning and 2 * date + 1 for the evening    *)
(* of a date in the household's time zone.                                 *)
(***************************************************************************)
EXTENDS Integers

NoDate == 0

(***************************************************************************)
(* java.time's proleptic calendar.                                         *)
(***************************************************************************)
IsLeapYear(y) == y % 4 = 0 /\ (y % 100 # 0 \/ y % 400 = 0)

LengthOfMonth(month) ==
  CASE month % 12 = 1 -> IF IsLeapYear(month \div 12) THEN 29 ELSE 28
    [] month % 12 \in {3, 5, 8, 10} -> 30
    [] OTHER -> 31

DaysBeforeMonth ==
  [m \in 0..11 |-> <<0, 31, 59, 90, 120, 151, 181, 212, 243, 273, 304, 334>>[m + 1]]

\* The date of the given day of a month.
AtDay(month, day) ==
  LET y == month \div 12
      leapDays == (y - 1) \div 4 - (y - 1) \div 100 + (y - 1) \div 400
  IN  365 * (y - 1) + leapDays + DaysBeforeMonth[month % 12]
        + (IF month % 12 > 1 /\ IsLeapYear(y) THEN 1 ELSE 0) + day

\* 400 years are 3 * 1600 months of 3 * 48699 days: the month is one of the five
\* around the guess.
MonthOf(date) ==
  LET guess == 12 + (1600 * date) \div 48699
  IN  CHOOSE month \in (guess - 2)..(guess + 2) :
        AtDay(month, 1) <= date /\ date < AtDay(month + 1, 1)

DayOfMonth(date) == date - AtDay(MonthOf(date), 1) + 1
YearOf(date) == MonthOf(date) \div 12

Earlier(a, b) == IF a <= b THEN a ELSE b
Later(a, b) == IF a >= b THEN a ELSE b

(***************************************************************************)
(* The first occurrence after a date. A rule is a record with fields       *)
(* start, frequency, every, end and time; end may be NoDate.               *)
(***************************************************************************)
\* Mutated form: the steps are counted from one.
NextDailyLate(start, days, after) ==
  IF after < start THEN start
  ELSE start + ((after - start) \div days + 2) * days

NextDaily(start, days, after) ==
  IF after < start THEN start
  ELSE start + ((after - start) \div days + 1) * days

\* Mutated form: the clamped day becomes the new anchor.
MonthlyCandidateDrifting(start, months, steps) ==
  LET before == MonthOf(start) + (steps - 1) * months
      month == MonthOf(start) + steps * months
  IN  IF steps = 0 THEN start
      ELSE AtDay(month, Earlier(Earlier(DayOfMonth(start), LengthOfMonth(before)),
                                LengthOfMonth(month)))

\* The original day of the month, clamped to the last day of a shorter month.
MonthlyCandidate(start, months, steps) ==
  LET month == MonthOf(start) + steps * months
  IN  AtDay(month, Earlier(DayOfMonth(start), LengthOfMonth(month)))

NextMonthly(start, months, after) ==
  LET steps == Later(0, (MonthOf(after) - MonthOf(start)) \div months)
      candidate == MonthlyCandidate(start, months, steps)
  IN  IF after < start THEN start
      ELSE IF candidate > after THEN candidate
      ELSE MonthlyCandidate(start, months, steps + 1)

YearlyCandidate(start, years, steps) == MonthlyCandidate(start, 12, steps * years)

NextYearly(start, years, after) ==
  LET steps == Later(0, (YearOf(after) - YearOf(start)) \div years)
      candidate == YearlyCandidate(start, years, steps)
  IN  IF after < start THEN start
      ELSE IF candidate > after THEN candidate
      ELSE YearlyCandidate(start, years, steps + 1)

\* Mutated form: the end date is not looked at.
BoundedIgnoringEnd(date, end) == date

Bounded(date, end) == IF end # NoDate /\ date > end THEN NoDate ELSE date

NextAfter(rule, after) ==
  Bounded(CASE rule.frequency = "DAILY" -> NextDaily(rule.start, rule.every, after)
            [] rule.frequency = "WEEKLY" -> NextDaily(rule.start, rule.every * 7, after)
            [] rule.frequency = "MONTHLY" -> NextMonthly(rule.start, rule.every, after)
            [] rule.frequency = "YEARLY" -> NextYearly(rule.start, rule.every, after),
          rule.end)

FirstOnOrAfter(rule, minimum) ==
  IF rule.start >= minimum THEN Bounded(rule.start, rule.end)
  ELSE NextAfter(rule, minimum - 1)

OccursAt(rule, date) == 2 * date + rule.time

\* Mutated form: the local time of the candidate's day is not looked at.
FirstAfterInstantDateOnly(rule, now) == FirstOnOrAfter(rule, now \div 2)

FirstAfterInstant(rule, now) ==
  LET candidate == FirstOnOrAfter(rule, now \div 2)
  IN  IF candidate = NoDate \/ OccursAt(rule, candidate) > now THEN candidate
      ELSE NextAfter(rule, candidate)
=============================================================================
