-------------------------- MODULE RecurrenceProofs --------------------------
(***************************************************************************)
(* What RecurrenceSchedule computes, for every anchor, interval and end:   *)
(* java.time's calendar, the dates of a rule as an increasing sequence,    *)
(* and nextAfter, firstOnOrAfter and firstAfterInstant as the first of     *)
(* these dates after a date or an instant.                                 *)
(***************************************************************************)
EXTENDS RecurrenceSchedule, TLAPS

(***************************************************************************)
(* The calendar.                                                           *)
(***************************************************************************)
\* The days of a common year before each of its months.
LEMMA DaysBefore ==
  ASSUME NEW r \in 0..11
  PROVE  LET d == DaysBeforeMonth[r] IN
         /\ d \in 0..334
         /\ (r = 0 => d = 0) /\ (r = 1 => d = 31) /\ (r = 2 => d = 59)
         /\ (r = 3 => d = 90) /\ (r = 4 => d = 120) /\ (r = 5 => d = 151)
         /\ (r = 6 => d = 181) /\ (r = 7 => d = 212) /\ (r = 8 => d = 243)
         /\ (r = 9 => d = 273) /\ (r = 10 => d = 304) /\ (r = 11 => d = 334)
  BY SMT DEF DaysBeforeMonth

\* Leap days come 97 in 400 years, give or take two days.
LEMMA LeapDays ==
  ASSUME NEW k \in Int
  PROVE  LET leap == k \div 4 - k \div 100 + k \div 400 IN
         leap \in Int /\ 97 * k <= 400 * leap + 800 /\ 400 * leap <= 97 * k + 800
  BY SMT

\* The first of a month lies within eight days of its place in an even division
\* of 400 years into 4800 months.
LEMMA MonthStart ==
  ASSUME NEW m \in Int
  PROVE  /\ AtDay(m, 1) \in Int
         /\ 146097 * (m - 12) <= 4800 * AtDay(m, 1) + 4800 * 8
         /\ 4800 * AtDay(m, 1) <= 146097 * (m - 12) + 4800 * 8
  <1> DEFINE y == m \div 12
             r == m % 12
             leap == (y - 1) \div 4 - (y - 1) \div 100 + (y - 1) \div 400
             d == DaysBeforeMonth[r]
             e == IF r > 1 /\ IsLeapYear(y) THEN 1 ELSE 0
  <1>1. /\ y \in Int /\ r \in 0..11 /\ m = 12 * y + r
    BY SMT
  <1>2. AtDay(m, 1) = 365 * (y - 1) + leap + d + e + 1
    BY DEF AtDay
  <1>3. leap \in Int /\ 97 * (y - 1) <= 400 * leap + 800 /\ 400 * leap <= 97 * (y - 1) + 800
    BY <1>1, LeapDays
  <1>4. d \in Int /\ 304 * r <= 10 * d + 30 /\ 10 * d <= 304 * r + 30
    BY <1>1, DaysBefore
  <1>5. e \in {0, 1}
    OBVIOUS
  <1> HIDE DEF y, r, leap, d, e
  <1> QED BY <1>1, <1>2, <1>3, <1>4, <1>5, SMT

\* Every date lies in exactly the month that MonthOf names: the guess is never
\* so far off that no month of the five fits.
LEMMA MonthOfDate ==
  ASSUME NEW date \in Int
  PROVE  /\ MonthOf(date) \in Int
         /\ AtDay(MonthOf(date), 1) <= date /\ date < AtDay(MonthOf(date) + 1, 1)
  <1> DEFINE g == 12 + (1600 * date) \div 48699
             Around(month) == AtDay(month, 1) <= date /\ date < AtDay(month + 1, 1)
  <1>1. g \in Int /\ 146097 * (g - 12) <= 4800 * date /\ 4800 * date < 146097 * (g - 11)
    BY SMT
  <1> HIDE DEF g
  <1>2. AtDay(g - 2, 1) <= date /\ date < AtDay(g + 3, 1)
    BY <1>1, MonthStart, SMT
  <1>3. \E month \in (g - 2)..(g + 2) : Around(month)
    <2>1. AtDay(g - 1, 1) \in Int /\ AtDay(g, 1) \in Int /\ AtDay(g + 1, 1) \in Int /\ AtDay(g + 2, 1) \in Int
      BY <1>1, MonthStart
    <2> SUFFICES Around(g - 2) \/ Around(g - 1) \/ Around(g) \/ Around(g + 1) \/ Around(g + 2)
      BY <1>1
    <2> QED BY <1>1, <1>2, <2>1
  <1>4. MonthOf(date) = CHOOSE month \in (g - 2)..(g + 2) : Around(month)
    BY DEF MonthOf, g
  <1> HIDE DEF Around
  <1>5. MonthOf(date) \in (g - 2)..(g + 2) /\ Around(MonthOf(date))
    BY <1>3, <1>4
  <1> QED BY <1>1, <1>5 DEF Around

\* The leap days up to a year are those up to the year before, and its own.
LEMMA LeapStep ==
  ASSUME NEW y \in Int
  PROVE  y \div 4 - y \div 100 + y \div 400
           = (y - 1) \div 4 - (y - 1) \div 100 + (y - 1) \div 400
               + (IF IsLeapYear(y) THEN 1 ELSE 0)
  <1>1. y \div 4 = (y - 1) \div 4 + (IF y % 4 = 0 THEN 1 ELSE 0)
    BY SMT
  <1>2. y \div 100 = (y - 1) \div 100 + (IF y % 100 = 0 THEN 1 ELSE 0)
    BY SMT
  <1>3. y \div 400 = (y - 1) \div 400 + (IF y % 400 = 0 THEN 1 ELSE 0)
    BY SMT
  <1>4. (y % 400 = 0 => y % 100 = 0) /\ (y % 100 = 0 => y % 4 = 0)
    BY SMT
  <1> QED BY <1>1, <1>2, <1>3, <1>4, SMT DEF IsLeapYear

\* The next month begins when LengthOfMonth days have passed.
LEMMA MonthLength ==
  ASSUME NEW m \in Int
  PROVE  /\ LengthOfMonth(m) \in 28..31
         /\ AtDay(m + 1, 1) = AtDay(m, 1) + LengthOfMonth(m)
  <1> DEFINE Leaps(k) == k \div 4 - k \div 100 + k \div 400
             Leap(y) == IF IsLeapYear(y) THEN 1 ELSE 0
             y == m \div 12
             r == m % 12
  <1>1. /\ y \in Int /\ r \in 0..11
        /\ r < 11 => (m + 1) \div 12 = y /\ (m + 1) % 12 = r + 1
        /\ r = 11 => (m + 1) \div 12 = y + 1 /\ (m + 1) % 12 = 0
    BY SMT
  <1>2. LengthOfMonth(m) = CASE r = 1 -> 28 + Leap(y) [] r \in {3, 5, 8, 10} -> 30 [] OTHER -> 31
    BY DEF LengthOfMonth
  <1>3. AtDay(m, 1) = 365 * (y - 1) + Leaps(y - 1) + DaysBeforeMonth[r]
                        + (IF r > 1 THEN Leap(y) ELSE 0) + 1
    BY <1>1 DEF AtDay
  <1>4. /\ Leaps(y) = Leaps(y - 1) + Leap(y)
        /\ Leaps(y) \in Int /\ Leaps(y - 1) \in Int /\ Leap(y) \in {0, 1}
    BY <1>1, LeapStep, LeapDays
  <1>5. CASE r < 11
    <2>1. AtDay(m + 1, 1) = 365 * (y - 1) + Leaps(y - 1) + DaysBeforeMonth[r + 1]
                              + (IF r + 1 > 1 THEN Leap(y) ELSE 0) + 1
      BY <1>1, <1>5 DEF AtDay
    <2> HIDE DEF Leaps, Leap, y, r
    <2> QED BY <1>1, <1>2, <1>3, <1>4, <1>5, <2>1, DaysBefore, SMT
  <1>6. CASE r = 11
    <2>1. AtDay(m + 1, 1) = 365 * y + Leaps(y) + DaysBeforeMonth[0] + 0 + 1
      <3>1. (y + 1) - 1 = y
        BY <1>1
      <3>2. AtDay(m + 1, 1) = 365 * ((y + 1) - 1) + Leaps((y + 1) - 1) + DaysBeforeMonth[0]
                              + (IF 0 > 1 /\ IsLeapYear(y + 1) THEN 1 ELSE 0) + 1
        BY <1>1, <1>6 DEF AtDay
      <3> QED BY <3>1, <3>2
    <2> HIDE DEF Leaps, Leap, y, r
    <2> QED BY <1>1, <1>2, <1>3, <1>4, <1>6, <2>1, DaysBefore, SMT
  <1> QED BY <1>1, <1>5, <1>6

\* A later month begins after an earlier one has ended.
LEMMA MonthOrder ==
  ASSUME NEW m \in Int, NEW n \in Int, m < n
  PROVE  AtDay(m + 1, 1) <= AtDay(n, 1)
  <1>1. CASE n = m + 1
    BY <1>1, MonthStart
  <1>2. CASE n >= m + 2
    BY <1>2, MonthStart, SMT
  <1> QED BY <1>1, <1>2

\* The days of a month are consecutive.
LEMMA DaysApart ==
  ASSUME NEW m \in Int, NEW d \in Int
  PROVE  AtDay(m, d) = AtDay(m, 1) + d - 1 /\ AtDay(m, d) \in Int
  <1> DEFINE b == 365 * (m \div 12 - 1) + ((m \div 12 - 1) \div 4 - (m \div 12 - 1) \div 100 + (m \div 12 - 1) \div 400) + DaysBeforeMonth[m % 12]
                    + (IF m % 12 > 1 /\ IsLeapYear(m \div 12) THEN 1 ELSE 0)
  <1>1. b \in Int
    BY DaysBefore, SMT
  <1>2. AtDay(m, d) = b + d /\ AtDay(m, 1) = b + 1
    BY DEF AtDay
  <1> QED BY <1>1, <1>2

\* No date lies in two months.
LEMMA MonthUnique ==
  ASSUME NEW d \in Int, NEW m \in Int, AtDay(m, 1) <= d, d < AtDay(m + 1, 1)
  PROVE  MonthOf(d) = m
  <1> DEFINE k == MonthOf(d)
  <1>1. /\ k \in Int /\ AtDay(k, 1) <= d /\ d < AtDay(k + 1, 1)
    BY MonthOfDate
  <1> HIDE DEF k
  <1>2. /\ AtDay(k, 1) \in Int /\ AtDay(k + 1, 1) \in Int
        /\ AtDay(m, 1) \in Int /\ AtDay(m + 1, 1) \in Int
    <2>1. k + 1 \in Int /\ m + 1 \in Int
      BY <1>1
    <2> QED BY <1>1, <2>1, MonthStart
  <1>3. m < k => AtDay(m + 1, 1) <= AtDay(k, 1)
    BY <1>1, MonthOrder
  <1>4. k < m => AtDay(k + 1, 1) <= AtDay(m, 1)
    BY <1>1, MonthOrder
  <1>5. k = m
    BY <1>1, <1>2, <1>3, <1>4
  <1> QED BY <1>5 DEF k

\* A date is the first of its month and its day, counted from one.
LEMMA DayInMonth ==
  ASSUME NEW d \in Int
  PROVE  /\ DayOfMonth(d) \in 1..LengthOfMonth(MonthOf(d))
         /\ d = AtDay(MonthOf(d), 1) + DayOfMonth(d) - 1
  <1> DEFINE k == MonthOf(d)
  <1>1. /\ k \in Int /\ AtDay(k, 1) <= d /\ d < AtDay(k + 1, 1)
    BY MonthOfDate
  <1> HIDE DEF k
  <1>2. /\ AtDay(k, 1) \in Int /\ LengthOfMonth(k) \in 28..31
        /\ AtDay(k + 1, 1) = AtDay(k, 1) + LengthOfMonth(k)
    BY <1>1, MonthStart, MonthLength
  <1>3. DayOfMonth(d) = d - AtDay(k, 1) + 1
    BY DEF DayOfMonth, k
  <1>4. DayOfMonth(d) \in 1..LengthOfMonth(k) /\ d = AtDay(k, 1) + DayOfMonth(d) - 1
    BY <1>1, <1>2, <1>3
  <1> QED BY <1>4 DEF k

\* A candidate lies in the month the steps lead to, on the anchor's day or on
\* the last day of a shorter month.
LEMMA CandidateInMonth ==
  ASSUME NEW start \in Int, NEW p \in Int, NEW k \in Int
  PROVE  LET c == MonthlyCandidate(start, p, k)
             month == MonthOf(start) + k * p
         IN  /\ c \in Int /\ month \in Int
             /\ AtDay(month, 1) <= c /\ c < AtDay(month + 1, 1)
             /\ MonthOf(c) = month
             /\ DayOfMonth(c) = Earlier(DayOfMonth(start), LengthOfMonth(month))
  <1> DEFINE month == MonthOf(start) + k * p
             day == Earlier(DayOfMonth(start), LengthOfMonth(month))
             c == MonthlyCandidate(start, p, k)
  <1>1. month \in Int
    <2>1. MonthOf(start) \in Int
      BY MonthOfDate
    <2> QED BY <2>1
  <1>2. c = AtDay(month, day)
    BY DEF MonthlyCandidate
  <1>3. DayOfMonth(start) \in Nat \ {0}
    <2>1. MonthOf(start) \in Int
      BY MonthOfDate
    <2>2. LengthOfMonth(MonthOf(start)) \in 28..31
      BY <2>1, MonthLength
    <2> QED BY <2>2, DayInMonth
  <1> HIDE DEF month
  <1>4. /\ LengthOfMonth(month) \in 28..31
        /\ AtDay(month, 1) \in Int
        /\ AtDay(month + 1, 1) = AtDay(month, 1) + LengthOfMonth(month)
        /\ day \in 1..LengthOfMonth(month)
    <2>1. AtDay(month, 1) \in Int
      BY <1>1, MonthStart
    <2>2. /\ LengthOfMonth(month) \in 28..31
          /\ AtDay(month + 1, 1) = AtDay(month, 1) + LengthOfMonth(month)
      BY <1>1, MonthLength
    <2> QED BY <1>3, <2>1, <2>2 DEF Earlier
  <1>5. c = AtDay(month, 1) + day - 1
    BY <1>1, <1>2, <1>4, DaysApart
  <1> HIDE DEF day, c
  <1>6. /\ c \in Int /\ AtDay(month, 1) <= c /\ c < AtDay(month + 1, 1)
    BY <1>4, <1>5
  <1>7. MonthOf(c) = month
    BY <1>1, <1>6, MonthUnique
  <1>8. DayOfMonth(c) = day
    BY <1>4, <1>5, <1>7 DEF DayOfMonth
  <1> QED BY <1>1, <1>6, <1>7, <1>8 DEF c, month, day

\* A product grows by at least its other factor.
LEMMA ProductOrder ==
  ASSUME NEW j \in Int, NEW k \in Int, NEW p \in Nat \ {0}, j < k
  PROVE  j * p \in Int /\ k * p \in Int /\ j * p + p <= k * p
  <1>1. j * p \in Int /\ k * p \in Int /\ (k - j - 1) * p \in Int
    OBVIOUS
  <1>2. (k - j - 1) * p = k * p - j * p - p
    OBVIOUS
  <1>3. (k - j - 1) * p >= 0
    OBVIOUS
  <1> QED BY <1>1, <1>2, <1>3

\* Candidates of more steps are later.
LEMMA CandidatesRise ==
  ASSUME NEW start \in Int, NEW p \in Nat \ {0}, NEW j \in Int, NEW k \in Int, j < k
  PROVE  MonthlyCandidate(start, p, j) < MonthlyCandidate(start, p, k)
  <1> DEFINE a == MonthOf(start) + j * p
             b == MonthOf(start) + k * p
             c == MonthlyCandidate(start, p, j)
             d == MonthlyCandidate(start, p, k)
  <1>1. /\ c \in Int /\ a \in Int /\ c < AtDay(a + 1, 1)
        /\ d \in Int /\ b \in Int /\ AtDay(b, 1) <= d
    BY CandidateInMonth
  <1>2. a < b
    <2>1. MonthOf(start) \in Int /\ j * p \in Int /\ k * p \in Int /\ j * p + p <= k * p
      BY MonthOfDate, ProductOrder
    <2> QED BY <2>1
  <1> HIDE DEF a, b, c, d
  <1>3. AtDay(a + 1, 1) \in Int /\ AtDay(b, 1) \in Int
    <2>1. a + 1 \in Int
      BY <1>1
    <2> QED BY <1>1, <2>1, MonthStart
  <1>4. AtDay(a + 1, 1) <= AtDay(b, 1)
    BY <1>1, <1>2, MonthOrder
  <1>5. c < d
    BY <1>1, <1>3, <1>4
  <1> QED BY <1>5 DEF c, d

\* The candidate of no steps is the anchor itself.
LEMMA FirstCandidate ==
  ASSUME NEW start \in Int, NEW p \in Int
  PROVE  MonthlyCandidate(start, p, 0) = start
  <1> DEFINE m == MonthOf(start)
  <1>1. /\ m \in Int /\ m + 0 * p = m
    BY MonthOfDate
  <1>2. DayOfMonth(start) \in 1..LengthOfMonth(m) /\ start = AtDay(m, 1) + DayOfMonth(start) - 1
    BY DayInMonth
  <1> HIDE DEF m
  <1>3. LengthOfMonth(m) \in 28..31
    BY <1>1, MonthLength
  <1>4. Earlier(DayOfMonth(start), LengthOfMonth(m)) = DayOfMonth(start)
    BY <1>2, <1>3 DEF Earlier
  <1>5. AtDay(m, DayOfMonth(start)) = start
    BY <1>1, <1>2, <1>3, DaysApart
  <1> QED BY <1>1, <1>4, <1>5 DEF MonthlyCandidate, m

\* A date lies before every candidate of a later month, and after every
\* candidate of an earlier one.
LEMMA CandidateBeside ==
  ASSUME NEW start \in Int, NEW p \in Int, NEW k \in Int, NEW date \in Int
  PROVE  LET month == MonthOf(start) + k * p IN
         /\ month < MonthOf(date) => MonthlyCandidate(start, p, k) < date
         /\ month > MonthOf(date) => MonthlyCandidate(start, p, k) > date
  <1> DEFINE a == MonthOf(start) + k * p
             b == MonthOf(date)
             c == MonthlyCandidate(start, p, k)
  <1>1. /\ c \in Int /\ a \in Int /\ AtDay(a, 1) <= c /\ c < AtDay(a + 1, 1)
    BY CandidateInMonth
  <1>2. /\ b \in Int /\ AtDay(b, 1) <= date /\ date < AtDay(b + 1, 1)
    BY MonthOfDate
  <1> HIDE DEF a, b, c
  <1>3. AtDay(a + 1, 1) \in Int /\ AtDay(b, 1) \in Int /\ AtDay(b + 1, 1) \in Int /\ AtDay(a, 1) \in Int
    <2>1. a + 1 \in Int /\ b + 1 \in Int
      BY <1>1, <1>2
    <2> QED BY <1>1, <1>2, <2>1, MonthStart
  <1>4. a < b => AtDay(a + 1, 1) <= AtDay(b, 1)
    BY <1>1, <1>2, MonthOrder
  <1>5. b < a => AtDay(b + 1, 1) <= AtDay(a, 1)
    BY <1>1, <1>2, MonthOrder
  <1>6. (a < b => c < date) /\ (a > b => c > date)
    BY <1>1, <1>2, <1>3, <1>4, <1>5
  <1> QED BY <1>6 DEF a, b, c

\* The month of a later date is not earlier.
LEMMA MonthsFollowDates ==
  ASSUME NEW c \in Int, NEW d \in Int, c <= d
  PROVE  MonthOf(c) <= MonthOf(d)
  <1> DEFINE a == MonthOf(c)
             b == MonthOf(d)
  <1>1. /\ a \in Int /\ AtDay(a, 1) <= c
        /\ b \in Int /\ d < AtDay(b + 1, 1)
    BY MonthOfDate
  <1> HIDE DEF a, b
  <1>2. AtDay(a, 1) \in Int /\ AtDay(b + 1, 1) \in Int
    <2>1. b + 1 \in Int
      BY <1>1
    <2> QED BY <1>1, <2>1, MonthStart
  <1>3. b < a => AtDay(b + 1, 1) <= AtDay(a, 1)
    BY <1>1, MonthOrder
  <1>4. a <= b
    BY <1>1, <1>2, <1>3
  <1> QED BY <1>4 DEF a, b

(***************************************************************************)
(* The dates of a rule, numbered from its start, without its end.          *)
(***************************************************************************)
\* A row that the CHECK constraints of V7 admit.
Schedulable(rule) ==
  /\ rule.start \in Nat \ {0} /\ rule.every \in Nat \ {0}
  /\ rule.frequency \in {"DAILY", "WEEKLY", "MONTHLY", "YEARLY"}

\* The date k steps after the start.
Date(rule, k) ==
  CASE rule.frequency = "DAILY" -> rule.start + k * rule.every
    [] rule.frequency = "WEEKLY" -> rule.start + k * (rule.every * 7)
    [] rule.frequency = "MONTHLY" -> MonthlyCandidate(rule.start, rule.every, k)
    [] rule.frequency = "YEARLY" -> YearlyCandidate(rule.start, rule.every, k)

\* What NextAfter bounds by the end date.
FollowingDate(rule, after) ==
  CASE rule.frequency = "DAILY" -> NextDaily(rule.start, rule.every, after)
    [] rule.frequency = "WEEKLY" -> NextDaily(rule.start, rule.every * 7, after)
    [] rule.frequency = "MONTHLY" -> NextMonthly(rule.start, rule.every, after)
    [] rule.frequency = "YEARLY" -> NextYearly(rule.start, rule.every, after)

\* A rule of years is a rule of twelve times as many months.
LEMMA YearsAreMonths ==
  ASSUME NEW start \in Int, NEW years \in Int, NEW k \in Int
  PROVE  YearlyCandidate(start, years, k) = MonthlyCandidate(start, 12 * years, k)
  <1>1. (k * years) * 12 = k * (12 * years)
    OBVIOUS
  <1> QED BY <1>1 DEF YearlyCandidate, MonthlyCandidate

\* Whatever the frequency, the dates are an arithmetic progression of days or
\* of months.
LEMMA DateForms ==
  ASSUME NEW rule, Schedulable(rule)
  PROVE  \/ \E p \in Nat \ {0} :
              /\ \A k \in Int : Date(rule, k) = rule.start + k * p
              /\ \A after : FollowingDate(rule, after) = NextDaily(rule.start, p, after)
         \/ \E p \in Nat \ {0} :
              /\ \A k \in Int : Date(rule, k) = MonthlyCandidate(rule.start, p, k)
              /\ \/ \A after : FollowingDate(rule, after) = NextMonthly(rule.start, p, after)
                 \/ \E years \in Nat \ {0} :
                      /\ p = 12 * years
                      /\ \A after : FollowingDate(rule, after) = NextYearly(rule.start, years, after)
  <1>1. CASE rule.frequency = "DAILY"
    BY <1>1 DEF Schedulable, Date, FollowingDate
  <1>2. CASE rule.frequency = "WEEKLY"
    <2>1. rule.every * 7 \in Nat \ {0}
      BY DEF Schedulable
    <2> QED BY <1>2, <2>1 DEF Date, FollowingDate
  <1>3. CASE rule.frequency = "MONTHLY"
    BY <1>3 DEF Schedulable, Date, FollowingDate
  <1>4. CASE rule.frequency = "YEARLY"
    <2>1. 12 * rule.every \in Nat \ {0} /\ rule.every \in Nat \ {0} /\ rule.start \in Int
      BY DEF Schedulable
    <2>2. \A k \in Int : Date(rule, k) = MonthlyCandidate(rule.start, 12 * rule.every, k)
      BY <1>4, <2>1, YearsAreMonths DEF Date
    <2>3. \A after : FollowingDate(rule, after) = NextYearly(rule.start, rule.every, after)
      BY <1>4 DEF FollowingDate
    <2> QED BY <2>1, <2>2, <2>3
  <1> QED BY <1>1, <1>2, <1>3, <1>4 DEF Schedulable

\* The dates of a rule begin at its start and rise.
LEMMA DatesRise ==
  ASSUME NEW rule, Schedulable(rule)
  PROVE  /\ \A k \in Int : Date(rule, k) \in Int
         /\ Date(rule, 0) = rule.start
         /\ \A j, k \in Int : j < k => Date(rule, j) < Date(rule, k)
  <1>0. rule.start \in Int
    BY DEF Schedulable
  <1>1. ASSUME NEW p \in Nat \ {0}, \A k \in Int : Date(rule, k) = rule.start + k * p
        PROVE  /\ \A k \in Int : Date(rule, k) \in Int
               /\ Date(rule, 0) = rule.start
               /\ \A j, k \in Int : j < k => Date(rule, j) < Date(rule, k)
    <2>1. ASSUME NEW k \in Int PROVE Date(rule, k) \in Int
      BY <1>0, <1>1
    <2>2. Date(rule, 0) = rule.start
      <3>1. 0 * p = 0
        OBVIOUS
      <3> QED BY <1>0, <1>1, <3>1
    <2>3. ASSUME NEW j \in Int, NEW k \in Int, j < k PROVE Date(rule, j) < Date(rule, k)
      <3>1. j * p \in Int /\ k * p \in Int /\ j * p + p <= k * p
        BY <2>3, ProductOrder
      <3>2. Date(rule, j) = rule.start + j * p /\ Date(rule, k) = rule.start + k * p
        BY <1>1
      <3> QED BY <1>0, <3>1, <3>2
    <2> QED BY <2>1, <2>2, <2>3
  <1>2. ASSUME NEW p \in Nat \ {0}, \A k \in Int : Date(rule, k) = MonthlyCandidate(rule.start, p, k)
        PROVE  /\ \A k \in Int : Date(rule, k) \in Int
               /\ Date(rule, 0) = rule.start
               /\ \A j, k \in Int : j < k => Date(rule, j) < Date(rule, k)
    <2>1. ASSUME NEW k \in Int PROVE Date(rule, k) \in Int
      <3>1. MonthlyCandidate(rule.start, p, k) \in Int
        <4>1. p \in Int
          OBVIOUS
        <4> QED BY <1>0, <4>1, CandidateInMonth, Zenon
      <3> QED BY <1>2, <3>1
    <2>2. Date(rule, 0) = rule.start
      BY <1>0, <1>2, FirstCandidate
    <2>3. ASSUME NEW j \in Int, NEW k \in Int, j < k PROVE Date(rule, j) < Date(rule, k)
      <3>1. MonthlyCandidate(rule.start, p, j) < MonthlyCandidate(rule.start, p, k)
        BY <1>0, <2>3, CandidatesRise
      <3> QED BY <1>2, <3>1
    <2> QED BY <2>1, <2>2, <2>3
  <1>3. CASE \E p \in Nat \ {0} : \A k \in Int : Date(rule, k) = rule.start + k * p
    <2>1. PICK p \in Nat \ {0} : \A k \in Int : Date(rule, k) = rule.start + k * p
      BY <1>3
    <2> QED BY <1>1, <2>1
  <1>4. CASE \E p \in Nat \ {0} : \A k \in Int : Date(rule, k) = MonthlyCandidate(rule.start, p, k)
    <2>1. PICK p \in Nat \ {0} : \A k \in Int : Date(rule, k) = MonthlyCandidate(rule.start, p, k)
      BY <1>4
    <2> QED BY <1>2, <2>1
  <1> QED BY <1>3, <1>4, DateForms

\* The first member of a progression after a date.
LEMMA NextDailyStep ==
  ASSUME NEW start \in Int, NEW p \in Nat \ {0}, NEW after \in Int
  PROVE  \E k \in Nat : /\ NextDaily(start, p, after) = start + k * p
                        /\ after < start + k * p
                        /\ k = 0 \/ start + (k - 1) * p <= after
  <1>1. CASE after < start
    <2>1. 0 * p = 0
      OBVIOUS
    <2>2. NextDaily(start, p, after) = start + 0 * p
      BY <1>1, <2>1 DEF NextDaily
    <2> QED BY <1>1, <2>1, <2>2
  <1>2. CASE after >= start
    <2> DEFINE n == after - start
               q == n \div p
    <2>1. n \in Nat
      BY <1>2
    <2>2. q \in Nat /\ q * p <= n /\ n < q * p + p
      BY <2>1, SMT
    <2>3. NextDaily(start, p, after) = start + (q + 1) * p
      BY <1>2 DEF NextDaily
    <2> HIDE DEF q
    <2>4. q * p \in Int /\ (q + 1) * p = q * p + p /\ ((q + 1) - 1) * p = q * p
      BY <2>2
    <2>5. after < start + (q + 1) * p /\ start + ((q + 1) - 1) * p <= after
      BY <2>1, <2>2, <2>4
    <2>6. q + 1 \in Nat
      BY <2>2
    <2> QED BY <2>3, <2>5, <2>6
  <1> QED BY <1>1, <1>2

\* The candidate of the month at hand, or else the one after it.
LEMMA CandidateStep ==
  ASSUME NEW start \in Int, NEW p \in Nat \ {0}, NEW after \in Int, after >= start,
         NEW n \in Nat,
         n = 0 \/ MonthOf(start) + (n - 1) * p < MonthOf(after),
         MonthOf(after) < MonthOf(start) + (n + 1) * p
  PROVE  LET next == IF MonthlyCandidate(start, p, n) > after THEN MonthlyCandidate(start, p, n)
                     ELSE MonthlyCandidate(start, p, n + 1)
         IN  \E k \in Nat : /\ next = MonthlyCandidate(start, p, k)
                            /\ after < MonthlyCandidate(start, p, k)
                            /\ k = 0 \/ MonthlyCandidate(start, p, k - 1) <= after
  <1> DEFINE C(k) == MonthlyCandidate(start, p, k)
  <1>0. p \in Int /\ n \in Int
    OBVIOUS
  <1>1. C(n) \in Int
    BY <1>0, CandidateInMonth, Zenon
  <1>2. n # 0 => C(n - 1) < after
    BY <1>0, CandidateBeside
  <1>3. C(n + 1) > after
    <2>1. n + 1 \in Int
      OBVIOUS
    <2> QED BY <1>0, <2>1, CandidateBeside
  <1>4. C(n - 1) \in Int
    <2>1. n - 1 \in Int
      OBVIOUS
    <2> QED BY <1>0, <2>1, CandidateInMonth, Zenon
  <1>5. (n + 1) - 1 = n /\ n + 1 \in Nat
    OBVIOUS
  <1> HIDE DEF C
  <1>6. CASE C(n) > after
    <2>1. n = 0 \/ C(n - 1) <= after
      BY <1>2, <1>4
    <2> QED BY <1>6, <2>1 DEF C
  <1>7. CASE ~(C(n) > after)
    <2>1. C((n + 1) - 1) <= after
      BY <1>1, <1>5, <1>7
    <2> QED BY <1>3, <1>5, <1>7, <2>1 DEF C
  <1> QED BY <1>6, <1>7

\* nextMonthly answers the first candidate after a date.
LEMMA NextMonthlyStep ==
  ASSUME NEW start \in Int, NEW p \in Nat \ {0}, NEW after \in Int
  PROVE  \E k \in Nat : /\ NextMonthly(start, p, after) = MonthlyCandidate(start, p, k)
                        /\ after < MonthlyCandidate(start, p, k)
                        /\ k = 0 \/ MonthlyCandidate(start, p, k - 1) <= after
  <1>1. CASE after < start
    <2>1. NextMonthly(start, p, after) = start /\ MonthlyCandidate(start, p, 0) = start
      BY <1>1, FirstCandidate DEF NextMonthly
    <2> QED BY <1>1, <2>1
  <1>2. CASE after >= start
    <2> DEFINE a == MonthOf(after)
               b == MonthOf(start)
               q == (a - b) \div p
    <2>1. a \in Int /\ b \in Int /\ b <= a
      BY <1>2, MonthOfDate, MonthsFollowDates
    <2> HIDE DEF a, b
    <2>2. q \in Nat /\ q * p <= a - b /\ a - b < q * p + p
      BY <2>1, SMT
    <2>3. Later(0, q) = q
      BY <2>2 DEF Later
    <2>4. NextMonthly(start, p, after)
            = IF MonthlyCandidate(start, p, q) > after THEN MonthlyCandidate(start, p, q)
              ELSE MonthlyCandidate(start, p, q + 1)
      BY <1>2, <2>3 DEF NextMonthly, a, b
    <2> HIDE DEF q
    <2>5. q * p \in Int /\ (q - 1) * p = q * p - p /\ (q + 1) * p = q * p + p
      BY <2>2
    <2>6. b + (q - 1) * p < a /\ a < b + (q + 1) * p
      BY <2>1, <2>2, <2>5
    <2> QED BY <1>2, <2>2, <2>4, <2>6, CandidateStep DEF a, b
  <1> QED BY <1>1, <1>2

\* nextYearly answers the first candidate after a date.
LEMMA NextYearlyStep ==
  ASSUME NEW start \in Int, NEW years \in Nat \ {0}, NEW after \in Int
  PROVE  LET p == 12 * years IN
         \E k \in Nat : /\ NextYearly(start, years, after) = MonthlyCandidate(start, p, k)
                        /\ after < MonthlyCandidate(start, p, k)
                        /\ k = 0 \/ MonthlyCandidate(start, p, k - 1) <= after
  <1> DEFINE p == 12 * years
  <1>0. p \in Nat \ {0}
    OBVIOUS
  <1>1. CASE after < start
    <2>1. NextYearly(start, years, after) = start /\ MonthlyCandidate(start, p, 0) = start
      BY <1>1, FirstCandidate DEF NextYearly
    <2> QED BY <1>1, <2>1
  <1>2. CASE after >= start
    <2> DEFINE a == MonthOf(after)
               b == MonthOf(start)
               y == a \div 12 - b \div 12
               q == y \div years
    <2>1. a \in Int /\ b \in Int /\ b <= a
      BY <1>2, MonthOfDate, MonthsFollowDates
    <2> HIDE DEF a, b
    <2>2. y \in Nat /\ a - b <= 12 * y + 11 /\ 12 * y <= a - b + 11
      BY <2>1, SMT
    <2> HIDE DEF y
    <2>3. q \in Nat /\ q * years <= y /\ y < q * years + years
      BY <2>2, SMT
    <2>4. Later(0, q) = q
      BY <2>3 DEF Later
    <2>5. NextYearly(start, years, after)
            = IF YearlyCandidate(start, years, q) > after THEN YearlyCandidate(start, years, q)
              ELSE YearlyCandidate(start, years, q + 1)
      BY <1>2, <2>4 DEF NextYearly, YearOf, a, b, y
    <2> HIDE DEF q
    <2>6. YearlyCandidate(start, years, q) = MonthlyCandidate(start, p, q)
      BY <2>3, YearsAreMonths
    <2>7. YearlyCandidate(start, years, q + 1) = MonthlyCandidate(start, p, q + 1)
      <3>1. q + 1 \in Int
        BY <2>3
      <3> QED BY <3>1, YearsAreMonths
    <2>8. /\ q * years \in Int
          /\ (q - 1) * p = 12 * (q * years) - 12 * years /\ (q + 1) * p = 12 * (q * years) + 12 * years
      BY <2>3
    <2> HIDE DEF p
    <2>9. b + (q - 1) * p < a /\ a < b + (q + 1) * p
      BY <2>1, <2>2, <2>3, <2>8
    <2>10. \E k \in Nat : /\ NextYearly(start, years, after) = MonthlyCandidate(start, p, k)
                          /\ after < MonthlyCandidate(start, p, k)
                          /\ k = 0 \/ MonthlyCandidate(start, p, k - 1) <= after
      BY <1>0, <1>2, <2>3, <2>5, <2>6, <2>7, <2>9, CandidateStep DEF a, b
    <2> QED BY <2>10 DEF p
  <1> QED BY <1>1, <1>2

\* The date that follows is a date of the rule, and the one before it has passed.
LEMMA NextIsDate ==
  ASSUME NEW rule, Schedulable(rule), NEW after \in Int
  PROVE  \E k \in Nat : /\ FollowingDate(rule, after) = Date(rule, k)
                        /\ after < Date(rule, k)
                        /\ k = 0 \/ Date(rule, k - 1) <= after
  <1>0. rule.start \in Int
    BY DEF Schedulable
  <1>1. CASE \E p \in Nat \ {0} :
              /\ \A k \in Int : Date(rule, k) = rule.start + k * p
              /\ \A d : FollowingDate(rule, d) = NextDaily(rule.start, p, d)
    <2>1. PICK p \in Nat \ {0} :
              /\ \A k \in Int : Date(rule, k) = rule.start + k * p
              /\ \A d : FollowingDate(rule, d) = NextDaily(rule.start, p, d)
      BY <1>1
    <2>2. PICK k \in Nat : /\ NextDaily(rule.start, p, after) = rule.start + k * p
                           /\ after < rule.start + k * p
                           /\ k = 0 \/ rule.start + (k - 1) * p <= after
      BY <1>0, NextDailyStep
    <2>3. Date(rule, k) = rule.start + k * p /\ Date(rule, k - 1) = rule.start + (k - 1) * p
      BY <2>1
    <2> QED BY <2>1, <2>2, <2>3
  <1> DEFINE Months(p) == \A k \in Int : Date(rule, k) = MonthlyCandidate(rule.start, p, k)
             Found(p, k) == /\ FollowingDate(rule, after) = MonthlyCandidate(rule.start, p, k)
                            /\ after < MonthlyCandidate(rule.start, p, k)
                            /\ k = 0 \/ MonthlyCandidate(rule.start, p, k - 1) <= after
             Goal == \E k \in Nat : /\ FollowingDate(rule, after) = Date(rule, k)
                                    /\ after < Date(rule, k)
                                    /\ k = 0 \/ Date(rule, k - 1) <= after
  <1>2. ASSUME NEW p \in Nat \ {0}, Months(p), NEW k \in Nat, Found(p, k) PROVE Goal
    <2>2. /\ Date(rule, k) = MonthlyCandidate(rule.start, p, k)
          /\ Date(rule, k - 1) = MonthlyCandidate(rule.start, p, k - 1)
      BY <1>2
    <2> QED BY <1>2, <2>2
  <1>3. CASE \E p \in Nat \ {0} :
              /\ \A k \in Int : Date(rule, k) = MonthlyCandidate(rule.start, p, k)
              /\ \/ \A d : FollowingDate(rule, d) = NextMonthly(rule.start, p, d)
                 \/ \E years \in Nat \ {0} :
                      /\ p = 12 * years
                      /\ \A d : FollowingDate(rule, d) = NextYearly(rule.start, years, d)
    <2>1. PICK p \in Nat \ {0} :
              /\ \A k \in Int : Date(rule, k) = MonthlyCandidate(rule.start, p, k)
              /\ \/ \A d : FollowingDate(rule, d) = NextMonthly(rule.start, p, d)
                 \/ \E years \in Nat \ {0} :
                      /\ p = 12 * years
                      /\ \A d : FollowingDate(rule, d) = NextYearly(rule.start, years, d)
      BY <1>3
    <2>2. CASE \A d : FollowingDate(rule, d) = NextMonthly(rule.start, p, d)
      <3>1. FollowingDate(rule, after) = NextMonthly(rule.start, p, after)
        BY <2>2
      <3>2. PICK k \in Nat : /\ NextMonthly(rule.start, p, after) = MonthlyCandidate(rule.start, p, k)
                             /\ after < MonthlyCandidate(rule.start, p, k)
                             /\ k = 0 \/ MonthlyCandidate(rule.start, p, k - 1) <= after
        BY <1>0, NextMonthlyStep
      <3>3. Found(p, k)
        BY <3>1, <3>2
      <3>4. Months(p)
        BY <2>1
      <3> HIDE DEF Found, Months, Goal
      <3>5. Goal
        BY <1>2, <3>3, <3>4
      <3> QED BY <3>5 DEF Goal
    <2>3. CASE \E years \in Nat \ {0} :
                      /\ p = 12 * years
                      /\ \A d : FollowingDate(rule, d) = NextYearly(rule.start, years, d)
      <3>1. PICK years \in Nat \ {0} : /\ p = 12 * years
                      /\ \A d : FollowingDate(rule, d) = NextYearly(rule.start, years, d)
        BY <2>3
      <3>2. FollowingDate(rule, after) = NextYearly(rule.start, years, after)
        BY <3>1
      <3>3. PICK k \in Nat : /\ NextYearly(rule.start, years, after) = MonthlyCandidate(rule.start, p, k)
                             /\ after < MonthlyCandidate(rule.start, p, k)
                             /\ k = 0 \/ MonthlyCandidate(rule.start, p, k - 1) <= after
        BY <1>0, <3>1, NextYearlyStep
      <3>4. Found(p, k)
        BY <3>2, <3>3
      <3>5. Months(p)
        BY <2>1
      <3> HIDE DEF Found, Months, Goal
      <3>6. Goal
        BY <1>2, <3>4, <3>5
      <3> QED BY <3>6 DEF Goal
    <2> QED BY <2>1, <2>2, <2>3
  <1> QED BY <1>1, <1>3, DateForms

(***************************************************************************)
(* The dates a rule promises, and what the three entry points answer.      *)
(***************************************************************************)
OnSchedule(rule, d) == \E k \in Nat : d = Date(rule, k)

\* Not past the end date.
Within(rule, d) == rule.end # NoDate => d <= rule.end

\* No date of a rule is before its start.
LEMMA ScheduledDate ==
  ASSUME NEW rule, Schedulable(rule), NEW d, OnSchedule(rule, d)
  PROVE  d \in Nat \ {0} /\ d >= rule.start
  <1>1. PICK k \in Nat : d = Date(rule, k)
    BY DEF OnSchedule
  <1>2. rule.start \in Nat \ {0} /\ Date(rule, 0) = rule.start /\ d \in Int
    BY <1>1, DatesRise DEF Schedulable
  <1>3. k > 0 => Date(rule, 0) < d
    BY <1>1, DatesRise
  <1> QED BY <1>1, <1>2, <1>3

\* No date of the rule is passed over, and none is answered that is not later.
LEMMA FollowingIsNext ==
  ASSUME NEW rule, Schedulable(rule), NEW after \in Int
  PROVE  /\ OnSchedule(rule, FollowingDate(rule, after))
         /\ FollowingDate(rule, after) > after
         /\ \A d : OnSchedule(rule, d) /\ d > after => FollowingDate(rule, after) <= d
  <1> DEFINE n == FollowingDate(rule, after)
  <1>1. PICK k \in Nat : n = Date(rule, k) /\ after < Date(rule, k)
                         /\ (k = 0 \/ Date(rule, k - 1) <= after)
    BY NextIsDate
  <1> HIDE DEF n
  <1>2. OnSchedule(rule, n) /\ n > after
    BY <1>1 DEF OnSchedule
  <1>3. ASSUME NEW d, OnSchedule(rule, d), d > after PROVE n <= d
    <2>1. PICK j \in Nat : d = Date(rule, j)
      BY <1>3 DEF OnSchedule
    <2>2. Date(rule, j) \in Int /\ Date(rule, k) \in Int /\ Date(rule, k - 1) \in Int
      BY DatesRise
    <2>3. j > k => Date(rule, k) < Date(rule, j)
      BY DatesRise
    <2>4. j < k - 1 => Date(rule, j) < Date(rule, k - 1)
      BY DatesRise
    <2>5. j < k => FALSE
      <3>1. j < k => Date(rule, j) <= Date(rule, k - 1)
        <4>1. j < k => j < k - 1 \/ j = k - 1
          OBVIOUS
        <4> QED BY <2>2, <2>4, <4>1
      <3>2. j < k => k # 0
        OBVIOUS
      <3> QED BY <1>1, <1>3, <2>1, <2>2, <3>1, <3>2
    <2> QED BY <1>1, <2>1, <2>2, <2>3, <2>5
  <1> QED BY <1>2, <1>3 DEF n

\* Before its start, the start is what follows.
LEMMA FollowingBeforeStart ==
  ASSUME NEW rule, Schedulable(rule), NEW after \in Int, after < rule.start
  PROVE  FollowingDate(rule, after) = rule.start
  <1>1. OnSchedule(rule, rule.start)
    BY DatesRise DEF OnSchedule
  <1>2. rule.start \in Nat
    BY DEF Schedulable
  <1>3. OnSchedule(rule, FollowingDate(rule, after))
    BY FollowingIsNext
  <1>4. FollowingDate(rule, after) <= rule.start
    BY <1>1, <1>2, FollowingIsNext
  <1>5. FollowingDate(rule, after) \in Nat /\ FollowingDate(rule, after) >= rule.start
    BY <1>3, ScheduledDate
  <1> QED BY <1>2, <1>4, <1>5

\* A date is on the schedule exactly if it follows the day before it.
LEMMA ScheduledFollows ==
  ASSUME NEW rule, Schedulable(rule), NEW d \in Int
  PROVE  OnSchedule(rule, d) <=> FollowingDate(rule, d - 1) = d
  <1>1. d - 1 \in Int /\ d > d - 1
    OBVIOUS
  <1>2. OnSchedule(rule, FollowingDate(rule, d - 1)) /\ FollowingDate(rule, d - 1) > d - 1
    BY <1>1, FollowingIsNext
  <1>3. FollowingDate(rule, d - 1) \in Int
    BY <1>2, ScheduledDate
  <1>4. OnSchedule(rule, d) => FollowingDate(rule, d - 1) <= d
    BY <1>1, FollowingIsNext
  <1> QED BY <1>2, <1>3, <1>4

\* nextAfter answers the first promised date after a date, or that there is none.
LEMMA NextAfterFirst ==
  ASSUME NEW rule, Schedulable(rule), rule.end \in Nat, NEW after \in Int
  PROVE  /\ NextAfter(rule, after) \in Nat
         /\ NextAfter(rule, after) # NoDate =>
              /\ OnSchedule(rule, NextAfter(rule, after)) /\ Within(rule, NextAfter(rule, after))
              /\ NextAfter(rule, after) > after
         /\ \A d : OnSchedule(rule, d) /\ Within(rule, d) /\ d > after =>
              NextAfter(rule, after) # NoDate /\ NextAfter(rule, after) <= d
  <1> DEFINE f == FollowingDate(rule, after)
             n == NextAfter(rule, after)
  <1>1. OnSchedule(rule, f) /\ f > after /\ f \in Nat \ {0}
    BY FollowingIsNext, ScheduledDate
  <1>2. n = IF rule.end # NoDate /\ f > rule.end THEN NoDate ELSE f
    BY DEF NextAfter, Bounded, FollowingDate
  <1>3. ASSUME NEW d, OnSchedule(rule, d), d > after PROVE f <= d /\ d \in Nat
    BY <1>3, FollowingIsNext, ScheduledDate
  <1> HIDE DEF f, n
  <1>4. n \in Nat
    BY <1>1, <1>2 DEF NoDate
  <1>5. n # NoDate => n = f /\ Within(rule, n)
    BY <1>1, <1>2 DEF Within, NoDate
  <1>6. ASSUME NEW d, OnSchedule(rule, d), Within(rule, d), d > after PROVE n # NoDate /\ n <= d
    <2>1. f <= d /\ d \in Nat
      BY <1>3, <1>6
    <2> QED BY <1>1, <1>2, <1>6, <2>1 DEF Within, NoDate
  <1>7. /\ n \in Nat
        /\ n # NoDate => OnSchedule(rule, n) /\ Within(rule, n) /\ n > after
        /\ \A d : OnSchedule(rule, d) /\ Within(rule, d) /\ d > after => n # NoDate /\ n <= d
    BY <1>1, <1>4, <1>5, <1>6
  <1> QED BY <1>7 DEF n

\* firstOnOrAfter is nextAfter of the day before.
LEMMA FirstOnOrAfterIsNext ==
  ASSUME NEW rule, Schedulable(rule), NEW minimum \in Int
  PROVE  FirstOnOrAfter(rule, minimum) = NextAfter(rule, minimum - 1)
  <1>1. rule.start \in Int /\ minimum - 1 \in Int
    BY DEF Schedulable
  <1>2. CASE rule.start >= minimum
    <2>1. minimum - 1 < rule.start
      BY <1>1, <1>2
    <2>2. FollowingDate(rule, minimum - 1) = rule.start
      BY <1>1, <2>1, FollowingBeforeStart
    <2> QED BY <1>2, <2>2 DEF FirstOnOrAfter, NextAfter, FollowingDate
  <1>3. CASE ~(rule.start >= minimum)
    BY <1>3 DEF FirstOnOrAfter
  <1> QED BY <1>2, <1>3

\* A resumed rule goes on with the first promised date whose hour is to come.
LEMMA FirstAfterInstantFirst ==
  ASSUME NEW rule, Schedulable(rule), rule.end \in Nat, rule.time \in {0, 1}, NEW instant \in Int
  PROVE  LET n == FirstAfterInstant(rule, instant) IN
         /\ n \in Nat
         /\ n # NoDate => /\ OnSchedule(rule, n) /\ Within(rule, n)
                          /\ OccursAt(rule, n) > instant
         /\ \A d : OnSchedule(rule, d) /\ Within(rule, d) /\ OccursAt(rule, d) > instant =>
              n # NoDate /\ n <= d
  <1> DEFINE today == instant \div 2
             c == NextAfter(rule, today - 1)
             m == NextAfter(rule, c)
             n == FirstAfterInstant(rule, instant)
  <1>1. today \in Int /\ 2 * today <= instant /\ instant < 2 * today + 2
    BY SMT
  <1>2. n = IF c = NoDate \/ OccursAt(rule, c) > instant THEN c ELSE m
    <2>1. FirstOnOrAfter(rule, today) = c
      BY <1>1, FirstOnOrAfterIsNext
    <2> QED BY <2>1 DEF FirstAfterInstant
  <1> HIDE DEF today
  <1>3. /\ c \in Nat
        /\ c # NoDate => OnSchedule(rule, c) /\ Within(rule, c) /\ c > today - 1
        /\ \A d : OnSchedule(rule, d) /\ Within(rule, d) /\ d > today - 1 => c # NoDate /\ c <= d
    <2>1. today - 1 \in Int
      BY <1>1
    <2> QED BY <2>1, NextAfterFirst
  <1> HIDE DEF c
  <1>4. /\ m \in Nat
        /\ m # NoDate => OnSchedule(rule, m) /\ Within(rule, m) /\ m > c
        /\ \A d : OnSchedule(rule, d) /\ Within(rule, d) /\ d > c => m # NoDate /\ m <= d
    <2>1. c \in Int
      BY <1>3
    <2> QED BY <2>1, NextAfterFirst
  <1> HIDE DEF m, n
  <1>5. \A d \in Int : OccursAt(rule, d) = 2 * d + rule.time
    BY DEF OccursAt
  <1>6. ASSUME NEW d, OnSchedule(rule, d), Within(rule, d), OccursAt(rule, d) > instant
        PROVE  n # NoDate /\ n <= d
    <2>1. d \in Nat /\ OccursAt(rule, d) = 2 * d + rule.time
      BY <1>5, <1>6, ScheduledDate
    <2>2. d > today - 1
      BY <1>1, <1>6, <2>1
    <2>3. c # NoDate /\ c <= d
      BY <1>3, <1>6, <2>2
    <2>4. CASE OccursAt(rule, c) > instant
      BY <1>2, <2>3, <2>4
    <2>5. CASE ~(OccursAt(rule, c) > instant)
      <3>1. OccursAt(rule, c) = 2 * c + rule.time
        BY <1>3, <1>5
      <3>2. d > c
        BY <1>1, <1>3, <1>6, <2>1, <2>5, <3>1
      <3>3. m # NoDate /\ m <= d
        BY <1>4, <1>6, <3>2
      <3> QED BY <1>2, <2>3, <2>5, <3>3
    <2> QED BY <2>4, <2>5
  <1>7. n # NoDate => OccursAt(rule, n) > instant
    <2>1. CASE c = NoDate \/ OccursAt(rule, c) > instant
      BY <1>2, <2>1
    <2>2. CASE c # NoDate /\ ~(OccursAt(rule, c) > instant) /\ m # NoDate
      <3>1. OccursAt(rule, m) = 2 * m + rule.time /\ m > c /\ c > today - 1 /\ n = m
        BY <1>2, <1>3, <1>4, <1>5, <2>2
      <3> QED BY <1>1, <1>3, <1>4, <3>1
    <2> QED BY <1>2, <2>1, <2>2
  <1>8. /\ n \in Nat
        /\ n # NoDate => /\ OnSchedule(rule, n) /\ Within(rule, n)
                         /\ OccursAt(rule, n) > instant
        /\ \A d : OnSchedule(rule, d) /\ Within(rule, d) /\ OccursAt(rule, d) > instant =>
             n # NoDate /\ n <= d
    <2>1. n \in Nat /\ (n # NoDate => OnSchedule(rule, n) /\ Within(rule, n))
      BY <1>2, <1>3, <1>4
    <2> QED BY <1>6, <1>7, <2>1
  <1> QED BY <1>8 DEF n
=============================================================================
