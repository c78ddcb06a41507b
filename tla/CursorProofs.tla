---------------------------- MODULE CursorProofs ----------------------------
(***************************************************************************)
(* Theorems about the walk of MCRecurrenceSchedule, for every set of       *)
(* anchors, intervals and pauses: the cursor rests on promised dates,      *)
(* skips none and resumes with the first that is still to come.            *)
(***************************************************************************)
EXTENDS MCRecurrenceSchedule, RecurrenceProofs

(***************************************************************************)
(* The promise of the documentation, without candidates, is the sequence   *)
(* of dates that the code computes.                                        *)
(***************************************************************************)
\* What is known of the rule that is walked.
RuleTyped ==
  /\ rule.start \in Nat \ {0} /\ rule.every \in Nat \ {0} /\ rule.frequency \in Frequencies
  /\ rule.end \in Nat /\ rule.time \in {0, 1}

\* The dates that lie a multiple of days after an anchor.
LEMMA Multiples ==
  ASSUME NEW start \in Int, NEW p \in Nat \ {0}, NEW d \in Int
  PROVE  (\E k \in Nat : d = start + k * p) <=> d >= start /\ (d - start) % p = 0
  <1>1. ASSUME NEW k \in Nat, d = start + k * p PROVE d >= start /\ (d - start) % p = 0
    <2>1. k * p \in Nat /\ (k * p) % p = 0
      BY SMT
    <2>2. d - start = k * p
      BY <1>1, <2>1
    <2> QED BY <1>1, <2>1, <2>2
  <1>2. ASSUME d >= start, (d - start) % p = 0 PROVE \E k \in Nat : d = start + k * p
    <2> DEFINE n == d - start
               k == n \div p
    <2>1. n \in Nat /\ n % p = 0
      BY <1>2
    <2> HIDE DEF n
    <2>2. k \in Nat /\ n = k * p
      BY <2>1, SMT
    <2>3. d = start + n
      BY DEF n
    <2> HIDE DEF k
    <2> QED BY <2>2, <2>3
  <1> QED BY <1>1, <1>2

\* A candidate is the anchor's day, or the last day of a shorter month.
LEMMA CandidateIsDay ==
  ASSUME NEW start \in Int, NEW p \in Nat \ {0}, NEW k \in Nat
  PROVE  LET d == MonthlyCandidate(start, p, k) IN
         /\ d \in Int /\ d >= start
         /\ (MonthOf(d) - MonthOf(start)) % p = 0
         /\ \/ DayOfMonth(d) = DayOfMonth(start)
            \/ DayOfMonth(d) < DayOfMonth(start) /\ MonthOf(d + 1) # MonthOf(d)
  <1> DEFINE d == MonthlyCandidate(start, p, k)
             b == MonthOf(start)
             m == MonthOf(start) + k * p
             day == DayOfMonth(start)
             length == LengthOfMonth(m)
  <1>0. p \in Int /\ k \in Int /\ b \in Int
    BY MonthOfDate
  <1>1. /\ d \in Int /\ m \in Int /\ MonthOf(d) = m
        /\ DayOfMonth(d) = Earlier(day, length)
    BY <1>0, CandidateInMonth, Zenon
  <1>2. day \in Int
    <2>1. LengthOfMonth(b) \in 28..31
      BY <1>0, MonthLength
    <2> QED BY <2>1, DayInMonth
  <1>3. d >= start
    <2>1. MonthlyCandidate(start, p, 0) = start
      BY <1>0, FirstCandidate
    <2>2. k > 0 => MonthlyCandidate(start, p, 0) < d
      BY <1>0, CandidatesRise
    <2> HIDE DEF d
    <2>3. k = 0 => d = start
      BY <2>1 DEF d
    <2> QED BY <1>1, <2>1, <2>2, <2>3
  <1>4. (MonthOf(d) - b) % p = 0
    <2>1. k * p \in Nat /\ (k * p) % p = 0
      BY SMT
    <2>2. m - b = k * p
      BY <1>0, <2>1
    <2> QED BY <1>1, <2>1, <2>2
  <1>5. length \in 28..31 /\ AtDay(m + 1, 1) = AtDay(m, 1) + length
    BY <1>1, MonthLength
  <1>6. d = AtDay(m, 1) + DayOfMonth(d) - 1 /\ AtDay(m, 1) \in Int
    BY <1>1, DayInMonth, MonthStart
  <1>7. ASSUME DayOfMonth(d) = length PROVE MonthOf(d + 1) # MonthOf(d)
    <2>1. d + 1 \in Int /\ AtDay(MonthOf(d + 1), 1) <= d + 1 /\ d + 1 < AtDay(MonthOf(d + 1) + 1, 1)
      BY <1>1, MonthOfDate
    <2> HIDE DEF d, m, length
    <2> QED BY <1>1, <1>5, <1>6, <1>7, <2>1
  <1> HIDE DEF d, m, b, day, length
  <1>8. \/ DayOfMonth(d) = day
        \/ DayOfMonth(d) < day /\ MonthOf(d + 1) # MonthOf(d)
    BY <1>1, <1>2, <1>5, <1>7 DEF Earlier
  <1> QED BY <1>1, <1>3, <1>4, <1>8 DEF d, b, day

\* And there is no other such date from the anchor on.
LEMMA DayIsCandidate ==
  ASSUME NEW start \in Int, NEW p \in Nat \ {0}, NEW d \in Int, d >= start,
         (MonthOf(d) - MonthOf(start)) % p = 0,
         \/ DayOfMonth(d) = DayOfMonth(start)
         \/ DayOfMonth(d) < DayOfMonth(start) /\ MonthOf(d + 1) # MonthOf(d)
  PROVE  \E k \in Nat : d = MonthlyCandidate(start, p, k)
  <1> DEFINE m == MonthOf(d)
             b == MonthOf(start)
             k == (m - b) \div p
             day == DayOfMonth(start)
             length == LengthOfMonth(m)
  <1>1. m \in Int /\ b \in Int /\ b <= m
    BY MonthOfDate, MonthsFollowDates
  <1>2. k \in Nat /\ m = b + k * p
    <2> DEFINE n == m - b
    <2>1. n \in Nat /\ n % p = 0 /\ m = b + n
      BY <1>1
    <2> HIDE DEF n
    <2>2. n \div p \in Nat /\ n = (n \div p) * p
      BY <2>1, SMT
    <2>3. k = n \div p
      BY DEF n
    <2> HIDE DEF k, m, b
    <2> QED BY <1>1, <2>1, <2>2, <2>3
  <1>3. /\ length \in 28..31 /\ AtDay(m, 1) \in Int
        /\ AtDay(m + 1, 1) = AtDay(m, 1) + length
    <2>1. AtDay(m, 1) \in Int
      BY <1>1, MonthStart
    <2>2. length \in 28..31 /\ AtDay(m + 1, 1) = AtDay(m, 1) + length
      BY <1>1, MonthLength
    <2> QED BY <2>1, <2>2
  <1>4. DayOfMonth(d) \in 1..length /\ d = AtDay(m, 1) + DayOfMonth(d) - 1
    BY DayInMonth
  <1>5. day \in Int
    <2>1. LengthOfMonth(b) \in 28..31
      BY <1>1, MonthLength
    <2> QED BY <2>1, DayInMonth
  <1>6. MonthOf(d + 1) # m => DayOfMonth(d) = length
    <2>1. ASSUME DayOfMonth(d) < length PROVE MonthOf(d + 1) = m
      <3>1. AtDay(m, 1) <= d + 1 /\ d + 1 < AtDay(m + 1, 1) /\ d + 1 \in Int
        <4> HIDE DEF m, length
        <4> QED BY <1>3, <1>4, <2>1
      <3> QED BY <1>1, <3>1, MonthUnique
    <2> HIDE DEF m, length
    <2> QED BY <1>3, <1>4, <2>1
  <1>7. Earlier(day, length) = DayOfMonth(d)
    <2>1. DayOfMonth(d) = day \/ (DayOfMonth(d) < day /\ DayOfMonth(d) = length)
      BY <1>6
    <2> HIDE DEF day, length
    <2> QED BY <1>3, <1>4, <1>5, <2>1 DEF Earlier
  <1>8. MonthlyCandidate(start, p, k) = AtDay(m, DayOfMonth(d))
    BY <1>2, <1>7 DEF MonthlyCandidate
  <1> HIDE DEF k, m, length
  <1>9. AtDay(m, DayOfMonth(d)) = d
    BY <1>1, <1>3, <1>4, DaysApart
  <1> QED BY <1>2, <1>8, <1>9

\* EveryMonths describes the dates of a rule of months.
LEMMA EveryMonthsDates ==
  ASSUME rule.start \in Int, NEW p \in Nat \ {0}, NEW d \in Int
  PROVE  d >= rule.start /\ EveryMonths(p, d)
           <=> \E k \in Nat : d = MonthlyCandidate(rule.start, p, k)
  <1>1. ASSUME NEW k \in Nat, d = MonthlyCandidate(rule.start, p, k)
        PROVE  d >= rule.start /\ EveryMonths(p, d)
    <2>1. LET c == MonthlyCandidate(rule.start, p, k) IN
         /\ c \in Int /\ c >= rule.start
         /\ (MonthOf(c) - MonthOf(rule.start)) % p = 0
         /\ \/ DayOfMonth(c) = DayOfMonth(rule.start)
            \/ DayOfMonth(c) < DayOfMonth(rule.start) /\ MonthOf(c + 1) # MonthOf(c)
      BY CandidateIsDay
    <2> QED BY <1>1, <2>1 DEF EveryMonths
  <1>2. ASSUME d >= rule.start, EveryMonths(p, d)
        PROVE  \E k \in Nat : d = MonthlyCandidate(rule.start, p, k)
    BY <1>2, DayIsCandidate DEF EveryMonths
  <1> QED BY <1>1, <1>2

\* The promised dates are those of the schedule up to the end date.
LEMMA OccurrencesAreDates ==
  ASSUME RuleTyped, NEW d \in Int
  PROVE  IsOccurrence(d) <=> OnSchedule(rule, d) /\ Within(rule, d)
  <1> USE DEF RuleTyped
  <1>0. rule.start \in Int /\ rule.every \in Nat \ {0}
    OBVIOUS
  <1>1. CASE rule.frequency = "DAILY"
    <2>1. OnSchedule(rule, d) <=> d >= rule.start /\ (d - rule.start) % rule.every = 0
      BY <1>1, Multiples DEF OnSchedule, Date
    <2> QED BY <1>1, <2>1 DEF IsOccurrence, Within
  <1>2. CASE rule.frequency = "WEEKLY"
    <2> DEFINE p == rule.every * 7
    <2>1. p \in Nat \ {0} /\ p = 7 * rule.every
      OBVIOUS
    <2>2. OnSchedule(rule, d) <=> \E k \in Nat : d = rule.start + k * p
      BY <1>2 DEF OnSchedule, Date
    <2> HIDE DEF p
    <2>3. OnSchedule(rule, d) <=> d >= rule.start /\ (d - rule.start) % p = 0
      BY <1>0, <2>1, <2>2, Multiples
    <2> QED BY <1>2, <2>1, <2>3 DEF IsOccurrence, Within
  <1>3. CASE rule.frequency = "MONTHLY"
    <2>1. OnSchedule(rule, d) <=> d >= rule.start /\ EveryMonths(rule.every, d)
      BY <1>0, <1>3, EveryMonthsDates DEF OnSchedule, Date
    <2> QED BY <1>3, <2>1 DEF IsOccurrence, Within
  <1>4. CASE rule.frequency = "YEARLY"
    <2> DEFINE p == 12 * rule.every
    <2>1. p \in Nat \ {0}
      OBVIOUS
    <2>2. \A k \in Nat : YearlyCandidate(rule.start, rule.every, k) = MonthlyCandidate(rule.start, p, k)
      BY <1>0, YearsAreMonths
    <2>3. OnSchedule(rule, d) <=> \E k \in Nat : d = MonthlyCandidate(rule.start, p, k)
      BY <1>4, <2>2 DEF OnSchedule, Date
    <2>4. IsOccurrence(d) <=> d >= rule.start /\ Within(rule, d) /\ EveryMonths(p, d)
      BY <1>4 DEF IsOccurrence, Within
    <2> HIDE DEF p
    <2> QED BY <1>0, <2>1, <2>3, <2>4, EveryMonthsDates
  <1> QED BY <1>1, <1>2, <1>3, <1>4 DEF Frequencies

(***************************************************************************)
(* The walk.                                                               *)
(***************************************************************************)
\* The rule is one that the table admits, and the cursor one of its dates.
IInv ==
  /\ RuleTyped
  /\ cursor \in Nat
  /\ cursor # NoDate => OnSchedule(rule, cursor) /\ Within(rule, cursor)

\* The lemmas about schedules apply to the rule.
LEMMA RuleSchedulable ==
  ASSUME RuleTyped
  PROVE  Schedulable(rule) /\ rule.end \in Nat /\ rule.time \in {0, 1}
  BY DEF RuleTyped, Schedulable, Frequencies

\* Every rule starts on a date that it promises.
LEMMA InitIInv == Init => IInv
  <1> SUFFICES ASSUME Init PROVE IInv
    OBVIOUS
  <1>1. PICK s \in StartDates :
          /\ rule.start = s /\ rule.every \in Intervals /\ rule.frequency \in Frequencies
          /\ rule.end \in {NoDate, s, s + 59, s + 366} /\ rule.time \in {0, 1}
    BY DEF Init, Ends
  <1>2. s \in Nat \ {0} /\ Intervals \subseteq Nat \ {0}
    BY CursorAssumption DEF NoDate
  <1>3. RuleTyped
    <2>1. rule.start \in Nat \ {0} /\ rule.every \in Nat \ {0}
      BY <1>1, <1>2
    <2>2. rule.end \in Nat
      BY <1>1, <1>2 DEF NoDate
    <2> QED BY <1>1, <2>1, <2>2 DEF RuleTyped
  <1>4. Within(rule, rule.start)
    BY <1>1, <1>2 DEF Within, NoDate
  <1>5. OnSchedule(rule, rule.start)
    BY <1>3, RuleSchedulable, DatesRise DEF OnSchedule
  <1>6. cursor = rule.start /\ rule.start \in Nat
    BY <1>1, <1>2 DEF Init
  <1> QED BY <1>3, <1>4, <1>5, <1>6 DEF IInv

\* The cursor moves to a promised date, or to none.
LEMMA NextIInv ==
  ASSUME IInv, [Next]_vars
  PROVE  IInv'
  <1>1. Schedulable(rule) /\ rule.end \in Nat /\ rule.time \in {0, 1} /\ RuleTyped
    BY RuleSchedulable DEF IInv
  <1>2. CASE Advance
    <2>1. cursor' = NextAfter(rule, cursor) /\ rule' = rule /\ cursor \in Int
      BY <1>2 DEF Advance, IInv
    <2>2. /\ cursor' \in Nat
          /\ cursor' # NoDate => OnSchedule(rule, cursor') /\ Within(rule, cursor')
      BY <1>1, <2>1, NextAfterFirst
    <2> QED BY <1>1, <2>1, <2>2 DEF IInv, RuleTyped, OnSchedule, Within
  <1>3. CASE Resume
    <2>1. cursor' = FirstAfterInstant(rule, now') /\ rule' = rule /\ now' \in Int
      BY <1>3, CursorAssumption DEF Resume, IInv
    <2>2. /\ cursor' \in Nat
          /\ cursor' # NoDate => OnSchedule(rule, cursor') /\ Within(rule, cursor')
      BY <1>1, <2>1, FirstAfterInstantFirst
    <2> QED BY <1>1, <2>1, <2>2 DEF IInv, RuleTyped, OnSchedule, Within
  <1>4. CASE UNCHANGED vars
    BY <1>4 DEF vars, IInv, RuleTyped, OnSchedule, Within
  <1> QED BY <1>2, <1>3, <1>4 DEF Next

\* The invariant holds throughout the walk.
LEMMA CursorInvariant == Spec => []IInv
  BY InitIInv, NextIInv, PTL DEF Spec

\* The cursor rests on a date that the rule promises, for every anchor,
\* interval, frequency and end date: whatever the lengths of months and years,
\* nextAfter and firstAfterInstant never drift and never pass the end.
THEOREM CursorAlwaysOccurs == Spec => []CursorOccurs
  <1>1. IInv => CursorOccurs
    <2> SUFFICES ASSUME IInv, cursor # NoDate PROVE IsOccurrence(cursor)
      BY DEF CursorOccurs
    <2>1. cursor \in Int /\ RuleTyped /\ OnSchedule(rule, cursor) /\ Within(rule, cursor)
      BY DEF IInv
    <2> QED BY <2>1, OccurrencesAreDates
  <1> QED BY <1>1, CursorInvariant, PTL

\* Generating an occurrence moves the cursor to the very next promised date.
THEOREM NothingEverSkipped == Spec => NothingSkipped
  <1>1. ASSUME IInv, [Next]_vars
        PROVE  [Advance => \A d \in Between(cursor, cursor') : ~IsOccurrence(d)]_vars
    <2> SUFFICES ASSUME Advance, NEW d \in Between(cursor, cursor'), IsOccurrence(d)
                 PROVE  FALSE
      OBVIOUS
    <2>1. /\ cursor' = NextAfter(rule, cursor) /\ cursor \in Int
          /\ Schedulable(rule) /\ rule.end \in Nat /\ RuleTyped
      BY <1>1, RuleSchedulable DEF Advance, IInv
    <2>2. /\ cursor' \in Nat
          /\ \A e : OnSchedule(rule, e) /\ Within(rule, e) /\ e > cursor =>
               cursor' # NoDate /\ cursor' <= e
      BY <2>1, NextAfterFirst
    <2>3. d \in Int /\ d > cursor /\ (cursor' # NoDate => d < cursor')
      BY <2>1, <2>2 DEF Between
    <2>4. OnSchedule(rule, d) /\ Within(rule, d)
      BY <2>1, <2>3, OccurrencesAreDates
    <2> QED BY <2>2, <2>3, <2>4
  <1> QED BY <1>1, CursorInvariant, PTL DEF Spec, NothingSkipped

\* A resumed rule continues with the first promised date whose local time is
\* still to come.
THEOREM AlwaysResumesAtFirstFuture == Spec => ResumesAtFirstFuture
  <1>1. ASSUME IInv, [Next]_vars
        PROVE  [Resume =>
                 /\ cursor' # NoDate => OccursAt(rule, cursor') > now'
                 /\ \A d \in Between(now' \div 2 - 1, cursor') :
                      OccursAt(rule, d) > now' => ~IsOccurrence(d)]_vars
    <2> SUFFICES ASSUME Resume
                 PROVE  /\ cursor' # NoDate => OccursAt(rule, cursor') > now'
                        /\ \A d \in Between(now' \div 2 - 1, cursor') :
                             OccursAt(rule, d) > now' => ~IsOccurrence(d)
      OBVIOUS
    <2>1. /\ cursor' = FirstAfterInstant(rule, now') /\ now' \in Int
          /\ Schedulable(rule) /\ rule.end \in Nat /\ rule.time \in {0, 1} /\ RuleTyped
      BY <1>1, RuleSchedulable, CursorAssumption DEF Resume, IInv
    <2>2. /\ cursor' \in Nat
          /\ cursor' # NoDate => OccursAt(rule, cursor') > now'
          /\ \A e : OnSchedule(rule, e) /\ Within(rule, e) /\ OccursAt(rule, e) > now' =>
               cursor' # NoDate /\ cursor' <= e
      BY <2>1, FirstAfterInstantFirst
    <2>3. ASSUME NEW d \in Between(now' \div 2 - 1, cursor'), OccursAt(rule, d) > now',
                 IsOccurrence(d)
          PROVE  FALSE
      <3> DEFINE from == now' \div 2 - 1
      <3>1. from \in Int /\ d \in Between(from, cursor')
        BY <2>1, <2>3
      <3> HIDE DEF from
      <3>2. d \in Int /\ (cursor' # NoDate => d < cursor')
        BY <2>1, <2>2, <3>1 DEF Between
      <3>3. OnSchedule(rule, d) /\ Within(rule, d)
        BY <2>1, <2>3, <3>2, OccurrencesAreDates
      <3> QED BY <2>2, <2>3, <3>2, <3>3
    <2> QED BY <2>2, <2>3
  <1> QED BY <1>1, CursorInvariant, PTL DEF Spec, ResumesAtFirstFuture
=============================================================================
