----------------------- MODULE MCRecurrenceSchedule -----------------------
(***************************************************************************)
(* Walks the cursor of one rule as its callers do, from its start date by  *)
(* NextAfter (a generated occurrence) or FirstAfterInstant (a resumed or   *)
(* edited rule), and compares it with a definition of an occurrence that   *)
(* does not compute candidates.                                            *)
(***************************************************************************)
EXTENDS RecurrenceSchedule, FiniteSets

CONSTANTS
  StartDates,   \* anchors: month ends, a leap day, an ordinary day
  Intervals,    \* interval_value
  Pauses,       \* days between the cursor and the moment a rule is resumed
  MaxSteps      \* bound: moves of the cursor

ASSUME CursorAssumption ==
  /\ StartDates \subseteq Nat \ {NoDate} /\ Intervals \subseteq Nat \ {0}
  /\ Pauses \subseteq Int /\ MaxSteps \in Nat

VARIABLES rule, cursor, now, steps

vars == <<rule, cursor, now, steps>>

Frequencies == {"DAILY", "WEEKLY", "MONTHLY", "YEARLY"}

\* An end date falls on, before or after a later occurrence, or is missing.
Ends(start) == {NoDate, start, start + 59, start + 366}

Init ==
  /\ rule \in [start: StartDates, frequency: Frequencies, every: Intervals,
               end: {NoDate}, time: {0, 1}]
       \union UNION {[start: {s}, frequency: Frequencies, every: Intervals,
                      end: Ends(s), time: {1}] : s \in StartDates}
  /\ cursor = rule.start
  /\ now = 0 /\ steps = 0

Advance ==
  /\ cursor # NoDate /\ steps < MaxSteps
  /\ cursor' = NextAfter(rule, cursor)
  /\ steps' = steps + 1 /\ now' = 0
  /\ UNCHANGED rule

Resume ==
  /\ cursor # NoDate /\ steps < MaxSteps
  /\ \E days \in Pauses, half \in {0, 1} :
       /\ now' = 2 * (cursor + days) + half
       /\ cursor' = FirstAfterInstant(rule, now')
  /\ steps' = steps + 1
  /\ UNCHANGED rule

Next == Advance \/ Resume
Spec == Init /\ [][Next]_vars

(***************************************************************************)
(* The dates the documentation promises (recurring-transaction.md:45-53).  *)
(***************************************************************************)
EveryMonths(months, d) ==
  /\ (MonthOf(d) - MonthOf(rule.start)) % months = 0
  /\ \/ DayOfMonth(d) = DayOfMonth(rule.start)
     \/ DayOfMonth(d) < DayOfMonth(rule.start) /\ MonthOf(d + 1) # MonthOf(d)

IsOccurrence(d) ==
  /\ d >= rule.start
  /\ rule.end # NoDate => d <= rule.end
  /\ CASE rule.frequency = "DAILY" -> (d - rule.start) % rule.every = 0
       [] rule.frequency = "WEEKLY" -> (d - rule.start) % (7 * rule.every) = 0
       [] rule.frequency = "MONTHLY" -> EveryMonths(rule.every, d)
       [] rule.frequency = "YEARLY" -> EveryMonths(12 * rule.every, d)

\* What is left of the rule after the cursor `from', if the cursor becomes `to'.
Between(from, to) ==
  LET last == IF to # NoDate THEN to - 1 ELSE IF rule.end # NoDate THEN rule.end ELSE from
  IN  (from + 1)..last

\* The cursor rests on dates the rule promises, never on a drifted month end or
\* past the end date, however often it advanced or was resumed.
CursorOccurs == cursor # NoDate => IsOccurrence(cursor)

\* Generating one occurrence moves the cursor to the very next one: no month
\* with fewer days and no leap year makes it jump over a promised date.
NothingSkipped ==
  [][Advance => \A d \in Between(cursor, cursor') : ~IsOccurrence(d)]_vars

\* A resumed rule continues strictly after the present moment, with the first
\* promised date whose local time is still to come.
ResumesAtFirstFuture ==
  [][Resume =>
       /\ cursor' # NoDate => OccursAt(rule, cursor') > now'
       /\ \A d \in Between(now' \div 2 - 1, cursor') :
            OccursAt(rule, d) > now' => ~IsOccurrence(d)]_vars

\* 2023-12-30, 2024-01-31, 2024-02-29 and 2096-02-29, before a year without one.
MonthEnds == {AtDay(12 * 2023 + 11, 30), AtDay(12 * 2024, 31),
              AtDay(12 * 2024 + 1, 29), AtDay(12 * 2096 + 1, 29)}
Delays == {-1, 0, 27, 400}
=============================================================================
