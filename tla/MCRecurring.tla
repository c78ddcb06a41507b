---------------------------- MODULE MCRecurring ----------------------------
(***************************************************************************)
(* Instances of Recurring for TLC.                                         *)
(***************************************************************************)
EXTENDS Recurring, TLC

Symmetry == Permutations(Workers) \union Permutations(Users)

Expense(a) == [type |-> "EXPENSE", amount |-> 1, note |-> CHOOSE n \in Notes : TRUE,
               from |-> a, to |-> a]
Transfer(a, b) == [Expense(a) EXCEPT !.type = "TRANSFER", !.to = b]

Daily(every, start, end, time, active, category, posting) ==
  [frequency |-> "DAILY", every |-> every, start |-> start, end |-> end, time |-> time,
   active |-> active, category |-> category, posting |-> posting]

\* Mornings or evenings, daily or every other day, with and without an end,
\* running and paused, and another amount.
Schedules ==
  {Daily(1, 1, NoDate, 0, TRUE, 1, Expense(1)),
   Daily(1, 1, NoDate, 0, FALSE, 1, Expense(1)),
   Daily(2, 1, NoDate, 1, TRUE, 1, Expense(1)),
   Daily(1, 1, 2, 0, TRUE, 1, [Expense(1) EXCEPT !.amount = 2])}

\* Two rules that compete for a batch of one.
TwoSchedules == {Daily(1, 1, NoDate, 0, TRUE, 1, Expense(1)), Daily(1, 1, 1, 1, TRUE, 1, Expense(1))}

\* One schedule; what varies is whom the rule posts to, and whether it runs.
References ==
  {Daily(1, 1, 1, 0, TRUE, 1, Expense(1)), Daily(1, 1, 1, 0, FALSE, 1, Expense(1)),
   Daily(1, 1, 1, 0, TRUE, NoCategory, Transfer(2, 1))}

None == {}
MoveOrArchive == [group: {1}, archived: BOOLEAN]
ArchiveOrReclassify == {[kind |-> "ASSET", archived |-> TRUE], [kind |-> "LOAN", archived |-> FALSE]}
=============================================================================
