----------------------------- MODULE Recurring -----------------------------
(***************************************************************************)
(* Recurring rules: the scheduler's workers (RecurringGenerationService    *)
(* and RecurringOccurrenceProcessor) beside the requests that create and   *)
(* edit rules, categories, groups and accounts, over PostgreSQL at READ    *)
(* COMMITTED. A step is a row lock, an unlocked read that decides          *)
(* something, or a commit, which publishes the writes and frees the locks. *)
(***************************************************************************)
EXTENDS RecurrenceSchedule, LedgerRules, Sequences

CONSTANTS
  Rules,            \* identifiers of the rows of recurring_transactions
  Categories,       \* identifiers of categories
  Groups,           \* identifiers of category groups
  Workers,          \* polls that may overlap: two instances, a restart
  Users,            \* sessions of concurrent requests
  NoHolder,         \* the holder of a free lock
  Templates,        \* rule contents that requests ask for, a subset of Template
  CategoryChanges,  \* the [group, archived] contents of category PATCHes
  GroupChanges,     \* the archived flags of group PATCHes
  AccountChanges,   \* the AccountRow contents of account PATCHes
  Batch,            \* our-ledger.recurring.scheduler.batch-size
  LastInstant,      \* bound: the clock stops here
  MaxVersion,       \* bound: a rule at this version is not edited again
  MaxFaults         \* bound: statement failures and crashes of workers

NoGroup == 0
NoCategory == 0
Dates == 1..(LastInstant \div 2)
Sessions == Workers \union Users

Frequencies == {"DAILY", "WEEKLY", "MONTHLY", "YEARLY"}

Template == [frequency: Frequencies, every: Nat \ {0}, start: Dates, end: Dates \union {NoDate},
             time: {0, 1}, active: BOOLEAN, category: Categories \union {NoCategory},
             posting: Posting]

ASSUME RecurringIdsAssumption ==
  /\ Rules \subseteq Nat /\ IsFiniteSet(Rules)
  /\ Groups \subseteq Nat \ {NoGroup} /\ Categories \subseteq Nat \ {NoCategory}
ASSUME RecurringSessionAssumption ==
  /\ IsFiniteSet(Workers) /\ IsFiniteSet(Users)
  /\ Workers \intersect Users = {} /\ NoHolder \notin Sessions
ASSUME TemplatesAssumption ==
  /\ Templates \subseteq Template /\ Templates # {}
  /\ CategoryChanges \subseteq [group: Groups \union {NoGroup}, archived: BOOLEAN]
  /\ GroupChanges \subseteq BOOLEAN
  /\ AccountChanges \subseteq [kind: Kinds, archived: BOOLEAN]
ASSUME RecurringBoundsAssumption ==
  Batch \in Nat \ {0} /\ LastInstant \in Nat \ {0, 1} /\ MaxVersion \in Nat /\ MaxFaults \in Nat

VARIABLES
  clock,       \* the instant now
  rules,       \* committed rows of recurring_transactions and their accounts
  generated,   \* the transaction generated for each rule and date, or NoTransaction
  categories,  \* committed rows of categories
  groups,      \* committed archived flags of category_groups
  accounts,    \* committed rows of accounts
  holder,      \* the session holding each row lock, or NoHolder
  worker,      \* what each poll has read and still has to do
  user,        \* the request of each session
  faults,      \* failures so far
  since        \* history: the cursor of each rule as its last edit left it

vars == <<clock, rules, generated, categories, groups, accounts, holder, worker, user,
          faults, since>>
references == <<categories, groups, accounts>>

NoTransaction == [status |-> "ABSENT"]

\* Any template will do for an identifier not used yet.
AbsentRule == [content |-> CHOOSE t \in Templates : TRUE, present |-> FALSE,
               next |-> NoDate, version |-> 0]

RuleRow == [content: Template, present: BOOLEAN, next: Nat, version: Nat]
Generated == {NoTransaction} \union [status: {"ACTIVE", "DELETED"}, posting: Posting]

Rows(kind, ids) == {kind} \X ids
Lockable == UNION {Rows("rule", Rules), Rows("category", Categories), Rows("group", Groups),
                   Rows("account", Accounts)}

IdleWorker == [pc |-> "idle", now |-> 0, queue |-> <<>>, advanced |-> 0,
               rule |-> 0, row |-> AbsentRule]
IdleUser == [pc |-> "idle", now |-> 0, req |-> [op |-> "none"]]

Init ==
  /\ clock = OccursAt([time |-> 0], 1)
  /\ rules = [r \in Rules |-> AbsentRule]
  /\ generated = [r \in Rules |-> [d \in Dates |-> NoTransaction]]
  /\ categories = [c \in Categories |-> [group |-> NoGroup, archived |-> FALSE]]
  /\ groups = [g \in Groups |-> FALSE]
  /\ accounts = [a \in Accounts |-> [kind |-> "ASSET", archived |-> FALSE]]
  /\ holder = [x \in Lockable |-> NoHolder]
  /\ worker = [w \in Workers |-> IdleWorker]
  /\ user = [u \in Users |-> IdleUser]
  /\ faults = 0
  /\ since = [r \in Rules |-> NoDate]

Unlocked(s) == [x \in Lockable |-> IF holder[x] = s THEN NoHolder ELSE holder[x]]

(***************************************************************************)
(* What a posting refers to.                                               *)
(***************************************************************************)
CategoryUsable(c) ==
  \/ c = NoCategory
  \/ /\ ~categories[c].archived
     /\ categories[c].group # NoGroup => ~groups[categories[c].group]

\* The cursor still has something to post.
Pending(row) == row.present /\ row.content.active /\ row.next # NoDate

Due(row, now) == Pending(row) /\ OccursAt(row.content, row.next) <= now

(***************************************************************************)
(* Row locks are requested one by one in one order: rule, category, its    *)
(* group, accounts by identifier.                                          *)
(***************************************************************************)
Rank(x) == CASE x[1] = "rule" -> 1 [] x[1] = "category" -> 2
             [] x[1] = "group" -> 3 [] x[1] = "account" -> 4

Before(x, y) == Rank(x) < Rank(y) \/ (Rank(x) = Rank(y) /\ x[2] < y[2])

\* lockCategoryAndGroup and validatePosting: the group is known from the
\* category's row, which is locked by then.
TemplateLocks(t) ==
  LET c == t.category
      g == IF c = NoCategory THEN NoGroup ELSE categories[c].group
  IN  Rows("category", {c} \ {NoCategory}) \union Rows("group", {g} \ {NoGroup})
        \union Rows("account", AccountsOf(t.posting))

Wanted(s) ==
  IF s \in Workers
  THEN IF worker[s].pc = "lock" THEN Rows("account", AccountsOf(worker[s].row.content.posting))
                                ELSE {}
  ELSE LET q == user[s].req
       IN  CASE q.op = "create" -> TemplateLocks(q.content)
             [] q.op = "update" -> Rows("rule", {q.rule}) \union TemplateLocks(q.content)
             [] q.op = "category" -> Rows("category", {q.category})
                                       \union Rows("group", {q.content.group} \ {NoGroup})
             [] q.op = "group" -> Rows("group", {q.group})
             [] q.op = "account" -> Rows("account", {q.account})
             [] OTHER -> {}

Missing(s) == {x \in Wanted(s) : holder[x] # s}

\* Mutated form: a category PATCH locks the new group before the category.
IsNextLockGroupFirst(s, x) ==
  /\ x \in Missing(s)
  /\ IF s \in Users /\ user[s].req.op = "category"
     THEN \A y \in Missing(s) : x = y \/ Before(y, x)
     ELSE \A y \in Missing(s) : x = y \/ Before(x, y)

IsNextLock(s, x) == x \in Missing(s) /\ \A y \in Missing(s) : x = y \/ Before(x, y)

(***************************************************************************)
(* The end of a request's transaction, and its arrival. `now' is the       *)
(* clock as read before the rule is locked; `shown' is the rule its client *)
(* was shown, of which the request carries the version.                    *)
(***************************************************************************)
EndRequest(u) ==
  /\ holder' = Unlocked(u)
  /\ user' = [user EXCEPT ![u] = IdleUser]
  /\ UNCHANGED <<clock, worker, faults>>

Reject(u) == EndRequest(u) /\ UNCHANGED <<rules, generated, references, since>>

\* A failed statement, a lost connection or a dead backend, at any moment.
Rollback(u) == user[u].pc # "idle" /\ Reject(u)

Arrive(u, req) ==
  /\ user[u].pc = "idle"
  /\ user' = [user EXCEPT ![u] = [pc |-> "lock", now |-> clock, req |-> req]]
  /\ UNCHANGED <<clock, rules, generated, references, holder, worker, faults, since>>

\* validateRequest, as far as it relates dates.
ValidDates(t, now, newStart) ==
  /\ newStart => t.start >= now \div 2
  /\ t.end # NoDate => t.end >= t.start

\* Bound: a create is only begun while an identifier is left for it.
IdLeft == Cardinality({r \in Rules : ~rules[r].present})
            > Cardinality({u \in Users : user[u].req.op = "create"})

BeginCreate(u) ==
  \E t \in Templates :
    IdLeft /\ ValidDates(t, clock, TRUE) /\ Arrive(u, [op |-> "create", content |-> t])

BeginUpdate(u) ==
  \E r \in Rules, t \in Templates :
    /\ rules[r].present /\ rules[r].version < MaxVersion
    /\ Arrive(u, [op |-> "update", rule |-> r, content |-> t, shown |-> rules[r]])

BeginCategory(u) ==
  \E c \in Categories, x \in CategoryChanges :
    Arrive(u, [op |-> "category", category |-> c, content |-> x])

BeginGroup(u) ==
  \E g \in Groups, x \in GroupChanges :
    Arrive(u, [op |-> "group", group |-> g, archived |-> x])

BeginAccount(u) ==
  \E a \in Accounts, x \in AccountChanges :
    Arrive(u, [op |-> "account", account |-> a, content |-> x])

Begin(u) == \/ BeginCreate(u) \/ BeginUpdate(u) \/ BeginCategory(u)
            \/ BeginGroup(u) \/ BeginAccount(u)

(***************************************************************************)
(* Acquiring a lock: the row is read as last committed and the checks that *)
(* follow this lock in the handler are made.                               *)
(***************************************************************************)
EditsRule(u) == user[u].req.op \in {"create", "update"}

\* Mutated form: the category's own flag is all that is looked at.
PassesOwnCategoryOnly(u, x) ==
  LET q == user[u].req
  IN  CASE x[1] = "rule" ->
             /\ rules[x[2]].version = q.shown.version
             /\ ValidDates(q.content, user[u].now, q.content.start # rules[x[2]].content.start)
        [] x[1] = "category" -> EditsRule(u) => ~categories[x[2]].archived
        [] x[1] = "account" ->
             EditsRule(u) /\ Missing(u) = {x} => PostingAllowed(q.content.posting, accounts)
        [] OTHER -> TRUE

Passes(u, x) ==
  LET q == user[u].req
  IN  CASE x[1] = "rule" ->
             /\ rules[x[2]].version = q.shown.version
             /\ ValidDates(q.content, user[u].now, q.content.start # rules[x[2]].content.start)
        [] x[1] = "category" ->
             EditsRule(u) /\ categories[x[2]].group = NoGroup => CategoryUsable(x[2])
        [] x[1] = "group" -> CASE EditsRule(u) -> CategoryUsable(q.content.category)
                               [] q.op = "category" -> ~groups[x[2]] \/ q.content.archived
                               [] OTHER -> TRUE
        [] x[1] = "account" ->
             EditsRule(u) /\ Missing(u) = {x} => PostingAllowed(q.content.posting, accounts)

LockRow(u) ==
  \E x \in Lockable :
    /\ IsNextLock(u, x) /\ holder[x] = NoHolder
    /\ IF Passes(u, x)
       THEN /\ holder' = [holder EXCEPT ![x] = u]
            /\ UNCHANGED <<clock, rules, generated, references, worker, user, faults, since>>
       ELSE Reject(u)

Locked(u, op) == user[u].pc = "lock" /\ user[u].req.op = op /\ Missing(u) = {}

(***************************************************************************)
(* RecurringReferenceGuard reads the committed rules without locking them. *)
(***************************************************************************)
RoleSupported(p, a, kind) ==
  IF p.type = "TRANSFER" THEN a = p.from => kind = "ASSET" ELSE PrimarySupported(p.type, kind)

CategoryInUse(c) == \E r \in Rules : Pending(rules[r]) /\ rules[r].content.category = c

GroupInUse(g) ==
  \E c \in Categories : categories[c].group = g /\ CategoryInUse(c)

AccountInUse(a, new) ==
  \E r \in Rules :
    /\ Pending(rules[r]) /\ a \in AccountsOf(rules[r].content.posting)
    /\ new.archived \/ ~RoleSupported(rules[r].content.posting, a, new.kind)

\* rejectPostingClassificationChange: entries of deleted transactions count.
Classified(a, new) ==
  /\ new.kind # accounts[a].kind
  /\ \E r \in Rules, d \in Dates :
       generated[r][d] # NoTransaction /\ a \in AccountsOf(generated[r][d].posting)

Refused(u) ==
  LET q == user[u].req
  IN  CASE q.op = "category" ->
             q.content.archived /\ ~categories[q.category].archived /\ CategoryInUse(q.category)
        [] q.op = "group" -> q.archived /\ ~groups[q.group] /\ GroupInUse(q.group)
        [] q.op = "account" -> AccountInUse(q.account, q.content) \/ Classified(q.account, q.content)

ReadUsage(u) ==
  /\ \E op \in {"category", "group", "account"} : Locked(u, op)
  /\ IF Refused(u)
     THEN Reject(u)
     ELSE /\ user' = [user EXCEPT ![u].pc = "commit"]
          /\ UNCHANGED <<clock, rules, generated, references, holder, worker, faults, since>>

(***************************************************************************)
(* Commits of requests.                                                    *)
(***************************************************************************)
CommitCreate(u) ==
  LET t == user[u].req.content
  IN  /\ Locked(u, "create")
      /\ \E r \in Rules :
           /\ ~rules[r].present /\ \A q \in Rules : ~rules[q].present => r <= q
           /\ rules' = [rules EXCEPT ![r] = [content |-> t, present |-> TRUE, version |-> 0,
                                             next |-> Bounded(t.start, t.end)]]
           /\ since' = [since EXCEPT ![r] = Bounded(t.start, t.end)]
      /\ EndRequest(u)
      /\ UNCHANGED <<generated, references>>

ScheduleChanged(old, t) ==
  \/ old.frequency # t.frequency \/ old.every # t.every
  \/ old.start # t.start \/ old.time # t.time

\* The cursor is still good under the requested end date.
CursorWithin(row, t) == row.next # NoDate /\ (t.end = NoDate \/ row.next <= t.end)

\* Whether the edit computes the cursor anew.
Recomputed(row, t) ==
  /\ t.active
  /\ \/ ~row.content.active
     \/ ScheduleChanged(row.content, t)
     \/ row.content.end # t.end /\ ~CursorWithin(row, t)

\* Mutated form: an edited schedule keeps its cursor.
NextDateAfterUpdateKeepingCursor(row, t, now) ==
  IF t.active /\ ~row.content.active THEN FirstAfterInstant(t, now) ELSE row.next

NextDateAfterUpdate(row, t, now) ==
  IF Recomputed(row, t) THEN FirstAfterInstant(t, now) ELSE row.next

\* CHECK ck_recurring_transactions_next_date.
NextDateInRange(t, next) ==
  next # NoDate => next >= t.start /\ (t.end # NoDate => next <= t.end)

\* The columns of the rule's own row; its accounts are in another table.
Columns(row) == [row EXCEPT !.content.posting =
                   [type |-> @.type, amount |-> @.amount, note |-> @.note]]

SavedRule(old, new) ==
  IF Columns(new) = Columns(old) THEN new ELSE [new EXCEPT !.version = old.version + 1]

CommitUpdate(u) ==
  LET q == user[u].req
      row == rules[q.rule]
      next == NextDateAfterUpdate(row, q.content, user[u].now)
  IN  /\ Locked(u, "update")
      /\ IF NextDateInRange(q.content, next)
         THEN /\ rules' = [rules EXCEPT ![q.rule] =
                             SavedRule(row, [row EXCEPT !.content = q.content, !.next = next])]
              /\ since' = [since EXCEPT ![q.rule] = IF Recomputed(row, q.content) THEN next ELSE @]
              /\ EndRequest(u)
              /\ UNCHANGED <<generated, references>>
         ELSE Reject(u)

CommitCategory(u) ==
  /\ user[u].pc = "commit" /\ user[u].req.op = "category"
  /\ categories' = [categories EXCEPT ![user[u].req.category] = user[u].req.content]
  /\ EndRequest(u)
  /\ UNCHANGED <<rules, generated, groups, accounts, since>>

CommitGroup(u) ==
  /\ user[u].pc = "commit" /\ user[u].req.op = "group"
  /\ groups' = [groups EXCEPT ![user[u].req.group] = user[u].req.archived]
  /\ EndRequest(u)
  /\ UNCHANGED <<rules, generated, categories, accounts, since>>

CommitAccount(u) ==
  /\ user[u].pc = "commit" /\ user[u].req.op = "account"
  /\ accounts' = [accounts EXCEPT ![user[u].req.account] = user[u].req.content]
  /\ EndRequest(u)
  /\ UNCHANGED <<rules, generated, categories, groups, since>>

\* A generated transaction is deleted as any other; its row and date stay.
DeleteGenerated(r, d) ==
  /\ generated[r][d] # NoTransaction /\ generated[r][d].status = "ACTIVE"
  /\ generated' = [generated EXCEPT ![r][d].status = "DELETED"]
  /\ UNCHANGED <<clock, rules, references, holder, worker, user, faults, since>>

(***************************************************************************)
(* A poll of the scheduler: generateDue.                                   *)
(***************************************************************************)
\* Mutated form: an occurrence at this very instant is left for later.
DueRulesStrict(now) ==
  {r \in Rules : Pending(rules[r]) /\ OccursAt(rules[r].content, rules[r].next) < now}

DueRules(now) == {r \in Rules : Due(rules[r], now)}

\* ORDER BY next_recurrence_date, id.
DueBefore(p, q) ==
  \/ rules[p].next < rules[q].next
  \/ rules[p].next = rules[q].next /\ p < q

\* The first due rules in that order, as many as a batch holds: one sequence.
DueIds(now) ==
  {q \in [1..Earlier(Batch, Cardinality(DueRules(now))) -> DueRules(now)] :
     /\ \A i, j \in DOMAIN q : i < j => DueBefore(q[i], q[j])
     /\ \A r \in DueRules(now), i \in DOMAIN q :
          (\A j \in DOMAIN q : q[j] # r) => DueBefore(q[i], r)}

Poll(w) ==
  /\ worker[w].pc = "idle" /\ DueRules(clock) # {}
  /\ \E ids \in DueIds(clock) :
       worker' = [worker EXCEPT ![w] =
                    [IdleWorker EXCEPT !.pc = "loop", !.now = clock, !.queue = ids]]
  /\ UNCHANGED <<clock, rules, generated, references, holder, user, faults, since>>

EndPoll(w) ==
  /\ worker[w].pc = "loop" /\ (worker[w].queue = <<>> \/ worker[w].advanced = Batch)
  /\ worker' = [worker EXCEPT ![w] = IdleWorker]
  /\ UNCHANGED <<clock, rules, generated, references, holder, user, faults, since>>

(***************************************************************************)
(* generateOne, in a transaction of its own.                               *)
(***************************************************************************)
HasNextRule(w) == worker[w].pc = "loop" /\ worker[w].queue # <<>> /\ worker[w].advanced < Batch

\* Mutated form: the row is read without FOR UPDATE.
LockRuleUnlocked(w) ==
  /\ HasNextRule(w)
  /\ LET r == Head(worker[w].queue)
     IN  worker' = [worker EXCEPT ![w].queue = Tail(@),
                      ![w].pc = IF Due(rules[r], worker[w].now) THEN "exists" ELSE "loop",
                      ![w].rule = r, ![w].row = rules[r]]
  /\ UNCHANGED <<clock, rules, generated, references, holder, user, faults, since>>

\* The row is locked and whether it is due is asked again.
LockRule(w) ==
  LET r == Head(worker[w].queue)
  IN  /\ HasNextRule(w) /\ holder[<<"rule", r>>] = NoHolder
      /\ IF Due(rules[r], worker[w].now)
         THEN /\ holder' = [holder EXCEPT ![<<"rule", r>>] = w]
              /\ worker' = [worker EXCEPT ![w].queue = Tail(@), ![w].pc = "exists",
                                          ![w].rule = r, ![w].row = rules[r]]
         ELSE /\ worker' = [worker EXCEPT ![w].queue = Tail(@)]
              /\ UNCHANGED holder
      /\ UNCHANGED <<clock, rules, generated, references, user, faults, since>>

\* The transaction ends and the loop goes on, with the rule at the end of the
\* queue if its cursor moved.
EndOccurrence(w, moved) ==
  /\ holder' = Unlocked(w)
  /\ worker' = [worker EXCEPT ![w] =
       [IdleWorker EXCEPT !.pc = "loop", !.now = worker[w].now,
          !.advanced = worker[w].advanced + (IF moved THEN 1 ELSE 0),
          !.queue = IF moved /\ worker[w].advanced + 1 < Batch
                    THEN Append(worker[w].queue, worker[w].rule) ELSE worker[w].queue]]
  /\ UNCHANGED <<clock, references, user, since>>

\* An exception: ruleFailed, and the rule is left to the next poll.
RuleFailed(w) == EndOccurrence(w, FALSE) /\ UNCHANGED <<rules, generated>>

\* Mutated form: the cursor moves to the first date after the poll's instant.
AdvanceCursorToNow(w) ==
  LET row == worker[w].row
  IN  rules' = [rules EXCEPT ![worker[w].rule] =
                  [row EXCEPT !.next = FirstAfterInstant(row.content, worker[w].now),
                              !.version = @ + 1]]

\* UPDATE recurring_transactions ... WHERE id = ? AND version = ?
AdvanceCursor(w) ==
  LET row == worker[w].row
  IN  rules' = [rules EXCEPT ![worker[w].rule] =
                  [row EXCEPT !.next = NextAfter(row.content, row.next), !.version = @ + 1]]

Current(w) == rules[worker[w].rule].version = worker[w].row.version
Taken(w) == generated[worker[w].rule][worker[w].row.next] # NoTransaction

CheckExists(w) ==
  /\ worker[w].pc = "exists"
  /\ CASE Taken(w) /\ Current(w) ->
            AdvanceCursor(w) /\ EndOccurrence(w, TRUE) /\ UNCHANGED <<generated, faults>>
       [] Taken(w) /\ ~Current(w) -> RuleFailed(w) /\ UNCHANGED faults
       [] OTHER ->
            /\ worker' = [worker EXCEPT ![w].pc = "category"]
            /\ UNCHANGED <<clock, rules, generated, references, holder, user, faults, since>>

\* validatePosting reads the category and its group without locking them.
CheckCategory(w) ==
  /\ worker[w].pc = "category"
  /\ IF CategoryUsable(worker[w].row.content.category)
     THEN /\ worker' = [worker EXCEPT ![w].pc = "lock"]
          /\ UNCHANGED <<clock, rules, generated, references, holder, user, faults, since>>
     ELSE RuleFailed(w) /\ UNCHANGED faults

LockPostingAccount(w) ==
  /\ worker[w].pc = "lock"
  /\ \E x \in Lockable :
       /\ IsNextLock(w, x) /\ holder[x] = NoHolder
       /\ holder' = [holder EXCEPT ![x] = w]
  /\ UNCHANGED <<clock, rules, generated, references, worker, user, faults, since>>

\* Mutated form: the cursor is left for a later poll to move.
GenerateOnly(w) ==
  /\ worker[w].pc = "lock" /\ Missing(w) = {}
  /\ generated' = [generated EXCEPT ![worker[w].rule][worker[w].row.next] =
                      [status |-> "ACTIVE", posting |-> worker[w].row.content.posting]]
  /\ EndOccurrence(w, FALSE)
  /\ UNCHANGED <<rules, faults>>

\* createGenerated and advanceTo: the transaction and the cursor in one commit.
Generate(w) ==
  /\ worker[w].pc = "lock" /\ Missing(w) = {}
  /\ IF PostingAllowed(worker[w].row.content.posting, accounts) /\ ~Taken(w) /\ Current(w)
     THEN /\ generated' = [generated EXCEPT ![worker[w].rule][worker[w].row.next] =
                             [status |-> "ACTIVE", posting |-> worker[w].row.content.posting]]
          /\ AdvanceCursor(w)
          /\ EndOccurrence(w, TRUE)
     ELSE RuleFailed(w)
  /\ UNCHANGED faults

InOccurrence(w) == worker[w].pc \in {"exists", "category", "lock"}

\* Any statement may fail, which ends the occurrence only ...
StatementFails(w) ==
  /\ InOccurrence(w) /\ faults < MaxFaults
  /\ RuleFailed(w)
  /\ faults' = faults + 1

\* ... and the process may die: PostgreSQL rolls back, the queue is forgotten.
Crash(w) ==
  /\ worker[w].pc # "idle" /\ faults < MaxFaults
  /\ holder' = Unlocked(w)
  /\ worker' = [worker EXCEPT ![w] = IdleWorker]
  /\ faults' = faults + 1
  /\ UNCHANGED <<clock, rules, generated, references, user, since>>

Tick ==
  /\ clock < LastInstant
  /\ clock' = clock + 1
  /\ UNCHANGED <<rules, generated, references, holder, worker, user, faults, since>>

Commit(u) == \/ CommitCreate(u) \/ CommitUpdate(u)
             \/ CommitCategory(u) \/ CommitGroup(u) \/ CommitAccount(u)

Work(w) == Poll(w) \/ EndPoll(w) \/ CheckExists(w) \/ CheckCategory(w) \/ Generate(w)
Fault(w) == StatementFails(w) \/ Crash(w)

Next ==
  \/ \E u \in Users : Begin(u) \/ LockRow(u) \/ ReadUsage(u) \/ Commit(u) \/ Rollback(u)
  \/ \E w \in Workers : Work(w) \/ LockRule(w) \/ LockPostingAccount(w) \/ Fault(w)
  \/ \E r \in Rules, d \in Dates : DeleteGenerated(r, d)
  \/ Tick

Spec == Init /\ [][Next]_vars

(***************************************************************************)
(* Fairness: the scheduler polls again and again and a running session     *)
(* executes its next statement; PostgreSQL queues the waiters of a row.    *)
(***************************************************************************)
Fairness ==
  /\ \A w \in Workers : /\ WF_vars(Work(w))
                        /\ SF_vars(LockRule(w)) /\ SF_vars(LockPostingAccount(w))
  /\ \A u \in Users : WF_vars(ReadUsage(u) \/ Commit(u)) /\ SF_vars(LockRow(u))

FairSpec == Spec /\ Fairness

(***************************************************************************)
(* Properties.                                                             *)
(***************************************************************************)
Request ==
       [op: {"none"}]
  \union [op: {"create"}, content: Template]
  \union [op: {"update"}, rule: Rules, content: Template, shown: RuleRow]
  \union [op: {"category"}, category: Categories,
          content: [group: Groups \union {NoGroup}, archived: BOOLEAN]]
  \union [op: {"group"}, group: Groups, archived: BOOLEAN]
  \union [op: {"account"}, account: Accounts, content: [kind: Kinds, archived: BOOLEAN]]

\* Every variable holds rows, locks and session states, and a stored rule obeys
\* the CHECK constraints of V7: an ended rule has no cursor, any other cursor
\* lies between start and end.
TypeOK ==
  /\ clock \in Nat /\ faults \in 0..MaxFaults
  /\ rules \in [Rules -> RuleRow] /\ since \in [Rules -> Nat]
  /\ \A r \in Rules : rules[r].present => NextDateInRange(rules[r].content, rules[r].next)
  /\ generated \in [Rules -> [Dates -> Generated]]
  /\ categories \in [Categories -> [group: Groups \union {NoGroup}, archived: BOOLEAN]]
  /\ groups \in [Groups -> BOOLEAN]
  /\ accounts \in [Accounts -> [kind: Kinds, archived: BOOLEAN]]
  /\ holder \in [Lockable -> Sessions \union {NoHolder}]
  /\ worker \in [Workers -> [pc: {"idle", "loop", "exists", "category", "lock"}, now: Nat,
                            queue: Seq(Rules), advanced: 0..Batch, rule: Rules \union {0},
                            row: RuleRow]]
  /\ user \in [Users -> [pc: {"idle", "lock", "commit"}, now: Nat, req: Request]]

Occurrence(t, d) ==
  d >= t.start /\ (t.end # NoDate => d <= t.end)
    /\ d = FirstOnOrAfter([t EXCEPT !.end = NoDate], d)

\* The cursor of an active rule never runs ahead of what was generated: every
\* date of the schedule from the last edit's cursor up to the present one has
\* its transaction (deleted or not), whatever failed, crashed or overlapped.
NothingLost ==
  \A r \in Rules, d \in Dates :
    /\ rules[r].present /\ rules[r].content.active /\ since[r] # NoDate /\ since[r] <= d
    /\ rules[r].next = NoDate \/ d < rules[r].next
    /\ Occurrence(rules[r].content, d)
    => generated[r][d] # NoTransaction

\* A worker about to insert never meets the unique constraint on rule and date,
\* nor an optimistic lock: the rule's row lock already keeps overlapping polls
\* and edits out between its reads and its commit.
ConstraintNeverNeeded ==
  \A w \in Workers :
    worker[w].pc \in {"category", "lock"} =>
      rules[worker[w].rule] = worker[w].row /\ ~Taken(w)

\* An active rule with a cursor refers to a category, group and accounts that
\* are in use and fit its posting, so that generating from it is never refused,
\* however archiving, reclassifying, moving and editing interleave.
ActiveReferencesUsable ==
  \A r \in Rules : Pending(rules[r]) =>
    /\ CategoryUsable(rules[r].content.category)
    /\ PostingAllowed(rules[r].content.posting, accounts)

\* A transaction appears only for the cursor date of an active rule that has
\* come, with the posting the rule has at that commit, and the same commit
\* moves the cursor past that date; afterwards it is never generated again.
GeneratedOnceFromRule ==
  [][\A r \in Rules, d \in Dates :
       IF generated[r][d] = NoTransaction
       THEN generated'[r][d] # NoTransaction =>
              /\ Due(rules[r], clock) /\ rules[r].next = d
              /\ generated'[r][d].posting = rules[r].content.posting
              /\ rules'[r].content = rules[r].content
              /\ rules'[r].next = NoDate \/ rules'[r].next > d
       ELSE generated'[r][d] \in {generated[r][d], [generated[r][d] EXCEPT !.status = "DELETED"]}]_vars

\* The cursor of an active rule is a date of the schedule it has now: no edit
\* leaves it on a date of the schedule before.
ActiveCursorOnSchedule ==
  \A r \in Rules :
    Pending(rules[r]) => Occurrence(rules[r].content, rules[r].next)

\* No set of sessions waits for row locks held inside that set.
Awaited(s) ==
  IF s \in Workers /\ HasNextRule(s) THEN holder[<<"rule", Head(worker[s].queue)>>]
  ELSE IF Missing(s) = {} THEN NoHolder
  ELSE holder[CHOOSE x \in Lockable : IsNextLock(s, x)]

NoDeadlock == \A D \in SUBSET Sessions : D # {} => \E s \in D : Awaited(s) \notin D

\* A due occurrence is dealt with: its rule moves on, is paused or rescheduled,
\* though polls overlap, fail and die, and batches are full of other rules.
DueIsHandled ==
  \A r \in Rules, d \in Dates :
    (Due(rules[r], clock) /\ rules[r].next = d) ~> ~(Due(rules[r], clock) /\ rules[r].next = d)
=============================================================================
