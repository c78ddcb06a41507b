-------------------------- MODULE RecurringProofs --------------------------
(***************************************************************************)
(* Proofs about Recurring, for every set of rules, categories, groups,     *)
(* accounts, workers and requests, every frequency and every bound.        *)
(***************************************************************************)
EXTENDS Recurring, RecurrenceProofs, OrderProofs, FiniteSetTheorems

(***************************************************************************)
(* Type correctness. An occurrence in progress has its rule, and room in   *)
(* the batch; a request's steps read the fields of its own kind.           *)
(***************************************************************************)
InProgress == {"exists", "category", "lock"}

WorkerState == [pc: {"idle", "loop", "exists", "category", "lock"}, now: Nat,
                queue: Seq(Rules), advanced: 0..Batch, rule: Rules \union {0}, row: RuleRow]

UserState == [pc: {"idle", "lock", "commit"}, now: Nat, req: Request]

WorkerInStep(x) == x.pc \in InProgress => x.rule \in Rules /\ x.advanced < Batch

UserInStep(x) ==
  /\ x.pc = "lock" => x.req.op # "none"
  /\ x.pc = "commit" => x.req.op \in {"category", "group", "account"}

RuleTypes ==
  /\ rules \in [Rules -> RuleRow] /\ since \in [Rules -> Nat]
  /\ \A r \in Rules : rules[r].present => NextDateInRange(rules[r].content, rules[r].next)

ReferenceTypes ==
  /\ categories \in [Categories -> [group: Groups \union {NoGroup}, archived: BOOLEAN]]
  /\ groups \in [Groups -> BOOLEAN]
  /\ accounts \in [Accounts -> [kind: Kinds, archived: BOOLEAN]]

LockTypes == holder \in [Lockable -> Sessions \union {NoHolder}]

WorkerTypes ==
  worker \in [Workers -> WorkerState] /\ \A w \in Workers : WorkerInStep(worker[w])

UserTypes ==
  user \in [Users -> UserState] /\ \A u \in Users : UserInStep(user[u])

CountTypes == clock \in Nat /\ faults \in 0..MaxFaults

GeneratedTypes == generated \in [Rules -> [Dates -> Generated]]

TypeInv ==
  /\ CountTypes /\ RuleTypes /\ GeneratedTypes /\ ReferenceTypes /\ LockTypes
  /\ WorkerTypes /\ UserTypes

\* The parts say what TypeOK says.
LEMMA TypeInvIsTyped == TypeInv => TypeOK
  BY DEF TypeInv, TypeOK, CountTypes, RuleTypes, GeneratedTypes, ReferenceTypes, LockTypes,
         WorkerTypes, UserTypes, WorkerState, UserState

\* What each kind of request carries.
LEMMA RequestFields ==
  ASSUME NEW q \in Request
  PROVE  /\ q.op \in {"none", "create", "update", "category", "group", "account"}
         /\ q.op = "create" => q.content \in Template
         /\ q.op = "update" => q.rule \in Rules /\ q.content \in Template /\ q.shown \in RuleRow
         /\ q.op = "category" => /\ q.category \in Categories
                                 /\ q.content \in [group: Groups \union {NoGroup}, archived: BOOLEAN]
         /\ q.op = "group" => q.group \in Groups /\ q.archived \in BOOLEAN
         /\ q.op = "account" => /\ q.account \in Accounts
                                /\ q.content \in [kind: Kinds, archived: BOOLEAN]
  BY DEF Request

\* The columns of a rule's content, to which the lemmas on schedules apply.
LEMMA TemplateFields ==
  ASSUME NEW t \in Template
  PROVE  /\ Schedulable(t) /\ t.end \in Nat /\ t.time \in {0, 1}
         /\ t.active \in BOOLEAN /\ t.posting \in Posting
         /\ t.category \in Categories \union {NoCategory} /\ t.start \in Dates
  BY DEF Template, Schedulable, Frequencies, Dates, NoDate

\* An unused identifier holds some row.
LEMMA AbsentRuleType == AbsentRule \in RuleRow /\ ~AbsentRule.present
  <1>1. (CHOOSE t \in Templates : TRUE) \in Template
    BY TemplatesAssumption
  <1> QED BY <1>1 DEF AbsentRule, RuleRow, NoDate

\* An idle session is one.
LEMMA IdleTypes ==
  /\ IdleWorker \in WorkerState /\ WorkerInStep(IdleWorker)
  /\ IdleUser \in UserState /\ UserInStep(IdleUser)
  <1>1. IdleWorker \in WorkerState
    BY AbsentRuleType, RecurringBoundsAssumption DEF IdleWorker, WorkerState
  <1>2. IdleUser \in UserState
    BY DEF IdleUser, UserState, Request
  <1> QED BY <1>1, <1>2 DEF IdleWorker, IdleUser, WorkerInStep, UserInStep, InProgress

\* Every variable starts with a value of its type.
LEMMA InitTypes == Init => TypeInv
  <1> SUFFICES ASSUME Init PROVE TypeInv
    OBVIOUS
  <1>1. CountTypes
    BY RecurringBoundsAssumption DEF Init, CountTypes, OccursAt
  <1>2. RuleTypes
    BY AbsentRuleType DEF Init, RuleTypes, NoDate
  <1>3. GeneratedTypes
    BY DEF Init, GeneratedTypes, Generated
  <1>4. ReferenceTypes
    BY DEF Init, ReferenceTypes, Kinds
  <1>5. LockTypes
    BY DEF Init, LockTypes
  <1>6. WorkerTypes /\ UserTypes
    BY IdleTypes DEF Init, WorkerTypes, UserTypes
  <1> QED BY <1>1, <1>2, <1>3, <1>4, <1>5, <1>6 DEF TypeInv

(***************************************************************************)
(* What steps have in common.                                              *)
(***************************************************************************)
\* Freed locks have no holder.
LEMMA UnlockedType ==
  ASSUME LockTypes, NEW s
  PROVE  Unlocked(s) \in [Lockable -> Sessions \union {NoHolder}]
  BY DEF LockTypes, Unlocked

\* A request that moves on.
LEMMA UserMoves ==
  ASSUME UserTypes, NEW u \in Users, NEW v \in UserState, UserInStep(v),
         user' = [user EXCEPT ![u] = v]
  PROVE  UserTypes'
  BY DEF UserTypes

\* A poll that moves on.
LEMMA WorkerMoves ==
  ASSUME WorkerTypes, NEW w \in Workers, NEW v \in WorkerState, WorkerInStep(v),
         worker' = [worker EXCEPT ![w] = v]
  PROVE  WorkerTypes'
  BY DEF WorkerTypes

\* A request ends.
LEMMA EndRequestTypes ==
  ASSUME TypeInv, NEW u \in Users, EndRequest(u)
  PROVE  LockTypes' /\ UserTypes' /\ CountTypes' /\ WorkerTypes'
  <1>1. LockTypes'
    BY UnlockedType DEF TypeInv, LockTypes, EndRequest
  <1>2. UserTypes'
    BY IdleTypes, UserMoves DEF TypeInv, EndRequest
  <1> QED BY <1>1, <1>2 DEF TypeInv, EndRequest, CountTypes, WorkerTypes

\* A request is refused.
LEMMA RejectTypes ==
  ASSUME TypeInv, NEW u \in Users, Reject(u)
  PROVE  TypeInv'
  <1>1. LockTypes' /\ UserTypes' /\ CountTypes' /\ WorkerTypes'
    BY EndRequestTypes DEF Reject
  <1> QED BY <1>1 DEF Reject, references, TypeInv, RuleTypes, GeneratedTypes, ReferenceTypes

\* A request arrives.
LEMMA ArriveTypes ==
  ASSUME TypeInv, NEW u \in Users, NEW q \in Request, q.op # "none", Arrive(u, q)
  PROVE  TypeInv'
  <1> DEFINE v == [pc |-> "lock", now |-> clock, req |-> q]
  <1>1. v \in UserState /\ UserInStep(v)
    BY DEF UserState, UserInStep, TypeInv, CountTypes
  <1>2. UserTypes'
    BY <1>1, UserMoves DEF TypeInv, Arrive
  <1> QED BY <1>2 DEF Arrive, references, TypeInv, CountTypes, RuleTypes, GeneratedTypes,
                      ReferenceTypes, LockTypes, WorkerTypes

LEMMA BeginTypes ==
  ASSUME TypeInv, NEW u \in Users, Begin(u)
  PROVE  TypeInv'
  <1>1. CASE BeginCreate(u)
    <2>1. PICK t \in Templates : Arrive(u, [op |-> "create", content |-> t])
      BY <1>1 DEF BeginCreate
    <2>2. [op |-> "create", content |-> t] \in Request
      BY TemplatesAssumption DEF Request
    <2> QED BY <2>1, <2>2, ArriveTypes
  <1>2. CASE BeginUpdate(u)
    <2>1. PICK r \in Rules, t \in Templates :
            Arrive(u, [op |-> "update", rule |-> r, content |-> t, shown |-> rules[r]])
      BY <1>2 DEF BeginUpdate
    <2>2. rules[r] \in RuleRow /\ t \in Template
      BY TemplatesAssumption DEF TypeInv, RuleTypes
    <2>3. [op |-> "update", rule |-> r, content |-> t, shown |-> rules[r]] \in Request
      BY <2>2 DEF Request
    <2> QED BY <2>1, <2>3, ArriveTypes
  <1>3. CASE BeginCategory(u)
    <2>1. PICK c \in Categories, x \in CategoryChanges :
            Arrive(u, [op |-> "category", category |-> c, content |-> x])
      BY <1>3 DEF BeginCategory
    <2>2. [op |-> "category", category |-> c, content |-> x] \in Request
      BY TemplatesAssumption DEF Request
    <2> QED BY <2>1, <2>2, ArriveTypes
  <1>4. CASE BeginGroup(u)
    <2>1. PICK g \in Groups, x \in GroupChanges :
            Arrive(u, [op |-> "group", group |-> g, archived |-> x])
      BY <1>4 DEF BeginGroup
    <2>2. [op |-> "group", group |-> g, archived |-> x] \in Request
      BY TemplatesAssumption DEF Request
    <2> QED BY <2>1, <2>2, ArriveTypes
  <1>5. CASE BeginAccount(u)
    <2>1. PICK a \in Accounts, x \in AccountChanges :
            Arrive(u, [op |-> "account", account |-> a, content |-> x])
      BY <1>5 DEF BeginAccount
    <2>2. [op |-> "account", account |-> a, content |-> x] \in Request
      BY TemplatesAssumption DEF Request
    <2> QED BY <2>1, <2>2, ArriveTypes
  <1> QED BY <1>1, <1>2, <1>3, <1>4, <1>5 DEF Begin

LEMMA LockRowTypes ==
  ASSUME TypeInv, NEW u \in Users, LockRow(u)
  PROVE  TypeInv'
  <1>1. CASE Reject(u)
    BY <1>1, RejectTypes
  <1>2. CASE ~Reject(u)
    <2>1. PICK x \in Lockable : holder' = [holder EXCEPT ![x] = u]
      BY <1>2 DEF LockRow
    <2>2. LockTypes'
      BY <2>1 DEF TypeInv, LockTypes, Sessions
    <2>3. UNCHANGED <<clock, rules, generated, references, worker, user, faults, since>>
      BY <1>2 DEF LockRow
    <2> QED BY <2>2, <2>3 DEF references, TypeInv, CountTypes, RuleTypes, GeneratedTypes,
                              ReferenceTypes, WorkerTypes, UserTypes
  <1> QED BY <1>1, <1>2

LEMMA ReadUsageTypes ==
  ASSUME TypeInv, NEW u \in Users, ReadUsage(u)
  PROVE  TypeInv'
  <1>1. CASE Reject(u)
    BY <1>1, RejectTypes
  <1>2. CASE ~Reject(u)
    <2> DEFINE v == [user[u] EXCEPT !.pc = "commit"]
    <2>1. user[u] \in UserState /\ user[u].req.op \in {"category", "group", "account"}
      BY DEF TypeInv, UserTypes, ReadUsage, Locked
    <2>2. v \in UserState /\ UserInStep(v)
      BY <2>1 DEF UserState, UserInStep
    <2>3. user' = [user EXCEPT ![u] = v]
      BY <1>2 DEF ReadUsage, TypeInv, UserTypes
    <2>4. UserTypes'
      BY <2>2, <2>3, UserMoves DEF TypeInv
    <2>5. UNCHANGED <<clock, rules, generated, references, holder, worker, faults, since>>
      BY <1>2 DEF ReadUsage
    <2> QED BY <2>4, <2>5 DEF references, TypeInv, CountTypes, RuleTypes, GeneratedTypes,
                              ReferenceTypes, LockTypes, WorkerTypes
  <1> QED BY <1>1, <1>2

LEMMA RollbackTypes ==
  ASSUME TypeInv, NEW u \in Users, Rollback(u)
  PROVE  TypeInv'
  BY RejectTypes DEF Rollback
(***************************************************************************)
(* The cursors that commits write.                                         *)
(***************************************************************************)
\* A created rule's cursor is its start, or none if that is past its end.
LEMMA FirstCursor ==
  ASSUME NEW t \in Template
  PROVE  Bounded(t.start, t.end) \in Nat /\ NextDateInRange(t, Bounded(t.start, t.end))
  <1>1. t.start \in Nat /\ t.end \in Nat
    BY DEF Template, Dates, NoDate
  <1> QED BY <1>1 DEF Bounded, NextDateInRange, NoDate

\* A cursor moved by one occurrence keeps to the rule's range.
LEMMA AdvancedCursor ==
  ASSUME NEW t \in Template, NEW d \in Int
  PROVE  NextAfter(t, d) \in Nat /\ NextDateInRange(t, NextAfter(t, d))
  <1> DEFINE n == NextAfter(t, d)
  <1>1. n \in Nat /\ (n # NoDate => OnSchedule(t, n) /\ Within(t, n))
    BY TemplateFields, NextAfterFirst
  <1>2. n # NoDate => n >= t.start
    BY <1>1, TemplateFields, ScheduledDate
  <1> QED BY <1>1, <1>2 DEF NextDateInRange, Within

\* The cursor of an edited rule.
LEMMA EditedCursor ==
  ASSUME NEW row \in RuleRow, NEW t \in Template, NEW instant \in Int
  PROVE  NextDateAfterUpdate(row, t, instant) \in Nat
  <1>1. FirstAfterInstant(t, instant) \in Nat
    BY TemplateFields, FirstAfterInstantFirst
  <1> QED BY <1>1 DEF NextDateAfterUpdate, RuleRow

\* Saving keeps a row a row, with its content and cursor.
LEMMA SavedRuleType ==
  ASSUME NEW old \in RuleRow, NEW new \in RuleRow
  PROVE  LET row == SavedRule(old, new) IN
         /\ row \in RuleRow /\ row.content = new.content /\ row.next = new.next
         /\ row.present = new.present
  <1>1. [new EXCEPT !.version = old.version + 1] \in RuleRow
    BY DEF RuleRow
  <1> QED BY <1>1 DEF SavedRule, RuleRow

\* A rule's new row.
LEMMA RuleMoves ==
  ASSUME RuleTypes, NEW r \in Rules, NEW row \in RuleRow, NEW n \in Nat,
         row.present => NextDateInRange(row.content, row.next),
         rules' = [rules EXCEPT ![r] = row],
         since' = [since EXCEPT ![r] = n] \/ since' = since
  PROVE  RuleTypes'
  <1>1. rules' \in [Rules -> RuleRow] /\ since' \in [Rules -> Nat]
    BY DEF RuleTypes
  <1>2. ASSUME NEW q \in Rules, rules'[q].present
        PROVE  NextDateInRange(rules'[q].content, rules'[q].next)
    BY <1>2 DEF RuleTypes
  <1> QED BY <1>1, <1>2 DEF RuleTypes, NextDateInRange

\* What the request of a user holds when its locks are taken.
LEMMA UserRequest ==
  ASSUME UserTypes, NEW u \in Users
  PROVE  user[u].req \in Request /\ user[u].now \in Nat
  BY DEF UserTypes, UserState

LEMMA CommitCreateTypes ==
  ASSUME TypeInv, NEW u \in Users, CommitCreate(u)
  PROVE  TypeInv'
  <1> DEFINE t == user[u].req.content
             n == Bounded(t.start, t.end)
             row == [content |-> t, present |-> TRUE, version |-> 0, next |-> n]
  <1>1. t \in Template
    BY UserRequest, RequestFields DEF TypeInv, CommitCreate, Locked
  <1>2. n \in Nat /\ NextDateInRange(t, n)
    BY <1>1, FirstCursor
  <1>3. PICK r \in Rules : rules' = [rules EXCEPT ![r] = row] /\ since' = [since EXCEPT ![r] = n]
    BY DEF CommitCreate
  <1> HIDE DEF t, n
  <1>4. row \in RuleRow /\ NextDateInRange(row.content, row.next)
    BY <1>1, <1>2 DEF RuleRow
  <1> HIDE DEF row
  <1>5. RuleTypes'
    BY <1>2, <1>3, <1>4, RuleMoves DEF TypeInv
  <1>6. EndRequest(u) /\ UNCHANGED <<generated, references>>
    BY DEF CommitCreate
  <1>7. LockTypes' /\ UserTypes' /\ CountTypes' /\ WorkerTypes'
    BY <1>6, EndRequestTypes
  <1> QED BY <1>5, <1>6, <1>7 DEF references, TypeInv, GeneratedTypes, ReferenceTypes

LEMMA CommitUpdateTypes ==
  ASSUME TypeInv, NEW u \in Users, CommitUpdate(u)
  PROVE  TypeInv'
  <1> DEFINE q == user[u].req
             row == rules[q.rule]
             n == NextDateAfterUpdate(row, q.content, user[u].now)
             new == [row EXCEPT !.content = q.content, !.next = n]
             saved == SavedRule(row, new)
             m == IF Recomputed(row, q.content) THEN n ELSE since[q.rule]
  <1>1. CASE Reject(u)
    BY <1>1, RejectTypes
  <1>2. CASE ~Reject(u)
    <2>1. q.rule \in Rules /\ q.content \in Template /\ user[u].now \in Nat
      BY UserRequest, RequestFields DEF TypeInv, CommitUpdate, Locked
    <2>2. row \in RuleRow /\ since[q.rule] \in Nat
      BY <2>1 DEF TypeInv, RuleTypes
    <2>3. n \in Nat
      BY <2>1, <2>2, EditedCursor
    <2>4. /\ NextDateInRange(q.content, n)
          /\ rules' = [rules EXCEPT ![q.rule] = saved]
          /\ since' = [since EXCEPT ![q.rule] = m]
          /\ EndRequest(u) /\ UNCHANGED <<generated, references>>
      BY <1>2, <2>1 DEF CommitUpdate, TypeInv, RuleTypes
    <2> HIDE DEF q, row, n
    <2>5. new \in RuleRow /\ new.content = q.content /\ new.next = n
      BY <2>1, <2>2, <2>3 DEF RuleRow
    <2> HIDE DEF new
    <2>6. saved \in RuleRow /\ saved.content = q.content /\ saved.next = n
      BY <2>2, <2>5, SavedRuleType
    <2>7. m \in Nat
      BY <2>2, <2>3
    <2> HIDE DEF saved, m
    <2>8. RuleTypes'
      BY <2>1, <2>4, <2>6, <2>7, RuleMoves DEF TypeInv
    <2>9. LockTypes' /\ UserTypes' /\ CountTypes' /\ WorkerTypes'
      BY <2>4, EndRequestTypes
    <2> QED BY <2>4, <2>8, <2>9 DEF references, TypeInv, GeneratedTypes, ReferenceTypes
  <1> QED BY <1>1, <1>2

LEMMA CommitReferenceTypes ==
  ASSUME TypeInv, NEW u \in Users, CommitCategory(u) \/ CommitGroup(u) \/ CommitAccount(u)
  PROVE  TypeInv'
  <1>0. user[u].req \in Request
    BY UserRequest DEF TypeInv
  <1>1. ReferenceTypes'
    <2>1. CASE CommitCategory(u)
      BY <1>0, <2>1, RequestFields DEF CommitCategory, TypeInv, ReferenceTypes
    <2>2. CASE CommitGroup(u)
      BY <1>0, <2>2, RequestFields DEF CommitGroup, TypeInv, ReferenceTypes
    <2>3. CASE CommitAccount(u)
      BY <1>0, <2>3, RequestFields DEF CommitAccount, TypeInv, ReferenceTypes
    <2> QED BY <2>1, <2>2, <2>3
  <1>2. EndRequest(u) /\ UNCHANGED <<rules, generated, since>>
    BY DEF CommitCategory, CommitGroup, CommitAccount
  <1>3. LockTypes' /\ UserTypes' /\ CountTypes' /\ WorkerTypes'
    BY <1>2, EndRequestTypes
  <1> QED BY <1>1, <1>2, <1>3 DEF TypeInv, RuleTypes, GeneratedTypes

(***************************************************************************)
(* The workers.                                                            *)
(***************************************************************************)
LEMMA WorkerFields ==
  ASSUME WorkerTypes, NEW w \in Workers
  PROVE  /\ worker[w] \in WorkerState /\ worker[w].now \in Nat /\ worker[w].queue \in Seq(Rules)
         /\ worker[w].advanced \in 0..Batch /\ worker[w].row \in RuleRow
         /\ worker[w].row.content \in Template /\ worker[w].row.next \in Nat
         /\ worker[w].pc \in InProgress => /\ worker[w].rule \in Rules
                                           /\ worker[w].advanced < Batch
  <1>1. worker[w] \in WorkerState /\ WorkerInStep(worker[w])
    BY DEF WorkerTypes
  <1> QED BY <1>1 DEF WorkerState, RuleRow, WorkerInStep

LEMMA PollTypes ==
  ASSUME TypeInv, NEW w \in Workers, Poll(w)
  PROVE  TypeInv'
  <1>1. PICK ids \in DueIds(clock) :
          worker' = [worker EXCEPT ![w] =
                       [IdleWorker EXCEPT !.pc = "loop", !.now = clock, !.queue = ids]]
    BY DEF Poll
  <1> DEFINE v == [IdleWorker EXCEPT !.pc = "loop", !.now = clock, !.queue = ids]
  <1>2. ids \in Seq(Rules)
    <2>1. DueRules(clock) \subseteq Rules
      BY DEF DueRules
    <2>2. Cardinality(DueRules(clock)) \in Nat
      BY <2>1, RecurringIdsAssumption, FS_Subset, FS_CardinalityType
    <2> DEFINE n == Earlier(Batch, Cardinality(DueRules(clock)))
    <2>3. n \in Nat /\ ids \in [1..n -> DueRules(clock)]
      BY <2>2, RecurringBoundsAssumption DEF Earlier, DueIds
    <2> HIDE DEF n
    <2> QED BY <2>1, <2>3
  <1>3. v \in WorkerState /\ WorkerInStep(v)
    BY <1>2, IdleTypes DEF TypeInv, CountTypes, WorkerState, WorkerInStep, InProgress
  <1>4. WorkerTypes'
    BY <1>1, <1>3, WorkerMoves DEF TypeInv
  <1> QED BY <1>4 DEF Poll, references, TypeInv, CountTypes, RuleTypes, GeneratedTypes,
                      ReferenceTypes, LockTypes, UserTypes

LEMMA EndPollTypes ==
  ASSUME TypeInv, NEW w \in Workers, EndPoll(w)
  PROVE  TypeInv'
  <1>1. WorkerTypes'
    BY IdleTypes, WorkerMoves DEF TypeInv, EndPoll
  <1> QED BY <1>1 DEF EndPoll, references, TypeInv, CountTypes, RuleTypes, GeneratedTypes,
                      ReferenceTypes, LockTypes, UserTypes

\* An occurrence ends, whether its rule moved or not.
LEMMA EndOccurrenceTypes ==
  ASSUME TypeInv, NEW w \in Workers, worker[w].pc \in InProgress, NEW moved \in BOOLEAN,
         EndOccurrence(w, moved)
  PROVE  WorkerTypes' /\ LockTypes' /\ ReferenceTypes' /\ UserTypes' /\ clock' \in Nat
  <1> DEFINE x == worker[w]
             queue == IF moved /\ x.advanced + 1 < Batch THEN Append(x.queue, x.rule) ELSE x.queue
             count == x.advanced + (IF moved THEN 1 ELSE 0)
             v == [IdleWorker EXCEPT !.pc = "loop", !.now = x.now, !.advanced = count,
                                     !.queue = queue]
  <1>1. /\ x.now \in Nat /\ x.queue \in Seq(Rules) /\ x.advanced \in 0..Batch
        /\ x.rule \in Rules /\ x.advanced < Batch
    BY WorkerFields DEF TypeInv
  <1>2. worker' = [worker EXCEPT ![w] = v]
    BY DEF EndOccurrence
  <1> HIDE DEF x
  <1>3. queue \in Seq(Rules) /\ count \in 0..Batch
    BY <1>1, RecurringBoundsAssumption
  <1> HIDE DEF queue, count
  <1>4. v \in WorkerState /\ WorkerInStep(v)
    BY <1>1, <1>3, IdleTypes DEF WorkerState, WorkerInStep, InProgress
  <1> HIDE DEF v
  <1>5. WorkerTypes'
    BY <1>2, <1>4, WorkerMoves DEF TypeInv
  <1>6. LockTypes'
    BY UnlockedType DEF TypeInv, LockTypes, EndOccurrence
  <1> QED BY <1>5, <1>6 DEF EndOccurrence, references, TypeInv, CountTypes, ReferenceTypes, UserTypes

LEMMA RuleFailedTypes ==
  ASSUME TypeInv, NEW w \in Workers, worker[w].pc \in InProgress, RuleFailed(w),
         faults' \in 0..MaxFaults
  PROVE  TypeInv'
  <1>1. WorkerTypes' /\ LockTypes' /\ ReferenceTypes' /\ UserTypes' /\ clock' \in Nat
    BY EndOccurrenceTypes DEF RuleFailed
  <1>2. UNCHANGED <<rules, generated, since>>
    BY DEF RuleFailed, EndOccurrence
  <1> QED BY <1>1, <1>2 DEF TypeInv, CountTypes, RuleTypes, GeneratedTypes

\* A row whose cursor moves keeps the rest.
LEMMA MovedRow ==
  ASSUME NEW row \in RuleRow, NEW n \in Nat
  PROVE  LET new == [row EXCEPT !.next = n, !.version = @ + 1] IN
         /\ new \in RuleRow /\ new.content = row.content /\ new.next = n
         /\ new.present = row.present
  <1> DEFINE v == row.version + 1
             new == [row EXCEPT !.next = n, !.version = v]
  <1>1. v \in Nat
    BY DEF RuleRow
  <1> HIDE DEF v
  <1>2. new \in RuleRow /\ new.content = row.content /\ new.next = n /\ new.present = row.present
    BY <1>1 DEF RuleRow
  <1> QED BY <1>2 DEF v

LEMMA AdvanceTypes ==
  ASSUME TypeInv, NEW w \in Workers, worker[w].pc \in InProgress, AdvanceCursor(w),
         EndOccurrence(w, TRUE), UNCHANGED faults, GeneratedTypes'
  PROVE  TypeInv'
  <1> DEFINE x == worker[w]
             n == NextAfter(x.row.content, x.row.next)
             row == [x.row EXCEPT !.next = n, !.version = @ + 1]
  <1>1. WorkerTypes' /\ LockTypes' /\ ReferenceTypes' /\ UserTypes' /\ clock' \in Nat
    BY EndOccurrenceTypes
  <1>2. x.rule \in Rules /\ x.row \in RuleRow /\ x.row.content \in Template /\ x.row.next \in Nat
    BY WorkerFields DEF TypeInv
  <1>3. rules' = [rules EXCEPT ![x.rule] = row] /\ since' = since
    BY DEF AdvanceCursor, EndOccurrence
  <1> HIDE DEF x
  <1>4. n \in Nat /\ NextDateInRange(x.row.content, n)
    BY <1>2, AdvancedCursor
  <1> HIDE DEF n
  <1>5. row \in RuleRow /\ row.content = x.row.content /\ row.next = n
    BY <1>2, <1>4, MovedRow
  <1> HIDE DEF row
  <1>6. RuleTypes'
    BY <1>2, <1>3, <1>4, <1>5, RuleMoves DEF TypeInv
  <1> QED BY <1>1, <1>6 DEF TypeInv, CountTypes

LEMMA LockRuleTypes ==
  ASSUME TypeInv, NEW w \in Workers, LockRule(w)
  PROVE  TypeInv'
  <1> DEFINE x == worker[w]
             r == Head(x.queue)
             v == [x EXCEPT !.queue = Tail(@), !.pc = "exists", !.rule = r, !.row = rules[r]]
             z == [x EXCEPT !.queue = Tail(@)]
  <1>1. x \in WorkerState /\ x.queue \in Seq(Rules) /\ x.queue # <<>> /\ x.advanced < Batch
        /\ x.pc = "loop"
    BY WorkerFields DEF TypeInv, LockRule, HasNextRule
  <1>2. r \in Rules /\ Tail(x.queue) \in Seq(Rules)
    BY <1>1
  <1>3. rules[r] \in RuleRow
    BY <1>2 DEF TypeInv, RuleTypes
  <1>4. worker' = [worker EXCEPT ![w] = v] \/ worker' = [worker EXCEPT ![w] = z]
    BY DEF LockRule, TypeInv, WorkerTypes
  <1>5. LockTypes'
    BY DEF LockRule, TypeInv, LockTypes, Sessions
  <1> HIDE DEF x, r
  <1>6. v \in WorkerState /\ WorkerInStep(v) /\ z \in WorkerState /\ WorkerInStep(z)
    BY <1>1, <1>2, <1>3 DEF WorkerState, WorkerInStep, InProgress
  <1> HIDE DEF v, z
  <1>7. WorkerTypes'
    BY <1>4, <1>6, WorkerMoves DEF TypeInv
  <1> QED BY <1>5, <1>7 DEF LockRule, references, TypeInv, CountTypes, RuleTypes,
                            GeneratedTypes, ReferenceTypes, UserTypes

\* An occurrence that goes on to its next check.
LEMMA WorkerGoesOn ==
  ASSUME TypeInv, NEW w \in Workers, worker[w].pc \in InProgress, NEW pc \in InProgress,
         worker' = [worker EXCEPT ![w].pc = pc],
         UNCHANGED <<clock, rules, generated, references, holder, user, faults, since>>
  PROVE  TypeInv'
  <1> DEFINE v == [worker[w] EXCEPT !.pc = pc]
  <1>1. worker[w] \in WorkerState /\ WorkerInStep(worker[w])
    BY DEF TypeInv, WorkerTypes
  <1>2. v \in WorkerState /\ WorkerInStep(v)
    BY <1>1 DEF WorkerState, WorkerInStep, InProgress
  <1>3. worker' = [worker EXCEPT ![w] = v]
    BY DEF TypeInv, WorkerTypes
  <1>4. WorkerTypes'
    BY <1>2, <1>3, WorkerMoves DEF TypeInv
  <1> QED BY <1>4 DEF references, TypeInv, CountTypes, RuleTypes, GeneratedTypes,
                      ReferenceTypes, LockTypes, UserTypes

LEMMA CheckExistsTypes ==
  ASSUME TypeInv, NEW w \in Workers, CheckExists(w)
  PROVE  TypeInv'
  <1>0. worker[w].pc \in InProgress /\ faults \in 0..MaxFaults
    BY DEF CheckExists, InProgress, TypeInv, CountTypes
  <1>1. CASE Taken(w) /\ Current(w)
    BY <1>0, <1>1, AdvanceTypes DEF CheckExists, TypeInv, GeneratedTypes
  <1>2. CASE Taken(w) /\ ~Current(w)
    BY <1>0, <1>2, RuleFailedTypes DEF CheckExists
  <1>3. CASE ~Taken(w)
    <2>1. /\ worker' = [worker EXCEPT ![w].pc = "category"]
          /\ UNCHANGED <<clock, rules, generated, references, holder, user, faults, since>>
      BY <1>3 DEF CheckExists
    <2>2. "category" \in InProgress
      BY DEF InProgress
    <2> QED BY <1>0, <2>1, <2>2, WorkerGoesOn
  <1> QED BY <1>1, <1>2, <1>3

LEMMA CheckCategoryTypes ==
  ASSUME TypeInv, NEW w \in Workers, CheckCategory(w)
  PROVE  TypeInv'
  <1>0. worker[w].pc \in InProgress /\ faults \in 0..MaxFaults /\ "lock" \in InProgress
    BY DEF CheckCategory, InProgress, TypeInv, CountTypes
  <1>1. CASE CategoryUsable(worker[w].row.content.category)
    BY <1>0, <1>1, WorkerGoesOn DEF CheckCategory
  <1>2. CASE ~CategoryUsable(worker[w].row.content.category)
    BY <1>0, <1>2, RuleFailedTypes DEF CheckCategory
  <1> QED BY <1>1, <1>2

LEMMA LockPostingAccountTypes ==
  ASSUME TypeInv, NEW w \in Workers, LockPostingAccount(w)
  PROVE  TypeInv'
  <1>1. LockTypes'
    BY DEF LockPostingAccount, TypeInv, LockTypes, Sessions
  <1> QED BY <1>1 DEF LockPostingAccount, references, TypeInv, CountTypes, RuleTypes,
                      GeneratedTypes, ReferenceTypes, WorkerTypes, UserTypes

LEMMA GenerateTypes ==
  ASSUME TypeInv, NEW w \in Workers, Generate(w)
  PROVE  TypeInv'
  <1> DEFINE x == worker[w]
             new == [status |-> "ACTIVE", posting |-> x.row.content.posting]
  <1>0. x.pc \in InProgress /\ faults \in 0..MaxFaults /\ UNCHANGED faults
    BY DEF Generate, InProgress, TypeInv, CountTypes
  <1>1. CASE RuleFailed(w)
    BY <1>0, <1>1, RuleFailedTypes
  <1>2. CASE ~RuleFailed(w)
    <2>1. /\ generated' = [generated EXCEPT ![x.rule][x.row.next] = new]
          /\ AdvanceCursor(w) /\ EndOccurrence(w, TRUE)
      BY <1>2 DEF Generate
    <2>2. x.row.content.posting \in Posting /\ x.rule \in Rules
      BY <1>0, WorkerFields, TemplateFields DEF TypeInv
    <2> HIDE DEF x
    <2>3. new \in Generated
      BY <2>2 DEF Generated
    <2> HIDE DEF new
    <2>4. GeneratedTypes'
      BY <2>1, <2>2, <2>3 DEF TypeInv, GeneratedTypes
    <2> QED BY <1>0, <2>1, <2>4, AdvanceTypes DEF x
  <1> QED BY <1>1, <1>2

LEMMA FaultTypes ==
  ASSUME TypeInv, NEW w \in Workers, Fault(w)
  PROVE  TypeInv'
  <1>1. faults' \in 0..MaxFaults
    BY RecurringBoundsAssumption DEF Fault, StatementFails, Crash, TypeInv, CountTypes
  <1>2. CASE StatementFails(w)
    BY <1>1, <1>2, RuleFailedTypes DEF StatementFails, InOccurrence, InProgress
  <1>3. CASE Crash(w)
    <2>1. WorkerTypes'
      BY <1>3, IdleTypes, WorkerMoves DEF TypeInv, Crash
    <2>2. LockTypes'
      BY <1>3, UnlockedType DEF TypeInv, LockTypes, Crash
    <2> QED BY <1>1, <1>3, <2>1, <2>2 DEF Crash, references, TypeInv, CountTypes, RuleTypes,
                                          GeneratedTypes, ReferenceTypes, UserTypes
  <1> QED BY <1>2, <1>3 DEF Fault

LEMMA DeleteGeneratedTypes ==
  ASSUME TypeInv, NEW r \in Rules, NEW d \in Dates, DeleteGenerated(r, d)
  PROVE  TypeInv'
  <1> DEFINE new == [generated[r][d] EXCEPT !.status = "DELETED"]
  <1>1. generated[r][d] \in Generated /\ generated[r][d] # NoTransaction
    BY DEF DeleteGenerated, TypeInv, GeneratedTypes
  <1>2. new \in Generated
    BY <1>1 DEF Generated
  <1>3. generated' = [generated EXCEPT ![r] = [generated[r] EXCEPT ![d] = new]]
    BY DEF DeleteGenerated, TypeInv, GeneratedTypes
  <1> HIDE DEF new
  <1>4. GeneratedTypes'
    BY <1>2, <1>3 DEF TypeInv, GeneratedTypes
  <1> QED BY <1>4 DEF DeleteGenerated, references, TypeInv, CountTypes, RuleTypes,
                      ReferenceTypes, LockTypes, WorkerTypes, UserTypes

LEMMA TickTypes ==
  ASSUME TypeInv, Tick
  PROVE  TypeInv'
  BY DEF Tick, references, TypeInv, CountTypes, RuleTypes, GeneratedTypes,
         ReferenceTypes, LockTypes, WorkerTypes, UserTypes

LEMMA StutterTypes ==
  ASSUME TypeInv, UNCHANGED vars
  PROVE  TypeInv'
  BY DEF vars, TypeInv, CountTypes, RuleTypes, GeneratedTypes, ReferenceTypes, LockTypes,
         WorkerTypes, UserTypes

LEMMA NextTypes ==
  ASSUME TypeInv, [Next]_vars
  PROVE  TypeInv'
  <1>1. ASSUME NEW u \in Users, Begin(u) \/ LockRow(u) \/ ReadUsage(u) \/ Commit(u) \/ Rollback(u)
        PROVE  TypeInv'
    BY <1>1, BeginTypes, LockRowTypes, ReadUsageTypes, CommitCreateTypes, CommitUpdateTypes,
       CommitReferenceTypes, RollbackTypes DEF Commit
  <1>2. ASSUME NEW w \in Workers, Work(w) \/ LockRule(w) \/ LockPostingAccount(w) \/ Fault(w)
        PROVE  TypeInv'
    BY <1>2, PollTypes, EndPollTypes, CheckExistsTypes, CheckCategoryTypes, GenerateTypes,
       LockRuleTypes, LockPostingAccountTypes, FaultTypes DEF Work
  <1>3. ASSUME NEW r \in Rules, NEW d \in Dates, DeleteGenerated(r, d)
        PROVE  TypeInv'
    BY <1>3, DeleteGeneratedTypes
  <1> QED BY <1>1, <1>2, <1>3, TickTypes, StutterTypes DEF Next

\* Every variable keeps its type; in particular the CHECK constraint on a rule's
\* cursor is never the one to refuse a worker's update.
THEOREM RecurringTypes == Spec => []TypeOK
  <1>1. Spec => []TypeInv
    BY InitTypes, NextTypes, PTL DEF Spec
  <1> QED BY <1>1, TypeInvIsTyped, PTL

(***************************************************************************)
(* Who may touch a rule: an occurrence in progress holds its rule's lock,  *)
(* the row it read is still the committed one, and the date it is about to *)
(* generate has come. Once it has looked, that date is still free.         *)
(***************************************************************************)
Steady(w) ==
  worker[w].pc \in InProgress =>
    /\ holder[<<"rule", worker[w].rule>>] = w
    /\ rules[worker[w].rule] = worker[w].row
    /\ Due(worker[w].row, worker[w].now)

DateFree(w) == worker[w].pc \in {"category", "lock"} => ~Taken(w)

Timely == clock <= LastInstant /\ \A w \in Workers : worker[w].now <= clock

GenInv == TypeInv /\ Timely /\ \A w \in Workers : Steady(w) /\ DateFree(w)

\* What a step of another session leaves to a worker: its locks, and the rules
\* it has locked with the dates they have not used.
Undisturbed(w) ==
  /\ worker'[w] = worker[w]
  /\ \A x \in Lockable : holder[x] = w => holder'[x] = w
  /\ \A r \in Rules : holder[<<"rule", r>>] = w /\ rules[r].present =>
       /\ rules'[r] = rules[r]
       /\ \A d \in Dates : generated[r][d] = NoTransaction => generated'[r][d] = NoTransaction

\* The locks there are.
LEMMA Locks ==
  /\ \A r \in Rules : <<"rule", r>> \in Lockable
  /\ \A c \in Categories : <<"category", c>> \in Lockable
  /\ \A g \in Groups : <<"group", g>> \in Lockable
  /\ \A a \in Accounts : <<"account", a>> \in Lockable
  BY DEF Lockable, Rows

\* A worker is not a user, and a free lock has no session.
LEMMA SessionsDiffer ==
  /\ \A w \in Workers : w # NoHolder /\ w \notin Users
  /\ \A u \in Users : u # NoHolder /\ u \notin Workers
  BY RecurringSessionAssumption DEF Sessions

\* Dates that have come are among those the model counts.
LEMMA DueDate ==
  ASSUME NEW row \in RuleRow, NEW now \in Int, now <= LastInstant, Due(row, now)
  PROVE  row.next \in Dates /\ row.present /\ row.content \in Template /\ 2 * row.next <= now
  <1>1. row.content \in Template /\ row.next \in Nat
    BY DEF RuleRow
  <1>2. row.content.time \in {0, 1}
    BY <1>1, TemplateFields
  <1>3. row.next # 0 /\ row.present /\ 2 * row.next + row.content.time <= now
    BY DEF Due, Pending, OccursAt, NoDate
  <1>4. row.next >= 1 /\ 2 * row.next <= LastInstant
    BY <1>1, <1>2, <1>3, RecurringBoundsAssumption
  <1>5. row.next <= LastInstant \div 2
    BY <1>1, <1>4, RecurringBoundsAssumption
  <1> QED BY <1>1, <1>2, <1>3, <1>4, <1>5 DEF Dates

\* A rule is due later if it is due now.
LEMMA DueStays ==
  ASSUME NEW row \in RuleRow, NEW now \in Int, NEW later \in Int, now <= later, Due(row, now)
  PROVE  Due(row, later)
  <1>1. row.content \in Template /\ row.next \in Nat
    BY DEF RuleRow
  <1>2. row.content.time \in {0, 1}
    BY <1>1, TemplateFields
  <1>3. OccursAt(row.content, row.next) \in Int
    BY <1>1, <1>2 DEF OccursAt
  <1> QED BY <1>3 DEF Due

\* What an occurrence in progress works on.
LEMMA InProgressFacts ==
  ASSUME GenInv, NEW w \in Workers, worker[w].pc \in InProgress
  PROVE  /\ worker[w].rule \in Rules /\ worker[w].row \in RuleRow
         /\ worker[w].row.next \in Dates /\ worker[w].row.content \in Template
         /\ rules[worker[w].rule] = worker[w].row /\ worker[w].row.present
         /\ holder[<<"rule", worker[w].rule>>] = w
         /\ Due(worker[w].row, worker[w].now) /\ worker[w].now \in Int
         /\ worker[w].now <= clock /\ clock \in Int
         /\ worker[w].row.next \in Nat \ {0}
  <1>1. worker[w].rule \in Rules /\ worker[w].row \in RuleRow /\ worker[w].now \in Nat
    BY WorkerFields DEF GenInv, TypeInv
  <1>2. clock \in Int /\ clock <= LastInstant /\ worker[w].now <= clock /\ Steady(w)
    BY DEF GenInv, Timely, TypeInv, CountTypes
  <1>3. worker[w].now <= LastInstant
    BY <1>1, <1>2, RecurringBoundsAssumption
  <1>4. Due(worker[w].row, worker[w].now)
    BY <1>2 DEF Steady
  <1>5. /\ worker[w].row.next \in Dates /\ worker[w].row.content \in Template
        /\ worker[w].row.present
    BY <1>1, <1>3, <1>4, DueDate
  <1>6. worker[w].row.next \in Nat \ {0}
    BY <1>5 DEF Dates
  <1> QED BY <1>1, <1>2, <1>4, <1>5, <1>6 DEF Steady

\* An undisturbed worker stays as it is.
LEMMA UndisturbedKeeps ==
  ASSUME GenInv, NEW w \in Workers, Undisturbed(w)
  PROVE  Steady(w)' /\ DateFree(w)'
  <1>1. CASE worker[w].pc \notin InProgress
    BY <1>1 DEF Undisturbed, Steady, DateFree, InProgress
  <1>2. CASE worker[w].pc \in InProgress
    <2> DEFINE r == worker[w].rule
               d == worker[w].row.next
    <2>1. /\ r \in Rules /\ d \in Dates /\ rules[r] = worker[w].row /\ rules[r].present
          /\ holder[<<"rule", r>>] = w /\ Due(worker[w].row, worker[w].now)
      BY <1>2, InProgressFacts
    <2>2. worker'[w] = worker[w] /\ rules'[r] = rules[r] /\ holder'[<<"rule", r>>] = w
          /\ (generated[r][d] = NoTransaction => generated'[r][d] = NoTransaction)
      BY <2>1, Locks DEF Undisturbed
    <2>3. Steady(w)'
      BY <2>1, <2>2 DEF Steady, Due, Pending
    <2>4. DateFree(w)'
      BY <2>2 DEF DateFree, Taken, GenInv
    <2> QED BY <2>3, <2>4
  <1> QED BY <1>1, <1>2

\* The end of another session's transaction frees no lock of this worker.
LEMMA UnlockedKeeps ==
  ASSUME LockTypes, NEW w, NEW s, w # s, holder' = Unlocked(s)
  PROVE  \A x \in Lockable : holder[x] = w => holder'[x] = w
  BY DEF Unlocked

\* A lock that is free is not a session's.
LEMMA TakingKeeps ==
  ASSUME LockTypes, NEW w \in Workers, NEW s, NEW y \in Lockable, holder[y] = NoHolder,
         holder' = [holder EXCEPT ![y] = s]
  PROVE  \A x \in Lockable : holder[x] = w => holder'[x] = w
  BY SessionsDiffer DEF LockTypes

\* A request that ends, or is refused, disturbs no worker.
LEMMA EndRequestKeeps ==
  ASSUME GenInv, NEW u \in Users, EndRequest(u), NEW w \in Workers,
         \A r \in Rules : holder[<<"rule", r>>] = w /\ rules[r].present => rules'[r] = rules[r],
         UNCHANGED generated
  PROVE  Undisturbed(w)
  <1>1. \A x \in Lockable : holder[x] = w => holder'[x] = w
    BY SessionsDiffer, UnlockedKeeps DEF EndRequest, GenInv, TypeInv
  <1> QED BY <1>1 DEF EndRequest, Undisturbed

\* No step of a request disturbs a worker: it edits a rule under the rule's lock.
LEMMA RequestKeeps ==
  ASSUME GenInv, NEW u \in Users, NEW w \in Workers,
         Begin(u) \/ LockRow(u) \/ ReadUsage(u) \/ Commit(u) \/ Rollback(u)
  PROVE  Undisturbed(w) /\ UNCHANGED clock
  <1>1. CASE Reject(u)
    BY <1>1, EndRequestKeeps DEF Reject, EndRequest
  <1>2. CASE Begin(u)
    BY <1>2 DEF Begin, BeginCreate, BeginUpdate, BeginCategory, BeginGroup, BeginAccount, Arrive,
                Undisturbed
  <1>3. CASE LockRow(u) /\ ~Reject(u)
    <2>1. PICK y \in Lockable : holder[y] = NoHolder /\ holder' = [holder EXCEPT ![y] = u]
      BY <1>3 DEF LockRow
    <2>2. \A x \in Lockable : holder[x] = w => holder'[x] = w
      BY <2>1, TakingKeeps DEF GenInv, TypeInv
    <2> QED BY <1>3, <2>2 DEF LockRow, Undisturbed
  <1>4. CASE ReadUsage(u) /\ ~Reject(u)
    BY <1>4 DEF ReadUsage, Undisturbed
  <1>5. CASE CommitCreate(u)
    <2>1. PICK r, row : r \in Rules /\ ~rules[r].present /\ rules' = [rules EXCEPT ![r] = row]
      BY <1>5 DEF CommitCreate
    <2>2. \A q \in Rules : rules[q].present => rules'[q] = rules[q]
      BY <2>1 DEF GenInv, TypeInv, RuleTypes
    <2> QED BY <1>5, <2>2, EndRequestKeeps DEF CommitCreate, EndRequest
  <1>6. CASE CommitUpdate(u) /\ ~Reject(u)
    <2> DEFINE r == user[u].req.rule
    <2>1. PICK row : rules' = [rules EXCEPT ![r] = row]
      BY <1>6 DEF CommitUpdate
    <2>2. EndRequest(u) /\ UNCHANGED generated
      BY <1>6 DEF CommitUpdate
    <2>3. holder[<<"rule", r>>] = u
      <3>1. <<"rule", r>> \in Wanted(u)
        BY <1>6, SessionsDiffer DEF CommitUpdate, Locked, Wanted, Rows
      <3> QED BY <1>6, <3>1 DEF CommitUpdate, Locked, Missing
    <2>4. \A q \in Rules : holder[<<"rule", q>>] = w => rules'[q] = rules[q]
      BY <2>1, <2>3, SessionsDiffer DEF GenInv, TypeInv, RuleTypes
    <2> QED BY <2>2, <2>4, EndRequestKeeps DEF EndRequest
  <1>7. CASE CommitCategory(u) \/ CommitGroup(u) \/ CommitAccount(u)
    BY <1>7, EndRequestKeeps DEF CommitCategory, CommitGroup, CommitAccount, EndRequest
  <1> QED BY <1>1, <1>2, <1>3, <1>4, <1>5, <1>6, <1>7 DEF Commit, Rollback

\* The only rule a worker changes is the one whose lock it holds.
LEMMA WorkerKeepsOthers ==
  ASSUME GenInv, NEW v \in Workers, NEW w \in Workers, v # w,
         Work(v) \/ LockRule(v) \/ LockPostingAccount(v) \/ Fault(v)
  PROVE  Undisturbed(w)
  <1>0. LockTypes /\ RuleTypes /\ GeneratedTypes /\ worker \in [Workers -> WorkerState]
    BY DEF GenInv, TypeInv, WorkerTypes
  <1>1. worker'[w] = worker[w]
    BY <1>0 DEF Work, LockRule, LockPostingAccount, Fault, Poll, EndPoll, CheckExists, CheckCategory,
           Generate, StatementFails, Crash, RuleFailed, EndOccurrence
  <1>2. CASE EndOccurrence(v, FALSE) /\ UNCHANGED <<rules, generated>>
    <2>1. \A x \in Lockable : holder[x] = w => holder'[x] = w
      BY <1>0, <1>2, UnlockedKeeps DEF EndOccurrence
    <2> QED BY <1>1, <1>2, <2>1 DEF Undisturbed
  <1>3. CASE Crash(v)
    <2>1. \A x \in Lockable : holder[x] = w => holder'[x] = w
      BY <1>0, <1>3, UnlockedKeeps DEF Crash
    <2> QED BY <1>1, <1>3, <2>1 DEF Undisturbed, Crash
  <1>4. CASE UNCHANGED <<rules, generated, holder>>
    BY <1>1, <1>4 DEF Undisturbed
  <1>5. CASE /\ UNCHANGED <<rules, generated>>
             /\ \E y \in Lockable : holder[y] = NoHolder /\ holder' = [holder EXCEPT ![y] = v]
    <2>1. \A x \in Lockable : holder[x] = w => holder'[x] = w
      BY <1>0, <1>5, TakingKeeps
    <2> QED BY <1>1, <1>5, <2>1 DEF Undisturbed
  <1>6. CASE /\ worker[v].pc \in InProgress /\ AdvanceCursor(v) /\ EndOccurrence(v, TRUE)
             /\ \/ UNCHANGED generated
                \/ \E row : generated' = [generated EXCEPT ![worker[v].rule][worker[v].row.next] = row]
    <2> DEFINE r == worker[v].rule
    <2>1. holder[<<"rule", r>>] = v /\ r \in Rules
      BY <1>6, InProgressFacts
    <2>2. PICK row : rules' = [rules EXCEPT ![r] = row]
      BY <1>6 DEF AdvanceCursor
    <2>3. \A q \in Rules : q # r => rules'[q] = rules[q] /\ generated'[q] = generated[q]
      BY <1>0, <1>6, <2>2 DEF RuleTypes, GeneratedTypes
    <2>4. \A x \in Lockable : holder[x] = w => holder'[x] = w
      BY <1>0, <1>6, UnlockedKeeps DEF EndOccurrence
    <2>5. \A q \in Rules : holder[<<"rule", q>>] = w => q # r
      BY <2>1
    <2> QED BY <1>1, <2>3, <2>4, <2>5 DEF Undisturbed
  <1>7. CASE LockRule(v)
    <2>1. CASE UNCHANGED holder
      BY <1>4, <1>7, <2>1 DEF LockRule
    <2>2. CASE ~UNCHANGED holder
      <3> DEFINE r == Head(worker[v].queue)
      <3>1. /\ holder[<<"rule", r>>] = NoHolder /\ holder' = [holder EXCEPT ![<<"rule", r>>] = v]
            /\ UNCHANGED <<rules, generated>>
        BY <1>7, <2>2 DEF LockRule
      <3>2. worker[v].queue \in Seq(Rules) /\ worker[v].queue # <<>>
        BY <1>7, WorkerFields DEF GenInv, TypeInv, LockRule, HasNextRule
      <3>3. <<"rule", r>> \in Lockable
        BY <3>2, Locks
      <3> QED BY <1>5, <3>1, <3>3
    <2> QED BY <2>1, <2>2
  <1>8. CASE Poll(v) \/ EndPoll(v)
    BY <1>4, <1>8 DEF Poll, EndPoll
  <1>9. CASE CheckExists(v)
    <2>1. worker[v].pc \in InProgress
      BY <1>9 DEF CheckExists, InProgress
    <2> QED BY <1>2, <1>4, <1>6, <1>9, <2>1 DEF CheckExists, RuleFailed
  <1>10. CASE CheckCategory(v)
    BY <1>2, <1>4, <1>10 DEF CheckCategory, RuleFailed
  <1>11. CASE LockPostingAccount(v)
    BY <1>5, <1>11 DEF LockPostingAccount
  <1>12. CASE Generate(v)
    <2>1. worker[v].pc \in InProgress
      BY <1>12 DEF Generate, InProgress
    <2> QED BY <1>2, <1>6, <1>12, <2>1 DEF Generate, RuleFailed
  <1>13. CASE StatementFails(v)
    BY <1>2, <1>13 DEF StatementFails, RuleFailed
  <1> QED BY <1>3, <1>7, <1>8, <1>9, <1>10, <1>11, <1>12, <1>13 DEF Work, Fault

\* A worker that is not generating anything has nothing to keep.
LEMMA NothingKept ==
  ASSUME NEW w \in Workers, worker'[w].pc \notin InProgress
  PROVE  Steady(w)' /\ DateFree(w)'
  BY DEF Steady, DateFree, InProgress

\* How an occurrence and a poll leave the worker.
LEMMA EndOccurrenceFields ==
  ASSUME worker \in [Workers -> WorkerState], NEW w \in Workers, NEW moved \in BOOLEAN,
         EndOccurrence(w, moved)
  PROVE  worker'[w].pc = "loop" /\ worker'[w].now = worker[w].now
  <1> DEFINE x == worker[w]
             queue == IF moved /\ x.advanced + 1 < Batch THEN Append(x.queue, x.rule) ELSE x.queue
             count == x.advanced + (IF moved THEN 1 ELSE 0)
             now == x.now
             v == [IdleWorker EXCEPT !.pc = "loop", !.now = now, !.advanced = count,
                                     !.queue = queue]
  <1>1. worker' = [worker EXCEPT ![w] = v]
    BY DEF EndOccurrence
  <1> HIDE DEF queue, count, now
  <1>2. v.pc = "loop" /\ v.now = now
    BY DEF IdleWorker
  <1> HIDE DEF v
  <1>3. worker'[w] = v
    BY <1>1
  <1> QED BY <1>2, <1>3 DEF now

LEMMA PollFields ==
  ASSUME worker \in [Workers -> WorkerState], NEW w \in Workers,
         Poll(w) \/ EndPoll(w) \/ Crash(w)
  PROVE  worker'[w].pc \in {"idle", "loop"} /\ worker'[w].now \in {0, clock}
  <1>1. CASE Poll(w)
    <2>1. PICK ids : worker' = [worker EXCEPT ![w] =
                       [IdleWorker EXCEPT !.pc = "loop", !.now = clock, !.queue = ids]]
      BY <1>1 DEF Poll
    <2> DEFINE v == [IdleWorker EXCEPT !.pc = "loop", !.now = clock, !.queue = ids]
    <2>2. v.pc = "loop" /\ v.now = clock
      BY DEF IdleWorker
    <2>3. worker'[w] = v
      BY <2>1
    <2> HIDE DEF v
    <2> QED BY <2>2, <2>3
  <1>2. CASE EndPoll(w) \/ Crash(w)
    <2>1. worker'[w] = IdleWorker
      BY <1>2 DEF EndPoll, Crash
    <2> QED BY <2>1 DEF IdleWorker
  <1> QED BY <1>1, <1>2

\* An occurrence that goes on keeps what it has read.
LEMMA GoesOnFields ==
  ASSUME worker \in [Workers -> WorkerState], NEW w \in Workers, NEW pc,
         worker' = [worker EXCEPT ![w].pc = pc]
  PROVE  worker'[w].pc = pc /\ worker'[w].now = worker[w].now
         /\ worker'[w].rule = worker[w].rule /\ worker'[w].row = worker[w].row
  <1> DEFINE x == worker[w]
  <1>1. x \in WorkerState /\ worker'[w] = [x EXCEPT !.pc = pc]
    OBVIOUS
  <1> HIDE DEF x
  <1>2. LET y == [x EXCEPT !.pc = pc] IN
        y.pc = pc /\ y.now = x.now /\ y.rule = x.rule /\ y.row = x.row
    BY <1>1 DEF WorkerState
  <1> QED BY <1>1, <1>2 DEF x

\* What a worker that takes the next rule of its queue has read.
LEMMA LockRuleFields ==
  ASSUME worker \in [Workers -> WorkerState], NEW w \in Workers, LockRule(w)
  PROVE  LET r == Head(worker[w].queue) IN
         /\ worker'[w].now = worker[w].now
         /\ Due(rules[r], worker[w].now) =>
              /\ worker'[w].pc = "exists" /\ worker'[w].rule = r /\ worker'[w].row = rules[r]
         /\ ~Due(rules[r], worker[w].now) => worker'[w].pc = "loop"
  <1> DEFINE x == worker[w]
             r == Head(x.queue)
             row == rules[r]
             tail == Tail(x.queue)
             v == [x EXCEPT !.queue = tail, !.pc = "exists", !.rule = r, !.row = row]
             z == [x EXCEPT !.queue = tail]
  <1>1. x \in WorkerState /\ x.pc = "loop"
    BY DEF LockRule, HasNextRule
  <1>2. /\ Due(row, x.now) => worker'[w] = v
        /\ ~Due(row, x.now) => worker'[w] = z
    BY DEF LockRule
  <1> HIDE DEF x, r, row, tail
  <1>3. v.now = x.now /\ v.pc = "exists" /\ v.rule = r /\ v.row = row
        /\ z.now = x.now /\ z.pc = "loop"
    BY <1>1 DEF WorkerState
  <1> HIDE DEF v, z
  <1>4. /\ worker'[w].now = x.now
        /\ Due(row, x.now) => worker'[w].pc = "exists" /\ worker'[w].rule = r /\ worker'[w].row = row
        /\ ~Due(row, x.now) => worker'[w].pc = "loop"
    BY <1>2, <1>3
  <1> QED BY <1>4 DEF row, r, x

\* A poll reads the clock once and works by that reading.
LEMMA WorkerReadsClock ==
  ASSUME GenInv, NEW w \in Workers, Work(w) \/ LockRule(w) \/ LockPostingAccount(w) \/ Fault(w)
  PROVE  worker'[w].now <= clock /\ UNCHANGED clock
  <1>0. /\ worker \in [Workers -> WorkerState] /\ clock \in Nat /\ worker[w].now \in Nat
        /\ worker[w].now <= clock
    BY WorkerFields DEF GenInv, TypeInv, WorkerTypes, CountTypes, Timely
  <1>3. UNCHANGED clock
    BY DEF Work, LockRule, LockPostingAccount, Fault, Poll, EndPoll, CheckExists,
         CheckCategory, Generate, StatementFails, Crash, RuleFailed, EndOccurrence
  <1> SUFFICES worker'[w].now <= clock
    BY <1>3
  <1>1. CASE \E moved \in BOOLEAN : EndOccurrence(w, moved)
    BY <1>0, <1>1, EndOccurrenceFields
  <1>2. CASE Poll(w) \/ EndPoll(w) \/ Crash(w)
    BY <1>0, <1>2, PollFields
  <1>4. CASE LockRule(w) \/ LockPostingAccount(w)
    BY <1>0, <1>4, LockRuleFields DEF LockPostingAccount
  <1>5. CASE \/ worker' = [worker EXCEPT ![w].pc = "category"]
             \/ worker' = [worker EXCEPT ![w].pc = "lock"]
    BY <1>0, <1>5, GoesOnFields
  <1>6. CASE CheckExists(w) \/ CheckCategory(w)
    <2>1. CASE worker' = [worker EXCEPT ![w].pc = "category"]
      BY <1>5, <2>1
    <2>2. CASE worker' = [worker EXCEPT ![w].pc = "lock"]
      BY <1>5, <2>2
    <2>3. CASE EndOccurrence(w, TRUE) \/ EndOccurrence(w, FALSE)
      BY <1>1, <2>3
    <2> QED BY <1>6, <2>1, <2>2, <2>3 DEF CheckExists, CheckCategory, RuleFailed
  <1>7. CASE Generate(w) \/ StatementFails(w)
    <2>1. EndOccurrence(w, TRUE) \/ EndOccurrence(w, FALSE)
      BY <1>7 DEF Generate, StatementFails, RuleFailed
    <2> QED BY <1>1, <2>1
  <1> QED BY <1>2, <1>4, <1>6, <1>7 DEF Work, Fault

\* A worker's own step: it starts on a rule only under its lock and if it is
\* due, and goes on to insert only if the date is free.
LEMMA WorkerKeepsOwn ==
  ASSUME GenInv, NEW w \in Workers, Work(w) \/ LockRule(w) \/ LockPostingAccount(w) \/ Fault(w)
  PROVE  Steady(w)' /\ DateFree(w)'
  <1>0. LockTypes /\ RuleTypes /\ GeneratedTypes /\ worker \in [Workers -> WorkerState]
    BY DEF GenInv, TypeInv, WorkerTypes
  <1>1. CASE Poll(w) \/ EndPoll(w) \/ Crash(w) \/ \E moved \in BOOLEAN : EndOccurrence(w, moved)
    <2>1. CASE Poll(w) \/ EndPoll(w) \/ Crash(w)
      BY <1>0, <2>1, PollFields, NothingKept DEF InProgress
    <2>2. CASE \E moved \in BOOLEAN : EndOccurrence(w, moved)
      BY <1>0, <2>2, EndOccurrenceFields, NothingKept DEF InProgress
    <2> QED BY <1>1, <2>1, <2>2
  <1>2. CASE LockRule(w)
    <2> DEFINE r == Head(worker[w].queue)
    <2>1. /\ worker[w].queue \in Seq(Rules) /\ worker[w].queue # <<>> /\ worker[w].pc = "loop"
      BY <1>2, WorkerFields DEF GenInv, TypeInv, LockRule, HasNextRule
    <2>2. r \in Rules /\ <<"rule", r>> \in Lockable
      BY <2>1, Locks
    <2>3. CASE Due(rules[r], worker[w].now)
      <3>1. /\ worker'[w].pc = "exists" /\ worker'[w].rule = r /\ worker'[w].row = rules[r]
            /\ worker'[w].now = worker[w].now /\ holder'[<<"rule", r>>] = w /\ rules' = rules
        BY <1>0, <1>2, <2>2, <2>3, LockRuleFields DEF LockRule, LockTypes
      <3> QED BY <2>3, <3>1 DEF Steady, DateFree, Due, Pending
    <2>4. CASE ~Due(rules[r], worker[w].now)
      <3>1. worker'[w].pc = "loop"
        BY <1>0, <1>2, <2>4, LockRuleFields
      <3> QED BY <3>1, NothingKept DEF InProgress
    <2> QED BY <2>3, <2>4
  <1>3. CASE CheckExists(w) /\ ~Taken(w)
    <2>1. /\ worker'[w].pc = "category" /\ worker'[w].rule = worker[w].rule
          /\ worker'[w].row = worker[w].row /\ worker'[w].now = worker[w].now
          /\ worker[w].pc \in InProgress /\ UNCHANGED <<holder, rules, generated>>
      BY <1>0, <1>3, GoesOnFields DEF CheckExists, InProgress
    <2> QED BY <1>3, <2>1 DEF GenInv, Steady, DateFree, Taken, Due, Pending
  <1>4. CASE CheckCategory(w) /\ ~EndOccurrence(w, FALSE)
    <2>1. /\ worker'[w].pc = "lock" /\ worker'[w].rule = worker[w].rule
          /\ worker'[w].row = worker[w].row /\ worker'[w].now = worker[w].now
          /\ worker[w].pc = "category" /\ UNCHANGED <<holder, rules, generated>>
      BY <1>0, <1>4, GoesOnFields DEF CheckCategory, RuleFailed
    <2> QED BY <2>1 DEF GenInv, Steady, DateFree, Taken, Due, Pending, InProgress
  <1>5. CASE LockPostingAccount(w)
    <2>1. worker[w].pc = "lock" /\ UNCHANGED <<worker, rules, generated>>
      BY <1>5 DEF LockPostingAccount
    <2>2. \A x \in Lockable : holder[x] = w => holder'[x] = w
      BY <1>0, <1>5, TakingKeeps DEF LockPostingAccount
    <2>3. holder'[<<"rule", worker[w].rule>>] = w
      BY <2>1, <2>2, InProgressFacts, Locks DEF InProgress
    <2> QED BY <2>1, <2>3 DEF GenInv, Steady, DateFree, Taken, Due, Pending, InProgress
  <1>6. CASE (CheckExists(w) /\ Taken(w)) \/ Generate(w) \/ StatementFails(w)
    <2>1. \E moved \in BOOLEAN : EndOccurrence(w, moved)
      BY <1>6 DEF CheckExists, Generate, StatementFails, RuleFailed
    <2> QED BY <1>1, <2>1
  <1> QED BY <1>1, <1>2, <1>3, <1>4, <1>5, <1>6 DEF Work, Fault

\* The clock ticks and transactions are deleted; neither is a worker's concern.
LEMMA OutsideKeeps ==
  ASSUME GenInv, NEW w \in Workers,
         Tick \/ (\E r \in Rules, d \in Dates : DeleteGenerated(r, d)) \/ UNCHANGED vars
  PROVE  Undisturbed(w)
  <1>1. CASE Tick \/ UNCHANGED vars
    BY <1>1 DEF Tick, vars, Undisturbed
  <1>2. CASE \E r \in Rules, d \in Dates : DeleteGenerated(r, d)
    <2>1. PICK r \in Rules, d \in Dates : DeleteGenerated(r, d)
      BY <1>2
    <2>2. \A q \in Rules, e \in Dates :
            generated[q][e] = NoTransaction => generated'[q][e] = NoTransaction
      BY <2>1 DEF DeleteGenerated, GenInv, TypeInv, GeneratedTypes
    <2> QED BY <2>1, <2>2 DEF DeleteGenerated, Undisturbed
  <1> QED BY <1>1, <1>2

LEMMA InitGen == Init => GenInv
  <1> SUFFICES ASSUME Init PROVE GenInv
    OBVIOUS
  <1>1. Timely
    BY RecurringBoundsAssumption DEF Init, Timely, IdleWorker, OccursAt
  <1>2. \A w \in Workers : Steady(w) /\ DateFree(w)
    BY DEF Init, Steady, DateFree, IdleWorker, InProgress
  <1> QED BY <1>1, <1>2, InitTypes DEF GenInv

LEMMA NextGen ==
  ASSUME GenInv, [Next]_vars
  PROVE  GenInv'
  <1>0. TypeInv' /\ clock \in Nat /\ clock <= LastInstant
    BY NextTypes DEF GenInv, TypeInv, CountTypes, Timely
  <1>1. ASSUME NEW u \in Users, Begin(u) \/ LockRow(u) \/ ReadUsage(u) \/ Commit(u) \/ Rollback(u)
        PROVE  GenInv'
    <2>1. \A w \in Workers : Undisturbed(w) /\ UNCHANGED clock
      BY <1>1, RequestKeeps
    <2>2. \A w \in Workers : Steady(w)' /\ DateFree(w)'
      BY <2>1, UndisturbedKeeps
    <2>3. UNCHANGED clock
      BY <1>1, <2>1 DEF Begin, BeginCreate, BeginUpdate, BeginCategory, BeginGroup, BeginAccount,
         Arrive, LockRow, ReadUsage, Commit, CommitCreate, CommitUpdate, CommitCategory,
         CommitGroup, CommitAccount, Rollback, Reject, EndRequest
    <2>4. Timely'
      BY <2>1, <2>3 DEF GenInv, Timely, Undisturbed
    <2> QED BY <1>0, <2>2, <2>4 DEF GenInv
  <1>2. ASSUME NEW v \in Workers, Work(v) \/ LockRule(v) \/ LockPostingAccount(v) \/ Fault(v)
        PROVE  GenInv'
    <2>1. \A w \in Workers : w # v => Undisturbed(w)
      BY <1>2, WorkerKeepsOthers
    <2>2. \A w \in Workers : Steady(w)' /\ DateFree(w)'
      BY <1>2, <2>1, UndisturbedKeeps, WorkerKeepsOwn
    <2>3. worker'[v].now <= clock /\ UNCHANGED clock
      BY <1>2, WorkerReadsClock
    <2>4. Timely'
      BY <2>1, <2>3 DEF GenInv, Timely, Undisturbed
    <2> QED BY <1>0, <2>2, <2>4 DEF GenInv
  <1>3. ASSUME Tick \/ (\E r \in Rules, d \in Dates : DeleteGenerated(r, d)) \/ UNCHANGED vars
        PROVE  GenInv'
    <2>1. \A w \in Workers : Undisturbed(w)
      BY <1>3, OutsideKeeps
    <2>2. \A w \in Workers : Steady(w)' /\ DateFree(w)'
      BY <2>1, UndisturbedKeeps
    <2>3. clock <= clock' /\ clock' <= LastInstant
      BY <1>0, <1>3, RecurringBoundsAssumption DEF Tick, DeleteGenerated, vars
    <2>4. \A w \in Workers : worker[w].now \in Nat
      BY WorkerFields DEF GenInv, TypeInv
    <2>5. Timely'
      BY <1>0, <2>1, <2>3, <2>4 DEF GenInv, Timely, Undisturbed, TypeInv, CountTypes
    <2> QED BY <1>0, <2>2, <2>5 DEF GenInv
  <1> QED BY <1>1, <1>2, <1>3 DEF Next

\* The inductive invariant of generation.
LEMMA GenInvariant == Spec => []GenInv
  BY InitGen, NextGen, PTL DEF Spec

\* A worker about to insert never meets the unique constraint on rule and date
\* nor an optimistic lock: the row it read is the committed one and the date
\* is free, because the rule's lock is its own from the read to the commit.
THEOREM WorkersNeverCollide == Spec => []ConstraintNeverNeeded
  <1>1. GenInv => ConstraintNeverNeeded
    BY DEF GenInv, Steady, DateFree, ConstraintNeverNeeded, InProgress
  <1> QED BY <1>1, GenInvariant, PTL

(***************************************************************************)
(* What a step does to the transactions generated for a rule.              *)
(***************************************************************************)
GeneratedStep(r, d) ==
  IF generated[r][d] = NoTransaction
  THEN generated'[r][d] # NoTransaction =>
         /\ Due(rules[r], clock) /\ rules[r].next = d
         /\ generated'[r][d].posting = rules[r].content.posting
         /\ rules'[r].content = rules[r].content
         /\ rules'[r].next = NoDate \/ rules'[r].next > d
  ELSE generated'[r][d] \in {generated[r][d], [generated[r][d] EXCEPT !.status = "DELETED"]}

\* The row a worker writes: a later cursor, the same content.
LEMMA AdvancedRow ==
  ASSUME GenInv, NEW w \in Workers, worker[w].pc \in InProgress, AdvanceCursor(w)
  PROVE  LET row == worker[w].row
             n == NextAfter(row.content, row.next)
             new == rules'[worker[w].rule] IN
         /\ new \in RuleRow /\ new.content = row.content /\ new.present = row.present
         /\ new.next = n /\ n \in Nat /\ (n # NoDate => n > row.next)
         /\ \A q \in Rules : q # worker[w].rule => rules'[q] = rules[q]
  <1> DEFINE row == worker[w].row
             n == NextAfter(row.content, row.next)
             new == [row EXCEPT !.next = n, !.version = @ + 1]
  <1>1. /\ worker[w].rule \in Rules /\ row \in RuleRow /\ row.next \in Nat \ {0}
        /\ row.content \in Template
    BY InProgressFacts
  <1>2. rules' = [rules EXCEPT ![worker[w].rule] = new]
    BY DEF AdvanceCursor
  <1>3. rules'[worker[w].rule] = new /\ \A q \in Rules : q # worker[w].rule => rules'[q] = rules[q]
    BY <1>1, <1>2 DEF GenInv, TypeInv, RuleTypes
  <1> HIDE DEF row
  <1>4. n \in Nat /\ (n # NoDate => n > row.next)
    <2>1. Schedulable(row.content) /\ row.content.end \in Nat /\ row.next \in Int
      BY <1>1, TemplateFields
    <2> QED BY <2>1, NextAfterFirst
  <1> HIDE DEF n
  <1>5. new \in RuleRow /\ new.content = row.content /\ new.next = n /\ new.present = row.present
    BY <1>1, <1>4, MovedRow
  <1> HIDE DEF new
  <1> QED BY <1>3, <1>4, <1>5 DEF n, row

\* A transaction is generated by Generate alone, from the row under its lock.
LEMMA GenerateOnce ==
  ASSUME GenInv, [Next]_vars, NEW r \in Rules, NEW d \in Dates
  PROVE  GeneratedStep(r, d)
  <1>0. GeneratedTypes /\ RuleTypes
    BY DEF GenInv, TypeInv
  <1>1. CASE UNCHANGED generated
    BY <1>1 DEF GeneratedStep
  <1>2. CASE \E q \in Rules, e \in Dates : DeleteGenerated(q, e)
    <2>1. PICK q \in Rules, e \in Dates : DeleteGenerated(q, e)
      BY <1>2
    <2>2. /\ generated[q][e] # NoTransaction
          /\ generated' = [generated EXCEPT ![q] =
                             [generated[q] EXCEPT ![e] = [generated[q][e] EXCEPT !.status = "DELETED"]]]
      BY <1>0, <2>1 DEF DeleteGenerated, GeneratedTypes
    <2> DEFINE x == [generated[q][e] EXCEPT !.status = "DELETED"]
    <2>3. generated'[q][e] = x /\ (q # r \/ d # e => generated'[r][d] = generated[r][d])
      BY <1>0, <2>2 DEF GeneratedTypes
    <2> HIDE DEF x
    <2>4. CASE q = r /\ d = e
      BY <2>2, <2>3, <2>4 DEF GeneratedStep, x
    <2>5. CASE ~(q = r /\ d = e)
      BY <2>3, <2>5 DEF GeneratedStep
    <2> QED BY <2>4, <2>5
  <1>3. CASE \E w \in Workers : Generate(w) /\ ~UNCHANGED generated
    <2>1. PICK w \in Workers : Generate(w) /\ ~UNCHANGED generated
      BY <1>3
    <2> DEFINE row == worker[w].row
               q == worker[w].rule
               e == row.next
               x == [status |-> "ACTIVE", posting |-> row.content.posting]
    <2>2. /\ worker[w].pc = "lock" /\ worker[w].pc \in InProgress /\ AdvanceCursor(w)
          /\ generated' = [generated EXCEPT ![q][e] = x] /\ generated[q][e] = NoTransaction
      BY <2>1 DEF Generate, RuleFailed, InProgress, Taken
    <2>3. q \in Rules /\ e \in Dates /\ rules[q] = row /\ Due(row, clock)
      <3>1. /\ q \in Rules /\ e \in Dates /\ rules[q] = row /\ Due(row, worker[w].now)
            /\ row \in RuleRow /\ worker[w].now \in Int /\ clock \in Int /\ worker[w].now <= clock
        BY <2>2, InProgressFacts
      <3> HIDE DEF row
      <3> QED BY <3>1, DueStays
    <2>4. /\ rules'[q].content = row.content /\ rules'[q].next \in Nat
          /\ rules'[q].next # NoDate => rules'[q].next > row.next
      BY <2>2, AdvancedRow
    <2>5. generated'[q][e] = x /\ (q # r \/ d # e => generated'[r][d] = generated[r][d])
      BY <1>0, <2>2, <2>3 DEF GeneratedTypes
    <2>6. CASE q = r /\ d = e
      BY <2>2, <2>3, <2>4, <2>5, <2>6 DEF GeneratedStep
    <2>7. CASE ~(q = r /\ d = e)
      BY <2>5, <2>7 DEF GeneratedStep
    <2> QED BY <2>6, <2>7
  <1>4. CASE \E w \in Workers : \/ Work(w) /\ ~Generate(w)
                                \/ LockRule(w) \/ LockPostingAccount(w) \/ Fault(w)
    BY <1>1, <1>4 DEF Work, Poll, EndPoll, CheckExists, CheckCategory, LockRule,
       LockPostingAccount, Fault, StatementFails, Crash, RuleFailed
  <1>5. CASE \E u \in Users : Begin(u) \/ LockRow(u) \/ ReadUsage(u) \/ Commit(u) \/ Rollback(u)
    BY <1>1, <1>5 DEF Begin, BeginCreate, BeginUpdate, BeginCategory, BeginGroup, BeginAccount,
       Arrive, LockRow, ReadUsage, Commit, CommitCreate, CommitUpdate, CommitCategory,
       CommitGroup, CommitAccount, Rollback, Reject
  <1>6. CASE Tick \/ UNCHANGED vars
    BY <1>1, <1>6 DEF Tick, vars
  <1> QED BY <1>1, <1>2, <1>3, <1>4, <1>5, <1>6 DEF Next

\* A transaction appears only for the cursor date of an active rule that has
\* come, with the posting of that commit, which also moves the cursor past it;
\* it is never generated again, deleted or not.
THEOREM GeneratedOnce == Spec => GeneratedOnceFromRule
  <1>1. ASSUME GenInv, [Next]_vars
        PROVE  [\A r \in Rules, d \in Dates : GeneratedStep(r, d)]_vars
    BY <1>1, GenerateOnce
  <1>2. GeneratedOnceFromRule <=> [][\A r \in Rules, d \in Dates : GeneratedStep(r, d)]_vars
    BY DEF GeneratedOnceFromRule, GeneratedStep
  <1> QED BY <1>1, <1>2, GenInvariant, PTL DEF Spec

(***************************************************************************)
(* Cursors and schedules: what creating, editing and advancing a rule make *)
(* of its row, its last edit's cursor and the dates already generated.     *)
(***************************************************************************)
\* The two properties, for one rule.
CursorSound(row) == Pending(row) => Occurrence(row.content, row.next)

Covered(row, from, done) ==
  \A d \in Dates :
    /\ row.present /\ row.content.active /\ from # NoDate /\ from <= d
    /\ row.next = NoDate \/ d < row.next
    /\ Occurrence(row.content, d)
    => done[d] # NoTransaction

\* Occurrence, which asks the schedule about a date, is membership in it.
LEMMA OccurrencesOnSchedule ==
  ASSUME NEW t \in Template, NEW d \in Int
  PROVE  Occurrence(t, d) <=> OnSchedule(t, d) /\ Within(t, d)
  <1> DEFINE open == [t EXCEPT !.end = NoDate]
  <1>1. Schedulable(t)
    BY TemplateFields
  <1>2. /\ open.start = t.start /\ open.every = t.every /\ open.frequency = t.frequency
        /\ open.end = NoDate
    BY DEF Template
  <1> HIDE DEF open
  <1>3. Schedulable(open) /\ FollowingDate(open, d - 1) = FollowingDate(t, d - 1)
    BY <1>1, <1>2 DEF Schedulable, FollowingDate
  <1>4. FirstOnOrAfter(open, d) = FollowingDate(t, d - 1)
    <2>1. FirstOnOrAfter(open, d) = NextAfter(open, d - 1)
      BY <1>3, FirstOnOrAfterIsNext
    <2>2. NextAfter(open, d - 1) = FollowingDate(open, d - 1)
      BY <1>2 DEF NextAfter, FollowingDate, Bounded
    <2> QED BY <1>3, <2>1, <2>2
  <1>5. OnSchedule(t, d) <=> FollowingDate(t, d - 1) = d
    BY <1>1, ScheduledFollows
  <1>6. OnSchedule(t, d) => d >= t.start
    BY <1>1, ScheduledDate
  <1>7. Occurrence(t, d) <=> d >= t.start /\ Within(t, d) /\ d = FirstOnOrAfter(open, d)
    BY DEF Occurrence, Within, open
  <1> QED BY <1>4, <1>5, <1>6, <1>7

\* A rule begins on its start, and owes nothing yet.
LEMMA CreatedSound ==
  ASSUME NEW t \in Template, NEW row, row.content = t, row.next = Bounded(t.start, t.end), NEW done
  PROVE  CursorSound(row) /\ Covered(row, row.next, done)
  <1>1. t.start \in Nat \ {0} /\ t.end \in Nat /\ Schedulable(t)
    BY TemplateFields DEF Schedulable
  <1>2. OnSchedule(t, t.start)
    BY <1>1, DatesRise DEF OnSchedule
  <1>3. row.next = t.start \/ row.next = NoDate
    BY DEF Bounded
  <1>4. row.next # NoDate => Within(t, row.next)
    BY <1>1 DEF Bounded, Within, NoDate
  <1>5. CursorSound(row)
    BY <1>1, <1>2, <1>3, <1>4, OccurrencesOnSchedule DEF CursorSound, Pending
  <1>6. Covered(row, row.next, done)
    <2>1. \A d \in Dates : d \in Int
      BY DEF Dates
    <2>2. row.next \in Int
      BY <1>1, <1>3 DEF NoDate
    <2> QED BY <2>1, <2>2 DEF Covered
  <1> QED BY <1>5, <1>6

\* Only frequency, interval and start make the schedule.
LEMMA SameSchedule ==
  ASSUME NEW s, NEW t, s.frequency = t.frequency, s.every = t.every, s.start = t.start, NEW d
  PROVE  OnSchedule(s, d) <=> OnSchedule(t, d)
  BY DEF OnSchedule, Date

\* An edit that keeps the cursor keeps it sound and covered ...
LEMMA KeptSound ==
  ASSUME NEW row \in RuleRow, row.present => NextDateInRange(row.content, row.next),
         CursorSound(row), NEW from \in Nat, NEW done, Covered(row, from, done),
         NEW t \in Template, ~Recomputed(row, t),
         NEW new, new.content = t, new.next = row.next, new.present = row.present,
         NextDateInRange(t, row.next)
  PROVE  CursorSound(new) /\ Covered(new, from, done)
  <1>1. CASE t.active /\ row.present
    <2>1. /\ row.content.active /\ row.content.frequency = t.frequency
          /\ row.content.every = t.every /\ row.content.start = t.start
          /\ row.content.end = t.end \/ CursorWithin(row, t)
      BY <1>1 DEF Recomputed, ScheduleChanged
    <2>2. row.content \in Template /\ row.next \in Nat /\ t.end \in Nat /\ row.content.end \in Nat
      BY TemplateFields DEF RuleRow
    <2>3. \A d \in Int : OnSchedule(row.content, d) <=> OnSchedule(t, d)
      BY <2>1, SameSchedule
    <2>4. CursorSound(new)
      <3>1. CASE row.next = NoDate
        BY <3>1 DEF CursorSound, Pending
      <3>2. CASE row.next # NoDate
        <4>1. OnSchedule(t, row.next)
          BY <1>1, <2>1, <2>2, <2>3, <3>2, OccurrencesOnSchedule DEF CursorSound, Pending
        <4>2. Within(t, row.next)
          BY <3>2 DEF NextDateInRange, Within
        <4> QED BY <2>2, <4>1, <4>2, OccurrencesOnSchedule DEF CursorSound
      <3> QED BY <3>1, <3>2
    <2>5. ASSUME NEW d \in Dates, from # NoDate, from <= d, row.next = NoDate \/ d < row.next,
                 Occurrence(t, d)
          PROVE  done[d] # NoTransaction
      <3>1. d \in Int /\ d >= 1
        BY DEF Dates
      <3>2. OnSchedule(row.content, d) /\ Within(t, d)
        BY <2>3, <2>5, <3>1, OccurrencesOnSchedule
      <3>3. Within(row.content, d)
        <4>1. CASE row.content.end = t.end
          BY <3>2, <4>1 DEF Within
        <4>2. CASE CursorWithin(row, t)
          BY <1>1, <2>2, <2>5, <3>1, <4>2 DEF CursorWithin, NextDateInRange, Within
        <4> QED BY <2>1, <4>1, <4>2
      <3>4. Occurrence(row.content, d)
        BY <2>2, <3>1, <3>2, <3>3, OccurrencesOnSchedule
      <3> QED BY <1>1, <2>1, <2>5, <3>4 DEF Covered
    <2> QED BY <2>4, <2>5 DEF Covered
  <1>2. CASE ~(t.active /\ row.present)
    BY <1>2 DEF CursorSound, Covered, Pending
  <1> QED BY <1>1, <1>2

\* ... and one that computes it anew begins a schedule on a date of it.
LEMMA RecomputedSound ==
  ASSUME NEW t \in Template, NEW instant \in Int,
         NEW new, new.content = t, new.next = FirstAfterInstant(t, instant), NEW done
  PROVE  CursorSound(new) /\ Covered(new, new.next, done)
  <1>1. /\ new.next \in Nat
        /\ new.next # NoDate => OnSchedule(t, new.next) /\ Within(t, new.next)
    BY TemplateFields, FirstAfterInstantFirst
  <1>2. CursorSound(new)
    BY <1>1, OccurrencesOnSchedule DEF CursorSound, Pending
  <1>3. \A d \in Dates : d \in Int
    BY DEF Dates
  <1> QED BY <1>1, <1>2, <1>3 DEF Covered

\* A rule that moves on leaves no date behind.
LEMMA AdvancedSound ==
  ASSUME NEW row \in RuleRow, row.next # NoDate, row.content.active, row.present,
         NEW from, NEW done, Covered(row, from, done),
         NEW later, later[row.next] # NoTransaction,
         \A d \in Dates : done[d] # NoTransaction => later[d] # NoTransaction,
         NEW new, new.content = row.content, new.next = NextAfter(row.content, row.next)
  PROVE  CursorSound(new) /\ Covered(new, from, later)
  <1> DEFINE t == row.content
  <1>1. t \in Template /\ row.next \in Nat /\ Schedulable(t) /\ t.end \in Nat
    BY TemplateFields DEF RuleRow
  <1> HIDE DEF t
  <1>2. /\ new.next \in Nat
        /\ new.next # NoDate => OnSchedule(t, new.next) /\ Within(t, new.next)
        /\ \A d : OnSchedule(t, d) /\ Within(t, d) /\ d > row.next =>
             new.next # NoDate /\ new.next <= d
    BY <1>1, NextAfterFirst DEF t
  <1>3. CursorSound(new)
    BY <1>1, <1>2, OccurrencesOnSchedule DEF CursorSound, Pending, t
  <1>4. ASSUME NEW d \in Dates, from # NoDate, from <= d, new.next = NoDate \/ d < new.next,
               Occurrence(t, d)
        PROVE  later[d] # NoTransaction
    <2>1. d \in Int
      BY DEF Dates
    <2>2. OnSchedule(t, d) /\ Within(t, d)
      BY <1>1, <1>4, <2>1, OccurrencesOnSchedule
    <2>3. ~(d > row.next)
      BY <1>2, <1>4, <2>1, <2>2
    <2>4. CASE d = row.next
      BY <2>4
    <2>5. CASE d < row.next
      BY <1>4, <2>5 DEF Covered, t
    <2> QED BY <1>1, <2>1, <2>3, <2>4, <2>5
  <1> QED BY <1>3, <1>4 DEF Covered, t

CursorInv ==
  GenInv /\ \A r \in Rules : CursorSound(rules[r]) /\ Covered(rules[r], since[r], generated[r])

LEMMA InitCursor == Init => CursorInv
  <1>1. ~AbsentRule.present
    BY AbsentRuleType
  <1>2. ASSUME Init, NEW r \in Rules
        PROVE  CursorSound(rules[r]) /\ Covered(rules[r], since[r], generated[r])
    BY <1>1, <1>2 DEF Init, CursorSound, Covered, Pending
  <1> QED BY <1>2, InitGen DEF CursorInv

\* A generated transaction is never taken off its date.
LEMMA GeneratedStays ==
  ASSUME GenInv, [Next]_vars, NEW r \in Rules, NEW d \in Dates, generated[r][d] # NoTransaction
  PROVE  generated'[r][d] # NoTransaction
  <1> DEFINE x == generated[r][d]
             y == [x EXCEPT !.status = "DELETED"]
  <1>1. generated'[r][d] \in {x, y}
    BY GenerateOnce DEF GeneratedStep
  <1>2. x \in [status: {"ACTIVE", "DELETED"}, posting: Posting]
    BY DEF GenInv, TypeInv, GeneratedTypes, Generated
  <1> HIDE DEF x
  <1>3. y.status = "DELETED"
    BY <1>2
  <1>4. y # NoTransaction
    BY <1>3 DEF NoTransaction
  <1> QED BY <1>1, <1>4 DEF x

\* A rule that the step leaves alone.
LEMMA UnchangedSound ==
  ASSUME CursorInv, [Next]_vars, NEW r \in Rules, rules'[r] = rules[r], since'[r] = since[r]
  PROVE  CursorSound(rules'[r]) /\ Covered(rules'[r], since'[r], generated'[r])
  <1>1. \A d \in Dates : generated[r][d] # NoTransaction => generated'[r][d] # NoTransaction
    BY GeneratedStays DEF CursorInv
  <1> QED BY <1>1 DEF CursorInv, Covered

LEMMA CommitCreateSound ==
  ASSUME CursorInv, [Next]_vars, NEW u \in Users, CommitCreate(u), NEW r \in Rules
  PROVE  CursorSound(rules'[r]) /\ Covered(rules'[r], since'[r], generated'[r])
  <1> DEFINE t == user[u].req.content
             n == Bounded(t.start, t.end)
             row == [content |-> t, present |-> TRUE, version |-> 0, next |-> n]
  <1>1. t \in Template /\ rules \in [Rules -> RuleRow] /\ since \in [Rules -> Nat]
    BY UserRequest, RequestFields DEF CursorInv, GenInv, TypeInv, RuleTypes, CommitCreate, Locked
  <1>2. PICK q \in Rules : rules' = [rules EXCEPT ![q] = row] /\ since' = [since EXCEPT ![q] = n]
    BY DEF CommitCreate
  <1>3. CASE q = r
    <2>1. rules'[r] = row /\ since'[r] = n
      BY <1>1, <1>2, <1>3
    <2> HIDE DEF t
    <2>2. row.content = t /\ row.next = n
      OBVIOUS
    <2> HIDE DEF row
    <2> QED BY <1>1, <2>1, <2>2, CreatedSound
  <1>4. CASE q # r
    BY <1>1, <1>2, <1>4, UnchangedSound
  <1> QED BY <1>3, <1>4

LEMMA CommitUpdateSound ==
  ASSUME CursorInv, [Next]_vars, NEW u \in Users, CommitUpdate(u), NEW r \in Rules
  PROVE  CursorSound(rules'[r]) /\ Covered(rules'[r], since'[r], generated'[r])
  <1> DEFINE q == user[u].req
             row == rules[q.rule]
             t == q.content
             n == NextDateAfterUpdate(row, t, user[u].now)
             new == [row EXCEPT !.content = t, !.next = n]
             saved == SavedRule(row, new)
             m == IF Recomputed(row, t) THEN n ELSE since[q.rule]
  <1>1. CASE Reject(u)
    BY <1>1, UnchangedSound DEF Reject
  <1>2. CASE ~Reject(u)
    <2>1. q.rule \in Rules /\ t \in Template /\ user[u].now \in Nat
      BY UserRequest, RequestFields DEF CursorInv, GenInv, TypeInv, CommitUpdate, Locked
    <2>2. /\ rules \in [Rules -> RuleRow] /\ since \in [Rules -> Nat]
          /\ row.present => NextDateInRange(row.content, row.next)
      BY <2>1 DEF CursorInv, GenInv, TypeInv, RuleTypes
    <2>3. /\ NextDateInRange(t, n)
          /\ rules' = [rules EXCEPT ![q.rule] = saved]
          /\ since' = [since EXCEPT ![q.rule] = m]
          /\ UNCHANGED generated
      BY <1>2, <2>1, <2>2 DEF CommitUpdate
    <2>4. CASE q.rule = r
      <3>1. rules'[r] = saved /\ since'[r] = m /\ row \in RuleRow /\ since[r] \in Nat
            /\ row = rules[r]
        BY <2>2, <2>3, <2>4
      <3>2. CursorSound(row) /\ Covered(row, since[r], generated[r])
        BY <2>4 DEF CursorInv
      <3>3. m = IF Recomputed(row, t) THEN n ELSE since[r]
        BY <2>4
      <3>4. n = IF Recomputed(row, t) THEN FirstAfterInstant(t, user[u].now) ELSE row.next
        BY DEF NextDateAfterUpdate
      <3>5. n \in Nat
        BY <2>1, <3>1, EditedCursor
      <3> HIDE DEF q, row, t, n
      <3>6. new \in RuleRow /\ new.content = t /\ new.next = n /\ new.present = row.present
        BY <2>1, <3>1, <3>5 DEF RuleRow
      <3> HIDE DEF new
      <3>7. saved.content = t /\ saved.next = n /\ saved.present = row.present
        BY <3>1, <3>6, SavedRuleType
      <3> HIDE DEF saved, m
      <3>8. CASE Recomputed(row, t)
        BY <2>1, <2>3, <3>1, <3>3, <3>4, <3>7, <3>8, RecomputedSound
      <3>9. CASE ~Recomputed(row, t)
        <4>1. n = row.next /\ m = since[r]
          BY <3>3, <3>4, <3>9
        <4>2. CursorSound(saved) /\ Covered(saved, since[r], generated[r])
          BY <2>1, <2>2, <2>3, <3>1, <3>2, <3>7, <3>9, <4>1, KeptSound
        <4> QED BY <2>3, <3>1, <4>1, <4>2
      <3> QED BY <3>8, <3>9
    <2>5. CASE q.rule # r
      BY <2>2, <2>3, <2>5, UnchangedSound
    <2> QED BY <2>4, <2>5
  <1> QED BY <1>1, <1>2

\* A worker moves a cursor only when its date has a transaction.
LEMMA AdvanceSound ==
  ASSUME CursorInv, [Next]_vars, NEW w \in Workers, worker[w].pc \in InProgress,
         AdvanceCursor(w), UNCHANGED since,
         generated'[worker[w].rule][worker[w].row.next] # NoTransaction, NEW r \in Rules
  PROVE  CursorSound(rules'[r]) /\ Covered(rules'[r], since'[r], generated'[r])
  <1> DEFINE row == worker[w].row
  <1>1. /\ row \in RuleRow /\ row.next \in Nat \ {0} /\ row.present /\ Due(row, worker[w].now)
        /\ rules[worker[w].rule] = row
    BY InProgressFacts DEF CursorInv
  <1>2. CASE r = worker[w].rule
    <2>1. rules'[r].content = row.content /\ rules'[r].next = NextAfter(row.content, row.next)
      BY <1>2, AdvancedRow DEF CursorInv
    <2>2. \A d \in Dates : generated[r][d] # NoTransaction => generated'[r][d] # NoTransaction
      BY GeneratedStays DEF CursorInv
    <2>3. Covered(row, since[r], generated[r])
      BY <1>1, <1>2 DEF CursorInv
    <2>4. generated'[r][row.next] # NoTransaction
      BY <1>2
    <2> HIDE DEF row
    <2>5. row.content.active /\ row.next # NoDate
      BY <1>1 DEF Due, Pending
    <2> QED BY <1>1, <2>1, <2>2, <2>3, <2>4, <2>5, AdvancedSound
  <1>3. CASE r # worker[w].rule
    <2>1. rules'[r] = rules[r]
      BY <1>3, AdvancedRow DEF CursorInv
    <2> QED BY <2>1, UnchangedSound
  <1> QED BY <1>2, <1>3

LEMMA WorkSound ==
  ASSUME CursorInv, [Next]_vars, NEW w \in Workers,
         Work(w) \/ LockRule(w) \/ LockPostingAccount(w) \/ Fault(w), NEW r \in Rules
  PROVE  CursorSound(rules'[r]) /\ Covered(rules'[r], since'[r], generated'[r])
  <1>1. CASE UNCHANGED <<rules, since>>
    BY <1>1, UnchangedSound
  <1>2. CASE CheckExists(w) /\ ~UNCHANGED <<rules, since>>
    <2>1. /\ worker[w].pc \in InProgress /\ AdvanceCursor(w) /\ UNCHANGED <<since, generated>>
          /\ Taken(w)
      BY <1>2 DEF CheckExists, RuleFailed, EndOccurrence, InProgress
    <2> QED BY <2>1, AdvanceSound DEF Taken
  <1>3. CASE Generate(w) /\ ~UNCHANGED <<rules, since>>
    <2> DEFINE q == worker[w].rule
               d == worker[w].row.next
               x == [status |-> "ACTIVE", posting |-> worker[w].row.content.posting]
    <2>1. /\ worker[w].pc \in InProgress /\ AdvanceCursor(w) /\ UNCHANGED since
          /\ generated' = [generated EXCEPT ![q][d] = x]
      BY <1>3 DEF Generate, RuleFailed, EndOccurrence, InProgress
    <2>2. q \in Rules /\ d \in Dates
      BY <2>1, InProgressFacts DEF CursorInv
    <2>3. generated'[q][d] = x
      BY <2>1, <2>2 DEF CursorInv, GenInv, TypeInv, GeneratedTypes
    <2>4. x # NoTransaction
      <3>1. x.status # NoTransaction.status
        BY DEF NoTransaction
      <3> QED BY <3>1
    <2> QED BY <2>1, <2>3, <2>4, AdvanceSound
  <1>4. CASE \/ Work(w) /\ ~CheckExists(w) /\ ~Generate(w)
             \/ LockRule(w) \/ LockPostingAccount(w) \/ Fault(w)
    BY <1>1, <1>4 DEF Work, Poll, EndPoll, CheckCategory, LockRule, LockPostingAccount, Fault,
       StatementFails, Crash, RuleFailed, EndOccurrence
  <1> QED BY <1>1, <1>2, <1>3, <1>4

LEMMA NextCursor ==
  ASSUME CursorInv, [Next]_vars
  PROVE  CursorInv'
  <1>0. GenInv'
    BY NextGen DEF CursorInv
  <1>1. ASSUME NEW r \in Rules
        PROVE  CursorSound(rules'[r]) /\ Covered(rules'[r], since'[r], generated'[r])
    <2>1. CASE UNCHANGED <<rules, since>>
      BY <2>1, UnchangedSound
    <2>2. CASE \E u \in Users : Commit(u)
      <3>1. PICK u \in Users : Commit(u)
        BY <2>2
      <3>2. CASE CommitCategory(u) \/ CommitGroup(u) \/ CommitAccount(u)
        BY <2>1, <3>2 DEF CommitCategory, CommitGroup, CommitAccount
      <3> QED BY <3>1, <3>2, CommitCreateSound, CommitUpdateSound DEF Commit
    <2>3. CASE \E w \in Workers : Work(w) \/ LockRule(w) \/ LockPostingAccount(w) \/ Fault(w)
      BY <2>3, WorkSound
    <2>4. CASE \E u \in Users : Begin(u) \/ LockRow(u) \/ ReadUsage(u) \/ Rollback(u)
      BY <2>1, <2>4 DEF Begin, BeginCreate, BeginUpdate, BeginCategory, BeginGroup, BeginAccount,
         Arrive, LockRow, ReadUsage, Rollback, Reject
    <2>5. CASE Tick \/ (\E q \in Rules, d \in Dates : DeleteGenerated(q, d)) \/ UNCHANGED vars
      BY <2>1, <2>5 DEF Tick, DeleteGenerated, vars
    <2> QED BY <2>2, <2>3, <2>4, <2>5 DEF Next
  <1> QED BY <1>0, <1>1 DEF CursorInv, CursorSound, Covered, Pending, Occurrence

LEMMA CursorInvariant == Spec => []CursorInv
  BY InitCursor, NextCursor, PTL DEF Spec

\* The cursor of an active rule is a date of the schedule it has now, whatever
\* edits, resumptions and advances went before.
THEOREM CursorStaysOnSchedule == Spec => []ActiveCursorOnSchedule
  <1>1. CursorInv => ActiveCursorOnSchedule
    BY DEF CursorInv, CursorSound, ActiveCursorOnSchedule
  <1> QED BY <1>1, CursorInvariant, PTL

\* No date of the schedule, from the last edit's cursor up to the present one,
\* is without its transaction.
THEOREM NoOccurrenceLost == Spec => []NothingLost
  <1>1. CursorInv => NothingLost
    BY DEF CursorInv, Covered, NothingLost
  <1> QED BY <1>1, CursorInvariant, PTL

(***************************************************************************)
(* What rules refer to. A request that saves a rule has checked, under     *)
(* their locks, the category, group and accounts it refers to; one that    *)
(* changes a category, group or account has found, under its locks, no     *)
(* rule in the way. Neither check can go stale before the commit.          *)
(***************************************************************************)
CategoryChecked(u, t) ==
  LET c == t.category
      g == categories[c].group
  IN  /\ c # NoCategory /\ holder[<<"category", c>>] = u
      /\ g = NoGroup \/ holder[<<"group", g>>] = u
      => CategoryUsable(c)

CategoryFirst(u, t) ==
  t.category # NoCategory /\ holder[<<"category", t.category>>] # u =>
    \A g \in Groups : holder[<<"group", g>>] # u

AccountsChecked(u, t) ==
  (\A a \in AccountsOf(t.posting) : holder[<<"account", a>>] = u) =>
    PostingAllowed(t.posting, accounts)

EditInv(u) ==
  LET t == user[u].req.content
  IN  EditsRule(u) => CategoryChecked(u, t) /\ CategoryFirst(u, t) /\ AccountsChecked(u, t)

\* A category PATCH into a group found the group in use.
GroupChecked(u) ==
  LET q == user[u].req
  IN  /\ q.op = "category" /\ q.content.group # NoGroup
      /\ holder[<<"group", q.content.group>>] = u
      => q.content.archived \/ ~groups[q.content.group]

\* What RecurringReferenceGuard found still holds.
UsageChecked(u) ==
  LET q == user[u].req
  IN  user[u].pc = "commit" =>
        /\ Missing(u) = {}
        /\ q.op = "category" /\ q.content.archived => ~CategoryInUse(q.category)
        /\ q.op = "group" /\ q.archived => ~GroupInUse(q.group)
        /\ q.op = "account" => ~AccountInUse(q.account, q.content)

IdleFree(u) ==
  user[u].pc = "idle" => user[u].req.op = "none" /\ \A x \in Lockable : holder[x] # u

RequestInv(u) == EditInv(u) /\ GroupChecked(u) /\ UsageChecked(u) /\ IdleFree(u)

RefInv == CursorInv /\ ActiveReferencesUsable /\ \A u \in Users : RequestInv(u)

\* The locks of a rule's references, which the request for it wants.
LEMMA EditLocks ==
  ASSUME NEW u \in Users, EditsRule(u)
  PROVE  LET t == user[u].req.content
             c == t.category IN
         /\ TemplateLocks(t) \subseteq Wanted(u)
         /\ \A x \in Wanted(u) :
              \/ x[1] = "rule" \/ (x = <<"category", c>> /\ c # NoCategory)
              \/ /\ c # NoCategory /\ categories[c].group # NoGroup
                 /\ x = <<"group", categories[c].group>>
              \/ \E a \in AccountsOf(t.posting) : x = <<"account", a>>
  <1> DEFINE t == user[u].req.content
             c == t.category
  <1>1. Wanted(u) = TemplateLocks(t) \/ Wanted(u) = Rows("rule", {user[u].req.rule}) \union TemplateLocks(t)
    BY SessionsDiffer DEF Wanted, EditsRule
  <1>2. \A x \in TemplateLocks(t) :
              \/ x = <<"category", c>> /\ c # NoCategory
              \/ /\ c # NoCategory /\ categories[c].group # NoGroup
                 /\ x = <<"group", categories[c].group>>
              \/ \E a \in AccountsOf(t.posting) : x = <<"account", a>>
    BY DEF TemplateLocks, Rows
  <1>3. \A x \in Rows("rule", {user[u].req.rule}) : x[1] = "rule"
    BY DEF Rows
  <1>4. TemplateLocks(t) \subseteq Wanted(u)
    BY <1>1
  <1>5. ASSUME NEW x \in Wanted(u)
        PROVE  \/ x[1] = "rule" \/ (x = <<"category", c>> /\ c # NoCategory)
               \/ /\ c # NoCategory /\ categories[c].group # NoGroup
                  /\ x = <<"group", categories[c].group>>
               \/ \E a \in AccountsOf(t.posting) : x = <<"account", a>>
    BY <1>1, <1>2, <1>3
  <1> QED BY <1>4, <1>5

LEMMA LocksOfTemplate ==
  ASSUME NEW t
  PROVE  /\ t.category # NoCategory => <<"category", t.category>> \in TemplateLocks(t)
         /\ t.category # NoCategory /\ categories[t.category].group # NoGroup =>
              <<"group", categories[t.category].group>> \in TemplateLocks(t)
         /\ \A a \in AccountsOf(t.posting) : <<"account", a>> \in TemplateLocks(t)
  BY DEF TemplateLocks, Rows

\* With every lock taken the request has checked everything.
LEMMA EditChecked ==
  ASSUME NEW u \in Users, EditsRule(u), EditInv(u), Missing(u) = {}
  PROVE  LET t == user[u].req.content IN
         /\ CategoryUsable(t.category) /\ PostingAllowed(t.posting, accounts)
         /\ \A x \in TemplateLocks(t) : holder[x] = u
  <1> DEFINE t == user[u].req.content
  <1>1. \A x \in TemplateLocks(t) : holder[x] = u
    BY EditLocks DEF Missing
  <1>2. PostingAllowed(t.posting, accounts)
    BY <1>1, LocksOfTemplate DEF EditInv, AccountsChecked
  <1>3. CategoryUsable(t.category)
    <2>1. CASE t.category = NoCategory
      BY <2>1 DEF CategoryUsable
    <2>2. CASE t.category # NoCategory
      BY <1>1, <2>2, LocksOfTemplate DEF EditInv, CategoryChecked
    <2> QED BY <2>1, <2>2
  <1> QED BY <1>1, <1>2, <1>3

(***************************************************************************)
(* What a step of another session leaves to a request.                     *)
(***************************************************************************)
LeftAlone(u) ==
  /\ user'[u] = user[u]
  /\ \A x \in Lockable : holder'[x] = u <=> holder[x] = u
  /\ \A c \in Categories :
       \/ categories'[c] = categories[c]
       \/ /\ holder[<<"category", c>>] # u
          /\ categories'[c].group # NoGroup => holder[<<"group", categories'[c].group>>] # u
  /\ \A g \in Groups : groups'[g] = groups[g] \/ holder[<<"group", g>>] # u
  /\ \A a \in Accounts : accounts'[a] = accounts[a] \/ holder[<<"account", a>>] # u
  /\ \A r \in Rules : Pending(rules'[r]) =>
       \/ Pending(rules[r]) /\ rules'[r].content = rules[r].content
       \/ /\ UNCHANGED categories
          /\ \A x \in TemplateLocks(rules'[r].content) : holder[x] # u

LEMMA LeftAloneEdit ==
  ASSUME TypeInv, NEW u \in Users, LeftAlone(u), EditInv(u)
  PROVE  EditInv(u)'
  <1> SUFFICES ASSUME EditsRule(u)' PROVE EditInv(u)'
    BY DEF EditInv
  <1> DEFINE t == user[u].req.content
             c == t.category
  <1>0. user'[u] = user[u] /\ EditsRule(u) /\ t \in Template
    BY UserRequest, RequestFields DEF LeftAlone, EditsRule, TypeInv
  <1>1. c \in Categories \union {NoCategory} /\ t.posting \in Posting
    BY <1>0, TemplateFields
  <1>2. CategoryChecked(u, t) /\ CategoryFirst(u, t) /\ AccountsChecked(u, t)
    BY <1>0 DEF EditInv
  <1>3. \A x \in Lockable : holder'[x] = u <=> holder[x] = u
    BY DEF LeftAlone
  <1> HIDE DEF t
  <1>4. CategoryFirst(u, t)'
    <2> SUFFICES ASSUME t' = t PROVE CategoryFirst(u, t)'
      BY <1>0 DEF t
    <2> QED BY <1>1, <1>2, <1>3, Locks DEF CategoryFirst
  <1>5. CategoryChecked(u, t)'
    <2>0. t' = t
      BY <1>0 DEF t
    <2> SUFFICES ASSUME c # NoCategory, holder'[<<"category", c>>] = u,
                        LET g == categories'[c].group IN g = NoGroup \/ holder'[<<"group", g>>] = u
                 PROVE  CategoryUsable(c)'
      BY <2>0 DEF CategoryChecked
    <2>1. c \in Categories /\ holder[<<"category", c>>] = u /\ categories'[c] = categories[c]
      BY <1>1, <1>3, Locks DEF LeftAlone
    <2> DEFINE g == categories[c].group
    <2>2. g \in Groups \union {NoGroup}
      BY <2>1 DEF TypeInv, ReferenceTypes
    <2>3. g = NoGroup \/ holder[<<"group", g>>] = u
      BY <1>3, <2>1, <2>2, Locks
    <2>4. CategoryUsable(c)
      BY <1>2, <2>1, <2>3 DEF CategoryChecked
    <2>5. g # NoGroup => groups'[g] = groups[g]
      BY <2>2, <2>3 DEF LeftAlone
    <2> QED BY <2>0, <2>1, <2>4, <2>5 DEF CategoryUsable
  <1>6. AccountsChecked(u, t)'
    <2>0. t' = t
      BY <1>0 DEF t
    <2> DEFINE p == t.posting
    <2> SUFFICES ASSUME \A a \in AccountsOf(p) : holder'[<<"account", a>>] = u
                 PROVE  PostingAllowed(p, accounts')
      BY <2>0 DEF AccountsChecked
    <2>1. AccountsOf(p) \subseteq Accounts /\ p.from \in AccountsOf(p)
          /\ (p.type = "TRANSFER" => p.to \in AccountsOf(p))
      BY <1>1 DEF Posting, AccountsOf
    <2>2. \A a \in AccountsOf(p) : holder[<<"account", a>>] = u
      BY <1>3, <2>1, Locks
    <2>3. \A a \in AccountsOf(p) : accounts'[a] = accounts[a]
      BY <2>1, <2>2 DEF LeftAlone
    <2>4. PostingAllowed(p, accounts)
      BY <1>2, <2>2 DEF AccountsChecked
    <2> QED BY <2>1, <2>3, <2>4 DEF PostingAllowed, PostingSupported
  <1> QED BY <1>0, <1>4, <1>5, <1>6 DEF EditInv, t

LEMMA LeftAloneGroup ==
  ASSUME TypeInv, NEW u \in Users, LeftAlone(u), GroupChecked(u)
  PROVE  GroupChecked(u)'
  <1> DEFINE q == user[u].req
  <1>0. user'[u] = user[u] /\ q \in Request
    BY UserRequest DEF LeftAlone, TypeInv
  <1> SUFFICES ASSUME q.op = "category", q.content.group # NoGroup,
                      holder'[<<"group", q.content.group>>] = u
               PROVE  q.content.archived \/ ~groups'[q.content.group]
    BY <1>0 DEF GroupChecked
  <1>1. q.content.group \in Groups
    BY <1>0, RequestFields
  <1>2. holder[<<"group", q.content.group>>] = u
    BY <1>1, Locks DEF LeftAlone
  <1>3. groups'[q.content.group] = groups[q.content.group]
    BY <1>1, <1>2 DEF LeftAlone
  <1> QED BY <1>2, <1>3 DEF GroupChecked

\* What a request to change a category, group or account wants.
LEMMA ChangeLocks ==
  ASSUME NEW u \in Users, NEW q, q = user[u].req
  PROVE  /\ q.op = "category" =>
              Wanted(u) = Rows("category", {q.category}) \union Rows("group", {q.content.group} \ {NoGroup})
         /\ q.op = "group" => Wanted(u) = Rows("group", {q.group})
         /\ q.op = "account" => Wanted(u) = Rows("account", {q.account})
  BY SessionsDiffer DEF Wanted

\* Someone else's step puts no rule in the way of a change.
LEMMA LeftAloneUsage ==
  ASSUME TypeInv, NEW u \in Users, LeftAlone(u), UsageChecked(u)
  PROVE  UsageChecked(u)'
  <1> DEFINE q == user[u].req
  <1>0. user'[u] = user[u] /\ q \in Request
    BY UserRequest DEF LeftAlone, TypeInv
  <1> SUFFICES ASSUME user[u].pc = "commit" PROVE UsageChecked(u)'
    BY <1>0 DEF UsageChecked
  <1>1. q.op \in {"category", "group", "account"}
    BY DEF TypeInv, UserTypes, UserInStep
  <1>2. \A x \in Wanted(u) : holder[x] = u
    BY DEF UsageChecked, Missing
  <1>3. Wanted(u)' = Wanted(u) /\ Wanted(u) \subseteq Lockable
    <2>1. CASE q.op = "category"
      <3>1. q.category \in Categories /\ q.content.group \in Groups \union {NoGroup}
        BY <1>0, <2>1, RequestFields
      <3> QED BY <1>0, <2>1, <3>1, ChangeLocks, SessionsDiffer, Locks DEF Wanted, Rows
    <2>2. CASE q.op = "group"
      <3>1. q.group \in Groups
        BY <1>0, <2>2, RequestFields
      <3> QED BY <1>0, <2>2, <3>1, ChangeLocks, SessionsDiffer, Locks DEF Wanted, Rows
    <2>3. CASE q.op = "account"
      <3>1. q.account \in Accounts
        BY <1>0, <2>3, RequestFields
      <3> QED BY <1>0, <2>3, <3>1, ChangeLocks, SessionsDiffer, Locks DEF Wanted, Rows
    <2> QED BY <1>1, <2>1, <2>2, <2>3
  <1>4. Missing(u)' = {}
    BY <1>2, <1>3 DEF LeftAlone, Missing
  <1>5. ASSUME NEW r \in Rules, Pending(rules'[r])
        PROVE  \/ Pending(rules[r]) /\ rules'[r].content = rules[r].content
               \/ /\ categories' = categories
                  /\ \A x \in TemplateLocks(rules'[r].content) : holder[x] # u
    BY <1>5 DEF LeftAlone
  <1>6. ASSUME q.op = "category", q.content.archived
        PROVE  ~CategoryInUse(q.category)'
    <2>1. holder[<<"category", q.category>>] = u /\ q.category # NoCategory
      <3>1. q.category \in Categories
        BY <1>0, <1>6, RequestFields
      <3>2. <<"category", q.category>> \in Wanted(u)
        BY <1>6, ChangeLocks DEF Rows
      <3> QED BY <1>2, <3>1, <3>2, RecurringIdsAssumption
    <2>2. ASSUME NEW r \in Rules, Pending(rules'[r]), rules'[r].content.category = q.category
          PROVE  FALSE
      <3>1. <<"category", q.category>> \in TemplateLocks(rules'[r].content)
        BY <2>1, <2>2, LocksOfTemplate
      <3>2. Pending(rules[r]) /\ rules[r].content.category = q.category
        BY <1>5, <2>1, <2>2, <3>1
      <3> QED BY <1>6, <3>2 DEF UsageChecked, CategoryInUse
    <2> QED BY <1>0, <2>2 DEF CategoryInUse, Pending
  <1>7. ASSUME q.op = "group", q.archived
        PROVE  ~GroupInUse(q.group)'
    <2>1. holder[<<"group", q.group>>] = u /\ q.group \in Groups /\ q.group # NoGroup
      <3>1. q.group \in Groups
        BY <1>0, <1>7, RequestFields
      <3>2. <<"group", q.group>> \in Wanted(u)
        BY <1>7, ChangeLocks DEF Rows
      <3> QED BY <1>2, <3>1, <3>2, RecurringIdsAssumption
    <2>2. ASSUME NEW c \in Categories, categories'[c].group = q.group,
                 NEW r \in Rules, Pending(rules'[r]), rules'[r].content.category = c
          PROVE  FALSE
      <3>1. categories'[c] = categories[c]
        BY <2>1, <2>2 DEF LeftAlone
      <3>2. c # NoCategory
        BY RecurringIdsAssumption
      <3>3. <<"group", q.group>> \in TemplateLocks(rules'[r].content)
        BY <2>1, <2>2, <3>1, <3>2, LocksOfTemplate
      <3>4. Pending(rules[r]) /\ rules[r].content.category = c
        BY <1>5, <2>1, <2>2, <3>3
      <3> QED BY <1>7, <2>2, <3>1, <3>4 DEF UsageChecked, GroupInUse, CategoryInUse
    <2> QED BY <1>0, <2>2 DEF GroupInUse, CategoryInUse, Pending
  <1>8. ASSUME q.op = "account"
        PROVE  ~AccountInUse(q.account, q.content)'
    <2>1. holder[<<"account", q.account>>] = u
      <3>1. <<"account", q.account>> \in Wanted(u)
        BY <1>8, ChangeLocks DEF Rows
      <3> QED BY <1>2, <3>1
    <2>2. ASSUME NEW r \in Rules, Pending(rules'[r]),
                 q.account \in AccountsOf(rules'[r].content.posting),
                 q.content.archived
                   \/ ~RoleSupported(rules'[r].content.posting, q.account, q.content.kind)
          PROVE  FALSE
      <3>1. <<"account", q.account>> \in TemplateLocks(rules'[r].content)
        BY <2>2, LocksOfTemplate
      <3>2. Pending(rules[r]) /\ rules'[r].content = rules[r].content
        BY <1>5, <2>1, <2>2, <3>1
      <3> QED BY <1>8, <2>2, <3>2 DEF UsageChecked, AccountInUse
    <2> QED BY <1>0, <2>2 DEF AccountInUse, Pending
  <1> QED BY <1>0, <1>4, <1>6, <1>7, <1>8 DEF UsageChecked

LEMMA LeftAloneKeeps ==
  ASSUME TypeInv, NEW u \in Users, LeftAlone(u), RequestInv(u)
  PROVE  RequestInv(u)'
  <1>1. IdleFree(u)'
    BY DEF LeftAlone, RequestInv, IdleFree
  <1> QED BY <1>1, LeftAloneEdit, LeftAloneGroup, LeftAloneUsage DEF RequestInv

(***************************************************************************)
(* Every session leaves the requests of the others alone.                  *)
(***************************************************************************)
\* Locks taken or freed by one session leave the others' as they were.
LEMMA LocksOfOthers ==
  ASSUME LockTypes, NEW u \in Sessions, NEW s \in Sessions, s # u,
         \/ UNCHANGED holder \/ holder' = Unlocked(s)
         \/ \E y \in Lockable : holder[y] = NoHolder /\ holder' = [holder EXCEPT ![y] = s]
  PROVE  \A x \in Lockable : holder'[x] = u <=> holder[x] = u
  <1>0. u # NoHolder
    BY RecurringSessionAssumption
  <1>1. CASE UNCHANGED holder
    BY <1>1
  <1>2. CASE holder' = Unlocked(s)
    BY <1>0, <1>2 DEF Unlocked
  <1>3. CASE \E y \in Lockable : holder[y] = NoHolder /\ holder' = [holder EXCEPT ![y] = s]
    BY <1>0, <1>3 DEF LockTypes
  <1> QED BY <1>1, <1>2, <1>3

\* A step that keeps rules and references.
LEMMA QuietStep ==
  ASSUME LockTypes, NEW u \in Users, NEW s \in Sessions, s # u, user'[u] = user[u],
         UNCHANGED <<rules, references>>,
         \/ UNCHANGED holder \/ holder' = Unlocked(s)
         \/ \E y \in Lockable : holder[y] = NoHolder /\ holder' = [holder EXCEPT ![y] = s]
  PROVE  LeftAlone(u)
  <1>1. \A x \in Lockable : holder'[x] = u <=> holder[x] = u
    BY LocksOfOthers DEF Sessions
  <1> QED BY <1>1 DEF LeftAlone, references

\* A rule that is saved refers only to rows its own request has locked.
LEMMA SavedLeavesAlone ==
  ASSUME TypeInv, NEW u \in Users, NEW v \in Users, u # v, EndRequest(v), UNCHANGED references,
         EditsRule(v), Missing(v) = {}, NEW q \in Rules,
         rules'[q].content = user[v].req.content,
         \A r \in Rules : r # q => rules'[r] = rules[r]
  PROVE  LeftAlone(u)
  <1>1. \A x \in Lockable : holder'[x] = u <=> holder[x] = u
    BY LocksOfOthers DEF EndRequest, TypeInv, Sessions
  <1>2. user'[u] = user[u]
    BY DEF EndRequest, TypeInv, UserTypes
  <1>3. \A x \in TemplateLocks(user[v].req.content) : holder[x] # u
    BY EditLocks DEF Missing
  <1> QED BY <1>1, <1>2, <1>3 DEF LeftAlone, references

LEMMA CommitLeavesAlone ==
  ASSUME TypeInv, NEW u \in Users, NEW v \in Users, u # v, Commit(v), UsageChecked(v)
  PROVE  LeftAlone(u)
  <1>0. v \in Sessions /\ LockTypes /\ RuleTypes /\ ReferenceTypes
    BY DEF Sessions, TypeInv
  <1>1. CASE CommitCreate(v)
    <2> DEFINE t == user[v].req.content
               row == [content |-> t, present |-> TRUE, version |-> 0,
                       next |-> Bounded(t.start, t.end)]
    <2>1. PICK q \in Rules : rules' = [rules EXCEPT ![q] = row]
      BY <1>1 DEF CommitCreate
    <2>2. rules'[q] = row /\ \A r \in Rules : r # q => rules'[r] = rules[r]
      BY <1>0, <2>1 DEF RuleTypes
    <2>3. row.content = t
      OBVIOUS
    <2>4. EndRequest(v) /\ UNCHANGED references /\ EditsRule(v) /\ Missing(v) = {}
      BY <1>1 DEF CommitCreate, Locked, EditsRule
    <2> HIDE DEF row
    <2> QED BY <2>2, <2>3, <2>4, SavedLeavesAlone
  <1>2. CASE CommitUpdate(v) /\ ~Reject(v)
    <2> DEFINE req == user[v].req
               row == rules[req.rule]
               n == NextDateAfterUpdate(row, req.content, user[v].now)
               new == [row EXCEPT !.content = req.content, !.next = n]
               saved == SavedRule(row, new)
    <2>1. req.rule \in Rules /\ req.content \in Template /\ user[v].now \in Nat
      BY <1>2, UserRequest, RequestFields DEF TypeInv, CommitUpdate, Locked
    <2>2. row \in RuleRow
      BY <1>0, <2>1 DEF RuleTypes
    <2>3. n \in Nat
      BY <2>1, <2>2, EditedCursor
    <2>4. /\ rules' = [rules EXCEPT ![req.rule] = saved] /\ EndRequest(v)
          /\ UNCHANGED references /\ EditsRule(v) /\ Missing(v) = {}
      BY <1>2 DEF CommitUpdate, Locked, EditsRule
    <2>5. rules'[req.rule] = saved /\ \A r \in Rules : r # req.rule => rules'[r] = rules[r]
      BY <1>0, <2>1, <2>4 DEF RuleTypes
    <2>6. saved.content = req.content
      <3> HIDE DEF row, n
      <3>1. new \in RuleRow /\ new.content = req.content
        BY <2>1, <2>2, <2>3 DEF RuleRow
      <3> HIDE DEF new
      <3> QED BY <2>2, <3>1, SavedRuleType
    <2> HIDE DEF saved
    <2> QED BY <2>1, <2>4, <2>5, <2>6, SavedLeavesAlone
  <1>3. CASE Reject(v)
    <2>1. user'[u] = user[u]
      BY <1>3 DEF Reject, EndRequest, TypeInv, UserTypes
    <2> QED BY <1>0, <1>3, <2>1, QuietStep DEF Reject, EndRequest
  <1>4. CASE CommitCategory(v) \/ CommitGroup(v) \/ CommitAccount(v)
    <2>1. \A x \in Lockable : holder'[x] = u <=> holder[x] = u
      BY <1>0, <1>4, LocksOfOthers
         DEF CommitCategory, CommitGroup, CommitAccount, EndRequest, Sessions
    <2>2. user'[u] = user[u] /\ UNCHANGED rules
      BY <1>4 DEF CommitCategory, CommitGroup, CommitAccount, EndRequest, TypeInv, UserTypes
    <2>3. \A x \in Wanted(v) : holder[x] # u
      BY <1>4 DEF CommitCategory, CommitGroup, CommitAccount, UsageChecked, Missing
    <2> DEFINE q == user[v].req
    <2>4. q \in Request
      BY UserRequest DEF TypeInv
    <2>5. CASE CommitCategory(v)
      <3>1. categories' = [categories EXCEPT ![q.category] = q.content] /\ UNCHANGED <<groups, accounts>>
            /\ q.op = "category"
        BY <2>5 DEF CommitCategory
      <3>2. q.category \in Categories
        BY <2>4, <3>1, RequestFields
      <3>3. holder[<<"category", q.category>>] # u
        BY <2>3, <3>1, ChangeLocks DEF Rows
      <3>4. q.content.group # NoGroup => holder[<<"group", q.content.group>>] # u
        BY <2>3, <3>1, ChangeLocks DEF Rows
      <3>5. categories'[q.category] = q.content
            /\ \A c \in Categories : c # q.category => categories'[c] = categories[c]
        BY <1>0, <3>1, <3>2 DEF ReferenceTypes
      <3> QED BY <2>1, <2>2, <3>1, <3>3, <3>4, <3>5 DEF LeftAlone
    <2>6. CASE CommitGroup(v)
      <3>1. groups' = [groups EXCEPT ![q.group] = q.archived] /\ UNCHANGED <<categories, accounts>>
            /\ q.op = "group"
        BY <2>6 DEF CommitGroup
      <3>2. holder[<<"group", q.group>>] # u
        BY <2>3, <3>1, ChangeLocks DEF Rows
      <3>3. \A g \in Groups : g # q.group => groups'[g] = groups[g]
        BY <1>0, <3>1 DEF ReferenceTypes
      <3> QED BY <2>1, <2>2, <3>1, <3>2, <3>3 DEF LeftAlone
    <2>7. CASE CommitAccount(v)
      <3>1. accounts' = [accounts EXCEPT ![q.account] = q.content] /\ UNCHANGED <<categories, groups>>
            /\ q.op = "account"
        BY <2>7 DEF CommitAccount
      <3>2. holder[<<"account", q.account>>] # u
        BY <2>3, <3>1, ChangeLocks DEF Rows
      <3>3. \A a \in Accounts : a # q.account => accounts'[a] = accounts[a]
        BY <1>0, <3>1 DEF ReferenceTypes
      <3> QED BY <2>1, <2>2, <3>1, <3>2, <3>3 DEF LeftAlone
    <2> QED BY <1>4, <2>5, <2>6, <2>7
  <1> QED BY <1>1, <1>2, <1>3, <1>4 DEF Commit

LEMMA RequestLeavesAlone ==
  ASSUME TypeInv, NEW u \in Users, NEW v \in Users, u # v, UsageChecked(v),
         Begin(v) \/ LockRow(v) \/ ReadUsage(v) \/ Commit(v) \/ Rollback(v)
  PROVE  LeftAlone(u)
  <1>0. v \in Sessions /\ LockTypes /\ user \in [Users -> UserState]
    BY DEF Sessions, TypeInv, UserTypes
  <1>1. CASE Reject(v)
    <2>1. user'[u] = user[u]
      BY <1>0, <1>1 DEF Reject, EndRequest
    <2> QED BY <1>0, <1>1, <2>1, QuietStep DEF Reject, EndRequest
  <1>2. CASE Begin(v)
    <2>1. user'[u] = user[u] /\ UNCHANGED <<rules, references, holder>>
      BY <1>0, <1>2 DEF Begin, BeginCreate, BeginUpdate, BeginCategory, BeginGroup, BeginAccount, Arrive
    <2> QED BY <1>0, <2>1, QuietStep
  <1>3. CASE LockRow(v) /\ ~Reject(v)
    <2>1. UNCHANGED <<rules, references, user>>
          /\ \E y \in Lockable : holder[y] = NoHolder /\ holder' = [holder EXCEPT ![y] = v]
      BY <1>3 DEF LockRow
    <2> QED BY <1>0, <2>1, QuietStep
  <1>4. CASE ReadUsage(v) /\ ~Reject(v)
    <2>1. UNCHANGED <<rules, references, holder>> /\ user'[u] = user[u]
      BY <1>0, <1>4 DEF ReadUsage
    <2> QED BY <1>0, <2>1, QuietStep
  <1> QED BY <1>1, <1>2, <1>3, <1>4, CommitLeavesAlone DEF Rollback

\* A worker's step takes one lock, gives up all it has, or keeps them.
LEMMA WorkerLocks ==
  ASSUME TypeInv, NEW w \in Workers, Work(w) \/ LockRule(w) \/ LockPostingAccount(w) \/ Fault(w)
  PROVE  \/ UNCHANGED holder \/ holder' = Unlocked(w)
         \/ \E y \in Lockable : holder[y] = NoHolder /\ holder' = [holder EXCEPT ![y] = w]
  <1>1. CASE LockRule(w)
    <2>1. worker[w].queue \in Seq(Rules) /\ worker[w].queue # <<>>
      BY <1>1, WorkerFields DEF TypeInv, LockRule, HasNextRule
    <2>2. <<"rule", Head(worker[w].queue)>> \in Lockable
      BY <2>1, Locks
    <2> QED BY <1>1, <2>2 DEF LockRule
  <1>2. CASE LockPostingAccount(w)
    BY <1>2 DEF LockPostingAccount
  <1>3. CASE Work(w) \/ Fault(w)
    BY <1>3 DEF Work, Fault, Poll, EndPoll, CheckExists, CheckCategory, Generate,
       StatementFails, Crash, RuleFailed, EndOccurrence
  <1> QED BY <1>1, <1>2, <1>3

\* A worker makes no rule refer to anything it did not refer to before.
LEMMA WorkerLeavesAlone ==
  ASSUME GenInv, NEW u \in Users, NEW w \in Workers,
         Work(w) \/ LockRule(w) \/ LockPostingAccount(w) \/ Fault(w)
  PROVE  LeftAlone(u)
  <1>0. LockTypes /\ w \in Sessions /\ w # u
    BY SessionsDiffer DEF GenInv, TypeInv, Sessions
  <1>1. UNCHANGED <<references, user>>
    BY DEF Work, LockRule, LockPostingAccount, Fault, Poll, EndPoll, CheckExists, CheckCategory,
       Generate, StatementFails, Crash, RuleFailed, EndOccurrence
  <1>2. \/ UNCHANGED holder \/ holder' = Unlocked(w)
        \/ \E y \in Lockable : holder[y] = NoHolder /\ holder' = [holder EXCEPT ![y] = w]
    BY WorkerLocks DEF GenInv
  <1>3. CASE UNCHANGED rules
    BY <1>0, <1>1, <1>2, <1>3, QuietStep
  <1>4. CASE AdvanceCursor(w) /\ worker[w].pc \in InProgress
    <2>1. \A x \in Lockable : holder'[x] = u <=> holder[x] = u
      BY <1>0, <1>2, LocksOfOthers DEF Sessions
    <2> DEFINE q == worker[w].rule
               row == worker[w].row
    <2>2. /\ rules[q] = row /\ row.present /\ Due(row, worker[w].now)
          /\ rules'[q].content = row.content
          /\ \A r \in Rules : r # q => rules'[r] = rules[r]
      BY <1>4, InProgressFacts, AdvancedRow
    <2>3. Pending(rules[q])
      BY <2>2 DEF Due
    <2>4. \A r \in Rules : Pending(rules'[r]) =>
            Pending(rules[r]) /\ rules'[r].content = rules[r].content
      BY <2>2, <2>3
    <2> QED BY <1>1, <2>1, <2>4 DEF LeftAlone, references
  <1>5. UNCHANGED rules \/ (AdvanceCursor(w) /\ worker[w].pc \in InProgress)
    BY DEF Work, LockRule, LockPostingAccount, Fault, Poll, EndPoll, CheckExists, CheckCategory,
       Generate, StatementFails, Crash, RuleFailed, InProgress
  <1> QED BY <1>3, <1>4, <1>5

LEMMA OutsideLeavesAlone ==
  ASSUME NEW u \in Users,
         Tick \/ (\E r \in Rules, d \in Dates : DeleteGenerated(r, d)) \/ UNCHANGED vars
  PROVE  LeftAlone(u)
  BY DEF Tick, DeleteGenerated, vars, LeftAlone, references

(***************************************************************************)
(* A request's own steps.                                                  *)
(***************************************************************************)
\* A request that ends leaves an idle session without locks.
LEMMA EndedRequest ==
  ASSUME TypeInv, NEW u \in Users, EndRequest(u)
  PROVE  RequestInv(u)'
  <1>1. user'[u] = IdleUser
    BY DEF EndRequest, TypeInv, UserTypes
  <1>2. user'[u].pc = "idle" /\ user'[u].req.op = "none"
    BY <1>1 DEF IdleUser
  <1>3. \A x \in Lockable : holder'[x] # u
    BY SessionsDiffer DEF EndRequest, Unlocked
  <1> QED BY <1>2, <1>3 DEF RequestInv, EditInv, EditsRule, GroupChecked, UsageChecked, IdleFree

\* One that arrives holds nothing yet.
LEMMA ArrivedRequest ==
  ASSUME TypeInv, NEW u \in Users, NEW q \in Request, Arrive(u, q), IdleFree(u)
  PROVE  RequestInv(u)'
  <1>1. /\ user'[u].pc = "lock" /\ user'[u].req = q
        /\ UNCHANGED <<rules, references, holder>>
    BY DEF Arrive, TypeInv, UserTypes
  <1>2. \A x \in Lockable : holder'[x] # u
    BY <1>1 DEF IdleFree, Arrive
  <1>3. ASSUME q.op \in {"create", "update"}
        PROVE  /\ q.content.category \in Categories \union {NoCategory}
               /\ \E a \in Accounts : a \in AccountsOf(q.content.posting)
    <2>1. q.content \in Template
      BY <1>3, RequestFields
    <2>2. q.content.posting \in Posting /\ q.content.category \in Categories \union {NoCategory}
      BY <2>1, TemplateFields
    <2>3. q.content.posting.from \in Accounts
      BY <2>2 DEF Posting
    <2> QED BY <2>2, <2>3 DEF AccountsOf
  <1>4. EditInv(u)'
    BY <1>1, <1>2, <1>3, Locks DEF EditInv, EditsRule, CategoryChecked, CategoryFirst, AccountsChecked
  <1>5. GroupChecked(u)'
    <2>1. q.op = "category" => q.content.group \in Groups \union {NoGroup}
      BY RequestFields
    <2> QED BY <1>1, <1>2, <2>1, Locks DEF GroupChecked
  <1> QED BY <1>1, <1>4, <1>5 DEF RequestInv, UsageChecked, IdleFree

LEMMA BegunRequest ==
  ASSUME TypeInv, NEW u \in Users, Begin(u), IdleFree(u)
  PROVE  RequestInv(u)'
  <1>1. \E q : Arrive(u, q)
    BY DEF Begin, BeginCreate, BeginUpdate, BeginCategory, BeginGroup, BeginAccount
  <1>2. PICK q : Arrive(u, q)
    BY <1>1
  <1>3. user'[u].req = q
    BY <1>2 DEF Arrive, TypeInv, UserTypes
  <1>4. q \in Request
    <2>1. UserTypes'
      BY BeginTypes DEF TypeInv
    <2> QED BY <1>3, <2>1 DEF UserTypes, UserState
  <1> QED BY <1>2, <1>4, ArrivedRequest

\* The account locked last is the last lock of all.
LEMMA LastLock ==
  ASSUME NEW u \in Users, EditsRule(u), NEW x, IsNextLock(u, x), x[1] = "account",
         \A a \in AccountsOf(user[u].req.content.posting) :
           <<"account", a>> = x \/ holder[<<"account", a>>] = u
  PROVE  Missing(u) = {x}
  <1>1. ASSUME NEW y \in Missing(u), y # x
        PROVE  FALSE
    <2>1. Before(x, y) /\ y \in Wanted(u) /\ holder[y] # u
      BY <1>1 DEF IsNextLock, Missing
    <2>2. y[1] \in {"rule", "category", "group"} \/
            \E a \in AccountsOf(user[u].req.content.posting) : y = <<"account", a>>
      BY <2>1, EditLocks
    <2>3. y[1] \notin {"rule", "category", "group"}
      BY <2>1 DEF Before, Rank
    <2> QED BY <1>1, <2>1, <2>2, <2>3
  <1> QED BY <1>1 DEF IsNextLock

\* The order of the locks: no group before its category.
LEMMA CategoryBeforeGroup ==
  ASSUME NEW u \in Users, EditsRule(u), NEW x, IsNextLock(u, x), x[1] = "group",
         user[u].req.content.category # NoCategory
  PROVE  holder[<<"category", user[u].req.content.category>>] = u
  <1> DEFINE y == <<"category", user[u].req.content.category>>
  <1>1. y \in Wanted(u)
    BY EditLocks, LocksOfTemplate
  <1>2. ~Before(x, y) /\ x # y
    BY DEF Before, Rank
  <1> QED BY <1>1, <1>2 DEF IsNextLock, Missing

\* A rule's group is read under its lock, after the category.
LEMMA PassesGroup ==
  ASSUME NEW u, NEW x, x[1] = "group", EditsRule(u), Passes(u, x)
  PROVE  CategoryUsable(user[u].req.content.category)
  <1>1. user[u].req.op # "category"
    BY DEF EditsRule
  <1> QED BY <1>1 DEF Passes

\* A row is locked, and what is checked with it goes for the lock's holder.
LEMMA LockedEdit ==
  ASSUME TypeInv, NEW u \in Users, EditInv(u), NEW x \in Lockable, IsNextLock(u, x), Passes(u, x),
         holder' = [holder EXCEPT ![x] = u],
         UNCHANGED <<rules, references, user>>
  PROVE  EditInv(u)'
  <1> SUFFICES ASSUME EditsRule(u) PROVE EditInv(u)'
    BY DEF EditInv, EditsRule
  <1> DEFINE t == user[u].req.content
             c == t.category
             g == categories[c].group
  <1>0. t \in Template /\ x \in Wanted(u)
    BY UserRequest, RequestFields DEF EditsRule, TypeInv, IsNextLock, Missing
  <1>1. c \in Categories \union {NoCategory} /\ t.posting \in Posting
    BY <1>0, TemplateFields
  <1>2. CategoryChecked(u, t) /\ CategoryFirst(u, t) /\ AccountsChecked(u, t)
    BY DEF EditInv
  <1>3. holder'[x] = u /\ \A y \in Lockable : y # x => holder'[y] = holder[y]
    BY DEF TypeInv, LockTypes
  <1>4. AccountsOf(t.posting) \subseteq Accounts
    BY <1>1 DEF AccountsOf, Posting
  <1>5. c # NoCategory => c \in Categories /\ g \in Groups \union {NoGroup}
    BY <1>1 DEF TypeInv, ReferenceTypes
  <1>6. CategoryChecked(u, t)'
    <2> SUFFICES ASSUME c # NoCategory, holder'[<<"category", c>>] = u,
                        g = NoGroup \/ holder'[<<"group", g>>] = u
                 PROVE  CategoryUsable(c)
      BY DEF CategoryChecked, CategoryUsable, references
    <2>1. CASE x = <<"category", c>>
      <3>1. holder[x] # u
        BY DEF IsNextLock, Missing
      <3>2. g # NoGroup => holder[<<"group", g>>] # u
        BY <1>2, <1>5, <2>1, <3>1 DEF CategoryFirst
      <3>3. g # NoGroup => <<"group", g>> # x
        BY <2>1
      <3>4. g = NoGroup
        BY <1>3, <1>5, <3>2, <3>3, Locks
      <3>5. x[1] = "category" /\ x[2] = c
        BY <2>1
      <3>6. categories[x[2]].group = NoGroup => CategoryUsable(x[2])
        BY <3>5 DEF Passes
      <3> QED BY <3>4, <3>5, <3>6
    <2>2. CASE x = <<"group", g>>
      <3>1. x[1] = "group"
        BY <2>2
      <3> QED BY <3>1, PassesGroup
    <2>3. CASE x # <<"category", c>> /\ x # <<"group", g>>
      <3>1. holder[<<"category", c>>] = u /\ (g = NoGroup \/ holder[<<"group", g>>] = u)
        BY <1>3, <1>5, <2>3, Locks
      <3> QED BY <1>2, <3>1 DEF CategoryChecked
    <2> QED BY <2>1, <2>2, <2>3
  <1>7. CategoryFirst(u, t)'
    <2> SUFFICES ASSUME c # NoCategory, holder'[<<"category", c>>] # u, NEW h \in Groups,
                        holder'[<<"group", h>>] = u
                 PROVE  FALSE
      BY DEF CategoryFirst
    <2>1. holder[<<"category", c>>] # u
      BY <1>3, <1>5, Locks
    <2>2. holder[<<"group", h>>] # u
      BY <1>2, <2>1 DEF CategoryFirst
    <2>3. x = <<"group", h>>
      BY <1>3, <2>2, Locks
    <2> QED BY <2>1, <2>3, CategoryBeforeGroup
  <1>8. AccountsChecked(u, t)'
    <2> SUFFICES ASSUME \A a \in AccountsOf(t.posting) : holder'[<<"account", a>>] = u
                 PROVE  PostingAllowed(t.posting, accounts)
      BY DEF AccountsChecked, references
    <2>1. CASE \A a \in AccountsOf(t.posting) : holder[<<"account", a>>] = u
      BY <1>2, <2>1 DEF AccountsChecked
    <2>2. CASE \E a \in AccountsOf(t.posting) : holder[<<"account", a>>] # u
      <3>1. x[1] = "account"
        BY <1>3, <1>4, <2>2, Locks
      <3>2. \A a \in AccountsOf(t.posting) : <<"account", a>> = x \/ holder[<<"account", a>>] = u
        BY <1>3, <1>4, Locks
      <3>3. Missing(u) = {x}
        BY <3>1, <3>2, LastLock
      <3> QED BY <3>1, <3>3 DEF Passes
    <2> QED BY <2>1, <2>2
  <1> QED BY <1>6, <1>7, <1>8 DEF EditInv, EditsRule

LEMMA LockedRequest ==
  ASSUME TypeInv, NEW u \in Users, RequestInv(u), LockRow(u)
  PROVE  RequestInv(u)'
  <1>1. CASE Reject(u)
    BY <1>1, EndedRequest DEF Reject
  <1>2. CASE ~Reject(u)
    <2>1. PICK x \in Lockable :
            /\ IsNextLock(u, x) /\ Passes(u, x) /\ holder' = [holder EXCEPT ![x] = u]
            /\ UNCHANGED <<clock, rules, generated, references, worker, user, faults, since>>
      BY <1>2 DEF LockRow
    <2>2. EditInv(u)'
      BY <2>1, LockedEdit DEF RequestInv
    <2> DEFINE q == user[u].req
    <2>3. q \in Request /\ x \in Wanted(u)
      BY <2>1, UserRequest DEF TypeInv, IsNextLock, Missing
    <2>4. GroupChecked(u)'
      <3> SUFFICES ASSUME q.op = "category", q.content.group # NoGroup,
                          holder'[<<"group", q.content.group>>] = u
                   PROVE  q.content.archived \/ ~groups[q.content.group]
        BY <2>1 DEF GroupChecked, references
      <3>1. q.content.group \in Groups
        BY <2>3, RequestFields
      <3>2. CASE x = <<"group", q.content.group>>
        BY <2>1, <3>2 DEF Passes, EditsRule
      <3>3. CASE x # <<"group", q.content.group>>
        <4>1. holder[<<"group", q.content.group>>] = u
          BY <2>1, <3>1, <3>3, Locks DEF TypeInv, LockTypes
        <4> QED BY <4>1 DEF RequestInv, GroupChecked
      <3> QED BY <3>2, <3>3
    <2>5. user[u].pc # "commit"
      BY <2>1 DEF RequestInv, UsageChecked, IsNextLock
    <2>6. user[u].pc # "idle"
      <3>1. CASE q.op = "none"
        BY <2>3, <3>1, SessionsDiffer DEF Wanted
      <3> QED BY <3>1 DEF RequestInv, IdleFree
    <2> QED BY <2>1, <2>2, <2>4, <2>5, <2>6 DEF RequestInv, UsageChecked, IdleFree
  <1> QED BY <1>1, <1>2

\* The guard reads the rules under the locks; a row that is archived already
\* has none, since no rule in use refers to an archived one.
LEMMA UsageRead ==
  ASSUME TypeInv, ActiveReferencesUsable, NEW u \in Users, RequestInv(u), ReadUsage(u)
  PROVE  RequestInv(u)'
  <1>1. CASE Reject(u)
    BY <1>1, EndedRequest DEF Reject
  <1>2. CASE ~Reject(u)
    <2> DEFINE q == user[u].req
    <2>1. /\ Missing(u) = {} /\ q.op \in {"category", "group", "account"} /\ ~Refused(u)
          /\ user' = [user EXCEPT ![u].pc = "commit"]
          /\ UNCHANGED <<rules, references, holder>>
      BY <1>2 DEF ReadUsage, Locked
    <2>2. user'[u].req = q /\ user'[u].pc = "commit" /\ q \in Request
      BY <2>1, UserRequest DEF TypeInv, UserTypes, UserState
    <2>3. EditInv(u)' /\ GroupChecked(u)' /\ IdleFree(u)'
      BY <2>1, <2>2 DEF RequestInv, EditInv, EditsRule, GroupChecked, IdleFree, references
    <2>4. Missing(u)' = {}
      BY <2>1, <2>2, SessionsDiffer DEF Missing, Wanted
    <2>5. ASSUME q.op = "category", q.content.archived PROVE ~CategoryInUse(q.category)
      <3>1. q.category \in Categories /\ q.category # NoCategory
        BY <2>2, <2>5, RequestFields, RecurringIdsAssumption
      <3>2. ~(~categories[q.category].archived /\ CategoryInUse(q.category))
        BY <2>1, <2>5 DEF Refused
      <3>3. categories[q.category].archived => ~CategoryInUse(q.category)
        BY <3>1 DEF ActiveReferencesUsable, CategoryInUse, CategoryUsable
      <3> QED BY <3>2, <3>3
    <2>6. ASSUME q.op = "group", q.archived PROVE ~GroupInUse(q.group)
      <3>1. q.group \in Groups /\ q.group # NoGroup
        BY <2>2, <2>6, RequestFields, RecurringIdsAssumption
      <3>2. ~(~groups[q.group] /\ GroupInUse(q.group))
        BY <2>1, <2>6 DEF Refused
      <3>3. groups[q.group] => ~GroupInUse(q.group)
        BY <3>1, RecurringIdsAssumption
           DEF ActiveReferencesUsable, GroupInUse, CategoryInUse, CategoryUsable
      <3> QED BY <3>2, <3>3
    <2>7. ASSUME q.op = "account" PROVE ~AccountInUse(q.account, q.content)
      BY <2>1, <2>7 DEF Refused
    <2>8. UsageChecked(u)'
      BY <2>1, <2>2, <2>4, <2>5, <2>6, <2>7
         DEF UsageChecked, CategoryInUse, GroupInUse, AccountInUse, Pending, references
    <2> QED BY <2>3, <2>8 DEF RequestInv
  <1> QED BY <1>1, <1>2

(***************************************************************************)
(* The commits keep every rule's references in use.                        *)
(***************************************************************************)
\* A rule is saved with references that were checked under their locks.
LEMMA SavedUsable ==
  ASSUME TypeInv, ActiveReferencesUsable, NEW u \in Users, RequestInv(u), EditsRule(u),
         Missing(u) = {}, UNCHANGED references, NEW q \in Rules,
         rules'[q].content = user[u].req.content,
         \A r \in Rules : r # q => rules'[r] = rules[r]
  PROVE  ActiveReferencesUsable'
  <1>1. /\ CategoryUsable(user[u].req.content.category)
        /\ PostingAllowed(user[u].req.content.posting, accounts)
    BY EditChecked DEF RequestInv
  <1> QED BY <1>1 DEF ActiveReferencesUsable, CategoryUsable, references, Pending

\* References change only if no rule is in the way.
LEMMA ReferencesUsable ==
  ASSUME TypeInv, ActiveReferencesUsable, NEW u \in Users, RequestInv(u),
         CommitCategory(u) \/ CommitGroup(u) \/ CommitAccount(u)
  PROVE  ActiveReferencesUsable'
  <1> DEFINE q == user[u].req
  <1>0. q \in Request /\ Missing(u) = {} /\ UNCHANGED rules
    BY UserRequest DEF TypeInv, CommitCategory, CommitGroup, CommitAccount, RequestInv, UsageChecked
  <1> SUFFICES ASSUME NEW r \in Rules, Pending(rules[r])
               PROVE  /\ CategoryUsable(rules[r].content.category)'
                      /\ PostingAllowed(rules[r].content.posting, accounts')
    BY <1>0 DEF ActiveReferencesUsable, Pending
  <1> DEFINE t == rules[r].content
             c == t.category
  <1>1. CategoryUsable(c) /\ PostingAllowed(t.posting, accounts) /\ t \in Template
    BY DEF ActiveReferencesUsable, TypeInv, RuleTypes, RuleRow
  <1>2. c \in Categories \union {NoCategory} /\ t.posting \in Posting /\ t' = t
    BY <1>0, <1>1, TemplateFields
  <1>3. CASE CommitCategory(u)
    <2>1. /\ q.op = "category" /\ user[u].pc = "commit" /\ UNCHANGED <<groups, accounts>>
          /\ categories' = [categories EXCEPT ![q.category] = q.content]
      BY <1>3 DEF CommitCategory
    <2>2. q.category \in Categories /\ q.content.group \in Groups \union {NoGroup}
      BY <1>0, <2>1, RequestFields
    <2>3. q.content.archived => ~CategoryInUse(q.category)
      BY <2>1 DEF RequestInv, UsageChecked
    <2>4. q.content.group # NoGroup => q.content.archived \/ ~groups[q.content.group]
      <3>1. q.content.group # NoGroup => <<"group", q.content.group>> \in Wanted(u)
        BY <2>1, ChangeLocks DEF Rows
      <3>2. q.content.group # NoGroup => holder[<<"group", q.content.group>>] = u
        BY <1>0, <3>1 DEF Missing
      <3> QED BY <2>1, <3>2 DEF RequestInv, GroupChecked
    <2>5. CASE c = q.category
      <3>1. ~q.content.archived
        BY <2>3, <2>5 DEF CategoryInUse
      <3>2. categories'[c] = q.content
        BY <2>1, <2>2, <2>5 DEF TypeInv, ReferenceTypes
      <3> QED BY <1>1, <1>2, <2>1, <2>4, <3>1, <3>2 DEF CategoryUsable
    <2>6. CASE c # q.category
      <3>1. c # NoCategory => categories'[c] = categories[c]
        BY <1>2, <2>1, <2>6 DEF TypeInv, ReferenceTypes
      <3> QED BY <1>1, <1>2, <2>1, <3>1 DEF CategoryUsable
    <2> QED BY <2>5, <2>6
  <1>4. CASE CommitGroup(u)
    <2>1. /\ q.op = "group" /\ user[u].pc = "commit" /\ UNCHANGED <<categories, accounts>>
          /\ groups' = [groups EXCEPT ![q.group] = q.archived]
      BY <1>4 DEF CommitGroup
    <2>2. q.group \in Groups /\ q.archived \in BOOLEAN
      BY <1>0, <2>1, RequestFields
    <2>3. q.archived => ~GroupInUse(q.group)
      BY <2>1 DEF RequestInv, UsageChecked
    <2>4. CategoryUsable(c)'
      <3> SUFFICES ASSUME c # NoCategory, categories[c].group # NoGroup
                   PROVE  ~groups'[categories[c].group]
        BY <1>1, <1>2, <2>1 DEF CategoryUsable
      <3> DEFINE g == categories[c].group
      <3>1. c \in Categories /\ g \in Groups /\ ~groups[g]
        BY <1>1, <1>2 DEF TypeInv, ReferenceTypes, CategoryUsable
      <3>2. CASE g = q.group
        <4>1. ~q.archived
          BY <2>3, <3>1, <3>2 DEF GroupInUse, CategoryInUse
        <4>2. groups'[g] = q.archived
          BY <2>1, <2>2, <3>2 DEF TypeInv, ReferenceTypes
        <4> QED BY <4>1, <4>2
      <3>3. CASE g # q.group
        <4>1. groups'[g] = groups[g]
          BY <2>1, <3>1, <3>3 DEF TypeInv, ReferenceTypes
        <4> QED BY <3>1, <4>1
      <3> QED BY <3>2, <3>3
    <2> QED BY <1>1, <1>2, <2>1, <2>4
  <1>5. CASE CommitAccount(u)
    <2>1. /\ q.op = "account" /\ user[u].pc = "commit" /\ UNCHANGED <<categories, groups>>
          /\ accounts' = [accounts EXCEPT ![q.account] = q.content]
      BY <1>5 DEF CommitAccount
    <2>2. q.account \in Accounts /\ q.content.kind \in Kinds
      BY <1>0, <2>1, RequestFields
    <2>3. ~AccountInUse(q.account, q.content)
      BY <2>1 DEF RequestInv, UsageChecked
    <2>4. CategoryUsable(c)'
      BY <1>1, <1>2, <2>1 DEF CategoryUsable
    <2> DEFINE p == t.posting
    <2>5. AccountsOf(p) \subseteq Accounts /\ p.from \in AccountsOf(p)
          /\ (p.type = "TRANSFER" => p.to \in AccountsOf(p))
      BY <1>2 DEF Posting, AccountsOf
    <2>6. \A a \in Accounts : accounts'[a] = IF a = q.account THEN q.content ELSE accounts[a]
      BY <2>1 DEF TypeInv, ReferenceTypes
    <2>7. q.account \in AccountsOf(p) =>
            ~q.content.archived /\ RoleSupported(p, q.account, q.content.kind)
      BY <2>3 DEF AccountInUse
    <2>8. PostingAllowed(p, accounts)
      BY <1>1
    <2> HIDE DEF p
    <2>9. PostingAllowed(p, accounts')
      <3>1. \A a \in AccountsOf(p) : ~accounts'[a].archived
        BY <2>5, <2>6, <2>7, <2>8 DEF PostingAllowed
      <3>2. PostingSupported(p, accounts')
        BY <2>2, <2>5, <2>6, <2>7, <2>8 DEF PostingAllowed, PostingSupported, RoleSupported
      <3> QED BY <3>1, <3>2 DEF PostingAllowed
    <2> QED BY <2>4, <2>9 DEF p
  <1> QED BY <1>3, <1>4, <1>5

\* A step that makes no rule refer to anything new and keeps the references.
LEMMA NothingNewUsable ==
  ASSUME ActiveReferencesUsable, UNCHANGED references,
         \A r \in Rules : Pending(rules'[r]) =>
           Pending(rules[r]) /\ rules'[r].content = rules[r].content
  PROVE  ActiveReferencesUsable'
  BY DEF ActiveReferencesUsable, references, CategoryUsable, Pending

LEMMA CommitUsable ==
  ASSUME TypeInv, ActiveReferencesUsable, NEW u \in Users, RequestInv(u), Commit(u)
  PROVE  ActiveReferencesUsable' /\ RequestInv(u)'
  <1>0. EndRequest(u)
    BY DEF Commit, CommitCreate, CommitUpdate, CommitCategory, CommitGroup, CommitAccount, Reject
  <1>1. RequestInv(u)'
    BY <1>0, EndedRequest
  <1>2. CASE CommitCreate(u)
    <2> DEFINE t == user[u].req.content
               row == [content |-> t, present |-> TRUE, version |-> 0,
                       next |-> Bounded(t.start, t.end)]
    <2>1. PICK q \in Rules : rules' = [rules EXCEPT ![q] = row]
      BY <1>2 DEF CommitCreate
    <2>2. rules'[q] = row /\ \A r \in Rules : r # q => rules'[r] = rules[r]
      BY <2>1 DEF TypeInv, RuleTypes
    <2>3. row.content = t
      OBVIOUS
    <2>4. UNCHANGED references /\ EditsRule(u) /\ Missing(u) = {}
      BY <1>2 DEF CommitCreate, Locked, EditsRule
    <2> HIDE DEF row
    <2> QED BY <1>1, <2>2, <2>3, <2>4, SavedUsable
  <1>3. CASE CommitUpdate(u) /\ ~Reject(u)
    <2> DEFINE req == user[u].req
               row == rules[req.rule]
               n == NextDateAfterUpdate(row, req.content, user[u].now)
               new == [row EXCEPT !.content = req.content, !.next = n]
               saved == SavedRule(row, new)
    <2>1. req.rule \in Rules /\ req.content \in Template /\ user[u].now \in Nat
      BY <1>3, UserRequest, RequestFields DEF TypeInv, CommitUpdate, Locked
    <2>2. row \in RuleRow
      BY <2>1 DEF TypeInv, RuleTypes
    <2>3. n \in Nat
      BY <2>1, <2>2, EditedCursor
    <2>4. /\ rules' = [rules EXCEPT ![req.rule] = saved]
          /\ UNCHANGED references /\ EditsRule(u) /\ Missing(u) = {}
      BY <1>3 DEF CommitUpdate, Locked, EditsRule
    <2>5. rules'[req.rule] = saved /\ \A r \in Rules : r # req.rule => rules'[r] = rules[r]
      BY <2>1, <2>4 DEF TypeInv, RuleTypes
    <2>6. saved.content = req.content
      <3> HIDE DEF row, n
      <3>1. new \in RuleRow /\ new.content = req.content
        BY <2>1, <2>2, <2>3 DEF RuleRow
      <3> HIDE DEF new
      <3> QED BY <2>2, <3>1, SavedRuleType
    <2> HIDE DEF saved
    <2> QED BY <1>1, <2>1, <2>4, <2>5, <2>6, SavedUsable
  <1>4. CASE Reject(u)
    BY <1>1, <1>4, NothingNewUsable DEF Reject
  <1>5. CASE CommitCategory(u) \/ CommitGroup(u) \/ CommitAccount(u)
    BY <1>1, <1>5, ReferencesUsable
  <1> QED BY <1>2, <1>3, <1>4, <1>5 DEF Commit

LEMMA RequestUsable ==
  ASSUME TypeInv, ActiveReferencesUsable, NEW u \in Users, RequestInv(u),
         Begin(u) \/ LockRow(u) \/ ReadUsage(u) \/ Commit(u) \/ Rollback(u)
  PROVE  ActiveReferencesUsable' /\ RequestInv(u)'
  <1>1. CASE Commit(u)
    BY <1>1, CommitUsable
  <1>2. CASE Begin(u) \/ LockRow(u) \/ ReadUsage(u) \/ Rollback(u)
    <2>1. UNCHANGED <<rules, references>>
      BY <1>2 DEF Begin, BeginCreate, BeginUpdate, BeginCategory, BeginGroup, BeginAccount, Arrive,
         LockRow, ReadUsage, Rollback, Reject
    <2>2. ActiveReferencesUsable'
      BY <2>1, NothingNewUsable
    <2>3. RequestInv(u)'
      <3>1. IdleFree(u)
        BY DEF RequestInv
      <3>2. Rollback(u) => EndRequest(u)
        BY DEF Rollback, Reject
      <3> QED BY <1>2, <3>1, <3>2, BegunRequest, LockedRequest, UsageRead, EndedRequest
    <2> QED BY <2>2, <2>3
  <1> QED BY <1>1, <1>2

\* A worker moves cursors only.
LEMMA WorkerUsable ==
  ASSUME GenInv, ActiveReferencesUsable, NEW w \in Workers,
         Work(w) \/ LockRule(w) \/ LockPostingAccount(w) \/ Fault(w)
  PROVE  ActiveReferencesUsable'
  <1>1. UNCHANGED references
    BY DEF Work, LockRule, LockPostingAccount, Fault, Poll, EndPoll, CheckExists, CheckCategory,
       Generate, StatementFails, Crash, RuleFailed, EndOccurrence
  <1>2. CASE UNCHANGED rules
    BY <1>1, <1>2, NothingNewUsable
  <1>3. CASE AdvanceCursor(w) /\ worker[w].pc \in InProgress
    <2> DEFINE q == worker[w].rule
               row == worker[w].row
    <2>1. /\ rules[q] = row /\ Due(row, worker[w].now) /\ rules'[q].content = row.content
          /\ \A r \in Rules : r # q => rules'[r] = rules[r]
      BY <1>3, InProgressFacts, AdvancedRow
    <2>2. Pending(rules[q])
      BY <2>1 DEF Due
    <2> QED BY <1>1, <2>1, <2>2, NothingNewUsable
  <1>4. UNCHANGED rules \/ (AdvanceCursor(w) /\ worker[w].pc \in InProgress)
    BY DEF Work, LockRule, LockPostingAccount, Fault, Poll, EndPoll, CheckExists, CheckCategory,
       Generate, StatementFails, Crash, RuleFailed, InProgress
  <1> QED BY <1>2, <1>3, <1>4

LEMMA InitRef == Init => RefInv
  <1> SUFFICES ASSUME Init PROVE RefInv
    OBVIOUS
  <1>1. TypeInv /\ CursorInv
    BY InitTypes, InitCursor
  <1>2. ActiveReferencesUsable
    BY AbsentRuleType DEF Init, ActiveReferencesUsable, Pending
  <1>3. ASSUME NEW u \in Users PROVE RequestInv(u)
    <2>1. user[u].pc = "idle" /\ user[u].req.op = "none"
      BY DEF Init, IdleUser
    <2>2. \A x \in Lockable : holder[x] # u
      BY SessionsDiffer DEF Init
    <2> QED BY <2>1, <2>2 DEF RequestInv, EditInv, EditsRule, GroupChecked, UsageChecked, IdleFree
  <1> QED BY <1>1, <1>2, <1>3 DEF RefInv

LEMMA NextRef ==
  ASSUME RefInv, [Next]_vars
  PROVE  RefInv'
  <1>0. CursorInv' /\ TypeInv /\ GenInv /\ ActiveReferencesUsable
        /\ \A u \in Users : RequestInv(u) /\ UsageChecked(u)
    BY NextCursor DEF RefInv, CursorInv, GenInv, RequestInv
  <1>1. ASSUME NEW v \in Users, Begin(v) \/ LockRow(v) \/ ReadUsage(v) \/ Commit(v) \/ Rollback(v)
        PROVE  RefInv'
    <2>1. \A u \in Users : u # v => LeftAlone(u)
      BY <1>0, <1>1, RequestLeavesAlone
    <2>2. \A u \in Users : u # v => RequestInv(u)'
      BY <1>0, <2>1, LeftAloneKeeps
    <2>3. ActiveReferencesUsable' /\ RequestInv(v)'
      BY <1>0, <1>1, RequestUsable
    <2> QED BY <1>0, <2>2, <2>3 DEF RefInv
  <1>2. ASSUME NEW w \in Workers, Work(w) \/ LockRule(w) \/ LockPostingAccount(w) \/ Fault(w)
        PROVE  RefInv'
    <2>1. \A u \in Users : RequestInv(u)'
      BY <1>0, <1>2, WorkerLeavesAlone, LeftAloneKeeps
    <2>2. ActiveReferencesUsable'
      BY <1>0, <1>2, WorkerUsable
    <2> QED BY <1>0, <2>1, <2>2 DEF RefInv
  <1>3. ASSUME Tick \/ (\E r \in Rules, d \in Dates : DeleteGenerated(r, d)) \/ UNCHANGED vars
        PROVE  RefInv'
    <2>1. \A u \in Users : RequestInv(u)'
      BY <1>0, <1>3, OutsideLeavesAlone, LeftAloneKeeps
    <2>2. UNCHANGED <<rules, references>>
      BY <1>3 DEF Tick, DeleteGenerated, vars, references
    <2> QED BY <1>0, <2>1, <2>2, NothingNewUsable DEF RefInv
  <1> QED BY <1>1, <1>2, <1>3 DEF Next

\* The inductive invariant of the references.
LEMMA RefInvariant == Spec => []RefInv
  BY InitRef, NextRef, PTL DEF Spec

\* An active rule with a cursor refers only to a category, group and accounts
\* that are in use and fit its posting, however archiving, reclassifying,
\* moving and editing interleave.
THEOREM ReferencesStayUsable == Spec => []ActiveReferencesUsable
  <1>1. RefInv => ActiveReferencesUsable
    BY DEF RefInv
  <1> QED BY <1>1, RefInvariant, PTL

(***************************************************************************)
(* Nobody waits in a circle: a session only ever asks for a lock that      *)
(* comes, in the order of Before, after all it holds. The order is total,  *)
(* so of any waiting sessions the one whose lock comes last waits for a    *)
(* session that is not among them.                                         *)
(***************************************************************************)
Belongs(s, x) ==
  x \in Wanted(s) \/ (s \in Workers /\ worker[s].pc \in InProgress /\ x[1] = "rule")

\* What a session holds belongs to its transaction, and comes before whatever
\* the session still misses.
InOrder(s) ==
  \A x \in Lockable : holder[x] = s => Belongs(s, x) /\ \A y \in Missing(s) : Before(x, y)

OrderInv == RefInv /\ \A s \in Sessions : InOrder(s)

\* A lock is a kind and an identifier, and the rank tells its kind.
LEMMA LockRank ==
  ASSUME NEW x \in Lockable
  PROVE  /\ x = <<x[1], x[2]>> /\ x[2] \in Nat /\ Rank(x) \in Nat
         /\ \/ x[1] = "rule" /\ Rank(x) = 1 /\ x[2] \in Rules
            \/ x[1] = "category" /\ Rank(x) = 2 /\ x[2] \in Categories
            \/ x[1] = "group" /\ Rank(x) = 3 /\ x[2] \in Groups
            \/ x[1] = "account" /\ Rank(x) = 4 /\ x[2] \in Accounts
  <1>1. CASE x \in Rows("rule", Rules)
    BY <1>1, RecurringIdsAssumption DEF Rows, Rank
  <1>2. CASE x \in Rows("category", Categories)
    BY <1>2, RecurringIdsAssumption DEF Rows, Rank
  <1>3. CASE x \in Rows("group", Groups)
    BY <1>3, RecurringIdsAssumption DEF Rows, Rank
  <1>4. CASE x \in Rows("account", Accounts)
    BY <1>4, AccountsAssumption DEF Rows, Rank
  <1> QED BY <1>1, <1>2, <1>3, <1>4 DEF Lockable

LEMMA LocksDiffer ==
  ASSUME NEW x \in Lockable, NEW y \in Lockable, Rank(x) = Rank(y), x[2] = y[2]
  PROVE  x = y
  <1>1. x[1] = y[1]
    BY LockRank
  <1> QED BY <1>1, LockRank

\* What a session wants are locks.
LEMMA WantedLocks ==
  ASSUME TypeInv, NEW s \in Sessions
  PROVE  Wanted(s) \subseteq Lockable /\ Missing(s) \subseteq Lockable
  <1> SUFFICES Wanted(s) \subseteq Lockable
    BY DEF Missing
  <1>1. \A t \in Template : TemplateLocks(t) \subseteq Lockable
    <2> TAKE t \in Template
    <2>1. t.category \in Categories \union {NoCategory} /\ AccountsOf(t.posting) \subseteq Accounts
      <3>1. t.posting \in Posting /\ t.category \in Categories \union {NoCategory}
        BY TemplateFields
      <3> QED BY <3>1 DEF Posting, AccountsOf
    <2>2. t.category # NoCategory => categories[t.category].group \in Groups \union {NoGroup}
      BY <2>1 DEF TypeInv, ReferenceTypes
    <2> QED BY <2>1, <2>2 DEF TemplateLocks, Rows, Lockable
  <1>2. CASE s \in Workers
    <2>1. worker[s].row.content \in Template
      BY <1>2, WorkerFields DEF TypeInv
    <2>2. AccountsOf(worker[s].row.content.posting) \subseteq Accounts
      BY <2>1, TemplateFields DEF Posting, AccountsOf
    <2> QED BY <1>2, <2>2 DEF Wanted, Rows, Lockable
  <1>3. CASE s \notin Workers
    <2> DEFINE q == user[s].req
    <2>1. s \in Users /\ q \in Request
      BY <1>3, UserRequest DEF Sessions, TypeInv
    <2> HIDE DEF q
    <2>2. Wanted(s) = CASE q.op = "create" -> TemplateLocks(q.content)
             [] q.op = "update" -> Rows("rule", {q.rule}) \union TemplateLocks(q.content)
             [] q.op = "category" -> Rows("category", {q.category})
                                       \union Rows("group", {q.content.group} \ {NoGroup})
             [] q.op = "group" -> Rows("group", {q.group})
             [] q.op = "account" -> Rows("account", {q.account})
             [] OTHER -> {}
      BY <1>3 DEF Wanted, q
    <2>3. CASE q.op = "create"
      BY <1>1, <2>1, <2>2, <2>3, RequestFields
    <2>4. CASE q.op = "update"
      BY <1>1, <2>1, <2>2, <2>4, RequestFields DEF Lockable, Rows
    <2>5. CASE q.op = "category"
      BY <2>1, <2>2, <2>5, RequestFields DEF Lockable, Rows
    <2>6. CASE q.op = "group"
      BY <2>1, <2>2, <2>6, RequestFields DEF Lockable, Rows
    <2>7. CASE q.op = "account"
      BY <2>1, <2>2, <2>7, RequestFields DEF Lockable, Rows
    <2>8. CASE q.op = "none"
      BY <2>1, <2>2, <2>8
    <2> QED BY <2>1, <2>3, <2>4, <2>5, <2>6, <2>7, <2>8, RequestFields
  <1> QED BY <1>2, <1>3

LEMMA LocksWanted == TypeInv => \A s \in Sessions : Wanted(s) \subseteq Lockable
  BY WantedLocks

\* A session that misses locks asks for the first of them.
LEMMA NextLockExists ==
  ASSUME TypeInv, NEW s \in Sessions, Missing(s) # {}
  PROVE  \E x \in Lockable : IsNextLock(s, x)
  <1> DEFINE ranks == {Rank(x) : x \in Missing(s)}
  <1>1. Missing(s) \subseteq Lockable
    BY WantedLocks
  <1>2. ranks \subseteq Nat /\ ranks # {}
    BY <1>1, LockRank
  <1>3. PICK n \in ranks : \A m \in ranks : n <= m
    <2> HIDE DEF ranks
    <2> QED BY <1>2, LeastNat
  <1> DEFINE ids == {x[2] : x \in {y \in Missing(s) : Rank(y) = n}}
  <1>4. ids \subseteq Nat /\ ids # {}
    BY <1>1, LockRank
  <1>5. PICK i \in ids : \A j \in ids : i <= j
    <2> HIDE DEF ids
    <2> QED BY <1>4, LeastNat
  <1>6. PICK x \in Missing(s) : Rank(x) = n /\ x[2] = i
    OBVIOUS
  <1>7. ASSUME NEW y \in Missing(s)
        PROVE  x = y \/ Before(x, y)
    <2>1. /\ x \in Lockable /\ y \in Lockable /\ Rank(x) \in Nat /\ Rank(y) \in Nat
          /\ x[2] \in Nat /\ y[2] \in Nat
      BY <1>1, LockRank
    <2>2. n <= Rank(y)
      BY <1>3
    <2>3. CASE Rank(y) # n
      BY <1>6, <2>1, <2>2, <2>3 DEF Before
    <2>4. CASE Rank(y) = n
      <3>1. i <= y[2]
        BY <1>5, <2>4
      <3>2. CASE y[2] = i
        BY <1>6, <2>1, <2>4, <3>2, LocksDiffer
      <3>3. CASE y[2] # i
        BY <1>6, <2>1, <2>4, <3>1, <3>3 DEF Before
      <3> QED BY <3>2, <3>3
    <2> QED BY <2>3, <2>4
  <1> QED BY <1>1, <1>6, <1>7 DEF IsNextLock

(***************************************************************************)
(* What a step leaves to the sessions that do not make it.                 *)
(***************************************************************************)
LEMMA RequestLocks ==
  ASSUME NEW u \in Users, Begin(u) \/ LockRow(u) \/ ReadUsage(u) \/ Commit(u) \/ Rollback(u)
  PROVE  /\ \/ UNCHANGED holder \/ holder' = Unlocked(u)
            \/ \E y \in Lockable : holder[y] = NoHolder /\ holder' = [holder EXCEPT ![y] = u]
         /\ UNCHANGED worker
  <1>1. CASE Reject(u)
    BY <1>1 DEF Reject, EndRequest
  <1>2. CASE Begin(u)
    BY <1>2 DEF Begin, BeginCreate, BeginUpdate, BeginCategory, BeginGroup, BeginAccount, Arrive
  <1>3. CASE (LockRow(u) \/ ReadUsage(u)) /\ ~Reject(u)
    BY <1>3 DEF LockRow, ReadUsage
  <1>4. CASE Commit(u)
    BY <1>1, <1>4 DEF Commit, CommitCreate, CommitUpdate, CommitCategory, CommitGroup, CommitAccount,
       EndRequest
  <1> QED BY <1>1, <1>2, <1>3, <1>4 DEF Rollback

\* A worker in whose step nothing of its own changes.
LEMMA WorkerStaysInOrder ==
  ASSUME TypeInv, NEW w \in Workers, InOrder(w), worker'[w] = worker[w],
         \A x \in Lockable : holder'[x] = w <=> holder[x] = w
  PROVE  InOrder(w)'
  <1>1. Wanted(w)' = Wanted(w) /\ Wanted(w) \subseteq Lockable
    BY WantedLocks DEF Wanted, Sessions
  <1>2. Missing(w)' = Missing(w)
    BY <1>1 DEF Missing
  <1>3. \A x \in Lockable : Belongs(w, x)' <=> Belongs(w, x)
    BY <1>1 DEF Belongs
  <1> QED BY <1>2, <1>3 DEF InOrder

\* Only a request that edits a rule wants more or less when a category moves.
LEMMA WantedKept ==
  ASSUME NEW u \in Users, user'[u] = user[u],
         LET c == user[u].req.content.category IN
         EditsRule(u) => c = NoCategory \/ categories'[c] = categories[c]
  PROVE  Wanted(u)' = Wanted(u)
  <1> DEFINE q == user[u].req
  <1>0. u \notin Workers
    BY SessionsDiffer
  <1>1. CASE ~EditsRule(u)
    BY <1>0, <1>1 DEF Wanted, EditsRule
  <1>2. CASE EditsRule(u)
    <2>1. TemplateLocks(q.content)' = TemplateLocks(q.content)
      BY <1>2 DEF TemplateLocks
    <2> QED BY <1>0, <1>2, <2>1 DEF Wanted, EditsRule
  <1> QED BY <1>1, <1>2

\* The rule's lock is wanted whatever becomes of the category.
LEMMA RuleWanted ==
  ASSUME NEW u \in Users, EditsRule(u), user'[u] = user[u]
  PROVE  \A x : x[1] = "rule" => (x \in Wanted(u)' <=> x \in Wanted(u))
  <1> DEFINE q == user[u].req
             rule == IF q.op = "update" THEN Rows("rule", {q.rule}) ELSE {}
  <1>1. Wanted(u) = rule \union TemplateLocks(q.content)
    BY SessionsDiffer DEF Wanted, EditsRule
  <1>2. Wanted(u)' = rule \union TemplateLocks(q.content)'
    BY SessionsDiffer DEF Wanted, EditsRule
  <1>3. \A x \in TemplateLocks(q.content) \union TemplateLocks(q.content)' : x[1] # "rule"
    BY DEF TemplateLocks, Rows
  <1> QED BY <1>1, <1>2, <1>3

\* A request in whose step nothing of its own changes. Its category can only
\* change while the request does not hold it, that is, while it holds at most
\* its rule.
LEMMA RequestStaysInOrder ==
  ASSUME TypeInv, TypeInv', NEW u \in Users, InOrder(u), LeftAlone(u)
  PROVE  InOrder(u)'
  <1> DEFINE c == user[u].req.content.category
  <1>0. /\ u \in Sessions /\ u \notin Workers
        /\ Wanted(u) \subseteq Lockable /\ Wanted(u)' \subseteq Lockable
        /\ \A x \in Lockable : holder'[x] = u <=> holder[x] = u
        /\ user'[u] = user[u]
    <2>1. u \in Sessions
      BY DEF Sessions
    <2>2. Wanted(u)' \subseteq Lockable
      <3>1. (TypeInv => \A s \in Sessions : Wanted(s) \subseteq Lockable)'
        BY LocksWanted, PTL
      <3>2. TypeInv' => \A s \in Sessions : Wanted(s)' \subseteq Lockable
        BY <3>1
      <3> QED BY <2>1, <3>2
    <2> QED BY <2>1, <2>2, WantedLocks, SessionsDiffer DEF LeftAlone
  <1>1. CASE EditsRule(u) => c = NoCategory \/ categories'[c] = categories[c]
    <2>1. Wanted(u)' = Wanted(u)
      BY <1>0, <1>1, WantedKept
    <2>2. Missing(u)' = Missing(u)
      BY <1>0, <2>1 DEF Missing
    <2> QED BY <1>0, <2>1, <2>2 DEF InOrder, Belongs
  <1>2. CASE EditsRule(u) /\ c # NoCategory /\ categories'[c] # categories[c]
    <2>1. c \in Categories /\ <<"category", c>> \in Lockable
      <3>1. user[u].req \in Request
        BY UserRequest DEF TypeInv
      <3>2. user[u].req.content \in Template
        BY <1>2, <3>1, RequestFields DEF EditsRule
      <3> QED BY <1>2, <3>2, TemplateFields, Locks
    <2>2. holder[<<"category", c>>] # u
      BY <1>2, <2>1 DEF LeftAlone
    <2>3. <<"category", c>> \in Missing(u)
      BY <1>2, <2>2, EditLocks, LocksOfTemplate DEF Missing
    <2>4. ASSUME NEW x \in Lockable, holder'[x] = u
          PROVE  Belongs(u, x)' /\ \A y \in Missing(u)' : Before(x, y)
      <3>1. holder[x] = u /\ x \in Wanted(u) /\ Before(x, <<"category", c>>)
        BY <1>0, <2>3, <2>4 DEF InOrder, Belongs
      <3>2. Rank(<<"category", c>>) = 2 /\ Rank(x) \in Nat
        BY <2>1, LockRank
      <3>3. x[1] = "rule"
        <4>1. CASE x = <<"category", c>>
          BY <2>2, <3>1, <4>1
        <4>2. CASE x[1] \in {"group", "account"}
          BY <2>1, <3>1, <3>2, <4>2, LockRank DEF Before
        <4> QED BY <1>2, <3>1, <4>1, <4>2, EditLocks
      <3>4. x \in Wanted(u)'
        BY <1>0, <1>2, <3>1, <3>3, RuleWanted
      <3>5. ASSUME NEW y \in Missing(u)' PROVE Before(x, y)
        <4>1. y \in Lockable /\ y \in Wanted(u)' /\ holder'[y] # u
          BY <1>0 DEF Missing
        <4>2. CASE y[1] = "rule"
          <5>1. y \in Wanted(u)
            BY <1>0, <1>2, <4>1, <4>2, RuleWanted
          <5>2. y \in Missing(u)
            BY <1>0, <4>1, <5>1 DEF Missing
          <5> QED BY <3>1, <5>2 DEF InOrder
        <4>3. CASE y[1] # "rule"
          <5>1. Rank(y) >= 2 /\ Rank(x) = 1
            BY <3>3, <4>1, <4>3, LockRank
          <5> QED BY <5>1, <4>1, <3>2, LockRank DEF Before
        <4> QED BY <4>2, <4>3
      <3> QED BY <3>4, <3>5 DEF Belongs
    <2> QED BY <2>4 DEF InOrder
  <1> QED BY <1>1, <1>2

\* A session that takes its next lock.
LEMMA TakenInOrder ==
  ASSUME TypeInv, NEW s \in Sessions, InOrder(s), NEW x \in Lockable, IsNextLock(s, x),
         holder' = [holder EXCEPT ![x] = s],
         Wanted(s)' = Wanted(s), UNCHANGED worker
  PROVE  InOrder(s)'
  <1>1. /\ Missing(s) \subseteq Lockable /\ Wanted(s) \subseteq Lockable
        /\ \A y \in Lockable : holder'[y] = s <=> y = x \/ holder[y] = s
    BY WantedLocks DEF TypeInv, LockTypes
  <1>2. Missing(s)' = Missing(s) \ {x}
    BY <1>1 DEF Missing
  <1>3. \A y \in Missing(s)' : Before(x, y)
    BY <1>2 DEF IsNextLock
  <1>4. x \in Wanted(s)'
    BY DEF IsNextLock, Missing
  <1> QED BY <1>1, <1>2, <1>3, <1>4 DEF InOrder, Belongs

\* A session that holds nothing.
LEMMA FreeInOrder ==
  ASSUME NEW s, \A x \in Lockable : holder'[x] # s
  PROVE  InOrder(s)'
  BY DEF InOrder

(***************************************************************************)
(* A session's own steps.                                                  *)
(***************************************************************************)
LEMMA UnlockedFree ==
  ASSUME NEW s \in Sessions, holder' = Unlocked(s)
  PROVE  \A x \in Lockable : holder'[x] # s
  BY RecurringSessionAssumption DEF Unlocked

LEMMA RequestInOrder ==
  ASSUME RefInv, NEW u \in Users, InOrder(u),
         Begin(u) \/ LockRow(u) \/ ReadUsage(u) \/ Commit(u) \/ Rollback(u)
  PROVE  InOrder(u)'
  <1>0. TypeInv /\ IdleFree(u) /\ u \in Sessions /\ user \in [Users -> UserState]
    BY DEF RefInv, CursorInv, GenInv, RequestInv, Sessions, TypeInv, UserTypes
  <1>1. CASE EndRequest(u)
    BY <1>0, <1>1, UnlockedFree, FreeInOrder DEF EndRequest
  <1>2. CASE Begin(u)
    BY <1>0, <1>2, FreeInOrder DEF IdleFree, Begin, BeginCreate, BeginUpdate, BeginCategory,
       BeginGroup, BeginAccount, Arrive
  <1>3. CASE LockRow(u) /\ ~Reject(u)
    <2>1. PICK x \in Lockable : IsNextLock(u, x) /\ holder' = [holder EXCEPT ![x] = u]
      BY <1>3 DEF LockRow
    <2>2. UNCHANGED <<user, worker, references>>
      BY <1>3 DEF LockRow
    <2>3. Wanted(u)' = Wanted(u)
      BY <2>2, WantedKept DEF references
    <2> QED BY <1>0, <2>1, <2>2, <2>3, TakenInOrder
  <1>4. CASE ReadUsage(u) /\ ~Reject(u)
    <2>0. UNCHANGED <<worker, references, holder>> /\ user' = [user EXCEPT ![u].pc = "commit"]
      BY <1>4 DEF ReadUsage
    <2>1. UNCHANGED <<worker, references, holder>> /\ user'[u].req = user[u].req
      <3>1. user[u] \in UserState
        BY <1>0
      <3> QED BY <1>0, <2>0, <3>1 DEF UserState
    <2>2. Wanted(u)' = Wanted(u)
      BY <2>1 DEF Wanted, TemplateLocks, references
    <2>3. Missing(u)' = Missing(u)
      BY <2>1, <2>2 DEF Missing
    <2> QED BY <2>1, <2>2, <2>3 DEF InOrder, Belongs
  <1>5. CASE Commit(u) \/ Rollback(u) \/ Reject(u)
    BY <1>1, <1>5 DEF Commit, CommitCreate, CommitUpdate, CommitCategory, CommitGroup, CommitAccount,
       Rollback, Reject
  <1> QED BY <1>2, <1>3, <1>4, <1>5

\* Outside of an occurrence a worker holds nothing, and before it has come to
\* the accounts it holds only its rule.
LEMMA WorkerHolds ==
  ASSUME NEW w \in Workers, InOrder(w), NEW x \in Lockable, holder[x] = w
  PROVE  /\ worker[w].pc \in InProgress
         /\ worker[w].pc # "lock" => x[1] = "rule"
  BY DEF InOrder, Belongs, Wanted, InProgress

LEMMA WorkerInOrder ==
  ASSUME TypeInv, NEW w \in Workers, InOrder(w),
         Work(w) \/ LockRule(w) \/ LockPostingAccount(w) \/ Fault(w)
  PROVE  InOrder(w)'
  <1>0. w \in Sessions /\ worker \in [Workers -> WorkerState] /\ LockTypes
    BY DEF Sessions, TypeInv, WorkerTypes
  <1>1. CASE holder' = Unlocked(w)
    BY <1>0, <1>1, UnlockedFree, FreeInOrder
  <1>2. CASE Poll(w) \/ EndPoll(w)
    <2>1. worker[w].pc \notin InProgress /\ UNCHANGED holder
      BY <1>2 DEF Poll, EndPoll, InProgress
    <2> QED BY <2>1, WorkerHolds, FreeInOrder
  <1>3. CASE LockRule(w)
    <2> DEFINE r == Head(worker[w].queue)
    <2>0. worker[w].pc = "loop"
      BY <1>3 DEF LockRule, HasNextRule
    <2>1. \A x \in Lockable : holder[x] # w
      BY <2>0, WorkerHolds DEF InProgress
    <2>2. CASE ~Due(rules[r], worker[w].now)
      <3>1. UNCHANGED holder
        BY <1>3, <2>2 DEF LockRule
      <3> QED BY <2>1, <3>1, FreeInOrder
    <2>3. CASE Due(rules[r], worker[w].now)
      <3>1. worker'[w].pc = "exists"
        BY <1>0, <1>3, <2>3, LockRuleFields
      <3>2. \A x \in Lockable : holder'[x] = w => x[1] = "rule"
        BY <1>0, <1>3, <2>1, <2>3 DEF LockRule, LockTypes
      <3>3. Missing(w)' = {}
        BY <3>1 DEF Missing, Wanted
      <3> QED BY <3>1, <3>2, <3>3 DEF InOrder, Belongs, InProgress
    <2> QED BY <2>2, <2>3
  <1>4. CASE /\ worker[w].pc \in {"exists", "category"} /\ UNCHANGED holder
             /\ \E pc \in {"category", "lock"} : worker' = [worker EXCEPT ![w].pc = pc]
    <2>1. PICK pc \in {"category", "lock"} : worker' = [worker EXCEPT ![w].pc = pc]
      BY <1>4
    <2>2. worker'[w].pc \in {"category", "lock"}
      BY <1>0, <2>1, GoesOnFields
    <2>3. ASSUME NEW x \in Lockable, holder'[x] = w
          PROVE  Belongs(w, x)' /\ \A y \in Missing(w)' : Before(x, y)
      <3>1. x[1] = "rule"
        BY <1>4, <2>3, WorkerHolds
      <3>2. Belongs(w, x)'
        BY <2>2, <3>1 DEF Belongs, InProgress
      <3>3. ASSUME NEW y \in Missing(w)' PROVE Before(x, y)
        <4>1. y[1] = "account"
          BY DEF Missing, Wanted, Rows
        <4>2. Rank(x) = 1 /\ Rank(y) = 4
          BY <3>1, <4>1 DEF Rank
        <4> QED BY <4>2 DEF Before
      <3> QED BY <3>2, <3>3
    <2> QED BY <2>3 DEF InOrder
  <1>5. CASE LockPostingAccount(w)
    <2>1. UNCHANGED worker /\ Wanted(w)' = Wanted(w)
      BY <1>5 DEF LockPostingAccount, Wanted
    <2> QED BY <1>0, <1>5, <2>1, TakenInOrder DEF LockPostingAccount
  <1>6. CASE CheckExists(w) \/ CheckCategory(w)
    BY <1>1, <1>4, <1>6 DEF CheckExists, CheckCategory, RuleFailed, EndOccurrence
  <1>7. CASE Generate(w) \/ Fault(w)
    BY <1>1, <1>7 DEF Generate, Fault, StatementFails, Crash, RuleFailed, EndOccurrence
  <1> QED BY <1>2, <1>3, <1>5, <1>6, <1>7 DEF Work

(***************************************************************************)
(* The invariant, and that nobody waits in a circle.                       *)
(***************************************************************************)
LEMMA InitOrder == Init => OrderInv
  <1> SUFFICES ASSUME Init PROVE OrderInv
    OBVIOUS
  <1>1. \A s \in Sessions, x \in Lockable : holder[x] # s
    BY RecurringSessionAssumption DEF Init
  <1> QED BY <1>1, InitRef DEF OrderInv, InOrder

LEMMA NextOrder ==
  ASSUME OrderInv, [Next]_vars
  PROVE  OrderInv'
  <1>0. /\ RefInv /\ RefInv' /\ TypeInv /\ TypeInv' /\ LockTypes /\ GenInv
        /\ \A s \in Sessions : InOrder(s)
        /\ \A u \in Users : UsageChecked(u)
    BY NextRef DEF OrderInv, RefInv, CursorInv, GenInv, TypeInv, RequestInv
  <1>1. ASSUME NEW v \in Users, Begin(v) \/ LockRow(v) \/ ReadUsage(v) \/ Commit(v) \/ Rollback(v),
               NEW s \in Sessions
        PROVE  InOrder(s)'
    <2>1. CASE s = v
      BY <1>0, <1>1, <2>1, RequestInOrder
    <2>2. CASE s \in Users /\ s # v
      BY <1>0, <1>1, <2>2, RequestLeavesAlone, RequestStaysInOrder
    <2>3. CASE s \in Workers
      <3>1. s # v /\ v \in Sessions
        BY <2>3, SessionsDiffer DEF Sessions
      <3>2. \A x \in Lockable : holder'[x] = s <=> holder[x] = s
        BY <1>0, <1>1, <3>1, RequestLocks, LocksOfOthers
      <3> QED BY <1>0, <1>1, <2>3, <3>2, RequestLocks, WorkerStaysInOrder
    <2> QED BY <2>1, <2>2, <2>3 DEF Sessions
  <1>2. ASSUME NEW w \in Workers, Work(w) \/ LockRule(w) \/ LockPostingAccount(w) \/ Fault(w),
               NEW s \in Sessions
        PROVE  InOrder(s)'
    <2>1. CASE s = w
      BY <1>0, <1>2, <2>1, WorkerInOrder
    <2>2. CASE s \in Users
      BY <1>0, <1>2, <2>2, WorkerLeavesAlone, RequestStaysInOrder
    <2>3. CASE s \in Workers /\ s # w
      <3>1. w \in Sessions
        BY DEF Sessions
      <3>2. \A x \in Lockable : holder'[x] = s <=> holder[x] = s
        BY <1>0, <1>2, <2>3, <3>1, WorkerLocks, LocksOfOthers
      <3>3. worker'[s] = worker[s]
        BY <1>0, <1>2, <2>3, WorkerKeepsOthers DEF Undisturbed
      <3> QED BY <1>0, <2>3, <3>2, <3>3, WorkerStaysInOrder
    <2> QED BY <2>1, <2>2, <2>3 DEF Sessions
  <1>3. ASSUME Tick \/ (\E r \in Rules, d \in Dates : DeleteGenerated(r, d)) \/ UNCHANGED vars,
               NEW s \in Sessions
        PROVE  InOrder(s)'
    <2>1. UNCHANGED <<holder, worker>>
      BY <1>3 DEF Tick, DeleteGenerated, vars
    <2>2. CASE s \in Users
      BY <1>0, <1>3, <2>2, OutsideLeavesAlone, RequestStaysInOrder
    <2>3. CASE s \in Workers
      BY <1>0, <2>1, <2>3, WorkerStaysInOrder
    <2> QED BY <2>2, <2>3 DEF Sessions
  <1> QED BY <1>0, <1>1, <1>2, <1>3 DEF Next, OrderInv

\* The lock a session waits for.
NextLock(s) ==
  IF s \in Workers /\ HasNextRule(s) THEN <<"rule", Head(worker[s].queue)>>
  ELSE CHOOSE x \in Lockable : IsNextLock(s, x)

\* A session that waits for another one asks for a lock the other holds, and
\* itself holds nothing behind it.
LEMMA WaitsInOrder ==
  ASSUME OrderInv, NEW s \in Sessions, Awaited(s) \in Sessions
  PROVE  /\ NextLock(s) \in Lockable /\ holder[NextLock(s)] = Awaited(s)
         /\ \A x \in Lockable : holder[x] = s => Before(x, NextLock(s))
  <1>0. TypeInv /\ InOrder(s)
    BY DEF OrderInv, RefInv, CursorInv, GenInv
  <1>1. CASE s \in Workers /\ HasNextRule(s)
    <2>1. worker[s].queue \in Seq(Rules) /\ worker[s].queue # <<>> /\ worker[s].pc = "loop"
      BY <1>0, <1>1, WorkerFields DEF TypeInv, HasNextRule
    <2>2. NextLock(s) = <<"rule", Head(worker[s].queue)>> /\ NextLock(s) \in Lockable
      BY <1>1, <2>1, Locks DEF NextLock
    <2>3. \A x \in Lockable : holder[x] # s
      BY <1>0, <1>1, <2>1, WorkerHolds DEF InProgress
    <2> QED BY <1>1, <2>2, <2>3 DEF Awaited
  <1>2. CASE ~(s \in Workers /\ HasNextRule(s))
    <2>1. Missing(s) # {} /\ Awaited(s) = holder[NextLock(s)]
      BY <1>2, RecurringSessionAssumption DEF Awaited, NextLock
    <2>2. NextLock(s) \in Lockable /\ IsNextLock(s, NextLock(s))
      BY <1>0, <1>2, <2>1, NextLockExists DEF NextLock
    <2>3. NextLock(s) \in Missing(s)
      BY <2>2 DEF IsNextLock
    <2> QED BY <1>0, <2>1, <2>2, <2>3 DEF InOrder
  <1> QED BY <1>1, <1>2

\* Polls and requests of any number never wait for each other in a circle.
THEOREM NobodyWaitsInACircle == Spec => []NoDeadlock
  <1>1. OrderInv => NoDeadlock
    <2> SUFFICES ASSUME OrderInv, NEW D \in SUBSET Sessions, D # {},
                        \A s \in D : Awaited(s) \in D
                 PROVE  FALSE
      BY DEF NoDeadlock
    <2> DEFINE rank == [s \in D |-> Rank(NextLock(s))]
               id == [s \in D |-> NextLock(s)[2]]
    <2>1. \A s \in D : NextLock(s) \in Lockable
      BY WaitsInOrder
    <2>2. rank \in [D -> Nat] /\ id \in [D -> Nat]
      BY <2>1, LockRank
    <2>3. IsFiniteSet(D)
      <3>1. IsFiniteSet(Sessions)
        BY RecurringSessionAssumption, FS_Union DEF Sessions
      <3> QED BY <3>1, FS_Subset
    <2>4. PICK s \in D : \A t \in D : rank[t] < rank[s] \/ (rank[t] = rank[s] /\ id[t] <= id[s])
      <3> HIDE DEF rank, id
      <3> QED BY <2>2, <2>3, LastInOrder
    <2> DEFINE t == Awaited(s)
    <2>5. t \in D /\ holder[NextLock(s)] = t /\ NextLock(s) \in Lockable
      BY WaitsInOrder
    <2>6. Before(NextLock(s), NextLock(t))
      BY <2>5, WaitsInOrder
    <2>7. rank[s] < rank[t] \/ (rank[s] = rank[t] /\ id[s] < id[t])
      BY <2>5, <2>6 DEF Before
    <2>8. rank[t] < rank[s] \/ (rank[t] = rank[s] /\ id[t] <= id[s])
      BY <2>4, <2>5
    <2>9. rank[s] \in Nat /\ rank[t] \in Nat /\ id[s] \in Nat /\ id[t] \in Nat
      <3> HIDE DEF rank, id, t
      <3> QED BY <2>2, <2>5
    <2> HIDE DEF rank, id, t
    <2> QED BY <2>7, <2>8, <2>9
  <1>2. Spec => []OrderInv
    BY InitOrder, NextOrder, PTL DEF Spec
  <1> QED BY <1>1, <1>2, PTL
=============================================================================
