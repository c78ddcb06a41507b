------------------------------- MODULE Ledger -------------------------------
(***************************************************************************)
(* The backend sessions of the household ledger: TransactionService and    *)
(* the posting side of AccountService over PostgreSQL at READ COMMITTED.   *)
(*                                                                         *)
(* Each request runs in one database transaction (@Transactional) and each *)
(* statement of it that another session can see or be seen by is a step:   *)
(* taking a row lock (SELECT ... FOR UPDATE), an unlocked read, and the    *)
(* commit, which publishes the session's writes and releases its locks.    *)
(* No handler reads back what it wrote, so its writes are part of the      *)
(* commit step. A failed check, or a failure of the session at any moment, *)
(* rolls back: nothing is written and the locks are released.              *)
(***************************************************************************)
EXTENDS LedgerRules

CONSTANTS
  Sessions,       \* database sessions of concurrent requests
  NoSession,      \* the holder of a free lock
  Postings,       \* the postings clients ask for, a subset of Posting
  AccountChanges, \* the <<kind, archived>> pairs account PATCHes ask for
  InitialKind,    \* classification each account is opened with
  ReadOnly,       \* whether refund summaries are read as well
  MaxVersion      \* bound: a row at this version is not edited again

ASSUME SessionAssumption == NoSession \notin Sessions /\ IsFiniteSet(Sessions)
ASSUME PostingsAssumption == Postings \subseteq Posting
ASSUME AccountChangesAssumption == AccountChanges \subseteq Kinds \X BOOLEAN
ASSUME InitialKindAssumption == InitialKind \in [Accounts -> Kinds]
ASSUME VersionAssumption == MaxVersion \in Nat

VARIABLES
  txs,        \* committed rows of transactions
  entries,    \* committed rows of transaction_account_entries, by transaction
  accounts,   \* committed rows of accounts
  txLock,     \* the session holding each transaction row, or NoSession
  accLock,    \* the session holding each account row, or NoSession
  ses         \* what each session runs and has read

vars == <<txs, entries, accounts, txLock, accLock, ses>>
database == <<txs, entries, accounts>>
locks == <<txLock, accLock>>

(***************************************************************************)
(* Requests. A PATCH or DELETE carries the version its client was shown;   *)
(* `base' is what it was shown with it and is only read by properties.     *)
(***************************************************************************)
Shown(t) == [row |-> txs[t], entries |-> entries[t]]
Base == [row: Row, entries: SUBSET Entry]

Request ==
       [op: {"none"}]
  \union [op: {"create"}, posting: Postings, actor: Members]
  \union [op: {"refund"}, tx: TxIds, amount: Amounts, note: Notes, actor: Members]
  \union [op: {"update"}, tx: TxIds, posting: Postings, actor: Members, base: Base]
  \union [op: {"delete"}, tx: TxIds, actor: Members, base: Base]
  \union [op: {"account"}, account: Accounts, kind: Kinds, archived: BOOLEAN]
  \union [op: {"summary"}, tx: TxIds]

Idle == [pc |-> "idle", req |-> [op |-> "none"], row |-> AbsentRow, old |-> {},
         seen |-> [a \in Accounts |-> NoAccount], refunded |-> 0]

Pc == {"idle", "readTransaction", "lockTransaction", "readEntries", "lockOriginal",
       "readRefunds", "lockAccounts", "write", "respond"}

Session == [pc: Pc, req: Request, row: Row, old: SUBSET Entry,
            seen: [Accounts -> AccountRow], refunded: Nat]

At(s, pc) == ses[s].pc = pc
Op(s) == ses[s].req.op
Tx(s) == ses[s].req.tx

Init ==
  /\ txs = [t \in TxIds |-> AbsentRow]
  /\ entries = [t \in TxIds |-> {}]
  /\ accounts = [a \in Accounts |-> NoAccount]
  /\ txLock = [t \in TxIds |-> NoSession]
  /\ accLock = [a \in Accounts |-> NoSession]
  /\ ses = [s \in Sessions |-> Idle]

(***************************************************************************)
(* The end of a database transaction, committed or not.                    *)
(***************************************************************************)
\* Mutated form: account locks outlive the request.
ReleaseTransactionsOnly(s) ==
  /\ txLock' = [t \in TxIds |-> IF txLock[t] = s THEN NoSession ELSE txLock[t]]
  /\ ses' = [ses EXCEPT ![s] = Idle]
  /\ UNCHANGED accLock

Release(s) ==
  /\ txLock' = [t \in TxIds |-> IF txLock[t] = s THEN NoSession ELSE txLock[t]]
  /\ accLock' = [a \in Accounts |-> IF accLock[a] = s THEN NoSession ELSE accLock[a]]
  /\ ses' = [ses EXCEPT ![s] = Idle]

Reject(s) == Release(s) /\ UNCHANGED database

\* A failed statement, a lost connection or a dead backend, at any moment.
Rollback(s) == ~At(s, "idle") /\ Reject(s)

Goto(s, pc) == ses' = [ses EXCEPT ![s].pc = pc]

(***************************************************************************)
(* Arrival of a request.                                                   *)
(***************************************************************************)
Arrive(s, req, pc) ==
  /\ At(s, "idle")
  /\ ses' = [ses EXCEPT ![s].pc = pc, ![s].req = req]
  /\ UNCHANGED <<database, locks>>

\* Bound: an insert is only begun while an identifier is left for it.
Inserting == {s \in Sessions : Op(s) \in {"create", "refund"}}
IdLeft == Cardinality({t \in TxIds : txs[t].status = "ABSENT"}) > Cardinality(Inserting)

BeginCreate(s) ==
  \E p \in Postings, m \in Members :
    IdLeft /\ Arrive(s, [op |-> "create", posting |-> p, actor |-> m], "lockAccounts")

BeginRefund(s) ==
  \E t \in TxIds, amount \in Amounts, n \in Notes, m \in Members :
    /\ IdLeft /\ txs[t].status # "ABSENT"
    /\ Arrive(s, [op |-> "refund", tx |-> t, amount |-> amount, note |-> n, actor |-> m],
              "lockTransaction")

\* Bound: rows at MaxVersion are left alone.
Editable(t) == txs[t].status # "ABSENT" /\ txs[t].version < MaxVersion

BeginUpdate(s) ==
  \E t \in TxIds, p \in Postings, m \in Members :
    /\ Editable(t)
    /\ Arrive(s, [op |-> "update", tx |-> t, posting |-> p, actor |-> m, base |-> Shown(t)],
              "lockTransaction")

BeginDelete(s) ==
  \E t \in TxIds, m \in Members :
    /\ Editable(t)
    /\ Arrive(s, [op |-> "delete", tx |-> t, actor |-> m, base |-> Shown(t)],
              "lockTransaction")

BeginSummary(s) ==
  \E t \in TxIds :
    /\ ReadOnly /\ txs[t].status # "ABSENT"
    /\ Arrive(s, [op |-> "summary", tx |-> t], "readTransaction")

BeginAccount(s) ==
  \E a \in Accounts, c \in AccountChanges :
    /\ accounts[a].kind # "ABSENT"
    /\ Arrive(s, [op |-> "account", account |-> a, kind |-> c[1], archived |-> c[2]],
              "lockAccounts")

(***************************************************************************)
(* The transaction row. A locking read waits for the holder and then sees  *)
(* the row as last committed; a deleted row is not found.                  *)
(***************************************************************************)
ReadTransaction(s) ==
  /\ At(s, "readTransaction")
  /\ IF txs[Tx(s)].status = "ACTIVE"
     THEN /\ ses' = [ses EXCEPT ![s].pc = "readEntries", ![s].row = txs[Tx(s)]]
          /\ UNCHANGED <<database, locks>>
     ELSE Reject(s)

\* Mutated form: the requested version is not compared.
StaleIgnored(s) == FALSE

\* rejectStaleVersion, for the requests that carry a version.
Stale(s) ==
  Op(s) \in {"update", "delete"} /\ txs[Tx(s)].version # ses[s].req.base.row.version

\* Mutated form: the row is read without FOR UPDATE.
LockTransactionUnlocked(s) ==
  /\ At(s, "lockTransaction")
  /\ IF txs[Tx(s)].status = "ACTIVE" /\ ~Stale(s)
     THEN /\ ses' = [ses EXCEPT ![s].pc = "readEntries", ![s].row = txs[Tx(s)]]
          /\ UNCHANGED <<database, locks>>
     ELSE Reject(s)

LockTransaction(s) ==
  /\ At(s, "lockTransaction")
  /\ txLock[Tx(s)] = NoSession
  /\ IF txs[Tx(s)].status = "ACTIVE" /\ ~Stale(s)
     THEN /\ txLock' = [txLock EXCEPT ![Tx(s)] = s]
          /\ ses' = [ses EXCEPT ![s].pc = "readEntries", ![s].row = txs[Tx(s)]]
          /\ UNCHANGED <<database, accLock>>
     ELSE Reject(s)

(***************************************************************************)
(* requireValidEntries: the entry set and, unlocked, its accounts, which   *)
(* stay managed instances of the session for the rest of the request.      *)
(***************************************************************************)
Loaded(s) == [a \in Accounts |->
                IF \E e \in entries[Tx(s)] : e.account = a THEN accounts[a] ELSE NoAccount]

AfterEntries(s) ==
  CASE Op(s) \in {"refund", "summary"} -> IF Refundable(ses[s].row) THEN "readRefunds" ELSE "idle"
    [] Op(s) = "update" -> IF ses[s].row.adj = "REFUND" THEN "idle" ELSE "readRefunds"
    [] OTHER -> IF ses[s].row.adj = "REFUND" THEN "lockOriginal" ELSE "readRefunds"

ReadEntries(s) ==
  /\ At(s, "readEntries")
  /\ IF ValidEntries(ses[s].row, entries[Tx(s)], accounts) /\ AfterEntries(s) # "idle"
     THEN /\ ses' = [ses EXCEPT ![s].pc = AfterEntries(s), ![s].old = entries[Tx(s)],
                                ![s].seen = Loaded(s)]
          /\ UNCHANGED <<database, locks>>
     ELSE Reject(s)

\* Deleting a refund waits for the original's row as well.
LockOriginal(s) ==
  /\ At(s, "lockOriginal")
  /\ txLock[ses[s].row.reverses] = NoSession
  /\ txLock' = [txLock EXCEPT ![ses[s].row.reverses] = s]
  /\ Goto(s, "write")
  /\ UNCHANGED <<database, accLock>>

(***************************************************************************)
(* The active refunds of the row, and what each handler decides from them. *)
(***************************************************************************)
SameFinancialMeaning(s) ==
  LET p == ses[s].req.posting
      r == ses[s].row
  IN  /\ p.type = r.type /\ p.amount = r.amount
      /\ \E e \in ses[s].old : e.role = "PRIMARY" /\ e.account = p.from

\* Mutated form: delete does not ask for active refunds.
AfterRefundsDeleteAnyway(s, refunded) ==
  CASE Op(s) = "summary" -> "respond"
    [] Op(s) = "refund" ->
         IF ses[s].req.amount <= ses[s].row.amount - refunded THEN "write" ELSE "idle"
    [] Op(s) = "update" ->
         IF refunded = 0 THEN "lockAccounts"
         ELSE IF SameFinancialMeaning(s) THEN "write" ELSE "idle"
    [] OTHER -> "write"

AfterRefunds(s, refunded) ==
  CASE Op(s) = "summary" -> "respond"
    [] Op(s) = "refund" ->
         IF ses[s].req.amount <= ses[s].row.amount - refunded THEN "write" ELSE "idle"
    [] Op(s) = "update" ->
         IF refunded = 0 THEN "lockAccounts"
         ELSE IF SameFinancialMeaning(s) THEN "write" ELSE "idle"
    [] OTHER -> IF refunded = 0 THEN "write" ELSE "idle"

ReadRefunds(s) ==
  /\ At(s, "readRefunds")
  /\ LET refunded == RefundedAmount(txs, Tx(s))
     IN  IF AfterRefunds(s, refunded) # "idle"
         THEN /\ ses' = [ses EXCEPT ![s].pc = AfterRefunds(s, refunded),
                                    ![s].refunded = refunded]
              /\ UNCHANGED <<database, locks>>
         ELSE Reject(s)

(***************************************************************************)
(* Account rows are locked one by one in ascending identifier order. An    *)
(* account the session already manages is not refreshed by the lock.       *)
(***************************************************************************)
Wanted(s) == IF Op(s) = "account" THEN {ses[s].req.account} ELSE AccountsOf(ses[s].req.posting)
Missing(s) == {a \in Wanted(s) : accLock[a] # s}

\* Mutated form: a transfer locks its source first, then its destination.
IsNextAccountAsGiven(s, a) ==
  /\ a \in Missing(s)
  /\ Op(s) # "account" => a = ses[s].req.posting.from \/ ses[s].req.posting.from \notin Missing(s)

IsNextAccount(s, a) == a \in Missing(s) /\ \A b \in Missing(s) : a <= b

LockAccount(s) ==
  /\ At(s, "lockAccounts")
  /\ \E a \in Accounts :
       /\ IsNextAccount(s, a)
       /\ accLock[a] = NoSession
       /\ IF accounts[a].kind = "ABSENT"
          THEN Reject(s)
          ELSE /\ accLock' = [accLock EXCEPT ![a] = s]
               /\ ses' = [ses EXCEPT ![s].seen[a] =
                            IF @.kind = "ABSENT" THEN accounts[a] ELSE @]
               /\ UNCHANGED <<database, txLock>>

\* The checks made once every account of the request is locked.
CheckPosting(s) ==
  /\ At(s, "lockAccounts") /\ Missing(s) = {} /\ Op(s) # "account"
  /\ IF PostingAllowed(ses[s].req.posting, ses[s].seen)
     THEN Goto(s, "write") /\ UNCHANGED <<database, locks>>
     ELSE Reject(s)

\* Mutated form: only entries of active transactions fix a classification.
CheckAccountUseActiveOnly(s) ==
  /\ At(s, "lockAccounts") /\ Missing(s) = {} /\ Op(s) = "account"
  /\ LET a == ses[s].req.account
         active == [t \in TxIds |-> IF txs[t].status = "ACTIVE" THEN entries[t] ELSE {}]
     IN  IF ses[s].req.kind # ses[s].seen[a].kind /\ HasLedgerEntries(active, a)
         THEN Reject(s)
         ELSE Goto(s, "write") /\ UNCHANGED <<database, locks>>

\* rejectPostingClassificationChange.
CheckAccountUse(s) ==
  /\ At(s, "lockAccounts") /\ Missing(s) = {} /\ Op(s) = "account"
  /\ LET a == ses[s].req.account
     IN  IF ses[s].req.kind # ses[s].seen[a].kind /\ HasLedgerEntries(entries, a)
         THEN Reject(s)
         ELSE Goto(s, "write") /\ UNCHANGED <<database, locks>>

(***************************************************************************)
(* Commits.                                                                *)
(***************************************************************************)
\* The identity column hands out the lowest identifier not used yet.
Insert(row, es) ==
  \E id \in TxIds :
    /\ txs[id].status = "ABSENT"
    /\ \A t \in TxIds : txs[t].status = "ABSENT" => id <= t
    /\ txs' = [txs EXCEPT ![id] = row]
    /\ entries' = [entries EXCEPT ![id] = es]
    /\ UNCHANGED accounts

\* UPDATE transactions ... WHERE id = ? AND version = ?, sent for a dirty row only.
SaveRow(s, new) ==
  /\ new # ses[s].row => txs[Tx(s)].version = ses[s].row.version
  /\ txs' = [txs EXCEPT ![Tx(s)] = IF new = ses[s].row THEN @ ELSE Saved(ses[s].row, new)]

CommitCreate(s) ==
  LET p == ses[s].req.posting
  IN  /\ At(s, "write") /\ Op(s) = "create"
      /\ Insert(NewRow(p.type, p.amount, p.note, ses[s].req.actor, "NORMAL", NoTx),
                PostingEntries(p, ses[s].seen))
      /\ Release(s)

CommitRefund(s) ==
  LET q == ses[s].req
      e == CHOOSE e \in ses[s].old : TRUE
  IN  /\ At(s, "write") /\ Op(s) = "refund"
      /\ Insert(NewRow("EXPENSE", q.amount, q.note, q.actor, "REFUND", q.tx),
                {PrimaryEntry(e.account, IF e.delta > 0 THEN -q.amount ELSE q.amount)})
      /\ Release(s)

\* Mutated form: the new entries are added to the old ones.
CommitUpdateAccumulating(s) ==
  LET p == ses[s].req.posting
      new == [ses[s].row EXCEPT !.type = p.type, !.amount = p.amount, !.note = p.note,
                                !.by = ses[s].req.actor]
  IN  /\ At(s, "write") /\ Op(s) = "update" /\ ses[s].refunded = 0
      /\ SaveRow(s, new)
      /\ entries' = [entries EXCEPT ![Tx(s)] = @ \union PostingEntries(p, ses[s].seen)]
      /\ UNCHANGED accounts
      /\ Release(s)

CommitUpdate(s) ==
  LET p == ses[s].req.posting
      new == [ses[s].row EXCEPT !.type = p.type, !.amount = p.amount, !.note = p.note,
                                !.by = ses[s].req.actor]
  IN  /\ At(s, "write") /\ Op(s) = "update" /\ ses[s].refunded = 0
      /\ SaveRow(s, new)
      /\ entries' = [entries EXCEPT ![Tx(s)] = PostingEntries(p, ses[s].seen)]
      /\ UNCHANGED accounts
      /\ Release(s)

\* The memo or date of an original that has active refunds.
CommitTouch(s) ==
  /\ At(s, "write") /\ Op(s) = "update" /\ ses[s].refunded > 0
  /\ SaveRow(s, [ses[s].row EXCEPT !.note = ses[s].req.posting.note,
                                   !.by = ses[s].req.actor])
  /\ UNCHANGED <<entries, accounts>>
  /\ Release(s)

\* Mutated form: deleting also removes the entries kept as evidence.
CommitDeletePhysical(s) ==
  /\ At(s, "write") /\ Op(s) = "delete"
  /\ SaveRow(s, [ses[s].row EXCEPT !.status = "DELETED", !.by = ses[s].req.actor])
  /\ entries' = [entries EXCEPT ![Tx(s)] = {}]
  /\ UNCHANGED accounts
  /\ Release(s)

CommitDelete(s) ==
  /\ At(s, "write") /\ Op(s) = "delete"
  /\ SaveRow(s, [ses[s].row EXCEPT !.status = "DELETED", !.by = ses[s].req.actor])
  /\ UNCHANGED <<entries, accounts>>
  /\ Release(s)

CommitAccount(s) ==
  /\ At(s, "write") /\ Op(s) = "account"
  /\ accounts' = [accounts EXCEPT ![ses[s].req.account] =
                    [kind |-> ses[s].req.kind, archived |-> ses[s].req.archived]]
  /\ UNCHANGED <<txs, entries>>
  /\ Release(s)

\* A refund summary leaves the backend.
Respond(s) == At(s, "respond") /\ Reject(s)

\* AccountService.create: one insert, in a transaction of its own.
OpenAccount(a) ==
  /\ accounts[a].kind = "ABSENT"
  /\ accounts' = [accounts EXCEPT ![a] = [kind |-> InitialKind[a], archived |-> FALSE]]
  /\ UNCHANGED <<txs, entries, locks, ses>>

Begin(s) == \/ BeginCreate(s) \/ BeginRefund(s) \/ BeginUpdate(s)
            \/ BeginDelete(s) \/ BeginSummary(s) \/ BeginAccount(s)

Commit(s) == \/ CommitCreate(s) \/ CommitRefund(s) \/ CommitUpdate(s)
             \/ CommitTouch(s) \/ CommitDelete(s) \/ CommitAccount(s)

Lock(s) == LockTransaction(s) \/ LockOriginal(s) \/ LockAccount(s)

Work(s) == \/ ReadTransaction(s) \/ ReadEntries(s) \/ ReadRefunds(s)
           \/ CheckPosting(s) \/ CheckAccountUse(s) \/ Commit(s) \/ Respond(s)

Next ==
  \/ \E s \in Sessions : Begin(s) \/ Lock(s) \/ Work(s) \/ Rollback(s)
  \/ \E a \in Accounts : OpenAccount(a)

Spec == Init /\ [][Next]_vars

(***************************************************************************)
(* Fairness: a running session executes its next statement; PostgreSQL     *)
(* queues the waiters of a row, so a lock freed again and again is granted.*)
(***************************************************************************)
Fairness == \A s \in Sessions : WF_vars(Work(s)) /\ SF_vars(Lock(s))
FairSpec == Spec /\ Fairness

(***************************************************************************)
(* Properties.                                                             *)
(***************************************************************************)

\* Every variable holds rows, locks and session states of its tables, and no
\* transaction has two entries of one role (UNIQUE in V3): an update replaces
\* the entry set instead of adding to it.
TypeOK ==
  /\ txs \in [TxIds -> Row]
  /\ entries \in [TxIds -> SUBSET Entry]
  /\ \A t \in TxIds : \A e, f \in entries[t] : e.role = f.role => e = f
  /\ accounts \in [Accounts -> AccountRow]
  /\ txLock \in [TxIds -> Sessions \union {NoSession}]
  /\ accLock \in [Accounts -> Sessions \union {NoSession}]
  /\ ses \in [Sessions -> Session]

\* The active refunds of a transaction never add up to more than its amount,
\* however createRefund, update and delete of original and refunds interleave.
RefundCap == \A o \in TxIds : RefundedAmount(txs, o) <= txs[o].amount

\* An active refund has an active NORMAL expense behind it and sits on that
\* expense's account with the opposite sign: createRefund read the original's
\* entry before its own insert, and update and delete refuse meanwhile.
RefundLineage ==
  \A r \in TxIds : txs[r].status = "ACTIVE" /\ txs[r].adj = "REFUND" =>
    LET o == txs[r].reverses
    IN  /\ o \in TxIds /\ txs[o].status = "ACTIVE" /\ Refundable(txs[o])
        /\ \E e \in entries[o] : /\ entries[o] = {e}
                                 /\ entries[r] = {PrimaryEntry(e.account,
                                      IF e.delta > 0 THEN -txs[r].amount ELSE txs[r].amount)}

\* Every stored transaction, deleted ones included, has exactly the entries its
\* type, amount and accounts call for, under the accounts' classifications of
\* now: no account PATCH changes a classification an entry was computed from.
EntrySetsValid ==
  \A t \in TxIds : txs[t].status # "ABSENT" => ValidEntries(txs[t], entries[t], accounts)

\* Net worth counts assets positively and liabilities negatively.
Worth(e) == IF accounts[e.account].kind = "ASSET" THEN e.delta ELSE -e.delta

\* An income raises net worth by its amount, an expense lowers it, on a card or
\* on a bank account alike, a refund raises it, and a transfer or card payment
\* leaves it as it was, whatever is reclassified or archived meanwhile.
NetWorthFollowsSpending ==
  \A t \in TxIds : txs[t].status = "ACTIVE" =>
    LET gains == txs[t].type = "INCOME" \/ txs[t].adj = "REFUND"
    IN  IF txs[t].type = "TRANSFER"
        THEN \E e, f \in entries[t] : entries[t] = {e, f} /\ e # f /\ Worth(e) + Worth(f) = 0
        ELSE \E e \in entries[t] :
               entries[t] = {e} /\ Worth(e) = (IF gains THEN txs[t].amount ELSE -txs[t].amount)

\* No set of sessions waits for row locks held inside that set: the handlers'
\* lock orders (refund before original, transaction before accounts, accounts
\* ascending) never let PostgreSQL find a deadlock to break.
Awaited(s) ==
  CASE At(s, "lockTransaction") -> txLock[Tx(s)]
    [] At(s, "lockOriginal") -> txLock[ses[s].row.reverses]
    [] At(s, "lockAccounts") /\ Missing(s) # {} ->
         accLock[CHOOSE a \in Accounts : IsNextAccount(s, a)]
    [] OTHER -> NoSession

NoDeadlock ==
  \A D \in SUBSET Sessions : D # {} => \E s \in D : Awaited(s) \notin D

\* A PATCH or DELETE that changes a row overwrites the very row its client was
\* shown, and moves the version on: two edits of one version cannot both win.
Edits(s, t) ==
  /\ Op(s) \in {"update", "delete"} /\ At(s, "write") /\ Tx(s) = t
  /\ ses'[s] = Idle

VersionGuardsRow ==
  [][\A t \in TxIds : txs[t].status # "ABSENT" /\ txs'[t] # txs[t] =>
       /\ txs'[t].version = txs[t].version + 1
       /\ \E s \in Sessions : Edits(s, t) /\ ses[s].req.base.row = txs[t]]_vars

\* The documented version contract for the whole resource, entries included:
\* an edit made from a stale view is refused (docs/02-domain/transaction.md:73).
StaleViewRefused ==
  [][\A t \in TxIds, s \in Sessions :
       Edits(s, t) /\ (txs'[t] # txs[t] \/ entries'[t] # entries[t])
         => ses[s].req.base = Shown(t)]_vars

\* While a transaction has active refunds, its type, amount, status and entries
\* stay as they are; only note, editor and version move.
RefundedOriginalFrozen ==
  [][\A o \in TxIds : ActiveRefunds(txs, o) # {} =>
       /\ entries'[o] = entries[o]
       /\ \E n \in Notes, m \in Members, v \in {txs[o].version, txs[o].version + 1} :
            txs'[o] = [txs[o] EXCEPT !.note = n, !.by = m, !.version = v]]_vars

\* The committed tables change only by requests that take effect atomically.
Atomic == INSTANCE AtomicLedger WITH txs <- txs, entries <- entries, accounts <- accounts
ImplementsAtomicLedger == Atomic!Spec

\* Every request that arrives is answered, whatever it waits for: its session is
\* idle again, however often it is used.
EveryRequestEnds == \A s \in Sessions : []<>At(s, "idle")
=============================================================================
