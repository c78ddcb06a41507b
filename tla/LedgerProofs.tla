---------------------------- MODULE LedgerProofs -----------------------------
(***************************************************************************)
(* Proofs about Ledger, for every set of transactions, accounts and        *)
(* sessions and every bound: the types and the refund rules; then what     *)
(* concurrent sessions rely on: the entries of each transaction, the edits *)
(* of a row, requests that take effect as if each ran alone, and locks     *)
(* that are never awaited in a circle.                                     *)
(***************************************************************************)
EXTENDS Ledger, OrderProofs, FiniteSetTheorems, TLAPS

(***************************************************************************)
(* Type correctness. A handler's steps read the fields of its own kind of  *)
(* request, and createRefund takes the account of the first entry of the   *)
(* original: the invariant also says which requests are where, and that    *)
(* this entry exists.                                                      *)
(***************************************************************************)
OpsAt(pc) ==
  CASE pc = "idle" -> {"none"}
    [] pc \in {"readTransaction", "respond"} -> {"summary"}
    [] pc = "lockTransaction" -> {"refund", "update", "delete"}
    [] pc \in {"readEntries", "readRefunds"} -> {"summary", "refund", "update", "delete"}
    [] pc = "lockOriginal" -> {"delete"}
    [] pc = "lockAccounts" -> {"create", "update", "account"}
    [] pc = "write" -> {"create", "refund", "update", "delete", "account"}

InStep(x) ==
  /\ x.req.op \in OpsAt(x.pc)
  /\ x.req.op = "refund" /\ x.pc \in {"readRefunds", "write"} => x.old # {}

TypeInv == TypeOK /\ \A s \in Sessions : InStep(ses[s])

RoleUnique(E) == \A e, f \in E : e.role = f.role => e = f

\* What each kind of request carries.
LEMMA RequestFields ==
  ASSUME NEW q \in Request
  PROVE  /\ q.op \in {"none", "create", "refund", "update", "delete", "account", "summary"}
         /\ q.op = "create" => q.posting \in Posting /\ q.actor \in Members
         /\ q.op = "refund" => /\ q.tx \in TxIds /\ q.amount \in Amounts
                               /\ q.note \in Notes /\ q.actor \in Members
         /\ q.op = "update" => /\ q.tx \in TxIds /\ q.posting \in Posting
                               /\ q.actor \in Members /\ q.base \in Base
         /\ q.op = "delete" => q.tx \in TxIds /\ q.actor \in Members /\ q.base \in Base
         /\ q.op = "account" => q.account \in Accounts /\ q.kind \in Kinds /\ q.archived \in BOOLEAN
         /\ q.op = "summary" => q.tx \in TxIds
  BY PostingsAssumption DEF Request

\* The entries of a posting are rows of the entry table, one for each role.
LEMMA PostingEntriesType ==
  ASSUME NEW p \in Posting, NEW acc
  PROVE  PostingEntries(p, acc) \in SUBSET Entry /\ RoleUnique(PostingEntries(p, acc))
  <1>1. p.amount \in Int /\ p.amount <= MaxAmount /\ -p.amount >= -MaxAmount
        /\ p.amount \in -MaxAmount..MaxAmount /\ -p.amount \in -MaxAmount..MaxAmount
    BY MaxAmountAssumption DEF Posting, Amounts
  <1>2. p.from \in Accounts /\ p.to \in Accounts
    BY DEF Posting
  <1>3. CASE p.type = "TRANSFER"
    BY <1>1, <1>2, <1>3 DEF PostingEntries, TransferEntries, Entry, RoleUnique
  <1>4. CASE p.type # "TRANSFER"
    BY <1>1, <1>2, <1>4 DEF PostingEntries, PrimaryEntry, PrimaryDelta, Entry, RoleUnique
  <1> QED BY <1>3, <1>4

\* The validator accepts no empty entry set.
LEMMA ValidEntriesNonempty ==
  ASSUME NEW r, NEW es, NEW acc, ValidEntries(r, es, acc)
  PROVE  es # {}
  <1>1. CASE r.type = "TRANSFER"
    BY <1>1 DEF ValidEntries, ValidTransfer, TransferEntries
  <1>2. CASE r.type # "TRANSFER"
    BY <1>2 DEF ValidEntries, ValidPrimary
  <1> QED BY <1>1, <1>2

LEMMA AbsentRowType == AbsentRow \in Row /\ NoAccount \in AccountRow
  <1>1. (CHOOSE n \in Notes : TRUE) \in Notes /\ (CHOOSE m \in Members : TRUE) \in Members
    BY PayloadAssumption
  <1>2. 1 \in Amounts
    BY MaxAmountAssumption DEF Amounts
  <1>3. AbsentRow \in Row
    BY <1>1, <1>2 DEF AbsentRow, Row, TransactionTypes
  <1>4. NoAccount \in AccountRow
    BY DEF NoAccount, AccountRow
  <1> QED BY <1>3, <1>4

LEMMA IdleType == Idle \in Session
  BY AbsentRowType DEF Idle, Session, Pc, Request

\* Saving a row keeps it a row.
LEMMA SavedType ==
  ASSUME NEW old \in Row, NEW new \in Row
  PROVE  Saved(old, new) \in Row
  <1>1. [new EXCEPT !.version = old.version + 1] \in Row
    BY DEF Row
  <1> QED BY <1>1 DEF Saved

(***************************************************************************)
(* What a step does to the session record: the fields it sets, each from   *)
(* its own set, and those it leaves alone.                                 *)
(***************************************************************************)
WithRequest(x, pc, q) == [x EXCEPT !.pc = pc, !.req = q]
WithPc(x, pc) == [x EXCEPT !.pc = pc]
WithRow(x, pc, r) == [x EXCEPT !.pc = pc, !.row = r]
WithEntries(x, pc, E, f) == [x EXCEPT !.pc = pc, !.old = E, !.seen = f]
WithRefunded(x, pc, n) == [x EXCEPT !.pc = pc, !.refunded = n]
WithSeen(x, f) == [x EXCEPT !.seen = f]

LEMMA SessionFields ==
  ASSUME NEW x \in Session
  PROVE  /\ x.pc \in Pc /\ x.req \in Request /\ x.row \in Row /\ x.old \in SUBSET Entry
         /\ x.seen \in [Accounts -> AccountRow] /\ x.refunded \in Nat
  BY DEF Session

LEMMA SetRequest ==
  ASSUME NEW x \in Session, NEW pc \in Pc, NEW q \in Request
  PROVE  LET y == WithRequest(x, pc, q)
         IN  /\ y \in Session /\ y.pc = pc /\ y.req = q /\ y.row = x.row
             /\ y.old = x.old /\ y.seen = x.seen /\ y.refunded = x.refunded
  BY DEF Session, WithRequest

LEMMA SetPc ==
  ASSUME NEW x \in Session, NEW pc \in Pc
  PROVE  LET y == WithPc(x, pc)
         IN  /\ y \in Session /\ y.pc = pc /\ y.req = x.req /\ y.row = x.row
             /\ y.old = x.old /\ y.seen = x.seen /\ y.refunded = x.refunded
  BY DEF Session, WithPc

LEMMA SetRow ==
  ASSUME NEW x \in Session, NEW pc \in Pc, NEW r \in Row
  PROVE  LET y == WithRow(x, pc, r)
         IN  /\ y \in Session /\ y.pc = pc /\ y.req = x.req /\ y.row = r
             /\ y.old = x.old /\ y.seen = x.seen /\ y.refunded = x.refunded
  BY DEF Session, WithRow

LEMMA SetEntries ==
  ASSUME NEW x \in Session, NEW pc \in Pc, NEW E \in SUBSET Entry,
         NEW f \in [Accounts -> AccountRow]
  PROVE  LET y == WithEntries(x, pc, E, f)
         IN  /\ y \in Session /\ y.pc = pc /\ y.req = x.req /\ y.row = x.row
             /\ y.old = E /\ y.seen = f /\ y.refunded = x.refunded
  BY DEF Session, WithEntries

LEMMA SetRefunded ==
  ASSUME NEW x \in Session, NEW pc \in Pc, NEW n \in Nat
  PROVE  LET y == WithRefunded(x, pc, n)
         IN  /\ y \in Session /\ y.pc = pc /\ y.req = x.req /\ y.row = x.row
             /\ y.old = x.old /\ y.seen = x.seen /\ y.refunded = n
  BY DEF Session, WithRefunded

LEMMA SetSeen ==
  ASSUME NEW x \in Session, NEW f \in [Accounts -> AccountRow]
  PROVE  LET y == WithSeen(x, f)
         IN  /\ y \in Session /\ y.pc = x.pc /\ y.req = x.req /\ y.row = x.row
             /\ y.old = x.old /\ y.seen = f /\ y.refunded = x.refunded
  BY DEF Session, WithSeen

(***************************************************************************)
(* Two shapes of step: the end of a request, and a session that moves on.  *)
(***************************************************************************)
LEMMA MoveTypes ==
  ASSUME TypeInv, NEW s \in Sessions, NEW v \in Session, InStep(v),
         ses' = [ses EXCEPT ![s] = v]
  PROVE  ses' \in [Sessions -> Session] /\ \A x \in Sessions : InStep(ses'[x])
  BY DEF TypeInv, TypeOK

LEMMA ReleaseTypes ==
  ASSUME TypeInv, NEW s \in Sessions, Release(s)
  PROVE  /\ txLock' \in [TxIds -> Sessions \union {NoSession}]
         /\ accLock' \in [Accounts -> Sessions \union {NoSession}]
         /\ ses' \in [Sessions -> Session]
         /\ \A x \in Sessions : InStep(ses'[x])
  <1>1. InStep(Idle)
    BY DEF InStep, Idle, OpsAt
  <1>2. ses' \in [Sessions -> Session] /\ \A x \in Sessions : InStep(ses'[x])
    BY <1>1, IdleType, MoveTypes DEF Release
  <1> QED BY <1>2 DEF TypeInv, TypeOK, Release

LEMMA RejectTypes ==
  ASSUME TypeInv, NEW s \in Sessions, Reject(s)
  PROVE  TypeInv'
  BY ReleaseTypes DEF Reject, TypeInv, TypeOK, database

LEMMA RefundedType ==
  ASSUME NEW T \in [TxIds -> Row], NEW o
  PROVE  /\ IsFiniteSet(Won(T, ActiveRefunds(T, o)))
         /\ RefundedAmount(T, o) \in Nat
  <1>1. IsFiniteSet(Amounts)
    BY FS_Interval, MaxAmountAssumption DEF Amounts
  <1>2. IsFiniteSet(TxIds \X Amounts)
    BY <1>1, FS_Product, TxIdsAssumption
  <1>3. Won(T, ActiveRefunds(T, o)) \in SUBSET (TxIds \X Amounts)
    BY DEF Won, ActiveRefunds
  <1>4. IsFiniteSet(Won(T, ActiveRefunds(T, o)))
    BY <1>2, <1>3, FS_Subset
  <1> QED BY <1>4, FS_CardinalityType DEF RefundedAmount

LEMMA BeginTypes ==
  ASSUME TypeInv, NEW s \in Sessions, Begin(s)
  PROVE  TypeInv'
  <1> USE DEF TypeInv, TypeOK
  <1>1. ASSUME NEW q \in Request, NEW pc \in Pc \ {"readRefunds", "write"},
               q.op \in OpsAt(pc), Arrive(s, q, pc)
        PROVE  TypeInv'
    <2> DEFINE v == WithRequest(ses[s], pc, q)
    <2>1. ses[s] \in Session
      OBVIOUS
    <2>2. v \in Session /\ v.pc = pc /\ v.req = q
      BY <2>1, SetRequest
    <2>3. InStep(v)
      BY <1>1, <2>2 DEF InStep
    <2>4. ses' = [ses EXCEPT ![s] = v]
      BY <1>1 DEF Arrive, WithRequest
    <2>5. ses' \in [Sessions -> Session] /\ \A x \in Sessions : InStep(ses'[x])
      BY <2>2, <2>3, <2>4, MoveTypes
    <2> QED BY <1>1, <2>5 DEF Arrive, database, locks
  <1>2. /\ {"lockAccounts", "lockTransaction", "readTransaction"} \subseteq Pc \ {"readRefunds", "write"}
        /\ {"create", "account"} \subseteq OpsAt("lockAccounts")
        /\ {"refund", "update", "delete"} \subseteq OpsAt("lockTransaction")
        /\ "summary" \in OpsAt("readTransaction")
    BY DEF Pc, OpsAt
  <1>3. CASE BeginCreate(s)
    <2>1. PICK p \in Postings, m \in Members :
            Arrive(s, [op |-> "create", posting |-> p, actor |-> m], "lockAccounts")
      BY <1>3 DEF BeginCreate
    <2>2. [op |-> "create", posting |-> p, actor |-> m] \in Request
      BY DEF Request
    <2> QED BY <1>1, <1>2, <2>1, <2>2
  <1>4. CASE BeginRefund(s)
    <2>1. PICK t \in TxIds, amount \in Amounts, n \in Notes, m \in Members :
            Arrive(s, [op |-> "refund", tx |-> t, amount |-> amount, note |-> n, actor |-> m],
                   "lockTransaction")
      BY <1>4 DEF BeginRefund
    <2>2. [op |-> "refund", tx |-> t, amount |-> amount, note |-> n, actor |-> m] \in Request
      BY DEF Request
    <2> QED BY <1>1, <1>2, <2>1, <2>2
  <1>5. ASSUME NEW t \in TxIds PROVE Shown(t) \in Base
    BY DEF Shown, Base
  <1>6. CASE BeginUpdate(s)
    <2>1. PICK t \in TxIds, p \in Postings, m \in Members :
            Arrive(s, [op |-> "update", tx |-> t, posting |-> p, actor |-> m,
                       base |-> Shown(t)], "lockTransaction")
      BY <1>6 DEF BeginUpdate
    <2>2. [op |-> "update", tx |-> t, posting |-> p, actor |-> m, base |-> Shown(t)] \in Request
      BY <1>5 DEF Request
    <2> QED BY <1>1, <1>2, <2>1, <2>2
  <1>7. CASE BeginDelete(s)
    <2>1. PICK t \in TxIds, m \in Members :
            Arrive(s, [op |-> "delete", tx |-> t, actor |-> m, base |-> Shown(t)],
                   "lockTransaction")
      BY <1>7 DEF BeginDelete
    <2>2. [op |-> "delete", tx |-> t, actor |-> m, base |-> Shown(t)] \in Request
      BY <1>5 DEF Request
    <2> QED BY <1>1, <1>2, <2>1, <2>2
  <1>8. CASE BeginSummary(s)
    <2>1. PICK t \in TxIds : Arrive(s, [op |-> "summary", tx |-> t], "readTransaction")
      BY <1>8 DEF BeginSummary
    <2>2. [op |-> "summary", tx |-> t] \in Request
      BY DEF Request
    <2> QED BY <1>1, <1>2, <2>1, <2>2
  <1>9. CASE BeginAccount(s)
    <2>1. PICK a \in Accounts, c \in AccountChanges :
            Arrive(s, [op |-> "account", account |-> a, kind |-> c[1], archived |-> c[2]],
                   "lockAccounts")
      BY <1>9 DEF BeginAccount
    <2>2. c[1] \in Kinds /\ c[2] \in BOOLEAN
      BY AccountChangesAssumption
    <2>3. [op |-> "account", account |-> a, kind |-> c[1], archived |-> c[2]] \in Request
      BY <2>2 DEF Request
    <2> QED BY <1>1, <1>2, <2>1, <2>3
  <1> QED BY <1>3, <1>4, <1>6, <1>7, <1>8, <1>9 DEF Begin

(***************************************************************************)
(* The statements of a request.                                            *)
(***************************************************************************)
\* The transaction, or the posting, a request names.
LEMMA RequestInStep ==
  ASSUME TypeInv, NEW s \in Sessions
  PROVE  /\ ses[s] \in Session /\ Op(s) \in OpsAt(ses[s].pc)
         /\ Op(s) \in {"refund", "update", "delete", "summary"} => Tx(s) \in TxIds
         /\ Op(s) \in {"create", "update"} =>
              ses[s].req.posting \in Posting /\ ses[s].req.actor \in Members
         /\ Op(s) = "refund" =>
              /\ ses[s].req.amount \in Amounts /\ ses[s].req.note \in Notes
              /\ ses[s].req.actor \in Members
              /\ ses[s].pc \in {"readRefunds", "write"} => ses[s].old # {}
         /\ Op(s) = "delete" => ses[s].req.actor \in Members
         /\ Op(s) = "account" =>
              /\ ses[s].req.account \in Accounts /\ ses[s].req.kind \in Kinds
              /\ ses[s].req.archived \in BOOLEAN
  <1>1. ses[s] \in Session /\ ses[s].req \in Request /\ InStep(ses[s])
    BY SessionFields DEF TypeInv, TypeOK
  <1>2. Op(s) = ses[s].req.op /\ Tx(s) = ses[s].req.tx
    BY DEF Op, Tx
  <1> QED BY <1>1, <1>2, RequestFields DEF InStep

LEMMA ReadTypes ==
  ASSUME TypeInv, NEW s \in Sessions, ReadTransaction(s) \/ LockTransaction(s)
  PROVE  TypeInv'
  <1>1. CASE Reject(s)
    BY <1>1, RejectTypes
  <1>2. CASE ~Reject(s)
    <2> DEFINE v == WithRow(ses[s], "readEntries", txs[Tx(s)])
    <2>1. ses[s] \in Session /\ Op(s) \in OpsAt("readEntries") /\ Tx(s) \in TxIds
      BY RequestInStep DEF ReadTransaction, LockTransaction, At, OpsAt
    <2>2. txs[Tx(s)] \in Row /\ "readEntries" \in Pc
      BY <2>1 DEF TypeInv, TypeOK, Pc
    <2>3. v \in Session /\ v.pc = "readEntries" /\ v.req = ses[s].req
      BY <2>1, <2>2, SetRow
    <2>4. InStep(v)
      BY <2>1, <2>3 DEF InStep, Op
    <2>5. ses' = [ses EXCEPT ![s] = v]
      BY <1>2 DEF ReadTransaction, LockTransaction, WithRow, TypeInv, TypeOK
    <2>6. ses' \in [Sessions -> Session] /\ \A x \in Sessions : InStep(ses'[x])
      BY <2>3, <2>4, <2>5, MoveTypes
    <2>7. UNCHANGED database /\ txLock' \in [TxIds -> Sessions \union {NoSession}] /\ UNCHANGED accLock
      BY <1>2 DEF ReadTransaction, LockTransaction, locks, database, TypeInv, TypeOK
    <2> QED BY <2>6, <2>7 DEF TypeInv, TypeOK, database
  <1> QED BY <1>1, <1>2

LEMMA ReadEntriesTypes ==
  ASSUME TypeInv, NEW s \in Sessions, ReadEntries(s)
  PROVE  TypeInv'
  <1>1. CASE Reject(s)
    BY <1>1, RejectTypes
  <1>2. CASE ~Reject(s)
    <2> DEFINE pc == AfterEntries(s)
               v == WithEntries(ses[s], pc, entries[Tx(s)], Loaded(s))
    <2>1. ses[s] \in Session /\ Op(s) \in OpsAt("readEntries") /\ Tx(s) \in TxIds
      BY RequestInStep DEF ReadEntries, At, OpsAt
    <2>2. entries[Tx(s)] \in SUBSET Entry /\ Loaded(s) \in [Accounts -> AccountRow]
      BY <2>1, AbsentRowType DEF TypeInv, TypeOK, Loaded
    <2>3. pc \in Pc /\ Op(s) \in OpsAt(pc) /\ entries[Tx(s)] # {}
      BY <1>2, <2>1, ValidEntriesNonempty DEF ReadEntries, AfterEntries, OpsAt, Pc
    <2>4. v \in Session /\ v.pc = pc /\ v.req = ses[s].req /\ v.old = entries[Tx(s)]
      BY <2>1, <2>2, <2>3, SetEntries
    <2>5. InStep(v)
      BY <2>3, <2>4 DEF InStep, Op
    <2>6. ses' = [ses EXCEPT ![s] = v]
      BY <1>2 DEF ReadEntries, WithEntries, TypeInv, TypeOK
    <2>7. ses' \in [Sessions -> Session] /\ \A x \in Sessions : InStep(ses'[x])
      BY <2>4, <2>5, <2>6, MoveTypes
    <2> QED BY <1>2, <2>7 DEF ReadEntries, TypeInv, TypeOK, database, locks
  <1> QED BY <1>1, <1>2

LEMMA ReadRefundsTypes ==
  ASSUME TypeInv, NEW s \in Sessions, ReadRefunds(s)
  PROVE  TypeInv'
  <1>1. CASE Reject(s)
    BY <1>1, RejectTypes
  <1>2. CASE ~Reject(s)
    <2> DEFINE n == RefundedAmount(txs, Tx(s))
               pc == AfterRefunds(s, n)
               v == WithRefunded(ses[s], pc, n)
    <2>1. ses[s] \in Session /\ Op(s) \in OpsAt("readRefunds") /\ ses[s].pc = "readRefunds"
      BY RequestInStep DEF ReadRefunds, At
    <2>2. n \in Nat
      BY RefundedType DEF TypeInv, TypeOK
    <2>3. pc \in Pc /\ Op(s) \in OpsAt(pc)
      BY <1>2, <2>1 DEF ReadRefunds, AfterRefunds, OpsAt, Pc
    <2>4. v \in Session /\ v.pc = pc /\ v.req = ses[s].req /\ v.old = ses[s].old
      BY <2>1, <2>2, <2>3, SetRefunded
    <2>5. InStep(v)
      BY <2>1, <2>3, <2>4, RequestInStep DEF InStep, Op
    <2>6. ses' = [ses EXCEPT ![s] = v]
      BY <1>2 DEF ReadRefunds, WithRefunded, TypeInv, TypeOK
    <2>7. ses' \in [Sessions -> Session] /\ \A x \in Sessions : InStep(ses'[x])
      BY <2>4, <2>5, <2>6, MoveTypes
    <2> QED BY <1>2, <2>7 DEF ReadRefunds, TypeInv, TypeOK, database, locks
  <1> QED BY <1>1, <1>2

\* A session that only goes on to its commit.
LEMMA GotoTypes ==
  ASSUME TypeInv, NEW s \in Sessions, Goto(s, "write"),
         Op(s) \in {"create", "update", "delete", "account"}
  PROVE  ses' \in [Sessions -> Session] /\ \A x \in Sessions : InStep(ses'[x])
  <1> DEFINE v == WithPc(ses[s], "write")
  <1>1. ses[s] \in Session /\ "write" \in Pc
    BY RequestInStep DEF Pc
  <1>2. v \in Session /\ v.pc = "write" /\ v.req = ses[s].req
    BY <1>1, SetPc
  <1>3. InStep(v)
    BY <1>2 DEF InStep, Op, OpsAt
  <1>4. ses' = [ses EXCEPT ![s] = v]
    BY DEF Goto, WithPc, TypeInv, TypeOK
  <1> QED BY <1>2, <1>3, <1>4, MoveTypes

LEMMA LockOriginalTypes ==
  ASSUME TypeInv, NEW s \in Sessions, LockOriginal(s)
  PROVE  TypeInv'
  <1>1. Op(s) = "delete"
    BY RequestInStep DEF LockOriginal, At, OpsAt
  <1>2. ses' \in [Sessions -> Session] /\ \A x \in Sessions : InStep(ses'[x])
    BY <1>1, GotoTypes DEF LockOriginal
  <1> QED BY <1>2 DEF LockOriginal, TypeInv, TypeOK, database

LEMMA CheckTypes ==
  ASSUME TypeInv, NEW s \in Sessions, CheckPosting(s) \/ CheckAccountUse(s)
  PROVE  TypeInv'
  <1>1. CASE Reject(s)
    BY <1>1, RejectTypes
  <1>2. CASE ~Reject(s)
    <2>1. Op(s) \in {"create", "update", "account"}
      BY RequestInStep DEF CheckPosting, CheckAccountUse, At, OpsAt
    <2>2. Goto(s, "write") /\ UNCHANGED <<database, locks>>
      BY <1>2 DEF CheckPosting, CheckAccountUse
    <2>3. ses' \in [Sessions -> Session] /\ \A x \in Sessions : InStep(ses'[x])
      BY <2>1, <2>2, GotoTypes
    <2> QED BY <2>2, <2>3 DEF TypeInv, TypeOK, database, locks
  <1> QED BY <1>1, <1>2

LEMMA LockAccountTypes ==
  ASSUME TypeInv, NEW s \in Sessions, LockAccount(s)
  PROVE  TypeInv'
  <1>1. PICK a \in Accounts :
          IF accounts[a].kind = "ABSENT"
          THEN Reject(s)
          ELSE /\ accLock' = [accLock EXCEPT ![a] = s]
               /\ ses' = [ses EXCEPT ![s].seen[a] =
                            IF @.kind = "ABSENT" THEN accounts[a] ELSE @]
               /\ UNCHANGED <<database, txLock>>
    BY DEF LockAccount
  <1>2. CASE accounts[a].kind = "ABSENT"
    BY <1>1, <1>2, RejectTypes
  <1>3. CASE accounts[a].kind # "ABSENT"
    <2> DEFINE row == IF ses[s].seen[a].kind = "ABSENT" THEN accounts[a] ELSE ses[s].seen[a]
               f == [ses[s].seen EXCEPT ![a] = row]
               v == WithSeen(ses[s], f)
    <2>1. ses[s] \in Session /\ ses[s].seen \in [Accounts -> AccountRow] /\ InStep(ses[s])
      BY SessionFields DEF TypeInv, TypeOK
    <2>2. row \in AccountRow
      BY <2>1 DEF TypeInv, TypeOK
    <2>3. f \in [Accounts -> AccountRow]
      BY <2>1, <2>2
    <2>4. v \in Session /\ v.pc = ses[s].pc /\ v.req = ses[s].req /\ v.old = ses[s].old
      BY <2>1, <2>3, SetSeen
    <2>5. InStep(v)
      BY <2>1, <2>4 DEF InStep
    <2>6. ses' = [ses EXCEPT ![s] = v]
      BY <1>1, <1>3 DEF WithSeen, TypeInv, TypeOK
    <2>7. ses' \in [Sessions -> Session] /\ \A x \in Sessions : InStep(ses'[x])
      BY <2>4, <2>5, <2>6, MoveTypes
    <2> QED BY <1>1, <1>3, <2>7 DEF TypeInv, TypeOK, database
  <1> QED BY <1>2, <1>3

(***************************************************************************)
(* The commits.                                                            *)
(***************************************************************************)
LEMMA NewRowType ==
  ASSUME NEW type \in TransactionTypes, NEW amount \in Amounts, NEW n \in Notes,
         NEW m \in Members, NEW adj \in {"NORMAL", "REFUND"}, NEW o \in TxIds \union {NoTx}
  PROVE  NewRow(type, amount, n, m, adj, o) \in Row
  BY DEF NewRow, Row

LEMMA InsertTypes ==
  ASSUME TypeInv, NEW row \in Row, NEW es \in SUBSET Entry, RoleUnique(es), Insert(row, es)
  PROVE  /\ txs' \in [TxIds -> Row] /\ entries' \in [TxIds -> SUBSET Entry]
         /\ UNCHANGED accounts
         /\ \A t \in TxIds : RoleUnique(entries'[t])
  BY DEF TypeInv, TypeOK, Insert, RoleUnique

\* What the commits of an update write.
LEMMA EditedType ==
  ASSUME NEW r \in Row, NEW p \in Posting, NEW m \in Members
  PROVE  /\ [r EXCEPT !.type = p.type, !.amount = p.amount, !.note = p.note, !.by = m] \in Row
         /\ [r EXCEPT !.note = p.note, !.by = m] \in Row
  <1>1. p.type \in TransactionTypes /\ p.amount \in Amounts /\ p.note \in Notes
    BY DEF Posting
  <1> QED BY <1>1 DEF Row

LEMMA SaveRowTypes ==
  ASSUME TypeInv, NEW s \in Sessions, NEW new \in Row, SaveRow(s, new)
  PROVE  txs' \in [TxIds -> Row]
  <1>1. Saved(ses[s].row, new) \in Row
    BY SavedType, SessionFields DEF TypeInv, TypeOK
  <1> QED BY <1>1 DEF SaveRow, TypeInv, TypeOK

LEMMA CommitTypes ==
  ASSUME TypeInv, NEW s \in Sessions, Commit(s)
  PROVE  TypeInv'
  <1> DEFINE q == ses[s].req
  <1>1. Release(s)
    BY DEF Commit, CommitCreate, CommitRefund, CommitUpdate, CommitTouch, CommitDelete,
           CommitAccount
  <1>2. /\ ses[s] \in Session /\ ses[s].row \in Row
        /\ ses[s].old \in SUBSET Entry /\ ses[s].seen \in [Accounts -> AccountRow]
    BY SessionFields DEF TypeInv, TypeOK
  <1>3. CASE CommitCreate(s)
    <2> DEFINE p == q.posting
    <2>1. p \in Posting /\ q.actor \in Members
      BY <1>3, RequestInStep DEF CommitCreate
    <2>2. p.type \in TransactionTypes /\ p.amount \in Amounts /\ p.note \in Notes
      BY <2>1 DEF Posting
    <2>3. NewRow(p.type, p.amount, p.note, q.actor, "NORMAL", NoTx) \in Row
      BY <2>1, <2>2, NewRowType
    <2>4. /\ PostingEntries(p, ses[s].seen) \in SUBSET Entry
          /\ RoleUnique(PostingEntries(p, ses[s].seen))
      BY <2>1, PostingEntriesType
    <2>5. Insert(NewRow(p.type, p.amount, p.note, q.actor, "NORMAL", NoTx),
                 PostingEntries(p, ses[s].seen))
      BY <1>3 DEF CommitCreate
    <2>6. /\ txs' \in [TxIds -> Row] /\ entries' \in [TxIds -> SUBSET Entry]
          /\ UNCHANGED accounts
         /\ \A t \in TxIds : RoleUnique(entries'[t])
      BY <2>3, <2>4, <2>5, InsertTypes
    <2> QED BY <1>1, <2>6, ReleaseTypes DEF TypeInv, TypeOK, RoleUnique
  <1>4. CASE CommitRefund(s)
    <2> DEFINE e == CHOOSE e \in ses[s].old : TRUE
               es == {PrimaryEntry(e.account, IF e.delta > 0 THEN -q.amount ELSE q.amount)}
               row == NewRow("EXPENSE", q.amount, q.note, q.actor, "REFUND", q.tx)
    <2>1. /\ q.tx \in TxIds /\ q.amount \in Amounts /\ q.note \in Notes /\ q.actor \in Members
          /\ ses[s].old # {}
      BY <1>4, RequestInStep DEF CommitRefund, Op, Tx, At
    <2>2. row \in Row
      BY <2>1, NewRowType DEF TransactionTypes
    <2>3. e \in ses[s].old
      BY <2>1
    <2>4. e.account \in Accounts
      BY <1>2, <2>3 DEF Entry
    <2>5. q.amount \in -MaxAmount..MaxAmount /\ -q.amount \in -MaxAmount..MaxAmount
      BY <2>1, MaxAmountAssumption DEF Amounts
    <2>6. es \in SUBSET Entry /\ RoleUnique(es)
      BY <2>4, <2>5 DEF PrimaryEntry, Entry, RoleUnique
    <2>7. Insert(row, es)
      BY <1>4 DEF CommitRefund
    <2>8. /\ txs' \in [TxIds -> Row] /\ entries' \in [TxIds -> SUBSET Entry]
          /\ UNCHANGED accounts
          /\ \A t \in TxIds : RoleUnique(entries'[t])
      BY <2>2, <2>6, <2>7, InsertTypes
    <2> QED BY <1>1, <2>8, ReleaseTypes DEF TypeInv, TypeOK, RoleUnique
  <1>5. CASE CommitUpdate(s)
    <2> DEFINE p == q.posting
               new == [ses[s].row EXCEPT !.type = p.type, !.amount = p.amount,
                                         !.note = p.note, !.by = q.actor]
    <2>1. p \in Posting /\ q.actor \in Members
      BY <1>5, RequestInStep DEF CommitUpdate
    <2>2. new \in Row
      BY <1>2, <2>1, EditedType
    <2>3. txs' \in [TxIds -> Row]
      BY <1>5, <2>2, SaveRowTypes DEF CommitUpdate
    <2>4. /\ PostingEntries(p, ses[s].seen) \in SUBSET Entry
          /\ RoleUnique(PostingEntries(p, ses[s].seen))
      BY <2>1, PostingEntriesType
    <2>5. entries' = [entries EXCEPT ![Tx(s)] = PostingEntries(p, ses[s].seen)] /\ UNCHANGED accounts
      BY <1>5 DEF CommitUpdate
    <2> HIDE DEF new, p
    <2> QED BY <1>1, <2>3, <2>4, <2>5, ReleaseTypes DEF TypeInv, TypeOK, RoleUnique
  <1>6. CASE CommitTouch(s)
    <2>1. q.posting \in Posting /\ q.actor \in Members
      BY <1>6, RequestInStep DEF CommitTouch
    <2>2. [ses[s].row EXCEPT !.note = q.posting.note, !.by = q.actor] \in Row
      BY <1>2, <2>1, EditedType
    <2>3. txs' \in [TxIds -> Row]
      BY <1>6, <2>2, SaveRowTypes DEF CommitTouch
    <2> QED BY <1>1, <1>6, <2>3, ReleaseTypes DEF CommitTouch, TypeInv, TypeOK
  <1>7. CASE CommitDelete(s)
    <2>1. q.actor \in Members
      BY <1>7, RequestInStep DEF CommitDelete
    <2>2. [ses[s].row EXCEPT !.status = "DELETED", !.by = q.actor] \in Row
      BY <1>2, <2>1 DEF Row
    <2>3. txs' \in [TxIds -> Row]
      BY <1>7, <2>2, SaveRowTypes DEF CommitDelete
    <2> QED BY <1>1, <1>7, <2>3, ReleaseTypes DEF CommitDelete, TypeInv, TypeOK
  <1>8. CASE CommitAccount(s)
    <2>1. [kind |-> q.kind, archived |-> q.archived] \in AccountRow
      BY <1>8, RequestInStep DEF CommitAccount, AccountRow
    <2> QED BY <1>1, <1>8, <2>1, ReleaseTypes DEF CommitAccount, TypeInv, TypeOK
  <1> QED BY <1>3, <1>4, <1>5, <1>6, <1>7, <1>8 DEF Commit

LEMMA OpenTypes ==
  ASSUME TypeInv, NEW a \in Accounts, OpenAccount(a)
  PROVE  TypeInv'
  <1>1. [kind |-> InitialKind[a], archived |-> FALSE] \in AccountRow
    BY InitialKindAssumption DEF AccountRow
  <1> QED BY <1>1 DEF OpenAccount, TypeInv, TypeOK, locks

LEMMA TypeInvInit == Init => TypeInv
  <1>1. InStep(Idle)
    BY DEF InStep, Idle, OpsAt
  <1> QED BY <1>1, AbsentRowType, IdleType DEF Init, TypeInv, TypeOK

LEMMA TypeInvStep ==
  ASSUME TypeInv, [Next]_vars
  PROVE  TypeInv'
  <1>1. ASSUME NEW s \in Sessions, Begin(s) PROVE TypeInv'
    BY <1>1, BeginTypes
  <1>2. ASSUME NEW s \in Sessions, Lock(s) PROVE TypeInv'
    BY <1>2, ReadTypes, LockOriginalTypes, LockAccountTypes DEF Lock
  <1>3. ASSUME NEW s \in Sessions, Work(s) PROVE TypeInv'
    BY <1>3, ReadTypes, ReadEntriesTypes, ReadRefundsTypes, CheckTypes, CommitTypes, RejectTypes
       DEF Work, Respond
  <1>4. ASSUME NEW s \in Sessions, Rollback(s) PROVE TypeInv'
    BY <1>4, RejectTypes DEF Rollback
  <1>5. CASE UNCHANGED vars
    BY <1>5 DEF vars, TypeInv, TypeOK
  <1> QED BY <1>1, <1>2, <1>3, <1>4, <1>5, OpenTypes DEF Next

\* Every reachable state is well typed: in particular an update replaces the
\* entry set of its transaction, so no role ever has two entries, and a refund
\* always has an entry of its original to reverse.
THEOREM TypeCorrect == Spec => []TypeOK
  <1>1. Init => TypeInv
    BY TypeInvInit
  <1>2. TypeInv /\ [Next]_vars => TypeInv'
    BY TypeInvStep
  <1>3. TypeInv => TypeOK
    BY DEF TypeInv
  <1> QED BY <1>1, <1>2, <1>3, PTL DEF Spec

(***************************************************************************)
(* The refund rules: whatever requests run at once, active refunds never   *)
(* exceed their original, never lose it, and freeze its meaning.           *)
(*                                                                         *)
(* None of the three is inductive alone. A handler decides from what it    *)
(* read several statements before it commits, and the invariant says what  *)
(* keeps that decision true: the lock it holds on the transaction row.     *)
(***************************************************************************)
\* From its locking read to its commit a request knows the row as it is.
HoldsRow(s) ==
  Op(s) \in {"refund", "update", "delete"} /\ ~At(s, "lockTransaction") =>
    /\ txLock[Tx(s)] = s
    /\ ses[s].row = txs[Tx(s)]
    /\ txs[Tx(s)].status = "ACTIVE"

Unrefunded(t) == ActiveRefunds(txs, t) = {}

\* What createRefund, update and delete have found by each of their steps.
RefundDecided(s) ==
  Op(s) = "refund" =>
    /\ ses[s].pc \in {"readRefunds", "write"} =>
         /\ Refundable(ses[s].row)
         /\ ses[s].old = entries[Tx(s)]
         /\ \E e \in ses[s].old : ses[s].old = {e}
    /\ At(s, "write") =>
         ses[s].req.amount + RefundedAmount(txs, Tx(s)) <= ses[s].row.amount

UpdateDecided(s) ==
  Op(s) = "update" =>
    /\ ses[s].pc \in {"readRefunds", "lockAccounts", "write"} => ses[s].row.adj = "NORMAL"
    /\ ses[s].pc \in {"lockAccounts", "write"} /\ ses[s].refunded = 0 => Unrefunded(Tx(s))

DeleteDecided(s) ==
  Op(s) = "delete" =>
    /\ At(s, "lockOriginal") => ses[s].row.adj = "REFUND"
    /\ At(s, "write") => ses[s].row.adj = "REFUND" \/ Unrefunded(Tx(s))

Decided(s) == RefundDecided(s) /\ UpdateDecided(s) /\ DeleteDecided(s)

RefundInv ==
  /\ RefundCap
  /\ RefundLineage
  /\ \A s \in Sessions : HoldsRow(s) /\ Decided(s)

(***************************************************************************)
(* Counting refunds.                                                       *)
(***************************************************************************)
\* Fewer refunds of unchanged amounts refund no more.
LEMMA RefundedMono ==
  ASSUME NEW T \in [TxIds -> Row], NEW U \in [TxIds -> Row], NEW o,
         ActiveRefunds(U, o) \subseteq ActiveRefunds(T, o),
         \A r \in ActiveRefunds(U, o) : U[r].amount = T[r].amount
  PROVE  RefundedAmount(U, o) <= RefundedAmount(T, o)
  <1>1. Won(U, ActiveRefunds(U, o)) \subseteq Won(T, ActiveRefunds(T, o))
    BY DEF Won
  <1>2. IsFiniteSet(Won(T, ActiveRefunds(T, o)))
    BY RefundedType
  <1> QED BY <1>1, <1>2, FS_Subset DEF RefundedAmount

LEMMA RefundedSame ==
  ASSUME NEW T \in [TxIds -> Row], NEW U \in [TxIds -> Row], NEW o,
         ActiveRefunds(U, o) = ActiveRefunds(T, o),
         \A r \in ActiveRefunds(U, o) : U[r].amount = T[r].amount
  PROVE  RefundedAmount(U, o) = RefundedAmount(T, o)
  <1>1. Won(U, ActiveRefunds(U, o)) = Won(T, ActiveRefunds(T, o))
    BY DEF Won
  <1> QED BY <1>1 DEF RefundedAmount

\* One refund more adds its amount.
LEMMA RefundedAdd ==
  ASSUME NEW T \in [TxIds -> Row], NEW U \in [TxIds -> Row], NEW o, NEW id \in TxIds,
         id \notin ActiveRefunds(T, o),
         ActiveRefunds(U, o) = ActiveRefunds(T, o) \union {id},
         \A r \in ActiveRefunds(T, o) : U[r].amount = T[r].amount
  PROVE  RefundedAmount(U, o) = RefundedAmount(T, o) + U[id].amount
  <1> DEFINE A == Won(T, ActiveRefunds(T, o))
             n == U[id].amount
             B == {id} \X (1..n)
  <1>1. n \in Nat /\ n <= MaxAmount /\ MaxAmount \in Nat
    BY MaxAmountAssumption DEF Row, Amounts
  <1>2. Won(U, {id}) = B
    BY <1>1 DEF Won, Amounts
  <1>3. Won(U, ActiveRefunds(U, o)) = A \union B
    BY <1>2 DEF Won
  <1>4. A \cap B = {}
    BY DEF Won
  <1>5. IsFiniteSet(A)
    BY RefundedType
  <1>6. IsFiniteSet(1..n) /\ Cardinality(1..n) = n
    <2> HIDE DEF n
    <2>1. n \in Int /\ 1 \in Int /\ n \in Nat
      BY <1>1
    <2>2. IsFiniteSet(1..n) /\ Cardinality(1..n) = IF 1 > n THEN 0 ELSE n - 1 + 1
      BY <2>1, FS_Interval
    <2> QED BY <2>1, <2>2
  <1>7. IsFiniteSet({id}) /\ Cardinality({id}) = 1
    BY FS_Singleton
  <1>8. IsFiniteSet(B) /\ Cardinality(B) = Cardinality({id}) * Cardinality(1..n)
    <2> HIDE DEF n
    <2> QED BY <1>6, <1>7, FS_Product
  <1>9. Cardinality(A \union B) = Cardinality(A) + Cardinality(B) - Cardinality(A \cap B)
    <2> HIDE DEF A, B
    <2> QED BY <1>5, <1>8, FS_Union
  <1>10. Cardinality(A \cap B) = 0 /\ Cardinality(A) \in Nat
    <2> HIDE DEF A, B
    <2> QED BY <1>4, <1>5, FS_EmptySet, FS_CardinalityType
  <1>11. Cardinality(A \union B) = Cardinality(A) + n
    <2> HIDE DEF A, B, n
    <2>1. Cardinality(B) = 1 * n
      BY <1>6, <1>7, <1>8
    <2> QED BY <1>1, <1>9, <1>10, <2>1
  <1> QED BY <1>3, <1>11 DEF RefundedAmount

\* Nothing is refunded exactly when there is no refund.
LEMMA RefundedZero ==
  ASSUME NEW T \in [TxIds -> Row], NEW o
  PROVE  RefundedAmount(T, o) = 0 <=> ActiveRefunds(T, o) = {}
  <1>1. ASSUME NEW r \in ActiveRefunds(T, o)
        PROVE  <<r, 1>> \in Won(T, ActiveRefunds(T, o))
    <2>1. T[r].amount \in Amounts
      BY DEF ActiveRefunds, Row
    <2> QED BY <2>1, MaxAmountAssumption DEF Won, Amounts
  <1>2. ActiveRefunds(T, o) = {} => Won(T, ActiveRefunds(T, o)) = {}
    BY DEF Won
  <1>3. Cardinality(Won(T, ActiveRefunds(T, o))) = 0 <=> Won(T, ActiveRefunds(T, o)) = {}
    BY RefundedType, FS_EmptySet
  <1> QED BY <1>1, <1>2, <1>3 DEF RefundedAmount

(***************************************************************************)
(* What a step leaves to the other sessions.                               *)
(***************************************************************************)
\* A row its holder alone writes keeps the holder's decisions true, as long
\* as nobody else adds a refund to it.
LEMMA OthersKeep ==
  ASSUME TypeInv, TypeInv', NEW x \in Sessions, HoldsRow(x), Decided(x),
         ses'[x] = ses[x],
         \A t \in TxIds : txLock[t] = x /\ txs[t].status = "ACTIVE" =>
           /\ txLock'[t] = x /\ txs'[t] = txs[t] /\ entries'[t] = entries[t]
           /\ ActiveRefunds(txs', t) \subseteq ActiveRefunds(txs, t)
           /\ \A r \in ActiveRefunds(txs', t) : txs'[r].amount = txs[r].amount
  PROVE  HoldsRow(x)' /\ Decided(x)'
  <1>1. /\ Op(x) \in OpsAt(ses[x].pc)
        /\ Op(x) \in {"refund", "update", "delete"} => Tx(x) \in TxIds
        /\ Op(x)' = Op(x) /\ Tx(x)' = Tx(x) /\ ses[x] \in Session
        /\ \A pc : At(x, pc)' = At(x, pc)
    BY RequestInStep DEF Op, Tx, At
  <1>2. HoldsRow(x)'
    BY <1>1 DEF HoldsRow
  <1>3. CASE Op(x) \in {"refund", "update", "delete"} /\ ~At(x, "lockTransaction")
    <2> DEFINE t == Tx(x)
    <2>1. /\ t \in TxIds /\ txLock[t] = x /\ entries'[t] = entries[t]
          /\ ActiveRefunds(txs', t) \subseteq ActiveRefunds(txs, t)
          /\ \A r \in ActiveRefunds(txs', t) : txs'[r].amount = txs[r].amount
      BY <1>1, <1>3 DEF HoldsRow
    <2>2. RefundedAmount(txs', t) <= RefundedAmount(txs, t)
      BY <2>1, RefundedMono DEF TypeInv, TypeOK
    <2>3. RefundedAmount(txs', t) \in Nat /\ RefundedAmount(txs, t) \in Nat
      BY RefundedType DEF TypeInv, TypeOK
    <2>4. Op(x) = "refund" => ses[x].req.amount \in Nat /\ ses[x].row.amount \in Nat
      BY RequestInStep, SessionFields, <1>1, MaxAmountAssumption DEF Row, Amounts
    <2>5. RefundDecided(x)'
      BY <1>1, <2>1, <2>2, <2>3, <2>4 DEF Decided, RefundDecided
    <2>6. UpdateDecided(x)' /\ DeleteDecided(x)'
      BY <1>1, <2>1 DEF Decided, UpdateDecided, DeleteDecided, Unrefunded
    <2> QED BY <1>2, <2>5, <2>6 DEF Decided
  <1>4. CASE ~(Op(x) \in {"refund", "update", "delete"} /\ ~At(x, "lockTransaction"))
    BY <1>1, <1>2, <1>4 DEF Decided, RefundDecided, UpdateDecided, DeleteDecided, At
  <1> QED BY <1>3, <1>4

\* A session that ends knows nothing any more.
LEMMA EndKeeps ==
  ASSUME NEW s \in Sessions, ses'[s] = Idle
  PROVE  HoldsRow(s)' /\ Decided(s)'
  BY DEF Idle, HoldsRow, Decided, RefundDecided, UpdateDecided, DeleteDecided, Op

\* A step that writes no table.
LEMMA QuietStep ==
  ASSUME TypeInv, TypeInv', RefundInv, NEW s \in Sessions, UNCHANGED <<txs, entries>>,
         \A x \in Sessions \ {s} : ses'[x] = ses[x],
         \A t \in TxIds : txLock[t] \in Sessions \ {s} => txLock'[t] = txLock[t],
         HoldsRow(s)' /\ Decided(s)'
  PROVE  RefundInv'
  <1>1. RefundCap' /\ RefundLineage'
    BY DEF RefundInv, RefundCap, RefundLineage
  <1>2. ASSUME NEW x \in Sessions \ {s} PROVE HoldsRow(x)' /\ Decided(x)'
    <2>1. HoldsRow(x) /\ Decided(x)
      BY DEF RefundInv
    <2> QED BY <2>1, OthersKeep
  <1> QED BY <1>1, <1>2 DEF RefundInv

(***************************************************************************)
(* Steps that write neither transactions nor entries.                      *)
(***************************************************************************)
\* Releasing frees the locks of the session and of no other.
LEMMA ReleaseFrees ==
  ASSUME TypeInv, NEW s \in Sessions, Release(s)
  PROVE  /\ ses'[s] = Idle
         /\ \A x \in Sessions \ {s} : ses'[x] = ses[x]
         /\ \A t \in TxIds : txLock[t] \in Sessions \ {s} => txLock'[t] = txLock[t]
  BY DEF Release, TypeInv, TypeOK

LEMMA RejectKeeps ==
  ASSUME TypeInv, TypeInv', RefundInv, NEW s \in Sessions, Release(s), UNCHANGED <<txs, entries>>
  PROVE  RefundInv'
  BY ReleaseFrees, EndKeeps, QuietStep

\* Before its locking read a request has decided nothing.
LEMMA BeginKeeps ==
  ASSUME TypeInv, TypeInv', RefundInv, NEW s \in Sessions, Begin(s)
  PROVE  RefundInv'
  <1>1. ASSUME NEW q, NEW pc, Arrive(s, q, pc),
               q.op \in {"refund", "update", "delete"} => pc = "lockTransaction"
        PROVE  RefundInv'
    <2> DEFINE v == WithRequest(ses[s], pc, q)
    <2>1. ses' = [ses EXCEPT ![s] = v] /\ UNCHANGED <<txs, entries, txLock>>
      BY <1>1 DEF Arrive, WithRequest, database, locks
    <2>2. ses' \in [Sessions -> Session] /\ ses \in [Sessions -> Session]
      BY DEF TypeInv, TypeOK
    <2>3. v.pc = pc /\ v.req = q
      BY <2>2 DEF WithRequest, Session
    <2>4. Op(s)' = q.op /\ ses'[s].pc = pc
      BY <2>1, <2>2, <2>3 DEF Op
    <2>5. HoldsRow(s)' /\ Decided(s)'
      BY <1>1, <2>4 DEF HoldsRow, Decided, RefundDecided, UpdateDecided, DeleteDecided, At
    <2>6. \A x \in Sessions \ {s} : ses'[x] = ses[x]
      BY <2>1, <2>2
    <2> QED BY <2>1, <2>5, <2>6, QuietStep
  <1>2. CASE BeginCreate(s)
    BY <1>1, <1>2 DEF BeginCreate
  <1>3. CASE BeginRefund(s)
    BY <1>1, <1>3 DEF BeginRefund
  <1>4. CASE BeginUpdate(s)
    BY <1>1, <1>4 DEF BeginUpdate
  <1>5. CASE BeginDelete(s)
    BY <1>1, <1>5 DEF BeginDelete
  <1>6. CASE BeginSummary(s)
    BY <1>1, <1>6 DEF BeginSummary
  <1>7. CASE BeginAccount(s)
    BY <1>1, <1>7 DEF BeginAccount
  <1> QED BY <1>2, <1>3, <1>4, <1>5, <1>6, <1>7 DEF Begin

\* A session moves on while every lock of the others stays.
LEMMA MoveKeeps ==
  ASSUME TypeInv, TypeInv', RefundInv, NEW s \in Sessions, NEW v,
         ses' = [ses EXCEPT ![s] = v], UNCHANGED <<txs, entries>>,
         \A t \in TxIds : txLock[t] \in Sessions \ {s} => txLock'[t] = txLock[t],
         HoldsRow(s)' /\ Decided(s)'
  PROVE  RefundInv'
  <1>1. \A x \in Sessions \ {s} : ses'[x] = ses[x]
    BY DEF TypeInv, TypeOK
  <1> QED BY <1>1, QuietStep

\* The locking read learns the row as last committed.
LEMMA LockTransactionKeeps ==
  ASSUME TypeInv, TypeInv', RefundInv, NEW s \in Sessions,
         ReadTransaction(s) \/ LockTransaction(s)
  PROVE  RefundInv'
  <1>1. CASE Reject(s)
    BY <1>1, RejectKeeps DEF Reject, database
  <1>2. CASE ~Reject(s)
    <2> DEFINE v == WithRow(ses[s], "readEntries", txs[Tx(s)])
    <2>1. /\ ses[s] \in Session /\ Tx(s) \in TxIds
          /\ ReadTransaction(s) => Op(s) = "summary"
      BY RequestInStep DEF ReadTransaction, LockTransaction, At, OpsAt
    <2>2. txs[Tx(s)] \in Row /\ "readEntries" \in Pc
      BY <2>1 DEF TypeInv, TypeOK, Pc
    <2>3. v.pc = "readEntries" /\ v.req = ses[s].req /\ v.row = txs[Tx(s)]
      BY <2>1, <2>2, SetRow
    <2>4. ses' = [ses EXCEPT ![s] = v]
      BY <1>2 DEF ReadTransaction, LockTransaction, WithRow, TypeInv, TypeOK
    <2>5. /\ UNCHANGED <<txs, entries>>
          /\ \A t \in TxIds : txLock[t] \in Sessions \ {s} => txLock'[t] = txLock[t]
      BY <1>2, <2>1, SessionAssumption
         DEF ReadTransaction, LockTransaction, database, locks, TypeInv, TypeOK
    <2>6. /\ ses'[s] = v /\ Op(s)' = Op(s) /\ Tx(s)' = Tx(s) /\ ses'[s].pc = "readEntries"
          /\ ses'[s].row = txs[Tx(s)]
      BY <2>3, <2>4 DEF Op, Tx, TypeInv, TypeOK
    <2>7. HoldsRow(s)'
      <3>1. CASE ReadTransaction(s)
        BY <2>1, <2>6, <3>1 DEF HoldsRow
      <3>2. CASE LockTransaction(s)
        BY <1>2, <2>1, <2>5, <2>6, <3>2 DEF HoldsRow, LockTransaction, TypeInv, TypeOK
      <3> QED BY <3>1, <3>2
    <2>8. Decided(s)'
      BY <2>6 DEF Decided, RefundDecided, UpdateDecided, DeleteDecided, At
    <2> QED BY <2>4, <2>5, <2>7, <2>8, MoveKeeps
  <1> QED BY <1>1, <1>2

LEMMA SingleEntry ==
  ASSUME NEW r, NEW es, NEW acc, ValidEntries(r, es, acc), r.type = "EXPENSE"
  PROVE  \E e \in es : es = {e}
  BY DEF ValidEntries, ValidPrimary

\* Reading the entries settles whether the row may be refunded or edited.
LEMMA ReadEntriesKeeps ==
  ASSUME TypeInv, TypeInv', RefundInv, NEW s \in Sessions, ReadEntries(s)
  PROVE  RefundInv'
  <1>1. CASE Reject(s)
    BY <1>1, RejectKeeps DEF Reject, database
  <1>2. CASE ~Reject(s)
    <2> DEFINE pc == AfterEntries(s)
               v == WithEntries(ses[s], pc, entries[Tx(s)], Loaded(s))
    <2>1. /\ ses[s] \in Session /\ Op(s) \in OpsAt("readEntries") /\ Tx(s) \in TxIds
          /\ ses[s].pc = "readEntries"
      BY RequestInStep DEF ReadEntries, At, OpsAt
    <2>2. entries[Tx(s)] \in SUBSET Entry /\ Loaded(s) \in [Accounts -> AccountRow]
      BY <2>1, AbsentRowType DEF TypeInv, TypeOK, Loaded
    <2>3. pc \in Pc /\ ValidEntries(ses[s].row, entries[Tx(s)], accounts) /\ pc # "idle"
      BY <1>2, <2>1 DEF ReadEntries, AfterEntries, OpsAt, Pc
    <2>4. v.pc = pc /\ v.req = ses[s].req /\ v.row = ses[s].row /\ v.old = entries[Tx(s)]
      BY <2>1, <2>2, <2>3, SetEntries
    <2>5. ses' = [ses EXCEPT ![s] = v] /\ UNCHANGED <<txs, entries, txLock>>
      BY <1>2 DEF ReadEntries, WithEntries, TypeInv, TypeOK, database, locks
    <2>6. /\ Op(s)' = Op(s) /\ Tx(s)' = Tx(s) /\ ses'[s].pc = pc
          /\ ses'[s].row = ses[s].row /\ ses'[s].old = entries[Tx(s)]
      BY <2>4, <2>5 DEF Op, Tx, TypeInv, TypeOK
    <2>7. HoldsRow(s)'
      BY <2>1, <2>5, <2>6 DEF RefundInv, HoldsRow, At
    <2>8. Op(s) = "refund" => Refundable(ses[s].row) /\ pc = "readRefunds"
      BY <2>3 DEF AfterEntries
    <2>9. RefundDecided(s)'
      BY <2>3, <2>5, <2>6, <2>8, SingleEntry DEF RefundDecided, At, Refundable
    <2>10. ses[s].row.adj \in {"NORMAL", "REFUND"}
      BY <2>1, SessionFields DEF Row
    <2>11. UpdateDecided(s)' /\ DeleteDecided(s)'
      BY <2>3, <2>6, <2>10 DEF UpdateDecided, DeleteDecided, At, AfterEntries
    <2> QED BY <2>5, <2>7, <2>9, <2>11, MoveKeeps DEF Decided
  <1> QED BY <1>1, <1>2

\* The sum is read under the lock that every other refund of the row needs.
LEMMA ReadRefundsKeeps ==
  ASSUME TypeInv, TypeInv', RefundInv, NEW s \in Sessions, ReadRefunds(s)
  PROVE  RefundInv'
  <1>1. CASE Reject(s)
    BY <1>1, RejectKeeps DEF Reject, database
  <1>2. CASE ~Reject(s)
    <2> DEFINE t == Tx(s)
               n == RefundedAmount(txs, t)
               pc == AfterRefunds(s, n)
               v == WithRefunded(ses[s], pc, n)
    <2>1. /\ ses[s] \in Session /\ Op(s) \in OpsAt("readRefunds") /\ ses[s].pc = "readRefunds"
          /\ Op(s) = "refund" => ses[s].req.amount \in Nat
      BY RequestInStep, MaxAmountAssumption DEF ReadRefunds, At, Amounts
    <2>2. n \in Nat /\ (n = 0 <=> Unrefunded(t)) /\ ses[s].row.amount \in Nat
      BY <2>1, RefundedType, RefundedZero, SessionFields, MaxAmountAssumption
         DEF TypeInv, TypeOK, Unrefunded, Row, Amounts
    <2>3. pc \in Pc /\ pc # "idle"
      BY <1>2, <2>1 DEF ReadRefunds, AfterRefunds, OpsAt, Pc
    <2>4. /\ v.pc = pc /\ v.req = ses[s].req /\ v.row = ses[s].row /\ v.old = ses[s].old
          /\ v.refunded = n
      BY <2>1, <2>2, <2>3, SetRefunded
    <2>5. ses' = [ses EXCEPT ![s] = v] /\ UNCHANGED <<txs, entries, txLock>>
      BY <1>2 DEF ReadRefunds, WithRefunded, TypeInv, TypeOK, database, locks
    <2>6. /\ Op(s)' = Op(s) /\ Tx(s)' = t /\ ses'[s].pc = pc /\ ses'[s].row = ses[s].row
          /\ ses'[s].old = ses[s].old /\ ses'[s].refunded = n /\ ses'[s].req = ses[s].req
      BY <2>4, <2>5 DEF Op, Tx, TypeInv, TypeOK
    <2>7. HoldsRow(s)'
      BY <2>1, <2>5, <2>6 DEF RefundInv, HoldsRow, At
    <2>8. Decided(s)
      BY DEF RefundInv
    <2> HIDE DEF n, v
    <2>9. RefundDecided(s)'
      <3>1. Op(s) = "refund" /\ pc = "write" => ses[s].req.amount <= ses[s].row.amount - n
        BY <2>3 DEF AfterRefunds
      <3>2. RefundedAmount(txs, t)' = n
        BY <2>5, <2>6 DEF n
      <3> QED BY <2>1, <2>2, <2>5, <2>6, <2>8, <3>1, <3>2 DEF Decided, RefundDecided, At
    <2>10. UpdateDecided(s)'
      BY <2>1, <2>2, <2>5, <2>6, <2>8 DEF Decided, UpdateDecided, At, Unrefunded
    <2>11. DeleteDecided(s)'
      <3>1. Op(s) = "delete" => pc = "write" /\ n = 0
        BY <2>3 DEF AfterRefunds
      <3> QED BY <2>2, <2>5, <2>6, <3>1 DEF DeleteDecided, At, Unrefunded
    <2> QED BY <2>5, <2>7, <2>9, <2>10, <2>11, MoveKeeps DEF Decided
  <1> QED BY <1>1, <1>2

\* Taking the original's row as well disturbs nobody: it was free.
LEMMA LockOriginalKeeps ==
  ASSUME TypeInv, TypeInv', RefundInv, NEW s \in Sessions, LockOriginal(s)
  PROVE  RefundInv'
  <1> DEFINE v == WithPc(ses[s], "write")
             o == ses[s].row.reverses
  <1>1. ses[s] \in Session /\ Op(s) = "delete" /\ Tx(s) \in TxIds /\ At(s, "lockOriginal")
    BY RequestInStep DEF LockOriginal, At, OpsAt
  <1>2. ses[s].row.adj = "REFUND" /\ HoldsRow(s)
    BY <1>1 DEF RefundInv, Decided, DeleteDecided
  <1>3. v.pc = "write" /\ v.req = ses[s].req /\ v.row = ses[s].row
    BY <1>1, SetPc DEF Pc
  <1>4. ses' = [ses EXCEPT ![s] = v] /\ UNCHANGED <<txs, entries>>
    BY DEF LockOriginal, Goto, WithPc, TypeInv, TypeOK, database
  <1>5. /\ txLock[o] = NoSession
        /\ txLock' = [txLock EXCEPT ![o] = s]
    BY DEF LockOriginal
  <1>6. /\ Op(s)' = Op(s) /\ Tx(s)' = Tx(s) /\ ses'[s].pc = "write" /\ ses'[s].row = ses[s].row
    BY <1>3, <1>4 DEF Op, Tx, TypeInv, TypeOK
  <1>7. \A t \in TxIds : txLock[t] \in Sessions \ {s} => txLock'[t] = txLock[t]
    BY <1>5, SessionAssumption DEF TypeInv, TypeOK
  <1>8. HoldsRow(s)'
    BY <1>1, <1>2, <1>4, <1>5, <1>6 DEF HoldsRow, At, TypeInv, TypeOK
  <1>9. Decided(s)'
    BY <1>1, <1>2, <1>6 DEF Decided, RefundDecided, UpdateDecided, DeleteDecided
  <1> QED BY <1>4, <1>7, <1>8, <1>9, MoveKeeps

\* Account locks and account checks leave every decision as it was.
LEMMA AccountStepKeeps ==
  ASSUME TypeInv, TypeInv', RefundInv, NEW s \in Sessions,
         LockAccount(s) \/ CheckPosting(s) \/ CheckAccountUse(s)
  PROVE  RefundInv'
  <1>1. CASE Reject(s)
    BY <1>1, RejectKeeps DEF Reject, database
  <1>2. CASE ~Reject(s)
    <2>1. /\ ses[s] \in Session /\ Op(s) \in OpsAt("lockAccounts") /\ At(s, "lockAccounts")
          /\ Op(s) = "update" => Tx(s) \in TxIds
      BY RequestInStep DEF LockAccount, CheckPosting, CheckAccountUse, At
    <2>2. PICK v \in Session :
            /\ ses' = [ses EXCEPT ![s] = v] /\ v.pc \in {"lockAccounts", "write"}
            /\ v.req = ses[s].req /\ v.row = ses[s].row /\ v.refunded = ses[s].refunded
      <3>1. CASE LockAccount(s)
        <4>1. PICK a \in Accounts :
                ses' = [ses EXCEPT ![s].seen[a] =
                          IF @.kind = "ABSENT" THEN accounts[a] ELSE @]
          BY <1>2, <3>1 DEF LockAccount
        <4> DEFINE row == IF ses[s].seen[a].kind = "ABSENT" THEN accounts[a] ELSE ses[s].seen[a]
                   f == [ses[s].seen EXCEPT ![a] = row]
        <4>2. ses[s].seen \in [Accounts -> AccountRow] /\ row \in AccountRow
          BY <2>1, SessionFields DEF TypeInv, TypeOK
        <4>3. f \in [Accounts -> AccountRow]
          BY <4>2
        <4>4. ses' = [ses EXCEPT ![s] = WithSeen(ses[s], f)]
          BY <4>1 DEF WithSeen, TypeInv, TypeOK
        <4> HIDE DEF f
        <4>5. /\ WithSeen(ses[s], f) \in Session
              /\ WithSeen(ses[s], f).pc = "lockAccounts" /\ WithSeen(ses[s], f).req = ses[s].req
              /\ WithSeen(ses[s], f).row = ses[s].row
              /\ WithSeen(ses[s], f).refunded = ses[s].refunded
          BY <2>1, <4>3, SetSeen DEF At
        <4> QED BY <4>4, <4>5
      <3>2. CASE CheckPosting(s) \/ CheckAccountUse(s)
        <4>1. ses' = [ses EXCEPT ![s] = WithPc(ses[s], "write")]
          BY <1>2, <3>2 DEF CheckPosting, CheckAccountUse, Goto, WithPc, TypeInv, TypeOK
        <4> QED BY <2>1, <4>1, SetPc DEF Pc
      <3> QED BY <3>1, <3>2
    <2>3. UNCHANGED <<txs, entries, txLock>>
      BY <1>2 DEF LockAccount, CheckPosting, CheckAccountUse, database, locks
    <2>4. /\ Op(s)' = Op(s) /\ Tx(s)' = Tx(s) /\ ses'[s].row = ses[s].row
          /\ ses'[s].refunded = ses[s].refunded
      BY <2>2 DEF Op, Tx, TypeInv, TypeOK
    <2>5. Op(s) \in {"create", "update", "account"} /\ ses[s].pc = "lockAccounts"
      BY <2>1 DEF OpsAt, At
    <2>6. HoldsRow(s)'
      BY <2>1, <2>3, <2>4, <2>5 DEF RefundInv, HoldsRow, At
    <2>7. Decided(s)'
      BY <2>3, <2>4, <2>5
         DEF RefundInv, Decided, RefundDecided, UpdateDecided, DeleteDecided, Unrefunded
    <2> QED BY <2>2, <2>3, <2>6, <2>7, MoveKeeps
  <1> QED BY <1>1, <1>2

(***************************************************************************)
(* Saving a row the session holds: a row with active refunds stays active  *)
(* and keeps type, amount and entries; a refund is only ever deleted.      *)
(***************************************************************************)
SavesHeldRow(s, new) ==
  /\ txs' = [txs EXCEPT ![Tx(s)] = new]
  /\ \A t \in TxIds \ {Tx(s)} : entries'[t] = entries[t]
  /\ new.adj = txs[Tx(s)].adj /\ new.reverses = txs[Tx(s)].reverses
  /\ \/ new.status = "ACTIVE" /\ new.adj = "NORMAL"
     \/ new.status = "DELETED"
  /\ ~Unrefunded(Tx(s)) =>
       /\ new.status = "ACTIVE" /\ new.type = txs[Tx(s)].type /\ new.amount = txs[Tx(s)].amount
       /\ entries'[Tx(s)] = entries[Tx(s)]

LEMMA SavedRefunds ==
  ASSUME TypeInv, NEW s \in Sessions, NEW new \in Row, SavesHeldRow(s, new),
         Tx(s) \in TxIds, txs[Tx(s)].status = "ACTIVE", NEW o
  PROVE  /\ ActiveRefunds(txs', o) \subseteq ActiveRefunds(txs, o)
         /\ \A r \in ActiveRefunds(txs', o) :
              r # Tx(s) /\ txs'[r] = txs[r] /\ entries'[r] = entries[r]
  BY DEF SavesHeldRow, ActiveRefunds, TypeInv, TypeOK

LEMMA SavingKeeps ==
  ASSUME TypeInv, TypeInv', RefundInv, NEW s \in Sessions, NEW new \in Row,
         Op(s) \in {"update", "delete"}, At(s, "write"), SavesHeldRow(s, new), Release(s)
  PROVE  RefundInv'
  <1> DEFINE t == Tx(s)
  <1>1. t \in TxIds /\ txLock[t] = s /\ txs[t].status = "ACTIVE"
    BY RequestInStep DEF RefundInv, HoldsRow, At
  <1>2. ASSUME NEW o
        PROVE  /\ ActiveRefunds(txs', o) \subseteq ActiveRefunds(txs, o)
               /\ \A r \in ActiveRefunds(txs', o) :
                    r # t /\ txs'[r] = txs[r] /\ entries'[r] = entries[r]
    BY <1>1, SavedRefunds
  <1>3. RefundCap'
    <2> SUFFICES ASSUME NEW o \in TxIds PROVE RefundedAmount(txs', o) <= txs'[o].amount
      BY DEF RefundCap
    <2>1. RefundedAmount(txs', o) <= RefundedAmount(txs, o)
      BY <1>2, RefundedMono DEF TypeInv, TypeOK
    <2>2. RefundedAmount(txs, o) <= txs[o].amount
      BY DEF RefundInv, RefundCap
    <2>3. /\ RefundedAmount(txs', o) \in Nat /\ RefundedAmount(txs, o) \in Nat
          /\ txs[o].amount \in Nat /\ txs'[o].amount \in Nat
      BY RefundedType, MaxAmountAssumption DEF TypeInv, TypeOK, Row, Amounts
    <2>4. CASE txs'[o].amount = txs[o].amount
      BY <2>1, <2>2, <2>3, <2>4
    <2>5. CASE txs'[o].amount # txs[o].amount
      <3>1. o = t /\ Unrefunded(t)
        BY <1>1, <2>5 DEF SavesHeldRow, TypeInv, TypeOK
      <3>2. RefundedAmount(txs, o) = 0
        BY <3>1, RefundedZero DEF TypeInv, TypeOK, Unrefunded
      <3> QED BY <2>1, <2>3, <3>2
    <2> QED BY <2>4, <2>5
  <1>4. RefundLineage'
    <2> SUFFICES ASSUME NEW r \in TxIds, txs'[r].status = "ACTIVE", txs'[r].adj = "REFUND"
                 PROVE  LET o == txs'[r].reverses
                        IN  /\ o \in TxIds /\ txs'[o].status = "ACTIVE" /\ Refundable(txs'[o])
                            /\ \E e \in entries'[o] :
                                 /\ entries'[o] = {e}
                                 /\ entries'[r] = {PrimaryEntry(e.account,
                                      IF e.delta > 0 THEN -txs'[r].amount ELSE txs'[r].amount)}
      BY DEF RefundLineage
    <2> DEFINE o == txs'[r].reverses
    <2>1. r \in ActiveRefunds(txs', o)
      BY DEF ActiveRefunds
    <2>2. txs'[r] = txs[r] /\ entries'[r] = entries[r] /\ r \in ActiveRefunds(txs, o)
      BY <1>2, <2>1
    <2>3. /\ o \in TxIds /\ txs[o].status = "ACTIVE" /\ Refundable(txs[o])
          /\ \E e \in entries[o] :
               /\ entries[o] = {e}
               /\ entries[r] = {PrimaryEntry(e.account,
                    IF e.delta > 0 THEN -txs[r].amount ELSE txs[r].amount)}
      BY <2>2 DEF RefundInv, RefundLineage
    <2>4. /\ txs'[o].status = "ACTIVE" /\ Refundable(txs'[o]) /\ entries'[o] = entries[o]
      BY <1>1, <2>2, <2>3 DEF SavesHeldRow, Unrefunded, Refundable, TypeInv, TypeOK
    <2> QED BY <2>2, <2>3, <2>4
  <1>5. HoldsRow(s)' /\ Decided(s)'
    BY ReleaseFrees, EndKeeps
  <1>6. ASSUME NEW x \in Sessions \ {s} PROVE HoldsRow(x)' /\ Decided(x)'
    <2>1. ses'[x] = ses[x] /\ HoldsRow(x) /\ Decided(x)
      BY ReleaseFrees DEF RefundInv
    <2>2. ASSUME NEW u \in TxIds, txLock[u] = x
          PROVE  /\ txLock'[u] = x /\ txs'[u] = txs[u] /\ entries'[u] = entries[u]
                 /\ ActiveRefunds(txs', u) \subseteq ActiveRefunds(txs, u)
                 /\ \A r \in ActiveRefunds(txs', u) : txs'[r].amount = txs[r].amount
      <3>1. u # t /\ txLock'[u] = x
        BY <1>1, <2>2, ReleaseFrees
      <3>2. txs'[u] = txs[u] /\ entries'[u] = entries[u]
        BY <1>1, <3>1 DEF SavesHeldRow, TypeInv, TypeOK
      <3> QED BY <1>2, <3>1, <3>2
    <2> QED BY <2>1, <2>2, OthersKeep
  <1> QED BY <1>3, <1>4, <1>5, <1>6 DEF RefundInv

\* SaveRow writes the row the session read, with the edited columns.
LEMMA SavedFields ==
  ASSUME TypeInv, NEW s \in Sessions, NEW new \in Row, SaveRow(s, new),
         ses[s].row = txs[Tx(s)], Tx(s) \in TxIds
  PROVE  \E v \in Nat :
           /\ txs' = [txs EXCEPT ![Tx(s)] = [new EXCEPT !.version = v]]
           /\ v \in {txs[Tx(s)].version, txs[Tx(s)].version + 1}
  <1>1. txs[Tx(s)] \in Row /\ txs[Tx(s)].version \in Nat
    BY DEF TypeInv, TypeOK, Row
  <1>2. CASE new = ses[s].row
    <2>1. txs' = txs /\ new = txs[Tx(s)]
      BY <1>2 DEF SaveRow, TypeInv, TypeOK
    <2>2. [new EXCEPT !.version = new.version] = new
      BY DEF Row
    <2>3. txs = [txs EXCEPT ![Tx(s)] = new]
      BY <2>1 DEF TypeInv, TypeOK
    <2>4. new.version \in Nat /\ new.version = txs[Tx(s)].version
      BY <1>1, <2>1
    <2> QED BY <2>1, <2>2, <2>3, <2>4
  <1>3. CASE new # ses[s].row
    <2> DEFINE w == txs[Tx(s)].version + 1
    <2>1. Saved(ses[s].row, new) = [new EXCEPT !.version = w]
      BY <1>3 DEF Saved
    <2>2. txs' = [txs EXCEPT ![Tx(s)] = [new EXCEPT !.version = w]]
      BY <1>3, <2>1 DEF SaveRow
    <2>3. w \in Nat /\ w \in {txs[Tx(s)].version, txs[Tx(s)].version + 1}
      BY <1>1
    <2> HIDE DEF w
    <2> QED BY <2>2, <2>3
  <1> QED BY <1>2, <1>3

LEMMA CommitSaves ==
  ASSUME TypeInv, RefundInv, NEW s \in Sessions,
         CommitUpdate(s) \/ CommitTouch(s) \/ CommitDelete(s)
  PROVE  /\ Op(s) \in {"update", "delete"} /\ At(s, "write") /\ Release(s)
         /\ Tx(s) \in TxIds /\ ses[s].row = txs[Tx(s)]
         /\ \E new \in Row : SavesHeldRow(s, new)
         /\ ~Unrefunded(Tx(s)) => CommitTouch(s)
  <1> DEFINE q == ses[s].req
             t == Tx(s)
  <1>1. Op(s) \in {"update", "delete"} /\ At(s, "write") /\ Release(s)
    BY DEF CommitUpdate, CommitTouch, CommitDelete
  <1>2. t \in TxIds /\ q.actor \in Members /\ (Op(s) = "update" => q.posting \in Posting)
    BY <1>1, RequestInStep
  <1>3. /\ ses[s].row = txs[t] /\ txs[t].status = "ACTIVE" /\ txs[t] \in Row
    BY <1>1, <1>2 DEF RefundInv, HoldsRow, At, TypeInv, TypeOK
  <1>4. CASE CommitUpdate(s)
    <2> DEFINE p == q.posting
               new == [ses[s].row EXCEPT !.type = p.type, !.amount = p.amount,
                                         !.note = p.note, !.by = q.actor]
    <2>1. new \in Row /\ SaveRow(s, new)
      BY <1>2, <1>3, <1>4, EditedType DEF CommitUpdate
    <2>2. Unrefunded(t) /\ txs[t].adj = "NORMAL"
      BY <1>3, <1>4 DEF CommitUpdate, RefundInv, Decided, UpdateDecided, At
    <2>3. new.status = "ACTIVE" /\ new.adj = txs[t].adj /\ new.reverses = txs[t].reverses
      BY <1>3 DEF Row
    <2>4. \A u \in TxIds \ {t} : entries'[u] = entries[u]
      BY <1>4 DEF CommitUpdate, TypeInv, TypeOK
    <2> HIDE DEF new
    <2>5. PICK v \in Nat : txs' = [txs EXCEPT ![t] = [new EXCEPT !.version = v]]
      BY <1>2, <1>3, <2>1, SavedFields
    <2>6. [new EXCEPT !.version = v] \in Row
      BY <2>1 DEF Row
    <2>7. SavesHeldRow(s, [new EXCEPT !.version = v])
      BY <2>1, <2>2, <2>3, <2>4, <2>5 DEF SavesHeldRow, Row
    <2> QED BY <1>1, <1>2, <1>3, <2>2, <2>6, <2>7
  <1>5. CASE CommitTouch(s)
    <2> DEFINE new == [ses[s].row EXCEPT !.note = q.posting.note, !.by = q.actor]
    <2>1. new \in Row /\ SaveRow(s, new)
      BY <1>2, <1>3, <1>5, EditedType DEF CommitTouch
    <2>2. txs[t].adj = "NORMAL" /\ UNCHANGED entries
      BY <1>3, <1>5 DEF CommitTouch, RefundInv, Decided, UpdateDecided, At
    <2>3. /\ new.status = "ACTIVE" /\ new.adj = txs[t].adj /\ new.reverses = txs[t].reverses
          /\ new.type = txs[t].type /\ new.amount = txs[t].amount
      BY <1>3 DEF Row
    <2> HIDE DEF new
    <2>4. PICK v \in Nat : txs' = [txs EXCEPT ![t] = [new EXCEPT !.version = v]]
      BY <1>2, <1>3, <2>1, SavedFields
    <2>5. [new EXCEPT !.version = v] \in Row
      BY <2>1 DEF Row
    <2>6. SavesHeldRow(s, [new EXCEPT !.version = v])
      BY <2>1, <2>2, <2>3, <2>4 DEF SavesHeldRow, Row
    <2> QED BY <1>1, <1>2, <1>3, <1>5, <2>5, <2>6
  <1>6. CASE CommitDelete(s)
    <2> DEFINE new == [ses[s].row EXCEPT !.status = "DELETED", !.by = q.actor]
    <2>1. new \in Row /\ SaveRow(s, new)
      BY <1>2, <1>3, <1>6 DEF CommitDelete, Row
    <2>2. /\ UNCHANGED entries
          /\ txs[t].adj = "REFUND" \/ Unrefunded(t)
      BY <1>3, <1>6 DEF CommitDelete, RefundInv, Decided, DeleteDecided, At
    <2>3. Unrefunded(t)
      <3>1. txs[t].adj = "REFUND" => Unrefunded(t)
        BY DEF RefundInv, RefundLineage, Unrefunded, ActiveRefunds, Refundable
      <3> QED BY <2>2, <3>1
    <2>4. new.status = "DELETED" /\ new.adj = txs[t].adj /\ new.reverses = txs[t].reverses
      BY <1>3 DEF Row
    <2> HIDE DEF new
    <2>5. PICK v \in Nat : txs' = [txs EXCEPT ![t] = [new EXCEPT !.version = v]]
      BY <1>2, <1>3, <2>1, SavedFields
    <2>6. [new EXCEPT !.version = v] \in Row
      BY <2>1 DEF Row
    <2>7. SavesHeldRow(s, [new EXCEPT !.version = v])
      BY <2>1, <2>2, <2>3, <2>4, <2>5 DEF SavesHeldRow, Row
    <2> QED BY <1>1, <1>2, <1>3, <2>3, <2>6, <2>7
  <1> QED BY <1>4, <1>5, <1>6

(***************************************************************************)
(* Inserting a row.                                                        *)
(***************************************************************************)
LEMMA InsertKeeps ==
  ASSUME TypeInv, TypeInv', RefundInv, NEW s \in Sessions, NEW row \in Row, NEW es,
         Insert(row, es), Release(s),
         row.status = "ACTIVE",
         row.adj = "REFUND" =>
           /\ row.reverses \in TxIds /\ txLock[row.reverses] = s
           /\ txs[row.reverses].status = "ACTIVE" /\ Refundable(txs[row.reverses])
           /\ row.amount + RefundedAmount(txs, row.reverses) <= txs[row.reverses].amount
           /\ \E e \in entries[row.reverses] :
                /\ entries[row.reverses] = {e}
                /\ es = {PrimaryEntry(e.account, IF e.delta > 0 THEN -row.amount ELSE row.amount)}
  PROVE  RefundInv'
  <1>1. PICK id \in TxIds :
          /\ txs[id].status = "ABSENT" /\ txs' = [txs EXCEPT ![id] = row]
          /\ entries' = [entries EXCEPT ![id] = es]
    BY DEF Insert
  <1>2. /\ txs'[id] = row /\ entries'[id] = es
        /\ \A t \in TxIds \ {id} : txs'[t] = txs[t] /\ entries'[t] = entries[t]
    BY <1>1 DEF TypeInv, TypeOK
  <1>3. Unrefunded(id)
    BY <1>1 DEF RefundInv, RefundLineage, Unrefunded, ActiveRefunds
  <1>4. ASSUME NEW o, ~(row.adj = "REFUND" /\ row.reverses = o)
        PROVE  ActiveRefunds(txs', o) = ActiveRefunds(txs, o)
    BY <1>1, <1>2, <1>4 DEF ActiveRefunds
  <1>5. ASSUME NEW o, row.adj = "REFUND", row.reverses = o
        PROVE  ActiveRefunds(txs', o) = ActiveRefunds(txs, o) \union {id}
    BY <1>1, <1>2, <1>5 DEF ActiveRefunds
  <1>6. ASSUME NEW o PROVE id \notin ActiveRefunds(txs, o)
    BY <1>1 DEF ActiveRefunds
  <1>7. ASSUME NEW o, NEW r \in ActiveRefunds(txs, o) PROVE txs'[r] = txs[r] /\ entries'[r] = entries[r]
    BY <1>2, <1>6 DEF ActiveRefunds
  <1>8. RefundCap'
    <2> SUFFICES ASSUME NEW o \in TxIds PROVE RefundedAmount(txs', o) <= txs'[o].amount
      BY DEF RefundCap
    <2>1. RefundedAmount(txs, o) <= txs[o].amount
      BY DEF RefundInv, RefundCap
    <2>2. CASE row.adj = "REFUND" /\ row.reverses = o
      <3>1. RefundedAmount(txs', o) = RefundedAmount(txs, o) + txs'[id].amount
        BY <1>5, <1>6, <1>7, <2>2, RefundedAdd DEF TypeInv, TypeOK
      <3>2. txs'[o] = txs[o]
        BY <1>1, <1>2, <2>2
      <3>3. /\ RefundedAmount(txs, o) \in Nat /\ row.amount \in Nat
            /\ row.amount + RefundedAmount(txs, o) <= txs[o].amount
        BY <2>2, RefundedType, MaxAmountAssumption DEF TypeInv, TypeOK, Row, Amounts
      <3> QED BY <1>2, <3>1, <3>2, <3>3
    <2>3. CASE ~(row.adj = "REFUND" /\ row.reverses = o)
      <3>1. RefundedAmount(txs', o) = RefundedAmount(txs, o)
        BY <1>4, <1>7, <2>3, RefundedSame DEF TypeInv, TypeOK
      <3>2. CASE o # id
        BY <1>2, <2>1, <3>1, <3>2
      <3>3. CASE o = id
        <4>1. RefundedAmount(txs, o) = 0
          BY <1>3, <3>3, RefundedZero DEF TypeInv, TypeOK, Unrefunded
        <4>2. txs'[o].amount \in Nat
          BY MaxAmountAssumption DEF TypeInv, TypeOK, Row, Amounts
        <4> QED BY <3>1, <4>1, <4>2
      <3> QED BY <3>2, <3>3
    <2> QED BY <2>2, <2>3
  <1>9. RefundLineage'
    <2> SUFFICES ASSUME NEW r \in TxIds, txs'[r].status = "ACTIVE", txs'[r].adj = "REFUND"
                 PROVE  LET o == txs'[r].reverses
                        IN  /\ o \in TxIds /\ txs'[o].status = "ACTIVE" /\ Refundable(txs'[o])
                            /\ \E e \in entries'[o] :
                                 /\ entries'[o] = {e}
                                 /\ entries'[r] = {PrimaryEntry(e.account,
                                      IF e.delta > 0 THEN -txs'[r].amount ELSE txs'[r].amount)}
      BY DEF RefundLineage
    <2>1. CASE r = id
      <3>1. txs'[row.reverses] = txs[row.reverses] /\ entries'[row.reverses] = entries[row.reverses]
        BY <1>1, <1>2, <2>1
      <3> QED BY <1>2, <2>1, <3>1
    <2>2. CASE r # id
      <3> DEFINE o == txs[r].reverses
      <3>1. txs'[r] = txs[r] /\ entries'[r] = entries[r]
        BY <1>2, <2>2
      <3>2. /\ o \in TxIds /\ txs[o].status = "ACTIVE" /\ Refundable(txs[o])
            /\ \E e \in entries[o] :
                 /\ entries[o] = {e}
                 /\ entries[r] = {PrimaryEntry(e.account,
                      IF e.delta > 0 THEN -txs[r].amount ELSE txs[r].amount)}
        BY <3>1 DEF RefundInv, RefundLineage
      <3>3. txs'[o] = txs[o] /\ entries'[o] = entries[o]
        BY <1>1, <1>2, <3>2
      <3> QED BY <3>1, <3>2, <3>3
    <2> QED BY <2>1, <2>2
  <1>10. HoldsRow(s)' /\ Decided(s)'
    BY ReleaseFrees, EndKeeps
  <1>11. ASSUME NEW x \in Sessions \ {s} PROVE HoldsRow(x)' /\ Decided(x)'
    <2>1. ses'[x] = ses[x] /\ HoldsRow(x) /\ Decided(x)
      BY ReleaseFrees DEF RefundInv
    <2>2. ASSUME NEW u \in TxIds, txLock[u] = x, txs[u].status = "ACTIVE"
          PROVE  /\ txLock'[u] = x /\ txs'[u] = txs[u] /\ entries'[u] = entries[u]
                 /\ ActiveRefunds(txs', u) \subseteq ActiveRefunds(txs, u)
                 /\ \A r \in ActiveRefunds(txs', u) : txs'[r].amount = txs[r].amount
      <3>1. txLock'[u] = x
        BY <2>2, ReleaseFrees
      <3>2. txs'[u] = txs[u] /\ entries'[u] = entries[u]
        BY <1>1, <1>2, <2>2
      <3>3. ActiveRefunds(txs', u) = ActiveRefunds(txs, u)
        BY <1>4, <2>2
      <3> QED BY <1>7, <3>1, <3>2, <3>3
    <2> QED BY <2>1, <2>2, OthersKeep
  <1> QED BY <1>8, <1>9, <1>10, <1>11 DEF RefundInv

LEMMA CommitKeeps ==
  ASSUME TypeInv, TypeInv', RefundInv, NEW s \in Sessions, Commit(s)
  PROVE  RefundInv'
  <1> DEFINE q == ses[s].req
  <1>1. CASE CommitCreate(s)
    <2> DEFINE p == q.posting
               row == NewRow(p.type, p.amount, p.note, q.actor, "NORMAL", NoTx)
    <2>1. p \in Posting /\ q.actor \in Members
      BY <1>1, RequestInStep DEF CommitCreate
    <2>2. p.type \in TransactionTypes /\ p.amount \in Amounts /\ p.note \in Notes
      BY <2>1 DEF Posting
    <2>3. row \in Row /\ row.status = "ACTIVE" /\ row.adj = "NORMAL"
      BY <2>1, <2>2, NewRowType DEF NewRow
    <2>4. Insert(row, PostingEntries(p, ses[s].seen)) /\ Release(s)
      BY <1>1 DEF CommitCreate
    <2> QED BY <2>3, <2>4, InsertKeeps
  <1>2. CASE CommitRefund(s)
    <2> DEFINE e == CHOOSE e \in ses[s].old : TRUE
               es == {PrimaryEntry(e.account, IF e.delta > 0 THEN -q.amount ELSE q.amount)}
               row == NewRow("EXPENSE", q.amount, q.note, q.actor, "REFUND", q.tx)
    <2>1. /\ q.tx \in TxIds /\ q.amount \in Amounts /\ q.note \in Notes /\ q.actor \in Members
          /\ At(s, "write") /\ Op(s) = "refund" /\ Tx(s) = q.tx
      BY <1>2, RequestInStep DEF CommitRefund, Tx
    <2>2. /\ row \in Row /\ row.status = "ACTIVE" /\ row.amount = q.amount
          /\ row.reverses = q.tx
      BY <2>1, NewRowType DEF NewRow, TransactionTypes
    <2>3. /\ txLock[q.tx] = s /\ ses[s].row = txs[q.tx] /\ txs[q.tx].status = "ACTIVE"
      BY <2>1 DEF RefundInv, HoldsRow, At
    <2>4. /\ Refundable(ses[s].row) /\ ses[s].old = entries[q.tx]
          /\ \E f \in ses[s].old : ses[s].old = {f}
          /\ q.amount + RefundedAmount(txs, q.tx) <= ses[s].row.amount
      BY <2>1 DEF RefundInv, Decided, RefundDecided, At
    <2>5. entries[q.tx] = {e}
      BY <2>4
    <2>6. Insert(row, es) /\ Release(s)
      BY <1>2 DEF CommitRefund
    <2> HIDE DEF row, e
    <2> QED BY <2>1, <2>2, <2>3, <2>4, <2>5, <2>6, InsertKeeps
  <1>3. CASE CommitUpdate(s) \/ CommitTouch(s) \/ CommitDelete(s)
    BY <1>3, CommitSaves, SavingKeeps
  <1>4. CASE CommitAccount(s)
    BY <1>4, RejectKeeps DEF CommitAccount
  <1> QED BY <1>1, <1>2, <1>3, <1>4 DEF Commit

LEMMA OpenKeeps ==
  ASSUME TypeInv, TypeInv', RefundInv, UNCHANGED <<txs, entries, locks, ses>>
  PROVE  RefundInv'
  <1>1. RefundCap' /\ RefundLineage'
    BY DEF RefundInv, RefundCap, RefundLineage
  <1>2. ASSUME NEW x \in Sessions PROVE HoldsRow(x)' /\ Decided(x)'
    BY OthersKeep DEF RefundInv, locks
  <1> QED BY <1>1, <1>2 DEF RefundInv

LEMMA RefundInvInit == Init => RefundInv
  <1> SUFFICES ASSUME Init PROVE RefundInv
    OBVIOUS
  <1>1. TypeInv
    BY TypeInvInit
  <1>2. \A t \in TxIds : txs[t].status = "ABSENT"
    BY DEF Init, AbsentRow
  <1>3. \A o : ActiveRefunds(txs, o) = {}
    BY <1>2 DEF ActiveRefunds
  <1>4. RefundCap
    <2>1. \A o \in TxIds : RefundedAmount(txs, o) = 0 /\ txs[o].amount \in Nat
      BY <1>1, <1>3, RefundedZero, MaxAmountAssumption DEF TypeInv, TypeOK, Row, Amounts
    <2> QED BY <2>1 DEF RefundCap
  <1>5. RefundLineage
    BY <1>2 DEF RefundLineage
  <1>6. \A s \in Sessions : HoldsRow(s) /\ Decided(s)
    BY DEF Init, Idle, HoldsRow, Decided, RefundDecided, UpdateDecided, DeleteDecided, Op
  <1> QED BY <1>4, <1>5, <1>6 DEF RefundInv

LEMMA RefundInvStep ==
  ASSUME TypeInv, TypeInv', RefundInv, [Next]_vars
  PROVE  RefundInv'
  <1>1. ASSUME NEW s \in Sessions, Begin(s) PROVE RefundInv'
    BY <1>1, BeginKeeps
  <1>2. ASSUME NEW s \in Sessions, Lock(s) PROVE RefundInv'
    BY <1>2, LockTransactionKeeps, LockOriginalKeeps, AccountStepKeeps DEF Lock
  <1>3. ASSUME NEW s \in Sessions, Respond(s) \/ Rollback(s) PROVE RefundInv'
    BY <1>3, RejectKeeps DEF Respond, Rollback, Reject, database
  <1>4. ASSUME NEW s \in Sessions, Work(s) PROVE RefundInv'
    BY <1>3, <1>4, LockTransactionKeeps, ReadEntriesKeeps, ReadRefundsKeeps, AccountStepKeeps,
       CommitKeeps DEF Work
  <1>5. ASSUME NEW a \in Accounts, OpenAccount(a) PROVE RefundInv'
    BY <1>5, OpenKeeps DEF OpenAccount
  <1>6. CASE UNCHANGED vars
    BY <1>6, OpenKeeps DEF vars, locks
  <1> QED BY <1>1, <1>2, <1>3, <1>4, <1>5, <1>6 DEF Next

\* The invariant the three theorems below follow from.
LEMMA RefundInvariant == Spec => [](TypeInv /\ RefundInv)
  <1>1. Init => TypeInv /\ RefundInv
    BY TypeInvInit, RefundInvInit
  <1>2. TypeInv /\ RefundInv /\ [Next]_vars => TypeInv' /\ RefundInv'
    BY TypeInvStep, RefundInvStep
  <1> QED BY <1>1, <1>2, PTL DEF Spec

\* However createRefund, update and delete of an original and of its refunds
\* interleave, active refunds never exceed the original's amount.
THEOREM RefundsWithinAmount == Spec => []RefundCap
  <1>1. TypeInv /\ RefundInv => RefundCap
    BY DEF RefundInv
  <1> QED BY <1>1, RefundInvariant, PTL

\* Every active refund reverses an active NORMAL expense, on its account and
\* with the opposite sign.
THEOREM RefundsHaveOriginals == Spec => []RefundLineage
  <1>1. TypeInv /\ RefundInv => RefundLineage
    BY DEF RefundInv
  <1> QED BY <1>1, RefundInvariant, PTL

(***************************************************************************)
(* What a step may do to an original with active refunds.                  *)
(***************************************************************************)
Frozen(o) ==
  /\ entries'[o] = entries[o]
  /\ \E n \in Notes, m \in Members, v \in {txs[o].version, txs[o].version + 1} :
       txs'[o] = [txs[o] EXCEPT !.note = n, !.by = m, !.version = v]

LEMMA UntouchedIsFrozen ==
  ASSUME TypeInv, NEW o \in TxIds, txs'[o] = txs[o], entries'[o] = entries[o]
  PROVE  Frozen(o)
  <1>1. /\ txs[o] \in Row /\ txs[o].note \in Notes /\ txs[o].by \in Members
    BY DEF TypeInv, TypeOK, Row
  <1>2. txs[o] = [txs[o] EXCEPT !.note = txs[o].note, !.by = txs[o].by,
                                !.version = txs[o].version]
    BY <1>1 DEF Row
  <1> QED BY <1>1, <1>2 DEF Frozen

\* Only a commit of TransactionService writes transactions or entries.
LEMMA TablesWritten ==
  ASSUME [Next]_vars, ~UNCHANGED <<txs, entries>>
  PROVE  \E s \in Sessions :
           \/ CommitCreate(s) \/ CommitRefund(s)
           \/ CommitUpdate(s) \/ CommitTouch(s) \/ CommitDelete(s)
  <1>1. ASSUME NEW s \in Sessions, Begin(s) PROVE UNCHANGED <<txs, entries>>
    BY <1>1 DEF Begin, BeginCreate, BeginRefund, BeginUpdate, BeginDelete, BeginSummary,
                BeginAccount, Arrive, database
  <1>2. ASSUME NEW s \in Sessions, Lock(s) \/ Rollback(s) PROVE UNCHANGED <<txs, entries>>
    BY <1>2 DEF Lock, LockTransaction, LockOriginal, LockAccount, Rollback, Reject, database
  <1>3. ASSUME NEW s \in Sessions, Work(s), ~Commit(s) PROVE UNCHANGED <<txs, entries>>
    BY <1>3 DEF Work, ReadTransaction, ReadEntries, ReadRefunds, CheckPosting, CheckAccountUse,
                Respond, Reject, database
  <1>4. UNCHANGED vars => UNCHANGED <<txs, entries>>
    BY DEF vars
  <1>5. PICK s \in Sessions : Commit(s)
    BY <1>1, <1>2, <1>3, <1>4 DEF Next, OpenAccount
  <1>6. ~CommitAccount(s)
    BY DEF CommitAccount
  <1> QED BY <1>5, <1>6 DEF Commit

LEMMA FrozenStep ==
  ASSUME TypeInv, TypeInv', RefundInv, [Next]_vars, NEW o \in TxIds, ~Unrefunded(o)
  PROVE  Frozen(o)
  <1>1. CASE UNCHANGED <<txs, entries>>
    BY <1>1, UntouchedIsFrozen
  <1>2. CASE ~UNCHANGED <<txs, entries>>
    <2>1. PICK s \in Sessions :
            \/ CommitCreate(s) \/ CommitRefund(s)
            \/ CommitUpdate(s) \/ CommitTouch(s) \/ CommitDelete(s)
      BY <1>2, TablesWritten
    <2>2. CASE CommitCreate(s) \/ CommitRefund(s)
      <3>1. PICK id, row, es :
              /\ id \in TxIds /\ txs[id].status = "ABSENT" /\ txs' = [txs EXCEPT ![id] = row]
              /\ entries' = [entries EXCEPT ![id] = es]
        BY <2>2 DEF CommitCreate, CommitRefund, Insert
      <3>2. o # id
        BY <3>1 DEF RefundInv, RefundLineage, Unrefunded, ActiveRefunds
      <3>3. txs'[o] = txs[o] /\ entries'[o] = entries[o]
        BY <3>1, <3>2 DEF TypeInv, TypeOK
      <3> QED BY <3>3, UntouchedIsFrozen
    <2>3. CASE CommitUpdate(s) \/ CommitTouch(s) \/ CommitDelete(s)
      <3>1. /\ Tx(s) \in TxIds /\ ses[s].row = txs[Tx(s)] /\ Op(s) \in {"update", "delete"}
            /\ ~Unrefunded(Tx(s)) => CommitTouch(s)
        BY <2>3, CommitSaves
      <3>2. CASE o # Tx(s)
        <4>1. PICK new : SavesHeldRow(s, new)
          BY <2>3, CommitSaves
        <4>2. txs'[o] = txs[o] /\ entries'[o] = entries[o]
          BY <3>2, <4>1 DEF SavesHeldRow, TypeInv, TypeOK
        <4> QED BY <4>2, UntouchedIsFrozen
      <3>3. CASE o = Tx(s)
        <4> DEFINE n == ses[s].req.posting.note
                   m == ses[s].req.actor
                   new == [ses[s].row EXCEPT !.note = n, !.by = m]
        <4>1. CommitTouch(s)
          BY <3>1, <3>3
        <4>2. ses[s].req.posting \in Posting /\ m \in Members
          BY <4>1, RequestInStep DEF CommitTouch
        <4>3. new \in Row /\ SaveRow(s, new) /\ UNCHANGED entries /\ n \in Notes
          BY <3>1, <4>1, <4>2, EditedType DEF CommitTouch, TypeInv, TypeOK, Posting
        <4> HIDE DEF n, m
        <4>4. PICK v \in Nat :
                /\ txs' = [txs EXCEPT ![o] = [new EXCEPT !.version = v]]
                /\ v \in {txs[o].version, txs[o].version + 1}
          BY <3>1, <3>3, <4>3, SavedFields
        <4>5. txs'[o] = [txs[o] EXCEPT !.note = n, !.by = m, !.version = v]
          BY <3>1, <3>3, <4>4 DEF TypeInv, TypeOK
        <4> QED BY <4>2, <4>3, <4>4, <4>5 DEF Frozen
      <3> QED BY <3>2, <3>3
    <2> QED BY <2>1, <2>2, <2>3
  <1> QED BY <1>1, <1>2

\* While refunds are active, no PATCH or DELETE changes what they reverse.
THEOREM OriginalsFrozen == Spec => RefundedOriginalFrozen
  <1> DEFINE A == \A o \in TxIds : ActiveRefunds(txs, o) # {} => Frozen(o)
  <1>1. TypeInv /\ RefundInv /\ (TypeInv /\ RefundInv)' /\ [Next]_vars => [A]_vars
    BY FrozenStep DEF Unrefunded
  <1>2. Spec => [][A]_vars
    BY <1>1, RefundInvariant, PTL DEF Spec
  <1> QED BY <1>2 DEF RefundedOriginalFrozen, Frozen

-----------------------------------------------------------------------------

(***************************************************************************)
(* The entries: whatever is posted, refunded, edited, archived and         *)
(* reclassified at once, each transaction keeps the entries it calls for   *)
(* under the present classifications, and an edit only wins from the row   *)
(* its client was shown.                                                   *)
(*                                                                         *)
(* A commit writes the entries computed from account rows read earlier.    *)
(* What keeps those rows current is the account's row lock, or an entry of *)
(* a transaction row the session holds: a classification that is in use    *)
(* does not change, and a session that is about to change one holds the    *)
(* lock that every new use of the account needs.                           *)
(***************************************************************************)
Uses(es, a) == \E e \in es : e.account = a

\* Account locks are held between the first lock and the commit only, and what
\* a session that posts or edits accounts has seen of an account still holds.
SeenIsCurrent(s) ==
  \A a \in Accounts :
    /\ accLock[a] = s =>
         ses[s].pc \in {"lockAccounts", "write"} /\ ses[s].seen[a].kind # "ABSENT"
    /\ ses[s].pc \in {"idle", "readTransaction", "lockTransaction", "readEntries"} =>
         ses[s].seen[a].kind = "ABSENT"
    /\ Op(s) \in {"create", "update", "account"} /\ ses[s].seen[a].kind # "ABSENT" =>
         /\ ses[s].seen[a].kind = accounts[a].kind
         /\ accLock[a] = s \/ (Op(s) = "update" /\ Uses(entries[Tx(s)], a))

\* A request about to post has locked the accounts and found them suitable.
PostingDecided(s) ==
  At(s, "write") /\ (Op(s) = "create" \/ (Op(s) = "update" /\ ses[s].refunded = 0)) =>
    /\ \A a \in AccountsOf(ses[s].req.posting) : accLock[a] = s
    /\ PostingSupported(ses[s].req.posting, ses[s].seen)

\* An account PATCH about to commit keeps the classification or finds no use of it.
AccountDecided(s) ==
  At(s, "write") /\ Op(s) = "account" =>
    /\ accLock[ses[s].req.account] = s
    /\ \/ ses[s].req.kind = accounts[ses[s].req.account].kind
       \/ ~HasLedgerEntries(entries, ses[s].req.account)

Knows(s) == SeenIsCurrent(s) /\ PostingDecided(s) /\ AccountDecided(s)

EntryInv == EntrySetsValid /\ \A s \in Sessions : Knows(s)

(***************************************************************************)
(* The posting rules.                                                      *)
(***************************************************************************)
\* Only classifications count, and only those of the accounts in question.
LEMMA PostingAgrees ==
  ASSUME NEW p, NEW f, NEW g, \A a \in AccountsOf(p) : f[a].kind = g[a].kind
  PROVE  /\ PostingEntries(p, f) = PostingEntries(p, g)
         /\ PostingSupported(p, f) = PostingSupported(p, g)
  <1>1. CASE p.type = "TRANSFER"
    BY <1>1 DEF AccountsOf, PostingEntries, PostingSupported
  <1>2. CASE p.type # "TRANSFER"
    BY <1>2 DEF AccountsOf, PostingEntries, PostingSupported
  <1> QED BY <1>1, <1>2

\* A posting writes the entries its row calls for.
LEMMA PostingValid ==
  ASSUME NEW p \in Posting, NEW acc, NEW r, PostingSupported(p, acc),
         r.type = p.type, r.amount = p.amount, r.adj = "NORMAL", r.reverses = NoTx
  PROVE  ValidEntries(r, PostingEntries(p, acc), acc)
  <1>1. p.from \in Accounts /\ p.to \in Accounts
    BY DEF Posting
  <1>2. CASE p.type = "TRANSFER"
    BY <1>1, <1>2 DEF PostingSupported, PostingEntries, ValidEntries, ValidTransfer, Kinds
  <1>3. CASE p.type # "TRANSFER"
    BY <1>1, <1>3 DEF PostingSupported, PostingEntries, ValidEntries, ValidPrimary
  <1> QED BY <1>2, <1>3

\* Valid entries are on accounts that exist.
LEMMA ValidUsesOpen ==
  ASSUME NEW r, NEW es, NEW acc, ValidEntries(r, es, acc), NEW e \in es
  PROVE  e.account \in Accounts /\ acc[e.account].kind # "ABSENT"
  <1>1. CASE r.type = "TRANSFER"
    BY <1>1 DEF ValidEntries, ValidTransfer, TransferEntries
  <1>2. CASE r.type # "TRANSFER"
    BY <1>2 DEF ValidEntries, ValidPrimary, PrimaryEntry, PrimarySupported
  <1> QED BY <1>1, <1>2

\* They stay valid while the accounts they use keep their classification and
\* the row its type, amount and kind of adjustment.
LEMMA ValidStays ==
  ASSUME NEW r, NEW u, NEW es, NEW acc, NEW new, ValidEntries(r, es, acc),
         \A a \in Accounts : Uses(es, a) => new[a].kind = acc[a].kind,
         u.type = r.type, u.amount = r.amount, u.adj = r.adj, u.reverses = r.reverses
  PROVE  ValidEntries(u, es, new)
  <1>1. CASE r.type = "TRANSFER"
    <2>1. PICK from \in Accounts, to \in Accounts :
            /\ from # to /\ acc[from].kind = "ASSET" /\ acc[to].kind # "ABSENT"
            /\ es = TransferEntries(from, to, r.amount, acc[to].kind)
      BY <1>1 DEF ValidEntries, ValidTransfer
    <2>2. Uses(es, from) /\ Uses(es, to)
      BY <2>1 DEF Uses, TransferEntries
    <2> QED BY <1>1, <2>1, <2>2 DEF ValidEntries, ValidTransfer
  <1>2. CASE r.type # "TRANSFER"
    <2>1. PICK a \in Accounts :
            LET d == PrimaryDelta(r.type, acc[a].kind, r.amount)
            IN  /\ PrimarySupported(r.type, acc[a].kind)
                /\ es = {PrimaryEntry(a, IF r.adj = "REFUND" THEN -d ELSE d)}
      BY <1>2 DEF ValidEntries, ValidPrimary
    <2>2. Uses(es, a)
      BY <2>1 DEF Uses, PrimaryEntry
    <2> QED BY <1>2, <2>1, <2>2 DEF ValidEntries, ValidPrimary
  <1> QED BY <1>1, <1>2

\* A refund of an expense reverses the sign of its entry on the same account.
LEMMA RefundValid ==
  ASSUME NEW o \in Row, NEW acc, NEW e, ValidEntries(o, {e}, acc), Refundable(o),
         NEW r, r.type = "EXPENSE", r.adj = "REFUND", r.reverses # NoTx, r.amount \in Amounts
  PROVE  ValidEntries(r, {PrimaryEntry(e.account, IF e.delta > 0 THEN -r.amount ELSE r.amount)}, acc)
  <1>1. PICK a \in Accounts :
          /\ PrimarySupported("EXPENSE", acc[a].kind)
          /\ {e} = {PrimaryEntry(a, PrimaryDelta("EXPENSE", acc[a].kind, o.amount))}
    BY DEF ValidEntries, ValidPrimary, Refundable
  <1>2. e.account = a /\ e.delta = PrimaryDelta("EXPENSE", acc[a].kind, o.amount)
    BY <1>1 DEF PrimaryEntry
  <1>3. o.amount \in Nat \ {0} /\ r.amount \in Nat \ {0}
    BY MaxAmountAssumption DEF Row, Amounts
  <1>4. (IF e.delta > 0 THEN -r.amount ELSE r.amount)
          = -PrimaryDelta("EXPENSE", acc[a].kind, r.amount)
    BY <1>2, <1>3 DEF PrimaryDelta
  <1> QED BY <1>1, <1>2, <1>4 DEF ValidEntries, ValidPrimary

\* A posting uses the accounts it names.
LEMMA PostingUses ==
  ASSUME NEW p, NEW acc, NEW a, Uses(PostingEntries(p, acc), a)
  PROVE  a \in AccountsOf(p)
  <1>1. CASE p.type = "TRANSFER"
    BY <1>1 DEF Uses, PostingEntries, TransferEntries, AccountsOf
  <1>2. CASE p.type # "TRANSFER"
    BY <1>2 DEF Uses, PostingEntries, PrimaryEntry, AccountsOf
  <1> QED BY <1>1, <1>2

(***************************************************************************)
(* What a step leaves to the other sessions.                               *)
(***************************************************************************)
LEMMA KnowsFrame ==
  ASSUME TypeInv, TypeInv', NEW x \in Sessions, HoldsRow(x), Knows(x), ses'[x] = ses[x],
         \A a \in Accounts : accLock'[a] = x <=> accLock[a] = x,
         \A a \in Accounts :
           accounts[a].kind # "ABSENT" /\ (accLock[a] = x \/ HasLedgerEntries(entries, a))
             => accounts'[a].kind = accounts[a].kind,
         \A t \in TxIds :
           txLock[t] = x /\ txs[t].status = "ACTIVE" => entries'[t] = entries[t],
         \A a \in Accounts :
           accLock[a] = x /\ ~HasLedgerEntries(entries, a) => ~HasLedgerEntries(entries', a)
  PROVE  Knows(x)'
  <1>1. /\ Op(x) \in OpsAt(ses[x].pc) /\ Op(x)' = Op(x) /\ Tx(x)' = Tx(x)
        /\ \A pc : At(x, pc)' = At(x, pc)
        /\ Op(x) = "update" => Tx(x) \in TxIds
        /\ Op(x) = "account" => ses[x].req.account \in Accounts
    BY RequestInStep DEF Op, Tx, At
  <1>2. ASSUME NEW a \in Accounts, Op(x) \in {"create", "update", "account"},
               ses[x].seen[a].kind # "ABSENT"
        PROVE  /\ ses[x].seen[a].kind = accounts'[a].kind
               /\ accLock'[a] = x \/ (Op(x) = "update" /\ Uses(entries'[Tx(x)], a))
    <2>1. /\ ses[x].seen[a].kind = accounts[a].kind
          /\ accLock[a] = x \/ (Op(x) = "update" /\ Uses(entries[Tx(x)], a))
      BY <1>2 DEF Knows, SeenIsCurrent
    <2>2. CASE accLock[a] = x
      BY <1>2, <2>1, <2>2
    <2>3. CASE Op(x) = "update" /\ Uses(entries[Tx(x)], a)
      <3>1. ~At(x, "lockTransaction")
        BY <1>2 DEF Knows, SeenIsCurrent, At
      <3>2. entries'[Tx(x)] = entries[Tx(x)]
        BY <1>1, <2>3, <3>1 DEF HoldsRow
      <3>3. HasLedgerEntries(entries, a)
        BY <1>1, <2>3 DEF HasLedgerEntries, Uses
      <3> QED BY <1>2, <2>1, <2>3, <3>2, <3>3
    <2> QED BY <2>1, <2>2, <2>3
  <1>3. SeenIsCurrent(x)'
    BY <1>1, <1>2 DEF Knows, SeenIsCurrent
  <1>4. PostingDecided(x)'
    <2> SUFFICES ASSUME At(x, "write"),
                        Op(x) = "create" \/ (Op(x) = "update" /\ ses[x].refunded = 0)
                 PROVE  /\ \A a \in AccountsOf(ses[x].req.posting) : accLock'[a] = x
                        /\ PostingSupported(ses[x].req.posting, ses[x].seen)
      BY <1>1 DEF PostingDecided
    <2>1. AccountsOf(ses[x].req.posting) \subseteq Accounts
      BY RequestInStep DEF AccountsOf, Posting
    <2> QED BY <2>1 DEF Knows, PostingDecided
  <1>5. AccountDecided(x)'
    <2> SUFFICES ASSUME At(x, "write"), Op(x) = "account"
                 PROVE  /\ accLock'[ses[x].req.account] = x
                        /\ \/ ses[x].req.kind = accounts'[ses[x].req.account].kind
                           \/ ~HasLedgerEntries(entries', ses[x].req.account)
      BY <1>1 DEF AccountDecided
    <2>1. /\ accLock[ses[x].req.account] = x
          /\ \/ ses[x].req.kind = accounts[ses[x].req.account].kind
             \/ ~HasLedgerEntries(entries, ses[x].req.account)
      BY DEF Knows, AccountDecided
    <2>2. accounts[ses[x].req.account].kind # "ABSENT"
      BY <1>1, <2>1 DEF Knows, SeenIsCurrent
    <2> QED BY <1>1, <2>1, <2>2
  <1> QED BY <1>3, <1>4, <1>5 DEF Knows

\* A session that ends has seen nothing and holds nothing.
LEMMA EndKnows ==
  ASSUME NEW s \in Sessions, ses'[s] = Idle, \A a \in Accounts : accLock'[a] # s
  PROVE  Knows(s)'
  <1>1. Op(s)' = "none" /\ \A a \in Accounts : ses'[s].seen[a].kind = "ABSENT"
    BY DEF Op, Idle, NoAccount
  <1> QED BY <1>1 DEF Knows, SeenIsCurrent, PostingDecided, AccountDecided

LEMMA ReleaseFreesAccounts ==
  ASSUME TypeInv, NEW s \in Sessions, Release(s)
  PROVE  /\ ses'[s] = Idle
         /\ \A a \in Accounts : accLock'[a] # s
         /\ \A x \in Sessions \ {s} :
              ses'[x] = ses[x] /\ \A a \in Accounts : accLock'[a] = x <=> accLock[a] = x
  BY SessionAssumption DEF Release, TypeInv, TypeOK

\* A step that writes no table.
LEMMA QuietKnows ==
  ASSUME TypeInv, TypeInv', RefundInv, EntryInv, NEW s \in Sessions,
         UNCHANGED <<txs, entries, accounts>>,
         \A x \in Sessions \ {s} :
           ses'[x] = ses[x] /\ \A a \in Accounts : accLock'[a] = x <=> accLock[a] = x,
         Knows(s)'
  PROVE  EntryInv'
  <1>1. EntrySetsValid'
    BY DEF EntryInv, EntrySetsValid
  <1>2. ASSUME NEW x \in Sessions \ {s} PROVE Knows(x)'
    <2>1. HoldsRow(x) /\ Knows(x)
      BY DEF RefundInv, EntryInv
    <2> QED BY <2>1, KnowsFrame
  <1> QED BY <1>1, <1>2 DEF EntryInv

\* A commit may write a fresh row, a row it holds, entries on accounts it holds
\* or that are in use, and the classification of an unused account it holds.
LEMMA CommitKnows ==
  ASSUME TypeInv, TypeInv', RefundInv, EntryInv, NEW s \in Sessions, Release(s), EntrySetsValid',
         \A a \in Accounts : accounts'[a].kind # accounts[a].kind =>
           accounts[a].kind = "ABSENT" \/ (accLock[a] = s /\ ~HasLedgerEntries(entries, a)),
         \A t \in TxIds : entries'[t] # entries[t] =>
           txs[t].status = "ABSENT" \/ txLock[t] = s,
         \A a \in Accounts : HasLedgerEntries(entries', a) =>
           HasLedgerEntries(entries, a) \/ accLock[a] = s
  PROVE  EntryInv'
  <1>1. Knows(s)'
    BY ReleaseFreesAccounts, EndKnows
  <1>2. ASSUME NEW x \in Sessions \ {s} PROVE Knows(x)'
    <2>1. HoldsRow(x) /\ Knows(x) /\ x # s
      BY DEF RefundInv, EntryInv
    <2>2. /\ ses'[x] = ses[x]
          /\ \A a \in Accounts : accLock'[a] = x <=> accLock[a] = x
      BY ReleaseFreesAccounts
    <2> QED BY <2>1, <2>2, KnowsFrame
  <1> QED BY <1>1, <1>2 DEF EntryInv

(***************************************************************************)
(* Steps that write no table.                                              *)
(***************************************************************************)
LEMMA RejectKnows ==
  ASSUME TypeInv, TypeInv', RefundInv, EntryInv, NEW s \in Sessions, Reject(s)
  PROVE  EntryInv'
  BY ReleaseFreesAccounts, EndKnows, QuietKnows DEF Reject, database

\* A session moves on and takes at most free account locks.
LEMMA MoveKnows ==
  ASSUME TypeInv, TypeInv', RefundInv, EntryInv, NEW s \in Sessions, NEW v,
         ses' = [ses EXCEPT ![s] = v], UNCHANGED <<txs, entries, accounts, accLock>>,
         Knows(s)'
  PROVE  EntryInv'
  <1>1. \A x \in Sessions \ {s} : ses'[x] = ses[x]
    BY DEF TypeInv, TypeOK
  <1> QED BY <1>1, QuietKnows

\* Until its first account lock a session holds no account.
LEMMA HoldsNoAccount ==
  ASSUME TypeInv, EntryInv, NEW s \in Sessions, ses[s].pc \notin {"lockAccounts", "write"}
  PROVE  \A a \in Accounts : accLock[a] # s
  BY DEF EntryInv, Knows, SeenIsCurrent

\* Arrival and the locking read: nothing is seen of any account yet.
LEMMA UnseenKnows ==
  ASSUME TypeInv, TypeInv', RefundInv, EntryInv, NEW s \in Sessions, NEW v,
         ses' = [ses EXCEPT ![s] = v], UNCHANGED <<txs, entries, accounts, accLock>>,
         ses[s].pc \in {"idle", "readTransaction", "lockTransaction"},
         v.seen = ses[s].seen, v.pc # "write"
  PROVE  EntryInv'
  <1>1. ses'[s] = v
    BY DEF TypeInv, TypeOK
  <1>2. \A a \in Accounts : accLock'[a] # s /\ ses'[s].seen[a].kind = "ABSENT"
    BY <1>1, HoldsNoAccount DEF EntryInv, Knows, SeenIsCurrent
  <1>3. Knows(s)'
    BY <1>1, <1>2 DEF Knows, SeenIsCurrent, PostingDecided, AccountDecided, At
  <1> QED BY <1>3, MoveKnows

LEMMA BeginKnows ==
  ASSUME TypeInv, TypeInv', RefundInv, EntryInv, NEW s \in Sessions, Begin(s)
  PROVE  EntryInv'
  <1>1. ASSUME NEW q, NEW pc, pc # "write", Arrive(s, q, pc) PROVE EntryInv'
    <2> DEFINE v == WithRequest(ses[s], pc, q)
    <2>1. ses' = [ses EXCEPT ![s] = v] /\ UNCHANGED <<txs, entries, accounts, accLock>>
          /\ ses[s].pc = "idle"
      BY <1>1 DEF Arrive, WithRequest, At, database, locks
    <2>2. v.seen = ses[s].seen /\ v.pc = pc
      BY DEF WithRequest, TypeInv, TypeOK, Session
    <2> HIDE DEF v
    <2> QED BY <1>1, <2>1, <2>2, UnseenKnows
  <1>2. CASE BeginCreate(s)
    BY <1>1, <1>2 DEF BeginCreate
  <1>3. CASE BeginRefund(s)
    BY <1>1, <1>3 DEF BeginRefund
  <1>4. CASE BeginUpdate(s)
    BY <1>1, <1>4 DEF BeginUpdate
  <1>5. CASE BeginDelete(s)
    BY <1>1, <1>5 DEF BeginDelete
  <1>6. CASE BeginSummary(s)
    BY <1>1, <1>6 DEF BeginSummary
  <1>7. CASE BeginAccount(s)
    BY <1>1, <1>7 DEF BeginAccount
  <1> QED BY <1>2, <1>3, <1>4, <1>5, <1>6, <1>7 DEF Begin

LEMMA LockTransactionKnows ==
  ASSUME TypeInv, TypeInv', RefundInv, EntryInv, NEW s \in Sessions,
         ReadTransaction(s) \/ LockTransaction(s)
  PROVE  EntryInv'
  <1>1. CASE Reject(s)
    BY <1>1, RejectKnows
  <1>2. CASE ~Reject(s)
    <2> DEFINE v == WithRow(ses[s], "readEntries", txs[Tx(s)])
    <2>1. ses[s] \in Session /\ Tx(s) \in TxIds
          /\ ses[s].pc \in {"readTransaction", "lockTransaction"}
      BY RequestInStep DEF ReadTransaction, LockTransaction, At, OpsAt
    <2>2. v.seen = ses[s].seen /\ v.pc = "readEntries"
      BY <2>1, SetRow DEF TypeInv, TypeOK, Pc
    <2>3. ses' = [ses EXCEPT ![s] = v] /\ UNCHANGED <<txs, entries, accounts, accLock>>
      BY <1>2 DEF ReadTransaction, LockTransaction, WithRow, TypeInv, TypeOK, database, locks
    <2> HIDE DEF v
    <2> QED BY <2>1, <2>2, <2>3, UnseenKnows
  <1> QED BY <1>1, <1>2

\* The validator loads the accounts the row's entries are on.
LEMMA ReadEntriesKnows ==
  ASSUME TypeInv, TypeInv', RefundInv, EntryInv, NEW s \in Sessions, ReadEntries(s)
  PROVE  EntryInv'
  <1>1. CASE Reject(s)
    BY <1>1, RejectKnows
  <1>2. CASE ~Reject(s)
    <2> DEFINE v == WithEntries(ses[s], AfterEntries(s), entries[Tx(s)], Loaded(s))
    <2>1. /\ ses[s] \in Session /\ Op(s) \in OpsAt("readEntries") /\ Tx(s) \in TxIds
          /\ ses[s].pc = "readEntries"
      BY RequestInStep DEF ReadEntries, At, OpsAt
    <2>2. entries[Tx(s)] \in SUBSET Entry /\ Loaded(s) \in [Accounts -> AccountRow]
      BY <2>1, AbsentRowType DEF TypeInv, TypeOK, Loaded
    <2>3. AfterEntries(s) \in {"readRefunds", "lockOriginal"}
      BY <1>2, <2>1 DEF ReadEntries, AfterEntries, OpsAt
    <2>4. v.pc = AfterEntries(s) /\ v.req = ses[s].req /\ v.seen = Loaded(s)
      BY <2>1, <2>2, <2>3, SetEntries DEF Pc
    <2>5. ses' = [ses EXCEPT ![s] = v] /\ UNCHANGED <<txs, entries, accounts, accLock>>
      BY <1>2 DEF ReadEntries, WithEntries, TypeInv, TypeOK, database, locks
    <2>6. /\ Op(s)' = Op(s) /\ Tx(s)' = Tx(s) /\ ses'[s].seen = Loaded(s)
          /\ ses'[s].pc \in {"readRefunds", "lockOriginal"}
      BY <2>3, <2>4, <2>5 DEF Op, Tx, TypeInv, TypeOK
    <2>7. ASSUME NEW a \in Accounts
          PROVE  /\ accLock[a] # s
                 /\ Loaded(s)[a].kind # "ABSENT" =>
                      Uses(entries[Tx(s)], a) /\ Loaded(s)[a].kind = accounts[a].kind
      BY <2>1, HoldsNoAccount DEF Loaded, NoAccount, Uses
    <2>8. SeenIsCurrent(s)'
      BY <2>1, <2>5, <2>6, <2>7 DEF SeenIsCurrent, OpsAt
    <2>9. Knows(s)'
      BY <2>6, <2>8 DEF Knows, PostingDecided, AccountDecided, At
    <2> HIDE DEF v
    <2> QED BY <2>5, <2>9, MoveKnows
  <1> QED BY <1>1, <1>2

\* Counting refunds and locking the original change nothing a session has seen.
LEMMA ReadRefundsKnows ==
  ASSUME TypeInv, TypeInv', RefundInv, EntryInv, NEW s \in Sessions,
         ReadRefunds(s) \/ LockOriginal(s)
  PROVE  EntryInv'
  <1>1. CASE Reject(s)
    BY <1>1, RejectKnows
  <1>2. CASE ~Reject(s)
    <2>1. /\ ses[s] \in Session /\ ses[s].pc \in {"readRefunds", "lockOriginal"}
          /\ Op(s) \in OpsAt(ses[s].pc)
      BY RequestInStep DEF ReadRefunds, LockOriginal, At
    <2>2. PICK v \in Session :
            /\ ses' = [ses EXCEPT ![s] = v] /\ v.seen = ses[s].seen /\ v.req = ses[s].req
            /\ v.pc \in {"respond", "write", "lockAccounts"}
            /\ Op(s) = "update" /\ v.pc = "write" => v.refunded # 0
      <3>1. CASE ReadRefunds(s)
        <4> DEFINE n == RefundedAmount(txs, Tx(s))
                   pc == AfterRefunds(s, n)
        <4>1. n \in Nat
          BY RefundedType DEF TypeInv, TypeOK
        <4>2. /\ pc \in {"respond", "write", "lockAccounts"}
              /\ Op(s) = "update" /\ pc = "write" => n # 0
          BY <1>2, <2>1, <3>1 DEF ReadRefunds, AfterRefunds, OpsAt, At
        <4>3. ses' = [ses EXCEPT ![s] = WithRefunded(ses[s], pc, n)]
          BY <1>2, <3>1 DEF ReadRefunds, WithRefunded, TypeInv, TypeOK
        <4> HIDE DEF n, pc
        <4>4. pc \in Pc
          BY <4>2 DEF Pc
        <4>5. LET y == WithRefunded(ses[s], pc, n)
              IN  /\ y \in Session /\ y.seen = ses[s].seen /\ y.req = ses[s].req
                  /\ y.pc = pc /\ y.refunded = n
          BY <2>1, <4>1, <4>4, SetRefunded
        <4> QED BY <4>2, <4>3, <4>5
      <3>2. CASE LockOriginal(s)
        <4>1. Op(s) = "delete"
          BY <2>1, <3>2 DEF LockOriginal, At, OpsAt
        <4>2. ses' = [ses EXCEPT ![s] = WithPc(ses[s], "write")]
          BY <3>2 DEF LockOriginal, Goto, WithPc, TypeInv, TypeOK
        <4> QED BY <2>1, <4>1, <4>2, SetPc DEF Pc
      <3> QED BY <3>1, <3>2
    <2>3. UNCHANGED <<txs, entries, accounts, accLock>>
      BY <1>2 DEF ReadRefunds, LockOriginal, database, locks
    <2>4. ses'[s] = v /\ Op(s)' = Op(s) /\ Tx(s)' = Tx(s)
      BY <2>2 DEF Op, Tx, TypeInv, TypeOK
    <2>5. SeenIsCurrent(s)'
      BY <2>1, <2>2, <2>3, <2>4, HoldsNoAccount DEF EntryInv, Knows, SeenIsCurrent
    <2>6. Op(s) \in {"summary", "refund", "update", "delete"}
      BY <2>1 DEF OpsAt
    <2>7. Knows(s)'
      BY <2>2, <2>4, <2>5, <2>6 DEF Knows, PostingDecided, AccountDecided, At
    <2> QED BY <2>2, <2>3, <2>7, MoveKnows
  <1> QED BY <1>1, <1>2

\* A locked account is seen as it is, or as it was when its row was in use.
LEMMA LockAccountKnows ==
  ASSUME TypeInv, TypeInv', RefundInv, EntryInv, NEW s \in Sessions, LockAccount(s)
  PROVE  EntryInv'
  <1>1. CASE Reject(s)
    BY <1>1, RejectKnows
  <1>2. CASE ~Reject(s)
    <2>1. /\ ses[s] \in Session /\ Op(s) \in {"create", "update", "account"}
          /\ ses[s].pc = "lockAccounts" /\ ses[s].seen \in [Accounts -> AccountRow]
      BY RequestInStep, SessionFields DEF LockAccount, At, OpsAt
    <2>2. PICK a \in Accounts :
            /\ accLock[a] = NoSession /\ accounts[a].kind # "ABSENT"
            /\ accLock' = [accLock EXCEPT ![a] = s]
            /\ ses' = [ses EXCEPT ![s].seen[a] = IF @.kind = "ABSENT" THEN accounts[a] ELSE @]
      BY <1>2 DEF LockAccount
    <2> DEFINE row == IF ses[s].seen[a].kind = "ABSENT" THEN accounts[a] ELSE ses[s].seen[a]
               f == [ses[s].seen EXCEPT ![a] = row]
    <2>3. row.kind = accounts[a].kind /\ row \in AccountRow
      BY <2>1 DEF EntryInv, Knows, SeenIsCurrent, TypeInv, TypeOK
    <2>4. f \in [Accounts -> AccountRow] /\ f[a] = row /\ \A b \in Accounts \ {a} : f[b] = ses[s].seen[b]
      BY <2>1, <2>3
    <2>5. ses' = [ses EXCEPT ![s] = WithSeen(ses[s], f)]
      BY <2>2 DEF WithSeen, TypeInv, TypeOK
    <2> HIDE DEF f, row
    <2>6. /\ ses'[s].seen = f /\ ses'[s].pc = "lockAccounts" /\ Op(s)' = Op(s) /\ Tx(s)' = Tx(s)
          /\ \A x \in Sessions \ {s} : ses'[x] = ses[x]
      BY <2>1, <2>4, <2>5, SetSeen DEF Op, Tx, TypeInv, TypeOK
    <2>7. UNCHANGED <<txs, entries, accounts>>
      BY <1>2 DEF LockAccount, database
    <2>8. /\ accLock'[a] = s /\ \A b \in Accounts \ {a} : accLock'[b] = accLock[b]
          /\ \A x \in Sessions \ {s} : \A b \in Accounts : accLock'[b] = x <=> accLock[b] = x
      BY <2>2, SessionAssumption DEF TypeInv, TypeOK
    <2>9. SeenIsCurrent(s)'
      <3> SUFFICES ASSUME NEW b \in Accounts
                   PROVE  /\ accLock'[b] = s => f[b].kind # "ABSENT"
                          /\ f[b].kind # "ABSENT" =>
                               /\ f[b].kind = accounts[b].kind
                               /\ accLock'[b] = s
                                    \/ (Op(s) = "update" /\ Uses(entries[Tx(s)], b))
        BY <2>6, <2>7 DEF SeenIsCurrent
      <3>1. CASE b = a
        BY <2>2, <2>3, <2>4, <2>8, <3>1
      <3>2. CASE b # a
        BY <2>1, <2>4, <2>8, <3>2 DEF EntryInv, Knows, SeenIsCurrent
      <3> QED BY <3>1, <3>2
    <2>10. Knows(s)'
      BY <2>6, <2>9 DEF Knows, PostingDecided, AccountDecided, At
    <2> QED BY <2>6, <2>7, <2>8, <2>10, QuietKnows
  <1> QED BY <1>1, <1>2

\* With every account locked, the checks decide from current classifications.
LEMMA CheckKnows ==
  ASSUME TypeInv, TypeInv', RefundInv, EntryInv, NEW s \in Sessions,
         CheckPosting(s) \/ CheckAccountUse(s)
  PROVE  EntryInv'
  <1>1. CASE Reject(s)
    BY <1>1, RejectKnows
  <1>2. CASE ~Reject(s)
    <2> DEFINE v == WithPc(ses[s], "write")
               q == ses[s].req
    <2>1. /\ ses[s] \in Session /\ Op(s) \in {"create", "update", "account"}
          /\ ses[s].pc = "lockAccounts"
          /\ Op(s) \in {"create", "update"} => q.posting \in Posting
          /\ Op(s) = "account" => q.account \in Accounts
      BY RequestInStep DEF CheckPosting, CheckAccountUse, At, OpsAt
    <2>2. v.pc = "write" /\ v.req = q /\ v.seen = ses[s].seen /\ v.refunded = ses[s].refunded
      BY <2>1, SetPc DEF Pc
    <2>3. ses' = [ses EXCEPT ![s] = v] /\ UNCHANGED <<txs, entries, accounts, accLock>>
      BY <1>2 DEF CheckPosting, CheckAccountUse, Goto, WithPc, database, locks, TypeInv, TypeOK
    <2>4. ses'[s] = v /\ Op(s)' = Op(s) /\ Tx(s)' = Tx(s)
      BY <2>2, <2>3 DEF Op, Tx, TypeInv, TypeOK
    <2>5. SeenIsCurrent(s)'
      BY <2>1, <2>2, <2>3, <2>4 DEF EntryInv, Knows, SeenIsCurrent
    <2>6. PostingDecided(s)'
      <3> SUFFICES ASSUME Op(s) \in {"create", "update"}
                   PROVE  /\ \A a \in AccountsOf(q.posting) : accLock[a] = s
                          /\ PostingSupported(q.posting, ses[s].seen)
        BY <2>2, <2>3, <2>4 DEF PostingDecided
      <3>1. CheckPosting(s)
        BY DEF CheckAccountUse
      <3> QED BY <1>2, <3>1 DEF CheckPosting, Missing, Wanted, PostingAllowed
    <2>7. AccountDecided(s)'
      <3> SUFFICES ASSUME Op(s) = "account"
                   PROVE  /\ accLock[q.account] = s
                          /\ \/ q.kind = accounts[q.account].kind
                             \/ ~HasLedgerEntries(entries, q.account)
        BY <2>2, <2>3, <2>4 DEF AccountDecided
      <3>1. CheckAccountUse(s)
        BY DEF CheckPosting
      <3>2. accLock[q.account] = s
        BY <3>1 DEF CheckAccountUse, Missing, Wanted
      <3>3. ses[s].seen[q.account].kind = accounts[q.account].kind
        BY <2>1, <3>2 DEF EntryInv, Knows, SeenIsCurrent
      <3> QED BY <1>2, <3>1, <3>2, <3>3 DEF CheckAccountUse
    <2>8. Knows(s)'
      BY <2>5, <2>6, <2>7 DEF Knows
    <2> HIDE DEF v
    <2> QED BY <2>3, <2>8, MoveKnows
  <1> QED BY <1>1, <1>2

(***************************************************************************)
(* Commits.                                                                *)
(***************************************************************************)
\* A fresh row with the entries it calls for.
LEMMA InsertKnows ==
  ASSUME TypeInv, TypeInv', RefundInv, EntryInv, NEW s \in Sessions, NEW row, NEW es,
         Insert(row, es), Release(s), ValidEntries(row, es, accounts),
         \A a \in Accounts : Uses(es, a) => accLock[a] = s \/ HasLedgerEntries(entries, a)
  PROVE  EntryInv'
  <1>1. PICK id \in TxIds :
          /\ txs[id].status = "ABSENT" /\ txs' = [txs EXCEPT ![id] = row]
          /\ entries' = [entries EXCEPT ![id] = es] /\ accounts' = accounts
    BY DEF Insert
  <1>2. /\ txs'[id] = row /\ entries'[id] = es
        /\ \A t \in TxIds \ {id} : txs'[t] = txs[t] /\ entries'[t] = entries[t]
    BY <1>1 DEF TypeInv, TypeOK
  <1>3. EntrySetsValid'
    BY <1>1, <1>2 DEF EntryInv, EntrySetsValid
  <1>4. \A a \in Accounts : HasLedgerEntries(entries', a) =>
          HasLedgerEntries(entries, a) \/ accLock[a] = s
    BY <1>2 DEF HasLedgerEntries, Uses
  <1>5. \A t \in TxIds : entries'[t] # entries[t] => txs[t].status = "ABSENT" \/ txLock[t] = s
    BY <1>1, <1>2
  <1> QED BY <1>1, <1>3, <1>4, <1>5, CommitKnows

\* What a posting computes from the accounts its session has seen is what the
\* present classifications call for.
LEMMA PostingIsCurrent ==
  ASSUME TypeInv, EntryInv, NEW s \in Sessions, At(s, "write"),
         Op(s) = "create" \/ (Op(s) = "update" /\ ses[s].refunded = 0),
         NEW r, r.type = ses[s].req.posting.type, r.amount = ses[s].req.posting.amount,
         r.adj = "NORMAL", r.reverses = NoTx
  PROVE  LET es == PostingEntries(ses[s].req.posting, ses[s].seen)
         IN  /\ ValidEntries(r, es, accounts)
             /\ \A a \in Accounts : Uses(es, a) => accLock[a] = s
  <1> DEFINE p == ses[s].req.posting
  <1>1. p \in Posting /\ AccountsOf(p) \subseteq Accounts
    BY RequestInStep DEF AccountsOf, Posting
  <1>2. /\ \A a \in AccountsOf(p) : accLock[a] = s
        /\ PostingSupported(p, ses[s].seen)
    BY DEF EntryInv, Knows, PostingDecided
  <1>3. \A a \in AccountsOf(p) : ses[s].seen[a].kind = accounts[a].kind
    BY <1>1, <1>2 DEF EntryInv, Knows, SeenIsCurrent
  <1> HIDE DEF p
  <1>4. /\ PostingEntries(p, ses[s].seen) = PostingEntries(p, accounts)
        /\ PostingSupported(p, accounts)
    BY <1>2, <1>3, PostingAgrees
  <1>5. r.type = p.type /\ r.amount = p.amount
    BY DEF p
  <1>6. ValidEntries(r, PostingEntries(p, accounts), accounts)
    BY <1>1, <1>4, <1>5, PostingValid
  <1>7. \A a \in Accounts : Uses(PostingEntries(p, ses[s].seen), a) => accLock[a] = s
    BY <1>2, PostingUses
  <1> QED BY <1>4, <1>6, <1>7 DEF p

LEMMA CommitCreateKnows ==
  ASSUME TypeInv, TypeInv', RefundInv, EntryInv, NEW s \in Sessions, CommitCreate(s)
  PROVE  EntryInv'
  <1> DEFINE p == ses[s].req.posting
             row == NewRow(p.type, p.amount, p.note, ses[s].req.actor, "NORMAL", NoTx)
             es == PostingEntries(p, ses[s].seen)
  <1>1. Insert(row, es) /\ Release(s) /\ At(s, "write") /\ Op(s) = "create"
    BY DEF CommitCreate
  <1>2. row.type = p.type /\ row.amount = p.amount /\ row.adj = "NORMAL" /\ row.reverses = NoTx
    BY DEF NewRow
  <1> HIDE DEF row
  <1>3. /\ ValidEntries(row, es, accounts)
        /\ \A a \in Accounts : Uses(es, a) => accLock[a] = s
    BY <1>1, <1>2, PostingIsCurrent
  <1> QED BY <1>1, <1>3, InsertKnows

LEMMA CommitRefundKnows ==
  ASSUME TypeInv, TypeInv', RefundInv, EntryInv, NEW s \in Sessions, CommitRefund(s)
  PROVE  EntryInv'
  <1> DEFINE q == ses[s].req
             e == CHOOSE e \in ses[s].old : TRUE
             es == {PrimaryEntry(e.account, IF e.delta > 0 THEN -q.amount ELSE q.amount)}
             row == NewRow("EXPENSE", q.amount, q.note, q.actor, "REFUND", q.tx)
  <1>1. /\ q.tx \in TxIds /\ q.amount \in Amounts /\ At(s, "write") /\ Op(s) = "refund"
        /\ Tx(s) = q.tx
    BY RequestInStep DEF CommitRefund, Tx
  <1>2. /\ row.type = "EXPENSE" /\ row.adj = "REFUND" /\ row.amount = q.amount
        /\ row.reverses = q.tx /\ row.reverses # NoTx
    BY <1>1, TxIdsAssumption DEF NewRow, NoTx
  <1>3. ses[s].row = txs[q.tx] /\ txs[q.tx].status = "ACTIVE" /\ txs[q.tx] \in Row
    BY <1>1 DEF RefundInv, HoldsRow, At, TypeInv, TypeOK
  <1>4. /\ Refundable(txs[q.tx]) /\ ses[s].old = entries[q.tx]
        /\ \E f \in ses[s].old : ses[s].old = {f}
    BY <1>1, <1>3 DEF RefundInv, Decided, RefundDecided, At
  <1>5. entries[q.tx] = {e}
    BY <1>4
  <1>6. ValidEntries(txs[q.tx], {e}, accounts)
    BY <1>1, <1>3, <1>5 DEF EntryInv, EntrySetsValid
  <1>7. Insert(row, es) /\ Release(s)
    BY DEF CommitRefund
  <1> HIDE DEF row, e
  <1>8. ValidEntries(row, {PrimaryEntry(e.account, IF e.delta > 0 THEN -row.amount ELSE row.amount)},
                     accounts)
    BY <1>1, <1>2, <1>3, <1>4, <1>6, RefundValid
  <1>9. \A a \in Accounts : Uses(es, a) => HasLedgerEntries(entries, a)
    BY <1>1, <1>5 DEF Uses, PrimaryEntry, HasLedgerEntries
  <1> QED BY <1>2, <1>7, <1>8, <1>9, InsertKnows

\* An update of a NORMAL row replaces its entries.
LEMMA CommitUpdateKnows ==
  ASSUME TypeInv, TypeInv', RefundInv, EntryInv, NEW s \in Sessions, CommitUpdate(s)
  PROVE  EntryInv'
  <1> DEFINE t == Tx(s)
             p == ses[s].req.posting
             new == [ses[s].row EXCEPT !.type = p.type, !.amount = p.amount,
                                       !.note = p.note, !.by = ses[s].req.actor]
             es == PostingEntries(p, ses[s].seen)
  <1>1. /\ At(s, "write") /\ Op(s) = "update" /\ ses[s].refunded = 0 /\ t \in TxIds
        /\ p \in Posting /\ ses[s].req.actor \in Members /\ Release(s)
        /\ entries' = [entries EXCEPT ![t] = es] /\ accounts' = accounts
    BY RequestInStep DEF CommitUpdate
  <1>2. /\ ses[s].row = txs[t] /\ txs[t].status = "ACTIVE" /\ txs[t] \in Row /\ txLock[t] = s
        /\ txs[t].adj = "NORMAL"
    BY <1>1 DEF RefundInv, HoldsRow, Decided, UpdateDecided, At, TypeInv, TypeOK
  <1>3. txs[t].reverses = NoTx
    BY <1>1, <1>2 DEF EntryInv, EntrySetsValid, ValidEntries
  <1>4. new \in Row /\ SaveRow(s, new)
    BY <1>1, <1>2, EditedType DEF CommitUpdate
  <1>5. new.type = p.type /\ new.amount = p.amount /\ new.adj = "NORMAL" /\ new.reverses = NoTx
    BY <1>2, <1>3 DEF Row
  <1> HIDE DEF new
  <1>6. PICK v \in Nat : txs' = [txs EXCEPT ![t] = [new EXCEPT !.version = v]]
    BY <1>1, <1>2, <1>4, SavedFields
  <1> DEFINE u == [new EXCEPT !.version = v]
  <1>7. u.type = p.type /\ u.amount = p.amount /\ u.adj = "NORMAL" /\ u.reverses = NoTx
    BY <1>4, <1>5 DEF Row
  <1>8. /\ txs'[t] = u /\ entries'[t] = es
        /\ \A x \in TxIds \ {t} : txs'[x] = txs[x] /\ entries'[x] = entries[x]
    BY <1>1, <1>6 DEF TypeInv, TypeOK
  <1> HIDE DEF u
  <1>9. /\ ValidEntries(u, es, accounts)
        /\ \A a \in Accounts : Uses(es, a) => accLock[a] = s
    BY <1>1, <1>7, PostingIsCurrent
  <1> HIDE DEF es
  <1>10. EntrySetsValid'
    BY <1>1, <1>8, <1>9 DEF EntryInv, EntrySetsValid
  <1>11. \A a \in Accounts : HasLedgerEntries(entries', a) =>
           HasLedgerEntries(entries, a) \/ accLock[a] = s
    BY <1>8, <1>9 DEF HasLedgerEntries, Uses
  <1> QED BY <1>1, <1>2, <1>8, <1>10, <1>11, CommitKnows

\* A memo or a deletion leaves what the entries were computed from.
LEMMA CommitTouchKnows ==
  ASSUME TypeInv, TypeInv', RefundInv, EntryInv, NEW s \in Sessions,
         CommitTouch(s) \/ CommitDelete(s)
  PROVE  EntryInv'
  <1> DEFINE t == Tx(s)
             q == ses[s].req
  <1>1. /\ At(s, "write") /\ Op(s) \in {"update", "delete"} /\ t \in TxIds
        /\ q.actor \in Members /\ (Op(s) = "update" => q.posting \in Posting) /\ Release(s)
        /\ entries' = entries /\ accounts' = accounts
    BY RequestInStep DEF CommitTouch, CommitDelete
  <1>2. ses[s].row = txs[t] /\ txs[t].status = "ACTIVE" /\ txs[t] \in Row
    BY <1>1 DEF RefundInv, HoldsRow, At, TypeInv, TypeOK
  <1>3. PICK new \in Row :
          /\ SaveRow(s, new) /\ new.type = txs[t].type /\ new.amount = txs[t].amount
          /\ new.adj = txs[t].adj /\ new.reverses = txs[t].reverses
    <2>1. CASE CommitTouch(s)
      <3> DEFINE new == [ses[s].row EXCEPT !.note = q.posting.note, !.by = q.actor]
      <3>1. new \in Row /\ SaveRow(s, new)
        BY <1>1, <1>2, <2>1, EditedType DEF CommitTouch
      <3>2. /\ new.type = txs[t].type /\ new.amount = txs[t].amount /\ new.adj = txs[t].adj
            /\ new.reverses = txs[t].reverses
        BY <1>2 DEF Row
      <3> HIDE DEF new
      <3> QED BY <3>1, <3>2
    <2>2. CASE CommitDelete(s)
      <3> DEFINE new == [ses[s].row EXCEPT !.status = "DELETED", !.by = q.actor]
      <3>1. new \in Row /\ SaveRow(s, new)
        BY <1>1, <1>2, <2>2 DEF CommitDelete, Row
      <3>2. /\ new.type = txs[t].type /\ new.amount = txs[t].amount /\ new.adj = txs[t].adj
            /\ new.reverses = txs[t].reverses
        BY <1>2 DEF Row
      <3> HIDE DEF new
      <3> QED BY <3>1, <3>2
    <2> QED BY <2>1, <2>2
  <1>4. PICK v \in Nat : txs' = [txs EXCEPT ![t] = [new EXCEPT !.version = v]]
    BY <1>1, <1>2, <1>3, SavedFields
  <1> DEFINE u == [new EXCEPT !.version = v]
  <1>5. /\ u.type = txs[t].type /\ u.amount = txs[t].amount /\ u.adj = txs[t].adj
        /\ u.reverses = txs[t].reverses
    BY <1>3 DEF Row
  <1>6. txs'[t] = u /\ \A x \in TxIds \ {t} : txs'[x] = txs[x]
    BY <1>1, <1>4 DEF TypeInv, TypeOK
  <1> HIDE DEF u
  <1>7. ValidEntries(txs[t], entries[t], accounts)
    BY <1>1, <1>2 DEF EntryInv, EntrySetsValid
  <1>8. ValidEntries(u, entries[t], accounts)
    BY <1>5, <1>7, ValidStays
  <1>9. EntrySetsValid'
    BY <1>1, <1>6, <1>8 DEF EntryInv, EntrySetsValid
  <1> QED BY <1>1, <1>9, CommitKnows

\* A classification changes for an account without entries only.
LEMMA CommitAccountKnows ==
  ASSUME TypeInv, TypeInv', RefundInv, EntryInv, NEW s \in Sessions, CommitAccount(s)
  PROVE  EntryInv'
  <1> DEFINE q == ses[s].req
             c == q.account
  <1>1. /\ At(s, "write") /\ Op(s) = "account" /\ c \in Accounts /\ Release(s)
        /\ accounts' = [accounts EXCEPT ![c] = [kind |-> q.kind, archived |-> q.archived]]
        /\ txs' = txs /\ entries' = entries
    BY RequestInStep DEF CommitAccount
  <1>2. accLock[c] = s /\ (q.kind = accounts[c].kind \/ ~HasLedgerEntries(entries, c))
    BY <1>1 DEF EntryInv, Knows, AccountDecided
  <1>3. \A a \in Accounts : accounts'[a].kind # accounts[a].kind =>
          a = c /\ ~HasLedgerEntries(entries, c)
    BY <1>1, <1>2 DEF TypeInv, TypeOK
  <1>4. ASSUME NEW t \in TxIds, txs[t].status # "ABSENT"
        PROVE  ValidEntries(txs[t], entries[t], accounts')
    <2>1. ValidEntries(txs[t], entries[t], accounts)
      BY <1>4 DEF EntryInv, EntrySetsValid
    <2>2. \A a \in Accounts : Uses(entries[t], a) => accounts'[a].kind = accounts[a].kind
      BY <1>3 DEF Uses, HasLedgerEntries
    <2> QED BY <2>1, <2>2, ValidStays
  <1>5. EntrySetsValid'
    BY <1>1, <1>4 DEF EntrySetsValid
  <1> QED BY <1>1, <1>2, <1>3, <1>5, CommitKnows

\* Opening an account disturbs no entry: none was on it.
LEMMA OpenKnows ==
  ASSUME TypeInv, TypeInv', RefundInv, EntryInv, NEW c \in Accounts, OpenAccount(c)
  PROVE  EntryInv'
  <1>1. /\ accounts[c].kind = "ABSENT" /\ txs' = txs /\ entries' = entries
        /\ accLock' = accLock /\ ses' = ses
        /\ \A a \in Accounts \ {c} : accounts'[a] = accounts[a]
    BY DEF OpenAccount, locks, TypeInv, TypeOK
  <1>2. ASSUME NEW t \in TxIds, txs[t].status # "ABSENT"
        PROVE  ValidEntries(txs[t], entries[t], accounts')
    <2>1. ValidEntries(txs[t], entries[t], accounts)
      BY <1>2 DEF EntryInv, EntrySetsValid
    <2>2. \A a \in Accounts : Uses(entries[t], a) => accounts'[a].kind = accounts[a].kind
      BY <1>1, <2>1, ValidUsesOpen DEF Uses
    <2> QED BY <2>1, <2>2, ValidStays
  <1>3. EntrySetsValid'
    BY <1>1, <1>2 DEF EntrySetsValid
  <1>4. ASSUME NEW x \in Sessions PROVE Knows(x)'
    <2>1. HoldsRow(x) /\ Knows(x)
      BY DEF RefundInv, EntryInv
    <2> QED BY <1>1, <2>1, KnowsFrame
  <1> QED BY <1>3, <1>4 DEF EntryInv

(***************************************************************************)
(* The invariant.                                                          *)
(***************************************************************************)
LEMMA EntryInvInit == Init => EntryInv
  <1> SUFFICES ASSUME Init PROVE EntryInv
    OBVIOUS
  <1>1. EntrySetsValid
    BY DEF Init, EntrySetsValid, AbsentRow
  <1>2. ASSUME NEW s \in Sessions PROVE Knows(s)
    <2>1. Op(s) = "none" /\ \A a \in Accounts : accLock[a] # s /\ ses[s].seen[a].kind = "ABSENT"
      BY SessionAssumption DEF Init, Idle, NoAccount, Op
    <2> QED BY <2>1 DEF Knows, SeenIsCurrent, PostingDecided, AccountDecided
  <1> QED BY <1>1, <1>2 DEF EntryInv

LEMMA EntryInvStep ==
  ASSUME TypeInv, TypeInv', RefundInv, EntryInv, [Next]_vars
  PROVE  EntryInv'
  <1>1. ASSUME NEW s \in Sessions, Begin(s) PROVE EntryInv'
    BY <1>1, BeginKnows
  <1>2. ASSUME NEW s \in Sessions, Lock(s) PROVE EntryInv'
    BY <1>2, LockTransactionKnows, ReadRefundsKnows, LockAccountKnows DEF Lock
  <1>3. ASSUME NEW s \in Sessions, Respond(s) \/ Rollback(s) PROVE EntryInv'
    BY <1>3, RejectKnows DEF Respond, Rollback
  <1>4. ASSUME NEW s \in Sessions, Commit(s) PROVE EntryInv'
    BY <1>4, CommitCreateKnows, CommitRefundKnows, CommitUpdateKnows, CommitTouchKnows,
       CommitAccountKnows DEF Commit
  <1>5. ASSUME NEW s \in Sessions, Work(s) PROVE EntryInv'
    BY <1>3, <1>4, <1>5, LockTransactionKnows, ReadEntriesKnows, ReadRefundsKnows, CheckKnows
       DEF Work
  <1>6. CASE UNCHANGED vars
    <2>1. EntrySetsValid'
      BY <1>6 DEF vars, EntryInv, EntrySetsValid
    <2>2. ASSUME NEW x \in Sessions PROVE Knows(x)'
      <3>1. HoldsRow(x) /\ Knows(x)
        BY DEF RefundInv, EntryInv
      <3>2. UNCHANGED <<entries, accounts, accLock, ses>>
        BY <1>6 DEF vars
      <3> QED BY <3>1, <3>2, KnowsFrame
    <2> QED BY <2>1, <2>2 DEF EntryInv
  <1> QED BY <1>1, <1>2, <1>5, <1>3, <1>6, OpenKnows DEF Next

LEMMA EntryInvariant == Spec => [](TypeInv /\ RefundInv /\ EntryInv)
  <1>1. Init => EntryInv
    BY EntryInvInit
  <1>2. TypeInv /\ TypeInv' /\ RefundInv /\ EntryInv /\ [Next]_vars => EntryInv'
    BY EntryInvStep
  <1> QED BY <1>1, <1>2, RefundInvariant, PTL DEF Spec

\* Whatever is posted, edited, refunded and reclassified at once, the entries of
\* every stored transaction are those it calls for under the accounts of now.
THEOREM EntriesMatch == Spec => []EntrySetsValid
  <1>1. TypeInv /\ RefundInv /\ EntryInv => EntrySetsValid
    BY DEF EntryInv
  <1> QED BY <1>1, EntryInvariant, PTL

(***************************************************************************)
(* Net worth.                                                              *)
(***************************************************************************)
LEMMA ValidTransferIsNeutral ==
  ASSUME NEW r \in Row, NEW es, ValidTransfer(r, es, accounts)
  PROVE  \E e, f \in es : es = {e, f} /\ e # f /\ Worth(e) + Worth(f) = 0
  <1>1. PICK from \in Accounts, to \in Accounts :
          /\ from # to /\ accounts[from].kind = "ASSET"
          /\ es = TransferEntries(from, to, r.amount, accounts[to].kind)
    BY DEF ValidTransfer
  <1>2. r.amount \in Int
    BY MaxAmountAssumption DEF Row, Amounts
  <1> DEFINE e == [account |-> from, role |-> "SOURCE", delta |-> -r.amount]
             f == [account |-> to, role |-> "DESTINATION",
                   delta |-> IF accounts[to].kind = "ASSET" THEN r.amount ELSE -r.amount]
  <1>3. es = {e, f}
    BY <1>1 DEF TransferEntries
  <1>4. e # f
    BY <1>1
  <1>5. Worth(e) = -r.amount
    BY <1>1 DEF Worth
  <1>6. Worth(f) = r.amount
    BY <1>2 DEF Worth
  <1> HIDE DEF e, f
  <1> QED BY <1>2, <1>3, <1>4, <1>5, <1>6

LEMMA ValidPrimaryFollows ==
  ASSUME NEW r \in Row, NEW es, ValidPrimary(r, es, accounts),
         r.adj = "REFUND" => r.type = "EXPENSE"
  PROVE  \E e \in es : es = {e} /\ Worth(e) = (IF r.type = "INCOME" \/ r.adj = "REFUND"
                                                THEN r.amount ELSE -r.amount)
  <1> DEFINE D(a) == PrimaryDelta(r.type, accounts[a].kind, r.amount)
             E(a) == PrimaryEntry(a, IF r.adj = "REFUND" THEN -D(a) ELSE D(a))
  <1>1. PICK a \in Accounts : PrimarySupported(r.type, accounts[a].kind) /\ es = {E(a)}
    BY DEF ValidPrimary
  <1>2. r.amount \in Int
    BY MaxAmountAssumption DEF Row, Amounts
  <1>3. Worth(E(a)) = IF r.type = "INCOME" \/ r.adj = "REFUND" THEN r.amount ELSE -r.amount
    <2>1. CASE accounts[a].kind = "ASSET"
      BY <1>1, <1>2, <2>1 DEF Worth, PrimaryEntry, PrimaryDelta, PrimarySupported
    <2>2. CASE accounts[a].kind # "ASSET"
      BY <1>1, <1>2, <2>2 DEF Worth, PrimaryEntry, PrimaryDelta, PrimarySupported
    <2> QED BY <2>1, <2>2
  <1> HIDE DEF E
  <1> QED BY <1>1, <1>3

\* Income raises net worth by its amount, spending lowers it on a card and on a
\* bank account alike, a refund raises it and a transfer leaves it, at all times.
THEOREM NetWorthFollows == Spec => []NetWorthFollowsSpending
  <1>1. ASSUME TypeInv, EntrySetsValid PROVE NetWorthFollowsSpending
    <2>1. ASSUME NEW t \in TxIds, txs[t].status = "ACTIVE"
          PROVE  LET gains == txs[t].type = "INCOME" \/ txs[t].adj = "REFUND"
                 IN  IF txs[t].type = "TRANSFER"
                     THEN \E e, f \in entries[t] :
                            entries[t] = {e, f} /\ e # f /\ Worth(e) + Worth(f) = 0
                     ELSE \E e \in entries[t] :
                            entries[t] = {e}
                              /\ Worth(e) = (IF gains THEN txs[t].amount ELSE -txs[t].amount)
      <3>1. txs[t] \in Row /\ ValidEntries(txs[t], entries[t], accounts)
        BY <1>1, <2>1 DEF TypeInv, TypeOK, EntrySetsValid
      <3>2. CASE txs[t].type = "TRANSFER"
        BY <3>1, <3>2, ValidTransferIsNeutral DEF ValidEntries
      <3>3. CASE txs[t].type # "TRANSFER"
        BY <3>1, <3>3, ValidPrimaryFollows DEF ValidEntries
      <3> QED BY <3>2, <3>3
    <2> QED BY <2>1 DEF NetWorthFollowsSpending
  <1>2. TypeInv /\ RefundInv /\ EntryInv => NetWorthFollowsSpending
    BY <1>1 DEF EntryInv
  <1> QED BY <1>2, EntryInvariant, PTL

(***************************************************************************)
(* The version of an edited row.                                           *)
(***************************************************************************)
\* Versions only grow, so a row at the version a client was shown is the row it
\* was shown; past its locking read an edit has found exactly that version.
Shows(s) ==
  Op(s) \in {"update", "delete"} =>
    LET b == ses[s].req.base.row
        r == txs[Tx(s)]
    IN  /\ r.status # "ABSENT" /\ b.version <= r.version
        /\ b.version = r.version => b = r
        /\ ~At(s, "lockTransaction") => b.version = r.version

VersionInv == \A s \in Sessions : Shows(s)

\* A row that changes moves its version on, and only its holder changes it.
LEMMA ShowsFrame ==
  ASSUME TypeInv, TypeInv', NEW x \in Sessions, HoldsRow(x), Shows(x), ses'[x] = ses[x],
         \A t \in TxIds : txs[t].status # "ABSENT" /\ txs'[t] # txs[t] =>
           /\ txs'[t].status # "ABSENT" /\ txs'[t].version = txs[t].version + 1
           /\ txLock[t] # x
  PROVE  Shows(x)'
  <1>1. Op(x)' = Op(x) /\ Tx(x)' = Tx(x) /\ \A pc : At(x, pc)' = At(x, pc)
    BY DEF Op, Tx, At
  <1> SUFFICES ASSUME Op(x) \in {"update", "delete"}
               PROVE  LET b == ses[x].req.base.row
                          r == txs'[Tx(x)]
                      IN  /\ r.status # "ABSENT" /\ b.version <= r.version
                          /\ b.version = r.version => b = r
                          /\ ~At(x, "lockTransaction") => b.version = r.version
    BY <1>1 DEF Shows
  <1> DEFINE b == ses[x].req.base.row
             t == Tx(x)
  <1>2. t \in TxIds /\ ses[x].req \in Request
    BY RequestInStep, SessionFields
  <1>3. b \in Row /\ txs[t] \in Row
    BY <1>2, RequestFields DEF Op, Base, TypeInv, TypeOK
  <1>4. b.version \in Nat /\ txs[t].version \in Nat
    BY <1>3 DEF Row
  <1>5. /\ txs[t].status # "ABSENT" /\ b.version <= txs[t].version
        /\ b.version = txs[t].version => b = txs[t]
        /\ ~At(x, "lockTransaction") => b.version = txs[t].version
    BY DEF Shows
  <1>6. CASE txs'[t] = txs[t]
    BY <1>5, <1>6
  <1>7. CASE txs'[t] # txs[t]
    <2>1. At(x, "lockTransaction")
      BY <1>2, <1>5, <1>7 DEF HoldsRow
    <2>2. txs'[t].status # "ABSENT" /\ txs'[t].version = txs[t].version + 1
      BY <1>2, <1>5, <1>7
    <2> QED BY <1>4, <1>5, <2>1, <2>2
  <1> QED BY <1>6, <1>7

\* A commit of an edit that changes its row counts the version up.
LEMMA EditMovesVersion ==
  ASSUME TypeInv, RefundInv, NEW s \in Sessions,
         CommitUpdate(s) \/ CommitTouch(s) \/ CommitDelete(s)
  PROVE  /\ Op(s) \in {"update", "delete"} /\ At(s, "write") /\ ses'[s] = Idle
         /\ Tx(s) \in TxIds /\ txLock[Tx(s)] = s
         /\ \A t \in TxIds : txs'[t] # txs[t] =>
              /\ t = Tx(s) /\ txs'[t].status # "ABSENT"
              /\ txs'[t].version = txs[t].version + 1
  <1> DEFINE o == Tx(s)
             q == ses[s].req
  <1>1. /\ Op(s) \in {"update", "delete"} /\ At(s, "write") /\ o \in TxIds /\ Release(s)
        /\ q.actor \in Members /\ (Op(s) = "update" => q.posting \in Posting)
    BY RequestInStep DEF CommitUpdate, CommitTouch, CommitDelete
  <1>2. ses[s].row = txs[o] /\ txs[o].status = "ACTIVE" /\ txs[o] \in Row /\ txLock[o] = s
    BY <1>1 DEF RefundInv, HoldsRow, At, TypeInv, TypeOK
  <1>3. ses'[s] = Idle
    BY <1>1, ReleaseFrees
  <1>4. PICK new \in Row : SaveRow(s, new) /\ new.status # "ABSENT"
    <2>1. CASE CommitUpdate(s)
      <3> DEFINE new == [ses[s].row EXCEPT !.type = q.posting.type, !.amount = q.posting.amount,
                                           !.note = q.posting.note, !.by = q.actor]
      <3>1. new \in Row /\ SaveRow(s, new)
        BY <1>1, <1>2, <2>1, EditedType DEF CommitUpdate
      <3>2. new.status # "ABSENT"
        BY <1>2 DEF Row
      <3> HIDE DEF new
      <3> QED BY <3>1, <3>2
    <2>2. CASE CommitTouch(s)
      <3> DEFINE new == [ses[s].row EXCEPT !.note = q.posting.note, !.by = q.actor]
      <3>1. new \in Row /\ SaveRow(s, new)
        BY <1>1, <1>2, <2>2, EditedType DEF CommitTouch
      <3>2. new.status # "ABSENT"
        BY <1>2 DEF Row
      <3> HIDE DEF new
      <3> QED BY <3>1, <3>2
    <2>3. CASE CommitDelete(s)
      <3> DEFINE new == [ses[s].row EXCEPT !.status = "DELETED", !.by = q.actor]
      <3>1. new \in Row /\ SaveRow(s, new) /\ new.status # "ABSENT"
        BY <1>1, <1>2, <2>3 DEF CommitDelete, Row
      <3> HIDE DEF new
      <3> QED BY <3>1
    <2> QED BY <1>1, <2>1, <2>2, <2>3
  <1>5. CASE new = txs[o]
    BY <1>1, <1>2, <1>3, <1>4, <1>5 DEF SaveRow, TypeInv, TypeOK
  <1>6. CASE new # txs[o]
    <2> DEFINE u == [new EXCEPT !.version = txs[o].version + 1]
    <2>1. txs' = [txs EXCEPT ![o] = u]
      BY <1>2, <1>4, <1>6 DEF SaveRow, Saved
    <2>2. u.status # "ABSENT" /\ u.version = txs[o].version + 1
      BY <1>4 DEF Row
    <2> HIDE DEF u
    <2>3. \A t \in TxIds : txs'[t] # txs[t] => t = o /\ txs'[t] = u
      BY <1>1, <2>1 DEF TypeInv, TypeOK
    <2> QED BY <1>1, <1>2, <1>3, <2>2, <2>3
  <1> QED BY <1>5, <1>6

\* What any step may do to the rows.
LEMMA RowsMove ==
  ASSUME TypeInv, RefundInv, [Next]_vars, NEW t \in TxIds,
         txs[t].status # "ABSENT", txs'[t] # txs[t]
  PROVE  /\ txs'[t].status # "ABSENT" /\ txs'[t].version = txs[t].version + 1
         /\ \E s \in Sessions : Edits(s, t) /\ txLock[t] = s
  <1>1. PICK s \in Sessions :
          \/ CommitCreate(s) \/ CommitRefund(s)
          \/ CommitUpdate(s) \/ CommitTouch(s) \/ CommitDelete(s)
    BY TablesWritten
  <1>2. ~(CommitCreate(s) \/ CommitRefund(s))
    BY DEF CommitCreate, CommitRefund, Insert, TypeInv, TypeOK
  <1> QED BY <1>1, <1>2, EditMovesVersion DEF Edits

\* Whoever does not move keeps what its client was shown.
LEMMA ShowsStays ==
  ASSUME TypeInv, TypeInv', RefundInv, VersionInv, [Next]_vars,
         NEW x \in Sessions, ses'[x] = ses[x]
  PROVE  Shows(x)'
  <1>1. HoldsRow(x) /\ Shows(x)
    BY DEF RefundInv, VersionInv
  <1>2. ASSUME NEW t \in TxIds, txs[t].status # "ABSENT", txs'[t] # txs[t]
        PROVE  /\ txs'[t].status # "ABSENT" /\ txs'[t].version = txs[t].version + 1
               /\ txLock[t] # x
    <2>1. PICK s \in Sessions : Edits(s, t) /\ txLock[t] = s
      BY <1>2, RowsMove
    <2>2. s # x
      BY <2>1 DEF Edits, At, Idle
    <2> QED BY <1>2, <2>1, <2>2, RowsMove
  <1> QED BY <1>1, <1>2, ShowsFrame

\* A session that ends, or one past its locking read that goes on.
LEMMA ShowsOn ==
  ASSUME NEW s \in Sessions, Shows(s), ses'[s].req = ses[s].req, UNCHANGED txs,
         At(s, "lockTransaction") => At(s, "lockTransaction")' \/ ~Stale(s)
  PROVE  Shows(s)'
  <1>1. Op(s)' = Op(s) /\ Tx(s)' = Tx(s)
    BY DEF Op, Tx
  <1> QED BY <1>1 DEF Shows, Stale, At

LEMMA VersionInvStep ==
  ASSUME TypeInv, TypeInv', RefundInv, VersionInv, [Next]_vars
  PROVE  VersionInv'
  <1> SUFFICES ASSUME NEW x \in Sessions PROVE Shows(x)'
    BY DEF VersionInv
  <1>1. CASE ses'[x] = ses[x]
    BY <1>1, ShowsStays
  <1>2. CASE ses'[x] = Idle
    BY <1>2 DEF Shows, Op, Idle
  <1>3. ASSUME NEW s \in Sessions, NEW v, ses' = [ses EXCEPT ![s] = v], UNCHANGED txs,
               v.req = ses[s].req, At(s, "lockTransaction") => ~Stale(s)
        PROVE  Shows(x)'
    <2>1. CASE x # s
      BY <1>1, <1>3, <2>1 DEF TypeInv, TypeOK
    <2>2. CASE x = s
      BY <1>3, <2>2, ShowsOn DEF VersionInv, TypeInv, TypeOK
    <2> QED BY <2>1, <2>2
  <1>4. ASSUME NEW s \in Sessions, Release(s) PROVE Shows(x)'
    BY <1>1, <1>2, <1>4, ReleaseFrees
  <1>5. ASSUME NEW s \in Sessions, NEW q, NEW pc, Arrive(s, q, pc),
               q.op \in {"update", "delete"} =>
                 /\ q.tx \in TxIds /\ q.base = Shown(q.tx) /\ txs[q.tx].status # "ABSENT"
                 /\ pc = "lockTransaction"
        PROVE  Shows(x)'
    <2> DEFINE v == WithRequest(ses[s], pc, q)
    <2>1. ses' = [ses EXCEPT ![s] = v] /\ UNCHANGED txs
      BY <1>5 DEF Arrive, WithRequest, database
    <2>2. v.pc = pc /\ v.req = q
      BY DEF WithRequest, TypeInv, TypeOK, Session
    <2> HIDE DEF v
    <2>3. CASE x # s
      BY <1>1, <2>1, <2>3 DEF TypeInv, TypeOK
    <2>4. CASE x = s
      <3>1. Op(x)' = q.op /\ Tx(x)' = q.tx /\ ses'[x].pc = pc /\ ses'[x].req = q
        BY <2>1, <2>2, <2>4 DEF Op, Tx, TypeInv, TypeOK
      <3>2. q.op \in {"update", "delete"} =>
              q.base.row = txs[q.tx] /\ txs[q.tx].version <= txs[q.tx].version
        BY <1>5 DEF Shown, TypeInv, TypeOK, Row
      <3> QED BY <1>5, <2>1, <3>1, <3>2 DEF Shows, At
    <2> QED BY <2>3, <2>4
  <1>6. ASSUME NEW s \in Sessions, Begin(s) PROVE Shows(x)'
    <2>1. CASE BeginCreate(s)
      BY <1>5, <2>1 DEF BeginCreate
    <2>2. CASE BeginRefund(s)
      BY <1>5, <2>2 DEF BeginRefund
    <2>3. CASE BeginUpdate(s)
      BY <1>5, <2>3 DEF BeginUpdate, Editable
    <2>4. CASE BeginDelete(s)
      BY <1>5, <2>4 DEF BeginDelete, Editable
    <2>5. CASE BeginSummary(s)
      BY <1>5, <2>5 DEF BeginSummary
    <2>6. CASE BeginAccount(s)
      BY <1>5, <2>6 DEF BeginAccount
    <2> QED BY <1>6, <2>1, <2>2, <2>3, <2>4, <2>5, <2>6 DEF Begin
  <1>7. ASSUME NEW s \in Sessions, ReadTransaction(s) \/ LockTransaction(s), ~Reject(s)
        PROVE  Shows(x)'
    <2> DEFINE v == WithRow(ses[s], "readEntries", txs[Tx(s)])
    <2>1. ses' = [ses EXCEPT ![s] = v] /\ UNCHANGED txs
      BY <1>7 DEF ReadTransaction, LockTransaction, WithRow, TypeInv, TypeOK, database
    <2>2. v.req = ses[s].req
      BY DEF WithRow, TypeInv, TypeOK, Session
    <2>3. At(s, "lockTransaction") => ~Stale(s)
      BY <1>7 DEF ReadTransaction, LockTransaction, At
    <2> HIDE DEF v
    <2> QED BY <1>3, <2>1, <2>2, <2>3
  <1>8. ASSUME NEW s \in Sessions, ReadEntries(s) \/ ReadRefunds(s), ~Reject(s)
        PROVE  Shows(x)'
    <2>1. PICK v : ses' = [ses EXCEPT ![s] = v] /\ v.req = ses[s].req
      <3>1. CASE ReadEntries(s)
        <4> DEFINE v == WithEntries(ses[s], AfterEntries(s), entries[Tx(s)], Loaded(s))
        <4>1. ses' = [ses EXCEPT ![s] = v]
          BY <1>8, <3>1 DEF ReadEntries, WithEntries, TypeInv, TypeOK
        <4>2. v.req = ses[s].req
          BY DEF WithEntries, TypeInv, TypeOK, Session
        <4> HIDE DEF v
        <4> QED BY <4>1, <4>2
      <3>2. CASE ReadRefunds(s)
        <4> DEFINE n == RefundedAmount(txs, Tx(s))
                   v == WithRefunded(ses[s], AfterRefunds(s, n), n)
        <4>1. ses' = [ses EXCEPT ![s] = v]
          BY <1>8, <3>2 DEF ReadRefunds, WithRefunded, TypeInv, TypeOK
        <4>2. v.req = ses[s].req
          BY DEF WithRefunded, TypeInv, TypeOK, Session
        <4> HIDE DEF v
        <4> QED BY <4>1, <4>2
      <3> QED BY <1>8, <3>1, <3>2
    <2>2. UNCHANGED txs /\ ~At(s, "lockTransaction")
      BY <1>8 DEF ReadEntries, ReadRefunds, At, database
    <2> QED BY <1>3, <2>1, <2>2
  <1>9. ASSUME NEW s \in Sessions, LockOriginal(s) \/ CheckPosting(s) \/ CheckAccountUse(s),
               ~Reject(s)
        PROVE  Shows(x)'
    <2> DEFINE v == WithPc(ses[s], "write")
    <2>1. ses' = [ses EXCEPT ![s] = v] /\ UNCHANGED txs /\ ~At(s, "lockTransaction")
      BY <1>9 DEF LockOriginal, CheckPosting, CheckAccountUse, Goto, WithPc, At, database,
                  TypeInv, TypeOK
    <2>2. v.req = ses[s].req
      BY DEF WithPc, TypeInv, TypeOK, Session
    <2> HIDE DEF v
    <2> QED BY <1>3, <2>1, <2>2
  <1>10. ASSUME NEW s \in Sessions, LockAccount(s), ~Reject(s) PROVE Shows(x)'
    <2>1. PICK a \in Accounts :
            ses' = [ses EXCEPT ![s].seen[a] = IF @.kind = "ABSENT" THEN accounts[a] ELSE @]
      BY <1>10 DEF LockAccount
    <2> DEFINE v == [ses[s] EXCEPT !.seen[a] = IF @.kind = "ABSENT" THEN accounts[a] ELSE @]
    <2>2. ses' = [ses EXCEPT ![s] = v] /\ v.req = ses[s].req
      BY <2>1 DEF TypeInv, TypeOK, Session
    <2>3. UNCHANGED txs /\ ~At(s, "lockTransaction")
      BY <1>10 DEF LockAccount, At, database
    <2> HIDE DEF v
    <2> QED BY <1>3, <2>2, <2>3
  <1>11. ASSUME NEW s \in Sessions, Reject(s) \/ Commit(s) PROVE Shows(x)'
    BY <1>4, <1>11 DEF Reject, Commit, CommitCreate, CommitRefund, CommitUpdate, CommitTouch,
                       CommitDelete, CommitAccount
  <1>12. ASSUME NEW s \in Sessions, Lock(s) \/ Work(s) \/ Rollback(s) PROVE Shows(x)'
    BY <1>7, <1>8, <1>9, <1>10, <1>11, <1>12 DEF Lock, Work, Rollback, Respond
  <1>13. ASSUME NEW a \in Accounts, OpenAccount(a) PROVE Shows(x)'
    BY <1>1, <1>13 DEF OpenAccount
  <1>14. CASE UNCHANGED vars
    BY <1>1, <1>14 DEF vars
  <1> QED BY <1>6, <1>12, <1>13, <1>14 DEF Next

\* An edit overwrites the row its client was shown.
LEMMA EditIsOfShownRow ==
  ASSUME TypeInv, RefundInv, VersionInv, [Next]_vars, NEW t \in TxIds,
         txs[t].status # "ABSENT", txs'[t] # txs[t]
  PROVE  /\ txs'[t].version = txs[t].version + 1
         /\ \E s \in Sessions : Edits(s, t) /\ ses[s].req.base.row = txs[t]
  <1>1. /\ txs'[t].version = txs[t].version + 1
        /\ \E s \in Sessions : Edits(s, t)
    BY RowsMove
  <1>2. PICK s \in Sessions : Edits(s, t)
    BY <1>1
  <1>3. ses[s].req.base.row = txs[t]
    BY <1>2 DEF VersionInv, Shows, Edits, At
  <1> QED BY <1>1, <1>2, <1>3

\* A PATCH or DELETE that changes a row overwrites exactly the row its client was
\* shown and counts its version up: of two edits of one version one loses.
THEOREM EditsFromShownRow == Spec => VersionGuardsRow
  <1> DEFINE A == \A t \in TxIds : txs[t].status # "ABSENT" /\ txs'[t] # txs[t] =>
                    /\ txs'[t].version = txs[t].version + 1
                    /\ \E s \in Sessions : Edits(s, t) /\ ses[s].req.base.row = txs[t]
  <1>1. Init => VersionInv
    BY DEF Init, VersionInv, Shows, Op, Idle
  <1>2. TypeInv /\ TypeInv' /\ RefundInv /\ VersionInv /\ [Next]_vars => VersionInv'
    BY VersionInvStep
  <1>3. TypeInv /\ RefundInv /\ VersionInv /\ [Next]_vars => [A]_vars
    BY EditIsOfShownRow
  <1>4. Spec => [][A]_vars
    BY <1>1, <1>2, <1>3, RefundInvariant, PTL DEF Spec
  <1> QED BY <1>4 DEF VersionGuardsRow

(***************************************************************************)
(* Ledger implements AtomicLedger: the interleaved statements of concurrent*)
(* requests change the tables as if each request ran alone at the instant  *)
(* of its commit.                                                          *)
(*                                                                         *)
(* A commit takes effect atomically because everything it was decided from *)
(* still holds at that instant: refunds and rows under the transaction     *)
(* lock (RefundInv), classifications under the account locks (EntryInv)    *)
(* and, added here, whether the accounts are archived and whether the row  *)
(* is still refunded.                                                      *)
(***************************************************************************)
\* A locked account was read under its lock, or it belongs to the row edited.
SeenRows(s) ==
  Op(s) \in {"create", "update"} =>
    \A a \in Accounts : accLock[a] = s =>
      ses[s].seen[a] = accounts[a] \/ (Op(s) = "update" /\ Uses(entries[Tx(s)], a))

\* What is about to be posted was found to be on active accounts.
PostsOpen(s) ==
  At(s, "write") /\ (Op(s) = "create" \/ (Op(s) = "update" /\ ses[s].refunded = 0)) =>
    \A a \in AccountsOf(ses[s].req.posting) : ~ses[s].seen[a].archived

\* An edit that found refunds commits while they are there: deleting one of them
\* takes the lock on the original that the edit holds.
StillRefunded(s) ==
  Op(s) = "update" /\ ses[s].pc \in {"lockAccounts", "write"} /\ ses[s].refunded > 0
    => ~Unrefunded(Tx(s))

HoldsOriginal(s) ==
  Op(s) = "delete" /\ ses[s].row.adj = "REFUND" =>
    /\ ~At(s, "readRefunds")
    /\ At(s, "write") => txLock[ses[s].row.reverses] = s

Informed(s) == SeenRows(s) /\ PostsOpen(s) /\ StillRefunded(s) /\ HoldsOriginal(s)

AtomicInv == \A s \in Sessions : Informed(s)

(***************************************************************************)
(* A step of one session leaves the others and their locks alone.          *)
(***************************************************************************)
Acts(s) == Begin(s) \/ Lock(s) \/ Work(s) \/ Rollback(s)

LeavesTo(x) ==
  /\ ses'[x] = ses[x]
  /\ \A a \in Accounts : accLock'[a] = x <=> accLock[a] = x
  /\ \A t \in TxIds : txLock'[t] = x <=> txLock[t] = x

LEMMA ActsAlone ==
  ASSUME TypeInv, NEW s \in Sessions, Acts(s), NEW x \in Sessions \ {s}
  PROVE  LeavesTo(x)
  <1>1. CASE Release(s)
    BY <1>1, SessionAssumption DEF Release, LeavesTo, TypeInv, TypeOK
  <1>2. CASE Begin(s)
    <2>1. ASSUME NEW q, NEW pc, Arrive(s, q, pc) PROVE LeavesTo(x)
      BY <2>1 DEF Arrive, locks, LeavesTo, TypeInv, TypeOK
    <2> QED BY <1>2, <2>1 DEF Begin, BeginCreate, BeginRefund, BeginUpdate, BeginDelete,
                              BeginSummary, BeginAccount
  <1>3. CASE ~Release(s) /\ (ReadTransaction(s) \/ LockTransaction(s) \/ LockOriginal(s))
    <2>1. /\ ses'[x] = ses[x] /\ accLock' = accLock
      BY <1>3 DEF ReadTransaction, LockTransaction, LockOriginal, Goto, Reject, locks,
                  TypeInv, TypeOK
    <2>2. \A t \in TxIds : txLock'[t] = x <=> txLock[t] = x
      BY <1>3, SessionAssumption
         DEF ReadTransaction, LockTransaction, LockOriginal, Reject, locks, TypeInv, TypeOK
    <2> QED BY <2>1, <2>2 DEF LeavesTo
  <1>4. CASE ~Release(s) /\ (ReadEntries(s) \/ ReadRefunds(s))
    BY <1>4 DEF ReadEntries, ReadRefunds, Reject, locks, LeavesTo, TypeInv, TypeOK
  <1>5. CASE ~Release(s) /\ LockAccount(s)
    <2>1. PICK a \in Accounts :
            /\ accLock[a] = NoSession /\ accLock' = [accLock EXCEPT ![a] = s]
            /\ ses' = [ses EXCEPT ![s].seen[a] = IF @.kind = "ABSENT" THEN accounts[a] ELSE @]
            /\ txLock' = txLock
      BY <1>5 DEF LockAccount, Reject
    <2> QED BY <2>1, SessionAssumption DEF LeavesTo, TypeInv, TypeOK
  <1>6. CASE ~Release(s) /\ (CheckPosting(s) \/ CheckAccountUse(s))
    BY <1>6 DEF CheckPosting, CheckAccountUse, Goto, Reject, locks, LeavesTo, TypeInv, TypeOK
  <1>7. CASE Commit(s) \/ Respond(s) \/ Rollback(s)
    BY <1>1, <1>7 DEF Commit, CommitCreate, CommitRefund, CommitUpdate, CommitTouch,
                      CommitDelete, CommitAccount, Respond, Rollback, Reject
  <1> QED BY <1>1, <1>2, <1>3, <1>4, <1>5, <1>6, <1>7 DEF Acts, Lock, Work

(***************************************************************************)
(* What a session relies on while others act.                              *)
(***************************************************************************)
\* Accounts are written by OpenAccount, which found none, and by an account
\* PATCH, which holds the lock.
LEMMA LockedAccountStays ==
  ASSUME TypeInv, EntryInv, [Next]_vars, NEW x \in Sessions, ses'[x] = ses[x],
         Op(x) \in {"create", "update"}, NEW a \in Accounts, accLock[a] = x
  PROVE  accounts'[a] = accounts[a]
  <1>1. accounts[a].kind # "ABSENT"
    BY DEF EntryInv, Knows, SeenIsCurrent
  <1>2. ASSUME NEW s \in Sessions, CommitAccount(s) PROVE accounts'[a] = accounts[a]
    <2> DEFINE c == ses[s].req.account
    <2>1. /\ At(s, "write") /\ Op(s) = "account" /\ c \in Accounts
          /\ \A b \in Accounts \ {c} : accounts'[b] = accounts[b]
      BY <1>2, RequestInStep DEF CommitAccount, TypeInv, TypeOK
    <2>2. accLock[c] = s /\ s # x
      BY <2>1 DEF EntryInv, Knows, AccountDecided
    <2> QED BY <2>1, <2>2
  <1>3. ASSUME NEW s \in Sessions, Commit(s), ~CommitAccount(s) PROVE accounts' = accounts
    BY <1>3 DEF Commit, CommitCreate, CommitRefund, CommitUpdate, CommitTouch, CommitDelete, Insert
  <1>4. ASSUME NEW s \in Sessions, Acts(s), ~Commit(s) PROVE accounts' = accounts
    <2>1. CASE Begin(s)
      BY <2>1 DEF Begin, BeginCreate, BeginRefund, BeginUpdate, BeginDelete, BeginSummary,
                  BeginAccount, Arrive, database
    <2>2. CASE Lock(s) \/ Rollback(s)
      BY <2>2 DEF Lock, LockTransaction, LockOriginal, LockAccount, Rollback, Reject, database
    <2>3. CASE Work(s)
      BY <1>4, <2>3 DEF Work, ReadTransaction, ReadEntries, ReadRefunds, CheckPosting,
                        CheckAccountUse, Respond, Reject, database
    <2> QED BY <1>4, <2>1, <2>2, <2>3 DEF Acts
  <1>5. ASSUME NEW c \in Accounts, OpenAccount(c) PROVE accounts'[a] = accounts[a]
    BY <1>1, <1>5 DEF OpenAccount, TypeInv, TypeOK
  <1>6. CASE UNCHANGED vars
    BY <1>6 DEF vars
  <1> QED BY <1>2, <1>3, <1>4, <1>5, <1>6 DEF Next, Acts

\* The entries of a row change under its lock only.
LEMMA HeldEntriesStay ==
  ASSUME TypeInv, RefundInv, [Next]_vars, NEW x \in Sessions, ses'[x] = ses[x],
         Op(x) = "update", ~At(x, "lockTransaction")
  PROVE  entries'[Tx(x)] = entries[Tx(x)]
  <1>1. Tx(x) \in TxIds /\ txLock[Tx(x)] = x /\ txs[Tx(x)].status = "ACTIVE"
    BY RequestInStep DEF RefundInv, HoldsRow
  <1>2. CASE UNCHANGED <<txs, entries>>
    BY <1>2
  <1>3. CASE ~UNCHANGED <<txs, entries>>
    <2>1. PICK s \in Sessions :
            \/ CommitCreate(s) \/ CommitRefund(s)
            \/ CommitUpdate(s) \/ CommitTouch(s) \/ CommitDelete(s)
      BY <1>3, TablesWritten
    <2>2. CASE CommitCreate(s) \/ CommitRefund(s)
      <3>1. PICK id, es : txs[id].status = "ABSENT" /\ entries' = [entries EXCEPT ![id] = es]
        BY <2>2 DEF CommitCreate, CommitRefund, Insert
      <3> QED BY <1>1, <3>1 DEF TypeInv, TypeOK
    <2>3. CASE CommitUpdate(s) \/ CommitTouch(s) \/ CommitDelete(s)
      <3>1. txLock[Tx(s)] = s /\ ses'[s] = Idle /\ At(s, "write")
        BY <2>3, EditMovesVersion
      <3>2. Tx(x) # Tx(s)
        BY <1>1, <3>1 DEF At, Idle
      <3> QED BY <1>1, <2>3, <3>2 DEF CommitUpdate, CommitTouch, CommitDelete, TypeInv, TypeOK
    <2> QED BY <2>1, <2>2, <2>3
  <1> QED BY <1>2, <1>3

\* A refund stays as long as another session holds its original.
LEMMA HeldRefundsStay ==
  ASSUME TypeInv, RefundInv, AtomicInv, [Next]_vars, NEW x \in Sessions, ses'[x] = ses[x],
         NEW o \in TxIds, txLock[o] = x, NEW r \in ActiveRefunds(txs, o)
  PROVE  txs'[r] = txs[r]
  <1>1. r \in TxIds /\ txs[r].status = "ACTIVE" /\ txs[r].adj = "REFUND" /\ txs[r].reverses = o
    BY DEF ActiveRefunds
  <1> SUFFICES ASSUME txs'[r] # txs[r] PROVE FALSE
    OBVIOUS
  <1>2. PICK s \in Sessions :
          \/ CommitCreate(s) \/ CommitRefund(s)
          \/ CommitUpdate(s) \/ CommitTouch(s) \/ CommitDelete(s)
    BY TablesWritten
  <1>3. ~(CommitCreate(s) \/ CommitRefund(s))
    BY <1>1 DEF CommitCreate, CommitRefund, Insert, TypeInv, TypeOK
  <1>4. /\ Tx(s) = r /\ At(s, "write") /\ ses'[s] = Idle /\ ses[s].row = txs[r]
    BY <1>1, <1>2, <1>3, EditMovesVersion, CommitSaves
  <1>5. s # x
    BY <1>4 DEF At, Idle
  <1>6. ~(CommitUpdate(s) \/ CommitTouch(s))
    BY <1>1, <1>4 DEF CommitUpdate, CommitTouch, RefundInv, Decided, UpdateDecided, At
  <1>7. Op(s) = "delete"
    BY <1>2, <1>3, <1>6 DEF CommitDelete
  <1>8. txLock[o] = s
    BY <1>1, <1>4, <1>7 DEF AtomicInv, Informed, HoldsOriginal
  <1> QED BY <1>5, <1>8

LEMMA InformedFrame ==
  ASSUME TypeInv, TypeInv', RefundInv, EntryInv, AtomicInv, [Next]_vars,
         NEW x \in Sessions, LeavesTo(x)
  PROVE  Informed(x)'
  <1>1. /\ Op(x)' = Op(x) /\ Tx(x)' = Tx(x) /\ \A pc : At(x, pc)' = At(x, pc)
        /\ Informed(x) /\ ses'[x] = ses[x]
        /\ Op(x) \in OpsAt(ses[x].pc)
    BY RequestInStep DEF Op, Tx, At, LeavesTo, AtomicInv
  <1>2. SeenRows(x)'
    <2> SUFFICES ASSUME Op(x) \in {"create", "update"}, NEW a \in Accounts, accLock[a] = x
                 PROVE  \/ ses[x].seen[a] = accounts'[a]
                        \/ Op(x) = "update" /\ Uses(entries'[Tx(x)], a)
      BY <1>1 DEF SeenRows, LeavesTo
    <2>1. accounts'[a] = accounts[a]
      BY <1>1, LockedAccountStays
    <2>2. ~At(x, "lockTransaction")
      BY DEF EntryInv, Knows, SeenIsCurrent, At
    <2>3. Op(x) = "update" => entries'[Tx(x)] = entries[Tx(x)]
      BY <1>1, <2>2, HeldEntriesStay
    <2> QED BY <1>1, <2>1, <2>3 DEF Informed, SeenRows
  <1>3. PostsOpen(x)'
    BY <1>1 DEF Informed, PostsOpen
  <1>4. StillRefunded(x)'
    <2> SUFFICES ASSUME Op(x) = "update", ses[x].pc \in {"lockAccounts", "write"},
                        ses[x].refunded > 0
                 PROVE  ActiveRefunds(txs', Tx(x)) # {}
      BY <1>1 DEF StillRefunded, Unrefunded
    <2>1. PICK r : r \in ActiveRefunds(txs, Tx(x))
      BY <1>1 DEF Informed, StillRefunded, Unrefunded
    <2>2. Tx(x) \in TxIds /\ txLock[Tx(x)] = x
      BY RequestInStep DEF RefundInv, HoldsRow, At
    <2>3. txs'[r] = txs[r]
      BY <1>1, <2>1, <2>2, HeldRefundsStay
    <2> QED BY <2>1, <2>3 DEF ActiveRefunds
  <1>5. HoldsOriginal(x)'
    <2> SUFFICES ASSUME Op(x) = "delete", ses[x].row.adj = "REFUND", At(x, "write")
                 PROVE  txLock'[ses[x].row.reverses] = x
      BY <1>1 DEF Informed, HoldsOriginal
    <2>1. txLock[ses[x].row.reverses] = x
      BY <1>1 DEF Informed, HoldsOriginal
    <2>2. ses[x].row = txs[Tx(x)] /\ txs[Tx(x)].status = "ACTIVE" /\ Tx(x) \in TxIds
      BY RequestInStep DEF RefundInv, HoldsRow, At
    <2>3. ses[x].row.reverses \in TxIds
      BY <2>2 DEF RefundInv, RefundLineage
    <2> QED BY <2>1, <2>3 DEF LeavesTo
  <1> QED BY <1>2, <1>3, <1>4, <1>5 DEF Informed

(***************************************************************************)
(* What a session learns by its own steps.                                 *)
(***************************************************************************)
\* Without an account lock and before its commit a session relies on nothing.
LEMMA UnlockedInformed ==
  ASSUME TypeInv, EntryInv, NEW s \in Sessions, ses[s].pc \notin {"lockAccounts", "write"},
         accLock' = accLock,
         ses'[s].pc = "write" =>
           Op(s)' \in {"refund", "delete"} \/ (Op(s)' = "update" /\ ses'[s].refunded > 0),
         Op(s)' = "update" /\ ses'[s].pc \in {"lockAccounts", "write"} =>
           ses'[s].refunded = 0 \/ ~Unrefunded(Tx(s))',
         HoldsOriginal(s)'
  PROVE  Informed(s)'
  <1>1. \A a \in Accounts : accLock'[a] # s
    BY HoldsNoAccount
  <1>2. SeenRows(s)'
    BY <1>1 DEF SeenRows
  <1>3. PostsOpen(s)' /\ StillRefunded(s)'
    BY DEF PostsOpen, StillRefunded, At
  <1> QED BY <1>2, <1>3 DEF Informed

LEMMA BeginInformed ==
  ASSUME TypeInv, EntryInv, NEW s \in Sessions, Begin(s)
  PROVE  Informed(s)'
  <1>1. ASSUME NEW q, NEW pc, pc \notin {"write", "readRefunds"}, Arrive(s, q, pc),
               q.op = "update" => pc = "lockTransaction"
        PROVE  Informed(s)'
    <2> DEFINE v == WithRequest(ses[s], pc, q)
    <2>1. ses[s].pc = "idle" /\ accLock' = accLock /\ ses'[s] = v
      BY <1>1 DEF Arrive, At, WithRequest, locks, TypeInv, TypeOK
    <2>2. v.pc = pc /\ v.req = q
      BY DEF WithRequest, TypeInv, TypeOK, Session
    <2>3. ses'[s].pc = pc /\ Op(s)' = q.op
      BY <2>1, <2>2 DEF Op
    <2>4. HoldsOriginal(s)'
      BY <1>1, <2>3 DEF HoldsOriginal, At
    <2> QED BY <1>1, <2>1, <2>3, <2>4, UnlockedInformed
  <1>2. CASE BeginCreate(s)
    BY <1>1, <1>2 DEF BeginCreate
  <1>3. CASE BeginRefund(s)
    BY <1>1, <1>3 DEF BeginRefund
  <1>4. CASE BeginUpdate(s)
    BY <1>1, <1>4 DEF BeginUpdate
  <1>5. CASE BeginDelete(s)
    BY <1>1, <1>5 DEF BeginDelete
  <1>6. CASE BeginSummary(s)
    BY <1>1, <1>6 DEF BeginSummary
  <1>7. CASE BeginAccount(s)
    BY <1>1, <1>7 DEF BeginAccount
  <1> QED BY <1>2, <1>3, <1>4, <1>5, <1>6, <1>7 DEF Begin

LEMMA LockTransactionInformed ==
  ASSUME TypeInv, EntryInv, NEW s \in Sessions, ReadTransaction(s) \/ LockTransaction(s),
         ~Reject(s)
  PROVE  Informed(s)'
  <1> DEFINE v == WithRow(ses[s], "readEntries", txs[Tx(s)])
  <1>1. /\ ses[s].pc \in {"readTransaction", "lockTransaction"} /\ accLock' = accLock
        /\ ses'[s] = v
    BY DEF ReadTransaction, LockTransaction, At, WithRow, locks, TypeInv, TypeOK
  <1>2. ses'[s].pc = "readEntries"
    BY <1>1 DEF WithRow, TypeInv, TypeOK, Session
  <1>3. HoldsOriginal(s)'
    BY <1>2 DEF HoldsOriginal, At
  <1> QED BY <1>1, <1>2, <1>3, UnlockedInformed

\* Only the deletion of a NORMAL row goes on to ask for its refunds.
LEMMA ReadEntriesInformed ==
  ASSUME TypeInv, EntryInv, NEW s \in Sessions, ReadEntries(s), ~Reject(s)
  PROVE  Informed(s)'
  <1> DEFINE v == WithEntries(ses[s], AfterEntries(s), entries[Tx(s)], Loaded(s))
  <1>1. ses[s].pc = "readEntries" /\ accLock' = accLock /\ ses'[s] = v
        /\ Op(s) \in OpsAt("readEntries")
    BY RequestInStep DEF ReadEntries, At, WithEntries, locks, TypeInv, TypeOK
  <1>2. v.pc = AfterEntries(s) /\ v.req = ses[s].req /\ v.row = ses[s].row
    BY DEF WithEntries, TypeInv, TypeOK, Session
  <1>3. ses'[s].pc = AfterEntries(s) /\ ses'[s].row = ses[s].row /\ Op(s)' = Op(s)
    BY <1>1, <1>2 DEF Op
  <1>4. /\ AfterEntries(s) \notin {"lockAccounts", "write"}
        /\ Op(s) = "delete" /\ ses[s].row.adj = "REFUND" => AfterEntries(s) = "lockOriginal"
    BY <1>1 DEF AfterEntries, OpsAt
  <1>5. HoldsOriginal(s)'
    BY <1>3, <1>4 DEF HoldsOriginal, At
  <1> QED BY <1>1, <1>3, <1>4, <1>5, UnlockedInformed

LEMMA ReadRefundsInformed ==
  ASSUME TypeInv, EntryInv, AtomicInv, NEW s \in Sessions, ReadRefunds(s), ~Reject(s)
  PROVE  Informed(s)'
  <1> DEFINE n == RefundedAmount(txs, Tx(s))
             pc == AfterRefunds(s, n)
             v == WithRefunded(ses[s], pc, n)
  <1>1. /\ ses[s].pc = "readRefunds" /\ accLock' = accLock /\ ses'[s] = v /\ txs' = txs
        /\ Op(s) \in OpsAt("readRefunds")
    BY RequestInStep DEF ReadRefunds, At, WithRefunded, locks, database, TypeInv, TypeOK
  <1>2. v.pc = pc /\ v.req = ses[s].req /\ v.row = ses[s].row /\ v.refunded = n
    BY DEF WithRefunded, TypeInv, TypeOK, Session
  <1>3. /\ ses'[s].pc = pc /\ ses'[s].row = ses[s].row /\ ses'[s].refunded = n
        /\ Op(s)' = Op(s) /\ Tx(s)' = Tx(s)
    BY <1>1, <1>2 DEF Op, Tx
  <1>4. n \in Nat /\ (n = 0 <=> Unrefunded(Tx(s)))
    BY RefundedType, RefundedZero DEF TypeInv, TypeOK, Unrefunded
  <1>5. pc \notin {"idle", "readRefunds"} /\ (Op(s) = "update" /\ pc = "write" => n # 0)
    BY <1>1 DEF ReadRefunds, AfterRefunds, OpsAt
  <1> HIDE DEF n, pc, v
  <1>6. ~(Op(s) = "delete" /\ ses[s].row.adj = "REFUND")
    BY <1>1 DEF AtomicInv, Informed, HoldsOriginal, At
  <1>7. HoldsOriginal(s)'
    BY <1>3, <1>6 DEF HoldsOriginal
  <1>8. /\ Op(s) = "update" /\ pc = "write" => n > 0
        /\ n = 0 \/ ~Unrefunded(Tx(s))'
    BY <1>1, <1>3, <1>4, <1>5 DEF Unrefunded
  <1>9. Op(s) \in {"summary", "refund", "update", "delete"} /\ (Op(s) = "summary" => pc # "write")
    BY <1>1 DEF OpsAt, ReadRefunds, AfterRefunds, pc
  <1> QED BY <1>1, <1>3, <1>7, <1>8, <1>9, UnlockedInformed

LEMMA LockOriginalInformed ==
  ASSUME TypeInv, RefundInv, EntryInv, NEW s \in Sessions, LockOriginal(s)
  PROVE  Informed(s)'
  <1> DEFINE v == WithPc(ses[s], "write")
             o == ses[s].row.reverses
  <1>1. /\ ses[s].pc = "lockOriginal" /\ accLock' = accLock /\ ses'[s] = v
        /\ txLock' = [txLock EXCEPT ![o] = s] /\ Op(s) = "delete" /\ Tx(s) \in TxIds
    BY RequestInStep DEF LockOriginal, At, OpsAt, Goto, WithPc, TypeInv, TypeOK
  <1>2. v.pc = "write" /\ v.req = ses[s].req /\ v.row = ses[s].row
    BY DEF WithPc, TypeInv, TypeOK, Session
  <1>3. ses'[s].pc = "write" /\ ses'[s].row = ses[s].row /\ Op(s)' = "delete"
    BY <1>1, <1>2 DEF Op
  <1>4. o \in TxIds
    <2>1. /\ ses[s].row.adj = "REFUND" /\ ses[s].row = txs[Tx(s)]
          /\ txs[Tx(s)].status = "ACTIVE"
      BY <1>1 DEF RefundInv, HoldsRow, Decided, DeleteDecided, At
    <2> QED BY <1>1, <2>1 DEF RefundInv, RefundLineage
  <1>5. HoldsOriginal(s)'
    BY <1>1, <1>3, <1>4 DEF HoldsOriginal, At, TypeInv, TypeOK
  <1> QED BY <1>1, <1>3, <1>5, UnlockedInformed

LEMMA LockAccountInformed ==
  ASSUME TypeInv, EntryInv, AtomicInv, NEW s \in Sessions, LockAccount(s), ~Reject(s)
  PROVE  Informed(s)'
  <1>1. /\ Op(s) \in {"create", "update", "account"} /\ ses[s].pc = "lockAccounts"
        /\ ses[s].seen \in [Accounts -> AccountRow] /\ ses[s] \in Session
    BY RequestInStep, SessionFields DEF LockAccount, At, OpsAt
  <1>2. PICK a \in Accounts :
          /\ accLock' = [accLock EXCEPT ![a] = s] /\ UNCHANGED <<entries, accounts>>
          /\ ses' = [ses EXCEPT ![s].seen[a] = IF @.kind = "ABSENT" THEN accounts[a] ELSE @]
    BY DEF LockAccount, database
  <1> DEFINE row == IF ses[s].seen[a].kind = "ABSENT" THEN accounts[a] ELSE ses[s].seen[a]
             f == [ses[s].seen EXCEPT ![a] = row]
  <1>3. f[a] = row /\ \A b \in Accounts \ {a} : f[b] = ses[s].seen[b]
    BY <1>1
  <1>4. ses'[s] = WithSeen(ses[s], f)
    BY <1>2 DEF WithSeen, TypeInv, TypeOK
  <1>5. row \in AccountRow
    BY <1>1 DEF TypeInv, TypeOK
  <1>6. f \in [Accounts -> AccountRow]
    BY <1>1, <1>5
  <1> HIDE DEF f
  <1>7. /\ ses'[s].seen = f /\ ses'[s].pc = "lockAccounts" /\ Op(s)' = Op(s) /\ Tx(s)' = Tx(s)
    BY <1>1, <1>4, <1>6, SetSeen DEF Op, Tx
  <1>8. SeenRows(s)'
    <2> SUFFICES ASSUME Op(s) \in {"create", "update"}, NEW b \in Accounts, accLock'[b] = s
                 PROVE  f[b] = accounts[b] \/ (Op(s) = "update" /\ Uses(entries[Tx(s)], b))
      BY <1>2, <1>7 DEF SeenRows
    <2>1. CASE b = a /\ ses[s].seen[a].kind = "ABSENT"
      BY <1>3, <2>1
    <2>2. CASE b = a /\ ses[s].seen[a].kind # "ABSENT"
      BY <1>3, <2>2 DEF EntryInv, Knows, SeenIsCurrent, AtomicInv, Informed, SeenRows
    <2>3. CASE b # a
      <3>1. accLock[b] = s
        BY <1>2, <2>3 DEF TypeInv, TypeOK
      <3> QED BY <1>3, <2>3, <3>1 DEF AtomicInv, Informed, SeenRows
    <2> QED BY <2>1, <2>2, <2>3
  <1>9. PostsOpen(s)' /\ HoldsOriginal(s)'
    BY <1>1, <1>7 DEF PostsOpen, HoldsOriginal, At
  <1>10. StillRefunded(s)'
    <2>1. ses'[s].refunded = ses[s].refunded /\ txs' = txs
      BY <1>1, <1>4, <1>6, SetSeen DEF LockAccount, database
    <2> QED BY <1>1, <1>7, <2>1 DEF AtomicInv, Informed, StillRefunded, Unrefunded
  <1> QED BY <1>8, <1>9, <1>10 DEF Informed

LEMMA CheckInformed ==
  ASSUME TypeInv, RefundInv, EntryInv, AtomicInv, NEW s \in Sessions,
         CheckPosting(s) \/ CheckAccountUse(s), ~Reject(s)
  PROVE  Informed(s)'
  <1> DEFINE v == WithPc(ses[s], "write")
  <1>1. /\ Op(s) \in {"create", "update", "account"} /\ ses[s].pc = "lockAccounts"
        /\ ses'[s] = v /\ UNCHANGED <<txs, entries, accounts, accLock>>
    BY RequestInStep DEF CheckPosting, CheckAccountUse, At, OpsAt, Goto, WithPc, database, locks,
                         TypeInv, TypeOK
  <1>2. v.pc = "write" /\ v.req = ses[s].req /\ v.seen = ses[s].seen /\ v.refunded = ses[s].refunded
    BY DEF WithPc, TypeInv, TypeOK, Session
  <1>3. /\ ses'[s].pc = "write" /\ ses'[s].req = ses[s].req /\ ses'[s].seen = ses[s].seen
        /\ ses'[s].refunded = ses[s].refunded /\ Op(s)' = Op(s) /\ Tx(s)' = Tx(s)
    BY <1>1, <1>2 DEF Op, Tx
  <1>4. SeenRows(s)'
    BY <1>1, <1>3 DEF AtomicInv, Informed, SeenRows
  <1>5. PostsOpen(s)'
    BY <1>3 DEF PostsOpen, CheckPosting, CheckAccountUse, PostingAllowed
  <1>6. StillRefunded(s)' /\ HoldsOriginal(s)'
    BY <1>1, <1>3 DEF AtomicInv, Informed, StillRefunded, HoldsOriginal, Unrefunded
  <1> QED BY <1>4, <1>5, <1>6 DEF Informed

LEMMA EndInformed ==
  ASSUME NEW s \in Sessions, ses'[s] = Idle
  PROVE  Informed(s)'
  BY DEF Informed, SeenRows, PostsOpen, StillRefunded, HoldsOriginal, Idle, Op, At

LEMMA AtomicInvStep ==
  ASSUME TypeInv, TypeInv', RefundInv, EntryInv, AtomicInv, [Next]_vars
  PROVE  AtomicInv'
  <1> SUFFICES ASSUME NEW x \in Sessions PROVE Informed(x)'
    BY DEF AtomicInv
  <1>1. CASE LeavesTo(x)
    BY <1>1, InformedFrame
  <1>2. CASE Acts(x)
    <2>1. CASE Release(x)
      BY <2>1, EndInformed, ReleaseFrees
    <2>2. CASE ~Release(x)
      <3>1. ~Reject(x) /\ ~Commit(x) /\ ~Respond(x) /\ ~Rollback(x)
        BY <2>2 DEF Reject, Respond, Rollback, Commit, CommitCreate, CommitRefund, CommitUpdate,
                    CommitTouch, CommitDelete, CommitAccount
      <3> QED BY <1>2, <3>1, BeginInformed, LockTransactionInformed, ReadEntriesInformed,
                 ReadRefundsInformed, LockOriginalInformed, LockAccountInformed, CheckInformed
              DEF Acts, Lock, Work
    <2> QED BY <2>1, <2>2
  <1>3. ASSUME NEW s \in Sessions, Acts(s) PROVE Informed(x)'
    BY <1>1, <1>2, <1>3, ActsAlone
  <1>4. CASE UNCHANGED <<ses, txLock, accLock>>
    BY <1>1, <1>4 DEF LeavesTo
  <1> QED BY <1>3, <1>4 DEF Next, Acts, OpenAccount, locks, vars

(***************************************************************************)
(* Each step of Ledger is a step of AtomicLedger or leaves its tables.     *)
(***************************************************************************)
\* The rules of the two specifications are the same operators.
LEMMA SameRules ==
  /\ \A p, f : /\ Atomic!PostingEntries(p, f) = PostingEntries(p, f)
               /\ Atomic!PostingSupported(p, f) <=> PostingSupported(p, f)
               /\ Atomic!PostingAllowed(p, f) <=> PostingAllowed(p, f)
  /\ \A p : Atomic!AccountsOf(p) = AccountsOf(p)
  /\ \A T, o : Atomic!ActiveRefunds(T, o) = ActiveRefunds(T, o)
  /\ \A a, d : Atomic!PrimaryEntry(a, d) = PrimaryEntry(a, d)
  /\ \A old, new : Atomic!Saved(old, new) = Saved(old, new)
  /\ \A r : Atomic!Refundable(r) <=> Refundable(r)
  /\ \A E, a : Atomic!HasLedgerEntries(E, a) <=> HasLedgerEntries(E, a)
  /\ Atomic!Amounts = Amounts /\ Atomic!Posting = Posting /\ Atomic!Kinds = Kinds
  /\ \A type, amount, n, m, adj, o :
       Atomic!NewRow(type, amount, n, m, adj, o) = NewRow(type, amount, n, m, adj, o)
  /\ Atomic!NoTx = NoTx
  BY DEF Atomic!PostingEntries, PostingEntries, Atomic!PostingSupported, PostingSupported,
         Atomic!PostingAllowed, PostingAllowed, Atomic!AccountsOf, AccountsOf,
         Atomic!ActiveRefunds, ActiveRefunds, Atomic!TransferEntries, TransferEntries,
         Atomic!PrimaryEntry, PrimaryEntry, Atomic!PrimaryDelta, PrimaryDelta,
         Atomic!PrimarySupported, PrimarySupported, Atomic!Kinds, Kinds,
         Atomic!Saved, Saved, Atomic!Refundable, Refundable, Atomic!NoTx, NoTx,
         Atomic!HasLedgerEntries, HasLedgerEntries, Atomic!Amounts, Amounts,
         Atomic!Posting, Posting, Atomic!TransactionTypes, TransactionTypes, Atomic!NewRow, NewRow

LEMMA SameCount ==
  ASSUME NEW S
  PROVE  Atomic!Cardinality(S) = Cardinality(S)
  BY DEF Atomic!Cardinality, Cardinality

LEMMA SameSum ==
  ASSUME NEW T, NEW o
  PROVE  Atomic!RefundedAmount(T, o) = RefundedAmount(T, o)
  <1>1. Atomic!Won(T, Atomic!ActiveRefunds(T, o)) = Won(T, ActiveRefunds(T, o))
    BY SameRules DEF Atomic!Won, Won
  <1> QED BY <1>1, SameCount DEF Atomic!RefundedAmount, RefundedAmount

LEMMA SameInsert ==
  ASSUME NEW row, NEW es, Insert(row, es)
  PROVE  Atomic!Insert(row, es)
  BY DEF Insert, Atomic!Insert

LEMMA CreateIsAtomic ==
  ASSUME TypeInv, EntryInv, AtomicInv, NEW s \in Sessions, CommitCreate(s)
  PROVE  Atomic!Create
  <1> DEFINE p == ses[s].req.posting
             m == ses[s].req.actor
             row == NewRow(p.type, p.amount, p.note, m, "NORMAL", NoTx)
  <1>1. /\ p \in Posting /\ m \in Members /\ At(s, "write") /\ Op(s) = "create"
        /\ Insert(row, PostingEntries(p, ses[s].seen))
    BY RequestInStep DEF CommitCreate
  <1>2. AccountsOf(p) \subseteq Accounts
    BY <1>1 DEF AccountsOf, Posting
  <1>3. /\ \A a \in AccountsOf(p) : accLock[a] = s /\ ~ses[s].seen[a].archived
        /\ PostingSupported(p, ses[s].seen)
    BY <1>1 DEF EntryInv, Knows, PostingDecided, AtomicInv, Informed, PostsOpen
  <1>4. \A a \in AccountsOf(p) : ses[s].seen[a] = accounts[a]
    BY <1>1, <1>2, <1>3 DEF AtomicInv, Informed, SeenRows
  <1> HIDE DEF p, row
  <1>5. /\ PostingEntries(p, ses[s].seen) = PostingEntries(p, accounts)
        /\ PostingSupported(p, accounts)
    BY <1>3, <1>4, PostingAgrees
  <1>6. PostingAllowed(p, accounts)
    BY <1>3, <1>4, <1>5 DEF PostingAllowed
  <1>7. Atomic!Insert(row, PostingEntries(p, accounts))
    BY <1>1, <1>5, SameInsert
  <1> QED BY <1>1, <1>6, <1>7, SameRules DEF Atomic!Create, row

LEMMA RefundIsAtomic ==
  ASSUME TypeInv, RefundInv, NEW s \in Sessions, CommitRefund(s)
  PROVE  Atomic!Refund
  <1> DEFINE q == ses[s].req
             e == CHOOSE e \in ses[s].old : TRUE
             es == {PrimaryEntry(e.account, IF e.delta > 0 THEN -q.amount ELSE q.amount)}
             row == NewRow("EXPENSE", q.amount, q.note, q.actor, "REFUND", q.tx)
  <1>1. /\ q.tx \in TxIds /\ q.amount \in Amounts /\ q.note \in Notes /\ q.actor \in Members
        /\ At(s, "write") /\ Op(s) = "refund" /\ Tx(s) = q.tx /\ Insert(row, es)
    BY RequestInStep DEF CommitRefund, Tx
  <1>2. ses[s].row = txs[q.tx] /\ txs[q.tx].status = "ACTIVE"
    BY <1>1 DEF RefundInv, HoldsRow, At
  <1>3. /\ Refundable(txs[q.tx]) /\ ses[s].old = entries[q.tx]
        /\ \E f \in ses[s].old : ses[s].old = {f}
        /\ q.amount + RefundedAmount(txs, q.tx) <= txs[q.tx].amount
    BY <1>1, <1>2 DEF RefundInv, Decided, RefundDecided, At
  <1>4. e \in entries[q.tx]
    BY <1>3
  <1>5. /\ q.amount \in Nat /\ txs[q.tx].amount \in Nat /\ RefundedAmount(txs, q.tx) \in Nat
    BY <1>1, RefundedType, MaxAmountAssumption DEF TypeInv, TypeOK, Row, Amounts
  <1>6. q.amount <= txs[q.tx].amount - RefundedAmount(txs, q.tx)
    BY <1>3, <1>5
  <1>7. Atomic!Insert(row, es)
    BY <1>1, SameInsert
  <1> HIDE DEF e
  <1> QED BY <1>1, <1>2, <1>3, <1>4, <1>6, <1>7, SameRules, SameSum DEF Atomic!Refund

\* An edited row keeps, of what is archived, only accounts it was on already.
LEMMA UpdateIsAtomic ==
  ASSUME TypeInv, RefundInv, EntryInv, AtomicInv, NEW s \in Sessions, CommitUpdate(s)
  PROVE  Atomic!Update
  <1> DEFINE t == Tx(s)
             p == ses[s].req.posting
             m == ses[s].req.actor
             new == [txs[t] EXCEPT !.type = p.type, !.amount = p.amount, !.note = p.note, !.by = m]
             kept == {e.account : e \in entries[t]}
  <1>1. /\ p \in Posting /\ m \in Members /\ At(s, "write") /\ Op(s) = "update" /\ t \in TxIds
        /\ ses[s].refunded = 0
    BY RequestInStep DEF CommitUpdate
  <1>2. /\ ses[s].row = txs[t] /\ txs[t].status = "ACTIVE" /\ txs[t].adj = "NORMAL"
        /\ ActiveRefunds(txs, t) = {}
    BY <1>1 DEF RefundInv, HoldsRow, Decided, UpdateDecided, Unrefunded, At
  <1>3. /\ SaveRow(s, new) /\ accounts' = accounts
        /\ entries' = [entries EXCEPT ![t] = PostingEntries(p, ses[s].seen)]
    BY <1>2 DEF CommitUpdate
  <1>4. AccountsOf(p) \subseteq Accounts
    BY <1>1 DEF AccountsOf, Posting
  <1>5. /\ \A a \in AccountsOf(p) : accLock[a] = s /\ ~ses[s].seen[a].archived
        /\ PostingSupported(p, ses[s].seen)
    BY <1>1 DEF EntryInv, Knows, PostingDecided, AtomicInv, Informed, PostsOpen
  <1>6. \A a \in AccountsOf(p) : ses[s].seen[a].kind = accounts[a].kind
    BY <1>1, <1>4, <1>5 DEF EntryInv, Knows, SeenIsCurrent
  <1>7. \A a \in AccountsOf(p) : ses[s].seen[a] = accounts[a] \/ a \in kept
    BY <1>1, <1>4, <1>5 DEF AtomicInv, Informed, SeenRows, Uses
  <1> HIDE DEF p, new, kept
  <1>8. /\ PostingEntries(p, ses[s].seen) = PostingEntries(p, accounts)
        /\ PostingSupported(p, accounts)
    BY <1>5, <1>6, PostingAgrees
  <1>9. \A a \in AccountsOf(p) : accounts[a].archived => a \in kept
    BY <1>5, <1>7
  <1>10. txs' = [txs EXCEPT ![t] = Saved(txs[t], new)]
    BY <1>2, <1>3 DEF SaveRow, Saved, TypeInv, TypeOK
  <1> QED BY <1>1, <1>2, <1>3, <1>8, <1>9, <1>10, SameRules DEF Atomic!Update, new, kept, p

LEMMA TouchIsAtomic ==
  ASSUME TypeInv, RefundInv, AtomicInv, NEW s \in Sessions, CommitTouch(s) \/ CommitDelete(s)
  PROVE  Atomic!Touch \/ Atomic!Delete
  <1> DEFINE t == Tx(s)
             q == ses[s].req
  <1>1. /\ At(s, "write") /\ Op(s) \in {"update", "delete"} /\ t \in TxIds
        /\ q.actor \in Members /\ (Op(s) = "update" => q.posting \in Posting)
        /\ entries' = entries /\ accounts' = accounts
    BY RequestInStep DEF CommitTouch, CommitDelete
  <1>2. ses[s].row = txs[t] /\ txs[t].status = "ACTIVE"
    BY <1>1 DEF RefundInv, HoldsRow, At
  <1>3. ASSUME NEW new, SaveRow(s, new) PROVE txs' = [txs EXCEPT ![t] = Saved(txs[t], new)]
    BY <1>2, <1>3 DEF SaveRow, Saved, TypeInv, TypeOK
  <1>4. CASE CommitTouch(s)
    <2> DEFINE new == [txs[t] EXCEPT !.note = q.posting.note, !.by = q.actor]
    <2>1. txs' = [txs EXCEPT ![t] = Saved(txs[t], new)]
      BY <1>2, <1>3, <1>4 DEF CommitTouch
    <2>2. ActiveRefunds(txs, t) # {} /\ q.posting.note \in Notes
      BY <1>1, <1>4 DEF CommitTouch, AtomicInv, Informed, StillRefunded, Unrefunded, At, Posting
    <2>3. txs' = [txs EXCEPT ![t] = Atomic!Saved(@, [@ EXCEPT !.note = q.posting.note,
                                                              !.by = q.actor])]
      BY <1>1, <2>1, SameRules DEF TypeInv, TypeOK
    <2> QED BY <1>1, <1>2, <2>2, <2>3, SameRules DEF Atomic!Touch
  <1>5. CASE CommitDelete(s)
    <2> DEFINE new == [txs[t] EXCEPT !.status = "DELETED", !.by = q.actor]
    <2>1. txs' = [txs EXCEPT ![t] = Saved(txs[t], new)]
      BY <1>2, <1>3, <1>5 DEF CommitDelete
    <2>2. ActiveRefunds(txs, t) = {}
      BY <1>5, CommitSaves DEF CommitTouch, CommitDelete, Unrefunded
    <2>3. txs' = [txs EXCEPT ![t] = Atomic!Saved(@, [@ EXCEPT !.status = "DELETED",
                                                              !.by = q.actor])]
      BY <1>1, <2>1, SameRules DEF TypeInv, TypeOK
    <2> QED BY <1>1, <1>2, <2>2, <2>3, SameRules DEF Atomic!Delete
  <1> QED BY <1>4, <1>5

LEMMA AccountIsAtomic ==
  ASSUME TypeInv, EntryInv, NEW s \in Sessions, CommitAccount(s)
  PROVE  Atomic!ChangeAccount
  <1> DEFINE q == ses[s].req
             c == q.account
  <1>1. /\ At(s, "write") /\ Op(s) = "account" /\ c \in Accounts
        /\ q.kind \in Kinds /\ q.archived \in BOOLEAN
        /\ accounts' = [accounts EXCEPT ![c] = [kind |-> q.kind, archived |-> q.archived]]
        /\ UNCHANGED <<txs, entries>>
    BY RequestInStep DEF CommitAccount
  <1>2. accLock[c] = s /\ (q.kind = accounts[c].kind \/ ~HasLedgerEntries(entries, c))
    BY <1>1 DEF EntryInv, Knows, AccountDecided
  <1>3. accounts[c].kind # "ABSENT"
    BY <1>1, <1>2 DEF EntryInv, Knows, SeenIsCurrent
  <1> QED BY <1>1, <1>2, <1>3, SameRules DEF Atomic!ChangeAccount

LEMMA AtomicStep ==
  ASSUME TypeInv, RefundInv, EntryInv, AtomicInv, [Next]_vars
  PROVE  [Atomic!Next]_(Atomic!vars)
  <1>1. ASSUME NEW s \in Sessions, Commit(s) PROVE Atomic!Next
    BY <1>1, CreateIsAtomic, RefundIsAtomic, UpdateIsAtomic, TouchIsAtomic, AccountIsAtomic
       DEF Commit, Atomic!Next
  <1>2. ASSUME NEW s \in Sessions, Acts(s), ~Commit(s) PROVE UNCHANGED <<txs, entries, accounts>>
    <2>1. CASE Begin(s)
      BY <2>1 DEF Begin, BeginCreate, BeginRefund, BeginUpdate, BeginDelete, BeginSummary,
                  BeginAccount, Arrive, database
    <2>2. CASE Lock(s) \/ Rollback(s)
      BY <2>2 DEF Lock, LockTransaction, LockOriginal, LockAccount, Rollback, Reject, database
    <2>3. CASE Work(s)
      BY <1>2, <2>3 DEF Work, ReadTransaction, ReadEntries, ReadRefunds, CheckPosting,
                        CheckAccountUse, Respond, Reject, database
    <2> QED BY <1>2, <2>1, <2>2, <2>3 DEF Acts
  <1>3. ASSUME NEW a \in Accounts, OpenAccount(a) PROVE Atomic!Next
    BY <1>3 DEF OpenAccount, Atomic!OpenAccount, Atomic!Next
  <1>4. CASE UNCHANGED vars
    BY <1>4 DEF vars, Atomic!vars
  <1> QED BY <1>1, <1>2, <1>3, <1>4 DEF Next, Acts, Atomic!vars

LEMMA AtomicInit == Init => Atomic!Init /\ AtomicInv
  <1> SUFFICES ASSUME Init PROVE Atomic!Init /\ AtomicInv
    OBVIOUS
  <1>1. Atomic!Init
    BY DEF Init, Atomic!Init, Atomic!AbsentRow, AbsentRow, Atomic!NoAccount, NoAccount,
           Atomic!NoTx, NoTx
  <1>2. \A s \in Sessions : Informed(s)
    BY DEF Init, Idle, Informed, SeenRows, PostsOpen, StillRefunded, HoldsOriginal, Op, At
  <1> QED BY <1>1, <1>2 DEF AtomicInv

\* The locks of the handlers make every request take effect at its commit as if
\* it ran alone, however many sessions interleave their statements.
THEOREM LedgerIsAtomic == Spec => ImplementsAtomicLedger
  <1>1. Init => Atomic!Init /\ AtomicInv
    BY AtomicInit
  <1>2. TypeInv /\ TypeInv' /\ RefundInv /\ EntryInv /\ AtomicInv /\ [Next]_vars => AtomicInv'
    BY AtomicInvStep
  <1>3. TypeInv /\ RefundInv /\ EntryInv /\ AtomicInv /\ [Next]_vars => [Atomic!Next]_(Atomic!vars)
    BY AtomicStep
  <1>4. Spec => Atomic!Init /\ [][Atomic!Next]_(Atomic!vars)
    BY <1>1, <1>2, <1>3, EntryInvariant, PTL DEF Spec
  <1> QED BY <1>4 DEF ImplementsAtomicLedger, Atomic!Spec

(***************************************************************************)
(* No deadlock. A session waits for a transaction row with nothing in its  *)
(* hands, for the original of a refund with that refund's row, and for an  *)
(* account with a transaction row and lower accounts: in this order, the   *)
(* holder of a lock only ever waits for a later one.                       *)
(***************************************************************************)
RowsHeld(s) ==
  \A t \in TxIds : txLock[t] = s =>
    /\ ses[s].pc \notin {"idle", "readTransaction", "lockTransaction"}
    /\ At(s, "write") \/ t = Tx(s)

AccountsAscend(s) ==
  At(s, "lockAccounts") =>
    \A a \in Accounts, b \in Missing(s) : accLock[a] = s => a < b

Ordered(s) == RowsHeld(s) /\ AccountsAscend(s)

LockInv == \A s \in Sessions : Ordered(s)

LEMMA OrderedFrame ==
  ASSUME NEW x \in Sessions, Ordered(x), LeavesTo(x), Wanted(x) \subseteq Accounts
  PROVE  Ordered(x)'
  <1>1. \A pc : At(x, pc)' = At(x, pc)
    BY DEF LeavesTo, At
  <1>2. RowsHeld(x)'
    BY <1>1 DEF Ordered, RowsHeld, LeavesTo, Tx
  <1>3. Wanted(x)' = Wanted(x)
    BY DEF LeavesTo, Wanted, Op
  <1>4. Missing(x)' = Missing(x)
    BY <1>3 DEF Missing, LeavesTo
  <1>5. AccountsAscend(x)'
    BY <1>1, <1>4 DEF Ordered, AccountsAscend, LeavesTo
  <1> QED BY <1>2, <1>5 DEF Ordered

LEMMA WantedAccounts ==
  ASSUME TypeInv, NEW s \in Sessions, Op(s) \in {"create", "update", "account"}
  PROVE  Wanted(s) \subseteq Accounts /\ Missing(s) \subseteq Accounts /\ Accounts \subseteq Nat
  <1>1. Op(s) = "account" => ses[s].req.account \in Accounts
    BY RequestInStep
  <1>2. Op(s) \in {"create", "update"} => ses[s].req.posting \in Posting
    BY RequestInStep
  <1> QED BY <1>1, <1>2, AccountsAssumption DEF Wanted, Missing, AccountsOf, Posting

\* A step that takes no lock.
LEMMA LocksUntouched ==
  ASSUME TypeInv, EntryInv, NEW s \in Sessions, Ordered(s), UNCHANGED <<txLock, accLock>>,
         ses[s].pc \notin {"write", "lockAccounts"} \/ ses'[s].pc = "write",
         \/ ses[s].pc \in {"idle", "readTransaction", "lockTransaction"}
         \/ /\ ses'[s].pc \notin {"idle", "readTransaction", "lockTransaction"}
            /\ Tx(s)' = Tx(s) /\ (ses[s].pc = "write" => ses'[s].pc = "write")
  PROVE  Ordered(s)'
  <1>1. RowsHeld(s)'
    BY DEF Ordered, RowsHeld, At
  <1>2. AccountsAscend(s)'
    BY HoldsNoAccount DEF AccountsAscend, At
  <1> QED BY <1>1, <1>2 DEF Ordered

LEMMA BeginOrdered ==
  ASSUME TypeInv, EntryInv, NEW s \in Sessions, Ordered(s), Begin(s)
  PROVE  Ordered(s)'
  <1>1. ASSUME NEW q, NEW pc, Arrive(s, q, pc) PROVE Ordered(s)'
    <2>1. ses[s].pc = "idle" /\ UNCHANGED <<txLock, accLock>>
      BY <1>1 DEF Arrive, At, locks
    <2> QED BY <2>1, LocksUntouched
  <1> QED BY <1>1 DEF Begin, BeginCreate, BeginRefund, BeginUpdate, BeginDelete, BeginSummary,
                      BeginAccount

LEMMA ReadTransactionOrdered ==
  ASSUME TypeInv, EntryInv, NEW s \in Sessions, Ordered(s), ReadTransaction(s), ~Reject(s)
  PROVE  Ordered(s)'
  <1>1. ses[s].pc = "readTransaction" /\ UNCHANGED <<txLock, accLock>>
    BY DEF ReadTransaction, At, locks
  <1> QED BY <1>1, LocksUntouched

LEMMA LockTransactionOrdered ==
  ASSUME TypeInv, EntryInv, NEW s \in Sessions, Ordered(s), LockTransaction(s), ~Reject(s)
  PROVE  Ordered(s)'
  <1> DEFINE v == WithRow(ses[s], "readEntries", txs[Tx(s)])
  <1>1. /\ ses[s].pc = "lockTransaction" /\ txLock' = [txLock EXCEPT ![Tx(s)] = s]
        /\ ses'[s] = v
    BY DEF LockTransaction, At, WithRow, TypeInv, TypeOK
  <1>2. ses'[s].pc = "readEntries" /\ Tx(s)' = Tx(s)
    BY <1>1 DEF WithRow, TypeInv, TypeOK, Session, Tx
  <1>3. \A t \in TxIds : txLock'[t] = s => t = Tx(s)
    BY <1>1 DEF Ordered, RowsHeld, TypeInv, TypeOK
  <1>4. RowsHeld(s)'
    BY <1>2, <1>3 DEF RowsHeld
  <1>5. AccountsAscend(s)'
    BY <1>2 DEF AccountsAscend, At
  <1> QED BY <1>4, <1>5 DEF Ordered

LEMMA ReadEntriesOrdered ==
  ASSUME TypeInv, EntryInv, NEW s \in Sessions, Ordered(s), ReadEntries(s), ~Reject(s)
  PROVE  Ordered(s)'
  <1> DEFINE v == WithEntries(ses[s], AfterEntries(s), entries[Tx(s)], Loaded(s))
  <1>1. /\ ses[s].pc = "readEntries" /\ UNCHANGED <<txLock, accLock>> /\ ses'[s] = v
        /\ AfterEntries(s) # "idle"
    BY DEF ReadEntries, At, WithEntries, locks, TypeInv, TypeOK
  <1>2. v.pc = AfterEntries(s) /\ v.req = ses[s].req
    BY DEF WithEntries, TypeInv, TypeOK, Session
  <1>3. AfterEntries(s) \notin {"readTransaction", "lockTransaction"}
    BY <1>1 DEF AfterEntries
  <1>4. ses'[s].pc = AfterEntries(s) /\ Tx(s)' = Tx(s)
    BY <1>1, <1>2 DEF Tx
  <1> QED BY <1>1, <1>3, <1>4, LocksUntouched

LEMMA ReadRefundsOrdered ==
  ASSUME TypeInv, EntryInv, NEW s \in Sessions, Ordered(s), ReadRefunds(s), ~Reject(s)
  PROVE  Ordered(s)'
  <1> DEFINE n == RefundedAmount(txs, Tx(s))
             pc == AfterRefunds(s, n)
             v == WithRefunded(ses[s], pc, n)
  <1>1. /\ ses[s].pc = "readRefunds" /\ UNCHANGED <<txLock, accLock>> /\ ses'[s] = v /\ pc # "idle"
    BY DEF ReadRefunds, At, WithRefunded, locks, TypeInv, TypeOK
  <1>2. v.pc = pc /\ v.req = ses[s].req
    BY DEF WithRefunded, TypeInv, TypeOK, Session
  <1>3. pc \notin {"readTransaction", "lockTransaction"}
    BY <1>1 DEF AfterRefunds
  <1> HIDE DEF pc
  <1>4. ses'[s].pc = pc /\ Tx(s)' = Tx(s)
    BY <1>1, <1>2 DEF Tx
  <1> QED BY <1>1, <1>3, <1>4, LocksUntouched

LEMMA LockOriginalOrdered ==
  ASSUME TypeInv, EntryInv, NEW s \in Sessions, Ordered(s), LockOriginal(s)
  PROVE  Ordered(s)'
  <1> DEFINE v == WithPc(ses[s], "write")
  <1>1. ses[s].pc = "lockOriginal" /\ ses'[s] = v
    BY DEF LockOriginal, At, Goto, WithPc, TypeInv, TypeOK
  <1>2. ses'[s].pc = "write"
    BY <1>1 DEF WithPc, TypeInv, TypeOK, Session
  <1> QED BY <1>2 DEF Ordered, RowsHeld, AccountsAscend, At

LEMMA LockAccountOrdered ==
  ASSUME TypeInv, EntryInv, NEW s \in Sessions, Ordered(s), LockAccount(s), ~Reject(s)
  PROVE  Ordered(s)'
  <1>1. /\ Op(s) \in {"create", "update", "account"} /\ ses[s].pc = "lockAccounts"
        /\ ses[s].seen \in [Accounts -> AccountRow] /\ ses[s] \in Session
    BY RequestInStep, SessionFields DEF LockAccount, At, OpsAt
  <1>2. PICK a \in Accounts :
          /\ IsNextAccount(s, a) /\ accLock' = [accLock EXCEPT ![a] = s] /\ txLock' = txLock
          /\ ses' = [ses EXCEPT ![s].seen[a] = IF @.kind = "ABSENT" THEN accounts[a] ELSE @]
    BY DEF LockAccount
  <1> DEFINE f == [ses[s].seen EXCEPT ![a] = IF ses[s].seen[a].kind = "ABSENT" THEN accounts[a]
                                             ELSE ses[s].seen[a]]
             v == WithSeen(ses[s], f)
  <1>3. ses'[s] = v
    BY <1>2 DEF WithSeen, TypeInv, TypeOK
  <1> HIDE DEF f
  <1>4. ses'[s].pc = "lockAccounts" /\ ses'[s].req = ses[s].req
    BY <1>1, <1>3 DEF WithSeen, Session
  <1>5. RowsHeld(s)'
    BY <1>1, <1>2, <1>4 DEF Ordered, RowsHeld, At, Tx
  <1>6. \A c \in Accounts : accLock'[c] = s <=> c = a \/ accLock[c] = s
    BY <1>2 DEF TypeInv, TypeOK
  <1>7. Missing(s)' = Missing(s) \ {a}
    <2>1. Wanted(s)' = Wanted(s)
      BY <1>4 DEF Wanted, Op
    <2>2. Wanted(s) \subseteq Accounts
      BY <1>1, WantedAccounts
    <2> QED BY <1>6, <2>1, <2>2 DEF Missing
  <1>8. ASSUME NEW c \in Accounts, NEW b \in Missing(s)', accLock'[c] = s PROVE c < b
    <2>1. b \in Missing(s) /\ b # a /\ a <= b /\ a \in Nat /\ b \in Nat
      BY <1>1, <1>2, <1>7, <1>8, WantedAccounts DEF IsNextAccount
    <2>2. CASE c = a
      BY <2>1, <2>2
    <2>3. CASE accLock[c] = s
      BY <1>1, <2>1, <2>3 DEF Ordered, AccountsAscend, At
    <2> QED BY <1>6, <1>8, <2>2, <2>3
  <1> QED BY <1>5, <1>8 DEF Ordered, AccountsAscend

LEMMA CheckOrdered ==
  ASSUME TypeInv, EntryInv, NEW s \in Sessions, Ordered(s), CheckPosting(s) \/ CheckAccountUse(s),
         ~Reject(s)
  PROVE  Ordered(s)'
  <1> DEFINE v == WithPc(ses[s], "write")
  <1>1. ses[s].pc = "lockAccounts" /\ ses'[s] = v
    BY DEF CheckPosting, CheckAccountUse, At, Goto, WithPc, TypeInv, TypeOK
  <1>2. ses'[s].pc = "write" /\ txLock' = txLock
    BY <1>1 DEF WithPc, TypeInv, TypeOK, Session, CheckPosting, CheckAccountUse, locks
  <1> QED BY <1>1, <1>2 DEF Ordered, RowsHeld, AccountsAscend, At

LEMMA EndOrdered ==
  ASSUME TypeInv, NEW s \in Sessions, Release(s)
  PROVE  Ordered(s)'
  <1>1. ses'[s].pc = "idle" /\ \A t \in TxIds : txLock'[t] # s
    BY ReleaseFrees, SessionAssumption DEF Release, Idle, TypeInv, TypeOK
  <1> QED BY <1>1 DEF Ordered, RowsHeld, AccountsAscend, At

LEMMA LockInvStep ==
  ASSUME TypeInv, EntryInv, LockInv, [Next]_vars
  PROVE  LockInv'
  <1> SUFFICES ASSUME NEW x \in Sessions PROVE Ordered(x)'
    BY DEF LockInv
  <1>0. Ordered(x)
    BY DEF LockInv
  <1>1. CASE LeavesTo(x)
    <2>1. CASE At(x, "lockAccounts")
      <3>1. Op(x) \in {"create", "update", "account"}
        BY <2>1, RequestInStep DEF At, OpsAt
      <3> QED BY <1>0, <1>1, <3>1, WantedAccounts, OrderedFrame
    <2>2. CASE ~At(x, "lockAccounts")
      BY <1>0, <1>1, <2>2 DEF Ordered, RowsHeld, AccountsAscend, LeavesTo, At, Tx
    <2> QED BY <2>1, <2>2
  <1>2. CASE Acts(x)
    <2>1. CASE Release(x)
      BY <2>1, EndOrdered
    <2>2. CASE ~Release(x)
      <3>1. ~Reject(x) /\ ~Commit(x) /\ ~Respond(x) /\ ~Rollback(x)
        BY <2>2 DEF Reject, Respond, Rollback, Commit, CommitCreate, CommitRefund, CommitUpdate,
                    CommitTouch, CommitDelete, CommitAccount
      <3> QED BY <1>0, <1>2, <3>1, BeginOrdered, ReadTransactionOrdered, LockTransactionOrdered,
                 ReadEntriesOrdered, ReadRefundsOrdered, LockOriginalOrdered, LockAccountOrdered,
                 CheckOrdered DEF Acts, Lock, Work
    <2> QED BY <2>1, <2>2
  <1>3. ASSUME NEW s \in Sessions, Acts(s) PROVE Ordered(x)'
    BY <1>1, <1>2, <1>3, ActsAlone
  <1>4. CASE UNCHANGED <<ses, txLock, accLock>>
    BY <1>1, <1>4 DEF LeavesTo
  <1> QED BY <1>3, <1>4 DEF Next, Acts, OpenAccount, locks, vars

LEMMA LockInvInit == Init => LockInv
  <1> SUFFICES ASSUME Init PROVE LockInv
    OBVIOUS
  <1>1. \A s \in Sessions : At(s, "idle") /\ \A t \in TxIds : txLock[t] # s
    BY SessionAssumption DEF Init, Idle, At
  <1> QED BY <1>1 DEF LockInv, Ordered, RowsHeld, AccountsAscend, At

\* Whom a session waits for, and how late in the order of locks.
Waits(s) ==
  \/ At(s, "lockTransaction") /\ Awaited(s) = txLock[Tx(s)]
  \/ At(s, "lockOriginal") /\ Awaited(s) = txLock[ses[s].row.reverses]
  \/ At(s, "lockAccounts") /\ Missing(s) # {}

NextAccount(s) == CHOOSE a \in Accounts : IsNextAccount(s, a)

Rank(s) == IF At(s, "lockTransaction") THEN 0 ELSE IF At(s, "lockOriginal") THEN 1 ELSE 2
LockId(s) == IF At(s, "lockAccounts") THEN NextAccount(s) ELSE 0

LEMMA AwaitsAccount ==
  ASSUME TypeInv, NEW s \in Sessions, At(s, "lockAccounts"), Missing(s) # {}
  PROVE  /\ NextAccount(s) \in Accounts /\ NextAccount(s) \in Nat /\ NextAccount(s) \in Missing(s)
         /\ Awaited(s) = accLock[NextAccount(s)]
  <1>1. Missing(s) \subseteq Accounts /\ Accounts \subseteq Nat
    BY WantedAccounts, RequestInStep DEF At, OpsAt
  <1>2. PICK a \in Missing(s) : \A b \in Missing(s) : a <= b
    BY <1>1, LeastNat
  <1>3. IsNextAccount(s, a) /\ a \in Accounts
    BY <1>1, <1>2 DEF IsNextAccount
  <1>4. NextAccount(s) \in Accounts /\ IsNextAccount(s, NextAccount(s))
    BY <1>3 DEF NextAccount
  <1>5. Awaited(s) = accLock[NextAccount(s)]
    BY DEF Awaited, NextAccount, At
  <1> QED BY <1>1, <1>4, <1>5 DEF IsNextAccount

LEMMA OnlyWaitersAwait ==
  ASSUME TypeInv, NEW s \in Sessions, Awaited(s) \in Sessions
  PROVE  Waits(s)
  <1>1. CASE At(s, "lockTransaction")
    BY <1>1 DEF Awaited, Waits, At
  <1>2. CASE At(s, "lockOriginal")
    BY <1>2 DEF Awaited, Waits, At
  <1>3. CASE ~At(s, "lockTransaction") /\ ~At(s, "lockOriginal")
    <2>1. At(s, "lockAccounts") /\ Missing(s) # {}
      <3>1. CASE ~(At(s, "lockAccounts") /\ Missing(s) # {})
        <4>1. Awaited(s) = NoSession
          BY <1>3, <3>1 DEF Awaited
        <4> QED BY <4>1, SessionAssumption
      <3> QED BY <3>1
    <2> QED BY <2>1 DEF Waits
  <1> QED BY <1>1, <1>2, <1>3

LEMMA NoCircle ==
  ASSUME TypeInv, RefundInv, EntryInv, LockInv, NEW D, D \subseteq Sessions, D # {},
         \A s \in D : Awaited(s) \in D
  PROVE  FALSE
  <1>1. \A s \in D : Waits(s)
    BY OnlyWaitersAwait
  <1> DEFINE rank == [s \in D |-> Rank(s)]
             id == [s \in D |-> LockId(s)]
  <1>2. rank \in [D -> Nat] /\ id \in [D -> Nat] /\ IsFiniteSet(D)
    <2>1. \A s \in D : Rank(s) \in Nat
      BY DEF Rank
    <2>2. \A s \in D : LockId(s) \in Nat
      BY <1>1, AwaitsAccount DEF LockId, Waits, At
    <2>3. IsFiniteSet(D)
      BY SessionAssumption, FS_Subset
    <2> QED BY <2>1, <2>2, <2>3
  <1>3. PICK s \in D : \A t \in D : rank[t] < rank[s] \/ (rank[t] = rank[s] /\ id[t] <= id[s])
    <2> HIDE DEF rank, id
    <2> QED BY <1>2, LastInOrder
  <1> DEFINE h == Awaited(s)
  <1>4. /\ s \in Sessions /\ h \in D /\ h \in Sessions /\ Waits(s) /\ Waits(h)
        /\ Ordered(s) /\ Ordered(h)
        /\ Rank(h) < Rank(s) \/ (Rank(h) = Rank(s) /\ LockId(h) <= LockId(s))
    BY <1>1, <1>3 DEF LockInv
  <1> HIDE DEF h, rank, id
  <1>5. CASE At(s, "lockTransaction")
    <2>1. At(h, "lockTransaction")
      BY <1>4, <1>5 DEF Rank, Waits, At
    <2>2. txLock[Tx(s)] = h /\ Tx(s) \in TxIds
      BY <1>4, <1>5, RequestInStep DEF h, Waits, At, OpsAt
    <2> QED BY <1>4, <2>1, <2>2 DEF Ordered, RowsHeld, At
  <1>6. CASE At(s, "lockOriginal")
    <2> DEFINE o == ses[s].row.reverses
    <2>1. Op(s) = "delete" /\ Tx(s) \in TxIds
      BY <1>4, <1>6, RequestInStep DEF At, OpsAt
    <2>2. ses[s].row = txs[Tx(s)] /\ txs[Tx(s)].status = "ACTIVE" /\ ses[s].row.adj = "REFUND"
      BY <1>4, <1>6, <2>1 DEF RefundInv, HoldsRow, Decided, DeleteDecided, At
    <2>3. o \in TxIds /\ txs[o].adj = "NORMAL"
      BY <2>1, <2>2 DEF RefundInv, RefundLineage, Refundable
    <2>4. txLock[o] = h
      BY <1>4, <1>6 DEF h, Waits, At
    <2>5. ~At(h, "lockTransaction") /\ (At(h, "write") \/ o = Tx(h))
      BY <1>4, <2>3, <2>4 DEF Ordered, RowsHeld, At
    <2>6. At(h, "lockOriginal")
      BY <1>4, <1>6, <2>5 DEF Rank, Waits, At
    <2>7. o = Tx(h) /\ Op(h) = "delete"
      BY <1>4, <2>5, <2>6, RequestInStep DEF At, OpsAt
    <2>8. ses[h].row = txs[o] /\ ses[h].row.adj = "REFUND"
      BY <1>4, <2>6, <2>7 DEF RefundInv, HoldsRow, Decided, DeleteDecided, At
    <2> QED BY <2>3, <2>8
  <1>7. CASE At(s, "lockAccounts")
    <2> DEFINE a == NextAccount(s)
    <2>1. a \in Accounts /\ a \in Nat /\ accLock[a] = h /\ LockId(s) = a
      BY <1>4, <1>7, AwaitsAccount DEF Waits, At, LockId, h
    <2>2. At(h, "lockAccounts") /\ Missing(h) # {}
      BY <1>4, <2>1 DEF Waits, At, EntryInv, Knows, SeenIsCurrent
    <2>3. LockId(h) \in Missing(h) /\ LockId(h) \in Nat
      BY <1>4, <2>2, AwaitsAccount DEF LockId
    <2>4. a < LockId(h)
      BY <1>4, <2>1, <2>2, <2>3 DEF Ordered, AccountsAscend
    <2>5. Rank(h) = 2 /\ Rank(s) = 2
      BY <1>7, <2>2 DEF Rank, At
    <2>6. LockId(h) <= a
      BY <1>4, <2>1, <2>5
    <2> QED BY <2>1, <2>3, <2>4, <2>6
  <1> QED BY <1>4, <1>5, <1>6, <1>7 DEF Waits

\* No set of requests waits for row locks inside the set, however many there are:
\* PostgreSQL never has a deadlock of theirs to break.
THEOREM RequestsNeverDeadlock == Spec => []NoDeadlock
  <1>1. TypeInv /\ RefundInv /\ EntryInv /\ LockInv => NoDeadlock
    BY NoCircle DEF NoDeadlock
  <1> QED BY <1>1, LockInvInit, LockInvStep, EntryInvariant, PTL DEF Spec
=============================================================================
