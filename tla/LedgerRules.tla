---------------------------- MODULE LedgerRules ----------------------------
(***************************************************************************)
(* The rows of the household ledger and the pure posting rules that        *)
(* TransactionService and TransactionEntrySetValidator compute from them.  *)
(* No state lives here: Ledger (the sessions of the backend) and           *)
(* AtomicLedger (what the ledger promises) both extend this module.        *)
(***************************************************************************)
EXTENDS Integers, FiniteSets

CONSTANTS
  TxIds,        \* identifiers of the rows of table transactions
  Accounts,     \* identifiers of the rows of table accounts
  MaxAmount,    \* bound on the amount of one transaction, in won
  Notes,        \* the columns no rule reads: occurredAt, memo, scope, owner, ...
  Members       \* the household members who act on the ledger

ASSUME TxIdsAssumption == TxIds \subseteq Nat \ {0} /\ IsFiniteSet(TxIds)
ASSUME AccountsAssumption == Accounts \subseteq Nat
ASSUME MaxAmountAssumption == MaxAmount \in Nat \ {0}
ASSUME PayloadAssumption == Notes # {} /\ Members # {}

Amounts == 1..MaxAmount
NoTx == 0

(***************************************************************************)
(* An account's nature and type matter only as its posting classification: *)
(* ASSET, CREDIT_CARD (always a LIABILITY) or another LIABILITY.           *)
(***************************************************************************)
Kinds == {"ASSET", "CARD", "LOAN"}
AccountRow == [kind: Kinds \union {"ABSENT"}, archived: BOOLEAN]
NoAccount == [kind |-> "ABSENT", archived |-> FALSE]

TransactionTypes == {"INCOME", "EXPENSE", "TRANSFER"}

Row == [status: {"ABSENT", "ACTIVE", "DELETED"}, type: TransactionTypes,
        amount: Amounts, note: Notes, by: Members, adj: {"NORMAL", "REFUND"},
        reverses: TxIds \union {NoTx}, version: Nat]

\* An identifier not used yet.
AbsentRow ==
  [status |-> "ABSENT", type |-> "EXPENSE", amount |-> 1,
   note |-> CHOOSE n \in Notes : TRUE, by |-> CHOOSE m \in Members : TRUE,
   adj |-> "NORMAL", reverses |-> NoTx, version |-> 0]

Entry == [account: Accounts, role: {"PRIMARY", "SOURCE", "DESTINATION"},
          delta: -MaxAmount..MaxAmount]

\* What a request says to post: `from' is the PRIMARY or the SOURCE account.
Posting == [type: TransactionTypes, amount: Amounts, note: Notes,
            from: Accounts, to: Accounts]

AccountsOf(p) == IF p.type = "TRANSFER" THEN {p.from, p.to} ELSE {p.from}

\* LedgerTransaction.create: a fresh row, version 0.
NewRow(type, amount, note, actor, adj, original) ==
  [status |-> "ACTIVE", type |-> type, amount |-> amount, note |-> note,
   by |-> actor, adj |-> adj, reverses |-> original, version |-> 0]

(***************************************************************************)
(* Posting rules.                                                          *)
(***************************************************************************)

\* primaryBalanceDelta accepts income on an asset, an expense on either.
PrimarySupported(type, kind) ==
  \/ type = "INCOME" /\ kind = "ASSET"
  \/ type = "EXPENSE" /\ kind \in {"ASSET", "CARD"}

PrimaryDelta(type, kind, amount) ==
  IF type = "EXPENSE" /\ kind = "ASSET" THEN -amount ELSE amount

PrimaryEntry(a, delta) == [account |-> a, role |-> "PRIMARY", delta |-> delta]

TransferEntries(from, to, amount, kindOfTo) ==
  {[account |-> from, role |-> "SOURCE", delta |-> -amount],
   [account |-> to, role |-> "DESTINATION",
    delta |-> IF kindOfTo = "ASSET" THEN amount ELSE -amount]}

PostingEntries(p, acc) ==
  IF p.type = "TRANSFER"
  THEN TransferEntries(p.from, p.to, p.amount, acc[p.to].kind)
  ELSE {PrimaryEntry(p.from, PrimaryDelta(p.type, acc[p.from].kind, p.amount))}

\* Classifications the posting may touch; archived accounts are judged apart.
PostingSupported(p, acc) ==
  IF p.type = "TRANSFER"
  THEN p.from # p.to /\ acc[p.from].kind = "ASSET" /\ acc[p.to].kind \in Kinds
  ELSE PrimarySupported(p.type, acc[p.from].kind)

PostingAllowed(p, acc) ==
  /\ PostingSupported(p, acc)
  /\ \A a \in AccountsOf(p) : ~acc[a].archived

(***************************************************************************)
(* TransactionEntrySetValidator.isValid: the one entry set a row may have. *)
(***************************************************************************)
ValidPrimary(r, es, acc) ==
  \E a \in Accounts :
    LET d == PrimaryDelta(r.type, acc[a].kind, r.amount)
    IN  /\ PrimarySupported(r.type, acc[a].kind)
        /\ es = {PrimaryEntry(a, IF r.adj = "REFUND" THEN -d ELSE d)}

ValidTransfer(r, es, acc) ==
  /\ r.adj = "NORMAL"
  /\ \E from, to \in Accounts :
       /\ from # to
       /\ acc[from].kind = "ASSET"
       /\ acc[to].kind # "ABSENT"
       /\ es = TransferEntries(from, to, r.amount, acc[to].kind)

ValidEntries(r, es, acc) ==
  /\ IF r.adj = "REFUND" THEN r.type = "EXPENSE" /\ r.reverses # NoTx
                         ELSE r.reverses = NoTx
  /\ IF r.type = "TRANSFER" THEN ValidTransfer(r, es, acc)
                            ELSE ValidPrimary(r, es, acc)

(***************************************************************************)
(* Refund bookkeeping. A sum of amounts is counted won by won: the pairs   *)
(* <<refund, k>> with k up to the refund's amount.                         *)
(***************************************************************************)
ActiveRefunds(T, o) ==
  {r \in TxIds : T[r].status = "ACTIVE" /\ T[r].adj = "REFUND" /\ T[r].reverses = o}

Won(T, S) == {w \in S \X Amounts : w[2] <= T[w[1]].amount}

RefundedAmount(T, o) == Cardinality(Won(T, ActiveRefunds(T, o)))

\* requireRefundOriginal: what may be refunded.
Refundable(r) == r.type = "EXPENSE" /\ r.adj = "NORMAL" /\ r.reverses = NoTx

\* Hibernate raises @Version only when a column of the row itself changed.
Saved(old, new) == IF new = old THEN old ELSE [new EXCEPT !.version = old.version + 1]

\* hasLedgerEntries: any entry, of deleted transactions too.
HasLedgerEntries(E, a) == \E t \in TxIds : \E e \in E[t] : e.account = a
=============================================================================
