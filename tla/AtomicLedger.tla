---------------------------- MODULE AtomicLedger ----------------------------
(***************************************************************************)
(* What the ledger promises: every request takes effect at one instant, in *)
(* the state of that instant, as if the household used it one request at a *)
(* time. No lock, no session, no statement order.                          *)
(***************************************************************************)
EXTENDS LedgerRules

CONSTANTS InitialKind   \* the classification each account is opened with

VARIABLES
  txs,        \* rows of transactions
  entries,    \* rows of transaction_account_entries, by transaction
  accounts    \* rows of accounts

Init ==
  /\ txs = [t \in TxIds |-> AbsentRow]
  /\ entries = [t \in TxIds |-> {}]
  /\ accounts = [a \in Accounts |-> NoAccount]

Insert(row, es) ==
  \E t \in TxIds :
    /\ txs[t].status = "ABSENT"
    /\ txs' = [txs EXCEPT ![t] = row]
    /\ entries' = [entries EXCEPT ![t] = es]
    /\ UNCHANGED accounts

\* A new transaction, on active accounts of a supported classification.
Create ==
  \E p \in Posting, m \in Members :
    /\ PostingAllowed(p, accounts)
    /\ Insert(NewRow(p.type, p.amount, p.note, m, "NORMAL", NoTx),
              PostingEntries(p, accounts))

\* A refund of at most what is left, on the original's account, reversed.
Refund ==
  \E o \in TxIds, amount \in Amounts, n \in Notes, m \in Members :
    /\ txs[o].status = "ACTIVE"
    /\ Refundable(txs[o])
    /\ amount <= txs[o].amount - RefundedAmount(txs, o)
    /\ \E e \in entries[o] :
         Insert(NewRow("EXPENSE", amount, n, m, "REFUND", o),
                {PrimaryEntry(e.account, IF e.delta > 0 THEN -amount ELSE amount)})

\* A transaction nothing refunds may become any other one; it may stay on an
\* account archived since, but never move to one.
Update ==
  \E t \in TxIds, p \in Posting, m \in Members :
    LET kept == {e.account : e \in entries[t]}
        new  == [txs[t] EXCEPT !.type = p.type, !.amount = p.amount,
                               !.note = p.note, !.by = m]
    IN  /\ txs[t].status = "ACTIVE" /\ txs[t].adj = "NORMAL"
        /\ ActiveRefunds(txs, t) = {}
        /\ PostingSupported(p, accounts)
        /\ \A a \in AccountsOf(p) : accounts[a].archived => a \in kept
        /\ txs' = [txs EXCEPT ![t] = Saved(txs[t], new)]
        /\ entries' = [entries EXCEPT ![t] = PostingEntries(p, accounts)]
        /\ UNCHANGED accounts

\* A refunded original keeps everything but its note.
Touch ==
  \E t \in TxIds, n \in Notes, m \in Members :
    /\ txs[t].status = "ACTIVE" /\ ActiveRefunds(txs, t) # {}
    /\ txs' = [txs EXCEPT ![t] = Saved(@, [@ EXCEPT !.note = n, !.by = m])]
    /\ UNCHANGED <<entries, accounts>>

\* Only what nothing refunds can be deleted; its entries stay as evidence.
Delete ==
  \E t \in TxIds, m \in Members :
    /\ txs[t].status = "ACTIVE" /\ ActiveRefunds(txs, t) = {}
    /\ txs' = [txs EXCEPT ![t] = Saved(@, [@ EXCEPT !.status = "DELETED", !.by = m])]
    /\ UNCHANGED <<entries, accounts>>

OpenAccount ==
  \E a \in Accounts :
    /\ accounts[a].kind = "ABSENT"
    /\ accounts' = [accounts EXCEPT ![a] = [kind |-> InitialKind[a], archived |-> FALSE]]
    /\ UNCHANGED <<txs, entries>>

\* The classification is fixed once any entry, even a deleted one, uses it.
ChangeAccount ==
  \E a \in Accounts, k \in Kinds, archived \in BOOLEAN :
    /\ accounts[a].kind # "ABSENT"
    /\ k # accounts[a].kind => ~HasLedgerEntries(entries, a)
    /\ accounts' = [accounts EXCEPT ![a] = [kind |-> k, archived |-> archived]]
    /\ UNCHANGED <<txs, entries>>

Next == Create \/ Refund \/ Update \/ Touch \/ Delete \/ OpenAccount \/ ChangeAccount

vars == <<txs, entries, accounts>>
Spec == Init /\ [][Next]_vars
=============================================================================
