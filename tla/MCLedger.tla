------------------------------ MODULE MCLedger ------------------------------
(***************************************************************************)
(* Instances of Ledger for TLC.                                            *)
(***************************************************************************)
EXTENDS Ledger, TLC

SessionSymmetry == Permutations(Sessions)

Post(type, amounts, froms, tos) ==
  [type: {type}, amount: amounts, note: Notes, from: froms, to: tos]

\* Account 1 is a bank account, 2 a credit card.
BankAndCard == [a \in Accounts |-> IF a = 2 THEN "CARD" ELSE "ASSET"]

\* Expenses on one account: the refund life cycle.
Expenses == Post("EXPENSE", Amounts, {1}, {1})

\* Transfers both ways between the two accounts and a card expense: everything
\* that locks accounts.
Transfers == Post("TRANSFER", {1}, {1}, {2}) \union Post("TRANSFER", {1}, {2}, {1})
               \union Post("EXPENSE", {1}, {2}, {2})

\* The same expense on either account: an edit of nothing but the account.
AccountEdits == Post("EXPENSE", {1}, {1}, {1}) \union Post("EXPENSE", {1}, {2}, {2})

NoChanges == {}
\* The bank account becomes a card, which is refused once it has entries, and
\* either account is archived.
Reclassify == {<<"CARD", TRUE>>}
=============================================================================
