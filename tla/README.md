# Verification of our-ledger

TLA+ specifications of our-ledger, a two-person household finance PWA: a Spring
Boot backend over PostgreSQL, a React frontend and the Python/shell tools that
deploy, back up and watch the production host. Every definition is translated
from the code; the line it stands for is in `PROJECT.json` under `map`.

- [1. Inventory](#1-inventory) — the parts, their state, what is hard in them
- [2. Modules](#2-modules) — which module models what, and how it corresponds to the code
- [3. Runs](#3-runs) — what TLC checks, with which bounds, and why they suffice
- [4. Fairness and deadlock checking](#4-fairness-and-deadlock-checking)
- [5. Proofs](#5-proofs) — what TLAPS proves, from what, along which argument
- [6. Disagreements found](#6-disagreements-found)
- [7. Assumptions about the environment](#7-assumptions-about-the-environment)
- [8. Not modelled, and why](#8-not-modelled-and-why)
- [9. Plan](#9-plan)
- [10. Running the checks](#10-running-the-checks)

`J` below is `src/backend/src/main/java/io/github/xxh3898/ourledger`, `S` is
`src/scripts`.

## 1. Inventory

### Backend (`J`)

| Component | State | Operations | What is hard | What makes it correct |
|---|---|---|---|---|
| Ledger transactions, refunds (`transaction`) | `transactions` (status, type, amount, `version`, `reverses`), `transaction_account_entries` | create, refund, update, delete, refund summary; createGenerated for the scheduler | several READ COMMITTED statements per request; which rows are locked and in which order; optimistic version against managed entities | refunds stay within an unchanged original; entries always match the transaction; a stale edit never wins |
| Accounts (`account`) | `accounts` (nature, type, archived) | create, update; balance reads | reclassifying or archiving while a posting is on its way | no posting on an account that does not support it; net worth follows spending |
| Recurring rules, generation (`recurring`) | `recurring_transactions` with the cursor `next_date`, `version`; template accounts | create, update (pause, resume, reschedule); poll, generate one occurrence | overlapping polls, failures between two rules, edits during generation, month ends | each due occurrence is generated once, from the rule as it is then; none is lost |
| Categories and groups (`category`) | `categories`, `category_groups` | create, update (move, archive) | archiving next to a rule that is being created on them | active rules keep usable references |
| Marriage goal (`goal`) | one goal per household, linked accounts with a starting balance | create, update, link, unlink, view | unlocked balance reads, unique index decides a race | one goal; the baseline is a balance the account had |
| Budgets (`budget`) | `budgets`, unique identity per month/scope/category | create, update, delete, month view | duplicate check before the unique index, version compare without a lock | one budget per identity; a stale edit never wins |
| Household, bootstrap (`household`, `bootstrap`) | household, members, identities | provision, join | two provisioning runs; a third member | at most two members; provisioning is all or nothing |
| Assets, statistics, calendar, export | none | read-only aggregations | several statements in one answer | sums agree with the ledger |
| Identity, security, API (`identity`, `security`, `api`) | none | per request | — | — |
| Scheduler health (`recurring/RecurringSchedulerOperationalState`) | in-memory record under a Java monitor: last start, last completion and its outcome, failures of the last poll | record poll start, rule failure, completion; read | a reader in the middle of a poll | a stuck scheduler is seen, a failed poll is counted as failed |

### Production host (`S`)

| Component | State | Operations | What is hard | What makes it correct |
|---|---|---|---|---|
| Deployment transaction (`host_tools/deploy_transaction.py`, `host_state.py`, `production_deploy.py`, `production_host.py`) | operation lock (a directory), `pending/transaction.json`, `state/deployment.json`, link `current`, image pair in `.env`; running containers, database schema | deploy, recover, standalone backup | crash at any step, errors after the effect, recovery by the run itself or by the next one, migration that cannot be undone | the host is wholly on a committed release or a record says where it stopped |
| Fresh-host bootstrap (`host_tools/fresh_*`, `production_fresh_bootstrap.py`) | its own state file and phases | install, resume | crash points, foreign resources | installs once or resumes where it stopped |
| Backup bundles (`backup_tools/backup_artifact.py`, `backup_core.sh`) | staging directory, final bundles, `last-success.json`, the operation lock | dump, publish, mark, roll back; verify, inventory, retention plan | a kill between rename and marker, a rollback that fails, a migration during the dump, a plan carried out days later | the marker names a whole bundle of the schema it says; the daily points stay |
| Off-site replication (`backup_tools/offsite_backup.py`) | ciphertexts in iCloud, own marker, files in its state directory, flock | select, encrypt, copy, revalidate, publish, mark, roll back; status | the local bundle changes meanwhile; a kill or error at any step, a leftover stops later runs | the marker names a complete copy; the latest bundle is copied in the end |
| Monitor (`status_tools/monitor_policy.py`, `monitor_worker.py`) | `monitor-state.json`: observation time, failure streaks, last poll seen, disk episode and pending event; flock | load, deliver, evaluate, save, deliver, save | an event sent but not recorded, two runs in one second, a kill while saving | each episode reported once, in order; streaks count time, not runs |
| Production status (`status_tools/production_status.py`) | none: one snapshot | observe containers, origin, scheduler, backup, disk | stamped before it is read | nothing in it is younger than its stamp |
| Release contract, CI tools | none durable | classify, validate, parse | — | — |

### Frontend (`src/frontend/src`)

Screens load data with abortable requests; a late answer of a screen that was
left must be dropped. The rest is rendering.

### How they interact

The backend's requests and the scheduler share only the database: row locks
(`SELECT ... FOR UPDATE`), optimistic `version` columns, unique and CHECK
constraints. Account and category PATCHes decide what later postings may do;
recurring generation posts through the ledger service. The deployment replaces
the backend's containers and runs its migrations; it shares the operation lock
with the standalone backup and reports to the same event sink as the monitor.
The off-site worker reads the bundles and the marker of the local backup without
its lock; the monitor reads everybody's state through the status command.
The frontend sends back the `version` it was shown.

The hazards of all components, with the line where each one bites and the
property that covers it (or why none does yet), are `hazards` in `PROJECT.json`.

## 2. Modules

```
LedgerRules ──┬── AtomicLedger          what the ledger promises
              ├── Ledger ── MCLedger    the sessions that implement it
              │     └── LedgerProofs (and OrderProofs)
RecurrenceSchedule ─┬─ MCRecurrenceSchedule ── CursorProofs (and RecurrenceProofs)
                    ├─ RecurrenceProofs     the calendar and the candidates
                    └─ Recurring (also extends LedgerRules) ── MCRecurring
                          └── RecurringProofs (and RecurrenceProofs, OrderProofs)
DeployTransaction ─┬─ MCDeployTransaction
                   └─ DeployProofs
MonitorPolicy ── Monitor ─┬─ MCMonitor
                    │     └─ MonitorProofs
                    └─ implements DiskEpisodes
BackupBundle ── Offsite ─┬─ MCBackupChain
                         └─ BackupProofs (and OrderProofs)
OrderProofs                             a least and a greatest one of finitely many
```

A definition whose comment says *mutant* (or *mutated form*) is an intentionally
wrong version of the definition below it; `mutants` in `PROJECT.json` names the
property that rejects it. No other definition uses it.

### LedgerRules
Rows, entries and the pure posting rules (`TransactionService`,
`TransactionEntrySetValidator`): which types an account supports, the signed
entries of a posting, what an entry set must look like, what can still be
refunded. An account's nature and type are one of ASSET, CARD, LOAN, which is
all the rules distinguish. `Notes` stands for the columns no rule reads.

### AtomicLedger
The promise: every request takes effect at one instant, as if the household
used the ledger one request at a time. No session, lock or statement.

### Ledger
The promise's implementation. One action per statement another session can see
or be seen by:

| Code | Actions |
|---|---|
| `create` | `BeginCreate`, `LockAccount`*, `CheckPosting`, `CommitCreate` |
| `createRefund` | `BeginRefund`, `LockTransaction`, `ReadEntries`, `ReadRefunds`, `CommitRefund` |
| `update` | `BeginUpdate`, `LockTransaction`, `ReadEntries`, `ReadRefunds`; then `LockAccount`*, `CheckPosting`, `CommitUpdate`, or `CommitTouch` if refunds exist and nothing financial changes |
| `delete` | `BeginDelete`, `LockTransaction`, `ReadEntries`, `ReadRefunds` (of a refund: `LockOriginal`), `CommitDelete` |
| `findRefunds` | `BeginSummary`, `ReadTransaction`, `ReadEntries`, `ReadRefunds`, `Respond` |
| `AccountService.create/update` | `OpenAccount`; `BeginAccount`, `LockAccount`, `CheckAccountUse`, `CommitAccount` |
| a failed check, a dead session | `Reject`, `Rollback` |

`txs`, `entries`, `accounts` hold committed rows only. No handler reads back
what it wrote, so its writes belong to the commit step. What a session has read
(`ses[s].row`, `.old`, `.seen`, `.refunded`) stays as it was read, as a managed
entity does: a locking query does not refresh an instance loaded before.
`Saved` moves the version only when a column of the row changed (dirty
checking). `base` in a request is what its client was shown; only properties
read it.

### RecurrenceSchedule, MCRecurrenceSchedule
The date arithmetic of `RecurrenceSchedule.java` on day numbers, as functions and
operators without recursion: next daily, weekly, monthly and yearly date, first
on or after a date, first after an instant. `java.time` calls (length of a
month, leap years, `atDay`) are external and follow the Gregorian calendar.
`MCRecurrenceSchedule` walks a cursor as its callers do and compares it with a
definition of an occurrence that computes no candidates.

### Recurring
Workers run `Poll` (read due rules, oldest first, at most `Batch`), then per rule
`LockRule`, `CheckExists`, `CheckCategory`, `LockPostingAccount`, `Generate`
(insert and cursor move, one commit), or `RuleFailed`; `StatementFails` and
`Crash` cut in anywhere. Users run create and update of rules and PATCHes of
categories, groups and accounts: `Begin…`, `LockRow` in the order of the code,
`ReadUsage` where the reference guard asks for active rules, `Commit…`.
`DeleteGenerated` is a member deleting a generated transaction. The clock counts
half days, so that two local times of a day exist. `since` is a history variable.
Categories have no type here, and only one kind of user edits a rule.

### DeployTransaction
`lock`, `pending`, `committed`, `link`, `env` are the durable host state, `api`
(revision of the running API or `Stopped`), `schema`, `orphan` the runtime,
`leftovers` what writes cut short left in the managed directories (a temporary
`entry` beside the record, the state file or the link; an abandoned `stage` among
the releases), `proc[p]` where a deployment process is with the locals of
`run_deployment`.

| Code | Actions |
|---|---|
| `run_deployment` | `Request`, `Acquire`, `Inspect`, `Stage`, `ReportRunning`, `Quiesce`, `RunBackup`, `Migrate`, `ReadAfter`, `Cutover`, `Ready`, and `Advance` for each recorded phase |
| `persist_candidate_images`, `commit_pending` | `PersistImages`, `MarkCommitting`, `CheckPredecessor`, `WriteState`, `Unlink`, `Success` |
| `_recover_failed_transaction` | `Relock`, `Reconsider`, `Restore`, `Clear` |
| `recover_pending`, `finish_committed_pending` | `Observe`, then `Restore`/`Clear` or `PersistImages`…/`Finish`… |
| `run_standalone_backup` | `BeginBackup`, `EndBackup` |
| `validate_layout`, before every attempt to take the lock | `LayoutValid` in `Acquire`, `Relock`, `BeginBackup` |
| `_atomic_write_json`, `_write_current`, `stage_release`, stopped half-way | `CutShort` (the error stops the clean-up, too), and what `Kill` leaves (`Remains`) |
| outside the program | `Kill`, `Interrupt`, `RemoveStaleLock`, `RemoveLeftover`, `OrphanEnds` |

A step succeeds, or raises with its effect done or not (a rename is done and the
directory's fsync fails), and the process may be killed (its lock stays) or
interrupted (its lock goes, the clean-up of a write runs, nothing recovers) before
any step. A killed write may leave its temporary entry; so may one whose error also
stops the removal. `home` (the schema
the committed release was verified with), `attention` (an operator was called
for, or a process ended) and `strayed` (a migration container outlived its client
and then moved the schema) are history variables.

### MonitorPolicy
What one run of the monitor computes, as operators: the snapshot of
`production_status.py` (`Snapshot`, `ValidSnapshot`) and the evaluator of
`monitor_policy.py` (`NextStreaks`, `NextRuleStreak`, `AllSignals`, `Prepared`,
`Finalized`, `ValidState`). Instants are ages counted back from the read, so that
no clock grows: the collector stamps its snapshot first and reads afterwards, and
a stamp of age `lag` is older than whatever happened since. Two containers stand
for the three, since PostgreSQL is observed as the API is and nothing is read
through it.

### Monitor, DiskEpisodes
The runs over one state file, one flock and the HomeOps reporter.

| Code | Actions |
|---|---|
| `run_monitor` up to the lock, `MonitorLock`, `MonitorStateStore.load` | `Start`, `Load` |
| `collect` | `Stamp`, then `Observe` or `CollectFails` |
| `evaluate`, `prepare_homeops_disk_transition` | `Observe` |
| `MonitorStateStore.save` | `WriteTemp`, `Replace`, `SaveFails` |
| `send_homeops_signal`, `finalize_homeops_pending` | `SendAccepted`, `SendRefused` (the event may have arrived all the same) |
| `RecurringSchedulerOperationalState` | `PollStarts`, `RuleFails`, `PollCompletes`, `ApiRestarts` |
| the rest of the observed system, the clock, the operating system | `ServiceChanges`, `ProbeFlips`, `BackupChanges`, `DiskChanges`, `AuthorityChanges`, `Tick`, `Kill` |

`residue` holds the runs whose temporary file is left in the state directory: a
run refuses to start beside one. `ghost` (how long a target has been failing, the
polls completed and whether the last one failed) is a history variable.
`DiskEpisodes` is what HomeOps is promised: numbered episodes, each opened and
closed once and in order. `Monitor` implements it with the episode and the
openness read off the set of accepted events, in which a repeated event does not
show because its key is the same.

### BackupBundle, Offsite
`BackupBundle` is the local backup: `Begin`, `Stage`, `Dump`, `Describe`,
`Publish`, `Mark`, `Settle`, undone by `Restore` and `Remove` in the opposite
order when a step fails (`StepFails`, which may also hit the undoing), and
`KillCore`, after which the operation lock stays. `Plans` and `Prunes` are the
retention plan and the operator who carries it out, at any later time. What the
validators ask of the places they are given (`Private`, `Canonical`, `Dedicated`,
`ComposeTrusted` …) is one operator per check over `host`, which says what is
wrong with each place; `HostChanges` makes it wrong and right again.

`Offsite` extends it with the worker: `OffBegin`, `Select`, `Encrypt`, `Copy`,
`Revalidate`, `Rename`, `Recheck`, `WriteMarker`, `SyncMarker`, `Tidy`; `OffFails`
at any of them, then `PutBack` and `Discard`; `OffKilled`, after which its files
stay until `OperatorTidies`. `off.source` is the bundle it selected, with the
fingerprint, `off.cipher` what it really encrypted: the difference is what
`SourceUnchanged` must notice. `rotted` and `lost` (bundles and ciphertexts the
disk or iCloud destroyed) and `points` (days with a bundle from 06:00 on) are
history variables.

## 3. Runs

Runs that pass (TLC finishes, nothing violated):

| Run | Asks | Bounds, and why they suffice |
|---|---|---|
| `ledger_refunds` | `TypeOK`; `RefundCap`, `RefundLineage`: active refunds sum to at most the original and reverse a live expense of the same account; `VersionGuardsRow`: an edit only commits on the row its client was shown; `RefundedOriginalFrozen` | 2 sessions, 3 rows, 1 account, 2 won, 2 edits per row. A cap of 2 with two refunds of 1 or 2 is the smallest case that can overrun; two sessions suffice since a conflict is between two holders of one row. All five are also proved for all values |
| `ledger_postings` | `EntrySetsValid` under the present classifications; `ImplementsAtomicLedger` (refinement); `NoDeadlock`; `EveryRequestEnds`: each request of each kind is answered | 2 sessions, 2 rows, an asset and a card, transfers both ways, archiving and reclassifying, one edit per row. A transfer takes two account locks, so a cycle needs two sessions and two accounts. A transfer onto itself locks one account and is refused (`TransactionService.java:570`); it is left to the proofs. No symmetry, as liveness is checked. All but `EveryRequestEnds` are also proved for all values |
| `recurrence_dates` | `CursorOccurs`, `NothingSkipped`, `ResumesAtFirstFuture`: the cursor is always an occurrence, no occurrence is stepped over, resuming lands on the first one in the future | month ends, a leap day and an ordinary day as anchors, every frequency, intervals 1 and 4 (four years cross a leap year, four months cross short months), three moves. All three are also proved, for every anchor and interval |
| `recurring_generation` | `TypeOK`; `NothingLost`; `ConstraintNeverNeeded`: the unique index is never what stops a double generation; `ActiveCursorOnSchedule`; `GeneratedOnceFromRule` | 2 overlapping workers, 1 user, 1 rule, 2 dates of 2 half days, edits up to version 2, 1 failure or crash. Rules do not interact but through batches, which `recurring_progress` covers. All five are also proved for all values |
| `recurring_references` | `ActiveReferencesUsable`; `NoDeadlock` across rule, category, group and account locks | 1 worker, 2 users, a category that may move to a group, two accounts, archive and reclassify. Both are also proved for all values |
| `recurring_progress` | `DueIsHandled`: a due occurrence is generated, or its rule paused or rescheduled | 2 rules competing for a batch of 1, one failure |
| `monitor` | `TypeOK`; `StateNeverRejected`: a run, killed anywhere, never leaves a state that the next one refuses; `StreaksFollowTheClock`: however many runs observe an outage in one instant, two count it; `SamePollCountedOnce`; `NothingSentUnsaved`: only the event on file is ever sent; `ImplementsEpisodes` (refinement); `LowDiskReported` | the agent's runs and an operator's, 1 failed save or kill, 2 disk episodes (the second one numbers on), 3 polls (the third failure in a row is the critical one), streaks up to 3, where they stop mattering. A poll is late after 1 instant, a backup after 1, and a run takes at most 1 to collect: enough for each to happen before, in and after the instant of the stamp. One part of the observed system changes per behaviour: the evaluator treats them separately. All but `LowDiskReported` are also proved for all values |
| `backup_chain` | `TypeOK`; `MarkerNamesRestorePoint`: whatever fails or is pruned, the marker names a whole bundle of the schema it says; `DailyPointKept`; `CopyBehindMarker`: the off-site marker names a complete copy; `CatchesUp`: the latest bundle is copied in the end | 1 failed step or kill. While pruning: 5 bundles, `Recent = 3`, `Days = 2`, 5 half days, so that bundles fall in the recent count, in the daily window and outside both, and a plan can be three bundles old. Otherwise 2 bundles, enough for one to replace the other, and 2 schemas. One combination of disturbances per behaviour (`Combinations`). All but `CatchesUp` are also proved for all values, within the hypotheses of section 5 |
| `deploy_single` | `TypeOK` (a record on disk can be read back); `RecordsConsistent`: wherever a process ends, `inspect_state` accepts the record, the state file and the link it leaves; `LeftoverFreezesHost`: while a temporary entry is left over, no deployment and no recovery changes a file or a container; `IdleServesCommitted`; `OnlyOrphansMisfit`: only a migration container that outlived its client ever leaves a release on a schema it was not verified with; `SuccessIsWhole`; `CommittedOnlyWhenServing`; `WriterReturns`: a stopped writer serves again or an operator was called | 1 deployer beside the backup, 3 deployments, 3 faults, 2 releases, 3 schemas, migration containers that outlive their client. The longest known scenario needs two faults in one deployment and one in its recovery, then a further deployment. All but `WriterReturns` are also proved for all values, the first three for any number of deployers |

Runs that end in a violation are the disagreements of section 6:
`ledger_stale_view`, `monitor_torn_poll`, `deploy_orphan`.

Bounds: `TxIds`, `MaxAmount`, `MaxVersion`, `LastInstant`, `MaxFaults`,
`MaxRuns`, `MaxSchema`, `MaxSteps`, `MaxPolls`, `MaxEpisodes`, `MaxLag`, `MaxTime`,
`MaxBundles`, `FewBundles` are named in the modules and enforced in guards.
`Notes` and `Members` have one element in every run: no rule compares them but for
equality with the value on record, and a single member is the worst case for the version (dirty checking sees nothing change). Symmetry is used over
interchangeable sessions and workers, in runs without liveness only.

What the deploy runs do not claim: deployments run one at a time, as the
repository's workflow concurrency group (`our-ledger-production`,
`cancel-in-progress: false`) schedules them. With two at once a failed deployment
may clear a record another one has settled half-way, because it frees the lock
before it recovers (`deploy_transaction.py:532`). The model allows more deployers:
that their files stay consistent, and that a temporary entry stops them all, is
proved for any number of them (`RecordsReadBack`, `RecordsStayConsistent`,
`LeftoversFreezeHost`), what serves only for one at a time. `RecordsConsistent`
speaks of what `inspect_state` reads, not of the whole host: the layout check comes
before it, and after a write cut short it refuses every run (section 6).

`backup_chain` takes `Recent = 3` for a reason: the plan does not protect the
bundle the marker names. `Recent - 1` runs that died between their rename and their
marker, and one more run about to write its own, make `Recent` newer bundles, and
the plan offers it (hazard at `backup_artifact.py:630`). One fault is less than that.
The code's `RETENTION_RECENT_COUNT` is 4: it takes three such runs without a
successful one between them. Section 5 proves the property for everything short of it.

## 4. Fairness and deadlock checking

- Ledger: weak fairness of a session's own statements (a running request executes
  its next statement), strong fairness of each session's lock steps (PostgreSQL
  queues the waiters of a row, so a lock that is freed again and again is granted
  in turn). Starting requests, failures and new accounts are not fair.
- Recurring: the same, and weak fairness of `Poll`: the scheduler's fixed delay
  polls again and again. The clock, faults, crashes and users' requests are not fair.
- Monitor: weak fairness of the clock and of the agent's start, which launchd
  repeats every minute, and of a running run's next step: the status command is
  cut off after 30 s and the reporter after 5 s. Strong fairness of taking the lock
  when it is free (an operator's run is short), of a delivery and of an
  observation: neither HomeOps nor the status command fails for ever. Kills,
  failed saves and every change of the observed system are not fair.
- Offsite: weak fairness of the worker's next step; launchd starts it again and
  again. Backups, faults, the operator and the disk are not fair.
- DeployTransaction: weak fairness of a process's next step, of the end of a
  backup and of a migration container. Requests, kills, interrupts and the
  operator are not fair.

All configurations say `CHECK_DEADLOCK FALSE`: the system may really come to
rest, when identifiers, versions, the clock, the bundles or the deployments of an
instance are used up and no request is open. That it does not rest for lack of a lock is what
`NoDeadlock` and the liveness properties say.

## 5. Proofs

Eight modules hold theorems about the specifications, for every value of the
constants that satisfies the named assumptions of their modules: any number of
sessions, rows, accounts, rules, workers, runs and revisions, any amounts, dates,
thresholds and bounds. The assumptions are what the code gives: finite sets of
identifiers, requests the validators let through, a holder value outside the
sessions. That the sessions are finite stands for the connection pool; only the two
theorems about deadlock use it.

| Module | Theorem | Says |
|---|---|---|
| `LedgerProofs` | `TypeCorrect` | `Spec => []TypeOK`; an edit never leaves two entries of one role |
| | `RefundsWithinAmount` | `Spec => []RefundCap` |
| | `RefundsHaveOriginals` | `Spec => []RefundLineage` |
| | `OriginalsFrozen` | `Spec => RefundedOriginalFrozen`, an action property |
| | `EntriesMatch` | `Spec => []EntrySetsValid` |
| | `NetWorthFollows` | `Spec => []NetWorthFollowsSpending` |
| | `EditsFromShownRow` | `Spec => VersionGuardsRow`, an action property |
| | `LedgerIsAtomic` | `Spec => ImplementsAtomicLedger`: Ledger implements AtomicLedger |
| | `RequestsNeverDeadlock` | `Spec => []NoDeadlock` |
| `CursorProofs` | `CursorAlwaysOccurs` | `Spec => []CursorOccurs` |
| | `NothingEverSkipped` | `Spec => NothingSkipped`, an action property |
| | `AlwaysResumesAtFirstFuture` | `Spec => []ResumesAtFirstFuture` |
| `RecurringProofs` | `RecurringTypes` | `Spec => []TypeOK` |
| | `WorkersNeverCollide` | `Spec => []ConstraintNeverNeeded` |
| | `GeneratedOnce` | `Spec => GeneratedOnceFromRule`, an action property |
| | `CursorStaysOnSchedule` | `Spec => []ActiveCursorOnSchedule` |
| | `NoOccurrenceLost` | `Spec => []NothingLost` |
| | `ReferencesStayUsable` | `Spec => []ActiveReferencesUsable` |
| | `NobodyWaitsInACircle` | `Spec => []NoDeadlock` |
| `MonitorProofs` | `MonitorTypes` | `Spec => []TypeOK` |
| | `NextRunAcceptsState` | `Spec => []StateNeverRejected` |
| | `StreaksCountInstants` | `Spec => []StreaksFollowTheClock` |
| | `PollsCountedOnce` | `Spec => []SamePollCountedOnce` |
| | `OnlySavedEventsAreSent` | `Spec => NothingSentUnsaved`, an action property |
| | `MonitorShowsEpisodes` | `Spec => ImplementsEpisodes`: Monitor implements DiskEpisodes |
| `DeployProofs` | `RecordsReadBack` | `Spec => []TypeOK` |
| | `RecordsStayConsistent` | `Spec => []RecordsConsistent` |
| | `LeftoversFreezeHost` | `Spec => LeftoverFreezesHost`, an action property |
| | `IdleServes` | `OneAtATime => (Spec => []IdleServesCommitted)` |
| | `ServingFits` | `OneAtATime => (Spec => []OnlyOrphansMisfit)` |
| | `SuccessMeansWhole` | `OneAtATime => (Spec => SuccessIsWhole)`, an action property |
| | `CommitsWhatServes` | `OneAtATime => (Spec => CommittedOnlyWhenServing)`, an action property |

| `BackupProofs` | `BackupTypes` | `Spec => []TypeOK` |
| | `MarkerRestores` | `Spec /\ []FewLeft => []MarkerNamesRestorePoint` |
| | `MarkerRestoresAfterFaults` | `Spec => [](FewFaults => MarkerNamesRestorePoint)` |
| | `DailyPointsKept` | `Recent > 1 => (Spec => []DailyPointKept)` |
| | `CopyStays` | `Spec /\ [][~(OffAt("rollback") /\ OffFails)]_vars => []CopyBehindMarker` |
| | `CopyStaysAfterOneFault` | `Spec => [](faults <= 1 => CopyBehindMarker)` |

`OrderProofs` and `RecurrenceProofs` hold lemmas only.

None of the properties is inductive by itself, because a step writes on the
strength of what steps before it read. Each invariant below says why what was read
still holds when it is used, and each was checked by TLC before it was proved.

### Ledger

**Types.** What a commit writes depends on the kind of request the session is
running, so `TypeInv` adds `InStep` (the step a session is at belongs to its kind
of request; a refund past its reads has an entry to reverse). One lemma per group
of actions shows that it is preserved.

**Refunds.** `RefundInv` states the argument of the row lock:

- `HoldsRow(s)`: a refund, edit or deletion past its locking read holds the row,
  and the row is still what it read and active;
- `Decided(s)`: the refund still fits, the edited or deleted row still has no
  active refund. Other sessions cannot invalidate it: adding a refund, editing and
  deleting that row all need its lock, and deleting a refund only lowers the sum;
- with these, every commit preserves `RefundCap` and `RefundLineage`.

The sums are over finite sets of rows with `Cardinality` facts instead of a
recursive sum (`RefundedMono`, the lemmas on one more refund), so that no
induction over data is needed.

**Entries.** The entries of a row are computed from account rows, under other
locks, and an account may be reclassified. `EntryInv` adds for each session
(`Knows`):

- `SeenIsCurrent(s)`: the classification a session saw is still the account's,
  either because it holds the account's lock or because an entry of the row it
  holds is on that account, and a classification in use does not change;
- `PostingDecided(s)`: a posting about to commit is on locked accounts that
  support it;
- `AccountDecided(s)`: a reclassification about to commit found no entry on the
  account, and holds the lock that any new entry would need.

`NetWorthFollowsSpending` then follows from `EntrySetsValid` by the posting rules
alone; it is only proved, as no run could say more than `EntrySetsValid` does. `EditsFromShownRow` needs `VersionInv`: versions only grow, so a stored row
at the version a client was shown is the row it was shown.

**Refinement.** Initial states map to initial states; every commit is the
corresponding step of `AtomicLedger` and every other statement a stutter. A commit
can be that step only if all its guards hold of the committed tables at that
instant. Beyond the invariants above this needs `AtomicInv`: whether the accounts
are archived (`SeenRows`, `PostsOpen`), that an edit which found refunds still has
them (`StillRefunded`: deleting one takes the lock of the original), and that the
deletion of a refund holds the original's row (`HoldsOriginal`).

**Deadlock.** Every handler takes transactions before accounts, accounts in
ascending order, and of transactions at most a refund and then its original.
`LockInv` says so of what a session holds and still wants: each lock it wants
comes after all it holds. Of finitely many waiting sessions one then wants a lock
that comes last, and its holder is not waiting. `OrderProofs` has the fact that a finite
non-empty set has a last member under such an order, from the library's minimum of
a well-founded relation, so that it needs no induction of its own.

### Recurrence dates and recurring rules

**Calendar.** `MonthOf` is a division with a correction; `RecurrenceProofs` shows
that it is right for every day, that months and years follow each other without a
gap, and that the candidates of a frequency grow with their index. A first
attempt did not go through: the model computed its guess from 487 days per 16
months, which drifts off in some thousand years. It now uses the Gregorian cycle
of 48699 days per 1600 months.

**Cursor.** `CursorProofs` shows that the candidate a rule steps to is the very
next one, for every anchor, interval and frequency, clipped months and leap days
included. `MCRecurrenceSchedule`'s definition of an occurrence computes no
candidates, and its constants are sets of any size here.

**Generation.** `GenInv` adds to the types that a worker in the middle of an
occurrence holds its rule's lock, has read what is committed and is after a date
that has come (`Steady`), and that the date is still free once it has looked
(`DateFree`). The unique constraint and the optimistic lock are then never what
stops a worker, and `GeneratedOnceFromRule` follows for each commit. `CursorInv`
adds that the cursor of a rule is on its schedule (`CursorSound`) and that no date
between the last edit and the cursor is without its transaction (`Covered`); an
advance keeps it because the next cursor is the very next date.

**References.** `RefInv` adds for each request what its statements found
(`EditInv`, `GroupChecked`, `UsageChecked`): the references of a rule about to be
saved are locked and usable, and an archiving or a reclassification about to be
committed found no active rule on the row whose lock any such rule would need.

**Deadlock.** `OrderInv`: rules before categories, categories before groups, groups
before accounts, each kind by identifier; a worker and a request take their locks
in that order. The argument is the ledger's.

### Monitor

`MonitorInv` is one invariant for all six theorems:

- `Exclusive`: one run at most is past the lock;
- `Good(file)`: the state on file passes `validate_state`, its poll streak belongs
  to the poll it names, and each of its streaks is covered by the instants the
  outage has lasted;
- `Early`: a run that stamped before the present instant may still count it, so
  the streaks on file leave room for one more;
- `Reported`: HomeOps has accepted what the state on file says it has, or that and
  its pending event: the second when a run was killed or refused after the event
  arrived;
- `Working(p)`: what a run has in hand is the file, or a state as good that it is
  about to save.

With `Reported`, the refinement mapping reads the promised episodes off the
accepted events, and every step is a step of `DiskEpisodes` or a stutter.

The streak property is a result of the proof. It used to say that a streak is
within `MaxLag` of the instants an outage lasted. That was not inductive, and for a
good reason: one run can be stamped before an instant and read in it, and another
stamped in it, in every instant. The old bound only held in the run because
streaks stop at their cap of 3. The property is now the true one, at most two for
each instant.

### Deployment

**Files.** `RecordInv` says what the files say of each other (`Recorded`), that
whoever is past the lock is alone there (`Exclusive`), and which phase it finds on
record at each of its steps (`PhaseAt`, `Placed`). This holds with any number of
deployments, because every write of a file is made by the lock's holder.

**Leftovers.** `LeftInv` adds that whoever is past the lock found no temporary
entry. It holds because a process that makes one gives the lock up in the same step,
by the error or by its end, and nobody gets past the layout check afterwards: without
the lock a program can only try to take it (`OutsideTries`), so it changes nothing.

**What serves.** `ServeInv` adds what the containers, the env file and the schema
are: `Whole` with and without a record; `Served(p)` at each step under the lock;
and `Owned(p)`, what a deployment that failed still knows without the lock: the
record is its own, or gone, and if it never tried to stop the writer, nothing has
been touched. `Owned` is where one deployment at a time is needed (`OneAtATime`,
which the workflow's concurrency group guarantees): another one could settle the
record in that moment and leave its own.

`Fits` (the schema is the one the committed release was verified with) carries the
schema argument: it can fail only from the migration on, and every way back to the
previous release compares the schema with the one read before. A container that
outlived its client is the exception that `strayed` records, and section 6 shows it.

### Backups

The invariant is `Inv`, in three parts, for any disturbances at once, any number of
runs and faults and any interval between a plan and its deletions.

**Names.** `NameInv`: a name is used once and the clock does not go back, so the
bundles of the directory are ordered by their names, and nothing there or in a plan
bears the name of a bundle still being built. `DumpInv`: from the second look at the
migrations on, the dump holds the schema the name says.

**Marker.** `Strays` are the bundles newer than the committed one (`Base`) other than
that of the run in progress. A run that fails or is killed leaves one at most, so
they are no more than the faults (`FewStrays`). While there are fewer than
`Recent - 1` (`FewLeft`), the bundle the marker names, and the one it goes back to
when a commit is undone (`Protected`), have fewer than `Recent` newer ones: a plan
made now offers neither, and a plan made earlier did not (`RestoreInv`), because since
then newer bundles have only appeared with a run that moved the marker on, or is counted
as a stray.

**Days.** A plan keeps the first bundle from 06:00 on of each past day of its window;
today is left to the recent count. `DayInv` asks that such a bundle is neither offered
by the plan at hand nor at stake in the present commit. The step that needs an
argument is the plan made today: the last bundle of today has at most one newer one,
that of the run in progress, which is why two recent bundles must be kept. An old plan
is harmless: the days it protected only leave the window, the bundles of later days
are not in it, and no bundle of an earlier day appears afterwards.

**Off-site.** `CipherInv`: the ciphertext was made from the bundle of that name, and
the second look finds that one as it was selected, so what is renamed decrypts to a
whole bundle of the schema it says, although the worker holds no lock of the backup.
`OffPlaced`: where the marker can be at each step, and what the run believes of it
(`committed`). `CopyInv`: a run that fails withdraws its ciphertext only while the
marker names another.

The hypotheses are needed, and each was found so by a counterexample of TLC on a
small instance with the bounds raised:

- `FewLeft`, `FewFaults`: with `Recent = 2`, one killed run and the next one at its
  `mark` suffice to have the marker's bundle offered and removed.
- `Recent > 1`: with `Recent = 1`, a commit that is undone takes the only bundle of
  today the plan had not offered. The code has `RETENTION_RECENT_COUNT = 4`.
- in `CopyStays`, that putting the previous marker back does not fail: with two faults,
  the fsync of the marker and then that rollback, the ciphertext behind the marker is
  removed (section 6). It is the only step excluded; any number of other faults is not.

### Model-checked only

Liveness, which depends on fairness and ENABLED, beyond the prover:
`EveryRequestEnds`, `DueIsHandled`, `LowDiskReported`, `CatchesUp`, `WriterReturns`.

## 6. Disagreements found

Each is a run that ends in a violation; `findings` in `PROJECT.json` quotes the
document.

1. `ledger_stale_view` — the accounts of a transaction are not columns of its row.
   An edit that changes nothing but an account, by the member who edited last,
   leaves the row clean, `@Version` stays, and a second edit from the earlier view
   is accepted. `VersionGuardsRow` holds for the row itself.
2. `monitor_torn_poll` — the scheduler's record resets the failure count when a
   poll starts, while the time of the last completed poll still stands. A snapshot
   taken during a poll pairs the two; the monitor counts a failed poll as clean, or
   a clean one as failed, and has then seen it.
3. `deploy_orphan` — the migration's timeout kills `docker compose run`, not its
   container. The schema is read at once, found unchanged, the previous release
   restarted and the record removed; the container then commits its migration.

Weaker observations, without a run that ends in a violation:

- A valid PATCH that pauses a rule and moves its dates off the retained cursor ends
  in the CHECK constraint (`RecurringTransactionService.java:250`) and is answered
  as a state conflict although there is no race, which is
  how `docs/04-api/error-contract.md` describes that code. `CommitUpdate` models it.
- The accounts of a recurring rule are outside its version, as in 1.
- A refund summary reads the original and its refunds in two statements and may
  combine two moments.
- The operation lock is free for a moment between a deployment's failure and its
  recovery. If the pending record is removed and the fsync after it fails, a
  deployment that succeeded is reported as FAILED.
- A process killed inside `_atomic_write_json` or `_write_current` leaves its
  temporary entry (`host_state.py:1118`, `1080`); so does an error that stops the
  removal as well. `OperationLock.__enter__` validates the layout first (`364`,
  `784-788`), so that every later deployment and standalone backup, and the recovery
  of the run itself, stop there until an operator removes the entry, also with the
  writer stopped. That is what `docs/08-operations/deployment.md:235` asks for: an
  unexpected entry fails closed. `LeftoverFreezesHost` states it; `WriterReturns`
  counts it as a call for the operator.
- Off-site, two errors in one run: when the fsync after the marker's replacement
  fails and putting the previous marker back fails as well, `_write_atomic_marker`
  raises, the run believes that the marker was not written and removes the
  ciphertext the new marker names (`offsite_backup.py:941`, `948-975`, `1190`).
  With `MaxFaults = 2` TLC finds it as a violation of `CopyBehindMarker`; the
  passing run covers one error, and `CopyStays` proves that nothing else can do it. Later runs stop at the marker instead of building
  on it, so an operator is called for.
- The status command stamps its snapshot before it reads: a poll that starts or
  ends in between makes the snapshot invalid, and the run reports
  `STATUS_UNAVAILABLE` instead of an observation.

## 7. Assumptions about the environment

Modelled from how the code uses them, and marked external in the map or stated
in the module:

- PostgreSQL at READ COMMITTED: a statement sees the rows committed when it
  starts; `FOR UPDATE` waits for the holder and returns the row as last committed;
  a commit is atomic. Foreign keys' KEY SHARE locks do not conflict with it in the
  handlers modelled.
- Hibernate: an instance a session manages is not refreshed by a later locking
  query; an UPDATE is sent, and `@Version` moves, only if a mapped column changed.
- Recurring: one time zone without daylight-saving changes (`Asia/Seoul`).
- Host: a rename and an unlink are atomic; an error may follow them. A killed
  Docker client may leave its container running. `docker compose up` changes the
  API before it returns or raises; the image pair of the env file is only replaced
  once the services are ready. What a killed `docker compose up` or
  `stop` client still had under way is over before the next step on the containers:
  unlike the migration, which runs for minutes in a container of its own, it is one
  call to the daemon, and after a kill the lock is cleared by hand first.
- Backups: the clock counts half-days of Korean time. Names of bundles and of
  partial files are used once. Eight hours of grace are below that resolution, so
  the off-site status answers FRESH and STALE alike. A flock is dropped by the
  kernel when its process dies.
- Monitor: HomeOps treats events of one key as one event; a refused or unanswered
  delivery may have arrived.
- Each runtime-config digest is built from one revision, as its label says.

## 8. Not modelled, and why

`components` in `PROJECT.json` lists every part with its status. In the modelled
parts:

- Ledger, accounts, recurring, categories: plain list and detail reads; scope and
  membership checks (stateless); categories' types, duplicate names and creation.
- Deployment: what a release contains, artifact validation and registry credentials
  (they change nothing the records depend on; a stage left half-way is modelled);
  a temporary file beside the env file, which no check looks at; a lock directory
  that cannot be removed on the way out; the phases of the host state that only the
  synthetic test host uses (`STAGED`, `clear_abandoned_pending`); more than one
  deployer at a time (section 3).
- Backup: the restore drill, which is a test driver; the contents of the metadata
  and of the checksums beyond whether they fit; a shell that goes on running after
  its Python parent was killed; a clock set back.
- Off-site: partial files of the target directory, whose names nothing uses again;
  a second worker, which the flock ends before it changes anything.
- Merged or left out because it makes no difference: the scope, owner, payer and
  category that an edit of a transaction is compared by stand in its note
  (`SameFinancialMeaning`); the category of a rule and its group are read in one step
  (`CheckCategory`), the clock and the due rules of a poll in one (`Poll`), since each
  rule is checked again under its lock; `save()` validates the monitor's state before
  it is replaced, which `Replace` does not ask for.
- Monitor: formats, sizes and the printed text; the counters of the scheduler that
  nothing evaluates; the health endpoint's HTTP status. Two runs may read in one
  instant what they stamped in two, hence the factor 2 in `StreaksFollowTheClock`.

Integer widths: amounts are bounded by validation far below 64 bits; the unbounded
`interval_value` of a recurring rule is listed as a hazard without a property. CSV
formatting, rendering, CI tools, compose files and verification scripts have no
state of the program. The parts that have state and are not modelled yet (goal,
budgets, household, first installation of a host, screen loading) are in the plan.

## 9. Plan

Done, in this order:

1. **Ledger**: rules, abstract specification, sessions, refinement; types, refunds,
   entries, versions, the lock order and the refinement are proved.
2. **Recurring** with the date arithmetic.
3. **DeployTransaction**, with the migration containers that outlive their client.
4. **Monitor**, with the scheduler's operational record and the status command, and
   its refinement of **DiskEpisodes**.
5. **BackupBundle** and **Offsite**, composed.

All of these are proved, liveness aside (section 5).

Next models: **FreshBootstrap** (phases, crash and resume, composed with the same
operation lock) and an abstract *HostRelease* (a host is on one release, or says
where it stopped) that it and DeployTransaction implement; **Goal** (linking an
account at its balance, composed with Ledger's transactions), **Budget** (identity
under a unique index, version compare without a lock), **Household** (provisioning
twice, third member); **Statistics** (sums as operators against a definition over
the ledger's rows) and **ScreenLoad** (late and aborted answers in the frontend).

## 10. Running the checks

In this directory, with `tlc` and `tlapm` on the path:

```
tlc -workers 2 -config LedgerRefunds.cfg MCLedger.tla
tlapm LedgerProofs.tla
tlapm OrderProofs.tla
tlapm RecurrenceProofs.tla
tlapm CursorProofs.tla
tlapm RecurringProofs.tla
tlapm MonitorProofs.tla
tlapm DeployProofs.tla
tlapm BackupProofs.tla
```

Each entry of `runs` in `PROJECT.json` names its module and configuration. The
largest (`ledger_postings`, `ledger_refunds`, `deploy_single`, `monitor`,
`backup_chain`) take two to three minutes each. From nothing, `LedgerProofs` and
`RecurringProofs` take five to eight minutes each, the other proof modules three at most. `tlapm` gives every leaf a
fixed time, so on a busy machine a leaf that is near it may need a second call.
