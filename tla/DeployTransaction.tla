------------------------- MODULE DeployTransaction -------------------------
(***************************************************************************)
(* The restricted deployment of the production host: run_deployment with   *)
(* its recovery, over the durable host state (pending marker, committed    *)
(* state file, current link, image pair of the env file) and the running   *)
(* containers, beside the standalone backup that shares the operation lock.*)
(*                                                                         *)
(* Every durable write and every command run on the host is a step.  It    *)
(* may succeed; it may raise, before or after it took effect (a rename is  *)
(* done and the directory's fsync fails); and the process may end at any   *)
(* moment, killed (its lock directory stays) or interrupted (the lock is   *)
(* released on the way out, no recovery runs).  A write that is cut short  *)
(* may leave its temporary entry, which the lock refuses from then on.     *)
(***************************************************************************)
EXTENDS Naturals

CONSTANTS
  Deployers,     \* processes that run a restricted deployment
  Backup,        \* the standalone backup process
  Free, Stale,   \* the lock directory is absent; it is there, its maker is gone
  Stopped,       \* the API container is stopped
  Revisions,     \* application revisions
  Configs,       \* runtime-config digests
  BuiltFrom,     \* the revision a runtime config was built from, as its label says
  Keep,          \* deployment mode keep: no new runtime config
  First,         \* the release committed when the history begins
  Outlives,      \* whether a migration container outlives its killed client
  MaxRuns,       \* bound: deployments requested
  MaxFaults,     \* bound: raised errors, kills and interrupts
  MaxSchema      \* bound: versions of the database schema

Identity == [app: Revisions, config: Configs]

ASSUME ProcessAssumption == Backup \notin Deployers /\ {Free, Stale} \cap (Deployers \union {Backup}) = {}
ASSUME LockAssumption == Free # Stale
ASSUME ReleaseAssumption == First \in Identity /\ Stopped \notin Revisions /\ Keep \notin Configs
ASSUME ConfigAssumption == BuiltFrom \in [Configs -> Revisions]
ASSUME OutlivesAssumption == Outlives \in BOOLEAN
ASSUME BoundAssumption == {MaxRuns, MaxFaults} \subseteq Nat /\ MaxSchema \in Nat \ {0}

VARIABLES
  lock,       \* operations/lock: Free, its holder, or Stale
  pending,    \* pending/transaction.json
  committed,  \* state/deployment.json: the current identity
  link,       \* runtime-config/current: the release directory it points to
  env,        \* the revision of the image pair in the env file
  api,        \* the revision of the running API, or Stopped
  schema,     \* version of the Flyway history
  orphan,     \* a migration container runs on without its client
  proc,       \* what each deployer does
  runs,       \* deployments requested so far
  faults,     \* errors, kills and interrupts so far
  reports,    \* the last status each deployment reported
  leftovers,  \* what writes cut short left in the managed directories
  home,       \* history: schema the committed release was verified with
  strayed,    \* history: a container without its client moved the schema
  attention   \* history: an operator was called for, or a process ended

host == <<pending, committed, link, env, home>>
runtime == <<api, schema, orphan, strayed>>
vars == <<lock, host, runtime, leftovers, proc, runs, faults, reports, attention>>

Schemas == 1..MaxSchema
NoSchema == 0

Phases == {"ARTIFACTS_VERIFIED", "WRITER_QUIESCED", "BACKUP_VERIFIED", "MIGRATION_STARTED",
           "MIGRATION_VERIFIED", "CUTOVER_STARTED", "READINESS_VERIFIED", "COMMITTING"}
\* Phases by which the candidate's migration may have changed the schema.
MigrationMayHaveRun == Phases \ {"ARTIFACTS_VERIFIED", "WRITER_QUIESCED", "BACKUP_VERIFIED"}

Pending == [phase: Phases, candidate: Identity, previous: Identity, run: 1..MaxRuns,
            before: Schemas \union {NoSchema}, after: Schemas \union {NoSchema}]
NoPending == [phase |-> "NONE"]
IsPending == pending # NoPending

Pc == {"idle", "acquire", "inspect", "stage", "report", "quiesce", "markQuiesced", "backup",
       "markBackup", "markMigrating", "migrate", "readAfter", "markMigrated", "markCutover",
       "cutover", "ready", "markReady", "persist", "markCommitting", "checkPredecessor",
       "finish", "writeState", "unlink", "success", "relock", "reconsider", "restore", "clear",
       "observe"}

Process == [pc: Pc, run: 0..MaxRuns, app: Revisions, mode: Configs \union {Keep},
            previous: Identity, started: BOOLEAN, quiesced: BOOLEAN, cutover: BOOLEAN,
            recovering: BOOLEAN, read: Schemas \union {NoSchema}]
Idle == [pc |-> "idle", run |-> 0, app |-> First.app, mode |-> Keep, previous |-> First,
         started |-> FALSE, quiesced |-> FALSE, cutover |-> FALSE, recovering |-> FALSE,
         read |-> NoSchema]

Status == {"NONE", "RUNNING", "SUCCESS", "FAILED", "ROLLED_BACK"}

At(p, pc) == proc[p].pc = pc
Holds(p) == lock = p

Init ==
  /\ lock = Free
  /\ pending = NoPending /\ committed = First /\ link = First.config /\ env = First.app
  /\ api = First.app /\ schema = 1 /\ orphan = FALSE /\ home = 1 /\ strayed = FALSE
  /\ leftovers = {}
  /\ proc = [p \in Deployers |-> Idle]
  /\ runs = 0 /\ faults = 0
  /\ reports = [r \in 1..MaxRuns |-> "NONE"]
  /\ attention = FALSE

(***************************************************************************)
(* The current link names a release directory; which release it stands for *)
(* is found among the identities on record, the committed one first.       *)
(***************************************************************************)
Current ==
  IF committed.config = link \/ ~IsPending THEN committed
  ELSE IF pending.candidate.config = link THEN pending.candidate
  ELSE pending.previous

\* What inspect_state accepts, before anything else is done under the lock.
Consistent ==
  IF IsPending
  THEN \/ committed = pending.previous /\ Current \in {pending.previous, pending.candidate}
       \/ committed = pending.candidate /\ Current = pending.candidate
  ELSE committed.config = link

\* A mutant: only the lock directory is looked at.
LayoutIgnored == TRUE

\* validate_layout, which comes before every attempt to take the lock: no
\* temporary entry beside the record, the state file or the link.  An abandoned
\* stage is allowed there.
LayoutValid == "entry" \notin leftovers

(***************************************************************************)
(* How a step ends.                                                        *)
(***************************************************************************)
Goto(p, pc) == proc' = [proc EXCEPT ![p].pc = pc]
Leave(p) == proc' = [proc EXCEPT ![p] = Idle]
Release == lock' = Free
Report(run, status) == reports' = [reports EXCEPT ![run] = status]

FaultLeft == faults < MaxFaults
Fault == FaultLeft /\ faults' = faults + 1

\* A mutant: the exception just ends the run.
UnwindWithoutRecovery(p) == Release /\ Leave(p)

\* Leaving the with-block by an exception releases the lock; a deployment that
\* has started its pending record then recovers under a new lock.
Unwind(p) ==
  /\ Release
  /\ IF proc[p].started THEN Goto(p, "relock") ELSE Leave(p)

\* A step that raises. What it had done by then is stated beside it.
Raise(p) == Fault /\ Unwind(p) /\ UNCHANGED <<runs, reports, attention>>

\* The step went through.
Done(p, pc) == Goto(p, pc) /\ UNCHANGED <<lock, runs, faults, reports, attention>>

\* A step whose effect is done or not when it raises.
Attempt(p, effect, next) ==
  \/ effect /\ Done(p, next)
  \/ (effect \/ UNCHANGED <<host, runtime>>) /\ Raise(p)

(***************************************************************************)
(* Writes cut short.  _atomic_write_json and _write_current work in an      *)
(* entry of a name of its own, stage_release in a directory of its own,    *)
(* and remove it when they raise; what is replaced is as it was.           *)
(***************************************************************************)
Marks == {"markQuiesced", "markBackup", "markMigrating", "markMigrated", "markCutover",
          "markReady"}

\* A mutant: the link is not looked at.
PredecessorCommitted == committed = pending.previous

PredecessorCurrent == committed = pending.previous /\ Current = pending.previous

\* prepare_artifacts insists that the env file names the committed images,
\* stage_release that no stage was abandoned.
Stageable(p) ==
  /\ env = proc[p].previous.app
  /\ proc[p].mode = Keep \/ "stage" \notin leftovers

Writing(p) ==
  \/ proc[p].pc \in Marks \union {"markCommitting", "writeState"}
  \/ At(p, "stage") /\ Stageable(p)
  \/ At(p, "checkPredecessor") /\ PredecessorCurrent
  \/ At(p, "finish") /\ Current # pending.candidate

\* Whether the release was staged before, so that nothing is copied, is left open.
Staging(p) == At(p, "stage") /\ Stageable(p) /\ proc[p].mode # Keep

Remains(p) == (IF Writing(p) THEN {"entry"} ELSE {}) \union (IF Staging(p) THEN {"stage"} ELSE {})

\* The error that stops a write stops the removal, too.
CutShort(p) ==
  /\ \E e \in Remains(p) : leftovers' = leftovers \union {e}
  /\ Raise(p)
  /\ UNCHANGED <<host, runtime>>

\* OperatorInterventionRequired: the pending record is kept as it is.
CallOperator(p) ==
  /\ Release /\ Leave(p)
  /\ attention' = TRUE
  /\ UNCHANGED <<host, runtime, runs, faults>>

(***************************************************************************)
(* run_deployment up to the pending record.                                *)
(***************************************************************************)
Request(p) ==
  /\ At(p, "idle") /\ runs < MaxRuns
  /\ runs' = runs + 1
  /\ \E app \in Revisions : \E mode \in {Keep} \union {c \in Configs : BuiltFrom[c] = app} :
       proc' = [proc EXCEPT ![p] = [Idle EXCEPT !.pc = "acquire", !.run = runs + 1,
                                                !.app = app, !.mode = mode]]
  /\ UNCHANGED <<lock, host, runtime, faults, reports, attention>>

Acquire(p) ==
  /\ At(p, "acquire")
  /\ IF lock = Free /\ LayoutValid THEN lock' = p /\ Goto(p, "inspect")
     ELSE Leave(p) /\ UNCHANGED lock
  /\ UNCHANGED <<host, runtime, runs, faults, reports, attention>>

Inspect(p) ==
  /\ At(p, "inspect")
  /\ IF Consistent
     THEN /\ proc' = [proc EXCEPT ![p].pc = IF IsPending THEN "observe" ELSE "stage",
                                  ![p].previous = committed]
          /\ UNCHANGED lock
     ELSE Release /\ Leave(p)
  /\ UNCHANGED <<host, runtime, runs, faults, reports, attention>>

Candidate(p) == [app |-> proc[p].app,
                 config |-> IF proc[p].mode = Keep THEN proc[p].previous.config ELSE proc[p].mode]

\* prepare_artifacts, _stage_candidate and begin_deployment_pending.
Stage(p) ==
  /\ At(p, "stage")
  /\ IF Stageable(p)
     THEN \/ /\ pending' = [phase |-> "ARTIFACTS_VERIFIED", candidate |-> Candidate(p),
                            previous |-> committed, run |-> proc[p].run,
                            before |-> NoSchema, after |-> NoSchema]
             /\ proc' = [proc EXCEPT ![p].pc = "report", ![p].started = TRUE]
             /\ UNCHANGED <<lock, committed, link, env, home, faults>>
          \/ /\ Fault /\ Release /\ Leave(p)
             /\ pending' \in {NoPending, [phase |-> "ARTIFACTS_VERIFIED",
                  candidate |-> Candidate(p), previous |-> committed, run |-> proc[p].run,
                  before |-> NoSchema, after |-> NoSchema]}
             /\ UNCHANGED <<committed, link, env, home>>
     ELSE Release /\ Leave(p) /\ UNCHANGED <<host, faults>>
  /\ UNCHANGED <<runtime, runs, reports, attention>>

\* _report_pending reads the record back, which may fail; the reporter may not.
ReportRunning(p) ==
  /\ At(p, "report")
  /\ \/ Report(pending.run, "RUNNING") /\ Goto(p, "quiesce")
        /\ UNCHANGED <<lock, runs, faults, attention>>
     \/ Raise(p)
  /\ UNCHANGED <<host, runtime>>

(***************************************************************************)
(* The phases. advance_deployment_pending writes the phase that follows.   *)
(***************************************************************************)
Expected == [markQuiesced |-> "ARTIFACTS_VERIFIED", markBackup |-> "WRITER_QUIESCED",
             markMigrating |-> "BACKUP_VERIFIED", markMigrated |-> "MIGRATION_STARTED",
             markCutover |-> "MIGRATION_VERIFIED", markReady |-> "CUTOVER_STARTED"]
Following == [markQuiesced |-> "WRITER_QUIESCED", markBackup |-> "BACKUP_VERIFIED",
              markMigrating |-> "MIGRATION_STARTED", markMigrated |-> "MIGRATION_VERIFIED",
              markCutover |-> "CUTOVER_STARTED", markReady |-> "READINESS_VERIFIED"]
Then == [markQuiesced |-> "backup", markBackup |-> "markMigrating", markMigrating |-> "migrate",
         markMigrated |-> "markCutover", markCutover |-> "cutover", markReady |-> "persist"]

Advance(p) ==
  \E m \in Marks :
    /\ At(p, m)
    /\ IF pending.phase = Expected[m]
       THEN LET written ==
                  /\ pending' = [pending EXCEPT !.phase = Following[m],
                       !.before = IF m = "markBackup" THEN proc[p].read ELSE @,
                       !.after = IF m = "markMigrated" THEN proc[p].read ELSE @]
                  /\ UNCHANGED <<committed, link, env, home, runtime>>
            IN \/ /\ written
                  /\ proc' = [proc EXCEPT ![p].pc = Then[m],
                                          ![p].cutover = @ \/ m = "markCutover"]
                  /\ UNCHANGED <<lock, runs, faults, reports, attention>>
               \/ (written \/ UNCHANGED <<host, runtime>>) /\ Raise(p)
       ELSE Unwind(p) /\ UNCHANGED <<host, runtime, runs, faults, reports, attention>>

\* A mutant: the flag is set once the writer has stopped.
QuiesceThenFlag(p) ==
  /\ At(p, "quiesce")
  /\ \/ /\ api' = Stopped
        /\ proc' = [proc EXCEPT ![p].pc = "markQuiesced", ![p].quiesced = TRUE]
        /\ UNCHANGED <<lock, faults>>
     \/ Fault /\ Release /\ api' \in {api, Stopped} /\ Goto(p, "relock")
  /\ UNCHANGED <<host, schema, orphan, strayed, runs, reports, attention>>

\* writer_quiesce_attempted is set before the writer is stopped.
Quiesce(p) ==
  /\ At(p, "quiesce")
  /\ \/ /\ api' = Stopped
        /\ proc' = [proc EXCEPT ![p].pc = "markQuiesced", ![p].quiesced = TRUE]
        /\ UNCHANGED <<lock, faults>>
     \/ /\ Fault /\ Release /\ api' \in {api, Stopped}
        /\ proc' = [proc EXCEPT ![p].pc = "relock", ![p].quiesced = TRUE]
  /\ UNCHANGED <<host, schema, orphan, strayed, runs, reports, attention>>

ReadSchema(p, next) ==
  /\ \/ /\ proc' = [proc EXCEPT ![p].pc = next, ![p].read = schema]
        /\ UNCHANGED <<lock, runs, faults, reports, attention>>
     \/ Raise(p)
  /\ UNCHANGED <<host, runtime>>

\* A mutant: the schema before the migration is not read.
RunBackupOnly(p) == At(p, "backup") /\ Done(p, "markBackup") /\ UNCHANGED <<host, runtime>>

\* run_verified_backup, then the schema before the migration.
RunBackup(p) == At(p, "backup") /\ ReadSchema(p, "markBackup")

\* Each migration of the candidate commits by itself, so a failed run may have
\* moved the schema. A client that times out is killed; its container may go on,
\* and while one does, Flyway's lock keeps others waiting.
Migrate(p) ==
  /\ At(p, "migrate")
  /\ \/ /\ ~orphan /\ UNCHANGED orphan
        /\ schema' \in {schema, schema + 1} \cap Schemas
        /\ Done(p, "readAfter") \/ Raise(p)
     \/ (orphan \/ Outlives) /\ orphan' = TRUE /\ UNCHANGED schema /\ Raise(p)
  /\ UNCHANGED <<host, api, strayed>>

OrphanEnds ==
  /\ orphan /\ orphan' = FALSE
  /\ schema' \in {schema, schema + 1} \cap Schemas
  /\ strayed' = (strayed \/ schema' # schema)
  /\ UNCHANGED <<lock, host, api, leftovers, proc, runs, faults, reports, attention>>

ReadAfter(p) == At(p, "readAfter") /\ ReadSchema(p, "markMigrated")

Cutover(p) ==
  /\ At(p, "cutover")
  /\ \/ api' = Candidate(p).app /\ Done(p, "ready")
     \/ api' \in {api, Stopped, Candidate(p).app} /\ Raise(p)
  /\ UNCHANGED <<host, schema, orphan, strayed>>

\* candidate_is_ready: also false while a container is unhealthy.
Ready(p) ==
  /\ At(p, "ready")
  /\ \/ api = Candidate(p).app /\ Done(p, "markReady")
     \/ Raise(p)
  /\ UNCHANGED <<host, runtime>>

(***************************************************************************)
(* commit_pending, also reached by a recovery from READINESS_VERIFIED, and *)
(* finish_committed_pending.                                               *)
(***************************************************************************)
PersistImages(p) ==
  /\ At(p, "persist")
  /\ Attempt(p, /\ env' = pending.candidate.app
                /\ UNCHANGED <<pending, committed, link, home, runtime>>, "markCommitting")

MarkCommitting(p) ==
  /\ At(p, "markCommitting")
  /\ Attempt(p, /\ pending' = [pending EXCEPT !.phase = "COMMITTING"]
                /\ UNCHANGED <<committed, link, env, home, runtime>>, "checkPredecessor")

WriteCurrent ==
  /\ link' = pending.candidate.config
  /\ UNCHANGED <<pending, committed, env, home, runtime>>

CheckPredecessor(p) ==
  /\ At(p, "checkPredecessor")
  /\ IF PredecessorCurrent
     THEN Attempt(p, WriteCurrent, "writeState")
     ELSE Unwind(p) /\ UNCHANGED <<host, runtime, runs, faults, reports, attention>>

Finish(p) ==
  /\ At(p, "finish")
  /\ IF {committed, Current} \subseteq {pending.previous, pending.candidate}
     THEN Attempt(p, WriteCurrent, "writeState")
     ELSE Unwind(p) /\ UNCHANGED <<host, runtime, runs, faults, reports, attention>>

WriteState(p) ==
  /\ At(p, "writeState")
  /\ Attempt(p, /\ committed' = pending.candidate /\ home' = pending.after
                /\ UNCHANGED <<pending, link, env, runtime>>, "unlink")

RemovePending ==
  /\ pending' = NoPending
  /\ UNCHANGED <<committed, link, env, home, runtime>>

\* A mutant: a record that cannot be removed is no error.
UnlinkIgnoringErrors(p) ==
  /\ At(p, "unlink")
  /\ RemovePending \/ UNCHANGED <<host, runtime>>
  /\ proc' = [proc EXCEPT ![p].pc = "success", ![p].run = pending.run, ![p].started = FALSE]
  /\ UNCHANGED <<lock, runs, faults, reports, attention>>

\* The deployment is over once the record is gone: pending_started is cleared.
Unlink(p) ==
  /\ At(p, "unlink")
  /\ \/ /\ RemovePending
        /\ proc' = [proc EXCEPT ![p].pc = "success", ![p].run = pending.run,
                                ![p].started = FALSE]
        /\ UNCHANGED <<lock, runs, faults, reports, attention>>
     \/ (RemovePending \/ UNCHANGED <<host, runtime>>) /\ Raise(p)

Success(p) ==
  /\ At(p, "success")
  /\ Report(proc[p].run, "SUCCESS")
  /\ Release /\ Leave(p)
  /\ UNCHANGED <<host, runtime, runs, faults, attention>>

(***************************************************************************)
(* _recover_failed_transaction: the run raised, its lock is already free.  *)
(***************************************************************************)
Fail(p, status) ==
  /\ Report(proc[p].run, status)
  /\ Leave(p)
  /\ UNCHANGED <<runs>>

Intervene(p) == Fail(p, "FAILED") /\ attention' = TRUE

Relock(p) ==
  /\ At(p, "relock")
  /\ IF lock = Free /\ LayoutValid
     THEN lock' = p /\ Goto(p, "reconsider") /\ UNCHANGED <<runs, reports, attention>>
     ELSE Intervene(p) /\ UNCHANGED lock
  /\ UNCHANGED <<host, runtime, faults>>

\* A mutant: the schema is not looked at.
SchemaIgnored == FALSE

SchemaMoved == pending.phase \in MigrationMayHaveRun /\ schema # pending.before

Reconsider(p) ==
  /\ At(p, "reconsider")
  /\ \/ ~IsPending /\ Release /\ Fail(p, "FAILED") /\ UNCHANGED <<faults, attention>>
     \/ IsPending /\ SchemaMoved /\ Release /\ Intervene(p) /\ UNCHANGED faults
     \/ Fault /\ Release /\ Intervene(p)
     \/ /\ IsPending /\ ~SchemaMoved
        /\ Done(p, IF proc[p].quiesced \/ proc[p].cutover THEN "restore" ELSE "clear")
  /\ UNCHANGED <<host, runtime>>

\* recover_previous: both services of the release before, then its image pair.
\* It answers False when anything in it raises;
\* the image pair is only written once the services are ready.
Restore(p) ==
  /\ At(p, "restore")
  /\ LET target == proc[p].previous.app IN
     \/ /\ api' = target /\ env' = target
        /\ Done(p, "clear")
     \/ /\ Fault /\ Release
        /\ \/ api' \in {api, Stopped, target} /\ UNCHANGED env
           \/ api' = target /\ env' = target
        /\ IF proc[p].recovering
           THEN Leave(p) /\ attention' = TRUE /\ UNCHANGED <<runs, reports>>
           ELSE Intervene(p)
  /\ UNCHANGED <<pending, committed, link, home, schema, orphan, strayed>>

\* clear_recovered_deployment_pending and the final report.
Clear(p) ==
  /\ At(p, "clear")
  /\ Release
  /\ LET rolledBack == IF proc[p].recovering THEN pending.phase = "CUTOVER_STARTED"
                       ELSE proc[p].cutover
         unrecovered == IF proc[p].recovering
                        THEN Leave(p) /\ UNCHANGED <<runs, reports, attention>>
                        ELSE Intervene(p)
     IN IF PredecessorCurrent
        THEN \/ /\ RemovePending
                /\ Fail(p, IF rolledBack THEN "ROLLED_BACK" ELSE "FAILED")
                /\ UNCHANGED <<faults, attention>>
             \/ (RemovePending \/ UNCHANGED <<host, runtime>>) /\ Fault /\ unrecovered
        ELSE unrecovered /\ UNCHANGED <<host, runtime, faults>>

(***************************************************************************)
(* recover_pending: a deployment that finds a record left by another one   *)
(* settles it and ends; nothing new is deployed.                           *)
(***************************************************************************)
\* A mutant: the record alone says that the candidate is ready.
FinalizableBySchema == schema = pending.after

\* A record past readiness is finalized if the candidate still serves on the
\* schema it left behind.
Finalizable == api = pending.candidate.app /\ schema = pending.after

SchemaDiffers == pending.before # NoSchema /\ schema # pending.before

Observe(p) ==
  LET found(pc) == proc' = [proc EXCEPT ![p].pc = pc, ![p].recovering = TRUE,
                              ![p].run = pending.run, ![p].previous = pending.previous]
      go(pc) == found(pc) /\ UNCHANGED <<lock, host, runtime, runs, faults, reports, attention>>
      operator == CallOperator(p) /\ UNCHANGED reports
  IN /\ At(p, "observe")
     /\ \/ CASE pending.phase \in {"READINESS_VERIFIED", "COMMITTING"} ->
                  IF Finalizable
                  THEN go(IF pending.phase = "COMMITTING" THEN "finish" ELSE "persist")
                  ELSE operator
             [] OTHER -> IF SchemaDiffers THEN operator ELSE go("restore")
        \* An unhealthy container, or a command that raises.
        \/ /\ pending.phase \in {"READINESS_VERIFIED", "COMMITTING"}
           /\ Fault /\ Release /\ Leave(p) /\ attention' = TRUE
           /\ UNCHANGED <<host, runtime, runs, reports>>
        \/ Raise(p) /\ UNCHANGED <<host, runtime>>

(***************************************************************************)
(* The end of a process, the operator and the standalone backup.           *)
(***************************************************************************)
End(p, left, remains) ==
  /\ ~At(p, "idle") /\ Fault
  /\ leftovers' \in {leftovers} \union {leftovers \union {e} : e \in remains}
  /\ lock' = IF Holds(p) THEN left ELSE lock
  /\ Leave(p)
  /\ attention' = TRUE
  /\ orphan' \in IF At(p, "migrate") /\ Outlives THEN {orphan, TRUE} ELSE {orphan}
  /\ api' \in CASE At(p, "cutover") -> {api, Stopped}
                [] At(p, "restore") -> {api, Stopped, proc[p].previous.app}
                [] OTHER -> {api}
  /\ UNCHANGED <<host, schema, strayed, runs, reports>>

\* An interrupt still runs the clean-up of a write.
Kill(p) == End(p, Stale, Remains(p))
Interrupt(p) == End(p, Free, {})

\* The program never removes a lock or an entry it did not make.
RemoveStaleLock ==
  /\ lock = Stale /\ lock' = Free
  /\ UNCHANGED <<host, runtime, leftovers, proc, runs, faults, reports, attention>>

RemoveLeftover ==
  /\ lock \in {Free, Stale}
  /\ \E e \in leftovers : leftovers' = leftovers \ {e}
  /\ UNCHANGED <<lock, host, runtime, proc, runs, faults, reports, attention>>

\* run_standalone_backup. Whether it dumps the database or finds a record and
\* gives up, it holds the lock meanwhile and changes nothing else.
BeginBackup ==
  /\ lock = Free /\ LayoutValid /\ lock' = Backup
  /\ UNCHANGED <<host, runtime, leftovers, proc, runs, faults, reports, attention>>

EndBackup ==
  /\ lock = Backup
  /\ \/ Release /\ UNCHANGED <<faults, attention>>
     \/ Fault /\ lock' = Stale /\ attention' = TRUE
  /\ UNCHANGED <<host, runtime, leftovers, proc, runs, reports>>

Program(p) ==
  \/ Acquire(p) \/ Inspect(p) \/ Stage(p) \/ ReportRunning(p) \/ Quiesce(p) \/ Advance(p)
  \/ RunBackup(p) \/ Migrate(p) \/ ReadAfter(p) \/ Cutover(p) \/ Ready(p)
  \/ PersistImages(p) \/ MarkCommitting(p) \/ CheckPredecessor(p) \/ Finish(p)
  \/ WriteState(p) \/ Unlink(p) \/ Success(p)
  \/ Relock(p) \/ Reconsider(p) \/ Restore(p) \/ Clear(p) \/ Observe(p)

\* But for a write that is cut short, the program leaves nothing behind.
Step(p) == CutShort(p) \/ (Program(p) /\ UNCHANGED leftovers)

Next ==
  \/ \E p \in Deployers : (Request(p) /\ UNCHANGED leftovers) \/ Step(p) \/ Kill(p) \/ Interrupt(p)
  \/ OrphanEnds \/ RemoveStaleLock \/ RemoveLeftover \/ BeginBackup \/ EndBackup

Spec == Init /\ [][Next]_vars

\* A process that runs takes its next step, and a container its last.
Fairness ==
  /\ \A p \in Deployers : WF_vars(Step(p))
  /\ WF_vars(EndBackup) /\ WF_vars(OrphanEnds)

FairSpec == Spec /\ Fairness
(***************************************************************************)
(* Properties.                                                             *)
(***************************************************************************)
RecordedBefore == MigrationMayHaveRun \union {"BACKUP_VERIFIED"}
RecordedAfter == MigrationMayHaveRun \ {"MIGRATION_STARTED"}

\* Types. A record on disk carries the schema versions its phase calls for, so
\* the next process can read it back (_read_pending).
TypeOK ==
  /\ lock \in {Free, Stale, Backup} \union Deployers
  /\ \/ ~IsPending
     \/ /\ pending \in Pending
        /\ pending.before # NoSchema <=> pending.phase \in RecordedBefore
        /\ pending.after # NoSchema <=> pending.phase \in RecordedAfter
  /\ committed \in Identity /\ link \in Configs
  /\ env \in Revisions /\ api \in Revisions \union {Stopped}
  /\ schema \in Schemas /\ home \in Schemas /\ orphan \in BOOLEAN
  /\ leftovers \subseteq {"entry", "stage"}
  /\ proc \in [Deployers -> Process]
  /\ runs \in 0..MaxRuns /\ faults \in 0..MaxFaults
  /\ reports \in [1..MaxRuns -> Status]
  /\ attention \in BOOLEAN

\* Wherever a process ends, inspect_state accepts the record, the link and the
\* state file it leaves: none of the three has to be repaired by hand.  It says
\* nothing of a temporary entry beside them, which stops the next process before
\* it reads any of them.
RecordsConsistent == Consistent

\* While a temporary entry is left over, neither a deployment, nor its own
\* recovery, nor the next one's changes a file or a container: the host waits as
\* the write cut short left it, until an operator removes the entry.
LeftoverFreezesHost ==
  []["entry" \in leftovers => UNCHANGED <<pending, committed, link, env, api>>]_vars

\* When no run is under way and no record is left, the committed release serves
\* and the env file names it, whatever failed, was killed or was rolled back.
IdleServesCommitted ==
  (lock = Free /\ ~IsPending /\ \A p \in Deployers : proc[p].pc \in {"idle", "acquire"}) =>
    api = committed.app /\ env = committed.app

\* The committed release never serves a schema other than the one it was
\* verified with: after a migration that moved the schema the release before is
\* not brought back (docs/08-operations/deployment.md:279).
SchemaFitsServing ==
  (api = committed.app /\ ~(IsPending /\ pending.candidate.app = committed.app)) =>
    schema = home

\* The only way to break that is a container that runs on after its client was
\* killed and commits once the schema was compared; no failure, kill, rollback or
\* restart of the deployment itself does.
OnlyOrphansMisfit == strayed \/ SchemaFitsServing

\* SUCCESS is reported only of a host that is wholly on the committed release.
SuccessIsWhole ==
  [][\A r \in 1..MaxRuns :
       (reports[r] # "SUCCESS" /\ reports'[r] = "SUCCESS") =>
         /\ ~IsPending /\ link = committed.config
         /\ api = committed.app /\ env = committed.app /\ (schema = home \/ strayed)]_vars

\* The state file changes to nothing but the candidate on record, while it
\* serves, the env file names it and the schema is the one it was verified with.
CommittedOnlyWhenServing ==
  [][committed' # committed =>
       /\ IsPending /\ committed' = pending.candidate /\ link = committed'.config
       /\ api = committed'.app /\ env = committed'.app
       /\ schema = pending.after \/ strayed]_vars

\* A writer that was stopped serves again, or an operator has been called for.
WriterReturns == (api = Stopped) ~> (api # Stopped \/ attention)
=============================================================================
