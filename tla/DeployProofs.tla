---------------------------- MODULE DeployProofs ----------------------------
(***************************************************************************)
(* Proofs about DeployTransaction, for every set of revisions and configs  *)
(* and every bound, along two inductive invariants.  RecordInv says what   *)
(* the files on the host say of each other and in which phase whoever      *)
(* holds the lock finds the record; it holds with any number of            *)
(* deployments at once.  ServeInv adds what serves: what the containers,   *)
(* the env file and the schema are in each phase, and what a deployment    *)
(* that failed still knows of its own record.  It needs deployments one at *)
(* a time.                                                                 *)
(***************************************************************************)
EXTENDS DeployTransaction, TLAPS

\* Where a process works under the lock.
Unlocked == {"idle", "acquire", "relock"}
Exclusive == \A p \in Deployers : proc[p].pc \notin Unlocked <=> lock = p

\* The phase on record while its run, or the run that found it, goes on.
PhaseAt == [report |-> "ARTIFACTS_VERIFIED", quiesce |-> "ARTIFACTS_VERIFIED",
            markQuiesced |-> "ARTIFACTS_VERIFIED", backup |-> "WRITER_QUIESCED",
            markBackup |-> "WRITER_QUIESCED", markMigrating |-> "BACKUP_VERIFIED",
            migrate |-> "MIGRATION_STARTED", readAfter |-> "MIGRATION_STARTED",
            markMigrated |-> "MIGRATION_STARTED", markCutover |-> "MIGRATION_VERIFIED",
            cutover |-> "CUTOVER_STARTED", ready |-> "CUTOVER_STARTED",
            markReady |-> "CUTOVER_STARTED", persist |-> "READINESS_VERIFIED",
            markCommitting |-> "READINESS_VERIFIED", checkPredecessor |-> "COMMITTING",
            finish |-> "COMMITTING", writeState |-> "COMMITTING", unlink |-> "COMMITTING"]

Placed(p) ==
  LET pc == proc[p].pc IN
  /\ pc # "idle" => proc[p].run \in 1..MaxRuns
  /\ pc \in DOMAIN PhaseAt => pending.phase = PhaseAt[pc]
  /\ pc \in {"observe", "restore", "clear"} => IsPending
  /\ pc \in {"stage", "success"} => ~IsPending
  /\ pc = "stage" => proc[p].previous = committed
  /\ pc \in {"markBackup", "markMigrated"} => proc[p].read # NoSchema
  /\ pc \in {"writeState", "unlink"} => link = pending.candidate.config
  /\ pc = "unlink" => committed = pending.candidate

\* What the files say of each other.
Recorded ==
  IF IsPending
  THEN /\ link \in {pending.previous.config, pending.candidate.config}
       /\ \/ committed = pending.previous
          \/ committed = pending.candidate /\ link = pending.candidate.config
  ELSE link = committed.config

(***************************************************************************)
(* Types of the parts.                                                     *)
(***************************************************************************)
Stamped(r) ==
  /\ r \in Pending
  /\ r.before # NoSchema <=> r.phase \in RecordedBefore
  /\ r.after # NoSchema <=> r.phase \in RecordedAfter

FileTypes ==
  /\ IsPending => Stamped(pending)
  /\ committed \in Identity /\ link \in Configs /\ env \in Revisions /\ home \in Schemas

RuntimeTypes == api \in Revisions \union {Stopped} /\ schema \in Schemas /\ orphan \in BOOLEAN

CountTypes ==
  /\ runs \in 0..MaxRuns /\ faults \in 0..MaxFaults
  /\ reports \in [1..MaxRuns -> Status] /\ attention \in BOOLEAN

Processes ==
  /\ lock \in {Free, Stale, Backup} \union Deployers
  /\ proc \in [Deployers -> Process]
  /\ Exclusive
  /\ \A p \in Deployers : Placed(p)

RecordInv == FileTypes /\ RuntimeTypes /\ CountTypes /\ Processes /\ Recorded

\* Whoever is past the lock found no temporary entry, and leaves at once when it
\* makes one.
LeftInv == leftovers \subseteq {"entry", "stage"} /\ (lock \in Deployers => LayoutValid)

LEMMA RecordTyped == RecordInv /\ LeftInv => TypeOK
  BY DEF RecordInv, LeftInv, TypeOK, FileTypes, RuntimeTypes, CountTypes, Processes, Stamped

LEMMA IdleTyped == Idle \in Process /\ Idle.pc = "idle"
  BY ReleaseAssumption, BoundAssumption DEF Idle, Process, Pc, Identity

\* While a run is past staging, the record is there and in the phase it wrote.
LEMMA PhaseOnRecord ==
  ASSUME FileTypes, NEW p \in Deployers, Placed(p), proc[p].pc \in DOMAIN PhaseAt
  PROVE  IsPending /\ Stamped(pending) /\ pending.phase = PhaseAt[proc[p].pc]
  <1>1. pending.phase = PhaseAt[proc[p].pc]
    BY DEF Placed
  <1>2. PhaseAt[proc[p].pc] # "NONE"
    BY DEF PhaseAt
  <1> QED BY <1>1, <1>2 DEF IsPending, NoPending, FileTypes

\* Who holds the lock works alone.
LEMMA Alone ==
  ASSUME Processes, NEW p \in Deployers, proc[p].pc \notin Unlocked,
         NEW q \in Deployers, q # p
  PROVE  lock = p /\ lock # q /\ proc[q].pc \in Unlocked
  BY DEF Processes, Exclusive

LEMMA UnlockedPlaced ==
  ASSUME NEW p \in Deployers, proc[p].pc \in Unlocked,
         proc[p].pc # "idle" => proc[p].run \in 1..MaxRuns
  PROVE  Placed(p)
  BY DEF Placed, Unlocked, PhaseAt

(***************************************************************************)
(* How the processes move.  A step of p changes no other process, and one  *)
(* that changes a file is a step of the lock's holder.                     *)
(***************************************************************************)
Moves(p) ==
  /\ proc' = [proc EXCEPT ![p] = proc'[p]]
  /\ proc'[p] \in Process
  /\ proc'[p].pc # "idle" => proc'[p].run \in 1..MaxRuns

LEMMA OthersKeep ==
  ASSUME Processes, NEW p \in Deployers, Moves(p), NEW q \in Deployers, q # p,
         proc[p].pc \notin Unlocked \/ UNCHANGED <<pending, committed, link>>
  PROVE  proc'[q] = proc[q] /\ Placed(q)'
  <1>1. proc'[q] = proc[q] /\ proc[q] \in Process /\ Placed(q)
    BY DEF Moves, Processes
  <1>2. CASE proc[p].pc \notin Unlocked
    <2>1. proc[q].pc \in Unlocked
      BY <1>2, Alone
    <2> QED BY <1>1, <2>1 DEF Placed, Unlocked, PhaseAt
  <1>3. CASE UNCHANGED <<pending, committed, link>>
    BY <1>1, <1>3 DEF Placed, IsPending
  <1> QED BY <1>1, <1>2, <1>3

\* The holder goes on.
LEMMA GoesOn ==
  ASSUME Processes, NEW p \in Deployers, proc[p].pc \notin Unlocked, Moves(p), lock' = lock,
         proc'[p].pc \notin Unlocked, Placed(p)'
  PROVE  Processes'
  <1>1. lock = p
    BY DEF Processes, Exclusive
  <1>2. \A q \in Deployers : q # p => proc'[q] = proc[q] /\ Placed(q)'
    BY OthersKeep
  <1>3. proc' \in [Deployers -> Process]
    BY DEF Moves, Processes
  <1>4. Exclusive'
    BY <1>1, <1>2 DEF Processes, Exclusive
  <1> QED BY <1>1, <1>2, <1>3, <1>4 DEF Processes

\* The holder lets go.
LEMMA LetsGo ==
  ASSUME Processes, NEW p \in Deployers, proc[p].pc \notin Unlocked, Moves(p),
         lock' \in {Free, Stale}, proc'[p].pc \in Unlocked
  PROVE  Processes'
  <1>1. lock = p /\ \A q \in Deployers : lock' # q
    BY ProcessAssumption DEF Processes, Exclusive
  <1>2. \A q \in Deployers : q # p => proc'[q] = proc[q] /\ Placed(q)'
    BY OthersKeep
  <1>3. proc' \in [Deployers -> Process]
    BY DEF Moves, Processes
  <1>4. Exclusive'
    <2> SUFFICES ASSUME NEW q \in Deployers PROVE proc'[q].pc \in Unlocked
      BY <1>1 DEF Exclusive
    <2>1. CASE q = p
      BY <2>1
    <2>2. CASE q # p
      BY <2>2, <1>2, Alone
    <2> QED BY <2>1, <2>2
  <1>5. Placed(p)'
    BY DEF Moves, Placed, Unlocked, PhaseAt
  <1> QED BY <1>1, <1>2, <1>3, <1>4, <1>5 DEF Processes

\* A process takes the free lock.
LEMMA TakesLock ==
  ASSUME Processes, NEW p \in Deployers, lock = Free, lock' = p, Moves(p),
         UNCHANGED <<pending, committed, link>>, proc'[p].pc \in {"inspect", "reconsider"}
  PROVE  Processes'
  <1>1. \A q \in Deployers : lock # q
    BY ProcessAssumption
  <1>2. \A q \in Deployers : q # p => proc'[q] = proc[q] /\ Placed(q)'
    BY OthersKeep
  <1>3. proc' \in [Deployers -> Process]
    BY DEF Moves, Processes
  <1>4. Exclusive'
    BY <1>1, <1>2 DEF Processes, Exclusive, Unlocked
  <1>5. Placed(p)'
    BY DEF Moves, Placed, PhaseAt
  <1> QED BY <1>2, <1>3, <1>4, <1>5 DEF Processes

\* A process without the lock moves, and the lock stays as it is.
LEMMA StaysOut ==
  ASSUME Processes, NEW p \in Deployers, proc[p].pc \in Unlocked, lock' = lock, Moves(p),
         UNCHANGED <<pending, committed, link>>, proc'[p].pc \in Unlocked
  PROVE  Processes'
  <1>2. \A q \in Deployers : q # p => proc'[q] = proc[q] /\ Placed(q)'
    BY OthersKeep
  <1>3. proc' \in [Deployers -> Process]
    BY DEF Moves, Processes
  <1>4. Exclusive'
    BY <1>2 DEF Processes, Exclusive
  <1>5. Placed(p)'
    BY DEF Moves, Placed, Unlocked, PhaseAt
  <1> QED BY <1>2, <1>3, <1>4, <1>5 DEF Processes

\* Nobody moves; the lock passes between others.
LEMMA NobodyMoves ==
  ASSUME Processes, UNCHANGED <<proc, pending, committed, link>>,
         lock' = lock \/ {lock, lock'} \subseteq {Free, Stale, Backup}
  PROVE  Processes'
  <1>1. Exclusive'
    BY ProcessAssumption DEF Processes, Exclusive
  <1>2. \A q \in Deployers : Placed(q)'
    BY DEF Processes, Placed, IsPending
  <1> QED BY <1>1, <1>2 DEF Processes

(***************************************************************************)
(* Steps of a process, as its program has them.                            *)
(***************************************************************************)
LEMMA GotoMoves ==
  ASSUME Processes, NEW p \in Deployers, proc[p].pc # "idle", NEW pc \in Pc, Goto(p, pc)
  PROVE  Moves(p) /\ proc'[p] = [proc[p] EXCEPT !.pc = pc]
  <1>1. proc[p] \in Process /\ proc[p].run \in 1..MaxRuns
    BY DEF Processes, Placed
  <1> QED BY <1>1 DEF Goto, Moves, Processes, Process

LEMMA LeaveMoves ==
  ASSUME Processes, NEW p \in Deployers, Leave(p)
  PROVE  Moves(p) /\ proc'[p] = Idle
  BY IdleTyped DEF Leave, Moves, Processes

\* An error releases the lock, and every process ends outside it.
LEMMA UnwindEnds ==
  ASSUME Processes, NEW p \in Deployers, proc[p].pc \notin Unlocked, Unwind(p)
  PROVE  Processes' /\ lock' = Free
  <1>1. proc[p].pc # "idle"
    BY DEF Unlocked
  <1>2. lock' = Free
    BY DEF Unwind, Release
  <1>3. CASE Goto(p, "relock")
    <2>1. Moves(p) /\ proc'[p] = [proc[p] EXCEPT !.pc = "relock"] /\ proc[p] \in Process
      BY <1>1, <1>3, GotoMoves DEF Pc, Processes
    <2>2. proc'[p].pc = "relock"
      BY <2>1 DEF Process
    <2> QED BY <1>2, <2>1, <2>2, LetsGo DEF Unlocked
  <1>4. CASE Leave(p)
    BY <1>2, <1>4, LeaveMoves, LetsGo, IdleTyped DEF Unlocked
  <1> QED BY <1>2, <1>3, <1>4 DEF Unwind

LEMMA LeaveEnds ==
  ASSUME Processes, NEW p \in Deployers, proc[p].pc \notin Unlocked, Leave(p),
         lock' \in {Free, Stale}
  PROVE  Processes'
  BY LeaveMoves, LetsGo, IdleTyped DEF Unlocked

LEMMA DoneGoesOn ==
  ASSUME Processes, NEW p \in Deployers, proc[p].pc \notin Unlocked, NEW pc \in Pc \ Unlocked,
         Done(p, pc), Placed(p)'
  PROVE  Processes'
  <1>1. Moves(p) /\ proc'[p] = [proc[p] EXCEPT !.pc = pc] /\ proc[p] \in Process
    BY GotoMoves DEF Done, Unlocked, Processes
  <1>2. proc'[p].pc = pc
    BY <1>1 DEF Process
  <1> QED BY <1>1, <1>2, GoesOn DEF Done

LEMMA FaultCounts ==
  ASSUME CountTypes, Fault
  PROVE  faults' \in 0..MaxFaults
  BY BoundAssumption DEF CountTypes, Fault, FaultLeft

LEMMA RaiseEnds ==
  ASSUME Processes, CountTypes, NEW p \in Deployers, proc[p].pc \notin Unlocked, Raise(p)
  PROVE  Processes' /\ CountTypes'
  BY UnwindEnds, FaultCounts DEF Raise, CountTypes

LEMMA DoneCounts ==
  ASSUME CountTypes, NEW p, NEW pc, Done(p, pc)
  PROVE  CountTypes'
  BY DEF CountTypes, Done

LEMMA HostKeeps ==
  ASSUME FileTypes, Recorded, UNCHANGED host
  PROVE  FileTypes' /\ Recorded'
  BY DEF host, FileTypes, Recorded, IsPending, Stamped

LEMMA RuntimeKeeps ==
  ASSUME RuntimeTypes, UNCHANGED runtime
  PROVE  RuntimeTypes'
  BY DEF runtime, RuntimeTypes

LEMMA ReportCounts ==
  ASSUME CountTypes, NEW r, NEW status \in Status, Report(r, status)
  PROVE  reports' \in [1..MaxRuns -> Status]
  BY DEF CountTypes, Report

\* Facts about one process.
LEMMA ProcessFields ==
  ASSUME Processes, NEW p \in Deployers
  PROVE  /\ proc[p] \in Process /\ Placed(p)
         /\ proc[p].app \in Revisions /\ proc[p].previous \in Identity
         /\ proc[p].previous.app \in Revisions /\ proc[p].previous.config \in Configs
  BY DEF Processes, Process, Identity

LEMMA CandidateTyped ==
  ASSUME Processes, NEW p \in Deployers
  PROVE  Candidate(p) \in Identity /\ Candidate(p).app \in Revisions
  <1>1. proc[p].app \in Revisions /\ proc[p].previous.config \in Configs
        /\ proc[p].mode \in Configs \union {Keep}
    BY ProcessFields DEF Process
  <1> QED BY <1>1 DEF Candidate, Identity

LEMMA PendingFields ==
  ASSUME Stamped(pending)
  PROVE  /\ pending.candidate \in Identity /\ pending.previous \in Identity
         /\ pending.candidate.app \in Revisions /\ pending.previous.app \in Revisions
         /\ pending.candidate.config \in Configs /\ pending.previous.config \in Configs
         /\ pending.run \in 1..MaxRuns /\ pending.phase \in Phases
         /\ pending.before \in Schemas \union {NoSchema}
         /\ pending.after \in Schemas \union {NoSchema}
  BY DEF Stamped, Pending, Identity

(***************************************************************************)
(* Until the record is written.                                            *)
(***************************************************************************)
LEMMA RequestTypes ==
  ASSUME RecordInv, NEW p \in Deployers, Request(p)
  PROVE  RecordInv'
  <1>0. FileTypes /\ RuntimeTypes /\ CountTypes /\ Processes /\ Recorded
    BY DEF RecordInv
  <1>1. runs' \in 1..MaxRuns /\ runs' = runs + 1
    BY <1>0, BoundAssumption DEF Request, CountTypes
  <1>2. PICK app \in Revisions, mode \in {Keep} \union Configs :
          proc' = [proc EXCEPT ![p] = [Idle EXCEPT !.pc = "acquire", !.run = runs + 1,
                                                   !.app = app, !.mode = mode]]
    BY DEF Request
  <1>3. proc'[p] = [Idle EXCEPT !.pc = "acquire", !.run = runs + 1, !.app = app, !.mode = mode]
    BY <1>0, <1>2 DEF Processes
  <1>4. proc'[p] \in Process /\ proc'[p].pc = "acquire" /\ proc'[p].run \in 1..MaxRuns
    <2>1. proc'[p] = [pc |-> "acquire", run |-> runs + 1, app |-> app, mode |-> mode,
                      previous |-> First, started |-> FALSE, quiesced |-> FALSE,
                      cutover |-> FALSE, recovering |-> FALSE, read |-> NoSchema]
      BY <1>3 DEF Idle
    <2> QED BY <1>1, <2>1, ReleaseAssumption DEF Process, Pc
  <1>5. Moves(p)
    BY <1>2, <1>4 DEF Moves
  <1>6. Processes'
    BY <1>0, <1>4, <1>5, StaysOut DEF Request, At, Unlocked, host
  <1>7. CountTypes'
    BY <1>0, <1>1 DEF CountTypes, Request
  <1> QED BY <1>0, <1>6, <1>7, HostKeeps, RuntimeKeeps DEF Request, RecordInv

LEMMA AcquireTypes ==
  ASSUME RecordInv, NEW p \in Deployers, Acquire(p)
  PROVE  RecordInv'
  <1>0. FileTypes /\ RuntimeTypes /\ CountTypes /\ Processes /\ Recorded
    BY DEF RecordInv
  <1>1. proc[p].pc = "acquire" /\ proc[p] \in Process
    BY <1>0, ProcessFields DEF Acquire, At
  <1>2. ASSUME lock = Free, LayoutValid PROVE Processes'
    <2>1. Moves(p) /\ proc'[p] = [proc[p] EXCEPT !.pc = "inspect"]
      BY <1>0, <1>1, <1>2, GotoMoves DEF Acquire, Pc
    <2>2. proc'[p].pc = "inspect"
      BY <1>1, <2>1 DEF Process
    <2> QED BY <1>0, <1>2, <2>1, <2>2, TakesLock DEF Acquire, host
  <1>3. ASSUME ~(lock = Free /\ LayoutValid) PROVE Processes'
    BY <1>0, <1>1, <1>3, LeaveMoves, StaysOut, IdleTyped DEF Acquire, Unlocked, host
  <1>4. CountTypes'
    BY <1>0 DEF CountTypes, Acquire
  <1>5. Processes'
    BY <1>2, <1>3
  <1> QED BY <1>0, <1>4, <1>5, HostKeeps, RuntimeKeeps DEF Acquire, RecordInv

LEMMA InspectTypes ==
  ASSUME RecordInv, NEW p \in Deployers, Inspect(p)
  PROVE  RecordInv'
  <1>0. FileTypes /\ RuntimeTypes /\ CountTypes /\ Processes /\ Recorded
    BY DEF RecordInv
  <1>1. proc[p].pc = "inspect" /\ proc[p] \in Process /\ proc[p].run \in 1..MaxRuns
        /\ proc[p].pc \notin Unlocked
    BY <1>0, ProcessFields DEF Inspect, At, Placed, Unlocked
  <1>2. ASSUME Consistent PROVE Processes'
    <2> DEFINE pc == IF IsPending THEN "observe" ELSE "stage"
    <2>1. proc' = [proc EXCEPT ![p] = [proc[p] EXCEPT !.pc = pc, !.previous = committed]]
          /\ lock' = lock /\ UNCHANGED <<pending, committed, link>>
      BY <1>0, <1>2 DEF Inspect, Processes, host
    <2>2. proc'[p] = [proc[p] EXCEPT !.pc = pc, !.previous = committed]
      BY <1>0, <2>1 DEF Processes
    <2>3. pc \in Pc /\ committed \in Identity
      BY <1>0 DEF Pc, FileTypes
    <2>4. pc \in {"observe", "stage"} /\ (IsPending <=> pc = "observe")
      OBVIOUS
    <2> HIDE DEF pc
    <2>5. proc'[p] \in Process /\ proc'[p].pc = pc /\ proc'[p].run = proc[p].run
          /\ proc'[p].previous = committed
      BY <1>1, <2>2, <2>3 DEF Process
    <2>6. Moves(p)
      BY <1>1, <2>1, <2>2, <2>5 DEF Moves
    <2>7. Placed(p)' /\ proc'[p].pc \notin Unlocked
      BY <1>1, <2>1, <2>4, <2>5 DEF Placed, PhaseAt, Unlocked, IsPending
    <2> QED BY <1>0, <1>1, <2>1, <2>6, <2>7, GoesOn
  <1>3. ASSUME ~Consistent PROVE Processes'
    BY <1>0, <1>1, <1>3, LeaveEnds DEF Inspect, Release
  <1>4. CountTypes'
    BY <1>0 DEF CountTypes, Inspect
  <1> QED BY <1>0, <1>2, <1>3, <1>4, HostKeeps, RuntimeKeeps DEF Inspect, RecordInv

\* The record that Stage writes.
FirstRecord(p) == [phase |-> "ARTIFACTS_VERIFIED", candidate |-> Candidate(p),
                   previous |-> committed, run |-> proc[p].run,
                   before |-> NoSchema, after |-> NoSchema]

LEMMA FirstRecordSound ==
  ASSUME FileTypes, Processes, Recorded, NEW p \in Deployers, proc[p].pc = "stage",
         pending' = FirstRecord(p), UNCHANGED <<committed, link, env, home>>
  PROVE  FileTypes' /\ Recorded' /\ pending'.phase = "ARTIFACTS_VERIFIED"
  <1>1. Candidate(p) \in Identity /\ committed \in Identity /\ proc[p].run \in 1..MaxRuns
    BY CandidateTyped, ProcessFields DEF FileTypes, Placed
  <1>2. pending' \in Pending /\ pending'.phase = "ARTIFACTS_VERIFIED"
        /\ pending'.before = NoSchema /\ pending'.after = NoSchema /\ pending'.previous = committed
    BY <1>1 DEF FirstRecord, Pending, Phases
  <1>3. Stamped(pending')
    BY <1>2 DEF Stamped, RecordedBefore, RecordedAfter, MigrationMayHaveRun
  <1>4. ~IsPending
    BY ProcessFields DEF Placed
  <1>5. IsPending'
    BY <1>2 DEF IsPending, NoPending
  <1>6. Recorded'
    BY <1>2, <1>4, <1>5 DEF Recorded
  <1>7. FileTypes'
    BY <1>3 DEF FileTypes
  <1> QED BY <1>2, <1>6, <1>7

LEMMA StageTypes ==
  ASSUME RecordInv, NEW p \in Deployers, Stage(p)
  PROVE  RecordInv'
  <1>0. FileTypes /\ RuntimeTypes /\ CountTypes /\ Processes /\ Recorded
    BY DEF RecordInv
  <1>1. proc[p].pc = "stage" /\ proc[p] \in Process /\ proc[p].run \in 1..MaxRuns
        /\ proc[p].pc \notin Unlocked
    BY <1>0, ProcessFields DEF Stage, At, Placed, Unlocked
  <1>2. ASSUME pending' = FirstRecord(p), lock' = lock,
               UNCHANGED <<committed, link, env, home, faults>>,
               proc' = [proc EXCEPT ![p].pc = "report", ![p].started = TRUE]
        PROVE  FileTypes' /\ Recorded' /\ Processes' /\ CountTypes'
    <2>1. FileTypes' /\ Recorded' /\ pending'.phase = "ARTIFACTS_VERIFIED"
      BY <1>0, <1>1, <1>2, FirstRecordSound
    <2>2. proc' = [proc EXCEPT ![p] = [proc[p] EXCEPT !.pc = "report", !.started = TRUE]]
          /\ proc'[p] = [proc[p] EXCEPT !.pc = "report", !.started = TRUE]
      BY <1>0, <1>2 DEF Processes
    <2>3. proc'[p] \in Process /\ proc'[p].pc = "report" /\ proc'[p].run = proc[p].run
      <3>1. "report" \in Pc
        BY DEF Pc
      <3>2. proc[p] \in Process /\ proc'[p] = [proc[p] EXCEPT !.pc = "report", !.started = TRUE]
        BY <1>1, <2>2
      <3> QED BY <3>1, <3>2 DEF Process
    <2>4. Moves(p)
      BY <1>1, <2>2, <2>3 DEF Moves
    <2>5. Placed(p)'
      BY <1>1, <2>1, <2>3 DEF Placed, PhaseAt
    <2>6. Processes'
      BY <1>0, <1>1, <1>2, <2>3, <2>4, <2>5, GoesOn DEF Unlocked
    <2>7. CountTypes'
      BY <1>0, <1>2 DEF CountTypes, Stage
    <2> QED BY <2>1, <2>6, <2>7
  <1>3. ASSUME Fault, Release, Leave(p), pending' \in {NoPending, FirstRecord(p)},
               UNCHANGED <<committed, link, env, home>>
        PROVE  FileTypes' /\ Recorded' /\ Processes' /\ CountTypes'
    <2>1. CASE pending' = FirstRecord(p)
      BY <1>0, <1>1, <1>3, <2>1, FirstRecordSound, LeaveEnds, FaultCounts
         DEF Release, CountTypes, Stage
    <2>2. CASE pending' = NoPending
      <3>1. ~IsPending /\ ~IsPending'
        BY <1>0, <1>1, <2>2, ProcessFields DEF Placed, IsPending
      <3>2. FileTypes' /\ Recorded'
        BY <1>0, <1>3, <3>1 DEF FileTypes, Recorded
      <3> QED BY <1>0, <1>1, <1>3, <3>2, LeaveEnds, FaultCounts DEF Release, CountTypes, Stage
    <2> QED BY <1>3, <2>1, <2>2
  <1>4. ASSUME Release, Leave(p), UNCHANGED host, faults' = faults
        PROVE  FileTypes' /\ Recorded' /\ Processes' /\ CountTypes'
    BY <1>0, <1>1, <1>4, HostKeeps, LeaveEnds DEF Release, CountTypes, Stage
  <1>5. FileTypes' /\ Recorded' /\ Processes' /\ CountTypes'
    BY <1>2, <1>3, <1>4 DEF Stage, FirstRecord
  <1>6. RuntimeTypes'
    BY <1>0, RuntimeKeeps DEF Stage
  <1> QED BY <1>5, <1>6 DEF RecordInv

(***************************************************************************)
(* Steps that change neither the files nor the phase.                      *)
(***************************************************************************)
LEMMA ReportTypes ==
  ASSUME RecordInv, NEW p \in Deployers, ReportRunning(p)
  PROVE  RecordInv'
  <1>0. FileTypes /\ RuntimeTypes /\ CountTypes /\ Processes /\ Recorded
    BY DEF RecordInv
  <1>1. proc[p].pc = "report" /\ proc[p].pc \notin Unlocked /\ Placed(p) /\ proc[p] \in Process
    BY <1>0, ProcessFields DEF ReportRunning, At, Unlocked
  <1>2. UNCHANGED host /\ UNCHANGED runtime
    BY DEF ReportRunning
  <1>3. ASSUME Report(pending.run, "RUNNING"), Goto(p, "quiesce"),
               UNCHANGED <<lock, runs, faults, attention>>
        PROVE  Processes' /\ CountTypes'
    <2>1. Moves(p) /\ proc'[p] = [proc[p] EXCEPT !.pc = "quiesce"]
      BY <1>0, <1>1, <1>3, GotoMoves DEF Pc
    <2>2. proc'[p].pc = "quiesce" /\ proc'[p].run = proc[p].run
      BY <1>1, <2>1 DEF Process
    <2>3. Placed(p)'
      BY <1>1, <1>2, <2>2 DEF Placed, PhaseAt, host
    <2>4. Processes'
      BY <1>0, <1>1, <1>3, <2>1, <2>2, <2>3, GoesOn DEF Unlocked
    <2>5. CountTypes'
      BY <1>0, <1>3, ReportCounts DEF CountTypes, Status
    <2> QED BY <2>4, <2>5
  <1>4. ASSUME Raise(p)
        PROVE  Processes' /\ CountTypes'
    BY <1>0, <1>1, <1>4, RaiseEnds
  <1> QED BY <1>0, <1>2, <1>3, <1>4, HostKeeps, RuntimeKeeps DEF ReportRunning, RecordInv

LEMMA QuiesceTypes ==
  ASSUME RecordInv, NEW p \in Deployers, Quiesce(p)
  PROVE  RecordInv'
  <1>0. FileTypes /\ RuntimeTypes /\ CountTypes /\ Processes /\ Recorded
    BY DEF RecordInv
  <1>1. proc[p].pc = "quiesce" /\ proc[p].pc \notin Unlocked /\ Placed(p) /\ proc[p] \in Process
    BY <1>0, ProcessFields DEF Quiesce, At, Unlocked
  <1>2. PICK pc \in {"markQuiesced", "relock"} :
          proc' = [proc EXCEPT ![p].pc = pc, ![p].quiesced = TRUE]
          /\ lock' = (IF pc = "relock" THEN Free ELSE lock)
    BY DEF Quiesce, Release
  <1>3. proc' = [proc EXCEPT ![p] = [proc[p] EXCEPT !.pc = pc, !.quiesced = TRUE]]
        /\ proc'[p] = [proc[p] EXCEPT !.pc = pc, !.quiesced = TRUE]
    BY <1>0, <1>2 DEF Processes
  <1>4. proc'[p] \in Process /\ proc'[p].pc = pc /\ proc'[p].run = proc[p].run
    <2>1. pc \in Pc
      BY DEF Pc
    <2>2. proc'[p] = [proc[p] EXCEPT !.pc = pc, !.quiesced = TRUE] /\ proc[p] \in Process
      BY <1>1, <1>3
    <2> QED BY <2>1, <2>2 DEF Process
  <1>5. Moves(p)
    BY <1>1, <1>3, <1>4 DEF Moves, Placed
  <1>6. Processes'
    <2>1. CASE pc = "relock"
      BY <1>0, <1>1, <1>2, <1>4, <1>5, <2>1, LetsGo DEF Unlocked
    <2>2. CASE pc = "markQuiesced"
      <3>1. Placed(p)'
        BY <1>1, <1>4, <2>2 DEF Placed, PhaseAt, Quiesce, host
      <3> QED BY <1>0, <1>1, <1>2, <1>4, <1>5, <2>2, <3>1, GoesOn DEF Unlocked
    <2> QED BY <1>2, <2>1, <2>2
  <1>7. CountTypes'
    BY <1>0, FaultCounts DEF CountTypes, Quiesce
  <1>8. RuntimeTypes'
    BY <1>0 DEF RuntimeTypes, Quiesce
  <1> QED BY <1>0, <1>6, <1>7, <1>8, HostKeeps DEF Quiesce, RecordInv

LEMMA ReadSchemaTypes ==
  ASSUME RecordInv, NEW p \in Deployers, NEW next \in {"markBackup", "markMigrated"},
         proc[p].pc = (IF next = "markBackup" THEN "backup" ELSE "readAfter"), ReadSchema(p, next)
  PROVE  RecordInv'
  <1>0. FileTypes /\ RuntimeTypes /\ CountTypes /\ Processes /\ Recorded
    BY DEF RecordInv
  <1>1. proc[p].pc \notin Unlocked /\ Placed(p) /\ proc[p] \in Process
    BY <1>0, ProcessFields DEF Unlocked
  <1>2. UNCHANGED host /\ UNCHANGED runtime
    BY DEF ReadSchema
  <1>3. ASSUME proc' = [proc EXCEPT ![p].pc = next, ![p].read = schema],
               UNCHANGED <<lock, runs, faults, reports, attention>>
        PROVE  Processes' /\ CountTypes'
    <2>1. proc' = [proc EXCEPT ![p] = [proc[p] EXCEPT !.pc = next, !.read = schema]]
          /\ proc'[p] = [proc[p] EXCEPT !.pc = next, !.read = schema]
      BY <1>0, <1>3 DEF Processes
    <2>2. next \in Pc /\ schema \in Schemas /\ schema # NoSchema
      BY <1>0 DEF Pc, RuntimeTypes, Schemas, NoSchema
    <2>3. proc'[p] \in Process /\ proc'[p].pc = next /\ proc'[p].run = proc[p].run
          /\ proc'[p].read = schema
      <3>1. proc'[p] = [proc[p] EXCEPT !.pc = next, !.read = schema] /\ proc[p] \in Process
        BY <1>1, <2>1
      <3> QED BY <2>2, <3>1 DEF Process
    <2>4. Moves(p)
      BY <1>1, <2>1, <2>3 DEF Moves, Placed
    <2>5. Placed(p)'
      BY <1>1, <1>2, <2>2, <2>3 DEF Placed, PhaseAt, host
    <2>6. CountTypes'
      BY <1>0, <1>3 DEF CountTypes
    <2> QED BY <1>0, <1>1, <1>3, <2>3, <2>4, <2>5, <2>6, GoesOn DEF Unlocked
  <1>4. ASSUME Raise(p)
        PROVE  Processes' /\ CountTypes'
    BY <1>0, <1>1, <1>4, RaiseEnds
  <1> QED BY <1>0, <1>2, <1>3, <1>4, HostKeeps, RuntimeKeeps DEF ReadSchema, RecordInv

\* A step that only goes on or raises, with files and phase as they are.
LEMMA PlainTypes ==
  ASSUME RecordInv, NEW p \in Deployers, UNCHANGED host, RuntimeTypes',
         NEW pc, <<proc[p].pc, pc>> \in {<<"migrate", "readAfter">>, <<"cutover", "ready">>,
                                         <<"ready", "markReady">>},
         Done(p, pc) \/ Raise(p)
  PROVE  RecordInv'
  <1>0. FileTypes /\ RuntimeTypes /\ CountTypes /\ Processes /\ Recorded
    BY DEF RecordInv
  <1>1. proc[p].pc \notin Unlocked /\ Placed(p) /\ proc[p] \in Process /\ pc \in Pc \ Unlocked
    BY <1>0, ProcessFields DEF Unlocked, Pc
  <1>2. ASSUME Done(p, pc) PROVE Processes' /\ CountTypes'
    <2>1. proc'[p] = [proc[p] EXCEPT !.pc = pc]
      BY <1>0, <1>2 DEF Done, Goto, Processes
    <2>2. proc'[p].pc = pc /\ proc'[p].run = proc[p].run
      BY <1>1, <2>1 DEF Process
    <2>3. Placed(p)'
      BY <1>1, <2>2 DEF Placed, PhaseAt, host
    <2> QED BY <1>0, <1>1, <1>2, <2>3, DoneGoesOn, DoneCounts
  <1>3. ASSUME Raise(p) PROVE Processes' /\ CountTypes'
    BY <1>0, <1>1, <1>3, RaiseEnds
  <1> QED BY <1>0, <1>2, <1>3, HostKeeps DEF RecordInv

LEMMA MigrateTypes ==
  ASSUME RecordInv, NEW p \in Deployers, Migrate(p)
  PROVE  RecordInv'
  <1>1. RuntimeTypes'
    BY DEF RecordInv, RuntimeTypes, Migrate
  <1>2. proc[p].pc = "migrate" /\ UNCHANGED host /\ (Done(p, "readAfter") \/ Raise(p))
    BY DEF Migrate, At
  <1> QED BY <1>1, <1>2, PlainTypes

LEMMA CutoverTypes ==
  ASSUME RecordInv, NEW p \in Deployers, Cutover(p)
  PROVE  RecordInv'
  <1>1. Candidate(p).app \in Revisions
    BY CandidateTyped DEF RecordInv
  <1>2. RuntimeTypes'
    BY <1>1 DEF RecordInv, RuntimeTypes, Cutover
  <1>3. proc[p].pc = "cutover" /\ UNCHANGED host /\ (Done(p, "ready") \/ Raise(p))
    BY DEF Cutover, At
  <1> QED BY <1>2, <1>3, PlainTypes

LEMMA ReadyTypes ==
  ASSUME RecordInv, NEW p \in Deployers, Ready(p)
  PROVE  RecordInv'
  <1>1. RuntimeTypes'
    BY RuntimeKeeps DEF RecordInv, Ready
  <1>2. proc[p].pc = "ready" /\ UNCHANGED host /\ (Done(p, "markReady") \/ Raise(p))
    BY DEF Ready, At
  <1> QED BY <1>1, <1>2, PlainTypes

(***************************************************************************)
(* Steps that write the record or the files.                               *)
(***************************************************************************)
\* An attempt keeps what its effect keeps.
LEMMA AttemptTypes ==
  ASSUME RecordInv, NEW p \in Deployers, proc[p].pc \notin Unlocked, NEW effect \in BOOLEAN,
         NEW pc \in Pc \ Unlocked,
         effect => FileTypes' /\ RuntimeTypes' /\ Recorded',
         effect /\ proc'[p].pc = pc /\ proc'[p].run = proc[p].run => Placed(p)',
         \/ effect /\ Done(p, pc)
         \/ (effect \/ UNCHANGED <<host, runtime>>) /\ Raise(p)
  PROVE  RecordInv'
  <1>0. FileTypes /\ RuntimeTypes /\ CountTypes /\ Processes /\ Recorded
    BY DEF RecordInv
  <1>1. FileTypes' /\ RuntimeTypes' /\ Recorded'
    BY <1>0, HostKeeps, RuntimeKeeps
  <1>2. ASSUME effect, Done(p, pc) PROVE Processes' /\ CountTypes'
    <2>1. proc'[p] = [proc[p] EXCEPT !.pc = pc] /\ proc[p] \in Process
      BY <1>0, <1>2 DEF Done, Goto, Processes
    <2>2. proc'[p].pc = pc /\ proc'[p].run = proc[p].run
      BY <2>1 DEF Process
    <2> QED BY <1>0, <1>2, <2>2, DoneGoesOn, DoneCounts
  <1>3. ASSUME Raise(p) PROVE Processes' /\ CountTypes'
    BY <1>0, <1>3, RaiseEnds
  <1> QED BY <1>1, <1>2, <1>3 DEF RecordInv

LEMMA PersistTypes ==
  ASSUME RecordInv, NEW p \in Deployers, PersistImages(p)
  PROVE  RecordInv'
  <1>0. FileTypes /\ RuntimeTypes /\ CountTypes /\ Processes /\ Recorded
    BY DEF RecordInv
  <1>1. proc[p].pc = "persist" /\ proc[p].pc \notin Unlocked /\ Placed(p) /\ proc[p] \in Process
    BY <1>0, ProcessFields DEF PersistImages, At, Unlocked
  <1>2. IsPending /\ Stamped(pending) /\ pending.phase = PhaseAt["persist"]
    BY <1>0, <1>1, PhaseOnRecord DEF PhaseAt
  <1> DEFINE effect == env' = pending.candidate.app
                       /\ UNCHANGED <<pending, committed, link, home, runtime>>
  <1>3. effect => FileTypes' /\ RuntimeTypes' /\ Recorded'
    BY <1>0, <1>2, RuntimeKeeps, PendingFields DEF FileTypes, Recorded, IsPending
  <1>4. effect /\ proc'[p].pc = "markCommitting" /\ proc'[p].run = proc[p].run => Placed(p)'
    BY <1>1, <1>2 DEF Placed, PhaseAt
  <1>5. \/ effect /\ Done(p, "markCommitting")
        \/ (effect \/ UNCHANGED <<host, runtime>>) /\ Raise(p)
    BY DEF PersistImages, Attempt
  <1>6. effect \in BOOLEAN /\ "markCommitting" \in Pc \ Unlocked
    BY DEF Pc, Unlocked
  <1> HIDE DEF effect
  <1> QED BY <1>1, <1>3, <1>4, <1>5, <1>6, AttemptTypes

LEMMA MarkCommittingTypes ==
  ASSUME RecordInv, NEW p \in Deployers, MarkCommitting(p)
  PROVE  RecordInv'
  <1>0. FileTypes /\ RuntimeTypes /\ CountTypes /\ Processes /\ Recorded
    BY DEF RecordInv
  <1>1. proc[p].pc = "markCommitting" /\ proc[p].pc \notin Unlocked /\ Placed(p)
        /\ proc[p] \in Process
    BY <1>0, ProcessFields DEF MarkCommitting, At, Unlocked
  <1>2. IsPending /\ Stamped(pending) /\ pending.phase = PhaseAt["markCommitting"]
    BY <1>0, <1>1, PhaseOnRecord DEF PhaseAt
  <1> DEFINE effect == pending' = [pending EXCEPT !.phase = "COMMITTING"]
                       /\ UNCHANGED <<committed, link, env, home, runtime>>
  <1>3. ASSUME effect PROVE /\ Stamped(pending') /\ IsPending' /\ pending'.phase = "COMMITTING"
                            /\ pending'.candidate = pending.candidate
                            /\ pending'.previous = pending.previous
    <2>1. pending' \in Pending /\ pending'.phase = "COMMITTING"
          /\ pending'.before = pending.before /\ pending'.after = pending.after
          /\ pending'.candidate = pending.candidate /\ pending'.previous = pending.previous
      BY <1>2, <1>3 DEF Stamped, Pending, Phases
    <2>2. pending.phase = "READINESS_VERIFIED"
      BY <1>2 DEF PhaseAt
    <2>3. Stamped(pending')
      BY <1>2, <2>1, <2>2 DEF Stamped, RecordedBefore, RecordedAfter, MigrationMayHaveRun, Phases
    <2> QED BY <2>1, <2>3 DEF IsPending, NoPending
  <1>4. effect => FileTypes' /\ RuntimeTypes' /\ Recorded'
    BY <1>0, <1>2, <1>3, RuntimeKeeps DEF FileTypes, Recorded
  <1>5. effect /\ proc'[p].pc = "checkPredecessor" /\ proc'[p].run = proc[p].run => Placed(p)'
    BY <1>1, <1>3 DEF Placed, PhaseAt
  <1>6. \/ effect /\ Done(p, "checkPredecessor")
        \/ (effect \/ UNCHANGED <<host, runtime>>) /\ Raise(p)
    BY DEF MarkCommitting, Attempt
  <1>7. effect \in BOOLEAN /\ "checkPredecessor" \in Pc \ Unlocked
    BY DEF Pc, Unlocked
  <1> HIDE DEF effect
  <1> QED BY <1>1, <1>4, <1>5, <1>6, <1>7, AttemptTypes

LEMMA WriteCurrentSound ==
  ASSUME FileTypes, RuntimeTypes, Recorded, IsPending, Stamped(pending), WriteCurrent
  PROVE  FileTypes' /\ RuntimeTypes' /\ Recorded' /\ link' = pending'.candidate.config
  BY RuntimeKeeps, PendingFields DEF WriteCurrent, FileTypes, Recorded, IsPending

LEMMA SwitchTypes ==
  ASSUME RecordInv, NEW p \in Deployers, CheckPredecessor(p) \/ Finish(p)
  PROVE  RecordInv'
  <1>0. FileTypes /\ RuntimeTypes /\ CountTypes /\ Processes /\ Recorded
    BY DEF RecordInv
  <1>1. proc[p].pc \in {"checkPredecessor", "finish"} /\ proc[p].pc \notin Unlocked
        /\ Placed(p) /\ proc[p] \in Process
    BY <1>0, ProcessFields DEF CheckPredecessor, Finish, At, Unlocked
  <1>2. IsPending /\ Stamped(pending) /\ pending.phase = "COMMITTING"
    BY <1>0, <1>1, PhaseOnRecord DEF PhaseAt
  <1>3. ASSUME Attempt(p, WriteCurrent, "writeState") PROVE RecordInv'
    <2>1. WriteCurrent => FileTypes' /\ RuntimeTypes' /\ Recorded'
      BY <1>0, <1>2, WriteCurrentSound
    <2>2. WriteCurrent /\ proc'[p].pc = "writeState" /\ proc'[p].run = proc[p].run => Placed(p)'
      BY <1>1, <1>2 DEF Placed, PhaseAt, WriteCurrent
    <2>3. \/ WriteCurrent /\ Done(p, "writeState")
          \/ (WriteCurrent \/ UNCHANGED <<host, runtime>>) /\ Raise(p)
      BY <1>3 DEF Attempt
    <2>4. WriteCurrent \in BOOLEAN /\ "writeState" \in Pc \ Unlocked
      BY DEF Pc, Unlocked, WriteCurrent
    <2> QED BY <1>1, <2>1, <2>2, <2>3, <2>4, AttemptTypes
  <1>4. ASSUME Unwind(p), UNCHANGED <<host, runtime, runs, faults, reports, attention>>
        PROVE  RecordInv'
    <2>1. Processes'
      BY <1>0, <1>1, <1>4, UnwindEnds
    <2>2. CountTypes'
      BY <1>0, <1>4 DEF CountTypes
    <2> QED BY <1>0, <1>4, <2>1, <2>2, HostKeeps, RuntimeKeeps DEF RecordInv
  <1> QED BY <1>3, <1>4 DEF CheckPredecessor, Finish

LEMMA WriteStateTypes ==
  ASSUME RecordInv, NEW p \in Deployers, WriteState(p)
  PROVE  RecordInv'
  <1>0. FileTypes /\ RuntimeTypes /\ CountTypes /\ Processes /\ Recorded
    BY DEF RecordInv
  <1>1. proc[p].pc = "writeState" /\ proc[p].pc \notin Unlocked /\ Placed(p) /\ proc[p] \in Process
    BY <1>0, ProcessFields DEF WriteState, At, Unlocked
  <1>2. IsPending /\ Stamped(pending) /\ pending.phase = PhaseAt["writeState"]
    BY <1>0, <1>1, PhaseOnRecord DEF PhaseAt
  <1> DEFINE effect == /\ committed' = pending.candidate /\ home' = pending.after
                       /\ UNCHANGED <<pending, link, env, runtime>>
  <1>3. pending.phase = "COMMITTING" /\ pending.after \in Schemas
        /\ link = pending.candidate.config
    BY <1>1, <1>2, PendingFields
       DEF PhaseAt, Placed, Stamped, RecordedAfter, MigrationMayHaveRun, Phases
  <1>4. effect => FileTypes' /\ RuntimeTypes' /\ Recorded'
    BY <1>0, <1>2, <1>3, RuntimeKeeps, PendingFields DEF FileTypes, Recorded, IsPending
  <1>5. effect /\ proc'[p].pc = "unlink" /\ proc'[p].run = proc[p].run => Placed(p)'
    BY <1>1, <1>3 DEF Placed, PhaseAt
  <1>6. \/ effect /\ Done(p, "unlink")
        \/ (effect \/ UNCHANGED <<host, runtime>>) /\ Raise(p)
    BY DEF WriteState, Attempt
  <1>7. effect \in BOOLEAN /\ "unlink" \in Pc \ Unlocked
    BY DEF Pc, Unlocked
  <1> HIDE DEF effect
  <1> QED BY <1>1, <1>4, <1>5, <1>6, <1>7, AttemptTypes

\* The write of the next phase, from the phase that pc calls for.
Written(p, m) ==
  /\ pending' = [pending EXCEPT !.phase = Following[m],
       !.before = IF m = "markBackup" THEN proc[p].read ELSE @,
       !.after = IF m = "markMigrated" THEN proc[p].read ELSE @]
  /\ UNCHANGED <<committed, link, env, home, runtime>>

LEMMA WrittenSound ==
  ASSUME FileTypes, RuntimeTypes, Recorded, Processes, NEW p \in Deployers, NEW m \in Marks,
         proc[p].pc = m, Written(p, m)
  PROVE  /\ IsPending /\ pending.phase = Expected[m]
         /\ FileTypes' /\ RuntimeTypes' /\ Recorded' /\ pending'.phase = Following[m]
         /\ pending'.candidate = pending.candidate /\ pending'.previous = pending.previous
         /\ pending'.before = (IF m = "markBackup" THEN proc[p].read ELSE pending.before)
         /\ pending'.after = (IF m = "markMigrated" THEN proc[p].read ELSE pending.after)
  <1>1. Placed(p) /\ proc[p] \in Process /\ m \in DOMAIN PhaseAt /\ PhaseAt[m] = Expected[m]
    BY ProcessFields DEF Marks, PhaseAt, Expected
  <1>2. IsPending /\ Stamped(pending) /\ pending.phase = Expected[m]
    BY <1>1, PhaseOnRecord
  <1>3. proc[p].read \in Schemas \union {NoSchema}
    BY <1>1 DEF Process
  <1>4. m \in {"markBackup", "markMigrated"} => proc[p].read # NoSchema
    BY <1>1 DEF Placed
  <1> DEFINE before == IF m = "markBackup" THEN proc[p].read ELSE pending.before
             after == IF m = "markMigrated" THEN proc[p].read ELSE pending.after
  <1>5. before \in Schemas \union {NoSchema} /\ after \in Schemas \union {NoSchema}
    BY <1>2, <1>3, PendingFields
  <1>6. Following[m] \in Phases
    BY DEF Following, Marks, Phases
  <1>7. pending' = [pending EXCEPT !.phase = Following[m], !.before = before, !.after = after]
    BY DEF Written
  <1>8. before # NoSchema <=> Following[m] \in RecordedBefore
    BY <1>2, <1>4
       DEF Stamped, Expected, Following, Marks, RecordedBefore, MigrationMayHaveRun, Phases
  <1>9. after # NoSchema <=> Following[m] \in RecordedAfter
    BY <1>2, <1>4
       DEF Stamped, Expected, Following, Marks, RecordedAfter, MigrationMayHaveRun, Phases
  <1> HIDE DEF before, after
  <1>10. /\ pending' \in Pending /\ pending'.phase = Following[m]
         /\ pending'.before = before /\ pending'.after = after
         /\ pending'.candidate = pending.candidate /\ pending'.previous = pending.previous
    BY <1>2, <1>5, <1>6, <1>7 DEF Stamped, Pending
  <1>11. Stamped(pending')
    BY <1>8, <1>9, <1>10 DEF Stamped
  <1>12. IsPending'
    BY <1>6, <1>10 DEF IsPending, NoPending, Phases
  <1>13. FileTypes'
    BY <1>11 DEF FileTypes, Written
  <1>14. Recorded'
    BY <1>2, <1>10, <1>12 DEF Recorded, Written
  <1>15. RuntimeTypes'
    BY RuntimeKeeps DEF Written
  <1> QED BY <1>2, <1>10, <1>13, <1>14, <1>15 DEF before, after

LEMMA AdvanceTypes ==
  ASSUME RecordInv, NEW p \in Deployers, Advance(p)
  PROVE  RecordInv'
  <1>0. FileTypes /\ RuntimeTypes /\ CountTypes /\ Processes /\ Recorded
    BY DEF RecordInv
  <1>1. PICK m \in Marks :
          /\ proc[p].pc = m
          /\ IF pending.phase = Expected[m]
             THEN \/ /\ Written(p, m)
                     /\ proc' = [proc EXCEPT ![p].pc = Then[m],
                                             ![p].cutover = @ \/ m = "markCutover"]
                     /\ UNCHANGED <<lock, runs, faults, reports, attention>>
                  \/ (Written(p, m) \/ UNCHANGED <<host, runtime>>) /\ Raise(p)
             ELSE Unwind(p) /\ UNCHANGED <<host, runtime, runs, faults, reports, attention>>
    BY DEF Advance, At, Written
  <1>2. proc[p].pc \notin Unlocked /\ Placed(p) /\ proc[p] \in Process
    BY <1>0, <1>1, ProcessFields DEF Marks, Unlocked
  <1>3. ASSUME Written(p, m),
               proc' = [proc EXCEPT ![p].pc = Then[m], ![p].cutover = @ \/ m = "markCutover"],
               UNCHANGED <<lock, runs, faults, reports, attention>>
        PROVE  RecordInv'
    <2> DEFINE cut == proc[p].cutover \/ m = "markCutover"
    <2>1. proc' = [proc EXCEPT ![p] = [proc[p] EXCEPT !.pc = Then[m], !.cutover = cut]]
          /\ proc'[p] = [proc[p] EXCEPT !.pc = Then[m], !.cutover = cut]
      BY <1>0, <1>3 DEF Processes
    <2>2. Then[m] \in Pc \ Unlocked /\ cut \in BOOLEAN
      BY DEF Then, Marks, Pc, Unlocked
    <2>3. proc'[p] = [proc[p] EXCEPT !.pc = Then[m], !.cutover = cut] /\ proc[p] \in Process
      BY <1>2, <2>1
    <2> HIDE DEF cut
    <2>4. proc'[p] \in Process /\ proc'[p].pc = Then[m] /\ proc'[p].run = proc[p].run
          /\ proc'[p].read = proc[p].read
      BY <2>2, <2>3 DEF Process
    <2>5. Moves(p)
      BY <1>2, <2>1, <2>4 DEF Moves, Placed, Unlocked
    <2>6. FileTypes' /\ RuntimeTypes' /\ Recorded' /\ pending'.phase = Following[m]
      BY <1>0, <1>1, <1>3, WrittenSound
    <2>7. Placed(p)'
      BY <1>1, <1>2, <2>4, <2>6 DEF Placed, PhaseAt, Then, Following, Marks
    <2>8. CountTypes'
      BY <1>0, <1>3 DEF CountTypes
    <2> QED BY <1>0, <1>2, <1>3, <2>2, <2>4, <2>5, <2>6, <2>7, <2>8, GoesOn DEF RecordInv
  <1>4. ASSUME Written(p, m) \/ UNCHANGED <<host, runtime>>, Raise(p)
        PROVE  RecordInv'
    BY <1>0, <1>1, <1>2, <1>4, WrittenSound, HostKeeps, RuntimeKeeps, RaiseEnds DEF RecordInv
  <1>5. ASSUME Unwind(p), UNCHANGED <<host, runtime, runs, faults, reports, attention>>
        PROVE  RecordInv'
    <2>1. Processes'
      BY <1>0, <1>2, <1>5, UnwindEnds
    <2>2. CountTypes'
      BY <1>0, <1>5 DEF CountTypes
    <2> QED BY <1>0, <1>5, <2>1, <2>2, HostKeeps, RuntimeKeeps DEF RecordInv
  <1> QED BY <1>1, <1>3, <1>4, <1>5

LEMMA RemovePendingSound ==
  ASSUME FileTypes, RuntimeTypes, Recorded, RemovePending, link = committed.config
  PROVE  FileTypes' /\ RuntimeTypes' /\ Recorded' /\ ~IsPending'
  BY RuntimeKeeps DEF FileTypes, RemovePending, Recorded, IsPending

LEMMA UnlinkTypes ==
  ASSUME RecordInv, NEW p \in Deployers, Unlink(p)
  PROVE  RecordInv'
  <1>0. FileTypes /\ RuntimeTypes /\ CountTypes /\ Processes /\ Recorded
    BY DEF RecordInv
  <1>1. proc[p].pc = "unlink" /\ proc[p].pc \notin Unlocked /\ Placed(p) /\ proc[p] \in Process
    BY <1>0, ProcessFields DEF Unlink, At, Unlocked
  <1>2. IsPending /\ Stamped(pending) /\ link = committed.config
    BY <1>0, <1>1, PhaseOnRecord DEF PhaseAt, Placed
  <1>3. ASSUME RemovePending, UNCHANGED <<lock, runs, faults, reports, attention>>,
               proc' = [proc EXCEPT ![p].pc = "success", ![p].run = pending.run,
                                    ![p].started = FALSE]
        PROVE  Processes' /\ CountTypes'
    <2>1. /\ proc' = [proc EXCEPT ![p] = [proc[p] EXCEPT !.pc = "success", !.run = pending.run,
                                                         !.started = FALSE]]
          /\ proc'[p] = [proc[p] EXCEPT !.pc = "success", !.run = pending.run, !.started = FALSE]
          /\ proc[p] \in Process
      BY <1>0, <1>1, <1>3 DEF Processes
    <2>2. "success" \in Pc /\ pending.run \in 1..MaxRuns /\ pending.run \in 0..MaxRuns
      BY <1>2, PendingFields DEF Pc
    <2>3. proc'[p] = [proc[p] EXCEPT !.pc = "success", !.run = pending.run, !.started = FALSE]
          /\ proc[p] \in Process
      BY <2>1
    <2>4. proc'[p] \in Process /\ proc'[p].pc = "success" /\ proc'[p].run = pending.run
      BY <2>2, <2>3 DEF Process
    <2>5. Moves(p)
      BY <2>1, <2>2, <2>4 DEF Moves
    <2>6. Placed(p)'
      BY <1>3, <2>2, <2>4, RemovePendingSound DEF Placed, PhaseAt, RemovePending, IsPending
    <2>7. CountTypes'
      BY <1>0, <1>3 DEF CountTypes
    <2> QED BY <1>0, <1>1, <1>3, <2>4, <2>5, <2>6, <2>7, GoesOn DEF Unlocked
  <1>4. ASSUME Raise(p) PROVE Processes' /\ CountTypes'
    BY <1>0, <1>1, <1>4, RaiseEnds
  <1>5. FileTypes' /\ RuntimeTypes' /\ Recorded'
    BY <1>0, <1>2, RemovePendingSound, HostKeeps, RuntimeKeeps DEF Unlink
  <1> QED BY <1>3, <1>4, <1>5 DEF Unlink, RecordInv

LEMMA SuccessTypes ==
  ASSUME RecordInv, NEW p \in Deployers, Success(p)
  PROVE  RecordInv'
  <1>0. FileTypes /\ RuntimeTypes /\ CountTypes /\ Processes /\ Recorded
    BY DEF RecordInv
  <1>1. proc[p].pc = "success" /\ proc[p].pc \notin Unlocked /\ Placed(p) /\ proc[p] \in Process
    BY <1>0, ProcessFields DEF Success, At, Unlocked
  <1>2. Processes'
    BY <1>0, <1>1, LeaveEnds DEF Success, Release
  <1>3. CountTypes'
    BY <1>0, ReportCounts DEF CountTypes, Success, Status
  <1> QED BY <1>0, <1>2, <1>3, HostKeeps, RuntimeKeeps DEF RecordInv, Success

(***************************************************************************)
(* Recovery.                                                               *)
(***************************************************************************)
LEMMA FailCounts ==
  ASSUME CountTypes, NEW p, NEW status \in Status, Fail(p, status)
  PROVE  reports' \in [1..MaxRuns -> Status] /\ runs' \in 0..MaxRuns /\ Leave(p)
  BY DEF CountTypes, Fail, Report

LEMMA InterveneCounts ==
  ASSUME CountTypes, NEW p, Intervene(p), faults' \in 0..MaxFaults
  PROVE  CountTypes' /\ Leave(p)
  BY FailCounts DEF Intervene, CountTypes, Status

LEMMA RelockTypes ==
  ASSUME RecordInv, NEW p \in Deployers, Relock(p)
  PROVE  RecordInv'
  <1>0. FileTypes /\ RuntimeTypes /\ CountTypes /\ Processes /\ Recorded
    BY DEF RecordInv
  <1>1. proc[p].pc = "relock" /\ proc[p] \in Process
    BY <1>0, ProcessFields DEF Relock, At
  <1>2. ASSUME lock = Free, LayoutValid PROVE Processes' /\ CountTypes'
    <2>1. Goto(p, "reconsider") /\ lock' = p /\ "reconsider" \in Pc
      BY <1>2 DEF Relock, Pc
    <2>2. Moves(p) /\ proc'[p] = [proc[p] EXCEPT !.pc = "reconsider"]
      BY <1>0, <1>1, <2>1, GotoMoves
    <2>3. proc'[p].pc = "reconsider"
      BY <1>1, <2>2 DEF Process
    <2>4. CountTypes'
      BY <1>0, <1>2 DEF CountTypes, Relock
    <2> QED BY <1>0, <1>2, <2>1, <2>2, <2>3, <2>4, TakesLock DEF Relock, host
  <1>3. ASSUME ~(lock = Free /\ LayoutValid) PROVE Processes' /\ CountTypes'
    <2>1. CountTypes' /\ Leave(p)
      BY <1>0, <1>3, InterveneCounts DEF Relock, CountTypes
    <2> QED BY <1>0, <1>1, <1>3, <2>1, LeaveMoves, StaysOut, IdleTyped DEF Relock, Unlocked, host
  <1> QED BY <1>0, <1>2, <1>3, HostKeeps, RuntimeKeeps DEF Relock, RecordInv

LEMMA ReconsiderTypes ==
  ASSUME RecordInv, NEW p \in Deployers, Reconsider(p)
  PROVE  RecordInv'
  <1>0. FileTypes /\ RuntimeTypes /\ CountTypes /\ Processes /\ Recorded
    BY DEF RecordInv
  <1>1. proc[p].pc = "reconsider" /\ proc[p].pc \notin Unlocked /\ Placed(p) /\ proc[p] \in Process
    BY <1>0, ProcessFields DEF Reconsider, At, Unlocked
  <1>2. UNCHANGED host /\ UNCHANGED runtime
    BY DEF Reconsider
  <1>3. ASSUME Release, Intervene(p), faults' = faults \/ Fault
        PROVE  Processes' /\ CountTypes'
    <2>1. CountTypes' /\ Leave(p)
      BY <1>0, <1>3, InterveneCounts, FaultCounts DEF CountTypes
    <2> QED BY <1>0, <1>1, <1>3, <2>1, LeaveEnds DEF Release
  <1>4. ASSUME Release, Fail(p, "FAILED"), UNCHANGED <<faults, attention>>
        PROVE  Processes' /\ CountTypes'
    <2>1. CountTypes' /\ Leave(p)
      BY <1>0, <1>4, FailCounts DEF CountTypes, Status
    <2> QED BY <1>0, <1>1, <1>4, <2>1, LeaveEnds DEF Release
  <1>5. ASSUME IsPending, NEW pc \in {"restore", "clear"}, Done(p, pc)
        PROVE  Processes' /\ CountTypes'
    <2>1. proc'[p] = [proc[p] EXCEPT !.pc = pc]
      BY <1>0, <1>5 DEF Done, Goto, Processes
    <2>2. proc'[p].pc = pc /\ proc'[p].run = proc[p].run
      BY <1>1, <2>1 DEF Process
    <2>3. Placed(p)'
      BY <1>1, <1>2, <1>5, <2>2 DEF Placed, PhaseAt, host, IsPending
    <2>4. pc \in Pc \ Unlocked
      BY DEF Pc, Unlocked
    <2> QED BY <1>0, <1>1, <1>5, <2>3, <2>4, DoneGoesOn, DoneCounts
  <1>6. Processes' /\ CountTypes'
    BY <1>3, <1>4, <1>5 DEF Reconsider
  <1> QED BY <1>0, <1>2, <1>6, HostKeeps, RuntimeKeeps DEF RecordInv

LEMMA RestoreTypes ==
  ASSUME RecordInv, NEW p \in Deployers, Restore(p)
  PROVE  RecordInv'
  <1>0. FileTypes /\ RuntimeTypes /\ CountTypes /\ Processes /\ Recorded
    BY DEF RecordInv
  <1>1. proc[p].pc = "restore" /\ proc[p].pc \notin Unlocked /\ Placed(p) /\ proc[p] \in Process
    BY <1>0, ProcessFields DEF Restore, At, Unlocked
  <1>2. proc[p].previous.app \in Revisions /\ IsPending
    BY <1>0, <1>1, ProcessFields DEF Placed
  <1>3. FileTypes' /\ RuntimeTypes' /\ Recorded'
    BY <1>0, <1>2 DEF Restore, FileTypes, RuntimeTypes, Recorded, IsPending
  <1>4. UNCHANGED <<pending, committed, link>>
    BY DEF Restore
  <1>5. ASSUME Done(p, "clear") PROVE Processes' /\ CountTypes'
    <2>1. proc'[p] = [proc[p] EXCEPT !.pc = "clear"]
      BY <1>0, <1>5 DEF Done, Goto, Processes
    <2>2. proc'[p].pc = "clear" /\ proc'[p].run = proc[p].run
      BY <1>1, <2>1 DEF Process
    <2>3. Placed(p)'
      BY <1>1, <1>2, <1>4, <2>2 DEF Placed, PhaseAt, IsPending
    <2>4. "clear" \in Pc \ Unlocked
      BY DEF Pc, Unlocked
    <2> QED BY <1>0, <1>1, <1>5, <2>3, <2>4, DoneGoesOn, DoneCounts
  <1>6. ASSUME Fault, Release,
               \/ Leave(p) /\ attention' = TRUE /\ UNCHANGED <<runs, reports>>
               \/ Intervene(p)
        PROVE  Processes' /\ CountTypes'
    <2>1. CountTypes' /\ Leave(p)
      BY <1>0, <1>6, InterveneCounts, FaultCounts DEF CountTypes
    <2> QED BY <1>0, <1>1, <1>6, <2>1, LeaveEnds DEF Release
  <1> QED BY <1>3, <1>5, <1>6 DEF Restore, RecordInv

\* With the release before committed and current, the link needs no repair.
LEMMA PredecessorLinked ==
  ASSUME Recorded, IsPending, PredecessorCurrent
  PROVE  link = committed.config
  BY DEF Recorded, PredecessorCurrent, Current

LEMMA ClearTypes ==
  ASSUME RecordInv, NEW p \in Deployers, Clear(p)
  PROVE  RecordInv'
  <1>0. FileTypes /\ RuntimeTypes /\ CountTypes /\ Processes /\ Recorded
    BY DEF RecordInv
  <1>1. proc[p].pc = "clear" /\ proc[p].pc \notin Unlocked /\ Placed(p) /\ proc[p] \in Process
    BY <1>0, ProcessFields DEF Clear, At, Unlocked
  <1>2. IsPending /\ Release
    BY <1>1 DEF Placed, Clear
  <1>3. (PredecessorCurrent /\ RemovePending) \/ UNCHANGED <<host, runtime>>
    BY DEF Clear
  <1>4. FileTypes' /\ RuntimeTypes' /\ Recorded'
    BY <1>0, <1>2, <1>3, PredecessorLinked, RemovePendingSound, HostKeeps, RuntimeKeeps
  <1>5. \/ \E status \in Status : Fail(p, status) /\ UNCHANGED <<faults, attention>>
        \/ /\ Fault \/ UNCHANGED faults
           /\ \/ Leave(p) /\ UNCHANGED <<runs, reports, attention>>
              \/ Intervene(p)
    BY DEF Clear, Status
  <1>6. CountTypes' /\ Leave(p)
    BY <1>0, <1>5, FailCounts, InterveneCounts, FaultCounts DEF CountTypes
  <1>7. Processes'
    BY <1>0, <1>1, <1>2, <1>6, LeaveEnds DEF Release
  <1> QED BY <1>4, <1>6, <1>7 DEF RecordInv

\* A process that settles the record of another goes on with its names.
Found(p, pc) ==
  proc' = [proc EXCEPT ![p].pc = pc, ![p].recovering = TRUE,
                       ![p].run = pending.run, ![p].previous = pending.previous]

LEMMA ObserveCases ==
  ASSUME NEW p, Observe(p)
  PROVE  /\ At(p, "observe") /\ UNCHANGED <<host, runtime>>
         /\ \/ \E pc \in {"finish", "persist", "restore"} :
                 /\ Found(p, pc) /\ UNCHANGED <<lock, runs, faults, reports, attention>>
                 /\ pc = "finish" => pending.phase = "COMMITTING" /\ Finalizable
                 /\ pc = "persist" => pending.phase = "READINESS_VERIFIED" /\ Finalizable
                 /\ pc = "restore" => /\ ~SchemaDiffers
                                      /\ pending.phase \notin {"READINESS_VERIFIED", "COMMITTING"}
            \/ /\ Release /\ Leave(p) /\ attention' = TRUE
               /\ faults' = faults \/ Fault
               /\ UNCHANGED <<runs, reports>>
            \/ Raise(p)
  BY DEF Observe, Found, CallOperator

LEMMA ObserveTypes ==
  ASSUME RecordInv, NEW p \in Deployers, Observe(p)
  PROVE  RecordInv'
  <1>0. FileTypes /\ RuntimeTypes /\ CountTypes /\ Processes /\ Recorded
    BY DEF RecordInv
  <1>1. proc[p].pc = "observe" /\ proc[p].pc \notin Unlocked /\ Placed(p) /\ proc[p] \in Process
    BY <1>0, ProcessFields DEF Observe, At, Unlocked
  <1>2. IsPending /\ Stamped(pending) /\ UNCHANGED host /\ UNCHANGED runtime
    BY <1>0, <1>1, ObserveCases DEF Placed, FileTypes
  <1>3. ASSUME NEW pc \in {"finish", "persist", "restore"}, Found(p, pc),
               pc = "finish" => pending.phase = "COMMITTING",
               pc = "persist" => pending.phase = "READINESS_VERIFIED",
               UNCHANGED <<lock, runs, faults, reports, attention>>
        PROVE  Processes' /\ CountTypes'
    <2>1. /\ proc' = [proc EXCEPT ![p] = [proc[p] EXCEPT !.pc = pc, !.recovering = TRUE,
                              !.run = pending.run, !.previous = pending.previous]]
          /\ proc'[p] = [proc[p] EXCEPT !.pc = pc, !.recovering = TRUE,
                              !.run = pending.run, !.previous = pending.previous]
      BY <1>0, <1>3 DEF Processes, Found
    <2>2. pc \in Pc /\ pending.run \in 1..MaxRuns /\ pending.run \in 0..MaxRuns
          /\ pending.previous \in Identity
      BY <1>2, PendingFields DEF Pc
    <2>3. proc'[p] = [proc[p] EXCEPT !.pc = pc, !.recovering = TRUE,
                              !.run = pending.run, !.previous = pending.previous]
          /\ proc[p] \in Process
      BY <1>1, <2>1
    <2>4. proc'[p] \in Process /\ proc'[p].pc = pc /\ proc'[p].run = pending.run
      BY <2>2, <2>3 DEF Process
    <2>5. Moves(p)
      BY <2>1, <2>2, <2>4 DEF Moves
    <2>6. Placed(p)'
      BY <1>2, <1>3, <2>2, <2>4 DEF Placed, PhaseAt, host, IsPending
    <2>7. CountTypes'
      BY <1>0, <1>3 DEF CountTypes
    <2> QED BY <1>0, <1>1, <1>3, <2>4, <2>5, <2>6, <2>7, GoesOn DEF Unlocked
  <1>4. ASSUME Release, Leave(p), attention' = TRUE, faults' = faults \/ Fault,
               UNCHANGED <<runs, reports>>
        PROVE  Processes' /\ CountTypes'
    BY <1>0, <1>1, <1>4, LeaveEnds, FaultCounts DEF CountTypes, Release
  <1>5. ASSUME Raise(p) PROVE Processes' /\ CountTypes'
    BY <1>0, <1>1, <1>5, RaiseEnds
  <1>6. Processes' /\ CountTypes'
    BY <1>3, <1>4, <1>5, ObserveCases
  <1> QED BY <1>0, <1>2, <1>6, HostKeeps, RuntimeKeeps DEF RecordInv

(***************************************************************************)
(* Ends of processes, and the others that use the lock.                    *)
(***************************************************************************)
LEMMA EndTypes ==
  ASSUME RecordInv, NEW p \in Deployers, NEW left \in {Free, Stale}, NEW remains,
         End(p, left, remains)
  PROVE  RecordInv'
  <1>0. FileTypes /\ RuntimeTypes /\ CountTypes /\ Processes /\ Recorded
    BY DEF RecordInv
  <1>1. Leave(p) /\ UNCHANGED host /\ Fault /\ attention' = TRUE /\ UNCHANGED <<runs, reports>>
    BY DEF End
  <1>2. CountTypes'
    BY <1>0, <1>1, FaultCounts DEF CountTypes
  <1>3. api' \in Revisions \union {Stopped}
    BY <1>0, ProcessFields DEF End, RuntimeTypes
  <1>4. orphan' \in BOOLEAN
    BY <1>0, OutlivesAssumption DEF End, RuntimeTypes
  <1>5. RuntimeTypes'
    BY <1>0, <1>3, <1>4 DEF RuntimeTypes, End
  <1>6. CASE proc[p].pc \in Unlocked
    <2>1. lock' = lock
      BY <1>0, <1>6 DEF End, Holds, Processes, Exclusive
    <2>2. Processes'
      BY <1>0, <1>1, <1>6, <2>1, LeaveMoves, StaysOut, IdleTyped DEF Unlocked, host
    <2> QED BY <1>0, <1>1, <1>2, <1>5, <2>2, HostKeeps DEF RecordInv
  <1>7. CASE proc[p].pc \notin Unlocked
    <2>1. lock' = left
      BY <1>0, <1>7 DEF End, Holds, Processes, Exclusive
    <2>2. Processes'
      BY <1>0, <1>1, <1>7, <2>1, LeaveEnds
    <2> QED BY <1>0, <1>1, <1>2, <1>5, <2>2, HostKeeps DEF RecordInv
  <1> QED BY <1>6, <1>7

LEMMA OrphanTypes ==
  ASSUME RecordInv, OrphanEnds
  PROVE  RecordInv'
  <1>0. FileTypes /\ RuntimeTypes /\ CountTypes /\ Processes /\ Recorded
    BY DEF RecordInv
  <1>1. RuntimeTypes'
    BY <1>0 DEF OrphanEnds, RuntimeTypes
  <1>2. CountTypes'
    BY <1>0 DEF OrphanEnds, CountTypes
  <1>3. Processes'
    BY <1>0, NobodyMoves DEF OrphanEnds, host
  <1> QED BY <1>0, <1>1, <1>2, <1>3, HostKeeps DEF OrphanEnds, RecordInv

LEMMA LockTypes ==
  ASSUME RecordInv, RemoveStaleLock \/ RemoveLeftover \/ BeginBackup \/ EndBackup
  PROVE  RecordInv'
  <1>0. FileTypes /\ RuntimeTypes /\ CountTypes /\ Processes /\ Recorded
    BY DEF RecordInv
  <1>1. UNCHANGED host /\ UNCHANGED runtime /\ proc' = proc
        /\ {lock, lock'} \subseteq {Free, Stale, Backup}
    BY DEF RemoveStaleLock, RemoveLeftover, BeginBackup, EndBackup, Release
  <1>2. CountTypes'
    BY <1>0, FaultCounts DEF CountTypes, RemoveStaleLock, RemoveLeftover, BeginBackup, EndBackup
  <1>3. Processes'
    BY <1>0, <1>1, NobodyMoves DEF host
  <1> QED BY <1>0, <1>1, <1>2, <1>3, HostKeeps, RuntimeKeeps DEF RecordInv

LEMMA StutterTypes ==
  ASSUME RecordInv, UNCHANGED vars
  PROVE  RecordInv'
  <1>0. FileTypes /\ RuntimeTypes /\ CountTypes /\ Processes /\ Recorded
    BY DEF RecordInv
  <1>1. UNCHANGED host /\ UNCHANGED runtime /\ proc' = proc /\ lock' = lock
    BY DEF vars
  <1>2. CountTypes'
    BY <1>0 DEF CountTypes, vars
  <1>3. Processes'
    BY <1>0, <1>1, NobodyMoves DEF host
  <1> QED BY <1>0, <1>1, <1>2, <1>3, HostKeeps, RuntimeKeeps DEF RecordInv

\* Who writes under the lock is past it.
LEMMA WritesLocked ==
  ASSUME NEW p \in Deployers, Remains(p) # {}
  PROVE  proc[p].pc \notin Unlocked
  <1>1. Writing(p) \/ Staging(p)
    BY DEF Remains
  <1>2. proc[p].pc \in Marks \union {"markCommitting", "writeState", "stage", "checkPredecessor", "finish"}
    BY <1>1 DEF Writing, Staging, At
  <1> QED BY <1>2 DEF Marks, Unlocked

LEMMA CutShortTypes ==
  ASSUME RecordInv, NEW p \in Deployers, CutShort(p)
  PROVE  RecordInv'
  <1>1. proc[p].pc \notin Unlocked
    BY WritesLocked DEF CutShort
  <1> QED BY <1>1, RaiseEnds, HostKeeps, RuntimeKeeps DEF CutShort, RecordInv

LEMMA StepTypes ==
  ASSUME RecordInv, NEW p \in Deployers, Step(p)
  PROVE  RecordInv'
  <1>1. CASE RunBackup(p)
    BY <1>1, ReadSchemaTypes DEF RunBackup, At
  <1>2. CASE ReadAfter(p)
    BY <1>2, ReadSchemaTypes DEF ReadAfter, At
  <1>3. CASE Acquire(p) \/ Inspect(p) \/ Stage(p) \/ ReportRunning(p) \/ Quiesce(p) \/ Advance(p)
    BY <1>3, AcquireTypes, InspectTypes, StageTypes, ReportTypes, QuiesceTypes, AdvanceTypes
  <1>4. CASE Migrate(p) \/ Cutover(p) \/ Ready(p) \/ PersistImages(p) \/ MarkCommitting(p)
    BY <1>4, MigrateTypes, CutoverTypes, ReadyTypes, PersistTypes, MarkCommittingTypes
  <1>5. CASE CheckPredecessor(p) \/ Finish(p) \/ WriteState(p) \/ Unlink(p) \/ Success(p)
    BY <1>5, SwitchTypes, WriteStateTypes, UnlinkTypes, SuccessTypes
  <1>6. CASE Relock(p) \/ Reconsider(p) \/ Restore(p) \/ Clear(p) \/ Observe(p)
    BY <1>6, RelockTypes, ReconsiderTypes, RestoreTypes, ClearTypes, ObserveTypes
  <1> QED BY <1>1, <1>2, <1>3, <1>4, <1>5, <1>6, CutShortTypes DEF Step, Program

LEMMA NextTypes ==
  ASSUME RecordInv, [Next]_vars
  PROVE  RecordInv'
  <1>1. ASSUME NEW p \in Deployers, Request(p) \/ Step(p) \/ Kill(p) \/ Interrupt(p)
        PROVE  RecordInv'
    BY <1>1, RequestTypes, StepTypes, EndTypes DEF Kill, Interrupt
  <1> QED BY <1>1, OrphanTypes, LockTypes, StutterTypes DEF Next

LEMMA InitTypes == Init => RecordInv
  <1> SUFFICES ASSUME Init PROVE RecordInv
    OBVIOUS
  <1>1. First.app \in Revisions /\ First.config \in Configs /\ First \in Identity
    BY ReleaseAssumption DEF Identity
  <1>2. ~IsPending
    BY DEF Init, IsPending
  <1>3. FileTypes /\ RuntimeTypes /\ Recorded
    <2>1. 1 \in Schemas
      BY BoundAssumption DEF Schemas
    <2>2. committed = First /\ link = First.config /\ env = First.app /\ api = First.app
          /\ schema = 1 /\ home = 1
      BY DEF Init
    <2>3. orphan \in BOOLEAN
      BY DEF Init
    <2> QED BY <1>1, <1>2, <2>1, <2>2, <2>3 DEF FileTypes, RuntimeTypes, Recorded
  <1>4. CountTypes
    <2>1. runs = 0 /\ faults = 0 /\ reports = [r \in 1..MaxRuns |-> "NONE"]
      BY DEF Init
    <2>2. attention \in BOOLEAN
      BY DEF Init
    <2>3. MaxRuns \in Nat /\ MaxFaults \in Nat
      BY BoundAssumption
    <2> QED BY <2>1, <2>2, <2>3 DEF CountTypes, Status
  <1>5. \A p \in Deployers : proc[p] = Idle /\ proc[p].pc = "idle"
    BY IdleTyped DEF Init
  <1>6. \A p \in Deployers : Placed(p)
    BY <1>5, UnlockedPlaced DEF Unlocked
  <1>7. Exclusive
    BY <1>5, ProcessAssumption DEF Init, Exclusive, Unlocked
  <1>8. Processes
    BY <1>6, <1>7, IdleTyped DEF Init, Processes
  <1> QED BY <1>3, <1>4, <1>8 DEF RecordInv

LEMMA RecordInvariant == Spec => []RecordInv
  BY InitTypes, NextTypes, PTL DEF Spec

(***************************************************************************)
(* Temporary entries left over.                                            *)
(***************************************************************************)
\* Without the lock a program can do nothing but try to take it.
LEMMA OutsideTries ==
  ASSUME NEW p \in Deployers, Program(p), proc[p].pc \in Unlocked
  PROVE  Acquire(p) \/ Relock(p)
  <1>1. ~(Inspect(p) \/ Stage(p) \/ ReportRunning(p) \/ Quiesce(p))
    BY DEF Inspect, Stage, ReportRunning, Quiesce, At, Unlocked
  <1>2. ~(RunBackup(p) \/ Migrate(p) \/ ReadAfter(p) \/ Cutover(p) \/ Ready(p))
    BY DEF RunBackup, Migrate, ReadAfter, Cutover, Ready, At, Unlocked
  <1>3. ~(PersistImages(p) \/ MarkCommitting(p) \/ CheckPredecessor(p) \/ Finish(p))
    BY DEF PersistImages, MarkCommitting, CheckPredecessor, Finish, At, Unlocked
  <1>4. ~(WriteState(p) \/ Unlink(p) \/ Success(p))
    BY DEF WriteState, Unlink, Success, At, Unlocked
  <1>5. ~(Reconsider(p) \/ Restore(p) \/ Clear(p) \/ Observe(p))
    BY DEF Reconsider, Restore, Clear, Observe, At, Unlocked
  <1>6. ~Advance(p)
    BY DEF Advance, Marks, At, Unlocked
  <1> QED BY <1>1, <1>2, <1>3, <1>4, <1>5, <1>6 DEF Program

\* With an entry left over, taking the lock fails.
LEMMA LeftoverRefused ==
  ASSUME RecordInv, LeftInv, ~LayoutValid, NEW p \in Deployers, Program(p)
  PROVE  UNCHANGED <<lock, host, runtime>>
  <1>1. proc[p].pc \in Unlocked
    BY DEF RecordInv, LeftInv, Processes, Exclusive
  <1>2. Acquire(p) \/ Relock(p)
    BY <1>1, OutsideTries
  <1> QED BY <1>2 DEF Acquire, Relock

\* Whoever can leave an entry holds the lock, and gives it up with it.
LEMMA CutShortLeaves ==
  ASSUME RecordInv, NEW p \in Deployers, CutShort(p)
  PROVE  lock' = Free /\ \E e \in {"entry", "stage"} : leftovers' = leftovers \union {e}
  BY DEF CutShort, Raise, Unwind, Release, Remains

LEMMA EndLeaves ==
  ASSUME RecordInv, NEW p \in Deployers, Kill(p) \/ Interrupt(p)
  PROVE  \/ leftovers' = leftovers /\ lock' \in {lock, Free, Stale}
         \/ /\ lock' = Stale
            /\ \E e \in {"entry", "stage"} : leftovers' = leftovers \union {e}
  <1>1. ASSUME Remains(p) # {} PROVE Holds(p)
    BY <1>1, WritesLocked DEF RecordInv, Processes, Exclusive, Holds
  <1>2. \A e \in Remains(p) : e \in {"entry", "stage"}
    BY DEF Remains
  <1> QED BY <1>1, <1>2 DEF Kill, Interrupt, End

LEMMA LeftStep ==
  ASSUME RecordInv, LeftInv, [Next]_vars
  PROVE  LeftInv'
  <1>0. Free \notin Deployers /\ Stale \notin Deployers /\ Backup \notin Deployers
    BY ProcessAssumption
  <1>1. ASSUME NEW p \in Deployers, Program(p), UNCHANGED leftovers PROVE LeftInv'
    <2>1. CASE LayoutValid
      BY <1>1, <2>1 DEF LeftInv, LayoutValid
    <2>2. CASE ~LayoutValid
      BY <1>1, <2>2, LeftoverRefused DEF LeftInv, LayoutValid
    <2> QED BY <2>1, <2>2
  <1>2. ASSUME NEW p \in Deployers, CutShort(p) PROVE LeftInv'
    BY <1>0, <1>2, CutShortLeaves DEF LeftInv
  <1>3. ASSUME NEW p \in Deployers, Kill(p) \/ Interrupt(p) PROVE LeftInv'
    BY <1>0, <1>3, EndLeaves DEF LeftInv, LayoutValid
  <1>4. ASSUME NEW p \in Deployers, Request(p), UNCHANGED leftovers PROVE LeftInv'
    BY <1>4 DEF Request, LeftInv, LayoutValid
  <1>5. ASSUME OrphanEnds \/ UNCHANGED vars PROVE LeftInv'
    BY <1>5 DEF OrphanEnds, vars, LeftInv, LayoutValid
  <1>6. ASSUME RemoveStaleLock \/ RemoveLeftover \/ BeginBackup \/ EndBackup PROVE LeftInv'
    BY <1>0, <1>6 DEF RemoveStaleLock, RemoveLeftover, BeginBackup, EndBackup, Release, LeftInv, LayoutValid
  <1> QED BY <1>1, <1>2, <1>3, <1>4, <1>5, <1>6 DEF Next, Step

LEMMA LeftInvariant == Spec => [](RecordInv /\ LeftInv)
  <1>1. Init => LeftInv
    BY DEF Init, LeftInv, LayoutValid
  <1> QED BY <1>1, LeftStep, RecordInvariant, PTL DEF Spec

\* Every record that a process leaves on disk carries what its phase calls for,
\* so the next one can read it back; with any number of deployments at once.
THEOREM RecordsReadBack == Spec => []TypeOK
  BY LeftInvariant, RecordTyped, PTL

\* A temporary entry left by a write cut short stops every deployment, recovery
\* and backup, of any number, before it changes a file or a container.
THEOREM LeftoversFreezeHost == Spec => LeftoverFreezesHost
  <1> DEFINE Frozen == "entry" \in leftovers => UNCHANGED <<pending, committed, link, env, api>>
  <1>1. ASSUME RecordInv, LeftInv, [Next]_vars PROVE Frozen
    <2> SUFFICES ASSUME ~LayoutValid PROVE UNCHANGED <<pending, committed, link, env, api>>
      BY DEF LayoutValid
    <2>1. ASSUME NEW p \in Deployers, Program(p) PROVE UNCHANGED <<host, runtime>>
      BY <1>1, <2>1, LeftoverRefused
    <2>2. ASSUME NEW p \in Deployers, CutShort(p) \/ Request(p) PROVE UNCHANGED <<host, runtime>>
      BY <2>2 DEF CutShort, Request
    <2>3. ASSUME NEW p \in Deployers, Kill(p) \/ Interrupt(p) PROVE UNCHANGED <<host, api>>
      <3>1. proc[p].pc \in Unlocked
        BY <1>1 DEF RecordInv, LeftInv, Processes, Exclusive
      <3> QED BY <2>3, <3>1 DEF Kill, Interrupt, End, At, Unlocked
    <2>4. ASSUME OrphanEnds \/ RemoveStaleLock \/ RemoveLeftover \/ BeginBackup \/ EndBackup
                   \/ UNCHANGED vars
          PROVE  UNCHANGED <<host, api>>
      BY <2>4 DEF OrphanEnds, RemoveStaleLock, RemoveLeftover, BeginBackup, EndBackup, vars, runtime
    <2>5. UNCHANGED <<host, api>>
      BY <1>1, <2>1, <2>2, <2>3, <2>4 DEF Next, Step, runtime
    <2> QED BY <2>5 DEF host
  <1> QED BY <1>1, LeftInvariant, PTL DEF Spec, LeftoverFreezesHost

\* inspect_state accepts the link, the state file and the record wherever any
\* process, of any number, fails, is killed or recovers.
THEOREM RecordsStayConsistent == Spec => []RecordsConsistent
  <1>1. RecordInv => RecordsConsistent
    BY DEF RecordInv, Recorded, RecordsConsistent, Consistent, Current
  <1> QED BY <1>1, RecordInvariant, PTL

(***************************************************************************)
(* What serves.  These facts need deployments one at a time, as the        *)
(* workflow that starts them has it: between its failure and its recovery  *)
(* a deployment is without the lock, and with several at once it may then  *)
(* meet the record of another and take it for its own.                     *)
(***************************************************************************)
OneAtATime == \A p, q \in Deployers : p = q

\* The writer is down from its stop to the cutover; the candidate serves from
\* the check of its readiness to the end.
Writerless == {"markQuiesced", "backup", "markBackup", "markMigrating", "migrate", "readAfter",
               "markMigrated", "markCutover", "cutover"}
Committing == {"markReady", "persist", "markCommitting", "checkPredecessor", "finish",
               "writeState", "unlink"}
Deploying == (DOMAIN PhaseAt \ Committing) \union {"markReady", "relock", "reconsider"}
NotStarted == {"idle", "acquire", "inspect", "stage", "observe", "success"}

\* The schema is the one the committed release was verified with.
Fits == schema = home \/ strayed

\* What a deployment knows of the record, and what it has not yet touched.
Owned(p) ==
  LET me == proc[p] IN
  /\ me.pc \in Deploying => me.started
  /\ me.started => ~me.recovering /\ me.pc \notin NotStarted
  /\ me.pc \in {"idle", "acquire", "inspect", "stage"} => ~me.recovering
  /\ me.started /\ IsPending => pending.previous = me.previous /\ pending.candidate = Candidate(p)
  /\ me.started /\ ~me.quiesced =>
       /\ me.pc \in {"report", "quiesce", "relock", "reconsider", "restore", "clear"}
       /\ IsPending => api = me.previous.app /\ env = me.previous.app

\* What the holder of the lock may count on, by where it is.
Served(p) ==
  LET me == proc[p] IN
  /\ me.pc \in {"restore", "clear"} => pending.previous = me.previous /\ Fits
  /\ me.pc = "clear" => api = me.previous.app /\ env = me.previous.app
  /\ me.pc \in Writerless => api = Stopped
  /\ me.pc \in {"markBackup", "markMigrated"} => me.read = schema \/ strayed
  /\ me.pc \in Committing => api = pending.candidate.app
  /\ me.pc \in Committing \ {"markReady", "persist"} => env = pending.candidate.app
  /\ me.pc = "unlink" => Fits

\* What the host is, with a record and without one.
Whole ==
  IF IsPending
  THEN /\ env \in {pending.previous.app, pending.candidate.app}
       /\ pending.phase = "COMMITTING" /\ api = pending.candidate.app =>
            env = pending.candidate.app
       /\ pending.phase \notin MigrationMayHaveRun => Fits
       /\ pending.before # NoSchema =>
            strayed \/ home = pending.before \/ (pending.after # NoSchema /\ home = pending.after)
       /\ pending.after # NoSchema => schema = pending.after \/ strayed
       /\ pending.candidate.app # committed.app /\ api = committed.app => Fits
  ELSE api = committed.app /\ env = committed.app /\ Fits

ServeInv == RecordInv /\ Whole /\ \A p \in Deployers : Owned(p) /\ Served(p)

(***************************************************************************)
(* Steps of a process, again.                                              *)
(***************************************************************************)
\* The names and flags that a plain move leaves alone.
SameNames(p) ==
  /\ proc'[p].previous = proc[p].previous /\ proc'[p].app = proc[p].app
  /\ proc'[p].mode = proc[p].mode
SameFlags(p) ==
  /\ proc'[p].started <=> proc[p].started
  /\ proc'[p].quiesced <=> proc[p].quiesced
  /\ proc'[p].recovering <=> proc[p].recovering

LEMMA GotoFields ==
  ASSUME Processes, NEW p \in Deployers, NEW pc \in Pc, Goto(p, pc)
  PROVE  proc'[p].pc = pc /\ proc'[p].read = proc[p].read /\ SameNames(p) /\ SameFlags(p)
  <1>1. proc'[p] = [proc[p] EXCEPT !.pc = pc] /\ proc[p] \in Process
    BY DEF Goto, Processes
  <1>2. proc'[p].pc = pc /\ proc'[p].read = proc[p].read /\ SameNames(p)
    BY <1>1 DEF Process, SameNames
  <1>3. proc'[p].started <=> proc[p].started
    BY <1>1 DEF Process
  <1>4. proc'[p].quiesced <=> proc[p].quiesced
    BY <1>1 DEF Process
  <1>5. proc'[p].recovering <=> proc[p].recovering
    BY <1>1 DEF Process
  <1> QED BY <1>2, <1>3, <1>4, <1>5 DEF SameFlags

LEMMA SameCandidate ==
  ASSUME NEW p, SameNames(p)
  PROVE  Candidate(p)' = Candidate(p)
  BY DEF SameNames, Candidate

LEMMA UnstartedKnows ==
  ASSUME NEW p, ~proc'[p].started, proc'[p].pc \in NotStarted,
         proc'[p].pc \in {"idle", "acquire", "inspect", "stage"} => ~proc'[p].recovering
  PROVE  Owned(p)' /\ Served(p)'
  <1>1. proc'[p].pc \notin Deploying \union Writerless \union Committing
                           \union {"restore", "clear", "markBackup", "markMigrated", "unlink"}
    BY DEF NotStarted, Deploying, PhaseAt, Writerless, Committing
  <1>2. Owned(p)'
    BY <1>1 DEF Owned
  <1>3. Served(p)'
    BY <1>1 DEF Served
  <1> QED BY <1>2, <1>3

LEMMA LeaveKnows ==
  ASSUME Processes, NEW p \in Deployers, Leave(p)
  PROVE  Owned(p)' /\ Served(p)'
  <1>1. proc'[p] = Idle
    BY LeaveMoves
  <1>2. ~Idle.started /\ Idle.pc = "idle" /\ ~Idle.recovering
    BY DEF Idle
  <1> QED BY <1>1, <1>2, UnstartedKnows DEF NotStarted

\* What an error leaves: a deployment that keeps its record in mind, or nothing.
LEMMA UnwindKnows ==
  ASSUME Processes, NEW p \in Deployers, Owned(p), Unwind(p),
         proc[p].started /\ IsPending' =>
           /\ IsPending
           /\ pending'.previous = pending.previous /\ pending'.candidate = pending.candidate,
         proc[p].started /\ ~proc[p].quiesced => UNCHANGED <<api, env>>
  PROVE  Owned(p)' /\ Served(p)'
  <1>1. CASE ~proc[p].started
    BY <1>1, LeaveKnows DEF Unwind
  <1>2. CASE proc[p].started
    <2>1. /\ proc'[p].pc = "relock" /\ SameNames(p)
          /\ SameFlags(p) /\ Candidate(p)' = Candidate(p)
      BY <1>2, GotoFields, SameCandidate DEF Unwind, Pc
    <2>2. Owned(p)'
      BY <1>2, <2>1 DEF Owned, SameFlags, SameNames, NotStarted
    <2>3. Served(p)'
      BY <2>1 DEF Served, Writerless, Committing
    <2> QED BY <2>2, <2>3
  <1> QED BY <1>1, <1>2

LEMMA WholeKeeps ==
  ASSUME Whole, UNCHANGED <<pending, committed, env, home, api, schema, strayed>>
  PROVE  Whole'
  BY DEF Whole, IsPending, Fits

\* With one deployment at a time a fact about p is a fact about every one.
ServeStep(p) == Whole' /\ Owned(p)' /\ Served(p)'

Serving(p) == RecordInv /\ Whole /\ Owned(p) /\ Served(p)

LEMMA ServingFacts ==
  ASSUME NEW p \in Deployers, Serving(p)
  PROVE  /\ FileTypes /\ RuntimeTypes /\ Processes /\ Recorded /\ Whole /\ Owned(p) /\ Served(p)
         /\ Placed(p) /\ proc[p] \in Process
  BY ProcessFields DEF Serving, RecordInv

(***************************************************************************)
(* Until the record is written.                                            *)
(***************************************************************************)
LEMMA RequestServes ==
  ASSUME NEW p \in Deployers, Serving(p), Request(p)
  PROVE  ServeStep(p)
  <1>1. Processes
    BY ServingFacts
  <1>2. PICK app, mode :
          proc'[p] = [Idle EXCEPT !.pc = "acquire", !.run = runs + 1, !.app = app, !.mode = mode]
    BY <1>1 DEF Request, Processes
  <1>3. proc'[p].pc = "acquire" /\ ~proc'[p].started /\ ~proc'[p].recovering
    BY <1>2 DEF Idle
  <1>4. Whole'
    BY WholeKeeps, ServingFacts DEF Request, host, runtime
  <1> QED BY <1>3, <1>4, UnstartedKnows DEF NotStarted, ServeStep

LEMMA AcquireServes ==
  ASSUME NEW p \in Deployers, Serving(p), Acquire(p)
  PROVE  ServeStep(p)
  <1>1. Processes /\ Owned(p) /\ proc[p].pc = "acquire"
    BY ServingFacts DEF Acquire, At
  <1>2. ~proc[p].started /\ ~proc[p].recovering
    BY <1>1 DEF Owned, NotStarted
  <1>3. ASSUME Goto(p, "inspect") PROVE Owned(p)' /\ Served(p)'
    <2>1. proc'[p].pc = "inspect" /\ SameFlags(p)
      BY <1>1, <1>3, GotoFields DEF Pc
    <2> QED BY <1>2, <2>1, UnstartedKnows DEF SameFlags, NotStarted
  <1>4. Owned(p)' /\ Served(p)'
    BY <1>1, <1>3, LeaveKnows DEF Acquire
  <1>5. Whole'
    BY WholeKeeps, ServingFacts DEF Acquire, host, runtime
  <1> QED BY <1>4, <1>5 DEF ServeStep

LEMMA InspectServes ==
  ASSUME NEW p \in Deployers, Serving(p), Inspect(p)
  PROVE  ServeStep(p)
  <1>1. Processes /\ Owned(p) /\ proc[p].pc = "inspect" /\ proc[p] \in Process
    BY ServingFacts DEF Inspect, At
  <1>2. ~proc[p].started /\ ~proc[p].recovering
    BY <1>1 DEF Owned, NotStarted
  <1>3. ASSUME Consistent PROVE Owned(p)' /\ Served(p)'
    <2> DEFINE pc == IF IsPending THEN "observe" ELSE "stage"
    <2>1. proc'[p] = [proc[p] EXCEPT !.pc = pc, !.previous = committed]
      BY <1>1, <1>3 DEF Inspect, Processes
    <2>2. pc \in NotStarted
      BY DEF NotStarted
    <2> HIDE DEF pc
    <2>3. proc'[p].pc = pc
      BY <1>1, <2>1 DEF Process
    <2>4. ~proc'[p].started
      BY <1>1, <1>2, <2>1 DEF Process
    <2>5. ~proc'[p].recovering
      BY <1>1, <1>2, <2>1 DEF Process
    <2> QED BY <2>2, <2>3, <2>4, <2>5, UnstartedKnows
  <1>4. Owned(p)' /\ Served(p)'
    BY <1>1, <1>3, LeaveKnows DEF Inspect
  <1>5. Whole'
    BY WholeKeeps, ServingFacts DEF Inspect, host, runtime
  <1> QED BY <1>4, <1>5 DEF ServeStep

LEMMA FirstRecordWhole ==
  ASSUME Whole, FileTypes, ~IsPending, NEW p \in Deployers, pending' = FirstRecord(p),
         UNCHANGED <<committed, env, home, api, schema, strayed>>
  PROVE  /\ Whole' /\ IsPending'
         /\ pending'.previous = committed /\ pending'.candidate = Candidate(p)
         /\ api' = committed.app /\ env' = committed.app
  <1>1. /\ pending'.phase = "ARTIFACTS_VERIFIED" /\ pending'.previous = committed
        /\ pending'.candidate = Candidate(p)
        /\ pending'.before = NoSchema /\ pending'.after = NoSchema
    BY DEF FirstRecord
  <1>2. IsPending'
    BY <1>1 DEF IsPending, NoPending
  <1>3. api = committed.app /\ env = committed.app /\ Fits /\ Fits'
    BY DEF Whole, Fits
  <1>4. Whole'
    BY <1>1, <1>2, <1>3 DEF Whole
  <1> QED BY <1>1, <1>2, <1>3, <1>4

LEMMA StageServes ==
  ASSUME NEW p \in Deployers, Serving(p), Stage(p)
  PROVE  ServeStep(p)
  <1>1. /\ FileTypes /\ Processes /\ Owned(p) /\ Whole /\ Placed(p) /\ proc[p] \in Process
        /\ proc[p].pc = "stage"
    BY ServingFacts DEF Stage, At
  <1>2. ~IsPending /\ proc[p].previous = committed /\ ~proc[p].started /\ ~proc[p].recovering
    BY <1>1 DEF Placed, Owned, NotStarted
  <1>3. UNCHANGED <<committed, env, home, api, schema, strayed>>
    BY DEF Stage, host, runtime
  <1>4. ASSUME pending' = FirstRecord(p),
               proc' = [proc EXCEPT ![p].pc = "report", ![p].started = TRUE]
        PROVE  ServeStep(p)
    <2>1. proc'[p] = [proc[p] EXCEPT !.pc = "report", !.started = TRUE] /\ proc[p] \in Process
      BY <1>1, <1>4 DEF Processes
    <2>2. proc'[p].pc = "report" /\ SameNames(p)
      BY <2>1 DEF Process, SameNames
    <2>3. ~proc'[p].recovering
      BY <1>2, <2>1 DEF Process
    <2>4. proc'[p].started
      BY <2>1 DEF Process
    <2>5. /\ Whole' /\ pending'.previous = committed /\ pending'.candidate = Candidate(p)'
          /\ api' = committed.app /\ env' = committed.app
      BY <1>1, <1>2, <1>3, <1>4, <2>2, FirstRecordWhole, SameCandidate
    <2>6. Owned(p)'
      BY <1>2, <2>2, <2>3, <2>4, <2>5 DEF Owned, SameNames, NotStarted
    <2>7. Served(p)'
      BY <2>2 DEF Served, Writerless, Committing
    <2> QED BY <2>5, <2>6, <2>7 DEF ServeStep
  <1>5. ASSUME Leave(p), pending' \in {pending, NoPending, FirstRecord(p)}
        PROVE  ServeStep(p)
    <2>1. pending = NoPending
      BY <1>2 DEF IsPending
    <2>2. Whole'
      BY <1>1, <1>2, <1>3, <1>5, <2>1, FirstRecordWhole, WholeKeeps
    <2> QED BY <1>1, <1>5, <2>2, LeaveKnows DEF ServeStep
  <1> QED BY <1>4, <1>5 DEF Stage, FirstRecord, host

(***************************************************************************)
(* From the record to the candidate's readiness.                           *)
(***************************************************************************)
\* What the process of a recorded deployment is at a phase of it.
LEMMA OnPhase ==
  ASSUME NEW p \in Deployers, Serving(p), proc[p].pc \in DOMAIN PhaseAt
  PROVE  /\ IsPending /\ Stamped(pending) /\ pending.phase = PhaseAt[proc[p].pc]
         /\ proc[p].pc \in Deploying =>
              /\ proc[p].started /\ pending.previous = proc[p].previous
              /\ pending.candidate = Candidate(p)
  <1>1. IsPending /\ Stamped(pending) /\ pending.phase = PhaseAt[proc[p].pc]
    BY ServingFacts, PhaseOnRecord
  <1> QED BY <1>1, ServingFacts DEF Owned

LEMMA ReportServes ==
  ASSUME NEW p \in Deployers, Serving(p), ReportRunning(p)
  PROVE  ServeStep(p)
  <1>1. Processes /\ Owned(p) /\ Whole /\ proc[p].pc = "report"
    BY ServingFacts DEF ReportRunning, At
  <1>2. UNCHANGED <<pending, committed, env, home, api, schema, strayed>>
    BY DEF ReportRunning, host, runtime
  <1>3. Whole'
    BY <1>1, <1>2, WholeKeeps
  <1>4. ASSUME Goto(p, "quiesce") PROVE Owned(p)' /\ Served(p)'
    <2>1. /\ proc'[p].pc = "quiesce" /\ SameNames(p)
          /\ SameFlags(p) /\ Candidate(p)' = Candidate(p)
      BY <1>1, <1>4, GotoFields, SameCandidate DEF Pc
    <2>2. Owned(p)'
      BY <1>1, <1>2, <2>1
         DEF Owned, SameFlags, SameNames, NotStarted, Deploying, PhaseAt, Committing, IsPending
    <2>3. Served(p)'
      BY <2>1 DEF Served, Writerless, Committing
    <2> QED BY <2>2, <2>3
  <1>5. ASSUME Raise(p) PROVE Owned(p)' /\ Served(p)'
    BY <1>1, <1>2, <1>5, UnwindKnows DEF Raise, IsPending
  <1> QED BY <1>3, <1>4, <1>5 DEF ReportRunning, ServeStep

\* A stopped writer is no release.
LEMMA StoppedWhole ==
  ASSUME Whole, FileTypes, IsPending, UNCHANGED <<pending, committed, env, home, schema, strayed>>,
         api' \in {api, Stopped}
  PROVE  Whole'
  <1>1. committed.app \in Revisions /\ pending.candidate.app \in Revisions
    BY PendingFields DEF FileTypes, Identity
  <1>2. Stopped \notin Revisions
    BY ReleaseAssumption
  <1>3. IsPending' /\ (Fits' <=> Fits)
    BY DEF IsPending, Fits
  <1> QED BY <1>1, <1>2, <1>3 DEF Whole

LEMMA QuiesceServes ==
  ASSUME NEW p \in Deployers, Serving(p), Quiesce(p)
  PROVE  ServeStep(p)
  <1>1. FileTypes /\ Processes /\ Owned(p) /\ Whole /\ proc[p].pc = "quiesce" /\ proc[p] \in Process
    BY ServingFacts DEF Quiesce, At
  <1>2. IsPending /\ proc[p].started /\ ~proc[p].recovering
        /\ pending.previous = proc[p].previous /\ pending.candidate = Candidate(p)
    BY <1>1, OnPhase DEF PhaseAt, Deploying, Committing, Owned
  <1>3. UNCHANGED <<pending, committed, env, home, schema, strayed>> /\ api' \in {api, Stopped}
    BY DEF Quiesce, host
  <1>4. PICK pc \in {"markQuiesced", "relock"} :
          /\ proc' = [proc EXCEPT ![p].pc = pc, ![p].quiesced = TRUE]
          /\ pc = "markQuiesced" => api' = Stopped
    BY DEF Quiesce
  <1>5. proc'[p] = [proc[p] EXCEPT !.pc = pc, !.quiesced = TRUE] /\ proc[p] \in Process
    BY <1>1, <1>4 DEF Processes
  <1>6. proc'[p].pc = pc /\ SameNames(p)
    BY <1>5 DEF Process, SameNames
  <1>7. proc'[p].quiesced
    BY <1>5 DEF Process
  <1>8. proc'[p].started
    BY <1>2, <1>5 DEF Process
  <1>9. ~proc'[p].recovering
    BY <1>2, <1>5 DEF Process
  <1>10. Candidate(p)' = Candidate(p)
    BY <1>6, SameCandidate
  <1>11. Owned(p)'
    BY <1>2, <1>3, <1>6, <1>7, <1>8, <1>9, <1>10 DEF Owned, SameNames, NotStarted
  <1>12. Served(p)'
    BY <1>4, <1>6 DEF Served, Writerless, Committing
  <1>13. Whole'
    BY <1>1, <1>2, <1>3, StoppedWhole
  <1> QED BY <1>11, <1>12, <1>13 DEF ServeStep

\* Past the stop of the writer a deployment keeps what it owns.
SameRecord ==
  IsPending' => /\ IsPending
                /\ pending'.previous = pending.previous /\ pending'.candidate = pending.candidate

LEMMA OnwardOwned ==
  ASSUME NEW p, Owned(p), SameNames(p), SameFlags(p), SameRecord,
         proc'[p].pc \notin NotStarted, proc'[p].pc \in Deploying => proc[p].started,
         proc[p].started => proc[p].quiesced
  PROVE  Owned(p)'
  BY SameCandidate DEF Owned, SameNames, SameFlags, SameRecord, NotStarted

LEMMA QuiescedSince ==
  ASSUME NEW p, Owned(p), proc[p].pc \in (Writerless \union Committing \union {"ready"})
  PROVE  proc[p].started => proc[p].quiesced
  BY DEF Owned, Writerless, Committing

LEMMA AdvanceWhole ==
  ASSUME NEW p \in Deployers, Serving(p), NEW m \in Marks, proc[p].pc = m, Written(p, m)
  PROVE  Whole' /\ SameRecord
  <1>1. FileTypes /\ RuntimeTypes /\ Processes /\ Recorded /\ Whole /\ Served(p)
    BY ServingFacts
  <1>2. /\ IsPending /\ pending.phase = Expected[m]
        /\ FileTypes' /\ pending'.phase = Following[m]
        /\ pending'.candidate = pending.candidate /\ pending'.previous = pending.previous
        /\ pending'.before = (IF m = "markBackup" THEN proc[p].read ELSE pending.before)
        /\ pending'.after = (IF m = "markMigrated" THEN proc[p].read ELSE pending.after)
    BY <1>1, WrittenSound
  <1>3. UNCHANGED <<committed, env, home, api, schema, strayed>>
    BY DEF Written, runtime
  <1>4. (Fits' <=> Fits) /\ IsPending'
    BY <1>2, <1>3 DEF Fits, IsPending, NoPending, Following, Marks
  <1>5. /\ Stamped(pending)
        /\ m \in {"markBackup", "markMigrated"} => proc[p].read = schema \/ strayed
    BY <1>1, <1>2 DEF FileTypes, Served
  <1>6. pending'.phase # "COMMITTING"
    BY <1>2 DEF Following, Marks
  <1>7. pending'.phase \notin MigrationMayHaveRun => Fits
    BY <1>1, <1>2 DEF Whole, Following, Expected, Marks, MigrationMayHaveRun, Phases
  <1>8. pending'.before # NoSchema =>
            \/ strayed \/ home = pending'.before
            \/ pending'.after # NoSchema /\ home = pending'.after
    <2>1. CASE m = "markBackup"
      <3>1. Fits
        BY <1>1, <1>2, <2>1 DEF Whole, Expected, MigrationMayHaveRun, Phases
      <3> QED BY <1>2, <1>5, <2>1, <3>1 DEF Fits
    <2>2. CASE m = "markMigrated"
      <3>1. pending.after = NoSchema
        BY <1>2, <1>5, <2>2 DEF Stamped, Expected, RecordedAfter
      <3> QED BY <1>1, <1>2, <2>2, <3>1 DEF Whole
    <2>3. CASE m \notin {"markBackup", "markMigrated"}
      BY <1>1, <1>2, <2>3 DEF Whole
    <2> QED BY <2>1, <2>2, <2>3
  <1>9. pending'.after # NoSchema => schema = pending'.after \/ strayed
    BY <1>1, <1>2, <1>5 DEF Whole
  <1>10. Whole'
    BY <1>1, <1>2, <1>3, <1>4, <1>6, <1>7, <1>8, <1>9 DEF Whole
  <1> QED BY <1>2, <1>10 DEF SameRecord

LEMMA AdvanceServes ==
  ASSUME NEW p \in Deployers, Serving(p), Advance(p)
  PROVE  ServeStep(p)
  <1>0. Processes /\ Owned(p) /\ Served(p) /\ Whole
    BY ServingFacts
  <1>1. PICK m \in Marks :
          /\ proc[p].pc = m
          /\ \/ /\ Written(p, m)
                /\ proc' = [proc EXCEPT ![p].pc = Then[m], ![p].cutover = @ \/ m = "markCutover"]
             \/ (Written(p, m) \/ UNCHANGED <<host, runtime>>) /\ Unwind(p)
    BY DEF Advance, At, Written, Raise
  <1>2. m \in (Writerless \union Committing) /\ m \in Deploying /\ m \in DOMAIN PhaseAt
    BY DEF Marks, Writerless, Committing, Deploying, PhaseAt
  <1>3. proc[p].started /\ proc[p].quiesced
    BY <1>0, <1>1, <1>2, OnPhase, QuiescedSince
  <1>4. UNCHANGED <<committed, env, home, api, schema, strayed>>
    BY <1>1 DEF Written, host, runtime
  <1>5. Whole' /\ SameRecord
    BY <1>0, <1>1, AdvanceWhole, WholeKeeps DEF SameRecord, host, runtime, IsPending
  <1>6. ASSUME Written(p, m),
               proc' = [proc EXCEPT ![p].pc = Then[m], ![p].cutover = @ \/ m = "markCutover"]
        PROVE  Owned(p)' /\ Served(p)'
    <2> DEFINE cut == proc[p].cutover \/ m = "markCutover"
    <2>1. proc'[p] = [proc[p] EXCEPT !.pc = Then[m], !.cutover = cut] /\ proc[p] \in Process
      BY <1>0, <1>6 DEF Processes
    <2> HIDE DEF cut
    <2>2. proc'[p].pc = Then[m] /\ SameNames(p)
      BY <2>1 DEF Process, SameNames
    <2>3. SameFlags(p)
      <3>1. proc'[p].started <=> proc[p].started
        BY <2>1 DEF Process
      <3>2. proc'[p].quiesced <=> proc[p].quiesced
        BY <2>1 DEF Process
      <3>3. proc'[p].recovering <=> proc[p].recovering
        BY <2>1 DEF Process
      <3> QED BY <3>1, <3>2, <3>3 DEF SameFlags
    <2>4. Owned(p)'
      BY <1>0, <1>3, <1>5, <2>2, <2>3, OnwardOwned DEF Then, Marks, NotStarted
    <2>5. IsPending'
      BY <1>1, <1>6, WrittenSound, ServingFacts DEF IsPending, Following, NoPending, Marks
    <2>6. Served(p)'
      BY <1>0, <1>1, <1>4, <1>5, <2>2, <2>5
         DEF Served, Then, Marks, Writerless, Committing, SameRecord
    <2> QED BY <2>4, <2>6
  <1>7. ASSUME Unwind(p) PROVE Owned(p)' /\ Served(p)'
    BY <1>0, <1>4, <1>5, <1>7, UnwindKnows DEF SameRecord
  <1> QED BY <1>1, <1>5, <1>6, <1>7 DEF ServeStep

LEMMA ReadServes ==
  ASSUME NEW p \in Deployers, Serving(p), NEW next \in {"markBackup", "markMigrated"},
         proc[p].pc = (IF next = "markBackup" THEN "backup" ELSE "readAfter"), ReadSchema(p, next)
  PROVE  ServeStep(p)
  <1>0. Processes /\ Owned(p) /\ Served(p) /\ Whole
    BY ServingFacts
  <1>1. UNCHANGED <<pending, committed, env, home, api, schema, strayed>>
    BY DEF ReadSchema, host, runtime
  <1>2. Whole' /\ SameRecord
    BY <1>0, <1>1, WholeKeeps DEF SameRecord, IsPending
  <1>3. ASSUME proc' = [proc EXCEPT ![p].pc = next, ![p].read = schema]
        PROVE  Owned(p)' /\ Served(p)'
    <2>1. proc'[p] = [proc[p] EXCEPT !.pc = next, !.read = schema] /\ proc[p] \in Process
      BY <1>0, <1>3 DEF Processes
    <2>2. proc'[p].pc = next /\ proc'[p].read = schema /\ SameNames(p)
      BY <2>1 DEF Process, SameNames
    <2>3. SameFlags(p)
      <3>1. proc'[p].started <=> proc[p].started
        BY <2>1 DEF Process
      <3>2. proc'[p].quiesced <=> proc[p].quiesced
        BY <2>1 DEF Process
      <3>3. proc'[p].recovering <=> proc[p].recovering
        BY <2>1 DEF Process
      <3> QED BY <3>1, <3>2, <3>3 DEF SameFlags
    <2>4. proc[p].started /\ proc[p].quiesced
      BY <1>0, QuiescedSince DEF Owned, Deploying, PhaseAt, Committing, Writerless
    <2>5. Owned(p)'
      BY <1>0, <1>2, <2>2, <2>3, <2>4, OnwardOwned DEF NotStarted
    <2>6. api = Stopped
      BY <1>0 DEF Served, Writerless
    <2>7. Served(p)'
      BY <1>1, <2>2, <2>6 DEF Served, Committing
    <2> QED BY <2>5, <2>7
  <1>4. ASSUME Raise(p) PROVE Owned(p)' /\ Served(p)'
    BY <1>0, <1>1, <1>2, <1>4, UnwindKnows DEF Raise, SameRecord
  <1> QED BY <1>2, <1>3, <1>4 DEF ServeStep, ReadSchema

\* A step past the stop of the writer that goes on or raises.
LEMMA PlainServes ==
  ASSUME NEW p \in Deployers, Serving(p), Whole', SameRecord,
         proc[p].pc \in Writerless \union Committing \union {"ready"},
         NEW pc \in Pc \ NotStarted, pc \in Deploying => proc[p].started,
         Done(p, pc) \/ Raise(p),
         Done(p, pc) /\ proc'[p].pc = pc /\ SameNames(p) => Served(p)'
  PROVE  ServeStep(p)
  <1>0. Processes /\ Owned(p)
    BY ServingFacts
  <1>1. proc[p].started => proc[p].quiesced
    BY <1>0, QuiescedSince
  <1>2. ASSUME Done(p, pc) PROVE Owned(p)' /\ Served(p)'
    <2>1. proc'[p].pc = pc /\ SameNames(p) /\ SameFlags(p)
      BY <1>0, <1>2, GotoFields DEF Done
    <2> QED BY <1>0, <1>1, <1>2, <2>1, OnwardOwned
  <1>3. ASSUME Raise(p) PROVE Owned(p)' /\ Served(p)'
    BY <1>0, <1>1, <1>3, UnwindKnows DEF Raise, SameRecord
  <1> QED BY <1>2, <1>3 DEF ServeStep

LEMMA MigrateServes ==
  ASSUME NEW p \in Deployers, Serving(p), Migrate(p)
  PROVE  ServeStep(p)
  <1>0. FileTypes /\ Whole /\ Served(p) /\ proc[p].pc = "migrate"
    BY ServingFacts DEF Migrate, At
  <1>1. IsPending /\ Stamped(pending) /\ pending.phase = "MIGRATION_STARTED" /\ proc[p].started
    BY <1>0, OnPhase DEF PhaseAt, Deploying, Committing
  <1>2. api = Stopped /\ committed.app # Stopped
    BY <1>0, ReleaseAssumption DEF Served, Writerless, FileTypes, Identity
  <1>3. UNCHANGED <<pending, committed, env, home, api, strayed>>
    BY DEF Migrate, host
  <1>4. pending.after = NoSchema /\ pending.phase \in MigrationMayHaveRun
    BY <1>1 DEF Stamped, RecordedAfter, MigrationMayHaveRun, Phases
  <1>5. Whole' /\ SameRecord
    BY <1>0, <1>1, <1>2, <1>3, <1>4 DEF Whole, SameRecord, IsPending
  <1>6. Done(p, "readAfter") /\ proc'[p].pc = "readAfter" /\ SameNames(p) => Served(p)'
    BY <1>2, <1>3 DEF Served, Writerless, Committing
  <1>7. "readAfter" \in Pc \ NotStarted /\ "migrate" \in Writerless
    BY DEF Pc, NotStarted, Writerless
  <1>8. Done(p, "readAfter") \/ Raise(p)
    BY DEF Migrate
  <1> QED BY <1>0, <1>1, <1>5, <1>6, <1>7, <1>8, PlainServes

\* The candidate serves, on a schema of its own or on one that fits.
LEMMA CandidateWhole ==
  ASSUME Whole, IsPending, pending.phase # "COMMITTING", api' = pending.candidate.app,
         UNCHANGED <<pending, committed, env, home, schema, strayed>>
  PROVE  Whole'
  BY DEF Whole, IsPending, Fits

LEMMA CutoverServes ==
  ASSUME NEW p \in Deployers, Serving(p), Cutover(p)
  PROVE  ServeStep(p)
  <1>0. FileTypes /\ Whole /\ Served(p) /\ proc[p].pc = "cutover"
    BY ServingFacts DEF Cutover, At
  <1>1. IsPending /\ pending.phase = "CUTOVER_STARTED" /\ proc[p].started
        /\ pending.candidate = Candidate(p)
    BY <1>0, OnPhase DEF PhaseAt, Deploying, Committing
  <1>2. UNCHANGED <<pending, committed, env, home, schema, strayed>>
        /\ api' \in {api, Stopped, Candidate(p).app}
    BY DEF Cutover, host
  <1>3. Whole'
    BY <1>0, <1>1, <1>2, StoppedWhole, CandidateWhole
  <1>4. Done(p, "ready") /\ proc'[p].pc = "ready" /\ SameNames(p) => Served(p)'
    BY DEF Served, Writerless, Committing
  <1>5. "ready" \in Pc \ NotStarted /\ "cutover" \in Writerless
    BY DEF Pc, NotStarted, Writerless
  <1>6. SameRecord
    BY <1>2 DEF SameRecord, IsPending
  <1>7. Done(p, "ready") \/ Raise(p)
    BY DEF Cutover
  <1> QED BY <1>0, <1>1, <1>3, <1>4, <1>5, <1>6, <1>7, PlainServes

LEMMA ReadyServes ==
  ASSUME NEW p \in Deployers, Serving(p), Ready(p)
  PROVE  ServeStep(p)
  <1>0. Whole /\ proc[p].pc = "ready"
    BY ServingFacts DEF Ready, At
  <1>1. proc[p].started /\ pending.candidate = Candidate(p)
    BY <1>0, OnPhase DEF PhaseAt, Deploying, Committing
  <1>2. UNCHANGED <<pending, committed, env, home, api, schema, strayed>>
    BY DEF Ready, host, runtime
  <1>3. Whole' /\ SameRecord
    BY <1>0, <1>2, WholeKeeps DEF SameRecord, IsPending
  <1>4. ASSUME api = Candidate(p).app PROVE proc'[p].pc = "markReady" => Served(p)'
    BY <1>1, <1>2, <1>4 DEF Served, Writerless
  <1>5. "markReady" \in Pc \ NotStarted
    BY DEF Pc, NotStarted
  <1>6. ASSUME Raise(p) PROVE ServeStep(p)
    <2>1. proc[p].started => proc[p].quiesced
      BY <1>0, ServingFacts, QuiescedSince
    <2> QED BY <1>2, <1>3, <1>6, <2>1, UnwindKnows, ServingFacts DEF Raise, SameRecord, ServeStep
  <1>7. ASSUME api = Candidate(p).app, Done(p, "markReady") PROVE ServeStep(p)
    BY <1>0, <1>1, <1>3, <1>4, <1>5, <1>7, PlainServes
  <1> QED BY <1>6, <1>7 DEF Ready

(***************************************************************************)
(* The commit.                                                             *)
(***************************************************************************)
\* An attempt of the commit, by the run itself or by the one that settles it.
LEMMA AttemptServes ==
  ASSUME NEW p \in Deployers, Serving(p), proc[p].pc \in Committing,
         NEW effect \in BOOLEAN, NEW pc \in Committing \ {"markReady"},
         effect => Whole' /\ SameRecord,
         effect /\ proc'[p].pc = pc => Served(p)',
         \/ effect /\ Done(p, pc)
         \/ (effect \/ UNCHANGED <<host, runtime>>) /\ Raise(p)
  PROVE  ServeStep(p)
  <1>1. Whole' /\ SameRecord
    BY ServingFacts, WholeKeeps DEF host, runtime, SameRecord, IsPending
  <1>2. pc \in Pc \ NotStarted /\ pc \notin Deploying
    BY DEF Committing, Pc, NotStarted, Deploying, PhaseAt
  <1>3. ASSUME effect, Done(p, pc) PROVE ServeStep(p)
    BY <1>1, <1>2, <1>3, PlainServes
  <1>4. ASSUME Raise(p) PROVE ServeStep(p)
    <2>1. proc[p].started => proc[p].quiesced
      BY <1>2, ServingFacts, QuiescedSince
    <2> QED BY <1>1, <1>4, <2>1, UnwindKnows, ServingFacts DEF Raise, SameRecord, ServeStep
  <1> QED BY <1>3, <1>4

LEMMA PersistServes ==
  ASSUME NEW p \in Deployers, Serving(p), PersistImages(p)
  PROVE  ServeStep(p)
  <1>0. Whole /\ Served(p) /\ proc[p].pc = "persist"
    BY ServingFacts DEF PersistImages, At
  <1>1. IsPending /\ pending.phase = "READINESS_VERIFIED"
    BY <1>0, OnPhase DEF PhaseAt
  <1>2. api = pending.candidate.app
    BY <1>0 DEF Served, Committing
  <1> DEFINE effect == env' = pending.candidate.app
                       /\ UNCHANGED <<pending, committed, link, home, runtime>>
  <1>3. effect => Whole' /\ SameRecord
    BY <1>0, <1>1 DEF Whole, SameRecord, IsPending, runtime, Fits
  <1>4. effect /\ proc'[p].pc = "markCommitting" => Served(p)'
    BY <1>2 DEF Served, Writerless, runtime
  <1>5. \/ effect /\ Done(p, "markCommitting")
        \/ (effect \/ UNCHANGED <<host, runtime>>) /\ Raise(p)
    BY DEF PersistImages, Attempt
  <1>6. /\ effect \in BOOLEAN
        /\ "markCommitting" \in Committing \ {"markReady"} /\ "persist" \in Committing
    BY DEF Committing
  <1> HIDE DEF effect
  <1> QED BY <1>0, <1>3, <1>4, <1>5, <1>6, AttemptServes

LEMMA MarkCommittingServes ==
  ASSUME NEW p \in Deployers, Serving(p), MarkCommitting(p)
  PROVE  ServeStep(p)
  <1>0. Whole /\ Served(p) /\ proc[p].pc = "markCommitting"
    BY ServingFacts DEF MarkCommitting, At
  <1>1. IsPending /\ pending.phase = "READINESS_VERIFIED" /\ Stamped(pending)
    BY <1>0, OnPhase DEF PhaseAt
  <1>2. api = pending.candidate.app /\ env = pending.candidate.app
    BY <1>0 DEF Served, Committing
  <1> DEFINE effect == pending' = [pending EXCEPT !.phase = "COMMITTING"]
                       /\ UNCHANGED <<committed, link, env, home, runtime>>
  <1>3. ASSUME effect
        PROVE  /\ pending'.phase = "COMMITTING" /\ IsPending'
               /\ pending'.before = pending.before /\ pending'.after = pending.after
               /\ pending'.candidate = pending.candidate /\ pending'.previous = pending.previous
    BY <1>1, <1>3 DEF Stamped, Pending, IsPending, NoPending
  <1>4. effect => Whole' /\ SameRecord
    BY <1>0, <1>1, <1>2, <1>3
       DEF Whole, SameRecord, runtime, Fits, MigrationMayHaveRun, Phases
  <1>5. effect /\ proc'[p].pc = "checkPredecessor" => Served(p)'
    BY <1>2, <1>3 DEF Served, Writerless, runtime
  <1>6. \/ effect /\ Done(p, "checkPredecessor")
        \/ (effect \/ UNCHANGED <<host, runtime>>) /\ Raise(p)
    BY DEF MarkCommitting, Attempt
  <1>7. effect \in BOOLEAN /\ "checkPredecessor" \in Committing \ {"markReady"}
        /\ "markCommitting" \in Committing
    BY DEF Committing
  <1> HIDE DEF effect
  <1> QED BY <1>0, <1>4, <1>5, <1>6, <1>7, AttemptServes

LEMMA SwitchServes ==
  ASSUME NEW p \in Deployers, Serving(p), CheckPredecessor(p) \/ Finish(p)
  PROVE  ServeStep(p)
  <1>0. Whole /\ Served(p) /\ Owned(p) /\ Processes /\ proc[p].pc \in {"checkPredecessor", "finish"}
    BY ServingFacts DEF CheckPredecessor, Finish, At
  <1>1. api = pending.candidate.app /\ env = pending.candidate.app
    BY <1>0 DEF Served, Committing
  <1>2. ASSUME Attempt(p, WriteCurrent, "writeState") PROVE ServeStep(p)
    <2>1. WriteCurrent => Whole' /\ SameRecord
      BY <1>0, WholeKeeps DEF WriteCurrent, runtime, SameRecord, IsPending
    <2>2. WriteCurrent /\ proc'[p].pc = "writeState" => Served(p)'
      BY <1>1 DEF Served, Writerless, runtime, WriteCurrent
    <2>3. \/ WriteCurrent /\ Done(p, "writeState")
          \/ (WriteCurrent \/ UNCHANGED <<host, runtime>>) /\ Raise(p)
      BY <1>2 DEF Attempt
    <2>4. WriteCurrent \in BOOLEAN /\ "writeState" \in Committing \ {"markReady"}
          /\ proc[p].pc \in Committing
      BY <1>0 DEF Committing, WriteCurrent
    <2> QED BY <2>1, <2>2, <2>3, <2>4, AttemptServes
  <1>3. ASSUME Unwind(p), UNCHANGED <<host, runtime>> PROVE ServeStep(p)
    <2>1. proc[p].started => proc[p].quiesced
      BY <1>0, QuiescedSince DEF Committing
    <2>2. Whole' /\ SameRecord
      BY <1>0, <1>3, WholeKeeps DEF host, runtime, SameRecord, IsPending
    <2> QED BY <1>0, <1>3, <2>1, <2>2, UnwindKnows DEF SameRecord, ServeStep
  <1> QED BY <1>2, <1>3 DEF CheckPredecessor, Finish

LEMMA WriteStateServes ==
  ASSUME NEW p \in Deployers, Serving(p), WriteState(p)
  PROVE  ServeStep(p)
  <1>0. Whole /\ Served(p) /\ proc[p].pc = "writeState"
    BY ServingFacts DEF WriteState, At
  <1>1. IsPending /\ pending.phase = "COMMITTING" /\ Stamped(pending)
    BY <1>0, OnPhase DEF PhaseAt
  <1>2. api = pending.candidate.app /\ env = pending.candidate.app
    BY <1>0 DEF Served, Committing
  <1>3. pending.after # NoSchema /\ (schema = pending.after \/ strayed)
    BY <1>0, <1>1 DEF Whole, Stamped, RecordedAfter, MigrationMayHaveRun, Phases
  <1> DEFINE effect == /\ committed' = pending.candidate /\ home' = pending.after
                       /\ UNCHANGED <<pending, link, env, runtime>>
  <1>4. effect => Fits'
    BY <1>3 DEF Fits, runtime
  <1>5. effect => Whole' /\ SameRecord
    BY <1>0, <1>1, <1>2, <1>3, <1>4
       DEF Whole, SameRecord, runtime, IsPending, MigrationMayHaveRun, Phases
  <1>6. effect /\ proc'[p].pc = "unlink" => Served(p)'
    BY <1>2, <1>4 DEF Served, Writerless, runtime
  <1>7. \/ effect /\ Done(p, "unlink")
        \/ (effect \/ UNCHANGED <<host, runtime>>) /\ Raise(p)
    BY DEF WriteState, Attempt
  <1>8. effect \in BOOLEAN /\ "unlink" \in Committing \ {"markReady"} /\ "writeState" \in Committing
    BY DEF Committing
  <1> HIDE DEF effect
  <1> QED BY <1>0, <1>5, <1>6, <1>7, <1>8, AttemptServes

\* Without the record the committed release has to be the one that serves.
LEMMA RemovedWhole ==
  ASSUME RemovePending, api = committed.app, env = committed.app, Fits
  PROVE  Whole' /\ SameRecord
  BY DEF RemovePending, Whole, runtime, IsPending, Fits, SameRecord

LEMMA UnlinkServes ==
  ASSUME NEW p \in Deployers, Serving(p), Unlink(p)
  PROVE  ServeStep(p)
  <1>0. Processes /\ Whole /\ Served(p) /\ Owned(p) /\ Placed(p) /\ proc[p].pc = "unlink"
    BY ServingFacts DEF Unlink, At
  <1>1. api = committed.app /\ env = committed.app /\ Fits
    BY <1>0 DEF Served, Placed, Committing
  <1>2. Whole' /\ SameRecord
    BY <1>0, <1>1, RemovedWhole, WholeKeeps DEF Unlink, host, runtime, SameRecord, IsPending
  <1>3. ASSUME proc' = [proc EXCEPT ![p].pc = "success", ![p].run = pending.run,
                                    ![p].started = FALSE]
        PROVE  Owned(p)' /\ Served(p)'
    <2>1. proc'[p] = [proc[p] EXCEPT !.pc = "success", !.run = pending.run, !.started = FALSE]
          /\ proc[p] \in Process
      BY <1>0, <1>3 DEF Processes
    <2>2. proc'[p].pc = "success"
      BY <2>1 DEF Process
    <2>3. ~proc'[p].started
      BY <2>1 DEF Process
    <2> QED BY <2>2, <2>3, UnstartedKnows DEF NotStarted
  <1>4. ASSUME Raise(p) PROVE Owned(p)' /\ Served(p)'
    <2>1. proc[p].started => proc[p].quiesced
      BY <1>0, QuiescedSince DEF Committing
    <2> QED BY <1>0, <1>2, <1>4, <2>1, UnwindKnows DEF Raise, SameRecord
  <1> QED BY <1>2, <1>3, <1>4 DEF Unlink, ServeStep

LEMMA SuccessServes ==
  ASSUME NEW p \in Deployers, Serving(p), Success(p)
  PROVE  ServeStep(p)
  BY ServingFacts, LeaveKnows, WholeKeeps DEF Success, ServeStep, host, runtime

(***************************************************************************)
(* Recovery.                                                               *)
(***************************************************************************)
LEMMA RelockServes ==
  ASSUME NEW p \in Deployers, Serving(p), Relock(p)
  PROVE  ServeStep(p)
  <1>0. Processes /\ Whole /\ Owned(p) /\ proc[p].pc = "relock"
    BY ServingFacts DEF Relock, At
  <1>1. UNCHANGED <<pending, committed, env, home, api, schema, strayed>>
    BY DEF Relock, host, runtime
  <1>2. Whole'
    BY <1>0, <1>1, WholeKeeps
  <1>3. ASSUME Goto(p, "reconsider") PROVE Owned(p)' /\ Served(p)'
    <2>1. /\ proc'[p].pc = "reconsider" /\ SameNames(p)
          /\ SameFlags(p) /\ Candidate(p)' = Candidate(p)
      BY <1>0, <1>3, GotoFields, SameCandidate DEF Pc
    <2>2. Owned(p)'
      BY <1>0, <1>1, <2>1 DEF Owned, SameFlags, SameNames, NotStarted, Deploying, IsPending
    <2>3. Served(p)'
      BY <2>1 DEF Served, Writerless, Committing
    <2> QED BY <2>2, <2>3
  <1>4. ASSUME Leave(p) PROVE Owned(p)' /\ Served(p)'
    BY <1>0, <1>4, LeaveKnows
  <1> QED BY <1>2, <1>3, <1>4 DEF Relock, Intervene, Fail, ServeStep

\* With the schema as it was before the migration, or with no migration begun,
\* the release before fits.
LEMMA BeforeFits ==
  ASSUME Whole, IsPending, Stamped(pending),
         pending.phase \in MigrationMayHaveRun => schema = pending.before
  PROVE  Fits
  <1>1. CASE pending.phase \notin MigrationMayHaveRun
    BY <1>1 DEF Whole
  <1>2. CASE pending.phase \in MigrationMayHaveRun
    <2>1. pending.before # NoSchema /\ schema = pending.before
      BY <1>2 DEF Stamped, RecordedBefore
    <2> QED BY <2>1 DEF Whole, Fits
  <1> QED BY <1>1, <1>2

LEMMA ReconsiderServes ==
  ASSUME NEW p \in Deployers, Serving(p), Reconsider(p)
  PROVE  ServeStep(p)
  <1>0. FileTypes /\ Processes /\ Whole /\ Owned(p) /\ proc[p].pc = "reconsider"
    BY ServingFacts DEF Reconsider, At
  <1>1. UNCHANGED <<pending, committed, env, home, api, schema, strayed>>
    BY DEF Reconsider, host, runtime
  <1>2. Whole'
    BY <1>0, <1>1, WholeKeeps
  <1>3. ASSUME IsPending, ~SchemaMoved, NEW pc \in {"restore", "clear"}, Goto(p, pc),
               pc = "clear" => ~proc[p].quiesced
        PROVE  Owned(p)' /\ Served(p)'
    <2>1. /\ proc'[p].pc = pc /\ SameNames(p)
          /\ SameFlags(p) /\ Candidate(p)' = Candidate(p)
      BY <1>0, <1>3, GotoFields, SameCandidate DEF Pc
    <2>2. proc[p].started /\ pending.previous = proc[p].previous
      BY <1>0, <1>3 DEF Owned, Deploying
    <2>3. Fits'
      BY <1>0, <1>1, <1>3, BeforeFits DEF SchemaMoved, FileTypes, Fits
    <2>4. Owned(p)'
      BY <1>0, <1>1, <2>1
         DEF Owned, SameFlags, SameNames, NotStarted, Deploying, PhaseAt, IsPending
    <2>5. pc = "clear" => api = proc[p].previous.app /\ env = proc[p].previous.app
      BY <1>0, <1>3, <2>2 DEF Owned
    <2>6. Served(p)'
      BY <1>1, <2>1, <2>2, <2>3, <2>5 DEF Served, SameNames, Writerless, Committing
    <2> QED BY <2>4, <2>6
  <1>4. ASSUME Leave(p) PROVE Owned(p)' /\ Served(p)'
    BY <1>0, <1>4, LeaveKnows
  <1> QED BY <1>2, <1>3, <1>4 DEF Reconsider, Done, Intervene, Fail, ServeStep

\* The release before takes over again, wholly or not.
LEMMA RestoredWhole ==
  ASSUME Whole, FileTypes, IsPending, Fits,
         UNCHANGED <<pending, committed, home, schema, strayed>>,
         \/ api' \in {api, Stopped, pending.previous.app} /\ env' = env
         \/ api' = pending.previous.app /\ env' = pending.previous.app
  PROVE  Whole'
  <1>1. committed.app \in Revisions /\ pending.candidate.app \in Revisions
    BY PendingFields DEF FileTypes, Identity
  <1>2. Stopped \notin Revisions
    BY ReleaseAssumption
  <1>3. IsPending' /\ Fits'
    BY DEF IsPending, Fits
  <1> QED BY <1>1, <1>2, <1>3 DEF Whole

LEMMA RestoreServes ==
  ASSUME NEW p \in Deployers, Serving(p), Restore(p)
  PROVE  ServeStep(p)
  <1>0. FileTypes /\ Processes /\ Whole /\ Owned(p) /\ Served(p) /\ Placed(p)
        /\ proc[p].pc = "restore"
    BY ServingFacts DEF Restore, At
  <1>1. IsPending /\ pending.previous = proc[p].previous /\ Fits
    BY <1>0 DEF Placed, Served
  <1>2. UNCHANGED <<pending, committed, home, schema, strayed>>
    BY DEF Restore
  <1>3. Whole'
    BY <1>0, <1>1, <1>2, RestoredWhole DEF Restore
  <1>4. ASSUME Goto(p, "clear"), api' = proc[p].previous.app, env' = proc[p].previous.app
        PROVE  Owned(p)' /\ Served(p)'
    <2>1. /\ proc'[p].pc = "clear" /\ SameNames(p)
          /\ SameFlags(p) /\ Candidate(p)' = Candidate(p)
      BY <1>0, <1>4, GotoFields, SameCandidate DEF Pc
    <2>2. Owned(p)'
      BY <1>0, <1>2, <1>4, <2>1
         DEF Owned, SameFlags, SameNames, NotStarted, Deploying, PhaseAt, IsPending
    <2>3. Served(p)'
      BY <1>1, <1>2, <1>4, <2>1 DEF Served, SameNames, Writerless, Committing, Fits
    <2> QED BY <2>2, <2>3
  <1>5. ASSUME Leave(p) PROVE Owned(p)' /\ Served(p)'
    BY <1>0, <1>5, LeaveKnows
  <1> QED BY <1>3, <1>4, <1>5 DEF Restore, Done, Intervene, Fail, ServeStep

LEMMA ClearServes ==
  ASSUME NEW p \in Deployers, Serving(p), Clear(p)
  PROVE  ServeStep(p)
  <1>0. Processes /\ Whole /\ Served(p) /\ Placed(p) /\ proc[p].pc = "clear"
    BY ServingFacts DEF Clear, At
  <1>1. api = pending.previous.app /\ env = pending.previous.app /\ Fits
    BY <1>0 DEF Served
  <1>2. (PredecessorCurrent /\ RemovePending) \/ UNCHANGED <<host, runtime>>
    BY DEF Clear
  <1>3. Whole'
    BY <1>0, <1>1, <1>2, RemovedWhole, WholeKeeps DEF PredecessorCurrent, host, runtime
  <1>4. Leave(p)
    BY DEF Clear, Fail, Intervene
  <1> QED BY <1>0, <1>3, <1>4, LeaveKnows DEF ServeStep

LEMMA ObserveServes ==
  ASSUME NEW p \in Deployers, Serving(p), Observe(p)
  PROVE  ServeStep(p)
  <1>0. FileTypes /\ Processes /\ Whole /\ Owned(p) /\ Placed(p) /\ proc[p].pc = "observe"
        /\ proc[p] \in Process
    BY ServingFacts, ObserveCases DEF At
  <1>1. IsPending /\ Stamped(pending) /\ ~proc[p].started
    BY <1>0 DEF Placed, Owned, NotStarted, FileTypes
  <1>2. UNCHANGED <<pending, committed, env, home, api, schema, strayed>>
    BY ObserveCases DEF host, runtime
  <1>3. Whole'
    BY <1>0, <1>2, WholeKeeps
  <1>4. ASSUME NEW pc \in {"finish", "persist", "restore"}, Found(p, pc),
               pc = "finish" => pending.phase = "COMMITTING" /\ Finalizable,
               pc = "persist" => pending.phase = "READINESS_VERIFIED" /\ Finalizable,
               pc = "restore" => /\ ~SchemaDiffers
                                 /\ pending.phase \notin {"READINESS_VERIFIED", "COMMITTING"}
        PROVE  Owned(p)' /\ Served(p)'
    <2>1. proc'[p] = [proc[p] EXCEPT !.pc = pc, !.recovering = TRUE,
                              !.run = pending.run, !.previous = pending.previous]
          /\ proc[p] \in Process
      BY <1>0, <1>4 DEF Processes, Found
    <2>2. proc'[p].pc = pc /\ proc'[p].previous = pending.previous
      BY <2>1 DEF Process
    <2>3. ~proc'[p].started
      BY <1>1, <2>1 DEF Process
    <2>4. Owned(p)'
      BY <2>2, <2>3 DEF Owned, Deploying, PhaseAt, Committing
    <2>5. pc = "restore" => Fits'
      BY <1>0, <1>1, <1>2, <1>4, BeforeFits
         DEF SchemaDiffers, Stamped, RecordedBefore, Fits
    <2>6. pc \in {"finish", "persist"} => api = pending.candidate.app
      BY <1>4 DEF Finalizable
    <2>7. pc = "finish" => env = pending.candidate.app
      BY <1>0, <1>1, <1>4, <2>6 DEF Whole
    <2>8. Served(p)'
      BY <1>2, <2>2, <2>5, <2>6, <2>7 DEF Served, Writerless, Committing
    <2> QED BY <2>4, <2>8
  <1>5. ASSUME Leave(p) \/ Raise(p) PROVE Owned(p)' /\ Served(p)'
    BY <1>0, <1>1, <1>5, LeaveKnows DEF Raise, Unwind
  <1> QED BY <1>3, <1>4, <1>5, ObserveCases DEF ServeStep

LEMMA EndServes ==
  ASSUME NEW p \in Deployers, Serving(p), NEW left, NEW remains, End(p, left, remains)
  PROVE  ServeStep(p)
  <1>0. FileTypes /\ Processes /\ Whole /\ Served(p) /\ Placed(p)
    BY ServingFacts
  <1>1. UNCHANGED <<pending, committed, env, home, schema, strayed>> /\ Leave(p)
    BY DEF End, host
  <1>2. CASE proc[p].pc = "cutover"
    <2>1. IsPending
      BY <1>2, OnPhase DEF PhaseAt
    <2> QED BY <1>0, <1>1, <1>2, <2>1, StoppedWhole, LeaveKnows DEF End, At, ServeStep
  <1>3. CASE proc[p].pc = "restore"
    <2>1. IsPending /\ pending.previous = proc[p].previous /\ Fits
      BY <1>0, <1>3 DEF Placed, Served
    <2>2. api' \in {api, Stopped, pending.previous.app}
      BY <1>3, <2>1 DEF End, At
    <2> QED BY <1>0, <1>1, <2>1, <2>2, RestoredWhole, LeaveKnows DEF ServeStep
  <1>4. CASE proc[p].pc \notin {"cutover", "restore"}
    BY <1>0, <1>1, <1>4, WholeKeeps, LeaveKnows DEF End, At, ServeStep
  <1> QED BY <1>2, <1>3, <1>4

\* What a container without its client does, or whoever else takes the lock.
LEMMA OutsideKeeps ==
  ASSUME Whole, UNCHANGED <<pending, committed, env, home, api>>,
         (schema' = schema /\ (strayed' <=> strayed)) \/ strayed'
  PROVE  Whole'
  <1>1. IsPending' <=> IsPending
    BY DEF IsPending
  <1> QED BY <1>1 DEF Whole, Fits

LEMMA OutsideKnows ==
  ASSUME NEW p \in Deployers, Owned(p), Served(p), proc' = proc,
         UNCHANGED <<pending, env, home, api>>,
         (schema' = schema /\ (strayed' <=> strayed)) \/ strayed'
  PROVE  Owned(p)' /\ Served(p)'
  <1>1. IsPending' <=> IsPending
    BY DEF IsPending
  <1>2. Owned(p)'
    BY <1>1 DEF Owned, Candidate
  <1>3. Served(p)'
    BY DEF Served, Fits
  <1> QED BY <1>2, <1>3

\* A write cut short raises, and changes nothing that serves.
LEMMA CutShortServes ==
  ASSUME NEW p \in Deployers, Serving(p), CutShort(p)
  PROVE  ServeStep(p)
  <1>1. Processes /\ Whole /\ Owned(p)
    BY ServingFacts
  <1>2. UNCHANGED <<pending, committed, env, home, api, schema, strayed>> /\ Unwind(p)
    BY DEF CutShort, Raise, host, runtime
  <1>3. Whole'
    BY <1>1, <1>2, WholeKeeps
  <1>4. Owned(p)' /\ Served(p)'
    BY <1>1, <1>2, UnwindKnows DEF IsPending
  <1> QED BY <1>3, <1>4 DEF ServeStep

LEMMA StepServes ==
  ASSUME NEW p \in Deployers, Serving(p), Step(p)
  PROVE  ServeStep(p)
  <1>1. CASE RunBackup(p)
    BY <1>1, ReadServes DEF RunBackup, At
  <1>6. CASE ReadAfter(p)
    BY <1>6, ReadServes DEF ReadAfter, At
  <1>7. CASE Migrate(p) \/ Cutover(p) \/ Ready(p)
    BY <1>7, MigrateServes, CutoverServes, ReadyServes
  <1>2. CASE Acquire(p) \/ Inspect(p) \/ Stage(p) \/ ReportRunning(p) \/ Quiesce(p) \/ Advance(p)
    BY <1>2, AcquireServes, InspectServes, StageServes, ReportServes, QuiesceServes, AdvanceServes
  <1>3. CASE PersistImages(p) \/ MarkCommitting(p) \/ CheckPredecessor(p) \/ Finish(p)
    BY <1>3, PersistServes, MarkCommittingServes, SwitchServes
  <1>4. CASE WriteState(p) \/ Unlink(p) \/ Success(p)
    BY <1>4, WriteStateServes, UnlinkServes, SuccessServes
  <1>5. CASE Relock(p) \/ Reconsider(p) \/ Restore(p) \/ Clear(p) \/ Observe(p)
    BY <1>5, RelockServes, ReconsiderServes, RestoreServes, ClearServes, ObserveServes
  <1> QED BY <1>1, <1>2, <1>3, <1>4, <1>5, <1>6, <1>7, CutShortServes DEF Step, Program

LEMMA NextServes ==
  ASSUME OneAtATime, ServeInv, [Next]_vars
  PROVE  ServeInv'
  <1>0. RecordInv /\ Whole /\ \A q \in Deployers : Owned(q) /\ Served(q)
    BY DEF ServeInv
  <1>1. RecordInv'
    BY <1>0, NextTypes
  <1>2. ASSUME NEW p \in Deployers, Request(p) \/ Step(p) \/ Kill(p) \/ Interrupt(p)
        PROVE  ServeInv'
    <2>1. Serving(p)
      BY <1>0 DEF Serving
    <2>2. ServeStep(p)
      BY <1>2, <2>1, RequestServes, StepServes, EndServes DEF Kill, Interrupt
    <2>3. \A q \in Deployers : q = p
      BY DEF OneAtATime
    <2> QED BY <1>1, <2>2, <2>3 DEF ServeInv, ServeStep
  <1>3. ASSUME OrphanEnds \/ RemoveStaleLock \/ RemoveLeftover \/ BeginBackup \/ EndBackup
                 \/ UNCHANGED vars
        PROVE  ServeInv'
    <2>1. UNCHANGED <<pending, committed, env, home, api, proc>>
      BY <1>3 DEF OrphanEnds, RemoveStaleLock, RemoveLeftover, BeginBackup, EndBackup, vars, host, runtime
    <2>2. (schema' = schema /\ (strayed' <=> strayed)) \/ strayed'
      BY <1>3 DEF OrphanEnds, RemoveStaleLock, RemoveLeftover, BeginBackup, EndBackup, vars, runtime
    <2> QED BY <1>0, <1>1, <2>1, <2>2, OutsideKeeps, OutsideKnows DEF ServeInv
  <1> QED BY <1>2, <1>3 DEF Next

LEMMA InitServes == Init => ServeInv
  <1> SUFFICES ASSUME Init PROVE ServeInv
    OBVIOUS
  <1>1. RecordInv
    BY InitTypes
  <1>2. Whole
    BY DEF Init, Whole, IsPending, Fits
  <1>3. ASSUME NEW p \in Deployers PROVE Owned(p) /\ Served(p)
    <2>1. proc[p].pc = "idle" /\ ~proc[p].started /\ ~proc[p].recovering
      BY DEF Init, Idle
    <2>2. proc[p].pc \notin Deploying \union Writerless \union Committing
      BY <2>1 DEF Deploying, PhaseAt, Writerless, Committing
    <2> QED BY <2>1, <2>2 DEF Owned, Served
  <1> QED BY <1>1, <1>2, <1>3 DEF ServeInv

LEMMA ServeInvariant ==
  ASSUME OneAtATime
  PROVE  Spec => []ServeInv
  <1>1. ServeInv /\ [Next]_vars => ServeInv'
    BY NextServes
  <1> QED BY <1>1, InitServes, PTL DEF Spec

\* With one deployment at a time, a host left without a record is wholly on the
\* committed release, whatever failed, was killed or was rolled back before.
THEOREM IdleServes == OneAtATime => (Spec => []IdleServesCommitted)
  <1> SUFFICES ASSUME OneAtATime PROVE Spec => []IdleServesCommitted
    OBVIOUS
  <1>1. ServeInv => IdleServesCommitted
    BY DEF ServeInv, Whole, IdleServesCommitted
  <1> QED BY <1>1, ServeInvariant, PTL

\* With one deployment at a time the committed release never serves a schema it
\* was not verified with, unless a container ran on without its client.
THEOREM ServingFits == OneAtATime => (Spec => []OnlyOrphansMisfit)
  <1> SUFFICES ASSUME OneAtATime PROVE Spec => []OnlyOrphansMisfit
    OBVIOUS
  <1>1. ServeInv => OnlyOrphansMisfit
    BY DEF ServeInv, Whole, Fits, OnlyOrphansMisfit, SchemaFitsServing
  <1> QED BY <1>1, ServeInvariant, PTL

(***************************************************************************)
(* Who reports success, and who writes the state file.                     *)
(***************************************************************************)
Silent == reports' = reports \/ \E run \in 1..MaxRuns, s \in Status \ {"SUCCESS"} : Report(run, s)

LEMMA SilentMeansNone ==
  ASSUME CountTypes, Silent, NEW r \in 1..MaxRuns, reports'[r] = "SUCCESS"
  PROVE  reports[r] = "SUCCESS"
  BY DEF CountTypes, Silent, Report

LEMMA OnlySuccessReports ==
  ASSUME RecordInv, [Next]_vars, \A p \in Deployers : ~Success(p)
  PROVE  Silent
  <1>0. FileTypes /\ CountTypes /\ \A p \in Deployers : Placed(p)
    BY DEF RecordInv, Processes
  <1>1. ASSUME NEW p \in Deployers, Fail(p, "FAILED") \/ Fail(p, "ROLLED_BACK"),
               proc[p].run \in 1..MaxRuns
        PROVE  Silent
    BY <1>1 DEF Fail, Silent, Status
  <1>2. ASSUME NEW p \in Deployers, ReportRunning(p) PROVE Silent
    <2>1. proc[p].pc = "report"
      BY <1>2 DEF ReportRunning, At
    <2>2. pending.run \in 1..MaxRuns
      BY <1>0, <2>1, PhaseOnRecord DEF PhaseAt, Stamped, Pending
    <2> QED BY <1>2, <2>2 DEF ReportRunning, Raise, Silent, Status
  <1>3. ASSUME NEW p \in Deployers, Relock(p) \/ Reconsider(p) \/ Restore(p) \/ Clear(p)
        PROVE  Silent
    <2>1. proc[p].run \in 1..MaxRuns
      BY <1>0, <1>3 DEF Relock, Reconsider, Restore, Clear, At, Placed
    <2>2. reports' = reports \/ Fail(p, "FAILED") \/ Fail(p, "ROLLED_BACK")
      BY <1>3 DEF Relock, Reconsider, Restore, Clear, Done, Intervene
    <2> QED BY <1>1, <2>1, <2>2 DEF Silent
  <1>4. ASSUME NEW p \in Deployers,
               Acquire(p) \/ Inspect(p) \/ Stage(p) \/ Quiesce(p) \/ Advance(p)
        PROVE  Silent
    BY <1>4 DEF Acquire, Inspect, Stage, Quiesce, Advance, Raise, Silent
  <1>5. ASSUME NEW p \in Deployers,
               RunBackup(p) \/ Migrate(p) \/ ReadAfter(p) \/ Cutover(p) \/ Ready(p)
        PROVE  Silent
    BY <1>5 DEF RunBackup, Migrate, ReadAfter, ReadSchema, Cutover, Ready, Done, Raise, Silent
  <1>6. ASSUME NEW p \in Deployers,
               PersistImages(p) \/ MarkCommitting(p) \/ CheckPredecessor(p) \/ Finish(p)
                 \/ WriteState(p) \/ Unlink(p)
        PROVE  Silent
    BY <1>6 DEF PersistImages, MarkCommitting, CheckPredecessor, Finish, WriteState, Unlink,
                Attempt, Done, Raise, Silent
  <1>7. ASSUME NEW p \in Deployers, Observe(p) PROVE Silent
    BY <1>7 DEF Observe, CallOperator, Raise, Silent
  <1>8. ASSUME NEW p \in Deployers, Request(p) \/ Kill(p) \/ Interrupt(p) PROVE Silent
    BY <1>8 DEF Request, Kill, Interrupt, End, Silent
  <1>9. ASSUME OrphanEnds \/ RemoveStaleLock \/ RemoveLeftover \/ BeginBackup \/ EndBackup
                 \/ UNCHANGED vars
        PROVE  Silent
    BY <1>9 DEF OrphanEnds, RemoveStaleLock, RemoveLeftover, BeginBackup, EndBackup, vars, Silent
  <1>10. ASSUME NEW p \in Deployers, CutShort(p) PROVE Silent
    BY <1>10 DEF CutShort, Raise, Silent
  <1> QED BY <1>2, <1>3, <1>4, <1>5, <1>6, <1>7, <1>8, <1>9, <1>10 DEF Next, Step, Program

\* With one deployment at a time SUCCESS is reported of nothing but a host wholly
\* on the committed release.
THEOREM SuccessMeansWhole == OneAtATime => (Spec => SuccessIsWhole)
  <1> SUFFICES ASSUME OneAtATime PROVE Spec => SuccessIsWhole
    OBVIOUS
  <1> DEFINE Earned ==
        \A r \in 1..MaxRuns :
          (reports[r] # "SUCCESS" /\ reports'[r] = "SUCCESS") =>
            /\ ~IsPending /\ link = committed.config
            /\ api = committed.app /\ env = committed.app /\ (schema = home \/ strayed)
  <1>1. ASSUME ServeInv, [Next]_vars PROVE Earned
    <2>0. RecordInv /\ Whole
      BY <1>1 DEF ServeInv
    <2>1. CASE \A p \in Deployers : ~Success(p)
      <3>1. CountTypes /\ Silent
        BY <1>1, <2>0, <2>1, OnlySuccessReports DEF RecordInv
      <3> QED BY <3>1, SilentMeansNone
    <2>2. ASSUME NEW p \in Deployers, Success(p) PROVE Earned
      <3>1. ~IsPending
        BY <2>0, <2>2 DEF RecordInv, Processes, Placed, Success, At
      <3> QED BY <2>0, <3>1 DEF RecordInv, Recorded, Whole, Fits
    <2> QED BY <2>1, <2>2
  <1> QED BY <1>1, ServeInvariant, PTL DEF Spec, SuccessIsWhole

LEMMA OnlyWriteStateCommits ==
  ASSUME [Next]_vars, committed' # committed
  PROVE  \E p \in Deployers : WriteState(p) /\ committed' = pending.candidate
  <1>1. ASSUME NEW p \in Deployers,
               \/ Request(p) \/ Acquire(p) \/ Inspect(p) \/ Stage(p) \/ ReportRunning(p)
               \/ Quiesce(p) \/ CutShort(p)
        PROVE  committed' = committed
    BY <1>1 DEF Request, CutShort, Acquire, Inspect, Stage, ReportRunning, Quiesce, host
  <1>2. ASSUME NEW p \in Deployers,
               RunBackup(p) \/ Migrate(p) \/ ReadAfter(p) \/ Cutover(p) \/ Ready(p) \/ Advance(p)
        PROVE  committed' = committed
    BY <1>2 DEF RunBackup, Migrate, ReadAfter, ReadSchema, Cutover, Ready, Advance, host
  <1>3. ASSUME NEW p \in Deployers,
               PersistImages(p) \/ MarkCommitting(p) \/ CheckPredecessor(p) \/ Finish(p)
                 \/ Unlink(p) \/ Success(p)
        PROVE  committed' = committed
    BY <1>3 DEF PersistImages, MarkCommitting, CheckPredecessor, Finish, Unlink, Success,
                WriteCurrent, RemovePending, Attempt, host
  <1>4. ASSUME NEW p \in Deployers,
               Relock(p) \/ Reconsider(p) \/ Restore(p) \/ Clear(p) \/ Observe(p)
                 \/ Kill(p) \/ Interrupt(p)
        PROVE  committed' = committed
    BY <1>4 DEF Relock, Reconsider, Restore, Clear, Observe, Kill, Interrupt, End,
                RemovePending, CallOperator, host
  <1>5. ASSUME OrphanEnds \/ RemoveStaleLock \/ RemoveLeftover \/ BeginBackup \/ EndBackup
                 \/ UNCHANGED vars
        PROVE  committed' = committed
    BY <1>5 DEF OrphanEnds, RemoveStaleLock, RemoveLeftover, BeginBackup, EndBackup, vars, host
  <1>6. ASSUME NEW p \in Deployers, WriteState(p) PROVE committed' = pending.candidate
    BY <1>6 DEF WriteState, Attempt, host
  <1> QED BY <1>1, <1>2, <1>3, <1>4, <1>5, <1>6 DEF Next, Step, Program

\* With one deployment at a time the state file changes to nothing but the
\* candidate on record, while it serves on the schema it was verified with.
THEOREM CommitsWhatServes == OneAtATime => (Spec => CommittedOnlyWhenServing)
  <1> SUFFICES ASSUME OneAtATime PROVE Spec => CommittedOnlyWhenServing
    OBVIOUS
  <1> DEFINE Earned ==
        committed' # committed =>
          /\ IsPending /\ committed' = pending.candidate /\ link = committed'.config
          /\ api = committed'.app /\ env = committed'.app
          /\ schema = pending.after \/ strayed
  <1>1. ASSUME ServeInv, [Next]_vars PROVE Earned
    <2> SUFFICES ASSUME committed' # committed PROVE Earned
      OBVIOUS
    <2>1. PICK p \in Deployers : WriteState(p) /\ committed' = pending.candidate
      BY <1>1, OnlyWriteStateCommits
    <2>2. FileTypes /\ Whole /\ Placed(p) /\ Served(p) /\ proc[p].pc = "writeState"
      BY <1>1, <2>1 DEF ServeInv, RecordInv, Processes, WriteState, At
    <2>3. IsPending /\ Stamped(pending) /\ pending.phase = "COMMITTING"
      BY <2>2, PhaseOnRecord DEF PhaseAt
    <2>4. link = pending.candidate.config
      BY <2>2 DEF Placed
    <2>5. api = pending.candidate.app /\ env = pending.candidate.app
      BY <2>2 DEF Served, Committing
    <2>6. schema = pending.after \/ strayed
      BY <2>2, <2>3 DEF Whole, Stamped, RecordedAfter, MigrationMayHaveRun, Phases
    <2> QED BY <2>1, <2>3, <2>4, <2>5, <2>6
  <1> QED BY <1>1, ServeInvariant, PTL DEF Spec, CommittedOnlyWhenServing
=============================================================================
