------------------------------- MODULE Monitor -------------------------------
(***************************************************************************)
(* The monitor worker of scripts/status_tools/monitor_worker.py: runs that *)
(* launchd starts every minute and an operator may start beside it, over   *)
(* one state file, one lock and the HomeOps reporter.                      *)
(*                                                                         *)
(* A run checks the state directory, takes the lock, loads the state,      *)
(* delivers the event that is still pending, observes the system, saves    *)
(* what it concluded together with a new event, delivers that event and    *)
(* saves that it did.  It may be killed between any two of these steps.    *)
(***************************************************************************)
EXTENDS MonitorPolicy, FiniteSetsExt

CONSTANTS
  Runs, Agent,  \* the agent's run and an operator's
  Scenarios,    \* what changes beside the agent's runs, one set per behaviour
  MaxPolls,     \* bound: polls of the scheduler
  MaxEpisodes,  \* bound: disk episodes
  MaxFaults     \* bound: kills and failed saves

ASSUME MonitorAssumption ==
  /\ Agent \in Runs
  /\ MaxPolls \in Nat \ {0} /\ MaxEpisodes \in Nat /\ MaxFaults \in Nat

VARIABLES
  varying,   \* the scenario
  world,     \* the observed system
  ghost,     \* its history, for the properties
  file,      \* monitor-state.json
  corrupt,   \* is the file one that the worker cannot accept?
  residue,   \* runs whose temporary state file is in the state directory
  lock,      \* who holds the flock on the lock file; {} when free
  proc,      \* the runs
  accepted,  \* the event keys HomeOps has accepted
  faults

vars == <<varying, world, ghost, file, corrupt, residue, lock, proc, accepted, faults>>
outside == <<varying, world, ghost>>

Idle == [pc |-> "idle", state |-> DefaultState, lag |-> 0, signals |-> {}, then |-> "idle"]

Healthy ==
  [services |-> [c \in Services |-> "HEALTHY"], origin |-> TRUE, disk |-> 70,
   broken |-> "nothing",
   api |-> [up |-> TRUE, enabled |-> TRUE, born |-> Stale + MaxLag, running |-> FALSE,
            event |-> Old, done |-> 1, age |-> Old, succeeded |-> TRUE, failures |-> 0],
   backup |-> [marker |-> "VALID", age |-> Old, untidy |-> FALSE]]

Init ==
  /\ varying \in Scenarios
  /\ world = Healthy
  /\ ghost = [down |-> [t \in Targets |-> 0], polls |-> 1, failed |-> FALSE]
  /\ file = DefaultState
  /\ corrupt \in {FALSE, "operator" \in varying}
  /\ residue = {}
  /\ lock = {}
  /\ proc = [p \in Runs |-> Idle]
  /\ accepted = {}
  /\ faults = 0

-----------------------------------------------------------------------------
(* The observed system: what may happen to it at any time.                 *)

Outage(w) == Failing(Snapshot(w, 0))

\* ghost.down counts the instants in which a target failed.
Observed(w) ==
  /\ world' = w
  /\ ghost' = [ghost EXCEPT !.down = [t \in Targets |->
                 IF t \in Outage(w) \ Outage(world) THEN Cap(@[t] + 1, MaxStreak) ELSE @[t]]]
  /\ UNCHANGED <<varying, file, corrupt, residue, lock, proc, accepted, faults>>

\* A container's health changes.  The scheduler starts anew with its container.
FreshApi(on) ==
  [world.api EXCEPT !.enabled = on, !.born = 0, !.running = FALSE, !.event = Old,
                    !.done = 0, !.age = 0, !.succeeded = TRUE, !.failures = 0]

ServiceChanges ==
  \E c \in Services \intersect varying, s \in ServiceStates :
    /\ s # world.services[c]
    /\ Observed([world EXCEPT !.services[c] = s,
                              !.api = IF c = "api" /\ ~Running(world, "api")
                                      THEN FreshApi(TRUE) ELSE @])

\* The origin, or the operations endpoint, stops answering or answers again.
ProbeFlips ==
  \/ "origin" \in varying /\ Observed([world EXCEPT !.origin = ~@])
  \/ "recurring" \in varying /\ Observed([world EXCEPT !.api.up = ~@])

\* RecurringSchedulerOperationalState: a poll starts, fails a rule, completes.
PollStarts ==
  /\ "polls" \in varying /\ ~world.api.running /\ ghost.polls < MaxPolls
  /\ Observed([world EXCEPT !.api.running = TRUE, !.api.failures = 0, !.api.event = 0])

RuleFails ==
  /\ world.api.running /\ world.api.failures = 0
  /\ Observed([world EXCEPT !.api.failures = 1, !.api.event = 0])

PollCompletes ==
  /\ world.api.running
  /\ \E ok \in BOOLEAN :
       world' = [world EXCEPT !.api.running = FALSE, !.api.event = Old, !.api.age = 0,
                              !.api.done = ghost.polls + 1, !.api.succeeded = ok]
  /\ ghost' = [ghost EXCEPT !.polls = @ + 1, !.failed = world.api.failures > 0]
  /\ UNCHANGED <<varying, file, corrupt, residue, lock, proc, accepted, faults>>

ApiRestarts ==
  /\ "polls" \in varying /\ ghost.polls > 1
  /\ \E on \in BOOLEAN : Observed([world EXCEPT !.api = FreshApi(on)])

BackupChanges ==
  /\ "backup" \in varying
  /\ \E m \in {"VALID", "MISSING", "INVALID", "UNAVAILABLE"}, u \in BOOLEAN :
       Observed([world EXCEPT !.backup = [marker |-> m, age |-> 0, untidy |-> u]])

DiskChanges ==
  /\ "disk" \in varying
  /\ \E d \in DiskLevels \ {world.disk} : Observed([world EXCEPT !.disk = d])

\* The paths a run is given, or the reporter, lose the owner, mode, type or
\* place that the worker insists on, or get it back.
AuthorityChanges ==
  /\ "authority" \in varying
  /\ \E b \in {"nothing", "paths", "reporter"} \ {world.broken} :
       Observed([world EXCEPT !.broken = b])

\* The clock moves on.  Ages stop growing where they stop mattering.
Aged(s) == [s EXCEPT !.observed = Cap(@ + 1, Old)]

Tick ==
  /\ \A p \in Runs : proc[p].pc = "read" => proc[p].lag < MaxLag
  /\ world' = [world EXCEPT !.api.born = Cap(@ + 1, Stale + MaxLag),
                            !.api.age = Cap(@ + 1, Stale + MaxLag + 1),
                            !.api.event = Cap(@ + 1, Old),
                            !.backup.age = Cap(@ + 1, BackupStale + MaxLag)]
  /\ ghost' = [ghost EXCEPT !.down = [t \in Targets |->
                 IF t \in Outage(world) THEN Cap(@[t] + 1, MaxStreak) ELSE @[t]]]
  /\ file' = Aged(file)
  /\ proc' = [p \in Runs |->
                IF proc[p].pc = "idle" THEN Idle
                ELSE [proc[p] EXCEPT !.state = Aged(@),
                                     !.lag = IF proc[p].pc = "read" THEN @ + 1 ELSE @]]
  /\ UNCHANGED <<varying, corrupt, residue, lock, accepted, faults>>

-----------------------------------------------------------------------------
(* One run.  proc[p].signals is its result, printed when the run ends      *)
(* after its last save; a run that ends earlier prints a failure instead,  *)
(* STATE_INVALID or STATUS_UNAVAILABLE, or nothing.                        *)

Goto(p, pc) == proc' = [proc EXCEPT ![p].pc = pc]
Ends(p) == proc' = [proc EXCEPT ![p] = Idle] /\ lock' = lock \ {p}

\* validate_state_directory, validate_disjoint_paths: the places are private.
PathsTrusted(w) == w.broken # "paths"

\* validate_state_directory_entries: nothing but the state and the lock file.
EntriesExpected == residue = {}

\* validate_homeops_reporter, and _revalidate_homeops_reporter before each call.
ReporterTrusted(w) == w.broken # "reporter"

\* run_monitor up to the lock.  A run that finds something else gives up and
\* touches nothing.
Start(p) ==
  /\ proc[p].pc = "idle"
  /\ PathsTrusted(world) /\ EntriesExpected /\ ReporterTrusted(world)
  /\ p = Agent \/ "operator" \in varying
  /\ Goto(p, "lock")
  /\ UNCHANGED <<outside, file, corrupt, residue, lock, accepted, faults>>

\* MonitorLock and MonitorStateStore.load.  A busy lock ends the run; a file
\* that is not a valid state is reported and left as it is.
Load(p) ==
  /\ proc[p].pc = "lock"
  /\ IF lock # {} \/ corrupt \/ ~ValidState(file) THEN Ends(p)
     ELSE /\ lock' = {p}
          /\ proc' = [proc EXCEPT ![p].state = file, ![p].then = "observe",
                                  ![p].pc = IF file.pending # None THEN "send" ELSE "observe"]
  /\ UNCHANGED <<outside, file, corrupt, residue, accepted, faults>>

\* send_homeops_signal: HomeOps takes the event and the reporter says so, and
\* the run goes on to save that the event is no longer pending ...
SendAccepted(p) ==
  /\ proc[p].pc = "send" /\ ReporterTrusted(world)
  /\ accepted' = accepted \union {proc[p].state.pending}
  /\ proc' = [proc EXCEPT ![p].state = Finalized(@), ![p].pc = "write"]
  /\ UNCHANGED <<outside, file, corrupt, residue, lock, faults>>

\* A mutant: an event that was not accepted is saved as delivered.
SendRefusedForgotten(p) ==
  /\ proc[p].pc = "send"
  /\ proc' = [proc EXCEPT ![p].state = Finalized(@), ![p].pc = "write"]
  /\ UNCHANGED <<outside, file, corrupt, residue, lock, accepted, faults>>

\* ... or the reporter was replaced, fails or times out, and the run ends;
\* HomeOps may have taken the event all the same.
SendRefused(p) ==
  /\ proc[p].pc = "send"
  /\ accepted' \in {accepted} \union
       (IF ReporterTrusted(world) THEN {accepted \union {proc[p].state.pending}} ELSE {})
  /\ Ends(p)
  /\ UNCHANGED <<outside, file, corrupt, residue, faults>>

\* collect stamps its snapshot before it reads anything.
Stamp(p) ==
  /\ proc[p].pc = "observe"
  /\ proc' = [proc EXCEPT ![p].pc = "read", ![p].lag = 0]
  /\ UNCHANGED <<outside, file, corrupt, residue, lock, accepted, faults>>

\* The status command fails, for a container that is not of this project or
\* publishes another port, or is killed after its thirty seconds.
CollectFails(p) ==
  /\ proc[p].pc = "read"
  /\ Ends(p)
  /\ UNCHANGED <<outside, file, corrupt, residue, accepted, faults>>

\* collect_snapshot, evaluate and prepare_homeops_disk_transition.
Observe(p) ==
  /\ proc[p].pc = "read"
  /\ LET o == Snapshot(world, proc[p].lag)
         s == proc[p].state
         n == Prepared(Evaluated(s, o), o)
     IN \E truncated \in BOOLEAN :
          IF ValidSnapshot(o, truncated) /\ Evaluable(s, o)
          THEN /\ n.sequence <= MaxEpisodes
               /\ proc' = [proc EXCEPT ![p].state = n, ![p].signals = AllSignals(n, o),
                                       ![p].pc = "write", ![p].lag = 0,
                                       ![p].then = IF n.pending # None THEN "send" ELSE "done"]
               /\ UNCHANGED lock
          ELSE Ends(p)
  /\ UNCHANGED <<outside, file, corrupt, residue, accepted, faults>>

\* MonitorStateStore.save: a temporary file, ...
WriteTemp(p) ==
  /\ proc[p].pc = "write"
  /\ residue' = residue \union {p}
  /\ Goto(p, "replace")
  /\ UNCHANGED <<outside, file, corrupt, lock, accepted, faults>>

\* ... that replaces the state.  The event just saved as pending is sent next,
\* and with nothing left to send the result is printed.
Replace(p) ==
  /\ proc[p].pc = "replace"
  /\ residue' = residue \ {p}
  /\ file' = proc[p].state
  /\ CASE proc[p].then = "send" ->
            /\ proc' = [proc EXCEPT ![p].pc = "send", ![p].then = "done"]
            /\ UNCHANGED lock
       [] proc[p].then = "observe" -> Goto(p, "observe") /\ UNCHANGED lock
       [] proc[p].then = "done" -> Ends(p)
  /\ UNCHANGED <<outside, corrupt, accepted, faults>>

\* A mutant: a failed save does not end the run.
SaveIgnored(p) ==
  /\ proc[p].pc = "replace" /\ "faults" \in varying /\ faults < MaxFaults
  /\ residue' = residue \ {p}
  /\ proc' = [proc EXCEPT ![p].pc = proc[p].then, ![p].then = "done"]
  /\ faults' = faults + 1
  /\ UNCHANGED <<outside, file, corrupt, lock, accepted>>

\* An error of the filesystem ends the run before the replacement, whose
\* temporary file is then removed, or after it.
SaveFails(p) ==
  /\ proc[p].pc = "replace" /\ "faults" \in varying /\ faults < MaxFaults
  /\ residue' = residue \ {p}
  /\ file' \in {file, proc[p].state}
  /\ Ends(p)
  /\ faults' = faults + 1
  /\ UNCHANGED <<outside, corrupt, accepted>>

\* The process is killed: the kernel drops its lock, a temporary file stays.
Kill(p) ==
  /\ proc[p].pc # "idle" /\ "faults" \in varying /\ faults < MaxFaults
  /\ Ends(p)
  /\ faults' = faults + 1
  /\ UNCHANGED <<outside, file, corrupt, residue, accepted>>

-----------------------------------------------------------------------------
Step(p) ==
  \/ Start(p) \/ Load(p) \/ SendAccepted(p) \/ SendRefused(p) \/ Stamp(p)
  \/ CollectFails(p) \/ Observe(p) \/ WriteTemp(p) \/ Replace(p)

Environment ==
  \/ ServiceChanges \/ ProbeFlips \/ PollStarts \/ RuleFails \/ PollCompletes
  \/ ApiRestarts \/ BackupChanges \/ DiskChanges \/ AuthorityChanges \/ Tick

Next == Environment \/ \E p \in Runs : Step(p) \/ SaveFails(p) \/ Kill(p)

Spec == Init /\ [][Next]_vars

\* launchd starts the agent's run every minute, and the timeouts of the status
\* command (30 s) and of the reporter (5 s) end every step of every run.  The
\* lock is free again and again when the agent wants it, and neither the reporter
\* nor the status command fails for ever.
Fairness ==
  /\ WF_vars(Tick) /\ WF_vars(Start(Agent))
  /\ SF_vars(Load(Agent) /\ lock = {})
  /\ \A p \in Runs :
       /\ WF_vars(proc[p].pc # "idle" /\ Step(p))
       /\ SF_vars(SendAccepted(p))
       /\ SF_vars(Observe(p) /\ proc'[p].pc = "write")

FairSpec == Spec /\ Fairness

-----------------------------------------------------------------------------
(* Properties.                                                             *)

Events == [episode : 1..MaxEpisodes, status : {"ALERT", "RECOVERED"}]

State ==
  [observed : 0..Old, streaks : [Targets -> 0..MaxStreak], seen : 0..MaxPolls,
   ruleStreak : 0..MaxStreak, sequence : 0..MaxEpisodes, active : 0..MaxEpisodes,
   pending : Events \union {None}]

\* Every part of the state has its type, and so has the state a run works on.
TypeOK ==
  /\ varying \in Scenarios
  /\ world.services \in [Services -> ServiceStates] /\ world.disk \in DiskLevels
  /\ world.api.done \in 0..MaxPolls /\ world.api.failures \in 0..1
  /\ world.backup.marker \in {"VALID", "MISSING", "INVALID", "UNAVAILABLE"}
  /\ ghost \in [down : [Targets -> 0..MaxStreak], polls : 1..MaxPolls, failed : BOOLEAN]
  /\ file \in State /\ corrupt \in BOOLEAN
  /\ residue \subseteq Runs /\ lock \subseteq Runs /\ Cardinality(lock) <= 1
  /\ \A p \in Runs :
       /\ proc[p].pc \in {"idle", "lock", "send", "observe", "read", "write", "replace"}
       /\ proc[p].then \in {"idle", "observe", "send", "done"}
       /\ proc[p].state \in State /\ proc[p].lag \in 0..MaxLag
  /\ accepted \subseteq Events /\ faults \in 0..MaxFaults

\* No run leaves a state that the next run would refuse, wherever it is killed.
StateNeverRejected == ValidState(file)

\* Streaks grow with the clock, not with the runs: of all the runs that observe
\* an outage in one instant two count it, the last that was stamped before that
\* instant and the first that is stamped in it.
StreaksFollowTheClock == \A t \in Targets : file.streaks[t] <= 2 * ghost.down[t]

\* A poll is counted once however many runs observe it: three completed polls
\* at least stand behind a rule failure that is reported as critical.
SamePollCountedOnce ==
  \A p \in Runs : Signal("RECURRING_RULE_FAILURE", "CRITICAL") \in proc[p].signals
                    => ghost.polls >= 3

\* HomeOps is only ever sent the event that the state file holds as pending, so
\* that a run killed at any point after it is followed by one with the same key.
NothingSentUnsaved == [][accepted' \subseteq accepted \union {file.pending}]_vars

\* HomeOps sees numbered episodes, each opened and closed once and in order.
Announced == {e.episode : e \in {a \in accepted : a.status = "ALERT"}}
LastEpisode == IF Announced = {} THEN 0 ELSE Max(Announced)

EpisodeOpen ==
  LastEpisode > 0 /\ [episode |-> LastEpisode, status |-> "RECOVERED"] \notin accepted

Episodes == INSTANCE DiskEpisodes WITH episode <- LastEpisode, open <- EpisodeOpen

ImplementsEpisodes == Episodes!Spec

\* A disk that stays low is reported in the end, by an episode that stays open;
\* not if a killed run left its temporary file, or if the state is not valid.
LowDiskReported ==
  <>[](world.disk \in {Low, Full} /\ world.broken = "nothing")
    => <>[](\/ EpisodeOpen
            \/ residue # {} \/ corrupt
            \/ file.sequence = MaxEpisodes)

\* docs/08-operations/observability.md:144: a poll that newly completed moves the
\* rule failure streak, a failed one up and a clean one to zero.
FailedPollCounted ==
  [][\A p \in Runs :
       proc[p].pc = "read" /\ proc'[p].pc = "write" /\ proc'[p].state.seen > proc[p].state.seen
         => (proc'[p].state.ruleStreak > 0) = ghost.failed]_vars
=============================================================================
