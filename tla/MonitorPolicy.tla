---------------------------- MODULE MonitorPolicy ----------------------------
(***************************************************************************)
(* What one run of the production monitor observes and concludes: the      *)
(* read-only collector of scripts/status_tools/production_status.py and    *)
(* the evaluator of monitor_policy.py, as operators.                       *)
(*                                                                         *)
(* The collector stamps its snapshot first, to the second, and then reads  *)
(* the containers, the scheduler, the backups and the disk.  Instants are  *)
(* ages, counted back from the moment of the read: a stamp of age Lag is   *)
(* older than anything that happened since.                                *)
(***************************************************************************)
EXTENDS Naturals

CONSTANTS
  Stale,        \* the age at which a poll, or a process without one, is late
  BackupStale,  \* the age at which the last backup is late
  MaxLag,       \* the instants that may pass while one run collects
  MaxStreak     \* where the failure streaks stop counting

ASSUME PolicyAssumption ==
  /\ Stale \in Nat \ {0} /\ BackupStale \in Nat \ {0}
  /\ MaxLag \in Nat \ {0} /\ MaxStreak \in Nat /\ MaxStreak >= 3

\* Two containers stand for the three: postgres is observed as api is, but
\* nothing is read through it.
Services == {"web", "api"}
ServiceStates == {"HEALTHY", "UNHEALTHY", "STOPPED"}

\* What a failure streak is kept of.
Targets == Services \union {"origin", "recurring"}

Low == 80       \* the disk usage at which an episode begins
Full == 90
Unavailable == 101   \* no usage: the filesystem could not be read
DiskLevels == {70, Low, Full, Unavailable}

Cap(n, limit) == IF n > limit THEN limit ELSE n

-----------------------------------------------------------------------------
(* The state kept from one run to the next.                                *)

Old == MaxLag + 1    \* older than any stamp; also when nothing was recorded
None == [episode |-> 0, status |-> "NONE"]

\* default_state: what a missing state file stands for.
DefaultState ==
  [observed |-> Old, streaks |-> [t \in Targets |-> 0], seen |-> 0, ruleStreak |-> 0,
   sequence |-> 0, active |-> 0, pending |-> None]

\* What validate_state refuses: an episode of the future, a pending event that
\* is not of the current episode, an alert inside an episode, a recovery outside.
ValidState(s) ==
  /\ s.active <= s.sequence
  /\ s.pending # None =>
       /\ s.pending.episode = s.sequence
       /\ s.active = (IF s.pending.status = "ALERT" THEN 0 ELSE s.pending.episode)

-----------------------------------------------------------------------------
(* The snapshot.  api is the scheduler's process-local record: the number  *)
(* and the age of the last completed poll and its outcome, whether a poll  *)
(* is running and the age of its last event, and the rule failures counted *)
(* since the last poll STARTED.                                            *)

\* recurring_unavailable: what an unreachable scheduler is observed as.
Unreachable == [reachable |-> FALSE]

\* _observe_container: other probes go through a container that runs.
Running(w, c) == w.services[c] # "STOPPED"

\* _service_status, as the services that fail.
FailingServices(w) == {c \in Services : w.services[c] # "HEALTHY"}

\* _origin_status: /healthz, at the port that the web container publishes.
OriginAnswers(w) == Running(w, "web") /\ w.origin

\* parse_recurring_response: the answer of the operations endpoint.
Answer(api) ==
  [reachable |-> TRUE, born |-> api.born, enabled |-> api.enabled, done |-> api.done,
   age |-> api.age, succeeded |-> api.succeeded, failures |-> api.failures,
   event |-> api.event]

\* _recurring_status: the operations endpoint, from inside the api container.
RecurringStatus(w) ==
  IF Running(w, "api") /\ w.api.up THEN Answer(w.api) ELSE Unreachable

\* _backup_status: a backup younger than the stamp reads as INVALID.
BackupStatus(backup, lag) ==
  IF backup.marker = "VALID" /\ backup.age < lag
  THEN [backup EXCEPT !.marker = "INVALID"] ELSE backup

Snapshot(w, lag) ==
  [services |-> FailingServices(w), origin |-> OriginAnswers(w),
   recurring |-> RecurringStatus(w), backup |-> BackupStatus(w.backup, lag),
   disk |-> w.disk, lag |-> lag]

\* validate_snapshot on what the collector can produce: nothing may be younger
\* than the stamp.  What happened in the stamp's own instant may belong to the
\* fraction of a second that the stamp dropped: then it is refused as well.
ValidSnapshot(o, truncated) ==
  LET oldest == IF truncated THEN o.lag + 1 ELSE o.lag IN
  o.recurring.reachable =>
    /\ o.recurring.born >= oldest
    /\ o.recurring.done > 0 => o.recurring.age >= oldest
    /\ o.recurring.event >= oldest

-----------------------------------------------------------------------------
(* evaluate.                                                               *)

Failing(o) ==
  o.services \union (IF o.origin THEN {} ELSE {"origin"})
             \union (IF o.recurring.reachable THEN {} ELSE {"recurring"})

\* A mutant: the streaks are not capped.
NextStreaksUncapped(s, o) ==
  [t \in Targets |-> IF t \in Failing(o) THEN s.streaks[t] + 1 ELSE 0]

NextStreaks(s, o) ==
  [t \in Targets |-> IF t \in Failing(o) THEN Cap(s.streaks[t] + 1, MaxStreak) ELSE 0]

\* A mutant: the last poll counts at every observation.
NextRuleStreakEachTime(s, o) ==
  IF ~o.recurring.reachable \/ o.recurring.done = 0 THEN 0
  ELSE IF o.recurring.failures > 0 THEN Cap(s.ruleStreak + 1, MaxStreak) ELSE 0

\* Only a poll that completed since the last observation moves the streak.
NextRuleStreak(s, o) ==
  CASE ~o.recurring.reachable -> s.ruleStreak
    [] o.recurring.reachable /\ o.recurring.done = 0 -> 0
    [] o.recurring.reachable /\ o.recurring.done > 0 ->
         IF o.recurring.done <= s.seen THEN s.ruleStreak
         ELSE IF o.recurring.failures > 0 THEN Cap(s.ruleStreak + 1, MaxStreak) ELSE 0

\* A mutant: an observation of the second of the last one is evaluated too.
EvaluableAgain(s, o) ==
  /\ s.observed >= o.lag
  /\ o.recurring.reachable /\ o.recurring.done > 0 => o.recurring.done >= s.seen

\* The recorded observation must be older, and no poll may run backwards.
Evaluable(s, o) ==
  /\ s.observed > o.lag
  /\ o.recurring.reachable /\ o.recurring.done > 0 => o.recurring.done >= s.seen

Evaluated(s, o) ==
  [s EXCEPT !.observed = o.lag,
            !.streaks = NextStreaks(s, o),
            !.seen = IF o.recurring.reachable THEN o.recurring.done ELSE s.seen,
            !.ruleStreak = NextRuleStreak(s, o)]

Signal(code, severity) == [code |-> code, severity |-> severity]

TargetSignals(n) ==
  {IF n.streaks[t] = 1 THEN [code |-> "PENDING", severity |-> "WARN", target |-> t]
                       ELSE [code |-> "DOWN", severity |-> "CRITICAL", target |-> t] :
     t \in {u \in Targets : n.streaks[u] > 0}}

RecurringSignals(n, o) ==
  LET r == o.recurring IN
  IF ~r.reachable THEN {}
  ELSE (CASE ~r.enabled -> {Signal("RECURRING_NOT_RUNNING", "CRITICAL")}
          [] r.enabled /\ r.done > 0 /\ ~r.succeeded ->
               {Signal("RECURRING_EXECUTION_FAILED", "CRITICAL")}
          [] r.enabled /\ r.done = 0 ->
               {IF r.born - o.lag < Stale THEN Signal("RECURRING_STARTING", "WARN")
                ELSE Signal("RECURRING_NOT_RUNNING", "CRITICAL")}
          [] r.enabled /\ r.done > 0 /\ r.succeeded ->
               IF r.age - o.lag > Stale THEN {Signal("RECURRING_STALE", "CRITICAL")} ELSE {})
       \union
       (IF n.ruleStreak > 0 /\ r.done > 0
        THEN {Signal("RECURRING_RULE_FAILURE", IF n.ruleStreak >= 3 THEN "CRITICAL" ELSE "WARN")}
        ELSE {})

BackupCode(marker) ==
  CASE marker = "MISSING" -> "BACKUP_MISSING" [] marker = "INVALID" -> "BACKUP_INVALID"
    [] marker = "UNAVAILABLE" -> "BACKUP_UNAVAILABLE"

BackupSignals(o) ==
  IF o.backup.marker # "VALID" THEN {Signal(BackupCode(o.backup.marker), "CRITICAL")}
  ELSE (IF o.backup.age - o.lag >= BackupStale THEN {Signal("BACKUP_STALE", "CRITICAL")} ELSE {})
       \union
       (IF o.backup.untidy THEN {Signal("BACKUP_INVENTORY_WARNING", "WARN")} ELSE {})

DiskSignals(o) ==
  CASE o.disk = Unavailable -> {Signal("FILESYSTEM_UNAVAILABLE", "CRITICAL")}
    [] o.disk = Full -> {Signal("DISK_USAGE_CRITICAL", "CRITICAL")}
    [] o.disk = Low -> {Signal("DISK_USAGE_WARNING", "WARN")}
    [] OTHER -> {}

\* The signals of an observation o whose evaluated state is n.
AllSignals(n, o) ==
  TargetSignals(n) \union RecurringSignals(n, o) \union BackupSignals(o) \union DiskSignals(o)

-----------------------------------------------------------------------------
(* prepare_homeops_disk_transition and finalize_homeops_pending.           *)

Prepared(s, o) ==
  CASE o.disk # Unavailable /\ o.disk >= Low /\ s.active = 0 ->
         [s EXCEPT !.sequence = @ + 1, !.pending = [episode |-> s.sequence + 1, status |-> "ALERT"]]
    [] o.disk < Low /\ s.active # 0 ->
         [s EXCEPT !.pending = [episode |-> s.active, status |-> "RECOVERED"]]
    [] OTHER -> s

\* A mutant: the event stays pending.
FinalizedKept(s) ==
  [s EXCEPT !.active = IF s.pending.status = "ALERT" THEN s.pending.episode ELSE 0]

\* A mutant: the episode is not remembered as the active one.
FinalizedOnly(s) == [s EXCEPT !.active = 0, !.pending = None]

Finalized(s) ==
  [s EXCEPT !.active = IF s.pending.status = "ALERT" THEN s.pending.episode ELSE 0,
            !.pending = None]
=============================================================================
