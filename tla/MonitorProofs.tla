---------------------------- MODULE MonitorProofs ----------------------------
(***************************************************************************)
(* Proofs about Monitor, for every set of runs and scenarios and every     *)
(* bound.                                                                  *)
(***************************************************************************)
EXTENDS Monitor, Integers, FiniteSetTheorems, TLAPS

(***************************************************************************)
(* The types, in full: TypeOK lists what can be wrong of them.             *)
(***************************************************************************)
ApiStates ==
  [up: BOOLEAN, enabled: BOOLEAN, born: Nat, running: BOOLEAN, event: Nat,
   done: 0..MaxPolls, age: Nat, succeeded: BOOLEAN, failures: 0..1]

Backups == [marker: {"VALID", "MISSING", "INVALID", "UNAVAILABLE"}, age: Nat, untidy: BOOLEAN]

Worlds ==
  [services: [Services -> ServiceStates], origin: BOOLEAN, disk: DiskLevels,
   broken: {"nothing", "paths", "reporter"}, api: ApiStates, backup: Backups]

Results == {{}} \union {AllSignals(n, Snapshot(w, l)) : n \in State, w \in Worlds, l \in 0..MaxLag}

ProcStates ==
  [pc: {"idle", "lock", "send", "observe", "read", "write", "replace"}, state: State,
   lag: 0..MaxLag, signals: Results, then: {"idle", "observe", "send", "done"}]

Ghosts == [down: [Targets -> 0..MaxStreak], polls: 1..MaxPolls, failed: BOOLEAN]

WorldTypes == world \in Worlds /\ ghost \in Ghosts

RunTypes ==
  /\ varying \in Scenarios /\ file \in State /\ corrupt \in BOOLEAN
  /\ residue \subseteq Runs /\ lock \subseteq Runs /\ proc \in [Runs -> ProcStates]
  /\ accepted \subseteq Events /\ faults \in 0..MaxFaults

(***************************************************************************)
(* Arithmetic and records.                                                 *)
(***************************************************************************)
LEMMA Constants ==
  /\ Stale \in Nat /\ BackupStale \in Nat /\ MaxLag \in Nat /\ MaxStreak \in Nat
  /\ MaxStreak >= 3 /\ MaxLag >= 1 /\ Old \in Nat /\ Old = MaxLag + 1
  /\ MaxPolls \in Nat /\ MaxPolls >= 1 /\ MaxEpisodes \in Nat /\ MaxFaults \in Nat
  BY PolicyAssumption, MonitorAssumption DEF Old

LEMMA CapType ==
  ASSUME NEW n \in Nat, NEW limit \in Nat
  PROVE  Cap(n, limit) \in 0..limit /\ Cap(n, limit) <= n
         /\ (n <= limit => Cap(n, limit) = n) /\ (n >= limit => Cap(n, limit) = limit)
  BY DEF Cap

\* The fields of a state, and that no event is none.
LEMMA StateFields ==
  ASSUME NEW s \in State
  PROVE  /\ s.observed \in 0..Old /\ s.observed \in Nat
         /\ s.streaks \in [Targets -> 0..MaxStreak]
         /\ s.seen \in 0..MaxPolls /\ s.seen \in Nat /\ s.ruleStreak \in 0..MaxStreak /\ s.ruleStreak \in Nat
         /\ s.sequence \in 0..MaxEpisodes /\ s.sequence \in Nat
         /\ s.active \in 0..MaxEpisodes /\ s.active \in Nat
         /\ s.pending \in Events \union {None}
         /\ s.pending # None => s.pending \in Events
  BY Constants DEF State

LEMMA EventFields ==
  /\ None \notin Events /\ None.status = "NONE"
  /\ \A e \in Events : /\ e.episode \in 1..MaxEpisodes /\ e.episode \in Nat /\ e.episode >= 1
                       /\ e.status \in {"ALERT", "RECOVERED"}
  <1>1. \A e \in Events : e.episode \in 1..MaxEpisodes /\ e.status \in {"ALERT", "RECOVERED"}
    BY DEF Events
  <1>2. \A e \in Events : e.episode \in Nat /\ e.episode >= 1
    BY <1>1, Constants
  <1>3. None.status = "NONE"
    BY DEF None
  <1> QED BY <1>1, <1>2, <1>3

LEMMA SameEvent ==
  ASSUME NEW d \in Events, NEW e \in Events, d.episode = e.episode, d.status = e.status
  PROVE  d = e
  BY DEF Events

LEMMA DefaultType == DefaultState \in State
  BY Constants DEF DefaultState, State, None

LEMMA IdleType == Idle \in ProcStates /\ Idle.pc = "idle" /\ Idle.signals = {} /\ Idle.lag = 0
  BY Constants, DefaultType DEF Idle, ProcStates, Results

\* The fields of the observed system.
LEMMA WorldFields ==
  ASSUME NEW w \in Worlds
  PROVE  /\ w.services \in [Services -> ServiceStates] /\ w.origin \in BOOLEAN
         /\ w.disk \in DiskLevels /\ w.api \in ApiStates /\ w.backup \in Backups
         /\ w.api.up \in BOOLEAN /\ w.api.done \in 0..MaxPolls /\ w.api.done \in Nat
         /\ w.api.failures \in 0..1 /\ w.api.running \in BOOLEAN
         /\ w.api.born \in Nat /\ w.api.event \in Nat /\ w.api.age \in Nat
  <1>1. w.api \in ApiStates /\ w.services \in [Services -> ServiceStates] /\ w.origin \in BOOLEAN
        /\ w.disk \in DiskLevels /\ w.backup \in Backups
    BY DEF Worlds
  <1>2. /\ w.api.up \in BOOLEAN /\ w.api.done \in 0..MaxPolls
        /\ w.api.failures \in 0..1 /\ w.api.running \in BOOLEAN
        /\ w.api.born \in Nat /\ w.api.event \in Nat /\ w.api.age \in Nat
    BY <1>1 DEF ApiStates
  <1> QED BY <1>1, <1>2, Constants

\* What an observation says of the scheduler.
LEMMA RecurringFields ==
  ASSUME NEW w \in Worlds, NEW l
  PROVE  LET r == Snapshot(w, l).recurring IN
         /\ r.reachable \in BOOLEAN
         /\ r.reachable => r.done = w.api.done /\ r.failures = w.api.failures
  <1>1. Answer(w.api).reachable = TRUE /\ Answer(w.api).done = w.api.done
        /\ Answer(w.api).failures = w.api.failures /\ Unreachable.reachable = FALSE
    BY DEF Answer, Unreachable
  <1>2. Snapshot(w, l).recurring = RecurringStatus(w)
    BY DEF Snapshot
  <1> HIDE DEF Answer, Unreachable, Snapshot
  <1> QED BY <1>1, <1>2 DEF RecurringStatus

\* What fails does not depend on when the snapshot was stamped.
LEMMA OutageFields ==
  ASSUME NEW w, NEW l
  PROVE  /\ Failing(Snapshot(w, l)) = Outage(w) /\ Outage(w) \subseteq Targets
         /\ Snapshot(w, l).lag = l /\ Snapshot(w, l).disk = w.disk
  BY DEF Snapshot, Outage, Failing, FailingServices, Targets

LEMMA OutageDepends ==
  ASSUME NEW v, NEW w, v.services = w.services, v.origin = w.origin, v.api.up = w.api.up
  PROVE  Outage(v) = Outage(w)
  <1>1. /\ FailingServices(v) = FailingServices(w) /\ OriginAnswers(v) = OriginAnswers(w)
        /\ RecurringStatus(v).reachable = RecurringStatus(w).reachable
    BY DEF FailingServices, OriginAnswers, RecurringStatus, Running, Answer, Unreachable
  <1>2. \A x : Outage(x) = FailingServices(x) \union (IF OriginAnswers(x) THEN {} ELSE {"origin"})
                 \union (IF RecurringStatus(x).reachable THEN {} ELSE {"recurring"})
    BY DEF Outage, Failing, Snapshot
  <1> QED BY <1>1, <1>2

\* evaluate, field by field.
LEMMA EvaluatedFields ==
  ASSUME NEW s \in State, NEW w \in Worlds, NEW l \in 0..MaxLag
  PROVE  LET o == Snapshot(w, l)
             n == Evaluated(s, o) IN
         /\ n \in State /\ n.observed = l /\ n.streaks = NextStreaks(s, o)
         /\ n.seen = (IF o.recurring.reachable THEN o.recurring.done ELSE s.seen)
         /\ n.ruleStreak = NextRuleStreak(s, o)
         /\ n.sequence = s.sequence /\ n.active = s.active /\ n.pending = s.pending
  <1> DEFINE o == Snapshot(w, l)
             observed == o.lag
             streaks == NextStreaks(s, o)
             seen == IF o.recurring.reachable THEN o.recurring.done ELSE s.seen
             rules == NextRuleStreak(s, o)
             n == [s EXCEPT !.observed = observed, !.streaks = streaks, !.seen = seen,
                            !.ruleStreak = rules]
  <1>1. n = Evaluated(s, o)
    BY DEF Evaluated
  <1>2. observed = l /\ observed \in 0..Old
    BY OutageFields, Constants
  <1>3. streaks \in [Targets -> 0..MaxStreak]
    <2>1. \A t \in Targets : s.streaks[t] + 1 \in Nat
      BY StateFields, Constants
    <2>2. \A t \in Targets : Cap(s.streaks[t] + 1, MaxStreak) \in 0..MaxStreak
      BY <2>1, CapType, Constants
    <2> HIDE DEF o
    <2> QED BY <2>2, Constants DEF NextStreaks
  <1>4. seen \in 0..MaxPolls
    BY StateFields, RecurringFields, WorldFields
  <1>5. rules \in 0..MaxStreak
    <2>1. s.ruleStreak \in 0..MaxStreak /\ s.ruleStreak + 1 \in Nat
      BY StateFields
    <2>2. Cap(s.ruleStreak + 1, MaxStreak) \in 0..MaxStreak
      BY <2>1, CapType, Constants
    <2>0. 0 \in 0..MaxStreak
      BY Constants
    <2>3. o.recurring.reachable \in BOOLEAN /\ (o.recurring.reachable => o.recurring.done \in Nat)
      BY RecurringFields, WorldFields
    <2> HIDE DEF o
    <2>4. CASE ~o.recurring.reachable
      BY <2>1, <2>4 DEF NextRuleStreak
    <2>5. CASE o.recurring.reachable /\ o.recurring.done = 0
      BY <2>0, <2>5 DEF NextRuleStreak
    <2>6. CASE o.recurring.reachable /\ o.recurring.done > 0
      BY <2>0, <2>1, <2>2, <2>3, <2>6 DEF NextRuleStreak
    <2> QED BY <2>3, <2>4, <2>5, <2>6
  <1> HIDE DEF o, observed, streaks, seen, rules
  <1>6. n \in State /\ n.observed = observed /\ n.streaks = streaks /\ n.seen = seen
        /\ n.ruleStreak = rules /\ n.sequence = s.sequence /\ n.active = s.active
        /\ n.pending = s.pending
    BY <1>2, <1>3, <1>4, <1>5 DEF State
  <1> HIDE DEF n
  <1> QED BY <1>1, <1>2, <1>6 DEF o, streaks, seen, rules

\* prepare_homeops_disk_transition: an alert, a recovery, or nothing new.
Alerted(s, n) ==
  /\ s.active = 0 /\ n.sequence = s.sequence + 1 /\ n.active = s.active
  /\ n.pending = [episode |-> s.sequence + 1, status |-> "ALERT"]

Recovered(s, n) ==
  /\ s.active # 0 /\ n.sequence = s.sequence /\ n.active = s.active
  /\ n.pending = [episode |-> s.active, status |-> "RECOVERED"]

SameEpisode(s, n) ==
  n.sequence = s.sequence /\ n.active = s.active /\ n.pending = s.pending

SameCounts(s, n) ==
  n.observed = s.observed /\ n.streaks = s.streaks /\ n.seen = s.seen /\ n.ruleStreak = s.ruleStreak

LEMMA PreparedFields ==
  ASSUME NEW s \in State, NEW o, Prepared(s, o).sequence <= MaxEpisodes
  PROVE  LET n == Prepared(s, o) IN
         /\ n \in State /\ SameCounts(s, n)
         /\ Alerted(s, n) \/ Recovered(s, n) \/ SameEpisode(s, n)
  <1> DEFINE n == Prepared(s, o)
             next == s.sequence + 1
             alert == [episode |-> next, status |-> "ALERT"]
             recovery == [episode |-> s.active, status |-> "RECOVERED"]
             a == [s EXCEPT !.sequence = next, !.pending = alert]
             r == [s EXCEPT !.pending = recovery]
  <1>1. \/ o.disk # Unavailable /\ o.disk >= Low /\ s.active = 0 /\ n = a
        \/ o.disk < Low /\ s.active # 0 /\ n = r
        \/ n = s
    BY DEF Prepared
  <1>2. CASE s.active = 0 /\ n = a
    <2>1. n.sequence = next /\ n.pending = alert /\ n.active = s.active /\ SameCounts(s, n)
      <3> HIDE DEF alert, next, n
      <3> QED BY <1>2 DEF State, SameCounts
    <2>2. next \in 1..MaxEpisodes
      <3>1. next <= MaxEpisodes
        BY <2>1
      <3> QED BY <3>1, StateFields, Constants
    <2>3. alert \in Events
      BY <2>2 DEF Events
    <2>4. n \in State
      <3>1. next \in 0..MaxEpisodes
        BY <2>2
      <3> HIDE DEF alert, next, n
      <3> QED BY <1>2, <2>3, <3>1 DEF State
    <2>5. Alerted(s, n)
      BY <1>2, <2>1 DEF Alerted
    <2> QED BY <2>1, <2>4, <2>5
  <1>3. CASE s.active # 0 /\ n = r
    <2>1. s.active \in 1..MaxEpisodes
      BY <1>3, StateFields, Constants
    <2>2. recovery \in Events
      BY <2>1 DEF Events
    <2>3. n \in State /\ n.pending = recovery /\ n.active = s.active /\ n.sequence = s.sequence
          /\ SameCounts(s, n)
      <3> HIDE DEF recovery, n
      <3> QED BY <1>3, <2>2 DEF State, SameCounts
    <2> QED BY <1>3, <2>3 DEF Recovered
  <1>4. CASE n = s
    <2> HIDE DEF n
    <2>1. n \in State /\ SameCounts(s, n) /\ SameEpisode(s, n)
      BY <1>4 DEF SameCounts, SameEpisode
    <2> QED BY <2>1 DEF n
  <1> QED BY <1>1, <1>2, <1>3, <1>4

LEMMA FinalizedFields ==
  ASSUME NEW s \in State, s.pending # None
  PROVE  LET n == Finalized(s) IN
         /\ n \in State /\ SameCounts(s, n) /\ n.sequence = s.sequence /\ n.pending = None
         /\ n.active = (IF s.pending.status = "ALERT" THEN s.pending.episode ELSE 0)
  <1> DEFINE active == IF s.pending.status = "ALERT" THEN s.pending.episode ELSE 0
             n == [s EXCEPT !.active = active, !.pending = None]
  <1>1. n = Finalized(s)
    BY DEF Finalized
  <1>2. active \in 0..MaxEpisodes
    BY StateFields, EventFields, Constants
  <1> HIDE DEF active
  <1>3. n \in State /\ SameCounts(s, n) /\ n.sequence = s.sequence /\ n.pending = None /\ n.active = active
    BY <1>2 DEF State, SameCounts
  <1> HIDE DEF n
  <1> QED BY <1>1, <1>3 DEF active

LEMMA AgedFields ==
  ASSUME NEW s \in State
  PROVE  LET n == Aged(s) IN
         /\ n \in State /\ SameEpisode(s, n) /\ n.streaks = s.streaks /\ n.seen = s.seen
         /\ n.ruleStreak = s.ruleStreak
  <1> DEFINE age == Cap(s.observed + 1, Old)
             n == [s EXCEPT !.observed = age]
  <1>1. n = Aged(s)
    BY DEF Aged
  <1>2. age \in 0..Old
    <2>1. s.observed + 1 \in Nat /\ Old \in Nat
      BY StateFields, Constants
    <2> QED BY <2>1, CapType
  <1> HIDE DEF age
  <1>3. n \in State /\ SameEpisode(s, n) /\ n.streaks = s.streaks /\ n.seen = s.seen
        /\ n.ruleStreak = s.ruleStreak
    BY <1>2 DEF State, SameEpisode
  <1> HIDE DEF n
  <1> QED BY <1>1, <1>3

(***************************************************************************)
(* Episodes. A sound state knows one episode, and HomeOps has been told of *)
(* everything before the event that is pending.                            *)
(***************************************************************************)
Sound(s) == ValidState(s) /\ s.active \in {0, s.sequence}

Told(s) ==
  {e \in Events :
     \/ e.episode < s.sequence
     \/ /\ e.episode = s.sequence
        /\ \/ e.status = "ALERT" /\ s.pending.status # "ALERT"
           \/ e.status = "RECOVERED" /\ s.pending = None /\ s.active = 0}

LEMMA ToldSame ==
  ASSUME NEW s, NEW n, SameEpisode(s, n)
  PROVE  Told(n) = Told(s) /\ (Sound(s) => Sound(n))
  BY DEF SameEpisode, Told, Sound, ValidState

\* What a sound state says of its pending event.
LEMMA PendingFields ==
  ASSUME NEW s \in State, Sound(s), s.pending # None
  PROVE  /\ s.pending \in Events /\ s.pending.episode = s.sequence /\ s.sequence >= 1
         /\ \/ s.pending.status = "ALERT" /\ s.active = 0
            \/ s.pending.status = "RECOVERED" /\ s.active = s.sequence
         /\ s.pending \notin Told(s)
  <1>1. /\ s.pending \in Events /\ s.pending.episode = s.sequence
        /\ s.active = (IF s.pending.status = "ALERT" THEN 0 ELSE s.pending.episode)
    BY StateFields DEF Sound, ValidState
  <1>2. s.pending.status \in {"ALERT", "RECOVERED"} /\ s.pending.episode >= 1
    BY <1>1, EventFields
  <1>3. s.sequence \in Nat
    BY StateFields
  <1>4. s.pending \notin Told(s)
    BY <1>1, <1>2, <1>3 DEF Told
  <1> QED BY <1>1, <1>2, <1>4

\* Delivering the pending event is all that finalizing it adds.
LEMMA ToldFinalized ==
  ASSUME NEW s \in State, Sound(s), s.pending # None
  PROVE  Told(Finalized(s)) = Told(s) \union {s.pending} /\ Sound(Finalized(s))
  <1> DEFINE n == Finalized(s)
  <1>1. /\ n.sequence = s.sequence /\ n.pending = None
        /\ n.active = (IF s.pending.status = "ALERT" THEN s.pending.episode ELSE 0)
    BY FinalizedFields
  <1>2. /\ s.pending \in Events /\ s.pending.episode = s.sequence /\ s.sequence >= 1
        /\ \/ s.pending.status = "ALERT" /\ s.active = 0
           \/ s.pending.status = "RECOVERED" /\ s.active = s.sequence
    BY PendingFields
  <1>3. s.sequence \in Nat /\ None.status = "NONE"
    BY StateFields, EventFields
  <1> HIDE DEF n
  <1>4. Sound(n)
    BY <1>1, <1>2, <1>3 DEF Sound, ValidState
  <1>5. ASSUME NEW e \in Events
        PROVE  e \in Told(n) <=> e \in Told(s) \/ e = s.pending
    <2>1. e.episode \in Nat /\ e.status \in {"ALERT", "RECOVERED"}
      BY EventFields
    <2>2. e = s.pending <=> e.episode = s.sequence /\ e.status = s.pending.status
      BY <1>2, SameEvent
    <2>3. CASE e.episode # s.sequence
      BY <1>1, <2>2, <2>3 DEF Told
    <2>4. CASE e.episode = s.sequence
      <3>1. e \in Told(n) <=> e.status = "ALERT" \/ (e.status = "RECOVERED" /\ n.active = 0)
        BY <1>1, <1>3, <2>4 DEF Told
      <3>2. e \in Told(s) <=> e.status = "ALERT" /\ s.pending.status # "ALERT"
        BY <1>3, <2>4 DEF Told
      <3> QED BY <1>1, <1>2, <2>1, <2>2, <2>4, <3>1, <3>2
    <2> QED BY <2>3, <2>4
  <1>6. Told(n) \subseteq Events /\ Told(s) \subseteq Events
    BY DEF Told
  <1> QED BY <1>2, <1>4, <1>5, <1>6 DEF n

\* A new event is not one that was told.
LEMMA ToldPrepared ==
  ASSUME NEW s \in State, Sound(s), s.pending = None, NEW n \in State,
         Alerted(s, n) \/ Recovered(s, n) \/ SameEpisode(s, n)
  PROVE  Told(n) = Told(s) /\ Sound(n)
  <1>0. s.sequence \in Nat /\ None.status = "NONE" /\ s.active \in {0, s.sequence}
    BY StateFields, EventFields DEF Sound
  <1>1. CASE Alerted(s, n)
    <2>1. n.sequence = s.sequence + 1 /\ n.active = 0 /\ s.active = 0
          /\ n.pending.status = "ALERT" /\ n.pending.episode = s.sequence + 1
      BY <1>1 DEF Alerted
    <2>2. n.pending # None
      BY <1>0, <2>1
    <2>3. Sound(n)
      BY <1>0, <2>1 DEF Sound, ValidState
    <2>4. ASSUME NEW e \in Events
          PROVE  e \in Told(n) <=> e \in Told(s)
      <3>1. e.episode \in Nat /\ e.status \in {"ALERT", "RECOVERED"}
        BY EventFields
      <3>2. e \in Told(s) <=> e.episode <= s.sequence
        BY <1>0, <2>1, <3>1 DEF Told
      <3>3. e \in Told(n) <=> e.episode < s.sequence + 1
        BY <2>1, <2>2, <3>1 DEF Told
      <3> QED BY <1>0, <3>1, <3>2, <3>3
    <2> QED BY <2>3, <2>4 DEF Told
  <1>2. CASE Recovered(s, n)
    <2>1. n.sequence = s.sequence /\ n.active = s.sequence /\ s.active = s.sequence /\ s.active # 0
          /\ n.pending.status = "RECOVERED" /\ n.pending.episode = s.sequence
      BY <1>0, <1>2 DEF Recovered
    <2>2. n.pending # None
      BY <1>0, <2>1
    <2>3. Sound(n)
      BY <1>0, <2>1 DEF Sound, ValidState
    <2>4. \A e \in Events : e \in Told(n) <=> e \in Told(s)
      BY <1>0, <2>1, <2>2 DEF Told
    <2> QED BY <2>3, <2>4 DEF Told
  <1>3. CASE SameEpisode(s, n)
    BY <1>3, ToldSame
  <1> QED BY <1>1, <1>2, <1>3

(***************************************************************************)
(* The invariant. Only the run that holds the lock works, on the state on  *)
(* file until it concludes something, and what it then writes is as good   *)
(* as the file, with everything told that it says was told. Good(s):       *)
(* episodes in order, no more failed polls counted than completed, and no  *)
(* more failures than two in each instant of an outage - one, if the last  *)
(* observation was stamped before this instant, and none, if a run that    *)
(* was stamped before this instant is still to observe.                    *)
(***************************************************************************)
Busy == {"send", "observe", "read", "write", "replace"}

Counted(s) == s.ruleStreak <= s.seen /\ s.seen <= ghost.polls

Fits(s, t) ==
  /\ s.streaks[t] <= 2 * ghost.down[t]
  /\ t \in Outage(world) /\ s.observed > 0 => s.streaks[t] <= 2 * ghost.down[t] - 1

Good(s) == Sound(s) /\ Counted(s) /\ \A t \in Targets : Fits(s, t)

Early ==
  \A p \in Runs, t \in Outage(world) :
    proc[p].pc = "read" /\ proc[p].lag > 0 => file.streaks[t] <= 2 * ghost.down[t] - 2

Exclusive ==
  /\ lock = {} \/ \E p \in Runs : lock = {p}
  /\ \A p \in Runs : proc[p].pc \in Busy <=> p \in lock

Paced == world.api.done <= ghost.polls /\ (world.api.running => ghost.polls < MaxPolls)

Reported ==
  \/ accepted = Told(file)
  \/ file.pending # None /\ accepted = Told(file) \union {file.pending}

Working(p) ==
  LET s == proc[p].state
      then == proc[p].then
  IN  /\ proc[p].pc = "send" => s = file /\ s.pending # None /\ then \in {"observe", "done"}
      /\ proc[p].pc \in {"observe", "read"} => s = file /\ s.pending = None /\ then = "observe"
      /\ proc[p].pc \in {"write", "replace"} =>
           /\ Good(s) /\ accepted = Told(s)
           /\ IF s.pending # None THEN then = "send" ELSE then \in {"observe", "done"}

MonitorInv ==
  /\ WorldTypes /\ RunTypes /\ Exclusive /\ Paced /\ Good(file) /\ Early /\ Reported
  /\ SamePollCountedOnce /\ \A p \in Runs : Working(p)

LEMMA ProcFields ==
  ASSUME RunTypes, NEW p \in Runs
  PROVE  /\ proc[p] \in ProcStates /\ proc[p].state \in State
         /\ proc[p].lag \in 0..MaxLag /\ proc[p].lag \in Nat
         /\ proc[p].pc \in {"idle", "lock", "send", "observe", "read", "write", "replace"}
         /\ proc[p].then \in {"idle", "observe", "send", "done"}
  <1>1. proc[p] \in ProcStates
    BY DEF RunTypes
  <1> QED BY <1>1, Constants DEF ProcStates

LEMMA InvIsTyped == MonitorInv => TypeOK
  <1> SUFFICES ASSUME MonitorInv PROVE TypeOK
    OBVIOUS
  <1>1. WorldTypes /\ RunTypes /\ Exclusive
    BY DEF MonitorInv
  <1>2. /\ world.services \in [Services -> ServiceStates] /\ world.disk \in DiskLevels
        /\ world.api.done \in 0..MaxPolls /\ world.api.failures \in 0..1
        /\ world.backup.marker \in {"VALID", "MISSING", "INVALID", "UNAVAILABLE"}
    BY <1>1, WorldFields DEF WorldTypes, Backups
  <1>3. Cardinality(lock) <= 1
    <2>1. CASE lock = {}
      <3>1. Cardinality(lock) = 0
        BY <2>1, FS_EmptySet
      <3> QED BY <3>1
    <2>2. CASE \E p \in Runs : lock = {p}
      <3>1. Cardinality(lock) = 1
        BY <2>2, FS_Singleton
      <3> QED BY <3>1
    <2> QED BY <1>1, <2>1, <2>2 DEF Exclusive
  <1> QED BY <1>1, <1>2, <1>3, ProcFields DEF TypeOK, WorldTypes, RunTypes, Ghosts

\* One more instant of an outage is room for two more failures.
LEMMA OneMoreInstant ==
  ASSUME NEW k \in 0..MaxStreak, NEW d \in 0..MaxStreak, k <= 2 * d
  PROVE  k <= 2 * Cap(d + 1, MaxStreak) - 2
  <1>1. CASE d + 1 <= MaxStreak
    BY <1>1, Constants, CapType
  <1>2. CASE d + 1 > MaxStreak
    BY <1>2, Constants, CapType
  <1> QED BY <1>1, <1>2, Constants

LEMMA GhostFields ==
  ASSUME WorldTypes
  PROVE  /\ \A t \in Targets : ghost.down[t] \in 0..MaxStreak /\ ghost.down[t] \in Nat
         /\ ghost.polls \in 1..MaxPolls /\ ghost.polls \in Nat /\ ghost.down \in [Targets -> 0..MaxStreak]
  BY Constants DEF WorldTypes, Ghosts

(***************************************************************************)
(* The observed system changes: an outage that begins, or lasts into a new *)
(* instant, is one more instant; the runs see nothing of it yet.           *)
(***************************************************************************)
Lasts(t) ==
  \/ t \notin Outage(world)' /\ ghost'.down[t] = ghost.down[t]
  \/ t \in Outage(world) /\ ghost'.down[t] = ghost.down[t]
  \/ ghost'.down[t] = Cap(ghost.down[t] + 1, MaxStreak)

LEMMA LastingKeepsFits ==
  ASSUME WorldTypes, NEW s \in State, NEW t \in Targets, Fits(s, t), Lasts(t)
  PROVE  /\ Fits(s, t)'
         /\ t \in Outage(world)' =>
              \/ s.streaks[t] <= 2 * ghost'.down[t] - 2
              \/ t \in Outage(world) /\ ghost'.down[t] = ghost.down[t]
  <1>1. s.streaks[t] \in 0..MaxStreak /\ ghost.down[t] \in 0..MaxStreak
    BY StateFields, GhostFields
  <1>2. CASE ghost'.down[t] = Cap(ghost.down[t] + 1, MaxStreak)
    <2>1. s.streaks[t] <= 2 * ghost'.down[t] - 2
      BY <1>1, <1>2, OneMoreInstant DEF Fits
    <2>2. ghost'.down[t] \in Nat
      BY <1>1, <1>2, CapType, Constants
    <2> QED BY <1>1, <2>1, <2>2 DEF Fits
  <1>3. CASE ghost'.down[t] # Cap(ghost.down[t] + 1, MaxStreak)
    BY <1>3 DEF Fits, Lasts
  <1> QED BY <1>2, <1>3

LEMMA OutsideKeeps ==
  ASSUME MonitorInv, WorldTypes', Paced', ghost'.polls >= ghost.polls,
         \A t \in Targets : Lasts(t),
         UNCHANGED <<varying, file, corrupt, residue, lock, proc, accepted, faults>>
  PROVE  MonitorInv'
  <1>0. /\ WorldTypes /\ RunTypes /\ Exclusive /\ Good(file) /\ Early /\ Reported
        /\ SamePollCountedOnce /\ \A p \in Runs : Working(p)
        /\ ghost.polls \in Nat /\ ghost'.polls \in Nat /\ file \in State
    BY GhostFields DEF MonitorInv, WorldTypes, Ghosts, RunTypes
  <1>1. ASSUME NEW s \in State, Good(s) PROVE Good(s)'
    <2>1. \A t \in Targets : Fits(s, t)'
      BY <1>0, <1>1, LastingKeepsFits DEF Good
    <2>2. Counted(s)'
      BY <1>0, <1>1, StateFields DEF Good, Counted
    <2> QED BY <1>1, <2>1, <2>2 DEF Good
  <1>2. Early'
    <2> SUFFICES ASSUME NEW p \in Runs, NEW t \in Outage(world)', proc[p].pc = "read", proc[p].lag > 0
                 PROVE  file.streaks[t] <= 2 * ghost'.down[t] - 2
      BY DEF Early
    <2>1. t \in Targets
      BY OutageFields
    <2>2. Fits(file, t) /\ Lasts(t)
      BY <1>0, <2>1 DEF Good
    <2>3. CASE t \in Outage(world) /\ ghost'.down[t] = ghost.down[t]
      BY <1>0, <2>3 DEF Early
    <2> QED BY <1>0, <2>1, <2>2, <2>3, LastingKeepsFits
  <1>3. \A p \in Runs : Working(p)'
    BY <1>0, <1>1, ProcFields DEF Working
  <1>4. RunTypes' /\ Exclusive' /\ Reported'
    BY <1>0 DEF RunTypes, Exclusive, Reported
  <1>5. Good(file)'
    BY <1>0, <1>1 DEF Good, Sound, Counted, Fits
  <1>6. SamePollCountedOnce'
    BY <1>0 DEF SamePollCountedOnce
  <1> QED BY <1>2, <1>3, <1>4, <1>5, <1>6 DEF MonitorInv

LEMMA ObservedKeeps ==
  ASSUME MonitorInv, NEW w \in Worlds, Observed(w),
         w.api.done = world.api.done \/ w.api.done = 0,
         w.api.running => world.api.running \/ ghost.polls < MaxPolls
  PROVE  MonitorInv'
  <1>0. WorldTypes /\ Paced /\ world' = w /\ ghost.polls \in Nat
    BY GhostFields DEF Observed, MonitorInv
  <1> DEFINE down == [t \in Targets |->
                 IF t \in Outage(w) \ Outage(world) THEN Cap(ghost.down[t] + 1, MaxStreak)
                 ELSE ghost.down[t]]
  <1>1. down \in [Targets -> 0..MaxStreak]
    <2>1. \A n \in Nat : Cap(n, MaxStreak) \in 0..MaxStreak
      BY CapType, Constants
    <2>2. \A t \in Targets : ghost.down[t] + 1 \in Nat
      BY <1>0, GhostFields
    <2>3. ASSUME NEW t \in Targets PROVE Cap(ghost.down[t] + 1, MaxStreak) \in 0..MaxStreak
      <3> HIDE DEF down
      <3>1. ghost.down[t] + 1 \in Nat
        BY <2>2
      <3> QED BY <2>1, <3>1
    <2> QED BY <1>0, <2>3, GhostFields
  <1>2. ghost' = [ghost EXCEPT !.down = down]
    BY DEF Observed
  <1>3. /\ ghost'.down = down /\ ghost'.polls = ghost.polls /\ ghost' \in Ghosts
    <2> HIDE DEF down
    <2> QED BY <1>0, <1>1, <1>2 DEF WorldTypes, Ghosts
  <1>4. \A t \in Targets : Lasts(t)
    BY <1>0, <1>3 DEF Lasts
  <1>5. WorldTypes' /\ Paced'
    BY <1>0, <1>3, WorldFields DEF WorldTypes, Paced
  <1> QED BY <1>0, <1>3, <1>4, <1>5, OutsideKeeps DEF Observed

\* The scheduler's record, as a new process, a poll and a failure write it.
LEMMA ApiRecords ==
  ASSUME NEW a \in ApiStates
  PROVE  /\ \A on \in BOOLEAN :
              LET b == [a EXCEPT !.enabled = on, !.born = 0, !.running = FALSE, !.event = Old,
                                 !.done = 0, !.age = 0, !.succeeded = TRUE, !.failures = 0]
              IN  b \in ApiStates /\ b.done = 0 /\ b.running = FALSE
         /\ LET b == [a EXCEPT !.running = TRUE, !.failures = 0, !.event = 0]
            IN  b \in ApiStates /\ b.done = a.done
         /\ LET b == [a EXCEPT !.failures = 1, !.event = 0]
            IN  b \in ApiStates /\ b.done = a.done /\ b.running = a.running
  <1>0. 0 \in 0..MaxPolls /\ 0 \in 0..1 /\ 1 \in 0..1 /\ Old \in Nat /\ 0 \in Nat
    BY Constants
  <1>1. ASSUME NEW on \in BOOLEAN
        PROVE  LET b == [a EXCEPT !.enabled = on, !.born = 0, !.running = FALSE, !.event = Old,
                                  !.done = 0, !.age = 0, !.succeeded = TRUE, !.failures = 0]
               IN  b \in ApiStates /\ b.done = 0 /\ b.running = FALSE
    BY <1>0 DEF ApiStates
  <1>2. LET b == [a EXCEPT !.running = TRUE, !.failures = 0, !.event = 0]
        IN  b \in ApiStates /\ b.done = a.done
    BY <1>0 DEF ApiStates
  <1>3. LET b == [a EXCEPT !.failures = 1, !.event = 0]
        IN  b \in ApiStates /\ b.done = a.done /\ b.running = a.running
    BY <1>0 DEF ApiStates
  <1> QED BY <1>1, <1>2, <1>3

LEMMA ServiceChangesKeeps ==
  ASSUME MonitorInv, ServiceChanges
  PROVE  MonitorInv'
  <1>0. world \in Worlds /\ world.api \in ApiStates
    BY WorldFields DEF MonitorInv, WorldTypes
  <1>1. PICK c \in Services, s \in ServiceStates :
          Observed([world EXCEPT !.services[c] = s,
                                 !.api = IF c = "api" /\ ~Running(world, "api")
                                         THEN FreshApi(TRUE) ELSE @])
    BY DEF ServiceChanges
  <1> DEFINE services == [world.services EXCEPT ![c] = s]
             api == IF c = "api" /\ ~Running(world, "api") THEN FreshApi(TRUE) ELSE world.api
             w == [world EXCEPT !.services = services, !.api = api]
  <1>2. services \in [Services -> ServiceStates]
    BY <1>0, WorldFields
  <1>3. api \in ApiStates /\ (api = world.api \/ (api.done = 0 /\ api.running = FALSE))
    <2>1. FreshApi(TRUE) \in ApiStates /\ FreshApi(TRUE).done = 0 /\ FreshApi(TRUE).running = FALSE
      BY <1>0, ApiRecords DEF FreshApi
    <2> HIDE DEF FreshApi
    <2> QED BY <1>0, <2>1
  <1>4. Observed(w)
    BY <1>0, <1>1
  <1> HIDE DEF services, api
  <1>5. w \in Worlds /\ w.api = api
    BY <1>0, <1>2, <1>3 DEF Worlds
  <1> HIDE DEF w
  <1> QED BY <1>0, <1>3, <1>4, <1>5, ObservedKeeps

LEMMA ApiKeeps ==
  ASSUME MonitorInv, NEW api \in ApiStates, Observed([world EXCEPT !.api = api]),
         api.done = world.api.done \/ api.done = 0,
         api.running => world.api.running \/ ghost.polls < MaxPolls
  PROVE  MonitorInv'
  <1> DEFINE w == [world EXCEPT !.api = api]
  <1>1. w \in Worlds /\ w.api = api
    BY DEF Worlds, MonitorInv, WorldTypes
  <1>2. Observed(w)
    OBVIOUS
  <1> HIDE DEF w
  <1> QED BY <1>1, <1>2, ObservedKeeps

LEMMA ProbeFlipsKeeps ==
  ASSUME MonitorInv, ProbeFlips
  PROVE  MonitorInv'
  <1>0. world \in Worlds /\ world.api \in ApiStates
    BY WorldFields DEF MonitorInv, WorldTypes
  <1>1. CASE Observed([world EXCEPT !.origin = ~@])
    <2> DEFINE w == [world EXCEPT !.origin = ~@]
    <2>1. w \in Worlds /\ w.api = world.api
      BY <1>0 DEF Worlds
    <2>2. Observed(w)
      BY <1>1
    <2> HIDE DEF w
    <2> QED BY <2>1, <2>2, ObservedKeeps
  <1>2. CASE Observed([world EXCEPT !.api.up = ~@])
    <2> DEFINE api == [world.api EXCEPT !.up = ~@]
    <2>1. api \in ApiStates /\ api.done = world.api.done /\ api.running = world.api.running
      BY <1>0 DEF ApiStates
    <2>2. Observed([world EXCEPT !.api = api])
      BY <1>2
    <2> HIDE DEF api
    <2> QED BY <2>1, <2>2, ApiKeeps
  <1> QED BY <1>1, <1>2 DEF ProbeFlips

LEMMA PollStartsKeeps ==
  ASSUME MonitorInv, PollStarts
  PROVE  MonitorInv'
  <1>0. world \in Worlds /\ world.api \in ApiStates
    BY WorldFields DEF MonitorInv, WorldTypes
  <1> DEFINE api == [world.api EXCEPT !.running = TRUE, !.failures = 0, !.event = 0]
  <1>1. api \in ApiStates /\ api.done = world.api.done
    BY <1>0, ApiRecords
  <1>2. Observed([world EXCEPT !.api = api]) /\ ghost.polls < MaxPolls
    BY <1>0 DEF PollStarts, Worlds
  <1> HIDE DEF api
  <1> QED BY <1>1, <1>2, ApiKeeps

LEMMA RuleFailsKeeps ==
  ASSUME MonitorInv, RuleFails
  PROVE  MonitorInv'
  <1>0. world \in Worlds /\ world.api \in ApiStates
    BY WorldFields DEF MonitorInv, WorldTypes
  <1> DEFINE api == [world.api EXCEPT !.failures = 1, !.event = 0]
  <1>1. api \in ApiStates /\ api.done = world.api.done /\ api.running = world.api.running
    BY <1>0, ApiRecords
  <1>2. Observed([world EXCEPT !.api = api])
    BY <1>0 DEF RuleFails, Worlds
  <1> HIDE DEF api
  <1> QED BY <1>1, <1>2, ApiKeeps

LEMMA ApiRestartsKeeps ==
  ASSUME MonitorInv, ApiRestarts
  PROVE  MonitorInv'
  <1>0. world \in Worlds /\ world.api \in ApiStates
    BY WorldFields DEF MonitorInv, WorldTypes
  <1>1. PICK on \in BOOLEAN : Observed([world EXCEPT !.api = FreshApi(on)])
    BY DEF ApiRestarts
  <1>2. FreshApi(on) \in ApiStates /\ FreshApi(on).done = 0 /\ FreshApi(on).running = FALSE
    BY <1>0, ApiRecords DEF FreshApi
  <1> HIDE DEF FreshApi
  <1> QED BY <1>1, <1>2, ApiKeeps

LEMMA PollCompletesKeeps ==
  ASSUME MonitorInv, PollCompletes
  PROVE  MonitorInv'
  <1>0. /\ world \in Worlds /\ world.api \in ApiStates /\ WorldTypes /\ Paced
        /\ ghost.polls \in 1..MaxPolls /\ ghost.polls \in Nat
    BY WorldFields, GhostFields DEF MonitorInv, WorldTypes
  <1>1. ghost.polls < MaxPolls /\ ghost.polls + 1 \in 0..MaxPolls /\ ghost.polls + 1 \in 1..MaxPolls
    BY <1>0, Constants DEF PollCompletes, Paced
  <1>2. PICK ok \in BOOLEAN :
       world' = [world EXCEPT !.api.running = FALSE, !.api.event = Old, !.api.age = 0,
                              !.api.done = ghost.polls + 1, !.api.succeeded = ok]
    BY DEF PollCompletes
  <1> DEFINE n == ghost.polls + 1
             failed == world.api.failures > 0
             api == [world.api EXCEPT !.running = FALSE, !.event = Old, !.age = 0, !.done = n,
                                      !.succeeded = ok]
  <1>3. api \in ApiStates /\ api.running = FALSE /\ api.done = n /\ api.up = world.api.up
    <2> HIDE DEF n
    <2> QED BY <1>0, <1>1, Constants DEF ApiStates, n
  <1>4. world' = [world EXCEPT !.api = api]
    BY <1>0, <1>2 DEF Worlds
  <1>5. ghost' = [ghost EXCEPT !.polls = n, !.failed = failed]
    BY DEF PollCompletes
  <1> HIDE DEF api, n, failed
  <1>6. world' \in Worlds /\ world'.api = api /\ world'.services = world.services
        /\ world'.origin = world.origin
    BY <1>0, <1>3, <1>4 DEF Worlds
  <1>7. ghost' \in Ghosts /\ ghost'.polls = n /\ ghost'.down = ghost.down
    <2>1. failed \in BOOLEAN
      BY DEF failed
    <2>2. n \in 1..MaxPolls
      BY <1>1 DEF n
    <2> QED BY <1>0, <1>5, <2>1, <2>2 DEF Ghosts, WorldTypes
  <1>8. Outage(world)' = Outage(world)
    BY <1>3, <1>6, OutageDepends
  <1>9. \A t \in Targets : Lasts(t)
    BY <1>7, <1>8 DEF Lasts
  <1>10. WorldTypes' /\ Paced' /\ ghost'.polls >= ghost.polls
    BY <1>0, <1>1, <1>3, <1>6, <1>7 DEF WorldTypes, Paced, n
  <1> QED BY <1>9, <1>10, OutsideKeeps DEF PollCompletes

LEMMA QuietChangesKeep ==
  ASSUME MonitorInv, BackupChanges \/ DiskChanges \/ AuthorityChanges
  PROVE  MonitorInv'
  <1>0. world \in Worlds
    BY DEF MonitorInv, WorldTypes
  <1>1. CASE BackupChanges
    <2>1. PICK m \in {"VALID", "MISSING", "INVALID", "UNAVAILABLE"}, u \in BOOLEAN :
            Observed([world EXCEPT !.backup = [marker |-> m, age |-> 0, untidy |-> u]])
      BY <1>1 DEF BackupChanges
    <2> DEFINE b == [marker |-> m, age |-> 0, untidy |-> u]
               w == [world EXCEPT !.backup = b]
    <2>2. b \in Backups
      BY DEF Backups
    <2>3. Observed(w)
      BY <2>1
    <2> HIDE DEF b
    <2>4. w \in Worlds /\ w.api = world.api
      BY <1>0, <2>2 DEF Worlds
    <2> HIDE DEF w
    <2> QED BY <2>3, <2>4, ObservedKeeps
  <1>2. CASE DiskChanges
    <2>1. PICK d \in DiskLevels : Observed([world EXCEPT !.disk = d])
      BY <1>2 DEF DiskChanges
    <2> DEFINE w == [world EXCEPT !.disk = d]
    <2>2. w \in Worlds /\ w.api = world.api
      BY <1>0 DEF Worlds
    <2> HIDE DEF w
    <2> QED BY <2>1, <2>2, ObservedKeeps DEF w
  <1>3. CASE AuthorityChanges
    <2>1. PICK b \in {"nothing", "paths", "reporter"} : Observed([world EXCEPT !.broken = b])
      BY <1>3 DEF AuthorityChanges
    <2> DEFINE w == [world EXCEPT !.broken = b]
    <2>2. w \in Worlds /\ w.api = world.api
      BY <1>0 DEF Worlds
    <2> HIDE DEF w
    <2> QED BY <2>1, <2>2, ObservedKeeps DEF w
  <1> QED BY <1>1, <1>2, <1>3

(***************************************************************************)
(* The clock.                                                              *)
(***************************************************************************)
LEMMA TickWorld ==
  ASSUME MonitorInv, Tick
  PROVE  /\ WorldTypes' /\ Paced' /\ Outage(world)' = Outage(world) /\ ghost'.polls = ghost.polls
         /\ \A t \in Targets : ghost'.down[t] = (IF t \in Outage(world)
                                                 THEN Cap(ghost.down[t] + 1, MaxStreak)
                                                 ELSE ghost.down[t])
  <1>0. world \in Worlds /\ world.api \in ApiStates /\ world.backup \in Backups /\ WorldTypes /\ Paced
    BY WorldFields DEF MonitorInv, WorldTypes
  <1> DEFINE born == Cap(world.api.born + 1, Stale + MaxLag)
             age == Cap(world.api.age + 1, Stale + MaxLag + 1)
             event == Cap(world.api.event + 1, Old)
             old == Cap(world.backup.age + 1, BackupStale + MaxLag)
             api == [world.api EXCEPT !.born = born, !.age = age, !.event = event]
             backup == [world.backup EXCEPT !.age = old]
             down == [t \in Targets |->
                       IF t \in Outage(world) THEN Cap(ghost.down[t] + 1, MaxStreak)
                       ELSE ghost.down[t]]
  <1>1. born \in Nat /\ age \in Nat /\ event \in Nat /\ old \in Nat
    <2>1. world.api.born \in Nat /\ world.api.age \in Nat /\ world.api.event \in Nat
          /\ world.backup.age \in Nat
      BY <1>0, WorldFields DEF Backups
    <2> QED BY <2>1, Constants DEF Cap
  <1>2. world' = [world EXCEPT !.api = api, !.backup = backup]
    <2> HIDE DEF born, age, event, old
    <2>1. world' = [world EXCEPT !.api.born = born, !.api.age = age, !.api.event = event,
                                 !.backup.age = old]
      BY DEF Tick, born, age, event, old
    <2> QED BY <1>0, <2>1 DEF Worlds
  <1>3. /\ api \in ApiStates /\ api.done = world.api.done /\ api.running = world.api.running
        /\ api.up = world.api.up /\ backup \in Backups
    <2> HIDE DEF born, age, event, old
    <2> QED BY <1>0, <1>1 DEF ApiStates, Backups
  <1> HIDE DEF api, backup
  <1>4. /\ world' \in Worlds /\ world'.api = api /\ world'.services = world.services
        /\ world'.origin = world.origin
    BY <1>0, <1>2, <1>3 DEF Worlds
  <1>5. down \in [Targets -> 0..MaxStreak]
    <2>1. \A n \in Nat : Cap(n, MaxStreak) \in 0..MaxStreak
      BY CapType, Constants
    <2>2. \A t \in Targets : ghost.down[t] + 1 \in Nat
      BY <1>0, GhostFields
    <2>3. ASSUME NEW t \in Targets PROVE Cap(ghost.down[t] + 1, MaxStreak) \in 0..MaxStreak
      <3> HIDE DEF down
      <3>1. ghost.down[t] + 1 \in Nat
        BY <2>2
      <3> QED BY <2>1, <3>1
    <2> QED BY <1>0, <2>3, GhostFields
  <1>6. ghost' = [ghost EXCEPT !.down = down]
    BY DEF Tick
  <1>7. ghost' \in Ghosts /\ ghost'.down = down /\ ghost'.polls = ghost.polls
    <2> HIDE DEF down
    <2> QED BY <1>0, <1>5, <1>6 DEF Ghosts, WorldTypes
  <1>8. Outage(world)' = Outage(world)
    BY <1>3, <1>4, OutageDepends
  <1> QED BY <1>0, <1>3, <1>4, <1>7, <1>8 DEF WorldTypes, Paced

\* A state one instant older is as good, with room for two more failures.
LEMMA AgedGood ==
  ASSUME MonitorInv, Tick, NEW s \in State, Good(s), NEW n, n = Aged(s)
  PROVE  /\ Good(n)' /\ Told(n) = Told(s) /\ n.pending = s.pending
         /\ \A t \in Outage(world)' : n.streaks[t] <= 2 * ghost'.down[t] - 2
  <1>0. /\ SameEpisode(s, n) /\ n.streaks = s.streaks /\ n.seen = s.seen
        /\ n.ruleStreak = s.ruleStreak /\ n \in State /\ WorldTypes
    BY AgedFields DEF MonitorInv
  <1>1. Sound(n) /\ Told(n) = Told(s) /\ n.pending = s.pending
    BY <1>0, ToldSame DEF Good, SameEpisode
  <1>2. Counted(n)'
    BY <1>0, TickWorld DEF Good, Counted
  <1>3. ASSUME NEW t \in Targets
        PROVE  /\ Fits(n, t)'
               /\ t \in Outage(world)' => n.streaks[t] <= 2 * ghost'.down[t] - 2
    <2>1. /\ s.streaks[t] \in 0..MaxStreak /\ ghost.down[t] \in 0..MaxStreak
          /\ s.streaks[t] <= 2 * ghost.down[t] /\ ghost.down[t] + 1 \in Nat
      BY <1>0, StateFields, GhostFields DEF Good, Fits
    <2>2. CASE t \in Outage(world)'
      <3>1. ghost'.down[t] = Cap(ghost.down[t] + 1, MaxStreak)
        BY <2>2, TickWorld
      <3>2. n.streaks[t] <= 2 * ghost'.down[t] - 2
        BY <1>0, <2>1, <3>1, OneMoreInstant
      <3>3. ghost'.down[t] \in 0..MaxStreak
        BY <2>1, <3>1, CapType, Constants
      <3>4. n.streaks[t] \in Int /\ ghost'.down[t] \in Int
        BY <1>0, <2>1, <3>3, Constants
      <3> QED BY <3>2, <3>4 DEF Fits
    <2>3. CASE t \notin Outage(world)'
      <3>1. ghost'.down[t] = ghost.down[t]
        BY <2>3, TickWorld
      <3> QED BY <1>0, <2>1, <2>3, <3>1 DEF Fits
    <2> QED BY <2>2, <2>3
  <1>4. Outage(world)' \subseteq Targets
    BY OutageFields
  <1>5. Good(n)'
    BY <1>1, <1>2, <1>3 DEF Good
  <1> QED BY <1>1, <1>3, <1>4, <1>5

\* A good value is a good state once it is on file, or once a run works on it.
LEMMA GoodOnFile ==
  ASSUME NEW n, Good(n)', file' = n
  PROVE  Good(file)'
  BY DEF Good, Sound, ValidState, Counted, Fits

LEMMA GoodInRun ==
  ASSUME NEW n, Good(n)', NEW p \in Runs, proc'[p].state = n
  PROVE  Good(proc[p].state)'
  BY DEF Good, Sound, ValidState, Counted, Fits

LEMMA ToldOnFile ==
  ASSUME NEW n, file' = n
  PROVE  Told(file)' = Told(n)
  BY DEF Told

LEMMA ToldInRun ==
  ASSUME NEW n, NEW p \in Runs, proc'[p].state = n
  PROVE  Told(proc[p].state)' = Told(n)
  BY DEF Told

LEMMA TickProc ==
  ASSUME RunTypes, Tick, NEW p \in Runs
  PROVE  /\ proc'[p] \in ProcStates
         /\ proc[p].pc = "idle" => proc'[p] = Idle
         /\ proc[p].pc # "idle" =>
              /\ proc'[p].pc = proc[p].pc /\ proc'[p].then = proc[p].then
              /\ proc'[p].signals = proc[p].signals /\ proc'[p].state = Aged(proc[p].state)
  <1>1. proc[p] \in ProcStates /\ proc[p].state \in State /\ proc[p].lag \in 0..MaxLag
    BY ProcFields
  <1>2. CASE proc[p].pc = "idle"
    BY <1>2, IdleType DEF Tick
  <1>3. CASE proc[p].pc # "idle"
    <2> DEFINE x == proc[p]
               n == Aged(x.state)
               lag == IF x.pc = "read" THEN x.lag + 1 ELSE x.lag
               y == [x EXCEPT !.state = n, !.lag = lag]
    <2>1. proc'[p] = y
      BY <1>3 DEF Tick
    <2>2. n \in State
      BY <1>1, AgedFields
    <2>3. lag \in 0..MaxLag
      <3>1. x.pc = "read" => x.lag < MaxLag
        BY DEF Tick
      <3> QED BY <1>1, <3>1, Constants
    <2>4. x \in ProcStates
      BY <1>1
    <2> HIDE DEF x, lag, n
    <2>5. y \in ProcStates /\ y.pc = x.pc /\ y.then = x.then /\ y.signals = x.signals /\ y.state = n
      BY <2>2, <2>3, <2>4 DEF ProcStates
    <2> HIDE DEF y
    <2> QED BY <1>3, <2>1, <2>5 DEF x, n
  <1> QED BY <1>2, <1>3

LEMMA TickKeeps ==
  ASSUME MonitorInv, Tick
  PROVE  MonitorInv'
  <1>0. /\ RunTypes /\ Exclusive /\ Good(file) /\ Reported /\ SamePollCountedOnce
        /\ \A p \in Runs : Working(p)
        /\ file' = Aged(file) /\ file \in State
        /\ UNCHANGED <<varying, corrupt, residue, lock, accepted, faults>>
    BY DEF MonitorInv, Tick, RunTypes
  <1>1. RunTypes'
    <2>1. file' \in State
      BY <1>0, AgedFields
    <2>2. proc' \in [Runs -> ProcStates]
      <3>1. proc' = [p \in Runs |-> proc'[p]]
        BY DEF Tick
      <3> QED BY <1>0, <3>1, TickProc
    <2> QED BY <1>0, <2>1, <2>2 DEF RunTypes
  <1>2. Exclusive'
    <2>1. \A p \in Runs : proc'[p].pc = proc[p].pc
      BY <1>0, TickProc, IdleType
    <2> QED BY <1>0, <2>1 DEF Exclusive
  <1>3. Good(file)' /\ Reported' /\ Early'
    <2>1. PICK n : n = Aged(file)
      OBVIOUS
    <2>2. /\ Good(n)' /\ Told(n) = Told(file) /\ n.pending = file.pending
          /\ \A t \in Outage(world)' : n.streaks[t] <= 2 * ghost'.down[t] - 2
      BY <1>0, <2>1, AgedGood
    <2>3. file' = n
      BY <1>0, <2>1
    <2>4. Good(file)' /\ Told(file)' = Told(file)
      BY <2>2, <2>3, GoodOnFile, ToldOnFile
    <2> QED BY <1>0, <2>2, <2>3, <2>4 DEF Reported, Early
  <1>4. ASSUME NEW p \in Runs PROVE Working(p)'
    <2>1. CASE proc[p].pc = "idle"
      BY <1>0, <2>1, TickProc, IdleType DEF Working
    <2>2. CASE proc[p].pc # "idle"
      <3>1. PICK s \in State : s = proc[p].state
        BY <1>0, ProcFields
      <3>2. PICK n : n = Aged(s)
        OBVIOUS
      <3>3. /\ proc'[p].pc = proc[p].pc /\ proc'[p].then = proc[p].then
            /\ proc'[p].state = n /\ n.pending = s.pending /\ Working(p)
            /\ file' = Aged(file)
        BY <1>0, <2>2, <3>1, <3>2, TickProc, AgedFields DEF SameEpisode
      <3>4. Good(s) => Good(n)' /\ Told(n) = Told(s)
        BY <3>2, AgedGood
      <3>5. CASE proc[p].pc \in {"write", "replace"}
        <4>1. Good(s) /\ accepted = Told(s)
          BY <3>1, <3>3, <3>5 DEF Working
        <4>2. Good(proc[p].state)' /\ accepted' = Told(proc[p].state)'
          BY <1>0, <3>3, <3>4, <4>1, GoodInRun, ToldInRun
        <4> QED BY <3>1, <3>3, <3>5, <4>2 DEF Working
      <3>6. CASE proc[p].pc \notin {"write", "replace"}
        BY <1>0, <3>1, <3>2, <3>3, <3>6 DEF Working
      <3> QED BY <3>5, <3>6
    <2> QED BY <2>1, <2>2
  <1>5. SamePollCountedOnce'
    <2>1. \A p \in Runs : proc'[p].signals = {} \/ proc'[p].signals = proc[p].signals
      BY <1>0, TickProc, IdleType
    <2>2. ghost'.polls = ghost.polls
      BY TickWorld
    <2> QED BY <1>0, <2>1, <2>2 DEF SamePollCountedOnce
  <1> QED BY <1>1, <1>2, <1>3, <1>4, <1>5, TickWorld DEF MonitorInv

(***************************************************************************)
(* The runs.                                                               *)
(***************************************************************************)
\* What a state is worth depends on the observed system alone.
LEMMA GoodStays ==
  ASSUME NEW n, Good(n), UNCHANGED outside
  PROVE  Good(n)'
  BY DEF Good, Counted, Fits, Outage, outside

RuleFailure == Signal("RECURRING_RULE_FAILURE", "CRITICAL")

LEMMA RunKeeps ==
  ASSUME MonitorInv, NEW p \in Runs, UNCHANGED outside, RunTypes', Exclusive',
         \A q \in Runs \ {p} : proc'[q] = proc[q],
         proc'[p].pc = "read" => proc'[p].lag = 0,
         UNCHANGED <<file, accepted>> \/ proc[p].pc \in Busy,
         Good(file)', Reported', Working(p)',
         RuleFailure \in proc'[p].signals => ghost.polls >= 3
  PROVE  MonitorInv'
  <1>0. /\ WorldTypes /\ Paced /\ Early /\ Exclusive /\ SamePollCountedOnce
        /\ \A q \in Runs : Working(q)
    BY DEF MonitorInv
  <1>1. WorldTypes' /\ Paced'
    BY <1>0 DEF WorldTypes, Paced, outside
  <1>2. SamePollCountedOnce'
    BY <1>0 DEF SamePollCountedOnce, RuleFailure, outside
  <1>3. Outage(world)' = Outage(world) /\ ghost' = ghost
    BY DEF outside, Outage
  <1>4. CASE UNCHANGED <<file, accepted>>
    <2>1. \A q \in Runs : Working(q)'
      <3>1. ASSUME NEW q \in Runs, q # p PROVE Working(q)'
        <4>1. proc'[q] = proc[q] /\ Working(q)
          BY <1>0, <3>1
        <4>2. Good(proc[q].state) => Good(proc[q].state)'
          BY <4>1 DEF Good, Sound, ValidState, Counted, Fits, Outage, outside
        <4>3. Told(proc[q].state)' = Told(proc[q].state)
          BY <4>1 DEF Told
        <4> QED BY <1>4, <4>1, <4>2, <4>3 DEF Working
      <3> QED BY <3>1
    <2>2. Early'
      <3>1. ASSUME NEW q \in Runs, NEW t \in Outage(world), proc'[q].pc = "read", proc'[q].lag > 0
            PROVE  file.streaks[t] <= 2 * ghost.down[t] - 2
        <4>1. proc'[q] = proc[q] \/ q = p
          OBVIOUS
        <4>2. CASE q = p
          BY <3>1, <4>2
        <4>3. CASE q # p
          BY <1>0, <3>1, <4>1, <4>3 DEF Early
        <4> QED BY <4>2, <4>3
      <3> QED BY <1>3, <1>4, <3>1 DEF Early
    <2> QED BY <1>1, <1>2, <2>1, <2>2 DEF MonitorInv
  <1>5. CASE proc[p].pc \in Busy
    <2>1. \A q \in Runs \ {p} : proc'[q].pc \notin Busy
      BY <1>0, <1>5 DEF Exclusive
    <2>2. \A q \in Runs : Working(q)'
      BY <2>1 DEF Working, Busy
    <2>3. Early'
      BY <2>1 DEF Early, Busy
    <2> QED BY <1>1, <1>2, <2>2, <2>3 DEF MonitorInv
  <1> QED BY <1>4, <1>5

\* A run ends: the lock is free if it was the run's.
LEMMA EndsKeeps ==
  ASSUME MonitorInv, NEW p \in Runs, Ends(p), UNCHANGED <<outside, corrupt>>,
         residue' \subseteq Runs, faults' \in 0..MaxFaults, file' \in State, accepted' \subseteq Events,
         UNCHANGED <<file, accepted>> \/ proc[p].pc \in Busy,
         Good(file)', Reported'
  PROVE  MonitorInv'
  <1>0. RunTypes /\ Exclusive /\ proc \in [Runs -> ProcStates]
    BY DEF MonitorInv, RunTypes
  <1>1. proc' = [proc EXCEPT ![p] = Idle] /\ lock' = lock \ {p}
    BY DEF Ends
  <1>2. proc' \in [Runs -> ProcStates] /\ proc'[p] = Idle /\ \A q \in Runs \ {p} : proc'[q] = proc[q]
    BY <1>0, <1>1, IdleType
  <1>3. RunTypes'
    BY <1>0, <1>1, <1>2 DEF RunTypes, outside
  <1>4. proc'[p].pc = "idle" /\ proc'[p].signals = {}
    BY <1>2, IdleType
  <1>5. Exclusive'
    <2>1. lock' = {} \/ \E q \in Runs : lock' = {q}
      BY <1>0, <1>1 DEF Exclusive
    <2>2. \A q \in Runs : proc'[q].pc \in Busy <=> q \in lock'
      BY <1>0, <1>1, <1>2, <1>4 DEF Exclusive, Busy
    <2> QED BY <2>1, <2>2 DEF Exclusive
  <1>6. Working(p)'
    BY <1>4 DEF Working
  <1>7. UNCHANGED outside
    OBVIOUS
  <1> QED BY <1>2, <1>3, <1>4, <1>5, <1>6, <1>7, RunKeeps

\* A run that holds the lock goes on.
LEMMA BusyKeeps ==
  ASSUME MonitorInv, NEW p \in Runs, proc[p].pc \in Busy, NEW v \in ProcStates,
         proc' = [proc EXCEPT ![p] = v], v.pc \in Busy, v.pc = "read" => v.lag = 0,
         UNCHANGED <<outside, corrupt, lock, faults>>,
         residue' \subseteq Runs, file' \in State, accepted' \subseteq Events,
         Good(file)', Reported', Working(p)', RuleFailure \in v.signals => ghost.polls >= 3
  PROVE  MonitorInv'
  <1>0. RunTypes /\ Exclusive /\ proc \in [Runs -> ProcStates]
    BY DEF MonitorInv, RunTypes
  <1>1. proc' \in [Runs -> ProcStates] /\ proc'[p] = v /\ \A q \in Runs \ {p} : proc'[q] = proc[q]
    BY <1>0
  <1>2. RunTypes'
    BY <1>0, <1>1 DEF RunTypes, outside
  <1>3. Exclusive'
    BY <1>0, <1>1 DEF Exclusive
  <1>4. UNCHANGED outside
    OBVIOUS
  <1> QED BY <1>1, <1>2, <1>3, <1>4, RunKeeps

\* What a run that holds the lock may count on.
LEMMA BusyRun ==
  ASSUME MonitorInv, NEW p \in Runs
  PROVE  /\ RunTypes /\ WorldTypes /\ Working(p) /\ Good(file) /\ Reported /\ file \in State
         /\ proc[p] \in ProcStates /\ proc[p].state \in State /\ proc[p].lag \in 0..MaxLag
         /\ (RuleFailure \in proc[p].signals => ghost.polls >= 3)
         /\ accepted \subseteq Events /\ residue \subseteq Runs /\ faults \in 0..MaxFaults
  BY ProcFields DEF MonitorInv, RunTypes, SamePollCountedOnce, RuleFailure

\* A run leaves the file as it is.
LEMMA FileKept ==
  ASSUME MonitorInv, UNCHANGED <<outside, file>>
  PROVE  Good(file)' /\ Told(file)' = Told(file)
  <1>1. Good(file)
    BY DEF MonitorInv
  <1> QED BY <1>1 DEF Good, Sound, ValidState, Counted, Fits, Outage, outside, Told

LEMMA StartKeeps ==
  ASSUME MonitorInv, NEW p \in Runs, Start(p)
  PROVE  MonitorInv'
  <1>0. RunTypes /\ Exclusive /\ proc \in [Runs -> ProcStates] /\ proc[p].pc = "idle" /\ Reported
        /\ UNCHANGED <<outside, file, corrupt, residue, lock, accepted, faults>>
    BY DEF MonitorInv, RunTypes, Start
  <1> DEFINE v == [proc[p] EXCEPT !.pc = "lock"]
  <1>1. proc' = [proc EXCEPT ![p] = v]
    BY <1>0 DEF Start, Goto
  <1>2. v \in ProcStates /\ v.pc = "lock" /\ v.signals = proc[p].signals
    BY <1>0 DEF ProcStates
  <1> HIDE DEF v
  <1>3. proc' \in [Runs -> ProcStates] /\ proc'[p] = v /\ \A q \in Runs \ {p} : proc'[q] = proc[q]
    BY <1>0, <1>1, <1>2
  <1>4. RunTypes'
    BY <1>0, <1>3 DEF RunTypes, outside
  <1>5. Exclusive'
    BY <1>0, <1>2, <1>3 DEF Exclusive, Busy
  <1>6. Working(p)'
    BY <1>2, <1>3 DEF Working
  <1>7. Good(file)' /\ Reported'
    BY <1>0, FileKept DEF Reported
  <1>8. RuleFailure \in proc'[p].signals => ghost.polls >= 3
    BY <1>2, <1>3, BusyRun
  <1> QED BY <1>0, <1>2, <1>3, <1>4, <1>5, <1>6, <1>7, <1>8, RunKeeps

LEMMA LoadKeeps ==
  ASSUME MonitorInv, NEW p \in Runs, Load(p)
  PROVE  MonitorInv'
  <1>0. /\ RunTypes /\ Exclusive /\ proc \in [Runs -> ProcStates] /\ proc[p].pc = "lock" /\ Reported
        /\ UNCHANGED <<outside, file, corrupt, residue, accepted, faults>>
        /\ file \in State /\ accepted \subseteq Events /\ faults \in 0..MaxFaults /\ residue \subseteq Runs
    BY DEF MonitorInv, RunTypes, Load
  <1>1. Good(file)' /\ Reported'
    BY <1>0, FileKept DEF Reported
  <1>2. CASE lock # {} \/ corrupt \/ ~ValidState(file)
    <2>1. Ends(p)
      BY <1>2 DEF Load
    <2> QED BY <1>0, <1>1, <2>1, EndsKeeps
  <1>3. CASE ~(lock # {} \/ corrupt \/ ~ValidState(file))
    <2> DEFINE pc == IF file.pending # None THEN "send" ELSE "observe"
               v == [proc[p] EXCEPT !.state = file, !.then = "observe", !.pc = pc]
    <2>1. lock' = {p} /\ lock = {} /\ proc' = [proc EXCEPT ![p] = v]
      BY <1>0, <1>3 DEF Load
    <2>2. pc \in Busy /\ pc # "read" /\ pc \in {"send", "observe"}
      BY DEF Busy
    <2>3. /\ v \in ProcStates /\ v.pc = pc /\ v.signals = proc[p].signals /\ v.state = file
          /\ v.then = "observe"
      <3> HIDE DEF pc
      <3> QED BY <1>0, <2>2 DEF ProcStates
    <2> HIDE DEF v
    <2>4. proc' \in [Runs -> ProcStates] /\ proc'[p] = v /\ \A q \in Runs \ {p} : proc'[q] = proc[q]
      BY <1>0, <2>1, <2>3
    <2>5. RunTypes'
      BY <1>0, <2>1, <2>4 DEF RunTypes, outside
    <2>6. Exclusive'
      <3> HIDE DEF pc
      <3> QED BY <1>0, <2>1, <2>2, <2>3, <2>4 DEF Exclusive
    <2>7. Working(p)'
      BY <1>0, <2>3, <2>4 DEF Working
    <2>8. RuleFailure \in proc'[p].signals => ghost.polls >= 3
      BY <2>3, <2>4, BusyRun
    <2> QED BY <1>0, <1>1, <2>2, <2>3, <2>4, <2>5, <2>6, <2>7, <2>8, RunKeeps
  <1> QED BY <1>2, <1>3

LEMMA SendAcceptedKeeps ==
  ASSUME MonitorInv, NEW p \in Runs, SendAccepted(p)
  PROVE  MonitorInv'
  <1>0. /\ proc[p].pc = "send" /\ proc[p].pc \in Busy
        /\ UNCHANGED <<outside, file, corrupt, residue, lock, faults>>
        /\ accepted' = accepted \union {proc[p].state.pending}
    BY DEF SendAccepted, Busy
  <1>1. PICK s \in State : s = proc[p].state
    BY BusyRun
  <1>2. /\ s = file /\ s.pending # None /\ proc[p].then \in {"observe", "done"} /\ Good(s)
        /\ accepted' = Told(s) \union {s.pending}
    BY <1>0, <1>1, BusyRun DEF Working, Reported
  <1>3. PICK n : n = Finalized(s)
    OBVIOUS
  <1>4. n \in State /\ SameCounts(s, n) /\ n.pending = None
    BY <1>2, <1>3, FinalizedFields
  <1>5. Told(n) = Told(s) \union {s.pending} /\ Sound(n)
    BY <1>2, <1>3, ToldFinalized DEF Good
  <1>6. Good(n)'
    <2>1. Good(n)
      BY <1>2, <1>4, <1>5 DEF Good, Counted, Fits, SameCounts
    <2> QED BY <1>0, <2>1, GoodStays
  <1> DEFINE v == [proc[p] EXCEPT !.state = n, !.pc = "write"]
  <1>7. proc' = [proc EXCEPT ![p] = v]
    BY <1>1, <1>3 DEF SendAccepted
  <1>8. /\ v \in ProcStates /\ v.pc = "write" /\ v.state = n /\ v.then = proc[p].then
        /\ v.signals = proc[p].signals
    BY <1>4, BusyRun DEF ProcStates
  <1> HIDE DEF v
  <1>9. proc'[p] = v
    BY <1>7, BusyRun DEF RunTypes
  <1>10. Working(p)'
    <2>1. Good(proc[p].state)' /\ Told(proc[p].state)' = Told(n)
      BY <1>6, <1>8, <1>9, GoodInRun, ToldInRun
    <2> QED BY <1>2, <1>4, <1>5, <1>8, <1>9, <2>1 DEF Working
  <1>11. Good(file)' /\ Reported'
    BY <1>0, <1>2, FileKept DEF Reported
  <1>12. file' \in State /\ accepted' \subseteq Events /\ residue' \subseteq Runs
    <2>1. s.pending \in Events
      BY <1>2, StateFields
    <2> QED BY <1>0, <1>1, <2>1, BusyRun
  <1>13. v.pc \in Busy
    BY <1>8 DEF Busy
  <1>14. v.pc # "read"
    BY <1>8
  <1>15. RuleFailure \in v.signals => ghost.polls >= 3
    BY <1>8, BusyRun
  <1> QED BY <1>0, <1>7, <1>8, <1>10, <1>11, <1>12, <1>13, <1>14, <1>15, BusyKeeps

LEMMA SendRefusedKeeps ==
  ASSUME MonitorInv, NEW p \in Runs, SendRefused(p)
  PROVE  MonitorInv'
  <1>0. /\ proc[p].pc = "send" /\ proc[p].pc \in Busy /\ Ends(p)
        /\ UNCHANGED <<outside, file, corrupt, residue, faults>>
        /\ accepted' = accepted \/ accepted' = accepted \union {proc[p].state.pending}
    BY DEF SendRefused, Busy
  <1>1. proc[p].state = file /\ file.pending # None
    BY <1>0, BusyRun DEF Working
  <1>2. Good(file)' /\ Told(file)' = Told(file)
    BY <1>0, FileKept
  <1>3. Reported'
    BY <1>0, <1>1, <1>2, BusyRun DEF Reported
  <1>4. file.pending \in Events
    BY <1>1, BusyRun, StateFields
  <1>5. file' \in State /\ accepted' \subseteq Events /\ residue' \subseteq Runs /\ faults' \in 0..MaxFaults
    BY <1>0, <1>1, <1>4, BusyRun
  <1> QED BY <1>0, <1>2, <1>3, <1>5, EndsKeeps

LEMMA CollectFailsKeeps ==
  ASSUME MonitorInv, NEW p \in Runs,
         Ends(p), UNCHANGED <<outside, file, corrupt, residue, accepted>>, faults' \in 0..MaxFaults
  PROVE  MonitorInv'
  <1>1. Good(file)' /\ Told(file)' = Told(file)
    BY FileKept
  <1>2. Reported'
    BY <1>1, BusyRun DEF Reported
  <1>3. file' \in State /\ accepted' \subseteq Events /\ residue' \subseteq Runs
    BY BusyRun
  <1> QED BY <1>1, <1>2, <1>3, EndsKeeps

LEMMA KillKeeps ==
  ASSUME MonitorInv, NEW p \in Runs, Kill(p)
  PROVE  MonitorInv'
  <1>1. Ends(p) /\ UNCHANGED <<outside, file, corrupt, residue, accepted>>
    BY DEF Kill
  <1>2. faults' \in 0..MaxFaults
    <2>1. faults \in 0..MaxFaults /\ faults < MaxFaults /\ faults' = faults + 1
      BY BusyRun DEF Kill
    <2> QED BY <2>1, Constants
  <1> QED BY <1>1, <1>2, CollectFailsKeeps

LEMMA StampKeeps ==
  ASSUME MonitorInv, NEW p \in Runs, Stamp(p)
  PROVE  MonitorInv'
  <1>0. /\ proc[p].pc = "observe" /\ proc[p].pc \in Busy
        /\ UNCHANGED <<outside, file, corrupt, residue, lock, accepted, faults>>
    BY DEF Stamp, Busy
  <1> DEFINE v == [proc[p] EXCEPT !.pc = "read", !.lag = 0]
  <1>1. proc' = [proc EXCEPT ![p] = v]
    BY DEF Stamp
  <1>2. /\ v \in ProcStates /\ v.pc = "read" /\ v.lag = 0 /\ v.state = proc[p].state
        /\ v.then = proc[p].then /\ v.signals = proc[p].signals
    <2>1. 0 \in 0..MaxLag /\ proc[p] \in ProcStates
      BY BusyRun, Constants
    <2> QED BY <2>1 DEF ProcStates
  <1> HIDE DEF v
  <1>3. proc'[p] = v
    BY <1>1, BusyRun DEF RunTypes
  <1>4. Working(p)'
    BY <1>0, <1>2, <1>3, BusyRun DEF Working
  <1>5. Good(file)' /\ Reported'
    BY <1>0, FileKept, BusyRun DEF Reported
  <1>6. file' \in State /\ accepted' \subseteq Events /\ residue' \subseteq Runs
    BY <1>0, BusyRun
  <1>7. v.pc \in Busy
    BY <1>2 DEF Busy
  <1>8. RuleFailure \in v.signals => ghost.polls >= 3
    BY <1>2, BusyRun
  <1> QED BY <1>0, <1>1, <1>2, <1>4, <1>5, <1>6, <1>7, <1>8, BusyKeeps

LEMMA WriteTempKeeps ==
  ASSUME MonitorInv, NEW p \in Runs, WriteTemp(p)
  PROVE  MonitorInv'
  <1>0. /\ proc[p].pc = "write" /\ proc[p].pc \in Busy /\ residue' = residue \union {p}
        /\ UNCHANGED <<outside, file, corrupt, lock, accepted, faults>>
    BY DEF WriteTemp, Busy
  <1> DEFINE v == [proc[p] EXCEPT !.pc = "replace"]
  <1>1. proc' = [proc EXCEPT ![p] = v]
    BY DEF WriteTemp, Goto
  <1>2. /\ v \in ProcStates /\ v.pc = "replace" /\ v.state = proc[p].state
        /\ v.then = proc[p].then /\ v.signals = proc[p].signals
    BY BusyRun, Constants DEF ProcStates
  <1> HIDE DEF v
  <1>3. proc'[p] = v
    BY <1>1, BusyRun DEF RunTypes
  <1>4. Working(p)'
    <2>1. PICK s \in State : s = proc[p].state
      BY BusyRun
    <2>2. Good(s) /\ accepted = Told(s) /\ (IF s.pending # None THEN proc[p].then = "send"
                                            ELSE proc[p].then \in {"observe", "done"})
      BY <1>0, <2>1, BusyRun DEF Working
    <2>3. proc'[p].state = s
      BY <1>2, <1>3, <2>1
    <2>4. Good(proc[p].state)' /\ Told(proc[p].state)' = Told(s)
      BY <1>0, <2>2, <2>3, GoodStays, GoodInRun, ToldInRun
    <2> QED BY <1>0, <1>2, <1>3, <2>2, <2>3, <2>4 DEF Working
  <1>5. Good(file)' /\ Reported'
    BY <1>0, FileKept, BusyRun DEF Reported
  <1>6. file' \in State /\ accepted' \subseteq Events /\ residue' \subseteq Runs
    BY <1>0, BusyRun
  <1>7. v.pc \in Busy /\ v.pc # "read"
    BY <1>2 DEF Busy
  <1>8. RuleFailure \in v.signals => ghost.polls >= 3
    BY <1>2, BusyRun
  <1> QED BY <1>0, <1>1, <1>2, <1>4, <1>5, <1>6, <1>7, <1>8, BusyKeeps

\* What a run replaces the file by.
LEMMA Replacement ==
  ASSUME MonitorInv, NEW p \in Runs, proc[p].pc = "replace"
  PROVE  \E s \in State : /\ s = proc[p].state /\ Good(s) /\ accepted = Told(s)
                          /\ IF s.pending # None THEN proc[p].then = "send"
                             ELSE proc[p].then \in {"observe", "done"}
  <1>1. PICK s \in State : s = proc[p].state
    BY BusyRun
  <1> QED BY <1>1, BusyRun DEF Working

LEMMA SaveFailsKeeps ==
  ASSUME MonitorInv, NEW p \in Runs, SaveFails(p)
  PROVE  MonitorInv'
  <1>0. /\ proc[p].pc = "replace" /\ proc[p].pc \in Busy /\ residue' = residue \ {p} /\ Ends(p)
        /\ file' = file \/ file' = proc[p].state
        /\ UNCHANGED <<outside, corrupt, accepted>>
    BY DEF SaveFails, Busy
  <1>1. faults' \in 0..MaxFaults
    <2>1. faults \in 0..MaxFaults /\ faults < MaxFaults /\ faults' = faults + 1
      BY BusyRun DEF SaveFails
    <2> QED BY <2>1, Constants
  <1>2. PICK s \in State : s = proc[p].state /\ Good(s) /\ accepted = Told(s)
    BY <1>0, Replacement
  <1>3. Good(file)' /\ Reported'
    <2>1. CASE file' = file
      BY <1>0, <2>1, FileKept, BusyRun DEF Reported
    <2>2. CASE file' = s
      BY <1>0, <1>2, <2>2, GoodStays, GoodOnFile, ToldOnFile DEF Reported
    <2> QED BY <1>0, <1>2, <2>1, <2>2
  <1>4. file' \in State /\ accepted' \subseteq Events /\ residue' \subseteq Runs
    BY <1>0, <1>2, BusyRun
  <1> QED BY <1>0, <1>1, <1>3, <1>4, EndsKeeps

LEMMA ReplaceKeeps ==
  ASSUME MonitorInv, NEW p \in Runs, Replace(p)
  PROVE  MonitorInv'
  <1>0. /\ proc[p].pc = "replace" /\ proc[p].pc \in Busy /\ residue' = residue \ {p}
        /\ file' = proc[p].state /\ UNCHANGED <<outside, corrupt, accepted, faults>>
    BY DEF Replace, Busy
  <1>1. PICK s \in State : /\ s = proc[p].state /\ Good(s) /\ accepted = Told(s)
                           /\ IF s.pending # None THEN proc[p].then = "send"
                              ELSE proc[p].then \in {"observe", "done"}
    BY <1>0, Replacement
  <1>2. Good(file)' /\ Reported'
    BY <1>0, <1>1, GoodStays, GoodOnFile, ToldOnFile DEF Reported
  <1>3. file' \in State /\ accepted' \subseteq Events /\ residue' \subseteq Runs /\ faults' \in 0..MaxFaults
    BY <1>0, <1>1, BusyRun
  <1>4. CASE proc[p].then = "done"
    <2>1. Ends(p)
      BY <1>4 DEF Replace
    <2> QED BY <1>0, <1>2, <1>3, <2>1, EndsKeeps
  <1>5. CASE proc[p].then = "send"
    <2> DEFINE v == [proc[p] EXCEPT !.pc = "send", !.then = "done"]
    <2>1. proc' = [proc EXCEPT ![p] = v] /\ UNCHANGED lock
      BY <1>5 DEF Replace
    <2>2. /\ v \in ProcStates /\ v.pc = "send" /\ v.then = "done" /\ v.state = s
          /\ v.signals = proc[p].signals
      BY <1>1, BusyRun DEF ProcStates
    <2> HIDE DEF v
    <2>3. proc'[p] = v
      BY <2>1, BusyRun DEF RunTypes
    <2>4. Working(p)'
      BY <1>0, <1>1, <1>5, <2>2, <2>3 DEF Working
    <2>5. v.pc \in Busy /\ v.pc # "read"
      BY <2>2 DEF Busy
    <2>6. RuleFailure \in v.signals => ghost.polls >= 3
      BY <2>2, BusyRun
    <2> QED BY <1>0, <1>2, <1>3, <2>1, <2>2, <2>4, <2>5, <2>6, BusyKeeps
  <1>6. CASE proc[p].then = "observe"
    <2> DEFINE v == [proc[p] EXCEPT !.pc = "observe"]
    <2>1. proc' = [proc EXCEPT ![p] = v] /\ UNCHANGED lock
      BY <1>6 DEF Replace, Goto
    <2>2. /\ v \in ProcStates /\ v.pc = "observe" /\ v.then = "observe" /\ v.state = s
          /\ v.signals = proc[p].signals
      BY <1>1, <1>6, BusyRun DEF ProcStates
    <2> HIDE DEF v
    <2>3. proc'[p] = v
      BY <2>1, BusyRun DEF RunTypes
    <2>4. Working(p)'
      BY <1>0, <1>1, <1>6, <2>2, <2>3 DEF Working
    <2>5. v.pc \in Busy /\ v.pc # "read"
      BY <2>2 DEF Busy
    <2>6. RuleFailure \in v.signals => ghost.polls >= 3
      BY <2>2, BusyRun
    <2> QED BY <1>0, <1>2, <1>3, <2>1, <2>2, <2>4, <2>5, <2>6, BusyKeeps
  <1> QED BY <1>1, <1>4, <1>5, <1>6

(***************************************************************************)
(* What a run concludes from an observation.                               *)
(***************************************************************************)
\* Only a streak of three reports a rule failure as critical.
LEMMA CriticalRuleFailure ==
  ASSUME NEW n, NEW w \in Worlds, NEW l, RuleFailure \in AllSignals(n, Snapshot(w, l))
  PROVE  n.ruleStreak >= 3
  <1> DEFINE o == Snapshot(w, l)
  <1>1. RuleFailure.code = "RECURRING_RULE_FAILURE" /\ RuleFailure.severity = "CRITICAL"
    BY DEF RuleFailure, Signal
  <1>2. RuleFailure \notin TargetSignals(n)
    BY <1>1 DEF TargetSignals
  <1>3. RuleFailure \notin DiskSignals(o)
    <2> HIDE DEF o, RuleFailure
    <2>1. \A x \in DiskSignals(o) : x.code \in {"FILESYSTEM_UNAVAILABLE", "DISK_USAGE_CRITICAL", "DISK_USAGE_WARNING"}
      BY DEF DiskSignals, Signal
    <2> QED BY <1>1, <2>1
  <1>4. RuleFailure \notin BackupSignals(o)
    <2>1. o.backup.marker \in {"VALID", "MISSING", "INVALID", "UNAVAILABLE"}
      <3>1. w.backup \in Backups /\ o.backup = BackupStatus(w.backup, l)
        BY WorldFields DEF Snapshot
      <3> HIDE DEF o
      <3> QED BY <3>1 DEF BackupStatus, Backups
    <2> HIDE DEF o, RuleFailure
    <2>2. \A x \in BackupSignals(o) :
            x.code \in {"BACKUP_MISSING", "BACKUP_INVALID", "BACKUP_UNAVAILABLE", "BACKUP_STALE",
                        "BACKUP_INVENTORY_WARNING"}
      BY <2>1 DEF BackupSignals, BackupCode, Signal
    <2> QED BY <1>1, <2>2
  <1>5. RuleFailure \in RecurringSignals(n, o)
    BY <1>2, <1>3, <1>4 DEF AllSignals
  <1>6. n.ruleStreak >= 3
    <2> DEFINE r == o.recurring
    <2>1. r.reachable \in BOOLEAN
          /\ (r.reachable => r.enabled \in BOOLEAN /\ r.succeeded \in BOOLEAN /\ r.done \in Nat)
      <3>1. w.api \in ApiStates /\ r = RecurringStatus(w)
        BY WorldFields DEF Snapshot
      <3>2. w.api.enabled \in BOOLEAN /\ w.api.succeeded \in BOOLEAN /\ w.api.done \in Nat
        BY <3>1, WorldFields DEF ApiStates
      <3> HIDE DEF r
      <3> QED BY <3>1, <3>2 DEF RecurringStatus, Answer, Unreachable
    <2> HIDE DEF o, RuleFailure
    <2>2. \A x \in RecurringSignals(n, o) :
            \/ x.code \in {"RECURRING_NOT_RUNNING", "RECURRING_EXECUTION_FAILED",
                           "RECURRING_STARTING", "RECURRING_STALE"}
            \/ n.ruleStreak >= 3 \/ x.severity = "WARN"
      <3> SUFFICES ASSUME NEW x \in RecurringSignals(n, o), ~(n.ruleStreak >= 3)
                   PROVE  \/ x.code \in {"RECURRING_NOT_RUNNING", "RECURRING_EXECUTION_FAILED",
                                         "RECURRING_STARTING", "RECURRING_STALE"}
                          \/ x.severity = "WARN"
        OBVIOUS
      <3>1. r.reachable /\ r.enabled \in BOOLEAN /\ r.succeeded \in BOOLEAN /\ r.done \in Nat
        BY <2>1 DEF RecurringSignals
      <3>2. \/ r.done = 0
            \/ r.done > 0
        BY <3>1
      <3> HIDE DEF r
      <3>3. CASE ~r.enabled
        BY <3>1, <3>3 DEF RecurringSignals, Signal, r
      <3>4. CASE r.enabled /\ r.done > 0 /\ ~r.succeeded
        BY <3>1, <3>4 DEF RecurringSignals, Signal, r
      <3>5. CASE r.enabled /\ r.done = 0
        BY <3>1, <3>5 DEF RecurringSignals, Signal, r
      <3>6. CASE r.enabled /\ r.done > 0 /\ r.succeeded
        BY <3>1, <3>6 DEF RecurringSignals, Signal, r
      <3> QED BY <3>1, <3>2, <3>3, <3>4, <3>5, <3>6
    <2> QED BY <1>1, <1>5, <2>2
  <1> QED BY <1>6

\* The failures that the evaluation counts: one more for the targets that fail.
LEMMA EvaluatedFits ==
  ASSUME WorldTypes, NEW s \in State, Good(s), NEW l \in 0..MaxLag, s.observed > l,
         l > 0 => \A t \in Outage(world) : s.streaks[t] <= 2 * ghost.down[t] - 2,
         NEW n, n.observed = l, n.streaks = NextStreaks(s, Snapshot(world, l)), NEW t \in Targets
  PROVE  Fits(n, t)
  <1>1. /\ s.streaks[t] \in 0..MaxStreak /\ s.streaks[t] \in Nat /\ s.streaks[t] + 1 \in Nat
        /\ ghost.down[t] \in Nat /\ l \in Nat /\ s.observed \in Nat /\ Fits(s, t)
    BY StateFields, GhostFields, Constants DEF Good
  <1>2. n.streaks[t] = (IF t \in Outage(world) THEN Cap(s.streaks[t] + 1, MaxStreak) ELSE 0)
    BY OutageFields DEF NextStreaks
  <1>3. CASE t \notin Outage(world)
    BY <1>1, <1>2, <1>3 DEF Fits
  <1>4. CASE t \in Outage(world)
    <2>1. n.streaks[t] <= s.streaks[t] + 1 /\ n.streaks[t] \in Int
      <3> DEFINE c == Cap(s.streaks[t] + 1, MaxStreak)
      <3>1. c \in 0..MaxStreak /\ c <= s.streaks[t] + 1
        BY <1>1, CapType, Constants
      <3>2. n.streaks[t] = c
        BY <1>2, <1>4
      <3> HIDE DEF c
      <3> QED BY <3>1, <3>2, Constants
    <2>2. CASE l = 0
      BY <1>1, <1>4, <2>1, <2>2 DEF Fits
    <2>3. CASE l > 0
      BY <1>1, <1>4, <2>1, <2>3 DEF Fits
    <2> QED BY <1>1, <2>2, <2>3
  <1> QED BY <1>3, <1>4

\* The polls that the evaluation counts.
LEMMA EvaluatedCounts ==
  ASSUME WorldTypes, Paced, NEW s \in State, Counted(s), NEW l, NEW n,
         LET r == Snapshot(world, l).recurring IN
         /\ r.reachable /\ r.done > 0 => r.done >= s.seen
         /\ n.seen = (IF r.reachable THEN r.done ELSE s.seen)
         /\ n.ruleStreak = NextRuleStreak(s, Snapshot(world, l))
  PROVE  Counted(n)
  <1> DEFINE o == Snapshot(world, l)
             r == o.recurring
  <1>1. /\ r.reachable \in BOOLEAN /\ (r.reachable => r.done \in Nat /\ r.done <= ghost.polls)
        /\ s.ruleStreak \in Nat /\ s.seen \in Nat /\ ghost.polls \in Nat /\ s.ruleStreak + 1 \in Nat
        /\ s.ruleStreak <= s.seen /\ s.seen <= ghost.polls
    BY RecurringFields, WorldFields, StateFields, GhostFields DEF WorldTypes, Paced, Counted
  <1>2. Cap(s.ruleStreak + 1, MaxStreak) <= s.ruleStreak + 1 /\ Cap(s.ruleStreak + 1, MaxStreak) \in Int
    <2> DEFINE c == Cap(s.ruleStreak + 1, MaxStreak)
    <2>1. c \in 0..MaxStreak /\ c <= s.ruleStreak + 1
      BY <1>1, CapType, Constants
    <2> HIDE DEF c
    <2>2. c \in Int
      BY <2>1, Constants
    <2> QED BY <2>1, <2>2 DEF c
  <1>3. /\ r.reachable /\ r.done > 0 => r.done >= s.seen
        /\ n.seen = (IF r.reachable THEN r.done ELSE s.seen)
        /\ n.ruleStreak = NextRuleStreak(s, o)
    OBVIOUS
  <1> HIDE DEF o
  <1>4. CASE ~r.reachable
    BY <1>1, <1>3, <1>4 DEF NextRuleStreak, Counted
  <1>5. CASE r.reachable /\ r.done = 0
    BY <1>1, <1>3, <1>5 DEF NextRuleStreak, Counted
  <1>6. CASE r.reachable /\ r.done > 0 /\ r.done <= s.seen
    BY <1>1, <1>3, <1>6 DEF NextRuleStreak, Counted
  <1>7. CASE r.reachable /\ r.done > 0 /\ ~(r.done <= s.seen)
    BY <1>1, <1>2, <1>3, <1>7 DEF NextRuleStreak, Counted
  <1> QED BY <1>1, <1>4, <1>5, <1>6, <1>7

LEMMA ObserveKeeps ==
  ASSUME MonitorInv, NEW p \in Runs, Observe(p)
  PROVE  MonitorInv'
  <1>0. /\ proc[p].pc = "read" /\ proc[p].pc \in Busy
        /\ UNCHANGED <<outside, file, corrupt, residue, accepted, faults>>
    BY DEF Observe, Busy
  <1>1. /\ proc[p].state = file /\ file.pending = None /\ proc[p].then = "observe"
        /\ file \in State /\ Good(file) /\ Early /\ Paced /\ WorldTypes /\ world \in Worlds
        /\ proc[p].lag \in 0..MaxLag /\ accepted = Told(file)
    BY <1>0, BusyRun DEF Working, Reported, MonitorInv, WorldTypes
  <1> DEFINE l == proc[p].lag
             o == Snapshot(world, l)
             e == Evaluated(file, o)
             n == Prepared(e, o)
             then == IF n.pending # None THEN "send" ELSE "done"
             v == [proc[p] EXCEPT !.state = n, !.signals = AllSignals(n, o), !.pc = "write",
                                  !.lag = 0, !.then = then]
  <1>2. CASE Ends(p)
    <2>1. faults' \in 0..MaxFaults
      BY <1>0, BusyRun
    <2> QED BY <1>0, <1>2, <2>1, CollectFailsKeeps
  <1>3. CASE ~Ends(p)
    <2>1. /\ Evaluable(file, o) /\ n.sequence <= MaxEpisodes /\ proc' = [proc EXCEPT ![p] = v]
          /\ UNCHANGED lock
      BY <1>1, <1>3 DEF Observe
    <2>2. /\ e \in State /\ e.observed = l /\ e.streaks = NextStreaks(file, o)
          /\ e.seen = (IF o.recurring.reachable THEN o.recurring.done ELSE file.seen)
          /\ e.ruleStreak = NextRuleStreak(file, o)
          /\ e.sequence = file.sequence /\ e.active = file.active /\ e.pending = file.pending
      BY <1>1, EvaluatedFields
    <2> HIDE DEF e
    <2>3. /\ n \in State /\ SameCounts(e, n)
          /\ Alerted(e, n) \/ Recovered(e, n) \/ SameEpisode(e, n)
      BY <2>1, <2>2, PreparedFields
    <2> HIDE DEF n
    <2>4. o.lag = l /\ \A x \in Worlds, i \in 0..MaxLag, m \in State : AllSignals(m, Snapshot(x, i)) \in Results
      BY OutageFields DEF Results
    <2>5. file.observed > l /\ (o.recurring.reachable /\ o.recurring.done > 0 => o.recurring.done >= file.seen)
      BY <2>1, <2>4 DEF Evaluable
    <2>6. AllSignals(n, o) \in Results
      BY <1>1, <2>3, <2>4
    <2>7. Told(n) = Told(file) /\ Sound(n)
      <3>1. Told(e) = Told(file) /\ Sound(e)
        BY <1>1, <2>2, ToldSame DEF SameEpisode, Good
      <3> QED BY <1>1, <2>2, <2>3, <3>1, ToldPrepared
    <2>8. /\ n.observed = l /\ n.streaks = NextStreaks(file, o)
          /\ n.seen = (IF o.recurring.reachable THEN o.recurring.done ELSE file.seen)
          /\ n.ruleStreak = NextRuleStreak(file, o)
      BY <2>2, <2>3 DEF SameCounts
    <2>9. \A t \in Targets : Fits(n, t)
      <3>1. l > 0 => \A t \in Outage(world) : file.streaks[t] <= 2 * ghost.down[t] - 2
        BY <1>0, <1>1 DEF Early
      <3> QED BY <1>1, <2>5, <2>8, <3>1, EvaluatedFits
    <2>10. Counted(n)
      BY <1>1, <2>5, <2>8, EvaluatedCounts DEF Good
    <2>12. RuleFailure \in AllSignals(n, o) => ghost.polls >= 3
      <3>1. n.ruleStreak \in Nat /\ n.seen \in Nat /\ ghost.polls \in Nat
        BY <1>1, <2>3, StateFields, GhostFields
      <3>2. RuleFailure \in AllSignals(n, o) => n.ruleStreak >= 3
        BY <1>1, CriticalRuleFailure
      <3> QED BY <2>10, <3>1, <3>2 DEF Counted
    <2> DEFINE signals == AllSignals(n, o)
    <2>13. /\ v \in ProcStates /\ v.pc = "write" /\ v.state = n /\ v.then = then
           /\ v.signals = signals /\ v.lag = 0
      <3>1. signals \in Results /\ n \in State /\ proc[p] \in ProcStates /\ 0 \in 0..MaxLag
            /\ then \in {"idle", "observe", "send", "done"}
        BY <2>3, <2>6, BusyRun, Constants
      <3>2. v = [proc[p] EXCEPT !.state = n, !.signals = signals, !.pc = "write", !.lag = 0, !.then = then]
        OBVIOUS
      <3> HIDE DEF v, signals, then
      <3> QED BY <3>1, <3>2 DEF ProcStates
    <2> HIDE DEF v
    <2>14. proc'[p] = v
      BY <2>1, BusyRun DEF RunTypes
    <2>15. Working(p)'
      <3>1. PICK m : m = n
        OBVIOUS
      <3>2. Good(m)' /\ proc'[p].state = m
        <4>1. proc'[p].state = m
          BY <2>13, <2>14, <3>1
        <4>2. Good(m)
          BY <2>7, <2>9, <2>10, <3>1 DEF Good
        <4> QED BY <1>0, <4>1, <4>2, GoodStays
      <3>3. Good(proc[p].state)' /\ Told(proc[p].state)' = Told(m)
        BY <3>2, GoodInRun, ToldInRun
      <3> QED BY <1>0, <1>1, <2>7, <2>13, <2>14, <3>1, <3>2, <3>3 DEF Working
    <2>16. Good(file)' /\ Reported'
      BY <1>0, FileKept, BusyRun DEF Reported
    <2>17. file' \in State /\ accepted' \subseteq Events /\ residue' \subseteq Runs
      BY <1>0, BusyRun
    <2>18. v.pc \in Busy /\ v.pc # "read"
      BY <2>13 DEF Busy
    <2>19. RuleFailure \in v.signals => ghost.polls >= 3
      BY <2>12, <2>13
    <2> QED BY <1>0, <2>1, <2>13, <2>15, <2>16, <2>17, <2>18, <2>19, BusyKeeps
  <1> QED BY <1>2, <1>3

(***************************************************************************)
(* The specification keeps the invariant.                                  *)
(***************************************************************************)
LEMMA InitialWorld == Healthy \in Worlds /\ Outage(Healthy) = {} /\ Healthy.api.done = 1
                      /\ Healthy.api.running = FALSE
  <1> DEFINE services == [c \in Services |-> "HEALTHY"]
             api == [up |-> TRUE, enabled |-> TRUE, born |-> Stale + MaxLag, running |-> FALSE,
                     event |-> Old, done |-> 1, age |-> Old, succeeded |-> TRUE, failures |-> 0]
             backup == [marker |-> "VALID", age |-> Old, untidy |-> FALSE]
             w == [services |-> services, origin |-> TRUE, disk |-> 70, broken |-> "nothing",
                   api |-> api, backup |-> backup]
  <1>1. services \in [Services -> ServiceStates]
    BY DEF ServiceStates
  <1>2. api \in ApiStates
    <2>1. Stale + MaxLag \in Nat /\ Old \in Nat /\ 1 \in 0..MaxPolls /\ 0 \in 0..1
      BY Constants
    <2> QED BY <2>1 DEF ApiStates
  <1>3. backup \in Backups
    BY Constants DEF Backups
  <1>4. w = Healthy
    BY DEF Healthy
  <1>5. w \in Worlds
    <2> HIDE DEF services, api, backup
    <2> QED BY <1>1, <1>2, <1>3 DEF Worlds, DiskLevels
  <1>6. FailingServices(w) = {} /\ OriginAnswers(w) /\ RecurringStatus(w).reachable
    BY DEF FailingServices, OriginAnswers, RecurringStatus, Running, Services, Answer
  <1> HIDE DEF services
  <1>7. w.api.done = 1 /\ w.api.running = FALSE
    OBVIOUS
  <1> HIDE DEF w
  <1>8. Outage(w) = {}
    BY <1>6 DEF Outage, Failing, Snapshot
  <1> QED BY <1>4, <1>5, <1>7, <1>8

LEMMA InvInit == Init => MonitorInv
  <1> SUFFICES ASSUME Init PROVE MonitorInv
    OBVIOUS
  <1>0. /\ world = Healthy /\ file = DefaultState /\ residue = {} /\ lock = {} /\ accepted = {}
        /\ proc = [p \in Runs |-> Idle] /\ faults = 0 /\ varying \in Scenarios /\ corrupt \in BOOLEAN
        /\ ghost = [down |-> [t \in Targets |-> 0], polls |-> 1, failed |-> FALSE]
    <2>1. corrupt \in BOOLEAN
      <3>1. \A x \in BOOLEAN : corrupt \in {FALSE, x} => corrupt \in BOOLEAN
        OBVIOUS
      <3>2. ("operator" \in varying) \in BOOLEAN
        OBVIOUS
      <3>3. corrupt \in {FALSE, "operator" \in varying}
        BY DEF Init
      <3> QED BY <3>1, <3>2, <3>3, Zenon
    <2> QED BY <2>1 DEF Init
  <1>1. WorldTypes /\ ghost.polls = 1 /\ \A t \in Targets : ghost.down[t] = 0
    <2>1. [t \in Targets |-> 0] \in [Targets -> 0..MaxStreak] /\ 1 \in 1..MaxPolls
      BY Constants
    <2> QED BY <1>0, <2>1, InitialWorld DEF WorldTypes, Ghosts
  <1>2. RunTypes
    BY <1>0, DefaultType, IdleType, Constants DEF RunTypes
  <1>3. Exclusive
    BY <1>0, IdleType DEF Exclusive, Busy
  <1>4. Paced
    BY <1>0, <1>1, InitialWorld DEF Paced
  <1>5. Good(file)
    <2>1. /\ file.sequence = 0 /\ file.active = 0 /\ file.pending = None /\ file.seen = 0
          /\ file.ruleStreak = 0 /\ \A t \in Targets : file.streaks[t] = 0
      BY <1>0 DEF DefaultState
    <2>2. Sound(file)
      BY <2>1 DEF Sound, ValidState
    <2>3. Counted(file)
      BY <1>1, <2>1 DEF Counted
    <2>4. \A t \in Targets : Fits(file, t)
      BY <1>0, <1>1, <2>1, InitialWorld DEF Fits
    <2> QED BY <2>2, <2>3, <2>4 DEF Good
  <1>6. Early
    BY <1>0, InitialWorld DEF Early
  <1>7. Reported
    <2>1. file.sequence = 0
      BY <1>0 DEF DefaultState
    <2>2. Told(file) = {}
      BY <2>1, EventFields DEF Told
    <2> QED BY <1>0, <2>2 DEF Reported
  <1>8. SamePollCountedOnce
    BY <1>0, IdleType DEF SamePollCountedOnce
  <1>9. \A p \in Runs : Working(p)
    BY <1>0, IdleType DEF Working
  <1> QED BY <1>1, <1>2, <1>3, <1>4, <1>5, <1>6, <1>7, <1>8, <1>9 DEF MonitorInv

LEMMA InvStep == MonitorInv /\ [Next]_vars => MonitorInv'
  <1> SUFFICES ASSUME MonitorInv, [Next]_vars PROVE MonitorInv'
    OBVIOUS
  <1>1. CASE Environment
    BY <1>1, ServiceChangesKeeps, ProbeFlipsKeeps, PollStartsKeeps, RuleFailsKeeps,
       PollCompletesKeeps, ApiRestartsKeeps, QuietChangesKeep, TickKeeps DEF Environment
  <1>2. ASSUME NEW p \in Runs, Step(p) PROVE MonitorInv'
    <2>1. CASE CollectFails(p)
      <3>1. Ends(p) /\ UNCHANGED <<outside, file, corrupt, residue, accepted>> /\ faults' \in 0..MaxFaults
        BY <2>1, BusyRun DEF CollectFails
      <3> QED BY <3>1, CollectFailsKeeps
    <2> QED BY <1>2, <2>1, StartKeeps, LoadKeeps, SendAcceptedKeeps, SendRefusedKeeps, StampKeeps,
               ObserveKeeps, WriteTempKeeps, ReplaceKeeps DEF Step
  <1>3. ASSUME NEW p \in Runs, SaveFails(p) \/ Kill(p) PROVE MonitorInv'
    BY <1>3, SaveFailsKeeps, KillKeeps
  <1>4. CASE UNCHANGED vars
    <2>1. UNCHANGED <<varying, file, corrupt, residue, lock, proc, accepted, faults>> /\ UNCHANGED outside
      BY <1>4 DEF vars, outside
    <2>2. world' = world /\ ghost' = ghost /\ WorldTypes /\ Paced
      BY <2>1 DEF outside, MonitorInv
    <2>3. WorldTypes' /\ Paced' /\ ghost'.polls >= ghost.polls /\ Outage(world)' = Outage(world)
      <3>1. ghost.polls \in Nat
        BY <2>2, GhostFields
      <3> QED BY <2>2, <3>1 DEF WorldTypes, Paced, Outage
    <2>4. \A t \in Targets : Lasts(t)
      BY <2>2, <2>3 DEF Lasts
    <2> QED BY <2>1, <2>3, <2>4, OutsideKeeps
  <1> QED BY <1>1, <1>2, <1>3, <1>4 DEF Next

\* The inductive invariant holds throughout; the theorems below read it off.
THEOREM MonitorInvariant == Spec => []MonitorInv
  BY InvInit, InvStep, PTL DEF Spec

\* Every part of the monitor has its type, the state a run works on included.
THEOREM MonitorTypes == Spec => []TypeOK
  BY MonitorInvariant, InvIsTyped, PTL

\* validate_state accepts what any run leaves, wherever it is killed.
THEOREM NextRunAcceptsState == Spec => []StateNeverRejected
  <1>1. MonitorInv => StateNeverRejected
    BY DEF MonitorInv, Good, Sound, StateNeverRejected
  <1> QED BY <1>1, MonitorInvariant, PTL

\* evaluate counts at most two failures in an instant of an outage, however many
\* runs observe it and however long they take to read.
THEOREM StreaksCountInstants == Spec => []StreaksFollowTheClock
  <1>1. MonitorInv => StreaksFollowTheClock
    BY DEF MonitorInv, Good, Fits, StreaksFollowTheClock
  <1> QED BY <1>1, MonitorInvariant, PTL

\* A rule failure becomes critical after three completed polls, not after three
\* observations of one.
THEOREM PollsCountedOnce == Spec => []SamePollCountedOnce
  <1>1. MonitorInv => SamePollCountedOnce
    BY DEF MonitorInv
  <1> QED BY <1>1, MonitorInvariant, PTL

(***************************************************************************)
(* What HomeOps sees.                                                      *)
(***************************************************************************)
\* Only the reporter's two outcomes send, and what they send is on file.
LEMMA OnlyPendingIsSent ==
  ASSUME MonitorInv, [Next]_vars
  PROVE  \/ accepted' = accepted
         \/ file.pending # None /\ accepted' = accepted \union {file.pending}
  <1>1. ASSUME NEW p \in Runs, proc[p].pc = "send"
        PROVE  proc[p].state.pending = file.pending /\ file.pending # None
    BY <1>1, BusyRun DEF Working
  <1>2. CASE Environment
    BY <1>2 DEF Environment, ServiceChanges, ProbeFlips, PollStarts, RuleFails, PollCompletes,
                ApiRestarts, BackupChanges, DiskChanges, AuthorityChanges, Tick, Observed
  <1>3. ASSUME NEW p \in Runs, Step(p) \/ SaveFails(p) \/ Kill(p)
        PROVE  \/ accepted' = accepted
               \/ file.pending # None /\ accepted' = accepted \union {file.pending}
    <2>1. CASE SendAccepted(p)
      BY <1>1, <2>1 DEF SendAccepted
    <2>2. CASE SendRefused(p)
      BY <1>1, <2>2 DEF SendRefused
    <2>3. CASE ~(SendAccepted(p) \/ SendRefused(p))
      BY <1>3, <2>3 DEF Step, Start, Load, Stamp, CollectFails, Observe, WriteTemp, Replace,
                        SaveFails, Kill
    <2> QED BY <2>1, <2>2, <2>3
  <1>4. CASE UNCHANGED vars
    BY <1>4 DEF vars
  <1> QED BY <1>2, <1>3, <1>4 DEF Next

\* HomeOps is sent the event on file as pending, and nothing else.
THEOREM OnlySavedEventsAreSent == Spec => NothingSentUnsaved
  <1>1. MonitorInv /\ [Next]_vars => [accepted' \subseteq accepted \union {file.pending}]_vars
    BY OnlyPendingIsSent
  <1> QED BY <1>1, MonitorInvariant, PTL DEF Spec, NothingSentUnsaved

\* The last of the episodes announced.
AlertsEndAt ==
  \A k \in Nat :
    /\ accepted \subseteq Events
    /\ k > 0 => [episode |-> k, status |-> "ALERT"] \in accepted
    /\ \A e \in accepted : e.episode <= k
    => LastEpisode = k

LEMMA LastAnnounced == AlertsEndAt
  <1> SUFFICES ASSUME NEW k \in Nat, accepted \subseteq Events,
                      k > 0 => [episode |-> k, status |-> "ALERT"] \in accepted,
                      \A e \in accepted : e.episode <= k
               PROVE  LastEpisode = k
    BY DEF AlertsEndAt
  <1>1. \A x \in Announced : x \in Nat /\ x >= 1 /\ x <= k
    BY EventFields DEF Announced
  <1>2. CASE k = 0
    <2>1. Announced = {}
      BY <1>1, <1>2
    <2> QED BY <1>2, <2>1 DEF LastEpisode
  <1>3. CASE k > 0
    <2>1. k \in Announced
      BY <1>3 DEF Announced
    <2>2. Max(Announced) = k
      <3>1. \A y \in Announced : k >= y
        BY <1>1
      <3> DEFINE m == CHOOSE x \in Announced : \A y \in Announced : x >= y
      <3>2. m \in Announced /\ \A y \in Announced : m >= y
        BY <2>1, <3>1
      <3>3. m = Max(Announced)
        BY DEF Max
      <3> HIDE DEF m
      <3>4. m >= k /\ m <= k /\ m \in Nat
        BY <1>1, <2>1, <3>2
      <3> QED BY <3>3, <3>4
    <2> QED BY <2>1, <2>2 DEF LastEpisode
  <1> QED BY <1>2, <1>3

\* An event newly told opens the next episode or ends the open one.
LEMMA EpisodeStep ==
  ASSUME MonitorInv, accepted = Told(file), file.pending # None,
         accepted' = accepted \union {file.pending}
  PROVE  Episodes!Next
  <1> DEFINE k == file.sequence
             e == file.pending
             alert(i) == [episode |-> i, status |-> "ALERT"]
             recovery(i) == [episode |-> i, status |-> "RECOVERED"]
  <1>0. file \in State /\ Sound(file)
    BY DEF MonitorInv, RunTypes, Good
  <1>1. /\ e \in Events /\ e.episode = k /\ k >= 1 /\ k \in 1..MaxEpisodes /\ k \in Nat
        /\ \/ e.status = "ALERT" /\ file.active = 0
           \/ e.status = "RECOVERED" /\ file.active = k
    BY <1>0, PendingFields, EventFields
  <1>2. accepted \subseteq Events /\ accepted' \subseteq Events
    BY <1>1 DEF Told
  <1>3. \A i \in 1..MaxEpisodes : alert(i) \in Events /\ recovery(i) \in Events
    BY DEF Events
  <1>4. \A i \in 1..MaxEpisodes : i < k => alert(i) \in accepted /\ recovery(i) \in accepted
    BY <1>3 DEF Told
  <1>5. CASE e.status = "ALERT"
    <2>1. e = alert(k)
      BY <1>1, <1>3, <1>5, SameEvent
    <2>2. \A a \in accepted : a.episode \in Nat /\ a.episode < k
      BY <1>1, <1>5, EventFields DEF Told
    <2>3. LastEpisode = k - 1
      <3>1. k - 1 \in Nat /\ (k - 1 > 0 => k - 1 \in 1..MaxEpisodes)
        BY <1>1, Constants
      <3>2. k - 1 > 0 => alert(k - 1) \in accepted
        <4> DEFINE j == k - 1
        <4>1. j < k
          BY <1>1
        <4> HIDE DEF j
        <4> QED BY <1>4, <3>1, <4>1 DEF j
      <3>3. \A a \in accepted : a.episode <= k - 1
        BY <1>1, <2>2
      <3> QED BY <1>2, <3>1, <3>2, <3>3, LastAnnounced DEF AlertsEndAt
    <2>4. EpisodeOpen = FALSE
      <3>1. k - 1 > 0 => recovery(k - 1) \in accepted
        <4> DEFINE j == k - 1
        <4>1. j > 0 => j < k /\ j \in 1..MaxEpisodes
          BY <1>1, Constants
        <4> HIDE DEF j
        <4> QED BY <1>4, <4>1 DEF j
      <3> QED BY <2>3, <3>1 DEF EpisodeOpen
    <2>5. LastEpisode' = k
      <3>1. alert(k) \in accepted'
        BY <2>1
      <3>2. \A a \in accepted' : a.episode <= k
        BY <1>1, <2>2
      <3>3. AlertsEndAt'
        BY LastAnnounced, PTL
      <3> QED BY <1>1, <1>2, <3>1, <3>2, <3>3 DEF AlertsEndAt
    <2>6. EpisodeOpen' = TRUE
      <3>1. recovery(k) \notin accepted'
        <4>1. recovery(k) \notin accepted
          BY <1>1, <2>2
        <4>2. recovery(k) # e
          BY <1>5
        <4> QED BY <4>1, <4>2
      <3> QED BY <1>1, <2>5, <3>1 DEF EpisodeOpen
    <2> QED BY <1>1, <2>3, <2>4, <2>5, <2>6 DEF Episodes!Next, Episodes!Alert
  <1>6. CASE e.status = "RECOVERED"
    <2>1. e = recovery(k)
      BY <1>1, <1>3, <1>6, SameEvent
    <2>2. \A a \in accepted : a.episode \in Nat /\ a.episode <= k
      BY <1>1, EventFields DEF Told
    <2>3. alert(k) \in accepted /\ recovery(k) \notin accepted
      BY <1>1, <1>3, <1>6 DEF Told
    <2>4. LastEpisode = k
      BY <1>1, <1>2, <2>2, <2>3, LastAnnounced DEF AlertsEndAt
    <2>5. LastEpisode' = k
      <3>1. alert(k) \in accepted'
        BY <2>3
      <3>2. \A a \in accepted' : a.episode <= k
        BY <1>1, <2>2
      <3>3. AlertsEndAt'
        BY LastAnnounced, PTL
      <3> QED BY <1>1, <1>2, <3>1, <3>2, <3>3 DEF AlertsEndAt
    <2>6. EpisodeOpen = TRUE
      BY <1>1, <2>3, <2>4 DEF EpisodeOpen
    <2>7. EpisodeOpen' = FALSE
      BY <2>1, <2>5 DEF EpisodeOpen
    <2> QED BY <2>4, <2>5, <2>6, <2>7 DEF Episodes!Next, Episodes!Recover
  <1> QED BY <1>1, <1>5, <1>6

\* The runs, killed, repeated and refused at any point, show HomeOps the episodes
\* of DiskEpisodes: numbered without a gap, opened and closed once each.
THEOREM MonitorShowsEpisodes == Spec => ImplementsEpisodes
  <1>1. Init => Episodes!Init
    <2> SUFFICES ASSUME Init PROVE Episodes!Init
      OBVIOUS
    <2>1. accepted = {}
      BY DEF Init
    <2>2. LastEpisode = 0
      BY <2>1 DEF LastEpisode, Announced
    <2> QED BY <2>2 DEF Episodes!Init, EpisodeOpen
  <1>2. MonitorInv /\ [Next]_vars => [Episodes!Next]_(Episodes!vars)
    <2> SUFFICES ASSUME MonitorInv, [Next]_vars PROVE [Episodes!Next]_(Episodes!vars)
      OBVIOUS
    <2>1. CASE accepted' = accepted
      BY <2>1 DEF Episodes!vars, LastEpisode, EpisodeOpen, Announced
    <2>2. CASE accepted' # accepted
      <3>1. file.pending # None /\ accepted' = accepted \union {file.pending}
        BY <2>2, OnlyPendingIsSent
      <3>2. accepted = Told(file)
        BY <2>2, <3>1 DEF MonitorInv, Reported
      <3> QED BY <3>1, <3>2, EpisodeStep
    <2> QED BY <2>1, <2>2
  <1>3. Spec => Episodes!Init /\ [][Episodes!Next]_(Episodes!vars)
    BY <1>1, <1>2, MonitorInvariant, PTL DEF Spec
  <1> QED BY <1>3 DEF ImplementsEpisodes, Episodes!Spec
=============================================================================
