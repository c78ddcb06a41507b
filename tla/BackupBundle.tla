---------------------------- MODULE BackupBundle ----------------------------
(***************************************************************************)
(* Local backups: backup_core.sh with scripts/backup_tools/                *)
(* backup_artifact.py.  A run holds the operation lock, dumps the database *)
(* into a staging directory, renames that directory to a bundle and points *)
(* the last-success marker at it.  Migrations may run meanwhile, an        *)
(* operator removes what a retention plan offers, and the run may fail or  *)
(* be killed between any two steps.                                        *)
(*                                                                         *)
(* The clock counts half-days of Korean time, before and from 06:00.       *)
(***************************************************************************)
EXTENDS Integers, FiniteSetsExt

CONSTANTS
  Scenarios,    \* what happens beside the programs, one set per behaviour
  Recent, Days, \* RETENTION_RECENT_COUNT, RETENTION_DAILY_DAYS
  Releases,     \* runtime-config releases, numbered as they are installed from 1
  ComposeOf,    \* the compose.yaml of each
  MaxTime, MaxSchema, MaxBundles,
  FewBundles,   \* bound: bundles where nothing is pruned
  MaxFaults     \* bound: failed steps and kills

ASSUME RetentionAssumption == Recent \in Nat \ {0} /\ Days \in Nat

ASSUME BackupBoundAssumption ==
  /\ MaxTime \in Nat /\ MaxSchema \in Nat \ {0} /\ MaxFaults \in Nat
  /\ MaxBundles \in Nat /\ FewBundles \in 0..MaxBundles

VARIABLES
  varying,  \* the scenario
  now,      \* the clock
  schema,   \* the last successful Flyway version
  failing,  \* is there a failed migration?
  host,     \* paths, container and releases, as the validators see them
  bundles,  \* final bundles in the backup directory
  marker,   \* the bundle last-success.json names: its id, None or Garbled
  core,     \* the running backup
  lock,     \* operations/lock: free, held by the run, or left by a killed one
  made,     \* bundle names made so far; a name is used once
  plan,     \* pruneCandidates of the last retention plan
  faults,
  rotted,   \* for the properties: bundles that were damaged from outside,
  points    \* days of which a bundle from 06:00 on was committed

world == <<varying, now, schema, failing, host>>
local == <<bundles, marker, core, lock, made, plan, rotted, points>>

None == 0
Garbled == -1

Day(t) == t \div 2
FromSix(t) == t % 2 = 1

-----------------------------------------------------------------------------
(* What the validators ask of the places they are given.  host.wrong[p] is  *)
(* what is wrong with place p.                                             *)

Places == {"env", "backup", "state", "target", "config", "tools"}

\* _require_owner_only_info: of the right kind, the user's own, closed to others.
Private(p) == host.wrong[p] \intersect {"kind", "owner", "mode"} = {}

\* _canonical_existing, _is_within: a path that leads where it says, out of the
\* repository and of the data of Docker.
Canonical(p) == host.wrong[p] \intersect {"symlink", "inside repository"} = {}

\* validate_env_path
EnvTrusted == Canonical("env") /\ Private("env")

\* _dangerous_backup_roots: not a directory that holds more than backups.
Dedicated == "broad" \notin host.wrong["backup"]

\* validate_backup_directory_read_only
BackupDirectoryTrusted == Canonical("backup") /\ Private("backup") /\ Dedicated

\* validate_backup_directory: a probe file can be written there as well.
BackupDirectoryWritable == BackupDirectoryTrusted /\ "full" \notin host.wrong["backup"]

\* _managed_release_compose: a release that is still what it was when installed.
Managed(r) == r \in Releases /\ r # host.altered

\* _hash_owner_regular_nofollow
SameCompose(r, s) == ComposeOf[r] = ComposeOf[s]

\* _check_release_compose_authority: PostgreSQL was started from the current
\* release, or from an earlier one with the same compose.yaml.
ComposeTrusted(current, label) ==
  Managed(current) /\ Managed(label) /\ SameCompose(current, label)

\* check_postgres_container
ContainerTrusted == ComposeTrusted(host.release, host.label) /\ host.postgres = "healthy"

Authorized == EnvTrusted /\ BackupDirectoryWritable /\ ContainerTrusted

-----------------------------------------------------------------------------
(* Bundles.                                                                *)

NoBundle == [id |-> 0, at |-> 0, schema |-> 0, dump |-> 0, whole |-> FALSE]
Bundle == [id : 1..MaxBundles, at : 0..MaxTime, schema : 1..MaxSchema,
           dump : 0..MaxSchema, whole : BOOLEAN]

\* create_stem: a name of its own, with the time and the schema to be recorded.
Named(id) == [id |-> id, at |-> now, schema |-> schema, dump |-> 0, whole |-> FALSE]

\* pg_dump and fsync_dump_file: what the dump holds.
Dumped(b) == [b EXCEPT !.dump = schema]

\* write_sidecars: metadata and checksum beside a dump that is there.
Described(b) == [b EXCEPT !.whole = b.dump # 0]

\* verify_bundle: the three files fit each other and the name.
Verified(b) == b.whole

\* inventory
Valid == {b \in bundles : Verified(b)}
LastSuccessValid == \E b \in Valid : b.id = marker

Newer(b, c) == b.at > c.at \/ (b.at = c.at /\ b.id > c.id)

Past == {b \in Valid : b.at <= now}

\* A mutant: no daily bundle is kept.
KeepRecentOnly == {b \in Past : Cardinality({c \in Past : Newer(c, b)}) < Recent}

\* retention_plan: bundles of the future count neither way; the most recent are
\* kept, and of each of the last days the first bundle from 06:00 on.
Keep ==
  {b \in Past : Cardinality({c \in Past : Newer(c, b)}) < Recent} \union
  {b \in Past : /\ FromSix(b.at)
                /\ Day(b.at) \in (Day(now) - Days)..(Day(now) - 1)
                /\ \A c \in Past : Day(c.at) = Day(b.at) /\ FromSix(c.at) => ~Newer(b, c)}

PruneCandidates == Past \ Keep

-----------------------------------------------------------------------------
(* The backup run.                                                         *)

Idle == [pc |-> "idle", bundle |-> NoBundle, previous |-> None]
At(pc) == core.pc = pc
Goto(pc) == core' = [core EXCEPT !.pc = pc]
Fault == "faults" \in varying /\ faults < MaxFaults /\ faults' = faults + 1

\* A mutant: the lock directory stays.
LeavesLocked == core' = Idle /\ UNCHANGED lock

\* The EXIT trap removes the staging directory (cleanup_staging) and the
\* with-block of the lock is left.
Leaves == core' = Idle /\ lock' = "free"
Step(pc) == Goto(pc) /\ UNCHANGED <<lock, faults>>

Init ==
  /\ varying \in Scenarios
  /\ now = 0 /\ schema = 1 /\ failing = FALSE
  /\ host = [wrong |-> [p \in Places |-> {}], label |-> 1, release |-> 1, altered |-> None, postgres |-> "healthy"]
  /\ bundles = {} /\ marker = None
  /\ core = Idle /\ lock = "free" /\ made = 0
  /\ plan = {} /\ faults = 0 /\ rotted = {} /\ points = {}

\* run_standalone_backup and the checks at the top of backup_core.sh.  A busy
\* lock or a place that is not trusted ends the run, which changed nothing.
Begin ==
  /\ made < IF "prune" \in varying THEN MaxBundles ELSE FewBundles
  /\ At("idle") /\ lock = "free" /\ Authorized
  /\ lock' = "held" /\ Goto("stage")
  /\ UNCHANGED <<world, bundles, marker, made, plan, faults, rotted, points>>

Stage ==
  /\ At("stage")
  /\ IF failing THEN Leaves /\ UNCHANGED made
     ELSE /\ made' = made + 1
          /\ core' = [core EXCEPT !.pc = "dump", !.bundle = Named(made + 1)]
          /\ UNCHANGED lock
  /\ UNCHANGED <<world, bundles, marker, plan, faults, rotted, points>>

Dump ==
  /\ At("dump")
  /\ core' = [core EXCEPT !.pc = "describe", !.bundle = Dumped(@)]
  /\ UNCHANGED <<world, bundles, marker, lock, made, plan, faults, rotted, points>>

\* A mutant: the second look at the migrations is missing.
DescribeUnchecked ==
  /\ At("describe")
  /\ core' = [core EXCEPT !.pc = "publish", !.bundle = Described(@)]
  /\ UNCHANGED <<world, bundles, marker, lock, made, plan, faults, rotted, points>>

\* The migrations must be where they were before the dump.
Describe ==
  /\ At("describe")
  /\ IF failing \/ schema # core.bundle.schema THEN Leaves
     ELSE core' = [core EXCEPT !.pc = "publish", !.bundle = Described(@)] /\ UNCHANGED lock
  /\ UNCHANGED <<world, bundles, marker, made, plan, faults, rotted, points>>

\* commit_bundle up to the rename: a marker that cannot be read stops it.
Publish ==
  /\ At("publish")
  /\ IF marker = Garbled \/ ~Verified(core.bundle) THEN Leaves /\ UNCHANGED bundles
     ELSE /\ bundles' = bundles \union {core.bundle}
          /\ core' = [core EXCEPT !.pc = "mark", !.previous = marker]
          /\ UNCHANGED lock
  /\ UNCHANGED <<world, marker, made, plan, faults, rotted, points>>

Mark ==
  /\ At("mark")
  /\ marker' = core.bundle.id /\ Goto("settle")
  /\ UNCHANGED <<world, bundles, lock, made, plan, faults, rotted, points>>

Settle ==
  /\ At("settle")
  /\ points' = points \union (IF FromSix(core.bundle.at) THEN {Day(core.bundle.at)} ELSE {})
  /\ Leaves
  /\ UNCHANGED <<world, bundles, marker, made, plan, faults, rotted>>

\* A step that fails.  commit_bundle undoes what it did: first the marker, then
\* the bundle, unless undoing fails, too.
StepFails ==
  /\ Fault
  /\ CASE core.pc \in {"stage", "dump", "describe", "publish"} -> Leaves
       [] At("mark")   -> Goto("remove") /\ UNCHANGED lock
       [] At("settle") -> Goto("restore") /\ UNCHANGED lock
       [] OTHER        -> core.pc \in {"restore", "remove"} /\ Leaves
  /\ bundles' = IF At("remove")  \* some of its files are gone
                THEN {IF b = core.bundle THEN [b EXCEPT !.whole = FALSE] ELSE b : b \in bundles}
                ELSE bundles
  /\ UNCHANGED <<world, marker, made, plan, rotted, points>>

Restore ==
  /\ At("restore")
  /\ marker' = core.previous /\ Goto("remove")
  /\ UNCHANGED <<world, bundles, lock, made, plan, faults, rotted, points>>

Remove ==
  /\ At("remove")
  /\ bundles' = {b \in bundles : b.id # core.bundle.id} /\ Leaves
  /\ UNCHANGED <<world, marker, made, plan, faults, rotted, points>>

\* A kill leaves the lock and the staging directory, which nothing reads.
KillCore ==
  /\ ~At("idle") /\ Fault
  /\ core' = Idle /\ lock' = "left"
  /\ UNCHANGED <<world, bundles, marker, made, plan, rotted, points>>

ClearLock ==
  /\ lock = "left" /\ lock' = "free"
  /\ UNCHANGED <<world, bundles, marker, core, made, plan, faults, rotted, points>>

-----------------------------------------------------------------------------
(* What happens beside the run.                                            *)

Tick ==
  /\ "clock" \in varying /\ now < MaxTime /\ now' = now + 1
  /\ UNCHANGED <<varying, schema, failing, host, local, faults>>

Migrates ==
  /\ "migration" \in varying
  /\ \/ schema < MaxSchema /\ schema' = schema + 1 /\ failing' = FALSE
     \/ failing' = ~failing /\ UNCHANGED schema
  /\ UNCHANGED <<varying, now, host, local, faults>>

\* Something goes wrong with a place and is put right, one at a time; a release
\* is installed; PostgreSQL stops or is started anew from the current release.
Defects == {<<"env", "mode">>, <<"env", "inside repository">>, <<"backup", "broad">>,
            <<"backup", "full">>, <<"state", "owner">>, <<"state", "inside another">>,
            <<"target", "elsewhere">>, <<"config", "content">>, <<"tools", "owner">>}

HostChanges ==
  /\ \/ /\ "places" \in varying
        /\ \/ \E p \in Places : host.wrong[p] # {} /\ host' = [host EXCEPT !.wrong[p] = {}]
           \/ /\ \A p \in Places : host.wrong[p] = {}
              /\ \E d \in Defects : host' = [host EXCEPT !.wrong[d[1]] = {d[2]}]
     \/ /\ "releases" \in varying
        /\ \/ \E r \in Releases \ {host.release} : host' = [host EXCEPT !.release = r]
           \/ host.altered = None /\ host' = [host EXCEPT !.altered = host.label]
           \/ host.postgres = "healthy" /\ host' = [host EXCEPT !.postgres = "stopped"]
           \/ host.postgres = "stopped"
                /\ host' = [host EXCEPT !.postgres = "healthy", !.label = host.release]
  /\ UNCHANGED <<varying, now, schema, failing, local, faults>>

\* The operator asks for a plan, and some time later removes what it offers,
\* by name.
Plans ==
  /\ "prune" \in varying /\ plan # PruneCandidates
  /\ plan' = PruneCandidates
  /\ UNCHANGED <<world, bundles, marker, core, lock, made, faults, rotted, points>>

Prunes ==
  /\ \E b \in plan : bundles' = {c \in bundles : c.id # b.id} /\ plan' = plan \ {b}
  /\ UNCHANGED <<world, marker, core, lock, made, faults, rotted, points>>

\* The disk damages a bundle or the marker.
Rots ==
  /\ "damage" \in varying
  /\ \/ \E b \in Valid :
          /\ bundles' = (bundles \ {b}) \union {[b EXCEPT !.whole = FALSE]}
          /\ rotted' = rotted \union {b.id} /\ UNCHANGED marker
     \/ marker # Garbled /\ marker' = Garbled /\ UNCHANGED <<bundles, rotted>>
  /\ UNCHANGED <<world, core, lock, made, plan, faults, points>>

BackupStep == Begin \/ Stage \/ Dump \/ Describe \/ Publish \/ Mark \/ Settle
              \/ Restore \/ Remove

LocalNext == \/ BackupStep \/ StepFails \/ KillCore \/ ClearLock
             \/ Tick \/ Migrates \/ HostChanges \/ Plans \/ Prunes \/ Rots

-----------------------------------------------------------------------------
(* Properties.                                                             *)

TypeOKLocal ==
  /\ now \in 0..MaxTime /\ schema \in 1..MaxSchema /\ failing \in BOOLEAN
  /\ bundles \subseteq Bundle /\ plan \subseteq Bundle
  /\ marker \in {Garbled, None} \union 1..MaxBundles
  /\ core.pc \in {"idle", "stage", "dump", "describe", "publish", "mark", "settle",
                  "restore", "remove"}
  /\ core.bundle \in Bundle \union {NoBundle}
  /\ lock = "held" <=> ~At("idle")
  /\ faults \in 0..MaxFaults

\* Whatever fails, is killed or is pruned, a marker names a bundle that is
\* there, complete, and holds the schema it says: the point to restore from.
\* Only the disk itself can break this.
MarkerNamesRestorePoint ==
  marker \notin {None, Garbled} \union rotted =>
    \E b \in Valid : b.id = marker /\ b.schema = b.dump

\* Pruning by the plan, an old one too, never takes the last bundle from 06:00
\* on of a day that the plan still protects.
DailyPointKept ==
  \A d \in points \intersect ((Day(now) - Days)..Day(now)) :
    \E b \in bundles : Day(b.at) = d /\ FromSix(b.at)
=============================================================================
