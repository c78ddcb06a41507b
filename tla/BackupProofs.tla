---------------------------- MODULE BackupProofs ----------------------------
(***************************************************************************)
(* Proofs about the backups and their off-site copies, for every retention *)
(* policy, every number of runs, migrations, days and faults, and          *)
(* everything that happens beside the runs: what the local marker names,   *)
(* what pruning leaves, and what is behind the off-site marker.            *)
(***************************************************************************)
EXTENDS Offsite, OrderProofs, FiniteSetTheorems, TLAPS

(***************************************************************************)
(* The run.  From the rename on its bundle is in the backup directory: the *)
(* run is committing it, or undoing that.                                  *)
(***************************************************************************)
Building == {"dump", "describe", "publish"}
Committing == {"mark", "settle", "restore", "remove"}
Pcs == {"idle", "stage"} \union Building \union Committing

CoreInv ==
  /\ core \in [pc : Pcs, bundle : Bundle \union {NoBundle}, previous : {None, Garbled} \union 1..MaxBundles]
  /\ made \in 0..MaxBundles
  /\ At("idle") \/ At("stage") => core.bundle = NoBundle
  /\ At("stage") => made < MaxBundles
  /\ core.pc \in Building \union Committing => core.bundle \in Bundle /\ core.bundle.id = made
  /\ core.pc \in Committing => core.previous # Garbled /\ core.previous < made

(***************************************************************************)
(* Names are used once, in the order of time: the bundles of the directory *)
(* are ordered by their names, and nothing bears the name of a bundle that *)
(* is still being built.                                                   *)
(***************************************************************************)
Used == IF core.pc \in Building THEN made - 1 ELSE made

NameInv ==
  /\ IsFiniteSet(bundles)
  /\ \A b \in bundles \union plan : b.id <= Used
  /\ \A b \in bundles : b.at <= now
  /\ \A b, c \in bundles : b.id = c.id => b = c
  /\ \A b, c \in bundles : b.id < c.id => b.at <= c.at
  /\ core.pc \in Building \union Committing =>
       core.bundle.at <= now /\ \A b \in bundles : b.at <= core.bundle.at
  /\ core.pc \in Committing => \A b \in plan : b.id < made
  /\ marker <= Used
  /\ points \subseteq 0..Day(now)

\* A dump holds the schema its name says once the second look at the
\* migrations is behind it.
DumpInv ==
  /\ \A b \in bundles : b.schema = b.dump
  /\ At("dump") => core.bundle.schema <= schema
  /\ At("describe") => core.bundle.schema <= core.bundle.dump /\ core.bundle.dump <= schema
  /\ At("publish") /\ core.bundle.whole => core.bundle.schema = core.bundle.dump
  /\ core.pc \in Committing =>
       /\ core.bundle.schema = core.bundle.dump /\ core.bundle.whole
       /\ \E b \in bundles : b.id = made /\ b.at = core.bundle.at /\ (b = core.bundle \/ made \in rotted)

LocalInv == TypeOKLocal /\ CoreInv /\ NameInv /\ DumpInv

(***************************************************************************)
(* The marker.  A bundle newer than the one the marker names, other than   *)
(* that of the run in progress, is what a failed or killed run left: there *)
(* is at most one for each fault.  While such bundles are few, the bundle  *)
(* the marker names, and the one it goes back to when a commit is undone,  *)
(* have fewer than Recent newer ones, and no plan offers them.             *)
(***************************************************************************)
Base == IF core.pc \in Committing THEN core.previous ELSE marker

Strays == {b \in Valid : b.id > Base /\ (core.pc \in Committing => b.id # made)}

Protected == ({marker} \union {Base}) \ {None, Garbled}

\* Where the marker is during a commit.
Placed ==
  /\ At("mark") \/ At("remove") => marker \in {core.previous, Garbled}
  /\ At("settle") \/ At("restore") => marker \in {made, Garbled}

FewStrays == Base # Garbled => Cardinality(Strays) <= faults

Kept(p) == (\A b \in plan : b.id # p) /\ (p \in rotted \/ \E b \in Valid : b.id = p)

RestoreInv == \A p \in Protected : Kept(p)

\* The bundle of the run in progress is one more.
FewLeft == Base # Garbled => Cardinality(Strays) < Recent - 1

FewFaults == faults < Recent - 1

MarkerInv == Placed /\ FewStrays /\ (FewFaults => RestoreInv)

(***************************************************************************)
(* The days.  Of each day the plan protects there is a bundle from 06:00   *)
(* on that no plan offers and that is not at stake in the present run.     *)
(***************************************************************************)
Safe(b) == (\A c \in plan : c.id # b.id) /\ (core.pc \in Committing => b.id # made)

DayInv ==
  \A d \in points \intersect ((Day(now) - Days)..Day(now)) :
    \E b \in bundles : Day(b.at) = d /\ FromSix(b.at) /\ Safe(b)

(***************************************************************************)
(* The off-site run.                                                       *)
(***************************************************************************)
\* There is a ciphertext of that name, unless iCloud lost it.
Present(id) == id \in lost \/ Taken(id)

OffPcs == {"idle", "select", "encrypt", "copy", "revalidate", "rename", "recheck",
           "mark", "sync", "tidy", "rollback", "restore", "discard"}
Unmarked == {"encrypt", "copy", "revalidate", "rename", "recheck", "mark"}
Marked == {"sync", "tidy", "rollback", "restore"}

OffType == [pc : OffPcs, source : Bundle \union {NoBundle}, cipher : Bundle \union {NoBundle},
            previous : {Garbled, None} \union 1..MaxBundles,
            published : BOOLEAN, committed : BOOLEAN]

OffTypeInv ==
  /\ off \in OffType
  /\ finals \subseteq Bundle /\ offMarker \in {Garbled, None} \union 1..MaxBundles
  /\ residue \subseteq {"staging", "rollback"}
  /\ lost \subseteq 1..MaxBundles
  /\ OffAt("idle") \/ OffAt("select") => ~off.published /\ ~off.committed

\* The source a run took, and the marker it found.
SourceInv ==
  off.pc \in Unmarked \union Marked \union {"discard"} =>
    /\ off.source \in Bundle /\ off.source.whole /\ off.source.schema = off.source.dump
    /\ off.source.id <= Used
    /\ off.previous # Garbled /\ off.previous # off.source.id
    /\ off.previous = None \/ Present(off.previous)

\* What is encrypted is the bundle of that name; a second look finds the source
\* as it was, so what is published is the source: every ciphertext decrypts to a
\* whole bundle with the schema it says.
CipherInv ==
  /\ \A c \in finals : c.id \in lost \/ (c.whole /\ c.schema = c.dump)
  /\ OffAt("copy") \/ OffAt("revalidate") =>
       /\ off.cipher \in Bundle
       /\ \A b \in bundles : b.id = off.source.id /\ b.whole => b = off.cipher
  /\ OffAt("rename") => off.cipher = off.source
  /\ off.pc \in {"recheck", "mark"} \union Marked => Present(off.source.id)

\* Where the marker is, and what the run believes.
OffPlaced ==
  /\ off.pc \in Unmarked => offMarker \in {off.previous, Garbled} /\ ~off.committed
  /\ off.pc \in Marked => offMarker \in {off.source.id, Garbled}
  /\ OffAt("tidy") \/ OffAt("restore") => off.committed
  /\ OffAt("rollback") => faults > 0

OffInv == OffTypeInv /\ SourceInv /\ CipherInv /\ OffPlaced

\* The marker names a ciphertext, and a run that fails withdraws another.
CopyInv ==
  /\ offMarker \in {None, Garbled} \/ Present(offMarker)
  /\ OffAt("discard") /\ off.published /\ ~off.committed => offMarker # off.source.id

-----------------------------------------------------------------------------
(* What a step may do to the variables.                                    *)

Core == <<core, lock, made>>
Store == <<bundles, marker, plan, rotted, points>>

\* A step of the off-site worker.
Quiet == UNCHANGED <<world, local>> /\ faults' \in {faults, faults + 1} /\ faults' <= MaxFaults

LocalStep == LocalNext \/ Quiet

LEMMA BundleFields ==
  /\ \A b \in Bundle : /\ b.id \in 1..MaxBundles /\ b.at \in 0..MaxTime
                       /\ b.schema \in 1..MaxSchema /\ b.dump \in 0..MaxSchema
                       /\ b.whole \in BOOLEAN
  /\ NoBundle \notin Bundle
  BY DEF Bundle, NoBundle

LEMMA FaultTypes ==
  ASSUME faults \in 0..MaxFaults, Fault
  PROVE  faults' \in 0..MaxFaults /\ faults' = faults + 1
  BY BackupBoundAssumption DEF Fault

\* The stages of a bundle.
LEMMA NamedBundle ==
  ASSUME now \in 0..MaxTime, schema \in 1..MaxSchema, NEW id \in 1..MaxBundles
  PROVE  /\ Named(id) \in Bundle
         /\ Named(id).id = id /\ Named(id).at = now /\ Named(id).schema = schema
  BY BackupBoundAssumption DEF Named, Bundle

LEMMA DumpedBundle ==
  ASSUME schema \in 1..MaxSchema, NEW b \in Bundle
  PROVE  /\ Dumped(b) \in Bundle
         /\ Dumped(b).id = b.id /\ Dumped(b).at = b.at /\ Dumped(b).schema = b.schema
         /\ Dumped(b).dump = schema
  BY DEF Dumped, Bundle

LEMMA DescribedBundle ==
  ASSUME NEW b \in Bundle
  PROVE  /\ Described(b) \in Bundle
         /\ Described(b).id = b.id /\ Described(b).at = b.at
         /\ Described(b).schema = b.schema /\ Described(b).dump = b.dump
         /\ Described(b).whole <=> b.dump # 0
  <1>1. Described(b) = [b EXCEPT !.whole = b.dump # 0] /\ (b.dump # 0) \in BOOLEAN
    BY DEF Described
  <1>2. Described(b).whole <=> b.dump # 0
    BY <1>1 DEF Bundle
  <1> QED BY <1>1, <1>2 DEF Bundle

Broken(b) == [b EXCEPT !.whole = FALSE]

LEMMA BrokenBundle ==
  ASSUME NEW b \in Bundle
  PROVE  /\ Broken(b) \in Bundle
         /\ Broken(b).id = b.id /\ Broken(b).at = b.at
         /\ Broken(b).schema = b.schema /\ Broken(b).dump = b.dump
         /\ ~Broken(b).whole
  <1>1. ~Broken(b).whole
    BY DEF Broken, Bundle
  <1> QED BY <1>1 DEF Broken, Bundle

-----------------------------------------------------------------------------
(* The run: types and names.                                               *)

CoreType == [pc : Pcs, bundle : Bundle \union {NoBundle}, previous : {None, Garbled} \union 1..MaxBundles]

LEMMA IdleCore ==
  Idle \in CoreType /\ Idle.pc = "idle" /\ Idle.bundle = NoBundle
  BY DEF Idle, CoreType, Pcs, None

LEMMA GoneTo ==
  ASSUME core \in CoreType, NEW pc \in Pcs, Goto(pc)
  PROVE  /\ core' \in CoreType /\ core'.pc = pc /\ core'.bundle = core.bundle
         /\ core'.previous = core.previous
  BY DEF Goto, CoreType

LEMMA GoneFrom ==
  ASSUME Leaves
  PROVE  core' = Idle /\ core' \in CoreType /\ core'.pc = "idle" /\ core'.bundle = NoBundle /\ lock' = "free"
  BY IdleCore DEF Leaves

LocalTypes == TypeOKLocal /\ CoreInv

\* Types of what is not the run's.
Typed ==
  /\ now \in 0..MaxTime /\ schema \in 1..MaxSchema /\ failing \in BOOLEAN
  /\ bundles \subseteq Bundle /\ plan \subseteq Bundle
  /\ marker \in {Garbled, None} \union 1..MaxBundles /\ faults \in 0..MaxFaults

RunTyped ==
  /\ core \in CoreType /\ (lock = "held" <=> core.pc # "idle")
  /\ CoreInv

LEMMA TypedParts == LocalTypes <=> Typed /\ RunTyped
  BY DEF LocalTypes, TypeOKLocal, Typed, RunTyped, CoreInv, CoreType, Pcs, Building, Committing, At

LEMMA RunFrame ==
  ASSUME RunTyped, UNCHANGED <<core, made, lock>>
  PROVE  RunTyped'
  BY DEF RunTyped, CoreInv, At

\* What a run that ends leaves of the invariant to show.
LEMMA RunEnds ==
  ASSUME RunTyped, core' = Idle, lock' # "held", UNCHANGED made
  PROVE  RunTyped'
  <1>1. core' \in CoreType /\ core'.pc = "idle" /\ core'.bundle = NoBundle
    BY IdleCore
  <1> QED BY <1>1 DEF RunTyped, CoreInv, CoreType, At, Building, Committing

\* A step from one stage of a commit to another.
LEMMA RunGoes ==
  ASSUME RunTyped, core.pc \in Committing, NEW pc \in Committing, Goto(pc), UNCHANGED <<lock, made>>
  PROVE  RunTyped'
  <1>1. /\ core' \in CoreType /\ core'.pc = pc /\ core'.bundle = core.bundle
        /\ core'.previous = core.previous
    BY GoneTo DEF RunTyped, Pcs
  <1> QED BY <1>1 DEF RunTyped, CoreInv, CoreType, At, Building, Committing

LEMMA RunTypedStep ==
  ASSUME LocalTypes, marker <= Used, LocalStep
  PROVE  RunTyped'
  <1>0. Typed /\ RunTyped
    BY TypedParts
  <1>1. ASSUME Begin PROVE RunTyped'
    <2>1. made < MaxBundles
      BY <1>0, <1>1, BackupBoundAssumption DEF Begin, RunTyped, CoreInv
    <2>2. /\ core' \in CoreType /\ core'.pc = "stage" /\ core'.bundle = core.bundle
      BY <1>0, <1>1, GoneTo DEF Begin, RunTyped, Pcs
    <2> QED BY <1>0, <1>1, <2>1, <2>2 DEF Begin, RunTyped, CoreInv, CoreType, At, Building, Committing
  <1>2. ASSUME Stage PROVE RunTyped'
    <2>1. ASSUME failing PROVE RunTyped'
      BY <1>0, <1>2, <2>1, RunEnds DEF Stage, Leaves
    <2>2. ASSUME ~failing PROVE RunTyped'
      <3>1. made + 1 \in 1..MaxBundles
        BY <1>0, <1>2, BackupBoundAssumption DEF Stage, RunTyped, CoreInv
      <3>2. Named(made + 1) \in Bundle /\ Named(made + 1).id = made + 1
        BY <1>0, <3>1, NamedBundle DEF Typed
      <3>3. core' = [core EXCEPT !.pc = "dump", !.bundle = Named(made + 1)] /\ core \in CoreType
        BY <1>0, <1>2, <2>2 DEF Stage, RunTyped
      <3>4. core' \in CoreType /\ core'.pc = "dump" /\ core'.bundle = Named(made + 1)
        BY <3>2, <3>3 DEF CoreType, Pcs, Building
      <3> QED BY <1>0, <1>2, <2>2, <3>1, <3>2, <3>4 DEF Stage, RunTyped, CoreInv, CoreType, At, Building, Committing
    <2> QED BY <2>1, <2>2
  <1>3. ASSUME Dump PROVE RunTyped'
    <2>1. core.bundle \in Bundle /\ core.bundle.id = made
      BY <1>0, <1>3 DEF Dump, RunTyped, CoreInv, At, Building
    <2>2. Dumped(core.bundle) \in Bundle /\ Dumped(core.bundle).id = made
      BY <1>0, <2>1, DumpedBundle DEF Typed
    <2>3. core' = [core EXCEPT !.pc = "describe", !.bundle = Dumped(core.bundle)] /\ core \in CoreType
      BY <1>0, <1>3 DEF Dump, RunTyped
    <2>4. core' \in CoreType /\ core'.pc = "describe" /\ core'.bundle = Dumped(core.bundle)
      BY <2>2, <2>3 DEF CoreType, Pcs, Building
    <2> QED BY <1>0, <1>3, <2>2, <2>4 DEF Dump, RunTyped, CoreInv, CoreType, At, Building, Committing
  <1>4. ASSUME Describe PROVE RunTyped'
    <2>1. ASSUME failing \/ schema # core.bundle.schema PROVE RunTyped'
      BY <1>0, <1>4, <2>1, RunEnds DEF Describe, Leaves
    <2>2. ASSUME ~(failing \/ schema # core.bundle.schema) PROVE RunTyped'
      <3>1. core.bundle \in Bundle /\ core.bundle.id = made
        BY <1>0, <1>4 DEF Describe, RunTyped, CoreInv, At, Building
      <3>2. Described(core.bundle) \in Bundle /\ Described(core.bundle).id = made
        BY <3>1, DescribedBundle
      <3>3. core' = [core EXCEPT !.pc = "publish", !.bundle = Described(core.bundle)] /\ core \in CoreType
        BY <1>0, <1>4, <2>2 DEF Describe, RunTyped
      <3>4. core' \in CoreType /\ core'.pc = "publish" /\ core'.bundle = Described(core.bundle)
        BY <3>2, <3>3 DEF CoreType, Pcs, Building
      <3> QED BY <1>0, <1>4, <2>2, <3>2, <3>4 DEF Describe, RunTyped, CoreInv, CoreType, At, Building, Committing
    <2> QED BY <2>1, <2>2
  <1>5. ASSUME Publish PROVE RunTyped'
    <2>1. ASSUME marker = Garbled \/ ~Verified(core.bundle) PROVE RunTyped'
      BY <1>0, <1>5, <2>1, RunEnds DEF Publish, Leaves
    <2>2. ASSUME ~(marker = Garbled \/ ~Verified(core.bundle)) PROVE RunTyped'
      <3>1. core.bundle \in Bundle /\ core.bundle.id = made /\ marker < made
        <4>1. core.bundle \in Bundle /\ core.bundle.id = made /\ made \in Nat /\ marker <= made - 1
          BY <1>0, <1>5 DEF Publish, RunTyped, CoreInv, At, Building, Used
        <4>2. marker \in Int
          BY <1>0, BackupBoundAssumption DEF Typed, Garbled, None
        <4> QED BY <4>1, <4>2
      <3>2. core' = [core EXCEPT !.pc = "mark", !.previous = marker] /\ core \in CoreType
        BY <1>0, <1>5, <2>2 DEF Publish, RunTyped
      <3>3. /\ core' \in CoreType /\ core'.pc = "mark" /\ core'.bundle = core.bundle
            /\ core'.previous = marker
        BY <1>0, <3>2 DEF CoreType, Pcs, Committing, Typed
      <3> QED BY <1>0, <1>5, <2>2, <3>1, <3>3 DEF Publish, RunTyped, CoreInv, CoreType, At, Building, Committing
    <2> QED BY <2>1, <2>2
  <1>6. ASSUME Mark PROVE RunTyped'
    BY <1>0, <1>6, RunGoes DEF Mark, At, Committing
  <1>7. ASSUME Settle PROVE RunTyped'
    BY <1>0, <1>7, RunEnds DEF Settle, Leaves
  <1>8. ASSUME StepFails PROVE RunTyped'
    <2>1. ASSUME At("mark") PROVE RunTyped'
      <3>1. Goto("remove") /\ UNCHANGED <<lock, made>>
        BY <1>8, <2>1 DEF StepFails, At
      <3> QED BY <1>0, <2>1, <3>1, RunGoes DEF At, Committing
    <2>2. ASSUME At("settle") PROVE RunTyped'
      <3>1. Goto("restore") /\ UNCHANGED <<lock, made>>
        BY <1>8, <2>2 DEF StepFails, At
      <3> QED BY <1>0, <2>2, <3>1, RunGoes DEF At, Committing
    <2>3. ASSUME ~At("mark"), ~At("settle") PROVE RunTyped'
      <3>1. Leaves /\ UNCHANGED made
        BY <1>8, <2>3 DEF StepFails
      <3> QED BY <1>0, <3>1, RunEnds DEF Leaves
    <2> QED BY <2>1, <2>2, <2>3
  <1>9. ASSUME Restore PROVE RunTyped'
    BY <1>0, <1>9, RunGoes DEF Restore, At, Committing
  <1>10. ASSUME Remove PROVE RunTyped'
    BY <1>0, <1>10, RunEnds DEF Remove, Leaves
  <1>11. ASSUME KillCore PROVE RunTyped'
    BY <1>0, <1>11, RunEnds DEF KillCore
  <1>12. ASSUME ClearLock PROVE RunTyped'
    BY <1>0, <1>12 DEF ClearLock, RunTyped, CoreInv, At
  <1>13. ASSUME Tick \/ Migrates \/ HostChanges \/ Plans \/ Prunes \/ Rots \/ Quiet PROVE RunTyped'
    <2>1. UNCHANGED <<core, made, lock>>
      BY <1>13 DEF Tick, Migrates, HostChanges, Plans, Prunes, Rots, Quiet, local
    <2> QED BY <1>0, <2>1, RunFrame
  <1> QED BY <1>1, <1>2, <1>3, <1>4, <1>5, <1>6, <1>7, <1>8, <1>9, <1>10, <1>11, <1>12, <1>13
          DEF LocalStep, LocalNext, BackupStep

-----------------------------------------------------------------------------
(* The directory.  A step publishes the run's bundle, or removes bundles,  *)
(* or breaks one.                                                          *)

Thins ==
  \/ bundles' \subseteq bundles
  \/ \E x \in bundles : bundles' \subseteq (bundles \ {x}) \union {Broken(x)}

Publishes == At("publish") /\ core.bundle.whole /\ bundles' = bundles \union {core.bundle}
             /\ core' = [core EXCEPT !.pc = "mark", !.previous = marker] /\ marker # Garbled

LEMMA StoreStep ==
  ASSUME LocalStep
  PROVE  Thins \/ (Publish /\ Publishes)
  <1>1. ASSUME Publish PROVE Thins \/ (Publish /\ Publishes)
    BY <1>1 DEF Publish, Publishes, Thins, Verified
  <1>2. ASSUME StepFails PROVE Thins
    <2>1. ASSUME At("remove"), core.bundle \in bundles PROVE Thins
      <3>1. bundles' = {IF b = core.bundle THEN [b EXCEPT !.whole = FALSE] ELSE b : b \in bundles}
        BY <1>2, <2>1 DEF StepFails
      <3>2. bundles' \subseteq (bundles \ {core.bundle}) \union {Broken(core.bundle)}
        BY <3>1 DEF Broken
      <3> QED BY <2>1, <3>2 DEF Thins
    <2>2. ASSUME ~(At("remove") /\ core.bundle \in bundles) PROVE Thins
      <3>1. bundles' = bundles
        BY <1>2, <2>2 DEF StepFails
      <3> QED BY <3>1 DEF Thins
    <2> QED BY <2>1, <2>2
  <1>3. ASSUME Rots PROVE Thins
    BY <1>3 DEF Rots, Thins, Broken, Valid
  <1>4. ASSUME Remove \/ Prunes PROVE Thins
    BY <1>4 DEF Remove, Prunes, Thins
  <1>5. ASSUME Begin \/ Stage \/ Dump \/ Describe \/ Mark \/ Settle \/ Restore PROVE Thins
    BY <1>5 DEF Begin, Stage, Dump, Describe, Mark, Settle, Restore, Thins
  <1>6. ASSUME KillCore \/ ClearLock \/ Tick \/ Migrates \/ HostChanges \/ Plans \/ Quiet PROVE Thins
    BY <1>6 DEF KillCore, ClearLock, Tick, Migrates, HostChanges, Plans, Quiet, Thins, local
  <1> QED BY <1>1, <1>2, <1>3, <1>4, <1>5, <1>6 DEF LocalStep, LocalNext, BackupStep

Alike(c, b) == c.id = b.id /\ c.at = b.at /\ c.schema = b.schema /\ c.dump = b.dump

\* What is left of each bundle.
LEMMA ThinnedBundles ==
  ASSUME bundles \subseteq Bundle, Thins
  PROVE  /\ bundles' \subseteq Bundle
         /\ \A c \in bundles' : \E b \in bundles : Alike(c, b) /\ (c.whole => c = b)
  <1>1. ASSUME bundles' \subseteq bundles
        PROVE  /\ bundles' \subseteq Bundle
               /\ \A c \in bundles' : \E b \in bundles : Alike(c, b) /\ (c.whole => c = b)
    BY <1>1 DEF Alike
  <1>2. ASSUME NEW x \in bundles, bundles' \subseteq (bundles \ {x}) \union {Broken(x)}
        PROVE  /\ bundles' \subseteq Bundle
               /\ \A c \in bundles' : \E b \in bundles : Alike(c, b) /\ (c.whole => c = b)
    <2>1. Broken(x) \in Bundle /\ Alike(Broken(x), x) /\ ~Broken(x).whole
      BY BrokenBundle DEF Alike
    <2>2. \A b \in bundles : Alike(b, b)
      BY DEF Alike
    <2> HIDE DEF Broken, Alike
    <2>3. ASSUME NEW c \in bundles'
          PROVE  \E b \in bundles : Alike(c, b) /\ (c.whole => c = b)
      <3>1. ASSUME c = Broken(x) PROVE Alike(c, x) /\ (c.whole => c = x)
        BY <2>1, <3>1
      <3>2. ASSUME c \in bundles PROVE Alike(c, c)
        BY <2>2, <3>2
      <3> QED BY <1>2, <3>1, <3>2
    <2> QED BY <1>2, <2>1, <2>3
  <1> QED BY <1>1, <1>2 DEF Thins

LEMMA ThinnedFinite ==
  ASSUME IsFiniteSet(bundles), Thins
  PROVE  IsFiniteSet(bundles')
  <1>1. ASSUME bundles' \subseteq bundles PROVE IsFiniteSet(bundles')
    BY <1>1, FS_Subset
  <1>2. ASSUME NEW x \in bundles, bundles' \subseteq (bundles \ {x}) \union {Broken(x)}
        PROVE  IsFiniteSet(bundles')
    <2>1. IsFiniteSet(bundles \union {Broken(x)})
      BY FS_AddElement
    <2>2. bundles' \subseteq bundles \union {Broken(x)}
      BY <1>2
    <2> QED BY <2>1, <2>2, FS_Subset
  <1> QED BY <1>1, <1>2 DEF Thins

\* The names stay unique.
UniqueNames(S) == \A b, c \in S : b.id = c.id => b = c

LEMMA ThinnedUnique ==
  ASSUME bundles \subseteq Bundle, UniqueNames(bundles), Thins
  PROVE  UniqueNames(bundles)'
  <1>1. ASSUME bundles' \subseteq bundles PROVE UniqueNames(bundles)'
    BY <1>1 DEF UniqueNames
  <1>2. ASSUME NEW x \in bundles, bundles' \subseteq (bundles \ {x}) \union {Broken(x)}
        PROVE  UniqueNames(bundles)'
    <2>1. Broken(x).id = x.id
      BY BrokenBundle
    <2>2. \A b \in bundles \ {x} : b.id # x.id
      BY DEF UniqueNames
    <2> HIDE DEF Broken
    <2> QED BY <1>2, <2>1, <2>2 DEF UniqueNames
  <1> QED BY <1>1, <1>2 DEF Thins

-----------------------------------------------------------------------------
(* What a step does to the marker, the plan and the counters.              *)

LEMMA MarkerStep ==
  ASSUME LocalStep
  PROVE  \/ marker' = marker
         \/ Rots /\ marker' = Garbled
         \/ Mark /\ marker' = core.bundle.id
         \/ Restore /\ marker' = core.previous
  BY DEF LocalStep, LocalNext, BackupStep, Begin, Stage, Dump, Describe, Publish, Mark, Settle,
         Restore, Remove, StepFails, KillCore, ClearLock, Tick, Migrates, HostChanges, Plans,
         Prunes, Rots, Quiet, local

LEMMA PlanStep ==
  ASSUME LocalStep
  PROVE  plan' \subseteq plan \/ (Plans /\ plan' = PruneCandidates)
  BY DEF LocalStep, LocalNext, BackupStep, Begin, Stage, Dump, Describe, Publish, Mark, Settle,
         Restore, Remove, StepFails, KillCore, ClearLock, Tick, Migrates, HostChanges, Plans,
         Prunes, Rots, Quiet, local

LEMMA CounterStep ==
  ASSUME Typed, LocalStep
  PROVE  /\ now' = now \/ (now' = now + 1 /\ now' <= MaxTime)
         /\ schema' = schema \/ (schema' = schema + 1 /\ schema' <= MaxSchema)
         /\ faults' = faults \/ (faults' = faults + 1 /\ faults' <= MaxFaults)
         /\ failing' \in BOOLEAN
  <1>0. /\ now \in Nat /\ schema \in Nat /\ faults \in Nat /\ failing \in BOOLEAN
        /\ MaxTime \in Nat /\ MaxSchema \in Nat /\ MaxFaults \in Nat
    BY BackupBoundAssumption DEF Typed
  <1>1. ASSUME Begin \/ Stage \/ Dump \/ Describe \/ Publish \/ Mark \/ Settle \/ Restore \/ Remove
               \/ ClearLock \/ Plans \/ Prunes \/ Rots
        PROVE  UNCHANGED <<now, schema, faults, failing>>
    BY <1>1 DEF Begin, Stage, Dump, Describe, Publish, Mark, Settle,
                Restore, Remove, ClearLock, Plans, Prunes, Rots, world
  <1>2. ASSUME StepFails \/ KillCore
        PROVE  UNCHANGED <<now, schema, failing>> /\ faults' = faults + 1 /\ faults < MaxFaults
    BY <1>2 DEF StepFails, KillCore, Fault, world
  <1>3. ASSUME Tick
        PROVE  UNCHANGED <<schema, failing, faults>> /\ now' = now + 1 /\ now < MaxTime
    BY <1>3 DEF Tick
  <1>4. ASSUME Migrates
        PROVE  /\ UNCHANGED <<now, faults>> /\ failing' \in BOOLEAN
               /\ schema' = schema \/ (schema' = schema + 1 /\ schema < MaxSchema)
    BY <1>4 DEF Migrates
  <1>5. ASSUME HostChanges PROVE UNCHANGED <<now, schema, faults, failing>>
    BY <1>5 DEF HostChanges
  <1>6. ASSUME Quiet
        PROVE  /\ UNCHANGED <<now, schema, failing>>
               /\ faults' = faults \/ (faults' = faults + 1 /\ faults' <= MaxFaults)
    BY <1>6 DEF Quiet, world
  <1> QED BY <1>0, <1>1, <1>2, <1>3, <1>4, <1>5, <1>6 DEF LocalStep, LocalNext, BackupStep

\* The names in use grow, and so do the names made.
LEMMA UsedStep ==
  ASSUME LocalTypes, LocalStep
  PROVE  /\ Used \in -1..MaxBundles /\ made \in 0..MaxBundles
         /\ Used <= made
         /\ Used <= Used'
         /\ made' = made \/ (Stage /\ ~failing /\ made' = made + 1)
         /\ Publish => Used <= made - 1
  <1>0. made \in 0..MaxBundles /\ MaxBundles \in Nat /\ core.pc \in Pcs
    BY BackupBoundAssumption DEF LocalTypes, CoreInv
  <1>1. ASSUME Stage PROVE Used <= Used' /\ (made' = made \/ (~failing /\ made' = made + 1))
    <2>1. Used = made
      BY <1>1 DEF Stage, At, Used, Building
    <2>2. ASSUME failing PROVE made' = made /\ core'.pc = "idle"
      BY <1>1, <2>2, GoneFrom DEF Stage
    <2>3. ASSUME ~failing PROVE made' = made + 1
      BY <1>1, <2>3 DEF Stage
    <2>4. made' - 1 <= Used'
      BY <1>0, <2>2, <2>3 DEF Used
    <2>5. failing => Used' = made'
      BY <2>2 DEF Used, Building
    <2> QED BY <1>0, <2>1, <2>2, <2>3, <2>4, <2>5
  <1>2. ASSUME LocalStep, ~Stage PROVE made' = made /\ (core'.pc \in Building => core.pc \in Building)
    <2>1. made' = made
      BY <1>2 DEF LocalStep, LocalNext, BackupStep, Begin, Dump, Describe, Publish, Mark, Settle,
                  Restore, Remove, StepFails, KillCore, ClearLock, Tick, Migrates, HostChanges, Plans,
                  Prunes, Rots, Quiet, local
    <2>2. core \in CoreType
      BY DEF LocalTypes, CoreInv, CoreType
    <2>3. ASSUME Begin \/ Mark \/ Settle \/ Restore \/ Remove \/ StepFails \/ KillCore
          PROVE  core'.pc \notin Building
      <3>1. ASSUME Leaves \/ core' = Idle PROVE core'.pc = "idle"
        BY <3>1, IdleCore DEF Leaves
      <3>2. \A pc \in Pcs : Goto(pc) => core'.pc = pc
        BY <2>2, GoneTo
      <3> QED BY <2>3, <3>1, <3>2 DEF Begin, Mark, Settle, Restore, Remove, StepFails, KillCore, Building, Pcs, Committing
    <2>4. ASSUME Dump \/ Describe \/ Publish PROVE core.pc \in Building
      BY <2>4 DEF Dump, Describe, Publish, At, Building
    <2>5. ASSUME ClearLock \/ Tick \/ Migrates \/ HostChanges \/ Plans \/ Prunes \/ Rots \/ Quiet
          PROVE  core' = core
      BY <2>5 DEF ClearLock, Tick, Migrates, HostChanges, Plans, Prunes, Rots, Quiet, local
    <2> QED BY <1>2, <2>1, <2>3, <2>4, <2>5 DEF LocalStep, LocalNext, BackupStep
  <1>3. ~Stage => Used <= Used' /\ made' = made
    BY <1>0, <1>2 DEF Used
  <1>4. Publish => Used <= made - 1
    BY <1>0 DEF Publish, At, Used, Building
  <1> QED BY <1>0, <1>1, <1>3, <1>4 DEF Used

LEMMA TypedStep ==
  ASSUME LocalTypes, LocalStep
  PROVE  Typed'
  <1>0. Typed /\ RunTyped
    BY TypedParts
  <1>1. /\ now \in Nat /\ schema \in 1..MaxSchema /\ faults \in Nat /\ MaxTime \in Nat /\ MaxSchema \in Nat
        /\ MaxFaults \in Nat
    BY <1>0, BackupBoundAssumption DEF Typed
  <1>2. /\ now' \in 0..MaxTime /\ schema' \in 1..MaxSchema /\ failing' \in BOOLEAN
        /\ faults' \in 0..MaxFaults
    BY <1>0, <1>1, CounterStep DEF Typed
  <1>3. bundles' \subseteq Bundle
    <2>1. ASSUME Publish, Publishes PROVE bundles' \subseteq Bundle
      BY <1>0, <2>1 DEF Publishes, At, RunTyped, CoreInv, Building, Typed
    <2> QED BY <1>0, <2>1, StoreStep, ThinnedBundles DEF Typed
  <1>4. plan' \subseteq Bundle
    BY <1>0, PlanStep DEF Typed, PruneCandidates, Past, Valid
  <1>5. marker' \in {Garbled, None} \union 1..MaxBundles
    <2>1. ASSUME Mark PROVE core.bundle.id \in 1..MaxBundles
      BY <1>0, <2>1, BundleFields DEF Mark, At, RunTyped, CoreInv, Committing
    <2>2. core.previous \in {Garbled, None} \union 1..MaxBundles
      BY <1>0 DEF RunTyped, CoreType
    <2> QED BY <1>0, <2>1, <2>2, MarkerStep DEF Typed
  <1> QED BY <1>2, <1>3, <1>4, <1>5 DEF Typed

\* How a run gets on.
Stages == Stage /\ ~failing /\ core'.pc = "dump" /\ core'.bundle = Named(made + 1)
Dumps == Dump /\ core'.pc = "describe" /\ core'.bundle = Dumped(core.bundle)
Describes == Describe /\ schema = core.bundle.schema
             /\ core'.pc = "publish" /\ core'.bundle = Described(core.bundle)
GetsOut == Publish /\ Publishes /\ core'.pc = "mark" /\ core'.bundle = core.bundle /\ core'.previous = marker
StaysPut == UNCHANGED core
Commits ==
  /\ core.pc \in Committing /\ core'.pc \in Committing
  /\ core'.bundle = core.bundle /\ core'.previous = core.previous
  /\ \/ Mark /\ core'.pc = "settle"
     \/ StepFails /\ At("mark") /\ core'.pc = "remove" /\ bundles' = bundles
     \/ StepFails /\ At("settle") /\ core'.pc = "restore" /\ bundles' = bundles
     \/ Restore /\ core'.pc = "remove"

LEMMA RunStep ==
  ASSUME LocalTypes, LocalStep, core'.pc \in Building \union Committing
  PROVE  Stages \/ Dumps \/ Describes \/ GetsOut \/ Commits \/ StaysPut
  <1>0. core \in CoreType
    BY DEF LocalTypes, CoreInv, CoreType
  <1>1. ~Leaves /\ core' # Idle
    BY IdleCore DEF Leaves, Building, Committing
  <1>2. ASSUME Begin PROVE FALSE
    BY <1>0, <1>2, GoneTo DEF Begin, Building, Committing, Pcs
  <1>3. ASSUME Stage PROVE Stages
    <2>1. ~failing /\ core' = [core EXCEPT !.pc = "dump", !.bundle = Named(made + 1)]
      BY <1>1, <1>3 DEF Stage
    <2> QED BY <1>0, <1>3, <2>1 DEF Stages, CoreType
  <1>4. ASSUME Dump PROVE Dumps
    <2>1. core' = [core EXCEPT !.pc = "describe", !.bundle = Dumped(core.bundle)]
      BY <1>0, <1>4 DEF Dump, CoreType
    <2> QED BY <1>0, <1>4, <2>1 DEF Dumps, CoreType
  <1>5. ASSUME Describe PROVE Describes
    <2>1. /\ schema = core.bundle.schema
          /\ core' = [core EXCEPT !.pc = "publish", !.bundle = Described(core.bundle)]
      BY <1>0, <1>1, <1>5 DEF Describe, CoreType
    <2> QED BY <1>0, <1>5, <2>1 DEF Describes, CoreType
  <1>6. ASSUME Publish PROVE GetsOut
    <2>1. Publishes
      BY <1>1, <1>6 DEF Publish, Publishes, Verified
    <2>2. core' = [core EXCEPT !.pc = "mark", !.previous = marker]
      BY <2>1 DEF Publishes
    <2> QED BY <1>0, <1>6, <2>1, <2>2 DEF GetsOut, CoreType
  <1>7. ASSUME Mark PROVE Commits
    <2>1. Goto("settle") /\ core.pc = "mark"
      BY <1>7 DEF Mark, At
    <2> QED BY <1>0, <1>7, <2>1, GoneTo DEF Commits, Committing, Pcs
  <1>8. ASSUME StepFails PROVE Commits
    <2>1. ASSUME At("mark") PROVE Commits
      <3>1. Goto("remove") /\ bundles' = bundles
        BY <1>8, <2>1 DEF StepFails, At
      <3> QED BY <1>0, <1>8, <2>1, <3>1, GoneTo DEF Commits, Committing, Pcs, At
    <2>2. ASSUME At("settle") PROVE Commits
      <3>1. Goto("restore") /\ bundles' = bundles
        BY <1>8, <2>2 DEF StepFails, At
      <3> QED BY <1>0, <1>8, <2>2, <3>1, GoneTo DEF Commits, Committing, Pcs, At
    <2>3. ASSUME ~At("mark"), ~At("settle") PROVE FALSE
      BY <1>1, <1>8, <2>3 DEF StepFails
    <2> QED BY <2>1, <2>2, <2>3
  <1>9. ASSUME Restore PROVE Commits
    <2>1. Goto("remove") /\ core.pc = "restore"
      BY <1>9 DEF Restore, At
    <2> QED BY <1>0, <1>9, <2>1, GoneTo DEF Commits, Committing, Pcs
  <1>10. ASSUME Settle \/ Remove \/ KillCore PROVE FALSE
    BY <1>1, <1>10 DEF Settle, Remove, KillCore
  <1>11. ASSUME ClearLock \/ Tick \/ Migrates \/ HostChanges \/ Plans \/ Prunes \/ Rots \/ Quiet
         PROVE  StaysPut
    BY <1>11 DEF ClearLock, Tick, Migrates, HostChanges, Plans, Prunes, Rots, Quiet, local, StaysPut
  <1> QED BY <1>2, <1>3, <1>4, <1>5, <1>6, <1>7, <1>8, <1>9, <1>10, <1>11
          DEF LocalStep, LocalNext, BackupStep

-----------------------------------------------------------------------------
(* A plan keeps what has fewer than `Recent' newer bundles.                *)

LEMMA FewNewer ==
  ASSUME NEW b \in Past, NEW S, IsFiniteSet(S), Cardinality(S) < Recent,
         {c \in Past : Newer(c, b)} \subseteq S
  PROVE  b \notin PruneCandidates
  <1> DEFINE N == {c \in Past : Newer(c, b)}
  <1>1. IsFiniteSet(N) /\ Cardinality(N) <= Cardinality(S)
    BY FS_Subset
  <1>2. Cardinality(N) \in Nat /\ Cardinality(S) \in Nat /\ Recent \in Nat
    BY <1>1, FS_CardinalityType, RetentionAssumption
  <1>3. Cardinality(N) < Recent
    BY <1>1, <1>2
  <1>4. b \in Keep
    BY <1>3 DEF Keep
  <1> QED BY <1>4 DEF PruneCandidates

\* Bundles are as new as their names.
LEMMA NewerNames ==
  ASSUME LocalInv, NEW b \in bundles, NEW c \in bundles
  PROVE  Newer(c, b) <=> c.id > b.id
  <1>1. /\ b.id \in Nat /\ c.id \in Nat /\ b.at \in Nat /\ c.at \in Nat
    BY BundleFields, BackupBoundAssumption DEF LocalInv, TypeOKLocal
  <1>2. /\ b.id = c.id => b = c
        /\ b.id < c.id => b.at <= c.at
        /\ c.id < b.id => c.at <= b.at
    BY DEF LocalInv, NameInv
  <1> QED BY <1>1, <1>2 DEF Newer

\* The bundle being committed is the newest: no plan offers it.
LEMMA NewestStays ==
  ASSUME LocalInv, core.pc \in Committing, NEW b \in PruneCandidates
  PROVE  b.id < made
  <1>1. b \in Past /\ b \in bundles /\ b.id \in Nat /\ made \in Nat
    BY BundleFields, BackupBoundAssumption
       DEF LocalInv, TypeOKLocal, CoreInv, PruneCandidates, Past, Valid
  <1>2. \A c \in bundles : c.id \in Nat /\ c.id <= made
    BY BundleFields, BackupBoundAssumption
       DEF LocalInv, TypeOKLocal, NameInv, Used, Committing, Building
  <1>3. ASSUME b.id = made PROVE FALSE
    <2>1. ASSUME NEW c \in Past PROVE ~Newer(c, b)
      BY <1>1, <1>2, <1>3, <2>1, NewerNames DEF Past, Valid
    <2>2. {c \in Past : Newer(c, b)} \subseteq {}
      BY <2>1
    <2>3. IsFiniteSet({}) /\ Cardinality({}) < Recent
      BY FS_EmptySet, RetentionAssumption
    <2> QED BY <1>1, <2>2, <2>3, FewNewer
  <1> QED BY <1>1, <1>2, <1>3

LEMMA DayOf ==
  /\ \A t \in Nat : Day(t) \in Nat /\ 2 * Day(t) <= t /\ t <= 2 * Day(t) + 1
  /\ \A t \in Nat : FromSix(t) <=> t = 2 * Day(t) + 1
  /\ \A t, u \in Nat : t <= u => Day(t) <= Day(u)
  BY DEF Day, FromSix

-----------------------------------------------------------------------------
(* The names.                                                              *)

LEMMA NameInvStep ==
  ASSUME LocalInv, LocalStep, LocalTypes'
  PROVE  NameInv'
  <1>0. LocalTypes /\ Typed /\ RunTyped /\ Typed' /\ RunTyped'
    <2>1. LocalTypes
      BY DEF LocalInv, LocalTypes
    <2>2. Typed' /\ RunTyped'
      BY DEF LocalTypes, TypeOKLocal, Typed, RunTyped, CoreInv, CoreType, Pcs, Building, Committing, At
    <2> QED BY <2>1, <2>2, TypedParts
  <1>1. /\ now \in Nat /\ now' \in Nat /\ now <= now' /\ made \in Nat /\ Used \in Int /\ Used' \in Int
        /\ Used <= Used' /\ Used <= made /\ made <= made'
        /\ MaxBundles \in Nat /\ MaxTime \in Nat /\ made' \in Nat
    <2>1. now \in Nat /\ now' \in Nat /\ MaxBundles \in Nat /\ MaxTime \in Nat /\ made' \in Nat
      BY <1>0, BackupBoundAssumption DEF Typed, RunTyped, CoreInv
    <2>2. Used' \in Int
      BY <2>1 DEF Used
    <2> QED BY <1>0, <2>1, <2>2, UsedStep, CounterStep
  <1>2. \A b \in Bundle : b.id \in Nat /\ b.at \in Nat
    BY <1>1, BundleFields
  <1>3. bundles \subseteq Bundle /\ plan \subseteq Bundle
    BY <1>0 DEF Typed
  <1>4. ASSUME Publish, Publishes
        PROVE  /\ core.bundle \in Bundle /\ core.bundle.id = made /\ Used' = made /\ made' = made
               /\ core.bundle.at <= now /\ \A b \in bundles : b.id < made /\ b.at <= core.bundle.at
    <2>1. core.bundle \in Bundle /\ core.bundle.id = made
      BY <1>0, <1>4 DEF Publish, At, RunTyped, CoreInv, Building
    <2>2. core.bundle.at <= now /\ \A b \in bundles : b.at <= core.bundle.at
      BY <1>4 DEF Publish, At, LocalInv, NameInv, Building
    <2>3. \A b \in bundles : b.id <= made - 1
      BY <1>4 DEF Publish, At, LocalInv, NameInv, Building, Used
    <2>4. core'.pc = "mark" /\ made' = made
      BY <1>0, <1>4 DEF Publishes, Publish, RunTyped, CoreType, At, Leaves
    <2> QED BY <1>1, <1>2, <1>3, <2>1, <2>2, <2>3, <2>4 DEF Used, Building
  <1>5. IsFiniteSet(bundles)'
    <2>1. IsFiniteSet(bundles) /\ (Publish /\ Publishes => IsFiniteSet(bundles \union {core.bundle}))
      BY FS_AddElement DEF LocalInv, NameInv
    <2> QED BY <2>1, StoreStep, ThinnedFinite DEF Publishes
  <1>6. UniqueNames(bundles)'
    <2>1. UniqueNames(bundles)
      BY DEF LocalInv, NameInv, UniqueNames
    <2>2. ASSUME Publish, Publishes PROVE UniqueNames(bundles)'
      BY <1>1, <1>2, <1>3, <1>4, <2>1, <2>2 DEF Publishes, UniqueNames
    <2> QED BY <1>3, <2>1, <2>2, StoreStep, ThinnedUnique
  <1>7. Thins => \A c \in bundles' : \E b \in bundles : c.id = b.id /\ c.at = b.at
    BY <1>3, ThinnedBundles DEF Alike
  <1>8. (\A b \in bundles \union plan : b.id <= Used)'
    <2>1. \A b \in bundles \union plan : b.id <= Used /\ b.id \in Nat
      BY <1>2, <1>3 DEF LocalInv, NameInv
    <2>2. \A b \in bundles' : b.id <= Used'
      BY <1>1, <1>2, <1>3, <1>4, <1>7, <2>1, StoreStep DEF Publishes
    <2>3. \A b \in plan' : b.id <= Used'
      BY <1>1, <2>1, PlanStep DEF PruneCandidates, Past, Valid
    <2> QED BY <2>2, <2>3
  <1>9. (\A b \in bundles : b.at <= now)'
    <2>1. \A b \in bundles : b.at <= now
      BY DEF LocalInv, NameInv
    <2> QED BY <1>1, <1>2, <1>3, <1>4, <1>7, <2>1, StoreStep DEF Publishes
  <1>10. (\A b, c \in bundles : b.id < c.id => b.at <= c.at)'
    <2>1. \A b, c \in bundles : b.id < c.id => b.at <= c.at
      BY DEF LocalInv, NameInv
    <2>2. ASSUME Thins, NEW b \in bundles', NEW c \in bundles', b.id < c.id PROVE b.at <= c.at
      BY <1>7, <2>1, <2>2
    <2>3. ASSUME Publish, Publishes, NEW b \in bundles', NEW c \in bundles', b.id < c.id PROVE b.at <= c.at
      <3>1. b \in bundles
        BY <1>1, <1>2, <1>3, <1>4, <2>3 DEF Publishes
      <3> QED BY <1>1, <1>2, <1>3, <1>4, <2>1, <2>3, <3>1 DEF Publishes
    <2> QED BY <2>2, <2>3, StoreStep
  <1>11. ASSUME core'.pc \in Building \union Committing
         PROVE  core'.bundle.at <= now' /\ \A b \in bundles' : b.at <= core'.bundle.at
    <2>1. ASSUME Stages PROVE core'.bundle.at <= now' /\ \A b \in bundles' : b.at <= core'.bundle.at
      <3>1. core'.bundle.at = now /\ bundles' = bundles
        BY <2>1 DEF Stages, Stage, Named
      <3> QED BY <1>1, <3>1 DEF LocalInv, NameInv
    <2>2. ASSUME ~Stages PROVE core'.bundle.at <= now' /\ \A b \in bundles' : b.at <= core'.bundle.at
      <3>1. core.pc \in Building \union Committing /\ core'.bundle.at = core.bundle.at
        <4>1. Dumps \/ Describes => core.pc \in Building /\ core.bundle \in Bundle
          BY <1>0 DEF Dumps, Describes, Dump, Describe, At, Building, RunTyped, CoreInv
        <4>2. \A b \in Bundle : Dumped(b).at = b.at /\ Described(b).at = b.at
          BY <1>0, DumpedBundle, DescribedBundle DEF Typed
        <4>3. GetsOut \/ Commits \/ StaysPut =>
                core.pc \in Building \union Committing /\ core'.bundle = core.bundle
          BY <1>11 DEF GetsOut, Commits, StaysPut, Publish, At, Building
        <4> QED BY <1>0, <1>11, <2>2, <4>1, <4>2, <4>3, RunStep DEF Dumps, Describes
      <3>2. core.bundle \in Bundle /\ core.bundle.at <= now /\ \A b \in bundles : b.at <= core.bundle.at
        BY <1>0, <3>1 DEF LocalInv, NameInv, RunTyped, CoreInv
      <3>3. \A b \in bundles' : b.at <= core.bundle.at
        BY <1>1, <1>2, <1>7, <3>2, StoreStep DEF Publishes
      <3> QED BY <1>1, <1>2, <3>1, <3>2, <3>3
    <2> QED BY <2>1, <2>2
  <1>12. ASSUME core'.pc \in Committing, NEW b \in plan' PROVE b.id < made'
    <2>1. ASSUME core.pc \in Committing PROVE b.id < made'
      <3>1. b \in plan \/ b \in PruneCandidates
        BY PlanStep
      <3>2. b.id < made
        BY <2>1, <3>1, NewestStays DEF LocalInv, NameInv
      <3>3. b \in Bundle
        BY <1>0 DEF Typed
      <3> QED BY <1>1, <1>2, <3>2, <3>3
    <2>2. ASSUME core.pc \notin Committing PROVE b.id < made'
      <3>1. GetsOut
        BY <1>0, <1>12, <2>2, RunStep DEF Stages, Dumps, Describes, Commits, StaysPut, Committing
      <3>2. plan' = plan /\ Used <= made - 1
        BY <1>0, <3>1, UsedStep DEF GetsOut, Publish
      <3>3. b.id <= Used /\ b.id \in Nat
        BY <1>2, <1>3, <3>2 DEF LocalInv, NameInv
      <3> QED BY <1>1, <3>2, <3>3
    <2> QED BY <2>1, <2>2
  <1>13. marker' <= Used'
    <2>1. marker <= Used /\ marker \in Int
      BY <1>0, BackupBoundAssumption DEF LocalInv, NameInv, Typed, Garbled, None
    <2>2. ASSUME Rots, marker' = Garbled PROVE marker' <= Used'
      <3>1. made' \in Nat
        BY <1>1
      <3>2. Used' = made' \/ Used' = made' - 1
        BY DEF Used
      <3>3. marker' = -1
        BY <2>2 DEF Garbled
      <3> QED BY <3>1, <3>2, <3>3
    <2>3. ASSUME Mark PROVE core.bundle.id = made /\ Used' = made
      <3>1. core.pc = "mark" /\ made' = made /\ Goto("settle")
        BY <2>3 DEF Mark, At
      <3>2. core'.pc = "settle"
        BY <1>0, <3>1, GoneTo DEF RunTyped, Pcs, Committing
      <3> QED BY <1>0, <3>1, <3>2 DEF RunTyped, CoreInv, Committing, Used, Building
    <2>4. ASSUME Restore PROVE core.previous < made /\ Used' = made /\ core.previous \in Int
      <3>1. core.pc = "restore" /\ made' = made /\ Goto("remove")
        BY <2>4 DEF Restore, At
      <3>2. core'.pc = "remove"
        BY <1>0, <3>1, GoneTo DEF RunTyped, Pcs, Committing
      <3> QED BY <1>0, <1>1, <3>1, <3>2 DEF RunTyped, CoreInv, CoreType, Committing, Used, Building, None, Garbled
    <2> QED BY <1>1, <2>1, <2>2, <2>3, <2>4, MarkerStep
  <1>14. (points \subseteq 0..Day(now))'
    <2>1. Day(now) \in Nat /\ Day(now') \in Nat /\ Day(now) <= Day(now')
      BY <1>1, DayOf
    <2>2. points \subseteq 0..Day(now)
      BY DEF LocalInv, NameInv
    <2>3. ASSUME Settle PROVE points' \subseteq 0..Day(now')
      <3>1. core.bundle \in Bundle /\ core.bundle.at <= now
        BY <1>0, <2>3 DEF Settle, At, Committing, RunTyped, CoreInv, LocalInv, NameInv
      <3>2. Day(core.bundle.at) \in Nat /\ Day(core.bundle.at) <= Day(now)
        BY <1>1, <1>2, <3>1, DayOf
      <3>3. points' \subseteq points \union {Day(core.bundle.at)}
        BY <2>3 DEF Settle
      <3> HIDE DEF Day
      <3> QED BY <2>1, <2>2, <3>2, <3>3
    <2>4. ~Settle => points' = points
      BY DEF LocalStep, LocalNext, BackupStep, Begin, Stage, Dump, Describe, Publish, Mark,
             Restore, Remove, StepFails, KillCore, ClearLock, Tick, Migrates, HostChanges, Plans,
             Prunes, Rots, Quiet, local
    <2>5. 0..Day(now) \subseteq 0..Day(now')
      <3> HIDE DEF Day
      <3> QED BY <2>1
    <2>6. points' \subseteq 0..Day(now')
      <3> HIDE DEF Day
      <3> QED BY <2>2, <2>3, <2>4, <2>5
    <2> QED BY <2>6 DEF Day
  <1> QED BY <1>5, <1>6, <1>8, <1>9, <1>10, <1>11, <1>12, <1>13, <1>14 DEF NameInv, UniqueNames

-----------------------------------------------------------------------------
(* The dumps.                                                              *)

\* A bundle that is there after a step, or is there broken.
Remains(b) ==
  \/ b \in bundles' /\ rotted \subseteq rotted'
  \/ Broken(b) \in bundles' /\ b.id \in rotted'

\* Every bundle remains that no plan offers and no commit that is undone takes back.
LEMMA BundleRemains ==
  ASSUME bundles \subseteq Bundle, LocalStep, NEW b \in bundles,
         \A c \in plan : c.id # b.id,
         Remove \/ (StepFails /\ At("remove")) => b.id # core.bundle.id
  PROVE  Remains(b)
  <1>1. ASSUME Rots PROVE Remains(b)
    <2>1. ASSUME NEW d \in Valid, bundles' = (bundles \ {d}) \union {Broken(d)}, rotted' = rotted \union {d.id}
          PROVE  Remains(b)
      <3> HIDE DEF Broken
      <3>1. CASE b = d
        BY <2>1, <3>1 DEF Remains
      <3>2. CASE b # d
        BY <2>1, <3>2 DEF Remains
      <3> QED BY <3>1, <3>2
    <2>2. (\E d \in Valid : bundles' = (bundles \ {d}) \union {Broken(d)} /\ rotted' = rotted \union {d.id})
          \/ UNCHANGED <<bundles, rotted>>
      BY <1>1 DEF Rots, Broken
    <2> QED BY <2>1, <2>2 DEF Remains
  <1>2. ~Rots => rotted' = rotted
    BY DEF LocalStep, LocalNext, BackupStep, Begin, Stage, Dump, Describe, Publish, Mark, Settle, Restore,
           Remove, StepFails, KillCore, ClearLock, Tick, Migrates, HostChanges, Plans, Prunes, Quiet, local
  <1>3. ASSUME Prunes \/ Remove PROVE b \in bundles'
    BY <1>3 DEF Prunes, Remove
  <1>4. ASSUME StepFails PROVE b \in bundles'
    <2>1. ~At("remove") => bundles' = bundles
      BY <1>4 DEF StepFails
    <2>2. At("remove") => bundles' = {IF d = core.bundle THEN [d EXCEPT !.whole = FALSE] ELSE d : d \in bundles}
      BY <1>4 DEF StepFails
    <2>3. At("remove") => b # core.bundle
      BY <1>4
    <2> QED BY <2>1, <2>2, <2>3
  <1>5. ASSUME ~Rots, ~Prunes, ~Remove, ~StepFails PROVE b \in bundles'
    BY <1>5 DEF LocalStep, LocalNext, BackupStep, Begin, Stage, Dump, Describe, Publish, Mark, Settle,
                Restore, KillCore, ClearLock, Tick, Migrates, HostChanges, Plans, Quiet, local
  <1> QED BY <1>1, <1>2, <1>3, <1>4, <1>5 DEF Remains

\* The bundle of the run in progress stays in the directory.
LEMMA CommittedStays ==
  ASSUME LocalInv, LocalStep, core.pc \in Committing, core'.pc \in Committing
  PROVE  \E b \in bundles' : b.id = made /\ b.at = core.bundle.at /\ (b = core.bundle \/ made \in rotted')
  <1>1. PICK b \in bundles : b.id = made /\ b.at = core.bundle.at /\ (b = core.bundle \/ made \in rotted)
    BY DEF LocalInv, DumpInv
  <1>2. bundles \subseteq Bundle
    BY DEF LocalInv, TypeOKLocal
  <1>3. \A c \in plan : c.id # b.id
    BY <1>1, BundleFields, BackupBoundAssumption DEF LocalInv, NameInv, TypeOKLocal, CoreInv
  <1>4. ~Remove /\ ~(StepFails /\ At("remove"))
    <2>1. ~Leaves
      BY IdleCore DEF Leaves, Committing
    <2> QED BY <2>1 DEF Remove, StepFails, At
  <1>5. Remains(b)
    BY <1>2, <1>3, <1>4, BundleRemains
  <1>6. Broken(b).id = b.id /\ Broken(b).at = b.at
    BY <1>2, BrokenBundle
  <1> HIDE DEF Broken
  <1> QED BY <1>1, <1>5, <1>6 DEF Remains

LEMMA DumpInvStep ==
  ASSUME LocalInv, LocalStep, LocalTypes'
  PROVE  DumpInv'
  <1>0. LocalTypes /\ Typed /\ RunTyped
    <2>1. LocalTypes
      BY DEF LocalInv, LocalTypes
    <2> QED BY <2>1, TypedParts
  <1>1. schema \in Nat /\ schema' \in Nat /\ schema <= schema' /\ made \in Nat
    BY <1>0, CounterStep, BackupBoundAssumption DEF Typed, RunTyped, CoreInv
  <1>2. \A b \in Bundle : b.schema \in Nat /\ b.dump \in Nat /\ b.schema > 0 /\ b.whole \in BOOLEAN
    BY BundleFields, BackupBoundAssumption
  <1>3. core.pc \in Building \union Committing => core.bundle \in Bundle /\ core.bundle.id = made
    BY <1>0 DEF RunTyped, CoreInv
  <1>4. \A b \in bundles' : b.schema = b.dump
    <2>1. \A b \in bundles : b.schema = b.dump
      BY DEF LocalInv, DumpInv
    <2>2. ASSUME Publish, Publishes PROVE \A b \in bundles' : b.schema = b.dump
      BY <2>1, <2>2 DEF Publishes, LocalInv, DumpInv
    <2>3. ASSUME Thins PROVE \A b \in bundles' : b.schema = b.dump
      <3>1. \A c \in bundles' : \E b \in bundles : c.schema = b.schema /\ c.dump = b.dump
        BY <1>0, <2>3, ThinnedBundles DEF Alike, Typed
      <3> QED BY <2>1, <3>1
    <2> QED BY <2>2, <2>3, StoreStep
  <1>5. ASSUME core'.pc = "dump" PROVE core'.bundle.schema <= schema'
    <2>1. ASSUME Stages PROVE core'.bundle.schema = schema
      BY <2>1 DEF Stages, Named
    <2>2. ASSUME StaysPut PROVE core'.bundle.schema = core.bundle.schema /\ core.bundle.schema <= schema
                                /\ core.bundle \in Bundle
      BY <1>3, <1>5, <2>2 DEF StaysPut, LocalInv, DumpInv, At, Building
    <2> QED BY <1>0, <1>1, <1>2, <1>5, <2>1, <2>2, RunStep
            DEF Dumps, Describes, GetsOut, Commits, Committing, Building
  <1>6. ASSUME core'.pc = "describe"
        PROVE  core'.bundle.schema <= core'.bundle.dump /\ core'.bundle.dump <= schema'
    <2>1. ASSUME Dumps PROVE core'.bundle.schema <= schema /\ core'.bundle.dump = schema
      <3>1. core.bundle \in Bundle /\ core.bundle.schema <= schema
        BY <1>3, <2>1 DEF Dumps, Dump, LocalInv, DumpInv, At, Building
      <3> QED BY <1>0, <2>1, <3>1, DumpedBundle DEF Dumps, Typed
    <2>2. ASSUME StaysPut
          PROVE  /\ core'.bundle = core.bundle /\ core.bundle.schema <= core.bundle.dump
                 /\ core.bundle.dump <= schema /\ core.bundle \in Bundle
      BY <1>3, <1>6, <2>2 DEF StaysPut, LocalInv, DumpInv, At, Building
    <2>3. Dumps \/ StaysPut
      BY <1>0, <1>6, RunStep DEF Stages, Describes, GetsOut, Commits, Committing, Building
    <2>4. core'.bundle \in Bundle
      BY <1>6 DEF LocalTypes, CoreInv, Building
    <2> QED BY <1>1, <1>2, <2>1, <2>2, <2>3, <2>4
  <1>7. ASSUME core'.pc = "publish", core'.bundle.whole
        PROVE  core'.bundle.schema = core'.bundle.dump
    <2>1. ASSUME Describes PROVE core'.bundle.schema = core'.bundle.dump
      <3>1. /\ core.bundle \in Bundle /\ core.bundle.schema = schema
            /\ core.bundle.schema <= core.bundle.dump /\ core.bundle.dump <= schema
        BY <1>3, <2>1 DEF Describes, Describe, LocalInv, DumpInv, At, Building
      <3>2. core.bundle.schema = core.bundle.dump
        BY <1>1, <1>2, <3>1
      <3> QED BY <2>1, <3>1, <3>2, DescribedBundle DEF Describes
    <2>2. ASSUME StaysPut PROVE core'.bundle.schema = core'.bundle.dump
      BY <1>7, <2>2 DEF StaysPut, LocalInv, DumpInv, At
    <2>3. Describes \/ StaysPut
      BY <1>0, <1>7, RunStep DEF Stages, Dumps, GetsOut, Commits, Committing, Building
    <2> QED BY <2>1, <2>2, <2>3
  <1>8. ASSUME core'.pc \in Committing
        PROVE  /\ core'.bundle.schema = core'.bundle.dump /\ core'.bundle.whole
               /\ \E b \in bundles' : b.id = made' /\ b.at = core'.bundle.at
                                      /\ (b = core'.bundle \/ made' \in rotted')
    <2>0. made' = made
      <3>1. ~Stage
        <4>1. ASSUME Stage PROVE FALSE
          BY <1>0, <1>8, <4>1, RunStep
             DEF Stages, Dumps, Describes, GetsOut, Commits, StaysPut, Committing, Stage, Dump, Describe,
                 Publish, At
        <4> QED BY <4>1
      <3> QED BY <1>0, <3>1, UsedStep
    <2>1. ASSUME core.pc \notin Committing
          PROVE  /\ core'.bundle.schema = core'.bundle.dump /\ core'.bundle.whole
                 /\ \E b \in bundles' : b.id = made /\ b.at = core'.bundle.at /\ b = core'.bundle
      <3>1. GetsOut
        BY <1>0, <1>8, <2>1, RunStep DEF Stages, Dumps, Describes, Commits, StaysPut, Committing
      <3>2. core.bundle.id = made /\ core.bundle.schema = core.bundle.dump
        BY <1>3, <3>1 DEF GetsOut, Publish, Publishes, LocalInv, DumpInv, At, Building
      <3> QED BY <3>1, <3>2 DEF GetsOut, Publishes
    <2>2. ASSUME core.pc \in Committing
          PROVE  /\ core'.bundle.schema = core'.bundle.dump /\ core'.bundle.whole
                 /\ core'.bundle = core.bundle
      <3>1. core'.bundle = core.bundle
        BY <1>0, <1>8, <2>2, RunStep
           DEF Stages, Dumps, Describes, GetsOut, Commits, StaysPut, Stage, Dump, Describe, Publish,
               At, Committing
      <3> QED BY <2>2, <3>1 DEF LocalInv, DumpInv
    <2> QED BY <1>8, <2>0, <2>1, <2>2, CommittedStays
  <1> QED BY <1>4, <1>5, <1>6, <1>7, <1>8 DEF DumpInv, At

LEMMA LocalInvStep ==
  ASSUME LocalInv, LocalStep
  PROVE  LocalInv'
  <1>1. LocalTypes /\ marker <= Used
    BY DEF LocalInv, LocalTypes, NameInv
  <1>2. Typed' /\ RunTyped'
    BY <1>1, TypedStep, RunTypedStep
  <1>3. LocalTypes'
    BY <1>2 DEF LocalTypes, TypeOKLocal, Typed, RunTyped, CoreInv, CoreType, Pcs, Building, Committing, At
  <1>4. NameInv' /\ DumpInv'
    BY <1>3, NameInvStep, DumpInvStep
  <1> QED BY <1>3, <1>4 DEF LocalInv, LocalTypes

LEMMA LocalInvInit == Init => LocalInv
  <1> SUFFICES ASSUME Init PROVE LocalInv
    OBVIOUS
  <1>1. MaxSchema \in Nat /\ MaxSchema > 0 /\ MaxFaults \in Nat /\ MaxTime \in Nat /\ MaxBundles \in Nat
    BY BackupBoundAssumption
  <1>2. core \in CoreType /\ core.pc = "idle" /\ core.bundle = NoBundle
    BY IdleCore DEF Init
  <1>3. TypeOKLocal
    <2>1. now \in 0..MaxTime /\ schema \in 1..MaxSchema /\ faults \in 0..MaxFaults
      <3>1. now = 0 /\ schema = 1 /\ faults = 0
        BY DEF Init
      <3> QED BY <1>1, <3>1
    <2>3. failing \in BOOLEAN
      BY DEF Init
    <2>2. bundles \subseteq Bundle /\ plan \subseteq Bundle /\ marker \in {Garbled, None} \union 1..MaxBundles
      BY DEF Init
    <2> QED BY <1>2, <2>1, <2>2, <2>3 DEF Init, TypeOKLocal, At
  <1>4. CoreInv
    BY <1>1, <1>2 DEF Init, CoreInv, CoreType, At, Building, Committing
  <1>5. NameInv
    BY <1>1, <1>2, FS_EmptySet DEF Init, NameInv, Used, None, Building, Committing
  <1>6. DumpInv
    BY <1>2 DEF Init, DumpInv, At, Committing
  <1> QED BY <1>3, <1>4, <1>5, <1>6 DEF LocalInv

-----------------------------------------------------------------------------
(* The marker.                                                             *)

LEMMA FiniteStrays ==
  ASSUME LocalInv
  PROVE  /\ IsFiniteSet(Strays) /\ Cardinality(Strays) \in Nat
         /\ \A r : /\ IsFiniteSet(Strays \union {r}) /\ Cardinality(Strays \union {r}) \in Nat
                   /\ Cardinality(Strays \union {r}) <= Cardinality(Strays) + 1
  <1>1. Strays \subseteq bundles /\ IsFiniteSet(bundles)
    BY DEF Strays, Valid, LocalInv, NameInv
  <1>2. IsFiniteSet(Strays) /\ Cardinality(Strays) \in Nat
    BY <1>1, FS_Subset, FS_CardinalityType
  <1> SUFFICES ASSUME NEW r
               PROVE  /\ IsFiniteSet(Strays \union {r}) /\ Cardinality(Strays \union {r}) \in Nat
                      /\ Cardinality(Strays \union {r}) <= Cardinality(Strays) + 1
    BY <1>2
  <1>3. IsFiniteSet(Strays \union {r})
    BY <1>2, FS_AddElement
  <1>4. Cardinality(Strays \union {r}) \in {Cardinality(Strays), Cardinality(Strays) + 1}
    BY <1>2, FS_AddElement
  <1> QED BY <1>2, <1>3, <1>4

\* No plan offers the bundles a marker names or may go back to.
LEMMA ProtectedStays ==
  ASSUME LocalInv, Placed, FewLeft, NEW p \in Protected, NEW b \in PruneCandidates
  PROVE  b.id # p
  <1> SUFFICES ASSUME b.id = p PROVE FALSE
    OBVIOUS
  <1>1. b \in Past /\ b \in bundles
    BY DEF PruneCandidates, Past, Valid
  <1>2. /\ \A c \in bundles : c.id \in Nat /\ c.id <= made
        /\ made \in Nat /\ Recent \in Nat
    <2>1. /\ bundles \subseteq Bundle /\ made \in Nat /\ Recent \in Nat
          /\ MaxBundles \in Nat /\ Used \in Int /\ Used <= made
      BY BackupBoundAssumption, RetentionAssumption DEF LocalInv, TypeOKLocal, CoreInv, Used
    <2>2. \A c \in bundles : c.id \in Nat
      BY <2>1, BundleFields
    <2>3. \A c \in bundles : c.id <= Used
      BY DEF LocalInv, NameInv
    <2> QED BY <2>1, <2>2, <2>3
  <1>3. \A c \in Past : Newer(c, b) => c \in Valid /\ c \in bundles /\ c.id > p
    BY <1>1, NewerNames DEF Past, Valid
  <1>4. ASSUME p = Base PROVE FALSE
    <2>1. Cardinality(Strays) < Recent - 1
      BY <1>4 DEF FewLeft, Protected
    <2>2. PICK r : core.pc \in Committing => \A c \in bundles : c.id = made => c = r
      <3>1. core.pc \in Committing => \E r \in bundles : r.id = made
        BY DEF LocalInv, DumpInv
      <3>2. \A c, d \in bundles : c.id = d.id => c = d
        BY DEF LocalInv, NameInv
      <3> QED BY <3>1, <3>2
    <2>3. {c \in Past : Newer(c, b)} \subseteq Strays \union {r}
      BY <1>3, <1>4, <2>2 DEF Strays
    <2>4. /\ IsFiniteSet(Strays \union {r}) /\ Cardinality(Strays \union {r}) < Recent
      <3>1. /\ IsFiniteSet(Strays \union {r}) /\ Cardinality(Strays \union {r}) \in Nat
            /\ Cardinality(Strays \union {r}) <= Cardinality(Strays) + 1 /\ Cardinality(Strays) \in Nat
        BY FiniteStrays
      <3> QED BY <1>2, <2>1, <3>1
    <2> QED BY <1>1, <2>3, <2>4, FewNewer
  <1>5. ASSUME p = made PROVE FALSE
    <2>1. {c \in Past : Newer(c, b)} \subseteq {}
      BY <1>2, <1>3, <1>5
    <2>2. IsFiniteSet({}) /\ Cardinality({}) < Recent
      BY FS_EmptySet, RetentionAssumption
    <2> QED BY <1>1, <2>1, <2>2, FewNewer
  <1>6. p = Base \/ p = made
    BY DEF Protected, Placed, Base, Committing, At
  <1> QED BY <1>4, <1>5, <1>6

LEMMA StillMarker ==
  ASSUME LocalInv, LocalStep, StaysPut
  PROVE  made' = made /\ marker' \in {marker, Garbled}
  <1>0. core \in CoreType
    BY DEF LocalInv, CoreInv, CoreType
  <1>1. ~Mark /\ ~Restore
    <2>1. \A pc \in Pcs : Goto(pc) => core.pc = pc
      BY <1>0, GoneTo DEF StaysPut
    <2> QED BY <2>1 DEF Mark, Restore, At, Pcs, Committing
  <1>2. ~(Stage /\ ~failing)
    <2>1. ASSUME Stage, ~failing PROVE FALSE
      <3>1. core' = [core EXCEPT !.pc = "dump", !.bundle = Named(made + 1)] /\ core.pc = "stage"
        BY <2>1 DEF Stage, At
      <3>2. core'.pc = "dump"
        BY <1>0, <3>1 DEF CoreType
      <3> QED BY <3>1, <3>2 DEF StaysPut
    <2> QED BY <2>1
  <1>3. LocalTypes
    BY DEF LocalInv, LocalTypes
  <1> QED BY <1>1, <1>2, <1>3, MarkerStep, UsedStep

LEMMA PlacedStep ==
  ASSUME LocalInv, Placed, LocalStep
  PROVE  Placed'
  <1>0. LocalTypes
    BY DEF LocalInv, LocalTypes
  <1>1. ASSUME core'.pc \in Committing
        PROVE  /\ core'.pc \in {"mark", "remove"} => marker' \in {core'.previous, Garbled}
               /\ core'.pc \in {"settle", "restore"} => marker' \in {made', Garbled}
    <2>1. GetsOut \/ Commits \/ StaysPut
      BY <1>0, <1>1, RunStep DEF Stages, Dumps, Describes, Committing
    <2>2. CASE GetsOut
      BY <2>2 DEF GetsOut, Publish
    <2>3. CASE StaysPut
      BY <2>3, StillMarker DEF StaysPut, Placed, At
    <2>4. CASE Commits
      <3>1. made' = made /\ core'.previous = core.previous
        BY <2>4 DEF Commits, Mark, StepFails, Restore
      <3>2. core.bundle.id = made
        BY <2>4 DEF Commits, LocalInv, CoreInv
      <3> QED BY <2>4, <3>1, <3>2 DEF Commits, Mark, StepFails, Restore, Placed, At
    <2> QED BY <2>1, <2>2, <2>3, <2>4
  <1> QED BY <1>1 DEF Placed, At, Committing

LEMMA FewStraysStep ==
  ASSUME LocalInv, Placed, FewStrays, LocalStep, LocalInv'
  PROVE  FewStrays'
  <1> SUFFICES ASSUME Base' # Garbled PROVE Cardinality(Strays') <= faults'
    BY DEF FewStrays
  <1>0. LocalTypes /\ LocalTypes' /\ Typed /\ RunTyped
    <2>1. LocalTypes /\ LocalTypes'
      BY DEF LocalInv, LocalTypes
    <2> QED BY <2>1, TypedParts
  <1>1. /\ faults \in Nat /\ faults' \in Nat /\ faults <= faults' /\ made \in Nat
        /\ core \in CoreType
    BY <1>0, CounterStep, BackupBoundAssumption DEF Typed, RunTyped, CoreInv
  <1>2. /\ IsFiniteSet(Strays) /\ Cardinality(Strays) \in Nat
        /\ \A r : /\ IsFiniteSet(Strays \union {r}) /\ Cardinality(Strays \union {r}) \in Nat
                  /\ Cardinality(Strays \union {r}) <= Cardinality(Strays) + 1
    BY FiniteStrays
  <1>3. ASSUME Base # Garbled, Strays' \subseteq Strays PROVE Cardinality(Strays') <= faults'
    <2>1. IsFiniteSet(Strays') /\ Cardinality(Strays') <= Cardinality(Strays)
      BY <1>2, <1>3, FS_Subset
    <2>2. Cardinality(Strays') \in Nat
      BY <2>1, FS_CardinalityType
    <2> QED BY <1>1, <1>2, <1>3, <2>1, <2>2 DEF FewStrays
  <1>4. ASSUME Base # Garbled, faults' = faults + 1, NEW r, Strays' \subseteq Strays \union {r}
        PROVE  Cardinality(Strays') <= faults'
    <2>1. /\ IsFiniteSet(Strays') /\ Cardinality(Strays') <= Cardinality(Strays \union {r})
          /\ Cardinality(Strays \union {r}) <= Cardinality(Strays) + 1
          /\ Cardinality(Strays \union {r}) \in Nat
      BY <1>2, <1>4, FS_Subset
    <2>2. Cardinality(Strays') \in Nat
      BY <2>1, FS_CardinalityType
    <2> QED BY <1>1, <1>2, <1>4, <2>1, <2>2 DEF FewStrays
  <1>5. ASSUME Strays' = {} PROVE Cardinality(Strays') <= faults'
    BY <1>1, <1>5, FS_EmptySet
  <1>6. Thins => \A c \in bundles' : c.whole => c \in bundles
    <2>1. Thins => \A c \in bundles' : \E b \in bundles : c.whole => c = b
      BY <1>0, ThinnedBundles DEF Typed
    <2> QED BY <2>1
  <1>7. Strays' = {c \in bundles' : c.whole /\ c.id > Base' /\ (core'.pc \in Committing => c.id # made')}
    BY DEF Strays, Valid, Verified
  <1>8. Strays = {c \in bundles : c.whole /\ c.id > Base /\ (core.pc \in Committing => c.id # made)}
    BY DEF Strays, Valid, Verified
  <1>9. ASSUME core'.pc \in Committing PROVE Base' = Base /\ Strays' \subseteq Strays
    <2>1. GetsOut \/ Commits \/ StaysPut
      BY <1>0, <1>9, RunStep DEF Stages, Dumps, Describes, Committing
    <2>2. CASE GetsOut
      <3>1. Base' = Base /\ core.pc \notin Committing /\ core.bundle.id = made /\ made' = made
        BY <1>0, <1>9, <2>2 DEF GetsOut, Publish, Base, At, Committing, Building, RunTyped, CoreInv, Leaves
      <3>2. bundles' = bundles \union {core.bundle}
        BY <2>2 DEF GetsOut, Publishes
      <3> QED BY <1>7, <1>8, <1>9, <3>1, <3>2
    <2>3. CASE ~GetsOut
      <3>1. Base' = Base /\ core.pc \in Committing /\ made' = made
        <4>1. StaysPut => made' = made
          BY StillMarker
        <4> QED BY <1>9, <2>1, <2>3, <4>1 DEF StaysPut, Commits, Base, Mark, StepFails, Restore
      <3>2. Thins
        BY <3>1, StoreStep DEF Publish, At, Committing
      <3> QED BY <1>6, <1>7, <1>8, <1>9, <3>1, <3>2
    <2> QED BY <2>2, <2>3
  <1>10. ASSUME core'.pc \notin Committing, core.pc \notin Committing
         PROVE  Base # Garbled /\ Strays' \subseteq Strays
    <2>1. marker' = marker /\ marker # Garbled
      BY <1>10, MarkerStep DEF Base, Mark, Restore, At, Committing
    <2>2. Base' = Base
      BY <1>10, <2>1 DEF Base
    <2>3. Thins
      <3>1. Publishes => core'.pc = "mark"
        BY <1>1 DEF Publishes, CoreType
      <3> QED BY <1>10, <3>1, StoreStep DEF Committing
    <2> QED BY <1>6, <1>7, <1>8, <1>10, <2>1, <2>2, <2>3 DEF Base
  <1>11. ASSUME core'.pc \notin Committing, core.pc \in Committing
         PROVE  Cardinality(Strays') <= faults'
    <2>1. Settle \/ Remove \/ StepFails \/ KillCore
      <3>1. ~StaysPut
        BY <1>11 DEF StaysPut
      <3>2. ~Begin /\ ~Stage /\ ~Dump /\ ~Describe /\ ~Publish
        BY <1>11 DEF Begin, Stage, Dump, Describe, Publish, At, Committing
      <3>3. ~Mark /\ ~Restore
        BY <1>1, <1>11, GoneTo DEF Mark, Restore, Committing, Pcs
      <3> QED BY <3>1, <3>2, <3>3
              DEF LocalStep, LocalNext, BackupStep, ClearLock, Tick, Migrates, HostChanges, Plans, Prunes,
                  Rots, Quiet, local, StaysPut
    <2>2. marker' = marker /\ made' = made
      BY <2>1 DEF Settle, Remove, StepFails, KillCore
    <2>3. Base' = marker /\ marker # Garbled
      BY <1>11, <2>2 DEF Base
    <2>4. ASSUME marker = made PROVE Strays' = {}
      <3>1. \A c \in bundles' : c.id <= made' /\ c.id \in Nat
        <4>1. Used' <= made' /\ Used' \in Int /\ made' \in Nat
          BY <1>1, <2>2, UsedStep DEF Used
        <4>2. bundles' \subseteq Bundle /\ \A c \in bundles' : c.id <= Used'
          BY DEF LocalInv, TypeOKLocal, NameInv
        <4>3. \A c \in bundles' : c.id \in Nat
          BY <4>2, BundleFields, BackupBoundAssumption
        <4> QED BY <4>1, <4>2, <4>3
      <3> QED BY <1>1, <1>7, <2>2, <2>3, <2>4, <3>1
    <2>5. ASSUME marker # made
          PROVE  marker = core.previous /\ Base = marker /\ core.pc \in {"mark", "remove"}
      BY <1>11, <2>3, <2>5 DEF Placed, Base, At, Committing
    <2>6. ASSUME Remove, marker # made PROVE Strays' \subseteq Strays
      <3>1. \A c \in bundles' : c \in bundles /\ c.id # made
        BY <1>0, <1>11, <2>6 DEF Remove, RunTyped, CoreInv
      <3> QED BY <1>7, <1>8, <2>3, <2>5, <2>6, <3>1
    <2>7. ASSUME StepFails \/ KillCore, marker # made PROVE Cardinality(Strays') <= faults'
      <3>1. faults' = faults + 1
        BY <2>7 DEF StepFails, KillCore, Fault
      <3>2. PICK r : \A c \in bundles : c.id = made => c = r
        <4>1. \E r \in bundles : r.id = made
          BY <1>11 DEF LocalInv, DumpInv
        <4>2. \A c, d \in bundles : c.id = d.id => c = d
          BY DEF LocalInv, NameInv
        <4> QED BY <4>1, <4>2
      <3>3. Thins
        BY <1>11, StoreStep DEF Publish, At, Committing
      <3>4. Strays' \subseteq Strays \union {r}
        BY <1>6, <1>7, <1>8, <2>3, <2>5, <2>7, <3>2, <3>3
      <3>5. Base # Garbled
        BY <2>3, <2>5, <2>7
      <3> QED BY <1>4, <3>1, <3>4, <3>5
    <2>8. ASSUME Settle PROVE marker = made
      BY <1>11, <2>3, <2>8 DEF Settle, Placed, At
    <2> QED BY <1>3, <1>5, <2>1, <2>3, <2>4, <2>5, <2>6, <2>7, <2>8
  <1>12. ASSUME core'.pc \in Committing PROVE Base # Garbled
    BY <1>9, <1>12
  <1> QED BY <1>3, <1>9, <1>10, <1>11, <1>12

LEMMA RestoreStep ==
  ASSUME LocalInv, Placed, FewLeft, RestoreInv, LocalStep, LocalInv'
  PROVE  RestoreInv'
  <1>0. LocalTypes /\ LocalTypes' /\ Typed /\ RunTyped
    <2>1. LocalTypes /\ LocalTypes'
      BY DEF LocalInv, LocalTypes
    <2> QED BY <2>1, TypedParts
  <1>1. /\ faults \in Nat /\ faults' \in Nat /\ faults <= faults' /\ made \in Nat /\ Recent \in Nat
        /\ core \in CoreType /\ bundles \subseteq Bundle /\ MaxBundles \in Nat
    BY <1>0, CounterStep, BackupBoundAssumption, RetentionAssumption DEF Typed, RunTyped, CoreInv
  <1>3. ASSUME NEW p \in Protected PROVE Kept(p)'
    <2>1. Kept(p)
      BY DEF RestoreInv
    <2>2. \A b \in plan' : b.id # p
      BY <2>1, PlanStep, ProtectedStays DEF Kept
    <2>3. p \in rotted' \/ \E b \in Valid' : b.id = p
      <3>1. rotted \subseteq rotted'
        BY DEF LocalStep, LocalNext, BackupStep, Begin, Stage, Dump, Describe, Publish, Mark, Settle, Restore,
               Remove, StepFails, KillCore, ClearLock, Tick, Migrates, HostChanges, Plans, Prunes, Rots, Quiet, local
      <3>2. ASSUME NEW b \in Valid, b.id = p PROVE p \in rotted' \/ \E c \in Valid' : c.id = p
        <4>1. b \in bundles /\ b.whole /\ \A c \in plan : c.id # b.id
          BY <2>1, <3>2 DEF Valid, Verified, Kept
        <4>2. ASSUME Remove \/ (StepFails /\ At("remove")) PROVE b.id # core.bundle.id
          <5>1. At("remove") /\ core.pc \in Committing
            BY <4>2 DEF Remove, At, Committing
          <5>2. core.previous < made /\ core.bundle.id = made /\ core.previous \in Int
            BY <1>0, <5>1 DEF RunTyped, CoreInv, CoreType, None, Garbled
          <5>3. p = core.previous
            BY <5>1 DEF Protected, Base, Placed
          <5> QED BY <1>1, <3>2, <5>2, <5>3
        <4>3. Remains(b)
          BY <1>1, <4>1, <4>2, BundleRemains
        <4>4. b \in bundles' => b \in Valid'
          BY <4>1 DEF Valid, Verified
        <4> QED BY <3>2, <4>3, <4>4 DEF Remains
      <3> QED BY <2>1, <3>1, <3>2 DEF Kept
    <2> QED BY <2>2, <2>3 DEF Kept
  <1>4. ASSUME Mark, NEW p, p = made PROVE Kept(p)'
    <2>1. plan' = plan /\ bundles' = bundles /\ rotted' = rotted /\ core.pc \in Committing
      BY <1>4 DEF Mark, At, Committing
    <2>2. \A b \in plan : b.id < made /\ b.id \in Nat
      BY <1>0, <1>1, <2>1, BundleFields DEF LocalInv, NameInv, Typed
    <2>3. made \in rotted \/ \E b \in Valid : b.id = made
      BY <2>1 DEF LocalInv, DumpInv, Valid, Verified
    <2>4. p \in rotted' \/ \E b \in Valid' : b.id = p
      BY <1>4, <2>1, <2>3 DEF Valid
    <2>5. \A b \in plan' : b.id # p
      BY <1>1, <1>4, <2>1, <2>2
    <2> QED BY <2>4, <2>5 DEF Kept
  <1>5. ASSUME NEW p \in Protected' PROVE p \in Protected \/ (Mark /\ p = made)
    <2>1. p \notin {None, Garbled} /\ (p = marker' \/ (core'.pc \in Committing /\ p = core'.previous))
      BY DEF Protected, Base
    <2>2. p = marker' => p \in Protected \/ (Mark /\ p = made)
      <3>1. Mark => core.bundle.id = made
        BY <1>0 DEF Mark, At, RunTyped, CoreInv, Committing
      <3>2. Restore => Base = core.previous
        BY DEF Restore, At, Base, Committing
      <3> QED BY <2>1, <3>1, <3>2, MarkerStep DEF Protected
    <2>3. ASSUME core'.pc \in Committing, p = core'.previous PROVE p \in Protected
      <3>1. GetsOut \/ Commits \/ StaysPut
        BY <1>0, <2>3, RunStep DEF Stages, Dumps, Describes, Committing
      <3>2. p = Base
        BY <2>3, <3>1 DEF GetsOut, Commits, StaysPut, Base, Publish, At, Committing
      <3> QED BY <2>1, <3>2 DEF Protected
    <2> QED BY <2>1, <2>2, <2>3
  <1>6. \A p \in Protected' : Kept(p)'
    BY <1>3, <1>4, <1>5
  <1> QED BY <1>6 DEF RestoreInv

LEMMA MarkerInvStep ==
  ASSUME LocalInv, MarkerInv, LocalStep, LocalInv'
  PROVE  MarkerInv'
  <1>1. Placed' /\ FewStrays'
    BY PlacedStep, FewStraysStep DEF MarkerInv
  <1>2. FewFaults' => FewFaults
    <2>1. LocalTypes /\ faults \in Nat /\ Recent \in Nat
      BY BackupBoundAssumption, RetentionAssumption DEF LocalInv, LocalTypes, TypeOKLocal
    <2>2. faults' \in Nat /\ faults <= faults'
      BY <2>1, TypedParts, CounterStep
    <2> QED BY <2>1, <2>2 DEF FewFaults
  <1>3. FewFaults => FewLeft
    <2>1. Cardinality(Strays) \in Nat /\ faults \in Nat /\ Recent \in Nat
      BY FiniteStrays, BackupBoundAssumption, RetentionAssumption DEF LocalInv, TypeOKLocal
    <2> QED BY <2>1 DEF MarkerInv, FewStrays, FewFaults, FewLeft
  <1>4. FewFaults' => RestoreInv'
    BY <1>2, <1>3, RestoreStep DEF MarkerInv
  <1> QED BY <1>1, <1>4 DEF MarkerInv

LEMMA MarkerInvInit == Init => MarkerInv /\ RestoreInv
  <1> SUFFICES ASSUME Init PROVE MarkerInv /\ RestoreInv
    OBVIOUS
  <1>1. core.pc = "idle" /\ marker = None /\ bundles = {} /\ faults = 0
    BY IdleCore DEF Init
  <1>2. Placed
    BY <1>1 DEF Placed, At
  <1>3. Strays = {}
    BY <1>1 DEF Strays, Valid
  <1>4. FewStrays
    BY <1>1, <1>3, FS_EmptySet DEF FewStrays
  <1>5. Protected = {}
    BY <1>1 DEF Protected, Base, Committing
  <1> QED BY <1>2, <1>4, <1>5 DEF MarkerInv, RestoreInv

\* What the marker names is whole, and holds the schema it says.
LEMMA MarkerPoint ==
  ASSUME LocalInv, RestoreInv
  PROVE  MarkerNamesRestorePoint
  <1> SUFFICES ASSUME marker \notin {None, Garbled} \union rotted
               PROVE  \E b \in Valid : b.id = marker /\ b.schema = b.dump
    BY DEF MarkerNamesRestorePoint
  <1>1. marker \in Protected
    BY DEF Protected
  <1>2. PICK b \in Valid : b.id = marker
    BY <1>1 DEF RestoreInv, Kept
  <1>3. b.schema = b.dump
    BY DEF LocalInv, DumpInv, Valid
  <1> QED BY <1>2, <1>3

-----------------------------------------------------------------------------
(* The days.                                                               *)

LEMMA FirstOfDay ==
  ASSUME LocalInv, NEW d \in Nat, d < Day(now), d >= Day(now) - Days,
         NEW b \in Past, Day(b.at) = d, FromSix(b.at),
         \A c \in Past : Day(c.at) = d /\ FromSix(c.at) => b.id <= c.id
  PROVE  b \notin PruneCandidates
  <1>1. now \in Nat /\ Days \in Nat
    BY BackupBoundAssumption, RetentionAssumption DEF LocalInv, TypeOKLocal
  <1>2. Day(now) \in Nat
    BY <1>1, DayOf
  <1>3. d \in (Day(now) - Days)..(Day(now) - 1)
    <2> HIDE DEF Day
    <2> QED BY <1>1, <1>2
  <1>4. \A c \in Past : Day(c.at) = Day(b.at) /\ FromSix(c.at) => ~Newer(b, c)
    <2> SUFFICES ASSUME NEW c \in Past, Day(c.at) = Day(b.at), FromSix(c.at) PROVE ~Newer(b, c)
      OBVIOUS
    <2>1. b.id <= c.id
      OBVIOUS
    <2>2. b \in bundles /\ c \in bundles /\ bundles \subseteq Bundle
      BY DEF Past, Valid, LocalInv, TypeOKLocal
    <2>3. b.id \in Nat /\ c.id \in Nat
      BY <2>2, BundleFields, BackupBoundAssumption
    <2> QED BY <2>1, <2>2, <2>3, NewerNames
  <1>5. b \in Keep
    BY <1>3, <1>4 DEF Keep
  <1> QED BY <1>5 DEF PruneCandidates

\* The bundles of a day from 06:00 on, but for the one of the run in progress.
OfDay(d) == {b \in bundles : Day(b.at) = d /\ FromSix(b.at) /\ (core.pc \in Committing => b.id # made)}

LEMMA LastOfDay ==
  ASSUME LocalInv, Recent > 1, NEW b \in Past, b \in OfDay(Day(now)),
         \A c \in OfDay(Day(now)) : c.id <= b.id
  PROVE  b \notin PruneCandidates
  <1>1. /\ bundles \subseteq Bundle /\ now \in Nat /\ made \in Nat /\ Recent \in Nat
        /\ MaxBundles \in Nat /\ MaxTime \in Nat
    BY BackupBoundAssumption, RetentionAssumption DEF LocalInv, TypeOKLocal, CoreInv
  <1>2. b \in bundles /\ b.at \in Nat /\ b.id \in Nat
    BY <1>1, BundleFields DEF OfDay
  <1>3. PICK r : core.pc \in Committing => \A c \in bundles : c.id = made => c = r
    <2>1. core.pc \in Committing => \E r \in bundles : r.id = made
      BY DEF LocalInv, DumpInv
    <2>2. \A c, d \in bundles : c.id = d.id => c = d
      BY DEF LocalInv, NameInv
    <2> QED BY <2>1, <2>2
  <1>4. ASSUME NEW c \in Past, Newer(c, b) PROVE c = r
    <2>1. c \in bundles /\ c.at \in Nat /\ c.id \in Nat /\ c.at <= now
      BY <1>1, BundleFields DEF Past, Valid
    <2>2. c.id > b.id /\ b.at <= c.at
      BY <1>2, <1>4, <2>1, NewerNames DEF LocalInv, NameInv
    <2>3. b.at = 2 * Day(b.at) + 1 /\ Day(b.at) = Day(now) /\ Day(now) \in Nat /\ now <= 2 * Day(now) + 1
      BY <1>1, <1>2, DayOf DEF OfDay
    <2>4. c.at = b.at
      <3> HIDE DEF Day
      <3> QED BY <1>1, <1>2, <2>1, <2>2, <2>3
    <2>5. Day(c.at) = Day(now) /\ FromSix(c.at)
      BY <2>4 DEF OfDay
    <2>6. c \notin OfDay(Day(now))
      BY <1>2, <2>1, <2>2
    <2>7. core.pc \in Committing /\ c.id = made
      BY <2>1, <2>5, <2>6 DEF OfDay
    <2> QED BY <1>3, <2>1, <2>7
  <1>5. {c \in Past : Newer(c, b)} \subseteq {r}
    BY <1>4
  <1>6. IsFiniteSet({r}) /\ Cardinality({r}) < Recent
    BY FS_Singleton
  <1> QED BY <1>5, <1>6, FewNewer

\* A new plan leaves a bundle of every day it protects.
LEMMA PlanLeavesDay ==
  ASSUME LocalInv, Recent > 1,
         NEW d \in Nat, d <= Day(now), d >= Day(now) - Days, OfDay(d) # {}
  PROVE  \E b \in OfDay(d) : \A c \in PruneCandidates : c.id # b.id
  <1>1. /\ bundles \subseteq Bundle /\ now \in Nat /\ made \in Nat
        /\ MaxBundles \in Nat /\ MaxTime \in Nat /\ IsFiniteSet(bundles)
    BY BackupBoundAssumption DEF LocalInv, TypeOKLocal, CoreInv, NameInv
  <1>2. /\ OfDay(d) \subseteq bundles /\ IsFiniteSet(OfDay(d)) /\ PruneCandidates \subseteq Past
        /\ Past \subseteq bundles
    BY <1>1, FS_Subset DEF OfDay, PruneCandidates, Past, Valid
  <1>3. \A b \in bundles : b.id \in Nat /\ b.at \in Nat
    BY <1>1, BundleFields
  <1>4. ASSUME NEW b \in OfDay(d), b \notin PruneCandidates
        PROVE  \A c \in PruneCandidates : c.id # b.id
    BY <1>2, <1>4 DEF LocalInv, NameInv
  <1>5. ASSUME NEW b \in OfDay(d), b \notin Past PROVE b \notin PruneCandidates
    BY <1>2, <1>5
  <1>6. ASSUME OfDay(d) \subseteq Past PROVE \E b \in OfDay(d) : b \notin PruneCandidates
    <2>1. ASSUME d = Day(now) PROVE \E b \in OfDay(d) : b \notin PruneCandidates
      <3> DEFINE rank == [b \in OfDay(d) |-> b.id]
      <3>1. rank \in [OfDay(d) -> Nat]
        BY <1>2, <1>3
      <3>2. PICK b \in OfDay(d) : \A c \in OfDay(d) : rank[c] <= rank[b]
        <4> HIDE DEF rank
        <4> QED BY <1>2, <3>1, GreatestRank
      <3>3. \A c \in OfDay(d) : c.id <= b.id
        BY <3>2
      <3> QED BY <1>6, <2>1, <3>3, LastOfDay
    <2>2. ASSUME d # Day(now) PROVE \E b \in OfDay(d) : b \notin PruneCandidates
      <3> DEFINE ids == {b.id : b \in OfDay(d)}
      <3>1. ids \subseteq Nat /\ ids # {}
        BY <1>2, <1>3
      <3>2. PICK n \in ids : \A m \in ids : n <= m
        <4> HIDE DEF ids
        <4> QED BY <3>1, LeastNat
      <3>3. PICK b \in OfDay(d) : b.id = n
        OBVIOUS
      <3>4. \A c \in OfDay(d) : b.id <= c.id
        BY <3>2, <3>3
      <3>5. ASSUME NEW c \in Past, Day(c.at) = d, FromSix(c.at) PROVE b.id <= c.id
        <4>1. c \in OfDay(d) \/ c.id = made
          BY <1>2, <3>5 DEF OfDay
        <4>2. b.id <= made
          BY <1>1, <1>2, <1>3 DEF LocalInv, NameInv, Used
        <4> QED BY <3>4, <4>1, <4>2
      <3>6. Day(b.at) = d /\ FromSix(b.at) /\ b \in Past
        BY <1>6 DEF OfDay
      <3>7. d < Day(now)
        <4>1. Day(now) \in Nat
          BY <1>1, DayOf
        <4> HIDE DEF Day
        <4> QED BY <2>2, <4>1
      <3> QED BY <3>5, <3>6, <3>7, FirstOfDay
    <2> QED BY <2>1, <2>2
  <1> QED BY <1>4, <1>5, <1>6

\* A bundle that is no part of the run in progress stays so.
LEMMA StaysApart ==
  ASSUME LocalInv, LocalStep, NEW b \in bundles, core.pc \in Committing => b.id # made,
         core'.pc \in Committing
  PROVE  b.id # made'
  <1>1. LocalTypes /\ bundles \subseteq Bundle /\ made \in Nat
    BY DEF LocalInv, LocalTypes, TypeOKLocal, CoreInv
  <1>2. GetsOut \/ Commits \/ StaysPut
    BY <1>1, RunStep DEF Stages, Dumps, Describes, Committing
  <1>3. ASSUME GetsOut PROVE b.id # made'
    <2>1. made' = made /\ Used <= made - 1 /\ Used \in Int
      BY <1>1, <1>3, UsedStep DEF GetsOut, Publish
    <2>2. b.id <= Used /\ b.id \in Nat
      BY <1>1, BundleFields, BackupBoundAssumption DEF LocalInv, NameInv
    <2> QED BY <1>1, <2>1, <2>2
  <1>4. ASSUME Commits PROVE b.id # made'
    BY <1>4 DEF Commits, Mark, StepFails, Restore
  <1>5. ASSUME StaysPut PROVE b.id # made'
    BY <1>5, StillMarker DEF StaysPut
  <1> QED BY <1>2, <1>3, <1>4, <1>5

LEMMA DayInvStep ==
  ASSUME LocalInv, DayInv, Recent > 1, LocalStep, LocalInv'
  PROVE  DayInv'
  <1> SUFFICES ASSUME NEW d \in points', d >= Day(now') - Days, d <= Day(now')
               PROVE  \E b \in bundles' : Day(b.at) = d /\ FromSix(b.at) /\ Safe(b)'
    <2>1. points' \subseteq Nat /\ Day(now') \in Int /\ Days \in Int
      <3>1. now' \in Nat
        BY BackupBoundAssumption DEF LocalInv, TypeOKLocal
      <3>2. Day(now') \in Nat
        BY <3>1, DayOf
      <3>3. points' \subseteq 0..Day(now')
        BY DEF LocalInv, NameInv, Day
      <3> QED BY <3>2, <3>3, RetentionAssumption
    <2>2. \A e \in points' \intersect ((Day(now') - Days)..Day(now')) :
            e \in points' /\ e >= Day(now') - Days /\ e <= Day(now')
      <3> HIDE DEF Day
      <3> QED BY <2>1
    <2> QED BY <2>2 DEF DayInv, Day, FromSix
  <1>1. LocalTypes /\ Typed /\ RunTyped
    <2>1. LocalTypes
      BY DEF LocalInv, LocalTypes
    <2> QED BY <2>1, TypedParts
  <1>2. /\ now \in Nat /\ now' \in Nat /\ now <= now' /\ made \in Nat /\ Days \in Nat
        /\ bundles \subseteq Bundle
    BY <1>1, CounterStep, BackupBoundAssumption, RetentionAssumption DEF Typed, RunTyped, CoreInv
  <1>3. Day(now) \in Nat /\ Day(now') \in Nat /\ Day(now) <= Day(now')
    BY <1>2, DayOf
  <1>4. ASSUME d \notin points
        PROVE  \E b \in bundles' : Day(b.at) = d /\ FromSix(b.at) /\ Safe(b)'
    <2>1. Settle /\ d = Day(core.bundle.at) /\ FromSix(core.bundle.at)
      <3>1. Settle
        BY <1>4 DEF LocalStep, LocalNext, BackupStep, Begin, Stage, Dump, Describe, Publish, Mark, Restore,
                    Remove, StepFails, KillCore, ClearLock, Tick, Migrates, HostChanges, Plans, Prunes, Rots,
                    Quiet, local
      <3> QED BY <1>4, <3>1 DEF Settle
    <2>2. core.pc \in Committing /\ bundles' = bundles /\ plan' = plan /\ core'.pc = "idle"
      BY <2>1, GoneFrom DEF Settle, At, Committing
    <2>3. PICK b \in bundles : b.id = made /\ b.at = core.bundle.at
      BY <2>2 DEF LocalInv, DumpInv
    <2>4. \A c \in plan : c.id # b.id
      BY <1>1, <1>2, <2>2, <2>3, BundleFields, BackupBoundAssumption DEF LocalInv, NameInv, Typed
    <2>5. Safe(b)'
      BY <2>2, <2>4 DEF Safe, Committing
    <2> QED BY <2>1, <2>2, <2>3, <2>5
  <1>5. ASSUME d \in points
        PROVE  d \in Nat /\ d <= Day(now) /\ d >= Day(now) - Days /\ d \in (Day(now) - Days)..Day(now)
    <2>1. d \in 0..Day(now)
      BY <1>5 DEF LocalInv, NameInv
    <2> HIDE DEF Day
    <2> QED BY <1>2, <1>3, <2>1
  <1>6. ASSUME d \in points, Plans
        PROVE  \E b \in bundles' : Day(b.at) = d /\ FromSix(b.at) /\ Safe(b)'
    <2>1. OfDay(d) # {}
      BY <1>5, <1>6 DEF DayInv, OfDay, Safe
    <2>2. PICK b \in OfDay(d) : \A c \in PruneCandidates : c.id # b.id
      BY <1>5, <1>6, <2>1, PlanLeavesDay
    <2>3. plan' = PruneCandidates /\ bundles' = bundles /\ core' = core /\ made' = made
      BY <1>6 DEF Plans
    <2>4. Safe(b)'
      BY <2>2, <2>3 DEF Safe, OfDay
    <2> QED BY <2>2, <2>3, <2>4 DEF OfDay
  <1>7. ASSUME d \in points, ~Plans
        PROVE  \E b \in bundles' : Day(b.at) = d /\ FromSix(b.at) /\ Safe(b)'
    <2>1. PICK b \in bundles : Day(b.at) = d /\ FromSix(b.at) /\ Safe(b)
      BY <1>5, <1>7 DEF DayInv
    <2>2. ASSUME Remove \/ (StepFails /\ At("remove")) PROVE b.id # core.bundle.id
      <3>1. core.pc \in Committing
        BY <2>2 DEF Remove, At, Committing
      <3> QED BY <1>1, <2>1, <3>1 DEF Safe, RunTyped, CoreInv
    <2>3. Remains(b)
      BY <1>2, <2>1, <2>2, BundleRemains DEF Safe
    <2>4. plan' \subseteq plan /\ (core'.pc \in Committing => b.id # made')
      BY <1>7, <2>1, PlanStep, StaysApart DEF Safe
    <2>5. \A c : c.id = b.id => Safe(c)'
      BY <2>1, <2>4 DEF Safe
    <2>6. Broken(b).id = b.id /\ Broken(b).at = b.at
      BY <1>2, BrokenBundle
    <2> HIDE DEF Broken, Day, FromSix
    <2> QED BY <2>1, <2>3, <2>5, <2>6 DEF Remains
  <1> QED BY <1>4, <1>6, <1>7

-----------------------------------------------------------------------------
(* The off-site run: types.                                                *)

Away == UNCHANGED offsite

LEMMA StepKinds ==
  ASSUME LocalInv, [Next]_vars
  PROVE  /\ LocalStep
         /\ Away \/ ((OffStep \/ OffFails \/ OffKilled \/ OperatorTidies \/ Loses)
                     /\ UNCHANGED <<world, local>>)
  <1>1. faults \in 0..MaxFaults /\ MaxFaults \in Nat
    BY BackupBoundAssumption DEF LocalInv, TypeOKLocal
  <1>2. ASSUME OffStep \/ OperatorTidies \/ Loses PROVE Quiet /\ UNCHANGED <<world, local>>
    <2>1. UNCHANGED faults /\ UNCHANGED <<world, local>>
      BY <1>2 DEF OffStep, OffBegin, Select, Encrypt, Copy, Revalidate, Rename, Recheck, WriteMarker,
                  SyncMarker, Tidy, PutBack, Discard, OperatorTidies, Loses, Same
    <2> QED BY <1>1, <2>1 DEF Quiet
  <1>3. ASSUME OffFails \/ OffKilled PROVE Quiet /\ UNCHANGED <<world, local>>
    <2>1. UNCHANGED <<world, local>> /\ faults' = faults + 1 /\ faults < MaxFaults
      BY <1>3 DEF OffFails, OffKilled, Same, Fault
    <2> QED BY <1>1, <2>1 DEF Quiet
  <1>4. UNCHANGED vars => Quiet /\ Away
    BY <1>1 DEF vars, Quiet, Away
  <1> QED BY <1>2, <1>3, <1>4 DEF Next, LocalStep, Away

LEMMA IdleOff ==
  /\ OffIdle \in OffType /\ OffIdle.pc = "idle" /\ ~OffIdle.published /\ ~OffIdle.committed
  <1>1. ~OffIdle.published /\ ~OffIdle.committed
    BY DEF OffIdle
  <1> QED BY <1>1 DEF OffIdle, OffType, OffPcs, None, Garbled

\* A run goes on and remembers what it knows.
OffMoves(pc) ==
  /\ off'.pc = pc /\ off'.source = off.source /\ off'.cipher = off.cipher
  /\ off'.previous = off.previous
  /\ off'.published = off.published /\ off'.committed = off.committed

LEMMA OffGone ==
  ASSUME off \in OffType, NEW pc \in OffPcs, OffGoto(pc)
  PROVE  off' \in OffType /\ OffMoves(pc)
  BY DEF OffGoto, OffType, OffMoves

LEMMA LatestIsValid ==
  ASSUME SourceValid
  PROVE  LatestSource \in Valid /\ LatestSource.id = marker
  BY DEF SourceValid, LastSuccessValid, LatestSource

\* What each step of a run does to the run.
Selects == /\ SourceValid /\ MarkerReadable /\ (offMarker # None => FinalValid(offMarker) /\ ~Matches)
           /\ off' \in OffType /\ off'.pc = "encrypt" /\ off'.source = LatestSource
           /\ off'.previous = offMarker
           /\ off'.published = off.published /\ off'.committed = off.committed
Encrypts == \E b \in bundles :
              /\ b.id = off.source.id
              /\ off' \in OffType /\ off'.pc = "copy" /\ off'.cipher = b /\ off'.source = off.source
              /\ off'.previous = off.previous
              /\ off'.published = off.published /\ off'.committed = off.committed
Renames == /\ off' \in OffType /\ off'.pc = "recheck" /\ off'.source = off.source
           /\ off'.cipher = off.cipher
           /\ off'.previous = off.previous /\ off'.published /\ off'.committed = off.committed
           /\ finals' = finals \union {off.cipher}
Believes(pc, done) ==
           /\ off' \in OffType /\ off'.pc = pc /\ off'.source = off.source /\ off'.cipher = off.cipher
           /\ off'.previous = off.previous /\ off'.published = off.published
           /\ off'.committed = done

LEMMA SelectStep ==
  ASSUME LocalInv, OffTypeInv, Select
  PROVE  Selects \/ Finishes
  <1> SUFFICES ASSUME ~Finishes PROVE Selects
    OBVIOUS
  <1>1. /\ SourceValid /\ MarkerReadable /\ (offMarker # None => FinalValid(offMarker) /\ ~Matches)
        /\ off' = [off EXCEPT !.pc = "encrypt", !.source = LatestSource, !.previous = offMarker]
    BY DEF Select
  <1>2. LatestSource \in Bundle
    BY <1>1, LatestIsValid DEF Valid, LocalInv, TypeOKLocal
  <1>3. off' \in OffType
    BY <1>1, <1>2 DEF OffTypeInv, OffType, OffPcs
  <1> QED BY <1>1, <1>3 DEF Selects, OffTypeInv, OffType

LEMMA EncryptStep ==
  ASSUME LocalInv, OffTypeInv, Encrypt
  PROVE  Encrypts \/ OffGoto("discard")
  <1> DEFINE found == {b \in bundles : b.id = off.source.id}
  <1> SUFFICES ASSUME ~OffGoto("discard") PROVE Encrypts
    OBVIOUS
  <1>1. found # {} /\ off' = [off EXCEPT !.pc = "copy", !.cipher = CHOOSE b \in found : TRUE]
    BY DEF Encrypt
  <1>2. PICK b \in found : off' = [off EXCEPT !.pc = "copy", !.cipher = b]
    BY <1>1
  <1>3. b \in bundles /\ b \in Bundle
    BY DEF LocalInv, TypeOKLocal
  <1>4. off' \in OffType
    BY <1>2, <1>3 DEF OffTypeInv, OffType, OffPcs
  <1> QED BY <1>2, <1>3, <1>4 DEF Encrypts, OffTypeInv, OffType

LEMMA RenameStep ==
  ASSUME OffTypeInv, Rename
  PROVE  Renames \/ (OffGoto("discard") /\ finals' = finals)
  <1> SUFFICES ASSUME ~(OffGoto("discard") /\ finals' = finals) PROVE Renames
    OBVIOUS
  <1>1. off' = [off EXCEPT !.pc = "recheck", !.published = TRUE] /\ finals' = finals \union {off.cipher}
    BY DEF Rename
  <1>2. off' \in OffType
    BY <1>1 DEF OffTypeInv, OffType, OffPcs
  <1>3. off'.published
    BY <1>1 DEF OffTypeInv, OffType
  <1> QED BY <1>1, <1>2, <1>3 DEF Renames, OffTypeInv, OffType

LEMMA BelieveStep ==
  ASSUME OffTypeInv, SyncMarker \/ PutBack
  PROVE  IF SyncMarker THEN Believes("tidy", TRUE) ELSE Believes("discard", FALSE)
  <1>1. ASSUME NEW pc \in OffPcs, NEW done \in BOOLEAN, off' = [off EXCEPT !.pc = pc, !.committed = done]
        PROVE  Believes(pc, done)
    <2>1. off' \in OffType
      BY <1>1 DEF OffTypeInv, OffType
    <2>2. off'.committed = done
      BY <1>1 DEF OffTypeInv, OffType
    <2> QED BY <1>1, <2>1, <2>2 DEF Believes, OffTypeInv, OffType
  <1>2. SyncMarker => off' = [off EXCEPT !.pc = "tidy", !.committed = TRUE]
    BY DEF SyncMarker
  <1>3. ~SyncMarker => off' = [off EXCEPT !.pc = "discard", !.committed = FALSE]
    BY DEF PutBack
  <1> QED BY <1>1, <1>2, <1>3 DEF OffPcs

-----------------------------------------------------------------------------
(* What a step of the worker does, kind by kind.                           *)

SameFiles == UNCHANGED <<finals, offMarker, lost>>

Rests ==
  /\ off'.pc \in {"idle", "select"} /\ ~off'.published /\ ~off'.committed
  /\ UNCHANGED <<offMarker, lost>>
  /\ finals' = finals \/ (OffAt("discard") /\ finals' = Withdrawn)
GivesUp == off.pc \in Unmarked /\ OffMoves("discard") /\ SameFiles
LooksAgain == OffAt("copy") /\ OffMoves("revalidate") /\ SameFiles
Confirms == OffAt("revalidate") /\ SourceUnchanged /\ OffMoves("rename") /\ SameFiles
Rechecks == OffAt("recheck") /\ OffMoves("mark") /\ SameFiles
Marks == OffAt("mark") /\ OffMoves("sync") /\ offMarker' = off.source.id /\ UNCHANGED <<finals, lost>>
Reverts == /\ (OffAt("sync") /\ OffMoves("rollback")) \/ (OffAt("tidy") /\ OffMoves("restore"))
           /\ faults' = faults + 1 /\ SameFiles
FailsToRevert == OffFails /\ off.pc \in {"rollback", "restore"} /\ OffMoves("discard")
                 /\ offMarker' \in {offMarker, off.previous} /\ UNCHANGED <<finals, lost>>
PutsBack == off.pc \in {"rollback", "restore"} /\ Believes("discard", FALSE)
            /\ offMarker' = off.previous /\ UNCHANGED <<finals, lost>>

OffKind ==
  \/ Rests
  \/ OffAt("select") /\ Selects /\ SameFiles
  \/ OffAt("encrypt") /\ Encrypts /\ SameFiles
  \/ LooksAgain \/ Confirms
  \/ OffAt("rename") /\ Renames /\ UNCHANGED <<offMarker, lost>>
  \/ Rechecks \/ Marks
  \/ OffAt("sync") /\ Believes("tidy", TRUE) /\ SameFiles
  \/ GivesUp \/ Reverts \/ FailsToRevert \/ PutsBack
  \/ UNCHANGED off /\ SameFiles
  \/ UNCHANGED off /\ Loses

LEMMA FailKinds ==
  ASSUME LocalInv, OffTypeInv, OffFails
  PROVE  off' \in OffType /\ OffKind
  <1>0. off \in OffType /\ lost' = lost /\ faults' = faults + 1
    BY DEF OffTypeInv, OffFails, Fault
  <1>1. ASSUME off.pc \in Unmarked PROVE off' \in OffType /\ OffKind
    <2>1. OffGoto("discard") /\ SameFiles
      BY <1>0, <1>1 DEF OffFails, Unmarked, OffAt, SameFiles
    <2> QED BY <1>0, <1>1, <2>1, OffGone DEF OffPcs, GivesUp, OffKind
  <1>2. ASSUME OffAt("sync") PROVE off' \in OffType /\ OffKind
    <2>1. OffGoto("rollback") /\ SameFiles
      BY <1>0, <1>2 DEF OffFails, OffAt, SameFiles
    <2> QED BY <1>0, <1>2, <2>1, OffGone DEF OffPcs, Reverts, OffKind
  <1>3. ASSUME OffAt("tidy") PROVE off' \in OffType /\ OffKind
    <2>1. OffGoto("restore") /\ SameFiles
      BY <1>0, <1>3 DEF OffFails, OffAt, SameFiles
    <2> QED BY <1>0, <1>3, <2>1, OffGone DEF OffPcs, Reverts, OffKind
  <1>4. ASSUME off.pc \in {"rollback", "restore"} PROVE off' \in OffType /\ OffKind
    <2>1. OffGoto("discard") /\ offMarker' \in {offMarker, off.previous} /\ UNCHANGED <<finals, lost>>
      BY <1>0, <1>4 DEF OffFails, OffAt
    <2> QED BY <1>0, <1>4, <2>1, OffGone DEF OffPcs, FailsToRevert, OffKind
  <1>5. ASSUME OffAt("discard") PROVE off' \in OffType /\ OffKind
    <2>1. Finishes /\ offMarker' = offMarker /\ finals' \in {finals, Withdrawn}
      BY <1>5 DEF OffFails, OffAt
    <2> QED BY <1>0, <1>5, <2>1, IdleOff DEF Finishes, Rests, OffKind
  <1>6. ~(OffAt("idle") \/ OffAt("select"))
    BY DEF OffFails, OffAt
  <1> QED BY <1>0, <1>1, <1>2, <1>3, <1>4, <1>5, <1>6 DEF OffType, OffPcs, Unmarked, OffAt

LEMMA OffKinds ==
  ASSUME LocalInv, OffTypeInv, OffStep \/ OffFails \/ OffKilled \/ OperatorTidies \/ Loses
  PROVE  off' \in OffType /\ OffKind
  <1>0. OffAt("idle") => ~off.published /\ ~off.committed
    BY DEF OffTypeInv
  <1>1. ASSUME Finishes, UNCHANGED <<offMarker, lost>>,
               finals' = finals \/ (OffAt("discard") /\ finals' = Withdrawn)
        PROVE  off' \in OffType /\ OffKind
    BY <1>1, IdleOff DEF Finishes, Rests, OffKind
  <1>2. ASSUME NEW pc \in OffPcs, OffGoto(pc) PROVE off' \in OffType /\ OffMoves(pc)
    BY <1>2, OffGone DEF OffTypeInv
  <1>3. ASSUME OffBegin PROVE off' \in OffType /\ OffKind
    <2>1. off' \in OffType /\ OffMoves("select")
      BY <1>2, <1>3 DEF OffBegin, OffPcs
    <2> QED BY <1>0, <1>3, <2>1 DEF OffTypeInv, OffBegin, OffMoves, Rests, OffKind
  <1>4. ASSUME Select PROVE off' \in OffType /\ OffKind
    <2>1. UNCHANGED <<finals, offMarker, lost>> /\ OffAt("select")
      BY <1>4 DEF Select
    <2> QED BY <1>1, <1>4, <2>1, SelectStep DEF OffKind, SameFiles, Selects
  <1>5. ASSUME Encrypt PROVE off' \in OffType /\ OffKind
    <2>1. UNCHANGED <<finals, offMarker, lost>> /\ OffAt("encrypt")
      BY <1>5 DEF Encrypt
    <2>2. CASE Encrypts
      BY <2>1, <2>2 DEF OffKind, SameFiles, Encrypts
    <2>3. CASE OffGoto("discard")
      BY <1>2, <2>1, <2>3 DEF OffPcs, OffKind, SameFiles, GivesUp, Unmarked, OffAt
    <2> QED BY <1>5, <2>2, <2>3, EncryptStep
  <1>6. ASSUME Copy PROVE off' \in OffType /\ OffKind
    <2>1. off' \in OffType /\ OffMoves("revalidate")
      BY <1>2, <1>6 DEF Copy, OffPcs
    <2> QED BY <1>6, <2>1 DEF Copy, LooksAgain, OffKind, SameFiles
  <1>7. ASSUME Revalidate PROVE off' \in OffType /\ OffKind
    <2>1. UNCHANGED <<finals, offMarker, lost>> /\ OffAt("revalidate")
      BY <1>7 DEF Revalidate
    <2>2. CASE SourceUnchanged
      <3>1. off' \in OffType /\ OffMoves("rename")
        BY <1>2, <1>7, <2>2 DEF Revalidate, OffPcs
      <3> QED BY <2>1, <2>2, <3>1 DEF Confirms, OffKind, SameFiles
    <2>3. CASE ~SourceUnchanged
      <3>1. off' \in OffType /\ OffMoves("discard")
        BY <1>2, <1>7, <2>3 DEF Revalidate, OffPcs
      <3> QED BY <2>1, <3>1 DEF GivesUp, OffKind, SameFiles, Unmarked, OffAt
    <2> QED BY <2>2, <2>3
  <1>8. ASSUME Rename PROVE off' \in OffType /\ OffKind
    <2>1. UNCHANGED <<offMarker, lost>> /\ OffAt("rename")
      BY <1>8 DEF Rename
    <2>2. CASE Renames
      BY <2>1, <2>2 DEF OffKind, Renames
    <2>3. CASE OffGoto("discard") /\ finals' = finals
      BY <1>2, <2>1, <2>3 DEF OffPcs, OffKind, SameFiles, GivesUp, Unmarked, OffAt
    <2> QED BY <1>8, <2>2, <2>3, RenameStep
  <1>9. ASSUME Recheck PROVE off' \in OffType /\ OffKind
    <2>1. UNCHANGED <<finals, offMarker, lost>> /\ OffAt("recheck")
      BY <1>9 DEF Recheck
    <2>2. CASE OffGoto("mark")
      BY <1>2, <2>1, <2>2 DEF Rechecks, OffKind, SameFiles, OffPcs
    <2>3. CASE OffGoto("discard")
      BY <1>2, <2>1, <2>3 DEF GivesUp, OffKind, SameFiles, Unmarked, OffAt, OffPcs
    <2> QED BY <1>9, <2>2, <2>3 DEF Recheck
  <1>10. ASSUME WriteMarker PROVE off' \in OffType /\ OffKind
    <2>1. off' \in OffType /\ OffMoves("sync")
      BY <1>2, <1>10 DEF WriteMarker, OffPcs
    <2> QED BY <1>10, <2>1 DEF WriteMarker, Marks, OffKind
  <1>11. ASSUME SyncMarker PROVE off' \in OffType /\ OffKind
    BY <1>11, BelieveStep DEF SyncMarker, Believes, OffKind, SameFiles
  <1>12. ASSUME PutBack PROVE off' \in OffType /\ OffKind
    <2>1. ~SyncMarker /\ off.pc \in {"rollback", "restore"}
      BY <1>12 DEF PutBack, SyncMarker, OffAt
    <2>2. Believes("discard", FALSE)
      BY <1>12, <2>1, BelieveStep
    <2> QED BY <1>12, <2>1, <2>2 DEF PutBack, PutsBack, Believes, OffKind
  <1>13. ASSUME Tidy \/ Discard \/ OffKilled PROVE off' \in OffType /\ OffKind
    BY <1>1, <1>13 DEF Tidy, Discard, OffKilled
  <1>14. ASSUME OperatorTidies \/ Loses PROVE off' \in OffType /\ OffKind
    BY <1>14 DEF OperatorTidies, Loses, OffTypeInv, OffKind, SameFiles
  <1> QED BY <1>3, <1>4, <1>5, <1>6, <1>7, <1>8, <1>9, <1>10, <1>11, <1>12, <1>13, <1>14, FailKinds DEF OffStep

-----------------------------------------------------------------------------
(* The off-site run: what it relies on.                                    *)

\* The source's name is that of a bundle: neither of the other two.
LEMMA SourceName ==
  ASSUME OffInv, off.pc \in Unmarked \union Marked \union {"discard"}
  PROVE  off.source.id \in 1..MaxBundles /\ off.source.id \notin {None, Garbled}
  BY BundleFields, BackupBoundAssumption DEF OffInv, SourceInv, None, Garbled

\* A ciphertext stays unless a run withdraws it.
LEMMA PresentStays ==
  ASSUME OffInv, OffKind \/ Away, NEW id, Present(id),
         OffAt("discard") /\ off.published /\ ~off.committed => id # off.source.id
  PROVE  Present(id)'
  <1>1. ASSUME lost' = lost, finals \subseteq finals' PROVE Present(id)'
    BY <1>1 DEF Present, Taken
  <1>2. ASSUME lost' = lost, OffAt("discard"), finals' = Withdrawn PROVE Present(id)'
    BY <1>2 DEF Present, Taken, Withdrawn
  <1>3. ASSUME Loses PROVE Present(id)'
    <2>1. PICK b \in bundles :
            /\ lost' = lost \union {b.id}
            /\ \/ finals' = finals \ {b}
               \/ finals' = {c \in finals : c.id # b.id} \union {[b EXCEPT !.whole = FALSE]}
      BY <1>3 DEF Loses
    <2>2. ASSUME id # b.id, id \notin lost PROVE Taken(id)'
      <3>1. PICK c \in finals : c.id = id
        BY <2>2 DEF Present, Taken
      <3>2. c \in finals'
        BY <2>1, <2>2, <3>1
      <3> QED BY <3>1, <3>2 DEF Taken
    <2> QED BY <2>1, <2>2 DEF Present
  <1>4. \/ lost' = lost /\ finals \subseteq finals'
        \/ lost' = lost /\ OffAt("discard") /\ finals' = Withdrawn
        \/ Loses
    BY DEF OffKind, Away, offsite, Rests, Selects, Encrypts, LooksAgain, Confirms, Renames, Rechecks, Marks,
           GivesUp, Reverts, FailsToRevert, PutsBack, SameFiles
  <1> QED BY <1>1, <1>2, <1>3, <1>4

\* Where a step leaves a run that goes on.
LEMMA SourceStays ==
  ASSUME OffKind \/ Away, ~OffAt("select"), off'.pc \in Unmarked \union Marked \union {"discard"}
  PROVE  /\ off'.source = off.source /\ off'.previous = off.previous
         /\ off.pc \in Unmarked \union Marked \union {"discard"}
  <1>1. ~Rests
    BY DEF Rests, Unmarked, Marked
  <1> QED BY <1>1
          DEF OffKind, Away, offsite, Encrypts, LooksAgain, Confirms, Renames, Rechecks, Marks, Believes, OffMoves,
              GivesUp, Reverts, FailsToRevert, PutsBack, SameFiles, OffAt, Unmarked, Marked

LEMMA SourceInvStep ==
  ASSUME LocalInv, OffInv, OffKind \/ Away, Used <= Used', Used \in Int, Used' \in Int
  PROVE  SourceInv'
  <1> SUFFICES ASSUME off'.pc \in Unmarked \union Marked \union {"discard"}
               PROVE  /\ off'.source \in Bundle /\ off'.source.whole /\ off'.source.schema = off'.source.dump
                      /\ off'.source.id <= Used'
                      /\ off'.previous # Garbled /\ off'.previous # off'.source.id
                      /\ off'.previous = None \/ Present(off.previous)'
    BY DEF SourceInv
  <1>1. ASSUME OffAt("select") PROVE Selects
    <2>1. ~Rests /\ off' # off
      BY <1>1 DEF Rests, Unmarked, Marked, OffAt
    <2> QED BY <1>1, <2>1
            DEF OffKind, Away, offsite, LooksAgain, Confirms, Rechecks, Marks, GivesUp, Reverts, FailsToRevert,
                PutsBack, OffAt, Unmarked
  <1>2. ASSUME OffAt("select")
        PROVE  /\ off'.source \in Bundle /\ off'.source.whole /\ off'.source.schema = off'.source.dump
               /\ off'.source.id <= Used'
               /\ off'.previous # Garbled /\ off'.previous # off'.source.id
               /\ off'.previous = None \/ Present(off.previous)'
    <2>1. /\ off'.source \in Valid /\ off'.source.id = marker /\ off'.previous = offMarker
          /\ offMarker # Garbled /\ (offMarker # None => FinalValid(offMarker) /\ offMarker # marker)
      BY <1>1, <1>2, LatestIsValid DEF Selects, MarkerReadable, Matches
    <2>2. off'.source \in bundles /\ off'.source \in Bundle /\ off'.source.whole
      BY <2>1 DEF Valid, Verified, LocalInv, TypeOKLocal
    <2>3. off'.source.schema = off'.source.dump /\ off'.source.id <= Used
      BY <2>2 DEF LocalInv, DumpInv, NameInv
    <2>4. off'.source.id \in Nat /\ off'.source.id # None
      BY <2>2, BundleFields, BackupBoundAssumption DEF None
    <2>5. ~(OffAt("discard") /\ off.published /\ ~off.committed)
      BY <1>2 DEF OffAt
    <2>6. offMarker # None => Present(offMarker)
      BY <2>1 DEF FinalValid, Present, Taken
    <2>7. ASSUME offMarker # None PROVE Present(off.previous)'
      <3>1. \A id : id = offMarker => Present(id)'
        BY <2>5, <2>6, <2>7, PresentStays
      <3> QED BY <2>1, <3>1 DEF Present, Taken
    <2> QED BY <2>1, <2>2, <2>3, <2>4, <2>7
  <1>3. ASSUME ~OffAt("select")
        PROVE  /\ off'.source \in Bundle /\ off'.source.whole /\ off'.source.schema = off'.source.dump
               /\ off'.source.id <= Used'
               /\ off'.previous # Garbled /\ off'.previous # off'.source.id
               /\ off'.previous = None \/ Present(off.previous)'
    <2>1. /\ off'.source = off.source /\ off'.previous = off.previous
          /\ off.pc \in Unmarked \union Marked \union {"discard"}
      BY <1>3, SourceStays
    <2>2. /\ off.source \in Bundle /\ off.source.whole /\ off.source.schema = off.source.dump
          /\ off.source.id <= Used
          /\ off.previous # Garbled /\ off.previous # off.source.id
          /\ off.previous = None \/ Present(off.previous)
      BY <2>1 DEF OffInv, SourceInv
    <2>3. off.source.id \in Nat
      BY <2>2, BundleFields, BackupBoundAssumption
    <2>4. ASSUME off.previous # None PROVE Present(off.previous)'
      <3>1. \A id : id = off.previous => Present(id)'
        BY <2>2, <2>4, PresentStays
      <3> QED BY <2>1, <3>1 DEF Present, Taken
    <2> QED BY <2>1, <2>2, <2>3, <2>4
  <1> QED BY <1>2, <1>3

LEMMA OffPlacedStep ==
  ASSUME LocalInv, OffInv, OffKind \/ Away, faults' \in {faults, faults + 1}
  PROVE  OffPlaced'
  <1>0. faults \in Nat /\ off \in OffType
    BY BackupBoundAssumption DEF LocalInv, TypeOKLocal, OffInv, OffTypeInv
  <1>1. OffPlaced /\ OffTypeInv
    BY DEF OffInv
  <1>2. ASSUME Rests \/ GivesUp \/ FailsToRevert \/ PutsBack PROVE OffPlaced'
    <2>1. off'.pc \in {"idle", "select", "discard"}
      BY <1>2 DEF Rests, GivesUp, FailsToRevert, PutsBack, OffMoves, Believes
    <2> QED BY <2>1 DEF OffPlaced, Unmarked, Marked, OffAt
  <1>3. ASSUME OffAt("select"), Selects, SameFiles PROVE OffPlaced'
    BY <1>1, <1>3 DEF Selects, SameFiles, OffPlaced, OffTypeInv, Unmarked, Marked, OffAt
  <1>4. ASSUME (OffAt("encrypt") /\ Encrypts /\ SameFiles) \/ LooksAgain \/ Confirms \/ Rechecks
        PROVE  OffPlaced'
    <2>1. off'.pc \in {"copy", "revalidate", "rename", "mark"} /\ off.pc \in Unmarked
      BY <1>4 DEF Encrypts, LooksAgain, Confirms, Rechecks, OffMoves, Unmarked, OffAt
    <2>2. off'.previous = off.previous /\ offMarker' = offMarker /\ off'.committed = off.committed
      BY <1>4 DEF Encrypts, LooksAgain, Confirms, Rechecks, OffMoves, SameFiles
    <2> QED BY <1>1, <2>1, <2>2 DEF OffPlaced, Unmarked, Marked, OffAt
  <1>5. ASSUME OffAt("rename"), Renames, UNCHANGED <<offMarker, lost>> PROVE OffPlaced'
    BY <1>1, <1>5 DEF Renames, OffPlaced, Unmarked, Marked, OffAt
  <1>6. ASSUME Marks PROVE OffPlaced'
    BY <1>6 DEF Marks, OffMoves, OffPlaced, Unmarked, Marked, OffAt
  <1>7. ASSUME OffAt("sync"), Believes("tidy", TRUE), SameFiles PROVE OffPlaced'
    BY <1>1, <1>7 DEF Believes, SameFiles, OffPlaced, Unmarked, Marked, OffAt
  <1>8. ASSUME Reverts PROVE OffPlaced'
    <2>1. off'.pc \in {"rollback", "restore"} /\ off.pc \in Marked /\ off'.source = off.source
          /\ offMarker' = offMarker
      BY <1>8 DEF Reverts, OffMoves, SameFiles, Marked, OffAt
    <2>2. off'.pc = "restore" => off'.committed
      BY <1>1, <1>8 DEF Reverts, OffMoves, OffPlaced, OffAt
    <2>3. faults' > 0
      BY <1>0, <1>8 DEF Reverts
    <2> QED BY <1>1, <2>1, <2>2, <2>3 DEF OffPlaced, Unmarked, Marked, OffAt
  <1>9. ASSUME off' = off, offMarker' \in {offMarker, Garbled} PROVE OffPlaced'
    BY <1>0, <1>1, <1>9 DEF OffPlaced, OffAt
  <1>10. Loses => offMarker' \in {offMarker, Garbled}
    BY DEF Loses
  <1> QED BY <1>2, <1>3, <1>4, <1>5, <1>6, <1>7, <1>8, <1>9, <1>10 DEF OffKind, Away, offsite, SameFiles

\* A bundle of the name of a source is what it was, or broken.
LEMMA SameName ==
  ASSUME LocalInv, LocalStep, NEW id \in Nat, id <= Used,
         NEW c \in bundles', c.id = id, c.whole
  PROVE  c \in bundles
  <1>1. bundles \subseteq Bundle /\ made \in Nat /\ LocalTypes
    BY DEF LocalInv, TypeOKLocal, CoreInv, LocalTypes
  <1>2. ASSUME Publish, Publishes PROVE c \in bundles
    <2>1. core.bundle.id = made /\ Used <= made - 1 /\ Used \in Int
      BY <1>1, <1>2, UsedStep DEF Publish, At, LocalInv, CoreInv, Building
    <2>2. c # core.bundle
      BY <1>1, <2>1
    <2> QED BY <1>2, <2>2 DEF Publishes
  <1>3. ASSUME Thins PROVE c \in bundles
    BY <1>1, <1>3, ThinnedBundles
  <1> QED BY <1>2, <1>3, StoreStep

LEMMA CipherInvStep ==
  ASSUME LocalInv, OffInv, LocalStep, Away \/ (OffKind /\ bundles' = bundles)
  PROVE  CipherInv'
  <1>0. /\ off \in OffType /\ bundles \subseteq Bundle /\ CipherInv
        /\ \A b, c \in bundles : b.id = c.id => b = c
    BY DEF OffInv, OffTypeInv, LocalInv, TypeOKLocal, NameInv
  <1>1. \A c \in finals' : c.id \in lost' \/ (c.whole /\ c.schema = c.dump)
    <2>1. ASSUME lost' = lost, finals' \subseteq finals
          PROVE  \A c \in finals' : c.id \in lost' \/ (c.whole /\ c.schema = c.dump)
      BY <1>0, <2>1 DEF CipherInv
    <2>2. ASSUME OffAt("rename"), Renames, lost' = lost
          PROVE  \A c \in finals' : c.id \in lost' \/ (c.whole /\ c.schema = c.dump)
      <3>1. off.cipher.whole /\ off.cipher.schema = off.cipher.dump
        BY <1>0, <2>2 DEF CipherInv, OffInv, SourceInv, OffAt, Unmarked
      <3> QED BY <1>0, <2>2, <3>1 DEF Renames, CipherInv
    <2>3. ASSUME Loses PROVE \A c \in finals' : c.id \in lost' \/ (c.whole /\ c.schema = c.dump)
      <3>1. PICK b \in bundles :
              /\ lost' = lost \union {b.id}
              /\ \/ finals' = finals \ {b}
                 \/ finals' = {c \in finals : c.id # b.id} \union {Broken(b)}
        BY <2>3 DEF Loses, Broken
      <3>2. Broken(b).id = b.id
        BY <1>0, BrokenBundle
      <3> HIDE DEF Broken
      <3> QED BY <1>0, <3>1, <3>2 DEF CipherInv
    <2>4. \/ lost' = lost /\ finals' \subseteq finals
          \/ OffAt("rename") /\ Renames /\ lost' = lost
          \/ Loses
      BY DEF OffKind, Away, offsite, Rests, Selects, Encrypts, LooksAgain, Confirms, Rechecks, Marks,
             GivesUp, Reverts, FailsToRevert, PutsBack, SameFiles, Withdrawn
    <2> QED BY <2>1, <2>2, <2>3, <2>4
  <1>2. ASSUME off'.pc \in {"copy", "revalidate"}
        PROVE  /\ off'.cipher \in Bundle
               /\ \A b \in bundles' : b.id = off'.source.id /\ b.whole => b = off'.cipher
    <2>1. ASSUME OffAt("encrypt"), Encrypts, bundles' = bundles
          PROVE  /\ off'.cipher \in Bundle
                 /\ \A b \in bundles' : b.id = off'.source.id /\ b.whole => b = off'.cipher
      BY <1>0, <2>1 DEF Encrypts
    <2>2. ASSUME off.pc \in {"copy", "revalidate"}, off'.cipher = off.cipher, off'.source = off.source
          PROVE  /\ off'.cipher \in Bundle
                 /\ \A b \in bundles' : b.id = off'.source.id /\ b.whole => b = off'.cipher
      <3>1. /\ off.cipher \in Bundle
            /\ \A b \in bundles : b.id = off.source.id /\ b.whole => b = off.cipher
        BY <1>0, <2>2 DEF CipherInv, OffAt
      <3>2. off.source.id \in Nat /\ off.source.id <= Used
        BY <2>2, BundleFields, BackupBoundAssumption DEF OffInv, SourceInv, Unmarked
      <3>3. \A b \in bundles' : b.id = off.source.id /\ b.whole => b \in bundles
        BY <3>2, SameName
      <3> QED BY <2>2, <3>1, <3>3
    <2>3. ASSUME Away \/ LooksAgain \/ (UNCHANGED off)
          PROVE  off.pc \in {"copy", "revalidate"} /\ off'.cipher = off.cipher /\ off'.source = off.source
      BY <1>2, <2>3 DEF Away, offsite, LooksAgain, OffMoves, OffAt
    <2>4. Away \/ LooksAgain \/ UNCHANGED off \/ (OffAt("encrypt") /\ Encrypts /\ bundles' = bundles)
      BY <1>2 DEF OffKind, Rests, Selects, Confirms, Renames, Rechecks, Marks, Believes, OffMoves,
                  GivesUp, Reverts, FailsToRevert, PutsBack
    <2> QED BY <2>1, <2>2, <2>3, <2>4
  <1>3. ASSUME off'.pc = "rename" PROVE off'.cipher = off'.source
    <2>1. CASE Confirms
      <3>1. off.source \in bundles /\ off.source.whole
        BY <2>1, LatestIsValid DEF Confirms, SourceUnchanged, Fingerprint, Valid, Verified
      <3>2. off.source = off.cipher
        BY <1>0, <2>1, <3>1 DEF Confirms, CipherInv
      <3> QED BY <2>1, <3>2 DEF Confirms, OffMoves
    <2>2. CASE Away \/ UNCHANGED off
      BY <1>0, <1>3, <2>2 DEF Away, offsite, CipherInv, OffAt
    <2>3. Confirms \/ Away \/ UNCHANGED off
      BY <1>3 DEF OffKind, Rests, Selects, Encrypts, LooksAgain, Renames, Rechecks, Marks, Believes, OffMoves,
                  GivesUp, Reverts, FailsToRevert, PutsBack
    <2> QED BY <2>1, <2>2, <2>3
  <1>4. ASSUME off'.pc \in {"recheck", "mark"} \union Marked PROVE Present(off.source.id)'
    <2>1. CASE OffAt("rename") /\ Renames
      <3>1. off.cipher = off.source
        BY <1>0, <2>1 DEF CipherInv
      <3> QED BY <2>1, <3>1 DEF Renames, Present, Taken
    <2>2. CASE ~(OffAt("rename") /\ Renames)
      <3>1. off.pc \in {"recheck", "mark"} \union Marked /\ off'.source = off.source
        BY <1>4, <2>2
           DEF OffKind, Away, offsite, Rests, Selects, Encrypts, LooksAgain, Confirms, Rechecks, Marks, Believes,
               OffMoves, GivesUp, Reverts, FailsToRevert, PutsBack, OffAt, Marked
      <3>2. \A id : id = off.source.id => Present(id)'
        BY <1>0, <3>1, PresentStays DEF CipherInv, OffAt, Marked
      <3> QED BY <3>1, <3>2 DEF Present, Taken
    <2> QED BY <2>1, <2>2
  <1> QED BY <1>1, <1>2, <1>3, <1>4 DEF CipherInv, OffAt

LEMMA OffTypeStep ==
  ASSUME LocalInv, OffInv,
         Away \/ ((OffStep \/ OffFails \/ OffKilled \/ OperatorTidies \/ Loses) /\ UNCHANGED <<world, local>>)
  PROVE  OffTypeInv'
  <1>0. /\ OffTypeInv /\ bundles \subseteq Bundle
        /\ off \in OffType /\ finals \subseteq Bundle /\ offMarker \in {Garbled, None} \union 1..MaxBundles
        /\ residue \subseteq {"staging", "rollback"} /\ lost \subseteq 1..MaxBundles
    BY DEF OffInv, OffTypeInv, LocalInv, TypeOKLocal
  <1>1. CASE Away
    BY <1>0, <1>1 DEF Away, offsite, OffTypeInv, OffAt
  <1>2. CASE ~Away
    <2>1. OffStep \/ OffFails \/ OffKilled \/ OperatorTidies \/ Loses
      BY <1>2
    <2>2. off' \in OffType /\ OffKind
      BY <1>0, <2>1, OffKinds
    <2>3. residue' \subseteq {"staging", "rollback"}
      BY <1>0, <2>1
         DEF OffStep, OffBegin, Select, Encrypt, Copy, Revalidate, Rename, Recheck, WriteMarker, SyncMarker, Tidy,
             PutBack, Discard, OffFails, OffKilled, OperatorTidies, Loses
    <2>4. ASSUME Loses PROVE finals' \subseteq Bundle /\ lost' \subseteq 1..MaxBundles
      <3>1. PICK b \in bundles :
              /\ lost' = lost \union {b.id}
              /\ finals' \in {finals \ {b}, {c \in finals : c.id # b.id} \union {Broken(b)}}
        BY <2>4 DEF Loses, Broken
      <3>2. Broken(b) \in Bundle /\ b.id \in 1..MaxBundles
        BY <1>0, BrokenBundle, BundleFields
      <3> HIDE DEF Broken
      <3> QED BY <1>0, <3>1, <3>2
    <2>5. OffAt("rename") => off.cipher \in Bundle
      BY DEF OffInv, SourceInv, CipherInv, OffAt, Unmarked
    <2>6. finals' \subseteq Bundle /\ lost' \subseteq 1..MaxBundles
      BY <1>0, <2>2, <2>4, <2>5
         DEF OffKind, Rests, Renames, LooksAgain, Confirms, Rechecks, Marks, GivesUp, Reverts, FailsToRevert,
             PutsBack, SameFiles, Withdrawn
    <2>7. offMarker' \in {Garbled, None} \union 1..MaxBundles
      <3>1. OffAt("mark") => off.source.id \in 1..MaxBundles
        BY SourceName DEF OffAt, Unmarked
      <3>2. off.previous \in {Garbled, None} \union 1..MaxBundles
        BY <1>0 DEF OffType
      <3>3. Loses => offMarker' \in {offMarker, Garbled}
        BY DEF Loses
      <3> QED BY <1>0, <2>2, <3>1, <3>2, <3>3
              DEF OffKind, Rests, LooksAgain, Confirms, Rechecks, Marks, GivesUp, Reverts, FailsToRevert,
                  PutsBack, SameFiles
    <2>8. off'.pc \in {"idle", "select"} => ~off'.published /\ ~off'.committed
      BY <1>0, <2>2
         DEF OffKind, Rests, Selects, Encrypts, Renames, LooksAgain, Confirms, Rechecks, Marks, Believes, OffMoves,
             GivesUp, Reverts, FailsToRevert, PutsBack, OffTypeInv, OffAt
    <2> QED BY <2>2, <2>3, <2>6, <2>7, <2>8 DEF OffTypeInv, OffAt
  <1> QED BY <1>1, <1>2

LEMMA CopyInvStep ==
  ASSUME LocalInv, OffInv, CopyInv, OffKind \/ Away, ~(OffAt("rollback") /\ OffFails)
  PROVE  CopyInv'
  <1>0. /\ off \in OffType
        /\ off.pc \in Unmarked \union Marked \union {"discard"} =>
             /\ off.source.id \notin {None, Garbled}
             /\ off.previous # Garbled /\ off.previous # off.source.id
             /\ off.previous = None \/ Present(off.previous)
    BY SourceName DEF OffInv, OffTypeInv, SourceInv
  <1>1. ASSUME NEW id, Present(id), OffAt("discard") /\ off.published /\ ~off.committed => id # off.source.id
        PROVE  Present(id)'
    BY <1>1, PresentStays
  <1>2. offMarker' \in {None, Garbled} \/ Present(offMarker)'
    <2>1. ASSUME offMarker' = offMarker PROVE offMarker' \in {None, Garbled} \/ Present(offMarker)'
      <3>1. ASSUME NEW id, id = offMarker, id \notin {None, Garbled} PROVE Present(id)'
        BY <1>1, <3>1 DEF CopyInv
      <3> QED BY <2>1, <3>1 DEF Present, Taken
    <2>2. ASSUME Marks PROVE offMarker' \in {None, Garbled} \/ Present(offMarker)'
      <3>1. ASSUME NEW id, id = off.source.id PROVE Present(id)'
        BY <1>1, <2>2, <3>1 DEF Marks, OffInv, CipherInv, OffAt
      <3> QED BY <2>2, <3>1 DEF Marks, Present, Taken
    <2>3. ASSUME off.pc \in Marked, offMarker' = off.previous
          PROVE  offMarker' \in {None, Garbled} \/ Present(offMarker)'
      <3>1. ASSUME NEW id, id = off.previous, id # None PROVE Present(id)'
        BY <1>0, <1>1, <2>3, <3>1
      <3> QED BY <2>3, <3>1 DEF Present, Taken
    <2>4. Loses => offMarker' \in {offMarker, Garbled}
      BY DEF Loses
    <2> QED BY <2>1, <2>2, <2>3, <2>4
            DEF OffKind, Away, offsite, Rests, LooksAgain, Confirms, Rechecks, GivesUp, Reverts, FailsToRevert,
                PutsBack, SameFiles, Marked
  <1>3. ASSUME off'.pc = "discard", off'.published, ~off'.committed PROVE offMarker' # off'.source.id
    <2>1. CASE GivesUp
      BY <1>0, <2>1 DEF GivesUp, OffMoves, SameFiles, OffInv, OffPlaced
    <2>2. CASE FailsToRevert
      <3>1. off.committed
        BY <2>2 DEF FailsToRevert, OffInv, OffPlaced, OffAt
      <3> QED BY <1>3, <2>2, <3>1 DEF FailsToRevert, OffMoves
    <2>3. CASE PutsBack
      BY <1>0, <2>3 DEF PutsBack, Believes, Marked
    <2>4. CASE off' = off /\ offMarker' \in {offMarker, Garbled}
      BY <1>0, <1>3, <2>4 DEF CopyInv, OffAt
    <2>5. Loses => offMarker' \in {offMarker, Garbled}
      BY DEF Loses
    <2> QED BY <1>3, <2>1, <2>2, <2>3, <2>4, <2>5
            DEF OffKind, Away, offsite, Rests, Selects, Encrypts, LooksAgain, Confirms, Renames, Rechecks, Marks,
                Believes, OffMoves, Reverts, SameFiles
  <1> QED BY <1>2, <1>3 DEF CopyInv, OffAt

-----------------------------------------------------------------------------
(* The theorems.                                                           *)

Inv == LocalInv /\ MarkerInv /\ OffInv

LEMMA InvInit == OffInit => Inv /\ RestoreInv /\ DayInv /\ CopyInv
  <1> SUFFICES ASSUME OffInit PROVE Inv /\ RestoreInv /\ DayInv /\ CopyInv
    OBVIOUS
  <1>1. LocalInv /\ MarkerInv /\ RestoreInv
    BY LocalInvInit, MarkerInvInit DEF OffInit
  <1>2. off.pc = "idle" /\ finals = {} /\ offMarker = None /\ residue = {} /\ lost = {} /\ points = {}
    BY IdleOff DEF OffInit, Init
  <1>3. OffTypeInv
    BY <1>2, IdleOff DEF OffInit, OffTypeInv
  <1>4. SourceInv /\ CipherInv /\ OffPlaced /\ CopyInv
    BY <1>2 DEF SourceInv, CipherInv, OffPlaced, CopyInv, Unmarked, Marked, OffAt
  <1>5. DayInv
    BY <1>2 DEF DayInv
  <1> QED BY <1>1, <1>3, <1>4, <1>5 DEF Inv, OffInv

LEMMA WorkerStep ==
  ASSUME Inv, [Next]_vars
  PROVE  /\ LocalStep
         /\ Away \/ (OffKind /\ bundles' = bundles)
         /\ OffTypeInv'
  <1>1. LocalInv /\ OffInv /\ OffTypeInv
    BY DEF Inv, OffInv
  <1>2. LocalStep
    BY <1>1, StepKinds
  <1>3. Away \/ ((OffStep \/ OffFails \/ OffKilled \/ OperatorTidies \/ Loses) /\ UNCHANGED <<world, local>>)
    BY <1>1, StepKinds
  <1>4. Away \/ (OffKind /\ bundles' = bundles)
    BY <1>1, <1>3, OffKinds DEF local
  <1> QED BY <1>1, <1>2, <1>3, <1>4, OffTypeStep

LEMMA InvStep == Inv /\ [Next]_vars => Inv'
  <1> SUFFICES ASSUME Inv, [Next]_vars PROVE Inv'
    OBVIOUS
  <1>1. LocalStep /\ (Away \/ (OffKind /\ bundles' = bundles)) /\ OffTypeInv'
    BY WorkerStep
  <1>2. LocalInv'
    BY <1>1, LocalInvStep DEF Inv
  <1>3. MarkerInv'
    BY <1>1, <1>2, MarkerInvStep DEF Inv
  <1>4. SourceInv'
    <2>1. LocalTypes /\ Used \in Int /\ Used <= Used'
      BY <1>1, UsedStep DEF Inv, LocalInv, LocalTypes
    <2>2. Used' \in Int
      <3>1. made' \in Nat
        BY <1>2 DEF LocalInv, CoreInv
      <3> QED BY <3>1 DEF Used
    <2> QED BY <1>1, <2>1, <2>2, SourceInvStep DEF Inv
  <1>5. CipherInv'
    BY <1>1, CipherInvStep DEF Inv
  <1>6. OffPlaced'
    <2>1. faults' \in {faults, faults + 1}
      BY <1>1, TypedParts, CounterStep DEF Inv, LocalInv, LocalTypes
    <2> QED BY <1>1, <2>1, OffPlacedStep DEF Inv
  <1> QED BY <1>1, <1>2, <1>3, <1>4, <1>5, <1>6 DEF Inv, OffInv

LEMMA BackupInvariant == Spec => []Inv
  <1>1. OffInit => Inv
    BY InvInit
  <1> QED BY <1>1, InvStep, PTL DEF Spec

\* Every file, record, name and counter of both programs keeps its type.
THEOREM BackupTypes == Spec => []TypeOK
  <1>1. Inv => TypeOK
    BY DEF Inv, LocalInv, OffInv, OffTypeInv, OffType, OffPcs, TypeOK
  <1> QED BY <1>1, BackupInvariant, PTL

\* While fewer than Recent - 1 bundles were left by runs that did not commit
\* since the one the marker names, whatever else fails, is killed, is planned or
\* pruned, a marker names a bundle that is there, complete, and holds the schema
\* it says (commit_bundle, retention_plan).
THEOREM MarkerRestores == Spec /\ []FewLeft => []MarkerNamesRestorePoint
  <1>1. Inv /\ RestoreInv /\ FewLeft /\ [Next]_vars => RestoreInv'
    <2> SUFFICES ASSUME Inv, RestoreInv, FewLeft, [Next]_vars PROVE RestoreInv'
      OBVIOUS
    <2>1. LocalStep /\ LocalInv'
      BY WorkerStep, InvStep DEF Inv
    <2> QED BY <2>1, RestoreStep DEF Inv, MarkerInv
  <1>2. Inv /\ RestoreInv => MarkerNamesRestorePoint
    BY MarkerPoint DEF Inv
  <1>3. OffInit => RestoreInv
    BY InvInit
  <1> QED BY <1>1, <1>2, <1>3, BackupInvariant, PTL DEF Spec

\* The same counted by faults: each leaves one such bundle at most, so the marker
\* names a restore point as long as fewer than Recent - 1 steps failed or runs
\* were killed.
THEOREM MarkerRestoresAfterFaults == Spec => [](FewFaults => MarkerNamesRestorePoint)
  <1>1. Inv => (FewFaults => MarkerNamesRestorePoint)
    BY MarkerPoint DEF Inv, MarkerInv
  <1> QED BY <1>1, BackupInvariant, PTL

\* With at least two recent bundles kept, pruning by a plan, an old one too,
\* never takes the last bundle from 06:00 on of a day the plan still protects
\* (retention_plan), however many steps fail and runs are killed.
THEOREM DailyPointsKept == Recent > 1 => (Spec => []DailyPointKept)
  <1> SUFFICES ASSUME Recent > 1 PROVE Spec => []DailyPointKept
    OBVIOUS
  <1>1. Inv /\ DayInv /\ [Next]_vars => DayInv'
    <2> SUFFICES ASSUME Inv, DayInv, [Next]_vars PROVE DayInv'
      OBVIOUS
    <2>1. LocalStep /\ LocalInv'
      BY WorkerStep, InvStep DEF Inv
    <2> QED BY <2>1, DayInvStep DEF Inv
  <1>2. DayInv => DailyPointKept
    BY DEF DayInv, DailyPointKept
  <1>3. OffInit => DayInv
    BY InvInit
  <1> QED BY <1>1, <1>2, <1>3, BackupInvariant, PTL DEF Spec

LEMMA CopyPoint == Inv /\ CopyInv => CopyBehindMarker
  <1> SUFFICES ASSUME Inv, CopyInv, offMarker \notin {Garbled, None} \union lost
               PROVE  \E c \in finals : /\ c.id = offMarker /\ Verified(c) /\ c.schema = c.dump
                                        /\ OffsiteStatus # "INVALID"
    BY DEF CopyBehindMarker
  <1>1. PICK c \in finals : c.id = offMarker
    BY DEF CopyInv, Present, Taken
  <1>2. c.whole /\ c.schema = c.dump
    BY <1>1 DEF Inv, OffInv, CipherInv
  <1>3. MarkerReadable /\ FinalValid(offMarker)
    BY <1>1 DEF MarkerReadable, FinalValid, Intact
  <1>4. OffsiteStatus # "INVALID"
    BY <1>3 DEF OffsiteStatus
  <1> QED BY <1>1, <1>2, <1>4 DEF Verified

\* Whatever fails, is killed, lost, pruned or damaged, in any number, the
\* off-site marker names a ciphertext that is there and whole, and the status
\* command never calls it INVALID, unless iCloud lost it, or putting the previous
\* marker back inside _write_atomic_marker fails itself.
THEOREM CopyStays == Spec /\ [][~(OffAt("rollback") /\ OffFails)]_vars => []CopyBehindMarker
  <1>1. Inv /\ CopyInv /\ [Next]_vars /\ [~(OffAt("rollback") /\ OffFails)]_vars => CopyInv'
    <2> SUFFICES ASSUME Inv, CopyInv, [Next]_vars, [~(OffAt("rollback") /\ OffFails)]_vars PROVE CopyInv'
      OBVIOUS
    <2>1. Away \/ OffKind
      BY WorkerStep
    <2>2. UNCHANGED vars => ~(OffAt("rollback") /\ OffFails)
      <3>1. UNCHANGED vars => faults' = faults
        BY DEF vars
      <3>2. OffFails => faults' = faults + 1
        BY DEF OffFails, Fault
      <3>3. faults \in Nat
        BY BackupBoundAssumption DEF Inv, LocalInv, TypeOKLocal
      <3> QED BY <3>1, <3>2, <3>3
    <2> QED BY <2>1, <2>2, CopyInvStep DEF Inv
  <1>2. OffInit => CopyInv
    BY InvInit
  <1> QED BY <1>1, <1>2, CopyPoint, BackupInvariant, PTL DEF Spec

\* One fault alone never leaves the off-site marker without its ciphertext: that
\* rollback runs after a first one.
THEOREM CopyStaysAfterOneFault == Spec => [](faults <= 1 => CopyBehindMarker)
  <1>1. Inv /\ (faults <= 1 => CopyInv) /\ [Next]_vars => (faults <= 1 => CopyInv)'
    <2> SUFFICES ASSUME Inv, faults <= 1 => CopyInv, [Next]_vars, faults' <= 1 PROVE CopyInv'
      OBVIOUS
    <2>1. LocalStep /\ (Away \/ OffKind)
      BY WorkerStep
    <2>2. faults \in Nat /\ faults' \in {faults, faults + 1}
      BY <2>1, TypedParts, CounterStep, BackupBoundAssumption DEF Inv, LocalInv, LocalTypes, TypeOKLocal
    <2>3. faults <= 1
      BY <2>2
    <2>4. ~(OffAt("rollback") /\ OffFails)
      <3>1. OffFails => faults' = faults + 1
        BY DEF OffFails, Fault
      <3>2. OffAt("rollback") => faults > 0
        BY DEF Inv, OffInv, OffPlaced
      <3> QED BY <2>2, <3>1, <3>2
    <2> QED BY <2>1, <2>3, <2>4, CopyInvStep DEF Inv
  <1>2. OffInit => CopyInv
    BY InvInit
  <1>3. Inv /\ (faults <= 1 => CopyInv) => (faults <= 1 => CopyBehindMarker)
    BY CopyPoint
  <1> QED BY <1>1, <1>2, <1>3, BackupInvariant, PTL DEF Spec

=============================================================================
