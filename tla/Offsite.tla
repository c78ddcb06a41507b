------------------------------- MODULE Offsite -------------------------------
(***************************************************************************)
(* The off-site worker, scripts/backup_tools/offsite_backup.py, over the   *)
(* local backups.  A run takes the bundle that last-success.json names,    *)
(* encrypts it, publishes the ciphertext without replacing anything, and   *)
(* points its own marker at it.  It holds a flock, so runs do not overlap; *)
(* a run that finds the lock held ends and changes nothing.                *)
(***************************************************************************)
EXTENDS BackupBundle

VARIABLES
  finals,    \* published ciphertexts
  offMarker, \* offsite-last-success.json
  residue,   \* unfinished files in the state directory
  off,       \* the run
  lost       \* for the properties: ciphertexts that were lost in iCloud

offsite == <<finals, offMarker, residue, off, lost>>
vars == <<world, local, faults, offsite>>

OffIdle == [pc |-> "idle", source |-> NoBundle, cipher |-> NoBundle, previous |-> None,
            published |-> FALSE, committed |-> FALSE]
OffAt(pc) == off.pc = pc
OffGoto(pc) == off' = [off EXCEPT !.pc = pc]

OffInit ==
  /\ Init
  /\ finals = {} /\ offMarker = None /\ residue = {} /\ off = OffIdle /\ lost = {}

-----------------------------------------------------------------------------
(* What a run checks.                                                      *)

\* _canonical_private_directory, _canonical_private_file
PrivateDirectory(p) == Canonical(p) /\ Private(p)
PrivateFile(p) == Canonical(p) /\ Private(p)

\* _validate_executable
Executable == host.wrong["tools"] = {}

\* _parse_config: a public recipient and a target, nothing else.
ConfigRead == PrivateFile("config") /\ "content" \notin host.wrong["config"]

\* _validate_disjoint_paths
Disjoint == \A p \in Places : "inside another" \notin host.wrong[p]

\* resolve_authority
Trusted(binaries) ==
  /\ BackupDirectoryTrusted
  /\ ConfigRead /\ PrivateDirectory("state") /\ PrivateDirectory("target")
  /\ "elsewhere" \notin host.wrong["target"]
  /\ Disjoint
  /\ binaries => Executable

\* validate_state_entries: nothing but the marker and the lock.
StateTidy == residue = {}

\* load_marker, validate_marker
MarkerReadable == offMarker # Garbled

\* select_latest_source: the bundle the marker names, with its fingerprint.
SourceValid == LastSuccessValid
LatestSource == CHOOSE b \in Valid : b.id = marker

\* _source_fingerprint: inodes, sizes, times and hashes; any change shows.
Fingerprint(b) == b

\* revalidate_source: still the latest, and the same bytes.
SourceUnchanged == SourceValid /\ Fingerprint(LatestSource) = off.source

\* _hash_regular_file: the ciphertext that was published, byte for byte.
Intact(c) == c.id \notin lost

\* _validate_final: the ciphertext that the marker names.
FinalValid(m) == \E c \in finals : c.id = m /\ Intact(c)

\* _marker_matches_source
Matches == offMarker = marker

\* Is the name of the ciphertext in use?
Taken(id) == \E c \in finals : c.id = id

\* offsite_status.  The 8 hours of grace are less than a half-day of the clock:
\* FRESH and STALE are one answer here.
OffsiteStatus ==
  IF ~Trusted(FALSE) \/ ~StateTidy THEN "REFUSED"
  ELSE IF offMarker = None THEN "MISSING"
  ELSE IF MarkerReadable /\ FinalValid(offMarker) THEN "PRESENT" ELSE "INVALID"

-----------------------------------------------------------------------------
(* The run.                                                                *)

Same == UNCHANGED <<world, local>>
Finishes == off' = OffIdle

OffBegin ==
  /\ "offsite" \in varying
  /\ OffAt("idle") /\ Trusted(TRUE) /\ StateTidy /\ OffGoto("select")
  /\ Same /\ UNCHANGED <<faults, finals, offMarker, residue, lost>>

\* NO_OP when the latest bundle is copied already.  A marker without its
\* ciphertext, or a ciphertext without its marker, is left to the operator.
Select ==
  /\ OffAt("select")
  /\ IF /\ StateTidy /\ SourceValid /\ MarkerReadable
        /\ offMarker # None => FinalValid(offMarker) /\ ~Matches
        /\ ~Taken(marker)
     THEN off' = [off EXCEPT !.pc = "encrypt", !.source = LatestSource, !.previous = offMarker]
     ELSE Finishes
  /\ Same /\ UNCHANGED <<faults, finals, offMarker, residue, lost>>

\* encrypt_bundle_pipeline reads whatever bytes the bundle has by now.
Encrypt ==
  /\ OffAt("encrypt")
  /\ residue' = {"staging"}
  /\ LET found == {b \in bundles : b.id = off.source.id}
     IN IF found = {} THEN OffGoto("discard")
        ELSE off' = [off EXCEPT !.pc = "copy", !.cipher = CHOOSE b \in found : TRUE]
  /\ Same /\ UNCHANGED <<faults, finals, offMarker, lost>>

\* _copy_ciphertext into a partial file of the target, whose name nothing uses
\* again, and the comparison with what was encrypted.
Copy ==
  /\ OffAt("copy") /\ OffGoto("revalidate")
  /\ Same /\ UNCHANGED <<faults, finals, offMarker, residue, lost>>

Revalidate ==
  /\ OffAt("revalidate")
  /\ OffGoto(IF SourceUnchanged THEN "rename" ELSE "discard")
  /\ Same /\ UNCHANGED <<faults, finals, offMarker, residue, lost>>

\* _rename_no_replace
Rename ==
  /\ OffAt("rename")
  /\ IF Taken(off.source.id) THEN OffGoto("discard") /\ UNCHANGED finals
     ELSE /\ finals' = finals \union {off.cipher}
          /\ off' = [off EXCEPT !.pc = "recheck", !.published = TRUE]
  /\ Same /\ UNCHANGED <<faults, offMarker, residue, lost>>

\* The final is hashed and the source looked at again.
Recheck ==
  /\ OffAt("recheck")
  /\ OffGoto(IF SourceUnchanged /\ FinalValid(off.source.id) THEN "mark" ELSE "discard")
  /\ Same /\ UNCHANGED <<faults, finals, offMarker, residue, lost>>

\* _write_atomic_marker, the replacement ...
WriteMarker ==
  /\ OffAt("mark")
  /\ offMarker' = off.source.id /\ OffGoto("sync")
  /\ Same /\ UNCHANGED <<faults, finals, residue, lost>>

\* ... and the fsync of its directory.
SyncMarker ==
  /\ OffAt("sync")
  /\ off' = [off EXCEPT !.pc = "tidy", !.committed = TRUE]
  /\ Same /\ UNCHANGED <<faults, finals, offMarker, residue, lost>>

\* A mutant: the encrypted staging file stays.
TidyNothing ==
  /\ OffAt("tidy") /\ Finishes
  /\ Same /\ UNCHANGED <<faults, finals, offMarker, residue, lost>>

Tidy ==
  /\ OffAt("tidy")
  /\ residue' = residue \ {"staging"} /\ Finishes
  /\ Same /\ UNCHANGED <<faults, finals, offMarker, lost>>

\* The ciphertext is withdrawn if this run published it, unless the run believes
\* that the marker names it.
Withdrawn == IF off.published /\ ~off.committed
             THEN {c \in finals : c.id # off.source.id} ELSE finals

\* A step fails.  Before the marker is replaced there is only to discard; when
\* the fsync after it fails, _write_atomic_marker puts the previous marker back
\* itself; later run_offsite_backup does.  Putting it back may fail as well: the
\* former then ends as if it had succeeded, the latter keeps the ciphertext.
OffFails ==
  /\ Fault
  /\ CASE off.pc \in {"encrypt", "copy", "revalidate", "rename", "recheck", "mark"} ->
              OffGoto("discard")
       [] OffAt("sync")    -> OffGoto("rollback")
       [] OffAt("tidy")    -> OffGoto("restore")
       [] OffAt("rollback") \/ OffAt("restore") -> OffGoto("discard")
       [] OTHER -> OffAt("discard") /\ Finishes
  /\ offMarker' \in IF OffAt("rollback") \/ OffAt("restore")
                     THEN {offMarker, off.previous} ELSE {offMarker}
  /\ residue' \in CASE OffAt("encrypt")  -> {{"staging"}}
                     [] OffAt("rollback") -> {residue, residue \union {"rollback"}}
                     [] OffAt("tidy") \/ OffAt("discard") -> {residue, residue \ {"staging"}}
                     [] OTHER -> {residue}
  /\ finals' \in {finals} \union (IF OffAt("discard") THEN {Withdrawn} ELSE {})
  /\ Same /\ UNCHANGED lost

\* A mutant: the previous marker is not put back.
PutBackNothing ==
  /\ OffAt("rollback") \/ OffAt("restore")
  /\ off' = [off EXCEPT !.pc = "discard", !.committed = FALSE]
  /\ Same /\ UNCHANGED <<faults, finals, offMarker, residue, lost>>

\* The rollback in _write_atomic_marker, and _restore_previous_marker.
PutBack ==
  /\ OffAt("rollback") \/ OffAt("restore")
  /\ offMarker' = off.previous
  /\ off' = [off EXCEPT !.pc = "discard", !.committed = FALSE]
  /\ Same /\ UNCHANGED <<faults, finals, residue, lost>>

\* The run removes its staging file and its ciphertext.
Discard ==
  /\ OffAt("discard")
  /\ residue' = residue \ {"staging"} /\ finals' = Withdrawn
  /\ Finishes
  /\ Same /\ UNCHANGED <<faults, offMarker, lost>>

OffKilled ==
  /\ ~OffAt("idle") /\ Fault
  /\ Finishes
  /\ Same /\ UNCHANGED <<finals, offMarker, residue, lost>>

\* A killed run leaves its files; the operator removes them.
OperatorTidies ==
  /\ OffAt("idle") /\ residue # {} /\ residue' = {}
  /\ Same /\ UNCHANGED <<faults, finals, offMarker, off, lost>>

\* iCloud evicts or damages a ciphertext, a foreign file has its name, or the
\* marker is damaged.
Loses ==
  /\ "damage" \in varying
  /\ offMarker # Garbled
  /\ offMarker' \in {offMarker, Garbled}
  /\ \E b \in bundles :
       /\ b.id \notin lost /\ lost' = lost \union {b.id}
       /\ finals' \in {finals \ {b},
                      {c \in finals : c.id # b.id} \union {[b EXCEPT !.whole = FALSE]}}
  /\ Same /\ UNCHANGED <<faults, residue, off>>

OffStep == \/ OffBegin \/ Select \/ Encrypt \/ Copy \/ Revalidate \/ Rename \/ Recheck
           \/ WriteMarker \/ SyncMarker \/ Tidy \/ PutBack \/ Discard

Next == \/ LocalNext /\ UNCHANGED offsite
        \/ OffStep \/ OffFails \/ OffKilled \/ OperatorTidies \/ Loses

Spec == OffInit /\ [][Next]_vars

\* launchd starts the worker again and again, and a run goes on to its end.
FairSpec == Spec /\ WF_vars(OffStep)

-----------------------------------------------------------------------------
(* Properties.                                                             *)

TypeOK ==
  /\ TypeOKLocal
  /\ finals \subseteq Bundle /\ offMarker \in {Garbled, None} \union 1..MaxBundles
  /\ residue \subseteq {"staging", "rollback"}
  /\ off.pc \in {"idle", "select", "encrypt", "copy", "revalidate", "rename", "recheck",
                 "mark", "sync", "tidy", "rollback", "restore", "discard"}
  /\ off.source \in Bundle \union {NoBundle} /\ off.cipher \in Bundle \union {NoBundle}
  /\ lost \subseteq 1..MaxBundles

\* The off-site marker names a ciphertext that is there and decrypts to a whole
\* bundle holding the schema it says, at every moment of a run, whatever fails
\* or is killed, even while the local bundle is replaced, pruned or damaged.
\* Only iCloud itself can break this, and the status command says so.
CopyBehindMarker ==
  offMarker \notin {Garbled, None} \union lost =>
    \E c \in finals : c.id = offMarker /\ Verified(c) /\ c.schema = c.dump /\ OffsiteStatus # "INVALID"

\* The latest local backup is copied unless a newer one takes its place,
\* something failed, or a place the worker needs is not as it should be.
Mishap == faults > 0 \/ rotted # {} \/ lost # {} \/ marker = Garbled \/ ~Trusted(TRUE)

CatchesUp ==
  \A b \in 1..MaxBundles : marker = b /\ "offsite" \in varying ~>
                           (offMarker = b \/ marker # b \/ Mishap)
=============================================================================
