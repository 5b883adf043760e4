---------------------------- MODULE AwSyncClaims ----------------------------
(***************************************************************************)
(* Sentences of the repository about aw-sync that its code does not keep.  *)
(* Each is checked by a run of its own, which ends in a counterexample;    *)
(* the README walks through them.                                          *)
(***************************************************************************)
EXTENDS MCAwSync

\* docs/site/trust.md:61: "Keys can be rotated without re-enrolling your
\* machines: the old key signs a statement handing over to the new one, and
\* machines follow on their next sync."  So a machine in sync, pinning the
\* outgoing key or already the incoming one, is never refused on account of
\* the handover.
RotationReachesEveryMachine ==
  [][/\ cyc.pc = "fetch" /\ state.etag # None
     /\ machine.pin \in Keys \cap {signer.current, signer.previous}
     => ~(state.error # "rollover" /\ state'.error = "rollover")]_vars

\* internal/sync/sync.go:235: "A pinned machine never goes back to an older
\* policy".  Stated of the bundle on disk, for a machine that has a revision
\* time to compare with.
NeverGoesBack ==
  [][/\ cyc.pc # "idle" /\ machine.pin # NoKey /\ state.revisedAt > 0
     /\ {disk["bundle"], disk'["bundle"]} \subseteq Bundle
     => ~ /\ disk'["bundle"].version < disk["bundle"].version
          /\ disk'["bundle"].revisedAt < disk["bundle"].revisedAt]_vars

\* deploy/aw-sync/README.md:58: "Re-enrolling without agy leaves
\* `/etc/antigravity/admin_settings.json' in place.  aw-sync stops updating
\* it, and agy keeps reading it.  Remove the file by hand."  So on a machine
\* enrolled without agy, only an edit by hand takes that file away.
ReenrollLeavesFile ==
  [][\A p \in Files :
       /\ Owner[p] = "agy" /\ machine.enrolled /\ "agy" \notin machine.agents
       /\ disk[p] # None /\ disk'[p] = None
       => Edit(p, None)]_vars
=============================================================================
