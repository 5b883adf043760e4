------------------------------- MODULE AwSync -------------------------------
(***************************************************************************)
(* One machine and its control plane: `aw-sync enroll' and the cycle of    *)
(* `aw-sync once' (internal/sync, cmd/aw-sync), against awd's GET          *)
(* /v1/bundle (internal/handler/bundle.go).                                *)
(*                                                                         *)
(* The cycle is taken apart where another party can see or cut it: every   *)
(* replaced file of the plan is a step, so that a crash, a local edit, a   *)
(* change on the control plane or a launch reading the files can fall      *)
(* between two of them.  Every write is a rename (cache.ReplaceMode), so   *)
(* a file is old or new, never half.  The saves that end a cycle           *)
(* (machine.json, pruned files, state.json) are one step whose parts may   *)
(* each fail: a crash between two of them leaves the same files as a       *)
(* failure of the later ones.                                              *)
(*                                                                         *)
(* enroll and once both hold the state directory's lock, so the two        *)
(* interleave only at the boundary of a cycle.                             *)
(*                                                                         *)
(* StopSigningKeepsPrevious, StaleFilesAlways, AsksDespiteDrift,           *)
(* MergeForgets, RepinUnsigned, KeepPlanned, Latest and                    *)
(* CycleStateKeepsEtag are plausible mistakes in the code.  Nothing uses   *)
(* them: put in the place of the definition that follows each, they show   *)
(* that the properties notice.                                             *)
(***************************************************************************)
EXTENDS BundleProtocol, FiniteSets

CONSTANTS
  Agents,          \* the renderable agents: claude, codex, agy
  Files,           \* every file some agent renders
  Owner,           \* the agent a file is rendered for (its root holds it)
  Json,            \* the files that get an .aw-revision sibling
  Rendering(_, _), \* the bytes a file has when rendered from a bundle
  Junk,            \* bytes nobody at the control plane wrote
  MaxBudget,       \* bound: faults, edits, re-enrollments, group changes, late answers
  Replay           \* bound: whether answers sent earlier may arrive again

StateFiles == {"bundle", "sig", "trust"}
Paths == Files \cup StateFiles

ASSUME FilesAssumption ==
  /\ Owner \in [Files -> Agents]
  /\ Json \subseteq Files
  /\ Files \cap StateFiles = {}
  /\ \A p \in Files, b \in Bundle : Rendering(p, b) # None
  /\ MaxBudget \in Nat
  /\ Replay \in BOOLEAN

VARIABLES
  (* awd *)
  policy,     \* the current revision: its version and its creation time
  slice,      \* what the user's groups select of it now
  signer,     \* AWD_SIGNING_KEY and AWD_SIGNING_KEY_PREVIOUS
  (* the machine's disk *)
  machine,    \* machine.json: enrolled, the pinned key, the agents
  state,      \* state.json: what the last cycle recorded
  disk,       \* every rendered file, and bundle, signature and trust file
  (* the running `aw-sync once' *)
  cyc,
  (* bound and history *)
  budget,     \* disturbances left
  answers,    \* 200 answers sent so far, when they may be replayed
  announced,  \* key handovers the control plane has been configured with
  torn,       \* state.json was last saved by a step that left its etag behind
  excused     \* an edit, a crash or a lost save has happened

planeVars   == <<policy, slice, signer, announced>>
historyVars == <<answers, torn, excused>>
vars == <<policy, slice, signer, machine, state, disk, cyc, budget,
          answers, announced, torn, excused>>

-----------------------------------------------------------------------------
Content  == Bundle \cup Signature \cup Keys \cup {Junk, None}
              \cup {Rendering(p, b) : p \in Files, b \in Bundle}
Recorded == [Paths -> Content]
NoFiles  == [p \in Paths |-> None]

\* Why a cycle failed.  "" is a cycle that did not.
Errors == {"", "fetch", "rollover", "signature", "older", "write", "agent"}

State == [etag: Bundle \cup {None}, version: 0..MaxVersion,
          revisedAt: 0..MaxTime, files: Recorded, error: Errors]

ZeroState == [etag |-> None, version |-> 0, revisedAt |-> 0,
              files |-> NoFiles, error |-> ""]

Machine == [enrolled: BOOLEAN, pin: KeyOrNone, agents: SUBSET Agents]

\* Where the cycle stands: the next file of the plan that is not written yet.
Stages == {"idle", "fetch", "agents", "stale", "trust", "finish"}

Cycle == [pc: Stages, ask: Bundle \cup {None}, stale: SUBSET StateFiles,
          got: Answer \cup {None}, failed: SUBSET Agents,
          todo: SUBSET Files, wrote: Recorded]

IdleCycle == [pc |-> "idle", ask |-> None, stale |-> {}, got |-> None,
              failed |-> {}, todo |-> {}, wrote |-> NoFiles]

TypeOK ==
  /\ policy \in [version: 0..MaxVersion, revisedAt: 0..MaxTime]
  /\ slice \in Slices
  /\ signer \in [current: KeyOrNone, previous: KeyOrNone]
  /\ machine \in Machine
  /\ state \in State
  /\ disk \in Recorded
  /\ cyc \in Cycle
  /\ budget \in 0..MaxBudget
  /\ answers \subseteq Answer
  /\ announced \subseteq Keys \X Keys
  /\ torn \in BOOLEAN
  /\ excused \in BOOLEAN

Init ==
  /\ policy = [version |-> 0, revisedAt |-> 0]
  /\ slice \in Slices
  /\ signer = [current |-> NoKey, previous |-> NoKey]
  /\ machine = [enrolled |-> FALSE, pin |-> NoKey, agents |-> {}]
  /\ state = ZeroState
  /\ disk = NoFiles
  /\ cyc = IdleCycle
  /\ budget = MaxBudget
  /\ answers = {}
  /\ announced = {}
  /\ torn = FALSE
  /\ excused = FALSE

Pay(n) == budget >= n /\ budget' = budget - n
Cost(lost) == IF lost THEN 1 ELSE 0

-----------------------------------------------------------------------------
(***************************************************************************)
(* The control plane.  A revision's time is awd's clock, which may have    *)
(* been set back.  Keys are configured by restarting awd with another      *)
(* environment.                                                            *)
(***************************************************************************)
ServedBundle == [version |-> policy.version, revisedAt |-> policy.revisedAt,
                 slice |-> slice]

postRevision(now) ==
  /\ policy.version < MaxVersion
  /\ policy' = [version |-> policy.version + 1, revisedAt |-> now]
  /\ UNCHANGED <<slice, signer, machine, state, disk, cyc, budget, announced, historyVars>>

\* A group feed, SCIM or the snapshot, changes what the user is a member of.
ChangeGroups(s) ==
  /\ s # slice
  /\ Pay(1)
  /\ slice' = s
  /\ UNCHANGED <<policy, signer, machine, state, disk, cyc, announced, historyVars>>

Configure(current, previous) ==
  /\ signer' = [current |-> current, previous |-> previous]
  /\ announced' = IF previous = NoKey THEN announced
                  ELSE announced \cup {<<previous, current>>}
  /\ UNCHANGED <<policy, slice, machine, state, disk, cyc, budget, historyVars>>

StartSigning(k) ==
  /\ signer.current = NoKey
  /\ Configure(k, NoKey)

RotateKey(k) ==
  /\ signer.current \notin {NoKey, k}
  /\ Configure(k, signer.current)

RetireKey ==
  /\ signer.previous # NoKey
  /\ Configure(signer.current, NoKey)

StopSigningKeepsPrevious ==
  /\ signer.current # NoKey
  /\ Configure(NoKey, signer.current)
StopSigning ==
  /\ signer.current # NoKey
  /\ Configure(NoKey, NoKey)

-----------------------------------------------------------------------------
(***************************************************************************)
(* aw-sync enroll, with --force on an enrolled machine: pin the key the    *)
(* control plane presents, keep the recorded files, forget the rest.       *)
(***************************************************************************)
EnrolledAs(chosen) == [enrolled |-> TRUE, pin |-> signer.current, agents |-> chosen]

Enroll(chosen) ==
  /\ cyc.pc = "idle"
  /\ Pay(Cost(machine.enrolled))
  /\ machine' = EnrolledAs(chosen)
  /\ state' = [ZeroState EXCEPT !.files = state.files]
  /\ torn' = FALSE
  /\ UNCHANGED <<planeVars, disk, cyc, answers, excused>>

\* machine.json was replaced and state.json was not.
EnrollInterrupted(chosen) ==
  /\ cyc.pc = "idle"
  /\ Pay(1)
  /\ machine' = EnrolledAs(chosen)
  /\ torn' = TRUE
  /\ UNCHANGED <<planeVars, state, disk, cyc, answers, excused>>

-----------------------------------------------------------------------------
(***************************************************************************)
(* The cycle, sync.Run.  It starts from what is recorded: a recorded file  *)
(* that is not on disk as recorded, a recorded file of an agent that is no *)
(* longer enrolled, and signing files on a machine that pins no key, each  *)
(* drop the etag, so that the server cannot answer 304.                    *)
(***************************************************************************)
Drifted == {p \in Paths : state.files[p] # None /\ disk[p] # state.files[p]}

Orphans == {p \in Files : state.files[p] # None /\ Owner[p] \notin machine.agents}

StaleFilesAlways == {p \in {"sig", "trust"} : disk[p] # None}
StaleFiles ==
  IF machine.pin = NoKey THEN {p \in {"sig", "trust"} : disk[p] # None} ELSE {}

AsksDespiteDrift == IF Orphans \cup StaleFiles = {} THEN state.etag ELSE None
Asks == IF Drifted \cup Orphans \cup StaleFiles = {} THEN state.etag ELSE None

BeginCycle ==
  /\ cyc.pc = "idle"
  /\ machine.enrolled
  /\ cyc' = [cyc EXCEPT !.pc = "fetch", !.stale = StaleFiles, !.ask = Asks]
  /\ UNCHANGED <<planeVars, machine, state, disk, budget, historyVars>>

\* cfg.fail: the error and the hashes of what did land are recorded; etag,
\* version and revision time stay.  Its own SaveState may be lost.
MergeForgets(recorded, landed) == recorded
Merge(recorded, landed) ==
  [p \in Paths |-> IF landed[p] # None THEN landed[p] ELSE recorded[p]]

Fail(kind, landed, cost) ==
  \E lost \in BOOLEAN :
    /\ Pay(cost + Cost(lost))
    /\ state' = IF lost THEN state
                ELSE [state EXCEPT !.error = kind, !.files = Merge(@, landed)]
    /\ torn' = (torn \/ (~lost /\ landed # NoFiles))
    /\ excused' = (excused \/ lost)
    /\ cyc' = IdleCycle

\* cfg.repin, whose SaveMachine may fail without failing the cycle.
RepinUnsigned(a, lost) ==
  /\ lost => machine.pin # NoKey
  /\ machine' = IF machine.pin # NoKey /\ ~lost
                THEN [machine EXCEPT !.pin = a.key] ELSE machine
Repin(a, lost) ==
  /\ lost => Rollover(machine.pin, a)
  /\ machine' = IF Rollover(machine.pin, a) /\ ~lost
                THEN [machine EXCEPT !.pin = a.key] ELSE machine

FetchFails ==
  /\ cyc.pc = "fetch"
  /\ Fail("fetch", NoFiles, 1)
  /\ UNCHANGED <<planeVars, machine, disk, answers>>

\* The answer that arrives: the current one, or one sent earlier.
Delivered(a, cost) ==
  \/ /\ a = getBundle(ServedBundle, signer, cyc.ask)
     /\ cost = 0
     /\ answers' = IF Replay /\ ~a.unchanged THEN answers \cup {a} ELSE answers
  \/ /\ a \in answers
     /\ cost = 1
     /\ answers' = answers

FetchRefused(a, cost) ==
  /\ cyc.pc = "fetch"
  /\ Delivered(a, cost)
  /\ \/ /\ RolloverRefused(machine.pin, a)
        /\ Fail("rollover", NoFiles, cost)
     \/ /\ ~RolloverRefused(machine.pin, a)
        /\ SignatureRefused(machine.pin, a)
        /\ Fail("signature", NoFiles, cost)
  /\ UNCHANGED <<planeVars, machine, disk>>

Accepted(a) ==
  /\ ~RolloverRefused(machine.pin, a)
  /\ ~SignatureRefused(machine.pin, a)

\* A 304 may still move the pin; the files on disk are left alone.
FetchUnchanged(a, cost) ==
  /\ cyc.pc = "fetch"
  /\ Delivered(a, cost)
  /\ Accepted(a)
  /\ a.unchanged
  /\ \E pinLost, lost \in BOOLEAN :
       /\ Repin(a, pinLost)
       /\ Pay(cost + Cost(pinLost) + Cost(lost))
       /\ state' = IF lost THEN state ELSE [state EXCEPT !.error = ""]
       /\ excused' = (excused \/ lost)
  /\ cyc' = IdleCycle
  /\ UNCHANGED <<planeVars, disk, torn>>

Older(a) == machine.pin # NoKey /\ a.bundle.revisedAt < state.revisedAt

\* The replay guard: nothing is written, yet a verified rollover still counts.
FetchOlder(a, cost) ==
  /\ cyc.pc = "fetch"
  /\ Delivered(a, cost)
  /\ Accepted(a)
  /\ ~a.unchanged
  /\ Older(a)
  /\ \E pinLost \in BOOLEAN :
       /\ Repin(a, pinLost)
       /\ Fail("older", NoFiles, cost + Cost(pinLost))
  /\ UNCHANGED <<planeVars, disk>>

\* Every enrolled agent is rendered before anything is written; an agent
\* that cannot be rendered is set aside.
FetchBundle(a, cost, unrendered) ==
  /\ cyc.pc = "fetch"
  /\ Delivered(a, cost)
  /\ Accepted(a)
  /\ ~a.unchanged
  /\ ~Older(a)
  /\ unrendered \subseteq machine.agents
  /\ Pay(cost + Cost(unrendered # {}))
  /\ cyc' = [cyc EXCEPT !.pc = "agents", !.got = a, !.failed = unrendered,
                 !.todo = {p \in Files : Owner[p] \in machine.agents \ unrendered}]
  /\ UNCHANGED <<planeVars, machine, state, disk, torn, excused>>

-----------------------------------------------------------------------------
\* cache.ReplaceMode renames a complete file into place, and the hash of what
\* was written is remembered in files.
WriteAgentFile(p) ==
  /\ cyc.pc = "agents"
  /\ p \in cyc.todo
  /\ disk' = [disk EXCEPT ![p] = Rendering(p, cyc.got.bundle)]
  /\ cyc' = [cyc EXCEPT !.wrote[p] = Rendering(p, cyc.got.bundle),
                        !.todo = @ \ {p}]
  /\ UNCHANGED <<planeVars, machine, state, budget, historyVars>>

\* The file, or its .aw-revision sibling after it, cannot be written: the
\* rest of that agent's files are skipped, nobody else's.
AgentWriteFails(p, landed) ==
  /\ cyc.pc = "agents"
  /\ p \in cyc.todo
  /\ landed => p \in Json
  /\ Pay(1)
  /\ LET content == Rendering(p, cyc.got.bundle)
     IN  /\ disk' = IF landed THEN [disk EXCEPT ![p] = content] ELSE disk
         /\ cyc' = [cyc EXCEPT
                      !.wrote[p] = IF landed THEN content ELSE @,
                      !.failed = @ \cup {Owner[p]},
                      !.todo = {q \in @ : Owner[q] # Owner[p]}]
  /\ UNCHANGED <<planeVars, machine, state, historyVars>>

WriteBundle ==
  /\ cyc.pc = "agents"
  /\ cyc.todo = {}
  /\ disk' = [disk EXCEPT !["bundle"] = cyc.got.bundle]
  /\ cyc' = [cyc EXCEPT !.pc = "stale", !.wrote["bundle"] = cyc.got.bundle]
  /\ UNCHANGED <<planeVars, machine, state, budget, historyVars>>

\* The signature goes before the trust file, as it was planned.
RemoveStale(p) ==
  /\ cyc.pc = "stale"
  /\ p \in cyc.stale
  /\ p = "trust" => "sig" \notin cyc.stale
  /\ disk' = [disk EXCEPT ![p] = None]
  /\ cyc' = [cyc EXCEPT !.stale = @ \ {p}]
  /\ UNCHANGED <<planeVars, machine, state, budget, historyVars>>

WriteSignature ==
  /\ cyc.pc = "stale"
  /\ machine.pin # NoKey
  /\ LET line == [key |-> Verifier(machine.pin, cyc.got), bundle |-> cyc.got.bundle]
     IN  /\ disk' = [disk EXCEPT !["sig"] = line]
         /\ cyc' = [cyc EXCEPT !.pc = "trust", !.wrote["sig"] = line]
  /\ UNCHANGED <<planeVars, machine, state, budget, historyVars>>

WriteTrust ==
  /\ cyc.pc = "trust"
  /\ LET key == Verifier(machine.pin, cyc.got)
     IN  /\ disk' = [disk EXCEPT !["trust"] = key]
         /\ cyc' = [cyc EXCEPT !.pc = "finish", !.wrote["trust"] = key]
  /\ UNCHANGED <<planeVars, machine, state, budget, historyVars>>

\* A file of the state directory cannot be written, or a stale one removed:
\* the cycle ends there, with what had landed.
StateWriteFails ==
  /\ \/ cyc.pc = "agents" /\ cyc.todo = {}
     \/ cyc.pc = "stale" /\ (cyc.stale # {} \/ machine.pin # NoKey)
     \/ cyc.pc = "trust"
  /\ Fail("write", cyc.wrote, 1)
  /\ UNCHANGED <<planeVars, machine, disk, answers>>

\* The bundle lands and its .aw-revision sibling does not.
BundleSiblingFails ==
  /\ cyc.pc = "agents"
  /\ cyc.todo = {}
  /\ disk' = [disk EXCEPT !["bundle"] = cyc.got.bundle]
  /\ Fail("write", [cyc.wrote EXCEPT !["bundle"] = cyc.got.bundle], 1)
  /\ UNCHANGED <<planeVars, machine, answers>>

-----------------------------------------------------------------------------
(***************************************************************************)
(* The end of a full cycle: the pin moves, recorded files no enrolled      *)
(* agent owns are pruned when they are still as aw-sync wrote them, and    *)
(* state.json records the outcome.  An agent that failed keeps its files   *)
(* and costs the cycle its etag, so that the next one tries again.         *)
(***************************************************************************)
Planned == {p \in Files : Owner[p] \in machine.agents \ cyc.failed}
UnderFailedRoot == {p \in Files : Owner[p] \in cyc.failed}
KeepPlanned == Planned
Keep == Planned \cup UnderFailedRoot

Prunable == {p \in Files \ Keep : state.files[p] # None /\ disk[p] = state.files[p]}

FilesLeft(gone) ==
  [p \in Paths |->
     IF cyc.wrote[p] # None THEN cyc.wrote[p]
     ELSE IF p \in Keep \cup (Prunable \ gone) THEN state.files[p]
     ELSE None]

Latest(s, t) == t
Later(s, t) == IF s < t THEN t ELSE s

CycleStateKeepsEtag(gone) ==
  [etag      |-> cyc.got.bundle,
   version   |-> cyc.got.bundle.version,
   revisedAt |-> Later(state.revisedAt, cyc.got.bundle.revisedAt),
   files     |-> FilesLeft(gone),
   error     |-> IF cyc.failed = {} THEN "" ELSE "agent"]
CycleState(gone) ==
  [etag      |-> IF cyc.failed = {} THEN cyc.got.bundle ELSE None,
   version   |-> cyc.got.bundle.version,
   revisedAt |-> Later(state.revisedAt, cyc.got.bundle.revisedAt),
   files     |-> FilesLeft(gone),
   error     |-> IF cyc.failed = {} THEN "" ELSE "agent"]

FinishCycle(gone) ==
  /\ \/ cyc.pc = "finish"
     \/ cyc.pc = "stale" /\ cyc.stale = {} /\ machine.pin = NoKey
  /\ gone \subseteq Prunable
  /\ disk' = [p \in Paths |-> IF p \in gone THEN None ELSE disk[p]]
  /\ \E pinLost, lost \in BOOLEAN :
       /\ Repin(cyc.got, pinLost)
       /\ Pay(Cost(pinLost) + Cost(lost) + Cost(gone # Prunable))
       /\ state' = IF lost THEN state ELSE CycleState(gone)
       /\ torn' = (torn /\ lost)
       /\ excused' = (excused \/ lost)
  /\ cyc' = IdleCycle
  /\ UNCHANGED <<planeVars, answers>>

\* aw-sync dies; the operating system releases its lock.
Crash ==
  /\ cyc.pc # "idle"
  /\ Pay(1)
  /\ cyc' = IdleCycle
  /\ excused' = TRUE
  /\ UNCHANGED <<planeVars, machine, state, disk, answers, torn>>

-----------------------------------------------------------------------------
\* Somebody with root edits or deletes a file.
Edit(p, content) ==
  /\ disk[p] # content
  /\ Pay(1)
  /\ disk' = [disk EXCEPT ![p] = content]
  /\ excused' = TRUE
  /\ UNCHANGED <<planeVars, machine, state, cyc, answers, torn>>

\* state.json is deleted or damaged: either way the next cycle starts from
\* the zero State.
LoseState ==
  /\ cyc.pc = "idle"
  /\ state # ZeroState
  /\ Pay(1)
  /\ state' = ZeroState
  /\ torn' = FALSE
  /\ UNCHANGED <<planeVars, machine, disk, cyc, answers, excused>>

-----------------------------------------------------------------------------
Plane ==
  \/ \E now \in 1..MaxTime : postRevision(now)
  \/ \E s \in Slices : ChangeGroups(s)
  \/ \E k \in Keys : StartSigning(k)
  \/ \E k \in Keys : RotateKey(k)
  \/ RetireKey
  \/ StopSigning

Fetch ==
  \/ FetchFails
  \/ \E a \in answers \cup {getBundle(ServedBundle, signer, cyc.ask)}, cost \in {0, 1} :
       \/ FetchRefused(a, cost)
       \/ FetchUnchanged(a, cost)
       \/ FetchOlder(a, cost)
       \/ \E unrendered \in SUBSET Agents : FetchBundle(a, cost, unrendered)

Write ==
  \/ \E p \in Files : WriteAgentFile(p)
  \/ \E p \in Files, landed \in BOOLEAN : AgentWriteFails(p, landed)
  \/ WriteBundle
  \/ BundleSiblingFails
  \/ \E p \in {"sig", "trust"} : RemoveStale(p)
  \/ WriteSignature
  \/ WriteTrust
  \/ StateWriteFails

Once ==
  \/ BeginCycle
  \/ Fetch
  \/ Write
  \/ \E gone \in SUBSET Files : FinishCycle(gone)

Disturb ==
  \/ \E chosen \in SUBSET Agents \ {{}} : Enroll(chosen)
  \/ \E chosen \in SUBSET Agents \ {{}} : EnrollInterrupted(chosen)
  \/ Crash
  \/ \E p \in Paths, content \in {Junk, None} : Edit(p, content)
  \/ LoseState

Next == Plane \/ Once \/ Disturb

Spec == Init /\ [][Next]_vars

\* The timer runs `aw-sync once' for ever, and a cycle that is not killed ends.
FairSpec == Spec /\ WF_vars(Once)

-----------------------------------------------------------------------------
(***************************************************************************)
(* Properties                                                              *)
(***************************************************************************)
Holds(b) ==
  /\ disk["bundle"] = b
  /\ machine.pin # NoKey => VerifyFiles(disk["trust"], disk["bundle"], disk["sig"])
  /\ \A p \in Files : Owner[p] \in machine.agents => disk[p] = Rendering(p, b)

\* `aw-sync status' can be believed: between cycles, when an etag is recorded
\* and no recorded file has drifted, the disk holds that bundle, a signature
\* of it under the trust file's key when a key is pinned, and the rendering of
\* it for every enrolled agent.  So the 304 the etag earns changes nothing
\* that should have changed (sync.go, Run: etag, Drifted, the full cycle's
\* state).  Excepted is a state.json saved by cfg.fail after a partial write
\* or left behind by an interrupted enroll (torn).
StatusIsTrue ==
  cyc.pc = "idle" /\ state.etag # None /\ Drifted = {} /\ ~torn
    => Holds(state.etag)

\* Without edits, crashes or lost saves, aw-sync never reports a file it wrote
\* itself as edited: a failed cycle records the hashes of what had landed
\* (sync.go, fail).  A file it removed itself may be reported missing.
OwnWritesAreNotDrift ==
  cyc.pc = "idle" /\ ~excused => \A p \in Drifted : disk[p] = None

\* The replay guard (sync.go:238): a cycle never lowers the recorded revision
\* time, and a pinned machine's cycle never writes a bundle older than it.
RevisionTimeHolds ==
  [][cyc.pc # "idle" =>
       /\ state'.revisedAt >= state.revisedAt
       /\ cyc.pc = "agents" /\ cyc'.pc = "stale" /\ machine.pin # NoKey
            => disk'["bundle"].revisedAt >= state.revisedAt]_vars

\* A cycle moves the pin only along a handover that the outgoing key, the one
\* pinned so far, really announced (client.go, rolloverFrom; rollover.go).
PinFollowsHandover ==
  [][cyc.pc # "idle" /\ machine'.pin # machine.pin
       => <<machine.pin, machine'.pin>> \in announced]_vars

\* No step of aw-sync makes the trust file disappear from a pinned machine,
\* so no launch in between mistakes it for an unsigned one (sync.go:193-205).
TrustStays ==
  [][disk["trust"] # None /\ disk'["trust"] = None
       => machine.pin = NoKey \/ Edit("trust", None)]_vars

\* aw-sync deletes an agent's file only when the agent is not enrolled any
\* more and the file is still as recorded, also when that agent or another
\* one failed in the same cycle (sync.go, prune and fullCycleKeep).  That it
\* deletes such a file at all is contrary to deploy/aw-sync/README.md:58,
\* which AwSyncClaims checks (ReenrollLeavesFile).
PruneSparesOthers ==
  [][\A p \in Files : disk[p] # None /\ disk'[p] = None =>
       \/ Owner[p] \notin machine.agents /\ disk[p] = state.files[p]
       \/ Edit(p, None)]_vars

\* The control plane would serve this machine: its pin is the current key or
\* empty, no rotation is under way, and the replay guard is satisfied.
Servable ==
  /\ machine.enrolled
  /\ signer.previous = NoKey
  /\ machine.pin \in {NoKey, signer.current}
  /\ machine.pin # NoKey => policy.revisedAt >= state.revisedAt

InForce ==
  /\ Holds(ServedBundle)
  /\ machine.pin = NoKey => disk["sig"] = None /\ disk["trust"] = None
  /\ state.error = ""
  /\ Orphans = {}

\* Whatever crashes, failed writes, lost saves, edits, group changes and
\* re-enrollments came before, a machine the control plane goes on being able
\* to serve ends up with the served policy whole on disk, no leftover signing
\* files when it pins no key, nothing recorded for agents it dropped, and no
\* error (sync.go, Run: the empty etag after drift, orphans, stale signing
\* files and failed agents).  A torn state.json is excepted, as above.
Converges == <>[](Servable /\ ~torn) => <>[]InForce

-----------------------------------------------------------------------------
\* Bundles of answers sent so far that may still arrive.
Late == {a.bundle : a \in answers}

\* Once the bundle is accepted, the cycle has the files in hand.
Underway == cyc.pc \notin {"idle", "fetch"}
InHand == IF Underway THEN cyc.got.bundle ELSE None

\* The bundle that the files hold whole, if they do.
Held == {b \in {disk["bundle"]} : b \in Bundle /\ Holds(b)}

\* What `aw-sync status' makes of it.
Clean == ~Underway /\ state.etag # None /\ Drifted = {} /\ ~torn

Delivery == INSTANCE PolicyDelivery WITH
  Bundles <- Bundle,
  served <- ServedBundle, late <- Late, pinned <- machine.pin # NoKey,
  fetched <- InHand, recorded <- state.etag, floor <- state.revisedAt,
  held <- Held, clean <- Clean

\* The cycle, with its many files, its three saves and all that cuts it short,
\* implements PolicyDelivery: what it records is the one bundle it fetched, the
\* recorded time follows the record, a failed cycle leaves both alone, and in
\* between nothing is reported that is not there (sync.go, Run and fail).
DeliversPolicy == Delivery!DeliverySpec
=============================================================================
