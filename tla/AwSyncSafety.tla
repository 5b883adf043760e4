---------------------------- MODULE AwSyncSafety ----------------------------
(***************************************************************************)
(* The safety properties of AwSync hold for every set of agents, files,    *)
(* keys and slices and for every bound.  Four inductive invariants carry   *)
(* the argument, each about what aw-sync remembers: of the guard it has    *)
(* passed, of the plan it is carrying out, of the etag it has recorded,    *)
(* and of the files it has written.                                        *)
(***************************************************************************)
EXTENDS AwSyncProofs

\* Past the replay guard, the bundle in hand is not older than the one recorded.
NotOlder ==
  cyc.pc \in Past /\ machine.pin # NoKey
    => cyc.got.bundle.revisedAt >= state.revisedAt

\* How far the plan has come is remembered in wrote, file by file.
Written ==
  cyc.pc \in Past =>
    /\ \A p \in Files \ cyc.todo :
         Owner[p] \in machine.agents \ cyc.failed
           => cyc.wrote[p] = Rendering(p, cyc.got.bundle)
    /\ cyc.pc # "agents" => cyc.todo = {} /\ cyc.wrote["bundle"] = cyc.got.bundle
    /\ cyc.pc \in {"trust", "finish"} =>
         /\ machine.pin # NoKey
         /\ cyc.wrote["sig"] = [key    |-> Verifier(machine.pin, cyc.got),
                                bundle |-> cyc.got.bundle]
    /\ cyc.pc = "finish" => cyc.wrote["trust"] = Verifier(machine.pin, cyc.got)

\* An etag is recorded together with hashes of everything it promises.
RecordedIsWhole ==
  state.etag # None /\ ~torn =>
    /\ state.files["bundle"] = state.etag
    /\ machine.pin # NoKey =>
         VerifyFiles(state.files["trust"], state.files["bundle"], state.files["sig"])
    /\ \A p \in Files :
         Owner[p] \in machine.agents => state.files[p] = Rendering(p, state.etag)

\* What aw-sync believes it wrote last, in this cycle or before it.
LastWritten(p) == IF cyc.wrote[p] # None THEN cyc.wrote[p] ELSE state.files[p]

DiskFollows ==
  ~excused => \A p \in Paths : LastWritten(p) # None => disk[p] \in {LastWritten(p), None}

-----------------------------------------------------------------------------
(***************************************************************************)
(* Where a step can leave the cycle.                                       *)
(***************************************************************************)

\* A step of the write loop: the plan goes on with the same answer.
Writing ==
  /\ cyc.pc \in Past /\ cyc'.pc \in Past
  /\ cyc'.got = cyc.got
  /\ UNCHANGED <<machine, state, torn, excused>>

LEMMA FailEnds ==
  ASSUME NEW kind, NEW landed, NEW cost, Fail(kind, landed, cost)
  PROVE  cyc' = IdleCycle
BY DEF Fail

LEMMA WriteSteps ==
  ASSUME TypeInv, Write
  PROVE  \/ cyc' = IdleCycle /\ (BundleSiblingFails \/ StateWriteFails)
         \/ Writing
<1>0. cyc \in Cycle
  BY DEF TypeInv, TypeOK
<1>1. ASSUME NEW p \in Files, WriteAgentFile(p) PROVE Writing
  BY <1>0, <1>1 DEF WriteAgentFile, Writing, Past, historyVars, Cycle
<1>2. ASSUME NEW p \in Files, NEW landed \in BOOLEAN, AgentWriteFails(p, landed) PROVE Writing
  BY <1>0, <1>2 DEF AgentWriteFails, Writing, Past, historyVars, Cycle
<1>3. WriteBundle => Writing
  BY <1>0 DEF WriteBundle, Writing, Past, historyVars, Cycle
<1>4. ASSUME NEW p \in {"sig", "trust"}, RemoveStale(p) PROVE Writing
  BY <1>0, <1>4 DEF RemoveStale, Writing, Past, historyVars, Cycle
<1>5. WriteSignature => Writing
  BY <1>0 DEF WriteSignature, Writing, Past, historyVars, Cycle
<1>6. WriteTrust => Writing
  BY <1>0 DEF WriteTrust, Writing, Past, historyVars, Cycle
<1>7. BundleSiblingFails \/ StateWriteFails => cyc' = IdleCycle
  BY FailEnds DEF BundleSiblingFails, StateWriteFails
<1> QED
  BY <1>1, <1>2, <1>3, <1>4, <1>5, <1>6, <1>7 DEF Write

LEMMA FetchSteps ==
  ASSUME TypeInv, Fetch
  PROVE  \/ cyc' = IdleCycle
         \/ \E a, cost : \E unrendered \in SUBSET Agents : FetchBundle(a, cost, unrendered)
BY FailEnds DEF Fetch, FetchFails, FetchRefused, FetchUnchanged, FetchOlder

\* Between cycles, and on the control plane, the cycle does not move.
LEMMA OtherSteps ==
  ASSUME TypeInv, Plane \/ Disturb \/ UNCHANGED vars
  PROVE  \/ cyc' = IdleCycle
         \/ cyc' = cyc /\ cyc.pc = "idle"
         \/ cyc' = cyc /\ UNCHANGED <<machine, state, torn>>
BY DEF Plane, Disturb, vars, postRevision, ChangeGroups, StartSigning, RotateKey, RetireKey,
       StopSigning, Configure, Enroll, EnrollInterrupted, Crash, Edit, LoseState, historyVars

LEMMA FetchBundleStep ==
  ASSUME TypeInv, NEW a, NEW cost, NEW unrendered \in SUBSET Agents,
         FetchBundle(a, cost, unrendered)
  PROVE  /\ a \in Answer
         /\ cyc' \in Cycle /\ cyc'.pc = "agents" /\ cyc'.got = a
         /\ cyc'.failed = unrendered /\ cyc'.wrote = NoFiles
         /\ cyc'.todo = {p \in Files : Owner[p] \in machine.agents \ unrendered}
         /\ ~Older(a)
         /\ UNCHANGED <<machine, state, disk, torn, excused>>
<1>1. a \in Answer
  BY DeliveredType DEF FetchBundle
<1>2. cyc \in Cycle /\ cyc.wrote = NoFiles
  BY DEF TypeInv, TypeOK, CycleShape, FetchBundle
<1> QED
  BY <1>1, <1>2 DEF FetchBundle, Cycle, Stages

-----------------------------------------------------------------------------
(***************************************************************************)
(* The replay guard.                                                       *)
(***************************************************************************)
LEMMA NotOlderStep == ASSUME TypeInv, NotOlder, [Next]_vars PROVE NotOlder'
<1>0. ASSUME cyc'.pc \in {"idle", "fetch"} PROVE NotOlder'
  BY <1>0 DEF NotOlder, Past
<1>1. CASE Plane \/ Disturb \/ UNCHANGED vars
  BY <1>0, <1>1, OtherSteps DEF NotOlder, IdleCycle
<1>2. CASE BeginCycle
  <2>1. cyc'.pc = "fetch"
    BY <1>2 DEF BeginCycle, TypeInv, TypeOK, Cycle
  <2> QED
    BY <1>0, <2>1
<1>3. CASE Fetch
  <2>1. CASE cyc' = IdleCycle
    BY <1>0, <2>1 DEF IdleCycle
  <2>2. ASSUME NEW a, NEW cost, NEW unrendered \in SUBSET Agents,
               FetchBundle(a, cost, unrendered)
        PROVE  NotOlder'
    <3>1. /\ a \in Answer /\ cyc'.got = a /\ ~Older(a)
          /\ UNCHANGED <<machine, state>>
      BY <2>2, FetchBundleStep
    <3>2. a.bundle.revisedAt \in Int /\ state.revisedAt \in Int
      BY <3>1 DEF Answer, Bundle, TypeInv, TypeOK, State
    <3> QED
      BY <3>1, <3>2 DEF Older, NotOlder
  <2> QED
    BY <1>3, <2>1, <2>2, FetchSteps
<1>4. CASE Write
  BY <1>0, <1>4, WriteSteps DEF Writing, NotOlder, IdleCycle
<1>5. ASSUME NEW gone \in SUBSET Files, FinishCycle(gone) PROVE NotOlder'
  BY <1>0, <1>5 DEF FinishCycle, IdleCycle
<1> QED
  BY <1>1, <1>2, <1>3, <1>4, <1>5 DEF Next, Once

LEMMA FinishRevisedAt ==
  ASSUME TypeInv, NEW gone \in SUBSET Files, FinishCycle(gone)
  PROVE  state'.revisedAt >= state.revisedAt
<1>1. cyc.got \in Answer
  BY DEF TypeInv, CycleShape, FinishCycle, Past
<1>2. state.revisedAt \in Int /\ cyc.got.bundle.revisedAt \in Int
  BY <1>1 DEF Answer, Bundle, TypeInv, TypeOK, State
<1>3. state' = state \/ state' = CycleState(gone)
  BY DEF FinishCycle
<1>4. CycleState(gone).revisedAt = Later(state.revisedAt, cyc.got.bundle.revisedAt)
  BY DEF CycleState
<1>5. Later(state.revisedAt, cyc.got.bundle.revisedAt) >= state.revisedAt
  BY <1>2 DEF Later
<1> QED
  BY <1>2, <1>3, <1>4, <1>5

LEMMA FailRevisedAt ==
  ASSUME TypeInv, NEW kind, NEW landed, NEW cost, Fail(kind, landed, cost)
  PROVE  /\ state'.etag = state.etag
         /\ state'.revisedAt = state.revisedAt
BY DEF Fail, TypeInv, TypeOK, State

LEMMA CycleRevisedAt ==
  ASSUME TypeInv, [Next]_vars, cyc.pc # "idle"
  PROVE  state'.revisedAt >= state.revisedAt
<1>0. state.revisedAt \in Int
  BY DEF TypeInv, TypeOK, State
<1>1. CASE Plane \/ Disturb \/ UNCHANGED vars
  <2>1. state' = state
    BY <1>1 DEF Plane, Disturb, vars, postRevision, ChangeGroups, StartSigning, RotateKey,
         RetireKey, StopSigning, Configure, Enroll, EnrollInterrupted, Crash, Edit, LoseState
  <2> QED
    BY <1>0, <2>1
<1>2. CASE BeginCycle
  BY <1>2 DEF BeginCycle
<1>3. CASE Fetch
  <2>1. ASSUME NEW a, NEW cost, FetchUnchanged(a, cost) PROVE state'.revisedAt = state.revisedAt
    BY <2>1 DEF FetchUnchanged, TypeInv, TypeOK, State
  <2>2. ASSUME NEW a, NEW cost, NEW unrendered, FetchBundle(a, cost, unrendered)
        PROVE  state' = state
    BY <2>2 DEF FetchBundle
  <2> QED
    BY <1>0, <1>3, <2>1, <2>2, FailRevisedAt DEF Fetch, FetchFails, FetchRefused, FetchOlder
<1>4. CASE Write
  <2>1. CASE BundleSiblingFails \/ StateWriteFails
    BY <1>0, <2>1, FailRevisedAt DEF BundleSiblingFails, StateWriteFails
  <2>2. CASE ~(BundleSiblingFails \/ StateWriteFails)
    <3>1. state' = state
      BY <1>4, <2>2 DEF Write, WriteAgentFile, AgentWriteFails, WriteBundle,
         RemoveStale, WriteSignature, WriteTrust
    <3> QED
      BY <1>0, <3>1
  <2> QED
    BY <2>1, <2>2
<1>5. ASSUME NEW gone \in SUBSET Files, FinishCycle(gone)
      PROVE  state'.revisedAt >= state.revisedAt
  BY <1>5, FinishRevisedAt
<1> QED
  BY <1>1, <1>2, <1>3, <1>4, <1>5 DEF Next, Once

\* Only WriteBundle takes a cycle from the agents' files to the state directory's.
LEMMA AgentsToStale ==
  ASSUME TypeInv, [Next]_vars, cyc.pc = "agents", cyc'.pc = "stale"
  PROVE  WriteBundle
<1>0. cyc \in Cycle
  BY DEF TypeInv, TypeOK
<1>1. CASE Plane \/ Disturb \/ UNCHANGED vars
  BY <1>1, OtherSteps DEF IdleCycle
<1>2. CASE BeginCycle \/ Fetch
  BY <1>2 DEF BeginCycle, Fetch, FetchFails, FetchRefused, FetchUnchanged, FetchOlder, FetchBundle
<1>3. CASE Write
  <2>1. ASSUME NEW p \in Files, WriteAgentFile(p) PROVE FALSE
    BY <1>0, <2>1 DEF WriteAgentFile, Cycle
  <2>2. ASSUME NEW p \in Files, NEW landed \in BOOLEAN, AgentWriteFails(p, landed) PROVE FALSE
    BY <1>0, <2>2 DEF AgentWriteFails, Cycle
  <2>3. CASE BundleSiblingFails \/ StateWriteFails
    BY <2>3, FailEnds DEF BundleSiblingFails, StateWriteFails, IdleCycle
  <2> QED
    BY <1>3, <2>1, <2>2, <2>3 DEF Write, RemoveStale, WriteSignature, WriteTrust
<1>4. ASSUME NEW gone \in SUBSET Files, FinishCycle(gone) PROVE FALSE
  BY <1>4 DEF FinishCycle
<1> QED
  BY <1>1, <1>2, <1>3, <1>4 DEF Next, Once

\* The replay guard works for every number of revisions, keys and faults: a cycle
\* never lowers the recorded revision time, and a pinned machine's cycle never
\* writes a bundle older than the time it has recorded (sync.go:238, 383).
THEOREM ReplayGuard == Spec => RevisionTimeHolds
<1>1. Init => TypeInv /\ NotOlder
  BY InitTypeInv DEF Init, NotOlder, IdleCycle, Past
<1>2. TypeInv /\ NotOlder /\ [Next]_vars => TypeInv' /\ NotOlder'
  BY NextTypeInv, NotOlderStep
<1>3. ASSUME TypeInv, NotOlder, [Next]_vars
      PROVE  [cyc.pc # "idle" =>
                /\ state'.revisedAt >= state.revisedAt
                /\ cyc.pc = "agents" /\ cyc'.pc = "stale" /\ machine.pin # NoKey
                     => disk'["bundle"].revisedAt >= state.revisedAt]_vars
  <2>1. ASSUME cyc.pc = "agents", cyc'.pc = "stale", machine.pin # NoKey
        PROVE  disk'["bundle"].revisedAt >= state.revisedAt
    <3>1. WriteBundle
      BY <1>3, <2>1, AgentsToStale
    <3>2. disk'["bundle"] = cyc.got.bundle
      BY <1>3, <3>1 DEF WriteBundle, TypeInv, TypeOK, Recorded, Paths, StateFiles
    <3> QED
      BY <1>3, <2>1, <3>2 DEF NotOlder, Past
  <2> QED
    BY <1>3, <2>1, CycleRevisedAt
<1> QED
  BY <1>1, <1>2, <1>3, PTL DEF Spec, RevisionTimeHolds

-----------------------------------------------------------------------------
(***************************************************************************)
(* The pin.                                                                *)
(***************************************************************************)
LEMMA RepinAnnounced ==
  ASSUME TypeInv, NEW a, a \in Answer, NEW lost, Repin(a, lost),
         a.by # NoKey => <<a.by, a.key>> \in announced,
         machine'.pin # machine.pin
  PROVE  <<machine.pin, machine'.pin>> \in announced
<1>1. Rollover(machine.pin, a) /\ machine' = [machine EXCEPT !.pin = a.key]
  BY DEF Repin
<1>2. machine'.pin = a.key
  BY <1>1 DEF TypeInv, TypeOK, Machine
<1> QED
  BY <1>1, <1>2 DEF Rollover

\* The pin moves to another key, never away from having one.
LEMMA RepinKeepsPinned ==
  ASSUME TypeInv, NEW a, a \in Answer, NEW lost, Repin(a, lost),
         a.by # NoKey => <<a.by, a.key>> \in announced
  PROVE  /\ machine'.agents = machine.agents
         /\ machine'.pin = NoKey <=> machine.pin = NoKey
<1>1. machine \in Machine /\ announced \subseteq Keys \X Keys
  BY DEF TypeInv, TypeOK
<1>2. machine'.pin # machine.pin => <<machine.pin, machine'.pin>> \in announced
  BY RepinAnnounced
<1>3. NoKey \notin Keys
  BY NoneAssumption DEF NoKey
<1> QED
  BY <1>1, <1>2, <1>3, RepinType

LEMMA PinMoves ==
  ASSUME TypeInv, [Next]_vars, cyc.pc # "idle", machine'.pin # machine.pin
  PROVE  <<machine.pin, machine'.pin>> \in announced
<1>1. CASE Plane \/ Disturb \/ UNCHANGED vars
  BY <1>1 DEF Plane, Disturb, vars, postRevision, ChangeGroups, StartSigning, RotateKey,
     RetireKey, StopSigning, Configure, Enroll, EnrollInterrupted, Crash, Edit, LoseState
<1>2. CASE BeginCycle \/ FetchFails \/ Write
  BY <1>2 DEF BeginCycle, FetchFails, Write, WriteAgentFile, AgentWriteFails, WriteBundle,
     BundleSiblingFails, RemoveStale, WriteSignature, WriteTrust, StateWriteFails
<1>3. ASSUME NEW a, NEW cost, FetchUnchanged(a, cost) \/ FetchOlder(a, cost)
      PROVE  <<machine.pin, machine'.pin>> \in announced
  <2>1. a \in Answer /\ (a.by # NoKey => <<a.by, a.key>> \in announced)
    BY <1>3, DeliveredType DEF FetchUnchanged, FetchOlder
  <2> QED
    BY <1>3, <2>1, RepinAnnounced DEF FetchUnchanged, FetchOlder
<1>4. ASSUME NEW a, NEW cost, NEW unrendered,
             FetchRefused(a, cost) \/ FetchBundle(a, cost, unrendered)
      PROVE  FALSE
  BY <1>4 DEF FetchRefused, FetchBundle
<1>5. ASSUME NEW gone \in SUBSET Files, FinishCycle(gone)
      PROVE  <<machine.pin, machine'.pin>> \in announced
  <2>1. cyc.got \in Answer
    BY <1>5 DEF TypeInv, CycleShape, FinishCycle, Past
  <2>2. cyc.got.by # NoKey => <<cyc.got.by, cyc.got.key>> \in announced
    BY <2>1, NoneAssumption DEF TypeInv, Handovers
  <2> QED
    BY <1>5, <2>1, <2>2, RepinAnnounced DEF FinishCycle
<1> QED
  BY <1>1, <1>2, <1>3, <1>4, <1>5 DEF Next, Once, Fetch

\* However answers are delayed, replayed or refused, and wherever a save is lost, a
\* cycle moves the pin only from a key to the key it handed over to (client.go,
\* rolloverFrom; sync.go, repin).
THEOREM PinIsHandedOver == Spec => PinFollowsHandover
<1>1. ASSUME TypeInv, [Next]_vars
      PROVE  [cyc.pc # "idle" /\ machine'.pin # machine.pin
                => <<machine.pin, machine'.pin>> \in announced]_vars
  BY <1>1, PinMoves
<1> QED
  BY <1>1, InitTypeInv, NextTypeInv, PTL DEF Spec, PinFollowsHandover

-----------------------------------------------------------------------------
(***************************************************************************)
(* Files that disappear.                                                   *)
(***************************************************************************)

\* Who deletes files: the removal of stale signing files, the pruning, an edit.
Deleting ==
  \/ \E p \in {"sig", "trust"} : RemoveStale(p)
  \/ \E gone \in SUBSET Files : FinishCycle(gone)
  \/ \E p \in Paths, content \in {Junk, None} : Edit(p, content)

LEMMA OnlyDeletions ==
  ASSUME TypeInv, [Next]_vars, NEW q \in Paths, disk[q] # None, disk'[q] = None
  PROVE  Deleting \/ (q = "trust" /\ WriteTrust)
<1>0. disk \in [Paths -> Content] /\ cyc \in Cycle
  BY DEF TypeInv, TypeOK, Recorded
<1>a. cyc.pc \in Past => cyc.got.bundle \in Bundle
  BY DEF TypeInv, CycleShape, Answer
<1>1. CASE Plane \/ UNCHANGED vars
  BY <1>1 DEF Plane, vars, postRevision, ChangeGroups, StartSigning, RotateKey, RetireKey,
     StopSigning, Configure
<1>2. CASE Disturb
  BY <1>2 DEF Disturb, Enroll, EnrollInterrupted, Crash, LoseState, Deleting
<1>3. CASE BeginCycle \/ Fetch
  BY <1>3 DEF BeginCycle, Fetch, FetchFails, FetchRefused, FetchUnchanged, FetchOlder, FetchBundle
<1>4. CASE Write
  <2>1. ASSUME NEW p \in Files, WriteAgentFile(p) PROVE FALSE
    <3>1. Rendering(p, cyc.got.bundle) # None
      BY <1>a, <2>1, FilesAssumption DEF WriteAgentFile, Past
    <3> QED
      BY <1>0, <2>1, <3>1 DEF WriteAgentFile
  <2>2. ASSUME NEW p \in Files, NEW landed \in BOOLEAN, AgentWriteFails(p, landed) PROVE FALSE
    <3>1. Rendering(p, cyc.got.bundle) # None
      BY <1>a, <2>2, FilesAssumption DEF AgentWriteFails, Past
    <3> QED
      BY <1>0, <2>2, <3>1 DEF AgentWriteFails
  <2>3. CASE WriteBundle \/ BundleSiblingFails
    <3>1. cyc.got.bundle # None
      BY <1>a, <2>3, NoneAssumption DEF WriteBundle, BundleSiblingFails, Past
    <3> QED
      BY <1>0, <2>3, <3>1 DEF WriteBundle, BundleSiblingFails
  <2>4. CASE WriteSignature
    <3> DEFINE line == [key |-> Verifier(machine.pin, cyc.got), bundle |-> cyc.got.bundle]
    <3>1. line \in Signature
      BY <1>a, <2>4, VerifierType DEF WriteSignature, Past, Signature
    <3>2. line # None /\ disk' = [disk EXCEPT !["sig"] = line]
      BY <2>4, <3>1, NoneAssumption DEF WriteSignature
    <3> QED
      BY <1>0, <3>2
  <2>5. CASE WriteTrust
    BY <1>0, <2>5 DEF WriteTrust
  <2>6. CASE StateWriteFails
    BY <2>6 DEF StateWriteFails
  <2> QED
    BY <1>4, <2>1, <2>2, <2>3, <2>4, <2>5, <2>6 DEF Write, Deleting
<1> QED
  BY <1>1, <1>2, <1>3, <1>4 DEF Next, Once, Deleting

LEMMA TrustKept ==
  ASSUME TypeInv, [Next]_vars, disk["trust"] # None, disk'["trust"] = None,
         machine.pin # NoKey
  PROVE  Edit("trust", None)
<1>0. disk \in [Paths -> Content] /\ "trust" \in Paths /\ "trust" \notin Files
  BY FilesAssumption DEF TypeInv, TypeOK, Recorded, Paths, StateFiles
<1>1. ASSUME WriteTrust PROVE FALSE
  <2>1. Verifier(machine.pin, cyc.got) \in Keys
    BY <1>1, VerifierType DEF WriteTrust, Past
  <2> QED
    BY <1>0, <1>1, <2>1, NoneAssumption DEF WriteTrust
<1>2. ASSUME NEW p, RemoveStale(p) PROVE FALSE
  BY <1>2 DEF RemoveStale, TypeInv, CycleShape
<1>3. ASSUME NEW gone \in SUBSET Files, FinishCycle(gone) PROVE FALSE
  BY <1>0, <1>3 DEF FinishCycle
<1>4. ASSUME NEW p \in Paths, NEW content, Edit(p, content) PROVE Edit("trust", None)
  <2>1. p = "trust" /\ content = None
    BY <1>0, <1>4 DEF Edit
  <2> QED
    BY <1>4, <2>1
<1> QED
  BY <1>0, <1>1, <1>2, <1>3, <1>4, OnlyDeletions DEF Deleting

\* Whatever fails or crashes, aw-sync itself never takes the trust file away from a
\* machine that pins a key (sync.go:193-205).
THEOREM TrustFileStays == Spec => TrustStays
<1>1. ASSUME TypeInv, [Next]_vars
      PROVE  [disk["trust"] # None /\ disk'["trust"] = None
                => machine.pin = NoKey \/ Edit("trust", None)]_vars
  BY <1>1, TrustKept
<1> QED
  BY <1>1, InitTypeInv, NextTypeInv, PTL DEF Spec, TrustStays

\* Whichever agents fail in a cycle, a file is deleted only when its agent is not
\* enrolled and it is still as recorded (sync.go, fullCycleKeep and prune).
THEOREM PruningSparesOthers == Spec => PruneSparesOthers
<1>1. ASSUME TypeInv, [Next]_vars, NEW q \in Files, disk[q] # None, disk'[q] = None
      PROVE  \/ Owner[q] \notin machine.agents /\ disk[q] = state.files[q]
             \/ Edit(q, None)
  <2>0. /\ disk \in [Paths -> Content] /\ q \in Paths
        /\ q \notin {"sig", "trust"}
    BY <1>1, FilesAssumption DEF TypeInv, TypeOK, Recorded, Paths, StateFiles
  <2>1. ASSUME NEW p \in {"sig", "trust"}, RemoveStale(p) PROVE FALSE
    BY <1>1, <2>0, <2>1 DEF RemoveStale
  <2>2. ASSUME NEW gone \in SUBSET Files, FinishCycle(gone)
        PROVE  Owner[q] \notin machine.agents /\ disk[q] = state.files[q]
    <3>1. q \in Prunable
      BY <1>1, <2>0, <2>2 DEF FinishCycle
    <3> QED
      BY <1>1, <3>1 DEF Prunable, Keep, Planned, UnderFailedRoot
  <2>3. ASSUME NEW p \in Paths, NEW content, Edit(p, content) PROVE Edit(q, None)
    <3>1. p = q /\ content = None
      BY <1>1, <2>0, <2>3 DEF Edit
    <3> QED
      BY <2>3, <3>1
  <2> QED
    BY <1>1, <2>0, <2>1, <2>2, <2>3, OnlyDeletions DEF Deleting
<1>2. ASSUME TypeInv, [Next]_vars
      PROVE  [\A p \in Files : disk[p] # None /\ disk'[p] = None =>
                \/ Owner[p] \notin machine.agents /\ disk[p] = state.files[p]
                \/ Edit(p, None)]_vars
  BY <1>1, <1>2
<1> QED
  BY <1>2, InitTypeInv, NextTypeInv, PTL DEF Spec, PruneSparesOthers

-----------------------------------------------------------------------------
(***************************************************************************)
(* The plan: what a cycle remembers having written.                        *)
(***************************************************************************)
LEMMA WrittenStep == ASSUME TypeInv, Written, [Next]_vars PROVE Written'
<1>0. /\ cyc \in Cycle /\ cyc.wrote \in [Paths -> Content]
      /\ Files \subseteq Paths /\ {"bundle", "sig", "trust"} \subseteq Paths
      /\ \A p \in Files : p \notin {"bundle", "sig", "trust"}
  BY FilesAssumption DEF TypeInv, TypeOK, Cycle, Recorded, Paths, StateFiles
<1>a. ASSUME cyc'.pc \in {"idle", "fetch"} PROVE Written'
  BY <1>a DEF Written, Past
<1>1. CASE Plane \/ Disturb \/ UNCHANGED vars
  <2>1. CASE cyc' = IdleCycle
    BY <1>a, <2>1 DEF IdleCycle
  <2>2. CASE cyc' = cyc /\ cyc.pc = "idle"
    BY <1>a, <2>2
  <2>3. CASE cyc' = cyc /\ machine' = machine
    BY <2>3 DEF Written
  <2> QED
    BY <1>1, <2>1, <2>2, <2>3, OtherSteps
<1>2. CASE BeginCycle
  BY <1>0, <1>a, <1>2 DEF BeginCycle, Cycle
<1>3. CASE Fetch
  <2>1. CASE cyc' = IdleCycle
    BY <1>a, <2>1 DEF IdleCycle
  <2>2. ASSUME NEW a, NEW cost, NEW unrendered \in SUBSET Agents,
               FetchBundle(a, cost, unrendered)
        PROVE  Written'
    <3>1. /\ cyc'.pc = "agents" /\ cyc'.failed = unrendered /\ machine' = machine
          /\ cyc'.todo = {p \in Files : Owner[p] \in machine.agents \ unrendered}
      BY <2>2, FetchBundleStep
    <3> QED
      BY <3>1 DEF Written
  <2> QED
    BY <1>3, <2>1, <2>2, FetchSteps
<1>4. ASSUME NEW p \in Files, WriteAgentFile(p) PROVE Written'
  <2>1. /\ cyc.pc = "agents" /\ cyc'.pc = "agents" /\ cyc'.got = cyc.got
        /\ cyc'.failed = cyc.failed /\ cyc'.todo = cyc.todo \ {p} /\ machine' = machine
        /\ cyc'.wrote = [cyc.wrote EXCEPT ![p] = Rendering(p, cyc.got.bundle)]
    BY <1>0, <1>4 DEF WriteAgentFile, Cycle
  <2> QED
    BY <1>0, <2>1 DEF Written, Past
<1>5. ASSUME NEW p \in Files, NEW landed \in BOOLEAN, AgentWriteFails(p, landed) PROVE Written'
  <2>1. /\ cyc.pc = "agents" /\ cyc'.pc = "agents" /\ cyc'.got = cyc.got
        /\ cyc'.failed = cyc.failed \cup {Owner[p]} /\ machine' = machine
        /\ cyc'.todo = {q \in cyc.todo : Owner[q] # Owner[p]}
        /\ cyc'.wrote \in [Paths -> Content]
        /\ \A q \in Paths \ {p} : cyc'.wrote[q] = cyc.wrote[q]
    <3>1. Rendering(p, cyc.got.bundle) \in Content
      BY <1>5, ContentFacts DEF AgentWriteFails, TypeInv, CycleShape, Past, Answer
    <3> QED
      BY <1>0, <1>5, <3>1 DEF AgentWriteFails, Cycle
  <2>2. ASSUME NEW q \in Files \ cyc'.todo, Owner[q] \in machine.agents \ cyc'.failed
        PROVE  cyc'.wrote[q] = Rendering(q, cyc.got.bundle)
    <3>1. q # p /\ q \notin cyc.todo /\ Owner[q] \in machine.agents \ cyc.failed
      BY <2>1, <2>2
    <3> QED
      BY <1>0, <2>1, <3>1 DEF Written, Past
  <2> QED
    BY <2>1, <2>2 DEF Written
<1>6. CASE WriteBundle
  <2>1. /\ cyc.pc = "agents" /\ cyc'.pc = "stale" /\ cyc'.got = cyc.got
        /\ cyc'.failed = cyc.failed /\ cyc'.todo = {} /\ cyc.todo = {} /\ machine' = machine
        /\ cyc'.wrote = [cyc.wrote EXCEPT !["bundle"] = cyc.got.bundle]
    BY <1>0, <1>6 DEF WriteBundle, Cycle
  <2> QED
    BY <1>0, <2>1 DEF Written, Past
<1>7. ASSUME NEW p \in {"sig", "trust"}, RemoveStale(p) PROVE Written'
  <2>1. /\ cyc.pc = "stale" /\ cyc'.pc = "stale" /\ cyc'.got = cyc.got
        /\ cyc'.failed = cyc.failed /\ cyc'.todo = cyc.todo /\ machine' = machine
        /\ cyc'.wrote = cyc.wrote
    BY <1>0, <1>7 DEF RemoveStale, Cycle
  <2> QED
    BY <2>1 DEF Written, Past
<1>8. CASE WriteSignature
  <2> DEFINE line == [key |-> Verifier(machine.pin, cyc.got), bundle |-> cyc.got.bundle]
  <2>1. /\ cyc.pc = "stale" /\ cyc'.pc = "trust" /\ cyc'.got = cyc.got /\ machine.pin # NoKey
        /\ cyc'.failed = cyc.failed /\ cyc'.todo = cyc.todo /\ machine' = machine
        /\ cyc'.wrote = [cyc.wrote EXCEPT !["sig"] = line]
    BY <1>0, <1>8 DEF WriteSignature, Cycle
  <2> QED
    BY <1>0, <2>1 DEF Written, Past
<1>9. CASE WriteTrust
  <2> DEFINE key == Verifier(machine.pin, cyc.got)
  <2>1. /\ cyc.pc = "trust" /\ cyc'.pc = "finish" /\ cyc'.got = cyc.got
        /\ cyc'.failed = cyc.failed /\ cyc'.todo = cyc.todo /\ machine' = machine
        /\ cyc'.wrote = [cyc.wrote EXCEPT !["trust"] = key]
    BY <1>0, <1>9 DEF WriteTrust, Cycle
  <2> QED
    BY <1>0, <2>1 DEF Written, Past
<1>10. CASE BundleSiblingFails \/ StateWriteFails
  BY <1>a, <1>10, FailEnds DEF BundleSiblingFails, StateWriteFails, IdleCycle
<1>11. ASSUME NEW gone \in SUBSET Files, FinishCycle(gone) PROVE Written'
  BY <1>a, <1>11 DEF FinishCycle, IdleCycle
<1> QED
  BY <1>1, <1>2, <1>3, <1>4, <1>5, <1>6, <1>7, <1>8, <1>9, <1>10, <1>11 DEF Next, Once, Write

-----------------------------------------------------------------------------
(***************************************************************************)
(* The etag: recorded together with everything it promises.                *)
(***************************************************************************)

\* The record that is already there goes on being whole when agents are the same
\* and no key is pinned that was not.
LEMMA StillWhole ==
  ASSUME RecordedIsWhole, machine'.agents = machine.agents,
         machine'.pin # NoKey => machine.pin # NoKey,
         state'.etag = state.etag, state'.files = state.files, ~torn' => ~torn
  PROVE  RecordedIsWhole'
BY DEF RecordedIsWhole

LEMMA FailKeepsOrTears ==
  ASSUME TypeInv, NEW kind, NEW landed, NEW cost, Fail(kind, landed, cost)
  PROVE  \/ torn'
         \/ /\ state'.etag = state.etag /\ state'.files = state.files
            /\ ~torn' => ~torn
<1>1. PICK lost \in BOOLEAN :
        /\ state' = IF lost THEN state
                    ELSE [state EXCEPT !.error = kind, !.files = Merge(@, landed)]
        /\ torn' = (torn \/ (~lost /\ landed # NoFiles))
  BY DEF Fail
<1>2. CASE ~lost /\ landed # NoFiles
  BY <1>1, <1>2
<1>3. CASE lost
  BY <1>1, <1>3
<1>4. CASE ~lost /\ landed = NoFiles
  <2>1. state' = [state EXCEPT !.error = kind, !.files = Merge(@, landed)]
    BY <1>1, <1>4
  <2>2. state.files \in [Paths -> Content]
    BY DEF TypeInv, TypeOK, State, Recorded
  <2>3. Merge(state.files, landed) = state.files
    BY <1>4, <2>2 DEF Merge, NoFiles
  <2>4. state'.etag = state.etag /\ state'.files = state.files
    BY <2>1, <2>3 DEF TypeInv, TypeOK, State
  <2> QED
    BY <1>1, <2>4
<1> QED
  BY <1>2, <1>3, <1>4

LEMMA FinishRecordsWhole ==
  ASSUME TypeInv, Written, NEW gone \in SUBSET Files, FinishCycle(gone),
         state' = CycleState(gone)
  PROVE  RecordedIsWhole'
<1> DEFINE b == cyc.got.bundle
<1>0. /\ cyc.got \in Answer /\ b \in Bundle /\ cyc.pc \in {"stale", "finish"}
      /\ Files \subseteq Paths /\ {"bundle", "sig", "trust"} \subseteq Paths
  BY DEF FinishCycle, TypeInv, CycleShape, Past, Answer, Paths, StateFiles
<1>1. SUFFICES ASSUME state'.etag # None PROVE RecordedIsWhole'
  BY DEF RecordedIsWhole
<1>2. cyc.failed = {} /\ state'.etag = b
  BY <1>1 DEF CycleState
<1>3. state'.files = FilesLeft(gone)
  BY DEF CycleState
<1>4. ASSUME NEW p \in Paths, cyc.wrote[p] # None PROVE state'.files[p] = cyc.wrote[p]
  BY <1>3, <1>4 DEF FilesLeft
<1>5. state'.files["bundle"] = b
  <2>1. cyc.wrote["bundle"] = b /\ b # None
    BY <1>0, NoneAssumption DEF Written, Past
  <2> QED
    BY <1>0, <1>4, <2>1
<1>6. /\ machine'.agents = machine.agents
      /\ machine'.pin # NoKey => machine.pin # NoKey
  BY <1>0, RepinType DEF FinishCycle, TypeInv, TypeOK
<1>7. ASSUME NEW p \in Files, Owner[p] \in machine'.agents
      PROVE  state'.files[p] = Rendering(p, b)
  <2>1. cyc.wrote[p] = Rendering(p, b)
    BY <1>0, <1>2, <1>6, <1>7 DEF Written, Past
  <2>2. Rendering(p, b) # None
    BY <1>0, FilesAssumption
  <2> QED
    BY <1>0, <1>4, <2>1, <2>2
<1>8. ASSUME machine'.pin # NoKey
      PROVE  VerifyFiles(state'.files["trust"], state'.files["bundle"], state'.files["sig"])
  <2>1. machine.pin # NoKey /\ cyc.pc = "finish"
    BY <1>6, <1>8 DEF FinishCycle
  <2>2. /\ cyc.wrote["trust"] = Verifier(machine.pin, cyc.got)
        /\ cyc.wrote["sig"] = [key |-> Verifier(machine.pin, cyc.got), bundle |-> b]
    BY <2>1 DEF Written, Past
  <2>3. Verifier(machine.pin, cyc.got) \in Keys
    BY <2>1, VerifierType DEF Past
  <2>4. cyc.wrote["sig"] # None /\ cyc.wrote["trust"] # None
    BY <1>0, <2>2, <2>3, NoneAssumption DEF Signature
  <2>5. /\ state'.files["trust"] = Verifier(machine.pin, cyc.got)
        /\ state'.files["sig"] = [key |-> Verifier(machine.pin, cyc.got), bundle |-> b]
    BY <1>0, <1>4, <2>2, <2>4
  <2> QED
    BY <1>5, <2>3, <2>5 DEF VerifyFiles
<1> HIDE DEF b
<1> QED
  BY <1>2, <1>5, <1>7, <1>8 DEF RecordedIsWhole

LEMMA RecordedStep ==
  ASSUME TypeInv, Written, RecordedIsWhole, [Next]_vars PROVE RecordedIsWhole'
<1>1. CASE Plane \/ BeginCycle \/ UNCHANGED vars \/ Crash
  BY <1>1, StillWhole DEF Plane, BeginCycle, vars, postRevision, ChangeGroups, StartSigning,
     RotateKey, RetireKey, StopSigning, Configure, Crash, historyVars
<1>2. ASSUME NEW p, NEW content, Edit(p, content) PROVE RecordedIsWhole'
  BY <1>2, StillWhole DEF Edit
<1>3. ASSUME NEW chosen, Enroll(chosen) \/ EnrollInterrupted(chosen) \/ LoseState
      PROVE  RecordedIsWhole'
  <2>0. ZeroState.etag = None /\ ZeroState \in State
    BY ZeroTypes DEF ZeroState
  <2>1. torn' \/ state'.etag = None
    BY <1>3, <2>0 DEF Enroll, EnrollInterrupted, LoseState, State
  <2> QED
    BY <2>1 DEF RecordedIsWhole
<1>4. ASSUME NEW a, NEW kind, NEW landed, NEW cost, Fail(kind, landed, cost),
             \/ machine' = machine
             \/ a \in Answer /\ \E lost \in BOOLEAN : Repin(a, lost)
      PROVE  RecordedIsWhole'
  <2>1. CASE torn'
    BY <2>1 DEF RecordedIsWhole
  <2>2. machine'.agents = machine.agents /\ (machine'.pin # NoKey => machine.pin # NoKey)
    BY <1>4, RepinType DEF TypeInv, TypeOK
  <2> QED
    BY <1>4, <2>1, <2>2, FailKeepsOrTears, StillWhole
<1>5. CASE Fetch
  <2>1. CASE FetchFails
    BY <1>4, <2>1 DEF FetchFails
  <2>2. ASSUME NEW a, NEW cost, FetchRefused(a, cost) PROVE RecordedIsWhole'
    BY <1>4, <2>2 DEF FetchRefused
  <2>3. ASSUME NEW a, NEW cost, FetchOlder(a, cost) PROVE RecordedIsWhole'
    <3>1. a \in Answer
      BY <2>3, DeliveredType DEF FetchOlder
    <3> QED
      BY <1>4, <2>3, <3>1 DEF FetchOlder
  <2>4. ASSUME NEW a, NEW cost, FetchUnchanged(a, cost) PROVE RecordedIsWhole'
    <3>1. a \in Answer
      BY <2>4, DeliveredType DEF FetchUnchanged
    <3>2. machine'.agents = machine.agents /\ (machine'.pin # NoKey => machine.pin # NoKey)
      BY <2>4, <3>1, RepinType DEF FetchUnchanged, TypeInv, TypeOK
    <3>3. state'.etag = state.etag /\ state'.files = state.files /\ torn' = torn
      BY <2>4 DEF FetchUnchanged, TypeInv, TypeOK, State
    <3> QED
      BY <3>2, <3>3, StillWhole
  <2>5. ASSUME NEW a, NEW cost, NEW unrendered, FetchBundle(a, cost, unrendered)
        PROVE  RecordedIsWhole'
    BY <2>5, StillWhole DEF FetchBundle
  <2> QED
    BY <1>5, <2>1, <2>2, <2>3, <2>4, <2>5 DEF Fetch
<1>6. CASE Write
  <2>1. CASE BundleSiblingFails \/ StateWriteFails
    BY <1>4, <2>1 DEF BundleSiblingFails, StateWriteFails
  <2>2. CASE ~(BundleSiblingFails \/ StateWriteFails)
    <3>1. UNCHANGED <<machine, state, torn>>
      BY <1>6, <2>2 DEF Write, WriteAgentFile, AgentWriteFails, WriteBundle, RemoveStale,
         WriteSignature, WriteTrust, historyVars
    <3> QED
      BY <3>1, StillWhole
  <2> QED
    BY <2>1, <2>2
<1>7. ASSUME NEW gone \in SUBSET Files, FinishCycle(gone) PROVE RecordedIsWhole'
  <2>1. PICK pinLost \in BOOLEAN, lost \in BOOLEAN :
          /\ Repin(cyc.got, pinLost)
          /\ state' = IF lost THEN state ELSE CycleState(gone)
          /\ torn' = (torn /\ lost)
    BY <1>7 DEF FinishCycle
  <2>2. CASE ~lost
    BY <1>7, <2>1, <2>2, FinishRecordsWhole
  <2>3. CASE lost
    <3>1. cyc.got \in Answer
      BY <1>7 DEF FinishCycle, TypeInv, CycleShape, Past
    <3>2. machine'.agents = machine.agents /\ (machine'.pin # NoKey => machine.pin # NoKey)
      BY <2>1, <3>1, RepinType DEF TypeInv, TypeOK
    <3>3. state' = state /\ (~torn' => ~torn)
      BY <2>1, <2>3
    <3> QED
      BY <3>2, <3>3, StillWhole
  <2> QED
    BY <2>2, <2>3
<1> QED
  BY <1>1, <1>2, <1>3, <1>5, <1>6, <1>7 DEF Next, Once, Disturb

LEMMA WholeHolds ==
  ASSUME TypeInv, RecordedIsWhole, state.etag # None, Drifted = {}, ~torn
  PROVE  Holds(state.etag)
<1>1. ASSUME NEW p \in Paths, state.files[p] # None PROVE disk[p] = state.files[p]
  BY <1>1 DEF Drifted
<1>2. state.etag \in Bundle /\ {"bundle", "sig", "trust"} \subseteq Paths /\ Files \subseteq Paths
  BY DEF TypeInv, TypeOK, State, Paths, StateFiles
<1>3. disk["bundle"] = state.etag
  BY <1>1, <1>2, NoneAssumption DEF RecordedIsWhole
<1>4. ASSUME machine.pin # NoKey
      PROVE  VerifyFiles(disk["trust"], disk["bundle"], disk["sig"])
  <2>1. VerifyFiles(state.files["trust"], state.files["bundle"], state.files["sig"])
        /\ state.files["bundle"] \in Bundle
    BY <1>2, <1>4 DEF RecordedIsWhole
  <2>2. state.files["trust"] # None /\ state.files["sig"] # None /\ state.files["bundle"] # None
    BY <2>1, NoneAssumption DEF VerifyFiles, Signature
  <2> QED
    BY <1>1, <1>2, <2>1, <2>2
<1>5. ASSUME NEW p \in Files, Owner[p] \in machine.agents
      PROVE  disk[p] = Rendering(p, state.etag)
  BY <1>1, <1>2, <1>5, FilesAssumption DEF RecordedIsWhole
<1> QED
  BY <1>3, <1>4, <1>5 DEF Holds

\* What `aw-sync status' calls in sync is in sync, for any number of agents, files,
\* keys and failures (sync.go, Run): the etag is only ever recorded by a full cycle
\* without failed agents, together with every file, the signature and the trust file.
THEOREM StatusCanBeBelieved == Spec => []StatusIsTrue
<1>1. Init => TypeInv /\ Written /\ RecordedIsWhole
  <2>0. IdleCycle.pc = "idle" /\ ZeroState.etag = None
    BY DEF IdleCycle, ZeroState
  <2>1. Init => Written /\ RecordedIsWhole
    BY <2>0 DEF Init, Written, RecordedIsWhole, Past
  <2> QED
    BY <2>1, InitTypeInv
<1>2. /\ TypeInv /\ Written /\ RecordedIsWhole
      /\ [Next]_vars
      => TypeInv' /\ Written' /\ RecordedIsWhole'
  BY NextTypeInv, WrittenStep, RecordedStep
<1>3. TypeInv /\ RecordedIsWhole => StatusIsTrue
  BY WholeHolds DEF StatusIsTrue
<1> QED
  BY <1>1, <1>2, <1>3, PTL DEF Spec

-----------------------------------------------------------------------------
(***************************************************************************)
(* The disk: what aw-sync wrote, unless somebody else touched it.          *)
(***************************************************************************)

\* Follows(w, f, d): the files d are what was written, by w or else by f, or are gone.
Follows(w, f, d) ==
  \A p \in Paths : LET last == IF w[p] # None THEN w[p] ELSE f[p]
                   IN  last # None => d[p] \in {last, None}

LEMMA DiskFollowsMeans == DiskFollows <=> (~excused => Follows(cyc.wrote, state.files, disk))
BY DEF DiskFollows, Follows, LastWritten

LEMMA DiskFollowsNext ==
  ASSUME ~excused' => Follows(cyc'.wrote, state'.files, disk') PROVE DiskFollows'
BY DEF DiskFollows, Follows, LastWritten

LEMMA OneMoreFile ==
  ASSUME NEW w \in Recorded, NEW f, NEW d \in Recorded, Follows(w, f, d),
         NEW p \in Paths, NEW content, content # None
  PROVE  Follows([w EXCEPT ![p] = content], f, [d EXCEPT ![p] = content])
BY DEF Follows, Recorded

LEMMA MergeFollows ==
  ASSUME NEW w \in Recorded, NEW f, NEW d, Follows(w, f, d)
  PROVE  Follows(NoFiles, Merge(f, w), d)
BY DEF Follows, Merge, NoFiles

LEMMA FailFollows ==
  ASSUME TypeInv, NEW kind, NEW landed \in Recorded, NEW cost, Fail(kind, landed, cost),
         ~excused => Follows(landed, state.files, disk')
  PROVE  DiskFollows'
<1>1. PICK lost \in BOOLEAN :
        /\ state' = IF lost THEN state
                    ELSE [state EXCEPT !.error = kind, !.files = Merge(@, landed)]
        /\ excused' = (excused \/ lost)
        /\ cyc' = IdleCycle
  BY DEF Fail
<1>2. SUFFICES ASSUME ~excused' PROVE Follows(cyc'.wrote, state'.files, disk')
  BY DiskFollowsNext
<1>3. ~lost /\ ~excused
  BY <1>1, <1>2
<1>4. state' = [state EXCEPT !.error = kind, !.files = Merge(@, landed)]
  BY <1>1, <1>3
<1>5. state'.files = Merge(state.files, landed)
  BY <1>4 DEF TypeInv, TypeOK, State
<1>6. cyc'.wrote = NoFiles
  BY <1>1 DEF IdleCycle
<1> QED
  BY <1>3, <1>5, <1>6, MergeFollows

LEMMA DiskFollowsStep == ASSUME TypeInv, DiskFollows, [Next]_vars PROVE DiskFollows'
<1>0. /\ cyc \in Cycle /\ cyc.wrote \in Recorded /\ disk \in Recorded
      /\ NoFiles \in Recorded
      /\ Files \subseteq Paths /\ {"bundle", "sig", "trust"} \subseteq Paths
  BY ZeroTypes DEF TypeInv, TypeOK, Cycle, Paths, StateFiles
<1>a. ~excused => Follows(cyc.wrote, state.files, disk)
  BY DiskFollowsMeans
<1>b. cyc.pc \in Past => cyc.got \in Answer /\ cyc.got.bundle \in Bundle /\ cyc.got.bundle # None
  BY NoneAssumption DEF TypeInv, CycleShape, Answer
<1>c. ASSUME cyc'.wrote = cyc.wrote, state'.files = state.files, disk' = disk,
             excused' = excused
      PROVE  DiskFollows'
  BY <1>a, <1>c, DiskFollowsNext
<1>d. ASSUME NEW p \in Paths, NEW content, content # None,
             cyc'.wrote = [cyc.wrote EXCEPT ![p] = content],
             disk' = [disk EXCEPT ![p] = content], UNCHANGED <<state, excused>>
      PROVE  DiskFollows'
  <2>1. ~excused => Follows([cyc.wrote EXCEPT ![p] = content], state.files,
                            [disk EXCEPT ![p] = content])
    BY <1>0, <1>a, <1>d, OneMoreFile
  <2>2. ~excused' => Follows(cyc'.wrote, state'.files, disk')
    BY <1>d, <2>1
  <2> QED
    BY <2>2, DiskFollowsNext
<1>1. CASE Plane \/ UNCHANGED vars
  BY <1>1, <1>c DEF Plane, vars, postRevision, ChangeGroups, StartSigning, RotateKey,
     RetireKey, StopSigning, Configure, historyVars
<1>2. ASSUME NEW p, NEW content, Crash \/ Edit(p, content) PROVE DiskFollows'
  <2>1. excused'
    BY <1>2 DEF Crash, Edit
  <2> QED
    BY <2>1, DiskFollowsNext
<1>3. ASSUME NEW chosen, Enroll(chosen) \/ EnrollInterrupted(chosen) PROVE DiskFollows'
  <2>1. [ZeroState EXCEPT !.files = state.files].files = state.files
    BY ZeroTypes DEF State
  <2> QED
    BY <1>3, <1>c, <2>1 DEF Enroll, EnrollInterrupted
<1>4. CASE LoseState
  <2>1. cyc'.wrote = NoFiles
    BY <1>4 DEF LoseState, TypeInv, CycleShape, IdleCycle
  <2>2. state'.files = NoFiles
    BY <1>4 DEF LoseState, ZeroState
  <2> QED
    BY <2>1, <2>2, DiskFollowsNext DEF Follows, NoFiles
<1>5. CASE BeginCycle
  <2>1. cyc'.wrote = cyc.wrote
    BY <1>0, <1>5 DEF BeginCycle, Cycle
  <2> QED
    BY <1>5, <1>c, <2>1 DEF BeginCycle, historyVars
<1>6. CASE Fetch
  <2>0. cyc.wrote = NoFiles
    BY <1>6 DEF TypeInv, CycleShape, Fetch, FetchFails, FetchRefused, FetchUnchanged,
       FetchOlder, FetchBundle
  <2>1. ASSUME NEW kind, NEW cost, Fail(kind, NoFiles, cost), disk' = disk PROVE DiskFollows'
    BY <1>0, <1>a, <2>0, <2>1, FailFollows
  <2>2. ASSUME NEW a, NEW cost, FetchUnchanged(a, cost) PROVE DiskFollows'
    <3>1. PICK lost \in BOOLEAN :
            /\ state' = IF lost THEN state ELSE [state EXCEPT !.error = ""]
            /\ excused' = (excused \/ lost)
      BY <2>2 DEF FetchUnchanged
    <3>2. state'.files = state.files
      BY <3>1 DEF TypeInv, TypeOK, State
    <3>3. cyc'.wrote = NoFiles /\ disk' = disk
      BY <2>2 DEF FetchUnchanged, IdleCycle
    <3> QED
      BY <1>a, <2>0, <3>1, <3>2, <3>3, DiskFollowsNext
  <2>3. ASSUME NEW a, NEW cost, NEW unrendered, FetchBundle(a, cost, unrendered)
        PROVE  DiskFollows'
    BY <1>0, <1>c, <2>3 DEF FetchBundle, Cycle
  <2> QED
    BY <1>6, <2>1, <2>2, <2>3 DEF Fetch, FetchFails, FetchRefused, FetchOlder
<1>7. ASSUME NEW p \in Files, WriteAgentFile(p) PROVE DiskFollows'
  <2>1. Rendering(p, cyc.got.bundle) # None
    BY <1>7, <1>b, FilesAssumption DEF WriteAgentFile, Past
  <2>2. cyc'.wrote = [cyc.wrote EXCEPT ![p] = Rendering(p, cyc.got.bundle)]
    BY <1>0, <1>7 DEF WriteAgentFile, Cycle
  <2> QED
    BY <1>0, <1>7, <1>d, <2>1, <2>2 DEF WriteAgentFile, historyVars
<1>8. ASSUME NEW p \in Files, NEW landed \in BOOLEAN, AgentWriteFails(p, landed) PROVE DiskFollows'
  <2> DEFINE content == Rendering(p, cyc.got.bundle)
  <2>1. content # None
    BY <1>8, <1>b, FilesAssumption DEF AgentWriteFails, Past
  <2>2. CASE landed
    <3>1. /\ cyc'.wrote = [cyc.wrote EXCEPT ![p] = content]
          /\ disk' = [disk EXCEPT ![p] = content]
          /\ UNCHANGED <<state, excused>>
      BY <1>0, <1>8, <2>2 DEF AgentWriteFails, Cycle, historyVars
    <3> HIDE DEF content
    <3> QED
      BY <1>0, <1>d, <2>1, <3>1
  <2>3. CASE ~landed
    BY <1>0, <1>8, <1>c, <2>3 DEF AgentWriteFails, Cycle, Recorded, historyVars
  <2> QED
    BY <2>2, <2>3
<1>9. CASE WriteBundle
  <2>1. cyc'.wrote = [cyc.wrote EXCEPT !["bundle"] = cyc.got.bundle]
    BY <1>0, <1>9 DEF WriteBundle, Cycle
  <2>2. cyc.got.bundle # None
    BY <1>9, <1>b DEF WriteBundle, Past
  <2> QED
    BY <1>0, <1>9, <1>d, <2>1, <2>2 DEF WriteBundle, historyVars
<1>10. CASE BundleSiblingFails
  <2> DEFINE landed == [cyc.wrote EXCEPT !["bundle"] = cyc.got.bundle]
  <2>1. cyc.got.bundle # None /\ cyc.got.bundle \in Content
    BY <1>10, <1>b, ContentFacts DEF BundleSiblingFails, Past
  <2>2. landed \in Recorded
    BY <1>0, <2>1 DEF Recorded
  <2>3. disk' = [disk EXCEPT !["bundle"] = cyc.got.bundle] /\ Fail("write", landed, 1)
    BY <1>10 DEF BundleSiblingFails
  <2>4. ~excused => Follows(landed, state.files, disk')
    BY <1>0, <1>a, <2>1, <2>3, OneMoreFile
  <2> HIDE DEF landed
  <2> QED
    BY <2>2, <2>3, <2>4, FailFollows
<1>11. ASSUME NEW p \in {"sig", "trust"}, RemoveStale(p) PROVE DiskFollows'
  <2>1. cyc'.wrote = cyc.wrote /\ UNCHANGED <<state, excused>> /\ disk' = [disk EXCEPT ![p] = None]
    BY <1>0, <1>11 DEF RemoveStale, Cycle, historyVars
  <2>2. ~excused' => Follows(cyc.wrote, state.files, disk')
    BY <1>0, <1>a, <2>1 DEF Follows, Recorded
  <2> QED
    BY <2>1, <2>2, DiskFollowsNext
<1>12. CASE WriteSignature
  <2> DEFINE line == [key |-> Verifier(machine.pin, cyc.got), bundle |-> cyc.got.bundle]
  <2>1. line # None
    <3>1. line \in Signature
      BY <1>12, <1>b, VerifierType DEF WriteSignature, Past, Signature
    <3> QED
      BY <3>1, NoneAssumption
  <2>2. /\ cyc'.wrote = [cyc.wrote EXCEPT !["sig"] = line]
        /\ disk' = [disk EXCEPT !["sig"] = line]
        /\ UNCHANGED <<state, excused>>
    BY <1>0, <1>12 DEF WriteSignature, Cycle, historyVars
  <2> HIDE DEF line
  <2> QED
    BY <1>0, <1>d, <2>1, <2>2
<1>13. CASE WriteTrust
  <2> DEFINE key == Verifier(machine.pin, cyc.got)
  <2>2. /\ cyc'.wrote = [cyc.wrote EXCEPT !["trust"] = key]
        /\ disk' = [disk EXCEPT !["trust"] = key]
        /\ UNCHANGED <<state, excused>>
    BY <1>0, <1>13 DEF WriteTrust, Cycle, historyVars
  <2> HIDE DEF key
  <2>3. CASE key # None
    BY <1>0, <1>d, <2>2, <2>3
  <2>4. CASE key = None
    <3>1. ~excused' => Follows(cyc'.wrote, state'.files, disk')
      BY <1>0, <1>a, <2>2, <2>4 DEF Follows, Recorded
    <3> QED
      BY <3>1, DiskFollowsNext
  <2> QED
    BY <2>3, <2>4
<1>14. CASE StateWriteFails
  BY <1>0, <1>a, <1>14, FailFollows DEF StateWriteFails
<1>15. ASSUME NEW gone \in SUBSET Files, FinishCycle(gone) PROVE DiskFollows'
  <2>1. PICK lost \in BOOLEAN :
          /\ state' = IF lost THEN state ELSE CycleState(gone)
          /\ excused' = (excused \/ lost)
    BY <1>15 DEF FinishCycle
  <2>2. SUFFICES ASSUME ~excused' PROVE Follows(cyc'.wrote, state'.files, disk')
    BY DiskFollowsNext
  <2>3. ~excused /\ state' = CycleState(gone)
    BY <2>1, <2>2
  <2>4. state'.files = FilesLeft(gone)
    BY <2>3 DEF CycleState
  <2>5. cyc'.wrote = NoFiles
    BY <1>15 DEF FinishCycle, IdleCycle
  <2>6. \A p \in Paths : disk'[p] \in {disk[p], None}
    BY <1>15 DEF FinishCycle
  <2>7. ASSUME NEW p \in Paths, FilesLeft(gone)[p] # None
        PROVE  FilesLeft(gone)[p] = IF cyc.wrote[p] # None THEN cyc.wrote[p] ELSE state.files[p]
    BY <2>7 DEF FilesLeft
  <2> QED
    BY <1>a, <2>3, <2>4, <2>5, <2>6, <2>7 DEF Follows, NoFiles
<1> QED
  BY <1>1, <1>2, <1>3, <1>4, <1>5, <1>6, <1>7, <1>8, <1>9, <1>10, <1>11, <1>12, <1>13,
     <1>14, <1>15 DEF Next, Once, Write, Disturb

\* As long as nobody edits a file, nothing crashes and no save is lost, aw-sync never
\* mistakes what it wrote itself for an edit, however many writes fail in a cycle,
\* because a failed cycle records the hashes of what had landed (sync.go, fail).
THEOREM OwnWritesTrusted == Spec => []OwnWritesAreNotDrift
<1>1. Init => TypeInv /\ DiskFollows
  <2>1. IdleCycle.wrote = NoFiles /\ ZeroState.files = NoFiles
    BY DEF IdleCycle, ZeroState
  <2>2. Init => DiskFollows
    BY <2>1 DEF Init, DiskFollows, LastWritten, NoFiles
  <2> QED
    BY <2>2, InitTypeInv
<1>2. TypeInv /\ DiskFollows /\ [Next]_vars => TypeInv' /\ DiskFollows'
  BY NextTypeInv, DiskFollowsStep
<1>3. TypeInv /\ DiskFollows => OwnWritesAreNotDrift
  <2>1. SUFFICES ASSUME TypeInv, DiskFollows, cyc.pc = "idle", ~excused, NEW p \in Drifted
                 PROVE  disk[p] = None
    BY DEF OwnWritesAreNotDrift
  <2>2. cyc.wrote = NoFiles
    BY <2>1 DEF TypeInv, CycleShape, IdleCycle
  <2>3. p \in Paths /\ state.files[p] # None /\ disk[p] # state.files[p]
    BY <2>1 DEF Drifted
  <2> QED
    BY <2>1, <2>2, <2>3 DEF DiskFollows, LastWritten, NoFiles
<1> QED
  BY <1>1, <1>2, <1>3, PTL DEF Spec

-----------------------------------------------------------------------------
(***************************************************************************)
(* What a full cycle leaves behind.                                        *)
(***************************************************************************)

\* A cycle writes the enrolled agents' files and nobody else's.
WroteOwned ==
  cyc.pc \in Past =>
    \A p \in Files : p \in cyc.todo \/ cyc.wrote[p] # None => Owner[p] \in machine.agents

\* The write loop only takes files off its list.
LEMMA WriteOwned ==
  ASSUME TypeInv, WroteOwned, Write, Writing PROVE WroteOwned'
<1>0. /\ cyc \in Cycle /\ cyc.wrote \in [Paths -> Content] /\ machine' = machine
      /\ Files \subseteq Paths /\ \A p \in Files : p \notin {"bundle", "sig", "trust"}
  BY FilesAssumption DEF TypeInv, TypeOK, Cycle, Recorded, Paths, StateFiles, Writing
<1>1. ASSUME NEW p \in Files, p \in cyc'.todo \/ cyc'.wrote[p] # None
      PROVE  p \in cyc.todo \/ cyc.wrote[p] # None
  <2>1. ASSUME NEW q \in Files, WriteAgentFile(q) PROVE p \in cyc.todo \/ cyc.wrote[p] # None
    BY <1>0, <1>1, <2>1 DEF WriteAgentFile, Cycle
  <2>2. ASSUME NEW q \in Files, NEW landed \in BOOLEAN, AgentWriteFails(q, landed)
        PROVE  p \in cyc.todo \/ cyc.wrote[p] # None
    BY <1>0, <1>1, <2>2 DEF AgentWriteFails, Cycle
  <2>3. CASE WriteBundle
    BY <1>0, <1>1, <2>3 DEF WriteBundle, Cycle
  <2>4. ASSUME NEW q \in {"sig", "trust"}, NEW line,
               cyc'.todo = cyc.todo, cyc'.wrote = [cyc.wrote EXCEPT ![q] = line]
        PROVE  p \in cyc.todo \/ cyc.wrote[p] # None
    BY <1>0, <1>1, <2>4
  <2>7. CASE WriteSignature
    <3>1. /\ cyc'.todo = cyc.todo
          /\ cyc'.wrote = [cyc.wrote EXCEPT !["sig"] =
                 [key |-> Verifier(machine.pin, cyc.got), bundle |-> cyc.got.bundle]]
      BY <1>0, <2>7 DEF WriteSignature, Cycle
    <3> QED
      BY <2>4, <3>1
  <2>8. CASE WriteTrust
    <3>1. /\ cyc'.todo = cyc.todo
          /\ cyc'.wrote = [cyc.wrote EXCEPT !["trust"] = Verifier(machine.pin, cyc.got)]
      BY <1>0, <2>8 DEF WriteTrust, Cycle
    <3> QED
      BY <2>4, <3>1
  <2>5. ASSUME NEW q, RemoveStale(q) PROVE p \in cyc.todo \/ cyc.wrote[p] # None
    BY <1>0, <1>1, <2>5 DEF RemoveStale, Cycle
  <2>6. CASE BundleSiblingFails \/ StateWriteFails
    <3>1. cyc' = IdleCycle
      BY <2>6, FailEnds DEF BundleSiblingFails, StateWriteFails
    <3> QED
      BY <3>1 DEF Writing, IdleCycle, Past
  <2> QED
    BY <2>1, <2>2, <2>3, <2>5, <2>6, <2>7, <2>8 DEF Write
<1> QED
  BY <1>0, <1>1 DEF WroteOwned, Writing

LEMMA WroteOwnedStep == ASSUME TypeInv, WroteOwned, [Next]_vars PROVE WroteOwned'
<1>a. ASSUME cyc'.pc \in {"idle", "fetch"} PROVE WroteOwned'
  BY <1>a DEF WroteOwned, Past
<1>b. ASSUME cyc' = IdleCycle PROVE WroteOwned'
  BY <1>a, <1>b DEF IdleCycle
<1>1. CASE Plane \/ Disturb \/ UNCHANGED vars
  <2>1. CASE cyc' = cyc /\ cyc.pc = "idle"
    BY <1>a, <2>1
  <2>2. CASE cyc' = cyc /\ machine' = machine
    BY <2>2 DEF WroteOwned
  <2> QED
    BY <1>1, <1>b, <2>1, <2>2, OtherSteps
<1>2. CASE BeginCycle
  BY <1>a, <1>2 DEF BeginCycle, TypeInv, TypeOK, Cycle
<1>3. CASE Fetch
  <2>1. ASSUME NEW a, NEW cost, NEW unrendered \in SUBSET Agents,
               FetchBundle(a, cost, unrendered)
        PROVE  WroteOwned'
    <3>1. /\ cyc'.wrote = NoFiles /\ machine' = machine
          /\ cyc'.todo = {p \in Files : Owner[p] \in machine.agents \ unrendered}
      BY <2>1, FetchBundleStep
    <3> QED
      BY <3>1 DEF WroteOwned, NoFiles, Paths
  <2> QED
    BY <1>3, <1>b, <2>1, FetchSteps
<1>4. CASE Write
  BY <1>4, <1>b, WriteSteps, WriteOwned
<1>5. ASSUME NEW gone \in SUBSET Files, FinishCycle(gone) PROVE WroteOwned'
  BY <1>b, <1>5 DEF FinishCycle
<1> QED
  BY <1>1, <1>2, <1>3, <1>4, <1>5 DEF Next, Once

\* A cycle ends with nothing failed, lost or left over, and what it wrote still there.
FullCycle ==
  /\ FinishCycle(Prunable)
  /\ state' = CycleState(Prunable)
  /\ cyc.failed = {}
  /\ cyc.got.bundle = ServedBundle
  /\ StaleFiles = {}
  /\ \A p \in Paths : cyc.wrote[p] # None => disk[p] = cyc.wrote[p]

LEMMA FullCycleHolds ==
  ASSUME TypeInv, Written, FullCycle
  PROVE  Holds(ServedBundle)'
<1> DEFINE b == cyc.got.bundle
<1>0. /\ cyc.got \in Answer /\ b \in Bundle /\ cyc.pc \in {"stale", "finish"}
      /\ Files \subseteq Paths /\ {"bundle", "sig", "trust"} \subseteq Paths
      /\ {"bundle", "sig", "trust"} \cap Files = {}
  BY FilesAssumption
     DEF FullCycle, FinishCycle, TypeInv, CycleShape, Past, Answer, Paths, StateFiles
<1>1. ServedBundle' = b
  BY DEF FullCycle, FinishCycle, planeVars, ServedBundle
<1>2. /\ machine'.agents = machine.agents
      /\ machine'.pin # NoKey => machine.pin # NoKey
  BY <1>0, RepinType DEF FullCycle, FinishCycle, TypeInv, TypeOK
<1>3. ASSUME NEW p \in Paths, p \notin Prunable, cyc.wrote[p] # None
      PROVE  disk'[p] = cyc.wrote[p]
  BY <1>3 DEF FullCycle, FinishCycle
<1>4. disk'["bundle"] = b
  <2>1. cyc.wrote["bundle"] = b /\ b # None /\ "bundle" \notin Prunable
    BY <1>0, NoneAssumption DEF Written, Past, Prunable
  <2> QED
    BY <1>0, <1>3, <2>1
<1>5. ASSUME NEW p \in Files, Owner[p] \in machine'.agents
      PROVE  disk'[p] = Rendering(p, b)
  <2>1. cyc.wrote[p] = Rendering(p, b) /\ p \notin Prunable
    BY <1>0, <1>2, <1>5 DEF FullCycle, Written, Past, Prunable, Keep, Planned
  <2>2. Rendering(p, b) # None
    BY <1>0, FilesAssumption
  <2> QED
    BY <1>0, <1>3, <2>1, <2>2
<1>6. ASSUME machine'.pin # NoKey
      PROVE  VerifyFiles(disk'["trust"], disk'["bundle"], disk'["sig"])
  <2>1. machine.pin # NoKey /\ cyc.pc = "finish"
    BY <1>2, <1>6 DEF FullCycle, FinishCycle
  <2>2. /\ cyc.wrote["trust"] = Verifier(machine.pin, cyc.got)
        /\ cyc.wrote["sig"] = [key |-> Verifier(machine.pin, cyc.got), bundle |-> b]
    BY <2>1 DEF Written, Past
  <2>3. Verifier(machine.pin, cyc.got) \in Keys
    BY <2>1, VerifierType DEF Past
  <2>4. cyc.wrote["sig"] # None /\ cyc.wrote["trust"] # None
    BY <1>0, <2>2, <2>3, NoneAssumption DEF Signature
  <2>5. "sig" \notin Prunable /\ "trust" \notin Prunable
    BY <1>0 DEF Prunable
  <2>6. /\ disk'["trust"] = Verifier(machine.pin, cyc.got)
        /\ disk'["sig"] = [key |-> Verifier(machine.pin, cyc.got), bundle |-> b]
    BY <1>0, <1>3, <2>2, <2>4, <2>5
  <2> QED
    BY <1>4, <2>3, <2>6 DEF VerifyFiles
<1> HIDE DEF b
<1> QED
  BY <1>1, <1>4, <1>5, <1>6 DEF Holds

LEMMA FullCycleInForce ==
  ASSUME TypeInv, Written, WroteOwned, FullCycle
  PROVE  InForce'
<1>0. /\ cyc.got \in Answer /\ cyc.pc \in Past
      /\ Files \subseteq Paths /\ {"sig", "trust"} \subseteq Paths
      /\ {"sig", "trust"} \cap Files = {}
  BY FilesAssumption DEF FullCycle, FinishCycle, TypeInv, CycleShape, Past, Paths, StateFiles
<1>1. /\ machine'.agents = machine.agents
      /\ machine'.pin = NoKey <=> machine.pin = NoKey
  <2>1. cyc.got.by # NoKey => <<cyc.got.by, cyc.got.key>> \in announced
    BY <1>0, NoneAssumption DEF TypeInv, Handovers
  <2> QED
    BY <1>0, <2>1, RepinKeepsPinned DEF FullCycle, FinishCycle
<1>2. ASSUME machine'.pin = NoKey PROVE disk'["sig"] = None /\ disk'["trust"] = None
  <2>1. disk["sig"] = None /\ disk["trust"] = None
    BY <1>1, <1>2 DEF FullCycle, StaleFiles
  <2> QED
    BY <1>0, <2>1 DEF FullCycle, FinishCycle
<1>3. state'.error = "" /\ state'.files = FilesLeft(Prunable)
  BY DEF FullCycle, CycleState
<1>4. ASSUME NEW p \in Files, Owner[p] \notin machine.agents PROVE FilesLeft(Prunable)[p] = None
  <2>1. cyc.wrote[p] = None
    BY <1>0, <1>4 DEF WroteOwned
  <2>2. p \notin Keep
    BY <1>4 DEF Keep, Planned, UnderFailedRoot, FullCycle
  <2> QED
    BY <1>0, <2>1, <2>2 DEF FilesLeft
<1>5. Orphans' = {}
  BY <1>1, <1>3, <1>4 DEF Orphans
<1> QED
  BY <1>2, <1>3, <1>5, FullCycleHolds DEF InForce

\* The half of Converges that is not about time: however the machine stood before, a
\* cycle of the served bundle that runs to its end undisturbed puts it in force, with
\* the signature it verified, every enrolled agent's files, nothing recorded for agents
\* dropped and no error (sync.go, Run).
THEOREM FullCyclePutsInForce == Spec => [][FullCycle => InForce']_vars
<1>1. Init => TypeInv /\ Written /\ WroteOwned
  <2>0. IdleCycle.pc = "idle"
    BY DEF IdleCycle
  <2>1. Init => Written /\ WroteOwned
    BY <2>0 DEF Init, Written, WroteOwned, Past
  <2> QED
    BY <2>1, InitTypeInv
<1>2. TypeInv /\ Written /\ WroteOwned /\ [Next]_vars => TypeInv' /\ Written' /\ WroteOwned'
  BY NextTypeInv, WrittenStep, WroteOwnedStep
<1>3. TypeInv /\ Written /\ WroteOwned => [FullCycle => InForce']_vars
  BY FullCycleInForce
<1> QED
  BY <1>1, <1>2, <1>3, PTL DEF Spec

-----------------------------------------------------------------------------
(***************************************************************************)
(* The cycle implements PolicyDelivery.                                    *)
(***************************************************************************)

\* Nothing the abstract run can see moves, but that an answer may come again.
Unseen ==
  /\ ~Underway /\ ~Underway'
  /\ UNCHANGED <<policy, slice, disk, torn>>
  /\ UNCHANGED <<state.etag, state.revisedAt, state.files, machine.agents>>
  /\ machine'.pin = NoKey <=> machine.pin = NoKey
  /\ answers' \in {answers, answers \cup {getBundle(ServedBundle, signer, cyc.ask)}}

LEMMA UnderwayIsPast == TypeInv => (Underway <=> cyc.pc \in Past)
BY DEF Underway, Past, TypeInv, TypeOK, Cycle, Stages

LEMMA IdleIsNotUnderway == ASSUME cyc' = IdleCycle PROVE ~Underway' /\ InHand' = None
BY DEF IdleCycle, Underway, InHand

\* A failure before anything was written records the error and nothing else.
LEMMA FailQuiet ==
  ASSUME TypeInv, NEW kind, NEW cost, Fail(kind, NoFiles, cost)
  PROVE  /\ UNCHANGED <<state.etag, state.revisedAt, state.files, torn>>
         /\ cyc' = IdleCycle
<1>1. PICK lost \in BOOLEAN :
        /\ state' = IF lost THEN state
                    ELSE [state EXCEPT !.error = kind, !.files = Merge(@, NoFiles)]
        /\ torn' = (torn \/ (~lost /\ NoFiles # NoFiles))
        /\ cyc' = IdleCycle
  BY DEF Fail
<1>2. state \in State /\ torn \in BOOLEAN
  BY DEF TypeInv, TypeOK
<1>3. Merge(state.files, NoFiles) = state.files
  BY <1>2 DEF Merge, NoFiles, State, Recorded
<1> QED
  BY <1>1, <1>2, <1>3 DEF State

LEMMA DeliveredAgain ==
  ASSUME NEW a, NEW cost, Delivered(a, cost)
  PROVE  answers' \in {answers, answers \cup {getBundle(ServedBundle, signer, cyc.ask)}}
BY DEF Delivered

LEMMA UnseenFetch ==
  ASSUME TypeInv, Fetch,
         ~ \E a, cost : \E unrendered \in SUBSET Agents : FetchBundle(a, cost, unrendered)
  PROVE  Unseen
<1>1. CASE FetchFails
  <2>1. UNCHANGED <<state.etag, state.revisedAt, state.files, torn>> /\ cyc' = IdleCycle
    BY <1>1, FailQuiet DEF FetchFails
  <2> QED
    BY <1>1, <2>1, IdleIsNotUnderway DEF FetchFails, Unseen, Underway, planeVars
<1>2. ASSUME NEW a, NEW cost, FetchRefused(a, cost) PROVE Unseen
  <2>1. UNCHANGED <<state.etag, state.revisedAt, state.files, torn>> /\ cyc' = IdleCycle
    BY <1>2, FailQuiet DEF FetchRefused
  <2>2. answers' \in {answers, answers \cup {getBundle(ServedBundle, signer, cyc.ask)}}
    BY <1>2, DeliveredAgain DEF FetchRefused
  <2> QED
    BY <1>2, <2>1, <2>2, IdleIsNotUnderway DEF FetchRefused, Unseen, Underway, planeVars
<1>3. ASSUME NEW a, NEW cost, FetchUnchanged(a, cost) \/ FetchOlder(a, cost) PROVE Unseen
  <2>1. a \in Answer /\ (a.by # NoKey => <<a.by, a.key>> \in announced)
    BY <1>3, DeliveredType DEF FetchUnchanged, FetchOlder
  <2>2. /\ machine'.agents = machine.agents
        /\ machine'.pin = NoKey <=> machine.pin = NoKey
    BY <1>3, <2>1, RepinKeepsPinned DEF FetchUnchanged, FetchOlder
  <2>3. UNCHANGED <<state.etag, state.revisedAt, state.files, torn>> /\ cyc' = IdleCycle
    <3>1. CASE FetchUnchanged(a, cost)
      BY <3>1 DEF FetchUnchanged, TypeInv, TypeOK, State
    <3>2. CASE FetchOlder(a, cost)
      BY <3>2, FailQuiet DEF FetchOlder
    <3> QED
      BY <1>3, <3>1, <3>2
  <2>4. answers' \in {answers, answers \cup {getBundle(ServedBundle, signer, cyc.ask)}}
    BY <1>3, DeliveredAgain DEF FetchUnchanged, FetchOlder
  <2>5. ~Underway /\ UNCHANGED <<policy, slice, disk>>
    BY <1>3 DEF FetchUnchanged, FetchOlder, Underway, planeVars
  <2> QED
    BY <2>2, <2>3, <2>4, <2>5, IdleIsNotUnderway DEF Unseen
<1> QED
  BY <1>1, <1>2, <1>3 DEF Fetch

LEMMA UnseenDelivers ==
  ASSUME TypeInv, Unseen, Delivery!Honest'
  PROVE  [Delivery!DeliveryNext]_(Delivery!deliveryVars)
<1>1. ServedBundle' = ServedBundle
  BY DEF Unseen, ServedBundle
<1>2. InHand' = InHand
  BY DEF Unseen, InHand
<1>3. Held' = Held
  BY DEF Unseen, Held, Holds
<1>4. Clean' = Clean
  BY DEF Unseen, Clean, Drifted
<1>5. UNCHANGED <<state.etag, state.revisedAt>> /\ (machine.pin # NoKey)' = (machine.pin # NoKey)
  BY DEF Unseen
<1>6. Late' = Late \/ Late' = Late \cup {ServedBundle}
  BY DEF Unseen, Late, getBundle
<1> QED
  BY <1>1, <1>2, <1>3, <1>4, <1>5, <1>6
     DEF Delivery!DeliveryNext, Delivery!Linger, Delivery!deliveryVars

LEMMA PlaneDelivers ==
  ASSUME TypeInv, TypeInv', Plane, Delivery!Honest'
  PROVE  [Delivery!DeliveryNext]_(Delivery!deliveryVars)
<1>1. UNCHANGED <<machine, state, disk, cyc, answers, torn>>
  BY DEF Plane, postRevision, ChangeGroups, StartSigning, RotateKey, RetireKey,
     StopSigning, Configure, historyVars
<1>2. UNCHANGED <<Late, InHand, Held, Clean, state.etag, state.revisedAt>>
      /\ (machine.pin # NoKey)' = (machine.pin # NoKey)
  BY <1>1 DEF Late, InHand, Underway, Held, Holds, Clean, Drifted
<1>3. ServedBundle' \in Bundle
  BY DEF TypeInv, TypeOK, ServedBundle, Bundle
<1>4. Delivery!Publish
  BY <1>2, <1>3 DEF Delivery!Publish
<1> QED
  BY <1>4 DEF Delivery!DeliveryNext

LEMMA FetchBundleDelivers ==
  ASSUME TypeInv, NEW a, NEW cost, NEW unrendered \in SUBSET Agents,
         FetchBundle(a, cost, unrendered), Delivery!Honest'
  PROVE  Delivery!DeliveryNext
<1>0. /\ a \in Answer /\ cyc'.pc = "agents" /\ cyc'.got = a /\ ~Older(a)
      /\ UNCHANGED <<machine, state, disk, torn>>
  BY FetchBundleStep
<1>1. InHand = None /\ InHand' = a.bundle /\ ~Clean'
  BY <1>0 DEF InHand, Underway, Clean, FetchBundle
<1>2. ServedBundle' = ServedBundle
  BY DEF FetchBundle, planeVars, ServedBundle
<1>3. a.bundle \in {ServedBundle} \cup Late /\ Late' \in {Late, Late \cup {a.bundle}}
  BY DEF FetchBundle, Delivered, Late, getBundle
<1>4. machine.pin # NoKey => a.bundle.revisedAt >= state.revisedAt
  <2>1. a.bundle.revisedAt \in Int /\ state.revisedAt \in Int
    BY <1>0 DEF Answer, Bundle, TypeInv, TypeOK, State
  <2> QED
    BY <1>0, <2>1 DEF Older
<1>5. UNCHANGED <<Held, state.etag, state.revisedAt>>
      /\ (machine.pin # NoKey)' = (machine.pin # NoKey)
  BY <1>0 DEF Held, Holds
<1>6. Clean' = FALSE
  BY <1>1 DEF Clean
<1>7. Delivery!Take(a.bundle)
  BY <1>1, <1>2, <1>3, <1>4, <1>5, <1>6 DEF Delivery!Take
<1>8. a.bundle \in Bundle
  BY <1>0 DEF Answer
<1> QED
  BY <1>7, <1>8 DEF Delivery!DeliveryNext

\* A step that changes files, and nothing of what is recorded.
LEMMA TouchDelivers ==
  ASSUME UNCHANGED <<policy, slice, answers, InHand, state.etag, state.revisedAt, machine>>,
         Delivery!Honest'
  PROVE  Delivery!DeliveryNext
<1>1. ServedBundle' = ServedBundle /\ Late' = Late
  BY DEF ServedBundle, Late
<1>2. Held' \subseteq Bundle /\ Clean' \in BOOLEAN
  BY DEF Held, Clean
<1>3. Delivery!Touch
  BY <1>1, <1>2 DEF Delivery!Touch
<1> QED
  BY <1>3 DEF Delivery!DeliveryNext

\* A cycle that is over without anything recorded, whatever it wrote.
LEMMA GiveUpDelivers ==
  ASSUME TypeInv, cyc.pc \in Past, cyc' = IdleCycle,
         UNCHANGED <<policy, slice, answers, state.etag, state.revisedAt>>,
         machine'.pin = NoKey <=> machine.pin = NoKey, Delivery!Honest'
  PROVE  Delivery!DeliveryNext
<1>1. ServedBundle' = ServedBundle /\ Late' = Late
  BY DEF ServedBundle, Late
<1>2. Held' \subseteq Bundle /\ Clean' \in BOOLEAN
  BY DEF Held, Clean
<1>3. InHand # None /\ InHand' = None
  BY IdleIsNotUnderway, NoneAssumption DEF InHand, Underway, Past, TypeInv, CycleShape, Answer
<1>4. (machine.pin # NoKey)' = (machine.pin # NoKey)
  OBVIOUS
<1>5. Delivery!GiveUp
  BY <1>1, <1>2, <1>3, <1>4 DEF Delivery!GiveUp
<1> QED
  BY <1>5 DEF Delivery!DeliveryNext

LEMMA WriteDelivers ==
  ASSUME TypeInv, Write, Delivery!Honest'
  PROVE  Delivery!DeliveryNext
<1>1. UNCHANGED <<policy, slice, answers, machine>>
  BY DEF Write, WriteAgentFile, AgentWriteFails, WriteBundle, BundleSiblingFails, RemoveStale,
     WriteSignature, WriteTrust, StateWriteFails, planeVars, historyVars
<1>2. CASE BundleSiblingFails \/ StateWriteFails
  <2>1. UNCHANGED <<state.etag, state.revisedAt>> /\ cyc' = IdleCycle
    BY <1>2, FailRevisedAt, FailEnds DEF BundleSiblingFails, StateWriteFails
  <2>2. cyc.pc \in Past
    BY <1>2 DEF BundleSiblingFails, StateWriteFails, Past
  <2> QED
    BY <1>1, <2>1, <2>2, GiveUpDelivers
<1>3. CASE Writing
  <2>1. InHand' = InHand /\ UNCHANGED state
    BY <1>3 DEF Writing, InHand, Underway, Past
  <2> QED
    BY <1>1, <2>1, TouchDelivers
<1> QED
  BY <1>2, <1>3, WriteSteps

LEMMA FinishDelivers ==
  ASSUME TypeInv, NEW gone \in SUBSET Files, FinishCycle(gone), Delivery!Honest'
  PROVE  Delivery!DeliveryNext
<1>1. PICK pinLost \in BOOLEAN, lost \in BOOLEAN :
        /\ Repin(cyc.got, pinLost)
        /\ state' = IF lost THEN state ELSE CycleState(gone)
  BY DEF FinishCycle
<1>2. /\ cyc.pc \in Past /\ cyc' = IdleCycle /\ cyc.got \in Answer
      /\ UNCHANGED <<policy, slice, answers>>
  BY DEF FinishCycle, Past, planeVars, TypeInv, CycleShape
<1>3. machine'.pin = NoKey <=> machine.pin = NoKey
  <2>1. cyc.got.by # NoKey => <<cyc.got.by, cyc.got.key>> \in announced
    BY <1>2, NoneAssumption DEF TypeInv, Handovers
  <2> QED
    BY <1>1, <1>2, <2>1, RepinKeepsPinned
<1>4. CASE lost
  BY <1>1, <1>2, <1>3, <1>4, GiveUpDelivers
<1>5. CASE ~lost
  <2> DEFINE b == IF cyc.failed = {} THEN cyc.got.bundle ELSE None
  <2>1. InHand = cyc.got.bundle /\ InHand # None /\ InHand' = None
    BY <1>2, IdleIsNotUnderway, NoneAssumption DEF InHand, Underway, Past, Answer
  <2>2. b \in Bundle \cup {None} /\ b \in {InHand, None}
    BY <1>2, <2>1 DEF Answer
  <2>3. /\ state'.etag = b
        /\ state'.revisedAt = IF state.revisedAt < InHand.revisedAt THEN InHand.revisedAt
                              ELSE state.revisedAt
    BY <1>1, <1>5, <2>1 DEF CycleState, Later
  <2>4. ServedBundle' = ServedBundle /\ Late' = Late
    BY <1>2 DEF ServedBundle, Late
  <2>5. Held' \subseteq Bundle /\ Clean' \in BOOLEAN
    BY DEF Held, Clean
  <2>6. (machine.pin # NoKey)' = (machine.pin # NoKey)
    BY <1>3
  <2> HIDE DEF b
  <2>7. Delivery!Finish(b)
    BY <2>1, <2>2, <2>3, <2>4, <2>5, <2>6 DEF Delivery!Finish
  <2> QED
    BY <2>2, <2>7 DEF Delivery!DeliveryNext
<1> QED
  BY <1>4, <1>5

LEMMA DisturbDelivers ==
  ASSUME TypeInv, Disturb, Delivery!Honest'
  PROVE  [Delivery!DeliveryNext]_(Delivery!deliveryVars)
<1>0. UNCHANGED <<policy, slice, answers>>
  BY DEF Disturb, Enroll, EnrollInterrupted, Crash, Edit, LoseState, planeVars
<1>a. ServedBundle' = ServedBundle /\ Late' = Late
  BY <1>0 DEF ServedBundle, Late
<1>b. Held' \subseteq Bundle /\ (machine'.pin # NoKey) \in BOOLEAN
  BY DEF Held
<1>1. CASE Crash
  <2>1. cyc' = IdleCycle /\ UNCHANGED <<machine, state, disk, torn>> /\ cyc.pc # "idle"
    BY <1>1 DEF Crash
  <2>2. CASE cyc.pc \in Past
    BY <1>0, <2>1, <2>2, GiveUpDelivers
  <2>3. CASE cyc.pc \notin Past
    <3>1. ~Underway
      BY <2>3, UnderwayIsPast
    <3>2. Unseen
      BY <1>0, <2>1, <3>1, IdleIsNotUnderway DEF Unseen
    <3> QED
      BY <3>2, UnseenDelivers
  <2> QED
    BY <2>2, <2>3
<1>2. ASSUME NEW p \in Paths, NEW content, Edit(p, content) PROVE Delivery!DeliveryNext
  <2>1. UNCHANGED <<InHand, state, machine>>
    BY <1>2 DEF Edit, InHand, Underway
  <2> QED
    BY <1>0, <2>1, TouchDelivers
<1>3. ASSUME NEW chosen, Enroll(chosen) \/ EnrollInterrupted(chosen) \/ LoseState
      PROVE  Delivery!DeliveryNext
  <2>1. InHand = None /\ InHand' = None
    BY <1>3 DEF Enroll, EnrollInterrupted, LoseState, InHand, Underway
  <2>2. \/ UNCHANGED <<state.etag, state.revisedAt>>
        \/ state'.etag = None /\ state'.revisedAt = 0
    <3>1. [ZeroState EXCEPT !.files = state.files].etag = None
          /\ [ZeroState EXCEPT !.files = state.files].revisedAt = 0
      BY DEF ZeroState
    <3>2. ZeroState.etag = None /\ ZeroState.revisedAt = 0
      BY DEF ZeroState
    <3> QED
      BY <1>3, <3>1, <3>2 DEF Enroll, EnrollInterrupted, LoseState
  <2>3. Clean' = FALSE
    <3>1. [ZeroState EXCEPT !.files = state.files].etag = None /\ ZeroState.etag = None
      BY DEF ZeroState
    <3> QED
      BY <1>3, <3>1 DEF Enroll, EnrollInterrupted, LoseState, Clean
  <2>4. Delivery!Reenroll
    BY <1>a, <1>b, <2>1, <2>2, <2>3 DEF Delivery!Reenroll
  <2> QED
    BY <2>4 DEF Delivery!DeliveryNext
<1> QED
  BY <1>1, <1>2, <1>3 DEF Disturb

LEMMA NextDelivers ==
  ASSUME TypeInv, TypeInv', [Next]_vars, Delivery!Honest'
  PROVE  [Delivery!DeliveryNext]_(Delivery!deliveryVars)
<1>1. CASE UNCHANGED vars
  <2>1. UNCHANGED <<ServedBundle, Late, InHand, Held, Clean, state.etag, state.revisedAt>>
        /\ (machine.pin # NoKey)' = (machine.pin # NoKey)
    BY <1>1 DEF vars, ServedBundle, Late, InHand, Underway, Held, Holds, Clean, Drifted
  <2> QED
    BY <2>1 DEF Delivery!deliveryVars
<1>2. CASE BeginCycle
  <2>1. ~Underway /\ ~Underway'
    BY <1>2 DEF BeginCycle, Underway, TypeInv, TypeOK, Cycle
  <2>2. Unseen
    BY <1>2, <2>1 DEF BeginCycle, Unseen, planeVars, historyVars
  <2> QED
    BY <2>2, UnseenDelivers
<1>3. CASE Fetch
  BY <1>3, UnseenFetch, UnseenDelivers, FetchBundleDelivers
<1> QED
  BY <1>1, <1>2, <1>3, PlaneDelivers, WriteDelivers, FinishDelivers, DisturbDelivers
     DEF Next, Once

\* For any number of agents, files, keys and failures, the cycle that writes its files one
\* by one and may be cut short after each of them records one bundle at a time, the one it
\* fetched, never an older one on a pinned machine, and is never reported in sync without
\* holding the recorded bundle whole (sync.go, Run and fail; cmd/aw-sync, status).
THEOREM CycleDeliversPolicy == Spec => DeliversPolicy
<1>1. Init => TypeInv /\ Written /\ RecordedIsWhole
  <2>0. IdleCycle.pc = "idle" /\ ZeroState.etag = None
    BY DEF IdleCycle, ZeroState
  <2>1. Init => Written /\ RecordedIsWhole
    BY <2>0 DEF Init, Written, RecordedIsWhole, Past
  <2> QED
    BY <2>1, InitTypeInv
<1>2. /\ TypeInv /\ Written /\ RecordedIsWhole
      /\ [Next]_vars
      => TypeInv' /\ Written' /\ RecordedIsWhole'
  BY NextTypeInv, WrittenStep, RecordedStep
<1>3. TypeInv /\ RecordedIsWhole => Delivery!Honest
  <2>1. SUFFICES ASSUME TypeInv, RecordedIsWhole, Clean PROVE state.etag \in Held
    BY DEF Delivery!Honest
  <2>2. Holds(state.etag) /\ state.etag \in Bundle
    BY <2>1, WholeHolds DEF Clean, TypeInv, TypeOK, State
  <2> QED
    BY <2>2 DEF Held, Holds
<1>4. Init => Delivery!DeliveryInit
  <2>1. SUFFICES ASSUME Init PROVE Delivery!DeliveryInit
    OBVIOUS
  <2>2. ServedBundle \in Bundle
    BY <2>1, InitTypeInv, ServedTypes DEF TypeInv
  <2>3. IdleCycle.pc = "idle" /\ ZeroState.etag = None /\ ZeroState.revisedAt = 0
    BY DEF IdleCycle, ZeroState
  <2>4. Late = {} /\ InHand = None /\ Clean = FALSE /\ (machine.pin # NoKey) = FALSE
    BY <2>1, <2>3 DEF Init, Late, InHand, Underway, Clean
  <2>5. Held = {}
    <3>1. disk["bundle"] = None
      BY <2>1 DEF Init, NoFiles, Paths, StateFiles
    <3> QED
      BY <3>1, NoneAssumption DEF Held
  <2> QED
    BY <2>1, <2>2, <2>3, <2>4, <2>5 DEF Init, Delivery!DeliveryInit
<1>5. TypeInv /\ TypeInv' /\ Delivery!Honest' /\ [Next]_vars
        => [Delivery!DeliveryNext]_(Delivery!deliveryVars)
  BY NextDelivers
<1> QED
  BY <1>1, <1>2, <1>3, <1>4, <1>5, PTL DEF Spec, DeliversPolicy, Delivery!DeliverySpec
=============================================================================
