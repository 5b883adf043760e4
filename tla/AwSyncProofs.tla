---------------------------- MODULE AwSyncProofs ----------------------------
(***************************************************************************)
(* AwSync is type correct for every set of agents, files, keys and slices  *)
(* and for every bound.  The strengthening needed is small: a rollover     *)
(* always names a key that was announced, and past the fetch there is an   *)
(* answer in hand.  AwSyncSafety builds on it.                             *)
(***************************************************************************)
EXTENDS AwSync, TLAPS

\* The signer never announces a rollover without a key to hand over to.
Handovers ==
  /\ signer.previous # NoKey => <<signer.previous, signer.current>> \in announced
  /\ \A a \in answers : a.by # NoKey => <<a.by, a.key>> \in announced
  /\ cyc.got # None /\ cyc.got.by # NoKey => <<cyc.got.by, cyc.got.key>> \in announced

Past == {"agents", "stale", "trust", "finish"}

CycleShape ==
  /\ cyc.pc = "idle" => cyc = IdleCycle
  /\ cyc.pc = "fetch" => cyc.got = None /\ cyc.wrote = NoFiles
  /\ cyc.pc \in Past => cyc.got \in Answer
  /\ cyc.stale # {} => machine.pin = NoKey

TypeInv == TypeOK /\ Handovers /\ CycleShape

-----------------------------------------------------------------------------
LEMMA ContentFacts ==
  /\ None \in Content /\ Junk \in Content
  /\ \A b \in Bundle : b \in Content
  /\ \A k \in KeyOrNone : k \in Content
  /\ \A k \in Keys, b \in Bundle : [key |-> k, bundle |-> b] \in Content
  /\ \A p \in Files, b \in Bundle : Rendering(p, b) \in Content
BY DEF Content, Signature, KeyOrNone, NoKey

LEMMA ZeroTypes ==
  /\ NoFiles \in Recorded
  /\ ZeroState \in State
  /\ IdleCycle \in Cycle
<1>1. NoFiles \in Recorded
  BY ContentFacts DEF NoFiles, Recorded
<1>2. ZeroState \in State
  BY <1>1, BoundsAssumption DEF State, ZeroState, Errors
<1>3. IdleCycle \in Cycle
  BY <1>1 DEF Cycle, IdleCycle, Stages
<1> QED
  BY <1>1, <1>2, <1>3

LEMMA InitTypeInv == Init => TypeInv
<1> SUFFICES ASSUME Init PROVE TypeInv
  OBVIOUS
<1>1. state \in State /\ disk \in Recorded /\ cyc \in Cycle
  BY ZeroTypes DEF Init
<1>2. budget \in 0..MaxBudget
  BY FilesAssumption DEF Init
<1>3. machine \in Machine
  BY DEF Init, Machine, KeyOrNone
<1>4. signer \in [current: KeyOrNone, previous: KeyOrNone]
  BY DEF Init, KeyOrNone
<1>6. policy \in [version: 0..MaxVersion, revisedAt: 0..MaxTime]
  BY BoundsAssumption DEF Init
<1>7. TypeOK
  BY <1>1, <1>2, <1>3, <1>4, <1>6 DEF Init, TypeOK
<1>8. Handovers /\ CycleShape
  BY DEF Init, Handovers, CycleShape, IdleCycle, Past
<1> QED
  BY <1>7, <1>8 DEF TypeInv

-----------------------------------------------------------------------------
(***************************************************************************)
(* What the operators the actions are built from preserve.                 *)
(***************************************************************************)

\* A budget is paid for in whole numbers and never overdrawn.
LEMMA PayType ==
  ASSUME budget \in 0..MaxBudget, NEW n \in Nat, Pay(n)
  PROVE  budget' \in 0..MaxBudget
BY FilesAssumption DEF Pay

LEMMA CostType == ASSUME NEW lost PROVE Cost(lost) \in Nat
BY DEF Cost

LEMMA ServedTypes ==
  ASSUME TypeOK, NEW ask
  PROVE  /\ ServedBundle \in Bundle
         /\ getBundle(ServedBundle, signer, ask) \in Answer
<1>1. ServedBundle \in Bundle
  BY DEF TypeOK, ServedBundle, Bundle
<1>2. signer.current \in KeyOrNone /\ signer.previous \in KeyOrNone
  BY DEF TypeOK
<1> QED
  BY <1>1, <1>2 DEF getBundle, Answer

\* Every answer that can arrive is well formed, and announces only a real handover.
LEMMA DeliveredType ==
  ASSUME TypeInv, NEW a, NEW cost, Delivered(a, cost)
  PROVE  /\ a \in Answer
         /\ cost \in Nat
         /\ answers' \subseteq Answer
         /\ a.by # NoKey => <<a.by, a.key>> \in announced
         /\ \A b \in answers' : b.by # NoKey => <<b.by, b.key>> \in announced
<1>0. TypeOK /\ Handovers
  BY DEF TypeInv
<1>1. CASE a = getBundle(ServedBundle, signer, cyc.ask) /\ cost = 0
           /\ answers' = IF Replay /\ ~a.unchanged THEN answers \cup {a} ELSE answers
  <2>1. a \in Answer
    BY <1>0, <1>1, ServedTypes
  <2>2. a.by # NoKey => <<a.by, a.key>> \in announced
    BY <1>0, <1>1 DEF getBundle, Handovers
  <2>3. answers \subseteq Answer
    BY <1>0 DEF TypeOK
  <2> QED
    BY <1>0, <1>1, <2>1, <2>2, <2>3 DEF Handovers
<1>2. CASE a \in answers /\ cost = 1 /\ answers' = answers
  BY <1>0, <1>2 DEF TypeOK, Handovers
<1> QED
  BY <1>1, <1>2 DEF Delivered

LEMMA MergeType ==
  ASSUME NEW recorded \in Recorded, NEW landed \in Recorded
  PROVE  Merge(recorded, landed) \in Recorded
BY DEF Merge, Recorded

LEMMA FailType ==
  ASSUME TypeOK, NEW kind \in Errors, NEW landed \in Recorded, NEW cost \in Nat,
         Fail(kind, landed, cost)
  PROVE  /\ state' \in State
         /\ torn' \in BOOLEAN /\ excused' \in BOOLEAN
         /\ cyc' = IdleCycle
         /\ budget' \in 0..MaxBudget
<1>1. PICK lost \in BOOLEAN :
        /\ Pay(cost + Cost(lost))
        /\ state' = IF lost THEN state
                    ELSE [state EXCEPT !.error = kind, !.files = Merge(@, landed)]
        /\ torn' = (torn \/ (~lost /\ landed # NoFiles))
        /\ excused' = (excused \/ lost)
        /\ cyc' = IdleCycle
  BY DEF Fail
<1>2. budget' \in 0..MaxBudget
  <2>1. cost + Cost(lost) \in Nat
    BY CostType
  <2> QED
    BY <1>1, <2>1, PayType DEF TypeOK
<1>3. state' \in State
  <2>1. state.files \in Recorded
    BY DEF TypeOK, State
  <2>2. Merge(state.files, landed) \in Recorded
    BY <2>1, MergeType
  <2> QED
    BY <1>1, <2>2 DEF TypeOK, State
<1> QED
  BY <1>1, <1>2, <1>3 DEF TypeOK

LEMMA RepinType ==
  ASSUME machine \in Machine, NEW a \in Answer, NEW lost, Repin(a, lost)
  PROVE  /\ machine' \in Machine
         /\ machine'.agents = machine.agents
         /\ machine.pin = NoKey => machine'.pin = NoKey
BY DEF Repin, Machine, Answer, Rollover

-----------------------------------------------------------------------------
(***************************************************************************)
(* The type invariant is preserved.                                        *)
(***************************************************************************)

LEMMA PlaneTypeInv == ASSUME TypeInv, Plane PROVE TypeInv'
<1>0. TypeOK /\ Handovers /\ CycleShape
  BY DEF TypeInv
<1>1. ASSUME NEW now \in 1..MaxTime, postRevision(now) PROVE TypeInv'
  <2>1. policy' \in [version: 0..MaxVersion, revisedAt: 0..MaxTime]
    BY <1>0, <1>1, BoundsAssumption DEF TypeOK, postRevision
  <2> QED
    BY <1>0, <1>1, <2>1 DEF postRevision, historyVars, TypeInv, TypeOK, Handovers, CycleShape
<1>2. ASSUME NEW s \in Slices, ChangeGroups(s) PROVE TypeInv'
  <2>1. budget' \in 0..MaxBudget
    BY <1>0, <1>2, PayType DEF ChangeGroups, TypeOK
  <2> QED
    BY <1>0, <1>2, <2>1 DEF ChangeGroups, historyVars, TypeInv, TypeOK, Handovers, CycleShape
<1>3. ASSUME NEW k \in KeyOrNone, NEW l \in KeyOrNone, k = NoKey => l = NoKey, Configure(k, l)
      PROVE  TypeInv'
  <2>1. signer' \in [current: KeyOrNone, previous: KeyOrNone]
    BY <1>3 DEF Configure
  <2>2. announced' \subseteq Keys \X Keys
    BY <1>0, <1>3 DEF Configure, TypeOK, KeyOrNone
  <2>3. TypeOK'
    BY <1>0, <1>3, <2>1, <2>2 DEF Configure, historyVars, TypeOK
  <2>4. Handovers'
    BY <1>0, <1>3 DEF Configure, historyVars, Handovers
  <2> QED
    BY <1>0, <1>3, <2>3, <2>4 DEF Configure, TypeInv, CycleShape
<1>4. ASSUME NEW k \in Keys, StartSigning(k) PROVE TypeInv'
  BY <1>3, <1>4 DEF StartSigning, KeyOrNone
<1>5. ASSUME NEW k \in Keys, RotateKey(k) PROVE TypeInv'
  BY <1>0, <1>3, <1>5, NoneAssumption DEF RotateKey, KeyOrNone, NoKey, TypeOK
<1>6. RetireKey \/ StopSigning => TypeInv'
  BY <1>0, <1>3 DEF RetireKey, StopSigning, KeyOrNone, TypeOK
<1> QED
  BY <1>1, <1>2, <1>4, <1>5, <1>6 DEF Plane

LEMMA DisturbTypeInv == ASSUME TypeInv, Disturb PROVE TypeInv'
<1>0. TypeOK /\ Handovers /\ CycleShape
  BY DEF TypeInv
<1>1. ASSUME NEW chosen \in SUBSET Agents
      PROVE  EnrolledAs(chosen) \in Machine
  BY <1>0 DEF EnrolledAs, Machine, TypeOK
<1>3. ASSUME NEW chosen \in SUBSET Agents, Enroll(chosen) PROVE TypeInv'
  <2>1. budget' \in 0..MaxBudget
    BY <1>0, <1>3, CostType, PayType DEF Enroll, TypeOK
  <2>2. state' \in State
    BY <1>0, <1>3, ZeroTypes DEF Enroll, TypeOK, State
  <2>3. TypeOK'
    BY <1>0, <1>1, <1>3, <2>1, <2>2 DEF Enroll, planeVars, TypeOK
  <2>4. Handovers'
    BY <1>0, <1>3 DEF Enroll, planeVars, Handovers
  <2>5. CycleShape'
    BY <1>0, <1>3 DEF Enroll, CycleShape, IdleCycle
  <2> QED
    BY <2>3, <2>4, <2>5 DEF TypeInv
<1>4. ASSUME NEW chosen \in SUBSET Agents, EnrollInterrupted(chosen) PROVE TypeInv'
  <2>1. budget' \in 0..MaxBudget
    BY <1>0, <1>4, PayType DEF EnrollInterrupted, TypeOK
  <2>3. TypeOK'
    BY <1>0, <1>1, <1>4, <2>1 DEF EnrollInterrupted, planeVars, TypeOK
  <2>4. Handovers'
    BY <1>0, <1>4 DEF EnrollInterrupted, planeVars, Handovers
  <2>5. CycleShape'
    BY <1>0, <1>4 DEF EnrollInterrupted, CycleShape, IdleCycle
  <2> QED
    BY <2>3, <2>4, <2>5 DEF TypeInv
<1>5. CASE Crash
  <2>1. budget' \in 0..MaxBudget
    BY <1>0, <1>5, PayType DEF Crash, TypeOK
  <2>2. TypeOK'
    BY <1>0, <1>5, <2>1, ZeroTypes DEF Crash, planeVars, TypeOK
  <2> QED
    BY <1>0, <1>5, <2>2 DEF Crash, planeVars, TypeInv, Handovers, CycleShape, IdleCycle, Past
<1>6. ASSUME NEW p \in Paths, NEW content \in {Junk, None}, Edit(p, content) PROVE TypeInv'
  <2>1. budget' \in 0..MaxBudget
    BY <1>0, <1>6, PayType DEF Edit, TypeOK
  <2>2. disk' \in Recorded
    BY <1>0, <1>6, ContentFacts DEF Edit, TypeOK, Recorded
  <2> QED
    BY <1>0, <1>6, <2>1, <2>2 DEF Edit, planeVars, TypeInv, TypeOK, Handovers, CycleShape
<1>7. CASE LoseState
  <2>1. budget' \in 0..MaxBudget
    BY <1>0, <1>7, PayType DEF LoseState, TypeOK
  <2> QED
    BY <1>0, <1>7, <2>1, ZeroTypes
    DEF LoseState, planeVars, TypeInv, TypeOK, Handovers, CycleShape
<1> QED
  BY <1>3, <1>4, <1>5, <1>6, <1>7 DEF Disturb

LEMMA BeginTypeInv == ASSUME TypeInv, BeginCycle PROVE TypeInv'
<1>0. TypeOK /\ Handovers /\ CycleShape
  BY DEF TypeInv
<1>1. StaleFiles \in SUBSET StateFiles
  BY DEF StaleFiles, StateFiles
<1>2. state.etag \in Bundle \cup {None}
  BY <1>0 DEF TypeOK, State
<1>3. cyc' \in Cycle
  BY <1>0, <1>1, <1>2 DEF BeginCycle, Asks, TypeOK, Cycle, Stages
<1>4. CycleShape'
  BY <1>0 DEF BeginCycle, CycleShape, IdleCycle, Past, StaleFiles, TypeOK, Cycle
<1>5. Handovers'
  BY <1>0 DEF BeginCycle, planeVars, historyVars, Handovers, CycleShape, IdleCycle, TypeOK, Cycle
<1> QED
  BY <1>0, <1>3, <1>4, <1>5 DEF BeginCycle, planeVars, historyVars, TypeInv, TypeOK

\* A cycle that ends by cfg.fail or in one step of its own leaves nothing behind in cyc.
LEMMA IdleAgain ==
  ASSUME TypeInv, UNCHANGED planeVars, cyc' = IdleCycle, machine' \in Machine,
         state' \in State, disk' \in Recorded, budget' \in 0..MaxBudget,
         answers' \subseteq Answer,
         \A b \in answers' : b.by # NoKey => <<b.by, b.key>> \in announced,
         torn' \in BOOLEAN, excused' \in BOOLEAN
  PROVE  TypeInv'
<1>1. TypeOK'
  BY ZeroTypes DEF TypeInv, TypeOK, planeVars
<1>2. Handovers'
  BY DEF TypeInv, Handovers, planeVars, IdleCycle
<1>3. CycleShape'
  BY DEF CycleShape, IdleCycle, Past
<1> QED
  BY <1>1, <1>2, <1>3 DEF TypeInv

LEMMA FetchTypeInv == ASSUME TypeInv, Fetch PROVE TypeInv'
<1>0. TypeOK /\ Handovers /\ CycleShape
  BY DEF TypeInv
<1>1. CASE FetchFails
  <2>1. Fail("fetch", NoFiles, 1) /\ UNCHANGED <<planeVars, machine, disk, answers>>
    BY <1>1 DEF FetchFails
  <2>2. /\ state' \in State /\ cyc' = IdleCycle /\ budget' \in 0..MaxBudget
        /\ torn' \in BOOLEAN /\ excused' \in BOOLEAN
    BY <1>0, <2>1, FailType, ZeroTypes DEF Errors
  <2> QED
    BY <1>0, <2>1, <2>2, IdleAgain DEF TypeOK, Handovers
<1>2. ASSUME NEW a, NEW cost, Delivered(a, cost), FetchRefused(a, cost) PROVE TypeInv'
  <2>1. PICK kind \in {"rollover", "signature"} : Fail(kind, NoFiles, cost)
    BY <1>2 DEF FetchRefused
  <2>2. /\ a \in Answer /\ cost \in Nat /\ answers' \subseteq Answer
        /\ \A b \in answers' : b.by # NoKey => <<b.by, b.key>> \in announced
    BY <1>2, DeliveredType
  <2>3. /\ state' \in State /\ cyc' = IdleCycle /\ budget' \in 0..MaxBudget
        /\ torn' \in BOOLEAN /\ excused' \in BOOLEAN
    BY <1>0, <2>1, <2>2, FailType, ZeroTypes DEF Errors
  <2>4. UNCHANGED <<planeVars, machine, disk>>
    BY <1>2 DEF FetchRefused
  <2> QED
    BY <1>0, <2>2, <2>3, <2>4, IdleAgain DEF TypeOK
<1>3. ASSUME NEW a, NEW cost, Delivered(a, cost), FetchUnchanged(a, cost) PROVE TypeInv'
  <2>1. PICK pinLost \in BOOLEAN, lost \in BOOLEAN :
          /\ Repin(a, pinLost)
          /\ Pay(cost + Cost(pinLost) + Cost(lost))
          /\ state' = IF lost THEN state ELSE [state EXCEPT !.error = ""]
          /\ excused' = (excused \/ lost)
    BY <1>3 DEF FetchUnchanged
  <2>2. /\ a \in Answer /\ cost \in Nat /\ answers' \subseteq Answer
        /\ \A b \in answers' : b.by # NoKey => <<b.by, b.key>> \in announced
    BY <1>3, DeliveredType
  <2>3. machine' \in Machine
    BY <1>0, <2>1, <2>2, RepinType DEF TypeOK
  <2>4. budget' \in 0..MaxBudget
    <3>1. cost + Cost(pinLost) + Cost(lost) \in Nat
      BY <2>2, CostType
    <3> QED
      BY <1>0, <2>1, <3>1, PayType DEF TypeOK
  <2>5. state' \in State
    BY <1>0, <2>1 DEF TypeOK, State, Errors
  <2>6. excused' \in BOOLEAN
    BY <1>0, <2>1 DEF TypeOK
  <2>7. UNCHANGED <<planeVars, disk, torn>> /\ cyc' = IdleCycle
    BY <1>3 DEF FetchUnchanged
  <2> QED
    BY <1>0, <2>2, <2>3, <2>4, <2>5, <2>6, <2>7, IdleAgain DEF TypeOK
<1>4. ASSUME NEW a, NEW cost, Delivered(a, cost), FetchOlder(a, cost) PROVE TypeInv'
  <2>1. PICK pinLost \in BOOLEAN :
          Repin(a, pinLost) /\ Fail("older", NoFiles, cost + Cost(pinLost))
    BY <1>4 DEF FetchOlder
  <2>2. /\ a \in Answer /\ cost \in Nat /\ answers' \subseteq Answer
        /\ \A b \in answers' : b.by # NoKey => <<b.by, b.key>> \in announced
    BY <1>4, DeliveredType
  <2>3. machine' \in Machine
    BY <1>0, <2>1, <2>2, RepinType DEF TypeOK
  <2>4. cost + Cost(pinLost) \in Nat
    BY <2>2, CostType
  <2>5. /\ state' \in State /\ cyc' = IdleCycle /\ budget' \in 0..MaxBudget
        /\ torn' \in BOOLEAN /\ excused' \in BOOLEAN
    BY <1>0, <2>1, <2>4, FailType, ZeroTypes DEF Errors
  <2>6. UNCHANGED <<planeVars, disk>>
    BY <1>4 DEF FetchOlder
  <2> QED
    BY <1>0, <2>2, <2>3, <2>5, <2>6, IdleAgain DEF TypeOK
<1>5. ASSUME NEW a, NEW cost, NEW unrendered \in SUBSET Agents,
             Delivered(a, cost), FetchBundle(a, cost, unrendered)
      PROVE  TypeInv'
  <2>1. /\ a \in Answer /\ cost \in Nat /\ answers' \subseteq Answer
        /\ a.by # NoKey => <<a.by, a.key>> \in announced
        /\ \A b \in answers' : b.by # NoKey => <<b.by, b.key>> \in announced
    BY <1>5, DeliveredType
  <2>2. budget' \in 0..MaxBudget
    <3>1. cost + Cost(unrendered # {}) \in Nat
      BY <2>1, CostType
    <3> QED
      BY <1>0, <1>5, <3>1, PayType DEF FetchBundle, TypeOK
  <2>3. cyc' = [cyc EXCEPT !.pc = "agents", !.got = a, !.failed = unrendered,
                  !.todo = {p \in Files : Owner[p] \in machine.agents \ unrendered}]
    BY <1>5 DEF FetchBundle
  <2>4. cyc' \in Cycle /\ cyc'.got = a /\ cyc'.pc = "agents" /\ cyc'.stale = cyc.stale
    BY <1>0, <2>1, <2>3 DEF TypeOK, Cycle, Stages
  <2>5. UNCHANGED <<planeVars, machine, state, disk, torn, excused>>
    BY <1>5 DEF FetchBundle
  <2>6. TypeOK'
    BY <1>0, <2>1, <2>2, <2>4, <2>5 DEF TypeOK, planeVars
  <2>7. Handovers'
    BY <1>0, <2>1, <2>4, <2>5 DEF Handovers, planeVars
  <2>8. CycleShape'
    BY <1>0, <2>1, <2>4, <2>5 DEF CycleShape, Past
  <2> QED
    BY <2>6, <2>7, <2>8 DEF TypeInv
<1> QED
  BY <1>1, <1>2, <1>3, <1>4, <1>5, ZenonT(30)
  DEF Fetch, FetchRefused, FetchUnchanged, FetchOlder, FetchBundle

\* The key a pinned machine ends up with is a key, and so is the one it signs with.
LEMMA VerifierType ==
  ASSUME TypeInv, cyc.pc \in Past, machine.pin # NoKey
  PROVE  Verifier(machine.pin, cyc.got) \in Keys
<1>1. cyc.got \in Answer
  BY DEF TypeInv, CycleShape
<1>2. machine.pin \in Keys
  BY DEF TypeInv, TypeOK, Machine, KeyOrNone
<1>3. CASE Rollover(machine.pin, cyc.got)
  <2>1. <<cyc.got.by, cyc.got.key>> \in announced
    BY <1>1, <1>3, NoneAssumption DEF Rollover, TypeInv, Handovers
  <2>2. cyc.got.key \in Keys
    BY <2>1 DEF TypeInv, TypeOK
  <2> QED
    BY <1>3, <2>2 DEF Verifier
<1> QED
  BY <1>2, <1>3 DEF Verifier

\* A step inside the write loop keeps answer, pin and everything but disk, cyc and budget.
LEMMA StillWriting ==
  ASSUME TypeInv, UNCHANGED <<planeVars, machine, state, historyVars>>,
         cyc.pc \in Past, cyc' \in Cycle, cyc'.pc \in Past, cyc'.got = cyc.got,
         cyc'.stale \subseteq cyc.stale, disk' \in Recorded, budget' \in 0..MaxBudget
  PROVE  TypeInv'
<1>1. TypeOK'
  BY DEF TypeInv, TypeOK, planeVars, historyVars
<1>2. Handovers'
  BY DEF TypeInv, Handovers, planeVars, historyVars
<1>3. CycleShape'
  BY DEF TypeInv, CycleShape, Past
<1> QED
  BY <1>1, <1>2, <1>3 DEF TypeInv

LEMMA WriteTypeInv == ASSUME TypeInv, Write PROVE TypeInv'
<1>0. TypeOK /\ Handovers /\ CycleShape
  BY DEF TypeInv
<1>a. cyc.pc \in Past => cyc.got \in Answer /\ cyc.got.bundle \in Bundle
  BY <1>0 DEF CycleShape, Answer
<1>b. StateFiles \subseteq Paths /\ Files \subseteq Paths
  BY DEF Paths
<1>1. ASSUME NEW p \in Files, WriteAgentFile(p) PROVE TypeInv'
  <2>1. Rendering(p, cyc.got.bundle) \in Content
    BY <1>a, <1>1, ContentFacts DEF WriteAgentFile, Past
  <2>2. disk' \in Recorded
    BY <1>0, <1>1, <2>1 DEF WriteAgentFile, TypeOK, Recorded
  <2>3. /\ cyc' \in Cycle /\ cyc'.pc \in Past /\ cyc'.got = cyc.got /\ cyc'.stale = cyc.stale
    BY <1>0, <1>1, <2>1 DEF WriteAgentFile, TypeOK, Cycle, Recorded, Past
  <2> QED
    BY <1>0, <1>1, <2>2, <2>3, StillWriting DEF WriteAgentFile, Past, TypeOK
<1>2. ASSUME NEW p \in Files, NEW landed \in BOOLEAN, AgentWriteFails(p, landed) PROVE TypeInv'
  <2> DEFINE content == Rendering(p, cyc.got.bundle)
  <2>1. content \in Content
    BY <1>a, <1>2, ContentFacts DEF AgentWriteFails, Past
  <2>2. /\ disk' = IF landed THEN [disk EXCEPT ![p] = content] ELSE disk
        /\ cyc' = [cyc EXCEPT !.wrote[p] = IF landed THEN content ELSE @,
                              !.failed = @ \cup {Owner[p]},
                              !.todo = {q \in @ : Owner[q] # Owner[p]}]
    BY <1>2 DEF AgentWriteFails
  <2> HIDE DEF content
  <2>3. disk' \in Recorded
    BY <1>0, <2>1, <2>2 DEF TypeOK, Recorded
  <2>4. Owner[p] \in Agents
    BY FilesAssumption
  <2>5. /\ cyc' \in Cycle /\ cyc'.pc = cyc.pc /\ cyc'.got = cyc.got /\ cyc'.stale = cyc.stale
    BY <1>0, <2>1, <2>2, <2>4 DEF TypeOK, Cycle, Recorded
  <2>6. budget' \in 0..MaxBudget
    BY <1>0, <1>2, PayType DEF AgentWriteFails, TypeOK
  <2> QED
    BY <1>0, <1>2, <2>3, <2>5, <2>6, StillWriting DEF AgentWriteFails, Past
<1>3. CASE WriteBundle
  <2>1. cyc.got.bundle \in Content
    BY <1>a, <1>3, ContentFacts DEF WriteBundle, Past
  <2>2. disk' \in Recorded
    BY <1>0, <1>3, <2>1 DEF WriteBundle, TypeOK, Recorded
  <2>3. /\ cyc' \in Cycle /\ cyc'.pc \in Past /\ cyc'.got = cyc.got /\ cyc'.stale = cyc.stale
    BY <1>0, <1>3, <2>1 DEF WriteBundle, TypeOK, Cycle, Recorded, Past, Stages
  <2> QED
    BY <1>0, <1>3, <2>2, <2>3, StillWriting DEF WriteBundle, Past, TypeOK
<1>4. CASE BundleSiblingFails
  <2>1. cyc.got.bundle \in Content
    BY <1>a, <1>4, ContentFacts DEF BundleSiblingFails, Past
  <2>2. disk' \in Recorded
    BY <1>0, <1>4, <2>1 DEF BundleSiblingFails, TypeOK, Recorded
  <2>3. [cyc.wrote EXCEPT !["bundle"] = cyc.got.bundle] \in Recorded
    BY <1>0, <2>1 DEF TypeOK, Cycle, Recorded
  <2>4. /\ state' \in State /\ cyc' = IdleCycle /\ budget' \in 0..MaxBudget
        /\ torn' \in BOOLEAN /\ excused' \in BOOLEAN
    BY <1>0, <1>4, <2>3, FailType DEF BundleSiblingFails, Errors
  <2> QED
    BY <1>0, <1>4, <2>2, <2>4, IdleAgain DEF BundleSiblingFails, TypeOK, Handovers
<1>5. ASSUME NEW p \in {"sig", "trust"}, RemoveStale(p) PROVE TypeInv'
  <2>1. disk' \in Recorded
    BY <1>0, <1>5, ContentFacts DEF RemoveStale, TypeOK, Recorded
  <2>2. /\ cyc' \in Cycle /\ cyc'.pc = cyc.pc /\ cyc'.got = cyc.got /\ cyc'.stale \subseteq cyc.stale
    BY <1>0, <1>5 DEF RemoveStale, TypeOK, Cycle
  <2> QED
    BY <1>0, <1>5, <2>1, <2>2, StillWriting DEF RemoveStale, Past, TypeOK
<1>6. CASE WriteSignature
  <2> DEFINE line == [key |-> Verifier(machine.pin, cyc.got), bundle |-> cyc.got.bundle]
  <2>1. line \in Content
    <3>1. Verifier(machine.pin, cyc.got) \in Keys
      BY <1>6, VerifierType DEF WriteSignature, Past
    <3> QED
      BY <3>1, <1>a, <1>6, ContentFacts DEF WriteSignature, Past
  <2>2. /\ disk' = [disk EXCEPT !["sig"] = line]
        /\ cyc' = [cyc EXCEPT !.pc = "trust", !.wrote["sig"] = line]
    BY <1>6 DEF WriteSignature
  <2> HIDE DEF line
  <2>3. disk' \in Recorded
    BY <1>0, <2>1, <2>2 DEF TypeOK, Recorded
  <2>4. /\ cyc' \in Cycle /\ cyc'.pc = "trust" /\ cyc'.got = cyc.got /\ cyc'.stale = cyc.stale
    BY <1>0, <2>1, <2>2 DEF TypeOK, Cycle, Recorded, Stages
  <2> QED
    BY <1>0, <1>6, <2>3, <2>4, StillWriting DEF WriteSignature, Past, TypeOK
<1>7. CASE WriteTrust
  <2> DEFINE key == Verifier(machine.pin, cyc.got)
  <2>1. key \in Content
    BY <1>0, <1>a, <1>7, ContentFacts DEF WriteTrust, Past, Verifier, TypeOK, Machine, Answer
  <2>2. /\ disk' = [disk EXCEPT !["trust"] = key]
        /\ cyc' = [cyc EXCEPT !.pc = "finish", !.wrote["trust"] = key]
    BY <1>7 DEF WriteTrust
  <2> HIDE DEF key
  <2>3. disk' \in Recorded
    BY <1>0, <2>1, <2>2 DEF TypeOK, Recorded
  <2>4. /\ cyc' \in Cycle /\ cyc'.pc = "finish" /\ cyc'.got = cyc.got /\ cyc'.stale = cyc.stale
    BY <1>0, <2>1, <2>2 DEF TypeOK, Cycle, Recorded, Stages
  <2> QED
    BY <1>0, <1>7, <2>3, <2>4, StillWriting DEF WriteTrust, Past, TypeOK
<1>8. CASE StateWriteFails
  <2>1. cyc.wrote \in Recorded
    BY <1>0 DEF TypeOK, Cycle
  <2>2. /\ state' \in State /\ cyc' = IdleCycle /\ budget' \in 0..MaxBudget
        /\ torn' \in BOOLEAN /\ excused' \in BOOLEAN
    BY <1>0, <1>8, <2>1, FailType DEF StateWriteFails, Errors
  <2> QED
    BY <1>0, <1>8, <2>2, IdleAgain DEF StateWriteFails, TypeOK, Handovers
<1> QED
  BY <1>1, <1>2, <1>3, <1>4, <1>5, <1>6, <1>7, <1>8 DEF Write

LEMMA FinishTypeInv ==
  ASSUME TypeInv, NEW gone \in SUBSET Files, FinishCycle(gone) PROVE TypeInv'
<1>0. TypeOK /\ Handovers /\ CycleShape
  BY DEF TypeInv
<1>1. PICK pinLost \in BOOLEAN, lost \in BOOLEAN :
        /\ Repin(cyc.got, pinLost)
        /\ Pay(Cost(pinLost) + Cost(lost) + Cost(gone # Prunable))
        /\ state' = IF lost THEN state ELSE CycleState(gone)
        /\ torn' = (torn /\ lost)
        /\ excused' = (excused \/ lost)
  BY DEF FinishCycle
<1>2. cyc.got \in Answer /\ cyc.got.bundle \in Bundle
  BY <1>0 DEF FinishCycle, CycleShape, Past, Answer
<1>3. machine' \in Machine
  BY <1>0, <1>1, <1>2, RepinType DEF TypeOK
<1>4. disk' \in Recorded
  BY <1>0, ContentFacts DEF FinishCycle, TypeOK, Recorded
<1>5. budget' \in 0..MaxBudget
  <2>1. Cost(pinLost) + Cost(lost) + Cost(gone # Prunable) \in Nat
    BY CostType
  <2> QED
    BY <1>0, <1>1, <2>1, PayType DEF TypeOK
<1>6. FilesLeft(gone) \in Recorded
  <2>1. cyc.wrote \in Recorded /\ state.files \in Recorded
    BY <1>0 DEF TypeOK, Cycle, State
  <2> QED
    BY <2>1, ContentFacts DEF FilesLeft, Recorded
<1>7. CycleState(gone) \in State
  <2>1. cyc.got.bundle.version \in 0..MaxVersion /\ cyc.got.bundle.revisedAt \in 0..MaxTime
    BY <1>2 DEF Bundle
  <2>2. Later(state.revisedAt, cyc.got.bundle.revisedAt) \in 0..MaxTime
    BY <1>0, <2>1 DEF Later, TypeOK, State
  <2> QED
    BY <1>2, <1>6, <2>1, <2>2 DEF CycleState, State, Errors
<1>8. state' \in State /\ torn' \in BOOLEAN /\ excused' \in BOOLEAN
  BY <1>0, <1>1, <1>7 DEF TypeOK
<1> QED
  BY <1>0, <1>3, <1>4, <1>5, <1>8, IdleAgain DEF FinishCycle, TypeOK, Handovers

LEMMA NextTypeInv == TypeInv /\ [Next]_vars => TypeInv'
<1> SUFFICES ASSUME TypeInv, [Next]_vars PROVE TypeInv'
  OBVIOUS
<1>1. CASE UNCHANGED vars
  BY <1>1 DEF vars, TypeInv, TypeOK, Handovers, CycleShape
<1> QED
  BY <1>1, PlaneTypeInv, DisturbTypeInv, BeginTypeInv, FetchTypeInv, WriteTypeInv, FinishTypeInv
  DEF Next, Once

\* Every variable keeps the type its comment gives it, for all constants: in
\* particular a signature that aw-sync writes is always by a real key, because a
\* rollover is never sent without a key to hand over to.
THEOREM TypeCorrect == Spec => []TypeOK
<1>1. TypeInv => TypeOK
  BY DEF TypeInv
<1> QED
  BY <1>1, InitTypeInv, NextTypeInv, PTL DEF Spec
=============================================================================
