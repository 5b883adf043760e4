--------------------------- MODULE AwPolicyProofs ---------------------------
(***************************************************************************)
(* What a launch gets, for every interleaving of the helper's reads with   *)
(* aw-sync, the control plane, crashes and edits, and for every value of   *)
(* the constants.  The machine's own invariants come from AwSyncSafety;    *)
(* what is added here is what each stage of the helper has read.           *)
(***************************************************************************)
EXTENDS AwPolicy, AwSyncSafety

\* Nothing is emitted before the signature, or the unsigned file, was read.
ReadsInOrder ==
  /\ launch.pc \in {"trust", "bundle", "sig", "fallback"} => launch.emitted = None
  /\ launch.pc \in {"trust", "fallback"} => launch.trust = None
  /\ launch.pc \in {"bundle", "sig"} => launch.trust \in Keys
  /\ launch.pc = "sig" => launch.body # None
  /\ EmitsWhatItVerified

\* A guarded launch has the trust file on disk, read or still to be read.
Guarded ==
  launch.guarded =>
    /\ machine.pin # NoKey
    /\ disk["trust"] # None
    /\ launch.pc # "trust" => launch.trust # None
    /\ launch.pc # "fallback"
    /\ launch.emitted # None => launch.trust \in Keys
    /\ launch.pc = "done" /\ launch.emitted = None /\ launch.require # "false"
         => launch.code = 1

\* A quiet launch has read what is still on disk.
Quiet ==
  launch.quiet =>
    /\ cyc.pc = "idle"
    /\ launch.pc \in {"bundle", "sig"} => launch.trust = disk["trust"]
    /\ launch.pc = "sig" => launch.body = disk["bundle"]
    /\ launch.pc = "fallback" => disk["trust"] = None
    /\ launch.pc \in {"exit", "done"} /\ launch.usable =>
         /\ disk["trust"] = None => launch.emitted = disk[Fallback]
         /\ VerifyFiles(disk["trust"], disk["bundle"], disk["sig"]) /\ disk["bundle"] # None
              => launch.emitted = disk["bundle"]

MachineInv == TypeInv /\ Written /\ RecordedIsWhole

LaunchInv == MachineInv /\ launch \in LaunchType /\ ReadsInOrder /\ Guarded /\ Quiet

-----------------------------------------------------------------------------
LEMMA MachineStep == ASSUME MachineInv, [Next]_vars PROVE MachineInv'
BY NextTypeInv, WrittenStep, RecordedStep DEF MachineInv

LEMMA MachineInit == Init => MachineInv
<1>1. IdleCycle.pc = "idle" /\ ZeroState.etag = None
  BY DEF IdleCycle, ZeroState
<1>2. Init => Written /\ RecordedIsWhole
  BY <1>1 DEF Init, Written, RecordedIsWhole, Past
<1> QED
  BY <1>2, InitTypeInv DEF MachineInv

LEMMA LaunchInvInit == LaunchInit => LaunchInv
<1> SUFFICES ASSUME LaunchInit PROVE LaunchInv
  OBVIOUS
<1>1. launch \in LaunchType
  BY ContentFacts DEF LaunchInit, LaunchType, NoLaunch, Require
<1>2. /\ launch.pc = "done" /\ launch.trust = None /\ launch.emitted = None
      /\ ~launch.guarded /\ ~launch.quiet
  BY DEF LaunchInit, NoLaunch
<1> QED
  BY <1>1, <1>2, MachineInit
  DEF LaunchInit, LaunchInv, ReadsInOrder, EmitsWhatItVerified, Guarded, Quiet

\* The step of somebody else.
LEMMA ObserveStep == ASSUME LaunchInv, Next, Observe PROVE LaunchInv'
<1>0. MachineInv /\ launch \in LaunchType /\ ReadsInOrder /\ Guarded /\ Quiet
  BY DEF LaunchInv
<1> DEFINE g == /\ launch.guarded
                /\ machine'.pin # NoKey
                /\ ~ \E content \in {Junk, None} : Edit("trust", content)
           q == launch.quiet /\ UNCHANGED <<machine, state, disk, cyc>>
<1>1. g \in BOOLEAN /\ q \in BOOLEAN
  BY <1>0 DEF LaunchType
<1>2. launch' = [launch EXCEPT !.guarded = g, !.quiet = q]
  BY DEF Observe
<1>3. (g => launch.guarded /\ machine'.pin # NoKey /\ ~Edit("trust", None))
      /\ (q => launch.quiet /\ UNCHANGED <<machine, state, disk, cyc>>)
  OBVIOUS
<1> HIDE DEF g, q
<1>4. /\ launch' \in LaunchType
      /\ launch'.pc = launch.pc /\ launch'.trust = launch.trust /\ launch'.body = launch.body
      /\ launch'.sig = launch.sig /\ launch'.emitted = launch.emitted
      /\ launch'.usable = launch.usable /\ launch'.code = launch.code
      /\ launch'.require = launch.require /\ launch'.guarded = g /\ launch'.quiet = q
  BY <1>0, <1>1, <1>2 DEF LaunchType
<1>5. MachineInv'
  BY <1>0, MachineStep
<1>6. ReadsInOrder'
  BY <1>0, <1>4 DEF ReadsInOrder, EmitsWhatItVerified
<1>7. Guarded'
  <2>1. ASSUME g PROVE disk'["trust"] # None
    BY <1>0, <1>3, <2>1, TrustKept DEF MachineInv, Guarded
  <2> QED
    BY <1>0, <1>3, <1>4, <2>1 DEF Guarded
<1>8. Quiet'
  BY <1>0, <1>3, <1>4 DEF Quiet
<1> QED
  BY <1>4, <1>5, <1>6, <1>7, <1>8 DEF LaunchInv

\* The helper's own steps.
LEMMA HelperStep == ASSUME LaunchInv, Helper, UNCHANGED vars PROVE LaunchInv'
<1>0. MachineInv /\ launch \in LaunchType /\ ReadsInOrder /\ Guarded /\ Quiet
  BY DEF LaunchInv
<1>a. MachineInv' /\ UNCHANGED <<machine, state, disk, cyc>>
  BY <1>0, MachineStep DEF vars
<1>b. /\ disk["trust"] \in Content /\ disk["bundle"] \in Content
      /\ disk["sig"] \in Content /\ disk[Fallback] \in Content
  BY <1>0, FallbackAssumption DEF MachineInv, TypeInv, TypeOK, Recorded, Paths, StateFiles
<1>c. None \notin Keys
  BY NoneAssumption
<1>1. CASE Launch
  <2>1. NoLaunch \in LaunchType
    BY ContentFacts DEF NoLaunch, LaunchType, Require
  <2>2. /\ launch' \in LaunchType /\ launch'.pc = "trust" /\ launch'.trust = NoLaunch.trust
        /\ launch'.emitted = NoLaunch.emitted
        /\ launch'.guarded = (machine.pin # NoKey /\ disk["trust"] # None)
        /\ launch'.quiet = (cyc.pc = "idle")
    BY <1>1, <2>1 DEF Launch, LaunchType
  <2>3. launch'.trust = None /\ launch'.emitted = None
    BY <2>2 DEF NoLaunch
  <2> QED
    BY <1>a, <2>2, <2>3 DEF LaunchInv, ReadsInOrder, EmitsWhatItVerified, Guarded, Quiet
<1>2. CASE ReadTrust
  <2>1. /\ launch' \in LaunchType /\ launch'.trust = disk["trust"]
        /\ launch'.emitted = launch.emitted
        /\ launch'.usable = launch.usable /\ launch'.body = launch.body
        /\ launch'.guarded = launch.guarded /\ launch'.quiet = launch.quiet
        /\ \/ disk["trust"] = None /\ launch'.pc = "fallback"
           \/ disk["trust"] \in Keys /\ launch'.pc = "bundle"
           \/ disk["trust"] \notin Keys \cup {None} /\ launch'.pc = "exit"
    BY <1>0, <1>2, <1>b, <1>c DEF ReadTrust, LaunchType
  <2>2. launch.emitted = None
    BY <1>0, <1>2 DEF ReadTrust, ReadsInOrder
  <2>3. ReadsInOrder'
    BY <2>1, <2>2 DEF ReadsInOrder, EmitsWhatItVerified
  <2>4. Guarded'
    BY <1>0, <1>a, <2>1, <2>2 DEF Guarded
  <2>5. Quiet'
    BY <1>0, <1>a, <2>1, <2>2 DEF Quiet, VerifyFiles
  <2> QED
    BY <1>a, <2>1, <2>3, <2>4, <2>5 DEF LaunchInv
<1>3. CASE ReadBundle
  <2>1. /\ launch' \in LaunchType /\ launch'.trust = launch.trust
        /\ launch'.emitted = launch.emitted /\ launch'.body = disk["bundle"]
        /\ launch'.usable = launch.usable
        /\ launch'.guarded = launch.guarded /\ launch'.quiet = launch.quiet
        /\ \/ disk["bundle"] = None /\ launch'.pc = "exit"
           \/ disk["bundle"] # None /\ launch'.pc = "sig"
        /\ launch.pc = "bundle"
    BY <1>0, <1>3, <1>b DEF ReadBundle, LaunchType
  <2>2. launch.emitted = None /\ launch.trust \in Keys
    BY <1>0, <2>1 DEF ReadsInOrder
  <2>3. ReadsInOrder'
    BY <2>1, <2>2 DEF ReadsInOrder, EmitsWhatItVerified
  <2>4. Guarded'
    BY <1>0, <1>a, <1>c, <2>1, <2>2 DEF Guarded
  <2>5. Quiet'
    BY <1>0, <1>a, <1>c, <2>1, <2>2 DEF Quiet
  <2> QED
    BY <1>a, <2>1, <2>3, <2>4, <2>5 DEF LaunchInv
<1>4. ASSUME NEW usable \in BOOLEAN, ReadSignature(usable) PROVE LaunchInv'
  <2>1. /\ launch' \in LaunchType /\ launch'.pc = "exit" /\ launch'.trust = launch.trust
        /\ launch'.sig = disk["sig"] /\ launch'.usable = usable
        /\ launch'.emitted = IF VerifyFiles(launch.trust, launch.body, disk["sig"]) /\ usable
                             THEN launch.body ELSE None
        /\ launch'.guarded = launch.guarded /\ launch'.quiet = launch.quiet
        /\ launch.pc = "sig"
    BY <1>0, <1>4, <1>b, ContentFacts DEF ReadSignature, LaunchType
  <2>2. launch.trust \in Keys /\ launch.body # None
    BY <1>0, <2>1 DEF ReadsInOrder
  <2>3. ReadsInOrder'
    BY <2>1, <2>2 DEF ReadsInOrder, EmitsWhatItVerified
  <2>4. Guarded'
    BY <1>0, <1>a, <1>c, <2>1, <2>2 DEF Guarded
  <2>5. Quiet'
    BY <1>0, <1>a, <1>c, <2>1, <2>2 DEF Quiet
  <2> QED
    BY <1>a, <2>1, <2>3, <2>4, <2>5 DEF LaunchInv
<1>5. ASSUME NEW usable \in BOOLEAN, ReadFallback(usable) PROVE LaunchInv'
  <2>1. /\ launch' \in LaunchType /\ launch'.pc = "exit" /\ launch'.trust = launch.trust
        /\ launch'.usable = usable
        /\ launch'.emitted = IF usable THEN disk[Fallback] ELSE None
        /\ launch'.guarded = launch.guarded /\ launch'.quiet = launch.quiet
        /\ launch.pc = "fallback"
    BY <1>0, <1>5, <1>b, ContentFacts DEF ReadFallback, LaunchType
  <2>2. launch.trust = None /\ ~launch.guarded
    BY <1>0, <2>1 DEF ReadsInOrder, Guarded
  <2>3. ReadsInOrder'
    BY <2>1, <2>2 DEF ReadsInOrder, EmitsWhatItVerified
  <2>4. Guarded'
    BY <2>1, <2>2 DEF Guarded
  <2>5. Quiet'
    BY <1>0, <1>a, <1>c, <2>1, <2>2 DEF Quiet, VerifyFiles
  <2> QED
    BY <1>a, <2>1, <2>3, <2>4, <2>5 DEF LaunchInv
<1>6. ASSUME NEW require \in Require, Exit(require) PROVE LaunchInv'
  <2>1. /\ launch' \in LaunchType /\ launch'.pc = "done" /\ launch'.trust = launch.trust
        /\ launch'.sig = launch.sig /\ launch'.usable = launch.usable
        /\ launch'.emitted = launch.emitted /\ launch'.require = require
        /\ launch'.code = exitCode(require, launch.emitted, isPinned)
        /\ launch'.guarded = launch.guarded /\ launch'.quiet = launch.quiet
        /\ launch.pc = "exit"
    BY <1>0, <1>6 DEF Exit, LaunchType, exitCode
  <2>2. ReadsInOrder'
    BY <1>0, <2>1 DEF ReadsInOrder, EmitsWhatItVerified
  <2>3. ASSUME launch.guarded, launch.emitted = None, require # "false"
        PROVE  launch'.code = 1
    BY <1>0, <2>1, <2>3 DEF Guarded, isPinned, exitCode, Require
  <2>4. Guarded'
    BY <1>0, <1>a, <2>1, <2>3 DEF Guarded
  <2>5. Quiet'
    BY <1>0, <1>a, <2>1 DEF Quiet
  <2> QED
    BY <1>a, <2>1, <2>2, <2>4, <2>5 DEF LaunchInv
<1> QED
  BY <1>1, <1>2, <1>3, <1>4, <1>5, <1>6 DEF Helper

LEMMA LaunchInvStep == LaunchInv /\ [LaunchNext]_launchVars => LaunchInv'
<1> SUFFICES ASSUME LaunchInv, [LaunchNext]_launchVars PROVE LaunchInv'
  OBVIOUS
<1>1. CASE UNCHANGED launchVars
  <2>1. MachineInv'
    BY <1>1, MachineStep DEF LaunchInv, launchVars
  <2> QED
    BY <1>1, <2>1 DEF launchVars, vars, LaunchInv, ReadsInOrder, EmitsWhatItVerified, Guarded, Quiet
<1> QED
  BY <1>1, HelperStep, ObserveStep DEF LaunchNext

-----------------------------------------------------------------------------
\* A launch only reads (helper.go, Run): whatever aw-sync and its machine do while
\* launches go on, they could do without them.  So every theorem of AwSyncSafety
\* holds of a machine on which sessions are started at any moment.
THEOREM LaunchOnlyReads == LaunchSpec => Spec
<1>1. LaunchInit => Init
  BY DEF LaunchInit
<1>2. [LaunchNext]_launchVars => [Next]_vars
  BY DEF LaunchNext, launchVars
<1> QED
  BY <1>1, <1>2, PTL DEF LaunchSpec, Spec

\* In particular a cycle that is raced by launches still delivers what it promises
\* (sync.go, Run; helper.go, Run).
THEOREM LaunchKeepsDelivery == LaunchSpec => DeliversPolicy
BY LaunchOnlyReads, CycleDeliversPolicy

\* A session never runs under a bundle that the trusted key did not sign, however
\* the three files were replaced between the helper's reads (signing.go,
\* VerifyFiles; helper.go, loadBundle).
THEOREM LaunchEmitsVerified == LaunchSpec => []EmitsWhatItVerified
<1>1. LaunchInv => EmitsWhatItVerified
  BY DEF LaunchInv, ReadsInOrder
<1> QED
  BY <1>1, LaunchInvInit, LaunchInvStep, PTL DEF LaunchSpec

\* A machine that pins a key fails closed at every moment of aw-sync's cycle, and
\* after every crash in it (helper.go, VerifyBundle and exitCode; sync.go, Run).
THEOREM LaunchFailsClosed == LaunchSpec => []PinnedLaunchFailsClosed
<1>1. LaunchInv => PinnedLaunchFailsClosed
  BY DEF LaunchInv, Guarded, PinnedLaunchFailsClosed
<1> QED
  BY <1>1, LaunchInvInit, LaunchInvStep, PTL DEF LaunchSpec

\* What status calls in sync is what the next session gets (helper.go, Run).
THEOREM LaunchMatchesStatus == LaunchSpec => []LaunchAgreesWithStatus
<1>1. ASSUME LaunchInv PROVE LaunchAgreesWithStatus
  <2>0. TypeInv /\ RecordedIsWhole /\ Quiet /\ launch \in LaunchType
    BY <1>1 DEF LaunchInv, MachineInv
  <2>1. SUFFICES ASSUME launch.pc = "done", launch.quiet, launch.usable, state.etag # None,
                        Drifted = {}, StaleFiles = {}, ~torn, Owner[Fallback] \in machine.agents
                 PROVE  launch.emitted = IF machine.pin # NoKey THEN state.etag
                                         ELSE Rendering(Fallback, state.etag)
    BY DEF LaunchAgreesWithStatus
  <2>2. Holds(state.etag)
    BY <2>0, <2>1, WholeHolds
  <2>3. CASE machine.pin # NoKey
    BY <2>0, <2>1, <2>2, <2>3 DEF Quiet, Holds
  <2>4. CASE machine.pin = NoKey
    <3>1. disk["trust"] = None
      BY <2>1, <2>4 DEF StaleFiles
    <3>2. disk[Fallback] = Rendering(Fallback, state.etag)
      BY <2>1, <2>2, FallbackAssumption DEF Holds
    <3> QED
      BY <2>0, <2>1, <2>4, <3>1, <3>2 DEF Quiet
  <2> QED
    BY <2>3, <2>4
<1> QED
  BY <1>1, LaunchInvInit, LaunchInvStep, PTL DEF LaunchSpec
=============================================================================
