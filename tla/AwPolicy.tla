------------------------------ MODULE AwPolicy ------------------------------
(***************************************************************************)
(* A launch of Claude Code: one run of the aw-policy helper                *)
(* (internal/policyhelper), which reads the files aw-sync keeps, one after *)
(* the other and without any lock, while aw-sync may be replacing them.    *)
(* Every read is a step of its own.  The helper is offline and writes      *)
(* nothing but its own log.                                                *)
(*                                                                         *)
(* ReadBundleOfClaude and ReadSignatureReopens are plausible mistakes,     *)
(* used by nothing (see AwSync).                                           *)
(***************************************************************************)
EXTENDS AwSync

CONSTANT Fallback   \* Claude's narrowed aw-bundle.json, one of Files

ASSUME FallbackAssumption == Fallback \in Files

VARIABLE launch

launchVars == <<vars, launch>>

\* RequireBundle in aw-policy.json: absent, true or false.
Require == {"unset", "true", "false"}

(***************************************************************************)
(* trust, body, sig: what the three reads of VerifyFiles returned.         *)
(* emitted: what the envelope was compiled from, None for no policy.       *)
(* usable: what was read parses, compiles, passes the schema and fits.     *)
(* guarded, quiet: history.  The machine pinned a key, with a trust file   *)
(* on disk, when the launch began, has pinned one since, and nobody edited *)
(* the trust file; aw-sync and everybody else left the disk alone.         *)
(***************************************************************************)
LaunchType ==
  [pc: {"done", "trust", "bundle", "sig", "fallback", "exit"},
   require: Require, trust: Content, body: Content, sig: Content,
   emitted: Content, usable: BOOLEAN, code: {0, 1},
   guarded: BOOLEAN, quiet: BOOLEAN]

NoLaunch == [pc |-> "done", require |-> "unset", trust |-> None, body |-> None,
             sig |-> None, emitted |-> None, usable |-> FALSE, code |-> 1,
             guarded |-> FALSE, quiet |-> FALSE]

LaunchInit == Init /\ launch = NoLaunch

-----------------------------------------------------------------------------
Launch ==
  /\ launch.pc = "done"
  /\ launch' = [NoLaunch EXCEPT
                  !.pc = "trust", !.usable = TRUE,
                  !.guarded = machine.pin # NoKey /\ disk["trust"] # None,
                  !.quiet = cyc.pc = "idle"]

\* Only a missing trust file reads as an unsigned deployment.
ReadTrust ==
  /\ launch.pc = "trust"
  /\ launch' = [launch EXCEPT
                  !.trust = disk["trust"],
                  !.pc = CASE disk["trust"] = None    -> "fallback"
                           [] disk["trust"] \in Keys  -> "bundle"
                           [] OTHER                   -> "exit"]

ReadBundleOfClaude ==
  /\ launch.pc = "bundle"
  /\ launch' = [launch EXCEPT !.body = disk[Fallback],
                              !.pc = IF disk[Fallback] = None THEN "exit" ELSE "sig"]
ReadBundle ==
  /\ launch.pc = "bundle"
  /\ launch' = [launch EXCEPT !.body = disk["bundle"],
                              !.pc = IF disk["bundle"] = None THEN "exit" ELSE "sig"]

\* The bytes that verified are the bytes compiled: the path is not read again.
ReadSignatureReopens(usable) ==
  /\ launch.pc = "sig"
  /\ launch' = [launch EXCEPT
                  !.sig = disk["sig"],
                  !.emitted = IF /\ VerifyFiles(launch.trust, launch.body, disk["sig"])
                                 /\ usable
                              THEN disk["bundle"] ELSE None,
                  !.usable = usable,
                  !.pc = "exit"]
ReadSignature(usable) ==
  /\ launch.pc = "sig"
  /\ launch' = [launch EXCEPT
                  !.sig = disk["sig"],
                  !.emitted = IF /\ VerifyFiles(launch.trust, launch.body, disk["sig"])
                                 /\ usable
                              THEN launch.body ELSE None,
                  !.usable = usable,
                  !.pc = "exit"]

ReadFallback(usable) ==
  /\ launch.pc = "fallback"
  /\ launch' = [launch EXCEPT
                  !.emitted = IF usable THEN disk[Fallback] ELSE None,
                  !.usable = usable,
                  !.pc = "exit"]

\* isPinned is a second look at the trust file.
isPinned == disk["trust"] # None

exitCode(require, emitted, pinned) ==
  IF emitted = None /\ (require = "true" \/ (require = "unset" /\ pinned))
  THEN 1 ELSE 0

\* loadConfig read requireBundle before all this; nothing else depends on it.
Exit(require) ==
  /\ launch.pc = "exit"
  /\ launch' = [launch EXCEPT
                  !.require = require,
                  !.code = exitCode(require, launch.emitted, isPinned),
                  !.pc = "done"]

-----------------------------------------------------------------------------
Helper ==
  \/ Launch
  \/ ReadTrust
  \/ ReadBundle
  \/ \E usable \in BOOLEAN : ReadSignature(usable)
  \/ \E usable \in BOOLEAN : ReadFallback(usable)
  \/ \E require \in Require : Exit(require)

\* What a step of anybody else means for the launch under way.
Observe ==
  launch' = [launch EXCEPT
     !.guarded = @ /\ machine'.pin # NoKey
                   /\ ~ \E content \in {Junk, None} : Edit("trust", content),
     !.quiet = @ /\ UNCHANGED <<machine, state, disk, cyc>>]

LaunchNext ==
  \/ Helper /\ UNCHANGED vars
  \/ Next /\ Observe

LaunchSpec == LaunchInit /\ [][LaunchNext]_launchVars

-----------------------------------------------------------------------------
\* Where a trust file was found, the policy a session runs under is one bundle
\* whose signature under that very key was checked, although bundle, signature
\* and trust file may all have been replaced between the three reads
\* (signing.go, VerifyFiles; helper.go, loadBundle).
EmitsWhatItVerified ==
  launch.trust # None /\ launch.emitted # None
    => VerifyFiles(launch.trust, launch.emitted, launch.sig)

\* A pinned machine fails closed: a launch during which the machine stayed
\* pinned, wherever aw-sync was in its cycle and whatever crashed, never takes
\* the unsigned file, and when it ends without a policy Claude Code does not
\* start, unless the organization said requireBundle false (helper.go,
\* VerifyBundle, isPinned, exitCode; sync.go, Run: the order of the writes).
PinnedLaunchFailsClosed ==
  launch.guarded /\ launch.pc = "done" =>
    \/ launch.emitted # None /\ launch.trust \in Keys
    \/ launch.emitted = None /\ (launch.require # "false" => launch.code = 1)

\* What `aw-sync status' shows is what sessions get: when an etag is recorded,
\* nothing has drifted and nothing changes during the launch, the policy of
\* that etag is emitted: the signed bundle on a machine that pins a key, what
\* was rendered for Claude on one that does not.
LaunchAgreesWithStatus ==
  /\ launch.pc = "done" /\ launch.quiet /\ launch.usable
  /\ state.etag # None /\ Drifted = {} /\ StaleFiles = {} /\ ~torn
  /\ Owner[Fallback] \in machine.agents
  => launch.emitted = IF machine.pin # NoKey THEN state.etag
                      ELSE Rendering(Fallback, state.etag)
=============================================================================
