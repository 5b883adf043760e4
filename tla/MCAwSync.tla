------------------------------ MODULE MCAwSync ------------------------------
(***************************************************************************)
(* AwSync for TLC.  The files are those the adapters render: Claude's      *)
(* narrowed bundle, its constant drop-in, Codex's requirements.toml (whose *)
(* header names the revision) and agy's admin settings (the rules alone,   *)
(* so two revisions can render it to the same bytes).                      *)
(***************************************************************************)
EXTENDS AwSync, TLC

OwnerOf == [claude_bundle |-> "claude", claude_dropin |-> "claude",
            codex_requirements |-> "codex", agy_admin |-> "agy"]

MCFiles == {f \in DOMAIN OwnerOf : OwnerOf[f] \in Agents}
MCOwner == [f \in MCFiles |-> OwnerOf[f]]
MCJson  == MCFiles \ {"codex_requirements"}

MCRendering(p, b) ==
  CASE p = "claude_bundle"      -> [version |-> b.version, slice |-> b.slice]
    [] p = "claude_dropin"      -> [policyHelper |-> "aw-policy"]
    [] p = "codex_requirements" -> [version |-> b.version, slice |-> b.slice]
    [] p = "agy_admin"          -> [slice |-> b.slice]

KeySymmetry == Permutations(Keys)
=============================================================================
