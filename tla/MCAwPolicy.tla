----------------------------- MODULE MCAwPolicy -----------------------------
(***************************************************************************)
(* AwPolicy for TLC: one machine with Claude alone, whose narrowed bundle  *)
(* is the unsigned fallback.                                               *)
(***************************************************************************)
EXTENDS AwPolicy, TLC

MCFiles == {"claude_bundle"}
MCOwner == [f \in MCFiles |-> "claude"]

MCRendering(p, b) == [version |-> b.version, slice |-> b.slice]

KeySymmetry == Permutations(Keys)
=============================================================================
