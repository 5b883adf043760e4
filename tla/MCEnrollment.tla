---------------------------- MODULE MCEnrollment ----------------------------
(***************************************************************************)
(* Enrollment for TLC.  Hosts, commands, tokens, ids and keys are          *)
(* interchangeable.                                                        *)
(***************************************************************************)
EXTENDS Enrollment, TLC

Symmetry == Permutations(Hosts) \cup Permutations(Procs) \cup Permutations(Tokens)
              \cup Permutations(Ids) \cup Permutations(Keys)
=============================================================================
