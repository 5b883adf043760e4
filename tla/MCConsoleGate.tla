---------------------------- MODULE MCConsoleGate ----------------------------
(***************************************************************************)
(* ConsoleGate for TLC.                                                    *)
(***************************************************************************)
EXTENDS ConsoleGate
=============================================================================
