-------------------------- MODULE MCCommandCommit --------------------------
(******************************************************************************)
(* Commands for TLC.                                                          *)
(******************************************************************************)
EXTENDS CommandCommit, TLC

CONSTANTS deploy, again, note, view

\* A journaled command and a retry of it under a new commandId.
Retried == (deploy :> 1) @@ (again :> 1) @@ (note :> 2)
\* Commands with keys of their own.
Distinct == (deploy :> 1) @@ (note :> 2)
=============================================================================
