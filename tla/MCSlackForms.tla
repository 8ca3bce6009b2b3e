---------------------------- MODULE MCSlackForms ----------------------------
(***************************************************************************)
(* A small instance of SlackForms: enough goroutines for two updates to    *)
(* race with each other and with a submission.                             *)
(***************************************************************************)
EXTENDS SlackForms, TLC

MCSymmetry == Permutations(Worker) \cup Permutations(View)
=============================================================================
