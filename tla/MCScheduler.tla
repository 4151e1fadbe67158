----------------------------- MODULE MCScheduler -----------------------------
(***************************************************************************)
(* Scheduler with two process structures, which are interchangeable.       *)
(***************************************************************************)
EXTENDS Scheduler, TLC

ProcSymmetry == Permutations(Procs)
=============================================================================
