---------------------------- MODULE MCScheduler ----------------------------
(***************************************************************************)
(* Small instances of Scheduler for TLC.                                   *)
(***************************************************************************)
EXTENDS Scheduler, TLC

\* A schedule that fires at each time; one that fires once beside it.
OneCron == {{1, 2}}
TwoCrons == {{1, 2, 3}, {2}}

Symmetry == Permutations(Pollers) \cup Permutations(Pipelines)
=============================================================================
