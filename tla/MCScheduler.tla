---------------------------- MODULE MCScheduler ----------------------------
(* Instances of Scheduler for TLC. *)
EXTENDS Scheduler, TLC

\* Ids, processes and actions are compared for equality only.
Symmetry ==
    Permutations(Item) \cup Permutations(Run) \cup
    Permutations(Web) \cup Permutations(Action)
=============================================================================
