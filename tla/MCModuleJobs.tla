---------------------------- MODULE MCModuleJobs ----------------------------
(* Instances of ModuleJobs for TLC. *)
EXTENDS ModuleJobs, TLC

CONSTANTS r1, r2

Symmetry == Permutations(Replicas)

Intervals == [j \in Jobs |-> 2]
=============================================================================
