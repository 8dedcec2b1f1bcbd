-------------------------- MODULE MCPlanGeneration --------------------------
(***************************************************************************)
(* PlanGeneration on small instances: items and workers are each           *)
(* interchangeable.                                                        *)
(***************************************************************************)
EXTENDS PlanGeneration, TLC

CONSTANTS r1, i1, i2, w1, w2, norun, nojob

WorkerItemSymmetry == Permutations(Workers) \cup Permutations(Items)
=============================================================================
