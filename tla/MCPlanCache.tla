----------------------------- MODULE MCPlanCache ----------------------------
(***************************************************************************)
(* Instances of PlanCache for TLC.                                         *)
(***************************************************************************)
EXTENDS PlanCache, TLC

\* The sessions are interchangeable, and so are the contents of data/.
MCSymmetry == Permutations(CLIs) \cup Permutations(DataFiles)
=============================================================================
