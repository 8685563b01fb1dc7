-------------------------- MODULE MCAnalysisQueue --------------------------
(* Instances of AnalysisQueue for TLC: the sets of processes and rows, and *)
(* the symmetries that are sound for safety (processes are interchangeable,*)
(* rows are not: they are listed oldest first).                            *)
EXTENDS AnalysisQueue, TLC

CONSTANTS MaxRuns

MCRunIds == 1..MaxRuns

ProcessSymmetry ==
  Permutations(Entries) \cup Permutations(Drains) \cup Permutations(Changers)
=============================================================================
