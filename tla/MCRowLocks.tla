------------------------------ MODULE MCRowLocks ------------------------------
(* Instances of RowLocks: one task that executes and one that sleeps *)
EXTENDS RowLocks, TLC

OneRunsOneSleeps == <<{"running"}, {"sleeping"}>>
OneRuns == <<{"running"}>>

Symmetry == Permutations(Session)
===============================================================================
