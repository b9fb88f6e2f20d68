------------------------------ MODULE MCChainSync ------------------------------
(* Small instances of ChainSync.  Tasks are interchangeable, which the safety *)
(* runs use as symmetry.                                                      *)
EXTENDS ChainSync, TLC

CONSTANTS t1, t2

OneTask      == {t1}
TwoTasks     == {t1, t2}
TaskSymmetry == Permutations(Tasks)
=============================================================================
