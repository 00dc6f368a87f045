------------------------------ MODULE MCRxFlow ------------------------------
(* Instances of RxFlow for TLC.                                            *)
EXTENDS RxFlow, TLC

CONSTANTS t1, t2

TwoTasks == {t1, t2}

TaskSymmetry == Permutations(TwoTasks)
=============================================================================
