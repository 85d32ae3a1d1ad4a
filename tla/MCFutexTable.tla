---------------------------- MODULE MCFutexTable ----------------------------
(***************************************************************************)
(* Instances of FutexTable for TLC: two addresses and memory for three     *)
(* futexes.                                                                *)
(***************************************************************************)
EXTENDS FutexTable, TLC

CONSTANTS t1, t2, t3, f1, f2, f3

TwoTasks == {t1, t2}
ThreeTasks == {t1, t2, t3}
None == {}
OneTwo == {1, 2}
ThreeFutexes == {f1, f2, f3}

Perms == Permutations(Task)
=============================================================================
