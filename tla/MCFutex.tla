------------------------------ MODULE MCFutex ------------------------------
(***************************************************************************)
(* Instances of Futex for TLC.                                             *)
(***************************************************************************)
EXTENDS Futex

CONSTANTS t1, t2, t3

ThreeTasks == {t1, t2, t3}
Words == {cond, lock}
None == {}
T1 == {t1}
T2 == {t2}
T3 == {t3}
T12 == {t1, t2}
=============================================================================
