------------------------------ MODULE MCSignal ------------------------------
(* Instances of Signal for TLC: two or three tasks that share one signal,  *)
(* and at most one channel besides the master channel.                     *)
EXTENDS Signal

CONSTANTS t1, t2, t3, s1, ch

TwoTasks == {t1, t2}
ThreeTasks == {t1, t2, t3}
First == {t1}
Second == {t2}
OneSig == {s1}
OneChan == {ch}
NoChan == {}
None == {}
=============================================================================
