------------------------------- MODULE MCMutex -------------------------------
(* Instances of Mutex for TLC: three tasks, the first of which may poll.   *)
EXTENDS Mutex

CONSTANTS t1, t2, t3, sig

TheTasks == {t1, t2, t3}
TheSig == {sig}
None == {}
First == {t1}
Second == {t2}
=============================================================================
