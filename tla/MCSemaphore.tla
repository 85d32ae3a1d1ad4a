----------------------------- MODULE MCSemaphore -----------------------------
(* Instances of Semaphore for TLC. *)
EXTENDS Semaphore

CONSTANTS t1, t2, t3, sig

TheTasks == {t1, t2, t3}
TheSig == {sig}
None == {}
First == {t1}
=============================================================================
