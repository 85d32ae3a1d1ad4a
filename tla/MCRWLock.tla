------------------------------ MODULE MCRWLock ------------------------------
(* Instances of RWLock for TLC: three tasks. *)
EXTENDS RWLock

CONSTANTS t1, t2, t3

TheTasks == {t1, t2, t3}
TheSigs == {rw_chmode, rw_unshare}
None == {}
First == {t1}
FirstTwo == {t1, t2}
Third == {t3}
=============================================================================
