------------------------------ MODULE MCSched ------------------------------
(* Instances of Sched for TLC. *)
EXTENDS Sched, TLC

CONSTANTS c1, c2, i2, tw, tm, tx, ty

TwoCpus == {c1, c2}
OneCpu == {c1}
MCIdle == c2 :> i2
MCHome == [t \in Task |-> IF t \in {i2, tw} THEN c2 ELSE c1]
NoIdle == [c \in {} |-> tm]
AllBoot == [t \in Task |-> c1]
Twice == [t \in Task |-> 2]
Once == [t \in Task |-> 1]
=============================================================================
