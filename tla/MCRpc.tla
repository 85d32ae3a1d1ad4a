------------------------------- MODULE MCRpc -------------------------------
(***************************************************************************)
(* Instances of Rpc for TLC.                                               *)
(***************************************************************************)
EXTENDS Rpc, TLC

CONSTANTS t1, t2, t3, r1, r2, r3

TwoTasks == {t1, t2}
ThreeTasks == {t1, t2, t3}
T1 == {t1}
T2 == {t2}
T3 == {t3}
None == {}
TwoRpcs == {r1, r2}
ThreeRpcs == {r1, r2, r3}
TwoSigs == {r1, r2, join_signal}
ThreeSigs == {r1, r2, r3, join_signal}

KernelModes == [flag : {"kernel"}, sync : BOOLEAN]
SomeModes == {[flag |-> "kernel", sync |-> TRUE], [flag |-> "kernel", sync |-> FALSE],
              [flag |-> "uasync", sync |-> FALSE], [flag |-> "usync", sync |-> TRUE]}

Perms == Permutations(RpcId)
=============================================================================
