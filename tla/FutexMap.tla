------------------------------ MODULE FutexMap ------------------------------
(***************************************************************************)
(* What vm_futex(), vm_getfutex() and futex_decref() promise for one       *)
(* region (src/kernel/include/kernel/vm.h): every address has at most one  *)
(* futex, the callers that hold a reference share it, and it exists as     *)
(* long as such a reference does.                                          *)
(*                                                                         *)
(*   live[a]  the futex of address a, or NoFutex                           *)
(*   ans[t]   what task t is doing: the call it is in, or the answer of    *)
(*            its last call (a reference it holds, or NoFutex)             *)
(***************************************************************************)
CONSTANTS Task, Addr, Futex, NoFutex

VARIABLES live, ans

Init ==
  /\ live = [a \in Addr |-> NoFutex]
  /\ ans = [t \in Task |-> NoFutex]

Request == [op : {"vm_futex", "vm_getfutex"}, addr : Addr]

Call(t) ==
  /\ ans[t] = NoFutex
  /\ \E r \in Request : ans' = [ans EXCEPT ![t] = r]
  /\ UNCHANGED live

(* The futex of the address, if it has one. *)
Find(t) ==
  /\ ans[t] \in Request
  /\ ans[t].op = "vm_getfutex" \/ live[ans[t].addr] # NoFutex
  /\ ans' = [ans EXCEPT ![t] = live[ans[t].addr]]
  /\ UNCHANGED live

(* vm_futex() allocates the one that is missing. *)
Allocate(t) ==
  /\ ans[t] \in Request
  /\ ans[t].op = "vm_futex" /\ live[ans[t].addr] = NoFutex
  /\ \E f \in Futex :
       /\ \A a \in Addr : live[a] # f
       /\ live' = [live EXCEPT ![ans[t].addr] = f]
       /\ ans' = [ans EXCEPT ![t] = f]

(* E_BADALLOC. *)
Refuse(t) ==
  /\ ans[t] \in Request
  /\ ans[t].op = "vm_futex"
  /\ ans' = [ans EXCEPT ![t] = NoFutex]
  /\ UNCHANGED live

(* futex_decref(): the last reference takes the futex with it. *)
Drop(t) ==
  /\ ans[t] \in Futex
  /\ ans' = [ans EXCEPT ![t] = NoFutex]
  /\ live' = [a \in Addr |->
                IF live[a] = ans[t] /\ (\A u \in Task \ {t} : ans[u] # ans[t])
                THEN NoFutex ELSE live[a]]

Next == \E t \in Task : Call(t) \/ Find(t) \/ Allocate(t) \/ Refuse(t) \/ Drop(t)

Spec == Init /\ [][Next]_<<live, ans>>
=============================================================================
