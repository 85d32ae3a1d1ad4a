----------------------------- MODULE ReadLockMap -----------------------------
(***************************************************************************)
(* What a thread's set of read-descriptors promises to rwlock.c: at most   *)
(* one descriptor per R/W-lock, which keeps its recursion counter until it *)
(* is deleted.                                                             *)
(***************************************************************************)
EXTENDS Integers

CONSTANT Lock

VARIABLE recursion   \* recursion[l] is None while lock l has no descriptor

None == -1

Init == recursion = [l \in Lock |-> None]

(* A new descriptor, which counts nothing yet or the caller's read-lock. *)
Get(l) == recursion[l] = None /\ recursion'[l] \in {0, 1}

(* One more or one less lock of an existing descriptor. *)
Count(l) ==
  /\ recursion[l] # None
  /\ recursion'[l] \in {recursion[l] + 1, recursion[l] - 1} \cap Nat

Delete(l) == recursion[l] # None /\ recursion'[l] = None

(* Nothing happens to two descriptors at once. *)
Next ==
  \E l \in Lock :
    /\ \A k \in Lock \ {l} : recursion'[k] = recursion[k]
    /\ Get(l) \/ Count(l) \/ Delete(l)

Spec == Init /\ [][Next]_recursion
=============================================================================
