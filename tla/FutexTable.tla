----------------------------- MODULE FutexTable -----------------------------
(***************************************************************************)
(* The futex objects of a memory region: vm_futex(), vm_getfutex() and     *)
(* futex_destroy() (src/kernel/src/vm/futex.c) on the list that starts at  *)
(* vr_futex and is sorted by address.  Every link of the list is an        *)
(* atomic_rwptr_t, a pointer with a small R/W-lock in its low bits         *)
(* (include/hybrid/sync/atomic-rwptr.h).                                   *)
(*                                                                         *)
(*   ptr[p]     the pointer in link p: Root is vr_futex, a futex stands    *)
(*              for its f_next                                             *)
(*   rcnt[p]    the number of read locks of that link                      *)
(*   wmode[p]   its write lock                                             *)
(*   f_pself, f_addr, f_refcnt   the other members of a futex              *)
(*   futex_cache  the free objects; kmalloc() and kfree(), which continue  *)
(*              the cache where it is empty or full, are its lower end     *)
(*   region     the region exists                                          *)
(*   torn       memory was freed that another task is about to use         *)
(*   th[t]      the call task t is in (pc, op, addr), its locals (iter,    *)
(*              new, self) and the reference it was last given (ref)       *)
(***************************************************************************)
EXTENDS Naturals, SequencesExt

CONSTANTS
  Task, Addr, Futex, Root, NoFutex,
  Getter,        \* tasks that call vm_futex()
  Finder,        \* tasks that call vm_getfutex()
  Dropper,       \* tasks that drop their references
  Unmapping,     \* whether the region may be unmapped and destroyed
  MaxCalls       \* bound: lookups in all

VARIABLES ptr, rcnt, wmode, f_pself, f_addr, f_refcnt, futex_cache, region, torn,
          th, calls

links == <<ptr, rcnt, wmode>>
fields == <<f_pself, f_addr, f_refcnt>>
vars == <<links, fields, futex_cache, region, torn, th, calls>>

ASSUME TableAssumption ==
  /\ Addr \subseteq Nat
  /\ Root \notin Futex /\ NoFutex \notin Futex /\ Root # NoFutex

Link == Futex \cup {Root}

Calls == {"vm_futex", "vm_getfutex"}

TypeOK ==
  /\ ptr \in [Link -> Futex \cup {NoFutex}]
  /\ rcnt \in [Link -> 0 .. 7] /\ wmode \in [Link -> BOOLEAN]
  /\ f_pself \in [Futex -> Link] /\ f_addr \in [Futex -> Addr]
  /\ f_refcnt \in [Futex -> 0 .. Cardinality(Task)]
  /\ futex_cache \in Seq(Futex) /\ region \in BOOLEAN /\ torn \in BOOLEAN
  /\ th \in [Task -> [pc : {"idle", "search", "look", "step", "relock", "link",
                            "publish", "destroy", "self", "unlink"},
                      op : Calls, addr : Addr, iter : Link,
                      new : Futex \cup {NoFutex}, ref : Futex \cup {NoFutex}]]
  /\ calls \in 0 .. MaxCalls

AnyAddr == CHOOSE a \in Addr : TRUE

Outside == [pc |-> "idle", op |-> "vm_futex", addr |-> AnyAddr, iter |-> Root,
            new |-> NoFutex, ref |-> NoFutex]

Init ==
  /\ ptr = [p \in Link |-> NoFutex]
  /\ rcnt = [p \in Link |-> 0] /\ wmode = [p \in Link |-> FALSE]
  /\ f_pself = [f \in Futex |-> Root] /\ f_addr = [f \in Futex |-> AnyAddr]
  /\ f_refcnt = [f \in Futex |-> 0]
  /\ futex_cache = SetToSeq(Futex) /\ region = TRUE /\ torn = FALSE
  /\ th = [t \in Task |-> Outside]
  /\ calls = 0

-----------------------------------------------------------------------------
(* atomic_rwptr_t.                                                         *)
(***************************************************************************)

Unlocked(p) == ~wmode[p] /\ rcnt[p] = 0

Readable(p) == ~wmode[p] /\ rcnt[p] < 7

futex_free(f) == futex_cache' = <<f>> \o futex_cache

GoTo(t, pc) == th' = [th EXCEPT ![t].pc = pc]

Return(t, f) == th' = [th EXCEPT ![t] = [Outside EXCEPT !.ref = f]]

-----------------------------------------------------------------------------
(* vm_futex() and vm_getfutex().                                           *)
(***************************************************************************)

(* The caller's address lies in the region, which vm_acquire_read() keeps  *)
(* mapped until the call returns.                                          *)
Call(t) ==
  /\ th[t].pc = "idle" /\ th[t].ref = NoFutex
  /\ calls < MaxCalls /\ region
  /\ \E op \in Calls, a \in Addr :
       /\ t \in (IF op = "vm_futex" THEN Getter ELSE Finder)
       /\ th' = [th EXCEPT ![t] = [Outside EXCEPT !.pc = "search", !.op = op, !.addr = a]]
  /\ calls' = calls + 1
  /\ UNCHANGED <<links, fields, futex_cache, region, torn>>

(* search_again: the walk starts with the read lock of vr_futex.           *)
Search(t) ==
  /\ th[t].pc = "search" /\ Readable(Root)
  /\ rcnt' = [rcnt EXCEPT ![Root] = @ + 1]
  /\ th' = [th EXCEPT ![t].pc = "look", ![t].iter = Root]
  /\ UNCHANGED <<ptr, wmode, fields, futex_cache, region, torn, calls>>

Looking(t) == th[t].pc = "look"

Result(t) == ptr[th[t].iter]

(* Mutant: a futex that is being destroyed is revived. *)
HitDying(t) ==
  /\ Result(t) # NoFutex
  /\ f_addr[Result(t)] = th[t].addr

(* The futex behind `iter' is the one the task looks for, and is alive.    *)
Hit(t) ==
  /\ Result(t) # NoFutex
  /\ f_addr[Result(t)] = th[t].addr
  /\ f_refcnt[Result(t)] > 0

(* The walk has to go on behind the futex.                                 *)
Before(t) == Result(t) # NoFutex /\ f_addr[Result(t)] < th[t].addr

(* No futex, one at a greater address, or one of the same address that is  *)
(* about to be destroyed.                                                  *)
Miss(t) == ~Hit(t) /\ ~Before(t)

EndRead(t) == rcnt' = [rcnt EXCEPT ![th[t].iter] = @ - 1]

(* ATOMIC_INCIFNONZERO(): a reference, and `new_futex' is not needed.      *)
Take(t) ==
  /\ Looking(t) /\ Hit(t)
  /\ f_refcnt' = [f_refcnt EXCEPT ![Result(t)] = @ + 1]
  /\ EndRead(t)
  /\ IF th[t].new = NoFutex THEN UNCHANGED futex_cache ELSE futex_free(th[t].new)
  /\ Return(t, Result(t))
  /\ UNCHANGED <<ptr, wmode, f_pself, f_addr, region, torn, calls>>

Advance(t) ==
  /\ Looking(t) /\ Before(t)
  /\ GoTo(t, "step")
  /\ UNCHANGED <<links, fields, futex_cache, region, torn, calls>>

(* The read lock of the next link is taken while that of the current one   *)
(* is held.                                                                *)
Step(t) ==
  /\ th[t].pc = "step" /\ Readable(Result(t))
  /\ rcnt' = [rcnt EXCEPT ![Result(t)] = @ + 1, ![th[t].iter] = @ - 1]
  /\ th' = [th EXCEPT ![t].pc = "look", ![t].iter = Result(t)]
  /\ UNCHANGED <<ptr, wmode, fields, futex_cache, region, torn, calls>>

(* vm_getfutex() gives up.  Only the path of an empty link ends the read   *)
(* lock; `goto fail_unlock' leaves it behind.                              *)
GiveUp(t) ==
  /\ Looking(t) /\ Miss(t) /\ th[t].op = "vm_getfutex"
  /\ rcnt' = IF Result(t) = NoFutex
             THEN [rcnt EXCEPT ![th[t].iter] = @ - 1] ELSE rcnt
  /\ Return(t, NoFutex)
  /\ UNCHANGED <<ptr, wmode, fields, futex_cache, region, torn, calls>>

Inserting(t) == Looking(t) /\ Miss(t) /\ th[t].op = "vm_futex"

(* futex_alloc() is called without the lock, and the search is repeated.   *)
Alloc(t) ==
  /\ Inserting(t) /\ th[t].new = NoFutex
  /\ EndRead(t)
  /\ futex_cache # <<>> /\ futex_cache' = Tail(futex_cache)
  /\ th' = [th EXCEPT ![t].pc = "search", ![t].new = Head(futex_cache)]
  /\ UNCHANGED <<ptr, wmode, fields, region, torn, calls>>

(* E_BADALLOC of the kmalloc() in futex_alloc(). *)
BadAlloc(t) ==
  /\ Inserting(t) /\ th[t].new = NoFutex
  /\ EndRead(t)
  /\ Return(t, NoFutex)
  /\ UNCHANGED <<ptr, wmode, fields, futex_cache, region, torn, calls>>

(* atomic_rwptr_tryupgrade() succeeds for the only reader. *)
Upgrade(t) ==
  /\ Inserting(t) /\ th[t].new # NoFutex
  /\ rcnt[th[t].iter] = 1
  /\ rcnt' = [rcnt EXCEPT ![th[t].iter] = 0]
  /\ wmode' = [wmode EXCEPT ![th[t].iter] = TRUE]
  /\ GoTo(t, "link")
  /\ UNCHANGED <<ptr, fields, futex_cache, region, torn, calls>>

(* Otherwise the lock is given up ...                                      *)
UpgradeLosesLock(t) ==
  /\ Inserting(t) /\ th[t].new # NoFutex
  /\ rcnt[th[t].iter] # 1
  /\ EndRead(t)
  /\ GoTo(t, "relock")
  /\ UNCHANGED <<ptr, wmode, fields, futex_cache, region, torn, calls>>

(* ... and atomic_rwptr_write(iter) waits for it, only to be followed by   *)
(* atomic_rwptr_endwrite(iter) and another search.                         *)
Relock(t) ==
  /\ th[t].pc = "relock" /\ Unlocked(th[t].iter)
  /\ GoTo(t, "search")
  /\ UNCHANGED <<links, fields, futex_cache, region, torn, calls>>

(* Mutant: the self-pointer of the successor is not updated. *)
LinkKeepsSelf(t) ==
  LET iter == th[t].iter
      new == th[t].new
      next == ptr[iter]
  IN /\ th[t].pc = "link" /\ (next # NoFutex => Unlocked(next))
     /\ ptr' = [ptr EXCEPT ![new] = next]
     /\ rcnt' = [rcnt EXCEPT ![new] = 0]
     /\ wmode' = [wmode EXCEPT ![new] = FALSE]
     /\ f_refcnt' = [f_refcnt EXCEPT ![new] = 1]
     /\ f_addr' = [f_addr EXCEPT ![new] = th[t].addr]
     /\ f_pself' = [f_pself EXCEPT ![new] = iter]
     /\ GoTo(t, "publish")
     /\ UNCHANGED <<futex_cache, region, torn, calls>>

(* The new futex is initialised and the self-pointer of its successor set, *)
(* under the successor's lock.                                             *)
LinkNew(t) ==
  LET iter == th[t].iter
      new == th[t].new
      next == ptr[iter]
  IN /\ th[t].pc = "link" /\ (next # NoFutex => Unlocked(next))
     /\ ptr' = [ptr EXCEPT ![new] = next]
     /\ rcnt' = [rcnt EXCEPT ![new] = 0]
     /\ wmode' = [wmode EXCEPT ![new] = FALSE]
     /\ f_refcnt' = [f_refcnt EXCEPT ![new] = 1]
     /\ f_addr' = [f_addr EXCEPT ![new] = th[t].addr]
     /\ f_pself' = [f \in Futex |-> IF f = new THEN iter
                                    ELSE IF f = next THEN new ELSE f_pself[f]]
     /\ GoTo(t, "publish")
     /\ UNCHANGED <<futex_cache, region, torn, calls>>

(* The successor is locked: unlock everything and start over.              *)
LinkFails(t) ==
  LET next == ptr[th[t].iter]
  IN /\ th[t].pc = "link" /\ next # NoFutex /\ ~Unlocked(next)
     /\ wmode' = [wmode EXCEPT ![th[t].iter] = FALSE]
     /\ GoTo(t, "search")
     /\ UNCHANGED <<ptr, rcnt, fields, futex_cache, region, torn, calls>>

(* ATOMIC_STORE(iter->ap_data,new_futex) also unlocks `iter'.              *)
Publish(t) ==
  /\ th[t].pc = "publish"
  /\ ptr' = [ptr EXCEPT ![th[t].iter] = th[t].new]
  /\ wmode' = [wmode EXCEPT ![th[t].iter] = FALSE]
  /\ Return(t, th[t].new)
  /\ UNCHANGED <<rcnt, fields, futex_cache, region, torn, calls>>

-----------------------------------------------------------------------------
(* futex_decref() and futex_destroy().                                     *)
(***************************************************************************)

(* The object of a reference that is gone stays in `ref' while the task    *)
(* destroys it.                                                            *)
Decref(t) ==
  LET self == th[t].ref
  IN /\ th[t].pc = "idle" /\ self # NoFutex /\ t \in Dropper
     /\ f_refcnt' = [f_refcnt EXCEPT ![self] = @ - 1]
     /\ IF f_refcnt[self] = 1 THEN GoTo(t, "destroy") ELSE Return(t, NoFutex)
     /\ UNCHANGED <<links, f_pself, f_addr, futex_cache, region, torn, calls>>

(* Mutant: the tasks that are reading the link are not waited for. *)
DestroyLockShared(t) ==
  /\ th[t].pc = "destroy" /\ ~wmode[th[t].ref]
  /\ wmode' = [wmode EXCEPT ![th[t].ref] = TRUE]
  /\ GoTo(t, "self")
  /\ UNCHANGED <<ptr, rcnt, fields, futex_cache, region, torn, calls>>

(* The lock of f_next keeps f_pself from being modified. *)
DestroyLock(t) ==
  /\ th[t].pc = "destroy" /\ Unlocked(th[t].ref)
  /\ wmode' = [wmode EXCEPT ![th[t].ref] = TRUE]
  /\ GoTo(t, "self")
  /\ UNCHANGED <<ptr, rcnt, fields, futex_cache, region, torn, calls>>

(* The link that points to the futex is locked next, if it is free.  No    *)
(* code ever clears f_pself, so it is never NULL here; with the region     *)
(* gone, it points into freed memory.                                      *)
DestroyLockSelf(t) ==
  LET self == th[t].ref
  IN /\ th[t].pc = "self"
     /\ torn' = (f_pself[self] = Root /\ ~region)
     /\ IF Unlocked(f_pself[self])
        THEN /\ wmode' = [wmode EXCEPT ![f_pself[self]] = TRUE]
             /\ GoTo(t, "unlink")
        ELSE /\ wmode' = [wmode EXCEPT ![self] = FALSE]
             /\ GoTo(t, "destroy")
     /\ UNCHANGED <<ptr, rcnt, fields, futex_cache, region, calls>>

(* Another task's walk, its retry of the lock or its futex_destroy() still *)
(* needs the object.                                                       *)
InUse(t, f) ==
  \E u \in Task \ {t} :
    \/ th[u].pc \in {"look", "step", "relock", "link", "publish"} /\ th[u].iter = f
    \/ th[u].pc = "step" /\ ptr[th[u].iter] = f
    \/ th[u].pc \in {"self", "unlink"} /\ f_pself[th[u].ref] = f

(* With the successor's lock, its self-pointer takes over that of the      *)
(* futex; the link to the futex is pointed at the successor and unlocked   *)
(* by the same store.  Then the object is freed, its own link locked.      *)
DestroyUnlink(t) ==
  LET self == th[t].ref
      pself == f_pself[self]
      next == ptr[self]
  IN /\ th[t].pc = "unlink" /\ (next # NoFutex => Unlocked(next))
     /\ ptr' = [ptr EXCEPT ![pself] = next]
     /\ wmode' = [wmode EXCEPT ![pself] = FALSE]
     /\ f_pself' = [f \in Futex |-> IF f = next THEN pself ELSE f_pself[f]]
     /\ futex_free(self)
     /\ torn' = InUse(t, self)
     /\ Return(t, NoFutex)
     /\ UNCHANGED <<rcnt, f_addr, f_refcnt, region, calls>>

DestroyFails(t) ==
  LET self == th[t].ref
      next == ptr[self]
  IN /\ th[t].pc = "unlink" /\ next # NoFutex /\ ~Unlocked(next)
     /\ wmode' = [wmode EXCEPT ![f_pself[self]] = FALSE, ![self] = FALSE]
     /\ GoTo(t, "destroy")
     /\ UNCHANGED <<ptr, rcnt, fields, futex_cache, region, torn, calls>>

(* vm_region_destroy(), once the region is not mapped by any VM: it does   *)
(* nothing about the futex objects that handles still refer to.            *)
RegionDestroy ==
  /\ Unmapping /\ region
  /\ \A t \in Task : th[t].pc \in {"idle", "destroy", "self", "unlink"}
  /\ region' = FALSE
  /\ torn' = \E t \in Task : th[t].pc = "unlink" /\ f_pself[th[t].ref] = Root
  /\ UNCHANGED <<links, fields, futex_cache, th, calls>>

-----------------------------------------------------------------------------
TaskStep(t) ==
  \/ Search(t) \/ Take(t) \/ Advance(t) \/ Step(t) \/ GiveUp(t)
  \/ Alloc(t) \/ BadAlloc(t) \/ Upgrade(t) \/ UpgradeLosesLock(t) \/ Relock(t)
  \/ LinkNew(t) \/ LinkFails(t) \/ Publish(t)
  \/ DestroyLock(t) \/ DestroyLockSelf(t) \/ DestroyUnlink(t) \/ DestroyFails(t)

(* Once freed memory is used, nothing more can be said. *)
Next ==
  /\ ~torn
  /\ \/ \E t \in Task : Call(t) \/ Decref(t) \/ TaskStep(t)
     \/ RegionDestroy

Spec == Init /\ [][Next]_vars

(* Every task is scheduled again and again: a call that can take its next  *)
(* step eventually does.                                                   *)
FairSpec == Spec /\ \A t \in Task : WF_vars(~torn /\ TaskStep(t))

-----------------------------------------------------------------------------
(* What must hold.                                                         *)
(***************************************************************************)

(* What link p points to, for whoever gets its lock next: the task that is *)
(* about to store a new futex keeps the link locked until it does.         *)
PointsTo(p) ==
  IF \E t \in Task : th[t].pc = "publish" /\ th[t].iter = p
  THEN th[CHOOSE t \in Task : th[t].pc = "publish" /\ th[t].iter = p].new
  ELSE ptr[p]

(* The links in the order of the list, vr_futex first. *)
List ==
  LET next == [p \in Link |-> PointsTo(p)]
      walk[n \in 0 .. Cardinality(Futex) + 1] ==
        IF n = 0 THEN <<Root>>
        ELSE LET q == walk[n - 1]
                 f == next[q[Len(q)]]
             IN IF f = NoFutex THEN q ELSE Append(q, f)
  IN walk[Cardinality(Futex) + 1]

(* The list holds allocated objects, each once, in the order of their      *)
(* addresses (`[sort(ASCENDING(f_addr))]' in vm.h).  Of those that share   *)
(* an address only the first may be alive: the others wait for the locks   *)
(* of futex_destroy() behind the one vm_futex() put in front.  f_pself is  *)
(* the link that points to the futex, and no futex that has references is  *)
(* missing.                                                                *)
WellLinked ==
  LET q == List
  IN /\ \A i \in 2 .. Len(q) : q[i] \notin Range(futex_cache) /\ f_pself[q[i]] = q[i - 1]
     /\ \A i, j \in 2 .. Len(q) :
          i < j => /\ q[i] # q[j]
                   /\ f_addr[q[i]] <= f_addr[q[j]]
                   /\ f_addr[q[i]] = f_addr[q[j]] => f_refcnt[q[j]] = 0
     /\ {f \in Futex : f_refcnt[f] > 0} \subseteq Range(q)

(* Taking one link's lock after the other protects every task against the  *)
(* destruction of the object it is working on.  The exception is the task  *)
(* whose atomic_rwptr_upgrade() gave its lock up (and a futex that         *)
(* outlives its region).                                                   *)
LocksProtect ==
  torn => ~region \/ \E t \in Task : th[t].pc = "relock" /\ th[t].iter \in Range(futex_cache)

(* vm_futex(), vm_getfutex() and futex_decref() behave as if each were one *)
(* step on a map from addresses to futex objects.                          *)
Published == Futex \ {th[t].new : t \in Task}

LiveAt ==
  [a \in Addr |-> LET live == {f \in Published : f_refcnt[f] > 0 /\ f_addr[f] = a}
                 IN IF live = {} THEN NoFutex ELSE CHOOSE f \in live : TRUE]

Map == INSTANCE FutexMap WITH
  live <- LiveAt,
  ans <- [t \in Task |-> IF th[t].pc = "idle" THEN th[t].ref
                         ELSE IF th[t].pc \in {"destroy", "self", "unlink"} THEN NoFutex
                         ELSE [op |-> th[t].op, addr |-> th[t].addr]]

ImplementsMap == Map!Spec

-----------------------------------------------------------------------------
(* What does not hold.                                                     *)
(***************************************************************************)

(* vm.h: "Return a pointer to the futex at the given address. If not futex *)
(* has been allocated at that address, allocate a new one."  A vm_futex()  *)
(* call returns.                                                           *)
FutexReturned ==
  \A t \in Task : th[t].op = "vm_futex" /\ th[t].pc = "search" ~> th[t].pc = "idle"

(* Nobody uses an object that was freed while the region exists. *)
NothingTorn == torn => ~region

(* vm.h: f_pself is "NULL for unlinked futex objects; aka. when the region *)
(* was deleted".                                                           *)
DeletedUnlinks == ~region => \A f \in Futex \ Range(futex_cache) : f_pself[f] # Root
=============================================================================
