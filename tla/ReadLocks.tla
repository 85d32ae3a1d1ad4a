------------------------------ MODULE ReadLocks ------------------------------
(***************************************************************************)
(* The read-descriptors of one thread: an open-addressing hash vector with *)
(* dummies (src/kernel/src/sched/rwlock.c, rwlock.h), used by rwlock_read()*)
(* and rwlock_end().                                                       *)
(*                                                                         *)
(*   rls_vec, rls_use, rls_cnt, rls_msk   struct read_locks; slots are     *)
(*       numbered from 0                                                   *)
(*   frames  the calls in progress, innermost last: one that allocates a   *)
(*           larger vector, or one that waits with a pointer to a fresh    *)
(*           descriptor (current: rls_vec is still the vector it points    *)
(*           into).  kmalloc() and task_waitfor() serve RPC callbacks,     *)
(*           which use the same vector before the outer call continues.    *)
(*   held    read-locks the thread has acquired and not ended              *)
(*   overfull  a vector was re-hashed into one that has no slot to spare   *)
(*                                                                         *)
(* A lock is represented by its RWLOCK_HASH().                             *)
(***************************************************************************)
EXTENDS Integers, Sequences, SequencesExt, FiniteSets, FiniteSetsExt

CONSTANTS
  Lock,
  Contended,    \* those that another thread may have for writing
  Recursive,    \* those the thread reads again while it does
  ServeInWait,  \* may callbacks served in task_waitfor() take read-locks?
  MaxMsk,       \* bound on rls_msk
  MaxNest,      \* bound on the calls in progress
  MaxHeld       \* bound on recursion

ASSUME ReadLocksAssumption ==
  /\ Lock \subseteq Nat
  /\ Contended \subseteq Lock /\ Recursive \subseteq Lock
  /\ ServeInWait \in BOOLEAN
  /\ {MaxMsk, MaxNest, MaxHeld} \subseteq Nat

VARIABLES rls_vec, rls_use, rls_cnt, rls_msk, frames, held, overfull

locks == <<rls_vec, rls_use, rls_cnt, rls_msk>>
vars == <<locks, frames, held, overfull>>

NULL == -1
DUMMY == -2   \* READLOCK_DUMMYLOCK
NoSlot == -1
Absent == -1

Entry(l, n) == [rl_rwlock |-> l, rl_recursion |-> n]
EmptyVec(msk) == [i \in 0 .. msk |-> Entry(NULL, 0)]

Frame == [lock : Lock, at : {"kmalloc", "waitfor"}, new_mask : Nat, slot : Int,
          current : BOOLEAN, held : [Lock -> Nat]]

TypeOK ==
  /\ rls_msk \in Nat
  /\ rls_vec \in [0 .. rls_msk -> [rl_rwlock : Lock \cup {NULL, DUMMY}, rl_recursion : Nat]]
  /\ {rls_use, rls_cnt} \subseteq Nat
  /\ frames \in Seq(Frame)
  /\ held \in [Lock -> Nat]
  /\ overfull \in BOOLEAN

Init ==
  /\ rls_msk = 1   \* CONFIG_TASK_STATIC_READLOCKS-1
  /\ rls_vec = EmptyVec(1)
  /\ rls_use = 0 /\ rls_cnt = 0
  /\ frames = <<>>
  /\ held = [l \in Lock |-> 0]
  /\ overfull = FALSE

-----------------------------------------------------------------------------
Masks == {msk \in 1 .. MaxMsk : \E k \in 1 .. MaxMsk : msk + 1 = 2^k}

(* Without perturbation 5*i+1 visits every slot in msk+1 turns; here the   *)
(* perturbation is gone after the first.                                   *)
Turns(msk) == 0 .. msk + 1

(* i = 5*i + perturb + 1, perturb >>= 5: the slot looked at on turn n. *)
Probe ==
  [l \in Lock, msk \in Masks |->
     LET first == l % (msk + 1)
         perturb[k \in Nat] == IF k = 0 THEN first ELSE perturb[k - 1] \div 32
         i[k \in Nat] == IF k = 0 THEN first
                         ELSE (5 * i[k - 1] + perturb[k - 1] + 1) % (msk + 1)
     IN [n \in Turns(msk) |-> i[n]]]

(* The first slot on the way of l that holds one of the locks `stop'. *)
FirstSlot(l, vec, msk, stop) ==
  LET way == Probe[l, msk]
      Walk[n \in Turns(msk)] ==
        IF vec[way[n]].rl_rwlock \in stop THEN way[n] ELSE Walk[n + 1]
  IN Walk[0]

(* rwlock_find_readlock() *)
FindSlot(l) ==
  LET i == FirstSlot(l, rls_vec, rls_msk, {l, NULL})
  IN IF rls_vec[i].rl_rwlock = l THEN i ELSE NoSlot

(* The slot where rwlock_get_readlock() puts a new descriptor: the first   *)
(* dummy of the chain, or the NULL that ends it.                           *)
FreeSlot(l) == FirstSlot(l, rls_vec, rls_msk, {DUMMY, NULL})

(* The vector is full: one slot has to stay NULL. *)
Full(i) == rls_vec[i].rl_rwlock = NULL /\ rls_cnt = rls_msk

(* rwlock_get_readlock() of a lock that is not held need not call          *)
(* kmalloc(): there is room, or a descriptor that counts nothing is left.  *)
Ready(l) ==
  IF FindSlot(l) = NoSlot THEN ~Full(FreeSlot(l))
  ELSE rls_vec[FindSlot(l)].rl_recursion = 0

(* The slot it returns ... *)
SlotOf(l) == IF FindSlot(l) = NoSlot THEN FreeSlot(l) ELSE FindSlot(l)

(* ... and what it does if that is a `New descriptor'; the caller's n is   *)
(* stored in rl_recursion.                                                 *)
GetReadlock(l, n) ==
  LET i == SlotOf(l)
      old == rls_vec[i].rl_rwlock
  IN /\ rls_vec' = [rls_vec EXCEPT ![i] = Entry(l, n)]
     /\ rls_cnt' = IF old = NULL THEN rls_cnt + 1 ELSE rls_cnt
     /\ rls_use' = IF old = l THEN rls_use ELSE rls_use + 1
     /\ UNCHANGED rls_msk

(* The locks of a vector re-hashed into an empty one, in order of slots. *)
Rehash(vec, msk, new_mask) ==
  LET Place(nv, e) ==
        [nv EXCEPT ![FirstSlot(e.rl_rwlock, nv, new_mask, {NULL})] = e]
      live == SelectSeq([i \in 1 .. msk + 1 |-> vec[i - 1]],
                        LAMBDA e : e.rl_rwlock \notin {NULL, DUMMY})
  IN FoldLeft(Place, EmptyVec(new_mask), live)

(* Mutant: the slot is emptied, which ends the chains through it. *)
DeleteReadlockNull(i) ==
  /\ rls_vec' = [rls_vec EXCEPT ![i].rl_rwlock = NULL]
  /\ rls_use' = rls_use - 1
  /\ UNCHANGED <<rls_cnt, rls_msk>>

(* rwlock_delete_readlock() *)
DeleteReadlock(i) ==
  /\ rls_vec' = [rls_vec EXCEPT ![i].rl_rwlock = DUMMY]
  /\ rls_use' = rls_use - 1
  /\ UNCHANGED <<rls_cnt, rls_msk>>

-----------------------------------------------------------------------------
(* Code runs: the thread's own, or that of a callback. *)
Running == frames # <<>> => (Last(frames).at = "waitfor" => ServeInWait)

Acquired(l) == held' = [held EXCEPT ![l] = @ + 1]

(* A call is suspended inside kmalloc() or task_waitfor(). *)
Suspend(l, at, new_mask, slot) ==
  /\ Len(frames) < MaxNest
  /\ frames' = Append(frames, [lock |-> l, at |-> at, new_mask |-> new_mask,
                               slot |-> slot, current |-> TRUE, held |-> held])

(* It continues, after callbacks that ended all they acquired. *)
Resume(at) ==
  /\ frames # <<>> /\ Last(frames).at = at
  /\ Last(frames).held = held

(* The vector the outer calls point into is no longer the thread's. *)
Outdated(fs) == [k \in DOMAIN fs |-> [fs[k] EXCEPT !.current = FALSE]]

(* rwlock_timedread(l) of a lock the thread already reads. *)
ReadAgain(l) ==
  /\ Running /\ l \in Recursive /\ 0 < held[l] /\ held[l] < MaxHeld
  /\ LET i == FindSlot(l) IN rls_vec' = [rls_vec EXCEPT ![i].rl_recursion = @ + 1]
  /\ Acquired(l)
  /\ UNCHANGED <<rls_use, rls_cnt, rls_msk, frames>>

(* rwlock_tryread(l), or rwlock_timedread(l) that does not block. *)
ReadNew(l) ==
  /\ Running /\ Ready(l)
  /\ GetReadlock(l, 1)
  /\ Acquired(l)
  /\ UNCHANGED frames

(* rwlock_tryread(l) of a lock that is not in read-mode: its descriptor is *)
(* deleted again.                                                          *)
ReadRefused(l) ==
  LET i == SlotOf(l)
      old == rls_vec[i].rl_rwlock
  IN /\ Running /\ l \in Contended /\ Ready(l)
     /\ rls_vec' = [rls_vec EXCEPT ![i] = Entry(DUMMY, 0)]
     /\ rls_cnt' = IF old = NULL THEN rls_cnt + 1 ELSE rls_cnt
     /\ rls_use' = IF old = l THEN rls_use - 1 ELSE rls_use
     /\ UNCHANGED <<rls_msk, frames, held>>

(* rwlock_timedread(l) that blocks: it keeps a pointer to the descriptor.  *)
ReadBlock(l) ==
  /\ Running /\ l \in Contended /\ Ready(l)
  /\ GetReadlock(l, 0)
  /\ Suspend(l, "waitfor", 0, SlotOf(l))
  /\ UNCHANGED held

(* The wait was successful: desc->rl_recursion = 1.  A store through a     *)
(* pointer into a former vector does not reach rls_vec.                    *)
ReadUnblock ==
  LET f == Last(frames)
  IN /\ Resume("waitfor")
     /\ rls_vec' = IF f.current THEN [rls_vec EXCEPT ![f.slot].rl_recursion = 1] ELSE rls_vec
     /\ Acquired(f.lock)
     /\ frames' = Front(frames)
     /\ UNCHANGED <<rls_use, rls_cnt, rls_msk>>

(* It timed out: rwlock_delete_readlock(desc). *)
ReadTimeout ==
  LET f == Last(frames)
  IN /\ Resume("waitfor")
     /\ IF f.current THEN DeleteReadlock(f.slot)
        ELSE rls_use' = rls_use - 1 /\ UNCHANGED <<rls_vec, rls_cnt, rls_msk>>
     /\ frames' = Front(frames)
     /\ UNCHANGED held

(* task_waitfor() threw: the descriptor stays, and counts nothing. *)
ReadThrow ==
  /\ Resume("waitfor")
  /\ frames' = Front(frames)
  /\ UNCHANGED <<locks, held>>

(* The vector is full: new_mask is computed, then kmalloc() is called.     *)
Grow(l) ==
  /\ Running /\ FindSlot(l) = NoSlot /\ Full(FreeSlot(l))
  /\ 2 * rls_msk + 1 <= MaxMsk
  /\ Suspend(l, "kmalloc", 2 * rls_msk + 1, NoSlot)
  /\ UNCHANGED <<locks, held>>

(* Mutant: dummies keep being counted. *)
GrowDoneCounts ==
  LET f == Last(frames)
  IN /\ Resume("kmalloc")
     /\ rls_vec' = Rehash(rls_vec, rls_msk, f.new_mask)
     /\ rls_msk' = f.new_mask
     /\ frames' = Outdated(Front(frames))
     /\ overfull' = (rls_use > f.new_mask)
     /\ UNCHANGED <<rls_use, rls_cnt, held>>

(* kmalloc() returned: re-hash and dismiss the dummies.  `goto again' is   *)
(* the caller's next ReadNew, ReadRefused, ReadBlock or Grow.  Callbacks   *)
(* may have made the vector larger than new_mask meanwhile; with more      *)
(* descriptors than the new one has slots the loop that copies never ends. *)
GrowDone ==
  LET f == Last(frames)
  IN /\ Resume("kmalloc")
     /\ rls_use <= f.new_mask + 1
     /\ rls_vec' = Rehash(rls_vec, rls_msk, f.new_mask)
     /\ rls_cnt' = rls_use
     /\ rls_msk' = f.new_mask
     /\ frames' = Outdated(Front(frames))
     /\ overfull' = (rls_use > f.new_mask)
     /\ UNCHANGED <<rls_use, held>>

(* kmalloc() threw E_BADALLOC: nothing has changed. *)
GrowFails ==
  /\ Resume("kmalloc")
  /\ frames' = Front(frames)
  /\ UNCHANGED <<locks, held>>

(* rwlock_end(l) *)
EndRead(l) ==
  /\ Running /\ held[l] > 0
  /\ IF rls_vec[FindSlot(l)].rl_recursion = 1
     THEN DeleteReadlock(FindSlot(l))
     ELSE /\ rls_vec' = [rls_vec EXCEPT ![FindSlot(l)].rl_recursion = @ - 1]
          /\ UNCHANGED <<rls_use, rls_cnt, rls_msk>>
  /\ held' = [held EXCEPT ![l] = @ - 1]
  /\ UNCHANGED frames

(* In a vector without a NULL slot a probe loop need not end: the model    *)
(* stops there.                                                            *)
Next ==
  /\ ~overfull
  /\ \/ GrowDone
     \/ /\ \/ \E l \in Lock : \/ ReadAgain(l) \/ ReadNew(l) \/ ReadRefused(l)
                             \/ ReadBlock(l) \/ Grow(l) \/ EndRead(l)
           \/ ReadUnblock \/ ReadTimeout \/ ReadThrow \/ GrowFails
        /\ UNCHANGED overfull

Spec == Init /\ [][Next]_vars

-----------------------------------------------------------------------------
(* The assertions at the head of the three functions, and the reason why   *)
(* their endless probe loops end: the counters agree with the vector, and  *)
(* a slot stays NULL, whatever was deleted, re-hashed, left behind by an   *)
(* exception, or done by callbacks while a larger vector was being         *)
(* allocated.  Excepted is a vector that callbacks had made larger than    *)
(* that one, and left more descriptors in than it can take.                *)
CountersAgree ==
  /\ rls_use = Cardinality({i \in 0 .. rls_msk : rls_vec[i].rl_rwlock \notin {NULL, DUMMY}})
  /\ rls_cnt = Cardinality({i \in 0 .. rls_msk : rls_vec[i].rl_rwlock # NULL})
  /\ rls_cnt <= rls_msk \/ overfull

(* Refuted.  assert(locks->rls_cnt <= locks->rls_msk): every vector has a  *)
(* NULL slot.                                                              *)
AlwaysRoom == rls_cnt <= rls_msk

(* The assertions of rwlock_delete_readlock(), `rlock >= rls_vec' and      *)
(* `rlock <= rls_vec+rls_msk': the descriptor a blocked rwlock_timedread() *)
(* comes back to is still one of the thread's vector.                      *)
DescriptorCurrent ==
  \A k \in DOMAIN frames : frames[k].at = "waitfor" => frames[k].current

(* The descriptors that probing finds. *)
Map == INSTANCE ReadLockMap
         WITH recursion <- [l \in Lock |-> LET i == FindSlot(l)
                                          IN IF i = NoSlot THEN Absent ELSE rls_vec[i].rl_recursion]

(* The hash vector implements the map: no descriptor is lost, duplicated   *)
(* or mixed up by deletions, dummies that are used again, and re-hashing.  *)
ImplementsMap == Map!Spec
=============================================================================
