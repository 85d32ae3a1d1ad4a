------------------------------- MODULE RWLock -------------------------------
(***************************************************************************)
(* The recursive, upgradable kernel R/W-lock                               *)
(* (src/kernel/src/sched/rwlock.c, sched/rwlock.h), on one CPU.            *)
(*                                                                         *)
(*   rw_mode, rw_ind  the two halves of rw_state: the mode, and rw_scnt    *)
(*                    (reader threads) or rw_xind (recursion of a writer)  *)
(*   rw_xowner        the field of struct rwlock                           *)
(*   desc             tasks with a read-descriptor of this lock            *)
(*   rl_recursion     its recursion counter                                *)
(*   has              caller_has_lock of a task in upgrade-mode            *)
(*   op               the call a task is inside of, which decides where it *)
(*                    continues when task_waitfor() returns                *)
(*   retry            tasks that unwind because of E_RETRY_RWLOCK          *)
(*   locks            what the caller has acquired and not ended, oldest   *)
(*                    first: "r" a read-lock, "w" a write-lock             *)
(*                                                                         *)
(* Between reading the control word and the CMPXCH that depends on it the  *)
(* code only looks at data of its own thread, and it starts over when the  *)
(* CMPXCH fails: the two are one step.                                     *)
(***************************************************************************)
EXTENDS TaskWait, FiniteSets, Functions

CONSTANTS
  NoTask, rw_chmode, rw_unshare,
  Writer,       \* tasks that also write
  Upgrader,     \* tasks that call rwlock_upgrade()
  Downgrader,   \* tasks that call rwlock_downgrade()
  Poller,       \* tasks that poll the lock
  MaxHeld       \* bound on the locks one task has

ASSUME RWLockAssumption ==
  /\ NoTask \notin Task
  /\ rw_chmode # rw_unshare
  /\ Sig = {rw_chmode, rw_unshare}
  /\ Writer \subseteq Task /\ Upgrader \subseteq Task
  /\ Downgrader \subseteq Task /\ Poller \subseteq Task
  /\ MaxHeld \in Nat

VARIABLES rw_mode, rw_ind, rw_xowner, desc, rl_recursion, has, op, retry, locks

state == <<rw_mode, rw_ind>>
reads == <<desc, rl_recursion>>
call == <<has, op, retry>>
vars == <<sigVars, pc, state, rw_xowner, reads, call, locks>>

PC == {"run", "connect", "racquire", "rcheck", "rdrop", "wagain", "wpoll", "wcheck", "wdrop",
       "upoll", "ucheck", "udrop", "revert", "owner", "endwrite", "cprobe", "csend",
       "uprobe", "usend", "pcheck", "pwait",
       "wait", "push", "serve", "timeout", "throw"}

TypeOK ==
  /\ SigTypeOK
  /\ pc \in [Task -> PC]
  /\ rw_mode \in {"reading", "upgrading", "writing"}
  /\ rw_ind \in Nat
  /\ rw_xowner \in Task \cup {NoTask}
  /\ desc \subseteq Task
  /\ rl_recursion \in [Task -> Nat]
  /\ has \subseteq Task /\ retry \subseteq Task
  /\ op \in [Task -> {"none", "read", "write", "unshare", "upgrade"}]
  /\ locks \in [Task -> Seq({"r", "w"})]

Init ==
  /\ SigInit
  /\ pc = [t \in Task |-> "run"]
  /\ rw_mode = "reading" /\ rw_ind = 0
  /\ rw_xowner = NoTask
  /\ desc = {} /\ rl_recursion = [t \in Task |-> 0]
  /\ has = {} /\ retry = {}
  /\ op = [t \in Task |-> "none"]
  /\ locks = [t \in Task |-> <<>>]

-----------------------------------------------------------------------------
(* The locks of a task but for the youngest one, and that one. *)
Front(s) == SubSeq(s, 1, Len(s) - 1)
Last(s) == s[Len(s)]

SetState(mode, ind) == rw_mode' = mode /\ rw_ind' = ind
Got(t, lock) == locks' = [locks EXCEPT ![t] = Append(@, lock)]
Call(t, name) == op' = [op EXCEPT ![t] = name]
SetRecursion(t, n) == rl_recursion' = [rl_recursion EXCEPT ![t] = n]

(* rwlock_delete_readlock() *)
DeleteReadlock(t) == desc' = desc \ {t} /\ SetRecursion(t, 0)

(* t is between two calls, not unwinding, and may acquire another lock. *)
Idle(t) == pc[t] = "run" /\ t \notin retry
MayAcquire(t) == Idle(t) /\ Len(locks[t]) < MaxHeld

OwnsExclusive(t) == rw_mode = "writing" /\ rw_xowner = t

(* Any lock acquired by the exclusive owner is one more `rw_xind'. *)
Recurse(t, lock) ==
  /\ OwnsExclusive(t)
  /\ SetState("writing", rw_ind + 1)
  /\ Got(t, lock)
  /\ UNCHANGED <<rw_xowner, reads, retry, has>>

(* rwlock_timedread(): at once for the owner and for a thread that reads   *)
(* already, in whatever mode the lock is; else with a fresh descriptor.    *)
Read(t) ==
  /\ MayAcquire(t)
  /\ \/ Recurse(t, "r") /\ UNCHANGED <<op, pc>>
     \/ /\ rw_mode # "writing" /\ rl_recursion[t] > 0
        /\ SetRecursion(t, rl_recursion[t] + 1)
        /\ Got(t, "r")
        /\ UNCHANGED <<state, rw_xowner, desc, call, pc>>
     \/ /\ ~OwnsExclusive(t)
        /\ rw_mode # "writing" => rl_recursion[t] = 0
        /\ desc' = desc \cup {t}
        /\ Call(t, "read") /\ GoTo(t, "racquire")
        /\ UNCHANGED <<state, rw_xowner, rl_recursion, has, retry, locks>>
  /\ UNCHANGED sigVars

(* task_connect() of all the calls: the upgrading thread waits for readers *)
(* to leave, the others for a change of mode.                              *)
ConnectSignal(t) ==
  /\ pc[t] = "connect"
  /\ CASE op[t] = "read" -> Connect(t, rw_chmode, FALSE) /\ GoTo(t, "rcheck")
       [] op[t] = "write" -> Connect(t, rw_chmode, FALSE) /\ GoTo(t, "wcheck")
       [] OTHER -> Connect(t, rw_unshare, FALSE) /\ GoTo(t, "ucheck")
  /\ UNCHANGED <<state, rw_xowner, reads, call, locks>>

(* acquire_read_lock: count the thread, or go to wait for rw_chmode. *)
ReadAcquire(t) ==
  /\ pc[t] = "racquire"
  /\ \/ /\ rw_mode = "reading"
        /\ SetState("reading", rw_ind + 1)
        /\ SetRecursion(t, 1) /\ Got(t, "r")
        /\ Call(t, "none") /\ GoTo(t, "run")
     \/ /\ rw_mode # "reading"
        /\ GoTo(t, "connect")
        /\ UNCHANGED <<state, rl_recursion, op, locks>>
  /\ UNCHANGED <<sigVars, rw_xowner, desc, has, retry>>

(* Connected: check again whether the lock switched to read-mode. *)
ReadCheck(t) ==
  /\ pc[t] = "rcheck"
  /\ \/ rw_mode = "reading" /\ SetState("reading", rw_ind + 1) /\ GoTo(t, "rdrop")
     \/ rw_mode # "reading" /\ UNCHANGED state /\ GoTo(t, "wait")
  /\ UNCHANGED <<sigVars, rw_xowner, reads, call, locks>>

(* Mutant: a read-lock won in the re-check is not recorded. *)
ReadDropForgets(t) ==
  /\ pc[t] = "rdrop"
  /\ Disconnect(t)
  /\ Got(t, "r")
  /\ Call(t, "none") /\ GoTo(t, "run")
  /\ UNCHANGED <<state, rw_xowner, reads, has, retry>>

ReadDrop(t) ==
  /\ pc[t] = "rdrop"
  /\ Disconnect(t)
  /\ SetRecursion(t, 1) /\ Got(t, "r")
  /\ Call(t, "none") /\ GoTo(t, "run")
  /\ UNCHANGED <<state, rw_xowner, desc, has, retry>>

(* rwlock_tryread() and rwlock_tryread_nothrow(): a thread that is turned  *)
(* away gives its descriptor back.                                         *)
TryRead(t) ==
  /\ MayAcquire(t)
  /\ \/ Recurse(t, "r") /\ UNCHANGED op
     \/ /\ rw_mode # "writing" /\ rl_recursion[t] > 0
        /\ SetRecursion(t, rl_recursion[t] + 1)
        /\ Got(t, "r")
        /\ UNCHANGED <<state, rw_xowner, desc, call>>
     \/ /\ rw_mode = "reading" /\ rl_recursion[t] = 0
        /\ SetState("reading", rw_ind + 1)
        /\ desc' = desc \cup {t} /\ SetRecursion(t, 1)
        /\ Got(t, "r")
        /\ UNCHANGED <<rw_xowner, call>>
     \/ /\ rw_mode = "upgrading" /\ rl_recursion[t] = 0
        /\ DeleteReadlock(t)
        /\ UNCHANGED <<state, rw_xowner, call, locks>>
  /\ UNCHANGED <<sigVars, pc>>

-----------------------------------------------------------------------------
(* Mutant: the one reader may be somebody else. *)
TakeExclusiveAny(t) ==
  /\ rw_mode = "reading"
  /\ rw_ind <= 1
  /\ SetState("writing", 1)
  /\ GoTo(t, "owner")

(* The lock has no reader but t itself: switch directly to write-mode. *)
TakeExclusive(t) ==
  /\ rw_mode = "reading"
  /\ rw_ind = 0 \/ (rw_ind = 1 /\ t \in desc)
  /\ SetState("writing", 1)
  /\ GoTo(t, "owner")

(* got_lock: self->rw_xowner = THIS_TASK; an upgrade turns the caller's    *)
(* read-lock into a write-lock.                                            *)
SetOwner(t) ==
  /\ pc[t] = "owner"
  /\ rw_xowner' = t
  /\ locks' = [locks EXCEPT ![t] =
                 IF op[t] = "upgrade" THEN Append(Front(@), "w") ELSE Append(@, "w")]
  /\ has' = has \ {t}
  /\ Call(t, "none") /\ GoTo(t, "run")
  /\ UNCHANGED <<sigVars, state, reads, retry>>

(* E_RETRY_RWLOCK: somebody else is upgrading, and waits for this reader. *)
ThrowRetry(t) ==
  /\ retry' = IF locks[t] = <<>> THEN retry ELSE retry \cup {t}
  /\ GoTo(t, "run")
  /\ UNCHANGED <<state, rw_xowner, reads, has, locks>>

(* Upgrade-mode: new readers are locked out while t waits for the others,  *)
(* with a lock of its own not counted.                                     *)
BeginUpgrade(t, name) ==
  /\ rw_mode = "reading"
  /\ ~(rw_ind = 0 \/ (rw_ind = 1 /\ t \in desc))
  /\ SetState("upgrading", IF t \in desc THEN rw_ind - 1 ELSE rw_ind)
  /\ has' = IF t \in desc THEN has \cup {t} ELSE has
  /\ Call(t, name) /\ GoTo(t, "upoll")
  /\ UNCHANGED <<rw_xowner, reads, retry, locks>>

Write(t) ==
  /\ MayAcquire(t) /\ t \in Writer
  /\ Call(t, "write") /\ GoTo(t, "wagain")
  /\ UNCHANGED <<sigVars, state, rw_xowner, reads, has, retry, locks>>

(* again: the switch of rwlock_timedwrite(). *)
WriteAgain(t) ==
  /\ pc[t] = "wagain"
  /\ \/ Recurse(t, "w") /\ Call(t, "none") /\ GoTo(t, "run")
     \/ /\ \/ rw_mode = "writing" /\ rw_xowner # t
           \/ rw_mode = "upgrading" /\ t \notin desc
        /\ GoTo(t, "wpoll")
        /\ UNCHANGED <<state, rw_xowner, reads, call, locks>>
     \/ rw_mode = "upgrading" /\ t \in desc /\ ThrowRetry(t) /\ Call(t, "none")
     \/ TakeExclusive(t) /\ UNCHANGED <<rw_xowner, reads, call, locks>>
     \/ BeginUpgrade(t, "unshare")
  /\ UNCHANGED sigVars

(* wait_for_endwrite: TASK_POLL_BEFORE_CONNECT, then connect ... *)
WritePoll(t) ==
  /\ pc[t] = "wpoll"
  /\ GoTo(t, IF rw_mode = "reading" THEN "wagain" ELSE "connect")
  /\ UNCHANGED <<sigVars, state, rw_xowner, reads, call, locks>>

(* Mutant: no check after connecting. *)
WriteCheckSkipped(t) ==
  /\ pc[t] = "wcheck"
  /\ GoTo(t, "wait")
  /\ UNCHANGED <<sigVars, state, rw_xowner, reads, call, locks>>

(* ... and check once more before the wait. *)
WriteCheck(t) ==
  /\ pc[t] = "wcheck"
  /\ GoTo(t, IF rw_mode = "reading" THEN "wdrop" ELSE "wait")
  /\ UNCHANGED <<sigVars, state, rw_xowner, reads, call, locks>>

WriteDrop(t) ==
  /\ pc[t] = "wdrop"
  /\ Disconnect(t)
  /\ GoTo(t, "wagain")
  /\ UNCHANGED <<state, rw_xowner, reads, call, locks>>

(* rwlock_trywrite(); a call that fails changes nothing. *)
TryWrite(t) ==
  /\ MayAcquire(t) /\ t \in Writer
  /\ \/ Recurse(t, "w") /\ UNCHANGED <<op, pc>>
     \/ TakeExclusive(t) /\ Call(t, "write") /\ UNCHANGED <<rw_xowner, reads, has, retry, locks>>
  /\ UNCHANGED sigVars

-----------------------------------------------------------------------------
(* ATOMIC_CMPXCH(rw_state,{UPGRADING,0},{WRITING,1}) *)
Unshared == rw_mode = "upgrading" /\ rw_ind = 0

(* Mutant: the number of readers is not looked at. *)
UnsharePollEarly(t) ==
  /\ pc[t] = "upoll"
  /\ SetState("writing", 1) /\ GoTo(t, "owner")
  /\ UNCHANGED <<sigVars, rw_xowner, reads, call, locks>>

(* wait_for_unshare: try, connect to rw_unshare ... *)
UnsharePoll(t) ==
  /\ pc[t] = "upoll"
  /\ \/ Unshared /\ SetState("writing", 1) /\ GoTo(t, "owner")
     \/ ~Unshared /\ UNCHANGED state /\ GoTo(t, "connect")
  /\ UNCHANGED <<sigVars, rw_xowner, reads, call, locks>>

(* Mutant: no attempt after connecting. *)
UnshareCheckSkipped(t) ==
  /\ pc[t] = "ucheck"
  /\ GoTo(t, "wait")
  /\ UNCHANGED <<sigVars, state, rw_xowner, reads, call, locks>>

(* ... and try again before the wait. *)
UnshareCheck(t) ==
  /\ pc[t] = "ucheck"
  /\ \/ Unshared /\ SetState("writing", 1) /\ GoTo(t, "udrop")
     \/ ~Unshared /\ UNCHANGED state /\ GoTo(t, "wait")
  /\ UNCHANGED <<sigVars, rw_xowner, reads, call, locks>>

UnshareDrop(t) ==
  /\ pc[t] = "udrop"
  /\ Disconnect(t)
  /\ GoTo(t, "owner")
  /\ UNCHANGED <<state, rw_xowner, reads, call, locks>>

(* Timeout or exception: re-acquire the read-lock, if the caller had one,  *)
(* and switch back to read-mode.                                           *)
Revert(t) ==
  /\ pc[t] = "revert"
  /\ SetState("reading", IF t \in has THEN rw_ind + 1 ELSE rw_ind)
  /\ has' = has \ {t}
  /\ Call(t, "none") /\ GoTo(t, "run")
  /\ UNCHANGED <<sigVars, rw_xowner, reads, retry, locks>>

(* rwlock_upgrade() of the youngest read-lock.  rwlock_tryupgrade() is the *)
(* same call where it succeeds at once, and changes nothing elsewhere.     *)
(* The recursion of the descriptor stays as it is (see NoLeakedReadLock),  *)
(* and MaxHeld bounds that as well.                                        *)
Upgrade(t) ==
  /\ Idle(t) /\ t \in Upgrader /\ locks[t] # <<>> /\ Last(locks[t]) = "r"
  /\ rl_recursion[t] <= MaxHeld
  /\ \/ /\ rw_mode = "writing"
        /\ locks' = [locks EXCEPT ![t] = Append(Front(@), "w")]
        /\ UNCHANGED <<pc, state, rw_xowner, reads, call>>
     \/ rw_mode = "upgrading" /\ ThrowRetry(t) /\ UNCHANGED op
     \/ TakeExclusive(t) /\ Call(t, "upgrade") /\ UNCHANGED <<rw_xowner, reads, has, retry, locks>>
     \/ BeginUpgrade(t, "upgrade")
  /\ UNCHANGED sigVars

-----------------------------------------------------------------------------
(* task_waitfor() of all the calls.  Signaled, each one tries again; when  *)
(* it times out a reader deletes its descriptor; when the wait throws it   *)
(* does not.                                                               *)
Wait(t) ==
  /\ \/ WaitLoop(t) /\ UNCHANGED <<reads, op>>
     \/ /\ \/ op[t] = "read" /\ WaitSignaled(t, "racquire")
           \/ op[t] = "write" /\ WaitSignaled(t, "wagain")
           \/ op[t] \in {"unshare", "upgrade"} /\ WaitSignaled(t, "upoll")
        /\ UNCHANGED <<reads, op>>
     \/ /\ op[t] \in {"read", "write"} /\ WaitFailed(t, "run")
        /\ IF op[t] = "read" /\ pc[t] = "timeout" THEN DeleteReadlock(t) ELSE UNCHANGED reads
        /\ Call(t, "none")
     \/ op[t] \in {"unshare", "upgrade"} /\ WaitFailed(t, "revert") /\ UNCHANGED <<reads, op>>
  /\ UNCHANGED <<state, rw_xowner, has, retry, locks>>

-----------------------------------------------------------------------------
Ends(t) == locks' = [locks EXCEPT ![t] = Front(@)]

(* rwlock_endwrite(), and rwlock_end() in write-mode: an inner lock, or    *)
(* the outermost one, which first clears the owner ...                     *)
EndWrite(t) ==
  /\ pc[t] = "run" /\ locks[t] # <<>> /\ rw_mode = "writing"
  /\ Ends(t)
  /\ IF rw_ind = 1
     THEN rw_xowner' = NoTask /\ GoTo(t, "endwrite") /\ UNCHANGED state
     ELSE SetState("writing", rw_ind - 1) /\ UNCHANGED <<rw_xowner, pc>>
  /\ UNCHANGED <<sigVars, reads, call>>

(* ... then gives the lock back, or keeps an older read-lock of the caller. *)
ReleaseExclusive(t) ==
  /\ pc[t] = "endwrite"
  /\ SetState("reading", IF t \in desc THEN rw_ind ELSE 0)
  /\ GoTo(t, "cprobe")
  /\ UNCHANGED <<sigVars, rw_xowner, reads, call, locks>>

(* rwlock_downgrade(): the outermost write-lock becomes a read-lock; of a  *)
(* recursive one only the caller's view changes.                           *)
Downgrade(t) ==
  /\ Idle(t) /\ t \in Downgrader /\ locks[t] # <<>> /\ Last(locks[t]) = "w"
  /\ locks' = [locks EXCEPT ![t] = Append(Front(@), "r")]
  /\ IF rw_ind = 1
     THEN /\ desc' = desc \cup {t} /\ SetRecursion(t, rl_recursion[t] + 1)
          /\ SetState("reading", 1)
          /\ GoTo(t, "cprobe")
     ELSE UNCHANGED <<reads, state, pc>>
  /\ UNCHANGED <<sigVars, rw_xowner, call>>

(* rwlock_end() of a read-lock: the last one of the thread is no longer    *)
(* counted, and the thread that stops the count announces it; an unwinding *)
(* thread that gets here starts over.                                      *)
EndRead(t) ==
  /\ pc[t] = "run" /\ locks[t] # <<>> /\ rw_mode # "writing"
  /\ Ends(t)
  /\ IF rl_recursion[t] = 1
     THEN /\ DeleteReadlock(t)
          /\ SetState(rw_mode, rw_ind - 1)
          /\ GoTo(t, IF rw_ind = 1 THEN "uprobe" ELSE "run")
          /\ retry' = retry \ {t}
     ELSE SetRecursion(t, rl_recursion[t] - 1) /\ UNCHANGED <<desc, state, pc, retry>>
  /\ UNCHANGED <<sigVars, rw_xowner, has, op>>

(* sig_broadcast(&rw_chmode): peek, then one connection per turn. *)
BroadcastProbe(t) ==
  /\ pc[t] = "cprobe"
  /\ GoTo(t, IF chain[rw_chmode] = <<>> THEN "run" ELSE "csend")
  /\ UNCHANGED <<sigVars, state, rw_xowner, reads, call, locks>>

Broadcast(t) ==
  /\ pc[t] = "csend"
  /\ \/ chain[rw_chmode] = <<>> /\ GoTo(t, "run") /\ UNCHANGED sigVars
     \/ SendOne(rw_chmode) /\ UNCHANGED pc
  /\ UNCHANGED <<state, rw_xowner, reads, call, locks>>

(* sig_send(&rw_unshare,1) *)
UnshareProbe(t) ==
  /\ pc[t] = "uprobe"
  /\ GoTo(t, IF chain[rw_unshare] = <<>> THEN "run" ELSE "usend")
  /\ UNCHANGED <<sigVars, state, rw_xowner, reads, call, locks>>

UnshareSend(t) ==
  /\ pc[t] = "usend"
  /\ \/ chain[rw_unshare] = <<>> /\ GoTo(t, "run") /\ UNCHANGED sigVars
     \/ SendOne(rw_unshare) /\ (IF WakeOk(rw_unshare) THEN GoTo(t, "run") ELSE UNCHANGED pc)
  /\ UNCHANGED <<state, rw_xowner, reads, call, locks>>

-----------------------------------------------------------------------------
(* rwlock_poll(): connect as a ghost, then look.  For a lock with one      *)
(* reader the look allocates a descriptor.                                 *)
PollConnect(t) ==
  /\ Idle(t) /\ t \in Poller
  /\ Connect(t, rw_chmode, TRUE)
  /\ GoTo(t, "pcheck")
  /\ UNCHANGED <<state, rw_xowner, reads, call, locks>>

PollCheck(t) ==
  /\ pc[t] = "pcheck"
  /\ desc' = IF rw_mode = "reading" /\ rw_ind = 1 THEN desc \cup {t} ELSE desc
  /\ \/ /\ rw_mode = "reading" \/ rw_xowner = t
        /\ Disconnect(t) /\ GoTo(t, "run")
     \/ /\ IF rw_mode = "reading" THEN rw_ind > 1 ELSE rw_xowner # t
        /\ UNCHANGED sigVars /\ GoTo(t, "pwait")
  /\ UNCHANGED <<state, rw_xowner, rl_recursion, call, locks>>

PollWait(t) ==
  /\ pc[t] = "pwait"
  /\ tcs_sig[t] # NoSig \/ t \in Timed
  /\ Disconnect(t) /\ GoTo(t, "run")
  /\ UNCHANGED <<state, rw_xowner, reads, call, locks>>

-----------------------------------------------------------------------------
(* The steps t takes once it is inside a call, and must take. *)
Step(t) ==
  \/ ConnectSignal(t) \/ ReadAcquire(t) \/ ReadCheck(t) \/ ReadDrop(t)
  \/ WriteAgain(t) \/ WritePoll(t) \/ WriteCheck(t) \/ WriteDrop(t) \/ SetOwner(t)
  \/ UnsharePoll(t) \/ UnshareCheck(t) \/ UnshareDrop(t) \/ Revert(t) \/ Wait(t)
  \/ ReleaseExclusive(t) \/ BroadcastProbe(t) \/ Broadcast(t)
  \/ UnshareProbe(t) \/ UnshareSend(t) \/ PollCheck(t) \/ PollWait(t)

End(t) == EndWrite(t) \/ EndRead(t)

Next == \E t \in Task :
  \/ Read(t) \/ TryRead(t) \/ Write(t) \/ TryWrite(t) \/ Upgrade(t) \/ Downgrade(t)
  \/ End(t) \/ PollConnect(t) \/ Step(t)

Spec == Init /\ [][Next]_vars

(* Every task inside a call keeps running, and whoever holds locks ends    *)
(* the outermost one some day.  A broadcast takes the signal anew for each *)
(* connection, so that a woken task which connects again prolongs it; the  *)
(* third conjunct is the scheduler's part: a woken task needs the CPU the  *)
(* broadcasting one is running on, and does not always get there first.    *)
Fairness ==
  \A t \in Task : /\ WF_vars(Step(t)) /\ WF_vars(End(t))
                  /\ SF_vars(Len(locks[t]) = 1 /\ End(t))
                  /\ SF_vars(chain[rw_chmode] = <<>> /\ Broadcast(t))

FairSpec == Spec /\ Fairness
-----------------------------------------------------------------------------
(* t has the lock exclusively, or is about to. *)
Exclusive(t) == pc[t] \in {"owner", "udrop", "endwrite"} \/ "w" \in Range(locks[t])

(* `The rwlock is being owned exclusively by a single thread': while one   *)
(* task has a write-lock no other has a lock of any kind, whatever mixture *)
(* of recursion, write-after-read, failed attempts and unwinding led here. *)
WriterExclusion ==
  \A t, u \in Task :
    Exclusive(t) /\ (Exclusive(u) \/ pc[u] = "rdrop" \/ locks[u] # <<>>) => t = u

(* The read-locks t acquired before it became a writer, if it did. *)
ReadLocks(t) ==
  Cardinality({i \in DOMAIN locks[t] : \A j \in 1 .. i : locks[t][j] = "r"})

(* rw_scnt is `the total number of individual reader threads' (without an  *)
(* upgrading one), rw_xind the recursion of the writer, and the recursion  *)
(* of a descriptor the number of read-locks its thread has to end.         *)
CountsMatch ==
  /\ \A t \in Task : rl_recursion[t] = ReadLocks(t)
  /\ rw_mode # "writing" =>
       rw_ind + Cardinality(has) =
         Cardinality({t \in Task : rl_recursion[t] > 0 \/ pc[t] = "rdrop"})
  /\ rw_mode = "writing" =>
       \E t \in Task : /\ Exclusive(t)
                       /\ rw_ind = IF "w" \in Range(locks[t])
                                   THEN Len(locks[t]) - ReadLocks(t) ELSE 1

(* The assertion of rwlock_reading(): a thread that is not inside a call   *)
(* has a descriptor only while it has a read-lock.  rwlock_write() takes a *)
(* descriptor for the proof that the caller is the only reader.            *)
DescriptorsHeld ==
  \A t \in desc : pc[t] = "run" => rl_recursion[t] > 0

(* Every read-lock that was acquired is gone once it was ended, also when  *)
(* it was upgraded in between.                                             *)
NoLeakedReadLock ==
  \A t \in Task : pc[t] = "run" /\ locks[t] = <<>> => rl_recursion[t] = 0

(* t sleeps inside one of the given calls, and nobody has signaled it. *)
Asleep(t, calls) == pc[t] = "wait" /\ op[t] \in calls /\ tcs_sig[t] = NoSig

(* No lost wakeup: nobody sleeps for a change of mode that has happened    *)
(* unless a broadcast is on its way, and the upgrading thread does not     *)
(* sleep for readers that are gone unless its signal is.                   *)
NoStrandedWaiter ==
  /\ rw_mode = "reading" /\ (\E t \in Task : Asleep(t, {"read", "write"}))
       => \E u \in Task : pc[u] \in {"cprobe", "csend"}
  /\ Unshared /\ (\E t \in Task : Asleep(t, {"unshare", "upgrade"}))
       => \E u \in Task : pc[u] \in {"uprobe", "usend"}

(* Upgrade-mode comes to an end: readers that leave, and readers that want *)
(* to write themselves and are told to unwind, let the upgrading thread    *)
(* have the lock.                                                          *)
UpgradeEnds == (rw_mode = "upgrading") ~> (rw_mode # "upgrading")
=============================================================================
