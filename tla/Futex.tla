-------------------------------- MODULE Futex --------------------------------
(***************************************************************************)
(* The futex() system call (src/kernel/src/vm/futex.c) on two words of     *)
(* user memory: `cond', which tasks wait for with FUTEX_WAIT and change    *)
(* before a FUTEX_WAKE, and `lock', a FUTEX_LOCK_PI mutex.  The futex of a *)
(* word is looked up as module FutexTable shows it to be: one object per   *)
(* address for as long as it has references.                               *)
(*                                                                         *)
(*   word[w]    the user-space word: for `cond' a number, for `lock' the   *)
(*              bits FUTEX_TID_MASK (tid) and FUTEX_WAITERS (waiters)      *)
(*   refs[w]    f_refcnt of its futex, 0 when there is none                *)
(*   fd         a FUTEX_FD handle of `cond' is open                        *)
(*   th[t]      the call t is in: pc, its word w, `val', `temp' and the    *)
(*              threads that sig_send() has still to wake (todo)           *)
(*   holds      the tasks for which FUTEX_LOCK_PI returned 0               *)
(*   forgotten  tasks that slept for the lock when it was taken without    *)
(*              FUTEX_WAITERS, or when a signal of it was dropped: until   *)
(*              they are woken or the bit is set again (history)           *)
(*   raced      tasks whose last connection to the word they wait for was  *)
(*              removed while task_push_connections() was moving it: they  *)
(*              lost the signal, and no other will reach them (history)    *)
(*   misled     a wake was counted for a task that waits for nothing       *)
(*   broken     futex_destroy() found a connection: its assertion failed   *)
(* chain, tcs_sig and saved are those of TaskSignal, one signal per word.         *)
(***************************************************************************)
EXTENDS TaskSignal, FiniteSets

CONSTANTS
  cond, lock,          \* the two words
  NoTask,              \* the thread id 0
  Waiter, Waker,       \* tasks that call FUTEX_WAIT; that store and FUTEX_WAKE
  Locker,              \* tasks that call FUTEX_LOCK_PI and FUTEX_UNLOCK_PI
  Opener,              \* tasks that open and close a FUTEX_FD handle
  Timed,               \* tasks that pass a timeout
  Serving,             \* tasks for which RPC callbacks may be queued
  Interruptible,       \* tasks whose RPC callbacks may throw
  WakeAll,             \* the `val' of FUTEX_WAKE: everyone, or one thread
  MaxCalls             \* bound: calls of a task

VARIABLES word, refs, fd, th, holds, forgotten, raced, misled, broken, calls

vars == <<sigVars, word, refs, fd, th, holds, forgotten, raced, misled, broken, calls>>

histVars == <<forgotten, raced>>

ASSUME FutexAssumption ==
  /\ Sig = {cond, lock} /\ cond # lock
  /\ NoTask \notin Task
  /\ Interruptible \subseteq Serving
  /\ Timed \cup Serving \cup Waiter \cup Waker \cup Locker \cup Opener \subseteq Task

LockWord == [tid : Task \cup {NoTask}, waiters : BOOLEAN]

Free == [tid |-> NoTask, waiters |-> FALSE]

By(t) == [tid |-> t, waiters |-> FALSE]

Everyone == Cardinality(Task) * MaxCalls

TypeOK ==
  /\ SigTypeOK
  /\ word[cond] \in {0, 1} /\ word[lock] \in LockWord
  /\ refs \in [Sig -> 0 .. Cardinality(Task) + 1]
  /\ fd \in BOOLEAN
  /\ \A t \in Task :
       /\ th[t].pc \in {"user", "futex", "connect", "check", "mark", "wait", "push",
                        "serve", "failed", "retry", "put", "unlock", "find", "send"}
       /\ th[t].w \in Sig /\ th[t].val \in {0, 1} /\ th[t].temp \in LockWord
       /\ th[t].todo \in 0 .. Everyone
  /\ holds \subseteq Task
  /\ forgotten \subseteq Task /\ raced \subseteq Task
  /\ misled \in BOOLEAN /\ broken \in BOOLEAN
  /\ calls \in [Task -> 0 .. MaxCalls]

InUser == [pc |-> "user", w |-> cond, val |-> 0, temp |-> Free, todo |-> 0]

Init ==
  /\ SigInit
  /\ word = [w \in Sig |-> IF w = cond THEN 0 ELSE Free]
  /\ refs = [w \in Sig |-> 0]
  /\ fd = FALSE
  /\ th = [t \in Task |-> InUser]
  /\ holds = {} /\ forgotten = {} /\ raced = {} /\ misled = FALSE /\ broken = FALSE
  /\ calls = [t \in Task |-> 0]

-----------------------------------------------------------------------------
GoTo(t, pc) == th' = [th EXCEPT ![t].pc = pc]

Return(t) == th' = [th EXCEPT ![t] = InUser]

Call(t) ==
  /\ th[t].pc = "user" /\ calls[t] < MaxCalls
  /\ calls' = [calls EXCEPT ![t] = @ + 1]

(* task_disconnect() of a task that may be connected to several signals,   *)
(* or to one of them twice.                                                *)
DisconnectAll(t) ==
  /\ chain' = [s \in Sig |-> SelectSeq(chain[s], LAMBDA c : c.task # t)]
  /\ tcs_sig' = [tcs_sig EXCEPT ![t] = NoSig]
  /\ UNCHANGED saved

(* futex_decref(), and the assertion of futex_destroy().                   *)
Decref(w) ==
  /\ refs' = [refs EXCEPT ![w] = @ - 1]
  /\ broken' = (refs[w] = 1 /\ chain[w] # <<>>)

(* vm_futex() of a call that goes on at `pc'. *)
Reference(t) ==
  /\ th[t].pc = "futex"
  /\ refs' = [refs EXCEPT ![th[t].w] = @ + 1]
  /\ GoTo(t, "connect")
  /\ UNCHANGED <<sigVars, word, fd, holds, histVars, misled, broken, calls>>

ConnectFutex(t) ==
  /\ th[t].pc = "connect"
  /\ Connect(t, th[t].w, FALSE)
  /\ GoTo(t, "check")
  /\ UNCHANGED <<word, refs, fd, holds, histVars, misled, broken, calls>>

(* FINALLY: futex_decref(ftx), at the end of a call. *)
Put(t) ==
  /\ th[t].pc = "put"
  /\ Decref(th[t].w)
  /\ Return(t)
  /\ UNCHANGED <<sigVars, word, fd, holds, histVars, misled, calls>>

-----------------------------------------------------------------------------
(* task_wait() and task_waitfor(): see TaskWait.                           *)
(***************************************************************************)

(* Where the call continues once a signal was received. *)
AfterSignal(w) == IF w = cond THEN "connect" ELSE "retry"

Signaled(t) ==
  /\ th[t].pc = "wait" /\ tcs_sig[t] # NoSig
  /\ DisconnectAll(t)
  /\ GoTo(t, AfterSignal(th[t].w))
  /\ forgotten' = forgotten \ {t} /\ raced' = raced \ {t}
  /\ UNCHANGED <<word, refs, fd, holds, misled, broken, calls>>

(* RPCs are served before the task sleeps: the connections are saved, the  *)
(* callbacks run, and the connections are restored.                        *)
Serve(t) ==
  /\ \/ /\ th[t].pc = "wait" /\ tcs_sig[t] = NoSig /\ t \in Serving
        /\ RelocateConnections(t) /\ GoTo(t, "push")
     \/ th[t].pc = "push" /\ CopySignal(t) /\ GoTo(t, "serve")
     \/ th[t].pc = "serve" /\ PopConnections(t) /\ GoTo(t, "wait")
  /\ UNCHANGED <<word, refs, fd, holds, histVars, misled, broken, calls>>

(* The timeout expires, or a callback throws.  The flag says which.        *)
Fail(t) ==
  /\ \/ /\ th[t].pc = "wait" /\ tcs_sig[t] = NoSig /\ t \in Timed
        /\ th' = [th EXCEPT ![t].pc = "failed", ![t].todo = 0]
        /\ UNCHANGED sigVars
     \/ /\ th[t].pc = "serve" /\ t \in Interruptible
        /\ th' = [th EXCEPT ![t].pc = "failed", ![t].todo = 1]
        /\ PopConnections(t)
  /\ UNCHANGED <<word, refs, fd, holds, histVars, misled, broken, calls>>

(* The tasks that sleep for the lock, or are going to when their callbacks *)
(* are done.                                                               *)
Sleepers == {u \in Task : /\ th[u].pc \in {"wait", "push", "serve"}
                          /\ th[u].w = lock /\ tcs_sig[u] = NoSig}

(* FINALLY disconnects, whether or not a signal arrived in the meantime.   *)
(* The timeout of a FUTEX_WAIT only sets the result: the loop goes on.     *)
Failed(t) ==
  /\ th[t].pc = "failed"
  /\ DisconnectAll(t)
  /\ th' = [th EXCEPT ![t].pc = IF th[t].w = cond /\ th[t].todo = 0
                                THEN "connect" ELSE "put",
                      ![t].todo = 0]
  /\ forgotten' = (IF tcs_sig[t] = lock THEN forgotten \cup Sleepers ELSE forgotten) \ {t}
  /\ raced' = raced \ {t}
  /\ UNCHANGED <<word, refs, fd, holds, misled, broken, calls>>

-----------------------------------------------------------------------------
(* FUTEX_WAIT.                                                             *)
(***************************************************************************)

(* A word that differs from `val' ends the call before a futex is needed.  *)
CallWait(t) ==
  /\ t \in Waiter /\ Call(t)
  /\ \E v \in {0, 1} :
       IF word[cond] # v THEN UNCHANGED th
       ELSE th' = [th EXCEPT ![t] = [InUser EXCEPT !.pc = "futex", !.w = cond, !.val = v]]
  /\ UNCHANGED <<sigVars, word, refs, fd, holds, histVars, misled, broken>>

(* Mutant: the word is not read again. *)
WaitTrusts(t) ==
  /\ th[t].pc = "check" /\ th[t].w = cond
  /\ GoTo(t, "wait")
  /\ UNCHANGED <<sigVars, word, refs, fd, holds, histVars, misled, broken, calls>>

(* The word is read again once connected.  `break' leaves the loop with    *)
(* the connection in place.                                                *)
WaitCheck(t) ==
  /\ th[t].pc = "check" /\ th[t].w = cond
  /\ GoTo(t, IF word[cond] # th[t].val THEN "put" ELSE "wait")
  /\ UNCHANGED <<sigVars, word, refs, fd, holds, histVars, misled, broken, calls>>

-----------------------------------------------------------------------------
(* FUTEX_WAKE.                                                             *)
(***************************************************************************)

(* The caller changes the word in user-space first ... *)
Store(t) ==
  /\ t \in Waker /\ Call(t)
  /\ word' = [word EXCEPT ![cond] = 1 - @]
  /\ th' = [th EXCEPT ![t] = [InUser EXCEPT !.pc = "find", !.w = cond,
                              !.todo = IF WakeAll THEN Everyone ELSE 1]]
  /\ UNCHANGED <<sigVars, refs, fd, holds, histVars, misled, broken>>

(* ... vm_getfutex() ... *)
Find(t) ==
  /\ th[t].pc = "find"
  /\ IF refs[th[t].w] = 0
     THEN Return(t) /\ UNCHANGED refs
     ELSE GoTo(t, "send") /\ refs' = [refs EXCEPT ![th[t].w] = @ + 1]
  /\ UNCHANGED <<sigVars, word, fd, holds, histVars, misled, broken, calls>>

(* ... and one turn of sig_send().  A connection that a FUTEX_WAIT left    *)
(* behind receives the signal like any other.                              *)
Send(t) ==
  LET w == th[t].w
      u == Head(chain[w]).task
  IN /\ th[t].pc = "send" /\ th[t].todo > 0 /\ SendOne(w)
     /\ th' = [th EXCEPT ![t].todo = IF WakeOk(w) THEN @ - 1 ELSE @]
     /\ misled' = (misled \/ (WakeOk(w) /\ th[u].pc \in {"user", "put"}))
     /\ raced' = IF saved[u] = "moving" /\ th[u].w = w /\ u \notin Connected(w)'
                 THEN raced \cup {u} ELSE raced
     /\ UNCHANGED <<word, refs, fd, holds, forgotten, broken, calls>>

Sent(t) ==
  /\ th[t].pc = "send" /\ (th[t].todo = 0 \/ chain[th[t].w] = <<>>)
  /\ Decref(th[t].w)
  /\ Return(t)
  /\ UNCHANGED <<sigVars, word, fd, holds, histVars, misled, calls>>

-----------------------------------------------------------------------------
(* FUTEX_LOCK_PI and FUTEX_UNLOCK_PI.                                      *)
(***************************************************************************)

CallLock(t) ==
  /\ t \in Locker \ holds /\ Call(t)
  /\ IF word[lock] = Free
     THEN /\ word' = [word EXCEPT ![lock] = By(t)]
          /\ holds' = holds \cup {t} /\ UNCHANGED th
     ELSE /\ th' = [th EXCEPT ![t] = [InUser EXCEPT !.pc = "futex", !.w = lock]]
          /\ UNCHANGED <<word, holds>>
  /\ UNCHANGED <<sigVars, refs, fd, histVars, misled, broken>>

(* t takes the lock.  If others sleep for it and the word does not say so, *)
(* nothing will.                                                           *)
Forget(t) ==
  forgotten' = IF word[lock].waiters THEN forgotten ELSE forgotten \cup (Sleepers \ {t})

(* ATOMIC_READ() of the word into `temp'. *)
LockRead(t) ==
  /\ th[t].pc = "check" /\ th[t].w = lock
  /\ th' = [th EXCEPT ![t].pc = "mark", ![t].temp = word[lock]]
  /\ UNCHANGED <<sigVars, word, refs, fd, holds, histVars, misled, broken, calls>>

(* Mutant: FUTEX_WAITERS is only set in the local copy. *)
LockMarkLocal(t) ==
  /\ th[t].pc = "mark"
  /\ IF word[lock] # th[t].temp
     THEN GoTo(t, "check") /\ UNCHANGED <<word, holds, forgotten, sigVars>>
     ELSE IF th[t].temp.tid = NoTask
     THEN /\ word' = [word EXCEPT ![lock].tid = t]
          /\ holds' = holds \cup {t} /\ Forget(t)
          /\ DisconnectAll(t) /\ GoTo(t, "put")
     ELSE GoTo(t, "wait") /\ UNCHANGED <<word, holds, forgotten, sigVars>>
  /\ UNCHANGED <<refs, fd, raced, misled, broken, calls>>

(* Mutant: the lock is taken without comparing the word. *)
LockMarkBlind(t) ==
  /\ th[t].pc = "mark"
  /\ IF th[t].temp.tid = NoTask
     THEN /\ word' = [word EXCEPT ![lock].tid = t]
          /\ holds' = holds \cup {t} /\ Forget(t)
          /\ DisconnectAll(t) /\ GoTo(t, "put")
     ELSE IF word[lock] # th[t].temp
     THEN GoTo(t, "check") /\ UNCHANGED <<word, holds, forgotten, sigVars>>
     ELSE /\ word' = [word EXCEPT ![lock].waiters = TRUE]
          /\ GoTo(t, "wait") /\ forgotten' = {} /\ UNCHANGED <<holds, sigVars>>
  /\ UNCHANGED <<refs, fd, raced, misled, broken, calls>>

(* The CMPXCH of that value: with the caller's thread id when the lock was *)
(* free, with FUTEX_WAITERS when it was not.                               *)
LockMark(t) ==
  /\ th[t].pc = "mark"
  /\ IF word[lock] # th[t].temp
     THEN GoTo(t, "check") /\ UNCHANGED <<word, holds, forgotten, sigVars>>
     ELSE IF th[t].temp.tid = NoTask
     THEN /\ word' = [word EXCEPT ![lock].tid = t]
          /\ holds' = holds \cup {t} /\ Forget(t)
          /\ DisconnectAll(t) /\ GoTo(t, "put")
     ELSE /\ word' = [word EXCEPT ![lock].waiters = TRUE]
          /\ GoTo(t, "wait") /\ forgotten' = {} /\ UNCHANGED <<holds, sigVars>>
  /\ UNCHANGED <<refs, fd, raced, misled, broken, calls>>

(* Signaled: ATOMIC_CMPXCH() from 0 to caller_tid.  The bit FUTEX_WAITERS of *)
(* the tasks that still wait is not set again.                             *)
LockRetry(t) ==
  /\ th[t].pc = "retry"
  /\ IF word[lock] = Free
     THEN /\ word' = [word EXCEPT ![lock] = By(t)]
          /\ holds' = holds \cup {t} /\ GoTo(t, "put")
          /\ Forget(t)
     ELSE GoTo(t, "connect") /\ UNCHANGED <<word, holds, forgotten>>
  /\ UNCHANGED <<sigVars, refs, fd, raced, misled, broken, calls>>

(* The CMPXCH of a word nobody waits for ends the call. *)
CallUnlock(t) ==
  /\ th[t].pc = "user" /\ t \in holds
  /\ holds' = holds \ {t}
  /\ IF word[lock] = By(t)
     THEN word' = [word EXCEPT ![lock] = Free] /\ UNCHANGED th
     ELSE /\ th' = [th EXCEPT ![t] = [InUser EXCEPT !.pc = "unlock", !.w = lock, !.temp = word[lock]]]
          /\ UNCHANGED word
  /\ UNCHANGED <<sigVars, refs, fd, histVars, misled, broken, calls>>

(* The word had FUTEX_WAITERS: it becomes 0 and one task is woken.         *)
Unlock(t) ==
  /\ th[t].pc = "unlock"
  /\ word[lock] = th[t].temp
  /\ word' = [word EXCEPT ![lock] = Free]
  /\ th' = [th EXCEPT ![t].pc = "find", ![t].todo = 1]
  /\ UNCHANGED <<sigVars, refs, fd, holds, histVars, misled, broken, calls>>

-----------------------------------------------------------------------------
(* FUTEX_FD: the handle keeps a reference until it is closed.              *)
FutexFd(t) ==
  /\ t \in Opener /\ Call(t) /\ ~fd
  /\ fd' = TRUE /\ refs' = [refs EXCEPT ![cond] = @ + 1]
  /\ UNCHANGED <<sigVars, word, th, holds, histVars, misled, broken>>

CloseFd(t) ==
  /\ t \in Opener /\ th[t].pc = "user" /\ fd
  /\ fd' = FALSE /\ Decref(cond)
  /\ UNCHANGED <<sigVars, word, th, holds, histVars, misled, calls>>

-----------------------------------------------------------------------------
InCall(t) ==
  \/ Reference(t) \/ ConnectFutex(t) \/ Put(t)
  \/ Signaled(t) \/ Serve(t) \/ Failed(t) \/ WaitCheck(t)
  \/ Find(t) \/ Send(t) \/ Sent(t)
  \/ LockRead(t) \/ LockMark(t) \/ LockRetry(t) \/ Unlock(t)

(* A failed assertion ends everything. *)
Next ==
  /\ ~broken
  /\ \E t \in Task :
       \/ InCall(t) \/ Fail(t)
       \/ CallWait(t) \/ Store(t) \/ CallLock(t) \/ CallUnlock(t)
       \/ FutexFd(t) \/ CloseFd(t)

Spec == Init /\ [][Next]_vars

(* Every task is scheduled again and again, and every timeout expires.     *)
FairSpec ==
  /\ Spec
  /\ \A t \in Task : WF_vars(~broken /\ (InCall(t) \/ Fail(t)))

-----------------------------------------------------------------------------
(* What must hold.                                                         *)
(***************************************************************************)

(* FUTEX_LOCK_PI is a lock: two tasks for which it returned 0 never hold   *)
(* it together, and the word names the owner until that owner unlocks it.  *)
LockExclusion ==
  /\ Cardinality(holds) <= 1
  /\ \A t \in holds : word[lock].tid = t

Asleep(t, w) == th[t].pc = "wait" /\ th[t].w = w /\ tcs_sig[t] = NoSig

(* A task that is going to send the signal of w. *)
WakePending(w) == \E t \in Task : th[t].pc \in {"find", "send"} /\ th[t].w = w

(* A FUTEX_WAIT sleeps on a word that has changed only while the FUTEX_WAKE *)
(* of the task that changed it is still to come - unless the signal came   *)
(* while the waiter was moving its connections to serve an RPC.            *)
NoLostWake ==
  \A t \in Task \ raced :
    Asleep(t, cond) /\ word[cond] # th[t].val => WakePending(cond)

(* A locker that is awake and will take the lock or set FUTEX_WAITERS.     *)
Coming(t) ==
  /\ th[t].w = lock
  /\ \/ th[t].pc \in {"connect", "check", "mark", "retry"}
     \/ th[t].pc \in {"wait", "push", "serve", "failed"} /\ tcs_sig[t] # NoSig

(* A locker sleeps only while the owner knows of it (FUTEX_WAITERS), or a  *)
(* signal is about to be sent, or another locker is awake.  There are      *)
(* three ways to be left asleep: the lock was taken by a task that did not *)
(* set the bit again, a signal came too late for a task whose wait had     *)
(* failed, or the locker was moving its connections when it was signaled.  *)
LockersKnown ==
  \A t \in Task \ (forgotten \cup raced) :
    Asleep(t, lock) =>
      \/ word[lock].waiters \/ WakePending(lock)
      \/ \E u \in Task : Coming(u)

-----------------------------------------------------------------------------
(* What does not hold.                                                     *)
(***************************************************************************)

(* futex.h: "uaddr |= FUTEX_WAITERS; WAIT(uaddr, ...)": a locker never    *)
(* sleeps in front of a lock that is free and that nobody will signal.     *)
NoForgottenLocker ==
  \A t \in Task :
    Asleep(t, lock) /\ word[lock].tid = NoTask =>
      \/ WakePending(lock)
      \/ \E u \in Task : Coming(u)

(* futex.h: FUTEX_WAIT sleeps until it is woken or the word has changed:   *)
(* also when it serves RPCs meanwhile.                                     *)
WaitersWoken ==
  \A t \in Task :
    Asleep(t, cond) /\ word[cond] # th[t].val => WakePending(cond)

(* futex_destroy(): assert(!SIG_GETCON(&self->f_sig)). *)
DestroyUnconnected == ~broken

(* futex.h: "WAKE_MAX(uaddr, mask, max_threads = val)": the threads that   *)
(* FUTEX_WAKE counts were waiting.                                         *)
WakesWaiters == ~misled

(* futex.h: "WAIT(uaddr, mask, utime)": a wait with a timeout ends. *)
TimeoutEnds == \A t \in Timed : th[t].pc = "wait" ~> th[t].pc = "user"
=============================================================================
