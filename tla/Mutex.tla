-------------------------------- MODULE Mutex --------------------------------
(***************************************************************************)
(* The recursive kernel mutex: mutex_get_timed(), mutex_try(), mutex_put() *)
(* and mutex_poll() (src/kernel/src/sched/mutex.c, sched/mutex.h), used by *)
(* the tasks of Task without any further discipline.                       *)
(*                                                                         *)
(*   m_ind, m_owner  the fields of struct mutex                            *)
(*   held[t]         how often t has got the mutex and not yet put it      *)
(*   sb              SMP only: the tasks whose plain store `m_ind = 0' in  *)
(*                   mutex_put() is still in the store buffer of their CPU *)
(*                                                                         *)
(* pc[t]: "run" outside of every call; "owner" the CMPXCH of m_ind         *)
(* succeeded and m_owner is about to be set; "poll", "connect", "recheck"  *)
(* on the way to the wait; "drop" got it in the re-check and has to        *)
(* disconnect; "put", "probe", "send" in mutex_put(); "pcheck", "pwait" in *)
(* a poll; the rest belongs to TaskWait.                                   *)
(***************************************************************************)
EXTENDS TaskWait

CONSTANTS
  NoTask,
  Poller,     \* tasks that poll the mutex
  SMP,        \* FALSE: built with CONFIG_NO_SMP
  MaxHeld     \* bound on recursion

ASSUME MutexAssumption ==
  /\ NoTask \notin Task
  /\ Sig # {}
  /\ Poller \subseteq Task
  /\ SMP \in BOOLEAN
  /\ MaxHeld \in Nat \ {0}

VARIABLES m_ind, m_owner, held, sb

vars == <<chain, tcs_sig, saved, pc, m_ind, m_owner, held, sb>>

(* &self->m_signal: the one signal of this instance. *)
m_signal == CHOOSE s \in Sig : TRUE

PC == {"run", "owner", "poll", "connect", "recheck", "drop", "wait", "push",
       "serve", "timeout", "throw", "put", "probe", "send", "pcheck", "pwait"}

TypeOK ==
  /\ SigTypeOK
  /\ pc \in [Task -> PC]
  /\ m_ind \in Nat
  /\ m_owner \in Task \cup {NoTask}
  /\ held \in [Task -> Nat]
  /\ sb \subseteq Task

Init ==
  /\ SigInit
  /\ pc = [t \in Task |-> "run"]
  /\ m_ind = 0
  /\ m_owner = NoTask
  /\ held = [t \in Task |-> 0]
  /\ sb = {}

-----------------------------------------------------------------------------
(* ATOMIC_CMPXCH(self->m_ind,0,1): a locked instruction, which first       *)
(* drains the store buffer of its CPU.                                     *)
CmpXch(t) == t \notin sb /\ m_ind = 0 /\ m_ind' = 1
CmpXchFails(t) == t \notin sb /\ m_ind # 0 /\ UNCHANGED m_ind

(* The CMPXCH of mutex_get_timed() and mutex_try() succeeds, or fails for  *)
(* the owner, who recurses.                                                *)
Acquire(t) ==
  \/ /\ CmpXch(t)
     /\ GoTo(t, "owner")
     /\ UNCHANGED held
  \/ /\ t \notin sb /\ m_ind # 0 /\ m_owner = t
     /\ m_ind' = m_ind + 1
     /\ held' = [held EXCEPT ![t] = @ + 1]
     /\ UNCHANGED pc

(* mutex_get_timed() up to the point where it has to block. *)
Get(t) ==
  /\ pc[t] = "run"
  /\ held[t] < MaxHeld
  /\ \/ Acquire(t)
     \/ CmpXchFails(t) /\ m_owner # t /\ GoTo(t, "poll") /\ UNCHANGED held
  /\ UNCHANGED <<m_owner, sb, sigVars>>

(* mutex_try(): as above, but it returns false where the other blocks. *)
Try(t) ==
  /\ pc[t] = "run"
  /\ held[t] < MaxHeld
  /\ \/ Acquire(t)
     \/ CmpXchFails(t) /\ m_owner # t /\ UNCHANGED <<pc, held>>
  /\ UNCHANGED <<m_owner, sb, sigVars>>

(* ok: self->m_owner = THIS_TASK; return true; *)
SetOwner(t) ==
  /\ pc[t] = "owner"
  /\ m_owner' = t
  /\ held' = [held EXCEPT ![t] = @ + 1]
  /\ GoTo(t, "run")
  /\ UNCHANGED <<m_ind, sb, sigVars>>

(* TASK_POLL_BEFORE_CONNECT: up to four more attempts, each after a yield. *)
(* Attempts that fail change nothing, so one stands for all of them and    *)
(* for the attempt at `again:' of a task that was signaled.                *)
PollBeforeConnect(t) ==
  /\ pc[t] = "poll"
  /\ \/ CmpXch(t) /\ GoTo(t, "owner")
     \/ CmpXchFails(t) /\ GoTo(t, "connect")
  /\ UNCHANGED <<m_owner, held, sb, sigVars>>

ConnectSignal(t) ==
  /\ pc[t] = "connect"
  /\ Connect(t, m_signal, FALSE)
  /\ GoTo(t, "recheck")
  /\ UNCHANGED <<m_ind, m_owner, held, sb>>

(* Mutant: the re-check reads m_ind instead of exchanging it. *)
RecheckReads(t) ==
  /\ pc[t] = "recheck"
  /\ t \notin sb
  /\ GoTo(t, IF m_ind = 0 THEN "drop" ELSE "wait")
  /\ UNCHANGED <<m_ind, m_owner, held, sb, sigVars>>

(* `Prevent a race condition by checking the indirection again.' *)
Recheck(t) ==
  /\ pc[t] = "recheck"
  /\ \/ CmpXch(t) /\ GoTo(t, "drop")
     \/ CmpXchFails(t) /\ GoTo(t, "wait")
  /\ UNCHANGED <<m_owner, held, sb, sigVars>>

(* It is free after all: task_disconnect(); goto ok; *)
DropConnection(t) ==
  /\ pc[t] = "drop"
  /\ Disconnect(t)
  /\ GoTo(t, "owner")
  /\ UNCHANGED <<m_ind, m_owner, held, sb>>

(* task_waitfor(): signaled, `goto again'; timed out or interrupted, the   *)
(* call returns without the mutex.                                         *)
Wait(t) ==
  /\ \/ WaitLoop(t)
     \/ WaitSignaled(t, "poll")
     \/ WaitFailed(t, "run")
  /\ UNCHANGED <<m_ind, m_owner, held, sb>>

-----------------------------------------------------------------------------
(* mutex_put(): `--m_ind' of an inner lock, or `m_owner = NULL' of the     *)
(* outermost one.                                                          *)
Put(t) ==
  /\ pc[t] = "run"
  /\ held[t] > 0
  /\ held' = [held EXCEPT ![t] = @ - 1]
  /\ IF m_ind = 1
     THEN m_owner' = NoTask /\ GoTo(t, "put") /\ UNCHANGED m_ind
     ELSE m_ind' = m_ind - 1 /\ UNCHANGED <<m_owner, pc>>
  /\ UNCHANGED <<sb, sigVars>>

(* `m_ind = 0': a plain store, which on SMP reaches the other CPUs later.  *)
PutStore(t) ==
  /\ pc[t] = "put"
  /\ IF SMP THEN sb' = sb \cup {t} /\ UNCHANGED m_ind
            ELSE m_ind' = 0 /\ UNCHANGED sb
  /\ GoTo(t, "probe")
  /\ UNCHANGED <<m_owner, held, sigVars>>

(* The store buffer of t's CPU reaches memory. *)
Flush(t) ==
  /\ t \in sb
  /\ sb' = sb \ {t}
  /\ m_ind' = 0
  /\ UNCHANGED <<pc, m_owner, held, sigVars>>

(* Mutant: m_owner is cleared after m_ind. *)
ProbeClearsOwner(t) ==
  /\ pc[t] = "probe"
  /\ m_owner' = NoTask
  /\ GoTo(t, IF chain[m_signal] = <<>> THEN "run" ELSE "send")
  /\ UNCHANGED <<m_ind, held, sb, sigVars>>

(* sig_send(): `if (!ATOMIC_READ(self->s_ptr)) goto done;', a plain load   *)
(* that may overtake the store.                                            *)
Probe(t) ==
  /\ pc[t] = "probe"
  /\ GoTo(t, IF chain[m_signal] = <<>> THEN "run" ELSE "send")
  /\ UNCHANGED <<m_ind, m_owner, held, sb, sigVars>>

(* One turn of sig_send(&self->m_signal,1): turns that do not count are    *)
(* followed by another one.                                                *)
Send(t) ==
  /\ pc[t] = "send"
  /\ t \notin sb
  /\ \/ chain[m_signal] = <<>> /\ GoTo(t, "run") /\ UNCHANGED sigVars
     \/ SendOne(m_signal) /\ (IF WakeOk(m_signal) THEN GoTo(t, "run") ELSE UNCHANGED pc)
  /\ UNCHANGED <<m_ind, m_owner, held, sb>>

-----------------------------------------------------------------------------
(* mutex_poll(): connect as a ghost (locking the signal drains the store   *)
(* buffer), then look.                                                     *)
PollConnect(t) ==
  /\ pc[t] = "run"
  /\ t \in Poller
  /\ t \notin sb
  /\ Connect(t, m_signal, TRUE)
  /\ GoTo(t, "pcheck")
  /\ UNCHANGED <<m_ind, m_owner, held, sb>>

(* A poll that succeeds is followed by task_disconnect(), one that fails   *)
(* by a wait.                                                              *)
PollCheck(t) ==
  /\ pc[t] = "pcheck"
  /\ IF m_ind = 0 \/ m_owner = t
     THEN Disconnect(t) /\ GoTo(t, "run")
     ELSE UNCHANGED sigVars /\ GoTo(t, "pwait")
  /\ UNCHANGED <<m_ind, m_owner, held, sb>>

PollWait(t) ==
  /\ pc[t] = "pwait"
  /\ tcs_sig[t] # NoSig \/ t \in Timed
  /\ Disconnect(t)
  /\ GoTo(t, "run")
  /\ UNCHANGED <<m_ind, m_owner, held, sb>>

(* The steps t takes once it is inside a call, and must take. *)
Step(t) ==
  \/ SetOwner(t) \/ PollBeforeConnect(t) \/ ConnectSignal(t) \/ Recheck(t)
  \/ DropConnection(t) \/ Wait(t) \/ PutStore(t) \/ Flush(t) \/ Probe(t)
  \/ Send(t) \/ PollCheck(t) \/ PollWait(t)

Next ==
  \E t \in Task : Get(t) \/ Try(t) \/ Put(t) \/ PollConnect(t) \/ Step(t)

Spec == Init /\ [][Next]_vars

(* Every task that is inside a call keeps running, store buffers drain,    *)
(* and whoever holds the mutex puts it.                                    *)
Fairness == \A t \in Task : WF_vars(Step(t)) /\ WF_vars(Put(t))

FairSpec == Spec /\ Fairness
-----------------------------------------------------------------------------
(* The assertions of mutex_put(), `Noone is holding any locks' and `You're *)
(* not the owner', for every task that has got the mutex and may put it:   *)
(* m_owner names it and m_ind counts exactly its own locks, however others *)
(* race for m_ind, recurse, poll or leave their store buffered.            *)
HolderOwns ==
  \A t \in Task : held[t] > 0 => m_owner = t /\ m_ind = held[t]

(* `Recursive, mutually exclusive': no two tasks have the mutex, counting  *)
(* those that have won the CMPXCH but not yet set m_owner.                 *)
MutualExclusion ==
  \A t, u \in Task :
    /\ held[t] > 0 \/ pc[t] \in {"owner", "drop"}
    /\ held[u] > 0 \/ pc[u] \in {"owner", "drop"}
    => t = u

(* t sleeps in mutex_get_timed() and nobody has signaled it. *)
Asleep(t) == pc[t] = "wait" /\ tcs_sig[t] = NoSig

(* u is bound to try for the mutex or to send its signal. *)
Responsible(u) ==
  \/ pc[u] \in {"probe", "send", "poll", "connect", "recheck"}
  \/ pc[u] \in {"wait", "push", "serve"} /\ tcs_sig[u] # NoSig

(* No lost wakeup: while a task sleeps for a mutex that is free, some task *)
(* is on its way that will take the mutex or wake a sleeper.  This is what *)
(* the comments of sig_sendone_locked() claim that mutex_put() may rely on *)
(* (`at least ~1~ task was woken').                                        *)
NoStrandedWaiter ==
  m_ind = 0 /\ (\E t \in Task : Asleep(t)) => \E u \in Task : Responsible(u)

(* A mutex for which somebody sleeps does not stay free.                   *)
FreeMutexIsTaken ==
  (m_ind = 0 /\ \E t \in Task : Asleep(t)) ~> (m_ind # 0)
=============================================================================
