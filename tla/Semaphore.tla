----------------------------- MODULE Semaphore -----------------------------
(***************************************************************************)
(* The kernel semaphore: sem_timedwait(), sem_trywait() and sem_post()     *)
(* (src/kernel/src/sched/semaphore.c, sched/semaphore.h).                  *)
(*                                                                         *)
(*   sem_tickets  the field of struct sem                                  *)
(*   count[t]     the value sem_trywait() has read and will try to replace *)
(*                with count-1; 0 when it has read none                    *)
(*   todo[t]      threads sem_post() still has to wake                     *)
(*   due          tickets made available so far, minus those acquired      *)
(*   lost         signals that were received and then discarded by a       *)
(*                task_disconnect() (history, saturates at MaxTickets)     *)
(*   raced        tasks whose connection a sender removed while            *)
(*                task_push_connections() was moving it, so that they lost *)
(*                the signal and are connected no more (history)           *)
(*                                                                         *)
(* pc[t]: "run" outside of every call; "try" in a sem_trywait() on its     *)
(* own; "again", "poll" and "recheck" in the three sem_trywait()s of       *)
(* sem_timedwait(); "connect" and "drop" around them; "probe" and "send"   *)
(* in the sig_send() of sem_post(); the rest belongs to TaskWait.          *)
(***************************************************************************)
EXTENDS TaskWait, FiniteSets

CONSTANTS
  Initial,      \* tickets the semaphore is created with
  MaxPost,      \* most tickets made available by one sem_post()
  MaxTickets    \* bound on the tickets available at one time

ASSUME SemAssumption ==
  /\ Sig # {} /\ IsFiniteSet(Task)
  /\ {Initial, MaxPost, MaxTickets} \subseteq Nat /\ Initial <= MaxTickets

VARIABLES sem_tickets, count, todo, due, lost, raced

semVars == <<sem_tickets, count, todo, due>>
histVars == <<lost, raced>>
vars == <<chain, tcs_sig, saved, pc, sem_tickets, count, todo, due, lost, raced>>

(* &self->sem_signal: the one signal of this instance. *)
sem_signal == CHOOSE s \in Sig : TRUE

PC == {"run", "try", "again", "poll", "connect", "recheck", "drop", "wait", "push",
       "serve", "timeout", "throw", "probe", "send"}

TypeOK ==
  /\ SigTypeOK
  /\ pc \in [Task -> PC]
  /\ sem_tickets \in Nat
  /\ count \in [Task -> Nat]
  /\ todo \in [Task -> Nat]
  /\ due \in Nat
  /\ lost \in 0 .. MaxTickets
  /\ raced \subseteq Task

Init ==
  /\ SigInit
  /\ pc = [t \in Task |-> "run"]
  /\ sem_tickets = Initial
  /\ count = [t \in Task |-> 0]
  /\ todo = [t \in Task |-> 0]
  /\ due = Initial
  /\ lost = 0
  /\ raced = {}

-----------------------------------------------------------------------------
(* Mutant: the tickets are stored instead of exchanged. *)
TryWaitStores(t, yes, no) ==
  /\ \/ /\ count[t] = 0 /\ sem_tickets = 0
        /\ GoTo(t, no)
        /\ UNCHANGED semVars
     \/ /\ count[t] = 0 /\ sem_tickets # 0
        /\ count' = [count EXCEPT ![t] = sem_tickets]
        /\ UNCHANGED <<pc, sem_tickets, todo, due>>
     \/ /\ count[t] # 0
        /\ sem_tickets' = count[t] - 1
        /\ count' = [count EXCEPT ![t] = 0]
        /\ due' = due - 1
        /\ GoTo(t, yes)
        /\ UNCHANGED todo
  /\ UNCHANGED <<histVars, sigVars>>

(* One step of sem_trywait(): read the tickets, then CMPXCH them; the call *)
(* succeeds at `yes', and fails at `no' when it read zero.                 *)
TryWait(t, yes, no) ==
  /\ \/ /\ count[t] = 0 /\ sem_tickets = 0
        /\ GoTo(t, no)
        /\ UNCHANGED semVars
     \/ /\ count[t] = 0 /\ sem_tickets # 0
        /\ count' = [count EXCEPT ![t] = sem_tickets]
        /\ UNCHANGED <<pc, sem_tickets, todo, due>>
     \/ /\ count[t] # 0 /\ sem_tickets = count[t]
        /\ sem_tickets' = count[t] - 1
        /\ count' = [count EXCEPT ![t] = 0]
        /\ due' = due - 1
        /\ GoTo(t, yes)
        /\ UNCHANGED todo
     \/ /\ count[t] # 0 /\ sem_tickets # count[t]
        /\ count' = [count EXCEPT ![t] = 0]
        /\ UNCHANGED <<pc, sem_tickets, todo, due>>
  /\ UNCHANGED <<histVars, sigVars>>

(* The calls. *)
CallTryWait(t) == pc[t] = "run" /\ GoTo(t, "try") /\ UNCHANGED <<sigVars, semVars, histVars>>
CallTimedWait(t) == pc[t] = "run" /\ GoTo(t, "again") /\ UNCHANGED <<sigVars, semVars, histVars>>

TryWaitAlone(t) == pc[t] = "try" /\ TryWait(t, "run", "run")

(* sem_timedwait(): three attempts, the last one with the signal connected. *)
TimedWaitAgain(t) == pc[t] = "again" /\ TryWait(t, "run", "poll")
TimedWaitPoll(t) == pc[t] = "poll" /\ TryWait(t, "run", "connect")

TimedWaitConnect(t) ==
  /\ pc[t] = "connect"
  /\ Connect(t, sem_signal, FALSE)
  /\ GoTo(t, "recheck")
  /\ UNCHANGED <<semVars, histVars>>

TimedWaitRecheck(t) == pc[t] = "recheck" /\ TryWait(t, "drop", "wait")

(* t leaves the call, and a signal that it holds is thrown away. *)
Discard(t) ==
  /\ lost' = IF tcs_sig[t] # NoSig /\ lost < MaxTickets THEN lost + 1 ELSE lost
  /\ raced' = raced \ {t}

(* The last attempt succeeded: task_disconnect(); return true. *)
TimedWaitDrop(t) ==
  /\ pc[t] = "drop"
  /\ Disconnect(t)
  /\ Discard(t)
  /\ GoTo(t, "run")
  /\ UNCHANGED semVars

(* task_waitfor(): signaled, `goto again'; else return without a ticket.   *)
Wait(t) ==
  /\ \/ WaitLoop(t) /\ UNCHANGED histVars
     \/ WaitSignaled(t, "again") /\ UNCHANGED histVars
     \/ WaitFailed(t, "run") /\ Discard(t)
  /\ UNCHANGED semVars

-----------------------------------------------------------------------------
(* sem_post(): a locked FETCHADD, which no later load overtakes ...        *)
Post(t) ==
  /\ pc[t] = "run"
  /\ \E n \in 1 .. MaxPost :
       /\ sem_tickets + n <= MaxTickets
       /\ sem_tickets' = sem_tickets + n
       /\ due' = due + n
       /\ todo' = [todo EXCEPT ![t] = n]
  /\ GoTo(t, "probe")
  /\ UNCHANGED <<count, histVars, sigVars>>

(* ... then sig_send(&self->sem_signal,num_tickets).                       *)
Probe(t) ==
  /\ pc[t] = "probe"
  /\ IF chain[sem_signal] = <<>>
     THEN GoTo(t, "run") /\ todo' = [todo EXCEPT ![t] = 0]
     ELSE GoTo(t, "send") /\ UNCHANGED todo
  /\ UNCHANGED <<sem_tickets, count, due, histVars, sigVars>>

(* while (result < max_threads): one turn of sig_send(). *)
Send(t) ==
  /\ pc[t] = "send"
  /\ IF todo[t] = 0 \/ chain[sem_signal] = <<>>
     THEN /\ GoTo(t, "run")
          /\ todo' = [todo EXCEPT ![t] = 0]
          /\ UNCHANGED <<raced, sigVars>>
     ELSE /\ SendOne(sem_signal)
          /\ raced' = raced \cup {u \in {Head(chain[sem_signal]).task} : saved[u] = "moving"}
          /\ todo' = IF WakeOk(sem_signal) THEN [todo EXCEPT ![t] = @ - 1] ELSE todo
          /\ UNCHANGED pc
  /\ UNCHANGED <<sem_tickets, count, due, lost>>

(* The steps t takes once it is inside a call, and must take. *)
Step(t) ==
  \/ TryWaitAlone(t) \/ TimedWaitAgain(t) \/ TimedWaitPoll(t) \/ TimedWaitConnect(t)
  \/ TimedWaitRecheck(t) \/ TimedWaitDrop(t) \/ Wait(t) \/ Probe(t) \/ Send(t)

Next == \E t \in Task : CallTryWait(t) \/ CallTimedWait(t) \/ Post(t) \/ Step(t)

Spec == Init /\ [][Next]_vars

-----------------------------------------------------------------------------
(* No ticket is lost or handed out twice by the races for sem_tickets: the *)
(* tickets available are those made available minus those acquired.        *)
TicketsConserved == sem_tickets = due

(* t sleeps in sem_timedwait(). *)
Asleep(t) == pc[t] = "wait" /\ tcs_sig[t] = NoSig

(* u will look at the tickets before it sleeps. *)
Trying(u) ==
  \/ pc[u] \in {"try", "again", "poll", "connect", "recheck"}
  \/ pc[u] \in {"wait", "push", "serve"} /\ tcs_sig[u] # NoSig

(* u holds a signal that its next steps discard. *)
Discarding(u) == pc[u] \in {"drop", "timeout", "throw"} /\ tcs_sig[u] # NoSig

(* Wakeups that sem_post() still has to send. *)
Unsent == Cardinality({w \in Task \X (1 .. MaxPost) : w[2] <= todo[w[1]]})

(* While anybody sleeps, every ticket that is available is accounted for:  *)
(* by a task that is about to try for it, by a wakeup still to be sent, or *)
(* by a signal that its receiver discarded.  Only a task whose signal was  *)
(* sent while task_push_connections() moved its connection sleeps in front *)
(* of a ticket otherwise: nothing else loses a wakeup, however posts,      *)
(* waits, timeouts and callbacks interleave.                               *)
EveryTicketAnnounced ==
  (\E t \in Task \ raced : Asleep(t))
    => sem_tickets <= Cardinality({u \in Task : Trying(u) \/ Discarding(u)}) + Unsent + lost

-----------------------------------------------------------------------------
(* What sem_post() promises, `wake up to that same number of threads', and *)
(* the code does not keep: no task keeps sleeping for a ticket that is     *)
(* available.  A discarded signal and the push race both strand a waiter.  *)
NoStrandedWaiter ==
  sem_tickets > 0 /\ (\E t \in Task : Asleep(t))
    => Unsent > 0 \/ \E u \in Task : Trying(u)
=============================================================================
