------------------------------- MODULE Sched -------------------------------
(***************************************************************************)
(* The SMP scheduler and its inter-processor interrupts:                   *)
(* src/kernel/i386-kos/scheduler.c (task_start, task_sleep, task_wake_ex,  *)
(* task_setcpu_impl, the end of task_exit), ipi.c (x86_ipi_send,           *)
(* x86_ipi_process, x86_ipi_handle) and the assembly they meet in          *)
(* (X86_IRQ_PIT, x86_cpu_idle, X86_IRQ_APICIPI).                           *)
(*                                                                         *)
(*   ring[c]       the ring of running tasks, from c_running on            *)
(*   c_sleeping[c] sleeping tasks; timeouts are abstracted, any sleeper    *)
(*                 may time out                                            *)
(*   c_pending[c]  the chain of tasks c has yet to load                    *)
(*   t_cpu, t_state  the fields of struct task                             *)
(*   ipi[c]        ipi_buffer of c: a slot is free or holds a valid IPI    *)
(*   unacked       CPUs whose local APIC still has an IPI in service: no   *)
(*                 further IPI is delivered to them                        *)
(*   pc, op, target, dest, status  what a task is doing: the operation,    *)
(*                 the thread and the CPU it is about, and the status word *)
(*                 on its stack that the handler of its IPI writes         *)
(*   calls[t]      operations t has begun                                  *)
(*   awake, resent, torn  history: wakers whose thread was seen awake      *)
(*                 since they began; wakers that gave up on an IPI and     *)
(*                 sent another; threads that were unlinked from a list or *)
(*                 ring they were not in.  The last is undefined           *)
(*                 behaviour, and nothing is said of what follows it.      *)
(*                                                                         *)
(* A section with preemption disabled is one step of its CPU.  The boot    *)
(* CPU has no IDLE thread of its own; every other CPU has one, with        *)
(* TASK_FKEEPCORE set.                                                     *)
(***************************************************************************)
EXTENDS Integers, Sequences, FiniteSets, Functions

CONSTANTS
  Cpu, BootCpu, Task,
  IdleOf,      \* [Cpu \ {BootCpu} -> Task], the IDLE threads
  Home,        \* [Task -> Cpu], the CPUs tasks start on
  New,         \* tasks that are not started yet
  Sleeper,     \* tasks that call task_sleep()
  Waker,       \* tasks that call task_wake()
  Mover,       \* tasks that call task_setcpu_impl()
  Starter,     \* tasks that call task_start()
  Exiting,     \* tasks that call task_exit()
  Movable,     \* the threads task_setcpu_impl() is called for
  Quiet,       \* wakers that call task_wake() with interrupts off
  Impatient,   \* wakers whose 100 ms may elapse before the IPI is handled
  Slots,       \* number of slots of ipi_buffer
  MaxCalls,    \* bound: operations of each task
  NoSmp        \* CONFIG_NO_SMP

Idle == {IdleOf[c] : c \in Cpu \ {BootCpu}}

ASSUME SchedAssumption ==
  /\ BootCpu \in Cpu
  /\ IdleOf \in [Cpu \ {BootCpu} -> Task] /\ Home \in [Task -> Cpu]
  /\ \A c \in Cpu \ {BootCpu} : Home[IdleOf[c]] = c
  /\ \A c \in Cpu : \E t \in Task \ New : Home[t] = c
  /\ New \cup Sleeper \cup Waker \cup Mover \cup Starter \cup Exiting \cup Movable \subseteq Task
  /\ Idle \cap (New \cup Sleeper \cup Exiting) = {}
  /\ Impatient \subseteq Waker /\ Quiet \subseteq Waker
  /\ Slots \in Nat \ {0} /\ MaxCalls \in [Task -> Nat]
  /\ NoSmp \in BOOLEAN /\ (NoSmp => Cpu = {BootCpu})

VARIABLES ring, c_sleeping, c_pending, t_cpu, t_state, ipi, unacked,
          pc, op, target, dest, status, calls, awake, resent, torn

queues == <<ring, c_sleeping, c_pending>>
frame == <<op, target, dest>>
vars == <<queues, t_cpu, t_state, ipi, unacked, pc, frame, status, calls, awake, resent, torn>>

StateFlag == {"STARTED", "SLEEPING", "TIMEDOUT", "TERMINATING", "TERMINATED", "HELPMETERM"}
Status == {"PENDING", "OK", "RETRY", "KEEP", "DEAD", "LAST"}
IpiType == {"SCHEDULE", "UNSCHEDULE", "WAKETASK"}
Ipi == [type : IpiType, thread : Task, from : Task]
Free == [type |-> "NOOP"]

TypeOK ==
  /\ ring \in [Cpu -> Seq(Task)] /\ \A c \in Cpu : ring[c] # <<>>
  /\ c_sleeping \in [Cpu -> SUBSET Task] /\ c_pending \in [Cpu -> Seq(Task)]
  /\ t_cpu \in [Task -> Cpu] /\ t_state \in [Task -> SUBSET StateFlag]
  /\ ipi \in [Cpu -> [1 .. Slots -> Ipi \cup {Free}]]
  /\ unacked \subseteq Cpu
  /\ pc \in [Task -> {"new", "run", "send", "wait", "own", "place", "sched", "exit", "final", "gone"}]
  /\ op \in [Task -> IpiType] /\ target \in [Task -> Task] /\ dest \in [Task -> Cpu]
  /\ status \in [Task -> Status]
  /\ calls \in [Task -> Nat] /\ \A t \in Task : calls[t] <= MaxCalls[t]
  /\ awake \subseteq Task /\ resent \subseteq Impatient /\ torn \subseteq Task

(* The sequences that hold each task of S once. *)
Orderings(S) ==
  {w \in UNION {[1 .. n -> S] : n \in 0 .. Cardinality(S)} : IsInjective(w) /\ Range(w) = S}
StartsOn(c) == {t \in Task \ New : Home[t] = c}

(* The started tasks run, in any order, on the CPUs they were started on. *)
Init ==
  /\ t_cpu = Home
  /\ ring \in [Cpu -> UNION {Orderings(StartsOn(c)) : c \in Cpu}]
  /\ \A c \in Cpu : ring[c] \in Orderings(StartsOn(c))
  /\ c_sleeping = [c \in Cpu |-> {}] /\ c_pending = [c \in Cpu |-> <<>>]
  /\ t_state = [t \in Task |-> IF t \in New THEN {} ELSE {"STARTED"}]
  /\ ipi = [c \in Cpu |-> [s \in 1 .. Slots |-> Free]] /\ unacked = {}
  /\ pc = [t \in Task |-> IF t \in New THEN "new" ELSE "run"]
  /\ op = [t \in Task |-> "WAKETASK"] /\ target = [t \in Task |-> t]
  /\ dest = t_cpu /\ status = [t \in Task |-> "PENDING"]
  /\ calls = [t \in Task |-> 0]
  /\ awake = {} /\ resent = {} /\ torn = {}

-----------------------------------------------------------------------------
Running(c) == Head(ring[c])
Has(x, flag) == flag \in t_state[x]
Rotate(s) == Append(Tail(s), Head(s))
InsertAfter(s, x) == <<Head(s), x>> \o Tail(s)
GoTo(t, label) == pc' = [pc EXCEPT ![t] = label]
At(c, t, label) == t = Running(c) /\ pc[t] = label

(* The interrupts of c are off: its current task, or the handler that      *)
(* interrupted it, is inside a task_wake() that was called like that.      *)
(* task_tryyield() then does nothing.                                      *)
Masked(c) ==
  LET t == Running(c) IN t \in Quiet /\ op[t] = "WAKETASK" /\ pc[t] \in {"send", "wait"}

(* The tasks of xs, in the order they have in s. *)
InOrderOf(s, xs) ==
  {w \in Orderings(xs) : \A j, k \in DOMAIN w : j < k =>
     \E m, n \in DOMAIN s : m < n /\ s[m] = w[j] /\ s[n] = w[k]}

(* What the queues of c are once its c_pending chain is loaded. *)
LoadedRing(c) ==
  {ring[c] \o w : w \in InOrderOf(c_pending[c], {x \in Range(c_pending[c]) : ~Has(x, "SLEEPING")})}
LoadedSleeping(c) == c_sleeping[c] \cup {x \in Range(c_pending[c]) : Has(x, "SLEEPING")}
Started(xs) == [x \in Task |-> IF x \in xs THEN t_state[x] \cup {"STARTED"} ELSE t_state[x]]

(* x86_scheduler_loadpending(), which the SCHEDULE IPI runs. *)
x86_scheduler_loadpending(c) ==
  /\ \E r \in LoadedRing(c) : ring' = [ring EXCEPT ![c] = r]
  /\ c_sleeping' = [c_sleeping EXCEPT ![c] = LoadedSleeping(c)]
  /\ c_pending' = [c_pending EXCEPT ![c] = <<>>]
  /\ t_state' = Started(Range(c_pending[c]))

(* x86_scheduler_loadpending_chain(), which idle loops run: it does not    *)
(* set TASK_STATE_FSTARTED.                                                *)
x86_scheduler_loadpending_chain(c) ==
  /\ \E r \in LoadedRing(c) : ring' = [ring EXCEPT ![c] = r]
  /\ c_sleeping' = [c_sleeping EXCEPT ![c] = LoadedSleeping(c)]
  /\ c_pending' = [c_pending EXCEPT ![c] = <<>>]
  /\ UNCHANGED t_state

(* History: x has left the sleeping list. *)
SeenAwake(xs) == awake' = awake \cup {t \in Task : target[t] \in xs}

-----------------------------------------------------------------------------
(* The handlers of x86_ipi_handle().  A status word is only there while    *)
(* its owner is still in the call that sent the IPI.                       *)
Awaits(m) == pc[m.from] \in {"send", "wait"} /\ op[m.from] = m.type /\ target[m.from] = m.thread
SetStatus(m, value) == status' = IF Awaits(m) THEN [status EXCEPT ![m.from] = value] ELSE status

(* Mutant: a sleeping thread stays in the list of sleepers. *)
UnscheduleRunningOnly(c, m) ==
  /\ \E r \in LoadedRing(c) : \E w \in InOrderOf(r, Range(r) \ {m.thread}) : ring' = [ring EXCEPT ![c] = w]
  /\ c_sleeping' = [c_sleeping EXCEPT ![c] = LoadedSleeping(c)]
  /\ c_pending' = [c_pending EXCEPT ![c] = <<>>]
  /\ t_state' = Started(Range(c_pending[c]))
  /\ SetStatus(m, "OK") /\ UNCHANGED <<unacked, torn>>

(* X86_IPI_UNSCHEDULE of a thread that is not the interrupted one. *)
UnscheduleOther(c, m) ==
  LET x == m.thread
      found == x \in IF Has(x, "SLEEPING") THEN LoadedSleeping(c) ELSE Range(ring[c]) \cup Range(c_pending[c])
  IN /\ \E r \in LoadedRing(c) : \E w \in InOrderOf(r, Range(r) \ {x}) : ring' = [ring EXCEPT ![c] = w]
     /\ c_sleeping' = [c_sleeping EXCEPT ![c] = LoadedSleeping(c) \ {x}]
     /\ c_pending' = [c_pending EXCEPT ![c] = <<>>]
     /\ t_state' = Started(Range(c_pending[c]))
     /\ torn' = IF found THEN torn ELSE torn \cup {x}
     /\ SetStatus(m, "OK") /\ UNCHANGED unacked

(* X86_IPI_UNSCHEDULE of the interrupted thread: the next one is loaded    *)
(* from within the handler, which never returns to the code that           *)
(* acknowledges the interrupt.                                             *)
UnscheduleCurrent(c, m) ==
  /\ IF Len(ring[c]) = 1
     THEN SetStatus(m, "LAST") /\ UNCHANGED <<ring, unacked>>
     ELSE SetStatus(m, "OK") /\ ring' = [ring EXCEPT ![c] = Tail(@)] /\ unacked' = unacked \cup {c}
  /\ UNCHANGED <<c_sleeping, c_pending, t_state, torn>>

(* x86_ipi_send() sets TASK_FKEEPCORE of its caller, so a thread never     *)
(* unschedules itself.                                                     *)
HandleUnschedule(c, m) ==
  LET x == m.thread
      refused == CASE t_cpu[x] # c                               -> "RETRY"
                   [] t_cpu[x] = c /\ x \in Idle \cup {m.from}   -> "KEEP"
                   [] OTHER                                      -> "DEAD"
  IN /\ \/ /\ t_cpu[x] # c \/ x \in Idle \cup {m.from} \/ Has(x, "TERMINATING")
           /\ SetStatus(m, refused) /\ UNCHANGED <<queues, t_state, unacked, torn>>
        \/ /\ t_cpu[x] = c /\ x \notin Idle \cup {m.from} /\ ~Has(x, "TERMINATING")
           /\ IF x = Running(c) THEN UnscheduleCurrent(c, m) ELSE UnscheduleOther(c, m)
     /\ UNCHANGED awake

(* x86_scheduler_localwake(); without SMP the loop body of task_wake_ex(). *)
x86_scheduler_localwake(c, x) ==
  /\ ring' = [ring EXCEPT ![c] = IF NoSmp THEN Append(@, x) ELSE InsertAfter(@, x)]
  /\ c_sleeping' = [c_sleeping EXCEPT ![c] = @ \ {x}]
  /\ t_state' = IF NoSmp THEN t_state ELSE [t_state EXCEPT ![x] = @ \ {"SLEEPING"}]
  /\ torn' = IF x \in c_sleeping[c] THEN torn ELSE torn \cup {x}
  /\ SeenAwake({x})
  /\ UNCHANGED c_pending

(* Mutant: a thread that moved to another CPU is taken for one that runs. *)
WakeElsewhere(c, m) ==
  LET x == m.thread
  IN /\ \/ /\ t_cpu[x] = c /\ ~Has(x, "TERMINATED") /\ Has(x, "SLEEPING")
           /\ x86_scheduler_localwake(c, x) /\ SetStatus(m, "OK")
        \/ /\ t_cpu[x] # c \/ Has(x, "TERMINATED") \/ ~Has(x, "SLEEPING")
           /\ SetStatus(m, IF Has(x, "TERMINATED") THEN "DEAD" ELSE "OK")
           /\ UNCHANGED <<queues, t_state, awake, torn>>
     /\ UNCHANGED unacked

(* X86_IPI_WAKETASK; the redirection of a thread preempted in user-space,  *)
(* which X86_IPI_WAKETASK_FOR_RPC adds, is in Rpc.                         *)
HandleWake(c, m) ==
  LET x == m.thread
  IN /\ \/ /\ t_cpu[x] = c /\ ~Has(x, "TERMINATED") /\ Has(x, "SLEEPING")
           /\ x86_scheduler_localwake(c, x) /\ SetStatus(m, "OK")
        \/ /\ t_cpu[x] # c \/ Has(x, "TERMINATED") \/ ~Has(x, "SLEEPING")
           /\ SetStatus(m, IF t_cpu[x] # c THEN "RETRY" ELSE IF Has(x, "TERMINATED") THEN "DEAD" ELSE "OK")
           /\ UNCHANGED <<queues, t_state, awake, torn>>
     /\ UNCHANGED unacked

HandleSchedule(c) == x86_scheduler_loadpending(c) /\ UNCHANGED <<status, unacked, awake, torn>>

x86_ipi_handle(c, m) ==
  \/ m.type = "UNSCHEDULE" /\ HandleUnschedule(c, m)
  \/ m.type = "WAKETASK" /\ HandleWake(c, m)

Valid(c) == {s \in 1 .. Slots : ipi[c][s] # Free}
Least(s, S) == s \in S /\ \A r \in S : s <= r

(* X86_IRQ_APICIPI and x86_ipi_process(): the lowest slot first; the slot  *)
(* is free before its IPI is handled.                                      *)
x86_ipi_process(c) ==
  /\ c \notin unacked /\ ~Masked(c)
  /\ \E s \in Valid(c) :
       /\ Least(s, Valid(c))
       /\ ipi' = [ipi EXCEPT ![c][s] = Free]
       /\ \/ ipi[c][s].type = "SCHEDULE" /\ HandleSchedule(c)
          \/ x86_ipi_handle(c, ipi[c][s])
  /\ UNCHANGED <<t_cpu, pc, frame, calls, resent>>

(* x86_ipi_send() to another CPU; with no slot free the caller yields and  *)
(* starts over.  An IPI for the own CPU is handled at once.                *)
x86_ipi_send(c, to, m) ==
  /\ to # c
  /\ \E s \in 1 .. Slots \ Valid(to) :
       Least(s, 1 .. Slots \ Valid(to)) /\ ipi' = [ipi EXCEPT ![to][s] = m]
  /\ SetStatus(m, "PENDING")
  /\ UNCHANGED <<queues, t_state, unacked, awake, torn>>

-----------------------------------------------------------------------------
(* task_yield(), task_tryyield(): the next task of the ring. *)
task_yield(c) ==
  /\ ~Masked(c)
  /\ ring' = [ring EXCEPT ![c] = Rotate(@)]
  /\ UNCHANGED <<c_sleeping, c_pending, t_cpu, t_state, ipi, unacked, pc, frame, status, calls,
                 awake, resent, torn>>

(* X86_IRQ_PIT: expired sleepers are put after the current task, the last  *)
(* one first, and the next task is switched to.                            *)
X86_IRQ_PIT(c) ==
  \E xs \in (SUBSET c_sleeping[c]) \ {{}} : \E s \in Orderings(xs) :
     /\ ~Masked(c)
     /\ ring' = [ring EXCEPT ![c] = Rotate(<<Head(@)>> \o s \o Tail(@))]
     /\ c_sleeping' = [c_sleeping EXCEPT ![c] = @ \ xs]
     /\ t_state' = [x \in Task |-> IF x \in xs THEN (t_state[x] \ {"SLEEPING"}) \cup {"TIMEDOUT"}
                                   ELSE t_state[x]]
     /\ SeenAwake(xs)
     /\ UNCHANGED <<c_pending, t_cpu, ipi, unacked, pc, frame, status, calls, resent, torn>>

(* An idle loop: x86_cpu_idle() of the last task of a CPU, or the IDLE     *)
(* thread of a secondary CPU that is alone.                                *)
x86_cpu_idle(c) ==
  /\ Len(ring[c]) = 1 /\ c_pending[c] # <<>>
  /\ Running(c) \in Idle \cup Sleeper \/ pc[Running(c)] = "final"
  /\ pc[Running(c)] \in {"run", "final"}
  /\ x86_scheduler_loadpending_chain(c)
  /\ UNCHANGED <<t_cpu, ipi, unacked, pc, frame, status, calls, awake, resent, torn>>

(* task_sleep() with another task to switch to. *)
task_sleep(c, t) ==
  /\ At(c, t, "run") /\ t \in Sleeper /\ Len(ring[c]) > 1
  /\ ring' = [ring EXCEPT ![c] = Tail(@)]
  /\ c_sleeping' = [c_sleeping EXCEPT ![c] = @ \cup {t}]
  /\ t_state' = [t_state EXCEPT ![t] = (@ \ {"TIMEDOUT"}) \cup {"SLEEPING"}]
  /\ UNCHANGED <<c_pending, t_cpu, ipi, unacked, pc, frame, status, calls, awake, resent, torn>>

-----------------------------------------------------------------------------
(* Mutant: the CPU is not told of the thread on its chain. *)
StartUnannounced(c, t) ==
  /\ At(c, t, "run") /\ t \in Starter /\ calls[t] < MaxCalls[t]
  /\ \E x \in New :
       /\ pc[x] = "new"
       /\ c_pending' = [c_pending EXCEPT ![t_cpu[x]] = <<x>> \o @]
       /\ dest' = [dest EXCEPT ![t] = t_cpu[x]]
       /\ GoTo(x, "run")
  /\ calls' = [calls EXCEPT ![t] = @ + 1]
  /\ UNCHANGED <<ring, c_sleeping, t_cpu, t_state, ipi, unacked, op, target, status, awake, resent, torn>>

(* task_start(): the new thread goes on the chain of its CPU first. *)
task_start(c, t) ==
  /\ At(c, t, "run") /\ t \in Starter /\ calls[t] < MaxCalls[t]
  /\ \E x \in New :
       /\ pc[x] = "new"
       /\ c_pending' = [c_pending EXCEPT ![t_cpu[x]] = <<x>> \o @]
       /\ dest' = [dest EXCEPT ![t] = t_cpu[x]]
       /\ pc' = [pc EXCEPT ![x] = "run", ![t] = "sched"]
  /\ calls' = [calls EXCEPT ![t] = @ + 1]
  /\ UNCHANGED <<ring, c_sleeping, t_cpu, t_state, ipi, unacked, op, target, status, awake, resent, torn>>

(* The SCHEDULE IPI that ends task_start() and task_setcpu_impl(). *)
SendSchedule(c, t) ==
  /\ At(c, t, "sched")
  /\ \/ x86_ipi_send(c, dest[t], [type |-> "SCHEDULE", thread |-> t, from |-> t])
     \/ dest[t] = c /\ HandleSchedule(c) /\ UNCHANGED ipi
  /\ GoTo(t, "run")
  /\ UNCHANGED <<t_cpu, frame, calls, resent>>

(* task_wake_ex() *)
task_wake(c, t) ==
  /\ At(c, t, "run") /\ t \in Waker /\ calls[t] < MaxCalls[t]
  /\ \E x \in Task \ Idle :
       /\ pc[x] \notin {"new", "gone"}
       /\ target' = [target EXCEPT ![t] = x]
       /\ awake' = IF Has(x, "SLEEPING") THEN awake \ {t} ELSE awake \cup {t}
  /\ op' = [op EXCEPT ![t] = "WAKETASK"]
  /\ status' = [status EXCEPT ![t] = "PENDING"]
  /\ calls' = [calls EXCEPT ![t] = @ + 1]
  /\ GoTo(t, "send")
  /\ UNCHANGED <<queues, t_cpu, t_state, ipi, unacked, dest, resent, torn>>

(* task_setcpu_impl(), the affinity overruled. *)
task_setcpu(c, t) ==
  /\ At(c, t, "run") /\ t \in Mover /\ calls[t] < MaxCalls[t]
  /\ \E x \in Movable, to \in Cpu :
       /\ pc[x] \notin {"new", "gone"}
       /\ target' = [target EXCEPT ![t] = x]
       /\ dest' = [dest EXCEPT ![t] = to]
  /\ op' = [op EXCEPT ![t] = "UNSCHEDULE"]
  /\ status' = [status EXCEPT ![t] = "PENDING"]
  /\ calls' = [calls EXCEPT ![t] = @ + 1]
  /\ awake' = awake \ {t}
  /\ GoTo(t, "send")
  /\ UNCHANGED <<queues, t_cpu, t_state, ipi, unacked, resent, torn>>

(* The head of either loop: t_cpu is read, and the IPI sent there. *)
SendIpi(c, t) ==
  /\ At(c, t, "send")
  /\ op[t] = "UNSCHEDULE" => t_cpu[target[t]] # dest[t]
  /\ LET m == [type |-> op[t], thread |-> target[t], from |-> t]
     IN \/ x86_ipi_send(c, t_cpu[target[t]], m)
        \/ t_cpu[target[t]] = c /\ x86_ipi_handle(c, m) /\ UNCHANGED ipi
  /\ GoTo(t, "wait")
  /\ UNCHANGED <<t_cpu, frame, calls, resent>>

(* TASK_SETCPU_OK without a move. *)
AlreadyThere(c, t) ==
  /\ At(c, t, "send") /\ op[t] = "UNSCHEDULE" /\ t_cpu[target[t]] = dest[t]
  /\ GoTo(t, "run")
  /\ UNCHANGED <<queues, t_cpu, t_state, ipi, unacked, frame, status, calls, awake, resent, torn>>

(* Mutant: the call returns with its IPI in flight. *)
AnsweredEarly(c, t) ==
  /\ At(c, t, "wait")
  /\ GoTo(t, IF status[t] = "RETRY" THEN "send"
             ELSE IF op[t] = "UNSCHEDULE" /\ status[t] = "OK" THEN "own" ELSE "run")
  /\ UNCHANGED <<queues, t_cpu, t_state, ipi, unacked, frame, status, calls, awake, resent, torn>>

(* The end of either loop, once the status word is written. *)
Answered(c, t) ==
  /\ At(c, t, "wait") /\ status[t] # "PENDING"
  /\ GoTo(t, IF status[t] = "RETRY" THEN "send"
             ELSE IF op[t] = "UNSCHEDULE" /\ status[t] = "OK" THEN "own" ELSE "run")
  /\ UNCHANGED <<queues, t_cpu, t_state, ipi, unacked, frame, status, calls, awake, resent, torn>>

(* task_wake_ex() gives up on its IPI after 100 ms and starts over. *)
WakeTimeout(c, t) ==
  /\ At(c, t, "wait") /\ t \in Impatient \ resent /\ op[t] = "WAKETASK" /\ status[t] = "PENDING"
  /\ resent' = resent \cup {t}
  /\ GoTo(t, "send")
  /\ UNCHANGED <<queues, t_cpu, t_state, ipi, unacked, frame, status, calls, awake, torn>>

(* The thread is unscheduled: it gets its new CPU ... *)
SetTCpu(c, t) ==
  /\ At(c, t, "own")
  /\ t_cpu' = [t_cpu EXCEPT ![target[t]] = dest[t]]
  /\ GoTo(t, "place")
  /\ UNCHANGED <<queues, t_state, ipi, unacked, frame, status, calls, awake, resent, torn>>

(* ... and is put on its chain. *)
PushPending(c, t) ==
  /\ At(c, t, "place")
  /\ c_pending' = [c_pending EXCEPT ![dest[t]] = <<target[t]>> \o @]
  /\ GoTo(t, "sched")
  /\ UNCHANGED <<ring, c_sleeping, t_cpu, t_state, ipi, unacked, frame, status, calls, awake, resent, torn>>

-----------------------------------------------------------------------------
(* task_exit(): no RPC is accepted from here on ... *)
task_exit(c, t) ==
  /\ At(c, t, "run") /\ t \in Exiting
  /\ t_state' = [t_state EXCEPT ![t] = @ \cup {"TERMINATING"}]
  /\ GoTo(t, "exit")
  /\ UNCHANGED <<queues, t_cpu, ipi, unacked, frame, status, calls, awake, resent, torn>>

(* ... and the thread can be joined. *)
Terminated(c, t) ==
  /\ At(c, t, "exit")
  /\ t_state' = [t_state EXCEPT ![t] = @ \cup {"TERMINATED"}]
  /\ GoTo(t, "final")
  /\ UNCHANGED <<queues, t_cpu, ipi, unacked, frame, status, calls, awake, resent, torn>>

(* Whoever is in a call about x holds a reference to it. *)
Shared(x) == \E t \in Task : pc[t] \in {"send", "wait"} /\ target[t] = x

(* The reference of the scheduler: dropped when another one exists, else   *)
(* inherited by the next task through an RPC, which a terminating task     *)
(* does not accept.  (Where queueing it would block, the task yields.)     *)
FinalDecref(c, t) ==
  /\ At(c, t, "final") /\ Len(ring[c]) > 1
  /\ Shared(t) \/ ~Has(ring[c][2], "TERMINATING")
  /\ ring' = [ring EXCEPT ![c] = Tail(@)]
  /\ GoTo(t, "gone")
  /\ UNCHANGED <<c_sleeping, c_pending, t_cpu, t_state, ipi, unacked, frame, status, calls,
                 awake, resent, torn>>

(* The next task is itself at its end and asked for help: it is taken out  *)
(* of the ring and destroyed by the calling one.                           *)
HelpTermination(c, t) ==
  /\ At(c, t, "final") /\ Len(ring[c]) > 1
  /\ ~Shared(t) /\ Has(ring[c][2], "HELPMETERM")
  /\ t_state' = [t_state EXCEPT ![t] = @ \ {"HELPMETERM"}]
  /\ ring' = [ring EXCEPT ![c] = <<t>> \o Tail(Tail(@))]
  /\ GoTo(ring[c][2], "gone")
  /\ UNCHANGED <<c_sleeping, c_pending, t_cpu, ipi, unacked, frame, status, calls, awake, resent, torn>>

(* Mutant: yield without asking. *)
YieldToTerminating(c, t) ==
  /\ At(c, t, "final") /\ Len(ring[c]) > 1
  /\ ~Shared(t) /\ Has(ring[c][2], "TERMINATING") /\ ~Has(ring[c][2], "HELPMETERM")
  /\ ring' = [ring EXCEPT ![c] = Rotate(@)]
  /\ UNCHANGED <<c_sleeping, c_pending, t_cpu, t_state, ipi, unacked, pc, frame, status, calls,
                 awake, resent, torn>>

(* The next task is terminating: ask for help and yield. *)
AskTermination(c, t) ==
  /\ At(c, t, "final") /\ Len(ring[c]) > 1
  /\ ~Shared(t) /\ Has(ring[c][2], "TERMINATING") /\ ~Has(ring[c][2], "HELPMETERM")
  /\ t_state' = [t_state EXCEPT ![t] = @ \cup {"HELPMETERM"}]
  /\ ring' = [ring EXCEPT ![c] = Rotate(@)]
  /\ UNCHANGED <<c_sleeping, c_pending, t_cpu, ipi, unacked, pc, frame, status, calls, awake, resent, torn>>

-----------------------------------------------------------------------------
(* What the running task of c does next. *)
TaskStep(c, t) ==
  \/ task_sleep(c, t) \/ task_start(c, t) \/ SendSchedule(c, t)
  \/ task_wake(c, t) \/ task_setcpu(c, t) \/ SendIpi(c, t) \/ AlreadyThere(c, t)
  \/ Answered(c, t) \/ WakeTimeout(c, t) \/ SetTCpu(c, t) \/ PushPending(c, t)
  \/ task_exit(c, t) \/ Terminated(c, t)
  \/ FinalDecref(c, t) \/ HelpTermination(c, t) \/ AskTermination(c, t)

(* The part of it that code in the middle of a call goes on with. *)
Resumed(c, t) ==
  \/ SendSchedule(c, t) \/ SendIpi(c, t) \/ AlreadyThere(c, t) \/ Answered(c, t)
  \/ SetTCpu(c, t) \/ PushPending(c, t) \/ Terminated(c, t)
  \/ FinalDecref(c, t) \/ HelpTermination(c, t) \/ AskTermination(c, t)

Next ==
  /\ torn = {}
  /\ \E c \in Cpu : \/ x86_ipi_process(c) \/ task_yield(c) \/ X86_IRQ_PIT(c) \/ x86_cpu_idle(c)
                    \/ TaskStep(c, Running(c))

Spec == Init /\ [][Next]_vars

(* A CPU takes its interrupts while they are on, the timer rotates every   *)
(* ring, and a quantum is long enough for what a task does between two     *)
(* looks at its status word.                                               *)
FairSpec ==
  /\ Spec
  /\ \A c \in Cpu : WF_vars(torn = {} /\ x86_ipi_process(c)) /\ WF_vars(torn = {} /\ task_yield(c))
  /\ \A t \in Waker \cup Mover \cup Starter \cup Exiting : SF_vars(torn = {} /\ \E c \in Cpu : Resumed(c, t))

-----------------------------------------------------------------------------
(* t has unscheduled its thread, and not placed it yet. *)
Owns(t) ==
  pc[t] \in {"own", "place"} \/ (pc[t] = "wait" /\ op[t] = "UNSCHEDULE" /\ status[t] = "OK")

(* Where a thread is kept: in the ring, the list or the chain of a CPU, or *)
(* by the task that unscheduled it.                                        *)
Homes(x) ==
  {<<"run", c>> : c \in {c \in Cpu : x \in Range(ring[c])}}
    \cup {<<"sleep", c>> : c \in {c \in Cpu : x \in c_sleeping[c]}}
    \cup {<<"pending", c>> : c \in {c \in Cpu : x \in Range(c_pending[c])}}
    \cup {<<"mover", t>> : t \in {t \in Task : target[t] = x /\ Owns(t)}}

(* A started thread is always kept in exactly one place, once, and on the  *)
(* CPU its t_cpu names: however starting, sleeping, waking, timing out,    *)
(* moving and ending overlap, no thread is dropped by the scheduler or     *)
(* scheduled twice, and one that has ended is in no queue.  (A thread that *)
(* was torn out of a queue it was not in is excepted.)                     *)
ScheduledOnce ==
  \A x \in Task \ torn :
     /\ Cardinality(Homes(x)) = IF pc[x] \in {"new", "gone"} THEN 0 ELSE 1
     /\ \A c \in Cpu :
          /\ <<"run", c>> \in Homes(x) => ~Has(x, "SLEEPING")
          /\ <<"sleep", c>> \in Homes(x) => Has(x, "SLEEPING")
          /\ Homes(x) \cap ({"run", "sleep", "pending"} \X {c}) # {} => t_cpu[x] = c
          /\ IsInjective(ring[c]) /\ IsInjective(c_pending[c])

(* A thread on the c_pending chain of a CPU is never forgotten there: the  *)
(* SCHEDULE IPI is in the buffer of that CPU, or the task that put the     *)
(* thread there has yet to send it.                                        *)
PendingAnnounced ==
  \A c \in Cpu : c_pending[c] # <<>> =>
     \/ \E s \in Valid(c) : ipi[c][s].type = "SCHEDULE"
     \/ \E t \in Task : pc[t] = "sched" /\ dest[t] = c

(* task_wake() tells the truth: when the handler answers OK the thread was *)
(* awake at some moment since the call began, also if it moved between     *)
(* CPUs meanwhile, and when it answers DEAD the thread has terminated.     *)
WakeTruth ==
  \A t \in Task : pc[t] = "wait" /\ op[t] = "WAKETASK" =>
     /\ status[t] = "OK" => t \in awake
     /\ status[t] = "DEAD" => Has(target[t], "TERMINATED")

(* The status word an IPI in flight points to is in scope: its sender      *)
(* still waits in the call that sent it.  (Only task_wake_ex() after its   *)
(* 100 ms timeout sends a second IPI and may return with one in flight.)   *)
StatusInScope ==
  \A c \in Cpu : \A s \in Valid(c) :
     ipi[c][s].type # "SCHEDULE" =>
        (pc[ipi[c][s].from] = "wait" /\ Awaits(ipi[c][s])) \/ ipi[c][s].from \in resent

(* A CPU waits with its interrupts off for one that takes none either.     *)
Embrace == \E c, d \in Cpu : c # d /\ Masked(c) /\ (Masked(d) \/ d \in unacked)

(* Whoever waits for the answer to an IPI gets it, also with interrupts    *)
(* off, and a thread that ended leaves its CPU unless it is the only one   *)
(* left there.  (Excepted: a CPU with an unacknowledged interrupt gets no  *)
(* further IPI; two CPUs wait for each other with interrupts off; a torn   *)
(* queue.)                                                                 *)
AnswersArrive ==
  /\ \A t \in Waker \cup Mover :
       pc[t] = "wait" ~> pc[t] # "wait" \/ unacked # {} \/ torn # {} \/ Embrace
  /\ \A t \in Exiting :
       pc[t] = "final" ~> \/ pc[t] = "gone" \/ torn # {} \/ Embrace
                         \/ \E c \in Cpu : ring[c] = <<t>>

-----------------------------------------------------------------------------
(* What the source states and the code does not keep. *)

(* scheduler.c: "At this point, we own exclusive scheduling permissions    *)
(* for `thread'": no other CPU touches its links until it is loaded.       *)
ExclusiveMover == torn = {}

(* scheduler.c, task_sleep(): assertf(t_state & TASK_STATE_FSTARTED). *)
SleepersStarted == \A c \in Cpu : \A x \in c_sleeping[c] : Has(x, "STARTED")

(* scheduler.c, task_sleep(): assert(!(t_state & TASK_STATE_FSLEEPING))    *)
(* once the task is running again.                                         *)
RunningAwake == \A c \in Cpu : ~Has(Running(c), "SLEEPING")

(* task.h: task_wake() is ASYNCSAFE, and task_wake_ex() provides for       *)
(* callers that have not "left interrupts enabled": it returns.            *)
WakersReturn ==
  \A t \in Waker : pc[t] = "wait" ~> pc[t] # "wait" \/ unacked # {} \/ torn # {}

(* smp32.S: the check for further IPIs keeps them from getting "lost in    *)
(* the abyss, leaving the kernel in a soft-lock state".                    *)
NoIpiLost == \A t \in Waker \cup Mover : pc[t] = "wait" ~> pc[t] # "wait" \/ torn # {}
=============================================================================
