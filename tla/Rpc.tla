-------------------------------- MODULE Rpc --------------------------------
(***************************************************************************)
(* Remote procedure calls between threads (src/kernel/src/sched/rpc.c):    *)
(* task_queue_rpc() with rpc_alloc() and signal_interrupt(), and the three *)
(* places that execute what was queued: task_serve(),                      *)
(* task_serve_before_user() and task_serve_before_exit().                  *)
(*                                                                         *)
(*   t_state[t]   the TASK_STATE_F* bits rpc.c works with; INTERRUPTING is *)
(*                the lock of the vector                                   *)
(*   nosignals    tasks with TASK_FNOSIGNALS in t_flags                    *)
(*   nothrow      tasks with a non-zero t_nothrow_serve                    *)
(*   ri_vec[t], ri_siz[t]  the vector of slots; a vector is replaced by a  *)
(*                larger one only, so its size tells vectors apart         *)
(*   mode[r]      what the slot of call r says: rs_flag ("kernel" when     *)
(*                RPC_SLOT_FUSER is clear) and whether rs_done is set;     *)
(*                &done_sig of the call is the signal named r              *)
(*   cur[t], thread[t]  the call t makes in task_queue_rpc(), its target   *)
(*   new_alloc[t] the size rpc_alloc() wants                               *)
(*   slot[t], i[t], vec[t]  the slot being executed; index and vector of   *)
(*                the loop of task_serve_before_exit()                     *)
(*   ret[t]       where task_serve() was called, or how user-space is      *)
(*                about to be entered                                      *)
(*   asleep       tasks inside task_sleep()                                *)
(*   result[r]    what task_queue_rpc() returned, or "throw"               *)
(*   ran, dropped, raced  history: how often a call was executed, the      *)
(*                calls task_serve_before_exit() gave up, and the callers  *)
(*                that missed their signal because it was sent while       *)
(*                task_push_connections() was moving the connection        *)
(*   sending[t]   the done-signal that sig_broadcast() of t has sent, and  *)
(*                locks once more to find nobody left                      *)
(*   wild         memory was used after it was freed or its frame was left,*)
(*                and something else was in it: nothing is said of what    *)
(*                such a system does next                                  *)
(*                                                                         *)
(* Whoever takes the INTERRUPTING bit of its own thread releases it again  *)
(* without a step another thread could tell, so this is one action;        *)
(* task_queue_rpc() keeps it while it connects to the done-signal.         *)
(* Callbacks return or throw, and do not queue calls themselves.           *)
(***************************************************************************)
EXTENDS TaskSignal, FiniteSets

CONSTANTS
  RpcId,          \* one name per call of task_queue_rpc()
  NoRpc,
  join_signal,    \* task_join_signal of the target
  Modes,          \* the modes that are used
  Caller,         \* tasks that queue RPCs
  KernelJob,      \* tasks with TASK_FKERNELJOB
  Exiting,        \* tasks that may call task_exit()
  Interruptible,  \* tasks whose callbacks may throw
  Masker,         \* tasks that call xnosignal()
  Nothrower,      \* tasks that use task_nothrow_serve()
  StaticSlots     \* CONFIG_STATIC_RPC_SLOTS

RpcModes == [flag : {"kernel", "user", "usync", "uasync"}, sync : BOOLEAN]

ASSUME RpcAssumption ==
  /\ NoRpc \notin RpcId \cup RpcModes
  /\ Sig = RpcId \cup {join_signal} /\ join_signal \notin RpcId
  /\ Modes \subseteq RpcModes
  /\ Caller \cup KernelJob \cup Exiting \cup Interruptible \cup Masker \cup Nothrower \subseteq Task
  /\ StaticSlots \in Nat \ {0}

VARIABLES t_state, nosignals, nothrow, ri_vec, ri_siz, mode, pc, ret, cur, thread,
          new_alloc, slot, i, vec, asleep, result, ran, dropped, raced, sending, wild

flags == <<nosignals, nothrow>>
info == <<ri_vec, ri_siz>>
call == <<mode, cur, thread, new_alloc>>
exec == <<slot, i, vec>>
sends == <<sending, wild>>
hist == <<ran, dropped, raced, sends>>
vars == <<sigVars, t_state, flags, info, call, exec, pc, ret, asleep, result, hist>>

StateFlag == {"INTERRUPTED", "INTERRUPTING", "TERMINATING", "TERMINATED", "INRPC", "SERVEEXCEPT"}

PC == {"run", "lock", "grow", "connect", "signal", "wake", "nack", "wait", "cleared",
       "push", "serve", "rpc", "done", "thrown", "pop", "unwind", "user",
       "xlock", "xloop", "xrun", "xend", "dead"}

TypeOK ==
  /\ SigTypeOK
  /\ t_state \in [Task -> SUBSET StateFlag]
  /\ nosignals \subseteq Task /\ nothrow \subseteq Task /\ asleep \subseteq Task
  /\ ri_vec \in [Task -> Seq(RpcId)] /\ ri_siz \in [Task -> Nat \ {0}]
  /\ \A t \in Task : Len(ri_vec[t]) <= ri_siz[t]
  /\ mode \in [RpcId -> RpcModes \cup {NoRpc}]
  /\ pc \in [Task -> PC] /\ ret \in [Task -> PC \cup {"timer"}]
  /\ cur \in [Task -> RpcId \cup {NoRpc}] /\ slot \in [Task -> RpcId \cup {NoRpc}]
  /\ thread \in [Task -> Task]
  /\ new_alloc \in [Task -> Nat] /\ i \in [Task -> Nat] /\ vec \in [Task -> Nat]
  /\ result \in [RpcId -> {"none", "true", "false", "throw"}]
  /\ ran \in [RpcId -> Nat] /\ dropped \subseteq RpcId /\ raced \subseteq Task
  /\ sending \in [Task -> RpcId \cup {NoRpc}] /\ wild \in BOOLEAN

Init ==
  /\ SigInit
  /\ t_state = [t \in Task |-> {}]
  /\ nosignals = {} /\ nothrow = {} /\ asleep = {}
  /\ ri_vec = [t \in Task |-> <<>>] /\ ri_siz = [t \in Task |-> StaticSlots]
  /\ mode = [r \in RpcId |-> NoRpc]
  /\ pc = [t \in Task |-> "run"] /\ ret = [t \in Task |-> "run"]
  /\ cur = [t \in Task |-> NoRpc] /\ slot = [t \in Task |-> NoRpc]
  /\ thread = [t \in Task |-> t]
  /\ new_alloc = [t \in Task |-> 0] /\ i = [t \in Task |-> 0] /\ vec = [t \in Task |-> 0]
  /\ result = [r \in RpcId |-> "none"]
  /\ ran = [r \in RpcId |-> 0] /\ dropped = {} /\ raced = {}
  /\ sending = [t \in Task |-> NoRpc] /\ wild = FALSE

-----------------------------------------------------------------------------
GoTo(t, label) == pc' = [pc EXCEPT ![t] = label]
Set(x, bits) == t_state' = [t_state EXCEPT ![x] = @ \cup bits]
Clear(x, bits) == t_state' = [t_state EXCEPT ![x] = @ \ bits]

(* task_queue_rpc() of t is over; the call is forgotten. *)
Return(t, value) ==
  /\ result' = [result EXCEPT ![cur[t]] = value]
  /\ cur' = [cur EXCEPT ![t] = NoRpc]
  /\ GoTo(t, "run")

Locked(x) == "INTERRUPTING" \in t_state[x]
Terminating(x) == t_state[x] \cap {"TERMINATING", "TERMINATED"} # {}
User(r) == mode[r].flag # "kernel"

(* Mutant: a saved connection is removed without receiving the signal. *)
AnnounceMain(r, sender) ==
  LET to == Connected(r)
  IN IF mode[r].sync /\ to # {}
     THEN /\ chain' = [chain EXCEPT ![r] = <<>>]
          /\ tcs_sig' = [t \in Task |-> IF t \in to /\ saved[t] = "main" THEN sender ELSE tcs_sig[t]]
          /\ asleep' = asleep \ to
          /\ UNCHANGED <<saved, raced>>
     ELSE UNCHANGED <<sigVars, asleep, raced>>

(* sig_broadcast(slot.rs_done), sig_altbroadcast() up to the turn that     *)
(* removes a connection: only the caller of r connects to its done-signal. *)
(* A set that is moving loses the signal, as in SendOne of TaskSignal;     *)
(* otherwise the receiver is woken.                                        *)
Announce(r, sender) ==
  LET to == Connected(r)
  IN IF mode[r].sync /\ to # {}
     THEN /\ chain' = [chain EXCEPT ![r] = <<>>]
          /\ tcs_sig' = [t \in Task |-> IF t \in to /\ tcs_sig[t] = NoSig /\ saved[t] # "moving"
                                        THEN sender ELSE tcs_sig[t]]
          /\ asleep' = asleep \ {t \in to : saved[t] = "main"}
          /\ raced' = raced \cup {t \in to : saved[t] = "moving"}
          /\ UNCHANGED saved
     ELSE UNCHANGED <<sigVars, asleep, raced>>

(* Memory is used that is free to be reused: it is as it was left, or not. *)
Use(reusable) == wild' \in IF reusable THEN BOOLEAN ELSE {FALSE}

(* task_queue_rpc() has left the frame that holds the done-signal of r. *)
FrameLeft(r) == result[r] # "none"

(* The broadcast of t through the done-signal of r, except for the turn    *)
(* that finds no more connections: a caller that was told does not wait    *)
(* for that one.                                                           *)
Broadcast(t, r, sender) ==
  /\ Announce(r, sender)
  /\ sending' = [sending EXCEPT ![t] = IF mode[r].sync /\ Connected(r) # {} THEN r ELSE NoRpc]

(* That turn: sig_get(), no connection, sig_put(). *)
BroadcastEnd(t) ==
  /\ sending[t] # NoRpc
  /\ Use(FrameLeft(sending[t]))
  /\ sending' = [sending EXCEPT ![t] = NoRpc]
  /\ UNCHANGED <<sigVars, t_state, flags, info, call, exec, pc, ret, asleep, result, ran, dropped, raced>>

-----------------------------------------------------------------------------
(* task_queue_rpc(): user calls are refused by kernel jobs; a call to      *)
(* oneself is executed at once or, for user calls, always queued as plain  *)
(* TASK_RPC_USER; any other is queued.                                     *)
QueueRpc(t, x, r, m) ==
  /\ pc[t] = "run" /\ t \in Caller \ asleep /\ mode[r] = NoRpc
  /\ LET user == m.flag # "kernel"
     IN \/ /\ user /\ x \in KernelJob
           /\ mode' = [mode EXCEPT ![r] = m]
           /\ result' = [result EXCEPT ![r] = "false"]
           /\ UNCHANGED <<pc, cur, thread, ran, t_state>>
        \/ /\ ~user /\ x = t
           /\ mode' = [mode EXCEPT ![r] = m]
           /\ ran' = [ran EXCEPT ![r] = @ + 1]
           /\ \/ result' = [result EXCEPT ![r] = "true"] /\ UNCHANGED t_state
              \/ t \in Interruptible \ nothrow
                 /\ result' = [result EXCEPT ![r] = "throw"] /\ UNCHANGED t_state
              \/ t \in Interruptible \cap nothrow
                 /\ result' = [result EXCEPT ![r] = "true"] /\ Set(t, {"SERVEEXCEPT"})
           /\ UNCHANGED <<pc, cur, thread>>
        \/ /\ ~(user /\ x \in KernelJob) /\ (x = t => user)
           /\ mode' = [mode EXCEPT ![r] = IF x = t THEN [flag |-> "user", sync |-> FALSE] ELSE m]
           /\ cur' = [cur EXCEPT ![t] = r] /\ thread' = [thread EXCEPT ![t] = x]
           /\ GoTo(t, "lock")
           /\ UNCHANGED <<result, ran, t_state>>
  /\ UNCHANGED <<sigVars, flags, info, new_alloc, exec, ret, asleep, dropped, raced, sends>>

(* rpc_alloc(): with the lock of the target, no slot once it terminates,   *)
(* the next slot (the lock is kept), or more memory (the lock is not).     *)
RpcAlloc(t) ==
  LET x == thread[t]
      r == cur[t]
  IN /\ pc[t] = "lock" /\ ~Locked(x)
     /\ \/ /\ Terminating(x)
           /\ Return(t, "false")
           /\ UNCHANGED <<t_state, info, new_alloc>>
        \/ /\ ~Terminating(x) /\ Len(ri_vec[x]) = ri_siz[x]
           /\ \E n \in {ri_siz[x] * 2, ri_siz[x] + 1} : new_alloc' = [new_alloc EXCEPT ![t] = n]
           /\ GoTo(t, "grow")
           /\ UNCHANGED <<t_state, info, cur, result>>
        \/ /\ ~Terminating(x) /\ Len(ri_vec[x]) < ri_siz[x]
           /\ Set(x, {"INTERRUPTING"})
           /\ ri_vec' = [ri_vec EXCEPT ![x] = Append(@, r)]
           /\ GoTo(t, IF mode[r].sync THEN "connect" ELSE "signal")
           /\ UNCHANGED <<ri_siz, cur, result, new_alloc>>
     /\ UNCHANGED <<sigVars, flags, mode, thread, exec, ret, asleep, hist>>

(* The vector is replaced, unless another thread did so meanwhile, and the *)
(* old one is freed, even if a target that exits has just loaded the       *)
(* address of a slot; kmalloc() may have thrown instead.                   *)
RpcGrow(t) ==
  /\ pc[t] = "grow"
  /\ \/ /\ ~Locked(thread[t])
        /\ ri_siz' = [ri_siz EXCEPT ![thread[t]] = IF new_alloc[t] > @ THEN new_alloc[t] ELSE @]
        /\ Use(pc[thread[t]] = "xloop" /\ new_alloc[t] > ri_siz[thread[t]] /\ ri_siz[thread[t]] # StaticSlots)
        /\ GoTo(t, "lock")
        /\ UNCHANGED <<cur, result>>
     \/ Return(t, "throw") /\ UNCHANGED <<ri_siz, wild>>
  /\ new_alloc' = [new_alloc EXCEPT ![t] = 0]
  /\ UNCHANGED <<sigVars, t_state, flags, ri_vec, mode, thread, exec, ret, asleep, ran, dropped, raced, sending>>

ConnectDone(t) ==
  /\ pc[t] = "connect"
  /\ Connect(t, cur[t], FALSE)
  /\ GoTo(t, "signal")
  /\ UNCHANGED <<t_state, flags, info, call, exec, ret, asleep, result, hist>>

(* Mutant: TASK_RPC_SYNC is forgotten. *)
QueuedAsync(t) == Return(t, "true")

(* The call is queued and its target awake; a synchronous one waits. *)
Queued(t) ==
  IF mode[cur[t]].sync THEN GoTo(t, "wait") /\ UNCHANGED <<cur, result>> ELSE Return(t, "true")

(* Mutant: the target is not woken. *)
SignalInterruptOnly(t) ==
  LET x == thread[t]
  IN /\ pc[t] = "signal"
     /\ t_state' = [t_state EXCEPT ![x] = (@ \ {"INTERRUPTING"}) \cup {"INTERRUPTED"}]
     /\ IF x = t THEN Return(t, "throw") ELSE Queued(t)
     /\ UNCHANGED <<sigVars, flags, info, mode, thread, new_alloc, exec, ret, asleep, hist>>

(* signal_interrupt(): unlock and interrupt the target in one CMPXCH, and  *)
(* wake it unless it was interrupted already.  A thread that interrupts    *)
(* itself throws E_INTERRUPT.                                              *)
SignalInterrupt(t) ==
  LET x == thread[t]
  IN /\ pc[t] = "signal"
     /\ \/ /\ "TERMINATED" \in t_state[x] /\ x # t
           /\ Clear(x, {"INTERRUPTING"})
           /\ GoTo(t, "nack") /\ UNCHANGED <<cur, result>>
        \/ /\ "TERMINATED" \notin t_state[x]
           /\ t_state' = [t_state EXCEPT ![x] = (@ \ {"INTERRUPTING"}) \cup {"INTERRUPTED"}]
           /\ IF x = t THEN Return(t, "throw")
              ELSE IF "INTERRUPTED" \in t_state[x] THEN Queued(t)
              ELSE GoTo(t, "wake") /\ UNCHANGED <<cur, result>>
     /\ UNCHANGED <<sigVars, flags, info, mode, thread, new_alloc, exec, ret, asleep, hist>>

(* task_wake(), task_wake_for_rpc(): not of a thread that has terminated. *)
WakeTarget(t) ==
  /\ pc[t] = "wake"
  /\ IF "TERMINATED" \in t_state[thread[t]]
     THEN GoTo(t, "nack") /\ UNCHANGED <<asleep, cur, result>>
     ELSE asleep' = asleep \ {thread[t]} /\ Queued(t)
  /\ UNCHANGED <<sigVars, t_state, flags, info, mode, thread, new_alloc, exec, ret, hist>>

(* Mutant: a wakeup that fails is taken for a call that was not executed. *)
NackFalse(t) ==
  /\ pc[t] = "nack"
  /\ Return(t, "false")
  /\ Disconnect(t)
  /\ UNCHANGED <<t_state, flags, info, mode, thread, new_alloc, exec, ret, asleep, hist>>

(* The wakeup failed: a synchronous call was executed if its done-signal   *)
(* has been received.                                                      *)
Nack(t) ==
  /\ pc[t] = "nack"
  /\ Return(t, IF tcs_sig[t] # NoSig THEN "true" ELSE "false")
  /\ Disconnect(t)
  /\ UNCHANGED <<t_state, flags, info, mode, thread, new_alloc, exec, ret, asleep, hist>>

(* task_wait() != &done_sig *)
WaitDone(t) ==
  /\ pc[t] = "wait" /\ t \notin asleep /\ tcs_sig[t] # NoSig
  /\ Return(t, IF tcs_sig[t] = cur[t] THEN "true" ELSE "false")
  /\ Disconnect(t)
  /\ UNCHANGED <<t_state, flags, info, mode, thread, new_alloc, exec, ret, asleep, hist>>

-----------------------------------------------------------------------------
(* task_serve() finds something to do. *)
Servable(t) ==
  /\ "INTERRUPTED" \in t_state[t]
  /\ t_state[t] \cap {"SERVEEXCEPT", "INRPC"} = {}

(* task_serve() of a thread that calls it, that waits, that spins in       *)
(* rpc_alloc() for the lock of another one, or that has just enabled       *)
(* signals: the connections are saved, which takes two steps if there are  *)
(* any.                                                                    *)
ServeBegin(t) ==
  /\ Servable(t) /\ t \notin asleep
  /\ \/ pc[t] \in {"run", "cleared"}
     \/ pc[t] = "wait" /\ tcs_sig[t] = NoSig
     \/ pc[t] \in {"lock", "grow"} /\ thread[t] # t /\ Locked(thread[t])
  /\ IF pc[t] = "wait"
     THEN RelocateConnections(t) /\ GoTo(t, "push")
     ELSE saved' = [saved EXCEPT ![t] = "saved"] /\ UNCHANGED <<chain, tcs_sig>> /\ GoTo(t, "serve")
  /\ ret' = [ret EXCEPT ![t] = IF pc[t] = "cleared" THEN "run" ELSE pc[t]]
  /\ UNCHANGED <<t_state, flags, info, call, exec, asleep, result, hist>>

ServePush(t) ==
  /\ pc[t] = "push"
  /\ CopySignal(t)
  /\ GoTo(t, "serve")
  /\ UNCHANGED <<t_state, flags, info, call, exec, ret, asleep, result, hist>>

(* An asynchronous user call must wait for task_clear_nosignals(). *)
Parked(t, r) == mode[r].flag = "uasync" /\ t \in nosignals

(* Mutant: the slot is not removed from the vector. *)
TakeKeeps(t, k) ==
  /\ slot' = [slot EXCEPT ![t] = ri_vec[t][k]]
  /\ GoTo(t, "rpc")
  /\ UNCHANGED ri_vec

(* memmove(): the slots after index k close the gap. *)
CloseGap(v, k) == [n \in 1 .. Len(v) - 1 |-> v[IF n < k THEN n ELSE n + 1]]

(* Copy the slot at index k, and close the gap it leaves. *)
Take(t, k) ==
  /\ slot' = [slot EXCEPT ![t] = ri_vec[t][k]]
  /\ ri_vec' = [ri_vec EXCEPT ![t] = CloseGap(@, k)]
  /\ GoTo(t, "rpc")

(* Mutant: the search starts at the end. *)
FirstLast(k, S) == k \in S /\ \A j \in S : k >= j

First(k, S) == k \in S /\ \A j \in S : k <= j

(* continue_serving: the first slot, or what comes after a parked one.  A  *)
(* user call at the head makes the thread return to user-space.            *)
ServeTake(t) ==
  LET v == ri_vec[t]
      rest == {k \in 2 .. Len(v) : mode[v[k]].flag # "uasync"}
  IN /\ pc[t] = "serve" /\ ~Locked(t)
     /\ \/ /\ \/ v = <<>>
              \/ v # <<>> /\ Parked(t, Head(v)) /\ rest = {}
           /\ Clear(t, {"INTERRUPTED"})
           /\ GoTo(t, "pop") /\ UNCHANGED <<slot, ri_vec>>
        \/ /\ v # <<>> /\ (~User(Head(v)) \/ (Parked(t, Head(v)) /\ rest # {}))
           /\ \E k \in DOMAIN v : First(k, IF User(Head(v)) THEN rest ELSE DOMAIN v) /\ Take(t, k)
           /\ Set(t, {"INRPC"})
        \/ /\ v # <<>> /\ User(Head(v)) /\ ~Parked(t, Head(v))
           /\ IF t \in nothrow
              THEN Set(t, {"SERVEEXCEPT"}) /\ GoTo(t, "pop")
              ELSE GoTo(t, "unwind") /\ UNCHANGED t_state
           /\ UNCHANGED <<slot, ri_vec>>
     /\ UNCHANGED <<sigVars, flags, ri_siz, call, i, vec, ret, asleep, result, hist>>

(* Enter user-space with something to do; a timer interrupt must not serve *)
(* RPC_SLOT_FUSYNC slots.                                                  *)
ReturnToUser(t, timer) ==
  /\ pc[t] = "run" /\ t \notin asleep \cup KernelJob
  /\ "INTERRUPTED" \in t_state[t]
  /\ ret' = [ret EXCEPT ![t] = IF timer THEN "timer" ELSE "user"]
  /\ GoTo(t, "user")
  /\ UNCHANGED <<sigVars, t_state, flags, info, call, exec, asleep, result, hist>>

LeaveKernel(t) == GoTo(t, "run") /\ ret' = [ret EXCEPT ![t] = "run"]

(* task_serve_before_user(): whichever slot was chosen, vec[0] is the one  *)
(* that is tested for being parked, so that a parked head stops the search.*)
UserTake(t) ==
  LET v == ri_vec[t]
      fit == {k \in 1 .. Len(v) : ret[t] = "user" \/ mode[v[k]].flag # "usync"}
  IN /\ pc[t] = "user" /\ ~Locked(t)
     /\ \/ /\ v = <<>>
           /\ Clear(t, {"INTERRUPTED"})
           /\ LeaveKernel(t) /\ UNCHANGED <<slot, ri_vec>>
        \/ /\ v # <<>> /\ (fit = {} \/ Parked(t, Head(v)))
           /\ LeaveKernel(t) /\ UNCHANGED <<t_state, slot, ri_vec>>
        \/ /\ v # <<>> /\ fit # {} /\ ~Parked(t, Head(v))
           /\ \E k \in DOMAIN v : First(k, fit) /\ Take(t, k)
           /\ UNCHANGED <<t_state, ret>>
     /\ UNCHANGED <<sigVars, flags, ri_siz, call, i, vec, asleep, result, hist>>

InUser(t) == ret[t] \in {"user", "timer"}

(* The callback returns or throws; INRPC is cleared before the done-signal *)
(* is sent.                                                                *)
Callback(t) ==
  /\ pc[t] = "rpc"
  /\ ran' = [ran EXCEPT ![slot[t]] = @ + 1]
  /\ Clear(t, {"INRPC"})
  /\ \/ GoTo(t, "done")
     \/ t \in Interruptible /\ GoTo(t, "thrown")
  /\ UNCHANGED <<sigVars, flags, info, call, exec, ret, asleep, result, dropped, raced, sends>>

CallbackDone(t) ==
  /\ pc[t] \in {"done", "thrown"}
  /\ Broadcast(t, slot[t], slot[t])
  /\ Use(mode[slot[t]].sync /\ FrameLeft(slot[t]))
  /\ slot' = [slot EXCEPT ![t] = NoRpc]
  /\ \/ /\ pc[t] = "done"
        /\ GoTo(t, IF InUser(t) THEN "user" ELSE "serve") /\ UNCHANGED <<t_state, ret>>
     \/ pc[t] = "thrown" /\ InUser(t) /\ LeaveKernel(t) /\ UNCHANGED t_state
     \/ /\ pc[t] = "thrown" /\ ~InUser(t)
        /\ IF t \in nothrow
           THEN Set(t, {"SERVEEXCEPT"}) /\ GoTo(t, "pop")
           ELSE GoTo(t, "unwind") /\ UNCHANGED t_state
        /\ UNCHANGED ret
  /\ UNCHANGED <<flags, info, call, i, vec, result, ran, dropped>>

ServePop(t) ==
  /\ pc[t] = "pop"
  /\ PopConnections(t)
  /\ GoTo(t, ret[t])
  /\ ret' = [ret EXCEPT ![t] = "run"]
  /\ UNCHANGED <<t_state, flags, info, call, exec, asleep, result, hist>>

(* The exception leaves task_serve() with no connections, and              *)
(* task_queue_rpc() if that was the caller.                                *)
ServeUnwind(t) ==
  /\ pc[t] = "unwind"
  /\ chain' = [s \in Sig |-> Unlink(chain[s], t)]
  /\ tcs_sig' = [tcs_sig EXCEPT ![t] = NoSig]
  /\ saved' = [saved EXCEPT ![t] = "main"]
  /\ IF cur[t] # NoRpc THEN Return(t, "throw") ELSE GoTo(t, "run") /\ UNCHANGED <<cur, result>>
  /\ ret' = [ret EXCEPT ![t] = "run"]
  /\ new_alloc' = [new_alloc EXCEPT ![t] = 0]
  /\ UNCHANGED <<t_state, flags, info, mode, thread, exec, asleep, hist>>

-----------------------------------------------------------------------------
(* Preemption is disabled between the last look at tcs_sig and INTERRUPTED *)
(* and the moment the thread is asleep.                                    *)
Sleep(t) ==
  /\ pc[t] \in {"run", "wait"} /\ t \notin asleep
  /\ tcs_sig[t] = NoSig /\ ~Servable(t)
  /\ asleep' = asleep \cup {t}
  /\ UNCHANGED <<sigVars, t_state, flags, info, call, exec, pc, ret, result, hist>>

(* What a thread outside of task_queue_rpc() was waiting for happens. *)
Resume(t) ==
  /\ t \in asleep /\ pc[t] = "run"
  /\ asleep' = asleep \ {t}
  /\ UNCHANGED <<sigVars, t_state, flags, info, call, exec, pc, ret, result, hist>>

(* xnosignal(1) *)
SetNosignals(t) ==
  /\ pc[t] = "run" /\ t \in Masker \ (asleep \cup nosignals)
  /\ nosignals' = nosignals \cup {t}
  /\ UNCHANGED <<sigVars, t_state, nothrow, info, call, exec, pc, ret, asleep, result, hist>>

(* Mutant: nothing tells of the slots that are left. *)
ClearNosignalsOnly(t) ==
  /\ pc[t] = "run" /\ t \in nosignals \ asleep
  /\ nosignals' = nosignals \ {t}
  /\ GoTo(t, IF Servable(t) THEN "cleared" ELSE "run")
  /\ UNCHANGED <<sigVars, t_state, nothrow, info, call, exec, ret, asleep, result, hist>>

(* task_clear_nosignals(): for a non-empty vector TASK_STATE_FINTERRUPTED  *)
(* is or-ed into t_flags, where that bit is TASK_FNOSIGNALS again; then    *)
(* task_serve().                                                           *)
ClearNosignals(t) ==
  /\ pc[t] = "run" /\ t \in nosignals \ asleep
  /\ nosignals' = IF ri_vec[t] = <<>> THEN nosignals \ {t} ELSE nosignals
  /\ GoTo(t, IF Servable(t) THEN "cleared" ELSE "run")
  /\ UNCHANGED <<sigVars, t_state, nothrow, info, call, exec, ret, asleep, result, hist>>

(* task_nothrow_serve(), task_nothrow_end(): the latter throws what a      *)
(* callback has thrown.                                                    *)
NothrowServe(t) ==
  /\ pc[t] = "run" /\ t \in Nothrower \ (asleep \cup nothrow)
  /\ nothrow' = nothrow \cup {t}
  /\ UNCHANGED <<sigVars, t_state, nosignals, info, call, exec, pc, ret, asleep, result, hist>>

NothrowEnd(t) ==
  /\ pc[t] = "run" /\ t \in nothrow \ asleep
  /\ nothrow' = nothrow \ {t}
  /\ Clear(t, {"SERVEEXCEPT"})
  /\ UNCHANGED <<sigVars, nosignals, info, call, exec, pc, ret, asleep, result, hist>>

-----------------------------------------------------------------------------
(* task_exit(): disconnect, and TERMINATING is set ... *)
Exit(t) ==
  /\ pc[t] = "run" /\ t \in Exiting \ (asleep \cup nothrow)
  /\ Set(t, {"TERMINATING"})
  /\ GoTo(t, "xlock")
  /\ UNCHANGED <<sigVars, flags, info, call, exec, ret, asleep, result, hist>>

(* ... task_serve_before_exit() takes the lock once, so that every thread  *)
(* that may still have reserved a slot is done with it ...                 *)
ExitLock(t) ==
  /\ pc[t] = "xlock" /\ ~Locked(t)
  /\ t_state' = [t_state EXCEPT ![t] = (@ \ {"INTERRUPTED"}) \cup {"INRPC"}]
  /\ i' = [i EXCEPT ![t] = 1]
  /\ GoTo(t, "xloop")
  /\ UNCHANGED <<sigVars, flags, info, call, slot, vec, ret, asleep, result, hist>>

(* ... and walks over the vector without it: user calls are given up, and  *)
(* their callers hear of that through the join signal ...                  *)
ExitLoop(t) ==
  /\ pc[t] = "xloop"
  /\ \/ /\ i[t] > Len(ri_vec[t])
        /\ ri_vec' = [ri_vec EXCEPT ![t] = <<>>]
        /\ i' = [i EXCEPT ![t] = 0]
        /\ Clear(t, {"INRPC"})
        /\ GoTo(t, "xend")
        /\ UNCHANGED <<sigVars, slot, vec, asleep, dropped, raced, sends>>
     \/ /\ i[t] <= Len(ri_vec[t]) /\ User(ri_vec[t][i[t]])
        /\ Broadcast(t, ri_vec[t][i[t]], join_signal)
        /\ Use(mode[ri_vec[t][i[t]]].sync /\ FrameLeft(ri_vec[t][i[t]]))
        /\ dropped' = dropped \cup {ri_vec[t][i[t]]}
        /\ i' = [i EXCEPT ![t] = @ + 1]
        /\ UNCHANGED <<ri_vec, t_state, slot, vec, pc>>
     \/ /\ i[t] <= Len(ri_vec[t]) /\ ~User(ri_vec[t][i[t]])
        /\ slot' = [slot EXCEPT ![t] = ri_vec[t][i[t]]]
        /\ vec' = [vec EXCEPT ![t] = ri_siz[t]]
        /\ GoTo(t, "xrun")
        /\ UNCHANGED <<sigVars, ri_vec, t_state, i, asleep, dropped, raced, sends>>
  /\ UNCHANGED <<flags, ri_siz, call, ret, result, ran>>

(* The vector task_serve_before_exit() has a pointer into was freed by a   *)
(* caller that needed a larger one (the static slots never are).           *)
Freed(t) == vec[t] \notin {ri_siz[t], StaticSlots}

(* ... the others are executed, after which rs_done is read through the    *)
(* pointer to the slot.                                                    *)
ExitRun(t) ==
  /\ pc[t] = "xrun"
  /\ ran' = [ran EXCEPT ![slot[t]] = @ + 1]
  /\ Broadcast(t, slot[t], slot[t])
  /\ Use(Freed(t) \/ (mode[slot[t]].sync /\ FrameLeft(slot[t])))
  /\ slot' = [slot EXCEPT ![t] = NoRpc]
  /\ vec' = [vec EXCEPT ![t] = 0]
  /\ i' = [i EXCEPT ![t] = @ + 1]
  /\ GoTo(t, "xloop")
  /\ UNCHANGED <<t_state, flags, info, call, ret, result, dropped>>

ExitEnd(t) ==
  /\ pc[t] = "xend"
  /\ Set(t, {"TERMINATED"})
  /\ GoTo(t, "dead")
  /\ UNCHANGED <<sigVars, flags, info, call, exec, ret, asleep, result, hist>>

-----------------------------------------------------------------------------
(* What t does once it is inside a call, or has something to serve. *)
Step(t) ==
  \/ RpcAlloc(t) \/ RpcGrow(t) \/ ConnectDone(t) \/ SignalInterrupt(t) \/ WakeTarget(t)
  \/ Nack(t) \/ WaitDone(t)
  \/ ServeBegin(t) \/ ServePush(t) \/ ServeTake(t) \/ UserTake(t) \/ Callback(t)
  \/ CallbackDone(t) \/ ServePop(t) \/ ServeUnwind(t)
  \/ ExitLock(t) \/ ExitLoop(t) \/ ExitRun(t) \/ ExitEnd(t)

(* What t does unless it is still inside sig_broadcast(). *)
Act(t) ==
  \/ \E x \in Task, r \in RpcId, m \in Modes : QueueRpc(t, x, r, m)
  \/ \E timer \in BOOLEAN : ReturnToUser(t, timer)
  \/ Sleep(t) \/ Resume(t) \/ SetNosignals(t) \/ ClearNosignals(t)
  \/ NothrowServe(t) \/ NothrowEnd(t) \/ Exit(t) \/ Step(t)

Next == ~wild /\ \E t \in Task : BroadcastEnd(t) \/ (sending[t] = NoRpc /\ Act(t))

Spec == Init /\ [][Next]_vars

-----------------------------------------------------------------------------
(* Where a slot of call r waits to be executed ... *)
Waiting(r) ==
  UNION {{t} \X {k \in DOMAIN ri_vec[t] :
                   /\ ri_vec[t][k] = r
                   /\ pc[t] \in {"xloop", "xrun"} => k >= i[t]} : t \in Task}

(* ... and how often it waits, is being executed, or is done with. *)
Fate(r) ==
  Cardinality(Waiting(r)) + Cardinality({t \in Task : slot[t] = r /\ pc[t] = "rpc"})
    + ran[r] + (IF r \in dropped THEN 1 ELSE 0)

(* Nothing queued is executed twice, lost when other threads replace the   *)
(* vector or when slots leave it out of order, or both executed and given  *)
(* up; and only user calls are given up, by a thread that terminates.      *)
(* (task_queue_rpc() may return true for these: see GivenUpFails.)         *)
ExactlyOnce ==
  \A r \in RpcId : /\ Fate(r) <= 1
                   /\ result[r] = "true" => Fate(r) = 1
                   /\ r \in dropped => User(r)

(* A synchronous kernel call that returns true was executed, and one that  *)
(* returns false was not and never will be, however the target's exit      *)
(* falls between the steps of its caller.                                  *)
SyncTruth ==
  \A r \in RpcId : mode[r] # NoRpc /\ ~User(r) /\ mode[r].sync =>
    /\ result[r] = "true" => ran[r] = 1
    /\ result[r] = "false" => Fate(r) = 0

(* A caller waits only for calls that are still to be executed: when the   *)
(* target is done with a call, or gives it up, its caller has the signal,  *)
(* except for one that missed it while saving its connections.             *)
NoStrandedCaller ==
  \A t \in Task \ raced : (pc[t] = "wait" \/ ret[t] = "wait") /\ tcs_sig[t] = NoSig =>
    Waiting(cur[t]) # {} \/ \E u \in Task : slot[u] = cur[t]

(* A slot whose done-signal is still to be sent points to the stack of a   *)
(* thread that has left task_queue_rpc() only if an exception made it      *)
(* leave.  (Once the signal is sent there is another way: DoneSigOutlives.)*)
DoneSigUntilTold ==
  \A r \in RpcId : mode[r] # NoRpc /\ mode[r].sync /\ (Waiting(r) # {} \/ \E t \in Task : slot[t] = r)
    => result[r] = "throw" \/ \E t \in Task : cur[t] = r

(* A thread with slots in its vector is marked as interrupted, so that it  *)
(* looks at them before it sleeps or enters user-space, unless they are    *)
(* asynchronous and it has disabled signals.                               *)
NoForgottenRpc ==
  \A t \in Task : ri_vec[t] # <<>> /\ ~Locked(t) /\ ~Terminating(t) =>
    \/ "INTERRUPTED" \in t_state[t]
    \/ t \in nosignals /\ \A k \in DOMAIN ri_vec[t] : mode[ri_vec[t][k]].flag = "uasync"

(* A thread that sleeps although it has something to serve is about to be  *)
(* woken: setting INTERRUPTED and waking are two steps, and only the       *)
(* thread that set it wakes.                                               *)
NoSleepingTarget ==
  \A t \in asleep : Servable(t) => \E u \in Task : pc[u] = "wake" /\ thread[u] = t

(* task.h: "Scheduled RPC functions are executed in order or being         *)
(* queued": no kernel call is taken before an older one of the same thread *)
(* was, not even where user calls are overtaken.                           *)
InOrder ==
  [][\A t \in Task : slot'[t] \notin {slot[t], NoRpc} /\ ~User(slot'[t]) =>
       \A k \in DOMAIN ri_vec[t] :
         (\E n \in DOMAIN ri_vec[t] : n > k /\ ri_vec[t][n] = slot'[t])
           => User(ri_vec[t][k]) \/ ran[ri_vec[t][k]] = 1]_vars

(* task.h: "The only reason why `false' may be returned is because the     *)
(* thread is terminating/has terminated": a call that was refused is not   *)
(* executed.                                                               *)
RefusedNotRun == \A r \in RpcId : result[r] = "false" => ran[r] = 0

(* task.h on user calls that task_serve_before_exit() gives up: "using them *)
(* alongside `TASK_RPC_SYNC' will cause the sender to be woken, but fail   *)
(* by returning `false'".                                                  *)
GivenUpFails == \A r \in dropped : mode[r].sync => result[r] # "true"

(* The caller's frame, which holds the done-signal, is there until         *)
(* sig_broadcast() is through with it.                                     *)
DoneSigOutlives == \A t \in Task : sending[t] # NoRpc => ~FrameLeft(sending[t])

(* task.h on E_INTERRUPT: "In this case no RPC is scheduled". *)
ThrowNotScheduled ==
  \A r \in RpcId : mode[r] # NoRpc /\ mode[r].sync /\ result[r] = "throw" => Waiting(r) = {}

(* task.h: task_clear_nosignals() clears TASK_FNOSIGNALS. *)
SignalsEnabled == [][\A t \in Task : ClearNosignals(t) => t \notin nosignals']_vars

(* The slot task_serve_before_exit() works on is in memory that was not    *)
(* freed (static slots never are).                                         *)
ExitSlotAlive ==
  \A t \in Task : pc[t] = "xrun" => ~Freed(t)
=============================================================================
