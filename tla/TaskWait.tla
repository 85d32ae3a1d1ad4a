------------------------------ MODULE TaskWait ------------------------------
(***************************************************************************)
(* task_waitfor() as the blocking primitives see it                        *)
(* (src/kernel/src/sched/signal.c, with task_serve() of rpc.c).            *)
(*                                                                         *)
(* A task with pc = "wait" is inside the loop of task_waitfor().  It       *)
(* leaves the loop                                                         *)
(*   - because tcs_sig is set (the call returns the signal),               *)
(*   - because its timeout expired while tcs_sig was still NULL,           *)
(*   - because an RPC callback it served threw an exception.               *)
(* In the last two cases tcs_sig is not read again: the FINALLY block      *)
(* calls task_disconnect(), which is a later step (pc = "timeout" and      *)
(* pc = "throw") and drops a signal that arrives in between.               *)
(*                                                                         *)
(* Reading tcs_sig and going to sleep is one step: preemption is disabled  *)
(* from the read until task_sleep() has unscheduled the task, so that the  *)
(* task_wake() of a later sender always finds it asleep.                   *)
(***************************************************************************)
EXTENDS TaskSignal

CONSTANTS
  Timed,          \* tasks whose abs_timeout is not JTIME_INFINITE
  Serving,        \* tasks for which RPC callbacks may be queued
  Interruptible   \* tasks whose RPC callbacks may throw

ASSUME WaitAssumption ==
  /\ Timed \subseteq Task
  /\ Serving \subseteq Task
  /\ Interruptible \subseteq Serving

VARIABLE pc

GoTo(t, label) == pc' = [pc EXCEPT ![t] = label]

(* The loop found tcs_sig set; FINALLY disconnects and the caller goes on  *)
(* at `label'.                                                             *)
WaitSignaled(t, label) ==
  /\ pc[t] = "wait"
  /\ tcs_sig[t] # NoSig
  /\ Disconnect(t)
  /\ GoTo(t, label)

(* task_sleep() reported the timeout and tcs_sig was read as NULL.         *)
WaitTimeout(t) ==
  /\ pc[t] = "wait"
  /\ t \in Timed
  /\ tcs_sig[t] = NoSig
  /\ GoTo(t, "timeout")
  /\ UNCHANGED sigVars

(* task_serve() before going to sleep: the connections are saved while the *)
(* callbacks run ...                                                       *)
WaitServe(t) ==
  /\ pc[t] = "wait"
  /\ t \in Serving
  /\ tcs_sig[t] = NoSig
  /\ RelocateConnections(t)
  /\ GoTo(t, "push")

ServeCallbacks(t) ==
  /\ pc[t] = "push"
  /\ CopySignal(t)
  /\ GoTo(t, "serve")

(* ... and restored when they are done: `if (task_serve()) continue;'.     *)
ServeDone(t) ==
  /\ pc[t] = "serve"
  /\ PopConnections(t)
  /\ GoTo(t, "wait")

(* A callback threw: task_serve() restores the connections, disconnects    *)
(* them (a later step) and rethrows.                                       *)
ServeThrow(t) ==
  /\ pc[t] = "serve"
  /\ t \in Interruptible
  /\ PopConnections(t)
  /\ GoTo(t, "throw")

(* FINALLY: task_disconnect(), after a timeout or before the rethrow.      *)
WaitFailed(t, label) ==
  /\ pc[t] \in {"timeout", "throw"}
  /\ Disconnect(t)
  /\ GoTo(t, label)

(* The steps of task_waitfor() that stay inside the call. *)
WaitLoop(t) ==
  \/ WaitTimeout(t)
  \/ WaitServe(t)
  \/ ServeCallbacks(t)
  \/ ServeDone(t)
  \/ ServeThrow(t)
=============================================================================
