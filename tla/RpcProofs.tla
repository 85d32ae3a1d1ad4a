----------------------------- MODULE RpcProofs -----------------------------
(***************************************************************************)
(* Proofs about the remote procedure calls between threads, for any number *)
(* of threads, calls and slots: whoever queues, serves, exits, throws or   *)
(* disables signals in whatever order.                                     *)
(***************************************************************************)
EXTENDS RpcPlaces

(* A leaf is proved by Zenon unless it names another prover; the limits    *)
(* are generous since they are of wall-clock time.                         *)
USE ZenonT(60)

USE DEF GoTo, Set, Clear

-----------------------------------------------------------------------------
(* What the three places that look for a slot leave alone.                 *)
LEMMA TakeFrame ==
  ASSUME NEW t \in Task, ServeTake(t)
  PROVE  /\ pc[t] = "serve" /\ ~Locked(t)
         /\ UNCHANGED <<sigVars, flags, ri_siz, call, i, vec, ret, asleep, result, hist>>
         /\ GoTo(t, "pop") \/ GoTo(t, "rpc") \/ GoTo(t, "unwind")
<1> HIDE DEF GoTo, Set, Clear
<1> QED BY DEF ServeTake, Take

(* What task_serve_before_user() leaves alone when it looks for a slot.    *)
LEMMA UserFrame ==
  ASSUME NEW t \in Task, UserTake(t)
  PROVE  /\ pc[t] = "user" /\ ~Locked(t)
         /\ UNCHANGED <<sigVars, flags, ri_siz, call, i, vec, asleep, result, hist>>
         /\ LeaveKernel(t) \/ (GoTo(t, "rpc") /\ UNCHANGED ret)
<1> HIDE DEF GoTo, Set, Clear, LeaveKernel
<1> QED BY DEF UserTake, Take

(* What an iteration of the loop of task_serve_before_exit() leaves alone. *)
LEMMA ExitFrame ==
  ASSUME NEW t \in Task, ExitLoop(t)
  PROVE  /\ pc[t] = "xloop" /\ UNCHANGED <<flags, ri_siz, call, ret, result, ran>>
         /\ UNCHANGED pc \/ GoTo(t, "xend") \/ GoTo(t, "xrun")
         /\ ~UNCHANGED sigVars => UNCHANGED pc
<1> HIDE DEF GoTo, Set, Clear
<1> QED BY DEF ExitLoop

-----------------------------------------------------------------------------
(* How a step works on the slots: one that is taken has only user calls    *)
(* before it, or is the next one of task_serve_before_exit(), whose vector *)
(* stays as it is until the end of the loop.                               *)
Taken(x) ==
  \E k \in DOMAIN ri_vec[x] :
    /\ slot'[x] = ri_vec[x][k]
    /\ \/ pc[x] = "xloop" /\ k = i[x]
       \/ \A j \in DOMAIN ri_vec[x] : j < k => User(ri_vec[x][j])

Passed(x) ==
  /\ i'[x] = i[x] + 1 /\ i[x] \in DOMAIN ri_vec[x]
  /\ ran'[ri_vec[x][i[x]]] = 1 \/ ri_vec[x][i[x]] \in dropped'

Walk(x) ==
  /\ slot'[x] \in {slot[x], NoRpc} \/ Taken(x)
  /\ pc'[x] \in {"xloop", "xrun"} =>
       \/ pc[x] \in {"xloop", "xrun"} /\ ri_vec'[x] = ri_vec[x] /\ (i'[x] = i[x] \/ Passed(x))
       \/ i'[x] = 1

(* In every step a service loop takes the first slot it may execute, or, in*)
(* task_serve_before_exit(), the next one.                                 *)
LEMMA WalkStep ==
  TypeOK /\ ControlInv /\ LockInv /\ WhereInv /\ [Next]_vars
    => (\A x \in Task : Walk(x))
(* A step that leaves the service loop of x alone.                         *)
<1>WalkOther.
  ASSUME NEW x \in Task, pc'[x] = pc[x], i'[x] = i[x], slot'[x] = slot[x],
         pc[x] \in {"xloop", "xrun"} => ri_vec'[x] = ri_vec[x]
  PROVE  Walk(x)
  BY <1>WalkOther DEF Walk
(* A step of t that takes no slot.                                         *)
<1>WalkQuiet.
  ASSUME NEW t \in Task, UNCHANGED <<i, ri_vec>>, slot'[t] \in {slot[t], NoRpc},
         \A u \in Task : u # t => pc'[u] = pc[u] /\ slot'[u] = slot[u],
         pc'[t] \in {"xloop", "xrun"} => pc[t] \in {"xloop", "xrun"}
  PROVE  \A x \in Task : Walk(x)
  <2> USE <1>WalkQuiet
  <2>1. Walk(t)
    BY DEF Walk
  <2>2. ASSUME NEW x \in Task, x # t PROVE Walk(x)
    BY <2>2, <1>WalkOther
  <2> QED BY <2>1, <2>2
(* Take(): the slot taken is the first that the loop does not pass over.   *)
<1>WalkTake.
  ASSUME TypeOK, NEW t \in Task, UNCHANGED i, NEW k \in 1 .. Len(ri_vec[t]), Take(t, k),
         \A j \in 1 .. Len(ri_vec[t]) : j < k => User(ri_vec[t][j])
  PROVE  \A x \in Task : Walk(x)
  <2> USE <1>WalkTake
  <2>t. pc \in [Task -> PC] /\ slot \in [Task -> RpcId \cup {NoRpc}] /\ ri_vec \in [Task -> Seq(RpcId)]
    BY DEF TypeOK
  <2>1. pc'[t] = "rpc" /\ slot'[t] = ri_vec[t][k]
    BY <2>t DEF Take
  <2>2. ASSUME NEW x \in Task, x # t PROVE Walk(x)
    <3>1. pc'[x] = pc[x] /\ slot'[x] = slot[x] /\ ri_vec'[x] = ri_vec[x] /\ i'[x] = i[x]
      BY <2>2, <2>t DEF Take
    <3> QED BY <3>1, <1>WalkOther
  <2>3. DOMAIN ri_vec[t] = 1 .. Len(ri_vec[t])
    BY <2>t, SMTT(60)
  <2>4. Walk(t)
    BY <2>1, <2>3 DEF Walk, Taken
  <2> QED BY <2>2, <2>4
(* The steps of the loop of task_serve_before_exit().                      *)
<1>WalkExit.
  ASSUME TypeOK, ControlInv, LockInv, WhereInv, NEW t \in Task, ExitLock(t) \/ ExitLoop(t) \/ ExitRun(t)
  PROVE  \A x \in Task : Walk(x)
  <2> USE <1>WalkExit
  <2> HIDE DEF GoTo, Set, Clear
  <2>t. pc \in [Task -> PC] /\ slot \in [Task -> RpcId \cup {NoRpc}] /\ i \in [Task -> Nat]
    BY DEF TypeOK
  <2>u. ri_vec \in [Task -> Seq(RpcId)] /\ ran \in [RpcId -> Nat]
    BY DEF TypeOK
  <2>w. DOMAIN ri_vec[t] = 1 .. Len(ri_vec[t]) /\ Len(ri_vec[t]) \in Nat /\ i[t] \in Nat
    BY <2>t, <2>u, SMTT(60)
  <2>o. ASSUME \A u \in Task : u # t => pc'[u] = pc[u] /\ slot'[u] = slot[u] /\ ri_vec'[u] = ri_vec[u] /\ i'[u] = i[u],
               Walk(t)
        PROVE  \A x \in Task : Walk(x)
    BY <2>o, <1>WalkOther
  <2>g. ASSUME NEW l, GoTo(t, l) PROVE pc'[t] = l /\ \A u \in Task : u # t => pc'[u] = pc[u]
    BY <2>g, <2>t DEF GoTo
  <2>1. CASE ExitLock(t)
    <3>1. i' = [i EXCEPT ![t] = 1] /\ GoTo(t, "xloop") /\ UNCHANGED <<ri_vec, slot>>
      BY <2>1 DEF ExitLock, info
    <3>2. i'[t] = 1 /\ \A u \in Task : u # t => i'[u] = i[u]
      BY <2>t, <3>1
    <3>3. Walk(t)
      BY <3>1, <3>2 DEF Walk
    <3> QED BY <2>g, <2>o, <3>1, <3>2, <3>3
  <2>2. CASE ExitLoop(t)
    <3>1. pc[t] = "xloop" /\ i[t] # 0
      <4>1. pc[t] = "xloop"
        BY <2>2, ExitFrame
      <4> QED BY <4>1 DEF ControlInv, Control
    <3>2. CASE ri_vec' = [ri_vec EXCEPT ![t] = <<>>] /\ i' = [i EXCEPT ![t] = 0] /\ GoTo(t, "xend") /\ UNCHANGED slot
      <4>1. \A u \in Task : u # t => ri_vec'[u] = ri_vec[u] /\ i'[u] = i[u]
        BY <2>t, <2>u, <3>2
      <4>2. Walk(t)
        BY <2>g, <3>2, SMTT(60) DEF Walk
      <4> QED BY <2>g, <2>o, <3>2, <4>1, <4>2
    <3>3. ASSUME NEW r \in RpcId, i[t] \in 1 .. Len(ri_vec[t]), r = ri_vec[t][i[t]], dropped' = dropped \cup {r},
                 i' = [i EXCEPT ![t] = @ + 1], UNCHANGED <<ri_vec, slot, pc>>
          PROVE  \A x \in Task : Walk(x)
      <4>1. i'[t] = i[t] + 1 /\ \A u \in Task : u # t => i'[u] = i[u]
        BY <2>t, <3>3
      <4>2. Passed(t)
        BY <2>w, <3>3, <4>1 DEF Passed
      <4>3. Walk(t)
        BY <3>1, <3>3, <4>2 DEF Walk
      <4> QED BY <2>o, <3>3, <4>1, <4>3
    <3>4. ASSUME NEW r \in RpcId, i[t] \in 1 .. Len(ri_vec[t]), r = ri_vec[t][i[t]],
                 slot' = [slot EXCEPT ![t] = r], GoTo(t, "xrun"), UNCHANGED <<ri_vec, i>>
          PROVE  \A x \in Task : Walk(x)
      <4>1. slot'[t] = r /\ \A u \in Task : u # t => slot'[u] = slot[u]
        BY <2>t, <3>4
      <4>2. Taken(t)
        BY <2>w, <3>1, <3>4, <4>1 DEF Taken
      <4>3. Walk(t)
        BY <3>1, <3>4, <4>2 DEF Walk
      <4> QED BY <2>g, <2>o, <3>4, <4>1, <4>3
    <3> QED BY <2>2, <3>1, <3>2, <3>3, <3>4, ExitLoopCases
  <2>3. CASE ExitRun(t)
    <3>1. /\ pc[t] = "xrun" /\ GoTo(t, "xloop") /\ UNCHANGED ri_vec /\ slot' = [slot EXCEPT ![t] = NoRpc]
          /\ i' = [i EXCEPT ![t] = @ + 1] /\ ran' = [ran EXCEPT ![slot[t]] = @ + 1]
      BY <2>3 DEF ExitRun, info
    <3>2. i[t] \in DOMAIN ri_vec[t] /\ slot[t] = ri_vec[t][i[t]]
      BY <3>1 DEF WhereInv, VecInv
    <3>3. slot[t] \in RpcId
      BY <2>u, <3>2, SMTT(60)
    <3>4. ran[slot[t]] = 0
      BY <3>1, <3>3, RpcAssumption DEF WhereInv, PlaceInv, CallAt, QueueAt, SlotAt
    <3>5. ran'[ri_vec[t][i[t]]] = 1
      BY <2>u, <3>1, <3>2, <3>3, <3>4, SMTT(60)
    <3>6. /\ i'[t] = i[t] + 1 /\ slot'[t] = NoRpc
          /\ \A u \in Task : u # t => i'[u] = i[u] /\ slot'[u] = slot[u]
      BY <2>t, <3>1
    <3>7. Passed(t)
      BY <3>2, <3>5, <3>6 DEF Passed
    <3>8. Walk(t)
      BY <3>1, <3>6, <3>7 DEF Walk
    <3> QED BY <2>g, <2>o, <3>1, <3>6, <3>8
  <2> QED BY <2>1, <2>2, <2>3
<1> SUFFICES ASSUME TypeOK, ControlInv, LockInv, WhereInv, [Next]_vars
             PROVE  \A x \in Task : Walk(x)
  BY SMTT(60)
<1> HIDE DEF GoTo, Set, Clear, Return, LeaveKernel
<1>t. pc \in [Task -> PC] /\ thread \in [Task -> Task] /\ slot \in [Task -> RpcId \cup {NoRpc}]
  BY DEF TypeOK
<1>v. ri_vec \in [Task -> Seq(RpcId)]
  BY DEF TypeOK
<1>g. ASSUME NEW t \in Task, NEW l, GoTo(t, l) PROVE pc'[t] = l /\ \A u \in Task : u # t => pc'[u] = pc[u]
  BY <1>g, <1>t DEF GoTo
<1>q. ASSUME NEW t \in Task, UNCHANGED <<i, ri_vec, slot>>,
             UNCHANGED pc \/ \E l \in PC \ {"xloop", "xrun"} : GoTo(t, l)
      PROVE  \A x \in Task : Walk(x)
  <2>1. /\ \A u \in Task : u # t => pc'[u] = pc[u]
        /\ pc'[t] \in {"xloop", "xrun"} => pc[t] \in {"xloop", "xrun"}
    BY <1>g, <1>q
  <2> QED BY <1>q, <2>1, <1>WalkQuiet
<1>p. {"run", "lock", "grow", "connect", "signal", "wake", "nack", "wait", "cleared",
       "push", "serve", "rpc", "done", "thrown", "pop", "unwind", "user", "xlock", "dead"} \subseteq PC \ {"xloop", "xrun"}
  BY DEF PC
<1>r. ASSUME NEW t \in Task, NEW v, Return(t, v) PROVE GoTo(t, "run")
  BY <1>r DEF Return
<1>1. CASE Frozen
  <2>1. UNCHANGED <<i, ri_vec, slot, pc>>
    BY <1>1 DEF Frozen, info, exec
  <2> QED BY <2>1, <1>WalkOther
<1>2. ASSUME NEW t \in Task, NEW x \in Task, NEW r \in RpcId, NEW m \in Modes, QueueRpc(t, x, r, m)
      PROVE  \A y \in Task : Walk(y)
  <2>1. UNCHANGED <<i, ri_vec, slot>> /\ (UNCHANGED pc \/ GoTo(t, "lock"))
    BY <1>2 DEF QueueRpc, info, exec
  <2> QED BY <1>p, <1>q, <2>1
<1>3. ASSUME NEW t \in Task, NEW timer \in BOOLEAN, ReturnToUser(t, timer) PROVE \A x \in Task : Walk(x)
  <2>1. UNCHANGED <<i, ri_vec, slot>> /\ GoTo(t, "user")
    BY <1>3 DEF ReturnToUser, info, exec
  <2> QED BY <1>p, <1>q, <2>1
<1>4. ASSUME NEW t \in Task, Sleep(t) \/ Resume(t) \/ SetNosignals(t) \/ NothrowServe(t) \/ NothrowEnd(t)
      PROVE  \A x \in Task : Walk(x)
  <2>1. UNCHANGED <<i, ri_vec, slot, pc>>
    BY <1>4 DEF Sleep, Resume, SetNosignals, NothrowServe, NothrowEnd, info, exec
  <2> QED BY <1>q, <2>1
<1>5. ASSUME NEW t \in Task, ClearNosignals(t) \/ Exit(t) \/ ExitEnd(t) PROVE \A x \in Task : Walk(x)
  <2>1. UNCHANGED <<i, ri_vec, slot>>
    BY <1>5 DEF ClearNosignals, Exit, ExitEnd, info, exec
  <2>2. GoTo(t, "run") \/ GoTo(t, "cleared") \/ GoTo(t, "xlock") \/ GoTo(t, "dead")
    BY <1>5 DEF ClearNosignals, Exit, ExitEnd
  <2> QED BY <1>p, <1>q, <2>1, <2>2
<1>6. ASSUME NEW t \in Task, RpcAlloc(t) PROVE \A x \in Task : Walk(x)
  <2>1. UNCHANGED <<i, slot>>
    BY <1>6 DEF RpcAlloc, exec
  <2>2. CASE UNCHANGED info
    <3>1. Return(t, "false") \/ GoTo(t, "grow") \/ GoTo(t, "connect") \/ GoTo(t, "signal")
      BY <1>6 DEF RpcAlloc
    <3>2. UNCHANGED ri_vec
      BY <2>2 DEF info
    <3> QED BY <1>p, <1>q, <1>r, <2>1, <3>1, <3>2
  <2>3. CASE /\ ~Terminating(thread[t]) /\ ri_vec' = [ri_vec EXCEPT ![thread[t]] = Append(@, cur[t])]
             /\ GoTo(t, "connect") \/ GoTo(t, "signal")
    <3>1. \A u \in Task : pc'[u] = pc[u] \/ (u = t /\ pc'[u] \in {"connect", "signal"})
      BY <1>g, <2>3
    <3>2. \A u \in Task : pc[u] \in {"xloop", "xrun"} => u # thread[t]
      BY <2>3 DEF LockInv, ExitPC, Terminating
    <3>3. \A u \in Task : pc[u] \in {"xloop", "xrun"} => ri_vec'[u] = ri_vec[u]
      BY <1>v, <2>3, <3>2
    <3> QED BY <2>1, <3>1, <3>3 DEF Walk
  <2> QED BY <1>6, <2>2, <2>3 DEF RpcAlloc
<1>7. ASSUME NEW t \in Task, RpcGrow(t) PROVE \A x \in Task : Walk(x)
  <2>1. UNCHANGED <<i, ri_vec, slot>> /\ (GoTo(t, "lock") \/ Return(t, "throw"))
    BY <1>7 DEF RpcGrow, exec
  <2> QED BY <1>p, <1>q, <1>r, <2>1
<1>8. ASSUME NEW t \in Task, ConnectDone(t) PROVE \A x \in Task : Walk(x)
  <2>1. UNCHANGED <<i, ri_vec, slot>> /\ GoTo(t, "signal")
    BY <1>8 DEF ConnectDone, info, exec
  <2> QED BY <1>p, <1>q, <2>1
<1>9. ASSUME NEW t \in Task, SignalInterrupt(t) \/ WakeTarget(t) PROVE \A x \in Task : Walk(x)
  <2>1. UNCHANGED <<i, ri_vec, slot>>
    BY <1>9 DEF SignalInterrupt, WakeTarget, info, exec
  <2>2. GoTo(t, "nack") \/ GoTo(t, "wake") \/ GoTo(t, "wait") \/ Return(t, "throw") \/ Return(t, "true")
    BY <1>9 DEF SignalInterrupt, WakeTarget, Queued
  <2> QED BY <1>p, <1>q, <1>r, <2>1, <2>2
<1>10. ASSUME NEW t \in Task, Nack(t) \/ WaitDone(t) PROVE \A x \in Task : Walk(x)
  <2>1. UNCHANGED <<i, ri_vec, slot>> /\ (Return(t, "true") \/ Return(t, "false"))
    BY <1>10 DEF Nack, WaitDone, info, exec
  <2> QED BY <1>p, <1>q, <1>r, <2>1
<1>11. ASSUME NEW t \in Task, ServeBegin(t) \/ ServePush(t) PROVE \A x \in Task : Walk(x)
  <2>1. UNCHANGED <<i, ri_vec, slot>> /\ (GoTo(t, "push") \/ GoTo(t, "serve"))
    BY <1>11 DEF ServeBegin, ServePush, info, exec
  <2> QED BY <1>p, <1>q, <2>1
<1>12. ASSUME NEW t \in Task, ServeTake(t) PROVE \A x \in Task : Walk(x)
  <2>1. UNCHANGED i
    BY <1>12, TakeFrame
  <2>2. CASE \E k \in 1 .. Len(ri_vec[t]) :
               Take(t, k) /\ \A j \in 1 .. Len(ri_vec[t]) : j < k => User(ri_vec[t][j])
    BY <2>1, <2>2, <1>WalkTake
  <2>3. CASE UNCHANGED <<slot, ri_vec>> /\ (GoTo(t, "pop") \/ GoTo(t, "unwind"))
    BY <1>p, <1>q, <2>1, <2>3
  <2> QED BY <1>12, <2>2, <2>3, ServeTakeCases
<1>13. ASSUME NEW t \in Task, UserTake(t) PROVE \A x \in Task : Walk(x)
  <2>1. UNCHANGED i
    BY <1>13, UserFrame
  <2>2. CASE \E k \in 1 .. Len(ri_vec[t]) :
               Take(t, k) /\ \A j \in 1 .. Len(ri_vec[t]) : j < k => User(ri_vec[t][j])
    BY <2>1, <2>2, <1>WalkTake
  <2>3. CASE UNCHANGED <<slot, ri_vec>> /\ LeaveKernel(t)
    BY <1>p, <1>q, <2>1, <2>3 DEF LeaveKernel
  <2> QED BY <1>13, <2>2, <2>3, UserTakeCases
<1>14. ASSUME NEW t \in Task, Callback(t) PROVE \A x \in Task : Walk(x)
  <2>1. UNCHANGED <<i, ri_vec, slot>> /\ (GoTo(t, "done") \/ GoTo(t, "thrown"))
    BY <1>14 DEF Callback, info, exec
  <2> QED BY <1>p, <1>q, <2>1
<1>15. ASSUME NEW t \in Task, CallbackDone(t) PROVE \A x \in Task : Walk(x)
  <2>1. UNCHANGED <<i, ri_vec>> /\ slot' = [slot EXCEPT ![t] = NoRpc]
    BY <1>15 DEF CallbackDone, info
  <2>2. GoTo(t, "user") \/ GoTo(t, "serve") \/ GoTo(t, "run") \/ GoTo(t, "pop") \/ GoTo(t, "unwind")
    BY <1>15 DEF CallbackDone, LeaveKernel
  <2>3. slot'[t] = NoRpc /\ \A u \in Task : u # t => slot'[u] = slot[u]
    BY <1>t, <2>1
  <2>4. pc'[t] \notin {"xloop", "xrun"} /\ \A u \in Task : u # t => pc'[u] = pc[u]
    BY <1>g, <2>2, SMTT(60)
  <2> QED BY <2>1, <2>3, <2>4, <1>WalkQuiet
<1>16. ASSUME NEW t \in Task, ServePop(t) PROVE \A x \in Task : Walk(x)
  <2>1. UNCHANGED <<i, ri_vec, slot>> /\ GoTo(t, ret[t])
    BY <1>16 DEF ServePop, info, exec
  <2>2. ret[t] \in {"run", "lock", "grow", "wait", "user", "timer"}
    BY DEF ControlInv, Control
  <2>3. pc'[t] \notin {"xloop", "xrun"} /\ \A u \in Task : u # t => pc'[u] = pc[u]
    BY <1>g, <2>1, <2>2
  <2> QED BY <2>1, <2>3, <1>WalkQuiet
<1>17. ASSUME NEW t \in Task, ServeUnwind(t) PROVE \A x \in Task : Walk(x)
  <2>1. UNCHANGED <<i, ri_vec, slot>> /\ (GoTo(t, "run") \/ Return(t, "throw"))
    BY <1>17 DEF ServeUnwind, info, exec
  <2> QED BY <1>p, <1>q, <1>r, <2>1
<1>18. ASSUME NEW t \in Task, ExitLock(t) \/ ExitLoop(t) \/ ExitRun(t) PROVE \A x \in Task : Walk(x)
  BY <1>18, <1>WalkExit
<1> QED
  BY <1>1, <1>2, <1>3, <1>4, <1>5, <1>6, <1>7, <1>8, <1>9, <1>10, <1>11, <1>12, <1>13, <1>14, <1>15,
     <1>16, <1>17, <1>18, NextCases
  DEF Act, Step

-----------------------------------------------------------------------------
(* What task_queue_rpc() has returned is what happened to the call.        *)
Answer(r) ==
  /\ result[r] = "none" /\ mode[r] # NoRpc => \E t \in Task : cur[t] = r
  /\ result[r] = "true" => ~Nowhere(r)
  /\ mode[r] # NoRpc /\ mode[r].sync =>
       /\ result[r] \in {"true", "false"} => \A t \in Task : ~Pending(t, r)
       /\ ~User(r) /\ result[r] = "true" => ran[r] = 1
       /\ ~User(r) /\ result[r] = "false" => Nowhere(r)

ResultInv == \A r \in RpcId : Answer(r)

(* A caller between the reservation of its slot and the end of its call is *)
(* connected to the done-signal for as long as the call is pending, and    *)
(* has a signal that tells what happened afterwards.                       *)
Waits(t) == pc[t] \in {"signal", "wake", "nack", "wait"} \/ ret[t] = "wait"
AtWait(t) == pc[t] = "wait" \/ ret[t] = "wait"

CallerInv(t) ==
  /\ \A s \in Sig : t \in Connected(s) =>
       tcs_sig[t] = NoSig /\ cur[t] = s /\ Waits(t) /\ mode[s].sync /\ Pending(thread[t], s)
  /\ tcs_sig[t] # NoSig =>
       /\ Waits(t) /\ mode[cur[t]].sync
       /\ \A u \in Task : ~Pending(u, cur[t])
       /\ \/ tcs_sig[t] = cur[t] /\ ran[cur[t]] = 1
          \/ tcs_sig[t] = join_signal /\ cur[t] \in dropped
  /\ AtWait(t) => mode[cur[t]].sync
  /\ pc[t] = "connect" => mode[cur[t]].sync /\ cur[t] \in Queue[thread[t]]
  /\ cur[t] # NoRpc /\ thread[t] = t => ~mode[cur[t]].sync
  /\ tcs_sig[t] = NoSig =>
       /\ pc[t] \in {"signal", "wake", "nack"} /\ mode[cur[t]].sync => t \in Connected(cur[t])
       /\ AtWait(t) /\ t \notin raced => t \in Connected(cur[t])

SigInv == (\A s \in Sig : OncePerTask(chain[s])) /\ \A t \in Task : CallerInv(t)

(* The mode of a call is not changed.                                      *)
LEMMA EffectMode ==
  ASSUME Effect, NEW r \in RpcId, mode[r] # NoRpc, \A t \in Task : \A q \in Queue[t] : q \in RpcId
  PROVE  mode'[r] = mode[r]
BY DEF Effect, Same

(* A caller that waits has a settled call.                                 *)
LEMMA WaitsSettled ==
  ASSUME TypeOK, ControlInv, CallInv, NEW t \in Task, Waits(t) \/ pc[t] = "connect"
  PROVE  cur[t] \in RpcId /\ cur[t] # NoRpc /\ Settled(cur[t])
<1>1. cur[t] # NoRpc /\ ~Unqueued(t)
  BY DEF ControlInv, Control, CallPC, ServePC, Unqueued, Waits
<1>2. cur[t] \in RpcId
  BY <1>1 DEF TypeOK
<1>3. mode[cur[t]] # NoRpc /\ \A u \in Task : cur[u] = cur[t] => u = t
  BY <1>1 DEF CallInv
<1> QED BY <1>1, <1>2, <1>3 DEF Settled

(* Every step keeps SigInv.                                                *)
LEMMA SigStep ==
  TypeOK /\ ControlInv /\ LockInv /\ WhereInv /\ WhereInv' /\ SigInv /\ [Next]_vars
    => SigInv'
(* A caller that keeps its connections and its signal, whatever others do, *)
(* and however it gets on to its wait.                                     *)
<1>CallerKept.
  ASSUME TypeOK, ControlInv, WhereInv, Effect, NEW t \in Task, CallerInv(t),
         \A s \in Sig : t \in Connected(s)' <=> t \in Connected(s),
         tcs_sig'[t] = tcs_sig[t], raced \subseteq raced', cur'[t] = cur[t], thread'[t] = thread[t],
         Waits(t)' <=> Waits(t), pc'[t] = "connect" => pc[t] = "connect" /\ Locked(thread[t]),
         pc'[t] \in {"signal", "wake", "nack"} => pc[t] \in {"signal", "wake", "nack"},
         AtWait(t)' => AtWait(t) \/ (pc[t] \in {"signal", "wake", "nack"} /\ mode[cur[t]].sync)
  PROVE  CallerInv(t)'
  <2> USE <1>CallerKept
  <2>g. thread[t] \in Task /\ tcs_sig[t] \in Sig \cup {NoSig}
    BY DEF TypeOK, SigTypeOK
  <2>v. CallInv
    BY DEF WhereInv
  <2>q. \A u \in Task : \A r \in Queue[u] : r \in RpcId
    BY QueueType
  <2>c. Waits(t) \/ pc[t] = "connect" => cur[t] # NoRpc
    BY DEF ControlInv, Control, CallPC, Waits
  <2>1. CASE ~Waits(t) /\ pc[t] # "connect"
    <3>1. (\A s \in Sig : t \notin Connected(s)) /\ tcs_sig[t] = NoSig
      BY <2>1 DEF CallerInv
    <3>2. ~Waits(t)' /\ pc'[t] # "connect" /\ ~AtWait(t)' /\ pc'[t] \notin {"signal", "wake", "nack"}
      BY <2>1 DEF Waits, AtWait
    <3>3. cur[t] # NoRpc => mode'[cur[t]] = mode[cur[t]]
      <4>1. ASSUME cur[t] # NoRpc PROVE mode'[cur[t]] = mode[cur[t]]
        <5>1. cur[t] \in RpcId /\ mode[cur[t]] # NoRpc
          BY <2>v, <4>1 DEF TypeOK, CallInv
        <5> QED BY <2>q, <5>1, EffectMode
      <4> QED BY <4>1
    <3> QED BY <3>1, <3>2, <3>3 DEF CallerInv
  <2>2. CASE Waits(t) \/ pc[t] = "connect"
    <3>1. PICK r \in RpcId : r = cur[t] /\ Settled(r)
      BY <2>2, <2>v, WaitsSettled
    <3>2. /\ mode'[r] = mode[r]
          /\ ran[r] = 1 => ran'[r] = 1
          /\ r \in dropped => r \in dropped'
          /\ \A u \in Task : Pending(u, r)' => Pending(u, r)
          /\ \A u \in Task : Pending(u, r) => Pending(u, r)' \/ \E s \in {r, join_signal} : Completed(r, s)
          /\ \A u \in Task : Locked(u) /\ r \in Queue[u] => r \in Queue'[u]
      BY <3>1, SettledStep
    <3>3. r \in Sig
      BY RpcAssumption
    <3>4. ASSUME NEW s \in Sig, t \in Connected(s)
          PROVE  tcs_sig[t] = NoSig /\ r = s /\ Waits(t) /\ mode'[s].sync /\ Pending(thread[t], r)'
      <4>1. tcs_sig[t] = NoSig /\ r = s /\ Waits(t) /\ mode[s].sync /\ Pending(thread[t], r)
        BY <3>1, <3>4 DEF CallerInv
      <4>2. ASSUME NEW b \in {r, join_signal}, Completed(r, b)
            PROVE  FALSE
        <5>1. Announce(r, b) /\ mode[r].sync /\ Connected(r) # {}
          BY <3>4, <4>1, <4>2 DEF Completed
        <5>2. chain' = [chain EXCEPT ![r] = <<>>]
          BY <5>1 DEF Announce
        <5>3. chain'[r] = <<>>
          BY <3>3, <5>2 DEF TypeOK, SigTypeOK
        <5>4. t \notin Connected(r)'
          BY <5>3, SMTT(60) DEF Connected
        <5> QED BY <3>3, <3>4, <4>1, <5>4
      <4> QED BY <2>g, <3>2, <4>1, <4>2
    <3>5. ASSUME tcs_sig[t] # NoSig
          PROVE  /\ Waits(t)' /\ mode'[r].sync
                 /\ \A u \in Task : ~Pending(u, r)'
                 /\ (tcs_sig[t] = r /\ ran'[r] = 1) \/ (tcs_sig[t] = join_signal /\ r \in dropped')
      <4>1. /\ Waits(t) /\ mode[r].sync
            /\ \A u \in Task : ~Pending(u, r)
            /\ (tcs_sig[t] = r /\ ran[r] = 1) \/ (tcs_sig[t] = join_signal /\ r \in dropped)
        BY <3>1, <3>5 DEF CallerInv
      <4> QED BY <3>2, <4>1
    <3>6. AtWait(t)' => mode'[r].sync
      BY <3>1, <3>2 DEF CallerInv
    <3>7. pc'[t] = "connect" => mode'[r].sync /\ r \in Queue'[thread[t]]
      BY <2>g, <3>1, <3>2 DEF CallerInv
    <3>8. thread[t] = t => ~mode'[r].sync
      BY <2>2, <2>c, <3>1, <3>2 DEF CallerInv, ControlInv, Control, CallPC
    <3>9. ASSUME tcs_sig[t] = NoSig
          PROVE  /\ pc'[t] \in {"signal", "wake", "nack"} /\ mode'[r].sync => t \in Connected(r)'
                 /\ AtWait(t)' /\ t \notin raced' => t \in Connected(r)'
      BY <3>1, <3>2, <3>3, <3>9 DEF CallerInv
    <3>10. ASSUME NEW s \in Sig, t \in Connected(s)'
           PROVE  tcs_sig[t] = NoSig /\ r = s /\ Waits(t)' /\ mode'[s].sync /\ Pending(thread[t], r)'
      BY <3>4, <3>10
    <3> QED BY <3>1, <3>5, <3>6, <3>7, <3>8, <3>9, <3>10 DEF CallerInv, Pending, Connected
  <2> QED BY <2>1, <2>2
(* The done-signal of a call concerns nobody but its caller.               *)
<1>AnnounceOthers.
  ASSUME TypeOK, NEW r \in RpcId, NEW s, Announce(r, s), NEW u \in Task, u \notin Connected(r)
  PROVE  /\ \A q \in Sig : u \in Connected(q)' <=> u \in Connected(q)
         /\ tcs_sig'[u] = tcs_sig[u] /\ raced \subseteq raced'
  <2> USE <1>AnnounceOthers
  <2>t. chain \in [Sig -> Seq(Connection)] /\ tcs_sig \in [Task -> Sig \cup {NoSig}] /\ r \in Sig
    BY RpcAssumption DEF TypeOK, SigTypeOK
  <2>1. CASE UNCHANGED <<sigVars, asleep, raced>>
    BY <2>1 DEF sigVars, Connected
  <2>2. CASE ~UNCHANGED <<sigVars, asleep, raced>>
    <3>1. /\ chain' = [chain EXCEPT ![r] = <<>>]
          /\ tcs_sig' = [t \in Task |-> IF t \in Connected(r) /\ tcs_sig[t] = NoSig /\ saved[t] # "moving"
                                        THEN s ELSE tcs_sig[t]]
          /\ raced \subseteq raced'
      BY <2>2 DEF Announce
    <3>2. tcs_sig'[u] = tcs_sig[u]
      BY <2>t, <3>1
    <3>3. chain'[r] = <<>> /\ \A q \in Sig : q # r => chain'[q] = chain[q]
      BY <2>t, <3>1
    <3>4. u \notin Connected(r)'
      BY <3>3, SMTT(60) DEF Connected
    <3>5. \A q \in Sig : q # r => (u \in Connected(q)' <=> u \in Connected(q))
      BY <3>3 DEF Connected
    <3> QED BY <3>1, <3>2, <3>4, <3>5
  <2> QED BY <2>1, <2>2
(* The caller of a call that is completed has the signal, unless it was    *)
(* moving its connections.                                                 *)
<1>CallerTold.
  ASSUME TypeOK, ControlInv, WhereInv, Effect, NEW t \in Task, CallerInv(t),
         NEW r \in RpcId, t \in Connected(r), NEW s \in {r, join_signal}, Completed(r, s),
         cur'[t] = cur[t], thread'[t] = thread[t],
         Waits(t)' <=> Waits(t), pc'[t] # "connect",
         pc'[t] \in {"signal", "wake", "nack"} => pc[t] \in {"signal", "wake", "nack"}
  PROVE  CallerInv(t)'
  <2> USE <1>CallerTold
  <2>t. chain \in [Sig -> Seq(Connection)] /\ tcs_sig \in [Task -> Sig \cup {NoSig}]
    BY DEF TypeOK, SigTypeOK
  <2>s. r \in Sig /\ s \in Sig /\ s # NoSig
    BY RpcAssumption, NoSigAssumption
  <2>1. cur[t] = r /\ tcs_sig[t] = NoSig /\ Waits(t) /\ mode[r].sync
    BY <2>s DEF CallerInv
  <2>2. Settled(r) /\ r # NoRpc
    BY <2>1, WaitsSettled, RpcAssumption DEF WhereInv
  <2>3. mode'[r] = mode[r]
    BY <2>2, SettledStep
  <2>4. /\ chain' = [chain EXCEPT ![r] = <<>>]
        /\ tcs_sig' = [u \in Task |-> IF u \in Connected(r) /\ tcs_sig[u] = NoSig /\ saved[u] # "moving"
                                      THEN s ELSE tcs_sig[u]]
        /\ raced' = raced \cup {u \in Connected(r) : saved[u] = "moving"}
    BY <2>1 DEF Completed, Announce
  <2>5. \A q \in Sig : t \notin Connected(q)'
    <3>1. chain'[r] = <<>> /\ \A q \in Sig : q # r => chain'[q] = chain[q]
      BY <2>4, <2>s, <2>t
    <3>2. t \notin Connected(r)'
      BY <3>1, SMTT(60) DEF Connected
    <3>3. \A q \in Sig : q # r => t \notin Connected(q)
      BY <2>1 DEF CallerInv
    <3>4. \A q \in Sig : q # r => t \notin Connected(q)'
      BY <3>1, <3>3 DEF Connected
    <3> QED BY <3>2, <3>4
  <2>6. thread[t] # t
    BY <2>1, <2>2 DEF CallerInv
  <2>7. (\A u \in Task : ~Pending(u, r)') /\ ((s = r /\ ran'[r] = 1) \/ (s = join_signal /\ r \in dropped'))
    BY DEF Completed
  <2>8. CASE saved[t] = "moving"
    <3>1. tcs_sig'[t] = NoSig /\ t \in raced' /\ pc[t] = "push"
      BY <2>1, <2>4, <2>8 DEF ControlInv, Control
    <3> QED BY <2>1, <2>3, <2>5, <2>6, <3>1 DEF CallerInv
  <2>9. CASE saved[t] # "moving"
    <3>1. tcs_sig'[t] = s
      BY <2>1, <2>4, <2>9
    <3> QED BY <2>1, <2>3, <2>5, <2>6, <2>7, <2>s, <3>1, SMTT(60) DEF CallerInv, Pending
  <2> QED BY <2>8, <2>9
(* Sending a done-signal keeps SigInv.                                     *)
<1>SigAnnounce.
  ASSUME TypeOK, ControlInv, WhereInv, Effect, SigInv, NEW t \in Task,
         NEW r \in RpcId, NEW s \in {r, join_signal}, Completed(r, s), UNCHANGED <<cur, thread>>,
         pc[t] \in RunPC \cup {"xloop"}, pc'[t] \notin {"connect", "signal", "wake", "nack", "wait"},
         ret'[t] = ret[t] \/ (ret[t] # "wait" /\ ret'[t] # "wait"),
         \A u \in Task : u # t => pc'[u] = pc[u] /\ ret'[u] = ret[u] /\ (pc[u] = "connect" => Locked(thread[u]))
  PROVE  SigInv'
  <2> USE <1>SigAnnounce
  <2>t. chain \in [Sig -> Seq(Connection)] /\ r \in Sig
    BY RpcAssumption DEF TypeOK, SigTypeOK
  <2>1. Announce(r, s)
    BY DEF Completed
  <2>2. \A q \in Sig : OncePerTask(chain'[q])
    <3>1. UNCHANGED chain \/ chain' = [chain EXCEPT ![r] = <<>>]
      BY <2>1 DEF Announce, sigVars
    <3>2. \A q \in Sig : chain'[q] = chain[q] \/ chain'[q] = <<>>
      BY <2>t, <3>1
    <3> QED BY <3>2, ConnsEmpty DEF SigInv
  <2>3. ASSUME NEW u \in Task
        PROVE  CallerInv(u)'
    <3>1. /\ Waits(u)' <=> Waits(u)
          /\ pc'[u] = "connect" => pc[u] = "connect" /\ Locked(thread[u])
          /\ pc'[u] \in {"signal", "wake", "nack"} => pc[u] \in {"signal", "wake", "nack"}
          /\ AtWait(u)' => AtWait(u)
      BY DEF Waits, AtWait, RunPC
    <3>2. CallerInv(u)
      BY DEF SigInv
    <3>3. CASE u \in Connected(r)
      <4>1. pc'[u] # "connect"
        <5>1. Waits(u)
          BY <2>t, <3>2, <3>3 DEF CallerInv
        <5> QED BY <3>1, <5>1 DEF Waits, ControlInv, Control, ServePC
      <4> QED BY <3>1, <3>2, <3>3, <4>1, <1>CallerTold
    <3>4. CASE u \notin Connected(r)
      <4>1. /\ \A q \in Sig : u \in Connected(q)' <=> u \in Connected(q)
            /\ tcs_sig'[u] = tcs_sig[u] /\ raced \subseteq raced'
        BY <2>1, <3>4, <1>AnnounceOthers
      <4> QED BY <3>1, <3>2, <4>1, <1>CallerKept
    <3> QED BY <3>3, <3>4
  <2> QED BY <2>2, <2>3 DEF SigInv
(* Everybody but t.                                                        *)
<1>OthersKept.
  ASSUME TypeOK, ControlInv, LockInv, WhereInv, Effect, SigInv, NEW t \in Task,
         NEW u \in Task, u # t, pc'[u] = pc[u], ret'[u] = ret[u], cur'[u] = cur[u], thread'[u] = thread[u],
         \A s \in Sig : u \in Connected(s)' <=> u \in Connected(s),
         tcs_sig'[u] = tcs_sig[u], UNCHANGED raced
  PROVE  CallerInv(u)'
  <2> USE <1>OthersKept
  <2>1. (Waits(u)' <=> Waits(u)) /\ (AtWait(u)' => AtWait(u))
    BY DEF Waits, AtWait
  <2>2. pc[u] = "connect" => Locked(thread[u])
    BY DEF LockInv, Holder
  <2>3. CallerInv(u)
    BY DEF SigInv
  <2> QED BY <2>1, <2>2, <2>3, <1>CallerKept
(* A thread that is not between rpc_alloc() and the end of its call.       *)
<1>CallerIdle.
  ASSUME NEW t \in Task, \A s \in Sig : t \notin Connected(s)', tcs_sig'[t] = NoSig,
         ~Waits(t)', pc'[t] # "connect",
         cur'[t] # NoRpc /\ thread'[t] = t => ~mode'[cur'[t]].sync
  PROVE  CallerInv(t)'
  <2> USE <1>CallerIdle
  <2>1. ~AtWait(t)' /\ pc'[t] \notin {"signal", "wake", "nack"}
    BY DEF Waits, AtWait
  <2> QED BY <2>1 DEF CallerInv
(* Steps that leave the signals alone.                                     *)
<1>SigQuiet.
  ASSUME TypeOK, ControlInv, LockInv, WhereInv, Effect, SigInv, NEW t \in Task,
         UNCHANGED <<chain, tcs_sig, cur, thread, raced>>,
         \A u \in Task : u # t => pc'[u] = pc[u] /\ ret'[u] = ret[u],
         Waits(t)' <=> Waits(t), pc'[t] # "connect",
         pc'[t] \in {"signal", "wake", "nack"} => pc[t] \in {"signal", "wake", "nack"},
         AtWait(t)' => AtWait(t) \/ (pc[t] \in {"signal", "wake", "nack"} /\ mode[cur[t]].sync)
  PROVE  SigInv'
  <2> USE <1>SigQuiet
  <2>1. \A s \in Sig : OncePerTask(chain'[s])
    BY DEF SigInv
  <2>2. \A u \in Task : \A s \in Sig : u \in Connected(s)' <=> u \in Connected(s)
    BY DEF Connected
  <2>3. CallerInv(t)'
    BY <2>2, <1>CallerKept DEF SigInv
  <2>4. ASSUME NEW u \in Task, u # t
        PROVE  CallerInv(u)'
    BY <2>2, <2>4, <1>OthersKept
  <2> QED BY <2>1, <2>3, <2>4 DEF SigInv
(* Steps after which t is not in task_queue_rpc(), or not past rpc_alloc(), *)
(* while it was not connected before.                                      *)
<1>SigIdle.
  ASSUME TypeOK, ControlInv, LockInv, WhereInv, Effect, SigInv, NEW t \in Task,
         UNCHANGED <<chain, tcs_sig, raced>>,
         \A u \in Task : u # t => pc'[u] = pc[u] /\ ret'[u] = ret[u] /\ cur'[u] = cur[u] /\ thread'[u] = thread[u],
         ~Waits(t) \/ ~mode[cur[t]].sync, ~Waits(t)', pc'[t] # "connect",
         cur'[t] # NoRpc /\ thread'[t] = t => ~mode'[cur'[t]].sync
  PROVE  SigInv'
  <2> USE <1>SigIdle
  <2>1. \A s \in Sig : OncePerTask(chain'[s])
    BY DEF SigInv
  <2>2. \A u \in Task : \A s \in Sig : u \in Connected(s)' <=> u \in Connected(s)
    BY DEF Connected
  <2>3. CallerInv(t)
    BY DEF SigInv
  <2>4. (\A s \in Sig : t \notin Connected(s)) /\ tcs_sig[t] = NoSig
    BY <2>3 DEF CallerInv
  <2>5. CallerInv(t)'
    BY <2>2, <2>4, <1>CallerIdle
  <2>6. ASSUME NEW u \in Task, u # t
        PROVE  CallerInv(u)'
    BY <2>2, <2>6, <1>OthersKept
  <2> QED BY <2>1, <2>5, <2>6 DEF SigInv
(* The call of t is over, and so are its connections.                      *)
<1>SigDisconnect.
  ASSUME TypeOK, ControlInv, LockInv, WhereInv, Effect, SigInv, NEW t \in Task,
         \A s \in Sig : chain'[s] = Unlink(chain[s], t),
         tcs_sig'[t] = NoSig, \A u \in Task : u # t => tcs_sig'[u] = tcs_sig[u],
         UNCHANGED raced, pc'[t] = "run", cur'[t] = NoRpc, ret'[t] # "wait",
         \A u \in Task : u # t => pc'[u] = pc[u] /\ ret'[u] = ret[u] /\ cur'[u] = cur[u] /\ thread'[u] = thread[u]
  PROVE  SigInv'
  <2> USE <1>SigDisconnect
  <2>t. chain \in [Sig -> Seq(Connection)] /\ tcs_sig \in [Task -> Sig \cup {NoSig}]
    BY DEF TypeOK, SigTypeOK
  <2>1. ASSUME NEW s \in Sig
        PROVE  /\ OncePerTask(chain'[s])
               /\ t \notin Connected(s)'
               /\ \A u \in Task : u # t => (u \in Connected(s)' <=> u \in Connected(s))
    <3>1. chain'[s] = Unlink(chain[s], t) /\ chain[s] \in Seq(Connection) /\ OncePerTask(chain[s])
      BY <2>t DEF SigInv
    <3>2. Conns(chain'[s]) = {c \in Conns(chain[s]) : c.task # t} /\ OncePerTask(chain'[s])
      BY <3>1, ConnsUnlink, SMTT(60)
    <3>3. Connected(s) = {c.task : c \in Conns(chain[s])} /\ Connected(s)' = {c.task : c \in Conns(chain'[s])}
      BY SMTT(60) DEF Connected, Conns
    <3> QED BY <3>2, <3>3
  <2>2. tcs_sig'[t] = NoSig /\ \A u \in Task : u # t => tcs_sig'[u] = tcs_sig[u]
    BY <2>t
  <2>3. ~Waits(t)'
    BY DEF Waits
  <2>4. CallerInv(t)'
    BY <2>1, <2>2, <2>3, <1>CallerIdle
  <2>5. ASSUME NEW u \in Task, u # t
        PROVE  CallerInv(u)'
    BY <2>1, <2>2, <2>5, <1>OthersKept
  <2> QED BY <2>1, <2>4, <2>5 DEF SigInv
(* The three places where a done-signal is sent.                           *)
<1>CompletedNow.
  ASSUME TypeOK, ControlInv, WhereInv, WhereInv', Effect, NEW t \in Task,
         CallbackDone(t) \/ ExitRun(t) \/ (ExitLoop(t) /\ ~UNCHANGED sigVars)
  PROVE  \E r \in RpcId : \E s \in {r, join_signal} : Completed(r, s)
  <2> USE <1>CompletedNow
  <2> HIDE DEF GoTo, Clear, Set, LeaveKernel
  <2>s. slot \in [Task -> RpcId \cup {NoRpc}] /\ NoRpc \notin RpcId /\ ran \in [RpcId -> Nat]
    BY RpcAssumption DEF TypeOK
  <2>v. PlaceInv /\ PlaceInv' /\ VecInv
    BY DEF WhereInv
  <2>1. CASE CallbackDone(t)
    <3>1. /\ pc[t] \in {"done", "thrown"} /\ slot' = [slot EXCEPT ![t] = NoRpc] /\ Announce(slot[t], slot[t])
          /\ UNCHANGED ran
      BY <2>1 DEF CallbackDone, Broadcast
    <3>2. PICK r \in RpcId : r = slot[t]
      BY <2>s, <3>1 DEF ControlInv, Control, RunPC
    <3>3. ran'[r] = 1
      BY <2>s, <2>v, <3>1, <3>2 DEF PlaceInv, CallAt, QueueAt, SlotAt
    <3>4. \A u \in Task : slot'[u] # r
      BY <2>s, <2>v, <3>1, <3>2, SMTT(60) DEF PlaceInv, CallAt, QueueAt, SlotAt
    <3>5. \A u \in Task : r \notin Queue'[u]
      BY <2>v, <3>3, SMTT(60) DEF PlaceInv, CallAt, QueueAt, SlotAt
    <3>6. Announce(r, r)
      BY <3>1, <3>2
    <3>7. Completed(r, r)
      BY <3>3, <3>4, <3>5, <3>6 DEF Completed, Pending
    <3> QED BY <3>7
  <2>2. CASE ExitRun(t)
    <3>1. /\ pc[t] = "xrun" /\ slot' = [slot EXCEPT ![t] = NoRpc] /\ Announce(slot[t], slot[t])
          /\ ran' = [ran EXCEPT ![slot[t]] = @ + 1]
      BY <2>2 DEF ExitRun, Broadcast
    <3>2. PICK r \in RpcId : r = slot[t]
      BY <2>s, <3>1 DEF ControlInv, Control, RunPC
    <3>3. ran'[r] = 1
      <4>1. ran[r] = 0
        BY <2>s, <2>v, <3>1, <3>2, SMTT(60) DEF PlaceInv, CallAt, QueueAt, SlotAt
      <4> QED BY <2>s, <3>1, <3>2, <4>1, SMTT(60)
    <3>4. \A u \in Task : slot'[u] # r
      BY <2>s, <2>v, <3>1, <3>2, SMTT(60) DEF PlaceInv, CallAt, QueueAt, SlotAt
    <3>5. \A u \in Task : r \notin Queue'[u]
      BY <2>v, <3>3, SMTT(60) DEF PlaceInv, CallAt, QueueAt, SlotAt
    <3>6. Announce(r, r)
      BY <3>1, <3>2
    <3>7. Completed(r, r)
      BY <3>3, <3>4, <3>5, <3>6 DEF Completed, Pending
    <3> QED BY <3>7
  <2>3. CASE ExitLoop(t) /\ ~UNCHANGED sigVars
    <3>1. i[t] # 0
      BY <2>3 DEF ControlInv, Control, ExitLoop
    <3>2. PICK r \in RpcId : Announce(r, join_signal) /\ dropped' = dropped \cup {r} /\ UNCHANGED <<slot, pc>>
      BY <2>3, <3>1, ExitLoopCases
    <3>3. r \in dropped'
      BY <3>2
    <3>4. \A u \in Task : slot'[u] # r
      BY <2>s, <2>v, <3>3, SMTT(60) DEF PlaceInv, CallAt, QueueAt, SlotAt
    <3>5. \A u \in Task : r \notin Queue'[u]
      BY <2>v, <3>3 DEF PlaceInv, CallAt, QueueAt, SlotAt
    <3>6. Completed(r, join_signal)
      BY <3>2, <3>3, <3>4, <3>5 DEF Completed, Pending
    <3> QED BY <3>6
  <2> QED BY <2>1, <2>2, <2>3
(* What CallerInv says of a thread that has not queued its call yet, and of *)
(* one that is about to connect.                                           *)
<1>CallerOut.
  ASSUME NEW t \in Task, CallerInv(t)
  PROVE  /\ ~Waits(t) => (\A s \in Sig : t \notin Connected(s)) /\ tcs_sig[t] = NoSig
         /\ pc[t] = "connect" => mode[cur[t]].sync /\ cur[t] \in Queue[thread[t]]
         /\ cur[t] # NoRpc /\ thread[t] = t => ~mode[cur[t]].sync
  BY <1>CallerOut DEF CallerInv
(* The tasks connected to a signal, by the connections of its chain.       *)
<1>ConnectedConns.
  ASSUME NEW s \in Sig
  PROVE  /\ Connected(s) = {d.task : d \in Conns(chain[s])}
         /\ Connected(s)' = {d.task : d \in Conns(chain'[s])}
  BY <1>ConnectedConns DEF Connected, Conns
(* task_queue_rpc() up to where it is connected keeps SigInv.              *)
<1>SigCall.
  ASSUME TypeOK, ControlInv, LockInv, WhereInv, WhereInv', Effect, SigInv, NEW t \in Task,
         \/ \E x \in Task, r \in RpcId, m \in Modes : QueueRpc(t, x, r, m)
         \/ RpcAlloc(t) \/ RpcGrow(t) \/ ConnectDone(t)
  PROVE  SigInv'
  <2> USE <1>SigCall
  <2> HIDE DEF GoTo, Set, Clear, Return
  <2>t. pc \in [Task -> PC] /\ cur \in [Task -> RpcId \cup {NoRpc}] /\ thread \in [Task -> Task]
    BY DEF TypeOK
  <2>m. mode \in [RpcId -> RpcModes \cup {NoRpc}] /\ NoRpc \notin RpcId
    BY RpcAssumption DEF TypeOK
  <2>g. chain \in [Sig -> Seq(Connection)] /\ RpcId \subseteq Sig
    BY RpcAssumption DEF TypeOK, SigTypeOK
  <2>0. CallerInv(t)
    BY DEF SigInv
  <2>1. ASSUME NEW x \in Task, NEW r \in RpcId, NEW m \in Modes, QueueRpc(t, x, r, m)
        PROVE  SigInv'
    <3>1. pc[t] = "run" /\ UNCHANGED <<chain, tcs_sig, raced, ret>>
      BY <2>1 DEF QueueRpc, sigVars
    <3>2. ret[t] # "wait" /\ cur[t] = NoRpc /\ ~Waits(t)
      BY <3>1 DEF ControlInv, Control, ServePC, CallPC, Waits
    <3>3. CASE UNCHANGED <<pc, cur, thread>>
      <4>1. ~Waits(t)' /\ pc'[t] # "connect"
        BY <3>1, <3>2, <3>3 DEF Waits
      <4> QED BY <3>1, <3>2, <3>3, <4>1, <1>SigIdle
    <3>4. CASE /\ cur' = [cur EXCEPT ![t] = r] /\ thread' = [thread EXCEPT ![t] = x] /\ GoTo(t, "lock")
               /\ mode' = [mode EXCEPT ![r] = IF x = t THEN [flag |-> "user", sync |-> FALSE] ELSE m]
      <4>1. /\ pc'[t] = "lock" /\ cur'[t] = r /\ thread'[t] = x
            /\ \A u \in Task : u # t => pc'[u] = pc[u] /\ ret'[u] = ret[u] /\ cur'[u] = cur[u] /\ thread'[u] = thread[u]
        BY <2>t, <3>1, <3>4 DEF GoTo
      <4>2. x = t => ~mode'[r].sync
        <5>1. ASSUME x = t PROVE mode'[r] = [flag |-> "user", sync |-> FALSE]
          BY <2>m, <3>4, <5>1
        <5> QED BY <5>1, SMTT(60)
      <4>3. ~Waits(t)'
        BY <3>1, <3>2, <4>1 DEF Waits
      <4> QED BY <3>1, <3>2, <4>1, <4>2, <4>3, <1>SigIdle
    <3> QED BY <2>1, <3>3, <3>4 DEF QueueRpc
  <2>2. ASSUME RpcAlloc(t) \/ RpcGrow(t)
        PROVE  /\ pc[t] \in {"lock", "grow"} /\ UNCHANGED <<chain, tcs_sig, raced, ret, thread, mode>>
               /\ cur[t] \in RpcId /\ cur[t] # NoRpc /\ ~Waits(t) /\ ret[t] # "wait"
               /\ thread[t] = t => ~mode[cur[t]].sync
               /\ (\A s \in Sig : t \notin Connected(s)) /\ tcs_sig[t] = NoSig
    <3>1. pc[t] \in {"lock", "grow"} /\ UNCHANGED <<chain, tcs_sig, raced, ret, thread, mode>>
      BY <2>2 DEF RpcAlloc, RpcGrow, sigVars, hist
    <3>2. cur[t] # NoRpc /\ ret[t] # "wait"
      BY <3>1 DEF ControlInv, Control, CallPC, ServePC
    <3>3. ~Waits(t) /\ cur[t] \in RpcId
      BY <2>t, <3>1, <3>2 DEF Waits
    <3> QED BY <2>0, <3>1, <3>2, <3>3, <1>CallerOut
  <2>3. ASSUME RpcAlloc(t) \/ RpcGrow(t), NEW b, Return(t, b)
        PROVE  SigInv'
    <3>1. /\ pc'[t] = "run" /\ cur'[t] = NoRpc
          /\ \A u \in Task : u # t => pc'[u] = pc[u] /\ cur'[u] = cur[u]
      BY <2>3, <2>t DEF Return, GoTo
    <3>2. ~Waits(t)'
      BY <2>2, <2>3, <3>1 DEF Waits
    <3> QED BY <2>2, <2>3, <3>1, <3>2, <1>SigIdle
  <2>4. ASSUME RpcAlloc(t) \/ RpcGrow(t), NEW l \in {"lock", "grow"}, GoTo(t, l), UNCHANGED cur
        PROVE  SigInv'
    <3>1. pc'[t] \in {"lock", "grow"} /\ \A u \in Task : u # t => pc'[u] = pc[u]
      BY <2>4, <2>t DEF GoTo
    <3>2. ~Waits(t)'
      BY <2>2, <2>4, <3>1 DEF Waits
    <3> QED BY <2>2, <2>4, <3>1, <3>2, <1>SigIdle
  <2>5. CASE RpcGrow(t)
    BY <2>3, <2>4, <2>5 DEF RpcGrow
  <2>6. CASE /\ RpcAlloc(t) /\ UNCHANGED cur
             /\ GoTo(t, IF mode[cur[t]].sync THEN "connect" ELSE "signal")
             /\ ri_vec' = [ri_vec EXCEPT ![thread[t]] = Append(@, cur[t])]
             /\ ~Terminating(thread[t])
    <3>1. /\ pc'[t] = IF mode[cur[t]].sync THEN "connect" ELSE "signal"
          /\ \A u \in Task : u # t => pc'[u] = pc[u]
      BY <2>6, <2>t DEF GoTo
    <3>2. /\ UNCHANGED <<chain, tcs_sig, raced, ret, thread, mode, cur>>
          /\ cur[t] \in RpcId /\ cur[t] # NoRpc /\ ~Waits(t) /\ ret[t] # "wait"
          /\ thread[t] = t => ~mode[cur[t]].sync
          /\ (\A s \in Sig : t \notin Connected(s)) /\ tcs_sig[t] = NoSig
          /\ UNCHANGED i
      BY <2>2, <2>6 DEF RpcAlloc, exec
    <3>3. \A u \in Task : \A s \in Sig : u \in Connected(s)' <=> u \in Connected(s)
      BY <3>2 DEF Connected
    <3>4. \A s \in Sig : OncePerTask(chain'[s])
      BY <3>2 DEF SigInv
    <3>5. ASSUME NEW u \in Task, u # t
          PROVE  CallerInv(u)'
      <4>1. /\ pc'[u] = pc[u] /\ ret'[u] = ret[u] /\ cur'[u] = cur[u] /\ thread'[u] = thread[u]
            /\ tcs_sig'[u] = tcs_sig[u] /\ UNCHANGED raced
        BY <3>1, <3>2, <3>5
      <4> QED BY <3>3, <3>5, <4>1, <1>OthersKept
    <3>6. cur[t] \in Queue'[thread[t]]
      <4>1. ri_vec[thread[t]] \in Seq(RpcId) /\ thread[t] \in Task /\ pc[thread[t]] \notin {"xloop", "xrun"}
        BY <2>6, <2>t, QueueType DEF LockInv, Terminating, ExitPC
      <4>2. ri_vec'[thread[t]] = Append(ri_vec[thread[t]], cur[t])
        BY <2>6, <4>1 DEF TypeOK
      <4>3. /\ Len(ri_vec[thread[t]]) + 1 \in DOMAIN ri_vec'[thread[t]]
            /\ ri_vec'[thread[t]][Len(ri_vec[thread[t]]) + 1] = cur[t]
        BY <3>2, <4>1, <4>2, SMTT(60)
      <4>4. pc'[thread[t]] \notin {"xloop", "xrun"}
        BY <3>1, <4>1
      <4>5. Len(ri_vec[thread[t]]) + 1 \in {k \in DOMAIN ri_vec'[thread[t]] : pc'[thread[t]] \in {"xloop", "xrun"} => k >= i'[thread[t]]}
        BY <4>3, <4>4
      <4>6. Queue'[thread[t]] = {ri_vec'[thread[t]][k] : k \in {k \in DOMAIN ri_vec'[thread[t]] : pc'[thread[t]] \in {"xloop", "xrun"} => k >= i'[thread[t]]}}
        BY <4>1 DEF Queue, Ready
      <4> QED BY <4>3, <4>5, <4>6
    <3>7. CallerInv(t)'
      <4>1. mode'[cur'[t]] = mode[cur[t]] /\ thread'[t] = thread[t] /\ cur'[t] = cur[t]
        BY <3>2
      <4>2. ~AtWait(t)' /\ tcs_sig'[t] = NoSig /\ (\A s \in Sig : t \notin Connected(s)')
        BY <3>1, <3>2, <3>3 DEF AtWait
      <4>4. (pc'[t] = "connect" /\ mode[cur[t]].sync) \/ (pc'[t] = "signal" /\ ~mode[cur[t]].sync)
        BY <3>1
      <4> QED BY <3>2, <3>6, <4>1, <4>2, <4>4 DEF CallerInv
    <3> QED BY <3>4, <3>5, <3>7 DEF SigInv
  <2>7. CASE RpcAlloc(t)
    <3>1. CASE Return(t, "false")
      BY <2>3, <2>7, <3>1
    <3>2. CASE GoTo(t, "grow") /\ UNCHANGED cur
      BY <2>4, <2>7, <3>2
    <3>3. CASE /\ UNCHANGED cur
               /\ GoTo(t, IF mode[cur[t]].sync THEN "connect" ELSE "signal")
               /\ ri_vec' = [ri_vec EXCEPT ![thread[t]] = Append(@, cur[t])]
               /\ ~Terminating(thread[t])
      BY <2>6, <2>7, <3>3
    <3> QED BY <2>7, <3>1, <3>2, <3>3 DEF RpcAlloc
  <2>8. CASE ConnectDone(t)
    <3>1. /\ pc[t] = "connect" /\ GoTo(t, "signal") /\ UNCHANGED <<tcs_sig, saved, mode, cur, thread, ret, raced>>
          /\ Connect(t, cur[t], FALSE) /\ UNCHANGED <<ri_vec, i, slot, ran, dropped>>
      BY <2>8 DEF ConnectDone, Connect, call, hist, info, exec
    <3>2. cur[t] \in RpcId /\ ret[t] # "wait" /\ ~Waits(t) /\ cur[t] # NoRpc /\ cur[t] \in Sig
      BY <2>g, <2>t, <3>1 DEF ControlInv, Control, CallPC, ServePC, Waits
    <3>3. (\A s \in Sig : t \notin Connected(s)) /\ tcs_sig[t] = NoSig
      BY <2>0, <3>2, <1>CallerOut
    <3>4. pc'[t] = "signal" /\ \A u \in Task : u # t => pc'[u] = pc[u]
      BY <2>t, <3>1 DEF GoTo
    <3>r. PICK r \in RpcId : r = cur[t] /\ r \in Sig
      BY <3>2
    <3> DEFINE c == [task |-> t, ghost |-> FALSE]
    <3>5. chain' = [chain EXCEPT ![r] = Append(@, c)] /\ c \in Connection
      BY <3>r, <3>1, <3>3 DEF Connect, Connection
    <3>6. \A d \in Conns(chain[r]) : d.task # c.task
      BY <3>r, <3>3 DEF Conns, Connected
    <3>c. c.task = t
      OBVIOUS
    <3> HIDE DEF c
    <3>7. chain'[r] = Append(chain[r], c) /\ \A s \in Sig : s # r => chain'[s] = chain[s]
      BY <2>g, <3>r, <3>5
    <3>8. Conns(chain'[r]) = Conns(chain[r]) \cup {c} /\ OncePerTask(chain'[r])
      <4>1. chain[r] \in Seq(Connection) /\ OncePerTask(chain[r])
        BY <2>g, <3>r DEF SigInv
      <4> QED BY <3>5, <3>6, <3>7, <4>1, ConnsAppend
    <3>9. Connected(r) = {d.task : d \in Conns(chain[r])} /\ Connected(r)' = {d.task : d \in Conns(chain'[r])}
      BY <3>r, <1>ConnectedConns
    <3>10. Connected(r)' = Connected(r) \cup {t}
      BY <3>8, <3>9, <3>c
    <3>11. ASSUME NEW s \in Sig PROVE OncePerTask(chain'[s])
      <4>1. OncePerTask(chain[s])
        BY DEF SigInv
      <4>2. CASE s = r
        BY <3>8, <4>2
      <4>3. CASE s # r
        BY <3>7, <4>1, <4>3
      <4> QED BY <4>2, <4>3
    <3>12. \A s \in Sig : s # r => Connected(s)' = Connected(s)
      BY <3>7 DEF Connected
    <3>13. ASSUME NEW u \in Task, u # t
           PROVE  CallerInv(u)'
      <4>1. \A s \in Sig : u \in Connected(s)' <=> u \in Connected(s)
        <5>1. u \in Connected(r)' <=> u \in Connected(r)
          BY <3>10, <3>13
        <5> QED BY <3>12, <5>1
      <4>2. /\ pc'[u] = pc[u] /\ ret'[u] = ret[u] /\ cur'[u] = cur[u] /\ thread'[u] = thread[u]
            /\ tcs_sig'[u] = tcs_sig[u] /\ UNCHANGED raced
        BY <3>1, <3>4, <3>13
      <4> QED BY <3>13, <4>1, <4>2, <1>OthersKept
    <3>14. CallerInv(t)'
      <4>1. mode[r].sync /\ r \in Queue[thread[t]]
        BY <2>0, <3>1, <3>r, <1>CallerOut
      <4>2. Queue' = Queue
        BY <3>1, <3>4, QueueSame
      <4>3. thread[t] # t
        BY <2>0, <3>2, <3>r, <4>1, <1>CallerOut
      <4>4. Waits(t)' /\ ~AtWait(t)'
        BY <3>1, <3>2, <3>4 DEF Waits, AtWait
      <4>5. Pending(thread[t], r)'
        BY <3>1, <4>1, <4>2 DEF Pending
      <4>6. \A s \in Sig : t \in Connected(s)' => s = r
        BY <3>3, <3>12
      <4>7. mode' = mode /\ cur'[t] = r /\ thread'[t] = thread[t] /\ tcs_sig'[t] = NoSig /\ pc'[t] = "signal"
        BY <3>1, <3>3, <3>4, <3>r
      <4>8. t \in Connected(r)'
        BY <3>10
      <4> QED BY <4>1, <4>3, <4>4, <4>5, <4>6, <4>7, <4>8 DEF CallerInv
    <3> QED BY <3>11, <3>13, <3>14 DEF SigInv
  <2> QED BY <2>1, <2>5, <2>7, <2>8
(* Steps outside of task_queue_rpc(), or of its wait for the done-signal.  *)
<1>SigMoved.
  ASSUME TypeOK, ControlInv, LockInv, WhereInv, Effect, SigInv, NEW t \in Task,
         UNCHANGED <<chain, tcs_sig, cur, thread, raced>>,
         \A u \in Task : u # t => pc'[u] = pc[u] /\ ret'[u] = ret[u],
         pc[t] \notin {"connect", "signal", "wake", "nack"}, pc'[t] \notin {"connect", "signal", "wake", "nack"},
         AtWait(t)' <=> AtWait(t)
  PROVE  SigInv'
  <2> USE <1>SigMoved
  <2>1. Waits(t)' <=> Waits(t)
    BY DEF Waits, AtWait
  <2> QED BY <2>1, <1>SigQuiet
(* The steps of a thread that runs or exits.                               *)
<1>SigRun.
  ASSUME TypeOK, ControlInv, LockInv, WhereInv, Effect, SigInv, NEW t \in Task,
         \/ \E timer \in BOOLEAN : ReturnToUser(t, timer)
         \/ Sleep(t) \/ Resume(t) \/ SetNosignals(t) \/ ClearNosignals(t)
         \/ NothrowServe(t) \/ NothrowEnd(t) \/ Exit(t) \/ ExitLock(t) \/ ExitEnd(t)
  PROVE  SigInv'
  <2> USE <1>SigRun
  <2> HIDE DEF GoTo, Set, Clear
  <2>t. pc \in [Task -> PC] /\ ret \in [Task -> PC \cup {"timer"}]
    BY DEF TypeOK
  <2>0. pc[t] = "run" => ret[t] = "run"
    BY DEF ControlInv, Control, ServePC
  <2>1. ASSUME pc[t] \in {"run", "wait"}, UNCHANGED <<chain, tcs_sig, cur, thread, raced, pc, ret>>
        PROVE  SigInv'
    BY <2>1, <1>SigMoved DEF AtWait
  <2>2. ASSUME NEW l \in {"run", "cleared", "xlock", "xloop", "dead", "user"}, GoTo(t, l),
               pc[t] \in {"run", "xlock", "xend"}, UNCHANGED <<chain, tcs_sig, cur, thread, raced>>,
               UNCHANGED ret \/ ret' = [ret EXCEPT ![t] = "timer"] \/ ret' = [ret EXCEPT ![t] = "user"]
        PROVE  SigInv'
    <3>1. pc'[t] = l /\ \A u \in Task : u # t => pc'[u] = pc[u] /\ ret'[u] = ret[u]
      BY <2>2, <2>t DEF GoTo
    <3>2. ret'[t] = ret[t] \/ ret'[t] \in {"timer", "user"}
      BY <2>2, <2>t
    <3>3. ret[t] # "wait"
      BY <2>2 DEF ControlInv, Control, ServePC
    <3> QED BY <2>2, <3>1, <3>2, <3>3, <1>SigMoved DEF AtWait
  <2>3. ASSUME NEW timer \in BOOLEAN, ReturnToUser(t, timer) PROVE SigInv'
    <3>1. pc[t] = "run" /\ GoTo(t, "user") /\ UNCHANGED <<chain, tcs_sig, cur, thread, raced>>
      BY <2>3 DEF ReturnToUser, sigVars, call, hist
    <3>2. ret' = [ret EXCEPT ![t] = "timer"] \/ ret' = [ret EXCEPT ![t] = "user"]
      <4>1. CASE timer
        BY <2>3, <4>1 DEF ReturnToUser
      <4>2. CASE ~timer
        BY <2>3, <4>2 DEF ReturnToUser
      <4> QED BY <4>1, <4>2
    <3> QED BY <2>2, <3>1, <3>2
  <2>4. CASE Sleep(t)
    BY <2>1, <2>4 DEF Sleep, sigVars, call, hist
  <2>5. CASE Resume(t)
    BY <2>1, <2>5 DEF Resume, sigVars, call, hist
  <2>6. CASE SetNosignals(t)
    BY <2>1, <2>6 DEF SetNosignals, sigVars, call, hist
  <2>7. CASE ClearNosignals(t)
    <3>1. GoTo(t, "run") \/ GoTo(t, "cleared")
      BY <2>7 DEF ClearNosignals
    <3>2. pc[t] = "run" /\ UNCHANGED <<chain, tcs_sig, cur, thread, raced, ret>>
      BY <2>7 DEF ClearNosignals, sigVars, call, hist
    <3> QED BY <2>2, <3>1, <3>2
  <2>8. CASE NothrowServe(t)
    BY <2>1, <2>8 DEF NothrowServe, sigVars, call, hist
  <2>9. CASE NothrowEnd(t)
    BY <2>1, <2>9 DEF NothrowEnd, sigVars, call, hist
  <2>10. CASE Exit(t)
    BY <2>2, <2>10 DEF Exit, sigVars, call, hist
  <2>11. CASE ExitLock(t)
    BY <2>2, <2>11 DEF ExitLock, sigVars, call, hist
  <2>12. CASE ExitEnd(t)
    BY <2>2, <2>12 DEF ExitEnd, sigVars, call, hist
  <2> QED BY <2>3, <2>4, <2>5, <2>6, <2>7, <2>8, <2>9, <2>10, <2>11, <2>12
(* The rest of task_queue_rpc().                                           *)
<1>SigQueued.
  ASSUME TypeOK, ControlInv, LockInv, WhereInv, Effect, SigInv, NEW t \in Task,
         SignalInterrupt(t) \/ WakeTarget(t) \/ Nack(t) \/ WaitDone(t) \/ ServeUnwind(t)
  PROVE  SigInv'
  <2> USE <1>SigQueued
  <2> HIDE DEF GoTo, Set, Clear, Return
  <2>t. pc \in [Task -> PC] /\ cur \in [Task -> RpcId \cup {NoRpc}] /\ thread \in [Task -> Task]
    BY DEF TypeOK
  <2>r. ret \in [Task -> PC \cup {"timer"}]
    BY DEF TypeOK
  <2>s. tcs_sig \in [Task -> Sig \cup {NoSig}]
    BY DEF TypeOK, SigTypeOK
  <2>0. pc[t] \in CallPC => ret[t] # "wait" /\ cur[t] # NoRpc
    BY DEF ControlInv, Control, CallPC, ServePC
  <2>1. ASSUME pc[t] \in {"signal", "wake"}, UNCHANGED <<chain, tcs_sig, thread, raced, ret>>,
               NEW l \in {"wake", "nack", "wait"}, GoTo(t, l), UNCHANGED cur, l = "wait" => mode[cur[t]].sync
        PROVE  SigInv'
    <3>1. pc'[t] = l /\ \A u \in Task : u # t => pc'[u] = pc[u] /\ ret'[u] = ret[u]
      BY <2>1, <2>t DEF GoTo
    <3>2. Waits(t) /\ Waits(t)' /\ ~AtWait(t)
      BY <2>0, <2>1, <3>1 DEF Waits, AtWait, CallPC
    <3>3. AtWait(t)' => mode[cur[t]].sync
      BY <2>0, <2>1, <3>1 DEF AtWait, CallPC
    <3> QED BY <2>1, <3>1, <3>2, <3>3, <1>SigQuiet
  <2>2. ASSUME pc[t] \in {"signal", "wake"}, UNCHANGED <<chain, tcs_sig, thread, raced, ret>>,
               NEW b, Return(t, b), ~mode[cur[t]].sync
        PROVE  SigInv'
    <3>1. pc'[t] = "run" /\ cur'[t] = NoRpc
      BY <2>2, <2>t DEF Return, GoTo
    <3>2. \A u \in Task : u # t => pc'[u] = pc[u] /\ ret'[u] = ret[u] /\ cur'[u] = cur[u] /\ thread'[u] = thread[u]
      BY <2>2, <2>t DEF Return, GoTo
    <3>3. ~Waits(t)'
      BY <2>0, <2>2, <3>1 DEF Waits, CallPC
    <3> QED BY <2>2, <3>1, <3>2, <3>3, <1>SigIdle
  <2>3. ASSUME pc[t] \in {"signal", "wake"}, UNCHANGED <<chain, tcs_sig, thread, raced, ret>>, Queued(t)
        PROVE  SigInv'
    <3>1. CASE mode[cur[t]].sync
      BY <2>1, <2>3, <3>1 DEF Queued
    <3>2. CASE ~mode[cur[t]].sync
      BY <2>2, <2>3, <3>2 DEF Queued
    <3> QED BY <3>1, <3>2
  <2>4. CASE SignalInterrupt(t)
    <3>1. pc[t] \in {"signal", "wake"} /\ UNCHANGED <<chain, tcs_sig, thread, raced, ret>>
      BY <2>4 DEF SignalInterrupt, sigVars, hist
    <3>2. \/ GoTo(t, "nack") /\ UNCHANGED cur
          \/ thread[t] = t /\ Return(t, "throw")
          \/ Queued(t)
          \/ GoTo(t, "wake") /\ UNCHANGED cur
      BY <2>4 DEF SignalInterrupt
    <3>3. thread[t] = t => ~mode[cur[t]].sync
      BY <2>0, <3>1, <1>CallerOut DEF SigInv, CallPC
    <3>4. CASE GoTo(t, "nack") /\ UNCHANGED cur
      BY <2>1, <3>1, <3>4
    <3>5. CASE thread[t] = t /\ Return(t, "throw")
      BY <2>2, <3>1, <3>3, <3>5
    <3>6. CASE Queued(t)
      BY <2>3, <3>1, <3>6
    <3>7. CASE GoTo(t, "wake") /\ UNCHANGED cur
      BY <2>1, <3>1, <3>7
    <3> QED BY <3>2, <3>4, <3>5, <3>6, <3>7
  <2>5. CASE WakeTarget(t)
    <3>1. pc[t] \in {"signal", "wake"} /\ UNCHANGED <<chain, tcs_sig, thread, raced, ret>>
      BY <2>5 DEF WakeTarget, sigVars, hist
    <3>2. (GoTo(t, "nack") /\ UNCHANGED cur) \/ Queued(t)
      BY <2>5 DEF WakeTarget
    <3>3. CASE GoTo(t, "nack") /\ UNCHANGED cur
      BY <2>1, <3>1, <3>3
    <3>4. CASE Queued(t)
      BY <2>3, <3>1, <3>4
    <3> QED BY <3>2, <3>3, <3>4
  <2>6. ASSUME pc[t] \in {"nack", "wait"}, Disconnect(t), UNCHANGED <<thread, ret, raced>>, NEW b, Return(t, b)
        PROVE  SigInv'
    <3>1. pc'[t] = "run" /\ cur'[t] = NoRpc
      BY <2>6, <2>t DEF Return, GoTo
    <3>2. \A u \in Task : u # t => pc'[u] = pc[u] /\ ret'[u] = ret[u] /\ cur'[u] = cur[u] /\ thread'[u] = thread[u]
      BY <2>6, <2>t DEF Return, GoTo
    <3>3. ret'[t] # "wait"
      BY <2>0, <2>6 DEF CallPC
    <3>4. /\ \A s \in Sig : chain'[s] = Unlink(chain[s], t)
          /\ tcs_sig'[t] = NoSig /\ \A u \in Task : u # t => tcs_sig'[u] = tcs_sig[u]
      BY <2>6, <2>s DEF Disconnect
    <3> QED BY <2>6, <3>1, <3>2, <3>3, <3>4, <1>SigDisconnect
  <2>7. CASE Nack(t)
    BY <2>6, <2>7 DEF Nack, hist
  <2>8. CASE WaitDone(t)
    BY <2>6, <2>8 DEF WaitDone, hist
  <2>9. CASE ServeUnwind(t)
    <3>1. UNCHANGED <<thread, raced>> /\ ret' = [ret EXCEPT ![t] = "run"]
      BY <2>9 DEF ServeUnwind, hist
    <3>4. /\ \A s \in Sig : chain'[s] = Unlink(chain[s], t)
          /\ tcs_sig'[t] = NoSig /\ \A u \in Task : u # t => tcs_sig'[u] = tcs_sig[u]
      BY <2>9, <2>s DEF ServeUnwind
    <3>2. pc'[t] = "run" /\ cur'[t] = NoRpc /\ \A u \in Task : u # t => pc'[u] = pc[u] /\ cur'[u] = cur[u]
      <4>1. CASE Return(t, "throw")
        BY <2>t, <4>1 DEF Return, GoTo
      <4>2. CASE GoTo(t, "run") /\ UNCHANGED cur /\ cur[t] = NoRpc
        BY <2>t, <4>2 DEF GoTo
      <4> QED BY <2>9, <4>1, <4>2 DEF ServeUnwind
    <3>3. ret'[t] = "run" /\ \A u \in Task : u # t => ret'[u] = ret[u] /\ thread'[u] = thread[u]
      BY <2>r, <3>1
    <3> QED BY <3>1, <3>2, <3>3, <3>4, <1>SigDisconnect
  <2> QED BY <2>4, <2>5, <2>7, <2>8, <2>9
(* The steps of task_serve() and its callers, and of the loop of           *)
(* task_serve_before_exit(), that send nothing.                            *)
<1>SigServe.
  ASSUME TypeOK, ControlInv, LockInv, WhereInv, Effect, SigInv, NEW t \in Task,
         \/ ServeBegin(t) \/ ServePush(t) \/ ServeTake(t) \/ UserTake(t) \/ Callback(t) \/ ServePop(t)
         \/ ExitLoop(t) /\ UNCHANGED sigVars
  PROVE  SigInv'
  <2> USE <1>SigServe
  <2> HIDE DEF GoTo, Set, Clear, LeaveKernel
  <2>t. pc \in [Task -> PC] /\ ret \in [Task -> PC \cup {"timer"}]
    BY DEF TypeOK
  <2>c. pc[t] = "push" => ret[t] = "wait"
    BY DEF ControlInv, Control
  <2>1. ASSUME pc[t] \in {"serve", "user", "rpc", "xloop", "push"}, UNCHANGED <<chain, tcs_sig, cur, thread, raced>>,
               NEW l \in {"pop", "rpc", "unwind", "done", "thrown", "run", "xend", "xrun", "serve", "xloop"}, GoTo(t, l),
               UNCHANGED ret
        PROVE  SigInv'
    <3>1. pc'[t] = l /\ \A u \in Task : u # t => pc'[u] = pc[u] /\ ret'[u] = ret[u]
      BY <2>1, <2>t DEF GoTo
    <3>2. AtWait(t)' <=> AtWait(t)
      BY <2>1, <3>1 DEF AtWait
    <3> QED BY <2>1, <3>1, <3>2, <1>SigMoved
  <2>2. CASE ServeBegin(t)
    <3>1. UNCHANGED <<chain, tcs_sig, cur, thread, raced>>
      BY <2>2 DEF ServeBegin, call, hist, RelocateConnections
    <3>2. ret' = [ret EXCEPT ![t] = IF pc[t] = "cleared" THEN "run" ELSE pc[t]] /\ pc[t] \in {"run", "cleared", "wait", "lock", "grow"}
      BY <2>2 DEF ServeBegin
    <3>3. (pc[t] = "wait" /\ GoTo(t, "push")) \/ (pc[t] # "wait" /\ GoTo(t, "serve"))
      BY <2>2 DEF ServeBegin
    <3>4. ret'[t] = IF pc[t] = "cleared" THEN "run" ELSE pc[t]
      BY <2>t, <3>2
    <3>5. \A u \in Task : u # t => pc'[u] = pc[u] /\ ret'[u] = ret[u]
      BY <2>t, <3>2, <3>3 DEF GoTo
    <3>6. pc'[t] \in {"push", "serve"}
      BY <2>t, <3>3 DEF GoTo
    <3>7. ret[t] # "wait"
      BY <3>2 DEF ControlInv, Control, ServePC
    <3>8. AtWait(t)' <=> AtWait(t)
      BY <3>2, <3>4, <3>6, <3>7, SMTT(60) DEF AtWait
    <3> QED BY <3>1, <3>2, <3>5, <3>6, <3>8, <1>SigMoved
  <2>3. CASE ServePush(t)
    BY <2>1, <2>3 DEF ServePush, CopySignal, call, hist
  <2>4. CASE ServeTake(t)
    <3>1. pc[t] = "serve" /\ UNCHANGED <<chain, tcs_sig, cur, thread, raced, ret>>
      BY <2>4, TakeFrame DEF sigVars, call, hist
    <3>2. GoTo(t, "pop") \/ GoTo(t, "rpc") \/ GoTo(t, "unwind")
      BY <2>4, TakeFrame
    <3> QED BY <2>1, <3>1, <3>2
  <2>5. CASE UserTake(t)
    <3>1. pc[t] = "user" /\ UNCHANGED <<chain, tcs_sig, cur, thread, raced>>
      BY <2>5, UserFrame DEF sigVars, call, hist
    <3>2. LeaveKernel(t) \/ (GoTo(t, "rpc") /\ UNCHANGED ret)
      BY <2>5, UserFrame
    <3>3. CASE LeaveKernel(t)
      <4>1. pc'[t] = "run" /\ ret'[t] = "run" /\ \A u \in Task : u # t => pc'[u] = pc[u] /\ ret'[u] = ret[u]
        BY <2>t, <3>3 DEF LeaveKernel, GoTo
      <4>2. ret[t] # "wait"
        BY <3>1 DEF ControlInv, Control
      <4>3. AtWait(t)' <=> AtWait(t)
        BY <3>1, <4>1, <4>2 DEF AtWait
      <4> QED BY <3>1, <4>1, <4>3, <1>SigMoved
    <3>4. CASE GoTo(t, "rpc") /\ UNCHANGED ret
      BY <2>1, <3>1, <3>4
    <3> QED BY <3>2, <3>3, <3>4
  <2>6. CASE Callback(t)
    <3>1. pc[t] = "rpc" /\ UNCHANGED <<chain, tcs_sig, cur, thread, raced, ret>>
      BY <2>6 DEF Callback, sigVars, call
    <3>2. GoTo(t, "done") \/ GoTo(t, "thrown")
      BY <2>6 DEF Callback
    <3> QED BY <2>1, <3>1, <3>2
  <2>7. CASE ServePop(t)
    <3>1. /\ pc[t] = "pop" /\ UNCHANGED <<chain, tcs_sig, cur, thread, raced>>
          /\ GoTo(t, ret[t]) /\ ret' = [ret EXCEPT ![t] = "run"]
      BY <2>7 DEF ServePop, PopConnections, call, hist
    <3>2. pc'[t] = ret[t] /\ ret'[t] = "run" /\ \A u \in Task : u # t => pc'[u] = pc[u] /\ ret'[u] = ret[u]
      BY <2>t, <3>1 DEF GoTo
    <3>3. ret[t] \in {"run", "lock", "grow", "wait", "user", "timer"}
      BY DEF ControlInv, Control
    <3>4. AtWait(t)' <=> AtWait(t)
      BY <3>1, <3>2 DEF AtWait
    <3> QED BY <3>1, <3>2, <3>3, <3>4, <1>SigMoved
  <2>8. CASE ExitLoop(t) /\ UNCHANGED sigVars
    <3>1. pc[t] = "xloop" /\ UNCHANGED <<chain, tcs_sig, cur, thread, ret>>
      BY <2>8, ExitFrame DEF sigVars, call
    <3>2. i[t] # 0
      BY <3>1 DEF ControlInv, Control
    <3>3. UNCHANGED raced \/ \E r \in RpcId : Announce(r, join_signal)
      BY <2>8, <3>2, ExitLoopCases
    <3>4. raced' = raced
      <4>1. ASSUME NEW r \in RpcId, Announce(r, join_signal)
            PROVE  raced' = raced
        <5>1. CASE mode[r].sync /\ Connected(r) # {}
          <6>1. chain' = [chain EXCEPT ![r] = <<>>] /\ r \in Sig
            BY <4>1, <5>1, RpcAssumption DEF Announce
          <6>2. chain[r] = <<>>
            BY <3>1, <6>1 DEF TypeOK, SigTypeOK
          <6> QED BY <5>1, <6>2, SMTT(60) DEF Connected
        <5>2. CASE ~(mode[r].sync /\ Connected(r) # {})
          BY <4>1, <5>2 DEF Announce
        <5> QED BY <5>1, <5>2
      <4> QED BY <3>3, <4>1
    <3>5. UNCHANGED pc \/ GoTo(t, "xend") \/ GoTo(t, "xrun")
      BY <2>8, ExitFrame
    <3>6. CASE UNCHANGED pc
      BY <3>1, <3>4, <3>6, <1>SigMoved DEF AtWait
    <3> QED BY <2>1, <3>1, <3>4, <3>5, <3>6
  <2> QED BY <2>2, <2>3, <2>4, <2>5, <2>6, <2>7, <2>8
<1> SUFFICES ASSUME TypeOK, ControlInv, LockInv, WhereInv, WhereInv', SigInv, [Next]_vars
             PROVE  SigInv'
  BY SMTT(60)
<1> HIDE DEF GoTo, Set, Clear, LeaveKernel
<1>e. Effect
  BY EffectStep
<1>t. pc \in [Task -> PC] /\ ret \in [Task -> PC \cup {"timer"}]
  BY DEF TypeOK
<1>1. CASE Frozen
  <2>1. UNCHANGED <<chain, tcs_sig, raced, pc, ret, cur, thread>>
    BY <1>1 DEF Frozen, sigVars, call, hist
  <2>2. \A u \in Task : \A s \in Sig : u \in Connected(s)' <=> u \in Connected(s)
    BY <2>1 DEF Connected
  <2>3. ASSUME NEW u \in Task PROVE CallerInv(u)'
    <3>1. (Waits(u)' <=> Waits(u)) /\ (AtWait(u)' => AtWait(u))
      BY <2>1 DEF Waits, AtWait
    <3>2. pc[u] = "connect" => Locked(thread[u])
      BY DEF LockInv, Holder
    <3>3. CallerInv(u)
      BY DEF SigInv
    <3> QED BY <1>e, <2>1, <2>2, <3>1, <3>2, <3>3, <1>CallerKept
  <2>4. \A s \in Sig : OncePerTask(chain'[s])
    BY <2>1 DEF SigInv
  <2> QED BY <2>3, <2>4 DEF SigInv
<1>2. ASSUME NEW t \in Task, CallbackDone(t) \/ ExitRun(t) \/ (ExitLoop(t) /\ ~UNCHANGED sigVars)
      PROVE  SigInv'
  <2>1. PICK r \in RpcId : \E s \in {r, join_signal} : Completed(r, s)
    BY <1>2, <1>e, <1>CompletedNow
  <2>2. PICK s \in {r, join_signal} : Completed(r, s)
    BY <2>1
  <2>3. \A u \in Task : pc[u] = "connect" => Locked(thread[u])
    BY DEF LockInv, Holder
  <2>4. CASE CallbackDone(t)
    <3>1. pc[t] \in {"done", "thrown"} /\ UNCHANGED <<cur, thread>>
      BY <2>4 DEF CallbackDone, call
    <3>2. ((GoTo(t, "user") \/ GoTo(t, "serve") \/ GoTo(t, "pop") \/ GoTo(t, "unwind")) /\ UNCHANGED ret)
          \/ (InUser(t) /\ LeaveKernel(t))
      BY <2>4 DEF CallbackDone
    <3>3. CASE (GoTo(t, "user") \/ GoTo(t, "serve") \/ GoTo(t, "pop") \/ GoTo(t, "unwind")) /\ UNCHANGED ret
      <4>1. pc'[t] \in {"user", "serve", "pop", "unwind"} /\ \A u \in Task : u # t => pc'[u] = pc[u] /\ ret'[u] = ret[u]
        BY <1>t, <3>3 DEF GoTo
      <4>2. pc[t] \in RunPC \cup {"xloop"}
        BY <3>1 DEF RunPC
      <4> QED BY <1>e, <2>2, <2>3, <3>1, <3>3, <4>1, <4>2, <1>SigAnnounce
    <3>4. CASE InUser(t) /\ LeaveKernel(t)
      <4>1. pc'[t] = "run" /\ ret'[t] = "run" /\ \A u \in Task : u # t => pc'[u] = pc[u] /\ ret'[u] = ret[u]
        BY <1>t, <3>4 DEF GoTo, LeaveKernel
      <4>2. pc[t] \in RunPC \cup {"xloop"} /\ ret[t] # "wait"
        BY <3>1, <3>4 DEF RunPC, InUser
      <4> QED BY <1>e, <2>2, <2>3, <3>1, <4>1, <4>2, <1>SigAnnounce
    <3> QED BY <3>2, <3>3, <3>4
  <2>5. CASE ExitRun(t)
    <3>1. pc[t] = "xrun" /\ UNCHANGED <<cur, thread, ret>> /\ GoTo(t, "xloop")
      BY <2>5 DEF ExitRun, call
    <3>2. pc'[t] = "xloop" /\ \A u \in Task : u # t => pc'[u] = pc[u] /\ ret'[u] = ret[u]
      BY <1>t, <3>1 DEF GoTo
    <3>3. pc[t] \in RunPC \cup {"xloop"}
      BY <3>1 DEF RunPC
    <3> QED BY <1>e, <2>2, <2>3, <3>1, <3>2, <3>3, <1>SigAnnounce
  <2>6. CASE ExitLoop(t) /\ ~UNCHANGED sigVars
    <3>1. pc[t] = "xloop" /\ UNCHANGED <<cur, thread, ret, pc>>
      BY <2>6, ExitFrame DEF call
    <3> QED BY <1>e, <2>2, <2>3, <3>1, <1>SigAnnounce
  <2> QED BY <1>2, <2>4, <2>5, <2>6
<1>3. ASSUME NEW t \in Task, Step(t) PROVE SigInv'
  BY <1>2, <1>3, <1>e, <1>SigCall, <1>SigRun, <1>SigQueued, <1>SigServe DEF Step
<1>4. ASSUME NEW t \in Task, Act(t) PROVE SigInv'
  <2>1. \/ \E x \in Task, r \in RpcId, m \in Modes : QueueRpc(t, x, r, m)
        \/ \E timer \in BOOLEAN : ReturnToUser(t, timer)
        \/ Sleep(t) \/ Resume(t) \/ SetNosignals(t) \/ ClearNosignals(t)
        \/ NothrowServe(t) \/ NothrowEnd(t) \/ Exit(t) \/ Step(t)
    BY <1>4 DEF Act
  <2>2. CASE \E x \in Task, r \in RpcId, m \in Modes : QueueRpc(t, x, r, m)
    BY <1>e, <2>2, <1>SigCall
  <2>3. CASE Step(t)
    BY <1>3, <2>3
  <2> QED BY <1>e, <2>1, <2>2, <2>3, <1>SigRun
<1> QED BY <1>1, <1>4, NextCases

-----------------------------------------------------------------------------
(* Every step keeps ResultInv.                                             *)
LEMMA ResultStep ==
  TypeOK /\ ControlInv /\ LockInv /\ WhereInv /\ SigInv /\ ResultInv /\ [Next]_vars
    => ResultInv'
(* What was returned stays true.                                           *)
<1>AnswerKept.
  ASSUME TypeOK, ControlInv, WhereInv, Effect, NEW r \in RpcId, Answer(r),
         result'[r] = result[r], mode[r] # NoRpc \/ mode'[r] = NoRpc,
         \A t \in Task : cur[t] = r => cur'[t] = r
  PROVE  Answer(r)'
  <2> USE <1>AnswerKept
  <2>v. PlaceInv /\ CallInv
    BY DEF WhereInv
  <2>r. r # NoRpc
    BY RpcAssumption
  <2>1. CASE result[r] = "none"
    <3>1. CASE mode[r] # NoRpc
      <4>1. PICK t \in Task : cur[t] = r
        BY <2>1, <3>1 DEF Answer
      <4>2. cur'[t] = r
        BY <4>1
      <4> QED BY <2>1, <4>2 DEF Answer
    <3>2. CASE mode'[r] = NoRpc
      BY <2>1, <3>2 DEF Answer
    <3> QED BY <3>1, <3>2
  <2>2. CASE result[r] # "none"
    <3>1. mode[r] # NoRpc
      BY <2>2, <2>v DEF PlaceInv, CallAt, QueueAt, SlotAt
    <3>2. \A t \in Task : cur[t] # r
      BY <2>2, <2>r, <2>v DEF CallInv
    <3>3. Settled(r)
      BY <3>1, <3>2 DEF Settled
    <3>4. /\ mode'[r] = mode[r]
          /\ ran[r] = 1 => ran'[r] = 1
          /\ r \in dropped => r \in dropped'
          /\ Nowhere(r) => Nowhere(r)'
          /\ \A u \in Task : Pending(u, r)' => Pending(u, r)
          /\ \A u \in Task : Pending(u, r) => Pending(u, r)' \/ \E s \in {r, join_signal} : Completed(r, s)
      BY <3>3, SettledStep
    <3>5. User(r)' <=> User(r)
      BY <3>4 DEF User
    <3>6. ran[r] \in {0, 1}
      BY <2>v DEF PlaceInv, CallAt, QueueAt, SlotAt
    <3>7. ASSUME ~Nowhere(r) PROVE ~Nowhere(r)'
      <4>1. CASE ran[r] = 1
        BY <3>4, <4>1, SMTT(60) DEF Nowhere
      <4>2. CASE r \in dropped
        BY <3>4, <4>2 DEF Nowhere
      <4>3. ASSUME NEW u \in Task, Pending(u, r)
            PROVE  ~Nowhere(r)'
        <5>1. CASE Pending(u, r)'
          BY <5>1 DEF Nowhere
        <5>2. ASSUME NEW s \in {r, join_signal}, Completed(r, s)
              PROVE  ~Nowhere(r)'
          BY <5>2, SMTT(60) DEF Completed, Nowhere
        <5> QED BY <3>4, <4>3, <5>1, <5>2
      <4> QED BY <3>6, <3>7, <4>1, <4>2, <4>3 DEF Nowhere
    <3> QED BY <2>2, <3>4, <3>5, <3>7 DEF Answer
  <2> QED BY <2>1, <2>2
(* A step that starts no call and returns from none.                       *)
<1>ResultQuiet.
  ASSUME TypeOK, ControlInv, WhereInv, Effect, ResultInv, UNCHANGED <<result, cur, mode>>
  PROVE  ResultInv'
  <2> USE <1>ResultQuiet
  <2>1. ASSUME NEW r \in RpcId PROVE Answer(r)'
    <3>1. Answer(r)
      BY DEF ResultInv
    <3> QED BY <3>1, <1>AnswerKept
  <2> QED BY <2>1 DEF ResultInv
(* task_queue_rpc() of t returns.                                          *)
<1>ResultReturn.
  ASSUME TypeOK, ControlInv, WhereInv, Effect, ResultInv, NEW t \in Task, NEW q \in RpcId, q = cur[t],
         UNCHANGED mode, NEW v \in {"true", "false", "throw"}, Return(t, v), Answer(q)' \/ v = "throw"
  PROVE  ResultInv'
  <2> USE <1>ResultReturn
  <2> HIDE DEF GoTo
  <2>t. cur \in [Task -> RpcId \cup {NoRpc}] /\ result \in [RpcId -> {"none", "true", "false", "throw"}]
    BY DEF TypeOK
  <2>1. /\ result'[q] = v /\ cur'[t] = NoRpc
        /\ \A r \in RpcId : r # q => result'[r] = result[r]
        /\ \A u \in Task : u # t => cur'[u] = cur[u]
    BY <2>t DEF Return
  <2>2. ASSUME NEW r \in RpcId, r # q PROVE Answer(r)'
    <3>1. Answer(r) /\ \A u \in Task : cur[u] = r => cur'[u] = r
      BY <2>1, <2>2 DEF ResultInv
    <3> QED BY <2>1, <2>2, <3>1, <1>AnswerKept
  <2>3. Answer(q)'
    <3>1. CASE v = "throw"
      BY <2>1, <3>1 DEF Answer
    <3> QED BY <3>1
  <2> QED BY <2>2, <2>3 DEF ResultInv
(* A call that a step neither moves nor executes.                          *)
<1>AnswerPlace.
  ASSUME NEW q \in RpcId, Queue' = Queue, UNCHANGED <<slot, ran, dropped, mode>>, result'[q] # "none",
         result'[q] = "true" => ~Nowhere(q),
         mode[q] # NoRpc /\ mode[q].sync =>
           /\ result'[q] \in {"true", "false"} => \A t \in Task : ~Pending(t, q)
           /\ ~User(q) /\ result'[q] = "true" => ran[q] = 1
           /\ ~User(q) /\ result'[q] = "false" => Nowhere(q)
  PROVE  Answer(q)'
  <2> USE <1>AnswerPlace
  <2>1. \A t \in Task : Pending(t, q)' <=> Pending(t, q)
    BY DEF Pending
  <2>2. (Nowhere(q)' <=> Nowhere(q)) /\ (User(q)' <=> User(q))
    BY <2>1 DEF Nowhere, User
  <2> QED BY <2>1, <2>2 DEF Answer
(* The steps task_queue_rpc() can return in.                               *)
<1>ResultCall.
  ASSUME TypeOK, ControlInv, LockInv, WhereInv, Effect, SigInv, ResultInv, NEW t \in Task,
         \/ RpcAlloc(t) \/ RpcGrow(t) \/ SignalInterrupt(t) \/ WakeTarget(t)
         \/ Nack(t) \/ WaitDone(t) \/ ServeUnwind(t)
  PROVE  ResultInv'
  <2> USE <1>ResultCall
  <2> HIDE DEF GoTo, Set, Clear, Return
  <2>t. cur \in [Task -> RpcId \cup {NoRpc}] /\ result \in [RpcId -> {"none", "true", "false", "throw"}]
    BY DEF TypeOK
  <2>p. pc \in [Task -> PC]
    BY DEF TypeOK
  <2>v. PlaceInv /\ CallInv
    BY DEF WhereInv
  <2>c. CallerInv(t)
    BY DEF SigInv
  <2>1. ASSUME NEW v, Return(t, v), cur[t] # NoRpc
        PROVE  /\ cur[t] \in RpcId /\ result'[cur[t]] = v /\ pc'[t] = "run"
               /\ \A u \in Task : u # t => pc'[u] = pc[u]
    BY <2>1, <2>p, <2>t DEF Return, GoTo
  <2>2. ASSUME NEW v, Return(t, v), cur[t] # NoRpc, pc[t] \notin {"xloop", "xrun"}, UNCHANGED <<ri_vec, i>>
        PROVE  Queue' = Queue
    BY <2>1, <2>2, QueueSame
  <2>3. ASSUME cur[t] # NoRpc, UNCHANGED mode, Return(t, "throw")
        PROVE  ResultInv'
    BY <2>1, <2>3, <1>ResultReturn
  <2>4. CASE RpcAlloc(t)
    <3>1. pc[t] = "lock" /\ UNCHANGED <<mode, i, slot, ran, dropped>>
      BY <2>4 DEF RpcAlloc, exec, hist
    <3>2. cur[t] # NoRpc /\ Unqueued(t)
      BY <3>1 DEF ControlInv, Control, CallPC, Unqueued
    <3>3. CASE Return(t, "false") /\ UNCHANGED info
      <4>1. PICK q \in RpcId : q = cur[t] /\ Nowhere(q)
        BY <2>t, <2>v, <3>2 DEF CallInv
      <4>2. result'[q] = "false" /\ Queue' = Queue
        BY <2>1, <2>2, <3>1, <3>2, <3>3, <4>1 DEF info
      <4>3. \A u \in Task : ~Pending(u, q)
        BY <4>1 DEF Nowhere
      <4>4. Answer(q)'
        BY <3>1, <4>1, <4>2, <4>3, <1>AnswerPlace
      <4> QED BY <3>1, <3>3, <4>1, <4>4, <1>ResultReturn
    <3>4. CASE UNCHANGED <<cur, result>>
      BY <3>1, <3>4, <1>ResultQuiet
    <3> QED BY <2>4, <3>3, <3>4 DEF RpcAlloc
  <2>5. CASE RpcGrow(t)
    <3>1. UNCHANGED mode /\ cur[t] # NoRpc
      BY <2>5 DEF RpcGrow, ControlInv, Control, CallPC
    <3> QED BY <2>3, <2>5, <3>1, <1>ResultQuiet DEF RpcGrow
  <2>6. ASSUME pc[t] \in {"signal", "wake"}, UNCHANGED <<mode, ri_vec, i, slot, ran, dropped>>, Queued(t)
        PROVE  ResultInv'
    <3>1. CASE mode[cur[t]].sync
      BY <2>6, <3>1, <1>ResultQuiet DEF Queued
    <3>2. CASE ~mode[cur[t]].sync
      <4>1. cur[t] # NoRpc /\ ~Unqueued(t) /\ Return(t, "true")
        BY <2>6, <3>2 DEF ControlInv, Control, CallPC, ServePC, Unqueued, Queued
      <4>2. PICK q \in RpcId : q = cur[t] /\ ~Nowhere(q)
        BY <2>t, <2>v, <4>1 DEF CallInv
      <4>3. result'[q] = "true" /\ Queue' = Queue
        BY <2>1, <2>2, <2>6, <4>1, <4>2
      <4>4. Answer(q)'
        BY <2>6, <3>2, <4>2, <4>3, <1>AnswerPlace
      <4> QED BY <2>6, <4>1, <4>2, <4>4, <1>ResultReturn
    <3> QED BY <3>1, <3>2
  <2>7. CASE SignalInterrupt(t)
    <3>1. pc[t] = "signal" /\ UNCHANGED <<mode, ri_vec, i, slot, ran, dropped>>
      BY <2>7 DEF SignalInterrupt, info, exec, hist
    <3>2. UNCHANGED <<cur, result>> \/ Return(t, "throw") \/ Queued(t)
      BY <2>7 DEF SignalInterrupt
    <3>3. cur[t] # NoRpc
      BY <3>1 DEF ControlInv, Control, CallPC
    <3>4. CASE UNCHANGED <<cur, result>>
      BY <3>1, <3>4, <1>ResultQuiet
    <3> QED BY <2>3, <2>6, <3>1, <3>2, <3>3, <3>4
  <2>8. CASE WakeTarget(t)
    <3>1. pc[t] = "wake" /\ UNCHANGED <<mode, ri_vec, i, slot, ran, dropped>>
      BY <2>8 DEF WakeTarget, info, exec, hist
    <3>2. UNCHANGED <<cur, result>> \/ Queued(t)
      BY <2>8 DEF WakeTarget
    <3>3. CASE UNCHANGED <<cur, result>>
      BY <3>1, <3>3, <1>ResultQuiet
    <3> QED BY <2>6, <3>1, <3>2, <3>3
  <2>9. ASSUME pc[t] \in {"nack", "wait"}, UNCHANGED <<mode, ri_vec, i, slot, ran, dropped>>, tcs_sig[t] # NoSig,
               NEW v \in {"true", "false"}, Return(t, v),
               v = "false" => pc[t] = "wait" /\ tcs_sig[t] # cur[t]
        PROVE  ResultInv'
    <3>1. cur[t] # NoRpc
      BY <2>9 DEF ControlInv, Control, CallPC
    <3>2. PICK q \in RpcId : q = cur[t]
      BY <2>t, <3>1
    <3>3. /\ \A u \in Task : ~Pending(u, q)
          /\ ran[q] = 1 \/ (tcs_sig[t] = join_signal /\ q \in dropped)
          /\ tcs_sig[t] # q => q \in dropped
      BY <2>9, <2>c, <3>2 DEF CallerInv
    <3>4. q \in dropped => User(q)
      BY <2>v DEF PlaceInv, CallAt, QueueAt, SlotAt
    <3>5. result'[q] = v /\ Queue' = Queue
      BY <2>1, <2>2, <2>9, <3>1, <3>2
    <3>6. ~Nowhere(q)
      BY <3>3, SMTT(60) DEF Nowhere
    <3>7. Answer(q)'
      BY <2>9, <3>2, <3>3, <3>4, <3>5, <3>6, <1>AnswerPlace
    <3> QED BY <2>9, <3>2, <3>7, <1>ResultReturn
  <2>10. CASE Nack(t)
    <3>1. pc[t] = "nack" /\ UNCHANGED <<mode, ri_vec, i, slot, ran, dropped>>
      BY <2>10 DEF Nack, info, exec, hist
    <3>2. CASE tcs_sig[t] # NoSig
      BY <2>9, <2>10, <3>1, <3>2 DEF Nack
    <3>3. CASE tcs_sig[t] = NoSig
      <4>1. Return(t, "false")
        BY <2>10, <3>3 DEF Nack
      <4>2. cur[t] # NoRpc
        BY <3>1 DEF ControlInv, Control, CallPC
      <4>3. PICK q \in RpcId : q = cur[t]
        BY <2>t, <4>2
      <4>4. ~mode[q].sync
        <5>1. SUFFICES ASSUME mode[q].sync PROVE FALSE
          OBVIOUS
        <5>2. t \in Connected(q) /\ q \in Sig
          BY <2>c, <3>1, <3>3, <4>3, <5>1, RpcAssumption DEF CallerInv
        <5>3. Pending(thread[t], q) /\ thread[t] \in Task
          BY <2>c, <5>2 DEF CallerInv, TypeOK
        <5>4. pc[thread[t]] = "dead" /\ ri_vec[thread[t]] = <<>>
          BY <3>1, <5>3 DEF LockInv
        <5>5. Queue[thread[t]] = {}
          <6>1. DOMAIN ri_vec[thread[t]] = {}
            BY <5>4, SMTT(60)
          <6>2. Ready(thread[t]) = {}
            BY <6>1 DEF Ready
          <6>3. \A u \in Task : Queue[u] = {ri_vec[u][k] : k \in Ready(u)}
            BY DEF Queue
          <6> QED BY <5>3, <6>2, <6>3
        <5>6. slot[thread[t]] = NoRpc
          BY <5>3, <5>4 DEF ControlInv, Control, RunPC
        <5> QED BY <5>3, <5>5, <5>6, RpcAssumption DEF Pending
      <4>5. result'[q] = "false" /\ Queue' = Queue
        BY <2>1, <2>2, <3>1, <4>1, <4>2, <4>3
      <4>6. Answer(q)'
        BY <3>1, <4>4, <4>5, <1>AnswerPlace
      <4> QED BY <3>1, <4>1, <4>3, <4>6, <1>ResultReturn
    <3> QED BY <3>2, <3>3
  <2>11. CASE WaitDone(t)
    <3>1. pc[t] = "wait" /\ UNCHANGED <<mode, ri_vec, i, slot, ran, dropped>> /\ tcs_sig[t] # NoSig
      BY <2>11 DEF WaitDone, info, exec, hist
    <3> QED BY <2>9, <2>11, <3>1 DEF WaitDone
  <2>12. CASE ServeUnwind(t)
    <3>1. UNCHANGED mode
      BY <2>12 DEF ServeUnwind
    <3> QED BY <2>3, <2>12, <3>1, <1>ResultQuiet DEF ServeUnwind
  <2> QED BY <2>4, <2>5, <2>7, <2>8, <2>10, <2>11, <2>12
<1> SUFFICES ASSUME TypeOK, ControlInv, LockInv, WhereInv, SigInv, ResultInv, [Next]_vars
             PROVE  ResultInv'
  BY SMTT(60)
<1> HIDE DEF GoTo, Set, Clear, Return, LeaveKernel
<1>e. Effect
  BY EffectStep
<1>v. PlaceInv /\ CallInv
  BY DEF WhereInv
<1>t. cur \in [Task -> RpcId \cup {NoRpc}] /\ result \in [RpcId -> {"none", "true", "false", "throw"}]
  BY DEF TypeOK
<1>m. mode \in [RpcId -> RpcModes \cup {NoRpc}] /\ ran \in [RpcId -> Nat]
  BY DEF TypeOK
<1>q. ASSUME UNCHANGED <<result, cur, mode>> PROVE ResultInv'
  BY <1>e, <1>q, <1>ResultQuiet
<1>1. ASSUME NEW t \in Task, NEW x \in Task, NEW r \in RpcId, NEW m \in Modes, QueueRpc(t, x, r, m)
      PROVE  ResultInv'
  <2>1. /\ mode[r] = NoRpc /\ pc[t] = "run" /\ UNCHANGED <<ri_vec, i, slot, dropped>>
    BY <1>1 DEF QueueRpc, info, exec
  <2>2. Nowhere(r) /\ cur[t] = NoRpc /\ \A u \in Task : cur[u] # r
    <3>1. cur[t] = NoRpc
      BY <2>1 DEF ControlInv, Control, CallPC, ServePC
    <3> QED BY <1>v, <2>1, <3>1, RpcAssumption, SMTT(60) DEF PlaceInv, CallAt, QueueAt, SlotAt, CallInv
  <2>3. ASSUME NEW q \in RpcId, q # r, result'[q] = result[q], mode'[q] = mode[q],
               \A u \in Task : cur[u] = q => cur'[u] = q
        PROVE  Answer(q)'
    <3>1. Answer(q)
      BY DEF ResultInv
    <3> QED BY <1>e, <2>3, <3>1, <1>AnswerKept
  <2>4. mode'[r] # NoRpc /\ \A q \in RpcId : q # r => mode'[q] = mode[q]
    <3>1. PICK own \in RpcModes : own = [flag |-> "user", sync |-> FALSE]
      <4>1. [flag |-> "user", sync |-> FALSE] \in RpcModes
        BY DEF RpcModes
      <4> QED BY <4>1
    <3>2. m \in RpcModes /\ (mode' = [mode EXCEPT ![r] = m] \/ mode' = [mode EXCEPT ![r] = own])
      BY <1>1, <3>1, RpcAssumption DEF QueueRpc
    <3>3. ASSUME NEW v \in RpcModes, mode' = [mode EXCEPT ![r] = v]
          PROVE  mode'[r] \in RpcModes /\ \A q \in RpcId : q # r => mode'[q] = mode[q]
      BY <1>m, <3>3
    <3>4. mode'[r] \in RpcModes /\ \A q \in RpcId : q # r => mode'[q] = mode[q]
      BY <3>2, <3>3
    <3> QED BY <3>4, RpcAssumption
  <2>5. CASE UNCHANGED <<pc, cur>> /\ (result' = [result EXCEPT ![r] = "false"] \/ result' = [result EXCEPT ![r] = "true"]
                                       \/ result' = [result EXCEPT ![r] = "throw"])
    <3>1. \A q \in RpcId : q # r => result'[q] = result[q]
      BY <1>t, <2>5
    <3>2. \A q \in RpcId : q # r => Answer(q)'
      BY <2>3, <2>4, <2>5, <3>1
    <3>3. Queue' = Queue
      BY <2>1, <2>5, QueueSame
    <3>4. \A u \in Task : ~Pending(u, r)'
      BY <2>1, <2>2, <3>3 DEF Nowhere, Pending
    <3>5. result'[r] \in {"false", "true", "throw"}
      BY <1>t, <2>5
    <3>6. (result'[r] = "false" /\ UNCHANGED ran) \/ (result'[r] \in {"true", "throw"} /\ ran' = [ran EXCEPT ![r] = @ + 1])
      BY <1>1, <1>t, <2>2, <2>5, RpcAssumption DEF QueueRpc
    <3>7. ran[r] = 0 /\ r \notin dropped'
      BY <2>1, <2>2 DEF Nowhere
    <3>8. CASE result'[r] = "false" /\ UNCHANGED ran
      <4>1. Nowhere(r)'
        BY <3>4, <3>7, <3>8 DEF Nowhere
      <4> QED BY <3>2, <3>4, <3>8, <4>1 DEF ResultInv, Answer
    <3>9. CASE result'[r] \in {"true", "throw"} /\ ran' = [ran EXCEPT ![r] = @ + 1]
      <4>1. ran'[r] = 1
        BY <1>m, <3>7, <3>9, SMTT(60)
      <4>2. ~Nowhere(r)'
        BY <4>1, SMTT(60) DEF Nowhere
      <4> QED BY <3>2, <3>4, <3>9, <4>1, <4>2 DEF ResultInv, Answer
    <3> QED BY <3>6, <3>8, <3>9
  <2>6. CASE cur' = [cur EXCEPT ![t] = r] /\ UNCHANGED <<result, ran>>
    <3>1. cur'[t] = r /\ \A u \in Task : u # t => cur'[u] = cur[u]
      BY <1>t, <2>6
    <3>2. \A q \in RpcId : q # r => Answer(q)'
      <4>1. \A q \in RpcId : \A u \in Task : cur[u] = q => cur'[u] = q
        BY <2>2, <3>1, RpcAssumption
      <4> QED BY <2>3, <2>4, <2>6, <4>1
    <3>3. result'[r] = "none"
      BY <1>v, <2>1, <2>6 DEF PlaceInv, CallAt, QueueAt, SlotAt
    <3>4. Answer(r)'
      BY <3>1, <3>3 DEF Answer
    <3> QED BY <3>2, <3>4 DEF ResultInv
  <2> QED BY <1>1, <2>5, <2>6 DEF QueueRpc
<1>2. CASE Frozen
  BY <1>2, <1>q DEF Frozen, call
<1>3. ASSUME NEW t \in Task, NEW timer \in BOOLEAN, ReturnToUser(t, timer) PROVE ResultInv'
  BY <1>3, <1>q DEF ReturnToUser, call
<1>4. ASSUME NEW t \in Task, Sleep(t) PROVE ResultInv'
  BY <1>4, <1>q DEF Sleep, call
<1>5. ASSUME NEW t \in Task, Resume(t) PROVE ResultInv'
  BY <1>5, <1>q DEF Resume, call
<1>6. ASSUME NEW t \in Task, SetNosignals(t) PROVE ResultInv'
  BY <1>6, <1>q DEF SetNosignals, call
<1>7. ASSUME NEW t \in Task, ClearNosignals(t) PROVE ResultInv'
  BY <1>7, <1>q DEF ClearNosignals, call
<1>8. ASSUME NEW t \in Task, NothrowServe(t) PROVE ResultInv'
  BY <1>8, <1>q DEF NothrowServe, call
<1>9. ASSUME NEW t \in Task, NothrowEnd(t) PROVE ResultInv'
  BY <1>9, <1>q DEF NothrowEnd, call
<1>10. ASSUME NEW t \in Task, Exit(t) PROVE ResultInv'
  BY <1>10, <1>q DEF Exit, call
<1>11. ASSUME NEW t \in Task, ConnectDone(t) PROVE ResultInv'
  BY <1>11, <1>q DEF ConnectDone, call
<1>12. ASSUME NEW t \in Task, ServeBegin(t) PROVE ResultInv'
  BY <1>12, <1>q DEF ServeBegin, call
<1>13. ASSUME NEW t \in Task, ServePush(t) PROVE ResultInv'
  BY <1>13, <1>q DEF ServePush, call
<1>14. ASSUME NEW t \in Task, ServeTake(t) PROVE ResultInv'
  BY <1>14, <1>q, TakeFrame DEF call
<1>15. ASSUME NEW t \in Task, UserTake(t) PROVE ResultInv'
  BY <1>15, <1>q, UserFrame DEF call
<1>16. ASSUME NEW t \in Task, Callback(t) PROVE ResultInv'
  BY <1>16, <1>q DEF Callback, call
<1>17. ASSUME NEW t \in Task, CallbackDone(t) PROVE ResultInv'
  BY <1>17, <1>q DEF CallbackDone, call
<1>18. ASSUME NEW t \in Task, ServePop(t) PROVE ResultInv'
  BY <1>18, <1>q DEF ServePop, call
<1>19. ASSUME NEW t \in Task, ExitLock(t) PROVE ResultInv'
  BY <1>19, <1>q DEF ExitLock, call
<1>20. ASSUME NEW t \in Task, ExitLoop(t) PROVE ResultInv'
  BY <1>20, <1>q, ExitFrame DEF call
<1>21. ASSUME NEW t \in Task, ExitRun(t) PROVE ResultInv'
  BY <1>21, <1>q DEF ExitRun, call
<1>22. ASSUME NEW t \in Task, ExitEnd(t) PROVE ResultInv'
  BY <1>22, <1>q DEF ExitEnd, call
<1> QED
  BY <1>e, <1>1, <1>2, <1>3, <1>4, <1>5, <1>6, <1>7, <1>8, <1>9, <1>10, <1>11, <1>12, <1>13, <1>14, <1>15,
     <1>16, <1>17, <1>18, <1>19, <1>20, <1>21, <1>22, <1>ResultCall, NextCases
  DEF Act, Step

-----------------------------------------------------------------------------
(* A slot is noticed: what NoForgottenRpc says of one thread.              *)
AllParked(t) == t \in nosignals /\ \A k \in DOMAIN ri_vec[t] : mode[ri_vec[t][k]].flag = "uasync"
Noticed(t) ==
  ri_vec[t] # <<>> /\ ~Locked(t) /\ ~Terminating(t) => "INTERRUPTED" \in t_state[t] \/ AllParked(t)

(* Steps of t that leave the vectors alone.                                *)
NoticeInv == (\A x \in Task : Noticed(x)) /\ NoSleepingTarget

(* Every step keeps NoticeInv.                                             *)
LEMMA NoticeStep ==
  TypeOK /\ ControlInv /\ LockInv /\ WhereInv /\ NoticeInv /\ [Next]_vars
    => NoticeInv'
(* The slots in the vector of a thread that does not exit are of calls     *)
(* that were made, whose mode does not change.                             *)
<1>EntryMode.
  ASSUME TypeOK, LockInv, WhereInv, Effect, NEW x \in Task, ~Terminating(x), NEW k \in DOMAIN ri_vec[x]
  PROVE  mode'[ri_vec[x][k]] = mode[ri_vec[x][k]]
  <2> USE <1>EntryMode
  <2>1. pc[x] \notin {"xloop", "xrun"}
    BY DEF LockInv, ExitPC, Terminating
  <2>2. \A u \in Task : Queue[u] = {ri_vec[u][j] : j \in Ready(u)}
    BY DEF Queue
  <2>3. k \in Ready(x)
    BY <2>1 DEF Ready
  <2>4. ri_vec[x][k] \in Queue[x]
    BY <2>2, <2>3
  <2>5. \A u \in Task : \A q \in Queue[u] : q \in RpcId
    BY QueueType
  <2>6. PICK r \in RpcId : r = ri_vec[x][k] /\ r \in Queue[x]
    BY <2>4, <2>5
  <2>7. mode[r] # NoRpc
    BY <2>6 DEF WhereInv, PlaceInv, CallAt, QueueAt, SlotAt, Nowhere, Pending
  <2> QED BY <2>5, <2>6, <2>7, EffectMode
(* The slots that are left were noticed before.                            *)
<1>NoticedKept.
  ASSUME TypeOK, LockInv, WhereInv, Effect, NEW x \in Task, Noticed(x), ri_vec'[x] \in Seq(RpcId),
         ~Locked(x)' /\ ~Terminating(x)' => ~Locked(x) /\ ~Terminating(x),
         "INTERRUPTED" \in t_state[x] =>
           \/ "INTERRUPTED" \in t_state'[x] \/ Terminating(x)' \/ ri_vec'[x] = <<>>
           \/ AllParked(x),
         x \in nosignals => x \in nosignals' \/ ri_vec'[x] = <<>>,
         \A k \in DOMAIN ri_vec'[x] : \E j \in DOMAIN ri_vec[x] : ri_vec'[x][k] = ri_vec[x][j]
  PROVE  Noticed(x)'
  <2> USE <1>NoticedKept
  <2>1. SUFFICES ASSUME ri_vec'[x] # <<>>, ~Locked(x)', ~Terminating(x)', "INTERRUPTED" \notin t_state'[x]
                 PROVE  AllParked(x)'
    BY DEF Noticed
  <2>2. 1 \in DOMAIN ri_vec'[x]
    BY <2>1, SMTT(60)
  <2>3. ri_vec[x] # <<>>
    <3>1. PICK j \in DOMAIN ri_vec[x] : TRUE
      BY <2>2
    <3> QED BY <3>1, SMTT(60)
  <2>4. ~Terminating(x) /\ AllParked(x)
    BY <2>1, <2>3 DEF Noticed
  <2>5. ASSUME NEW k \in DOMAIN ri_vec'[x]
        PROVE  mode'[ri_vec'[x][k]].flag = "uasync"
    <3>1. PICK j \in DOMAIN ri_vec[x] : ri_vec'[x][k] = ri_vec[x][j]
      OBVIOUS
    <3>2. mode'[ri_vec[x][j]] = mode[ri_vec[x][j]]
      BY <2>4, <1>EntryMode
    <3> QED BY <2>4, <3>1, <3>2 DEF AllParked
  <2> QED BY <2>1, <2>4, <2>5 DEF AllParked
(* A step that reserves and takes no slot keeps NoticeInv when it clears   *)
(* INTERRUPTED only for a vector that needs no service.                    *)
<1>NoticeQuiet.
  ASSUME TypeOK, LockInv, WhereInv, Effect, NoticeInv, NEW t \in Task, UNCHANGED ri_vec,
         asleep' \subseteq asleep, pc[t] # "wake",
         \A u \in Task : u # t =>
           /\ pc'[u] = pc[u] /\ thread'[u] = thread[u] /\ t_state'[u] = t_state[u]
           /\ u \in nosignals => u \in nosignals',
         t \in nosignals => t \in nosignals' \/ ri_vec[t] = <<>>,
         t \in asleep' => (Servable(t)' => Servable(t)),
         Locked(t)' <=> Locked(t), Terminating(t) => Terminating(t)',
         "INTERRUPTED" \in t_state[t] =>
           "INTERRUPTED" \in t_state'[t] \/ Terminating(t)' \/ ri_vec[t] = <<>> \/ AllParked(t)
  PROVE  NoticeInv'
  <2> USE <1>NoticeQuiet
  <2>t. ri_vec \in [Task -> Seq(RpcId)]
    BY DEF TypeOK
  <2>1. ASSUME NEW x \in Task PROVE Noticed(x)'
    <3>1. Noticed(x) /\ ri_vec'[x] \in Seq(RpcId) /\ ri_vec'[x] = ri_vec[x]
      BY <2>t DEF NoticeInv
    <3>2. CASE x = t
      BY <3>1, <3>2, <1>NoticedKept
    <3>3. CASE x # t
      <4>1. (Locked(x)' <=> Locked(x)) /\ (Terminating(x)' <=> Terminating(x))
        BY <3>3 DEF Locked, Terminating
      <4> QED BY <3>1, <3>3, <4>1, <1>NoticedKept
    <3> QED BY <3>2, <3>3
  <2>2. NoSleepingTarget'
    <3>1. SUFFICES ASSUME NEW x \in asleep', Servable(x)'
                   PROVE  \E u \in Task : pc'[u] = "wake" /\ thread'[u] = x
      BY DEF NoSleepingTarget
    <3>2. x \in Task
      BY DEF TypeOK
    <3>3. Servable(x)
      <4>1. CASE x = t
        BY <3>1, <4>1
      <4>2. CASE x # t
        BY <3>1, <3>2, <4>2 DEF Servable
      <4> QED BY <4>1, <4>2
    <3>4. PICK u \in Task : pc[u] = "wake" /\ thread[u] = x
      BY <3>3 DEF NoticeInv, NoSleepingTarget
    <3> QED BY <3>4
  <2> QED BY <2>1, <2>2 DEF NoticeInv
(* The same for those that change no state bits ...                        *)
<1>NoticeSame.
  ASSUME TypeOK, LockInv, WhereInv, Effect, NoticeInv, NEW t \in Task, UNCHANGED <<ri_vec, t_state>>,
         asleep' \subseteq asleep, pc[t] # "wake",
         \A u \in Task : u # t => pc'[u] = pc[u] /\ thread'[u] = thread[u],
         nosignals \subseteq nosignals'
  PROVE  NoticeInv'
  <2> USE <1>NoticeSame
  <2>1. (Servable(t)' <=> Servable(t)) /\ (Locked(t)' <=> Locked(t)) /\ (Terminating(t)' <=> Terminating(t))
    BY DEF Servable, Locked, Terminating
  <2> QED BY <2>1, <1>NoticeQuiet
(* ... or one of those that NoForgottenRpc is not about, while t is awake. *)
<1>NoticeBit.
  ASSUME TypeOK, ControlInv, LockInv, WhereInv, Effect, NoticeInv, NEW t \in Task, UNCHANGED <<ri_vec, nosignals>>,
         asleep' \subseteq asleep, pc[t] # "wake", t \notin asleep',
         \A u \in Task : u # t => pc'[u] = pc[u] /\ thread'[u] = thread[u],
         NEW b \in {"INRPC", "SERVEEXCEPT", "TERMINATING", "TERMINATED"},
         Set(t, {b}) \/ (Clear(t, {b}) /\ b \in {"INRPC", "SERVEEXCEPT"})
  PROVE  NoticeInv'
  <2> USE <1>NoticeBit
  <2>t. t_state \in [Task -> SUBSET StateFlag]
    BY DEF TypeOK
  <2>1. \A u \in Task : u # t => t_state'[u] = t_state[u]
    BY <2>t DEF Set, Clear
  <2>2. /\ t_state'[t] = t_state[t] \cup {b} \/ (t_state'[t] = t_state[t] \ {b} /\ b \in {"INRPC", "SERVEEXCEPT"})
    BY <2>t DEF Set, Clear
  <2>3. /\ Locked(t)' <=> Locked(t)
        /\ Terminating(t) => Terminating(t)'
        /\ "INTERRUPTED" \in t_state[t] => "INTERRUPTED" \in t_state'[t]
    BY <2>2 DEF Locked, Terminating
  <2> QED BY <2>1, <2>3, <1>NoticeQuiet
(* task_queue_rpc() notices the slot it has reserved, and wakes the thread *)
(* it has interrupted.                                                     *)
<1>NoticeCall.
  ASSUME TypeOK, ControlInv, LockInv, WhereInv, Effect, NoticeInv, NEW t \in Task,
         RpcAlloc(t) \/ SignalInterrupt(t) \/ WakeTarget(t)
  PROVE  NoticeInv'
  <2> USE <1>NoticeCall
  <2> HIDE DEF GoTo, Set, Clear, Return
  <2>t. pc \in [Task -> PC] /\ thread \in [Task -> Task] /\ asleep \subseteq Task
    BY DEF TypeOK
  <2>s. t_state \in [Task -> SUBSET StateFlag] /\ ri_vec \in [Task -> Seq(RpcId)]
    BY DEF TypeOK
  <2>n. (\A u \in Task : Noticed(u)) /\ NoSleepingTarget
    BY DEF NoticeInv
  <2>1. PICK x \in Task : x = thread[t]
    BY <2>t
  <2>2. ASSUME NEW u \in Task, t_state'[u] = t_state[u], ri_vec'[u] = ri_vec[u], UNCHANGED nosignals
        PROVE  Noticed(u)'
    <3>1. (Locked(u)' <=> Locked(u)) /\ (Terminating(u)' <=> Terminating(u))
      BY <2>2 DEF Locked, Terminating
    <3>2. ri_vec'[u] \in Seq(RpcId)
      BY <2>2, <2>s
    <3> QED BY <2>2, <2>n, <3>1, <3>2, <1>NoticedKept
  <2>3. ASSUME NEW y \in Task, pc[t] # "wake", \A u \in Task : u # t => pc'[u] = pc[u], UNCHANGED thread,
               y \in asleep, Servable(y)
        PROVE  \E u \in Task : pc'[u] = "wake" /\ thread'[u] = y
    <3>1. PICK u \in Task : pc[u] = "wake" /\ thread[u] = y
      BY <2>3, <2>n DEF NoSleepingTarget
    <3> QED BY <2>3, <3>1
  <2>4. CASE RpcAlloc(t)
    <3>1. pc[t] = "lock" /\ UNCHANGED <<thread, nosignals, asleep>>
      BY <2>4 DEF RpcAlloc, flags
    <3>2. CASE UNCHANGED <<t_state, ri_vec>>
      <4>1. \A u \in Task : u # t => pc'[u] = pc[u]
        BY <2>4, <2>t, <3>2 DEF RpcAlloc, Return, GoTo
      <4> QED BY <3>1, <3>2, <4>1, <1>NoticeSame
    <3>3. CASE /\ Set(x, {"INTERRUPTING"}) /\ ri_vec' = [ri_vec EXCEPT ![x] = Append(@, cur[t])]
               /\ GoTo(t, IF mode[cur[t]].sync THEN "connect" ELSE "signal")
      <4>1. \A u \in Task : u # t => pc'[u] = pc[u]
        BY <2>t, <3>3 DEF GoTo
      <4>2. \A u \in Task : u # x => t_state'[u] = t_state[u] /\ ri_vec'[u] = ri_vec[u]
        BY <2>s, <3>3 DEF Set
      <4>3. t_state'[x] = t_state[x] \cup {"INTERRUPTING"}
        BY <2>s, <3>3 DEF Set
      <4>4. Noticed(x)'
        BY <4>3 DEF Noticed, Locked
      <4>5. \A u \in Task : Noticed(u)'
        BY <2>2, <3>1, <4>2, <4>4
      <4>6. \A u \in Task : Servable(u)' => Servable(u)
        BY <4>2, <4>3, SMTT(60) DEF Servable
      <4>7. NoSleepingTarget'
        BY <2>3, <2>t, <3>1, <4>1, <4>6 DEF NoSleepingTarget
      <4> QED BY <4>5, <4>7 DEF NoticeInv
    <3> QED BY <2>1, <2>4, <3>2, <3>3 DEF RpcAlloc, info
  <2>5. CASE SignalInterrupt(t)
    <3>1. /\ pc[t] = "signal" /\ UNCHANGED <<thread, nosignals, asleep, ri_vec>>
          /\ t \notin asleep
      BY <2>5 DEF SignalInterrupt, flags, info, ControlInv, Control
    <3>2. \A u \in Task : u # t => pc'[u] = pc[u]
      BY <2>5, <2>t DEF SignalInterrupt, Queued, Return, GoTo
    <3>3. CASE "TERMINATED" \in t_state[x] /\ Clear(x, {"INTERRUPTING"})
      <4>1. t_state'[x] = t_state[x] \ {"INTERRUPTING"} /\ \A u \in Task : u # x => t_state'[u] = t_state[u]
        BY <2>s, <3>3 DEF Clear
      <4>2. Noticed(x)'
        BY <3>3, <4>1 DEF Noticed, Terminating
      <4>3. \A u \in Task : Noticed(u)'
        BY <2>2, <3>1, <4>1, <4>2
      <4>4. \A u \in Task : Servable(u)' => Servable(u)
        BY <4>1 DEF Servable
      <4>5. NoSleepingTarget'
        BY <2>3, <2>t, <3>1, <3>2, <4>4 DEF NoSleepingTarget
      <4> QED BY <4>3, <4>5 DEF NoticeInv
    <3>4. CASE t_state' = [t_state EXCEPT ![x] = (@ \ {"INTERRUPTING"}) \cup {"INTERRUPTED"}]
      <4>1. /\ t_state'[x] = (t_state[x] \ {"INTERRUPTING"}) \cup {"INTERRUPTED"}
            /\ \A u \in Task : u # x => t_state'[u] = t_state[u]
        BY <2>s, <3>4
      <4>2. Noticed(x)'
        BY <4>1 DEF Noticed
      <4>3. \A u \in Task : Noticed(u)'
        BY <2>2, <3>1, <4>1, <4>2
      <4>4. ASSUME NEW y \in asleep, Servable(y)'
            PROVE  \E u \in Task : pc'[u] = "wake" /\ thread'[u] = y
        <5>1. y \in Task /\ y # t
          BY <2>t, <3>1
        <5>2. CASE Servable(y)
          BY <2>3, <3>1, <3>2, <5>1, <5>2
        <5>3. CASE ~Servable(y)
          <6>1. y = x /\ "INTERRUPTED" \notin t_state[x]
            BY <4>1, <4>4, <5>1, <5>3 DEF Servable
          <6>2. GoTo(t, "wake")
            <7>1. x # t
              BY <5>1, <6>1
            <7>2. "TERMINATED" \notin t_state[x]
              <8>1. pc[x] \in {"run", "wait"}
                BY <5>1, <6>1 DEF ControlInv, Control
              <8> QED BY <8>1 DEF LockInv
            <7> QED BY <2>1, <2>5, <6>1, <7>1, <7>2 DEF SignalInterrupt
          <6>3. pc'[t] = "wake" /\ thread'[t] = x
            BY <2>1, <2>t, <3>1, <6>2 DEF GoTo
          <6> QED BY <6>1, <6>3
        <5> QED BY <5>2, <5>3
      <4>5. NoSleepingTarget'
        BY <3>1, <4>4 DEF NoSleepingTarget
      <4> QED BY <4>3, <4>5 DEF NoticeInv
    <3> QED BY <2>1, <2>5, <3>3, <3>4 DEF SignalInterrupt
  <2>6. CASE WakeTarget(t)
    <3>1. pc[t] = "wake" /\ UNCHANGED <<thread, nosignals, ri_vec, t_state>> /\ asleep' \subseteq asleep
      BY <2>6 DEF WakeTarget, flags, info
    <3>2. \A u \in Task : u # t => pc'[u] = pc[u]
      BY <2>6, <2>t DEF WakeTarget, Queued, Return, GoTo
    <3>3. \A u \in Task : Noticed(u)'
      BY <2>2, <3>1
    <3>4. x \notin asleep'
      <4>1. CASE "TERMINATED" \in t_state[x]
        <5>1. pc[x] = "dead"
          BY <4>1 DEF LockInv
        <5>2. x \notin asleep
          BY <5>1 DEF ControlInv, Control
        <5> QED BY <3>1, <5>2
      <4>2. CASE "TERMINATED" \notin t_state[x]
        BY <2>1, <2>6, <4>2 DEF WakeTarget
      <4> QED BY <4>1, <4>2
    <3>5. ASSUME NEW y \in asleep', Servable(y)'
          PROVE  \E u \in Task : pc'[u] = "wake" /\ thread'[u] = y
      <4>1. y \in asleep /\ Servable(y) /\ y # x
        BY <3>1, <3>4, <3>5 DEF Servable
      <4>2. PICK u \in Task : pc[u] = "wake" /\ thread[u] = y
        BY <2>n, <4>1 DEF NoSleepingTarget
      <4>3. u # t
        BY <2>1, <4>1, <4>2
      <4> QED BY <3>1, <3>2, <4>2, <4>3
    <3>6. NoSleepingTarget'
      BY <3>5 DEF NoSleepingTarget
    <3> QED BY <3>3, <3>6 DEF NoticeInv
  <2> QED BY <2>4, <2>5, <2>6
(* A slot leaves the vector of t, which is awake.                          *)
<1>NoticeTake.
  ASSUME TypeOK, ControlInv, LockInv, WhereInv, Effect, NoticeInv, NEW t \in Task,
         UNCHANGED <<thread, nosignals, asleep>>, pc[t] \notin {"wake", "run", "wait"},
         \A u \in Task : u # t => pc'[u] = pc[u] /\ t_state'[u] = t_state[u] /\ ri_vec'[u] = ri_vec[u],
         Locked(t)' <=> Locked(t), Terminating(t)' <=> Terminating(t),
         "INTERRUPTED" \in t_state[t] => "INTERRUPTED" \in t_state'[t], ri_vec'[t] \in Seq(RpcId),
         \A k \in DOMAIN ri_vec'[t] : \E j \in DOMAIN ri_vec[t] : ri_vec'[t][k] = ri_vec[t][j]
  PROVE  NoticeInv'
  <2> USE <1>NoticeTake
  <2>t. ri_vec \in [Task -> Seq(RpcId)] /\ asleep \subseteq Task
    BY DEF TypeOK
  <2>1. ASSUME NEW x \in Task PROVE Noticed(x)'
    <3>1. Noticed(x)
      BY DEF NoticeInv
    <3>2. CASE x = t
      BY <3>1, <3>2, <1>NoticedKept
    <3>3. CASE x # t
      <4>1. (Locked(x)' <=> Locked(x)) /\ (Terminating(x)' <=> Terminating(x))
        BY <3>3 DEF Locked, Terminating
      <4>2. ri_vec'[x] \in Seq(RpcId) /\ ri_vec'[x] = ri_vec[x]
        BY <2>t, <3>3
      <4> QED BY <3>1, <3>3, <4>1, <4>2, <1>NoticedKept
    <3> QED BY <3>2, <3>3
  <2>2. ASSUME NEW x \in asleep', Servable(x)'
        PROVE  \E u \in Task : pc'[u] = "wake" /\ thread'[u] = x
    <3>1. x \in Task /\ x # t
      BY <2>t DEF ControlInv, Control
    <3>2. Servable(x) /\ x \in asleep
      BY <2>2, <3>1 DEF Servable
    <3>3. PICK u \in Task : pc[u] = "wake" /\ thread[u] = x
      BY <3>2 DEF NoticeInv, NoSleepingTarget
    <3> QED BY <3>3
  <2>3. NoSleepingTarget'
    BY <2>2 DEF NoSleepingTarget
  <2> QED BY <2>1, <2>3 DEF NoticeInv
(* Taking a slot out of the vector keeps NoticeInv: INTERRUPTED stays set, *)
(* and the slots that are left were there before.                          *)
<1>NoticeTaken.
  ASSUME TypeOK, ControlInv, LockInv, WhereInv, Effect, NoticeInv, NEW t \in Task,
         UNCHANGED <<thread, nosignals, asleep>>, pc[t] \in {"serve", "user"},
         NEW k \in 1 .. Len(ri_vec[t]), Take(t, k), UNCHANGED t_state \/ Set(t, {"INRPC"})
  PROVE  NoticeInv'
  <2> USE <1>NoticeTaken
  <2> HIDE DEF GoTo, Set
  <2>t. ri_vec \in [Task -> Seq(RpcId)] /\ pc \in [Task -> PC] /\ t_state \in [Task -> SUBSET StateFlag]
    BY DEF TypeOK
  <2>1. \A u \in Task : u # t => pc'[u] = pc[u] /\ ri_vec'[u] = ri_vec[u]
    BY <2>t DEF Take, GoTo
  <2>2. ri_vec'[t] = CloseGap(ri_vec[t], k) /\ ri_vec[t] \in Seq(RpcId)
    BY <2>t DEF Take
  <2>3. /\ ri_vec'[t] \in Seq(RpcId) /\ DOMAIN ri_vec'[t] = 1 .. Len(ri_vec[t]) - 1
        /\ \A n \in 1 .. Len(ri_vec[t]) - 1 : ri_vec'[t][n] = ri_vec[t][IF n < k THEN n ELSE n + 1]
    <3>1. PICK v \in Seq(RpcId) : v = ri_vec[t]
      BY <2>2
    <3>2. /\ CloseGap(v, k) \in Seq(RpcId) /\ DOMAIN CloseGap(v, k) = 1 .. Len(v) - 1
          /\ \A n \in 1 .. Len(v) - 1 : CloseGap(v, k)[n] = v[IF n < k THEN n ELSE n + 1]
      <4>1. k \in 1 .. Len(v)
        BY <3>1
      <4> QED BY <4>1, CloseGapProps
    <3> QED BY <2>2, <3>1, <3>2
  <2>4. \A n \in DOMAIN ri_vec'[t] : \E j \in DOMAIN ri_vec[t] : ri_vec'[t][n] = ri_vec[t][j]
    <3> SUFFICES ASSUME NEW n \in 1 .. Len(ri_vec[t]) - 1
                 PROVE  \E j \in DOMAIN ri_vec[t] : ri_vec'[t][n] = ri_vec[t][j]
      BY <2>3
    <3>1. (IF n < k THEN n ELSE n + 1) \in 1 .. Len(ri_vec[t]) /\ DOMAIN ri_vec[t] = 1 .. Len(ri_vec[t])
      <4>1. Len(ri_vec[t]) \in Nat /\ DOMAIN ri_vec[t] = 1 .. Len(ri_vec[t])
        BY <2>2, SMTT(60)
      <4> QED BY <4>1, SMTT(60)
    <3> QED BY <2>3, <3>1
  <2>5. /\ t_state'[t] = t_state[t] \/ t_state'[t] = t_state[t] \cup {"INRPC"}
        /\ \A u \in Task : u # t => t_state'[u] = t_state[u]
    BY <2>t DEF Set
  <2>6. /\ Locked(t)' <=> Locked(t)
        /\ Terminating(t)' <=> Terminating(t)
        /\ "INTERRUPTED" \in t_state[t] => "INTERRUPTED" \in t_state'[t]
    BY <2>5 DEF Locked, Terminating
  <2>7. \A u \in Task : u # t => pc'[u] = pc[u] /\ t_state'[u] = t_state[u] /\ ri_vec'[u] = ri_vec[u]
    BY <2>1, <2>5
  <2>8. ri_vec'[t] \in Seq(RpcId) /\ pc[t] \notin {"wake", "run", "wait"}
    BY <2>3
  <2> HIDE DEF Take
  <2> QED BY <2>4, <2>6, <2>7, <2>8, <1>NoticeTake
(* The steps of task_serve() and task_serve_before_user().                 *)
<1>NoticeServe.
  ASSUME TypeOK, ControlInv, LockInv, WhereInv, Effect, NoticeInv, NEW t \in Task, ServeTake(t) \/ UserTake(t)
  PROVE  NoticeInv'
  <2> USE <1>NoticeServe
  <2> HIDE DEF GoTo, Set, Clear, LeaveKernel
  <2>t. pc \in [Task -> PC] /\ t_state \in [Task -> SUBSET StateFlag]
    BY DEF TypeOK
  <2>1. pc[t] \in {"serve", "user"} /\ UNCHANGED <<thread, nosignals, asleep>>
    BY TakeFrame, UserFrame DEF call, flags
  <2>2. t \notin asleep
    BY <2>1 DEF ControlInv, Control
  <2>3. ASSUME Clear(t, {"INTERRUPTED"}), UNCHANGED ri_vec, \A u \in Task : u # t => pc'[u] = pc[u],
               ri_vec[t] = <<>> \/ AllParked(t)
        PROVE  NoticeInv'
    <3>1. t_state'[t] = t_state[t] \ {"INTERRUPTED"} /\ \A u \in Task : u # t => t_state'[u] = t_state[u]
      BY <2>3, <2>t DEF Clear
    <3>2. (Locked(t)' <=> Locked(t)) /\ (Terminating(t)' <=> Terminating(t))
      BY <3>1 DEF Locked, Terminating
    <3> QED BY <2>1, <2>2, <2>3, <3>1, <3>2, <1>NoticeQuiet
  <2>4. ASSUME NEW l, GoTo(t, l) PROVE \A u \in Task : u # t => pc'[u] = pc[u]
    BY <2>4, <2>t DEF GoTo
  <2>5. CASE ServeTake(t)
    <3>1. CASE /\ ri_vec[t] = <<>> \/ AllParked(t)
               /\ Clear(t, {"INTERRUPTED"}) /\ GoTo(t, "pop") /\ UNCHANGED <<slot, ri_vec>>
      BY <2>3, <2>4, <3>1
    <3>2. CASE \E k \in 1 .. Len(ri_vec[t]) : Take(t, k) /\ Set(t, {"INRPC"})
      BY <2>1, <3>2, <1>NoticeTaken
    <3>3. CASE UNCHANGED ri_vec /\ Set(t, {"SERVEEXCEPT"}) /\ GoTo(t, "pop")
      BY <2>1, <2>2, <2>4, <3>3, <1>NoticeBit
    <3>4. CASE UNCHANGED <<ri_vec, t_state>> /\ GoTo(t, "unwind")
      BY <2>1, <2>4, <3>4, <1>NoticeSame
    <3> QED BY <2>5, <3>1, <3>2, <3>3, <3>4, ServeTakeCases DEF AllParked
  <2>6. CASE UserTake(t)
    <3>1. ASSUME LeaveKernel(t) PROVE \A u \in Task : u # t => pc'[u] = pc[u]
      BY <2>4, <3>1 DEF LeaveKernel
    <3>2. CASE ri_vec[t] = <<>> /\ Clear(t, {"INTERRUPTED"}) /\ LeaveKernel(t) /\ UNCHANGED <<slot, ri_vec>>
      BY <2>3, <3>1, <3>2
    <3>3. CASE LeaveKernel(t) /\ UNCHANGED <<t_state, slot, ri_vec>>
      BY <2>1, <3>1, <3>3, <1>NoticeSame
    <3>4. CASE \E k \in 1 .. Len(ri_vec[t]) : Take(t, k) /\ UNCHANGED <<t_state, ret>>
      BY <2>1, <3>4, <1>NoticeTaken
    <3> QED BY <2>6, <3>2, <3>3, <3>4, UserTakeCases
  <2> QED BY <2>5, <2>6
(* The steps of task_exit().                                               *)
<1>NoticeExit.
  ASSUME TypeOK, ControlInv, LockInv, WhereInv, Effect, NoticeInv, NEW t \in Task,
         Exit(t) \/ ExitLock(t) \/ ExitLoop(t) \/ ExitRun(t) \/ ExitEnd(t)
  PROVE  NoticeInv'
  <2> USE <1>NoticeExit
  <2> HIDE DEF GoTo, Set, Clear
  <2>t. pc \in [Task -> PC] /\ t_state \in [Task -> SUBSET StateFlag]
    BY DEF TypeOK
  <2>v. ri_vec \in [Task -> Seq(RpcId)] /\ t_state \in [Task -> SUBSET StateFlag]
    BY DEF TypeOK
  <2>1. ASSUME NEW l, GoTo(t, l) PROVE \A u \in Task : u # t => pc'[u] = pc[u]
    BY <2>1, <2>t DEF GoTo
  <2>a. ASSUME NEW r, NEW s, Announce(r, s) PROVE asleep' \subseteq asleep
    BY <2>a DEF Announce
  <2>2. CASE Exit(t)
    <3>1. /\ pc[t] = "run" /\ t \notin asleep /\ GoTo(t, "xlock") /\ Set(t, {"TERMINATING"})
          /\ UNCHANGED <<thread, nosignals, asleep, ri_vec>>
      BY <2>2 DEF Exit, call, flags, info
    <3> QED BY <2>1, <3>1, <1>NoticeBit
  <2>3. CASE ExitLock(t)
    <3>1. /\ pc[t] = "xlock" /\ GoTo(t, "xloop") /\ UNCHANGED <<thread, nosignals, asleep, ri_vec>>
          /\ t_state' = [t_state EXCEPT ![t] = (@ \ {"INTERRUPTED"}) \cup {"INRPC"}]
      BY <2>3 DEF ExitLock, call, flags, info
    <3>2. t_state'[t] = (t_state[t] \ {"INTERRUPTED"}) \cup {"INRPC"} /\ \A u \in Task : u # t => t_state'[u] = t_state[u]
      BY <2>t, <3>1
    <3>3. t \notin asleep /\ Terminating(t)
      BY <3>1 DEF ControlInv, Control, LockInv, Terminating
    <3>4. (Locked(t)' <=> Locked(t)) /\ Terminating(t)'
      BY <3>2, <3>3 DEF Locked, Terminating
    <3> QED BY <2>1, <3>1, <3>2, <3>3, <3>4, <1>NoticeQuiet
  <2>4. CASE ExitLoop(t)
    <3>1. pc[t] = "xloop" /\ UNCHANGED <<thread, nosignals>> /\ i[t] # 0
      <4>1. pc[t] = "xloop" /\ UNCHANGED <<thread, nosignals>>
        BY <2>4, ExitFrame DEF call, flags
      <4> QED BY <4>1 DEF ControlInv, Control
    <3>2. CASE ri_vec' = [ri_vec EXCEPT ![t] = <<>>] /\ Clear(t, {"INRPC"}) /\ GoTo(t, "xend") /\ UNCHANGED asleep
      <4>1. ri_vec'[t] = <<>> /\ \A u \in Task : u # t => ri_vec'[u] = ri_vec[u]
        BY <2>v, <3>2
      <4>2. t_state'[t] = t_state[t] \ {"INRPC"} /\ \A u \in Task : u # t => t_state'[u] = t_state[u]
        BY <2>v, <3>2 DEF Clear
      <4>3. /\ Locked(t)' <=> Locked(t)
            /\ Terminating(t)' <=> Terminating(t)
            /\ "INTERRUPTED" \in t_state[t] => "INTERRUPTED" \in t_state'[t]
        BY <4>2 DEF Locked, Terminating
      <4>4. ri_vec'[t] \in Seq(RpcId) /\ DOMAIN ri_vec'[t] = {}
        BY <4>1, SMTT(60)
      <4> QED BY <2>1, <3>1, <3>2, <4>1, <4>2, <4>3, <4>4, <1>NoticeTake
    <3>3. CASE (\E r \in RpcId : Announce(r, join_signal)) /\ UNCHANGED <<ri_vec, t_state, pc>>
      BY <2>a, <3>1, <3>3, <1>NoticeSame
    <3>4. CASE GoTo(t, "xrun") /\ UNCHANGED <<ri_vec, t_state, asleep>>
      BY <2>1, <3>1, <3>4, <1>NoticeSame
    <3> QED BY <2>4, <3>1, <3>2, <3>3, <3>4, ExitLoopCases
  <2>5. CASE ExitRun(t)
    <3>1. /\ pc[t] = "xrun" /\ GoTo(t, "xloop") /\ Announce(slot[t], slot[t])
          /\ UNCHANGED <<thread, nosignals, t_state, ri_vec>>
      BY <2>5 DEF ExitRun, Broadcast, call, flags, info
    <3> QED BY <2>1, <2>a, <3>1, <1>NoticeSame
  <2>6. CASE ExitEnd(t)
    <3>1. /\ pc[t] = "xend" /\ GoTo(t, "dead") /\ Set(t, {"TERMINATED"})
          /\ UNCHANGED <<thread, nosignals, asleep, ri_vec>>
      BY <2>6 DEF ExitEnd, call, flags, info
    <3>2. t \notin asleep
      BY <3>1 DEF ControlInv, Control
    <3> QED BY <2>1, <3>1, <3>2, <1>NoticeBit
  <2> QED BY <2>2, <2>3, <2>4, <2>5, <2>6
<1> SUFFICES ASSUME TypeOK, ControlInv, LockInv, WhereInv, NoticeInv, [Next]_vars
             PROVE  NoticeInv'
  BY SMTT(60)
<1> HIDE DEF GoTo, Set, Clear, Return, LeaveKernel
<1>e. Effect
  BY EffectStep
<1>t. pc \in [Task -> PC] /\ thread \in [Task -> Task] /\ asleep \subseteq Task
  BY DEF TypeOK
<1>s. t_state \in [Task -> SUBSET StateFlag]
  BY DEF TypeOK
<1>g. ASSUME NEW t \in Task, NEW l, GoTo(t, l) PROVE \A u \in Task : u # t => pc'[u] = pc[u]
  BY <1>g, <1>t DEF GoTo
<1>r. ASSUME NEW t \in Task, NEW v, Return(t, v) PROVE \A u \in Task : u # t => pc'[u] = pc[u]
  BY <1>g, <1>r DEF Return
<1>1. CASE Frozen
  <2>1. UNCHANGED <<ri_vec, t_state, asleep, pc, thread, nosignals>>
    BY <1>1 DEF Frozen, info, call, flags
  <2>2. ASSUME NEW x \in Task PROVE Noticed(x)'
    <3>1. Noticed(x) /\ ri_vec'[x] \in Seq(RpcId)
      BY <2>1 DEF NoticeInv, TypeOK
    <3>2. (Locked(x)' <=> Locked(x)) /\ (Terminating(x)' <=> Terminating(x))
      BY <2>1 DEF Locked, Terminating
    <3> QED BY <1>e, <2>1, <3>1, <3>2, <1>NoticedKept
  <2>3. NoSleepingTarget'
    BY <2>1 DEF NoticeInv, NoSleepingTarget, Servable
  <2> QED BY <2>2, <2>3 DEF NoticeInv
<1>2. ASSUME NEW t \in Task, NEW x \in Task, NEW r \in RpcId, NEW m \in Modes, QueueRpc(t, x, r, m)
      PROVE  NoticeInv'
  <2>1. pc[t] = "run" /\ t \notin asleep /\ UNCHANGED <<ri_vec, asleep, nosignals>>
    BY <1>2 DEF QueueRpc, info, flags
  <2>2. \A u \in Task : u # t => pc'[u] = pc[u] /\ thread'[u] = thread[u]
    BY <1>2, <1>g, <1>t DEF QueueRpc
  <2>3. UNCHANGED t_state \/ Set(t, {"SERVEEXCEPT"})
    BY <1>2 DEF QueueRpc
  <2>4. CASE UNCHANGED t_state
    BY <1>e, <2>1, <2>2, <2>4, <1>NoticeSame
  <2>5. CASE Set(t, {"SERVEEXCEPT"})
    BY <1>e, <2>1, <2>2, <2>5, <1>NoticeBit
  <2> QED BY <2>3, <2>4, <2>5
<1>q. ASSUME NEW t \in Task, pc[t] # "wake", UNCHANGED <<ri_vec, t_state, thread>>, asleep' \subseteq asleep,
             nosignals \subseteq nosignals', UNCHANGED pc \/ \E l \in PC : GoTo(t, l)
      PROVE  NoticeInv'
  <2>1. \A u \in Task : u # t => pc'[u] = pc[u] /\ thread'[u] = thread[u]
    BY <1>g, <1>q
  <2> QED BY <1>e, <1>q, <2>1, <1>NoticeSame
<1>3. ASSUME NEW t \in Task, NEW timer \in BOOLEAN, ReturnToUser(t, timer) PROVE NoticeInv'
  <2>1. pc[t] = "run" /\ UNCHANGED <<ri_vec, t_state, thread, asleep, nosignals>> /\ GoTo(t, "user") /\ "user" \in PC
    BY <1>3 DEF ReturnToUser, info, call, flags, PC
  <2> QED BY <1>q, <2>1
<1>4. ASSUME NEW t \in Task, Sleep(t) PROVE NoticeInv'
  <2>1. /\ ~Servable(t) /\ asleep' = asleep \cup {t}
        /\ UNCHANGED <<ri_vec, t_state, pc, thread, nosignals>>
    BY <1>4 DEF Sleep, info, call, flags
  <2>2. ASSUME NEW x \in Task PROVE Noticed(x)'
    <3>1. Noticed(x) /\ ri_vec'[x] \in Seq(RpcId)
      BY <2>1 DEF NoticeInv, TypeOK
    <3>2. (Locked(x)' <=> Locked(x)) /\ (Terminating(x)' <=> Terminating(x))
      BY <2>1 DEF Locked, Terminating
    <3> QED BY <1>e, <2>1, <3>1, <3>2, <1>NoticedKept
  <2>3. NoSleepingTarget'
    BY <2>1 DEF NoticeInv, NoSleepingTarget, Servable
  <2> QED BY <2>2, <2>3 DEF NoticeInv
<1>5. ASSUME NEW t \in Task, Resume(t) PROVE NoticeInv'
  <2>1. pc[t] = "run" /\ UNCHANGED <<ri_vec, t_state, thread, nosignals, pc>> /\ asleep' \subseteq asleep
    BY <1>5 DEF Resume, info, call, flags
  <2> QED BY <1>q, <2>1
<1>6. ASSUME NEW t \in Task, SetNosignals(t) PROVE NoticeInv'
  <2>1. pc[t] = "run" /\ UNCHANGED <<ri_vec, t_state, thread, asleep, pc>> /\ nosignals \subseteq nosignals'
    BY <1>6 DEF SetNosignals, info, call
  <2> QED BY <1>q, <2>1
<1>7. ASSUME NEW t \in Task, ClearNosignals(t) PROVE NoticeInv'
  <2>1. pc[t] = "run" /\ UNCHANGED <<ri_vec, t_state, thread, asleep>> /\ (GoTo(t, "run") \/ GoTo(t, "cleared"))
    BY <1>7 DEF ClearNosignals, info, call
  <2>2. nosignals' = IF ri_vec[t] = <<>> THEN nosignals \ {t} ELSE nosignals
    BY <1>7 DEF ClearNosignals
  <2>3. (Servable(t)' <=> Servable(t)) /\ (Locked(t)' <=> Locked(t)) /\ (Terminating(t)' <=> Terminating(t))
    BY <2>1 DEF Servable, Locked, Terminating
  <2>4. \A u \in Task : u # t =>
          /\ pc'[u] = pc[u] /\ thread'[u] = thread[u] /\ t_state'[u] = t_state[u]
          /\ u \in nosignals => u \in nosignals'
    BY <1>g, <2>1, <2>2
  <2>5. t \in nosignals => t \in nosignals' \/ ri_vec[t] = <<>>
    BY <2>2
  <2> QED BY <1>e, <2>1, <2>3, <2>4, <2>5, <1>NoticeQuiet
<1>8. ASSUME NEW t \in Task, NothrowServe(t) PROVE NoticeInv'
  <2>1. pc[t] = "run" /\ UNCHANGED <<ri_vec, t_state, thread, nosignals, pc, asleep>>
    BY <1>8 DEF NothrowServe, info, call
  <2> QED BY <1>q, <2>1
<1>9. ASSUME NEW t \in Task, NothrowEnd(t) PROVE NoticeInv'
  <2>1. /\ pc[t] = "run" /\ t \notin asleep /\ Clear(t, {"SERVEEXCEPT"})
        /\ UNCHANGED <<ri_vec, thread, nosignals, pc, asleep>>
    BY <1>9 DEF NothrowEnd, info, call
  <2> QED BY <1>e, <2>1, <1>NoticeBit
<1>10. ASSUME NEW t \in Task, RpcGrow(t) PROVE NoticeInv'
  <2>1. pc[t] = "grow" /\ UNCHANGED <<ri_vec, t_state, thread, nosignals, asleep>>
    BY <1>10 DEF RpcGrow, flags
  <2>2. \A u \in Task : u # t => pc'[u] = pc[u]
    BY <1>10, <1>g, <1>r DEF RpcGrow
  <2> QED BY <1>e, <2>1, <2>2, <1>NoticeSame
<1>11. ASSUME NEW t \in Task, ConnectDone(t) PROVE NoticeInv'
  <2>1. /\ pc[t] = "connect" /\ UNCHANGED <<ri_vec, t_state, thread, nosignals, asleep>>
        /\ GoTo(t, "signal") /\ "signal" \in PC
    BY <1>11 DEF ConnectDone, info, call, flags, PC
  <2> QED BY <1>q, <2>1
<1>12. ASSUME NEW t \in Task, Nack(t) \/ WaitDone(t) PROVE NoticeInv'
  <2>1. pc[t] \in {"nack", "wait"} /\ UNCHANGED <<ri_vec, t_state, thread, nosignals, asleep>>
    BY <1>12 DEF Nack, WaitDone, info, flags
  <2>2. \A u \in Task : u # t => pc'[u] = pc[u]
    BY <1>12, <1>r DEF Nack, WaitDone
  <2> QED BY <1>e, <2>1, <2>2, <1>NoticeSame
<1>13. ASSUME NEW t \in Task, ServeBegin(t) PROVE NoticeInv'
  <2>1. /\ pc[t] # "wake" /\ UNCHANGED <<ri_vec, t_state, thread, nosignals, asleep>>
        /\ GoTo(t, "push") \/ GoTo(t, "serve")
    BY <1>13 DEF ServeBegin, info, call, flags
  <2>2. {"push", "serve"} \subseteq PC
    BY DEF PC
  <2> QED BY <1>q, <2>1, <2>2
<1>14. ASSUME NEW t \in Task, ServePush(t) PROVE NoticeInv'
  <2>1. /\ pc[t] # "wake" /\ UNCHANGED <<ri_vec, t_state, thread, nosignals, asleep>>
        /\ GoTo(t, "serve") /\ "serve" \in PC
    BY <1>14 DEF ServePush, info, call, flags, PC
  <2> QED BY <1>q, <2>1
<1>15. ASSUME NEW t \in Task, Callback(t) PROVE NoticeInv'
  <2>1. /\ pc[t] = "rpc" /\ UNCHANGED <<ri_vec, thread, nosignals, asleep>> /\ Clear(t, {"INRPC"})
        /\ GoTo(t, "done") \/ GoTo(t, "thrown")
    BY <1>15 DEF Callback, info, call, flags
  <2>2. t \notin asleep
    BY <2>1 DEF ControlInv, Control
  <2> QED BY <1>e, <1>g, <2>1, <2>2, <1>NoticeBit
<1>16. ASSUME NEW t \in Task, CallbackDone(t) PROVE NoticeInv'
  <2>1. pc[t] \in {"done", "thrown"} /\ UNCHANGED <<ri_vec, thread, nosignals>> /\ Announce(slot[t], slot[t])
    BY <1>16 DEF CallbackDone, Broadcast, info, call, flags
  <2>2. \A u \in Task : u # t => pc'[u] = pc[u]
    BY <1>16, <1>g DEF CallbackDone, LeaveKernel
  <2>3. t \notin asleep /\ asleep' \subseteq asleep
    BY <2>1 DEF ControlInv, Control, Announce
  <2>4. UNCHANGED t_state \/ Set(t, {"SERVEEXCEPT"})
    BY <1>16 DEF CallbackDone
  <2>5. CASE UNCHANGED t_state
    BY <1>e, <2>1, <2>2, <2>3, <2>5, <1>NoticeSame
  <2>6. CASE Set(t, {"SERVEEXCEPT"})
    BY <1>e, <2>1, <2>2, <2>3, <2>6, <1>NoticeBit
  <2> QED BY <2>4, <2>5, <2>6
<1>17. ASSUME NEW t \in Task, ServePop(t) PROVE NoticeInv'
  <2>1. pc[t] = "pop" /\ UNCHANGED <<ri_vec, t_state, thread, nosignals, asleep>> /\ GoTo(t, ret[t])
    BY <1>17 DEF ServePop, info, call, flags
  <2> QED BY <1>e, <1>g, <2>1, <1>NoticeSame
<1>18. ASSUME NEW t \in Task, ServeUnwind(t) PROVE NoticeInv'
  <2>1. pc[t] = "unwind" /\ UNCHANGED <<ri_vec, t_state, thread, nosignals, asleep>>
    BY <1>18 DEF ServeUnwind, info, flags
  <2>2. \A u \in Task : u # t => pc'[u] = pc[u]
    BY <1>18, <1>g, <1>r DEF ServeUnwind
  <2> QED BY <1>e, <2>1, <2>2, <1>NoticeSame
<1> QED
  BY <1>e, <1>1, <1>2, <1>3, <1>4, <1>5, <1>6, <1>7, <1>8, <1>9, <1>10, <1>11, <1>12, <1>13, <1>14, <1>15,
     <1>16, <1>17, <1>18, <1>NoticeCall, <1>NoticeServe, <1>NoticeExit, NextCases
  DEF Act, Step

-----------------------------------------------------------------------------
(* task_serve_before_exit() is done with the slots it has walked over.     *)
PassedInv ==
  \A t \in Task : pc[t] \in {"xloop", "xrun"} =>
    \A k \in DOMAIN ri_vec[t] : k < i[t] => ran[ri_vec[t][k]] = 1 \/ ri_vec[t][k] \in dropped

(* Every step keeps PassedInv.                                             *)
LEMMA PassedStep ==
  ASSUME TypeOK, ControlInv, LockInv, WhereInv, PassedInv, [Next]_vars
  PROVE  PassedInv'
<1>e. Effect
  BY EffectStep
<1>t. i \in [Task -> Nat] /\ ri_vec \in [Task -> Seq(RpcId)]
  BY DEF TypeOK
<1>1. ASSUME NEW r \in RpcId, ran[r] = 1 \/ r \in dropped
      PROVE  ran'[r] = 1 \/ r \in dropped'
  <2>1. ~Nowhere(r)
    BY <1>1, SMTT(60) DEF Nowhere
  <2>2. Settled(r)
    BY <2>1, RpcAssumption, SMTT(60) DEF Settled, WhereInv, PlaceInv, CallAt, QueueAt, SlotAt, CallInv
  <2> QED BY <1>1, <1>e, <2>2, SettledStep
<1>2. ASSUME NEW x \in Task, pc'[x] \in {"xloop", "xrun"}, NEW k \in DOMAIN ri_vec'[x], k < i'[x],
             ri_vec'[x] \in Seq(RpcId)
      PROVE  ran'[ri_vec'[x][k]] = 1 \/ ri_vec'[x][k] \in dropped'
  <2>1. \/ pc[x] \in {"xloop", "xrun"} /\ ri_vec'[x] = ri_vec[x] /\ (i'[x] = i[x] \/ Passed(x))
        \/ i'[x] = 1
    BY <1>2, WalkStep DEF Walk
  <2>2. CASE i'[x] = 1
    BY <1>2, <2>2, SMTT(60)
  <2>3. CASE pc[x] \in {"xloop", "xrun"} /\ ri_vec'[x] = ri_vec[x] /\ k < i[x]
    <3>1. ran[ri_vec[x][k]] = 1 \/ ri_vec[x][k] \in dropped
      BY <1>2, <2>3 DEF PassedInv
    <3>2. ri_vec[x][k] \in RpcId
      BY <1>2, <1>t, <2>3, SMTT(60)
    <3> QED BY <1>1, <2>3, <3>1, <3>2
  <2>4. CASE pc[x] \in {"xloop", "xrun"} /\ ri_vec'[x] = ri_vec[x] /\ Passed(x) /\ ~(k < i[x])
    <3>1. k = i[x]
      BY <1>2, <1>t, <2>4, SMTT(60) DEF Passed
    <3> QED BY <2>4, <3>1 DEF Passed
  <2> QED BY <1>2, <2>1, <2>2, <2>3, <2>4
<1>3. \A x \in Task : ri_vec'[x] \in Seq(RpcId)
  BY TypeStep DEF TypeOK
<1> QED BY <1>2, <1>3 DEF PassedInv

-----------------------------------------------------------------------------
(* Where a slot waits, in terms of the queues.                             *)
LEMMA WaitingQueue ==
  ASSUME NEW r \in RpcId
  PROVE  Waiting(r) # {} <=> \E t \in Task : r \in Queue[t]
<1>1. \A t \in Task : Queue[t] = {ri_vec[t][k] : k \in Ready(t)}
  BY DEF Queue
<1>2. ASSUME NEW p \in Waiting(r) PROVE \E t \in Task : r \in Queue[t]
  <2>1. PICK t \in Task : \E k \in Ready(t) : p = <<t, k>> /\ ri_vec[t][k] = r
    BY <1>2, SMTT(60) DEF Waiting, Ready
  <2> QED BY <1>1, <2>1
<1>3. ASSUME NEW t \in Task, r \in Queue[t] PROVE Waiting(r) # {}
  <2>1. PICK k \in Ready(t) : ri_vec[t][k] = r
    BY <1>1, <1>3, SMTT(60)
  <2>2. <<t, k>> \in Waiting(r)
    BY <2>1, SMTT(60) DEF Waiting, Ready
  <2> QED BY <2>2
<1> QED BY <1>2, <1>3

-----------------------------------------------------------------------------
(* The inductive invariant.                                                *)
RpcInv ==
  /\ TypeOK /\ ControlInv /\ LockInv /\ WhereInv
  /\ SigInv /\ ResultInv /\ NoticeInv /\ PassedInv

(* No call was queued when the threads start.                              *)
LEMMA InitRpc == Init => RpcInv
<1> SUFFICES ASSUME Init PROVE RpcInv
  OBVIOUS
<1>i. /\ ri_vec = [t \in Task |-> <<>>] /\ pc = [t \in Task |-> "run"] /\ ret = [t \in Task |-> "run"]
      /\ cur = [t \in Task |-> NoRpc] /\ slot = [t \in Task |-> NoRpc] /\ t_state = [t \in Task |-> {}]
      /\ asleep = {} /\ saved = [t \in Task |-> "main"]
  BY DEF Init, SigInit
<1>j. \A t \in Task : /\ pc[t] = "run" /\ ret[t] = "run" /\ cur[t] = NoRpc /\ slot[t] = NoRpc
                      /\ t_state[t] = {} /\ saved[t] = "main"
  BY <1>i
<1>k. ASSUME NEW t \in Task PROVE ri_vec[t] = <<>> /\ DOMAIN ri_vec[t] = {}
  <2>1. ri_vec = [x \in Task |-> <<>>]
    BY <1>i
  <2>2. ri_vec[t] = <<>>
    BY <2>1
  <2> QED BY <2>2, SMTT(60)
<1>1. TypeOK
  <2>1. SigTypeOK
    BY SMTT(60) DEF Init, SigInit, SigTypeOK
  <2>2. <<>> \in Seq(RpcId) /\ Len(<<>>) = 0 /\ StaticSlots \in Nat \ {0}
    BY RpcAssumption, SMTT(60)
  <2>3. ri_vec \in [Task -> Seq(RpcId)] /\ ri_siz \in [Task -> Nat \ {0}] /\ \A t \in Task : Len(ri_vec[t]) <= ri_siz[t]
    BY <2>2, SMTT(60) DEF Init
  <2> QED BY <2>1, <2>3 DEF Init, TypeOK, PC
<1>2. ControlInv
  <2> SUFFICES ASSUME NEW t \in Task PROVE Control(t)
    BY DEF ControlInv
  <2>1. pc[t] = "run" /\ ret[t] = "run" /\ cur[t] = NoRpc /\ slot[t] = NoRpc /\ saved[t] = "main"
    BY <1>j
  <2> QED BY <1>i, <2>1 DEF Control, ServePC, CallPC, RunPC
<1>3. LockInv
  <2> SUFFICES ASSUME NEW t \in Task PROVE LockInv!(t)
    BY DEF LockInv
  <2>1. pc[t] = "run" /\ t_state[t] = {}
    BY <1>j
  <2> QED BY <2>1 DEF Holder, Locked, ExitPC
<1>q. \A t \in Task : Queue[t] = {}
  <2>1. \A t \in Task : Queue[t] = {ri_vec[t][k] : k \in Ready(t)}
    BY DEF Queue
  <2>2. ASSUME NEW t \in Task PROVE Queue[t] = {}
    <3>1. Ready(t) = {}
      BY <1>k DEF Ready
    <3>2. Queue[t] = {ri_vec[t][k] : k \in Ready(t)}
      BY <2>1
    <3> QED BY <3>1, <3>2
  <2> QED BY <2>2
<1>n. \A r \in RpcId : Nowhere(r)
  BY <1>q, RpcAssumption DEF Init, Nowhere, Pending
<1>4. WhereInv
  <2>1. VecInv
    <3> SUFFICES ASSUME NEW t \in Task PROVE VecInv!(t)
      BY DEF VecInv
    <3>1. DOMAIN ri_vec[t] = {} /\ pc[t] = "run"
      BY <1>j, <1>k
    <3> QED BY <3>1
  <2>2. PlaceInv
    BY <1>n, <1>q DEF Init, PlaceInv, CallAt, QueueAt, SlotAt
  <2>3. CallInv
    BY DEF Init, CallInv
  <2> QED BY <2>1, <2>2, <2>3 DEF WhereInv
<1>5. SigInv
  <2>1. \A s \in Sig : chain[s] = <<>>
    BY DEF Init, SigInit
  <2>2. \A s \in Sig : Connected(s) = {}
    BY <2>1, SMTT(60) DEF Connected
  <2>3. \A s \in Sig : OncePerTask(chain[s])
    BY <2>1, ConnsEmpty
  <2>4. ASSUME NEW t \in Task PROVE CallerInv(t)
    <3>1. tcs_sig[t] = NoSig /\ pc[t] = "run" /\ ret[t] = "run" /\ cur[t] = NoRpc
      BY DEF Init, SigInit
    <3> QED BY <2>2, <3>1 DEF CallerInv, AtWait
  <2> QED BY <2>3, <2>4 DEF SigInv
<1>6. ResultInv
  BY DEF Init, ResultInv, Answer
<1>7. NoticeInv
  <2>1. \A t \in Task : Noticed(t)
    BY <1>k DEF Noticed
  <2> QED BY <1>i, <2>1 DEF NoticeInv, NoSleepingTarget
<1>8. PassedInv
  BY DEF Init, PassedInv
<1> QED BY <1>1, <1>2, <1>3, <1>4, <1>5, <1>6, <1>7, <1>8 DEF RpcInv

(* Every step of every thread preserves the inductive invariant.           *)
LEMMA RpcStep == RpcInv /\ [Next]_vars => RpcInv'
<1> SUFFICES ASSUME RpcInv, [Next]_vars PROVE RpcInv'
  OBVIOUS
<1>0. TypeOK /\ ControlInv /\ LockInv /\ WhereInv /\ SigInv /\ ResultInv /\ NoticeInv /\ PassedInv
  BY DEF RpcInv
<1>1. TypeOK' /\ ControlInv' /\ LockInv' /\ WhereInv'
  BY <1>0, TypeStep, ControlStep, LockStep, WhereStep
<1>2. SigInv' /\ ResultInv'
  BY <1>0, <1>1, SigStep, ResultStep
<1>3. NoticeInv' /\ PassedInv'
  BY <1>0, NoticeStep, PassedStep
<1> QED BY <1>1, <1>2, <1>3 DEF RpcInv

(* The inductive invariant holds throughout.                               *)
LEMMA RpcInvariant == Spec => []RpcInv
<1> QED BY InitRpc, RpcStep, PTL DEF Spec

(* Until it is broadcast, the done-signal in a slot is that of a caller    *)
(* that is still in task_queue_rpc(), unless an exception made it leave:   *)
(* neither growth of the vector nor the exit of the target changes that.   *)
(* The last turn of sig_broadcast(), after the caller was woken, is not    *)
(* covered (DoneSigOutlives is false), and a behaviour in which it meets   *)
(* memory that was reused ends there.                                      *)
THEOREM DoneSigOwned == Spec => []DoneSigUntilTold
<1>1. RpcInv => DoneSigUntilTold
  <2> SUFFICES ASSUME RpcInv PROVE DoneSigUntilTold
    OBVIOUS
  <2>1. TypeOK /\ ResultInv
    BY DEF RpcInv
  <2>2. ASSUME NEW r \in RpcId, mode[r] # NoRpc, mode[r].sync,
               Waiting(r) # {} \/ \E t \in Task : slot[t] = r
        PROVE  result[r] = "throw" \/ \E t \in Task : cur[t] = r
    <3>1. PICK t \in Task : Pending(t, r)
      BY <2>2, WaitingQueue DEF Pending
    <3>2. result[r] \notin {"true", "false"} /\ (result[r] = "none" => \E u \in Task : cur[u] = r)
      BY <2>1, <2>2, <3>1 DEF ResultInv, Answer
    <3>3. result[r] \in {"none", "true", "false", "throw"}
      BY <2>1 DEF TypeOK
    <3> QED BY <3>2, <3>3
  <2> QED BY <2>2 DEF DoneSigUntilTold
<1> QED BY <1>1, RpcInvariant, PTL

(* A caller that waits for its done-signal waits for a call that is still  *)
(* to be executed, unless it was saving its connections when the signal    *)
(* was sent.  This holds up to a step that finds the vector freed, or the  *)
(* caller's frame left, and reused (`wild').                               *)
THEOREM CallersTold == Spec => []NoStrandedCaller
<1>1. RpcInv => NoStrandedCaller
  <2> SUFFICES ASSUME RpcInv PROVE NoStrandedCaller
    OBVIOUS
  <2>1. TypeOK /\ ControlInv /\ WhereInv /\ SigInv
    BY DEF RpcInv
  <2>2. ASSUME NEW t \in Task, t \notin raced, pc[t] = "wait" \/ ret[t] = "wait", tcs_sig[t] = NoSig
        PROVE  Waiting(cur[t]) # {} \/ \E u \in Task : slot[u] = cur[t]
    <3>1. AtWait(t) /\ Waits(t)
      BY <2>2 DEF AtWait, Waits
    <3>2. cur[t] \in RpcId /\ cur[t] \in Sig
      BY <2>1, <3>1, WaitsSettled, RpcAssumption DEF WhereInv
    <3>3. t \in Connected(cur[t])
      BY <2>1, <2>2, <3>1 DEF SigInv, CallerInv
    <3>4. Pending(thread[t], cur[t]) /\ thread[t] \in Task
      BY <2>1, <3>2, <3>3 DEF SigInv, CallerInv, TypeOK
    <3> QED BY <3>2, <3>4, WaitingQueue DEF Pending
  <2> QED BY <2>2 DEF NoStrandedCaller
<1> QED BY <1>1, RpcInvariant, PTL

(* No slot is forgotten: the thread that has it is marked as interrupted   *)
(* whenever the vector is not locked ...                                   *)
THEOREM SlotsNoticed == Spec => []NoForgottenRpc
<1>1. RpcInv => NoForgottenRpc
  BY DEF RpcInv, NoticeInv, Noticed, AllParked, NoForgottenRpc
<1> QED BY <1>1, RpcInvariant, PTL

(* ... and does not sleep on it: signal_interrupt() and task_sleep() have  *)
(* no gap between them.                                                    *)
THEOREM TargetsWoken == Spec => []NoSleepingTarget
<1>1. RpcInv => NoSleepingTarget
  BY DEF RpcInv, NoticeInv
<1> QED BY <1>1, RpcInvariant, PTL

(* Kernel calls of one thread are executed in the order they were queued   *)
(* in, in all three places that execute them.                              *)
THEOREM CallsInOrder == Spec => InOrder
<1>1. ASSUME RpcInv, [Next]_vars
      PROVE  \A t \in Task : slot'[t] \notin {slot[t], NoRpc} /\ ~User(slot'[t]) =>
               \A k \in DOMAIN ri_vec[t] :
                 (\E n \in DOMAIN ri_vec[t] : n > k /\ ri_vec[t][n] = slot'[t])
                   => User(ri_vec[t][k]) \/ ran[ri_vec[t][k]] = 1
  <2>1. TypeOK /\ ControlInv /\ LockInv /\ WhereInv /\ PassedInv
    BY <1>1 DEF RpcInv
  <2>2. ASSUME NEW t \in Task, slot'[t] \notin {slot[t], NoRpc}, NEW k \in DOMAIN ri_vec[t],
               NEW n \in DOMAIN ri_vec[t], n > k, ri_vec[t][n] = slot'[t]
        PROVE  User(ri_vec[t][k]) \/ ran[ri_vec[t][k]] = 1
    <3>1. Taken(t)
      BY <1>1, <2>1, <2>2, WalkStep DEF Walk
    <3>2. PICK m \in DOMAIN ri_vec[t] :
            /\ slot'[t] = ri_vec[t][m]
            /\ \/ pc[t] = "xloop" /\ m = i[t]
               \/ \A j \in DOMAIN ri_vec[t] : j < m => User(ri_vec[t][j])
      BY <3>1 DEF Taken
    <3>3. m = n
      BY <2>1, <2>2, <3>2 DEF WhereInv, VecInv
    <3>t. ri_vec[t] \in Seq(RpcId)
      BY <2>1 DEF TypeOK
    <3>4. k < m /\ ri_vec[t][k] \in RpcId
      BY <2>2, <3>3, <3>t, SMTT(60)
    <3>5. CASE pc[t] = "xloop" /\ m = i[t]
      <4>1. ran[ri_vec[t][k]] = 1 \/ ri_vec[t][k] \in dropped
        BY <2>1, <3>4, <3>5 DEF PassedInv
      <4> QED BY <2>1, <3>4, <4>1 DEF WhereInv, PlaceInv, CallAt, QueueAt, SlotAt
    <3> QED BY <3>2, <3>4, <3>5
  <2> QED BY <2>2
<1>2. RpcInv /\ [Next]_vars =>
        [\A t \in Task : slot'[t] \notin {slot[t], NoRpc} /\ ~User(slot'[t]) =>
           \A k \in DOMAIN ri_vec[t] :
             (\E n \in DOMAIN ri_vec[t] : n > k /\ ri_vec[t][n] = slot'[t])
               => User(ri_vec[t][k]) \/ ran[ri_vec[t][k]] = 1]_vars
  BY <1>1
<1> QED BY <1>2, RpcInvariant, PTL DEF Spec, InOrder

-----------------------------------------------------------------------------
INSTANCE FiniteSetTheorems

(* The fate of a call: one, unless it is nowhere.                          *)
LEMMA FateOne ==
  ASSUME TypeOK, ControlInv, WhereInv, NEW r \in RpcId
  PROVE  /\ Nowhere(r) => Fate(r) = 0
         /\ ~Nowhere(r) => Fate(r) = 1
<1>v. VecInv /\ PlaceInv
  BY DEF WhereInv
<1>r. r # NoRpc /\ ran[r] \in {0, 1} /\ (r \in dropped => ran[r] = 0)
  BY <1>v, RpcAssumption DEF PlaceInv, CallAt, QueueAt, SlotAt
<1> DEFINE Run == {t \in Task : slot[t] = r /\ pc[t] = "rpc"}
<1>0. Fate(r) = Cardinality(Waiting(r)) + Cardinality(Run) + ran[r] + (IF r \in dropped THEN 1 ELSE 0)
  BY DEF Fate
<1>q. \A t \in Task : Queue[t] = {ri_vec[t][k] : k \in Ready(t)}
  BY DEF Queue
<1>1. ASSUME NEW t \in Task, r \in Queue[t]
      PROVE  Fate(r) = 1 /\ ~Nowhere(r)
  <2>1. ran[r] = 0 /\ r \notin dropped /\ (\A u \in Task : r \in Queue[u] => u = t)
        /\ \A u \in Task : slot[u] = r => pc[u] = "xrun"
    BY <1>1, <1>v, SMTT(60) DEF PlaceInv, CallAt, QueueAt, SlotAt
  <2>2. PICK k \in Ready(t) : ri_vec[t][k] = r
    BY <1>1, <1>q, SMTT(60)
  <2>3. <<t, k>> \in Waiting(r)
    BY <2>2, SMTT(60) DEF Waiting, Ready
  <2>4. ASSUME NEW p \in Waiting(r) PROVE p = <<t, k>>
    <3>1. PICK u \in Task : \E j \in Ready(u) : p = <<u, j>> /\ ri_vec[u][j] = r
      BY <2>4, SMTT(60) DEF Waiting, Ready
    <3>2. PICK j \in Ready(u) : p = <<u, j>> /\ ri_vec[u][j] = r
      BY <3>1
    <3>3. u = t
      BY <1>q, <2>1, <3>2
    <3>4. j = k
      BY <1>v, <2>2, <3>2, <3>3, SMTT(60) DEF VecInv, Ready
    <3> QED BY <3>2, <3>3, <3>4
  <2>5. Waiting(r) = {<<t, k>>}
    BY <2>3, <2>4
  <2>6. Run = {}
    BY <2>1
  <2>7. Cardinality(Waiting(r)) = 1 /\ Cardinality(Run) = 0
    <3>1. Cardinality({<<t, k>>}) = 1 /\ Cardinality({}) = 0
      BY FS_Singleton, FS_EmptySet
    <3> QED BY <2>5, <2>6, <3>1
  <2> HIDE DEF Run
  <2>8. Fate(r) = 1
    BY <1>0, <2>1, <2>7, SMTT(60)
  <2> QED BY <1>1, <2>8 DEF Nowhere, Pending
<1>2. ASSUME \A t \in Task : r \notin Queue[t]
      PROVE  Cardinality(Waiting(r)) = 0
  <2>1. Waiting(r) = {}
    BY <1>2, WaitingQueue
  <2> QED BY <2>1, FS_EmptySet
<1>3. ASSUME \A t \in Task : r \notin Queue[t], NEW t \in Task, slot[t] = r, pc[t] = "rpc"
      PROVE  Fate(r) = 1 /\ ~Nowhere(r)
  <2>1. ran[r] = 0 /\ r \notin dropped /\ \A u \in Task : slot[u] = r => u = t
    BY <1>3, <1>r, <1>v DEF PlaceInv, CallAt, QueueAt, SlotAt
  <2>2. Run = {t}
    BY <1>3, <2>1
  <2>3. Cardinality(Run) = 1
    <3>1. Cardinality({t}) = 1
      BY FS_Singleton
    <3> QED BY <2>2, <3>1
  <2> HIDE DEF Run
  <2>4. Fate(r) = 1
    BY <1>0, <1>2, <1>3, <2>1, <2>3, SMTT(60)
  <2> QED BY <1>3, <2>4 DEF Nowhere, Pending
<1>4. ASSUME \A t \in Task : r \notin Queue[t], \A t \in Task : ~(slot[t] = r /\ pc[t] = "rpc")
      PROVE  (Nowhere(r) => Fate(r) = 0) /\ (~Nowhere(r) => Fate(r) = 1)
  <2>1. Run = {}
    BY <1>4
  <2>2. Cardinality(Run) = 0
    BY <2>1, FS_EmptySet
  <2>3. ASSUME NEW t \in Task, slot[t] = r PROVE ran[r] = 1
    <3>1. pc[t] \in RunPC
      BY <1>r, <2>3 DEF ControlInv, Control
    <3>2. pc[t] # "xrun"
      BY <1>4, <1>r, <1>v, <2>3 DEF PlaceInv, CallAt, QueueAt, SlotAt
    <3>3. pc[t] \in {"done", "thrown"}
      BY <1>4, <2>3, <3>1, <3>2 DEF RunPC
    <3> QED BY <1>r, <1>v, <2>3, <3>3 DEF PlaceInv, CallAt, QueueAt, SlotAt
  <2>4. Nowhere(r) <=> ran[r] = 0 /\ r \notin dropped
    <3>1. ASSUME ran[r] = 0, NEW t \in Task, slot[t] = r PROVE FALSE
      <4>1. ran[r] = 1
        BY <2>3, <3>1
      <4> QED BY <3>1, <4>1, SMTT(60)
    <3> QED BY <1>4, <3>1 DEF Nowhere, Pending
  <2> HIDE DEF Run
  <2>5. Fate(r) = 0 + 0 + ran[r] + (IF r \in dropped THEN 1 ELSE 0)
    BY <1>0, <1>2, <1>4, <2>2
  <2> QED BY <1>r, <2>4, <2>5, SMTT(60)
<1> QED BY <1>1, <1>3, <1>4

(* However callers, exits, callbacks that throw and vectors that are       *)
(* replaced interleave: a call is executed at most once, one that          *)
(* task_queue_rpc() accepted is somewhere, and only task_serve_before_exit *)
(* gives calls up, of user-space only.                                     *)
THEOREM CallsOnce == Spec => [](TypeOK /\ ExactlyOnce)
<1>1. RpcInv => TypeOK /\ ExactlyOnce
  <2> SUFFICES ASSUME RpcInv PROVE TypeOK /\ ExactlyOnce
    OBVIOUS
  <2>1. TypeOK /\ ControlInv /\ WhereInv /\ ResultInv
    BY DEF RpcInv
  <2>2. ASSUME NEW r \in RpcId
        PROVE  Fate(r) <= 1 /\ (result[r] = "true" => Fate(r) = 1) /\ (r \in dropped => User(r))
    <3>1. (Nowhere(r) => Fate(r) = 0) /\ (~Nowhere(r) => Fate(r) = 1)
      BY <2>1, FateOne
    <3>2. Fate(r) <= 1
      BY <3>1, SMTT(60)
    <3>3. result[r] = "true" => ~Nowhere(r)
      BY <2>1 DEF ResultInv, Answer
    <3>4. r \in dropped => User(r)
      BY <2>1 DEF WhereInv, PlaceInv, CallAt, QueueAt, SlotAt
    <3> QED BY <3>1, <3>2, <3>3, <3>4
  <2> QED BY <2>1, <2>2 DEF ExactlyOnce
<1> QED BY <1>1, RpcInvariant, PTL

(* What task_queue_rpc() returns for a synchronous kernel call is true:    *)
(* it was executed, or never will be.                                      *)
THEOREM SyncAnswer == Spec => []SyncTruth
<1>1. RpcInv => SyncTruth
  <2> SUFFICES ASSUME RpcInv PROVE SyncTruth
    OBVIOUS
  <2>1. TypeOK /\ ControlInv /\ WhereInv /\ ResultInv
    BY DEF RpcInv
  <2>2. ASSUME NEW r \in RpcId, mode[r] # NoRpc, ~User(r), mode[r].sync
        PROVE  (result[r] = "true" => ran[r] = 1) /\ (result[r] = "false" => Fate(r) = 0)
    <3>1. (result[r] = "true" => ran[r] = 1) /\ (result[r] = "false" => Nowhere(r))
      BY <2>1, <2>2 DEF ResultInv, Answer
    <3> QED BY <2>1, <3>1, FateOne
  <2> QED BY <2>2 DEF SyncTruth
<1> QED BY <1>1, RpcInvariant, PTL
=============================================================================
