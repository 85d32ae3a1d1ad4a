----------------------------- MODULE RpcPlaces -----------------------------
(***************************************************************************)
(* Where the remote procedure calls of threads are, for any number of      *)
(* threads, calls and slots: the places a thread can be at, who holds the  *)
(* lock of a vector, where each call is, and what a step does to the       *)
(* calls.  RpcProofs builds on this.                                       *)
(***************************************************************************)
EXTENDS Rpc, TaskSignalProofs

(* A leaf is proved by Zenon unless it names another prover; the limits    *)
(* are generous since they are of wall-clock time.                         *)
USE ZenonT(60)

(* Inside task_serve(); inside task_queue_rpc(); where a slot is being     *)
(* executed; and past the point where task_serve_before_exit() has taken   *)
(* the lock.                                                               *)
ServePC == {"push", "serve", "rpc", "done", "thrown", "pop", "unwind"}
CallPC == {"lock", "grow", "connect", "signal", "wake", "nack", "wait"}
RunPC == {"rpc", "done", "thrown", "xrun"}
ExitPC == {"xloop", "xrun", "xend", "dead"}

(* How the places a thread can be at depend on each other. *)
Control(t) ==
  /\ ret[t] \in {"run", "lock", "grow", "wait", "user", "timer"}
  /\ ret[t] \in {"lock", "grow", "wait"} => pc[t] \in ServePC
  /\ ret[t] \in {"user", "timer"} => pc[t] \in {"user", "rpc", "done", "thrown"}
  /\ pc[t] = "push" => ret[t] = "wait"
  /\ pc[t] = "user" => ret[t] \in {"user", "timer"}
  /\ saved[t] = "moving" => pc[t] = "push"
  /\ t \in asleep => pc[t] \in {"run", "wait"}
  /\ cur[t] # NoRpc <=> pc[t] \in CallPC \/ ret[t] \in {"lock", "grow", "wait"}
  /\ slot[t] # NoRpc <=> pc[t] \in RunPC
  /\ pc[t] \in {"xloop", "xrun"} => i[t] # 0

ControlInv == \A t \in Task : Control(t)

(* The lock of a vector belongs to the one thread that reserves a slot in  *)
(* it; a thread that has passed the lock in task_serve_before_exit() is    *)
(* never locked again; and what the TERMINAT* bits say.                    *)
Holder(t) == pc[t] \in {"connect", "signal"}

LockInv ==
  \A t \in Task :
    /\ Holder(t) => Locked(thread[t])
    /\ \A u \in Task : Holder(t) /\ Holder(u) /\ thread[t] = thread[u] => t = u
    /\ pc[t] \in ExitPC => ~Locked(t)
    /\ pc[t] \in ExitPC \cup {"xlock"} => "TERMINATING" \in t_state[t]
    /\ "TERMINATED" \in t_state[t] <=> pc[t] = "dead"
    /\ pc[t] = "nack" => "TERMINATED" \in t_state[thread[t]]
    /\ pc[t] \in {"xend", "dead"} => ri_vec[t] = <<>>

(* The calls whose slots are still to be taken from the vector of a thread *)
(* (task_serve_before_exit() only counts i up), and whether a call is      *)
(* pending at a thread, or has left no trace at all.                       *)
Ready(t) == {k \in DOMAIN ri_vec[t] : pc[t] \in {"xloop", "xrun"} => k >= i[t]}
Queue == [t \in Task |-> {ri_vec[t][k] : k \in Ready(t)}]

Pending(t, r) == r \in Queue[t] \/ slot[t] = r
Nowhere(r) == ran[r] = 0 /\ r \notin dropped /\ \A t \in Task : ~Pending(t, r)

(* No two slots of a vector are of the same call, and the slot that        *)
(* task_serve_before_exit() executes is the one at index i.                *)
VecInv ==
  \A t \in Task :
    /\ \A j, k \in DOMAIN ri_vec[t] : ri_vec[t][j] = ri_vec[t][k] => j = k
    /\ pc[t] = "xrun" => i[t] \in DOMAIN ri_vec[t] /\ slot[t] = ri_vec[t][i[t]]

(* A call is in one place only: it waits in one vector, is being executed  *)
(* by one thread, was executed or was given up.                            *)
CallAt(r) ==
  /\ ran[r] \in {0, 1}
  /\ r \in dropped => ran[r] = 0 /\ User(r)
  /\ mode[r] = NoRpc => Nowhere(r) /\ result[r] = "none"

QueueAt(t, r) ==
  /\ ran[r] = 0 /\ r \notin dropped
  /\ \A u \in Task : r \in Queue[u] => u = t
  /\ \A u \in Task : slot[u] = r => u = t /\ pc[u] = "xrun"

SlotAt(t) ==
  /\ \A u \in Task : slot[u] = slot[t] => u = t
  /\ slot[t] \notin dropped
  /\ pc[t] = "rpc" => ran[slot[t]] = 0
  /\ pc[t] \in {"done", "thrown"} => ran[slot[t]] = 1
  /\ pc[t] = "xrun" => slot[t] \in Queue[t] /\ ~User(slot[t])

PlaceInv ==
  /\ \A r \in RpcId : CallAt(r)
  /\ \A t \in Task : \A r \in Queue[t] : QueueAt(t, r)
  /\ \A t \in Task : slot[t] # NoRpc => SlotAt(t)

(* A call that task_queue_rpc() works on is nowhere before rpc_alloc()     *)
(* reserves its slot, and somewhere from then on.                          *)
Unqueued(t) == pc[t] \in {"lock", "grow"} \/ ret[t] \in {"lock", "grow"}

CallInv ==
  \A t \in Task : cur[t] # NoRpc =>
    /\ mode[cur[t]] # NoRpc /\ result[cur[t]] = "none"
    /\ \A u \in Task : cur[u] = cur[t] => u = t
    /\ Unqueued(t) <=> Nowhere(cur[t])

USE DEF GoTo, Set, Clear

-----------------------------------------------------------------------------
(* Closing the gap that the slot at index k leaves. *)
LEMMA CloseGapProps ==
  ASSUME NEW S, NEW v \in Seq(S), NEW k \in 1 .. Len(v)
  PROVE  /\ CloseGap(v, k) \in Seq(S)
         /\ Len(CloseGap(v, k)) = Len(v) - 1
         /\ DOMAIN CloseGap(v, k) = 1 .. Len(v) - 1
         /\ \A n \in 1 .. Len(v) - 1 : CloseGap(v, k)[n] = v[IF n < k THEN n ELSE n + 1]
<1> DEFINE w == CloseGap(v, k)
<1>1. Len(v) - 1 \in Nat
  BY SMTT(60)
<1>2. /\ DOMAIN w = 1 .. Len(v) - 1
      /\ \A n \in 1 .. Len(v) - 1 : w[n] = v[IF n < k THEN n ELSE n + 1]
  BY DEF CloseGap
<1>3. \A n \in 1 .. Len(v) - 1 : v[IF n < k THEN n ELSE n + 1] \in S
  BY SMTT(60)
<1>4. w \in [1 .. Len(v) - 1 -> S]
  BY <1>3 DEF CloseGap
<1> HIDE DEF w
<1>5. w \in Seq(S) /\ Len(w) = Len(v) - 1
  BY <1>1, <1>4, SMTT(60)
<1> QED BY <1>2, <1>5 DEF w

(* A broadcast through a done-signal keeps the types, and wakes at most.   *)
LEMMA AnnounceType ==
  ASSUME SigTypeOK, NEW r \in RpcId, NEW s \in Sig, Announce(r, s), asleep \subseteq Task, raced \subseteq Task
  PROVE  SigTypeOK' /\ asleep' \subseteq asleep /\ raced' \subseteq Task /\ saved' = saved
<1>1. r \in Sig
  BY RpcAssumption
<1>2. chain[r] \in Seq(Connection)
  BY <1>1 DEF SigTypeOK
<1>3. Connected(r) \subseteq Task
  <2>1. \A c \in Connection : c.task \in Task
    BY DEF Connection
  <2>2. \A n \in DOMAIN chain[r] : chain[r][n] \in Connection
    BY <1>2, SMTT(60)
  <2> QED BY <2>1, <2>2 DEF Connected
<1>4. CASE UNCHANGED <<sigVars, asleep, raced>>
  BY <1>4 DEF SigTypeOK, sigVars
<1>5. CASE ~UNCHANGED <<sigVars, asleep, raced>>
  <2>1. /\ chain' = [chain EXCEPT ![r] = <<>>]
        /\ tcs_sig' = [t \in Task |-> IF t \in Connected(r) /\ tcs_sig[t] = NoSig /\ saved[t] # "moving"
                                      THEN s ELSE tcs_sig[t]]
        /\ asleep' \subseteq asleep /\ raced' \subseteq raced \cup Connected(r)
        /\ saved' = saved
    BY <1>5 DEF Announce
  <2>2. chain' \in [Sig -> Seq(Connection)]
    <3>1. <<>> \in Seq(Connection) /\ chain \in [Sig -> Seq(Connection)]
      BY SMTT(60) DEF SigTypeOK
    <3>2. chain' = [chain EXCEPT ![r] = <<>>]
      BY <2>1
    <3> QED BY <1>1, <3>1, <3>2
  <2>3. tcs_sig' \in [Task -> Sig \cup {NoSig}]
    <3>1. \A t \in Task : tcs_sig'[t] \in Sig \cup {NoSig}
      BY <2>1 DEF SigTypeOK
    <3> QED BY <2>1, <3>1
  <2> QED BY <1>3, <2>1, <2>2, <2>3 DEF SigTypeOK
<1> QED BY <1>4, <1>5

-----------------------------------------------------------------------------
USE DEF Return, LeaveKernel

(* task_serve() and task_serve_before_user() take a slot that is there,    *)
(* and overtake nothing but user calls.                                    *)
LEMMA ServeTakeCases ==
  ASSUME TypeOK, NEW t \in Task, ServeTake(t)
  PROVE  \/ /\ \/ ri_vec[t] = <<>>
               \/ t \in nosignals /\ \A k \in DOMAIN ri_vec[t] : mode[ri_vec[t][k]].flag = "uasync"
            /\ Clear(t, {"INTERRUPTED"}) /\ GoTo(t, "pop") /\ UNCHANGED <<slot, ri_vec>>
         \/ \E k \in 1 .. Len(ri_vec[t]) :
               /\ Take(t, k) /\ Set(t, {"INRPC"})
               /\ \A j \in 1 .. Len(ri_vec[t]) : j < k => User(ri_vec[t][j])
         \/ /\ IF t \in nothrow THEN Set(t, {"SERVEEXCEPT"}) /\ GoTo(t, "pop")
                               ELSE GoTo(t, "unwind") /\ UNCHANGED t_state
            /\ UNCHANGED <<slot, ri_vec>>
<1> DEFINE v == ri_vec[t]
           rest == {k \in 2 .. Len(v) : mode[v[k]].flag # "uasync"}
<1>1. v \in Seq(RpcId) /\ Len(v) \in Nat /\ DOMAIN v = 1 .. Len(v)
  BY SMTT(60) DEF TypeOK
<1>2. v # <<>> => Head(v) = v[1] /\ 1 \in 1 .. Len(v)
  BY <1>1, SMTT(60)
<1>3. CASE v # <<>> /\ (~User(Head(v)) \/ (Parked(t, Head(v)) /\ rest # {}))
  <2> DEFINE fit == IF User(Head(v)) THEN rest ELSE DOMAIN v
  <2>1. PICK k \in DOMAIN v : First(k, fit) /\ Take(t, k) /\ Set(t, {"INRPC"})
    BY <1>3 DEF ServeTake, Parked, User
  <2>2. ASSUME User(Head(v))
        PROVE  k \in 1 .. Len(v) /\ \A j \in 1 .. Len(v) : j < k => User(v[j])
    <3>1. mode[v[1]].flag = "uasync"
      BY <1>2, <1>3, <2>2 DEF Parked
    <3>2. k \in rest /\ \A j \in rest : k <= j
      BY <2>1, <2>2 DEF First
    <3>3. k \in 2 .. Len(v) /\ \A j \in 2 .. Len(v) : j < k => mode[v[j]].flag = "uasync"
      BY <1>1, <3>2, SMTT(60)
    <3> QED BY <1>1, <3>1, <3>3, SMTT(60) DEF User
  <2>3. ASSUME ~User(Head(v))
        PROVE  k \in 1 .. Len(v) /\ \A j \in 1 .. Len(v) : j < k => User(v[j])
    <3>1. \A j \in DOMAIN v : k <= j
      BY <2>1, <2>3 DEF First
    <3> QED BY <1>1, <1>2, <1>3, <2>1, <3>1, SMTT(60)
  <2> HIDE DEF rest
  <2> QED BY <2>1, <2>2, <2>3
<1>4. CASE v = <<>> \/ (v # <<>> /\ Parked(t, Head(v)) /\ rest = {})
  <2>1. Clear(t, {"INTERRUPTED"}) /\ GoTo(t, "pop") /\ UNCHANGED <<slot, ri_vec>>
    BY <1>4 DEF ServeTake, Parked, User
  <2>2. ASSUME v # <<>>, Parked(t, Head(v)), rest = {}
        PROVE  t \in nosignals /\ \A k \in DOMAIN v : mode[v[k]].flag = "uasync"
    <3>1. t \in nosignals /\ mode[v[1]].flag = "uasync"
      BY <1>2, <2>2 DEF Parked
    <3>2. \A k \in 1 .. Len(v) : k = 1 \/ k \in 2 .. Len(v)
      BY <1>1, SMTT(60)
    <3> QED BY <1>1, <2>2, <3>1, <3>2
  <2> QED BY <1>4, <2>1, <2>2
<1>5. CASE v # <<>> /\ User(Head(v)) /\ ~Parked(t, Head(v))
  BY <1>5 DEF ServeTake
<1> HIDE DEF rest
<1> QED BY <1>3, <1>4, <1>5

(* The loops of task_serve_before_user(): the thread leaves the kernel, or *)
(* takes a slot before which there are calls of user-space only.           *)
LEMMA UserTakeCases ==
  ASSUME TypeOK, NEW t \in Task, UserTake(t)
  PROVE  \/ /\ ri_vec[t] = <<>>
            /\ Clear(t, {"INTERRUPTED"}) /\ LeaveKernel(t) /\ UNCHANGED <<slot, ri_vec>>
         \/ LeaveKernel(t) /\ UNCHANGED <<t_state, slot, ri_vec>>
         \/ \E k \in 1 .. Len(ri_vec[t]) :
               /\ Take(t, k) /\ UNCHANGED <<t_state, ret>>
               /\ \A j \in 1 .. Len(ri_vec[t]) : j < k => User(ri_vec[t][j])
<1> DEFINE v == ri_vec[t]
           fit == {k \in 1 .. Len(v) : ret[t] = "user" \/ mode[v[k]].flag # "usync"}
<1>1. v \in Seq(RpcId) /\ Len(v) \in Nat
  BY SMTT(60) DEF TypeOK
<1>2. CASE v # <<>> /\ fit # {} /\ ~Parked(t, Head(v))
  <2>1. PICK k \in DOMAIN v : First(k, fit) /\ Take(t, k) /\ UNCHANGED <<t_state, ret>>
    BY <1>2 DEF UserTake
  <2>3. k \in fit /\ \A j \in fit : k <= j
    BY <2>1 DEF First
  <2>4. k \in 1 .. Len(v) /\ \A j \in 1 .. Len(v) : j < k => mode[v[j]].flag = "usync"
    BY <1>1, <2>3, SMTT(60)
  <2> QED BY <2>1, <2>4 DEF User
<1>3. CASE ~(v # <<>> /\ fit # {} /\ ~Parked(t, Head(v)))
  BY <1>3 DEF UserTake
<1> QED BY <1>2, <1>3

(* task_serve_before_exit() is through with the vector, gives a user call  *)
(* up or begins to execute a kernel call.                                  *)
LEMMA ExitLoopCases ==
  ASSUME TypeOK, NEW t \in Task, i[t] # 0, ExitLoop(t)
  PROVE  \/ /\ i[t] > Len(ri_vec[t])
            /\ ri_vec' = [ri_vec EXCEPT ![t] = <<>>] /\ i' = [i EXCEPT ![t] = 0]
            /\ Clear(t, {"INRPC"}) /\ GoTo(t, "xend")
            /\ UNCHANGED <<sigVars, slot, vec, asleep, dropped, raced, sends>>
         \/ \E r \in RpcId :
              /\ i[t] \in 1 .. Len(ri_vec[t]) /\ r = ri_vec[t][i[t]] /\ User(r)
              /\ Announce(r, join_signal) /\ Broadcast(t, r, join_signal) /\ wild' \in BOOLEAN
              /\ dropped' = dropped \cup {r}
              /\ i' = [i EXCEPT ![t] = @ + 1]
              /\ UNCHANGED <<ri_vec, t_state, slot, vec, pc>>
         \/ \E r \in RpcId :
              /\ i[t] \in 1 .. Len(ri_vec[t]) /\ r = ri_vec[t][i[t]] /\ ~User(r)
              /\ slot' = [slot EXCEPT ![t] = r] /\ vec' = [vec EXCEPT ![t] = ri_siz[t]]
              /\ GoTo(t, "xrun")
              /\ UNCHANGED <<sigVars, ri_vec, t_state, i, asleep, dropped, raced, sends>>
<1>1. ri_vec[t] \in Seq(RpcId) /\ i[t] \in Nat
  BY DEF TypeOK
<1>2. i[t] <= Len(ri_vec[t]) => i[t] \in 1 .. Len(ri_vec[t]) /\ ri_vec[t][i[t]] \in RpcId
  BY <1>1, SMTT(60)
<1> QED BY <1>2 DEF ExitLoop, Broadcast, Use

-----------------------------------------------------------------------------
(* Nothing changes but what is known of a broadcast. *)
Frozen ==
  UNCHANGED <<sigVars, t_state, flags, info, call, exec, pc, ret, asleep, result, ran, dropped, raced>>

(* A step is one of the code, or the last turn of a broadcast. *)
LEMMA NextCases ==
  ASSUME [Next]_vars
  PROVE  Frozen \/ \E t \in Task : Act(t)
BY DEF Next, BroadcastEnd, vars, hist, Frozen

(* Only four actions have to do with a broadcast, or with memory that is   *)
(* reused.                                                                 *)
LEMMA SendsFrame ==
  ASSUME NEW t \in Task, Act(t)
  PROVE  UNCHANGED sends \/ RpcGrow(t) \/ CallbackDone(t) \/ ExitLoop(t) \/ ExitRun(t)
<1>1. CASE Step(t)
  BY <1>1 DEF Step, hist, RpcAlloc, ConnectDone, SignalInterrupt, WakeTarget, Nack, WaitDone, ServeBegin,
              ServePush, ServeTake, UserTake, Callback, ServePop, ServeUnwind, ExitLock, ExitEnd
<1>2. CASE ~Step(t)
  BY <1>2 DEF Act, hist, QueueRpc, ReturnToUser, Sleep, Resume, SetNosignals, ClearNosignals,
              NothrowServe, NothrowEnd, Exit
<1> QED BY <1>1, <1>2

(* The types of what is known of a broadcast. *)
LEMMA SendsType ==
  ASSUME TypeOK, ControlInv, [Next]_vars
  PROVE  sending' \in [Task -> RpcId \cup {NoRpc}] /\ wild' \in BOOLEAN
<1>t. /\ sending \in [Task -> RpcId \cup {NoRpc}] /\ wild \in BOOLEAN
      /\ slot \in [Task -> RpcId \cup {NoRpc}] /\ ri_vec \in [Task -> Seq(RpcId)]
  BY DEF TypeOK
<1>u. \A b : Use(b) => wild' \in BOOLEAN
  BY DEF Use
<1>b. ASSUME NEW t \in Task, NEW r \in RpcId \cup {NoRpc}, NEW s, Broadcast(t, r, s)
      PROVE  sending' \in [Task -> RpcId \cup {NoRpc}]
  BY <1>b, <1>t DEF Broadcast
<1>1. CASE UNCHANGED vars
  BY <1>1, <1>t DEF vars, hist, sends
<1>2. ASSUME NEW t \in Task, BroadcastEnd(t)
      PROVE  sending' \in [Task -> RpcId \cup {NoRpc}] /\ wild' \in BOOLEAN
  BY <1>2, <1>t, <1>u DEF BroadcastEnd
<1>3. ASSUME NEW t \in Task, RpcGrow(t)
      PROVE  sending' \in [Task -> RpcId \cup {NoRpc}] /\ wild' \in BOOLEAN
  BY <1>3, <1>t, <1>u DEF RpcGrow
<1>4. ASSUME NEW t \in Task, CallbackDone(t) \/ ExitRun(t)
      PROVE  sending' \in [Task -> RpcId \cup {NoRpc}] /\ wild' \in BOOLEAN
  <2>1. Broadcast(t, slot[t], slot[t]) /\ wild' \in BOOLEAN
    BY <1>4, <1>u DEF CallbackDone, ExitRun
  <2> QED BY <1>b, <1>t, <2>1
<1>5. ASSUME NEW t \in Task, ExitLoop(t)
      PROVE  sending' \in [Task -> RpcId \cup {NoRpc}] /\ wild' \in BOOLEAN
  <2>1. i[t] # 0
    BY <1>5 DEF ExitLoop, ControlInv, Control
  <2>2. CASE UNCHANGED sends
    BY <1>t, <2>2 DEF sends
  <2>3. CASE \E r \in RpcId : Broadcast(t, r, join_signal) /\ wild' \in BOOLEAN
    BY <1>b, <2>3
  <2> QED BY <1>5, <2>1, <2>2, <2>3, ExitLoopCases
<1>6. ASSUME NEW t \in Task, Act(t)
      PROVE  sending' \in [Task -> RpcId \cup {NoRpc}] /\ wild' \in BOOLEAN
  <2>1. CASE UNCHANGED sends
    BY <1>t, <2>1 DEF sends
  <2> QED BY <1>3, <1>4, <1>5, <1>6, <2>1, SendsFrame
<1> QED BY <1>1, <1>2, <1>6 DEF Next

(* Every step keeps ControlInv.  A step that moves one thread concerns     *)
(* only that one.                                                          *)
LEMMA ControlStep ==
  ASSUME TypeOK, ControlInv, [Next]_vars
  PROVE  ControlInv'
<1> HIDE DEF GoTo, Return, LeaveKernel
<1>t. /\ pc \in [Task -> PC] /\ ret \in [Task -> PC \cup {"timer"}]
      /\ cur \in [Task -> RpcId \cup {NoRpc}] /\ slot \in [Task -> RpcId \cup {NoRpc}]
      /\ saved \in [Task -> {"main", "moving", "saved"}] /\ i \in [Task -> Nat]
  BY DEF TypeOK, SigTypeOK
<1>s. asleep \subseteq Task /\ raced \subseteq Task /\ SigTypeOK /\ NoRpc \notin RpcId /\ RpcId \subseteq Sig
  BY RpcAssumption DEF TypeOK
<1>r. \A t \in Task : \A k \in 1 .. Len(ri_vec[t]) : ri_vec[t][k] \in RpcId
  <2>1. ri_vec \in [Task -> Seq(RpcId)]
    BY DEF TypeOK
  <2> QED BY <2>1, SMTT(60)
<1>c. \A t \in Task : Control(t)
  BY DEF ControlInv
<1> DEFINE Others(t) == \A u \in Task : u # t =>
                          /\ pc'[u] = pc[u] /\ ret'[u] = ret[u] /\ cur'[u] = cur[u] /\ slot'[u] = slot[u]
                          /\ saved'[u] = saved[u] /\ i'[u] = i[u] /\ (u \in asleep' => u \in asleep)
           Awake(t) == t \in asleep' => t \in asleep
           Same(t) == ret'[t] = ret[t] /\ cur'[t] = cur[t] /\ slot'[t] = slot[t] /\ saved'[t] = saved[t] /\ i'[t] = i[t]
<1>g. \A t \in Task : \A l : GoTo(t, l) => pc'[t] = l /\ \A u \in Task : u # t => pc'[u] = pc[u]
  BY <1>t DEF GoTo
<1>o. ASSUME NEW t \in Task, Others(t), Control(t)'
      PROVE  ControlInv'
  <2>1. ASSUME NEW u \in Task, u # t PROVE Control(u)'
    <3>1. Control(u)
      BY <1>c
    <3> QED BY <1>o, <2>1, <3>1 DEF Control
  <2> QED BY <1>o, <2>1 DEF ControlInv
(* The thread goes elsewhere, and nothing else about it changes.           *)
<1>m. ASSUME NEW t \in Task, NEW l \in PC, GoTo(t, l), UNCHANGED <<ret, cur, slot, saved, i>>, asleep' \subseteq asleep,
             \/ pc[t] \in {"run", "cleared", "xlock", "xend"} /\ t \notin asleep
                /\ l \in {"run", "cleared", "xlock", "dead"}
             \/ pc[t] \in CallPC /\ l \in CallPC /\ t \notin asleep
             \/ pc[t] = "rpc" /\ l \in {"done", "thrown"}
             \/ pc[t] = "serve" /\ l \in {"pop", "unwind"}
      PROVE  ControlInv'
  <2>1. Others(t) /\ Same(t) /\ Awake(t) /\ pc'[t] = l
    BY <1>g, <1>m
  <2>2. Control(t)
    BY <1>c
  <2>3. Control(t)'
    BY <1>m, <2>1, <2>2 DEF Control, ServePC, CallPC, RunPC
  <2> QED BY <1>o, <2>1, <2>3
(* task_queue_rpc() returns.                                               *)
<1>l. ASSUME NEW t \in Task, cur' = [cur EXCEPT ![t] = NoRpc], GoTo(t, "run"), pc[t] \in CallPC,
             UNCHANGED <<ret, slot, saved, i>>, asleep' \subseteq asleep
      PROVE  ControlInv'
  <2>1. Others(t)
    BY <1>g, <1>l, <1>t
  <2>2. pc'[t] = "run" /\ cur'[t] = NoRpc
    BY <1>g, <1>l, <1>t
  <2>3. Control(t)
    BY <1>c
  <2>4. Control(t)'
    BY <1>l, <2>2, <2>3 DEF Control, ServePC, CallPC, RunPC
  <2> QED BY <1>o, <2>1, <2>4
(* Where a slot is taken to be executed.                                   *)
<1>k. ASSUME NEW t \in Task, pc[t] \in {"serve", "user"}, NEW k \in 1 .. Len(ri_vec[t]), Take(t, k),
             UNCHANGED <<ret, cur, saved, i, asleep>>
      PROVE  ControlInv'
  <2>1. Others(t)
    BY <1>g, <1>k, <1>t DEF Take
  <2>2. pc'[t] = "rpc" /\ slot'[t] # NoRpc
    BY <1>g, <1>k, <1>r, <1>s, <1>t DEF Take
  <2>3. Control(t)
    BY <1>c
  <2>4. Control(t)'
    BY <1>k, <2>2, <2>3 DEF Control, ServePC, CallPC, RunPC
  <2> QED BY <1>o, <2>1, <2>4
(* ... and where its callback has returned.                                *)
<1>d. ASSUME NEW t \in Task, pc[t] \in {"done", "thrown", "xrun"}, slot[t] \in RpcId, Announce(slot[t], slot[t]),
             slot' = [slot EXCEPT ![t] = NoRpc], UNCHANGED cur, NEW l \in PC, GoTo(t, l),
             \/ pc[t] \in {"done", "thrown"} /\ UNCHANGED i
                /\ \/ l = "run" /\ ret' = [ret EXCEPT ![t] = "run"] /\ ret[t] \in {"user", "timer"}
                   \/ l = "user" /\ UNCHANGED ret /\ ret[t] \in {"user", "timer"}
                   \/ l \in {"serve", "pop", "unwind"} /\ UNCHANGED ret /\ ret[t] \notin {"user", "timer"}
             \/ pc[t] = "xrun" /\ l = "xloop" /\ UNCHANGED ret /\ i' = [i EXCEPT ![t] = @ + 1]
      PROVE  ControlInv'
  <2>1. asleep' \subseteq asleep /\ saved' = saved
    BY <1>d, <1>s, AnnounceType
  <2>2. Others(t)
    BY <1>d, <1>g, <1>t, <2>1
  <2>3. pc'[t] = l /\ slot'[t] = NoRpc
    BY <1>d, <1>g, <1>t
  <2>4. Control(t)
    BY <1>c
  <2>5. Control(t)'
    <3>1. CASE pc[t] = "xrun" /\ l = "xloop" /\ UNCHANGED ret /\ i' = [i EXCEPT ![t] = @ + 1]
      <4>1. i'[t] # 0
        BY <1>t, <3>1, SMTT(60)
      <4> QED BY <1>d, <2>1, <2>3, <2>4, <3>1, <4>1 DEF Control, ServePC, CallPC, RunPC
    <3>2. CASE /\ pc[t] \in {"done", "thrown"} /\ l = "run" /\ ret' = [ret EXCEPT ![t] = "run"]
               /\ ret[t] \in {"user", "timer"}
      <4>1. ret'[t] = "run"
        BY <1>t, <3>2
      <4> QED BY <1>d, <2>1, <2>3, <2>4, <3>2, <4>1 DEF Control, ServePC, CallPC, RunPC
    <3>3. CASE /\ pc[t] \in {"done", "thrown"} /\ UNCHANGED ret
               /\ \/ l = "user" /\ ret[t] \in {"user", "timer"}
                  \/ l \in {"serve", "pop", "unwind"} /\ ret[t] \notin {"user", "timer"}
      BY <1>d, <2>1, <2>3, <2>4, <3>3 DEF Control, ServePC, CallPC, RunPC
    <3> QED BY <1>d, <3>1, <3>2, <3>3
  <2> QED BY <1>o, <2>2, <2>5
<1>1. CASE Frozen
  BY <1>1 DEF Frozen, exec, call, sigVars, ControlInv, Control
<1>2. ASSUME NEW t \in Task, NEW x \in Task, NEW r \in RpcId, NEW m \in Modes, QueueRpc(t, x, r, m)
      PROVE  ControlInv'
  <2>1. UNCHANGED <<saved, ret, slot, i, asleep>> /\ pc[t] = "run"
    BY <1>2 DEF QueueRpc, exec, sigVars
  <2>2. CASE UNCHANGED <<pc, cur>>
    BY <2>1, <2>2 DEF ControlInv, Control
  <2>3. CASE cur' = [cur EXCEPT ![t] = r] /\ GoTo(t, "lock") /\ t \notin asleep
    <3>1. Others(t)
      BY <1>g, <1>t, <2>1, <2>3
    <3>2. pc'[t] = "lock" /\ cur'[t] = r /\ r # NoRpc
      BY <1>g, <1>s, <1>t, <2>3
    <3>3. Control(t)
      BY <1>c
    <3>4. Control(t)'
      BY <2>1, <2>3, <3>2, <3>3 DEF Control, ServePC, CallPC, RunPC
    <3> QED BY <1>o, <3>1, <3>4
  <2> QED BY <1>2, <2>2, <2>3 DEF QueueRpc
<1>3. ASSUME NEW t \in Task, NEW timer \in BOOLEAN, ReturnToUser(t, timer)
      PROVE  ControlInv'
  <2>1. UNCHANGED <<saved, cur, slot, i, asleep>> /\ pc[t] = "run" /\ t \notin asleep
    BY <1>3 DEF ReturnToUser, exec, call, sigVars
  <2>2. pc'[t] = "user" /\ ret'[t] \in {"user", "timer"}
    BY <1>3, <1>g, <1>t DEF ReturnToUser
  <2>3. Others(t)
    BY <1>3, <1>g, <1>t, <2>1 DEF ReturnToUser
  <2>4. Control(t)
    BY <1>c
  <2>5. Control(t)'
    BY <2>1, <2>2, <2>4 DEF Control, ServePC, CallPC, RunPC
  <2> QED BY <1>o, <2>3, <2>5
<1>4. ASSUME NEW t \in Task, Sleep(t) \/ Resume(t) \/ SetNosignals(t) \/ NothrowServe(t) \/ NothrowEnd(t)
      PROVE  ControlInv'
  <2>1. UNCHANGED <<pc, ret, cur, slot, saved, i>>
    BY <1>4 DEF Sleep, Resume, SetNosignals, NothrowServe, NothrowEnd, exec, call, sigVars
  <2>2. asleep' \subseteq asleep \/ (asleep' = asleep \cup {t} /\ pc[t] \in {"run", "wait"})
    BY <1>4 DEF Sleep, Resume, SetNosignals, NothrowServe, NothrowEnd
  <2> QED BY <2>1, <2>2 DEF ControlInv, Control
<1>5. ASSUME NEW t \in Task, ClearNosignals(t)
      PROVE  ControlInv'
  <2>1. UNCHANGED <<ret, cur, slot, saved, i, asleep>> /\ pc[t] = "run" /\ t \notin asleep
    BY <1>5 DEF ClearNosignals, exec, call, sigVars
  <2>2. GoTo(t, "cleared") \/ GoTo(t, "run")
    BY <1>5 DEF ClearNosignals
  <2> QED BY <1>m, <2>1, <2>2 DEF PC
<1>6. ASSUME NEW t \in Task, Exit(t) \/ ExitLock(t) \/ ExitEnd(t)
      PROVE  ControlInv'
  <2>1. UNCHANGED <<saved, ret, cur, slot, asleep>>
    BY <1>6 DEF Exit, ExitLock, ExitEnd, exec, call, sigVars
  <2>2. CASE pc[t] = "run" /\ t \notin asleep /\ GoTo(t, "xlock") /\ UNCHANGED i
    BY <1>m, <2>1, <2>2 DEF PC
  <2>3. CASE pc[t] = "xlock" /\ GoTo(t, "xloop") /\ i' = [i EXCEPT ![t] = 1]
    <3>1. Others(t)
      BY <1>g, <1>t, <2>1, <2>3
    <3>2. pc'[t] = "xloop" /\ i'[t] # 0
      <4>1. pc'[t] = "xloop" /\ i'[t] = 1
        BY <1>g, <1>t, <2>3
      <4> QED BY <4>1, SMTT(60)
    <3>3. Control(t)
      BY <1>c
    <3>4. Control(t)'
      BY <2>1, <2>3, <3>2, <3>3 DEF Control, ServePC, CallPC, RunPC
    <3> QED BY <1>o, <3>1, <3>4
  <2>4. CASE pc[t] = "xend" /\ GoTo(t, "dead") /\ UNCHANGED i
    <3>1. t \notin asleep
      BY <1>c, <2>4 DEF Control
    <3> QED BY <1>m, <2>1, <2>4, <3>1 DEF PC
  <2> QED BY <1>6, <2>2, <2>3, <2>4 DEF Exit, ExitLock, ExitEnd, exec
<1>9. ASSUME NEW t \in Task, RpcAlloc(t)
      PROVE  ControlInv'
  <2>1. UNCHANGED <<saved, ret, slot, i, asleep>> /\ pc[t] = "lock" /\ t \notin asleep
    BY <1>9, <1>c DEF RpcAlloc, exec, sigVars, Control
  <2>2. Return(t, "false") \/ (UNCHANGED cur /\ \E l \in {"grow", "connect", "signal"} : GoTo(t, l))
    BY <1>9 DEF RpcAlloc
  <2> QED BY <1>l, <1>m, <2>1, <2>2 DEF Return, CallPC, PC
<1>10. ASSUME NEW t \in Task, RpcGrow(t)
      PROVE  ControlInv'
  <2>1. UNCHANGED <<saved, ret, slot, i, asleep>> /\ pc[t] = "grow" /\ t \notin asleep
    BY <1>10, <1>c DEF RpcGrow, exec, sigVars, Control
  <2>2. Return(t, "throw") \/ (UNCHANGED cur /\ GoTo(t, "lock"))
    BY <1>10 DEF RpcGrow
  <2> QED BY <1>l, <1>m, <2>1, <2>2 DEF Return, CallPC, PC
<1>11. ASSUME NEW t \in Task, ConnectDone(t)
      PROVE  ControlInv'
  <2>1. UNCHANGED <<saved, ret, cur, slot, i, asleep>> /\ pc[t] = "connect" /\ t \notin asleep /\ GoTo(t, "signal")
    BY <1>11, <1>c DEF ConnectDone, Connect, exec, call, Control
  <2> QED BY <1>m, <2>1 DEF CallPC, PC
<1>12. ASSUME NEW t \in Task, SignalInterrupt(t)
      PROVE  ControlInv'
  <2>1. UNCHANGED <<saved, ret, slot, i, asleep>> /\ pc[t] = "signal" /\ t \notin asleep
    BY <1>12, <1>c DEF SignalInterrupt, exec, sigVars, Control
  <2>2. \/ \E v : Return(t, v)
        \/ UNCHANGED cur /\ \E l \in {"nack", "wake", "wait"} : GoTo(t, l)
    BY <1>12 DEF SignalInterrupt, Queued
  <2> QED BY <1>l, <1>m, <2>1, <2>2 DEF Return, CallPC, PC
<1>13. ASSUME NEW t \in Task, WakeTarget(t)
      PROVE  ControlInv'
  <2>1. UNCHANGED <<saved, ret, slot, i>> /\ asleep' \subseteq asleep /\ pc[t] = "wake" /\ t \notin asleep
    BY <1>13, <1>c DEF WakeTarget, exec, sigVars, Control
  <2>2. \/ \E v : Return(t, v)
        \/ UNCHANGED cur /\ \E l \in {"nack", "wait"} : GoTo(t, l)
    BY <1>13 DEF WakeTarget, Queued
  <2> QED BY <1>l, <1>m, <2>1, <2>2 DEF Return, CallPC, PC
<1>14. ASSUME NEW t \in Task, Nack(t) \/ WaitDone(t)
      PROVE  ControlInv'
  <2>1. UNCHANGED <<saved, ret, slot, i>> /\ asleep' \subseteq asleep /\ pc[t] \in CallPC
    BY <1>14 DEF Nack, WaitDone, Disconnect, exec, CallPC
  <2>2. \E v : Return(t, v)
    BY <1>14 DEF Nack, WaitDone
  <2> QED BY <1>l, <2>1, <2>2 DEF Return
<1>15. ASSUME NEW t \in Task, ServeBegin(t)
      PROVE  ControlInv'
  <2>1. UNCHANGED <<cur, slot, i, asleep>> /\ t \notin asleep /\ pc[t] \in {"run", "cleared", "wait", "lock", "grow"}
    BY <1>15 DEF ServeBegin, exec, call
  <2>2. \/ pc[t] = "wait" /\ pc'[t] = "push" /\ ret'[t] = "wait"
        \/ pc[t] # "wait" /\ pc'[t] = "serve" /\ ret'[t] = (IF pc[t] = "cleared" THEN "run" ELSE pc[t])
           /\ saved'[t] = "saved"
    BY <1>15, <1>g, <1>t DEF ServeBegin
  <2>3. Others(t)
    <3>1. \A u \in Task : u # t => pc'[u] = pc[u] /\ ret'[u] = ret[u] /\ saved'[u] = saved[u]
      BY <1>15, <1>g, <1>t DEF ServeBegin, RelocateConnections
    <3> QED BY <2>1, <3>1
  <2>4. Control(t)
    BY <1>c
  <2>5. Control(t)'
    BY <2>1, <2>2, <2>4 DEF Control, ServePC, CallPC, RunPC
  <2> QED BY <1>o, <2>3, <2>5
<1>16. ASSUME NEW t \in Task, ServePush(t)
      PROVE  ControlInv'
  <2>1. UNCHANGED <<ret, cur, slot, i, asleep>> /\ pc[t] = "push"
    BY <1>16 DEF ServePush, exec, call
  <2>2. pc'[t] = "serve" /\ saved'[t] = "saved"
    BY <1>16, <1>g, <1>t DEF ServePush, CopySignal
  <2>3. Others(t)
    BY <1>16, <1>g, <1>t, <2>1 DEF ServePush, CopySignal
  <2>4. Control(t)
    BY <1>c
  <2>5. Control(t)'
    BY <2>1, <2>2, <2>4 DEF Control, ServePC, CallPC, RunPC
  <2> QED BY <1>o, <2>3, <2>5
<1>17. ASSUME NEW t \in Task, ServePop(t)
      PROVE  ControlInv'
  <2>1. UNCHANGED <<cur, slot, i, asleep>> /\ pc[t] = "pop"
    BY <1>17 DEF ServePop, exec, call
  <2>2. pc'[t] = ret[t] /\ ret'[t] = "run" /\ saved'[t] = "main"
    BY <1>17, <1>g, <1>t DEF ServePop, PopConnections
  <2>3. Others(t)
    BY <1>17, <1>g, <1>t, <2>1 DEF ServePop, PopConnections
  <2>4. Control(t)
    BY <1>c
  <2>5. Control(t)'
    BY <2>1, <2>2, <2>4 DEF Control, ServePC, CallPC, RunPC
  <2> QED BY <1>o, <2>3, <2>5
<1>18. ASSUME NEW t \in Task, ServeTake(t)
      PROVE  ControlInv'
  <2>1. pc[t] = "serve" /\ UNCHANGED <<cur, saved, asleep, i, ret>>
    BY <1>18 DEF ServeTake, call, sigVars
  <2>2. \/ \E k \in 1 .. Len(ri_vec[t]) : Take(t, k)
        \/ UNCHANGED slot /\ \E l \in {"pop", "unwind"} : GoTo(t, l)
    BY <1>18, ServeTakeCases
  <2> QED BY <1>k, <1>m, <2>1, <2>2 DEF PC
<1>19. ASSUME NEW t \in Task, UserTake(t)
      PROVE  ControlInv'
  <2>1. pc[t] = "user" /\ UNCHANGED <<cur, saved, asleep, i>>
    BY <1>19 DEF UserTake, call, sigVars
  <2>2. CASE LeaveKernel(t) /\ UNCHANGED slot
    <3>1. Others(t)
      BY <1>g, <1>t, <2>1, <2>2 DEF LeaveKernel
    <3>2. pc'[t] = "run" /\ ret'[t] = "run"
      BY <1>g, <1>t, <2>2 DEF LeaveKernel
    <3>3. Control(t)
      BY <1>c
    <3>4. Control(t)'
      BY <2>1, <2>2, <3>2, <3>3 DEF Control, ServePC, CallPC, RunPC
    <3> QED BY <1>o, <3>1, <3>4
  <2>3. CASE UNCHANGED ret /\ \E k \in 1 .. Len(ri_vec[t]) : Take(t, k)
    BY <1>k, <2>1, <2>3
  <2> QED BY <1>19, <2>2, <2>3, UserTakeCases
<1>20. ASSUME NEW t \in Task, Callback(t)
      PROVE  ControlInv'
  <2>1. UNCHANGED <<ret, cur, slot, saved, i, asleep>> /\ pc[t] = "rpc"
    BY <1>20 DEF Callback, exec, call, sigVars
  <2>2. GoTo(t, "done") \/ GoTo(t, "thrown")
    BY <1>20 DEF Callback
  <2> QED BY <1>m, <2>1, <2>2 DEF PC
<1>21. ASSUME NEW t \in Task, CallbackDone(t)
      PROVE  ControlInv'
  <2>1. /\ pc[t] \in {"done", "thrown"} /\ Announce(slot[t], slot[t])
        /\ slot' = [slot EXCEPT ![t] = NoRpc] /\ UNCHANGED <<cur, i>>
    BY <1>21 DEF CallbackDone, Broadcast, call
  <2>2. slot[t] \in RpcId
    BY <1>c, <1>t, <2>1 DEF Control, RunPC
  <2>3. \/ GoTo(t, "run") /\ ret' = [ret EXCEPT ![t] = "run"] /\ ret[t] \in {"user", "timer"}
        \/ GoTo(t, "user") /\ UNCHANGED ret /\ ret[t] \in {"user", "timer"}
        \/ UNCHANGED ret /\ ret[t] \notin {"user", "timer"} /\ \E l \in {"serve", "pop", "unwind"} : GoTo(t, l)
    BY <1>21 DEF CallbackDone, InUser, LeaveKernel
  <2>4. {"run", "user", "serve", "pop", "unwind"} \subseteq PC
    BY DEF PC
  <2> QED BY <1>d, <2>1, <2>2, <2>3, <2>4
<1>22. ASSUME NEW t \in Task, ServeUnwind(t)
      PROVE  ControlInv'
  <2>1. UNCHANGED <<slot, i, asleep>> /\ pc[t] = "unwind"
    BY <1>22 DEF ServeUnwind, exec
  <2>2. pc'[t] = "run" /\ ret'[t] = "run" /\ saved'[t] = "main" /\ cur'[t] = NoRpc
    BY <1>22, <1>g, <1>t DEF ServeUnwind, Return
  <2>3. Others(t)
    <3>1. \A u \in Task : u # t => pc'[u] = pc[u] /\ cur'[u] = cur[u]
      BY <1>22, <1>g, <1>t DEF ServeUnwind, Return
    <3>2. \A u \in Task : u # t => ret'[u] = ret[u] /\ saved'[u] = saved[u]
      BY <1>22, <1>t DEF ServeUnwind
    <3> QED BY <2>1, <3>1, <3>2
  <2>4. Control(t)
    BY <1>c
  <2>5. Control(t)'
    BY <2>1, <2>2, <2>4 DEF Control, ServePC, CallPC, RunPC
  <2> QED BY <1>o, <2>3, <2>5
<1>23. ASSUME NEW t \in Task, ExitLoop(t)
      PROVE  ControlInv'
  <2>1. i[t] # 0 /\ pc[t] = "xloop" /\ UNCHANGED <<ret, cur>> /\ join_signal \in Sig
    BY <1>23, <1>c, RpcAssumption DEF ExitLoop, call, Control
  <2>2. Control(t)
    BY <1>c
  <2>3. CASE GoTo(t, "xend") /\ UNCHANGED <<sigVars, slot, asleep>> /\ i' = [i EXCEPT ![t] = 0]
    <3>1. Others(t) /\ pc'[t] = "xend" /\ UNCHANGED saved
      BY <1>g, <1>t, <2>1, <2>3 DEF sigVars
    <3>2. Control(t)'
      BY <2>1, <2>2, <2>3, <3>1 DEF Control, ServePC, CallPC, RunPC
    <3> QED BY <1>o, <3>1, <3>2
  <2>4. ASSUME NEW r \in RpcId, Announce(r, join_signal), UNCHANGED <<slot, pc>>, i' = [i EXCEPT ![t] = @ + 1]
        PROVE  ControlInv'
    <3>1. asleep' \subseteq asleep /\ saved' = saved
      BY <1>s, <2>1, <2>4, AnnounceType
    <3>2. i'[t] # 0
      BY <1>t, <2>4, SMTT(60)
    <3>3. Others(t)
      BY <1>t, <2>1, <2>4, <3>1
    <3>4. Control(t)'
      BY <2>1, <2>2, <2>4, <3>1, <3>2 DEF Control
    <3> QED BY <1>o, <3>3, <3>4
  <2>5. ASSUME NEW r \in RpcId, slot' = [slot EXCEPT ![t] = r], GoTo(t, "xrun"),
               UNCHANGED <<sigVars, i, asleep>>
        PROVE  ControlInv'
    <3>1. Others(t) /\ pc'[t] = "xrun" /\ slot'[t] # NoRpc /\ UNCHANGED saved
      BY <1>g, <1>s, <1>t, <2>1, <2>5 DEF sigVars
    <3>2. Control(t)'
      BY <2>1, <2>2, <2>5, <3>1 DEF Control, ServePC, CallPC, RunPC
    <3> QED BY <1>o, <3>1, <3>2
  <2> QED BY <1>23, <2>1, <2>3, <2>4, <2>5, ExitLoopCases
<1>24. ASSUME NEW t \in Task, ExitRun(t)
      PROVE  ControlInv'
  <2>1. /\ pc[t] = "xrun" /\ Announce(slot[t], slot[t]) /\ slot' = [slot EXCEPT ![t] = NoRpc]
        /\ UNCHANGED <<cur, ret>> /\ GoTo(t, "xloop") /\ i' = [i EXCEPT ![t] = @ + 1]
    BY <1>24 DEF ExitRun, Broadcast, call
  <2>2. slot[t] \in RpcId
    BY <1>c, <1>t, <2>1 DEF Control, RunPC
  <2>3. "xloop" \in PC
    BY DEF PC
  <2> QED BY <1>d, <2>1, <2>2, <2>3
<1> QED
  BY <1>1, <1>2, <1>3, <1>4, <1>5, <1>6, <1>9, <1>10, <1>11, <1>12, <1>13, <1>14, <1>15, <1>16,
     <1>17, <1>18, <1>19, <1>20, <1>21, <1>22, <1>23, <1>24, NextCases
  DEF Act, Step

(* Every step keeps the types.                                             *)
LEMMA TypeStep ==
  TypeOK /\ ControlInv /\ [Next]_vars
    => TypeOK'
(* An exception leaves task_serve() without connections.                   *)
<1>UnwindType.
  ASSUME SigTypeOK, NEW t \in Task, ServeUnwind(t)
  PROVE  SigTypeOK'
  <2> USE <1>UnwindType
  <2>1. \A s \in Sig : Unlink(chain[s], t) \in Seq(Connection)
    BY UnlinkType DEF SigTypeOK
  <2> QED BY <2>1 DEF SigTypeOK, ServeUnwind
<1> SUFFICES ASSUME TypeOK, ControlInv, [Next]_vars
             PROVE  TypeOK'
  BY SMTT(60)
<1> DEFINE StateType == t_state \in [Task -> SUBSET StateFlag]
           ResultType == result \in [RpcId -> {"none", "true", "false", "throw"}]
           CurType == cur \in [Task -> RpcId \cup {NoRpc}]
           PCType == pc \in [Task -> PC]
           Typed == /\ SigTypeOK /\ StateType /\ ResultType /\ CurType /\ PCType
                    /\ nosignals \subseteq Task /\ nothrow \subseteq Task /\ asleep \subseteq Task
                    /\ ri_vec \in [Task -> Seq(RpcId)] /\ ri_siz \in [Task -> Nat \ {0}]
                    /\ \A t \in Task : Len(ri_vec[t]) <= ri_siz[t]
                    /\ mode \in [RpcId -> RpcModes \cup {NoRpc}] /\ ret \in [Task -> PC \cup {"timer"}]
                    /\ slot \in [Task -> RpcId \cup {NoRpc}] /\ thread \in [Task -> Task]
                    /\ new_alloc \in [Task -> Nat] /\ i \in [Task -> Nat] /\ vec \in [Task -> Nat]
                    /\ ran \in [RpcId -> Nat] /\ dropped \subseteq RpcId /\ raced \subseteq Task
<1>t. /\ SigTypeOK /\ StateType /\ ResultType /\ CurType /\ PCType
      /\ nosignals \subseteq Task /\ nothrow \subseteq Task /\ asleep \subseteq Task
      /\ ri_vec \in [Task -> Seq(RpcId)] /\ ri_siz \in [Task -> Nat \ {0}]
      /\ \A t \in Task : Len(ri_vec[t]) <= ri_siz[t]
      /\ mode \in [RpcId -> RpcModes \cup {NoRpc}] /\ ret \in [Task -> PC \cup {"timer"}]
      /\ slot \in [Task -> RpcId \cup {NoRpc}] /\ thread \in [Task -> Task]
      /\ new_alloc \in [Task -> Nat] /\ i \in [Task -> Nat] /\ vec \in [Task -> Nat]
      /\ ran \in [RpcId -> Nat] /\ dropped \subseteq RpcId /\ raced \subseteq Task
  BY DEF TypeOK
<1>ts. StateType
  BY <1>t
<1>tp. PCType
  BY <1>t
<1>tc. CurType /\ thread \in [Task -> Task]
  BY <1>t
<1>tr. ResultType /\ ran \in [RpcId -> Nat]
  BY <1>t
<1>tm. mode \in [RpcId -> RpcModes \cup {NoRpc}]
  BY <1>t
<1>tv. ri_vec \in [Task -> Seq(RpcId)] /\ ri_siz \in [Task -> Nat \ {0}] /\ \A t \in Task : Len(ri_vec[t]) <= ri_siz[t]
  BY <1>t
<1>ti. i \in [Task -> Nat]
  BY <1>t
<1>n. 1 \in Nat /\ \A n \in Nat : n + 1 \in Nat
  BY SMTT(60)
<1>q. \A t \in Task : /\ Len(ri_vec[t]) \in Nat /\ ri_siz[t] \in Nat
                      /\ \A k \in 1 .. Len(ri_vec[t]) : ri_vec[t][k] \in RpcId
  BY <1>tv, SMTT(60)
<1>tl. slot \in [Task -> RpcId \cup {NoRpc}] /\ vec \in [Task -> Nat]
  BY <1>t
<1>a. /\ NoRpc \notin RpcId /\ RpcId \subseteq Sig /\ join_signal \in Sig /\ Modes \subseteq RpcModes
      /\ [flag |-> "user", sync |-> FALSE] \in RpcModes
  BY RpcAssumption DEF RpcModes
<1>u. UNCHANGED sigVars => SigTypeOK'
  <2>1. SigTypeOK
    BY <1>t
  <2> QED BY <2>1 DEF SigTypeOK, sigVars
<1>c. \A t \in Task : pc[t] \in CallPC => cur[t] \in RpcId
  BY <1>t DEF ControlInv, Control
<1>s. \A t \in Task : pc[t] \in RunPC => slot[t] \in RpcId
  BY <1>t DEF ControlInv, Control
<1>b. \A x \in Task, B \in SUBSET StateFlag : Set(x, B) \/ Clear(x, B) \/ UNCHANGED t_state => StateType'
  BY <1>ts
<1>p. \A x \in Task, l \in PC : GoTo(x, l) \/ UNCHANGED pc => PCType'
  BY <1>tp
<1>f. /\ {"INTERRUPTED"} \in SUBSET StateFlag /\ {"INRPC"} \in SUBSET StateFlag
      /\ {"SERVEEXCEPT"} \in SUBSET StateFlag /\ {"TERMINATING"} \in SUBSET StateFlag
      /\ {"TERMINATED"} \in SUBSET StateFlag /\ {"INTERRUPTING"} \in SUBSET StateFlag
  BY DEF StateFlag
<1>1. ASSUME Frozen PROVE Typed'
  BY <1>1, <1>t, <1>u DEF Frozen, flags, info, exec, call, hist
<1>2. ASSUME NEW t \in Task, NEW x \in Task, NEW r \in RpcId, NEW m \in Modes, QueueRpc(t, x, r, m)
      PROVE  Typed'
  <2>1. mode' \in [RpcId -> RpcModes \cup {NoRpc}]
    <3>1. \E w \in RpcModes : mode' = [mode EXCEPT ![r] = w]
      BY <1>2, <1>a DEF QueueRpc
    <3> QED BY <1>tm, <3>1
  <2>2. PCType' /\ StateType'
    <3>1. \E l \in {"lock"} : GoTo(t, l) \/ UNCHANGED pc
      BY <1>2 DEF QueueRpc
    <3>2. Set(t, {"SERVEEXCEPT"}) \/ UNCHANGED t_state
      BY <1>2 DEF QueueRpc
    <3>3. PCType'
      BY <1>tp, <3>1 DEF PC
    <3>4. StateType'
      BY <1>b, <1>f, <3>2
    <3> QED BY <3>3, <3>4
  <2>3. CurType' /\ thread' \in [Task -> Task]
    <3>1. \/ UNCHANGED <<cur, thread>>
          \/ cur' = [cur EXCEPT ![t] = r] /\ thread' = [thread EXCEPT ![t] = x]
      BY <1>2 DEF QueueRpc
    <3> QED BY <1>tc, <3>1, SMTT(60)
  <2>4. ResultType'
    <3>1. UNCHANGED result \/ \E v \in {"true", "false", "throw"} : result' = [result EXCEPT ![r] = v]
      BY <1>2 DEF QueueRpc
    <3> QED BY <1>tr, <3>1
  <2>5. ran' \in [RpcId -> Nat]
    <3>1. UNCHANGED ran \/ ran' = [ran EXCEPT ![r] = @ + 1]
      BY <1>2 DEF QueueRpc
    <3> QED BY <1>n, <1>tr, <3>1
  <2>6. UNCHANGED <<sigVars, flags, info, new_alloc, exec, ret, asleep, dropped, raced>>
    BY <1>2 DEF QueueRpc
  <2> QED BY <1>t, <1>u, <2>1, <2>2, <2>3, <2>4, <2>5, <2>6 DEF flags, info, exec
<1>3. ASSUME NEW t \in Task, NEW timer \in BOOLEAN, ReturnToUser(t, timer)
      PROVE  Typed'
  BY <1>3, <1>t, <1>u DEF ReturnToUser, flags, info, exec, call, hist, PC
<1>4. ASSUME NEW t \in Task, Sleep(t) \/ Resume(t) \/ SetNosignals(t) \/ NothrowServe(t) \/ NothrowEnd(t)
      PROVE  Typed'
  <2>1. StateType'
    <3>1. Clear(t, {"SERVEEXCEPT"}) \/ UNCHANGED t_state
      BY <1>4 DEF Sleep, Resume, SetNosignals, NothrowServe, NothrowEnd
    <3> QED BY <1>b, <1>f, <3>1
  <2>2. nosignals' \subseteq Task /\ nothrow' \subseteq Task /\ asleep' \subseteq Task
    BY <1>4, <1>t DEF Sleep, Resume, SetNosignals, NothrowServe, NothrowEnd, flags
  <2>3. UNCHANGED <<sigVars, info, call, exec, pc, ret, result, hist>>
    BY <1>4 DEF Sleep, Resume, SetNosignals, NothrowServe, NothrowEnd
  <2> QED BY <1>t, <1>u, <2>1, <2>2, <2>3 DEF info, exec, call, hist
<1>5. ASSUME NEW t \in Task, ClearNosignals(t)
      PROVE  Typed'
  BY <1>5, <1>t, <1>u DEF ClearNosignals, flags, info, exec, call, hist, PC
<1>6. ASSUME NEW t \in Task, Exit(t) \/ ExitLock(t) \/ ExitEnd(t)
      PROVE  Typed'
  <2>1. UNCHANGED <<sigVars, flags, info, call, slot, vec, ret, asleep, result, hist>>
    BY <1>6 DEF Exit, ExitLock, ExitEnd, exec
  <2>2. StateType'
    <3>1. CASE t_state' = [t_state EXCEPT ![t] = (@ \ {"INTERRUPTED"}) \cup {"INRPC"}]
      BY <1>f, <1>ts, <3>1
    <3>2. CASE Set(t, {"TERMINATING"}) \/ Set(t, {"TERMINATED"})
      BY <1>b, <1>f, <3>2
    <3> QED BY <1>6, <3>1, <3>2 DEF Exit, ExitLock, ExitEnd
  <2>3. PCType'
    <3>1. \E l \in {"xlock", "xloop", "dead"} : GoTo(t, l)
      BY <1>6 DEF Exit, ExitLock, ExitEnd
    <3> QED BY <1>tp, <3>1 DEF PC
  <2>4. i' \in [Task -> Nat]
    <3>1. UNCHANGED i \/ i' = [i EXCEPT ![t] = 1]
      BY <1>6 DEF Exit, ExitLock, ExitEnd, exec
    <3> QED BY <1>n, <1>ti, <3>1
  <2> QED BY <1>t, <1>u, <2>1, <2>2, <2>3, <2>4 DEF flags, info, call, hist
<1>7. ASSUME NEW t \in Task, NEW v \in {"true", "false", "throw"}, Return(t, v), pc[t] \in CallPC
      PROVE  ResultType' /\ CurType' /\ PCType'
  BY <1>7, <1>c, <1>t DEF PC
<1>8. ASSUME NEW t \in Task, Queued(t), pc[t] \in CallPC
      PROVE  ResultType' /\ CurType' /\ PCType'
  BY <1>7, <1>8, <1>t DEF Queued, PC
<1>9. ASSUME NEW t \in Task, RpcAlloc(t)
      PROVE  Typed'
  <2> DEFINE x == thread[t]
  <2>1. /\ x \in Task /\ cur[t] \in RpcId /\ ri_vec[x] \in Seq(RpcId)
        /\ ri_siz[x] \in Nat \ {0} /\ Len(ri_vec[x]) \in Nat
    <3>1. x \in Task /\ cur[t] \in RpcId
      BY <1>9, <1>c, <1>tc DEF RpcAlloc, CallPC
    <3> QED BY <1>q, <1>tv, <3>1
  <2>2. UNCHANGED <<sigVars, flags, ri_siz, mode, thread, exec, ret, asleep, hist>>
    BY <1>9 DEF RpcAlloc, info
  <2>3. CASE Return(t, "false") /\ UNCHANGED <<t_state, info, new_alloc>>
    <3>1. ResultType' /\ CurType' /\ PCType'
      BY <1>7, <1>9, <2>3 DEF RpcAlloc, CallPC
    <3> QED BY <1>t, <1>u, <2>2, <2>3, <3>1 DEF flags, info, exec, hist
  <2>4. ASSUME NEW n \in {ri_siz[x] * 2, ri_siz[x] + 1}, new_alloc' = [new_alloc EXCEPT ![t] = n],
               GoTo(t, "grow"), UNCHANGED <<t_state, info, cur, result>>
        PROVE  Typed'
    <3>1. n \in Nat
      <4>1. ri_siz[x] \in Nat
        BY <2>1
      <4> QED BY <4>1, SMTT(60)
    <3>2. new_alloc' \in [Task -> Nat]
      BY <1>t, <2>4, <3>1
    <3>3. PCType'
      BY <1>t, <2>4 DEF PC
    <3> QED BY <1>t, <1>u, <2>2, <2>4, <3>2, <3>3 DEF flags, info, exec, hist
  <2>5. CASE /\ Len(ri_vec[x]) < ri_siz[x] /\ Set(x, {"INTERRUPTING"})
             /\ ri_vec' = [ri_vec EXCEPT ![x] = Append(@, cur[t])]
             /\ GoTo(t, IF mode[cur[t]].sync THEN "connect" ELSE "signal")
             /\ UNCHANGED <<cur, result, new_alloc>>
    <3>1. Append(ri_vec[x], cur[t]) \in Seq(RpcId) /\ Len(Append(ri_vec[x], cur[t])) = Len(ri_vec[x]) + 1
      BY <2>1, SMTT(60)
    <3>2. ri_vec' \in [Task -> Seq(RpcId)] /\ \A u \in Task : Len(ri_vec'[u]) <= ri_siz[u]
      <4>1. ri_vec' \in [Task -> Seq(RpcId)]
        BY <1>tv, <2>1, <2>5, <3>1
      <4>2. \A u \in Task : u # x => ri_vec'[u] = ri_vec[u]
        BY <1>tv, <2>1, <2>5
      <4>3. Len(ri_vec'[x]) <= ri_siz[x]
        <5>1. /\ Len(ri_vec'[x]) = Len(ri_vec[x]) + 1 /\ Len(ri_vec[x]) < ri_siz[x]
              /\ Len(ri_vec[x]) \in Nat /\ ri_siz[x] \in Nat
          BY <1>tv, <2>1, <2>5, <3>1
        <5> QED BY <5>1, SMTT(60)
      <4> QED BY <1>tv, <4>1, <4>2, <4>3
    <3>3. StateType' /\ PCType'
      BY <1>b, <1>t, <2>1, <2>5 DEF PC, StateFlag
    <3> QED BY <1>t, <1>u, <2>2, <2>5, <3>2, <3>3 DEF flags, exec, hist
  <2> QED BY <1>9, <2>3, <2>4, <2>5 DEF RpcAlloc, info
<1>10. ASSUME NEW t \in Task, RpcGrow(t)
       PROVE  Typed'
  <2>1. /\ UNCHANGED <<sigVars, t_state, flags, ri_vec, mode, thread, exec, ret, asleep, ran, dropped, raced>>
        /\ thread[t] \in Task
    BY <1>10, <1>t DEF RpcGrow
  <2>2. new_alloc' \in [Task -> Nat]
    BY <1>10, <1>t DEF RpcGrow
  <2>3. ResultType' /\ CurType' /\ PCType'
    <3>1. pc[t] \in CallPC /\ (Return(t, "throw") \/ (GoTo(t, "lock") /\ UNCHANGED <<cur, result>>))
      BY <1>10 DEF RpcGrow, CallPC
    <3>2. CASE Return(t, "throw")
      BY <1>7, <3>1, <3>2
    <3>3. CASE GoTo(t, "lock") /\ UNCHANGED <<cur, result>>
      BY <1>t, <3>3 DEF PC
    <3> QED BY <3>1, <3>2, <3>3
  <2>4. ri_siz' \in [Task -> Nat \ {0}] /\ \A u \in Task : ri_siz'[u] >= ri_siz[u]
    <3>1. PICK n \in Nat \ {0} : ri_siz' = [ri_siz EXCEPT ![thread[t]] = n] /\ n >= ri_siz[thread[t]]
      <4>1. /\ ri_siz[thread[t]] \in Nat \ {0} /\ new_alloc[t] \in Nat
            /\ ri_siz = [ri_siz EXCEPT ![thread[t]] = ri_siz[thread[t]]]
        BY <1>t, <2>1
      <4>2. \/ UNCHANGED ri_siz
            \/ ri_siz' = [ri_siz EXCEPT ![thread[t]] = IF new_alloc[t] > ri_siz[thread[t]]
                                                       THEN new_alloc[t] ELSE ri_siz[thread[t]]]
        BY <1>10 DEF RpcGrow
      <4> QED BY <4>1, <4>2, SMTT(60)
    <3>2. ri_siz' \in [Task -> Nat \ {0}]
      BY <1>t, <2>1, <3>1
    <3>3. ASSUME NEW u \in Task PROVE ri_siz'[u] >= ri_siz[u]
      <4>1. ri_siz[u] \in Nat /\ (ri_siz'[u] = ri_siz[u] \/ ri_siz'[u] >= ri_siz[u])
        BY <1>t, <2>1, <3>1
      <4> QED BY <4>1, SMTT(60)
    <3> QED BY <3>2, <3>3
  <2>5. \A u \in Task : Len(ri_vec'[u]) <= ri_siz'[u]
    BY <1>tv, <2>1, <2>4, SMTT(60)
  <2> QED BY <1>t, <1>u, <2>1, <2>2, <2>3, <2>4, <2>5 DEF flags, exec, hist
<1>11. ASSUME NEW t \in Task, ConnectDone(t)
       PROVE  Typed'
  <2>1. SigTypeOK'
    BY <1>11, <1>a, <1>c, <1>t, SigCallsType DEF ConnectDone, CallPC
  <2> QED BY <1>11, <1>t, <2>1 DEF ConnectDone, flags, info, exec, call, hist, PC
<1>12. ASSUME NEW t \in Task, SignalInterrupt(t)
       PROVE  Typed'
  <2>1. /\ UNCHANGED <<sigVars, flags, info, mode, thread, new_alloc, exec, ret, asleep, hist>>
        /\ thread[t] \in Task /\ pc[t] \in CallPC
    BY <1>12, <1>t DEF SignalInterrupt, CallPC
  <2>2. StateType'
    <3> DEFINE B == t_state[thread[t]]
    <3>1. B \in SUBSET StateFlag /\ (B \ {"INTERRUPTING"}) \cup {"INTERRUPTED"} \in SUBSET StateFlag
          /\ B \ {"INTERRUPTING"} \in SUBSET StateFlag
      BY <1>t, <2>1 DEF StateFlag
    <3>2. \E C \in SUBSET StateFlag : t_state' = [t_state EXCEPT ![thread[t]] = C]
      BY <1>12, <3>1 DEF SignalInterrupt
    <3>3. PICK C \in SUBSET StateFlag : t_state' = [t_state EXCEPT ![thread[t]] = C]
      BY <3>2
    <3> QED BY <1>ts, <3>3
  <2>3. ResultType' /\ CurType' /\ PCType'
    <3>1. Return(t, "throw") \/ Queued(t) \/ \E l \in {"nack", "wake"} : GoTo(t, l) /\ UNCHANGED <<cur, result>>
      BY <1>12 DEF SignalInterrupt
    <3>2. CASE Return(t, "throw")
      BY <1>7, <2>1, <3>2
    <3>3. CASE Queued(t)
      BY <1>8, <2>1, <3>3
    <3>4. CASE \E l \in {"nack", "wake"} : GoTo(t, l) /\ UNCHANGED <<cur, result>>
      BY <1>p, <1>t, <3>4 DEF PC
    <3> QED BY <3>1, <3>2, <3>3, <3>4
  <2> QED BY <1>t, <1>u, <2>1, <2>2, <2>3 DEF flags, info, exec, hist
<1>13. ASSUME NEW t \in Task, WakeTarget(t)
       PROVE  Typed'
  <2>1. ResultType' /\ CurType' /\ PCType'
    BY <1>8, <1>13, <1>t DEF WakeTarget, PC, CallPC
  <2> QED BY <1>13, <1>t, <1>u, <2>1 DEF WakeTarget, flags, info, exec, hist
<1>14. ASSUME NEW t \in Task, Nack(t) \/ WaitDone(t)
       PROVE  Typed'
  <2>1. ResultType' /\ CurType' /\ PCType'
    BY <1>7, <1>14 DEF Nack, WaitDone, CallPC
  <2>2. SigTypeOK'
    BY <1>14, <1>a, <1>t, SigCallsType DEF Nack, WaitDone
  <2>3. UNCHANGED <<t_state, flags, info, mode, thread, new_alloc, exec, ret, asleep, hist>>
    BY <1>14 DEF Nack, WaitDone
  <2> QED BY <1>t, <2>1, <2>2, <2>3 DEF flags, info, exec, hist
<1>15. ASSUME NEW t \in Task, ServeBegin(t)
       PROVE  Typed'
  <2>1. SigTypeOK'
    BY <1>15, <1>t DEF ServeBegin, RelocateConnections, SigTypeOK
  <2> QED BY <1>15, <1>t, <2>1 DEF ServeBegin, flags, info, exec, call, hist, PC
<1>16. ASSUME NEW t \in Task, ServePush(t)
       PROVE  Typed'
  BY <1>16, <1>t DEF ServePush, CopySignal, SigTypeOK, flags, info, exec, call, hist, PC
<1>17. ASSUME NEW t \in Task, ServePop(t)
       PROVE  Typed'
  <2>1. ret[t] \in PC
    BY <1>17 DEF ServePop, ControlInv, Control, PC
  <2> QED BY <1>17, <1>t, <2>1 DEF ServePop, PopConnections, SigTypeOK, flags, info, exec, call, hist, PC
<1>18. ASSUME NEW t \in Task, NEW k \in 1 .. Len(ri_vec[t]), Take(t, k), UNCHANGED ri_siz
       PROVE  /\ ri_vec' \in [Task -> Seq(RpcId)] /\ \A u \in Task : Len(ri_vec'[u]) <= ri_siz'[u]
              /\ slot' \in [Task -> RpcId \cup {NoRpc}] /\ PCType'
  <2>1. ri_vec[t] \in Seq(RpcId) /\ ri_vec[t][k] \in RpcId /\ Len(ri_vec[t]) \in Nat /\ ri_siz[t] \in Nat
    BY <1>q, <1>tv
  <2>2. CloseGap(ri_vec[t], k) \in Seq(RpcId) /\ Len(CloseGap(ri_vec[t], k)) = Len(ri_vec[t]) - 1
    BY <2>1, CloseGapProps
  <2>3. ri_vec' \in [Task -> Seq(RpcId)]
    BY <1>18, <1>tv, <2>2 DEF Take
  <2>4. ASSUME NEW u \in Task PROVE Len(ri_vec'[u]) <= ri_siz'[u]
    <3>1. CASE u = t
      <4>1. /\ Len(ri_vec'[t]) = Len(ri_vec[t]) - 1 /\ ri_siz'[t] = ri_siz[t] /\ Len(ri_vec[t]) <= ri_siz[t]
            /\ Len(ri_vec[t]) \in Nat /\ ri_siz[t] \in Nat
        BY <1>18, <1>tv, <2>1, <2>2 DEF Take
      <4>2. Len(ri_vec'[t]) <= ri_siz'[t]
        BY <4>1, SMTT(60)
      <4> QED BY <3>1, <4>2
    <3>2. CASE u # t
      BY <1>18, <1>tv, <3>2 DEF Take
    <3> QED BY <3>1, <3>2
  <2>5. slot' \in [Task -> RpcId \cup {NoRpc}]
    BY <1>18, <1>tl, <2>1 DEF Take
  <2>6. PCType'
    BY <1>18, <1>tp DEF Take, PC
  <2> QED BY <2>3, <2>4, <2>5, <2>6
<1>19. ASSUME NEW t \in Task, ServeTake(t)
       PROVE  Typed'
  <2>1. UNCHANGED <<sigVars, flags, ri_siz, call, i, vec, ret, asleep, result, hist>>
    BY <1>19 DEF ServeTake
  <2>2. /\ ri_vec' \in [Task -> Seq(RpcId)] /\ \A u \in Task : Len(ri_vec'[u]) <= ri_siz'[u]
        /\ slot' \in [Task -> RpcId \cup {NoRpc}] /\ PCType'
    <3>1. CASE \E l \in {"pop", "unwind"} : GoTo(t, l) /\ UNCHANGED <<slot, ri_vec>>
      <4>1. PCType'
        BY <1>tp, <3>1 DEF PC
      <4> QED BY <1>tl, <1>tv, <2>1, <3>1, <4>1
    <3> QED BY <1>18, <1>19, <2>1, <3>1, ServeTakeCases
  <2>3. StateType'
    <3>1. \E B \in SUBSET StateFlag : Set(t, B) \/ Clear(t, B) \/ UNCHANGED t_state
      <4>1. {"INTERRUPTED"} \in SUBSET StateFlag /\ {"INRPC"} \in SUBSET StateFlag /\ {"SERVEEXCEPT"} \in SUBSET StateFlag
        BY DEF StateFlag
      <4> QED BY <1>19, <4>1, ServeTakeCases
    <3> QED BY <1>b, <3>1
  <2> QED BY <1>t, <1>u, <2>1, <2>2, <2>3 DEF flags, call, hist
<1>20. ASSUME NEW t \in Task, UserTake(t)
       PROVE  Typed'
  <2>1. UNCHANGED <<sigVars, flags, ri_siz, call, i, vec, asleep, result, hist>>
    BY <1>20 DEF UserTake
  <2>2. /\ ri_vec' \in [Task -> Seq(RpcId)] /\ \A u \in Task : Len(ri_vec'[u]) <= ri_siz'[u]
        /\ slot' \in [Task -> RpcId \cup {NoRpc}] /\ PCType'
    <3>1. CASE LeaveKernel(t) /\ UNCHANGED <<slot, ri_vec>>
      BY <1>t, <2>1, <3>1 DEF PC
    <3> QED BY <1>18, <1>20, <2>1, <3>1, UserTakeCases
  <2>3. StateType'
    <3>1. {"INTERRUPTED"} \in SUBSET StateFlag
      BY DEF StateFlag
    <3>2. Clear(t, {"INTERRUPTED"}) \/ UNCHANGED t_state
      BY <1>20, UserTakeCases
    <3> QED BY <1>b, <3>1, <3>2
  <2>4. ret' \in [Task -> PC \cup {"timer"}]
    <3>1. LeaveKernel(t) \/ UNCHANGED ret
      BY <1>20, UserTakeCases
    <3> QED BY <1>t, <3>1 DEF PC
  <2> QED BY <1>t, <1>u, <2>1, <2>2, <2>3, <2>4 DEF flags, call, hist
<1>21. ASSUME NEW t \in Task, Callback(t)
       PROVE  Typed'
  <2>1. ran' \in [RpcId -> Nat]
    <3>1. ran' = [ran EXCEPT ![slot[t]] = @ + 1] /\ slot[t] \in RpcId
      BY <1>21, <1>s DEF Callback, RunPC
    <3> QED BY <1>n, <1>tr, <3>1
  <2> QED BY <1>21, <1>t, <1>u, <2>1 DEF Callback, StateFlag, flags, info, exec, call, PC
<1>22. ASSUME NEW t \in Task, CallbackDone(t)
       PROVE  Typed'
  <2>1. SigTypeOK' /\ asleep' \subseteq Task /\ raced' \subseteq Task
    BY <1>22, <1>a, <1>s, <1>t, AnnounceType DEF CallbackDone, Broadcast, RunPC
  <2>2. PCType'
    <3>1. \E l \in {"user", "serve", "run", "pop", "unwind"} : GoTo(t, l)
      BY <1>22 DEF CallbackDone
    <3> QED BY <1>t, <3>1 DEF PC
  <2>3. StateType'
    <3>1. Set(t, {"SERVEEXCEPT"}) \/ UNCHANGED t_state
      BY <1>22 DEF CallbackDone
    <3> QED BY <1>b, <3>1 DEF StateFlag
  <2>4. ret' \in [Task -> PC \cup {"timer"}]
    <3>1. LeaveKernel(t) \/ UNCHANGED ret
      BY <1>22 DEF CallbackDone
    <3> QED BY <1>t, <3>1 DEF PC
  <2>5. /\ slot' = [slot EXCEPT ![t] = NoRpc]
        /\ UNCHANGED <<flags, info, call, i, vec, result, ran, dropped>>
    BY <1>22 DEF CallbackDone
  <2> QED BY <1>t, <2>1, <2>2, <2>3, <2>4, <2>5 DEF flags, info, call
<1>23. ASSUME NEW t \in Task, ServeUnwind(t)
       PROVE  Typed'
  <2>1. ResultType' /\ CurType' /\ PCType'
    BY <1>23, <1>t DEF ServeUnwind, PC
  <2> QED BY <1>23, <1>t, <2>1, <1>UnwindType DEF ServeUnwind, flags, info, exec, hist, PC
<1>24. ASSUME NEW t \in Task, ExitLoop(t)
       PROVE  Typed'
  <2>1. UNCHANGED <<flags, ri_siz, call, ret, result, ran>> /\ i[t] # 0
    BY <1>24 DEF ExitLoop, ControlInv, Control
  <2>2. CASE /\ ri_vec' = [ri_vec EXCEPT ![t] = <<>>] /\ i' = [i EXCEPT ![t] = 0]
             /\ Clear(t, {"INRPC"}) /\ GoTo(t, "xend")
             /\ UNCHANGED <<sigVars, slot, vec, asleep, dropped, raced>>
    <3>1. /\ ri_vec' \in [Task -> Seq(RpcId)]
          /\ \A u \in Task : Len(ri_vec'[u]) <= ri_siz[u]
      BY <1>t, <2>2, SMTT(60)
    <3>2. StateType' /\ PCType'
      BY <1>t, <2>2 DEF PC
    <3> QED BY <1>t, <1>u, <2>1, <2>2, <3>1, <3>2 DEF flags, call
  <2>3. ASSUME NEW r \in RpcId, Announce(r, join_signal), dropped' = dropped \cup {r},
               i' = [i EXCEPT ![t] = @ + 1], UNCHANGED <<ri_vec, t_state, slot, vec, pc>>
        PROVE  Typed'
    <3>1. SigTypeOK' /\ asleep' \subseteq Task /\ raced' \subseteq Task
      BY <1>a, <1>t, <2>3, AnnounceType
    <3>2. i' \in [Task -> Nat]
      BY <1>n, <1>ti, <2>3
    <3> QED BY <1>t, <2>1, <2>3, <3>1, <3>2 DEF flags, call
  <2>4. ASSUME NEW r \in RpcId, slot' = [slot EXCEPT ![t] = r], vec' = [vec EXCEPT ![t] = ri_siz[t]],
               GoTo(t, "xrun"), UNCHANGED <<sigVars, ri_vec, t_state, i, asleep, dropped, raced>>
        PROVE  Typed'
    BY <1>t, <1>u, <2>1, <2>4 DEF flags, call, PC
  <2> QED BY <1>24, <2>1, <2>2, <2>3, <2>4, ExitLoopCases
<1>25. ASSUME NEW t \in Task, ExitRun(t)
       PROVE  Typed'
  <2>1. SigTypeOK' /\ asleep' \subseteq Task /\ raced' \subseteq Task
    BY <1>25, <1>a, <1>s, <1>t, AnnounceType DEF ExitRun, Broadcast, RunPC
  <2>2. ran' \in [RpcId -> Nat]
    <3>1. ran' = [ran EXCEPT ![slot[t]] = @ + 1] /\ slot[t] \in RpcId
      BY <1>25, <1>s DEF ExitRun, RunPC
    <3> QED BY <1>n, <1>tr, <3>1
  <2>3. PCType'
    BY <1>25, <1>t DEF ExitRun, PC
  <2>4. slot' \in [Task -> RpcId \cup {NoRpc}] /\ vec' \in [Task -> Nat]
    BY <1>25, <1>tl DEF ExitRun
  <2>5. i' \in [Task -> Nat]
    BY <1>25, <1>n, <1>ti DEF ExitRun
  <2>6. UNCHANGED <<t_state, flags, info, call, ret, result, dropped>>
    BY <1>25 DEF ExitRun
  <2> QED BY <1>t, <2>1, <2>2, <2>3, <2>4, <2>5, <2>6 DEF flags, info, call
<1>26. Typed'
  BY <1>1, <1>2, <1>3, <1>4, <1>5, <1>6, <1>9, <1>10, <1>11, <1>12, <1>13, <1>14, <1>15, <1>16,
     <1>17, <1>19, <1>20, <1>21, <1>22, <1>23, <1>24, <1>25, NextCases
  DEF Act, Step
<1>27. sending' \in [Task -> RpcId \cup {NoRpc}] /\ wild' \in BOOLEAN
  BY SendsType
<1> QED BY <1>26, <1>27 DEF TypeOK

(* Every step keeps LockInv.                                               *)
LEMMA LockStep ==
  ASSUME TypeOK, ControlInv, LockInv, [Next]_vars
  PROVE  LockInv'
<1> HIDE DEF GoTo, Set, Clear
<1> DEFINE OtherPC == PC \ ({"connect", "signal", "nack", "xlock"} \cup ExitPC)
           Elsewhere(t) == \A u \in Task : u # t => pc'[u] = pc[u] /\ thread'[u] = thread[u] /\ ri_vec'[u] = ri_vec[u]
           SameBits == \A u \in Task : \A b \in {"INTERRUPTING", "TERMINATING", "TERMINATED"} :
                         b \in t_state'[u] <=> b \in t_state[u]
<1>p. pc \in [Task -> PC] /\ thread \in [Task -> Task]
  BY DEF TypeOK
<1>s. t_state \in [Task -> SUBSET StateFlag]
  BY DEF TypeOK
<1>v. ri_vec \in [Task -> Seq(RpcId)]
  BY DEF TypeOK
<1>b. \A t \in Task : \A b \in {"INTERRUPTED", "INRPC", "SERVEEXCEPT"} :
        Set(t, {b}) \/ Clear(t, {b}) => SameBits
  BY <1>s DEF Set, Clear
<1>f. UNCHANGED t_state => SameBits
  OBVIOUS
<1>q. ASSUME NEW t \in Task, pc[t] \in OtherPC, pc'[t] \in OtherPC, Elsewhere(t), SameBits
      PROVE  LockInv'
  BY <1>q, <1>p, SMTT(60) DEF LockInv, Holder, Locked, ExitPC, PC
<1>1. CASE Frozen
  BY <1>1 DEF Frozen, call, info, LockInv, Holder, Locked
<1>2. ASSUME NEW t \in Task, NEW x \in Task, NEW r \in RpcId, NEW m \in Modes, QueueRpc(t, x, r, m)
      PROVE  LockInv'
  <2>1. pc[t] = "run" /\ (UNCHANGED pc \/ GoTo(t, "lock"))
    BY <1>2 DEF QueueRpc
  <2>2. pc[t] \in OtherPC /\ pc'[t] \in OtherPC
    BY <1>p, <2>1 DEF PC, ExitPC, GoTo
  <2>3. Elsewhere(t)
    BY <1>2, <1>p DEF QueueRpc, info, GoTo
  <2>4. SameBits
    <3>1. Set(t, {"SERVEEXCEPT"}) \/ UNCHANGED t_state
      BY <1>2 DEF QueueRpc
    <3> QED BY <1>b, <1>f, <3>1
  <2> HIDE DEF OtherPC, Elsewhere, SameBits
  <2> QED BY <1>q, <2>2, <2>3, <2>4
<1>3. ASSUME NEW t \in Task, NEW l \in {"run", "lock", "grow", "wait", "user", "cleared"} \cup ServePC, GoTo(t, l),
             pc[t] \in {"run", "lock", "grow", "wait", "user", "wake", "cleared"} \cup ServePC,
             UNCHANGED thread, \A u \in Task : u # t => ri_vec'[u] = ri_vec[u], SameBits
      PROVE  LockInv'
  <2>1. pc[t] \in OtherPC /\ pc'[t] \in OtherPC
    BY <1>3, <1>p DEF PC, ExitPC, ServePC, GoTo
  <2>2. Elsewhere(t)
    BY <1>3, <1>p DEF GoTo
  <2> HIDE DEF OtherPC, Elsewhere, SameBits
  <2> QED BY <1>3, <1>q, <2>1, <2>2
<1>4. ASSUME NEW t \in Task, NEW timer \in BOOLEAN, ReturnToUser(t, timer)
      PROVE  LockInv'
  BY <1>3, <1>4, <1>f DEF ReturnToUser, call, info
<1>5. ASSUME NEW t \in Task, ClearNosignals(t)
      PROVE  LockInv'
  <2>1. GoTo(t, "cleared") \/ GoTo(t, "run")
    BY <1>5 DEF ClearNosignals
  <2> QED BY <1>3, <1>5, <1>f, <2>1 DEF ClearNosignals, call, info
<1>6. ASSUME NEW t \in Task, Sleep(t) \/ Resume(t) \/ SetNosignals(t) \/ NothrowServe(t) \/ NothrowEnd(t)
      PROVE  LockInv'
  <2>1. pc[t] \in OtherPC
    BY <1>6 DEF Sleep, Resume, SetNosignals, NothrowServe, NothrowEnd, PC, ExitPC
  <2>2. UNCHANGED pc /\ Elsewhere(t)
    BY <1>6 DEF Sleep, Resume, SetNosignals, NothrowServe, NothrowEnd, call, info
  <2>3. SameBits
    <3>1. Clear(t, {"SERVEEXCEPT"}) \/ UNCHANGED t_state
      BY <1>6 DEF Sleep, Resume, SetNosignals, NothrowServe, NothrowEnd
    <3> QED BY <1>b, <1>f, <3>1
  <2> HIDE DEF OtherPC, Elsewhere, SameBits
  <2> QED BY <1>q, <2>1, <2>2, <2>3
<1>7. ASSUME NEW t \in Task, pc[t] \in {"lock", "grow", "wake", "wait"}, NEW l \in {"run", "lock", "grow", "wait"},
             GoTo(t, l), UNCHANGED <<thread, ri_vec, t_state>>
      PROVE  LockInv'
  BY <1>3, <1>7, <1>f
<1>8. ASSUME NEW t \in Task, RpcAlloc(t)
      PROVE  LockInv'
  <2> DEFINE x == thread[t]
  <2>1. pc[t] = "lock" /\ ~Locked(x) /\ UNCHANGED thread /\ x \in Task
    BY <1>8, <1>p DEF RpcAlloc
  <2>2. CASE Terminating(x) \/ Len(ri_vec[x]) = ri_siz[x]
    <3>1. UNCHANGED <<t_state, ri_vec>> /\ (GoTo(t, "run") \/ GoTo(t, "grow"))
      <4>1. ri_vec[x] \in Seq(RpcId) /\ ri_siz[x] \in Nat
        BY <2>1 DEF TypeOK
      <4>2. Len(ri_vec[x]) = ri_siz[x] => ~(Len(ri_vec[x]) < ri_siz[x])
        BY <4>1, SMTT(60)
      <4> QED BY <1>8, <2>2, <4>2 DEF RpcAlloc, info
    <3> QED BY <1>7, <2>1, <3>1
  <2>3. CASE /\ ~Terminating(x) /\ Set(x, {"INTERRUPTING"})
             /\ ri_vec' = [ri_vec EXCEPT ![x] = Append(@, cur[t])]
             /\ GoTo(t, IF mode[cur[t]].sync THEN "connect" ELSE "signal")
    <3>1. \A u \in Task : u # t => pc'[u] = pc[u]
      BY <1>p, <2>3 DEF GoTo
    <3>2. Holder(t)' /\ pc'[t] \in {"connect", "signal"}
      BY <1>p, <2>3 DEF Holder, GoTo
    <3>3. \A u \in Task : Holder(u) => thread[u] # x
      BY <2>1 DEF LockInv
    <3>4. pc[x] \notin ExitPC \cup {"xlock"}
      BY <2>1, <2>3 DEF LockInv, Terminating
    <3>5. \A u \in Task : u # x => t_state'[u] = t_state[u] /\ ri_vec'[u] = ri_vec[u]
      BY <1>s, <1>v, <2>3 DEF Set
    <3>6. t_state'[x] = t_state[x] \cup {"INTERRUPTING"}
      BY <1>s, <2>1, <2>3 DEF Set
    <3>7. \A u \in Task : u # x \/ u = t => (pc'[u] \in ExitPC \cup {"xlock"} => pc[u] \in ExitPC \cup {"xlock"} /\ u # t)
      BY <3>1, <3>2 DEF ExitPC
    <3> QED BY <1>p, <2>1, <3>1, <3>2, <3>3, <3>4, <3>5, <3>6, <3>7, SMTT(60) DEF LockInv, Holder, Locked, ExitPC
  <2> QED BY <1>8, <2>2, <2>3 DEF RpcAlloc, info
<1>9. ASSUME NEW t \in Task, RpcGrow(t)
      PROVE  LockInv'
  BY <1>7, <1>9 DEF RpcGrow
<1>10. ASSUME NEW t \in Task, ConnectDone(t)
       PROVE  LockInv'
  BY <1>10, <1>p, SMTT(60) DEF ConnectDone, call, info, LockInv, Holder, Locked, ExitPC, GoTo
<1>11. ASSUME NEW t \in Task, SignalInterrupt(t)
       PROVE  LockInv'
  <2> DEFINE x == thread[t]
  <2>1. pc[t] = "signal" /\ UNCHANGED <<thread, ri_vec>> /\ x \in Task
    BY <1>11, <1>p DEF SignalInterrupt, info
  <2>2. \A u \in Task : u # t /\ Holder(u) => thread[u] # x
    BY <2>1 DEF LockInv, Holder
  <2>3. /\ \A u \in Task : u # x => t_state'[u] = t_state[u]
        /\ "INTERRUPTING" \notin t_state'[x]
        /\ \A b \in {"TERMINATING", "TERMINATED"} : b \in t_state'[x] <=> b \in t_state[x]
    <3>1. \/ t_state' = [t_state EXCEPT ![x] = (@ \ {"INTERRUPTING"}) \cup {"INTERRUPTED"}]
          \/ t_state' = [t_state EXCEPT ![x] = @ \ {"INTERRUPTING"}]
      BY <1>11 DEF SignalInterrupt, Clear
    <3> QED BY <1>s, <2>1, <3>1, SMTT(60)
  <2>4. \/ GoTo(t, "nack") /\ "TERMINATED" \in t_state[x]
        \/ \E l \in {"run", "wait", "wake"} : GoTo(t, l)
    BY <1>11 DEF SignalInterrupt, Queued
  <2>5. \A u \in Task : u # t => pc'[u] = pc[u]
    BY <1>p, <2>4 DEF GoTo
  <2>6. pc'[t] \in {"nack", "run", "wait", "wake"} /\ (pc'[t] = "nack" => "TERMINATED" \in t_state[x])
    BY <1>p, <2>4 DEF GoTo
  <2> QED BY <1>p, <2>1, <2>2, <2>3, <2>5, <2>6, SMTT(60) DEF LockInv, Holder, Locked, ExitPC
<1>12. ASSUME NEW t \in Task, WakeTarget(t)
       PROVE  LockInv'
  <2>1. pc[t] = "wake" /\ UNCHANGED <<thread, ri_vec, t_state>>
    BY <1>12 DEF WakeTarget, info
  <2>2. CASE "TERMINATED" \in t_state[thread[t]] /\ GoTo(t, "nack")
    BY <1>p, <2>1, <2>2, SMTT(60) DEF LockInv, Holder, Locked, ExitPC, GoTo
  <2>3. CASE GoTo(t, "wait") \/ GoTo(t, "run")
    BY <1>7, <2>1, <2>3
  <2> QED BY <1>12, <2>2, <2>3 DEF WakeTarget, Queued
<1>13. ASSUME NEW t \in Task, Nack(t)
       PROVE  LockInv'
  BY <1>13, <1>p, SMTT(60) DEF Nack, info, LockInv, Holder, Locked, ExitPC, GoTo
<1>14. ASSUME NEW t \in Task, WaitDone(t)
       PROVE  LockInv'
  BY <1>7, <1>14 DEF WaitDone, info
<1>15. ASSUME NEW t \in Task, ServeBegin(t)
       PROVE  LockInv'
  <2>1. GoTo(t, "push") \/ GoTo(t, "serve")
    BY <1>15 DEF ServeBegin
  <2> QED BY <1>3, <1>15, <1>f, <2>1 DEF ServeBegin, call, info, ServePC
<1>16. ASSUME NEW t \in Task, ServePush(t)
       PROVE  LockInv'
  BY <1>3, <1>16, <1>f DEF ServePush, call, info, ServePC
<1>17. ASSUME NEW t \in Task, ServePop(t)
       PROVE  LockInv'
  <2>1. ret[t] \in {"run", "lock", "grow", "wait"}
    BY <1>17 DEF ServePop, ControlInv, Control
  <2> QED BY <1>3, <1>17, <1>f, <2>1 DEF ServePop, call, info, ServePC
<1>18. ASSUME NEW t \in Task, ServeTake(t)
       PROVE  LockInv'
  <2>1. pc[t] = "serve" /\ UNCHANGED thread
    BY <1>18 DEF ServeTake, call
  <2>2. \E l \in {"pop", "rpc", "unwind"} : GoTo(t, l)
    BY <1>18, ServeTakeCases DEF Take
  <2>3. \A u \in Task : u # t => ri_vec'[u] = ri_vec[u]
    BY <1>18, <1>v, ServeTakeCases DEF Take
  <2>4. SameBits
    <3>1. \E b \in {"INTERRUPTED", "INRPC", "SERVEEXCEPT"} : Set(t, {b}) \/ Clear(t, {b}) \/ UNCHANGED t_state
      BY <1>18, ServeTakeCases
    <3> QED BY <1>b, <1>f, <3>1
  <2> HIDE DEF SameBits
  <2> QED BY <1>3, <2>1, <2>2, <2>3, <2>4 DEF ServePC
<1>19. ASSUME NEW t \in Task, UserTake(t)
       PROVE  LockInv'
  <2>1. pc[t] = "user" /\ UNCHANGED thread
    BY <1>19 DEF UserTake, call
  <2>2. \E l \in {"run", "rpc"} : GoTo(t, l)
    BY <1>19, UserTakeCases DEF Take
  <2>3. \A u \in Task : u # t => ri_vec'[u] = ri_vec[u]
    BY <1>19, <1>v, UserTakeCases DEF Take
  <2>4. SameBits
    <3>1. Clear(t, {"INTERRUPTED"}) \/ UNCHANGED t_state
      BY <1>19, UserTakeCases
    <3> QED BY <1>b, <1>f, <3>1
  <2> HIDE DEF SameBits
  <2> QED BY <1>3, <2>1, <2>2, <2>3, <2>4 DEF ServePC
<1>20. ASSUME NEW t \in Task, Callback(t)
       PROVE  LockInv'
  <2>1. pc[t] = "rpc" /\ UNCHANGED <<thread, ri_vec>> /\ \E l \in {"done", "thrown"} : GoTo(t, l)
    BY <1>20 DEF Callback, call, info
  <2>2. SameBits
    BY <1>20, <1>b, <1>f DEF Callback
  <2> HIDE DEF SameBits
  <2> QED BY <1>3, <2>1, <2>2 DEF ServePC
<1>21. ASSUME NEW t \in Task, CallbackDone(t)
       PROVE  LockInv'
  <2>1. pc[t] \in {"done", "thrown"} /\ UNCHANGED <<thread, ri_vec>>
    BY <1>21 DEF CallbackDone, call, info
  <2>2. \E l \in {"user", "serve", "run", "pop", "unwind"} : GoTo(t, l)
    BY <1>21 DEF CallbackDone
  <2>3. SameBits
    <3>1. Set(t, {"SERVEEXCEPT"}) \/ UNCHANGED t_state
      BY <1>21 DEF CallbackDone
    <3> QED BY <1>b, <1>f, <3>1
  <2> HIDE DEF SameBits
  <2> QED BY <1>3, <2>1, <2>2, <2>3 DEF ServePC
<1>22. ASSUME NEW t \in Task, ServeUnwind(t)
       PROVE  LockInv'
  BY <1>3, <1>22, <1>f DEF ServeUnwind, info, ServePC
<1>23. ASSUME NEW t \in Task, Exit(t)
       PROVE  LockInv'
  BY <1>23, <1>p, <1>s, SMTT(60) DEF Exit, call, info, LockInv, Holder, Locked, ExitPC, GoTo, Set
<1>24. ASSUME NEW t \in Task, ExitLock(t)
       PROVE  LockInv'
  BY <1>24, <1>p, <1>s, SMTT(60) DEF ExitLock, call, info, LockInv, Holder, Locked, ExitPC, GoTo, Set
<1>25. ASSUME NEW t \in Task, ExitLoop(t)
       PROVE  LockInv'
  <2>1. pc[t] = "xloop" /\ UNCHANGED thread /\ i[t] # 0
    BY <1>25 DEF ExitLoop, call, ControlInv, Control
  <2>2. CASE ri_vec' = [ri_vec EXCEPT ![t] = <<>>] /\ Clear(t, {"INRPC"}) /\ GoTo(t, "xend")
    BY <1>p, <1>s, <1>v, <2>1, <2>2, SMTT(60) DEF LockInv, Holder, Locked, ExitPC, GoTo, Clear
  <2>3. CASE UNCHANGED <<ri_vec, t_state>> /\ (UNCHANGED pc \/ GoTo(t, "xrun"))
    BY <1>p, <2>1, <2>3, SMTT(60) DEF LockInv, Holder, Locked, ExitPC, GoTo
  <2> QED BY <1>25, <2>1, <2>2, <2>3, ExitLoopCases
<1>26. ASSUME NEW t \in Task, ExitRun(t)
       PROVE  LockInv'
  BY <1>26, <1>p, SMTT(60) DEF ExitRun, call, info, LockInv, Holder, Locked, ExitPC, GoTo
<1>27. ASSUME NEW t \in Task, ExitEnd(t)
       PROVE  LockInv'
  BY <1>27, <1>p, <1>s, SMTT(60) DEF ExitEnd, call, info, LockInv, Holder, Locked, ExitPC, GoTo, Set
<1> QED
  BY <1>1, <1>2, <1>4, <1>5, <1>6, <1>8, <1>9, <1>10, <1>11, <1>12, <1>13, <1>14, <1>15, <1>16, <1>17,
     <1>18, <1>19, <1>20, <1>21, <1>22, <1>23, <1>24, <1>25, <1>26, <1>27, NextCases
  DEF Act, Step

-----------------------------------------------------------------------------
(* The vectors hold calls.                                                 *)
LEMMA QueueType ==
  ASSUME TypeOK
  PROVE  /\ Queue \in [Task -> SUBSET RpcId]
         /\ \A t \in Task : ri_vec[t] \in Seq(RpcId) /\ DOMAIN ri_vec[t] = 1 .. Len(ri_vec[t])
         /\ \A t \in Task : \A r : r \in Queue[t] <=> \E k \in Ready(t) : ri_vec[t][k] = r
<1>v. ri_vec \in [Task -> Seq(RpcId)]
  BY DEF TypeOK
<1>1. \A t \in Task : ri_vec[t] \in Seq(RpcId) /\ DOMAIN ri_vec[t] = 1 .. Len(ri_vec[t])
  BY <1>v, SMTT(60)
<1>2. \A t \in Task : \A k \in Ready(t) : ri_vec[t][k] \in RpcId
  BY <1>1, SMTT(60) DEF Ready
<1>3. \A t \in Task : Queue[t] = {ri_vec[t][k] : k \in Ready(t)}
  BY DEF Queue
<1>4. \A t \in Task : \A r : r \in Queue[t] <=> \E k \in Ready(t) : ri_vec[t][k] = r
  BY <1>3, SMTT(60)
<1>5. \A t \in Task : \A r \in Queue[t] : r \in RpcId
  <2> SUFFICES ASSUME NEW t \in Task, NEW r \in Queue[t] PROVE r \in RpcId
    OBVIOUS
  <2>1. PICK k \in Ready(t) : ri_vec[t][k] = r
    BY <1>3, SMTT(60)
  <2> QED BY <1>2, <2>1
<1>6. Queue \in [Task -> SUBSET RpcId]
  BY <1>5 DEF Queue
<1> QED BY <1>1, <1>4, <1>6

(* A step that leaves the vectors, and the threads that exit, alone.       *)
LEMMA QueueSame ==
  ASSUME TypeOK, UNCHANGED <<ri_vec, i>>,
         \A t \in Task : pc'[t] \in {"xloop", "xrun"} <=> pc[t] \in {"xloop", "xrun"}
  PROVE  Queue' = Queue /\ \A t \in Task : Ready(t)' = Ready(t)
<1>1. \A t \in Task : Ready(t)' = Ready(t)
  BY DEF Ready
<1>2. \A t \in Task : Queue'[t] = Queue[t]
  BY <1>1, SMTT(60) DEF Queue
<1> QED BY <1>1, <1>2 DEF Queue

(* rpc_alloc() appends a slot to the vector of a thread that does not      *)
(* exit.                                                                   *)
LEMMA QueueAppend ==
  ASSUME TypeOK, VecInv, NEW x \in Task, pc[x] \notin {"xloop", "xrun"}, NEW r \in RpcId,
         r \notin Queue[x], UNCHANGED i,
         \A t \in Task : pc'[t] \in {"xloop", "xrun"} <=> pc[t] \in {"xloop", "xrun"},
         \A t \in Task : t # x => ri_vec'[t] = ri_vec[t],
         ri_vec'[x] = Append(ri_vec[x], r)
  PROVE  /\ Queue'[x] = Queue[x] \cup {r} /\ \A t \in Task : t # x => Queue'[t] = Queue[t]
         /\ \A j, k \in DOMAIN ri_vec'[x] : ri_vec'[x][j] = ri_vec'[x][k] => j = k
<1>1. ri_vec[x] \in Seq(RpcId) /\ Len(ri_vec[x]) \in Nat /\ DOMAIN ri_vec[x] = 1 .. Len(ri_vec[x])
  BY SMTT(60) DEF TypeOK
<1>2. /\ DOMAIN ri_vec'[x] = 1 .. Len(ri_vec[x]) + 1
      /\ \A k \in 1 .. Len(ri_vec[x]) : ri_vec'[x][k] = ri_vec[x][k]
      /\ ri_vec'[x][Len(ri_vec[x]) + 1] = r
  BY <1>1, SMTT(60)
<1>3. Ready(x) = 1 .. Len(ri_vec[x]) /\ Ready(x)' = 1 .. Len(ri_vec[x]) + 1
  BY <1>1, <1>2 DEF Ready
<1>4. /\ Queue[x] = {ri_vec[x][k] : k \in 1 .. Len(ri_vec[x])}
      /\ Queue'[x] = {ri_vec'[x][k] : k \in 1 .. Len(ri_vec[x]) + 1}
  BY <1>3 DEF Queue
<1>5. Queue'[x] = Queue[x] \cup {r}
  BY <1>1, <1>2, <1>4, SMTT(60)
<1>6. \A t \in Task : t # x => Queue'[t] = Queue[t]
  <2>1. \A t \in Task : t # x => Ready(t)' = Ready(t)
    BY DEF Ready
  <2> QED BY <2>1, SMTT(60) DEF Queue
<1>8. \A k \in 1 .. Len(ri_vec[x]) : ri_vec[x][k] # r
  BY <1>4
<1>9. \A j, k \in 1 .. Len(ri_vec[x]) : ri_vec[x][j] = ri_vec[x][k] => j = k
  BY <1>1 DEF VecInv
<1>10. \A k \in 1 .. Len(ri_vec[x]) + 1 : k \in 1 .. Len(ri_vec[x]) \/ k = Len(ri_vec[x]) + 1
  BY <1>1, SMTT(60)
<1>11. \A j, k \in DOMAIN ri_vec'[x] : ri_vec'[x][j] = ri_vec'[x][k] => j = k
  BY <1>2, <1>8, <1>9, <1>10
<1> QED BY <1>5, <1>6, <1>11

(* Taking a slot out of the vector of a thread that does not exit.         *)
LEMMA QueueTake ==
  ASSUME TypeOK, VecInv, NEW t \in Task, pc[t] \notin {"xloop", "xrun"}, NEW k \in 1 .. Len(ri_vec[t]),
         Take(t, k), UNCHANGED i
  PROVE  /\ Queue'[t] = Queue[t] \ {ri_vec[t][k]} /\ \A u \in Task : u # t => Queue'[u] = Queue[u]
         /\ ri_vec[t][k] \in Queue[t]
         /\ \A m, n \in DOMAIN ri_vec'[t] : ri_vec'[t][m] = ri_vec'[t][n] => m = n
<1> DEFINE v == ri_vec[t]
           w == ri_vec'[t]
           At(n) == IF n < k THEN n ELSE n + 1
<1>p. pc \in [Task -> PC] /\ pc' = [pc EXCEPT ![t] = "rpc"] /\ ri_vec \in [Task -> Seq(RpcId)]
  BY DEF TypeOK, Take
<1>1. v \in Seq(RpcId) /\ Len(v) \in Nat /\ DOMAIN v = 1 .. Len(v)
  BY <1>p, SMTT(60)
<1>k. k \in 1 .. Len(v) /\ k \in Nat
  BY SMTT(60)
<1>2. /\ DOMAIN w = 1 .. Len(v) - 1
      /\ \A n \in 1 .. Len(v) - 1 : w[n] = v[At(n)]
  <2>1. w = CloseGap(v, k)
    BY <1>p DEF Take
  <2> HIDE DEF v, w
  <2>2. /\ DOMAIN CloseGap(v, k) = 1 .. Len(v) - 1
        /\ \A n \in 1 .. Len(v) - 1 : CloseGap(v, k)[n] = v[IF n < k THEN n ELSE n + 1]
    BY <1>1, <1>k, CloseGapProps
  <2> QED BY <2>1, <2>2
<1>3. Ready(t) = 1 .. Len(v) /\ Ready(t)' = 1 .. Len(v) - 1
  BY <1>1, <1>2, <1>p DEF Ready
<1>4. Queue[t] = {v[n] : n \in 1 .. Len(v)} /\ Queue'[t] = {w[n] : n \in 1 .. Len(v) - 1}
  BY <1>3 DEF Queue
<1>5. \A m, n \in 1 .. Len(v) : v[m] = v[n] => m = n
  BY <1>1 DEF VecInv
<1>6. \A u \in Task : u # t => Queue'[u] = Queue[u]
  <2>1. \A u \in Task : u # t => ri_vec'[u] = ri_vec[u] /\ pc'[u] = pc[u]
    BY <1>p DEF Take
  <2>2. \A u \in Task : u # t => Ready(u)' = Ready(u)
    BY <2>1 DEF Ready
  <2> QED BY <2>1, <2>2, SMTT(60) DEF Queue
<1> HIDE DEF v, w
<1>7. \A n \in 1 .. Len(v) - 1 : At(n) \in 1 .. Len(v) /\ At(n) # k
  BY <1>1, <1>k, SMTT(60)
<1>8. \A n \in 1 .. Len(v) : n # k => \E m \in 1 .. Len(v) - 1 : At(m) = n
  <2> SUFFICES ASSUME NEW n \in 1 .. Len(v), n # k PROVE \E m \in 1 .. Len(v) - 1 : At(m) = n
    OBVIOUS
  <2>1. CASE n < k
    <3>1. n \in 1 .. Len(v) - 1 /\ At(n) = n
      BY <1>1, <1>k, <2>1, SMTT(60)
    <3> QED BY <3>1
  <2>2. CASE n > k
    <3>1. n - 1 \in 1 .. Len(v) - 1 /\ At(n - 1) = n
      BY <1>1, <1>k, <2>2, SMTT(60)
    <3> QED BY <3>1
  <2> QED BY <1>1, <1>k, <2>1, <2>2, SMTT(60)
<1>9. \A m, n \in 1 .. Len(v) - 1 : At(m) = At(n) => m = n
  BY <1>1, <1>k, SMTT(60)
<1> HIDE DEF At
<1>10. Queue'[t] = Queue[t] \ {v[k]} /\ v[k] \in Queue[t]
  <2>1. \A r \in Queue'[t] : r \in Queue[t] /\ r # v[k]
    <3> SUFFICES ASSUME NEW n \in 1 .. Len(v) - 1 PROVE w[n] \in Queue[t] /\ w[n] # v[k]
      BY <1>4
    <3>1. w[n] = v[At(n)] /\ At(n) \in 1 .. Len(v) /\ At(n) # k
      BY <1>2, <1>7
    <3> QED BY <1>4, <1>5, <1>k, <3>1
  <2>2. \A r \in Queue[t] : r # v[k] => r \in Queue'[t]
    <3> SUFFICES ASSUME NEW n \in 1 .. Len(v), v[n] # v[k] PROVE v[n] \in Queue'[t]
      BY <1>4
    <3>1. PICK m \in 1 .. Len(v) - 1 : At(m) = n
      BY <1>8
    <3>2. w[m] = v[n]
      BY <1>2, <3>1
    <3> QED BY <1>4, <3>2
  <2>3. v[k] \in Queue[t]
    BY <1>4, <1>k
  <2> QED BY <2>1, <2>2, <2>3
<1>12. \A m, n \in DOMAIN w : w[m] = w[n] => m = n
  <2> SUFFICES ASSUME NEW m \in 1 .. Len(v) - 1, NEW n \in 1 .. Len(v) - 1, w[m] = w[n] PROVE m = n
    BY <1>2
  <2>1. v[At(m)] = v[At(n)] /\ At(m) \in 1 .. Len(v) /\ At(n) \in 1 .. Len(v)
    BY <1>2, <1>7
  <2> QED BY <1>5, <1>9, <2>1
<1> QED BY <1>6, <1>10, <1>12 DEF v, w

(* task_serve_before_exit() is done with the slot at index i.              *)
LEMMA QueueNext ==
  ASSUME TypeOK, VecInv, NEW t \in Task, pc[t] \in {"xloop", "xrun"}, i[t] \in DOMAIN ri_vec[t],
         pc'[t] \in {"xloop", "xrun"}, \A u \in Task : u # t => pc'[u] = pc[u],
         UNCHANGED ri_vec, i'[t] = i[t] + 1, \A u \in Task : u # t => i'[u] = i[u]
  PROVE  /\ Queue'[t] = Queue[t] \ {ri_vec[t][i[t]]} /\ \A u \in Task : u # t => Queue'[u] = Queue[u]
         /\ ri_vec[t][i[t]] \in Queue[t]
<1>1. i \in [Task -> Nat] /\ i[t] \in Nat /\ DOMAIN ri_vec[t] = 1 .. Len(ri_vec[t]) /\ Len(ri_vec[t]) \in Nat
  BY QueueType, SMTT(60) DEF TypeOK
<1>3. Ready(t) = {k \in DOMAIN ri_vec[t] : k >= i[t]} /\ Ready(t)' = {k \in DOMAIN ri_vec[t] : k >= i[t] + 1}
  BY DEF Ready
<1>4. Ready(t)' = Ready(t) \ {i[t]} /\ i[t] \in Ready(t)
  BY <1>1, <1>3, SMTT(60)
<1>5. Queue[t] = {ri_vec[t][k] : k \in Ready(t)} /\ Queue'[t] = {ri_vec[t][k] : k \in Ready(t)'}
  BY DEF Queue
<1>6. \A k \in Ready(t) : ri_vec[t][k] = ri_vec[t][i[t]] => k = i[t]
  BY DEF VecInv, Ready
<1>7. Queue'[t] = Queue[t] \ {ri_vec[t][i[t]]} /\ ri_vec[t][i[t]] \in Queue[t]
  BY <1>4, <1>5, <1>6, SMTT(60)
<1>8. \A u \in Task : u # t => Queue'[u] = Queue[u]
  <2>1. \A u \in Task : u # t => Ready(u)' = Ready(u)
    BY DEF Ready
  <2> QED BY <2>1, SMTT(60) DEF Queue
<1> QED BY <1>7, <1>8

-----------------------------------------------------------------------------
(* Where all calls are, and that task_queue_rpc() knows.                   *)
WhereInv == VecInv /\ PlaceInv /\ CallInv

(* Every step keeps WhereInv.                                              *)
LEMMA WhereStep ==
  TypeOK /\ ControlInv /\ LockInv /\ WhereInv /\ [Next]_vars
    => WhereInv'
(* A call in a vector is one; "no call" is none.                           *)
<1>QueueCalls.
  ASSUME TypeOK
  PROVE  /\ Queue \in [Task -> SUBSET RpcId] /\ \A t \in Task : \A r \in Queue[t] : r \in RpcId /\ r # NoRpc
         /\ slot \in [Task -> RpcId \cup {NoRpc}] /\ cur \in [Task -> RpcId \cup {NoRpc}] /\ NoRpc \notin RpcId
  <2>1. Queue \in [Task -> SUBSET RpcId]
    BY <1>QueueCalls, QueueType
  <2>2. NoRpc \notin RpcId
    BY RpcAssumption
  <2>3. slot \in [Task -> RpcId \cup {NoRpc}] /\ cur \in [Task -> RpcId \cup {NoRpc}]
    BY <1>QueueCalls DEF TypeOK
  <2> QED BY <2>1, <2>2, <2>3
(* Steps that leave every call where it is.                                *)
<1>PlaceQuiet.
  ASSUME TypeOK, PlaceInv, CallInv, Queue' = Queue, UNCHANGED <<slot, ran, dropped, mode>>,
         \A t \in Task : slot[t] # NoRpc => pc'[t] = pc[t],
         \A t \in Task : cur'[t] # NoRpc => cur'[t] = cur[t] /\ (Unqueued(t)' <=> Unqueued(t)),
         \A r \in RpcId : result'[r] # result[r] => \E t \in Task : cur[t] = r /\ cur'[t] = NoRpc
  PROVE  PlaceInv' /\ CallInv'
  <2> USE <1>PlaceQuiet
  <2>c. /\ cur \in [Task -> RpcId \cup {NoRpc}] /\ NoRpc \notin RpcId
        /\ \A t \in Task : \A r \in Queue[t] : r # NoRpc
    BY <1>QueueCalls
  <2>1. \A r \in RpcId : Nowhere(r)' <=> Nowhere(r)
    BY DEF Nowhere, Pending
  <2>2. \A r \in RpcId : User(r)' <=> User(r)
    BY DEF User
  <2>3. \A r \in RpcId : result'[r] # result[r] => mode[r] # NoRpc
    <3> SUFFICES ASSUME NEW r \in RpcId, result'[r] # result[r] PROVE mode[r] # NoRpc
      OBVIOUS
    <3>1. PICK t \in Task : cur[t] = r
      OBVIOUS
    <3>2. cur[t] # NoRpc
      BY <2>c, <3>1
    <3>3. mode[cur[t]] # NoRpc
      BY <3>2 DEF CallInv
    <3> QED BY <3>1, <3>3
  <2>4. PlaceInv'
    <3>1. ASSUME NEW r \in RpcId PROVE CallAt(r)'
      <4>1. CallAt(r)
        BY DEF PlaceInv
      <4> QED BY <2>1, <2>2, <2>3, <4>1 DEF CallAt
    <3>2. ASSUME NEW t \in Task, NEW r \in Queue'[t] PROVE QueueAt(t, r)'
      <4>1. QueueAt(t, r) /\ r # NoRpc
        BY <2>c DEF PlaceInv
      <4> QED BY <4>1 DEF QueueAt
    <3>3. ASSUME NEW t \in Task, slot'[t] # NoRpc PROVE SlotAt(t)'
      <4>1. SlotAt(t) /\ pc'[t] = pc[t]
        BY <3>3 DEF PlaceInv
      <4> QED BY <4>1 DEF SlotAt, User
    <3> QED BY <3>1, <3>2, <3>3 DEF PlaceInv
  <2>5. ASSUME NEW t \in Task, cur'[t] # NoRpc
        PROVE  /\ mode'[cur'[t]] # NoRpc /\ result'[cur'[t]] = "none"
               /\ \A u \in Task : cur'[u] = cur'[t] => u = t
               /\ Unqueued(t)' <=> Nowhere(cur[t])'
    <3>1. cur'[t] = cur[t] /\ cur[t] \in RpcId
      BY <2>5, <2>c
    <3>2. mode[cur[t]] # NoRpc /\ result[cur[t]] = "none" /\ \A u \in Task : cur[u] = cur[t] => u = t
      BY <2>5, <3>1 DEF CallInv
    <3>3. \A u \in Task : cur'[u] = cur'[t] => u = t
      BY <2>5, <3>1, <3>2
    <3>4. result'[cur[t]] = "none"
      BY <2>5, <3>1, <3>2
    <3>5. Unqueued(t) <=> Nowhere(cur[t])
      BY <2>5, <3>1 DEF CallInv
    <3> QED BY <2>1, <2>5, <3>1, <3>2, <3>3, <3>4, <3>5
  <2>6. CallInv'
    BY <2>5 DEF CallInv, Nowhere, Pending
  <2> QED BY <2>4, <2>6
(* Steps of threads that serve, as far as task_queue_rpc() is concerned.   *)
<1>CallKept.
  ASSUME TypeOK, CallInv, UNCHANGED <<mode, cur, result>>,
         \A t \in Task : Unqueued(t)' <=> Unqueued(t),
         \A r \in RpcId : Nowhere(r)' <=> Nowhere(r)
  PROVE  CallInv'
  <2> USE <1>CallKept
  <2>1. \A t \in Task : cur[t] # NoRpc => cur[t] \in RpcId
    BY DEF TypeOK
  <2>2. \A t \in Task : cur[t] # NoRpc => (Nowhere(cur[t])' <=> Nowhere(cur[t]))
    <3> SUFFICES ASSUME NEW t \in Task, cur[t] # NoRpc PROVE Nowhere(cur[t])' <=> Nowhere(cur[t])
      OBVIOUS
    <3>1. PICK r \in RpcId : r = cur[t]
      BY <2>1
    <3>2. Nowhere(r)' <=> Nowhere(r)
      OBVIOUS
    <3> QED BY <3>1, <3>2 DEF Nowhere, Pending
  <2> QED BY <2>2 DEF CallInv
(* task_queue_rpc() is called: it refuses the call, executes it at once or *)
(* begins to queue it.                                                     *)
<1>PlaceNew.
  ASSUME TypeOK, PlaceInv, CallInv, NEW r \in RpcId, mode[r] = NoRpc, Queue' = Queue,
         UNCHANGED <<slot, dropped>>, mode'[r] # NoRpc, ran'[r] \in {0, 1},
         \A q \in RpcId : q # r => mode'[q] = mode[q] /\ ran'[q] = ran[q] /\ result'[q] = result[q],
         \A t \in Task : slot[t] # NoRpc => pc'[t] = pc[t],
         \A t \in Task : \/ cur'[t] = cur[t] /\ (Unqueued(t)' <=> Unqueued(t))
                         \/ /\ cur'[t] = r /\ Unqueued(t)' /\ result'[r] = "none" /\ ran'[r] = 0
                            /\ \A u \in Task : u # t => cur'[u] = cur[u]
  PROVE  PlaceInv' /\ CallInv'
  <2> USE <1>PlaceNew
  <2>t. /\ cur \in [Task -> RpcId \cup {NoRpc}] /\ slot \in [Task -> RpcId \cup {NoRpc}] /\ NoRpc \notin RpcId
        /\ \A t \in Task : \A q \in Queue[t] : q \in RpcId /\ q # NoRpc
    BY <1>QueueCalls
  <2>1. Nowhere(r)
    BY DEF PlaceInv, CallAt
  <2>2. \A q \in RpcId : q # r => (Nowhere(q)' <=> Nowhere(q)) /\ (User(q)' <=> User(q))
    BY DEF Nowhere, Pending, User
  <2>3. \A t \in Task : cur[t] # NoRpc => cur[t] \in RpcId /\ cur[t] # r
    <3> SUFFICES ASSUME NEW t \in Task, cur[t] # NoRpc PROVE cur[t] \in RpcId /\ cur[t] # r
      OBVIOUS
    <3>1. cur[t] \in RpcId
      BY <2>t
    <3>2. mode[cur[t]] # NoRpc
      BY DEF CallInv
    <3> QED BY <3>1, <3>2
  <2>4. \A t \in Task : slot[t] # r /\ r \notin Queue[t]
    BY <2>1 DEF Nowhere, Pending
  <2>5. ran'[r] = 0 => Nowhere(r)'
    BY <2>1 DEF Nowhere, Pending
  <2>6. r \notin dropped
    BY <2>1 DEF Nowhere
  <2>7. PlaceInv'
    <3>1. ASSUME NEW q \in RpcId PROVE CallAt(q)'
      <4>1. CASE q = r
        <5>1. r \notin dropped' /\ mode'[r] # NoRpc /\ ran'[r] \in {0, 1}
          BY <2>6
        <5> QED BY <4>1, <5>1 DEF CallAt
      <4>2. CASE q # r
        <5>1. CallAt(q)
          BY DEF PlaceInv
        <5> QED BY <2>2, <4>2, <5>1 DEF CallAt
      <4> QED BY <4>1, <4>2
    <3>2. ASSUME NEW t \in Task, NEW q \in Queue'[t] PROVE QueueAt(t, q)'
      <4>1. q \in RpcId /\ q # r /\ q # NoRpc
        BY <2>4, <2>t
      <4>2. QueueAt(t, q) /\ ran'[q] = ran[q]
        BY <4>1 DEF PlaceInv
      <4> QED BY <4>1, <4>2 DEF QueueAt
    <3>3. ASSUME NEW t \in Task, slot'[t] # NoRpc PROVE SlotAt(t)'
      <4>1. slot[t] \in RpcId /\ slot[t] # r /\ pc'[t] = pc[t]
        BY <2>4, <2>t, <3>3
      <4>2. ran'[slot[t]] = ran[slot[t]] /\ mode'[slot[t]] = mode[slot[t]]
        BY <4>1
      <4>3. SlotAt(t)
        BY <3>3 DEF PlaceInv
      <4> QED BY <4>1, <4>2, <4>3 DEF SlotAt, User
    <3> QED BY <3>1, <3>2, <3>3 DEF PlaceInv
  <2>8. ASSUME NEW t \in Task, cur'[t] # NoRpc
        PROVE  /\ mode'[cur'[t]] # NoRpc /\ result'[cur'[t]] = "none"
               /\ \A u \in Task : cur'[u] = cur'[t] => u = t
               /\ Unqueued(t)' <=> Nowhere(cur[t])'
    <3>1. CASE /\ cur'[t] = r /\ Unqueued(t)' /\ result'[r] = "none" /\ ran'[r] = 0
               /\ \A u \in Task : u # t => cur'[u] = cur[u]
      <4>1. Nowhere(cur[t])'
        BY <2>5, <3>1 DEF Nowhere, Pending
      <4>2. \A u \in Task : u # t => cur'[u] # r
        BY <2>3, <2>t, <3>1
      <4> QED BY <3>1, <4>1, <4>2
    <3>2. CASE cur'[t] = cur[t] /\ (Unqueued(t)' <=> Unqueued(t))
      <4>1. cur[t] \in RpcId /\ cur[t] # r
        BY <2>3, <2>8, <3>2
      <4>2. Nowhere(cur[t])' <=> Nowhere(cur[t])
        <5>1. PICK q \in RpcId : q = cur[t]
          BY <4>1
        <5>2. Nowhere(q)' <=> Nowhere(q)
          BY <2>2, <4>1, <5>1
        <5> QED BY <3>2, <5>1, <5>2 DEF Nowhere, Pending
      <4>3. \A u \in Task : cur'[u] = cur[t] => cur[u] = cur[t]
        BY <4>1
      <4>4. /\ mode[cur[t]] # NoRpc /\ result[cur[t]] = "none" /\ (Unqueued(t) <=> Nowhere(cur[t]))
            /\ \A u \in Task : cur[u] = cur[t] => u = t
        BY <2>8, <3>2 DEF CallInv
      <4>5. mode'[cur[t]] = mode[cur[t]] /\ result'[cur[t]] = result[cur[t]]
        BY <4>1
      <4> QED BY <3>2, <4>2, <4>3, <4>4, <4>5
    <3> QED BY <3>1, <3>2
  <2>9. CallInv'
    BY <2>8 DEF CallInv, Nowhere, Pending
  <2> QED BY <2>7, <2>9
(* rpc_alloc() reserves a slot for the call of t in the vector of x.       *)
<1>PlaceAppend.
  ASSUME TypeOK, PlaceInv, CallInv, NEW t \in Task, NEW x \in Task, cur[t] # NoRpc, Unqueued(t),
         ~Unqueued(t)', \A u \in Task : u # t => (Unqueued(u)' <=> Unqueued(u)),
         Queue'[x] = Queue[x] \cup {cur[t]}, \A u \in Task : u # x => Queue'[u] = Queue[u],
         UNCHANGED <<slot, ran, dropped, mode, cur, result>>,
         \A u \in Task : slot[u] # NoRpc => pc'[u] = pc[u]
  PROVE  PlaceInv' /\ CallInv'
  <2> USE <1>PlaceAppend
  <2> DEFINE r == cur[t]
  <2>c. cur \in [Task -> RpcId \cup {NoRpc}] /\ slot \in [Task -> RpcId \cup {NoRpc}] /\ NoRpc \notin RpcId
    BY <1>QueueCalls
  <2>t. \A u \in Task : \A q \in Queue[u] : q \in RpcId /\ q # NoRpc
    BY <1>QueueCalls
  <2>q. /\ Queue'[x] = Queue[x] \cup {r}
        /\ \A u \in Task : u # x => Queue'[u] = Queue[u]
        /\ \A u \in Task : \A q \in Queue[u] : q \in RpcId
    BY <2>t
  <2>1. Nowhere(r) /\ r \in RpcId /\ r # NoRpc
    BY <2>c DEF CallInv
  <2>2. \A q \in RpcId : q # r => (Nowhere(q)' <=> Nowhere(q))
    BY <2>q DEF Nowhere, Pending
  <2>3. ran[r] = 0 /\ r \notin dropped /\ \A u \in Task : slot[u] # r /\ r \notin Queue[u]
    BY <2>1 DEF Nowhere, Pending
  <2>4. \A q \in RpcId : User(q)' <=> User(q)
    BY DEF User
  <2>5. ~Nowhere(r)'
    BY <2>q DEF Nowhere, Pending
  <2>6. mode[r] # NoRpc
    BY DEF CallInv
  <2>7. PlaceInv'
    <3>1. ASSUME NEW q \in RpcId PROVE CallAt(q)'
      <4>1. CallAt(q)
        BY DEF PlaceInv
      <4> QED BY <2>2, <2>4, <2>6, <4>1 DEF CallAt
    <3>2. ASSUME NEW u \in Task, NEW q \in Queue'[u] PROVE QueueAt(u, q)'
      <4>1. CASE q = r
        <5>1. \A y \in Task : r \in Queue'[y] <=> y = x
          BY <2>3, <2>q
        <5> QED BY <2>3, <4>1, <5>1 DEF QueueAt
      <4>2. CASE q # r
        <5>1. q \in Queue[u] /\ \A y \in Task : q \in Queue'[y] => q \in Queue[y]
          BY <2>q, <4>2
        <5>2. QueueAt(u, q) /\ q # NoRpc
          BY <2>t, <5>1 DEF PlaceInv
        <5> QED BY <5>1, <5>2 DEF QueueAt
      <4> QED BY <4>1, <4>2
    <3>3. ASSUME NEW u \in Task, slot'[u] # NoRpc PROVE SlotAt(u)'
      <4>1. SlotAt(u) /\ pc'[u] = pc[u]
        BY <3>3 DEF PlaceInv
      <4>2. \A q \in Queue[u] : q \in Queue'[u]
        BY <2>q
      <4> QED BY <4>1, <4>2 DEF SlotAt, User
    <3> QED BY <3>1, <3>2, <3>3 DEF PlaceInv
  <2>8. \A u \in Task : cur[u] # NoRpc => (Unqueued(u)' <=> Nowhere(cur[u])')
    <3> SUFFICES ASSUME NEW u \in Task, cur[u] # NoRpc PROVE Unqueued(u)' <=> Nowhere(cur[u])'
      OBVIOUS
    <3>1. CASE u = t
      BY <2>5, <3>1 DEF Nowhere, Pending
    <3>2. CASE u # t
      <4>1. cur[u] \in RpcId /\ cur[u] # r
        BY <2>c, <3>2 DEF CallInv
      <4>2. Nowhere(cur[u])' <=> Nowhere(cur[u])
        BY <2>q, <4>1 DEF Nowhere, Pending
      <4> QED BY <3>2, <4>2 DEF CallInv
    <3> QED BY <3>1, <3>2
  <2>9. CallInv'
    BY <2>8 DEF CallInv
  <2> QED BY <2>7, <2>9
(* A slot is taken out of the vector, to be executed.                      *)
<1>PlaceTake.
  ASSUME TypeOK, PlaceInv, NEW t \in Task, NEW r \in Queue[t], slot[t] = NoRpc,
         Queue'[t] = Queue[t] \ {r}, slot'[t] = r, pc'[t] = "rpc", UNCHANGED <<ran, dropped, mode, result>>,
         \A u \in Task : u # t => Queue'[u] = Queue[u] /\ slot'[u] = slot[u] /\ pc'[u] = pc[u]
  PROVE  PlaceInv' /\ \A q \in RpcId : Nowhere(q)' <=> Nowhere(q)
  <2> USE <1>PlaceTake
  <2>q. /\ Queue'[t] = Queue[t] \ {r} /\ slot'[t] = r
        /\ \A u \in Task : u # t => Queue'[u] = Queue[u] /\ slot'[u] = slot[u]
        /\ \A u \in Task : \A q \in Queue'[u] : q \in Queue[u] /\ q \in RpcId /\ q # NoRpc
        /\ r \in RpcId /\ r # NoRpc
    BY <1>QueueCalls
  <2>1. \A q \in RpcId : Nowhere(q)' <=> Nowhere(q)
    <3>1. ~Nowhere(r) /\ ~Nowhere(r)'
      BY <2>q DEF Nowhere, Pending
    <3>2. ASSUME NEW q \in RpcId, q # r, NEW u \in Task
          PROVE  Pending(u, q)' <=> Pending(u, q)
      BY <2>q, <3>2, RpcAssumption DEF Pending
    <3>3. \A q \in RpcId : q # r => (Nowhere(q)' <=> Nowhere(q))
      BY <3>2 DEF Nowhere
    <3> QED BY <3>1, <3>3
  <2>2. /\ ran[r] = 0 /\ r \notin dropped
        /\ \A u \in Task : r \in Queue[u] => u = t
        /\ \A u \in Task : slot[u] # r
    <3>1. QueueAt(t, r)
      BY DEF PlaceInv
    <3>2. slot[t] # r
      BY <2>q
    <3> QED BY <3>1, <3>2 DEF QueueAt
  <2>3. ASSUME NEW u \in Task, NEW q \in Queue'[u] PROVE QueueAt(u, q)'
    <3>1. q \in Queue[u] /\ q # r /\ q # NoRpc
      BY <2>2, <2>q
    <3>2. QueueAt(u, q)
      BY <3>1 DEF PlaceInv
    <3>3. \A y \in Task : q \in Queue'[y] => q \in Queue[y]
      BY <2>q
    <3>4. \A y \in Task : slot'[y] = q => slot[y] = q /\ pc'[y] = pc[y]
      BY <2>q, <3>1
    <3> QED BY <3>2, <3>3, <3>4 DEF QueueAt
  <2>4. ASSUME NEW u \in Task, slot'[u] # NoRpc PROVE SlotAt(u)'
    <3>1. CASE u = t
      BY <2>2, <2>q, <3>1 DEF SlotAt
    <3>2. CASE u # t
      <4>1. SlotAt(u) /\ slot'[u] = slot[u] /\ pc'[u] = pc[u] /\ Queue'[u] = Queue[u]
        BY <2>4, <2>q, <3>2 DEF PlaceInv
      <4>2. \A y \in Task : slot'[y] = slot'[u] => slot[y] = slot[u]
        BY <2>2, <2>q, <4>1
      <4> QED BY <4>1, <4>2 DEF SlotAt, User
    <3> QED BY <3>1, <3>2
  <2>5. ASSUME NEW q \in RpcId PROVE CallAt(q)'
    <3>1. CallAt(q)
      BY DEF PlaceInv
    <3> QED BY <2>1, <3>1 DEF CallAt, User
  <2>6. PlaceInv'
    BY <2>3, <2>4, <2>5 DEF PlaceInv
  <2> QED BY <2>1, <2>6
(* The callback of a slot that was taken has returned or thrown.           *)
<1>PlaceRun.
  ASSUME TypeOK, PlaceInv, NEW t \in Task, pc[t] = "rpc", slot[t] # NoRpc, pc'[t] \in {"done", "thrown"},
         ran'[slot[t]] = ran[slot[t]] + 1, \A r \in RpcId : r # slot[t] => ran'[r] = ran[r], Queue' = Queue,
         UNCHANGED <<slot, dropped, mode, result>>, \A u \in Task : u # t => pc'[u] = pc[u]
  PROVE  PlaceInv' /\ \A q \in RpcId : Nowhere(q)' <=> Nowhere(q)
  <2> USE <1>PlaceRun
  <2>t. slot \in [Task -> RpcId \cup {NoRpc}] /\ \A u \in Task : \A q \in Queue[u] : q \in RpcId /\ q # NoRpc
    BY <1>QueueCalls
  <2>r. PICK r \in RpcId : r = slot[t]
    BY <2>t
  <2>2. /\ r # NoRpc /\ ran[r] = 0 /\ r \notin dropped
        /\ \A u \in Task : slot[u] = r => u = t
    <3>1. SlotAt(t)
      BY DEF PlaceInv
    <3> QED BY <2>r, <3>1 DEF SlotAt
  <2>q. ran'[r] = 1 /\ \A q \in RpcId : q # r => ran'[q] = ran[q]
    <3>1. ran'[r] = 0 + 1
      BY <2>r, <2>2
    <3>2. 0 + 1 = 1
      BY SMTT(60)
    <3> QED BY <2>r, <3>1, <3>2
  <2>3. \A u \in Task : r \notin Queue[u]
    <3>1. ASSUME NEW u \in Task, r \in Queue[u] PROVE FALSE
      <4>1. QueueAt(u, r)
        BY <3>1 DEF PlaceInv
      <4>2. pc[t] = "xrun"
        BY <2>r, <4>1 DEF QueueAt
      <4> QED BY <4>2
    <3> QED BY <3>1
  <2>1. \A q \in RpcId : Nowhere(q)' <=> Nowhere(q)
    BY <2>q, <2>r DEF Nowhere, Pending
  <2>4. ASSUME NEW u \in Task, NEW q \in Queue'[u] PROVE QueueAt(u, q)'
    <3>1. q \in Queue[u] /\ q # r /\ q \in RpcId
      BY <2>3, <2>t
    <3>2. QueueAt(u, q) /\ ran'[q] = ran[q]
      BY <2>q, <3>1 DEF PlaceInv
    <3>3. \A y \in Task : slot[y] = q => pc'[y] = pc[y]
      BY <2>r, <3>1
    <3> QED BY <3>2, <3>3 DEF QueueAt
  <2>5. ASSUME NEW u \in Task, slot'[u] # NoRpc PROVE SlotAt(u)'
    <3>1. SlotAt(u)
      BY <2>5 DEF PlaceInv
    <3>2. CASE u = t
      BY <2>q, <2>r, <3>1, <3>2 DEF SlotAt
    <3>3. CASE u # t
      <4>1. slot[u] \in RpcId /\ slot[u] # r /\ pc'[u] = pc[u]
        BY <2>2, <2>5, <2>t, <3>3
      <4>2. ran'[slot[u]] = ran[slot[u]]
        BY <2>q, <4>1
      <4> QED BY <3>1, <4>1, <4>2 DEF SlotAt, User
    <3> QED BY <3>2, <3>3
  <2>6. ASSUME NEW q \in RpcId PROVE CallAt(q)'
    <3>1. CallAt(q)
      BY DEF PlaceInv
    <3>2. CASE q = r
      BY <2>1, <2>2, <2>q, <3>1, <3>2 DEF CallAt
    <3>3. CASE q # r
      BY <2>1, <2>q, <3>1, <3>3 DEF CallAt, User
    <3> QED BY <3>2, <3>3
  <2>7. PlaceInv'
    BY <2>4, <2>5, <2>6 DEF PlaceInv
  <2> QED BY <2>1, <2>7
(* The done-signal was sent, and the slot is forgotten.                    *)
<1>PlaceDone.
  ASSUME TypeOK, PlaceInv, NEW t \in Task, pc[t] \in {"done", "thrown"}, slot[t] # NoRpc,
         slot'[t] = NoRpc, Queue' = Queue,
         UNCHANGED <<ran, dropped, mode, result>>,
         \A u \in Task : u # t => slot'[u] = slot[u] /\ pc'[u] = pc[u]
  PROVE  PlaceInv' /\ \A q \in RpcId : Nowhere(q)' <=> Nowhere(q)
  <2> USE <1>PlaceDone
  <2>t. slot \in [Task -> RpcId \cup {NoRpc}] /\ \A u \in Task : \A q \in Queue[u] : q # NoRpc
    BY <1>QueueCalls
  <2>r. PICK r \in RpcId : r = slot[t]
    BY <2>t
  <2>q. /\ slot[t] = r /\ r # NoRpc /\ ran[r] = 1
        /\ slot'[t] = NoRpc /\ \A u \in Task : u # t => slot'[u] = slot[u]
    BY <2>r DEF PlaceInv, SlotAt
  <2>1. \A q \in RpcId : Nowhere(q)' <=> Nowhere(q)
    <3>0. 1 # 0
      BY SMTT(60)
    <3>1. ~Nowhere(r) /\ ~Nowhere(r)'
      BY <2>q, <3>0 DEF Nowhere
    <3>2. ASSUME NEW q \in RpcId, q # r, NEW u \in Task
          PROVE  Pending(u, q)' <=> Pending(u, q)
      BY <2>q, <3>2, RpcAssumption DEF Pending
    <3>3. \A q \in RpcId : q # r => (Nowhere(q)' <=> Nowhere(q))
      BY <3>2 DEF Nowhere
    <3> QED BY <3>1, <3>3
  <2>3. ASSUME NEW u \in Task, NEW q \in Queue'[u] PROVE QueueAt(u, q)'
    <3>1. QueueAt(u, q)
      BY DEF PlaceInv
    <3>2. \A y \in Task : slot'[y] = q => slot[y] = q /\ pc'[y] = pc[y]
      BY <2>q, <2>t
    <3> QED BY <3>1, <3>2 DEF QueueAt
  <2>4. ASSUME NEW u \in Task, slot'[u] # NoRpc PROVE SlotAt(u)'
    <3>1. u # t /\ slot'[u] = slot[u] /\ pc'[u] = pc[u]
      BY <2>4, <2>q
    <3>2. SlotAt(u)
      BY <2>4, <3>1 DEF PlaceInv
    <3>3. \A y \in Task : slot'[y] = slot'[u] => slot[y] = slot[u]
      BY <2>4, <2>q, <3>1
    <3> QED BY <3>1, <3>2, <3>3 DEF SlotAt, User
  <2>6. ASSUME NEW q \in RpcId PROVE CallAt(q)'
    <3>1. CallAt(q)
      BY DEF PlaceInv
    <3> QED BY <2>1, <3>1 DEF CallAt, User
  <2>5. PlaceInv'
    BY <2>3, <2>4, <2>6 DEF PlaceInv
  <2> QED BY <2>1, <2>5
(* task_serve_before_exit() gives a user call up.                          *)
<1>PlaceDrop.
  ASSUME TypeOK, PlaceInv, NEW t \in Task, NEW r \in Queue[t], User(r), slot[t] = NoRpc,
         Queue'[t] = Queue[t] \ {r}, \A u \in Task : u # t => Queue'[u] = Queue[u], dropped' = dropped \cup {r},
         UNCHANGED <<slot, ran, mode, result, pc>>
  PROVE  PlaceInv' /\ \A q \in RpcId : Nowhere(q)' <=> Nowhere(q)
  <2> USE <1>PlaceDrop
  <2>q. /\ Queue'[t] = Queue[t] \ {r}
        /\ \A u \in Task : u # t => Queue'[u] = Queue[u]
        /\ \A u \in Task : \A q \in Queue'[u] : q \in Queue[u] /\ q \in RpcId /\ q # NoRpc
        /\ r \in RpcId /\ r # NoRpc
    BY <1>QueueCalls
  <2>2. /\ ran[r] = 0 /\ \A u \in Task : r \in Queue[u] => u = t
        /\ \A u \in Task : slot[u] # r
    <3>1. QueueAt(t, r)
      BY DEF PlaceInv
    <3> QED BY <2>q, <3>1 DEF QueueAt
  <2>1. \A q \in RpcId : Nowhere(q)' <=> Nowhere(q)
    <3>1. ~Nowhere(r) /\ ~Nowhere(r)'
      BY <2>q DEF Nowhere, Pending
    <3>2. ASSUME NEW q \in RpcId, q # r, NEW u \in Task
          PROVE  Pending(u, q)' <=> Pending(u, q)
      BY <2>q, <3>2 DEF Pending
    <3>3. \A q \in RpcId : q # r => (Nowhere(q)' <=> Nowhere(q))
      BY <3>2 DEF Nowhere
    <3> QED BY <3>1, <3>3
  <2>3. ASSUME NEW u \in Task, NEW q \in Queue'[u] PROVE QueueAt(u, q)'
    <3>1. q \in Queue[u] /\ q # r
      BY <2>2, <2>q
    <3>2. QueueAt(u, q)
      BY <3>1 DEF PlaceInv
    <3>3. \A y \in Task : q \in Queue'[y] => q \in Queue[y]
      BY <2>q
    <3> QED BY <3>1, <3>2, <3>3 DEF QueueAt
  <2>4. ASSUME NEW u \in Task, slot'[u] # NoRpc PROVE SlotAt(u)'
    <3>1. SlotAt(u) /\ slot[u] # r
      BY <2>2, <2>4 DEF PlaceInv
    <3>2. \A q \in Queue[u] : q # r => q \in Queue'[u]
      BY <2>q
    <3> QED BY <3>1, <3>2 DEF SlotAt, User
  <2>5. ASSUME NEW q \in RpcId PROVE CallAt(q)'
    <3>1. CallAt(q)
      BY DEF PlaceInv
    <3> QED BY <2>1, <2>2, <3>1 DEF CallAt, User
  <2>6. PlaceInv'
    BY <2>3, <2>4, <2>5 DEF PlaceInv
  <2> QED BY <2>1, <2>6
(* task_serve_before_exit() begins to execute a kernel call, in place ...  *)
<1>PlaceExitBegin.
  ASSUME TypeOK, PlaceInv, NEW t \in Task, NEW r \in Queue[t], ~User(r), slot[t] = NoRpc,
         slot'[t] = r, Queue' = Queue, pc'[t] = "xrun",
         UNCHANGED <<ran, dropped, mode, result>>,
         \A u \in Task : u # t => slot'[u] = slot[u] /\ pc'[u] = pc[u]
  PROVE  PlaceInv' /\ \A q \in RpcId : Nowhere(q)' <=> Nowhere(q)
  <2> USE <1>PlaceExitBegin
  <2>t. slot \in [Task -> RpcId \cup {NoRpc}] /\ \A u \in Task : \A q \in Queue[u] : q \in RpcId /\ q # NoRpc
    BY <1>QueueCalls
  <2>q. /\ slot'[t] = r /\ r \in RpcId /\ r # NoRpc
        /\ \A u \in Task : u # t => slot'[u] = slot[u]
    BY <2>t
  <2>2. /\ ran[r] = 0 /\ r \notin dropped
        /\ \A u \in Task : r \in Queue[u] => u = t
        /\ \A u \in Task : slot[u] # r
    <3>1. QueueAt(t, r)
      BY DEF PlaceInv
    <3> QED BY <2>q, <3>1 DEF QueueAt
  <2>1. \A q \in RpcId : Nowhere(q)' <=> Nowhere(q)
    <3>1. ~Nowhere(r) /\ ~Nowhere(r)'
      BY <2>q DEF Nowhere, Pending
    <3>2. ASSUME NEW q \in RpcId, q # r, NEW u \in Task
          PROVE  Pending(u, q)' <=> Pending(u, q)
      BY <2>q, <3>2, RpcAssumption DEF Pending
    <3>3. \A q \in RpcId : q # r => (Nowhere(q)' <=> Nowhere(q))
      BY <3>2 DEF Nowhere
    <3> QED BY <3>1, <3>3
  <2>3. ASSUME NEW u \in Task, NEW q \in Queue'[u] PROVE QueueAt(u, q)'
    <3>1. QueueAt(u, q)
      BY DEF PlaceInv
    <3>2. \A y \in Task : slot'[y] = q => y = u /\ pc'[y] = "xrun"
      <4>1. ASSUME NEW y \in Task, y # t, slot'[y] = q PROVE y = u /\ pc'[y] = "xrun"
        BY <3>1, <4>1 DEF QueueAt
      <4>2. slot'[t] = q => t = u /\ pc'[t] = "xrun"
        BY <2>2, <2>q
      <4> QED BY <4>1, <4>2
    <3> QED BY <3>1, <3>2 DEF QueueAt
  <2>4. ASSUME NEW u \in Task, slot'[u] # NoRpc PROVE SlotAt(u)'
    <3>1. CASE u = t
      BY <2>2, <2>q, <3>1 DEF SlotAt, User
    <3>2. CASE u # t
      <4>1. slot'[u] = slot[u] /\ pc'[u] = pc[u] /\ SlotAt(u)
        BY <2>4, <3>2 DEF PlaceInv
      <4>2. \A y \in Task : slot'[y] = slot'[u] => slot[y] = slot[u]
        BY <2>2, <2>q, <4>1
      <4> QED BY <4>1, <4>2 DEF SlotAt, User
    <3> QED BY <3>1, <3>2
  <2>6. ASSUME NEW q \in RpcId PROVE CallAt(q)'
    <3>1. CallAt(q)
      BY DEF PlaceInv
    <3> QED BY <2>1, <3>1 DEF CallAt, User
  <2>5. PlaceInv'
    BY <2>3, <2>4, <2>6 DEF PlaceInv
  <2> QED BY <2>1, <2>5
(* ... and is done with it.                                                *)
<1>PlaceExitRun.
  ASSUME TypeOK, PlaceInv, NEW t \in Task, pc[t] = "xrun", NEW r \in Queue[t], slot[t] = r,
         ran'[r] = ran[r] + 1, \A q \in RpcId : q # r => ran'[q] = ran[q],
         slot'[t] = NoRpc, Queue'[t] = Queue[t] \ {r}, UNCHANGED <<dropped, mode, result>>,
         \A u \in Task : u # t => Queue'[u] = Queue[u] /\ slot'[u] = slot[u] /\ pc'[u] = pc[u]
  PROVE  PlaceInv' /\ \A q \in RpcId : Nowhere(q)' <=> Nowhere(q)
  <2> USE <1>PlaceExitRun
  <2>s. slot \in [Task -> RpcId \cup {NoRpc}]
    BY <1>QueueCalls
  <2>q. /\ Queue'[t] = Queue[t] \ {r} /\ slot'[t] = NoRpc
        /\ \A u \in Task : u # t => Queue'[u] = Queue[u] /\ slot'[u] = slot[u]
        /\ \A u \in Task : \A q \in Queue'[u] : q \in Queue[u] /\ q \in RpcId /\ q # NoRpc
        /\ r \in RpcId /\ r # NoRpc
    BY <1>QueueCalls
  <2>2. /\ ran[r] = 0 /\ r \notin dropped
        /\ \A u \in Task : r \in Queue[u] => u = t
        /\ \A u \in Task : slot[u] = r => u = t
    <3>1. QueueAt(t, r)
      BY DEF PlaceInv
    <3> QED BY <3>1 DEF QueueAt
  <2>z. 0 + 1 = 1 /\ 1 # 0
    BY SMTT(60)
  <2>r. ran'[r] = 1 /\ \A q \in RpcId : q # r => ran'[q] = ran[q]
    <3>1. ran'[r] = 0 + 1
      BY <2>2
    <3> QED BY <3>1, <2>z
  <2>1. \A q \in RpcId : Nowhere(q)' <=> Nowhere(q)
    <3>1. ~Nowhere(r) /\ ~Nowhere(r)'
      BY <2>q, <2>r, <2>z DEF Nowhere, Pending
    <3>2. ASSUME NEW q \in RpcId, q # r, NEW u \in Task
          PROVE  Pending(u, q)' <=> Pending(u, q)
      BY <2>q, <3>2, RpcAssumption DEF Pending
    <3>3. \A q \in RpcId : q # r => (Nowhere(q)' <=> Nowhere(q))
      BY <2>r, <3>2 DEF Nowhere
    <3> QED BY <3>1, <3>3
  <2>3. ASSUME NEW u \in Task, NEW q \in Queue'[u] PROVE QueueAt(u, q)'
    <3>1. q \in Queue[u] /\ q # r /\ q # NoRpc /\ q \in RpcId
      BY <2>2, <2>q
    <3>2. QueueAt(u, q) /\ ran'[q] = ran[q]
      BY <2>r, <3>1 DEF PlaceInv
    <3>3. \A y \in Task : q \in Queue'[y] => q \in Queue[y]
      BY <2>q
    <3>4. \A y \in Task : slot'[y] = q => slot[y] = q /\ pc'[y] = pc[y]
      BY <2>q, <3>1
    <3> QED BY <3>2, <3>3, <3>4 DEF QueueAt
  <2>4. ASSUME NEW u \in Task, slot'[u] # NoRpc PROVE SlotAt(u)'
    <3>1. u # t /\ slot'[u] = slot[u] /\ slot[u] \in RpcId /\ pc'[u] = pc[u]
      BY <2>4, <2>q, <2>s
    <3>2. slot[u] # r /\ ran'[slot[u]] = ran[slot[u]] /\ Queue'[u] = Queue[u]
      BY <2>2, <2>q, <2>r, <3>1
    <3>3. SlotAt(u)
      BY <2>4, <3>1 DEF PlaceInv
    <3>4. \A y \in Task : slot'[y] = slot'[u] => slot[y] = slot[u]
      BY <2>4, <2>q, <3>1
    <3> QED BY <3>1, <3>2, <3>3, <3>4 DEF SlotAt, User
  <2>5. ASSUME NEW q \in RpcId PROVE CallAt(q)'
    <3>1. CallAt(q)
      BY DEF PlaceInv
    <3>2. CASE q = r
      BY <2>1, <2>2, <2>r, <3>1, <3>2 DEF CallAt
    <3>3. CASE q # r
      BY <2>1, <2>r, <3>1, <3>3 DEF CallAt, User
    <3> QED BY <3>2, <3>3
  <2>6. PlaceInv'
    BY <2>3, <2>4, <2>5 DEF PlaceInv
  <2> QED BY <2>1, <2>6
(* A step of t that neither moves a call nor walks over the vector; t may  *)
(* leave task_queue_rpc().                                                 *)
<1>QuietStep.
  ASSUME TypeOK, ControlInv, WhereInv, NEW t \in Task,
         UNCHANGED <<ri_vec, i, slot, ran, dropped, mode>>,
         pc[t] \notin RunPC \cup {"xloop"}, pc'[t] \notin {"xloop", "xrun"},
         \A u \in Task : u # t => pc'[u] = pc[u] /\ ret'[u] = ret[u] /\ cur'[u] = cur[u],
         \/ cur'[t] = cur[t] /\ (cur[t] # NoRpc => (Unqueued(t)' <=> Unqueued(t))) /\ UNCHANGED result
         \/ cur'[t] = NoRpc /\ \A r \in RpcId : r # cur[t] => result'[r] = result[r]
  PROVE  WhereInv'
  <2> USE <1>QuietStep
  <2>1. \A u \in Task : pc'[u] \in {"xloop", "xrun"} <=> pc[u] \in {"xloop", "xrun"}
    BY DEF RunPC
  <2>2. Queue' = Queue
    BY <2>1, QueueSame
  <2>3. VecInv'
    BY <2>1, SMTT(60) DEF VecInv, WhereInv
  <2>4. \A u \in Task : slot[u] # NoRpc => pc'[u] = pc[u]
    BY DEF ControlInv, Control, RunPC
  <2>5. \A u \in Task : cur'[u] # NoRpc => cur'[u] = cur[u] /\ (Unqueued(u)' <=> Unqueued(u))
    BY DEF Unqueued
  <2>6. \A r \in RpcId : result'[r] # result[r] => \E u \in Task : cur[u] = r /\ cur'[u] = NoRpc
    OBVIOUS
  <2>7. PlaceInv' /\ CallInv'
    BY <2>2, <2>4, <2>5, <2>6, <1>PlaceQuiet DEF WhereInv
  <2> QED BY <2>3, <2>7 DEF WhereInv
(* A step of t that works on a slot: task_queue_rpc() is not concerned.    *)
<1>ServeStep.
  ASSUME TypeOK, ControlInv, CallInv, NEW t \in Task, UNCHANGED <<mode, cur, result>>,
         pc[t] \in RunPC \cup {"serve", "user", "xlock", "xloop"}, pc'[t] \notin {"lock", "grow"},
         ret'[t] = ret[t] \/ (ret[t] \notin {"lock", "grow"} /\ ret'[t] = "run"),
         \A u \in Task : u # t => pc'[u] = pc[u] /\ ret'[u] = ret[u],
         \A r \in RpcId : Nowhere(r)' <=> Nowhere(r)
  PROVE  CallInv'
  <2> USE <1>ServeStep
  <2>1. \A u \in Task : Unqueued(u)' <=> Unqueued(u)
    BY DEF Unqueued, RunPC
  <2> QED BY <2>1, <1>CallKept
(* task_serve() or task_serve_before_user() takes the slot at index k.     *)
<1>TakeStep.
  ASSUME TypeOK, ControlInv, WhereInv, NEW t \in Task, pc[t] \in {"serve", "user"},
         NEW k \in 1 .. Len(ri_vec[t]), Take(t, k),
         UNCHANGED <<i, ran, dropped, mode, cur, result, ret>>
  PROVE  WhereInv'
  <2> USE <1>TakeStep
  <2> HIDE DEF GoTo
  <2>t. pc \in [Task -> PC] /\ slot \in [Task -> RpcId \cup {NoRpc}] /\ ri_vec \in [Task -> Seq(RpcId)]
    BY DEF TypeOK
  <2>1. slot[t] = NoRpc
    BY DEF ControlInv, Control, RunPC
  <2>v. VecInv /\ PlaceInv /\ CallInv
    BY DEF WhereInv
  <2>x. pc[t] \notin {"xloop", "xrun"}
    OBVIOUS
  <2>2. /\ Queue'[t] = Queue[t] \ {ri_vec[t][k]}
        /\ \A u \in Task : u # t => Queue'[u] = Queue[u]
        /\ ri_vec[t][k] \in Queue[t]
        /\ \A m, n \in DOMAIN ri_vec'[t] : ri_vec'[t][m] = ri_vec'[t][n] => m = n
    BY <2>v, <2>x, QueueTake
  <2>3. /\ slot' = [slot EXCEPT ![t] = ri_vec[t][k]] /\ pc'[t] = "rpc"
        /\ \A u \in Task : u # t => pc'[u] = pc[u] /\ ri_vec'[u] = ri_vec[u] /\ slot'[u] = slot[u]
    BY <2>t DEF Take, GoTo
  <2>4. VecInv'
    BY <2>2, <2>3, <2>v, SMTT(60) DEF VecInv
  <2>5. PICK r \in Queue[t] : r = ri_vec[t][k]
    BY <2>2
  <2>6. PlaceInv' /\ \A q \in RpcId : Nowhere(q)' <=> Nowhere(q)
    <3>1. /\ Queue'[t] = Queue[t] \ {r} /\ slot'[t] = r
          /\ \A u \in Task : u # t => Queue'[u] = Queue[u] /\ slot'[u] = slot[u] /\ pc'[u] = pc[u]
      BY <2>2, <2>3, <2>5, <2>t
    <3> QED BY <2>1, <2>3, <3>1, <2>v, <1>PlaceTake
  <2>7. CallInv'
    BY <2>3, <2>6, <2>v, <1>ServeStep
  <2> QED BY <2>4, <2>6, <2>7 DEF WhereInv
(* task_queue_rpc(), up to where the slot is reserved, keeps WhereInv.     *)
<1>WhereQueueRpc.
  ASSUME TypeOK, ControlInv, WhereInv, NEW t \in Task, NEW x \in Task, NEW r \in RpcId,
         NEW m \in Modes, QueueRpc(t, x, r, m)
  PROVE  WhereInv'
  <2> USE <1>WhereQueueRpc
  <2> HIDE DEF GoTo, Set
  <2>t. pc \in [Task -> PC] /\ cur \in [Task -> RpcId \cup {NoRpc}]
    BY DEF TypeOK
  <2>f. mode \in [RpcId -> RpcModes \cup {NoRpc}] /\ ran \in [RpcId -> Nat]
    BY DEF TypeOK
  <2>g. result \in [RpcId -> {"none", "true", "false", "throw"}]
    BY DEF TypeOK
  <2>v. VecInv /\ PlaceInv /\ CallInv
    BY DEF WhereInv
  <2>1. /\ pc[t] = "run" /\ mode[r] = NoRpc
        /\ UNCHANGED <<ri_vec, i, slot, dropped, ret>>
    BY DEF QueueRpc, info, exec
  <2>2. ret[t] \notin {"lock", "grow"} /\ cur[t] = NoRpc /\ slot[t] = NoRpc
    BY <2>1 DEF ControlInv, Control, ServePC, CallPC, RunPC
  <2>3. ran[r] = 0 /\ result[r] = "none"
    BY <2>1, <2>v DEF PlaceInv, CallAt, QueueAt, SlotAt, Nowhere
  <2>4. mode'[r] # NoRpc /\ \A q \in RpcId : q # r => mode'[q] = mode[q]
    <3> DEFINE own == [flag |-> "user", sync |-> FALSE]
    <3>1. m # NoRpc /\ own # NoRpc
      <4>1. own \in RpcModes
        BY DEF RpcModes
      <4> QED BY <4>1, RpcAssumption
    <3>2. mode' = [mode EXCEPT ![r] = m] \/ mode' = [mode EXCEPT ![r] = own]
      BY DEF QueueRpc
    <3> HIDE DEF own
    <3> QED BY <2>f, <3>1, <3>2
  <2>5. CASE /\ UNCHANGED <<pc, cur>>
             /\ ran' = ran \/ ran' = [ran EXCEPT ![r] = @ + 1]
             /\ \E b \in {"true", "false", "throw"} : result' = [result EXCEPT ![r] = b]
    <3>1. ran'[r] \in {0, 1} /\ \A q \in RpcId : q # r => ran'[q] = ran[q] /\ result'[q] = result[q]
      BY <2>3, <2>5, <2>f, <2>g, SMTT(60)
    <3>2. \A u \in Task : cur'[u] = cur[u] /\ (Unqueued(u)' <=> Unqueued(u)) /\ pc'[u] = pc[u]
      BY <2>1, <2>5 DEF Unqueued
    <3>3. Queue' = Queue
      BY <2>1, <3>2, QueueSame
    <3>4. VecInv'
      BY <2>1, <2>v, <3>2, SMTT(60) DEF VecInv
    <3>5. PlaceInv' /\ CallInv'
      BY <2>1, <2>4, <2>v, <3>1, <3>2, <3>3, <1>PlaceNew
    <3> QED BY <3>4, <3>5 DEF WhereInv
  <2>6. CASE UNCHANGED <<ran, result>> /\ cur' = [cur EXCEPT ![t] = r] /\ GoTo(t, "lock")
    <3>1. ran'[r] \in {0, 1} /\ \A q \in RpcId : q # r => ran'[q] = ran[q] /\ result'[q] = result[q]
      BY <2>3, <2>6
    <3>2. \A u \in Task : u # t => cur'[u] = cur[u] /\ (Unqueued(u)' <=> Unqueued(u)) /\ pc'[u] = pc[u]
      BY <2>1, <2>6, <2>t DEF Unqueued, GoTo
    <3>3. cur'[t] = r /\ Unqueued(t)' /\ result'[r] = "none" /\ ran'[r] = 0 /\ pc'[t] = "lock"
      BY <2>3, <2>6, <2>t DEF Unqueued, GoTo
    <3>4. Queue' = Queue
      BY <2>1, <3>2, <3>3, QueueSame
    <3>5. VecInv'
      BY <2>1, <2>v, <3>2, <3>3, SMTT(60) DEF VecInv
    <3>6. \A u \in Task : slot[u] # NoRpc => pc'[u] = pc[u]
      BY <2>2, <3>2
    <3>7. \A u \in Task : \/ cur'[u] = cur[u] /\ (Unqueued(u)' <=> Unqueued(u))
                          \/ /\ cur'[u] = r /\ Unqueued(u)' /\ result'[r] = "none" /\ ran'[r] = 0
                             /\ \A y \in Task : y # u => cur'[y] = cur[y]
      BY <3>2, <3>3
    <3>8. PlaceInv' /\ CallInv'
      BY <2>1, <2>4, <2>v, <3>1, <3>4, <3>6, <3>7, <1>PlaceNew
    <3> QED BY <3>5, <3>8 DEF WhereInv
  <2> QED BY <2>5, <2>6 DEF QueueRpc
(* rpc_alloc(): the new slot is the last of the vector, and the call was in*)
(* none before.                                                            *)
<1>WhereRpcAlloc.
  ASSUME TypeOK, ControlInv, LockInv, WhereInv, NEW t \in Task, RpcAlloc(t)
  PROVE  WhereInv'
  <2> USE <1>WhereRpcAlloc
  <2> HIDE DEF GoTo, Set, Return
  <2>t. pc \in [Task -> PC] /\ cur \in [Task -> RpcId \cup {NoRpc}] /\ ri_vec \in [Task -> Seq(RpcId)]
    BY DEF TypeOK
  <2>g. result \in [RpcId -> {"none", "true", "false", "throw"}] /\ thread \in [Task -> Task]
    BY DEF TypeOK
  <2>v. VecInv /\ PlaceInv /\ CallInv
    BY DEF WhereInv
  <2>1. pc[t] = "lock" /\ UNCHANGED <<i, slot, ran, dropped, mode, ret>>
    BY DEF RpcAlloc, exec, hist
  <2>2. cur[t] \in RpcId /\ cur[t] # NoRpc /\ ret[t] \notin {"lock", "grow"}
    BY <2>1, <2>t DEF ControlInv, Control, CallPC, ServePC
  <2>3. CASE UNCHANGED ri_vec /\ Return(t, "false")
    <3>1. /\ \A u \in Task : u # t => pc'[u] = pc[u] /\ ret'[u] = ret[u] /\ cur'[u] = cur[u]
          /\ cur'[t] = NoRpc /\ pc'[t] = "run"
          /\ \A r \in RpcId : r # cur[t] => result'[r] = result[r]
      BY <2>1, <2>2, <2>3, <2>g, <2>t DEF Return, GoTo
    <3> QED BY <2>1, <2>3, <3>1, <1>QuietStep DEF RunPC
  <2>4. CASE UNCHANGED <<ri_vec, cur, result>> /\ GoTo(t, "grow")
    <3>1. /\ \A u \in Task : u # t => pc'[u] = pc[u] /\ ret'[u] = ret[u] /\ cur'[u] = cur[u]
          /\ cur'[t] = cur[t] /\ pc'[t] = "grow" /\ Unqueued(t) /\ Unqueued(t)'
      BY <2>1, <2>4, <2>t DEF Unqueued, GoTo
    <3> QED BY <2>1, <2>4, <3>1, <1>QuietStep DEF RunPC
  <2>5. CASE /\ UNCHANGED <<cur, result>> /\ \E l \in {"connect", "signal"} : GoTo(t, l)
             /\ ~Terminating(thread[t])
             /\ ri_vec' = [ri_vec EXCEPT ![thread[t]] = Append(@, cur[t])]
    <3> DEFINE x == thread[t]
    <3>1. x \in Task /\ pc[x] \notin {"xloop", "xrun"}
      BY <2>5, <2>g DEF LockInv, Terminating, ExitPC
    <3>2. /\ \A u \in Task : u # t => pc'[u] = pc[u]
          /\ pc'[t] \in {"connect", "signal"}
      BY <2>5, <2>t DEF GoTo
    <3>3. Unqueued(t) /\ ~Unqueued(t)' /\ \A u \in Task : u # t => (Unqueued(u)' <=> Unqueued(u))
      BY <2>1, <2>2, <3>2 DEF Unqueued
    <3>4. ri_vec'[x] = Append(ri_vec[x], cur[t]) /\ \A u \in Task : u # x => ri_vec'[u] = ri_vec[u]
      BY <2>5, <2>t, <3>1
    <3>5. Nowhere(cur[t])
      BY <2>2, <2>v, <3>3 DEF CallInv
    <3>6. cur[t] \notin Queue[x] /\ \A u \in Task : slot[u] # NoRpc => pc'[u] = pc[u]
      BY <2>1, <3>1, <3>2, <3>5 DEF Nowhere, Pending, ControlInv, Control, RunPC
    <3>7. \A u \in Task : pc'[u] \in {"xloop", "xrun"} <=> pc[u] \in {"xloop", "xrun"}
      BY <2>1, <3>2
    <3> HIDE DEF x
    <3>8. /\ Queue'[x] = Queue[x] \cup {cur[t]} /\ \A u \in Task : u # x => Queue'[u] = Queue[u]
          /\ \A j, k \in DOMAIN ri_vec'[x] : ri_vec'[x][j] = ri_vec'[x][k] => j = k
      BY <2>1, <2>2, <2>v, <3>1, <3>4, <3>6, <3>7, QueueAppend
    <3>9. VecInv'
      <4> SUFFICES ASSUME NEW u \in Task
                   PROVE  /\ \A j, k \in DOMAIN ri_vec'[u] : ri_vec'[u][j] = ri_vec'[u][k] => j = k
                          /\ pc'[u] = "xrun" => i'[u] \in DOMAIN ri_vec'[u] /\ slot'[u] = ri_vec'[u][i'[u]]
        BY DEF VecInv
      <4>1. CASE u = x
        BY <3>1, <3>7, <3>8, <4>1
      <4>2. CASE u # x
        BY <2>1, <2>v, <3>2, <3>4, <4>2, SMTT(60) DEF VecInv
      <4> QED BY <4>1, <4>2
    <3>10. PlaceInv' /\ CallInv'
      BY <2>1, <2>2, <2>5, <2>v, <3>1, <3>3, <3>6, <3>8, <1>PlaceAppend
    <3> QED BY <3>9, <3>10 DEF WhereInv
  <2> QED BY <2>3, <2>4, <2>5 DEF RpcAlloc, info
(* What task_serve_before_exit() does to the vector keeps WhereInv.        *)
<1>WhereExit.
  ASSUME TypeOK, ControlInv, WhereInv, NEW t \in Task, ExitLock(t) \/ ExitLoop(t) \/ ExitRun(t)
  PROVE  WhereInv'
  <2> USE <1>WhereExit
  <2> HIDE DEF GoTo, Clear
  <2>t. pc \in [Task -> PC] /\ slot \in [Task -> RpcId \cup {NoRpc}] /\ i \in [Task -> Nat]
    BY DEF TypeOK
  <2>u. ri_vec \in [Task -> Seq(RpcId)] /\ ran \in [RpcId -> Nat]
    BY DEF TypeOK
  <2>v. VecInv /\ PlaceInv /\ CallInv
    BY DEF WhereInv
  <2>w. /\ DOMAIN ri_vec[t] = 1 .. Len(ri_vec[t]) /\ Len(ri_vec[t]) \in Nat /\ i[t] \in Nat
    BY <2>t, <2>u, SMTT(60)
  <2>ii. i[t] >= i[t]
    BY <2>w, SMTT(60)
  <2>1. UNCHANGED <<mode, cur, result, ret>>
    BY DEF ExitLock, ExitLoop, ExitRun, call
  <2>2. ASSUME \A u \in Task : u # t => pc'[u] = pc[u], pc[t] \in {"xlock", "xloop", "xrun"}, pc'[t] \notin {"lock", "grow"},
               PlaceInv', VecInv', \A r \in RpcId : Nowhere(r)' <=> Nowhere(r)
        PROVE  WhereInv'
    <3>1. CallInv'
      BY <2>1, <2>2, <2>v, <1>ServeStep DEF RunPC
    <3> QED BY <2>2, <3>1 DEF WhereInv
  <2>3. ASSUME Queue' = Queue, UNCHANGED <<slot, ran, dropped>>
        PROVE  \A r \in RpcId : Nowhere(r)' <=> Nowhere(r)
    BY <2>3 DEF Nowhere, Pending
  <2>4. CASE ExitLock(t)
    <3>1. /\ pc[t] = "xlock" /\ pc'[t] = "xloop" /\ i'[t] = 1 /\ UNCHANGED <<slot, ri_vec, ran, dropped>>
          /\ \A u \in Task : u # t => pc'[u] = pc[u] /\ i'[u] = i[u]
      BY <2>4, <2>t DEF ExitLock, GoTo, info, hist
    <3>2. \A u \in Task : Ready(u)' = Ready(u)
      <4>1. Ready(t)' = Ready(t)
        BY <2>w, <3>1, SMTT(60) DEF Ready
      <4>2. \A u \in Task : u # t => Ready(u)' = Ready(u)
        BY <3>1 DEF Ready
      <4> QED BY <4>1, <4>2
    <3>3. Queue' = Queue
      BY <3>1, <3>2 DEF Queue
    <3>4. VecInv'
      BY <2>v, <3>1, SMTT(60) DEF VecInv
    <3>5. slot[t] = NoRpc
      BY <3>1 DEF ControlInv, Control, RunPC
    <3>6. PlaceInv'
      <4>1. \A u \in Task : slot[u] # NoRpc => pc'[u] = pc[u]
        BY <3>1, <3>5
      <4>2. \A u \in Task : cur'[u] = cur[u] /\ (Unqueued(u)' <=> Unqueued(u))
        BY <2>1, <3>1 DEF Unqueued
      <4> QED BY <2>1, <2>v, <3>1, <3>3, <4>1, <4>2, <1>PlaceQuiet
    <3>7. \A r \in RpcId : Nowhere(r)' <=> Nowhere(r)
      BY <2>3, <3>1, <3>3
    <3> QED BY <2>2, <3>1, <3>4, <3>6, <3>7
  <2>5. CASE ExitLoop(t)
    <3>1. pc[t] = "xloop" /\ UNCHANGED ran /\ slot[t] = NoRpc /\ i[t] # 0
      BY <2>5 DEF ExitLoop, ControlInv, Control, RunPC
    <3>2. CASE /\ i[t] > Len(ri_vec[t]) /\ ri_vec' = [ri_vec EXCEPT ![t] = <<>>] /\ i' = [i EXCEPT ![t] = 0]
               /\ GoTo(t, "xend") /\ UNCHANGED <<slot, dropped>>
      <4>1. /\ pc'[t] = "xend" /\ ri_vec'[t] = <<>>
            /\ \A u \in Task : u # t => pc'[u] = pc[u] /\ i'[u] = i[u] /\ ri_vec'[u] = ri_vec[u]
        BY <2>t, <2>u, <3>2 DEF GoTo
      <4>2. Ready(t) = {} /\ Ready(t)' = {}
        BY <2>w, <3>1, <3>2, <4>1, SMTT(60) DEF Ready
      <4>3. \A u \in Task : u # t => Ready(u)' = Ready(u)
        BY <4>1 DEF Ready
      <4>4. \A u \in Task : Queue'[u] = Queue[u]
        BY <4>1, <4>2, <4>3, SMTT(60) DEF Queue
      <4>5. Queue' = Queue
        <5>1. Queue = [u \in Task |-> Queue[u]] /\ Queue' = [u \in Task |-> Queue'[u]]
          BY DEF Queue
        <5> QED BY <4>4, <5>1
      <4>6. VecInv'
        BY <2>v, <3>2, <4>1, SMTT(60) DEF VecInv
      <4>7. PlaceInv'
        <5>1. \A u \in Task : slot[u] # NoRpc => pc'[u] = pc[u]
          BY <3>1, <4>1
        <5>2. \A u \in Task : cur'[u] = cur[u] /\ (Unqueued(u)' <=> Unqueued(u))
          BY <2>1, <3>1, <4>1 DEF Unqueued
        <5> QED BY <2>1, <2>v, <3>1, <3>2, <4>5, <5>1, <5>2, <1>PlaceQuiet
      <4>8. \A r \in RpcId : Nowhere(r)' <=> Nowhere(r)
        BY <2>3, <3>1, <3>2, <4>5
      <4> QED BY <2>2, <3>1, <4>1, <4>6, <4>7, <4>8
    <3>3. ASSUME NEW r \in RpcId, i[t] \in 1 .. Len(ri_vec[t]), r = ri_vec[t][i[t]], User(r),
                 dropped' = dropped \cup {r}, i' = [i EXCEPT ![t] = @ + 1], UNCHANGED <<ri_vec, slot, pc>>
          PROVE  WhereInv'
      <4>1. i'[t] = i[t] + 1 /\ \A u \in Task : u # t => i'[u] = i[u]
        BY <2>t, <3>3
      <4>2. Queue'[t] = Queue[t] \ {r} /\ (\A u \in Task : u # t => Queue'[u] = Queue[u]) /\ r \in Queue[t]
        BY <2>v, <2>w, <3>1, <3>3, <4>1, QueueNext
      <4>3. PlaceInv' /\ \A q \in RpcId : Nowhere(q)' <=> Nowhere(q)
        BY <2>1, <2>v, <3>1, <3>3, <4>2, <1>PlaceDrop
      <4>4. VecInv'
        <5>1. \A u \in Task : pc[u] = "xrun" => i'[u] = i[u]
          BY <3>1, <4>1
        <5> QED BY <2>v, <3>3, <5>1 DEF VecInv
      <4> QED BY <2>2, <3>1, <3>3, <4>3, <4>4
    <3>4. ASSUME NEW r \in RpcId, i[t] \in 1 .. Len(ri_vec[t]), r = ri_vec[t][i[t]], ~User(r),
                 slot' = [slot EXCEPT ![t] = r], GoTo(t, "xrun"), UNCHANGED <<ri_vec, i, dropped>>
          PROVE  WhereInv'
      <4>1. /\ pc'[t] = "xrun" /\ slot'[t] = r
            /\ \A u \in Task : u # t => pc'[u] = pc[u] /\ slot'[u] = slot[u]
        BY <2>t, <3>4 DEF GoTo
      <4>2. Queue' = Queue
        BY <3>1, <3>4, <4>1, QueueSame
      <4>3. r \in Queue[t]
        <5>1. i[t] \in Ready(t)
          BY <3>4, <2>w, <2>ii DEF Ready
        <5> QED BY <3>4, <5>1 DEF Queue
      <4>4. PlaceInv' /\ \A q \in RpcId : Nowhere(q)' <=> Nowhere(q)
        BY <2>1, <2>v, <3>1, <3>4, <4>1, <4>2, <4>3, <1>PlaceExitBegin
      <4>5. VecInv'
        <5>1. pc'[t] = "xrun" => i'[t] \in DOMAIN ri_vec'[t] /\ slot'[t] = ri_vec'[t][i'[t]]
          BY <2>w, <3>4, <4>1
        <5>2. \A u \in Task : u # t => pc'[u] = pc[u] /\ slot'[u] = slot[u] /\ i'[u] = i[u]
          BY <3>4, <4>1
        <5> QED BY <2>v, <3>4, <5>1, <5>2 DEF VecInv
      <4> QED BY <2>2, <3>1, <4>1, <4>4, <4>5
    <3> QED BY <2>5, <3>1, <3>2, <3>3, <3>4, ExitLoopCases
  <2>6. CASE ExitRun(t)
    <3>1. pc[t] = "xrun" /\ UNCHANGED <<ri_vec, dropped>> /\ slot[t] # NoRpc
      BY <2>6 DEF ExitRun, info, ControlInv, Control, RunPC
    <3>2. PICK r \in RpcId : r = slot[t]
      BY <2>t, <3>1
    <3>3. r = ri_vec[t][i[t]] /\ i[t] \in DOMAIN ri_vec[t]
      BY <2>v, <3>1, <3>2 DEF VecInv
    <3>4. /\ pc'[t] = "xloop" /\ slot'[t] = NoRpc /\ i'[t] = i[t] + 1 /\ ran'[r] = ran[r] + 1
          /\ \A u \in Task : u # t => pc'[u] = pc[u] /\ slot'[u] = slot[u] /\ i'[u] = i[u]
          /\ \A q \in RpcId : q # r => ran'[q] = ran[q]
      BY <2>6, <2>t, <2>u, <3>2 DEF ExitRun, GoTo
    <3>5. Queue'[t] = Queue[t] \ {r} /\ (\A u \in Task : u # t => Queue'[u] = Queue[u]) /\ r \in Queue[t]
      BY <2>v, <3>1, <3>3, <3>4, QueueNext
    <3>6. PlaceInv' /\ \A q \in RpcId : Nowhere(q)' <=> Nowhere(q)
      BY <2>1, <2>v, <3>1, <3>2, <3>4, <3>5, <1>PlaceExitRun
    <3>7. VecInv'
      <4>1. pc'[t] # "xrun"
        BY <3>4
      <4>2. \A u \in Task : pc'[u] = "xrun" => pc[u] = "xrun" /\ slot'[u] = slot[u] /\ i'[u] = i[u]
        BY <3>4, <4>1
      <4> QED BY <2>v, <3>1, <4>2 DEF VecInv
    <3> QED BY <2>2, <3>1, <3>4, <3>6, <3>7
  <2> QED BY <2>4, <2>5, <2>6
<1> SUFFICES ASSUME TypeOK, ControlInv, LockInv, WhereInv, [Next]_vars
             PROVE  WhereInv'
  BY SMTT(60)
<1> HIDE DEF GoTo, Set, Clear, Return, LeaveKernel
<1>t. pc \in [Task -> PC] /\ cur \in [Task -> RpcId \cup {NoRpc}] /\ ret \in [Task -> PC \cup {"timer"}]
  BY DEF TypeOK
<1>s. slot \in [Task -> RpcId \cup {NoRpc}] /\ ran \in [RpcId -> Nat]
  BY DEF TypeOK
<1>g. result \in [RpcId -> {"none", "true", "false", "throw"}]
  BY DEF TypeOK
<1>v. VecInv /\ PlaceInv /\ CallInv
  BY DEF WhereInv
<1>1. CASE Frozen
  <2>1. UNCHANGED <<ri_vec, i, slot, ran, dropped, mode, cur, result, pc, ret>>
    BY <1>1 DEF Frozen, info, exec, call, hist
  <2>2. Queue' = Queue
    BY <2>1, QueueSame
  <2>3. \A u \in Task : Unqueued(u)' <=> Unqueued(u)
    BY <2>1 DEF Unqueued
  <2>4. PlaceInv' /\ CallInv'
    BY <1>v, <2>1, <2>2, <2>3, <1>PlaceQuiet
  <2>5. VecInv'
    BY <1>v, <2>1 DEF VecInv
  <2> QED BY <2>4, <2>5 DEF WhereInv
<1>2. ASSUME NEW t \in Task, NEW x \in Task, NEW r \in RpcId, NEW m \in Modes, QueueRpc(t, x, r, m)
      PROVE  WhereInv'
  BY <1>2, <1>WhereQueueRpc
<1>3. ASSUME NEW t \in Task, UNCHANGED <<ri_vec, i, slot, ran, dropped, mode, cur, result>>,
             pc[t] \notin RunPC \cup {"xloop"}, pc'[t] \notin {"xloop", "xrun"},
             \A u \in Task : u # t => pc'[u] = pc[u] /\ ret'[u] = ret[u],
             cur[t] # NoRpc => (Unqueued(t)' <=> Unqueued(t))
      PROVE  WhereInv'
  BY <1>3, <1>QuietStep
<1>4. ASSUME NEW t \in Task, UNCHANGED <<ri_vec, i, slot, ran, dropped, mode>>, NEW b, Return(t, b),
             pc[t] \notin RunPC \cup {"xloop"}, cur[t] # NoRpc, \A u \in Task : u # t => ret'[u] = ret[u]
      PROVE  WhereInv'
  <2>1. /\ \A u \in Task : u # t => pc'[u] = pc[u] /\ cur'[u] = cur[u]
        /\ cur'[t] = NoRpc /\ pc'[t] = "run"
        /\ \A r \in RpcId : r # cur[t] => result'[r] = result[r]
    BY <1>4, <1>g, <1>t DEF Return, GoTo
  <2> QED BY <1>4, <2>1, <1>QuietStep
<1>5. ASSUME NEW t \in Task, NEW timer \in BOOLEAN, ReturnToUser(t, timer)
      PROVE  WhereInv'
  <2>1. /\ UNCHANGED <<ri_vec, i, slot, ran, dropped, mode, cur, result>> /\ pc[t] = "run" /\ pc'[t] = "user"
        /\ \A u \in Task : u # t => pc'[u] = pc[u] /\ ret'[u] = ret[u]
    BY <1>5, <1>t DEF ReturnToUser, info, exec, call, hist, GoTo
  <2>2. cur[t] = NoRpc
    BY <2>1 DEF ControlInv, Control, CallPC, ServePC
  <2> QED BY <1>3, <2>1, <2>2 DEF RunPC
<1>6. ASSUME NEW t \in Task, Sleep(t) \/ Resume(t) \/ SetNosignals(t) \/ NothrowServe(t) \/ NothrowEnd(t)
      PROVE  WhereInv'
  <2>1. UNCHANGED <<ri_vec, i, slot, ran, dropped, mode, cur, result, pc, ret>> /\ pc[t] \in {"run", "wait"}
    BY <1>6 DEF Sleep, Resume, SetNosignals, NothrowServe, NothrowEnd, info, exec, call, hist
  <2>2. Unqueued(t)' <=> Unqueued(t)
    BY <2>1 DEF Unqueued
  <2> QED BY <1>3, <2>1, <2>2 DEF RunPC
<1>7. ASSUME NEW t \in Task, ClearNosignals(t) \/ Exit(t) \/ ExitEnd(t)
      PROVE  WhereInv'
  <2>1. /\ UNCHANGED <<ri_vec, i, slot, ran, dropped, mode, cur, result, ret>>
        /\ pc[t] \in {"run", "xend"} /\ \E l \in {"cleared", "run", "xlock", "dead"} : GoTo(t, l)
    BY <1>7 DEF ClearNosignals, Exit, ExitEnd, info, exec, call, hist
  <2>2. pc'[t] \in {"cleared", "run", "xlock", "dead"} /\ \A u \in Task : u # t => pc'[u] = pc[u]
    BY <1>t, <2>1 DEF GoTo
  <2>3. Unqueued(t)' <=> Unqueued(t)
    BY <2>1, <2>2 DEF Unqueued
  <2> QED BY <1>3, <2>1, <2>2, <2>3 DEF RunPC
<1>8. ASSUME NEW t \in Task, RpcAlloc(t)
      PROVE  WhereInv'
  BY <1>8, <1>WhereRpcAlloc
<1>9. ASSUME NEW t \in Task, RpcGrow(t)
      PROVE  WhereInv'
  <2>1. UNCHANGED <<ri_vec, i, slot, ran, dropped, mode, ret>> /\ pc[t] = "grow"
    BY <1>9 DEF RpcGrow, exec, hist
  <2>2. cur[t] # NoRpc
    BY <2>1 DEF ControlInv, Control, CallPC
  <2>3. CASE Return(t, "throw")
    BY <1>4, <2>1, <2>2, <2>3 DEF RunPC
  <2>4. CASE GoTo(t, "lock") /\ UNCHANGED <<cur, result>>
    <3>1. pc'[t] = "lock" /\ \A u \in Task : u # t => pc'[u] = pc[u]
      BY <1>t, <2>4 DEF GoTo
    <3>2. Unqueued(t)' <=> Unqueued(t)
      BY <2>1, <3>1 DEF Unqueued
    <3> QED BY <1>3, <2>1, <2>4, <3>1, <3>2 DEF RunPC
  <2> QED BY <1>9, <2>3, <2>4 DEF RpcGrow
<1>10. ASSUME NEW t \in Task,
              ConnectDone(t) \/ SignalInterrupt(t) \/ WakeTarget(t) \/ Nack(t) \/ WaitDone(t)
       PROVE  WhereInv'
  <2>1. /\ UNCHANGED <<ri_vec, i, slot, ran, dropped, mode, ret>>
        /\ pc[t] \in {"connect", "signal", "wake", "nack", "wait"}
    <3>1. CASE ConnectDone(t)
      BY <3>1 DEF ConnectDone, info, exec, hist, call
    <3>2. CASE SignalInterrupt(t)
      BY <3>2 DEF SignalInterrupt, info, exec, hist
    <3>3. CASE WakeTarget(t)
      BY <3>3 DEF WakeTarget, info, exec, hist
    <3>4. CASE Nack(t)
      BY <3>4 DEF Nack, info, exec, hist
    <3>5. CASE WaitDone(t)
      BY <3>5 DEF WaitDone, info, exec, hist
    <3> QED BY <1>10, <3>1, <3>2, <3>3, <3>4, <3>5
  <2>2. cur[t] # NoRpc
    BY <2>1 DEF ControlInv, Control, CallPC
  <2>3. \/ \E l \in {"signal", "nack", "wake", "wait"} : GoTo(t, l) /\ UNCHANGED <<cur, result>>
        \/ \E b \in {"throw", "true", "false"} : Return(t, b)
    <3>1. CASE ConnectDone(t)
      BY <3>1 DEF ConnectDone, call
    <3>2. CASE SignalInterrupt(t)
      BY <3>2 DEF SignalInterrupt, Queued
    <3>3. CASE WakeTarget(t)
      BY <3>3 DEF WakeTarget, Queued
    <3>4. CASE Nack(t)
      BY <3>4 DEF Nack
    <3>5. CASE WaitDone(t)
      BY <3>5 DEF WaitDone
    <3> QED BY <1>10, <3>1, <3>2, <3>3, <3>4, <3>5
  <2>4. ASSUME NEW l \in {"signal", "nack", "wake", "wait"}, GoTo(t, l), UNCHANGED <<cur, result>>
        PROVE  WhereInv'
    <3>1. pc'[t] \in {"signal", "nack", "wake", "wait"} /\ \A u \in Task : u # t => pc'[u] = pc[u]
      BY <1>t, <2>4 DEF GoTo
    <3>2. Unqueued(t)' <=> Unqueued(t)
      BY <2>1, <3>1 DEF Unqueued
    <3> QED BY <1>3, <2>1, <2>4, <3>1, <3>2 DEF RunPC
  <2>5. ASSUME NEW b \in {"throw", "true", "false"}, Return(t, b)
        PROVE  WhereInv'
    BY <1>4, <2>1, <2>2, <2>5 DEF RunPC
  <2> QED BY <2>3, <2>4, <2>5
<1>11. ASSUME NEW t \in Task, ServeBegin(t)
       PROVE  WhereInv'
  <2>1. /\ UNCHANGED <<ri_vec, i, slot, ran, dropped, mode, cur, result>>
        /\ pc[t] \in {"run", "cleared", "wait", "lock", "grow"}
        /\ \E l \in {"push", "serve"} : GoTo(t, l)
        /\ ret' = [ret EXCEPT ![t] = IF pc[t] = "cleared" THEN "run" ELSE pc[t]]
    BY <1>11 DEF ServeBegin, info, exec, call, hist
  <2>2. pc'[t] \in {"push", "serve"} /\ \A u \in Task : u # t => pc'[u] = pc[u] /\ ret'[u] = ret[u]
    BY <1>t, <2>1 DEF GoTo
  <2>3. ret'[t] = IF pc[t] = "cleared" THEN "run" ELSE pc[t]
    BY <1>t, <2>1
  <2>4. ret[t] \notin {"lock", "grow"}
    BY <2>1 DEF ControlInv, Control, ServePC
  <2>5. Unqueued(t)' <=> Unqueued(t)
    BY <2>1, <2>2, <2>3, <2>4, SMTT(60) DEF Unqueued
  <2> QED BY <1>3, <2>1, <2>2, <2>5 DEF RunPC
<1>12. ASSUME NEW t \in Task, ServePush(t)
       PROVE  WhereInv'
  <2>1. /\ UNCHANGED <<ri_vec, i, slot, ran, dropped, mode, cur, result, ret>>
        /\ pc[t] = "push" /\ GoTo(t, "serve")
    BY <1>12 DEF ServePush, info, exec, call, hist
  <2>2. pc'[t] = "serve" /\ \A u \in Task : u # t => pc'[u] = pc[u]
    BY <1>t, <2>1 DEF GoTo
  <2>3. Unqueued(t)' <=> Unqueued(t)
    BY <2>1, <2>2 DEF Unqueued
  <2> QED BY <1>3, <2>1, <2>2, <2>3 DEF RunPC
<1>13. ASSUME NEW t \in Task, ServePop(t)
       PROVE  WhereInv'
  <2>1. /\ UNCHANGED <<ri_vec, i, slot, ran, dropped, mode, cur, result>>
        /\ pc[t] = "pop" /\ GoTo(t, ret[t]) /\ ret' = [ret EXCEPT ![t] = "run"]
    BY <1>13 DEF ServePop, info, exec, call, hist
  <2>2. /\ pc'[t] = ret[t] /\ ret'[t] = "run"
        /\ \A u \in Task : u # t => pc'[u] = pc[u] /\ ret'[u] = ret[u]
    BY <1>t, <2>1 DEF GoTo
  <2>3. Unqueued(t)' <=> Unqueued(t)
    BY <2>1, <2>2 DEF Unqueued
  <2>4. ret[t] \notin {"xloop", "xrun"}
    BY DEF ControlInv, Control
  <2> QED BY <1>3, <2>1, <2>2, <2>3, <2>4 DEF RunPC
<1>14. ASSUME NEW t \in Task, ServeUnwind(t)
       PROVE  WhereInv'
  <2>1. /\ UNCHANGED <<ri_vec, i, slot, ran, dropped, mode>>
        /\ pc[t] = "unwind" /\ ret' = [ret EXCEPT ![t] = "run"]
    BY <1>14 DEF ServeUnwind, info, exec, hist
  <2>2. \A u \in Task : u # t => ret'[u] = ret[u]
    BY <1>t, <2>1
  <2>3. CASE cur[t] # NoRpc
    <3>1. Return(t, "throw")
      BY <1>14, <2>3 DEF ServeUnwind
    <3> QED BY <1>4, <2>1, <2>2, <2>3, <3>1 DEF RunPC
  <2>4. CASE cur[t] = NoRpc
    <3>1. GoTo(t, "run") /\ UNCHANGED <<cur, result>>
      BY <1>14, <2>4 DEF ServeUnwind
    <3>2. pc'[t] = "run" /\ \A u \in Task : u # t => pc'[u] = pc[u]
      BY <1>t, <3>1 DEF GoTo
    <3> QED BY <1>3, <2>1, <2>2, <2>4, <3>1, <3>2 DEF RunPC
  <2> QED BY <2>3, <2>4
<1>15. ASSUME NEW t \in Task, ServeTake(t)
       PROVE  WhereInv'
  <2>1. UNCHANGED <<i, ran, dropped, mode, cur, result, ret>> /\ pc[t] = "serve"
    BY <1>15 DEF ServeTake, call, hist
  <2>2. CASE UNCHANGED <<slot, ri_vec>> /\ \E l \in {"pop", "unwind"} : GoTo(t, l)
    <3>1. pc'[t] \in {"pop", "unwind"} /\ \A u \in Task : u # t => pc'[u] = pc[u]
      BY <1>t, <2>2 DEF GoTo
    <3>2. Unqueued(t)' <=> Unqueued(t)
      BY <2>1, <3>1 DEF Unqueued
    <3> QED BY <1>3, <2>1, <2>2, <3>1, <3>2 DEF RunPC
  <2>3. ASSUME NEW k \in 1 .. Len(ri_vec[t]), Take(t, k)
        PROVE  WhereInv'
    BY <2>1, <2>3, <1>TakeStep
  <2> QED BY <1>15, <2>2, <2>3, ServeTakeCases
<1>16. ASSUME NEW t \in Task, UserTake(t)
       PROVE  WhereInv'
  <2>1. UNCHANGED <<i, ran, dropped, mode, cur, result>> /\ pc[t] = "user"
    BY <1>16 DEF UserTake, call, hist
  <2>2. CASE UNCHANGED <<slot, ri_vec>> /\ LeaveKernel(t)
    <3>1. pc'[t] = "run" /\ \A u \in Task : u # t => pc'[u] = pc[u] /\ ret'[u] = ret[u]
      BY <1>t, <2>2 DEF LeaveKernel, GoTo
    <3>2. cur[t] = NoRpc
      BY <2>1 DEF ControlInv, Control, CallPC
    <3> QED BY <1>3, <2>1, <2>2, <3>1, <3>2 DEF RunPC
  <2>3. ASSUME NEW k \in 1 .. Len(ri_vec[t]), Take(t, k), UNCHANGED ret
        PROVE  WhereInv'
    BY <2>1, <2>3, <1>TakeStep
  <2> QED BY <1>16, <2>2, <2>3, UserTakeCases
<1>17. ASSUME NEW t \in Task, Callback(t)
       PROVE  WhereInv'
  <2>1. /\ UNCHANGED <<ri_vec, i, slot, dropped, mode, cur, result, ret>> /\ pc[t] = "rpc"
        /\ \E l \in {"done", "thrown"} : GoTo(t, l)
        /\ ran' = [ran EXCEPT ![slot[t]] = @ + 1]
    BY <1>17 DEF Callback, info, exec, call
  <2>2. slot[t] \in RpcId /\ slot[t] # NoRpc
    BY <1>s, <2>1 DEF ControlInv, Control, RunPC
  <2>3. /\ pc'[t] \in {"done", "thrown"} /\ \A u \in Task : u # t => pc'[u] = pc[u]
        /\ ran'[slot[t]] = ran[slot[t]] + 1 /\ \A r \in RpcId : r # slot[t] => ran'[r] = ran[r]
    BY <1>s, <1>t, <2>1, <2>2 DEF GoTo
  <2>4. Queue' = Queue
    BY <2>1, <2>3, QueueSame
  <2>5. PlaceInv' /\ \A q \in RpcId : Nowhere(q)' <=> Nowhere(q)
    BY <1>v, <2>1, <2>2, <2>3, <2>4, <1>PlaceRun
  <2>6. VecInv'
    BY <1>v, <2>1, <2>3, SMTT(60) DEF VecInv
  <2>7. CallInv'
    BY <1>v, <2>1, <2>3, <2>5, <1>ServeStep DEF RunPC
  <2> QED BY <2>5, <2>6, <2>7 DEF WhereInv
<1>18. ASSUME NEW t \in Task, CallbackDone(t)
       PROVE  WhereInv'
  <2>1. /\ UNCHANGED <<ri_vec, i, dropped, ran, mode, cur, result>> /\ pc[t] \in {"done", "thrown"}
        /\ slot' = [slot EXCEPT ![t] = NoRpc]
    BY <1>18 DEF CallbackDone, info, call
  <2>2. slot[t] \in RpcId /\ slot[t] # NoRpc
    BY <1>s, <2>1 DEF ControlInv, Control, RunPC
  <2>3. \/ UNCHANGED ret /\ \E l \in {"user", "serve", "pop", "unwind"} : GoTo(t, l)
        \/ InUser(t) /\ GoTo(t, "run") /\ ret' = [ret EXCEPT ![t] = "run"]
    BY <1>18 DEF CallbackDone, LeaveKernel
  <2>4. /\ pc'[t] \in {"user", "serve", "pop", "unwind", "run"}
        /\ \A u \in Task : u # t => pc'[u] = pc[u] /\ ret'[u] = ret[u]
        /\ ret'[t] = ret[t] \/ (ret[t] \notin {"lock", "grow"} /\ ret'[t] = "run")
    BY <1>t, <2>3 DEF GoTo, InUser
  <2>5. Queue' = Queue
    BY <2>1, <2>4, QueueSame
  <2>6. slot'[t] = NoRpc /\ \A u \in Task : u # t => slot'[u] = slot[u] /\ pc'[u] = pc[u]
    BY <1>s, <2>1, <2>4
  <2>7. PlaceInv' /\ \A q \in RpcId : Nowhere(q)' <=> Nowhere(q)
    BY <1>v, <2>1, <2>2, <2>5, <2>6, <1>PlaceDone
  <2>8. VecInv'
    BY <1>v, <2>1, <2>4, <2>6, SMTT(60) DEF VecInv
  <2>9. CallInv'
    BY <1>v, <2>1, <2>4, <2>7, <1>ServeStep DEF RunPC
  <2> QED BY <2>7, <2>8, <2>9 DEF WhereInv
<1>19. ASSUME NEW t \in Task, ExitLock(t) \/ ExitLoop(t) \/ ExitRun(t)
       PROVE  WhereInv'
  BY <1>19, <1>WhereExit
<1> QED
  BY <1>1, <1>2, <1>5, <1>6, <1>7, <1>8, <1>9, <1>10, <1>11, <1>12, <1>13, <1>14, <1>15, <1>16,
     <1>17, <1>18, <1>19, NextCases
  DEF Act, Step

-----------------------------------------------------------------------------
(* What a step can do to the calls: nothing; a new call; a slot is         *)
(* reserved; a slot is taken; a callback has run; its done-signal is sent; *)
(* a call is given up; or it is begun, or ended, by a thread that exits.   *)
Same(r) == mode'[r] = mode[r] /\ ran'[r] = ran[r] /\ (r \in dropped' <=> r \in dropped)
Still(t) == Queue'[t] = Queue[t] /\ slot'[t] = slot[t]

Effect ==
  \/ (\A r \in RpcId : Same(r)) /\ (\A t \in Task : Still(t))
  \/ \E r \in RpcId : /\ mode[r] = NoRpc
                      /\ \A q \in RpcId : q # r => Same(q)
                      /\ \A t \in Task : Still(t)
  \/ \E t, x \in Task : /\ cur[t] # NoRpc /\ Unqueued(t)
                        /\ Queue'[x] = Queue[x] \cup {cur[t]} /\ slot'[x] = slot[x]
                        /\ \A r \in RpcId : Same(r)
                        /\ \A u \in Task : u # x => Still(u)
  \/ \E t \in Task : \E r \in Queue[t] :
       /\ ~Locked(t) /\ slot[t] = NoRpc
       /\ Queue'[t] = Queue[t] \ {r} /\ slot'[t] = r
       /\ \A q \in RpcId : Same(q)
       /\ \A u \in Task : u # t => Still(u)
  \/ \E t \in Task : \E r \in RpcId :
       /\ pc[t] = "rpc" /\ slot[t] = r /\ ran'[r] = ran[r] + 1 /\ mode'[r] = mode[r]
       /\ \A q \in RpcId : q # r => Same(q)
       /\ \A u \in Task : Still(u)
  \/ \E t \in Task : \E r \in RpcId :
       /\ pc[t] \in {"done", "thrown"} /\ slot[t] = r /\ slot'[t] = NoRpc /\ Queue'[t] = Queue[t]
       /\ Announce(r, r)
       /\ \A q \in RpcId : Same(q)
       /\ \A u \in Task : u # t => Still(u)
  \/ \E t \in Task : \E r \in Queue[t] :
       /\ ~Locked(t) /\ slot[t] = NoRpc /\ slot'[t] = NoRpc
       /\ Queue'[t] = Queue[t] \ {r} /\ r \in dropped' /\ ran'[r] = ran[r] /\ mode'[r] = mode[r]
       /\ Announce(r, join_signal)
       /\ \A q \in RpcId : q # r => Same(q)
       /\ \A u \in Task : u # t => Still(u)
  \/ \E t \in Task : \E r \in Queue[t] :
       /\ slot[t] = NoRpc /\ slot'[t] = r /\ Queue'[t] = Queue[t]
       /\ \A q \in RpcId : Same(q)
       /\ \A u \in Task : u # t => Still(u)
  \/ \E t \in Task : \E r \in Queue[t] :
       /\ ~Locked(t) /\ slot[t] = r /\ slot'[t] = NoRpc
       /\ Queue'[t] = Queue[t] \ {r} /\ ran'[r] = ran[r] + 1 /\ mode'[r] = mode[r]
       /\ (r \in dropped' <=> r \in dropped)
       /\ Announce(r, r)
       /\ \A q \in RpcId : q # r => Same(q)
       /\ \A u \in Task : u # t => Still(u)

(* The call has a slot, or never will have one.                            *)
Settled(r) == mode[r] # NoRpc /\ \A t \in Task : cur[t] = r => ~Unqueued(t)

(* The call leaves the thread it was pending at, and its caller hears of   *)
(* that: because it was executed, or because it was given up.              *)
Completed(r, s) ==
  /\ Announce(r, s)
  /\ \A u \in Task : ~Pending(u, r)'
  /\ \/ s = r /\ ran'[r] = 1
     \/ s = join_signal /\ r \in dropped'

(* What a step does to a settled call: it never comes back.                *)
LEMMA SettledStep ==
  ASSUME TypeOK, ControlInv, WhereInv, Effect, NEW r \in RpcId, Settled(r)
  PROVE  /\ mode'[r] = mode[r]
         /\ ran[r] = 1 => ran'[r] = 1
         /\ r \in dropped => r \in dropped'
         /\ Nowhere(r) => Nowhere(r)'
         /\ \A u \in Task : Pending(u, r)' => Pending(u, r)
         /\ \A u \in Task : Pending(u, r) => Pending(u, r)' \/ \E s \in {r, join_signal} : Completed(r, s)
         /\ \A u \in Task : Locked(u) /\ r \in Queue[u] => r \in Queue'[u]
<1>v. PlaceInv
  BY DEF WhereInv
<1>t. cur \in [Task -> RpcId \cup {NoRpc}] /\ NoRpc \notin RpcId
  BY RpcAssumption DEF TypeOK
<1>n. \A t \in Task : \A q \in Queue[t] : q \in RpcId
  BY QueueType
<1> DEFINE Goal == /\ mode'[r] = mode[r]
                   /\ ran[r] = 1 => ran'[r] = 1
                   /\ r \in dropped => r \in dropped'
                   /\ Nowhere(r) => Nowhere(r)'
                   /\ \A u \in Task : Pending(u, r)' => Pending(u, r)
                   /\ \A u \in Task : Pending(u, r) => Pending(u, r)' \/ \E s \in {r, join_signal} : Completed(r, s)
                   /\ \A u \in Task : Locked(u) /\ r \in Queue[u] => r \in Queue'[u]
<1> USE DEF Nowhere, Pending, Same, Still
<1>1. ASSUME Same(r), \A t \in Task : Still(t)
      PROVE  Goal
  BY <1>1
<1>2. ASSUME NEW q \in RpcId, mode[q] = NoRpc, \A p \in RpcId : p # q => Same(p),
             \A t \in Task : Still(t)
      PROVE  Goal
  <2>1. Same(r)
    BY <1>2 DEF Settled
  <2> QED BY <1>1, <1>2, <2>1
<1>3. ASSUME NEW t \in Task, NEW x \in Task, cur[t] # NoRpc, Unqueued(t),
             Queue'[x] = Queue[x] \cup {cur[t]}, slot'[x] = slot[x], Same(r),
             \A u \in Task : u # x => Still(u)
      PROVE  Goal
  <2>1. cur[t] # r
    BY <1>3 DEF Settled
  <2>2. \A u \in Task : (r \in Queue'[u] <=> r \in Queue[u]) /\ slot'[u] = slot[u]
    BY <1>3, <2>1
  <2> QED BY <1>3, <2>2
<1>4. ASSUME NEW t \in Task, NEW q \in Queue[t], ~Locked(t), slot[t] = NoRpc,
             Queue'[t] = Queue[t] \ {q}, slot'[t] = q, Same(r),
             \A u \in Task : u # t => Still(u)
      PROVE  Goal
  <2>1. \A u \in Task : Pending(u, r)' <=> Pending(u, r)
    BY <1>4, <1>t
  <2>2. \A u \in Task : Locked(u) /\ r \in Queue[u] => r \in Queue'[u]
    BY <1>4
  <2> QED BY <1>4, <2>1, <2>2
<1>5. ASSUME NEW t \in Task, NEW q \in RpcId, pc[t] = "rpc", slot[t] = q, ran'[q] = ran[q] + 1,
             mode'[q] = mode[q], \A p \in RpcId : p # q => Same(p), \A u \in Task : Still(u)
      PROVE  Goal
  <2>1. CASE q # r
    BY <1>1, <1>5, <2>1
  <2>2. CASE q = r
    <3>1. ran[r] = 0 /\ r \notin dropped /\ ~Nowhere(r)
      BY <1>5, <1>t, <1>v, <2>2, SMTT(60) DEF PlaceInv, CallAt, QueueAt, SlotAt
    <3> QED BY <1>5, <2>2, <3>1, SMTT(60)
  <2> QED BY <2>1, <2>2
<1>6. ASSUME NEW t \in Task, NEW q \in RpcId, pc[t] \in {"done", "thrown"}, slot[t] = q, slot'[t] = NoRpc,
             Queue'[t] = Queue[t], Announce(q, q), \A p \in RpcId : Same(p),
             \A u \in Task : u # t => Still(u)
      PROVE  Goal
  <2>1. ran[q] = 1
    BY <1>6, <1>t, <1>v DEF PlaceInv, CallAt, QueueAt, SlotAt
  <2>2. CASE q # r
    BY <1>6, <1>t, <2>2, SMTT(60)
  <2>3. CASE q = r
    <3>1. \A u \in Task : ~Pending(u, r)'
      BY <1>6, <1>t, <1>v, <2>3, SMTT(60) DEF PlaceInv, CallAt, QueueAt, SlotAt
    <3>2. Completed(r, r)
      BY <1>6, <2>1, <2>3, <3>1 DEF Completed
    <3> QED BY <1>6, <1>t, <2>1, <2>3, <3>2
  <2> QED BY <2>2, <2>3
<1>7. ASSUME NEW t \in Task, NEW q \in Queue[t], ~Locked(t), slot[t] = NoRpc, slot'[t] = NoRpc, Queue'[t] = Queue[t] \ {q},
             q \in dropped', ran'[q] = ran[q], mode'[q] = mode[q], Announce(q, join_signal),
             \A p \in RpcId : p # q => Same(p), \A u \in Task : u # t => Still(u)
      PROVE  Goal
  <2>2. CASE q # r
    <3>1. \A u \in Task : (r \in Queue'[u] <=> r \in Queue[u]) /\ slot'[u] = slot[u]
      BY <1>7, <2>2
    <3> QED BY <1>7, <2>2, <3>1
  <2>3. CASE q = r
    <3>1. ~Nowhere(r) /\ \A u \in Task : Pending(u, r)' => Pending(u, r)
      BY <1>7, <2>3
    <3>2. \A u \in Task : Locked(u) /\ r \in Queue[u] => r \in Queue'[u]
      BY <1>7
    <3>4. \A u \in Task : ~Pending(u, r)'
      BY <1>7, <1>t, <1>v, <2>3, SMTT(60) DEF PlaceInv, CallAt, QueueAt, SlotAt
    <3>3. Completed(r, join_signal)
      BY <1>7, <2>3, <3>4 DEF Completed
    <3> QED BY <1>7, <2>3, <3>1, <3>2, <3>3
  <2> QED BY <2>2, <2>3
<1>8. ASSUME NEW t \in Task, NEW q \in Queue[t], slot[t] = NoRpc, slot'[t] = q, Queue'[t] = Queue[t],
             Same(r), \A u \in Task : u # t => Still(u)
      PROVE  Goal
  BY <1>8, <1>t
<1>9. ASSUME NEW t \in Task, NEW q \in Queue[t], ~Locked(t), slot[t] = q, slot'[t] = NoRpc,
             Queue'[t] = Queue[t] \ {q}, ran'[q] = ran[q] + 1, mode'[q] = mode[q],
             q \in dropped' <=> q \in dropped, Announce(q, q),
             \A p \in RpcId : p # q => Same(p), \A u \in Task : u # t => Still(u)
      PROVE  Goal
  <2>2. CASE q # r
    <3>1. \A u \in Task : (r \in Queue'[u] <=> r \in Queue[u]) /\ (slot'[u] = r <=> slot[u] = r)
      BY <1>9, <1>t, <2>2
    <3> QED BY <1>9, <2>2, <3>1
  <2>3. CASE q = r
    <3>1. ~Nowhere(r) /\ \A u \in Task : Pending(u, r)' => Pending(u, r)
      BY <1>9, <1>t, <2>3
    <3>2. \A u \in Task : Locked(u) /\ r \in Queue[u] => r \in Queue'[u]
      BY <1>9
    <3>3. ran[r] = 0
      BY <1>9, <1>v, <2>3, SMTT(60) DEF PlaceInv, CallAt, QueueAt, SlotAt
    <3>5. \A u \in Task : ~Pending(u, r)'
      BY <1>9, <1>t, <1>v, <2>3, SMTT(60) DEF PlaceInv, CallAt, QueueAt, SlotAt
    <3>4. Completed(r, r)
      BY <1>9, <2>3, <3>3, <3>5, SMTT(60) DEF Completed
    <3> QED BY <1>9, <2>3, <3>1, <3>2, <3>3, <3>4, SMTT(60)
  <2> QED BY <2>2, <2>3
<1> HIDE DEF Goal, Nowhere, Pending, Same, Still
<1>10. Goal
  BY <1>1, <1>2, <1>3, <1>4, <1>5, <1>6, <1>7, <1>8, <1>9, <1>n DEF Effect
<1> QED BY <1>10 DEF Goal

(* Every step of every thread moves at most one call, from one place to the*)
(* next.                                                                   *)
LEMMA EffectStep ==
  TypeOK /\ ControlInv /\ LockInv /\ WhereInv /\ [Next]_vars
    => Effect
(* Every step has one of these effects.                                    *)
<1>EffectTake.
  ASSUME TypeOK, ControlInv, VecInv, NEW t \in Task, pc[t] \in {"serve", "user"}, ~Locked(t),
         NEW k \in 1 .. Len(ri_vec[t]), Take(t, k), UNCHANGED <<i, ran, dropped, mode>>
  PROVE  Effect
  <2> USE <1>EffectTake
  <2> HIDE DEF GoTo
  <2>t. slot \in [Task -> RpcId \cup {NoRpc}]
    BY DEF TypeOK
  <2>x. pc[t] \notin {"xloop", "xrun"}
    OBVIOUS
  <2>1. /\ Queue'[t] = Queue[t] \ {ri_vec[t][k]}
        /\ \A u \in Task : u # t => Queue'[u] = Queue[u]
        /\ ri_vec[t][k] \in Queue[t]
    BY <2>x, QueueTake
  <2>2. slot[t] = NoRpc
    BY DEF ControlInv, Control, RunPC
  <2>3. PICK r \in Queue[t] : r = ri_vec[t][k]
    BY <2>1
  <2>4. Queue'[t] = Queue[t] \ {r} /\ slot'[t] = r /\ \A u \in Task : u # t => Still(u)
    BY <2>1, <2>3, <2>t DEF Take, Still
  <2>5. \A q \in RpcId : Same(q)
    BY DEF Same
  <2> QED BY <2>2, <2>4, <2>5 DEF Effect
(* task_serve_before_exit() executes or gives up the call at index i, and  *)
(* no other.                                                               *)
<1>EffectExit.
  ASSUME TypeOK, ControlInv, LockInv, VecInv, NEW t \in Task, ExitLock(t) \/ ExitLoop(t) \/ ExitRun(t)
  PROVE  Effect
  <2> USE <1>EffectExit
  <2> HIDE DEF GoTo, Clear
  <2>t. pc \in [Task -> PC] /\ slot \in [Task -> RpcId \cup {NoRpc}] /\ i \in [Task -> Nat]
    BY DEF TypeOK
  <2>u. ri_vec \in [Task -> Seq(RpcId)] /\ ran \in [RpcId -> Nat]
    BY DEF TypeOK
  <2>w. /\ DOMAIN ri_vec[t] = 1 .. Len(ri_vec[t]) /\ Len(ri_vec[t]) \in Nat /\ i[t] \in Nat
    BY <2>t, <2>u, SMTT(60)
  <2>ii. i[t] >= i[t]
    BY <2>w, SMTT(60)
  <2>1. UNCHANGED mode
    BY DEF ExitLock, ExitLoop, ExitRun, call
  <2>2. ASSUME UNCHANGED <<ran, dropped>>
        PROVE  \A r \in RpcId : Same(r)
    BY <2>1, <2>2 DEF Same
  <2>l. pc[t] \in {"xloop", "xrun"} => ~Locked(t)
    BY DEF LockInv, ExitPC
  <2>4. CASE ExitLock(t)
    <3>1. /\ pc[t] = "xlock" /\ pc'[t] = "xloop" /\ i'[t] = 1 /\ UNCHANGED <<slot, ri_vec, ran, dropped>>
          /\ \A u \in Task : u # t => pc'[u] = pc[u] /\ i'[u] = i[u]
      BY <2>4, <2>t DEF ExitLock, GoTo, info, hist
    <3>2. \A u \in Task : Ready(u)' = Ready(u)
      <4>1. Ready(t)' = Ready(t)
        BY <2>w, <3>1, SMTT(60) DEF Ready
      <4>2. \A u \in Task : u # t => Ready(u)' = Ready(u)
        BY <3>1 DEF Ready
      <4> QED BY <4>1, <4>2
    <3>3. \A u \in Task : Still(u)
      BY <3>1, <3>2 DEF Queue, Still
    <3> QED BY <2>2, <3>1, <3>3 DEF Effect
  <2>5. CASE ExitLoop(t)
    <3>1. pc[t] = "xloop" /\ UNCHANGED ran /\ slot[t] = NoRpc /\ i[t] # 0
      BY <2>5 DEF ExitLoop, ControlInv, Control, RunPC
    <3>2. CASE /\ i[t] > Len(ri_vec[t]) /\ ri_vec' = [ri_vec EXCEPT ![t] = <<>>] /\ i' = [i EXCEPT ![t] = 0]
               /\ GoTo(t, "xend") /\ UNCHANGED <<slot, dropped>>
      <4>1. /\ pc'[t] = "xend" /\ ri_vec'[t] = <<>>
            /\ \A u \in Task : u # t => pc'[u] = pc[u] /\ i'[u] = i[u] /\ ri_vec'[u] = ri_vec[u]
        BY <2>t, <2>u, <3>2 DEF GoTo
      <4>2. Ready(t) = {} /\ Ready(t)' = {}
        BY <2>w, <3>1, <3>2, <4>1, SMTT(60) DEF Ready
      <4>3. \A u \in Task : u # t => Ready(u)' = Ready(u)
        BY <4>1 DEF Ready
      <4>4. \A u \in Task : Still(u)
        <5>1. Queue'[t] = {} /\ Queue[t] = {}
          BY <4>2 DEF Queue
        <5>2. \A u \in Task : u # t => Queue'[u] = Queue[u]
          BY <4>1, <4>3 DEF Queue
        <5> QED BY <3>2, <5>1, <5>2 DEF Still
      <4> QED BY <2>2, <3>1, <3>2, <4>4 DEF Effect
    <3>3. ASSUME NEW r \in RpcId, i[t] \in 1 .. Len(ri_vec[t]), r = ri_vec[t][i[t]], Announce(r, join_signal),
                 dropped' = dropped \cup {r}, i' = [i EXCEPT ![t] = @ + 1], UNCHANGED <<ri_vec, slot, pc>>
          PROVE  Effect
      <4>1. i'[t] = i[t] + 1 /\ \A u \in Task : u # t => i'[u] = i[u]
        BY <2>t, <3>3
      <4>2. Queue'[t] = Queue[t] \ {r} /\ (\A u \in Task : u # t => Queue'[u] = Queue[u]) /\ r \in Queue[t]
        BY <2>w, <3>1, <3>3, <4>1, QueueNext
      <4>3. \A q \in RpcId : q # r => Same(q)
        BY <2>1, <3>1, <3>3 DEF Same
      <4>4. (\A u \in Task : u # t => Still(u)) /\ slot'[t] = NoRpc
        BY <3>1, <3>3, <4>2 DEF Still
      <4>5. r \in dropped' /\ ran'[r] = ran[r] /\ mode'[r] = mode[r] /\ ~Locked(t)
        BY <2>1, <2>l, <3>1, <3>3
      <4>6. \E u \in Task : \E q \in Queue[u] :
              /\ ~Locked(u) /\ slot[u] = NoRpc /\ slot'[u] = NoRpc
              /\ Queue'[u] = Queue[u] \ {q} /\ q \in dropped' /\ ran'[q] = ran[q] /\ mode'[q] = mode[q]
              /\ Announce(q, join_signal)
              /\ \A p \in RpcId : p # q => Same(p)
              /\ \A y \in Task : y # u => Still(y)
        BY <3>1, <3>3, <4>2, <4>3, <4>4, <4>5
      <4> QED BY <4>6 DEF Effect
    <3>4. ASSUME NEW r \in RpcId, i[t] \in 1 .. Len(ri_vec[t]), r = ri_vec[t][i[t]],
                 slot' = [slot EXCEPT ![t] = r], GoTo(t, "xrun"), UNCHANGED <<ri_vec, i, dropped>>
          PROVE  Effect
      <4>1. /\ pc'[t] = "xrun" /\ slot'[t] = r
            /\ \A u \in Task : u # t => pc'[u] = pc[u] /\ slot'[u] = slot[u]
        BY <2>t, <3>4 DEF GoTo
      <4>2. Queue' = Queue
        BY <3>1, <3>4, <4>1, QueueSame
      <4>3. r \in Queue[t]
        <5>1. i[t] \in Ready(t)
          BY <3>4, <2>w, <2>ii DEF Ready
        <5> QED BY <3>4, <5>1 DEF Queue
      <4>4. Queue'[t] = Queue[t] /\ \A u \in Task : u # t => Still(u)
        BY <4>1, <4>2 DEF Still
      <4> QED BY <2>2, <3>1, <3>4, <4>1, <4>3, <4>4 DEF Effect
    <3> QED BY <2>5, <3>1, <3>2, <3>3, <3>4, ExitLoopCases
  <2>6. CASE ExitRun(t)
    <3>1. pc[t] = "xrun" /\ UNCHANGED <<ri_vec, dropped>> /\ slot[t] # NoRpc
      BY <2>6 DEF ExitRun, info, ControlInv, Control, RunPC
    <3>2. PICK r \in RpcId : r = slot[t]
      BY <2>t, <3>1
    <3>3. r = ri_vec[t][i[t]] /\ i[t] \in DOMAIN ri_vec[t]
      BY <3>1, <3>2 DEF VecInv
    <3>4. /\ pc'[t] = "xloop" /\ slot'[t] = NoRpc /\ i'[t] = i[t] + 1 /\ ran'[r] = ran[r] + 1
          /\ \A u \in Task : u # t => pc'[u] = pc[u] /\ slot'[u] = slot[u] /\ i'[u] = i[u]
          /\ \A q \in RpcId : q # r => ran'[q] = ran[q]
      BY <2>6, <2>t, <2>u, <3>2 DEF ExitRun, GoTo
    <3>5. Queue'[t] = Queue[t] \ {r} /\ (\A u \in Task : u # t => Queue'[u] = Queue[u]) /\ r \in Queue[t]
      BY <3>1, <3>3, <3>4, QueueNext
    <3>6. (\A q \in RpcId : q # r => Same(q)) /\ \A u \in Task : u # t => Still(u)
      BY <2>1, <3>1, <3>4, <3>5 DEF Same, Still
    <3>7. Announce(r, r) /\ mode'[r] = mode[r] /\ (r \in dropped' <=> r \in dropped) /\ ~Locked(t)
      BY <2>1, <2>6, <2>l, <3>1, <3>2 DEF ExitRun, Broadcast
    <3>8. \E u \in Task : \E q \in Queue[u] :
            /\ ~Locked(u) /\ slot[u] = q /\ slot'[u] = NoRpc
            /\ Queue'[u] = Queue[u] \ {q} /\ ran'[q] = ran[q] + 1 /\ mode'[q] = mode[q]
            /\ q \in dropped' <=> q \in dropped
            /\ Announce(q, q)
            /\ \A p \in RpcId : p # q => Same(p)
            /\ \A y \in Task : y # u => Still(y)
      BY <3>2, <3>4, <3>5, <3>6, <3>7
    <3> QED BY <3>8 DEF Effect
  <2> QED BY <2>4, <2>5, <2>6
<1> SUFFICES ASSUME TypeOK, ControlInv, LockInv, WhereInv, [Next]_vars
             PROVE  Effect
  BY SMTT(60)
<1> HIDE DEF GoTo, Set, Clear, Return, LeaveKernel
<1>t. pc \in [Task -> PC] /\ cur \in [Task -> RpcId \cup {NoRpc}] /\ ri_vec \in [Task -> Seq(RpcId)]
  BY DEF TypeOK
<1>s. slot \in [Task -> RpcId \cup {NoRpc}] /\ ran \in [RpcId -> Nat]
  BY DEF TypeOK
<1>g. thread \in [Task -> Task] /\ mode \in [RpcId -> RpcModes \cup {NoRpc}]
  BY DEF TypeOK
<1>r. result \in [RpcId -> {"none", "true", "false", "throw"}]
  BY DEF TypeOK
<1>v. VecInv /\ PlaceInv /\ CallInv
  BY DEF WhereInv
<1>3. ASSUME UNCHANGED <<ri_vec, i, slot, ran, dropped, mode>>,
             \A u \in Task : pc'[u] \in {"xloop", "xrun"} <=> pc[u] \in {"xloop", "xrun"}
      PROVE  Effect
  <2>1. Queue' = Queue
    BY <1>3, QueueSame
  <2>2. (\A q \in RpcId : Same(q)) /\ \A u \in Task : Still(u)
    BY <1>3, <2>1 DEF Same, Still
  <2> QED BY <2>2 DEF Effect
<1>1. CASE Frozen
  BY <1>1, <1>3 DEF Frozen, info, exec, call, hist
<1>2. ASSUME NEW t \in Task, NEW x \in Task, NEW r \in RpcId, NEW m \in Modes, QueueRpc(t, x, r, m)
      PROVE  Effect
  <2>1. pc[t] = "run" /\ mode[r] = NoRpc /\ UNCHANGED <<ri_vec, i, slot, dropped>>
    BY <1>2 DEF QueueRpc, info, exec
  <2>2. UNCHANGED pc \/ GoTo(t, "lock")
    BY <1>2 DEF QueueRpc
  <2>3. Queue' = Queue
    BY <1>t, <2>1, <2>2, QueueSame DEF GoTo
  <2>4. ran' = ran \/ ran' = [ran EXCEPT ![r] = @ + 1]
    BY <1>2 DEF QueueRpc
  <2>5. \A q \in RpcId : q # r => mode'[q] = mode[q]
    <3> DEFINE own == [flag |-> "user", sync |-> FALSE]
    <3>1. mode' = [mode EXCEPT ![r] = m] \/ mode' = [mode EXCEPT ![r] = own]
      BY <1>2 DEF QueueRpc
    <3> HIDE DEF own
    <3> QED BY <1>g, <3>1
  <2>6. (\A q \in RpcId : q # r => Same(q)) /\ \A u \in Task : Still(u)
    BY <1>s, <2>1, <2>3, <2>4, <2>5 DEF Same, Still
  <2> QED BY <2>1, <2>6 DEF Effect
<1>4. ASSUME NEW t \in Task, NEW l \in PC, UNCHANGED <<ri_vec, i, slot, ran, dropped, mode>>, GoTo(t, l),
             pc[t] \notin {"xloop", "xrun"}, l \notin {"xloop", "xrun"}
      PROVE  Effect
  <2>1. \A u \in Task : pc'[u] \in {"xloop", "xrun"} <=> pc[u] \in {"xloop", "xrun"}
    BY <1>4, <1>t DEF GoTo
  <2> QED BY <1>3, <1>4, <2>1
<1>5. ASSUME NEW t \in Task, NEW timer \in BOOLEAN, ReturnToUser(t, timer)
      PROVE  Effect
  BY <1>4, <1>5 DEF ReturnToUser, info, exec, call, hist, PC
<1>6. ASSUME NEW t \in Task, Sleep(t) \/ Resume(t) \/ SetNosignals(t) \/ NothrowServe(t) \/ NothrowEnd(t)
      PROVE  Effect
  <2>1. UNCHANGED <<ri_vec, i, slot, ran, dropped, mode, pc>>
    BY <1>6 DEF Sleep, Resume, SetNosignals, NothrowServe, NothrowEnd, info, exec, call, hist
  <2> QED BY <1>3, <2>1
<1>7. ASSUME NEW t \in Task, ClearNosignals(t) \/ Exit(t) \/ ExitEnd(t)
      PROVE  Effect
  <2>1. /\ UNCHANGED <<ri_vec, i, slot, ran, dropped, mode>>
        /\ pc[t] \in {"run", "xend"} /\ \E l \in {"cleared", "run", "xlock", "dead"} : GoTo(t, l)
    <3>1. CASE ClearNosignals(t)
      BY <3>1 DEF ClearNosignals, info, exec, call, hist
    <3>2. CASE Exit(t)
      BY <3>2 DEF Exit, info, exec, call, hist
    <3>3. CASE ExitEnd(t)
      BY <3>3 DEF ExitEnd, info, exec, call, hist
    <3> QED BY <1>7, <3>1, <3>2, <3>3
  <2> QED BY <1>4, <2>1 DEF PC
<1>9. ASSUME NEW t \in Task, RpcGrow(t) \/ Nack(t) \/ WaitDone(t) \/ ServeUnwind(t)
      PROVE  Effect
  <2>1. UNCHANGED <<ri_vec, i, slot, ran, dropped, mode>> /\ pc[t] \in {"grow", "nack", "wait", "unwind"}
    BY <1>9 DEF RpcGrow, Nack, WaitDone, ServeUnwind, info, exec, hist
  <2>2. \E l \in {"run", "lock"} : GoTo(t, l)
    BY <1>9 DEF RpcGrow, Nack, WaitDone, ServeUnwind, Return
  <2> QED BY <1>4, <2>1, <2>2 DEF PC
<1>10. ASSUME NEW t \in Task, ConnectDone(t) \/ SignalInterrupt(t) \/ WakeTarget(t)
       PROVE  Effect
  <2>1. UNCHANGED <<ri_vec, i, slot, ran, dropped, mode>> /\ pc[t] \in {"connect", "signal", "wake"}
    <3>1. CASE ConnectDone(t)
      BY <3>1 DEF ConnectDone, info, exec, call, hist
    <3>2. CASE SignalInterrupt(t)
      BY <3>2 DEF SignalInterrupt, info, exec, call, hist
    <3>3. CASE WakeTarget(t)
      BY <3>3 DEF WakeTarget, info, exec, call, hist
    <3> QED BY <1>10, <3>1, <3>2, <3>3
  <2>2. \E l \in {"signal", "nack", "wake", "wait", "run"} : GoTo(t, l)
    <3>1. CASE ConnectDone(t)
      BY <3>1 DEF ConnectDone, Queued, Return
    <3>2. CASE SignalInterrupt(t)
      BY <3>2 DEF SignalInterrupt, Queued, Return
    <3>3. CASE WakeTarget(t)
      BY <3>3 DEF WakeTarget, Queued, Return
    <3> QED BY <1>10, <3>1, <3>2, <3>3
  <2> QED BY <1>4, <2>1, <2>2 DEF PC
<1>11. ASSUME NEW t \in Task, ServeBegin(t) \/ ServePush(t) \/ ServePop(t)
       PROVE  Effect
  <2>1. UNCHANGED <<ri_vec, i, slot, ran, dropped, mode>>
    <3>1. CASE ServeBegin(t)
      BY <3>1 DEF ServeBegin, info, exec, call, hist
    <3>2. CASE ServePush(t)
      BY <3>2 DEF ServePush, info, exec, call, hist
    <3>3. CASE ServePop(t)
      BY <3>3 DEF ServePop, info, exec, call, hist
    <3> QED BY <1>11, <3>1, <3>2, <3>3
  <2>2. pc[t] \notin {"xloop", "xrun"} /\ \E l \in {"push", "serve", ret[t]} : GoTo(t, l)
    BY <1>11 DEF ServeBegin, ServePush, ServePop
  <2>4. ret[t] \notin {"xloop", "xrun"}
    BY DEF ControlInv, Control
  <2>5. \A u \in Task : pc'[u] \in {"xloop", "xrun"} <=> pc[u] \in {"xloop", "xrun"}
    BY <1>t, <2>2, <2>4 DEF GoTo
  <2> QED BY <1>3, <2>1, <2>5
<1>8. ASSUME NEW t \in Task, RpcAlloc(t)
      PROVE  Effect
  <2>1. pc[t] = "lock" /\ UNCHANGED <<i, slot, ran, dropped, mode>>
    BY <1>8 DEF RpcAlloc, exec, hist
  <2>2. CASE UNCHANGED ri_vec /\ \E l \in {"run", "grow"} : GoTo(t, l)
    BY <1>4, <2>1, <2>2 DEF PC
  <2>3. CASE /\ \E l \in {"connect", "signal"} : GoTo(t, l)
             /\ ~Terminating(thread[t])
             /\ ri_vec' = [ri_vec EXCEPT ![thread[t]] = Append(@, cur[t])]
    <3> DEFINE x == thread[t]
    <3>1. x \in Task /\ pc[x] \notin {"xloop", "xrun"}
      BY <1>g, <2>3 DEF LockInv, Terminating, ExitPC
    <3>2. \A u \in Task : pc'[u] \in {"xloop", "xrun"} <=> pc[u] \in {"xloop", "xrun"}
      BY <1>t, <2>1, <2>3 DEF GoTo
    <3>3. ri_vec'[x] = Append(ri_vec[x], cur[t]) /\ \A u \in Task : u # x => ri_vec'[u] = ri_vec[u]
      BY <1>t, <2>3, <3>1
    <3>4. cur[t] # NoRpc /\ cur[t] \in RpcId /\ Unqueued(t)
      BY <1>t, <2>1 DEF ControlInv, Control, CallPC, Unqueued
    <3> HIDE DEF x
    <3>n. cur[t] \notin Queue[x]
      BY <1>v, <3>1, <3>4 DEF CallInv, Nowhere, Pending
    <3>5. /\ Queue'[x] = Queue[x] \cup {cur[t]} /\ \A u \in Task : u # x => Queue'[u] = Queue[u]
      BY <1>v, <2>1, <3>1, <3>2, <3>3, <3>4, <3>n, QueueAppend
    <3>6. (\A q \in RpcId : Same(q)) /\ slot'[x] = slot[x] /\ \A u \in Task : u # x => Still(u)
      BY <2>1, <3>5 DEF Same, Still
    <3> QED BY <3>1, <3>4, <3>5, <3>6 DEF Effect
  <2> QED BY <1>8, <2>2, <2>3 DEF RpcAlloc, info, Return
<1>12. ASSUME NEW t \in Task, ServeTake(t) \/ UserTake(t)
       PROVE  Effect
  <2>1. UNCHANGED <<i, ran, dropped, mode>> /\ pc[t] \in {"serve", "user"} /\ ~Locked(t)
    BY <1>12 DEF ServeTake, UserTake, call, hist
  <2>2. CASE UNCHANGED <<slot, ri_vec>> /\ \E l \in {"pop", "unwind", "run"} : GoTo(t, l)
    BY <1>4, <2>1, <2>2 DEF PC
  <2>3. ASSUME NEW k \in 1 .. Len(ri_vec[t]), Take(t, k)
        PROVE  Effect
    BY <1>v, <2>1, <2>3, <1>EffectTake
  <2>4. CASE ServeTake(t)
    BY <2>2, <2>3, <2>4, ServeTakeCases
  <2>5. CASE UserTake(t)
    BY <2>2, <2>3, <2>5, UserTakeCases DEF LeaveKernel
  <2> QED BY <1>12, <2>4, <2>5
<1>13. ASSUME NEW t \in Task, Callback(t)
       PROVE  Effect
  <2>1. /\ UNCHANGED <<ri_vec, i, slot, dropped, mode>> /\ pc[t] = "rpc"
        /\ \E l \in {"done", "thrown"} : GoTo(t, l)
        /\ ran' = [ran EXCEPT ![slot[t]] = @ + 1]
    BY <1>13 DEF Callback, info, exec, call
  <2>2. PICK r \in RpcId : r = slot[t]
    BY <1>s, <2>1 DEF ControlInv, Control, RunPC
  <2>3. ran'[r] = ran[r] + 1 /\ \A q \in RpcId : q # r => ran'[q] = ran[q]
    BY <1>s, <2>1, <2>2
  <2>4. \A u \in Task : pc'[u] \in {"xloop", "xrun"} <=> pc[u] \in {"xloop", "xrun"}
    BY <1>t, <2>1 DEF GoTo
  <2>5. Queue' = Queue
    BY <2>1, <2>4, QueueSame
  <2>6. (\A q \in RpcId : q # r => Same(q)) /\ mode'[r] = mode[r] /\ \A u \in Task : Still(u)
    BY <2>1, <2>3, <2>5 DEF Same, Still
  <2> QED BY <2>1, <2>2, <2>3, <2>6 DEF Effect
<1>14. ASSUME NEW t \in Task, CallbackDone(t)
       PROVE  Effect
  <2>1. /\ UNCHANGED <<ri_vec, i, dropped, ran, mode>> /\ pc[t] \in {"done", "thrown"}
        /\ slot' = [slot EXCEPT ![t] = NoRpc] /\ Announce(slot[t], slot[t])
        /\ \E l \in {"user", "serve", "pop", "unwind", "run"} : GoTo(t, l)
    BY <1>14 DEF CallbackDone, Broadcast, info, call, LeaveKernel
  <2>2. PICK r \in RpcId : r = slot[t]
    BY <1>s, <2>1 DEF ControlInv, Control, RunPC
  <2>3. \A u \in Task : pc'[u] \in {"xloop", "xrun"} <=> pc[u] \in {"xloop", "xrun"}
    BY <1>t, <2>1 DEF GoTo
  <2>4. Queue' = Queue
    BY <2>1, <2>3, QueueSame
  <2>5. slot'[t] = NoRpc /\ \A u \in Task : u # t => slot'[u] = slot[u]
    BY <1>s, <2>1
  <2>6. (\A q \in RpcId : Same(q)) /\ Queue'[t] = Queue[t] /\ \A u \in Task : u # t => Still(u)
    BY <2>1, <2>4, <2>5 DEF Same, Still
  <2>7. Announce(r, r)
    BY <2>1, <2>2
  <2> QED BY <2>1, <2>2, <2>5, <2>6, <2>7 DEF Effect
<1>15. ASSUME NEW t \in Task, ExitLock(t) \/ ExitLoop(t) \/ ExitRun(t)
       PROVE  Effect
  BY <1>15, <1>v, <1>EffectExit
<1> QED
  BY <1>1, <1>2, <1>5, <1>6, <1>7, <1>8, <1>9, <1>10, <1>11, <1>12, <1>13, <1>14, <1>15, NextCases
  DEF Act, Step
=============================================================================
