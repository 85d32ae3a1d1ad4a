---------------------------- MODULE MutexProofs ----------------------------
(***************************************************************************)
(* Proofs about the kernel mutex, for every set of tasks, every set of     *)
(* tasks with timeouts, RPC callbacks and polls, with and without store    *)
(* buffers.                                                                *)
(***************************************************************************)
EXTENDS Mutex, TaskSignalProofs

(* m_ind is 1 or more on behalf of t: t holds the mutex, has just won the  *)
(* CMPXCH, or has cleared m_owner while its `m_ind = 0' is still to come.  *)
Owns(t) == held[t] > 0 \/ pc[t] \in {"owner", "drop", "put"} \/ t \in sb

(* The inductive strengthening of HolderOwns and MutualExclusion.          *)
OwnerInv ==
  /\ TypeOK
  /\ HolderOwns
  /\ \A t \in Task : held[t] > 0 => pc[t] \in {"run", "pcheck"}
  /\ \A t \in Task : pc[t] \in {"owner", "drop", "put"} \/ t \in sb
                       => m_ind = 1 /\ held[t] = 0 /\ m_owner = NoTask
  /\ \A t \in sb : pc[t] \in {"run", "probe", "send"}
  /\ m_owner # NoTask => held[m_owner] > 0
  /\ \A t, u \in Task : Owns(t) /\ Owns(u) => t = u

(* Where mutex_get_timed() and mutex_poll() are connected to the signal.   *)
ListenPC == {"recheck", "wait", "drop"}
PollPC == {"pcheck", "pwait"}

(* The connections that hang off the signal. *)
Hanging == Conns(chain[m_signal])

(* Who is connected and was not signaled hangs off the signal, and whoever *)
(* hangs off the signal is connected and was not signaled.                 *)
ChainInv ==
  /\ OncePerTask(chain[m_signal])
  /\ \A c \in Hanging : tcs_sig[c.task] = NoSig
  /\ \A c \in Hanging : pc[c.task] \in (IF c.ghost THEN PollPC ELSE ListenPC)
  /\ \A t \in Task : pc[t] \in ListenPC /\ tcs_sig[t] = NoSig
                       => \E c \in Hanging : c.task = t
  /\ \A t \in Task : tcs_sig[t] # NoSig => pc[t] \in ListenPC \cup PollPC

(* No task times out or serves RPCs, and no store is buffered.             *)
Undisturbed ==
  /\ sb = {}
  /\ \A t \in Task : saved[t] = "main"
  /\ \A t \in Task : pc[t] \notin {"push", "serve", "timeout", "throw"}

(* The inductive strengthening of NoStrandedWaiter.                        *)
WakeInv == OwnerInv /\ Undisturbed /\ ChainInv /\ NoStrandedWaiter

USE DEF GoTo

(* The steps of task_waitfor() keep the types of the signals and of pc.    *)
LEMMA WaitType ==
  ASSUME SigTypeOK, pc \in [Task -> PC], NEW t \in Task, NEW l \in PC
  PROVE  /\ WaitLoop(t) => SigTypeOK' /\ pc' \in [Task -> PC]
         /\ WaitSignaled(t, l) => SigTypeOK' /\ pc' \in [Task -> PC]
         /\ WaitFailed(t, l) => SigTypeOK' /\ pc' \in [Task -> PC]
<1> PICK s \in Sig : TRUE
  BY MutexAssumption
<1>1. WaitLoop(t) => SigTypeOK' /\ pc' \in [Task -> PC]
  BY SigCallsType DEF WaitLoop, WaitTimeout, WaitServe, ServeCallbacks, ServeDone, ServeThrow, PC
<1>2. WaitSignaled(t, l) => SigTypeOK' /\ pc' \in [Task -> PC]
  BY SigCallsType DEF WaitSignaled
<1>3. WaitFailed(t, l) => SigTypeOK' /\ pc' \in [Task -> PC]
  BY SigCallsType DEF WaitFailed
<1> QED BY <1>1, <1>2, <1>3

(* Every step of the mutex keeps the types; m_ind and held stay natural    *)
(* because only a holder puts.                                             *)
LEMMA TypeStep ==
  ASSUME TypeOK, HolderOwns, [Next]_vars
  PROVE  TypeOK'
<1> USE DEF TypeOK
<1>m. m_signal \in Sig
  BY MutexAssumption DEF m_signal
<1>1. CASE UNCHANGED vars
  BY <1>1 DEF vars, SigTypeOK
<1>u. UNCHANGED sigVars => SigTypeOK'
  BY DEF SigTypeOK, sigVars
<1>2. ASSUME NEW t \in Task, Get(t) \/ Try(t)
      PROVE  TypeOK'
  <2>1. CASE Acquire(t)
    BY <1>2, <2>1, <1>u DEF Get, Try, Acquire, CmpXch, PC
  <2>2. CASE CmpXchFails(t) /\ (GoTo(t, "poll") \/ UNCHANGED pc) /\ UNCHANGED held
    BY <1>2, <2>2, <1>u DEF Get, Try, CmpXchFails, PC
  <2> QED BY <1>2, <2>1, <2>2 DEF Get, Try
<1>3. ASSUME NEW t \in Task, Put(t)
      PROVE  TypeOK'
  BY <1>3, <1>u DEF Put, HolderOwns, PC
<1>4. ASSUME NEW t \in Task, PollConnect(t)
      PROVE  TypeOK'
  <2>1. SigTypeOK'
    BY <1>4, SigCallsType, <1>m DEF PollConnect
  <2> QED BY <1>4, <2>1 DEF PollConnect, PC
<1>5. ASSUME NEW t \in Task, SetOwner(t)
      PROVE  TypeOK'
  BY <1>5, <1>u DEF SetOwner, PC
<1>6. ASSUME NEW t \in Task, PollBeforeConnect(t) \/ Recheck(t)
      PROVE  TypeOK'
  BY <1>6, <1>u DEF PollBeforeConnect, Recheck, CmpXch, CmpXchFails, PC
<1>7. ASSUME NEW t \in Task, ConnectSignal(t)
      PROVE  TypeOK'
  <2>1. SigTypeOK'
    BY <1>7, SigCallsType, <1>m DEF ConnectSignal
  <2> QED BY <1>7, <2>1 DEF ConnectSignal, PC
<1>8. ASSUME NEW t \in Task, DropConnection(t)
      PROVE  TypeOK'
  <2>1. SigTypeOK'
    BY <1>8, SigCallsType, <1>m DEF DropConnection
  <2> QED BY <1>8, <2>1 DEF DropConnection, PC
<1>9. ASSUME NEW t \in Task, Wait(t)
      PROVE  TypeOK'
  <2>1. SigTypeOK' /\ pc' \in [Task -> PC]
    BY <1>9, WaitType DEF Wait, PC
  <2> QED BY <1>9, <2>1 DEF Wait
<1>10. ASSUME NEW t \in Task, PutStore(t) \/ Flush(t)
       PROVE  TypeOK'
  BY <1>10, <1>u DEF PutStore, Flush, PC
<1>11. ASSUME NEW t \in Task, Probe(t)
       PROVE  TypeOK'
  BY <1>11, <1>u DEF Probe, PC
<1>12. ASSUME NEW t \in Task, Send(t)
       PROVE  TypeOK'
  <2>1. SigTypeOK'
    BY <1>12, SigCallsType, <1>m DEF Send
  <2>2. pc' \in [Task -> PC]
    BY <1>12 DEF Send, PC
  <2> QED BY <1>12, <2>1, <2>2 DEF Send
<1>13. ASSUME NEW t \in Task, PollCheck(t) \/ PollWait(t)
       PROVE  TypeOK'
  <2>1. SigTypeOK'
    BY <1>13, SigCallsType, <1>m DEF PollCheck, PollWait
  <2>2. pc' \in [Task -> PC]
    BY <1>13 DEF PollCheck, PollWait, PC
  <2> QED BY <1>13, <2>1, <2>2 DEF PollCheck, PollWait
<1> QED
  BY <1>1, <1>2, <1>3, <1>4, <1>5, <1>6, <1>7, <1>8, <1>9, <1>10, <1>11,
     <1>12, <1>13 DEF Next, Step

(* Every step of the mutex keeps OwnerInv: a CMPXCH succeeds only when no  *)
(* task owns m_ind, and no other step makes a task an owner.               *)
LEMMA OwnerStep ==
  ASSUME OwnerInv, [Next]_vars
  PROVE  OwnerInv'
<1> USE DEF OwnerInv, HolderOwns, Owns, TypeOK
<1>t. TypeOK'
  BY TypeStep
<1>1. CASE UNCHANGED vars
  BY <1>1, <1>t DEF vars
<1>2. ASSUME NEW t \in Task, Get(t) \/ Try(t)
      PROVE  OwnerInv'
  BY <1>2, <1>t, MutexAssumption DEF Get, Try, Acquire, CmpXch, CmpXchFails, PC
<1>3. ASSUME NEW t \in Task, Put(t)
      PROVE  OwnerInv'
  BY <1>3, <1>t, MutexAssumption DEF Put, PC
<1>4. ASSUME NEW t \in Task, PollConnect(t)
      PROVE  OwnerInv'
  BY <1>4, <1>t, MutexAssumption DEF PollConnect, PC
<1>5. ASSUME NEW t \in Task, SetOwner(t)
      PROVE  OwnerInv'
  BY <1>5, <1>t, MutexAssumption DEF SetOwner, PC
<1>6. ASSUME NEW t \in Task, PollBeforeConnect(t) \/ Recheck(t)
      PROVE  OwnerInv'
  BY <1>6, <1>t, MutexAssumption DEF PollBeforeConnect, Recheck, CmpXch, CmpXchFails, PC
<1>7. ASSUME NEW t \in Task, ConnectSignal(t)
      PROVE  OwnerInv'
  BY <1>7, <1>t, MutexAssumption DEF ConnectSignal, PC
<1>8. ASSUME NEW t \in Task, DropConnection(t)
      PROVE  OwnerInv'
  BY <1>8, <1>t, MutexAssumption DEF DropConnection, PC
<1>9. ASSUME NEW t \in Task, Wait(t)
      PROVE  OwnerInv'
  BY <1>9, <1>t, MutexAssumption DEF Wait, WaitLoop, WaitTimeout, WaitServe, ServeCallbacks, ServeDone, ServeThrow, WaitSignaled, WaitFailed, PC
<1>10. ASSUME NEW t \in Task, PutStore(t)
       PROVE  OwnerInv'
  BY <1>10, <1>t, MutexAssumption DEF PutStore, PC
<1>11. ASSUME NEW t \in Task, Flush(t)
       PROVE  OwnerInv'
  BY <1>11, <1>t, MutexAssumption DEF Flush, PC
<1>12. ASSUME NEW t \in Task, Probe(t)
       PROVE  OwnerInv'
  BY <1>12, <1>t, MutexAssumption DEF Probe, PC
<1>13. ASSUME NEW t \in Task, Send(t)
       PROVE  OwnerInv'
  BY <1>13, <1>t, MutexAssumption DEF Send, PC
<1>14. ASSUME NEW t \in Task, PollCheck(t) \/ PollWait(t)
       PROVE  OwnerInv'
  BY <1>14, <1>t, MutexAssumption DEF PollCheck, PollWait, PC
<1> QED
  BY <1>1, <1>2, <1>3, <1>4, <1>5, <1>6, <1>7, <1>8, <1>9, <1>10, <1>11, <1>12, <1>13, <1>14, ZenonT(60) DEF Next, Step

(* The initial state satisfies both invariants.                            *)
LEMMA InitInv ==
  ASSUME Init
  PROVE  WakeInv
<1>1. TypeOK
  BY MutexAssumption DEF Init, SigInit, TypeOK, SigTypeOK, PC
<1>2. OwnerInv
  BY <1>1 DEF Init, OwnerInv, HolderOwns, Owns
<1>3. chain[m_signal] = <<>>
  BY MutexAssumption DEF Init, SigInit, m_signal
<1> QED
  BY <1>2, <1>3, ConnsEmpty
  DEF Init, SigInit, WakeInv, Undisturbed, ChainInv, Hanging, ListenPC,
      NoStrandedWaiter, Asleep

(* The connections of the chain belong to tasks, and the signal exists.    *)
LEMMA ChainType ==
  ASSUME TypeOK
  PROVE  /\ m_signal \in Sig
         /\ chain[m_signal] \in Seq(Connection)
         /\ \A c \in Hanging : c \in Connection /\ c.task \in Task
<1>1. m_signal \in Sig
  BY MutexAssumption DEF m_signal
<1>2. chain[m_signal] \in Seq(Connection)
  BY <1>1 DEF TypeOK, SigTypeOK
<1>3. \A c \in Hanging : c \in Connection
  BY <1>2 DEF Hanging, Conns
<1>4. \A c \in Connection : c.task \in Task
  BY DEF Connection
<1> QED BY <1>1, <1>2, <1>3, <1>4

(* A step that leaves the signal alone and moves t neither into nor out of *)
(* the connected part of a call.                                           *)
LEMMA ChainQuiet ==
  ASSUME TypeOK, ChainInv, UNCHANGED sigVars, NEW t \in Task, NEW l \in PC, GoTo(t, l),
         pc[t] \in ListenPC <=> l \in ListenPC,
         pc[t] \in PollPC <=> l \in PollPC
  PROVE  ChainInv'
<1>1. \A u \in Task : /\ pc'[u] \in ListenPC <=> pc[u] \in ListenPC
                      /\ pc'[u] \in PollPC <=> pc[u] \in PollPC
  BY DEF TypeOK
<1>2. UNCHANGED <<chain, tcs_sig, Hanging>>
  BY DEF sigVars, Hanging
<1>3. \A c \in Hanging : c.task \in Task
  BY ChainType
<1> QED BY <1>1, <1>2, <1>3 DEF ChainInv

(* task_connect() and task_connect_ghost() of a task that is not connected. *)
LEMMA ChainConnect ==
  ASSUME TypeOK, ChainInv, NEW t \in Task, NEW g \in BOOLEAN, Connect(t, m_signal, g),
         pc[t] \notin ListenPC \cup PollPC,
         GoTo(t, IF g THEN "pcheck" ELSE "recheck")
  PROVE  ChainInv'
<1> DEFINE q == chain[m_signal]
           c == [task |-> t, ghost |-> g]
<1>1. tcs_sig[t] = NoSig
  BY DEF ChainInv
<1>2. c \in Connection /\ c.task = t /\ c.ghost = g
  BY DEF Connection
<1>3. \A d \in Hanging : d.task # t
  BY ChainType DEF ChainInv
<1>4. q' = Append(q, c)
  BY <1>1, ChainType DEF Connect, TypeOK, SigTypeOK
<1>5. Hanging' = Hanging \cup {c} /\ OncePerTask(q')
  BY <1>2, <1>3, <1>4, ChainType, ConnsAppend DEF ChainInv, Hanging
<1>6. UNCHANGED tcs_sig
  BY DEF Connect
<1> HIDE DEF c
<1>7. \A d \in Hanging' : tcs_sig'[d.task] = NoSig
  BY <1>1, <1>2, <1>5, <1>6 DEF ChainInv
<1>8. \A d \in Hanging : pc'[d.task] = pc[d.task]
  BY <1>3, ChainType DEF TypeOK
<1>9. pc'[t] \in (IF g THEN PollPC ELSE ListenPC)
  BY DEF TypeOK, PollPC, ListenPC
<1>10. \A d \in Hanging' : pc'[d.task] \in (IF d.ghost THEN PollPC ELSE ListenPC)
  BY <1>2, <1>5, <1>8, <1>9 DEF ChainInv
<1>11. \A u \in Task : pc'[u] \in ListenPC /\ tcs_sig'[u] = NoSig
                         => \E d \in Hanging' : d.task = u
  BY <1>2, <1>5, <1>6 DEF ChainInv, TypeOK
<1>12. \A u \in Task : tcs_sig'[u] # NoSig => pc'[u] \in ListenPC \cup PollPC
  BY <1>1, <1>6 DEF ChainInv, TypeOK
<1> QED BY <1>5, <1>7, <1>10, <1>11, <1>12 DEF ChainInv

(* task_disconnect() of a task that leaves the connected part of a call.   *)
LEMMA ChainDisconnect ==
  ASSUME TypeOK, ChainInv, NEW t \in Task, Disconnect(t), NEW l \in PC, GoTo(t, l),
         l \notin ListenPC \cup PollPC
  PROVE  ChainInv'
<1> DEFINE q == chain[m_signal]
<1>1. q' = Unlink(q, t)
  BY ChainType DEF Disconnect, TypeOK, SigTypeOK
<1>2. Hanging' = {c \in Hanging : c.task # t} /\ OncePerTask(q')
  BY <1>1, ChainType, ConnsUnlink DEF ChainInv, Hanging
<1>3. \A u \in Task : u # t => pc'[u] = pc[u] /\ tcs_sig'[u] = tcs_sig[u]
  BY DEF TypeOK, SigTypeOK, Disconnect
<1>4. pc'[t] = l /\ tcs_sig'[t] = NoSig
  BY DEF TypeOK, SigTypeOK, Disconnect
<1>5. \A c \in Hanging' : c \in Hanging /\ c.task \in Task /\ c.task # t
  BY <1>2, ChainType
<1>6. \A c \in Hanging' : tcs_sig'[c.task] = NoSig
  BY <1>3, <1>5 DEF ChainInv
<1>7. \A c \in Hanging' : pc'[c.task] \in (IF c.ghost THEN PollPC ELSE ListenPC)
  BY <1>3, <1>5 DEF ChainInv
<1>8. \A u \in Task : pc'[u] \in ListenPC /\ tcs_sig'[u] = NoSig
                        => \E c \in Hanging' : c.task = u
  BY <1>2, <1>3, <1>4 DEF ChainInv
<1>9. \A u \in Task : tcs_sig'[u] # NoSig => pc'[u] \in ListenPC \cup PollPC
  BY <1>3, <1>4 DEF ChainInv
<1> QED BY <1>2, <1>6, <1>7, <1>8, <1>9 DEF ChainInv

(* A turn of sig_send(), which hands the signal to the first task of the   *)
(* chain; if the turn counts, that task is one that mutex_get_timed() has  *)
(* connected.                                                              *)
LEMMA ChainSend ==
  ASSUME TypeOK, ChainInv, Undisturbed, SendOne(m_signal), NEW t \in Task,
         pc[t] = "send", GoTo(t, "run") \/ UNCHANGED pc
  PROVE  /\ ChainInv'
         /\ WakeOk(m_signal) => \E u \in Task : pc[u] \in ListenPC /\ tcs_sig'[u] # NoSig
<1> DEFINE q == chain[m_signal]
           c == Head(q)
<1>1. q # <<>>
  BY DEF SendOne
<1>2. c \in Hanging /\ Conns(Tail(q)) = Hanging \ {c} /\ OncePerTask(Tail(q))
  BY <1>1, ChainType, ConnsTail DEF ChainInv, Hanging
<1>3. c.task \in Task /\ tcs_sig[c.task] = NoSig /\ saved[c.task] = "main"
  BY <1>2, ChainType DEF ChainInv, Undisturbed
<1>4. q' = Tail(q) /\ tcs_sig' = [tcs_sig EXCEPT ![c.task] = m_signal]
  BY <1>3, ChainType DEF SendOne, TypeOK, SigTypeOK
<1>5. Hanging' = Hanging \ {c} /\ OncePerTask(q')
  BY <1>2, <1>4 DEF Hanging
<1>6. \A d \in Hanging : d # c => d.task # c.task
  BY <1>2 DEF Hanging, Conns, ChainInv, OncePerTask
<1>7. m_signal # NoSig
  BY ChainType, NoSigAssumption
<1>8. \A u \in Task : u # c.task => tcs_sig'[u] = tcs_sig[u]
  BY <1>4 DEF TypeOK, SigTypeOK
<1>9. tcs_sig'[c.task] = m_signal
  BY <1>3, <1>4 DEF TypeOK, SigTypeOK
<1>10. \A u \in Task : /\ pc'[u] \in ListenPC <=> pc[u] \in ListenPC
                       /\ pc'[u] \in PollPC <=> pc[u] \in PollPC
  BY DEF TypeOK, ListenPC, PollPC
<1>11. pc[c.task] \in (IF c.ghost THEN PollPC ELSE ListenPC)
  BY <1>2 DEF ChainInv
<1>12. WakeOk(m_signal) => pc[c.task] \in ListenPC
  BY <1>11 DEF WakeOk
<1> HIDE DEF q, c
<1>13. \A d \in Hanging' : tcs_sig'[d.task] = NoSig
  BY <1>5, <1>6, <1>8, ChainType DEF ChainInv
<1>14. \A d \in Hanging' : pc'[d.task] \in (IF d.ghost THEN PollPC ELSE ListenPC)
  BY <1>5, <1>10, ChainType DEF ChainInv
<1>15. \A u \in Task : pc'[u] \in ListenPC /\ tcs_sig'[u] = NoSig
                         => \E d \in Hanging' : d.task = u
  BY <1>3, <1>5, <1>7, <1>8, <1>9, <1>10 DEF ChainInv
<1>16. \A u \in Task : tcs_sig'[u] # NoSig => pc'[u] \in ListenPC \cup PollPC
  BY <1>3, <1>8, <1>10, <1>11 DEF ChainInv
<1>17. ChainInv'
  BY <1>5, <1>13, <1>14, <1>15, <1>16 DEF ChainInv, q
<1> QED BY <1>3, <1>7, <1>9, <1>12, <1>17

(* Without timeouts, RPC callbacks and store buffers, every step keeps     *)
(* WakeInv: a send that counts turns a sleeper into a task that will       *)
(* retry, and a send that finds the chain empty leaves no sleeper behind.  *)
LEMMA WakeStep ==
  ASSUME WakeInv, [Next]_vars, Timed = {}, Serving = {}, SMP = FALSE
  PROVE  WakeInv'
<1> DEFINE Inv == Undisturbed /\ ChainInv /\ NoStrandedWaiter
<1>i. TypeOK /\ ChainInv /\ Undisturbed /\ NoStrandedWaiter
  BY DEF WakeInv, OwnerInv
<1>p. pc \in [Task -> PC] /\ tcs_sig \in [Task -> Sig \cup {NoSig}] /\ m_ind \in Nat
  BY <1>i DEF TypeOK, SigTypeOK
<1>o. OwnerInv'
  BY OwnerStep DEF WakeInv
<1>1. CASE UNCHANGED vars
  <2>1. Undisturbed' /\ ChainInv'
    BY <1>1, <1>i DEF vars, Undisturbed, ChainInv, Hanging
  <2>2. NoStrandedWaiter'
    BY <1>1, <1>i DEF vars, NoStrandedWaiter, Asleep, Responsible
  <2> QED BY <2>1, <2>2, <1>o DEF WakeInv
<1>2. ASSUME NEW t \in Task, Get(t) \/ Try(t)
      PROVE  Inv'
  <2>1. ChainInv'
    <3>1. CASE UNCHANGED pc
      BY <1>2, <3>1, <1>i DEF Get, Try, sigVars, ChainInv, Hanging
    <3>2. CASE GoTo(t, "owner") \/ GoTo(t, "poll")
      BY <1>2, <3>2, <1>i, ChainQuiet DEF Get, Try, PC, ListenPC, PollPC
    <3> QED BY <1>2, <3>1, <3>2 DEF Get, Try, Acquire
  <2>2. m_ind' # 0
    BY <1>2, <1>p DEF Get, Try, Acquire, CmpXch, CmpXchFails
  <2>3. Undisturbed'
    BY <1>2, <1>i, <1>p DEF Get, Try, Acquire, sigVars, Undisturbed
  <2> QED BY <2>1, <2>2, <2>3 DEF NoStrandedWaiter
<1>3. ASSUME NEW t \in Task, Put(t)
      PROVE  Inv'
  <2>1. ChainInv'
    <3>1. CASE UNCHANGED pc
      BY <1>3, <3>1, <1>i DEF Put, sigVars, ChainInv, Hanging
    <3>2. CASE GoTo(t, "put")
      BY <1>3, <3>2, <1>i, ChainQuiet DEF Put, PC, ListenPC, PollPC
    <3> QED BY <1>3, <3>1, <3>2 DEF Put
  <2>2. m_ind' # 0
    BY <1>3, <1>p DEF Put, WakeInv, OwnerInv, HolderOwns
  <2>3. Undisturbed'
    BY <1>3, <1>i, <1>p DEF Put, sigVars, Undisturbed
  <2> QED BY <2>1, <2>2, <2>3 DEF NoStrandedWaiter
<1>4. ASSUME NEW t \in Task, PollConnect(t)
      PROVE  Inv'
  <2>1. ChainInv'
    BY <1>4, <1>i, ChainConnect DEF PollConnect, ListenPC, PollPC
  <2> QED
    BY <1>4, <2>1, <1>i, <1>p
    DEF PollConnect, Connect, Undisturbed, NoStrandedWaiter, Asleep, Responsible
<1>5. ASSUME NEW t \in Task, SetOwner(t)
      PROVE  Inv'
  <2>1. ChainInv'
    BY <1>5, <1>i, ChainQuiet DEF SetOwner, PC, ListenPC, PollPC
  <2>2. m_ind' # 0
    BY <1>5, <1>p DEF SetOwner, WakeInv, OwnerInv
  <2>3. Undisturbed'
    BY <1>5, <1>i, <1>p DEF SetOwner, sigVars, Undisturbed
  <2> QED BY <2>1, <2>2, <2>3 DEF NoStrandedWaiter
<1>6. ASSUME NEW t \in Task, PollBeforeConnect(t) \/ Recheck(t)
      PROVE  Inv'
  <2>1. ChainInv'
    BY <1>6, <1>i, ChainQuiet DEF PollBeforeConnect, Recheck, PC, ListenPC, PollPC
  <2>2. m_ind' # 0
    BY <1>6, <1>p DEF PollBeforeConnect, Recheck, CmpXch, CmpXchFails
  <2>3. Undisturbed'
    BY <1>6, <1>i, <1>p DEF PollBeforeConnect, Recheck, sigVars, Undisturbed
  <2> QED BY <2>1, <2>2, <2>3 DEF NoStrandedWaiter
<1>7. ASSUME NEW t \in Task, ConnectSignal(t)
      PROVE  Inv'
  <2>1. ChainInv'
    BY <1>7, <1>i, ChainConnect DEF ConnectSignal, ListenPC, PollPC
  <2> QED
    BY <1>7, <2>1, <1>i, <1>p
    DEF ConnectSignal, Connect, Undisturbed, NoStrandedWaiter, Responsible
<1>8. ASSUME NEW t \in Task, DropConnection(t)
      PROVE  Inv'
  <2>1. ChainInv'
    BY <1>8, <1>i, ChainDisconnect, ZenonT(60) DEF DropConnection, PC, ListenPC, PollPC
  <2>2. m_ind' # 0
    BY <1>8, <1>p DEF DropConnection, WakeInv, OwnerInv
  <2>3. Undisturbed'
    BY <1>8, <1>i, <1>p DEF DropConnection, Disconnect, Undisturbed
  <2> QED BY <2>1, <2>2, <2>3 DEF NoStrandedWaiter
<1>9. ASSUME NEW t \in Task, Wait(t)
      PROVE  Inv'
  <2>1. WaitSignaled(t, "poll") /\ UNCHANGED <<m_ind, m_owner, held, sb>>
    BY <1>9, <1>i, WaitAssumption
    DEF Wait, WaitLoop, WaitTimeout, WaitServe, ServeCallbacks, ServeDone,
        ServeThrow, WaitFailed, Undisturbed
  <2>2. ChainInv'
    BY <2>1, <1>i, ChainDisconnect, ZenonT(60) DEF WaitSignaled, PC, ListenPC, PollPC
  <2>3. Undisturbed'
    BY <2>1, <1>i, <1>p DEF WaitSignaled, Disconnect, Undisturbed
  <2>4. Responsible(t)'
    BY <2>1, <1>p DEF WaitSignaled, Responsible
  <2> QED BY <2>2, <2>3, <2>4 DEF NoStrandedWaiter
<1>10. ASSUME NEW t \in Task, PutStore(t) \/ Flush(t)
       PROVE  Inv'
  <2>1. PutStore(t)
    BY <1>10, <1>i DEF Flush, Undisturbed
  <2>2. ChainInv'
    BY <2>1, <1>i, ChainQuiet DEF PutStore, PC, ListenPC, PollPC
  <2>3. Undisturbed'
    BY <2>1, <1>i, <1>p DEF PutStore, sigVars, Undisturbed
  <2>4. Responsible(t)'
    BY <2>1, <1>p DEF PutStore, Responsible
  <2> QED BY <2>2, <2>3, <2>4 DEF NoStrandedWaiter
<1>11. ASSUME NEW t \in Task, pc[t] \in {"probe", "send"}, chain[m_signal] = <<>>,
              GoTo(t, "run"), UNCHANGED <<m_ind, sb, sigVars>>
       PROVE  Inv'
  <2>1. ChainInv'
    BY <1>11, <1>i, ChainQuiet DEF PC, ListenPC, PollPC
  <2>2. Hanging' = {}
    BY <1>11, ConnsEmpty DEF Hanging, sigVars
  <2>3. \A u \in Task : ~ Asleep(u)'
    BY <2>1, <2>2 DEF ChainInv, Asleep, ListenPC
  <2>4. Undisturbed'
    BY <1>11, <1>i, <1>p DEF sigVars, Undisturbed
  <2> QED BY <2>1, <2>3, <2>4 DEF NoStrandedWaiter
<1>12. ASSUME NEW t \in Task, Probe(t)
       PROVE  Inv'
  <2>1. CASE chain[m_signal] = <<>>
    BY <1>11, <1>12, <2>1 DEF Probe
  <2>2. CASE chain[m_signal] # <<>>
    <3>1. ChainInv'
      BY <1>12, <2>2, <1>i, ChainQuiet DEF Probe, PC, ListenPC, PollPC
    <3>2. Undisturbed'
      BY <1>12, <2>2, <1>i, <1>p DEF Probe, sigVars, Undisturbed
    <3>3. Responsible(t)'
      BY <1>12, <2>2, <1>p DEF Probe, Responsible
    <3> QED BY <3>1, <3>2, <3>3 DEF NoStrandedWaiter
  <2> QED BY <2>1, <2>2
<1>13. ASSUME NEW t \in Task, Send(t)
       PROVE  Inv'
  <2>1. CASE chain[m_signal] = <<>> /\ GoTo(t, "run") /\ UNCHANGED sigVars
    BY <1>11, <1>13, <2>1 DEF Send
  <2>2. CASE SendOne(m_signal)
    <3>1. pc[t] = "send" /\ (IF WakeOk(m_signal) THEN GoTo(t, "run") ELSE UNCHANGED pc)
      BY <1>13, <2>2 DEF Send, SendOne
    <3>2. ChainInv'
      BY <2>2, <3>1, <1>i, ChainSend
    <3>3. Undisturbed'
      BY <1>13, <2>2, <3>1, <1>i, <1>p DEF Send, SendOne, Undisturbed
    <3>4. CASE WakeOk(m_signal)
      <4>1. PICK u \in Task : pc[u] \in ListenPC /\ tcs_sig'[u] # NoSig
        BY <2>2, <3>1, <3>4, <1>i, ChainSend
      <4>2. pc'[u] = pc[u]
        BY <4>1, <3>1, <3>4, <1>p DEF ListenPC
      <4>3. m_ind' # 0 \/ Responsible(u)'
        BY <1>13, <4>1, <4>2, <1>p, SMTT(60) DEF Send, ListenPC, Responsible, WakeInv, OwnerInv
      <4> QED BY <3>2, <3>3, <4>3 DEF NoStrandedWaiter
    <3>5. CASE ~ WakeOk(m_signal)
      <4>1. Responsible(t)'
        BY <3>1, <3>5 DEF Responsible
      <4> QED BY <3>2, <3>3, <4>1 DEF NoStrandedWaiter
    <3> QED BY <3>4, <3>5
  <2> QED BY <1>13, <2>1, <2>2 DEF Send
<1>14. ASSUME NEW t \in Task, PollCheck(t) \/ PollWait(t)
       PROVE  Inv'
  <2>1. ChainInv'
    <3>1. CASE Disconnect(t) /\ GoTo(t, "run")
      BY <3>1, <1>i, ChainDisconnect, ZenonT(60) DEF PC, ListenPC, PollPC
    <3>2. CASE PollCheck(t) /\ UNCHANGED sigVars /\ GoTo(t, "pwait")
      BY <3>2, <1>i, ChainQuiet DEF PollCheck, PC, ListenPC, PollPC
    <3> QED BY <1>14, <3>1, <3>2 DEF PollCheck, PollWait
  <2>2. Undisturbed' /\ UNCHANGED m_ind
    BY <1>14, <1>i, <1>p DEF PollCheck, PollWait, Disconnect, sigVars, Undisturbed
  <2>3. \A u \in Task : (Asleep(u)' => Asleep(u)) /\ (Responsible(u) => Responsible(u)')
    BY <1>14, <1>p
    DEF PollCheck, PollWait, Disconnect, sigVars, Asleep, Responsible
  <2> QED BY <2>1, <2>2, <2>3, <1>i DEF NoStrandedWaiter
<1>15. CASE Next
  BY ZenonT(60), <1>2, <1>3, <1>4, <1>5, <1>6, <1>7, <1>8, <1>9, <1>10, <1>12, <1>13,
     <1>14, <1>15, <1>o DEF Next, Step, WakeInv
<1> QED BY <1>1, <1>15, <1>o DEF WakeInv

(* The types and the owner invariant hold in every behaviour, whatever the *)
(* timeouts, RPC callbacks, polls and store buffers: the assertions of     *)
(* mutex_put() never fail for a task that has the mutex.                   *)
THEOREM OwnerSafety == Spec => [](TypeOK /\ HolderOwns)
<1>1. Init => OwnerInv
  BY InitInv DEF WakeInv
<1>2. OwnerInv /\ [Next]_vars => OwnerInv'
  BY OwnerStep
<1>3. OwnerInv => TypeOK /\ HolderOwns
  BY DEF OwnerInv
<1> QED BY <1>1, <1>2, <1>3, PTL DEF Spec

(* At most one task has the mutex, for any number of tasks.                *)
THEOREM Exclusion == Spec => []MutualExclusion
<1>1. Init => OwnerInv
  BY InitInv DEF WakeInv
<1>2. OwnerInv /\ [Next]_vars => OwnerInv'
  BY OwnerStep
<1>3. OwnerInv => MutualExclusion
  BY DEF OwnerInv, MutualExclusion, Owns
<1> QED BY <1>1, <1>2, <1>3, PTL DEF Spec

(* Without timeouts, RPC callbacks and store buffers no wakeup is lost,    *)
(* for any number of tasks that get, try, put and poll: the `at least ~1~  *)
(* task was woken' on which mutex_put() relies.                            *)
THEOREM NoLostWakeup ==
  ASSUME Timed = {}, Serving = {}, SMP = FALSE
  PROVE  Spec => []NoStrandedWaiter
<1>1. Init => WakeInv
  BY InitInv
<1>2. WakeInv /\ [Next]_vars => WakeInv'
  BY WakeStep
<1>3. WakeInv => NoStrandedWaiter
  BY DEF WakeInv
<1> QED BY <1>1, <1>2, <1>3, PTL DEF Spec
=============================================================================
