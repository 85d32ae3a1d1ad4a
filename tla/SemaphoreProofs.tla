-------------------------- MODULE SemaphoreProofs --------------------------
(***************************************************************************)
(* Proofs about the kernel semaphore, for every finite set of tasks, every *)
(* set of tasks with timeouts and RPC callbacks, and posts of any size.    *)
(***************************************************************************)
EXTENDS Semaphore, TaskSignalProofs, FiniteSetTheorems

(* Where sem_timedwait() is connected to the signal. *)
ConnPC == {"recheck", "drop", "wait", "push", "serve", "timeout", "throw"}

(* The connections that hang off the signal. *)
Hanging == Conns(chain[sem_signal])

(* t hangs off the signal. *)
Hangs(t) == \E c \in Hanging : c.task = t

(* Whoever hangs off the signal is in the connected part of a call and was *)
(* not signaled; only a task in that part holds a signal; and a task in    *)
(* that part that neither holds a signal nor lost one hangs off it.        *)
ChainInv ==
  /\ OncePerTask(chain[sem_signal])
  /\ \A c \in Hanging : ~ c.ghost /\ tcs_sig[c.task] = NoSig /\ pc[c.task] \in ConnPC
  /\ \A t \in Task : tcs_sig[t] # NoSig => pc[t] \in ConnPC
  /\ \A t \in Task \ raced : pc[t] \in ConnPC /\ tcs_sig[t] = NoSig => Hangs(t)

(* The tickets are bounded, and only a task in sem_post() has wakeups left *)
(* to send.                                                                *)
TicketInv ==
  /\ TicketsConserved /\ sem_tickets <= MaxTickets
  /\ \A t \in Task : todo[t] <= MaxPost /\ (todo[t] > 0 => pc[t] \in {"probe", "send"})

(* The tasks that hold a signal, or have just been woken by one; and that  *)
(* some task hangs off the signal which has looked at the tickets for the  *)
(* last time.                                                              *)
Holding == {u \in Task : pc[u] = "again" \/ tcs_sig[u] # NoSig}
Listening == \E c \in Hanging : pc[c.task] \in {"wait", "push", "serve"}

(* The strengthening of EveryTicketAnnounced that every step keeps: a task *)
(* that was not signaled, but may look at the tickets of its own accord,   *)
(* is not counted.                                                         *)
Announced == Listening => sem_tickets <= Cardinality(Holding) + Unsent + lost

(* The inductive invariant of the semaphore. *)
SemInv == TypeOK /\ TicketInv /\ ChainInv /\ Announced

USE DEF GoTo

-----------------------------------------------------------------------------
(* The signal exists and the connections of its chain belong to tasks.     *)
LEMMA ChainType ==
  ASSUME SigTypeOK
  PROVE  /\ sem_signal \in Sig
         /\ chain[sem_signal] \in Seq(Connection)
         /\ \A c \in Hanging : c \in Connection /\ c.task \in Task
<1>1. sem_signal \in Sig
  BY SemAssumption DEF sem_signal
<1>2. chain[sem_signal] \in Seq(Connection)
  BY <1>1 DEF SigTypeOK
<1>3. \A c \in Hanging : c \in Connection
  BY <1>2 DEF Hanging, Conns
<1>4. \A c \in Connection : c.task \in Task
  BY DEF Connection
<1> QED BY <1>1, <1>2, <1>3, <1>4

(* The steps of task_waitfor() keep the types of the signals and of pc.    *)
LEMMA WaitType ==
  ASSUME SigTypeOK, pc \in [Task -> PC], NEW t \in Task, NEW l \in PC
  PROVE  /\ WaitLoop(t) => SigTypeOK' /\ pc' \in [Task -> PC]
         /\ WaitSignaled(t, l) => SigTypeOK' /\ pc' \in [Task -> PC]
         /\ WaitFailed(t, l) => SigTypeOK' /\ pc' \in [Task -> PC]
<1>s. sem_signal \in Sig
  BY ChainType
<1>1. WaitLoop(t) => SigTypeOK' /\ pc' \in [Task -> PC]
  BY <1>s, SigCallsType DEF WaitLoop, WaitTimeout, WaitServe, ServeCallbacks, ServeDone, ServeThrow, PC
<1>2. WaitSignaled(t, l) => SigTypeOK' /\ pc' \in [Task -> PC]
  BY <1>s, SigCallsType DEF WaitSignaled
<1>3. WaitFailed(t, l) => SigTypeOK' /\ pc' \in [Task -> PC]
  BY <1>s, SigCallsType DEF WaitFailed
<1> QED BY <1>1, <1>2, <1>3

(* The calls of sem_trywait(), with where they go on success and failure.  *)
Attempt(t) ==
  \/ pc[t] = "try" /\ TryWait(t, "run", "run")
  \/ pc[t] = "again" /\ TryWait(t, "run", "poll")
  \/ pc[t] = "poll" /\ TryWait(t, "run", "connect")
  \/ pc[t] = "recheck" /\ TryWait(t, "drop", "wait")

(* Every step of the semaphore keeps the types; no CMPXCH makes the        *)
(* tickets negative.                                                       *)
LEMMA TypeStep ==
  ASSUME TypeOK, TicketsConserved, [Next]_vars
  PROVE  TypeOK'
<1> USE DEF TypeOK
<1>m. sem_signal \in Sig /\ {Initial, MaxPost, MaxTickets} \subseteq Nat
  BY ChainType, SemAssumption
<1>u. UNCHANGED sigVars => SigTypeOK'
  BY DEF SigTypeOK, sigVars
<1>d. ASSUME NEW t \in Task, Discard(t)
      PROVE  lost' \in 0 .. MaxTickets /\ raced' \subseteq Task
  BY <1>d, <1>m DEF Discard
<1>1. CASE UNCHANGED vars
  BY <1>1 DEF vars, SigTypeOK
<1>2. ASSUME NEW t \in Task, CallTryWait(t) \/ CallTimedWait(t)
      PROVE  TypeOK'
  BY <1>2, <1>u DEF CallTryWait, CallTimedWait, semVars, histVars, PC
<1>3. ASSUME NEW t \in Task, Attempt(t)
      PROVE  TypeOK'
  <2>1. pc' \in [Task -> PC] /\ SigTypeOK' /\ todo' = todo /\ lost' = lost /\ raced' = raced
    BY <1>3, <1>u DEF Attempt, TryWait, semVars, histVars, PC
  <2>2. count' \in [Task -> Nat] /\ sem_tickets' \in Nat /\ due' \in Nat
    BY <1>3 DEF Attempt, TryWait, semVars, TicketsConserved
  <2> QED BY <2>1, <2>2
<1>4. ASSUME NEW t \in Task, TimedWaitConnect(t)
      PROVE  TypeOK'
  <2>1. SigTypeOK'
    BY <1>4, <1>m, SigCallsType DEF TimedWaitConnect
  <2> QED BY <1>4, <2>1 DEF TimedWaitConnect, semVars, histVars, PC
<1>5. ASSUME NEW t \in Task, TimedWaitDrop(t)
      PROVE  TypeOK'
  <2>1. SigTypeOK'
    BY <1>5, <1>m, SigCallsType DEF TimedWaitDrop
  <2> QED BY <1>5, <2>1, <1>d DEF TimedWaitDrop, semVars, PC
<1>6. ASSUME NEW t \in Task, Wait(t)
      PROVE  TypeOK'
  <2>1. SigTypeOK' /\ pc' \in [Task -> PC]
    BY <1>6, WaitType DEF Wait, PC
  <2> QED BY <1>6, <2>1, <1>d DEF Wait, semVars, histVars
<1>7. ASSUME NEW t \in Task, Post(t)
      PROVE  TypeOK'
  BY <1>7, <1>u, <1>m DEF Post, histVars, PC
<1>8. ASSUME NEW t \in Task, Probe(t)
      PROVE  TypeOK'
  <2>1. pc' \in [Task -> PC]
    BY <1>8, SMTT(60) DEF Probe, PC
  <2>2. todo' \in [Task -> Nat]
    BY <1>8 DEF Probe
  <2> QED BY <1>8, <2>1, <2>2, <1>u DEF Probe, histVars
<1>9. ASSUME NEW t \in Task, Send(t)
      PROVE  TypeOK'
  <2>1. SigTypeOK'
    BY <1>9, <1>m, <1>u, SigCallsType DEF Send
  <2>2. pc' \in [Task -> PC]
    BY <1>9 DEF Send, PC
  <2>3. todo' \in [Task -> Nat]
    BY <1>9 DEF Send
  <2>4. raced' \subseteq Task
    <3>1. chain[sem_signal] # <<>> => Head(chain[sem_signal]) \in Connection
      BY ChainType
    <3>2. chain[sem_signal] # <<>> => Head(chain[sem_signal]).task \in Task
      BY <3>1 DEF Connection
    <3> QED BY <1>9, <3>2 DEF Send
  <2> QED BY <1>9, <2>1, <2>2, <2>3, <2>4 DEF Send
<1> QED
  BY <1>1, <1>2, <1>3, <1>4, <1>5, <1>6, <1>7, <1>8, <1>9
  DEF Next, Step, Attempt, TryWaitAlone, TimedWaitAgain, TimedWaitPoll, TimedWaitRecheck

(* Every step keeps TicketInv: a CMPXCH only succeeds on the value that    *)
(* was read.                                                               *)
LEMMA TicketStep ==
  ASSUME TypeOK, TicketInv, [Next]_vars
  PROVE  TicketInv'
<1> USE DEF TicketInv, TicketsConserved
<1>t. /\ pc \in [Task -> PC] /\ todo \in [Task -> Nat] /\ count \in [Task -> Nat]
      /\ sem_tickets \in Nat /\ due \in Nat /\ {Initial, MaxPost, MaxTickets} \subseteq Nat
  BY SemAssumption DEF TypeOK
<1>1. CASE UNCHANGED vars
  BY <1>1 DEF vars
<1>2. ASSUME NEW t \in Task, CallTryWait(t) \/ CallTimedWait(t)
      PROVE  TicketInv'
  BY <1>2, <1>t DEF CallTryWait, CallTimedWait, semVars
<1>3. ASSUME NEW t \in Task, Attempt(t)
      PROVE  TicketInv'
  <2>1. sem_tickets' = due' /\ sem_tickets' <= sem_tickets
    BY <1>3, <1>t DEF Attempt, TryWait, semVars
  <2>2. todo' = todo /\ \A u \in Task : pc'[u] = pc[u] \/ pc[u] \notin {"probe", "send"}
    BY <1>3, <1>t DEF Attempt, TryWait, semVars
  <2>3. sem_tickets' <= MaxTickets
    BY <2>1, <1>t, TypeStep DEF TypeOK
  <2> QED BY <2>1, <2>2, <2>3, <1>t
<1>4. ASSUME NEW t \in Task, TimedWaitConnect(t) \/ TimedWaitDrop(t)
      PROVE  TicketInv'
  BY <1>4, <1>t DEF TimedWaitConnect, TimedWaitDrop, semVars
<1>5. ASSUME NEW t \in Task, Wait(t)
      PROVE  TicketInv'
  <2>1. \A u \in Task : pc'[u] = pc[u] \/ pc[u] \notin {"probe", "send"}
    BY <1>5, <1>t
    DEF Wait, WaitLoop, WaitTimeout, WaitServe, ServeCallbacks, ServeDone, ServeThrow, WaitSignaled, WaitFailed
  <2> QED BY <1>5, <2>1 DEF Wait, semVars
<1>6. ASSUME NEW t \in Task, Post(t)
      PROVE  TicketInv'
  BY <1>6, <1>t DEF Post
<1>7. ASSUME NEW t \in Task, Probe(t)
      PROVE  TicketInv'
  <2>1. CASE chain[sem_signal] = <<>>
    <3>1. /\ GoTo(t, "run") /\ todo' = [todo EXCEPT ![t] = 0]
          /\ UNCHANGED <<sem_tickets, due>>
      BY <1>7, <2>1 DEF Probe
    <3> QED BY <1>t, <3>1
  <2>2. CASE chain[sem_signal] # <<>>
    BY <1>7, <1>t, <2>2, SMTT(60) DEF Probe
  <2> QED BY <2>1, <2>2
<1>8. ASSUME NEW t \in Task, Send(t)
      PROVE  TicketInv'
  <2>1. CASE GoTo(t, "run") /\ todo' = [todo EXCEPT ![t] = 0]
    BY <1>8, <1>t, <2>1 DEF Send
  <2>2. CASE todo[t] # 0 /\ todo' = [todo EXCEPT ![t] = @ - 1] /\ UNCHANGED pc
    BY <1>8, <1>t, <2>2 DEF Send
  <2>3. CASE UNCHANGED <<todo, pc>>
    BY <1>8, <1>t, <2>3 DEF Send
  <2> QED BY <1>8, <2>1, <2>2, <2>3 DEF Send
<1> QED
  BY <1>1, <1>2, <1>3, <1>4, <1>5, <1>6, <1>7, <1>8
  DEF Next, Step, Attempt, TryWaitAlone, TimedWaitAgain, TimedWaitPoll, TimedWaitRecheck

-----------------------------------------------------------------------------
(* A step that leaves the signal alone, or only says where the connections *)
(* of t live, and moves t neither into nor out of the connected part.      *)
LEMMA ChainQuiet ==
  ASSUME TypeOK, ChainInv, UNCHANGED <<chain, tcs_sig, raced>>,
         \A u \in Task : pc[u] \in ConnPC <=> pc'[u] \in ConnPC
  PROVE  ChainInv' /\ Hanging' = Hanging
<1>1. Hanging' = Hanging
  BY DEF Hanging
<1>2. \A c \in Hanging : c.task \in Task
  BY ChainType DEF TypeOK
<1>3. \A u : Hangs(u)' <=> Hangs(u)
  BY <1>1 DEF Hangs
<1> QED BY <1>1, <1>2, <1>3 DEF ChainInv

(* task_connect() in sem_timedwait().                                      *)
LEMMA ChainConnect ==
  ASSUME TypeOK, ChainInv, NEW t \in Task, TimedWaitConnect(t)
  PROVE  /\ ChainInv' /\ UNCHANGED tcs_sig
         /\ Hanging' = Hanging \cup {[task |-> t, ghost |-> FALSE]}
<1> DEFINE q == chain[sem_signal]
           c == [task |-> t, ghost |-> FALSE]
<1>t. pc \in [Task -> PC] /\ SigTypeOK
  BY DEF TypeOK
<1>p. pc[t] = "connect" /\ pc' = [pc EXCEPT ![t] = "recheck"] /\ Connect(t, sem_signal, FALSE)
  BY DEF TimedWaitConnect
<1>1. tcs_sig[t] = NoSig
  BY <1>p DEF ChainInv, ConnPC
<1>2. c \in Connection /\ c.task = t /\ c.ghost = FALSE
  BY DEF Connection
<1>3. \A d \in Hanging : d.task # t
  BY <1>p DEF ChainInv, ConnPC
<1>4. q' = Append(q, c)
  BY <1>1, <1>p, <1>t, ChainType DEF Connect, SigTypeOK
<1>5. Hanging' = Hanging \cup {c} /\ OncePerTask(q')
  BY <1>2, <1>3, <1>4, <1>t, ChainType, ConnsAppend DEF ChainInv, Hanging
<1>6. UNCHANGED tcs_sig
  BY <1>p DEF Connect
<1> HIDE DEF c
<1>7. \A d \in Hanging : pc'[d.task] = pc[d.task]
  BY <1>3, <1>p, <1>t, ChainType
<1>8. \A d \in Hanging' : ~ d.ghost /\ tcs_sig'[d.task] = NoSig /\ pc'[d.task] \in ConnPC
  BY <1>1, <1>2, <1>5, <1>6, <1>7, <1>p, <1>t DEF ChainInv, ConnPC
<1>9. \A u \in Task : tcs_sig'[u] # NoSig => pc'[u] \in ConnPC
  BY <1>1, <1>6, <1>p, <1>t DEF ChainInv
<1>10. \A u \in Task \ raced' : pc'[u] \in ConnPC /\ tcs_sig'[u] = NoSig => Hangs(u)'
  <2>1. UNCHANGED raced
    BY DEF TimedWaitConnect, histVars
  <2>2. Hangs(t)'
    BY <1>2, <1>5 DEF Hangs
  <2>3. \A u \in Task : u # t => pc'[u] = pc[u] /\ (Hangs(u) => Hangs(u)')
    BY <1>5, <1>p, <1>t DEF Hangs
  <2> QED BY <1>6, <2>1, <2>2, <2>3 DEF ChainInv
<1> QED BY <1>5, <1>6, <1>8, <1>9, <1>10 DEF ChainInv, c

(* task_disconnect() of a task that leaves the connected part.             *)
LEMMA ChainDisconnect ==
  ASSUME TypeOK, ChainInv, NEW t \in Task, Disconnect(t), NEW l \in PC \ ConnPC, GoTo(t, l),
         raced' \in {raced, raced \ {t}}
  PROVE  /\ ChainInv' /\ Hanging' = {c \in Hanging : c.task # t}
         /\ tcs_sig' = [tcs_sig EXCEPT ![t] = NoSig]
<1> DEFINE q == chain[sem_signal]
<1>t. SigTypeOK /\ pc \in [Task -> PC]
  BY DEF TypeOK
<1>1. q' = Unlink(q, t)
  BY <1>t, ChainType DEF Disconnect, SigTypeOK
<1>2. Hanging' = {c \in Hanging : c.task # t} /\ OncePerTask(q')
  BY <1>1, <1>t, ChainType, ConnsUnlink DEF ChainInv, Hanging
<1>3. tcs_sig' = [tcs_sig EXCEPT ![t] = NoSig]
  BY DEF Disconnect
<1>4. \A u \in Task : u # t => pc'[u] = pc[u] /\ tcs_sig'[u] = tcs_sig[u]
  BY <1>3, <1>t DEF SigTypeOK
<1>5. tcs_sig'[t] = NoSig
  BY <1>3, <1>t DEF SigTypeOK
<1>6. \A c \in Hanging' : c \in Hanging /\ c.task \in Task /\ c.task # t
  BY <1>2, <1>t, ChainType
<1>7. \A c \in Hanging' : ~ c.ghost /\ tcs_sig'[c.task] = NoSig /\ pc'[c.task] \in ConnPC
  BY <1>4, <1>6 DEF ChainInv
<1>8. \A u \in Task : tcs_sig'[u] # NoSig => pc'[u] \in ConnPC
  BY <1>4, <1>5 DEF ChainInv
<1>9. \A u \in Task \ raced' : pc'[u] \in ConnPC /\ tcs_sig'[u] = NoSig => Hangs(u)'
  <2>1. pc'[t] \notin ConnPC
    BY <1>t
  <2>2. \A u \in Task : u # t => (Hangs(u) => Hangs(u)')
    BY <1>2 DEF Hangs
  <2>3. \A u \in Task : u # t => (u \in raced <=> u \in raced')
    OBVIOUS
  <2> QED BY <1>4, <2>1, <2>2, <2>3 DEF ChainInv
<1> QED BY <1>2, <1>3, <1>7, <1>8, <1>9 DEF ChainInv

(* A turn of sig_send() takes the first connection off the chain; its task *)
(* holds the signal afterwards if the turn counts.                         *)
LEMMA ChainSend ==
  ASSUME TypeOK, ChainInv, SendOne(sem_signal), UNCHANGED pc,
         raced' = raced \cup {u \in {Head(chain[sem_signal]).task} : saved[u] = "moving"}
  PROVE  /\ ChainInv' /\ Hanging' \subseteq Hanging
         /\ \E u \in Task :
               /\ pc[u] \in ConnPC /\ tcs_sig[u] = NoSig
               /\ \/ tcs_sig' = [tcs_sig EXCEPT ![u] = sem_signal]
                  \/ ~ WakeOk(sem_signal) /\ tcs_sig' = tcs_sig
<1> DEFINE q == chain[sem_signal]
           c == Head(q)
           u == c.task
<1>t. SigTypeOK /\ pc \in [Task -> PC] /\ sem_signal \in Sig /\ sem_signal # NoSig
  BY ChainType, NoSigAssumption DEF TypeOK
<1>1. q # <<>>
  BY DEF SendOne
<1>2. c \in Hanging /\ Conns(Tail(q)) = Hanging \ {c} /\ OncePerTask(Tail(q))
  BY <1>1, <1>t, ChainType, ConnsTail DEF ChainInv, Hanging
<1>3. u \in Task /\ tcs_sig[u] = NoSig /\ pc[u] \in ConnPC
  BY <1>2, <1>t, ChainType DEF ChainInv
<1>4. q' = Tail(q)
  BY <1>t DEF SendOne, SigTypeOK
<1>5. Hanging' = Hanging \ {c} /\ OncePerTask(q')
  BY <1>2, <1>4 DEF Hanging
<1>6. \A d \in Hanging : d # c => d.task # u
  BY <1>2 DEF Hanging, Conns, ChainInv, OncePerTask
<1>7. \/ tcs_sig' = [tcs_sig EXCEPT ![u] = sem_signal]
      \/ ~ WakeOk(sem_signal) /\ tcs_sig' = tcs_sig
  BY <1>3 DEF SendOne, WakeOk
<1>8. \A v \in Task : v # u => tcs_sig'[v] = tcs_sig[v]
  BY <1>7, <1>t DEF SigTypeOK
<1>w. tcs_sig'[u] = NoSig => u \in raced'
  BY <1>3, <1>t DEF SendOne, SigTypeOK
<1>r. raced \subseteq raced'
  OBVIOUS
<1> HIDE DEF q, c
<1>9. \A d \in Hanging' : d \in Hanging /\ d.task # u /\ d.task \in Task
  BY <1>5, <1>6, <1>t, ChainType
<1>10. \A d \in Hanging' : ~ d.ghost /\ tcs_sig'[d.task] = NoSig /\ pc'[d.task] \in ConnPC
  BY <1>8, <1>9 DEF ChainInv
<1>11. \A v \in Task : tcs_sig'[v] # NoSig => pc'[v] \in ConnPC
  BY <1>3, <1>8 DEF ChainInv
<1>h. \A v \in Task \ raced' : pc'[v] \in ConnPC /\ tcs_sig'[v] = NoSig => Hangs(v)'
  <2>1. \A v \in Task : v # u => (Hangs(v) => Hangs(v)')
    BY <1>5 DEF Hangs
  <2> QED BY <1>8, <1>w, <1>r, <2>1 DEF ChainInv
<1>12. ChainInv'
  BY <1>5, <1>10, <1>11, <1>h DEF ChainInv, q
<1> QED BY <1>3, <1>5, <1>7, <1>12

-----------------------------------------------------------------------------
(* The wakeups that the tasks have left to send, one by one, if f says how *)
(* many each of them has.                                                  *)
Wakeups(f) == {w \in Task \X (1 .. MaxPost) : w[2] <= f[w[1]]}

(* The tasks that hold a signal, and the wakeups, can be counted.          *)
LEMMA CountsType ==
  /\ \A S \in SUBSET Task : IsFiniteSet(S) /\ Cardinality(S) \in Nat
  /\ \A f : IsFiniteSet(Wakeups(f)) /\ Cardinality(Wakeups(f)) \in Nat
<1>1. \A f : Wakeups(f) \in SUBSET (Task \X (1 .. MaxPost))
  BY DEF Wakeups
<1>2. IsFiniteSet(1 .. MaxPost) /\ IsFiniteSet(Task)
  BY FS_Interval, SemAssumption
<1>3. IsFiniteSet(Task \X (1 .. MaxPost))
  BY <1>2, FS_Product
<1>4. /\ \A S \in SUBSET Task : IsFiniteSet(S)
      /\ \A f : IsFiniteSet(Wakeups(f))
  BY <1>1, <1>2, <1>3, FS_Subset
<1> QED BY <1>4, FS_CardinalityType

(* The wakeups of t are as many as f[t].                                   *)
LEMMA WakeupsSplit ==
  ASSUME NEW f \in [Task -> Nat], NEW t \in Task, f[t] <= MaxPost
  PROVE  LET rest == {w \in Task \X (1 .. MaxPost) : w[1] # t /\ w[2] <= f[w[1]]}
         IN Cardinality(rest) \in Nat /\ Cardinality(Wakeups(f)) = Cardinality(rest) + f[t]
<1> DEFINE rest == {w \in Task \X (1 .. MaxPost) : w[1] # t /\ w[2] <= f[w[1]]}
           n == f[t]
           own == {t} \X (1 .. n)
<1>1. rest \subseteq Wakeups(f) /\ IsFiniteSet(Wakeups(f))
  BY CountsType DEF Wakeups
<1>2. IsFiniteSet(rest) /\ Cardinality(rest) \in Nat
  BY <1>1, FS_Subset, FS_CardinalityType
<1>3. n \in Nat /\ MaxPost \in Nat /\ n <= MaxPost
  BY SemAssumption
<1>8. Wakeups(f) = rest \cup own
  BY <1>3 DEF Wakeups
<1>9. rest \cap own = {}
  OBVIOUS
<1> HIDE DEF rest, n
<1>4. IsFiniteSet(1 .. n) /\ Cardinality(1 .. n) = n
  <2>1. 1 \in Int /\ n \in Int
    BY <1>3
  <2>2. IsFiniteSet(1 .. n) /\ Cardinality(1 .. n) = IF 1 > n THEN 0 ELSE n - 1 + 1
    BY <2>1, FS_Interval, Zenon
  <2> QED BY <1>3, <2>2
<1>5. IsFiniteSet({t}) /\ Cardinality({t}) = 1
  BY FS_Singleton
<1>6. IsFiniteSet(own) /\ Cardinality(own) = Cardinality({t}) * Cardinality(1 .. n)
  BY <1>4, <1>5, FS_Product
<1>7. Cardinality(own) = n
  BY <1>3, <1>4, <1>5, <1>6
<1> HIDE DEF own
<1>10. Cardinality(rest \cup own) = Cardinality(rest) + Cardinality(own) - Cardinality(rest \cap own)
  BY <1>2, <1>6, FS_Union
<1>11. Cardinality(rest \cap own) = 0
  BY <1>9, FS_EmptySet
<1>12. Cardinality(Wakeups(f)) = Cardinality(rest) + n
  BY <1>2, <1>3, <1>7, <1>8, <1>10, <1>11
<1> QED BY <1>2, <1>12 DEF rest, n

(* Setting todo[t] to n changes the wakeups to be sent by the difference.  *)
LEMMA UnsentSet ==
  ASSUME todo \in [Task -> Nat], NEW t \in Task, todo[t] <= MaxPost, NEW n \in 0 .. MaxPost,
         todo' = [todo EXCEPT ![t] = n]
  PROVE  Unsent' = Unsent - todo[t] + n
<1> DEFINE Rest(f) == {w \in Task \X (1 .. MaxPost) : w[1] # t /\ w[2] <= f[w[1]]}
<1>1. todo' \in [Task -> Nat] /\ todo'[t] = n /\ n <= MaxPost /\ todo[t] \in Nat /\ n \in Nat
  BY SemAssumption
<1>2. Rest(todo') = Rest(todo)
  OBVIOUS
<1>3. /\ Cardinality(Rest(todo)) \in Nat
      /\ Cardinality(Wakeups(todo)) = Cardinality(Rest(todo)) + todo[t]
  BY WakeupsSplit
<1>4. Cardinality(Wakeups(todo')) = Cardinality(Rest(todo')) + todo'[t]
  BY <1>1, WakeupsSplit
<1>5. Unsent = Cardinality(Wakeups(todo)) /\ Unsent' = Cardinality(Wakeups(todo'))
  BY DEF Unsent, Wakeups
<1> HIDE DEF Rest
<1> QED BY <1>1, <1>2, <1>3, <1>4, <1>5

(* How one task that joins or leaves a set changes its size.               *)
LEMMA SetSizes ==
  ASSUME NEW S \in SUBSET Task, NEW T \in SUBSET Task, NEW t
  PROVE  /\ S \subseteq T => Cardinality(S) <= Cardinality(T)
         /\ S \ {t} \subseteq T => Cardinality(S) <= Cardinality(T) + 1
         /\ S \subseteq T /\ t \in T \ S => Cardinality(S) + 1 <= Cardinality(T)
<1>1. /\ IsFiniteSet(S) /\ IsFiniteSet(T) /\ IsFiniteSet(S \ {t}) /\ IsFiniteSet(S \cup {t})
      /\ Cardinality(S) \in Nat /\ Cardinality(T) \in Nat
      /\ Cardinality(S \ {t}) \in Nat
  BY CountsType, FS_AddElement, FS_RemoveElement, FS_CardinalityType
<1>2. S \subseteq T => Cardinality(S) <= Cardinality(T)
  BY <1>1, FS_Subset
<1>3. S \ {t} \subseteq T => Cardinality(S \ {t}) <= Cardinality(T)
  BY <1>1, FS_Subset
<1>4. Cardinality(S) <= Cardinality(S \ {t}) + 1
  <2>1. Cardinality(S \ {t}) = IF t \in S THEN Cardinality(S) - 1 ELSE Cardinality(S)
    BY <1>1, FS_RemoveElement
  <2> QED BY <1>1, <2>1
<1>5. ASSUME S \subseteq T, t \in T \ S
      PROVE  Cardinality(S) + 1 <= Cardinality(T)
  <2>1. S \cup {t} \subseteq T
    BY <1>5
  <2>2. Cardinality(S \cup {t}) <= Cardinality(T)
    BY <1>1, <2>1, FS_Subset
  <2>3. Cardinality(S \cup {t}) = Cardinality(S) + 1
    BY <1>1, <1>5, FS_AddElement
  <2> QED BY <2>2, <2>3
<1> QED BY <1>1, <1>2, <1>3, <1>4, <1>5

(* The sizes that Announced adds up, before and after a step.              *)
LEMMA Sizes ==
  /\ Holding \in SUBSET Task /\ Holding' \in SUBSET Task
  /\ Cardinality(Holding) \in Nat /\ Cardinality(Holding') \in Nat
  /\ Unsent \in Nat /\ Unsent' \in Nat
<1>1. Holding \in SUBSET Task /\ Holding' \in SUBSET Task
  BY DEF Holding
<1>2. Unsent = Cardinality(Wakeups(todo)) /\ Unsent' = Cardinality(Wakeups(todo'))
  BY DEF Unsent, Wakeups
<1> QED BY <1>1, <1>2, CountsType

(* A step that makes no task listen and pays for each ticket it adds keeps *)
(* Announced, and so does one after which there is no ticket.              *)
LEMMA Account ==
  ASSUME TypeOK, TypeOK', Announced,
         \/ ~ Listening'
         \/ sem_tickets' <= lost'
         \/ /\ Listening
            /\ sem_tickets' + Cardinality(Holding) + Unsent + lost
                 <= sem_tickets + Cardinality(Holding') + Unsent' + lost'
  PROVE  Announced'
<1>1. sem_tickets \in Nat /\ sem_tickets' \in Nat /\ lost \in Nat /\ lost' \in Nat
  BY SemAssumption DEF TypeOK
<1>2. sem_tickets' <= lost' => Announced'
  BY <1>1, Sizes DEF Announced
<1>3. ASSUME Listening,
             sem_tickets' + Cardinality(Holding) + Unsent + lost
               <= sem_tickets + Cardinality(Holding') + Unsent' + lost'
      PROVE  Announced'
  <2>1. sem_tickets <= Cardinality(Holding) + Unsent + lost
    BY <1>3 DEF Announced
  <2>2. sem_tickets' <= Cardinality(Holding') + Unsent' + lost'
    BY <1>1, <1>3, <2>1, Sizes
  <2> QED BY <2>2 DEF Announced
<1>4. ~ Listening' => Announced'
  BY DEF Announced
<1> QED BY <1>2, <1>3, <1>4

(* The same, for a step that leaves the tickets, wakeups and losses alone. *)
LEMMA Quiet ==
  ASSUME TypeOK, TypeOK', Announced, Listening' => Listening, Holding \subseteq Holding',
         UNCHANGED <<sem_tickets, todo, lost>>
  PROVE  Announced'
<1>1. Cardinality(Holding) <= Cardinality(Holding') /\ Unsent' = Unsent
  BY Sizes, SetSizes DEF Unsent
<1>2. sem_tickets \in Nat /\ lost \in Nat
  BY SemAssumption DEF TypeOK
<1>3. sem_tickets' + Cardinality(Holding) + Unsent + lost
        <= sem_tickets + Cardinality(Holding') + Unsent' + lost'
  BY <1>1, <1>2, Sizes
<1> QED BY <1>3, Account

(* A task that discards the signal it holds is entered in `lost' instead.  *)
LEMMA Discarded ==
  ASSUME TypeOK, TypeOK', TicketInv, Announced, Listening' => Listening, NEW t \in Task,
         Discard(t), pc[t] # "again",
         \A u \in Task : u # t => (u \in Holding <=> u \in Holding'),
         UNCHANGED <<sem_tickets, todo>>
  PROVE  Announced'
<1>1. /\ sem_tickets \in Nat /\ lost \in Nat /\ lost' \in Nat /\ MaxTickets \in Nat
      /\ lost <= MaxTickets /\ sem_tickets <= MaxTickets
  BY SemAssumption DEF TypeOK, TicketInv
<1>2. Unsent' = Unsent
  BY DEF Unsent
<1>3. CASE tcs_sig[t] = NoSig
  <2>1. Holding \subseteq Holding' /\ lost' = lost
    BY <1>3, Sizes DEF Holding, Discard
  <2> QED BY <2>1, Quiet
<1>4. CASE tcs_sig[t] # NoSig /\ lost < MaxTickets
  <2>1. Holding \ {t} \subseteq Holding'
    BY Sizes
  <2>2. Cardinality(Holding) <= Cardinality(Holding') + 1 /\ lost' = lost + 1
    BY <1>4, <2>1, Sizes, SetSizes DEF Discard
  <2>3. sem_tickets' + Cardinality(Holding) + Unsent + lost
          <= sem_tickets + Cardinality(Holding') + Unsent' + lost'
    BY <1>1, <1>2, <2>2, Sizes
  <2> QED BY <2>3, Account
<1>5. CASE tcs_sig[t] # NoSig /\ lost >= MaxTickets
  <2>1. sem_tickets' <= lost'
    BY <1>1, <1>5 DEF Discard
  <2> QED BY <2>1, Account
<1> QED BY <1>1, <1>3, <1>4, <1>5

-----------------------------------------------------------------------------
(* Every step keeps ChainInv and Announced: a task starts to listen only   *)
(* when it has seen no ticket, a turn of sig_send() that counts gives its  *)
(* wakeup to a task that will retry or discard it, and sig_send() stops    *)
(* short only when nobody hangs off the signal.                            *)
LEMMA AnnounceStep ==
  ASSUME SemInv, [Next]_vars
  PROVE  ChainInv' /\ Announced'
<1> DEFINE Inv == ChainInv /\ Announced
<1>i. TypeOK /\ TicketInv /\ ChainInv /\ Announced
  BY DEF SemInv
<1>n. TypeOK'
  BY <1>i, TypeStep DEF TicketInv
<1>t. /\ pc \in [Task -> PC] /\ todo \in [Task -> Nat] /\ count \in [Task -> Nat]
      /\ tcs_sig \in [Task -> Sig \cup {NoSig}]
      /\ sem_tickets \in Nat /\ lost \in Nat /\ {Initial, MaxPost, MaxTickets} \subseteq Nat
  BY <1>i, SemAssumption DEF TypeOK, SigTypeOK
<1>h. \A c \in Hanging : c.task \in Task
  BY <1>i, ChainType DEF TypeOK
<1>1. CASE UNCHANGED vars
  <2>1. ChainInv' /\ Hanging' = Hanging
    BY <1>1, <1>i, ChainQuiet DEF vars
  <2>2. Announced'
    BY <1>1, <1>i, <1>n, <2>1, Quiet DEF vars, Listening, Holding
  <2> QED BY <2>1, <2>2
<1>2. ASSUME NEW t \in Task, CallTryWait(t) \/ CallTimedWait(t)
      PROVE  Inv'
  <2>1. ChainInv' /\ Hanging' = Hanging
    BY <1>2, <1>i, <1>t, ChainQuiet DEF CallTryWait, CallTimedWait, sigVars, histVars, ConnPC
  <2>2. Listening' => Listening
    BY <1>2, <1>h, <1>t, <2>1 DEF CallTryWait, CallTimedWait, Listening
  <2>3. Holding \subseteq Holding'
    BY <1>2, <1>t DEF CallTryWait, CallTimedWait, sigVars, Holding
  <2> QED
    BY <1>2, <1>i, <1>n, <2>1, <2>2, <2>3, Quiet DEF CallTryWait, CallTimedWait, semVars, histVars
<1>3. ASSUME NEW t \in Task, Attempt(t)
      PROVE  Inv'
  <2>1. UNCHANGED <<chain, tcs_sig, todo, lost, raced>>
    BY <1>3 DEF Attempt, TryWait, sigVars, semVars, histVars
  <2>2. ChainInv' /\ Hanging' = Hanging
    <3>1. \A u \in Task : pc[u] \in ConnPC <=> pc'[u] \in ConnPC
      BY <1>3, <1>t DEF Attempt, TryWait, ConnPC
    <3> QED BY <1>i, <2>1, <3>1, ChainQuiet
  <2>3. CASE sem_tickets' = 0
    BY <1>i, <1>n, <1>t, <2>1, <2>2, <2>3, Account
  <2>4. CASE UNCHANGED <<pc, sem_tickets>>
    <3>1. Listening' => Listening
      BY <2>2, <2>4 DEF Listening
    <3>2. Holding \subseteq Holding'
      BY <2>1, <2>4 DEF Holding
    <3> QED BY <1>i, <1>n, <2>1, <2>2, <2>4, <3>1, <3>2, Quiet
  <2>5. CASE sem_tickets' = sem_tickets - 1 /\ (GoTo(t, "run") \/ GoTo(t, "drop"))
    <3>1. Listening' => Listening
      BY <1>h, <1>t, <2>2, <2>5 DEF Listening
    <3>2. Holding \ {t} \subseteq Holding'
      BY <1>t, <2>1, <2>5 DEF Holding
    <3>3. Cardinality(Holding) <= Cardinality(Holding') + 1 /\ Unsent' = Unsent
      BY <2>1, <3>2, Sizes, SetSizes DEF Unsent
    <3>4. sem_tickets' + Cardinality(Holding) + Unsent + lost
            <= sem_tickets + Cardinality(Holding') + Unsent' + lost'
      BY <1>t, <2>1, <2>5, <3>3, Sizes
    <3> QED BY <1>i, <1>n, <2>2, <3>1, <3>4, Account
  <2> QED
    <3>1. \/ sem_tickets' = 0
          \/ UNCHANGED <<pc, sem_tickets>>
          \/ sem_tickets' = sem_tickets - 1 /\ (GoTo(t, "run") \/ GoTo(t, "drop"))
      BY <1>3 DEF Attempt, TryWait, semVars
    <3> QED BY <2>3, <2>4, <2>5, <3>1
<1>4. ASSUME NEW t \in Task, TimedWaitConnect(t)
      PROVE  Inv'
  <2>1. /\ ChainInv' /\ UNCHANGED tcs_sig
        /\ Hanging' = Hanging \cup {[task |-> t, ghost |-> FALSE]}
    BY <1>4, <1>i, ChainConnect
  <2>2. Listening' => Listening
    BY <1>4, <1>h, <1>t, <2>1 DEF TimedWaitConnect, Listening
  <2>3. Holding \subseteq Holding'
    BY <1>4, <1>t, <2>1 DEF TimedWaitConnect, Holding
  <2> QED BY <1>4, <1>i, <1>n, <2>1, <2>2, <2>3, Quiet DEF TimedWaitConnect, semVars, histVars
<1>5. ASSUME NEW t \in Task, Disconnect(t), GoTo(t, "run"), Discard(t),
             pc[t] \in ConnPC, UNCHANGED semVars
      PROVE  Inv'
  <2>1. /\ ChainInv' /\ Hanging' = {c \in Hanging : c.task # t}
        /\ tcs_sig' = [tcs_sig EXCEPT ![t] = NoSig]
    BY <1>5, <1>i, ChainDisconnect DEF PC, ConnPC, Discard
  <2>2. Listening' => Listening
    BY <1>5, <1>h, <1>t, <2>1 DEF Listening
  <2>3. \A u \in Task : u # t => (u \in Holding <=> u \in Holding')
    BY <1>5, <1>t, <2>1 DEF Holding
  <2> QED BY <1>5, <1>i, <1>n, <2>1, <2>2, <2>3, Discarded DEF ConnPC, semVars
<1>6. ASSUME NEW t \in Task, TimedWaitDrop(t)
      PROVE  Inv'
  BY <1>5, <1>6 DEF TimedWaitDrop, ConnPC
<1>7. ASSUME NEW t \in Task, Wait(t)
      PROVE  Inv'
  <2>1. CASE WaitLoop(t) /\ UNCHANGED histVars
    <3>1. UNCHANGED <<chain, tcs_sig, sem_tickets, todo, lost, raced>>
      BY <1>7, <2>1
      DEF Wait, WaitLoop, WaitTimeout, WaitServe, ServeCallbacks, ServeDone, ServeThrow, sigVars,
          semVars, histVars, RelocateConnections, CopySignal, PopConnections
    <3>2. \E l \in {"timeout", "throw", "wait", "push", "serve"} :
             GoTo(t, l) /\ pc[t] \in {"wait", "push", "serve"}
      BY <2>1 DEF WaitLoop, WaitTimeout, WaitServe, ServeCallbacks, ServeDone, ServeThrow
    <3>3. ChainInv' /\ Hanging' = Hanging
      BY <1>i, <1>t, <3>1, <3>2, ChainQuiet DEF ConnPC
    <3>4. Listening' => Listening
      BY <1>h, <1>t, <3>2, <3>3 DEF Listening
    <3>5. Holding \subseteq Holding'
      BY <1>t, <3>1, <3>2 DEF Holding
    <3> QED BY <1>i, <1>n, <3>1, <3>3, <3>4, <3>5, Quiet
  <2>2. CASE WaitSignaled(t, "again") /\ UNCHANGED histVars
    <3>1. /\ pc[t] = "wait" /\ Disconnect(t) /\ GoTo(t, "again")
          /\ UNCHANGED <<sem_tickets, todo, lost, raced>>
      BY <1>7, <2>2 DEF WaitSignaled, Wait, semVars, histVars
    <3>2. /\ ChainInv' /\ Hanging' = {c \in Hanging : c.task # t}
          /\ tcs_sig' = [tcs_sig EXCEPT ![t] = NoSig]
      BY <1>i, <3>1, ChainDisconnect DEF PC, ConnPC
    <3>3. Listening' => Listening
      BY <1>h, <1>t, <3>1, <3>2 DEF Listening
    <3>4. Holding \subseteq Holding'
      BY <1>t, <3>1, <3>2 DEF Holding
    <3> QED BY <1>i, <1>n, <3>1, <3>2, <3>3, <3>4, Quiet
  <2>3. CASE WaitFailed(t, "run") /\ Discard(t)
    BY <1>5, <1>7, <2>3 DEF Wait, WaitFailed, ConnPC
  <2> QED BY <1>7, <2>1, <2>2, <2>3 DEF Wait
<1>8. ASSUME NEW t \in Task, Post(t)
      PROVE  Inv'
  <2>1. PICK n \in 1 .. MaxPost : sem_tickets' = sem_tickets + n /\ todo' = [todo EXCEPT ![t] = n]
    BY <1>8 DEF Post
  <2>2. ChainInv' /\ Hanging' = Hanging
    BY <1>8, <1>i, <1>t, ChainQuiet DEF Post, sigVars, histVars, ConnPC
  <2>3. Listening' => Listening
    BY <1>8, <1>h, <1>t, <2>2 DEF Post, Listening
  <2>4. Holding' = Holding /\ lost' = lost
    BY <1>8, <1>t DEF Post, sigVars, histVars, Holding
  <2>5. todo[t] = 0 /\ n \in 0 .. MaxPost /\ n \in Nat /\ todo[t] <= MaxPost
    BY <1>8, <1>i, <1>t DEF Post, TicketInv
  <2>6. Unsent' = Unsent - todo[t] + n
    BY <1>t, <2>1, <2>5, UnsentSet
  <2>7. sem_tickets' + Cardinality(Holding) + Unsent + lost
          <= sem_tickets + Cardinality(Holding') + Unsent' + lost'
    BY <1>t, <2>1, <2>4, <2>5, <2>6, Sizes
  <2> QED BY <1>i, <1>n, <2>2, <2>3, <2>7, Account
<1>9. ASSUME NEW t \in Task, pc[t] \in {"probe", "send"}, GoTo(t, "run"), UNCHANGED <<chain, tcs_sig, raced>>,
             chain[sem_signal] = <<>>
      PROVE  Inv'
  <2>1. ChainInv' /\ Hanging' = Hanging
    BY <1>9, <1>i, <1>t, ChainQuiet DEF ConnPC
  <2>2. ~ Listening'
    BY <1>9, <2>1, ConnsEmpty DEF Hanging, Listening
  <2> QED BY <1>i, <1>n, <2>1, <2>2, Account
<1>10. ASSUME NEW t \in Task, pc[t] \in {"probe", "send"}, GoTo(t, "run") \/ GoTo(t, "send"),
              UNCHANGED <<chain, tcs_sig, sem_tickets, todo, lost, raced>>
      PROVE  Inv'
  <2>1. ChainInv' /\ Hanging' = Hanging
    BY <1>10, <1>i, <1>t, ChainQuiet DEF ConnPC
  <2>2. Listening' => Listening
    BY <1>10, <1>h, <1>t, <2>1 DEF Listening
  <2>3. Holding \subseteq Holding'
    BY <1>10, <1>t DEF Holding
  <2> QED BY <1>10, <1>i, <1>n, <2>1, <2>2, <2>3, Quiet
<1>11. ASSUME NEW t \in Task, Probe(t)
       PROVE  Inv'
  <2>1. CASE chain[sem_signal] = <<>>
    BY <1>9, <1>11, <2>1 DEF Probe, sigVars, histVars
  <2>2. CASE chain[sem_signal] # <<>>
    BY <1>10, <1>11, <2>2 DEF Probe, sigVars, histVars
  <2> QED BY <2>1, <2>2
<1>12. ASSUME NEW t \in Task, Send(t)
       PROVE  Inv'
  <2>1. CASE chain[sem_signal] = <<>>
    BY <1>9, <1>12, <2>1 DEF Send, sigVars
  <2>2. CASE chain[sem_signal] # <<>> /\ todo[t] = 0
    <3>1. pc[t] = "send" /\ GoTo(t, "run") /\ UNCHANGED <<chain, tcs_sig, sem_tickets, lost, raced>>
          /\ todo' = [todo EXCEPT ![t] = 0]
      BY <1>12, <2>2 DEF Send, sigVars
    <3>2. todo' = todo
      BY <1>t, <2>2, <3>1
    <3> QED BY <1>10, <3>1, <3>2
  <2>3. CASE chain[sem_signal] # <<>> /\ todo[t] # 0
    <3>1. /\ SendOne(sem_signal) /\ UNCHANGED <<pc, sem_tickets, lost>>
          /\ todo' = IF WakeOk(sem_signal) THEN [todo EXCEPT ![t] = @ - 1] ELSE todo
          /\ raced' = raced \cup {u \in {Head(chain[sem_signal]).task} : saved[u] = "moving"}
      BY <1>12, <2>3 DEF Send
    <3>2. ChainInv' /\ Hanging' \subseteq Hanging
      BY <1>i, <3>1, ChainSend
    <3>3. Listening' => Listening
      BY <3>1, <3>2 DEF Listening
    <3>4. PICK u \in Task :
             /\ pc[u] \in ConnPC /\ tcs_sig[u] = NoSig
             /\ \/ tcs_sig' = [tcs_sig EXCEPT ![u] = sem_signal]
                \/ ~ WakeOk(sem_signal) /\ tcs_sig' = tcs_sig
      BY <1>i, <3>1, ChainSend
    <3>5. sem_signal # NoSig
      BY <1>i, ChainType, NoSigAssumption DEF TypeOK
    <3>6. CASE WakeOk(sem_signal)
      <4>1. Holding \subseteq Holding' /\ u \in Holding' \ Holding
        BY <1>t, <3>1, <3>4, <3>5, <3>6 DEF Holding, ConnPC
      <4>2. Cardinality(Holding) + 1 <= Cardinality(Holding')
        BY <4>1, Sizes, SetSizes
      <4>3. todo[t] - 1 \in 0 .. MaxPost /\ todo[t] \in Nat /\ todo[t] <= MaxPost
        BY <1>i, <1>t, <2>3 DEF TicketInv
      <4>4. Unsent' = Unsent - todo[t] + (todo[t] - 1)
        BY <1>t, <3>1, <3>6, <4>3, UnsentSet
      <4>5. sem_tickets' + Cardinality(Holding) + Unsent + lost
              <= sem_tickets + Cardinality(Holding') + Unsent' + lost'
        BY <1>t, <3>1, <4>2, <4>3, <4>4, Sizes
      <4> QED BY <1>i, <1>n, <3>2, <3>3, <4>5, Account
    <3>7. CASE ~ WakeOk(sem_signal)
      <4>1. Holding \subseteq Holding'
        BY <1>t, <3>1, <3>4, <3>5 DEF Holding
      <4> QED BY <1>i, <1>n, <3>1, <3>2, <3>3, <3>7, <4>1, Quiet
    <3> QED BY <3>6, <3>7
  <2> QED BY <2>1, <2>2, <2>3
<1> QED
  BY <1>1, <1>2, <1>3, <1>4, <1>6, <1>7, <1>8, <1>11, <1>12
  DEF Next, Step, Attempt, TryWaitAlone, TimedWaitAgain, TimedWaitPoll, TimedWaitRecheck

(* Initially nobody is in a call.                                          *)
LEMMA InitInv ==
  ASSUME Init
  PROVE  SemInv
<1>1. TypeOK
  BY SemAssumption DEF Init, SigInit, TypeOK, SigTypeOK, PC
<1>2. chain[sem_signal] = <<>>
  BY SemAssumption DEF Init, SigInit, sem_signal
<1>3. Hanging = {} /\ OncePerTask(chain[sem_signal])
  BY <1>2, ConnsEmpty DEF Hanging
<1>4. ChainInv /\ Announced
  BY <1>3 DEF Init, SigInit, ChainInv, ConnPC, Announced, Listening
<1>5. TicketInv
  BY SemAssumption DEF Init, TicketInv, TicketsConserved
<1> QED BY <1>1, <1>4, <1>5 DEF SemInv

(* SemInv is inductive.                                                    *)
LEMMA SemStep ==
  ASSUME SemInv, [Next]_vars
  PROVE  SemInv'
BY TypeStep, TicketStep, AnnounceStep DEF SemInv, TicketInv

(* A task that holds a signal is about to try for a ticket or to discard   *)
(* the signal, and a task that sleeps and lost no signal listens.          *)
LEMMA SemInvImplies ==
  ASSUME SemInv
  PROVE  EveryTicketAnnounced
<1> DEFINE Users == {u \in Task : Trying(u) \/ Discarding(u)}
<1>1. TypeOK /\ ChainInv /\ Announced
  BY DEF SemInv
<1>2. Holding \subseteq Users
  BY <1>1 DEF Holding, Trying, Discarding, ChainInv, ConnPC
<1>3. Cardinality(Holding) <= Cardinality(Users) /\ Cardinality(Users) \in Nat
  BY <1>2, Sizes, SetSizes, CountsType
<1>4. (\E t \in Task \ raced : Asleep(t)) => Listening
  <2> SUFFICES ASSUME NEW t \in Task \ raced, Asleep(t) PROVE Listening
    OBVIOUS
  <2>1. PICK c \in Hanging : c.task = t
    BY <1>1 DEF Asleep, ChainInv, ConnPC, Hangs
  <2> QED BY <2>1 DEF Asleep, Listening
<1>5. sem_tickets \in Nat /\ lost \in Nat
  BY <1>1, SemAssumption DEF TypeOK
<1> HIDE DEF Users
<1>6. Listening => sem_tickets <= Cardinality(Users) + Unsent + lost
  BY <1>1, <1>3, <1>5, Sizes DEF Announced
<1> QED BY <1>4, <1>6 DEF EveryTicketAnnounced, Users

(* The tickets available are those made available minus those acquired,    *)
(* for any number of tasks that race in sem_trywait() and sem_post().      *)
THEOREM Conservation == Spec => [](TypeOK /\ TicketsConserved)
<1>1. SemInv => TypeOK /\ TicketsConserved
  BY DEF SemInv, TicketInv
<1> QED BY <1>1, InitInv, SemStep, PTL DEF Spec

(* While anybody sleeps in sem_timedwait() who did not lose a signal to    *)
(* task_push_connections(), every available ticket has a task that will    *)
(* try for it, a wakeup on its way or a signal that its receiver           *)
(* discarded, for any number of tasks, timeouts and callbacks.             *)
THEOREM TicketsAnnounced == Spec => []EveryTicketAnnounced
<1>1. SemInv => EveryTicketAnnounced
  BY SemInvImplies
<1> QED BY <1>1, InitInv, SemStep, PTL DEF Spec
=============================================================================
