---------------------------- MODULE RWLockProofs ----------------------------
(***************************************************************************)
(* The R/W-lock excludes, counts and wakes - for every number of tasks and *)
(* any depth of recursion - as long as its callers stay with the calls     *)
(* that keep a descriptor only for the locks they have.                    *)
(***************************************************************************)
EXTENDS RWLock, TaskSignalProofs

(* A leaf is proved by Zenon unless it names another prover; the limits    *)
(* are generous since they are of wall-clock time.                         *)
USE ZenonT(60)

(* Nobody converts a lock, polls it, or waits with callbacks that throw:   *)
(* the runs on MCRWLock_convert and MCRWLock_downgrade show what happens   *)
(* otherwise, as does a descriptor that rwlock_poll() or an exception      *)
(* leaves behind.                                                          *)
PlainUse ==
  Upgrader = {} /\ Downgrader = {} /\ Poller = {} /\ Interruptible = {}

-----------------------------------------------------------------------------
(* The inductive invariant.                                                *)
(***************************************************************************)

(* t has a write-lock: more locks than its descriptor counts. *)
Wrote(t) == rl_recursion[t] < Len(locks[t])

(* t set write-mode, and has not left it yet. *)
Taking == {"owner", "udrop", "endwrite"}
Excludes(t) == pc[t] \in Taking \/ Wrote(t)

(* t is one of the threads that rw_scnt counts, unless it is upgrading. *)
Counted(t) == rl_recursion[t] > 0 \/ pc[t] = "rdrop"
Readers == {t \in Task : Counted(t)}

(* t set upgrade-mode, and has not left it yet. *)
Upgrading(t) == op[t] = "unshare" /\ pc[t] \notin {"owner", "udrop"}

Waits == {"connect", "wait", "push", "serve", "timeout"}

(* Where a task may be inside each of the calls. *)
Control(l, o) ==
  \/ o = "read" /\ l \in {"racquire", "rcheck", "rdrop"} \cup Waits
  \/ o = "write" /\ l \in {"wagain", "wpoll", "wcheck", "wdrop", "owner"} \cup Waits
  \/ o = "unshare" /\ l \in {"upoll", "ucheck", "udrop", "revert", "owner"} \cup Waits
  \/ o = "none" /\ l \in {"run", "endwrite", "cprobe", "csend", "uprobe", "usend"}

ControlOf(t) == Control(pc[t], op[t])

(* The recursion of the descriptor counts the read-locks that are older    *)
(* than the first write-lock.                                              *)
LocksOf(t) ==
  /\ rl_recursion[t] <= Len(locks[t])
  /\ \A i \in 1 .. rl_recursion[t] : locks[t][i] = "r"
  /\ Wrote(t) => locks[t][rl_recursion[t] + 1] = "w"

(* A descriptor belongs to a reader, or to a call that is to become one.   *)
DescOf(t) ==
  /\ op[t] = "read" => locks[t] = <<>>
  /\ t \in desc <=> rl_recursion[t] > 0 \/ op[t] = "read"
  /\ t \in has <=> op[t] = "unshare" /\ rl_recursion[t] > 0
  /\ rw_xowner = t <=> Wrote(t)
  /\ pc[t] \in Taking => ~Wrote(t)

TaskInv(t) == ControlOf(t) /\ LocksOf(t) /\ DescOf(t)

(* The mode says who is there: at most one task that excludes or upgrades, *)
(* and nobody reads beside the one that excludes.                          *)
ModeInv ==
  /\ \A t \in Task : Excludes(t) => rw_mode = "writing"
  /\ \A t \in Task : Upgrading(t) => rw_mode = "upgrading"
  /\ rw_mode = "writing" => \E t \in Task : Excludes(t)
  /\ \A t, u \in Task : Excludes(t) /\ (Excludes(u) \/ Counted(u)) => t = u
  /\ \A t, u \in Task : Upgrading(t) /\ Upgrading(u) => t = u

CountInv ==
  /\ IsFiniteSet(Readers)
  /\ \A t \in Task :
       Excludes(t) => rw_ind = IF Wrote(t) THEN Len(locks[t]) - rl_recursion[t] ELSE 1
  /\ rw_mode # "writing" => rw_ind + Cardinality(has) = Cardinality(Readers)

(* What the counting needs to know of finite sets.  It is true of every    *)
(* state, and is shown where FiniteSetTheorems comes in, at the end.       *)
Sizes ==
  /\ IsFiniteSet({}) /\ Cardinality({}) = 0 /\ \A x : Cardinality({x}) = 1
  /\ \A S : IsFiniteSet(S) =>
       /\ Cardinality(S) \in Nat
       /\ Cardinality(S) = 0 <=> S = {}
       /\ Cardinality(S) = 1 <=> \E x : S = {x}
  /\ \A S, x : IsFiniteSet(S) =>
       /\ IsFiniteSet(S \cup {x}) /\ IsFiniteSet(S \ {x})
       /\ Cardinality(S \cup {x}) = IF x \in S THEN Cardinality(S) ELSE Cardinality(S) + 1
       /\ Cardinality(S \ {x}) = IF x \in S THEN Cardinality(S) - 1 ELSE Cardinality(S)
  /\ \A S : IsFiniteSet(S) => \A T \in SUBSET S :
       /\ IsFiniteSet(T) /\ Cardinality(T) <= Cardinality(S)
       /\ Cardinality(S) = Cardinality(T) => S = T

RWInv ==
  /\ Sizes
  /\ TypeOK
  /\ \A t \in Task : TaskInv(t)
  /\ ModeInv
  /\ CountInv

-----------------------------------------------------------------------------
(* What the counters of the invariant say of the caller's locks.           *)
(***************************************************************************)

(* A task has a write-lock exactly when it has more locks than its         *)
(* descriptor counts.                                                      *)
LEMMA WroteRange ==
  ASSUME TypeOK, NEW t \in Task, LocksOf(t)
  PROVE  "w" \in Range(locks[t]) <=> Wrote(t)
<1>1. locks[t] \in Seq({"r", "w"}) /\ rl_recursion[t] \in Nat
  BY SMTT(60) DEF TypeOK
<1> DEFINE q == locks[t]
           n == rl_recursion[t]
<1>2. DOMAIN q = 1 .. Len(q) /\ Len(q) \in Nat
  BY <1>1, SMTT(60)
<1>3. (\A i \in 1 .. n : q[i] = "r") /\ (n < Len(q) => q[n + 1] = "w")
  BY SMTT(60) DEF LocksOf, Wrote
<1>4. "w" \in Range(q) <=> \E i \in 1 .. Len(q) : q[i] = "w"
  BY <1>2 DEF Range
<1> HIDE DEF q, n
<1>5. n \in Nat
  BY <1>1, SMTT(60) DEF n
<1>6. (\E i \in 1 .. Len(q) : q[i] = "w") <=> n < Len(q)
  BY <1>2, <1>3, <1>5, SMTT(60)
<1> QED BY <1>4, <1>6, SMTT(60) DEF Wrote, q, n

-----------------------------------------------------------------------------
(* One task moves: what the others have stays.                             *)
(***************************************************************************)
Others(t) ==
  \A u \in Task \ {t} :
    /\ pc'[u] = pc[u] /\ op'[u] = op[u]
    /\ rl_recursion'[u] = rl_recursion[u] /\ locks'[u] = locks[u]
    /\ u \in desc' <=> u \in desc
    /\ u \in has' <=> u \in has
    /\ rw_xowner' = u <=> rw_xowner = u

(* What the invariant says of the types of one task's counters.            *)
LEMMA TaskTypes ==
  ASSUME TypeOK, NEW t \in Task
  PROVE  /\ rl_recursion[t] \in Nat /\ rw_ind \in Nat
         /\ locks[t] \in Seq({"r", "w"}) /\ Len(locks[t]) \in Nat
         /\ DOMAIN locks[t] = 1 .. Len(locks[t])
<1>1. rl_recursion[t] \in Nat /\ rw_ind \in Nat /\ locks[t] \in Seq({"r", "w"})
  BY SMTT(60) DEF TypeOK
<1> QED BY <1>1, SMTT(60)

-----------------------------------------------------------------------------
(* The steps of the calls.                                                 *)
(***************************************************************************)

(* Outside of write-mode all the locks of a task are read-locks.           *)
LEMMA NotWrote ==
  ASSUME RWInv, NEW t \in Task, ~Wrote(t)
  PROVE  /\ rl_recursion[t] = Len(locks[t])
         /\ rl_recursion[t] = 0 => locks[t] = <<>>
<1>1. /\ rl_recursion[t] \in Nat /\ Len(locks[t]) \in Nat /\ locks[t] \in Seq({"r", "w"})
  BY TaskTypes DEF RWInv
<1>2. rl_recursion[t] <= Len(locks[t]) /\ ~(rl_recursion[t] < Len(locks[t]))
  BY DEF RWInv, TaskInv, LocksOf, Wrote
<1>3. rl_recursion[t] = Len(locks[t])
  BY <1>1, <1>2, SMTT(60)
<1>4. Len(locks[t]) = 0 => locks[t] = <<>>
  BY <1>1, SMTT(60)
<1> QED BY <1>3, <1>4

-----------------------------------------------------------------------------
(* The actions of the specification, each as one of those steps.           *)
(***************************************************************************)
Op == {"none", "read", "write", "unshare", "upgrade"}

(* The step of t that leaves it at label l inside of call o, with n on its *)
(* descriptor and the locks q.                                             *)
Move(t, l, o, n, q) ==
  /\ pc' = [pc EXCEPT ![t] = l]
  /\ op' = [op EXCEPT ![t] = o]
  /\ rl_recursion' = [rl_recursion EXCEPT ![t] = n]
  /\ locks' = [locks EXCEPT ![t] = q]
  /\ desc' \ {t} = desc \ {t}
  /\ has' \ {t} = has \ {t}
  /\ \A u \in Task \ {t} : rw_xowner' = u <=> rw_xowner = u

(* A function that stays as it is, seen as one that is assigned to. *)
LEMMA Unmoved ==
  ASSUME NEW S, NEW T, NEW f \in [S -> T], NEW x \in S
  PROVE  f = [f EXCEPT ![x] = f[x]] /\ f[x] \in T
BY SMTT(60)

(* ... as the ones of a task do that a step leaves alone.                  *)
LEMMA StillThere ==
  ASSUME TypeOK, NEW t \in Task
  PROVE  /\ pc = [pc EXCEPT ![t] = pc[t]] /\ pc[t] \in PC
         /\ op = [op EXCEPT ![t] = op[t]] /\ op[t] \in Op
         /\ rl_recursion = [rl_recursion EXCEPT ![t] = rl_recursion[t]]
         /\ locks = [locks EXCEPT ![t] = locks[t]]
         /\ rl_recursion[t] \in Nat /\ locks[t] \in Seq({"r", "w"})
<1>1. pc \in [Task -> PC] /\ op \in [Task -> Op]
  BY DEF TypeOK, Op
<1>2. rl_recursion \in [Task -> Nat] /\ locks \in [Task -> Seq({"r", "w"})]
  BY DEF TypeOK
<1> QED BY <1>1, <1>2, Unmoved

(* What the labels of a call tell of the call. *)
LEMMA Labels ==
  ASSUME RWInv, NEW t \in Task
  PROVE  /\ pc[t] \in {"racquire", "rcheck", "rdrop"} => op[t] = "read"
         /\ pc[t] \in {"wagain", "wpoll", "wcheck", "wdrop"} => op[t] = "write"
         /\ pc[t] \in {"upoll", "ucheck", "udrop", "revert"} => op[t] = "unshare"
         /\ pc[t] \in {"endwrite", "cprobe", "csend", "uprobe", "usend"} => op[t] = "none"
         /\ pc[t] \in Waits \cup {"owner"} => op[t] \in {"read", "write", "unshare"}
         /\ pc[t] = "owner" => op[t] # "read"
         /\ pc[t] \notin {"throw", "pcheck", "pwait"}
<1>1. Control(pc[t], op[t])
  BY DEF RWInv, TaskInv, ControlOf
<1>2. PICK l, o : l = pc[t] /\ o = op[t]
  OBVIOUS
<1>3. Control(l, o)
  BY <1>1, <1>2
<1>4. /\ l \in {"racquire", "rcheck", "rdrop"} => o = "read"
      /\ l \in {"wagain", "wpoll", "wcheck", "wdrop"} => o = "write"
      /\ l \in {"upoll", "ucheck", "udrop", "revert"} => o = "unshare"
  BY <1>3, SMTT(60) DEF Control, Waits
<1>5. /\ l \in {"endwrite", "cprobe", "csend", "uprobe", "usend"} => o = "none"
      /\ l \in Waits \cup {"owner"} => o \in {"read", "write", "unshare"}
      /\ l = "owner" => o # "read"
      /\ l \notin {"throw", "pcheck", "pwait"}
  BY <1>3, SMTT(60) DEF Control, Waits
<1> QED BY <1>2, <1>4, <1>5

(* Everything but label and signals stays as it is. *)
Stays == UNCHANGED <<state, rw_xowner, reads, call, locks>>

-----------------------------------------------------------------------------
(* The invariant holds.                                                    *)
(***************************************************************************)

(* Nobody has the lock at first.                                           *)
LEMMA InitRW == Sizes /\ Init => RWInv
<1> SUFFICES ASSUME Sizes, Init PROVE RWInv
  OBVIOUS
<1>1. TypeOK
  <2>1. SigTypeOK
    BY SMTT(60) DEF Init, SigInit, SigTypeOK
  <2>2. /\ pc \in [Task -> PC] /\ rl_recursion \in [Task -> Nat]
        /\ op \in [Task -> {"none", "read", "write", "unshare", "upgrade"}]
        /\ locks \in [Task -> Seq({"r", "w"})] /\ rw_ind \in Nat
    BY SMTT(60) DEF Init, PC
  <2> QED BY <2>1, <2>2 DEF Init, TypeOK
<1>2. ASSUME NEW t \in Task
      PROVE  /\ pc[t] = "run" /\ op[t] = "none" /\ rl_recursion[t] = 0 /\ locks[t] = <<>>
             /\ rw_xowner # t /\ ~Wrote(t) /\ ~Excludes(t) /\ ~Counted(t) /\ ~Upgrading(t)
  <2>1. /\ pc[t] = "run" /\ op[t] = "none" /\ rl_recursion[t] = 0 /\ locks[t] = <<>>
        /\ rw_xowner # t
    BY RWLockAssumption DEF Init
  <2>2. ~Wrote(t) /\ ~(rl_recursion[t] > 0)
    BY <2>1, SMTT(60) DEF Wrote
  <2> QED BY <2>1, <2>2 DEF Excludes, Taking, Counted, Upgrading
<1>3. ASSUME NEW t \in Task PROVE TaskInv(t)
  <2>1. ControlOf(t)
    BY <1>2 DEF ControlOf, Control
  <2>2. LocksOf(t)
    BY <1>2, SMTT(60) DEF LocksOf
  <2>3. DescOf(t)
    <3>1. ~(rl_recursion[t] > 0)
      BY <1>2 DEF Counted
    <3>2. desc = {} /\ has = {}
      BY DEF Init
    <3> QED BY <1>2, <3>1, <3>2 DEF DescOf
  <2> QED BY <2>1, <2>2, <2>3 DEF TaskInv
<1>4. ModeInv
  <2>1. rw_mode # "writing"
    BY DEF Init
  <2> QED BY <1>2, <2>1 DEF ModeInv
<1>5. CountInv
  <2>1. Readers = {}
    BY <1>2 DEF Readers
  <2>2. IsFiniteSet({}) /\ Cardinality({}) = 0
    BY DEF Sizes
  <2>3. rw_ind + Cardinality(has) = Cardinality(Readers)
    BY <2>1, <2>2, SMTT(60) DEF Init
  <2>4. \A t \in Task : ~Excludes(t)
    BY <1>2
  <2> QED BY <2>1, <2>2, <2>3, <2>4 DEF CountInv
<1> QED BY <1>1, <1>3, <1>4, <1>5 DEF RWInv

(* The calls that convert or poll a lock are not made.                     *)
LEMMA NotMade ==
  ASSUME RWInv, PlainUse, NEW t \in Task
  PROVE  /\ ~Upgrade(t) /\ ~Downgrade(t) /\ ~PollConnect(t)
         /\ ~PollCheck(t) /\ ~PollWait(t)
<1>1. pc[t] \notin {"pcheck", "pwait"}
  BY Labels
<1> QED BY <1>1 DEF PlainUse, Upgrade, Downgrade, PollConnect, PollCheck, PollWait

(* Every step of readers and writers keeps RWInv.                          *)
LEMMA RWStep == PlainUse /\ RWInv /\ [Next]_vars => RWInv'
(* What the invariant says of another task, it still says after the step.  *)
<1>OthersKept.
  ASSUME NEW t \in Task, Others(t), NEW u \in Task, u # t
  PROVE  /\ Wrote(u)' <=> Wrote(u)
         /\ Excludes(u)' <=> Excludes(u)
         /\ Counted(u)' <=> Counted(u)
         /\ Upgrading(u)' <=> Upgrading(u)
         /\ TaskInv(u) => TaskInv(u)'
  <2> USE <1>OthersKept
  <2>1. /\ pc'[u] = pc[u] /\ op'[u] = op[u]
        /\ rl_recursion'[u] = rl_recursion[u] /\ locks'[u] = locks[u]
        /\ u \in desc' <=> u \in desc
        /\ u \in has' <=> u \in has
        /\ rw_xowner' = u <=> rw_xowner = u
    BY DEF Others
  <2>2. Wrote(u)' <=> Wrote(u)
    BY <2>1 DEF Wrote
  <2>3. Excludes(u)' <=> Excludes(u)
    BY <2>1, <2>2 DEF Excludes, Taking
  <2>4. Counted(u)' <=> Counted(u)
    BY <2>1 DEF Counted
  <2>5. Upgrading(u)' <=> Upgrading(u)
    BY <2>1 DEF Upgrading
  <2>6. ControlOf(u)' <=> ControlOf(u)
    BY <2>1 DEF ControlOf, Control, Waits
  <2>7. LocksOf(u)' <=> LocksOf(u)
    BY <2>1, <2>2 DEF LocksOf
  <2>8. DescOf(u)' <=> DescOf(u)
    BY <2>1, <2>2 DEF DescOf, Taking
  <2> QED BY <2>2, <2>3, <2>4, <2>5, <2>6, <2>7, <2>8 DEF TaskInv
(* The mode still says who is there, if it does for the task that moves.   *)
<1>ModeStep.
  ASSUME ModeInv, NEW t \in Task, Others(t),
         Excludes(t)' => rw_mode' = "writing",
         Upgrading(t)' => rw_mode' = "upgrading",
         rw_mode' = "writing" => Excludes(t)' \/ (rw_mode = "writing" /\ ~Excludes(t)),
         \A u \in Task \ {t} :
           /\ Excludes(u) => rw_mode' = "writing" /\ ~Excludes(t)' /\ ~Counted(t)'
           /\ Upgrading(u) => rw_mode' = "upgrading" /\ ~Upgrading(t)'
           /\ Counted(u) => ~Excludes(t)'
  PROVE  ModeInv'
  <2> USE <1>ModeStep
  <2>1. ASSUME NEW u \in Task \ {t}
        PROVE  /\ Excludes(u)' <=> Excludes(u)
               /\ Counted(u)' <=> Counted(u)
               /\ Upgrading(u)' <=> Upgrading(u)
    BY <1>OthersKept
  <2>2. ASSUME NEW u \in Task, Excludes(u)' PROVE rw_mode' = "writing"
    BY <2>1, <2>2
  <2>3. ASSUME NEW u \in Task, Upgrading(u)' PROVE rw_mode' = "upgrading"
    BY <2>1, <2>3
  <2>4. ASSUME rw_mode' = "writing" PROVE \E u \in Task : Excludes(u)'
    <3>1. CASE Excludes(t)'
      BY <3>1
    <3>2. CASE rw_mode = "writing" /\ ~Excludes(t)
      <4>1. PICK u \in Task : Excludes(u)
        BY <3>2 DEF ModeInv
      <4>2. Excludes(u)'
        BY <4>1, <3>2, <2>1
      <4> QED BY <4>2
    <3> QED BY <2>4, <3>1, <3>2
  <2>5. ASSUME NEW u \in Task, NEW v \in Task, Excludes(u)', Excludes(v)' \/ Counted(v)'
        PROVE  u = v
    <3>1. CASE u # t /\ v # t
      <4>1. Excludes(u) /\ (Excludes(v) \/ Counted(v))
        BY <3>1, <2>1, <2>5
      <4> QED BY <4>1 DEF ModeInv
    <3>2. CASE u = t /\ v # t
      <4>1. Excludes(v) \/ Counted(v)
        BY <3>2, <2>1, <2>5
      <4> QED BY <4>1, <3>2, <2>5
    <3>3. CASE u # t /\ v = t
      <4>1. Excludes(u)
        BY <3>3, <2>1, <2>5
      <4> QED BY <4>1, <3>3, <2>5
    <3> QED BY <3>1, <3>2, <3>3
  <2>6. ASSUME NEW u \in Task, NEW v \in Task, Upgrading(u)', Upgrading(v)'
        PROVE  u = v
    <3>1. CASE u # t /\ v # t
      <4>1. Upgrading(u) /\ Upgrading(v)
        BY <3>1, <2>1, <2>6
      <4> QED BY <4>1 DEF ModeInv
    <3>2. CASE u = t /\ v # t
      <4>1. Upgrading(v)
        BY <3>2, <2>1, <2>6
      <4> QED BY <4>1, <3>2, <2>6
    <3>3. CASE u # t /\ v = t
      <4>1. Upgrading(u)
        BY <3>3, <2>1, <2>6
      <4> QED BY <4>1, <3>3, <2>6
    <3> QED BY <3>1, <3>2, <3>3
  <2> QED BY <2>2, <2>3, <2>4, <2>5, <2>6 DEF ModeInv
(* The upgrading thread that has a lock of its own is one of the readers.  *)
<1>HasReads.
  ASSUME RWInv
  PROVE  /\ has \subseteq Readers
         /\ IsFiniteSet(has)
         /\ Cardinality(has) \in Nat /\ Cardinality(Readers) \in Nat
  <2> USE <1>HasReads
  <2>1. has \subseteq Readers
    <3> SUFFICES ASSUME NEW t \in has PROVE t \in Readers
      BY SMTT(60)
    <3>1. t \in Task
      BY DEF RWInv, TypeOK
    <3>2. rl_recursion[t] > 0
      BY <3>1 DEF RWInv, TaskInv, DescOf
    <3> QED BY <3>1, <3>2 DEF Readers, Counted
  <2>2. IsFiniteSet(Readers)
    BY DEF RWInv, CountInv
  <2>3. IsFiniteSet(has)
    BY <2>1, <2>2 DEF RWInv, Sizes
  <2> QED BY <2>1, <2>2, <2>3 DEF RWInv, Sizes
(* The size of a set whose members stay the same but for one.              *)
<1>SizeChange.
  ASSUME Sizes, NEW S, NEW T, NEW x, IsFiniteSet(S), S \ {x} = T \ {x}
  PROVE  /\ IsFiniteSet(T)
         /\ x \in T /\ x \notin S => Cardinality(T) = Cardinality(S) + 1
         /\ x \notin T /\ x \in S => Cardinality(T) = Cardinality(S) - 1
         /\ (x \in T <=> x \in S) => T = S
  <2> USE <1>SizeChange
  <2>1. CASE x \in T
    <3>1. T = S \cup {x}
      BY <2>1
    <3>2. IsFiniteSet(S \cup {x}) /\ Cardinality(S \cup {x}) = IF x \in S THEN Cardinality(S) ELSE Cardinality(S) + 1
      BY DEF Sizes
    <3> QED BY <2>1, <3>1, <3>2
  <2>2. CASE x \notin T
    <3>1. T = S \ {x}
      BY <2>2
    <3>2. IsFiniteSet(S \ {x}) /\ Cardinality(S \ {x}) = IF x \in S THEN Cardinality(S) - 1 ELSE Cardinality(S)
      BY DEF Sizes
    <3> QED BY <2>2, <3>1, <3>2
  <2> QED BY <2>1, <2>2
(* How a step of t changes the two sets that the counter rw_scnt is about. *)
<1>CountChange.
  ASSUME RWInv, TypeOK', NEW t \in Task, Others(t)
  PROVE  /\ IsFiniteSet(Readers')
         /\ (Counted(t)' /\ ~Counted(t)) => Cardinality(Readers') = Cardinality(Readers) + 1
         /\ (~Counted(t)' /\ Counted(t)) => Cardinality(Readers') = Cardinality(Readers) - 1
         /\ (Counted(t)' <=> Counted(t)) => Readers' = Readers
         /\ (t \in has' /\ t \notin has) => Cardinality(has') = Cardinality(has) + 1
         /\ (t \notin has' /\ t \in has) => Cardinality(has') = Cardinality(has) - 1
         /\ (t \in has' <=> t \in has) => has' = has
  <2> USE <1>CountChange
  <2>1. \A u \in Task \ {t} : Counted(u)' <=> Counted(u)
    BY <1>OthersKept
  <2>2. Readers \ {t} = Readers' \ {t}
    BY <2>1 DEF Readers
  <2>3. t \in Readers <=> Counted(t)
    BY DEF Readers
  <2>4. t \in Readers' <=> Counted(t)'
    BY DEF Readers
  <2>5. IsFiniteSet(Readers) /\ IsFiniteSet(has)
    BY <1>HasReads DEF RWInv, CountInv
  <2>6. has \subseteq Task /\ has' \subseteq Task
    BY DEF RWInv, TypeOK
  <2>7. has \ {t} = has' \ {t}
    BY <2>6 DEF Others
  <2>8. /\ IsFiniteSet(Readers')
        /\ (Counted(t)' /\ ~Counted(t)) => Cardinality(Readers') = Cardinality(Readers) + 1
        /\ (~Counted(t)' /\ Counted(t)) => Cardinality(Readers') = Cardinality(Readers) - 1
        /\ (Counted(t)' <=> Counted(t)) => Readers' = Readers
    BY <2>2, <2>3, <2>4, <2>5, <1>SizeChange DEF RWInv
  <2>9. /\ (t \in has' /\ t \notin has) => Cardinality(has') = Cardinality(has) + 1
        /\ (t \notin has' /\ t \in has) => Cardinality(has') = Cardinality(has) - 1
        /\ (t \in has' <=> t \in has) => has' = has
    BY <2>5, <2>7, <1>SizeChange DEF RWInv
  <2> QED BY <2>8, <2>9
(* The invariant after a step, from what the step does to the task t.      *)
<1>Combine.
  ASSUME RWInv, TypeOK', NEW t \in Task, Others(t), TaskInv(t)', ModeInv',
         Excludes(t)' => rw_ind' = IF Wrote(t)' THEN Len(locks'[t]) - rl_recursion'[t] ELSE 1,
         \A u \in Task \ {t} : Excludes(u) => rw_ind' = rw_ind,
         rw_mode' # "writing" => rw_ind' + Cardinality(has') = Cardinality(Readers')
  PROVE  RWInv'
  <2> USE <1>Combine
  <2>1. \A u \in Task : TaskInv(u)'
    BY <1>OthersKept DEF RWInv
  <2>2. ASSUME NEW u \in Task, Excludes(u)'
        PROVE  rw_ind' = IF Wrote(u)' THEN Len(locks'[u]) - rl_recursion'[u] ELSE 1
    <3>1. CASE u = t
      BY <2>2, <3>1
    <3>2. CASE u # t
      <4>1. Excludes(u) /\ (Wrote(u)' <=> Wrote(u))
        BY <2>2, <3>2, <1>OthersKept
      <4>2. rw_ind' = rw_ind /\ locks'[u] = locks[u] /\ rl_recursion'[u] = rl_recursion[u]
        BY <3>2, <4>1 DEF Others
      <4>3. rw_ind = IF Wrote(u) THEN Len(locks[u]) - rl_recursion[u] ELSE 1
        BY <4>1 DEF RWInv, CountInv
      <4> QED BY <4>1, <4>2, <4>3
    <3> QED BY <3>1, <3>2
  <2>3. IsFiniteSet(Readers')
    BY <1>CountChange
  <2>4. CountInv'
    BY <2>2, <2>3 DEF CountInv
  <2>5. Sizes'
    BY DEF RWInv, Sizes
  <2> QED BY <2>1, <2>4, <2>5 DEF RWInv
(* A task that excludes, or upgrades, is alone in that.                    *)
<1>Alone.
  ASSUME RWInv, NEW t \in Task
  PROVE  /\ Excludes(t) => \A u \in Task \ {t} : ~Excludes(u) /\ ~Counted(u)
         /\ Upgrading(t) => \A u \in Task \ {t} : ~Upgrading(u)
         /\ rw_mode # "writing" => \A u \in Task : ~Excludes(u)
         /\ rw_mode # "upgrading" => \A u \in Task : ~Upgrading(u)
  <2> USE <1>Alone
  <2>1. Excludes(t) => \A u \in Task \ {t} : ~Excludes(u) /\ ~Counted(u)
    BY DEF RWInv, ModeInv
  <2>2. Upgrading(t) => \A u \in Task \ {t} : ~Upgrading(u)
    BY DEF RWInv, ModeInv
  <2>3. /\ rw_mode # "writing" => \A u \in Task : ~Excludes(u)
        /\ rw_mode # "upgrading" => \A u \in Task : ~Upgrading(u)
    BY DEF RWInv, ModeInv
  <2> QED BY <2>1, <2>2, <2>3
(* A step that neither acquires nor gives back: connecting, checking in    *)
(* vain, waiting, signaling, and beginning or failing to write.            *)
<1>QuietStep.
  ASSUME RWInv, TypeOK', NEW t \in Task, Others(t), ControlOf(t)',
         UNCHANGED <<rw_mode, rw_ind, rw_xowner>>,
         rl_recursion'[t] = rl_recursion[t], locks'[t] = locks[t],
         t \in desc' <=> t \in desc, t \in has' <=> t \in has,
         op'[t] = "read" <=> op[t] = "read",
         op'[t] = "unshare" <=> op[t] = "unshare",
         pc'[t] = "rdrop" <=> pc[t] = "rdrop",
         pc'[t] \in {"owner", "udrop"} <=> pc[t] \in {"owner", "udrop"},
         pc'[t] = "endwrite" <=> pc[t] = "endwrite"
  PROVE  RWInv'
  <2> USE <1>QuietStep
  <2>1. pc'[t] \in Taking <=> pc[t] \in Taking
    BY DEF Taking
  <2>2. Wrote(t)' <=> Wrote(t)
    BY DEF Wrote
  <2>3. /\ Excludes(t)' <=> Excludes(t)
        /\ Counted(t)' <=> Counted(t)
        /\ Upgrading(t)' <=> Upgrading(t)
    BY <2>1, <2>2 DEF Excludes, Counted, Upgrading
  <2>4. LocksOf(t) /\ DescOf(t)
    BY DEF RWInv, TaskInv
  <2>5. LocksOf(t)'
    BY <2>2, <2>4 DEF LocksOf
  <2>6. DescOf(t)'
    BY <2>1, <2>2, <2>4 DEF DescOf
  <2>7. TaskInv(t)'
    BY <2>5, <2>6 DEF TaskInv
  <2>8. ModeInv'
    <3>1. ModeInv
      BY DEF RWInv
    <3>2. /\ Excludes(t)' => rw_mode' = "writing"
          /\ Upgrading(t)' => rw_mode' = "upgrading"
          /\ rw_mode' = "writing" => Excludes(t)' \/ (rw_mode = "writing" /\ ~Excludes(t))
      BY <3>1, <2>3 DEF ModeInv
    <3>3. ASSUME NEW u \in Task \ {t}
          PROVE  /\ Excludes(u) => rw_mode' = "writing" /\ ~Excludes(t)' /\ ~Counted(t)'
                 /\ Upgrading(u) => rw_mode' = "upgrading" /\ ~Upgrading(t)'
                 /\ Counted(u) => ~Excludes(t)'
      BY <3>1, <2>3 DEF ModeInv
    <3> QED BY <3>1, <3>2, <3>3, <1>ModeStep
  <2>9. Readers' = Readers /\ has' = has
    BY <2>3, <1>CountChange
  <2>10. CountInv
    BY DEF RWInv
  <2>11. /\ Excludes(t)' => rw_ind' = IF Wrote(t)' THEN Len(locks'[t]) - rl_recursion'[t] ELSE 1
         /\ rw_mode' # "writing" => rw_ind' + Cardinality(has') = Cardinality(Readers')
    BY <2>2, <2>3, <2>9, <2>10 DEF CountInv
  <2> QED BY <2>7, <2>8, <2>11, <1>Combine
(* A thread that reads already reads once more.                            *)
<1>ReadAgainStep.
  ASSUME RWInv, TypeOK', NEW t \in Task, Others(t),
         rw_mode # "writing", rl_recursion[t] > 0,
         UNCHANGED <<rw_mode, rw_ind, rw_xowner>>,
         rl_recursion'[t] = rl_recursion[t] + 1, locks'[t] = Append(locks[t], "r"),
         t \in desc' <=> t \in desc, t \in has' <=> t \in has,
         op[t] = "none", op'[t] = "none", pc'[t] = "run"
  PROVE  RWInv'
  <2> USE <1>ReadAgainStep
  <2> DEFINE n == rl_recursion[t]
             k == Len(locks[t])
  <2>1. n \in Nat /\ k \in Nat /\ locks[t] \in Seq({"r", "w"})
    BY TaskTypes DEF RWInv
  <2>2. /\ Len(locks'[t]) = k + 1 /\ locks'[t][k + 1] = "r"
        /\ \A i \in 1 .. k : locks'[t][i] = locks[t][i]
    BY <2>1, SMTT(60)
  <2>3. ControlOf(t) /\ LocksOf(t) /\ DescOf(t)
    BY DEF RWInv, TaskInv
  <2>4. \A u \in Task : ~Excludes(u)
    BY <1>Alone
  <2>5. ~Wrote(t)
    BY <2>4 DEF Excludes
  <2>6. n = k
    BY <2>5, NotWrote
  <2>7. ~Wrote(t)'
    BY <2>1, <2>2, <2>6, SMTT(60) DEF Wrote
  <2>8. rl_recursion'[t] > 0
    BY <2>1, SMTT(60)
  <2>9. LocksOf(t)'
    <3>1. \A i \in 1 .. n : locks[t][i] = "r"
      BY <2>3 DEF LocksOf
    <3>2. /\ n + 1 <= k + 1
          /\ \A i \in 1 .. n + 1 : i \in 1 .. k \/ i = k + 1
      BY <2>1, <2>6, SMTT(60)
    <3>3. \A i \in 1 .. n + 1 : locks'[t][i] = "r"
      BY <2>2, <2>6, <3>1, <3>2
    <3> QED BY <2>2, <2>7, <3>2, <3>3 DEF LocksOf
  <2>10. DescOf(t)'
    BY <2>3, <2>5, <2>7, <2>8 DEF DescOf, Taking
  <2>11. ControlOf(t)'
    BY DEF ControlOf, Control
  <2>12. TaskInv(t)'
    BY <2>9, <2>10, <2>11 DEF TaskInv
  <2>13. ~Excludes(t)' /\ ~Upgrading(t)' /\ Counted(t)' /\ Counted(t)
    BY <2>7, <2>8 DEF Excludes, Upgrading, Counted, Taking
  <2>14. ModeInv'
    <3>1. ModeInv
      BY DEF RWInv
    <3>2. \A u \in Task \ {t} : Upgrading(u) => rw_mode' = "upgrading"
      BY <3>1 DEF ModeInv
    <3> QED BY <2>4, <2>13, <3>1, <3>2, <1>ModeStep
  <2>15. Readers' = Readers /\ has' = has
    BY <2>13, <1>CountChange
  <2>16. rw_ind' + Cardinality(has') = Cardinality(Readers')
    BY <2>15 DEF RWInv, CountInv
  <2> QED BY <2>4, <2>12, <2>13, <2>14, <2>16, <1>Combine
(* A thread begins to read, with a fresh descriptor and no lock; or it     *)
(* gives up and the descriptor is gone again.                              *)
<1>DescriptorStep.
  ASSUME RWInv, TypeOK', NEW t \in Task, Others(t), ControlOf(t)',
         UNCHANGED <<rw_mode, rw_ind, rw_xowner>>,
         locks[t] = <<>>, locks'[t] = <<>>, rl_recursion[t] = 0, rl_recursion'[t] = 0,
         t \in has' <=> t \in has, op[t] \in {"none", "read"},
         \/ op'[t] = "read" /\ t \in desc'
         \/ op'[t] = "none" /\ t \notin desc',
         pc[t] \notin Taking \cup {"rdrop"}, pc'[t] \notin Taking \cup {"rdrop"}
  PROVE  RWInv'
  <2> USE <1>DescriptorStep
  <2>1. Len(locks[t]) = 0 /\ ~(0 < 0) /\ ~(0 > 0) /\ 0 <= 0 /\ 1 .. 0 = {}
    BY SMTT(60)
  <2>2. ~Wrote(t) /\ ~Wrote(t)'
    BY <2>1 DEF Wrote
  <2>3. /\ ~Excludes(t) /\ ~Excludes(t)'
        /\ ~Counted(t) /\ ~Counted(t)'
        /\ ~Upgrading(t) /\ ~Upgrading(t)'
    BY <2>1, <2>2 DEF Excludes, Counted, Upgrading
  <2>4. LocksOf(t)'
    BY <2>1, <2>2 DEF LocksOf
  <2>5. DescOf(t)
    BY DEF RWInv, TaskInv
  <2>6. DescOf(t)'
    BY <2>1, <2>2, <2>5 DEF DescOf
  <2>7. TaskInv(t)'
    BY <2>4, <2>6 DEF TaskInv
  <2>8. ModeInv'
    <3>1. ModeInv
      BY DEF RWInv
    <3>2. \A u \in Task \ {t} :
            (Excludes(u) => rw_mode = "writing") /\ (Upgrading(u) => rw_mode = "upgrading")
      BY <3>1 DEF ModeInv
    <3> QED BY <2>3, <3>1, <3>2, <1>ModeStep
  <2>9. Readers' = Readers /\ has' = has
    BY <2>3, <1>CountChange
  <2>10. rw_mode' # "writing" => rw_ind' + Cardinality(has') = Cardinality(Readers')
    BY <2>9 DEF RWInv, CountInv
  <2> QED BY <2>3, <2>7, <2>8, <2>10, <1>Combine
(* A thread has its first read-lock: it was counted in the re-check after  *)
(* connecting, or it is counted now.                                       *)
<1>ReadStep.
  ASSUME RWInv, TypeOK', NEW t \in Task, Others(t),
         locks[t] = <<>>, rl_recursion[t] = 0, op[t] \in {"none", "read"},
         rl_recursion'[t] = 1, locks'[t] = <<"r">>, op'[t] = "none", pc'[t] = "run",
         t \in desc', t \in has' <=> t \in has, pc[t] \notin Taking,
         rw_mode' = rw_mode, rw_xowner' = rw_xowner,
         \/ pc[t] = "rdrop" /\ rw_ind' = rw_ind
         \/ pc[t] # "rdrop" /\ rw_mode = "reading" /\ rw_ind' = rw_ind + 1
  PROVE  RWInv'
  <2> USE <1>ReadStep
  <2>1. /\ Len(locks[t]) = 0 /\ Len(locks'[t]) = 1 /\ locks'[t][1] = "r"
        /\ ~(0 < 0) /\ ~(0 > 0) /\ ~(1 < 1) /\ 1 > 0 /\ 1 <= 1 /\ 1 .. 1 = {1}
    BY SMTT(60)
  <2>2. ~Wrote(t) /\ ~Wrote(t)'
    BY <2>1 DEF Wrote
  <2>3. /\ ~Excludes(t) /\ ~Excludes(t)' /\ ~Upgrading(t)' /\ Counted(t)'
        /\ Counted(t) <=> pc[t] = "rdrop"
    BY <2>1, <2>2 DEF Excludes, Upgrading, Counted, Taking
  <2>4. LocksOf(t)'
    BY <2>1, <2>2 DEF LocksOf
  <2>5. DescOf(t)
    BY DEF RWInv, TaskInv
  <2>6. DescOf(t)'
    BY <2>1, <2>2, <2>5 DEF DescOf, Taking
  <2>7. ControlOf(t)'
    BY DEF ControlOf, Control
  <2>8. TaskInv(t)'
    BY <2>4, <2>6, <2>7 DEF TaskInv
  <2>9. \A u \in Task : ~Excludes(u)
    <3>1. CASE pc[t] = "rdrop"
      BY <3>1, <2>3, <1>Alone
    <3>2. CASE rw_mode = "reading"
      BY <3>2, <1>Alone
    <3> QED BY <3>1, <3>2
  <2>10. ModeInv'
    <3>1. ModeInv
      BY DEF RWInv
    <3>2. rw_mode' # "writing"
      BY <3>1, <2>9 DEF ModeInv
    <3>3. \A u \in Task \ {t} : Upgrading(u) => rw_mode' = "upgrading"
      BY <3>1 DEF ModeInv
    <3> QED BY <2>3, <2>9, <3>1, <3>2, <3>3, <1>ModeStep
  <2>11. rw_mode # "writing"
    BY <2>9 DEF RWInv, ModeInv
  <2>12. rw_ind + Cardinality(has) = Cardinality(Readers)
    BY <2>11 DEF RWInv, CountInv
  <2>13. has' = has
    BY <1>CountChange
  <2>14. rw_ind \in Nat /\ Cardinality(has) \in Nat /\ Cardinality(Readers) \in Nat
    BY <1>HasReads, TaskTypes DEF RWInv
  <2>15. rw_ind' + Cardinality(has') = Cardinality(Readers')
    <3>1. CASE pc[t] = "rdrop" /\ rw_ind' = rw_ind
      BY <3>1, <2>3, <2>12, <2>13, <1>CountChange
    <3>2. CASE pc[t] # "rdrop" /\ rw_ind' = rw_ind + 1
      <4>1. Cardinality(Readers') = Cardinality(Readers) + 1
        BY <3>2, <2>3, <1>CountChange
      <4> QED BY <3>2, <4>1, <2>12, <2>13, <2>14, SMTT(60)
    <3> QED BY <3>1, <3>2
  <2> QED BY <2>3, <2>8, <2>9, <2>10, <2>15, <1>Combine
(* In read-mode no reader is left out of the count.                        *)
<1>NoneUpgrading.
  ASSUME RWInv, rw_mode = "reading"
  PROVE  has = {} /\ rw_ind = Cardinality(Readers)
  <2> USE <1>NoneUpgrading
  <2>1. ASSUME NEW t \in has PROVE FALSE
    <3>1. t \in Task
      BY DEF RWInv, TypeOK
    <3>2. op[t] = "unshare"
      BY <3>1 DEF RWInv, TaskInv, DescOf
    <3>3. ~Excludes(t) /\ ~Upgrading(t)
      BY <3>1, <1>Alone
    <3> QED BY <3>2, <3>3 DEF Excludes, Upgrading, Taking
  <2>2. has = {}
    BY <2>1
  <2>3. rw_ind + Cardinality(has) = Cardinality(Readers)
    BY DEF RWInv, CountInv
  <2>4. Cardinality(has) = 0
    BY <2>2 DEF RWInv, Sizes
  <2>5. rw_ind \in Nat
    BY DEF RWInv, TypeOK
  <2>6. rw_ind + 0 = rw_ind
    BY <2>5, SMTT(60)
  <2> QED BY <2>2, <2>3, <2>4, <2>6
(* Write-mode: a thread that finds no reader but itself switches the mode. *)
<1>ExcludeStep.
  ASSUME RWInv, TypeOK', NEW t \in Task, Others(t), ControlOf(t)',
         rw_mode # "writing", \A u \in Task \ {t} : ~Counted(u) /\ ~Upgrading(u),
         rw_mode' = "writing", rw_ind' = 1, rw_xowner' = rw_xowner,
         rl_recursion'[t] = rl_recursion[t], locks'[t] = locks[t],
         t \in desc' <=> t \in desc, t \in has' <=> t \in has,
         op[t] # "read", op'[t] # "read",
         op'[t] = "unshare" <=> op[t] = "unshare",
         pc'[t] \in {"owner", "udrop"}
  PROVE  RWInv'
  <2> USE <1>ExcludeStep
  <2>1. LocksOf(t) /\ DescOf(t)
    BY DEF RWInv, TaskInv
  <2>2. \A u \in Task : ~Excludes(u)
    BY <1>Alone
  <2>3. ~Wrote(t) /\ ~Wrote(t)'
    BY <2>2 DEF Wrote, Excludes
  <2>4. Excludes(t)' /\ ~Upgrading(t)'
    BY DEF Excludes, Upgrading, Taking
  <2>5. LocksOf(t)'
    BY <2>1, <2>3 DEF LocksOf
  <2>6. DescOf(t)'
    BY <2>1, <2>3 DEF DescOf
  <2>7. TaskInv(t)'
    BY <2>5, <2>6 DEF TaskInv
  <2>8. ModeInv'
    BY <2>2, <2>4, <1>ModeStep DEF RWInv
  <2> QED BY <2>2, <2>3, <2>4, <2>7, <2>8, <1>Combine
(* Nobody else reads when rw_scnt is zero, or one and the caller reads.    *)
<1>OnlyReader.
  ASSUME RWInv, NEW t \in Task, rw_mode = "reading",
         rw_ind = 0 \/ (rw_ind = 1 /\ Counted(t))
  PROVE  \A u \in Task \ {t} : ~Counted(u)
  <2> USE <1>OnlyReader
  <2>1. rw_ind = Cardinality(Readers) /\ IsFiniteSet(Readers)
    BY <1>NoneUpgrading DEF RWInv, CountInv
  <2>2. CASE rw_ind = 0
    <3>1. Readers = {}
      BY <2>1, <2>2 DEF RWInv, Sizes
    <3> QED BY <3>1 DEF Readers
  <2>3. CASE rw_ind = 1 /\ Counted(t)
    <3>1. t \in Readers
      BY <2>3 DEF Readers
    <3>2. \E x : Readers = {x}
      BY <2>1, <2>3 DEF RWInv, Sizes
    <3>3. Readers = {t}
      BY <3>1, <3>2
    <3> QED BY <3>3 DEF Readers
  <2> QED BY <2>2, <2>3
(* Nobody but the upgrading thread reads when the count has come to zero.  *)
<1>OnlyUpgrader.
  ASSUME RWInv, NEW t \in Task, Upgrading(t), rw_mode = "upgrading", rw_ind = 0
  PROVE  \A u \in Task \ {t} : ~Counted(u)
  <2> USE <1>OnlyUpgrader
  <2>1. has \subseteq Readers /\ IsFiniteSet(Readers) /\ Cardinality(has) \in Nat
    BY <1>HasReads DEF RWInv, CountInv
  <2>2. rw_ind + Cardinality(has) = Cardinality(Readers)
    BY DEF RWInv, CountInv
  <2>3. Cardinality(Readers) = Cardinality(has)
    BY <2>1, <2>2, SMTT(60)
  <2>4. Readers = has
    <3>1. Sizes /\ has \in SUBSET Readers
      BY <2>1 DEF RWInv
    <3>2. \A T \in SUBSET Readers : Cardinality(Readers) = Cardinality(T) => Readers = T
      BY <2>1, <3>1 DEF Sizes
    <3> QED BY <2>3, <3>1, <3>2
  <2>5. ASSUME NEW u \in Task, u \in has PROVE u = t
    <3>1. op[u] = "unshare"
      BY <2>5 DEF RWInv, TaskInv, DescOf
    <3>2. ~Excludes(u)
      BY <1>Alone
    <3>3. Upgrading(u)
      BY <3>1, <3>2 DEF Excludes, Upgrading, Taking
    <3> QED BY <3>3 DEF RWInv, ModeInv
  <2> QED BY <2>4, <2>5 DEF Readers
(* The locks that are left when the youngest one has been ended.           *)
<1>FrontProps.
  ASSUME NEW q \in Seq({"r", "w"}), q # <<>>
  PROVE  /\ Front(q) \in Seq({"r", "w"})
         /\ Len(Front(q)) = Len(q) - 1 /\ Len(q) \in Nat \ {0}
         /\ \A i \in 1 .. Len(q) - 1 : Front(q)[i] = q[i]
  <2> USE <1>FrontProps
  <2>1. Len(q) \in Nat \ {0}
    BY SMTT(60)
  <2> DEFINE m == Len(q) - 1
  <2>2. m \in Nat /\ \A i \in 1 .. m : i \in 1 .. Len(q)
    BY <2>1, SMTT(60)
  <2>3. Front(q) = [i \in 1 .. m |-> q[i]]
    BY <2>1, SMTT(60) DEF Front
  <2> HIDE DEF m
  <2>4. \A i \in 1 .. m : q[i] \in {"r", "w"}
    BY <2>2, SMTT(60)
  <2>5. [i \in 1 .. m |-> q[i]] \in Seq({"r", "w"}) /\ Len([i \in 1 .. m |-> q[i]]) = m
    BY <2>2, <2>4, SMTT(60)
  <2> QED BY <2>1, <2>3, <2>5, SMTT(60) DEF m
(* What every such step does to t, to the others and to the types.         *)
<1>Moved.
  ASSUME TypeOK, NEW t \in Task, NEW l \in PC, NEW o \in Op, NEW n \in Nat,
         NEW q \in Seq({"r", "w"}), Move(t, l, o, n, q), SigTypeOK',
         rw_mode' \in {"reading", "upgrading", "writing"}, rw_ind' \in Nat,
         rw_xowner' \in Task \cup {NoTask}, retry' \subseteq Task
  PROVE  /\ TypeOK' /\ Others(t)
         /\ pc'[t] = l /\ op'[t] = o /\ rl_recursion'[t] = n /\ locks'[t] = q
  <2> USE <1>Moved
  <2>1. /\ pc \in [Task -> PC] /\ op \in [Task -> Op]
        /\ rl_recursion \in [Task -> Nat] /\ locks \in [Task -> Seq({"r", "w"})]
        /\ desc \subseteq Task /\ has \subseteq Task
    BY DEF TypeOK, Op
  <2>2. /\ pc' \in [Task -> PC] /\ pc'[t] = l /\ \A u \in Task \ {t} : pc'[u] = pc[u]
        /\ op' \in [Task -> Op] /\ op'[t] = o /\ \A u \in Task \ {t} : op'[u] = op[u]
    BY <2>1, SMTT(60) DEF Move
  <2>3. /\ rl_recursion' \in [Task -> Nat] /\ rl_recursion'[t] = n
        /\ \A u \in Task \ {t} : rl_recursion'[u] = rl_recursion[u]
    BY <2>1, SMTT(60) DEF Move
  <2>4. /\ locks' \in [Task -> Seq({"r", "w"})] /\ locks'[t] = q
        /\ \A u \in Task \ {t} : locks'[u] = locks[u]
    <3> DEFINE L == Seq({"r", "w"})
    <3>1. locks \in [Task -> L] /\ q \in L /\ locks' = [locks EXCEPT ![t] = q]
      BY <2>1 DEF Move
    <3> HIDE DEF L
    <3>2. /\ locks' \in [Task -> L] /\ locks'[t] = q
          /\ \A u \in Task \ {t} : locks'[u] = locks[u]
      BY <3>1, SMTT(60)
    <3> QED BY <3>2 DEF L
  <2>5. /\ \A u \in Task \ {t} : (u \in desc' <=> u \in desc) /\ (u \in has' <=> u \in has)
        /\ desc' \subseteq Task /\ has' \subseteq Task
    BY <2>1 DEF Move
  <2>6. \A u \in Task \ {t} : rw_xowner' = u <=> rw_xowner = u
    BY DEF Move
  <2>7. Others(t)
    BY <2>2, <2>3, <2>4, <2>5, <2>6 DEF Others
  <2>8. TypeOK'
    BY <2>2, <2>3, <2>4, <2>5 DEF TypeOK, Op
  <2> QED BY <2>2, <2>3, <2>4, <2>7, <2>8
(* The same, for the steps that leave mode, counter and owner alone.       *)
<1>MovedOnly.
  ASSUME TypeOK, NEW t \in Task, NEW l \in PC, NEW o \in Op, NEW n \in Nat,
         NEW q \in Seq({"r", "w"}), Move(t, l, o, n, q), SigTypeOK', retry' \subseteq Task,
         UNCHANGED <<rw_mode, rw_ind, rw_xowner>>
  PROVE  /\ TypeOK' /\ Others(t)
         /\ pc'[t] = l /\ op'[t] = o /\ rl_recursion'[t] = n /\ locks'[t] = q
  <2> USE <1>MovedOnly
  <2>1. /\ rw_mode' \in {"reading", "upgrading", "writing"} /\ rw_ind' \in Nat
        /\ rw_xowner' \in Task \cup {NoTask}
    BY DEF TypeOK
  <2> QED BY <2>1, <1>Moved
(* A task between two calls. *)
<1>AtRest.
  ASSUME RWInv, NEW t \in Task, pc[t] = "run"
  PROVE  op[t] = "none" /\ t \notin has /\ pc[t] \notin Taking /\ pc[t] # "rdrop"
  <2> USE <1>AtRest
  <2>1. op[t] = "none"
    BY DEF RWInv, TaskInv, ControlOf, Control, Waits
  <2>2. t \notin has
    BY <2>1 DEF RWInv, TaskInv, DescOf
  <2> QED BY <2>1, <2>2 DEF Taking
(* Recurse(), as rwlock_read(), rwlock_write() and the try-calls use it.   *)
<1>RecurseDo.
  \A t \in Task, x \in {"r", "w"} :
    RWInv /\ Recurse(t, x) /\ UNCHANGED sigVars /\ op[t] \in {"none", "write"} /\
    pc[t] # "rdrop" /\ pc' = [pc EXCEPT ![t] = "run"] /\ op' = [op EXCEPT ![t] = "none"]
      => RWInv'
  (* The exclusive owner acquires one more lock: `rw_xind' counts it.        *)
  <2>RecurseStep.
    ASSUME RWInv, TypeOK', NEW t \in Task, Others(t), NEW x \in {"r", "w"},
           rw_mode = "writing", rw_xowner = t,
           rw_mode' = "writing", rw_ind' = rw_ind + 1, rw_xowner' = rw_xowner,
           locks'[t] = Append(locks[t], x), rl_recursion'[t] = rl_recursion[t],
           t \in desc' <=> t \in desc, t \in has' <=> t \in has,
           op[t] \in {"none", "write"}, op'[t] = "none", pc[t] # "rdrop", pc'[t] = "run"
    PROVE  RWInv'
    <3> USE <2>RecurseStep
    <3> DEFINE n == rl_recursion[t]
               k == Len(locks[t])
    <3>1. /\ n \in Nat /\ k \in Nat /\ locks[t] \in Seq({"r", "w"})
      BY TaskTypes DEF RWInv
    <3>2. /\ Len(locks'[t]) = k + 1
          /\ \A i \in 1 .. k : locks'[t][i] = locks[t][i]
      BY <3>1, SMTT(60)
    <3>3. ControlOf(t) /\ LocksOf(t) /\ DescOf(t)
      BY DEF RWInv, TaskInv
    <3>4. Wrote(t)
      BY <3>3 DEF DescOf
    <3>5. n < k
      BY <3>4 DEF Wrote
    <3>6. Wrote(t)'
      BY <3>1, <3>2, <3>5, SMTT(60) DEF Wrote
    <3>7. LocksOf(t)'
      <4>1. (\A i \in 1 .. n : locks[t][i] = "r") /\ locks[t][n + 1] = "w"
        BY <3>3, <3>4 DEF LocksOf
      <4>2. n <= k + 1 /\ n + 1 \in 1 .. k /\ \A i \in 1 .. n : i \in 1 .. k
        BY <3>1, <3>5, SMTT(60)
      <4> QED BY <3>2, <4>1, <4>2 DEF LocksOf
    <3>8. DescOf(t)'
      BY <3>3, <3>6 DEF DescOf, Taking
    <3>9. ControlOf(t)'
      BY DEF ControlOf, Control
    <3>10. TaskInv(t)'
      BY <3>7, <3>8, <3>9 DEF TaskInv
    <3>11. Excludes(t) /\ Excludes(t)' /\ ~Upgrading(t)' /\ (Counted(t)' <=> Counted(t))
      BY <3>4, <3>6 DEF Excludes, Upgrading, Counted
    <3>12. \A u \in Task \ {t} : ~Excludes(u) /\ ~Counted(u) /\ ~Upgrading(u)
      BY <3>11, <1>Alone
    <3>13. ModeInv'
      BY <3>11, <3>12, <1>ModeStep DEF RWInv
    <3>14. rw_ind = k - n
      BY <3>4, <3>11 DEF RWInv, CountInv
    <3>15. rw_ind' = Len(locks'[t]) - rl_recursion'[t]
      BY <3>1, <3>2, <3>14, SMTT(60)
    <3> QED BY <3>6, <3>10, <3>12, <3>13, <3>15, <1>Combine
  <2> SUFFICES ASSUME RWInv, NEW t \in Task, NEW x \in {"r", "w"}, Recurse(t, x), UNCHANGED sigVars,
                      op[t] \in {"none", "write"}, pc[t] # "rdrop", pc' = [pc EXCEPT ![t] = "run"],
                      op' = [op EXCEPT ![t] = "none"]
               PROVE  RWInv'
    OBVIOUS
  <2>1. TypeOK
    BY DEF RWInv
  <2>0. rl_recursion = [rl_recursion EXCEPT ![t] = rl_recursion[t]]
    BY <2>1, StillThere
  <2>2. rl_recursion[t] \in Nat /\ locks[t] \in Seq({"r", "w"}) /\ rw_ind \in Nat
    BY <2>1, StillThere DEF TypeOK
  <2>a. Append(locks[t], x) \in Seq({"r", "w"})
    BY <2>2, SMTT(60)
  <2>3. PICK q \in Seq({"r", "w"}) : q = Append(locks[t], x)
    BY <2>a
  <2>4. /\ rw_mode = "writing" /\ rw_xowner = t
        /\ rw_mode' = "writing" /\ rw_ind' = rw_ind + 1 /\ rw_xowner' = rw_xowner
        /\ locks' = [locks EXCEPT ![t] = Append(locks[t], x)]
        /\ desc' = desc /\ rl_recursion' = rl_recursion /\ has' = has /\ retry' = retry
    BY DEF Recurse, OwnsExclusive, SetState, Got, reads
  <2>5. Move(t, "run", "none", rl_recursion[t], q)
    BY <2>0, <2>3, <2>4 DEF Move
  <2>6. "run" \in PC /\ "none" \in Op
    BY DEF PC, Op
  <2>7. SigTypeOK'
    BY <2>1 DEF TypeOK, SigTypeOK, sigVars
  <2>8. /\ rw_mode' \in {"reading", "upgrading", "writing"} /\ rw_ind' \in Nat
        /\ rw_xowner' \in Task \cup {NoTask} /\ retry' \subseteq Task
    BY <2>1, <2>2, <2>4, SMTT(60) DEF TypeOK
  <2>9. /\ TypeOK' /\ Others(t) /\ pc'[t] = "run" /\ op'[t] = "none"
        /\ rl_recursion'[t] = rl_recursion[t] /\ locks'[t] = q
    BY <2>1, <2>2, <2>5, <2>6, <2>7, <2>8, <1>Moved, SMTT(60)
  <2> QED BY <2>3, <2>4, <2>9, <2>RecurseStep
(* The second way of rwlock_read() and rwlock_tryread().                   *)
<1>ReadAgainDo.
  ASSUME RWInv, NEW t \in Task, UNCHANGED sigVars, pc[t] = "run",
         rw_mode # "writing", rl_recursion[t] > 0,
         SetRecursion(t, rl_recursion[t] + 1), Got(t, "r"),
         UNCHANGED <<state, rw_xowner, desc, call, pc>>
  PROVE  RWInv'
  <2> USE <1>ReadAgainDo
  <2>1. TypeOK
    BY DEF RWInv
  <2>2. /\ rl_recursion[t] \in Nat /\ locks[t] \in Seq({"r", "w"})
        /\ pc[t] \in PC /\ op[t] \in Op
    BY <2>1, StillThere
  <2>a. Append(locks[t], "r") \in Seq({"r", "w"}) /\ rl_recursion[t] + 1 \in Nat
    BY <2>2, SMTT(60)
  <2>3. PICK q \in Seq({"r", "w"}), n \in Nat :
               q = Append(locks[t], "r") /\ n = rl_recursion[t] + 1
    BY <2>a
  <2>0. UNCHANGED <<rw_mode, rw_ind, rw_xowner>> /\ desc' = desc /\ has' = has
    BY DEF state, call
  <2>4. /\ locks' = [locks EXCEPT ![t] = Append(locks[t], "r")]
        /\ rl_recursion' = [rl_recursion EXCEPT ![t] = rl_recursion[t] + 1]
        /\ retry' = retry /\ op' = op /\ pc' = pc
    BY DEF SetRecursion, Got, call
  <2>5. Move(t, pc[t], op[t], n, q)
    BY <2>0, <2>1, <2>3, <2>4, StillThere DEF Move
  <2>6. SigTypeOK' /\ retry' \subseteq Task
    BY <2>1, <2>4 DEF TypeOK, SigTypeOK, sigVars
  <2>7. /\ TypeOK' /\ Others(t) /\ pc'[t] = pc[t] /\ op'[t] = op[t]
        /\ rl_recursion'[t] = n /\ locks'[t] = q
    BY <2>0, <2>1, <2>2, <2>5, <2>6, <1>MovedOnly
  <2>8. op[t] = "none"
    BY <1>AtRest
  <2> QED BY <2>0, <2>3, <2>7, <2>8, <1>ReadAgainStep
(* rwlock_timedread() *)
<1>ReadDo.
  ASSUME RWInv, NEW t \in Task, Read(t)
  PROVE  RWInv'
  <2> USE <1>ReadDo
  <2>1. TypeOK
    BY DEF RWInv
  <2>2. pc[t] = "run" /\ UNCHANGED sigVars
    BY DEF Read, MayAcquire, Idle
  <2>3. op[t] = "none" /\ t \notin has /\ pc[t] \notin Taking /\ pc[t] # "rdrop"
    BY <2>2, <1>AtRest
  <2>4. /\ pc = [pc EXCEPT ![t] = pc[t]] /\ op = [op EXCEPT ![t] = op[t]]
        /\ rl_recursion = [rl_recursion EXCEPT ![t] = rl_recursion[t]]
        /\ locks = [locks EXCEPT ![t] = locks[t]]
        /\ rl_recursion[t] \in Nat /\ locks[t] \in Seq({"r", "w"})
    BY <2>1, StillThere
  <2>5. CASE Recurse(t, "r") /\ UNCHANGED <<op, pc>>
    BY <2>2, <2>3, <2>4, <2>5, <1>RecurseDo
  <2>6. CASE /\ rw_mode # "writing" /\ rl_recursion[t] > 0
             /\ SetRecursion(t, rl_recursion[t] + 1) /\ Got(t, "r")
             /\ UNCHANGED <<state, rw_xowner, desc, call, pc>>
    BY <2>2, <2>6, <1>ReadAgainDo
  <2>7. CASE /\ ~OwnsExclusive(t)
             /\ rw_mode # "writing" => rl_recursion[t] = 0
             /\ desc' = desc \cup {t}
             /\ Call(t, "read") /\ GoTo(t, "racquire")
             /\ UNCHANGED <<state, rw_xowner, rl_recursion, has, retry, locks>>
    <3>1. /\ UNCHANGED <<rw_mode, rw_ind, rw_xowner>>
          /\ pc' = [pc EXCEPT ![t] = "racquire"] /\ op' = [op EXCEPT ![t] = "read"]
          /\ rl_recursion' = rl_recursion /\ locks' = locks /\ has' = has /\ retry' = retry
          /\ desc' = desc \cup {t}
      BY <2>7 DEF Call, GoTo, state
    <3>2. Move(t, "racquire", "read", rl_recursion[t], locks[t])
      BY <3>1, <2>4 DEF Move
    <3>3. "racquire" \in PC /\ "read" \in Op
      BY DEF PC, Op
    <3>4. SigTypeOK' /\ retry' \subseteq Task
      BY <2>1, <2>2, <3>1 DEF TypeOK, SigTypeOK, sigVars
    <3>5. /\ TypeOK' /\ Others(t) /\ pc'[t] = "racquire" /\ op'[t] = "read"
          /\ rl_recursion'[t] = rl_recursion[t] /\ locks'[t] = locks[t]
      BY <2>1, <2>4, <3>1, <3>2, <3>3, <3>4, <1>MovedOnly
    <3>6. ~Wrote(t)
      <4>1. CASE rw_mode # "writing"
        BY <4>1, <1>Alone DEF Excludes
      <4>2. CASE rw_xowner # t
        BY <4>2 DEF RWInv, TaskInv, DescOf
      <4> QED BY <2>7, <4>1, <4>2 DEF OwnsExclusive
    <3>7. rl_recursion[t] = 0
      <4>1. CASE rw_mode # "writing"
        BY <4>1, <2>7
      <4>2. CASE rw_mode = "writing"
        <5>1. ~Excludes(t)
          BY <2>3, <3>6 DEF Excludes
        <5>2. ~Counted(t)
          BY <4>2, <5>1 DEF RWInv, ModeInv
        <5>3. ~(rl_recursion[t] > 0)
          BY <5>2 DEF Counted
        <5> QED BY <5>3, <2>4, SMTT(60)
      <4> QED BY <4>1, <4>2
    <3>8. locks[t] = <<>>
      BY <3>6, <3>7, NotWrote
    <3>9. ControlOf(t)'
      BY <3>5 DEF ControlOf, Control
    <3>10. pc'[t] \notin Taking \cup {"rdrop"} /\ pc[t] \notin Taking \cup {"rdrop"} /\ t \in desc'
      BY <2>3, <3>1, <3>5 DEF Taking
    <3> QED BY <2>3, <3>1, <3>5, <3>7, <3>8, <3>9, <3>10, <1>DescriptorStep
  <2> QED BY <2>5, <2>6, <2>7 DEF Read
(* A quiet step that leaves t at label l inside of call o.                 *)
<1>QuietDo.
  ASSUME RWInv, NEW t \in Task, NEW l \in PC, NEW o \in Op, Control(l, o), SigTypeOK',
         pc' = [pc EXCEPT ![t] = l], op' = [op EXCEPT ![t] = o],
         UNCHANGED <<state, rw_xowner, reads, has, locks>>, retry' \subseteq Task,
         o = "read" <=> op[t] = "read", o = "unshare" <=> op[t] = "unshare",
         l = "rdrop" <=> pc[t] = "rdrop",
         l \in {"owner", "udrop"} <=> pc[t] \in {"owner", "udrop"},
         l = "endwrite" <=> pc[t] = "endwrite"
  PROVE  RWInv'
  <2> USE <1>QuietDo
  <2>1. TypeOK
    BY DEF RWInv
  <2>2. rl_recursion[t] \in Nat /\ locks[t] \in Seq({"r", "w"})
    BY <2>1, StillThere
  <2>3. /\ UNCHANGED <<rw_mode, rw_ind, rw_xowner>> /\ desc' = desc /\ has' = has
        /\ rl_recursion' = rl_recursion /\ locks' = locks
    BY DEF state, reads
  <2>4. Move(t, l, o, rl_recursion[t], locks[t])
    BY <2>1, <2>3, StillThere DEF Move
  <2>5. /\ TypeOK' /\ Others(t) /\ pc'[t] = l /\ op'[t] = o
        /\ rl_recursion'[t] = rl_recursion[t] /\ locks'[t] = locks[t]
    BY <2>1, <2>2, <2>3, <2>4, <1>MovedOnly, SMTT(60)
  <2>6. ControlOf(t)'
    BY <2>5 DEF ControlOf
  <2>7. t \in desc' <=> t \in desc
    BY <2>3
  <2>8. t \in has' <=> t \in has
    BY <2>3
  <2> QED BY <2>3, <2>5, <2>6, <2>7, <2>8, <1>QuietStep
(* ... that stays inside of its call.                                      *)
<1>StayDo.
  ASSUME RWInv, NEW t \in Task, NEW l \in PC, Control(l, op[t]), SigTypeOK', GoTo(t, l),
         UNCHANGED <<state, rw_xowner, reads, call, locks>>,
         l = "rdrop" <=> pc[t] = "rdrop",
         l \in {"owner", "udrop"} <=> pc[t] \in {"owner", "udrop"},
         l = "endwrite" <=> pc[t] = "endwrite"
  PROVE  RWInv'
  <2> USE <1>StayDo
  <2>1. op[t] \in Op /\ op = [op EXCEPT ![t] = op[t]] /\ retry \subseteq Task
    BY StillThere DEF RWInv, TypeOK
  <2>2. op' = op /\ retry' = retry /\ has' = has /\ pc' = [pc EXCEPT ![t] = l]
    BY DEF call, GoTo
  <2>3. op' = [op EXCEPT ![t] = op[t]] /\ retry' \subseteq Task
    BY <2>1, <2>2
  <2>4. UNCHANGED <<state, rw_xowner, reads, has, locks>>
    BY <2>2
  <2>5. PICK o \in Op : o = op[t]
    BY <2>1
  <2>6. Control(l, o) /\ op' = [op EXCEPT ![t] = o]
    BY <2>3, <2>5
  <2> QED BY <2>2, <2>3, <2>4, <2>5, <2>6, <1>QuietDo
(* The calls on signals keep their types.                                  *)
<1>SigDo.
  ASSUME RWInv, NEW t \in Task
  PROVE  /\ Connect(t, rw_chmode, FALSE) => SigTypeOK'
         /\ Connect(t, rw_unshare, FALSE) => SigTypeOK'
         /\ SendOne(rw_chmode) => SigTypeOK'
         /\ SendOne(rw_unshare) => SigTypeOK'
         /\ Disconnect(t) => SigTypeOK'
         /\ RelocateConnections(t) => SigTypeOK'
         /\ CopySignal(t) => SigTypeOK'
         /\ PopConnections(t) => SigTypeOK'
         /\ UNCHANGED sigVars => SigTypeOK'
  <2> USE <1>SigDo
  <2>1. SigTypeOK
    BY DEF RWInv, TypeOK
  <2>2. rw_chmode \in Sig /\ rw_unshare \in Sig /\ FALSE \in BOOLEAN
    BY RWLockAssumption
  <2> QED BY <2>1, <2>2, SigCallsType
(* task_connect() *)
<1>ConnectSignalDo.
  ASSUME RWInv, NEW t \in Task, ConnectSignal(t)
  PROVE  RWInv'
  <2> USE <1>ConnectSignalDo
  <2>1. pc[t] = "connect" /\ Stays
    BY DEF ConnectSignal, Stays
  <2>2. op[t] \in {"read", "write", "unshare"}
    BY <2>1, Labels DEF Waits
  <2>3. CASE op[t] = "read"
    <3>1. Connect(t, rw_chmode, FALSE) /\ GoTo(t, "rcheck")
      BY <2>3 DEF ConnectSignal
    <3>2. Control("rcheck", op[t]) /\ "rcheck" \in PC /\ SigTypeOK'
      BY <3>1, <2>3, <1>SigDo DEF Control, PC
    <3> QED BY <2>1, <3>1, <3>2, <1>StayDo DEF Stays
  <2>4. CASE op[t] = "write"
    <3>1. Connect(t, rw_chmode, FALSE) /\ GoTo(t, "wcheck")
      <4>1. op[t] # "read"
        BY <2>4
      <4> QED BY <4>1, <2>4 DEF ConnectSignal
    <3>2. Control("wcheck", op[t]) /\ "wcheck" \in PC /\ SigTypeOK'
      BY <3>1, <2>4, <1>SigDo DEF Control, PC
    <3> QED BY <2>1, <3>1, <3>2, <1>StayDo DEF Stays
  <2>5. CASE op[t] = "unshare"
    <3>1. Connect(t, rw_unshare, FALSE) /\ GoTo(t, "ucheck")
      <4>1. op[t] # "read" /\ op[t] # "write"
        BY <2>5
      <4> QED BY <4>1 DEF ConnectSignal
    <3>2. Control("ucheck", op[t]) /\ "ucheck" \in PC /\ SigTypeOK'
      BY <3>1, <2>5, <1>SigDo DEF Control, PC
    <3> QED BY <2>1, <3>1, <3>2, <1>StayDo DEF Stays
  <2> QED BY <2>2, <2>3, <2>4, <2>5
(* wait_for_endwrite: the looks before and after connecting, and the loop. *)
<1>WritePollDo.
  ASSUME RWInv, NEW t \in Task, WritePoll(t)
  PROVE  RWInv'
  <2> USE <1>WritePollDo
  <2>1. pc[t] = "wpoll" /\ Stays /\ SigTypeOK'
    BY <1>SigDo DEF WritePoll, Stays
  <2>2. op[t] = "write"
    BY <2>1, Labels
  <2>3. PICK l \in {"wagain", "connect"} : GoTo(t, l)
    BY DEF WritePoll
  <2>4. Control(l, op[t]) /\ l \in PC
    BY <2>2, <2>3 DEF Control, PC, Waits
  <2>5. l \notin Taking \cup {"rdrop"} /\ pc[t] \notin Taking \cup {"rdrop"}
    BY <2>1, <2>3 DEF Taking
  <2> QED BY <2>1, <2>3, <2>4, <2>5, <1>StayDo DEF Stays, Taking
(* rwlock_timedwrite() looks at the mode again after task_connect().       *)
<1>WriteCheckDo.
  ASSUME RWInv, NEW t \in Task, WriteCheck(t)
  PROVE  RWInv'
  <2> USE <1>WriteCheckDo
  <2>1. pc[t] = "wcheck" /\ Stays /\ SigTypeOK'
    BY <1>SigDo DEF WriteCheck, Stays
  <2>2. op[t] = "write"
    BY <2>1, Labels
  <2>3. PICK l \in {"wdrop", "wait"} : GoTo(t, l)
    BY DEF WriteCheck
  <2>4. Control(l, op[t]) /\ l \in PC
    BY <2>2, <2>3 DEF Control, PC, Waits
  <2>5. l \notin Taking \cup {"rdrop"} /\ pc[t] \notin Taking \cup {"rdrop"}
    BY <2>1, <2>3 DEF Taking
  <2> QED BY <2>1, <2>3, <2>4, <2>5, <1>StayDo DEF Stays, Taking
(* rwlock_timedwrite() disconnects and starts over.                        *)
<1>WriteDropDo.
  ASSUME RWInv, NEW t \in Task, WriteDrop(t)
  PROVE  RWInv'
  <2> USE <1>WriteDropDo
  <2>1. pc[t] = "wdrop" /\ Stays /\ SigTypeOK' /\ GoTo(t, "wagain")
    BY <1>SigDo DEF WriteDrop, Stays
  <2>2. op[t] = "write"
    BY <2>1, Labels
  <2>3. Control("wagain", op[t]) /\ "wagain" \in PC
    BY <2>2 DEF Control, PC
  <2> QED BY <2>1, <2>3, <1>StayDo DEF Stays
(* The last reader to be disconnects and becomes the owner.                *)
<1>UnshareDropDo.
  ASSUME RWInv, NEW t \in Task, UnshareDrop(t)
  PROVE  RWInv'
  <2> USE <1>UnshareDropDo
  <2>1. pc[t] = "udrop" /\ Stays /\ SigTypeOK' /\ GoTo(t, "owner")
    BY <1>SigDo DEF UnshareDrop, Stays
  <2>2. op[t] = "unshare"
    BY <2>1, Labels
  <2>3. Control("owner", op[t]) /\ "owner" \in PC
    BY <2>2 DEF Control, PC
  <2> QED BY <2>1, <2>3, <1>StayDo DEF Stays
(* A call on signals alone. *)
<1>StandDo.
  ASSUME RWInv, NEW t \in Task, SigTypeOK', UNCHANGED pc, Stays
  PROVE  RWInv'
  <2> USE <1>StandDo
  <2>1. pc = [pc EXCEPT ![t] = pc[t]] /\ pc[t] \in PC
    BY StillThere DEF RWInv
  <2>2. Control(pc[t], op[t])
    BY DEF RWInv, TaskInv, ControlOf
  <2>3. PICK l \in PC : l = pc[t]
    BY <2>1
  <2>4. GoTo(t, l) /\ Control(l, op[t])
    BY <2>1, <2>2, <2>3 DEF GoTo
  <2> QED BY <2>3, <2>4, <1>StayDo DEF Stays
(* A label outside of the ones that matter to mode and count is reached.   *)
<1>PassDo.
  ASSUME RWInv, NEW t \in Task, NEW l \in PC, Control(l, op[t]), SigTypeOK', GoTo(t, l),
         Stays, l \notin Taking \cup {"rdrop"}, pc[t] \notin Taking \cup {"rdrop"}
  PROVE  RWInv'
  BY <1>PassDo, <1>StayDo DEF Stays, Taking
(* sig_broadcast(&rw_chmode) and sig_send(&rw_unshare,1)                   *)
<1>SendDo.
  ASSUME RWInv, NEW t \in Task,
         BroadcastProbe(t) \/ Broadcast(t) \/ UnshareProbe(t) \/ UnshareSend(t)
  PROVE  RWInv'
  <2> USE <1>SendDo
  <2>1. pc[t] \in {"cprobe", "csend", "uprobe", "usend"} /\ Stays
    BY DEF BroadcastProbe, Broadcast, UnshareProbe, UnshareSend, Stays
  <2>2. SigTypeOK'
    BY <1>SigDo DEF BroadcastProbe, Broadcast, UnshareProbe, UnshareSend
  <2>3. op[t] = "none"
    BY <2>1, Labels
  <2>4. CASE UNCHANGED pc
    BY <2>1, <2>2, <2>4, <1>StandDo
  <2>5. CASE ~UNCHANGED pc
    <3>1. \E l \in {"run", "csend", "usend"} : GoTo(t, l)
      BY <2>5 DEF BroadcastProbe, Broadcast, UnshareProbe, UnshareSend
    <3>2. PICK l \in {"run", "csend", "usend"} : GoTo(t, l)
      BY <3>1
    <3>3. Control(l, op[t]) /\ l \in PC
      BY <2>3, <3>2 DEF Control, PC
    <3>4. l \notin Taking \cup {"rdrop"} /\ pc[t] \notin Taking \cup {"rdrop"}
      BY <2>1, <3>2 DEF Taking
    <3> QED BY <2>1, <2>2, <3>2, <3>3, <3>4, <1>PassDo
  <2> QED BY <2>4, <2>5
(* rwlock_write() begins.                                                  *)
<1>WriteDo.
  ASSUME RWInv, NEW t \in Task, Write(t)
  PROVE  RWInv'
  <2> USE <1>WriteDo
  <2>1. /\ pc[t] = "run" /\ SigTypeOK'
        /\ pc' = [pc EXCEPT ![t] = "wagain"] /\ op' = [op EXCEPT ![t] = "write"]
        /\ UNCHANGED <<state, rw_xowner, reads, has, locks>> /\ retry' = retry
    BY <1>SigDo DEF Write, MayAcquire, Idle, Call, GoTo
  <2>2. op[t] = "none"
    BY <2>1, <1>AtRest
  <2>3. "wagain" \in PC /\ "write" \in Op /\ Control("wagain", "write")
    BY DEF PC, Op, Control
  <2>4. retry' \subseteq Task
    BY <2>1 DEF RWInv, TypeOK
  <2> QED BY <2>1, <2>2, <2>3, <2>4, <1>QuietDo
(* The CMPXCH that switches to write-mode, seen from t: nobody else reads. *)
<1>TakeDo.
  ASSUME RWInv, NEW t \in Task, NEW l \in {"owner", "udrop"}, NEW o \in Op, Control(l, o),
         \A u \in Task \ {t} : ~Counted(u) /\ ~Upgrading(u),
         rw_mode # "writing", SetState("writing", 1), GoTo(t, l), op' = [op EXCEPT ![t] = o],
         UNCHANGED <<sigVars, rw_xowner, reads, has, retry, locks>>,
         op[t] # "read", o # "read", o = "unshare" <=> op[t] = "unshare"
  PROVE  RWInv'
  <2> USE <1>TakeDo
  <2>1. TypeOK
    BY DEF RWInv
  <2>2. rl_recursion[t] \in Nat /\ locks[t] \in Seq({"r", "w"}) /\ l \in PC
    BY <2>1, StillThere DEF PC
  <2>3. /\ rw_mode' = "writing" /\ rw_ind' = 1 /\ rw_xowner' = rw_xowner
        /\ desc' = desc /\ rl_recursion' = rl_recursion /\ has' = has /\ locks' = locks
        /\ retry' = retry /\ pc' = [pc EXCEPT ![t] = l]
    BY DEF SetState, reads, GoTo
  <2>4. Move(t, l, o, rl_recursion[t], locks[t])
    BY <2>1, <2>3, StillThere DEF Move
  <2>5. /\ rw_mode' \in {"reading", "upgrading", "writing"} /\ rw_ind' \in Nat
        /\ rw_xowner' \in Task \cup {NoTask} /\ retry' \subseteq Task
    BY <2>1, <2>3, SMTT(60) DEF TypeOK
  <2>6. SigTypeOK'
    BY <1>SigDo
  <2>7. /\ TypeOK' /\ Others(t) /\ pc'[t] = l /\ op'[t] = o
        /\ rl_recursion'[t] = rl_recursion[t] /\ locks'[t] = locks[t]
    BY <2>1, <2>2, <2>4, <2>5, <2>6, <1>Moved, SMTT(60)
  <2>8. ControlOf(t)' /\ pc'[t] \in {"owner", "udrop"}
    BY <2>7 DEF ControlOf
  <2>9. (t \in desc' <=> t \in desc) /\ (t \in has' <=> t \in has)
    BY <2>3
  <2> QED BY <2>3, <2>7, <2>8, <2>9, <1>ExcludeStep
(* The switch to write-mode of a lock that nobody else reads.              *)
<1>TakeExclusiveDo.
  ASSUME RWInv, NEW t \in Task, TakeExclusive(t), op' = [op EXCEPT ![t] = "write"],
         UNCHANGED <<sigVars, rw_xowner, reads, has, retry, locks>>,
         op[t] \in {"none", "write"}
  PROVE  RWInv'
  <2> USE <1>TakeExclusiveDo
  <2>1. /\ rw_mode = "reading" /\ SetState("writing", 1) /\ GoTo(t, "owner")
        /\ rw_ind = 0 \/ (rw_ind = 1 /\ t \in desc)
    BY DEF TakeExclusive
  <2>2. t \in desc => Counted(t)
    BY DEF RWInv, TaskInv, DescOf, Counted
  <2>3. \A u \in Task \ {t} : ~Counted(u)
    BY <2>1, <2>2, <1>OnlyReader
  <2>4. \A u \in Task : ~Upgrading(u)
    BY <2>1 DEF RWInv, ModeInv
  <2>5. "write" \in Op /\ Control("owner", "write")
    BY DEF Op, Control
  <2> QED BY <2>1, <2>3, <2>4, <2>5, <1>TakeDo
(* rwlock_trywrite()                                                       *)
<1>TryWriteDo.
  ASSUME RWInv, NEW t \in Task, TryWrite(t)
  PROVE  RWInv'
  <2> USE <1>TryWriteDo
  <2>1. pc[t] = "run" /\ UNCHANGED sigVars
    BY DEF TryWrite, MayAcquire, Idle
  <2>2. op[t] = "none" /\ pc[t] # "rdrop"
    BY <2>1, <1>AtRest
  <2>3. pc = [pc EXCEPT ![t] = pc[t]] /\ op = [op EXCEPT ![t] = op[t]]
    BY StillThere DEF RWInv
  <2>4. CASE Recurse(t, "w") /\ UNCHANGED <<op, pc>>
    BY <2>1, <2>2, <2>3, <2>4, <1>RecurseDo
  <2>5. CASE /\ TakeExclusive(t) /\ Call(t, "write")
             /\ UNCHANGED <<rw_xowner, reads, has, retry, locks>>
    BY <2>1, <2>2, <2>5, <1>TakeExclusiveDo DEF Call
  <2> QED BY <2>4, <2>5 DEF TryWrite
(* wait_for_unshare: the two attempts.                                     *)
<1>UnsharedDo.
  ASSUME RWInv, NEW t \in Task, NEW l \in {"owner", "udrop"},
         op[t] = "unshare", pc[t] \notin {"owner", "udrop"},
         Unshared, SetState("writing", 1), GoTo(t, l),
         UNCHANGED <<sigVars, rw_xowner, reads, call, locks>>
  PROVE  RWInv'
  <2> USE <1>UnsharedDo
  <2>1. rw_mode = "upgrading" /\ rw_ind = 0 /\ Upgrading(t)
    BY DEF Unshared, Upgrading
  <2>2. \A u \in Task \ {t} : ~Counted(u)
    BY <2>1, <1>OnlyUpgrader
  <2>3. \A u \in Task \ {t} : ~Upgrading(u)
    BY <2>1 DEF RWInv, ModeInv
  <2>4. "unshare" \in Op /\ Control(l, "unshare") /\ rw_mode # "writing"
    BY <2>1 DEF Op, Control
  <2>5. op = [op EXCEPT ![t] = op[t]]
    BY StillThere DEF RWInv
  <2>6. op' = [op EXCEPT ![t] = "unshare"] /\ UNCHANGED <<has, retry>>
    BY <2>5 DEF call
  <2> QED BY <2>2, <2>3, <2>4, <2>6, <1>TakeDo
(* wait_for_unshare polls for the other readers to be gone.                *)
<1>UnsharePollDo.
  ASSUME RWInv, NEW t \in Task, UnsharePoll(t)
  PROVE  RWInv'
  <2> USE <1>UnsharePollDo
  <2>1. pc[t] = "upoll" /\ UNCHANGED <<sigVars, rw_xowner, reads, call, locks>>
    BY DEF UnsharePoll
  <2>2. op[t] = "unshare" /\ SigTypeOK'
    BY <2>1, Labels, <1>SigDo
  <2>3. CASE Unshared /\ SetState("writing", 1) /\ GoTo(t, "owner")
    BY <2>1, <2>2, <2>3, <1>UnsharedDo
  <2>4. CASE UNCHANGED state /\ GoTo(t, "connect")
    <3>1. Stays /\ Control("connect", op[t]) /\ "connect" \in PC
      BY <2>1, <2>2, <2>4 DEF Stays, Control, PC, Waits
    <3> QED BY <2>1, <2>2, <2>4, <3>1, <1>PassDo DEF Taking
  <2> QED BY <2>3, <2>4 DEF UnsharePoll
(* wait_for_unshare looks again after task_connect().                      *)
<1>UnshareCheckDo.
  ASSUME RWInv, NEW t \in Task, UnshareCheck(t)
  PROVE  RWInv'
  <2> USE <1>UnshareCheckDo
  <2>1. pc[t] = "ucheck" /\ UNCHANGED <<sigVars, rw_xowner, reads, call, locks>>
    BY DEF UnshareCheck
  <2>2. op[t] = "unshare" /\ SigTypeOK'
    BY <2>1, Labels, <1>SigDo
  <2>3. CASE Unshared /\ SetState("writing", 1) /\ GoTo(t, "udrop")
    BY <2>1, <2>2, <2>3, <1>UnsharedDo
  <2>4. CASE UNCHANGED state /\ GoTo(t, "wait")
    <3>1. Stays /\ Control("wait", op[t]) /\ "wait" \in PC
      BY <2>1, <2>2, <2>4 DEF Stays, Control, PC, Waits
    <3> QED BY <2>1, <2>2, <2>4, <3>1, <1>PassDo DEF Taking
  <2> QED BY <2>3, <2>4 DEF UnshareCheck
(* again: the switch of rwlock_timedwrite()                                *)
<1>WriteAgainDo.
  \A t \in Task :
    RWInv /\ WriteAgain(t)
      => RWInv'
  (* Upgrade-mode begins: the caller's own lock is no longer counted.        *)
  <2>UpgradeStep.
    ASSUME RWInv, TypeOK', NEW t \in Task, Others(t),
           rw_mode = "reading", rw_mode' = "upgrading", rw_xowner' = rw_xowner,
           rw_ind' = IF t \in desc THEN rw_ind - 1 ELSE rw_ind,
           rl_recursion'[t] = rl_recursion[t], locks'[t] = locks[t],
           t \in desc' <=> t \in desc, t \in has' <=> t \in desc,
           op[t] = "write", op'[t] = "unshare",
           pc[t] # "rdrop", pc'[t] = "upoll"
    PROVE  RWInv'
    <3> USE <2>UpgradeStep
    <3>1. LocksOf(t) /\ DescOf(t)
      BY DEF RWInv, TaskInv
    <3>2. \A u \in Task : ~Excludes(u) /\ ~Upgrading(u)
      BY <1>Alone
    <3>3. ~Wrote(t) /\ ~Wrote(t)'
      BY <3>2 DEF Wrote, Excludes
    <3>4. ~Excludes(t)' /\ Upgrading(t)' /\ (Counted(t)' <=> Counted(t))
      BY <3>3 DEF Excludes, Upgrading, Counted, Taking
    <3>5. LocksOf(t)'
      BY <3>1, <3>3 DEF LocksOf
    <3>6. DescOf(t)'
      BY <3>1, <3>3 DEF DescOf, Taking
    <3>7. ControlOf(t)'
      BY DEF ControlOf, Control
    <3>8. TaskInv(t)'
      BY <3>5, <3>6, <3>7 DEF TaskInv
    <3>9. ModeInv'
      BY <3>2, <3>4, <1>ModeStep DEF RWInv
    <3>10. has = {} /\ rw_ind = Cardinality(Readers) /\ rw_ind \in Nat
      BY <1>NoneUpgrading DEF RWInv, TypeOK
    <3>11. Readers' = Readers
      BY <3>4, <1>CountChange
    <3>12. Cardinality(has) = 0
      BY <3>10 DEF RWInv, Sizes
    <3>13. rw_ind' + Cardinality(has') = Cardinality(Readers')
      <4>1. CASE t \in desc
        <5>1. Cardinality(has') = Cardinality(has) + 1
          BY <4>1, <3>10, <1>CountChange
        <5>2. rw_ind' = rw_ind - 1
          BY <4>1
        <5> QED BY <5>1, <5>2, <3>10, <3>11, <3>12, SMTT(60)
      <4>2. CASE t \notin desc
        <5>1. has' = has /\ rw_ind' = rw_ind
          BY <4>2, <3>10, <1>CountChange
        <5> QED BY <5>1, <3>10, <3>11, <3>12, SMTT(60)
      <4> QED BY <4>1, <4>2
    <3> QED BY <3>2, <3>4, <3>8, <3>9, <3>13, <1>Combine
  (* Upgrade-mode begins.                                                    *)
  <2>BeginUpgradeDo.
    ASSUME RWInv, NEW t \in Task, pc[t] = "wagain", BeginUpgrade(t, "unshare"),
           UNCHANGED sigVars
    PROVE  RWInv'
    <3> USE <2>BeginUpgradeDo
    <3>1. TypeOK
      BY DEF RWInv
    <3>2. /\ rl_recursion[t] \in Nat /\ locks[t] \in Seq({"r", "w"}) /\ rw_ind \in Nat
          /\ desc \subseteq Task /\ has \subseteq Task
      BY <3>1, StillThere DEF TypeOK
    <3>3. op[t] = "write"
      BY Labels
    <3>4. /\ rw_mode = "reading" /\ rw_mode' = "upgrading" /\ rw_xowner' = rw_xowner
          /\ rw_ind' = IF t \in desc THEN rw_ind - 1 ELSE rw_ind
          /\ has' = IF t \in desc THEN has \cup {t} ELSE has
          /\ rw_ind # 0
      BY DEF BeginUpgrade, SetState
    <3>5. /\ desc' = desc /\ rl_recursion' = rl_recursion /\ locks' = locks /\ retry' = retry
          /\ pc' = [pc EXCEPT ![t] = "upoll"] /\ op' = [op EXCEPT ![t] = "unshare"]
      BY DEF BeginUpgrade, reads, Call, GoTo
    <3>6. has' \ {t} = has \ {t} /\ desc' \ {t} = desc \ {t}
      BY <3>4, <3>5
    <3>7. Move(t, "upoll", "unshare", rl_recursion[t], locks[t])
      BY <3>1, <3>4, <3>5, <3>6, StillThere DEF Move
    <3>8. /\ rw_mode' \in {"reading", "upgrading", "writing"}
          /\ rw_xowner' \in Task \cup {NoTask} /\ retry' \subseteq Task
      BY <3>1, <3>4, <3>5 DEF TypeOK
    <3>9. rw_ind' \in Nat
      BY <3>2, <3>4, SMTT(60)
    <3>10. "upoll" \in PC /\ "unshare" \in Op /\ SigTypeOK'
      BY <1>SigDo DEF PC, Op
    <3>11. /\ TypeOK' /\ Others(t) /\ pc'[t] = "upoll" /\ op'[t] = "unshare"
           /\ rl_recursion'[t] = rl_recursion[t] /\ locks'[t] = locks[t]
      BY <3>1, <3>2, <3>7, <3>8, <3>9, <3>10, <1>Moved, SMTT(60)
    <3>12. t \notin has
      BY <3>3 DEF RWInv, TaskInv, DescOf
    <3>13. (t \in desc' <=> t \in desc) /\ (t \in has' <=> t \in desc)
      BY <3>4, <3>5, <3>12
    <3> QED BY <3>3, <3>4, <3>11, <3>13, <2>UpgradeStep
  <2> SUFFICES ASSUME RWInv, NEW t \in Task, WriteAgain(t)
               PROVE  RWInv'
    OBVIOUS
  <2>1. pc[t] = "wagain" /\ UNCHANGED sigVars
    BY DEF WriteAgain
  <2>2. op[t] = "write" /\ SigTypeOK'
    BY <2>1, Labels, <1>SigDo
  <2>3. CASE Recurse(t, "w") /\ Call(t, "none") /\ GoTo(t, "run")
    BY <2>1, <2>2, <2>3, <1>RecurseDo DEF Call, GoTo
  <2>4. CASE GoTo(t, "wpoll") /\ UNCHANGED <<state, rw_xowner, reads, call, locks>>
    <3>1. Stays /\ Control("wpoll", op[t]) /\ "wpoll" \in PC
      BY <2>2, <2>4 DEF Stays, Control, PC
    <3> QED BY <2>1, <2>2, <2>4, <3>1, <1>PassDo DEF Taking
  <2>5. CASE ThrowRetry(t) /\ Call(t, "none")
    <3>1. /\ pc' = [pc EXCEPT ![t] = "run"] /\ op' = [op EXCEPT ![t] = "none"]
          /\ UNCHANGED <<state, rw_xowner, reads, has, locks>>
      BY <2>5 DEF ThrowRetry, Call, GoTo
    <3>2. retry' \subseteq Task
      BY <2>5 DEF ThrowRetry, RWInv, TypeOK
    <3>3. "run" \in PC /\ "none" \in Op /\ Control("run", "none")
      BY DEF PC, Op, Control
    <3> QED BY <2>1, <2>2, <3>1, <3>2, <3>3, <1>QuietDo
  <2>6. CASE TakeExclusive(t) /\ UNCHANGED <<rw_xowner, reads, call, locks>>
    <3>1. op = [op EXCEPT ![t] = op[t]]
      BY StillThere DEF RWInv
    <3>2. op' = [op EXCEPT ![t] = "write"] /\ UNCHANGED <<has, retry>>
      BY <2>2, <2>6, <3>1 DEF call
    <3> QED BY <2>1, <2>2, <2>6, <3>2, <1>TakeExclusiveDo
  <2>7. CASE BeginUpgrade(t, "unshare")
    BY <2>1, <2>7, <2>BeginUpgradeDo
  <2> QED BY <2>3, <2>4, <2>5, <2>6, <2>7 DEF WriteAgain
(* got_lock                                                                *)
<1>SetOwnerDo.
  \A t \in Task :
    RWInv /\ SetOwner(t)
      => RWInv'
  (* got_lock: the thread records itself as the owner.                       *)
  <2>OwnerStep.
    ASSUME RWInv, TypeOK', NEW t \in Task, Others(t),
           pc[t] = "owner", pc'[t] = "run", op'[t] = "none",
           UNCHANGED <<rw_mode, rw_ind>>, rw_xowner' = t,
           rl_recursion'[t] = rl_recursion[t], locks'[t] = Append(locks[t], "w"),
           op[t] # "read", t \in desc' <=> t \in desc, t \notin has'
    PROVE  RWInv'
    <3> USE <2>OwnerStep
    <3> DEFINE n == rl_recursion[t]
               k == Len(locks[t])
    <3>1. n \in Nat /\ k \in Nat /\ locks[t] \in Seq({"r", "w"})
      BY TaskTypes DEF RWInv
    <3>2. /\ Len(locks'[t]) = k + 1 /\ locks'[t][k + 1] = "w"
          /\ \A i \in 1 .. k : locks'[t][i] = locks[t][i]
      BY <3>1, SMTT(60)
    <3>3. LocksOf(t) /\ DescOf(t)
      BY DEF RWInv, TaskInv
    <3>4. ~Wrote(t)
      BY <3>3 DEF DescOf, Taking
    <3>5. n = k
      BY <3>4, NotWrote
    <3>6. n < k + 1 /\ n <= k + 1
      BY <3>1, <3>5, SMTT(60)
    <3>7. Wrote(t)'
      BY <3>2, <3>6 DEF Wrote
    <3>8. LocksOf(t)'
      BY <3>2, <3>3, <3>5, <3>6 DEF LocksOf
    <3>9. DescOf(t)'
      BY <3>3, <3>7 DEF DescOf, Taking
    <3>10. ControlOf(t)'
      BY DEF ControlOf, Control
    <3>11. TaskInv(t)'
      BY <3>8, <3>9, <3>10 DEF TaskInv
    <3>12. Excludes(t) /\ Excludes(t)' /\ ~Upgrading(t)'
      BY <3>7 DEF Excludes, Upgrading, Taking
    <3>13. rw_mode = "writing" /\ rw_ind = 1
      BY <3>4, <3>12 DEF RWInv, ModeInv, CountInv
    <3>14. \A u \in Task \ {t} : ~Excludes(u) /\ ~Counted(u) /\ ~Upgrading(u)
      BY <3>12, <3>13, <1>Alone
    <3>15. ModeInv'
      BY <3>12, <3>13, <3>14, <1>ModeStep DEF RWInv
    <3>16. rw_ind' = Len(locks'[t]) - rl_recursion'[t]
      BY <3>1, <3>2, <3>5, <3>13, SMTT(60)
    <3> QED BY <3>7, <3>11, <3>13, <3>14, <3>15, <3>16, <1>Combine
  <2> SUFFICES ASSUME RWInv, NEW t \in Task, SetOwner(t)
               PROVE  RWInv'
    OBVIOUS
  <2>1. TypeOK /\ pc[t] = "owner"
    BY DEF RWInv, SetOwner
  <2>2. op[t] \in {"read", "write", "unshare"} /\ op[t] # "read"
    BY <2>1, Labels
  <2>3. op[t] # "upgrade"
    BY <2>2
  <2>4. /\ UNCHANGED <<rw_mode, rw_ind>> /\ rw_xowner' = t
        /\ locks' = [locks EXCEPT ![t] = Append(locks[t], "w")]
    BY <2>3 DEF SetOwner, state
  <2>5. /\ desc' = desc /\ rl_recursion' = rl_recursion /\ has' = has \ {t} /\ retry' = retry
        /\ pc' = [pc EXCEPT ![t] = "run"] /\ op' = [op EXCEPT ![t] = "none"]
    BY DEF SetOwner, reads, Call, GoTo
  <2>6. locks[t] \in Seq({"r", "w"}) /\ rl_recursion[t] \in Nat
    BY <2>1, StillThere
  <2>7. Append(locks[t], "w") \in Seq({"r", "w"})
    BY <2>6, SMTT(60)
  <2>8. PICK q \in Seq({"r", "w"}) : q = Append(locks[t], "w")
    BY <2>7
  <2>9. \A u \in Task : rw_xowner = u => u = t
    <3>1. Excludes(t)
      BY <2>1 DEF Excludes, Taking
    <3>2. \A u \in Task : rw_xowner = u => Excludes(u)
      BY DEF RWInv, TaskInv, DescOf, Excludes
    <3> QED BY <3>1, <3>2 DEF RWInv, ModeInv
  <2>10. Move(t, "run", "none", rl_recursion[t], q)
    <3>1. \A u \in Task \ {t} : rw_xowner' = u <=> rw_xowner = u
      BY <2>4, <2>9
    <3>2. desc' \ {t} = desc \ {t} /\ has' \ {t} = has \ {t}
      BY <2>5
    <3>3. rl_recursion' = [rl_recursion EXCEPT ![t] = rl_recursion[t]]
      BY <2>1, <2>5, StillThere
    <3> QED BY <2>4, <2>5, <2>8, <3>1, <3>2, <3>3 DEF Move
  <2>11. /\ rw_mode' \in {"reading", "upgrading", "writing"} /\ rw_ind' \in Nat
         /\ rw_xowner' \in Task \cup {NoTask} /\ retry' \subseteq Task
    BY <2>1, <2>4, <2>5 DEF TypeOK
  <2>12. "run" \in PC /\ "none" \in Op /\ SigTypeOK'
    BY <1>SigDo DEF PC, Op, SetOwner
  <2>13. /\ TypeOK' /\ Others(t) /\ pc'[t] = "run" /\ op'[t] = "none"
         /\ rl_recursion'[t] = rl_recursion[t] /\ locks'[t] = q
    BY <2>1, <2>6, <2>10, <2>11, <2>12, <1>Moved, SMTT(60)
  <2>14. t \notin has' /\ (t \in desc' <=> t \in desc)
    BY <2>5
  <2> QED BY <2>1, <2>2, <2>4, <2>8, <2>13, <2>14, <2>OwnerStep
(* A thread gives up in upgrade-mode.                                      *)
<1>RevertDo.
  \A t \in Task :
    RWInv /\ Revert(t)
      => RWInv'
  (* A thread gives up in upgrade-mode: its own lock is counted again.       *)
  <2>RevertStep.
    ASSUME RWInv, TypeOK', NEW t \in Task, Others(t),
           rw_mode' = "reading", rw_xowner' = rw_xowner,
           rw_ind' = IF t \in has THEN rw_ind + 1 ELSE rw_ind,
           rl_recursion'[t] = rl_recursion[t], locks'[t] = locks[t],
           t \in desc' <=> t \in desc, t \notin has',
           op[t] = "unshare", op'[t] = "none", pc[t] = "revert", pc'[t] = "run"
    PROVE  RWInv'
    <3> USE <2>RevertStep
    <3>1. LocksOf(t) /\ DescOf(t)
      BY DEF RWInv, TaskInv
    <3>2. Upgrading(t)
      BY DEF Upgrading
    <3>3. rw_mode = "upgrading"
      BY <3>2 DEF RWInv, ModeInv
    <3>4. \A u \in Task : ~Excludes(u)
      BY <3>3, <1>Alone
    <3>5. \A u \in Task \ {t} : ~Upgrading(u)
      BY <3>2, <1>Alone
    <3>6. ~Wrote(t) /\ ~Wrote(t)'
      BY <3>4 DEF Wrote, Excludes
    <3>7. ~Excludes(t)' /\ ~Upgrading(t)' /\ (Counted(t)' <=> Counted(t))
      BY <3>6 DEF Excludes, Upgrading, Counted, Taking
    <3>8. LocksOf(t)'
      BY <3>1, <3>6 DEF LocksOf
    <3>9. DescOf(t)'
      BY <3>1, <3>6 DEF DescOf, Taking
    <3>10. ControlOf(t)'
      BY DEF ControlOf, Control
    <3>11. TaskInv(t)'
      BY <3>8, <3>9, <3>10 DEF TaskInv
    <3>12. ModeInv'
      BY <3>4, <3>5, <3>7, <1>ModeStep DEF RWInv
    <3>13. Readers' = Readers
      BY <3>7, <1>CountChange
    <3>14. rw_ind + Cardinality(has) = Cardinality(Readers)
      BY <3>3 DEF RWInv, CountInv
    <3>15. rw_ind \in Nat /\ Cardinality(has) \in Nat
      BY <1>HasReads, TaskTypes DEF RWInv
    <3>16. rw_ind' + Cardinality(has') = Cardinality(Readers')
      <4>1. CASE t \in has
        <5>1. Cardinality(has') = Cardinality(has) - 1 /\ rw_ind' = rw_ind + 1
          BY <4>1, <1>CountChange
        <5> QED BY <5>1, <3>13, <3>14, <3>15, SMTT(60)
      <4>2. CASE t \notin has
        BY <4>2, <3>13, <3>14, <1>CountChange
      <4> QED BY <4>1, <4>2
    <3> QED BY <3>4, <3>7, <3>11, <3>12, <3>16, <1>Combine
  <2> SUFFICES ASSUME RWInv, NEW t \in Task, Revert(t)
               PROVE  RWInv'
    OBVIOUS
  <2>1. TypeOK /\ pc[t] = "revert"
    BY DEF RWInv, Revert
  <2>2. op[t] = "unshare"
    BY <2>1, Labels
  <2>3. /\ rw_mode' = "reading" /\ rw_ind' = IF t \in has THEN rw_ind + 1 ELSE rw_ind
        /\ rw_xowner' = rw_xowner
    BY DEF Revert, SetState
  <2>4. /\ desc' = desc /\ rl_recursion' = rl_recursion /\ has' = has \ {t} /\ retry' = retry
        /\ pc' = [pc EXCEPT ![t] = "run"] /\ op' = [op EXCEPT ![t] = "none"] /\ locks' = locks
    BY DEF Revert, reads, Call, GoTo
  <2>5. locks[t] \in Seq({"r", "w"}) /\ rl_recursion[t] \in Nat /\ rw_ind \in Nat
    BY <2>1, StillThere DEF TypeOK
  <2>6. desc' \ {t} = desc \ {t} /\ has' \ {t} = has \ {t}
    BY <2>4
  <2>7. Move(t, "run", "none", rl_recursion[t], locks[t])
    BY <2>1, <2>3, <2>4, <2>6, StillThere DEF Move
  <2>8. rw_ind' \in Nat
    BY <2>3, <2>5, SMTT(60)
  <2>9. /\ rw_mode' \in {"reading", "upgrading", "writing"}
        /\ rw_xowner' \in Task \cup {NoTask} /\ retry' \subseteq Task
    BY <2>1, <2>3, <2>4 DEF TypeOK
  <2>10. "run" \in PC /\ "none" \in Op /\ SigTypeOK'
    BY <1>SigDo DEF PC, Op, Revert
  <2>11. /\ TypeOK' /\ Others(t) /\ pc'[t] = "run" /\ op'[t] = "none"
         /\ rl_recursion'[t] = rl_recursion[t] /\ locks'[t] = locks[t]
    BY <2>1, <2>5, <2>7, <2>8, <2>9, <2>10, <1>Moved, SMTT(60)
  <2>12. t \notin has' /\ (t \in desc' <=> t \in desc)
    BY <2>4
  <2> QED BY <2>1, <2>2, <2>3, <2>11, <2>12, <2>RevertStep
(* The first read-lock of a thread: counted now, or in the re-check.       *)
<1>FirstReadDo.
  ASSUME RWInv, NEW t \in Task, SigTypeOK', op[t] \in {"none", "read"}, pc[t] \notin Taking,
         rl_recursion[t] = 0, ~Wrote(t),
         SetRecursion(t, 1), Got(t, "r"), t \in desc', desc' \ {t} = desc \ {t},
         has' = has, retry' = retry, rw_mode' = rw_mode, rw_xowner' = rw_xowner,
         pc' = [pc EXCEPT ![t] = "run"], op' = [op EXCEPT ![t] = "none"],
         \/ pc[t] = "rdrop" /\ rw_ind' = rw_ind
         \/ pc[t] # "rdrop" /\ rw_mode = "reading" /\ rw_ind' = rw_ind + 1
  PROVE  RWInv'
  <2> USE <1>FirstReadDo
  <2>1. TypeOK
    BY DEF RWInv
  <2>2. locks[t] = <<>>
    BY NotWrote
  <2>3. Append(<<>>, "r") = <<"r">> /\ <<"r">> \in Seq({"r", "w"})
    BY SMTT(60)
  <2>4. PICK q \in Seq({"r", "w"}) : q = <<"r">>
    BY <2>3
  <2>5. /\ locks' = [locks EXCEPT ![t] = q]
        /\ rl_recursion' = [rl_recursion EXCEPT ![t] = 1]
    BY <2>2, <2>3, <2>4 DEF Got, SetRecursion
  <2>6. Move(t, "run", "none", 1, q)
    BY <2>5 DEF Move
  <2>7. rw_ind \in Nat
    BY <2>1 DEF TypeOK
  <2>8. rw_ind' \in Nat
    BY <2>7, SMTT(60)
  <2>9. /\ rw_mode' \in {"reading", "upgrading", "writing"}
        /\ rw_xowner' \in Task \cup {NoTask} /\ retry' \subseteq Task
    BY <2>1 DEF TypeOK
  <2>10. "run" \in PC /\ "none" \in Op /\ 1 \in Nat
    BY SMTT(60) DEF PC, Op
  <2>11. /\ TypeOK' /\ Others(t) /\ pc'[t] = "run" /\ op'[t] = "none"
         /\ rl_recursion'[t] = 1 /\ locks'[t] = q
    BY <2>1, <2>6, <2>8, <2>9, <2>10, <1>Moved, SMTT(60)
  <2>12. t \in has' <=> t \in has
    OBVIOUS
  <2> QED BY <2>2, <2>4, <2>11, <2>12, <1>ReadStep
(* A thread inside of rwlock_timedread() has no lock yet.                  *)
<1>NoneYet.
  ASSUME RWInv, NEW t \in Task, op[t] = "read"
  PROVE  rl_recursion[t] = 0 /\ ~Wrote(t) /\ locks[t] = <<>> /\ t \in desc /\ t \notin has
  <2> USE <1>NoneYet
  <2>1. locks[t] = <<>> /\ t \in desc /\ t \notin has /\ rl_recursion[t] <= Len(locks[t])
    BY DEF RWInv, TaskInv, DescOf, LocksOf
  <2>2. rl_recursion[t] \in Nat /\ Len(<<>>) = 0
    BY StillThere, SMTT(60) DEF RWInv
  <2>3. rl_recursion[t] = 0
    BY <2>1, <2>2, SMTT(60)
  <2> QED BY <2>1, <2>2, <2>3, SMTT(60) DEF Wrote
(* acquire_read_lock, before and after connecting.                         *)
<1>ReadAcquireDo.
  ASSUME RWInv, NEW t \in Task, ReadAcquire(t)
  PROVE  RWInv'
  <2> USE <1>ReadAcquireDo
  <2>1. /\ pc[t] = "racquire" /\ rw_xowner' = rw_xowner
        /\ desc' = desc /\ has' = has /\ retry' = retry /\ SigTypeOK'
    BY <1>SigDo DEF ReadAcquire
  <2>2. op[t] = "read"
    BY <2>1, Labels
  <2>3. CASE /\ rw_mode = "reading" /\ SetState("reading", rw_ind + 1)
             /\ SetRecursion(t, 1) /\ Got(t, "r") /\ Call(t, "none") /\ GoTo(t, "run")
    <3>1. rl_recursion[t] = 0 /\ ~Wrote(t) /\ t \in desc' /\ desc' \ {t} = desc \ {t}
      BY <2>1, <2>2, <1>NoneYet
    <3>2. pc[t] \notin Taking /\ pc[t] # "rdrop"
      BY <2>1 DEF Taking
    <3>3. /\ rw_mode' = rw_mode /\ rw_ind' = rw_ind + 1
          /\ pc' = [pc EXCEPT ![t] = "run"] /\ op' = [op EXCEPT ![t] = "none"]
      BY <2>3 DEF SetState, Call, GoTo
    <3> QED BY <2>1, <2>2, <2>3, <3>1, <3>2, <3>3, <1>FirstReadDo
  <2>4. CASE GoTo(t, "connect") /\ UNCHANGED <<state, rl_recursion, op, locks>>
    <3>1. Stays /\ Control("connect", op[t]) /\ "connect" \in PC
      BY <2>1, <2>2, <2>4 DEF Stays, Control, PC, Waits, reads, call
    <3> QED BY <2>1, <2>4, <3>1, <1>PassDo DEF Taking
  <2> QED BY <2>3, <2>4 DEF ReadAcquire
(* rwlock_timedread() disconnects and has its lock.                        *)
<1>ReadDropDo.
  ASSUME RWInv, NEW t \in Task, ReadDrop(t)
  PROVE  RWInv'
  <2> USE <1>ReadDropDo
  <2>1. /\ pc[t] = "rdrop" /\ rw_xowner' = rw_xowner /\ rw_mode' = rw_mode /\ rw_ind' = rw_ind
        /\ desc' = desc /\ has' = has /\ retry' = retry /\ SigTypeOK'
    BY <1>SigDo DEF ReadDrop, state
  <2>2. /\ SetRecursion(t, 1) /\ Got(t, "r")
        /\ pc' = [pc EXCEPT ![t] = "run"] /\ op' = [op EXCEPT ![t] = "none"]
    BY DEF ReadDrop, Call, GoTo
  <2>3. op[t] = "read"
    BY <2>1, Labels
  <2>4. rl_recursion[t] = 0 /\ ~Wrote(t) /\ t \in desc' /\ desc' \ {t} = desc \ {t}
    BY <2>1, <2>3, <1>NoneYet
  <2>5. pc[t] \notin Taking
    BY <2>1 DEF Taking
  <2> QED BY <2>1, <2>2, <2>3, <2>4, <2>5, <1>FirstReadDo
(* rwlock_timedread() looks at the mode again after task_connect().        *)
<1>ReadCheckDo.
  \A t \in Task :
    RWInv /\ ReadCheck(t)
      => RWInv'
  (* The re-check after connecting counts the thread: it has the read-lock   *)
  (* before it has recorded it.                                              *)
  <2>WinReadStep.
    ASSUME RWInv, TypeOK', NEW t \in Task, Others(t),
           rw_mode = "reading", rw_mode' = "reading", rw_ind' = rw_ind + 1,
           rw_xowner' = rw_xowner,
           rl_recursion'[t] = rl_recursion[t], locks'[t] = locks[t], op'[t] = op[t],
           op[t] = "read", t \in desc' <=> t \in desc, t \in has' <=> t \in has,
           pc[t] = "rcheck", pc'[t] = "rdrop"
    PROVE  RWInv'
    <3> USE <2>WinReadStep
    <3>1. LocksOf(t) /\ DescOf(t)
      BY DEF RWInv, TaskInv
    <3>2. rl_recursion[t] \in Nat /\ Len(locks[t]) \in Nat
      BY TaskTypes DEF RWInv
    <3>3. Len(locks[t]) = 0
      BY <3>1, SMTT(60) DEF DescOf
    <3>4. rl_recursion[t] <= Len(locks[t])
      BY <3>1 DEF LocksOf
    <3>5. ~(rl_recursion[t] > 0) /\ ~(rl_recursion[t] < Len(locks[t]))
      BY <3>2, <3>3, <3>4, SMTT(60)
    <3>6. ~Wrote(t) /\ ~Wrote(t)'
      BY <3>5 DEF Wrote
    <3>7. ~Excludes(t)' /\ ~Upgrading(t)' /\ Counted(t)' /\ ~Counted(t)
      BY <3>5, <3>6 DEF Excludes, Upgrading, Counted, Taking
    <3>8. LocksOf(t)'
      BY <3>1, <3>6 DEF LocksOf
    <3>9. DescOf(t)'
      BY <3>1, <3>6 DEF DescOf, Taking
    <3>10. ControlOf(t)'
      BY DEF ControlOf, Control
    <3>11. TaskInv(t)'
      BY <3>8, <3>9, <3>10 DEF TaskInv
    <3>12. \A u \in Task : ~Excludes(u) /\ ~Upgrading(u)
      BY <1>Alone
    <3>13. ModeInv'
      BY <3>7, <3>12, <1>ModeStep DEF RWInv
    <3>14. has' = has /\ Cardinality(Readers') = Cardinality(Readers) + 1
      BY <3>7, <1>CountChange
    <3>15. rw_ind \in Nat /\ Cardinality(has) \in Nat /\ Cardinality(Readers) \in Nat
      BY <1>HasReads, TaskTypes DEF RWInv
    <3>16. rw_ind + Cardinality(has) = Cardinality(Readers)
      BY DEF RWInv, CountInv
    <3>17. rw_ind' + Cardinality(has') = Cardinality(Readers')
      BY <3>14, <3>15, <3>16, SMTT(60)
    <3> QED BY <3>7, <3>11, <3>12, <3>13, <3>17, <1>Combine
  <2> SUFFICES ASSUME RWInv, NEW t \in Task, ReadCheck(t)
               PROVE  RWInv'
    OBVIOUS
  <2>1. /\ pc[t] = "rcheck" /\ SigTypeOK'
        /\ UNCHANGED <<sigVars, rw_xowner, reads, call, locks>>
    BY <1>SigDo DEF ReadCheck
  <2>2. op[t] = "read" /\ TypeOK
    BY <2>1, Labels DEF RWInv
  <2>3. CASE rw_mode = "reading" /\ SetState("reading", rw_ind + 1) /\ GoTo(t, "rdrop")
    <3>1. /\ rw_mode' = "reading" /\ rw_ind' = rw_ind + 1 /\ rw_xowner' = rw_xowner
          /\ desc' = desc /\ rl_recursion' = rl_recursion /\ has' = has /\ locks' = locks
          /\ retry' = retry /\ op' = op /\ pc' = [pc EXCEPT ![t] = "rdrop"]
      BY <2>1, <2>3 DEF SetState, reads, call, GoTo
    <3>2. Move(t, "rdrop", op[t], rl_recursion[t], locks[t])
      BY <2>2, <3>1, StillThere DEF Move
    <3>3. /\ rl_recursion[t] \in Nat /\ locks[t] \in Seq({"r", "w"})
          /\ "rdrop" \in PC /\ op[t] \in Op /\ rw_ind \in Nat
      BY <2>2, StillThere DEF PC, TypeOK
    <3>4. rw_ind' \in Nat
      BY <3>1, <3>3, SMTT(60)
    <3>5. /\ rw_mode' \in {"reading", "upgrading", "writing"}
          /\ rw_xowner' \in Task \cup {NoTask} /\ retry' \subseteq Task
      BY <2>2, <3>1 DEF TypeOK
    <3>6. /\ TypeOK' /\ Others(t) /\ pc'[t] = "rdrop" /\ op'[t] = op[t]
          /\ rl_recursion'[t] = rl_recursion[t] /\ locks'[t] = locks[t]
      BY <2>1, <2>2, <3>2, <3>3, <3>4, <3>5, <1>Moved, SMTT(60)
    <3>7. (t \in has' <=> t \in has) /\ (t \in desc' <=> t \in desc)
      BY <3>1
    <3> QED BY <2>1, <2>2, <2>3, <3>1, <3>6, <3>7, <2>WinReadStep
  <2>4. CASE UNCHANGED state /\ GoTo(t, "wait")
    <3>1. Stays /\ Control("wait", op[t]) /\ "wait" \in PC
      BY <2>1, <2>2, <2>4 DEF Stays, Control, PC, Waits
    <3> QED BY <2>1, <2>4, <3>1, <1>PassDo DEF Taking
  <2> QED BY <2>3, <2>4 DEF ReadCheck
(* rwlock_tryread()                                                        *)
<1>TryReadDo.
  ASSUME RWInv, NEW t \in Task, TryRead(t)
  PROVE  RWInv'
  <2> USE <1>TryReadDo
  <2>1. pc[t] = "run" /\ UNCHANGED <<sigVars, pc>> /\ SigTypeOK' /\ TypeOK
    BY <1>SigDo DEF TryRead, MayAcquire, Idle, RWInv
  <2>2. op[t] = "none" /\ t \notin has /\ pc[t] \notin Taking /\ pc[t] # "rdrop"
    BY <2>1, <1>AtRest
  <2>3. /\ pc = [pc EXCEPT ![t] = pc[t]] /\ op = [op EXCEPT ![t] = op[t]]
        /\ rl_recursion = [rl_recursion EXCEPT ![t] = rl_recursion[t]]
    BY <2>1, StillThere
  <2>4. CASE Recurse(t, "r") /\ UNCHANGED op
    BY <2>1, <2>2, <2>3, <2>4, <1>RecurseDo
  <2>5. CASE /\ rw_mode # "writing" /\ rl_recursion[t] > 0
             /\ SetRecursion(t, rl_recursion[t] + 1) /\ Got(t, "r")
             /\ UNCHANGED <<state, rw_xowner, desc, call>>
    BY <2>1, <2>5, <1>ReadAgainDo
  <2>6. CASE /\ rw_mode = "reading" /\ rl_recursion[t] = 0
             /\ SetState("reading", rw_ind + 1)
             /\ desc' = desc \cup {t} /\ SetRecursion(t, 1) /\ Got(t, "r")
             /\ UNCHANGED <<rw_xowner, call>>
    <3>1. /\ rw_mode' = rw_mode /\ rw_ind' = rw_ind + 1 /\ has' = has /\ retry' = retry
          /\ pc' = [pc EXCEPT ![t] = "run"] /\ op' = [op EXCEPT ![t] = "none"]
      BY <2>1, <2>2, <2>3, <2>6 DEF SetState, call
    <3>2. t \in desc' /\ desc' \ {t} = desc \ {t}
      BY <2>6
    <3>3. ~Wrote(t)
      BY <2>6, <1>Alone DEF Excludes
    <3> QED BY <2>1, <2>2, <2>6, <3>1, <3>2, <3>3, <1>FirstReadDo
  <2>7. CASE /\ rl_recursion[t] = 0 /\ DeleteReadlock(t)
             /\ UNCHANGED <<state, rw_xowner, call, locks>>
    <3>1. t \notin desc
      <4>1. t \in desc <=> rl_recursion[t] > 0 \/ op[t] = "read"
        BY DEF RWInv, TaskInv, DescOf
      <4> QED BY <4>1, <2>2, <2>7, SMTT(60)
    <3>2. desc' = desc
      BY <2>7, <3>1 DEF DeleteReadlock
    <3>3. rl_recursion' = rl_recursion
      BY <2>3, <2>7 DEF DeleteReadlock, SetRecursion
    <3>4. Stays
      BY <2>7, <3>2, <3>3 DEF Stays, reads
    <3> QED BY <2>1, <3>4, <1>StandDo
  <2> QED BY <2>4, <2>5, <2>6, <2>7 DEF TryRead
(* task_waitfor() of all the calls.                                        *)
<1>WaitDo.
  \A t \in Task :
    RWInv /\ PlainUse /\ Wait(t)
      => RWInv'
  (* The loop of task_waitfor(), without callbacks that throw.               *)
  <2>WaitLoopDo.
    ASSUME RWInv, PlainUse, NEW t \in Task, WaitLoop(t), Stays
    PROVE  RWInv'
    <3> USE <2>WaitLoopDo
    <3>1. ~ServeThrow(t)
      BY DEF ServeThrow, PlainUse
    <3>2. WaitTimeout(t) \/ WaitServe(t) \/ ServeCallbacks(t) \/ ServeDone(t)
      BY <3>1 DEF WaitLoop
    <3>3. pc[t] \in Waits /\ SigTypeOK'
      BY <3>2, <1>SigDo DEF WaitTimeout, WaitServe, ServeCallbacks, ServeDone, Waits
    <3>4. \E l \in Waits : GoTo(t, l)
      BY <3>2 DEF WaitTimeout, WaitServe, ServeCallbacks, ServeDone, Waits
    <3>5. PICK l \in Waits : GoTo(t, l)
      BY <3>4
    <3>6. op[t] \in {"read", "write", "unshare"}
      BY <3>3, Labels
    <3>7. Control(l, op[t])
      BY <3>5, <3>6 DEF Control
    <3>8. l \in PC /\ l \notin Taking \cup {"rdrop"} /\ pc[t] \notin Taking \cup {"rdrop"}
      BY <3>3, <3>5 DEF Waits, PC, Taking
    <3> QED BY <3>3, <3>5, <3>7, <3>8, <1>PassDo
  <2> SUFFICES ASSUME RWInv, PlainUse, NEW t \in Task, Wait(t)
               PROVE  RWInv'
    OBVIOUS
  <2>1. UNCHANGED <<state, rw_xowner, has, retry, locks>> /\ TypeOK
    BY DEF Wait, RWInv
  <2>2. CASE WaitLoop(t) /\ UNCHANGED <<reads, op>>
    BY <2>1, <2>2, <2>WaitLoopDo DEF Stays, call
  <2>3. CASE /\ \/ op[t] = "read" /\ WaitSignaled(t, "racquire")
                \/ op[t] = "write" /\ WaitSignaled(t, "wagain")
                \/ op[t] \in {"unshare", "upgrade"} /\ WaitSignaled(t, "upoll")
             /\ UNCHANGED <<reads, op>>
    <3>1. pc[t] = "wait" /\ SigTypeOK'
      BY <2>3, <1>SigDo DEF WaitSignaled
    <3>2. op[t] \in {"read", "write", "unshare"}
      BY <3>1, Labels DEF Waits
    <3>3. PICK l \in {"racquire", "wagain", "upoll"} : GoTo(t, l) /\ Control(l, op[t])
      BY <2>3, <3>2 DEF WaitSignaled, Control
    <3>4. l \in PC /\ l \notin Taking \cup {"rdrop"} /\ pc[t] \notin Taking \cup {"rdrop"}
      BY <3>1, <3>3 DEF PC, Taking
    <3>5. Stays
      BY <2>1, <2>3 DEF Stays, call
    <3> QED BY <3>1, <3>3, <3>4, <3>5, <1>PassDo
  <2>4. CASE /\ op[t] \in {"read", "write"} /\ WaitFailed(t, "run")
             /\ IF op[t] = "read" /\ pc[t] = "timeout" THEN DeleteReadlock(t)
                ELSE UNCHANGED reads
             /\ Call(t, "none")
    <3>1. pc[t] = "timeout" /\ SigTypeOK'
      BY <2>4, Labels, <1>SigDo DEF WaitFailed
    <3>2. pc' = [pc EXCEPT ![t] = "run"] /\ op' = [op EXCEPT ![t] = "none"]
      BY <2>4 DEF WaitFailed, GoTo, Call
    <3>3. "run" \in PC /\ "none" \in Op /\ retry' \subseteq Task
      BY <2>1 DEF PC, Op, TypeOK
    <3>4. CASE op[t] = "write"
      <4>1. UNCHANGED <<state, rw_xowner, reads, has, locks>> /\ Control("run", "none")
        BY <2>1, <2>4, <3>4 DEF Control
      <4> QED BY <3>1, <3>2, <3>3, <3>4, <4>1, <1>QuietDo
    <3>5. CASE op[t] = "read"
      <4>1. rl_recursion[t] = 0 /\ locks[t] = <<>> /\ t \in desc /\ t \notin has
        BY <3>5, <1>NoneYet
      <4>2. desc' = desc \ {t} /\ rl_recursion' = [rl_recursion EXCEPT ![t] = 0]
        BY <2>4, <3>1, <3>5 DEF DeleteReadlock, SetRecursion
      <4>3. UNCHANGED <<rw_mode, rw_ind, rw_xowner>> /\ has' = has /\ locks' = locks
        BY <2>1 DEF state
      <4>4. desc' \ {t} = desc \ {t} /\ t \notin desc'
        BY <4>2
      <4>5. Move(t, "run", "none", 0, locks[t])
        BY <2>1, <3>2, <4>2, <4>3, <4>4, StillThere DEF Move
      <4>6. locks[t] \in Seq({"r", "w"}) /\ 0 \in Nat
        BY <2>1, StillThere, SMTT(60)
      <4>7. /\ TypeOK' /\ Others(t) /\ pc'[t] = "run" /\ op'[t] = "none"
            /\ rl_recursion'[t] = 0 /\ locks'[t] = locks[t]
        BY <2>1, <3>1, <3>3, <4>3, <4>5, <4>6, <1>MovedOnly
      <4>8. ControlOf(t)' /\ (t \in has' <=> t \in has)
        BY <4>3, <4>7 DEF ControlOf, Control
      <4>9. pc[t] \notin Taking \cup {"rdrop"} /\ pc'[t] \notin Taking \cup {"rdrop"}
        BY <3>1, <4>7 DEF Taking
      <4> QED BY <3>5, <4>1, <4>3, <4>4, <4>7, <4>8, <4>9, <1>DescriptorStep
    <3> QED BY <2>4, <3>4, <3>5
  <2>5. CASE op[t] \in {"unshare", "upgrade"} /\ WaitFailed(t, "revert") /\ UNCHANGED <<reads, op>>
    <3>1. pc[t] = "timeout" /\ SigTypeOK' /\ GoTo(t, "revert")
      BY <2>5, Labels, <1>SigDo DEF WaitFailed
    <3>2. op[t] = "unshare"
      BY <2>5, <3>1, Labels DEF Waits
    <3>3. Stays /\ Control("revert", op[t]) /\ "revert" \in PC
      BY <2>1, <2>5, <3>2 DEF Stays, call, Control, PC
    <3> QED BY <3>1, <3>3, <1>PassDo DEF Taking
  <2> QED BY <2>2, <2>3, <2>4, <2>5 DEF Wait
(* rwlock_endwrite()                                                       *)
<1>EndWriteDo.
  \A t \in Task :
    RWInv /\ EndWrite(t)
      => RWInv'
  (* Whoever ends a lock in write-mode is the one that has it exclusively.   *)
  <2>EnderOwns.
    ASSUME RWInv, NEW t \in Task, pc[t] = "run", locks[t] # <<>>, rw_mode = "writing"
    PROVE  Wrote(t) /\ Excludes(t) /\ rw_ind = Len(locks[t]) - rl_recursion[t]
    <3> USE <2>EnderOwns
    <3>1. Wrote(t)
      <4> SUFFICES ASSUME ~Wrote(t) PROVE FALSE
        BY SMTT(60)
      <4>1. PICK u \in Task : Excludes(u)
        BY DEF RWInv, ModeInv
      <4>2. ~Excludes(t)
        BY DEF Excludes, Taking
      <4>3. ~Counted(t)
        BY <4>1, <4>2 DEF RWInv, ModeInv
      <4>4. ~(rl_recursion[t] > 0) /\ rl_recursion[t] \in Nat
        BY <4>3, TaskTypes DEF Counted, RWInv
      <4>5. rl_recursion[t] = 0
        BY <4>4, SMTT(60)
      <4> QED BY <4>5, NotWrote
    <3>2. Excludes(t)
      BY <3>1 DEF Excludes
    <3> QED BY <3>1, <3>2 DEF RWInv, CountInv
  (* rwlock_endwrite() of an inner lock.                                     *)
  <2>EndInnerStep.
    ASSUME RWInv, TypeOK', NEW t \in Task, Others(t),
           pc[t] = "run", pc'[t] = "run", op[t] = "none", op'[t] = "none",
           locks[t] # <<>>, locks'[t] = Front(locks[t]), rl_recursion'[t] = rl_recursion[t],
           rw_mode = "writing", rw_mode' = "writing", rw_ind # 1, rw_ind' = rw_ind - 1,
           rw_xowner' = rw_xowner, t \in desc' <=> t \in desc, t \in has' <=> t \in has
    PROVE  RWInv'
    <3> USE <2>EndInnerStep
    <3> DEFINE n == rl_recursion[t]
               k == Len(locks[t])
    <3>1. n \in Nat /\ locks[t] \in Seq({"r", "w"})
      BY TaskTypes DEF RWInv
    <3>2. /\ Len(locks'[t]) = k - 1 /\ k \in Nat \ {0}
          /\ \A i \in 1 .. k - 1 : locks'[t][i] = locks[t][i]
      BY <3>1, <1>FrontProps
    <3>3. LocksOf(t) /\ DescOf(t)
      BY DEF RWInv, TaskInv
    <3>4. Wrote(t) /\ Excludes(t) /\ rw_ind = k - n
      BY <2>EnderOwns
    <3>5. n < k
      BY <3>4 DEF Wrote
    <3>6. n < k - 1 /\ n <= k - 1 /\ n + 1 \in 1 .. k - 1 /\ 1 .. n \subseteq 1 .. k - 1
      BY <3>1, <3>2, <3>4, <3>5, SMTT(60)
    <3>7. Wrote(t)'
      BY <3>2, <3>6 DEF Wrote
    <3>8. LocksOf(t)'
      BY <3>2, <3>3, <3>4, <3>6 DEF LocksOf
    <3>9. DescOf(t)'
      BY <3>3, <3>4, <3>7 DEF DescOf, Taking
    <3>10. ControlOf(t)'
      BY DEF ControlOf, Control
    <3>11. TaskInv(t)'
      BY <3>8, <3>9, <3>10 DEF TaskInv
    <3>12. Excludes(t)' /\ ~Upgrading(t)'
      BY <3>7 DEF Excludes, Upgrading
    <3>13. \A u \in Task \ {t} : ~Excludes(u) /\ ~Counted(u) /\ ~Upgrading(u)
      BY <3>4, <1>Alone
    <3>14. ModeInv'
      BY <3>12, <3>13, <1>ModeStep DEF RWInv
    <3>15. rw_ind' = Len(locks'[t]) - rl_recursion'[t]
      BY <3>1, <3>2, <3>4, SMTT(60)
    <3> QED BY <3>7, <3>11, <3>13, <3>14, <3>15, <1>Combine
  (* rwlock_endwrite() of the outermost lock first clears the owner.         *)
  <2>EndOuterStep.
    ASSUME RWInv, TypeOK', NEW t \in Task, Others(t),
           pc[t] = "run", pc'[t] = "endwrite", op[t] = "none", op'[t] = "none",
           locks[t] # <<>>, locks'[t] = Front(locks[t]), rl_recursion'[t] = rl_recursion[t],
           rw_mode = "writing", rw_mode' = "writing", rw_ind = 1, rw_ind' = 1,
           rw_xowner' = NoTask, t \in desc' <=> t \in desc, t \in has' <=> t \in has
    PROVE  RWInv'
    <3> USE <2>EndOuterStep
    <3> DEFINE n == rl_recursion[t]
               k == Len(locks[t])
    <3>1. n \in Nat /\ locks[t] \in Seq({"r", "w"})
      BY TaskTypes DEF RWInv
    <3>2. /\ Len(locks'[t]) = k - 1 /\ k \in Nat \ {0}
          /\ \A i \in 1 .. k - 1 : locks'[t][i] = locks[t][i]
      BY <3>1, <1>FrontProps
    <3>3. LocksOf(t) /\ DescOf(t)
      BY DEF RWInv, TaskInv
    <3>4. Wrote(t) /\ Excludes(t) /\ rw_ind = k - n
      BY <2>EnderOwns
    <3>5. n = k - 1 /\ ~(n < k - 1) /\ n <= k - 1
      BY <3>1, <3>2, <3>4, SMTT(60)
    <3>6. ~Wrote(t)'
      BY <3>2, <3>5 DEF Wrote
    <3>7. LocksOf(t)'
      BY <3>2, <3>3, <3>5, <3>6 DEF LocksOf
    <3>8. rw_xowner' # t
      BY RWLockAssumption
    <3>9. DescOf(t)'
      BY <3>3, <3>6, <3>8 DEF DescOf
    <3>10. ControlOf(t)'
      BY DEF ControlOf, Control
    <3>11. TaskInv(t)'
      BY <3>7, <3>9, <3>10 DEF TaskInv
    <3>12. Excludes(t)' /\ ~Upgrading(t)'
      BY DEF Excludes, Upgrading, Taking
    <3>13. \A u \in Task \ {t} : ~Excludes(u) /\ ~Counted(u) /\ ~Upgrading(u)
      BY <3>4, <1>Alone
    <3>14. ModeInv'
      BY <3>12, <3>13, <1>ModeStep DEF RWInv
    <3> QED BY <3>6, <3>11, <3>13, <3>14, <1>Combine
  <2> SUFFICES ASSUME RWInv, NEW t \in Task, EndWrite(t)
               PROVE  RWInv'
    OBVIOUS
  <2>1. /\ TypeOK /\ pc[t] = "run" /\ locks[t] # <<>> /\ rw_mode = "writing" /\ SigTypeOK'
        /\ locks' = [locks EXCEPT ![t] = Front(locks[t])]
        /\ desc' = desc /\ rl_recursion' = rl_recursion
        /\ has' = has /\ op' = op /\ retry' = retry
    BY <1>SigDo DEF RWInv, EndWrite, Ends, reads, call
  <2>2. op[t] = "none"
    BY <2>1, <1>AtRest
  <2>3. locks[t] \in Seq({"r", "w"}) /\ rl_recursion[t] \in Nat /\ rw_ind \in Nat
    BY <2>1, StillThere DEF TypeOK
  <2>4. PICK q \in Seq({"r", "w"}) : q = Front(locks[t])
    BY <2>1, <2>3, <1>FrontProps
  <2>5. Wrote(t) /\ rw_ind = Len(locks[t]) - rl_recursion[t]
    BY <2>1, <2>EnderOwns
  <2>6. rw_xowner = t
    BY <2>5 DEF RWInv, TaskInv, DescOf
  <2>7. "run" \in PC /\ "endwrite" \in PC /\ op[t] \in Op
    BY <2>1, StillThere DEF PC
  <2>8. (t \in has' <=> t \in has) /\ (t \in desc' <=> t \in desc)
    BY <2>1
  <2>9. CASE rw_ind = 1
    <3>1. /\ rw_xowner' = NoTask /\ pc' = [pc EXCEPT ![t] = "endwrite"]
          /\ rw_mode' = rw_mode /\ rw_ind' = rw_ind
      BY <2>9 DEF EndWrite, state, GoTo
    <3>2. \A u \in Task \ {t} : rw_xowner' = u <=> rw_xowner = u
      BY <2>6, <3>1, RWLockAssumption
    <3>3. Move(t, "endwrite", op[t], rl_recursion[t], q)
      BY <2>1, <2>4, <3>1, <3>2, StillThere DEF Move
    <3>4. /\ rw_mode' \in {"reading", "upgrading", "writing"} /\ rw_ind' \in Nat
          /\ rw_xowner' \in Task \cup {NoTask} /\ retry' \subseteq Task
      BY <2>1, <3>1 DEF TypeOK
    <3>5. /\ TypeOK' /\ Others(t) /\ pc'[t] = "endwrite" /\ op'[t] = op[t]
          /\ rl_recursion'[t] = rl_recursion[t] /\ locks'[t] = q
      BY <2>1, <2>3, <2>7, <3>3, <3>4, <1>Moved, SMTT(60)
    <3>6. rw_mode' = "writing" /\ rw_ind' = 1
      BY <2>1, <2>9, <3>1
    <3> QED BY <2>1, <2>2, <2>4, <2>8, <2>9, <3>1, <3>5, <3>6, <2>EndOuterStep
  <2>10. CASE rw_ind # 1
    <3>1. /\ rw_mode' = "writing" /\ rw_ind' = rw_ind - 1
          /\ rw_xowner' = rw_xowner /\ pc' = pc
      BY <2>10 DEF EndWrite, SetState
    <3>2. Move(t, pc[t], op[t], rl_recursion[t], q)
      BY <2>1, <2>4, <3>1, StillThere DEF Move
    <3>3. rw_ind' \in Nat
      BY <2>3, <2>5, <3>1, SMTT(60) DEF Wrote
    <3>4. /\ rw_mode' \in {"reading", "upgrading", "writing"}
          /\ rw_xowner' \in Task \cup {NoTask} /\ retry' \subseteq Task /\ pc[t] \in PC
      BY <2>1, <2>7, <3>1 DEF TypeOK
    <3>5. /\ TypeOK' /\ Others(t) /\ pc'[t] = pc[t] /\ op'[t] = op[t]
          /\ rl_recursion'[t] = rl_recursion[t] /\ locks'[t] = q
      BY <2>1, <2>3, <2>7, <3>2, <3>3, <3>4, <1>Moved, SMTT(60)
    <3> QED BY <2>1, <2>2, <2>4, <2>8, <2>10, <3>1, <3>5, <2>EndInnerStep
  <2> QED BY <2>9, <2>10
(* rwlock_endwrite() leaves write-mode.                                    *)
<1>ReleaseExclusiveDo.
  \A t \in Task :
    RWInv /\ ReleaseExclusive(t)
      => RWInv'
  (* ... and then gives the lock back, or keeps an older read-lock.          *)
  <2>ReleaseStep.
    ASSUME RWInv, TypeOK', NEW t \in Task, Others(t),
           pc[t] = "endwrite", pc'[t] = "cprobe", op[t] = "none", op'[t] = "none",
           locks'[t] = locks[t], rl_recursion'[t] = rl_recursion[t],
           rw_mode' = "reading", rw_ind' = IF t \in desc THEN rw_ind ELSE 0,
           rw_xowner' = rw_xowner, t \in desc' <=> t \in desc, t \in has' <=> t \in has
    PROVE  RWInv'
    <3> USE <2>ReleaseStep
    <3>1. LocksOf(t) /\ DescOf(t)
      BY DEF RWInv, TaskInv
    <3>2. Excludes(t) /\ ~Wrote(t)
      BY <3>1 DEF Excludes, Taking, DescOf
    <3>3. rw_mode = "writing" /\ rw_ind = 1
      BY <3>2 DEF RWInv, ModeInv, CountInv
    <3>4. \A u \in Task \ {t} : ~Excludes(u) /\ ~Counted(u) /\ ~Upgrading(u)
      BY <3>2, <3>3, <1>Alone
    <3>5. ~Wrote(t)'
      BY <3>2 DEF Wrote
    <3>6. /\ ~Excludes(t)' /\ ~Upgrading(t)'
          /\ Counted(t)' <=> Counted(t)
          /\ Counted(t) <=> t \in desc
      BY <3>1, <3>5 DEF Excludes, Upgrading, Counted, Taking, DescOf
    <3>7. LocksOf(t)'
      BY <3>1, <3>5 DEF LocksOf
    <3>8. DescOf(t)'
      BY <3>1, <3>2, <3>5 DEF DescOf, Taking
    <3>9. ControlOf(t)'
      BY DEF ControlOf, Control
    <3>10. TaskInv(t)'
      BY <3>7, <3>8, <3>9 DEF TaskInv
    <3>11. ModeInv'
      BY <3>4, <3>6, <1>ModeStep DEF RWInv
    <3>12. Readers' = Readers /\ has' = has
      BY <3>6, <1>CountChange
    <3>13. has = {}
      <4>1. ASSUME NEW u \in has PROVE FALSE
        <5>1. u \in Task
          BY DEF RWInv, TypeOK
        <5>2. op[u] = "unshare"
          BY <5>1 DEF RWInv, TaskInv, DescOf
        <5>3. ~Excludes(u) /\ ~Upgrading(u)
          BY <5>1, <5>2, <3>4
        <5> QED BY <5>2, <5>3 DEF Excludes, Upgrading, Taking
      <4> QED BY <4>1
    <3>14. Cardinality(has) = 0
      BY <3>13 DEF RWInv, Sizes
    <3>15. rw_ind' = Cardinality(Readers)
      <4>1. CASE t \in desc
        <5>1. Readers = {t}
          BY <4>1, <3>4, <3>6 DEF Readers
        <5> QED BY <4>1, <5>1, <3>3 DEF RWInv, Sizes
      <4>2. CASE t \notin desc
        <5>1. Readers = {}
          BY <4>2, <3>4, <3>6 DEF Readers
        <5> QED BY <4>2, <5>1 DEF RWInv, Sizes
      <4> QED BY <4>1, <4>2
    <3>16. rw_ind' \in Nat
      BY DEF TypeOK
    <3>17. rw_ind' + Cardinality(has') = Cardinality(Readers')
      BY <3>12, <3>14, <3>15, <3>16, SMTT(60)
    <3> QED BY <3>4, <3>6, <3>10, <3>11, <3>17, <1>Combine
  <2> SUFFICES ASSUME RWInv, NEW t \in Task, ReleaseExclusive(t)
               PROVE  RWInv'
    OBVIOUS
  <2>1. /\ TypeOK /\ pc[t] = "endwrite" /\ SigTypeOK'
        /\ rw_mode' = "reading" /\ rw_ind' = IF t \in desc THEN rw_ind ELSE 0
        /\ rw_xowner' = rw_xowner /\ pc' = [pc EXCEPT ![t] = "cprobe"]
    BY <1>SigDo DEF RWInv, ReleaseExclusive, SetState, GoTo
  <2>2. /\ desc' = desc /\ rl_recursion' = rl_recursion /\ locks' = locks
        /\ has' = has /\ op' = op /\ retry' = retry
    BY DEF ReleaseExclusive, reads, call
  <2>3. op[t] = "none"
    BY <2>1, Labels
  <2>4. Move(t, "cprobe", op[t], rl_recursion[t], locks[t])
    BY <2>1, <2>2, StillThere DEF Move
  <2>5. /\ locks[t] \in Seq({"r", "w"}) /\ rl_recursion[t] \in Nat /\ rw_ind \in Nat
        /\ "cprobe" \in PC /\ op[t] \in Op
    BY <2>1, StillThere DEF TypeOK, PC
  <2>6. rw_ind' \in Nat
    BY <2>1, <2>5, SMTT(60)
  <2>7. /\ rw_mode' \in {"reading", "upgrading", "writing"}
        /\ rw_xowner' \in Task \cup {NoTask} /\ retry' \subseteq Task
    BY <2>1, <2>2 DEF TypeOK
  <2>8. /\ TypeOK' /\ Others(t) /\ pc'[t] = "cprobe" /\ op'[t] = op[t]
        /\ rl_recursion'[t] = rl_recursion[t] /\ locks'[t] = locks[t]
    BY <2>1, <2>4, <2>5, <2>6, <2>7, <1>Moved, SMTT(60)
  <2>9. (t \in has' <=> t \in has) /\ (t \in desc' <=> t \in desc)
    BY <2>2
  <2> QED BY <2>1, <2>3, <2>8, <2>9, <2>ReleaseStep
(* rwlock_end() of a read-lock                                             *)
<1>EndReadDo.
  \A t \in Task :
    RWInv /\ EndRead(t)
      => RWInv'
  (* Whoever ends a lock outside of write-mode is counted as a reader.       *)
  <2>EnderReads.
    ASSUME RWInv, NEW t \in Task, pc[t] = "run", locks[t] # <<>>, rw_mode # "writing"
    PROVE  /\ ~Wrote(t) /\ op[t] = "none"
           /\ rl_recursion[t] = Len(locks[t]) /\ rl_recursion[t] \in Nat \ {0}
           /\ rw_ind \in Nat \ {0}
    <3> USE <2>EnderReads
    <3>1. ~Wrote(t)
      BY <1>Alone DEF Excludes
    <3>2. rl_recursion[t] = Len(locks[t]) /\ rl_recursion[t] # 0 /\ rl_recursion[t] \in Nat
      BY <3>1, NotWrote, TaskTypes DEF RWInv
    <3>3. rl_recursion[t] > 0
      BY <3>2, SMTT(60)
    <3>4. t \in Readers
      BY <3>3 DEF Readers, Counted
    <3>5. op[t] = "none"
      BY DEF RWInv, TaskInv, ControlOf, Control, Waits
    <3>6. t \notin has
      BY <3>5 DEF RWInv, TaskInv, DescOf
    <3>7. /\ has \subseteq Readers /\ IsFiniteSet(Readers)
          /\ Cardinality(has) \in Nat /\ Cardinality(Readers) \in Nat
      BY <1>HasReads DEF RWInv, CountInv
    <3>8. Cardinality(has) <= Cardinality(Readers) /\ Cardinality(has) # Cardinality(Readers)
      BY <3>4, <3>6, <3>7 DEF RWInv, Sizes
    <3>9. rw_ind + Cardinality(has) = Cardinality(Readers) /\ rw_ind \in Nat
      BY DEF RWInv, CountInv, TypeOK
    <3>10. rw_ind \in Nat \ {0}
      BY <3>7, <3>8, <3>9, SMTT(60)
    <3> QED BY <3>1, <3>2, <3>5, <3>10
  (* rwlock_end() of one read-lock of several.                               *)
  <2>EndReadAgainStep.
    ASSUME RWInv, TypeOK', NEW t \in Task, Others(t),
           pc[t] = "run", pc'[t] = "run", op'[t] = op[t],
           locks[t] # <<>>, locks'[t] = Front(locks[t]),
           rl_recursion[t] # 1, rl_recursion'[t] = rl_recursion[t] - 1,
           rw_mode # "writing", UNCHANGED <<rw_mode, rw_ind, rw_xowner>>,
           t \in desc' <=> t \in desc, t \in has' <=> t \in has
    PROVE  RWInv'
    <3> USE <2>EndReadAgainStep
    <3> DEFINE n == rl_recursion[t]
               k == Len(locks[t])
    <3>1. /\ ~Wrote(t) /\ op[t] = "none" /\ n = k /\ n \in Nat \ {0}
      BY <2>EnderReads
    <3>2. /\ Len(locks'[t]) = k - 1
          /\ \A i \in 1 .. k - 1 : locks'[t][i] = locks[t][i]
      BY TaskTypes, <1>FrontProps DEF RWInv
    <3>3. LocksOf(t) /\ DescOf(t)
      BY DEF RWInv, TaskInv
    <3>4. ~(n - 1 < k - 1) /\ n - 1 <= k - 1 /\ n - 1 > 0 /\ n > 0 /\ 1 .. n - 1 \subseteq 1 .. n
      <4>1. n \in Nat /\ n # 0 /\ n # 1 /\ k = n
        BY <3>1
      <4> HIDE DEF n, k
      <4> QED BY <4>1, SMTT(60)
    <3>5. ~Wrote(t)'
      BY <3>2, <3>4 DEF Wrote
    <3>6. LocksOf(t)'
      BY <3>1, <3>2, <3>3, <3>4, <3>5 DEF LocksOf
    <3>7. DescOf(t)'
      BY <3>1, <3>3, <3>4, <3>5 DEF DescOf, Taking
    <3>8. ControlOf(t)'
      BY <3>1 DEF ControlOf, Control
    <3>9. TaskInv(t)'
      BY <3>6, <3>7, <3>8 DEF TaskInv
    <3>10. ~Excludes(t)' /\ ~Upgrading(t)' /\ Counted(t)' /\ Counted(t)
      BY <3>1, <3>4, <3>5 DEF Excludes, Upgrading, Counted, Taking
    <3>11. \A u \in Task : ~Excludes(u)
      BY <1>Alone
    <3>12. ModeInv'
      <4>1. ModeInv /\ \A u \in Task \ {t} : Upgrading(u) => rw_mode' = "upgrading"
        BY DEF RWInv, ModeInv
      <4> QED BY <3>10, <3>11, <4>1, <1>ModeStep
    <3>13. Readers' = Readers /\ has' = has
      BY <3>10, <1>CountChange
    <3>14. rw_ind' + Cardinality(has') = Cardinality(Readers')
      BY <3>13 DEF RWInv, CountInv
    <3> QED BY <3>9, <3>10, <3>11, <3>12, <3>14, <1>Combine
  (* rwlock_end() of the last one: the thread is no longer counted.          *)
  <2>EndReadStep.
    ASSUME RWInv, TypeOK', NEW t \in Task, Others(t),
           pc[t] = "run", pc'[t] \in {"run", "uprobe"}, op'[t] = op[t],
           locks[t] # <<>>, locks'[t] = Front(locks[t]),
           rl_recursion[t] = 1, rl_recursion'[t] = 0,
           rw_mode # "writing", rw_mode' = rw_mode, rw_ind' = rw_ind - 1,
           rw_xowner' = rw_xowner, t \notin desc', t \in has' <=> t \in has
    PROVE  RWInv'
    <3> USE <2>EndReadStep
    <3>1. ~Wrote(t) /\ op[t] = "none" /\ Len(locks[t]) = 1 /\ rw_ind \in Nat \ {0}
      BY <2>EnderReads
    <3>2. Len(locks'[t]) = 1 - 1
      BY <3>1, TaskTypes, <1>FrontProps DEF RWInv
    <3>3. LocksOf(t) /\ DescOf(t)
      BY DEF RWInv, TaskInv
    <3>4. 1 - 1 = 0 /\ ~(0 < 0) /\ 0 <= 0 /\ ~(0 > 0) /\ 1 > 0 /\ 1 .. 0 = {}
      BY SMTT(60)
    <3>5. ~Wrote(t)'
      BY <3>2, <3>4 DEF Wrote
    <3>6. LocksOf(t)'
      BY <3>2, <3>4, <3>5 DEF LocksOf
    <3>7. DescOf(t)'
      BY <3>1, <3>3, <3>4, <3>5 DEF DescOf, Taking
    <3>8. ControlOf(t)'
      BY <3>1 DEF ControlOf, Control
    <3>9. TaskInv(t)'
      BY <3>6, <3>7, <3>8 DEF TaskInv
    <3>10. ~Excludes(t)' /\ ~Upgrading(t)' /\ ~Counted(t)' /\ Counted(t)
      BY <3>1, <3>4, <3>5 DEF Excludes, Upgrading, Counted, Taking
    <3>11. \A u \in Task : ~Excludes(u)
      BY <1>Alone
    <3>12. ModeInv'
      <4>1. ModeInv /\ \A u \in Task \ {t} : Upgrading(u) => rw_mode' = "upgrading"
        BY DEF RWInv, ModeInv
      <4> QED BY <3>10, <3>11, <4>1, <1>ModeStep
    <3>13. has' = has /\ Cardinality(Readers') = Cardinality(Readers) - 1
      BY <3>10, <1>CountChange
    <3>14. rw_ind + Cardinality(has) = Cardinality(Readers)
      BY DEF RWInv, CountInv
    <3>15. Cardinality(has) \in Nat /\ Cardinality(Readers) \in Nat
      BY <1>HasReads
    <3>16. rw_ind' + Cardinality(has') = Cardinality(Readers')
      BY <3>1, <3>13, <3>14, <3>15, SMTT(60)
    <3> QED BY <3>9, <3>10, <3>11, <3>12, <3>16, <1>Combine
  <2> SUFFICES ASSUME RWInv, NEW t \in Task, EndRead(t)
               PROVE  RWInv'
    OBVIOUS
  <2>1. /\ TypeOK /\ pc[t] = "run" /\ locks[t] # <<>> /\ rw_mode # "writing" /\ SigTypeOK'
        /\ locks' = [locks EXCEPT ![t] = Front(locks[t])]
        /\ rw_xowner' = rw_xowner /\ has' = has /\ op' = op
    BY <1>SigDo DEF RWInv, EndRead, Ends
  <2>2. locks[t] \in Seq({"r", "w"}) /\ op[t] \in Op /\ pc[t] \in PC
    BY <2>1, StillThere
  <2>3. PICK q \in Seq({"r", "w"}) : q = Front(locks[t])
    BY <2>1, <2>2, <1>FrontProps
  <2>4. rl_recursion[t] \in Nat \ {0} /\ rw_ind \in Nat \ {0}
    BY <2>1, <2>EnderReads
  <2>5. t \in has' <=> t \in has
    BY <2>1
  <2>6. CASE rl_recursion[t] = 1
    <3>1. /\ desc' = desc \ {t} /\ rl_recursion' = [rl_recursion EXCEPT ![t] = 0]
          /\ rw_mode' = rw_mode /\ rw_ind' = rw_ind - 1 /\ retry' = retry \ {t}
          /\ \E l \in {"run", "uprobe"} : pc' = [pc EXCEPT ![t] = l]
      BY <2>6 DEF EndRead, DeleteReadlock, SetRecursion, SetState, GoTo
    <3>2. PICK l \in {"run", "uprobe"} : pc' = [pc EXCEPT ![t] = l]
      BY <3>1
    <3>3. desc' \ {t} = desc \ {t} /\ t \notin desc'
      BY <3>1
    <3>4. Move(t, l, op[t], 0, q)
      BY <2>1, <2>3, <3>1, <3>2, <3>3, StillThere DEF Move
    <3>5. l \in PC
      BY DEF PC
    <3>6. rw_ind' \in Nat /\ 0 \in Nat
      BY <2>4, <3>1, SMTT(60)
    <3>7. /\ rw_mode' \in {"reading", "upgrading", "writing"}
          /\ rw_xowner' \in Task \cup {NoTask} /\ retry' \subseteq Task
      BY <2>1, <3>1 DEF TypeOK
    <3>8. /\ TypeOK' /\ Others(t) /\ pc'[t] = l /\ op'[t] = op[t]
          /\ rl_recursion'[t] = 0 /\ locks'[t] = q
      BY <2>1, <2>2, <3>4, <3>5, <3>6, <3>7, <1>Moved, SMTT(60)
    <3> QED BY <2>1, <2>3, <2>5, <2>6, <3>1, <3>3, <3>8, <2>EndReadStep
  <2>7. CASE rl_recursion[t] # 1
    <3>1. /\ UNCHANGED <<rw_mode, rw_ind, rw_xowner>> /\ desc' = desc /\ pc' = pc
          /\ retry' = retry
          /\ rl_recursion' = [rl_recursion EXCEPT ![t] = rl_recursion[t] - 1]
      BY <2>7 DEF EndRead, SetRecursion, state
    <3>2. rl_recursion[t] - 1 \in Nat
      BY <2>4, SMTT(60)
    <3>3. PICK n \in Nat : n = rl_recursion[t] - 1
      BY <3>2
    <3>4. Move(t, pc[t], op[t], n, q)
      BY <2>1, <2>3, <3>1, <3>3, StillThere DEF Move
    <3>5. retry' \subseteq Task
      BY <2>1, <3>1 DEF TypeOK
    <3>6. /\ TypeOK' /\ Others(t) /\ pc'[t] = pc[t] /\ op'[t] = op[t]
          /\ rl_recursion'[t] = n /\ locks'[t] = q
      BY <2>1, <2>2, <3>1, <3>4, <3>5, <1>MovedOnly, SMTT(60)
    <3>7. t \in desc' <=> t \in desc
      BY <3>1
    <3> QED BY <2>1, <2>3, <2>5, <2>7, <3>1, <3>3, <3>6, <3>7, <2>EndReadAgainStep
  <2> QED BY <2>6, <2>7
<1> SUFFICES ASSUME PlainUse, RWInv, [Next]_vars PROVE RWInv'
  BY SMTT(60)
<1>1. CASE UNCHANGED vars
  <2>1. /\ UNCHANGED <<pc, rw_mode, rw_ind, rw_xowner, desc, rl_recursion, has, op, retry, locks>>
        /\ UNCHANGED <<chain, tcs_sig, saved>>
    BY <1>1 DEF vars, sigVars, state, reads, call
  <2>2. TypeOK'
    BY <2>1 DEF RWInv, TypeOK, SigTypeOK
  <2>3. Readers' = Readers
    BY <2>1 DEF Readers, Counted
  <2>4. ModeInv' /\ CountInv'
    BY <2>1, <2>3 DEF RWInv, ModeInv, CountInv, Excludes, Wrote, Counted, Upgrading
  <2>5. \A t \in Task : TaskInv(t)'
    BY <2>1 DEF RWInv, TaskInv, ControlOf, LocksOf, DescOf, Wrote
  <2>6. Sizes'
    BY DEF RWInv, Sizes
  <2> QED BY <2>2, <2>4, <2>5, <2>6 DEF RWInv
<1>2. CASE Next
  <2>1. PICK t \in Task :
           \/ Read(t) \/ TryRead(t) \/ Write(t) \/ TryWrite(t) \/ Upgrade(t) \/ Downgrade(t)
           \/ End(t) \/ PollConnect(t) \/ Step(t)
    BY <1>2 DEF Next
  <2>2. CASE Read(t) \/ TryRead(t) \/ Write(t) \/ TryWrite(t) \/ End(t)
    BY <2>2, <1>ReadDo, <1>TryReadDo, <1>WriteDo, <1>TryWriteDo, <1>EndWriteDo, <1>EndReadDo DEF End
  <2>3. CASE ConnectSignal(t) \/ ReadAcquire(t) \/ ReadCheck(t) \/ ReadDrop(t)
    BY <2>3, <1>ConnectSignalDo, <1>ReadAcquireDo, <1>ReadCheckDo, <1>ReadDropDo
  <2>4. CASE WriteAgain(t) \/ WritePoll(t) \/ WriteCheck(t) \/ WriteDrop(t) \/ SetOwner(t)
    BY <2>4, <1>WriteAgainDo, <1>WritePollDo, <1>WriteCheckDo, <1>WriteDropDo, <1>SetOwnerDo
  <2>5. CASE UnsharePoll(t) \/ UnshareCheck(t) \/ UnshareDrop(t) \/ Revert(t) \/ Wait(t)
    BY <2>5, <1>UnsharePollDo, <1>UnshareCheckDo, <1>UnshareDropDo, <1>RevertDo, <1>WaitDo
  <2>6. CASE \/ ReleaseExclusive(t) \/ BroadcastProbe(t) \/ Broadcast(t)
             \/ UnshareProbe(t) \/ UnshareSend(t)
    BY <2>6, <1>ReleaseExclusiveDo, <1>SendDo
  <2> QED BY <2>1, <2>2, <2>3, <2>4, <2>5, <2>6, NotMade DEF Step
<1> QED BY <1>1, <1>2

-----------------------------------------------------------------------------
(* Nobody is stranded.  rwlock_write() that times out leaves upgrade-mode  *)
(* without a broadcast, and a task that serves callbacks may lose a        *)
(* signal while its connections are moved: neither is done here.           *)
(***************************************************************************)
Patience == PlainUse /\ Timed \cap Writer = {} /\ Serving = {}

(* Where a task is connected to the signal of its call, or was until the   *)
(* signal was sent.                                                        *)
Links == {"rcheck", "rdrop", "wcheck", "wdrop", "ucheck", "udrop", "wait", "timeout"}
Linked(t) == pc[t] \in Links

SigOf(t) == IF op[t] = "unshare" THEN rw_unshare ELSE rw_chmode

LinkInv ==
  /\ \A s \in Sig : OncePerTask(chain[s])
  /\ \A s \in Sig : \A c \in Conns(chain[s]) :
       Linked(c.task) /\ s = SigOf(c.task) /\ ~c.ghost /\ tcs_sig[c.task] = NoSig
  /\ \A t \in Task : Linked(t) /\ tcs_sig[t] = NoSig =>
       \E c \in Conns(chain[SigOf(t)]) : c.task = t
  /\ \A t \in Task : ~Linked(t) => tcs_sig[t] = NoSig
  /\ \A t \in Task : saved[t] = "main"

(* Only a reader times out, nobody serves callbacks. *)
Patient(t) ==
  /\ op[t] \in {"write", "unshare"} => t \in Writer
  /\ pc[t] \notin {"push", "serve", "revert"}
  /\ pc[t] = "timeout" => op[t] = "read"

PatientInv == \A t \in Task : Patient(t)

Calm == LinkInv /\ PatientInv /\ NoStrandedWaiter

(* The step of t takes it to label l inside of call o. *)
Goes(t, l, o) == pc' = [pc EXCEPT ![t] = l] /\ op' = [op EXCEPT ![t] = o]

(* The others stay where they are. *)
Rest(t) == \A u \in Task \ {t} : pc'[u] = pc[u] /\ op'[u] = op[u]

(* Who announces a change of mode, and that the readers are gone. *)
Tellers == {"cprobe", "csend"}
Sharers == {"uprobe", "usend"}

(* Nothing has happened that somebody could wait for. *)
ModeKept == (rw_mode' = "reading" => rw_mode = "reading") /\ (Unshared' => Unshared)

(* Labels at which a task is connected to nothing and announces nothing. *)
Free == {"run", "racquire", "wagain", "wpoll", "upoll", "owner", "endwrite", "connect"}

(* Nobody is connected at first.                                           *)
LEMMA InitCalm == Init => Calm
<1> SUFFICES ASSUME Init PROVE Calm
  BY SMTT(60)
<1>1. /\ \A s \in Sig : chain[s] = <<>>
      /\ \A t \in Task : tcs_sig[t] = NoSig /\ saved[t] = "main"
      /\ \A t \in Task : pc[t] = "run" /\ op[t] = "none"
  BY DEF Init, SigInit
<1>2. \A t \in Task : ~Linked(t)
  BY <1>1 DEF Linked, Links
<1>3. LinkInv
  BY <1>1, <1>2, ConnsEmpty DEF LinkInv
<1>4. PatientInv
  BY <1>1 DEF PatientInv, Patient
<1>5. NoStrandedWaiter
  BY <1>1 DEF NoStrandedWaiter, Asleep
<1> QED BY <1>3, <1>4, <1>5 DEF Calm

(* Every step keeps Calm.                                                  *)
LEMMA CalmStep == Patience /\ RWInv /\ Calm /\ [Next]_vars => Calm'
(* The step of one task to its next label.                                 *)
<1>Went.
  ASSUME TypeOK, NEW t \in Task, NEW l, NEW o, Goes(t, l, o)
  PROVE  pc'[t] = l /\ op'[t] = o /\ Rest(t)
  <2> USE <1>Went
  <2>1. pc \in [Task -> PC] /\ op \in [Task -> Op]
    BY DEF TypeOK, Op
  <2> QED BY <2>1, SMTT(60) DEF Goes, Rest
(* The connections of a chain belong to tasks.                             *)
<1>ConnsType.
  ASSUME SigTypeOK, NEW s \in Sig, NEW c \in Conns(chain[s])
  PROVE  chain[s] \in Seq(Connection) /\ c.task \in Task
  <2> USE <1>ConnsType
  <2>1. chain[s] \in Seq(Connection)
    BY DEF SigTypeOK
  <2>2. PICK i \in DOMAIN chain[s] : c = chain[s][i]
    BY DEF Conns
  <2>3. c \in Connection
    BY <2>1, <2>2, SMTT(60)
  <2> QED BY <2>1, <2>3, SMTT(60) DEF Connection
(* A step that leaves the signals alone, and t connected or not as it was. *)
<1>LinkKept.
  ASSUME TypeOK, LinkInv, NEW t \in Task, Rest(t), UNCHANGED sigVars,
         pc'[t] \in Links <=> pc[t] \in Links, pc[t] \in Links => op'[t] = op[t]
  PROVE  LinkInv'
  <2> USE <1>LinkKept
  <2>1. chain' = chain /\ tcs_sig' = tcs_sig /\ saved' = saved
    BY DEF sigVars
  <2>2. \A u \in Task : Linked(u)' <=> Linked(u)
    BY DEF Linked, Rest
  <2>3. \A u \in Task : Linked(u) => SigOf(u)' = SigOf(u)
    BY DEF Linked, SigOf, Rest
  <2>4. \A s \in Sig : \A c \in Conns(chain[s]) : c.task \in Task
    BY <1>ConnsType DEF TypeOK
  <2>5. \A s \in Sig : \A c \in Conns(chain[s]) :
          Linked(c.task)' /\ s = SigOf(c.task)' /\ ~c.ghost /\ tcs_sig[c.task] = NoSig
    <3> SUFFICES ASSUME NEW s \in Sig, NEW c \in Conns(chain[s])
                 PROVE  Linked(c.task)' /\ s = SigOf(c.task)' /\ ~c.ghost /\ tcs_sig[c.task] = NoSig
      OBVIOUS
    <3>1. Linked(c.task) /\ s = SigOf(c.task) /\ ~c.ghost /\ tcs_sig[c.task] = NoSig
      BY DEF LinkInv
    <3>2. c.task \in Task
      BY <2>4
    <3>3. Linked(c.task)' /\ SigOf(c.task)' = SigOf(c.task)
      BY <2>2, <2>3, <3>1, <3>2
    <3> QED BY <3>1, <3>3
  <2>6. \A u \in Task : Linked(u)' /\ tcs_sig[u] = NoSig =>
          \E c \in Conns(chain[SigOf(u)']) : c.task = u
    BY <2>2, <2>3 DEF LinkInv
  <2>7. \A u \in Task : ~Linked(u)' => tcs_sig[u] = NoSig
    BY <2>2 DEF LinkInv
  <2> QED BY <2>1, <2>5, <2>6, <2>7 DEF LinkInv
(* task_disconnect()                                                       *)
<1>LinkDrop.
  ASSUME TypeOK, LinkInv, NEW t \in Task, Rest(t), pc'[t] \notin Links, Disconnect(t)
  PROVE  LinkInv'
  <2> USE <1>LinkDrop
  <2>1. /\ saved' = saved /\ tcs_sig' = [tcs_sig EXCEPT ![t] = NoSig]
        /\ \A s \in Sig : chain'[s] = Unlink(chain[s], t)
    BY DEF Disconnect
  <2>2. tcs_sig \in [Task -> Sig \cup {NoSig}] /\ chain \in [Sig -> Seq(Connection)]
    BY DEF TypeOK, SigTypeOK
  <2>3. tcs_sig'[t] = NoSig /\ \A u \in Task \ {t} : tcs_sig'[u] = tcs_sig[u]
    BY <2>1, <2>2
  <2>4. ASSUME NEW s \in Sig
        PROVE  /\ Conns(chain'[s]) = {c \in Conns(chain[s]) : c.task # t}
               /\ OncePerTask(chain'[s])
    <3>1. chain[s] \in Seq(Connection) /\ OncePerTask(chain[s]) /\ chain'[s] = Unlink(chain[s], t)
      BY <2>1, <2>2 DEF LinkInv
    <3> QED BY <3>1, ConnsUnlink
  <2>5. \A u \in Task \ {t} : (Linked(u)' <=> Linked(u)) /\ SigOf(u)' = SigOf(u)
    BY DEF Linked, SigOf, Rest
  <2>6. \A s \in Sig : \A c \in Conns(chain'[s]) :
          Linked(c.task)' /\ s = SigOf(c.task)' /\ ~c.ghost /\ tcs_sig'[c.task] = NoSig
    <3> SUFFICES ASSUME NEW s \in Sig, NEW c \in Conns(chain'[s])
                 PROVE  Linked(c.task)' /\ s = SigOf(c.task)' /\ ~c.ghost /\ tcs_sig'[c.task] = NoSig
      OBVIOUS
    <3>1. c \in Conns(chain[s]) /\ c.task # t
      BY <2>4
    <3>2. c.task \in Task \ {t}
      BY <3>1, <1>ConnsType DEF TypeOK
    <3>3. Linked(c.task) /\ s = SigOf(c.task) /\ ~c.ghost /\ tcs_sig[c.task] = NoSig
      BY <3>1 DEF LinkInv
    <3>4. Linked(c.task)' /\ SigOf(c.task)' = SigOf(c.task) /\ tcs_sig'[c.task] = tcs_sig[c.task]
      BY <2>3, <2>5, <3>2, <3>3
    <3> QED BY <3>3, <3>4
  <2>7. ~Linked(t)'
    BY DEF Linked
  <2>8. ASSUME NEW u \in Task, Linked(u)', tcs_sig'[u] = NoSig
        PROVE  \E c \in Conns(chain'[SigOf(u)']) : c.task = u
    <3>1. u # t /\ Linked(u) /\ tcs_sig[u] = NoSig /\ SigOf(u)' = SigOf(u)
      BY <2>3, <2>5, <2>7, <2>8
    <3>2. PICK c \in Conns(chain[SigOf(u)]) : c.task = u
      BY <3>1 DEF LinkInv
    <3>3. SigOf(u) \in Sig
      BY RWLockAssumption DEF SigOf
    <3>4. c \in Conns(chain'[SigOf(u)])
      BY <2>4, <3>1, <3>2, <3>3
    <3> QED BY <3>1, <3>2, <3>4
  <2>9. \A u \in Task : ~Linked(u)' => tcs_sig'[u] = NoSig
    BY <2>3, <2>5 DEF LinkInv
  <2> QED BY <2>1, <2>4, <2>6, <2>8, <2>9 DEF LinkInv
(* A step after which nobody sleeps without good reason: the task that     *)
(* takes it announces what it has done, or it does nothing to announce,    *)
(* announced nothing, and does not go to sleep.                            *)
<1>StrandStep.
  ASSUME NoStrandedWaiter, NEW t \in Task, Rest(t),
         \A u \in Task \ {t} : tcs_sig'[u] = NoSig => tcs_sig[u] = NoSig,
         \/ pc'[t] \in Tellers \/ rw_mode' # "reading"
         \/ \A u \in Task : ~Asleep(u, {"read", "write"})'
         \/ rw_mode = "reading" /\ pc[t] \notin Tellers /\ ~Asleep(t, {"read", "write"})',
         \/ pc'[t] \in Sharers \/ ~Unshared'
         \/ \A u \in Task : ~Asleep(u, {"unshare", "upgrade"})'
         \/ Unshared /\ pc[t] \notin Sharers /\ ~Asleep(t, {"unshare", "upgrade"})'
  PROVE  NoStrandedWaiter'
  <2> USE <1>StrandStep
  <2>1. ASSUME NEW S, NEW u \in Task, u # t, Asleep(u, S)' PROVE Asleep(u, S)
    BY <2>1 DEF Asleep, Rest
  <2>2. ASSUME rw_mode' = "reading", NEW u \in Task, Asleep(u, {"read", "write"})'
        PROVE  \E v \in Task : pc'[v] \in {"cprobe", "csend"}
    <3>1. CASE pc'[t] \in Tellers
      BY <3>1 DEF Tellers
    <3>2. CASE rw_mode = "reading" /\ pc[t] \notin Tellers /\ ~Asleep(t, {"read", "write"})'
      <4>1. u # t
        BY <2>2, <3>2
      <4>2. Asleep(u, {"read", "write"})
        BY <2>1, <2>2, <4>1
      <4>3. PICK v \in Task : pc[v] \in {"cprobe", "csend"}
        BY <3>2, <4>2 DEF NoStrandedWaiter
      <4>4. v # t
        BY <3>2, <4>3 DEF Tellers
      <4> QED BY <4>3, <4>4 DEF Rest
    <3> QED BY <2>2, <3>1, <3>2
  <2>3. ASSUME Unshared', NEW u \in Task, Asleep(u, {"unshare", "upgrade"})'
        PROVE  \E v \in Task : pc'[v] \in {"uprobe", "usend"}
    <3>1. CASE pc'[t] \in Sharers
      BY <3>1 DEF Sharers
    <3>2. CASE Unshared /\ pc[t] \notin Sharers /\ ~Asleep(t, {"unshare", "upgrade"})'
      <4>1. u # t
        BY <2>3, <3>2
      <4>2. Asleep(u, {"unshare", "upgrade"})
        BY <2>1, <2>3, <4>1
      <4>3. PICK v \in Task : pc[v] \in {"uprobe", "usend"}
        BY <3>2, <4>2 DEF NoStrandedWaiter
      <4>4. v # t
        BY <3>2, <4>3 DEF Sharers
      <4> QED BY <4>3, <4>4 DEF Rest
    <3> QED BY <2>3, <3>1, <3>2
  <2> QED BY <2>2, <2>3 DEF NoStrandedWaiter
(* What a patient task does leaves the others patient.                     *)
<1>PatientStep.
  ASSUME PatientInv, NEW t \in Task, Rest(t), Patient(t)'
  PROVE  PatientInv'
  <2> USE <1>PatientStep
  <2>1. \A u \in Task \ {t} : Patient(u)'
    BY DEF PatientInv, Patient, Rest
  <2> QED BY <2>1 DEF PatientInv
(* A step outside of the waits.                                            *)
<1>CalmPass.
  ASSUME TypeOK, Calm, NEW t \in Task, NEW l, NEW o, Goes(t, l, o), UNCHANGED sigVars,
         ModeKept, pc[t] \notin Links \cup Tellers \cup Sharers, l \notin Links,
         l \notin {"push", "serve", "revert"}, o \in {"write", "unshare"} => t \in Writer
  PROVE  Calm'
  <2> USE <1>CalmPass
  <2>1. pc'[t] = l /\ op'[t] = o /\ Rest(t)
    BY <1>Went
  <2>2. LinkInv'
    BY <2>1, <1>LinkKept DEF Calm
  <2>3. l # "wait" /\ l # "timeout"
    BY DEF Links
  <2>4. Patient(t)'
    BY <2>1, <2>3 DEF Patient
  <2>5. PatientInv'
    BY <2>1, <2>4, <1>PatientStep DEF Calm
  <2>6. \A u \in Task \ {t} : tcs_sig'[u] = NoSig => tcs_sig[u] = NoSig
    BY DEF sigVars
  <2>7. ~Asleep(t, {"read", "write"})' /\ ~Asleep(t, {"unshare", "upgrade"})'
    BY <2>1, <2>3 DEF Asleep
  <2>8. NoStrandedWaiter'
    BY <2>1, <2>6, <2>7, <1>StrandStep DEF Calm, ModeKept
  <2> QED BY <2>2, <2>5, <2>8 DEF Calm
(* The looks after connecting: who goes to sleep has something to wait     *)
(* for.                                                                    *)
<1>CalmCheck.
  ASSUME TypeOK, Calm, NEW t \in Task, NEW l, GoTo(t, l), UNCHANGED <<sigVars, op>>,
         ModeKept, pc[t] \in Links, l \in Links, l = "timeout" => op[t] = "read",
         l = "wait" => /\ op[t] \in {"read", "write"} => rw_mode' # "reading"
                       /\ op[t] = "unshare" => ~Unshared'
                       /\ op[t] # "upgrade"
  PROVE  Calm'
  <2> USE <1>CalmCheck
  <2>1. op' = [op EXCEPT ![t] = op[t]]
    BY StillThere
  <2>2. pc'[t] = l /\ op'[t] = op[t] /\ Rest(t)
    BY <2>1, <1>Went DEF Goes, GoTo
  <2>3. LinkInv'
    BY <2>2, <1>LinkKept DEF Calm
  <2>4. l \notin {"push", "serve", "revert"} /\ pc[t] \notin Tellers \cup Sharers
    BY DEF Links, Tellers, Sharers
  <2>5. Patient(t)'
    BY <2>2, <2>4 DEF Patient, Calm, PatientInv
  <2>6. PatientInv'
    BY <2>2, <2>5, <1>PatientStep DEF Calm
  <2>7. \A u \in Task \ {t} : tcs_sig'[u] = NoSig => tcs_sig[u] = NoSig
    BY DEF sigVars
  <2>8. rw_mode' = "reading" => ~Asleep(t, {"read", "write"})'
    BY <2>2 DEF Asleep
  <2>9. Unshared' => ~Asleep(t, {"unshare", "upgrade"})'
    BY <2>2 DEF Asleep
  <2>10. NoStrandedWaiter'
    BY <2>2, <2>4, <2>7, <2>8, <2>9, <1>StrandStep DEF Calm, ModeKept
  <2> QED BY <2>3, <2>6, <2>10 DEF Calm
(* task_connect()                                                          *)
<1>CalmConnect.
  \A t \in Task :
    RWInv /\ Calm /\ ConnectSignal(t)
      => Calm'
  (* task_connect(): t was not connected, and has no signal yet.             *)
  <2>LinkConnect.
    ASSUME TypeOK, LinkInv, NEW t \in Task, Rest(t), pc[t] \notin Links, pc'[t] \in Links,
           Connect(t, SigOf(t)', FALSE)
    PROVE  LinkInv'
    <3> USE <2>LinkConnect
    <3> DEFINE s0 == SigOf(t)'
               c0 == [task |-> t, ghost |-> FALSE]
    <3>1. s0 \in Sig /\ c0 \in Connection /\ c0.task = t /\ ~c0.ghost
      BY RWLockAssumption, SMTT(60) DEF SigOf, Connection
    <3>2. tcs_sig[t] = NoSig
      BY DEF LinkInv, Linked
    <3>3. /\ tcs_sig' = tcs_sig /\ saved' = saved
          /\ chain' = [chain EXCEPT ![s0] = Append(chain[s0], c0)]
      BY <3>2 DEF Connect
    <3> HIDE DEF s0, c0
    <3>4. chain \in [Sig -> Seq(Connection)]
      BY DEF TypeOK, SigTypeOK
    <3>5. chain[s0] \in Seq(Connection)
      BY <3>1, <3>4
    <3>6. \A s \in Sig : \A c \in Conns(chain[s]) : c.task \in Task /\ c.task # t
      BY <1>ConnsType DEF TypeOK, LinkInv, Linked
    <3>7. OncePerTask(chain[s0])
      BY <3>1 DEF LinkInv
    <3>8. \A d \in Conns(chain[s0]) : d.task # c0.task
      BY <3>1, <3>6
    <3>9. /\ Conns(Append(chain[s0], c0)) = Conns(chain[s0]) \cup {c0}
          /\ OncePerTask(Append(chain[s0], c0))
      BY <3>1, <3>5, <3>7, <3>8, ConnsAppend
    <3>10. chain'[s0] = Append(chain[s0], c0) /\ \A s \in Sig \ {s0} : chain'[s] = chain[s]
      BY <3>1, <3>3, <3>4
    <3>11. \A u \in Task \ {t} : (Linked(u)' <=> Linked(u)) /\ SigOf(u)' = SigOf(u)
      BY DEF Linked, SigOf, Rest
    <3>12. \A s \in Sig : OncePerTask(chain'[s])
      BY <3>9, <3>10 DEF LinkInv
    <3>13. Linked(t)' /\ s0 = SigOf(t)'
      BY DEF Linked, s0
    <3>14. \A s \in Sig : \A c \in Conns(chain'[s]) : c \in Conns(chain[s]) \/ (s = s0 /\ c = c0)
      BY <3>9, <3>10
    <3>15. \A s \in Sig : \A c \in Conns(chain[s]) :
             Linked(c.task)' /\ s = SigOf(c.task)' /\ ~c.ghost /\ tcs_sig[c.task] = NoSig
      <4> SUFFICES ASSUME NEW s \in Sig, NEW c \in Conns(chain[s])
                   PROVE  Linked(c.task)' /\ s = SigOf(c.task)' /\ ~c.ghost /\ tcs_sig[c.task] = NoSig
        OBVIOUS
      <4>1. Linked(c.task) /\ s = SigOf(c.task) /\ ~c.ghost /\ tcs_sig[c.task] = NoSig
        BY DEF LinkInv
      <4>2. c.task \in Task \ {t}
        BY <3>6
      <4>3. Linked(c.task)' /\ SigOf(c.task)' = SigOf(c.task)
        BY <3>11, <4>1, <4>2
      <4> QED BY <4>1, <4>3
    <3>16. \A s \in Sig : \A c \in Conns(chain'[s]) :
             Linked(c.task)' /\ s = SigOf(c.task)' /\ ~c.ghost /\ tcs_sig[c.task] = NoSig
      BY <3>1, <3>2, <3>13, <3>14, <3>15
    <3>17. \A s \in Sig : \A c \in Conns(chain[s]) : c \in Conns(chain'[s])
      BY <3>9, <3>10
    <3>18. \A u \in Task : SigOf(u) \in Sig
      BY RWLockAssumption DEF SigOf
    <3>19. \A u \in Task : Linked(u)' /\ tcs_sig[u] = NoSig =>
             \E c \in Conns(chain'[SigOf(u)']) : c.task = u
      <4>1. \E c \in Conns(chain'[SigOf(t)']) : c.task = t
        BY <3>1, <3>9, <3>10, <3>13
      <4>2. \A u \in Task \ {t} : Linked(u) /\ tcs_sig[u] = NoSig =>
              \E c \in Conns(chain'[SigOf(u)]) : c.task = u
        BY <3>17, <3>18 DEF LinkInv
      <4> QED BY <3>11, <4>1, <4>2
    <3>20. \A u \in Task : ~Linked(u)' => tcs_sig[u] = NoSig
      BY <3>11, <3>13 DEF LinkInv
    <3> QED BY <3>3, <3>12, <3>16, <3>19, <3>20 DEF LinkInv
  <2> SUFFICES ASSUME RWInv, Calm, NEW t \in Task, ConnectSignal(t)
               PROVE  Calm'
    OBVIOUS
  <2>1. TypeOK /\ pc[t] = "connect" /\ Stays
    BY DEF RWInv, ConnectSignal, Stays
  <2>2. op[t] \in {"read", "write", "unshare"}
    BY <2>1, Labels DEF Waits
  <2>3. \E l \in {"rcheck", "wcheck", "ucheck"} : GoTo(t, l) /\ Connect(t, SigOf(t), FALSE)
    <3>1. CASE op[t] = "read"
      BY <3>1 DEF ConnectSignal, SigOf
    <3>2. CASE op[t] = "write"
      <4>1. op[t] # "read" /\ op[t] # "unshare"
        BY <3>2
      <4> QED BY <3>2, <4>1 DEF ConnectSignal, SigOf
    <3>3. CASE op[t] = "unshare"
      <4>1. op[t] # "read" /\ op[t] # "write"
        BY <3>3
      <4> QED BY <3>3, <4>1 DEF ConnectSignal, SigOf
    <3> QED BY <2>2, <3>1, <3>2, <3>3
  <2>4. PICK l \in {"rcheck", "wcheck", "ucheck"} : GoTo(t, l) /\ Connect(t, SigOf(t), FALSE)
    BY <2>3
  <2>5. op' = [op EXCEPT ![t] = op[t]]
    BY <2>1, StillThere DEF Stays, call
  <2>6. pc'[t] = l /\ op'[t] = op[t] /\ Rest(t)
    BY <2>1, <2>4, <2>5, <1>Went DEF Goes, GoTo
  <2>7. pc[t] \notin Links \cup Tellers \cup Sharers /\ l \in Links /\ l \notin {"wait", "timeout"}
    BY <2>1, <2>4 DEF Links, Tellers, Sharers
  <2>8. SigOf(t)' = SigOf(t)
    BY <2>6 DEF SigOf
  <2>9. LinkInv'
    <3>1. Connect(t, SigOf(t)', FALSE)
      BY <2>4, <2>8
    <3> QED BY <2>1, <2>6, <2>7, <3>1, <2>LinkConnect DEF Calm
  <2>10. Patient(t)'
    BY <2>4, <2>6, <2>7 DEF Patient, Calm, PatientInv
  <2>11. PatientInv'
    BY <2>6, <2>10, <1>PatientStep DEF Calm
  <2>12. ModeKept /\ \A u \in Task \ {t} : tcs_sig'[u] = NoSig => tcs_sig[u] = NoSig
    BY <2>1, <2>4 DEF ModeKept, Unshared, Stays, state, Connect
  <2>13. ~Asleep(t, {"read", "write"})' /\ ~Asleep(t, {"unshare", "upgrade"})'
    BY <2>6, <2>7 DEF Asleep
  <2>14. NoStrandedWaiter'
    BY <2>6, <2>7, <2>12, <2>13, <1>StrandStep DEF Calm, ModeKept
  <2> QED BY <2>9, <2>11, <2>14 DEF Calm
(* A wait that is over, and the look that makes it needless.               *)
<1>CalmDrop.
  ASSUME TypeOK, Calm, NEW t \in Task, NEW l, NEW o, Goes(t, l, o), Disconnect(t),
         ModeKept, pc[t] \in Links, l \notin Links,
         l \notin {"push", "serve", "revert"}, o \in {"write", "unshare"} => t \in Writer
  PROVE  Calm'
  <2> USE <1>CalmDrop
  <2>1. pc'[t] = l /\ op'[t] = o /\ Rest(t)
    BY <1>Went
  <2>2. LinkInv'
    BY <2>1, <1>LinkDrop DEF Calm
  <2>3. l # "wait" /\ l # "timeout" /\ pc[t] \notin Tellers \cup Sharers
    BY DEF Links, Tellers, Sharers
  <2>4. Patient(t)'
    BY <2>1, <2>3 DEF Patient
  <2>5. PatientInv'
    BY <2>1, <2>4, <1>PatientStep DEF Calm
  <2>6. \A u \in Task \ {t} : tcs_sig'[u] = tcs_sig[u]
    <3>1. tcs_sig \in [Task -> Sig \cup {NoSig}] /\ tcs_sig' = [tcs_sig EXCEPT ![t] = NoSig]
      BY DEF TypeOK, SigTypeOK, Disconnect
    <3> QED BY <3>1
  <2>7. ~Asleep(t, {"read", "write"})' /\ ~Asleep(t, {"unshare", "upgrade"})'
    BY <2>1, <2>3 DEF Asleep
  <2>8. NoStrandedWaiter'
    BY <2>1, <2>3, <2>6, <2>7, <1>StrandStep DEF Calm, ModeKept
  <2> QED BY <2>2, <2>5, <2>8 DEF Calm
(* sig_broadcast(&rw_chmode) and sig_send(&rw_unshare,1)                   *)
<1>SendCalm.
  \A t \in Task :
    RWInv /\ Calm /\ (BroadcastProbe(t) \/ Broadcast(t) \/ UnshareProbe(t) \/ UnshareSend(t))
      => Calm'
  (* One turn of sig_send(), by a task that is not connected: the oldest     *)
  (* connection is gone, and its task has the signal.                        *)
  <2>LinkSend.
    ASSUME TypeOK, LinkInv, NEW t \in Task, Rest(t), pc[t] \notin Links, pc'[t] \notin Links,
           NEW s \in Sig, SendOne(s)
    PROVE  /\ LinkInv'
           /\ \A u \in Task : tcs_sig'[u] = NoSig => tcs_sig[u] = NoSig
           /\ \E h \in Task : Linked(h) /\ SigOf(h) = s /\ tcs_sig'[h] # NoSig
    <3> USE <2>LinkSend
    <3> DEFINE c0 == Head(chain[s])
               h == c0.task
    <3>1. tcs_sig \in [Task -> Sig \cup {NoSig}] /\ chain \in [Sig -> Seq(Connection)]
      BY DEF TypeOK, SigTypeOK
    <3>2. chain[s] \in Seq(Connection) /\ OncePerTask(chain[s]) /\ chain[s] # <<>>
      BY <3>1 DEF LinkInv, SendOne
    <3>3. /\ c0 \in Conns(chain[s])
          /\ Conns(Tail(chain[s])) = Conns(chain[s]) \ {c0} /\ OncePerTask(Tail(chain[s]))
      BY <3>2, ConnsTail
    <3>4. h \in Task
      BY <3>3, <1>ConnsType DEF TypeOK
    <3>5. Linked(h) /\ s = SigOf(h) /\ ~c0.ghost /\ tcs_sig[h] = NoSig /\ saved[h] = "main"
      BY <3>3, <3>4 DEF LinkInv
    <3>6. /\ chain' = [chain EXCEPT ![s] = Tail(chain[s])] /\ saved' = saved
          /\ tcs_sig' = [tcs_sig EXCEPT ![h] = s]
      BY <3>5 DEF SendOne
    <3>7. \A c \in Conns(chain[s]) : c.task = h => c = c0
      <4>1. \A i, j \in DOMAIN chain[s] : chain[s][i].task = chain[s][j].task => i = j
        BY <3>2 DEF OncePerTask
      <4> QED BY <3>3, <4>1 DEF Conns
    <3> HIDE DEF c0, h
    <3>8. chain'[s] = Tail(chain[s]) /\ \A r \in Sig \ {s} : chain'[r] = chain[r]
      BY <3>1, <3>6
    <3>9. s # NoSig /\ tcs_sig'[h] = s /\ \A u \in Task \ {h} : tcs_sig'[u] = tcs_sig[u]
      BY <3>1, <3>4, <3>6, NoSigAssumption
    <3>10. \A u \in Task : (Linked(u)' <=> Linked(u)) /\ (Linked(u) => SigOf(u)' = SigOf(u))
      BY DEF Linked, SigOf, Rest
    <3>11. \A r \in Sig : OncePerTask(chain'[r])
      BY <3>3, <3>8 DEF LinkInv
    <3>12. \A r \in Sig : \A c \in Conns(chain'[r]) :
             Linked(c.task)' /\ r = SigOf(c.task)' /\ ~c.ghost /\ tcs_sig'[c.task] = NoSig
      <4> SUFFICES ASSUME NEW r \in Sig, NEW c \in Conns(chain'[r])
                   PROVE  Linked(c.task)' /\ r = SigOf(c.task)' /\ ~c.ghost /\ tcs_sig'[c.task] = NoSig
        OBVIOUS
      <4>1. c \in Conns(chain[r]) /\ ~(r = s /\ c = c0)
        BY <3>3, <3>8
      <4>2. c.task \in Task
        BY <4>1, <1>ConnsType DEF TypeOK
      <4>3. Linked(c.task) /\ r = SigOf(c.task) /\ ~c.ghost /\ tcs_sig[c.task] = NoSig
        BY <4>1 DEF LinkInv
      <4>4. c.task # h
        BY <3>5, <3>7, <4>1, <4>3
      <4>5. Linked(c.task)' /\ SigOf(c.task)' = SigOf(c.task) /\ tcs_sig'[c.task] = tcs_sig[c.task]
        BY <3>9, <3>10, <4>2, <4>3, <4>4
      <4> QED BY <4>3, <4>5
    <3>13. ASSUME NEW u \in Task, Linked(u)', tcs_sig'[u] = NoSig
           PROVE  \E c \in Conns(chain'[SigOf(u)']) : c.task = u
      <4>1. u # h
        BY <3>9, <3>13
      <4>2. Linked(u) /\ tcs_sig[u] = NoSig /\ SigOf(u)' = SigOf(u)
        BY <3>9, <3>10, <3>13, <4>1
      <4>3. PICK c \in Conns(chain[SigOf(u)]) : c.task = u
        BY <4>2 DEF LinkInv
      <4>4. SigOf(u) \in Sig /\ c # c0
        BY <4>1, <4>3, RWLockAssumption DEF SigOf, h
      <4>5. c \in Conns(chain'[SigOf(u)])
        BY <3>3, <3>8, <4>3, <4>4
      <4> QED BY <4>2, <4>3, <4>5
    <3>14. \A u \in Task : ~Linked(u)' => tcs_sig'[u] = NoSig
      BY <3>5, <3>9, <3>10 DEF LinkInv
    <3>15. LinkInv'
      BY <3>6, <3>11, <3>12, <3>13, <3>14 DEF LinkInv
    <3> QED BY <3>4, <3>5, <3>9, <3>15
  (* A signal that nobody is connected to: nobody sleeps for it.             *)
  <2>NobodyAsks.
    ASSUME RWInv, LinkInv, NEW u \in Task
    PROVE  /\ chain[rw_chmode] = <<>> => ~Asleep(u, {"read", "write"})
           /\ chain[rw_unshare] = <<>> => ~Asleep(u, {"unshare", "upgrade"})
    <3> USE <2>NobodyAsks
    <3>1. ASSUME NEW S, Asleep(u, S) PROVE chain[SigOf(u)] # <<>> /\ op[u] \in S /\ pc[u] = "wait"
      <4>1. Linked(u) /\ tcs_sig[u] = NoSig /\ op[u] \in S /\ pc[u] = "wait"
        BY <3>1 DEF Asleep, Linked, Links
      <4>2. PICK c \in Conns(chain[SigOf(u)]) : c.task = u
        BY <4>1 DEF LinkInv
      <4> QED BY <4>1, <4>2, ConnsEmpty
    <3>2. pc[u] = "wait" => op[u] # "upgrade"
      BY Labels DEF Waits
    <3>3. op[u] \in {"read", "write"} => SigOf(u) = rw_chmode
      BY DEF SigOf
    <3>4. op[u] = "unshare" => SigOf(u) = rw_unshare
      BY DEF SigOf
    <3>5. ASSUME chain[rw_chmode] = <<>>, Asleep(u, {"read", "write"}) PROVE FALSE
      <4>1. chain[SigOf(u)] # <<>> /\ op[u] \in {"read", "write"}
        BY <3>1, <3>5
      <4> QED BY <3>3, <3>5, <4>1
    <3>6. ASSUME chain[rw_unshare] = <<>>, Asleep(u, {"unshare", "upgrade"}) PROVE FALSE
      <4>1. chain[SigOf(u)] # <<>> /\ op[u] \in {"unshare", "upgrade"} /\ pc[u] = "wait"
        BY <3>1, <3>6
      <4> QED BY <3>2, <3>4, <3>6, <4>1
    <3> QED BY <3>5, <3>6
  (* The task that sends a signal, as far as the signal is concerned.        *)
  <2>Sender.
    ASSUME RWInv, Calm, NEW t \in Task, pc[t] \in Tellers \cup Sharers, NEW l,
           l \in {"run"} \cup Tellers \cup Sharers, GoTo(t, l), Stays,
           \/ UNCHANGED sigVars
           \/ SendOne(rw_chmode) \/ SendOne(rw_unshare)
    PROVE  /\ LinkInv' /\ PatientInv' /\ Rest(t) /\ pc'[t] = l /\ ModeKept
           /\ \A u \in Task : tcs_sig'[u] = NoSig => tcs_sig[u] = NoSig
           /\ ~Asleep(t, {"read", "write"})' /\ ~Asleep(t, {"unshare", "upgrade"})'
    <3> USE <2>Sender
    <3>1. TypeOK /\ op' = op
      BY DEF RWInv, Stays, call
    <3>2. op' = [op EXCEPT ![t] = op[t]]
      BY <3>1, StillThere
    <3>3. pc'[t] = l /\ op'[t] = op[t] /\ Rest(t)
      BY <3>1, <3>2, <1>Went DEF Goes, GoTo
    <3>4. pc[t] \notin Links /\ l \notin Links
      BY DEF Links, Tellers, Sharers
    <3>5. l \notin {"wait", "timeout", "push", "serve", "revert"}
      BY DEF Tellers, Sharers
    <3>6. Patient(t)'
      BY <3>3, <3>5 DEF Patient, Calm, PatientInv
    <3>7. PatientInv'
      BY <3>3, <3>6, <1>PatientStep DEF Calm
    <3>8. ~Asleep(t, {"read", "write"})' /\ ~Asleep(t, {"unshare", "upgrade"})'
      BY <3>3, <3>5 DEF Asleep
    <3>9. ModeKept
      BY DEF ModeKept, Unshared, Stays, state
    <3>10. LinkInv' /\ \A u \in Task : tcs_sig'[u] = NoSig => tcs_sig[u] = NoSig
      <4>1. CASE UNCHANGED sigVars
        <5>1. LinkInv'
          BY <3>1, <3>3, <3>4, <4>1, <1>LinkKept DEF Calm
        <5> QED BY <4>1, <5>1 DEF sigVars
      <4>2. ASSUME NEW s \in Sig, SendOne(s)
            PROVE  LinkInv' /\ \A u \in Task : tcs_sig'[u] = NoSig => tcs_sig[u] = NoSig
        BY <3>1, <3>3, <3>4, <4>2, <2>LinkSend DEF Calm
      <4>3. rw_chmode \in Sig /\ rw_unshare \in Sig
        BY RWLockAssumption
      <4> QED BY <4>1, <4>2, <4>3
    <3> QED BY <3>3, <3>7, <3>8, <3>9, <3>10
  (* It goes on announcing, or nobody is left who would have to know.        *)
  <2>CalmSend.
    ASSUME RWInv, Calm, NEW t \in Task, pc[t] \in Tellers \cup Sharers, NEW l,
           l \in {"run"} \cup Tellers \cup Sharers, GoTo(t, l), Stays,
           \/ UNCHANGED sigVars
           \/ SendOne(rw_chmode) \/ SendOne(rw_unshare),
           \/ l \in Tellers \/ pc[t] \notin Tellers
           \/ \A u \in Task : ~Asleep(u, {"read", "write"})',
           \/ l \in Sharers \/ pc[t] \notin Sharers
           \/ \A u \in Task : ~Asleep(u, {"unshare", "upgrade"})'
    PROVE  Calm'
    <3> USE <2>CalmSend
    <3>1. /\ LinkInv' /\ PatientInv' /\ Rest(t) /\ pc'[t] = l /\ ModeKept
          /\ \A u \in Task : tcs_sig'[u] = NoSig => tcs_sig[u] = NoSig
          /\ ~Asleep(t, {"read", "write"})' /\ ~Asleep(t, {"unshare", "upgrade"})'
      BY <2>Sender
    <3>2. NoStrandedWaiter'
      BY <3>1, <1>StrandStep DEF Calm, ModeKept
    <3> QED BY <3>1, <3>2 DEF Calm
  (* A signal with an empty chain, when the sender looks at it.              *)
  <2>StillNobody.
    ASSUME RWInv, Calm, NEW t \in Task, pc[t] \in Tellers \cup Sharers,
           GoTo(t, "run"), Stays, UNCHANGED sigVars
    PROVE  /\ chain[rw_chmode] = <<>> => \A u \in Task : ~Asleep(u, {"read", "write"})'
           /\ chain[rw_unshare] = <<>> => \A u \in Task : ~Asleep(u, {"unshare", "upgrade"})'
    <3> USE <2>StillNobody
    <3>1. /\ Rest(t) /\ ~Asleep(t, {"read", "write"})' /\ ~Asleep(t, {"unshare", "upgrade"})'
      BY <2>Sender
    <3>2. ASSUME NEW S, NEW u \in Task, u # t, Asleep(u, S)' PROVE Asleep(u, S)
      BY <3>1, <3>2 DEF Asleep, Rest, sigVars
    <3>3. ASSUME chain[rw_chmode] = <<>>, NEW u \in Task, Asleep(u, {"read", "write"})' PROVE FALSE
      BY <3>1, <3>2, <3>3, <2>NobodyAsks DEF Calm
    <3>4. ASSUME chain[rw_unshare] = <<>>, NEW u \in Task, Asleep(u, {"unshare", "upgrade"})' PROVE FALSE
      BY <3>1, <3>2, <3>4, <2>NobodyAsks DEF Calm
    <3> QED BY <3>3, <3>4
  (* sig_send(&rw_unshare,1) reaches the upgrading thread, and there is but  *)
  (* one.                                                                    *)
  <2>OneUpgrader.
    ASSUME RWInv, Calm, NEW t \in Task, pc[t] \in Sharers, GoTo(t, "run"), Stays,
           SendOne(rw_unshare), NEW u \in Task
    PROVE  ~Asleep(u, {"unshare", "upgrade"})'
    <3> USE <2>OneUpgrader
    <3> SUFFICES ASSUME Asleep(u, {"unshare", "upgrade"})' PROVE FALSE
      BY SMTT(60)
    <3>1. Rest(t) /\ pc'[t] = "run" /\ ~Asleep(t, {"unshare", "upgrade"})' /\ u # t
      BY <2>Sender
    <3>2. pc[u] = "wait" /\ op[u] \in {"unshare", "upgrade"} /\ tcs_sig'[u] = NoSig
      BY <3>1 DEF Asleep, Rest
    <3>3. op[u] = "unshare"
      BY <3>2, Labels DEF Waits
    <3>4. Upgrading(u)
      BY <3>2, <3>3 DEF Upgrading
    <3>5. TypeOK /\ LinkInv /\ rw_unshare \in Sig /\ pc[t] \notin Links /\ pc'[t] \notin Links
      BY <3>1, RWLockAssumption DEF RWInv, Calm, Links, Sharers
    <3>6. PICK h \in Task : Linked(h) /\ SigOf(h) = rw_unshare /\ tcs_sig'[h] # NoSig
      BY <3>1, <3>5, <2>LinkSend
    <3>7. op[h] = "unshare"
      BY <3>6, RWLockAssumption DEF SigOf
    <3>8. CASE pc[h] = "udrop"
      <4>1. Excludes(h)
        BY <3>8 DEF Excludes, Taking
      <4>2. rw_mode = "writing" /\ rw_mode = "upgrading"
        BY <3>4, <4>1 DEF RWInv, ModeInv
      <4> QED BY <4>2
    <3>9. CASE pc[h] # "udrop"
      <4>1. Upgrading(h)
        BY <3>6, <3>7, <3>9 DEF Upgrading, Linked, Links
      <4>2. h = u
        BY <3>4, <4>1 DEF RWInv, ModeInv
      <4> QED BY <3>2, <3>6, <4>2
    <3> QED BY <3>8, <3>9
  <2> SUFFICES ASSUME RWInv, Calm, NEW t \in Task,
                      BroadcastProbe(t) \/ Broadcast(t) \/ UnshareProbe(t) \/ UnshareSend(t)
               PROVE  Calm'
    OBVIOUS
  <2>1. Stays
    BY DEF BroadcastProbe, Broadcast, UnshareProbe, UnshareSend, Stays
  <2>2. pc = [pc EXCEPT ![t] = pc[t]]
    BY StillThere DEF RWInv
  <2>3. CASE pc[t] \in Tellers /\ chain[rw_chmode] = <<>> /\ GoTo(t, "run") /\ UNCHANGED sigVars
    <3>1. pc[t] \notin Sharers /\ \A u \in Task : ~Asleep(u, {"read", "write"})'
      BY <2>1, <2>3, <2>StillNobody DEF Tellers, Sharers
    <3> QED BY <2>1, <2>3, <3>1, <2>CalmSend
  <2>4. CASE pc[t] \in Sharers /\ chain[rw_unshare] = <<>> /\ GoTo(t, "run") /\ UNCHANGED sigVars
    <3>1. pc[t] \notin Tellers /\ \A u \in Task : ~Asleep(u, {"unshare", "upgrade"})'
      BY <2>1, <2>4, <2>StillNobody DEF Tellers, Sharers
    <3> QED BY <2>1, <2>4, <3>1, <2>CalmSend
  <2>5. CASE /\ pc[t] \in Tellers /\ GoTo(t, "csend")
             /\ UNCHANGED sigVars \/ SendOne(rw_chmode)
    <3>1. pc[t] \notin Sharers /\ "csend" \in Tellers
      BY <2>5 DEF Tellers, Sharers
    <3> QED BY <2>1, <2>5, <3>1, <2>CalmSend
  <2>6. CASE /\ pc[t] \in Sharers /\ GoTo(t, "usend")
             /\ UNCHANGED sigVars \/ SendOne(rw_unshare)
    <3>1. pc[t] \notin Tellers /\ "usend" \in Sharers
      BY <2>6 DEF Tellers, Sharers
    <3> QED BY <2>1, <2>6, <3>1, <2>CalmSend
  <2>7. CASE pc[t] \in Sharers /\ GoTo(t, "run") /\ SendOne(rw_unshare)
    <3>1. pc[t] \notin Tellers /\ \A u \in Task : ~Asleep(u, {"unshare", "upgrade"})'
      BY <2>1, <2>7, <2>OneUpgrader DEF Tellers, Sharers
    <3> QED BY <2>1, <2>7, <3>1, <2>CalmSend
  <2>8. CASE BroadcastProbe(t)
    BY <2>3, <2>5, <2>8 DEF BroadcastProbe, Tellers
  <2>9. CASE Broadcast(t)
    BY <2>2, <2>3, <2>5, <2>9 DEF Broadcast, Tellers, GoTo
  <2>10. CASE UnshareProbe(t)
    BY <2>4, <2>6, <2>10 DEF UnshareProbe, Sharers
  <2>11. CASE UnshareSend(t)
    <3>1. pc[t] = "usend" /\ pc[t] \in Sharers
      BY <2>11 DEF UnshareSend, Sharers
    <3>2. CASE chain[rw_unshare] = <<>> /\ GoTo(t, "run") /\ UNCHANGED sigVars
      BY <2>4, <3>1, <3>2
    <3>3. CASE SendOne(rw_unshare) /\ GoTo(t, "run")
      BY <2>7, <3>1, <3>3
    <3>4. CASE SendOne(rw_unshare) /\ UNCHANGED pc
      BY <2>2, <2>6, <3>1, <3>4 DEF GoTo
    <3> QED BY <2>11, <3>2, <3>3, <3>4 DEF UnshareSend
  <2> QED BY <2>8, <2>9, <2>10, <2>11
(* A step between labels at which a task is not connected.                 *)
<1>CalmFree.
  ASSUME RWInv, Calm, NEW t \in Task, pc[t] \in Free, NEW l \in Free, NEW o, Goes(t, l, o),
         UNCHANGED sigVars, ModeKept, o \in {"write", "unshare"} => t \in Writer
  PROVE  Calm'
  <2> USE <1>CalmFree
  <2>1. pc[t] \notin Links \cup Tellers \cup Sharers
    BY DEF Free, Links, Tellers, Sharers
  <2>2. l \notin Links /\ l \notin {"push", "serve", "revert"}
    BY DEF Free, Links
  <2>3. TypeOK
    BY DEF RWInv
  <2> QED BY <2>1, <2>2, <2>3, <1>CalmPass
(* ... and such a step inside of a call.                                   *)
<1>CalmStay.
  ASSUME RWInv, Calm, NEW t \in Task, pc[t] \in Free, NEW l \in Free, GoTo(t, l),
         op' = op, UNCHANGED sigVars, ModeKept
  PROVE  Calm'
  <2> USE <1>CalmStay
  <2>1. op' = [op EXCEPT ![t] = op[t]]
    BY StillThere DEF RWInv
  <2>2. op[t] \in {"write", "unshare"} => t \in Writer
    BY DEF Calm, PatientInv, Patient
  <2>3. Goes(t, l, op[t])
    BY <2>1 DEF Goes, GoTo
  <2> QED BY <2>2, <2>3, <1>CalmFree
(* Between two calls.                                                      *)
<1>CalmRest.
  ASSUME RWInv, Calm, NEW t \in Task, pc[t] \in Free, UNCHANGED <<pc, op, sigVars>>, ModeKept
  PROVE  Calm'
  <2> USE <1>CalmRest
  <2>1. pc = [pc EXCEPT ![t] = pc[t]]
    BY StillThere DEF RWInv
  <2>2. PICK l \in Free : l = pc[t]
    OBVIOUS
  <2>3. GoTo(t, l)
    BY <2>1, <2>2 DEF GoTo
  <2> QED BY <2>3, <1>CalmStay
(* The mode after the changes of state there are. *)
<1>Modes.
  /\ UNCHANGED state => ModeKept
  /\ \A n : SetState("writing", n) => ModeKept
  /\ \A n : rw_mode = "reading" /\ SetState("reading", n) => ModeKept
  /\ \A n : SetState("upgrading", n) /\ n # 0 => ModeKept
  /\ \A t, x : Recurse(t, x) => ModeKept
  <2>1. UNCHANGED state => ModeKept
    BY DEF state, ModeKept, Unshared
  <2>2. \A n : SetState("writing", n) => ModeKept
    BY DEF SetState, ModeKept, Unshared
  <2>3. \A n : rw_mode = "reading" /\ SetState("reading", n) => ModeKept
    BY DEF SetState, ModeKept, Unshared
  <2>4. \A n : SetState("upgrading", n) /\ n # 0 => ModeKept
    BY DEF SetState, ModeKept, Unshared
  <2>5. \A t, x : Recurse(t, x) => ModeKept
    BY <2>2 DEF Recurse
  <2> QED BY <2>1, <2>2, <2>3, <2>4, <2>5
(* rwlock_read() and rwlock_tryread() up to their first access.            *)
<1>ReadCalm.
  ASSUME RWInv, Calm, NEW t \in Task, Read(t) \/ TryRead(t)
  PROVE  Calm'
  <2> USE <1>ReadCalm
  <2>1. pc[t] \in Free /\ "racquire" \in Free /\ UNCHANGED sigVars
    BY DEF Read, TryRead, MayAcquire, Idle, Free
  <2>2. CASE UNCHANGED <<pc, op>> /\ ModeKept
    BY <2>1, <2>2, <1>CalmRest
  <2>3. CASE Read(t)
    <3>1. CASE UNCHANGED state /\ Call(t, "read") /\ GoTo(t, "racquire")
      <4>1. ModeKept /\ Goes(t, "racquire", "read")
        BY <3>1, <1>Modes DEF Call, GoTo, Goes
      <4> QED BY <2>1, <4>1, <1>CalmFree
    <3>2. \/ Recurse(t, "r") /\ UNCHANGED <<op, pc>>
          \/ UNCHANGED state /\ UNCHANGED <<op, pc>>
          \/ UNCHANGED state /\ Call(t, "read") /\ GoTo(t, "racquire")
      BY <2>3 DEF Read, call
    <3> QED BY <2>2, <3>1, <3>2, <1>Modes
  <2>4. CASE TryRead(t)
    <3>1. /\ UNCHANGED <<op, pc>>
          /\ \/ Recurse(t, "r") \/ UNCHANGED state
             \/ rw_mode = "reading" /\ SetState("reading", rw_ind + 1)
      BY <2>4 DEF TryRead, call
    <3> QED BY <2>2, <3>1, <1>Modes
  <2> QED BY <2>3, <2>4
(* rwlock_write() and rwlock_trywrite() up to their first access.          *)
<1>WriteCalm.
  ASSUME RWInv, Calm, NEW t \in Task, Write(t) \/ TryWrite(t)
  PROVE  Calm'
  <2> USE <1>WriteCalm
  <2>1. /\ pc[t] \in Free /\ "wagain" \in Free /\ "owner" \in Free
        /\ t \in Writer /\ UNCHANGED sigVars
    BY DEF Write, TryWrite, MayAcquire, Idle, Free
  <2>2. CASE Write(t)
    <3>1. ModeKept /\ Goes(t, "wagain", "write")
      BY <2>2, <1>Modes DEF Write, Call, GoTo, Goes
    <3> QED BY <2>1, <3>1, <1>CalmFree
  <2>3. CASE Recurse(t, "w") /\ UNCHANGED <<op, pc>>
    BY <2>1, <2>3, <1>Modes, <1>CalmRest
  <2>4. CASE TakeExclusive(t) /\ Call(t, "write")
    <3>1. ModeKept /\ Goes(t, "owner", "write")
      BY <2>4, <1>Modes DEF TakeExclusive, Call, GoTo, Goes
    <3> QED BY <2>1, <3>1, <1>CalmFree
  <2> QED BY <2>2, <2>3, <2>4 DEF TryWrite
(* rwlock_timedread() takes its lock or is going to wait.                  *)
<1>ReadAcquireCalm.
  ASSUME RWInv, Calm, NEW t \in Task, ReadAcquire(t)
  PROVE  Calm'
  <2> USE <1>ReadAcquireCalm
  <2>1. pc[t] \in Free /\ "run" \in Free /\ "connect" \in Free /\ UNCHANGED sigVars
    BY DEF ReadAcquire, Free
  <2>2. CASE rw_mode = "reading" /\ SetState("reading", rw_ind + 1) /\ Call(t, "none") /\ GoTo(t, "run")
    <3>1. ModeKept /\ Goes(t, "run", "none")
      BY <2>2, <1>Modes DEF Call, GoTo, Goes
    <3> QED BY <2>1, <3>1, <1>CalmFree
  <2>3. CASE GoTo(t, "connect") /\ UNCHANGED state /\ op' = op
    BY <2>1, <2>3, <1>Modes, <1>CalmStay
  <2> QED BY <2>2, <2>3 DEF ReadAcquire
(* rwlock_timedwrite() looks at the mode.                                  *)
<1>WriteAgainCalm.
  ASSUME RWInv, Calm, NEW t \in Task, WriteAgain(t)
  PROVE  Calm'
  <2> USE <1>WriteAgainCalm
  <2>1. /\ pc[t] = "wagain" /\ pc[t] \in Free /\ "run" \in Free /\ "wpoll" \in Free
        /\ "owner" \in Free /\ "upoll" \in Free /\ UNCHANGED sigVars
    BY DEF WriteAgain, Free
  <2>2. t \in Writer
    BY <2>1, Labels DEF Calm, PatientInv, Patient
  <2>3. CASE Recurse(t, "w") /\ Call(t, "none") /\ GoTo(t, "run")
    <3>1. ModeKept /\ Goes(t, "run", "none")
      BY <2>3, <1>Modes DEF Call, GoTo, Goes
    <3> QED BY <2>1, <3>1, <1>CalmFree
  <2>4. CASE GoTo(t, "wpoll") /\ UNCHANGED <<state, call>>
    BY <2>1, <2>4, <1>Modes, <1>CalmStay DEF call
  <2>5. CASE ThrowRetry(t) /\ Call(t, "none")
    <3>1. ModeKept /\ Goes(t, "run", "none")
      BY <2>5, <1>Modes DEF ThrowRetry, Call, GoTo, Goes
    <3> QED BY <2>1, <3>1, <1>CalmFree
  <2>6. CASE TakeExclusive(t) /\ UNCHANGED call
    <3>1. ModeKept /\ GoTo(t, "owner") /\ op' = op
      BY <2>6, <1>Modes DEF TakeExclusive, call
    <3> QED BY <2>1, <3>1, <1>CalmStay
  <2>7. CASE BeginUpgrade(t, "unshare")
    <3>1. rw_ind \in Nat
      BY DEF RWInv, TypeOK
    <3>2. /\ Goes(t, "upoll", "unshare") /\ ~(rw_ind = 0 \/ (rw_ind = 1 /\ t \in desc))
          /\ SetState("upgrading", IF t \in desc THEN rw_ind - 1 ELSE rw_ind)
      BY <2>7 DEF BeginUpgrade, Call, GoTo, Goes
    <3>3. (IF t \in desc THEN rw_ind - 1 ELSE rw_ind) # 0
      BY <3>1, <3>2, SMTT(60)
    <3>4. ModeKept
      BY <3>2, <3>3, <1>Modes
    <3> QED BY <2>1, <2>2, <3>2, <3>4, <1>CalmFree
  <2> QED BY <2>3, <2>4, <2>5, <2>6, <2>7 DEF WriteAgain
(* The steps of a writer before it connects or when it has won.            *)
<1>PollCalm.
  ASSUME RWInv, Calm, NEW t \in Task, WritePoll(t) \/ UnsharePoll(t) \/ SetOwner(t)
  PROVE  Calm'
  <2> USE <1>PollCalm
  <2>1. /\ pc[t] \in Free /\ "run" \in Free /\ "wagain" \in Free /\ "connect" \in Free
        /\ "owner" \in Free /\ UNCHANGED sigVars
    BY DEF WritePoll, UnsharePoll, SetOwner, Free
  <2>2. CASE WritePoll(t)
    <3>1. ModeKept /\ op' = op /\ (GoTo(t, "wagain") \/ GoTo(t, "connect"))
      BY <2>2, <1>Modes DEF WritePoll, call
    <3> QED BY <2>1, <3>1, <1>CalmStay
  <2>3. CASE UnsharePoll(t)
    <3>1. ModeKept /\ op' = op /\ (GoTo(t, "owner") \/ GoTo(t, "connect"))
      BY <2>3, <1>Modes DEF UnsharePoll, call
    <3> QED BY <2>1, <3>1, <1>CalmStay
  <2>4. CASE SetOwner(t)
    <3>1. ModeKept /\ Goes(t, "run", "none")
      BY <2>4, <1>Modes DEF SetOwner, Call, GoTo, Goes
    <3> QED BY <2>1, <3>1, <1>CalmFree
  <2> QED BY <2>2, <2>3, <2>4
(* The second looks at the mode, after task_connect().                     *)
<1>CheckCalm.
  ASSUME RWInv, Calm, NEW t \in Task, ReadCheck(t) \/ WriteCheck(t) \/ UnshareCheck(t)
  PROVE  Calm'
  <2> USE <1>CheckCalm
  <2>1. /\ TypeOK /\ op' = op /\ UNCHANGED sigVars
        /\ "wait" \in Links /\ "rdrop" \in Links /\ "wdrop" \in Links /\ "udrop" \in Links
    BY DEF RWInv, ReadCheck, WriteCheck, UnshareCheck, call, Links
  <2>2. CASE ReadCheck(t)
    <3>1. pc[t] = "rcheck" /\ pc[t] \in Links
      BY <2>2 DEF ReadCheck, Links
    <3>2. op[t] = "read"
      BY <3>1, Labels
    <3>3. CASE rw_mode = "reading" /\ SetState("reading", rw_ind + 1) /\ GoTo(t, "rdrop")
      BY <2>1, <3>1, <3>3, <1>Modes, <1>CalmCheck
    <3>4. CASE rw_mode # "reading" /\ UNCHANGED state /\ GoTo(t, "wait")
      <4>1. rw_mode' # "reading" /\ ModeKept
        BY <3>4, <1>Modes DEF state
      <4> QED BY <2>1, <3>1, <3>2, <3>4, <4>1, <1>CalmCheck
    <3> QED BY <2>2, <3>3, <3>4 DEF ReadCheck
  <2>3. CASE WriteCheck(t)
    <3>1. pc[t] = "wcheck" /\ pc[t] \in Links /\ UNCHANGED state
      BY <2>3 DEF WriteCheck, Links
    <3>2. op[t] = "write" /\ ModeKept
      BY <3>1, Labels, <1>Modes
    <3>3. CASE GoTo(t, "wdrop")
      BY <2>1, <3>1, <3>2, <3>3, <1>CalmCheck
    <3>4. CASE rw_mode # "reading" /\ GoTo(t, "wait")
      <4>1. rw_mode' # "reading"
        BY <3>1, <3>4 DEF state
      <4> QED BY <2>1, <3>1, <3>2, <3>4, <4>1, <1>CalmCheck
    <3> QED BY <2>3, <3>3, <3>4 DEF WriteCheck
  <2>4. CASE UnshareCheck(t)
    <3>1. pc[t] = "ucheck" /\ pc[t] \in Links
      BY <2>4 DEF UnshareCheck, Links
    <3>2. op[t] = "unshare"
      BY <3>1, Labels
    <3>3. CASE SetState("writing", 1) /\ GoTo(t, "udrop")
      BY <2>1, <3>1, <3>3, <1>Modes, <1>CalmCheck
    <3>4. CASE ~Unshared /\ UNCHANGED state /\ GoTo(t, "wait")
      <4>1. ~Unshared' /\ ModeKept
        BY <3>4, <1>Modes DEF state, Unshared
      <4> QED BY <2>1, <3>1, <3>2, <3>4, <4>1, <1>CalmCheck
    <3> QED BY <2>4, <3>3, <3>4 DEF UnshareCheck
  <2> QED BY <2>2, <2>3, <2>4
(* The calls of task_disconnect() after a successful second look.          *)
<1>DropCalm.
  ASSUME RWInv, Calm, NEW t \in Task, ReadDrop(t) \/ WriteDrop(t) \/ UnshareDrop(t)
  PROVE  Calm'
  <2> USE <1>DropCalm
  <2>1. TypeOK /\ Disconnect(t) /\ pc[t] \in Links /\ ModeKept
    BY <1>Modes DEF RWInv, ReadDrop, WriteDrop, UnshareDrop, Links
  <2>2. "run" \notin Links /\ "wagain" \notin Links /\ "owner" \notin Links
    BY DEF Links
  <2>3. CASE Goes(t, "run", "none")
    BY <2>1, <2>2, <2>3, <1>CalmDrop
  <2>4. CASE UNCHANGED call /\ (GoTo(t, "wagain") \/ GoTo(t, "owner"))
    <3>1. op' = [op EXCEPT ![t] = op[t]]
      BY <2>1, <2>4, StillThere DEF call
    <3>2. op[t] \in {"write", "unshare"} => t \in Writer
      BY DEF Calm, PatientInv, Patient
    <3>3. Goes(t, "wagain", op[t]) \/ Goes(t, "owner", op[t])
      BY <2>4, <3>1 DEF Goes, GoTo
    <3> QED BY <2>1, <2>2, <3>2, <3>3, <1>CalmDrop
  <2> QED BY <2>3, <2>4 DEF ReadDrop, WriteDrop, UnshareDrop, Call, GoTo, Goes
(* task_waitfor(): a task with the signal goes on, a reader may time out.  *)
<1>WaitCalm.
  ASSUME Patience, RWInv, Calm, NEW t \in Task, Wait(t)
  PROVE  Calm'
  <2> USE <1>WaitCalm
  <2>1. TypeOK /\ ModeKept /\ Patient(t)
    BY <1>Modes DEF RWInv, Wait, Calm, PatientInv
  <2>2. /\ "wait" \in Links /\ "timeout" \in Links /\ "run" \notin Links
        /\ "racquire" \notin Links /\ "wagain" \notin Links /\ "upoll" \notin Links
    BY DEF Links
  <2>3. CASE WaitLoop(t) /\ op' = op
    <3>1. WaitTimeout(t)
      BY <2>1, <2>3
         DEF WaitLoop, WaitServe, ServeCallbacks, ServeDone, ServeThrow, Patience, Patient
    <3>2. pc[t] = "wait" /\ t \notin Writer /\ UNCHANGED sigVars /\ GoTo(t, "timeout")
      BY <3>1 DEF WaitTimeout, Patience
    <3>3. op[t] = "read"
      BY <2>1, <3>2, Labels DEF Patient, Waits
    <3> QED BY <2>1, <2>2, <2>3, <3>2, <3>3, <1>CalmCheck
  <2>4. CASE /\ \E l \in {"racquire", "wagain", "upoll"} : WaitSignaled(t, l)
             /\ op' = op
    <3>1. PICK l \in {"racquire", "wagain", "upoll"} : WaitSignaled(t, l)
      BY <2>4
    <3>2. pc[t] = "wait" /\ Disconnect(t) /\ GoTo(t, l)
      BY <3>1 DEF WaitSignaled
    <3>3. op' = [op EXCEPT ![t] = op[t]]
      BY <2>1, <2>4, StillThere
    <3>4. Goes(t, l, op[t]) /\ (op[t] \in {"write", "unshare"} => t \in Writer)
      BY <2>1, <3>2, <3>3 DEF Goes, GoTo, Patient
    <3>5. l \notin {"push", "serve", "revert"} /\ l \notin Links /\ pc[t] \in Links
      BY <2>2, <3>1, <3>2
    <3> QED BY <2>1, <3>2, <3>4, <3>5, <1>CalmDrop
  <2>5. CASE WaitFailed(t, "run") /\ Call(t, "none")
    <3>1. pc[t] = "timeout" /\ Disconnect(t) /\ Goes(t, "run", "none")
      BY <2>5, Labels DEF WaitFailed, Call, GoTo, Goes
    <3> QED BY <2>1, <2>2, <3>1, <1>CalmDrop
  <2>6. CASE op[t] \in {"unshare", "upgrade"} /\ WaitFailed(t, "revert")
    <3>1. pc[t] = "timeout"
      BY <2>6, Labels DEF WaitFailed
    <3> QED BY <2>1, <2>6, <3>1 DEF Patient
  <2> QED BY <2>3, <2>4, <2>5, <2>6 DEF Wait
(* rwlock_endwrite() of a writer.                                          *)
<1>EndWriteCalm.
  ASSUME RWInv, Calm, NEW t \in Task, EndWrite(t)
  PROVE  Calm'
  <2> USE <1>EndWriteCalm
  <2>1. pc[t] \in Free /\ "endwrite" \in Free /\ UNCHANGED sigVars /\ op' = op
    BY DEF EndWrite, Free, call
  <2>2. CASE UNCHANGED state /\ GoTo(t, "endwrite")
    BY <2>1, <2>2, <1>Modes, <1>CalmStay
  <2>3. CASE SetState("writing", rw_ind - 1) /\ UNCHANGED pc
    BY <2>1, <2>3, <1>Modes, <1>CalmRest
  <2> QED BY <2>2, <2>3 DEF EndWrite
(* A task goes from a lock it has ended to the announcement.               *)
<1>CalmAnnounce.
  ASSUME RWInv, Calm, NEW t \in Task, pc[t] \in Free, NEW l, GoTo(t, l), op' = op,
         UNCHANGED sigVars,
         \/ l \in Tellers /\ ~Unshared'
         \/ l \in Sharers /\ rw_mode' = rw_mode
  PROVE  Calm'
  <2> USE <1>CalmAnnounce
  <2>1. TypeOK /\ op' = [op EXCEPT ![t] = op[t]]
    BY StillThere DEF RWInv
  <2>2. pc'[t] = l /\ op'[t] = op[t] /\ Rest(t)
    BY <2>1, <1>Went DEF Goes, GoTo
  <2>3. pc[t] \notin Links \cup Tellers \cup Sharers /\ l \notin Links
    BY DEF Free, Links, Tellers, Sharers
  <2>4. l \notin {"wait", "timeout", "push", "serve", "revert"}
    BY DEF Tellers, Sharers
  <2>5. LinkInv'
    BY <2>1, <2>2, <2>3, <1>LinkKept DEF Calm
  <2>6. Patient(t)'
    BY <2>2, <2>4 DEF Patient, Calm, PatientInv
  <2>7. PatientInv'
    BY <2>2, <2>6, <1>PatientStep DEF Calm
  <2>8. /\ ~Asleep(t, {"read", "write"})' /\ ~Asleep(t, {"unshare", "upgrade"})'
        /\ \A u \in Task \ {t} : tcs_sig'[u] = NoSig => tcs_sig[u] = NoSig
    BY <2>2, <2>4 DEF Asleep, sigVars
  <2>9. NoStrandedWaiter'
    BY <2>2, <2>3, <2>8, <1>StrandStep DEF Calm
  <2> QED BY <2>5, <2>7, <2>9 DEF Calm
(* rwlock_endwrite() leaves write-mode and is going to broadcast.          *)
<1>ReleaseCalm.
  ASSUME RWInv, Calm, NEW t \in Task, ReleaseExclusive(t)
  PROVE  Calm'
  <2> USE <1>ReleaseCalm
  <2>1. /\ pc[t] \in Free /\ UNCHANGED sigVars /\ op' = op /\ GoTo(t, "cprobe")
        /\ "cprobe" \in Tellers /\ ~Unshared'
    BY DEF ReleaseExclusive, Free, call, Tellers, SetState, Unshared
  <2> QED BY <2>1, <1>CalmAnnounce
(* The reader that stops the count announces it to the upgrading thread.   *)
<1>EndReadCalm.
  ASSUME RWInv, Calm, NEW t \in Task, EndRead(t)
  PROVE  Calm'
  <2> USE <1>EndReadCalm
  <2>1. pc[t] \in Free /\ "run" \in Free /\ "uprobe" \in Sharers /\ UNCHANGED sigVars /\ op' = op
    BY DEF EndRead, Free, Sharers
  <2>2. CASE UNCHANGED state /\ UNCHANGED pc
    BY <2>1, <2>2, <1>Modes, <1>CalmRest
  <2>3. CASE rw_mode' = rw_mode /\ GoTo(t, "uprobe")
    BY <2>1, <2>3, <1>CalmAnnounce
  <2>4. CASE rw_mode' = rw_mode /\ rw_ind' = rw_ind - 1 /\ rw_ind # 1 /\ GoTo(t, "run")
    <3>1. rw_ind \in Nat
      BY DEF RWInv, TypeOK
    <3>2. rw_ind' # 0
      BY <2>4, <3>1, SMTT(60)
    <3>3. ModeKept
      BY <2>4, <3>2 DEF ModeKept, Unshared
    <3> QED BY <2>1, <2>4, <3>3, <1>CalmStay
  <2> QED BY <2>2, <2>3, <2>4 DEF EndRead, SetState
<1> SUFFICES ASSUME Patience, RWInv, Calm, [Next]_vars PROVE Calm'
  BY SMTT(60)
<1>1. CASE UNCHANGED vars
  <2>1. UNCHANGED <<pc, rw_mode, rw_ind, op, chain, tcs_sig, saved>>
    BY <1>1 DEF vars, sigVars, state, call
  <2>2. LinkInv'
    BY <2>1 DEF Calm, LinkInv, Linked, SigOf
  <2>3. PatientInv' /\ NoStrandedWaiter'
    BY <2>1 DEF Calm, PatientInv, Patient, NoStrandedWaiter, Asleep, Unshared
  <2> QED BY <2>2, <2>3 DEF Calm
<1>2. CASE Next
  <2>1. PICK t \in Task :
           \/ Read(t) \/ TryRead(t) \/ Write(t) \/ TryWrite(t) \/ Upgrade(t) \/ Downgrade(t)
           \/ End(t) \/ PollConnect(t) \/ Step(t)
    BY <1>2 DEF Next
  <2>2. CASE Read(t) \/ TryRead(t) \/ Write(t) \/ TryWrite(t) \/ End(t)
    BY <2>2, <1>ReadCalm, <1>WriteCalm, <1>EndWriteCalm, <1>EndReadCalm DEF End
  <2>3. CASE ConnectSignal(t) \/ ReadAcquire(t) \/ ReadCheck(t) \/ ReadDrop(t)
    BY <2>3, <1>CalmConnect, <1>ReadAcquireCalm, <1>CheckCalm, <1>DropCalm
  <2>4. CASE WriteAgain(t) \/ WritePoll(t) \/ WriteCheck(t) \/ WriteDrop(t) \/ SetOwner(t)
    BY <2>4, <1>WriteAgainCalm, <1>PollCalm, <1>CheckCalm, <1>DropCalm
  <2>5. CASE UnsharePoll(t) \/ UnshareCheck(t) \/ UnshareDrop(t) \/ Wait(t)
    BY <2>5, <1>PollCalm, <1>CheckCalm, <1>DropCalm, <1>WaitCalm
  <2>6. CASE \/ ReleaseExclusive(t) \/ BroadcastProbe(t) \/ Broadcast(t)
             \/ UnshareProbe(t) \/ UnshareSend(t)
    BY <2>6, <1>ReleaseCalm, <1>SendCalm
  <2>7. ~Revert(t)
    BY DEF Revert, Calm, PatientInv, Patient
  <2>8. PlainUse
    BY DEF Patience
  <2> QED BY <2>1, <2>2, <2>3, <2>4, <2>5, <2>6, <2>7, <2>8, NotMade DEF Step
<1> QED BY <1>1, <1>2

-----------------------------------------------------------------------------
(* The theorems.                                                           *)
(***************************************************************************)
INSTANCE FiniteSetTheorems

(* What the counting needs to know of finite sets is so.                  *)
LEMMA SizesTrue == Sizes
<1>1. \A x : Cardinality({x}) = 1
  BY FS_Singleton
<1>2. \A S : IsFiniteSet(S) =>
        /\ Cardinality(S) \in Nat
        /\ Cardinality(S) = 0 <=> S = {}
        /\ Cardinality(S) = 1 <=> \E x : S = {x}
  BY FS_CardinalityType, FS_EmptySet, FS_Singleton
<1>3. \A S, x : IsFiniteSet(S) =>
        /\ IsFiniteSet(S \cup {x}) /\ IsFiniteSet(S \ {x})
        /\ Cardinality(S \cup {x}) = IF x \in S THEN Cardinality(S) ELSE Cardinality(S) + 1
        /\ Cardinality(S \ {x}) = IF x \in S THEN Cardinality(S) - 1 ELSE Cardinality(S)
  BY FS_AddElement, FS_RemoveElement
<1>4. \A S : IsFiniteSet(S) => \A T \in SUBSET S :
        /\ IsFiniteSet(T) /\ Cardinality(T) <= Cardinality(S)
        /\ Cardinality(S) = Cardinality(T) => S = T
  BY FS_Subset
<1> QED BY <1>1, <1>2, <1>3, <1>4, FS_EmptySet DEF Sizes

(* The recursion of the descriptor is the number of read-locks before the  *)
(* first write-lock.                                                       *)
LEMMA ReadLocksCount ==
  ASSUME TypeOK, NEW t \in Task, LocksOf(t)
  PROVE  ReadLocks(t) = rl_recursion[t]
<1>1. locks[t] \in Seq({"r", "w"}) /\ rl_recursion[t] \in Nat
  BY SMTT(60) DEF TypeOK
<1> DEFINE q == locks[t]
           n == rl_recursion[t]
<1>2. DOMAIN q = 1 .. Len(q) /\ Len(q) \in Nat /\ n \in Nat
  BY <1>1, SMTT(60)
<1>3. n <= Len(q) /\ (\A i \in 1 .. n : q[i] = "r") /\ (n < Len(q) => q[n + 1] = "w")
  BY SMTT(60) DEF LocksOf, Wrote
<1>4. ReadLocks(t) = Cardinality({i \in DOMAIN q : \A j \in 1 .. i : q[j] = "r"})
  BY SMTT(60) DEF ReadLocks
<1> HIDE DEF q, n
<1>5. ASSUME NEW i \in DOMAIN q
      PROVE  (\A j \in 1 .. i : q[j] = "r") <=> i \in 1 .. n
  <2>1. i \in 1 .. Len(q)
    BY <1>2, SMTT(60)
  <2>2. CASE i <= n
    BY <2>1, <2>2, <1>2, <1>3, SMTT(60)
  <2>3. CASE ~(i <= n)
    <3>1. n + 1 \in 1 .. i /\ q[n + 1] = "w" /\ i \notin 1 .. n
      BY <2>1, <2>3, <1>2, <1>3, SMTT(60)
    <3>2. "w" # "r"
      BY SMTT(60)
    <3> QED BY <3>1, <3>2
  <2> QED BY <2>2, <2>3, SMTT(60)
<1>6. {i \in DOMAIN q : \A j \in 1 .. i : q[j] = "r"} = 1 .. n
  <2>1. \A i \in 1 .. n : i \in DOMAIN q
    BY <1>2, <1>3, SMTT(60)
  <2> QED BY <2>1, <1>5
<1>7. Cardinality(1 .. n) = n
  BY <1>2, FS_Interval, SMTT(60)
<1> QED BY <1>4, <1>6, <1>7 DEF n

(* The invariant of the R/W-lock, for callers that neither convert nor     *)
(* poll it and whose waits do not throw.                                   *)
LEMMA RWInvariant == ASSUME PlainUse PROVE Spec => []RWInv
BY SizesTrue, InitRW, RWStep, PTL DEF Spec

(* While one task has a write-lock, or is about to have it or to give it   *)
(* back, no other task has a lock: rw_scnt counted every reader when the   *)
(* CMPXCH of rwlock_timedwrite() or wait_for_unshare set write-mode, and   *)
(* nobody but the owner is let in until rwlock_endwrite() leaves it.       *)
THEOREM ExclusionHolds == ASSUME PlainUse PROVE Spec => []WriterExclusion
<1>1. RWInv => WriterExclusion
  <2> SUFFICES ASSUME RWInv, NEW t \in Task, NEW u \in Task, Exclusive(t),
                      Exclusive(u) \/ pc[u] = "rdrop" \/ locks[u] # <<>>
               PROVE  t = u
    BY DEF WriterExclusion
  <2>1. TypeOK /\ LocksOf(t) /\ LocksOf(u)
    BY DEF RWInv, TaskInv
  <2>2. /\ "w" \in Range(locks[t]) <=> Wrote(t)
    BY <2>1, WroteRange
  <2>3. /\ "w" \in Range(locks[u]) <=> Wrote(u)
    BY <2>1, WroteRange
  <2>4. Excludes(t)
    BY <2>2 DEF Exclusive, Excludes, Taking
  <2>5. Excludes(u) \/ Counted(u)
    <3>1. CASE Exclusive(u)
      BY <2>3, <3>1 DEF Exclusive, Excludes, Taking
    <3>2. CASE pc[u] = "rdrop"
      BY <3>2 DEF Counted
    <3>3. CASE locks[u] # <<>> /\ ~Wrote(u)
      <4>1. rl_recursion[u] # 0
        BY <3>3, NotWrote
      <4>2. rl_recursion[u] \in Nat
        BY <2>1, StillThere
      <4>3. rl_recursion[u] > 0
        BY <4>1, <4>2, SMTT(60)
      <4> QED BY <4>3 DEF Counted
    <3> QED BY <3>1, <3>2, <3>3 DEF Excludes
  <2> QED BY <2>4, <2>5 DEF RWInv, ModeInv
<1> QED BY <1>1, RWInvariant, PTL

(* rw_scnt is the number of threads that read, without an upgrading one;   *)
(* rw_xind is the recursion of the writer; and the recursion of a read     *)
(* descriptor is the number of read-locks that rwlock_end() has to end     *)
(* before the thread is no longer counted.                                 *)
THEOREM CountsHold == ASSUME PlainUse PROVE Spec => []CountsMatch
<1>1. RWInv => CountsMatch
  <2> SUFFICES ASSUME RWInv PROVE CountsMatch
    BY SMTT(60)
  <2>1. TypeOK /\ \A t \in Task : LocksOf(t)
    BY DEF RWInv, TaskInv
  <2>2. \A t \in Task : rl_recursion[t] = ReadLocks(t)
    BY <2>1, ReadLocksCount
  <2>3. \A t \in Task : "w" \in Range(locks[t]) <=> Wrote(t)
    BY <2>1, WroteRange
  <2>4. rw_mode # "writing" =>
          rw_ind + Cardinality(has) =
            Cardinality({t \in Task : rl_recursion[t] > 0 \/ pc[t] = "rdrop"})
    BY DEF RWInv, CountInv, Readers, Counted
  <2>5. ASSUME rw_mode = "writing"
        PROVE  \E t \in Task : /\ Exclusive(t)
                               /\ rw_ind = IF "w" \in Range(locks[t])
                                           THEN Len(locks[t]) - ReadLocks(t) ELSE 1
    <3>1. PICK t \in Task : Excludes(t)
      BY <2>5 DEF RWInv, ModeInv
    <3>2. rw_ind = IF Wrote(t) THEN Len(locks[t]) - rl_recursion[t] ELSE 1
      BY <3>1 DEF RWInv, CountInv
    <3>3. Exclusive(t)
      BY <3>1, <2>3 DEF Exclusive, Excludes, Taking
    <3>4. rw_ind = IF "w" \in Range(locks[t]) THEN Len(locks[t]) - ReadLocks(t) ELSE 1
      BY <3>2, <2>2, <2>3
    <3> QED BY <3>3, <3>4
  <2> QED BY <2>2, <2>4, <2>5 DEF CountsMatch
<1> QED BY <1>1, RWInvariant, PTL

(* No reader or writer sleeps for a change of mode that has happened       *)
(* unless sig_broadcast(&rw_chmode) is on its way to it, and the thread    *)
(* that waits for the readers to leave does not sleep once they are gone   *)
(* unless sig_send(&rw_unshare,1) is: both look at the mode again between  *)
(* task_connect() and task_waitfor().                                      *)
THEOREM NoneStranded == ASSUME Patience PROVE Spec => []NoStrandedWaiter
<1>1. PlainUse
  BY DEF Patience
<1>2. Spec => []RWInv
  BY <1>1, RWInvariant, SMTT(60)
<1>3. Calm => NoStrandedWaiter
  BY DEF Calm
<1> QED BY <1>2, <1>3, InitCalm, CalmStep, PTL DEF Spec
=============================================================================
