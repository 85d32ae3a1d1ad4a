----------------------------- MODULE TaskSignal -----------------------------
(***************************************************************************)
(* What the blocking primitives of the kernel rely on when they use        *)
(* `struct sig': task_connect(), task_disconnect(), one round of sig_send() *)
(* and the save/restore of a connection set around RPC callbacks           *)
(* (src/kernel/src/sched/signal.c, src/kernel/src/sched/rpc.c).            *)
(*                                                                         *)
(* The module declares the part of the state that belongs to the signals   *)
(* and one action per call; a primitive (Mutex, Semaphore, RWLock) extends *)
(* it and conjoins these actions with the steps of its own code.  Module   *)
(* Signal models the same calls with their inner steps.                    *)
(*                                                                         *)
(*   chain[s]    the FIFO chain of connections hanging off s->s_ptr        *)
(*   tcs_sig[t]  my_connections.tcs_sig of task t: the first signal that   *)
(*               was delivered to it, or NoSig                             *)
(*   saved[t]    where t's connections live: "main" (my_connections),      *)
(*               "saved" (a set filled by task_push_connections(), while t *)
(*               executes RPC callbacks) or "moving" (already relocated    *)
(*               into that set, whose tcs_sig is not yet initialised)      *)
(***************************************************************************)
EXTENDS Naturals, Sequences

CONSTANTS Task, Sig, NoSig

ASSUME NoSigAssumption == NoSig \notin Sig

VARIABLES chain, tcs_sig, saved

sigVars == <<chain, tcs_sig, saved>>

Connection == [task : Task, ghost : BOOLEAN]

SigTypeOK ==
  /\ chain \in [Sig -> Seq(Connection)]
  /\ tcs_sig \in [Task -> Sig \cup {NoSig}]
  /\ saved \in [Task -> {"main", "moving", "saved"}]

SigInit ==
  /\ chain = [s \in Sig |-> <<>>]
  /\ tcs_sig = [t \in Task |-> NoSig]
  /\ saved = [t \in Task |-> "main"]

-----------------------------------------------------------------------------
(* The tasks that hang off signal s. *)
Connected(s) == {chain[s][i].task : i \in DOMAIN chain[s]}

(* The chain q without the connection of task t, if it has one:            *)
(* delete_connection().                                                    *)
Unlink(q, t) ==
  IF \E i \in DOMAIN q : q[i].task = t
  THEN LET k == CHOOSE i \in DOMAIN q : q[i].task = t
       IN [i \in 1 .. Len(q) - 1 |-> IF i < k THEN q[i] ELSE q[i + 1]]
  ELSE q

(* task_connect(s) / task_connect_ghost(s): a no-op once a signal was       *)
(* received, otherwise a new connection at the end of the chain.           *)
Connect(t, s, ghost) ==
  /\ chain' = IF tcs_sig[t] # NoSig THEN chain
              ELSE [chain EXCEPT ![s] = Append(@, [task |-> t, ghost |-> ghost])]
  /\ UNCHANGED <<tcs_sig, saved>>

(* task_disconnect(): the primitives that extend this module are connected *)
(* to one signal at a time, so unlinking the slot under the lock of that   *)
(* signal is the step others can tell; a signal that came first is dropped *)
(* with tcs_sig.                                                           *)
Disconnect(t) ==
  /\ chain' = [s \in Sig |-> Unlink(chain[s], t)]
  /\ tcs_sig' = [tcs_sig EXCEPT ![t] = NoSig]
  /\ UNCHANGED saved

(* One turn of sig_sendone_locked(): the first connection is removed and   *)
(* its set receives the signal unless it already holds one.  While the set *)
(* is moving, the CMPXCH works on an uninitialised tcs_sig: it fails, or   *)
(* its effect is overwritten when task_push_connections() finally copies   *)
(* tcs_sig of the main set; the signal is lost either way.                 *)
SendOne(s) ==
  LET t == Head(chain[s]).task
  IN /\ chain[s] # <<>>
     /\ chain' = [chain EXCEPT ![s] = Tail(@)]
     /\ tcs_sig' = IF tcs_sig[t] = NoSig /\ saved[t] # "moving"
                   THEN [tcs_sig EXCEPT ![t] = s] ELSE tcs_sig
     /\ UNCHANGED saved

(* Mutant: a signal sent to a saved set counts. *)
WakeOkSaved(s) ==
  LET c == Head(chain[s])
  IN tcs_sig[c.task] = NoSig /\ ~c.ghost

(* wake_ok of that turn: the signal was delivered, to the main set of the  *)
(* task, through a connection that is not a ghost.  Only then does the     *)
(* turn count towards the number of threads to wake.                       *)
WakeOk(s) ==
  LET c == Head(chain[s])
  IN tcs_sig[c.task] = NoSig /\ saved[c.task] = "main" /\ ~c.ghost

(* task_push_connections(): the connection is relocated first ...          *)
RelocateConnections(t) ==
  /\ saved[t] = "main"
  /\ saved' = [saved EXCEPT ![t] = "moving"]
  /\ UNCHANGED <<chain, tcs_sig>>

(* ... then `safe->tcs_sig = mycon->tcs_sig;' is executed.                 *)
CopySignal(t) ==
  /\ saved[t] = "moving"
  /\ saved' = [saved EXCEPT ![t] = "saved"]
  /\ UNCHANGED <<chain, tcs_sig>>

(* task_pop_connections(): the main set, which the callbacks left empty,   *)
(* gets the connection back and inherits a signal of the saved set.        *)
PopConnections(t) ==
  /\ saved[t] = "saved"
  /\ saved' = [saved EXCEPT ![t] = "main"]
  /\ UNCHANGED <<chain, tcs_sig>>
=============================================================================
