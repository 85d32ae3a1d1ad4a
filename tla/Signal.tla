------------------------------- MODULE Signal -------------------------------
(***************************************************************************)
(* `struct sig' and the connection sets of the tasks, at the level of the  *)
(* pointers that link them (src/kernel/src/sched/signal.c).  A signal      *)
(* points to its first ("primary") connection; the connections are linked  *)
(* through tc_next.  The primary connection keeps a pointer to the last    *)
(* one (tc_last); every other connection keeps, in the same word, a        *)
(* pointer back to its predecessor (tc_pself = &prev->tc_next).  NULL in   *)
(* that word marks a connection whose signal was sent.                     *)
(*                                                                         *)
(* Every step that runs under the lock of one signal is one action.        *)
(* task_disconnect(), task_push_connections() and task_pop_connections()   *)
(* take that lock once per connection, so they are one action per          *)
(* connection, and a sender may run between any two of them.               *)
(*                                                                         *)
(*   s_ptr[s]    the primary connection of signal s                        *)
(*   tc[x]       the connection in slot x                                  *)
(*   tcs_cnt, tcs_sig, tcs_chn  the fields of a connection set; a task has *)
(*               its main set (my_connections) and the set `safe' of one   *)
(*               task_push_connections()                                   *)
(*   pc[t]       the loop task t is in, and its index i                    *)
(*   pushed      the tasks between task_push_ and task_pop_connections()   *)
(*   send        the call of sig_send*() that is going on                  *)
(*   raced       history: the tasks a connection of which was signaled     *)
(*               after task_push_connections() had relocated it, and       *)
(*               before it copied tcs_sig                                  *)
(*   counted     history: the sets of pushers for which a sender counted a *)
(*               woken thread, and that have not been disconnected since   *)
(*                                                                         *)
(* Slots stands for CONFIG_TASK_STATIC_CONNECTIONS; Listener, Poller,      *)
(* Pusher and Joiner are the tasks that open channels, that use ghost      *)
(* connections, that save their connections, and that call                 *)
(* task_setsignaled() (as connect_join() does).                            *)
(***************************************************************************)
EXTENDS Naturals, Sequences, FiniteSets

CONSTANTS Task, Sig, NoSig, Garbage, NULL, Chan, Master,
          Slots, MaxThreads, Listener, Poller, Pusher, Joiner

ASSUME SignalAssumption ==
  /\ Slots \in Nat \ {0} /\ MaxThreads \in Nat \ {0}
  /\ NoSig \notin Sig /\ Garbage \notin Sig \cup {NoSig}
  /\ Master \notin Chan
  /\ Listener \subseteq Task /\ Poller \subseteq Task /\ Pusher \subseteq Task /\ Joiner \subseteq Task

VARIABLES s_ptr, tc, tcs_cnt, tcs_sig, tcs_chn, pc, pushed, send, raced, counted

taskVars == <<tcs_cnt, tcs_chn, pc, pushed>>
histVars == <<raced, counted>>
vars == <<s_ptr, tc, tcs_sig, taskVars, send, histVars>>

Set == Task \X {"main", "safe"}
Slot == Set \X (1 .. Slots)
Main(t) == <<t, "main">>
Safe(t) == <<t, "safe">>

(* CONFIG_TASK_STATIC_CONNECTIONS slots per set; TASK_CONNECTION_SIG_FGHOST *)
(* is kept as a flag, and the word shared by tc_last and tc_pself as       *)
(* tc_pself.                                                               *)
TaskConnection ==
  [tc_sig : Sig \cup {NoSig}, ghost : BOOLEAN,
   tc_pself : Slot \cup {NULL}, tc_next : Slot \cup {NULL}]

(* A call of sig_send() goes to every listener of the master channel, one  *)
(* of sig_send_channel() to those of a channel mask; sig_alt*() deliver    *)
(* another signal than the one the connections hang off.  left is what     *)
(* remains of max_threads, missed how many of the threads counted so far   *)
(* were not woken through a connection that counts.                        *)
Sending ==
  [sig : Sig, sender : Sig, mask : SUBSET (Chan \cup {Master}),
   left : 0 .. MaxThreads, missed : 0 .. MaxThreads]

TypeOK ==
  /\ s_ptr \in [Sig -> Slot \cup {NULL}]
  /\ tc \in [Slot -> TaskConnection]
  /\ tcs_cnt \in [Set -> 0 .. Slots]
  /\ tcs_sig \in [Set -> Sig \cup {NoSig, Garbage}]
  /\ \A t \in Task : tcs_sig[Main(t)] # Garbage
  /\ tcs_chn \in [Set -> SUBSET Chan]
  /\ pc \in [Task -> [at : {"run", "disconnect", "push", "pop"}, i : 1 .. Slots + 1]]
  /\ pushed \subseteq Task
  /\ send \in Sending
  /\ raced \subseteq Task /\ counted \subseteq Set

Free == [tc_sig |-> NoSig, ghost |-> FALSE, tc_pself |-> NULL, tc_next |-> NULL]

NoSend(s) == [sig |-> s, sender |-> s, mask |-> {}, left |-> 0, missed |-> 0]

(* connect_init(): the per-task template is zeroed, so no channel is open. *)
Init ==
  /\ s_ptr = [s \in Sig |-> NULL]
  /\ tc = [x \in Slot |-> Free]
  /\ tcs_cnt = [c \in Set |-> 0]
  /\ tcs_sig = [c \in Set |-> NoSig]
  /\ tcs_chn = [c \in Set |-> {}]
  /\ pc = [t \in Task |-> [at |-> "run", i |-> 1]]
  /\ pushed = {}
  /\ send = NoSend(CHOOSE s \in Sig : TRUE)
  /\ raced = {} /\ counted = {}

-----------------------------------------------------------------------------
(* The connections once con is unlinked from signal s: the tail of         *)
(* delete_connection() and of sig_sendone*_locked() ...                    *)
Unlink(con, s) ==
  LET next == tc[con].tc_next
      prev == tc[con].tc_pself
  IN IF con = s_ptr[s]
     THEN IF next = NULL THEN tc ELSE [tc EXCEPT ![next].tc_pself = prev]
     ELSE IF next = NULL THEN [tc EXCEPT ![prev].tc_next = NULL, ![s_ptr[s]].tc_pself = prev]
     ELSE [tc EXCEPT ![prev].tc_next = next, ![next].tc_pself = prev]

(* Mutant: the signal is emptied when its primary connection leaves. *)
SuccessorDropped(con, s) == [s_ptr EXCEPT ![s] = IF @ = con THEN NULL ELSE @]

(* ... and the primary connection that remains.                            *)
Successor(con, s) == [s_ptr EXCEPT ![s] = IF @ = con THEN tc[con].tc_next ELSE @]

(* delete_connection().  Here and in relocate_connection(), what is left   *)
(* in a slot that is no longer used is never read again and is forgotten.  *)
DeleteConnection(con) ==
  LET s == tc[con].tc_sig
  IN IF tc[con].tc_pself = NULL THEN tc' = [tc EXCEPT ![con] = Free] /\ UNCHANGED s_ptr
     ELSE tc' = [Unlink(con, s) EXCEPT ![con] = Free] /\ s_ptr' = Successor(con, s)

(* Mutant: the last connection moves without telling the primary one. *)
RelocateKeepsLast(dst, src) ==
  LET s == tc[src].tc_sig
      prev == tc[src].tc_pself
      next == tc[src].tc_next
      moved == [x \in Slot |->
                  CASE x = dst -> [tc[src] EXCEPT !.tc_pself = IF @ = src THEN dst ELSE @]
                    [] x = src -> Free
                    [] x = next -> [tc[x] EXCEPT !.tc_pself = dst]
                    [] OTHER -> tc[x]]
  IN /\ tc' = IF prev = NULL \/ src = s_ptr[s] THEN moved
              ELSE [moved EXCEPT ![prev].tc_next = dst]
     /\ s_ptr' = [s_ptr EXCEPT ![s] = IF @ = src THEN dst ELSE @]

(* relocate_connection(): dead connections are only copied; the others are *)
(* made known to the next connection, the previous one or the signal, and, *)
(* if they are the last, to the primary one.                               *)
RelocateConnection(dst, src) ==
  LET s == tc[src].tc_sig
      prev == tc[src].tc_pself
      next == tc[src].tc_next
      sole == src = s_ptr[s] /\ next = NULL
      moved == [x \in Slot |->
                  CASE x = dst -> IF sole THEN [tc[src] EXCEPT !.tc_pself = dst] ELSE tc[src]
                    [] x = src -> Free
                    [] x = next -> [tc[x] EXCEPT !.tc_pself = dst]
                    [] OTHER -> tc[x]]
  IN /\ tc' = IF prev = NULL \/ src = s_ptr[s] THEN moved
              ELSE IF next # NULL THEN [moved EXCEPT ![prev].tc_next = dst]
              ELSE [moved EXCEPT ![prev].tc_next = dst, ![s_ptr[s]].tc_pself = dst]
     /\ s_ptr' = [s_ptr EXCEPT ![s] = IF @ = src THEN dst ELSE @]

-----------------------------------------------------------------------------
(* Calls of task t that use its main set. *)
Runs(t) == pc[t].at = "run"

Loop(t, at) == pc' = [pc EXCEPT ![t] = [at |-> at, i |-> 1]]

NextSlot(t) == pc' = [pc EXCEPT ![t].i = @ + 1]

(* task_connect(), task_connect_ghost(), in a set with a free slot.  The   *)
(* call returns at once when a signal was already sent.                    *)
TaskConnect(t, s, ghost) ==
  LET n == tcs_cnt[Main(t)] + 1
      con == <<Main(t), n>>
      primary == s_ptr[s]
      new == [tc_sig |-> s, ghost |-> ghost, tc_pself |-> con, tc_next |-> NULL]
  IN /\ Runs(t) /\ tcs_sig[Main(t)] = NoSig /\ n <= Slots
     /\ ghost => t \in Poller
     /\ tcs_cnt' = [tcs_cnt EXCEPT ![Main(t)] = n]
     /\ IF primary = NULL
        THEN s_ptr' = [s_ptr EXCEPT ![s] = con] /\ tc' = [tc EXCEPT ![con] = new]
        ELSE LET last == tc[primary].tc_pself
             IN /\ tc' = [tc EXCEPT ![con] = [new EXCEPT !.tc_pself = last],
                                    ![last].tc_next = con, ![primary].tc_pself = con]
                /\ UNCHANGED s_ptr
     /\ UNCHANGED <<tcs_sig, tcs_chn, pc, pushed, send, histVars>>

(* task_disconnect(), also reached from every way of waiting, and          *)
(* connect_fini(): a loop over the connections ...                         *)
TaskDisconnect(t) ==
  /\ Runs(t) /\ tcs_cnt[Main(t)] > 0
  /\ Loop(t, "disconnect")
  /\ UNCHANGED <<s_ptr, tc, tcs_cnt, tcs_sig, tcs_chn, pushed, send, histVars>>

DisconnectSlot(t) ==
  /\ pc[t].at = "disconnect" /\ pc[t].i <= tcs_cnt[Main(t)]
  /\ DeleteConnection(<<Main(t), pc[t].i>>)
  /\ NextSlot(t)
  /\ UNCHANGED <<tcs_cnt, tcs_sig, tcs_chn, pushed, send, histVars>>

(* ... after which the set is empty.                                       *)
DisconnectDone(t) ==
  /\ pc[t].at = "disconnect" /\ pc[t].i > tcs_cnt[Main(t)]
  /\ tcs_cnt' = [tcs_cnt EXCEPT ![Main(t)] = 0]
  /\ tcs_sig' = [tcs_sig EXCEPT ![Main(t)] = NoSig]
  /\ Loop(t, "run")
  /\ raced' = IF t \in pushed THEN raced ELSE raced \ {t}
  /\ counted' = counted \ {Main(t)}
  /\ UNCHANGED <<s_ptr, tc, tcs_chn, pushed, send>>

(* task_setsignaled() of a signal the task is connected to: it receives    *)
(* the signal itself, and its connection stays in the chain.               *)
TaskSetsignaled(t, s) ==
  /\ Runs(t) /\ t \in Joiner
  /\ \E i \in 1 .. tcs_cnt[Main(t)] : tc[<<Main(t), i>>].tc_sig = s
  /\ tcs_sig' = [tcs_sig EXCEPT ![Main(t)] = IF @ = NoSig THEN s ELSE @]
  /\ UNCHANGED <<s_ptr, tc, taskVars, send, histVars>>

(* task_channelmask() asserts that nothing is connected;                   *)
(* task_openchannel() may be called at any time.                           *)
TaskChannelmask(t, mask) ==
  /\ Runs(t) /\ t \in Listener /\ tcs_cnt[Main(t)] = 0
  /\ tcs_chn' = [tcs_chn EXCEPT ![Main(t)] = mask]
  /\ UNCHANGED <<s_ptr, tc, tcs_cnt, tcs_sig, pc, pushed, send, histVars>>

TaskOpenchannel(t, mask) ==
  /\ Runs(t) /\ t \in Listener /\ ~ mask \subseteq tcs_chn[Main(t)]
  /\ tcs_chn' = [tcs_chn EXCEPT ![Main(t)] = @ \cup mask]
  /\ UNCHANGED <<s_ptr, tc, tcs_cnt, tcs_sig, pc, pushed, send, histVars>>

(* task_push_connections(safe): safe is a variable of the caller, so its   *)
(* tcs_sig starts with what happens to be on the stack.                    *)
PushConnections(t) ==
  /\ Runs(t) /\ t \in Pusher \ pushed
  /\ tcs_chn' = [tcs_chn EXCEPT ![Safe(t)] = tcs_chn[Main(t)]]
  /\ tcs_cnt' = [tcs_cnt EXCEPT ![Safe(t)] = tcs_cnt[Main(t)]]
  /\ pushed' = pushed \cup {t}
  /\ IF tcs_cnt[Main(t)] = 0 THEN UNCHANGED <<pc, tcs_sig>>
     ELSE /\ Loop(t, "push")
          /\ \E g \in {NoSig, Garbage} : tcs_sig' = [tcs_sig EXCEPT ![Safe(t)] = g]
  /\ UNCHANGED <<s_ptr, tc, send, histVars>>

PushSlot(t) ==
  /\ pc[t].at = "push" /\ pc[t].i <= tcs_cnt[Safe(t)]
  /\ RelocateConnection(<<Safe(t), pc[t].i>>, <<Main(t), pc[t].i>>)
  /\ NextSlot(t)
  /\ UNCHANGED <<tcs_cnt, tcs_sig, tcs_chn, pushed, send, histVars>>

(* History of a signal that goes from one set to another. *)
MoveCount(from, to) ==
  counted' = IF from \in counted THEN (counted \ {from}) \cup {to} ELSE counted

PushDone(t) ==
  /\ pc[t].at = "push" /\ pc[t].i > tcs_cnt[Safe(t)]
  /\ tcs_sig' = [tcs_sig EXCEPT ![Safe(t)] = tcs_sig[Main(t)], ![Main(t)] = NoSig]
  /\ tcs_cnt' = [tcs_cnt EXCEPT ![Main(t)] = 0]
  /\ Loop(t, "run")
  /\ MoveCount(Main(t), Safe(t))
  /\ UNCHANGED <<s_ptr, tc, tcs_chn, pushed, send, raced>>

(* task_pop_connections(safe), once the task_disconnect() it starts with   *)
(* has left the main set empty.                                            *)
PopConnections(t) ==
  /\ Runs(t) /\ t \in pushed /\ tcs_cnt[Main(t)] = 0
  /\ tcs_chn' = [tcs_chn EXCEPT ![Main(t)] = tcs_chn[Safe(t)]]
  /\ tcs_cnt' = [tcs_cnt EXCEPT ![Main(t)] = tcs_cnt[Safe(t)]]
  /\ IF tcs_cnt[Safe(t)] = 0
     THEN pushed' = pushed \ {t} /\ UNCHANGED pc
     ELSE Loop(t, "pop") /\ UNCHANGED pushed
  /\ UNCHANGED <<s_ptr, tc, tcs_sig, send, histVars>>

PopSlot(t) ==
  /\ pc[t].at = "pop" /\ pc[t].i <= tcs_cnt[Safe(t)]
  /\ RelocateConnection(<<Main(t), pc[t].i>>, <<Safe(t), pc[t].i>>)
  /\ NextSlot(t)
  /\ UNCHANGED <<tcs_cnt, tcs_sig, tcs_chn, pushed, send, histVars>>

(* Mutant: the signal of the saved set is not inherited. *)
PopDoneForgets(t) ==
  /\ pc[t].at = "pop" /\ pc[t].i > tcs_cnt[Safe(t)]
  /\ tcs_sig' = [tcs_sig EXCEPT ![Safe(t)] = NoSig]
  /\ tcs_cnt' = [tcs_cnt EXCEPT ![Safe(t)] = 0]
  /\ pushed' = pushed \ {t}
  /\ Loop(t, "run")
  /\ MoveCount(Safe(t), Main(t))
  /\ UNCHANGED <<s_ptr, tc, tcs_chn, send, raced>>

PopDone(t) ==
  /\ pc[t].at = "pop" /\ pc[t].i > tcs_cnt[Safe(t)]
  /\ tcs_sig' = [tcs_sig EXCEPT ![Main(t)] = IF @ = NoSig THEN tcs_sig[Safe(t)] ELSE @,
                                ![Safe(t)] = NoSig]
  /\ tcs_cnt' = [tcs_cnt EXCEPT ![Safe(t)] = 0]
  /\ pushed' = pushed \ {t}
  /\ Loop(t, "run")
  /\ MoveCount(Safe(t), Main(t))
  /\ UNCHANGED <<s_ptr, tc, tcs_chn, send, raced>>

-----------------------------------------------------------------------------
(* The connections of s, first to last: what a walk along tc_next meets,   *)
(* for as many steps as there are slots.                                   *)
Chain(s) ==
  LET Walk[n \in 0 .. Cardinality(Slot), x \in Slot \cup {NULL}] ==
        IF n = 0 \/ x = NULL THEN <<>> ELSE <<x>> \o Walk[n - 1, tc[x].tc_next]
  IN Walk[Cardinality(Slot), s_ptr[s]]

Listens(c, mask) == Master \in mask \/ tcs_chn[c] \cap mask # {}

(* Mutant: "this still counts as an OK wake", the branch that is disabled *)
(* with #if.                                                               *)
WakeOkSaved(target) == tcs_sig[target[1]] = NoSig /\ ~ tc[s_ptr[send.sig]].ghost

(* wake_ok of a turn.  The ghost flag is the one of the primary connection *)
(* of the signal, in the channel variants as well.                         *)
WakeOk(target) ==
  /\ tcs_sig[target[1]] = NoSig
  /\ target[1][2] = "main"
  /\ ~ tc[s_ptr[send.sig]].ghost

(* sig_send(), sig_broadcast(), their _channel and sig_alt variants: the   *)
(* call, and ...                                                           *)
SigSend(s, sender, mask, max_threads) ==
  /\ send.left = 0
  /\ send' = [sig |-> s, sender |-> sender, mask |-> mask, left |-> max_threads, missed |-> 0]
  /\ UNCHANGED <<s_ptr, tc, tcs_sig, taskVars, histVars>>

(* ++result, after which the call returns or goes on ... *)
CountOne(target) ==
  LET missed == send.missed + (IF tc[target].ghost THEN 1 ELSE 0)
  IN IF send.left = 1 THEN [NoSend(send.sig) EXCEPT !.missed = missed]
     ELSE [send EXCEPT !.left = @ - 1, !.missed = missed]

(* ... one turn of sig_(alt)sendone_(channel_)locked(): the first          *)
(* connection that listens is removed, and its set receives the signal     *)
(* unless it has one (tc_next of a dead connection means nothing).         *)
SendTurn ==
  LET s == send.sig
      q == Chain(s)
      hits == {i \in DOMAIN q : Listens(q[i][1], send.mask)}
      target == q[CHOOSE i \in hits : \A j \in hits : i <= j]
      set == target[1]
  IN /\ send.left > 0 /\ hits # {}
     /\ tcs_sig' = [tcs_sig EXCEPT ![set] = IF @ = NoSig THEN send.sender ELSE @]
     /\ tc' = [Unlink(target, s) EXCEPT ![target].tc_pself = NULL, ![target].tc_next = NULL]
     /\ s_ptr' = Successor(target, s)
     /\ raced' = IF set[2] = "safe" /\ pc[set[1]].at = "push" THEN raced \cup {set[1]} ELSE raced
     /\ counted' = IF WakeOk(target) /\ set[1] \in Pusher THEN counted \cup {set} ELSE counted
     /\ send' = IF WakeOk(target) THEN CountOne(target) ELSE send
     /\ UNCHANGED taskVars

(* ... until no connection listens or the signal is empty. *)
SendStop ==
  /\ send.left > 0
  /\ ~ \E i \in DOMAIN Chain(send.sig) : Listens(Chain(send.sig)[i][1], send.mask)
  /\ send' = NoSend(send.sig)
  /\ UNCHANGED <<s_ptr, tc, tcs_sig, taskVars, histVars>>

Masks == {{Master}} \cup (SUBSET Chan \ {{}})

Next ==
  \/ \E t \in Task :
       \/ \E s \in Sig, ghost \in BOOLEAN : TaskConnect(t, s, ghost)
       \/ \E s \in Sig : TaskSetsignaled(t, s)
       \/ \E mask \in SUBSET Chan : TaskChannelmask(t, mask) \/ TaskOpenchannel(t, mask)
       \/ TaskDisconnect(t) \/ DisconnectSlot(t) \/ DisconnectDone(t)
       \/ PushConnections(t) \/ PushSlot(t) \/ PushDone(t)
       \/ PopConnections(t) \/ PopSlot(t) \/ PopDone(t)
  \/ \E s, sender \in Sig, mask \in Masks, n \in 1 .. MaxThreads : SigSend(s, sender, mask, n)
  \/ SendTurn
  \/ SendStop

Spec == Init /\ [][Next]_vars

-----------------------------------------------------------------------------
(* The slots of task t that hold a connection: those of the main set, and  *)
(* those of the saved one, less what the loop it is in has yet to reach or *)
(* has done with.                                                          *)
InUse(t) ==
  LET i == pc[t].i
      main == CASE pc[t].at = "run" -> 1 .. tcs_cnt[Main(t)]
                [] pc[t].at \in {"disconnect", "push"} -> i .. tcs_cnt[Main(t)]
                [] pc[t].at = "pop" -> 1 .. i - 1
      safe == CASE t \notin pushed -> {}
                [] pc[t].at \in {"run", "disconnect"} -> 1 .. tcs_cnt[Safe(t)]
                [] pc[t].at = "push" -> 1 .. i - 1
                [] pc[t].at = "pop" -> i .. tcs_cnt[Safe(t)]
  IN {<<Main(t), k>> : k \in main} \cup {<<Safe(t), k>> : k \in safe}

Live(s) ==
  {x \in UNION {InUse(t) : t \in Task} : tc[x].tc_sig = s /\ tc[x].tc_pself # NULL}

(* The pointers always describe one chain per signal: following tc_next    *)
(* from s_ptr meets every connection that is in use and not yet signaled,  *)
(* each once; the primary connection's tc_last is the end of the chain and *)
(* tc_pself of every other points to its predecessor.  The assertions of   *)
(* signal.c ("Broken last", `dst->tc_next->tc_pself == &src->tc_next', ... *)
(* ) check corners of this.                                                *)
WellLinked ==
  \A s \in Sig :
    LET q == Chain(s)
    IN /\ Len(q) = Cardinality(Live(s))
       /\ {q[i] : i \in DOMAIN q} = Live(s)
       /\ q # <<>> => tc[q[1]].tc_pself = q[Len(q)]
       /\ \A i \in 2 .. Len(q) : tc[q[i]].tc_pself = q[i - 1]

(* The signals form the queues SigQueue describes: relocating connections  *)
(* one at a time while senders and other tasks change the same chains      *)
(* neither reorders, duplicates nor drops a connection.                    *)
Receivers(s) ==
  LET Walk[n \in 0 .. Cardinality(Slot), x \in Slot \cup {NULL}] ==
        IF n = 0 \/ x = NULL THEN <<>>
        ELSE <<[task |-> x[1][1], ghost |-> tc[x].ghost]>> \o Walk[n - 1, tc[x].tc_next]
  IN Walk[Cardinality(Slot), s_ptr[s]]

Queue ==
  INSTANCE SigQueue WITH
    queue <- [s \in Sig |-> Receivers(s)]

ImplementsQueue == Queue!Spec

(* The sets a signal sent to slot x may be waiting in, for task t. *)
Inbox(t, x) ==
  CASE pc[t].at = "push" -> {Main(t)}
    [] pc[t].at = "pop" -> {Main(t), Safe(t)}
    [] OTHER -> {x[1]}

Delivered(t) ==
  \A x \in InUse(t) :
    tc[x].tc_pself = NULL => \E c \in Inbox(t, x) : tcs_sig[c] \notin {NoSig, Garbage}

(* A signal that took a connection off its chain is received by the set    *)
(* that connection is in, whatever pushes, pops and other signals come     *)
(* between, unless it was sent in the middle of task_push_connections().   *)
OnlyPushLosesSignals == \A t \in Task \ raced : Delivered(t)

(* task.h: "saved connections will continue to listen for signals, and     *)
(* once restored using `task_pop_connections()', those signals will        *)
(* immediately become available to the calling thread".                    *)
SavedSetsListen == \A t \in Task : Delivered(t)

(* "If the caller only wants us to wake ~1~ task, they should be able to   *)
(* assume that at least ~1~ task was woken": a wake-up that was counted is *)
(* not lost.  The thread has the signal until it disconnects, also when it *)
(* was sent in the middle of task_push_connections(), or when the signal   *)
(* of a saved set and one of the main set become one.                      *)
CountedWakesKept == \A c \in counted : tcs_sig[c] \in Sig

(* task.h: ghost connections "will not count to the total sum of signaled  *)
(* threads".                                                               *)
GhostsNeverCount == send.missed = 0
=============================================================================
