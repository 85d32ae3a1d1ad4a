------------------------------ MODULE SigQueue ------------------------------
(***************************************************************************)
(* What a `struct sig' promises to the code that uses it: the connections  *)
(* of a signal form a queue.  A new connection goes to its end, a          *)
(* connection leaves it from any position (task_disconnect(), or the       *)
(* delivery of the signal), and nothing else ever happens to the queue: in *)
(* particular the relocation of a connection into another set is           *)
(* invisible.  Module Signal, with the pointers of the implementation, is  *)
(* shown to implement this specification.                                  *)
(***************************************************************************)
EXTENDS Naturals, Sequences, SequencesExt

CONSTANTS Task, Sig

VARIABLE queue

Connection == [task : Task, ghost : BOOLEAN]

Init == queue = [s \in Sig |-> <<>>]

Join(s) ==
  \E c \in Connection : queue' = [queue EXCEPT ![s] = Append(@, c)]

Leave(s) ==
  \E i \in DOMAIN queue[s] : queue' = [queue EXCEPT ![s] = RemoveAt(@, i)]

Next == \E s \in Sig : Join(s) \/ Leave(s)

Spec == Init /\ [][Next]_queue
=============================================================================
