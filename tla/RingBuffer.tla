----------------------------- MODULE RingBuffer -----------------------------
(***************************************************************************)
(* The ring buffer behind pipes, TTY input and PTY displays                *)
(* (src/kernel/src/fs/ringbuffer.c, fs/ringbuffer.h), with the blocking    *)
(* calls that wait on its state-change signal.                             *)
(*                                                                         *)
(*   rb         r_rptr and r_wptr as offsets from r_base, r_size, and the  *)
(*              bytes of the buffer; r_base itself is only ever compared   *)
(*              together with r_size, which grows with every new buffer    *)
(*   next       number of the next byte to be written, modulo Stamps       *)
(*   closed     RBUFFER_LIMT_FCLOSED of r_limt                             *)
(*   readers    tasks holding r_lock for reading.  Every write-locked      *)
(*              section is one step: nobody else can look into it          *)
(*   chain      the connections to r_stat (module TaskSignal), tcs_sig the *)
(*              signal a task has received                                 *)
(*   th[t]      the call t is in: its place pc, operation op, num_bytes n;  *)
(*              retry: the attempt made once connected is under way;       *)
(*              old: old_pointer of a reader, old_buffer.hp_siz of a       *)
(*              writer; new: size of the memory a writer has allocated;    *)
(*              copy: the bytes a reader was given before the read-pointer *)
(*              is moved; todo: the signals t has yet to send, "notfull"   *)
(*              to one thread, "empty" and "full" to those that have the   *)
(*              channel, "all" to everybody                                *)
(*   calls[t]   the calls t has made, up to MaxCalls[t]                    *)
(*   told       what those were in who were sent a signal for the room     *)
(*              there is: "write", "wait_nonfull" (history, reset when the *)
(*              buffer is full again)                                      *)
(*   raced      tasks whose connection a sender removed while              *)
(*              task_push_connections() was moving it, so that they lost   *)
(*              the signal and are connected no more (history)             *)
(*   broken     the operation that did not keep its promise, and ends the  *)
(*              behaviour: it returned another number of bytes than it     *)
(*              moved, or ran into an assertion                            *)
(***************************************************************************)
EXTENDS TaskSignal, FiniteSetsExt

CONSTANTS
  RBUFFER_INIT_ALLOC,   \* size of the first buffer
  r_limt,               \* what the buffer may grow to
  Slack,                \* most bytes heap_alloc() adds to a request
  MaxBytes,             \* largest num_bytes
  Stamps,               \* bytes are numbered modulo this
  Reader, Writer,       \* tasks that call ringbuffer_read(), ringbuffer_write()
  Seeker,               \* tasks that seek: discard, unread and unwrite
  Waiter, WaitFor,      \* tasks that call ringbuffer_wait_*(), for what
  Closer,               \* tasks that close the buffer
  Serving,              \* tasks for which RPC callbacks may be queued
  Interruptible,        \* tasks whose RPC callbacks may throw
  Faulty,               \* tasks whose memory may fault, or run out
  MaxCalls              \* bound on the calls of each task

Conditions == {"wait_empty", "wait_full", "wait_nonfull", "wait_nonempty", "wait_close"}

ASSUME RingAssumption ==
  /\ {RBUFFER_INIT_ALLOC, MaxBytes, Stamps, r_limt} \subseteq Nat \ {0}
  /\ Slack \in Nat
  /\ UNION {Reader, Writer, Seeker, Waiter, Closer, Serving, Faulty} \subseteq Task
  /\ Interruptible \subseteq Serving
  /\ WaitFor \subseteq Conditions
  /\ MaxCalls \in [Task -> Nat]
  /\ Cardinality(Sig) = 1

VARIABLES th, calls, rb, next, closed, readers, told, raced, broken

bufVars == <<rb, next, closed>>
vars == <<sigVars, th, calls, bufVars, readers, told, raced, broken>>

(* &self->r_stat *)
r_stat == CHOOSE s \in Sig : TRUE

MaxSize == r_limt + Slack

PC == {"run", "load", "cas", "exclusive", "enter", "write", "grow", "extend", "install",
       "send", "check", "connect", "drop", "wait", "push", "serve", "throw", "test"}

(* A thread outside of every call. *)
Outside == [pc |-> "run", op |-> "none", n |-> 0, retry |-> FALSE, old |-> 0, new |-> 0,
            copy |-> <<>>, todo |-> <<>>]

Init ==
  /\ SigInit
  /\ th = [t \in Task |-> Outside]
  /\ calls = [t \in Task |-> 0]
  /\ rb = [r_rptr |-> 0, r_wptr |-> 0, r_size |-> 0, data |-> [i \in {} |-> 0]]
  /\ next = 0
  /\ closed = FALSE
  /\ readers = {}
  /\ told = {}
  /\ raced = {}
  /\ broken = "no"

-----------------------------------------------------------------------------
(* Pointer positions.  READ == WRITE is FULL; READ == END && WRITE == BEGIN *)
(* is EMPTY; a buffer that was never allocated is both.                    *)
Full(b) == b.r_rptr = b.r_wptr
Empty(b) == b.r_rptr = b.r_size /\ b.r_wptr = 0

(* The bytes in the order in which they will be read. *)
Contents(b) ==
  LET first == IF b.r_rptr = b.r_size THEN 0 ELSE b.r_rptr
      len == IF b.r_wptr > first THEN b.r_wptr - first ELSE b.r_size - (first - b.r_wptr)
  IN IF Empty(b) THEN <<>>
     ELSE [i \in 1 .. len |-> b.data[(first + i - 1) % b.r_size]]

(* One turn of the loop of ringbuffer_readv_atomic() that has loaded `old' *)
(* as read-pointer: how much is read, from where, and the pointer behind.  *)
Reading(b, from, n) ==
  LET start == IF from = b.r_size /\ b.r_wptr # 0 THEN 0 ELSE from
      high == IF start < b.r_size /\ start >= b.r_wptr THEN Min({b.r_size - start, n}) ELSE 0
      mid == IF start + high = b.r_size /\ b.r_wptr # 0 THEN 0 ELSE start + high
      low == IF mid < b.r_wptr THEN Min({b.r_wptr - mid, n - high}) ELSE 0
  IN [result |-> high + low, new_pointer |-> mid + low,
      bytes |-> [i \in 1 .. high + low |-> b.data[(start + i - 1) % b.r_size]]]

(* Bytes that are not waiting to be read, and that no reader may have under *)
(* its eyes, count as 0: nothing depends on them.                          *)
Forget(b) ==
  LET first == IF b.r_rptr = b.r_size THEN 0 ELSE b.r_rptr
      unread == {(first + i - 1) % b.r_size : i \in DOMAIN Contents(b)}
  IN [b EXCEPT !.data = [i \in DOMAIN @ |-> IF i \in unread THEN @[i] ELSE 0]]

(* ... and the buffer once the pointer is stored; reaching the write-pointer *)
(* resets both to the EMPTY position.                                      *)
Consumed(b, r) ==
  IF r.new_pointer = b.r_wptr
  THEN [b EXCEPT !.r_rptr = b.r_size, !.r_wptr = 0]
  ELSE [b EXCEPT !.r_rptr = r.new_pointer]

(* Mutant: no writer is woken. *)
ReadSignalsQuiet(b, from, r) ==
  IF r.result > 0 /\ r.new_pointer = b.r_wptr THEN <<"empty">> ELSE <<>>

(* The signals of a read that found the read-pointer at `from'. *)
ReadSignals(b, from, r) ==
  IF r.result = 0 THEN <<>>
  ELSE (IF from = b.r_wptr THEN <<"notfull">> ELSE <<>>)
       \o (IF r.new_pointer = b.r_wptr THEN <<"empty">> ELSE <<>>)

(* ringbuffer_writev_atomic() where there is room: up to the read-pointer, *)
(* wrapping at the end of the buffer.                                      *)
Room(b) == IF b.r_wptr < b.r_rptr THEN b.r_rptr - b.r_wptr
           ELSE b.r_size - (b.r_wptr - b.r_rptr)

(* n bytes from the write-pointer on, around the end of the buffer. *)
Deposit(b, n) ==
  [i \in DOMAIN b.data |->
     LET k == IF i >= b.r_wptr THEN i - b.r_wptr ELSE i + b.r_size - b.r_wptr
     IN IF k < n THEN (next + k) % Stamps ELSE b.data[i]]

(* Mutant: a buffer that is filled from EMPTY keeps its read-pointer. *)
WrittenKeeps(b, n) ==
  LET end == b.r_wptr + n
  IN [b EXCEPT !.r_wptr = IF end >= b.r_size THEN end - b.r_size ELSE end,
               !.data = Deposit(b, n)]

(* The buffer after n <= Room(b) bytes: a write-pointer at END is set to   *)
(* BEGIN, and the read-pointer with it if it is there too.                 *)
Written(b, n) ==
  LET end == b.r_wptr + n
  IN [b EXCEPT !.r_wptr = IF end >= b.r_size THEN end - b.r_size ELSE end,
               !.r_rptr = IF end = b.r_size /\ @ = b.r_size THEN 0 ELSE @,
               !.data = Deposit(b, n)]

(* The signals of a write of n bytes: is_full stays false when the bytes   *)
(* up to the end of the buffer fill it and the read-pointer is at BEGIN.   *)
WriteSignals(b, n) ==
  IF Empty(b) THEN <<"all">>
  ELSE IF n = Room(b) /\ ~(b.r_wptr > b.r_rptr /\ b.r_rptr = 0) THEN <<"full">>
  ELSE <<>>

(* The size a full buffer is to grow to for num_bytes more. *)
GrownSize(size, n) ==
  LET start == IF size = 0 THEN RBUFFER_INIT_ALLOC ELSE 2 * size
      enough == {start * 2 ^ k : k \in 0 .. n} \ 0 .. size + n - 1
  IN Min({r_limt, Min(enough)})

-----------------------------------------------------------------------------
Live == broken = "no"

GoTo(t, label) == th' = [th EXCEPT ![t].pc = label]
Return(t) == th' = [th EXCEPT ![t] = Outside]

(* told is reset whenever the buffer is full again. *)
Store(t, b) ==
  /\ rb' = IF readers \subseteq {t} THEN Forget(b) ELSE b
  /\ told' = IF Full(b) THEN {} ELSE told

Length(b) == Len(Contents(b))

(* The end of an attempt: signals are sent before the result is returned.  *)
Finish(t, result, signals, bytes) ==
  th' = [th EXCEPT ![t].pc = IF result = 0 THEN "check" ELSE "send",
                   ![t].todo = signals, ![t].copy = bytes]

(* An exception leaves the call, which disconnects first if it has to. *)
Throw(t) == IF th[t].retry THEN GoTo(t, "drop") ELSE Return(t)

(* A task enters the ring buffer. *)
Entering(t) ==
  /\ Live
  /\ th[t].pc = "run"
  /\ calls[t] < MaxCalls[t]
  /\ calls' = [calls EXCEPT ![t] = @ + 1]

Call(t, op, n, label) ==
  /\ Entering(t)
  /\ th' = [th EXCEPT ![t].op = op, ![t].n = n, ![t].pc = label]
  /\ UNCHANGED <<sigVars, bufVars, readers, told, raced, broken>>

CallRead(t) == \E n \in 0 .. MaxBytes : t \in Reader /\ Call(t, "read", n, "load")
CallWrite(t) == \E n \in 1 .. MaxBytes : t \in Writer /\ Call(t, "write", n, "enter")
CallDiscard(t) == \E n \in 0 .. MaxBytes : t \in Seeker /\ Call(t, "discard", n, "load")
CallWait(t) == \E condition \in WaitFor : t \in Waiter /\ Call(t, condition, 0, "test")

-----------------------------------------------------------------------------
(* What a read by t with `from' as read-pointer does. *)
Read(t, from) == Reading(rb, from, th[t].n)

(* It would leave nothing behind. *)
Empties(t) == Read(t, th[t].old).new_pointer = rb.r_wptr

(* Load the read-pointer and copy the bytes, with r_lock held. *)
LoadPointer(t) ==
  th' = [th EXCEPT ![t].pc = "cas", ![t].old = rb.r_rptr, ![t].copy = Read(t, rb.r_rptr).bytes]

(* ringbuffer_readv_atomic() and ringbuffer_discard() lock for reading. *)
ReadLoad(t) ==
  /\ Live
  /\ th[t].pc = "load"
  /\ readers' = readers \cup {t}
  /\ LoadPointer(t)
  /\ UNCHANGED <<sigVars, bufVars, told, raced, broken>>

(* A faulty destination buffer: FINALLY unlocks. *)
ReadFault(t) ==
  /\ Live
  /\ th[t].pc \in {"cas", "exclusive"}
  /\ th[t].op = "read"
  /\ t \in Faulty
  /\ readers' = readers \ {t}
  /\ Throw(t)
  /\ UNCHANGED <<sigVars, bufVars, told, raced, broken>>

(* The read-pointer is moved from `from', the lock released, and `bytes'   *)
(* are what the caller was given.                                          *)
ReadStore(t, from, bytes) ==
  LET r == Read(t, from)
      b == Consumed(rb, r)
  IN /\ Store(t, b)
     /\ broken' = IF Length(b) + r.result = Length(rb) THEN "no" ELSE th[t].op
     /\ readers' = readers \ {t}
     /\ Finish(t, r.result, ReadSignals(rb, from, r), bytes)
     /\ UNCHANGED <<sigVars, raced, next, closed>>

(* The CMPXCH of a read that leaves something behind; once more if another *)
(* reader was faster.                                                      *)
ReadCas(t) ==
  /\ Live
  /\ th[t].pc = "cas"
  /\ ~Empties(t)
  /\ IF rb.r_rptr = th[t].old THEN ReadStore(t, th[t].old, th[t].copy)
     ELSE LoadPointer(t) /\ UNCHANGED <<sigVars, bufVars, readers, told, raced, broken>>

(* Mutant: after the upgrade, the copy made before it is returned. *)
ReadUpgradeTrusts(t) ==
  /\ Live
  /\ th[t].pc = "cas"
  /\ Empties(t)
  /\ IF readers = {t} THEN ReadStore(t, rb.r_rptr, th[t].copy)
     ELSE /\ readers' = readers \ {t}
          /\ GoTo(t, "exclusive")
          /\ UNCHANGED <<sigVars, bufVars, told, raced, broken>>

(* A read that takes everything upgrades the lock: nobody else holds it    *)
(* and the turn is finished, or repeated if the pointer has moved, under   *)
(* the write-lock; or the lock is given up and taken anew for writing.     *)
ReadUpgrade(t) ==
  /\ Live
  /\ th[t].pc = "cas"
  /\ Empties(t)
  /\ IF readers = {t}
     THEN ReadStore(t, rb.r_rptr,
                    IF rb.r_rptr = th[t].old THEN th[t].copy ELSE Read(t, rb.r_rptr).bytes)
     ELSE /\ readers' = readers \ {t}
          /\ GoTo(t, "exclusive")
          /\ UNCHANGED <<sigVars, bufVars, told, raced, broken>>

ReadExclusive(t) ==
  /\ Live
  /\ th[t].pc = "exclusive"
  /\ readers = {}
  /\ ReadStore(t, rb.r_rptr, Read(t, rb.r_rptr).bytes)

-----------------------------------------------------------------------------
(* ringbuffer_unread(): the read-pointer moves back, wrapping to the end of *)
(* the buffer once, but not below the write-pointer then; one CMPXCH.      *)
Unread(t) ==
  \E n \in 1 .. MaxBytes :
    LET from == rb.r_rptr
        below == Min({from, n})
        above == Min({n - below, rb.r_size - rb.r_wptr})
        new_pointer == IF above = 0 THEN from - below ELSE rb.r_size - above
        b == [rb EXCEPT !.r_rptr = new_pointer]
    IN /\ Entering(t)
       /\ t \in Seeker
       /\ rb.r_wptr # 0
       /\ Store(t, b)
       /\ broken' = IF Length(rb) + below + above = Length(b) THEN "no" ELSE "unread"
       /\ th' = [th EXCEPT ![t].pc = "send",
                           ![t].todo = IF from = rb.r_size THEN <<"all">>
                                       ELSE IF new_pointer = rb.r_wptr THEN <<"full">> ELSE <<>>]
       /\ UNCHANGED <<sigVars, raced, next, closed, readers>>

(* ringbuffer_unwrite(), under the write-lock.  With the read-pointer above *)
(* the write-pointer, `new_pointer - r_base' is what it counts.            *)
Unwrite(t) ==
  \E n \in 1 .. MaxBytes :
    LET plain == rb.r_rptr <= rb.r_wptr
        below == Min({n, IF plain THEN rb.r_wptr - rb.r_rptr ELSE rb.r_wptr})
        counted == IF plain THEN below ELSE rb.r_wptr - below
        wraps == ~plain /\ below = rb.r_wptr
        above == IF wraps THEN Min({n - counted, rb.r_size - rb.r_rptr}) ELSE 0
        new_pointer == IF wraps THEN rb.r_size - above ELSE rb.r_wptr - below
        result == counted + above
        emptied == new_pointer = rb.r_rptr
        b == IF emptied THEN [rb EXCEPT !.r_rptr = rb.r_size, !.r_wptr = 0]
             ELSE [rb EXCEPT !.r_wptr = new_pointer]
    IN /\ Entering(t)
       /\ t \in Seeker
       /\ readers = {}
       /\ Store(t, b)
       /\ broken' = IF Length(b) + result = Length(rb) THEN "no" ELSE "unwrite"
       /\ th' = [th EXCEPT ![t].pc = "send",
                           ![t].todo = IF result = 0 THEN <<>>
                                       ELSE (IF Full(rb) THEN <<"notfull">> ELSE <<>>)
                                            \o (IF emptied THEN <<"empty">> ELSE <<>>)]
       /\ UNCHANGED <<sigVars, raced, next, closed, readers>>

-----------------------------------------------------------------------------
(* ringbuffer_writev_atomic(): the flag is tested before the lock is taken. *)
WriteEnter(t) ==
  /\ Live
  /\ th[t].pc = "enter"
  /\ GoTo(t, IF closed THEN "check" ELSE "write")
  /\ UNCHANGED <<sigVars, bufVars, readers, told, raced, broken>>

(* The write-locked section on a buffer b that has room, or the caller's   *)
(* memory faults before the write-pointer is moved.                        *)
WriteInto(t, b) ==
  LET n == Min({Room(b), th[t].n})
  IN \/ /\ Store(t, Written(b, n))
        /\ next' = (next + n) % Stamps
        /\ Finish(t, n, WriteSignals(b, n), <<>>)
     \/ /\ t \in Faulty
        /\ Store(t, b)
        /\ Throw(t)
        /\ UNCHANGED next

(* It faults when the bytes up to the end of the buffer are written.       *)
WritePart(t, b) ==
  LET high == b.r_size - b.r_wptr
  IN /\ t \in Faulty
     /\ b.r_wptr > b.r_rptr
     /\ Min({Room(b), th[t].n}) > high
     /\ Store(t, Written(b, high))
     /\ next' = (next + high) % Stamps
     /\ Throw(t)

Write(t) ==
  /\ Live
  /\ th[t].pc = "write"
  /\ readers = {}
  /\ \/ ~Full(rb) /\ (WriteInto(t, rb) \/ WritePart(t, rb))
     \/ /\ Full(rb)
        /\ GrownSize(rb.r_size, th[t].n) > rb.r_size
        /\ th' = [th EXCEPT ![t].pc = "grow", ![t].old = rb.r_size]
        /\ UNCHANGED <<rb, next, told>>
     \/ /\ Full(rb)
        /\ GrownSize(rb.r_size, th[t].n) <= rb.r_size
        /\ GoTo(t, "check")
        /\ UNCHANGED <<rb, next, told>>
  /\ UNCHANGED <<sigVars, raced, closed, readers, broken>>

(* increase_buffer, without the lock: memory behind the buffer if the read- *)
(* pointer is at its begin, else, or when there is none, a new buffer.     *)
Grow(t) ==
  /\ Live
  /\ th[t].pc = "grow"
  /\ \/ \E extra \in 0 .. Slack, label \in {"extend", "install"} :
          /\ label = "extend" => th[t].old # 0 /\ rb.r_rptr = 0 /\ rb.r_size = th[t].old
          /\ th' = [th EXCEPT ![t].new = GrownSize(th[t].old, th[t].n) + extra, ![t].pc = label]
     \/ t \in Faulty /\ Throw(t)
  /\ UNCHANGED <<sigVars, bufVars, readers, told, raced, broken>>

(* The memory behind the buffer is added if base and size are the same.    *)
Extend(t) ==
  LET b == [rb EXCEPT !.r_wptr = rb.r_size, !.r_size = th[t].new,
                      !.data = [i \in 0 .. th[t].new - 1 |-> IF i < rb.r_size THEN @[i] ELSE 0]]
  IN /\ Live
     /\ th[t].pc = "extend"
     /\ readers = {}
     /\ \/ /\ rb.r_size # th[t].old
           /\ GoTo(t, "write")
           /\ UNCHANGED <<rb, next, told, broken>>
        \/ /\ rb.r_size = th[t].old
           /\ Contents(rb) = Contents(b)
           /\ WriteInto(t, b) \/ WritePart(t, b)
           /\ UNCHANGED broken
        \/ /\ rb.r_size = th[t].old
           /\ Contents(rb) # Contents(b)
           /\ broken' = "grow"
           /\ UNCHANGED <<th, rb, next, told>>
     /\ UNCHANGED <<sigVars, raced, closed, readers>>

(* The buffer of the given size that takes over from a full one. *)
Replacement(size) ==
  LET bytes == Contents(rb)
  IN [r_rptr |-> IF rb.r_size = 0 THEN size ELSE 0, r_wptr |-> rb.r_size, r_size |-> size,
      data |-> [i \in 0 .. size - 1 |-> IF i < Len(bytes) THEN bytes[i + 1] ELSE 0]]

(* The new buffer is installed if the old one is still full and smaller;   *)
(* the write goes on, with the lock held if there was no buffer before.    *)
Install(t) ==
  LET b == Replacement(th[t].new)
  IN /\ Live
     /\ th[t].pc = "install"
     /\ readers = {}
     /\ IF th[t].new <= rb.r_size \/ ~Full(rb)
        THEN GoTo(t, "write") /\ UNCHANGED <<rb, next, told>>
        ELSE IF rb.r_size # 0 THEN Store(t, b) /\ GoTo(t, "write") /\ UNCHANGED next
        ELSE WriteInto(t, b)
     /\ UNCHANGED <<sigVars, raced, closed, readers, broken>>

(* ringbuffer_close() *)
Close(t) ==
  /\ Entering(t)
  /\ t \in Closer
  /\ ~closed
  /\ closed' = TRUE
  /\ th' = [th EXCEPT ![t].pc = "send", ![t].todo = <<"all">>]
  /\ UNCHANGED <<sigVars, rb, next, readers, told, raced, broken>>

-----------------------------------------------------------------------------
(* The channels t listens to while connected, on top of sig_broadcast(). *)
Channels(t) ==
  CASE th[t].op \in {"write", "wait_nonfull"} -> {"notfull"}
    [] th[t].op = "wait_empty" -> {"empty"}
    [] th[t].op = "wait_full" -> {"full"}
    [] OTHER -> {}

(* The connections that a signal is for. *)
Targets(signal) ==
  LET q == chain[r_stat]
  IN {i \in DOMAIN q : signal = "all" \/ signal \in Channels(q[i].task)}

Sent(t) == th' = [th EXCEPT ![t].todo = Tail(@)]

(* One turn of sig_send_channel(NOTFULL,1), sig_broadcast_channel() or      *)
(* sig_broadcast(): the first connection that listens receives the signal. *)
(* The first of them is done once wake_ok is set, for which the code looks *)
(* at the ghost flag of the head of the chain, whoever the receiver is.    *)
Enough(signal, u) == signal = "notfull" /\ saved[u] = "main" /\ ~Head(chain[r_stat]).ghost

(* A set of connections that is moving loses the signal: see SendOne() of  *)
(* TaskSignal.                                                             *)
Receive(u) ==
  /\ chain' = [chain EXCEPT ![r_stat] = Unlink(@, u)]
  /\ IF saved[u] = "moving"
     THEN raced' = raced \cup {u} /\ UNCHANGED <<tcs_sig, told>>
     ELSE /\ tcs_sig' = [tcs_sig EXCEPT ![u] = r_stat]
          /\ told' = IF Full(rb) THEN told ELSE told \cup ({th[u].op} \cap {"write", "wait_nonfull"})
          /\ UNCHANGED raced
  /\ UNCHANGED saved

Send(t) ==
  LET signal == Head(th[t].todo)
      u == chain[r_stat][Min(Targets(signal))].task
  IN /\ Live
     /\ th[t].pc = "send"
     /\ th[t].todo # <<>>
     /\ \/ /\ Targets(signal) = {}
           /\ Sent(t)
           /\ UNCHANGED <<sigVars, told, raced>>
        \/ /\ Targets(signal) # {}
           /\ Receive(u)
           /\ IF Enough(signal, u) THEN Sent(t) ELSE UNCHANGED th
     /\ UNCHANGED <<bufVars, readers, broken>>

(* The call returns its result, disconnecting first if it has to. *)
Done(t) ==
  /\ Live
  /\ th[t].pc = "send"
  /\ th[t].todo = <<>>
  /\ IF th[t].retry THEN GoTo(t, "drop") ELSE Return(t)
  /\ UNCHANGED <<sigVars, bufVars, readers, told, raced, broken>>

(* An attempt moved nothing: the first one ends a call that is not to      *)
(* block (IO_NONBLOCK), or asked for nothing, or finds the buffer closed.  *)
Check(t) ==
  /\ Live
  /\ th[t].pc = "check"
  /\ \/ ~th[t].retry /\ Return(t)
     \/ ~th[t].retry /\ th[t].n # 0 /\ ~closed /\ th[t].op # "discard" /\ GoTo(t, "connect")
     \/ th[t].retry /\ GoTo(t, IF closed THEN "drop" ELSE "wait")
  /\ UNCHANGED <<sigVars, bufVars, readers, told, raced, broken>>

Attempt(t) == CASE th[t].op = "read" -> "load" [] th[t].op = "write" -> "enter" [] OTHER -> "test"

(* Mutant: the attempt is not repeated once connected. *)
ConnectOnly(t) ==
  /\ Live
  /\ th[t].pc = "connect"
  /\ Connect(t, r_stat, th[t].op \in Conditions)
  /\ th' = [th EXCEPT ![t].retry = TRUE, ![t].pc = "wait"]
  /\ UNCHANGED <<bufVars, readers, told, raced, broken>>

(* task_channelmask(), task_connect(&self->r_stat), and the second attempt. *)
ConnectStat(t) ==
  /\ Live
  /\ th[t].pc = "connect"
  /\ Connect(t, r_stat, th[t].op \in Conditions)
  /\ th' = [th EXCEPT ![t].retry = TRUE, ![t].pc = Attempt(t)]
  /\ UNCHANGED <<bufVars, readers, told, raced, broken>>

(* task_disconnect(), on the way out. *)
Drop(t) ==
  /\ Live
  /\ th[t].pc \in {"drop", "throw"}
  /\ Disconnect(t)
  /\ Return(t)
  /\ raced' = raced \ {t}
  /\ UNCHANGED <<bufVars, readers, told, broken>>

(* task_wait(): the signal came; `goto again' without a connection. *)
Wake(t) ==
  /\ Live
  /\ th[t].pc = "wait"
  /\ tcs_sig[t] # NoSig
  /\ Disconnect(t)
  /\ th' = [th EXCEPT ![t].retry = FALSE, ![t].pc = Attempt(t)]
  /\ UNCHANGED <<bufVars, readers, told, raced, broken>>

(* ... or there are RPCs to serve first, as in TaskWait: the connections   *)
(* are saved, the callbacks run, and the connections are restored.         *)
Serve(t) ==
  /\ Live
  /\ \/ /\ th[t].pc = "wait" /\ tcs_sig[t] = NoSig /\ t \in Serving
        /\ RelocateConnections(t) /\ GoTo(t, "push")
     \/ th[t].pc = "push" /\ CopySignal(t) /\ GoTo(t, "serve")
     \/ th[t].pc = "serve" /\ PopConnections(t) /\ GoTo(t, "wait")
  /\ UNCHANGED <<bufVars, readers, told, raced, broken>>

(* A callback throws E_INTERRUPT: FINALLY disconnects, a later step. *)
Interrupt(t) ==
  /\ Live
  /\ th[t].pc = "serve"
  /\ t \in Interruptible
  /\ PopConnections(t)
  /\ GoTo(t, "throw")
  /\ UNCHANGED <<bufVars, readers, told, raced, broken>>

(* ringbuffer_is*(): each is also true of a closed buffer. *)
Met(condition) ==
  \/ closed
  \/ condition = "wait_empty" /\ Empty(rb)
  \/ condition = "wait_nonempty" /\ ~Empty(rb)
  \/ condition = "wait_full" /\ Full(rb)
  \/ condition = "wait_nonfull" /\ ~Full(rb)

(* The two tests in the loop of ringbuffer_wait_*().  The second one leaves *)
(* the loop with the ghost connection in place, in which state FINALLY may *)
(* not change the channel mask and no ringbuffer_wait_*() may be called.   *)
Test(t) ==
  /\ Live
  /\ th[t].pc = "test"
  /\ \/ ~Met(th[t].op) /\ GoTo(t, IF th[t].retry THEN "wait" ELSE "connect") /\ UNCHANGED broken
     \/ Met(th[t].op) /\ ~th[t].retry /\ Return(t) /\ UNCHANGED broken
     \/ Met(th[t].op) /\ th[t].retry /\ broken' = "wait" /\ UNCHANGED th
  /\ UNCHANGED <<sigVars, bufVars, readers, told, raced>>

-----------------------------------------------------------------------------
(* The steps t takes once it is inside a call. *)
Step(t) ==
  /\ UNCHANGED calls
  /\ \/ ReadLoad(t) \/ ReadCas(t) \/ ReadUpgrade(t) \/ ReadExclusive(t) \/ ReadFault(t)
     \/ WriteEnter(t) \/ Write(t) \/ Grow(t) \/ Extend(t) \/ Install(t)
     \/ Send(t) \/ Done(t) \/ Check(t) \/ ConnectStat(t) \/ Drop(t) \/ Wake(t) \/ Serve(t)
     \/ Interrupt(t) \/ Test(t)

Next ==
  \E t \in Task :
    \/ CallRead(t) \/ CallWrite(t) \/ CallDiscard(t) \/ CallWait(t)
    \/ Unread(t) \/ Unwrite(t) \/ Close(t)
    \/ Step(t)

Spec == Init /\ [][Next]_vars

-----------------------------------------------------------------------------
(* The ranges of the variables.  The write-pointer is never at END; only   *)
(* r_rptr may be there.                                                    *)
TypeOK ==
  /\ SigTypeOK
  /\ \A t \in Task : th[t].pc \in PC
  /\ rb.r_size \in 0 .. MaxSize
  /\ rb.data \in [0 .. rb.r_size - 1 -> 0 .. Stamps - 1]
  /\ rb.r_rptr \in 0 .. rb.r_size
  /\ rb.r_wptr < rb.r_size \/ rb.r_size + rb.r_wptr = 0
  /\ next \in 0 .. Stamps - 1
  /\ closed \in BOOLEAN /\ told \subseteq {"write", "wait_nonfull"} /\ raced \subseteq Task
  /\ readers = {t \in Task : th[t].pc = "cas"}

Queue == INSTANCE ByteQueue WITH q <- Contents(rb), Capacity <- MaxSize

(* Whatever reads, writes, seeks, growths, faults and retries interleave,  *)
(* the buffer is a queue of bytes: ringbuffer_write() appends, reading and *)
(* discarding remove from the front, unread and unwrite add to the front   *)
(* and remove from the back, and growing moves nothing.  Excepted are the  *)
(* steps that `broken' records.                                            *)
ImplementsQueue == Queue!Init /\ [][broken' = "no" => Queue!Next]_<<Contents(rb), next>>

(* A reader is given the bytes that leave the buffer, in their order,      *)
(* although it copied them before the CMPXCH of the read-pointer.          *)
DeliversWhatLeaves ==
  [][\A t \in Task :
       th[t].op = "read" /\ th[t].pc \in {"cas", "exclusive"} /\ th'[t].pc = "send"
         => Contents(rb) = th'[t].copy \o Contents(rb')]_vars

(* t sleeps in task_wait() and nothing has been delivered to it. *)
Asleep(t, op) == th[t].op = op /\ th[t].pc = "wait" /\ tcs_sig[t] = NoSig

Announced(signal) == \E t \in Task : \E i \in DOMAIN th[t].todo : th[t].todo[i] = signal

(* No reader sleeps while there is something to read, or once the buffer   *)
(* is closed, unless the broadcast that will wake it is on its way: a      *)
(* write that finds the buffer empty tells everybody.  Excepted is a       *)
(* reader that was moving its connections when that broadcast was sent.    *)
NoStrandedReader ==
  Live => \A t \in Task \ raced :
            Asleep(t, "read") => (Empty(rb) /\ ~closed) \/ Announced("all")

(* Of those that sleep for room, in ringbuffer_write() or in               *)
(* ringbuffer_wait_nonfull(), at least one is sent a signal after the      *)
(* buffer has stopped being full, so that nobody sleeps next to room that  *)
(* no waiter knows of: a signal that its receiver lost by moving its       *)
(* connections goes on to the next one.                                    *)
RoomTold ==
  Live => \A t \in Task \ raced :
            Asleep(t, "write") /\ ~Full(rb)
              => told # {} \/ Announced("notfull") \/ Announced("all")

(* Refuted.  ringbuffer.h: "Data was read from a full buffer ->            *)
(* SEND(RBUF_STATE_CHANNEL_NOTFULL,1)", to a thread in ringbuffer_write(): *)
(* one that only polls, behind a reader, is taken for it.                  *)
OneWriterTold ==
  Live => \A t \in Task \ raced :
            Asleep(t, "write") /\ ~Full(rb)
              => "write" \in told \/ Announced("notfull") \/ Announced("all")

(* Refuted.  ringbuffer.h: ringbuffer_read() "will block until something   *)
(* can be read": no reader keeps sleeping in front of data.                *)
ReaderWoken ==
  Live => \A t \in Task : Asleep(t, "read") => (Empty(rb) /\ ~closed) \/ Announced("all")

(* Refuted.  ringbuffer_write() `will block until space becomes            *)
(* available': no writer sleeps while there is room, unless some task is   *)
(* in a call that may still wake it.                                       *)
NoStrandedWriter ==
  Live => \A t \in Task :
            Asleep(t, "write") /\ ~Full(rb)
              => \E u \in Task : th[u].pc # "run" /\ ~Asleep(u, "write")

(* Refuted.  `The buffer is empty -> BROADCAST(RBUF_STATE_CHANNEL_EMPTY)': *)
(* nobody sleeps in ringbuffer_wait_empty() while the buffer is empty.     *)
EmptyAnnounced ==
  Live => \A t \in Task :
            Asleep(t, "wait_empty") /\ Empty(rb) => Announced("empty") \/ Announced("all")

(* Refuted.  ringbuffer_read() and ringbuffer_discard() `return the amount *)
(* of bytes read': no other byte leaves the buffer.                        *)
ReadCounts == broken \notin {"read", "discard"}

(* Refuted.  ringbuffer_unread() and ringbuffer_unwrite() `return how much *)
(* could actually be' moved.                                               *)
SeekCounts == broken \notin {"unread", "unwrite"}

(* Refuted.  Growing the buffer in place leaves its contents alone, and the *)
(* pointers apart (`assert(self->r_rptr != self->r_wptr)').                *)
GrowthKeeps == broken # "grow"

(* Refuted.  A thread is not connected when ringbuffer_wait_*() restores    *)
(* its channel mask (`You may not change the channel mask after already    *)
(* being connected').                                                      *)
WaitDisconnects == broken # "wait"

(* Refuted.  `READ == END && WRITE != BEGIN' is an illegal position.       *)
PointersLegal == rb.r_rptr = rb.r_size => rb.r_wptr = 0
=============================================================================
