----------------------------- MODULE ByteQueue -----------------------------
(***************************************************************************)
(* What a ring buffer promises (fs/ringbuffer.h): a queue of bytes that    *)
(* holds at most `Capacity' of them.  Bytes are written behind the last    *)
(* one and read from the first one on; `next' numbers them in the order in *)
(* which they are written, modulo Stamps.                                  *)
(***************************************************************************)
EXTENDS Naturals, Sequences

CONSTANTS Capacity, Stamps

VARIABLES q, next

Init == q = <<>> /\ next = 0

(* ringbuffer_write(): the next n bytes go behind the others. *)
Put(n) ==
  /\ Len(q) + n <= Capacity
  /\ q' = q \o [i \in 1 .. n |-> (next + i - 1) % Stamps]
  /\ next' = (next + n) % Stamps

(* ringbuffer_read(), ringbuffer_discard(): the first n bytes leave. *)
Get(n) == q' = SubSeq(q, n + 1, Len(q)) /\ UNCHANGED next

(* ringbuffer_unread(): n bytes come back in front of the others. *)
Unget(n) ==
  /\ Len(q') = Len(q) + n
  /\ Len(q') <= Capacity
  /\ SubSeq(q', n + 1, Len(q')) = q
  /\ UNCHANGED next

(* ringbuffer_unwrite(): the last n bytes are taken back. *)
Unput(n) == q' = SubSeq(q, 1, Len(q) - n) /\ UNCHANGED next

Next ==
  \/ \E n \in 1 .. Capacity : Put(n) \/ Unget(n)
  \/ \E n \in 1 .. Len(q) : Get(n) \/ Unput(n)

Spec == Init /\ [][Next]_<<q, next>>
=============================================================================
