--------------------------- MODULE CircularQueue ----------------------------
(***************************************************************************)
(* circular_q of spdlog (circular_q.h), the queue inside the thread pool,  *)
(* the backtracer and the ringbuffer sink: slots used in a circle, one of  *)
(* them kept free to tell a full queue from an empty one, and a push that  *)
(* overruns the oldest item of a full queue.                               *)
(*                                                                         *)
(* A queue is a record; the operations are operators from records to       *)
(* records.  Contents is the sequence a queue stands for.                  *)
(***************************************************************************)
EXTENDS Naturals, Sequences

CONSTANT Moved   \* what is left in a slot whose item was moved out

\* Next slot in the circle.
NextSlot(i, q) == (i + 1) % q.max_items

\* What a queue with at least one slot looks like.
IsCircQ(q, Item) ==
  /\ q.max_items \in Nat \ {0}
  /\ q \in [max_items : {q.max_items}, overrun : Nat,
            head : 0 .. q.max_items - 1, tail : 0 .. q.max_items - 1,
            v : [0 .. q.max_items - 1 -> Item \cup {Moved}]]

\* circular_q(max_items): one slot is reserved as the marker of a full queue.
NewQ(n) == [max_items |-> n + 1, head |-> 0, tail |-> 0, overrun |-> 0,
            v |-> [i \in 0 .. n |-> Moved]]

\* circular_q(), and what a move leaves behind: a queue without a slot.
DisabledQ == [max_items |-> 0, head |-> 0, tail |-> 0, overrun |-> 0,
              v |-> [i \in {} |-> Moved]]

Size(q) == IF q.tail >= q.head THEN q.tail - q.head
                               ELSE q.max_items - (q.head - q.tail)

Empty(q) == q.tail = q.head
Full(q) == q.max_items > 0 /\ NextSlot(q.tail, q) = q.head

FrontItem(q) == q.v[q.head]
At(q, i) == q.v[(q.head + i) % q.max_items]

\* The body of push_back, once the queue is known to have slots.
Push(q, x) ==
  LET t == NextSlot(q.tail, q) IN
  [q EXCEPT !.v = [@ EXCEPT ![q.tail] = x],
            !.tail = t,
            !.head = IF t = @ THEN NextSlot(@, q) ELSE @,
            !.overrun = IF t = q.head THEN @ + 1 ELSE @]

PushBack(q, x) == IF q.max_items > 0 THEN Push(q, x) ELSE q

PopFront(q) == [q EXCEPT !.head = NextSlot(@, q)]

\* The sequence a queue stands for, the oldest item first.
Contents(q) == [i \in 1 .. Size(q) |-> At(q, i - 1)]

=============================================================================
