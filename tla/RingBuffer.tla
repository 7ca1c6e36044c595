----------------------------- MODULE RingBuffer -----------------------------
(***************************************************************************)
(* The data of a message queue (kernel/sync/queue.c): an array of Capacity *)
(* slots, the index "head" of the next slot to write, the index "tail" of  *)
(* the next one to read, and the number of messages, which alone tells a   *)
(* full ring from an empty one.  The functions run inside their callers'   *)
(* critical sections, so that each is an operator on the ring.             *)
(***************************************************************************)
EXTENDS Integers, Sequences

CONSTANTS Msg, None, Capacity

ASSUME RingAssumption == Capacity \in Nat \ {0} /\ None \notin Msg

Slot == 0 .. Capacity - 1
Ring == [buffer : [Slot -> Msg \cup {None}], head : Slot, tail : Slot,
         count : 0 .. Capacity]

\* queue_init; the buffer is whatever the caller passed.
queue_init == [buffer |-> [i \in Slot |-> None], head |-> 0, tail |-> 0, count |-> 0]

queue_push_back(q, m) ==
    [q EXCEPT !.buffer[q.head] = m, !.head = (@ + 1) % Capacity, !.count = @ + 1]

\* Mutant: the index steps back after the copy.
queue_push_front_late(q, m) ==
    [q EXCEPT !.buffer[q.tail] = m,
              !.tail = IF @ = 0 THEN Capacity - 1 ELSE @ - 1, !.count = @ + 1]

queue_push_front(q, m) ==
    LET i == IF q.tail = 0 THEN Capacity - 1 ELSE q.tail - 1 IN
    [q EXCEPT !.buffer[i] = m, !.tail = i, !.count = @ + 1]

queue_front(q) == q.buffer[q.tail]

\* Mutant: the read index does not wrap.
queue_pop_no_wrap(q) ==
    [q EXCEPT !.tail = IF @ + 1 < Capacity THEN @ + 1 ELSE @, !.count = @ - 1]

queue_pop(q) == [q EXCEPT !.tail = (@ + 1) % Capacity, !.count = @ - 1]

\* The messages in the ring, the next one to be received first.
Items(q) == [i \in 1 .. q.count |-> q.buffer[(q.tail + i - 1) % Capacity]]
=============================================================================
