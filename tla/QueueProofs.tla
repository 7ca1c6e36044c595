---------------------------- MODULE QueueProofs ----------------------------
(***************************************************************************)
(* Proofs about the message queue: the ring stays aligned, it implements   *)
(* the bounded deque that queue.h describes, and no waiter is forgotten,   *)
(* for every capacity, set of messages and set of tasks.                   *)
(***************************************************************************)
EXTENDS MsgQueue, TaskApiProofs, FiniteSetTheorems

-----------------------------------------------------------------------------
(***************************************************************************)
(* The ring                                                                *)
(***************************************************************************)
Aligned(q) == q \in Ring /\ q.head = (q.tail + q.count) % Capacity

\* An index that has run past the end of the buffer wraps once.
Wrapped(i) == IF i < Capacity THEN i ELSE i - Capacity

\* What "% Capacity" computes from the sums of an index and a count.
LEMMA WrapOnce ==
  ASSUME NEW i \in 0 .. 2 * Capacity - 1
  PROVE  i % Capacity = Wrapped(i) /\ Wrapped(i) \in Slot
BY RingAssumption DEF Wrapped, Slot

\* The fields of a ring.
LEMMA RingFields ==
  ASSUME NEW q, Aligned(q)
  PROVE  /\ q = [buffer |-> q.buffer, head |-> q.head, tail |-> q.tail,
                 count |-> q.count]
         /\ q.buffer \in [Slot -> Msg \cup {None}]
         /\ q.head \in Slot /\ q.tail \in Slot /\ q.count \in 0 .. Capacity
         /\ q.head = Wrapped(q.tail + q.count)
<1>1. q.tail + q.count \in 0 .. 2 * Capacity - 1
  BY RingAssumption DEF Aligned, Ring, Slot
<1> QED
  BY <1>1, WrapOnce DEF Aligned, Ring

\* A record with the fields of an aligned ring is one.
LEMMA RingMade ==
  ASSUME NEW b \in [Slot -> Msg \cup {None}], NEW h \in Slot, NEW t \in Slot,
         NEW n \in 0 .. Capacity, h = Wrapped(t + n)
  PROVE  Aligned([buffer |-> b, head |-> h, tail |-> t, count |-> n])
<1>1. t + n \in 0 .. 2 * Capacity - 1
  BY RingAssumption DEF Slot
<1> QED
  BY <1>1, WrapOnce DEF Aligned, Ring

\* The messages in a ring, by position.
LEMMA ItemsAre ==
  ASSUME NEW q, Aligned(q)
  PROVE  /\ Items(q) \in Seq(Msg \cup {None})
         /\ Len(Items(q)) = q.count
         /\ DOMAIN Items(q) = 1 .. q.count
         /\ \A i \in 1 .. q.count : Items(q)[i] = q.buffer[Wrapped(q.tail + i - 1)]
<1> USE RingFields
<1>1. \A i \in 1 .. q.count : q.tail + i - 1 \in 0 .. 2 * Capacity - 1
  BY RingAssumption DEF Slot
<1>2. \A i \in 1 .. q.count : /\ Items(q)[i] = q.buffer[Wrapped(q.tail + i - 1)]
                              /\ Items(q)[i] \in Msg \cup {None}
  BY <1>1, WrapOnce DEF Items
<1>3. q.count \in Nat /\ Items(q) = [i \in 1 .. q.count |-> Items(q)[i]]
  BY RingAssumption DEF Items
<1>4. Items(q) \in [1 .. q.count -> Msg \cup {None}]
  BY <1>2, <1>3
<1>5. Items(q) \in Seq(Msg \cup {None})
  BY <1>3, <1>4
<1>6. DOMAIN Items(q) = 1 .. q.count
  BY DEF Items
<1>7. Len(Items(q)) \in Nat /\ DOMAIN Items(q) = 1 .. Len(Items(q))
  BY <1>5, LenProperties
<1>8. ASSUME NEW m \in Nat, NEW n \in Nat, 1 .. m = 1 .. n PROVE m = n
  <2>1. m > n => m \in 1 .. m /\ m \notin 1 .. n
    OBVIOUS
  <2>2. n > m => n \in 1 .. n /\ n \notin 1 .. m
    OBVIOUS
  <2> QED BY <1>8, <2>1, <2>2
<1>9. Len(Items(q)) = q.count
  BY <1>3, <1>6, <1>7, <1>8
<1> QED
  BY <1>2, <1>5, <1>6, <1>9

\* Two sequences with the same elements are the same.
LEMMA SameItems ==
  ASSUME NEW S, NEW u \in Seq(S), NEW v \in Seq(S), Len(u) = Len(v),
         \A i \in 1 .. Len(u) : u[i] = v[i]
  PROVE  u = v
BY SeqEqual

\* The operations, field by field.
LEMMA OpsByField ==
  ASSUME NEW b, NEW h, NEW t, NEW n, NEW m, NEW q,
         q = [buffer |-> b, head |-> h, tail |-> t, count |-> n]
  PROVE  /\ queue_push_back(q, m) =
              [buffer |-> [b EXCEPT ![h] = m], head |-> (h + 1) % Capacity,
               tail |-> t, count |-> n + 1]
         /\ LET i == IF t = 0 THEN Capacity - 1 ELSE t - 1
            IN  queue_push_front(q, m) =
                  [buffer |-> [b EXCEPT ![i] = m], head |-> h, tail |-> i,
                   count |-> n + 1]
         /\ queue_pop(q) = [buffer |-> b, head |-> h, tail |-> (t + 1) % Capacity,
                            count |-> n - 1]
<1> PICK i : i = IF t = 0 THEN Capacity - 1 ELSE t - 1
  OBVIOUS
<1> PICK j : j = (h + 1) % Capacity
  OBVIOUS
<1> PICK k : k = n + 1
  OBVIOUS
<1> PICK v, w : v = [b EXCEPT ![h] = m] /\ w = [b EXCEPT ![i] = m]
  OBVIOUS
<1>1. q.buffer = b /\ q.head = h /\ q.tail = t /\ q.count = n
  OBVIOUS
<1>2. queue_push_back(q, m) = [q EXCEPT !.buffer = v, !.head = j, !.count = k]
  BY <1>1 DEF queue_push_back
<1>3. queue_push_front(q, m) = [q EXCEPT !.buffer = w, !.tail = i, !.count = k]
  BY <1>1 DEF queue_push_front
<1> PICK e, d : e = (t + 1) % Capacity /\ d = n - 1
  OBVIOUS
<1>4. queue_pop(q) = [buffer |-> b, head |-> h, tail |-> e, count |-> d]
  <2>1. queue_pop(q) = [q EXCEPT !.tail = e, !.count = d]
    BY <1>1 DEF queue_pop
  <2> QED BY <2>1
<1>6. queue_push_back(q, m) = [buffer |-> v, head |-> j, tail |-> t, count |-> k]
  BY <1>2
<1>7. queue_push_front(q, m) = [buffer |-> w, head |-> h, tail |-> i, count |-> k]
  BY <1>3
<1> QED
  BY <1>4, <1>6, <1>7

\* A ring, aligned or not, stays one, and its count counts.
LEMMA RingKept ==
  ASSUME NEW q \in Ring
  PROVE  /\ \A m \in Msg : q.count < Capacity =>
              /\ queue_push_back(q, m) \in Ring /\ queue_push_front(q, m) \in Ring
              /\ queue_push_back(q, m).count = q.count + 1
              /\ queue_push_front(q, m).count = q.count + 1
         /\ q.count > 0 => queue_pop(q) \in Ring /\ queue_pop(q).count = q.count - 1
<1> USE RingAssumption
<1>1. /\ q = [buffer |-> q.buffer, head |-> q.head, tail |-> q.tail, count |-> q.count]
      /\ q.buffer \in [Slot -> Msg \cup {None}]
      /\ q.head \in Slot /\ q.tail \in Slot /\ q.count \in 0 .. Capacity
  BY DEF Ring
<1>2. \A i \in Slot : (i + 1) % Capacity \in Slot
  BY WrapOnce DEF Slot
<1>3. ASSUME NEW b \in [Slot -> Msg \cup {None}], NEW h \in Slot, NEW t \in Slot,
             NEW n \in 0 .. Capacity, NEW r,
             r = [buffer |-> b, head |-> h, tail |-> t, count |-> n]
      PROVE  r \in Ring /\ r.count = n
  BY <1>3 DEF Ring
<1>4. ASSUME NEW m \in Msg, q.count < Capacity
      PROVE  /\ queue_push_back(q, m) \in Ring /\ queue_push_front(q, m) \in Ring
             /\ queue_push_back(q, m).count = q.count + 1
             /\ queue_push_front(q, m).count = q.count + 1
  <2>1. PICK i \in Slot : i = IF q.tail = 0 THEN Capacity - 1 ELSE q.tail - 1
    BY <1>1 DEF Slot
  <2>2. PICK h \in Slot : h = (q.head + 1) % Capacity
    BY <1>1, <1>2
  <2>3. PICK b \in [Slot -> Msg \cup {None}], c \in [Slot -> Msg \cup {None}] :
          b = [q.buffer EXCEPT ![q.head] = m] /\ c = [q.buffer EXCEPT ![i] = m]
    BY <1>1
  <2>4. PICK n \in 0 .. Capacity : n = q.count + 1
    BY <1>1, <1>4
  <2>5. /\ queue_push_back(q, m) = [buffer |-> b, head |-> h, tail |-> q.tail, count |-> n]
        /\ queue_push_front(q, m) = [buffer |-> c, head |-> q.head, tail |-> i, count |-> n]
    BY <1>1, <2>1, <2>2, <2>3, <2>4, OpsByField
  <2> QED
    BY <1>1, <1>3, <2>4, <2>5
<1>5. ASSUME q.count > 0
      PROVE  queue_pop(q) \in Ring /\ queue_pop(q).count = q.count - 1
  <2>1. PICK t \in Slot, n \in 0 .. Capacity : t = (q.tail + 1) % Capacity /\ n = q.count - 1
    BY <1>1, <1>2, <1>5
  <2>2. queue_pop(q) = [buffer |-> q.buffer, head |-> q.head, tail |-> t, count |-> n]
    BY <1>1, <2>1, OpsByField
  <2> QED
    BY <1>1, <1>3, <2>1, <2>2
<1> QED
  BY <1>4, <1>5

\* A send at the back appends, as long as there is room.
LEMMA PushBack ==
  ASSUME NEW q, Aligned(q), q.count < Capacity, NEW m \in Msg
  PROVE  /\ Aligned(queue_push_back(q, m))
         /\ Items(queue_push_back(q, m)) = Append(Items(q), m)
<1> DEFINE b == [q.buffer EXCEPT ![q.head] = m]
           h == (q.head + 1) % Capacity
           r == queue_push_back(q, m)
<1> USE RingFields, RingAssumption
<1>1. r = [buffer |-> b, head |-> h, tail |-> q.tail, count |-> q.count + 1]
  BY OpsByField
<1>2. b \in [Slot -> Msg \cup {None}]
  OBVIOUS
<1>3. h = Wrapped(q.head + 1) /\ h \in Slot
  BY WrapOnce DEF Slot
<1>4. h = Wrapped(q.tail + (q.count + 1))
  BY <1>3 DEF Wrapped, Slot
<1>5. q.count + 1 \in 0 .. Capacity
  OBVIOUS
<1>6. Aligned(r)
  <2> HIDE DEF b, h, r
  <2> QED BY <1>1, <1>2, <1>3, <1>4, <1>5, RingMade
<1>7. \A i \in 1 .. q.count :
        /\ Wrapped(q.tail + i - 1) \in Slot /\ Wrapped(q.tail + i - 1) # q.head
  BY DEF Wrapped, Slot
<1>8. Wrapped(q.tail + (q.count + 1) - 1) = q.head
  BY DEF Wrapped, Slot
<1>9. r.buffer = b /\ r.tail = q.tail /\ r.count = q.count + 1
  BY <1>1
<1> HIDE DEF r, b, h
<1>10. \A i \in 1 .. q.count + 1 : Items(r)[i] = b[Wrapped(q.tail + i - 1)]
  BY <1>6, <1>9, ItemsAre
<1>11. \A i \in 1 .. q.count : Items(r)[i] = Items(q)[i]
  BY <1>10, <1>7, ItemsAre DEF b
<1>12. Items(r)[q.count + 1] = m
  BY <1>10, <1>8 DEF b
<1>13. /\ Append(Items(q), m) \in Seq(Msg \cup {None})
       /\ Len(Append(Items(q), m)) = q.count + 1
       /\ \A i \in 1 .. q.count : Append(Items(q), m)[i] = Items(q)[i]
       /\ Append(Items(q), m)[q.count + 1] = m
  BY ItemsAre, AppendProperties
<1>14. Items(r) \in Seq(Msg \cup {None}) /\ Len(Items(r)) = q.count + 1
  BY <1>6, <1>9, ItemsAre
<1>15. \A i \in 1 .. q.count + 1 : Items(r)[i] = Append(Items(q), m)[i]
  BY <1>11, <1>12, <1>13
<1>16. Items(r) = Append(Items(q), m)
  BY <1>13, <1>14, <1>15, SameItems
<1> QED
  BY <1>6, <1>16 DEF r

\* An urgent send puts its message before all others.
LEMMA PushFront ==
  ASSUME NEW q, Aligned(q), q.count < Capacity, NEW m \in Msg
  PROVE  /\ Aligned(queue_push_front(q, m))
         /\ Items(queue_push_front(q, m)) = <<m>> \o Items(q)
<1> DEFINE t == IF q.tail = 0 THEN Capacity - 1 ELSE q.tail - 1
           b == [q.buffer EXCEPT ![t] = m]
           r == queue_push_front(q, m)
<1> USE RingFields, RingAssumption
<1>1. r = [buffer |-> b, head |-> q.head, tail |-> t, count |-> q.count + 1]
  BY OpsByField
<1>2. b \in [Slot -> Msg \cup {None}]
  OBVIOUS
<1>3. t \in Slot
  BY DEF Slot
<1>4. q.head = Wrapped(t + (q.count + 1))
  BY DEF Wrapped, Slot
<1>5. q.count + 1 \in 0 .. Capacity
  OBVIOUS
<1>6. Aligned(r)
  <2> HIDE DEF b, t, r
  <2> QED BY <1>1, <1>2, <1>3, <1>4, <1>5, RingMade
<1>7. \A i \in 1 .. q.count :
        /\ Wrapped(q.tail + i - 1) \in Slot /\ Wrapped(q.tail + i - 1) # t
        /\ Wrapped(t + (i + 1) - 1) = Wrapped(q.tail + i - 1)
  BY DEF Wrapped, Slot
<1>8. Wrapped(t + 1 - 1) = t
  BY DEF Wrapped, Slot
<1>9. r.buffer = b /\ r.tail = t /\ r.count = q.count + 1
  BY <1>1
<1> HIDE DEF r, b, t
<1>10. \A i \in 1 .. q.count + 1 : Items(r)[i] = b[Wrapped(t + i - 1)]
  BY <1>6, <1>9, ItemsAre
<1>11. ASSUME NEW i \in 1 .. q.count PROVE Items(r)[i + 1] = Items(q)[i]
  <2>1. Items(r)[i + 1] = b[Wrapped(t + (i + 1) - 1)]
    BY <1>10
  <2>2. Items(r)[i + 1] = q.buffer[Wrapped(q.tail + i - 1)]
    BY <2>1, <1>7 DEF b
  <2> QED BY <2>2, ItemsAre
<1>12. Items(r)[1] = m
  BY <1>10, <1>8, <1>3 DEF b
<1>13. /\ <<m>> \o Items(q) \in Seq(Msg \cup {None})
       /\ Len(<<m>> \o Items(q)) = q.count + 1
       /\ \A i \in 1 .. q.count : (<<m>> \o Items(q))[i + 1] = Items(q)[i]
       /\ (<<m>> \o Items(q))[1] = m
  BY ItemsAre, ConcatProperties
<1>14. Items(r) \in Seq(Msg \cup {None}) /\ Len(Items(r)) = q.count + 1
  BY <1>6, <1>9, ItemsAre
<1>15. ASSUME NEW i \in 1 .. q.count + 1
       PROVE  Items(r)[i] = (<<m>> \o Items(q))[i]
  <2>1. CASE i = 1
    BY <2>1, <1>12, <1>13
  <2>2. CASE i # 1
    <3>1. i - 1 \in 1 .. q.count /\ (i - 1) + 1 = i
      BY <2>2
    <3> QED BY <3>1, <1>11, <1>13
  <2> QED BY <2>1, <2>2
<1>16. Items(r) = <<m>> \o Items(q)
  BY <1>13, <1>14, <1>15, SameItems
<1> QED
  BY <1>6, <1>16 DEF r

\* A receive takes the first message, and a peek reads it.
LEMMA Pop ==
  ASSUME NEW q, Aligned(q), q.count > 0
  PROVE  /\ Aligned(queue_pop(q))
         /\ Items(queue_pop(q)) = Tail(Items(q))
         /\ queue_front(q) = Head(Items(q))
         /\ Items(q) # <<>>
<1> DEFINE t == (q.tail + 1) % Capacity
           r == queue_pop(q)
<1> USE RingFields, RingAssumption
<1>1. r = [buffer |-> q.buffer, head |-> q.head, tail |-> t, count |-> q.count - 1]
  BY OpsByField
<1>2. t = Wrapped(q.tail + 1) /\ t \in Slot
  BY WrapOnce DEF Slot
<1>3. q.head = Wrapped(t + (q.count - 1))
  BY <1>2 DEF Wrapped, Slot
<1>4. q.count - 1 \in 0 .. Capacity
  OBVIOUS
<1>5. Aligned(r)
  <2> HIDE DEF t, r
  <2> QED BY <1>1, <1>2, <1>3, <1>4, RingMade
<1>7. r.buffer = q.buffer /\ r.tail = t /\ r.count = q.count - 1
  BY <1>1
<1> HIDE DEF r, t
<1>6. \A i \in 1 .. q.count - 1 : Wrapped(t + i - 1) = Wrapped(q.tail + (i + 1) - 1)
  <2>1. /\ q.tail \in Nat /\ q.count \in Nat /\ Capacity \in Nat /\ q.tail < Capacity
        /\ t \in Nat /\ (t = q.tail + 1 \/ (t = 0 /\ q.tail + 1 = Capacity))
        /\ q.count <= Capacity
    BY <1>2 DEF Wrapped, Slot
  <2> HIDE RingFields, RingAssumption
  <2>2. CASE t = q.tail + 1
    BY <2>1, <2>2
  <2>3. CASE t = 0 /\ q.tail + 1 = Capacity
    BY <2>1, <2>3 DEF Wrapped
  <2> QED
    BY <2>1, <2>2, <2>3
<1>8. \A i \in 1 .. q.count - 1 : Items(r)[i] = Items(q)[i + 1]
  BY <1>5, <1>6, <1>7, ItemsAre
<1>9. Items(q) # <<>> /\ Len(Items(q)) = q.count /\ Items(q) \in Seq(Msg \cup {None})
  BY ItemsAre, EmptySeq
<1>10. /\ Tail(Items(q)) \in Seq(Msg \cup {None})
       /\ Len(Tail(Items(q))) = q.count - 1
       /\ \A i \in 1 .. q.count - 1 : Tail(Items(q))[i] = Items(q)[i + 1]
       /\ Head(Items(q)) = Items(q)[1]
  BY <1>9, HeadTailProperties
<1>11. Items(r) \in Seq(Msg \cup {None}) /\ Len(Items(r)) = q.count - 1
  BY <1>5, <1>7, ItemsAre
<1>12. Items(r) = Tail(Items(q))
  BY <1>8, <1>10, <1>11, SameItems
<1>13. queue_front(q) = Items(q)[1]
  <2>1. Wrapped(q.tail + 1 - 1) = q.tail
    BY DEF Wrapped, Slot
  <2> QED BY <2>1, ItemsAre DEF queue_front
<1> QED
  BY <1>5, <1>9, <1>10, <1>12, <1>13 DEF r

\* A ring all of whose fields are 0 is empty.
LEMMA EmptyRing ==
  ASSUME NEW q \in Ring, q.head = 0, q.tail = 0, q.count = 0
  PROVE  Aligned(q) /\ Items(q) = <<>>
<1>1. Aligned(q)
  <2>1. 0 \in 0 .. 2 * Capacity - 1 /\ Wrapped(0) = 0
    BY RingAssumption DEF Wrapped
  <2>2. 0 % Capacity = 0 /\ 0 + 0 = 0
    BY <2>1, WrapOnce
  <2> QED BY <2>2 DEF Aligned
<1> QED
  BY <1>1, ItemsAre, EmptySeq

\* The stores of queue_reset, field by field.
LEMMA StoreFields ==
  ASSUME NEW q \in Ring
  PROVE  /\ LET r == [q EXCEPT !.head = 0]
            IN  r \in Ring /\ r.head = 0 /\ r.tail = q.tail /\ r.count = q.count
         /\ LET r == [q EXCEPT !.tail = 0]
            IN  r \in Ring /\ r.head = q.head /\ r.tail = 0 /\ r.count = q.count
         /\ LET r == [q EXCEPT !.count = 0]
            IN  r \in Ring /\ r.head = q.head /\ r.tail = q.tail /\ r.count = 0
<1>1. 0 \in Slot /\ 0 \in 0 .. Capacity
  BY RingAssumption DEF Slot
<1> QED
  BY <1>1 DEF Ring

-----------------------------------------------------------------------------
(***************************************************************************)
(* The queue: whatever tasks, handlers and the kernel do, the ring changes *)
(* by one of the operations of the deque.  For a queue_reset in progress   *)
(* the invariant says which fields are 0 already: those that it has        *)
(* stored, as long as nothing cut into it, or a later reset made up for it.*)
(***************************************************************************)
CallType == QCall(QueueOp) \cup {NoCall}
QueueLabel == WaitLabel \cup {"reset_tail", "reset_count", "reset_send", "reset_recv"}

ResetsKnown ==
  \A u \in Storing : ~torn \/ u \notin overlapped
                       => queue.head = 0 /\ (spc[u] = "reset_count" => queue.tail = 0)

QueueInv == /\ RingAligned /\ ResetsKnown
            /\ call \in [Task -> CallType] /\ spc \in [Task -> QueueLabel]

DequeStep == Deque!DequeNext \/ UNCHANGED <<DequeItems, last, DequeMode>>

\* The step is none of a queue_reset's stores.
NoStore == \A u \in App : spc'[u] = spc[u] \/ (u \notin Storing /\ u \notin Storing')

LEMMA NoStoreKeeps ==
  ASSUME NoStore
  PROVE  Storing' = Storing /\ Stored = {} /\ \A u \in Storing : spc'[u] = spc[u]
<1>1. ASSUME NEW u \in App
      PROVE  /\ u \in Storing' <=> u \in Storing
             /\ u \in Storing => spc'[u] = spc[u]
             /\ u \notin Stored
  <2>1. CASE spc'[u] = spc[u]
    BY <2>1 DEF Storing, Stored
  <2>2. CASE u \notin Storing /\ u \notin Storing'
    BY <2>2 DEF Storing, Stored
  <2> QED BY <2>1, <2>2 DEF NoStore
<1>2. Storing \subseteq App /\ Storing' \subseteq App /\ Stored \subseteq App
  BY DEF Storing, Stored
<1> QED
  BY <1>1, <1>2

\* A step that leaves the ring alone.
LEMMA SameRing ==
  ASSUME RingAligned, ResetsKnown, NoStore, ResetHistory, queue' = queue
  PROVE  /\ RingAligned' /\ ResetsKnown'
         /\ UNCHANGED <<DequeItems, DequeMode, Storing, torn>>
<1>1. Storing' = Storing /\ torn' = torn /\ overlapped' = overlapped
      /\ \A u \in Storing : spc'[u] = spc[u]
  BY NoStoreKeeps DEF ResetHistory
<1>2. DequeMode' = DequeMode /\ DequeItems' = DequeItems
  BY <1>1 DEF DequeMode, DequeItems
<1>3. RingAligned'
  BY <1>1 DEF RingAligned
<1>4. ResetsKnown'
  BY <1>1 DEF ResetsKnown
<1> QED
  BY <1>1, <1>2, <1>3, <1>4

\* A call that gets its turn is one step of the deque.
LEMMA PerformStep ==
  ASSUME RingAligned, ResetsKnown, NoStore, ResetHistory,
         NEW c \in CallType, CanGo(queue, c.op), perform(c)
  PROVE  RingAligned' /\ ResetsKnown' /\ DequeStep
<1>0. queue \in Ring /\ Storing' = Storing /\ Stored = {}
  BY NoStoreKeeps DEF RingAligned
<1>1. CASE c.op = "peek" /\ last' = queue_front(queue) /\ UNCHANGED <<vars, queue>>
  <2>1. RingAligned' /\ ResetsKnown' /\ UNCHANGED <<DequeItems, DequeMode>>
    BY <1>1, SameRing
  <2>2. CASE DequeMode = "ok"
    <3>1. Aligned(queue) /\ DequeItems = Items(queue) /\ queue.count > 0
      BY <1>1, <2>2 DEF RingAligned, Aligned, DequeMode, DequeItems, CanGo, Sends
    <3> QED
      BY <1>1, <2>1, <2>2, <3>1, Pop
      DEF DequeStep, Deque!DequeNext, Deque!Ordinary, Deque!Peek
  <2>3. CASE DequeMode # "ok"
    BY <2>1, <2>3 DEF DequeStep, Deque!DequeNext, Deque!EarlyPeek
  <2> QED BY <2>1, <2>2, <2>3
<1>2. CASE c.op # "peek"
  <2>1. c.op = "send" \/ c.op = "front" => c.msg \in Msg /\ queue.count < Capacity
    BY DEF CallType, QCall, NoCall, CanGo, Sends
  <2>2. c.op = "receive" => queue.count > 0
    BY DEF CanGo, Sends
  <2>3. \/ /\ c.op = "send" /\ queue' = queue_push_back(queue, c.msg) /\ last' = last
        \/ /\ c.op = "front" /\ queue' = queue_push_front(queue, c.msg) /\ last' = last
        \/ /\ c.op = "receive" /\ queue' = queue_pop(queue) /\ last' = queue_front(queue)
    BY <1>2 DEF perform, put, take
  <2>4. queue' \in Ring /\ queue'.count # queue.count
    <3>1. queue.count \in Nat /\ \A n \in Nat : n + 1 # n /\ n - 1 # n
      BY <1>0, RingAssumption DEF Ring
    <3>2. CASE c.op \in {"send", "front"}
      BY <1>0, <2>1, <2>3, <3>1, <3>2, RingKept
    <3>3. CASE c.op = "receive"
      <4>1. queue_pop(queue) \in Ring /\ queue_pop(queue).count = queue.count - 1
        BY <1>0, <2>2, <3>3, RingKept
      <4> QED BY <2>3, <3>1, <3>3, <4>1
    <3> QED BY <2>3, <3>2, <3>3
  <2>5. /\ overlapped' = overlapped \cup Storing
        /\ torn' = (torn \/ Storing # {})
    BY <1>0, <2>4 DEF ResetHistory
  <2>6. CASE DequeMode = "ok"
    <3>1. /\ Aligned(queue) /\ ~torn /\ Storing = {} /\ DequeItems = Items(queue)
          /\ Len(Items(queue)) = queue.count
      BY <1>0, <2>6, ItemsAre DEF RingAligned, Aligned, DequeMode, DequeItems
    <3>2. ~torn' /\ Storing' = {} /\ DequeMode' = "ok" /\ DequeItems' = Items(queue')
      BY <1>0, <2>5, <3>1 DEF DequeMode, DequeItems
    <3>3. ResetsKnown' /\ (Aligned(queue') => RingAligned')
      BY <3>2 DEF ResetsKnown, RingAligned, Aligned
    <3>4. CASE c.op = "send"
      <4>1. Aligned(queue') /\ DequeItems' = Append(DequeItems, c.msg)
        BY <2>1, <2>3, <3>1, <3>2, <3>4, PushBack
      <4>2. Deque!SendBack(c.msg)
        BY <2>1, <2>3, <3>1, <3>4, <4>1 DEF Deque!SendBack, Deque!Room
      <4> QED
        BY <2>1, <2>6, <3>2, <3>3, <3>4, <4>1, <4>2
        DEF DequeStep, Deque!DequeNext, Deque!Ordinary
    <3>5. CASE c.op = "front"
      <4>1. Aligned(queue') /\ DequeItems' = <<c.msg>> \o DequeItems
        BY <2>1, <2>3, <3>1, <3>2, <3>5, PushFront
      <4>2. Deque!SendFront(c.msg)
        BY <2>1, <2>3, <3>1, <3>5, <4>1 DEF Deque!SendFront, Deque!Room
      <4> QED
        BY <2>1, <2>6, <3>2, <3>3, <3>5, <4>1, <4>2
        DEF DequeStep, Deque!DequeNext, Deque!Ordinary
    <3>6. CASE c.op = "receive"
      <4>1. /\ Aligned(queue') /\ DequeItems' = Tail(DequeItems)
            /\ last' = Head(DequeItems) /\ DequeItems # <<>>
        BY <2>2, <2>3, <3>1, <3>2, <3>6, Pop
      <4> QED
        BY <2>6, <3>2, <3>3, <4>1
        DEF DequeStep, Deque!DequeNext, Deque!Ordinary, Deque!Receive
    <3> QED
      BY <2>3, <3>4, <3>5, <3>6
  <2>7. CASE DequeMode # "ok"
    <3>1. torn' /\ DequeMode' = "undefined" /\ DequeItems' = DequeItems
      BY <2>5, <2>7 DEF DequeMode, DequeItems
    <3>2. RingAligned' /\ ResetsKnown'
      BY <1>0, <2>4, <2>5, <3>1 DEF RingAligned, ResetsKnown
    <3> QED
      BY <2>7, <3>1, <3>2 DEF DequeStep, Deque!DequeNext, Deque!EarlyCall
  <2> QED
    BY <2>6, <2>7
<1> QED
  BY <1>1, <1>2 DEF perform

\* The stores of queue_reset: the first empties the deque, and the last ends
\* the reset, unless a call cut into it.
LEMMA StoreStep ==
  ASSUME QueueInv, ResetHistory, NEW t \in App, queue_reset(t)
  PROVE  QueueInv' /\ DequeStep
<1>0. /\ queue \in Ring /\ call' = call /\ last' = last /\ t \in Task
      /\ spc \in [Task -> QueueLabel] /\ App \subseteq Task
  BY AppTask DEF queue_reset, reset_store, QueueInv, RingAligned
<1>1. ASSUME NEW l \in QueueLabel, spc' = [spc EXCEPT ![t] = l]
      PROVE  /\ spc' \in [Task -> QueueLabel] /\ call' \in [Task -> CallType]
             /\ spc'[t] = l /\ \A u \in App \ {t} : spc'[u] = spc[u]
  BY <1>0, <1>1 DEF QueueInv
<1>2. CASE reset_store(t, "out", [queue EXCEPT !.head = 0], "reset_tail")
  <2>1. /\ spc[t] = "out" /\ queue' = [queue EXCEPT !.head = 0]
        /\ spc' = [spc EXCEPT ![t] = "reset_tail"]
    BY <1>2 DEF reset_store, WaitAt, To
  <2>2. /\ spc' \in [Task -> QueueLabel] /\ call' \in [Task -> CallType]
        /\ spc'[t] = "reset_tail" /\ \A u \in App \ {t} : spc'[u] = spc[u]
    BY <1>1, <2>1 DEF QueueLabel
  <2>3. Storing' = Storing \cup {t} /\ Stored = {}
    BY <2>1, <2>2 DEF Storing, Stored
  <2>4. queue' \in Ring /\ queue'.head = 0 /\ queue'.tail = queue.tail
        /\ queue'.count = queue.count
    BY <1>0, <2>1, StoreFields
  <2>5. torn' = torn /\ overlapped' = overlapped
    BY <2>3, <2>4 DEF ResetHistory
  <2>6. RingAligned'
    BY <2>3, <2>4 DEF RingAligned
  <2>7. ResetsKnown'
    BY <2>2, <2>3, <2>4, <2>5 DEF QueueInv, ResetsKnown, Storing
  <2>8. DequeStep
    <3>1. DequeItems' = <<>> /\ DequeMode' = IF torn THEN "undefined" ELSE "reset"
      BY <2>3, <2>5 DEF DequeMode, DequeItems
    <3>2. CASE torn
      BY <1>0, <3>1, <3>2 DEF DequeStep, DequeMode, DequeItems
    <3>3. CASE ~torn
      BY <1>0, <3>1, <3>3 DEF DequeStep, Deque!DequeNext, Deque!Reset
    <3> QED BY <3>2, <3>3
  <2> QED
    BY <2>2, <2>6, <2>7, <2>8 DEF QueueInv
<1>3. CASE reset_store(t, "reset_tail", [queue EXCEPT !.tail = 0], "reset_count")
  <2>1. /\ spc[t] = "reset_tail" /\ queue' = [queue EXCEPT !.tail = 0]
        /\ spc' = [spc EXCEPT ![t] = "reset_count"]
    BY <1>3 DEF reset_store, WaitAt, To
  <2>2. /\ spc' \in [Task -> QueueLabel] /\ call' \in [Task -> CallType]
        /\ spc'[t] = "reset_count" /\ \A u \in App \ {t} : spc'[u] = spc[u]
    BY <1>1, <2>1 DEF QueueLabel
  <2>3. Storing' = Storing /\ Stored = {} /\ t \in Storing
    BY <2>1, <2>2 DEF Storing, Stored
  <2>4. queue' \in Ring /\ queue'.head = queue.head /\ queue'.tail = 0
        /\ queue'.count = queue.count
    BY <1>0, <2>1, StoreFields
  <2>5. torn' = torn /\ overlapped' = overlapped
    BY <2>3, <2>4 DEF ResetHistory
  <2>6. RingAligned'
    BY <2>3, <2>4 DEF RingAligned
  <2>7. ResetsKnown'
    BY <2>3, <2>4, <2>5 DEF QueueInv, ResetsKnown
  <2>8. DequeMode' = DequeMode /\ DequeItems' = DequeItems
    BY <2>3, <2>5 DEF DequeMode, DequeItems
  <2> QED
    BY <1>0, <2>2, <2>6, <2>7, <2>8 DEF QueueInv, DequeStep
<1>4. CASE reset_store(t, "reset_count", [queue EXCEPT !.count = 0], "reset_send")
  <2>1. /\ spc[t] = "reset_count" /\ queue' = [queue EXCEPT !.count = 0]
        /\ spc' = [spc EXCEPT ![t] = "reset_send"]
    BY <1>4 DEF reset_store, WaitAt, To
  <2>2. /\ spc' \in [Task -> QueueLabel] /\ call' \in [Task -> CallType]
        /\ spc'[t] = "reset_send" /\ \A u \in App \ {t} : spc'[u] = spc[u]
    BY <1>1, <2>1 DEF QueueLabel
  <2>3. Storing' = Storing \ {t} /\ Stored = {t} /\ t \in Storing
    BY <2>1, <2>2 DEF Storing, Stored
  <2>4. queue' \in Ring /\ queue'.head = queue.head /\ queue'.tail = queue.tail
        /\ queue'.count = 0
    BY <1>0, <2>1, StoreFields
  <2>5. torn' = (torn /\ t \in overlapped) /\ overlapped' = overlapped \ {t}
    BY <2>3 DEF ResetHistory
  <2>6. CASE ~torn \/ t \notin overlapped
    <3>1. queue'.head = 0 /\ queue'.tail = 0 /\ ~torn'
      BY <2>1, <2>3, <2>4, <2>5, <2>6 DEF QueueInv, ResetsKnown
    <3>2. Aligned(queue') /\ Items(queue') = <<>>
      BY <2>4, <3>1, EmptyRing
    <3>3. RingAligned' /\ ResetsKnown'
      BY <3>1, <3>2 DEF Aligned, RingAligned, ResetsKnown
    <3>4. DequeItems' = <<>> /\ DequeMode' \in {"ok", "reset"}
      BY <3>1, <3>2 DEF DequeMode, DequeItems
    <3> QED
      BY <1>0, <2>2, <3>3, <3>4 DEF QueueInv, DequeStep, Deque!DequeNext, Deque!Reset
  <2>7. CASE torn /\ t \in overlapped
    <3>1. torn' /\ \A u \in Storing' : u # t /\ spc'[u] = spc[u]
      BY <2>2, <2>3, <2>5, <2>7 DEF Storing
    <3>2. RingAligned'
      BY <2>4, <3>1 DEF RingAligned
    <3>3. ResetsKnown'
      BY <2>3, <2>4, <2>5, <3>1 DEF QueueInv, ResetsKnown
    <3>4. DequeMode' = DequeMode /\ DequeItems' = DequeItems
      BY <2>7, <3>1 DEF DequeMode, DequeItems
    <3> QED
      BY <1>0, <2>2, <3>2, <3>3, <3>4 DEF QueueInv, DequeStep
  <2> QED
    BY <2>6, <2>7
<1> QED
  BY <1>2, <1>3, <1>4 DEF queue_reset

\* Every step of the system keeps the ring aligned and is a step of the deque.
LEMMA QueueStep ==
  ASSUME QueueInv, [QueueNext]_allVars
  PROVE  QueueInv' /\ DequeStep
<1>0. RingAligned /\ ResetsKnown /\ spc \in [Task -> QueueLabel] /\ App \subseteq Task
      /\ call \in [Task -> CallType]
  BY AppTask DEF QueueInv
<1>1. ASSUME NEW t \in App, NEW l \in {"out", "block", "woken", "result", "reset_recv"},
             spc[t] \notin {"reset_tail", "reset_count"}, spc' = [spc EXCEPT ![t] = l]
      PROVE  NoStore /\ spc' \in [Task -> QueueLabel]
  <2>1. spc'[t] = l /\ \A u \in App \ {t} : spc'[u] = spc[u]
    BY <1>0, <1>1
  <2>2. spc' \in [Task -> QueueLabel]
    BY <1>0, <1>1 DEF QueueLabel, WaitLabel
  <2> QED BY <1>1, <2>1, <2>2 DEF NoStore, Storing
<1>2. ASSUME ResetHistory, UNCHANGED <<queue, last>>, NoStore,
             spc' \in [Task -> QueueLabel], call' \in [Task -> CallType]
      PROVE  QueueInv' /\ DequeStep
  BY <1>0, <1>2, SameRing DEF QueueInv, DequeStep
<1>3. ASSUME ResetHistory, NEW t \in App, NEW c \in CallType, NEW n, attempt(t, c, n),
             spc[t] \in {"out", "result"}
      PROVE  QueueInv' /\ DequeStep
  <2>1. call' \in [Task -> CallType]
    BY <1>0, <1>3 DEF attempt, CallType
  <2>2. NoStore /\ spc' \in [Task -> QueueLabel]
    <3>1. PICK l \in {"out", "block"} : spc' = [spc EXCEPT ![t] = l]
      BY <1>3 DEF attempt, GiveUpOr, Leave, To
    <3> QED BY <1>1, <1>3, <3>1
  <2>3. CASE CanGo(queue, c.op) /\ perform(c)
    BY <1>0, <1>3, <2>1, <2>2, <2>3, PerformStep DEF QueueInv
  <2>4. CASE UNCHANGED <<vars, queue, last>>
    BY <1>2, <1>3, <2>1, <2>2, <2>4
  <2> QED
    BY <1>3, <2>3, <2>4 DEF attempt
<1>4. ASSUME ResetHistory, NEW t \in App, QueueCall(t)
      PROVE  QueueInv' /\ DequeStep
  <2>1. CASE queue_wait(t)
    <3>1. PICK l \in {"woken", "result"} :
             /\ spc' = [spc EXCEPT ![t] = l] /\ spc[t] \in {"block", "woken"}
             /\ UNCHANGED <<queue, call, last>>
      BY <2>1 DEF queue_wait, block_task, block_task_yield, WaitAt, To
    <3> QED BY <1>0, <1>1, <1>2, <1>4, <3>1
  <2>2. CASE queue_result(t)
    <3>0. spc[t] = "result"
      BY <2>2 DEF queue_result, WaitEnds, WaitAt
    <3>1. CASE /\ Leave(t) /\ call' = [call EXCEPT ![t] = NoCall]
               /\ UNCHANGED <<vars, queue, last>>
      <4>1. call' \in [Task -> CallType]
        BY <1>0, <3>1 DEF CallType
      <4>2. NoStore /\ spc' \in [Task -> QueueLabel]
        BY <1>1, <3>0, <3>1 DEF Leave, To
      <4> QED BY <1>2, <1>4, <3>1, <4>1, <4>2
    <3>2. CASE attempt(t, call[t], stim[t])
      <4>1. call[t] \in CallType
        BY <1>0
      <4> QED BY <1>3, <1>4, <3>0, <3>2, <4>1
    <3> QED BY <2>2, <3>1, <3>2 DEF queue_result
  <2>3. CASE queue_reset(t)
    BY <1>4, <2>3, StoreStep
  <2>4. CASE \/ reset_wake(t, "reset_send", "QUEUE_SEND", "reset_recv")
             \/ reset_wake(t, "reset_recv", "QUEUE_RECV", "out")
    <3>1. PICK l \in {"reset_recv", "out"} :
             /\ spc' = [spc EXCEPT ![t] = l] /\ spc[t] \in {"reset_send", "reset_recv"}
             /\ UNCHANGED <<queue, call, last>>
      BY <2>4 DEF reset_wake, WaitAt, To
    <3> QED BY <1>0, <1>1, <1>2, <1>4, <3>1
  <2>5. ASSUME NEW c \in QCall(QueueCalls), NEW n \in Timeouts, queue_call(t, c, n)
        PROVE  QueueInv' /\ DequeStep
    <3>1. c \in CallType
      BY QueueAssumption DEF CallType, QCall
    <3>2. attempt(t, c, n) /\ spc[t] = "out"
      BY <2>5 DEF queue_call, WaitAt
    <3> QED BY <1>3, <1>4, <3>1, <3>2
  <2> QED
    BY <1>4, <2>1, <2>2, <2>3, <2>4, <2>5 DEF QueueCall
<1>5. ASSUME ResetHistory, NEW c \in QCall(QueueOp), queue_isr(c)
      PROVE  QueueInv' /\ DequeStep
  <2>1. /\ CanGo(queue, c.op) /\ perform(c) /\ call' = call /\ c \in CallType
        /\ spc' = spc
    BY <1>5 DEF queue_isr, waitVars, CallType
  <2>2. NoStore
    BY <2>1 DEF NoStore
  <2> QED
    BY <1>0, <1>5, <2>1, <2>2, PerformStep DEF QueueInv
<1>6. ASSUME ResetHistory, UNCHANGED <<queue, call, last, spc>>
      PROVE  QueueInv' /\ DequeStep
  <2>1. NoStore
    BY <1>6 DEF NoStore
  <2> QED BY <1>0, <1>2, <1>6, <2>1
<1>7. CASE QueueNext
  <2>1. ResetHistory
    BY <1>7 DEF QueueNext
  <2>2. CASE (KernelStep \/ WakeLoop) /\ UNCHANGED <<queue, call, last>>
    BY <1>6, <2>1, <2>2 DEF KernelStep, WakeLoop, waitVars
  <2>3. CASE \E t \in App : QueueCall(t)
    BY <1>4, <2>1, <2>3
  <2>4. CASE \E c \in QCall(QueueOp) : queue_isr(c)
    BY <1>5, <2>1, <2>4
  <2> QED
    BY <1>7, <2>2, <2>3, <2>4 DEF QueueNext
<1>8. CASE UNCHANGED allVars
  <2>1. UNCHANGED <<queue, call, last, spc, torn, overlapped>>
    BY <1>8 DEF allVars, queueVars, waitVars
  <2>2. Storing' = Storing
    BY <2>1 DEF Storing
  <2>3. RingAligned' /\ ResetsKnown' /\ UNCHANGED <<DequeItems, DequeMode>>
    BY <1>0, <2>1, <2>2 DEF RingAligned, ResetsKnown, DequeItems, DequeMode
  <2> QED
    BY <1>0, <2>1, <2>3 DEF QueueInv, DequeStep
<1> QED
  BY <1>7, <1>8

LEMMA QueueInitial ==
  ASSUME QueueInit
  PROVE  QueueInv /\ Deque!DequeInit
<1>1. queue = queue_init /\ last = None /\ torn = FALSE /\ spc = [t \in Task |-> "out"]
  BY DEF QueueInit, WaitInit
<1>2. Storing = {}
  BY <1>1, AppTask DEF Storing
<1>3. queue \in Ring /\ queue.head = 0 /\ queue.tail = 0 /\ queue.count = 0
  BY <1>1, RingAssumption DEF queue_init, Ring, Slot
<1>4. Aligned(queue) /\ Items(queue) = <<>>
  BY <1>3, EmptyRing
<1>5. RingAligned /\ ResetsKnown
  BY <1>2, <1>4 DEF Aligned, RingAligned, ResetsKnown
<1>6. call \in [Task -> CallType] /\ spc \in [Task -> QueueLabel]
  BY <1>1 DEF QueueInit, CallType, QueueLabel, WaitLabel
<1>7. DequeMode = "ok" /\ DequeItems = <<>>
  BY <1>1, <1>2, <1>4 DEF DequeMode, DequeItems
<1> QED
  BY <1>1, <1>5, <1>6, <1>7 DEF QueueInv, Deque!DequeInit

LEMMA QueueInvariant == QueueSpec => []QueueInv
<1>1. QueueInit => QueueInv
  BY QueueInitial
<1>2. QueueInv /\ [QueueNext]_allVars => QueueInv'
  BY QueueStep
<1> QED
  BY <1>1, <1>2, PTL DEF QueueSpec

\* The write index of the ring is where the read index and the count say it is
\* (kernel/sync/queue.c), for every Capacity, except between the three stores of
\* queue_reset, and after a reset into which a send or receive cut, until one
\* has run undivided.  In these states too the indices stay within the buffer
\* and the count within Capacity.
THEOREM RingStaysAligned == QueueSpec => []RingAligned
<1>1. QueueInv => RingAligned
  BY DEF QueueInv
<1> QED
  BY <1>1, QueueInvariant, PTL

\* The queue with its waiting senders and receivers, time-outs and interrupt
\* handlers implements the bounded deque of queue.h: no message is lost,
\* duplicated, reordered or overwritten.  The three stores of queue_reset are
\* steps of their own: from the first one the deque is empty, and a call that
\* cuts into them makes it undefined until a reset has run undivided.
THEOREM QueueIsDeque == QueueSpec => RefinesDeque
<1>1. QueueInit => Deque!DequeInit
  BY QueueInitial
<1>2. QueueInv /\ [QueueNext]_allVars => [Deque!DequeNext]_(Deque!dequeVars)
  BY QueueStep DEF DequeStep, Deque!dequeVars
<1> QED
  BY <1>1, <1>2, QueueInvariant, PTL DEF QueueSpec, RefinesDeque, Deque!DequeSpec
-----------------------------------------------------------------------------
(***************************************************************************)
(* Waiters.  A send, or a receive, makes room or data for one task and     *)
(* wakes at most one, so NoForgottenWaiter is an argument about numbers:   *)
(* while a task waits beside room (or data), at least as many tasks of its *)
(* kind are on their way as there are free slots (or messages).  The       *)
(* exceptions are the missed ones, and those that queue_reset is about to  *)
(* wake, or is waking.                                                     *)
(***************************************************************************)
Kinds == {"QUEUE_SEND", "QUEUE_RECV"}
Kind(t) == Reason(call[t].op)
Left(K) == IF K = "QUEUE_SEND" THEN Capacity - queue.count ELSE queue.count
OnWay(K) == {u \in App : OnItsWay(u) /\ Kind(u) = K}

Resetting == \E u \in App : spc[u] = "reset_send"
Coming(t) == /\ scan.job = "all" /\ scan.reason = Kind(t) /\ scan.object = Queue
             /\ \E i \in DOMAIN scan.rest : scan.rest[i] = t

Served(t) == \/ t \in missed \/ Coming(t)
             \/ Kind(t) = "QUEUE_SEND" /\ Resetting
             \/ Cardinality(OnWay(Kind(t))) >= Left(Kind(t))

\* What the labels say about the call in progress and about the TCB.
InLoop == {"block", "woken", "result"}
CallOK(y) ==
  /\ IF spc[y] \in InLoop THEN y \in App /\ call[y] \in QCall(QueueOp)
                          ELSE call[y] = NoCall
  /\ sched.reason[y] \in Kinds => spc[y] = "woken" /\ sched.reason[y] = Kind(y)
  /\ spc[y] # "out" /\ sched.state[y] = "BLOCKED"
        => spc[y] = "woken" /\ WaitsFor(sched, y, Kind(y), Queue)
  /\ spc[y] # "out" => pc[y] = "run" /\ kstate = "RUNNING"

LoopInv == /\ RuleInv /\ QueueInv
           /\ spc \in [Task -> QueueLabel] /\ stim \in [Task -> Tick]
           /\ \A y \in Task : CallOK(y)

WaiterInv == LoopInv /\ \A t \in App : Needless(t) => Served(t)

LEMMA LoopConstants ==
  /\ Queue \in Object /\ Kinds \subseteq BlockReason /\ {"OK", "STATE"} \subseteq Result
  /\ 0 \in Tick /\ Timeouts \subseteq Tick /\ App \subseteq Task /\ NULL \notin Task
  /\ \A op : Reason(op) \in Kinds
  /\ \A K \in Kinds : K \notin {"NONE", "DELAY"}
BY QueueAssumption, WaitAssumption, ConstantsAssumption, AppTask
DEF Kinds, BlockReason, Result, Tick, Reason, Task

LEMMA CallOps ==
  ASSUME NEW c
  PROVE  /\ c \in QCall(QueueOp) => c.op \in QueueOp /\ c \in CallType
         /\ c = NoCall => c.op \notin QueueOp
BY DEF QCall, QueueOp, NoCall, CallType

\* Counting.
LEMMA NoFewer ==
  ASSUME IsFiniteSet(App), NEW S, NEW T, S \subseteq T, T \subseteq App
  PROVE  /\ Cardinality(S) \in Nat /\ Cardinality(T) \in Nat
         /\ Cardinality(S) <= Cardinality(T)
<1>1. IsFiniteSet(T)
  BY FS_Subset
<1>2. IsFiniteSet(S) /\ Cardinality(S) <= Cardinality(T)
  BY <1>1, FS_Subset
<1> QED
  BY <1>1, <1>2, FS_CardinalityType

LEMMA OneFewer ==
  ASSUME IsFiniteSet(App), NEW S, NEW T, S \subseteq App, T \subseteq App,
         NEW x, S \ {x} \subseteq T
  PROVE  Cardinality(S) \in Nat /\ Cardinality(T) \in Nat
         /\ Cardinality(S) <= Cardinality(T) + 1
<1>1. IsFiniteSet(S) /\ Cardinality(S) \in Nat
  BY FS_Subset, FS_CardinalityType
<1>2. Cardinality(S \ {x}) <= Cardinality(T) /\ Cardinality(T) \in Nat
  BY NoFewer
<1>3. Cardinality(S \ {x}) = IF x \in S THEN Cardinality(S) - 1 ELSE Cardinality(S)
  BY <1>1, FS_RemoveElement
<1> QED
  BY <1>1, <1>2, <1>3

LEMMA OneMore ==
  ASSUME IsFiniteSet(App), NEW S, NEW T, S \subseteq T, T \subseteq App,
         NEW x \in T, x \notin S
  PROVE  Cardinality(S) \in Nat /\ Cardinality(T) \in Nat
         /\ Cardinality(S) + 1 <= Cardinality(T)
<1>1. IsFiniteSet(S) /\ Cardinality(S) \in Nat
  BY FS_Subset, FS_CardinalityType
<1>2. Cardinality(S \cup {x}) <= Cardinality(T) /\ Cardinality(T) \in Nat
  BY NoFewer
<1>3. Cardinality(S \cup {x}) = Cardinality(S) + 1
  BY <1>1, FS_AddElement
<1> QED
  BY <1>1, <1>2, <1>3

\* A task that takes no part in a step.
Aside(y) ==
  /\ spc'[y] = spc[y] /\ call'[y] = call[y]
  /\ spc[y] # "out" => Spared(sched', sched, y) /\ pc'[y] = "run" /\ kstate' = "RUNNING"
  /\ spc[y] = "out" => sched'.reason[y] \notin Kinds

LEMMA AsideKeeps ==
  ASSUME LoopInv, RuleInv', NEW y \in Task, Aside(y)
  PROVE  /\ CallOK(y)'
         /\ OnItsWay(y) => OnItsWay(y)'
         /\ Kind(y)' = Kind(y)
<1>1. CallOK(y) /\ Kind(y)' = Kind(y)
  BY DEF LoopInv, Aside, Kind
<1>2. CASE spc[y] = "out"
  BY <1>1, <1>2 DEF Aside, CallOK, OnItsWay, InLoop, QCall, NoCall
<1>3. CASE spc[y] # "out"
  <2>1. WaitersBlocked(sched)'
    BY <1>3 DEF Aside, RuleInv, Ruled
  <2>2. sched'.reason[y] \in Kinds => sched'.state[y] = "BLOCKED"
    BY <2>1, LoopConstants DEF WaitersBlocked
  <2>3. Spared(sched', sched, y) /\ spc'[y] = spc[y] /\ call'[y] = call[y]
        /\ pc'[y] = "run" /\ kstate' = "RUNNING"
    BY <1>3 DEF Aside
  <2>4. CallOK(y)'
    BY <1>1, <1>3, <2>2, <2>3 DEF Spared, CallOK, WaitsFor
  <2>5. OnItsWay(y) => OnItsWay(y)'
    BY <2>3 DEF OnItsWay, Spared
  <2> QED
    BY <1>1, <2>4, <2>5
<1> QED
  BY <1>2, <1>3

\* A task that waits beside room or data after a step that it took no part in
\* waited before.
LEMMA WaitedBefore ==
  ASSUME LoopInv, QueueInv', NEW t \in App, Aside(t), Needless(t)'
  PROVE  /\ spc[t] = "woken" /\ call[t].op \in QueueOp /\ sched.state[t] = "BLOCKED"
         /\ WaitsFor(sched, t, Kind(t), Queue) /\ Kind(t)' = Kind(t)
         /\ Left(Kind(t))' > 0
         /\ Left(Kind(t)) > 0 => Needless(t)
<1>1. t \in Task /\ CallOK(t) /\ QueueInv
  BY LoopConstants DEF LoopInv
<1>2. call[t].op \in QueueOp /\ sched'.state[t] = "BLOCKED" /\ Kind(t)' = Kind(t)
  BY DEF Needless, Aside, Kind
<1>3. spc[t] # "out"
  BY <1>1, <1>2, CallOps DEF CallOK, InLoop
<1>4. sched.state[t] = "BLOCKED"
  BY <1>2, <1>3 DEF Aside, Spared
<1>5. queue.count \in Nat /\ queue'.count \in Nat /\ Capacity \in Nat
  BY <1>1, RingAssumption DEF QueueInv, RingAligned, Ring
<1>6. Left(Kind(t)) > 0 => CanGo(queue, call[t].op)
  BY <1>5 DEF Left, Kind, Reason, CanGo
<1>7. CanGo(queue', call[t].op)
  BY DEF Needless, Aside
<1>8. Left(Kind(t))' > 0
  BY <1>2, <1>5, <1>7 DEF Left, Kind, Reason, CanGo
<1> QED
  BY <1>1, <1>2, <1>3, <1>4, <1>6, <1>8 DEF CallOK, Needless

(***************************************************************************)
(* The two kinds of step.  A is the task that takes the step, if it is     *)
(* one.  In the first kind the number of messages stays the same.          *)
(***************************************************************************)
MissedNext == missed' = {t \in App : Needless(t)' /\ (t \in missed \/ MissesWakeUp(t))}

LEMMA QuietServes ==
  ASSUME WaiterInv, IsFiniteSet(App), LoopInv', MissedNext,
         NEW A \in SUBSET App, \A y \in Task \ A : Aside(y),
         \A y \in A : Needless(y)' => y \in missed',
         queue'.count = queue.count,
         \A K \in Kinds : Left(K) > 0 => OnWay(K) \cap A \subseteq OnWay(K)',
         Resetting => Resetting',
         \A t \in App : Coming(t) /\ Needless(t)' => Coming(t)'
  PROVE  WaiterInv'
<1> SUFFICES ASSUME NEW t \in App, Needless(t)' PROVE Served(t)'
  BY DEF WaiterInv
<1>1. CASE t \in A
  BY <1>1 DEF Served
<1>2. CASE t \notin A
  <2>1. Aside(t) /\ LoopInv /\ QueueInv' /\ RuleInv'
    BY <1>2, LoopConstants DEF WaiterInv, LoopInv
  <2>2. Kind(t)' = Kind(t) /\ Left(Kind(t))' > 0 /\ (Left(Kind(t)) > 0 => Needless(t))
    BY <2>1, WaitedBefore
  <2>3. PICK K \in Kinds : K = Kind(t)
    BY LoopConstants DEF Kind
  <2>4. Left(K)' = Left(K)
    BY DEF Left
  <2>5. Left(K) > 0 /\ Served(t)
    BY <2>2, <2>3, <2>4 DEF WaiterInv
  <2>6. OnWay(K) \subseteq OnWay(K)'
    <3>1. ASSUME NEW u \in App \ A, OnItsWay(u), Kind(u) = K
          PROVE  OnItsWay(u)' /\ Kind(u)' = K
      BY <2>1, <3>1, AsideKeeps, LoopConstants
    <3> QED
      BY <2>5, <3>1 DEF OnWay
  <2>7. Cardinality(OnWay(K)) <= Cardinality(OnWay(K)')
        /\ Cardinality(OnWay(K)) \in Nat /\ Cardinality(OnWay(K)') \in Nat
    BY <2>6, NoFewer DEF OnWay
  <2>8. t \in missed => t \in missed'
    BY DEF MissedNext
  <2>9. Left(K) \in Int
    BY <2>1, RingAssumption DEF LoopInv, QueueInv, RingAligned, Ring, Left
  <2>10. CASE Cardinality(OnWay(K)) >= Left(K)
    <3>1. Cardinality(OnWay(K)') >= Left(K)'
      BY <2>4, <2>7, <2>9, <2>10
    <3> QED
      BY <2>2, <2>3, <3>1 DEF Served
  <2>11. CASE ~(Cardinality(OnWay(K)) >= Left(K))
    BY <2>2, <2>3, <2>5, <2>8, <2>11 DEF Served
  <2> QED
    BY <2>10, <2>11
<1> QED
  BY <1>1, <1>2

\* In the second kind a message, or a free slot, is used up by A and another
\* one is made for a task of the other kind, G, and one of these is woken.
LEMMA HandOverServes ==
  ASSUME WaiterInv, IsFiniteSet(App), LoopInv', MissedNext, scan.job = "none",
         NEW A \in SUBSET App, NEW a, A \subseteq {a}, \A y \in Task \ A : Aside(y),
         \A y \in A : ~Needless(y)',
         NEW G \in Kinds, NEW L \in Kinds, G # L, OnWay(G) \cap A = {},
         Left(G)' = Left(G) + 1, Left(L)' = Left(L) - 1,
         Waiters(sched, G, Queue) # {} => \E x \in OnWay(G)' : x \notin OnWay(G),
         Resetting => Resetting'
  PROVE  WaiterInv'
<1> SUFFICES ASSUME NEW t \in App, Needless(t)' PROVE Served(t)'
  BY DEF WaiterInv
<1>1. t \notin A /\ Aside(t) /\ LoopInv /\ QueueInv' /\ RuleInv' /\ t \in Task
  BY LoopConstants DEF WaiterInv, LoopInv
<1>2. /\ Kind(t)' = Kind(t) /\ Left(Kind(t))' > 0 /\ (Left(Kind(t)) > 0 => Needless(t))
      /\ sched.state[t] = "BLOCKED" /\ WaitsFor(sched, t, Kind(t), Queue)
      /\ spc[t] = "woken"
  BY <1>1, WaitedBefore
<1>3. PICK K \in Kinds : K = Kind(t)
  BY LoopConstants DEF Kind
<1>4. /\ \A H \in Kinds : OnWay(H) \ A \subseteq OnWay(H)'
      /\ \A H : OnWay(H) \subseteq App /\ OnWay(H)' \subseteq App
  <2>1. ASSUME NEW u \in App \ A, OnItsWay(u)
        PROVE  OnItsWay(u)' /\ Kind(u)' = Kind(u)
    BY <1>1, <2>1, AsideKeeps, LoopConstants
  <2> QED
    BY <2>1 DEF OnWay
<1>5. t \in missed => t \in missed'
  BY DEF MissedNext
<1>6. Left(K) \in Nat
  BY <1>1, RingAssumption DEF LoopInv, QueueInv, RingAligned, Ring, Left
<1>7. Needless(t) => \/ t \in missed \/ (K = "QUEUE_SEND" /\ Resetting)
                     \/ Cardinality(OnWay(K)) >= Left(K)
  BY <1>3 DEF WaiterInv, Served, Coming
<1>8. Cardinality(OnWay(K)') >= Left(K)' => Served(t)'
  BY <1>2, <1>3 DEF Served
<1>9. CASE K = L
  <2>1. Needless(t)
    BY <1>2, <1>3, <1>6, <1>9
  <2>2. CASE Cardinality(OnWay(K)) >= Left(K)
    <3>1. OnWay(K) \ {a} \subseteq OnWay(K)'
      BY <1>4
    <3>2. /\ Cardinality(OnWay(K)) \in Nat /\ Cardinality(OnWay(K)') \in Nat
          /\ Cardinality(OnWay(K)) <= Cardinality(OnWay(K)') + 1
      BY <1>4, <3>1, OneFewer
    <3> QED
      BY <1>6, <1>8, <1>9, <2>2, <3>2
  <2> QED
    BY <1>2, <1>3, <1>5, <1>7, <2>1, <2>2 DEF Served
<1>10. CASE K = G
  <2>1. Waiters(sched, G, Queue) # {}
    <3>1. On(sched, t, BlockedList)
      BY <1>1, <1>2 DEF LoopInv, CallOK, RuleInv, Ruled, Placed, StateTells
    <3> QED
      BY <1>2, <1>3, <1>10, <3>1 DEF On, Waiters
  <2>2. PICK x \in OnWay(G)' : x \notin OnWay(G)
    BY <2>1
  <2>3. OnWay(G) \subseteq OnWay(G)'
    BY <1>4
  <2>4. /\ Cardinality(OnWay(K)) \in Nat /\ Cardinality(OnWay(K)') \in Nat
        /\ Cardinality(OnWay(K)) + 1 <= Cardinality(OnWay(K)')
    BY <1>4, <1>10, <2>2, <2>3, OneMore
  <2>5. CASE Left(K) = 0 \/ Cardinality(OnWay(K)) >= Left(K)
    BY <1>6, <1>8, <1>10, <2>4, <2>5
  <2>6. CASE Left(K) # 0 /\ ~(Cardinality(OnWay(K)) >= Left(K))
    <3>1. Needless(t)
      BY <1>2, <1>3, <1>6, <2>6
    <3> QED
      BY <1>2, <1>3, <1>5, <1>7, <2>6, <3>1 DEF Served
  <2> QED
    BY <2>5, <2>6
<1> QED
  BY <1>3, <1>9, <1>10 DEF Kinds

\* A step that writes no TCB but those of A and leaves them ready or running.
LEMMA QuietAside ==
  ASSUME LoopInv, SameControl, NEW y \in Task, spc'[y] = spc[y], call'[y] = call[y],
         sched'.state[y] = sched.state[y], sched'.result[y] = sched.result[y],
         sched'.reason[y] = sched.reason[y], sched'.object[y] = sched.object[y]
  PROVE  Aside(y)
<1>1. CallOK(y)
  BY DEF LoopInv
<1> QED
  BY <1>1 DEF CallOK, Aside, Spared, SameControl

\* scheduler_unblock_one: one waiter more is on its way, if there is one.
LEMMA WakeOne ==
  ASSUME LoopInv, InterruptsOn, scan.job = "none", scan' = scan, SameControl,
         NEW G \in Kinds, sched' = scheduler_unblock_one(sched, G, Queue, "OK"),
         NEW A \in SUBSET App, \A y \in A : sched.reason[y] = "NONE",
         \A y \in Task \ A : spc'[y] = spc[y] /\ call'[y] = call[y]
  PROVE  /\ RuleInv' /\ \A y \in Task \ A : Aside(y)
         /\ \A y \in A : sched'.state[y] = sched.state[y] /\ sched'.reason[y] = "NONE"
         /\ Waiters(sched, G, Queue) # {} => \E x \in OnWay(G)' : x \notin OnWay(G)
<1>1. /\ RuleInv /\ Ruled(sched) /\ sched \in SchedState /\ Queue \in Object
      /\ G \in BlockReason /\ "OK" \in Result /\ App \subseteq Task /\ G # "NONE"
  BY LoopConstants DEF LoopInv, RuleInv, InterruptsOn, Ruled
<1>2. RuleInv'
  BY <1>1, SyncCallRule
<1>3. CASE Waiters(sched, G, Queue) = {} /\ sched' = sched
  BY <1>1, <1>2, <1>3, QuietAside
<1>4. ASSUME NEW x \in Task, On(sched, x, BlockedList), WaitsFor(sched, x, G, Queue),
             sched'.state = [sched.state EXCEPT ![x] = "READY"],
             WaitOver(sched', sched, x, "OK")
      PROVE  /\ \A y \in Task \ A : Aside(y)
             /\ \A y \in A : sched'.state[y] = sched.state[y] /\ sched'.reason[y] = "NONE"
             /\ x \in OnWay(G)' /\ x \notin OnWay(G)
  <2>1. sched.state[x] = "BLOCKED" /\ sched.reason[x] = G
    BY <1>1, <1>4 DEF Ruled, Placed, StateTells, WaitsFor
  <2>2. CallOK(x) /\ x \notin A
    BY <1>1, <2>1 DEF LoopInv
  <2>3. /\ spc[x] = "woken" /\ Kind(x) = G /\ x \in App
    BY <2>1, <2>2 DEF CallOK, InLoop
  <2>4. /\ sched'.state[x] = "READY" /\ sched'.reason[x] = "NONE"
        /\ sched'.result[x] = "OK"
        /\ \A y \in Task \ {x} : /\ sched'.state[y] = sched.state[y]
                                 /\ sched'.result[y] = sched.result[y]
                                 /\ sched'.reason[y] = sched.reason[y]
                                 /\ sched'.object[y] = sched.object[y]
    BY <1>1, <1>4 DEF WaitOver, SchedState
  <2>5. \A y \in Task \ (A \cup {x}) : Aside(y)
    BY <2>4, QuietAside
  <2>6. Aside(x)
    BY <2>1, <2>2, <2>3, <2>4 DEF Aside, Spared, CallOK, SameControl
  <2>7. x \in OnWay(G)' /\ x \notin OnWay(G)
    BY <2>1, <2>2, <2>3, <2>4 DEF OnWay, OnItsWay, Kind
  <2> QED
    BY <1>1, <2>2, <2>4, <2>5, <2>6, <2>7
<1> QED
  BY <1>1, <1>2, <1>3, <1>4, UnblockOneLemma

\* The task that takes a step of its own.
LEMMA Actor ==
  ASSUME LoopInv, NEW t \in App, At(t, "run")
  PROVE  /\ t \in Task /\ InterruptsOn /\ scan.job = "none" /\ ~sched.pendsv
         /\ sched.cur = t /\ sched.reason[t] = "NONE" /\ sched.state[t] # "BLOCKED"
         /\ kstate = "RUNNING" /\ pc[t] = "run" /\ sched \in SchedState /\ t # NULL
<1>1. RuleInv /\ kstate = "RUNNING" /\ pc[t] = "run" /\ t \in Task /\ t # NULL
  BY LoopConstants DEF LoopInv, At
<1>2. /\ InterruptsOn /\ scan.job = "none" /\ ~sched.pendsv
      /\ sched.cur = t /\ sched.reason[t] = "NONE"
  BY <1>1, Caller
<1> QED
  BY <1>1, <1>2 DEF RuleInv, Ruled, LeavesWhenBlocked

LEMMA ActorKept ==
  ASSUME LoopInv, NEW t \in App, At(t, "run"), SameControl,
         sched'.state[t] # "BLOCKED", sched'.reason[t] = "NONE",
         IF spc'[t] \in InLoop THEN call'[t] \in QCall(QueueOp) ELSE call'[t] = NoCall
  PROVE  CallOK(t)' /\ ~Needless(t)'
<1>1. kstate' = "RUNNING" /\ pc'[t] = "run" /\ "NONE" \notin Kinds
  BY Actor, LoopConstants DEF SameControl
<1> QED
  BY <1>1 DEF CallOK, Needless, WaitsFor

LEMMA LoopKept ==
  ASSUME LoopInv, RuleInv', QueueInv', NEW A \in SUBSET App,
         spc' \in [Task -> QueueLabel], stim' \in [Task -> Tick],
         \A y \in Task \ A : Aside(y), \A y \in A : CallOK(y)'
  PROVE  LoopInv'
<1>1. \A y \in Task : CallOK(y)'
  BY AsideKeeps
<1> QED
  BY <1>1 DEF LoopInv

(***************************************************************************)
(* The critical section in which a call succeeds, made by a task, A, that  *)
(* has just entered the loop or comes back to it woken, or by a handler.   *)
(***************************************************************************)
LEMMA PerformServes ==
  ASSUME WaiterInv, IsFiniteSet(App), MissedNext, QueueInv', InterruptsOn, Unmasked,
         spc' \in [Task -> QueueLabel], stim' \in [Task -> Tick],
         NEW c \in QCall(QueueOp), CanGo(queue, c.op), perform(c),
         NEW A \in SUBSET App, NEW a, A \subseteq {a},
         \A y \in Task \ A : spc'[y] = spc[y] /\ call'[y] = call[y],
         \A y \in A : /\ At(y, "run") /\ spc[y] \in {"out", "result"}
                      /\ spc[y] = "result" => call[y] = c /\ sched.result[y] = "OK"
                      /\ spc'[y] = "out" /\ call'[y] = NoCall
  PROVE  WaiterInv'
<1>0. /\ LoopInv /\ RuleInv /\ scan.job = "none" /\ sched \in SchedState
      /\ App \subseteq Task /\ queue \in Ring
      /\ queue.count \in 0 .. Capacity /\ Capacity \in Nat
  BY LoopConstants, RingAssumption
  DEF WaiterInv, LoopInv, RuleInv, Base, TypeOK, Unmasked, QueueInv, RingAligned, Ring
<1>1. \A y \in A : sched.reason[y] = "NONE" /\ sched.state[y] # "BLOCKED"
  BY <1>0, Actor
<1>2. Resetting => Resetting'
  <2>1. ASSUME NEW u \in App, spc[u] = "reset_send" PROVE spc'[u] = "reset_send"
    BY <1>0, <2>1
  <2> QED
    BY <2>1 DEF Resetting
<1>3. ASSUME SameControl, \A y \in A : sched'.state[y] = sched.state[y] /\
                                       sched'.reason[y] = "NONE"
      PROVE  \A y \in A : CallOK(y)' /\ ~Needless(y)'
  <2> SUFFICES ASSUME NEW y \in A PROVE CallOK(y)' /\ ~Needless(y)'
    OBVIOUS
  <2>1. spc'[y] \notin InLoop
    BY DEF InLoop
  <2> QED
    BY <1>0, <1>1, <1>3, <2>1, ActorKept
<1>4. ASSUME NEW G \in Kinds, NEW L \in Kinds, G # L, L = Reason(c.op),
             KernelIs(scheduler_unblock_one(sched, G, Queue, "OK")),
             Left(G)' = Left(G) + 1, Left(L)' = Left(L) - 1
      PROVE  WaiterInv'
  <2>1. /\ sched' = scheduler_unblock_one(sched, G, Queue, "OK")
        /\ scan' = scan /\ SameControl
    BY <1>4 DEF KernelIs, SameControl
  <2>2. /\ RuleInv' /\ \A y \in Task \ A : Aside(y)
        /\ \A y \in A : sched'.state[y] = sched.state[y] /\ sched'.reason[y] = "NONE"
        /\ Waiters(sched, G, Queue) # {} => \E x \in OnWay(G)' : x \notin OnWay(G)
    BY <1>0, <1>1, <2>1, WakeOne
  <2>3. \A y \in A : CallOK(y)' /\ ~Needless(y)'
    BY <1>3, <2>1, <2>2
  <2>4. LoopInv'
    BY <1>0, <2>2, <2>3, LoopKept
  <2>5. OnWay(G) \cap A = {}
    BY <1>4 DEF OnWay, OnItsWay, Kind
  <2> QED
    BY <1>0, <1>2, <1>4, <2>2, <2>3, <2>4, <2>5, HandOverServes
<1>5. CASE Sends(c.op)
  <2>1. c.op \in {"send", "front"} /\ Reason(c.op) = "QUEUE_SEND"
    BY <1>5 DEF Sends, Reason
  <2>2. /\ KernelIs(scheduler_unblock_one(sched, "QUEUE_RECV", Queue, "OK"))
        /\ \/ queue' = queue_push_back(queue, c.msg)
           \/ queue' = queue_push_front(queue, c.msg)
    BY <2>1 DEF perform, put
  <2>3. queue'.count = queue.count + 1
    <3>1. c.msg \in Msg /\ queue.count < Capacity
      BY <1>5, <2>1 DEF QCall, CanGo
    <3> QED BY <1>0, <2>2, <3>1, RingKept
  <2>4. /\ Left("QUEUE_RECV")' = Left("QUEUE_RECV") + 1
        /\ Left("QUEUE_SEND")' = Left("QUEUE_SEND") - 1
    BY <1>0, <2>3 DEF Left
  <2> QED
    BY <1>4, <2>1, <2>2, <2>4 DEF Kinds
<1>6. CASE c.op = "receive"
  <2>1. Reason(c.op) = "QUEUE_RECV"
    BY <1>6 DEF Sends, Reason
  <2>2. /\ KernelIs(scheduler_unblock_one(sched, "QUEUE_SEND", Queue, "OK"))
        /\ queue' = queue_pop(queue)
    BY <1>6 DEF perform, take
  <2>3. queue'.count = queue.count - 1
    <3>1. queue.count > 0
      BY <1>6 DEF CanGo, Sends
    <3> QED BY <1>0, <2>2, <3>1, RingKept
  <2>4. /\ Left("QUEUE_SEND")' = Left("QUEUE_SEND") + 1
        /\ Left("QUEUE_RECV")' = Left("QUEUE_RECV") - 1
    BY <1>0, <2>3 DEF Left
  <2> QED
    BY <1>4, <2>1, <2>2, <2>4 DEF Kinds
<1>7. CASE c.op = "peek"
  <2>1. UNCHANGED <<vars, queue>>
    BY <1>7 DEF perform
  <2>2. sched' = sched /\ scan' = scan /\ SameControl /\ queue' = queue
    BY <2>1 DEF vars, SameControl
  <2>3. RuleInv'
    BY <1>0, <2>2, SyncCallRule
  <2>4. \A y \in Task \ A : Aside(y)
    BY <1>0, <2>2, QuietAside
  <2>5. \A y \in A : CallOK(y)' /\ ~Needless(y)'
    BY <1>1, <1>3, <2>2
  <2>6. LoopInv'
    BY <1>0, <2>3, <2>4, <2>5, LoopKept
  <2>7. CASE \E y \in A : spc[y] = "result"
    <3>1. \A t \in App : MissesWakeUp(t)
      BY <1>7, <2>7 DEF MissesWakeUp, WaitEnds, WaitAt
    <3> QED
      BY <2>6, <3>1 DEF MissedNext, WaiterInv, Served
  <2>8. CASE \A y \in A : spc[y] = "out"
    <3>1. \A K \in Kinds : OnWay(K) \cap A = {}
      BY <2>8 DEF OnWay, OnItsWay
    <3>2. \A t \in App : ~Coming(t)
      BY <1>0 DEF Coming
    <3> QED
      BY <1>2, <2>2, <2>4, <2>5, <2>6, <3>1, <3>2, QuietServes
  <2> QED
    BY <2>7, <2>8
<1> QED
  BY <1>5, <1>6, <1>7, CallOps DEF QueueOp, Sends

\* A step of t, between two of its critical sections, that changes nothing but
\* t's place in its call, and does not take a needed task off its way.
LEMMA MoveServes ==
  ASSUME WaiterInv, IsFiniteSet(App), MissedNext, QueueInv', NEW t \in App, At(t, "run"),
         sched' = sched \/ sched' = scheduler_yield(sched), scan' = scan, SameControl,
         queue'.count = queue.count,
         spc' \in [Task -> QueueLabel], stim' \in [Task -> Tick],
         \A y \in Task \ {t} : spc'[y] = spc[y] /\ call'[y] = call[y],
         IF spc'[t] \in InLoop THEN call'[t] \in QCall(QueueOp) ELSE call'[t] = NoCall,
         spc[t] # "reset_send",
         OnItsWay(t) => \/ ~CanGo(queue, call[t].op)
                        \/ spc'[t] \in {"woken", "result"} /\ call'[t] = call[t]
  PROVE  WaiterInv'
<1>0. /\ LoopInv /\ RuleInv /\ t \in Task /\ InterruptsOn /\ scan.job = "none"
      /\ sched.reason[t] = "NONE" /\ sched.state[t] # "BLOCKED" /\ sched \in SchedState
  BY Actor DEF WaiterInv, LoopInv
<1>1. sched'.state = sched.state /\ SameWaits(sched', sched)
  BY <1>0, YieldLemma, KeepsWaits DEF SameWaits
<1>2. RuleInv'
  BY <1>0, SyncCallRule
<1>3. \A y \in Task \ {t} : Aside(y)
  BY <1>0, <1>1, QuietAside DEF SameWaits
<1>4. CallOK(t)' /\ ~Needless(t)'
  BY <1>0, <1>1, ActorKept DEF SameWaits
<1> PICK A \in SUBSET App : A = {t}
  OBVIOUS
<1>5. LoopInv' /\ \A y \in Task \ A : Aside(y)
  <2>1. (\A y \in Task \ A : Aside(y)) /\ \A y \in A : CallOK(y)'
    BY <1>3, <1>4
  <2> QED
    BY <1>0, <1>2, <2>1, LoopKept
<1>6. ASSUME NEW K \in Kinds, Left(K) > 0, t \in OnWay(K) PROVE t \in OnWay(K)'
  <2>1. OnItsWay(t) /\ Kind(t) = K
    BY <1>6 DEF OnWay
  <2>2. queue.count \in Nat /\ Capacity \in Nat
    BY <1>0, RingAssumption DEF LoopInv, QueueInv, RingAligned, Ring
  <2>3. CanGo(queue, call[t].op)
    BY <1>6, <2>1, <2>2 DEF Kind, Reason, Left, CanGo
  <2> QED
    BY <1>1, <2>1, <2>3 DEF OnWay, OnItsWay, Kind, SameWaits
<1>7. Resetting => Resetting'
  BY <1>0, LoopConstants DEF Resetting
<1>8. \A u \in App : Coming(u) /\ Needless(u)' => Coming(u)'
  BY <1>0 DEF Coming
<1>9. /\ \A y \in A : Needless(y)' => y \in missed'
      /\ \A K \in Kinds : Left(K) > 0 => OnWay(K) \cap A \subseteq OnWay(K)'
  BY <1>4, <1>6
<1> QED
  BY <1>5, <1>7, <1>8, <1>9, QuietServes

\* The critical section at the head of the loop.
LEMMA AttemptServes ==
  ASSUME WaiterInv, IsFiniteSet(App), MissedNext, QueueInv', NEW t \in App, At(t, "run"),
         NEW c \in QCall(QueueOp), NEW n \in Tick, attempt(t, c, n),
         \/ spc[t] = "out"
         \/ spc[t] = "result" /\ call[t] = c /\ sched.result[t] = "OK"
  PROVE  WaiterInv'
<1>0. /\ LoopInv /\ t \in Task /\ InterruptsOn /\ Unmasked /\ 0 \in Tick
      /\ spc \in [Task -> QueueLabel] /\ stim \in [Task -> Tick] /\ call \in [Task -> CallType]
  BY Actor, LoopConstants DEF WaiterInv, LoopInv, QueueInv, At, Runs
<1>1. CASE /\ CanGo(queue, c.op) /\ perform(c)
           /\ Leave(t) /\ call' = [call EXCEPT ![t] = NoCall]
  <2>1. /\ spc' = [spc EXCEPT ![t] = "out"] /\ stim' = [stim EXCEPT ![t] = 0]
        /\ call' = [call EXCEPT ![t] = NoCall]
    BY <1>1 DEF Leave, To
  <2>2. /\ spc' \in [Task -> QueueLabel] /\ stim' \in [Task -> Tick]
        /\ spc'[t] = "out" /\ call'[t] = NoCall
        /\ \A y \in Task \ {t} : spc'[y] = spc[y] /\ call'[y] = call[y]
    BY <1>0, <2>1 DEF QueueLabel, WaitLabel
  <2> PICK A \in SUBSET App : A = {t}
    OBVIOUS
  <2>3. /\ \A y \in A :
              /\ At(y, "run") /\ spc[y] \in {"out", "result"}
              /\ spc[y] = "result" => call[y] = c /\ sched.result[y] = "OK"
              /\ spc'[y] = "out" /\ call'[y] = NoCall
        /\ \A y \in Task \ A : spc'[y] = spc[y] /\ call'[y] = call[y]
        /\ A \subseteq {t}
    BY <2>2
  <2> QED
    BY <1>0, <1>1, <2>2, <2>3, PerformServes
<1>2. CASE /\ ~CanGo(queue, c.op) /\ GiveUpOr(t, n, "block")
           /\ call' = [call EXCEPT ![t] = IF n = 0 THEN NoCall ELSE c]
           /\ UNCHANGED <<vars, queue, last>>
  <2>1. PICK l \in {"out", "block"}, m \in Tick :
           /\ spc' = [spc EXCEPT ![t] = l] /\ stim' = [stim EXCEPT ![t] = m]
           /\ call' = [call EXCEPT ![t] = IF l = "out" THEN NoCall ELSE c]
    BY <1>0, <1>2 DEF GiveUpOr, Leave, To
  <2>2. /\ spc' \in [Task -> QueueLabel] /\ stim' \in [Task -> Tick]
        /\ spc'[t] = l /\ call'[t] = (IF l = "out" THEN NoCall ELSE c)
        /\ \A y \in Task \ {t} : spc'[y] = spc[y] /\ call'[y] = call[y]
    BY <1>0, <2>1 DEF QueueLabel, WaitLabel
  <2>3. IF spc'[t] \in InLoop THEN call'[t] \in QCall(QueueOp) ELSE call'[t] = NoCall
    BY <2>2 DEF InLoop
  <2>4. sched' = sched /\ scan' = scan /\ SameControl /\ queue' = queue
    BY <1>2 DEF vars, SameControl
  <2>5. OnItsWay(t) => ~CanGo(queue, call[t].op)
    BY <1>2 DEF OnItsWay
  <2> QED
    BY <2>2, <2>3, <2>4, <2>5, MoveServes
<1> QED
  BY <1>1, <1>2 DEF attempt

LEMMA WaitServes ==
  ASSUME WaiterInv, IsFiniteSet(App), MissedNext, QueueInv', NEW t \in App, queue_wait(t)
  PROVE  WaiterInv'
<1>0. /\ At(t, "run") /\ LoopInv /\ RuleInv /\ UNCHANGED <<queue, call, stim>>
      /\ scan' = scan /\ SameControl
  BY DEF queue_wait, block_task, block_task_yield, WaitAt, KernelIs, SameControl,
     WaiterInv, LoopInv
<1>1. /\ t \in Task /\ InterruptsOn /\ scan.job = "none" /\ ~sched.pendsv /\ sched.cur = t
      /\ sched \in SchedState /\ t # NULL /\ CallOK(t) /\ Kind(t) \in Kinds
      /\ spc \in [Task -> QueueLabel] /\ stim \in [Task -> Tick]
      /\ App \subseteq Task
  BY <1>0, Actor, LoopConstants DEF LoopInv, Kind
<1>2. CASE block_task(t, Reason(call[t].op), Queue)
  <2>1. /\ spc[t] = "block" /\ spc' = [spc EXCEPT ![t] = "woken"]
        /\ sched' = scheduler_block_task(sched, Kind(t), Queue, stim[t])
    BY <1>2 DEF block_task, WaitAt, To, KernelIs, Kind
  <2>2. stim[t] \in Tick /\ Queue \in Object /\ Kind(t) \in BlockReason
    BY <1>1, LoopConstants
  <2>3. RuleInv'
    BY <1>0, <1>1, <2>1, <2>2, SyncCallRule
  <2>4. /\ WaitBegun(sched', sched, t, Kind(t), Queue, stim[t])
        /\ sched'.state[t] = "BLOCKED"
        /\ \A y \in Task \ {t} : sched'.state[y] = sched.state[y]
    BY <1>1, <2>1, <2>2, BlockLemma, BlockWaits
  <2>5. /\ spc'[t] = "woken" /\ \A y \in Task \ {t} : spc'[y] = spc[y]
        /\ spc' \in [Task -> QueueLabel]
    BY <1>1, <2>1 DEF QueueLabel, WaitLabel
  <2>6. /\ sched'.reason[t] = Kind(t) /\ sched'.object[t] = Queue
        /\ \A y \in Task \ {t} : /\ sched'.result[y] = sched.result[y]
                                 /\ sched'.reason[y] = sched.reason[y]
                                 /\ sched'.object[y] = sched.object[y]
    BY <1>1, <2>4 DEF WaitBegun, SchedState
  <2>7. \A y \in Task \ {t} : Aside(y)
    BY <1>0, <2>4, <2>5, <2>6, QuietAside
  <2>8. CallOK(t)'
    BY <1>0, <1>1, <2>1, <2>5, <2>6 DEF CallOK, InLoop, Kind, WaitsFor, SameControl
  <2> PICK A \in SUBSET App : A = {t}
    OBVIOUS
  <2>9. LoopInv' /\ \A y \in Task \ A : Aside(y)
    <3>1. (\A y \in Task \ A : Aside(y)) /\ \A y \in A : CallOK(y)'
      BY <2>7, <2>8
    <3> QED
      BY <1>0, <1>1, <2>3, <2>5, <3>1, LoopKept
  <2>10. Needless(t)' => t \in missed'
    BY <2>1 DEF MissedNext, MissesWakeUp
  <2>11. \A K \in Kinds : t \notin OnWay(K)
    BY <2>1 DEF OnWay, OnItsWay
  <2>12. Resetting => Resetting'
    BY <1>1, <2>1, <2>5 DEF Resetting
  <2>13. \A u \in App : Coming(u) /\ Needless(u)' => Coming(u)'
    BY <1>1 DEF Coming
  <2>14. /\ \A y \in A : Needless(y)' => y \in missed'
         /\ \A K \in Kinds : Left(K) > 0 => OnWay(K) \cap A \subseteq OnWay(K)'
    BY <2>10, <2>11
  <2> QED
    BY <1>0, <2>9, <2>12, <2>13, <2>14, QuietServes
<1>3. CASE block_task_yield(t)
  <2>1. /\ spc[t] = "woken" /\ spc' = [spc EXCEPT ![t] = "result"]
        /\ sched' = scheduler_yield(sched)
    BY <1>3 DEF block_task_yield, WaitAt, To, KernelIs
  <2>2. /\ spc'[t] = "result" /\ \A y \in Task \ {t} : spc'[y] = spc[y]
        /\ spc' \in [Task -> QueueLabel]
    BY <1>1, <2>1 DEF QueueLabel, WaitLabel
  <2>3. call'[t] \in QCall(QueueOp) /\ spc'[t] \in InLoop
    BY <1>0, <1>1, <2>1, <2>2 DEF CallOK, InLoop
  <2> QED
    BY <1>0, <1>1, <2>1, <2>2, <2>3, MoveServes
<1> QED
  BY <1>2, <1>3 DEF queue_wait

LEMMA ResultServes ==
  ASSUME WaiterInv, IsFiniteSet(App), MissedNext, QueueInv', NEW t \in App, queue_result(t)
  PROVE  WaiterInv'
<1>0. At(t, "run") /\ LoopInv /\ spc[t] = "result"
  BY DEF queue_result, WaitEnds, WaitAt, WaiterInv
<1>1. /\ t \in Task /\ CallOK(t) /\ call \in [Task -> CallType] /\ 0 \in Tick
      /\ spc \in [Task -> QueueLabel] /\ stim \in [Task -> Tick]
  BY <1>0, Actor, LoopConstants DEF LoopInv, QueueInv
<1>2. CASE /\ WaitEnds(t, FALSE) /\ Leave(t) /\ call' = [call EXCEPT ![t] = NoCall]
           /\ UNCHANGED <<vars, queue, last>>
  <2>1. /\ spc' = [spc EXCEPT ![t] = "out"] /\ stim' = [stim EXCEPT ![t] = 0]
        /\ call' = [call EXCEPT ![t] = NoCall] /\ sched.result[t] # "OK"
    BY <1>2 DEF Leave, To, WaitEnds
  <2>2. /\ spc' \in [Task -> QueueLabel] /\ stim' \in [Task -> Tick]
        /\ spc'[t] = "out" /\ call'[t] = NoCall
        /\ \A y \in Task \ {t} : spc'[y] = spc[y] /\ call'[y] = call[y]
    BY <1>1, <2>1 DEF QueueLabel, WaitLabel
  <2>3. sched' = sched /\ scan' = scan /\ SameControl /\ queue' = queue
    BY <1>2 DEF vars, SameControl
  <2>4. ~OnItsWay(t) /\ spc'[t] \notin InLoop
    BY <2>1, <2>2 DEF OnItsWay, InLoop
  <2> QED
    BY <1>0, <2>2, <2>3, <2>4, MoveServes
<1>3. CASE WaitEnds(t, TRUE) /\ attempt(t, call[t], stim[t])
  <2>1. sched.result[t] = "OK" /\ call[t] \in QCall(QueueOp) /\ stim[t] \in Tick
    BY <1>0, <1>1, <1>3 DEF WaitEnds, CallOK, InLoop
  <2> QED
    BY <1>0, <1>3, <2>1, AttemptServes
<1> QED
  BY <1>2, <1>3 DEF queue_result

\* The first two stores of queue_reset leave the count alone.
LEMMA IndexServes ==
  ASSUME WaiterInv, IsFiniteSet(App), MissedNext, QueueInv', NEW t \in App,
         NEW l \in {"out", "reset_tail"}, NEW q, q.count = queue.count,
         NEW next \in {"reset_tail", "reset_count"}, reset_store(t, l, q, next)
  PROVE  WaiterInv'
<1>1. /\ At(t, "run") /\ LoopInv /\ spc[t] = l /\ queue'.count = queue.count
      /\ spc' = [spc EXCEPT ![t] = next] /\ UNCHANGED <<stim, call>>
      /\ sched' = sched /\ scan' = scan /\ SameControl
  BY DEF reset_store, WaitAt, To, vars, SameControl, WaiterInv
<1>2. /\ t \in Task /\ CallOK(t) /\ spc \in [Task -> QueueLabel] /\ stim \in [Task -> Tick]
  BY <1>1, Actor DEF LoopInv
<1>3. /\ spc'[t] = next /\ \A y \in Task \ {t} : spc'[y] = spc[y] /\ call'[y] = call[y]
      /\ spc' \in [Task -> QueueLabel] /\ stim' \in [Task -> Tick]
  BY <1>1, <1>2 DEF QueueLabel
<1>4. spc'[t] \notin InLoop /\ call'[t] = NoCall /\ ~OnItsWay(t)
  BY <1>1, <1>2, <1>3 DEF InLoop, CallOK, OnItsWay
<1> QED
  BY <1>1, <1>3, <1>4, MoveServes

\* The third one empties the queue, and the senders are about to be woken.
LEMMA ResetServes ==
  ASSUME WaiterInv, MissedNext, QueueInv', NEW t \in App,
         reset_store(t, "reset_count", [queue EXCEPT !.count = 0], "reset_send")
  PROVE  WaiterInv'
<1>0. /\ At(t, "run") /\ LoopInv /\ RuleInv /\ spc[t] = "reset_count"
      /\ queue' = [queue EXCEPT !.count = 0]
      /\ spc' = [spc EXCEPT ![t] = "reset_send"] /\ UNCHANGED <<stim, call>>
      /\ sched' = sched /\ scan' = scan /\ SameControl
  BY DEF reset_store, WaitAt, To, vars, SameControl, WaiterInv, LoopInv
<1>1. /\ t \in Task /\ InterruptsOn /\ scan.job = "none" /\ sched.reason[t] = "NONE"
      /\ sched.state[t] # "BLOCKED" /\ CallOK(t) /\ queue \in Ring
      /\ spc \in [Task -> QueueLabel] /\ stim \in [Task -> Tick]
  BY <1>0, Actor DEF LoopInv, QueueInv, RingAligned
<1>2. /\ spc'[t] = "reset_send" /\ \A y \in Task \ {t} : spc'[y] = spc[y]
      /\ spc' \in [Task -> QueueLabel]
  BY <1>0, <1>1 DEF QueueLabel
<1>3. RuleInv'
  BY <1>0, <1>1, SyncCallRule
<1>4. \A y \in Task \ {t} : Aside(y)
  BY <1>0, <1>2, QuietAside
<1>5. CallOK(t)' /\ ~Needless(t)'
  <2>1. spc'[t] \notin InLoop /\ call'[t] = NoCall
    BY <1>0, <1>1, <1>2 DEF InLoop, CallOK
  <2> QED
    BY <1>0, <1>1, <2>1, ActorKept
<1> PICK A \in SUBSET App : A = {t}
  OBVIOUS
<1>6. LoopInv'
  <2>1. (\A y \in Task \ A : Aside(y)) /\ \A y \in A : CallOK(y)'
    BY <1>4, <1>5
  <2> QED
    BY <1>0, <1>1, <1>2, <1>3, <2>1, LoopKept
<1>7. ASSUME NEW u \in App, Needless(u)' PROVE Served(u)'
  <2>1. u # t /\ u \in Task
    BY <1>5, <1>7, LoopConstants
  <2>2. Left(Kind(u))' > 0 /\ Kind(u)' = Kind(u) /\ Kind(u) \in Kinds
    BY <1>0, <1>4, <1>7, <2>1, WaitedBefore, LoopConstants DEF Kind
  <2>3. queue'.count = 0
    BY <1>0, <1>1, StoreFields
  <2>4. Kind(u)' = "QUEUE_SEND"
    BY <2>2, <2>3 DEF Left, Kinds
  <2> QED
    BY <1>2, <2>4 DEF Served, Resetting
<1> QED
  BY <1>6, <1>7 DEF WaiterInv

\* It enters a loop that has all tasks of one kind before it.
LEMMA ResetWakeServes ==
  ASSUME WaiterInv, IsFiniteSet(App), MissedNext, QueueInv', NEW t \in App,
         NEW K \in Kinds, NEW label, NEW next,
         \/ K = "QUEUE_SEND" /\ label = "reset_send" /\ next = "reset_recv"
         \/ K = "QUEUE_RECV" /\ label = "reset_recv" /\ next = "out",
         reset_wake(t, label, K, next)
  PROVE  WaiterInv'
<1>0. /\ At(t, "run") /\ LoopInv /\ RuleInv /\ spc[t] = label
      /\ unblock_all_begin(sched, K, Queue, "STATE")
      /\ spc' = [spc EXCEPT ![t] = next] /\ UNCHANGED <<queue, stim, call>> /\ SameControl
  BY DEF reset_wake, WaitAt, To, SameControl, WaiterInv, LoopInv
<1>1. /\ t \in Task /\ InterruptsOn /\ scan.job = "none" /\ sched.reason[t] = "NONE"
      /\ sched.state[t] # "BLOCKED" /\ CallOK(t)
      /\ spc \in [Task -> QueueLabel] /\ stim \in [Task -> Tick]
      /\ K \in BlockReason /\ Queue \in Object /\ "STATE" \in Result /\ App \subseteq Task
  BY <1>0, Actor, LoopConstants DEF LoopInv
<1>2. /\ sched' = sched /\ scan'.job = "all" /\ scan'.reason = K /\ scan'.object = Queue
  BY <1>0 DEF unblock_all_begin
<1>3. /\ spc'[t] = next /\ \A y \in Task \ {t} : spc'[y] = spc[y]
      /\ spc' \in [Task -> QueueLabel]
  BY <1>0, <1>1 DEF QueueLabel, WaitLabel
<1>4. /\ RuleInv'
      /\ \A x \in Task : sched.state[x] = "BLOCKED"
                             => \E i \in DOMAIN scan'.rest : scan'.rest[i] = x
  BY <1>0, <1>1, WakeAllRule
<1>5. \A y \in Task \ {t} : Aside(y)
  BY <1>0, <1>2, <1>3, QuietAside
<1>6. CallOK(t)' /\ ~Needless(t)'
  <2>1. spc'[t] \notin InLoop /\ call'[t] = NoCall
    BY <1>0, <1>1, <1>3 DEF InLoop, CallOK
  <2> QED
    BY <1>0, <1>1, <1>2, <2>1, ActorKept
<1> PICK A \in SUBSET App : A = {t}
  OBVIOUS
<1>7. LoopInv'
  <2>1. (\A y \in Task \ A : Aside(y)) /\ \A y \in A : CallOK(y)'
    BY <1>5, <1>6
  <2> QED
    BY <1>0, <1>1, <1>3, <1>4, <2>1, LoopKept
<1>8. ASSUME NEW u \in App, Needless(u)' PROVE Served(u)'
  <2>1. u # t /\ u \in Task /\ Aside(u)
    BY <1>1, <1>5, <1>6, <1>8
  <2>2. /\ Left(Kind(u))' > 0 /\ Kind(u)' = Kind(u) /\ Kind(u) \in Kinds
        /\ sched.state[u] = "BLOCKED" /\ (Left(Kind(u)) > 0 => Needless(u))
    BY <1>0, <1>8, <2>1, WaitedBefore, LoopConstants DEF Kind
  <2>3. CASE Kind(u) = K
    BY <1>2, <1>4, <2>1, <2>2, <2>3 DEF Served, Coming
  <2>4. CASE Kind(u) # K
    <3>1. Left(Kind(u))' = Left(Kind(u))
      BY <1>0, <2>2 DEF Left
    <3>2. Served(u) /\ ~Coming(u)
      BY <1>1, <2>2, <3>1 DEF WaiterInv, Coming
    <3>3. u \in missed => u \in missed'
      BY <1>8 DEF MissedNext
    <3>4. Kind(u) = "QUEUE_SEND" /\ Resetting => Resetting'
      BY <1>0, <1>1, <1>3, <2>4 DEF Resetting
    <3>5. PICK H \in Kinds : H = Kind(u)
      BY <2>2
    <3>6. OnWay(H)' = OnWay(H)
      <4>1. ASSUME NEW v \in App
            PROVE  (OnItsWay(v) /\ Kind(v) = H) <=> (OnItsWay(v)' /\ Kind(v)' = H)
        BY <1>0, <1>1, <1>2, <1>3 DEF OnItsWay, Kind
      <4> QED
        BY <4>1 DEF OnWay
    <3> QED
      BY <2>2, <3>1, <3>2, <3>3, <3>4, <3>5, <3>6 DEF Served
  <2> QED
    BY <2>3, <2>4
<1> QED
  BY <1>7, <1>8 DEF WaiterInv

\* The rest of the kernel: it wakes tasks, but takes none off its way.
LEMMA KernelServes ==
  ASSUME ~Racy, Calls \cap {"suspend", "delete"} = {}, IsFiniteSet(App),
         WaiterInv, MissedNext, QueueInv', KernelStep, UNCHANGED <<queue, call>>
  PROVE  WaiterInv'
<1>0. /\ LoopInv /\ RuleInv /\ UNCHANGED <<spc, stim>> /\ Next /\ App \subseteq Task
  BY LoopConstants DEF KernelStep, Next, waitVars, WaiterInv, LoopInv
<1>1. RuleInv'
  BY <1>0, NextRule
<1>2. ASSUME NEW y \in Task, spc[y] # "out"
      PROVE  Spared(sched', sched, y) /\ pc'[y] = "run" /\ kstate' = "RUNNING"
  <2>1. pc[y] = "run" /\ kstate = "RUNNING"
    BY <1>0, <1>2 DEF LoopInv, CallOK
  <2>2. CASE Boot
    BY <2>1, <2>2 DEF Boot, kernel_init, kernel_start, scheduler_start, main_create
  <2>3. CASE Exception
    BY <1>0, <2>1, <2>3, ExceptionSpares
  <2>4. ASSUME NEW t \in App, spc[t] = "out" \/ pc[t] # "run", Direct(t) \/ Svc(t)
        PROVE  Spared(sched', sched, y) /\ pc'[y] = "run" /\ kstate' = "RUNNING"
    <3>1. y # t
      BY <1>2, <2>1, <2>4
    <3> QED
      BY <1>0, <2>1, <2>4, <3>1, CallSpares
  <2> QED
    BY <2>2, <2>3, <2>4 DEF KernelStep
<1>3. ASSUME NEW y \in Task, spc[y] = "out" PROVE sched'.reason[y] \notin Kinds
  <2>1. sched.reason[y] \notin Kinds
    BY <1>0, <1>3 DEF LoopInv, CallOK
  <2> QED
    BY <1>0, <2>1, NoNewWait, LoopConstants
<1>4. \A y \in Task : Aside(y)
  BY <1>0, <1>2, <1>3 DEF Aside
<1> PICK A \in SUBSET App : A = {}
  OBVIOUS
<1>5. LoopInv'
  <2>1. spc' \in [Task -> QueueLabel] /\ stim' \in [Task -> Tick]
    BY <1>0 DEF LoopInv
  <2> QED
    BY <1>0, <1>1, <1>4, <2>1, LoopKept
<1>6. \A t \in App : Coming(t) /\ Needless(t)' => Coming(t)'
  BY <1>0, MaskedWhileWaking DEF Coming
<1>7. Resetting => Resetting'
  BY <1>0 DEF Resetting
<1> QED
  BY <1>4, <1>5, <1>6, <1>7, QuietServes

\* The loop of scheduler_unblock_all.
LEMMA WakeLoopServes ==
  ASSUME WaiterInv, IsFiniteSet(App), MissedNext, QueueInv', WakeLoop,
         UNCHANGED <<queue, call>>
  PROVE  WaiterInv'
<1>0. /\ LoopInv /\ RuleInv /\ UNCHANGED <<spc, stim>> /\ SameControl
      /\ unblock_all_scan \/ unblock_all_end
      /\ App \subseteq Task /\ sched \in SchedState /\ scan \in ScanState
  BY LoopConstants
  DEF WakeLoop, waitVars, SameControl, WaiterInv, LoopInv, RuleInv, Base, TypeOK
<1>1. /\ RuleInv'
      /\ scan.reason # "NONE" => \A i \in DOMAIN scan.rest :
            WaitsFor(sched', scan.rest[i], scan.reason, scan.object)
              => \E j \in DOMAIN scan'.rest : scan'.rest[j] = scan.rest[i]
  BY <1>0, WakeLoopRule
<1>2. ASSUME NEW y \in Task
      PROVE  Spared(sched', sched, y) /\ sched'.reason[y] \in {sched.reason[y], "NONE"}
  <2>1. CASE unblock_all_scan
    <3>1. /\ scan.rest \in Seq(Task) /\ scan.rest # <<>> /\ Visits(sched, scan.rest)
          /\ scan.result \in Result
      BY <1>0, <2>1 DEF unblock_all_scan, ScanState, RuleInv, LoopVisitsBlocked
    <3>2. PICK t \in Task : t = Head(scan.rest)
      BY <3>1, TailProps
    <3>3. sched.state[t] = "BLOCKED"
      <4>1. 1 \in DOMAIN scan.rest /\ t = scan.rest[1]
        BY <3>1, <3>2, EmptySeq, LenProperties
      <4> QED
        BY <3>1, <4>1 DEF Visits
    <3>4. \/ sched' = sched
          \/ /\ WaitOver(sched', sched, t, scan.result)
             /\ sched'.state = [sched.state EXCEPT ![t] = "READY"]
      BY <1>0, <2>1, <3>1, <3>2, MakeReadyWaits, MakeReadyLemma DEF unblock_all_scan
    <3> QED
      BY <1>0, <3>3, <3>4 DEF WaitOver, SchedState, Spared
  <2>2. CASE unblock_all_end
    <3>1. SameWaits(sched', sched) /\ sched'.state = sched.state
      BY <1>0, <2>2, TriggerLemma, TriggerWaits DEF unblock_all_end, SameWaits
    <3> QED
      BY <3>1 DEF SameWaits, Spared
  <2> QED
    BY <1>0, <2>1, <2>2
<1>3. ASSUME NEW y \in Task PROVE Aside(y)
  <2>1. CallOK(y) /\ "NONE" \notin Kinds
    BY <1>0, LoopConstants DEF LoopInv
  <2> QED
    BY <1>0, <1>2, <2>1 DEF Aside, CallOK, SameControl
<1> PICK A \in SUBSET App : A = {}
  OBVIOUS
<1>4. LoopInv'
  <2>1. spc' \in [Task -> QueueLabel] /\ stim' \in [Task -> Tick]
    BY <1>0 DEF LoopInv
  <2> QED
    BY <1>0, <1>1, <1>3, <2>1, LoopKept
<1>5. ASSUME NEW t \in App, Coming(t), Needless(t)' PROVE Coming(t)'
  <2>1. PICK i \in DOMAIN scan.rest : scan.rest[i] = t
    BY <1>5 DEF Coming
  <2>2. scan.reason = Kind(t) /\ scan.object = Queue /\ Kind(t)' = Kind(t)
        /\ scan.reason # "NONE" /\ t \in Task
    BY <1>0, <1>5, LoopConstants DEF Coming, Kind
  <2>3. WaitsFor(sched', t, Kind(t), Queue)
    <3>1. CallOK(t)' /\ sched'.state[t] = "BLOCKED" /\ call'[t].op \in QueueOp
      BY <1>4, <1>5, <2>2 DEF LoopInv, Needless
    <3>2. spc'[t] \in InLoop
      BY <3>1, CallOps DEF CallOK
    <3> QED
      BY <2>2, <3>1, <3>2 DEF CallOK, InLoop, WaitsFor
  <2>4. \E j \in DOMAIN scan'.rest : scan'.rest[j] = t
    BY <1>1, <2>1, <2>2, <2>3
  <2>5. unblock_all_scan
    BY <1>0, <2>1 DEF unblock_all_end
  <2>6. scan'.job = "all" /\ scan'.reason = scan.reason /\ scan'.object = scan.object
    BY <1>0, <2>5 DEF unblock_all_scan, ScanState
  <2> QED
    BY <2>2, <2>4, <2>6 DEF Coming
<1>6. Resetting => Resetting'
  BY <1>0 DEF Resetting
<1> QED
  BY <1>3, <1>4, <1>5, <1>6, QuietServes

LEMMA CallServes ==
  ASSUME WaiterInv, IsFiniteSet(App), MissedNext, QueueInv', NEW t \in App, QueueCall(t)
  PROVE  WaiterInv'
<1>1. CASE queue_wait(t)
  BY <1>1, WaitServes
<1>2. CASE queue_result(t)
  BY <1>2, ResultServes
<1>3. CASE queue_reset(t)
  <2>1. queue \in Ring
    BY DEF WaiterInv, LoopInv, QueueInv, RingAligned
  <2>2. CASE reset_store(t, "out", [queue EXCEPT !.head = 0], "reset_tail")
    <3>1. PICK q : q = [queue EXCEPT !.head = 0] /\ q.count = queue.count
      BY <2>1, StoreFields
    <3> QED BY <2>2, <3>1, IndexServes
  <2>3. CASE reset_store(t, "reset_tail", [queue EXCEPT !.tail = 0], "reset_count")
    <3>1. PICK q : q = [queue EXCEPT !.tail = 0] /\ q.count = queue.count
      BY <2>1, StoreFields
    <3> QED BY <2>3, <3>1, IndexServes
  <2> QED
    BY <1>3, <2>2, <2>3, ResetServes DEF queue_reset
<1>4. CASE reset_wake(t, "reset_send", "QUEUE_SEND", "reset_recv")
  <2>1. PICK K \in Kinds : K = "QUEUE_SEND"
    BY DEF Kinds
  <2>2. reset_wake(t, "reset_send", K, "reset_recv")
    BY <1>4, <2>1
  <2> QED
    BY <2>1, <2>2, ResetWakeServes
<1>5. CASE reset_wake(t, "reset_recv", "QUEUE_RECV", "out")
  <2>1. PICK K \in Kinds : K = "QUEUE_RECV"
    BY DEF Kinds
  <2>2. reset_wake(t, "reset_recv", K, "out")
    BY <1>5, <2>1
  <2> QED
    BY <2>1, <2>2, ResetWakeServes
<1>6. ASSUME NEW c \in QCall(QueueCalls), NEW n \in Timeouts, queue_call(t, c, n)
      PROVE  WaiterInv'
  <2>1. c \in QCall(QueueOp) /\ n \in Tick
    BY QueueAssumption, LoopConstants DEF QCall
  <2>2. At(t, "run") /\ spc[t] = "out" /\ attempt(t, c, n)
    BY <1>6 DEF queue_call, WaitAt
  <2> QED
    BY <2>1, <2>2, AttemptServes
<1> QED
  BY <1>1, <1>2, <1>3, <1>4, <1>5, <1>6 DEF QueueCall

LEMMA HandlerServes ==
  ASSUME WaiterInv, IsFiniteSet(App), MissedNext, QueueInv',
         NEW c \in QCall(QueueOp), queue_isr(c)
  PROVE  WaiterInv'
<1>1. /\ InterruptsOn /\ Unmasked /\ CanGo(queue, c.op) /\ perform(c)
      /\ UNCHANGED <<spc, stim, call>>
  BY DEF queue_isr, waitVars
<1>2. spc' \in [Task -> QueueLabel] /\ stim' \in [Task -> Tick]
  BY <1>1 DEF WaiterInv, LoopInv
<1> PICK A \in SUBSET App : A = {}
  OBVIOUS
<1>3. /\ A \subseteq {NULL}
      /\ \A y \in Task \ A : spc'[y] = spc[y] /\ call'[y] = call[y]
  BY <1>1
<1> QED
  BY <1>1, <1>2, <1>3, PerformServes

LEMMA WaiterStep ==
  ASSUME ~Racy, "suspend" \notin Calls, IsFiniteSet(App)
  PROVE  WaiterInv /\ [QueueNext]_allVars => WaiterInv'
<1> SUFFICES ASSUME WaiterInv, [QueueNext]_allVars PROVE WaiterInv'
  OBVIOUS
<1>1. QueueInv' /\ Calls \cap {"suspend", "delete"} = {}
  BY QueueStep, WaitAssumption DEF WaiterInv, LoopInv
<1>2. CASE QueueNext
  <2>1. MissedNext
    BY <1>2 DEF QueueNext, MissedNext
  <2>2. CASE (KernelStep \/ WakeLoop) /\ UNCHANGED <<queue, call, last>>
    BY <1>1, <2>1, <2>2, KernelServes, WakeLoopServes
  <2>3. CASE \E t \in App : QueueCall(t)
    BY <1>1, <2>1, <2>3, CallServes
  <2>4. CASE \E c \in QCall(QueueOp) : queue_isr(c)
    BY <1>1, <2>1, <2>4, HandlerServes
  <2> QED
    BY <1>2, <2>2, <2>3, <2>4 DEF QueueNext
<1>3. CASE UNCHANGED allVars
  <2>1. RuleInv'
    BY <1>3, NextRule DEF allVars, WaiterInv, LoopInv
  <2>2. /\ UNCHANGED <<sched, scan, kstate, pc, spc, stim, queue, call, missed>>
    BY <1>3 DEF allVars, vars, waitVars, queueVars
  <2>3. \A y \in Task : CallOK(y)'
    BY <2>2 DEF WaiterInv, LoopInv, CallOK, Kind
  <2>4. LoopInv'
    BY <1>1, <2>1, <2>2, <2>3 DEF WaiterInv, LoopInv
  <2>5. ASSUME NEW t \in App, Needless(t)' PROVE Served(t)'
    <3>1. Served(t)
      BY <2>2, <2>5 DEF WaiterInv, Needless
    <3>2. \A K : OnWay(K)' = OnWay(K) /\ Left(K)' = Left(K)
      BY <2>2 DEF OnWay, OnItsWay, Kind, Left
    <3> QED
      BY <2>2, <3>1, <3>2 DEF Served, Coming, Resetting, Kind
  <2> QED
    BY <2>4, <2>5 DEF WaiterInv
<1> QED
  BY <1>2, <1>3

LEMMA WaiterInitial == QueueInit => WaiterInv
<1> SUFFICES ASSUME QueueInit PROVE WaiterInv
  OBVIOUS
<1>1. RuleInv /\ QueueInv
  BY InitRule, QueueInitial DEF QueueInit
<1>2. /\ spc \in [Task -> QueueLabel] /\ stim \in [Task -> Tick]
      /\ \A y \in Task : spc[y] = "out" /\ call[y] = NoCall
  BY LoopConstants DEF QueueInit, WaitInit, QueueLabel, WaitLabel
<1>3. \A y \in Task : sched.reason[y] = "NONE"
  BY DEF QueueInit, Init, scheduler_init
<1>4. \A y \in Task : CallOK(y)
  BY <1>2, <1>3, LoopConstants DEF CallOK, InLoop
<1>5. \A t \in App : ~Needless(t)
  BY <1>2, CallOps, LoopConstants DEF Needless
<1> QED
  BY <1>1, <1>2, <1>4, <1>5 DEF WaiterInv, LoopInv

\* No task is left waiting beside room or data (kernel/sync/queue.c): for every
\* Capacity, every number of tasks and every set of time-outs, a task that
\* waits although it need not either slipped in between its test and its block,
\* or lost its message's turn to a peeker, or has a task of its kind before it
\* that was woken and has yet to run.  A task that is suspended between its
\* wake-up and its return holds that wake-up up for as long as it likes, so
\* nobody calls task_suspend here; that every count fits a set of woken tasks
\* takes finitely many of them.
THEOREM NoWaiterForgotten ==
  ASSUME ~Racy, "suspend" \notin Calls, IsFiniteSet(App)
  PROVE  QueueSpec => []NoForgottenWaiter
<1>1. WaiterInv => NoForgottenWaiter
  <2> SUFFICES ASSUME WaiterInv, Settled, NEW t \in App, Needless(t), t \notin missed
               PROVE  \E u \in App : OnItsWay(u) /\ Reason(call[u].op) = Reason(call[t].op)
    BY DEF NoForgottenWaiter
  <2>1. Cardinality(OnWay(Kind(t))) >= Left(Kind(t))
    BY DEF WaiterInv, Served, Settled, Coming, Resetting
  <2>2. queue.count \in Nat /\ Capacity \in Nat
    BY RingAssumption DEF WaiterInv, LoopInv, QueueInv, RingAligned, Ring
  <2>3. Left(Kind(t)) \in Int /\ Left(Kind(t)) > 0
    BY <2>2 DEF Left, Kind, Reason, Needless, CanGo
  <2>4. OnWay(Kind(t)) # {}
    BY <2>1, <2>3, FS_EmptySet
  <2> QED
    BY <2>4 DEF OnWay, Kind
<1>2. WaiterInv /\ [QueueNext]_allVars => WaiterInv'
  BY WaiterStep
<1> QED
  BY <1>1, <1>2, WaiterInitial, PTL DEF QueueSpec
=============================================================================
