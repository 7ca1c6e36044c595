---------------------------- MODULE BoundedDeque ----------------------------
(***************************************************************************)
(* What kernel/sync/queue.h promises of the data in a message queue: a     *)
(* sequence of at most Capacity messages, with sends to either end and     *)
(* receives and peeks at the front.  A reset takes time, and promises      *)
(* nothing to the calls that do not wait for its end: they leave a queue   *)
(* of undefined contents, to be reset again.                               *)
(***************************************************************************)
EXTENDS Integers, Sequences

CONSTANTS Msg, None, Capacity

VARIABLES items,   \* the messages, the next one to be received first
          last,    \* the message last handed to a receiver or a peeker
          mode     \* "ok", "reset" while a reset is going on, or "undefined"
dequeVars == <<items, last, mode>>

DequeInit == items = <<>> /\ last = None /\ mode = "ok"

Room == Len(items) < Capacity

SendBack(m) == Room /\ items' = Append(items, m) /\ UNCHANGED last
SendFront(m) == Room /\ items' = <<m>> \o items /\ UNCHANGED last
Receive == items # <<>> /\ items' = Tail(items) /\ last' = Head(items)
Peek == items # <<>> /\ last' = Head(items) /\ UNCHANGED items

Ordinary == /\ mode = "ok" /\ UNCHANGED mode
            /\ (\E m \in Msg : SendBack(m) \/ SendFront(m)) \/ Receive \/ Peek

\* A reset begins, or ends.
Reset == items' = <<>> /\ mode' \in {"ok", "reset"} /\ UNCHANGED last

\* A call that does not wait for the end of a reset; a peek changes nothing.
EarlyCall == /\ mode # "ok" /\ mode' = "undefined" /\ UNCHANGED items
EarlyPeek == /\ mode # "ok" /\ UNCHANGED <<items, mode>>

DequeNext == Ordinary \/ Reset \/ EarlyCall \/ EarlyPeek

DequeSpec == DequeInit /\ [][DequeNext]_dequeVars
=============================================================================
