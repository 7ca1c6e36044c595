------------------------------- MODULE MCQueue -------------------------------
(***************************************************************************)
(* MsgQueue for model checking.  Tasks and messages are interchangeable;   *)
(* wake_tick is only read while its task is on the blocked list, and       *)
(* block_result when its wait ends, to tell whether it is KERNEL_OK.  A    *)
(* slot outside the messages in the ring is written before it is read,     *)
(* "last" is never read, and in the middle of a reset and after a torn one *)
(* what the slots hold decides nothing, in the model or in a property.     *)
(***************************************************************************)
EXTENDS MsgQueue, TLC

QueueSym == Permutations(App) \cup Permutations(Msg)

QueueView == << [sched EXCEPT !.wake = [t \in Task |-> IF On(sched, t, BlockedList)
                                                       THEN @[t] ELSE 0],
                              !.result = [t \in Task |-> spc[t] \in {"woken", "result"}
                                                         => @[t] = "OK"]],
                scan, kstate, pc, arg, waitVars,
                [queue EXCEPT !.buffer = IF torn \/ Storing # {} THEN <<>>
                                                                 ELSE Items(queue)],
                call, missed, torn, IF torn THEN overlapped ELSE {} >>
=============================================================================
