-------------------------- MODULE SemaphoreProofs --------------------------
(***************************************************************************)
(* The semaphore, for every number of tasks and of nested interrupt        *)
(* handlers, which increment its count outside any critical section.       *)
(***************************************************************************)
EXTENDS Semaphore, TaskApiProofs

-----------------------------------------------------------------------------
(***************************************************************************)
(* The handlers in progress are a stack: isr[1] is the innermost, and a    *)
(* handler keeps its height, counted from the outermost, while others come *)
(* and go above it.  A handler at height h has IsrLevels - h levels above  *)
(* it, and that is how far the count can have gone past its test of        *)
(* max_count by the time it loads the count.                               *)
(***************************************************************************)
Height(i) == Len(isr) - i + 1
Slack(h) == MaxCount - 1 + IsrLevels - h

CountTypes == /\ count \in Nat /\ owed \in Int
              /\ isr \in Seq(Frame) /\ Len(isr) <= IsrLevels
              /\ torn \in BOOLEAN

\* What a handler that has passed its test may load, and what it may store.
HandlersBounded ==
    MaxCount > 0 => \A i \in 1 .. Len(isr) :
        /\ isr[i].at = "load" => count <= Slack(Height(i))
        /\ isr[i].at = "store" => isr[i].val <= Slack(Height(i))

\* A value that a handler has loaded is covered by tokens that are still owed,
\* as long as nobody takes or resets before it is stored.
LoadsCovered ==
    ~torn => \A i \in 1 .. Len(isr) : isr[i].at = "store" => isr[i].val <= owed

CountInv == CountTypes /\ CountBounded /\ NoTokenInvented
            /\ HandlersBounded /\ LoadsCovered

\* Without handlers only the count itself matters.
LEMMA CountQuiet ==
  ASSUME NEW c \in Nat, NEW o \in Int, count' = c, owed' = o, isr' = <<>>,
         torn' \in BOOLEAN, ~torn' => c <= o,
         MaxCount > 0 /\ IsrLevels > 0 => c <= MaxCount + IsrLevels - 1
  PROVE  CountInv'
<1>1. isr' \in Seq(Frame) /\ Len(isr') = 0
  BY EmptySeq
<1> QED
  BY <1>1, SemAssumption
  DEF CountInv, CountTypes, CountBounded, NoTokenInvented, HandlersBounded, LoadsCovered

\* The stack of handlers after one has arrived, gone on, or ended.
LEMMA PushFrame ==
  ASSUME NEW s \in Seq(Frame), NEW f \in Frame
  PROVE  /\ <<f>> \o s \in Seq(Frame) /\ Len(<<f>> \o s) = Len(s) + 1
         /\ (<<f>> \o s)[1] = f
         /\ \A i \in 2 .. Len(s) + 1 : (<<f>> \o s)[i] = s[i - 1]
BY ConcatProperties

LEMMA SetFrame ==
  ASSUME NEW s \in Seq(Frame), s # <<>>, NEW f \in Frame
  PROVE  LET r == [s EXCEPT ![1] = f]
         IN  /\ r \in Seq(Frame) /\ Len(r) = Len(s)
             /\ r[1] = f
             /\ \A i \in 2 .. Len(s) : r[i] = s[i]
BY ExceptSeq, EmptySeq, LenProperties

LEMMA PopFrame ==
  ASSUME NEW s \in Seq(Frame), s # <<>>
  PROVE  /\ Tail(s) \in Seq(Frame) /\ Len(Tail(s)) = Len(s) - 1 /\ Len(s) > 0
         /\ s[1] \in Frame
         /\ \A i \in 1 .. Len(s) - 1 : Tail(s)[i] = s[i + 1]
BY HeadTailProperties, EmptySeq, LenProperties

LEMMA FrameValues ==
  ASSUME CountInv
  PROVE  \A i \in 1 .. Len(isr) : isr[i].val \in Nat
<1>1. isr \in Seq(Frame)
  BY DEF CountInv, CountTypes
<1>2. \A i \in 1 .. Len(isr) : isr[i] \in Frame
  BY <1>1, ElementOfSeq
<1> QED
  BY <1>2 DEF Frame

\* A step that changes neither the count nor the handlers.
LEMMA CountKept ==
  ASSUME CountInv, UNCHANGED <<count, isr, torn>>, owed' \in Int, owed' >= owed
  PROVE  CountInv'
<1>1. \A i \in 1 .. Len(isr) : isr[i].val \in Nat
  BY FrameValues
<1>2. CountTypes' /\ CountBounded' /\ NoTokenInvented'
  BY DEF CountInv, CountTypes, CountBounded, NoTokenInvented
<1>3. HandlersBounded'
  BY DEF CountInv, HandlersBounded, Height, Slack
<1>4. LoadsCovered'
  BY <1>1 DEF CountInv, CountTypes, LoadsCovered
<1> QED
  BY <1>2, <1>3, <1>4 DEF CountInv

\* A handler arrives and finds nobody waiting.
LEMMA CountArrives ==
  ASSUME CountInv, UNCHANGED <<count, owed, torn>>, Len(isr) < IsrLevels,
         isr' = <<[at |-> "check", val |-> 0]>> \o isr
  PROVE  CountInv'
<1> DEFINE f == [at |-> "check", val |-> 0]
<1>1. f \in Frame /\ f.at = "check"
  BY DEF Frame
<1> HIDE DEF f
<1>2. /\ isr' \in Seq(Frame) /\ Len(isr') = Len(isr) + 1 /\ isr'[1] = f
      /\ \A i \in 2 .. Len(isr) + 1 : isr'[i] = isr[i - 1]
  BY <1>1, PushFrame DEF CountInv, CountTypes, f
<1>3. Len(isr) \in Nat
  BY LenProperties DEF CountInv, CountTypes
<1>4. CountTypes' /\ CountBounded' /\ NoTokenInvented'
  BY <1>2, <1>3, SemAssumption DEF CountInv, CountTypes, CountBounded, NoTokenInvented
<1>5. ASSUME NEW i \in 1 .. Len(isr'), isr'[i].at # "check"
      PROVE  /\ i - 1 \in 1 .. Len(isr) /\ isr'[i] = isr[i - 1]
             /\ Height(i)' = Height(i - 1)
  BY <1>1, <1>2, <1>3, <1>5 DEF Height
<1>6. HandlersBounded' /\ LoadsCovered'
  BY <1>5, <1>2, <1>3 DEF CountInv, HandlersBounded, LoadsCovered, Slack
<1> QED
  BY <1>4, <1>6 DEF CountInv

\* The innermost handler goes on to its load, or has loaded.
LEMMA CountMoves ==
  ASSUME CountInv, UNCHANGED <<count, owed, torn>>, isr # <<>>,
         \/ ~Full /\ SetTop("load", 0)
         \/ isr[1].at = "load" /\ SetTop("store", count)
  PROVE  CountInv'
<1>1. Len(isr) \in Nat \ {0} /\ Len(isr) <= IsrLevels /\ count \in Nat /\ isr \in Seq(Frame)
  BY EmptySeq, LenProperties DEF CountInv, CountTypes
<1>2. PICK f \in Frame : /\ isr' = [isr EXCEPT ![1] = f]
                         /\ \/ ~Full /\ f.at = "load"
                            \/ isr[1].at = "load" /\ f.at = "store" /\ f.val = count
  <2>1. CASE ~Full /\ SetTop("load", 0)
    <3> DEFINE g == [at |-> "load", val |-> 0]
    <3>1. g \in Frame /\ g.at = "load"
      BY DEF Frame
    <3> QED BY <2>1, <3>1 DEF SetTop
  <2>2. CASE isr[1].at = "load" /\ SetTop("store", count)
    <3> DEFINE g == [at |-> "store", val |-> count]
    <3>1. g \in Frame /\ g.at = "store" /\ g.val = count
      BY <1>1 DEF Frame
    <3> QED BY <2>2, <3>1 DEF SetTop
  <2> QED BY <2>1, <2>2
<1>3. /\ isr' \in Seq(Frame) /\ Len(isr') = Len(isr) /\ isr'[1] = f
      /\ \A i \in 2 .. Len(isr) : isr'[i] = isr[i]
  BY <1>1, <1>2, SetFrame
<1>4. CountTypes' /\ CountBounded' /\ NoTokenInvented'
  BY <1>3 DEF CountInv, CountTypes, CountBounded, NoTokenInvented
<1>5. ASSUME MaxCount > 0 PROVE count <= Slack(Height(1))
  BY <1>1, <1>2, <1>5, SemAssumption DEF CountInv, HandlersBounded, Slack, Height, Full
<1>6. HandlersBounded'
  BY <1>1, <1>2, <1>3, <1>5 DEF CountInv, HandlersBounded, Slack, Height
<1>7. LoadsCovered'
  BY <1>1, <1>2, <1>3 DEF CountInv, LoadsCovered, NoTokenInvented
<1> QED
  BY <1>4, <1>6, <1>7 DEF CountInv

\* The innermost handler ends, with or without its store.
LEMMA CountEnds ==
  ASSUME CountInv, isr # <<>>, EndHandler, UNCHANGED torn,
         \/ UNCHANGED <<count, owed>>
         \/ isr[1].at = "store" /\ count' = isr[1].val + 1 /\ owed' = owed + 1
  PROVE  CountInv'
<1>1. /\ isr' \in Seq(Frame) /\ Len(isr') = Len(isr) - 1 /\ Len(isr) > 0
      /\ isr[1].val \in Nat /\ Len(isr) \in Nat /\ Len(isr) <= IsrLevels
      /\ count \in Nat /\ owed \in Int
      /\ \A i \in 1 .. Len(isr) - 1 : isr'[i] = isr[i + 1]
  BY PopFrame, LenProperties DEF CountInv, CountTypes, EndHandler, Frame
<1>2. count' \in Nat /\ owed' \in Int /\ owed' >= owed /\ torn' \in BOOLEAN
  BY <1>1 DEF CountInv, CountTypes
<1>0. ASSUME ~torn' PROVE count' <= owed'
  BY <1>0, <1>1 DEF CountInv, NoTokenInvented, LoadsCovered
<1>3. ASSUME MaxCount > 0, count' # count PROVE count' <= Slack(Height(1)) + 1
  <2>1. isr[1].val <= Slack(Height(1))
    BY <1>1, <1>3 DEF CountInv, HandlersBounded
  <2> QED BY <1>1, <1>3, <2>1, SemAssumption DEF Slack, Height
<1>4. CountTypes' /\ CountBounded' /\ NoTokenInvented'
  BY <1>0, <1>1, <1>2, <1>3, SemAssumption
  DEF CountInv, CountTypes, CountBounded, NoTokenInvented, Slack, Height
<1>5. ASSUME NEW i \in 1 .. Len(isr')
      PROVE  /\ i + 1 \in 1 .. Len(isr) /\ isr'[i] = isr[i + 1]
             /\ Height(i)' = Height(i + 1) /\ isr[i + 1].val \in Nat
             /\ Slack(Height(1)) + 1 <= Slack(Height(i + 1))
  <2>1. i + 1 \in 1 .. Len(isr) /\ isr'[i] = isr[i + 1] /\ Height(i)' = Height(i + 1)
    BY <1>1 DEF Height
  <2>2. Slack(Height(1)) + 1 <= Slack(Height(i + 1))
    BY <1>1, SemAssumption DEF Height, Slack
  <2>3. isr[i + 1].val \in Nat
    BY <2>1, FrameValues
  <2> QED BY <2>1, <2>2, <2>3
<1>6. HandlersBounded'
  <2> SUFFICES ASSUME MaxCount > 0, NEW i \in 1 .. Len(isr')
               PROVE  /\ isr'[i].at = "load" => count' <= Slack(Height(i))'
                      /\ isr'[i].at = "store" => isr'[i].val <= Slack(Height(i))'
    BY DEF HandlersBounded
  <2>1. Slack(Height(i))' = Slack(Height(i + 1)) /\ Slack(Height(i + 1)) \in Int
        /\ Slack(Height(1)) \in Int
    BY <1>1, <1>5, SemAssumption DEF Slack, Height
  <2>2. /\ isr[i + 1].at = "load" => count <= Slack(Height(i + 1))
        /\ isr[i + 1].at = "store" => isr[i + 1].val <= Slack(Height(i + 1))
    BY <1>5 DEF CountInv, HandlersBounded
  <2> QED
    BY <1>1, <1>2, <1>3, <1>5, <2>1, <2>2
<1>7. LoadsCovered'
  <2> SUFFICES ASSUME ~torn', NEW i \in 1 .. Len(isr'), isr'[i].at = "store"
               PROVE  isr'[i].val <= owed'
    BY DEF LoadsCovered
  <2>1. PICK j \in 1 .. Len(isr) : isr'[i] = isr[j] /\ isr[j].val \in Nat
    BY <1>5
  <2>2. isr[j].val <= owed
    BY <2>1 DEF CountInv, LoadsCovered
  <2> QED
    BY <1>1, <1>2, <2>1, <2>2
<1> QED
  BY <1>4, <1>6, <1>7 DEF CountInv

\* A handler takes or resets, perhaps in the middle of another's sem_give_isr.
LEMMA CountTakes ==
  ASSUME CountInv, sem_take_isr
  PROVE  CountInv'
<1>1. /\ count \in Nat /\ owed \in Int /\ torn \in BOOLEAN
      /\ isr \in Seq(Frame) /\ Len(isr) <= IsrLevels /\ Len(isr) \in Nat
      /\ count > 0 /\ count' = count - 1 /\ owed' = owed - 1 /\ isr' = isr
      /\ torn' = (torn \/ Storing)
  BY LenProperties DEF CountInv, CountTypes, sem_take_isr
<1>2. CountTypes' /\ CountBounded'
  BY <1>1, SemAssumption DEF CountInv, CountTypes, CountBounded
<1>3. ASSUME ~torn' PROVE ~torn /\ ~Storing
  BY <1>1, <1>3
<1>4. NoTokenInvented'
  BY <1>1, <1>3 DEF CountInv, NoTokenInvented
<1>5. HandlersBounded'
  BY <1>1, SemAssumption DEF CountInv, HandlersBounded, Height, Slack
<1>6. LoadsCovered'
  BY <1>1, <1>3 DEF LoadsCovered, Storing
<1> QED
  BY <1>2, <1>4, <1>5, <1>6 DEF CountInv

LEMMA CountResets ==
  ASSUME CountInv, NEW n \in 0 .. InitialCount, sem_reset_isr(n)
  PROVE  CountInv'
<1> DEFINE f == [at |-> "reset", val |-> 0]
<1>1. /\ count' = n /\ owed' = n /\ n \in Nat /\ isr' = <<f>> \o isr
      /\ Len(isr) < IsrLevels /\ isr \in Seq(Frame) /\ torn' = Storing
      /\ MaxCount > 0 => n <= MaxCount
  BY SemAssumption DEF sem_reset_isr, CountInv, CountTypes
<1>2. f \in Frame /\ f.at = "reset"
  BY DEF Frame
<1> HIDE DEF f
<1>3. /\ isr' \in Seq(Frame) /\ Len(isr') = Len(isr) + 1 /\ isr'[1] = f
      /\ \A i \in 2 .. Len(isr) + 1 : isr'[i] = isr[i - 1]
  BY <1>1, <1>2, PushFrame
<1>4. Len(isr) \in Nat
  BY <1>1, LenProperties
<1>5. torn' \in BOOLEAN
  BY <1>1 DEF Storing
<1>6. CountTypes' /\ CountBounded' /\ NoTokenInvented'
  BY <1>1, <1>3, <1>4, <1>5, SemAssumption DEF CountTypes, CountBounded, NoTokenInvented
<1>7. ASSUME NEW i \in 1 .. Len(isr'), isr'[i].at # "reset"
      PROVE  /\ i - 1 \in 1 .. Len(isr) /\ isr'[i] = isr[i - 1]
             /\ Height(i)' = Height(i - 1)
             /\ MaxCount > 0 => count' <= Slack(Height(i - 1))
  <2>1. i - 1 \in 1 .. Len(isr) /\ isr'[i] = isr[i - 1] /\ Height(i)' = Height(i - 1)
    BY <1>2, <1>3, <1>4, <1>7 DEF Height
  <2> QED
    BY <1>1, <1>4, <2>1, SemAssumption DEF Height, Slack
<1>8. HandlersBounded'
  BY <1>3, <1>4, <1>7 DEF CountInv, HandlersBounded, Slack
<1>9. ASSUME ~torn' PROVE \A i \in 1 .. Len(isr) : isr[i].at # "store"
  BY <1>1, <1>9 DEF Storing
<1>10. LoadsCovered'
  BY <1>7, <1>9 DEF LoadsCovered
<1> QED
  BY <1>6, <1>8, <1>10 DEF CountInv

\* Steps of tasks; no handler is running.
LEMMA CountThreads ==
  ASSUME CountInv, Quiet, NEW t \in App, SemCall(t)
  PROVE  CountInv'
<1> USE SemAssumption
<1>1. /\ count \in Nat /\ owed \in Int /\ torn \in BOOLEAN /\ isr = <<>>
      /\ ~torn => count <= owed
      /\ MaxCount > 0 /\ IsrLevels > 0 => count <= MaxCount + IsrLevels - 1
  BY DEF CountInv, CountTypes, NoTokenInvented, CountBounded, Quiet
<1>2. ASSUME NEW n, take_or_block(t, n), UNCHANGED <<isr, torn>> PROVE CountInv'
  <2>1. CASE count > 0 /\ count' = count - 1 /\ owed' = owed - 1
    BY <1>1, <1>2, <2>1, CountQuiet
  <2>2. CASE UNCHANGED <<count, owed>>
    BY <1>1, <1>2, <2>2, CountKept
  <2> QED BY <1>2, <2>1, <2>2 DEF take_or_block
<1>3. CASE sem_take_wait(t)
  BY <1>1, <1>3, CountKept DEF sem_take_wait, semVars
<1>4. CASE sem_take_result(t)
  <2>1. isr' = isr /\ torn' = torn
    BY <1>4 DEF sem_take_result
  <2>2. CASE UNCHANGED <<count, owed>>
    BY <1>1, <2>1, <2>2, CountKept
  <2>3. CASE take_or_block(t, stim[t])
    BY <1>2, <2>1, <2>3
  <2> QED BY <1>4, <2>2, <2>3 DEF sem_take_result
<1>5. CASE sem_give(t)
  <2>1. isr' = isr /\ torn' = torn
    BY <1>5 DEF sem_give
  <2>2. CASE UNCHANGED count /\ owed' = owed + 1
    BY <1>1, <2>1, <2>2, CountKept
  <2>3. CASE ~Full /\ count' = count + 1 /\ owed' = owed + 1
    BY <1>1, <2>1, <2>3, CountQuiet DEF Full
  <2>4. CASE UNCHANGED <<count, owed>>
    BY <1>1, <2>1, <2>4, CountKept
  <2> QED BY <1>5, <2>2, <2>3, <2>4 DEF sem_give
<1>6. CASE sem_reset_wake(t)
  BY <1>1, <1>6, CountKept DEF sem_reset_wake
<1>7. ASSUME NEW n \in Timeouts, sem_take(t, n) PROVE CountInv'
  BY <1>2, <1>7 DEF sem_take
<1>8. ASSUME NEW n \in 0 .. InitialCount, sem_reset(t, n) PROVE CountInv'
  <2>1. /\ count' = n /\ owed' = n /\ isr' = <<>> /\ torn' = FALSE
        /\ MaxCount > 0 => n <= MaxCount
    BY <1>1, <1>8 DEF sem_reset
  <2>2. /\ n \in Nat /\ n \in Int /\ n <= n
        /\ MaxCount > 0 /\ IsrLevels > 0 => n <= MaxCount + IsrLevels - 1
    BY <2>1
  <2>3. torn' \in BOOLEAN
    BY <2>1
  <2> QED BY <2>1, <2>2, <2>3, CountQuiet, Zenon
<1> QED
  BY <1>3, <1>4, <1>5, <1>6, <1>7, <1>8 DEF SemCall

LEMMA CountHandlers ==
  ASSUME CountInv, Handler
  PROVE  CountInv'
<1> USE SemAssumption
<1>1. /\ count \in Nat /\ owed \in Int
      /\ MaxCount > 0 /\ IsrLevels > 0 => count <= MaxCount + IsrLevels - 1
  BY DEF CountInv, CountTypes, NoTokenInvented, CountBounded
<1>2. CASE sem_give_isr
  <2>1. CASE owed' = owed + 1 /\ UNCHANGED <<count, isr, torn>>
    BY <1>1, <2>1, CountKept
  <2>2. CASE /\ isr' = <<[at |-> "check", val |-> 0]>> \o isr
             /\ UNCHANGED <<count, owed, torn>> /\ Len(isr) < IsrLevels
    BY <2>2, CountArrives
  <2> QED BY <1>2, <2>1, <2>2 DEF sem_give_isr
<1>3. CASE give_isr_check
  <2>1. isr # <<>> /\ UNCHANGED <<count, owed, torn>>
    BY <1>3 DEF give_isr_check, Top
  <2>2. (Full /\ EndHandler) \/ (~Full /\ SetTop("load", 0))
    BY <1>3 DEF give_isr_check
  <2> QED BY <2>1, <2>2, CountEnds, CountMoves
<1>4. CASE give_isr_load
  BY <1>4, CountMoves DEF give_isr_load, Top
<1>5. CASE give_isr_store
  BY <1>5, CountEnds DEF give_isr_store, Top
<1>6. CASE sem_take_isr
  BY <1>6, CountTakes
<1>7. CASE reset_isr_wake
  BY <1>7, CountEnds DEF reset_isr_wake, Top
<1>8. ASSUME NEW n \in 0 .. InitialCount, sem_reset_isr(n) PROVE CountInv'
  BY <1>8, CountResets
<1> QED
  BY <1>2, <1>3, <1>4, <1>5, <1>6, <1>7, <1>8 DEF Handler

LEMMA CountStep ==
  ASSUME CountInv, [SemNext]_allVars
  PROVE  CountInv'
<1>1. ASSUME UNCHANGED semVars PROVE CountInv'
  BY <1>1, CountKept DEF semVars, CountInv, CountTypes
<1>2. ASSUME NEW t \in App, SemCall(t) PROVE CountInv'
  <2>1. Quiet
    BY <1>2 DEF SemCall, sem_take_wait, sem_take_result, sem_give, sem_reset_wake,
                sem_take, sem_reset, SemAt
  <2> QED BY <1>2, <2>1, CountThreads
<1> QED
  BY <1>1, <1>2, CountHandlers DEF SemNext, allVars

LEMMA CountInvariant == SemSpec => []CountInv
<1>1. SemInit => CountInv
  <2> SUFFICES ASSUME SemInit PROVE CountInv
    OBVIOUS
  <2>1. count = InitialCount /\ owed = InitialCount /\ isr = <<>> /\ torn = FALSE
    BY DEF SemInit, sem_init
  <2>2. isr \in Seq(Frame) /\ Len(isr) = 0
    BY <2>1, EmptySeq
  <2>3. torn \in BOOLEAN
    BY <2>1
  <2> QED
    BY <2>1, <2>2, <2>3, SemAssumption
    DEF CountInv, CountTypes, CountBounded, NoTokenInvented, HandlersBounded, LoadsCovered
<1>2. CountInv /\ [SemNext]_allVars => CountInv'
  BY CountStep
<1> QED
  BY <1>1, <1>2, PTL DEF SemSpec

\* kernel/sync/semaphore.c, sem_give_isr: nested handlers that test max_count
\* and increment the count in separate steps overshoot it by at most one for
\* every level of nesting but the first, however many levels there are and
\* whatever handlers take or reset in between.
THEOREM CountStaysBounded == SemSpec => []CountBounded
<1>1. CountInv => CountBounded
  BY DEF CountInv
<1> QED
  BY <1>1, CountInvariant, PTL

\* kernel/sync/semaphore.c: sem_take never returns with a token nobody gave,
\* whichever task or handler was faster and whatever ended a wait, for every
\* number of handlers that give inside each other.  The exception is in the
\* property: a handler that takes or resets between the load and the store of a
\* sem_give_isr, until the next reset.
THEOREM TokensNotInvented == SemSpec => []NoTokenInvented
<1>1. CountInv => NoTokenInvented
  BY DEF CountInv
<1> QED
  BY <1>1, CountInvariant, PTL

-----------------------------------------------------------------------------
(***************************************************************************)
(* Types.  The semaphore's calls block the caller, yield, wake one waiter, *)
(* or begin scheduler_unblock_all; nothing else of theirs reaches the      *)
(* kernel.                                                                 *)
(***************************************************************************)
LEMMA SemConstants ==
  /\ Sem \in Object /\ "SEMAPHORE" \in BlockReason
  /\ "OK" \in Result /\ "STATE" \in Result
  /\ 0 \in Tick /\ Timeouts \subseteq Tick
BY SemAssumption, WaitAssumption, ConstantsAssumption DEF BlockReason, Result, Tick

SyncTypes == spc \in [Task -> WaitLabel \cup {"reset"}] /\ stim \in [Task -> Tick]

\* What a step of the semaphore is to the kernel.
SemEffect ==
  /\ SameControl
  /\ \/ /\ scan' = scan
        /\ \/ sched' = sched
           \/ sched' = scheduler_yield(sched)
           \/ /\ sched.cur \in App /\ ~sched.pendsv
              /\ \E n \in Tick : sched' = scheduler_block_task(sched, "SEMAPHORE", Sem, n)
           \/ sched' = scheduler_unblock_one(sched, "SEMAPHORE", Sem, "OK")
     \/ unblock_all_begin(sched, "SEMAPHORE", Sem, "STATE")

LEMMA CallIsEffect ==
  ASSUME SyncTypes, NEW t \in App, SemCall(t)
  PROVE  SemEffect /\ SyncTypes' /\ InterruptsOn /\ scan.job = "none"
<1>0. /\ t \in Task /\ 0 \in Tick /\ Timeouts \subseteq Tick
      /\ \A x \in {"out", "block", "woken", "result", "reset"} : x \in WaitLabel \cup {"reset"}
      /\ stim[t] \in Tick
  BY SemConstants, AppTask DEF SyncTypes, WaitLabel
<1>1. At(t, "run")
  BY DEF SemCall, sem_take_wait, sem_take_result, sem_give, sem_reset_wake, sem_take,
         sem_reset, SemAt, block_task, block_task_yield, WaitEnds, WaitAt
<1>2. /\ InterruptsOn /\ scan.job = "none" /\ ~sched.pendsv /\ sched.cur \in App
  BY <1>1 DEF At, Runs, Unmasked, InterruptsOn
<1>3. ASSUME NEW n \in Tick, take_or_block(t, n) PROVE SyncTypes'
  BY <1>0, <1>3 DEF take_or_block, GiveUpOr, Leave, To, SyncTypes
<1>4. CASE sem_take_wait(t)
  <2>1. SyncTypes'
    BY <1>0, <1>4 DEF sem_take_wait, block_task, block_task_yield, To, SyncTypes
  <2>2. /\ SameControl /\ scan' = scan
        /\ \/ sched' = scheduler_yield(sched)
           \/ sched' = scheduler_block_task(sched, "SEMAPHORE", Sem, stim[t])
    BY <1>4 DEF sem_take_wait, block_task, block_task_yield, KernelIs, SameControl
  <2> QED
    BY <1>0, <1>2, <2>1, <2>2 DEF SemEffect
<1>5. CASE sem_take_result(t)
  <2>1. SemEffect
    BY <1>5 DEF sem_take_result, vars, SemEffect, SameControl
  <2>2. SyncTypes'
    <3>1. CASE WaitEnds(t, FALSE) /\ Leave(t)
      BY <1>0, <3>1 DEF Leave, To, SyncTypes
    <3>2. CASE take_or_block(t, stim[t])
      BY <1>0, <1>3, <3>2
    <3> QED BY <1>5, <3>1, <3>2 DEF sem_take_result
  <2> QED BY <1>2, <2>1, <2>2
<1>6. CASE sem_give(t)
  BY <1>2, <1>6 DEF sem_give, KernelIs, vars, SemEffect, SameControl, SyncTypes
<1>7. CASE sem_reset_wake(t)
  BY <1>0, <1>2, <1>7 DEF sem_reset_wake, To, SemEffect, SameControl, SyncTypes
<1>8. CASE \E n \in Timeouts : sem_take(t, n)
  BY <1>0, <1>2, <1>3, <1>8 DEF sem_take, vars, SemEffect, SameControl
<1>9. CASE \E n \in 0 .. InitialCount : sem_reset(t, n)
  BY <1>0, <1>2, <1>9 DEF sem_reset, To, vars, SemEffect, SameControl, SyncTypes
<1> QED
  BY <1>4, <1>5, <1>6, <1>7, <1>8, <1>9, SemCall(t) DEF SemCall

LEMMA HandlerIsEffect ==
  ASSUME SyncTypes, Handler
  PROVE  SemEffect /\ SyncTypes' /\ InterruptsOn /\ scan.job = "none"
<1>1. InterruptsOn /\ scan.job = "none"
  BY DEF Handler, sem_give_isr, give_isr_check, give_isr_load, give_isr_store,
         sem_take_isr, reset_isr_wake, sem_reset_isr, Top, Interruptible, Unmasked
<1>2. CASE sem_give_isr
  BY <1>1, <1>2 DEF sem_give_isr, KernelIs, vars, SemEffect, SameControl, SyncTypes
<1>3. CASE \/ give_isr_check \/ give_isr_load \/ give_isr_store \/ sem_take_isr
           \/ \E n \in 0 .. InitialCount : sem_reset_isr(n)
  BY <1>1, <1>3 DEF give_isr_check, give_isr_load, give_isr_store, sem_take_isr,
                    sem_reset_isr, vars, SemEffect, SameControl, SyncTypes
<1>4. CASE reset_isr_wake
  BY <1>1, <1>4 DEF reset_isr_wake, SemEffect, SameControl, SyncTypes
<1> QED
  BY <1>2, <1>3, <1>4, Handler DEF Handler

LEMMA SemBaseStep ==
  ASSUME Base, SyncTypes, [SemNext]_allVars
  PROVE  Base' /\ SyncTypes'
<1>1. ASSUME SemEffect PROVE Base'
  BY <1>1, SemConstants, SyncCallBase, WakeAllBase, AppTask DEF SemEffect
<1>2. CASE KernelStep
  <2>1. Next /\ UNCHANGED <<spc, stim>>
    BY <1>2 DEF KernelStep, Next, waitVars
  <2> QED BY <2>1, NextBase DEF SyncTypes
<1>3. CASE WakeLoop
  BY <1>3, WakeLoopBase DEF WakeLoop, SameControl, waitVars, SyncTypes
<1>4. CASE UNCHANGED allVars
  BY <1>4, NextBase DEF allVars, waitVars, SyncTypes
<1> QED
  BY <1>1, <1>2, <1>3, <1>4, CallIsEffect, HandlerIsEffect DEF SemNext

\* kernel/sync/semaphore.c: whatever tasks and handlers do, in any order, every
\* variable keeps its type; in particular the count is never negative.
THEOREM SemTypeCorrectness == SemSpec => []SemTypeOK
<1>1. SemInit => Base /\ SyncTypes
  <2> SUFFICES ASSUME SemInit PROVE Base /\ SyncTypes
    OBVIOUS
  <2>1. Base
    BY InitBase DEF SemInit
  <2> QED BY <2>1, SemConstants DEF SemInit, WaitInit, SyncTypes, WaitLabel
<1>2. (Base /\ SyncTypes) /\ [SemNext]_allVars => (Base /\ SyncTypes)'
  BY SemBaseStep
<1>3. Base /\ SyncTypes /\ CountInv => SemTypeOK
  BY DEF Base, SyncTypes, CountInv, CountTypes, SemTypeOK
<1> QED
  BY <1>1, <1>2, <1>3, CountInvariant, PTL DEF SemSpec

-----------------------------------------------------------------------------
(***************************************************************************)
(* Whom a give and a reset wake, under the usage rules of the task API.    *)
(* The loop of scheduler_unblock_all belongs to sem_reset, and every task  *)
(* that waits for the semaphore is still before it.                        *)
(***************************************************************************)
ResetReaches ==
  scan.job = "all" =>
    /\ scan.reason = "SEMAPHORE" /\ scan.object = Sem
    /\ \A x \in Task : WaitsFor(sched, x, "SEMAPHORE", Sem)
                         => \E i \in DOMAIN scan.rest : scan.rest[i] = x

SemRuleInv == RuleInv /\ SyncTypes /\ ResetReaches

\* The semaphore's own steps keep the rules of the scheduler.
LEMMA SemEffectRule ==
  ASSUME RuleInv, SemEffect, InterruptsOn, scan.job = "none"
  PROVE  RuleInv' /\ ResetReaches'
<1>0. Ruled(sched) /\ sched \in SchedState
  BY DEF RuleInv, InterruptsOn, Ruled
<1>1. CASE scan' = scan
  <2>1. unblock_all_begin(sched, "SEMAPHORE", Sem, "STATE") => FALSE
    BY <1>1 DEF unblock_all_begin
  <2>2. RuleInv'
    BY <1>1, <2>1, SemConstants, SyncCallRule DEF SemEffect
  <2> QED
    BY <1>1, <2>2 DEF ResetReaches
<1>2. CASE unblock_all_begin(sched, "SEMAPHORE", Sem, "STATE")
  <2>1. /\ RuleInv'
        /\ \A x \in Task : sched.state[x] = "BLOCKED"
                               => \E i \in DOMAIN scan'.rest : scan'.rest[i] = x
    BY <1>2, SemConstants, WakeAllRule DEF SemEffect
  <2>2. \A x \in Task : WaitsFor(sched, x, "SEMAPHORE", Sem) => sched.state[x] = "BLOCKED"
    BY <1>0 DEF Ruled, WaitersBlocked, WaitsFor
  <2>3. sched' = sched /\ scan'.reason = "SEMAPHORE" /\ scan'.object = Sem
    BY <1>2 DEF unblock_all_begin
  <2> QED
    BY <2>1, <2>2, <2>3 DEF ResetReaches
<1> QED
  BY <1>1, <1>2 DEF SemEffect

\* An iteration takes the head off the loop; a waiter at the head is woken.
LEMMA ResetLoopStep ==
  ASSUME RuleInv, ResetReaches, WakeLoop
  PROVE  /\ RuleInv' /\ ResetReaches'
         /\ scan.job = "all" /\ scan'.job = "none"
              => Waiters(sched', "SEMAPHORE", Sem) = {}
<1>1. SameControl /\ (unblock_all_scan \/ unblock_all_end) /\ scan.job = "all"
  BY DEF WakeLoop, SameControl, unblock_all_scan, unblock_all_end
<1>2. /\ RuleInv'
      /\ \/ SameWaits(sched', sched)
         \/ \E t \in Task : WaitOver(sched', sched, t, scan.result)
      /\ scan.reason # "NONE" => \A i \in DOMAIN scan.rest :
            WaitsFor(sched', scan.rest[i], scan.reason, scan.object)
              => \E j \in DOMAIN scan'.rest : scan'.rest[j] = scan.rest[i]
  BY <1>1, WakeLoopRule
<1>3. sched \in SchedState /\ scan \in ScanState /\ sched' \in SchedState
  BY <1>2 DEF RuleInv, Base, TypeOK
<1>4. ASSUME NEW x \in Task, WaitsFor(sched', x, "SEMAPHORE", Sem)
      PROVE  WaitsFor(sched, x, "SEMAPHORE", Sem)
  BY <1>2, <1>3, <1>4 DEF SameWaits, WaitOver, SchedState, WaitsFor
<1>5. CASE unblock_all_scan
  <2>1. scan'.job = "all" /\ scan'.reason = scan.reason /\ scan'.object = scan.object
    BY <1>3, <1>5 DEF unblock_all_scan, ScanState
  <2>2. ResetReaches'
    BY <1>1, <1>2, <1>4, <2>1 DEF ResetReaches
  <2> QED
    BY <1>2, <2>1, <2>2
<1>6. CASE unblock_all_end
  <2>1. scan.rest = <<>> /\ scan'.job = "none"
    BY <1>6 DEF unblock_all_end, NoScan
  <2>2. \A x \in Task : ~WaitsFor(sched', x, "SEMAPHORE", Sem)
    BY <1>1, <1>4, <2>1 DEF ResetReaches
  <2>3. sched'.list[BlockedList] \in Seq(Task)
    BY <1>3, PrioInList DEF SchedState
  <2>4. \A i \in DOMAIN sched'.list[BlockedList] : sched'.list[BlockedList][i] \in Task
    BY <2>3, ElementOfSeq
  <2>5. Waiters(sched', "SEMAPHORE", Sem) = {}
    BY <2>2, <2>4 DEF Waiters
  <2> QED
    BY <1>2, <2>1, <2>5 DEF ResetReaches
<1> QED
  BY <1>1, <1>5, <1>6

LEMMA SemRuleStep ==
  ASSUME ~Racy
  PROVE  SemRuleInv /\ [SemNext]_allVars => SemRuleInv'
<1> SUFFICES ASSUME SemRuleInv, [SemNext]_allVars PROVE SemRuleInv'
  OBVIOUS
<1>0. RuleInv /\ SyncTypes /\ ResetReaches /\ SyncTypes'
  BY SemBaseStep DEF SemRuleInv, RuleInv
<1>1. CASE KernelStep
  <2>1. Next
    BY <1>1 DEF KernelStep, Next
  <2> QED
    BY <1>0, <2>1, NextRule, MaskedWhileWaking DEF SemRuleInv, ResetReaches
<1>2. CASE WakeLoop
  BY <1>0, <1>2, ResetLoopStep DEF SemRuleInv
<1>3. CASE Handler \/ \E t \in App : SemCall(t)
  BY <1>0, <1>3, CallIsEffect, HandlerIsEffect, SemEffectRule DEF SemRuleInv
<1>4. CASE UNCHANGED allVars
  <2>1. UNCHANGED vars
    BY <1>4 DEF allVars
  <2>2. RuleInv'
    BY <1>0, <2>1, NextRule
  <2> QED
    BY <1>0, <2>1, <2>2 DEF SemRuleInv, ResetReaches, vars, WaitsFor
<1> QED
  BY <1>1, <1>2, <1>3, <1>4 DEF SemNext

LEMMA SemRules ==
  ASSUME ~Racy
  PROVE  SemSpec => []SemRuleInv
<1>1. SemInit => SemRuleInv
  <2> SUFFICES ASSUME SemInit PROVE SemRuleInv
    OBVIOUS
  <2>1. RuleInv
    BY InitRule DEF SemInit
  <2>2. SyncTypes
    BY SemConstants DEF SemInit, WaitInit, SyncTypes, WaitLabel
  <2>3. ResetReaches
    BY DEF SemInit, Init, NoScan, ResetReaches
  <2> QED
    BY <2>1, <2>2, <2>3 DEF SemRuleInv
<1> QED
  BY <1>1, SemRuleStep, PTL DEF SemSpec

\* Blocking, waking one and waking all leave every task on the list its state
\* tells, also between the iterations of scheduler_unblock_all's loop and when
\* handlers wake tasks in the middle of a task's call.
THEOREM SemaphoreKeepsLists ==
  ASSUME ~Racy
  PROVE  SemSpec => []StateTellsList
<1>1. SemRuleInv => StateTellsList
  BY RuleKeepsLists DEF SemRuleInv
<1> QED
  BY <1>1, SemRules, PTL

\* kernel/sync/semaphore.c, sem_reset: its loop over the blocked list, which
\* unlinks tasks as it goes and runs while nothing else can, leaves nobody
\* waiting for the semaphore, however many tasks wait and for whatever.
THEOREM ResetLeavesNoWaiter ==
  ASSUME ~Racy
  PROVE  SemSpec => ResetWakesAll
<1> DEFINE Empties == scan.job = "all" /\ scan'.job = "none"
                          => Waiters(sched', "SEMAPHORE", Sem) = {}
<1>1. SemRuleInv /\ [SemNext]_allVars => [Empties]_allVars
  <2> SUFFICES ASSUME SemRuleInv, SemNext PROVE Empties
    OBVIOUS
  <2>0. RuleInv /\ SyncTypes /\ ResetReaches
    BY DEF SemRuleInv
  <2>1. CASE KernelStep
    BY <2>0, <2>1, MaskedWhileWaking DEF KernelStep, Next
  <2>2. CASE WakeLoop
    BY <2>0, <2>2, ResetLoopStep
  <2>3. CASE Handler \/ \E t \in App : SemCall(t)
    <3>1. scan.job = "none"
      BY <2>0, <2>3, CallIsEffect, HandlerIsEffect
    <3> QED BY <3>1
  <2> QED
    BY <2>1, <2>2, <2>3 DEF SemNext
<1> QED
  BY <1>1, SemRules, PTL DEF SemSpec, ResetWakesAll

\* Of the tasks blocked on the semaphore, a step of the semaphore readies at
\* most one, and none that stays behind outranks it.
LEMMA EffectWakesBest ==
  ASSUME RuleInv, SemEffect, InterruptsOn, NEW t \in App, NEW u \in App,
         WaitsFor(sched, t, "SEMAPHORE", Sem), sched'.state[t] = "READY",
         WaitsFor(sched', u, "SEMAPHORE", Sem)
  PROVE  sched.priority[t] <= sched.priority[u]
<1>0. /\ Ruled(sched) /\ sched \in SchedState /\ Placed(sched) /\ t \in Task /\ u \in Task
      /\ NULL \notin App
  BY AppTask, ConstantsAssumption DEF RuleInv, InterruptsOn, Ruled
<1>1. \A x \in Task : WaitsFor(sched, x, "SEMAPHORE", Sem)
                         => sched.state[x] = "BLOCKED" /\ On(sched, x, BlockedList)
  BY <1>0 DEF Ruled, WaitersBlocked, WaitsFor, Placed, StateTells
<1>2. CASE sched' = sched \/ sched' = scheduler_yield(sched)
  <2>1. sched'.state = sched.state
    BY <1>0, <1>2, YieldLemma
  <2> QED
    BY <1>0, <1>1, <2>1
<1>3. ASSUME NEW n \in Tick, sched.cur \in App,
             sched' = scheduler_block_task(sched, "SEMAPHORE", Sem, n)
      PROVE  FALSE
  <2>1. /\ sched'.state[sched.cur] = "BLOCKED"
        /\ \A y \in Task \ {sched.cur} : sched'.state[y] = sched.state[y]
    BY <1>0, <1>3, BlockLemma, SemConstants
  <2> QED
    BY <1>0, <1>1, <2>1
<1>4. CASE sched' = scheduler_unblock_one(sched, "SEMAPHORE", Sem, "OK") /\ sched' # sched
  <2>1. PICK b \in Task :
          /\ \A x \in Task : On(sched, x, BlockedList) /\ WaitsFor(sched, x, "SEMAPHORE", Sem)
                                 => sched.priority[b] <= sched.priority[x]
          /\ sched'.state = [sched.state EXCEPT ![b] = "READY"]
          /\ WaitOver(sched', sched, b, "OK")
    BY <1>0, <1>4, UnblockOneLemma, SemConstants
  <2>2. t = b
    BY <1>0, <1>1, <2>1 DEF SchedState
  <2>3. WaitsFor(sched, u, "SEMAPHORE", Sem)
    BY <1>0, <2>1 DEF WaitOver, SchedState, WaitsFor
  <2> QED
    BY <1>0, <1>1, <2>1, <2>2, <2>3
<1> QED
  BY <1>2, <1>3, <1>4 DEF SemEffect, unblock_all_begin

\* kernel/sync/semaphore.c, sem_give and sem_give_isr: the task a give makes
\* ready leaves no waiter of higher priority behind, for every number of tasks
\* and whatever changed their priorities while they waited; scheduler_unblock_task
\* is the scheduler's own and no application call.
THEOREM GiveAlwaysWakesBest ==
  ASSUME ~Racy, "unblock" \notin Calls
  PROVE  SemSpec => GiveWakesBest
<1> DEFINE Best == scan.job = "none" =>
             \A t, u \in App :
                 WaitsFor(sched, t, "SEMAPHORE", Sem) /\ sched'.state[t] = "READY"
                     /\ WaitsFor(sched', u, "SEMAPHORE", Sem)
                 => sched.priority[t] <= sched.priority[u]
<1>1. SemRuleInv /\ [SemNext]_allVars => [Best]_allVars
  <2> SUFFICES ASSUME SemRuleInv, SemNext, scan.job = "none", NEW t \in App, NEW u \in App,
                      WaitsFor(sched, t, "SEMAPHORE", Sem), sched'.state[t] = "READY",
                      WaitsFor(sched', u, "SEMAPHORE", Sem)
               PROVE  sched.priority[t] <= sched.priority[u]
    OBVIOUS
  <2>0. RuleInv /\ SyncTypes /\ t \in Task
    BY AppTask DEF SemRuleInv
  <2>1. CASE KernelStep
    <3>1. Next
      BY <2>1 DEF KernelStep, Next
    <3>2. kstate # "UNINIT"
      BY <2>0 DEF RuleInv, scheduler_init, WaitsFor
    <3>3. sched.state[t] = "BLOCKED"
      BY <2>0, <3>2 DEF RuleInv, Ruled, WaitersBlocked, WaitsFor
    <3>4. sched'.state[t] = "BLOCKED"
      BY <2>0, <3>1, <3>3, StaysBlocked
    <3> QED BY <3>4
  <2>2. CASE WakeLoop
    BY <2>2 DEF WakeLoop, unblock_all_scan, unblock_all_end
  <2>3. CASE Handler \/ \E x \in App : SemCall(x)
    <3>1. SemEffect /\ InterruptsOn
      BY <2>0, <2>3, CallIsEffect, HandlerIsEffect
    <3> QED BY <2>0, <3>1, EffectWakesBest
  <2> QED
    BY <2>1, <2>2, <2>3 DEF SemNext
<1> QED
  BY <1>1, SemRules, PTL DEF SemSpec, GiveWakesBest
=============================================================================
