----------------------------- MODULE TimerProofs -----------------------------
(***************************************************************************)
(* Proofs about the software timers, for any finite set of timers and any  *)
(* periods: the list survives every callback, every tick counts every      *)
(* timer once, and timers fire on time.                                    *)
(*                                                                         *)
(* Chain is the least closed set, so it comes with its induction: a closed *)
(* set that holds x holds Chain(l, x).  From that and from the end of the  *)
(* list (NULL is on the chain of the head) follows that no timer is its    *)
(* own successor's successor, and then what taking a timer off the list    *)
(* does to the chain of every other one (RemoveChain), the fact on which   *)
(* both the list and the walk rest.                                        *)
(***************************************************************************)
EXTENDS SwTimer, TLAPS

NextFun(l) == l.next \in [Timer -> Link]

-----------------------------------------------------------------------------
(* Chains *)

LEMMA ChainLeast ==
  ASSUME NEW l, NEW S \in SUBSET Link, NEW x \in S, Closed(l, S)
  PROVE  Chain(l, x) \subseteq S
BY DEF Chain

LEMMA ChainBasic ==
  ASSUME NEW l, NextFun(l), NEW x \in Link
  PROVE  /\ Chain(l, x) \in SUBSET Link /\ x \in Chain(l, x)
         /\ Closed(l, Chain(l, x))
<1>1. Chain(l, x) \in SUBSET Link /\ x \in Chain(l, x)
  BY DEF Chain
<1>2. ASSUME NEW t \in Chain(l, x) \ {NULL}
      PROVE  l.next[t] \in Chain(l, x)
  <2>1. t \in Timer /\ l.next[t] \in Link
    BY <1>1, <1>2 DEF Link, NextFun
  <2>2. ASSUME NEW S \in SUBSET Link, x \in S, Closed(l, S)
        PROVE  l.next[t] \in S
    BY <1>2, <2>2 DEF Chain, Closed
  <2> QED
    BY <2>1, <2>2 DEF Chain
<1> QED
  BY <1>1, <1>2 DEF Closed

\* What is reached from a member of a chain is on the chain.
LEMMA ChainFrom ==
  ASSUME NEW l, NextFun(l), NEW x \in Link, NEW y \in Chain(l, x)
  PROVE  Chain(l, y) \subseteq Chain(l, x)
BY ChainBasic, ChainLeast

LEMMA ChainNull ==
  ASSUME NEW l
  PROVE  Chain(l, NULL) = {NULL}
<1>1. {NULL} \in SUBSET Link /\ Closed(l, {NULL})
  BY DEF Link, Closed
<1>2. Chain(l, NULL) \subseteq {NULL}
  BY <1>1, ChainLeast
<1>3. NULL \in Chain(l, NULL)
  BY DEF Chain, Link
<1> QED
  BY <1>2, <1>3

\* The chain of a timer is the timer and the chain of its next.
LEMMA ChainUnfold ==
  ASSUME NEW l, NextFun(l), NEW t \in Timer
  PROVE  /\ l.next[t] \in Link
         /\ Chain(l, t) = {t} \cup Chain(l, l.next[t])
<1>1. t \in Link /\ t # NULL /\ l.next[t] \in Link
  BY TimerAssumption DEF NextFun, Link
<1>2. l.next[t] \in Chain(l, t) /\ t \in Chain(l, t)
  BY <1>1, ChainBasic DEF Closed
<1>3. Chain(l, l.next[t]) \subseteq Chain(l, t)
  BY <1>1, <1>2, ChainFrom
<1>4. Chain(l, l.next[t]) \in SUBSET Link /\ l.next[t] \in Chain(l, l.next[t])
      /\ Closed(l, Chain(l, l.next[t]))
  BY <1>1, ChainBasic
<1>5. Closed(l, {t} \cup Chain(l, l.next[t]))
  BY <1>4 DEF Closed
<1>6. Chain(l, t) \subseteq {t} \cup Chain(l, l.next[t])
  BY <1>1, <1>4, <1>5, ChainLeast
<1> QED
  BY <1>1, <1>2, <1>3, <1>6

\* A chain depends only on the links of its members.
LEMMA ChainFrame ==
  ASSUME NEW l, NextFun(l), NEW m, NextFun(m), NEW x \in Link,
         \A u \in Chain(l, x) \ {NULL} : m.next[u] = l.next[u]
  PROVE  Chain(m, x) = Chain(l, x)
<1>1. /\ Chain(l, x) \in SUBSET Link /\ x \in Chain(l, x) /\ Closed(l, Chain(l, x))
      /\ Chain(m, x) \in SUBSET Link /\ x \in Chain(m, x) /\ Closed(m, Chain(m, x))
  BY ChainBasic
<1>2. Closed(m, Chain(l, x))
  BY <1>1 DEF Closed
<1>3. Chain(m, x) \subseteq Chain(l, x)
  BY <1>1, <1>2, ChainLeast
<1>4. Closed(l, Chain(m, x))
  BY <1>1, <1>3 DEF Closed
<1>5. Chain(l, x) \subseteq Chain(m, x)
  BY <1>1, <1>4, ChainLeast
<1> QED
  BY <1>3, <1>5

\* On a list that ends, everything ends.
LEMMA ChainEnds ==
  ASSUME NEW l, NextFun(l), NEW h \in Link, NULL \in Chain(l, h),
         NEW x \in Chain(l, h)
  PROVE  NULL \in Chain(l, x)
<1> DEFINE S == {y \in Chain(l, h) : NULL \in Chain(l, y)}
<1>1. S \in SUBSET Link /\ h \in S
  BY ChainBasic
<1>2. ASSUME NEW t \in S \ {NULL}
      PROVE  l.next[t] \in S
  <2>1. t \in Timer /\ t \in Chain(l, h) /\ NULL \in Chain(l, t)
    BY <1>1, <1>2 DEF Link
  <2>2. l.next[t] \in Chain(l, h)
    BY <2>1, ChainBasic, <1>2 DEF Closed
  <2>3. NULL \in Chain(l, l.next[t])
    BY <2>1, ChainUnfold, TimerAssumption
  <2> QED
    BY <2>2, <2>3
<1>3. Closed(l, S)
  BY <1>2 DEF Closed
<1>4. Chain(l, h) \subseteq S
  BY <1>1, <1>3, ChainLeast
<1> QED
  BY <1>4

\* On a list that ends, no timer comes back.
LEMMA ChainAcyclic ==
  ASSUME NEW l, NextFun(l), NEW t \in Timer, NULL \in Chain(l, t)
  PROVE  t \notin Chain(l, l.next[t])
<1> SUFFICES ASSUME t \in Chain(l, l.next[t])
             PROVE  FALSE
  OBVIOUS
<1>0. l.next[t] \in Link /\ NULL \in Chain(l, l.next[t])
  BY ChainUnfold, TimerAssumption
<1> DEFINE S == {y \in Chain(l, l.next[t]) : t \in Chain(l, y)}
<1>1. S \in SUBSET Link /\ l.next[t] \in S
  BY <1>0, ChainBasic
<1>2. ASSUME NEW y \in S \ {NULL}
      PROVE  l.next[y] \in S
  <2>1. y \in Timer /\ y \in Chain(l, l.next[t]) /\ t \in Chain(l, y)
    BY <1>1, <1>2 DEF Link
  <2>2. l.next[y] \in Chain(l, l.next[t])
    BY <1>0, <1>2, <2>1, ChainBasic DEF Closed
  <2>3. t \in Chain(l, l.next[y])
    <3>1. CASE y = t
      BY <3>1
    <3>2. CASE y # t
      BY <2>1, <3>2, ChainUnfold
    <3> QED
      BY <3>1, <3>2
  <2> QED
    BY <2>2, <2>3
<1>3. Closed(l, S)
  BY <1>2 DEF Closed
<1>4. NULL \in S
  BY <1>0, <1>1, <1>3, ChainLeast
<1>5. t \in {NULL}
  BY <1>4, ChainNull
<1> QED
  BY <1>5, TimerAssumption

\* Nothing on a list that ends leads back to its head.
LEMMA HeadNotReached ==
  ASSUME NEW l, NextFun(l), NEW t \in Timer, NULL \in Chain(l, t),
         NEW x \in Chain(l, t), x # t
  PROVE  t \notin Chain(l, x)
<1>1. l.next[t] \in Link /\ x \in Chain(l, l.next[t])
  BY ChainUnfold
<1>2. Chain(l, x) \subseteq Chain(l, l.next[t])
  BY <1>1, ChainFrom
<1> QED
  BY <1>2, ChainAcyclic

-----------------------------------------------------------------------------
(* The operations on the list *)

ActiveOf(l) == {t \in Timer : l.active[t]}
SoundList(l) == l \in ListState /\ Chain(l, l.head) = ActiveOf(l) \cup {NULL}

\* Only links and the active fields may differ.
SameCounts(r, l) ==
    /\ r.created = l.created /\ r.period = l.period
    /\ r.remaining = l.remaining /\ r.periodic = l.periodic

LEMMA RemoveFields ==
  ASSUME NEW l \in ListState, NEW t \in Timer, t \in Chain(l, l.head),
         NEW r, r = timer_list_remove(l, t)
  PROVE  /\ r \in ListState /\ SameCounts(r, l)
         /\ r.active = [l.active EXCEPT ![t] = FALSE]
<1>1. PICK A \in [Timer -> BOOLEAN], N \in [Timer -> Link], D \in [Timer -> Link] :
         /\ A = [l.active EXCEPT ![t] = FALSE] /\ N = [l.next EXCEPT ![t] = NULL]
         /\ D = [u \in Timer |->
                   IF u \in Chain(l, l.head) /\ l.next[u] = t THEN l.next[t] ELSE N[u]]
  <2>1. /\ [l.active EXCEPT ![t] = FALSE] \in [Timer -> BOOLEAN]
        /\ [l.next EXCEPT ![t] = NULL] \in [Timer -> Link]
        /\ l.next \in [Timer -> Link]
    BY DEF ListState, Link
  <2> QED
    BY <2>1
<1>2. CASE l.head = t
  <2>1. r = [l EXCEPT !.next = N, !.active = A, !.head = l.next[t]]
    BY <1>1, <1>2 DEF timer_list_remove, ListState
  <2>2. l.next[t] \in Link
    BY DEF ListState
  <2> QED
    BY <1>1, <2>1, <2>2 DEF ListState, SameCounts
<1>3. CASE l.head # t
  <2>1. r = [l EXCEPT !.next = D, !.active = A]
    BY <1>1, <1>3 DEF timer_list_remove, ListState
  <2> QED
    BY <1>1, <2>1 DEF ListState, SameCounts
<1> QED
  BY <1>2, <1>3

LEMMA RemoveHead ==
  ASSUME NEW l \in ListState, NEW t \in Timer, t \in Chain(l, l.head), l.head = t,
         NEW r, r = timer_list_remove(l, t)
  PROVE  /\ r.head = l.next[t]
         /\ \A u \in Timer \ {t} : r.next[u] = l.next[u]
BY DEF timer_list_remove, ListState

LEMMA RemoveInner ==
  ASSUME NEW l \in ListState, NEW t \in Timer, t \in Chain(l, l.head), l.head # t,
         NEW r, r = timer_list_remove(l, t)
  PROVE  /\ r.head = l.head
         /\ \A u \in Timer \cap Chain(l, l.head) :
               /\ l.next[u] = t => r.next[u] = l.next[t]
               /\ l.next[u] # t /\ u # t => r.next[u] = l.next[u]
BY DEF timer_list_remove, ListState

\* A timer taken off the list is off the chain of the head and off that of
\* every other member, and nothing else is.
LEMMA RemoveChain ==
  ASSUME NEW l \in ListState, NULL \in Chain(l, l.head),
         NEW t \in Timer, t \in Chain(l, l.head),
         NEW r, r = timer_list_remove(l, t)
  PROVE  /\ Chain(r, r.head) = Chain(l, l.head) \ {t}
         /\ \A x \in Chain(l, l.head) \ {t} : Chain(r, x) = Chain(l, x) \ {t}
<1> DEFINE C == Chain(l, l.head)
<1>a. r \in ListState
  BY RemoveFields
<1>0. /\ NextFun(l) /\ l.head \in Link /\ l.next[t] \in Link /\ t # NULL
      /\ r \in ListState /\ NextFun(r) /\ r.head \in Link
  BY <1>a, TimerAssumption DEF ListState, NextFun
<1>1. /\ C \in SUBSET Link /\ l.head \in C /\ Closed(l, C)
  BY <1>0, ChainBasic
<1>2. NULL \in Chain(l, t) /\ t \notin Chain(l, l.next[t])
  BY <1>0, ChainEnds, ChainAcyclic
<1>3. Chain(l, t) = {t} \cup Chain(l, l.next[t])
  BY <1>0, ChainUnfold
<1>4. l.next[t] # t
  BY <1>0, <1>2, ChainBasic
<1>5. CASE l.head = t
  <2>1. r.head = l.next[t] /\ \A u \in Timer \ {t} : r.next[u] = l.next[u]
    BY <1>5, RemoveHead
  <2>2. ASSUME NEW x \in C \ {t}
        PROVE  Chain(r, x) = Chain(l, x) \ {t}
    <3>1. x \in Link /\ t \notin Chain(l, x) /\ Chain(l, x) \in SUBSET Link
      BY <1>0, <1>1, <1>2, <1>5, <2>2, HeadNotReached, ChainBasic
    <3>2. \A u \in Chain(l, x) \ {NULL} : r.next[u] = l.next[u]
      BY <1>0, <2>1, <3>1 DEF Link, NextFun
    <3>3. Chain(r, x) = Chain(l, x)
      BY <1>0, <3>1, <3>2, ChainFrame
    <3> QED
      BY <3>1, <3>3
  <2>3. l.next[t] \in C \ {t}
    BY <1>0, <1>1, <1>4 DEF Closed
  <2>4. Chain(r, r.head) = C \ {t}
    BY <1>2, <1>3, <1>5, <2>1, <2>2, <2>3
  <2> QED
    BY <2>2, <2>4
<1>6. CASE l.head # t
  <2>1. /\ r.head = l.head
        /\ \A u \in C \ {NULL} :
             /\ u \in Timer
             /\ l.next[u] = t => r.next[u] = l.next[t]
             /\ l.next[u] # t /\ u # t => r.next[u] = l.next[u]
    BY <1>1, <1>6, RemoveInner DEF Link
  <2>2. ASSUME NEW x \in C \ {t}
        PROVE  Chain(r, x) = Chain(l, x) \ {t}
    <3>0. /\ x \in Link /\ Chain(l, x) \subseteq C
          /\ Chain(l, x) \in SUBSET Link /\ x \in Chain(l, x) /\ Closed(l, Chain(l, x))
          /\ Chain(r, x) \in SUBSET Link /\ x \in Chain(r, x) /\ Closed(r, Chain(r, x))
      BY <1>0, <1>1, <2>2, ChainFrom, ChainBasic
    <3>1. Closed(r, Chain(l, x) \ {t})
      <4>1. SUFFICES ASSUME NEW u \in Chain(l, x) \ {t, NULL}
                     PROVE  r.next[u] \in Chain(l, x) \ {t}
        BY DEF Closed
      <4>2. u \in C \ {NULL} /\ l.next[u] \in Chain(l, x)
        BY <3>0, <4>1 DEF Closed
      <4>3. CASE l.next[u] = t
        BY <1>0, <1>4, <2>1, <3>0, <4>2, <4>3 DEF Closed
      <4>4. CASE l.next[u] # t
        BY <2>1, <4>1, <4>2, <4>4
      <4> QED
        BY <4>3, <4>4
    <3>2. Chain(r, x) \subseteq Chain(l, x) \ {t}
      BY <2>2, <3>0, <3>1, ChainLeast
    <3> DEFINE S == {y \in Chain(l, x) : /\ y # t => y \in Chain(r, x)
                                         /\ y = t => l.next[t] \in Chain(r, x)}
    <3>3. S \in SUBSET Link /\ x \in S
      BY <2>2, <3>0
    <3>4. Closed(l, S)
      <4>1. SUFFICES ASSUME NEW u \in S \ {NULL}
                     PROVE  l.next[u] \in S
        BY DEF Closed
      <4>2. u \in Chain(l, x) /\ u \in C \ {NULL} /\ l.next[u] \in Chain(l, x)
        BY <3>0, <4>1 DEF Closed
      <4>3. CASE u = t
        BY <1>4, <4>1, <4>2, <4>3
      <4>4. CASE u # t
        <5>0. u \in Chain(r, x) \ {NULL}
          BY <4>1, <4>4
        <5>1. r.next[u] \in Chain(r, x)
          BY <3>0, <5>0 DEF Closed
        <5> QED
          BY <2>1, <4>2, <4>4, <5>1
      <4> QED
        BY <4>3, <4>4
    <3>5. Chain(l, x) \subseteq S
      BY <3>3, <3>4, ChainLeast
    <3> QED
      BY <3>2, <3>5
  <2>3. Chain(r, r.head) = C \ {t}
    BY <1>1, <1>6, <2>1, <2>2
  <2> QED
    BY <2>2, <2>3
<1> QED
  BY <1>5, <1>6
\* A chain depends on the links alone.
LEMMA SameLinks ==
  ASSUME NEW l, NEW r, r.next = l.next
  PROVE  \A x : Chain(r, x) = Chain(l, x)
BY DEF Chain, Closed

Added(r, l, t) ==
    /\ r \in ListState /\ SameCounts(r, l)
    /\ r.active = [l.active EXCEPT ![t] = TRUE]
    /\ Chain(r, r.head) = {t} \cup Chain(l, l.head)
    /\ \A x \in Chain(l, l.head) : Chain(r, x) = Chain(l, x)

LEMMA AddChain ==
  ASSUME NEW l \in ListState, NEW t \in Timer, t \notin Chain(l, l.head),
         NEW r, r = timer_list_add(l, t)
  PROVE  Added(r, l, t)
<1>1. PICK A \in [Timer -> BOOLEAN], N \in [Timer -> Link] :
         A = [l.active EXCEPT ![t] = TRUE] /\ N = [l.next EXCEPT ![t] = l.head]
  BY DEF ListState
<1>2. r = [l EXCEPT !.next = N, !.head = t, !.active = A] /\ t \in Link
  BY <1>1 DEF timer_list_add, ListState, Link
<1>3. r \in ListState /\ SameCounts(r, l) /\ r.active = A /\ r.next = N /\ r.head = t
  BY <1>1, <1>2 DEF ListState, SameCounts
<1>4. NextFun(l) /\ NextFun(r) /\ l.head \in Link
      /\ r.next[t] = l.head /\ \A u \in Timer \ {t} : r.next[u] = l.next[u]
  BY <1>1, <1>3 DEF ListState, NextFun
<1>5. ASSUME NEW x \in Chain(l, l.head)
      PROVE  Chain(r, x) = Chain(l, x)
  <2>1. x \in Link /\ Chain(l, x) \in SUBSET Link /\ t \notin Chain(l, x)
    BY <1>4, <1>5, ChainBasic, ChainFrom
  <2>2. \A u \in Chain(l, x) \ {NULL} : r.next[u] = l.next[u]
    BY <1>4, <2>1 DEF Link
  <2> QED
    BY <1>4, <2>1, <2>2, ChainFrame
<1>6. l.head \in Chain(l, l.head)
  BY <1>4, ChainBasic
<1>7. Chain(r, t) = {t} \cup Chain(r, l.head)
  BY <1>4, ChainUnfold
<1> QED
  BY <1>1, <1>3, <1>5, <1>6, <1>7 DEF Added

\* What a change of the timer t leaves of the rest of the list: the others
\* stay linked in the order they had.
OthersKept(r, l, t) ==
    \A x \in Chain(l, l.head) \ {t} :
        x \in Chain(r, r.head) /\ Chain(r, x) = Chain(l, x) \ {t}

LEMMA RemoveSound ==
  ASSUME NEW l, SoundList(l), NEW t \in Timer, l.active[t],
         NEW r, r = timer_list_remove(l, t)
  PROVE  /\ SoundList(r) /\ SameCounts(r, l) /\ OthersKept(r, l, t)
         /\ r.active = [l.active EXCEPT ![t] = FALSE] /\ t \notin Chain(r, r.head)
<1>1. l \in ListState /\ NULL \in Chain(l, l.head) /\ t \in Chain(l, l.head)
  BY DEF SoundList, ActiveOf
<1>2. r \in ListState /\ SameCounts(r, l) /\ r.active = [l.active EXCEPT ![t] = FALSE]
  BY <1>1, RemoveFields
<1>3. Chain(r, r.head) = Chain(l, l.head) \ {t} /\ OthersKept(r, l, t)
  BY <1>1, RemoveChain DEF OthersKept
<1>4. ActiveOf(r) = ActiveOf(l) \ {t}
  BY <1>1, <1>2 DEF ActiveOf, ListState
<1>5. t # NULL
  BY TimerAssumption
<1>6. SoundList(r)
  BY <1>2, <1>3, <1>4, <1>5 DEF SoundList
<1> QED
  BY <1>2, <1>3, <1>6

LEMMA UnlistedSound ==
  ASSUME NEW l, SoundList(l), NEW t \in Timer, NEW r, r = Unlisted(l, t)
  PROVE  /\ SoundList(r) /\ SameCounts(r, l) /\ OthersKept(r, l, t)
         /\ r.active = [l.active EXCEPT ![t] = FALSE] /\ t \notin Chain(r, r.head)
<1>1. CASE l.active[t]
  BY <1>1, RemoveSound DEF Unlisted
<1>2. CASE ~l.active[t]
  <2>1. r = l /\ l.active = [l.active EXCEPT ![t] = FALSE]
    BY <1>2 DEF Unlisted, SoundList, ListState
  <2>2. t \notin Chain(l, l.head)
    BY <1>2, TimerAssumption DEF SoundList, ActiveOf
  <2>3. NextFun(l) /\ l.head \in Link
    BY DEF SoundList, ListState, NextFun
  <2>4. \A x \in Chain(l, l.head) : t \notin Chain(l, x)
    BY <2>2, <2>3, ChainFrom
  <2> QED
    BY <2>1, <2>2, <2>4 DEF SameCounts, OthersKept
<1> QED
  BY <1>1, <1>2

LEMMA StartSound ==
  ASSUME NEW l, SoundList(l), NEW t \in Timer, NEW p \in Nat, NEW b \in BOOLEAN,
         NEW r, r = start(l, t, p, b)
  PROVE  /\ SoundList(r) /\ OthersKept(r, l, t)
         /\ r.active = [l.active EXCEPT ![t] = TRUE]
         /\ r.period = [l.period EXCEPT ![t] = p]
         /\ r.remaining = [l.remaining EXCEPT ![t] = p]
<1>1. PICK a : a = Unlisted(l, t)
  OBVIOUS
<1>2. /\ SoundList(a) /\ SameCounts(a, l) /\ OthersKept(a, l, t)
      /\ a.active = [l.active EXCEPT ![t] = FALSE] /\ t \notin Chain(a, a.head)
  BY <1>1, UnlistedSound
<1>3. PICK P \in [Timer -> Nat], R \in [Timer -> Nat], B \in [Timer -> BOOLEAN] :
         /\ P = [a.period EXCEPT ![t] = p] /\ R = [a.remaining EXCEPT ![t] = p]
         /\ B = [a.periodic EXCEPT ![t] = b]
  BY <1>2 DEF SoundList, ListState
<1>4. PICK c : c = [a EXCEPT !.period = P, !.remaining = R, !.periodic = B]
  OBVIOUS
<1>5. r = timer_list_add(c, t)
  BY <1>1, <1>2, <1>3, <1>4 DEF start, SoundList, ListState
<1>6. /\ c \in ListState /\ c.next = a.next /\ c.head = a.head /\ c.active = a.active
      /\ c.period = P /\ c.remaining = R
  BY <1>2, <1>3, <1>4 DEF SoundList, ListState
<1>7. \A x : Chain(c, x) = Chain(a, x)
  BY <1>6, SameLinks
<1>8. t \notin Chain(c, c.head)
  BY <1>2, <1>6, <1>7
<1>9. /\ r \in ListState /\ SameCounts(r, c)
      /\ r.active = [c.active EXCEPT ![t] = TRUE]
      /\ Chain(r, r.head) = {t} \cup Chain(c, c.head)
      /\ \A x \in Chain(c, c.head) : Chain(r, x) = Chain(c, x)
  <2>1. Added(r, c, t)
    BY <1>5, <1>6, <1>8, AddChain
  <2> QED
    BY <2>1 DEF Added
<1>10. OthersKept(r, l, t)
  BY <1>2, <1>6, <1>7, <1>9 DEF OthersKept
<1>11. r.active = [l.active EXCEPT ![t] = TRUE]
  BY <1>2, <1>6, <1>9 DEF SoundList, ListState
<1>12. ActiveOf(r) = ActiveOf(a) \cup {t}
  BY <1>2, <1>6, <1>9 DEF ActiveOf, SoundList, ListState
<1>13. Chain(r, r.head) = ActiveOf(r) \cup {NULL}
  BY <1>2, <1>6, <1>7, <1>9, <1>12 DEF SoundList
<1>14. /\ r.period = [l.period EXCEPT ![t] = p]
       /\ r.remaining = [l.remaining EXCEPT ![t] = p]
  BY <1>2, <1>3, <1>6, <1>9 DEF SameCounts
<1> QED
  BY <1>9, <1>10, <1>11, <1>13, <1>14 DEF SoundList

-----------------------------------------------------------------------------
(* The inductive invariant *)

\* Where the walk goes on.
Ahead == IF walk.at = "visit" THEN walk.iter ELSE walk.next

\* The walk is on the list and has all that is to be counted before it.
WalkSound ==
    walk.at # "idle" /\ ~disturbed =>
        Ahead \in Chain(list, list.head) /\ Chain(list, Ahead) \ {NULL} = todo

\* A timer that this tick has yet to count is one tick behind, also in a walk
\* that a callback has disturbed.
InTime ==
    \A t \in Timer \ slipped : list.active[t] =>
        age[t] + list.remaining[t] = IF t \in todo THEN list.period[t] + 1
                                     ELSE list.period[t]

TimerInv ==
    /\ TimerListSound
    /\ age \in [Timer -> Int] /\ todo \in SUBSET Timer /\ disturbed \in BOOLEAN
    /\ walk.at = "idle" => todo = {}
    /\ \A t \in Timer : list.active[t] => list.remaining[t] > 0 /\ list.period[t] > 0
    /\ WalkSound
    /\ InTime
LEMMA InvParts ==
  ASSUME TimerInv
  PROVE  /\ SoundList(list) /\ list \in ListState /\ walk \in WalkState
         /\ NextFun(list) /\ list.head \in Link
BY DEF TimerInv, TimerListSound, SoundList, ActiveOf, ListState, NextFun

\* A call of timer_create, timer_start or timer_stop for t, by a task or by the
\* callback that is running: the walk goes on behind t unless t is its next.
LEMMA CallStep ==
  ASSUME TimerInv, NEW t \in Timer, CallerRuns, Touch(t),
         SoundList(list'), OthersKept(list', list, t), age' = [age EXCEPT ![t] = 0],
         \A u \in Timer \ {t} : /\ list'.active[u] = list.active[u]
                                 /\ list'.remaining[u] = list.remaining[u]
                                 /\ list'.period[u] = list.period[u],
         list'.active[t] => list'.period[t] > 0 /\ list'.remaining[t] = list'.period[t]
  PROVE  TimerInv'
<1>0. /\ walk' = walk /\ walk \in WalkState /\ todo' = todo \ {t}
      /\ slipped' = slipped \ {t}
      /\ disturbed' = (disturbed \/ (walk.at = "callback" /\ t = walk.next))
      /\ walk.at \in {"idle", "callback"} /\ todo \in SUBSET Timer
      /\ disturbed \in BOOLEAN /\ age \in [Timer -> Int]
      /\ walk.at = "idle" => todo = {}
  BY InvParts DEF Touch, CallerRuns, TimerInv
<1>1. TimerListSound'
  BY <1>0 DEF TimerListSound, SoundList, ActiveOf
<1>2. /\ age' \in [Timer -> Int] /\ todo' \in SUBSET Timer /\ disturbed' \in BOOLEAN
      /\ walk'.at = "idle" => todo' = {}
  BY <1>0
<1>3. \A u \in Timer : list'.active[u] => list'.remaining[u] > 0 /\ list'.period[u] > 0
  BY DEF TimerInv
<1>4. WalkSound'
  <2>1. SUFFICES ASSUME walk.at = "callback", ~disturbed, t # walk.next
                 PROVE  /\ walk.next \in Chain(list', list'.head)
                        /\ Chain(list', walk.next) \ {NULL} = todo \ {t}
    BY <1>0 DEF WalkSound, Ahead
  <2>2. walk.next \in Chain(list, list.head) /\ Chain(list, walk.next) \ {NULL} = todo
    BY <2>1 DEF TimerInv, WalkSound, Ahead
  <2> QED
    BY <2>1, <2>2 DEF OthersKept
<1>5. InTime'
  <2>1. SUFFICES ASSUME NEW u \in Timer, u \notin slipped \ {t}, list'.active[u]
                 PROVE  age'[u] + list'.remaining[u] =
                          IF u \in todo' THEN list'.period[u] + 1 ELSE list'.period[u]
    BY <1>0 DEF InTime
  <2>2. list'.period[u] \in Nat
    BY DEF SoundList, ListState
  <2>3. CASE u = t
    <3>1. age'[u] = 0 /\ u \notin todo' /\ list'.remaining[u] = list'.period[u]
      BY <1>0, <2>1, <2>3
    <3> QED
      BY <2>2, <3>1
  <2>4. CASE u # t
    <3>1. age'[u] = age[u] /\ (u \in todo' <=> u \in todo)
      BY <1>0, <2>4
    <3> QED
      BY <2>1, <2>4, <3>1 DEF TimerInv, InTime
  <2> QED
    BY <2>3, <2>4
<1> QED
  BY <1>1, <1>2, <1>3, <1>4, <1>5 DEF TimerInv

LEMMA CreateStep ==
  ASSUME TimerInv, NEW t \in Timer, timer_create(t)
  PROVE  TimerInv'
<1>0. /\ SoundList(list) /\ list \in ListState /\ NextFun(list) /\ list.head \in Link
      /\ ~list.active[t]
  BY InvParts DEF timer_create
<1>1. PICK P \in [Timer -> Nat], R \in [Timer -> Nat], B \in [Timer -> BOOLEAN],
           K \in [Timer -> BOOLEAN], N \in [Timer -> Link] :
         /\ P = [list.period EXCEPT ![t] = 0] /\ R = [list.remaining EXCEPT ![t] = 0]
         /\ B = [list.periodic EXCEPT ![t] = FALSE] /\ K = [list.created EXCEPT ![t] = TRUE]
         /\ N = [list.next EXCEPT ![t] = NULL]
  BY <1>0 DEF ListState, Link
<1>2. list' = [list EXCEPT !.period = P, !.remaining = R, !.periodic = B, !.created = K,
                           !.next = N]
  BY <1>0, <1>1 DEF timer_create, ListState
<1>3. /\ list' \in ListState /\ list'.active = list.active /\ list'.head = list.head
      /\ list'.period = P /\ list'.remaining = R /\ list'.next = N
  BY <1>0, <1>1, <1>2 DEF ListState
<1>4. t \notin Chain(list, list.head)
  BY <1>0, TimerAssumption DEF SoundList, ActiveOf
<1>5. NextFun(list') /\ \A u \in Timer \ {t} : list'.next[u] = list.next[u]
  BY <1>0, <1>1, <1>3 DEF NextFun
<1>6. ASSUME NEW x \in Chain(list, list.head)
      PROVE  t \notin Chain(list, x) /\ Chain(list', x) = Chain(list, x)
  <2>1. x \in Link /\ Chain(list, x) \in SUBSET Link /\ t \notin Chain(list, x)
    BY <1>0, <1>4, <1>6, ChainBasic, ChainFrom
  <2>2. \A u \in Chain(list, x) \ {NULL} : list'.next[u] = list.next[u]
    BY <1>5, <2>1 DEF Link
  <2>3. Chain(list', x) = Chain(list, x)
    BY <1>0, <1>5, <2>1, <2>2, ChainFrame
  <2> QED
    BY <2>1, <2>3
<1>7. Chain(list', list'.head) = Chain(list, list.head)
  BY <1>0, <1>3, <1>6, ChainBasic
<1>8. SoundList(list') /\ OthersKept(list', list, t)
  BY <1>0, <1>3, <1>6, <1>7 DEF SoundList, ActiveOf, OthersKept
<1>9. /\ \A u \in Timer \ {t} : /\ list'.active[u] = list.active[u]
                                 /\ list'.remaining[u] = list.remaining[u]
                                 /\ list'.period[u] = list.period[u]
      /\ ~list'.active[t]
  BY <1>0, <1>1, <1>3 DEF ListState
<1>10. CallerRuns /\ Touch(t) /\ age' = [age EXCEPT ![t] = 0]
  BY DEF timer_create
<1> QED
  BY <1>8, <1>9, <1>10, CallStep

LEMMA StartStep ==
  ASSUME TimerInv, NEW t \in Timer, NEW p \in Periods, NEW b \in BOOLEAN,
         timer_start(t, p, b)
  PROVE  TimerInv'
<1>0. SoundList(list) /\ list \in ListState /\ p \in Nat /\ p > 0
  BY InvParts, TimerAssumption
<1>1. /\ SoundList(list') /\ OthersKept(list', list, t)
      /\ list'.active = [list.active EXCEPT ![t] = TRUE]
      /\ list'.period = [list.period EXCEPT ![t] = p]
      /\ list'.remaining = [list.remaining EXCEPT ![t] = p]
  BY <1>0, StartSound DEF timer_start
<1>2. /\ \A u \in Timer \ {t} : /\ list'.active[u] = list.active[u]
                                 /\ list'.remaining[u] = list.remaining[u]
                                 /\ list'.period[u] = list.period[u]
      /\ list'.period[t] > 0 /\ list'.remaining[t] = list'.period[t]
  BY <1>0, <1>1 DEF ListState
<1>3. CallerRuns /\ Touch(t) /\ age' = [age EXCEPT ![t] = 0]
  BY DEF timer_start
<1> QED
  BY <1>1, <1>2, <1>3, CallStep

LEMMA StopStep ==
  ASSUME TimerInv, NEW t \in Timer, timer_stop(t)
  PROVE  TimerInv'
<1>0. SoundList(list) /\ list \in ListState /\ list.active[t]
  BY InvParts DEF timer_stop
<1>1. /\ SoundList(list') /\ OthersKept(list', list, t) /\ SameCounts(list', list)
      /\ list'.active = [list.active EXCEPT ![t] = FALSE]
  BY <1>0, RemoveSound DEF timer_stop
<1>2. /\ \A u \in Timer \ {t} : /\ list'.active[u] = list.active[u]
                                 /\ list'.remaining[u] = list.remaining[u]
                                 /\ list'.period[u] = list.period[u]
      /\ ~list'.active[t]
  BY <1>0, <1>1 DEF ListState, SameCounts
<1>3. CallerRuns /\ Touch(t) /\ age' = [age EXCEPT ![t] = 0]
  BY DEF timer_stop
<1> QED
  BY <1>1, <1>2, <1>3, CallStep
-----------------------------------------------------------------------------
(* The walk *)

\* What one iteration does before its callback to the list l, with n ticks
\* left to the timer t: only t changes, and what does not lead to t is kept.
Visited(r, l, t, n) ==
    /\ \A x \in Chain(l, l.head) : x # t /\ t \notin Chain(l, x) =>
          x \in Chain(r, r.head) /\ Chain(r, x) = Chain(l, x)
    /\ \A u \in Timer \ {t} : /\ r.active[u] = l.active[u]
                               /\ r.remaining[u] = l.remaining[u]
                               /\ r.period[u] = l.period[u]
    /\ r.period[t] = l.period[t]
    /\ r.active[t] => /\ l.active[t]
                      /\ r.remaining[t] = IF n = 0 THEN l.period[t] ELSE n

LEMMA VisitSound ==
  ASSUME NEW l, SoundList(l), NEW t \in Timer, NEW n \in Nat, NEW a, NEW r,
         a = [l EXCEPT !.remaining[t] = n],
         r = IF n = 0 THEN expire(a, t) ELSE a
  PROVE  SoundList(r) /\ Visited(r, l, t, n)
<1>0. l \in ListState
  BY DEF SoundList
<1>1. PICK R \in [Timer -> Nat] : R = [l.remaining EXCEPT ![t] = n]
  BY <1>0 DEF ListState
<1>2. a = [l EXCEPT !.remaining = R]
  BY <1>0, <1>1 DEF ListState
<1>3. /\ a \in ListState /\ a.next = l.next /\ a.head = l.head /\ a.active = l.active
      /\ a.period = l.period /\ a.remaining = R /\ a.periodic = l.periodic
  BY <1>0, <1>1, <1>2 DEF ListState
<1>4. /\ \A x : Chain(a, x) = Chain(l, x)
      /\ SoundList(a)
  <2>1. \A x : Chain(a, x) = Chain(l, x)
    BY <1>3, SameLinks
  <2>2. ActiveOf(a) = ActiveOf(l)
    BY <1>3 DEF ActiveOf
  <2>3. SoundList(a)
    BY <1>3, <2>1, <2>2 DEF SoundList
  <2> QED
    BY <2>1, <2>3
<1>5. /\ \A u \in Timer \ {t} : a.remaining[u] = l.remaining[u]
      /\ a.remaining[t] = n
  BY <1>0, <1>1, <1>3 DEF ListState
<1>6. CASE n # 0
  BY <1>3, <1>4, <1>5, <1>6 DEF Visited
<1>7. CASE n = 0 /\ l.periodic[t]
  <2>1. PICK Q \in [Timer -> Nat] : Q = [a.remaining EXCEPT ![t] = l.period[t]]
    BY <1>0, <1>3 DEF ListState
  <2>2. r = [a EXCEPT !.remaining = Q]
    BY <1>3, <1>7, <2>1 DEF expire, ListState
  <2>3. /\ r \in ListState /\ r.next = a.next /\ r.head = a.head /\ r.active = a.active
        /\ r.period = a.period /\ r.remaining = Q
    BY <1>3, <2>1, <2>2 DEF ListState
  <2>4. /\ \A x : Chain(r, x) = Chain(a, x)
        /\ SoundList(r)
    BY <1>4, <2>3, SameLinks DEF SoundList, ActiveOf
  <2>5. /\ \A u \in Timer \ {t} : r.remaining[u] = a.remaining[u]
        /\ r.remaining[t] = l.period[t]
    BY <1>3, <2>1, <2>3 DEF ListState
  <2> QED
    BY <1>3, <1>4, <1>5, <1>7, <2>3, <2>4, <2>5 DEF Visited
<1>8. CASE n = 0 /\ ~l.periodic[t] /\ l.active[t]
  <2>1. r = timer_list_remove(a, t) /\ a.active[t]
    BY <1>3, <1>8 DEF expire
  <2>2. /\ SoundList(r) /\ SameCounts(r, a) /\ OthersKept(r, a, t)
        /\ r.active = [a.active EXCEPT ![t] = FALSE]
    BY <1>4, <2>1, RemoveSound
  <2>3. /\ \A u \in Timer \ {t} : r.active[u] = a.active[u]
        /\ ~r.active[t]
    BY <1>3, <2>2 DEF ListState
  <2>4. \A x \in Chain(l, l.head) : x # t /\ t \notin Chain(l, x) =>
               x \in Chain(r, r.head) /\ Chain(r, x) = Chain(l, x)
    BY <1>3, <1>4, <2>2 DEF OthersKept
  <2> QED
    BY <1>3, <1>5, <2>2, <2>3, <2>4 DEF SameCounts, Visited
<1>9. CASE n = 0 /\ ~l.periodic[t] /\ ~l.active[t]
  <2>1. t \notin Chain(a, a.head)
    BY <1>3, <1>4, <1>9, TimerAssumption DEF SoundList, ActiveOf
  <2>2. r = a
    BY <1>3, <1>9, <2>1 DEF expire, timer_list_remove
  <2> QED
    BY <1>3, <1>4, <1>5, <1>9, <2>2 DEF Visited
<1> QED
  BY <1>6, <1>7, <1>8, <1>9

LEMMA VisitStep ==
  ASSUME TimerInv, tick_step
  PROVE  TimerInv'
<1>0. /\ SoundList(list) /\ list \in ListState /\ walk \in WalkState
      /\ NextFun(list) /\ list.head \in Link /\ walk.at = "visit" /\ walk.iter # NULL
      /\ age \in [Timer -> Int] /\ todo \in SUBSET Timer /\ disturbed \in BOOLEAN
  BY InvParts DEF tick_step, TimerInv
<1>1. PICK t \in Timer : t = walk.iter
  BY <1>0 DEF WalkState, Link
<1>2. PICK n \in Nat : n = count_down(list.remaining[t])
  BY <1>0 DEF ListState, count_down
<1>3. PICK a : a = [list EXCEPT !.remaining[t] = n]
  OBVIOUS
<1>4. /\ list' = IF n = 0 THEN expire(a, t) ELSE a
      /\ walk' = IF n = 0 THEN [at |-> "callback", iter |-> t, next |-> list.next[t]]
                 ELSE [walk EXCEPT !.iter = list.next[t]]
      /\ age' = IF n = 0 THEN [age EXCEPT ![t] = 0] ELSE age
      /\ todo' = todo \ {t} /\ disturbed' = disturbed
      /\ slipped' = IF n = 0 THEN slipped \ {t}
                    ELSE IF disturbed THEN slipped \cup ({t} \ todo) ELSE slipped
  BY <1>1, <1>2, <1>3 DEF tick_step, tick_visit, saved_next
<1>5. SoundList(list') /\ Visited(list', list, t, n)
  BY <1>0, <1>3, <1>4, VisitSound
<1>6. \A x \in Chain(list, list.head) : x # t /\ t \notin Chain(list, x) =>
         x \in Chain(list', list'.head) /\ Chain(list', x) = Chain(list, x)
  BY <1>5 DEF Visited
<1>7. /\ \A u \in Timer \ {t} : /\ list'.active[u] = list.active[u]
                                 /\ list'.remaining[u] = list.remaining[u]
                                 /\ list'.period[u] = list.period[u]
      /\ list'.period[t] = list.period[t]
      /\ list'.active[t] => /\ list.active[t]
                            /\ list'.remaining[t] = IF n = 0 THEN list.period[t] ELSE n
  BY <1>5 DEF Visited
<1>8. list.next[t] \in Link
  BY <1>0 DEF ListState
<1>9. /\ walk' \in WalkState /\ walk'.at \in {"visit", "callback"}
      /\ Ahead' = list.next[t] /\ Ahead = t
  BY <1>0, <1>1, <1>4, <1>8 DEF WalkState, Ahead
<1>10. TimerListSound'
  BY <1>5, <1>9 DEF TimerListSound, SoundList, ActiveOf
<1>11. /\ age' \in [Timer -> Int] /\ todo' \in SUBSET Timer /\ disturbed' \in BOOLEAN
       /\ walk'.at = "idle" => todo' = {}
  BY <1>0, <1>4, <1>9
<1>12. \A u \in Timer : list'.active[u] => list'.remaining[u] > 0 /\ list'.period[u] > 0
  BY <1>7 DEF TimerInv
<1>13. WalkSound'
  <2>1. SUFFICES ASSUME ~disturbed
                 PROVE  /\ list.next[t] \in Chain(list', list'.head)
                        /\ Chain(list', list.next[t]) \ {NULL} = todo \ {t}
    BY <1>4, <1>9 DEF WalkSound
  <2>2. t \in Chain(list, list.head) /\ Chain(list, t) \ {NULL} = todo
    BY <1>0, <1>9, <2>1 DEF TimerInv, WalkSound
  <2>3. NULL \in Chain(list, list.head)
    BY <1>0 DEF SoundList
  <2>4. NULL \in Chain(list, t)
    BY <1>0, <2>2, <2>3, ChainEnds
  <2>5. t \notin Chain(list, list.next[t])
    BY <1>0, <2>4, ChainAcyclic
  <2>6. Chain(list, t) = {t} \cup Chain(list, list.next[t])
    BY <1>0, ChainUnfold
  <2>7. list.next[t] # t /\ list.next[t] \in Chain(list, list.head)
    BY <1>0, <1>8, <2>2, <2>5, <1>1, ChainBasic DEF Closed
  <2>8. /\ list.next[t] \in Chain(list', list'.head)
        /\ Chain(list', list.next[t]) = Chain(list, list.next[t])
    BY <1>6, <2>5, <2>7
  <2> QED
    BY <2>2, <2>5, <2>6, <2>8
<1>14. InTime'
  <2>1. SUFFICES ASSUME NEW u \in Timer \ slipped', list'.active[u]
                 PROVE  age'[u] + list'.remaining[u] =
                          IF u \in todo \ {t} THEN list'.period[u] + 1 ELSE list'.period[u]
    BY <1>4, <1>9 DEF InTime
  <2>2. u \notin slipped =>
          age[u] + list.remaining[u] = IF u \in todo THEN list.period[u] + 1
                                       ELSE list.period[u]
    BY <1>7, <2>1 DEF TimerInv, InTime
  <2>3. CASE u # t
    <3>1. age'[u] = age[u] /\ u \notin slipped
      BY <1>0, <1>4, <2>1, <2>3
    <3> QED
      BY <1>7, <2>2, <2>3, <3>1
  <2>4. CASE u = t
    <3>0. list.period[t] \in Nat /\ list.remaining[t] \in Nat /\ age[t] \in Int
      BY <1>0 DEF ListState
    <3>1. CASE n = 0
      <4>1. age'[t] = 0 /\ list'.remaining[t] = list.period[t]
        BY <1>0, <1>4, <1>7, <2>1, <2>4, <3>1
      <4> QED
        BY <1>7, <2>4, <3>0, <4>1
    <3>2. CASE n # 0
      <4>1. age'[t] = age[t] /\ list'.remaining[t] = n /\ n = list.remaining[t] - 1
        BY <1>2, <1>4, <1>7, <2>1, <2>4, <3>0, <3>2 DEF count_down
      <4>2. t \notin slipped
        BY <1>4, <2>1, <2>4, <3>2
      <4>3. t \in todo
        <5>1. CASE disturbed
          BY <1>4, <2>1, <2>4, <3>2, <5>1
        <5>2. CASE ~disturbed
          <6>1. t \in Chain(list, t)
            BY <1>0, ChainBasic DEF Link
          <6> QED
            BY <1>0, <1>9, <5>2, <6>1, TimerAssumption DEF TimerInv, WalkSound
        <5> QED BY <5>1, <5>2
      <4> QED
        BY <1>7, <2>2, <2>4, <3>0, <4>1, <4>2, <4>3
    <3> QED
      BY <3>1, <3>2
  <2> QED
    BY <2>3, <2>4
<1> QED
  BY <1>10, <1>11, <1>12, <1>13, <1>14 DEF TimerInv

LEMMA BeginStep ==
  ASSUME TimerInv, tick_begin
  PROVE  TimerInv'
<1>0. /\ SoundList(list) /\ list \in ListState /\ walk \in WalkState /\ walk.at = "idle"
      /\ NextFun(list) /\ list.head \in Link
      /\ age \in [Timer -> Int] /\ todo = {} /\ disturbed \in BOOLEAN
      /\ list' = list /\ disturbed' = disturbed /\ todo' = ActiveOf(list)
      /\ walk' = [at |-> "visit", iter |-> list.head, next |-> NULL]
      /\ age' = [t \in Timer |-> IF list.active[t] /\ t \notin slipped
                                 THEN age[t] + 1 ELSE 0]
      /\ slipped' = slipped
  BY InvParts DEF tick_begin, TimerInv, ActiveOf
<1>1. walk' \in WalkState /\ walk'.at = "visit" /\ Ahead' = list.head
  BY <1>0 DEF WalkState, Ahead, Link
<1>2. TimerListSound'
  BY <1>0, <1>1 DEF TimerListSound, SoundList, ActiveOf
<1>3. /\ age' \in [Timer -> Int] /\ todo' \in SUBSET Timer /\ disturbed' \in BOOLEAN
      /\ walk'.at = "idle" => todo' = {}
  BY <1>0, <1>1 DEF ActiveOf
<1>4. WalkSound'
  <2>1. list.head \in Chain(list, list.head)
    BY <1>0, ChainBasic
  <2>2. Chain(list, list.head) \ {NULL} = ActiveOf(list)
    BY <1>0, TimerAssumption DEF SoundList, ActiveOf
  <2> QED
    BY <1>0, <1>1, <2>1, <2>2 DEF WalkSound
<1>5. InTime'
  <2>1. SUFFICES ASSUME NEW u \in Timer \ slipped, list.active[u]
                 PROVE  /\ age'[u] + list.remaining[u] = list.period[u] + 1
                        /\ u \in todo'
    BY <1>0 DEF InTime
  <2>2. age[u] + list.remaining[u] = list.period[u] /\ age[u] \in Int
        /\ list.remaining[u] \in Nat /\ list.period[u] \in Nat
    BY <1>0, <2>1 DEF TimerInv, InTime, ListState
  <2>3. age'[u] = age[u] + 1 /\ u \in todo'
    BY <1>0, <2>1 DEF ActiveOf
  <2> QED
    BY <2>2, <2>3
<1> QED
  BY <1>0, <1>2, <1>3, <1>4, <1>5 DEF TimerInv

LEMMA ReturnStep ==
  ASSUME TimerInv, callback_return
  PROVE  TimerInv'
<1>0. /\ walk \in WalkState /\ walk.at = "callback"
      /\ walk' = [at |-> "visit", iter |-> walk.next, next |-> NULL]
      /\ list' = list /\ age' = age /\ todo' = todo /\ disturbed' = disturbed
      /\ slipped' = slipped
  BY InvParts DEF callback_return
<1>1. walk' \in WalkState /\ walk'.at = "visit" /\ Ahead' = Ahead
  BY <1>0 DEF WalkState, Ahead, Link
<1> QED
  BY <1>0, <1>1 DEF TimerInv, TimerListSound, WalkSound, InTime

LEMMA EndStep ==
  ASSUME TimerInv, tick_end
  PROVE  TimerInv'
<1>0. /\ list \in ListState /\ walk.at = "visit" /\ walk.iter = NULL
      /\ walk' = Idle /\ todo' = {} /\ disturbed' = FALSE /\ list' = list
      /\ slipped' = IF disturbed THEN slipped \cup todo ELSE slipped
      /\ age' = age /\ age \in [Timer -> Int]
  BY InvParts DEF tick_end, TimerInv
<1>1. walk' \in WalkState /\ walk'.at = "idle"
  BY <1>0 DEF WalkState, Idle, Link
<1>2. TimerListSound' /\ WalkSound'
  BY <1>0, <1>1 DEF TimerInv, TimerListSound, WalkSound
<1>3. age' \in [Timer -> Int]
  BY <1>0 DEF ListState
<1>4. InTime'
  <2>1. SUFFICES ASSUME NEW u \in Timer \ slipped', list.active[u]
                 PROVE  age[u] + list.remaining[u] = list.period[u]
    BY <1>0 DEF InTime
  <2>2. u \notin slipped
    BY <1>0, <2>1
  <2>3. u \notin todo
    <3>1. CASE disturbed
      BY <1>0, <2>1, <3>1
    <3>2. CASE ~disturbed
      BY <1>0, <3>2, ChainNull DEF TimerInv, WalkSound, Ahead
    <3> QED
      BY <3>1, <3>2
  <2> QED
    BY <1>0, <2>1, <2>2, <2>3 DEF TimerInv, InTime
<1> QED
  BY <1>0, <1>1, <1>2, <1>3, <1>4 DEF TimerInv

-----------------------------------------------------------------------------
LEMMA TimerInvInit ==
  ASSUME TimerInit
  PROVE  TimerInv
<1>1. list \in ListState /\ walk \in WalkState /\ list.head = NULL /\ walk.at = "idle"
      /\ \A t \in Timer : ~list.active[t]
  BY DEF TimerInit, ListState, WalkState, Idle, Link
<1>2. TimerListSound
  BY <1>1, ChainNull DEF TimerListSound
<1>3. age \in [Timer -> Int]
  BY DEF TimerInit
<1>4. todo = {} /\ disturbed \in BOOLEAN
  BY DEF TimerInit
<1> QED
  BY <1>1, <1>2, <1>3, <1>4 DEF TimerInv, WalkSound, InTime

LEMMA TimerInvStep ==
  ASSUME TimerInv, [TimerNext]_timerVars
  PROVE  TimerInv'
<1>1. CASE timer_tick_isr
  BY <1>1, BeginStep, VisitStep, ReturnStep, EndStep DEF timer_tick_isr
<1>2. CASE \E t \in Timer : timer_create(t) \/ timer_stop(t)
  BY <1>2, CreateStep, StopStep
<1>3. CASE \E t \in Timer, p \in Periods, b \in BOOLEAN : timer_start(t, p, b)
  BY <1>3, StartStep
<1>4. CASE UNCHANGED timerVars
  BY <1>4 DEF timerVars, TimerInv, TimerListSound, WalkSound, Ahead, InTime
<1> QED
  BY <1>1, <1>2, <1>3, <1>4 DEF TimerNext

LEMMA TimerInductive == TimerSpec => []TimerInv
BY TimerInvInit, TimerInvStep, PTL DEF TimerSpec

\* For any timers, whatever tasks and callbacks create, start and stop while a
\* walk is on its way: g_timer_list ends and holds exactly the active timers.
THEOREM TimerListStaysSound == TimerSpec => []TimerListSound
<1>1. TimerInv => TimerListSound
  BY DEF TimerInv
<1> QED
  BY <1>1, TimerInductive, PTL

\* timer_tick_isr counts each active timer once in a tick, however callbacks
\* change the list, as long as none moves the timer that the walk has saved.
THEOREM EveryTickCountsAll == TimerSpec => []WalkIsFair
<1>1. TimerInv => WalkIsFair
  BY DEF TimerInv, TimerListSound, WalkState, WalkSound, Ahead, WalkIsFair
<1> QED
  BY <1>1, TimerInductive, PTL

\* kernel/timer.c: between two ticks an active timer is due after exactly the
\* ticks that its period still has, for any number of timers, also when a walk
\* was disturbed: only the timers that such a walk skipped or counted twice are
\* off, and those until they next fire or are started.
THEOREM TimersFireOnTime == TimerSpec => []FiresOnTime
<1>1. TimerInv => FiresOnTime
  BY DEF TimerInv, InTime, FiresOnTime
<1> QED
  BY <1>1, TimerInductive, PTL
=============================================================================
