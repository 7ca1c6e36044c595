--------------------------- MODULE SchedulerProofs ---------------------------
(***************************************************************************)
(* What the operators of Scheduler do to the lists, for every number of    *)
(* tasks and priorities.  The facts are stated once here and cited by the  *)
(* proofs about the modules that compose the operators.                    *)
(***************************************************************************)
EXTENDS Scheduler, SequenceTheorems, WellFoundedInduction, TLAPS

\* The ready lists' indices and the blocked list's do not overlap.
LEMMA PrioInList ==
    Prio \subseteq List /\ BlockedList \in List /\ BlockedList \notin Prio
  BY ConstantsAssumption DEF Prio, List, BlockedList

\* Without(q, i) is q with its i-th element taken out.
LEMMA WithoutProps ==
    ASSUME NEW S, NEW q \in Seq(S), NEW i \in DOMAIN q
    PROVE  /\ Without(q, i) \in Seq(S)
           /\ Len(Without(q, i)) = Len(q) - 1
           /\ DOMAIN Without(q, i) = 1 .. Len(q) - 1
           /\ \A k \in 1 .. Len(q) - 1 :
                 Without(q, i)[k] = IF k < i THEN q[k] ELSE q[k + 1]
  <1> DEFINE a == SubSeq(q, 1, i - 1)
             b == SubSeq(q, i + 1, Len(q))
  <1>1. i \in 1 .. Len(q) /\ Len(q) \in Nat
    BY LenProperties
  <1>2. /\ a \in Seq(S) /\ Len(a) = i - 1
        /\ \A k \in 1 .. i - 1 : a[k] = q[k]
    BY <1>1, SubSeqProperties
  <1>3. /\ b \in Seq(S) /\ Len(b) = Len(q) - i
        /\ \A k \in 1 .. Len(q) - i : b[k] = q[i + k]
    BY <1>1, SubSeqProperties
  <1> HIDE DEF a, b
  <1>4. /\ a \o b \in Seq(S)
        /\ Len(a \o b) = Len(q) - 1
        /\ \A k \in 1 .. Len(q) - 1 :
              (a \o b)[k] = IF k <= i - 1 THEN a[k] ELSE b[k - (i - 1)]
    BY <1>1, <1>2, <1>3, ConcatProperties
  <1>5. Without(q, i) = a \o b
    BY DEF Without, a, b
  <1>6. ASSUME NEW k \in 1 .. Len(q) - 1
        PROVE  Without(q, i)[k] = IF k < i THEN q[k] ELSE q[k + 1]
    <2>1. CASE k < i
      <3>1. k <= i - 1 /\ k \in 1 .. i - 1
        BY <1>1, <2>1
      <3> QED
        BY <1>2, <1>4, <1>5, <2>1, <3>1
    <2>2. CASE ~(k < i)
      <3>1. /\ ~(k <= i - 1) /\ k - (i - 1) \in 1 .. Len(q) - i
            /\ i + (k - (i - 1)) = k + 1
        BY <1>1, <2>2
      <3>2. b[k - (i - 1)] = q[k + 1]
        BY <1>3, <3>1
      <3> QED
        BY <1>4, <1>5, <2>2, <3>1, <3>2
    <2> QED
      BY <2>1, <2>2
  <1> QED
    BY <1>1, <1>4, <1>5, <1>6, LenProperties

-----------------------------------------------------------------------------
\* No operator but the list operations touches what Sound talks about.
SameLists(r, s) == /\ r.list = s.list /\ r.bitmap = s.bitmap
                   /\ r.broken = s.broken

LEMMA SameSound ==
    ASSUME NEW s, NEW r, SameLists(r, s), Sound(s)
    PROVE  Sound(r)
  BY DEF SameLists, Sound, BitmapAgrees, LinkedOnce

\* A linked task is found: ListOf and Position name the place it is at.
LEMMA Found ==
    ASSUME NEW s \in SchedState, NEW t \in Task, Linked(s, t)
    PROVE  /\ ListOf(s, t) \in List
           /\ On(s, t, ListOf(s, t))
           /\ Position(s.list[ListOf(s, t)], t) \in DOMAIN s.list[ListOf(s, t)]
           /\ s.list[ListOf(s, t)][Position(s.list[ListOf(s, t)], t)] = t
  <1>1. ListOf(s, t) \in List /\ On(s, t, ListOf(s, t))
    BY DEF ListOf, Linked
  <1> QED
    BY <1>1 DEF On, Position

\* A task that is on a list is on no other one.
LEMMA OneList ==
    ASSUME NEW s \in SchedState, LinkedOnce(s), NEW t \in Task,
           NEW l \in List, NEW m \in List, On(s, t, l), On(s, t, m)
    PROVE  l = m
  BY DEF On, LinkedOnce

-----------------------------------------------------------------------------
\* The same facts about the lists alone: L and M are values of the list field.
Once(L) == \A l, m \in List : \A i \in DOMAIN L[l], j \in DOMAIN L[m] :
              L[l][i] = L[m][j] => l = m /\ i = j
In(L, t, l) == \E i \in DOMAIN L[l] : L[l][i] = t

LEMMA OnceIn ==
    /\ \A s : LinkedOnce(s) <=> Once(s.list)
    /\ \A s, t, l : On(s, t, l) <=> In(s.list, t, l)
  BY DEF LinkedOnce, Once, On, In

\* M differs from L in list l only, which has no element twice and consists
\* of elements of list l of L and possibly of t, which L has nowhere.
LEMMA Rearranged ==
    ASSUME NEW L, NEW M, Once(L), NEW l \in List, NEW t,
           \A m \in List \ {l} : M[m] = L[m],
           \A m \in List : ~In(L, t, m),
           \A k \in DOMAIN M[l] : M[l][k] = t \/ In(L, M[l][k], l),
           \A k, n \in DOMAIN M[l] : M[l][k] = M[l][n] => k = n
    PROVE  Once(M)
  <1> SUFFICES ASSUME NEW a \in List, NEW b \in List,
                      NEW i \in DOMAIN M[a], NEW j \in DOMAIN M[b],
                      M[a][i] = M[b][j]
               PROVE  a = b /\ i = j
    BY DEF Once
  <1>0. ASSUME NEW m \in List, NEW k \in DOMAIN L[m]
        PROVE  L[m][k] # t /\ (In(L, L[m][k], l) => m = l)
    BY <1>0 DEF In, Once
  <1>1. CASE a # l /\ b # l
    BY <1>1 DEF Once
  <1>2. CASE a = l /\ b # l
    BY <1>0, <1>2
  <1>3. CASE a # l /\ b = l
    BY <1>0, <1>3
  <1>4. CASE a = l /\ b = l
    BY <1>4
  <1> QED
    BY <1>1, <1>2, <1>3, <1>4

\* What an insertion or a removal does to the lists.
Absent(L, t) == \A m \in List : ~In(L, t, m)
Elsewhere(M, L, l) == \A m \in List \ {l} : M[m] = L[m]
Gained(M, L, l, t) ==
    \A x \in Task, m \in List : In(M, x, m) <=> In(L, x, m) \/ (x = t /\ m = l)
Lost(M, L, l, i) ==
    \A x \in Task, m \in List : In(M, x, m) <=> In(L, x, m) /\ x # L[l][i]

LEMMA AppendOnce ==
    ASSUME NEW L \in [List -> Seq(Task)], Once(L), NEW l \in List, NEW t \in Task,
           Absent(L, t), NEW M, M[l] = Append(L[l], t), Elsewhere(M, L, l)
    PROVE  Once(M) /\ Gained(M, L, l, t) /\ M[l] # <<>>
  <1> USE DEF Absent, Elsewhere, Gained
  <1> DEFINE q == L[l]
             n == M[l]
  <1>1. q \in Seq(Task) /\ n = Append(q, t) /\ \A m \in List \ {l} : M[m] = L[m]
    OBVIOUS
  <1>2. /\ DOMAIN q = 1 .. Len(q) /\ DOMAIN n = 1 .. Len(q) + 1
        /\ Len(q) \in Nat
        /\ n[Len(q) + 1] = t
        /\ \A i \in 1 .. Len(q) : n[i] = q[i]
    BY <1>1, AppendProperties, LenProperties
  <1>3. Once(M)
    <2>1. ASSUME NEW k \in DOMAIN n
          PROVE  k = Len(q) + 1 \/ (k \in DOMAIN q /\ n[k] = q[k])
      BY <1>2
    <2>2. \A k \in DOMAIN q : q[k] # t
      BY DEF In
    <2>3. \A k \in DOMAIN M[l] : M[l][k] = t \/ In(L, M[l][k], l)
      BY <1>2, <2>1 DEF In
    <2>4. \A k, j \in DOMAIN q : q[k] = q[j] => k = j
      BY DEF Once
    <2>5. \A k, j \in DOMAIN M[l] : M[l][k] = M[l][j] => k = j
      BY <1>2, <2>1, <2>2, <2>4
    <2> QED
      BY <1>1, <2>3, <2>5, Rearranged
  <1>4. ASSUME NEW x \in Task, NEW m \in List
        PROVE  In(M, x, m) <=> In(L, x, m) \/ (x = t /\ m = l)
    <2>1. CASE m # l
      BY <1>1, <2>1 DEF In
    <2>2. CASE m = l
      <3>1. In(L, x, l) => In(M, x, l)
        BY <1>2 DEF In
      <3>2. In(M, t, l)
        <4>1. Len(q) + 1 \in DOMAIN n /\ n[Len(q) + 1] = t
          BY <1>2
        <4> QED
          BY <4>1 DEF In
      <3>3. In(M, x, l) => In(L, x, l) \/ x = t
        <4>1. ASSUME NEW i \in DOMAIN n PROVE n[i] = t \/ (i \in DOMAIN q /\ n[i] = q[i])
          BY <1>2
        <4> QED
          BY <4>1 DEF In
      <3> QED
        BY <2>2, <3>1, <3>2, <3>3
    <2> QED
      BY <2>1, <2>2
  <1>5. n # <<>>
    BY <1>1, AppendProperties
  <1> QED
    BY <1>1, <1>3, <1>4, <1>5

LEMMA ConsOnce ==
    ASSUME NEW L \in [List -> Seq(Task)], Once(L), NEW l \in List, NEW t \in Task,
           Absent(L, t), NEW M, M[l] = <<t>> \o L[l], Elsewhere(M, L, l)
    PROVE  Once(M) /\ Gained(M, L, l, t) /\ M[l] \in Seq(Task)
  <1> USE DEF Absent, Elsewhere, Gained
  <1> DEFINE q == L[l]
             n == M[l]
  <1>1. q \in Seq(Task) /\ n = <<t>> \o q /\ \A m \in List \ {l} : M[m] = L[m]
    OBVIOUS
  <1>2. /\ DOMAIN q = 1 .. Len(q) /\ DOMAIN n = 1 .. Len(q) + 1
        /\ Len(q) \in Nat
        /\ n \in Seq(Task)
        /\ n[1] = t
        /\ \A i \in 2 .. Len(q) + 1 : n[i] = q[i - 1]
    <2>1. <<t>> \in Seq(Task) /\ Len(<<t>>) = 1 /\ <<t>>[1] = t
      OBVIOUS
    <2>2. /\ n \in Seq(Task)
          /\ Len(n) = Len(<<t>>) + Len(q)
          /\ \A i \in 1 .. Len(<<t>>) + Len(q) :
                n[i] = IF i <= Len(<<t>>) THEN <<t>>[i] ELSE q[i - Len(<<t>>)]
      BY <1>1, <2>1, ConcatProperties
    <2> HIDE DEF n, q
    <2>3. Len(q) \in Nat /\ DOMAIN q = 1 .. Len(q) /\ DOMAIN n = 1 .. Len(n)
      BY <1>1, <2>2, LenProperties
    <2>4. /\ Len(n) = Len(q) + 1
          /\ \A i \in 1 .. Len(q) + 1 : n[i] = IF i <= 1 THEN <<t>>[i] ELSE q[i - 1]
      BY <2>1, <2>2, <2>3
    <2> QED
      BY <2>1, <2>2, <2>3, <2>4
  <1>3. Once(M)
    <2>1. ASSUME NEW k \in DOMAIN n
          PROVE  k = 1 \/ (k - 1 \in DOMAIN q /\ n[k] = q[k - 1])
      BY <1>2
    <2>2. \A k \in DOMAIN q : q[k] # t
      BY DEF In
    <2>3. \A k \in DOMAIN M[l] : M[l][k] = t \/ In(L, M[l][k], l)
      BY <1>2, <2>1 DEF In
    <2>4. \A k, j \in DOMAIN q : q[k] = q[j] => k = j
      BY DEF Once
    <2>5. \A k, j \in DOMAIN M[l] : M[l][k] = M[l][j] => k = j
      <3> SUFFICES ASSUME NEW k \in DOMAIN n, NEW j \in DOMAIN n, n[k] = n[j]
                   PROVE  k = j
        OBVIOUS
      <3>1. k \in Int /\ j \in Int
        BY <1>2
      <3>2. CASE k = 1 \/ j = 1
        BY <1>2, <2>1, <2>2, <3>2
      <3>3. CASE k # 1 /\ j # 1
        <4>1. k - 1 = j - 1
          BY <2>1, <2>4, <3>3
        <4> QED
          BY <3>1, <4>1
      <3> QED
        BY <3>2, <3>3
    <2> QED
      BY <1>1, <2>3, <2>5, Rearranged
  <1>4. ASSUME NEW x \in Task, NEW m \in List
        PROVE  In(M, x, m) <=> In(L, x, m) \/ (x = t /\ m = l)
    <2>1. CASE m # l
      BY <1>1, <2>1 DEF In
    <2>2. CASE m = l
      <3>1. In(L, x, l) => In(M, x, l)
        <4>1. ASSUME NEW i \in DOMAIN q PROVE i + 1 \in DOMAIN n /\ n[i + 1] = q[i]
          BY <1>2
        <4> QED
          BY <4>1 DEF In
      <3>2. In(M, t, l)
        <4>1. 1 \in DOMAIN n /\ n[1] = t
          BY <1>2
        <4> QED
          BY <4>1 DEF In
      <3>3. In(M, x, l) => In(L, x, l) \/ x = t
        <4>1. ASSUME NEW i \in DOMAIN n PROVE n[i] = t \/ (i - 1 \in DOMAIN q /\ n[i] = q[i - 1])
          BY <1>2
        <4> QED
          BY <4>1 DEF In
      <3> QED
        BY <2>2, <3>1, <3>2, <3>3
    <2> QED
      BY <2>1, <2>2
  <1> QED
    BY <1>1, <1>2, <1>3, <1>4

LEMMA RemoveOnce ==
    ASSUME NEW L \in [List -> Seq(Task)], Once(L), NEW l \in List,
           NEW i \in 1 .. Len(L[l]), NEW M, M[l] = Without(L[l], i), Elsewhere(M, L, l)
    PROVE  /\ Once(M) /\ Lost(M, L, l, i) /\ M[l] \in Seq(Task)
           /\ M[l] = <<>> <=> Len(L[l]) = 1
  <1> USE DEF Elsewhere, Lost
  <1> DEFINE q == L[l]
             n == M[l]
             t == L[l][i]
  <1>1. q \in Seq(Task) /\ n = Without(q, i) /\ \A m \in List \ {l} : M[m] = L[m]
    OBVIOUS
  <1>2. /\ n \in Seq(Task) /\ Len(n) = Len(q) - 1
        /\ DOMAIN n = 1 .. Len(q) - 1
        /\ \A k \in 1 .. Len(q) - 1 : n[k] = IF k < i THEN q[k] ELSE q[k + 1]
        /\ Len(q) \in Nat /\ i \in 1 .. Len(q) /\ DOMAIN q = 1 .. Len(q)
    BY <1>1, WithoutProps, LenProperties
  <1>3. M[l] \in Seq(Task)
    BY <1>2
  <1>4. M[l] = <<>> <=> Len(L[l]) = 1
    BY <1>2, EmptySeq
  <1> DEFINE g(k) == IF k < i THEN k ELSE k + 1
  <1>5. ASSUME NEW k \in DOMAIN n
        PROVE  g(k) \in DOMAIN q /\ n[k] = q[g(k)] /\ g(k) # i
    BY <1>2
  <1>6. \A k, j \in DOMAIN q : q[k] = q[j] => k = j
    BY DEF Once
  <1>7. ASSUME NEW k \in DOMAIN q, k # i
        PROVE  \E j \in DOMAIN n : n[j] = q[k]
    <2>1. CASE k < i
      <3>1. k \in DOMAIN n /\ n[k] = q[k]
        BY <1>2, <2>1
      <3> QED
        BY <3>1
    <2>2. CASE ~(k < i)
      <3>1. k - 1 \in DOMAIN n /\ n[k - 1] = q[k]
        BY <1>2, <1>7, <2>2
      <3> QED
        BY <3>1
    <2> QED
      BY <2>1, <2>2
  <1>8. \A k \in DOMAIN n : In(L, n[k], l) /\ n[k] # t
    BY <1>5, <1>6 DEF In
  <1>9. Once(M)
    <2>1. \A k, j \in DOMAIN n : n[k] = n[j] => k = j
      <3> SUFFICES ASSUME NEW k \in DOMAIN n, NEW j \in DOMAIN n, n[k] = n[j]
                   PROVE  k = j
        OBVIOUS
      <3>1. g(k) = g(j)
        BY <1>5, <1>6
      <3> QED
        BY <1>2, <3>1
    <2> SUFFICES ASSUME NEW a \in List, NEW b \in List,
                        NEW c \in DOMAIN M[a], NEW d \in DOMAIN M[b],
                        M[a][c] = M[b][d]
                 PROVE  a = b /\ c = d
      BY DEF Once
    <2>2. CASE a # l /\ b # l
      BY <1>1, <2>2 DEF Once
    <2>0. ASSUME NEW k \in DOMAIN n, NEW m \in List \ {l}, NEW j \in DOMAIN M[m]
          PROVE  n[k] # M[m][j]
      <3>1. g(k) \in DOMAIN L[l] /\ n[k] = L[l][g(k)]
        BY <1>5
      <3>2. j \in DOMAIN L[m] /\ M[m][j] = L[m][j]
        BY <1>1
      <3> QED
        BY <3>1, <3>2 DEF Once
    <2>3. CASE a = l /\ b # l
      BY <2>0, <2>3
    <2>4. CASE a # l /\ b = l
      BY <2>0, <2>4
    <2>5. CASE a = l /\ b = l
      BY <2>1, <2>5
    <2> QED
      BY <2>2, <2>3, <2>4, <2>5
  <1>10. ASSUME NEW x \in Task, NEW m \in List
         PROVE  In(M, x, m) <=> In(L, x, m) /\ x # t
    <2>1. CASE m # l
      BY <1>1, <2>1 DEF In, Once
    <2>2. CASE m = l
      <3>1. In(M, x, l) => In(L, x, l) /\ x # t
        BY <1>8 DEF In
      <3>2. In(L, x, l) /\ x # t => In(M, x, l)
        BY <1>7 DEF In
      <3> QED
        BY <2>2, <3>1, <3>2
    <2> QED
      BY <2>1, <2>2
  <1> QED
    BY <1>1, <1>3, <1>4, <1>9, <1>10

LEMMA TailIsWithout ==
    ASSUME NEW S, NEW q \in Seq(S), q # <<>>
    PROVE  Tail(q) = Without(q, 1) /\ 1 \in DOMAIN q
  <1>1. Len(q) \in Nat /\ Len(q) >= 1 /\ DOMAIN q = 1 .. Len(q)
    BY EmptySeq, LenProperties
  <1>2. SubSeq(q, 1, 0) = <<>> /\ Tail(q) = SubSeq(q, 2, Len(q))
    BY <1>1, SubSeqEmpty, TailIsSubSeq
  <1>3. Tail(q) \in Seq(S)
    BY HeadTailProperties
  <1>4. Without(q, 1) = <<>> \o Tail(q)
    BY <1>2 DEF Without
  <1> QED
    BY <1>1, <1>3, <1>4, ConcatEmptySeq

-----------------------------------------------------------------------------
(***************************************************************************)
(* The list operations on the scheduler's record: what they leave alone,   *)
(* that they keep Sound, and -- where the lists are intact and the code's  *)
(* expectation about t holds -- which task is on which list afterwards.    *)
(***************************************************************************)
SameFields(r, s) ==
    /\ r.priority = s.priority /\ r.state = s.state /\ r.slice = s.slice
    /\ r.wake = s.wake /\ r.reason = s.reason /\ r.object = s.object
    /\ r.timeout = s.timeout /\ r.result = s.result /\ r.cur = s.cur
    /\ r.pendsv = s.pendsv /\ r.lock = s.lock /\ r.resched = s.resched
    /\ r.tick = s.tick

\* Intact lists: the case in which the operations are specified.
Intact(s) == ~s.broken /\ BitmapAgrees(s) /\ LinkedOnce(s)

LEMMA IntactSound ==
    ASSUME NEW s \in SchedState
    PROVE  /\ Intact(s) <=> Sound(s) /\ ~s.broken
           /\ Sound(s) <=> Intact(s) \/ s.broken
  BY DEF Intact, Sound, SchedState

LEMMA NotLinkedIn ==
    ASSUME NEW s, NEW t, ~Linked(s, t)
    PROVE  \A m \in List : ~In(s.list, t, m)
  BY OnceIn DEF Linked

LEMMA InsertTailLemma ==
    ASSUME NEW s \in SchedState, NEW t \in Task, NEW r,
           r = ready_insert_tail(s, t)
    PROVE  /\ r \in SchedState
           /\ SameFields(r, s)
           /\ s.broken => r.broken
           /\ Sound(s) => Sound(r)
           /\ Intact(s) /\ ~Linked(s, t) =>
                /\ Intact(r)
                /\ \A x \in Task, l \in List :
                      On(r, x, l) <=> On(s, x, l) \/ (x = t /\ l = s.priority[t])
  <1> DEFINE p == s.priority[t]
  <1>0. p \in Prio /\ p \in List /\ s.list \in [List -> Seq(Task)]
    BY PrioInList DEF SchedState
  <1>1. CASE Linked(s, t)
    <2>1. r = [s EXCEPT !.broken = TRUE]
      BY <1>1 DEF ready_insert_tail
    <2>2. r \in SchedState /\ SameFields(r, s) /\ r.broken
      BY <2>1 DEF SchedState, SameFields
    <2> QED
      BY <1>1, <2>2 DEF Sound
  <1>2. CASE ~Linked(s, t)
    <2> DEFINE L == [s.list EXCEPT ![p] = Append(@, t)]
               B == IF s.list[p] = <<>> THEN s.bitmap \cup {p} ELSE s.bitmap
    <2>1. r = [s EXCEPT !.list = L, !.bitmap = B]
      BY <1>2 DEF ready_insert_tail, SchedState
    <2>2. L \in [List -> Seq(Task)] /\ B \in SUBSET Prio
      BY <1>0 DEF SchedState
    <2> HIDE DEF L, B
    <2>3. /\ r \in SchedState /\ SameFields(r, s) /\ r.broken = s.broken
          /\ r.list = L /\ r.bitmap = B
      BY <2>1, <2>2 DEF SchedState, SameFields
    <2>4. ASSUME Intact(s)
          PROVE  /\ Intact(r)
                 /\ \A x \in Task, l \in List :
                       On(r, x, l) <=> On(s, x, l) \/ (x = t /\ l = p)
      <3>1. Once(s.list)
        BY <2>4, OnceIn DEF Intact
      <3>2. /\ Once(r.list)
            /\ \A x \in Task, m \in List :
                  In(r.list, x, m) <=> In(s.list, x, m) \/ (x = t /\ m = p)
            /\ r.list[p] # <<>>
            /\ \A m \in List \ {p} : r.list[m] = s.list[m]
        <4>1. \A m \in List : ~In(s.list, t, m)
          BY <1>2, NotLinkedIn
        <4> DEFINE K == s.list
        <4>2. K \in [List -> Seq(Task)] /\ Once(K) /\ Absent(K, t)
          BY <1>0, <3>1, <4>1 DEF Absent
        <4>3. L[p] = Append(K[p], t) /\ Elsewhere(L, K, p)
          BY <1>0 DEF L, Elsewhere
        <4> HIDE DEF K, p
        <4>4. Once(L) /\ Gained(L, K, p, t) /\ L[p] # <<>>
          BY <1>0, <4>2, <4>3, AppendOnce
        <4> QED
          BY <2>3, <4>3, <4>4 DEF K, Gained, Elsewhere
      <3>3. BitmapAgrees(r)
        BY <1>0, <2>3, <2>4, <3>2, PrioInList DEF BitmapAgrees, Intact, B
      <3>4. LinkedOnce(r) /\ \A x \in Task, l \in List :
                                 On(r, x, l) <=> On(s, x, l) \/ (x = t /\ l = p)
        BY <3>2, OnceIn
      <3> QED
        BY <2>3, <2>4, <3>3, <3>4 DEF Intact
    <2> QED
      BY <2>3, <2>4, IntactSound
  <1> QED
    BY <1>1, <1>2

LEMMA BlockedInsertLemma ==
    ASSUME NEW s \in SchedState, NEW t \in Task, NEW r, r = blocked_insert(s, t)
    PROVE  /\ r \in SchedState
           /\ SameFields(r, s)
           /\ s.broken => r.broken
           /\ Sound(s) => Sound(r)
           /\ Intact(s) /\ ~Linked(s, t) =>
                /\ Intact(r)
                /\ \A x \in Task, l \in List :
                      On(r, x, l) <=> On(s, x, l) \/ (x = t /\ l = BlockedList)
  <1>0. BlockedList \in List /\ s.list \in [List -> Seq(Task)]
    BY PrioInList DEF SchedState
  <1>1. CASE Linked(s, t)
    <2>1. r = [s EXCEPT !.broken = TRUE]
      BY <1>1 DEF blocked_insert
    <2>2. r \in SchedState /\ SameFields(r, s) /\ r.broken
      BY <2>1 DEF SchedState, SameFields
    <2> QED
      BY <1>1, <2>2 DEF Sound
  <1>2. CASE ~Linked(s, t)
    <2> DEFINE L == [s.list EXCEPT ![BlockedList] = <<t>> \o @]
    <2>1. r = [s EXCEPT !.list = L, !.bitmap = s.bitmap]
      BY <1>2 DEF blocked_insert, SchedState
    <2>2. L \in [List -> Seq(Task)] /\ s.bitmap \in SUBSET Prio
      BY <1>0 DEF SchedState
    <2> HIDE DEF L
    <2>3. /\ r \in SchedState /\ SameFields(r, s) /\ r.broken = s.broken
          /\ r.list = L /\ r.bitmap = s.bitmap
      BY <2>1, <2>2 DEF SchedState, SameFields
    <2>4. ASSUME Intact(s)
          PROVE  /\ Intact(r)
                 /\ \A x \in Task, l \in List :
                       On(r, x, l) <=> On(s, x, l) \/ (x = t /\ l = BlockedList)
      <3>1. Once(s.list)
        BY <2>4, OnceIn DEF Intact
      <3>2. /\ Once(r.list)
            /\ \A x \in Task, m \in List :
                  In(r.list, x, m) <=> In(s.list, x, m) \/ (x = t /\ m = BlockedList)
            /\ \A m \in List \ {BlockedList} : r.list[m] = s.list[m]
        <4>1. \A m \in List : ~In(s.list, t, m)
          BY <1>2, NotLinkedIn
        <4> DEFINE K == s.list
        <4>2. K \in [List -> Seq(Task)] /\ Once(K) /\ Absent(K, t)
          BY <1>0, <3>1, <4>1 DEF Absent
        <4>3. L[BlockedList] = <<t>> \o K[BlockedList] /\ Elsewhere(L, K, BlockedList)
          BY <1>0 DEF L, Elsewhere
        <4> HIDE DEF K
        <4>4. Once(L) /\ Gained(L, K, BlockedList, t)
          BY <1>0, <4>2, <4>3, ConsOnce
        <4> QED
          BY <2>3, <4>3, <4>4 DEF K, Gained, Elsewhere
      <3>3. BitmapAgrees(r)
        BY <1>0, <2>3, <2>4, <3>2, PrioInList DEF BitmapAgrees, Intact
      <3>4. LinkedOnce(r) /\ \A x \in Task, l \in List :
                                 On(r, x, l) <=> On(s, x, l) \/ (x = t /\ l = BlockedList)
        BY <3>2, OnceIn
      <3> QED
        BY <2>3, <2>4, <3>3, <3>4 DEF Intact
    <2> QED
      BY <2>3, <2>4, IntactSound
  <1> QED
    BY <1>1, <1>2

LEMMA UnlinkLemma ==
    ASSUME NEW s \in SchedState, NEW t \in Task, NEW h \in List, NEW r,
           r = Unlink(s, t, h)
    PROVE  /\ r \in SchedState
           /\ SameFields(r, s) /\ r.bitmap = s.bitmap
           /\ s.broken => r.broken
           /\ LinkedOnce(s) =>
                /\ LinkedOnce(r)
                /\ \A m \in List \ {h} : r.list[m] = <<>> <=> s.list[m] = <<>>
                /\ s.list[h] = <<>> => r.list[h] = <<>>
           /\ LinkedOnce(s) /\ On(s, t, h) =>
                /\ r.broken = s.broken
                /\ \A x \in Task, l \in List : On(r, x, l) <=> On(s, x, l) /\ x # t
           /\ ~Linked(s, t) => r = s
  <1>1. CASE ~Linked(s, t)
    <2>1. r = s /\ ~On(s, t, h)
      BY <1>1 DEF Unlink, Linked
    <2> QED
      BY <2>1 DEF SameFields
  <1>2. CASE Linked(s, t)
    <2>0. PICK l \in List, i \in Nat, K \in [List -> Seq(Task)] :
             /\ l = ListOf(s, t) /\ i = Position(s.list[l], t) /\ K = s.list
             /\ On(s, t, l) /\ K[l][i] = t /\ i \in 1 .. Len(K[l])
      <3>1. s.list \in [List -> Seq(Task)]
        BY DEF SchedState
      <3>2. \A q \in Seq(Task) : DOMAIN q = 1 .. Len(q) /\ Len(q) \in Nat
        BY LenProperties
      <3> QED
        BY <1>2, <3>1, <3>2, Found
    <2>1. LinkedOnce(s) /\ On(s, t, h) => l = h
      BY <2>0, OneList
    <2>2. CASE l = h \/ i > 1
      <3>1. PICK L : L = [K EXCEPT ![l] = Without(@, i)]
        OBVIOUS
      <3>2. L \in [List -> Seq(Task)]
        BY <2>0, <3>1, WithoutProps, LenProperties
      <3>3. L[l] = Without(K[l], i) /\ \A m \in List \ {l} : L[m] = K[m]
        BY <3>1
      <3>4. r = [s EXCEPT !.list = L]
        BY <1>2, <2>0, <2>2, <3>1 DEF Unlink, SchedState
      <3>5. /\ r \in SchedState /\ SameFields(r, s) /\ r.bitmap = s.bitmap
            /\ r.broken = s.broken /\ r.list = L
        BY <3>2, <3>4 DEF SchedState, SameFields
      <3>6. ASSUME LinkedOnce(s)
            PROVE  /\ LinkedOnce(r)
                   /\ \A x \in Task, m \in List : On(r, x, m) <=> On(s, x, m) /\ x # t
                   /\ \A m \in List \ {h} : r.list[m] = <<>> <=> s.list[m] = <<>>
                   /\ s.list[h] = <<>> => r.list[h] = <<>>
        <4>1. /\ Once(K) /\ K \in [List -> Seq(Task)]
              /\ l \in List /\ i \in 1 .. Len(K[l])
          BY <2>0, <3>6, OnceIn
        <4>5. K[l] \in Seq(Task) /\ Len(K[l]) \in Nat
          BY <4>1, LenProperties
        <4>9. Elsewhere(L, K, l)
          BY <3>3 DEF Elsewhere
        <4>2. /\ Once(L) /\ Lost(L, K, l, i)
              /\ L[l] = <<>> <=> Len(K[l]) = 1
          BY <3>3, <4>1, <4>9, RemoveOnce
        <4>3. LinkedOnce(r) /\ \A x \in Task, m \in List :
                                   On(r, x, m) <=> On(s, x, m) /\ x # t
          BY <2>0, <3>5, <4>2, OnceIn DEF Lost
        <4>6. PICK n \in Nat : n = Len(K[l])
          BY <4>5
        <4>7. i \in 1 .. n
          BY <4>1, <4>6
        <4>8. n # 0 /\ (i > 1 => n # 1)
          BY <4>7
        <4>4. K[l] # <<>> /\ (i > 1 => Len(K[l]) # 1)
          BY <4>6, <4>8
        <4> QED
          BY <2>0, <2>2, <3>3, <3>5, <4>2, <4>3, <4>4
      <3> QED
        BY <1>2, <2>1, <2>2, <3>5, <3>6
    <2>3. CASE ~(l = h \/ i > 1)
      <3>1. r = s \/ r = [s EXCEPT !.broken = TRUE]
        BY <1>2, <2>0, <2>3 DEF Unlink
      <3>2. /\ r \in SchedState /\ SameFields(r, s) /\ r.bitmap = s.bitmap
            /\ r.list = s.list /\ (s.broken => r.broken)
        <4>1. CASE r = s
          BY <4>1 DEF SameFields
        <4>2. CASE r = [s EXCEPT !.broken = TRUE]
          BY <4>2 DEF SchedState, SameFields
        <4> QED
          BY <3>1, <4>1, <4>2
      <3>3. LinkedOnce(s) => LinkedOnce(r)
        BY <3>2 DEF LinkedOnce
      <3> QED
        BY <1>2, <2>1, <2>3, <3>2, <3>3
    <2> QED
      BY <2>2, <2>3
  <1> QED
    BY <1>1, <1>2

LEMMA RemoveTaskLemma ==
    ASSUME NEW s \in SchedState, NEW t \in Task, NEW r,
           r = scheduler_remove_task(s, t)
    PROVE  /\ r \in SchedState
           /\ SameFields(r, s)
           /\ s.broken => r.broken
           /\ Sound(s) => Sound(r)
           /\ Intact(s) /\ On(s, t, s.priority[t]) =>
                /\ Intact(r)
                /\ \A x \in Task, l \in List : On(r, x, l) <=> On(s, x, l) /\ x # t
           /\ Intact(s) /\ ~Linked(s, t) =>
                /\ Intact(r)
                /\ \A x \in Task, l \in List : On(r, x, l) <=> On(s, x, l)
  <1> DEFINE p == s.priority[t]
             u == Unlink(s, t, p)
  <1>0. p \in Prio /\ p \in List
    BY PrioInList DEF SchedState
  <1>1. /\ u \in SchedState
        /\ SameFields(u, s) /\ u.bitmap = s.bitmap
        /\ s.broken => u.broken
        /\ LinkedOnce(s) =>
             /\ LinkedOnce(u)
             /\ \A m \in List \ {p} : u.list[m] = <<>> <=> s.list[m] = <<>>
             /\ s.list[p] = <<>> => u.list[p] = <<>>
        /\ LinkedOnce(s) /\ On(s, t, p) =>
             /\ u.broken = s.broken
             /\ \A x \in Task, l \in List : On(u, x, l) <=> On(s, x, l) /\ x # t
        /\ ~Linked(s, t) => u = s
    BY <1>0, UnlinkLemma
  <1>2. r = IF u.list[p] = <<>> THEN [u EXCEPT !.bitmap = @ \ {p}] ELSE u
    BY DEF scheduler_remove_task
  <1> HIDE DEF u, p
  <1>3. /\ r \in SchedState /\ SameFields(r, u) /\ r.list = u.list
        /\ r.broken = u.broken
        /\ r.bitmap = IF u.list[p] = <<>> THEN u.bitmap \ {p} ELSE u.bitmap
    <2>1. CASE u.list[p] # <<>>
      BY <1>1, <1>2, <2>1 DEF SameFields
    <2>2. CASE u.list[p] = <<>>
      <3>1. r = [u EXCEPT !.bitmap = u.bitmap \ {p}]
        BY <1>2, <2>2
      <3>2. u.bitmap \ {p} \in SUBSET Prio
        BY <1>1 DEF SchedState
      <3> QED
        BY <1>1, <2>2, <3>1, <3>2 DEF SchedState, SameFields
    <2> QED
      BY <2>1, <2>2
  <1>4. SameFields(r, s)
    BY <1>1, <1>3 DEF SameFields
  <1>5. LinkedOnce(s) => LinkedOnce(r)
    BY <1>1, <1>3 DEF LinkedOnce
  <1>6. LinkedOnce(s) /\ BitmapAgrees(s) => BitmapAgrees(r)
    BY <1>0, <1>1, <1>3, PrioInList DEF BitmapAgrees
  <1>7. \A x, l : On(r, x, l) <=> On(u, x, l)
    BY <1>3 DEF On
  <1> QED
    BY <1>0, <1>1, <1>3, <1>4, <1>5, <1>6, <1>7 DEF Sound, Intact, p

LEMMA BlockedRemoveLemma ==
    ASSUME NEW s \in SchedState, NEW t \in Task, NEW r, r = blocked_remove(s, t)
    PROVE  /\ r \in SchedState
           /\ SameFields(r, s)
           /\ s.broken => r.broken
           /\ Sound(s) => Sound(r)
           /\ Intact(s) /\ On(s, t, BlockedList) =>
                /\ Intact(r)
                /\ \A x \in Task, l \in List : On(r, x, l) <=> On(s, x, l) /\ x # t
  <1>1. /\ r \in SchedState
        /\ SameFields(r, s) /\ r.bitmap = s.bitmap
        /\ s.broken => r.broken
        /\ LinkedOnce(s) =>
             /\ LinkedOnce(r)
             /\ \A m \in List \ {BlockedList} : r.list[m] = <<>> <=> s.list[m] = <<>>
        /\ LinkedOnce(s) /\ On(s, t, BlockedList) =>
             /\ r.broken = s.broken
             /\ \A x \in Task, l \in List : On(r, x, l) <=> On(s, x, l) /\ x # t
    BY PrioInList, UnlinkLemma DEF blocked_remove
  <1>2. LinkedOnce(s) /\ BitmapAgrees(s) => BitmapAgrees(r)
    BY <1>1, PrioInList DEF BitmapAgrees
  <1> QED
    BY <1>1, <1>2 DEF Sound, Intact

-----------------------------------------------------------------------------
(***************************************************************************)
(* The functions that are built from the list operations.  A function that *)
(* moves a task takes it off its list (OffList), changes its fields and    *)
(* links it again (Placed).                                                *)
(***************************************************************************)
Placed(s) == Intact(s) /\ \A x \in Task : StateTells(s, x)
OffList(s, t) == Intact(s) /\ ~Linked(s, t) /\ \A x \in Task \ {t} : StateTells(s, x)

\* Changing fields other than the lists, and state and priority only of t.
LEMMA OffListKept ==
    ASSUME NEW s, NEW t, NEW r, OffList(s, t), SameLists(r, s),
           \A x \in Task \ {t} : r.state[x] = s.state[x] /\ r.priority[x] = s.priority[x]
    PROVE  OffList(r, t)
  <1>1. \A x, l : On(r, x, l) <=> On(s, x, l)
    BY DEF On, SameLists
  <1>2. Intact(r)
    BY DEF OffList, SameLists, Intact, BitmapAgrees, LinkedOnce
  <1>3. ~Linked(r, t)
    BY <1>1 DEF OffList, Linked
  <1> QED
    BY <1>1, <1>2, <1>3 DEF OffList, StateTells

LEMMA PlacedKept ==
    ASSUME NEW s, NEW r, Placed(s), SameLists(r, s),
           \A x \in Task : r.priority[x] = s.priority[x] /\
              \/ r.state[x] = s.state[x]
              \/ {r.state[x], s.state[x]} = {"READY", "RUNNING"}
    PROVE  Placed(r)
  <1>1. \A x, l : On(r, x, l) <=> On(s, x, l)
    BY DEF On, SameLists
  <1>2. Intact(r)
    BY DEF Placed, SameLists, Intact, BitmapAgrees, LinkedOnce
  <1>3. ASSUME NEW x \in Task PROVE StateTells(r, x)
    <2>1. /\ r.state[x] \in {"READY", "RUNNING"} <=> s.state[x] \in {"READY", "RUNNING"}
          /\ r.state[x] = "BLOCKED" <=> s.state[x] = "BLOCKED"
      OBVIOUS
    <2> QED
      BY <1>1, <2>1 DEF Placed, StateTells
  <1> QED
    BY <1>2, <1>3 DEF Placed

\* A task that is on no list may be in any state without one.
LEMMA OffListPlaced ==
    ASSUME NEW s \in SchedState, NEW t \in Task, OffList(s, t),
           s.state[t] \notin {"READY", "RUNNING", "BLOCKED"}
    PROVE  Placed(s)
  <1>1. \A l \in List : ~On(s, t, l)
    BY DEF OffList, Linked
  <1>2. StateTells(s, t)
    BY <1>1, PrioInList DEF StateTells, SchedState
  <1> QED
    BY <1>2 DEF OffList, Placed

LEMMA PlacedOff ==
    ASSUME NEW s \in SchedState, NEW t \in Task, Placed(s),
           s.state[t] \notin {"READY", "RUNNING", "BLOCKED"}
    PROVE  OffList(s, t)
  <1>1. ASSUME NEW l \in List PROVE ~On(s, t, l)
    <2>1. l = BlockedList \/ l \in Prio
      BY ConstantsAssumption DEF List, Prio, BlockedList
    <2> QED
      BY <2>1 DEF Placed, StateTells
  <1> QED
    BY <1>1 DEF OffList, Placed, Linked

LEMMA InsertTailPlaced ==
    ASSUME NEW s \in SchedState, NEW t \in Task, OffList(s, t),
           s.state[t] \in {"READY", "RUNNING"}
    PROVE  Placed(ready_insert_tail(s, t))
  <1>1. PICK r : r = ready_insert_tail(s, t)
    OBVIOUS
  <1>2. /\ Intact(r) /\ SameFields(r, s)
        /\ \A x \in Task, l \in List :
              On(r, x, l) <=> On(s, x, l) \/ (x = t /\ l = s.priority[t])
    BY <1>1, InsertTailLemma DEF OffList
  <1>3. s.priority \in [Task -> Prio]
    BY DEF SchedState
  <1>4. ASSUME NEW x \in Task PROVE StateTells(r, x)
    <2>1. CASE x = t
      <3>1. \A l \in List : On(r, t, l) <=> l = s.priority[t]
        BY <1>2 DEF OffList, Linked
      <3> QED
        BY <1>2, <1>3, <2>1, <3>1, PrioInList DEF StateTells, SameFields
    <2>2. CASE x # t
      <3>1. \A l \in List : On(r, x, l) <=> On(s, x, l)
        BY <1>2, <2>2
      <3>2. r.priority[x] \in List
        BY <1>2, <1>3, PrioInList DEF SameFields
      <3> QED
        BY <1>2, <2>2, <3>1, <3>2, PrioInList DEF OffList, StateTells, SameFields
    <2> QED
      BY <2>1, <2>2
  <1> QED
    BY <1>1, <1>2, <1>4 DEF Placed

LEMMA BlockedInsertPlaced ==
    ASSUME NEW s \in SchedState, NEW t \in Task, OffList(s, t),
           s.state[t] = "BLOCKED"
    PROVE  Placed(blocked_insert(s, t))
  <1>1. PICK r : r = blocked_insert(s, t)
    OBVIOUS
  <1>2. /\ Intact(r) /\ SameFields(r, s)
        /\ \A x \in Task, l \in List :
              On(r, x, l) <=> On(s, x, l) \/ (x = t /\ l = BlockedList)
    BY <1>1, BlockedInsertLemma DEF OffList
  <1>3. s.priority \in [Task -> Prio]
    BY DEF SchedState
  <1>4. ASSUME NEW x \in Task PROVE StateTells(r, x)
    <2>1. CASE x = t
      <3>1. \A l \in List : On(r, t, l) <=> l = BlockedList
        BY <1>2 DEF OffList, Linked
      <3>2. r.priority[t] \in Prio
        BY <1>2, <1>3 DEF SameFields
      <3> QED
        BY <1>2, <2>1, <3>1, <3>2, PrioInList DEF StateTells, SameFields
    <2>2. CASE x # t
      <3>1. \A l \in List : On(r, x, l) <=> On(s, x, l)
        BY <1>2, <2>2
      <3>2. r.priority[x] \in List
        BY <1>2, <1>3, PrioInList DEF SameFields
      <3> QED
        BY <1>2, <2>2, <3>1, <3>2, PrioInList DEF OffList, StateTells, SameFields
    <2> QED
      BY <2>1, <2>2
  <1> QED
    BY <1>1, <1>2, <1>4 DEF Placed

\* Taking a task off the list its state tells.
LEMMA RemovedOff ==
    ASSUME NEW s \in SchedState, NEW r \in SchedState, NEW t \in Task, Placed(s),
           Intact(r), SameFields(r, s),
           \A x \in Task, l \in List : On(r, x, l) <=> On(s, x, l) /\ x # t
    PROVE  OffList(r, t)
  <1>1. s.priority \in [Task -> Prio]
    BY DEF SchedState
  <1>2. ~Linked(r, t)
    BY DEF Linked
  <1>3. ASSUME NEW x \in Task \ {t} PROVE StateTells(r, x)
    <2>1. r.priority[x] \in List
      BY <1>1, PrioInList DEF SameFields
    <2>2. \A l \in List : On(r, x, l) <=> On(s, x, l)
      OBVIOUS
    <2> QED
      BY <2>1, <2>2, PrioInList DEF Placed, StateTells, SameFields
  <1> QED
    BY <1>2, <1>3 DEF OffList

LEMMA RemoveTaskOff ==
    ASSUME NEW s \in SchedState, NEW t \in Task, Placed(s), s.state[t] # "BLOCKED"
    PROVE  OffList(scheduler_remove_task(s, t), t)
  <1>1. PICK r : r = scheduler_remove_task(s, t)
    OBVIOUS
  <1>2. r \in SchedState /\ SameFields(r, s)
    BY <1>1, RemoveTaskLemma
  <1>3. CASE s.state[t] \in {"READY", "RUNNING"}
    <2>1. Intact(s) /\ On(s, t, s.priority[t])
      BY <1>3 DEF Placed, StateTells
    <2> QED
      BY <1>1, <1>2, <2>1, RemoveTaskLemma, RemovedOff
  <1>4. CASE s.state[t] \notin {"READY", "RUNNING"}
    <2>1. Intact(s) /\ ~Linked(s, t)
      BY <1>4, PlacedOff DEF OffList
    <2>2. \A x \in Task, l \in List : On(r, x, l) <=> On(s, x, l) /\ x # t
      BY <1>1, <2>1, RemoveTaskLemma DEF Linked
    <2>3. Intact(r)
      BY <1>1, <2>1, RemoveTaskLemma
    <2> QED
      BY <1>1, <1>2, <2>2, <2>3, RemovedOff
  <1> QED
    BY <1>3, <1>4

LEMMA BlockedRemoveOff ==
    ASSUME NEW s \in SchedState, NEW t \in Task, Placed(s), s.state[t] = "BLOCKED"
    PROVE  OffList(blocked_remove(s, t), t)
  <1>1. PICK r : r = blocked_remove(s, t)
    OBVIOUS
  <1>2. Intact(s) /\ On(s, t, BlockedList)
    BY DEF Placed, StateTells
  <1> QED
    BY <1>1, <1>2, BlockedRemoveLemma, RemovedOff

\* What no function but the exceptions, lock and unlock changes; a request for
\* a switch is never taken back.
SameRun(r, s) == /\ r.cur = s.cur /\ r.lock = s.lock /\ r.resched = s.resched
                 /\ s.pendsv => r.pendsv

LEMMA FieldsFrame ==
    ASSUME NEW r, NEW s, SameFields(r, s)
    PROVE  SameRun(r, s) /\ r.state = s.state /\ r.priority = s.priority
  BY DEF SameFields, SameRun

LEMMA FrameTrans ==
    ASSUME NEW a, NEW b, NEW c, SameRun(a, b), SameRun(b, c)
    PROVE  SameRun(a, c)
  BY DEF SameRun

LEMMA TriggerLemma ==
    ASSUME NEW s \in SchedState, NEW r, r = scheduler_trigger_switch(s)
    PROVE  /\ r \in SchedState /\ SameRun(r, s) /\ r.state = s.state /\ r.pendsv
           /\ r.priority = s.priority
           /\ Sound(s) => Sound(r)
           /\ Placed(s) => Placed(r)
  <1>1. /\ r \in SchedState /\ SameRun(r, s) /\ r.state = s.state /\ r.pendsv
        /\ r.priority = s.priority /\ SameLists(r, s)
    BY DEF scheduler_trigger_switch, SchedState, SameRun, SameLists
  <1>2. Placed(s) => Placed(r)
    BY <1>1, PlacedKept
  <1> QED
    BY <1>1, <1>2, SameSound

LEMMA TriggerIfLemma ==
    ASSUME NEW s \in SchedState, NEW t \in Task, NEW r, r = TriggerIfOutranks(s, t)
    PROVE  /\ r \in SchedState /\ SameRun(r, s) /\ r.state = s.state
           /\ r.priority = s.priority
           /\ Sound(s) => Sound(r)
           /\ Placed(s) => Placed(r)
  <1>1. CASE Outranks(s, t)
    BY <1>1, TriggerLemma DEF TriggerIfOutranks
  <1>2. CASE ~Outranks(s, t)
    BY <1>2 DEF TriggerIfOutranks, SameRun
  <1> QED
    BY <1>1, <1>2

\* scheduler_add_task makes a task that is on no list ready and links it.
LEMMA AddLemma ==
    ASSUME NEW s \in SchedState, NEW t \in Task, NEW r, r = scheduler_add_task(s, t)
    PROVE  /\ r \in SchedState /\ SameRun(r, s)
           /\ r.state = [s.state EXCEPT ![t] = "READY"]
           /\ Sound(s) => Sound(r)
           /\ OffList(s, t) => Placed(r)
  <1>1. PICK a : a = [s EXCEPT !.state[t] = "READY", !.slice[t] = TimeSlice]
    OBVIOUS
  <1>2. /\ a \in SchedState /\ SameRun(a, s) /\ SameLists(a, s)
        /\ a.state = [s.state EXCEPT ![t] = "READY"]
        /\ a.priority = s.priority
    <2>1. s.state \in [Task -> TaskState] /\ s.slice \in [Task -> 0 .. TimeSlice]
      BY DEF SchedState
    <2>2. PICK S \in [Task -> TaskState] : S = [s.state EXCEPT ![t] = "READY"]
      BY <2>1 DEF TaskState
    <2>5. TimeSlice \in 0 .. TimeSlice
      BY ConstantsAssumption
    <2>3. PICK N \in [Task -> 0 .. TimeSlice] : N = [s.slice EXCEPT ![t] = TimeSlice]
      BY <2>1, <2>5
    <2>4. a = [s EXCEPT !.state = S, !.slice = N]
      BY <1>1, <2>2, <2>3
    <2> QED
      BY <2>2, <2>4 DEF SchedState, SameRun, SameLists
  <1>3. PICK b : b = ready_insert_tail(a, t)
    OBVIOUS
  <1>4. /\ b \in SchedState /\ SameFields(b, a)
        /\ Sound(a) => Sound(b)
    BY <1>2, <1>3, InsertTailLemma
  <1>5. OffList(s, t) => Placed(b)
    <2>1. OffList(s, t) => OffList(a, t)
      BY <1>2, OffListKept DEF SchedState
    <2>2. a.state[t] \in {"READY", "RUNNING"}
      BY <1>2 DEF SchedState
    <2> QED
      BY <1>2, <1>3, <2>1, <2>2, InsertTailPlaced
  <1>6. r = TriggerIfOutranks(b, t)
    BY <1>1, <1>3 DEF scheduler_add_task, TriggerIfOutranks
  <1>7. /\ r \in SchedState /\ SameRun(r, b) /\ r.state = b.state
        /\ Sound(b) => Sound(r)
        /\ Placed(b) => Placed(r)
    BY <1>4, <1>6, TriggerIfLemma
  <1>8. SameRun(r, s)
    BY <1>2, <1>4, <1>7, FieldsFrame, FrameTrans
  <1>9. Sound(s) => Sound(a)
    BY <1>2, SameSound
  <1> QED
    BY <1>2, <1>4, <1>5, <1>7, <1>8, <1>9, FieldsFrame

\* scheduler_set_priority as one step moves a ready task to its new list.
LEMMA SetPriorityLemma ==
    ASSUME NEW s \in SchedState, NEW t \in Task, NEW p \in Prio, NEW r,
           r = scheduler_set_priority(s, t, p)
    PROVE  /\ r \in SchedState /\ SameRun(r, s)
           /\ \A x \in Task : \/ r.state[x] = s.state[x]
                              \/ r.state[x] = "READY" /\ s.state[x] = "RUNNING"
           /\ Sound(s) => Sound(r)
           /\ Placed(s) => Placed(r)
  <1>0. ASSUME NEW a \in SchedState, NEW b, b = [a EXCEPT !.priority[t] = p]
        PROVE  /\ b \in SchedState /\ SameRun(b, a) /\ SameLists(b, a)
               /\ b.state = a.state
               /\ \A x \in Task \ {t} : b.priority[x] = a.priority[x]
    <2>1. a.priority \in [Task -> Prio]
      BY DEF SchedState
    <2>2. PICK P \in [Task -> Prio] : P = [a.priority EXCEPT ![t] = p]
      BY <2>1
    <2>3. b = [a EXCEPT !.priority = P]
      BY <1>0, <2>2
    <2> QED
      BY <2>1, <2>2, <2>3 DEF SchedState, SameRun, SameLists
  <1>1. CASE s.state[t] \in {"READY", "RUNNING"}
    <2>1. PICK a : a = scheduler_remove_task(s, t)
      OBVIOUS
    <2>2. /\ a \in SchedState /\ SameFields(a, s)
          /\ Sound(s) => Sound(a)
          /\ Placed(s) => OffList(a, t)
      BY <1>1, <2>1, RemoveTaskLemma, RemoveTaskOff
    <2>3. PICK b : b = [a EXCEPT !.priority[t] = p]
      OBVIOUS
    <2>4. /\ b \in SchedState /\ SameRun(b, a) /\ SameLists(b, a) /\ b.state = a.state
          /\ \A x \in Task \ {t} : b.priority[x] = a.priority[x]
      BY <1>0, <2>2, <2>3
    <2>5. r = scheduler_add_task(b, t)
      BY <1>1, <2>1, <2>3 DEF scheduler_set_priority
    <2>6. /\ r \in SchedState /\ SameRun(r, b)
          /\ r.state = [b.state EXCEPT ![t] = "READY"]
          /\ Sound(b) => Sound(r)
          /\ OffList(b, t) => Placed(r)
      BY <2>4, <2>5, AddLemma
    <2>7. Placed(s) => OffList(b, t)
      BY <2>2, <2>4, OffListKept
    <2>8. Sound(s) => Sound(b)
      BY <2>2, <2>4, SameSound
    <2>9. SameRun(r, s)
      BY <2>2, <2>4, <2>6, FieldsFrame, FrameTrans
    <2>10. b.state = s.state /\ s.state \in [Task -> TaskState]
      BY <2>2, <2>4, FieldsFrame DEF SchedState
    <2>11. \A x \in Task : r.state[x] = IF x = t THEN "READY" ELSE s.state[x]
      BY <2>6, <2>10
    <2>12. \A x \in Task : \/ r.state[x] = s.state[x]
                           \/ r.state[x] = "READY" /\ s.state[x] = "RUNNING"
      BY <1>1, <2>11
    <2> QED
      BY <2>6, <2>7, <2>8, <2>9, <2>12
  <1>2. CASE s.state[t] \notin {"READY", "RUNNING"}
    <2>1. r = [s EXCEPT !.priority[t] = p]
      BY <1>2 DEF scheduler_set_priority
    <2>2. /\ r \in SchedState /\ SameRun(r, s) /\ SameLists(r, s) /\ r.state = s.state
          /\ \A x \in Task \ {t} : r.priority[x] = s.priority[x]
      BY <1>0, <2>1
    <2>3. ASSUME Placed(s) PROVE Placed(r)
      <3>1. \A x, l : On(r, x, l) <=> On(s, x, l)
        BY <2>2 DEF On, SameLists
      <3>2. Intact(r)
        BY <2>2, <2>3 DEF Placed, SameLists, Intact, BitmapAgrees, LinkedOnce
      <3>3. ASSUME NEW x \in Task \ {t} PROVE StateTells(r, x)
        BY <2>2, <2>3, <3>1 DEF Placed, StateTells
      <3>4. \A l \in Prio : ~On(s, t, l)
        BY <1>2, <2>3 DEF Placed, StateTells
      <3>5. r.priority[t] \in Prio
        BY <2>2 DEF SchedState
      <3>6. StateTells(r, t)
        BY <1>2, <2>2, <2>3, <3>1, <3>4, <3>5 DEF Placed, StateTells
      <3> QED
        BY <3>2, <3>3, <3>6 DEF Placed
    <2> QED
      BY <2>2, <2>3, SameSound
  <1> QED
    BY <1>1, <1>2
-----------------------------------------------------------------------------
\* The head of a list moved to its tail: the same tasks, each still once.
LEMMA MovedOnce ==
    ASSUME NEW K \in [List -> Seq(Task)], Once(K), NEW l \in List, K[l] # <<>>,
           NEW L, L[l] = Append(Tail(K[l]), K[l][1]),
           \A m \in List \ {l} : L[m] = K[m]
    PROVE  /\ Once(L)
           /\ L[l] # <<>>
           /\ \A x \in Task, m \in List : In(L, x, m) <=> In(K, x, m)
  <1>1. K[l] \in Seq(Task)
    OBVIOUS
  <1>2. Tail(K[l]) = Without(K[l], 1) /\ 1 \in DOMAIN K[l]
    BY <1>1, TailIsWithout
  <1>3. 1 \in 1 .. Len(K[l])
    BY <1>1, <1>2, LenProperties
  <1>4. PICK t \in Task : t = K[l][1]
    BY <1>1, <1>2, <1>3, ElementOfSeq
  <1>5. PICK J : J = [K EXCEPT ![l] = Tail(K[l])]
    OBVIOUS
  <1>6. J[l] = Without(K[l], 1) /\ Elsewhere(J, K, l)
    BY <1>2, <1>5 DEF Elsewhere
  <1>7. Once(J) /\ J[l] \in Seq(Task) /\ Lost(J, K, l, 1)
    BY <1>3, <1>6, RemoveOnce
  <1>8. J \in [List -> Seq(Task)]
    BY <1>1, <1>5, <1>7
  <1>9. Absent(J, t)
    BY <1>4, <1>7 DEF Lost, Absent
  <1>10. L[l] = Append(J[l], t) /\ Elsewhere(L, J, l)
    BY <1>2, <1>4, <1>6 DEF Elsewhere
  <1>11. Once(L) /\ L[l] # <<>> /\ Gained(L, J, l, t)
    BY <1>7, <1>8, <1>9, <1>10, AppendOnce
  <1>12. In(K, t, l)
    BY <1>2, <1>4 DEF In
  <1>13. \A m \in List : In(K, t, m) => m = l
    BY <1>12 DEF In, Once
  <1> QED
    BY <1>4, <1>7, <1>11, <1>12, <1>13 DEF Gained, Lost

\* Rotating the running task's list keeps every task where it was.
LEMMA RotateLemma ==
    ASSUME NEW s \in SchedState, s.cur # NULL, NEW r, r = Rotate(s)
    PROVE  /\ r \in SchedState /\ SameFields(r, s)
           /\ Sound(s) => Sound(r)
           /\ Placed(s) => Placed(r)
  <1>0. PICK p \in Prio, t \in Task, K \in [List -> Seq(Task)] :
           t = s.cur /\ p = s.priority[t] /\ K = s.list
    BY DEF SchedState
  <1>1. CASE Len(K[p]) > 1 /\ K[p][1] = t
    <2>1. p \in List /\ K[p] \in Seq(Task) /\ Len(K[p]) \in Nat
      BY PrioInList, LenProperties
    <2>2. K[p] # <<>>
      <3>1. Len(K[p]) # 0
        BY <1>1, <2>1
      <3> QED
        BY <3>1
    <2>3. Tail(K[p]) \in Seq(Task)
      BY <2>1, <2>2, HeadTailProperties
    <2>4. Append(Tail(K[p]), t) \in Seq(Task)
      BY <2>3, AppendProperties
    <2>5. PICK L \in [List -> Seq(Task)] : L = [K EXCEPT ![p] = Append(Tail(K[p]), t)]
      BY <2>4
    <2>6. r = [s EXCEPT !.list = L]
      BY <1>0, <1>1, <2>5 DEF Rotate
    <2>7. /\ r \in SchedState /\ SameFields(r, s) /\ r.list = L
          /\ r.bitmap = s.bitmap /\ r.broken = s.broken
      BY <2>6 DEF SchedState, SameFields
    <2>8. L[p] = Append(Tail(K[p]), K[p][1]) /\ \A m \in List \ {p} : L[m] = K[m]
      BY <1>1, <2>1, <2>5
    <2>9. ASSUME Intact(s)
          PROVE  /\ Intact(r)
                 /\ \A x \in Task, m \in List : On(r, x, m) <=> On(s, x, m)
      <3>1. Once(K)
        BY <1>0, <2>9, OnceIn DEF Intact
      <3>2. /\ Once(L) /\ L[p] # <<>>
            /\ \A x \in Task, m \in List : In(L, x, m) <=> In(K, x, m)
        BY <2>1, <2>2, <2>8, <3>1, MovedOnce
      <3>3. \A m \in List : L[m] = <<>> <=> K[m] = <<>>
        BY <2>2, <2>8, <3>2
      <3>4. BitmapAgrees(r)
        BY <1>0, <2>7, <2>9, <3>3, PrioInList DEF BitmapAgrees, Intact
      <3>5. LinkedOnce(r) /\ \A x \in Task, m \in List : On(r, x, m) <=> On(s, x, m)
        BY <1>0, <2>7, <3>2, OnceIn
      <3> QED
        BY <2>7, <2>9, <3>4, <3>5 DEF Intact
    <2>10. ASSUME Placed(s) PROVE Placed(r)
      <3>1. \A x \in Task, m \in List : On(r, x, m) <=> On(s, x, m)
        BY <2>9, <2>10 DEF Placed
      <3>2. \A x \in Task : s.priority[x] \in List
        BY PrioInList DEF SchedState
      <3> QED
        BY <2>7, <2>9, <2>10, <3>1, <3>2, PrioInList DEF Placed, StateTells, SameFields
    <2> QED
      BY <2>7, <2>9, <2>10, IntactSound
  <1>2. CASE ~(Len(K[p]) > 1 /\ K[p][1] = t)
    <2>1. r = s
      BY <1>0, <1>2 DEF Rotate
    <2> QED
      BY <2>1 DEF SameFields
  <1> QED
    BY <1>1, <1>2

\* A lock-deferred yield is recorded only while the lock is held.
Deferred(s) == s.lock = 0 => ~s.resched

LEMMA YieldLemma ==
    ASSUME NEW s \in SchedState, NEW r, r = scheduler_yield(s)
    PROVE  /\ r \in SchedState
           /\ r.state = s.state /\ r.cur = s.cur /\ r.lock = s.lock
           /\ s.pendsv => r.pendsv
           /\ Deferred(s) => Deferred(r)
           /\ Sound(s) => Sound(r)
           /\ Placed(s) => Placed(r)
  <1>1. CASE s.cur = NULL
    BY <1>1 DEF scheduler_yield
  <1>2. CASE s.cur # NULL /\ s.lock > 0
    <2>1. r = [s EXCEPT !.resched = TRUE]
      BY <1>2 DEF scheduler_yield
    <2>2. /\ r \in SchedState /\ SameLists(r, s) /\ r.priority = s.priority
          /\ r.state = s.state /\ r.cur = s.cur /\ r.lock = s.lock
          /\ r.pendsv = s.pendsv
      BY <2>1 DEF SchedState, SameLists
    <2>3. Deferred(r)
      BY <1>2, <2>2 DEF Deferred
    <2> QED
      BY <2>2, <2>3, SameSound, PlacedKept
  <1>3. CASE s.cur # NULL /\ ~(s.lock > 0)
    <2>1. PICK a : a = Rotate(s)
      OBVIOUS
    <2>2. /\ a \in SchedState /\ SameFields(a, s)
          /\ Sound(s) => Sound(a)
          /\ Placed(s) => Placed(a)
      BY <1>3, <2>1, RotateLemma
    <2>3. r = scheduler_trigger_switch(a)
      BY <1>3, <2>1 DEF scheduler_yield
    <2>4. /\ r \in SchedState /\ SameRun(r, a) /\ r.state = a.state
          /\ Sound(a) => Sound(r)
          /\ Placed(a) => Placed(r)
      BY <2>2, <2>3, TriggerLemma
    <2> QED
      BY <2>2, <2>4 DEF SameRun, SameFields, Deferred
  <1> QED
    BY <1>1, <1>2, <1>3
\* What scheduler_block_task and MakeReady write into a TCB is within its type.
LEMMA TickTypes ==
    ASSUME NEW s \in SchedState, NEW n \in Tick
    PROVE  /\ wake_tick(s, n) \in Tick
           /\ (s.tick + 1) % (TickMax + 1) \in Tick
           /\ 0 \in Tick
  <1>1. s.tick \in Nat /\ n \in Nat /\ TickMax \in Nat
    BY ConstantsAssumption DEF SchedState, Tick
  <1>2. \A k \in Nat : k % (TickMax + 1) \in 0 .. TickMax
    BY <1>1
  <1>3. /\ (s.tick + 1) % (TickMax + 1) \in 0 .. TickMax
        /\ (s.tick + n) % (TickMax + 1) \in 0 .. TickMax
        /\ TickMax \in 0 .. TickMax /\ 0 \in 0 .. TickMax
    BY <1>1, <1>2
  <1> QED
    BY <1>3 DEF wake_tick, Tick

\* The running task goes to the blocked list and asks for a switch.
LEMMA BlockLemma ==
    ASSUME NEW s \in SchedState, s.cur # NULL, NEW reason \in BlockReason,
           NEW object \in Object \cup {NULL}, NEW n \in Tick, NEW r,
           r = scheduler_block_task(s, reason, object, n)
    PROVE  /\ r \in SchedState /\ SameRun(r, s) /\ r.pendsv
           /\ r.state[s.cur] = "BLOCKED"
           /\ \A y \in Task \ {s.cur} : r.state[y] = s.state[y]
           /\ Sound(s) => Sound(r)
           /\ Placed(s) /\ s.state[s.cur] # "BLOCKED" => Placed(r)
  <1>0. PICK t \in Task : t = s.cur
    BY DEF SchedState
  <1>1. PICK a : a = scheduler_remove_task(s, t)
    OBVIOUS
  <1>2. /\ a \in SchedState /\ SameFields(a, s)
        /\ Sound(s) => Sound(a)
        /\ Placed(s) /\ s.state[t] # "BLOCKED" => OffList(a, t)
    BY <1>1, RemoveTaskLemma, RemoveTaskOff
  <1>3. PICK w \in Tick : w = wake_tick(s, n)
    BY TickTypes
  <1>4. PICK b : b = [a EXCEPT !.state[t] = "BLOCKED", !.reason[t] = reason,
                               !.object[t] = object, !.timeout[t] = n,
                               !.result[t] = "OK", !.wake[t] = w]
    OBVIOUS
  <1>5. /\ b \in SchedState /\ SameRun(b, a) /\ SameLists(b, a)
        /\ b.state = [a.state EXCEPT ![t] = "BLOCKED"]
        /\ b.priority = a.priority
    <2>1. /\ a.state \in [Task -> TaskState] /\ a.reason \in [Task -> BlockReason]
          /\ a.object \in [Task -> Object \cup {NULL}] /\ a.timeout \in [Task -> Tick]
          /\ a.result \in [Task -> Result] /\ a.wake \in [Task -> Tick]
      BY <1>2 DEF SchedState
    <2>2. PICK S \in [Task -> TaskState] : S = [a.state EXCEPT ![t] = "BLOCKED"]
      BY <2>1 DEF TaskState
    <2>3. PICK R \in [Task -> BlockReason] : R = [a.reason EXCEPT ![t] = reason]
      BY <2>1
    <2>4. PICK O \in [Task -> Object \cup {NULL}] : O = [a.object EXCEPT ![t] = object]
      BY <2>1
    <2>5. PICK T \in [Task -> Tick] : T = [a.timeout EXCEPT ![t] = n]
      BY <2>1
    <2>6. PICK U \in [Task -> Result] : U = [a.result EXCEPT ![t] = "OK"]
      BY <2>1 DEF Result
    <2>7. PICK W \in [Task -> Tick] : W = [a.wake EXCEPT ![t] = w]
      BY <2>1
    <2>8. b = [a EXCEPT !.state = S, !.reason = R, !.object = O, !.timeout = T,
                        !.result = U, !.wake = W]
      BY <1>4, <2>2, <2>3, <2>4, <2>5, <2>6, <2>7
    <2> QED
      BY <1>2, <2>2, <2>8 DEF SchedState, SameRun, SameLists
  <1>6. PICK c : c = blocked_insert(b, t)
    OBVIOUS
  <1>7. c \in SchedState /\ SameFields(c, b) /\ (Sound(b) => Sound(c))
    BY <1>5, <1>6, BlockedInsertLemma
  <1>8. r = scheduler_trigger_switch(c)
    BY <1>0, <1>1, <1>3, <1>4, <1>6 DEF scheduler_block_task
  <1>9. /\ r \in SchedState /\ SameRun(r, c) /\ r.state = c.state /\ r.pendsv
        /\ Sound(c) => Sound(r)
        /\ Placed(c) => Placed(r)
    BY <1>7, <1>8, TriggerLemma
  <1>10. SameRun(r, s)
    BY <1>2, <1>5, <1>7, <1>9, FieldsFrame, FrameTrans
  <1>11. Sound(s) => Sound(b)
    BY <1>2, <1>5, SameSound
  <1>12. OffList(a, t) => Placed(c)
    <2>1. OffList(a, t) => OffList(b, t)
      BY <1>2, <1>5, OffListKept DEF SchedState
    <2>2. b.state[t] = "BLOCKED"
      BY <1>2, <1>5 DEF SchedState
    <2> QED
      BY <1>5, <1>6, <2>1, <2>2, BlockedInsertPlaced
  <1>13. r.state = [s.state EXCEPT ![t] = "BLOCKED"]
    BY <1>2, <1>5, <1>7, <1>9, FieldsFrame
  <1>14. r.state[t] = "BLOCKED" /\ \A y \in Task \ {t} : r.state[y] = s.state[y]
    BY <1>13 DEF SchedState
  <1> QED
    BY <1>0, <1>2, <1>7, <1>9, <1>10, <1>11, <1>12, <1>14

\* A blocked task goes to the tail of the ready list of its priority.
LEMMA MakeReadyLemma ==
    ASSUME NEW s \in SchedState, NEW t \in Task, NEW result \in Result, NEW r,
           r = MakeReady(s, t, result)
    PROVE  /\ r \in SchedState /\ SameRun(r, s)
           /\ r.state = [s.state EXCEPT ![t] = "READY"]
           /\ Sound(s) => Sound(r)
           /\ Placed(s) /\ s.state[t] = "BLOCKED" => Placed(r)
  <1>1. PICK a : a = blocked_remove(s, t)
    OBVIOUS
  <1>2. /\ a \in SchedState /\ SameFields(a, s)
        /\ Sound(s) => Sound(a)
        /\ Placed(s) /\ s.state[t] = "BLOCKED" => OffList(a, t)
    BY <1>1, BlockedRemoveLemma, BlockedRemoveOff
  <1>3. PICK b : b = [a EXCEPT !.state[t] = "READY", !.reason[t] = "NONE",
                               !.object[t] = NULL, !.timeout[t] = 0,
                               !.result[t] = result]
    OBVIOUS
  <1>4. /\ b \in SchedState /\ SameRun(b, a) /\ SameLists(b, a)
        /\ b.state = [a.state EXCEPT ![t] = "READY"]
        /\ b.priority = a.priority
    <2>1. /\ a.state \in [Task -> TaskState] /\ a.reason \in [Task -> BlockReason]
          /\ a.object \in [Task -> Object \cup {NULL}] /\ a.timeout \in [Task -> Tick]
          /\ a.result \in [Task -> Result]
      BY <1>2 DEF SchedState
    <2>0. 0 \in Tick
      BY ConstantsAssumption DEF Tick
    <2>2. PICK S \in [Task -> TaskState] : S = [a.state EXCEPT ![t] = "READY"]
      BY <2>1 DEF TaskState
    <2>3. PICK R \in [Task -> BlockReason] : R = [a.reason EXCEPT ![t] = "NONE"]
      BY <2>1 DEF BlockReason
    <2>4. PICK O \in [Task -> Object \cup {NULL}] : O = [a.object EXCEPT ![t] = NULL]
      BY <2>1
    <2>5. PICK T \in [Task -> Tick] : T = [a.timeout EXCEPT ![t] = 0]
      BY <2>0, <2>1
    <2>6. PICK U \in [Task -> Result] : U = [a.result EXCEPT ![t] = result]
      BY <2>1
    <2>7. b = [a EXCEPT !.state = S, !.reason = R, !.object = O, !.timeout = T,
                        !.result = U]
      BY <1>3, <2>2, <2>3, <2>4, <2>5, <2>6
    <2> QED
      BY <1>2, <2>2, <2>7 DEF SchedState, SameRun, SameLists
  <1>5. r = ready_insert_tail(b, t)
    BY <1>1, <1>3 DEF MakeReady
  <1>6. r \in SchedState /\ SameFields(r, b) /\ (Sound(b) => Sound(r))
    BY <1>4, <1>5, InsertTailLemma
  <1>7. SameRun(r, s)
    BY <1>2, <1>4, <1>6, FieldsFrame, FrameTrans
  <1>8. Sound(s) => Sound(b)
    BY <1>2, <1>4, SameSound
  <1>9. OffList(a, t) => Placed(r)
    <2>1. OffList(a, t) => OffList(b, t)
      BY <1>2, <1>4, OffListKept DEF SchedState
    <2>2. b.state[t] \in {"READY", "RUNNING"}
      BY <1>2, <1>4 DEF SchedState
    <2> QED
      BY <1>4, <1>5, <2>1, <2>2, InsertTailPlaced
  <1>10. r.state = [s.state EXCEPT ![t] = "READY"]
    BY <1>2, <1>4, <1>6, FieldsFrame
  <1> QED
    BY <1>2, <1>6, <1>7, <1>8, <1>9, <1>10

LEMMA UnblockTaskLemma ==
    ASSUME NEW s \in SchedState, NEW t \in Task, NEW result \in Result, NEW r,
           r = scheduler_unblock_task(s, t, result)
    PROVE  /\ r \in SchedState /\ SameRun(r, s)
           /\ \A x \in Task : \/ r.state[x] = s.state[x]
                              \/ r.state[x] = "READY" /\ s.state[x] = "BLOCKED"
           /\ Sound(s) => Sound(r)
           /\ Placed(s) => Placed(r)
  <1>1. CASE s.state[t] # "BLOCKED"
    BY <1>1 DEF scheduler_unblock_task, SameRun
  <1>2. CASE s.state[t] = "BLOCKED"
    <2>1. PICK a : a = MakeReady(s, t, result)
      OBVIOUS
    <2>2. /\ a \in SchedState /\ SameRun(a, s)
          /\ a.state = [s.state EXCEPT ![t] = "READY"]
          /\ Sound(s) => Sound(a)
          /\ Placed(s) => Placed(a)
      BY <1>2, <2>1, MakeReadyLemma
    <2>3. r = TriggerIfOutranks(a, t)
      BY <1>2, <2>1 DEF scheduler_unblock_task
    <2>4. /\ r \in SchedState /\ SameRun(r, a) /\ r.state = a.state
          /\ Sound(a) => Sound(r)
          /\ Placed(a) => Placed(r)
      BY <2>2, <2>3, TriggerIfLemma
    <2>5. s.state \in [Task -> TaskState]
      BY DEF SchedState
    <2>6. \A x \in Task : \/ r.state[x] = s.state[x]
                          \/ r.state[x] = "READY" /\ s.state[x] = "BLOCKED"
      BY <1>2, <2>2, <2>4, <2>5
    <2>7. SameRun(r, s)
      BY <2>2, <2>4, FrameTrans
    <2> QED
      BY <2>2, <2>4, <2>6, <2>7
  <1> QED
    BY <1>1, <1>2
-----------------------------------------------------------------------------
(***************************************************************************)
(* What the exceptions do.                                                 *)
(***************************************************************************)
LEMMA ChargeSliceLemma ==
    ASSUME NEW s \in SchedState, NEW r, r = charge_slice(s)
    PROVE  /\ r \in SchedState
           /\ r.state = s.state /\ r.cur = s.cur /\ r.lock = s.lock
           /\ s.pendsv => r.pendsv
           /\ Deferred(s) => Deferred(r)
           /\ Sound(s) => Sound(r)
           /\ Placed(s) => Placed(r)
  <1>1. CASE s.cur = NULL
    BY <1>1 DEF charge_slice
  <1>2. CASE s.cur # NULL
    <2>0. PICK t \in Task : t = s.cur
      BY <1>2 DEF SchedState
    <2>1. ASSUME NEW n \in 0 .. TimeSlice, NEW a, a = [s EXCEPT !.slice[t] = n]
          PROVE  /\ a \in SchedState /\ SameLists(a, s) /\ a.priority = s.priority
                 /\ a.state = s.state /\ a.cur = s.cur /\ a.lock = s.lock
                 /\ a.pendsv = s.pendsv /\ a.resched = s.resched
      <3>1. s.slice \in [Task -> 0 .. TimeSlice]
        BY DEF SchedState
      <3>2. PICK N \in [Task -> 0 .. TimeSlice] : N = [s.slice EXCEPT ![t] = n]
        BY <3>1
      <3>3. a = [s EXCEPT !.slice = N]
        BY <2>1, <3>2
      <3> QED
        BY <3>3 DEF SchedState, SameLists
    <2>2. PICK n : n = IF s.slice[t] > 0 THEN s.slice[t] - 1 ELSE 0
      OBVIOUS
    <2>3. n \in 0 .. TimeSlice /\ TimeSlice \in 0 .. TimeSlice
      <3>1. PICK k \in 0 .. TimeSlice : k = s.slice[t]
        BY DEF SchedState
      <3>2. n = IF k > 0 THEN k - 1 ELSE 0
        BY <2>2, <3>1
      <3> QED
        BY <3>2, ConstantsAssumption
    <2>4. CASE RoundRobin /\ n = 0
      <3>1. PICK a : a = [s EXCEPT !.slice[t] = TimeSlice]
        OBVIOUS
      <3>2. r = scheduler_yield(a)
        BY <1>2, <2>0, <2>2, <2>4, <3>1 DEF charge_slice
      <3>3. /\ a \in SchedState /\ SameLists(a, s) /\ a.priority = s.priority
            /\ a.state = s.state /\ a.cur = s.cur /\ a.lock = s.lock
            /\ a.pendsv = s.pendsv /\ a.resched = s.resched
        BY <2>1, <2>3, <3>1
      <3>4. /\ Sound(s) => Sound(a)
            /\ Placed(s) => Placed(a)
            /\ Deferred(s) => Deferred(a)
        BY <3>3, SameSound, PlacedKept DEF Deferred
      <3>5. /\ r \in SchedState
            /\ r.state = a.state /\ r.cur = a.cur /\ r.lock = a.lock
            /\ a.pendsv => r.pendsv
            /\ Deferred(a) => Deferred(r)
            /\ Sound(a) => Sound(r)
            /\ Placed(a) => Placed(r)
        BY <3>2, <3>3, YieldLemma
      <3> QED
        BY <3>3, <3>4, <3>5
    <2>5. CASE ~(RoundRobin /\ n = 0)
      <3>1. r = [s EXCEPT !.slice[t] = n]
        BY <1>2, <2>0, <2>2, <2>5 DEF charge_slice
      <3>2. /\ r \in SchedState /\ SameLists(r, s) /\ r.priority = s.priority
            /\ r.state = s.state /\ r.cur = s.cur /\ r.lock = s.lock
            /\ r.pendsv = s.pendsv /\ r.resched = s.resched
        BY <2>1, <2>3, <3>1
      <3> QED
        BY <3>2, SameSound, PlacedKept DEF Deferred
    <2> QED
      BY <2>4, <2>5
  <1> QED
    BY <1>1, <1>2

LEMMA PreemptCheckLemma ==
    ASSUME NEW s \in SchedState, NEW r, r = preempt_check(s)
    PROVE  /\ r \in SchedState /\ SameRun(r, s) /\ r.state = s.state
           /\ Sound(s) => Sound(r)
           /\ Placed(s) => Placed(r)
  <1>1. r = s \/ r = scheduler_trigger_switch(s)
    BY DEF preempt_check
  <1>2. SameRun(s, s)
    BY DEF SameRun
  <1> QED
    BY <1>1, <1>2, TriggerLemma

\* A non-empty set of natural numbers has a smallest element.
LEMMA LeastNat ==
    ASSUME NEW S \in SUBSET Nat, S # {}
    PROVE  \E x \in S : \A y \in S : x <= y
  <1>1. \E x \in S : \A y \in S : ~(<<y, x>> \in OpToRel(<, Nat))
    BY WFMin, NatLessThanWellFounded
  <1>2. \A x, y \in Nat : x < y => <<x, y>> \in OpToRel(<, Nat)
    BY Zenon DEF OpToRel
  <1>3. \E x \in S : \A y \in S : ~(y < x)
    BY <1>1, <1>2, Zenon
  <1> QED
    BY <1>3

\* A non-empty set of priorities has a smallest one, and bitmap_find_highest
\* (a count of trailing zeros) is it.
LEMMA HighestLemma ==
    ASSUME NEW b \in SUBSET Prio, b # {}
    PROVE  /\ bitmap_find_highest(b) \in b
           /\ \A q \in b : bitmap_find_highest(b) <= q
  <1>1. b \subseteq Nat
    BY DEF Prio
  <1>2. \E x \in b : \A y \in b : x <= y
    BY <1>1, LeastNat
  <1> QED
    BY <1>2 DEF bitmap_find_highest

\* scheduler_get_next returns the head of a ready list, and finds one
\* whenever a task is ready.
LEMMA GetNextLemma ==
    ASSUME NEW s \in SchedState, NEW t, t = scheduler_get_next(s)
    PROVE  /\ t \in Task \cup {NULL}
           /\ t # NULL => t \in Task
           /\ Placed(s) /\ t # NULL => s.state[t] \in {"READY", "RUNNING"}
           /\ \A x \in Task : Placed(s) /\ s.state[x] \in {"READY", "RUNNING"} => t # NULL
  <1>0. PICK p : p = bitmap_find_highest(s.bitmap)
    OBVIOUS
  <1>1. s.bitmap \in SUBSET Prio /\ s.list \in [List -> Seq(Task)]
    BY DEF SchedState
  <1>2. p = MaxPriority \/ p \in s.bitmap
    BY <1>0, <1>1, HighestLemma DEF bitmap_find_highest
  <1>3. ASSUME ~(p >= MaxPriority), s.list[p] # <<>>
        PROVE  t = s.list[p][1] /\ t \in Task /\ p \in Prio /\ 1 \in DOMAIN s.list[p]
    <2>1. p \in Prio
      BY <1>1, <1>2, <1>3, ConstantsAssumption
    <2>2. s.list[p] \in Seq(Task)
      BY <1>1, <2>1, PrioInList
    <2>3. 1 \in DOMAIN s.list[p]
      BY <1>3, <2>2, TailIsWithout
    <2>4. s.list[p][1] \in Task
      BY <2>2, <2>3, ElementOfSeq, LenProperties
    <2>5. t = s.list[p][1]
      BY <1>0, <1>3 DEF scheduler_get_next
    <2> QED
      BY <2>1, <2>3, <2>4, <2>5
  <1>4. ASSUME p >= MaxPriority \/ s.list[p] = <<>>
        PROVE  t = NULL
    BY <1>0, <1>4 DEF scheduler_get_next
  <1>5. ASSUME Placed(s), t # NULL
        PROVE  s.state[t] \in {"READY", "RUNNING"}
    <2>1. t = s.list[p][1] /\ t \in Task /\ p \in Prio /\ 1 \in DOMAIN s.list[p]
      BY <1>3, <1>4, <1>5
    <2>2. On(s, t, p)
      BY <2>1 DEF On
    <2> QED
      BY <1>5, <2>1, <2>2 DEF Placed, StateTells
  <1>6. ASSUME NEW x \in Task, Placed(s), s.state[x] \in {"READY", "RUNNING"}
        PROVE  t # NULL
    <2>1. PICK q \in Prio : q = s.priority[x] /\ On(s, x, q)
      BY <1>6 DEF SchedState, Placed, StateTells
    <2>2. s.list[q] # <<>>
      BY <2>1 DEF On
    <2>3. q \in s.bitmap
      BY <1>6, <2>1, <2>2 DEF Placed, Intact, BitmapAgrees
    <2>4. p \in s.bitmap /\ p \in Prio
      BY <1>0, <1>1, <2>3, HighestLemma
    <2>5. s.list[p] # <<>> /\ ~(p >= MaxPriority)
      BY <1>6, <2>4, ConstantsAssumption DEF Placed, Intact, BitmapAgrees, Prio
    <2> QED
      BY <1>3, <2>5, ConstantsAssumption DEF Task
  <1> QED
    BY <1>3, <1>4, <1>5, <1>6, ConstantsAssumption DEF Task
-----------------------------------------------------------------------------
(***************************************************************************)
(* The fields of the TCBs that a wait is made of.                          *)
(***************************************************************************)
SameWaits(r, s) ==
    /\ r.reason = s.reason /\ r.object = s.object /\ r.timeout = s.timeout
    /\ r.result = s.result /\ r.wake = s.wake /\ r.tick = s.tick

\* The wait of t has ended with this result.
WaitOver(r, s, t, result) ==
    /\ r.reason = [s.reason EXCEPT ![t] = "NONE"]
    /\ r.object = [s.object EXCEPT ![t] = NULL]
    /\ r.timeout = [s.timeout EXCEPT ![t] = 0]
    /\ r.result = [s.result EXCEPT ![t] = result]
    /\ r.wake = s.wake /\ r.tick = s.tick /\ r.priority = s.priority

\* A wait of t has begun.
WaitBegun(r, s, t, reason, object, timeout) ==
    /\ r.reason = [s.reason EXCEPT ![t] = reason]
    /\ r.object = [s.object EXCEPT ![t] = object]
    /\ r.timeout = [s.timeout EXCEPT ![t] = timeout]
    /\ r.result = [s.result EXCEPT ![t] = "OK"]
    /\ r.wake = [s.wake EXCEPT ![t] = wake_tick(s, timeout)]
    /\ r.tick = s.tick /\ r.priority = s.priority

LEMMA FieldsWaits ==
    ASSUME NEW r, NEW s, SameFields(r, s)
    PROVE  SameWaits(r, s) /\ r.priority = s.priority
  BY DEF SameFields, SameWaits

LEMMA WaitsTrans ==
    ASSUME NEW a, NEW b, NEW c, SameWaits(a, b), SameWaits(b, c)
    PROVE  SameWaits(a, c)
  BY DEF SameWaits

LEMMA TriggerWaits ==
    ASSUME NEW s \in SchedState, NEW t
    PROVE  /\ SameWaits(scheduler_trigger_switch(s), s)
           /\ SameWaits(TriggerIfOutranks(s, t), s)
           /\ SameWaits(preempt_check(s), s)
  BY DEF scheduler_trigger_switch, TriggerIfOutranks, preempt_check, SameWaits, SchedState

\* No function but scheduler_block_task, MakeReady and tcb_init writes them.
LEMMA KeepsWaits ==
    ASSUME NEW s \in SchedState, NEW t \in Task
    PROVE  /\ SameWaits(scheduler_yield(s), s)
           /\ SameWaits(scheduler_lock(s), s) /\ SameWaits(scheduler_unlock(s), s)
           /\ SameWaits(charge_slice(s), s)
           /\ SameWaits(scheduler_remove_task(s, t), s)
           /\ SameWaits(scheduler_add_task(s, t), s)
           /\ \A p \in Prio : SameWaits(scheduler_set_priority(s, t, p), s)
  <1>1. \A a \in SchedState : SameWaits(scheduler_yield(a), a)
    BY DEF SameWaits, SchedState, scheduler_yield, Rotate, scheduler_trigger_switch
  <1>2. SameWaits(scheduler_lock(s), s) /\ SameWaits(scheduler_unlock(s), s)
    BY DEF SameWaits, SchedState, scheduler_lock, scheduler_unlock
  <1>3. \A x \in Task : SameWaits(scheduler_remove_task(s, x), s)
    BY RemoveTaskLemma, FieldsWaits
  <1>4. ASSUME NEW a \in SchedState PROVE SameWaits(scheduler_add_task(a, t), a)
    <2>1. PICK b : b = [a EXCEPT !.state[t] = "READY", !.slice[t] = TimeSlice]
      OBVIOUS
    <2>2. b \in SchedState /\ SameWaits(b, a)
      <3>1. TimeSlice \in 0 .. TimeSlice /\ "READY" \in TaskState
        BY ConstantsAssumption DEF TaskState
      <3>2. PICK S \in [Task -> TaskState], N \in [Task -> 0 .. TimeSlice] :
               /\ S = [a.state EXCEPT ![t] = "READY"]
               /\ N = [a.slice EXCEPT ![t] = TimeSlice]
        BY <3>1 DEF SchedState
      <3>3. b = [a EXCEPT !.state = S, !.slice = N]
        BY <2>1, <3>2
      <3> QED BY <3>3 DEF SchedState, SameWaits
    <2>3. PICK c : c = ready_insert_tail(b, t)
      OBVIOUS
    <2>4. c \in SchedState /\ SameWaits(c, b)
      BY <2>2, <2>3, InsertTailLemma, FieldsWaits
    <2>5. scheduler_add_task(a, t) = TriggerIfOutranks(c, t)
      BY <2>1, <2>3 DEF scheduler_add_task, TriggerIfOutranks
    <2> QED
      BY <2>2, <2>4, <2>5, TriggerWaits, WaitsTrans
  <1>5. ASSUME NEW p \in Prio PROVE SameWaits(scheduler_set_priority(s, t, p), s)
    <2>1. ASSUME NEW a \in SchedState, NEW b, b = [a EXCEPT !.priority[t] = p]
          PROVE  b \in SchedState /\ SameWaits(b, a)
      <3>1. PICK P \in [Task -> Prio] : P = [a.priority EXCEPT ![t] = p]
        BY DEF SchedState
      <3>2. b = [a EXCEPT !.priority = P]
        BY <2>1, <3>1
      <3> QED BY <3>2 DEF SchedState, SameWaits
    <2>2. CASE s.state[t] \in {"READY", "RUNNING"}
      <3>1. PICK a : a = scheduler_remove_task(s, t)
        OBVIOUS
      <3>2. a \in SchedState /\ SameWaits(a, s)
        BY <1>3, <3>1, RemoveTaskLemma
      <3>3. PICK b : b = [a EXCEPT !.priority[t] = p]
        OBVIOUS
      <3>4. b \in SchedState /\ SameWaits(b, a)
        BY <2>1, <3>2, <3>3
      <3>5. scheduler_set_priority(s, t, p) = scheduler_add_task(b, t)
        BY <2>2, <3>1, <3>3 DEF scheduler_set_priority
      <3> QED
        BY <1>4, <3>2, <3>4, <3>5, WaitsTrans
    <2>3. CASE s.state[t] \notin {"READY", "RUNNING"}
      BY <2>1, <2>3 DEF scheduler_set_priority
    <2> QED BY <2>2, <2>3
  <1>6. SameWaits(charge_slice(s), s)
    <2>1. CASE s.cur = NULL
      BY <2>1 DEF charge_slice, SameWaits
    <2>2. CASE s.cur # NULL
      <3>1. PICK x \in Task : x = s.cur
        BY <2>2 DEF SchedState
      <3>2. PICK n : n = IF s.slice[x] > 0 THEN s.slice[x] - 1 ELSE 0
        OBVIOUS
      <3>3. CASE ~(RoundRobin /\ n = 0)
        <4>1. charge_slice(s) = [s EXCEPT !.slice[x] = n]
          BY <2>2, <3>1, <3>2, <3>3 DEF charge_slice
        <4> QED BY <4>1 DEF SchedState, SameWaits
      <3>4. CASE RoundRobin /\ n = 0
        <4>1. PICK a : a = [s EXCEPT !.slice[x] = TimeSlice]
          OBVIOUS
        <4>2. charge_slice(s) = scheduler_yield(a)
          BY <2>2, <3>1, <3>2, <3>4, <4>1 DEF charge_slice
        <4>3. a \in SchedState /\ SameWaits(a, s)
          <5>1. TimeSlice \in 0 .. TimeSlice
            BY ConstantsAssumption
          <5>2. PICK N \in [Task -> 0 .. TimeSlice] : N = [s.slice EXCEPT ![x] = TimeSlice]
            BY <5>1 DEF SchedState
          <5>3. a = [s EXCEPT !.slice = N]
            BY <4>1, <5>2
          <5> QED BY <5>3 DEF SchedState, SameWaits
        <4> QED BY <1>1, <4>2, <4>3, WaitsTrans
      <3> QED BY <3>3, <3>4
    <2> QED BY <2>1, <2>2
  <1> QED
    BY <1>1, <1>2, <1>3, <1>4, <1>5, <1>6

LEMMA MakeReadyWaits ==
    ASSUME NEW s \in SchedState, NEW t \in Task, NEW result \in Result, NEW r,
           r = MakeReady(s, t, result)
    PROVE  WaitOver(r, s, t, result)
  <1>1. PICK a : a = blocked_remove(s, t)
    OBVIOUS
  <1>2. a \in SchedState /\ SameWaits(a, s) /\ a.priority = s.priority
    BY <1>1, BlockedRemoveLemma, FieldsWaits
  <1>3. 0 \in Tick
    BY ConstantsAssumption DEF Tick
  <1>4. PICK S \in [Task -> TaskState], R \in [Task -> BlockReason],
             O \in [Task -> Object \cup {NULL}], T \in [Task -> Tick],
             U \in [Task -> Result] :
           /\ S = [a.state EXCEPT ![t] = "READY"] /\ R = [a.reason EXCEPT ![t] = "NONE"]
           /\ O = [a.object EXCEPT ![t] = NULL] /\ T = [a.timeout EXCEPT ![t] = 0]
           /\ U = [a.result EXCEPT ![t] = result]
    BY <1>2, <1>3 DEF SchedState, TaskState, BlockReason
  <1>5. PICK b : b = [a EXCEPT !.state = S, !.reason = R, !.object = O, !.timeout = T,
                               !.result = U]
    OBVIOUS
  <1>6. /\ b \in SchedState /\ b.reason = R /\ b.object = O /\ b.timeout = T
        /\ b.result = U /\ b.wake = a.wake /\ b.tick = a.tick /\ b.priority = a.priority
    BY <1>2, <1>5 DEF SchedState
  <1>7. r = ready_insert_tail(b, t)
    BY <1>1, <1>4, <1>5 DEF MakeReady
  <1>8. SameWaits(r, b) /\ r.priority = b.priority
    BY <1>6, <1>7, InsertTailLemma, FieldsWaits
  <1> QED
    BY <1>2, <1>4, <1>6, <1>8 DEF SameWaits, WaitOver

LEMMA UnblockTaskWaits ==
    ASSUME NEW s \in SchedState, NEW t \in Task, NEW result \in Result, NEW r,
           r = scheduler_unblock_task(s, t, result)
    PROVE  \/ r = s
           \/ /\ WaitOver(r, s, t, result)
              /\ \A y \in Task \ {t} : r.state[y] = s.state[y]
  <1>1. CASE s.state[t] # "BLOCKED"
    BY <1>1 DEF scheduler_unblock_task
  <1>2. CASE s.state[t] = "BLOCKED"
    <2>1. PICK a : a = MakeReady(s, t, result)
      OBVIOUS
    <2>2. /\ a \in SchedState /\ WaitOver(a, s, t, result)
          /\ a.state = [s.state EXCEPT ![t] = "READY"]
      BY <2>1, MakeReadyLemma, MakeReadyWaits
    <2>3. r = TriggerIfOutranks(a, t)
      BY <1>2, <2>1 DEF scheduler_unblock_task
    <2>4. SameWaits(r, a) /\ r.state = a.state /\ r.priority = a.priority
      BY <2>2, <2>3, TriggerIfLemma, TriggerWaits
    <2> QED
      BY <2>2, <2>4 DEF WaitOver, SameWaits, SchedState
  <1> QED
    BY <1>1, <1>2

LEMMA BlockWaits ==
    ASSUME NEW s \in SchedState, s.cur # NULL, NEW reason \in BlockReason,
           NEW object \in Object \cup {NULL}, NEW n \in Tick, NEW r,
           r = scheduler_block_task(s, reason, object, n)
    PROVE  WaitBegun(r, s, s.cur, reason, object, n)
  <1>0. PICK t \in Task : t = s.cur
    BY DEF SchedState
  <1>1. PICK a : a = scheduler_remove_task(s, t)
    OBVIOUS
  <1>2. a \in SchedState /\ SameWaits(a, s) /\ a.priority = s.priority
    BY <1>1, RemoveTaskLemma, FieldsWaits
  <1>3. PICK w \in Tick : w = wake_tick(s, n)
    BY TickTypes
  <1>4. PICK S \in [Task -> TaskState], R \in [Task -> BlockReason],
             O \in [Task -> Object \cup {NULL}], T \in [Task -> Tick],
             U \in [Task -> Result], W \in [Task -> Tick] :
           /\ S = [a.state EXCEPT ![t] = "BLOCKED"] /\ R = [a.reason EXCEPT ![t] = reason]
           /\ O = [a.object EXCEPT ![t] = object] /\ T = [a.timeout EXCEPT ![t] = n]
           /\ U = [a.result EXCEPT ![t] = "OK"] /\ W = [a.wake EXCEPT ![t] = w]
    BY <1>2, <1>3 DEF SchedState, TaskState, Result
  <1>5. PICK b : b = [a EXCEPT !.state = S, !.reason = R, !.object = O, !.timeout = T,
                               !.result = U, !.wake = W]
    OBVIOUS
  <1>6. /\ b \in SchedState /\ b.reason = R /\ b.object = O /\ b.timeout = T
        /\ b.result = U /\ b.wake = W /\ b.tick = a.tick /\ b.priority = a.priority
    BY <1>2, <1>5 DEF SchedState
  <1>7. PICK c : c = blocked_insert(b, t)
    OBVIOUS
  <1>8. c \in SchedState /\ SameWaits(c, b) /\ c.priority = b.priority
    BY <1>6, <1>7, BlockedInsertLemma, FieldsWaits
  <1>9. r = scheduler_trigger_switch(c)
    BY <1>0, <1>1, <1>3, <1>4, <1>5, <1>7 DEF scheduler_block_task
  <1>10. SameWaits(r, c) /\ r.priority = c.priority
    BY <1>8, <1>9, TriggerWaits, TriggerLemma
  <1> QED
    BY <1>0, <1>2, <1>3, <1>4, <1>6, <1>8, <1>10 DEF SameWaits, WaitBegun
-----------------------------------------------------------------------------
(***************************************************************************)
(* scheduler_unblock_one.                                                  *)
(***************************************************************************)
\* There is a best waiter as soon as there is a waiter: no waiter for the same
\* reason and object has a higher priority.
LEMMA BestWaiterLemma ==
    ASSUME NEW s \in SchedState, NEW reason, NEW object, NEW t,
           Waiters(s, reason, object) # {}, t = BestWaiter(s, reason, object)
    PROVE  /\ t \in Task /\ On(s, t, BlockedList) /\ WaitsFor(s, t, reason, object)
           /\ \A x \in Task : On(s, x, BlockedList) /\ WaitsFor(s, x, reason, object)
                                  => s.priority[t] <= s.priority[x]
  <1> DEFINE q == s.list[BlockedList]
             W == Waiters(s, reason, object)
             Best(i) == \A j \in W : \/ s.priority[q[i]] < s.priority[q[j]]
                                     \/ s.priority[q[i]] = s.priority[q[j]] /\ i <= j
  <1>1. /\ q \in Seq(Task) /\ W \subseteq DOMAIN q /\ W \subseteq Nat
        /\ \A i \in W : q[i] \in Task /\ s.priority[q[i]] \in Nat
    <2>1. q \in Seq(Task) /\ s.priority \in [Task -> Prio]
      BY PrioInList DEF SchedState
    <2>2. W \subseteq DOMAIN q
      BY DEF Waiters
    <2>3. DOMAIN q = 1 .. Len(q) /\ Len(q) \in Nat
      BY <2>1, LenProperties
    <2>4. \A i \in DOMAIN q : q[i] \in Task
      BY <2>1, <2>3, ElementOfSeq
    <2>5. \A x \in Task : s.priority[x] \in Nat
      BY <2>1 DEF Prio
    <2> HIDE DEF q, W
    <2>6. W \subseteq Nat
      BY <2>2, <2>3
    <2> QED
      BY <2>1, <2>2, <2>4, <2>5, <2>6
  <1> HIDE DEF q, W
  <1>2. \E i \in W : Best(i)
    <2>1. PICK p \in {s.priority[q[i]] : i \in W} :
             \A n \in {s.priority[q[i]] : i \in W} : p <= n
      <3>1. {s.priority[q[i]] : i \in W} \subseteq Nat
        BY <1>1
      <3>2. {s.priority[q[i]] : i \in W} # {}
        BY DEF W
      <3> QED BY <3>1, <3>2, LeastNat
    <2>2. PICK i \in {j \in W : s.priority[q[j]] = p} :
             \A n \in {j \in W : s.priority[q[j]] = p} : i <= n
      <3>1. {j \in W : s.priority[q[j]] = p} \subseteq Nat
        BY <1>1
      <3>2. {j \in W : s.priority[q[j]] = p} # {}
        BY <2>1
      <3> QED BY <3>1, <3>2, LeastNat
    <2>3. ASSUME NEW j \in W
          PROVE  \/ s.priority[q[i]] < s.priority[q[j]]
                 \/ s.priority[q[i]] = s.priority[q[j]] /\ i <= j
      <3>1. p <= s.priority[q[j]] /\ p \in Nat /\ s.priority[q[j]] \in Nat
        BY <1>1, <2>1
      <3>2. s.priority[q[j]] = p => i <= j
        BY <2>2
      <3> QED BY <2>2, <3>1, <3>2
    <2> QED BY <2>2, <2>3
  <1>3. PICK i \in W : t = q[i] /\ Best(i)
    BY <1>2 DEF BestWaiter, q, W
  <1>4. t \in Task /\ On(s, t, BlockedList) /\ WaitsFor(s, t, reason, object)
    BY <1>1, <1>3 DEF On, Waiters, q, W
  <1>5. ASSUME NEW x \in Task, On(s, x, BlockedList), WaitsFor(s, x, reason, object)
        PROVE  s.priority[t] <= s.priority[x]
    <2>1. PICK j \in W : q[j] = x
      BY <1>5 DEF On, Waiters, q, W
    <2> QED
      BY <1>1, <1>3, <2>1
  <1> QED
    BY <1>4, <1>5

LEMMA UnblockOneLemma ==
    ASSUME NEW s \in SchedState, NEW reason, NEW object, NEW result \in Result,
           NEW r, r = scheduler_unblock_one(s, reason, object, result)
    PROVE  \/ Waiters(s, reason, object) = {} /\ r = s
           \/ \E t \in Task :
                /\ On(s, t, BlockedList) /\ WaitsFor(s, t, reason, object)
                /\ \A x \in Task : On(s, x, BlockedList) /\ WaitsFor(s, x, reason, object)
                                       => s.priority[t] <= s.priority[x]
                /\ r \in SchedState /\ SameRun(r, s)
                /\ r.state = [s.state EXCEPT ![t] = "READY"]
                /\ WaitOver(r, s, t, result)
                /\ Sound(s) => Sound(r)
                /\ Placed(s) => Placed(r)
  <1>1. CASE Waiters(s, reason, object) = {}
    BY <1>1 DEF scheduler_unblock_one
  <1>2. CASE Waiters(s, reason, object) # {}
    <2>1. PICK t : t = BestWaiter(s, reason, object)
      OBVIOUS
    <2>2. /\ t \in Task /\ On(s, t, BlockedList) /\ WaitsFor(s, t, reason, object)
          /\ \A x \in Task : On(s, x, BlockedList) /\ WaitsFor(s, x, reason, object)
                                 => s.priority[t] <= s.priority[x]
      BY <1>2, <2>1, BestWaiterLemma
    <2>3. PICK a : a = MakeReady(s, t, result)
      OBVIOUS
    <2>4. Placed(s) => s.state[t] = "BLOCKED"
      BY <2>2 DEF Placed, StateTells
    <2>5. /\ a \in SchedState /\ SameRun(a, s) /\ a.state = [s.state EXCEPT ![t] = "READY"]
          /\ WaitOver(a, s, t, result)
          /\ Sound(s) => Sound(a)
          /\ Placed(s) => Placed(a)
      BY <2>2, <2>3, <2>4, MakeReadyLemma, MakeReadyWaits
    <2>6. r = TriggerIfOutranks(a, t)
      BY <1>2, <2>1, <2>3 DEF scheduler_unblock_one
    <2>7. /\ r \in SchedState /\ SameRun(r, a) /\ r.state = a.state
          /\ r.priority = a.priority
          /\ Sound(a) => Sound(r)
          /\ Placed(a) => Placed(r)
          /\ SameWaits(r, a)
      BY <2>2, <2>5, <2>6, TriggerIfLemma, TriggerWaits
    <2>8. WaitOver(r, s, t, result) /\ SameRun(r, s)
      BY <2>5, <2>7, FrameTrans DEF WaitOver, SameWaits
    <2> QED
      BY <2>2, <2>5, <2>7, <2>8
  <1> QED
    BY <1>1, <1>2
=============================================================================
