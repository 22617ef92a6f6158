---------------------------- MODULE ThreadsProofs -----------------------------
(* Theorems about Threads, for any threads, semaphores, priorities and     *)
(* slices: the types, ListsExclusive and NoLostWakeup, and the order in    *)
(* which it schedules: QueuesOrdered, PriorityScheduling, NoOvertaking and *)
(* SleepExact.  First what the list operations do to the number of times a *)
(* thread occurs in a list, then the inductive invariant IInv, one lemma   *)
(* per action, the count of those who were woken from a semaphore, and     *)
(* last the order of the lists.                                            *)
EXTENDS Threads, SequenceTheorems, FiniteSetTheorems, WellFoundedInduction, TLAPS

-----------------------------------------------------------------------------
(* What the list operations do to the number of times a thread occurs.     *)

(* m is l with one more element at k.                                      *)
Extends(m, l, k) ==
  /\ Len(m) = Len(l) + 1 /\ k \in 1..Len(m)
  /\ \A i \in 1..k - 1 : m[i] = l[i]
  /\ \A i \in k..Len(l) : m[i + 1] = l[i]

LEMMA OccurrencesType ==
  ASSUME NEW l \in Seq(Thread), NEW t
  PROVE  /\ IsFiniteSet({i \in DOMAIN l : l[i] = t})
         /\ Occurrences(l, t) \in Nat
<1>1. DOMAIN l = 1..Len(l) /\ Len(l) \in Nat
  BY LenProperties
<1>2. IsFiniteSet(DOMAIN l)
  BY <1>1, FS_Interval
<1>3. IsFiniteSet({i \in DOMAIN l : l[i] = t})
  BY <1>2, FS_Subset
<1> QED BY <1>3, FS_CardinalityType DEF Occurrences

LEMMA OccurrencesExtends ==
  ASSUME NEW l \in Seq(Thread), NEW m \in Seq(Thread), NEW k, Extends(m, l, k), NEW t
  PROVE  Occurrences(m, t) = Occurrences(l, t) + (IF m[k] = t THEN 1 ELSE 0)
<1> DEFINE A == {i \in DOMAIN l : l[i] = t}
           B == {i \in DOMAIN m : m[i] = t} \ {k}
           f == [i \in A |-> IF i < k THEN i ELSE i + 1]
<1>1. /\ DOMAIN l = 1..Len(l) /\ Len(l) \in Nat
      /\ DOMAIN m = 1..Len(l) + 1 /\ k \in 1..Len(l) + 1
  BY LenProperties DEF Extends
<1>2. f \in Bijection(A, B)
  <2>1. ASSUME NEW i \in A PROVE f[i] \in B
    BY <1>1 DEF Extends
  <2>2. ASSUME NEW i \in A, NEW j \in A, f[i] = f[j] PROVE i = j
    BY <1>1, <2>2
  <2>3. ASSUME NEW j \in B PROVE \E i \in A : f[i] = j
    <3>1. CASE j < k
      BY <1>1, <3>1 DEF Extends
    <3>2. CASE j > k
      <4>1. j - 1 \in k..Len(l) /\ m[(j - 1) + 1] = l[j - 1] /\ (j - 1) + 1 = j
        BY <1>1, <3>2 DEF Extends
      <4>2. j - 1 \in A /\ f[j - 1] = j
        BY <1>1, <3>2, <4>1
      <4> QED BY <4>2
    <3> QED BY <1>1, <3>1, <3>2
  <2>4. f \in [A -> B]
    BY <2>1
  <2>5. f \in Injection(A, B)
    BY <2>2, <2>4 DEF Injection, IsInjective
  <2>6. f \in Surjection(A, B)
    BY <2>3, <2>4 DEF Surjection
  <2> QED BY <2>5, <2>6 DEF Bijection
<1>3. IsFiniteSet(A) /\ IsFiniteSet({i \in DOMAIN m : m[i] = t})
  BY OccurrencesType
<1>4. Cardinality(B) = Cardinality(A)
  BY <1>2, <1>3, FS_Bijection DEF ExistsBijection
<1>5. Cardinality(B) = IF m[k] = t THEN Cardinality({i \in DOMAIN m : m[i] = t}) - 1
                                   ELSE Cardinality({i \in DOMAIN m : m[i] = t})
  BY <1>1, <1>3, FS_RemoveElement
<1>6. /\ Cardinality(A) \in Nat
      /\ Cardinality({i \in DOMAIN m : m[i] = t}) \in Nat
  BY <1>3, FS_CardinalityType
<1> QED BY <1>4, <1>5, <1>6 DEF Occurrences

LEMMA AppendExtends ==
  ASSUME NEW l \in Seq(Thread), NEW t \in Thread
  PROVE  /\ Append(l, t) \in Seq(Thread)
         /\ Extends(Append(l, t), l, Len(l) + 1) /\ Append(l, t)[Len(l) + 1] = t
BY AppendProperties, LenProperties DEF Extends

LEMMA TailExtends ==
  ASSUME NEW l \in Seq(Thread), l # <<>>
  PROVE  /\ Head(l) \in Thread /\ Tail(l) \in Seq(Thread)
         /\ Extends(l, Tail(l), 1) /\ l[1] = Head(l)
BY HeadTailProperties, LenProperties, EmptySeq DEF Extends

\* SequencesExt's InsertAt and RemoveAt.
LEMMA InsertAtExtends ==
  ASSUME NEW l \in Seq(Thread), NEW t \in Thread, NEW k \in 1..Len(l) + 1
  PROVE  /\ InsertAt(l, k, t) \in Seq(Thread)
         /\ Extends(InsertAt(l, k, t), l, k) /\ InsertAt(l, k, t)[k] = t
<1> DEFINE a == SubSeq(l, 1, k - 1)
           b == SubSeq(l, k, Len(l))
<1>1. Len(l) \in Nat /\ \A i \in 1..Len(l) : l[i] \in Thread
  BY LenProperties, ElementOfSeq
<1>2. a \in Seq(Thread) /\ Len(a) = k - 1 /\ \A i \in 1..k - 1 : a[i] = l[i]
  BY <1>1, SubSeqProperties
<1>3. /\ b \in Seq(Thread) /\ Len(b) = Len(l) - k + 1
      /\ \A i \in 1..Len(l) - k + 1 : b[i] = l[k + i - 1]
  BY <1>1, SubSeqProperties
<1>4. <<t>> \in Seq(Thread) /\ Len(<<t>>) = 1 /\ <<t>>[1] = t
  OBVIOUS
<1> DEFINE c == a \o <<t>>
<1>5. /\ c \in Seq(Thread) /\ Len(c) = k
      /\ \A i \in 1..k - 1 : c[i] = l[i]
      /\ c[k] = t
  BY <1>2, <1>4, ConcatProperties
<1> HIDE DEF a, b, c
<1>6. /\ c \o b \in Seq(Thread) /\ Len(c \o b) = Len(l) + 1
      /\ \A i \in 1..k : (c \o b)[i] = c[i]
      /\ \A i \in k..Len(l) : (c \o b)[i + 1] = l[i]
  <2>1. /\ c \o b \in Seq(Thread) /\ Len(c \o b) = Len(c) + Len(b)
        /\ \A i \in 1..Len(c) + Len(b) :
             (c \o b)[i] = IF i <= Len(c) THEN c[i] ELSE b[i - Len(c)]
    BY <1>3, <1>5, ConcatProperties
  <2>2. ASSUME NEW i \in k..Len(l) PROVE (c \o b)[i + 1] = l[i]
    <3>1. (c \o b)[i + 1] = b[i + 1 - k]
      BY <1>1, <1>3, <1>5, <2>1
    <3>2. i + 1 - k \in 1..Len(l) - k + 1 /\ k + (i + 1 - k) - 1 = i
      BY <1>1
    <3> QED BY <1>3, <3>1, <3>2
  <2> QED BY <1>1, <1>3, <1>5, <2>1, <2>2
<1>7. InsertAt(l, k, t) = c \o b
  BY DEF InsertAt, a, b, c
<1> QED BY <1>1, <1>5, <1>6, <1>7 DEF Extends

LEMMA RemoveAtExtends ==
  ASSUME NEW l \in Seq(Thread), NEW k \in 1..Len(l)
  PROVE  RemoveAt(l, k) \in Seq(Thread) /\ Extends(l, RemoveAt(l, k), k)
<1> DEFINE a == SubSeq(l, 1, k - 1)
           b == SubSeq(l, k + 1, Len(l))
<1>1. Len(l) \in Nat /\ \A i \in 1..Len(l) : l[i] \in Thread
  BY LenProperties, ElementOfSeq
<1>2. a \in Seq(Thread) /\ Len(a) = k - 1 /\ \A i \in 1..k - 1 : a[i] = l[i]
  BY <1>1, SubSeqProperties
<1>3. /\ b \in Seq(Thread) /\ Len(b) = Len(l) - k
      /\ \A i \in 1..Len(l) - k : b[i] = l[k + i]
  BY <1>1, SubSeqProperties
<1> HIDE DEF a, b
<1>4. /\ a \o b \in Seq(Thread) /\ Len(a \o b) = Len(l) - 1
      /\ \A i \in 1..k - 1 : (a \o b)[i] = l[i]
      /\ \A i \in k..Len(l) - 1 : (a \o b)[i] = l[i + 1]
  <2>1. /\ a \o b \in Seq(Thread) /\ Len(a \o b) = Len(a) + Len(b)
        /\ \A i \in 1..Len(a) + Len(b) :
             (a \o b)[i] = IF i <= Len(a) THEN a[i] ELSE b[i - Len(a)]
    BY <1>2, <1>3, ConcatProperties
  <2>2. ASSUME NEW i \in k..Len(l) - 1 PROVE (a \o b)[i] = l[i + 1]
    <3>1. i - (k - 1) \in 1..Len(l) - k /\ k + (i - (k - 1)) = i + 1
      BY <1>1
    <3>2. (a \o b)[i] = b[i - (k - 1)]
      BY <1>1, <1>2, <1>3, <2>1
    <3> QED BY <1>3, <3>1, <3>2
  <2>3. ASSUME NEW i \in 1..k - 1 PROVE (a \o b)[i] = l[i]
    BY <1>1, <1>2, <1>3, <2>1
  <2> QED BY <1>1, <1>2, <1>3, <2>1, <2>2, <2>3
<1>5. RemoveAt(l, k) = a \o b
  BY DEF RemoveAt, a, b
<1>6. /\ Len(l) = Len(RemoveAt(l, k)) + 1
      /\ RemoveAt(l, k) \in Seq(Thread) /\ k \in 1..Len(l)
  BY <1>1, <1>4, <1>5
<1>7. \A i \in 1..k - 1 : l[i] = RemoveAt(l, k)[i]
  BY <1>4, <1>5
<1>8. \A i \in k..Len(RemoveAt(l, k)) : l[i + 1] = RemoveAt(l, k)[i]
  BY <1>1, <1>4, <1>5
<1> QED BY <1>6, <1>7, <1>8 DEF Extends

LEMMA LeastElement ==
  ASSUME NEW S \in SUBSET Nat, S # {}
  PROVE  \E i \in S : \A j \in S : i <= j
<1> DEFINE R == StrictSubsetOrdering(Nat)
           F == FiniteSubsetsOf(Nat)
           T == {0..i - 1 : i \in S}
<1>1. IsWellFoundedOn(R, F)
  BY FS_StrictSubsetOrderingWellFounded
<1>2. ASSUME NEW i \in S PROVE 0..i - 1 \in F
  <2>1. IsFiniteSet(0..i - 1)
    BY FS_Interval
  <2> QED BY <2>1 DEF FiniteSubsetsOf
<1>3. T \subseteq F /\ T # {}
  BY <1>2
<1> HIDE DEF R, F
<1>4. PICK x \in T : \A y \in T : ~(<<y, x>> \in R)
  BY <1>1, <1>3, WFMin
<1>5. PICK i \in S : x = 0..i - 1
  BY <1>4
<1>6. ASSUME NEW j \in S, j < i PROVE FALSE
  <2>1. 0..j - 1 \subseteq 0..i - 1
    BY <1>6
  <2>2. j \in 0..i - 1 /\ j \notin 0..j - 1
    BY <1>6
  <2>3. <<0..j - 1, 0..i - 1>> \in R
    BY <2>1, <2>2 DEF R, StrictSubsetOrdering
  <2> QED BY <1>4, <1>5, <2>3
<1> QED BY <1>6

\* list_insert_ordered puts the thread into the list once, somewhere.
LEMMA InsertOrderedExtends ==
  ASSUME NEW l \in Seq(Thread), NEW t \in Thread, NEW pri
  PROVE  /\ InsertOrdered(l, t, pri) \in Seq(Thread)
         /\ \E k \in 1..Len(l) + 1 : /\ Extends(InsertOrdered(l, t, pri), l, k)
                                      /\ InsertOrdered(l, t, pri)[k] = t
<1> DEFINE lower == {i \in DOMAIN l : pri[l[i]] < pri[t]}
           k == IF lower = {} THEN Len(l) + 1
                ELSE CHOOSE i \in lower : \A j \in lower : i <= j
<1>1. DOMAIN l = 1..Len(l) /\ Len(l) \in Nat
  BY LenProperties
<1>2. CASE lower = {}
  <2>1. k \in 1..Len(l) + 1
    BY <1>1, <1>2
  <2> QED BY <2>1, InsertAtExtends DEF InsertOrdered
<1>3. CASE lower # {}
  <2>1. \E i \in lower : \A j \in lower : i <= j
    <3>1. lower \in SUBSET Nat
      BY <1>1
    <3> HIDE DEF lower
    <3> QED BY <1>3, <3>1, LeastElement
  <2>2. k \in lower
    BY <1>3, <2>1
  <2>3. k \in 1..Len(l) + 1
    BY <1>1, <2>2
  <2> QED BY <2>3, InsertAtExtends DEF InsertOrdered
<1> QED BY <1>2, <1>3

(* The four operations on a list, in the form the actions need.            *)
LEMMA OccursInsert ==
  ASSUME NEW l \in Seq(Thread), NEW t \in Thread, NEW pri
  PROVE  /\ InsertOrdered(l, t, pri) \in Seq(Thread)
         /\ \A u : Occurrences(InsertOrdered(l, t, pri), u) =
                     Occurrences(l, u) + (IF t = u THEN 1 ELSE 0)
BY InsertOrderedExtends, OccurrencesExtends

LEMMA OccursAppend ==
  ASSUME NEW l \in Seq(Thread), NEW t \in Thread
  PROVE  /\ Append(l, t) \in Seq(Thread)
         /\ \A u : Occurrences(Append(l, t), u) =
                     Occurrences(l, u) + (IF t = u THEN 1 ELSE 0)
<1> DEFINE m == Append(l, t)
           k == Len(l) + 1
<1>1. m \in Seq(Thread) /\ Extends(m, l, k) /\ m[k] = t
  BY AppendExtends
<1> HIDE DEF m, k
<1>2. ASSUME NEW u
      PROVE  Occurrences(m, u) = Occurrences(l, u) + (IF t = u THEN 1 ELSE 0)
  BY <1>1, OccurrencesExtends
<1> QED BY <1>1, <1>2 DEF m

LEMMA OccursTail ==
  ASSUME NEW l \in Seq(Thread), l # <<>>
  PROVE  /\ Head(l) \in Thread /\ Tail(l) \in Seq(Thread)
         /\ \A u : Occurrences(Tail(l), u) =
                     Occurrences(l, u) - (IF Head(l) = u THEN 1 ELSE 0)
         /\ Occurrences(l, Head(l)) >= 1
<1> DEFINE tail == Tail(l)
           head == Head(l)
<1>1. tail \in Seq(Thread) /\ head \in Thread /\ Extends(l, tail, 1) /\ l[1] = head
  BY TailExtends
<1> HIDE DEF tail, head
<1>2. ASSUME NEW u
      PROVE  Occurrences(l, u) = Occurrences(tail, u) + (IF head = u THEN 1 ELSE 0)
  BY <1>1, OccurrencesExtends
<1>3. \A u : Occurrences(tail, u) \in Nat
  BY <1>1, OccurrencesType
<1>4. \A u : Occurrences(tail, u) = Occurrences(l, u) - (IF head = u THEN 1 ELSE 0)
  <2> TAKE u
  <2>1. Occurrences(tail, u) \in Nat
    BY <1>3
  <2> QED BY <1>2, <2>1
<1>5. Occurrences(l, head) >= 1
  <2>1. Occurrences(tail, head) \in Nat
    BY <1>3
  <2> QED BY <1>2, <2>1
<1> QED BY <1>1, <1>4, <1>5 DEF tail, head

LEMMA OccursRemoveAt ==
  ASSUME NEW l \in Seq(Thread), NEW k \in DOMAIN l
  PROVE  /\ l[k] \in Thread /\ RemoveAt(l, k) \in Seq(Thread)
         /\ \A u : Occurrences(RemoveAt(l, k), u) =
                     Occurrences(l, u) - (IF l[k] = u THEN 1 ELSE 0)
         /\ Occurrences(l, l[k]) >= 1
<1>1. k \in 1..Len(l) /\ l[k] \in Thread
  BY LenProperties, ElementOfSeq
<1>2. RemoveAt(l, k) \in Seq(Thread) /\ Extends(l, RemoveAt(l, k), k)
  BY <1>1, RemoveAtExtends
<1>3. \A u : Occurrences(l, u) =
               Occurrences(RemoveAt(l, k), u) + (IF l[k] = u THEN 1 ELSE 0)
  BY <1>2, OccurrencesExtends
<1>4. \A u : Occurrences(RemoveAt(l, k), u) \in Nat
  BY <1>2, OccurrencesType
<1> QED BY <1>1, <1>2, <1>3, <1>4

LEMMA OccursNone ==
  ASSUME NEW u
  PROVE  <<>> \in Seq(Thread) /\ Occurrences(<<>>, u) = 0
<1>1. {i \in DOMAIN <<>> : <<>>[i] = u} = {}
  OBVIOUS
<1> QED BY <1>1, FS_EmptySet DEF Occurrences

-----------------------------------------------------------------------------
(* The inductive invariant.                                                *)

\* Between two interrupts the running thread's slice is not over.
TicksInSlice == handler = "none" => thread_ticks < TimeSlice

\* The idle thread never waits for anything and never exits; it blocks only
\* to wait for an interrupt, and no other thread does.
IdleNeverWaits ==
  /\ op[Idle].name \in {"run", "hlt"}
  /\ status[Idle] = "blocked" => op[Idle].name = "hlt"
  /\ status[Idle] \notin {"none", "dying"}

IInv == TypeOK /\ TicksInSlice /\ IdleNeverWaits /\ ListsExclusive

\* A record of Op is what its name says.
LEMMA OpType ==
  /\ Run \in Op /\ Run.name = "run"
  /\ \A n \in {"hlt", "yield", "sleep"} : [name |-> n] \in Op
  /\ \A s \in Sema : [name |-> "down", sema |-> s] \in Op
  /\ \A h \in Thread \cup {None} : [name |-> "setpri", head |-> h] \in Op
  /\ \A h \in Thread \cup {None}, p \in Priority :
       [name |-> "compare", head |-> h, pri |-> p] \in Op
BY DEF Op, Run

LEMMA OpHead ==
  ASSUME NEW o \in Op, o.name = "setpri"
  PROVE  o.head \in Thread \cup {None}
BY DEF Op

LEMMA OpDown ==
  ASSUME NEW o \in Op, o.name = "down"
  PROVE  o = [name |-> "down", sema |-> o.sema]
<1>1. o \in [name : {"down"}, sema : Sema]
  BY DEF Op
<1> QED BY <1>1

\* A thread switch: the thread that stops gets the status x, the ready list
\* is rl.  The next thread was ready or is the idle one, and leaves rl.
LEMMA SwitchKeeps ==
  ASSUME TypeOK, IdleNeverWaits, ListsExclusive,
         NEW x \in {"none", "ready", "blocked", "dying"},
         NEW rl \in Seq(Thread),
         \A t \in Thread :
           Occurrences(rl, t) =
             IF /\ (IF t = current THEN x ELSE status[t]) = "ready"
                /\ t # Idle THEN 1 ELSE 0,
         Schedule([status EXCEPT ![current] = x], rl)
  PROVE  /\ current' \in Thread /\ thread_ticks' = 0
         /\ ready_list' \in Seq(Thread)
         /\ \A t \in Thread : Occurrences(ready_list', t) =
              IF status'[t] = "ready" /\ t # Idle THEN 1 ELSE 0
         /\ status' \in [Thread -> {"none", "running", "ready", "blocked", "dying"}]
         /\ \A t \in Thread :
              status'[t] = IF t = current' THEN "running"
                           ELSE IF t = current THEN x ELSE status[t]
         /\ current' = Idle
              \/ (IF current' = current THEN x ELSE status[current']) = "ready"
<1> DEFINE next == IF rl = <<>> THEN Idle ELSE Head(rl)
<1>1. /\ current' = next /\ thread_ticks' = 0
      /\ ready_list' = IF rl = <<>> THEN rl ELSE Tail(rl)
      /\ status' = [[status EXCEPT ![current] = x] EXCEPT ![next] = "running"]
  BY DEF Schedule
<1>2. /\ status \in [Thread -> {"none", "running", "ready", "blocked", "dying"}]
      /\ current \in Thread /\ Idle \in Thread
  BY ThreadAssumption DEF TypeOK
<1>3. CASE rl = <<>>
  BY <1>1, <1>2, <1>3
<1>4. CASE rl # <<>>
  <2>1. /\ Head(rl) \in Thread /\ Tail(rl) \in Seq(Thread)
        /\ \A u : Occurrences(Tail(rl), u) =
                    Occurrences(rl, u) - (IF Head(rl) = u THEN 1 ELSE 0)
        /\ Occurrences(rl, Head(rl)) >= 1
    BY <1>4, OccursTail
  <2>2. /\ (IF Head(rl) = current THEN x ELSE status[Head(rl)]) = "ready"
        /\ Head(rl) # Idle
    BY <2>1
  <2>3. /\ current' = Head(rl) /\ ready_list' = Tail(rl) /\ next = Head(rl)
        /\ current' \in Thread
    BY <1>1, <1>4, <2>1
  <2>4. /\ status' \in [Thread -> {"none", "running", "ready", "blocked", "dying"}]
        /\ \A t \in Thread :
             status'[t] = IF t = current' THEN "running"
                          ELSE IF t = current THEN x ELSE status[t]
    BY <1>1, <1>2, <2>3
  <2>5. ASSUME NEW t \in Thread
        PROVE  Occurrences(ready_list', t) =
                 IF status'[t] = "ready" /\ t # Idle THEN 1 ELSE 0
    <3>1. CASE t = Head(rl)
      BY <2>1, <2>2, <2>3, <2>4, <3>1
    <3>2. CASE t # Head(rl)
      <4>1. Occurrences(ready_list', t) = Occurrences(rl, t) - 0
        BY <2>1, <2>3, <3>2
      <4>2. status'[t] = IF t = current THEN x ELSE status[t]
        BY <2>3, <2>4, <3>2
      <4>3. Occurrences(rl, t) =
              IF status'[t] = "ready" /\ t # Idle THEN 1 ELSE 0
        BY <4>2
      <4> QED BY <4>1, <4>3
    <3> QED BY <3>1, <3>2
  <2> QED BY <1>1, <2>1, <2>2, <2>3, <2>4, <2>5
<1> QED BY <1>3, <1>4

-----------------------------------------------------------------------------
(* The steps that leave every list and every status alone.                 *)

LEMMA QuietKeeps ==
  ASSUME IInv, NEW o \in Op,
         UNCHANGED <<status, current, ready_list, blocked_list, waiters>>,
         op' = [op EXCEPT ![current] = o],
         current = Idle => o.name \in {"run", "hlt"}
  PROVE  op' \in [Thread -> Op] /\ IdleNeverWaits' /\ ListsExclusive'
<1> USE ThreadAssumption DEF IInv, TypeOK
<1>1. op' \in [Thread -> Op] /\ current' = current /\ current \in Thread
  OBVIOUS
<1>2. \A t \in Thread : t # current => op'[t] = op[t]
  OBVIOUS
<1>3. status[current] = "running"
  BY DEF ListsExclusive
<1>4. IdleNeverWaits'
  BY <1>1, <1>2, <1>3 DEF IdleNeverWaits
<1>5. ListsExclusive'
  BY <1>1, <1>2, <1>3 DEF ListsExclusive
<1> QED BY <1>1, <1>4, <1>5

LEMMA TickKeeps == ASSUME IInv, Tick PROVE IInv'
<1> USE ThreadAssumption DEF IInv
<1> DEFINE o == IF op[current].name = "hlt" THEN Run ELSE op[current]
<1>1. current \in Thread /\ op[current] \in Op
  BY DEF TypeOK
<1>2. o \in Op /\ (current = Idle => o.name \in {"run", "hlt"})
  BY <1>1, OpType DEF IdleNeverWaits
<1>3. op' = [op EXCEPT ![current] = o]
  BY DEF Tick, LeaveHlt, TypeOK
<1> HIDE DEF o
<1>4. op' \in [Thread -> Op] /\ IdleNeverWaits' /\ ListsExclusive'
  BY <1>2, <1>3, QuietKeeps DEF Tick
<1>5. due' \in [Thread -> 0..MaxSleep] /\ thread_ticks' \in 0..TimeSlice
  BY DEF Tick, TypeOK, IntrOn, TicksInSlice
<1>6. TypeOK' /\ TicksInSlice'
  BY <1>4, <1>5 DEF Tick, TypeOK, TicksInSlice
<1> QED BY <1>4, <1>6

LEMMA TimerSleepKeeps ==
  ASSUME IInv, NEW n \in 0..MaxSleep, TimerSleep(n) PROVE IInv'
<1> USE ThreadAssumption DEF IInv
<1>1. op' \in [Thread -> Op] /\ IdleNeverWaits' /\ ListsExclusive'
  BY OpType, QuietKeeps DEF TimerSleep, Goto
<1>2. TypeOK' /\ TicksInSlice'
  BY <1>1 DEF TimerSleep, TypeOK, TicksInSlice
<1> QED BY <1>1, <1>2

LEMMA SemaTryDownKeeps ==
  ASSUME IInv, NEW s \in Sema, SemaTryDown(s) PROVE IInv'
<1> USE ThreadAssumption DEF IInv
<1>1. value' \in [Sema -> 0..MaxValue]
  BY DEF SemaTryDown, TypeOK
<1>2. TypeOK' /\ TicksInSlice' /\ IdleNeverWaits' /\ ListsExclusive'
  BY <1>1 DEF SemaTryDown, TypeOK, TicksInSlice, IdleNeverWaits, ListsExclusive
<1> QED BY <1>2

LEMMA SetPriorityHeadKeeps == ASSUME IInv, SetPriorityHead PROVE IInv'
<1> USE ThreadAssumption DEF IInv
<1> DEFINE h == IF ready_list = <<>> THEN None ELSE Head(ready_list)
           o == [name |-> "setpri", head |-> h]
<1>1. h \in Thread \cup {None}
  BY OccursTail DEF TypeOK
<1>2. o \in Op /\ current # Idle
  BY <1>1, OpType DEF SetPriorityHead
<1>3. op' = [op EXCEPT ![current] = o]
  BY DEF SetPriorityHead, Goto
<1> HIDE DEF o
<1>4. op' \in [Thread -> Op] /\ IdleNeverWaits' /\ ListsExclusive'
  BY <1>2, <1>3, QuietKeeps DEF SetPriorityHead
<1>5. TypeOK' /\ TicksInSlice'
  BY <1>4 DEF SetPriorityHead, TypeOK, TicksInSlice
<1> QED BY <1>4, <1>5

LEMMA SetPriorityAssignKeeps ==
  ASSUME IInv, NEW p \in Priority, SetPriorityAssign(p) PROVE IInv'
<1> USE ThreadAssumption DEF IInv
<1> DEFINE o == [name |-> "compare", head |-> op[current].head, pri |-> p]
<1>1. current \in Thread /\ op[current] \in Op /\ op[current].name = "setpri"
  BY DEF SetPriorityAssign, In, TypeOK
<1>2. o \in Op /\ current # Idle
  BY <1>1, OpHead, OpType DEF IdleNeverWaits
<1>3. op' = [op EXCEPT ![current] = o]
  BY DEF SetPriorityAssign, Goto
<1> HIDE DEF o
<1>4. op' \in [Thread -> Op] /\ IdleNeverWaits' /\ ListsExclusive'
  BY <1>2, <1>3, QuietKeeps DEF SetPriorityAssign
<1>5. TypeOK' /\ TicksInSlice'
  BY <1>4 DEF SetPriorityAssign, TypeOK, TicksInSlice
<1> QED BY <1>4, <1>5

LEMMA SetPriorityCompareKeeps == ASSUME IInv, SetPriorityCompare PROVE IInv'
<1> USE ThreadAssumption DEF IInv
<1>1. PICK o \in {Run, [name |-> "yield"]} : op' = [op EXCEPT ![current] = o]
  BY DEF SetPriorityCompare, Goto
<1>2. o \in Op /\ current # Idle
  BY OpType DEF SetPriorityCompare, In, IdleNeverWaits
<1>3. op' \in [Thread -> Op] /\ IdleNeverWaits' /\ ListsExclusive'
  BY <1>1, <1>2, QuietKeeps DEF SetPriorityCompare
<1>4. TypeOK' /\ TicksInSlice'
  BY <1>3 DEF SetPriorityCompare, TypeOK, TicksInSlice
<1> QED BY <1>3, <1>4

-----------------------------------------------------------------------------
(* The steps that make a thread ready without a switch.                    *)

LEMMA UnblockKeeps ==
  ASSUME IInv, NEW t \in Thread, status[t] \in {"none", "blocked"}, t # Idle,
         NEW pri,
         ready_list' = InsertOrdered(ready_list, t, pri),
         status' = [status EXCEPT ![t] = "ready"]
  PROVE  /\ status' \in [Thread -> {"none", "running", "ready", "blocked", "dying"}]
         /\ ready_list' \in Seq(Thread)
         /\ \A u \in Thread : Occurrences(ready_list', u) =
              IF status'[u] = "ready" /\ u # Idle THEN 1 ELSE 0
         /\ \A u \in Thread : status'[u] = IF u = t THEN "ready" ELSE status[u]
         /\ status[current] = "running" /\ status'[current] = "running"
         /\ \A u \in Thread : status'[u] = "running" => u = current
<1>1. /\ status \in [Thread -> {"none", "running", "ready", "blocked", "dying"}]
      /\ ready_list \in Seq(Thread) /\ current \in Thread
      /\ status[current] = "running"
      /\ \A u \in Thread : status[u] = "running" => u = current
      /\ \A u \in Thread : Occurrences(ready_list, u) =
           IF status[u] = "ready" /\ u # Idle THEN 1 ELSE 0
  BY DEF IInv, TypeOK, ListsExclusive
<1>2. /\ ready_list' \in Seq(Thread)
      /\ \A u : Occurrences(ready_list', u) =
                  Occurrences(ready_list, u) + (IF t = u THEN 1 ELSE 0)
  BY <1>1, OccursInsert
<1>3. \A u \in Thread : status'[u] = IF u = t THEN "ready" ELSE status[u]
  BY <1>1
<1>4. ASSUME NEW u \in Thread
      PROVE  Occurrences(ready_list', u) =
               IF status'[u] = "ready" /\ u # Idle THEN 1 ELSE 0
  <2>1. CASE u = t
    BY <1>1, <1>2, <1>3, <2>1
  <2>2. CASE u # t
    <3>1. Occurrences(ready_list', u) = Occurrences(ready_list, u) + 0
      BY <1>2, <2>2
    <3> QED BY <1>1, <1>3, <2>2, <3>1
  <2> QED BY <2>1, <2>2
<1> QED BY <1>1, <1>2, <1>3, <1>4

LEMMA CreateKeeps ==
  ASSUME IInv, NEW t \in Thread, NEW p \in Priority, Create(t, p) PROVE IInv'
<1> USE ThreadAssumption
<1>1. /\ status[t] = "none" /\ t # Idle
      /\ ready_list' = InsertOrdered(ready_list, t, priority')
      /\ status' = [status EXCEPT ![t] = "ready"]
      /\ UNCHANGED <<due, current, blocked_list, waiters, value, thread_ticks,
                     handler>>
  BY DEF Create, IInv, IdleNeverWaits
<1>2. /\ status' \in [Thread -> {"none", "running", "ready", "blocked", "dying"}]
      /\ ready_list' \in Seq(Thread)
      /\ \A u \in Thread : Occurrences(ready_list', u) =
           IF status'[u] = "ready" /\ u # Idle THEN 1 ELSE 0
      /\ \A u \in Thread : status'[u] = IF u = t THEN "ready" ELSE status[u]
      /\ status'[current] = "running"
      /\ \A u \in Thread : status'[u] = "running" => u = current
  BY <1>1, UnblockKeeps
<1>3. /\ op' \in [Thread -> Op] /\ op'[t] = Run
      /\ \A u \in Thread : u # t => op'[u] = op[u]
      /\ priority' \in [Thread -> Priority]
  BY OpType DEF Create, IInv, TypeOK
<1>4. TypeOK' /\ TicksInSlice'
  BY <1>1, <1>2, <1>3 DEF IInv, TypeOK, TicksInSlice
<1>5. IdleNeverWaits'
  BY <1>1, <1>2, <1>3 DEF IInv, IdleNeverWaits
<1>6. ASSUME NEW u \in Thread
      PROVE  /\ Occurrences(blocked_list', u) =
                  IF status'[u] = "blocked" /\ op'[u] = Run THEN 1 ELSE 0
             /\ \A s \in Sema : Occurrences(waiters'[s], u) =
                  IF status'[u] = "blocked" /\ op'[u] = [name |-> "down", sema |-> s]
                  THEN 1 ELSE 0
  <2>1. /\ Occurrences(blocked_list, u) =
             IF status[u] = "blocked" /\ op[u] = Run THEN 1 ELSE 0
        /\ \A s \in Sema : Occurrences(waiters[s], u) =
             IF status[u] = "blocked" /\ op[u] = [name |-> "down", sema |-> s]
             THEN 1 ELSE 0
    BY DEF IInv, ListsExclusive
  <2>2. CASE u = t
    BY <1>1, <1>2, <2>1, <2>2
  <2>3. CASE u # t
    BY <1>1, <1>2, <1>3, <2>1, <2>3
  <2> QED BY <2>2, <2>3
<1>7. ListsExclusive'
  BY <1>1, <1>2, <1>6 DEF ListsExclusive
<1> QED BY <1>4, <1>5, <1>7 DEF IInv

LEMMA WakeKeeps == ASSUME IInv, Wake PROVE IInv'
<1> USE ThreadAssumption
<1>1. PICK i \in Expired : /\ ThreadUnblock(blocked_list[i])
                           /\ blocked_list' = RemoveAt(blocked_list, i)
  BY DEF Wake
<1> DEFINE t == blocked_list[i]
<1>2. /\ t \in Thread /\ blocked_list' \in Seq(Thread)
      /\ \A u : Occurrences(blocked_list', u) =
                  Occurrences(blocked_list, u) - (IF t = u THEN 1 ELSE 0)
      /\ Occurrences(blocked_list, t) >= 1
  <2>1. i \in DOMAIN blocked_list /\ blocked_list \in Seq(Thread)
    BY DEF Expired, IInv, TypeOK
  <2> QED BY <1>1, <2>1, OccursRemoveAt
<1>3. ready_list' = InsertOrdered(ready_list, t, priority)
      /\ status' = [status EXCEPT ![t] = "ready"]
  BY <1>1 DEF ThreadUnblock
<1>4. UNCHANGED <<priority, op, due, current, waiters, value, thread_ticks,
                  handler>>
  BY DEF Wake
<1> HIDE DEF t
<1>5. status[t] = "blocked" /\ op[t] = Run /\ t # Idle
  <2>1. status[t] = "blocked" /\ op[t] = Run
    BY <1>2 DEF IInv, ListsExclusive
  <2> QED BY <2>1, OpType DEF IInv, IdleNeverWaits
<1>6. /\ status' \in [Thread -> {"none", "running", "ready", "blocked", "dying"}]
      /\ ready_list' \in Seq(Thread)
      /\ \A u \in Thread : Occurrences(ready_list', u) =
           IF status'[u] = "ready" /\ u # Idle THEN 1 ELSE 0
      /\ \A u \in Thread : status'[u] = IF u = t THEN "ready" ELSE status[u]
      /\ status'[current] = "running"
      /\ \A u \in Thread : status'[u] = "running" => u = current
  BY <1>2, <1>3, <1>5, UnblockKeeps
<1>7. TypeOK' /\ TicksInSlice'
  BY <1>2, <1>4, <1>6 DEF IInv, TypeOK, TicksInSlice
<1>8. IdleNeverWaits'
  BY <1>4, <1>5, <1>6 DEF IInv, IdleNeverWaits
<1>9. ListsExclusive'
  <2>1. ASSUME NEW u \in Thread
        PROVE  Occurrences(blocked_list', u) =
                 IF status'[u] = "blocked" /\ op'[u] = Run THEN 1 ELSE 0
    <3>1. Occurrences(blocked_list, u) =
            IF status[u] = "blocked" /\ op[u] = Run THEN 1 ELSE 0
      BY DEF IInv, ListsExclusive
    <3>2. CASE u = t
      BY <1>2, <1>5, <1>6, <3>1, <3>2
    <3>3. CASE u # t
      BY <1>2, <1>4, <1>6, <3>1, <3>3
    <3> QED BY <3>2, <3>3
  <2>2. ASSUME NEW u \in Thread, NEW s \in Sema
        PROVE  Occurrences(waiters'[s], u) =
                 IF status'[u] = "blocked" /\ op'[u] = [name |-> "down", sema |-> s]
                 THEN 1 ELSE 0
    <3>1. Occurrences(waiters[s], u) =
            IF status[u] = "blocked" /\ op[u] = [name |-> "down", sema |-> s]
            THEN 1 ELSE 0
      BY DEF IInv, ListsExclusive
    <3>2. op[t] # [name |-> "down", sema |-> s]
      BY <1>5, OpType
    <3> QED BY <1>4, <1>6, <3>1, <3>2
  <2> QED BY <1>4, <1>6, <2>1, <2>2 DEF ListsExclusive
<1> QED BY <1>7, <1>8, <1>9 DEF IInv

\* sema_up: o is what the interrupt, if any, makes of the running thread's op.
LEMMA WakeWaiterKeeps ==
  ASSUME IInv, NEW s \in Sema, WakeWaiter(s), NEW o \in Op,
         op' = [op EXCEPT ![current] = o],
         current = Idle => o.name \in {"run", "hlt"},
         UNCHANGED <<priority, due, current, blocked_list, thread_ticks, handler>>
  PROVE  IInv'
<1> USE ThreadAssumption
<1>1. /\ op' \in [Thread -> Op] /\ current \in Thread /\ status[current] = "running"
      /\ \A u \in Thread : u # current => op'[u] = op[u]
      /\ value' \in [Sema -> 0..MaxValue]
      /\ op'[current] = o
  BY DEF IInv, TypeOK, ListsExclusive, WakeWaiter
<1>2. CASE waiters[s] = <<>>
  <2>1. UNCHANGED <<waiters, ready_list, status>>
    BY <1>2 DEF WakeWaiter
  <2>2. TypeOK' /\ TicksInSlice'
    BY <1>1, <2>1 DEF IInv, TypeOK, TicksInSlice
  <2>3. IdleNeverWaits'
    BY <1>1, <2>1 DEF IInv, IdleNeverWaits
  <2>4. ListsExclusive'
    BY <1>1, <2>1 DEF IInv, ListsExclusive
  <2> QED BY <2>2, <2>3, <2>4 DEF IInv
<1>3. CASE waiters[s] # <<>>
  <2> DEFINE t == Head(waiters[s])
             tail == Tail(waiters[s])
  <2>1. /\ ready_list' = InsertOrdered(ready_list, t, priority)
        /\ status' = [status EXCEPT ![t] = "ready"]
        /\ waiters' = [waiters EXCEPT ![s] = tail]
    BY <1>3 DEF WakeWaiter, ThreadUnblock
  <2>2. /\ t \in Thread /\ tail \in Seq(Thread)
        /\ \A u : Occurrences(tail, u) =
                    Occurrences(waiters[s], u) - (IF t = u THEN 1 ELSE 0)
        /\ Occurrences(waiters[s], t) >= 1
    BY <1>3, OccursTail DEF IInv, TypeOK
  <2> HIDE DEF t, tail
  <2>3. status[t] = "blocked" /\ op[t] = [name |-> "down", sema |-> s] /\ t # Idle
    <3>1. status[t] = "blocked" /\ op[t] = [name |-> "down", sema |-> s]
      BY <2>2 DEF IInv, ListsExclusive
    <3> QED BY <3>1 DEF IInv, IdleNeverWaits
  <2>4. /\ status' \in [Thread -> {"none", "running", "ready", "blocked", "dying"}]
        /\ ready_list' \in Seq(Thread)
        /\ \A u \in Thread : Occurrences(ready_list', u) =
             IF status'[u] = "ready" /\ u # Idle THEN 1 ELSE 0
        /\ \A u \in Thread : status'[u] = IF u = t THEN "ready" ELSE status[u]
        /\ status'[current] = "running"
        /\ \A u \in Thread : status'[u] = "running" => u = current
    BY <2>1, <2>2, <2>3, UnblockKeeps
  <2>5. /\ waiters' \in [Sema -> Seq(Thread)] /\ waiters'[s] = tail
        /\ \A r \in Sema : r # s => waiters'[r] = waiters[r]
    BY <2>1, <2>2 DEF IInv, TypeOK
  <2>6. TypeOK' /\ TicksInSlice'
    BY <1>1, <2>4, <2>5 DEF IInv, TypeOK, TicksInSlice
  <2>7. IdleNeverWaits'
    BY <1>1, <2>3, <2>4 DEF IInv, IdleNeverWaits
  <2>8. ASSUME NEW u \in Thread, NEW r \in Sema
        PROVE  Occurrences(waiters'[r], u) =
                 IF status'[u] = "blocked" /\ op'[u] = [name |-> "down", sema |-> r]
                 THEN 1 ELSE 0
    <3>1. Occurrences(waiters[r], u) =
            IF status[u] = "blocked" /\ op[u] = [name |-> "down", sema |-> r]
            THEN 1 ELSE 0
      BY DEF IInv, ListsExclusive
    <3>2. CASE u = t /\ r = s
      BY <2>2, <2>3, <2>4, <2>5, <3>1, <3>2
    <3>3. CASE u = t /\ r # s
      BY <2>3, <2>4, <2>5, <3>1, <3>3
    <3>4. CASE u # t
      <4>1. Occurrences(waiters'[r], u) = Occurrences(waiters[r], u)
        <5>1. CASE r = s
          BY <2>2, <2>5, <3>1, <3>4, <5>1
        <5> QED BY <2>5, <5>1
      <4> QED BY <1>1, <2>4, <3>1, <3>4, <4>1
    <3> QED BY <3>2, <3>3, <3>4
  <2>9. ASSUME NEW u \in Thread
        PROVE  Occurrences(blocked_list', u) =
                 IF status'[u] = "blocked" /\ op'[u] = Run THEN 1 ELSE 0
    <3>1. Occurrences(blocked_list, u) =
            IF status[u] = "blocked" /\ op[u] = Run THEN 1 ELSE 0
      BY DEF IInv, ListsExclusive
    <3>2. op[t] # Run
      BY <2>3, OpType
    <3> QED BY <1>1, <2>3, <2>4, <3>1, <3>2
  <2>10. ListsExclusive'
    BY <2>4, <2>8, <2>9 DEF ListsExclusive
  <2> QED BY <2>6, <2>7, <2>10 DEF IInv
<1> QED BY <1>2, <1>3

LEMMA SemaUpKeeps ==
  ASSUME IInv, NEW s \in Sema, SemaUp(s) PROVE IInv'
<1> DEFINE o == op[current]
<1>1. o \in Op /\ op' = [op EXCEPT ![current] = o] /\ current # Idle
  BY DEF SemaUp, IInv, TypeOK
<1>2. /\ WakeWaiter(s)
      /\ UNCHANGED <<priority, due, current, blocked_list, thread_ticks, handler>>
  BY DEF SemaUp
<1> HIDE DEF o
<1> QED BY <1>1, <1>2, WakeWaiterKeeps

LEMMA IntrUpKeeps ==
  ASSUME IInv, NEW s \in IntrSema, IntrUp(s) PROVE IInv'
<1> DEFINE o == IF op[current].name = "hlt" THEN Run ELSE op[current]
<1>1. /\ WakeWaiter(s) /\ s \in Sema
      /\ UNCHANGED <<priority, due, current, blocked_list, thread_ticks, handler>>
  BY ThreadAssumption DEF IntrUp
<1>2. o \in Op /\ op' = [op EXCEPT ![current] = o]
      /\ (current = Idle => o.name \in {"run", "hlt"})
  BY OpType DEF IntrUp, LeaveHlt, IInv, TypeOK, IdleNeverWaits
<1> HIDE DEF o
<1> QED BY <1>1, <1>2, WakeWaiterKeeps

-----------------------------------------------------------------------------
(* The steps that switch threads.                                          *)

\* The ready list that schedule() is given.
LEMMA YieldList ==
  ASSUME IInv, NEW pri, NEW rl,
         rl = IF current = Idle THEN ready_list
              ELSE InsertOrdered(ready_list, current, pri)
  PROVE  /\ rl \in Seq(Thread)
         /\ \A t \in Thread : Occurrences(rl, t) =
              IF (IF t = current THEN "ready" ELSE status[t]) = "ready" /\ t # Idle
              THEN 1 ELSE 0
<1>1. /\ ready_list \in Seq(Thread) /\ current \in Thread
      /\ status[current] = "running"
      /\ \A t \in Thread : Occurrences(ready_list, t) =
           IF status[t] = "ready" /\ t # Idle THEN 1 ELSE 0
  BY DEF IInv, TypeOK, ListsExclusive
<1>2. CASE current = Idle
  BY <1>1, <1>2
<1>3. CASE current # Idle
  <2>1. /\ rl \in Seq(Thread)
        /\ \A t : Occurrences(rl, t) =
                    Occurrences(ready_list, t) + (IF current = t THEN 1 ELSE 0)
    BY <1>1, <1>3, OccursInsert
  <2>2. ASSUME NEW t \in Thread
        PROVE  Occurrences(rl, t) =
                 IF (IF t = current THEN "ready" ELSE status[t]) = "ready" /\ t # Idle
                 THEN 1 ELSE 0
    BY <1>1, <1>3, <2>1
  <2> QED BY <2>1, <2>2
<1> QED BY <1>2, <1>3

LEMMA StopList ==
  ASSUME IInv, NEW x \in {"none", "blocked", "dying"}
  PROVE  /\ ready_list \in Seq(Thread)
         /\ \A t \in Thread : Occurrences(ready_list, t) =
              IF (IF t = current THEN x ELSE status[t]) = "ready" /\ t # Idle
              THEN 1 ELSE 0
BY DEF IInv, TypeOK, ListsExclusive

\* A switch that puts the thread that stops on no list but the ready list.
LEMMA SwitchAwayKeeps ==
  ASSUME IInv,
         NEW x \in {"none", "ready", "blocked", "dying"}, NEW rl \in Seq(Thread),
         \A t \in Thread : Occurrences(rl, t) =
           IF (IF t = current THEN x ELSE status[t]) = "ready" /\ t # Idle
           THEN 1 ELSE 0,
         Schedule([status EXCEPT ![current] = x], rl),
         NEW o \in Op, op' = [op EXCEPT ![current] = o],
         x = "blocked" => o.name = "hlt",
         current = Idle => o.name \in {"run", "hlt"} /\ x \notin {"none", "dying"},
         UNCHANGED <<blocked_list, waiters>>
  PROVE  /\ status' \in [Thread -> {"none", "running", "ready", "blocked", "dying"}]
         /\ op' \in [Thread -> Op] /\ current' \in Thread
         /\ ready_list' \in Seq(Thread) /\ thread_ticks' = 0
         /\ IdleNeverWaits' /\ ListsExclusive'
<1> USE ThreadAssumption DEF IInv
<1>1. /\ current' \in Thread /\ thread_ticks' = 0
      /\ ready_list' \in Seq(Thread)
      /\ \A t \in Thread : Occurrences(ready_list', t) =
           IF status'[t] = "ready" /\ t # Idle THEN 1 ELSE 0
      /\ status' \in [Thread -> {"none", "running", "ready", "blocked", "dying"}]
      /\ \A t \in Thread :
           status'[t] = IF t = current' THEN "running"
                        ELSE IF t = current THEN x ELSE status[t]
      /\ \/ current' = Idle
         \/ (IF current' = current THEN x ELSE status[current']) = "ready"
  BY SwitchKeeps
<1>2. /\ op' \in [Thread -> Op] /\ op'[current] = o
      /\ \A t \in Thread : t # current => op'[t] = op[t]
      /\ current \in Thread /\ status[current] = "running"
  BY DEF TypeOK, ListsExclusive
<1>3. IdleNeverWaits'
  BY <1>1, <1>2 DEF IdleNeverWaits
<1>4. ASSUME NEW t \in Thread
      PROVE  /\ Occurrences(blocked_list', t) =
                  IF status'[t] = "blocked" /\ op'[t] = Run THEN 1 ELSE 0
             /\ \A s \in Sema : Occurrences(waiters'[s], t) =
                  IF status'[t] = "blocked" /\ op'[t] = [name |-> "down", sema |-> s]
                  THEN 1 ELSE 0
  <2>1. /\ Occurrences(blocked_list', t) =
             IF status[t] = "blocked" /\ op[t] = Run THEN 1 ELSE 0
        /\ \A s \in Sema : Occurrences(waiters'[s], t) =
             IF status[t] = "blocked" /\ op[t] = [name |-> "down", sema |-> s]
             THEN 1 ELSE 0
    BY DEF ListsExclusive
  <2>2. CASE t = current
    <3>1. x = "blocked" => o # Run /\ \A s \in Sema : o # [name |-> "down", sema |-> s]
      BY OpType
    <3>2. status[t] = "running" /\ op'[t] = o /\ status'[t] \in {"running", x}
      BY <1>1, <1>2, <2>2
    <3> QED BY <2>1, <3>1, <3>2
  <2>3. CASE t # current /\ t = current'
    <3>1. status'[t] = "running" /\ (t = Idle \/ status[t] = "ready")
      BY <1>1, <2>3
    <3>2. CASE t = Idle
      <4>1. status[t] = "blocked" =>
              op[t] # Run /\ \A s \in Sema : op[t] # [name |-> "down", sema |-> s]
        BY <3>2, OpType DEF IdleNeverWaits
      <4> QED BY <2>1, <3>1, <4>1
    <3>3. CASE status[t] = "ready"
      BY <2>1, <3>1, <3>3
    <3> QED BY <3>1, <3>2, <3>3
  <2>4. CASE t # current /\ t # current'
    <3>1. status'[t] = status[t] /\ op'[t] = op[t]
      BY <1>1, <1>2, <2>4
    <3> QED BY <2>1, <3>1
  <2> QED BY <2>2, <2>3, <2>4
<1>5. ListsExclusive'
  BY <1>1, <1>4 DEF ListsExclusive
<1> QED BY <1>1, <1>2, <1>3, <1>5

LEMMA TickReturnKeeps == ASSUME IInv, TickReturn PROVE IInv'
<1> USE ThreadAssumption
<1>1. /\ handler' = "none" /\ priority' = Aged
      /\ UNCHANGED <<op, due, blocked_list, waiters, value>>
  BY DEF TickReturn
<1>2. priority' \in [Thread -> Priority]
  BY <1>1 DEF Aged, IInv, TypeOK, Priority
<1>3. CASE SliceOver
  <2> DEFINE rl == IF current = Idle THEN ready_list
                   ELSE InsertOrdered(ready_list, current, Aged)
             o == op[current]
  <2>1. Schedule([status EXCEPT ![current] = "ready"], rl)
    BY <1>3 DEF TickReturn, ThreadYield
  <2>2. /\ rl \in Seq(Thread)
        /\ \A t \in Thread : Occurrences(rl, t) =
             IF (IF t = current THEN "ready" ELSE status[t]) = "ready" /\ t # Idle
             THEN 1 ELSE 0
    BY YieldList
  <2>3. o \in Op /\ op' = [op EXCEPT ![current] = o]
        /\ (current = Idle => o.name \in {"run", "hlt"})
    BY <1>1 DEF IInv, TypeOK, IdleNeverWaits
  <2> HIDE DEF rl, o
  <2>4. /\ status' \in [Thread -> {"none", "running", "ready", "blocked", "dying"}]
        /\ op' \in [Thread -> Op] /\ current' \in Thread
        /\ ready_list' \in Seq(Thread) /\ thread_ticks' = 0
        /\ IdleNeverWaits' /\ ListsExclusive'
    BY <1>1, <2>1, <2>2, <2>3, SwitchAwayKeeps
  <2>5. TypeOK' /\ TicksInSlice'
    BY <1>1, <1>2, <2>4 DEF IInv, TypeOK, TicksInSlice
  <2> QED BY <2>4, <2>5 DEF IInv
<1>4. CASE ~SliceOver
  <2>1. UNCHANGED <<status, current, ready_list, thread_ticks>>
    BY <1>4 DEF TickReturn
  <2>2. TypeOK' /\ TicksInSlice'
    BY <1>1, <1>2, <1>4, <2>1 DEF IInv, TypeOK, TicksInSlice, SliceOver
  <2>3. IdleNeverWaits' /\ ListsExclusive'
    BY <1>1, <2>1 DEF IInv, IdleNeverWaits, ListsExclusive
  <2> QED BY <2>2, <2>3 DEF IInv
<1> QED BY <1>3, <1>4

LEMMA YieldKeeps == ASSUME IInv, Yield PROVE IInv'
<1> USE ThreadAssumption
<1> DEFINE rl == IF current = Idle THEN ready_list
                 ELSE InsertOrdered(ready_list, current, priority)
<1>1. /\ op' = [op EXCEPT ![current] = Run] /\ handler = "none"
      /\ Schedule([status EXCEPT ![current] = "ready"], rl)
      /\ UNCHANGED <<priority, due, blocked_list, waiters, value, handler>>
  BY DEF Yield, Goto, In, ThreadYield
<1>2. /\ rl \in Seq(Thread)
      /\ \A t \in Thread : Occurrences(rl, t) =
           IF (IF t = current THEN "ready" ELSE status[t]) = "ready" /\ t # Idle
           THEN 1 ELSE 0
  BY YieldList
<1> HIDE DEF rl
<1>3. /\ status' \in [Thread -> {"none", "running", "ready", "blocked", "dying"}]
      /\ op' \in [Thread -> Op] /\ current' \in Thread
      /\ ready_list' \in Seq(Thread) /\ thread_ticks' = 0
      /\ IdleNeverWaits' /\ ListsExclusive'
  BY <1>1, <1>2, OpType, SwitchAwayKeeps
<1>4. TypeOK' /\ TicksInSlice'
  BY <1>1, <1>3 DEF IInv, TypeOK, TicksInSlice
<1> QED BY <1>3, <1>4 DEF IInv

LEMMA ExitKeeps == ASSUME IInv, Exit PROVE IInv'
<1> USE ThreadAssumption
<1> DEFINE x == IF current = Main THEN "dying" ELSE "none"
           o == op[current]
<1>1. /\ current # Idle
      /\ Schedule([status EXCEPT ![current] = x], ready_list)
      /\ UNCHANGED <<priority, op, due, blocked_list, waiters, value, handler>>
  BY DEF Exit
<1>2. x \in {"none", "blocked", "dying"} /\ x # "blocked"
  OBVIOUS
<1>3. o \in Op /\ op' = [op EXCEPT ![current] = o]
  BY <1>1 DEF IInv, TypeOK
<1> HIDE DEF x, o
<1>4. /\ status' \in [Thread -> {"none", "running", "ready", "blocked", "dying"}]
      /\ op' \in [Thread -> Op] /\ current' \in Thread
      /\ ready_list' \in Seq(Thread) /\ thread_ticks' = 0
      /\ IdleNeverWaits' /\ ListsExclusive'
  BY <1>1, <1>2, <1>3, StopList, SwitchAwayKeeps
<1>5. TypeOK' /\ TicksInSlice'
  BY <1>1, <1>4 DEF IInv, TypeOK, TicksInSlice
<1> QED BY <1>4, <1>5 DEF IInv

LEMMA IdleBlockKeeps == ASSUME IInv, IdleBlock PROVE IInv'
<1> USE ThreadAssumption
<1> DEFINE o == [name |-> "hlt"]
<1>1. /\ op' = [op EXCEPT ![current] = o]
      /\ Schedule([status EXCEPT ![current] = "blocked"], ready_list)
      /\ UNCHANGED <<priority, due, blocked_list, waiters, value, handler>>
  BY DEF IdleBlock, Goto, ThreadBlock
<1>2. o \in Op /\ o.name = "hlt"
  BY OpType
<1> HIDE DEF o
<1>3. /\ status' \in [Thread -> {"none", "running", "ready", "blocked", "dying"}]
      /\ op' \in [Thread -> Op] /\ current' \in Thread
      /\ ready_list' \in Seq(Thread) /\ thread_ticks' = 0
      /\ IdleNeverWaits' /\ ListsExclusive'
  BY <1>1, <1>2, StopList, SwitchAwayKeeps
<1>4. TypeOK' /\ TicksInSlice'
  BY <1>1, <1>3 DEF IInv, TypeOK, TicksInSlice
<1> QED BY <1>3, <1>4 DEF IInv

\* A thread that is not the idle one blocks: SwitchKeeps' conclusion for it,
\* and what becomes of every thread that neither stops nor starts.
LEMMA BlockKeeps ==
  ASSUME IInv, current # Idle, NEW o \in Op, op' = [op EXCEPT ![current] = o],
         ThreadBlock
  PROVE  /\ status' \in [Thread -> {"none", "running", "ready", "blocked", "dying"}]
         /\ op' \in [Thread -> Op] /\ op'[current] = o /\ current' \in Thread
         /\ ready_list' \in Seq(Thread) /\ thread_ticks' = 0
         /\ IdleNeverWaits'
         /\ status'[current'] = "running" /\ status'[current] = "blocked"
         /\ status[current] = "running"
         /\ \A t \in Thread : status'[t] = "running" => t = current'
         /\ \A t \in Thread : Occurrences(ready_list', t) =
              IF status'[t] = "ready" /\ t # Idle THEN 1 ELSE 0
         /\ \A t \in Thread \ {current} :
              /\ op'[t] = op[t]
              /\ status'[t] = "blocked" => status[t] = "blocked"
              /\ status[t] = "blocked" =>
                   status'[t] = "blocked" \/ op[t].name = "hlt"
<1> USE ThreadAssumption
<1>1. Schedule([status EXCEPT ![current] = "blocked"], ready_list)
  BY DEF ThreadBlock
<1>2. /\ current' \in Thread /\ thread_ticks' = 0
      /\ ready_list' \in Seq(Thread)
      /\ \A t \in Thread : Occurrences(ready_list', t) =
           IF status'[t] = "ready" /\ t # Idle THEN 1 ELSE 0
      /\ status' \in [Thread -> {"none", "running", "ready", "blocked", "dying"}]
      /\ \A t \in Thread :
           status'[t] = IF t = current' THEN "running"
                        ELSE IF t = current THEN "blocked" ELSE status[t]
      /\ \/ current' = Idle
         \/ (IF current' = current THEN "blocked" ELSE status[current']) = "ready"
  <2>1. /\ ready_list \in Seq(Thread)
        /\ \A t \in Thread : Occurrences(ready_list, t) =
             IF (IF t = current THEN "blocked" ELSE status[t]) = "ready" /\ t # Idle
             THEN 1 ELSE 0
    BY StopList
  <2> QED BY <1>1, <2>1, SwitchKeeps DEF IInv
<1>3. /\ op' \in [Thread -> Op] /\ op'[current] = o
      /\ \A t \in Thread : t # current => op'[t] = op[t]
      /\ current \in Thread /\ status[current] = "running"
      /\ \A t \in Thread : status[t] = "running" => t = current
  BY DEF IInv, TypeOK, ListsExclusive
<1>4. current' # current
  BY <1>2
<1>5. IdleNeverWaits'
  BY <1>2, <1>3 DEF IInv, IdleNeverWaits
<1>6. ASSUME NEW t \in Thread \ {current}, status[t] = "blocked"
      PROVE  status'[t] = "blocked" \/ op[t].name = "hlt"
  <2>1. CASE t = current'
    <3>1. t = Idle
      BY <1>2, <1>6, <2>1
    <3> QED BY <1>6, <3>1 DEF IInv, IdleNeverWaits
  <2>2. CASE t # current'
    BY <1>2, <1>6, <2>2
  <2> QED BY <2>1, <2>2
<1> QED BY <1>2, <1>3, <1>4, <1>5, <1>6

LEMMA ThreadSleepKeeps == ASSUME IInv, ThreadSleep PROVE IInv'
<1> USE ThreadAssumption
<1>1. /\ current # Idle /\ handler = "none"
      /\ op' = [op EXCEPT ![current] = Run] /\ ThreadBlock
      /\ blocked_list' = Append(blocked_list, current)
      /\ UNCHANGED <<priority, due, waiters, value, handler>>
  BY DEF ThreadSleep, In, Goto, IInv, IdleNeverWaits
<1>2. /\ status' \in [Thread -> {"none", "running", "ready", "blocked", "dying"}]
      /\ op' \in [Thread -> Op] /\ op'[current] = Run /\ current' \in Thread
      /\ ready_list' \in Seq(Thread) /\ thread_ticks' = 0
      /\ IdleNeverWaits'
      /\ status'[current'] = "running" /\ status'[current] = "blocked"
      /\ status[current] = "running"
      /\ \A t \in Thread : status'[t] = "running" => t = current'
      /\ \A t \in Thread : Occurrences(ready_list', t) =
           IF status'[t] = "ready" /\ t # Idle THEN 1 ELSE 0
      /\ \A t \in Thread \ {current} :
           /\ op'[t] = op[t]
           /\ status'[t] = "blocked" => status[t] = "blocked"
           /\ status[t] = "blocked" => status'[t] = "blocked" \/ op[t].name = "hlt"
  BY <1>1, OpType, BlockKeeps
<1>3. /\ blocked_list' \in Seq(Thread)
      /\ \A u : Occurrences(blocked_list', u) =
                  Occurrences(blocked_list, u) + (IF current = u THEN 1 ELSE 0)
  BY <1>1, OccursAppend DEF IInv, TypeOK
<1>4. TypeOK' /\ TicksInSlice'
  BY <1>1, <1>2, <1>3 DEF IInv, TypeOK, TicksInSlice
<1>5. ASSUME NEW t \in Thread
      PROVE  /\ Occurrences(blocked_list', t) =
                  IF status'[t] = "blocked" /\ op'[t] = Run THEN 1 ELSE 0
             /\ \A s \in Sema : Occurrences(waiters'[s], t) =
                  IF status'[t] = "blocked" /\ op'[t] = [name |-> "down", sema |-> s]
                  THEN 1 ELSE 0
  <2>1. /\ Occurrences(blocked_list, t) =
             IF status[t] = "blocked" /\ op[t] = Run THEN 1 ELSE 0
        /\ \A s \in Sema : Occurrences(waiters'[s], t) =
             IF status[t] = "blocked" /\ op[t] = [name |-> "down", sema |-> s]
             THEN 1 ELSE 0
    BY <1>1 DEF IInv, ListsExclusive
  <2>2. CASE t = current
    <3>1. \A s \in Sema : Run # [name |-> "down", sema |-> s]
      BY OpType
    <3>2. Occurrences(blocked_list, t) = 0
      BY <1>2, <2>1, <2>2
    <3>3. Occurrences(blocked_list', t) = 1
      BY <1>3, <2>2, <3>2
    <3> QED BY <1>2, <2>1, <2>2, <3>1, <3>3
  <2>3. CASE t # current
    <3>1. Occurrences(blocked_list', t) = Occurrences(blocked_list, t)
      BY <1>3, <2>1, <2>3
    <3>2. op[t].name = "hlt" =>
            op[t] # Run /\ \A s \in Sema : op[t] # [name |-> "down", sema |-> s]
      BY OpType
    <3>3. /\ op'[t] = op[t]
          /\ status'[t] = "blocked" => status[t] = "blocked"
          /\ status[t] = "blocked" => status'[t] = "blocked" \/ op[t].name = "hlt"
      BY <1>2, <2>3
    <3> QED BY <2>1, <3>1, <3>2, <3>3
  <2> QED BY <2>2, <2>3
<1>6. ListsExclusive'
  BY <1>2, <1>5 DEF ListsExclusive
<1> QED BY <1>2, <1>4, <1>6 DEF IInv

LEMMA SemaDownKeeps == ASSUME IInv, NEW s \in Sema, SemaDown(s) PROVE IInv'
<1> USE ThreadAssumption
<1>1. /\ current # Idle /\ current \in Thread /\ status[current] = "running"
      /\ handler = "none"
      /\ UNCHANGED <<priority, due, blocked_list, handler>>
  BY DEF SemaDown, In, IInv, IdleNeverWaits, TypeOK, ListsExclusive
<1>2. CASE value[s] = 0
  <2> DEFINE o == [name |-> "down", sema |-> s]
             w == InsertOrdered(waiters[s], current, priority)
  <2>1. /\ op' = [op EXCEPT ![current] = o] /\ ThreadBlock /\ UNCHANGED value
        /\ waiters' = [waiters EXCEPT ![s] = w]
    BY <1>2 DEF SemaDown, Goto
  <2>2. o \in Op /\ o # Run /\ \A r \in Sema : o = [name |-> "down", sema |-> r] <=> r = s
    BY OpType
  <2>3. /\ w \in Seq(Thread)
        /\ \A u : Occurrences(w, u) =
                    Occurrences(waiters[s], u) + (IF current = u THEN 1 ELSE 0)
    BY <1>1, OccursInsert DEF IInv, TypeOK
  <2> HIDE DEF o, w
  <2>4. /\ status' \in [Thread -> {"none", "running", "ready", "blocked", "dying"}]
        /\ op' \in [Thread -> Op] /\ op'[current] = o /\ current' \in Thread
        /\ ready_list' \in Seq(Thread) /\ thread_ticks' = 0
        /\ IdleNeverWaits'
        /\ status'[current'] = "running" /\ status'[current] = "blocked"
        /\ \A t \in Thread : status'[t] = "running" => t = current'
        /\ \A t \in Thread : Occurrences(ready_list', t) =
             IF status'[t] = "ready" /\ t # Idle THEN 1 ELSE 0
        /\ \A t \in Thread \ {current} :
             /\ op'[t] = op[t]
             /\ status'[t] = "blocked" => status[t] = "blocked"
             /\ status[t] = "blocked" => status'[t] = "blocked" \/ op[t].name = "hlt"
    BY <1>1, <2>1, <2>2, BlockKeeps
  <2>5. /\ waiters' \in [Sema -> Seq(Thread)] /\ waiters'[s] = w
        /\ \A r \in Sema : r # s => waiters'[r] = waiters[r]
    BY <2>1, <2>3 DEF IInv, TypeOK
  <2>6. TypeOK' /\ TicksInSlice'
    BY <1>1, <2>1, <2>4, <2>5 DEF IInv, TypeOK, TicksInSlice
  <2>7. ASSUME NEW t \in Thread
        PROVE  /\ Occurrences(blocked_list', t) =
                    IF status'[t] = "blocked" /\ op'[t] = Run THEN 1 ELSE 0
               /\ \A r \in Sema : Occurrences(waiters'[r], t) =
                    IF status'[t] = "blocked" /\ op'[t] = [name |-> "down", sema |-> r]
                    THEN 1 ELSE 0
    <3>1. /\ Occurrences(blocked_list', t) =
               IF status[t] = "blocked" /\ op[t] = Run THEN 1 ELSE 0
          /\ \A r \in Sema : Occurrences(waiters[r], t) =
               IF status[t] = "blocked" /\ op[t] = [name |-> "down", sema |-> r]
               THEN 1 ELSE 0
      BY <1>1 DEF IInv, ListsExclusive
    <3>2. CASE t = current
      <4>1. Occurrences(blocked_list', t) = 0
            /\ \A r \in Sema : Occurrences(waiters[r], t) = 0
        BY <1>1, <3>1, <3>2
      <4>2. Occurrences(waiters'[s], t) = 1
        BY <2>3, <2>5, <3>2, <4>1
      <4>3. \A r \in Sema : r # s => Occurrences(waiters'[r], t) = 0
        BY <2>5, <4>1
      <4> QED BY <2>2, <2>4, <3>2, <4>1, <4>2, <4>3
    <3>3. CASE t # current
      <4>1. \A r \in Sema : Occurrences(waiters'[r], t) = Occurrences(waiters[r], t)
        <5>1. Occurrences(w, t) = Occurrences(waiters[s], t)
          <6>1. Occurrences(waiters[s], t) \in Nat
            BY OccurrencesType DEF IInv, TypeOK
          <6> QED BY <2>3, <3>3, <6>1
        <5> QED BY <2>5, <5>1
      <4>2. op[t].name = "hlt" =>
              op[t] # Run /\ \A r \in Sema : op[t] # [name |-> "down", sema |-> r]
        BY OpType
      <4>3. /\ op'[t] = op[t]
            /\ status'[t] = "blocked" => status[t] = "blocked"
            /\ status[t] = "blocked" => status'[t] = "blocked" \/ op[t].name = "hlt"
        BY <2>4, <3>3
      <4> QED BY <3>1, <4>1, <4>2, <4>3
    <3> QED BY <3>2, <3>3
  <2>8. ListsExclusive'
    BY <2>4, <2>7 DEF ListsExclusive
  <2> QED BY <2>4, <2>6, <2>8 DEF IInv
<1>3. CASE value[s] # 0
  <2>1. /\ op' = [op EXCEPT ![current] = Run]
        /\ value' = [value EXCEPT ![s] = @ - 1]
        /\ UNCHANGED <<waiters, status, current, ready_list, thread_ticks>>
    BY <1>3 DEF SemaDown, Goto
  <2>2. op' \in [Thread -> Op] /\ IdleNeverWaits' /\ ListsExclusive'
    BY <1>1, <2>1, OpType, QuietKeeps
  <2>3. value' \in [Sema -> 0..MaxValue]
    BY <1>3, <2>1 DEF IInv, TypeOK
  <2>4. TypeOK' /\ TicksInSlice'
    BY <1>1, <2>1, <2>2, <2>3 DEF IInv, TypeOK, TicksInSlice
  <2> QED BY <2>2, <2>4 DEF IInv
<1> QED BY <1>2, <1>3

-----------------------------------------------------------------------------
(* The theorem.                                                            *)

LEMMA InitHolds == Init => IInv
<1> SUFFICES ASSUME Init PROVE IInv
  OBVIOUS
<1> USE ThreadAssumption
<1>1. /\ status \in [Thread -> {"none", "running", "ready", "blocked", "dying"}]
      /\ status[Main] = "running" /\ status[Idle] = "blocked"
      /\ \A t \in Thread \ {Main, Idle} : status[t] = "none"
  BY DEF Init
<1>2. /\ op \in [Thread -> Op] /\ op[Idle] = [name |-> "hlt"]
      /\ \A t \in Thread \ {Idle} : op[t] = Run
  BY OpType DEF Init
<1>3. /\ ready_list = <<>> /\ blocked_list = <<>>
      /\ \A s \in Sema : waiters[s] = <<>>
      /\ waiters \in [Sema -> Seq(Thread)] /\ current = Main
  BY OccursNone DEF Init
<1>4. TypeOK /\ TicksInSlice
  BY <1>1, <1>2, <1>3, OccursNone DEF Init, TypeOK, TicksInSlice, Priority
<1>5. IdleNeverWaits
  BY <1>1, <1>2 DEF IdleNeverWaits
<1>6. ASSUME NEW t \in Thread, status[t] = "blocked"
      PROVE  op[t] # Run /\ \A s \in Sema : op[t] # [name |-> "down", sema |-> s]
  <2>1. t = Idle
    BY <1>1, <1>6
  <2> QED BY <1>2, <2>1, OpType
<1>7. \A t \in Thread : status[t] # "ready" /\ (status[t] = "running" => t = Main)
  BY <1>1
<1>8. ListsExclusive
  BY <1>1, <1>3, <1>6, <1>7, OccursNone DEF ListsExclusive
<1> QED BY <1>4, <1>5, <1>8 DEF IInv

LEMMA NextKeeps == IInv /\ [Next]_vars => IInv'
<1> SUFFICES ASSUME IInv, [Next]_vars PROVE IInv'
  OBVIOUS
<1>1. CASE Timer
  BY <1>1, TickKeeps, WakeKeeps, TickReturnKeeps DEF Timer
<1>2. CASE Call
  BY <1>2, CreateKeeps, TimerSleepKeeps, ThreadSleepKeeps, SemaDownKeeps,
     SemaTryDownKeeps, SemaUpKeeps, YieldKeeps, SetPriorityHeadKeeps,
     SetPriorityAssignKeeps, SetPriorityCompareKeeps, ExitKeeps DEF Call
<1>3. CASE \E s \in IntrSema : IntrUp(s)
  BY <1>3, IntrUpKeeps
<1>4. CASE IdleBlock
  BY <1>4, IdleBlockKeeps
<1>5. CASE UNCHANGED vars
  BY <1>5 DEF vars, IInv, TypeOK, TicksInSlice, IdleNeverWaits, ListsExclusive
<1> QED BY <1>1, <1>2, <1>3, <1>4, <1>5 DEF Next

\* The invariant above holds throughout.
THEOREM Invariance == Spec => []IInv
BY InitHolds, NextKeeps, PTL DEF Spec

\* Every variable keeps its type: no priority leaves 0..PRI_MAX, no value
\* goes below zero, no slice is longer than TIME_SLICE.
THEOREM TypeCorrect == Spec => []TypeOK
<1>1. IInv => TypeOK
  BY DEF IInv
<1> QED BY <1>1, Invariance, PTL

\* struct thread's one `elem` is enough: a thread is at any time in the one
\* list its status calls for, once, and in no other.
THEOREM OneListAtATime == Spec => []ListsExclusive
<1>1. IInv => ListsExclusive
  BY DEF IInv
<1> QED BY <1>1, Invariance, PTL

-----------------------------------------------------------------------------
(* No wake-up is lost.  Woken(s) is who was woken from s and has not yet   *)
(* tried again; it only shrinks when one of them takes a unit of the value.*)

Able(t) == status[t] \in {"ready", "running"}
Woken(s) == {t \in Thread : Able(t) /\ op[t] = [name |-> "down", sema |-> s]}

LEMMA WokenFinite ==
  ASSUME NEW s
  PROVE  /\ IsFiniteSet(Woken(s)) /\ IsFiniteSet(Woken(s)')
         /\ Cardinality(Woken(s)) \in Nat /\ Cardinality(Woken(s)') \in Nat
<1>1. Woken(s) \subseteq Thread /\ Woken(s)' \subseteq Thread
  BY DEF Woken
<1>2. IsFiniteSet(Woken(s)) /\ IsFiniteSet(Woken(s)')
  BY <1>1, ThreadAssumption, FS_Subset
<1> QED BY <1>2, FS_CardinalityType

\* One semaphore's part of NoLostWakeup.
Spoken(s) == waiters[s] # <<>> => value[s] <= Cardinality(Woken(s))

\* Whoever stays able and does not change its op stays woken.
LEMMA WokenKept ==
  ASSUME NEW s \in Sema, Spoken(s), IInv,
         waiters'[s] = waiters[s], value'[s] \in Nat, value'[s] <= value[s],
         \A t \in Thread : Able(t) /\ op[t].name = "down" =>
           Able(t)' /\ op'[t] = op[t]
  PROVE  Spoken(s)'
<1>1. Woken(s) \subseteq Woken(s)'
  BY DEF Woken
<1>2. Cardinality(Woken(s)) <= Cardinality(Woken(s)')
  BY <1>1, WokenFinite, FS_Subset
<1>3. value[s] \in Nat
  BY DEF IInv, TypeOK
<1>4. Cardinality(Woken(s)) \in Nat /\ Cardinality(Woken(s)') \in Nat
  BY WokenFinite
<1> HIDE DEF Woken
<1> QED BY <1>2, <1>3, <1>4 DEF Spoken

\* A switch leaves everybody but the thread that stops as able as before.
LEMMA SwitchAble ==
  ASSUME IInv, NEW x \in {"none", "ready", "blocked", "dying"}, NEW rl,
         Schedule([status EXCEPT ![current] = x], rl)
  PROVE  \A t \in Thread : Able(t) /\ (t # current \/ x = "ready") => Able(t)'
BY DEF Able, Schedule, IInv, TypeOK

LEMMA SpokenUp ==
  ASSUME IInv, NEW s \in Sema, WakeWaiter(s), current' = current,
         \A t \in Thread : op[t].name = "down" => op'[t] = op[t],
         NEW r \in Sema, Spoken(r)
  PROVE  Spoken(r)'
<1>1. \A t \in Thread : Able(t) => Able(t)'
  BY DEF WakeWaiter, ThreadUnblock, Able, IInv, TypeOK
<1>2. value[r] \in Nat /\ value[s] \in Nat
  BY DEF IInv, TypeOK
<1>3. CASE r # s
  <2>1. value'[r] = value[r] /\ waiters'[r] = waiters[r]
    BY <1>3 DEF WakeWaiter, IInv, TypeOK
  <2> QED BY <1>1, <1>2, <2>1, WokenKept
<1>4. CASE r = s /\ waiters[s] = <<>>
  <2>1. waiters'[s] = <<>>
    BY <1>4 DEF WakeWaiter
  <2> QED BY <1>4, <2>1 DEF Spoken
<1>5. CASE r = s /\ waiters[s] # <<>>
  <2>0. PICK t \in Thread : t = Head(waiters[s])
    BY <1>5, OccursTail DEF IInv, TypeOK
  <2> DEFINE w == Woken(s)
             v == Woken(s)'
  <2>1. value'[s] = value[s] + 1 /\ status' = [status EXCEPT ![t] = "ready"]
    BY <1>5, <2>0 DEF WakeWaiter, ThreadUnblock, IInv, TypeOK
  <2>2. /\ t \in Thread /\ status[t] = "blocked"
        /\ op[t] = [name |-> "down", sema |-> s]
    <3>1. t \in Thread /\ Occurrences(waiters[s], t) >= 1
      BY <1>5, <2>0, OccursTail DEF IInv, TypeOK
    <3> QED BY <3>1 DEF IInv, ListsExclusive
  <2>3. /\ Able(t)' /\ t \notin w
        /\ op'[t] = [name |-> "down", sema |-> s]
    <3>1. Able(t)'
      BY <2>1, <2>2 DEF Able, IInv, TypeOK
    <3>2. t \notin w
      BY <2>2 DEF Woken, Able
    <3>3. op[t].name = "down"
      BY <2>2
    <3> QED BY <2>2, <3>1, <3>2, <3>3
  <2>4. w \cup {t} \subseteq v
    <3>1. ASSUME NEW u \in w PROVE u \in v
      <4>1. /\ u \in Thread /\ Able(u)
            /\ op[u] = [name |-> "down", sema |-> s]
        BY DEF Woken
      <4>2. op[u].name = "down"
        BY <4>1
      <4>3. Able(u)' /\ op'[u] = [name |-> "down", sema |-> s]
        BY <1>1, <4>1, <4>2
      <4> QED BY <4>1, <4>3 DEF Woken
    <3>2. t \in v
      BY <2>2, <2>3 DEF Woken
    <3> QED BY <3>1, <3>2
  <2>5. /\ IsFiniteSet(w) /\ IsFiniteSet(v)
        /\ Cardinality(w) \in Nat /\ Cardinality(v) \in Nat
    BY WokenFinite
  <2>6. Spoken(s)' <=> (waiters'[s] # <<>> => value'[s] <= Cardinality(v))
    BY DEF Spoken
  <2>7. value[s] <= Cardinality(w)
    BY <1>5 DEF Spoken
  <2> HIDE DEF w, v
  <2>8. Cardinality(w \cup {t}) = Cardinality(w) + 1
    BY <2>3, <2>5, FS_AddElement
  <2>9. Cardinality(w \cup {t}) <= Cardinality(v)
    BY <2>4, <2>5, FS_Subset
  <2> QED BY <1>2, <1>5, <2>1, <2>5, <2>6, <2>7, <2>8, <2>9
<1> QED BY <1>3, <1>4, <1>5

LEMMA SpokenDown ==
  ASSUME IInv, NEW s \in Sema, SemaDown(s), NEW r \in Sema, Spoken(r)
  PROVE  Spoken(r)'
<1>1. /\ value[r] \in Nat /\ value[s] \in Nat /\ current \in Thread
      /\ op[current].name = "down" => op[current] = [name |-> "down", sema |-> s]
  <2>1. /\ value[r] \in Nat /\ value[s] \in Nat /\ current \in Thread
        /\ op[current] \in Op
    BY DEF IInv, TypeOK
  <2>2. op[current].name = "down" => op[current].sema = s
    BY DEF SemaDown, In
  <2> QED BY <2>1, <2>2, OpDown
<1>2. CASE value[s] = 0
  <2>1. /\ UNCHANGED value
        /\ op' = [op EXCEPT ![current] = [name |-> "down", sema |-> s]]
        /\ r # s => waiters'[r] = waiters[r]
        /\ Schedule([status EXCEPT ![current] = "blocked"], ready_list)
    BY <1>2 DEF SemaDown, Goto, ThreadBlock, IInv, TypeOK
  <2>2. CASE r = s
    <3>1. value'[r] = 0 /\ Cardinality(Woken(r)') \in Nat
      BY <1>2, <2>1, <2>2, WokenFinite
    <3> HIDE DEF Woken
    <3> QED BY <3>1 DEF Spoken
  <2>3. CASE r # s
    <3>1. \A t \in Thread : t # current /\ Able(t) => Able(t)'
      BY <2>1, SwitchAble
    <3>2. Woken(r) \subseteq Woken(r)'
      BY <1>1, <2>1, <2>3, <3>1 DEF Woken, IInv, TypeOK
    <3>3. Cardinality(Woken(r)) <= Cardinality(Woken(r)')
      BY <3>2, WokenFinite, FS_Subset
    <3>4. Cardinality(Woken(r)) \in Nat /\ Cardinality(Woken(r)') \in Nat
      BY WokenFinite
    <3> HIDE DEF Woken
    <3> QED BY <1>1, <2>1, <2>3, <3>3, <3>4 DEF Spoken
  <2> QED BY <2>2, <2>3
<1>3. CASE value[s] # 0
  <2>1. /\ value' = [value EXCEPT ![s] = @ - 1]
        /\ op' = [op EXCEPT ![current] = Run]
        /\ UNCHANGED <<waiters, status>>
    BY <1>3 DEF SemaDown, Goto
  <2> DEFINE w == Woken(r)
             v == Woken(r)'
  <2>2. /\ IsFiniteSet(w) /\ IsFiniteSet(v)
        /\ Cardinality(w) \in Nat /\ Cardinality(v) \in Nat
    BY WokenFinite
  <2>3. Spoken(r)' <=> (waiters'[r] # <<>> => value'[r] <= Cardinality(v))
    BY DEF Spoken
  <2>4. Spoken(r) <=> (waiters[r] # <<>> => value[r] <= Cardinality(w))
    BY DEF Spoken
  <2>5. w \ {current} \subseteq v
    BY <2>1 DEF Woken, Able, IInv, TypeOK
  <2>6. r # s => current \notin w
    BY <1>1 DEF Woken
  <2>7. value'[r] = IF r = s THEN value[r] - 1 ELSE value[r]
    BY <2>1 DEF IInv, TypeOK
  <2> HIDE DEF w, v
  <2>8. Cardinality(w \ {current}) <= Cardinality(v)
    BY <2>2, <2>5, FS_Subset
  <2>9. Cardinality(w \ {current}) =
          IF current \in w THEN Cardinality(w) - 1 ELSE Cardinality(w)
    BY <2>2, FS_RemoveElement
  <2>10. value'[r] <= value[r] /\ waiters'[r] = waiters[r]
    BY <1>1, <2>1, <2>7
  <2>11. CASE current \in w
    BY <1>1, <2>1, <2>2, <2>3, <2>4, <2>6, <2>7, <2>8, <2>9, <2>11
  <2>12. CASE current \notin w
    BY <1>1, <2>1, <2>2, <2>3, <2>4, <2>7, <2>8, <2>9, <2>10, <2>12
  <2> QED BY <2>11, <2>12
<1> QED BY <1>2, <1>3

LEMMA SpokenNext ==
  ASSUME IInv, [Next]_vars, NEW s \in Sema, Spoken(s)
  PROVE  Spoken(s)'
<1> USE ThreadAssumption
<1>1. /\ value[s] \in Nat /\ current \in Thread /\ status[current] = "running"
      /\ op \in [Thread -> Op]
      /\ status \in [Thread -> {"none", "running", "ready", "blocked", "dying"}]
  BY DEF IInv, TypeOK, ListsExclusive
<1>2. ASSUME UNCHANGED <<waiters, value>>,
             \A t \in Thread : Able(t) /\ op[t].name = "down" =>
               Able(t)' /\ op'[t] = op[t]
      PROVE  Spoken(s)'
  BY <1>1, <1>2, WokenKept
<1>3. CASE Tick
  BY <1>1, <1>2, <1>3 DEF Tick, LeaveHlt, Able
<1>4. CASE Wake
  BY <1>1, <1>2, <1>4 DEF Wake, ThreadUnblock, Able
<1>5. CASE TickReturn
  <2>1. \A t \in Thread : Able(t) => Able(t)'
    <3>1. CASE SliceOver
      BY <1>5, <3>1, SwitchAble DEF TickReturn, ThreadYield
    <3>2. CASE ~SliceOver
      BY <1>5, <3>2 DEF TickReturn, Able
    <3> QED BY <3>1, <3>2
  <2> QED BY <1>2, <1>5, <2>1 DEF TickReturn
<1>6. CASE \E t \in Thread, p \in Priority : Create(t, p)
  BY <1>1, <1>2, <1>6 DEF Create, Able
<1>7. CASE \E n \in 0..MaxSleep : TimerSleep(n)
  BY <1>1, <1>2, <1>7 DEF TimerSleep, In, Goto, Able
<1>8. CASE ThreadSleep
  <2>1. \A t \in Thread : t # current /\ Able(t) => Able(t)'
    BY <1>8, SwitchAble DEF ThreadSleep, ThreadBlock
  <2> QED BY <1>1, <1>2, <1>8, <2>1 DEF ThreadSleep, In, Goto
<1>9. CASE \E r \in Sema : SemaDown(r)
  BY <1>9, SpokenDown
<1>10. CASE \E r \in Sema : SemaTryDown(r)
  <2>1. PICK r \in Sema : SemaTryDown(r)
    BY <1>10
  <2>2. value'[s] \in Nat /\ value'[s] <= value[s]
    BY <2>1, <1>1 DEF SemaTryDown, IInv, TypeOK
  <2>3. \A t \in Thread : Able(t) => Able(t)' /\ op'[t] = op[t]
    BY <2>1 DEF SemaTryDown, Able
  <2>4. waiters' = waiters
    BY <2>1 DEF SemaTryDown
  <2> QED BY <2>2, <2>3, <2>4, WokenKept
<1>11. CASE \E r \in Sema : SemaUp(r)
  <2>1. PICK r \in Sema : SemaUp(r)
    BY <1>11
  <2>2. WakeWaiter(r) /\ current' = current /\ op' = op
    BY <2>1 DEF SemaUp
  <2> QED BY <2>2, SpokenUp
<1>12. CASE \E r \in IntrSema : IntrUp(r)
  <2>1. PICK r \in IntrSema : IntrUp(r)
    BY <1>12
  <2>2. WakeWaiter(r) /\ current' = current /\ r \in Sema
    BY <2>1 DEF IntrUp
  <2>3. \A t \in Thread : op[t].name = "down" => op'[t] = op[t]
    BY <1>1, <2>1 DEF IntrUp, LeaveHlt
  <2> QED BY <2>2, <2>3, SpokenUp
<1>13. CASE Yield
  <2>1. \A t \in Thread : Able(t) => Able(t)'
    BY <1>13, SwitchAble DEF Yield, ThreadYield
  <2> QED BY <1>1, <1>2, <1>13, <2>1 DEF Yield, In, Goto
<1>14. CASE SetPriorityHead
  BY <1>1, <1>2, <1>14 DEF SetPriorityHead, In, Goto, Able
<1>15. CASE \E p \in Priority : SetPriorityAssign(p)
  BY <1>1, <1>2, <1>15 DEF SetPriorityAssign, In, Goto, Able
<1>16. CASE SetPriorityCompare
  <2>1. /\ op[current].name # "down" /\ UNCHANGED <<waiters, value, status>>
        /\ \A t \in Thread : t # current => op'[t] = op[t]
    BY <1>1, <1>16 DEF SetPriorityCompare, In, Goto
  <2> QED BY <1>2, <2>1 DEF Able
<1>17. CASE Exit
  <2>1. /\ op[current].name # "down" /\ UNCHANGED <<waiters, value, op>>
    BY <1>17 DEF Exit, In
  <2>2. \A t \in Thread : t # current /\ Able(t) => Able(t)'
    BY <1>17, SwitchAble DEF Exit
  <2> QED BY <1>2, <2>1, <2>2
<1>18. CASE IdleBlock
  <2>1. \A t \in Thread : t # current /\ Able(t) => Able(t)'
    BY <1>18, SwitchAble DEF IdleBlock, ThreadBlock
  <2> QED BY <1>1, <1>2, <1>18, <2>1 DEF IdleBlock, In, Goto
<1>19. CASE UNCHANGED vars
  BY <1>2, <1>19 DEF vars, Able
<1> QED BY <1>3, <1>4, <1>5, <1>6, <1>7, <1>8, <1>9, <1>10, <1>11, <1>12, <1>13,
           <1>14, <1>15, <1>16, <1>17, <1>18, <1>19 DEF Next, Timer, Call

\* While a thread waits on a semaphore, every unit of its value is spoken
\* for by a thread that sema_up has woken and that has not yet looked again.
THEOREM NobodyMissed == Spec => []NoLostWakeup
<1> DEFINE J == \A s \in Sema : Spoken(s)
<1>1. Init => J
  BY DEF Init, Spoken
<1>2. IInv /\ J /\ [Next]_vars => J'
  BY SpokenNext
<1>3. J => NoLostWakeup
  BY DEF NoLostWakeup, Spoken, Woken, Able
<1> HIDE DEF J
<1> QED BY <1>1, <1>2, <1>3, Invariance, PTL DEF Spec
-----------------------------------------------------------------------------
(* Lists in order of priority.                                             *)

Falls(l, pri) == \A i, j \in DOMAIN l : i < j => pri[l[i]] >= pri[l[j]]

(* u stands before t in l.                                                 *)
Before(l, u, t) == \E i, j \in DOMAIN l : i < j /\ l[i] = u /\ l[j] = t

\* A thread that occurs in a list is somewhere in it.
LEMMA Linked ==
  ASSUME NEW l \in Seq(Thread), NEW t
  PROVE  Occurrences(l, t) = 0 <=> \A i \in DOMAIN l : l[i] # t
<1>1. IsFiniteSet({i \in DOMAIN l : l[i] = t})
  BY OccurrencesType
<1>2. Cardinality({i \in DOMAIN l : l[i] = t}) = 0 <=> {i \in DOMAIN l : l[i] = t} = {}
  BY <1>1, FS_EmptySet
<1> QED BY <1>2 DEF Occurrences

\* list_insert_ordered: the new element goes behind all that are not lower and
\* before all that are, and the others keep their places.
LEMMA InsertOrders ==
  ASSUME NEW l \in Seq(Thread), NEW x \in Thread, NEW pri \in [Thread -> Priority],
         Falls(l, pri)
  PROVE  /\ Falls(InsertOrdered(l, x, pri), pri)
         /\ \A t, u : Before(InsertOrdered(l, x, pri), u, t) =>
              Before(l, u, t) \/ t = x \/ (u = x /\ pri[u] > pri[t])
<1> DEFINE lower == {i \in DOMAIN l : pri[l[i]] < pri[x]}
           k == IF lower = {} THEN Len(l) + 1
                ELSE CHOOSE i \in lower : \A j \in lower : i <= j
           m == InsertOrdered(l, x, pri)
<1>0. \A i \in Thread : pri[i] \in Int
  BY ThreadAssumption DEF Priority
<1>1. DOMAIN l = 1..Len(l) /\ Len(l) \in Nat /\ \A i \in 1..Len(l) : l[i] \in Thread
  BY LenProperties, ElementOfSeq
<1>2. /\ k \in 1..Len(l) + 1
      /\ \A i \in 1..k - 1 : pri[l[i]] >= pri[x]
      /\ \A i \in k..Len(l) : pri[l[i]] < pri[x]
  <2>1. CASE lower = {}
    <3>1. k = Len(l) + 1
      BY <2>1
    <3>2. ASSUME NEW i \in 1..Len(l) PROVE pri[l[i]] >= pri[x]
      <4>1. i \in DOMAIN l /\ l[i] \in Thread
        BY <1>1
      <4>2. i \notin lower
        BY <2>1
      <4>3. ~(pri[l[i]] < pri[x])
        BY <4>1, <4>2
      <4> HIDE DEF lower, k, m
      <4> QED BY <1>0, <4>1, <4>3
    <3> HIDE DEF k
    <3> QED BY <1>1, <3>1, <3>2
  <2>2. CASE lower # {}
    <3>1. \E i \in lower : \A j \in lower : i <= j
      <4>1. lower \in SUBSET Nat
        BY <1>1
      <4> HIDE DEF lower
      <4> QED BY <2>2, <4>1, LeastElement
    <3>2. k \in lower /\ \A j \in lower : k <= j
      BY <2>2, <3>1
    <3> HIDE DEF k
    <3>3. k \in 1..Len(l) /\ pri[l[k]] < pri[x]
      BY <1>1, <3>2
    <3>4. \A i \in 1..k - 1 : pri[l[i]] >= pri[x]
      BY <1>0, <1>1, <3>2, <3>3
    <3>5. ASSUME NEW i \in k..Len(l) PROVE pri[l[i]] < pri[x]
      <4>1. i = k \/ pri[l[k]] >= pri[l[i]]
        BY <1>1, <3>3 DEF Falls
      <4> QED BY <1>0, <1>1, <3>3, <4>1
    <3> QED BY <1>1, <3>3, <3>4, <3>5
  <2> QED BY <2>1, <2>2
<1>3. m = InsertAt(l, k, x)
  BY DEF InsertOrdered
<1> HIDE DEF k, m
<1>4. m \in Seq(Thread) /\ Extends(m, l, k) /\ m[k] = x
  BY <1>2, <1>3, InsertAtExtends
<1>5. DOMAIN m = 1..Len(l) + 1
  BY <1>4, LenProperties DEF Extends
\* Where the elements of m come from.
<1> DEFINE old(i) == IF i < k THEN i ELSE i - 1
<1>6. \A i \in DOMAIN m : i # k => old(i) \in DOMAIN l /\ m[i] = l[old(i)]
  <2> TAKE i \in DOMAIN m
  <2>1. CASE i < k
    BY <1>1, <1>2, <1>4, <1>5, <2>1 DEF Extends
  <2>2. CASE i > k
    <3>1. i - 1 \in k..Len(l) /\ (i - 1) + 1 = i
      BY <1>1, <1>2, <1>5, <2>2
    <3>2. m[(i - 1) + 1] = l[i - 1]
      BY <1>4, <3>1 DEF Extends
    <3> QED BY <1>1, <1>2, <2>2, <3>1, <3>2
  <2> QED BY <1>2, <1>5, <2>1, <2>2
<1>7. \A i, j \in DOMAIN m : i < j /\ i # k /\ j # k => old(i) < old(j)
  BY <1>2, <1>5
<1>8. ASSUME NEW i \in DOMAIN m, NEW j \in DOMAIN m, i < j
      PROVE  /\ pri[m[i]] >= pri[m[j]]
             /\ i = k => pri[x] > pri[m[j]]
  <2>1. CASE i # k /\ j # k
    BY <1>6, <1>7, <1>8, <2>1 DEF Falls
  <2>2. CASE i = k
    <3>1. old(j) \in k..Len(l)
      BY <1>1, <1>2, <1>5, <1>8, <2>2
    <3>2. m[j] = l[old(j)]
      BY <1>6, <1>8, <1>5, <1>2, <2>2
    <3> QED BY <1>0, <1>1, <1>2, <1>4, <2>2, <3>1, <3>2
  <2>3. CASE j = k
    <3>1. i \in 1..k - 1 /\ old(i) = i
      BY <1>2, <1>5, <1>8, <2>3
    <3>2. m[i] = l[i]
      BY <1>4, <3>1 DEF Extends
    <3> QED BY <1>2, <1>4, <1>5, <1>8, <2>3, <3>1, <3>2
  <2> QED BY <2>1, <2>2, <2>3
<1>9. Falls(m, pri)
  BY <1>8 DEF Falls
<1>10. ASSUME NEW t, NEW u, Before(m, u, t), t # x
       PROVE  Before(l, u, t) \/ (u = x /\ pri[u] > pri[t])
  <2>1. PICK i \in DOMAIN m, j \in DOMAIN m : i < j /\ m[i] = u /\ m[j] = t
    BY <1>10 DEF Before
  <2>2. j # k
    BY <1>4, <1>10, <2>1
  <2>3. CASE i = k
    BY <1>4, <1>8, <2>1, <2>3
  <2>4. CASE i # k
    <3>1. /\ old(i) \in DOMAIN l /\ l[old(i)] = u
          /\ old(j) \in DOMAIN l /\ l[old(j)] = t
      BY <1>6, <2>1, <2>2, <2>4
    <3>2. old(i) < old(j)
      BY <1>7, <2>1, <2>2, <2>4
    <3> QED BY <3>1, <3>2 DEF Before
  <2> QED BY <2>3, <2>4
<1> QED BY <1>9, <1>10 DEF m

\* What is left when the first is taken off is in order and no higher.
LEMMA TailOrders ==
  ASSUME NEW l \in Seq(Thread), l # <<>>, NEW pri, Falls(l, pri)
  PROVE  /\ Falls(Tail(l), pri)
         /\ \A i \in DOMAIN Tail(l) : pri[Head(l)] >= pri[Tail(l)[i]]
         /\ \A t, u : Before(Tail(l), u, t) => Before(l, u, t)
<1> DEFINE m == Tail(l)
<1>1. m \in Seq(Thread) /\ Extends(l, m, 1) /\ l[1] = Head(l)
  BY TailExtends
<1> HIDE DEF m
<1>2. /\ DOMAIN m = 1..Len(m) /\ Len(m) \in Nat
      /\ DOMAIN l = 1..Len(m) + 1
      /\ \A i \in 1..Len(m) : l[i + 1] = m[i]
  BY <1>1, LenProperties DEF Extends
<1>3. Falls(m, pri)
  <2> SUFFICES ASSUME NEW i \in DOMAIN m, NEW j \in DOMAIN m, i < j
               PROVE  pri[m[i]] >= pri[m[j]]
    BY DEF Falls
  <2>1. i + 1 \in DOMAIN l /\ j + 1 \in DOMAIN l /\ i + 1 < j + 1
    BY <1>2
  <2>2. pri[l[i + 1]] >= pri[l[j + 1]]
    BY <2>1 DEF Falls
  <2> QED BY <1>2, <2>2
<1>4. ASSUME NEW i \in DOMAIN m PROVE pri[Head(l)] >= pri[m[i]]
  <2>1. 1 \in DOMAIN l /\ i + 1 \in DOMAIN l /\ 1 < i + 1
    BY <1>2
  <2>2. pri[l[1]] >= pri[l[i + 1]]
    BY <2>1 DEF Falls
  <2> QED BY <1>1, <1>2, <2>2
<1>5. ASSUME NEW t, NEW u, Before(m, u, t) PROVE Before(l, u, t)
  <2>1. PICK i \in DOMAIN m, j \in DOMAIN m : i < j /\ m[i] = u /\ m[j] = t
    BY <1>5 DEF Before
  <2>2. /\ i + 1 \in DOMAIN l /\ j + 1 \in DOMAIN l /\ i + 1 < j + 1
        /\ l[i + 1] = u /\ l[j + 1] = t
    BY <1>2, <2>1
  <2> QED BY <2>2 DEF Before
<1> QED BY <1>3, <1>4, <1>5 DEF m

-----------------------------------------------------------------------------
(* The lists of the kernel.                                                *)

\* Who is not ready is not in the ready list; who waits is no running thread.
LEMMA WhoIsLinked ==
  ASSUME IInv, NEW t \in Thread
  PROVE  /\ status[t] # "ready" => \A i \in DOMAIN ready_list : ready_list[i] # t
         /\ status[t] = "ready" /\ t # Idle =>
              \E i \in DOMAIN ready_list : ready_list[i] = t
         /\ status[t] # "blocked" => \A s \in Sema :
              \A i \in DOMAIN waiters[s] : waiters[s][i] # t
<1> USE DEF IInv, TypeOK, ListsExclusive
<1>1. Occurrences(ready_list, t) = IF status[t] = "ready" /\ t # Idle THEN 1 ELSE 0
  OBVIOUS
<1>2. status[t] # "blocked" => \A s \in Sema : Occurrences(waiters[s], t) = 0
  OBVIOUS
<1>3. ready_list \in Seq(Thread) /\ \A s \in Sema : waiters[s] \in Seq(Thread)
  OBVIOUS
<1> QED BY <1>1, <1>2, <1>3, Linked

\* The running thread is in no list, and neither is one not yet created.
LEMMA Alone ==
  ASSUME IInv, NEW t \in Thread, status[t] \in {"running", "none"}
  PROVE  /\ \A i \in DOMAIN ready_list : ready_list[i] # t
         /\ \A s \in Sema : \A i \in DOMAIN waiters[s] : waiters[s][i] # t
BY WhoIsLinked

(* What a step must show: the lists in order, the switch to the highest,   *)
(* and nobody passed but by a higher one.                                  *)
Orderly ==
  /\ QueuesOrdered'
  /\ current' # current =>
       \A i \in DOMAIN ready_list' : priority'[ready_list'[i]] <= priority'[current']
  /\ \A t, u \in Thread :
       /\ \E i \in DOMAIN ready_list : ready_list[i] = t
       /\ Before(ready_list', u, t)
       => Before(ready_list, u, t) \/ priority'[u] > priority'[t]

\* A step that does not touch the lists.
LEMMA ListsAlone ==
  ASSUME IInv, QueuesOrdered, UNCHANGED <<current, ready_list, waiters>>,
         NEW t \in Thread, status[t] \in {"running", "none"},
         \A u \in Thread \ {t} : priority'[u] = priority[u]
  PROVE  Orderly
<1>1. /\ \A i \in DOMAIN ready_list : ready_list[i] \in Thread \ {t}
      /\ \A s \in Sema : \A i \in DOMAIN waiters[s] : waiters[s][i] \in Thread \ {t}
  <2>1. /\ ready_list \in Seq(Thread) /\ \A s \in Sema : waiters[s] \in Seq(Thread)
    BY DEF IInv, TypeOK
  <2>2. /\ \A i \in DOMAIN ready_list : ready_list[i] \in Thread
        /\ \A s \in Sema : \A i \in DOMAIN waiters[s] : waiters[s][i] \in Thread
    BY <2>1, ElementOfSeq, LenProperties
  <2> QED BY <2>2, Alone
<1>2. QueuesOrdered'
  BY <1>1 DEF QueuesOrdered, Descending
<1> QED BY <1>2 DEF Orderly

\* A thread that is in no list becomes ready; at most it leaves the head of a
\* semaphore's waiters for that.
LEMMA Readied ==
  ASSUME IInv, QueuesOrdered, current' = current, NEW t \in Thread,
         status[t] # "ready", priority' \in [Thread -> Priority],
         \A u \in Thread : u # t \/ status[t] # "none" => priority'[u] = priority[u],
         ready_list' = InsertOrdered(ready_list, t, priority'),
         \A s \in Sema : \/ waiters'[s] = waiters[s]
                         \/ waiters[s] # <<>> /\ waiters'[s] = Tail(waiters[s])
  PROVE  Orderly
<1>1. /\ ready_list \in Seq(Thread) /\ \A s \in Sema : waiters[s] \in Seq(Thread)
      /\ \A i \in DOMAIN ready_list : ready_list[i] \in Thread
      /\ \A s \in Sema : \A i \in DOMAIN waiters[s] : waiters[s][i] \in Thread
  <2>1. /\ ready_list \in Seq(Thread) /\ \A s \in Sema : waiters[s] \in Seq(Thread)
    BY DEF IInv, TypeOK
  <2> QED BY <2>1, ElementOfSeq, LenProperties
<1>2. \A i \in DOMAIN ready_list : ready_list[i] # t
  BY WhoIsLinked
<1>3. Falls(ready_list, priority') /\ \A s \in Sema : Falls(waiters[s], priority')
  <2>1. /\ \A i \in DOMAIN ready_list :
             priority'[ready_list[i]] = priority[ready_list[i]]
        /\ \A s \in Sema : \A i \in DOMAIN waiters[s] :
             priority'[waiters[s][i]] = priority[waiters[s][i]]
    BY <1>1, <1>2, WhoIsLinked
  <2> QED BY <2>1 DEF QueuesOrdered, Descending, Falls
<1>4. /\ Falls(ready_list', priority')
      /\ \A v, u : Before(ready_list', u, v) =>
           Before(ready_list, u, v) \/ v = t \/ (u = t /\ priority'[u] > priority'[v])
  BY <1>1, <1>3, InsertOrders
<1>5. \A s \in Sema : Falls(waiters'[s], priority')
  <2> TAKE s \in Sema
  <2> DEFINE w == waiters[s]
  <2>1. w \in Seq(Thread) /\ Falls(w, priority')
    BY <1>1, <1>3
  <2>2. waiters'[s] = w \/ (w # <<>> /\ waiters'[s] = Tail(w))
    OBVIOUS
  <2> HIDE DEF w
  <2> QED BY <2>1, <2>2, TailOrders
<1>6. QueuesOrdered'
  BY <1>4, <1>5 DEF QueuesOrdered, Descending, Falls
<1> QED BY <1>2, <1>4, <1>6 DEF Orderly

\* A thread switch from the ready list rl, in order by the new priorities.
LEMMA Switched ==
  ASSUME NEW rl \in Seq(Thread), NEW st, Falls(rl, priority'), Schedule(st, rl),
         \A s \in Sema : Falls(waiters'[s], priority'),
         \A t, u \in Thread :
           /\ \E i \in DOMAIN ready_list : ready_list[i] = t
           /\ Before(rl, u, t)
           => Before(ready_list, u, t) \/ priority'[u] > priority'[t]
  PROVE  Orderly
<1>1. CASE rl = <<>>
  <2>1. ready_list' = <<>>
    BY <1>1 DEF Schedule
  <2> QED BY <2>1 DEF Orderly, QueuesOrdered, Descending, Falls, Before
<1>2. CASE rl # <<>>
  <2>1. ready_list' = Tail(rl) /\ current' = Head(rl)
    BY <1>2 DEF Schedule
  <2>2. /\ Falls(ready_list', priority')
        /\ \A i \in DOMAIN ready_list' : priority'[current'] >= priority'[ready_list'[i]]
        /\ \A t, u : Before(ready_list', u, t) => Before(rl, u, t)
    BY <1>2, <2>1, TailOrders
  <2>3. QueuesOrdered'
    BY <2>2 DEF QueuesOrdered, Descending, Falls
  <2> QED BY <2>2, <2>3 DEF Orderly
<1> QED BY <1>1, <1>2

-----------------------------------------------------------------------------
(* The actions.                                                            *)

\* Aging raises all that are ready alike, up to PRI_MAX, and nobody else.
LEMMA AgedOrders ==
  ASSUME IInv, QueuesOrdered
  PROVE  Falls(ready_list, Aged) /\ \A s \in Sema : Falls(waiters[s], Aged)
<1>1. /\ \A i \in DOMAIN ready_list : ready_list[i] \in Thread
      /\ \A s \in Sema : \A i \in DOMAIN waiters[s] : waiters[s][i] \in Thread
  <2>1. /\ ready_list \in Seq(Thread) /\ \A s \in Sema : waiters[s] \in Seq(Thread)
    BY DEF IInv, TypeOK
  <2> QED BY <2>1, ElementOfSeq, LenProperties
<1>2. \A i \in DOMAIN ready_list : ready_list[i] \in Range(ready_list)
  BY DEF Range
<1>3. \A t \in Thread : priority[t] \in 0..PriMax
  BY DEF IInv, TypeOK, Priority
<1>4. \A i \in DOMAIN ready_list :
        Aged[ready_list[i]] = IF Aging /\ priority[ready_list[i]] < PriMax
                              THEN priority[ready_list[i]] + 1
                              ELSE priority[ready_list[i]]
  BY <1>1, <1>2 DEF Aged
<1>5. Falls(ready_list, Aged)
  BY <1>1, <1>3, <1>4, ThreadAssumption DEF QueuesOrdered, Descending, Falls
<1>6. ASSUME NEW s \in Sema, NEW i \in DOMAIN waiters[s]
      PROVE  Aged[waiters[s][i]] = priority[waiters[s][i]]
  <2>1. waiters[s][i] \in Thread /\ status[waiters[s][i]] = "blocked"
    BY <1>1, WhoIsLinked
  <2>2. \A j \in DOMAIN ready_list : ready_list[j] # waiters[s][i]
    BY <2>1, WhoIsLinked
  <2>3. waiters[s][i] \notin Range(ready_list)
    BY <2>2 DEF Range
  <2> QED BY <2>1, <2>3 DEF Aged
<1>7. \A s \in Sema : Falls(waiters[s], Aged)
  BY <1>6 DEF QueuesOrdered, Descending, Falls
<1> QED BY <1>5, <1>7

\* thread_yield queues the thread that gives way behind its equals.
LEMMA YieldOrders ==
  ASSUME IInv, NEW pri \in [Thread -> Priority], priority' = pri,
         Falls(ready_list, pri), \A s \in Sema : Falls(waiters[s], pri),
         waiters' = waiters, ThreadYield(pri)
  PROVE  Orderly
<1> DEFINE rl == IF current = Idle THEN ready_list
                 ELSE InsertOrdered(ready_list, current, pri)
           st == [status EXCEPT ![current] = "ready"]
<1>1. ready_list \in Seq(Thread) /\ current \in Thread /\ status[current] = "running"
  BY DEF IInv, TypeOK, ListsExclusive
<1>2. \A i \in DOMAIN ready_list : ready_list[i] # current
  BY <1>1, WhoIsLinked
<1>3. Schedule(st, rl)
  BY DEF ThreadYield
<1> HIDE DEF st
<1>4. /\ rl \in Seq(Thread) /\ Falls(rl, pri)
      /\ \A t, u : Before(rl, u, t) =>
           \/ Before(ready_list, u, t) \/ t = current \/ pri[u] > pri[t]
  <2>1. CASE current = Idle
    BY <1>1, <2>1
  <2>2. CASE current # Idle
    BY <1>1, <2>2, InsertOrders, OccursInsert
  <2> QED BY <2>1, <2>2
<1> HIDE DEF rl
<1>5. \A t, u \in Thread :
        /\ \E i \in DOMAIN ready_list : ready_list[i] = t
        /\ Before(rl, u, t)
        => Before(ready_list, u, t) \/ priority'[u] > priority'[t]
  BY <1>2, <1>4
<1> QED BY <1>3, <1>4, <1>5, Switched

\* A thread that blocks or exits leaves the ready list as it is.
LEMMA StopOrders ==
  ASSUME IInv, QueuesOrdered, UNCHANGED priority, NEW st, Schedule(st, ready_list),
         \A s \in Sema : Falls(waiters'[s], priority)
  PROVE  Orderly
<1>1. ready_list \in Seq(Thread) /\ Falls(ready_list, priority')
  BY DEF IInv, TypeOK, QueuesOrdered, Descending, Falls
<1>2. \A s \in Sema : Falls(waiters'[s], priority')
  OBVIOUS
<1> QED BY <1>1, <1>2, Switched

\* sema_up, by a thread or by an interrupt handler.
LEMMA UpOrders ==
  ASSUME IInv, QueuesOrdered, NEW s \in Sema, WakeWaiter(s),
         UNCHANGED <<priority, current>>
  PROVE  Orderly
<1>0. /\ current \in Thread /\ status[current] = "running"
      /\ waiters \in [Sema -> Seq(Thread)] /\ waiters[s] \in Seq(Thread)
      /\ priority \in [Thread -> Priority]
  BY DEF IInv, TypeOK, ListsExclusive
<1>1. CASE waiters[s] = <<>>
  <2>1. UNCHANGED <<waiters, ready_list>>
    BY <1>1 DEF WakeWaiter
  <2> QED BY <1>0, <2>1, ListsAlone
<1>2. CASE waiters[s] # <<>>
  <2> DEFINE t == Head(waiters[s])
  <2>1. /\ ready_list' = InsertOrdered(ready_list, t, priority)
        /\ waiters' = [waiters EXCEPT ![s] = Tail(@)]
    BY <1>2 DEF WakeWaiter, ThreadUnblock
  <2>2. t \in Thread /\ Occurrences(waiters[s], t) >= 1
    BY <1>0, <1>2, OccursTail
  <2> HIDE DEF t
  <2>3. status[t] = "blocked"
    <3>1. Occurrences(waiters[s], t) =
            IF status[t] = "blocked" /\ op[t] = [name |-> "down", sema |-> s]
            THEN 1 ELSE 0
      BY <2>2 DEF IInv, ListsExclusive
    <3> QED BY <2>2, <3>1
  <2>4. \A r \in Sema : \/ waiters'[r] = waiters[r]
                        \/ waiters[r] # <<>> /\ waiters'[r] = Tail(waiters[r])
    <3>1. waiters'[s] = Tail(waiters[s])
      BY <1>0, <2>1
    <3>2. \A r \in Sema \ {s} : waiters'[r] = waiters[r]
      BY <1>0, <2>1
    <3> QED BY <1>2, <3>1, <3>2
  <2> QED BY <1>0, <2>1, <2>2, <2>3, <2>4, Readied
<1> QED BY <1>1, <1>2

\* A sleeper whose time has come is queued by its priority.
LEMMA WakeOrders == ASSUME IInv, QueuesOrdered, Wake PROVE Orderly
<1>1. PICK k \in DOMAIN blocked_list : ThreadUnblock(blocked_list[k])
  BY DEF Wake, Expired
<1> DEFINE t == blocked_list[k]
<1>2. t \in Thread /\ Occurrences(blocked_list, t) >= 1
  BY OccursRemoveAt DEF IInv, TypeOK
<1>3. /\ ready_list' = InsertOrdered(ready_list, t, priority)
      /\ UNCHANGED <<priority, current, waiters>>
  BY <1>1 DEF Wake, ThreadUnblock
<1> HIDE DEF t
<1>4. status[t] = "blocked" /\ priority \in [Thread -> Priority]
  BY <1>2 DEF IInv, TypeOK, ListsExclusive
<1> QED BY <1>2, <1>3, <1>4, Readied

\* A tick ages the ready list and at the end of a slice lets the next one run.
LEMMA TickReturnOrders == ASSUME IInv, IInv', QueuesOrdered, TickReturn PROVE Orderly
<1>1. priority' = Aged /\ waiters' = waiters /\ Aged \in [Thread -> Priority]
  BY DEF TickReturn, IInv, TypeOK
<1>2. Falls(ready_list, Aged) /\ \A s \in Sema : Falls(waiters[s], Aged)
  BY AgedOrders
<1>3. CASE SliceOver
  <2>1. ThreadYield(Aged)
    BY <1>3 DEF TickReturn
  <2> QED BY <1>1, <1>2, <2>1, YieldOrders
<1>4. CASE ~SliceOver
  <2>1. UNCHANGED <<current, ready_list>>
    BY <1>4 DEF TickReturn
  <2>2. QueuesOrdered'
    BY <1>1, <1>2, <2>1 DEF QueuesOrdered, Descending, Falls
  <2> QED BY <2>1, <2>2 DEF Orderly
<1> QED BY <1>3, <1>4

\* A new thread is queued with the priority it is given.
LEMMA CreateOrders ==
  ASSUME IInv, IInv', QueuesOrdered, NEW t \in Thread, NEW p \in Priority, Create(t, p)
  PROVE  Orderly
<1>1. /\ status[t] = "none" /\ priority' = [priority EXCEPT ![t] = p]
      /\ ready_list' = InsertOrdered(ready_list, t, priority')
      /\ UNCHANGED <<current, waiters>>
  BY DEF Create
<1>2. priority' \in [Thread -> Priority] /\ priority \in [Thread -> Priority]
  BY DEF IInv, TypeOK
<1>3. \A u \in Thread : u # t => priority'[u] = priority[u]
  BY <1>1, <1>2
<1> QED BY <1>1, <1>2, <1>3, Readied

\* A waiter is queued by its priority, and the next thread runs.
LEMMA SemaDownOrders ==
  ASSUME IInv, QueuesOrdered, NEW s \in Sema, SemaDown(s) PROVE Orderly
<1>0. /\ current \in Thread /\ status[current] = "running"
      /\ waiters \in [Sema -> Seq(Thread)] /\ priority \in [Thread -> Priority]
  BY DEF IInv, TypeOK, ListsExclusive
<1>1. CASE value[s] = 0
  <2>1. /\ waiters' = [waiters EXCEPT ![s] = InsertOrdered(@, current, priority)]
        /\ Schedule([status EXCEPT ![current] = "blocked"], ready_list)
        /\ UNCHANGED priority
    BY <1>1 DEF SemaDown, ThreadBlock
  <2>2. ASSUME NEW r \in Sema PROVE Falls(waiters'[r], priority)
    <3>1. Falls(waiters[r], priority) /\ waiters[r] \in Seq(Thread)
      BY <1>0 DEF QueuesOrdered, Descending, Falls
    <3>2. CASE r = s
      <4>1. waiters'[r] = InsertOrdered(waiters[r], current, priority)
        BY <1>0, <2>1, <3>2
      <4> QED BY <1>0, <3>1, <4>1, InsertOrders
    <3>3. CASE r # s
      BY <1>0, <2>1, <3>1, <3>3
    <3> QED BY <3>2, <3>3
  <2> QED BY <2>1, <2>2, StopOrders
<1>2. CASE value[s] # 0
  <2>1. UNCHANGED <<priority, current, ready_list, waiters>>
    BY <1>2 DEF SemaDown
  <2> QED BY <1>0, <2>1, ListsAlone
<1> QED BY <1>1, <1>2

\* Every step is orderly.
LEMMA StepOrders ==
  ASSUME IInv, IInv', QueuesOrdered, [Next]_vars
  PROVE  Orderly
<1>0. /\ current \in Thread /\ status[current] = "running"
      /\ priority \in [Thread -> Priority]
  BY DEF IInv, TypeOK, ListsExclusive
<1>w. \A s \in Sema : Falls(waiters[s], priority)
  BY DEF QueuesOrdered, Descending, Falls
<1>1. CASE UNCHANGED <<priority, current, ready_list, waiters>>
  BY <1>0, <1>1, ListsAlone
<1>2. ASSUME NEW p \in Priority, SetPriorityAssign(p) PROVE Orderly
  <2>1. /\ UNCHANGED <<current, ready_list, waiters>>
        /\ \A u \in Thread \ {current} : priority'[u] = priority[u]
    BY <1>0, <1>2 DEF SetPriorityAssign
  <2> QED BY <1>0, <2>1, ListsAlone
<1>3. CASE Tick \/ SetPriorityHead \/ SetPriorityCompare \/ UNCHANGED vars
  <2>1. UNCHANGED <<priority, current, ready_list, waiters>>
    BY <1>3 DEF Tick, SetPriorityHead, SetPriorityCompare, vars
  <2> QED BY <1>1, <2>1
<1>4. ASSUME NEW n \in 0..MaxSleep, TimerSleep(n) PROVE Orderly
  BY <1>1, <1>4 DEF TimerSleep
<1>5. ASSUME NEW s \in Sema, SemaDown(s) \/ SemaTryDown(s) \/ SemaUp(s) PROVE Orderly
  <2>1. CASE SemaDown(s)
    BY <2>1, SemaDownOrders
  <2>2. CASE SemaTryDown(s)
    BY <1>1, <2>2 DEF SemaTryDown
  <2>3. CASE SemaUp(s)
    BY <2>3, UpOrders DEF SemaUp
  <2> QED BY <1>5, <2>1, <2>2, <2>3
<1>6. ASSUME NEW s \in IntrSema, IntrUp(s) PROVE Orderly
  BY <1>6, UpOrders, ThreadAssumption DEF IntrUp
<1>7. CASE ThreadSleep \/ Exit \/ IdleBlock
  <2>1. UNCHANGED <<priority, waiters>> /\ \E st : Schedule(st, ready_list)
    BY <1>7 DEF ThreadSleep, Exit, IdleBlock, ThreadBlock
  <2> QED BY <1>w, <2>1, StopOrders
<1>8. CASE Yield
  <2>1. UNCHANGED <<priority, waiters>> /\ ThreadYield(priority)
    BY <1>8 DEF Yield
  <2>2. Falls(ready_list, priority)
    BY DEF QueuesOrdered, Descending, Falls
  <2> QED BY <1>0, <1>w, <2>1, <2>2, YieldOrders
<1>9. ASSUME NEW t \in Thread, NEW p \in Priority, Create(t, p) PROVE Orderly
  BY <1>9, CreateOrders
<1>10. CASE Wake
  BY <1>10, WakeOrders
<1>11. CASE TickReturn
  BY <1>11, TickReturnOrders
<1> QED BY <1>2, <1>3, <1>4, <1>5, <1>6, <1>7, <1>8, <1>9, <1>10, <1>11
        DEF Next, Timer, Call

\* The order is kept, once the lists are what IInv says.
LEMMA OrderStep ==
  /\ Init => QueuesOrdered
  /\ IInv /\ IInv' /\ QueuesOrdered /\ [Next]_vars => QueuesOrdered'
<1>1. Init => QueuesOrdered
  BY DEF Init, QueuesOrdered, Descending
<1>2. IInv /\ IInv' /\ QueuesOrdered /\ [Next]_vars => QueuesOrdered'
  BY StepOrders DEF Orderly
<1> QED BY <1>1, <1>2

\* The ready list and the waiters of every semaphore are in order of priority,
\* whatever aging and thread_set_priority do meanwhile.
THEOREM Ordered == Spec => []QueuesOrdered
BY InitHolds, NextKeeps, OrderStep, PTL DEF Spec

\* schedule() gives the processor to a thread of the highest priority of all
\* that are ready.
THEOREM HighestRuns == Spec => PriorityScheduling
<1>1. ASSUME IInv, IInv', QueuesOrdered, [Next]_vars, current' # current,
             NEW t \in Thread \ {Idle}, status'[t] = "ready"
      PROVE  priority'[t] <= priority'[current']
  <2>1. Orderly
    BY <1>1, StepOrders
  <2>2. Occurrences(ready_list, t)' = 1 /\ ready_list' \in Seq(Thread)
    BY <1>1 DEF IInv, TypeOK, ListsExclusive
  <2>3. Occurrences(ready_list', t) = 1
    BY <2>2 DEF Occurrences
  <2>4. \E i \in DOMAIN ready_list' : ready_list'[i] = t
    BY <2>2, <2>3, Linked
  <2> QED BY <1>1, <2>1, <2>4 DEF Orderly
<1>2. IInv /\ IInv' /\ QueuesOrdered /\ [Next]_vars =>
        [current' # current => \A t \in Thread \ {Idle} :
           status'[t] = "ready" => priority'[t] <= priority'[current']]_vars
  BY <1>1
<1> QED BY <1>2, InitHolds, NextKeeps, OrderStep, PTL DEF Spec, PriorityScheduling

\* list_insert_ordered lets nobody pass an equal.
THEOREM NobodyOvertaken == Spec => NoOvertaking
<1>1. ASSUME IInv, IInv', QueuesOrdered, [Next]_vars,
             NEW t \in Thread, NEW u \in Thread, t \in Range(ready_list),
             Ahead(u, t)', ~Ahead(u, t)
      PROVE  priority'[u] > priority'[t]
  <2>1. Orderly
    BY <1>1, StepOrders
  <2>2. \E i \in DOMAIN ready_list : ready_list[i] = t
    BY <1>1 DEF Range
  <2>3. Before(ready_list', u, t) /\ ~Before(ready_list, u, t)
    BY <1>1 DEF Ahead, Before
  <2> QED BY <2>1, <2>2, <2>3 DEF Orderly
<1>2. IInv /\ IInv' /\ QueuesOrdered /\ [Next]_vars =>
        [\A t, u \in Thread :
           /\ t # u /\ t \in Range(ready_list) /\ t \in Range(ready_list')
           /\ Ahead(u, t)' /\ ~Ahead(u, t)
           => priority'[u] > priority'[t]]_vars
  BY <1>1
<1> QED BY <1>2, InitHolds, NextKeeps, OrderStep, PTL DEF Spec, NoOvertaking

-----------------------------------------------------------------------------
(* timer_sleep.                                                            *)

\* What a step does to those who sleep.
LEMMA SleepStep ==
  ASSUME IInv, [Next]_vars
  PROVE  /\ \A t \in Range(blocked_list) \ Range(blocked_list') : due[t] = 0
         /\ handler = "wake" /\ handler' = "none" =>
              \A t \in Range(blocked_list') : due[t] > 0
<1> DEFINE Left == \A t \in Range(blocked_list) \ Range(blocked_list') : due[t] = 0
           Ends == handler = "wake" /\ handler' = "none" =>
                     \A t \in Range(blocked_list') : due[t] > 0
<1>0. /\ blocked_list \in Seq(Thread) /\ due \in [Thread -> 0..MaxSleep]
      /\ current \in Thread /\ MaxSleep \in Nat
      /\ DOMAIN blocked_list = 1..Len(blocked_list) /\ Len(blocked_list) \in Nat
      /\ \A i \in DOMAIN blocked_list : blocked_list[i] \in Thread
  <2>1. blocked_list \in Seq(Thread)
    BY DEF IInv, TypeOK
  <2> QED BY <2>1, LenProperties, ElementOfSeq, ThreadAssumption DEF IInv, TypeOK
<1>1. CASE UNCHANGED <<blocked_list, handler>>
  BY <1>1
<1>2. CASE Tick
  BY <1>2 DEF Tick, IntrOn
<1>3. CASE Wake
  <2>1. PICK k \in DOMAIN blocked_list :
          /\ due[blocked_list[k]] <= 0
          /\ blocked_list' = RemoveAt(blocked_list, k)
          /\ handler' = handler
    BY <1>3 DEF Wake, Expired
  <2>2. due[blocked_list[k]] = 0
    BY <1>0, <2>1
  <2>3. Extends(blocked_list, blocked_list', k) /\ blocked_list' \in Seq(Thread)
    BY <1>0, <2>1, RemoveAtExtends
  <2>4. ASSUME NEW i \in DOMAIN blocked_list, i # k
        PROVE  \E j \in DOMAIN blocked_list' : blocked_list'[j] = blocked_list[i]
    <3>0. /\ Len(blocked_list') \in Nat /\ DOMAIN blocked_list' = 1..Len(blocked_list')
          /\ Len(blocked_list) = Len(blocked_list') + 1
      BY <2>3, LenProperties DEF Extends
    <3>1. CASE i < k
      <4>1. k \in 1..Len(blocked_list) /\ i \in 1..k - 1
        BY <1>0, <2>1, <2>4, <3>1
      <4>2. blocked_list[i] = blocked_list'[i] /\ i \in DOMAIN blocked_list'
        BY <2>3, <3>0, <4>1 DEF Extends
      <4> QED BY <4>2
    <3>2. CASE i > k
      <4>1. /\ i - 1 \in k..Len(blocked_list') /\ (i - 1) + 1 = i
            /\ i - 1 \in DOMAIN blocked_list'
        BY <1>0, <3>0, <3>2
      <4>2. blocked_list[(i - 1) + 1] = blocked_list'[i - 1]
        BY <2>3, <4>1 DEF Extends
      <4> QED BY <4>1, <4>2
    <3> QED BY <1>0, <2>4, <3>1, <3>2
  <2>5. Left
    BY <2>2, <2>4 DEF Range
  <2> QED BY <2>1, <2>5
<1>4. CASE TickReturn
  <2>1. blocked_list' = blocked_list /\ Expired = {}
    BY <1>4 DEF TickReturn
  <2>2. ASSUME NEW i \in DOMAIN blocked_list PROVE due[blocked_list[i]] > 0
    BY <1>0, <2>1 DEF Expired
  <2> QED BY <2>1, <2>2 DEF Range
<1>5. CASE ThreadSleep
  <2>1. blocked_list' = Append(blocked_list, current) /\ handler = "none"
    BY <1>5 DEF ThreadSleep, In
  <2>2. ASSUME NEW i \in DOMAIN blocked_list
        PROVE  i \in DOMAIN blocked_list' /\ blocked_list'[i] = blocked_list[i]
    BY <1>0, <2>1, AppendProperties, LenProperties
  <2>3. Left
    BY <2>2 DEF Range
  <2> QED BY <2>1, <2>3
<1>6. CASE Call /\ ~ThreadSleep
  BY <1>1, <1>6
     DEF Call, Create, TimerSleep, SemaDown, SemaTryDown, SemaUp, Yield,
         SetPriorityHead, SetPriorityAssign, SetPriorityCompare, Exit
<1>7. CASE IdleBlock \/ (\E s \in IntrSema : IntrUp(s)) \/ UNCHANGED vars
  BY <1>1, <1>7 DEF IdleBlock, IntrUp, vars
<1> QED BY <1>2, <1>3, <1>4, <1>5, <1>6, <1>7 DEF Next, Timer

\* A sleeper wakes at its tick, neither earlier nor later.
THEOREM Punctual == Spec => SleepExact
<1>1. IInv /\ [Next]_vars =>
        [/\ \A t \in Range(blocked_list) \ Range(blocked_list') : due[t] = 0
         /\ handler = "wake" /\ handler' = "none" =>
              \A t \in Range(blocked_list') : due[t] > 0]_vars
  BY SleepStep
<1> QED BY <1>1, InitHolds, NextKeeps, PTL DEF Spec, SleepExact
=============================================================================
