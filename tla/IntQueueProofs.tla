---------------------------- MODULE IntQueueProofs ----------------------------
(* Theorems about IntQueue, for any threads, bytes and size of the ring.   *)
EXTENDS IntQueue, SequenceTheorems, TLAPS

(* Only the keyboard's readers wait for a byte, only those who print wait  *)
(* for room: the other pointer is never set.                               *)
OneDirection ==
  /\ use = "keyboard" => not_full = None
  /\ use = "serial" => not_empty = None

IInv == TypeOK /\ OneDirection /\ SleepersJustified

LEMMA NextInRing ==
  ASSUME NEW i \in 0..Size - 1
  PROVE  next(i) \in 0..Size - 1
BY QueueAssumption DEF next

LEMMA InitStep == ASSUME Init PROVE IInv
<1> USE QueueAssumption DEF Init
<1>1. TypeOK
  <2>1. 0 \in 0..Size - 1
    OBVIOUS
  <2>2. buf \in [0..Size - 1 -> Byte] /\ out \in Byte
    BY <2>1
  <2> QED BY <2>1, <2>2 DEF TypeOK
<1>2. OneDirection /\ SleepersJustified
  BY DEF OneDirection, SleepersJustified
<1> QED BY <1>1, <1>2 DEF IInv

\* A byte is put while the queue is not full, by the thread t or, when t is
\* None, by a handler; nobody but t is left holding a lock it is not to hold.
LEMMA AddByteStep ==
  ASSUME IInv, NEW t \in Thread \cup {None}, AddByte(t),
         ~intq_full, use = "serial" => t # None,
         t # None => use = "serial" /\ pc[t] \in {"out", "woken"},
         \/ lock' = lock
         \/ lock' = None /\ lock = t /\ pc[t] = "woken"
  PROVE  IInv'
<1> USE QueueAssumption DEF IInv, TypeOK, OneDirection, AddByte
<1>1. TypeOK'
  <2>1. head' \in 0..Size - 1
    BY NextInRing
  <2>2. buf' \in [0..Size - 1 -> Byte]
    OBVIOUS
  <2>3. pc' \in [Thread -> {"out", "locking", "waiting", "woken"}]
    BY DEF Wakes
  <2> QED BY <2>1, <2>2, <2>3
<1>2. not_full = None
  BY DEF SleepersJustified
<1>3. OneDirection'
  BY <1>2
<1>4. \A u \in Thread : pc'[u] = CASE u = t         -> "out"
                                   [] u = not_empty -> "woken"
                                   [] OTHER         -> pc[u]
  BY DEF Wakes
<1>5. SleepersJustified'
  BY <1>2, <1>4 DEF SleepersJustified, intq_empty, intq_full
<1> QED BY <1>1, <1>3, <1>5

\* The same for a byte that is got while the queue is not empty.
LEMMA RemoveByteStep ==
  ASSUME IInv, NEW t \in Thread \cup {None}, RemoveByte(t),
         ~intq_empty,
         t # None => use = "keyboard" /\ pc[t] \in {"out", "woken"},
         \/ lock' = lock
         \/ lock' = None /\ lock = t /\ pc[t] = "woken"
  PROVE  IInv'
<1> USE QueueAssumption DEF IInv, TypeOK, OneDirection, RemoveByte
<1>1. TypeOK'
  <2>1. tail' \in 0..Size - 1
    BY NextInRing
  <2>2. out' \in Byte
    OBVIOUS
  <2>3. pc' \in [Thread -> {"out", "locking", "waiting", "woken"}]
    BY DEF Wakes
  <2> QED BY <2>1, <2>2, <2>3
<1>2. not_empty = None
  BY DEF SleepersJustified
<1>3. OneDirection'
  BY <1>2
<1>4. \A u \in Thread : pc'[u] = CASE u = t        -> "out"
                                   [] u = not_full -> "woken"
                                   [] OTHER        -> pc[u]
  BY DEF Wakes
<1>5. SleepersJustified'
  BY <1>2, <1>4 DEF SleepersJustified, intq_empty, intq_full
<1> QED BY <1>1, <1>3, <1>5

\* wait is reached by a thread that finds the lock free or has it.
LEMMA WaitStep ==
  ASSUME IInv, NEW t \in Thread, Wait(t),
         pc[t] \in {"out", "locking", "woken"},
         lock = None \/ (lock = t /\ pc[t] = "woken")
  PROVE  IInv'
<1> USE QueueAssumption DEF IInv, TypeOK, OneDirection, Wait
<1>1. /\ not_empty = None /\ not_full = None
      /\ \A u \in Thread : u # t => pc[u] \notin {"waiting", "woken"}
  BY DEF SleepersJustified
<1>2. CASE MustWait
  <2>1. TypeOK' /\ OneDirection'
    BY <1>1, <1>2 DEF MustWait
  <2>2. SleepersJustified'
    BY <1>1, <1>2 DEF SleepersJustified, MustWait, intq_empty, intq_full
  <2> QED BY <2>1, <2>2
<1>3. CASE ~MustWait
  <2>1. TypeOK' /\ OneDirection'
    BY <1>3
  <2>2. SleepersJustified'
    BY <1>1, <1>3 DEF SleepersJustified, intq_empty, intq_full
  <2> QED BY <2>1, <2>2
<1> QED BY <1>2, <1>3

\* One stretch of the loop, by a caller or by a thread that was woken.
LEMMA LoopStep ==
  ASSUME IInv, NEW t \in Thread, NEW l \in Thread \cup {None}, Loop(t, l),
         \/ pc[t] = "out" /\ l = lock
         \/ pc[t] = "woken" /\ lock = t /\ l = None
  PROVE  IInv'
<1> USE QueueAssumption
<1>1. CASE ~MustWait /\ lock' = l /\ use = "keyboard" /\ RemoveByte(t)
  BY <1>1, RemoveByteStep DEF MustWait
<1>2. CASE ~MustWait /\ lock' = l /\ use # "keyboard" /\ AddByte(t)
  BY <1>2, AddByteStep DEF MustWait, IInv, TypeOK
<1>3. CASE MustWait /\ l = None /\ Wait(t)
  BY <1>3, WaitStep
<1>4. CASE /\ MustWait /\ l # None /\ lock' = l
           /\ pc' = [pc EXCEPT ![t] = "locking"]
           /\ UNCHANGED <<use, buf, head, tail, not_empty, not_full, out, panic>>
  BY <1>4 DEF IInv, TypeOK, OneDirection, SleepersJustified, intq_empty, intq_full
<1> QED BY <1>1, <1>2, <1>3, <1>4 DEF Loop

LEMMA InvariantStep == IInv /\ [Next]_vars => IInv'
<1> SUFFICES ASSUME IInv, [Next]_vars PROVE IInv'
  OBVIOUS
<1> USE QueueAssumption
<1>1. ASSUME NEW t \in Thread, Call(t) PROVE IInv'
  <2>1. lock \in Thread \cup {None}
    BY DEF IInv, TypeOK
  <2> QED BY <1>1, <2>1, LoopStep DEF Call, At
<1>2. ASSUME NEW t \in Thread, Locked(t) PROVE IInv'
  BY <1>2, WaitStep DEF Locked, At
<1>3. ASSUME NEW t \in Thread, Woken(t) PROVE IInv'
  BY <1>3, LoopStep DEF Woken, At
<1>4. CASE IntrPut
  BY <1>4, AddByteStep DEF IntrPut
<1>5. CASE IntrGet
  BY <1>5, RemoveByteStep DEF IntrGet
<1>6. CASE UNCHANGED vars
  BY <1>6 DEF vars, IInv, TypeOK, OneDirection, SleepersJustified, intq_empty,
              intq_full
<1> QED BY <1>1, <1>2, <1>3, <1>4, <1>5, <1>6 DEF Next

\* The ring's indices stay inside the buffer and the pointers to waiters name
\* threads or nothing, whatever the size of the ring.
THEOREM TypeCorrect == Spec => []TypeOK
<1>1. IInv => TypeOK
  BY DEF IInv
<1> QED BY <1>1, InitStep, InvariantStep, PTL DEF Spec

\* intq_getc and intq_putc never leave a thread asleep once its event has come,
\* for any number of threads.
THEOREM NobodyOversleeps == Spec => []SleepersJustified
<1>1. IInv => SleepersJustified
  BY DEF IInv
<1> QED BY <1>1, InitStep, InvariantStep, PTL DEF Spec

-----------------------------------------------------------------------------
(* The ring is the queue of ByteFifo.                                      *)

\* Once around the ring.
LEMMA Around ==
  ASSUME NEW x \in 0..2 * Size - 1
  PROVE  x % Size = IF x < Size THEN x ELSE x - Size
BY QueueAssumption

(* The slot of the i-th oldest byte, and the bytes in the ring in order.    *)
Slot(i) == (tail + i - 1) % Size
Held == [i \in 1..Count |-> buf[Slot(i)]]

\* The bytes between tail and head, each in a slot of its own.
LEMMA RingShape ==
  ASSUME TypeOK
  PROVE  /\ Count \in 0..Size - 1
         /\ Count = 0 <=> intq_empty
         /\ Count = Size - 1 <=> intq_full
         /\ Held \in Seq(Byte) /\ Len(Held) = Count
         /\ \A i \in 1..Count : Slot(i) \in 0..Size - 1 /\ Slot(i) # head
         /\ ~intq_full => Slot(Count + 1) = head
<1> USE QueueAssumption DEF TypeOK
<1>1. Count = IF head < tail THEN head - tail + Size ELSE head - tail
  BY DEF Count
<1>2. Count \in 0..Size - 1 /\ (Count = 0 <=> intq_empty)
  BY <1>1 DEF intq_empty
<1>3. next(head) = IF head = Size - 1 THEN 0 ELSE head + 1
  BY DEF next
<1>4. Count = Size - 1 <=> intq_full
  BY <1>1, <1>3 DEF intq_full
<1>5. \A i \in 1..Size - 1 :
        Slot(i) = IF tail + i - 1 < Size THEN tail + i - 1 ELSE tail + i - 1 - Size
  BY DEF Slot
<1>6. \A i \in 1..Count : Slot(i) \in 0..Size - 1 /\ Slot(i) # head
  BY <1>1, <1>2, <1>5
<1>7. ~intq_full => Slot(Count + 1) = head
  BY <1>1, <1>2, <1>4, <1>5
<1>8. Held \in Seq(Byte) /\ Len(Held) = Count
  BY <1>2, <1>6 DEF Held
<1> QED BY <1>2, <1>4, <1>6, <1>7, <1>8

\* Append and Tail, entry by entry.
LEMMA AppendEntries ==
  ASSUME NEW S, NEW q \in Seq(S), NEW b \in S
  PROVE  Append(q, b) =
           [i \in 1..(Len(q) + 1) |-> IF i = Len(q) + 1 THEN b ELSE q[i]]
<1> DEFINE r == [i \in 1..(Len(q) + 1) |-> IF i = Len(q) + 1 THEN b ELSE q[i]]
<1>1. Len(q) \in Nat /\ \A i \in 1..Len(q) : q[i] \in S
  OBVIOUS
<1>2. r \in Seq(S) /\ Len(r) = Len(q) + 1
  BY <1>1
<1>3. \A i \in 1..Len(r) : Append(q, b)[i] = r[i]
  BY <1>1, <1>2, AppendProperties
<1>4. Append(q, b) \in Seq(S) /\ Len(Append(q, b)) = Len(r)
  BY <1>2, AppendProperties
<1> HIDE DEF r
<1>5. Append(q, b) = r
  BY <1>2, <1>3, <1>4, SeqEqual
<1> QED BY <1>5 DEF r

LEMMA TailEntries ==
  ASSUME NEW S, NEW q \in Seq(S), q # <<>>
  PROVE  Tail(q) = [i \in 1..(Len(q) - 1) |-> q[i + 1]]
<1> DEFINE r == [i \in 1..(Len(q) - 1) |-> q[i + 1]]
<1>1. Len(q) \in Nat \ {0} /\ \A i \in 1..Len(q) : q[i] \in S
  OBVIOUS
<1>2. r \in Seq(S) /\ Len(r) = Len(q) - 1
  BY <1>1
<1>3. \A i \in 1..Len(r) : Tail(q)[i] = r[i]
  BY <1>1, <1>2, HeadTailProperties
<1>4. Tail(q) \in Seq(S) /\ Len(Tail(q)) = Len(r)
  BY <1>2, HeadTailProperties
<1> HIDE DEF r
<1>5. Tail(q) = r
  BY <1>2, <1>3, <1>4, SeqEqual
<1> QED BY <1>5 DEF r

\* Putting a byte appends it.
LEMMA PutMaps ==
  ASSUME TypeOK, TypeOK', NEW t, AddByte(t), ~intq_full
  PROVE  \E b \in Byte : Fifo!Put(b)
<1> USE QueueAssumption
<1>1. PICK b \in Byte : buf' = [buf EXCEPT ![head] = b]
  BY DEF AddByte
<1>2. tail' = tail /\ out' = out /\ head' = next(head)
  BY DEF AddByte
<1>3. Count' = Count + 1
  <2>1. next(head) = IF head = Size - 1 THEN 0 ELSE head + 1
    BY DEF next, TypeOK
  <2>2. Count = IF head < tail THEN head - tail + Size ELSE head - tail
    BY DEF Count, TypeOK
  <2>3. Count' = IF next(head) < tail THEN next(head) - tail + Size
                                      ELSE next(head) - tail
    BY <1>2, <2>1 DEF Count, TypeOK
  <2> QED BY <2>1, <2>2, <2>3 DEF intq_full, TypeOK
<1>4. Held \in Seq(Byte) /\ Len(Held) = Count /\ Count \in 0..Size - 1 /\ Count # Size - 1
  BY RingShape
<1>5. \A i \in 1..Count : Slot(i) \in 0..Size - 1 /\ Slot(i) # head
  BY RingShape
<1>6. Slot(Count + 1) = head
  BY RingShape
<1>7. \A i : Slot(i)' = Slot(i)
  BY <1>2 DEF Slot
<1>8. Held' = [i \in 1..(Count + 1) |-> IF i = Count + 1 THEN b ELSE Held[i]]
  <2>1. Held' = [i \in 1..(Count + 1) |-> buf'[Slot(i)]]
    BY <1>3, <1>7 DEF Held
  <2>2. buf'[Slot(Count + 1)] = b
    BY <1>1, <1>6 DEF TypeOK
  <2>3. \A i \in 1..Count : buf'[Slot(i)] = Held[i]
    BY <1>1, <1>5 DEF TypeOK, Held
  <2> QED BY <1>4, <2>1, <2>2, <2>3
<1>9. Held' = Append(Held, b)
  BY <1>4, <1>8, AppendEntries
<1>10. Len(Held) < Size - 1
  BY <1>4
<1> QED BY <1>2, <1>9, <1>10 DEF Fifo!Put, Held, Slot

\* Getting one takes the oldest.
LEMMA GetMaps ==
  ASSUME TypeOK, TypeOK', NEW t, RemoveByte(t), ~intq_empty
  PROVE  Fifo!Get
<1> USE QueueAssumption
<1>1. tail' = next(tail) /\ head' = head /\ buf' = buf /\ out' = buf[tail]
  BY DEF RemoveByte
<1>2. Held \in Seq(Byte) /\ Len(Held) = Count /\ Count \in 1..Size - 1
  BY RingShape
<1>3. next(tail) = IF tail = Size - 1 THEN 0 ELSE tail + 1
  BY DEF next, TypeOK
<1>4. Count' = Count - 1
  <2>1. Count = IF head < tail THEN head - tail + Size ELSE head - tail
    BY DEF Count, TypeOK
  <2>2. Count' = IF head < next(tail) THEN head - next(tail) + Size
                                      ELSE head - next(tail)
    BY <1>1, <1>3 DEF Count, TypeOK
  <2> QED BY <1>3, <2>1, <2>2 DEF intq_empty, TypeOK
<1>5. \A i \in 1..(Count - 1) : Slot(i)' = Slot(i + 1)
  <2>1. TAKE i \in 1..(Count - 1)
  <2>2. Slot(i)' = (next(tail) + i - 1) % Size /\ Slot(i + 1) = (tail + i) % Size
    BY <1>1, <1>2 DEF Slot, TypeOK
  <2>3. CASE tail = Size - 1
    <3>1. tail + i = Size + (i - 1) /\ next(tail) + i - 1 = i - 1
      BY <1>3, <2>3 DEF TypeOK
    <3>2. /\ i - 1 \in 0..2 * Size - 1 /\ i - 1 < Size
          /\ Size + (i - 1) \in 0..2 * Size - 1
      BY <1>2
    <3>3. (i - 1) % Size = i - 1
      BY <3>2, Around
    <3>4. (Size + (i - 1)) % Size = i - 1
      BY <3>2, Around
    <3> QED BY <2>2, <3>1, <3>3, <3>4
  <2>4. CASE tail # Size - 1
    <3>1. next(tail) + i - 1 = tail + i
      BY <1>3, <2>4 DEF TypeOK
    <3> QED BY <2>2, <3>1
  <2> QED BY <2>3, <2>4
<1>6. Held' = Tail(Held)
  <2>1. Held' = [i \in 1..(Count - 1) |-> Held[i + 1]]
    BY <1>1, <1>2, <1>4, <1>5 DEF Held
  <2>2. Held # <<>>
    BY <1>2
  <2> QED BY <1>2, <2>1, <2>2, TailEntries
<1>7. out' = Head(Held) /\ Held # <<>>
  <2>1. Slot(1) = tail
    BY DEF Slot, TypeOK
  <2> QED BY <1>1, <1>2, <2>1 DEF Held
<1> QED BY <1>6, <1>7 DEF Fifo!Get, Held, Slot

\* Every other step leaves the ring alone.
LEMMA OtherMaps ==
  ASSUME UNCHANGED <<buf, head, tail, out>>
  PROVE  UNCHANGED <<Held, out>>
BY DEF Held, Slot, Count

\* Every step is a put, a get, or neither.
LEMMA StepMaps ==
  ASSUME IInv, IInv', [Next]_vars
  PROVE  [Fifo!Next]_<<Held, out>>
<1>1. TypeOK /\ TypeOK'
  BY DEF IInv
<1>2. ASSUME NEW t \in Thread, NEW l, Loop(t, l) PROVE [Fifo!Next]_<<Held, out>>
  <2>1. CASE ~MustWait /\ use = "keyboard" /\ RemoveByte(t)
    BY <1>1, <2>1, GetMaps DEF MustWait, Fifo!Next
  <2>2. CASE ~MustWait /\ use # "keyboard" /\ AddByte(t)
    BY <1>1, <2>2, PutMaps DEF MustWait, Fifo!Next
  <2>3. CASE UNCHANGED <<buf, head, tail, out>>
    BY <2>3, OtherMaps
  <2> QED BY <1>2, <2>1, <2>2, <2>3 DEF Loop, Wait
<1>3. CASE IntrPut
  BY <1>1, <1>3, PutMaps DEF IntrPut, Fifo!Next
<1>4. CASE IntrGet
  BY <1>1, <1>4, GetMaps DEF IntrGet, Fifo!Next
<1>5. CASE (\E t \in Thread : Locked(t)) \/ UNCHANGED vars
  BY <1>5, OtherMaps DEF Locked, Wait, vars
<1> QED BY <1>2, <1>3, <1>4, <1>5 DEF Next, Call, Woken

\* An empty ring is an empty queue.
LEMMA InitMaps == Init => Fifo!Init
<1> SUFFICES ASSUME Init PROVE Fifo!Init
  OBVIOUS
<1>1. TypeOK /\ Count = 0
  BY InitStep, RingShape DEF IInv, Init, intq_empty
<1>2. Held = <<>>
  BY <1>1 DEF Held
<1> QED BY <1>1, <1>2 DEF Fifo!Init, Held, Slot, TypeOK

\* Bytes are got in the order they were put, each once, by threads and handlers
\* together, whatever the size of the ring.
THEOREM Implements == Spec => ImplementsFifo
<1> DEFINE queue == [i \in 1..Count |-> buf[(tail + i - 1) % Size]]
<1>1. UNCHANGED <<Held, out>> => UNCHANGED <<queue, out>>
  BY DEF Held, Slot
<1>2. IInv /\ IInv' /\ [Next]_vars => [Fifo!Next]_<<queue, out>>
  BY <1>1, StepMaps
<1> QED BY <1>2, InitStep, InvariantStep, InitMaps, PTL DEF Spec, ImplementsFifo, Fifo!Spec
=============================================================================
