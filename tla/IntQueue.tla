------------------------------- MODULE IntQueue -------------------------------
(***************************************************************************)
(* The interrupt queue of devices/intq.c: a ring of bytes between kernel   *)
(* threads and a device's interrupt handler, with a monitor made by hand.  *)
(* `use` says which of its two uses it is: the keyboard's buffer of        *)
(* input.c, put by the handlers and got by every process that reads        *)
(* descriptor 0, or the serial port's transmit queue, put by the threads   *)
(* that print and got by the handler.                                      *)
(*                                                                         *)
(* Threads call the queue with interrupts off, so a thread runs in one     *)
(* stretch until it blocks, in lock_acquire or in thread_block; a handler  *)
(* runs only between two stretches.                                        *)
(***************************************************************************)
EXTENDS Integers, Sequences

CONSTANTS Thread,  \* the threads that call intq_getc, or intq_putc
          None,    \* NULL
          Byte,    \* the bytes
          Size     \* INTQ_BUFSIZE

ASSUME QueueAssumption ==
  /\ None \notin Thread
  /\ Size \in Nat /\ Size > 1
  /\ Byte # {}

VARIABLES use,              \* "keyboard" or "serial"
          buf, head, tail,  \* the ring: head is written next, tail read next
          not_empty,        \* thread that waits for a byte
          not_full,         \* thread that waits for room
          lock,             \* holder of the lock
          pc,               \* where each thread stands
          out,              \* last byte got
          panic             \* an ASSERT has failed

vars == <<use, buf, head, tail, not_empty, not_full, lock, pc, out, panic>>

next(pos) == (pos + 1) % Size
intq_empty == head = tail
intq_full == next(head) = tail

Init ==
  /\ use \in {"keyboard", "serial"}
  /\ buf \in [0..Size - 1 -> Byte] /\ \A i, j \in 0..Size - 1 : buf[i] = buf[j]
  /\ head = 0 /\ tail = 0
  /\ not_empty = None /\ not_full = None
  /\ lock = None
  /\ pc = [t \in Thread |-> "out"]
  /\ out = buf[0]
  /\ panic = FALSE

\* signal: the waiter, if any, becomes ready and is forgotten; the thread
\* that signals goes to l itself (None: a handler, which is no thread).
Wakes(waiter, t, l) ==
  pc' = [u \in Thread |-> CASE u = t      -> l
                            [] u = waiter -> "woken"
                            [] OTHER      -> pc[u]]

\* The end of intq_getc and of intq_putc, by a thread or by a handler.
\* Variant: it reads where the next byte goes.
RemoveByte_Head(t) ==
  /\ out' = buf[head]
  /\ tail' = next(tail)
  /\ Wakes(not_full, t, "out") /\ not_full' = None
  /\ UNCHANGED <<use, buf, head, not_empty, panic>>

RemoveByte(t) ==
  /\ out' = buf[tail]
  /\ tail' = next(tail)
  /\ Wakes(not_full, t, "out") /\ not_full' = None
  /\ UNCHANGED <<use, buf, head, not_empty, panic>>

\* Variant: nobody is woken.
AddByte_NoSignal(t) ==
  /\ \E b \in Byte : buf' = [buf EXCEPT ![head] = b]
  /\ head' = next(head)
  /\ Wakes(None, t, "out")
  /\ UNCHANGED <<use, tail, not_empty, not_full, out, panic>>

AddByte(t) ==
  /\ \E b \in Byte : buf' = [buf EXCEPT ![head] = b]
  /\ head' = next(head)
  /\ Wakes(not_empty, t, "out") /\ not_empty' = None
  /\ UNCHANGED <<use, tail, not_full, out, panic>>

MustWait == IF use = "keyboard" THEN intq_empty ELSE intq_full

\* wait, with the lock just acquired.
Wait(t) ==
  /\ lock' = t
  /\ IF MustWait
     THEN /\ pc' = [pc EXCEPT ![t] = "waiting"]
          /\ IF use = "keyboard" THEN not_empty' = t /\ UNCHANGED not_full
                                 ELSE not_full' = t /\ UNCHANGED not_empty
          /\ UNCHANGED panic
     ELSE panic' = TRUE /\ UNCHANGED <<pc, not_empty, not_full>>
  /\ UNCHANGED <<use, buf, head, tail, out>>

\* The loop, from its test to where the thread blocks or returns, with the
\* lock in the hands of l.
Loop(t, l) ==
  \/ /\ ~MustWait
     /\ lock' = l
     /\ IF use = "keyboard" THEN RemoveByte(t) ELSE AddByte(t)
  \/ MustWait /\ l = None /\ Wait(t)
  \/ /\ MustWait /\ l # None
     /\ lock' = l
     /\ pc' = [pc EXCEPT ![t] = "locking"]
     /\ UNCHANGED <<use, buf, head, tail, not_empty, not_full, out, panic>>

At(t, l) == ~panic /\ pc[t] = l

Call(t) == At(t, "out") /\ Loop(t, lock)

\* lock_acquire returns at last.
Locked(t) == At(t, "locking") /\ lock = None /\ Wait(t)

\* Variant: the lock is kept.
Woken_KeepLock(t) == At(t, "woken") /\ lock = t /\ Loop(t, lock)

\* thread_block returns: lock_release, and the loop's test again.
Woken(t) == At(t, "woken") /\ lock = t /\ Loop(t, None)

\* A handler puts when the buffer is not full and gets when the queue is not
\* empty: kbd.c and serial.c test before they call.  serial_putc with
\* interrupts off makes room in the same way.
IntrPut == ~panic /\ use = "keyboard" /\ ~intq_full
           /\ AddByte(None) /\ UNCHANGED lock
IntrGet == ~panic /\ use = "serial" /\ ~intq_empty
           /\ RemoveByte(None) /\ UNCHANGED lock

Next == \/ \E t \in Thread : Call(t) \/ Locked(t) \/ Woken(t)
        \/ IntrPut \/ IntrGet

Spec == Init /\ [][Next]_vars

\* A ready thread runs.  The handlers owe nothing.
FairSpec == Spec /\ \A t \in Thread : WF_vars(Locked(t) \/ Woken(t))

-----------------------------------------------------------------------------
(* Properties.                                                             *)

TypeOK ==
  /\ use \in {"keyboard", "serial"}
  /\ buf \in [0..Size - 1 -> Byte]
  /\ head \in 0..Size - 1 /\ tail \in 0..Size - 1
  /\ not_empty \in Thread \cup {None} /\ not_full \in Thread \cup {None}
  /\ lock \in Thread \cup {None}
  /\ pc \in [Thread -> {"out", "locking", "waiting", "woken"}]
  /\ out \in Byte /\ panic \in BOOLEAN

\* Nobody sleeps through its event: while a thread is recorded as waiting
\* for a byte there is none, and for room likewise; the one recorded is the
\* one asleep, and it is the holder of the lock.
SleepersJustified ==
  /\ not_empty # None => intq_empty
  /\ not_full # None => intq_full
  /\ \A t \in Thread :
       /\ pc[t] = "waiting" <=> t \in {not_empty, not_full}
       /\ pc[t] \in {"waiting", "woken"} => lock = t

\* The ring is a queue: every byte put is got once and in order, by threads
\* and handlers together, and none overwrites another.
Count == (head - tail) % Size
Fifo == INSTANCE ByteFifo WITH
          Capacity <- Size - 1,
          queue <- [i \in 1..Count |-> buf[(tail + i - 1) % Size]]

ImplementsFifo == Fifo!Spec

\* A thread that waits for the lock is not left behind: the lock's holder
\* gives way once a byte (room) is there.
LockMovesOn ==
  \A t \in Thread :
    (pc[t] = "locking" /\ ~MustWait) ~> (pc[t] # "locking" \/ MustWait \/ panic)
=============================================================================
