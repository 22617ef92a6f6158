---------------------------- MODULE ReadersWriter -----------------------------
(***************************************************************************)
(* The read and write system calls of userprog/syscall.c around the file   *)
(* system: readers share the lock `wrt`, which the first of them acquires  *)
(* and the last of them releases, counted by `readcount` under the         *)
(* semaphore `mutex`; a writer holds `wrt` alone.  lock_acquire and        *)
(* lock_release come with their ASSERTs.  A fault on the caller's buffer   *)
(* inside the call ends the process (page_fault: exit (-1)) where it       *)
(* stands.                                                                 *)
(***************************************************************************)
EXTENDS Integers, FiniteSets

CONSTANTS Proc,    \* the processes
          None,    \* no holder
          Faults   \* whether a buffer may be bad

ASSUME ReadersAssumption ==
  /\ IsFiniteSet(Proc) /\ None \notin Proc
  /\ Faults \in BOOLEAN

VARIABLES pc,        \* where each process stands
          mutex,     \* value of the semaphore
          readcount,
          wrt,       \* value of the lock's semaphore
          holder,    \* the lock's holder
          panic      \* an ASSERT has failed

vars == <<pc, mutex, readcount, wrt, holder, panic>>

PC == {"user",
       "rEnter", "rCount", "rLock", "rUp", "reading",    \* read, going in
       "rLeave", "rUncount", "rUnlock", "rDone",         \* read, coming out
       "wLock", "writing",                               \* write
       "deadReader", "deadWriter"}                       \* exit (-1) inside

Init ==
  /\ pc = [p \in Proc |-> "user"]
  /\ mutex = 1 /\ readcount = 0
  /\ wrt = 1 /\ holder = None
  /\ panic = FALSE

At(p, l) == ~panic /\ pc[p] = l
Goto(p, l) == pc' = [pc EXCEPT ![p] = l]

\* ASSERT (cond): otherwise the kernel panics and nothing moves again.
Checked(cond, then) ==
  IF cond THEN then /\ UNCHANGED panic
  ELSE panic' = TRUE /\ UNCHANGED <<pc, mutex, readcount, wrt, holder>>

\* lock_acquire and lock_release of wrt, going on to l.
LockAcquire(p, l) ==
  Checked(holder # p, /\ wrt > 0
                     /\ wrt' = wrt - 1 /\ holder' = p
                     /\ Goto(p, l)
                     /\ UNCHANGED <<mutex, readcount>>)

LockRelease(p, l) ==
  Checked(holder = p, /\ wrt' = wrt + 1 /\ holder' = None
                     /\ Goto(p, l)
                     /\ UNCHANGED <<mutex, readcount>>)

-----------------------------------------------------------------------------
Call(p) ==
  /\ At(p, "user")
  /\ \E l \in {"rEnter", "wLock"} : Goto(p, l)
  /\ UNCHANGED <<mutex, readcount, wrt, holder, panic>>

\* sema_down (&mutex), on the way in and on the way out.
MutexDown(p) ==
  /\ \/ At(p, "rEnter") /\ Goto(p, "rCount")
     \/ At(p, "rLeave") /\ Goto(p, "rUncount")
  /\ mutex > 0 /\ mutex' = mutex - 1
  /\ UNCHANGED <<readcount, wrt, holder, panic>>

\* Variant: tests the count it had before.
ReadCount_Before(p) ==
  /\ At(p, "rCount")
  /\ readcount' = readcount + 1
  /\ Goto(p, IF readcount = 1 THEN "rLock" ELSE "rUp")
  /\ UNCHANGED <<mutex, wrt, holder, panic>>

ReadCount(p) ==
  /\ At(p, "rCount")
  /\ readcount' = readcount + 1
  /\ Goto(p, IF readcount + 1 = 1 THEN "rLock" ELSE "rUp")
  /\ UNCHANGED <<mutex, wrt, holder, panic>>

ReadLock(p) == At(p, "rLock") /\ LockAcquire(p, "rUp")

MutexUp(p) ==
  /\ \/ At(p, "rUp") /\ Goto(p, "reading")
     \/ At(p, "rDone") /\ Goto(p, "user")
  /\ mutex' = mutex + 1
  /\ UNCHANGED <<readcount, wrt, holder, panic>>

\* The data has arrived: file_read is done, or the keyboard has delivered.
ReadData(p) ==
  /\ At(p, "reading")
  /\ Goto(p, "rLeave")
  /\ UNCHANGED <<mutex, readcount, wrt, holder, panic>>

\* Variants: the last reader is not counted out; it keeps the lock.
ReadUncount_KeepOne(p) ==
  /\ At(p, "rUncount")
  /\ readcount' = IF readcount - 1 = 0 THEN readcount ELSE readcount - 1
  /\ Goto(p, IF readcount - 1 = 0 THEN "rUnlock" ELSE "rDone")
  /\ UNCHANGED <<mutex, wrt, holder, panic>>

ReadUncount_KeepLock(p) ==
  /\ At(p, "rUncount")
  /\ readcount' = readcount - 1
  /\ Goto(p, "rDone")
  /\ UNCHANGED <<mutex, wrt, holder, panic>>

ReadUncount(p) ==
  /\ At(p, "rUncount")
  /\ readcount' = readcount - 1
  /\ Goto(p, IF readcount - 1 = 0 THEN "rUnlock" ELSE "rDone")
  /\ UNCHANGED <<mutex, wrt, holder, panic>>

ReadUnlock(p) == At(p, "rUnlock") /\ LockRelease(p, "rDone")

WriteLock(p) == At(p, "wLock") /\ LockAcquire(p, "writing")
WriteUnlock(p) == At(p, "writing") /\ LockRelease(p, "user")

\* page_fault in kernel mode, on the user's buffer: exit (-1).
Fault(p) ==
  /\ Faults
  /\ \/ At(p, "reading") /\ Goto(p, "deadReader")
     \/ At(p, "writing") /\ Goto(p, "deadWriter")
  /\ UNCHANGED <<mutex, readcount, wrt, holder, panic>>

Step(p) == \/ MutexDown(p) \/ ReadCount(p) \/ ReadLock(p) \/ MutexUp(p)
           \/ ReadData(p) \/ ReadUncount(p) \/ ReadUnlock(p)
           \/ WriteLock(p) \/ WriteUnlock(p)

Next == \E p \in Proc : Call(p) \/ Step(p) \/ Fault(p)

Spec == Init /\ [][Next]_vars

-----------------------------------------------------------------------------
(* Properties.                                                             *)

TypeOK ==
  /\ pc \in [Proc -> PC]
  /\ mutex \in 0..1 /\ wrt \in 0..1
  /\ readcount \in Nat
  /\ holder \in Proc \cup {None}
  /\ panic \in BOOLEAN

\* Readers that readcount counts, and writers in the file system.
Inside == {p \in Proc : pc[p] \in {"rLock", "rUp", "reading", "rLeave",
                                   "rUncount", "deadReader"}}
Writing(p) == pc[p] \in {"writing", "deadWriter"}
Reading(p) == pc[p] \in {"reading", "deadReader"}

\* A writer has the file system for itself: no other writer and no reader is
\* in it, in whatever order readers come and go, and even when one of them
\* has died inside.
WriterExcludes ==
  \A p \in Proc : Writing(p) =>
    \A q \in Proc : q # p => ~Writing(q) /\ ~Reading(q)

\* readcount is the number of readers inside, dead ones included.
CountExact == readcount = Cardinality(Inside)

\* Only one process at a time is between sema_down and sema_up of mutex.
InMutex(p) == pc[p] \in {"rCount", "rLock", "rUp", "rUncount", "rUnlock", "rDone"}
MutexExcludes ==
  /\ \A p, q \in Proc : InMutex(p) /\ InMutex(q) => p = q
  /\ mutex = 1 => \A p \in Proc : ~InMutex(p)

\* Nobody is stuck: as long as some process is inside a call and none has
\* died there, one of them can take a step.  A reader that waits for wrt keeps
\* mutex, so the two could wait for each other if wrt could then belong to
\* readers.
NobodyStuck ==
  (/\ ~panic
   /\ \A p \in Proc : pc[p] \notin {"deadReader", "deadWriter"}
   /\ \E p \in Proc : pc[p] # "user") => ENABLED (\E p \in Proc : Step(p))

\* synch.c, lock_init: "the same thread must both acquire and release it."
\* The ASSERTs that say so in lock_acquire and lock_release never fail.
LocksWellUsed == ~panic
=============================================================================
