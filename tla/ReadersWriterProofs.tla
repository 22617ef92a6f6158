------------------------- MODULE ReadersWriterProofs --------------------------
(* Theorems about ReadersWriter, for any number of processes.              *)
EXTENDS ReadersWriter, FiniteSetTheorems, TLAPS

(* The group of readers owns wrt once its first member has acquired it and *)
(* until its last member releases it.                                      *)
ReadersOwn == \/ \E p \in Inside : pc[p] # "rLock"
              \/ \E p \in Proc : pc[p] = "rUnlock"

(* The lock has one owner: nobody when its semaphore is 1, else one writer *)
(* or the readers.                                                         *)
OneOwner ==
  /\ \A p, q \in Proc : Writing(p) /\ Writing(q) => p = q
  /\ \A p \in Proc : Writing(p) => wrt = 0 /\ ~ReadersOwn
  /\ ReadersOwn => wrt = 0

(* A reader that waits for the lock is the only one counted, and none is   *)
(* when the last one releases it.                                          *)
FirstAndLast ==
  \A p \in Proc : /\ pc[p] = "rLock" => Inside = {p}
                  /\ pc[p] = "rUnlock" => Inside = {}

IInv == TypeOK /\ CountExact /\ MutexExcludes /\ OneOwner /\ FirstAndLast

LEMMA InsideFinite == ASSUME TypeOK PROVE IsFiniteSet(Inside)
<1>1. Inside \subseteq Proc
  BY DEF Inside
<1> QED BY <1>1, FS_Subset, ReadersAssumption

LEMMA InitStep == ASSUME Init PROVE IInv
<1> USE DEF Init
<1>1. TypeOK
  <2>1. pc \in [Proc -> PC]
    BY DEF PC
  <2>2. mutex \in 0..1 /\ wrt \in 0..1 /\ readcount \in Nat
    OBVIOUS
  <2>3. holder \in Proc \cup {None} /\ panic \in BOOLEAN
    OBVIOUS
  <2> QED BY <2>1, <2>2, <2>3 DEF TypeOK
<1>2. Inside = {}
  BY DEF Inside
<1>3. CountExact
  BY <1>2, FS_EmptySet DEF CountExact
<1> QED BY <1>1, <1>2, <1>3
        DEF IInv, MutexExcludes, InMutex, OneOwner, ReadersOwn, Writing,
            FirstAndLast

\* A step that moves nobody into or out of the count keeps it.
LEMMA InsideSame ==
  ASSUME IInv, Inside' = Inside, UNCHANGED readcount
  PROVE  CountExact'
BY DEF IInv, CountExact

\* ReadCount: one more inside; the first goes on to take the lock.
LEMMA ReadCountStep ==
  ASSUME IInv, NEW p \in Proc, ReadCount(p)
  PROVE  IInv'
<1> USE DEF IInv, TypeOK, At, Goto
<1>1. /\ pc[p] = "rCount" /\ p \notin Inside
      /\ pc' = [pc EXCEPT ![p] = IF readcount + 1 = 1 THEN "rLock" ELSE "rUp"]
      /\ readcount' = readcount + 1
      /\ UNCHANGED <<mutex, wrt, holder, panic>>
  BY DEF ReadCount, Inside
<1>2. Inside' = Inside \cup {p}
  BY <1>1 DEF Inside
<1>3. IsFiniteSet(Inside)
  BY InsideFinite
<1>4. CountExact'
  <2>1. Cardinality(Inside \cup {p}) = Cardinality(Inside) + 1
    BY <1>1, <1>3, FS_AddElement
  <2> QED BY <1>1, <1>2, <2>1 DEF CountExact
<1>5. TypeOK'
  BY <1>1 DEF PC
<1>6. MutexExcludes'
  BY <1>1 DEF MutexExcludes, InMutex
<1>7. \A q \in Proc : q # p => ~InMutex(q)
  BY <1>1 DEF MutexExcludes, InMutex
<1>8. OneOwner' /\ FirstAndLast'
  <2>1. CASE readcount = 0
    <3>1. Inside = {}
      BY <2>1, <1>3, FS_EmptySet DEF CountExact
    <3>2. pc' = [pc EXCEPT ![p] = "rLock"] /\ Inside' = {p}
      BY <1>1, <1>2, <2>1, <3>1
    <3>3. ~ReadersOwn'
      BY <1>1, <1>7, <3>2 DEF ReadersOwn, InMutex
    <3> QED BY <1>1, <1>7, <3>2, <3>3
            DEF OneOwner, FirstAndLast, Writing, InMutex
  <2>2. CASE readcount # 0
    <3>1. Inside # {}
      BY <2>2, FS_EmptySet DEF CountExact
    <3>2. ReadersOwn
      BY <1>7, <1>1, <3>1 DEF ReadersOwn, InMutex, Inside
    <3>3. pc' = [pc EXCEPT ![p] = "rUp"]
      <4>1. readcount \in Nat
        OBVIOUS
      <4>2. readcount + 1 # 1
        BY <2>2, <4>1
      <4> QED BY <1>1, <4>2
    <3> QED BY <1>1, <1>7, <3>2, <3>3
            DEF OneOwner, FirstAndLast, Writing, InMutex
  <2> QED BY <2>1, <2>2
<1> QED BY <1>4, <1>5, <1>6, <1>8

\* ReadUncount: one less inside; the last goes on to release the lock.
LEMMA ReadUncountStep ==
  ASSUME IInv, NEW p \in Proc, ReadUncount(p)
  PROVE  IInv'
<1> USE DEF IInv, TypeOK, At, Goto
<1>1. /\ pc[p] = "rUncount" /\ p \in Inside
      /\ pc' = [pc EXCEPT ![p] = IF readcount - 1 = 0 THEN "rUnlock" ELSE "rDone"]
      /\ readcount' = readcount - 1
      /\ UNCHANGED <<mutex, wrt, holder, panic>>
  BY DEF ReadUncount, Inside
<1>2. Inside' = Inside \ {p}
  BY <1>1 DEF Inside
<1>3. IsFiniteSet(Inside) /\ IsFiniteSet(Inside')
  BY <1>2, InsideFinite, FS_RemoveElement
<1>4. Cardinality(Inside') = Cardinality(Inside) - 1
  BY <1>1, <1>2, <1>3, FS_RemoveElement
<1>5. CountExact'
  BY <1>1, <1>4 DEF CountExact
<1>6. TypeOK'
  <2>1. Cardinality(Inside') \in Nat
    BY <1>3, FS_CardinalityType
  <2>2. readcount' \in Nat
    BY <2>1, <1>5 DEF CountExact
  <2> QED BY <1>1, <2>2 DEF PC
<1>7. MutexExcludes'
  BY <1>1 DEF MutexExcludes, InMutex
<1>8. ReadersOwn /\ \A q \in Proc : q # p => ~InMutex(q)
  BY <1>1 DEF MutexExcludes, InMutex, ReadersOwn, Inside
<1>9. wrt = 0 /\ \A q \in Proc : ~Writing(q)
  BY <1>8 DEF OneOwner
<1>10. OneOwner'
  BY <1>1, <1>9 DEF OneOwner, Writing
<1>11. FirstAndLast'
  <2>1. CASE readcount - 1 = 0
    <3>1. Inside' = {}
      BY <1>1, <1>3, <1>5, <2>1, FS_EmptySet DEF CountExact
    <3> QED BY <1>1, <1>8, <2>1, <3>1 DEF FirstAndLast, InMutex
  <2>2. CASE readcount - 1 # 0
    BY <1>1, <1>8, <2>2 DEF FirstAndLast, InMutex
  <2> QED BY <2>1, <2>2
<1> QED BY <1>5, <1>6, <1>7, <1>10, <1>11

\* The other steps leave the count alone.
LEMMA OtherStep ==
  ASSUME IInv, NEW p \in Proc,
         \/ Call(p) \/ MutexDown(p) \/ ReadLock(p) \/ MutexUp(p)
         \/ ReadData(p) \/ ReadUnlock(p) \/ WriteLock(p) \/ WriteUnlock(p)
         \/ Fault(p)
  PROVE  IInv'
<1> USE ReadersAssumption
<1> USE DEF IInv, TypeOK, At, Goto
<1> DEFINE Moved(l) == /\ pc' = [pc EXCEPT ![p] = l]
                       /\ UNCHANGED <<mutex, readcount, panic>>
<1>1. CASE \/ Call(p) \/ ReadData(p) \/ Fault(p)
  BY <1>1, InsideSame
     DEF PC, Call, ReadData, Fault, Inside, MutexExcludes, InMutex, OneOwner,
         ReadersOwn, Writing, FirstAndLast
<1>2. CASE MutexDown(p)
  BY <1>2, InsideSame
     DEF PC, MutexDown, Inside, MutexExcludes, InMutex, OneOwner, ReadersOwn,
         Writing, FirstAndLast
<1>3. CASE MutexUp(p)
  BY <1>3, InsideSame
     DEF PC, MutexUp, Inside, MutexExcludes, InMutex, OneOwner, ReadersOwn,
         Writing, FirstAndLast
<1>4. ASSUME panic', UNCHANGED <<pc, mutex, readcount, wrt, holder>>
      PROVE  IInv'
  BY <1>4 DEF CountExact, Inside, MutexExcludes, InMutex, OneOwner, ReadersOwn,
              Writing, FirstAndLast
<1>5. CASE ReadLock(p) /\ ~panic'
  <2>1. /\ pc[p] = "rLock" /\ wrt = 1 /\ wrt' = 0 /\ holder' = p
        /\ Moved("rUp")
    BY <1>5 DEF ReadLock, LockAcquire, Checked
  <2>2. Inside' = Inside
    BY <2>1 DEF Inside
  <2>3. TypeOK'
    BY <2>1 DEF PC
  <2>4. \A q \in Proc : q # p => ~InMutex(q)
    BY <2>1 DEF MutexExcludes, InMutex
  <2>5. MutexExcludes'
    BY <2>1 DEF MutexExcludes, InMutex
  <2>6. \A q \in Proc : ~Writing(q)
    BY <2>1 DEF OneOwner
  <2>7. OneOwner'
    BY <2>1, <2>6 DEF OneOwner, Writing
  <2>8. FirstAndLast'
    BY <2>1, <2>4 DEF FirstAndLast, InMutex
  <2> QED BY <2>1, <2>2, <2>3, <2>5, <2>7, <2>8, InsideSame
<1>6. CASE ReadUnlock(p) /\ ~panic'
  <2>1. /\ pc[p] = "rUnlock" /\ wrt' = wrt + 1 /\ holder' = None
        /\ Moved("rDone")
    BY <1>6 DEF ReadUnlock, LockRelease, Checked
  <2>2. Inside' = Inside /\ Inside = {}
    BY <2>1 DEF Inside, FirstAndLast
  <2>3. wrt = 0 /\ wrt' = 1
    BY <2>1 DEF OneOwner, ReadersOwn
  <2>4. TypeOK'
    BY <2>1, <2>3 DEF PC
  <2>5. \A q \in Proc : q # p => ~InMutex(q)
    BY <2>1 DEF MutexExcludes, InMutex
  <2>6. MutexExcludes'
    BY <2>1 DEF MutexExcludes, InMutex
  <2>7. ~ReadersOwn' /\ \A q \in Proc : ~Writing(q)'
    BY <2>1, <2>2, <2>5 DEF OneOwner, ReadersOwn, Writing, InMutex
  <2>8. OneOwner'
    BY <2>7 DEF OneOwner
  <2>9. FirstAndLast'
    BY <2>1, <2>5 DEF FirstAndLast, InMutex
  <2> QED BY <2>1, <2>2, <2>4, <2>6, <2>8, <2>9, InsideSame
<1>7. CASE WriteLock(p) /\ ~panic'
  <2>1. /\ pc[p] = "wLock" /\ wrt = 1 /\ wrt' = 0 /\ holder' = p
        /\ Moved("writing")
    BY <1>7 DEF WriteLock, LockAcquire, Checked
  <2>2. Inside' = Inside
    BY <2>1 DEF Inside
  <2>3. TypeOK'
    BY <2>1 DEF PC
  <2>4. MutexExcludes'
    BY <2>1 DEF MutexExcludes, InMutex
  <2>5. ~ReadersOwn /\ \A q \in Proc : ~Writing(q)
    BY <2>1 DEF OneOwner
  <2>6. ~ReadersOwn'
    BY <2>1, <2>2, <2>5 DEF ReadersOwn, Inside
  <2>7. OneOwner'
    BY <2>1, <2>5, <2>6 DEF OneOwner, Writing
  <2>8. FirstAndLast'
    BY <2>1, <2>2 DEF FirstAndLast
  <2> QED BY <2>1, <2>2, <2>3, <2>4, <2>7, <2>8, InsideSame
<1>8. CASE WriteUnlock(p) /\ ~panic'
  <2>1. /\ pc[p] = "writing" /\ wrt' = wrt + 1 /\ holder' = None
        /\ Moved("user")
    BY <1>8 DEF WriteUnlock, LockRelease, Checked
  <2>2. Inside' = Inside
    BY <2>1 DEF Inside
  <2>3. /\ wrt = 0 /\ ~ReadersOwn
        /\ \A q \in Proc : q # p => ~Writing(q)
    BY <2>1 DEF OneOwner, Writing
  <2>4. TypeOK'
    BY <2>1, <2>3 DEF PC
  <2>5. MutexExcludes'
    BY <2>1 DEF MutexExcludes, InMutex
  <2>6. ~ReadersOwn'
    BY <2>1, <2>2, <2>3 DEF ReadersOwn, Inside
  <2>7. OneOwner'
    BY <2>1, <2>3, <2>6 DEF OneOwner, Writing
  <2>8. FirstAndLast'
    BY <2>1, <2>2 DEF FirstAndLast
  <2> QED BY <2>1, <2>2, <2>4, <2>5, <2>7, <2>8, InsideSame
<1>9. ASSUME panic', ReadLock(p) \/ ReadUnlock(p) \/ WriteLock(p) \/ WriteUnlock(p)
      PROVE  UNCHANGED <<pc, mutex, readcount, wrt, holder>>
  BY <1>9 DEF ReadLock, ReadUnlock, WriteLock, WriteUnlock, LockAcquire,
              LockRelease, Checked
<1> QED BY <1>1, <1>2, <1>3, <1>4, <1>5, <1>6, <1>7, <1>8, <1>9

LEMMA InvariantStep == IInv /\ [Next]_vars => IInv'
<1> SUFFICES ASSUME IInv, [Next]_vars PROVE IInv'
  OBVIOUS
<1>1. CASE Next
  BY <1>1, ReadCountStep, ReadUncountStep, OtherStep DEF Next, Step
<1>2. CASE UNCHANGED vars
  BY <1>2 DEF vars, IInv, TypeOK, CountExact, MutexExcludes, OneOwner,
              FirstAndLast, ReadersOwn, Inside, Writing, InMutex
<1> QED BY <1>1, <1>2

\* Every state of every run is well-typed; in particular no semaphore of the
\* protocol ever exceeds 1, whoever releases it.
THEOREM TypeCorrect == Spec => []TypeOK
<1>1. IInv => TypeOK
  BY DEF IInv
<1> QED BY <1>1, InitStep, InvariantStep, PTL DEF Spec

\* readcount is exact.
THEOREM ReadersCounted == Spec => []CountExact
<1>1. IInv => CountExact
  BY DEF IInv
<1> QED BY <1>1, InitStep, InvariantStep, PTL DEF Spec

\* A writer has the file system for itself.
THEOREM WriterAlone == Spec => []WriterExcludes
<1>1. IInv => WriterExcludes
  BY DEF IInv, OneOwner, ReadersOwn, Inside, Writing, Reading, WriterExcludes
<1> QED BY <1>1, InitStep, InvariantStep, PTL DEF Spec

\* Only one process is between sema_down and sema_up of mutex, however many
\* call read and die there.
THEOREM MutexAlone == Spec => []MutexExcludes
<1>1. IInv => MutexExcludes
  BY DEF IInv
<1> QED BY <1>1, InitStep, InvariantStep, PTL DEF Spec

-----------------------------------------------------------------------------
(* Nobody is stuck, without ENABLED.                                       *)

\* A semaphore at 0 has somebody who will raise it.
Held ==
  /\ mutex = 0 => \E p \in Proc : InMutex(p)
  /\ wrt = 0 => ReadersOwn \/ \E p \in Proc : Writing(p)

\* p is inside a call and waits for no semaphore: sema_down finds a value above
\* 0, or an ASSERT fails first.
CanStep(p) ==
  /\ ~panic /\ pc[p] \notin {"user", "deadReader", "deadWriter"}
  /\ pc[p] \in {"rEnter", "rLeave"} => mutex > 0
  /\ pc[p] \in {"rLock", "wLock"} => wrt > 0 \/ holder = p

NoCircularWait ==
  (/\ ~panic
   /\ \A p \in Proc : pc[p] \notin {"deadReader", "deadWriter"}
   /\ \E p \in Proc : pc[p] # "user") => \E p \in Proc : CanStep(p)

LEMMA HeldInit == Init => Held
BY DEF Init, Held

\* Whoever takes a semaphore stays in sight until it has raised it; the last
\* reader but one leaves another behind.
LEMMA HeldStep == IInv /\ IInv' /\ Held /\ [Next]_vars => Held'
<1> SUFFICES ASSUME IInv, IInv', Held, [Next]_vars PROVE Held'
  OBVIOUS
<1> USE DEF At, Goto
<1>1. CASE UNCHANGED vars
  BY <1>1 DEF vars, Held, InMutex, ReadersOwn, Inside, Writing
<1> SUFFICES ASSUME NEW p \in Proc, Call(p) \/ Step(p) \/ Fault(p) PROVE Held'
  BY <1>1 DEF Next
<1>2. pc \in [Proc -> PC]
  BY DEF IInv, TypeOK
<1>3. CASE UNCHANGED <<pc, mutex, wrt>>
  BY <1>3 DEF Held, InMutex, ReadersOwn, Inside, Writing
<1>4. CASE Call(p) \/ ReadData(p) \/ Fault(p)
  BY <1>2, <1>4 DEF Call, ReadData, Fault, Held, InMutex, ReadersOwn, Inside, Writing
<1>5. CASE MutexDown(p)
  BY <1>2, <1>5 DEF MutexDown, Held, InMutex, ReadersOwn, Inside, Writing
<1>6. CASE MutexUp(p)
  <2>1. mutex' # 0
    BY <1>6 DEF MutexUp, IInv, TypeOK
  <2> QED BY <1>2, <1>6, <2>1 DEF MutexUp, Held, ReadersOwn, Inside, Writing
<1>7. CASE ReadCount(p)
  BY <1>2, <1>7 DEF ReadCount, Held, InMutex, ReadersOwn, Inside, Writing
<1>8. CASE ReadUncount(p)
  <2>1. pc[p] = "rUncount" /\ pc' = [pc EXCEPT ![p] = IF readcount - 1 = 0 THEN "rUnlock" ELSE "rDone"]
    BY <1>8 DEF ReadUncount
  <2>2. mutex' = mutex /\ wrt' = wrt /\ readcount' = readcount - 1
    BY <1>8 DEF ReadUncount
  <2>3. InMutex(p)' /\ \A q \in Proc : q # p => ~InMutex(q)
    BY <1>2, <2>1 DEF IInv, MutexExcludes, InMutex
  <2>4. CASE readcount - 1 = 0
    BY <1>2, <2>1, <2>3, <2>4 DEF Held, ReadersOwn
  <2>5. CASE readcount - 1 # 0
    <3>1. PICK q \in Inside' : TRUE
      <4>1. readcount' # 0
        BY <2>2, <2>5
      <4> QED BY <4>1, FS_EmptySet DEF IInv, CountExact
    <3>2. q \in Inside' /\ pc'[q] # "rLock"
      BY <1>2, <2>1, <2>3, <2>5, <3>1 DEF Inside, InMutex
    <3> QED BY <2>3, <3>2 DEF Held, ReadersOwn
  <2> QED BY <2>4, <2>5
<1>9. CASE ReadLock(p) /\ ~UNCHANGED <<pc, mutex, wrt>>
  <2>1. pc[p] = "rLock" /\ pc' = [pc EXCEPT ![p] = "rUp"] /\ mutex' = mutex
    BY <1>9 DEF ReadLock, LockAcquire, Checked
  <2> QED BY <1>2, <2>1 DEF Held, InMutex, ReadersOwn, Inside
<1>10. CASE ReadUnlock(p) /\ ~UNCHANGED <<pc, mutex, wrt>>
  <2>1. pc[p] = "rUnlock" /\ pc' = [pc EXCEPT ![p] = "rDone"] /\ mutex' = mutex /\ wrt' = wrt + 1
    BY <1>10 DEF ReadUnlock, LockRelease, Checked
  <2>2. wrt' # 0
    BY <2>1 DEF IInv, TypeOK
  <2> QED BY <1>2, <2>1, <2>2 DEF Held, InMutex
<1>11. CASE WriteLock(p) /\ ~UNCHANGED <<pc, mutex, wrt>>
  <2>1. pc[p] = "wLock" /\ pc' = [pc EXCEPT ![p] = "writing"] /\ mutex' = mutex
    BY <1>11 DEF WriteLock, LockAcquire, Checked
  <2> QED BY <1>2, <2>1 DEF Held, InMutex, Writing
<1>12. CASE WriteUnlock(p) /\ ~UNCHANGED <<pc, mutex, wrt>>
  <2>1. pc[p] = "writing" /\ pc' = [pc EXCEPT ![p] = "user"] /\ mutex' = mutex /\ wrt' = wrt + 1
    BY <1>12 DEF WriteUnlock, LockRelease, Checked
  <2>2. wrt' # 0
    BY <2>1 DEF IInv, TypeOK
  <2> QED BY <1>2, <2>1, <2>2 DEF Held, InMutex
<1> QED BY <1>3, <1>4, <1>5, <1>6, <1>7, <1>8, <1>9, <1>10, <1>11, <1>12 DEF Step

\* A reader that waits for wrt keeps mutex, so everybody else may be waiting
\* for it; but then wrt belongs to a writer, which waits for nobody.
LEMMA SomebodySteps == IInv /\ Held => NoCircularWait
<1> SUFFICES ASSUME IInv, Held, ~panic, NEW p0 \in Proc, pc[p0] # "user",
                    \A p \in Proc : pc[p] \notin {"deadReader", "deadWriter"}
             PROVE  \E p \in Proc : CanStep(p)
  BY DEF NoCircularWait
<1>1. pc \in [Proc -> PC] /\ mutex \in 0 .. 1 /\ wrt \in 0 .. 1
  BY DEF IInv, TypeOK
<1>2. ASSUME NEW p \in Proc, Writing(p) PROVE CanStep(p)
  BY <1>2 DEF Writing, CanStep
<1>3. CASE mutex = 0
  <2>1. PICK p \in Proc : InMutex(p)
    BY <1>3 DEF Held
  <2>2. CASE pc[p] # "rLock" \/ wrt = 1
    BY <2>1, <2>2 DEF CanStep, InMutex
  <2>3. CASE pc[p] = "rLock" /\ wrt = 0
    <3>1. ~ReadersOwn
      BY <2>1, <2>3 DEF ReadersOwn, IInv, FirstAndLast, MutexExcludes, InMutex
    <3> QED BY <1>2, <2>3, <3>1 DEF Held
  <2> QED BY <1>1, <2>2, <2>3
<1>4. CASE mutex = 1
  <2>1. \A p \in Proc : ~InMutex(p)
    BY <1>4 DEF IInv, MutexExcludes
  <2>2. CASE pc[p0] # "wLock" \/ wrt = 1
    BY <1>1, <1>4, <2>1, <2>2 DEF CanStep, InMutex, PC
  <2>3. CASE wrt = 0 /\ ReadersOwn
    <3>1. PICK q \in Proc : pc[q] \in {"reading", "rLeave"}
      BY <2>1, <2>3 DEF ReadersOwn, Inside, InMutex
    <3> QED BY <1>4, <3>1 DEF CanStep
  <2> QED BY <1>1, <1>2, <2>2, <2>3 DEF Held
<1> QED BY <1>1, <1>3, <1>4

\* Whatever the number of readers and writers, and in whatever order they come
\* and go: as long as nobody has died inside, some process inside a call can
\* take its next step; read and write never wait for each other in a circle.
THEOREM NeverStuck == Spec => []NoCircularWait
<1>1. Init => IInv /\ Held
  BY InitStep, HeldInit
<1>2. IInv /\ Held /\ [Next]_vars => IInv' /\ Held'
  BY InvariantStep, HeldStep
<1> QED BY <1>1, <1>2, SomebodySteps, PTL DEF Spec
=============================================================================
