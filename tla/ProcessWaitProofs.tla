-------------------------- MODULE ProcessWaitProofs ---------------------------
(* Theorems about ProcessWait, for any number of processes.                *)
EXTENDS ProcessWait, TLAPS

(* A thread not yet created has no unit of memory_lock: the third part of  *)
(* the inductive invariant, beside OwnChildren and HeldIsAlive.            *)
NewIsFresh == \A c \in Proc : pc[c] = "none" => memory_lock[c] = 0

IInv == TypeOK /\ OwnChildren /\ HeldIsAlive /\ NewIsFresh

\* TypeOK holds initially and every step preserves it.
LEMMA TypeStep == (Init => TypeOK) /\ (TypeOK /\ [Next]_vars => TypeOK')
<1> USE ProcessAssumption
<1>1. Init => TypeOK
  BY DEF Init, TypeOK, PC
<1>2. ASSUME TypeOK, [Next]_vars PROVE TypeOK'
  <2> USE <1>2 DEF TypeOK, PC, Goto
  <2>1. ASSUME NEW p \in Proc, NEW c \in Proc, Execute(p, c) PROVE TypeOK'
    BY <2>1 DEF Execute
  <2>2. ASSUME NEW p \in Proc, NEW c \in Proc, ExecuteFails(p, c) PROVE TypeOK'
    BY <2>2 DEF ExecuteFails
  <2>3. ASSUME NEW p \in Proc, NEW c \in Proc, WaitFind(p, c) PROVE TypeOK'
    BY <2>3 DEF WaitFind
  <2>4. ASSUME NEW p \in Proc, Kill(p) PROVE TypeOK'
    BY <2>4 DEF Kill
  <2>5. ASSUME NEW p \in Proc, NEW s \in Code, UserExit(p, s) PROVE TypeOK'
    BY <2>5 DEF UserExit
  <2>6. ASSUME NEW p \in Proc, Load(p) \/ LoadUp(p) PROVE TypeOK'
    <3>1. CASE Load(p)
      <4>1. PICK success \in BOOLEAN :
              load_succeded' = [load_succeded EXCEPT ![p] = success]
        BY <3>1 DEF Load
      <4> QED BY <3>1, <4>1 DEF Load
    <3>2. CASE LoadUp(p)
      BY <3>2 DEF LoadUp
    <3> QED BY <2>6, <3>1, <3>2
  <2>7. ASSUME NEW p \in Proc, ExecDown(p) \/ ExecReturn(p) PROVE TypeOK'
    <3>1. CASE ExecDown(p)
      BY <3>1 DEF ExecDown
    <3>2. CASE ExecReturn(p)
      BY <3>2 DEF ExecReturn
    <3> QED BY <2>7, <3>1, <3>2
  <2>8. ASSUME NEW p \in Proc, WaitDown(p) \/ WaitRead(p) \/ WaitRemove(p)
        PROVE TypeOK'
    BY <2>8 DEF WaitDown, WaitRead, WaitRemove
  <2>9. ASSUME NEW p \in Proc, WaitReturn(p) PROVE TypeOK'
    BY <2>9 DEF WaitReturn
  <2>10. ASSUME NEW p \in Proc, ExitUp(p) \/ ExitDown(p) \/ Free(p) PROVE TypeOK'
    BY <2>10 DEF ExitUp, ExitDown, Free
  <2>11. CASE UNCHANGED vars
    BY <2>11 DEF vars
  <2> QED
    BY <1>2, <2>1, <2>2, <2>3, <2>4, <2>5, <2>6, <2>7, <2>8, <2>9, <2>10, <2>11
       DEF Next, Step
<1> QED BY <1>1, <1>2

\* The handshake: while a parent holds a child, the child stays; every step
\* keeps it so.
LEMMA HandshakeStep ==
  ASSUME IInv, [Next]_vars
  PROVE  (OwnChildren /\ HeldIsAlive /\ NewIsFresh)'
<1> DEFINE Goal == (OwnChildren /\ HeldIsAlive /\ NewIsFresh)'
<1> USE ProcessAssumption
<1> USE DEF IInv, TypeOK, PC, Goto, OwnChildren, HeldIsAlive, NewIsFresh, Held
<1>1. ASSUME NEW p \in Proc, NEW c \in Proc, Execute(p, c) PROVE Goal
  <2>1. c \notin child[parent[c]] /\ memory_lock[c] = 0 /\ p # c
    BY <1>1 DEF Execute
  <2>2. \A q \in Proc : c \notin child[q]
    BY <1>1 DEF Execute
  <2>3. OwnChildren'
    <3>1. ASSUME NEW q \in Proc, NEW d \in child'[q]
          PROVE  parent'[d] = q /\ pc'[d] # "none"
      BY <1>1, <2>1, <2>2, <3>1 DEF Execute
    <3>2. ASSUME NEW q \in Proc,
                 pc'[q] \in {"execDown", "execRead",
                             "waitDown", "waitRead", "waitRemove"}
          PROVE  arg'[q] \in child'[q]
      BY <1>1, <2>1, <3>2 DEF Execute
    <3>3. ASSUME NEW q \in Proc, pc'[q] = "waitUp"
          PROVE  parent'[arg'[q]] = q /\ arg'[q] \notin child'[q]
      BY <1>1, <2>1, <3>3 DEF Execute
    <3> QED BY <3>1, <3>2, <3>3
  <2>4. HeldIsAlive'
    BY <1>1, <2>1, <2>2 DEF Execute
  <2>5. NewIsFresh'
    BY <1>1, <2>1 DEF Execute
  <2> QED BY <2>3, <2>4, <2>5
<1>2. ASSUME NEW p \in Proc, NEW c \in Proc, ExecuteFails(p, c) PROVE Goal
  BY <1>2 DEF ExecuteFails
<1>3. ASSUME NEW p \in Proc, NEW c \in Proc, WaitFind(p, c) PROVE Goal
  <2>1. CASE c \in child[p]
    <3>1. OwnChildren'
      BY <1>3, <2>1 DEF WaitFind
    <3>2. HeldIsAlive'
      BY <1>3, <2>1 DEF WaitFind
    <3>3. NewIsFresh'
      BY <1>3, <2>1 DEF WaitFind
    <3> QED BY <3>1, <3>2, <3>3
  <2>2. CASE c \notin child[p]
    <3>1. /\ pc' = [pc EXCEPT ![p] = "user"]
          /\ arg' = [arg EXCEPT ![p] = Main]
          /\ pc[p] \in {"user", "task"}
          /\ UNCHANGED <<child, parent, memory_lock>>
      BY <1>3, <2>2 DEF WaitFind
    <3>2. OwnChildren'
      BY <3>1
    <3>3. HeldIsAlive'
      BY <3>1
    <3>4. NewIsFresh'
      BY <3>1
    <3> QED BY <3>2, <3>3, <3>4
  <2> QED BY <2>1, <2>2
<1>4. ASSUME NEW p \in Proc, Kill(p) PROVE Goal
  BY <1>4 DEF Kill
<1>5. ASSUME NEW p \in Proc, NEW s \in Code, UserExit(p, s) PROVE Goal
  BY <1>5 DEF UserExit
<1>6. ASSUME NEW p \in Proc, Load(p) \/ LoadUp(p) PROVE Goal
  <2>1. CASE Load(p)
    BY <2>1 DEF Load
  <2>2. CASE LoadUp(p)
    BY <2>2 DEF LoadUp
  <2> QED BY <1>6, <2>1, <2>2
<1>7. ASSUME NEW p \in Proc, ExecDown(p) \/ ExecReturn(p) PROVE Goal
  <2>1. CASE ExecDown(p)
    BY <2>1 DEF ExecDown
  <2>2. CASE ExecReturn(p)
    BY <2>2 DEF ExecReturn
  <2> QED BY <1>7, <2>1, <2>2
<1>8. ASSUME NEW p \in Proc, WaitDown(p) \/ WaitRead(p) PROVE Goal
  BY <1>8 DEF WaitDown, WaitRead
<1>9. ASSUME NEW p \in Proc, WaitRemove(p) PROVE Goal
  BY <1>9 DEF WaitRemove
<1>10. ASSUME NEW p \in Proc, WaitReturn(p) PROVE Goal
  <2>1. Held(arg[p]) /\ parent[arg[p]] = p /\ arg[p] \notin child[p]
    BY <1>10 DEF WaitReturn
  <2> QED BY <1>10, <2>1 DEF WaitReturn
<1>11. ASSUME NEW p \in Proc, ExitUp(p) \/ ExitDown(p) PROVE Goal
  <2>1. CASE ExitUp(p)
    BY <2>1 DEF ExitUp
  <2>2. CASE ExitDown(p)
    BY <2>2 DEF ExitDown
  <2> QED BY <1>11, <2>1, <2>2
<1>12. ASSUME NEW p \in Proc, Free(p) PROVE Goal
  BY <1>12 DEF Free
<1>13. CASE UNCHANGED vars
  BY <1>13 DEF vars
<1> QED
  BY <1>1, <1>2, <1>3, <1>4, <1>5, <1>6, <1>7, <1>8, <1>9, <1>10, <1>11,
     <1>12, <1>13 DEF Next, Step

LEMMA InvariantStep == (Init => IInv) /\ (IInv /\ [Next]_vars => IInv')
<1>1. Init => IInv
  BY TypeStep
     DEF Init, IInv, OwnChildren, HeldIsAlive, NewIsFresh, Held, TypeOK
<1>2. ASSUME IInv, [Next]_vars PROVE IInv'
  BY <1>2, TypeStep, HandshakeStep DEF IInv
<1> QED BY <1>1, <1>2

\* Every state of every run is well-typed.
THEOREM TypeCorrect == Spec => []TypeOK
<1>1. IInv => TypeOK
  BY DEF IInv
<1> QED BY <1>1, InvariantStep, PTL DEF Spec

\* The handshake invariant itself.
THEOREM Handshake == Spec => []ChildrenHeld
<1>1. IInv => ChildrenHeld
  BY DEF IInv, ChildrenHeld
<1> QED BY <1>1, InvariantStep, PTL DEF Spec

\* No struct thread is used, or linked in a live child list, after its page
\* was freed.
THEOREM UseAfterFree == Spec => []NoUseAfterFree
<1>1. ASSUME IInv PROVE NoUseAfterFree
  <2>1. SUFFICES ASSUME NEW p \in Proc, NEW c \in Proc,
                        Uses(p, c) \/ (pc[p] # "freed" /\ c \in child[p])
                 PROVE  pc[c] \notin {"none", "freed"}
    BY DEF NoUseAfterFree
  <2>2. CASE c \in child[p]
    BY <1>1, <2>2 DEF IInv, OwnChildren, HeldIsAlive, Held
  <2>3. CASE Uses(p, c) /\ pc[p] = "waitUp"
    BY <1>1, <2>3 DEF IInv, OwnChildren, HeldIsAlive, Held, Uses
  <2>4. CASE Uses(p, c) /\ pc[p] # "waitUp"
    BY <1>1, <2>2, <2>4 DEF IInv, OwnChildren, Uses
  <2> QED BY <2>1, <2>2, <2>3, <2>4
<1> QED BY <1>1, InvariantStep, PTL DEF Spec

-----------------------------------------------------------------------------
(* ProcessWait implements ProcessTable, for any number of processes.       *)

Gone == {"dying", "freed"}

(* What the units in a child's semaphores say about it.                    *)
Sync ==
  \A c \in Proc :
    /\ memory_lock[c] > 0 => memory_lock[c] = 1 /\ pc[c] = "exitDown"
    /\ exit_lock[c] > 0 => pc[c] \in {"exitDown"} \cup Gone
    /\ load_lock[c] > 0 => pc[c] \notin {"none", "start", "loaded"}

(* What a call in progress has learnt of its child.                        *)
Calls ==
  \A p \in Proc :
    /\ pc[p] = "execRead" => pc[arg[p]] \notin {"none", "start", "loaded"}
    /\ pc[p] \in {"waitRead", "waitRemove", "waitUp"} => pc[arg[p]] = "exitDown"
    /\ pc[p] \in {"waitRemove", "waitUp"} => ret[p] = exit_status[arg[p]]

(* Main is never loaded nor exits; who was not loaded never ran.           *)
Loading ==
  /\ pc[Main] \in {"user", "task", "waitDown", "waitRead", "waitRemove", "waitUp"}
  /\ ~load_succeded[Main]
  /\ \A c \in Proc \ {Main} :
       /\ pc[c] \in {"none", "start"} => ~load_succeded[c]
       /\ ~load_succeded[c] =>
            /\ pc[c] \in {"none", "start", "loaded", "exitUp", "exitDown"} \cup Gone
            /\ exit_status[c] = 0

(* A child its parent no longer holds has been let go.                     *)
Kept ==
  \A c \in Proc \ {Main} :
    pc[c] # "none" => Held(c) \/ memory_lock[c] > 0 \/ pc[c] \in Gone

RInv == IInv /\ Sync /\ Calls /\ Loading /\ Kept

\* The invariant holds when initial_thread starts.
LEMMA InitRInv == Init => RInv
BY ProcessAssumption, InvariantStep DEF Init, RInv, Sync, Calls, Loading, Kept, Gone

\* Every step keeps what the semaphores and the calls say.
LEMMA HistoryStep ==
  ASSUME RInv, [Next]_vars
  PROVE  Sync' /\ Calls' /\ Loading' /\ Kept'
<1> DEFINE Goal == Sync' /\ Calls' /\ Loading' /\ Kept'
<1> USE ProcessAssumption
<1> USE DEF RInv, IInv, TypeOK, PC, Goto, OwnChildren, HeldIsAlive, NewIsFresh, Held,
            Sync, Calls, Loading, Kept, Gone
<1>1. ASSUME NEW p \in Proc, NEW c \in Proc, Execute(p, c) PROVE Goal
  <2>1. p # c /\ pc' = [pc EXCEPT ![c] = "start", ![p] = IF p = Main THEN "task" ELSE "execDown"]
    BY <1>1 DEF Execute
  <2>2. c # Main
    BY <1>1 DEF Execute
  <2>3. Sync'
    BY <1>1, <2>1 DEF Execute
  <2>4. Calls'
    BY <1>1, <2>1 DEF Execute
  <2>5. Loading'
    <3>1. UNCHANGED <<load_succeded, exit_status>> /\ pc[p] = "user"
      BY <1>1 DEF Execute
    <3>2. p # Main => load_succeded[p]
      BY <3>1
    <3>3. pc'[Main] \in {"user", "task"} \/ (Main # p /\ pc'[Main] = pc[Main])
      BY <2>1, <2>2, <3>1
    <3>4. ASSUME NEW d \in Proc \ {Main}, d # p, d # c PROVE pc'[d] = pc[d]
      BY <2>1, <3>4
    <3>5. pc'[c] = "start" /\ ~load_succeded[c] /\ exit_status[c] = 0
      BY <1>1, <2>1, <2>2 DEF Execute
    <3>6. p # Main => load_succeded[p] /\ pc'[p] = "execDown"
      BY <2>1, <3>2
    <3> QED BY <2>2, <3>1, <3>3, <3>4, <3>5, <3>6
  <2>6. Kept'
    BY <1>1, <2>1, <2>2 DEF Execute
  <2> QED BY <2>3, <2>4, <2>5, <2>6
<1>2. ASSUME NEW p \in Proc, NEW c \in Proc, ExecuteFails(p, c) PROVE Goal
  BY <1>2 DEF ExecuteFails
<1>3. ASSUME NEW p \in Proc, NEW c \in Proc, WaitFind(p, c) PROVE Goal
  <2>1. /\ pc[p] \in {"user", "task"} /\ (p # Main => load_succeded[p])
        /\ \E l \in {"waitDown", "user"}, d \in Proc :
             /\ pc' = [pc EXCEPT ![p] = l]
             /\ arg' = [arg EXCEPT ![p] = d]
        /\ UNCHANGED <<ret, parent, child, exit_status, load_succeded, load_lock,
                       exit_lock, memory_lock>>
    <3>1. CASE c \in child[p]
      BY <1>3, <3>1 DEF WaitFind
    <3>2. CASE c \notin child[p]
      BY <1>3, <3>2 DEF WaitFind
    <3> QED BY <3>1, <3>2
  <2>2. PICK l \in {"waitDown", "user"}, d \in Proc :
          /\ pc' = [pc EXCEPT ![p] = l]
          /\ arg' = [arg EXCEPT ![p] = d]
    BY <2>1
  <2>3. Sync'
    BY <2>1, <2>2
  <2>4. Calls'
    BY <2>1, <2>2
  <2>5. Loading'
    BY <2>1, <2>2
  <2>6. Kept'
    BY <2>1, <2>2
  <2> QED BY <2>3, <2>4, <2>5, <2>6
<1>4. ASSUME NEW p \in Proc, Kill(p) PROVE Goal
  BY <1>4 DEF Kill
<1>5. ASSUME NEW p \in Proc, NEW s \in Code, UserExit(p, s) PROVE Goal
  BY <1>5 DEF UserExit
<1>6. ASSUME NEW p \in Proc, Load(p) PROVE Goal
  <2>1. PICK success \in BOOLEAN :
          load_succeded' = [load_succeded EXCEPT ![p] = success]
    BY <1>6 DEF Load
  <2> QED BY <1>6, <2>1 DEF Load
<1>7. ASSUME NEW p \in Proc, LoadUp(p) PROVE Goal
  BY <1>7 DEF LoadUp
<1>8. ASSUME NEW p \in Proc, ExecDown(p) PROVE Goal
  BY <1>8 DEF ExecDown
<1>9. ASSUME NEW p \in Proc, ExecReturn(p) PROVE Goal
  BY <1>9 DEF ExecReturn
<1>10. ASSUME NEW p \in Proc, WaitDown(p) PROVE Goal
  <2>1. Held(arg[p]) /\ exit_lock[arg[p]] > 0
    BY <1>10 DEF WaitDown
  <2> QED BY <1>10, <2>1 DEF WaitDown
<1>11. ASSUME NEW p \in Proc, WaitRead(p) PROVE Goal
  BY <1>11 DEF WaitRead
<1>12. ASSUME NEW p \in Proc, WaitRemove(p) PROVE Goal
  BY <1>12 DEF WaitRemove
<1>13. ASSUME NEW p \in Proc, WaitReturn(p) PROVE Goal
  <2>1. pc[arg[p]] = "exitDown" /\ arg[p] # p /\ parent[arg[p]] = p
    BY <1>13 DEF WaitReturn
  <2>2. Sync'
    BY <1>13, <2>1 DEF WaitReturn
  <2>3. Calls'
    <3>1. ASSUME NEW q \in Proc \ {p} PROVE pc'[q] = pc[q] /\ arg'[q] = arg[q] /\ ret'[q] = ret[q]
      BY <1>13 DEF WaitReturn
    <3>2. pc'[p] = "user"
      BY <1>13 DEF WaitReturn
    <3> QED BY <1>13, <2>1, <3>1, <3>2 DEF WaitReturn
  <2>4. Loading'
    BY <1>13, <2>1 DEF WaitReturn
  <2>5. Kept'
    BY <1>13, <2>1 DEF WaitReturn
  <2> QED BY <2>2, <2>3, <2>4, <2>5
<1>14. ASSUME NEW p \in Proc, ExitUp(p) PROVE Goal
  BY <1>14 DEF ExitUp
<1>15. ASSUME NEW p \in Proc, ExitDown(p) PROVE Goal
  <2>1. /\ pc[p] = "exitDown" /\ memory_lock[p] > 0
        /\ pc' = [pc EXCEPT ![p] = "dying"]
        /\ memory_lock' = [memory_lock EXCEPT ![p] = @ - 1]
        /\ UNCHANGED <<arg, ret, parent, child, exit_status, load_succeded,
                       load_lock, exit_lock>>
    BY <1>15 DEF ExitDown
  <2>2. ~Held(p)
    BY <2>1
  <2>3. Sync'
    BY <2>1, <2>2
  <2>4. Calls'
    BY <2>1, <2>2
  <2>5. Loading'
    BY <2>1
  <2>6. Kept'
    BY <2>1
  <2> QED BY <2>3, <2>4, <2>5, <2>6
<1>16. ASSUME NEW p \in Proc, Free(p) PROVE Goal
  BY <1>16 DEF Free
<1>17. CASE UNCHANGED vars
  BY <1>17 DEF vars
<1> QED
  BY <1>1, <1>2, <1>3, <1>4, <1>5, <1>6, <1>7, <1>8, <1>9, <1>10, <1>11, <1>12, <1>13,
     <1>14, <1>15, <1>16, <1>17 DEF Next, Step

\* The invariant is inductive.
LEMMA RInvStep == RInv /\ [Next]_vars => RInv'
BY InvariantStep, HistoryStep DEF RInv

-----------------------------------------------------------------------------
(* The abstract state of a state of ProcessWait, by name.                  *)
State  == [p \in Proc |-> Life(p)]
Loaded == {p \in Proc : load_succeded[p]}
Codes  == [p \in Proc |-> Outcome(p)]

(* Who is where in the abstract life.                                      *)
Places ==
  \A p \in Proc :
    /\ pc[p] = "none" => Life(p) = "none"
    /\ pc[p] = "start" => Life(p) = "loading"
    /\ pc[p] \in {"loaded", "exitUp"} =>
         Life(p) = IF load_succeded[p] THEN "live" ELSE "failed"
    /\ pc[p] = "exitDown" =>
         Life(p) = IF memory_lock[p] > 0 THEN "reaped" ELSE "exited"
    /\ pc[p] \in Gone => Life(p) = "reaped"
    /\ pc[p] \in {"user", "task", "execDown", "execRead", "waitDown",
                  "waitRead", "waitRemove", "waitUp"} => Life(p) = "live"

\* It follows from the invariant.
LEMMA Placed == RInv => Places
<1> SUFFICES ASSUME RInv PROVE Places
  OBVIOUS
<1>1. \A p \in Proc :
        memory_lock[p] \in Nat /\ (memory_lock[p] > 0 => pc[p] = "exitDown")
  BY DEF RInv, IInv, TypeOK, Sync
<1> QED BY <1>1 DEF Places, Life, Gone

\* A step in which every process stays where it is, is a stuttering step.
LEMMA Stutter ==
  ASSUME \A p \in Proc : Life(p)' = Life(p) /\ Outcome(p)' = Outcome(p),
         UNCHANGED <<parent, load_succeded, reply>>
  PROVE  UNCHANGED Table!tableVars
BY DEF Table!tableVars

\* The kernel starts with the table of module ProcessTable.
LEMMA InitMaps == Init => Table!Init
<1> SUFFICES ASSUME Init PROVE Table!Init
  OBVIOUS
<1>1. RInv
  BY InitRInv
<1>2. \A p \in Proc : Life(p) = IF p = Main THEN "live" ELSE "none"
  BY <1>1, Placed DEF Init, Places
<1>3. \A p \in Proc : Outcome(p) = 0
  BY DEF Init, Outcome
<1>4. {p \in Proc : load_succeded[p]} = {}
  BY DEF Init
<1> QED BY <1>2, <1>3, <1>4 DEF Init, Table!Init, NoReply, Table!NoReply

\* A process whose thread does not move keeps its place and its outcome.
LEMMA SamePlace ==
  ASSUME NEW q \in Proc, pc'[q] = pc[q], load_succeded'[q] = load_succeded[q],
         memory_lock'[q] = memory_lock[q]
  PROVE  Life(q)' = Life(q)
BY DEF Life

\* Every step is a step of the table, or leaves it as it is.
LEMMA StepMaps ==
  ASSUME RInv, RInv', [Next]_vars
  PROVE  [Table!Next]_(Table!tableVars)
<1> DEFINE Abstract == [Table!Next]_(Table!tableVars)
<1> USE ProcessAssumption
<1>t. TypeOK /\ Sync /\ Calls /\ Loading /\ Kept /\ OwnChildren /\ HeldIsAlive
  BY DEF RInv, IInv
<1>l. Places
  BY Placed
<1>m. Places'
  BY Placed, PTL
<1> USE DEF TypeOK, Goto, Gone
\* exec starts a child.
<1>1. ASSUME NEW p \in Proc, NEW c \in Proc, Execute(p, c) PROVE Abstract
  <2>1. /\ p # c /\ pc[p] = "user" /\ pc[c] = "none"
        /\ pc' = [pc EXCEPT ![c] = "start",
                            ![p] = IF p = Main THEN "task" ELSE "execDown"]
        /\ parent' = [parent EXCEPT ![c] = p]
        /\ UNCHANGED <<exit_status, load_succeded, memory_lock, reply>>
    BY <1>1 DEF Execute
  <2>2. Life(p) = "live" /\ Life(c) = "none" /\ Life(p)' = "live" /\ Life(c)' = "loading"
    BY <1>t, <1>l, <1>m, <2>1 DEF Places
  <2>3. \A q \in Proc \ {c, p} : Life(q)' = Life(q)
    BY <1>t, <2>1, SamePlace
  <2>4. State' = [State EXCEPT ![c] = "loading"]
    BY <2>2, <2>3 DEF State
  <2>5. \A q \in Proc : Outcome(q)' = Outcome(q)
    BY <1>t, <2>1 DEF Outcome
  <2>6. Table!Spawn(p, c)
    BY <2>1, <2>2, <2>4, <2>5 DEF Table!Spawn, State
  <2> QED BY <2>6 DEF Table!Next
<1>2. ASSUME NEW p \in Proc, NEW c \in Proc, ExecuteFails(p, c) PROVE Abstract
  <2>1. /\ pc[p] = "user" /\ pc[c] = "none" /\ Return(p, "exec", c, Failed)
        /\ UNCHANGED <<pc, parent, exit_status, load_succeded, memory_lock>>
    BY <1>2 DEF ExecuteFails
  <2>2. Life(p) = "live" /\ Life(c) = "none"
    BY <1>l, <2>1 DEF Places
  <2>3. \A q \in Proc : Life(q)' = Life(q) /\ Outcome(q)' = Outcome(q)
    BY <2>1, SamePlace DEF Outcome
  <2>4. Table!SpawnFails(p, c)
    BY <2>1, <2>2, <2>3 DEF Table!SpawnFails, Table!Answer, Table!Failed, Return, Failed
  <2> QED BY <2>4 DEF Table!Next
<1>3. ASSUME NEW p \in Proc, Load(p) PROVE Abstract
  <2>1. PICK success \in BOOLEAN :
          load_succeded' = [load_succeded EXCEPT ![p] = success]
    BY <1>3 DEF Load
  <2>2. /\ pc[p] = "start" /\ p # Main /\ pc' = [pc EXCEPT ![p] = "loaded"]
        /\ UNCHANGED <<parent, exit_status, memory_lock, reply>>
    BY <1>t, <1>3 DEF Load, Loading
  <2>3. Life(p) = "loading" /\ Life(p)' = IF success THEN "live" ELSE "failed"
    BY <1>t, <1>l, <1>m, <2>1, <2>2 DEF Places
  <2>4. \A q \in Proc \ {p} : Life(q)' = Life(q)
    BY <1>t, <2>1, <2>2, SamePlace
  <2>5. \A q \in Proc : Outcome(q)' = Outcome(q)
    BY <1>t, <2>2 DEF Outcome
  <2>6. ~load_succeded[p]
    BY <1>t, <2>2 DEF Loading
  <2>7. Loaded' = IF success THEN Loaded \cup {p} ELSE Loaded
    BY <1>t, <2>1, <2>6 DEF Loaded
  <2>8. State' = [State EXCEPT ![p] = IF success THEN "live" ELSE "failed"]
    BY <2>3, <2>4 DEF State
  <2>9. Table!Load(p)
    BY <2>2, <2>3, <2>5, <2>7, <2>8 DEF Table!Load, State, Loaded
  <2> QED BY <2>9 DEF Table!Next
<1>4. ASSUME NEW p \in Proc, ExecReturn(p) PROVE Abstract
  <2>1. /\ pc[p] = "execRead" /\ pc' = [pc EXCEPT ![p] = "user"]
        /\ Return(p, "exec", arg[p], IF load_succeded[arg[p]] THEN arg[p] ELSE Failed)
        /\ UNCHANGED <<parent, exit_status, load_succeded, memory_lock>>
    BY <1>4 DEF ExecReturn
  <2>2. arg[p] \in Proc /\ parent[arg[p]] = p
    BY <1>t, <2>1 DEF OwnChildren
  <2>3. Life(arg[p]) \notin {"none", "loading"} /\ Life(p) = "live" /\ Life(p)' = "live"
    BY <1>t, <1>l, <1>m, <2>1, <2>2 DEF Places, Calls, PC
  <2>4. \A q \in Proc \ {p} : Life(q)' = Life(q)
    BY <1>t, <2>1, SamePlace
  <2>5. \A q \in Proc : Life(q)' = Life(q) /\ Outcome(q)' = Outcome(q)
    BY <1>t, <2>1, <2>3, <2>4 DEF Outcome
  <2>6. Table!ExecReturn(p, arg[p])
    BY <2>1, <2>2, <2>3, <2>5
       DEF Table!ExecReturn, Table!Answer, Table!Failed, Return, Failed
  <2> QED BY <2>2, <2>6 DEF Table!Next
\* A wait that finds its child only starts; one that does not is answered.
<1>5. ASSUME NEW p \in Proc, NEW c \in Proc, WaitFind(p, c) PROVE Abstract
  <2>1. PICK l \in {"waitDown", "user"} :
          /\ pc[p] \in {"user", "task"} /\ pc' = [pc EXCEPT ![p] = l]
          /\ UNCHANGED <<parent, exit_status, load_succeded, memory_lock>>
    BY <1>5 DEF WaitFind
  <2>2. Life(p) = "live" /\ Life(p)' = "live"
    BY <1>t, <1>l, <1>m, <2>1 DEF Places
  <2>3. \A q \in Proc \ {p} : Life(q)' = Life(q)
    BY <1>t, <2>1, SamePlace
  <2>4. \A q \in Proc : Life(q)' = Life(q) /\ Outcome(q)' = Outcome(q)
    BY <1>t, <2>1, <2>2, <2>3 DEF Outcome
  <2>5. CASE c \in child[p]
    BY <1>5, <2>1, <2>4, <2>5, Stutter DEF WaitFind
  <2>6. CASE c \notin child[p]
    <3>1. Return(p, "wait", c, Failed)
      BY <1>5, <2>6 DEF WaitFind
    <3>2. Life(c) \in {"none", "reaped"} \/ parent[c] # p \/ c = Main
      <4>1. SUFFICES ASSUME parent[c] = p, c # Main, pc[c] # "none"
                     PROVE  Life(c) = "reaped"
        BY <1>l DEF Places
      <4>2. memory_lock[c] > 0 \/ pc[c] \in Gone
        BY <1>t, <2>1, <2>6, <4>1 DEF Kept, Held
      <4> QED BY <1>t, <1>l, <4>2 DEF Places, Sync
    <3>3. Table!WaitFails(p, c)
      BY <2>1, <2>2, <2>4, <3>1, <3>2
         DEF Table!WaitFails, Table!Answer, Table!Failed, Return, Failed
    <3> QED BY <3>3 DEF Table!Next
  <2> QED BY <2>5, <2>6
\* process_wait releases the child: it is reaped, with the code it exited with.
<1>6. ASSUME NEW p \in Proc, WaitReturn(p) PROVE Abstract
  <2>0. PICK c \in Proc : c = arg[p]
    BY <1>t
  <2>1. /\ c = arg[p] /\ pc[p] = "waitUp" /\ pc' = [pc EXCEPT ![p] = "user"]
        /\ memory_lock' = [memory_lock EXCEPT ![c] = @ + 1]
        /\ Return(p, "wait", c, ret[p])
        /\ UNCHANGED <<parent, exit_status, load_succeded>>
    BY <1>t, <1>6, <2>0 DEF WaitReturn
  <2>2. parent[c] = p /\ pc[c] = "exitDown" /\ ret[p] = exit_status[c] /\ c # p
    BY <1>t, <2>1 DEF OwnChildren, Calls
  <2>3. memory_lock[c] = 0 /\ memory_lock'[c] = 1
    BY <1>t, <2>1, <2>2 DEF HeldIsAlive, Held
  <2>4. /\ Life(p) = "live" /\ Life(c) = "exited"
        /\ Life(p)' = "live" /\ Life(c)' = "reaped"
    BY <1>t, <1>l, <1>m, <2>1, <2>2, <2>3 DEF Places
  <2>5. \A q \in Proc \ {p, c} : Life(q)' = Life(q)
    BY <1>t, <2>1, SamePlace
  <2>6. State' = [State EXCEPT ![c] = "reaped"]
    BY <2>4, <2>5 DEF State
  <2>7. Outcome(c) = ret[p] /\ \A q \in Proc : Outcome(q)' = Outcome(q)
    BY <1>t, <2>1, <2>2 DEF Outcome
  <2>8. Table!Wait(p, c)
    BY <1>t, <2>1, <2>2, <2>4, <2>6, <2>7 DEF Table!Wait, Table!Answer, Return, State
  <2> QED BY <2>8 DEF Table!Next
\* process_exit tells the parent: the process has exited.
<1>7. ASSUME NEW p \in Proc, ExitUp(p) PROVE Abstract
  <2>1. /\ pc[p] = "exitUp" /\ p # Main /\ pc' = [pc EXCEPT ![p] = "exitDown"]
        /\ UNCHANGED <<parent, exit_status, load_succeded, memory_lock, reply>>
    BY <1>t, <1>7 DEF ExitUp, Loading
  <2>2. Life(p) = "live" \/ (Life(p) = "failed" /\ exit_status[p] = 0)
    BY <1>t, <1>l, <2>1 DEF Places, Loading
  <2>3. memory_lock[p] = 0
    BY <1>t, <2>1 DEF Sync
  <2>4. Life(p)' = "exited"
    BY <1>t, <1>m, <2>1, <2>3 DEF Places
  <2>5. \A q \in Proc \ {p} : Life(q)' = Life(q)
    BY <1>t, <2>1, SamePlace
  <2>6. State' = [State EXCEPT ![p] = "exited"]
    BY <2>4, <2>5 DEF State
  <2>7. Codes' = [Codes EXCEPT ![p] = exit_status[p]]
    BY <1>t, <2>1 DEF Codes, Outcome
  <2>8. Table!Exit(p, exit_status[p])
    BY <2>1, <2>2, <2>6, <2>7 DEF Table!Exit, State, Codes
  <2>9. exit_status[p] \in Code
    BY <1>t
  <2> QED BY <2>8, <2>9 DEF Table!Next
\* Nobody sees the other steps.
<1>8. ASSUME NEW p \in Proc, NEW l,
             /\ pc' = [pc EXCEPT ![p] = l] /\ Life(p)' = Life(p)
             /\ Outcome(p)' = Outcome(p)
             /\ \A q \in Proc \ {p} : memory_lock'[q] = memory_lock[q]
                                      /\ exit_status'[q] = exit_status[q]
             /\ UNCHANGED <<parent, load_succeded, reply>>
      PROVE  Abstract
  <2>1. \A q \in Proc \ {p} : Life(q)' = Life(q)
    BY <1>t, <1>8, SamePlace
  <2>2. \A q \in Proc \ {p} : Outcome(q)' = Outcome(q)
    BY <1>t, <1>8 DEF Outcome
  <2> QED BY <1>8, <2>1, <2>2, Stutter
<1>9. ASSUME NEW p \in Proc, LoadUp(p) PROVE Abstract
  <2>1. /\ pc[p] = "loaded"
        /\ pc' = [pc EXCEPT ![p] = IF load_succeded[p] THEN "user" ELSE "exitUp"]
        /\ UNCHANGED <<parent, exit_status, load_succeded, memory_lock, reply>>
    BY <1>9 DEF LoadUp
  <2>2. Life(p)' = Life(p) /\ Outcome(p)' = Outcome(p)
    BY <1>t, <1>l, <1>m, <2>1 DEF Places, Outcome
  <2> QED BY <1>8, <2>1, <2>2
<1>10. ASSUME NEW p \in Proc, ExecDown(p) \/ WaitDown(p) \/ WaitRead(p) \/ WaitRemove(p)
       PROVE  Abstract
  <2>1. PICK l \in {"execRead", "waitRead", "waitRemove", "waitUp"} :
        /\ pc[p] \in {"execDown", "waitDown", "waitRead", "waitRemove"}
        /\ pc' = [pc EXCEPT ![p] = l]
        /\ UNCHANGED <<parent, exit_status, load_succeded, memory_lock, reply>>
    BY <1>10 DEF ExecDown, WaitDown, WaitRead, WaitRemove
  <2>2. Life(p)' = Life(p) /\ Outcome(p)' = Outcome(p)
    BY <1>t, <1>l, <1>m, <2>1 DEF Places, Outcome
  <2> QED BY <1>8, <2>1, <2>2
<1>11. ASSUME NEW p \in Proc, Kill(p) \/ \E s \in Code : UserExit(p, s) PROVE Abstract
  <2>1. /\ pc[p] = "user" /\ p # Main /\ pc' = [pc EXCEPT ![p] = "exitUp"]
        /\ \A q \in Proc \ {p} : exit_status'[q] = exit_status[q]
        /\ UNCHANGED <<parent, load_succeded, memory_lock, reply>>
    BY <1>t, <1>11 DEF Kill, UserExit
  <2>2. load_succeded[p]
    BY <1>t, <2>1 DEF Loading
  <2>3. Life(p)' = Life(p) /\ Outcome(p)' = Outcome(p)
    BY <1>t, <1>l, <1>m, <2>1, <2>2 DEF Places, Outcome
  <2> QED BY <1>8, <2>1, <2>3
<1>12. ASSUME NEW p \in Proc, ExitDown(p) \/ Free(p) PROVE Abstract
  <2>1. PICK l \in Gone :
        /\ pc[p] \in Gone \/ (pc[p] = "exitDown" /\ memory_lock[p] > 0)
        /\ pc' = [pc EXCEPT ![p] = l]
        /\ \A q \in Proc \ {p} : memory_lock'[q] = memory_lock[q]
        /\ UNCHANGED <<parent, exit_status, load_succeded, reply>>
    BY <1>t, <1>12 DEF ExitDown, Free
  <2>2. Life(p)' = Life(p) /\ Outcome(p)' = Outcome(p)
    BY <1>t, <1>l, <1>m, <2>1 DEF Places, Outcome
  <2> QED BY <1>8, <2>1, <2>2
<1>13. CASE UNCHANGED vars
  <2>1. \A q \in Proc : Life(q)' = Life(q) /\ Outcome(q)' = Outcome(q)
    BY <1>13, SamePlace DEF vars, Outcome
  <2> QED BY <1>13, <2>1, Stutter DEF vars
<1> QED
  BY <1>1, <1>2, <1>3, <1>4, <1>5, <1>6, <1>7, <1>9, <1>10, <1>11, <1>12, <1>13
     DEF Next, Step

\* exec, wait and exit of the kernel are those of the process table: every run
\* of the three semaphores, for any number of processes, is one of ProcessTable.
THEOREM Implements == Spec => ImplementsTable
BY InitRInv, RInvStep, InitMaps, StepMaps, PTL DEF Spec, ImplementsTable, Table!Spec
=============================================================================
