----------------------------- MODULE ProcessWait ------------------------------
(***************************************************************************)
(* exec, wait and exit of userprog/syscall.c and userprog/process.c: the   *)
(* handshake of a parent and its child over the three semaphores in the    *)
(* child's struct thread, the page of which is freed when the child is     *)
(* gone.  Each step is what one thread does between two points at which    *)
(* another can act on the same child; sema_down is a step that waits for a *)
(* positive value (module Threads shows that it does not miss one).        *)
(***************************************************************************)
EXTENDS Integers, FiniteSets

CONSTANTS Proc,   \* the threads that may be created, by tid; Main among them
          Main,   \* initial_thread, which runs run_task
          Code    \* exit statuses

ASSUME ProcessAssumption ==
  /\ Main \in Proc
  /\ Code \subseteq Int /\ {-1, 0} \subseteq Code
  /\ -1 \notin Proc   \* TID_ERROR is no tid

VARIABLES
  pc,            \* where each thread stands
  arg,           \* the child its exec or wait is about, Main outside them
  ret,           \* process_wait's local exit_status, 0 outside it
  parent,        \* struct thread: parent
  child,         \* struct thread: child, the list of children
  exit_status,   \* struct thread: exit_status
  load_succeded, \* struct thread: load_succeded
  load_lock, exit_lock, memory_lock,  \* struct thread: semaphore values
  killed,        \* history: threads killed by kill() of exception.c
  reply          \* result of the last exec or wait that returned

vars == <<pc, arg, ret, parent, child, exit_status, load_succeded,
          load_lock, exit_lock, memory_lock, killed, reply>>

Failed == -1

PC == {"none",              \* not created
       "start", "loaded",   \* start_process: before load, before sema_up
       "user",              \* in the program, or in main's run_actions
       "task",              \* Main: process_execute done, process_wait not
       "execDown", "execRead",              \* exec, after get_child_thread
       "waitDown", "waitRead", "waitRemove", "waitUp",  \* process_wait
       "exitUp", "exitDown", "dying",       \* process_exit, thread_exit
       "freed"}             \* its page is back in the pool

NoReply == [call |-> "none"]

Goto(p, l) == pc' = [pc EXCEPT ![p] = l]
Return(p, call, c, r) ==
  reply' = [reply EXCEPT ![p] = [call |-> call, child |-> c, result |-> r]]

Init ==
  /\ pc = [p \in Proc |-> IF p = Main THEN "user" ELSE "none"]
  /\ arg = [p \in Proc |-> Main]
  /\ ret = [p \in Proc |-> 0]
  /\ parent = [p \in Proc |-> Main]
  /\ child = [p \in Proc |-> {}]
  /\ exit_status = [p \in Proc |-> 0]
  /\ load_succeded = [p \in Proc |-> FALSE]
  /\ load_lock = [p \in Proc |-> 0]
  /\ exit_lock = [p \in Proc |-> 0]
  /\ memory_lock = [p \in Proc |-> 0]
  /\ killed = {}
  /\ reply = [p \in Proc |-> NoReply]

-----------------------------------------------------------------------------
(* process_execute and thread_create, called by exec, which looks the      *)
(* child up in its own list at once, or by run_task.                       *)
Execute(p, c) ==
  /\ pc[p] = "user" /\ pc[c] = "none"
  /\ pc' = [pc EXCEPT ![c] = "start",
                      ![p] = IF p = Main THEN "task" ELSE "execDown"]
  /\ arg' = [arg EXCEPT ![p] = c]
  /\ parent' = [parent EXCEPT ![c] = p]
  /\ child' = [child EXCEPT ![p] = @ \cup {c}]
  /\ UNCHANGED <<ret, exit_status, load_succeded, load_lock, exit_lock,
                 memory_lock, killed, reply>>

\* palloc_get_page returned NULL.
ExecuteFails(p, c) ==
  /\ pc[p] = "user" /\ p # Main /\ pc[c] = "none"
  /\ Return(p, "exec", c, Failed)
  /\ UNCHANGED <<pc, arg, ret, parent, child, exit_status, load_succeded,
                 load_lock, exit_lock, memory_lock, killed>>

Load(c) ==
  /\ pc[c] = "start"
  /\ \E success \in BOOLEAN :
       load_succeded' = [load_succeded EXCEPT ![c] = success]
  /\ Goto(c, "loaded")
  /\ UNCHANGED <<arg, ret, parent, child, exit_status, load_lock, exit_lock,
                 memory_lock, killed, reply>>

\* Variant: a failed load exits without the sema_up.
LoadUp_IfLoaded(c) ==
  /\ pc[c] = "loaded"
  /\ load_lock' = [load_lock EXCEPT ![c] = IF load_succeded[c] THEN @ + 1 ELSE @]
  /\ Goto(c, IF load_succeded[c] THEN "user" ELSE "exitUp")
  /\ UNCHANGED <<arg, ret, parent, child, exit_status, load_succeded,
                 exit_lock, memory_lock, killed, reply>>

LoadUp(c) ==
  /\ pc[c] = "loaded"
  /\ load_lock' = [load_lock EXCEPT ![c] = @ + 1]
  /\ Goto(c, IF load_succeded[c] THEN "user" ELSE "exitUp")
  /\ UNCHANGED <<arg, ret, parent, child, exit_status, load_succeded,
                 exit_lock, memory_lock, killed, reply>>

\* Variant: exec does not wait for the load.
ExecDown_NoWait(p) ==
  /\ pc[p] = "execDown"
  /\ Goto(p, "execRead")
  /\ UNCHANGED <<arg, ret, parent, child, exit_status, load_succeded,
                 load_lock, exit_lock, memory_lock, killed, reply>>

ExecDown(p) ==
  /\ pc[p] = "execDown"
  /\ load_lock[arg[p]] > 0
  /\ load_lock' = [load_lock EXCEPT ![arg[p]] = @ - 1]
  /\ Goto(p, "execRead")
  /\ UNCHANGED <<arg, ret, parent, child, exit_status, load_succeded,
                 exit_lock, memory_lock, killed, reply>>

ExecReturn(p) ==
  /\ pc[p] = "execRead"
  /\ Return(p, "exec", arg[p],
            IF load_succeded[arg[p]] THEN arg[p] ELSE Failed)
  /\ arg' = [arg EXCEPT ![p] = Main]
  /\ Goto(p, "user")
  /\ UNCHANGED <<ret, parent, child, exit_status, load_succeded,
                 load_lock, exit_lock, memory_lock, killed>>

-----------------------------------------------------------------------------
(* process_wait(tid), called by wait with any tid or by run_task with the  *)
(* tid it was given.                                                       *)
WaitFind(p, c) ==
  /\ \/ pc[p] = "user" /\ p # Main
     \/ pc[p] = "task" /\ arg[p] = c
  /\ IF c \in child[p]
     THEN /\ arg' = [arg EXCEPT ![p] = c]
          /\ Goto(p, "waitDown")
          /\ UNCHANGED reply
     ELSE /\ Return(p, "wait", c, Failed)
          /\ arg' = [arg EXCEPT ![p] = Main]
          /\ Goto(p, "user")
  /\ UNCHANGED <<ret, parent, child, exit_status, load_succeded, load_lock,
                 exit_lock, memory_lock, killed>>

WaitDown(p) ==
  /\ pc[p] = "waitDown"
  /\ exit_lock[arg[p]] > 0
  /\ exit_lock' = [exit_lock EXCEPT ![arg[p]] = @ - 1]
  /\ Goto(p, "waitRead")
  /\ UNCHANGED <<arg, ret, parent, child, exit_status, load_succeded,
                 load_lock, memory_lock, killed, reply>>

WaitRead(p) ==
  /\ pc[p] = "waitRead"
  /\ ret' = [ret EXCEPT ![p] = exit_status[arg[p]]]
  /\ Goto(p, "waitRemove")
  /\ UNCHANGED <<arg, parent, child, exit_status, load_succeded, load_lock,
                 exit_lock, memory_lock, killed, reply>>

WaitRemove(p) ==
  /\ pc[p] = "waitRemove"
  /\ child' = [child EXCEPT ![p] = @ \ {arg[p]}]
  /\ Goto(p, "waitUp")
  /\ UNCHANGED <<arg, ret, parent, exit_status, load_succeded, load_lock,
                 exit_lock, memory_lock, killed, reply>>

\* Variant: the child is not released.
WaitReturn_NoUp(p) ==
  /\ pc[p] = "waitUp"
  /\ Return(p, "wait", arg[p], ret[p])
  /\ arg' = [arg EXCEPT ![p] = Main]
  /\ ret' = [ret EXCEPT ![p] = 0]
  /\ Goto(p, "user")
  /\ UNCHANGED <<parent, child, exit_status, load_succeded, load_lock,
                 exit_lock, memory_lock, killed>>

WaitReturn(p) ==
  /\ pc[p] = "waitUp"
  /\ memory_lock' = [memory_lock EXCEPT ![arg[p]] = @ + 1]
  /\ Return(p, "wait", arg[p], ret[p])
  /\ arg' = [arg EXCEPT ![p] = Main]
  /\ ret' = [ret EXCEPT ![p] = 0]
  /\ Goto(p, "user")
  /\ UNCHANGED <<parent, child, exit_status, load_succeded,
                 load_lock, exit_lock, killed>>

-----------------------------------------------------------------------------
\* The exit system call, or a page fault that ends in exit(-1).
UserExit(p, s) ==
  /\ pc[p] = "user" /\ p # Main
  /\ exit_status' = [exit_status EXCEPT ![p] = s]
  /\ Goto(p, "exitUp")
  /\ UNCHANGED <<arg, ret, parent, child, load_succeded, load_lock,
                 exit_lock, memory_lock, killed, reply>>

\* kill(), for every other exception: thread_exit, exit_status as it is.
Kill(p) ==
  /\ pc[p] = "user" /\ p # Main
  /\ killed' = killed \cup {p}
  /\ Goto(p, "exitUp")
  /\ UNCHANGED <<arg, ret, parent, child, exit_status, load_succeded,
                 load_lock, exit_lock, memory_lock, reply>>

\* process_exit: the memory and the files go, then the parent is told.
\* Variants: the parent is not told; the child does not wait for it.
ExitUp_NoUp(p) ==
  /\ pc[p] = "exitUp"
  /\ Goto(p, "exitDown")
  /\ UNCHANGED <<arg, ret, parent, child, exit_status, load_succeded,
                 load_lock, exit_lock, memory_lock, killed, reply>>

ExitUp_NoDown(p) ==
  /\ pc[p] = "exitUp"
  /\ exit_lock' = [exit_lock EXCEPT ![p] = @ + 1]
  /\ Goto(p, "dying")
  /\ UNCHANGED <<arg, ret, parent, child, exit_status, load_succeded,
                 load_lock, memory_lock, killed, reply>>

ExitUp(p) ==
  /\ pc[p] = "exitUp"
  /\ exit_lock' = [exit_lock EXCEPT ![p] = @ + 1]
  /\ Goto(p, "exitDown")
  /\ UNCHANGED <<arg, ret, parent, child, exit_status, load_succeded,
                 load_lock, memory_lock, killed, reply>>

\* Variant: a sema_down that does not wait.
ExitDown_NoWait(p) ==
  /\ pc[p] = "exitDown"
  /\ memory_lock' = [memory_lock EXCEPT ![p] = @ - 1]
  /\ Goto(p, "dying")
  /\ UNCHANGED <<arg, ret, parent, child, exit_status, load_succeded,
                 load_lock, exit_lock, killed, reply>>

ExitDown(p) ==
  /\ pc[p] = "exitDown"
  /\ memory_lock[p] > 0
  /\ memory_lock' = [memory_lock EXCEPT ![p] = @ - 1]
  /\ Goto(p, "dying")
  /\ UNCHANGED <<arg, ret, parent, child, exit_status, load_succeded,
                 load_lock, exit_lock, killed, reply>>

\* thread_exit and thread_schedule_tail of the next thread.
Free(p) ==
  /\ pc[p] = "dying"
  /\ Goto(p, "freed")
  /\ UNCHANGED <<arg, ret, parent, child, exit_status, load_succeded,
                 load_lock, exit_lock, memory_lock, killed, reply>>

\* The steps a thread takes of its own accord once it is in a call.
Step(p) ==
  \/ Load(p) \/ LoadUp(p) \/ ExecDown(p) \/ ExecReturn(p)
  \/ WaitDown(p) \/ WaitRead(p) \/ WaitRemove(p) \/ WaitReturn(p)
  \/ ExitUp(p) \/ ExitDown(p) \/ Free(p)

Next ==
  \/ \E p, c \in Proc : Execute(p, c) \/ ExecuteFails(p, c) \/ WaitFind(p, c)
  \/ \E p \in Proc : Kill(p)
  \/ \E p \in Proc, s \in Code : UserExit(p, s)
  \/ \E p \in Proc : Step(p)

Spec == Init /\ [][Next]_vars

\* All processes run at PRI_DEFAULT and share the processor in turns, so a
\* step that can be taken is taken.  A program need not call anything.
FairSpec == Spec /\ \A p \in Proc : WF_vars(Step(p))
                 /\ WF_vars(\E c \in Proc : pc[Main] = "task" /\ WaitFind(Main, c))

-----------------------------------------------------------------------------
(* Properties.                                                             *)

TypeOK ==
  /\ pc \in [Proc -> PC]
  /\ arg \in [Proc -> Proc]
  /\ ret \in [Proc -> Code]
  /\ parent \in [Proc -> Proc]
  /\ child \in [Proc -> SUBSET Proc]
  /\ exit_status \in [Proc -> Code]
  /\ load_succeded \in [Proc -> BOOLEAN]
  /\ load_lock \in [Proc -> Nat]
  /\ exit_lock \in [Proc -> Nat]
  /\ memory_lock \in [Proc -> Nat]
  /\ killed \in SUBSET Proc

\* A thread that will still touch c's struct thread through a pointer.
Uses(p, c) ==
  /\ arg[p] = c
  /\ pc[p] \in {"execDown", "execRead",
                "waitDown", "waitRead", "waitRemove", "waitUp"}

\* No use after free: while exec or wait holds a pointer to a child's struct
\* thread, or a list of a thread that still exists links its child_elem, the
\* page is allocated.  thread_schedule_tail frees it from another thread, so
\* only the memory_lock handshake stands between the two.
NoUseAfterFree ==
  \A p, c \in Proc :
    Uses(p, c) \/ (pc[p] # "freed" /\ c \in child[p])
      => pc[c] \notin {"none", "freed"}

\* What makes it so: a child its parent has not let go of (still listed, or
\* removed and about to be released) has had no unit of memory_lock and has
\* not got past process_exit.
Held(c) == \/ c \in child[parent[c]]
           \/ pc[parent[c]] = "waitUp" /\ arg[parent[c]] = c

HeldIsAlive ==
  \A c \in Proc :
    Held(c) => memory_lock[c] = 0 /\ pc[c] \notin {"none", "dying", "freed"}

\* A child list holds children only, and a call works on a child of its own.
OwnChildren ==
  \A p \in Proc :
    /\ \A c \in child[p] : parent[c] = p /\ pc[c] # "none"
    /\ pc[p] \in {"execDown", "execRead", "waitDown", "waitRead", "waitRemove"}
         => arg[p] \in child[p]
    /\ pc[p] = "waitUp" => parent[arg[p]] = p /\ arg[p] \notin child[p]

\* A parent and its children keep hold of each other: whoever is listed as a
\* child, or is being waited for, is a child of that parent and still there to
\* be let go, through second waits, waits for children of others, failed loads
\* and kills.
ChildrenHeld == HeldIsAlive /\ OwnChildren

\* Where p is in the life ProcessTable gives a process.
Life(p) ==
  CASE pc[p] = "none"  -> "none"
    [] pc[p] = "start" -> "loading"
    [] pc[p] \in {"loaded", "exitUp"} /\ ~load_succeded[p] -> "failed"
    [] pc[p] \in {"dying", "freed"} \/ memory_lock[p] > 0  -> "reaped"
    [] pc[p] = "exitDown" /\ memory_lock[p] = 0 -> "exited"
    [] OTHER -> "live"

\* The code it exited with.
Outcome(p) == IF pc[p] \in {"exitDown", "dying", "freed"} THEN exit_status[p] ELSE 0

\* exec and wait behave as the process table of module ProcessTable: exec
\* answers after the load and with its outcome, wait with the child's own
\* code, once, after its exit.
Table == INSTANCE ProcessTable WITH
  state  <- [p \in Proc |-> Life(p)],
  loaded <- {p \in Proc : load_succeded[p]},
  code   <- [p \in Proc |-> Outcome(p)]

ImplementsTable == Table!Spec

\* exec returns, and wait returns once the child has exited.
ExecServed == \A p \in Proc : pc[p] = "execDown" ~> pc[p] = "user"
WaitServed == \A p \in Proc :
  (pc[p] = "waitDown" /\ pc[arg[p]] = "exitDown") ~> pc[p] = "user"

\* A child that is waited for is destroyed once it has exited.
ReapedIsFreed == \A p, c \in Proc :
  (pc[p] = "waitRead" /\ arg[p] = c) ~> pc[c] = "freed"

\* process_wait: "If it was terminated by the kernel (i.e. killed due to an
\* exception), returns -1."
KilledWaitsMinusOne ==
  \A p \in Proc :
    reply[p].call = "wait" /\ reply[p].child \in killed
      => reply[p].result = Failed
=============================================================================
