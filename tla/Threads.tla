------------------------------- MODULE Threads -------------------------------
(***************************************************************************)
(* The kernel's threads: the ready list, the sleep list, the scheduler and *)
(* the timer interrupt of threads/thread.c and devices/timer.c, with the   *)
(* semaphores of threads/synch.c that block on them.                       *)
(*                                                                         *)
(* One processor: a step belongs to the thread `current`, or to an         *)
(* interrupt taken on its stack.  A region with interrupts off is one      *)
(* step; wherever the code runs with interrupts on between two reads or    *)
(* writes of shared state, `op` remembers where the thread stands, and a   *)
(* tick, a wake-up or a device interrupt may come first.                   *)
(***************************************************************************)
EXTENDS Integers, Sequences, FiniteSets, SequencesExt

CONSTANTS
  Thread,      \* every struct thread that may exist, Main and Idle among them
  Main,        \* initial_thread
  Idle,        \* idle_thread
  None,        \* the tail of an empty ready_list, taken for a thread
  Sema,        \* the semaphores
  IntrSema,    \* those that a device's interrupt handler ups
  PriMax,      \* PRI_MAX; PRI_MIN is 0
  TimeSlice,   \* TIME_SLICE
  MaxSleep,    \* bound: the longest timer_sleep
  MaxValue,    \* bound: no semaphore is upped beyond it
  Aging        \* thread_prior_aging

ASSUME ThreadAssumption ==
  /\ IsFiniteSet(Thread)
  /\ Main \in Thread /\ Idle \in Thread /\ Main # Idle /\ None \notin Thread
  /\ IntrSema \subseteq Sema
  /\ PriMax \in Nat /\ MaxSleep \in Nat /\ MaxValue \in Nat
  /\ TimeSlice \in Nat \ {0}
  /\ Aging \in BOOLEAN

VARIABLES
  status,        \* status of each thread, "none" while it has no page
  priority,      \* its priority
  op,            \* where it stands between two steps of one call
  due,           \* wake_up_time - ticks, 0 once the time has come
  current,       \* the thread that owns the processor
  ready_list,    \* threads ready to run, the next one first
  blocked_list,  \* sleepers, in the order they went to sleep
  waiters,       \* waiters of each semaphore, the next one first
  value,         \* value of each semaphore
  thread_ticks,  \* ticks since the last thread switch
  handler        \* "wake" while the timer's handler runs thread_wake_up

vars == <<status, priority, op, due, current, ready_list, blocked_list,
          waiters, value, thread_ticks, handler>>

Priority == 0..PriMax

\* What a call has done so far.  "down": inside sema_down's loop with
\* interrupts off; "setpri", "compare": inside thread_set_priority.
Op == [name : {"run", "hlt", "yield", "sleep"}]
        \cup [name : {"down"}, sema : Sema]
        \cup [name : {"setpri"}, head : Thread \cup {None}]
        \cup [name : {"compare"}, head : Thread \cup {None}, pri : Priority]

Run == [name |-> "run"]

\* list_insert_ordered with compare_priority: before the first element of
\* lower priority, hence behind every equal.
\* Variants: at the back; before its equals.
InsertOrdered_Back(l, t, pri) == Append(l, t)
InsertOrdered_Front(l, t, pri) ==
  LET lower == {i \in DOMAIN l : pri[l[i]] <= pri[t]}
      k == IF lower = {} THEN Len(l) + 1
           ELSE CHOOSE i \in lower : \A j \in lower : i <= j
  IN  InsertAt(l, k, t)
InsertOrdered(l, t, pri) ==
  LET lower == {i \in DOMAIN l : pri[l[i]] < pri[t]}
      k == IF lower = {} THEN Len(l) + 1
           ELSE CHOOSE i \in lower : \A j \in lower : i <= j
  IN  InsertAt(l, k, t)

\* The running thread executes code, no interrupt is being handled.
In(name) == handler = "none" /\ op[current].name = name

\* Interrupts are on unless the thread was just switched to inside
\* sema_down's loop.
IntrOn == handler = "none" /\ op[current].name # "down"

Goto(o) == op' = [op EXCEPT ![current] = o]

\* An interrupt ends the idle thread's hlt.
LeaveHlt == op' = [op EXCEPT ![current] = IF @.name = "hlt" THEN Run ELSE @]

\* schedule(), next_thread_to_run(), thread_schedule_tail(): the outgoing
\* thread has status st[current], the ready list is rl.
Schedule(st, rl) ==
  LET next == IF rl = <<>> THEN Idle ELSE Head(rl)
  IN  /\ current' = next
      /\ ready_list' = IF rl = <<>> THEN rl ELSE Tail(rl)
      /\ status' = [st EXCEPT ![next] = "running"]
      /\ thread_ticks' = 0

\* thread_yield(), with the priorities pri; the idle thread is not queued.
\* Variant: it is queued like any other.
ThreadYield_Idle(pri) ==
  Schedule([status EXCEPT ![current] = "ready"],
           InsertOrdered(ready_list, current, pri))
ThreadYield(pri) ==
  Schedule([status EXCEPT ![current] = "ready"],
           IF current = Idle THEN ready_list
           ELSE InsertOrdered(ready_list, current, pri))

\* thread_block(); the caller has put the thread on its list.
ThreadBlock == Schedule([status EXCEPT ![current] = "blocked"], ready_list)

\* thread_unblock(t): no preemption.
ThreadUnblock(t) ==
  /\ ready_list' = InsertOrdered(ready_list, t, priority)
  /\ status' = [status EXCEPT ![t] = "ready"]

-----------------------------------------------------------------------------
(* After thread_start: main runs, and the idle thread, having upped        *)
(* idle_started, has blocked at the head of its loop.                      *)
Init ==
  /\ status = [t \in Thread |-> CASE t = Main -> "running"
                                  [] t = Idle -> "blocked"
                                  [] OTHER    -> "none"]
  /\ priority \in {p \in [Thread -> Priority] :
                     \A t \in Thread \ {Main} : p[t] = 0}
  /\ op = [t \in Thread |-> IF t = Idle THEN [name |-> "hlt"] ELSE Run]
  /\ due = [t \in Thread |-> 0]
  /\ current = Main
  /\ ready_list = <<>> /\ blocked_list = <<>>
  /\ waiters = [s \in Sema |-> <<>>]
  /\ value = [s \in Sema |-> 0]
  /\ thread_ticks = 0
  /\ handler = "none"

-----------------------------------------------------------------------------
(* The timer interrupt: timer_interrupt, thread_tick, thread_wake_up,      *)
(* thread_aging and the return from intr_handler, with interrupts off all  *)
(* through.  Tick counts, each Wake is one turn of thread_wake_up's loop,  *)
(* TickReturn ages, ends the handler and yields at the end of a slice.     *)
Tick ==
  /\ IntrOn
  /\ handler' = "wake"
  /\ due' = [t \in Thread |-> IF due[t] = 0 THEN 0 ELSE due[t] - 1]
  /\ thread_ticks' = thread_ticks + 1
  /\ LeaveHlt
  /\ UNCHANGED <<status, priority, current, ready_list, blocked_list,
                 waiters, value>>

Expired_Early ==   \* variant: a tick too early
  {i \in DOMAIN blocked_list : due[blocked_list[i]] <= 1}
Expired == {i \in DOMAIN blocked_list : due[blocked_list[i]] <= 0}

Wake ==
  /\ handler = "wake"
  /\ \E i \in Expired :
       /\ \A j \in Expired : i <= j
       /\ ThreadUnblock(blocked_list[i])
       /\ blocked_list' = RemoveAt(blocked_list, i)
  /\ UNCHANGED <<priority, op, due, current, waiters, value, thread_ticks,
                 handler>>

\* thread_aging: every ready thread gains one, up to PRI_MAX.
Aged_Never == priority   \* variant: the aging is left out
Aged == [t \in Thread |->
           IF Aging /\ t \in Range(ready_list) /\ priority[t] < PriMax
           THEN priority[t] + 1 ELSE priority[t]]

SliceOver_Late == thread_ticks > TimeSlice   \* variant: one tick late
SliceOver == thread_ticks >= TimeSlice

TickReturn ==
  /\ handler = "wake" /\ Expired = {}
  /\ handler' = "none"
  /\ priority' = Aged
  /\ IF SliceOver
     THEN ThreadYield(Aged)
     ELSE UNCHANGED <<status, current, ready_list, thread_ticks>>
  /\ UNCHANGED <<op, due, blocked_list, waiters, value>>

-----------------------------------------------------------------------------
(* Calls of a kernel thread.                                               *)

Create(t, p) ==
  /\ In("run") /\ current # Idle
  /\ status[t] = "none"
  /\ status' = [status EXCEPT ![t] = "ready"]
  /\ priority' = [priority EXCEPT ![t] = p]
  /\ ready_list' = InsertOrdered(ready_list, t, priority')
  /\ op' = [op EXCEPT ![t] = Run]
  /\ UNCHANGED <<due, current, blocked_list, waiters, value, thread_ticks,
                 handler>>

\* timer_sleep: the deadline is computed before interrupts go off.
TimerSleep(n) ==
  /\ In("run") /\ current # Idle
  /\ due' = [due EXCEPT ![current] = n]
  /\ Goto([name |-> "sleep"])
  /\ UNCHANGED <<status, priority, current, ready_list, blocked_list,
                 waiters, value, thread_ticks, handler>>

ThreadSleep ==
  /\ In("sleep")
  /\ blocked_list' = Append(blocked_list, current)
  /\ Goto(Run)
  /\ ThreadBlock
  /\ UNCHANGED <<priority, due, waiters, value, handler>>

\* One turn of sema_down's loop, entered by a call or by a thread that was
\* switched to after it had waited.
SemaDown(s) ==
  /\ \/ In("run") /\ current # Idle
     \/ In("down") /\ op[current].sema = s
  /\ IF value[s] = 0
     THEN /\ waiters' = [waiters EXCEPT
                           ![s] = InsertOrdered(@, current, priority)]
          /\ Goto([name |-> "down", sema |-> s])
          /\ ThreadBlock
          /\ UNCHANGED value
     ELSE /\ value' = [value EXCEPT ![s] = @ - 1]
          /\ Goto(Run)
          /\ UNCHANGED <<waiters, status, current, ready_list, thread_ticks>>
  /\ UNCHANGED <<priority, due, blocked_list, handler>>

SemaTryDown(s) ==
  /\ In("run") /\ current # Idle
  /\ value[s] > 0
  /\ value' = [value EXCEPT ![s] = @ - 1]
  /\ UNCHANGED <<status, priority, op, due, current, ready_list,
                 blocked_list, waiters, thread_ticks, handler>>

\* The first waiter, if any, becomes ready; the value is one more.
\* Variant: nobody is woken while the value is positive.
WakeWaiter_IfZero(s) ==
  /\ value[s] < MaxValue
  /\ value' = [value EXCEPT ![s] = @ + 1]
  /\ IF waiters[s] = <<>> \/ value[s] > 0
     THEN UNCHANGED <<waiters, ready_list, status>>
     ELSE /\ ThreadUnblock(Head(waiters[s]))
          /\ waiters' = [waiters EXCEPT ![s] = Tail(@)]
WakeWaiter(s) ==
  /\ value[s] < MaxValue
  /\ value' = [value EXCEPT ![s] = @ + 1]
  /\ IF waiters[s] = <<>>
     THEN UNCHANGED <<waiters, ready_list, status>>
     ELSE /\ ThreadUnblock(Head(waiters[s]))
          /\ waiters' = [waiters EXCEPT ![s] = Tail(@)]

SemaUp(s) ==
  /\ In("run") /\ current # Idle
  /\ WakeWaiter(s)
  /\ UNCHANGED <<priority, op, due, current, blocked_list, thread_ticks,
                 handler>>

\* sema_up by a device's interrupt handler, as in ide.c.
IntrUp(s) ==
  /\ IntrOn
  /\ WakeWaiter(s)
  /\ LeaveHlt
  /\ UNCHANGED <<priority, due, current, blocked_list, thread_ticks, handler>>

Yield ==
  /\ In("yield") \/ (In("run") /\ current # Idle)
  /\ Goto(Run)
  /\ ThreadYield(priority)
  /\ UNCHANGED <<priority, due, blocked_list, waiters, value, handler>>

-----------------------------------------------------------------------------
(* thread_set_priority runs with interrupts on: it takes the head of the   *)
(* ready list, assigns, and compares with the priority the head has then.  *)
SetPriorityHead ==
  /\ In("run") /\ current # Idle
  /\ Goto([name |-> "setpri",
           head |-> IF ready_list = <<>> THEN None ELSE Head(ready_list)])
  /\ UNCHANGED <<status, priority, due, current, ready_list, blocked_list,
                 waiters, value, thread_ticks, handler>>

SetPriorityAssign(p) ==
  /\ In("setpri")
  /\ priority' = [priority EXCEPT ![current] = p]
  /\ Goto([name |-> "compare", head |-> op[current].head, pri |-> p])
  /\ UNCHANGED <<status, due, current, ready_list, blocked_list, waiters,
                 value, thread_ticks, handler>>

\* What is read through the tail of an empty list, or in a page that was
\* freed in between, may be anything.
SetPriorityCompare ==
  /\ In("compare")
  /\ LET h == op[current].head
         live == h # None /\ status[h] # "none"
     IN  \E yields \in BOOLEAN :
           /\ live => yields = (op[current].pri < priority[h])
           /\ Goto(IF yields THEN [name |-> "yield"] ELSE Run)
  /\ UNCHANGED <<status, priority, due, current, ready_list, blocked_list,
                 waiters, value, thread_ticks, handler>>

-----------------------------------------------------------------------------
\* The page of a dying thread is freed by the thread that runs next, still
\* with interrupts off; initial_thread's never is.
Exit ==
  /\ In("run") /\ current # Idle
  /\ Schedule([status EXCEPT ![current] =
                 IF current = Main THEN "dying" ELSE "none"], ready_list)
  /\ UNCHANGED <<priority, op, due, blocked_list, waiters, value, handler>>

\* One turn of idle()'s loop: hlt has returned, the thread blocks again.
IdleBlock ==
  /\ In("run") /\ current = Idle
  /\ Goto([name |-> "hlt"])
  /\ ThreadBlock
  /\ UNCHANGED <<priority, due, blocked_list, waiters, value, handler>>

Timer == Tick \/ Wake \/ TickReturn

Call ==
  \/ \E t \in Thread, p \in Priority : Create(t, p)
  \/ \E n \in 0..MaxSleep : TimerSleep(n)
  \/ ThreadSleep
  \/ \E s \in Sema : SemaDown(s) \/ SemaTryDown(s) \/ SemaUp(s)
  \/ Yield
  \/ SetPriorityHead
  \/ \E p \in Priority : SetPriorityAssign(p)
  \/ SetPriorityCompare
  \/ Exit

Next ==
  \/ Timer
  \/ Call
  \/ \E s \in IntrSema : IntrUp(s)
  \/ IdleBlock

Spec == Init /\ [][Next]_vars

\* The clock never stops, and a processor goes on executing: a handler
\* returns, the idle loop turns, a call that has begun takes its next step.
\* Nothing obliges a thread to begin a call.
Fairness ==
  /\ SF_vars(Tick) /\ WF_vars(Wake) /\ WF_vars(TickReturn)
  /\ WF_vars(IdleBlock)
  /\ \A s \in Sema : WF_vars(op[current].name = "down" /\ SemaDown(s))
  /\ \A t \in Thread : SF_vars(current = t /\ ThreadSleep)

FairSpec == Spec /\ Fairness

-----------------------------------------------------------------------------
(* Properties.                                                             *)

Occurrences(l, t) == Cardinality({i \in DOMAIN l : l[i] = t})

TypeOK ==
  /\ status \in [Thread -> {"none", "running", "ready", "blocked", "dying"}]
  /\ priority \in [Thread -> Priority]
  /\ op \in [Thread -> Op]
  /\ due \in [Thread -> 0..MaxSleep]
  /\ current \in Thread
  /\ ready_list \in Seq(Thread) /\ blocked_list \in Seq(Thread)
  /\ waiters \in [Sema -> Seq(Thread)]
  /\ value \in [Sema -> 0..MaxValue]
  /\ thread_ticks \in 0..TimeSlice
  /\ handler \in {"none", "wake"}

\* thread.h: `elem` serves the ready list and the wait lists because the two
\* are mutually exclusive.  A thread other than the idle one is linked once
\* into the list its status calls for and into no other: the ready list when
\* it is ready, the sleep list or one semaphore's waiters when it is blocked.
ListsExclusive ==
  /\ status[current] = "running"
  /\ \A t \in Thread :
       /\ status[t] = "running" => t = current
       /\ Occurrences(ready_list, t) =
            IF status[t] = "ready" /\ t # Idle THEN 1 ELSE 0
       /\ \A s \in Sema :
            Occurrences(waiters[s], t) =
              IF /\ status[t] = "blocked"
                 /\ op[t] = [name |-> "down", sema |-> s] THEN 1 ELSE 0
       /\ Occurrences(blocked_list, t) =
            IF status[t] = "blocked" /\ op[t] = Run THEN 1 ELSE 0

\* No wake-up is lost: while a thread waits on a semaphore, every unit of
\* its value is spoken for by a thread that was woken and has not yet tried
\* again (sema_up wakes before it counts, sema_down tests in a loop).
NoLostWakeup ==
  \A s \in Sema :
    waiters[s] # <<>> =>
      value[s] <= Cardinality({t \in Thread :
                    /\ status[t] \in {"ready", "running"}
                    /\ op[t] = [name |-> "down", sema |-> s]})

\* The ready list and the waiters of every semaphore stay in priority order
\* whatever aging and thread_set_priority do to the priorities meanwhile.
Descending(l) == \A i, j \in DOMAIN l : i < j => priority[l[i]] >= priority[l[j]]

QueuesOrdered == Descending(ready_list) /\ \A s \in Sema : Descending(waiters[s])

\* A thread switch gives the processor to a thread of the highest priority
\* among all that are ready, whoever caused it.
PriorityScheduling ==
  [][current' # current =>
       \A t \in Thread \ {Idle} :
         status'[t] = "ready" => priority'[t] <= priority'[current']]_vars

\* Equal priorities take turns: a thread that is ready and stays ready is
\* never overtaken in the ready list by one that was not ahead of it, unless
\* the other's priority is higher.
Ahead(t, u) == \E i, j \in DOMAIN ready_list :
                 i < j /\ ready_list[i] = t /\ ready_list[j] = u

NoOvertaking ==
  [][\A t, u \in Thread :
       /\ t # u /\ t \in Range(ready_list) /\ t \in Range(ready_list')
       /\ Ahead(u, t)' /\ ~Ahead(u, t)
       => priority'[u] > priority'[t]]_vars

\* timer_sleep is exact at the tick: a sleeper leaves the list only once its
\* time has come, and when the handler of a tick ends no sleeper whose time
\* has come is left behind.
SleepExact ==
  [][/\ \A t \in Range(blocked_list) \ Range(blocked_list') : due[t] = 0
     /\ handler = "wake" /\ handler' = "none" =>
          \A t \in Range(blocked_list') : due[t] > 0]_vars

\* With aging nobody starves: a ready thread runs at last.
ReadyRuns == \A t \in Thread \ {Idle} :
               status[t] = "ready" ~> status[t] # "ready"

\* timer_sleep returns: its caller runs again.
SleeperRuns == \A t \in Thread \ {Idle} :
                 op[t].name = "sleep" ~> (status[t] = "running" /\ op[t] = Run)
=============================================================================
