----------------------------- MODULE ProcessTable -----------------------------
(***************************************************************************)
(* What exec, wait and exit promise to user programs, free of locks and of *)
(* memory: a table of processes, each started once by its parent, loaded,  *)
(* exited once with a code, and reaped at most once, by its parent only.   *)
(***************************************************************************)
EXTENDS Integers

CONSTANTS Proc,   \* the processes that may ever exist
          Main,   \* the kernel thread that runs the first one
          Code    \* exit codes

Failed == -1      \* TID_ERROR, and what wait returns for no child

VARIABLES state,  \* life of each process
          parent, \* who started it
          loaded, \* processes whose executable was loaded
          code,   \* exit code, once exited
          reply   \* result of the last exec or wait that returned to it

tableVars == <<state, parent, loaded, code, reply>>

NoReply == [call |-> "none"]
Reply == {NoReply}
           \cup [call : {"exec"}, child : Proc, result : Proc \cup {Failed}]
           \cup [call : {"wait"}, child : Proc, result : Code \cup {Failed}]

Answer(p, call, c, r) ==
  reply' = [reply EXCEPT ![p] = [call |-> call, child |-> c, result |-> r]]

Init ==
  /\ state = [p \in Proc |-> IF p = Main THEN "live" ELSE "none"]
  /\ parent = [p \in Proc |-> Main]
  /\ loaded = {}
  /\ code = [p \in Proc |-> 0]
  /\ reply = [p \in Proc |-> NoReply]

Spawn(p, c) ==
  /\ state[p] = "live" /\ state[c] = "none"
  /\ state' = [state EXCEPT ![c] = "loading"]
  /\ parent' = [parent EXCEPT ![c] = p]
  /\ UNCHANGED <<loaded, code, reply>>

\* No memory for another process.
SpawnFails(p, c) ==
  /\ state[p] = "live" /\ state[c] = "none"
  /\ Answer(p, "exec", c, Failed)
  /\ UNCHANGED <<state, parent, loaded, code>>

Load(c) ==
  /\ state[c] = "loading"
  /\ \/ /\ state' = [state EXCEPT ![c] = "live"]
        /\ loaded' = loaded \cup {c}
     \/ /\ state' = [state EXCEPT ![c] = "failed"]
        /\ UNCHANGED loaded
  /\ UNCHANGED <<parent, code, reply>>

\* exec answers the parent once the load is over, with its outcome.
ExecReturn(p, c) ==
  /\ state[p] = "live" /\ parent[c] = p
  /\ state[c] \notin {"none", "loading"}
  /\ Answer(p, "exec", c, IF c \in loaded THEN c ELSE Failed)
  /\ UNCHANGED <<state, parent, loaded, code>>

Exit(c, s) ==
  /\ c # Main
  /\ state[c] = "live" \/ (state[c] = "failed" /\ s = 0)
  /\ state' = [state EXCEPT ![c] = "exited"]
  /\ code' = [code EXCEPT ![c] = s]
  /\ UNCHANGED <<parent, loaded, reply>>

\* wait answers with the code of an exited child and reaps it.
Wait(p, c) ==
  /\ state[p] = "live" /\ parent[c] = p
  /\ state[c] = "exited"
  /\ state' = [state EXCEPT ![c] = "reaped"]
  /\ Answer(p, "wait", c, code[c])
  /\ UNCHANGED <<parent, loaded, code>>

\* It fails at once for whoever is no child, or a reaped one.
WaitFails(p, c) ==
  /\ state[p] = "live"
  /\ state[c] \in {"none", "reaped"} \/ parent[c] # p \/ c = Main
  /\ Answer(p, "wait", c, Failed)
  /\ UNCHANGED <<state, parent, loaded, code>>

Next ==
  \/ \E p, c \in Proc : \/ Spawn(p, c) \/ SpawnFails(p, c) \/ ExecReturn(p, c)
                        \/ Wait(p, c) \/ WaitFails(p, c)
  \/ \E c \in Proc : Load(c)
  \/ \E c \in Proc, s \in Code : Exit(c, s)

Spec == Init /\ [][Next]_tableVars
=============================================================================
