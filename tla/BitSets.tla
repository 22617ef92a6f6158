------------------------------- MODULE BitSets -------------------------------
(* What a bitmap promises: a size and the set of its marked bits, changed  *)
(* as each command says.  The commands write the bits in Reached only; the *)
(* others hold what the memory held.                                       *)
EXTENDS Integers, FiniteSets, FiniteSetsExt

CONSTANTS MaxBits, Reached

VARIABLES
  size,
  marked,
  given    \* the last command, with its arguments

vars == <<size, marked, given>>

Interval(start, cnt) == start .. start + cnt - 1
Put(S, value) ==
  IF value THEN marked \cup (S \cap Reached) ELSE marked \ (S \cap Reached)

\* Where cnt bits in a row have the value, from start on.
Groups(start, cnt, value) ==
  {p \in start .. size - cnt : \A i \in Interval(p, cnt) : (i \in marked) = value}

Init == size = 0 /\ marked = {} /\ given = <<"none">>

Create(n) ==
  /\ given' = <<"create", n>>
  /\ size' = n
  /\ marked' \subseteq Interval(0, n) \ Reached

Set(start, cnt, value) ==
  /\ given' = <<"set", start, cnt, value>>
  /\ marked' = Put(Interval(start, cnt), value)
  /\ UNCHANGED size

Flip(i) ==
  /\ given' = <<"flip", i>>
  /\ marked' = Put({i}, i \notin marked)
  /\ UNCHANGED size

ScanAndFlip(start, cnt, value) ==
  LET groups == Groups(start, cnt, value) IN
  /\ given' = <<"scan and flip", start, cnt, value>>
  /\ marked' = IF groups = {} THEN marked ELSE Put(Interval(Min(groups), cnt), ~value)
  /\ UNCHANGED size

Expand(n) ==
  /\ given' = <<"expand", n>>
  /\ size' = size + n
  /\ marked' \subseteq Interval(0, size')
  /\ marked' \cap Reached = marked \cap Reached

\* The command says which it is.
Next ==
  \/ given'[1] = "create" /\ \E n \in 0 .. MaxBits : Create(n)
  \/ given'[1] = "expand" /\ \E n \in 0 .. MaxBits : Expand(n)
  \/ given'[1] = "flip" /\ \E i \in Interval(0, size) : Flip(i)
  \/ /\ given'[1] \in {"set", "scan and flip"}
     /\ \E start, cnt \in 0 .. MaxBits, value \in BOOLEAN :
          \/ start + cnt <= size /\ Set(start, cnt, value)
          \/ start <= size /\ ScanAndFlip(start, cnt, value)

Spec == Init /\ [][Next]_vars
=============================================================================
