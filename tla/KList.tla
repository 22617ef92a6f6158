-------------------------------- MODULE KList --------------------------------
(* The doubly linked lists of Pintos (lib/kernel/list.c, here the copy of  *)
(* os#0, which has list_swap): elements that are linked in place between a *)
(* head and a tail of each list.  Links are functions prev and next over   *)
(* all nodes; the four primitives that write them are operators from links *)
(* to links, so that the loops of the library can be built from them.      *)
EXTENDS Integers, Sequences, SequencesExt

CONSTANTS
  Elems,   \* the struct list_elem there may be
  Lists,
  NULL

ListHead(l) == <<"head", l>>
ListTail(l) == <<"tail", l>>
Heads == {ListHead(l) : l \in Lists}
Tails == {ListTail(l) : l \in Lists}
Nodes == Elems \cup Heads \cup Tails

ASSUME NodesAssumption ==
  /\ NULL \notin Nodes
  /\ Elems \cap (Heads \cup Tails) = {}

VARIABLES
  link,    \* [prev, next], each a function from nodes to nodes or NULL
  member   \* the elements that are in some list

Links == [prev : [Nodes -> Nodes \cup {NULL}], next : [Nodes -> Nodes \cup {NULL}]]

\* list_init of every list.
EmptyLinks ==
  [prev |-> [n \in Nodes |-> IF n \in Tails THEN ListHead(n[2]) ELSE NULL],
   next |-> [n \in Nodes |-> IF n \in Heads THEN ListTail(n[2]) ELSE NULL]]

IsInterior(L, n) == L.prev[n] # NULL /\ L.next[n] # NULL
IsTail(L, n)     == L.prev[n] # NULL /\ L.next[n] = NULL

\* Variant: the element behind keeps its prev.
ListInsert_OneWay(L, before, elem) ==
  [prev |-> [L.prev EXCEPT ![elem] = L.prev[before]],
   next |-> [L.next EXCEPT ![elem] = before, ![L.prev[before]] = elem]]
ListInsert(L, before, elem) ==
  [prev |-> [L.prev EXCEPT ![elem] = L.prev[before], ![before] = elem],
   next |-> [L.next EXCEPT ![elem] = before, ![L.prev[before]] = elem]]

\* The removed element keeps its links.
ListRemove(L, elem) ==
  [prev |-> [L.prev EXCEPT ![L.next[elem]] = L.prev[elem]],
   next |-> [L.next EXCEPT ![L.prev[elem]] = L.next[elem]]]

\* From first up to and including last, out of one place and into another.
\* What stands before `before` is looked up when they are out.
Rejoin(L, before, first, last) ==
  LET out == [prev |-> [L.prev EXCEPT ![L.next[last]] = L.prev[first]],
              next |-> [L.next EXCEPT ![L.prev[first]] = L.next[last]]]
      p   == out.prev[before]
  IN  [prev |-> [out.prev EXCEPT ![first] = p, ![before] = last],
       next |-> [out.next EXCEPT ![last] = before, ![p] = first]]

ListSplice(L, before, first, last) ==
  IF first = last THEN L ELSE Rejoin(L, before, first, L.prev[last])

\* b directly behind a.
SwapNeighbours(L, a, b) ==
  LET p == L.prev[a]
      s == L.next[b]
  IN  [prev |-> [L.prev EXCEPT ![b] = p, ![a] = b, ![s] = a],
       next |-> [L.next EXCEPT ![p] = b, ![b] = a, ![a] = s]]

\* Neither behind the other, or both the same.
SwapApart(L, a, b) ==
  [prev |-> [L.prev EXCEPT ![L.next[a]] = b, ![L.next[b]] = a,
                           ![a] = L.prev[b], ![b] = L.prev[a]],
   next |-> [L.next EXCEPT ![L.prev[a]] = b, ![L.prev[b]] = a,
                           ![a] = L.next[b], ![b] = L.next[a]]]

ListSwap(L, a, b) ==
  CASE L.next[a] = b                     -> SwapNeighbours(L, a, b)
    [] L.next[a] # b /\ L.next[b] = a    -> SwapNeighbours(L, b, a)
    [] OTHER                             -> SwapApart(L, a, b)

-----------------------------------------------------------------------------
(* The calls, with what they assert or their comments ask for.             *)

Listed == member \cup Heads \cup Tails

KListInit == link = EmptyLinks /\ member = {}

\* A new element before an element or a tail.
CallInsert(before, elem) ==
  /\ before \in Listed \ Heads /\ elem \in Elems \ member
  /\ link' = ListInsert(link, before, elem)
  /\ member' = member \cup {elem}

CallRemove(elem) ==
  /\ elem \in member
  /\ link' = ListRemove(link, elem)
  /\ member' = member \ {elem}

\* range is what goes from first to before last; it does not hold the place it
\* goes to.
CallSplice(before, first, last, range) ==
  /\ before \in Listed \ Heads /\ first \in member /\ last \in Listed \ Heads
  /\ \/ first = last
     \/ /\ range \subseteq member /\ before \notin range
        /\ {first, link.prev[last]} \subseteq range
        /\ \A n \in range : /\ link.next[n] \in range <=> n # link.prev[last]
                            /\ link.prev[n] \in range <=> n # first
  /\ link' = ListSplice(link, before, first, last)
  /\ UNCHANGED member

CallSwap(a, b) ==
  /\ a \in member /\ b \in member
  /\ link' = ListSwap(link, a, b)
  /\ UNCHANGED member

KListNext ==
  \/ \E before \in Nodes, elem \in Elems : CallInsert(before, elem)
  \/ \E elem \in Elems : CallRemove(elem)
  \/ \E before, first, last \in Nodes, range \in SUBSET Elems :
       CallSplice(before, first, last, range)
  \/ \E a, b \in Elems : CallSwap(a, b)

KListSpec == KListInit /\ [][KListNext]_<<link, member>>

-----------------------------------------------------------------------------
\* Over the nodes of the lists next and prev are each other's inverse, heads
\* have no prev and tails no next.
Symmetric ==
  /\ \A n \in Listed \ Tails :
       /\ link.next[n] \in Listed \ Heads
       /\ link.prev[link.next[n]] = n
  /\ \A n \in Listed \ Heads :
       /\ link.prev[n] \in Listed \ Tails
       /\ link.next[link.prev[n]] = n
  /\ \A l \in Lists : /\ link.prev[ListHead(l)] = NULL
                      /\ link.next[ListTail(l)] = NULL

\* From any set of elements next leads out.
NoLoops == \A C \in SUBSET member : C # {} => \E n \in C : link.next[n] \notin C

\* "The symmetry of this arrangement lets us eliminate a lot of special
\* cases": it is what lets list_remove do without a condition, every loop go
\* both ways, and every walk come to an end.  A primitive that writes one of
\* its pointers in the wrong order breaks it.
Linked == Symmetric /\ NoLoops
=============================================================================
