------------------------------- MODULE ListLib -------------------------------
(* The commands of os#0's main.c that work on lists, with the loops of     *)
(* lib/kernel/list.c they run: every walk goes from link to link, and what *)
(* a loop writes it writes with the primitives of KList.                   *)
(*                                                                         *)
(* Inputs are those the commands are meant for: positions inside the list, *)
(* a list for the duplicates of list_unique that is another one, a range   *)
(* that does not hold the place it is moved to, and at least two elements  *)
(* to shuffle (length - 2 and length - 1 - i are unsigned).                *)
EXTENDS KList, FiniteSets

CONSTANTS Values, Free

VARIABLES
  data,    \* element -> value, Free while it is not allocated
  command  \* the last one given

listvars == <<link, member, data, command>>

ListInit ==
  /\ link = EmptyLinks /\ member = {}
  /\ data = [e \in Elems |-> Free]
  /\ command = "none"

Begin(L, l) == L.next[ListHead(l)]

\* Elements from node n up to the tail.
RECURSIVE From(_, _)
From(L, n) == IF L.next[n] = NULL THEN <<>> ELSE <<n>> \o From(L, L.next[n])

Contents(L, l) == From(L, Begin(L, l))

\* list_next, i times.
RECURSIVE Forward(_, _, _)
Forward(L, n, i) == IF i = 0 THEN n ELSE Forward(L, L.next[n], i - 1)

Nth(l, i) == Forward(link, Begin(link, l), i)

Less(d, a, b) == d[a] < d[b]

-----------------------------------------------------------------------------
(* list_insert_ordered, list_sort, list_unique, list_reverse, list_shuffle *)

RECURSIVE FirstGreater(_, _, _, _)
FirstGreater(L, d, e, n) ==
  IF L.next[n] = NULL \/ Less(d, e, n) THEN n ELSE FirstGreater(L, d, e, L.next[n])

\* The end of the run that begins at a, not behind b.
RECURSIVE EndOfRun(_, _, _)
EndOfRun(L, a, b) ==
  LET n == L.next[a] IN
  IF n # b /\ ~Less(data, n, L.prev[n]) THEN EndOfRun(L, n, b) ELSE n

\* Variant: of equal elements the later one goes first.
RECURSIVE InplaceMerge_Unstable(_, _, _, _)
InplaceMerge_Unstable(L, a0, a1b0, b1) ==
  IF a0 = a1b0 \/ a1b0 = b1 THEN L
  ELSE IF Less(data, a0, a1b0) THEN InplaceMerge_Unstable(L, L.next[a0], a1b0, b1)
  ELSE InplaceMerge_Unstable(ListSplice(L, a0, a1b0, L.next[a1b0]), a0, L.next[a1b0], b1)

\* Two neighbouring runs become one.
RECURSIVE InplaceMerge(_, _, _, _)
InplaceMerge(L, a0, a1b0, b1) ==
  IF a0 = a1b0 \/ a1b0 = b1 THEN L
  ELSE IF ~Less(data, a1b0, a0) THEN InplaceMerge(L, L.next[a0], a1b0, b1)
  ELSE InplaceMerge(ListSplice(L, a0, a1b0, L.next[a1b0]), a0, L.next[a1b0], b1)

\* One pass over the list: the links after it, the runs it put out.
RECURSIVE SortPass(_, _, _, _)
SortPass(L, l, a0, runs) ==
  IF a0 = ListTail(l) THEN [L |-> L, runs |-> runs]
  ELSE LET a1b0 == EndOfRun(L, a0, ListTail(l)) IN
       IF a1b0 = ListTail(l) THEN [L |-> L, runs |-> runs + 1]
       ELSE LET b1 == EndOfRun(L, a1b0, ListTail(l)) IN
            SortPass(InplaceMerge(L, a0, a1b0, b1), l, b1, runs + 1)

RECURSIVE SortLinks(_, _)
SortLinks(L, l) ==
  LET p == SortPass(L, l, Begin(L, l), 0)
  IN  IF p.runs > 1 THEN SortLinks(p.L, l) ELSE p.L

\* dup is the list for the duplicates, NULL without one; out is what was
\* removed.
RECURSIVE UniqueLinks(_, _, _, _)
UniqueLinks(L, elem, dup, out) ==
  LET n == L.next[elem] IN
  IF L.next[n] = NULL THEN [L |-> L, out |-> out]
  ELSE IF Less(data, elem, n) \/ Less(data, n, elem) THEN UniqueLinks(L, n, dup, out)
  ELSE UniqueLinks(IF dup = NULL THEN ListRemove(L, n)
                   ELSE ListInsert(ListRemove(L, n), ListTail(dup), n),
                   elem, dup, out \cup {n})

\* Every element has its links swapped, then the two ends.
ReverseLinks(L, l) ==
  LET inside == ToSet(Contents(L, l))
      turned == [prev |-> [n \in Nodes |-> IF n \in inside THEN L.next[n] ELSE L.prev[n]],
                 next |-> [n \in Nodes |-> IF n \in inside THEN L.prev[n] ELSE L.next[n]]]
      first  == L.prev[ListTail(l)]
      last   == L.next[ListHead(l)]
  IN  IF last = ListTail(l) THEN L
      ELSE [prev |-> [turned.prev EXCEPT ![ListTail(l)] = last, ![first] = ListHead(l)],
            next |-> [turned.next EXCEPT ![ListHead(l)] = first, ![last] = ListTail(l)]]

\* What the swaps of list_shuffle may leave: element i goes against a later
\* one, for every i but the last two.
RECURSIVE Shuffles(_, _, _, _)
Shuffles(L, l, i, length) ==
  IF i >= length - 2 THEN {L}
  ELSE UNION {Shuffles(ListSwap(L, Forward(L, Begin(L, l), i), Forward(L, Begin(L, l), j)),
                       l, i + 1, length) : j \in i + 1 .. length - 1}

-----------------------------------------------------------------------------
(* The commands.                                                           *)

Size(l) == Len(Contents(link, l))

\* What is given back is forgotten, links and value.
Forget(L, E) ==
  /\ link' = [prev |-> [n \in Nodes |-> IF n \in E THEN NULL ELSE L.prev[n]],
              next |-> [n \in Nodes |-> IF n \in E THEN NULL ELSE L.next[n]]]
  /\ member' = member \ E
  /\ data' = [e \in Elems |-> IF e \in E THEN Free ELSE data[e]]

Allocated(e, v) ==
  /\ data[e] = Free
  /\ member' = member \cup {e}
  /\ data' = [data EXCEPT ![e] = v]

\* list_insert, list_push_front (at 0) and list_push_back (at the size).
InsertAtIndex(l, i, e, v) ==
  /\ command' = "insert"
  /\ i <= Size(l)
  /\ Allocated(e, v)
  /\ link' = ListInsert(link, Nth(l, i), e)

InsertInOrder(l, e, v) ==
  /\ command' = "insert ordered"
  /\ Allocated(e, v)
  /\ link' = ListInsert(link, FirstGreater(link, data', e, Begin(link, l)), e)

\* list_remove, list_pop_front and list_pop_back; the driver frees the element.
RemoveAtIndex(l, i) ==
  /\ command' = "remove"
  /\ i < Size(l)
  /\ Forget(ListRemove(link, Nth(l, i)), {Nth(l, i)})

\* "delete": all popped and freed; "create list" forgets what there was.
RECURSIVE PopAll(_, _)
PopAll(L, l) ==
  IF Begin(L, l) = ListTail(l) THEN L ELSE PopAll(ListRemove(L, Begin(L, l)), l)

DeleteList(l) ==
  /\ command' = "delete"
  /\ Forget(PopAll(link, l), ToSet(Contents(link, l)))

SpliceLists(l, before, k, first, last) ==
  /\ command' = "splice"
  /\ before <= Size(l) /\ first <= last /\ last <= Size(k)
  /\ l = k => before < first \/ last <= before
  /\ link' = ListSplice(link, Nth(l, before), Nth(k, first), Nth(k, last))
  /\ UNCHANGED <<member, data>>

SwapElems(l, i, j) ==
  /\ command' = "swap"
  /\ i < Size(l) /\ j < Size(l)
  /\ link' = ListSwap(link, Nth(l, i), Nth(l, j))
  /\ UNCHANGED <<member, data>>

ReverseList(l) ==
  /\ command' = "reverse"
  /\ link' = ReverseLinks(link, l)
  /\ UNCHANGED <<member, data>>

SortList(l) ==
  /\ command' = "sort"
  /\ link' = SortLinks(link, l)
  /\ UNCHANGED <<member, data>>

\* Without a list for the duplicates nobody has them any more.
UniqueList(l, dup) ==
  LET u == UniqueLinks(link, Begin(link, l), dup, {}) IN
  /\ command' = "unique"
  /\ dup # l
  /\ CASE Size(l) = 0               -> UNCHANGED <<link, member, data>>
       [] Size(l) > 0 /\ dup = NULL -> Forget(u.L, u.out)
       [] Size(l) > 0 /\ dup # NULL -> link' = u.L /\ UNCHANGED <<member, data>>

ShuffleList(l) ==
  /\ command' = "shuffle"
  /\ Size(l) >= 2
  /\ link' \in Shuffles(link, l, 0, Size(l))
  /\ UNCHANGED <<member, data>>

\* malloc may return any block; the models take one.
NewElem == CHOOSE e \in Elems : data[e] = Free

ListCommand ==
  \E l \in Lists :
    \/ /\ \E e \in Elems : data[e] = Free
       /\ \E v \in Values : \/ \E i \in 0 .. Cardinality(Elems) : InsertAtIndex(l, i, NewElem, v)
                            \/ InsertInOrder(l, NewElem, v)
    \/ \E i \in 0 .. Cardinality(Elems) - 1 : RemoveAtIndex(l, i)
    \/ DeleteList(l)
    \/ \E k \in Lists, b, i, j \in 0 .. Cardinality(Elems) : SpliceLists(l, b, k, i, j)
    \/ \E i, j \in 0 .. Cardinality(Elems) - 1 : SwapElems(l, i, j)
    \/ ReverseList(l) \/ SortList(l) \/ ShuffleList(l)
    \/ \E dup \in Lists \cup {NULL} : UniqueList(l, dup)

ListSpec == ListInit /\ [][ListCommand]_listvars

\* Whatever commands came before, what the links spell is a sequence, and each
\* command does to it what it says: insertion at a place, a stable sort, the
\* first of each group of repeats, a range moved, two elements exchanged, the
\* list turned round.
Promise == INSTANCE ListSeqs WITH seqs <- [l \in Lists |-> Contents(link, l)]
ListsImplementSequences == Promise!Spec
=============================================================================
