------------------------------- MODULE ListSeqs -------------------------------
(* What the lists promise: each is a sequence of elements, each element    *)
(* carries a value.  One action for each kind of command, which it names.   *)
EXTENDS Integers, Sequences, SequencesExt, FiniteSets

CONSTANTS Elems, Lists, Values, Free

VARIABLES
  seqs,   \* list -> sequence of elements
  data,   \* element -> value, Free while it is not allocated
  command \* the last one given

vars == <<seqs, data, command>>

Init == /\ seqs = [l \in Lists |-> <<>>]
        /\ data = [e \in Elems |-> Free]
        /\ command = "none"

Less(a, b) == data'[a] < data'[b]

\* The place of e: before the first element that is greater.
Place(s, e) ==
  LET greater == {i \in DOMAIN s : Less(e, s[i])} IN
  IF greater = {} THEN Len(s) + 1
  ELSE CHOOSE i \in greater : \A j \in greater : i <= j

Sorted(s) == FoldLeft(LAMBDA t, e : InsertAt(t, Place(t, e), e), <<>>, s)

\* The elements at the positions in P.
Pick(s, P) == FoldLeft(LAMBDA t, i : IF i \in P THEN Append(t, s[i]) ELSE t, <<>>,
                       [i \in DOMAIN s |-> i])

Repeats(s) == {i \in DOMAIN s : i > 1 /\ data[s[i]] = data[s[i - 1]]}

\* The elements in E are given back.
Released(E) == data' = [e \in Elems |-> IF e \in E THEN Free ELSE data[e]]

\* A new element with value v at a place of list l.
New(e, v) == data[e] = Free /\ data' = [data EXCEPT ![e] = v]

Put ==
  /\ command' = "insert"
  /\ \E e \in Elems, v \in Values, l \in Lists :
       /\ New(e, v)
       /\ \E i \in 1 .. Len(seqs[l]) + 1 : seqs' = [seqs EXCEPT ![l] = InsertAt(@, i, e)]

PutInOrder ==
  /\ command' = "insert ordered"
  /\ \E e \in Elems, v \in Values, l \in Lists :
       /\ New(e, v)
       /\ seqs' = [seqs EXCEPT ![l] = InsertAt(@, Place(@, e), e)]

Take ==
  /\ command' = "remove"
  /\ \E l \in Lists : \E i \in DOMAIN seqs[l] :
       /\ seqs' = [seqs EXCEPT ![l] = RemoveAt(@, i)]
       /\ Released({seqs[l][i]})

Delete ==
  /\ command' = "delete"
  /\ \E l \in Lists : /\ seqs' = [seqs EXCEPT ![l] = <<>>]
                      /\ Released(ToSet(seqs[l]))

\* A range, which may be empty, of one list to a place of another, or to a
\* place outside of it.
Move ==
  /\ command' = "splice"
  /\ UNCHANGED data
  /\ \/ UNCHANGED seqs
     \/ \E l, k \in Lists : \E j \in DOMAIN seqs[k] : \E i \in 1 .. j, p \in 0 .. Len(seqs[l]) :
          LET range == SubSeq(seqs[k], i, j)
              rest  == SubSeq(seqs[k], 1, i - 1) \o SubSeq(seqs[k], j + 1, Len(seqs[k]))
              at    == IF l = k /\ p >= i THEN p - Len(range) ELSE p
              into  == IF l = k THEN rest ELSE seqs[l]
          IN  /\ l = k => p \notin i .. j - 1
              /\ seqs' = [seqs EXCEPT ![k] = rest,
                                      ![l] = SubSeq(into, 1, at) \o range
                                             \o SubSeq(into, at + 1, Len(into))]

Exchange ==
  /\ command' = "swap"
  /\ \E l \in Lists : \E i, j \in DOMAIN seqs[l] :
       seqs' = [seqs EXCEPT ![l][i] = seqs[l][j], ![l][j] = seqs[l][i]]
  /\ UNCHANGED data

Turn ==
  /\ command' = "reverse"
  /\ \E l \in Lists : seqs' = [seqs EXCEPT ![l] = Reverse(@)]
  /\ UNCHANGED data

\* Equal elements stay in their order.
Sort ==
  /\ command' = "sort"
  /\ UNCHANGED data
  /\ \E l \in Lists : seqs' = [seqs EXCEPT ![l] = Sorted(@)]

\* Without a list for them the repeats belong to nobody.
Unique ==
  /\ command' = "unique"
  /\ \E l \in Lists :
       LET s == seqs[l]
           first == Pick(s, DOMAIN s \ Repeats(s))
           again == Pick(s, Repeats(s))
       IN  \/ /\ seqs' = [seqs EXCEPT ![l] = first]
              /\ Released(ToSet(again))
           \/ \E d \in Lists \ {l} :
                /\ seqs' = [seqs EXCEPT ![l] = first, ![d] = @ \o again]
                /\ UNCHANGED data

Shuffle ==
  /\ command' = "shuffle"
  /\ \E l \in Lists :
       /\ ToSet(seqs'[l]) = ToSet(seqs[l]) /\ Len(seqs'[l]) = Len(seqs[l])
       /\ seqs' = [seqs EXCEPT ![l] = seqs'[l]]
  /\ UNCHANGED data

Next ==
  \/ Put \/ PutInOrder \/ Take \/ Delete \/ Move \/ Exchange \/ Turn
  \/ Sort \/ Unique \/ Shuffle

Spec == Init /\ [][Next]_vars
=============================================================================
