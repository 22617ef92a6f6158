----------------------------- MODULE KLibProofs -----------------------------
(* The three parts of os#0's library: the links of its lists, what a hash  *)
(* table counts and finds, and its bitmaps as sets of bits.                *)
EXTENDS KList, HashTable, Bitmap, FiniteSetTheorems, WellFoundedInduction, TLAPS

-----------------------------------------------------------------------------
(* Lists.  Whatever legal calls of the list primitives are made, in        *)
(* whatever order and on whatever elements, next and prev stay each        *)
(* other's inverse.                                                        *)

ListTypeOK == link \in Links /\ member \subseteq Elems

ListIInv == ListTypeOK /\ Linked

\* Elements, heads, tails and NULL are told apart.
LEMMA NodesDistinct ==
  /\ Heads \cap Tails = {} /\ Elems \cap Heads = {} /\ Elems \cap Tails = {}
  /\ NULL \notin Heads \cup Tails \cup Elems
<1>1. ASSUME NEW l \in Lists, NEW m \in Lists PROVE ListHead(l) # ListTail(m)
  BY DEF ListHead, ListTail
<1>2. Heads \cap Tails = {}
  BY <1>1 DEF Heads, Tails
<1> QED BY <1>2, NodesAssumption DEF Nodes

\* Two heads, or two tails, of different lists differ.
LEMMA ListOf ==
  ASSUME NEW l \in Lists
  PROVE  ListHead(l)[2] = l /\ ListTail(l)[2] = l
BY DEF ListHead, ListTail

\* Empty lists: heads and tails point at each other.
LEMMA ListInitKeeps == KListInit => ListIInv
<1> SUFFICES ASSUME KListInit PROVE ListIInv
  OBVIOUS
<1> USE NodesDistinct, ListOf
<1>1. \A l \in Lists : /\ link.next[ListHead(l)] = ListTail(l)
                       /\ link.prev[ListTail(l)] = ListHead(l)
                       /\ link.prev[ListHead(l)] = NULL
                       /\ link.next[ListTail(l)] = NULL
  BY DEF KListInit, EmptyLinks, Nodes, Heads, Tails
<1>2. ListTypeOK
  <2>1. \A n \in Heads : n[2] \in Lists
    BY DEF Heads
  <2>2. \A n \in Tails : n[2] \in Lists
    BY DEF Tails
  <2>3. \A l \in Lists : ListHead(l) \in Nodes /\ ListTail(l) \in Nodes
    BY DEF Nodes, Heads, Tails
  <2>4. EmptyLinks \in Links
    BY <2>1, <2>2, <2>3 DEF EmptyLinks, Links
  <2> QED BY <2>4 DEF KListInit, ListTypeOK
<1>3. Linked
  BY <1>1 DEF KListInit, Linked, Symmetric, NoLoops, Listed, Heads, Tails
<1> QED BY <1>2, <1>3 DEF ListIInv

\* What Linked says of heads and tails, node by node.
LEMMA EndsNull ==
  /\ (\A l \in Lists : link.prev[ListHead(l)] = NULL /\ link.next[ListTail(l)] = NULL)
     <=> (\A h \in Heads : link.prev[h] = NULL) /\ (\A t \in Tails : link.next[t] = NULL)
BY DEF Heads, Tails

\* list_insert: four pointers change, those of the new element, the one of its
\* successor back and the one of its predecessor forward.
LEMMA ListInsertKeeps ==
  ASSUME ListIInv, NEW before \in Nodes, NEW elem \in Elems, CallInsert(before, elem)
  PROVE  ListIInv'
<1> DEFINE p == link.prev[before]
<1> USE NodesDistinct
<1>1. /\ before \in Listed \ Heads /\ p \in Listed \ Tails
      /\ p # elem /\ before # elem /\ link.next[p] = before
  BY DEF ListIInv, ListTypeOK, Linked, Symmetric, CallInsert, Listed
<1>2. link' \in Links /\ member' \subseteq Elems
  BY <1>1 DEF ListIInv, ListTypeOK, CallInsert, ListInsert, Links, Nodes, Listed
<1>3. \A n \in Nodes :
        /\ link'.prev[n] = IF n = before THEN elem ELSE IF n = elem THEN p ELSE link.prev[n]
        /\ link'.next[n] = IF n = p THEN elem ELSE IF n = elem THEN before ELSE link.next[n]
  BY <1>1 DEF ListIInv, ListTypeOK, CallInsert, ListInsert, Links, Nodes, Listed
<1>4. Listed' = Listed \cup {elem} /\ Listed' \subseteq Nodes
  BY DEF CallInsert, Listed, ListIInv, ListTypeOK, Nodes
<1>. elem \notin Listed \cup Heads \cup Tails
  BY DEF CallInsert, Listed
<1>l. /\ \A n \in Listed \ Tails : /\ link.next[n] \in Listed \ Heads
                                    /\ link.prev[link.next[n]] = n
      /\ \A n \in Listed \ Heads : /\ link.prev[n] \in Listed \ Tails
                                    /\ link.next[link.prev[n]] = n
  BY DEF ListIInv, Linked, Symmetric
<1>5. \A n \in Listed' \ Tails :
        link'.next[n] \in Listed' \ Heads /\ link'.prev[link'.next[n]] = n
  BY <1>1, <1>3, <1>4, <1>l
<1>6. \A n \in Listed' \ Heads :
        link'.prev[n] \in Listed' \ Tails /\ link'.next[link'.prev[n]] = n
  BY <1>1, <1>3, <1>4, <1>l
<1>7. (\A h \in Heads : link'.prev[h] = NULL) /\ (\A t \in Tails : link'.next[t] = NULL)
  BY <1>1, <1>3, EndsNull DEF ListIInv, Linked, Symmetric, Nodes
<1>8. NoLoops'
  <2> SUFFICES ASSUME NEW C \in SUBSET member', C # {},
                      \A n \in C : link'.next[n] \in C
               PROVE  FALSE
    BY DEF NoLoops
  <2>1. member' = member \cup {elem} /\ member \subseteq Listed /\ member \subseteq Nodes
    BY <1>4 DEF CallInsert, Listed
  <2>2. PICK n \in C \ {elem} : link.next[n] \notin C \ {elem}
    <3>1. link'.next[elem] = before
      BY <1>1, <1>3 DEF Nodes
    <3>2. C \ {elem} # {}
      BY <1>1, <3>1
    <3> QED BY <2>1, <3>2 DEF ListIInv, Linked, NoLoops
  <2>3. n \in Listed /\ n \in Nodes /\ n # elem /\ link.next[n] # elem
    BY <2>1, <1>l, <1>4, NodesDistinct DEF ListIInv, ListTypeOK
  <2>4. CASE n = p
    BY <2>2, <2>3, <2>4, <1>1, <1>3 DEF Nodes
  <2>5. CASE n # p
    BY <2>2, <2>3, <2>5, <1>3
  <2> QED BY <2>4, <2>5
<1> QED BY <1>2, <1>5, <1>6, <1>7, <1>8, EndsNull
        DEF ListIInv, ListTypeOK, Linked, Symmetric, Heads, Tails

\* list_remove: the two neighbours are joined.
LEMMA RemoveKeeps ==
  ASSUME ListIInv, NEW elem \in Elems, CallRemove(elem)
  PROVE  ListIInv'
<1> DEFINE p == link.prev[elem]
<1> DEFINE s == link.next[elem]
<1> USE NodesDistinct
<1>1. /\ elem \in Listed /\ elem \notin Heads \cup Tails
      /\ p \in Listed \ Tails /\ s \in Listed \ Heads
      /\ link.next[p] = elem /\ link.prev[s] = elem
  BY DEF ListIInv, ListTypeOK, Linked, Symmetric, CallRemove, Listed
<1>2. link' \in Links /\ member' \subseteq Elems
  BY <1>1 DEF ListIInv, ListTypeOK, CallRemove, ListRemove, Links, Nodes, Listed
<1>3. \A n \in Nodes : /\ link'.prev[n] = IF n = s THEN p ELSE link.prev[n]
                       /\ link'.next[n] = IF n = p THEN s ELSE link.next[n]
  BY <1>1 DEF ListIInv, ListTypeOK, CallRemove, ListRemove, Links, Nodes, Listed
<1>4. Listed' = Listed \ {elem} /\ Listed \subseteq Nodes
  BY DEF CallRemove, Listed, ListIInv, ListTypeOK, Nodes
<1>l. /\ \A n \in Listed \ Tails : /\ link.next[n] \in Listed \ Heads
                                    /\ link.prev[link.next[n]] = n
      /\ \A n \in Listed \ Heads : /\ link.prev[n] \in Listed \ Tails
                                    /\ link.next[link.prev[n]] = n
  BY DEF ListIInv, Linked, Symmetric
<1>5. \A n \in Listed' \ Tails :
        link'.next[n] \in Listed' \ Heads /\ link'.prev[link'.next[n]] = n
  BY <1>1, <1>3, <1>4, <1>l
<1>6. \A n \in Listed' \ Heads :
        link'.prev[n] \in Listed' \ Tails /\ link'.next[link'.prev[n]] = n
  BY <1>1, <1>3, <1>4, <1>l
<1>7. (\A h \in Heads : link'.prev[h] = NULL) /\ (\A t \in Tails : link'.next[t] = NULL)
  BY <1>1, <1>3, EndsNull DEF ListIInv, Linked, Symmetric, Nodes
<1>8. NoLoops'
  <2> SUFFICES ASSUME NEW C \in SUBSET member', C # {},
                      \A n \in C : link'.next[n] \in C
               PROVE  FALSE
    BY DEF NoLoops
  <2>1. member' = member \ {elem} /\ member \subseteq Nodes /\ elem \in member
    BY DEF CallRemove, ListIInv, ListTypeOK, Nodes
  <2> DEFINE D == IF p \in C THEN C \cup {elem} ELSE C
  <2>2. PICK n \in D : link.next[n] \notin D
    BY <2>1 DEF ListIInv, Linked, NoLoops
  <2>3. n \in Nodes
    BY <2>1, <2>2
  <2>4. CASE n = elem
    <3>1. p \in C
      BY <2>1, <2>2, <2>4
    <3> QED BY <2>1, <2>2, <2>4, <3>1, <1>3
  <2>5. CASE n # elem
    BY <2>1, <2>2, <2>3, <2>5, <1>1, <1>3
  <2> QED BY <2>4, <2>5
<1> QED BY <1>2, <1>5, <1>6, <1>7, <1>8, EndsNull
        DEF ListIInv, ListTypeOK, Linked, Symmetric, Heads, Tails

\* What the two halves of Linked say once the lists' ends are fixed: enough to
\* know for a step that leaves member alone.
LEMMA SameMembers ==
  ASSUME ListIInv, member' = member, link' \in Links,
         \A n \in Listed \ Tails :
           link'.next[n] \in Listed \ Heads /\ link'.prev[link'.next[n]] = n,
         \A n \in Listed \ Heads :
           link'.prev[n] \in Listed \ Tails /\ link'.next[link'.prev[n]] = n,
         \A h \in Heads : link'.prev[h] = NULL,
         \A t \in Tails : link'.next[t] = NULL,
         NoLoops'
  PROVE  ListIInv'
<1>1. Listed' = Listed
  BY DEF Listed
<1> QED BY <1>1, EndsNull DEF ListIInv, ListTypeOK, Linked, Symmetric, Heads, Tails

\* An element's successor is another one, and two are not each other's.
LEMMA Successors ==
  ASSUME ListIInv, NEW a \in member
  PROVE  link.next[a] # a /\ \A b \in member : link.next[a] = b => link.next[b] # a
<1>1. {a} \in SUBSET member /\ \A b \in member : {a, b} \in SUBSET member
  OBVIOUS
<1>2. link.next[a] # a
  BY <1>1 DEF ListIInv, Linked, NoLoops
<1>3. ASSUME NEW b \in member, link.next[a] = b, link.next[b] = a PROVE FALSE
  BY <1>1, <1>3 DEF ListIInv, Linked, NoLoops
<1> QED BY <1>2, <1>3

\* A step that only exchanges the names of two elements makes no loop.
LEMMA RenamingKeeps ==
  ASSUME NoLoops, NEW a \in member, NEW b \in member, member' = member,
         \A n \in member :
           LET other(x) == IF x = a THEN b ELSE IF x = b THEN a ELSE x
           IN  link'.next[n] = other(link.next[other(n)])
  PROVE  NoLoops'
<1> SUFFICES ASSUME NEW C \in SUBSET member, C # {}, \A n \in C : link'.next[n] \in C
             PROVE  FALSE
  BY DEF NoLoops
<1> DEFINE other(x) == IF x = a THEN b ELSE IF x = b THEN a ELSE x
<1> DEFINE D == {x \in member : other(x) \in C}
<1>1. D # {}
  <2>1. PICK c \in C : TRUE
    OBVIOUS
  <2>2. other(c) \in member /\ other(other(c)) = c
    OBVIOUS
  <2> QED BY <2>1, <2>2
<1>2. PICK n \in D : link.next[n] \notin D
  BY <1>1 DEF NoLoops
<1>3. other(n) \in C /\ link'.next[other(n)] = other(link.next[n])
  BY <1>2
<1>4. other(link.next[n]) \in C
  BY <1>3
<1>5. link.next[n] \in member
  BY <1>4
<1> QED BY <1>2, <1>4, <1>5

\* list_swap of two elements of which neither is next to the other, and of one
\* with itself.
LEMMA SwapApartKeeps ==
  ASSUME ListIInv, NEW a \in member, NEW b \in member,
         link.next[a] # b, link.next[b] # a,
         link' = SwapApart(link, a, b), member' = member
  PROVE  ListIInv'
<1> DEFINE p == link.prev[a]
<1> DEFINE s == link.next[a]
<1> DEFINE q == link.prev[b]
<1> DEFINE t == link.next[b]
<1> USE NodesDistinct
<1>l. /\ \A n \in Listed \ Tails : /\ link.next[n] \in Listed \ Heads
                                    /\ link.prev[link.next[n]] = n
      /\ \A n \in Listed \ Heads : /\ link.prev[n] \in Listed \ Tails
                                    /\ link.next[link.prev[n]] = n
  BY DEF ListIInv, Linked, Symmetric
<1>1. /\ {a, b} \subseteq Listed /\ Listed \subseteq Nodes
      /\ a \notin Heads \cup Tails /\ b \notin Heads \cup Tails
  BY DEF ListIInv, ListTypeOK, Listed, Nodes
<1>s. a # s /\ b # t
  BY Successors
<1>2. /\ {p, q} \subseteq Listed \ Tails /\ {s, t} \subseteq Listed \ Heads
      /\ link.next[p] = a /\ link.prev[s] = a /\ link.next[q] = b /\ link.prev[t] = b
      /\ s # b /\ t # a /\ p # b /\ q # a /\ a # s /\ b # t
  BY <1>l, <1>1, <1>s
<1>3. link' \in Links
  BY <1>1, <1>2 DEF ListIInv, ListTypeOK, SwapApart, Links
<1>4. \A n \in Nodes :
        /\ link'.prev[n] = IF n = b THEN p ELSE IF n = a THEN q
                           ELSE IF n = t THEN a ELSE IF n = s THEN b ELSE link.prev[n]
        /\ link'.next[n] = IF n = b THEN s ELSE IF n = a THEN t
                           ELSE IF n = q THEN a ELSE IF n = p THEN b ELSE link.next[n]
  BY <1>1, <1>2 DEF ListIInv, ListTypeOK, SwapApart, Links
<1>5. \A n \in Listed \ Tails :
        link'.next[n] \in Listed \ Heads /\ link'.prev[link'.next[n]] = n
  BY <1>1, <1>2, <1>4, <1>l
<1>6. \A n \in Listed \ Heads :
        link'.prev[n] \in Listed \ Tails /\ link'.next[link'.prev[n]] = n
  BY <1>1, <1>2, <1>4, <1>l
<1>7. (\A h \in Heads : link'.prev[h] = NULL) /\ (\A e \in Tails : link'.next[e] = NULL)
  BY <1>1, <1>2, <1>4, EndsNull DEF ListIInv, Linked, Symmetric, Nodes
<1>8. NoLoops'
  <2> DEFINE other(x) == IF x = a THEN b ELSE IF x = b THEN a ELSE x
  <2>1. ASSUME NEW n \in member PROVE link'.next[n] = other(link.next[other(n)])
    <3>1. n \in Nodes /\ n \in Listed \ Tails /\ n \notin Heads
      BY DEF ListIInv, ListTypeOK, Nodes, Listed
    <3> QED BY <3>1, <1>1, <1>2, <1>4, <1>l
  <2> QED BY <2>1, RenamingKeeps DEF ListIInv, Linked
<1> QED BY <1>3, <1>5, <1>6, <1>7, <1>8, SameMembers

\* list_swap of an element with the one behind it.
LEMMA SwapNeighboursKeeps ==
  ASSUME ListIInv, NEW a \in member, NEW b \in member, link.next[a] = b,
         link' = SwapNeighbours(link, a, b), member' = member
  PROVE  ListIInv'
<1> DEFINE p == link.prev[a]
<1> DEFINE s == link.next[b]
<1> USE NodesDistinct
<1>l. /\ \A n \in Listed \ Tails : /\ link.next[n] \in Listed \ Heads
                                    /\ link.prev[link.next[n]] = n
      /\ \A n \in Listed \ Heads : /\ link.prev[n] \in Listed \ Tails
                                    /\ link.next[link.prev[n]] = n
  BY DEF ListIInv, Linked, Symmetric
<1>1. /\ {a, b} \subseteq Listed /\ Listed \subseteq Nodes
      /\ a \notin Heads \cup Tails /\ b \notin Heads \cup Tails
  BY DEF ListIInv, ListTypeOK, Listed, Nodes
<1>2. /\ p \in Listed \ Tails /\ s \in Listed \ Heads
      /\ link.next[p] = a /\ link.prev[s] = b /\ link.prev[b] = a
      /\ a # b /\ s # a /\ s # b
  BY <1>l, <1>1, Successors
<1>3. link' \in Links
  BY <1>1, <1>2 DEF ListIInv, ListTypeOK, SwapNeighbours, Links
<1>4. \A n \in Nodes :
        /\ link'.prev[n] = IF n = s THEN a ELSE IF n = a THEN b
                           ELSE IF n = b THEN p ELSE link.prev[n]
        /\ link'.next[n] = IF n = a THEN s ELSE IF n = b THEN a
                           ELSE IF n = p THEN b ELSE link.next[n]
  BY <1>1, <1>2 DEF ListIInv, ListTypeOK, SwapNeighbours, Links
<1>5. \A n \in Listed \ Tails :
        link'.next[n] \in Listed \ Heads /\ link'.prev[link'.next[n]] = n
  BY <1>1, <1>2, <1>4, <1>l
<1>6. \A n \in Listed \ Heads :
        link'.prev[n] \in Listed \ Tails /\ link'.next[link'.prev[n]] = n
  BY <1>1, <1>2, <1>4, <1>l
<1>7. (\A h \in Heads : link'.prev[h] = NULL) /\ (\A e \in Tails : link'.next[e] = NULL)
  BY <1>1, <1>2, <1>4, EndsNull DEF ListIInv, Linked, Symmetric, Nodes
<1>8. NoLoops'
  <2> DEFINE other(x) == IF x = a THEN b ELSE IF x = b THEN a ELSE x
  <2>1. ASSUME NEW n \in member PROVE link'.next[n] = other(link.next[other(n)])
    <3>1. n \in Nodes /\ n \in Listed \ Tails /\ n \notin Heads
      BY DEF ListIInv, ListTypeOK, Nodes, Listed
    <3> QED BY <3>1, <1>1, <1>2, <1>4, <1>l
  <2> QED BY <2>1, RenamingKeeps DEF ListIInv, Linked
<1> QED BY <1>3, <1>5, <1>6, <1>7, <1>8, SameMembers
\* list_splice of a range that is not empty: it is taken out between p and
\* last and put in between q and before.
LEMMA SpliceKeeps ==
  ASSUME ListIInv, NEW before \in Nodes, NEW first \in Nodes, NEW last \in Nodes,
         NEW range \in SUBSET Elems,
         CallSplice(before, first, last, range), first # last
  PROVE  ListIInv'
<1> DEFINE p == link.prev[first]
<1> DEFINE z == link.prev[last]
<1> DEFINE q == IF before = last THEN p ELSE link.prev[before]
<1> USE NodesDistinct
<1>l. /\ \A n \in Listed \ Tails : /\ link.next[n] \in Listed \ Heads
                                    /\ link.prev[link.next[n]] = n
      /\ \A n \in Listed \ Heads : /\ link.prev[n] \in Listed \ Tails
                                    /\ link.next[link.prev[n]] = n
  BY DEF ListIInv, Linked, Symmetric
<1>r. /\ range \subseteq member /\ before \notin range /\ first \in range /\ z \in range
      /\ \A n \in range : /\ link.next[n] \in range <=> n # z
                          /\ link.prev[n] \in range <=> n # first
      /\ before \in Listed \ Heads /\ last \in Listed \ Heads
  BY DEF CallSplice
<1>m. /\ member \subseteq Listed \ (Heads \cup Tails) /\ Listed \subseteq Nodes
      /\ range \subseteq Listed \ (Heads \cup Tails)
  BY <1>r DEF ListIInv, ListTypeOK, Listed, Nodes
<1>1. /\ p \in Listed \ Tails /\ p \notin range /\ link.next[p] = first
      /\ link.next[z] = last /\ last \notin range
  BY <1>l, <1>r, <1>m
<1>2. /\ q \in Listed \ Tails /\ q \notin range
      /\ before # last => link.next[q] = before /\ q # p
  BY <1>l, <1>r, <1>m, <1>1
<1>3. link' \in Links /\ member' = member
  BY <1>1, <1>2, <1>r, <1>m
     DEF ListIInv, ListTypeOK, CallSplice, ListSplice, Rejoin, Links
<1>4. \A n \in Nodes :
        /\ link'.prev[n] = IF n = before THEN z ELSE IF n = first THEN q
                           ELSE IF n = last THEN p ELSE link.prev[n]
        /\ link'.next[n] = IF n = q THEN first ELSE IF n = z THEN before
                           ELSE IF n = p THEN last ELSE link.next[n]
  BY <1>1, <1>2, <1>r, <1>m
     DEF ListIInv, ListTypeOK, CallSplice, ListSplice, Rejoin, Links
<1>5. \A n \in Listed \ Tails :
        link'.next[n] \in Listed \ Heads /\ link'.prev[link'.next[n]] = n
  BY <1>1, <1>2, <1>4, <1>l, <1>r, <1>m
<1>6. \A n \in Listed \ Heads :
        link'.prev[n] \in Listed \ Tails /\ link'.next[link'.prev[n]] = n
  BY <1>1, <1>2, <1>4, <1>l, <1>r, <1>m
<1>7. (\A h \in Heads : link'.prev[h] = NULL) /\ (\A t \in Tails : link'.next[t] = NULL)
  BY <1>1, <1>2, <1>4, <1>r, <1>m, EndsNull DEF ListIInv, Linked, Symmetric, Nodes
<1>8. NoLoops'
  <2> SUFFICES ASSUME NEW C \in SUBSET member, C # {}, \A n \in C : link'.next[n] \in C
               PROVE  FALSE
    BY <1>3 DEF NoLoops
  <2>1. (C \cap range) # {} => before \in C
    <3> SUFFICES ASSUME (C \cap range) # {}, z \notin C PROVE FALSE
      BY <1>2, <1>4, <1>r, <1>m
    <3>1. PICK n \in C \cap range : link.next[n] \notin C \cap range
      BY <1>r DEF ListIInv, Linked, NoLoops
    <3>2. link'.next[n] = link.next[n]
      BY <3>1, <1>1, <1>2, <1>4, <1>r, <1>m
    <3> QED BY <3>1, <3>2, <1>r
  <2> DEFINE D == (C \ range) \cup (IF p \in C THEN range ELSE {})
  <2>2. D # {} /\ D \subseteq member
    BY <2>1, <1>r
  <2>3. PICK n \in D : link.next[n] \notin D
    BY <2>2 DEF ListIInv, Linked, NoLoops
  <2>4. n \in Listed \ Tails /\ n \in Nodes
    BY <2>2, <2>3, <1>m
  <2>5. CASE n \in range
    <3>1. p \in C /\ n = z
      BY <2>3, <2>5, <1>r
    <3>2. CASE before = last
      <4>1. link'.next[p] = first
        BY <3>2, <1>1, <1>4, <1>m
      <4> QED BY <4>1, <3>1, <3>2, <2>1, <2>3, <1>1, <1>r
    <3>3. CASE before # last
      <4>1. last \in C
        BY <3>1, <3>3, <1>1, <1>2, <1>4, <1>m, <1>r
      <4> QED BY <4>1, <3>1, <2>3, <1>1
    <3> QED BY <3>2, <3>3
  <2>6. CASE n \notin range
    <3>1. n \in C /\ n # z
      BY <2>3, <2>6, <1>r
    <3>2. n # p
      BY <3>1, <2>3, <1>1, <1>r
    <3>3. CASE n = q
      <4>1. before # last /\ link.next[n] = before
        BY <3>2, <3>3, <1>2
      <4>2. link'.next[n] = first
        BY <3>3, <1>4, <2>4
      <4>3. before \in C
        BY <4>2, <3>1, <2>1, <1>r
      <4> QED BY <4>1, <4>3, <2>3, <1>r
    <3>4. CASE n # q
      <4>1. link'.next[n] = link.next[n]
        BY <3>1, <3>2, <3>4, <1>4, <2>4
      <4>2. link.next[n] \in C /\ link.next[n] \in range
        BY <4>1, <3>1, <2>3
      <4>3. link.prev[link.next[n]] = n
        BY <2>4, <1>l
      <4> QED BY <4>2, <4>3, <2>6, <3>2, <1>r
    <3> QED BY <3>3, <3>4
  <2> QED BY <2>5, <2>6
<1> QED BY <1>3, <1>5, <1>6, <1>7, <1>8, SameMembers

\* Each call keeps the links.
LEMMA ListStepKeeps == ListIInv /\ [KListNext]_<<link, member>> => ListIInv'
<1> SUFFICES ASSUME ListIInv, [KListNext]_<<link, member>> PROVE ListIInv'
  OBVIOUS
<1>1. ASSUME NEW before \in Nodes, NEW elem \in Elems, CallInsert(before, elem) PROVE ListIInv'
  BY <1>1, ListInsertKeeps
<1>2. ASSUME NEW elem \in Elems, CallRemove(elem) PROVE ListIInv'
  BY <1>2, RemoveKeeps
<1>3. ASSUME NEW before \in Nodes, NEW first \in Nodes, NEW last \in Nodes,
             NEW range \in SUBSET Elems, CallSplice(before, first, last, range)
      PROVE  ListIInv'
  <2>1. CASE first = last
    <3>1. link' = link /\ member' = member
      BY <1>3, <2>1 DEF CallSplice, ListSplice
    <3> QED BY <3>1 DEF ListIInv, ListTypeOK, Linked, Symmetric, NoLoops, Listed
  <2>2. CASE first # last
    BY <1>3, <2>2, SpliceKeeps
  <2> QED BY <2>1, <2>2
<1>4. ASSUME NEW a \in Elems, NEW b \in Elems, CallSwap(a, b) PROVE ListIInv'
  <2>1. a \in member /\ b \in member /\ link' = ListSwap(link, a, b) /\ member' = member
    BY <1>4 DEF CallSwap
  <2>2. CASE link.next[a] = b
    <3>1. link' = SwapNeighbours(link, a, b)
      BY <2>1, <2>2 DEF ListSwap
    <3> QED BY <2>1, <2>2, <3>1, SwapNeighboursKeeps
  <2>3. CASE link.next[a] # b /\ link.next[b] = a
    <3>1. link' = SwapNeighbours(link, b, a)
      BY <2>1, <2>3 DEF ListSwap
    <3> QED BY <2>1, <2>3, <3>1, SwapNeighboursKeeps
  <2>4. CASE link.next[a] # b /\ link.next[b] # a
    <3>1. link' = SwapApart(link, a, b)
      BY <2>1, <2>4 DEF ListSwap
    <3> QED BY <2>1, <2>4, <3>1, SwapApartKeeps
  <2> QED BY <2>2, <2>3, <2>4
<1>5. CASE UNCHANGED <<link, member>>
  BY <1>5 DEF ListIInv, ListTypeOK, Linked, Symmetric, NoLoops, Listed
<1> QED BY <1>1, <1>2, <1>3, <1>4, <1>5 DEF KListNext

\* The lists of list.c stay linked both ways and without loops whatever legal
\* calls of list_insert, list_remove, list_splice and list_swap are made: what
\* the scheduler, the semaphores and the tables of the kernel walk over is
\* always a list.
THEOREM LinkedHolds == KListSpec => []Linked
<1>1. ListIInv => Linked
  BY DEF ListIInv
<1> QED BY ListInitKeeps, ListStepKeeps, <1>1, PTL DEF KListSpec

-----------------------------------------------------------------------------
(* Hash tables, for every set of items and keys, every hash function and   *)
(* every number of buckets to begin with, and whenever malloc fails.       *)

\* n buckets t that hold c items with data d; a says that hash_apply has
\* changed some of it.
Good(n, t, c, d, a) ==
  /\ n \in Nat \ {0}
  /\ t \in [BucketNumbers(n) -> SUBSET Items]
  /\ d \in [Items -> Keys \cup {NoKey}]
  /\ a \in BOOLEAN
  /\ c = Cardinality(Within(t))
  /\ \A b, e \in BucketNumbers(n) : b # e => t[b] \cap t[e] = {}
  /\ \A x \in Items : d[x] # NoKey <=> x \in Within(t)
  /\ ~a => \A b \in BucketNumbers(n) : \A x \in t[b] : IndexOf(d[x], n) = b
  /\ ~a => \A x, y \in Within(t) : d[x] = d[y] => x = y

HashIInv == Good(bucket_cnt, buckets, elem_cnt, key, altered)

LEMMA WithinMember ==
  ASSUME NEW n, NEW t \in [BucketNumbers(n) -> SUBSET Items]
  PROVE  /\ Within(t) \subseteq Items
         /\ \A x : x \in Within(t) <=> \E b \in BucketNumbers(n) : x \in t[b]
         /\ IsFiniteSet(Within(t)) /\ Cardinality(Within(t)) \in Nat
<1>1. \A x : x \in Within(t) <=> \E b \in BucketNumbers(n) : x \in t[b]
  BY DEF Within
<1>2. Within(t) \subseteq Items
  BY <1>1
<1> QED BY <1>1, <1>2, HashAssumption, FS_Subset, FS_CardinalityType

\* A key's bucket is one of the buckets.
LEMMA IndexInRange ==
  ASSUME NEW k \in Keys, NEW n \in Nat \ {0}
  PROVE  IndexOf(k, n) \in BucketNumbers(n)
BY HashAssumption DEF IndexOf, BucketNumbers

\* rehash looks for a power of two that is there: 1 is one.
LEMMA LargestPowerExists ==
  ASSUME NEW n \in Nat \ {0}
  PROVE  LargestPower(n) \in Nat \ {0}
<1>1. 1 \in PowersOf2(n) /\ PowersOf2(n) \subseteq 1 .. n
  BY DEF PowersOf2
<1> DEFINE Above == {p .. n : p \in PowersOf2(n)}
<1>2. Above \subseteq FiniteSubsetsOf(1 .. n) /\ Above # {}
  <2>1. IsFiniteSet(1 .. n)
    BY FS_Interval
  <2>2. \A p \in PowersOf2(n) : p .. n \in SUBSET (1 .. n)
    BY <1>1
  <2> QED BY <1>1, <2>1, <2>2, FS_Subset DEF FiniteSubsetsOf
<1>3. PICK g \in Above : \A h \in Above : ~(<<h, g>> \in StrictSubsetOrdering(1 .. n))
  <2> HIDE DEF Above
  <2> QED BY <1>2, FS_StrictSubsetOrderingWellFounded, WFMin
<1>4. PICK p \in PowersOf2(n) : g = p .. n
  BY <1>3
<1>5. ASSUME NEW q \in PowersOf2(n), ~(q <= p) PROVE FALSE
  <2>1. q .. n \subseteq p .. n /\ p \in p .. n /\ p \notin q .. n
    BY <1>1, <1>4, <1>5
  <2>2. q .. n \in SUBSET (1 .. n) /\ p .. n \in SUBSET (1 .. n)
    BY <1>1
  <2>3. <<q .. n, p .. n>> \in StrictSubsetOrdering(1 .. n)
    BY <2>1, <2>2 DEF StrictSubsetOrdering
  <2> QED BY <1>3, <1>4, <2>3
<1>6. LargestPower(n) \in PowersOf2(n)
  BY <1>4, <1>5 DEF LargestPower
<1> QED BY <1>1, <1>6

LEMMA NewBucketCountType ==
  ASSUME NEW c \in Nat
  PROVE  NewBucketCount(c) \in Nat \ {0}
<1>1. c \div Best \in Nat
  BY DEF Best
<1>2. ~(c \div Best < MinBuckets) => c \div Best \in Nat \ {0}
  BY <1>1, HashAssumption
<1> QED BY <1>1, <1>2, LargestPowerExists, HashAssumption DEF NewBucketCount

\* However many buckets they are spread over, the items stay the same and each
\* lands in the bucket it is looked for.
LEMMA RedistributedGood ==
  ASSUME NEW n, NEW t, NEW c, NEW d, NEW a, Good(n, t, c, d, a), NEW m \in Nat \ {0}
  PROVE  Good(m, Redistributed(t, m, d), c, d, a)
<1> DEFINE u == Redistributed(t, m, d)
<1>1. /\ t \in [BucketNumbers(n) -> SUBSET Items] /\ d \in [Items -> Keys \cup {NoKey}]
      /\ \A x \in Items : d[x] # NoKey <=> x \in Within(t)
      /\ a \in BOOLEAN /\ c = Cardinality(Within(t))
      /\ ~a => \A x, y \in Within(t) : d[x] = d[y] => x = y
  BY DEF Good
<1>2. Within(t) \subseteq Items
  BY <1>1, WithinMember
<1>3. u \in [BucketNumbers(m) -> SUBSET Items]
  BY <1>2 DEF Redistributed
<1>4. \A b \in BucketNumbers(m) : u[b] = {x \in Within(t) : IndexOf(d[x], m) = b}
  BY DEF Redistributed
<1>5. Within(u) = Within(t)
  <2>1. ASSUME NEW x \in Within(t) PROVE IndexOf(d[x], m) \in BucketNumbers(m)
    BY <1>1, <1>2, IndexInRange
  <2> HIDE DEF u
  <2>2. \A x : x \in Within(u) <=> \E b \in BucketNumbers(m) : x \in u[b]
    BY <1>3, WithinMember
  <2> QED BY <2>1, <2>2, <1>4
<1> HIDE DEF u
<1>6. \A b, e \in BucketNumbers(m) : b # e => u[b] \cap u[e] = {}
  BY <1>4
<1>7. \A b \in BucketNumbers(m) : \A x \in u[b] : IndexOf(d[x], m) = b
  BY <1>4
<1>8. Good(m, u, c, d, a)
  BY <1>1, <1>3, <1>5, <1>6, <1>7 DEF Good
<1> QED BY <1>8 DEF u

\* rehash, with and without memory.
LEMMA RehashKeeps ==
  ASSUME NEW t, NEW c, NEW d, Good(bucket_cnt, t, c, d, altered), Rehash(t, c, d)
  PROVE  HashIInv'
<1>1. c \in Nat
  BY WithinMember DEF Good
<1>2. elem_cnt' = c /\ key' = d /\ altered' = altered
  BY DEF Rehash
<1>3. CASE bucket_cnt' = bucket_cnt /\ buckets' = t
  BY <1>2, <1>3 DEF HashIInv
<1>4. CASE /\ bucket_cnt' = NewBucketCount(c)
           /\ buckets' = Redistributed(t, NewBucketCount(c), d)
  BY <1>1, <1>2, <1>4, NewBucketCountType, RedistributedGood DEF HashIInv
<1> QED BY <1>3, <1>4 DEF Rehash
\* A new item with key k goes into the bucket of its key, when nobody there has
\* that key or keys no longer tell.
LEMMA AddedGood ==
  ASSUME NEW n, NEW t, NEW c, NEW d, NEW a, Good(n, t, c, d, a),
         NEW x \in Items, NEW k \in Keys, d[x] = NoKey,
         ~a => \A y \in t[IndexOf(k, n)] : d[y] # k
  PROVE  Good(n, [t EXCEPT ![IndexOf(k, n)] = @ \cup {x}], c + 1, [d EXCEPT ![x] = k], a)
<1> DEFINE i == IndexOf(k, n)
<1> DEFINE u == [t EXCEPT ![i] = @ \cup {x}]
<1> DEFINE e == [d EXCEPT ![x] = k]
<1>t. /\ n \in Nat \ {0} /\ t \in [BucketNumbers(n) -> SUBSET Items]
      /\ d \in [Items -> Keys \cup {NoKey}] /\ a \in BOOLEAN
      /\ c = Cardinality(Within(t))
  BY DEF Good
<1>w. /\ Within(t) \subseteq Items /\ IsFiniteSet(Within(t)) /\ c \in Nat
      /\ \A y : y \in Within(t) <=> \E b \in BucketNumbers(n) : y \in t[b]
  BY <1>t, WithinMember
<1>1. i \in BucketNumbers(n)
  BY <1>t, IndexInRange
<1>2. /\ u \in [BucketNumbers(n) -> SUBSET Items]
      /\ \A b \in BucketNumbers(n) : u[b] = IF b = i THEN t[b] \cup {x} ELSE t[b]
  <2> HIDE DEF i
  <2> QED BY <1>1, <1>t
<1>3. /\ e \in [Items -> Keys \cup {NoKey}]
      /\ \A y \in Items : e[y] = IF y = x THEN k ELSE d[y]
      /\ e[x] = k /\ k # NoKey /\ IndexOf(e[x], n) = i
  BY <1>t, HashAssumption
<1> HIDE DEF u, e, i
<1>4. Within(u) = Within(t) \cup {x}
  <2>1. \A y : y \in Within(u) <=> \E b \in BucketNumbers(n) : y \in u[b]
    BY <1>2, WithinMember
  <2> QED BY <2>1, <1>1, <1>2, <1>w
<1>5. x \notin Within(t) /\ \A b \in BucketNumbers(n) : x \notin t[b]
  BY <1>w DEF Good
<1>6. c + 1 = Cardinality(Within(u))
  <2>1. Cardinality(Within(t) \cup {x}) = Cardinality(Within(t)) + 1
    BY <1>5, <1>w, FS_AddElement
  <2> QED BY <2>1, <1>4, <1>t
<1>7. \A b, g \in BucketNumbers(n) : b # g => u[b] \cap u[g] = {}
  <2>1. \A b, g \in BucketNumbers(n) : b # g => t[b] \cap t[g] = {}
    BY DEF Good
  <2> QED BY <2>1, <1>2, <1>5
<1>8. \A y \in Items : e[y] # NoKey <=> y \in Within(u)
  <2>1. \A y \in Items : d[y] # NoKey <=> y \in Within(t)
    BY DEF Good
  <2> QED BY <2>1, <1>3, <1>4
<1>9. ~a => \A b \in BucketNumbers(n) : \A y \in u[b] : IndexOf(e[y], n) = b
  <2> SUFFICES ASSUME ~a, NEW b \in BucketNumbers(n), NEW y \in u[b]
               PROVE  IndexOf(e[y], n) = b
    OBVIOUS
  <2>1. CASE y = x
    BY <2>1, <1>2, <1>3, <1>5
  <2>2. CASE y # x
    <3>1. y \in t[b] /\ y \in Items /\ e[y] = d[y]
      BY <2>2, <1>2, <1>3, <1>t
    <3> QED BY <3>1 DEF Good
  <2> QED BY <2>1, <2>2
<1>10. ~a => \A y, z \in Within(u) : e[y] = e[z] => y = z
  <2> SUFFICES ASSUME ~a PROVE \A y, z \in Within(u) : e[y] = e[z] => y = z
    OBVIOUS
  <2>1. ASSUME NEW y \in Within(t) PROVE d[y] # k
    <3>1. PICK b \in BucketNumbers(n) : y \in t[b]
      BY <1>w
    <3>2. IndexOf(d[y], n) = b
      BY <3>1 DEF Good
    <3>3. CASE b = i
      BY <3>1, <3>3 DEF i
    <3>4. CASE b # i
      BY <3>2, <3>4 DEF i
    <3> QED BY <3>3, <3>4
  <2>2. \A y, z \in Within(t) : d[y] = d[z] => y = z
    BY DEF Good
  <2> QED BY <2>1, <2>2, <1>3, <1>4, <1>5, <1>w
<1>11. Good(n, u, c + 1, e, a)
  BY <1>t, <1>2, <1>3, <1>6, <1>7, <1>8, <1>9, <1>10 DEF Good
<1> QED BY <1>11 DEF u, e, i

\* An item that goes is out of the one bucket it was in.
LEMMA DeletedGood ==
  ASSUME NEW n, NEW t, NEW c, NEW d, NEW a, Good(n, t, c, d, a),
         NEW k \in Keys, NEW x \in t[IndexOf(k, n)]
  PROVE  /\ Good(n, [t EXCEPT ![IndexOf(k, n)] = @ \ {x}], c - 1, [d EXCEPT ![x] = NoKey], a)
         /\ x \in Items /\ c - 1 \in Nat /\ d[x] # NoKey
<1> DEFINE i == IndexOf(k, n)
<1> DEFINE u == [t EXCEPT ![i] = @ \ {x}]
<1> DEFINE e == [d EXCEPT ![x] = NoKey]
<1>t. /\ n \in Nat \ {0} /\ t \in [BucketNumbers(n) -> SUBSET Items]
      /\ d \in [Items -> Keys \cup {NoKey}] /\ a \in BOOLEAN
      /\ c = Cardinality(Within(t))
      /\ \A b, g \in BucketNumbers(n) : b # g => t[b] \cap t[g] = {}
  BY DEF Good
<1>w. /\ Within(t) \subseteq Items /\ IsFiniteSet(Within(t)) /\ c \in Nat
      /\ \A y : y \in Within(t) <=> \E b \in BucketNumbers(n) : y \in t[b]
  BY <1>t, WithinMember
<1>1. i \in BucketNumbers(n)
  BY <1>t, IndexInRange
<1>i. x \in Items /\ x \in t[i] /\ x \in Within(t)
  BY <1>1, <1>t, <1>w
<1>2. /\ u \in [BucketNumbers(n) -> SUBSET Items]
      /\ \A b \in BucketNumbers(n) : u[b] = IF b = i THEN t[b] \ {x} ELSE t[b]
  <2> HIDE DEF i
  <2> QED BY <1>1, <1>t
<1>3. /\ e \in [Items -> Keys \cup {NoKey}]
      /\ \A y \in Items : e[y] = IF y = x THEN NoKey ELSE d[y]
  BY <1>t
<1> HIDE DEF u, e, i
<1>4. Within(u) = Within(t) \ {x}
  <2>1. \A y : y \in Within(u) <=> \E b \in BucketNumbers(n) : y \in u[b]
    BY <1>2, WithinMember
  <2>2. \A b \in BucketNumbers(n) : x \notin u[b]
    BY <1>1, <1>i, <1>2, <1>t
  <2> QED BY <2>1, <2>2, <1>1, <1>2, <1>w
<1>5. c - 1 = Cardinality(Within(u)) /\ c - 1 \in Nat
  <2>1. Cardinality(Within(t) \ {x}) = Cardinality(Within(t)) - 1
    BY <1>i, <1>w, FS_RemoveElement
  <2>2. c - 1 = Cardinality(Within(u))
    BY <2>1, <1>4, <1>t
  <2> QED BY <2>2, <1>2, WithinMember
<1>6. \A b, g \in BucketNumbers(n) : b # g => u[b] \cap u[g] = {}
  BY <1>2, <1>t
<1>7. \A y \in Items : e[y] # NoKey <=> y \in Within(u)
  <2>1. \A y \in Items : d[y] # NoKey <=> y \in Within(t)
    BY DEF Good
  <2> QED BY <2>1, <1>3, <1>4
<1>8. ~a => \A b \in BucketNumbers(n) : \A y \in u[b] : IndexOf(e[y], n) = b
  <2> SUFFICES ASSUME ~a, NEW b \in BucketNumbers(n), NEW y \in u[b]
               PROVE  IndexOf(e[y], n) = b
    OBVIOUS
  <2>1. y \in t[b] /\ y \in Items
    BY <1>2, <1>t
  <2>2. y # x
    <3>1. y \in Within(u)
      BY <1>2, WithinMember
    <3> QED BY <3>1, <1>4
  <2>3. e[y] = d[y]
    BY <2>1, <2>2, <1>3
  <2> QED BY <2>1, <2>3 DEF Good
<1>9. ~a => \A y, z \in Within(u) : e[y] = e[z] => y = z
  <2>1. ~a => \A y, z \in Within(t) : d[y] = d[z] => y = z
    BY DEF Good
  <2> QED BY <2>1, <1>3, <1>4, <1>w
<1>10. Good(n, u, c - 1, e, a)
  BY <1>t, <1>2, <1>3, <1>5, <1>6, <1>7, <1>8, <1>9 DEF Good
<1>11. d[x] # NoKey
  BY <1>i DEF Good
<1> QED BY <1>i, <1>5, <1>10, <1>11 DEF u, e, i

LEMMA HashInsertKeeps ==
  ASSUME HashIInv, NEW x \in Items, NEW k \in Keys, HashInsert(x, k)
  PROVE  HashIInv'
<1>1. CASE FindElem(k) # {}
  BY <1>1, RehashKeeps DEF HashInsert, HashIInv
<1>2. CASE FindElem(k) = {}
  <2>1. \A y \in buckets[IndexOf(k, bucket_cnt)] : key[y] # k
    BY <1>2 DEF FindElem, FindBucket
  <2> QED BY <1>2, <2>1, AddedGood, RehashKeeps DEF HashInsert, HashIInv
<1> QED BY <1>1, <1>2

\* Replacing is deleting the old item and adding the new one.
LEMMA ReplaceKeeps ==
  ASSUME HashIInv, NEW x \in Items, NEW k \in Keys, HashReplace(x, k)
  PROVE  HashIInv'
<1> DEFINE i == IndexOf(k, bucket_cnt)
<1>1. CASE FindElem(k) = {} /\ Rehash([buckets EXCEPT ![i] = @ \cup {x}], elem_cnt + 1,
                                      [key EXCEPT ![x] = k])
  <2>1. \A y \in buckets[i] : key[y] # k
    BY <1>1 DEF FindElem, FindBucket
  <2> QED BY <1>1, <2>1, AddedGood, RehashKeeps DEF HashReplace, HashIInv
<1>2. ASSUME NEW old \in FindElem(k),
             Rehash([buckets EXCEPT ![i] = (@ \ {old}) \cup {x}], elem_cnt,
                    [key EXCEPT ![x] = k, ![old] = NoKey])
      PROVE  HashIInv'
  <2> DEFINE t == [buckets EXCEPT ![i] = @ \ {old}]
  <2> DEFINE d == [key EXCEPT ![old] = NoKey]
  <2>1. old \in buckets[i] /\ key[old] = k /\ key[x] = NoKey
    BY <1>2 DEF FindElem, FindBucket, HashReplace
  <2>2. Good(bucket_cnt, t, elem_cnt - 1, d, altered) /\ old \in Items /\ elem_cnt - 1 \in Nat
    BY <2>1, DeletedGood DEF HashIInv
  <2>t. /\ bucket_cnt \in Nat \ {0} /\ buckets \in [BucketNumbers(bucket_cnt) -> SUBSET Items]
        /\ key \in [Items -> Keys \cup {NoKey}] /\ elem_cnt \in Nat
    BY WithinMember DEF HashIInv, Good
  <2>3. x # old /\ d[x] = NoKey
    BY <2>1, <2>2, <2>t, HashAssumption
  <2>4. t[i] = buckets[i] \ {old} /\ i \in BucketNumbers(bucket_cnt)
    BY <2>t, IndexInRange
  <2>5. ~altered => \A y \in t[i] : d[y] # k
    <3> SUFFICES ASSUME ~altered, NEW y \in t[i] PROVE d[y] # k
      OBVIOUS
    <3>1. y \in buckets[i] /\ y # old /\ y \in Items
      BY <2>4, <2>t
    <3>2. y \in Within(buckets) /\ old \in Within(buckets)
      BY <2>1, <2>4, <2>t, <3>1, WithinMember
    <3>3. key[y] # key[old]
      BY <3>1, <3>2 DEF HashIInv, Good
    <3> QED BY <2>1, <2>t, <3>1, <3>3
  <2>6. Good(bucket_cnt, [t EXCEPT ![i] = @ \cup {x}], (elem_cnt - 1) + 1,
             [d EXCEPT ![x] = k], altered)
    BY <2>2, <2>3, <2>5, AddedGood
  <2>7. [t EXCEPT ![i] = @ \cup {x}] = [buckets EXCEPT ![i] = (@ \ {old}) \cup {x}]
    <3> HIDE DEF i
    <3> QED BY <2>t, <2>4
  <2>8. [d EXCEPT ![x] = k] = [key EXCEPT ![x] = k, ![old] = NoKey]
    BY <2>t, <2>3
  <2>9. (elem_cnt - 1) + 1 = elem_cnt
    BY <2>t
  <2> QED BY <1>2, <2>6, <2>7, <2>8, <2>9, RehashKeeps
<1> QED BY <1>1, <1>2 DEF HashReplace

LEMMA DeleteKeeps ==
  ASSUME HashIInv, NEW k \in Keys, HashDelete(k)
  PROVE  HashIInv'
<1>1. PICK x \in FindElem(k) :
        Rehash([buckets EXCEPT ![IndexOf(k, bucket_cnt)] = @ \ {x}], elem_cnt - 1,
               [key EXCEPT ![x] = NoKey])
  BY DEF HashDelete
<1>2. x \in buckets[IndexOf(k, bucket_cnt)]
  BY DEF FindElem, FindBucket
<1> QED BY <1>1, <1>2, DeletedGood, RehashKeeps DEF HashIInv

\* A table without elements.
LEMMA EmptyGood ==
  ASSUME NEW n \in Nat \ {0}
  PROVE  Good(n, [b \in BucketNumbers(n) |-> {}], 0, [x \in Items |-> NoKey], FALSE)
<1> DEFINE t == [b \in BucketNumbers(n) |-> {}]
<1>1. Within(t) = {}
  BY DEF Within
<1> QED BY <1>1, FS_EmptySet DEF Good

LEMMA ClearKeeps ==
  ASSUME NEW n \in Nat \ {0}, HashClear(n)
  PROVE  HashIInv'
BY EmptyGood DEF HashClear, HashIInv

LEMMA ApplyKeeps ==
  ASSUME HashIInv, NEW f, HashApply(f)
  PROVE  HashIInv'
<1>t. /\ key \in [Items -> Keys \cup {NoKey}] /\ altered \in BOOLEAN
      /\ Within(buckets) \subseteq Items
      /\ \A x \in Items : key[x] # NoKey <=> x \in Within(buckets)
  BY WithinMember DEF HashIInv, Good
<1>1. /\ key' \in [Items -> Keys \cup {NoKey}] /\ altered' \in BOOLEAN
      /\ \A x \in Items : key'[x] # NoKey <=> x \in Within(buckets)
  BY <1>t, HashAssumption DEF HashApply, InTable
<1>2. ~altered' => ~altered /\ key' = key
  BY <1>t DEF HashApply, InTable
<1>3. bucket_cnt' = bucket_cnt /\ buckets' = buckets /\ elem_cnt' = elem_cnt
  BY DEF HashApply
<1>4. CASE altered'
  BY <1>1, <1>3, <1>4 DEF HashIInv, Good
<1>5. CASE ~altered'
  BY <1>1, <1>2, <1>3, <1>5 DEF HashIInv, Good
<1> QED BY <1>4, <1>5

\* From the empty table on, every command leaves a good one.
LEMMA HashStepKeeps == HashIInv /\ [HashCommand]_hashvars => HashIInv'
<1> SUFFICES ASSUME HashIInv, [HashCommand]_hashvars PROVE HashIInv'
  OBVIOUS
<1>1. ASSUME NEW k \in Keys, \E x \in Items : key[x] = NoKey,
             HashInsert(NewItem, k) \/ HashReplace(NewItem, k)
      PROVE  HashIInv'
  <2>1. NewItem \in Items
    BY <1>1 DEF NewItem
  <2> QED BY <1>1, <2>1, HashInsertKeeps, ReplaceKeeps
<1>2. ASSUME NEW k \in Keys, HashDelete(k) PROVE HashIInv'
  BY <1>2, DeleteKeeps
<1>3. CASE HashClear(bucket_cnt) \/ HashClear(MinBuckets)
  <2>1. bucket_cnt \in Nat \ {0}
    BY DEF HashIInv, Good
  <2> QED BY <1>3, <2>1, ClearKeeps, HashAssumption
<1>4. CASE HashApply(Square) \/ HashApply(Triple)
  BY <1>4, ApplyKeeps
<1>5. CASE UNCHANGED hashvars
  BY <1>5 DEF hashvars, HashIInv
<1> QED BY <1>1, <1>2, <1>3, <1>4, <1>5 DEF HashCommand

LEMMA HashInitKeeps == HashInit => HashIInv
BY EmptyGood, HashAssumption DEF HashInit, HashIInv

LEMMA GoodCounts == HashIInv => CountExact
BY DEF HashIInv, Good, CountExact, InTable

LEMMA GoodFinds == HashIInv => FindExact
<1> SUFFICES ASSUME HashIInv, ~altered, NEW k \in Keys
             PROVE  /\ FindElem(k) = {x \in InTable : key[x] = k}
                    /\ \A x, y \in {z \in InTable : key[z] = k} : x = y
  BY DEF FindExact
<1>1. /\ bucket_cnt \in Nat \ {0} /\ buckets \in [BucketNumbers(bucket_cnt) -> SUBSET Items]
      /\ \A b \in BucketNumbers(bucket_cnt) : \A x \in buckets[b] :
           IndexOf(key[x], bucket_cnt) = b
      /\ \A x, y \in InTable : key[x] = key[y] => x = y
  BY DEF HashIInv, Good, InTable
<1>2. \A x : x \in InTable <=> \E b \in BucketNumbers(bucket_cnt) : x \in buckets[b]
  BY <1>1, WithinMember DEF InTable
<1>3. IndexOf(k, bucket_cnt) \in BucketNumbers(bucket_cnt)
  BY <1>1, IndexInRange
<1> QED BY <1>1, <1>2, <1>3 DEF FindElem, FindBucket

\* hash.c keeps the number of elements, and no element is in two buckets,
\* through every insertion, replacement, deletion and rehash, whether malloc
\* succeeds or not.
THEOREM CountHolds == HashSpec => []CountExact
BY HashInitKeeps, HashStepKeeps, GoodCounts, PTL DEF HashSpec

\* As long as nobody changes keys under the table, the one bucket hash_find
\* looks into holds exactly the elements with that key, and there is at most one.
THEOREM FindHolds == HashSpec => []FindExact
BY HashInitKeeps, HashStepKeeps, GoodFinds, PTL DEF HashSpec

-----------------------------------------------------------------------------
(* Bitmaps, of every size, with elements of every width.  The loops over   *)
(* bits are folds; Written says what one of them does to the whole array.  *)

\* A bit number is the number of its element and a place in that element.
LEMMA DivMod ==
  ASSUME NEW i \in Nat
  PROVE  /\ ElemIdx(i) \in Nat /\ i % ElemBits \in 0 .. ElemBits - 1
         /\ i = ElemIdx(i) * ElemBits + (i % ElemBits)
<1>1. PICK w \in Nat \ {0} : w = ElemBits
  BY BitmapAssumption
<1>2. i \div w \in Nat
  BY Z3
<1>3. i % w \in 0 .. w - 1
  BY Z3
<1>4. i = (i \div w) * w + (i % w)
  BY Z3
<1> QED BY <1>1, <1>2, <1>3, <1>4 DEF ElemIdx

\* Two bits of the same element under the same mask are one.
LEMMA SameBit ==
  ASSUME NEW i \in Nat, NEW j \in Nat, ElemIdx(i) = ElemIdx(j), i % ElemBits = j % ElemBits
  PROVE  i = j
BY BitmapAssumption, DivMod

\* A bitmap of n bits has an element for each of them.
LEMMA InArray ==
  ASSUME NEW n \in Nat, NEW i \in 0 .. n - 1
  PROVE  ElemIdx(i) \in 0 .. ElemCnt(n) - 1
BY BitmapAssumption DEF ElemIdx, ElemCnt

\* An empty bitmap has no element.
LEMMA ElemCntNat ==
  ASSUME NEW n \in Nat
  PROVE  ElemCnt(n) \in Nat /\ ElemCnt(0) = 0
BY BitmapAssumption DEF ElemIdx, ElemCnt

\* The fold takes the last index first; there is one.
LEMMA LargestIn ==
  ASSUME NEW c \in Nat, NEW S \in SUBSET (1 .. c), S # {}
  PROVE  Max(S) \in S
<1> DEFINE R == OpToRel(<, Nat)
           T == {c - i : i \in S}
<1>1. T \subseteq Nat /\ T # {}
  <2>1. \A i \in S : i \in 1 .. c /\ c - i \in Nat
    OBVIOUS
  <2> QED BY <2>1
<1> HIDE DEF T
<1>2. PICK x \in T : \A y \in T : ~(<<y, x>> \in R)
  BY <1>1, NatLessThanWellFounded, WFMin
<1>3. PICK i \in S : x = c - i
  BY DEF T
<1>4. ASSUME NEW j \in S, ~(i >= j) PROVE FALSE
  <2>1. c - j \in T /\ c - j \in Nat /\ x \in Nat /\ c - j < x
    BY <1>1, <1>3, <1>4 DEF T
  <2>2. <<c - j, x>> \in R
    BY <2>1 DEF OpToRel
  <2> QED BY <1>2, <2>1, <2>2
<1> QED BY <1>3, <1>4 DEF Max

\* A set of numbers that is not empty has a least one.
LEMMA SmallestIn ==
  ASSUME NEW S \in SUBSET Nat, S # {}
  PROVE  Min(S) \in S /\ \A j \in S : Min(S) <= j
<1> DEFINE R == OpToRel(<, Nat)
<1>1. PICK i \in S : \A y \in S : ~(<<y, i>> \in R)
  BY NatLessThanWellFounded, WFMin
<1>2. ASSUME NEW j \in S, ~(i <= j) PROVE FALSE
  <2>1. <<j, i>> \in R
    BY <1>2 DEF OpToRel
  <2> QED BY <1>1, <2>1
<1> QED BY <1>1, <1>2 DEF Min

-----------------------------------------------------------------------------
\* The bits of element e that instructions on the bits in T reach.
Touched(e, T) == {k \in 0 .. OpBits - 1 : \E i \in T : ElemIdx(i) = e /\ i % ElemBits = k}

\* B after the bits in T were written, those in U turned on.
Written(B, T, U) == [e \in DOMAIN B |-> (B[e] \ Touched(e, T)) \cup Touched(e, U)]

\* One more bit touches what its operand has in its own element ...
LEMMA TouchedOne ==
  ASSUME NEW T \in SUBSET Nat, NEW i \in Nat
  PROVE  Touched(ElemIdx(i), T \cup {i}) = Touched(ElemIdx(i), T) \cup Operand(i)
BY DEF Touched, Operand, BitMask

\* ... and nothing in another.
LEMMA TouchedElsewhere ==
  ASSUME NEW T \in SUBSET Nat, NEW i \in Nat, NEW e, e # ElemIdx(i)
  PROVE  Touched(e, T \cup {i}) = Touched(e, T)
BY DEF Touched

\* bitmap_mark adds a bit to those written and to those turned on.
LEMMA MarkOne ==
  ASSUME NEW B, NEW T \in SUBSET Nat, NEW U \in SUBSET T, NEW i \in Nat
  PROVE  Mark(Written(B, T, U), i) = Written(B, T \cup {i}, U \cup {i})
<1> DEFINE W == Written(B, T, U)
<1>1. U \in SUBSET Nat
  OBVIOUS
<1>2. ASSUME NEW e \in DOMAIN B
      PROVE  (IF e = ElemIdx(i) THEN W[e] \cup Operand(i) ELSE W[e])
               = (B[e] \ Touched(e, T \cup {i})) \cup Touched(e, U \cup {i})
  <2>1. W[e] = (B[e] \ Touched(e, T)) \cup Touched(e, U)
    BY DEF Written
  <2> HIDE DEF W
  <2>2. CASE e = ElemIdx(i)
    <3>1. /\ Touched(e, T \cup {i}) = Touched(e, T) \cup Operand(i)
          /\ Touched(e, U \cup {i}) = Touched(e, U) \cup Operand(i)
      BY <1>1, <2>2, TouchedOne
    <3> QED BY <2>1, <2>2, <3>1
  <2>3. CASE e # ElemIdx(i)
    <3>1. Touched(e, T \cup {i}) = Touched(e, T) /\ Touched(e, U \cup {i}) = Touched(e, U)
      BY <1>1, <2>3, TouchedElsewhere
    <3> QED BY <2>1, <2>3, <3>1
  <2> QED BY <2>2, <2>3
<1>3. Mark(W, i) = [e \in DOMAIN B |-> IF e = ElemIdx(i) THEN W[e] \cup Operand(i) ELSE W[e]]
  BY DEF Mark, Written
<1> HIDE DEF W
<1>4. Mark(W, i) = [e \in DOMAIN B |-> (B[e] \ Touched(e, T \cup {i})) \cup Touched(e, U \cup {i})]
  BY <1>2, <1>3
<1> QED BY <1>4 DEF Written, W

\* bitmap_reset adds a bit that was not written yet to those written only.
LEMMA ResetOne ==
  ASSUME NEW B, NEW T \in SUBSET Nat, NEW U \in SUBSET T, NEW i \in Nat, i \notin T
  PROVE  Reset(Written(B, T, U), i) = Written(B, T \cup {i}, U)
<1> DEFINE W == Written(B, T, U)
<1>1. Operand(i) \cap Touched(ElemIdx(i), U) = {}
  BY SameBit DEF Touched, Operand, BitMask
<1>2. ASSUME NEW e \in DOMAIN B
      PROVE  (IF e = ElemIdx(i) THEN W[e] \ Operand(i) ELSE W[e])
               = (B[e] \ Touched(e, T \cup {i})) \cup Touched(e, U)
  <2>1. W[e] = (B[e] \ Touched(e, T)) \cup Touched(e, U)
    BY DEF Written
  <2> HIDE DEF W
  <2>2. CASE e = ElemIdx(i)
    <3>1. Touched(e, T \cup {i}) = Touched(e, T) \cup Operand(i)
      BY <2>2, TouchedOne
    <3> QED BY <1>1, <2>1, <2>2, <3>1
  <2>3. CASE e # ElemIdx(i)
    <3>1. Touched(e, T \cup {i}) = Touched(e, T)
      BY <2>3, TouchedElsewhere
    <3> QED BY <2>1, <2>3, <3>1
  <2> QED BY <2>2, <2>3
<1>3. Reset(W, i) = [e \in DOMAIN B |-> IF e = ElemIdx(i) THEN W[e] \ Operand(i) ELSE W[e]]
  BY DEF Reset, Written
<1> HIDE DEF W
<1>4. Reset(W, i) = [e \in DOMAIN B |-> (B[e] \ Touched(e, T \cup {i})) \cup Touched(e, U)]
  BY <1>2, <1>3
<1> QED BY <1>4 DEF Written, W

\* Nothing but its elements.
IsArray(B) == B = [e \in DOMAIN B |-> B[e]]

\* Nothing written, nothing changed.
LEMMA WriteNone == ASSUME NEW B, IsArray(B) PROVE Written(B, {}, {}) = B
BY DEF Written, Touched, IsArray

\* What is read afterwards.
LEMMA ReadWritten ==
  ASSUME NEW B, NEW T \in SUBSET Nat, NEW U \in SUBSET T, NEW j \in Nat, ElemIdx(j) \in DOMAIN B
  PROVE  Test(Written(B, T, U), j)
           <=> IF j \in T /\ j % ElemBits < OpBits THEN j \in U ELSE Test(B, j)
<1> DEFINE e == ElemIdx(j)
           k == j % ElemBits
<1>1. /\ Test(Written(B, T, U), j) <=> (k \in B[e] /\ k \notin Touched(e, T)) \/ k \in Touched(e, U)
      /\ Test(B, j) <=> k \in B[e]
  BY DEF Test, Written, BitMask
<1>2. ASSUME NEW W \in SUBSET Nat PROVE k \in Touched(e, W) <=> j \in W /\ k < OpBits
  <2>1. k \in 0 .. ElemBits - 1 /\ OpBits \in Nat
    BY BitmapAssumption, DivMod
  <2>2. (\E i \in W : ElemIdx(i) = e /\ i % ElemBits = k) <=> j \in W
    BY SameBit
  <2>3. k \in 0 .. OpBits - 1 <=> k < OpBits
    BY <2>1, BitmapAssumption
  <2> HIDE DEF e, k
  <2> QED BY <2>2, <2>3 DEF Touched
<1>3. (k \in Touched(e, T) <=> j \in T /\ k < OpBits)
      /\ (k \in Touched(e, U) <=> j \in U /\ k < OpBits)
  BY <1>2
<1> HIDE DEF e, k
<1> QED BY <1>1, <1>3 DEF k

\* Writing keeps the elements where they are and as wide as they are.
LEMMA WrittenType ==
  ASSUME NEW D, NEW B \in [D -> SUBSET (0 .. ElemBits - 1)], NEW T \in SUBSET Nat, NEW U \in SUBSET T
  PROVE  Written(B, T, U) \in [D -> SUBSET (0 .. ElemBits - 1)]
BY BitmapAssumption DEF Written, Touched

-----------------------------------------------------------------------------
\* One bit after the other, each bit at most once: whatever satisfies the
\* equation of the fold has written the bits it has come to.
Folds(g, B, c, pos, val) ==
  g = [s \in SUBSET (1 .. c) |->
         IF s = {} THEN B ELSE SetBit(g[s \ {Max(s)}], pos[Max(s)], val[Max(s)])]

\* Positions of c bits, all different, and the values for them.
OneByOne(c, pos, val) ==
  /\ pos \in [1 .. c -> Nat] /\ val \in [1 .. c -> BOOLEAN]
  /\ \A i, j \in 1 .. c : pos[i] = pos[j] => i = j

\* The solution of that equation.
Done(B, c, pos, val) ==
  [s \in SUBSET (1 .. c) |-> Written(B, {pos[i] : i \in s}, {pos[i] : i \in {j \in s : val[j]}})]

\* Done satisfies the equation ...
LEMMA FoldExists ==
  ASSUME NEW B, IsArray(B), NEW c \in Nat,
         NEW pos, NEW val, OneByOne(c, pos, val)
  PROVE  Folds(Done(B, c, pos, val), B, c, pos, val)
<1> DEFINE G == Done(B, c, pos, val)
           T(r) == {pos[i] : i \in r}
           U(r) == {pos[i] : i \in {j \in r : val[j]}}
<1>1. \A r \in SUBSET (1 .. c) : G[r] = Written(B, T(r), U(r))
  BY DEF Done
<1>2. ASSUME NEW s \in SUBSET (1 .. c)
      PROVE  G[s] = IF s = {} THEN B ELSE SetBit(G[s \ {Max(s)}], pos[Max(s)], val[Max(s)])
  <2>1. CASE s = {}
    <3>1. T(s) = {} /\ U(s) = {}
      BY <2>1
    <3> QED BY <1>1, <2>1, <3>1, WriteNone
  <2>2. CASE s # {}
    <3> DEFINE m == Max(s)
               r == s \ {m}
    <3>1. m \in s /\ m \in 1 .. c
      BY <2>2, LargestIn
    <3> HIDE DEF m
    <3>2. PICK t \in SUBSET Nat, u \in SUBSET T(r), p \in Nat : t = T(r) /\ u = U(r) /\ p = pos[m]
      <4>1. T(r) \in SUBSET Nat /\ U(r) \in SUBSET T(r) /\ pos[m] \in Nat
        BY <3>1 DEF OneByOne
      <4> HIDE DEF T, U
      <4> QED BY <4>1
    <3>3. u \in SUBSET t /\ p \notin t
      BY <3>1, <3>2 DEF OneByOne
    <3>4. T(s) = t \cup {p} /\ U(s) = IF val[m] THEN u \cup {p} ELSE u
      BY <3>1, <3>2
    <3>5. SetBit(Written(B, t, u), p, val[m]) = Written(B, T(s), U(s))
      <4> HIDE DEF T, U
      <4>1. Mark(Written(B, t, u), p) = Written(B, t \cup {p}, u \cup {p})
        BY <3>3, MarkOne
      <4>2. Reset(Written(B, t, u), p) = Written(B, t \cup {p}, u)
        BY <3>3, ResetOne
      <4> QED BY <3>4, <4>1, <4>2 DEF SetBit
    <3> HIDE DEF T, U
    <3> HIDE DEF G
    <3> QED BY <1>1, <2>2, <3>1, <3>2, <3>5 DEF m
  <2> QED BY <2>1, <2>2
<1>3. G = [s \in SUBSET (1 .. c) |-> G[s]]
  BY DEF Done
<1> HIDE DEF G
<1> QED BY <1>2, <1>3 DEF Folds, G

\* ... and nothing else does, as far as the whole sequence goes: a smallest set
\* of indices where two solutions differ would have a smaller one.
LEMMA FoldUnique ==
  ASSUME NEW c \in Nat, NEW B, NEW pos, NEW val, NEW g, NEW h,
         Folds(g, B, c, pos, val), Folds(h, B, c, pos, val)
  PROVE  g[1 .. c] = h[1 .. c]
<1> DEFINE Bad == {s \in SUBSET (1 .. c) : g[s] # h[s]}
<1>1. SUFFICES ASSUME Bad # {} PROVE FALSE
  OBVIOUS
<1>2. Bad \subseteq FiniteSubsetsOf(1 .. c)
  BY FS_Interval, FS_Subset DEF FiniteSubsetsOf
<1> HIDE DEF Bad
<1>3. PICK s \in Bad : \A r \in Bad : ~(<<r, s>> \in StrictSubsetOrdering(1 .. c))
  BY <1>1, <1>2, FS_StrictSubsetOrderingWellFounded, WFMin
<1>4. s \in SUBSET (1 .. c) /\ g[s] # h[s]
  BY <1>3 DEF Bad
<1>5. \A x \in {g, h} :
        x[s] = IF s = {} THEN B ELSE SetBit(x[s \ {Max(s)}], pos[Max(s)], val[Max(s)])
  BY <1>4 DEF Folds
<1>6. s # {} /\ g[s \ {Max(s)}] # h[s \ {Max(s)}]
  BY <1>4, <1>5
<1>7. Max(s) \in s
  BY <1>4, <1>6, LargestIn
<1>8. <<s \ {Max(s)}, s>> \in StrictSubsetOrdering(1 .. c)
  BY <1>4, <1>7 DEF StrictSubsetOrdering
<1>9. s \ {Max(s)} \in Bad
  BY <1>4, <1>6 DEF Bad
<1> QED BY <1>3, <1>8, <1>9

\* So a fold of SetBit comes to what Written says.
LEMMA FoldResult ==
  ASSUME NEW B, IsArray(B), NEW c \in Nat,
         NEW pos, NEW val, OneByOne(c, pos, val),
         NEW g, Folds(g, B, c, pos, val)
  PROVE  g[1 .. c] = Written(B, {pos[i] : i \in 1 .. c},
                             {pos[i] : i \in {j \in 1 .. c : val[j]}})
<1>1. g[1 .. c] = Done(B, c, pos, val)[1 .. c]
  <2>1. Folds(Done(B, c, pos, val), B, c, pos, val)
    BY FoldExists
  <2> QED BY <2>1, FoldUnique
<1> QED BY <1>1 DEF Done

-----------------------------------------------------------------------------
\* The memory of a bitmap of n bits.
Arrays(n) == [0 .. ElemCnt(n) - 1 -> SUBSET (0 .. ElemBits - 1)]

\* bitmap_set_multiple, in one go.
LEMMA SetMultipleWritesValue ==
  ASSUME NEW B, IsArray(B),
         NEW start \in Nat, NEW cnt \in Nat, NEW value \in BOOLEAN
  PROVE  SetMultiple(B, start, cnt, value)
           = Written(B, start .. start + cnt - 1, IF value THEN start .. start + cnt - 1 ELSE {})
<1> DEFINE seq == [i \in 1 .. cnt |-> i]
           P(g) == g = [s \in SUBSET (DOMAIN seq) |->
                         IF s = {} THEN B
                         ELSE SetBit(g[s \ {Max(s)}], start + seq[Max(s)] - 1, value)]
           pos == [i \in 1 .. cnt |-> start + i - 1]
           val == [i \in 1 .. cnt |-> value]
<1>1. SetMultiple(B, start, cnt, value) = (CHOOSE g : P(g))[1 .. cnt]
  BY DEF SetMultiple, FoldLeft, MapThenFoldSet
<1>2. \A g : P(g) <=> Folds(g, B, cnt, pos, val)
  <2>1. ASSUME NEW s \in SUBSET (1 .. cnt), s # {}
        PROVE  /\ seq[Max(s)] = Max(s) /\ pos[Max(s)] = start + Max(s) - 1 /\ val[Max(s)] = value
    BY <2>1, LargestIn
  <2> HIDE DEF seq, pos, val
  <2>2. DOMAIN seq = 1 .. cnt
    BY DEF seq
  <2> TAKE g
  <2> DEFINE x(s) == IF s = {} THEN B ELSE SetBit(g[s \ {Max(s)}], start + seq[Max(s)] - 1, value)
             y(s) == IF s = {} THEN B ELSE SetBit(g[s \ {Max(s)}], pos[Max(s)], val[Max(s)])
  <2>3. \A s \in SUBSET (1 .. cnt) : x(s) = y(s)
    BY <2>1
  <2> HIDE DEF x, y
  <2>4. [s \in SUBSET (1 .. cnt) |-> x(s)] = [s \in SUBSET (1 .. cnt) |-> y(s)]
    BY <2>3
  <2> QED BY <2>2, <2>4 DEF Folds, x, y
<1>3. OneByOne(cnt, pos, val)
  BY DEF OneByOne
<1>4. /\ {pos[i] : i \in 1 .. cnt} = start .. start + cnt - 1
      /\ {pos[i] : i \in {j \in 1 .. cnt : val[j]}} = IF value THEN start .. start + cnt - 1 ELSE {}
  <2>1. ASSUME NEW k \in start .. start + cnt - 1 PROVE k - start + 1 \in 1 .. cnt /\ pos[k - start + 1] = k
    OBVIOUS
  <2>2. \A i \in 1 .. cnt : pos[i] \in start .. start + cnt - 1
    OBVIOUS
  <2>3. {pos[i] : i \in 1 .. cnt} = start .. start + cnt - 1
    <3> HIDE DEF pos
    <3> QED BY <2>1, <2>2
  <2>4. {j \in 1 .. cnt : val[j]} = IF value THEN 1 .. cnt ELSE {}
    OBVIOUS
  <2> HIDE DEF pos, val
  <2> QED BY <2>3, <2>4
<1> HIDE DEF pos, val
<1>5. Folds(Done(B, cnt, pos, val), B, cnt, pos, val)
  BY <1>3, FoldExists
<1> HIDE DEF P
<1>6. PICK g : g = (CHOOSE h : P(h)) /\ P(g)
  BY <1>2, <1>5
<1>7. Folds(g, B, cnt, pos, val)
  BY <1>2, <1>6
<1>8. g[1 .. cnt] = Written(B, {pos[i] : i \in 1 .. cnt}, {pos[i] : i \in {j \in 1 .. cnt : val[j]}})
  BY <1>3, <1>7, FoldResult
<1> QED BY <1>1, <1>4, <1>6, <1>8

\* The same, for each value.
LEMMA SetMultipleWrites ==
  ASSUME NEW B, IsArray(B), NEW start \in Nat, NEW cnt \in Nat
  PROVE  /\ SetMultiple(B, start, cnt, TRUE) = Written(B, start .. start + cnt - 1, start .. start + cnt - 1)
         /\ SetMultiple(B, start, cnt, FALSE) = Written(B, start .. start + cnt - 1, {})
<1>1. ASSUME NEW value \in BOOLEAN
      PROVE  SetMultiple(B, start, cnt, value)
               = Written(B, start .. start + cnt - 1, IF value THEN start .. start + cnt - 1 ELSE {})
  BY SetMultipleWritesValue
<1> QED BY <1>1

\* bitmap_expand's copy of the old bits, in one go.
LEMMA CopyWrites ==
  ASSUME NEW B, IsArray(B), NEW A, NEW cnt \in Nat
  PROVE  FoldLeft(LAMBDA C, i : SetBit(C, i - 1, Test(A, i - 1)), B, [i \in 1 .. cnt |-> i])
           = Written(B, 0 .. cnt - 1, {i \in 0 .. cnt - 1 : Test(A, i)})
<1> DEFINE seq == [i \in 1 .. cnt |-> i]
           P(g) == g = [s \in SUBSET (DOMAIN seq) |->
                         IF s = {} THEN B
                         ELSE SetBit(g[s \ {Max(s)}], seq[Max(s)] - 1, Test(A, seq[Max(s)] - 1))]
           pos == [i \in 1 .. cnt |-> i - 1]
           val == [i \in 1 .. cnt |-> Test(A, i - 1)]
<1>1. FoldLeft(LAMBDA C, i : SetBit(C, i - 1, Test(A, i - 1)), B, seq) = (CHOOSE g : P(g))[1 .. cnt]
  BY DEF FoldLeft, MapThenFoldSet
<1>2. \A g : P(g) <=> Folds(g, B, cnt, pos, val)
  <2>1. ASSUME NEW s \in SUBSET (1 .. cnt), s # {}
        PROVE  /\ seq[Max(s)] = Max(s) /\ pos[Max(s)] = Max(s) - 1
               /\ val[Max(s)] = Test(A, Max(s) - 1)
    BY <2>1, LargestIn
  <2> HIDE DEF seq, pos, val
  <2>2. DOMAIN seq = 1 .. cnt
    BY DEF seq
  <2> TAKE g
  <2> DEFINE x(s) == IF s = {} THEN B ELSE SetBit(g[s \ {Max(s)}], seq[Max(s)] - 1, Test(A, seq[Max(s)] - 1))
             y(s) == IF s = {} THEN B ELSE SetBit(g[s \ {Max(s)}], pos[Max(s)], val[Max(s)])
  <2>3. \A s \in SUBSET (1 .. cnt) : x(s) = y(s)
    BY <2>1
  <2> HIDE DEF x, y
  <2>4. [s \in SUBSET (1 .. cnt) |-> x(s)] = [s \in SUBSET (1 .. cnt) |-> y(s)]
    BY <2>3
  <2> QED BY <2>2, <2>4 DEF Folds, x, y
<1>3. OneByOne(cnt, pos, val)
  BY DEF OneByOne, Test
<1>4. /\ {pos[i] : i \in 1 .. cnt} = 0 .. cnt - 1
      /\ {pos[i] : i \in {j \in 1 .. cnt : val[j]}} = {i \in 0 .. cnt - 1 : Test(A, i)}
  <2>1. ASSUME NEW k \in 0 .. cnt - 1
        PROVE  k + 1 \in 1 .. cnt /\ pos[k + 1] = k /\ val[k + 1] = Test(A, k)
    OBVIOUS
  <2>2. \A i \in 1 .. cnt : pos[i] \in 0 .. cnt - 1 /\ val[i] = Test(A, pos[i])
    OBVIOUS
  <2> HIDE DEF pos, val
  <2> QED BY <2>1, <2>2
<1> HIDE DEF pos, val
<1>5. Folds(Done(B, cnt, pos, val), B, cnt, pos, val)
  BY <1>3, FoldExists
<1> HIDE DEF P
<1>6. PICK g : g = (CHOOSE h : P(h)) /\ P(g)
  BY <1>2, <1>5
<1>7. Folds(g, B, cnt, pos, val)
  BY <1>2, <1>6
<1>8. g[1 .. cnt] = Written(B, {pos[i] : i \in 1 .. cnt}, {pos[i] : i \in {j \in 1 .. cnt : val[j]}})
  BY <1>3, <1>7, FoldResult
<1> QED BY <1>1, <1>4, <1>6, <1>8

-----------------------------------------------------------------------------
\* The array is as long as the size says and holds nothing else.
BitInv == bit_cnt \in 0 .. MaxBits /\ bits \in Arrays(bit_cnt)

\* The set that a bitmap of n bits stands for.
Marked(n, B) == {i \in 0 .. n - 1 : Test(B, i)}

\* Every bit of a bitmap is in one of its elements.
LEMMA ArrayRead ==
  ASSUME NEW n \in Nat, NEW B \in Arrays(n)
  PROVE  /\ IsArray(B) /\ DOMAIN B = 0 .. ElemCnt(n) - 1
         /\ \A j \in 0 .. n - 1 : ElemIdx(j) \in DOMAIN B /\ j \in Nat
BY InArray DEF Arrays, IsArray

\* The set after the bits in T were turned on, or off, where they are reached.
On(M, T)  == M \cup (T \cap Reached)
Off(M, T) == M \ (T \cap Reached)

\* What Put says of a set of bits, for a set of bits that is written.
LEMMA WriteMarks ==
  ASSUME NEW n \in Nat, n <= MaxBits, NEW B \in Arrays(n), NEW T \in SUBSET (0 .. n - 1)
  PROVE  /\ Written(B, T, T) \in Arrays(n) /\ Written(B, T, {}) \in Arrays(n)
         /\ Marked(n, Written(B, T, T)) = On(Marked(n, B), T)
         /\ Marked(n, Written(B, T, {})) = Off(Marked(n, B), T)
<1>1. n \in Nat /\ T \in SUBSET Nat
  OBVIOUS
<1>2. ASSUME NEW U \in SUBSET T, NEW j \in 0 .. n - 1
      PROVE  Test(Written(B, T, U), j) <=> IF j \in T \cap Reached THEN j \in U ELSE Test(B, j)
  <2>1. ElemIdx(j) \in DOMAIN B /\ j \in Nat
    BY <1>1, ArrayRead
  <2>2. Test(Written(B, T, U), j) <=> IF j \in T /\ j % ElemBits < OpBits THEN j \in U ELSE Test(B, j)
    BY <1>1, <2>1, ReadWritten
  <2>3. j \in 0 .. MaxBits - 1
    BY BitmapAssumption
  <2> QED BY <2>2, <2>3 DEF Reached
<1>3. Written(B, T, T) \in Arrays(n) /\ Written(B, T, {}) \in Arrays(n)
  BY <1>1, WrittenType DEF Arrays
<1>4. T \subseteq 0 .. n - 1 /\ T \in SUBSET T /\ {} \in SUBSET T
  OBVIOUS
<1>5. \A j \in 0 .. n - 1 :
        /\ Test(Written(B, T, T), j) <=> j \in T \cap Reached \/ Test(B, j)
        /\ Test(Written(B, T, {}), j) <=> j \notin T \cap Reached /\ Test(B, j)
  BY <1>2, <1>4
<1> QED BY <1>3, <1>4, <1>5 DEF Marked, On, Off

\* bitmap_set_multiple, on the set of marked bits.
LEMMA SetMarks ==
  ASSUME NEW n \in Nat, n <= MaxBits, NEW B \in Arrays(n), NEW start \in Nat, NEW cnt \in Nat,
         start + cnt <= n
  PROVE  /\ SetMultiple(B, start, cnt, TRUE) \in Arrays(n)
         /\ SetMultiple(B, start, cnt, FALSE) \in Arrays(n)
         /\ Marked(n, SetMultiple(B, start, cnt, TRUE))
              = On(Marked(n, B), Bits!Interval(start, cnt))
         /\ Marked(n, SetMultiple(B, start, cnt, FALSE))
              = Off(Marked(n, B), Bits!Interval(start, cnt))
<1> DEFINE T == start .. start + cnt - 1
<1>1. n \in Nat /\ T \in SUBSET (0 .. n - 1) /\ IsArray(B)
  BY BitmapAssumption, ArrayRead
<1>2. /\ SetMultiple(B, start, cnt, TRUE) = Written(B, T, T)
      /\ SetMultiple(B, start, cnt, FALSE) = Written(B, T, {})
  BY <1>1, SetMultipleWrites
<1> HIDE DEF T
<1>4. /\ SetMultiple(B, start, cnt, TRUE) \in Arrays(n)
      /\ SetMultiple(B, start, cnt, FALSE) \in Arrays(n)
      /\ Marked(n, SetMultiple(B, start, cnt, TRUE)) = On(Marked(n, B), T)
      /\ Marked(n, SetMultiple(B, start, cnt, FALSE)) = Off(Marked(n, B), T)
  <2>1. Written(B, T, T) \in Arrays(n)
    BY <1>1, WriteMarks
  <2>2. Written(B, T, {}) \in Arrays(n)
    BY <1>1, WriteMarks
  <2>3. Marked(n, Written(B, T, T)) = On(Marked(n, B), T)
    BY <1>1, WriteMarks
  <2>4. Marked(n, Written(B, T, {})) = Off(Marked(n, B), T)
    BY <1>1, WriteMarks
  <2> QED BY <1>2, <2>1, <2>2, <2>3, <2>4
<1> QED BY <1>4 DEF T, Bits!Interval

\* A new bitmap has no bit on that an instruction reaches.
LEMMA CreatedClear ==
  ASSUME NEW n \in Nat, n <= MaxBits, NEW C \in Created(n)
  PROVE  C \in Arrays(n) /\ Marked(n, C) \cap Reached = {}
<1>1. n \in Nat
  BY BitmapAssumption
<1>2. PICK B \in Blocks(n) : C = SetMultiple(B, 0, n, FALSE)
  BY DEF Created
<1>3. B \in Arrays(n)
  <2>1. \A S \in SUBSET (0 .. n - 1) : \A e :
          {i % ElemBits : i \in {j \in S : ElemIdx(j) = e}} \subseteq 0 .. ElemBits - 1
    BY <1>1, DivMod
  <2> QED BY <2>1 DEF Blocks, Arrays
<1>4. C \in Arrays(n) /\ Marked(n, C) = Off(Marked(n, B), Bits!Interval(0, n))
  <2>1. PICK z \in Nat : z = 0
    OBVIOUS
  <2>2. z + n <= n
    BY <2>1
  <2>3. SetMultiple(B, z, n, FALSE) \in Arrays(n)
    BY <1>1, <1>3, <2>2, SetMarks
  <2>4. Marked(n, SetMultiple(B, z, n, FALSE)) = Off(Marked(n, B), Bits!Interval(z, n))
    BY <1>1, <1>3, <2>2, SetMarks
  <2> QED BY <1>2, <2>1, <2>3, <2>4
<1>5. Marked(n, B) \subseteq Bits!Interval(0, n)
  BY <1>1 DEF Marked, Bits!Interval
<1> QED BY <1>4, <1>5 DEF Off

\* bitmap_flip is bitmap_set to what the bit is not.
LEMMA FlipMarks ==
  ASSUME NEW n \in Nat, n <= MaxBits, NEW B \in Arrays(n), NEW i \in 0 .. n - 1
  PROVE  LET C == [B EXCEPT ![ElemIdx(i)] = (@ \ Operand(i)) \cup (Operand(i) \ @)] IN
         /\ C \in Arrays(n)
         /\ Marked(n, C) = IF Test(B, i) THEN Off(Marked(n, B), {i})
                           ELSE On(Marked(n, B), {i})
<1> DEFINE C == [B EXCEPT ![ElemIdx(i)] = (@ \ Operand(i)) \cup (Operand(i) \ @)]
<1>1. n \in Nat /\ i \in Nat /\ IsArray(B) /\ {i} \in SUBSET (0 .. n - 1)
  BY BitmapAssumption, ArrayRead
<1>2. C = IF Test(B, i) THEN Reset(B, i) ELSE Mark(B, i)
  <2>1. Test(B, i) => Operand(i) \ B[ElemIdx(i)] = {}
    BY DEF Test, Operand, BitMask
  <2>2. ~Test(B, i) => Operand(i) \ B[ElemIdx(i)] = Operand(i) /\ B[ElemIdx(i)] \ Operand(i) = B[ElemIdx(i)]
    BY DEF Test, Operand, BitMask
  <2> QED BY <2>1, <2>2 DEF Mark, Reset
<1>3. Mark(B, i) = Written(B, {i}, {i}) /\ Reset(B, i) = Written(B, {i}, {})
  <2>1. Written(B, {}, {}) = B /\ {} \cup {i} = {i} /\ {} \in SUBSET Nat /\ i \notin {}
    BY <1>1, WriteNone
  <2>2. Mark(Written(B, {}, {}), i) = Written(B, {} \cup {i}, {} \cup {i})
    BY <1>1, <2>1, MarkOne
  <2>3. Reset(Written(B, {}, {}), i) = Written(B, {} \cup {i}, {})
    BY <1>1, <2>1, ResetOne
  <2> QED BY <2>1, <2>2, <2>3
<1> HIDE DEF C
<1>4. /\ C \in Arrays(n)
      /\ Marked(n, C) = IF Test(B, i) THEN Off(Marked(n, B), {i})
                        ELSE On(Marked(n, B), {i})
  <2>1. Written(B, {i}, {i}) \in Arrays(n) /\ Written(B, {i}, {}) \in Arrays(n)
    BY <1>1, WriteMarks
  <2>2. Marked(n, Written(B, {i}, {i})) = On(Marked(n, B), {i})
    BY <1>1, WriteMarks
  <2>3. Marked(n, Written(B, {i}, {})) = Off(Marked(n, B), {i})
    BY <1>1, WriteMarks
  <2> QED BY <1>2, <1>3, <2>1, <2>2, <2>3
<1> QED BY <1>4 DEF C

-----------------------------------------------------------------------------
\* No bits to begin with.
LEMMA BitInitKeeps == BitInit => BitInv /\ Bits!Init
<1> SUFFICES ASSUME BitInit PROVE BitInv /\ Bits!Init
  OBVIOUS
<1>1. bit_cnt = 0 /\ bits = <<>> /\ given = <<"none">> /\ 0 .. ElemCnt(0) - 1 = {} /\ 0 \in 0 .. MaxBits
  BY ElemCntNat, BitmapAssumption DEF BitInit
<1>2. bits \in Arrays(bit_cnt)
  BY <1>1 DEF Arrays
<1>3. {i \in 0 .. bit_cnt - 1 : Test(bits, i)} = {}
  BY <1>1
<1> QED BY <1>1, <1>2, <1>3 DEF BitInv, Bits!Init

\* One lemma for each command.
LEMMA CreateImplements ==
  ASSUME BitInv, NEW n \in 0 .. MaxBits, BitmapCreate(n)
  PROVE  BitInv' /\ Bits!Next
<1>1. n \in Nat /\ n <= MaxBits /\ bit_cnt' = n /\ bits' \in Created(n) /\ given' = <<"create", n>>
  BY BitmapAssumption DEF BitmapCreate
<1>2. bits' \in Arrays(n) /\ Marked(n, bits') \cap Reached = {}
  BY <1>1, CreatedClear
<1>3. Marked(n, bits') \subseteq Bits!Interval(0, n)
  BY <1>1 DEF Marked, Bits!Interval
<1>4. Bits!Create(n)
  BY <1>1, <1>2, <1>3 DEF Bits!Create, Marked
<1>5. given'[1] = "create"
  BY <1>1
<1> QED BY <1>1, <1>2, <1>4, <1>5 DEF BitInv, Bits!Next

LEMMA SetImplements ==
  ASSUME BitInv, NEW start \in 0 .. MaxBits, NEW cnt \in 0 .. MaxBits, NEW value \in BOOLEAN,
         BitmapSet(start, cnt, value)
  PROVE  BitInv' /\ Bits!Next
<1>1. /\ start \in Nat /\ cnt \in Nat /\ bit_cnt \in Nat /\ bit_cnt <= MaxBits
      /\ bits \in Arrays(bit_cnt) /\ start + cnt <= bit_cnt
  BY BitmapAssumption DEF BitInv, BitmapSet
<1>2. /\ bits' = SetMultiple(bits, start, cnt, value) /\ bit_cnt' = bit_cnt
      /\ given' = <<"set", start, cnt, value>> /\ given'[1] = "set"
  BY DEF BitmapSet
<1>3. bits' \in Arrays(bit_cnt)
      /\ Marked(bit_cnt, bits')
           = IF value THEN On(Marked(bit_cnt, bits), Bits!Interval(start, cnt))
             ELSE Off(Marked(bit_cnt, bits), Bits!Interval(start, cnt))
  <2>1. /\ SetMultiple(bits, start, cnt, TRUE) \in Arrays(bit_cnt)
        /\ SetMultiple(bits, start, cnt, FALSE) \in Arrays(bit_cnt)
    BY <1>1, SetMarks
  <2>2. Marked(bit_cnt, SetMultiple(bits, start, cnt, TRUE))
          = On(Marked(bit_cnt, bits), Bits!Interval(start, cnt))
    BY <1>1, SetMarks
  <2>3. Marked(bit_cnt, SetMultiple(bits, start, cnt, FALSE))
          = Off(Marked(bit_cnt, bits), Bits!Interval(start, cnt))
    BY <1>1, SetMarks
  <2>4. value = TRUE \/ value = FALSE
    OBVIOUS
  <2> QED BY <1>2, <2>1, <2>2, <2>3, <2>4
<1>4. Bits!Set(start, cnt, value)
  BY <1>2, <1>3 DEF Bits!Set, Bits!Put, Marked, On, Off
<1> QED BY <1>1, <1>2, <1>3, <1>4 DEF BitInv, Bits!Next

LEMMA FlipImplements ==
  ASSUME BitInv, NEW i \in 0 .. MaxBits - 1, BitmapFlip(i)
  PROVE  BitInv' /\ Bits!Next
<1>1. bit_cnt \in Nat /\ bit_cnt <= MaxBits /\ bits \in Arrays(bit_cnt) /\ i \in 0 .. bit_cnt - 1
  BY BitmapAssumption DEF BitInv, BitmapFlip
<1>2. /\ bits' = [bits EXCEPT ![ElemIdx(i)] = (@ \ Operand(i)) \cup (Operand(i) \ @)]
      /\ bit_cnt' = bit_cnt /\ given' = <<"flip", i>> /\ given'[1] = "flip"
  BY DEF BitmapFlip
<1>3. bits' \in Arrays(bit_cnt)
      /\ Marked(bit_cnt, bits')
           = IF Test(bits, i) THEN Off(Marked(bit_cnt, bits), {i}) ELSE On(Marked(bit_cnt, bits), {i})
  BY <1>1, <1>2, FlipMarks
<1>4. i \in Marked(bit_cnt, bits) <=> Test(bits, i)
  BY <1>1 DEF Marked
<1>5. Bits!Flip(i) /\ i \in Bits!Interval(0, bit_cnt)
  <2>1. Bits!Put({i}, i \notin Marked(bit_cnt, bits)) = Marked(bit_cnt, bits')
    <3>1. CASE i \in Marked(bit_cnt, bits)
      BY <1>3, <1>4, <3>1 DEF Bits!Put, Marked, Off
    <3>2. CASE i \notin Marked(bit_cnt, bits)
      BY <1>3, <1>4, <3>2 DEF Bits!Put, Marked, On
    <3> QED BY <3>1, <3>2
  <2>2. Bits!Flip(i)
    BY <1>2, <2>1 DEF Bits!Flip, Marked
  <2> QED BY <1>1, <2>2 DEF Bits!Interval
<1> QED BY <1>1, <1>2, <1>3, <1>5 DEF BitInv, Bits!Next

\* bitmap_scan finds the first group, if there is one.
LEMMA ScanFinds ==
  ASSUME bit_cnt \in Nat, NEW start \in Nat, NEW cnt \in Nat, NEW value \in BOOLEAN
  PROVE  LET groups == Bits!Groups(start, cnt, value) IN
         /\ groups = {} => Scan(start, cnt, value) = {}
         /\ groups # {} => /\ Scan(start, cnt, value) = {Bits!Min(groups)}
                           /\ Bits!Min(groups) \in groups
<1> DEFINE groups == Bits!Groups(start, cnt, value)
<1>1. groups = {i \in Tried(start, cnt) : ~BitmapContains(i, cnt, ~value)}
  <2>1. ASSUME NEW p \in start .. bit_cnt - cnt, NEW i \in p .. p + cnt - 1
        PROVE  (i \in {j \in 0 .. bit_cnt - 1 : Test(bits, j)}) = value <=> ~(Test(bits, i) = ~value)
    BY DEF Test
  <2> QED BY <2>1 DEF Bits!Groups, Bits!Interval, Tried, BitmapContains
<1>2. groups \in SUBSET Nat
  BY DEF Bits!Groups
<1>3. Scan(start, cnt, value) = {i \in groups : \A j \in groups : i <= j}
  BY <1>1 DEF Scan
<1> HIDE DEF groups
<1>4. Bits!Min(groups) = Min(groups)
  BY DEF Bits!Min, Min
<1>5. ASSUME groups # {}
      PROVE  /\ Scan(start, cnt, value) = {Min(groups)}
             /\ Min(groups) \in groups
  <2>1. Min(groups) \in groups /\ \A j \in groups : Min(groups) <= j
    BY <1>2, <1>5, SmallestIn
  <2> HIDE DEF Min
  <2>2. \A i, j \in groups : i <= j /\ j <= i => i = j
    BY <1>2
  <2> QED BY <1>3, <2>1, <2>2
<1> QED BY <1>3, <1>4, <1>5 DEF groups

LEMMA ScanAndFlipImplements ==
  ASSUME BitInv, NEW start \in 0 .. MaxBits, NEW cnt \in 0 .. MaxBits, NEW value \in BOOLEAN,
         BitmapScanAndFlip(start, cnt, value)
  PROVE  BitInv' /\ Bits!Next
<1> DEFINE groups == Bits!Groups(start, cnt, value)
<1>1. /\ start \in Nat /\ cnt \in Nat /\ bit_cnt \in Nat /\ bit_cnt <= MaxBits
      /\ bits \in Arrays(bit_cnt) /\ start <= bit_cnt
  <2>1. start <= bit_cnt
    BY DEF BitmapScanAndFlip
  <2> QED BY <2>1, BitmapAssumption DEF BitInv
<1>2. /\ \/ Scan(start, cnt, value) = {} /\ UNCHANGED bits
         \/ \E idx \in Scan(start, cnt, value) : bits' = SetMultiple(bits, idx, cnt, ~value)
      /\ bit_cnt' = bit_cnt
      /\ given' = <<"scan and flip", start, cnt, value>> /\ given'[1] = "scan and flip"
  BY DEF BitmapScanAndFlip
<1>3. /\ groups = {} => Scan(start, cnt, value) = {}
      /\ groups # {} => /\ Scan(start, cnt, value) = {Bits!Min(groups)}
                        /\ Bits!Min(groups) \in groups
  BY <1>1, ScanFinds
<1>4. ASSUME NEW p \in groups PROVE p \in Nat /\ p + cnt <= bit_cnt
  BY <1>1, <1>4 DEF Bits!Groups
<1> HIDE DEF groups
<1>5. bits' \in Arrays(bit_cnt)
      /\ Marked(bit_cnt, bits')
           = IF groups = {} THEN Marked(bit_cnt, bits)
             ELSE Bits!Put(Bits!Interval(Bits!Min(groups), cnt), ~value)
  <2>1. CASE groups = {}
    BY <1>1, <1>2, <1>3, <2>1
  <2>2. CASE groups # {}
    <3>1. PICK p \in Nat : p = Bits!Min(groups) /\ p + cnt <= bit_cnt
      BY <1>3, <1>4, <2>2
    <3>2. bits' = SetMultiple(bits, p, cnt, ~value)
      BY <1>2, <1>3, <2>2, <3>1
    <3>3. /\ SetMultiple(bits, p, cnt, TRUE) \in Arrays(bit_cnt)
          /\ SetMultiple(bits, p, cnt, FALSE) \in Arrays(bit_cnt)
      BY <1>1, <3>1, SetMarks
    <3>4. Marked(bit_cnt, SetMultiple(bits, p, cnt, TRUE))
            = On(Marked(bit_cnt, bits), Bits!Interval(p, cnt))
      BY <1>1, <3>1, SetMarks
    <3>5. Marked(bit_cnt, SetMultiple(bits, p, cnt, FALSE))
            = Off(Marked(bit_cnt, bits), Bits!Interval(p, cnt))
      BY <1>1, <3>1, SetMarks
    <3>6. Bits!Put(Bits!Interval(p, cnt), TRUE) = On(Marked(bit_cnt, bits), Bits!Interval(p, cnt))
      BY DEF Bits!Put, On, Marked
    <3>7. Bits!Put(Bits!Interval(p, cnt), FALSE) = Off(Marked(bit_cnt, bits), Bits!Interval(p, cnt))
      BY DEF Bits!Put, Off, Marked
    <3>8. (~value) = TRUE \/ (~value) = FALSE
      OBVIOUS
    <3> QED BY <2>2, <3>1, <3>2, <3>3, <3>4, <3>5, <3>6, <3>7, <3>8
  <2> QED BY <2>1, <2>2
<1>6. Bits!ScanAndFlip(start, cnt, value)
  BY <1>2, <1>5 DEF Bits!ScanAndFlip, groups, Marked
<1> QED BY <1>1, <1>2, <1>5, <1>6 DEF BitInv, Bits!Next

LEMMA ExpandImplements ==
  ASSUME BitInv, NEW n \in 0 .. MaxBits, BitmapExpand(n)
  PROVE  BitInv' /\ Bits!Next
<1> DEFINE m == bit_cnt + n
           old == 0 .. bit_cnt - 1
<1>1. /\ n \in Nat /\ bit_cnt \in Nat /\ bits \in Arrays(bit_cnt) /\ m \in Nat /\ m <= MaxBits
      /\ bit_cnt' = m /\ given' = <<"expand", n>> /\ given'[1] = "expand"
  <2>1. /\ bit_cnt + n <= MaxBits /\ bit_cnt' = bit_cnt + n
        /\ given' = <<"expand", n>> /\ given'[1] = "expand"
    BY DEF BitmapExpand
  <2>2. n \in Nat /\ bit_cnt \in Nat /\ bits \in Arrays(bit_cnt)
    BY BitmapAssumption DEF BitInv
  <2> QED BY <2>1, <2>2
<1>2. PICK B \in Created(m) :
        bits' = FoldLeft(LAMBDA C, i : SetBit(C, i - 1, Test(bits, i - 1)), B,
                         [i \in 1 .. bit_cnt |-> i])
  BY DEF BitmapExpand
<1> HIDE DEF m
<1>3. B \in Arrays(m) /\ Marked(m, B) \cap Reached = {} /\ IsArray(B)
  BY <1>1, CreatedClear, ArrayRead
<1>4. bits' = Written(B, old, {i \in old : Test(bits, i)})
  BY <1>1, <1>2, <1>3, CopyWrites
<1> DEFINE on == {i \in old : Test(bits, i)}
<1>5. old \in SUBSET Nat /\ on \in SUBSET old
  BY <1>1
<1>6. bits' \in Arrays(m)
  BY <1>3, <1>4, <1>5, WrittenType DEF Arrays
<1>7. ASSUME NEW j \in 0 .. m - 1, j \in Reached
      PROVE  Test(bits', j) <=> j \in on
  <2>1. ElemIdx(j) \in DOMAIN B /\ j \in Nat
    BY <1>1, <1>3, ArrayRead
  <2>2. Test(bits', j) <=> IF j \in old /\ j % ElemBits < OpBits THEN j \in on ELSE Test(B, j)
    BY <1>4, <1>5, <2>1, ReadWritten
  <2>3. ~Test(B, j)
    BY <1>3, <1>7 DEF Marked
  <2> QED BY <1>5, <1>7, <2>2, <2>3 DEF Reached
<1>8. Bits!Expand(n)
  <2>1. old \subseteq 0 .. m - 1
    BY <1>1 DEF m
  <2>2. Marked(m, bits') \cap Reached = Marked(bit_cnt, bits) \cap Reached
    BY <1>7, <2>1 DEF Marked
  <2>3. Marked(m, bits') \subseteq Bits!Interval(0, m)
    BY <1>1 DEF Marked, Bits!Interval
  <2> QED BY <1>1, <2>2, <2>3 DEF Bits!Expand, Marked, m
<1> QED BY <1>1, <1>6, <1>8 DEF BitInv, Bits!Next

\* Every command of the elements is the same command of the set.
LEMMA BitStepImplements == BitInv /\ [BitmapCommand]_bitvars => BitInv' /\ [Bits!Next]_(Bits!vars)
<1> SUFFICES ASSUME BitInv, [BitmapCommand]_bitvars PROVE BitInv' /\ [Bits!Next]_(Bits!vars)
  OBVIOUS
<1>1. CASE UNCHANGED bitvars
  BY <1>1 DEF bitvars, BitInv, Bits!vars
<1>2. CASE \E n \in 0 .. MaxBits : BitmapCreate(n)
  BY <1>2, CreateImplements
<1>3. CASE \E n \in 0 .. MaxBits : BitmapExpand(n)
  BY <1>3, ExpandImplements
<1>4. CASE \E i \in 0 .. MaxBits - 1 : BitmapFlip(i)
  BY <1>4, FlipImplements
<1>5. CASE \E start, cnt \in 0 .. MaxBits, value \in BOOLEAN : BitmapSet(start, cnt, value)
  BY <1>5, SetImplements
<1>6. CASE \E start, cnt \in 0 .. MaxBits, value \in BOOLEAN : BitmapScanAndFlip(start, cnt, value)
  BY <1>6, ScanAndFlipImplements
<1> QED BY <1>1, <1>2, <1>3, <1>4, <1>5, <1>6 DEF BitmapCommand

\* BitmapsImplementSets for every number of bits and every width of element and
\* instruction: division into elements, masks, the loops of bitmap_set_multiple
\* and bitmap_expand and the search of bitmap_scan do to the set of marked bits
\* what each command says, and no bit out of reach is changed.
THEOREM BitmapsAreBitSets == BitSpec => BitmapsImplementSets
<1>1. BitInit => BitInv /\ Bits!Init
  BY BitInitKeeps
<1>2. BitInv /\ [BitmapCommand]_bitvars => BitInv' /\ [Bits!Next]_(Bits!vars)
  BY BitStepImplements
<1> QED BY <1>1, <1>2, PTL DEF BitSpec, BitmapsImplementSets, Bits!Spec
=============================================================================
