----------------------------- MODULE PagingProofs -----------------------------
(* Theorems about Paging: FramesOwned, SlotsExact, ContentSurvives and       *)
(* TypeOK, for any programs, processes and addresses and any number of      *)
(* frames, of slots and of blocks for a struct page.                        *)
(*                                                                          *)
(* The first three speak of the time before an overlap, that is, of one     *)
(* page fault at a time, and so does the invariant they rest on.  It says   *)
(* nothing of the links of lru_list: whatever the clock comes upon, a page  *)
(* it takes was given to a process that is alive.  TypeOK holds after an    *)
(* overlap too, from an invariant of its own, Sound.                        *)
EXTENDS Paging, FiniteSetTheorems, SequenceTheorems, WellFoundedInduction, TLAPS

-----------------------------------------------------------------------------
(* The invariant.                                                          *)

\* No process but p is inside a page fault.
Alone(p) == \A q \in Process \ {p} : AtRest(q)

\* alloc_page's caller has its struct page and no frame yet; it has both.
Wanting == {"lock", "visit", "swap", "unmap", "free", "retry"}
Holding == {"link", "vme", "fill", "install"}

OneFault == \A p, q \in Process : ~ AtRest(p) /\ ~ AtRest(q) => p = q

\* What malloc may hand out is handed out once, and nobody's.
HeapFree ==
  /\ \A i, j \in DOMAIN heap : heap[i] = heap[j] => i = j
  /\ \A i \in DOMAIN heap : page[heap[i]] = None

\* A process without a page directory has no pages, and one that is not loaded
\* has no struct page in its name either.
Empty ==
  \A p \in Process :
    /\ ~ Alive(p) => \A v \in Vaddr : vm[p][v] = None /\ ~ Mapped(p, v)
    /\ pc[p] = "new" => \A g \in Page : page[g] # None => page[g].thread # p

\* What a page fault is about.  Only a page of Code can fault while it is
\* there, and a page that is about to get its first frame has no vm_entry.
Goal(p) ==
  ~ AtRest(p) =>
    LET v == goal[p].vaddr
    IN  /\ goal[p] \in [kind : {"setup", "fault", "grow"}, vaddr : Vaddr]
        /\ pc[p] = "fill" => goal[p].kind = "fault"
        /\ goal[p].kind = "setup" => v = Top
        /\ goal[p].kind = "fault" => vm[p][v] # None /\ (Mapped(p, v) => v \in Code)
        /\ goal[p].kind # "fault" => ~ Mapped(p, v) /\ vm[p][v] = None

\* A struct page that belongs to a process that lives, and that is not the one
\* being set up or given back.
Settled(g) ==
  /\ page[g] # None /\ page[g].thread # None
  /\ Alive(page[g].thread)
  /\ ~ (pc[page[g].thread] \in Holding \cup {"refused"} /\ new[page[g].thread] = g)

Blank == [kaddr |-> None, vme |-> None, thread |-> None]

\* The page being set up: its frame is nobody else's, and holds what the
\* program is to find.
Underway(p) ==
  LET g == new[p]
      v == goal[p].vaddr
  IN  /\ pc[p] \in Wanting => g \in Page /\ page[g] = Blank
      /\ pc[p] \in Holding =>
           /\ g \in Page /\ page[g] # None
           /\ page[g].thread = p
           /\ page[g].kaddr \in Frame \ pool
           /\ page[g].vme = IF pc[p] \in {"link", "vme"} \/ goal[p].kind # "fault"
                            THEN None ELSE v
           /\ \A h \in Page : Settled(h) => page[h].kaddr # page[g].kaddr
           /\ goal[p].kind # "fault" => memory[page[g].kaddr] = Content(p, v, Initial)
           /\ pc[p] = "install" /\ goal[p].kind = "fault" /\ ~ Mapped(p, v) =>
                memory[page[g].kaddr] = truth[p][v]

\* The victim between pagedir_clear_page and __free_page.
Freeing(g) == hand = g /\ \E p \in Process : pc[p] = "free"

\* setup_stack leaves its page without an address.
AddrOf(g) == IF page[g].vme = None THEN Top ELSE page[g].vme

Holds(g, p, v) ==
  /\ page[g].thread = p /\ AddrOf(g) = v
  /\ Mapped(p, v) /\ pte[p][v].frame = page[g].kaddr

\* Settled pages and mapped addresses are one to one, through their frames.
OneToOne ==
  /\ \A g \in Page : Settled(g) => page[g].kaddr \in Frame \ pool
  /\ \A g, h \in Page : Settled(g) /\ Settled(h) /\ page[g].kaddr = page[h].kaddr => g = h
  /\ \A g \in Page : Settled(g) /\ ~ Freeing(g) => Holds(g, page[g].thread, AddrOf(g))
  /\ \A p \in Process, v \in Vaddr : Mapped(p, v) =>
       \E g \in Page : Settled(g) /\ ~ Freeing(g) /\ Holds(g, p, v)

\* The victim is somebody's page, and its address is known.
VictimKnown(p) ==
  pc[p] \in {"swap", "unmap", "free"} =>
    /\ hand \in Page /\ Settled(hand) /\ page[hand].vme # None
    /\ pc[p] = "free" => ~ Mapped(page[hand].thread, page[hand].vme)

\* Saved, and about to be unmapped.
Leaving(q, v) ==
  \E p \in Process : pc[p] = "unmap" /\ page[hand].thread = q /\ page[hand].vme = v

Away(p, v) ==
  /\ vm[p][v] # None
  /\ (~ Mapped(p, v) /\ ~ InTransit(p, v)) \/ Leaving(p, v)

Saved(p, v) ==
  IF vm[p][v].type = "anon"
  THEN vm[p][v].swap_slot \in swap_bitmap /\ disk[vm[p][v].swap_slot] = truth[p][v]
  ELSE truth[p][v] = Content(p, v, Initial)

\* What an address should hold is in its frame or where it was saved; what the
\* file alone holds was not written, and Code never is.
Kept ==
  \A p \in Process, v \in Vaddr :
    /\ Mapped(p, v) => vm[p][v] # None /\ memory[pte[p][v].frame] = truth[p][v]
    /\ Away(p, v) => Saved(p, v)
    /\ vm[p][v] # None /\ vm[p][v].type = "bin" =>
         (Mapped(p, v) /\ pte[p][v].dirty) \/ truth[p][v] = Content(p, v, Initial)
    /\ Alive(p) /\ v \in Code =>
         vm[p][v] # None /\ vm[p][v].type = "bin" /\ (Mapped(p, v) => ~ pte[p][v].dirty)

Swapped(p, v) == Away(p, v) /\ vm[p][v].type = "anon"

SlotsOneToOne ==
  /\ \A p, q \in Process, v, u \in Vaddr :
       Swapped(p, v) /\ Swapped(q, u) /\ vm[p][v].swap_slot = vm[q][u].swap_slot
         => p = q /\ v = u
  /\ (\A p \in Process : pc[p] # "dead") =>
       \A s \in swap_bitmap : \E p \in Process, v \in Vaddr :
          Swapped(p, v) /\ vm[p][v].swap_slot = s

Inv ==
  /\ TypeOK /\ OneFault /\ HeapFree /\ Empty
  /\ \A p \in Process : Goal(p) /\ Underway(p) /\ VictimKnown(p)
  /\ OneToOne /\ Kept /\ SlotsOneToOne

IInv == ~ overlap => Inv

-----------------------------------------------------------------------------
(* What every step needs.                                                  *)

PTE == [frame : Frame \cup {None}, present : BOOLEAN, accessed : BOOLEAN, dirty : BOOLEAN]

\* The bits of a page table entry.
LEMMA EntryBit ==
  ASSUME NEW F, NEW b \in BOOLEAN,
         NEW e \in [frame : F, present : BOOLEAN, accessed : BOOLEAN, dirty : BOOLEAN]
  PROVE  /\ [e EXCEPT !.accessed = b] \in [frame : F, present : BOOLEAN, accessed : BOOLEAN, dirty : BOOLEAN]
         /\ [e EXCEPT !.dirty = b] \in [frame : F, present : BOOLEAN, accessed : BOOLEAN, dirty : BOOLEAN]
         /\ [e EXCEPT !.present = b] \in [frame : F, present : BOOLEAN, accessed : BOOLEAN, dirty : BOOLEAN]
OBVIOUS

LEMMA SetBit ==
  ASSUME NEW f \in [Process -> [Vaddr -> PTE]], NEW p \in Process, NEW v \in Vaddr, NEW b \in BOOLEAN
  PROVE  /\ [f EXCEPT ![p][v].accessed = b] \in [Process -> [Vaddr -> PTE]]
         /\ [f EXCEPT ![p][v].dirty = b] \in [Process -> [Vaddr -> PTE]]
         /\ [f EXCEPT ![p][v].present = b] \in [Process -> [Vaddr -> PTE]]
<1>1. \A e \in PTE : /\ [e EXCEPT !.accessed = b] \in PTE
                     /\ [e EXCEPT !.dirty = b] \in PTE
                     /\ [e EXCEPT !.present = b] \in PTE
  BY EntryBit DEF PTE
<1>2. [f EXCEPT ![p][v].accessed = b] \in [Process -> [Vaddr -> PTE]]
  <2>1. [f[p] EXCEPT ![v] = [f[p][v] EXCEPT !.accessed = b]] \in [Vaddr -> PTE]
    BY <1>1
  <2> QED BY <2>1
<1>3. [f EXCEPT ![p][v].dirty = b] \in [Process -> [Vaddr -> PTE]]
  <2>1. [f[p] EXCEPT ![v] = [f[p][v] EXCEPT !.dirty = b]] \in [Vaddr -> PTE]
    BY <1>1
  <2> QED BY <2>1
<1>4. [f EXCEPT ![p][v].present = b] \in [Process -> [Vaddr -> PTE]]
  <2>1. [f[p] EXCEPT ![v] = [f[p][v] EXCEPT !.present = b]] \in [Vaddr -> PTE]
    BY <1>1
  <2> QED BY <2>1
<1> QED BY <1>2, <1>3, <1>4

LEMMA SetBits ==
  ASSUME NEW f \in [Process -> [Vaddr -> PTE]], NEW p \in Process, NEW v \in Vaddr
  PROVE  [f EXCEPT ![p][v].accessed = TRUE, ![p][v].dirty = TRUE] \in [Process -> [Vaddr -> PTE]]
<1> DEFINE g == [f EXCEPT ![p][v].accessed = TRUE]
<1>1. g \in [Process -> [Vaddr -> PTE]]
  BY SetBit
<1>2. [g EXCEPT ![p][v].dirty = TRUE] \in [Process -> [Vaddr -> PTE]]
  <2> HIDE DEF g
  <2> QED BY <1>1, SetBit
<1>3. [f EXCEPT ![p][v].accessed = TRUE, ![p][v].dirty = TRUE] = [g EXCEPT ![p][v].dirty = TRUE]
  OBVIOUS
<1> QED BY <1>2, <1>3

\* A set of numbers that is not empty has a lowest one.
LEMMA LowestIn ==
  ASSUME NEW S \in SUBSET Nat, S # {}
  PROVE  Lowest(S) \in S
<1> DEFINE R == StrictSubsetOrdering(Nat)
           T == {0 .. i : i \in S}
<1>1. T \subseteq FiniteSubsetsOf(Nat) /\ T # {}
  <2>1. ASSUME NEW i \in S PROVE 0 .. i \in FiniteSubsetsOf(Nat)
    BY FS_Interval DEF FiniteSubsetsOf
  <2> QED BY <2>1
<1> HIDE DEF T
<1>2. PICK x \in T : \A y \in T : ~(<<y, x>> \in R)
  BY <1>1, FS_StrictSubsetOrderingWellFounded, WFMin
<1>3. PICK i \in S : x = 0 .. i
  BY <1>2 DEF T
<1>4. ASSUME NEW j \in S, ~(i <= j) PROVE FALSE
  <2>1. 0 .. j \subseteq 0 .. i /\ i \in 0 .. i /\ i \notin 0 .. j
    BY <1>4
  <2>2. 0 .. j \in T /\ 0 .. j \in SUBSET Nat /\ 0 .. i \in SUBSET Nat
    BY <1>4 DEF T
  <2>3. <<0 .. j, x>> \in R
    BY <1>3, <2>1, <2>2 DEF StrictSubsetOrdering
  <2> QED BY <1>2, <2>2, <2>3
<1> QED BY <1>3, <1>4 DEF Lowest

\* While no other process is inside a page fault, what is said of some process
\* that stands at a place of one is said of p.
LEMMA OnlyOne ==
  ASSUME NEW p \in Process, NEW l \in Label, TypeOK, Alone(p), pc' = [pc EXCEPT ![p] = l]
  PROVE  /\ Alone(p)' /\ OneFault'
         /\ pc' \in [Process -> Label]
         /\ pc'[p] = l
         /\ \A q \in Process : q # p => pc'[q] = pc[q] /\ pc[q] \in {"new", "user", "dead"}
         /\ \A q \in Process : q # p => (Alive(q)' <=> Alive(q))
         /\ \A g : Freeing(g) <=> hand = g /\ pc[p] = "free"
         /\ \A g : Freeing(g)' <=> hand' = g /\ l = "free"
         /\ \A q, v : Leaving(q, v) <=>
              pc[p] = "unmap" /\ page[hand].thread = q /\ page[hand].vme = v
         /\ \A q, v : Leaving(q, v)' <=>
              l = "unmap" /\ page'[hand'].thread = q /\ page'[hand'].vme = v
<1>1. /\ pc' \in [Process -> Label]
      /\ pc'[p] = l
      /\ \A q \in Process : q # p => pc'[q] = pc[q] /\ pc[q] \in {"new", "user", "dead"}
  BY DEF TypeOK, Alone, AtRest
<1>2. Alone(p)' /\ OneFault'
  BY <1>1 DEF Alone, AtRest, OneFault
<1>3. /\ \A g : Freeing(g) <=> hand = g /\ pc[p] = "free"
      /\ \A g : Freeing(g)' <=> hand' = g /\ l = "free"
  BY <1>1 DEF Freeing
<1>4. /\ \A q, v : Leaving(q, v) <=>
           pc[p] = "unmap" /\ page[hand].thread = q /\ page[hand].vme = v
      /\ \A q, v : Leaving(q, v)' <=>
           l = "unmap" /\ page'[hand'].thread = q /\ page'[hand'].vme = v
  BY <1>1 DEF Leaving
<1>5. \A q \in Process : q # p => (Alive(q)' <=> Alive(q))
  BY <1>1 DEF Alive
<1> QED BY <1>1, <1>2, <1>3, <1>4, <1>5

\* No two addresses share a frame, and a mapped frame is not free.
LEMMA FrameOfOne ==
  ASSUME OneToOne, PagingAssumption, TypeOK,
         NEW p \in Process, NEW v \in Vaddr, Mapped(p, v)
  PROVE  /\ pte[p][v].frame \in Frame \ pool
         /\ \A q \in Process, u \in Vaddr :
              Mapped(q, u) /\ pte[q][u].frame = pte[p][v].frame => q = p /\ u = v
         /\ \A h \in Page : Settled(h) /\ page[h].kaddr = pte[p][v].frame =>
              page[h].thread = p /\ AddrOf(h) = v /\ ~ Freeing(h)
<1>1. PICK g \in Page : Settled(g) /\ ~ Freeing(g) /\ Holds(g, p, v)
  BY DEF OneToOne
<1>2. pte[p][v].frame \in Frame \ pool
  BY <1>1 DEF OneToOne, Holds
<1>3. ASSUME NEW h \in Page, Settled(h), page[h].kaddr = pte[p][v].frame
      PROVE  h = g
  BY <1>1, <1>3 DEF OneToOne, Holds
<1>4. ASSUME NEW q \in Process, NEW u \in Vaddr, Mapped(q, u), pte[q][u].frame = pte[p][v].frame
      PROVE  q = p /\ u = v
  <2>1. PICK h \in Page : Settled(h) /\ ~ Freeing(h) /\ Holds(h, q, u)
    BY <1>4 DEF OneToOne
  <2>2. h = g
    BY <2>1, <1>3, <1>4 DEF Holds
  <2> QED BY <1>1, <2>1, <2>2 DEF Holds
<1> QED BY <1>1, <1>2, <1>3, <1>4 DEF Holds

\* What a process has to show for its own fault.
LEMMA OwnFault ==
  ASSUME NEW p \in Process, Alone(p)', (Goal(p) /\ Underway(p) /\ VictimKnown(p))'
  PROVE  (\A q \in Process : Goal(q) /\ Underway(q) /\ VictimKnown(q))'
<1>1. ASSUME NEW q \in Process, q # p
      PROVE  (Goal(q) /\ Underway(q) /\ VictimKnown(q))'
  <2>1. AtRest(q)'
    BY <1>1 DEF Alone
  <2> QED BY <2>1 DEF Goal, Underway, VictimKnown, AtRest, Wanting, Holding
<1> QED BY <1>1

\* What is known of the page a process is setting up.
LEMMA InHand ==
  ASSUME NEW p \in Process, Underway(p), pc[p] \in Holding
  PROVE  /\ new[p] \in Page /\ page[new[p]] # None /\ page[new[p]].thread = p
         /\ page[new[p]].kaddr \in Frame \ pool
         /\ pc[p] \in {"link", "vme"} \/ goal[p].kind # "fault" => page[new[p]].vme = None
         /\ pc[p] \notin {"link", "vme"} /\ goal[p].kind = "fault" => page[new[p]].vme = goal[p].vaddr
         /\ \A h \in Page : Settled(h) => page[h].kaddr # page[new[p]].kaddr
         /\ goal[p].kind # "fault" => memory[page[new[p]].kaddr] = Content(p, goal[p].vaddr, Initial)
         /\ pc[p] = "install" /\ goal[p].kind = "fault" /\ ~ Mapped(p, goal[p].vaddr) =>
              memory[page[new[p]].kaddr] = truth[p][goal[p].vaddr]
BY DEF Underway

-----------------------------------------------------------------------------
(* Every step keeps the invariant, one lemma for each kind of step.        *)

\* An assertion that fails stops the kernel and changes nothing.
LEMMA PanicKeeps ==
  ASSUME Inv, UNCHANGED <<pc, goal, new, vm_state, list, lru_lock, store>>
  PROVE  Inv'
<1> USE DEF vm_state, list, store
<1>1. TypeOK' /\ OneFault' /\ HeapFree' /\ Empty'
  BY DEF Inv, TypeOK, OneFault, HeapFree, Empty, AtRest, Alive, Mapped
<1>2. \A p \in Process : Goal(p)' /\ Underway(p)' /\ VictimKnown(p)'
  BY DEF Inv, Goal, Underway, VictimKnown, Settled, Alive, AtRest, Mapped
<1>3. OneToOne'
  BY DEF Inv, OneToOne, Settled, Freeing, Holds, AddrOf, Alive, Mapped
<1>4. Kept' /\ SlotsOneToOne'
  BY DEF Inv, Kept, SlotsOneToOne, Swapped, Away, Leaving, InTransit, Saved, Alive, Mapped
<1> QED BY <1>1, <1>2, <1>3, <1>4 DEF Inv

\* The end of a process takes nobody else's frame.
LEMMA ExitKeeps ==
  ASSUME NEW p \in Process, Inv, Alone(p), Exit(p), Alive(p),
         pc[p] \notin {"swap", "unmap", "free"}
  PROVE  Inv'
<1>1. CASE Frames(p) \cap pool # {}
  BY <1>1, PanicKeeps DEF Exit, Panic
<1>2. CASE Frames(p) \cap pool = {}
  <2> USE DEF list
  <2>1. /\ pc' = [pc EXCEPT ![p] = "dead"]
        /\ goal' = [goal EXCEPT ![p] = None]
        /\ vm' = [vm EXCEPT ![p] = [v \in Vaddr |-> None]]
        /\ pte' = [pte EXCEPT ![p] = [v \in Vaddr |-> Absent]]
        /\ pool' = pool \cup Frames(p)
        /\ memory' = [f \in Frame |-> IF f \in Frames(p) THEN None ELSE memory[f]]
        /\ UNCHANGED <<new, truth, list, lru_lock, swap_bitmap, disk>>
    BY <1>2 DEF Exit
  <2>2. "dead" \in Label
    BY DEF Label
  <2>3. TypeOK
    BY DEF Inv
  <2>4. /\ Alone(p)' /\ OneFault' /\ pc' \in [Process -> Label] /\ pc'[p] = "dead"
        /\ \A q \in Process : q # p => pc'[q] = pc[q] /\ pc[q] \in {"new", "user", "dead"}
        /\ \A q \in Process : q # p => (Alive(q)' <=> Alive(q))
        /\ \A g : ~ Freeing(g) /\ ~ Freeing(g)'
        /\ \A q, v : ~ Leaving(q, v) /\ ~ Leaving(q, v)'
    BY <2>1, <2>2, <2>3, OnlyOne
  <2>5. /\ \A q \in Process, v \in Vaddr : q # p =>
             vm'[q][v] = vm[q][v] /\ pte'[q][v] = pte[q][v] /\ (Mapped(q, v)' <=> Mapped(q, v))
        /\ \A v \in Vaddr : vm'[p][v] = None /\ pte'[p][v] = Absent /\ ~ Mapped(p, v)'
    BY <2>1, <2>3 DEF TypeOK, Mapped, Absent
  <2>6. TypeOK'
    <3>1. Frames(p) \subseteq Frame
      BY <2>3, PagingAssumption, FrameOfOne DEF Inv, Frames
    <3>2. pte' \in [Process -> [Vaddr -> PTE]]
      BY <2>1, <2>3 DEF TypeOK, PTE, Absent
    <3> QED BY <2>1, <2>3, <2>4, <3>1, <3>2 DEF TypeOK, PTE, Contents
  <2>7. HeapFree' /\ Empty'
    BY <2>1, <2>4, <2>5 DEF Inv, HeapFree, Empty, Alive
  <2>8. (\A q \in Process : Goal(q) /\ Underway(q) /\ VictimKnown(q))'
    <3>1. (Goal(p) /\ Underway(p) /\ VictimKnown(p))'
      BY <2>4 DEF Goal, Underway, VictimKnown, AtRest, Wanting, Holding
    <3> QED BY <2>4, <3>1, OwnFault
  <2>9. \A g \in Page : Settled(g)' <=> Settled(g) /\ page[g].thread # p
    BY <2>1, <2>3, <2>4 DEF Settled, Alive, Holding, TypeOK, Struct
  <2>10. OneToOne'
    <3>1. ASSUME NEW g \in Page, Settled(g)'
          PROVE  page'[g].kaddr \in (Frame \ pool)'
      BY <2>1, <2>3, <2>9, <3>1, FrameOfOne, PagingAssumption DEF Inv, OneToOne, Frames
    <3>2. ASSUME NEW g \in Page, Settled(g)'
          PROVE  Holds(g, page[g].thread, AddrOf(g))'
      <4>1. Settled(g) /\ page[g].thread # p /\ page[g].thread \in Process /\ AddrOf(g) \in Vaddr
        <5>1. Settled(g) /\ page[g].thread # p
          BY <2>9, <3>2
        <5>2. page[g] \in Struct /\ page[g].thread # None
          BY <2>3, <5>1 DEF Settled, TypeOK
        <5> QED BY <5>1, <5>2 DEF Struct, AddrOf, Vaddr
      <4>2. Holds(g, page[g].thread, AddrOf(g))
        BY <2>4, <4>1 DEF Inv, OneToOne
      <4> QED BY <2>1, <2>5, <4>1, <4>2 DEF Holds, AddrOf
    <3>3. ASSUME NEW q \in Process, NEW v \in Vaddr, Mapped(q, v)'
          PROVE  \E g \in Page : Settled(g)' /\ Holds(g, q, v)'
      <4>1. q # p /\ Mapped(q, v)
        BY <2>5, <3>3 DEF Mapped
      <4>2. PICK g \in Page : Settled(g) /\ Holds(g, q, v)
        BY <4>1 DEF Inv, OneToOne
      <4>3. Settled(g)' /\ Holds(g, q, v)'
        BY <2>1, <2>5, <2>9, <4>1, <4>2, <3>3 DEF Holds, AddrOf
      <4> QED BY <4>3
    <3> QED BY <2>1, <2>4, <2>9, <3>1, <3>2, <3>3 DEF Inv, OneToOne
  <2>11. \A q \in Process, v \in Vaddr : q # p =>
           /\ InTransit(q, v)' <=> InTransit(q, v)
           /\ Away(q, v)' <=> Away(q, v)
           /\ Saved(q, v)' <=> Saved(q, v)
    BY <2>1, <2>4, <2>5 DEF InTransit, Away, Saved
  <2>12. \A v \in Vaddr : ~ Away(p, v)'
    BY <2>5 DEF Away
  <2>13. Kept'
    <3>1. ASSUME NEW q \in Process, NEW v \in Vaddr, Mapped(q, v)'
          PROVE  memory'[pte'[q][v].frame] = truth'[q][v]
      BY <2>1, <2>3, <2>5, <3>1, FrameOfOne, PagingAssumption DEF Inv, Kept, Frames
    <3> QED BY <2>1, <2>4, <2>5, <2>11, <2>12, <3>1 DEF Inv, Kept, Alive
  <2>14. SlotsOneToOne'
    BY <2>1, <2>4, <2>5, <2>11, <2>12 DEF Inv, SlotsOneToOne, Swapped
  <2> QED BY <2>4, <2>6, <2>7, <2>8, <2>10, <2>13, <2>14 DEF Inv
<1> QED BY <1>1, <1>2

\* Steps that change where the process stands, the links and the hand of the
\* clock, and the accessed bits: no page goes from one owner to another.
Moves == {<<"user", "user">>, <<"lock", "visit">>, <<"lock", "retry">>, <<"visit", "visit">>,
          <<"visit", "swap">>, <<"link", "vme">>, <<"link", "install">>, <<"vme", "install">>}

LEMMA MoveKeeps ==
  ASSUME NEW p \in Process, NEW l \in Label, Inv, Alone(p),
         pc' = [pc EXCEPT ![p] = l], <<pc[p], l>> \in Moves,
         l = "install" => goal[p].kind # "fault",
         l = "swap" => hand' \in Page /\ Settled(hand') /\ page[hand'].vme # None,
         UNCHANGED <<goal, new, vm, truth, heap, page, store>>,
         pte' \in [Process -> [Vaddr -> PTE]],
         \A q \in Process, v \in Vaddr : /\ pte'[q][v].frame = pte[q][v].frame
                                         /\ pte'[q][v].present = pte[q][v].present
                                         /\ pte'[q][v].dirty = pte[q][v].dirty,
         next' \in [Page \cup {ListHead, ListTail} -> Elem],
         prev' \in [Page \cup {ListHead, ListTail} -> Elem],
         hand' \in Elem \cup {None}, lru_lock' \in Process \cup {None}
  PROVE  Inv'
<1> USE DEF store
<1>1. TypeOK
  BY DEF Inv
<1>2. /\ Alone(p)' /\ OneFault' /\ pc' \in [Process -> Label] /\ pc'[p] = l
      /\ \A q \in Process : q # p => pc'[q] = pc[q] /\ pc[q] \in {"new", "user", "dead"}
      /\ \A g : ~ Freeing(g) /\ ~ Freeing(g)'
      /\ \A q, v : ~ Leaving(q, v) /\ ~ Leaving(q, v)'
  BY <1>1, OnlyOne DEF Moves
<1>3. \A q \in Process : Alive(q)' <=> Alive(q)
  BY <1>2 DEF Alive, Moves
<1>4. \A q \in Process, v \in Vaddr : Mapped(q, v)' <=> Mapped(q, v)
  BY DEF Mapped
<1>5. TypeOK'
  BY <1>1, <1>2 DEF TypeOK, PTE
<1>6. HeapFree' /\ Empty'
  BY <1>2, <1>3, <1>4 DEF Inv, HeapFree, Empty, Moves
<1>7. \A g \in Page : Settled(g)' <=> Settled(g)
  <2>1. \A q \in Process : pc'[q] \in Holding \cup {"refused"} <=> pc[q] \in Holding \cup {"refused"}
    BY <1>2 DEF Moves, Holding
  <2> QED BY <1>1, <1>3, <2>1 DEF Settled, TypeOK, Struct
<1>8. Goal(p)'
  BY <1>2, <1>4 DEF Inv, Goal, AtRest, Moves
<1>9. Underway(p)'
  <2>1. /\ l \in Wanting => pc[p] \in Wanting
        /\ l \in Holding => pc[p] \in {"link", "vme"} /\ pc[p] \in Holding
        /\ l \in Holding => l = "vme" \/ goal[p].kind # "fault"
    BY DEF Wanting, Holding, Moves
  <2>2. Underway(p)
    BY DEF Inv
  <2>3. CASE l \in Wanting
    <3>1. l \notin Holding
      BY <2>3 DEF Wanting, Holding
    <3>2. new[p] \in Page /\ page[new[p]] = Blank
      BY <2>1, <2>2, <2>3 DEF Underway
    <3> QED BY <1>2, <3>1, <3>2 DEF Underway
  <2>4. CASE l \in Holding
    <3>1. l \notin Wanting
      BY <2>4 DEF Wanting, Holding
    <3>2. /\ new[p] \in Page /\ page[new[p]] # None /\ page[new[p]].thread = p
          /\ page[new[p]].kaddr \in Frame \ pool
          /\ page[new[p]].vme = None
          /\ \A h \in Page : Settled(h) => page[h].kaddr # page[new[p]].kaddr
          /\ goal[p].kind # "fault" => memory[page[new[p]].kaddr] = Content(p, goal[p].vaddr, Initial)
      BY <2>1, <2>2, <2>4, InHand
    <3>3. \A h \in Page : Settled(h)' => page[h].kaddr # page[new[p]].kaddr
      BY <1>7, <3>2
    <3>4. (l \in {"link", "vme"} \/ goal[p].kind # "fault") /\ ~ (l = "install" /\ goal[p].kind = "fault")
      BY <2>1, <2>4 DEF Moves, Holding
    <3> QED BY <1>2, <3>1, <3>2, <3>3, <3>4 DEF Underway
  <2>5. CASE l \notin Wanting \cup Holding
    BY <1>2, <2>5 DEF Underway
  <2> QED BY <2>3, <2>4, <2>5
<1>10. OneToOne'
  <2>1. \A g \in Page, q \in Process, v \in Vaddr : Holds(g, q, v)' <=> Holds(g, q, v)
    BY <1>4 DEF Holds, AddrOf
  <2>2. ASSUME NEW g \in Page, Settled(g)
        PROVE  page[g].thread \in Process /\ AddrOf(g) \in Vaddr /\ AddrOf(g)' = AddrOf(g)
    <3>1. page[g] \in Struct /\ page[g].thread # None
      BY <1>1, <2>2 DEF Settled, TypeOK
    <3> QED BY <3>1 DEF Struct, AddrOf, Vaddr
  <2> QED BY <1>2, <1>4, <1>7, <2>1, <2>2 DEF Inv, OneToOne
<1>11. VictimKnown(p)'
  BY <1>2, <1>7 DEF VictimKnown, Moves
<1>12. ASSUME NEW q \in Process, NEW v \in Vaddr
       PROVE  /\ Away(q, v)' => Away(q, v)
              /\ Away(q, v) => Away(q, v)' \/ vm[q][v].type = "bin"
              /\ Saved(q, v)' <=> Saved(q, v)
  <2>1. CASE InTransit(q, v)' <=> InTransit(q, v)
    BY <1>2, <1>4, <2>1 DEF Away, Saved
  <2>2. CASE ~ (InTransit(q, v)' <=> InTransit(q, v))
    <3>1. q = p /\ l = "install" /\ v = goal[p].vaddr /\ ~ InTransit(q, v) /\ ~ AtRest(p)
      BY <1>2, <2>2 DEF InTransit, Moves, AtRest
    <3>2. vm[q][v] # None => vm[q][v].type = "bin"
      BY <3>1 DEF Inv, Goal
    <3> QED BY <1>2, <1>4, <3>1, <3>2 DEF Away, Saved
  <2> QED BY <2>1, <2>2
<1>13. Kept'
  <2> SUFFICES ASSUME NEW q \in Process, NEW v \in Vaddr
               PROVE  /\ Mapped(q, v)' => vm[q][v] # None /\ memory[pte'[q][v].frame] = truth[q][v]
                      /\ Away(q, v)' => Saved(q, v)'
                      /\ vm[q][v] # None /\ vm[q][v].type = "bin" =>
                           (Mapped(q, v)' /\ pte'[q][v].dirty) \/ truth[q][v] = Content(q, v, Initial)
                      /\ Alive(q)' /\ v \in Code =>
                           vm[q][v] # None /\ vm[q][v].type = "bin" /\ (Mapped(q, v)' => ~ pte'[q][v].dirty)
    BY DEF Kept
  <2>1. /\ Mapped(q, v) => vm[q][v] # None /\ memory[pte[q][v].frame] = truth[q][v]
        /\ Away(q, v) => Saved(q, v)
        /\ vm[q][v] # None /\ vm[q][v].type = "bin" =>
             (Mapped(q, v) /\ pte[q][v].dirty) \/ truth[q][v] = Content(q, v, Initial)
        /\ Alive(q) /\ v \in Code =>
             vm[q][v] # None /\ vm[q][v].type = "bin" /\ (Mapped(q, v) => ~ pte[q][v].dirty)
    BY DEF Inv, Kept
  <2> QED BY <1>3, <1>4, <1>12, <2>1
<1>14. SlotsOneToOne'
  <2>1. \A q \in Process, v \in Vaddr : Swapped(q, v)' <=> Swapped(q, v)
    BY <1>12 DEF Swapped
  <2>2. (\A q \in Process : pc'[q] # "dead") => \A q \in Process : pc[q] # "dead"
    BY <1>2 DEF Moves
  <2> QED BY <2>1, <2>2 DEF Inv, SlotsOneToOne
<1>15. (\A q \in Process : Goal(q) /\ Underway(q) /\ VictimKnown(q))'
  BY <1>2, <1>8, <1>9, <1>11, OwnFault
<1> QED BY <1>2, <1>5, <1>6, <1>10, <1>13, <1>14, <1>15 DEF Inv

-----------------------------------------------------------------------------
(* Steps after which the pages belong to the same processes, or after which *)
(* every address holds what it held.                                       *)

LEMMA SameOwners ==
  ASSUME TypeOK, OneToOne,
         \A g \in Page : Settled(g)' <=> Settled(g),
         \A g \in Page : Settled(g) => page'[g] = page[g] /\ page[g].kaddr \notin pool',
         \A g \in Page : Freeing(g)' <=> Freeing(g),
         \A q \in Process, v \in Vaddr : /\ Mapped(q, v)' <=> Mapped(q, v)
                                         /\ pte'[q][v].frame = pte[q][v].frame
  PROVE  OneToOne'
<1>1. ASSUME NEW g \in Page, Settled(g)
      PROVE  /\ page[g].thread \in Process /\ AddrOf(g) \in Vaddr /\ AddrOf(g)' = AddrOf(g)
             /\ page[g].kaddr \in Frame \ pool
             /\ \A q \in Process, v \in Vaddr : Holds(g, q, v)' <=> Holds(g, q, v)
  <2>1. page[g] \in Struct /\ page[g].thread # None /\ page'[g] = page[g]
    BY <1>1 DEF Settled, TypeOK
  <2>2. page[g].thread \in Process /\ AddrOf(g) \in Vaddr /\ AddrOf(g)' = AddrOf(g)
    BY <2>1 DEF Struct, AddrOf, Vaddr
  <2>3. page[g].kaddr \in Frame \ pool
    BY <1>1 DEF OneToOne
  <2> QED BY <2>1, <2>2, <2>3 DEF Holds
<1>2. ASSUME NEW g \in Page, Settled(g)'
      PROVE  /\ page'[g].kaddr \in (Frame \ pool)'
             /\ ~ Freeing(g)' => Holds(g, page[g].thread, AddrOf(g))'
  BY <1>1, <1>2 DEF OneToOne
<1>3. ASSUME NEW q \in Process, NEW v \in Vaddr, Mapped(q, v)'
      PROVE  \E g \in Page : Settled(g)' /\ ~ Freeing(g)' /\ Holds(g, q, v)'
  <2>1. PICK g \in Page : Settled(g) /\ ~ Freeing(g) /\ Holds(g, q, v)
    BY <1>3 DEF OneToOne
  <2> QED BY <1>1, <2>1
<1>4. ASSUME NEW g \in Page, NEW h \in Page, Settled(g)', Settled(h)', page'[g].kaddr = page'[h].kaddr
      PROVE  g = h
  BY <1>4 DEF OneToOne
<1> QED BY <1>2, <1>3, <1>4 DEF OneToOne

LEMMA SameContents ==
  ASSUME Kept, SlotsOneToOne, UNCHANGED <<vm, truth, swap_bitmap, disk>>,
         \A q \in Process : Alive(q)' <=> Alive(q),
         (\A q \in Process : pc'[q] # "dead") => \A q \in Process : pc[q] # "dead",
         \A q \in Process, v \in Vaddr :
            /\ Mapped(q, v)' <=> Mapped(q, v)
            /\ pte'[q][v].frame = pte[q][v].frame /\ pte'[q][v].dirty = pte[q][v].dirty
            /\ Mapped(q, v) => memory'[pte[q][v].frame] = memory[pte[q][v].frame],
         \A q \in Process, v \in Vaddr :
            /\ Away(q, v)' => Away(q, v)
            /\ Away(q, v) => Away(q, v)' \/ vm[q][v].type = "bin"
  PROVE  Kept' /\ SlotsOneToOne'
<1>1. ASSUME NEW q \in Process, NEW v \in Vaddr
      PROVE  /\ Mapped(q, v)' => vm'[q][v] # None /\ memory'[pte'[q][v].frame] = truth'[q][v]
             /\ Away(q, v)' => Saved(q, v)'
             /\ vm'[q][v] # None /\ vm'[q][v].type = "bin" =>
                  (Mapped(q, v)' /\ pte'[q][v].dirty) \/ truth'[q][v] = Content(q, v, Initial)
             /\ Alive(q)' /\ v \in Code =>
                  vm'[q][v] # None /\ vm'[q][v].type = "bin" /\ (Mapped(q, v)' => ~ pte'[q][v].dirty)
  <2>1. /\ Mapped(q, v) => vm[q][v] # None /\ memory[pte[q][v].frame] = truth[q][v]
        /\ Away(q, v) => Saved(q, v)
        /\ vm[q][v] # None /\ vm[q][v].type = "bin" =>
             (Mapped(q, v) /\ pte[q][v].dirty) \/ truth[q][v] = Content(q, v, Initial)
        /\ Alive(q) /\ v \in Code =>
             vm[q][v] # None /\ vm[q][v].type = "bin" /\ (Mapped(q, v) => ~ pte[q][v].dirty)
    BY DEF Kept
  <2>2. Saved(q, v)' <=> Saved(q, v)
    BY DEF Saved
  <2> QED BY <2>1, <2>2
<1>2. \A q \in Process, v \in Vaddr : Swapped(q, v)' <=> Swapped(q, v)
  BY DEF Swapped
<1>3. SlotsOneToOne'
  BY <1>2 DEF SlotsOneToOne
<1> QED BY <1>1, <1>3 DEF Kept

-----------------------------------------------------------------------------
(* A program faults, or is loaded.                                         *)

LEMMA BeginKeeps ==
  ASSUME NEW p \in Process, NEW kind \in {"fault", "grow"}, NEW v \in Vaddr,
         Inv, Alone(p), pc[p] = "user", Begin(p, kind, v),
         kind = "fault" => vm[p][v] # None /\ (Mapped(p, v) => v \in Code),
         kind = "grow" => vm[p][v] = None,
         UNCHANGED <<new, vm_state, list, store>>, lru_lock' = lru_lock
  PROVE  Inv'
<1> USE DEF list, vm_state, store
<1>1. TypeOK /\ pc' = [pc EXCEPT ![p] = "alloc"] /\ goal' = [goal EXCEPT ![p] = [kind |-> kind, vaddr |-> v]]
  BY DEF Inv, Begin
<1>2. /\ Alone(p)' /\ OneFault' /\ pc' \in [Process -> Label] /\ pc'[p] = "alloc"
      /\ \A q \in Process : q # p => pc'[q] = pc[q] /\ pc[q] \in {"new", "user", "dead"}
      /\ \A g : ~ Freeing(g) /\ ~ Freeing(g)'
      /\ \A q, u : ~ Leaving(q, u) /\ ~ Leaving(q, u)'
  BY <1>1, OnlyOne DEF Label
<1>3. \A q \in Process : Alive(q)' <=> Alive(q)
  BY <1>2 DEF Alive
<1>4. \A q \in Process, u \in Vaddr : Mapped(q, u)' <=> Mapped(q, u)
  BY DEF Mapped
<1>5. TypeOK'
  BY <1>1, <1>2 DEF TypeOK
<1>6. HeapFree' /\ Empty'
  BY <1>2, <1>3, <1>4 DEF Inv, HeapFree, Empty
<1>7. \A g \in Page : Settled(g)' <=> Settled(g)
  <2>1. \A q \in Process : pc'[q] \notin Holding \cup {"refused"} /\ pc[q] \notin Holding \cup {"refused"}
    BY <1>2 DEF Holding
  <2> QED BY <1>1, <1>3, <2>1 DEF Settled, TypeOK, Struct
<1>8. (Goal(p) /\ Underway(p) /\ VictimKnown(p))'
  <2>1. kind = "grow" => ~ Mapped(p, v)
    BY DEF Inv, Kept
  <2>2. goal'[p] = [kind |-> kind, vaddr |-> v]
    BY <1>1 DEF TypeOK
  <2>3. Goal(p)'
    BY <1>2, <1>4, <2>1, <2>2 DEF Goal
  <2> QED BY <1>2, <2>3 DEF Underway, VictimKnown, Wanting, Holding
<1>9. OneToOne'
  BY <1>1, <1>2, <1>4, <1>7, SameOwners DEF Inv, OneToOne
<1>10. \A q \in Process, u \in Vaddr : Away(q, u)' <=> Away(q, u)
  BY <1>2, <1>4 DEF Away, InTransit
<1>11. Kept' /\ SlotsOneToOne'
  BY <1>1, <1>2, <1>3, <1>4, <1>10, SameContents DEF Inv
<1> QED BY <1>2, <1>5, <1>6, <1>8, <1>9, <1>11, OwnFault DEF Inv

LEMMA LoadKeeps ==
  ASSUME NEW p \in Process, Inv, Alone(p), Load(p)
  PROVE  Inv'
<1> USE DEF list, store
<1>1. /\ TypeOK /\ pc[p] = "new"
      /\ pc' = [pc EXCEPT ![p] = "alloc"] /\ goal' = [goal EXCEPT ![p] = [kind |-> "setup", vaddr |-> Top]]
      /\ vm' = [vm EXCEPT ![p] = [v \in Vaddr |->
           IF v \in Code \cup Data THEN [type |-> "bin", swap_slot |-> None] ELSE None]]
      /\ truth' = [truth EXCEPT ![p] = [v \in Vaddr |->
           IF v \in Code \cup Data THEN Content(p, v, Initial) ELSE None]]
      /\ UNCHANGED <<new, pte, list, lru_lock, store>>
  BY DEF Inv, Load, Begin
<1>2. /\ Alone(p)' /\ OneFault' /\ pc' \in [Process -> Label] /\ pc'[p] = "alloc"
      /\ \A q \in Process : q # p => pc'[q] = pc[q] /\ pc[q] \in {"new", "user", "dead"}
      /\ \A q \in Process : q # p => (Alive(q)' <=> Alive(q))
      /\ \A g : ~ Freeing(g) /\ ~ Freeing(g)'
      /\ \A q, u : ~ Leaving(q, u) /\ ~ Leaving(q, u)'
  BY <1>1, OnlyOne DEF Label
<1>3. /\ \A v \in Vaddr : /\ vm[p][v] = None /\ ~ Mapped(p, v) /\ ~ Mapped(p, v)'
                          /\ vm'[p][v] = IF v \in Code \cup Data
                                         THEN [type |-> "bin", swap_slot |-> None] ELSE None
                          /\ v \in Code \cup Data => truth'[p][v] = Content(p, v, Initial)
      /\ \A q \in Process, v \in Vaddr : q # p => vm'[q][v] = vm[q][v] /\ truth'[q][v] = truth[q][v]
      /\ \A q \in Process, v \in Vaddr : Mapped(q, v)' <=> Mapped(q, v)
      /\ \A g \in Page : page[g] # None => page[g].thread # p
  <2>1. \A v \in Vaddr : vm[p][v] = None /\ ~ Mapped(p, v)
    BY <1>1 DEF Inv, Empty, Alive
  <2>2. \A g \in Page : page[g] # None => page[g].thread # p
    BY <1>1 DEF Inv, Empty
  <2> QED BY <1>1, <2>1, <2>2 DEF TypeOK, Mapped
<1>4. TypeOK'
  <2>1. \A v \in Vaddr : Content(p, v, Initial) \in Contents
    BY DEF Content, Contents
  <2>2. vm' \in [Process -> [Vaddr -> Entry \cup {None}]]
    BY <1>1 DEF TypeOK, Entry
  <2>3. truth' \in [Process -> [Vaddr -> Contents]]
    <3>1. [v \in Vaddr |-> IF v \in Code \cup Data THEN Content(p, v, Initial) ELSE None]
            \in [Vaddr -> Contents]
      BY <2>1 DEF Contents
    <3> QED BY <1>1, <3>1 DEF TypeOK
  <2>4. [kind |-> "setup", vaddr |-> Top] \in [kind : {"setup", "fault", "grow"}, vaddr : Vaddr]
    BY DEF Vaddr
  <2> QED BY <1>1, <1>2, <2>2, <2>3, <2>4 DEF TypeOK
<1>5. HeapFree' /\ Empty'
  BY <1>1, <1>2, <1>3 DEF Inv, HeapFree, Empty, Alive
<1>6. \A g \in Page : Settled(g)' <=> Settled(g)
  <2>1. \A q \in Process : pc'[q] \notin Holding \cup {"refused"} /\ pc[q] \notin Holding \cup {"refused"}
    BY <1>1, <1>2 DEF Holding
  <2> QED BY <1>1, <1>2, <1>3, <2>1 DEF Settled, TypeOK, Struct
<1>7. (Goal(p) /\ Underway(p) /\ VictimKnown(p))'
  <2>1. goal'[p] = [kind |-> "setup", vaddr |-> Top] /\ Top \in Vaddr
    BY <1>1 DEF TypeOK, Vaddr
  <2>2. vm'[p][Top] = None /\ ~ Mapped(p, Top)'
    BY <1>3, <2>1, PagingAssumption
  <2>3. Goal(p)'
    BY <1>2, <2>1, <2>2 DEF Goal
  <2> QED BY <1>2, <2>3 DEF Underway, VictimKnown, Wanting, Holding
<1>8. OneToOne'
  BY <1>1, <1>2, <1>3, <1>6, SameOwners DEF Inv, OneToOne
<1>9. \A q \in Process, u \in Vaddr : q # p => (Away(q, u)' <=> Away(q, u)) /\ (Saved(q, u)' <=> Saved(q, u))
  BY <1>1, <1>2, <1>3 DEF Away, InTransit, Saved
<1>10. Kept'
  <2>1. ASSUME NEW q \in Process, NEW v \in Vaddr
        PROVE  /\ Mapped(q, v)' => vm'[q][v] # None /\ memory'[pte'[q][v].frame] = truth'[q][v]
               /\ Away(q, v)' => Saved(q, v)'
               /\ vm'[q][v] # None /\ vm'[q][v].type = "bin" =>
                    (Mapped(q, v)' /\ pte'[q][v].dirty) \/ truth'[q][v] = Content(q, v, Initial)
               /\ Alive(q)' /\ v \in Code =>
                    vm'[q][v] # None /\ vm'[q][v].type = "bin" /\ (Mapped(q, v)' => ~ pte'[q][v].dirty)
    <3>1. CASE q # p
      BY <1>1, <1>2, <1>3, <1>9, <3>1 DEF Inv, Kept
    <3>2. CASE q = p
      <4>1. /\ vm'[p][v] # None => v \in Code \cup Data
            /\ v \in Code \cup Data => vm'[p][v] # None /\ vm'[p][v].type = "bin"
        BY <1>3, PagingAssumption DEF Entry
      <4> QED BY <1>3, <3>2, <4>1 DEF Away, Saved
    <3> QED BY <3>1, <3>2
  <2> QED BY <2>1 DEF Kept
<1>11. SlotsOneToOne'
  <2>1. \A v \in Vaddr : ~ Swapped(p, v) /\ ~ Swapped(p, v)'
    BY <1>3 DEF Swapped, Away
  <2>2. \A q \in Process, v \in Vaddr : q # p => (Swapped(q, v)' <=> Swapped(q, v))
    BY <1>3, <1>9 DEF Swapped
  <2>3. (\A q \in Process : pc'[q] # "dead") => \A q \in Process : pc[q] # "dead"
    BY <1>1, <1>2
  <2> QED BY <1>1, <1>3, <2>1, <2>2, <2>3 DEF Inv, SlotsOneToOne
<1> QED BY <1>2, <1>4, <1>5, <1>7, <1>8, <1>10, <1>11, OwnFault DEF Inv

LEMMA WriteKeeps ==
  ASSUME NEW p \in Process, NEW v \in Vaddr, NEW x \in Value, Inv, Alone(p), Write(p, v, x)
  PROVE  Inv'
<1> USE DEF list
<1> DEFINE f == pte[p][v].frame
<1>1. /\ TypeOK /\ pc[p] = "user" /\ Mapped(p, v) /\ v \notin Code
      /\ pte' = [pte EXCEPT ![p][v].accessed = TRUE, ![p][v].dirty = TRUE]
      /\ memory' = [memory EXCEPT ![f] = Content(p, v, x)]
      /\ truth' = [truth EXCEPT ![p][v] = Content(p, v, x)]
      /\ UNCHANGED <<pc, goal, new, vm, list, lru_lock, pool, swap_bitmap, disk>>
  BY DEF Inv, Write
<1>2. /\ f \in Frame \ pool
      /\ \A q \in Process, u \in Vaddr : Mapped(q, u) /\ pte[q][u].frame = f => q = p /\ u = v
  BY <1>1, FrameOfOne, PagingAssumption DEF Inv
<1> HIDE DEF f
<1>3. /\ \A q \in Process, u \in Vaddr : Mapped(q, u)' <=> Mapped(q, u)
      /\ \A q \in Process, u \in Vaddr : pte'[q][u].frame = pte[q][u].frame
      /\ \A q \in Process, u \in Vaddr : ~ (q = p /\ u = v) =>
           pte'[q][u] = pte[q][u] /\ truth'[q][u] = truth[q][u]
      /\ pte'[p][v].dirty
      /\ memory'[f] = truth'[p][v]
      /\ \A e \in Frame : e # f => memory'[e] = memory[e]
  <2>1. pte \in [Process -> [Vaddr -> PTE]] /\ memory \in [Frame -> Contents]
        /\ truth \in [Process -> [Vaddr -> Contents]]
    BY <1>1 DEF TypeOK, PTE
  <2>2. /\ \A q \in Process, u \in Vaddr : ~ (q = p /\ u = v) => pte'[q][u] = pte[q][u]
        /\ pte'[p][v] = [pte[p][v] EXCEPT !.accessed = TRUE, !.dirty = TRUE] /\ pte[p][v] \in PTE
    BY <1>1, <2>1
  <2>3. /\ pte'[p][v].dirty
        /\ pte'[p][v].frame = pte[p][v].frame /\ pte'[p][v].present = pte[p][v].present
    BY <2>2 DEF PTE
  <2>4. /\ truth'[p][v] = Content(p, v, x)
        /\ \A q \in Process, u \in Vaddr : ~ (q = p /\ u = v) => truth'[q][u] = truth[q][u]
    BY <1>1, <2>1
  <2>5. memory'[f] = Content(p, v, x) /\ \A e \in Frame : e # f => memory'[e] = memory[e]
    BY <1>1, <1>2, <2>1
  <2>6. \A q \in Process, u \in Vaddr : pte'[q][u].frame = pte[q][u].frame /\ pte'[q][u].present = pte[q][u].present
    BY <2>2, <2>3
  <2> QED BY <2>2, <2>3, <2>4, <2>5, <2>6 DEF Mapped
<1>4. AtRest(p) /\ \A q \in Process : AtRest(q)
  BY <1>1 DEF Alone, AtRest
<1>5. TypeOK'
  <2>1. Content(p, v, x) \in Contents
    BY DEF Content, Contents
  <2>2. pte' \in [Process -> [Vaddr -> PTE]]
    <3>1. pte \in [Process -> [Vaddr -> PTE]]
      BY <1>1 DEF TypeOK, PTE
    <3> QED BY <1>1, <3>1, SetBits
  <2> QED BY <1>1, <1>2, <2>1, <2>2 DEF TypeOK, PTE
<1>6. OneFault' /\ HeapFree' /\ Empty' /\ Alone(p)'
  BY <1>1, <1>3 DEF Inv, OneFault, HeapFree, Empty, Alone, AtRest, Alive
<1>7. (Goal(p) /\ Underway(p) /\ VictimKnown(p))'
  BY <1>1 DEF Goal, Underway, VictimKnown, AtRest, Wanting, Holding
<1>8. \A g \in Page : (Settled(g)' <=> Settled(g)) /\ (Freeing(g)' <=> Freeing(g))
  BY <1>1 DEF Settled, Alive, Freeing
<1>9. OneToOne'
  <2>1. OneToOne /\ \A g \in Page : Settled(g) => page'[g] = page[g] /\ page[g].kaddr \notin pool'
    BY <1>1 DEF Inv, OneToOne
  <2>2. /\ \A g \in Page : Settled(g)' <=> Settled(g)
        /\ \A g \in Page : Freeing(g)' <=> Freeing(g)
    BY <1>8
  <2>3. \A q \in Process, u \in Vaddr : /\ Mapped(q, u)' <=> Mapped(q, u)
                                        /\ pte'[q][u].frame = pte[q][u].frame
    BY <1>3
  <2> QED BY <1>1, <2>1, <2>2, <2>3, SameOwners, Zenon
<1>10. \A q \in Process, u \in Vaddr : Away(q, u)' <=> Away(q, u)
  BY <1>1, <1>3 DEF Away, InTransit, Leaving
<1>11. ~ Away(p, v)
  BY <1>1, <1>4 DEF Away, Leaving, AtRest
<1>12. Kept'
  <2>1. ASSUME NEW q \in Process, NEW u \in Vaddr
        PROVE  /\ Mapped(q, u)' => vm'[q][u] # None /\ memory'[pte'[q][u].frame] = truth'[q][u]
               /\ Away(q, u)' => Saved(q, u)'
               /\ vm'[q][u] # None /\ vm'[q][u].type = "bin" =>
                    (Mapped(q, u)' /\ pte'[q][u].dirty) \/ truth'[q][u] = Content(q, u, Initial)
               /\ Alive(q)' /\ u \in Code =>
                    vm'[q][u] # None /\ vm'[q][u].type = "bin" /\ (Mapped(q, u)' => ~ pte'[q][u].dirty)
    <3>1. /\ Mapped(q, u) => vm[q][u] # None /\ memory[pte[q][u].frame] = truth[q][u]
          /\ Away(q, u) => Saved(q, u)
          /\ vm[q][u] # None /\ vm[q][u].type = "bin" =>
               (Mapped(q, u) /\ pte[q][u].dirty) \/ truth[q][u] = Content(q, u, Initial)
          /\ Alive(q) /\ u \in Code =>
               vm[q][u] # None /\ vm[q][u].type = "bin" /\ (Mapped(q, u) => ~ pte[q][u].dirty)
      BY DEF Inv, Kept
    <3>2. CASE ~ (q = p /\ u = v)
      <4>1. Mapped(q, u) => pte[q][u].frame \in Frame /\ pte[q][u].frame # f
        BY <1>2, <3>2, <1>1, FrameOfOne, PagingAssumption DEF Inv
      <4>2. Saved(q, u)' <=> Saved(q, u)
        BY <1>1, <1>3, <3>2 DEF Saved
      <4>3. /\ vm'[q][u] = vm[q][u] /\ truth'[q][u] = truth[q][u] /\ pte'[q][u] = pte[q][u]
            /\ Mapped(q, u)' <=> Mapped(q, u)
            /\ Alive(q)' <=> Alive(q)
        BY <1>1, <1>3, <3>2 DEF Alive
      <4>4. Mapped(q, u) => memory'[pte[q][u].frame] = memory[pte[q][u].frame]
        BY <1>3, <4>1
      <4> QED BY <1>10, <3>1, <4>2, <4>3, <4>4
    <3>3. CASE q = p /\ u = v
      <4>1. Mapped(p, v)' /\ pte'[p][v].frame = f /\ ~ Away(p, v)'
        BY <1>1, <1>3, <1>10, <1>11 DEF f
      <4> QED BY <1>1, <1>3, <3>1, <3>3, <4>1
    <3> QED BY <3>2, <3>3
  <2> QED BY <2>1 DEF Kept
<1>13. SlotsOneToOne'
  BY <1>1, <1>10 DEF Inv, SlotsOneToOne, Swapped
<1> QED BY <1>5, <1>6, <1>7, <1>9, <1>12, <1>13, OwnFault DEF Inv

-----------------------------------------------------------------------------
(* alloc_page.                                                             *)

\* A block malloc hands out is nobody's, and is not handed out again.
LEMMA HeapHead ==
  ASSUME heap \in Seq(Page), HeapFree, heap # <<>>
  PROVE  /\ Head(heap) \in Page /\ page[Head(heap)] = None
         /\ Tail(heap) \in Seq(Page)
         /\ \A i \in DOMAIN Tail(heap) : /\ page[Tail(heap)[i]] = None
                                         /\ Tail(heap)[i] # Head(heap)
         /\ \A i, j \in DOMAIN Tail(heap) : Tail(heap)[i] = Tail(heap)[j] => i = j
<1>1. Len(heap) \in Nat \ {0} /\ DOMAIN heap = 1 .. Len(heap) /\ Head(heap) = heap[1]
      /\ Tail(heap) \in Seq(Page) /\ Head(heap) \in Page
  OBVIOUS
<1>2. DOMAIN Tail(heap) = 1 .. Len(heap) - 1
  OBVIOUS
<1>3. \A i \in DOMAIN Tail(heap) : Tail(heap)[i] = heap[i + 1] /\ i + 1 \in DOMAIN heap /\ i + 1 # 1
  BY <1>1, <1>2
<1>4. 1 \in DOMAIN heap
  BY <1>1
<1>5. \A i, j \in DOMAIN Tail(heap) : i + 1 = j + 1 => i = j
  BY <1>2
<1> QED BY <1>1, <1>3, <1>4, <1>5 DEF HeapFree

LEMMA TakeKeeps ==
  ASSUME NEW p \in Process, NEW g \in Page, Inv, Alone(p), pc[p] \in {"alloc", "retry"},
         pool # {}, TakeFrame(p, g), page[g] \in {None, Blank},
         new' \in [Process -> Page \cup {None}], new'[p] = g,
         heap' \in Seq(Page),
         \A i \in DOMAIN heap' : heap'[i] # g /\ page[heap'[i]] = None,
         \A i, j \in DOMAIN heap' : heap'[i] = heap'[j] => i = j,
         UNCHANGED <<goal, vm_state, next, prev, hand, lru_lock, swap_bitmap, disk>>
  PROVE  Inv'
<1> USE DEF vm_state
<1> DEFINE f == Lowest(pool)
           v == goal[p].vaddr
<1>1. /\ TypeOK /\ pc' = [pc EXCEPT ![p] = "link"]
      /\ pool' = pool \ {f}
      /\ page' = [page EXCEPT ![g] = [kaddr |-> f, vme |-> None, thread |-> p]]
      /\ memory' = IF goal[p].kind = "fault" THEN memory ELSE [memory EXCEPT ![f] = Content(p, v, Initial)]
  BY DEF Inv, TakeFrame, Goto
<1>2. f \in pool /\ f \in Frame
  <2>1. pool \in SUBSET Nat /\ pool \subseteq Frame
    BY <1>1, PagingAssumption DEF TypeOK
  <2> QED BY <2>1, LowestIn
<1> HIDE DEF f
<1>3. /\ Alone(p)' /\ OneFault' /\ pc' \in [Process -> Label] /\ pc'[p] = "link"
      /\ \A q \in Process : q # p => pc'[q] = pc[q] /\ pc[q] \in {"new", "user", "dead"}
      /\ \A h : ~ Freeing(h) /\ ~ Freeing(h)'
      /\ \A q, u : ~ Leaving(q, u) /\ ~ Leaving(q, u)'
  BY <1>1, OnlyOne DEF Label
<1>4. \A q \in Process : Alive(q)' <=> Alive(q)
  BY <1>3 DEF Alive
<1>5. \A q \in Process, u \in Vaddr : Mapped(q, u)' <=> Mapped(q, u)
  BY DEF Mapped
<1>6. /\ goal[p] \in [kind : {"setup", "fault", "grow"}, vaddr : Vaddr]
      /\ Goal(p) /\ ~ AtRest(p)
  BY DEF Inv, Goal, AtRest
<1>7. /\ page'[g] = [kaddr |-> f, vme |-> None, thread |-> p]
      /\ \A h \in Page : h # g => page'[h] = page[h]
  BY <1>1 DEF TypeOK
<1>8. TypeOK'
  <2>1. Content(p, v, Initial) \in Contents
    BY <1>6 DEF Content, Contents
  <2>2. [kaddr |-> f, vme |-> None, thread |-> p] \in Struct
    BY <1>2 DEF Struct
  <2>3. memory' \in [Frame -> Contents] /\ page' \in [Page -> {None} \cup Struct]
    BY <1>1, <1>2, <2>1, <2>2 DEF TypeOK
  <2>4. pool' \subseteq Frame
    BY <1>1 DEF TypeOK
  <2> QED BY <1>1, <1>3, <2>3, <2>4 DEF TypeOK
<1>9. HeapFree' /\ Empty'
  BY <1>3, <1>4, <1>5, <1>7 DEF Inv, HeapFree, Empty
<1>10. \A h \in Page : Settled(h)' <=> Settled(h)
  <2>1. ~ Settled(g)
    BY DEF Settled, Blank
  <2>2. ~ Settled(g)'
    BY <1>3, <1>7 DEF Settled, Holding
  <2>3. ASSUME NEW h \in Page, h # g PROVE Settled(h)' <=> Settled(h)
    <3>1. page'[h] = page[h] /\ (page[h] # None => page[h] \in Struct)
      BY <1>1, <1>7, <2>3 DEF TypeOK
    <3>2. CASE page[h] = None \/ page[h].thread = None
      BY <3>1, <3>2 DEF Settled
    <3>3. CASE page[h] # None /\ page[h].thread = p
      BY <1>3, <1>4, <2>3, <3>1, <3>3 DEF Settled, Holding
    <3>4. CASE page[h] # None /\ page[h].thread \in Process \ {p}
      BY <1>3, <1>4, <3>1, <3>4 DEF Settled, Holding
    <3> QED BY <3>1, <3>2, <3>3, <3>4 DEF Struct
  <2> QED BY <2>1, <2>2, <2>3
<1>11. \A h \in Page : Settled(h) => h # g /\ page[h].kaddr \in Frame \ pool
  BY DEF Inv, OneToOne, Settled, Blank
<1>12. (Goal(p) /\ Underway(p) /\ VictimKnown(p))'
  <2>1. Goal(p)'
    BY <1>3, <1>5, <1>6 DEF Goal
  <2>2. "link" \notin Wanting /\ f \in Frame \ pool'
    BY <1>1, <1>2 DEF Wanting
  <2>3. \A h \in Page : Settled(h)' => page'[h].kaddr # f
    BY <1>2, <1>7, <1>10, <1>11
  <2>4. goal[p].kind # "fault" => memory'[f] = Content(p, v, Initial)
    BY <1>1, <1>2 DEF TypeOK
  <2>5. page'[g] # None
    BY <1>2, <1>7, PagingAssumption DEF Struct
  <2>6. Underway(p)'
    BY <1>3, <1>7, <2>2, <2>3, <2>4, <2>5 DEF Underway
  <2> QED BY <1>3, <2>1, <2>6 DEF VictimKnown
<1>13. OneToOne'
  BY <1>1, <1>3, <1>5, <1>7, <1>10, <1>11, SameOwners DEF Inv
<1>14. \A q \in Process, u \in Vaddr : Mapped(q, u) => memory'[pte[q][u].frame] = memory[pte[q][u].frame]
  BY <1>1, <1>2, FrameOfOne, PagingAssumption DEF Inv, TypeOK
<1>15. \A q \in Process, u \in Vaddr : Away(q, u)' <=> Away(q, u)
  BY <1>3, <1>5 DEF Away, InTransit
<1>16. Kept' /\ SlotsOneToOne'
  BY <1>1, <1>3, <1>4, <1>5, <1>14, <1>15, SameContents DEF Inv
<1> QED BY <1>3, <1>8, <1>9, <1>12, <1>13, <1>16, OwnFault DEF Inv

LEMMA NewPageKeeps ==
  ASSUME NEW p \in Process, Inv, Alone(p), NewPage(p)
  PROVE  Inv'
<1> DEFINE g == Head(heap)
<1>1. /\ TypeOK /\ HeapFree /\ pc[p] = "alloc"
      /\ heap # <<>> /\ heap' = Tail(heap)
      /\ new' = [new EXCEPT ![p] = g]
      /\ UNCHANGED <<goal, vm_state, next, prev, hand, lru_lock, swap_bitmap, disk, panic>>
      /\ IF pool # {}
         THEN TakeFrame(p, g)
         ELSE /\ page' = [page EXCEPT ![g] = [kaddr |-> None, vme |-> None, thread |-> None]]
              /\ Goto(p, "lock")
              /\ UNCHANGED <<pool, memory>>
  BY DEF Inv, NewPage
<1>2. heap \in Seq(Page)
  BY <1>1 DEF TypeOK
<1>3. /\ g \in Page /\ page[g] = None
      /\ heap' \in Seq(Page)
      /\ \A i \in DOMAIN heap' : page[heap'[i]] = None /\ heap'[i] # g
      /\ \A i, j \in DOMAIN heap' : heap'[i] = heap'[j] => i = j
  BY <1>1, <1>2, HeapHead
<1> HIDE DEF g
<1>4. new' \in [Process -> Page \cup {None}] /\ new'[p] = g
  BY <1>1, <1>3 DEF TypeOK
<1>5. CASE pool # {}
  BY <1>1, <1>3, <1>4, <1>5, TakeKeeps
<1>6. CASE pool = {}
  <2> USE DEF vm_state
  <2>1. pc' = [pc EXCEPT ![p] = "lock"] /\ page' = [page EXCEPT ![g] = Blank] /\ UNCHANGED <<pool, memory>>
    BY <1>1, <1>6 DEF Goto, Blank
  <2>2. /\ Alone(p)' /\ OneFault' /\ pc' \in [Process -> Label] /\ pc'[p] = "lock"
        /\ \A q \in Process : q # p => pc'[q] = pc[q] /\ pc[q] \in {"new", "user", "dead"}
        /\ \A h : ~ Freeing(h) /\ ~ Freeing(h)'
        /\ \A q, u : ~ Leaving(q, u) /\ ~ Leaving(q, u)'
    BY <1>1, <2>1, OnlyOne DEF Label
  <2>3. \A q \in Process : Alive(q)' <=> Alive(q)
    BY <1>1, <2>2 DEF Alive
  <2>4. \A q \in Process, u \in Vaddr : Mapped(q, u)' <=> Mapped(q, u)
    BY <1>1 DEF Mapped
  <2>5. page'[g] = Blank /\ \A h \in Page : h # g => page'[h] = page[h]
    BY <1>1, <2>1, <1>3 DEF TypeOK
  <2>6. Blank \in Struct /\ Blank.thread = None
    BY DEF Blank, Struct
  <2>7. TypeOK'
    BY <1>1, <1>3, <1>4, <2>1, <2>2, <2>6 DEF TypeOK
  <2>8. HeapFree' /\ Empty'
    <3>1. HeapFree'
      BY <1>3, <2>5 DEF HeapFree
    <3>2. \A q \in Process : q # None
      BY PagingAssumption
    <3> QED BY <1>1, <2>2, <2>3, <2>4, <2>5, <2>6, <3>1, <3>2 DEF Inv, Empty
  <2>9. \A h \in Page : Settled(h)' <=> Settled(h)
    <3>1. \A q \in Process : pc'[q] \notin Holding \cup {"refused"} /\ pc[q] \notin Holding \cup {"refused"}
      BY <1>1, <2>2 DEF Holding
    <3> QED BY <1>1, <1>3, <2>3, <2>5, <2>6, <3>1 DEF Settled, TypeOK, Struct
  <2>10. (Goal(p) /\ Underway(p) /\ VictimKnown(p))'
    <3>1. Goal(p)'
      BY <1>1, <2>2, <2>4 DEF Inv, Goal, AtRest
    <3>2. "lock" \notin Holding
      BY DEF Holding
    <3> QED BY <1>3, <1>4, <2>2, <2>5, <3>1, <3>2 DEF Underway, VictimKnown
  <2>11. \A h \in Page : Settled(h) => h # g /\ page'[h] = page[h] /\ page[h].kaddr \notin pool'
    BY <1>3, <2>1, <2>5 DEF Inv, OneToOne, Settled
  <2>12. OneToOne'
    BY <1>1, <2>2, <2>4, <2>9, <2>11, SameOwners DEF Inv
  <2>13. \A q \in Process, u \in Vaddr : Away(q, u)' <=> Away(q, u)
    BY <1>1, <2>2, <2>4 DEF Away, InTransit
  <2>14. Kept' /\ SlotsOneToOne'
    BY <1>1, <2>1, <2>2, <2>3, <2>4, <2>13, SameContents DEF Inv
  <2> QED BY <2>2, <2>7, <2>8, <2>10, <2>12, <2>14, OwnFault DEF Inv
<1> QED BY <1>5, <1>6

LEMMA RetryKeeps ==
  ASSUME NEW p \in Process, Inv, Alone(p), Retry(p)
  PROVE  Inv'
<1>1. pc[p] = "retry" /\ TypeOK /\ Alive(p)
  BY DEF Inv, Retry, Alive
<1>2. CASE Exit(p)
  BY <1>1, <1>2, ExitKeeps
<1>3. CASE pool # {} /\ TakeFrame(p, new[p])
        /\ UNCHANGED <<goal, new, vm_state, heap, next, prev, hand, lru_lock, swap_bitmap, disk, panic>>
  <2>1. new[p] \in Page /\ page[new[p]] = Blank /\ Blank # None
    <3>1. new[p] \in Page /\ page[new[p]] = Blank
      BY <1>1 DEF Inv, Underway, Wanting
    <3> QED BY <3>1, PagingAssumption DEF Blank, Struct
  <2>2. /\ heap' \in Seq(Page) /\ new' \in [Process -> Page \cup {None}] /\ new'[p] = new[p]
        /\ \A i \in DOMAIN heap' : page[heap'[i]] = None
        /\ \A i, j \in DOMAIN heap' : heap'[i] = heap'[j] => i = j
    BY <1>1, <1>3 DEF Inv, HeapFree, TypeOK
  <2>3. \A i \in DOMAIN heap' : heap'[i] # new[p]
    BY <2>1, <2>2
  <2> QED BY <1>1, <1>3, <2>1, <2>2, <2>3, TakeKeeps
<1> QED BY <1>2, <1>3 DEF Retry

-----------------------------------------------------------------------------
(* try_to_free_pages.                                                      *)

\* What the clock chose is mapped where its vme says, until it is unmapped.
LEMMA VictimHeld ==
  ASSUME NEW p \in Process, Inv, Alone(p), pc[p] \in {"swap", "unmap"}
  PROVE  /\ hand \in Page /\ Settled(hand) /\ Victim \in Struct
         /\ Victim.thread \in Process /\ Victim.vme \in Vaddr /\ Victim.kaddr \in Frame \ pool
         /\ AddrOf(hand) = Victim.vme
         /\ Mapped(Victim.thread, Victim.vme)
         /\ pte[Victim.thread][Victim.vme].frame = Victim.kaddr
         /\ vm[Victim.thread][Victim.vme] \in Entry
<1>1. hand \in Page /\ Settled(hand) /\ page[hand].vme # None
  BY DEF Inv, VictimKnown
<1>2. ~ Freeing(hand)
  BY DEF Alone, AtRest, Freeing
<1>3. Victim \in Struct /\ Victim.thread \in Process /\ Victim.vme \in Vaddr
  <2>1. page[hand] \in Struct /\ page[hand].thread # None
    BY <1>1 DEF Settled, Inv, TypeOK
  <2> QED BY <1>1, <2>1 DEF Struct, Victim
<1>4. AddrOf(hand) = Victim.vme
  BY <1>1 DEF AddrOf, Victim
<1>5. Victim.kaddr \in Frame \ pool /\ Holds(hand, Victim.thread, Victim.vme)
  BY <1>1, <1>2, <1>4 DEF Inv, OneToOne, Victim
<1>6. Mapped(Victim.thread, Victim.vme) /\ pte[Victim.thread][Victim.vme].frame = Victim.kaddr
  BY <1>5 DEF Holds, Victim
<1>7. vm[Victim.thread][Victim.vme] # None
  BY <1>3, <1>6 DEF Inv, Kept
<1> QED BY <1>1, <1>3, <1>4, <1>5, <1>6, <1>7 DEF Inv, TypeOK

LEMMA SwapOutKeeps ==
  ASSUME NEW p \in Process, Inv, Alone(p), SwapOut(p)
  PROVE  Inv'
<1> USE DEF list
<1> DEFINE s == Lowest(Slot \ swap_bitmap)
<1>1. /\ TypeOK /\ pc[p] = "swap"
      /\ UNCHANGED <<goal, new, pte, truth, list, lru_lock, pool, memory>>
  BY DEF Inv, SwapOut
<1>2. PICK q \in Process, v \in Vaddr :
        /\ q = Victim.thread /\ v = Victim.vme
        /\ hand \in Page /\ Settled(hand) /\ Victim.kaddr \in Frame \ pool
        /\ Mapped(q, v) /\ pte[q][v].frame = Victim.kaddr /\ vm[q][v] \in Entry
        /\ memory[Victim.kaddr] = truth[q][v]
  <2>1. /\ hand \in Page /\ Settled(hand) /\ Victim.kaddr \in Frame \ pool
        /\ Victim.thread \in Process /\ Victim.vme \in Vaddr
        /\ Mapped(Victim.thread, Victim.vme)
        /\ pte[Victim.thread][Victim.vme].frame = Victim.kaddr
        /\ vm[Victim.thread][Victim.vme] \in Entry
    BY <1>1, VictimHeld
  <2>2. memory[pte[Victim.thread][Victim.vme].frame] = truth[Victim.thread][Victim.vme]
    BY <2>1 DEF Inv, Kept
  <2> QED BY <2>1, <2>2
<1>3. CASE pc' = pc
  <2>1. UNCHANGED <<pc, goal, new, vm_state, list, lru_lock, store>>
    <3>1. pc'[p] = pc[p]
      BY <1>3
    <3>2. UNCHANGED <<vm, swap_bitmap, disk>>
      BY <1>1, <3>1 DEF SwapOut, Goto, TypeOK
    <3> QED BY <1>1, <1>3, <3>2 DEF vm_state, store
  <2> QED BY <2>1, PanicKeeps
<1>4. CASE pc' # pc
  <2>1. /\ pc' = [pc EXCEPT ![p] = "unmap"]
        /\ \/ ~ NeedsSwap(q, v) /\ UNCHANGED <<vm, swap_bitmap, disk>>
           \/ /\ NeedsSwap(q, v) /\ swap_bitmap # Slot
              /\ vm' = [vm EXCEPT ![q][v] = [type |-> "anon", swap_slot |-> s]]
              /\ swap_bitmap' = swap_bitmap \cup {s}
              /\ disk' = [disk EXCEPT ![s] = memory[Victim.kaddr]]
    BY <1>2, <1>4 DEF SwapOut, Goto
  <2>2. swap_bitmap # Slot => s \in Slot /\ s \notin swap_bitmap
    <3>1. (Slot \ swap_bitmap) \in SUBSET Nat /\ swap_bitmap \subseteq Slot
      BY <1>1, PagingAssumption DEF TypeOK
    <3> QED BY <3>1, LowestIn
  <2> HIDE DEF s
  <2>3. /\ Alone(p)' /\ OneFault' /\ pc' \in [Process -> Label] /\ pc'[p] = "unmap"
        /\ \A r \in Process : r # p => pc'[r] = pc[r] /\ pc[r] \in {"new", "user", "dead"}
        /\ \A h : ~ Freeing(h) /\ ~ Freeing(h)'
        /\ \A r, u : ~ Leaving(r, u)
        /\ \A r, u : Leaving(r, u)' <=> q = r /\ v = u
    <3>1. "unmap" \in Label
      BY DEF Label
    <3>2. page[hand].thread = q /\ page[hand].vme = v /\ page'[hand'].thread = q /\ page'[hand'].vme = v
      BY <1>1, <1>2 DEF Victim
    <3>3. TypeOK /\ pc[p] = "swap" /\ pc' = [pc EXCEPT ![p] = "unmap"]
      BY <1>1, <2>1
    <3>4. /\ Alone(p)' /\ OneFault' /\ pc' \in [Process -> Label] /\ pc'[p] = "unmap"
          /\ \A r \in Process : r # p => pc'[r] = pc[r] /\ pc[r] \in {"new", "user", "dead"}
      BY <3>1, <3>3, OnlyOne
    <3>5. \A h : Freeing(h) <=> hand = h /\ pc[p] = "free"
      BY <3>1, <3>3, OnlyOne
    <3>6. \A h : Freeing(h)' <=> hand' = h /\ "unmap" = "free"
      BY <3>1, <3>3, OnlyOne
    <3>7. \A r, u : Leaving(r, u) <=> pc[p] = "unmap" /\ page[hand].thread = r /\ page[hand].vme = u
      BY <3>1, <3>3, OnlyOne
    <3>8. \A r, u : Leaving(r, u)' <=> "unmap" = "unmap" /\ page'[hand'].thread = r /\ page'[hand'].vme = u
      BY <3>1, <3>3, OnlyOne
    <3> QED BY <3>2, <3>3, <3>4, <3>5, <3>6, <3>7, <3>8
  <2>4. \A r \in Process : Alive(r)' <=> Alive(r)
    BY <1>1, <2>3 DEF Alive
  <2>5. \A r \in Process, u \in Vaddr : Mapped(r, u)' <=> Mapped(r, u)
    BY <1>1 DEF Mapped
  <2>6. \A r \in Process, u \in Vaddr : ~ (r = q /\ u = v) => vm'[r][u] = vm[r][u]
    BY <1>1, <1>2, <2>1 DEF TypeOK
  <2>7. NeedsSwap(q, v) =>
          /\ s \in Slot /\ s \notin swap_bitmap /\ swap_bitmap' = swap_bitmap \cup {s}
          /\ vm'[q][v] = [type |-> "anon", swap_slot |-> s]
          /\ disk'[s] = truth[q][v] /\ \A t \in Slot : t # s => disk'[t] = disk[t]
    BY <1>1, <1>2, <2>1, <2>2 DEF TypeOK
  <2>8. ~ NeedsSwap(q, v) => UNCHANGED <<vm, swap_bitmap, disk>>
    BY <2>1
  <2>9. [type |-> "anon", swap_slot |-> s] \in Entry \/ ~ NeedsSwap(q, v)
    BY <2>7 DEF Entry
  <2>10. TypeOK'
    <3>1. vm' \in [Process -> [Vaddr -> Entry \cup {None}]]
      <4>1. vm \in [Process -> [Vaddr -> Entry \cup {None}]]
        BY <1>1 DEF TypeOK
      <4>2. CASE NeedsSwap(q, v)
        <5>1. vm' = [vm EXCEPT ![q] = [vm[q] EXCEPT ![v] = [type |-> "anon", swap_slot |-> s]]]
          BY <2>1, <4>2
        <5>2. [vm[q] EXCEPT ![v] = [type |-> "anon", swap_slot |-> s]] \in [Vaddr -> Entry \cup {None}]
          BY <2>9, <4>1, <4>2
        <5> QED BY <4>1, <5>1, <5>2
      <4> QED BY <2>8, <4>1, <4>2
    <3>2. swap_bitmap' \subseteq Slot
      BY <1>1, <2>7, <2>8 DEF TypeOK
    <3>3. disk' \in [Slot -> Contents]
      BY <1>1, <1>2, <2>1 DEF TypeOK
    <3> QED BY <1>1, <2>3, <3>1, <3>2, <3>3 DEF TypeOK
  <2>11. \A r \in Process : pc'[r] = "new" <=> pc[r] = "new"
    BY <1>1, <2>3
  <2>12. HeapFree' /\ Empty'
    <3>1. HeapFree'
      BY <1>1 DEF Inv, HeapFree
    <3>2. Alive(q)
      BY <1>2 DEF Settled, Victim
    <3> QED BY <1>1, <2>4, <2>5, <2>6, <2>11, <3>1, <3>2 DEF Inv, Empty
  <2>13. \A h \in Page : Settled(h)' <=> Settled(h)
    <3>1. \A r \in Process : pc'[r] \notin Holding \cup {"refused"} /\ pc[r] \notin Holding \cup {"refused"}
      BY <1>1, <2>3 DEF Holding
    <3> QED BY <1>1, <2>4, <3>1 DEF Settled, TypeOK, Struct
  <2>14. OneToOne'
    BY <1>1, <2>3, <2>5, <2>13, SameOwners DEF Inv, OneToOne
  <2>15. (Goal(p) /\ Underway(p) /\ VictimKnown(p))'
    <3>1. Goal(p) /\ Underway(p) /\ VictimKnown(p) /\ ~ AtRest(p)
      BY <1>1 DEF Inv, AtRest
    <3>2. vm'[q][v] # None
      BY <1>2, <2>7, <2>8, <2>9, PagingAssumption
    <3>3. Goal(p)'
      BY <1>1, <1>2, <2>3, <2>5, <2>6, <3>1, <3>2 DEF Goal
    <3>4. Underway(p)'
      BY <1>1, <2>3, <3>1 DEF Underway, Wanting, Holding
    <3>5. VictimKnown(p)'
      BY <1>1, <2>3, <2>13, <3>1 DEF VictimKnown
    <3> QED BY <3>3, <3>4, <3>5
  <2>16. \A r \in Process, u \in Vaddr : ~ (r = q /\ u = v) => (Away(r, u)' <=> Away(r, u))
    BY <1>1, <2>3, <2>5, <2>6 DEF Away, InTransit
  <2>17. ~ Away(q, v)
    BY <1>2, <2>3 DEF Away
  <2>18. Kept'
    <3>1. ASSUME NEW r \in Process, NEW u \in Vaddr
          PROVE  /\ Mapped(r, u)' => vm'[r][u] # None /\ memory'[pte'[r][u].frame] = truth'[r][u]
                 /\ Away(r, u)' => Saved(r, u)'
                 /\ vm'[r][u] # None /\ vm'[r][u].type = "bin" =>
                      (Mapped(r, u)' /\ pte'[r][u].dirty) \/ truth'[r][u] = Content(r, u, Initial)
                 /\ Alive(r)' /\ u \in Code =>
                      vm'[r][u] # None /\ vm'[r][u].type = "bin" /\ (Mapped(r, u)' => ~ pte'[r][u].dirty)
      <4>1. /\ Mapped(r, u) => vm[r][u] # None /\ memory[pte[r][u].frame] = truth[r][u]
            /\ Away(r, u) => Saved(r, u)
            /\ vm[r][u] # None /\ vm[r][u].type = "bin" =>
                 (Mapped(r, u) /\ pte[r][u].dirty) \/ truth[r][u] = Content(r, u, Initial)
            /\ Alive(r) /\ u \in Code =>
                 vm[r][u] # None /\ vm[r][u].type = "bin" /\ (Mapped(r, u) => ~ pte[r][u].dirty)
        BY DEF Inv, Kept
      <4>2. CASE ~ (r = q /\ u = v)
        <5>1. vm'[r][u] = vm[r][u] /\ (Away(r, u)' <=> Away(r, u))
          BY <2>6, <2>16, <4>2
        <5>2. Saved(r, u) => Saved(r, u)'
          <6>1. CASE ~ NeedsSwap(q, v)
            BY <1>1, <2>8, <6>1 DEF Saved
          <6>2. CASE NeedsSwap(q, v) /\ vm[r][u].type = "anon"
            <7>1. Saved(r, u) => vm[r][u].swap_slot \in swap_bitmap /\ vm[r][u].swap_slot \in Slot
              BY <1>1, <6>2 DEF Saved, TypeOK
            <7> QED BY <1>1, <2>7, <5>1, <6>2, <7>1 DEF Saved
          <6>3. CASE NeedsSwap(q, v) /\ vm[r][u].type # "anon"
            BY <1>1, <5>1, <6>3 DEF Saved
          <6> QED BY <6>1, <6>2, <6>3
        <5> QED BY <1>1, <2>4, <2>5, <4>1, <5>1, <5>2
      <4>3. CASE r = q /\ u = v
        <5>1. CASE NeedsSwap(q, v)
          <6>1. v \notin Code
            <7>1. Alive(q)
              BY <1>2 DEF Settled, Victim
            <7> QED BY <1>2, <4>1, <4>3, <5>1, <7>1 DEF NeedsSwap
          <6>2. vm'[q][v].type = "anon" /\ vm'[q][v].swap_slot = s /\ vm'[q][v] # None
            BY <2>7, <2>9, <5>1, PagingAssumption
          <6>3. Saved(q, v)'
            BY <1>1, <2>7, <5>1, <6>2 DEF Saved
          <6> QED BY <1>1, <2>5, <4>1, <4>3, <6>1, <6>2, <6>3
        <5>2. CASE ~ NeedsSwap(q, v)
          <6>1. vm[q][v].type = "bin" /\ ~ pte[q][v].dirty /\ vm[q][v] # None
            BY <1>2, <5>2, PagingAssumption DEF NeedsSwap, Entry
          <6>2. truth[q][v] = Content(q, v, Initial)
            BY <4>1, <4>3, <6>1
          <6>3. Saved(q, v)'
            BY <1>1, <2>8, <5>2, <6>1, <6>2 DEF Saved
          <6> QED BY <1>1, <2>4, <2>5, <2>8, <4>1, <4>3, <5>2, <6>3
        <5> QED BY <5>1, <5>2
      <4> QED BY <4>2, <4>3
    <3> QED BY <3>1 DEF Kept
  <2>19. SlotsOneToOne'
    <3>1. \A r \in Process, u \in Vaddr : ~ (r = q /\ u = v) => (Swapped(r, u)' <=> Swapped(r, u))
      BY <2>6, <2>16 DEF Swapped
    <3>2. ~ Swapped(q, v)
      BY <2>17 DEF Swapped
    <3>3. ~ NeedsSwap(q, v) => ~ Swapped(q, v)'
      BY <2>8 DEF Swapped, NeedsSwap
    <3>4. NeedsSwap(q, v) => Swapped(q, v)' /\ vm'[q][v].swap_slot = s
      <4>1. NeedsSwap(q, v) => vm'[q][v] # None
        BY <2>7, <2>9, PagingAssumption
      <4> QED BY <2>3, <2>7, <4>1 DEF Swapped, Away
    <3>5. \A r \in Process, u \in Vaddr : Swapped(r, u) => vm[r][u].swap_slot \in swap_bitmap
      BY DEF Inv, Kept, Swapped, Saved
    <3>6. (\A r \in Process : pc'[r] # "dead") => \A r \in Process : pc[r] # "dead"
      BY <1>1, <2>3
    <3>7. \A r1, r2 \in Process, u1, u2 \in Vaddr :
             Swapped(r1, u1)' /\ Swapped(r2, u2)' /\ vm'[r1][u1].swap_slot = vm'[r2][u2].swap_slot
               => r1 = r2 /\ u1 = u2
      <4> SUFFICES ASSUME NEW r1 \in Process, NEW r2 \in Process, NEW u1 \in Vaddr, NEW u2 \in Vaddr,
                          Swapped(r1, u1)', Swapped(r2, u2)',
                          vm'[r1][u1].swap_slot = vm'[r2][u2].swap_slot
                   PROVE  r1 = r2 /\ u1 = u2
        OBVIOUS
      <4>1. CASE ~ (r1 = q /\ u1 = v) /\ ~ (r2 = q /\ u2 = v)
        BY <2>6, <3>1, <4>1 DEF Inv, SlotsOneToOne
      <4>2. CASE (r1 = q /\ u1 = v) /\ ~ (r2 = q /\ u2 = v)
        BY <2>6, <2>7, <3>1, <3>3, <3>4, <3>5, <4>2
      <4>3. CASE ~ (r1 = q /\ u1 = v) /\ (r2 = q /\ u2 = v)
        BY <2>6, <2>7, <3>1, <3>3, <3>4, <3>5, <4>3
      <4> QED BY <4>1, <4>2, <4>3
    <3>8. ASSUME \A r \in Process : pc'[r] # "dead", NEW t \in swap_bitmap'
          PROVE  \E r \in Process, u \in Vaddr : Swapped(r, u)' /\ vm'[r][u].swap_slot = t
      <4>1. CASE t \in swap_bitmap
        <5>1. PICK r \in Process, u \in Vaddr : Swapped(r, u) /\ vm[r][u].swap_slot = t
          BY <3>6, <3>8, <4>1 DEF Inv, SlotsOneToOne
        <5> QED BY <2>6, <3>1, <3>2, <5>1
      <4>2. CASE t \notin swap_bitmap
        <5>1. NeedsSwap(q, v) /\ t = s
          BY <2>7, <2>8, <3>8, <4>2
        <5> QED BY <1>2, <3>4, <5>1
      <4> QED BY <4>1, <4>2
    <3> QED BY <3>7, <3>8 DEF SlotsOneToOne
  <2> QED BY <2>3, <2>10, <2>12, <2>14, <2>15, <2>18, <2>19, OwnFault DEF Inv
<1> QED BY <1>3, <1>4

LEMMA UnmapKeeps ==
  ASSUME NEW p \in Process, Inv, Alone(p), Unmap(p)
  PROVE  Inv'
<1> USE DEF list, store
<1>1. /\ TypeOK /\ pc[p] = "unmap" /\ pc' = [pc EXCEPT ![p] = "free"]
      /\ pte' = [pte EXCEPT ![Victim.thread][Victim.vme].present = FALSE]
      /\ UNCHANGED <<goal, new, vm, truth, list, lru_lock, store>>
  BY DEF Inv, Unmap, Goto
<1>2. PICK q \in Process, v \in Vaddr :
        /\ q = Victim.thread /\ v = Victim.vme
        /\ hand \in Page /\ Settled(hand) /\ AddrOf(hand) = v
        /\ Mapped(q, v) /\ pte[q][v].frame = Victim.kaddr
  BY <1>1, VictimHeld
<1>3. page[hand].thread = q /\ page[hand].vme = v /\ page[hand].kaddr = Victim.kaddr
  BY <1>2 DEF Victim
<1>4. /\ Alone(p)' /\ OneFault' /\ pc' \in [Process -> Label] /\ pc'[p] = "free"
      /\ \A r \in Process : r # p => pc'[r] = pc[r] /\ pc[r] \in {"new", "user", "dead"}
      /\ \A h : ~ Freeing(h)
      /\ \A h : Freeing(h)' <=> hand = h
      /\ \A r, u : Leaving(r, u) <=> q = r /\ v = u
      /\ \A r, u : ~ Leaving(r, u)'
  <2>1. "free" \in Label
    BY DEF Label
  <2>2. hand' = hand /\ "unmap" # "free" /\ pc[p] # "free"
    BY <1>1
  <2>3. /\ \A h : Freeing(h) <=> hand = h /\ pc[p] = "free"
        /\ \A h : Freeing(h)' <=> hand' = h /\ "free" = "free"
        /\ \A r, u : Leaving(r, u) <=> pc[p] = "unmap" /\ page[hand].thread = r /\ page[hand].vme = u
        /\ \A r, u : Leaving(r, u)' <=> "free" = "unmap" /\ page'[hand'].thread = r /\ page'[hand'].vme = u
    BY <1>1, <2>1, OnlyOne
  <2>4. /\ Alone(p)' /\ OneFault' /\ pc' \in [Process -> Label] /\ pc'[p] = "free"
        /\ \A r \in Process : r # p => pc'[r] = pc[r] /\ pc[r] \in {"new", "user", "dead"}
    BY <1>1, <2>1, OnlyOne
  <2> QED BY <1>1, <1>3, <2>2, <2>3, <2>4
<1>5. \A r \in Process : (Alive(r)' <=> Alive(r)) /\ (pc'[r] = "new" <=> pc[r] = "new")
  BY <1>1, <1>4 DEF Alive
<1>6. /\ \A r \in Process, u \in Vaddr : ~ (r = q /\ u = v) => pte'[r][u] = pte[r][u]
      /\ \A r \in Process, u \in Vaddr : Mapped(r, u)' <=> Mapped(r, u) /\ ~ (r = q /\ u = v)
      /\ pte' \in [Process -> [Vaddr -> PTE]]
      /\ \A r \in Process, u \in Vaddr : pte'[r][u].frame = pte[r][u].frame /\ pte'[r][u].dirty = pte[r][u].dirty
  <2>1. pte \in [Process -> [Vaddr -> PTE]]
    BY <1>1 DEF TypeOK, PTE
  <2>2. pte' \in [Process -> [Vaddr -> PTE]]
    <3>1. pte' = [pte EXCEPT ![q][v].present = FALSE]
      BY <1>1, <1>2
    <3> QED BY <2>1, <3>1, SetBit
  <2>3. /\ \A r \in Process, u \in Vaddr : ~ (r = q /\ u = v) => pte'[r][u] = pte[r][u]
        /\ pte'[q][v] = [pte[q][v] EXCEPT !.present = FALSE]
    BY <1>1, <1>2, <2>1
  <2>4. pte'[q][v].present = FALSE /\ pte'[q][v].frame = pte[q][v].frame /\ pte'[q][v].dirty = pte[q][v].dirty
    BY <2>1, <2>3 DEF PTE
  <2> QED BY <2>2, <2>3, <2>4 DEF Mapped
<1>7. TypeOK'
  BY <1>1, <1>4, <1>6 DEF TypeOK, PTE
<1>8. HeapFree' /\ Empty'
  BY <1>1, <1>5, <1>6 DEF Inv, HeapFree, Empty
<1>9. \A h \in Page : Settled(h)' <=> Settled(h)
  <2>1. \A r \in Process : pc'[r] \notin Holding \cup {"refused"} /\ pc[r] \notin Holding \cup {"refused"}
    BY <1>1, <1>4 DEF Holding
  <2> QED BY <1>1, <1>5, <2>1 DEF Settled, TypeOK, Struct
<1>10. (Goal(p) /\ Underway(p) /\ VictimKnown(p))'
  <2>1. Goal(p) /\ Underway(p) /\ VictimKnown(p) /\ ~ AtRest(p)
    BY <1>1 DEF Inv, AtRest
  <2>2. Goal(p)'
    BY <1>1, <1>4, <1>6, <2>1 DEF Goal
  <2>3. Underway(p)'
    BY <1>1, <1>4, <2>1 DEF Underway, Wanting, Holding
  <2>4. VictimKnown(p)'
    BY <1>1, <1>2, <1>3, <1>4, <1>6, <1>9, <2>1 DEF VictimKnown
  <2> QED BY <2>2, <2>3, <2>4
<1>11. OneToOne'
  <2>1. \A g \in Page, r \in Process, u \in Vaddr :
          Holds(g, r, u)' <=> Holds(g, r, u) /\ ~ (r = q /\ u = v)
    BY <1>1, <1>6 DEF Holds, AddrOf
  <2>2. ASSUME NEW g \in Page, Settled(g)', ~ Freeing(g)'
        PROVE  Holds(g, page[g].thread, AddrOf(g))'
    <3>1. Settled(g) /\ g # hand
      BY <1>4, <1>9, <2>2
    <3>2. page[g].thread \in Process /\ AddrOf(g) \in Vaddr /\ AddrOf(g)' = AddrOf(g)
      <4>1. page[g] \in Struct /\ page[g].thread # None
        BY <1>1, <3>1 DEF Settled, TypeOK
      <4> QED BY <1>1, <4>1 DEF Struct, AddrOf, Vaddr
    <3>3. Holds(g, page[g].thread, AddrOf(g))
      BY <1>4, <3>1 DEF Inv, OneToOne
    <3>4. ~ (page[g].thread = q /\ AddrOf(g) = v)
      BY <1>2, <1>3, <3>1, <3>3 DEF Inv, OneToOne, Holds
    <3> QED BY <1>1, <2>1, <3>2, <3>3, <3>4
  <2>3. ASSUME NEW r \in Process, NEW u \in Vaddr, Mapped(r, u)'
        PROVE  \E g \in Page : Settled(g)' /\ ~ Freeing(g)' /\ Holds(g, r, u)'
    <3>1. Mapped(r, u) /\ ~ (r = q /\ u = v)
      BY <1>6, <2>3
    <3>2. PICK g \in Page : Settled(g) /\ Holds(g, r, u)
      BY <3>1 DEF Inv, OneToOne
    <3>3. g # hand
      BY <1>2, <1>3, <3>1, <3>2 DEF Holds
    <3> QED BY <1>4, <1>9, <2>1, <3>1, <3>2, <3>3
  <2> QED BY <1>1, <1>9, <2>2, <2>3 DEF Inv, OneToOne
<1>12. \A r \in Process, u \in Vaddr : Away(r, u)' <=> Away(r, u)
  BY <1>1, <1>4, <1>6 DEF Away, InTransit
<1>13. \A r \in Process, u \in Vaddr : Saved(r, u)' <=> Saved(r, u)
  BY <1>1 DEF Saved
<1>14. Away(q, v)
  <2>1. vm[q][v] # None
    BY <1>2 DEF Inv, Kept
  <2> QED BY <1>4, <2>1 DEF Away
<1>15. Kept'
  <2>1. ASSUME NEW r \in Process, NEW u \in Vaddr
        PROVE  /\ Mapped(r, u)' => vm'[r][u] # None /\ memory'[pte'[r][u].frame] = truth'[r][u]
               /\ Away(r, u)' => Saved(r, u)'
               /\ vm'[r][u] # None /\ vm'[r][u].type = "bin" =>
                    (Mapped(r, u)' /\ pte'[r][u].dirty) \/ truth'[r][u] = Content(r, u, Initial)
               /\ Alive(r)' /\ u \in Code =>
                    vm'[r][u] # None /\ vm'[r][u].type = "bin" /\ (Mapped(r, u)' => ~ pte'[r][u].dirty)
    <3>1. /\ Mapped(r, u) => vm[r][u] # None /\ memory[pte[r][u].frame] = truth[r][u]
          /\ Away(r, u) => Saved(r, u)
          /\ vm[r][u] # None /\ vm[r][u].type = "bin" =>
               (Mapped(r, u) /\ pte[r][u].dirty) \/ truth[r][u] = Content(r, u, Initial)
          /\ Alive(r) /\ u \in Code =>
               vm[r][u] # None /\ vm[r][u].type = "bin" /\ (Mapped(r, u) => ~ pte[r][u].dirty)
      BY DEF Inv, Kept
    <3>2. vm[q][v].type = "bin" => truth[q][v] = Content(q, v, Initial)
      <4>1. Saved(q, v)
        BY <1>14 DEF Inv, Kept
      <4> QED BY <4>1 DEF Saved
    <3>3. /\ Mapped(r, u)' => Mapped(r, u) /\ ~ (r = q /\ u = v)
          /\ ~ (r = q /\ u = v) => (Mapped(r, u)' <=> Mapped(r, u)) /\ pte'[r][u] = pte[r][u]
      BY <1>6
    <3>4. (Alive(r)' <=> Alive(r)) /\ (Away(r, u)' => Saved(r, u)')
      BY <1>5, <1>12, <1>13, <3>1
    <3> QED BY <1>1, <3>1, <3>2, <3>3, <3>4
  <2> QED BY <2>1 DEF Kept
<1>16. SlotsOneToOne'
  <2>1. (\A r \in Process : pc'[r] # "dead") => \A r \in Process : pc[r] # "dead"
    BY <1>1, <1>4
  <2> QED BY <1>1, <1>12, <2>1 DEF Inv, SlotsOneToOne, Swapped
<1> QED BY <1>4, <1>7, <1>8, <1>10, <1>11, <1>15, <1>16, OwnFault DEF Inv

Links == [Page \cup {ListHead, ListTail} -> Elem]

LEMMA HandType ==
  ASSUME NEW n \in Links, NEW h \in Elem \cup {None}
  PROVE  NextHand(n, h) \in Elem \cup {None, "assert"}
<1>1. n[ListHead] \in Elem /\ ListHead \in Elem /\ Wild \in Elem
  BY DEF Links, Elem
<1>2. CASE n[ListHead] = ListTail
  BY <1>1, <1>2 DEF NextHand
<1>3. CASE n[ListHead] # ListTail /\ h \in {None, ListTail, Wild}
  BY <1>1, <1>3 DEF NextHand
<1>4. CASE n[ListHead] # ListTail /\ h \notin {None, ListTail, Wild}
  <2>1. n[h] \in Elem
    BY <1>4 DEF Links, Elem
  <2> QED BY <1>1, <1>4, <2>1 DEF NextHand
<1> QED BY <1>2, <1>3, <1>4

\* The links after list_remove and free.
LEMMA UnlinkedType ==
  ASSUME TypeOK, NEW g \in Page
  PROVE  Unlinked(g).next \in Links /\ Unlinked(g).prev \in Links /\ next[g] \in Elem
<1>1. next \in Links /\ prev \in Links /\ next[g] \in Elem /\ prev[g] \in Elem /\ Wild \in Elem
  BY DEF TypeOK, Links, Elem
<1>2. [next EXCEPT ![prev[g]] = next[g], ![g] = Wild] \in Links
  BY <1>1 DEF Links
<1>3. [prev EXCEPT ![next[g]] = prev[g], ![g] = Wild] \in Links
  BY <1>1 DEF Links
<1> QED BY <1>1, <1>2, <1>3 DEF Unlinked

\* free puts a block in front of the others.
LEMMA HeapPut ==
  ASSUME heap \in Seq(Page), HeapFree, NEW g \in Page, page[g] # None,
         page' = [page EXCEPT ![g] = None], page \in [Page -> {None} \cup Struct],
         heap' = <<g>> \o heap
  PROVE  heap' \in Seq(Page) /\ HeapFree'
<1>1. /\ heap' \in Seq(Page) /\ heap'[1] = g /\ Len(heap) \in Nat
      /\ DOMAIN heap = 1 .. Len(heap) /\ DOMAIN heap' = 1 .. Len(heap) + 1
      /\ \A i \in DOMAIN heap : heap[i] \in Page
  OBVIOUS
<1>2. \A i \in DOMAIN heap' : i # 1 => heap'[i] = heap[i - 1] /\ i - 1 \in DOMAIN heap
  BY <1>1
<1>3. page'[g] = None /\ \A h \in Page : h # g => page'[h] = page[h]
  OBVIOUS
<1>4. \A i \in DOMAIN heap : heap[i] # g /\ page'[heap[i]] = None
  BY <1>1, <1>3 DEF HeapFree
<1>5. \A i \in DOMAIN heap' : page'[heap'[i]] = None
  BY <1>1, <1>2, <1>3, <1>4
<1>6. ASSUME NEW i \in DOMAIN heap', NEW j \in DOMAIN heap', heap'[i] = heap'[j] PROVE i = j
  <2>1. CASE i # 1 /\ j # 1
    <3>1. heap[i - 1] = heap[j - 1] /\ i - 1 \in DOMAIN heap /\ j - 1 \in DOMAIN heap
      BY <1>2, <1>6, <2>1
    <3>2. i - 1 = j - 1
      BY <3>1 DEF HeapFree
    <3> QED BY <1>1, <3>2
  <2>2. CASE i = 1 \/ j = 1
    BY <1>1, <1>2, <1>4, <1>6, <2>2
  <2> QED BY <2>1, <2>2
<1> QED BY <1>1, <1>5, <1>6 DEF HeapFree

\* p gives g back, the victim or the page it has set up for an address that is
\* mapped, and no settled page has its frame.
GivesBack(p, g, f, l) ==
  /\ \/ pc[p] = "free" /\ l = "retry" /\ new[p] # g /\ hand = g
     \/ pc[p] = "install" /\ l = "refused" /\ Mapped(p, goal[p].vaddr) /\ ~ Settled(g)
  /\ page[g] # None /\ page[g].kaddr = f
  /\ \A h \in Page : Settled(h) /\ h # g => page[h].kaddr # f

\* A struct page and its frame are given back, by __free_page or by free_page:
\* no program has the frame mapped.
LEMMA ReleaseKeeps ==
  ASSUME NEW p \in Process, NEW g \in Page, NEW f \in Frame, NEW l \in {"retry", "refused"},
         Inv, Alone(p), pc' = [pc EXCEPT ![p] = l],
         GivesBack(p, g, f, l),
         pool' = pool \cup {f}, memory' = [memory EXCEPT ![f] = None],
         page' = [page EXCEPT ![g] = None], heap' = <<g>> \o heap,
         next' \in Links, prev' \in Links, hand' \in Elem \cup {None}, lru_lock' \in Process \cup {None},
         UNCHANGED <<goal, new, vm_state, swap_bitmap, disk>>
  PROVE  Inv'
<1> USE DEF vm_state, GivesBack
<1>1. TypeOK
  BY DEF Inv
<1>2. /\ Alone(p)' /\ OneFault' /\ pc' \in [Process -> Label] /\ pc'[p] = l
      /\ \A q \in Process : q # p => pc'[q] = pc[q] /\ pc[q] \in {"new", "user", "dead"}
      /\ \A h : Freeing(h) <=> hand = h /\ pc[p] = "free"
      /\ \A h : ~ Freeing(h)'
      /\ \A q, u : ~ Leaving(q, u) /\ ~ Leaving(q, u)'
  <2>1. l \in Label /\ l # "free" /\ l # "unmap" /\ pc[p] # "unmap"
    BY DEF Label
  <2>2. /\ \A h : Freeing(h) <=> hand = h /\ pc[p] = "free"
        /\ \A h : Freeing(h)' <=> hand' = h /\ l = "free"
        /\ \A r, u : Leaving(r, u) <=> pc[p] = "unmap" /\ page[hand].thread = r /\ page[hand].vme = u
        /\ \A r, u : Leaving(r, u)' <=> l = "unmap" /\ page'[hand'].thread = r /\ page'[hand'].vme = u
    BY <1>1, <2>1, OnlyOne
  <2>3. /\ Alone(p)' /\ OneFault' /\ pc' \in [Process -> Label] /\ pc'[p] = l
        /\ \A q \in Process : q # p => pc'[q] = pc[q] /\ pc[q] \in {"new", "user", "dead"}
    BY <1>1, <2>1, OnlyOne
  <2> QED BY <2>1, <2>2, <2>3
<1>3. \A q \in Process : (Alive(q)' <=> Alive(q)) /\ (pc'[q] = "new" <=> pc[q] = "new")
  BY <1>2 DEF Alive
<1>4. \A q \in Process, u \in Vaddr : Mapped(q, u)' <=> Mapped(q, u)
  BY DEF Mapped
<1>5. page'[g] = None /\ \A h \in Page : h # g => page'[h] = page[h]
  BY <1>1 DEF TypeOK
<1>6. heap' \in Seq(Page) /\ HeapFree'
  BY <1>1, HeapPut DEF Inv, TypeOK
<1>7. TypeOK'
  <2>1. memory' \in [Frame -> Contents] /\ pool' \subseteq Frame
    BY <1>1 DEF TypeOK, Contents
  <2>2. page' \in [Page -> {None} \cup Struct]
    BY <1>1 DEF TypeOK
  <2> QED BY <1>1, <1>2, <1>6, <2>1, <2>2 DEF TypeOK, Links
<1>8. Empty'
  BY <1>3, <1>4, <1>5 DEF Inv, Empty
<1>9. \A h \in Page : Settled(h)' <=> Settled(h) /\ h # g
  <2>1. \A q \in Process : pc'[q] \in Holding \cup {"refused"} <=> pc[q] \in Holding \cup {"refused"}
    BY <1>2 DEF Holding
  <2> QED BY <1>1, <1>3, <1>5, <2>1 DEF Settled, TypeOK, Struct
<1>10. Settled(g) => Freeing(g)
  BY <1>2
<1>11. ASSUME NEW h \in Page, Settled(h), h # g
       PROVE  /\ page'[h] = page[h] /\ page[h].kaddr \in Frame \ pool' /\ ~ Freeing(h)
              /\ page[h].thread \in Process /\ AddrOf(h) \in Vaddr /\ AddrOf(h)' = AddrOf(h)
              /\ \A q \in Process, u \in Vaddr : Holds(h, q, u)' <=> Holds(h, q, u)
  <2>1. page'[h] = page[h] /\ page[h].kaddr \in Frame \ pool' /\ ~ Freeing(h)
    BY <1>2, <1>5, <1>11 DEF Inv, OneToOne
  <2>2. page[h] \in Struct /\ page[h].thread # None
    BY <1>1, <1>11 DEF Settled, TypeOK
  <2>3. page[h].thread \in Process /\ AddrOf(h) \in Vaddr /\ AddrOf(h)' = AddrOf(h)
    BY <2>1, <2>2 DEF Struct, AddrOf, Vaddr
  <2> QED BY <1>4, <2>1, <2>3 DEF Holds
<1>12. OneToOne'
  <2>1. ASSUME NEW h \in Page, Settled(h)'
        PROVE  page'[h].kaddr \in (Frame \ pool)' /\ Holds(h, page[h].thread, AddrOf(h))'
    <3>1. Settled(h) /\ h # g
      BY <1>9, <2>1
    <3> QED BY <1>11, <3>1 DEF Inv, OneToOne
  <2>2. ASSUME NEW q \in Process, NEW u \in Vaddr, Mapped(q, u)'
        PROVE  \E h \in Page : Settled(h)' /\ Holds(h, q, u)'
    <3>1. PICK h \in Page : Settled(h) /\ ~ Freeing(h) /\ Holds(h, q, u)
      BY <1>4, <2>2 DEF Inv, OneToOne
    <3>2. h # g
      BY <1>10, <3>1
    <3> QED BY <1>9, <1>11, <3>1, <3>2
  <2>3. ASSUME NEW h \in Page, NEW i \in Page, Settled(h)', Settled(i)', page'[h].kaddr = page'[i].kaddr
        PROVE  h = i
    BY <1>5, <1>9, <2>3 DEF Inv, OneToOne
  <2> QED BY <1>2, <2>1, <2>2, <2>3 DEF OneToOne
<1>13. (Goal(p) /\ Underway(p) /\ VictimKnown(p))'
  <2>1. Goal(p) /\ Underway(p) /\ ~ AtRest(p)
    BY DEF Inv, AtRest
  <2>2. Goal(p)'
    BY <1>2, <1>4, <2>1 DEF Goal
  <2>3. Underway(p)'
    <3>1. CASE l = "refused"
      BY <1>2, <3>1 DEF Underway, Wanting, Holding
    <3>2. CASE l = "retry" /\ pc[p] = "free"
      <4>1. new[p] \in Page /\ page[new[p]] = Blank /\ new[p] # g
        BY <2>1, <3>2 DEF Underway, Wanting
      <4> QED BY <1>2, <1>5, <3>2, <4>1 DEF Underway, Holding
    <3> QED BY <3>1, <3>2
  <2>4. VictimKnown(p)'
    BY <1>2 DEF VictimKnown
  <2> QED BY <2>2, <2>3, <2>4
<1>14. \A q \in Process, u \in Vaddr : Mapped(q, u) => memory'[pte[q][u].frame] = memory[pte[q][u].frame]
  <2> SUFFICES ASSUME NEW q \in Process, NEW u \in Vaddr, Mapped(q, u)
               PROVE  memory'[pte[q][u].frame] = memory[pte[q][u].frame]
    OBVIOUS
  <2>1. PICK h \in Page : Settled(h) /\ ~ Freeing(h) /\ Holds(h, q, u)
    BY DEF Inv, OneToOne
  <2>2. pte[q][u].frame \in Frame /\ pte[q][u].frame # f
    BY <1>10, <2>1 DEF Inv, OneToOne, Holds
  <2> QED BY <1>1, <2>2 DEF TypeOK
<1>15. \A q \in Process, u \in Vaddr : Away(q, u)' <=> Away(q, u)
  BY <1>2, <1>4 DEF Away, InTransit
<1>16. Kept' /\ SlotsOneToOne'
  BY <1>2, <1>3, <1>4, <1>14, <1>15, SameContents DEF Inv
<1> QED BY <1>2, <1>6, <1>7, <1>8, <1>12, <1>13, <1>16, OwnFault DEF Inv

LEMMA FreeVictimKeeps ==
  ASSUME NEW p \in Process, Inv, Alone(p), FreeVictim(p)
  PROVE  Inv'
<1> DEFINE n == Unlinked(hand)
           h == NextHand(n.next, next[hand])
<1>1. TypeOK /\ HeapFree /\ pc[p] = "free"
  BY DEF Inv, FreeVictim
<1>2. /\ hand \in Page /\ Settled(hand) /\ page[hand].kaddr \in Frame \ pool
      /\ \A g \in Page : Settled(g) /\ g # hand => page[g].kaddr # page[hand].kaddr
  <2>1. hand \in Page /\ Settled(hand)
    BY <1>1 DEF Inv, VictimKnown
  <2> QED BY <2>1 DEF Inv, OneToOne
<1>3. page[hand] # None /\ new[p] # hand
  <2>1. page[new[p]] = Blank
    BY <1>1 DEF Inv, Underway, Wanting
  <2> QED BY <1>2, <2>1 DEF Settled, Blank
<1>4. CASE Panic("palloc_free") \/ Panic("list_next")
  BY <1>4, PanicKeeps DEF Panic
<1>5. CASE ~ (Panic("palloc_free") \/ Panic("list_next"))
  <2>1. /\ pool' = pool \cup {page[hand].kaddr}
        /\ memory' = [memory EXCEPT ![page[hand].kaddr] = None]
        /\ page' = [page EXCEPT ![hand] = None]
        /\ heap' = <<hand>> \o heap
        /\ next' = n.next /\ prev' = n.prev
        /\ h # "assert" /\ hand' = h
        /\ lru_lock' = None
        /\ pc' = [pc EXCEPT ![p] = "retry"]
        /\ UNCHANGED <<goal, new, vm_state, swap_bitmap, disk>>
    BY <1>5 DEF FreeVictim, Victim, Goto
  <2>2. next' \in Links /\ prev' \in Links /\ hand' \in Elem \cup {None}
    <3>1. n.next \in Links /\ n.prev \in Links /\ next[hand] \in Elem
      BY <1>1, <1>2, UnlinkedType
    <3>2. h \in Elem \cup {None, "assert"}
      BY <3>1, HandType
    <3> QED BY <2>1, <3>1, <3>2
  <2> HIDE DEF n, h
  <2>3. PICK f \in Frame : f = page[hand].kaddr
    BY <1>2
  <2>4. GivesBack(p, hand, f, "retry") /\ hand \in Page
    BY <1>1, <1>2, <1>3, <2>3 DEF GivesBack
  <2>5. /\ pool' = pool \cup {f} /\ memory' = [memory EXCEPT ![f] = None]
        /\ lru_lock' \in Process \cup {None}
    BY <2>1, <2>3
  <2>6. /\ page' = [page EXCEPT ![hand] = None] /\ heap' = <<hand>> \o heap
        /\ pc' = [pc EXCEPT ![p] = "retry"]
        /\ UNCHANGED <<goal, new, vm_state, swap_bitmap, disk>>
    BY <2>1
  <2> QED BY <2>2, <2>3, <2>4, <2>5, <2>6, ReleaseKeeps
<1> QED BY <1>4, <1>5

-----------------------------------------------------------------------------
(* handle_mm_fault, expand_stack and setup_stack with the page they got.   *)

LEMMA SetVmeKeeps ==
  ASSUME NEW p \in Process, Inv, Alone(p), pc[p] = "vme", goal[p].kind = "fault",
         page' = [page EXCEPT ![new[p]].vme = goal[p].vaddr],
         pc' = [pc EXCEPT ![p] = "fill"],
         UNCHANGED <<goal, new, vm_state, heap, next, prev, hand, lru_lock, store>>
  PROVE  Inv'
<1> USE DEF vm_state, store
<1> DEFINE g == new[p]
           v == goal[p].vaddr
<1>1. TypeOK
  BY DEF Inv
<1>2. /\ Alone(p)' /\ OneFault' /\ pc' \in [Process -> Label] /\ pc'[p] = "fill"
      /\ \A q \in Process : q # p => pc'[q] = pc[q] /\ pc[q] \in {"new", "user", "dead"}
      /\ \A h : ~ Freeing(h) /\ ~ Freeing(h)'
      /\ \A q, u : ~ Leaving(q, u) /\ ~ Leaving(q, u)'
  BY <1>1, OnlyOne DEF Label
<1>3. \A q \in Process : (Alive(q)' <=> Alive(q)) /\ (pc'[q] = "new" <=> pc[q] = "new")
  BY <1>2 DEF Alive
<1>4. \A q \in Process, u \in Vaddr : Mapped(q, u)' <=> Mapped(q, u)
  BY DEF Mapped
<1>5. /\ Goal(p) /\ Underway(p) /\ v \in Vaddr /\ pc[p] \in Holding
      /\ goal[p] \in [kind : {"setup", "fault", "grow"}, vaddr : Vaddr]
  BY DEF Inv, Goal, AtRest, Holding
<1>6. /\ g \in Page /\ page[g] # None /\ page[g].thread = p
      /\ page[g].kaddr \in Frame \ pool
      /\ \A h \in Page : Settled(h) => page[h].kaddr # page[g].kaddr
  BY <1>5, InHand
<1>7. page[g] \in Struct
  BY <1>1, <1>6 DEF TypeOK
<1>8. /\ page'[g] \in Struct /\ page'[g] # None
      /\ page'[g].kaddr = page[g].kaddr /\ page'[g].thread = p /\ page'[g].vme = v
      /\ \A h \in Page : h # g => page'[h] = page[h]
  <2>1. page'[g] = [page[g] EXCEPT !.vme = v]
    BY <1>1, <1>6 DEF TypeOK
  <2>2. page'[g] \in Struct
    BY <1>5, <1>7, <2>1 DEF Struct
  <2>3. page'[g].kaddr = page[g].kaddr /\ page'[g].thread = p /\ page'[g].vme = v
    BY <1>6, <1>7, <2>1 DEF Struct
  <2> QED BY <1>1, <2>2, <2>3, <1>6, PagingAssumption DEF TypeOK
<1>9. TypeOK'
  <2>1. page' \in [Page -> {None} \cup Struct]
    BY <1>1, <1>6, <1>8 DEF TypeOK
  <2> QED BY <1>1, <1>2, <2>1 DEF TypeOK
<1>10. HeapFree' /\ Empty'
  <2>1. HeapFree'
    BY <1>6, <1>8, <1>1 DEF Inv, HeapFree, TypeOK
  <2> QED BY <1>3, <1>4, <1>6, <1>8, <2>1 DEF Inv, Empty
<1>11. \A h \in Page : Settled(h)' <=> Settled(h)
  <2>1. \A q \in Process : pc'[q] \in Holding \cup {"refused"} <=> pc[q] \in Holding \cup {"refused"}
    BY <1>2 DEF Holding
  <2>2. "fill" \in Holding
    BY DEF Holding
  <2>3. ~ Settled(g) /\ ~ Settled(g)'
    BY <1>2, <1>5, <1>6, <1>8, <2>2 DEF Settled
  <2>4. \A h \in Page : h # g => (Settled(h)' <=> Settled(h))
    BY <1>1, <1>3, <1>8, <2>1 DEF Settled, TypeOK, Struct
  <2> QED BY <2>3, <2>4
<1>12. \A h \in Page : Settled(h) => h # g /\ page'[h] = page[h] /\ page[h].kaddr \notin pool'
  BY <1>6, <1>8 DEF Inv, OneToOne
<1>13. OneToOne'
  BY <1>1, <1>2, <1>4, <1>11, <1>12, SameOwners DEF Inv
<1>14. (Goal(p) /\ Underway(p) /\ VictimKnown(p))'
  <2>1. Goal(p)'
    BY <1>2, <1>4, <1>5 DEF Goal, AtRest
  <2>2. "fill" \notin Wanting
    BY DEF Wanting
  <2>3. \A h \in Page : Settled(h)' => page'[h].kaddr # page'[g].kaddr
    BY <1>6, <1>8, <1>11, <1>12
  <2>4. Underway(p)'
    BY <1>2, <1>6, <1>8, <2>2, <2>3 DEF Underway
  <2> QED BY <1>2, <2>1, <2>4 DEF VictimKnown
<1>15. \A q \in Process, u \in Vaddr : Away(q, u)' <=> Away(q, u)
  BY <1>2, <1>4 DEF Away, InTransit
<1>16. Kept' /\ SlotsOneToOne'
  BY <1>2, <1>3, <1>4, <1>15, SameContents DEF Inv
<1> QED BY <1>2, <1>9, <1>10, <1>13, <1>14, <1>16, OwnFault DEF Inv

\* The page is filled, from the file or from its slot, which is then free: its
\* frame is nobody's yet.
LEMMA FillKeeps ==
  ASSUME NEW p \in Process, Inv, Alone(p), LoadFile(p) \/ SwapIn(p)
  PROVE  Inv'
<1> USE DEF list
<1> DEFINE g == new[p]
           f == page[new[p]].kaddr
<1>1. PICK v \in Vaddr : v = goal[p].vaddr /\ Goal(p) /\ Underway(p) /\ VictimKnown(p)
  <2>1. ~ AtRest(p) /\ Goal(p) /\ Underway(p) /\ VictimKnown(p)
    BY DEF Inv, LoadFile, SwapIn, AtRest
  <2> QED BY <2>1 DEF Goal
<1>2. /\ TypeOK /\ pc[p] = "fill" /\ pc' = [pc EXCEPT ![p] = "install"]
      /\ UNCHANGED <<goal, new, vm_state, list, lru_lock, pool, disk>>
      /\ \/ /\ vm[p][v].type = "bin"
            /\ memory' = [memory EXCEPT ![f] = Content(p, v, Initial)] /\ UNCHANGED swap_bitmap
         \/ /\ vm[p][v].type = "anon"
            /\ memory' = [memory EXCEPT ![f] = disk[vm[p][v].swap_slot]]
            /\ swap_bitmap' = Flip(vm[p][v].swap_slot)
  BY <1>1 DEF Inv, LoadFile, SwapIn, Goto, Kaddr
<1> USE DEF vm_state
<1>3. /\ Alone(p)' /\ OneFault' /\ pc' \in [Process -> Label] /\ pc'[p] = "install"
      /\ \A q \in Process : q # p => pc'[q] = pc[q] /\ pc[q] \in {"new", "user", "dead"}
      /\ \A h : ~ Freeing(h) /\ ~ Freeing(h)'
      /\ \A q, u : ~ Leaving(q, u) /\ ~ Leaving(q, u)'
  BY <1>2, OnlyOne DEF Label
<1>4. \A q \in Process : (Alive(q)' <=> Alive(q)) /\ (pc'[q] = "new" <=> pc[q] = "new")
  BY <1>2, <1>3 DEF Alive
<1>5. \A q \in Process, u \in Vaddr : Mapped(q, u)' <=> Mapped(q, u)
  BY <1>2 DEF Mapped
<1>6. /\ g \in Page /\ page[g] # None /\ page[g].thread = p
      /\ f \in Frame \ pool
      /\ page[g].vme = v
      /\ \A h \in Page : Settled(h) => page[h].kaddr # f
      /\ goal[p].kind = "fault" /\ vm[p][v] # None /\ (Mapped(p, v) => v \in Code)
  <2>1. pc[p] \in Holding /\ pc[p] \notin {"link", "vme"}
    BY <1>2 DEF Holding
  <2>2. goal[p].kind = "fault" /\ vm[p][v] # None /\ (Mapped(p, v) => v \in Code)
    BY <1>1, <1>2 DEF Goal, AtRest
  <2> QED BY <1>1, <2>1, <2>2, InHand
<1>7. Alive(p) /\ ~ InTransit(p, v)
  BY <1>2 DEF Alive, InTransit
<1> HIDE DEF f
<1>8. ASSUME NEW q \in Process, NEW u \in Vaddr, Mapped(q, u)
       PROVE  pte[q][u].frame \in Frame /\ pte[q][u].frame # f
  <2>1. PICK h \in Page : Settled(h) /\ Holds(h, q, u)
    BY <1>8 DEF Inv, OneToOne
  <2> QED BY <1>6, <2>1 DEF Inv, OneToOne, Holds
<1>9. ASSUME vm[p][v].type = "bin"
      PROVE  /\ TypeOK' /\ Kept' /\ SlotsOneToOne'
             /\ ~ Mapped(p, v) => memory'[f] = truth[p][v]
  <2>1. memory' = [memory EXCEPT ![f] = Content(p, v, Initial)] /\ UNCHANGED swap_bitmap
    BY <1>2, <1>9
  <2>2. ~ Mapped(p, v) => truth[p][v] = Content(p, v, Initial)
    BY <1>6, <1>9 DEF Inv, Kept
  <2>3. \A q \in Process, u \in Vaddr : /\ Away(q, u)' => Away(q, u)
                                        /\ Away(q, u) => Away(q, u)' \/ vm[q][u].type = "bin"
    <3>1. \A q \in Process, u \in Vaddr : InTransit(q, u)' <=> InTransit(q, u) \/ (q = p /\ u = v)
      BY <1>1, <1>2, <1>3 DEF InTransit
    <3> QED BY <1>2, <1>3, <1>5, <1>9, <3>1 DEF Away
  <2>4. \A q \in Process, u \in Vaddr : Mapped(q, u) => memory'[pte[q][u].frame] = memory[pte[q][u].frame]
    BY <1>2, <1>8, <2>1 DEF TypeOK
  <2>5. Content(p, v, Initial) \in Contents
    BY DEF Content, Contents
  <2>6. TypeOK'
    BY <1>2, <1>3, <1>6, <2>1, <2>5 DEF TypeOK
  <2>7. memory'[f] = Content(p, v, Initial)
    BY <1>2, <1>6, <2>1 DEF TypeOK
  <2>8. Kept' /\ SlotsOneToOne'
    <3>1. (\A q \in Process : pc'[q] # "dead") => \A q \in Process : pc[q] # "dead"
      BY <1>2, <1>3
    <3> QED BY <1>2, <1>4, <1>5, <2>1, <2>3, <2>4, <3>1, SameContents DEF Inv
  <2> QED BY <2>2, <2>6, <2>7, <2>8
<1>10. ASSUME vm[p][v].type = "anon"
      PROVE  /\ TypeOK' /\ Kept' /\ SlotsOneToOne'
             /\ ~ Mapped(p, v) => memory'[f] = truth[p][v]
  <2>1. PICK s \in Slot : s = vm[p][v].swap_slot /\ s \in swap_bitmap /\ disk[s] = truth[p][v]
    <3>1. ~ Mapped(p, v)
      BY <1>6, <1>7, <1>10 DEF Inv, Kept
    <3>2. Away(p, v)
      BY <1>6, <1>7, <3>1 DEF Away
    <3>3. Saved(p, v)
      BY <3>2 DEF Inv, Kept
    <3> QED BY <1>2, <1>10, <3>3 DEF Saved, TypeOK
  <2>2. /\ memory' = [memory EXCEPT ![f] = truth[p][v]] /\ swap_bitmap' = swap_bitmap \ {s}
        /\ Away(p, v)
    <3>1. ~ Mapped(p, v)
      BY <1>6, <1>7, <1>10 DEF Inv, Kept
    <3>2. Away(p, v)
      BY <1>6, <1>7, <3>1 DEF Away
    <3> QED BY <1>2, <1>10, <2>1, <3>2 DEF Flip
  <2>3. ~ Mapped(p, v)
    BY <1>6, <1>7, <1>10 DEF Inv, Kept
  <2>4. TypeOK'
    <3>1. truth[p][v] \in Contents /\ swap_bitmap' \subseteq Slot
      BY <1>2, <2>2 DEF TypeOK
    <3> QED BY <1>2, <1>3, <1>6, <2>2, <3>1 DEF TypeOK
  <2>5. memory'[f] = truth[p][v]
    BY <1>2, <1>6, <2>2 DEF TypeOK
  <2>6. \A q \in Process, u \in Vaddr : Mapped(q, u) => memory'[pte[q][u].frame] = memory[pte[q][u].frame]
    BY <1>2, <1>8, <2>2 DEF TypeOK
  <2>7. \A q \in Process, u \in Vaddr : Away(q, u)' <=> Away(q, u) /\ ~ (q = p /\ u = v)
    <3>1. \A q \in Process, u \in Vaddr : InTransit(q, u)' <=> InTransit(q, u) \/ (q = p /\ u = v)
      BY <1>1, <1>2, <1>3 DEF InTransit
    <3> QED BY <1>2, <1>3, <1>5, <2>3, <3>1 DEF Away
  <2>8. Swapped(p, v)
    BY <1>10, <2>2 DEF Swapped
  <2>9. Kept'
    <3>1. ASSUME NEW q \in Process, NEW u \in Vaddr
          PROVE  /\ Mapped(q, u)' => vm'[q][u] # None /\ memory'[pte'[q][u].frame] = truth'[q][u]
                 /\ Away(q, u)' => Saved(q, u)'
                 /\ vm'[q][u] # None /\ vm'[q][u].type = "bin" =>
                      (Mapped(q, u)' /\ pte'[q][u].dirty) \/ truth'[q][u] = Content(q, u, Initial)
                 /\ Alive(q)' /\ u \in Code =>
                      vm'[q][u] # None /\ vm'[q][u].type = "bin" /\ (Mapped(q, u)' => ~ pte'[q][u].dirty)
      <4>1. /\ Mapped(q, u) => vm[q][u] # None /\ memory[pte[q][u].frame] = truth[q][u]
            /\ Away(q, u) => Saved(q, u)
            /\ vm[q][u] # None /\ vm[q][u].type = "bin" =>
                 (Mapped(q, u) /\ pte[q][u].dirty) \/ truth[q][u] = Content(q, u, Initial)
            /\ Alive(q) /\ u \in Code =>
                 vm[q][u] # None /\ vm[q][u].type = "bin" /\ (Mapped(q, u) => ~ pte[q][u].dirty)
        BY DEF Inv, Kept
      <4>2. Away(q, u)' => Saved(q, u)'
        <5>1. Away(q, u)' => (vm[q][u].type = "anon" => vm[q][u].swap_slot # s)
          BY <2>1, <2>7, <2>8 DEF Inv, SlotsOneToOne, Swapped
        <5>2. Away(q, u)' => Saved(q, u)
          BY <2>7, <4>1
        <5> QED BY <1>2, <2>2, <5>1, <5>2 DEF Saved
      <4> QED BY <1>2, <1>4, <1>5, <2>6, <4>1, <4>2
    <3> QED BY <3>1 DEF Kept
  <2>10. SlotsOneToOne'
    <3>1. \A q \in Process, u \in Vaddr : Swapped(q, u)' <=> Swapped(q, u) /\ ~ (q = p /\ u = v)
      BY <1>2, <2>7 DEF Swapped
    <3>2. (\A q \in Process : pc'[q] # "dead") => \A q \in Process : pc[q] # "dead"
      BY <1>2, <1>3
    <3>3. ASSUME \A q \in Process : pc'[q] # "dead", NEW t \in swap_bitmap'
          PROVE  \E q \in Process, u \in Vaddr : Swapped(q, u)' /\ vm'[q][u].swap_slot = t
      <4>1. t \in swap_bitmap /\ t # s
        BY <2>2, <3>3
      <4>2. PICK q \in Process, u \in Vaddr : Swapped(q, u) /\ vm[q][u].swap_slot = t
        BY <3>2, <3>3, <4>1 DEF Inv, SlotsOneToOne
      <4> QED BY <1>2, <2>1, <3>1, <4>1, <4>2
    <3> QED BY <1>2, <3>1, <3>3 DEF Inv, SlotsOneToOne
  <2> QED BY <2>4, <2>5, <2>9, <2>10
<1>11. /\ TypeOK' /\ Kept' /\ SlotsOneToOne'
       /\ ~ Mapped(p, v) => memory'[f] = truth[p][v]
  BY <1>2, <1>9, <1>10
<1>12. HeapFree' /\ Empty'
  BY <1>2, <1>4, <1>5 DEF Inv, HeapFree, Empty
<1>13. \A h \in Page : Settled(h)' <=> Settled(h)
  <2>1. \A q \in Process : pc'[q] \in Holding \cup {"refused"} <=> pc[q] \in Holding \cup {"refused"}
    BY <1>2, <1>3 DEF Holding
  <2> QED BY <1>2, <1>4, <2>1 DEF Settled, TypeOK, Struct
<1>14. OneToOne'
  BY <1>2, <1>3, <1>5, <1>13, SameOwners DEF Inv, OneToOne
<1>15. (Goal(p) /\ Underway(p) /\ VictimKnown(p))'
  <2>1. Goal(p)'
    BY <1>1, <1>2, <1>3, <1>5 DEF Goal, AtRest
  <2>2. "install" \notin Wanting
    BY DEF Wanting
  <2>3. Underway(p)'
    BY <1>1, <1>2, <1>3, <1>5, <1>6, <1>11, <1>13, <2>2 DEF Underway, f
  <2> QED BY <1>3, <2>1, <2>3 DEF VictimKnown
<1> QED BY <1>3, <1>11, <1>12, <1>14, <1>15, OwnFault DEF Inv

LEMMA InstallKeeps ==
  ASSUME NEW p \in Process, Inv, Alone(p), Install(p)
  PROVE  Inv'
<1> USE DEF list, store
<1>1. PICK g \in Page, v \in Vaddr, k \in {"setup", "fault", "grow"}, f \in Frame :
        /\ g = new[p] /\ v = goal[p].vaddr /\ k = goal[p].kind
        /\ page[g] # None /\ page[g] \in Struct /\ page[g].thread = p
        /\ page[g].kaddr = f /\ f \notin pool
        /\ page[g].vme = (IF k = "fault" THEN v ELSE None)
        /\ \A h \in Page : Settled(h) => page[h].kaddr # f
        /\ k # "fault" => memory[f] = Content(p, v, Initial)
        /\ k = "fault" => memory[f] = truth[p][v]
        /\ k = "setup" => v = Top
        /\ k = "fault" => vm[p][v] # None
        /\ k # "fault" => vm[p][v] = None
        /\ ~ Mapped(p, v)
  <2>1. pc[p] = "install" /\ pc[p] \in Holding /\ ~ AtRest(p) /\ ~ Mapped(p, goal[p].vaddr)
    BY DEF Install, Holding, AtRest
  <2>2. /\ goal[p] \in [kind : {"setup", "fault", "grow"}, vaddr : Vaddr]
        /\ goal[p].kind = "setup" => goal[p].vaddr = Top
        /\ goal[p].kind = "fault" => vm[p][goal[p].vaddr] # None
        /\ goal[p].kind # "fault" => vm[p][goal[p].vaddr] = None
    BY <2>1 DEF Inv, Goal
  <2>3. /\ new[p] \in Page /\ page[new[p]] # None /\ page[new[p]].thread = p
        /\ page[new[p]].kaddr \in Frame \ pool
        /\ pc[p] \in {"link", "vme"} \/ goal[p].kind # "fault" => page[new[p]].vme = None
        /\ pc[p] \notin {"link", "vme"} /\ goal[p].kind = "fault" => page[new[p]].vme = goal[p].vaddr
        /\ \A h \in Page : Settled(h) => page[h].kaddr # page[new[p]].kaddr
        /\ goal[p].kind # "fault" => memory[page[new[p]].kaddr] = Content(p, goal[p].vaddr, Initial)
        /\ pc[p] = "install" /\ goal[p].kind = "fault" /\ ~ Mapped(p, goal[p].vaddr) =>
             memory[page[new[p]].kaddr] = truth[p][goal[p].vaddr]
    BY <2>1, InHand DEF Inv
  <2>4. page[new[p]] \in Struct
    BY <2>3 DEF Inv, TypeOK
  <2> QED BY <2>1, <2>2, <2>3, <2>4
<1>2. /\ TypeOK /\ pc[p] = "install" /\ pc' = [pc EXCEPT ![p] = "user"]
      /\ pte' = [pte EXCEPT ![p][v] = Present(f)]
      /\ goal' = [goal EXCEPT ![p] = None] /\ new' = [new EXCEPT ![p] = None]
      /\ UNCHANGED <<heap, next, prev, hand, lru_lock, store>>
      /\ k = "fault" => UNCHANGED <<vm, truth, page>>
      /\ k # "fault" => /\ vm' = [vm EXCEPT ![p][v] = [type |-> "anon", swap_slot |-> None]]
                        /\ truth' = [truth EXCEPT ![p][v] = Content(p, v, Initial)]
                        /\ page' = IF k = "setup" THEN page ELSE [page EXCEPT ![g].vme = v]
  BY <1>1 DEF Inv, Install, Goto, Kaddr
<1>3. /\ Alone(p)' /\ OneFault' /\ pc' \in [Process -> Label] /\ pc'[p] = "user"
      /\ \A q \in Process : q # p => pc'[q] = pc[q] /\ pc[q] \in {"new", "user", "dead"}
      /\ \A h : ~ Freeing(h) /\ ~ Freeing(h)'
      /\ \A q, u : ~ Leaving(q, u) /\ ~ Leaving(q, u)'
  BY <1>2, OnlyOne DEF Label
<1>4. \A q \in Process : (Alive(q)' <=> Alive(q)) /\ (pc'[q] = "new" <=> pc[q] = "new")
  BY <1>2, <1>3 DEF Alive
<1>5. /\ pte' \in [Process -> [Vaddr -> PTE]]
      /\ pte'[p][v] = Present(f)
      /\ Mapped(p, v)' /\ pte'[p][v].frame = f /\ ~ pte'[p][v].dirty
      /\ \A q \in Process, u \in Vaddr : ~ (q = p /\ u = v) =>
           pte'[q][u] = pte[q][u] /\ (Mapped(q, u)' <=> Mapped(q, u))
  <2>1. Present(f) \in PTE
    BY DEF Present, PTE
  <2>2. pte \in [Process -> [Vaddr -> PTE]]
    BY <1>2 DEF TypeOK, PTE
  <2>3. [pte[p] EXCEPT ![v] = Present(f)] \in [Vaddr -> PTE]
    BY <2>1, <2>2
  <2>4. pte' \in [Process -> [Vaddr -> PTE]]
    BY <1>2, <2>2, <2>3
  <2>5. pte'[p][v] = Present(f)
    BY <1>2, <2>2
  <2>6. Mapped(p, v)' /\ pte'[p][v].frame = f /\ ~ pte'[p][v].dirty
    BY <2>5 DEF Mapped, Present
  <2>7. \A q \in Process, u \in Vaddr : ~ (q = p /\ u = v) => pte'[q][u] = pte[q][u]
    BY <1>2, <2>2
  <2> QED BY <2>4, <2>5, <2>6, <2>7 DEF Mapped
<1>6. /\ page'[g] \in Struct /\ page'[g] # None
      /\ page'[g].kaddr = f /\ page'[g].thread = p
      /\ page'[g].vme = (IF k = "setup" THEN None ELSE v)
      /\ \A h \in Page : h # g => page'[h] = page[h]
  <2>1. CASE k # "grow"
    BY <1>1, <1>2, <2>1
  <2>2. CASE k = "grow"
    <3>1. page'[g] = [page[g] EXCEPT !.vme = v] /\ \A h \in Page : h # g => page'[h] = page[h]
      BY <1>2, <2>2 DEF TypeOK
    <3>2. page'[g] \in Struct
      BY <1>1, <3>1 DEF Struct
    <3>3. page'[g].kaddr = f /\ page'[g].thread = p /\ page'[g].vme = v
      BY <1>1, <3>1 DEF Struct
    <3> QED BY <2>2, <3>1, <3>2, <3>3, PagingAssumption
  <2> QED BY <2>1, <2>2
<1>7. /\ \A q \in Process, u \in Vaddr : ~ (q = p /\ u = v) =>
           vm'[q][u] = vm[q][u] /\ truth'[q][u] = truth[q][u]
      /\ vm'[p][v] # None /\ vm'[p][v] \in Entry
      /\ k = "fault" => vm'[p][v] = vm[p][v]
      /\ k # "fault" => vm'[p][v].type = "anon"
      /\ memory'[f] = truth'[p][v]
  <2>1. CASE k = "fault"
    BY <1>1, <1>2, <2>1 DEF TypeOK
  <2>2. CASE k # "fault"
    <3>1. vm'[p][v] = [type |-> "anon", swap_slot |-> None] /\ truth'[p][v] = Content(p, v, Initial)
      BY <1>2, <2>2 DEF TypeOK
    <3>2. [type |-> "anon", swap_slot |-> None] \in Entry
      BY DEF Entry
    <3>3. \A q \in Process, u \in Vaddr : ~ (q = p /\ u = v) =>
            vm'[q][u] = vm[q][u] /\ truth'[q][u] = truth[q][u]
      BY <1>2, <2>2 DEF TypeOK
    <3> QED BY <1>1, <1>2, <2>2, <3>1, <3>2, <3>3, PagingAssumption
  <2> QED BY <2>1, <2>2
<1>8. TypeOK'
  <2>1. CASE k = "fault"
    BY <1>2, <1>3, <1>5, <2>1 DEF TypeOK, PTE
  <2>2. CASE k # "fault"
    <3>1. vm' \in [Process -> [Vaddr -> Entry \cup {None}]]
      <4>1. vm \in [Process -> [Vaddr -> Entry \cup {None}]] /\ [type |-> "anon", swap_slot |-> None] \in Entry
        BY <1>2 DEF TypeOK, Entry
      <4>2. [vm[p] EXCEPT ![v] = [type |-> "anon", swap_slot |-> None]] \in [Vaddr -> Entry \cup {None}]
        BY <4>1
      <4> QED BY <1>2, <2>2, <4>1, <4>2
    <3>2. truth' \in [Process -> [Vaddr -> Contents]]
      <4>1. truth \in [Process -> [Vaddr -> Contents]] /\ Content(p, v, Initial) \in Contents
        BY <1>2 DEF TypeOK, Content, Contents
      <4>2. [truth[p] EXCEPT ![v] = Content(p, v, Initial)] \in [Vaddr -> Contents]
        BY <4>1
      <4> QED BY <1>2, <2>2, <4>1, <4>2
    <3>3. page' \in [Page -> {None} \cup Struct]
      BY <1>2, <1>6, <2>2 DEF TypeOK
    <3> QED BY <1>2, <1>3, <1>5, <3>1, <3>2, <3>3 DEF TypeOK, PTE
  <2> QED BY <2>1, <2>2
<1>9. HeapFree' /\ Empty'
  <2>1. HeapFree'
    <3>1. \A i \in DOMAIN heap : heap[i] \in Page /\ heap[i] # g
      BY <1>1, <1>2 DEF Inv, HeapFree, TypeOK
    <3> QED BY <1>2, <1>6, <3>1 DEF Inv, HeapFree
  <2>2. Alive(p) /\ pc[p] # "new"
    BY <1>2 DEF Alive
  <2>3. \A q \in Process, u \in Vaddr : q # p => vm'[q][u] = vm[q][u] /\ (Mapped(q, u)' <=> Mapped(q, u))
    BY <1>5, <1>7
  <2> QED BY <1>1, <1>4, <1>6, <2>1, <2>2, <2>3 DEF Inv, Empty
<1>10. Settled(g)' /\ ~ Settled(g) /\ Alive(p)
  <2>1. Alive(p) /\ Alive(p)' /\ pc'[p] \notin Holding \cup {"refused"} /\ p # None
    BY <1>2, <1>3, PagingAssumption DEF Alive, Holding
  <2> QED BY <1>1, <1>6, <2>1 DEF Settled
<1>11. \A h \in Page : h # g => (Settled(h)' <=> Settled(h))
  <2>1. \A q \in Process : pc'[q] \notin Holding \cup {"refused"}
    BY <1>3 DEF Holding
  <2>2. \A q \in Process : pc[q] \in Holding \cup {"refused"} => new[q] = g
    BY <1>1, <1>3 DEF Holding
  <2> QED BY <1>2, <1>4, <1>6, <2>1, <2>2 DEF Settled, TypeOK, Struct
<1>12. ASSUME NEW h \in Page, Settled(h)
       PROVE  /\ h # g /\ page'[h] = page[h] /\ page[h].kaddr \in Frame \ pool /\ page[h].kaddr # f
              /\ page[h].thread \in Process /\ AddrOf(h) \in Vaddr /\ AddrOf(h)' = AddrOf(h)
              /\ Holds(h, page[h].thread, AddrOf(h))
              /\ ~ (page[h].thread = p /\ AddrOf(h) = v)
  <2>1. h # g /\ page'[h] = page[h] /\ page[h].kaddr \in Frame \ pool /\ page[h].kaddr # f
    BY <1>1, <1>6, <1>10, <1>12 DEF Inv, OneToOne
  <2>2. page[h] \in Struct /\ page[h].thread # None
    BY <1>2, <1>12 DEF Settled, TypeOK
  <2>3. page[h].thread \in Process /\ AddrOf(h) \in Vaddr /\ AddrOf(h)' = AddrOf(h)
    BY <2>1, <2>2 DEF Struct, AddrOf, Vaddr
  <2>4. Holds(h, page[h].thread, AddrOf(h))
    BY <1>3, <1>12 DEF Inv, OneToOne
  <2> QED BY <1>1, <2>1, <2>3, <2>4 DEF Holds
<1>13. OneToOne'
  <2>1. AddrOf(g)' = v /\ Holds(g, p, v)'
    BY <1>1, <1>5, <1>6, PagingAssumption DEF AddrOf, Holds
  <2>2. ASSUME NEW h \in Page, Settled(h)'
        PROVE  page'[h].kaddr \in (Frame \ pool)' /\ Holds(h, page[h].thread, AddrOf(h))'
    <3>1. CASE h = g
      BY <1>1, <1>2, <1>6, <2>1, <3>1
    <3>2. CASE h # g
      <4>1. Settled(h)
        BY <1>11, <2>2, <3>2
      <4> QED BY <1>2, <1>5, <1>12, <4>1 DEF Holds
    <3> QED BY <3>1, <3>2
  <2>3. ASSUME NEW h \in Page, NEW i \in Page, Settled(h)', Settled(i)', page'[h].kaddr = page'[i].kaddr
        PROVE  h = i
    BY <1>6, <1>11, <1>12, <2>3 DEF Inv, OneToOne
  <2>4. ASSUME NEW q \in Process, NEW u \in Vaddr, Mapped(q, u)'
        PROVE  \E h \in Page : Settled(h)' /\ Holds(h, q, u)'
    <3>1. CASE q = p /\ u = v
      BY <1>10, <2>1, <3>1
    <3>2. CASE ~ (q = p /\ u = v)
      <4>1. Mapped(q, u) /\ pte'[q][u] = pte[q][u]
        BY <1>5, <2>4, <3>2
      <4>2. PICK h \in Page : Settled(h) /\ Holds(h, q, u)
        BY <4>1 DEF Inv, OneToOne
      <4> QED BY <1>11, <1>12, <2>4, <4>1, <4>2 DEF Holds
    <3> QED BY <3>1, <3>2
  <2> QED BY <1>3, <2>2, <2>3, <2>4 DEF OneToOne
<1>14. (Goal(p) /\ Underway(p) /\ VictimKnown(p))'
  BY <1>3 DEF Goal, Underway, VictimKnown, AtRest, Wanting, Holding
<1>15. \A q \in Process, u \in Vaddr : /\ ~ (q = p /\ u = v) => (Away(q, u)' <=> Away(q, u))
                                       /\ ~ Away(p, v) /\ ~ Away(p, v)'
  <2>1. InTransit(p, v)
    BY <1>1, <1>2 DEF InTransit
  <2>2. \A q \in Process, u \in Vaddr : ~ (q = p /\ u = v) => (InTransit(q, u)' <=> InTransit(q, u))
    BY <1>1, <1>2, <1>3 DEF InTransit
  <2> QED BY <1>1, <1>3, <1>5, <1>7, <2>1, <2>2 DEF Away
<1>16. \A q \in Process, u \in Vaddr : Mapped(q, u) => pte[q][u].frame \in Frame /\ pte[q][u].frame # f
  <2> SUFFICES ASSUME NEW q \in Process, NEW u \in Vaddr, Mapped(q, u)
               PROVE  pte[q][u].frame \in Frame /\ pte[q][u].frame # f
    OBVIOUS
  <2>1. PICK h \in Page : Settled(h) /\ Holds(h, q, u)
    BY DEF Inv, OneToOne
  <2> QED BY <1>12, <2>1 DEF Holds
<1>17. Kept'
  <2>1. ASSUME NEW q \in Process, NEW u \in Vaddr
        PROVE  /\ Mapped(q, u)' => vm'[q][u] # None /\ memory'[pte'[q][u].frame] = truth'[q][u]
               /\ Away(q, u)' => Saved(q, u)'
               /\ vm'[q][u] # None /\ vm'[q][u].type = "bin" =>
                    (Mapped(q, u)' /\ pte'[q][u].dirty) \/ truth'[q][u] = Content(q, u, Initial)
               /\ Alive(q)' /\ u \in Code =>
                    vm'[q][u] # None /\ vm'[q][u].type = "bin" /\ (Mapped(q, u)' => ~ pte'[q][u].dirty)
    <3>1. /\ Mapped(q, u) => vm[q][u] # None /\ memory[pte[q][u].frame] = truth[q][u]
          /\ Away(q, u) => Saved(q, u)
          /\ vm[q][u] # None /\ vm[q][u].type = "bin" =>
               (Mapped(q, u) /\ pte[q][u].dirty) \/ truth[q][u] = Content(q, u, Initial)
          /\ Alive(q) /\ u \in Code =>
               vm[q][u] # None /\ vm[q][u].type = "bin" /\ (Mapped(q, u) => ~ pte[q][u].dirty)
      BY DEF Inv, Kept
    <3>2. CASE ~ (q = p /\ u = v)
      <4>1. Saved(q, u)' <=> Saved(q, u)
        BY <1>2, <1>7, <3>2 DEF Saved
      <4> QED BY <1>2, <1>4, <1>5, <1>7, <1>15, <3>1, <3>2, <4>1
    <3>3. CASE q = p /\ u = v
      <4>1. k # "fault" => v \notin Code
        BY <1>1, <1>10, <3>1, <3>3
      <4>2. k = "fault" => UNCHANGED <<vm, truth>>
        BY <1>2
      <4>3. k # "fault" => vm'[p][v].type # "bin"
        BY <1>7
      <4> QED BY <1>1, <1>4, <1>5, <1>7, <1>15, <3>1, <3>3, <4>1, <4>2, <4>3
    <3> QED BY <3>2, <3>3
  <2> QED BY <2>1 DEF Kept
<1>18. SlotsOneToOne'
  <2>1. \A q \in Process, u \in Vaddr : Swapped(q, u)' <=> Swapped(q, u)
    BY <1>7, <1>15 DEF Swapped
  <2>2. \A q \in Process, u \in Vaddr : Swapped(q, u) => vm'[q][u] = vm[q][u]
    BY <1>7, <1>15 DEF Swapped
  <2>3. (\A q \in Process : pc'[q] # "dead") => \A q \in Process : pc[q] # "dead"
    BY <1>2, <1>3
  <2> QED BY <1>2, <2>1, <2>2, <2>3 DEF Inv, SlotsOneToOne
<1> QED BY <1>3, <1>8, <1>9, <1>13, <1>14, <1>17, <1>18, OwnFault DEF Inv

LEMMA RefuseKeeps ==
  ASSUME NEW p \in Process, Inv, Alone(p), Refuse(p)
  PROVE  Inv'
<1> DEFINE first == {n \in 0 .. Cardinality(Page) :
                       Nth[n] \in Page /\ page[Nth[n]] # None /\ page[Nth[n]].kaddr = Kaddr(p)}
<1>1. /\ TypeOK /\ pc[p] = "install" /\ pc[p] \in Holding /\ ~ AtRest(p) /\ Alive(p)
      /\ Mapped(p, goal[p].vaddr)
      /\ pc' = [pc EXCEPT ![p] = "refused"]
      /\ UNCHANGED <<goal, new, vm_state, lru_lock, swap_bitmap, disk>>
  BY DEF Inv, Refuse, Goto, Holding, AtRest, Alive
<1>2. /\ new[p] \in Page /\ page[new[p]] # None /\ page[new[p]].thread = p
      /\ Kaddr(p) \in Frame \ pool
      /\ \A h \in Page : Settled(h) => page[h].kaddr # Kaddr(p)
  BY <1>1, InHand DEF Inv, Kaddr
<1>3. CASE first # {}
  <2>1. PICK n \in first : n = Lowest(first)
    <3>1. first \in SUBSET Nat
      BY PagingAssumption, FS_CardinalityType
    <3> HIDE DEF first
    <3> QED BY <1>3, <3>1, LowestIn
  <2>2. PICK g \in Page : g = Nth[n] /\ page[g] # None /\ page[g].kaddr = Kaddr(p)
    BY <2>1
  <2>3. /\ pool' = pool \cup {page[g].kaddr}
        /\ memory' = [memory EXCEPT ![page[g].kaddr] = None]
        /\ page' = [page EXCEPT ![g] = None]
        /\ heap' = <<g>> \o heap
        /\ next' = Unlinked(g).next /\ prev' = Unlinked(g).prev
        /\ hand' = IF hand = g THEN next[g] ELSE hand
    BY <1>3, <2>1, <2>2 DEF Refuse
  <2>4. next' \in Links /\ prev' \in Links /\ hand' \in Elem \cup {None} /\ lru_lock' \in Process \cup {None}
    <3>1. Unlinked(g).next \in Links /\ Unlinked(g).prev \in Links /\ next[g] \in Elem
      BY <1>1, UnlinkedType
    <3> QED BY <1>1, <2>3, <3>1 DEF TypeOK
  <2>5. ~ Settled(g) /\ page[g].kaddr \in Frame
    BY <1>2, <2>2
  <2>6. \A h \in Page : Settled(h) /\ h # g => page[h].kaddr # page[g].kaddr
    BY <1>2, <2>2
  <2>7. GivesBack(p, g, page[g].kaddr, "refused")
    BY <1>1, <2>2, <2>5, <2>6 DEF GivesBack
  <2> QED BY <1>1, <2>3, <2>4, <2>5, <2>7, ReleaseKeeps
<1>4. CASE first = {}
  <2> USE DEF vm_state, list
  <2>1. UNCHANGED <<pool, memory, list>>
    BY <1>4 DEF Refuse
  <2>2. /\ Alone(p)' /\ OneFault' /\ pc' \in [Process -> Label] /\ pc'[p] = "refused"
        /\ \A q \in Process : q # p => pc'[q] = pc[q] /\ pc[q] \in {"new", "user", "dead"}
        /\ \A h : ~ Freeing(h) /\ ~ Freeing(h)'
        /\ \A q, u : ~ Leaving(q, u) /\ ~ Leaving(q, u)'
    BY <1>1, OnlyOne DEF Label
  <2>3. \A q \in Process : (Alive(q)' <=> Alive(q)) /\ (pc'[q] = "new" <=> pc[q] = "new")
    BY <1>1, <2>2 DEF Alive
  <2>4. \A q \in Process, u \in Vaddr : Mapped(q, u)' <=> Mapped(q, u)
    BY <1>1 DEF Mapped
  <2>5. TypeOK'
    BY <1>1, <2>1, <2>2 DEF TypeOK
  <2>6. HeapFree' /\ Empty'
    BY <1>1, <2>1, <2>3, <2>4 DEF Inv, HeapFree, Empty
  <2>7. \A h \in Page : Settled(h)' <=> Settled(h)
    <3>1. \A q \in Process : pc'[q] \in Holding \cup {"refused"} <=> pc[q] \in Holding \cup {"refused"}
      BY <1>1, <2>2 DEF Holding
    <3> QED BY <1>1, <2>1, <2>3, <3>1 DEF Settled, TypeOK, Struct
  <2>8. OneToOne'
    BY <1>1, <2>1, <2>2, <2>4, <2>7, SameOwners DEF Inv, OneToOne
  <2>9. (Goal(p) /\ Underway(p) /\ VictimKnown(p))'
    <3>1. Goal(p)
      BY DEF Inv
    <3>2. Goal(p)'
      BY <1>1, <2>2, <2>4, <3>1 DEF Goal
    <3> QED BY <2>2, <3>2 DEF Underway, VictimKnown, Wanting, Holding
  <2>10. \A q \in Process, u \in Vaddr : Away(q, u)' <=> Away(q, u)
    BY <1>1, <2>2, <2>4 DEF Away, InTransit
  <2>11. Kept' /\ SlotsOneToOne'
    <3>1. (\A q \in Process : pc'[q] # "dead") => \A q \in Process : pc[q] # "dead"
      BY <1>1, <2>2
    <3> QED BY <1>1, <2>1, <2>3, <2>4, <2>10, <3>1, SameContents DEF Inv
  <2> QED BY <2>2, <2>5, <2>6, <2>8, <2>9, <2>11, OwnFault DEF Inv
<1> QED BY <1>3, <1>4

LEMMA MoverKeeps ==
  ASSUME NEW p \in Process, Inv, Alone(p),
         \/ \E v \in Vaddr : Read(p, v)
         \/ Visit(p) \/ VisitUnset(p) \/ LockList(p) \/ Link(p) \/ SetVme(p)
  PROVE  Inv'
<1>1. /\ TypeOK
      /\ pte \in [Process -> [Vaddr -> PTE]] /\ next \in Links /\ prev \in Links
      /\ hand \in Elem \cup {None} /\ lru_lock \in Process \cup {None}
  BY DEF Inv, TypeOK, PTE, Links
<1>2. \A l : pc[p] = l => pc = [pc EXCEPT ![p] = l]
  BY <1>1 DEF TypeOK
<1>3. ASSUME NEW q \in Process, NEW v \in Vaddr, NEW b \in BOOLEAN,
             pte' = [pte EXCEPT ![q][v].accessed = b]
      PROVE  /\ pte' \in [Process -> [Vaddr -> PTE]]
             /\ \A r \in Process, u \in Vaddr : /\ pte'[r][u].frame = pte[r][u].frame
                                                /\ pte'[r][u].present = pte[r][u].present
                                                /\ pte'[r][u].dirty = pte[r][u].dirty
  <2>1. pte' \in [Process -> [Vaddr -> PTE]]
    BY <1>1, <1>3, SetBit
  <2>2. pte'[q][v] = [pte[q][v] EXCEPT !.accessed = b] /\ pte[q][v] \in PTE
    BY <1>1, <1>3
  <2>3. \A r \in Process, u \in Vaddr : ~ (r = q /\ u = v) => pte'[r][u] = pte[r][u]
    BY <1>1, <1>3
  <2>4. /\ pte'[q][v].frame = pte[q][v].frame /\ pte'[q][v].present = pte[q][v].present
        /\ pte'[q][v].dirty = pte[q][v].dirty
    BY <2>2 DEF PTE
  <2> QED BY <2>1, <2>3, <2>4
<1>4. ASSUME NEW v \in Vaddr, Read(p, v) PROVE Inv'
  <2>1. /\ pc[p] = "user" /\ pte' = [pte EXCEPT ![p][v].accessed = TRUE]
        /\ UNCHANGED <<pc, goal, new, vm, truth, list, lru_lock, store>>
    BY <1>4 DEF Read
  <2>2. <<pc[p], "user">> \in Moves /\ "user" \in Label
    BY <2>1 DEF Moves, Label
  <2>3. pc' = [pc EXCEPT ![p] = "user"]
    BY <1>2, <2>1
  <2> QED BY <1>1, <1>3, <2>1, <2>2, <2>3, MoveKeeps DEF list, Links
<1>5. ASSUME Visit(p) PROVE Inv'
  <2> DEFINE h == NextHand(next, hand)
  <2>1. /\ pc[p] = "visit" /\ h \in Owned /\ Alive(page[h].thread) /\ page[h].vme # None
        /\ hand' = h
        /\ UNCHANGED <<goal, new, vm, truth, heap, page, next, prev, lru_lock, store>>
    BY <1>5 DEF Visit
  <2>2. h \in Page /\ Settled(h) /\ page[h].thread \in Process /\ page[h].vme \in Vaddr
    <3>1. h \in Page /\ page[h] \in Struct /\ page[h] # None /\ page[h].thread # None
      BY <1>1, <2>1 DEF Owned, TypeOK
    <3>2. page[h].thread \in Process /\ page[h].vme \in Vaddr
      BY <2>1, <3>1 DEF Struct
    <3>3. pc[page[h].thread] \notin Holding \cup {"refused"}
      BY <2>1, <3>2 DEF Alone, AtRest, Holding
    <3> QED BY <2>1, <3>1, <3>2, <3>3 DEF Settled
  <2> HIDE DEF h
  <2>3. hand' \in Elem \cup {None}
    BY <2>1, <2>2 DEF Elem
  <2>4. CASE pte[page[h].thread][page[h].vme].accessed
    <3>1. /\ pc' = [pc EXCEPT ![p] = "visit"]
          /\ pte' = [pte EXCEPT ![page[h].thread][page[h].vme].accessed = FALSE]
      BY <1>2, <1>5, <2>1, <2>4 DEF Visit, Spared, h
    <3>2. <<pc[p], "visit">> \in Moves /\ "visit" \in Label
      BY <2>1 DEF Moves, Label
    <3> QED BY <1>1, <1>3, <2>1, <2>2, <2>3, <3>1, <3>2, MoveKeeps DEF Links
  <2>5. CASE ~ pte[page[h].thread][page[h].vme].accessed
    <3>1. pc' = [pc EXCEPT ![p] = "swap"] /\ pte' = pte
      BY <1>5, <2>5 DEF Visit, Goto, h
    <3>2. <<pc[p], "swap">> \in Moves /\ "swap" \in Label
      BY <2>1 DEF Moves, Label
    <3> QED BY <1>1, <2>1, <2>2, <2>3, <3>1, <3>2, MoveKeeps DEF Links
  <2> QED BY <2>4, <2>5
<1>6. ASSUME VisitUnset(p) PROVE Inv'
  <2>1. CASE Panic("pg_ofs")
    BY <2>1, PanicKeeps DEF Panic
  <2>2. CASE ~ Panic("pg_ofs")
    <3>1. /\ pc[p] = "visit" /\ hand' \in Page
          /\ UNCHANGED <<pc, goal, new, vm_state, heap, page, next, prev, lru_lock, store>>
      BY <1>6, <2>2 DEF VisitUnset, Owned
    <3>2. <<pc[p], "visit">> \in Moves /\ "visit" \in Label /\ hand' \in Elem \cup {None}
      BY <3>1 DEF Moves, Label, Elem
    <3>3. pc' = [pc EXCEPT ![p] = "visit"]
      BY <1>2, <3>1
    <3> QED BY <1>1, <3>1, <3>2, <3>3, MoveKeeps DEF vm_state, Links
  <2> QED BY <2>1, <2>2
<1>7. ASSUME LockList(p) PROVE Inv'
  <2>1. PICK l \in {"retry", "visit"} :
          /\ pc[p] = "lock" /\ pc' = [pc EXCEPT ![p] = l]
          /\ lru_lock' \in Process \cup {None}
          /\ UNCHANGED <<goal, new, vm_state, list, store>>
    BY <1>1, <1>7 DEF LockList, Goto
  <2>2. <<pc[p], l>> \in Moves /\ l \in Label
    BY <2>1 DEF Moves, Label
  <2> QED BY <1>1, <2>1, <2>2, MoveKeeps DEF vm_state, list, Links
<1>8. ASSUME NEW g \in Page, list_push_back(g) PROVE next' \in Links /\ prev' \in Links
  <2>1. g \in Elem /\ ListTail \in Elem /\ prev[ListTail] \in Elem
    BY <1>1 DEF Links, Elem
  <2> QED BY <1>1, <1>8, <2>1 DEF list_push_back, Links
<1>9. pc[p] \in Holding => new[p] \in Page /\ goal[p].kind \in {"setup", "fault", "grow"}
  <2>1. pc[p] \in Holding => ~ AtRest(p)
    BY DEF Holding, AtRest
  <2> QED BY <2>1, InHand DEF Inv, Goal
<1>10. ASSUME Link(p) PROVE Inv'
  <2>1. PICK l \in {"install", "vme"} :
          /\ pc[p] = "link" /\ pc' = [pc EXCEPT ![p] = l]
          /\ l = "install" => goal[p].kind = "setup"
          /\ list_push_back(new[p])
          /\ UNCHANGED <<goal, new, vm_state, heap, page, hand, lru_lock, store>>
    BY <1>10 DEF Link, Goto
  <2>2. <<pc[p], l>> \in Moves /\ l \in Label /\ pc[p] \in Holding
    BY <2>1 DEF Moves, Label, Holding
  <2>3. next' \in Links /\ prev' \in Links
    BY <1>8, <1>9, <2>1, <2>2
  <2> QED BY <1>1, <2>1, <2>2, <2>3, MoveKeeps DEF vm_state, Links
<1>11. ASSUME SetVme(p) PROVE Inv'
  <2>1. pc[p] = "vme" /\ pc[p] \in Holding
    BY <1>11 DEF SetVme, Holding
  <2>2. CASE goal[p].kind = "fault"
    BY <1>11, <2>1, <2>2, SetVmeKeeps DEF SetVme, Goto
  <2>3. CASE goal[p].kind # "fault"
    <3>1. /\ goal[p].kind = "grow" /\ list_push_back(new[p]) /\ pc' = [pc EXCEPT ![p] = "install"]
          /\ UNCHANGED <<goal, new, vm_state, heap, page, hand, lru_lock, store>>
      BY <1>11, <2>3 DEF SetVme, Goto
    <3>2. <<pc[p], "install">> \in Moves /\ "install" \in Label
      BY <2>1 DEF Moves, Label
    <3>3. next' \in Links /\ prev' \in Links
      BY <1>8, <1>9, <2>1, <3>1
    <3> QED BY <1>1, <2>3, <3>1, <3>2, <3>3, MoveKeeps DEF vm_state, Links
  <2> QED BY <2>2, <2>3
<1> QED BY <1>4, <1>5, <1>6, <1>7, <1>10, <1>11

-----------------------------------------------------------------------------
(* The theorems.                                                           *)

LEMMA HandlerKeeps ==
  ASSUME NEW p \in Process, Inv, Alone(p), Handler(p)
  PROVE  Inv'
<1>1. CASE NewPage(p) \/ Retry(p)
  BY <1>1, NewPageKeeps, RetryKeeps
<1>2. CASE Link(p) \/ LockList(p) \/ Visit(p) \/ VisitUnset(p) \/ SetVme(p)
  BY <1>2, MoverKeeps
<1>3. CASE VisitOrphan(p) \/ VisitAstray(p) \/ LostVictim(p)
  <2>1. CASE Exit(p) /\ pc[p] = "visit"
    BY <2>1, ExitKeeps DEF Alive
  <2>2. CASE Panic("pd") \/ Panic("list_next")
    BY <2>2, PanicKeeps DEF Panic
  <2>3. CASE LostVictim(p)
    BY <2>3 DEF Inv, VictimKnown, LostVictim, Victim, Settled
  <2> QED BY <1>3, <2>1, <2>2, <2>3 DEF VisitOrphan, VisitAstray
<1>4. CASE SwapOut(p) \/ Unmap(p) \/ FreeVictim(p)
  BY <1>4, SwapOutKeeps, UnmapKeeps, FreeVictimKeeps
<1>5. CASE LostPage(p)
  BY <1>5, PanicKeeps DEF LostPage, Panic
<1>6. CASE LoadFile(p) \/ SwapIn(p) \/ Install(p) \/ Refuse(p)
  BY <1>6, FillKeeps, InstallKeeps, RefuseKeeps
<1>7. CASE Refused(p)
  BY <1>7, ExitKeeps DEF Refused, Alive
<1> QED BY <1>1, <1>2, <1>3, <1>4, <1>5, <1>6, <1>7 DEF Handler

LEMMA ProgramKeeps ==
  ASSUME NEW p \in Process, Inv, Alone(p), Program(p)
  PROVE  Inv'
<1>1. CASE Load(p)
  BY <1>1, LoadKeeps
<1>2. CASE Leave(p)
  BY <1>2, ExitKeeps DEF Leave, Alive
<1>3. CASE \E v \in Vaddr : Read(p, v)
  BY <1>3, MoverKeeps
<1>4. ASSUME NEW v \in Vaddr, Fault(p, v) PROVE Inv'
  BY <1>4, BeginKeeps DEF Fault
<1>5. ASSUME NEW v \in Vaddr, Grow(p, v) PROVE Inv'
  BY <1>5, BeginKeeps DEF Grow
<1>6. ASSUME NEW v \in Vaddr, NEW x \in Value, Write(p, v, x) PROVE Inv'
  BY <1>6, WriteKeeps
<1> QED BY <1>1, <1>2, <1>3, <1>4, <1>5, <1>6 DEF Program

LEMMA InitInv == Init => IInv
<1> SUFFICES ASSUME Init PROVE Inv
  BY DEF IInv
<1> USE DEF Init
<1>1. /\ heap \in Seq(Page) /\ \A i \in DOMAIN heap : heap[i] \in Page
      /\ \A i, j \in DOMAIN heap : heap[i] = heap[j] => i = j
  <2> DEFINE n == Cardinality(Page)
             Good(h) == \A i, j \in DOMAIN h : h[i] = h[j] => i = j
  <2>1. n \in Nat /\ ExistsBijection(1 .. n, Page)
    BY PagingAssumption, FS_CardinalityType
  <2>2. PICK h \in [1 .. n -> Page] : Good(h)
    BY <2>1 DEF ExistsBijection, Bijection, Injection, IsInjective
  <2>3. heap = CHOOSE x \in [1 .. n -> Page] : Good(x)
    OBVIOUS
  <2> HIDE DEF n, Good
  <2>4. heap \in [1 .. n -> Page] /\ Good(heap)
    BY <2>2, <2>3
  <2>5. heap \in Seq(Page)
    BY <2>1, <2>4, SeqDef
  <2>6. \A i \in DOMAIN heap : heap[i] \in Page
    BY <2>4
  <2> QED BY <2>4, <2>5, <2>6 DEF Good
<1>2. TypeOK
  <2>1. pte \in [Process -> [Vaddr -> PTE]]
    <3>1. Absent \in PTE
      BY DEF Absent, PTE
    <3> QED BY <3>1
  <2>2. next \in Links /\ prev \in Links
    BY DEF Links, Elem
  <2>3. pc \in [Process -> Label] /\ memory \in [Frame -> Contents] /\ disk \in [Slot -> Contents]
        /\ truth \in [Process -> [Vaddr -> Contents]]
    BY DEF Label, Contents
  <2> QED BY <1>1, <2>1, <2>2, <2>3 DEF TypeOK, PTE, Links
<1>3. \A p \in Process : pc[p] = "new" /\ AtRest(p) /\ ~ Alive(p)
  BY DEF AtRest, Alive
<1>4. \A p \in Process, v \in Vaddr : vm[p][v] = None /\ ~ Mapped(p, v)
  BY DEF Mapped, Absent
<1>5. OneFault /\ HeapFree /\ Empty
  BY <1>1, <1>3, <1>4 DEF OneFault, HeapFree, Empty
<1>6. \A p \in Process : Goal(p) /\ Underway(p) /\ VictimKnown(p)
  <2> HIDE DEF Init
  <2>1. \A p \in Process : pc[p] \notin Wanting /\ pc[p] \notin Holding
    BY <1>3 DEF Wanting, Holding
  <2> QED BY <1>3, <2>1 DEF Goal, Underway, VictimKnown
<1>7. \A g \in Page : ~ Settled(g)
  BY DEF Settled
<1>8. OneToOne
  BY <1>4, <1>7 DEF OneToOne
<1>9. \A p \in Process, v \in Vaddr : ~ Away(p, v)
  BY <1>4 DEF Away
<1>10. Kept /\ SlotsOneToOne
  BY <1>3, <1>4, <1>9 DEF Kept, SlotsOneToOne, Swapped
<1> QED BY <1>2, <1>5, <1>6, <1>8, <1>10 DEF Inv

LEMMA NextInv == IInv /\ [Next]_vars => IInv'
<1> SUFFICES ASSUME IInv, [Next]_vars PROVE IInv'
  OBVIOUS
<1>1. ASSUME NEW p \in Process, Step(p, Handler(p) \/ (~ overlap /\ Program(p))) PROVE IInv'
  <2>1. Handler(p) \/ Program(p)
    BY <1>1 DEF Step
  <2>2. ~ overlap' => ~ overlap /\ Alone(p)
    BY <1>1 DEF Step, Alone
  <2> QED BY <2>1, <2>2, HandlerKeeps, ProgramKeeps DEF IInv
<1>2. ASSUME UNCHANGED vars PROVE IInv'
  <2>1. UNCHANGED <<pc, goal, new, vm_state, list, lru_lock, store>> /\ overlap' = overlap
    BY <1>2 DEF vars
  <2> QED BY <2>1, PanicKeeps DEF IInv
<1> QED BY <1>1, <1>2 DEF Next

\* The invariant of the time before an overlap.
THEOREM Invariant == Spec => []IInv
<1> QED BY InitInv, NextInv, PTL DEF Spec

\* No frame is mapped twice or is free while it is mapped, and the page the
\* clock would free for it is mapped where its vme says: try_to_free_pages,
\* pagedir_clear_page and __free_page are about one and the same page.
THEOREM FramesOwnedAlways == Spec => []FramesOwned
<1>1. IInv => FramesOwned
  <2> SUFFICES ASSUME Inv, NEW p \in Process, NEW v \in Vaddr, Mapped(p, v)
               PROVE  /\ pte[p][v].frame \notin pool
                      /\ \A q \in Process, u \in Vaddr :
                           Mapped(q, u) /\ pte[q][u].frame = pte[p][v].frame => q = p /\ u = v
                      /\ \E g \in Page : /\ page[g] # None /\ page[g].kaddr = pte[p][v].frame
                                         /\ page[g].thread = p /\ page[g].vme \in {v, None}
    BY DEF IInv, FramesOwned
  <2>1. PICK g \in Page : Settled(g) /\ Holds(g, p, v)
    BY DEF Inv, OneToOne
  <2>2. page[g] # None /\ page[g].kaddr = pte[p][v].frame /\ page[g].thread = p /\ page[g].vme \in {v, None}
    BY <2>1 DEF Settled, Holds, AddrOf
  <2> QED BY <2>2, FrameOfOne, PagingAssumption DEF Inv
<1> QED BY <1>1, Invariant, PTL

\* A program finds in each page what it last wrote there, in its frame or,
\* while the page is away, in its slot or in the file: what swap_out, swap_in
\* and handle_mm_fault are for.
THEOREM ContentAlways == Spec => []ContentSurvives
<1>1. IInv => ContentSurvives
  <2> SUFFICES ASSUME Inv, NEW p \in Process, NEW v \in Vaddr
               PROVE  /\ Mapped(p, v) => memory[pte[p][v].frame] = truth[p][v]
                      /\ (vm[p][v] # None /\ ~ Mapped(p, v) /\ ~ InTransit(p, v)) =>
                           LET s == vm[p][v].swap_slot
                           IN  IF vm[p][v].type = "anon" THEN s # None /\ disk[s] = truth[p][v]
                                                         ELSE truth[p][v] = Content(p, v, Initial)
    BY DEF IInv, ContentSurvives
  <2>1. Mapped(p, v) => memory[pte[p][v].frame] = truth[p][v]
    BY DEF Inv, Kept
  <2>2. ASSUME vm[p][v] # None, ~ Mapped(p, v), ~ InTransit(p, v)
        PROVE  /\ vm[p][v].type = "anon" =>
                    vm[p][v].swap_slot # None /\ disk[vm[p][v].swap_slot] = truth[p][v]
               /\ vm[p][v].type # "anon" => truth[p][v] = Content(p, v, Initial)
    <3>1. Saved(p, v)
      BY <2>2 DEF Inv, Kept, Away
    <3>2. None \notin swap_bitmap
      BY PagingAssumption DEF Inv, TypeOK
    <3> QED BY <3>1, <3>2 DEF Saved
  <2> QED BY <2>1, <2>2
<1> QED BY <1>1, Invariant, PTL

\* Until a process ends, the slots in use are those of the pages that are
\* swapped out, one each: swap_out takes a free one and swap_in gives it back.
THEOREM SlotsExactAlways == Spec => []SlotsExact
<1>1. IInv => SlotsExact
  <2> DEFINE Out == {e \in Process \X Vaddr :
                       /\ vm[e[1]][e[2]] # None /\ vm[e[1]][e[2]].type = "anon"
                       /\ ~ Mapped(e[1], e[2]) /\ ~ InTransit(e[1], e[2])}
             Going == {<<page[hand].thread, page[hand].vme>> :
                         p \in {q \in Process : pc[q] = "unmap" /\ vm[page[hand].thread][page[hand].vme].type = "anon"}}
             slot == [e \in Out \cup Going |-> vm[e[1]][e[2]].swap_slot]
  <2> SUFFICES ASSUME Inv, \A p \in Process : pc[p] # "dead"
               PROVE  /\ swap_bitmap = {slot[e] : e \in Out \cup Going}
                      /\ \A d, e \in Out \cup Going : slot[d] = slot[e] => d = e
    BY Zenon DEF IInv, SlotsExact
  <2>1. ASSUME NEW p \in Process, pc[p] = "unmap"
        PROVE  /\ page[hand].thread \in Process /\ page[hand].vme \in Vaddr
               /\ vm[page[hand].thread][page[hand].vme] # None
    <3>1. Alone(p)
      BY <2>1 DEF Inv, OneFault, Alone, AtRest
    <3>2. vm[Victim.thread][Victim.vme] \in Entry /\ Victim.thread \in Process /\ Victim.vme \in Vaddr
      BY <2>1, <3>1, VictimHeld
    <3> QED BY <3>2, PagingAssumption DEF Victim
  <2>2. Out \cup Going \subseteq Process \X Vaddr
    BY <2>1
  <2>3. \A q \in Process, v \in Vaddr : <<q, v>> \in Out \cup Going <=> Swapped(q, v)
    <3> SUFFICES ASSUME NEW q \in Process, NEW v \in Vaddr
                 PROVE  <<q, v>> \in Out \cup Going <=> Swapped(q, v)
      OBVIOUS
    <3>1. <<q, v>> \in Out <=> /\ vm[q][v] # None /\ vm[q][v].type = "anon"
                               /\ ~ Mapped(q, v) /\ ~ InTransit(q, v)
      OBVIOUS
    <3>2. <<q, v>> \in Going <=> Leaving(q, v) /\ vm[q][v].type = "anon"
      BY DEF Leaving
    <3>3. Leaving(q, v) => vm[q][v] # None
      BY <2>1 DEF Leaving
    <3> QED BY <3>1, <3>2, <3>3 DEF Swapped, Away
  <2>4. \A e \in Out \cup Going : \E q \in Process, v \in Vaddr :
          e = <<q, v>> /\ Swapped(q, v) /\ slot[e] = vm[q][v].swap_slot
    <3> HIDE DEF Out, Going
    <3> QED BY <2>2, <2>3
  <2>5. swap_bitmap = {slot[e] : e \in Out \cup Going}
    <3> HIDE DEF Out, Going
    <3>1. ASSUME NEW s \in swap_bitmap PROVE \E e \in Out \cup Going : slot[e] = s
      <4>1. PICK q \in Process, v \in Vaddr : Swapped(q, v) /\ vm[q][v].swap_slot = s
        BY DEF Inv, SlotsOneToOne
      <4>2. <<q, v>> \in Out \cup Going /\ slot[<<q, v>>] = s
        BY <2>3, <4>1
      <4> QED BY <4>2
    <3>2. ASSUME NEW e \in Out \cup Going PROVE slot[e] \in swap_bitmap
      BY <2>4 DEF Inv, Kept, Swapped, Saved
    <3> HIDE DEF slot
    <3> QED BY <3>1, <3>2
  <2>6. \A d, e \in Out \cup Going : slot[d] = slot[e] => d = e
    <3> HIDE DEF Out, Going, slot
    <3> QED BY <2>4 DEF Inv, SlotsOneToOne
  <2> QED BY <2>5, <2>6
<1> QED BY <1>1, Invariant, PTL

-----------------------------------------------------------------------------
(* Types when page faults overlap.                                         *)

\* A page has a frame exactly when it has an owner.
Owners == \A g \in Page : page[g] # None => (page[g].kaddr = None <=> page[g].thread = None)

FramesKnown == \A p \in Process, v \in Vaddr : Mapped(p, v) => pte[p][v].frame \in Frame

\* There is a vm_entry, and a slot where the entry says the page is in one.
Fetchable(p, v) ==
  vm[p][v] # None /\ (vm[p][v].type = "anon" => vm[p][v].swap_slot \in Slot)

\* What a page fault is about, and the struct page it was given.
Request(p) ==
  ~ AtRest(p) =>
    /\ goal[p] \in [kind : {"setup", "fault", "grow"}, vaddr : Vaddr]
    /\ pc[p] \notin {"alloc", "refused"} => new[p] \in Page
    /\ pc[p] = "fill" => goal[p].kind = "fault"
    /\ goal[p].kind = "fault" => Fetchable(p, goal[p].vaddr)

\* A struct page without a frame is used by the process that waits for one.
Reserved(p) == page[new[p]] # None /\ page[new[p]].thread = None

Reserves ==
  /\ \A p \in Process : pc[p] \in Wanting => Reserved(p)
  /\ \A p, q \in Process : pc[p] \in Wanting /\ pc[q] \in Wanting /\ new[p] = new[q] => p = q

\* The page has an owner and an address.
Placed(g) == page[g] # None /\ page[g].thread # None /\ page[g].vme # None

\* Who turns the clock has the lock, and from the choice of the victim until it
\* is free nobody takes it away.
Chosen ==
  \A p \in Process :
    /\ pc[p] \in {"visit", "swap", "unmap", "free"} => lru_lock = p
    /\ pc[p] \in {"swap", "unmap", "free"} => hand \in Page /\ Placed(hand)

Sound ==
  /\ TypeOK /\ HeapFree /\ Owners /\ FramesKnown
  /\ \A p \in Process : Request(p)
  /\ Reserves /\ Chosen

\* What a step of p leaves to the other processes' faults.
OthersStay(p) ==
  \A q \in Process \ {p} :
    /\ goal'[q] = goal[q] /\ new'[q] = new[q]
    /\ \A v \in Vaddr : Fetchable(q, v) => Fetchable(q, v)'

ReservesStay(p, l) ==
  /\ \A q \in Process \ {p} : pc[q] \in Wanting => Reserved(q)'
  /\ l \in Wanting => Reserved(p)' /\ \A q \in Process \ {p} : pc[q] \in Wanting => new[q] # new'[p]

HandStays(p, l) ==
  /\ \/ lru_lock \in {p, None}
     \/ UNCHANGED <<lru_lock, hand>> /\ \A g \in Page : Placed(g) => Placed(g)'
  /\ l \in {"visit", "swap", "unmap", "free"} => lru_lock' = p
  /\ l \in {"swap", "unmap", "free"} => hand' \in Page /\ Placed(hand)'

\* A step of p to the place l.
LEMMA StepSound ==
  ASSUME NEW p \in Process, NEW l \in Label, Sound, pc' = [pc EXCEPT ![p] = l],
         (TypeOK /\ HeapFree /\ Owners /\ FramesKnown)', Request(p)',
         OthersStay(p), ReservesStay(p, l), HandStays(p, l)
  PROVE  Sound'
<1>1. /\ pc'[p] = l /\ \A q \in Process \ {p} : pc'[q] = pc[q]
      /\ \A q \in Process \ {p} : AtRest(q)' <=> AtRest(q)
  BY DEF Sound, TypeOK, AtRest
<1>2. ASSUME NEW q \in Process, q # p PROVE Request(q)'
  <2>1. /\ pc'[q] = pc[q] /\ goal'[q] = goal[q] /\ new'[q] = new[q]
        /\ AtRest(q)' <=> AtRest(q)
        /\ Request(q)
        /\ \A v \in Vaddr : Fetchable(q, v) => Fetchable(q, v)'
    BY <1>1, <1>2 DEF OthersStay, Sound
  <2>2. CASE AtRest(q)
    BY <2>1, <2>2 DEF Request
  <2>3. CASE ~ AtRest(q)
    <3>1. PICK v \in Vaddr : v = goal[q].vaddr
      BY <2>1, <2>3 DEF Request
    <3>2. goal[q].kind = "fault" => Fetchable(q, v)'
      BY <2>1, <2>3, <3>1 DEF Request
    <3>3. goal[q].kind = "fault" => Fetchable(q, goal[q].vaddr)'
      BY <2>1, <3>1, <3>2 DEF Fetchable
    <3> QED BY <2>1, <3>3 DEF Request
  <2> QED BY <2>2, <2>3
<1>3. Reserves'
  <2>1. \A q \in Process \ {p} : new'[q] = new[q]
    BY DEF OthersStay
  <2>2. Reserves
    BY DEF Sound
  <2>3. \A q \in Process : pc'[q] \in Wanting => Reserved(q)'
    BY <1>1 DEF ReservesStay
  <2>4. \A q, r \in Process : pc'[q] \in Wanting /\ pc'[r] \in Wanting /\ new'[q] = new'[r] => q = r
    BY <1>1, <2>1, <2>2 DEF ReservesStay, Reserves
  <2> QED BY <2>3, <2>4 DEF Reserves
<1>4. Chosen'
  <2>1. ASSUME NEW q \in Process, q # p, pc[q] \in {"visit", "swap", "unmap", "free"}
        PROVE  /\ lru_lock' = q
               /\ pc[q] # "visit" => hand' \in Page /\ Placed(hand)'
    <3>1. lru_lock = q /\ (pc[q] # "visit" => hand \in Page /\ Placed(hand))
      BY <2>1 DEF Sound, Chosen
    <3>2. lru_lock \notin {p, None}
      BY <2>1, <3>1, PagingAssumption
    <3>3. UNCHANGED <<lru_lock, hand>> /\ \A g \in Page : Placed(g) => Placed(g)'
      BY <3>2 DEF HandStays
    <3>4. hand \in Page /\ Placed(hand) => Placed(hand)'
      BY <3>3 DEF Placed
    <3> QED BY <3>1, <3>3, <3>4
  <2>2. \A q \in Process \ {p} :
          /\ pc'[q] \in {"visit", "swap", "unmap", "free"} => lru_lock' = q
          /\ pc'[q] \in {"swap", "unmap", "free"} => hand' \in Page /\ Placed(hand)'
    BY <1>1, <2>1
  <2>3. /\ pc'[p] \in {"visit", "swap", "unmap", "free"} => lru_lock' = p
        /\ pc'[p] \in {"swap", "unmap", "free"} => hand' \in Page /\ Placed(hand)'
    BY <1>1 DEF HandStays
  <2> QED BY <2>2, <2>3 DEF Chosen
<1> QED BY <1>2, <1>3, <1>4 DEF Sound

\* A step that takes no block and gives none back.
LEMMA PagesSound ==
  ASSUME NEW p \in Process, NEW l \in Label, Sound, pc' = [pc EXCEPT ![p] = l],
         TypeOK', FramesKnown', Request(p)', OthersStay(p), HandStays(p, l),
         UNCHANGED <<heap, page, new>>, l \in Wanting => pc[p] \in Wanting
  PROVE  Sound'
<1>1. HeapFree' /\ Owners'
  BY DEF Sound, HeapFree, Owners
<1>2. \A q \in Process : Reserved(q)' <=> Reserved(q)
  BY DEF Reserved
<1>3. ReservesStay(p, l)
  BY <1>2 DEF ReservesStay, Sound, Reserves
<1> QED BY <1>1, <1>3, StepSound

LEMMA StillSound ==
  ASSUME Sound, UNCHANGED <<pc, goal, new, vm_state, list, lru_lock, store>>
  PROVE  Sound'
<1> USE DEF vm_state, list, store
<1>1. TypeOK' /\ HeapFree' /\ Owners' /\ FramesKnown'
  BY DEF Sound, TypeOK, HeapFree, Owners, FramesKnown, Mapped
<1>2. \A p \in Process : Request(p)'
  BY DEF Sound, Request, Fetchable, AtRest
<1>3. Reserves' /\ Chosen'
  BY DEF Sound, Reserves, Reserved, Chosen, Placed
<1> QED BY <1>1, <1>2, <1>3 DEF Sound

\* A process ends, wherever it stands.
LEMMA ExitSound ==
  ASSUME NEW p \in Process, Sound, Exit(p)
  PROVE  Sound'
<1>1. CASE Frames(p) \cap pool # {}
  BY <1>1, StillSound DEF Exit, Panic
<1>2. CASE Frames(p) \cap pool = {}
  <2>1. /\ pc' = [pc EXCEPT ![p] = "dead"]
        /\ goal' = [goal EXCEPT ![p] = None]
        /\ vm' = [vm EXCEPT ![p] = [v \in Vaddr |-> None]]
        /\ pte' = [pte EXCEPT ![p] = [v \in Vaddr |-> Absent]]
        /\ pool' = pool \cup Frames(p)
        /\ memory' = [f \in Frame |-> IF f \in Frames(p) THEN None ELSE memory[f]]
        /\ UNCHANGED <<new, truth, list, lru_lock, swap_bitmap, disk>>
    BY <1>2 DEF Exit
  <2>2. "dead" \in Label /\ "dead" \notin Wanting
    BY DEF Label, Wanting
  <2>3. Frames(p) \subseteq Frame
    BY DEF Sound, FramesKnown, Frames
  <2>4. /\ [v \in Vaddr |-> Absent] \in [Vaddr -> PTE] /\ ~ Absent.present
        /\ [v \in Vaddr |-> None] \in [Vaddr -> Entry \cup {None}]
    BY DEF Absent, PTE
  <2>5. TypeOK'
    <3>1. pte' \in [Process -> [Vaddr -> PTE]] /\ vm' \in [Process -> [Vaddr -> Entry \cup {None}]]
      BY <2>1, <2>4 DEF Sound, TypeOK, PTE
    <3>2. memory' \in [Frame -> Contents] /\ pool' \subseteq Frame
      BY <2>1, <2>3 DEF Sound, TypeOK, Contents
    <3> QED BY <2>1, <2>2, <3>1, <3>2 DEF Sound, TypeOK, PTE, list
  <2>6. FramesKnown'
    BY <2>1, <2>4 DEF Sound, TypeOK, FramesKnown, Mapped
  <2>7. Request(p)'
    BY <2>1 DEF Sound, TypeOK, Request, AtRest
  <2>8. OthersStay(p)
    BY <2>1 DEF Sound, TypeOK, OthersStay, Fetchable
  <2>9. HandStays(p, "dead")
    BY <2>1 DEF HandStays, Placed, list
  <2> QED BY <2>1, <2>2, <2>5, <2>6, <2>7, <2>8, <2>9, PagesSound DEF list
<1> QED BY <1>1, <1>2

LEMMA LoadSound ==
  ASSUME NEW p \in Process, Sound, Load(p)
  PROVE  Sound'
<1>1. /\ pc' = [pc EXCEPT ![p] = "alloc"]
      /\ goal' = [goal EXCEPT ![p] = [kind |-> "setup", vaddr |-> Top]]
      /\ UNCHANGED <<new, pte, list, lru_lock, store>>
  BY DEF Load, Begin
<1>2. "alloc" \in Label /\ "alloc" \notin Wanting /\ Top \in Vaddr
  BY DEF Label, Wanting, Vaddr
<1>3. vm' \in [Process -> [Vaddr -> Entry \cup {None}]] /\ \A q \in Process \ {p} : vm'[q] = vm[q]
  <2>1. [v \in Vaddr |-> IF v \in Code \cup Data THEN [type |-> "bin", swap_slot |-> None] ELSE None]
          \in [Vaddr -> Entry \cup {None}]
    BY DEF Entry
  <2> QED BY <2>1 DEF Sound, TypeOK, Load
<1>4. truth' \in [Process -> [Vaddr -> Contents]]
  <2>1. [v \in Vaddr |-> IF v \in Code \cup Data THEN Content(p, v, Initial) ELSE None]
          \in [Vaddr -> Contents]
    BY DEF Contents, Content
  <2> QED BY <2>1 DEF Sound, TypeOK, Load
<1>5. TypeOK'
  BY <1>1, <1>2, <1>3, <1>4 DEF Sound, TypeOK, list, store
<1>6. FramesKnown'
  BY <1>1 DEF Sound, FramesKnown, Mapped
<1>7. Request(p)'
  BY <1>1, <1>2 DEF Sound, TypeOK, Request
<1>8. OthersStay(p)
  BY <1>1, <1>3 DEF Sound, TypeOK, OthersStay, Fetchable
<1>9. HandStays(p, "alloc")
  BY <1>1 DEF HandStays, Placed, list
<1> QED BY <1>1, <1>2, <1>5, <1>6, <1>7, <1>8, <1>9, PagesSound DEF list

\* Page tables that have the same pages in the same frames.
Alike(f, g) ==
  /\ g \in [Process -> [Vaddr -> PTE]]
  /\ \A q \in Process, u \in Vaddr : g[q][u].present = f[q][u].present /\ g[q][u].frame = f[q][u].frame

\* accessed and dirty say nothing of where a page is.
LEMMA BitKeeps ==
  ASSUME NEW f \in [Process -> [Vaddr -> PTE]], NEW p \in Process, NEW v \in Vaddr, NEW b \in BOOLEAN
  PROVE  /\ Alike(f, [f EXCEPT ![p][v].accessed = b])
         /\ Alike(f, [f EXCEPT ![p][v].dirty = b])
<1>1. f[p][v] \in PTE
  OBVIOUS
<1>2. ASSUME NEW e, e = [f[p][v] EXCEPT !.accessed = b] \/ e = [f[p][v] EXCEPT !.dirty = b]
      PROVE  e.present = f[p][v].present /\ e.frame = f[p][v].frame
  BY <1>1, <1>2 DEF PTE
<1>3. Alike(f, [f EXCEPT ![p][v].accessed = b])
  <2> DEFINE g == [f EXCEPT ![p][v].accessed = b]
  <2>1. g \in [Process -> [Vaddr -> PTE]]
    BY SetBit
  <2>2. g[p][v] = [f[p][v] EXCEPT !.accessed = b]
    OBVIOUS
  <2>3. \A q \in Process, u \in Vaddr : ~ (q = p /\ u = v) => g[q][u] = f[q][u]
    OBVIOUS
  <2> HIDE DEF g
  <2> QED BY <2>1, <2>2, <2>3, <1>2 DEF Alike
<1>4. Alike(f, [f EXCEPT ![p][v].dirty = b])
  <2> DEFINE g == [f EXCEPT ![p][v].dirty = b]
  <2>1. g \in [Process -> [Vaddr -> PTE]]
    BY SetBit
  <2>2. g[p][v] = [f[p][v] EXCEPT !.dirty = b]
    OBVIOUS
  <2>3. \A q \in Process, u \in Vaddr : ~ (q = p /\ u = v) => g[q][u] = f[q][u]
    OBVIOUS
  <2> HIDE DEF g
  <2> QED BY <2>1, <2>2, <2>3, <1>2 DEF Alike
<1> QED BY <1>3, <1>4

\* A program reads or writes.
LEMMA AccessSound ==
  ASSUME NEW p \in Process, NEW v \in Vaddr, Sound, Read(p, v) \/ \E x \in Value : Write(p, v, x)
  PROVE  Sound'
<1>1. /\ pc[p] = "user" /\ pc' = [pc EXCEPT ![p] = "user"]
      /\ UNCHANGED <<goal, new, vm, list, lru_lock, pool, swap_bitmap, disk>>
  BY DEF Read, Write, store, Sound, TypeOK
<1>2. "user" \in Label /\ "user" \notin Wanting
  BY DEF Label, Wanting
<1>3. /\ pte' \in [Process -> [Vaddr -> PTE]]
      /\ \A q \in Process, u \in Vaddr : /\ pte'[q][u].present = pte[q][u].present
                                         /\ pte'[q][u].frame = pte[q][u].frame
  <2>1. pte \in [Process -> [Vaddr -> PTE]]
    BY DEF Sound, TypeOK, PTE
  <2> DEFINE g == [pte EXCEPT ![p][v].accessed = TRUE]
  <2>2. pte' = g \/ pte' = [g EXCEPT ![p][v].dirty = TRUE]
    BY DEF Read, Write
  <2> HIDE DEF g
  <2>3. TRUE \in BOOLEAN
    OBVIOUS
  <2>4. Alike(pte, g)
    BY <2>1, <2>3, BitKeeps DEF g
  <2>5. Alike(g, [g EXCEPT ![p][v].dirty = TRUE])
    <3>1. g \in [Process -> [Vaddr -> PTE]]
      BY <2>4 DEF Alike
    <3> QED BY <2>3, <3>1, BitKeeps
  <2>6. CASE pte' = g
    BY <2>4, <2>6 DEF Alike
  <2>7. CASE pte' = [g EXCEPT ![p][v].dirty = TRUE]
    <3>1. Alike(g, pte')
      BY <2>5, <2>7
    <3> QED BY <2>4, <3>1 DEF Alike
  <2> QED BY <2>2, <2>6, <2>7
<1>4. memory' \in [Frame -> Contents] /\ truth' \in [Process -> [Vaddr -> Contents]]
  <2>1. CASE Read(p, v)
    BY <2>1 DEF Read, Sound, TypeOK, store
  <2>2. ASSUME NEW x \in Value, Write(p, v, x) PROVE memory' \in [Frame -> Contents] /\ truth' \in [Process -> [Vaddr -> Contents]]
    <3>1. Content(p, v, x) \in Contents
      BY DEF Content, Contents
    <3> QED BY <2>2, <3>1 DEF Write, Sound, TypeOK
  <2> QED BY <2>1, <2>2
<1>5. TypeOK'
  BY <1>1, <1>2, <1>3, <1>4 DEF Sound, TypeOK, list, PTE
<1>6. FramesKnown'
  BY <1>3 DEF Sound, FramesKnown, Mapped
<1>7. Request(p)'
  BY <1>1 DEF Sound, TypeOK, Request, AtRest
<1>8. OthersStay(p)
  BY <1>1 DEF OthersStay, Fetchable
<1>9. HandStays(p, "user")
  BY <1>1 DEF HandStays, Placed, list
<1> QED BY <1>1, <1>2, <1>5, <1>6, <1>7, <1>8, <1>9, PagesSound DEF list

\* A page fault begins, with the processes before an overlap as IInv has them:
\* the page that is fetched was saved.
LEMMA FaultSound ==
  ASSUME NEW p \in Process, NEW v \in Vaddr, Sound, Inv, Fault(p, v) \/ Grow(p, v)
  PROVE  Sound'
<1>1. PICK k \in {"fault", "grow"} :
        /\ pc[p] = "user"
        /\ k = "fault" => vm[p][v] # None /\ (Mapped(p, v) => v \in Code)
        /\ pc' = [pc EXCEPT ![p] = "alloc"]
        /\ goal' = [goal EXCEPT ![p] = [kind |-> k, vaddr |-> v]]
        /\ UNCHANGED <<new, vm_state, list, lru_lock, store>>
  BY DEF Fault, Grow, Begin
<1>2. "alloc" \in Label /\ "alloc" \notin Wanting
  BY DEF Label, Wanting
<1>3. [kind |-> k, vaddr |-> v] \in [kind : {"setup", "fault", "grow"}, vaddr : Vaddr]
  OBVIOUS
<1>4. TypeOK'
  BY <1>1, <1>2, <1>3 DEF Sound, TypeOK, list, store, vm_state
<1>5. FramesKnown'
  BY <1>1 DEF Sound, FramesKnown, Mapped, vm_state
<1>6. k = "fault" => Fetchable(p, v)
  <2> SUFFICES ASSUME k = "fault", vm[p][v].type = "anon" PROVE vm[p][v].swap_slot \in Slot
    BY <1>1 DEF Fetchable
  <2>1. ~ Mapped(p, v)
    BY <1>1 DEF Inv, Kept, Alive
  <2>2. Away(p, v)
    BY <1>1, <2>1 DEF Away, InTransit
  <2> QED BY <2>2 DEF Inv, Kept, Saved, TypeOK
<1>7. Request(p)'
  <2>1. /\ pc'[p] = "alloc" /\ goal'[p] = [kind |-> k, vaddr |-> v]
        /\ goal'[p].kind = k /\ goal'[p].vaddr = v /\ vm' = vm
    BY <1>1 DEF Sound, TypeOK, vm_state
  <2> QED BY <1>3, <1>6, <2>1 DEF Request, Fetchable
<1>8. OthersStay(p)
  BY <1>1 DEF Sound, TypeOK, OthersStay, Fetchable, vm_state
<1>9. HandStays(p, "alloc")
  BY <1>1 DEF HandStays, Placed, list
<1> QED BY <1>1, <1>2, <1>4, <1>5, <1>7, <1>8, <1>9, PagesSound DEF list

\* The clock.
LEMMA VisitSound ==
  ASSUME NEW p \in Process, Sound, LockList(p) \/ Visit(p) \/ VisitUnset(p)
  PROVE  Sound'
<1>1. ~ AtRest(p) /\ Request(p) /\ pc[p] \in {"lock", "visit"} /\ new[p] \in Page
  BY DEF LockList, Visit, VisitUnset, AtRest, Sound, Request
<1>2. goal[p].kind = "fault" => goal[p].kind \in {"fault"}
  OBVIOUS
<1>3. ASSUME NEW l \in {"visit", "retry", "swap"},
             pc' = [pc EXCEPT ![p] = l], TypeOK', FramesKnown', HandStays(p, l),
             UNCHANGED <<goal, new, vm, heap, page>>
      PROVE  Sound'
  <2>1. l \in Label /\ pc[p] \in Wanting
    BY <1>1 DEF Label, Wanting
  <2>2. pc'[p] = l
    BY <1>3 DEF Sound, TypeOK
  <2>3. Request(p)'
    BY <1>1, <1>3, <2>2 DEF Request, Fetchable
  <2>4. OthersStay(p)
    BY <1>3 DEF OthersStay, Fetchable
  <2> QED BY <1>3, <2>1, <2>3, <2>4, PagesSound
<1>4. CASE LockList(p)
  <2>1. PICK l \in {"visit", "retry"} :
          /\ pc' = [pc EXCEPT ![p] = l] /\ lru_lock = None
          /\ lru_lock' \in {p, None} /\ (l = "visit" => lru_lock' = p)
          /\ UNCHANGED <<goal, new, vm_state, list, store>>
    BY <1>4 DEF LockList, Goto
  <2>2. l \in Label
    BY DEF Label
  <2>3. TypeOK'
    BY <2>1, <2>2 DEF Sound, TypeOK, vm_state, list, store
  <2>4. FramesKnown'
    BY <2>1 DEF Sound, FramesKnown, Mapped, vm_state
  <2>5. HandStays(p, l)
    BY <2>1 DEF HandStays
  <2> QED BY <1>3, <2>1, <2>3, <2>4, <2>5 DEF vm_state, list
<1>5. CASE Visit(p)
  <2> DEFINE h == NextHand(next, hand)
  <2>1. /\ pc[p] = "visit" /\ h \in Owned /\ page[h].vme # None /\ hand' = h
        /\ UNCHANGED <<goal, new, vm, truth, heap, page, next, prev, lru_lock, store>>
    BY <1>5 DEF Visit
  <2>2. h \in Page /\ Placed(h) /\ page[h].thread \in Process /\ page[h].vme \in Vaddr
    <3>1. h \in Page /\ page[h] # None /\ page[h].thread # None
      BY <2>1 DEF Owned
    <3>2. page[h] \in Struct
      BY <3>1 DEF Sound, TypeOK
    <3> QED BY <2>1, <3>1, <3>2 DEF Struct, Placed
  <2>3. \/ pc' = [pc EXCEPT ![p] = "visit"] /\ pte' = [pte EXCEPT ![page[h].thread][page[h].vme].accessed = FALSE]
        \/ pc' = [pc EXCEPT ![p] = "swap"] /\ pte' = pte
    <3>1. pc = [pc EXCEPT ![p] = "visit"]
      BY <2>1 DEF Sound, TypeOK
    <3> QED BY <1>5, <3>1 DEF Visit, Spared, Goto
  <2> HIDE DEF h
  <2>4. Alike(pte, pte')
    <3>1. pte \in [Process -> [Vaddr -> PTE]] /\ FALSE \in BOOLEAN
      BY DEF Sound, TypeOK, PTE
    <3>2. CASE pte' = pte
      BY <3>1, <3>2 DEF Alike
    <3>3. CASE pte' = [pte EXCEPT ![page[h].thread][page[h].vme].accessed = FALSE]
      BY <2>2, <3>1, <3>3, BitKeeps
    <3> QED BY <2>3, <3>2, <3>3
  <2>5. PICK l \in {"visit", "swap"} : pc' = [pc EXCEPT ![p] = l]
    BY <2>3
  <2>6. TypeOK'
    <3>1. l \in Label /\ hand' \in Elem
      BY <2>1, <2>2 DEF Label, Elem
    <3> QED BY <2>1, <2>4, <2>5, <3>1 DEF Sound, TypeOK, Alike, PTE, store
  <2>7. FramesKnown'
    BY <2>4 DEF Sound, FramesKnown, Mapped, Alike
  <2>8. HandStays(p, l)
    <3>1. lru_lock = p /\ lru_lock' = p
      BY <2>1 DEF Sound, Chosen
    <3>2. hand' \in Page /\ Placed(hand)'
      BY <2>1, <2>2 DEF Placed
    <3> QED BY <3>1, <3>2 DEF HandStays
  <2> QED BY <1>3, <2>1, <2>5, <2>6, <2>7, <2>8
<1>6. CASE VisitUnset(p)
  <2>1. CASE Panic("pg_ofs")
    BY <2>1, StillSound DEF Panic
  <2>2. CASE ~ Panic("pg_ofs")
    <3>1. /\ pc[p] = "visit" /\ hand' \in Page
          /\ UNCHANGED <<pc, goal, new, vm_state, heap, page, next, prev, lru_lock, store>>
      BY <1>6, <2>2 DEF VisitUnset, Owned
    <3>2. pc' = [pc EXCEPT ![p] = "visit"]
      BY <3>1 DEF Sound, TypeOK
    <3>3. TypeOK' /\ FramesKnown'
      BY <3>1 DEF Sound, TypeOK, FramesKnown, Mapped, Elem, vm_state, store
    <3>4. HandStays(p, "visit")
      BY <3>1 DEF Sound, Chosen, HandStays
    <3> QED BY <1>3, <3>1, <3>2, <3>3, <3>4 DEF vm_state
  <2> QED BY <2>1, <2>2
<1> QED BY <1>4, <1>5, <1>6

\* The links of lru_list after list_push_back: a link into freed memory or to
\* a page that is no longer there has its type as well.
LEMMA PushType ==
  ASSUME Sound, NEW g \in Page, list_push_back(g)
  PROVE  next' \in Links /\ prev' \in Links
<1>1. next \in Links /\ prev \in Links /\ prev[ListTail] \in Elem /\ g \in Elem /\ ListTail \in Elem
  BY DEF Sound, TypeOK, Links, Elem
<1> QED BY <1>1 DEF list_push_back, Links

LEMMA LinkSound ==
  ASSUME NEW p \in Process, Sound, Link(p) \/ (SetVme(p) /\ goal[p].kind # "fault")
  PROVE  Sound'
<1>1. PICK l \in {"install", "vme"} :
        /\ pc[p] \in {"link", "vme"} /\ pc' = [pc EXCEPT ![p] = l]
        /\ list_push_back(new[p])
        /\ UNCHANGED <<goal, new, vm_state, heap, page, hand, lru_lock, store>>
  BY DEF Link, SetVme, Goto
<1>2. l \in Label /\ l \notin Wanting
  BY DEF Label, Wanting
<1>3. ~ AtRest(p) /\ Request(p) /\ new[p] \in Page
  BY <1>1 DEF AtRest, Sound, Request
<1>4. next' \in Links /\ prev' \in Links
  BY <1>1, <1>3, PushType
<1>5. TypeOK' /\ FramesKnown'
  BY <1>1, <1>2, <1>4 DEF Sound, TypeOK, FramesKnown, Mapped, Links, vm_state, store
<1>6. Request(p)'
  <2>1. pc'[p] = l
    BY <1>1 DEF Sound, TypeOK
  <2> QED BY <1>1, <1>3, <2>1 DEF Request, Fetchable, vm_state
<1>7. OthersStay(p)
  BY <1>1 DEF OthersStay, Fetchable, vm_state
<1>8. HandStays(p, l)
  BY <1>1 DEF HandStays, Placed
<1> QED BY <1>1, <1>2, <1>5, <1>6, <1>7, <1>8, PagesSound

\* The victim goes to its slot: its vm_entry may be one that somebody fetches
\* already, and says where the page is from now on.
LEMMA SwapOutSound ==
  ASSUME NEW p \in Process, Sound, SwapOut(p)
  PROVE  Sound'
<1> DEFINE q == Victim.thread
           v == Victim.vme
           s == Lowest(Slot \ swap_bitmap)
<1>1. pc[p] = "swap" /\ UNCHANGED <<goal, new, pte, truth, list, lru_lock, pool, memory>>
  BY DEF SwapOut
<1>2. ~ AtRest(p) /\ Request(p) /\ new[p] \in Page /\ pc[p] \in Wanting /\ "unmap" \in Label
  BY <1>1 DEF AtRest, Sound, Request, Wanting, Label
<1>3. hand \in Page /\ Placed(hand) /\ lru_lock = p
  BY <1>1 DEF Sound, Chosen
<1>4. /\ q \in Process /\ v \in Vaddr /\ Victim.kaddr \in Frame
  <2>1. page[hand] \in Struct /\ page[hand] # None
    BY <1>3 DEF Sound, TypeOK, Placed
  <2>2. page[hand].kaddr # None
    BY <1>3 DEF Sound, Owners, Placed
  <2> QED BY <1>3, <2>1, <2>2 DEF Struct, Placed, Victim
<1>5. CASE UNCHANGED <<pc, vm, swap_bitmap, disk>>
  <2>1. CASE panic' = "check_sector"
    BY <1>1, <1>5, StillSound DEF vm_state, list, store
  <2> QED BY <1>1, <1>5, StillSound DEF vm_state, list, store
<1>6. CASE ~ UNCHANGED <<pc, vm, swap_bitmap, disk>>
  <2>1. /\ pc' = [pc EXCEPT ![p] = "unmap"]
        /\ \/ UNCHANGED <<vm, swap_bitmap, disk>>
           \/ /\ swap_bitmap # Slot
              /\ vm' = [vm EXCEPT ![q][v] = [type |-> "anon", swap_slot |-> s]]
              /\ swap_bitmap' = swap_bitmap \cup {s}
              /\ disk' = [disk EXCEPT ![s] = memory[Victim.kaddr]]
    BY <1>6 DEF SwapOut, Goto
  <2>2. swap_bitmap # Slot => s \in Slot
    <3>1. (Slot \ swap_bitmap) \in SUBSET Nat /\ swap_bitmap \subseteq Slot
      BY PagingAssumption DEF Sound, TypeOK
    <3>2. swap_bitmap # Slot => Slot \ swap_bitmap # {}
      BY <3>1
    <3>3. swap_bitmap # Slot => s \in Slot \ swap_bitmap
      BY <3>1, <3>2, LowestIn
    <3> QED BY <3>3
  <2> HIDE DEF q, v, s
  <2>3. /\ vm' \in [Process -> [Vaddr -> Entry \cup {None}]]
        /\ swap_bitmap' \subseteq Slot /\ disk' \in [Slot -> Contents]
    <3>1. CASE UNCHANGED <<vm, swap_bitmap, disk>>
      BY <3>1 DEF Sound, TypeOK
    <3>2. CASE ~ UNCHANGED <<vm, swap_bitmap, disk>>
      <4>1. [type |-> "anon", swap_slot |-> s] \in Entry /\ s \in Slot
        BY <2>1, <2>2, <3>2 DEF Entry
      <4>2. memory[Victim.kaddr] \in Contents
        BY <1>4 DEF Sound, TypeOK
      <4>3. /\ vm' = [vm EXCEPT ![q][v] = [type |-> "anon", swap_slot |-> s]]
            /\ swap_bitmap' = swap_bitmap \cup {s}
            /\ disk' = [disk EXCEPT ![s] = memory[Victim.kaddr]]
        BY <2>1, <3>2
      <4>4. vm' \in [Process -> [Vaddr -> Entry \cup {None}]]
        BY <4>1, <4>3 DEF Sound, TypeOK
      <4>5. swap_bitmap' \subseteq Slot /\ disk' \in [Slot -> Contents]
        BY <4>1, <4>2, <4>3 DEF Sound, TypeOK
      <4> QED BY <4>4, <4>5
    <3> QED BY <3>1, <3>2
  <2>4. \A r \in Process, u \in Vaddr : Fetchable(r, u) => Fetchable(r, u)'
    <3>1. CASE vm' = vm
      BY <3>1 DEF Fetchable
    <3>2. CASE vm' # vm
      <4>1. s \in Slot /\ vm'[q][v] = [type |-> "anon", swap_slot |-> s]
        BY <1>4, <2>1, <2>2, <3>2 DEF Sound, TypeOK
      <4>2. vm'[q][v] # None
        BY <4>1, PagingAssumption DEF Entry
      <4>3. \A r \in Process, u \in Vaddr : ~ (r = q /\ u = v) => vm'[r][u] = vm[r][u]
        BY <1>4, <2>1, <3>2 DEF Sound, TypeOK
      <4> QED BY <4>1, <4>2, <4>3 DEF Fetchable
    <3> QED BY <3>1, <3>2
  <2>5. TypeOK'
    BY <1>1, <1>2, <2>1, <2>3 DEF Sound, TypeOK, list
  <2>6. FramesKnown'
    BY <1>1 DEF Sound, FramesKnown, Mapped
  <2>7. Request(p)'
    <3>1. pc'[p] = "unmap" /\ goal' = goal /\ new' = new
      BY <1>1, <2>1 DEF Sound, TypeOK
    <3>2. PICK u \in Vaddr : u = goal[p].vaddr
      BY <1>2 DEF Request
    <3>3. goal[p].kind = "fault" => Fetchable(p, u)'
      BY <1>2, <2>4, <3>2 DEF Request
    <3>4. goal[p].kind = "fault" => Fetchable(p, goal[p].vaddr)'
      BY <3>1, <3>2, <3>3 DEF Fetchable
    <3> QED BY <1>2, <3>1, <3>4 DEF Request
  <2>8. OthersStay(p)
    BY <1>1, <2>4 DEF OthersStay
  <2>9. HandStays(p, "unmap")
    BY <1>1, <1>3 DEF HandStays, Placed, list
  <2> QED BY <1>1, <1>2, <2>1, <2>5, <2>6, <2>7, <2>8, <2>9, PagesSound DEF list
<1> QED BY <1>5, <1>6

LEMMA UnmapSound ==
  ASSUME NEW p \in Process, Sound, Unmap(p)
  PROVE  Sound'
<1>1. /\ pc[p] = "unmap" /\ pc' = [pc EXCEPT ![p] = "free"]
      /\ pte' = [pte EXCEPT ![Victim.thread][Victim.vme].present = FALSE]
      /\ UNCHANGED <<goal, new, vm, truth, list, lru_lock, store>>
  BY DEF Unmap, Goto
<1>2. ~ AtRest(p) /\ Request(p) /\ new[p] \in Page /\ pc[p] \in Wanting /\ "free" \in Label
  BY <1>1 DEF AtRest, Sound, Request, Wanting, Label
<1>3. hand \in Page /\ Placed(hand) /\ lru_lock = p
  BY <1>1 DEF Sound, Chosen
<1>4. Victim.thread \in Process /\ Victim.vme \in Vaddr
  <2>1. page[hand] \in Struct
    BY <1>3 DEF Sound, TypeOK, Placed
  <2> QED BY <1>3, <2>1 DEF Struct, Placed, Victim
<1>5. /\ pte' \in [Process -> [Vaddr -> PTE]]
      /\ \A r \in Process, u \in Vaddr : pte'[r][u].present => pte[r][u].present /\ pte'[r][u].frame = pte[r][u].frame
  <2> DEFINE q == Victim.thread
             v == Victim.vme
  <2>1. pte \in [Process -> [Vaddr -> PTE]] /\ FALSE \in BOOLEAN
    BY DEF Sound, TypeOK, PTE
  <2>2. pte' \in [Process -> [Vaddr -> PTE]]
    BY <1>1, <1>4, <2>1, SetBit
  <2> HIDE DEF q, v
  <2>3. pte'[q][v] = [pte[q][v] EXCEPT !.present = FALSE] /\ pte[q][v] \in PTE
    BY <1>1, <1>4, <2>1 DEF q, v
  <2>4. ~ pte'[q][v].present
    BY <2>3 DEF PTE
  <2>5. \A r \in Process, u \in Vaddr : ~ (r = q /\ u = v) => pte'[r][u] = pte[r][u]
    BY <1>1, <1>4, <2>1 DEF q, v
  <2> QED BY <2>2, <2>4, <2>5
<1>6. TypeOK'
  BY <1>1, <1>2, <1>5 DEF Sound, TypeOK, PTE, list, store
<1>7. FramesKnown'
  BY <1>5 DEF Sound, FramesKnown, Mapped
<1>8. Request(p)'
  <2>1. pc'[p] = "free"
    BY <1>1 DEF Sound, TypeOK
  <2> QED BY <1>1, <1>2, <2>1 DEF Request, Fetchable
<1>9. OthersStay(p)
  BY <1>1 DEF OthersStay, Fetchable
<1>10. HandStays(p, "free")
  BY <1>1, <1>3 DEF HandStays, Placed, list
<1> QED BY <1>1, <1>2, <1>6, <1>7, <1>8, <1>9, <1>10, PagesSound DEF list

\* The page is read from the file or from its slot, which is known.
LEMMA FillSound ==
  ASSUME NEW p \in Process, Sound, LoadFile(p) \/ SwapIn(p)
  PROVE  Sound'
<1> DEFINE v == goal[p].vaddr
<1>1. /\ pc[p] = "fill" /\ HasPage(p) /\ pc' = [pc EXCEPT ![p] = "install"]
      /\ UNCHANGED <<goal, new, vm_state, list, lru_lock, pool, disk>>
  BY DEF LoadFile, SwapIn, Goto
<1>2. ~ AtRest(p) /\ Request(p) /\ new[p] \in Page /\ goal[p].kind = "fault"
  BY <1>1 DEF AtRest, Sound, Request
<1>3. v \in Vaddr /\ Fetchable(p, v) /\ "install" \in Label /\ "install" \notin Wanting
  BY <1>2 DEF Request, Label, Wanting
<1>4. memory' \in [Frame -> Contents] /\ swap_bitmap' \subseteq Slot
  <2>1. CASE LoadFile(p)
    <3>1. Content(p, v, Initial) \in Contents
      BY <1>3 DEF Content, Contents
    <3> QED BY <2>1, <3>1 DEF LoadFile, Sound, TypeOK
  <2>2. CASE SwapIn(p)
    <3>1. vm[p][v].swap_slot \in Slot
      BY <1>3, <2>2 DEF SwapIn, Fetchable
    <3>2. disk[vm[p][v].swap_slot] \in Contents
      BY <3>1 DEF Sound, TypeOK
    <3> QED BY <2>2, <3>1, <3>2 DEF SwapIn, Flip, Sound, TypeOK
  <2> QED BY <2>1, <2>2
<1>5. TypeOK'
  BY <1>1, <1>3, <1>4 DEF Sound, TypeOK, vm_state, list
<1>6. FramesKnown'
  BY <1>1 DEF Sound, FramesKnown, Mapped, vm_state
<1>7. Request(p)'
  <2>1. pc'[p] = "install"
    BY <1>1 DEF Sound, TypeOK
  <2> QED BY <1>1, <1>2, <2>1 DEF Request, Fetchable, vm_state
<1>8. OthersStay(p)
  BY <1>1 DEF OthersStay, Fetchable, vm_state
<1>9. HandStays(p, "install")
  BY <1>1 DEF HandStays, Placed, list
<1> QED BY <1>1, <1>3, <1>5, <1>6, <1>7, <1>8, <1>9, PagesSound DEF list

\* vme is set in the struct page that was allocated.
LEMMA VmeSound ==
  ASSUME NEW p \in Process, NEW l \in Label, NEW v \in Vaddr, NEW g \in Page,
         Sound, pc' = [pc EXCEPT ![p] = l], l \in {"fill", "user"},
         page[g] # None, page' = [page EXCEPT ![g].vme = v],
         page' \in [Page -> {None} \cup Struct] => TypeOK',
         FramesKnown', Request(p)', OthersStay(p),
         UNCHANGED <<heap, hand, lru_lock>>
  PROVE  Sound'
<1>1. page \in [Page -> {None} \cup Struct]
  BY DEF Sound, TypeOK
<1>2. /\ page'[g] \in Struct /\ page'[g] # None /\ page'[g].vme = v
      /\ page'[g].kaddr = page[g].kaddr /\ page'[g].thread = page[g].thread
      /\ \A h \in Page : h # g => page'[h] = page[h]
  <2>1. page[g] \in Struct /\ page'[g] = [page[g] EXCEPT !.vme = v]
    BY <1>1
  <2>2. page'[g] \in Struct /\ page'[g].vme = v /\ page'[g].kaddr = page[g].kaddr /\ page'[g].thread = page[g].thread
    BY <2>1 DEF Struct
  <2>3. page'[g] # None
    BY <2>2, PagingAssumption
  <2> QED BY <1>1, <2>2, <2>3
<1>3. page' \in [Page -> {None} \cup Struct]
  BY <1>1, <1>2
<1>4. HeapFree' /\ Owners'
  <2>1. \A h \in Page : page[h] = None => page'[h] = None
    BY <1>2
  <2>2. \A i \in DOMAIN heap : heap[i] \in Page
    BY DEF Sound, TypeOK
  <2>3. HeapFree'
    BY <2>1, <2>2 DEF Sound, HeapFree
  <2> QED BY <1>2, <2>3 DEF Sound, Owners
<1>5. \A h \in Page : Placed(h) => Placed(h)'
  BY <1>2, PagingAssumption DEF Placed, Vaddr
<1>6. ReservesStay(p, l)
  <2>1. ASSUME NEW q \in Process, q # p, pc[q] \in Wanting PROVE Reserved(q)'
    <3>1. Reserved(q) /\ new'[q] = new[q]
      BY <2>1 DEF Sound, Reserves, OthersStay
    <3>2. new[q] \in Page
      BY <2>1 DEF Sound, Request, Wanting, AtRest
    <3>3. page'[new[q]] # None /\ page'[new[q]].thread = page[new[q]].thread
      BY <1>2, <3>1, <3>2 DEF Reserved
    <3> QED BY <3>1, <3>3 DEF Reserved
  <2> QED BY <2>1 DEF ReservesStay, Wanting
<1>7. HandStays(p, l)
  BY <1>5 DEF HandStays
<1> QED BY <1>3, <1>4, <1>6, <1>7, StepSound

LEMMA SetVmeSound ==
  ASSUME NEW p \in Process, Sound, SetVme(p), goal[p].kind = "fault"
  PROVE  Sound'
<1>1. /\ pc[p] = "vme" /\ pc' = [pc EXCEPT ![p] = "fill"]
      /\ page[new[p]] # None /\ page' = [page EXCEPT ![new[p]].vme = goal[p].vaddr]
      /\ UNCHANGED <<goal, new, vm_state, heap, next, prev, hand, lru_lock, store>>
  BY DEF SetVme, Goto
<1>2. ~ AtRest(p) /\ Request(p) /\ new[p] \in Page /\ "fill" \in Label
  BY <1>1 DEF AtRest, Sound, Request, Label
<1>3. goal[p].vaddr \in Vaddr
  BY <1>2 DEF Request
<1>4. page' \in [Page -> {None} \cup Struct] => TypeOK'
  BY <1>1, <1>2 DEF Sound, TypeOK, vm_state, store
<1>5. FramesKnown'
  BY <1>1 DEF Sound, FramesKnown, Mapped, vm_state
<1>6. Request(p)'
  <2>1. pc'[p] = "fill"
    BY <1>1 DEF Sound, TypeOK
  <2> QED BY <1>1, <1>2, <2>1 DEF Request, Fetchable, vm_state
<1>7. OthersStay(p)
  BY <1>1 DEF OthersStay, Fetchable, vm_state
<1> QED BY <1>1, <1>2, <1>3, <1>4, <1>5, <1>6, <1>7, VmeSound

\* The mapping is installed.
LEMMA InstallSound ==
  ASSUME NEW p \in Process, Sound, Install(p)
  PROVE  Sound'
<1> DEFINE v == goal[p].vaddr
           g == new[p]
<1>1. /\ pc[p] = "install" /\ HasPage(p)
      /\ pc' = [pc EXCEPT ![p] = "user"]
      /\ pte' = [pte EXCEPT ![p][v] = Present(Kaddr(p))]
      /\ goal' = [goal EXCEPT ![p] = None]
      /\ new' = [new EXCEPT ![p] = None]
      /\ UNCHANGED <<heap, next, prev, hand, lru_lock, store>>
      /\ \/ UNCHANGED <<vm, truth>>
         \/ /\ vm' = [vm EXCEPT ![p][v] = [type |-> "anon", swap_slot |-> None]]
            /\ truth' = [truth EXCEPT ![p][v] = Content(p, v, Initial)]
      /\ page' = page \/ page' = [page EXCEPT ![g].vme = v]
  BY DEF Install, Goto
<1>2. ~ AtRest(p) /\ Request(p) /\ g \in Page /\ "user" \in Label /\ "user" \notin Wanting
  BY <1>1 DEF AtRest, Sound, Request, Label, Wanting
<1>3. v \in Vaddr /\ page[g] # None /\ Kaddr(p) \in Frame
  <2>1. page[g] # None /\ page[g].kaddr # None
    BY <1>1 DEF HasPage, Kaddr
  <2>2. page[g] \in Struct
    BY <1>2, <2>1 DEF Sound, TypeOK
  <2> QED BY <1>2, <2>1, <2>2 DEF Request, Struct, Kaddr
<1> HIDE DEF v, g
<1>4. /\ pte' \in [Process -> [Vaddr -> PTE]]
      /\ \A q \in Process, u \in Vaddr : pte'[q][u] = IF q = p /\ u = v THEN Present(Kaddr(p)) ELSE pte[q][u]
  <2>1. Present(Kaddr(p)) \in PTE
    BY <1>3 DEF Present, PTE
  <2>2. pte \in [Process -> [Vaddr -> PTE]]
    BY DEF Sound, TypeOK, PTE
  <2> QED BY <1>1, <1>3, <2>1, <2>2
<1>5. /\ vm' \in [Process -> [Vaddr -> Entry \cup {None}]]
      /\ truth' \in [Process -> [Vaddr -> Contents]]
      /\ \A q \in Process : q # p => vm'[q] = vm[q]
  <2>1. [type |-> "anon", swap_slot |-> None] \in Entry /\ Content(p, v, Initial) \in Contents
    BY <1>3 DEF Entry, Content, Contents
  <2>2. CASE UNCHANGED <<vm, truth>>
    BY <2>2 DEF Sound, TypeOK
  <2>3. CASE /\ vm' = [vm EXCEPT ![p][v] = [type |-> "anon", swap_slot |-> None]]
             /\ truth' = [truth EXCEPT ![p][v] = Content(p, v, Initial)]
    BY <1>3, <2>1, <2>3 DEF Sound, TypeOK
  <2> QED BY <1>1, <2>2, <2>3
<1>6. goal' \in [Process -> {None} \cup [kind : {"setup", "fault", "grow"}, vaddr : Vaddr]]
      /\ new' \in [Process -> Page \cup {None}]
  BY <1>1 DEF Sound, TypeOK
<1>7. page' \in [Page -> {None} \cup Struct] => TypeOK'
  BY <1>1, <1>2, <1>4, <1>5, <1>6 DEF Sound, TypeOK, PTE, store
<1>8. FramesKnown'
  <2>1. Present(Kaddr(p)).frame \in Frame
    BY <1>3 DEF Present
  <2> QED BY <1>4, <2>1 DEF Sound, FramesKnown, Mapped
<1>9. Request(p)'
  BY <1>1 DEF Sound, TypeOK, Request, AtRest
<1>10. OthersStay(p)
  BY <1>1, <1>5 DEF Sound, TypeOK, OthersStay, Fetchable
<1>11. CASE page' = [page EXCEPT ![g].vme = v]
  BY <1>1, <1>2, <1>3, <1>7, <1>8, <1>9, <1>10, <1>11, VmeSound
<1>12. CASE page' = page
  <2>1. TypeOK'
    BY <1>7, <1>12 DEF Sound, TypeOK
  <2>2. HeapFree' /\ Owners'
    BY <1>1, <1>12 DEF Sound, HeapFree, Owners
  <2>3. ReservesStay(p, "user")
    BY <1>2, <1>10, <1>12 DEF ReservesStay, Sound, Reserves, Reserved, OthersStay
  <2>4. HandStays(p, "user")
    BY <1>1, <1>12 DEF HandStays, Placed
  <2> QED BY <1>1, <1>2, <1>8, <1>9, <1>10, <2>1, <2>2, <2>3, <2>4, StepSound
<1> QED BY <1>1, <1>11, <1>12

\* g is nobody's, becomes p's and is no longer in the heap.
Takes(p, g) ==
  /\ ~ Placed(g) /\ \A q \in Process \ {p} : pc[q] \in Wanting => new[q] # g
  /\ new' \in [Process -> Page \cup {None}] /\ new'[p] = g
  /\ \A q \in Process \ {p} : new'[q] = new[q]
  /\ heap' \in Seq(Page)
  /\ \A i \in DOMAIN heap' : heap'[i] # g /\ page[heap'[i]] = None
  /\ \A i, j \in DOMAIN heap' : heap'[i] = heap'[j] => i = j

\* alloc_page gives g to p, with a frame or without one.
LEMMA GivePage ==
  ASSUME NEW p \in Process, NEW g \in Page, NEW l \in {"link", "lock"}, NEW e \in Struct,
         Sound, pc[p] \in {"alloc", "retry"}, pc' = [pc EXCEPT ![p] = l],
         Takes(p, g), e.kaddr = None <=> e.thread = None, l = "lock" => e.thread = None,
         page' = [page EXCEPT ![g] = e], pool' \subseteq Frame, memory' \in [Frame -> Contents],
         UNCHANGED <<goal, vm_state, next, prev, hand, lru_lock, swap_bitmap, disk>>
  PROVE  Sound'
<1> USE DEF Takes
<1>1. ~ AtRest(p) /\ Request(p) /\ l \in Label
  BY DEF AtRest, Sound, Label
<1>2. /\ page' \in [Page -> {None} \cup Struct]
      /\ page'[g] = e /\ e # None
      /\ \A h \in Page : h # g => page'[h] = page[h]
  BY PagingAssumption DEF Sound, TypeOK
<1>3. TypeOK'
  BY <1>1, <1>2 DEF Sound, TypeOK, vm_state
<1>4. HeapFree'
  <2>1. \A i \in DOMAIN heap' : heap'[i] \in Page
    OBVIOUS
  <2> QED BY <1>2, <2>1 DEF HeapFree
<1>5. Owners' /\ FramesKnown'
  BY <1>2 DEF Sound, Owners, FramesKnown, Mapped, vm_state
<1>6. Request(p)'
  <2>1. pc'[p] = l
    BY DEF Sound, TypeOK
  <2> QED BY <1>1, <2>1 DEF Request, Fetchable, vm_state
<1>7. OthersStay(p)
  BY DEF OthersStay, Fetchable, vm_state
<1>8. ReservesStay(p, l)
  <2>1. ASSUME NEW q \in Process \ {p}, pc[q] \in Wanting PROVE Reserved(q)'
    <3>1. Reserved(q) /\ new[q] \in Page /\ new[q] # g /\ new'[q] = new[q]
      BY <2>1 DEF Sound, Reserves, Request, Wanting, AtRest
    <3> QED BY <1>2, <3>1 DEF Reserved
  <2>2. l = "lock" => Reserved(p)'
    BY <1>2 DEF Reserved
  <2> QED BY <2>1, <2>2 DEF ReservesStay, Wanting
<1>9. HandStays(p, l)
  <2>1. \A h \in Page : Placed(h) => Placed(h)'
    BY <1>2 DEF Placed
  <2> QED BY <2>1 DEF HandStays
<1> QED BY <1>1, <1>3, <1>4, <1>5, <1>6, <1>7, <1>8, <1>9, StepSound

\* palloc_get_page had a frame.
LEMMA TakeType ==
  ASSUME NEW p \in Process, NEW g \in Page, Sound, pc[p] \in {"alloc", "retry"}, pool # {}, TakeFrame(p, g)
  PROVE  /\ pc' = [pc EXCEPT ![p] = "link"]
         /\ \E f \in Frame : page' = [page EXCEPT ![g] = [kaddr |-> f, vme |-> None, thread |-> p]]
         /\ pool' \subseteq Frame /\ memory' \in [Frame -> Contents]
<1> DEFINE f == Lowest(pool)
<1>1. f \in Frame
  <2>1. pool \in SUBSET Nat /\ pool \subseteq Frame
    BY PagingAssumption DEF Sound, TypeOK
  <2>2. f \in pool
    BY <2>1, LowestIn
  <2> QED BY <2>1, <2>2
<1>2. goal[p].vaddr \in Vaddr
  BY DEF Sound, Request, AtRest
<1>3. Content(p, goal[p].vaddr, Initial) \in Contents
  BY <1>2 DEF Content, Contents
<1>4. /\ pc' = [pc EXCEPT ![p] = "link"] /\ pool' = pool \ {f}
      /\ page' = [page EXCEPT ![g] = [kaddr |-> f, vme |-> None, thread |-> p]]
      /\ memory' = memory \/ memory' = [memory EXCEPT ![f] = Content(p, goal[p].vaddr, Initial)]
  BY DEF TakeFrame, Goto
<1> HIDE DEF f
<1>5. pool' \subseteq Frame /\ memory' \in [Frame -> Contents]
  BY <1>1, <1>3, <1>4 DEF Sound, TypeOK
<1> QED BY <1>1, <1>4, <1>5

LEMMA NewPageSound ==
  ASSUME NEW p \in Process, Sound, NewPage(p)
  PROVE  Sound'
<1> DEFINE g == Head(heap)
<1>1. /\ pc[p] = "alloc" /\ heap # <<>> /\ heap' = Tail(heap)
      /\ new' = [new EXCEPT ![p] = g]
      /\ UNCHANGED <<goal, vm_state, next, prev, hand, lru_lock, swap_bitmap, disk>>
      /\ IF pool # {} THEN TakeFrame(p, g)
         ELSE /\ page' = [page EXCEPT ![g] = Blank]
              /\ pc' = [pc EXCEPT ![p] = "lock"]
              /\ UNCHANGED <<pool, memory>>
  BY DEF NewPage, Goto, Blank
<1>2. /\ g \in Page /\ page[g] = None
      /\ heap' \in Seq(Page)
      /\ \A i \in DOMAIN heap' : page[heap'[i]] = None /\ heap'[i] # g
      /\ \A i, j \in DOMAIN heap' : heap'[i] = heap'[j] => i = j
  BY <1>1, HeapHead DEF Sound, TypeOK
<1> HIDE DEF g
<1>3. Takes(p, g)
  <2>1. /\ new' \in [Process -> Page \cup {None}] /\ new'[p] = g
        /\ \A q \in Process \ {p} : new'[q] = new[q]
    BY <1>1, <1>2 DEF Sound, TypeOK
  <2>2. ~ Placed(g) /\ \A q \in Process \ {p} : pc[q] \in Wanting => new[q] # g
    BY <1>2 DEF Placed, Sound, Reserves, Reserved
  <2> QED BY <1>2, <2>1, <2>2 DEF Takes
<1>4. pc[p] \in {"alloc", "retry"} /\ UNCHANGED <<goal, vm_state, next, prev, hand, lru_lock, swap_bitmap, disk>>
  BY <1>1
<1>5. CASE pool # {}
  <2>1. /\ pc' = [pc EXCEPT ![p] = "link"]
        /\ pool' \subseteq Frame /\ memory' \in [Frame -> Contents]
    BY <1>1, <1>2, <1>5, TakeType
  <2>2. PICK f \in Frame : page' = [page EXCEPT ![g] = [kaddr |-> f, vme |-> None, thread |-> p]]
    BY <1>1, <1>2, <1>5, TakeType
  <2> DEFINE e == [kaddr |-> f, vme |-> None, thread |-> p]
  <2>3. e \in Struct /\ e.kaddr # None /\ e.thread # None
    BY PagingAssumption DEF Struct
  <2> HIDE DEF e
  <2>4. page' = [page EXCEPT ![g] = e]
    BY <2>2 DEF e
  <2> QED BY <1>2, <1>3, <1>4, <2>1, <2>3, <2>4, GivePage
<1>6. CASE pool = {}
  <2>1. Blank \in Struct /\ Blank.kaddr = None /\ Blank.thread = None
    BY DEF Blank, Struct
  <2>2. pool' \subseteq Frame /\ memory' \in [Frame -> Contents]
    BY <1>1, <1>6 DEF Sound, TypeOK
  <2>3. pc' = [pc EXCEPT ![p] = "lock"] /\ page' = [page EXCEPT ![g] = Blank]
    BY <1>1, <1>6
  <2> QED BY <1>2, <1>3, <1>4, <2>1, <2>2, <2>3, GivePage
<1> QED BY <1>5, <1>6

LEMMA RetrySound ==
  ASSUME NEW p \in Process, Sound, Retry(p)
  PROVE  Sound'
<1>1. pc[p] = "retry" /\ pc[p] \in Wanting /\ new[p] \in Page
  BY DEF Retry, Wanting, Sound, Request, AtRest
<1>2. CASE Exit(p)
  BY <1>2, ExitSound
<1>3. CASE ~ Exit(p)
  <2> DEFINE g == new[p]
  <2>1. /\ pool # {} /\ TakeFrame(p, g)
        /\ UNCHANGED <<goal, new, vm_state, heap, next, prev, hand, lru_lock, swap_bitmap, disk>>
    BY <1>3 DEF Retry
  <2>2. /\ pc' = [pc EXCEPT ![p] = "link"]
        /\ pool' \subseteq Frame /\ memory' \in [Frame -> Contents]
    BY <1>1, <2>1, TakeType
  <2>3. PICK f \in Frame : page' = [page EXCEPT ![g] = [kaddr |-> f, vme |-> None, thread |-> p]]
    BY <1>1, <2>1, TakeType
  <2> DEFINE e == [kaddr |-> f, vme |-> None, thread |-> p]
  <2>4. e \in Struct /\ e.kaddr # None /\ e.thread # None
    BY PagingAssumption DEF Struct
  <2> HIDE DEF e
  <2>5. page' = [page EXCEPT ![g] = e]
    BY <2>3 DEF e
  <2>6. Reserved(p)
    BY <1>1 DEF Sound, Reserves
  <2>7. ~ Placed(g) /\ \A q \in Process \ {p} : pc[q] \in Wanting => new[q] # g
    BY <1>1, <2>6 DEF Placed, Reserved, Sound, Reserves
  <2>8. /\ \A i \in DOMAIN heap : heap[i] # g /\ page[heap[i]] = None
        /\ \A i, j \in DOMAIN heap : heap[i] = heap[j] => i = j
    BY <2>6 DEF Sound, HeapFree, Reserved
  <2>9. new \in [Process -> Page \cup {None}] /\ heap \in Seq(Page)
    BY DEF Sound, TypeOK
  <2>10. Takes(p, g)
    BY <1>1, <2>1, <2>7, <2>8, <2>9 DEF Takes
  <2> QED BY <1>1, <2>1, <2>2, <2>4, <2>5, <2>10, GivePage
<1> QED BY <1>2, <1>3

\* A struct page and its frame are given back, by __free_page or by free_page.
LEMMA ReleaseSound ==
  ASSUME NEW p \in Process, NEW g \in Page, NEW l \in {"retry", "refused"},
         Sound, pc' = [pc EXCEPT ![p] = l], lru_lock \in {p, None},
         (pc[p] = "free" /\ l = "retry") \/ (pc[p] = "install" /\ l = "refused"),
         page[g] # None, page[g].kaddr # None,
         pool' = pool \cup {page[g].kaddr}, memory' = [memory EXCEPT ![page[g].kaddr] = None],
         page' = [page EXCEPT ![g] = None], heap' = <<g>> \o heap,
         next' \in Links, prev' \in Links,
         hand' \in Elem \cup {None}, lru_lock' \in Process \cup {None},
         UNCHANGED <<goal, new, vm_state, swap_bitmap, disk>>
  PROVE  Sound'
<1>1. ~ AtRest(p) /\ Request(p) /\ l \in Label
  BY DEF AtRest, Sound, Label
<1>2. page[g].kaddr \in Frame /\ page[g].thread # None
  <2>1. page[g] \in Struct
    BY DEF Sound, TypeOK
  <2> QED BY <2>1 DEF Struct, Sound, Owners
<1>3. heap' \in Seq(Page) /\ HeapFree'
  <2>1. heap \in Seq(Page) /\ HeapFree /\ page \in [Page -> {None} \cup Struct]
    BY DEF Sound, TypeOK
  <2> QED BY <2>1, HeapPut
<1>4. /\ page' \in [Page -> {None} \cup Struct]
      /\ page'[g] = None /\ \A h \in Page : h # g => page'[h] = page[h]
  BY DEF Sound, TypeOK
<1>5. TypeOK'
  <2>1. pool' \subseteq Frame /\ memory' \in [Frame -> Contents]
    BY <1>2 DEF Sound, TypeOK, Contents
  <2> QED BY <1>1, <1>3, <1>4, <2>1 DEF Sound, TypeOK, Links, vm_state
<1>6. Owners' /\ FramesKnown'
  BY <1>4 DEF Sound, Owners, FramesKnown, Mapped, vm_state
<1>7. Request(p)'
  <2>1. pc'[p] = l
    BY DEF Sound, TypeOK
  <2> QED BY <1>1, <2>1 DEF Request, Fetchable, vm_state
<1>8. OthersStay(p)
  BY DEF OthersStay, Fetchable, vm_state
<1>9. \A q \in Process : pc[q] \in Wanting => new[q] \in Page /\ new[q] # g /\ Reserved(q)'
  <2> SUFFICES ASSUME NEW q \in Process, pc[q] \in Wanting
               PROVE  new[q] \in Page /\ new[q] # g /\ Reserved(q)'
    OBVIOUS
  <2>1. Reserved(q) /\ new[q] \in Page
    BY DEF Sound, Reserves, Request, Wanting, AtRest
  <2> QED BY <1>2, <1>4, <2>1 DEF Reserved
<1>10. ReservesStay(p, l)
  <2>1. l \in Wanting => pc[p] \in Wanting
    BY DEF Wanting
  <2> QED BY <1>9, <2>1 DEF ReservesStay, Sound, Reserves
<1>11. HandStays(p, l)
  BY DEF HandStays
<1> QED BY <1>1, <1>3, <1>5, <1>6, <1>7, <1>8, <1>10, <1>11, StepSound

LEMMA FreeVictimSound ==
  ASSUME NEW p \in Process, Sound, FreeVictim(p)
  PROVE  Sound'
<1> DEFINE n == Unlinked(hand)
           h == NextHand(n.next, next[hand])
<1>1. pc[p] = "free" /\ TypeOK
  BY DEF FreeVictim, Sound
<1>2. lru_lock = p /\ hand \in Page /\ page[hand] # None /\ page[hand].kaddr # None
  BY <1>1 DEF Sound, Chosen, Owners, Placed
<1>3. CASE Panic("palloc_free") \/ Panic("list_next")
  BY <1>3, StillSound DEF Panic
<1>4. CASE ~ (Panic("palloc_free") \/ Panic("list_next"))
  <2>1. /\ pool' = pool \cup {page[hand].kaddr}
        /\ memory' = [memory EXCEPT ![page[hand].kaddr] = None]
        /\ page' = [page EXCEPT ![hand] = None]
        /\ heap' = <<hand>> \o heap
        /\ next' = n.next /\ prev' = n.prev
        /\ h # "assert" /\ hand' = h
        /\ lru_lock' = None
        /\ pc' = [pc EXCEPT ![p] = "retry"]
        /\ UNCHANGED <<goal, new, vm_state, swap_bitmap, disk>>
    BY <1>4 DEF FreeVictim, Victim, Goto
  <2>2. next' \in Links /\ prev' \in Links /\ hand' \in Elem \cup {None}
    <3>1. n.next \in Links /\ n.prev \in Links /\ next[hand] \in Elem
      BY <1>1, <1>2, UnlinkedType
    <3>2. h \in Elem \cup {None, "assert"}
      BY <3>1, HandType
    <3> QED BY <2>1, <3>1, <3>2
  <2> QED BY <1>1, <1>2, <2>1, <2>2, ReleaseSound
<1> QED BY <1>3, <1>4

LEMMA RefuseSound ==
  ASSUME NEW p \in Process, Sound, Refuse(p)
  PROVE  Sound'
<1> DEFINE first == {n \in 0 .. Cardinality(Page) :
                       Nth[n] \in Page /\ page[Nth[n]] # None /\ page[Nth[n]].kaddr = Kaddr(p)}
<1>1. /\ pc[p] = "install" /\ Kaddr(p) # None /\ lru_lock = None
      /\ pc' = [pc EXCEPT ![p] = "refused"]
      /\ UNCHANGED <<goal, new, vm_state, lru_lock, swap_bitmap, disk>>
  BY DEF Refuse, HasPage, Goto
<1>2. ~ AtRest(p) /\ Request(p) /\ TypeOK /\ "refused" \in Label /\ "refused" \notin Wanting
  BY <1>1 DEF AtRest, Sound, Label, Wanting
<1>3. CASE first # {}
  <2>1. PICK n \in first : n = Lowest(first)
    <3>1. first \in SUBSET Nat
      BY PagingAssumption, FS_CardinalityType
    <3> HIDE DEF first
    <3> QED BY <1>3, <3>1, LowestIn
  <2>2. PICK g \in Page : g = Nth[n] /\ page[g] # None /\ page[g].kaddr = Kaddr(p)
    BY <2>1
  <2>3. /\ pool' = pool \cup {page[g].kaddr}
        /\ memory' = [memory EXCEPT ![page[g].kaddr] = None]
        /\ page' = [page EXCEPT ![g] = None]
        /\ heap' = <<g>> \o heap
        /\ next' = Unlinked(g).next /\ prev' = Unlinked(g).prev
        /\ hand' = IF hand = g THEN next[g] ELSE hand
    BY <1>3, <2>1, <2>2 DEF Refuse
  <2>4. next' \in Links /\ prev' \in Links /\ hand' \in Elem \cup {None} /\ lru_lock' \in Process \cup {None}
    <3>1. Unlinked(g).next \in Links /\ Unlinked(g).prev \in Links /\ next[g] \in Elem
      BY <1>2, UnlinkedType
    <3> QED BY <1>1, <1>2, <2>3, <3>1 DEF TypeOK
  <2> QED BY <1>1, <2>2, <2>3, <2>4, ReleaseSound
<1>4. CASE first = {}
  <2>1. UNCHANGED <<pool, memory, list>>
    BY <1>4 DEF Refuse
  <2>2. TypeOK' /\ FramesKnown'
    BY <1>1, <1>2, <2>1 DEF TypeOK, Sound, FramesKnown, Mapped, vm_state, list
  <2>3. Request(p)'
    <3>1. pc'[p] = "refused"
      BY <1>1, <1>2 DEF TypeOK
    <3> QED BY <1>1, <1>2, <3>1 DEF Request, Fetchable, vm_state
  <2>4. OthersStay(p) /\ HandStays(p, "refused")
    BY <1>1 DEF OthersStay, Fetchable, HandStays, vm_state
  <2> QED BY <1>1, <1>2, <2>1, <2>2, <2>3, <2>4, PagesSound DEF list
<1> QED BY <1>3, <1>4

-----------------------------------------------------------------------------

LEMMA HandlerSound ==
  ASSUME NEW p \in Process, Sound, Handler(p)
  PROVE  Sound'
<1>1. CASE NewPage(p) \/ Retry(p) \/ Link(p) \/ LockList(p) \/ Visit(p) \/ VisitUnset(p)
  BY <1>1, NewPageSound, RetrySound, LinkSound, VisitSound
<1>2. CASE VisitOrphan(p) \/ VisitAstray(p) \/ LostVictim(p) \/ Refused(p) \/ LostPage(p)
  <2>1. Exit(p) \/ Panic("pd") \/ Panic("list_next") \/ Panic("pg_ofs")
    BY <1>2 DEF VisitOrphan, VisitAstray, LostVictim, Refused, LostPage
  <2>2. ASSUME NEW why, Panic(why) PROVE Sound'
    BY <2>2, StillSound DEF Panic
  <2> QED BY <2>1, <2>2, ExitSound
<1>3. CASE SwapOut(p) \/ Unmap(p) \/ FreeVictim(p)
  BY <1>3, SwapOutSound, UnmapSound, FreeVictimSound
<1>4. CASE SetVme(p)
  BY <1>4, SetVmeSound, LinkSound
<1>5. CASE LoadFile(p) \/ SwapIn(p) \/ Install(p) \/ Refuse(p)
  BY <1>5, FillSound, InstallSound, RefuseSound
<1> QED BY <1>1, <1>2, <1>3, <1>4, <1>5 DEF Handler

LEMMA ProgramSound ==
  ASSUME NEW p \in Process, Sound, Inv, Program(p)
  PROVE  Sound'
<1>1. CASE Load(p) \/ Leave(p)
  BY <1>1, LoadSound, ExitSound DEF Leave
<1>2. ASSUME NEW v \in Vaddr, Read(p, v) \/ Fault(p, v) \/ Grow(p, v) PROVE Sound'
  BY <1>2, AccessSound, FaultSound
<1>3. ASSUME NEW v \in Vaddr, NEW x \in Value, Write(p, v, x) PROVE Sound'
  BY <1>3, AccessSound
<1> QED BY <1>1, <1>2, <1>3 DEF Program

LEMMA InitSound == Init => Sound
<1> SUFFICES ASSUME Init PROVE Sound
  OBVIOUS
<1>1. TypeOK /\ HeapFree
  BY InitInv DEF IInv, Inv, Init
<1>2. Owners /\ FramesKnown
  BY DEF Init, Owners, FramesKnown, Mapped, Absent
<1>3. \A p \in Process : pc[p] = "new"
  BY DEF Init
<1>4. \A p \in Process : Request(p)
  BY <1>3 DEF Request, AtRest
<1>5. Reserves /\ Chosen
  BY <1>3 DEF Reserves, Wanting, Chosen
<1> QED BY <1>1, <1>2, <1>4, <1>5 DEF Sound

LEMMA NextSound == IInv /\ Sound /\ [Next]_vars => Sound'
<1> SUFFICES ASSUME IInv, Sound, [Next]_vars PROVE Sound'
  OBVIOUS
<1>1. ASSUME NEW p \in Process, Step(p, Handler(p) \/ (~ overlap /\ Program(p))) PROVE Sound'
  <2>1. Handler(p) \/ (~ overlap /\ Program(p))
    BY <1>1 DEF Step
  <2> QED BY <2>1, HandlerSound, ProgramSound DEF IInv
<1>2. ASSUME UNCHANGED vars PROVE Sound'
  <2>1. UNCHANGED <<pc, goal, new, vm_state, list, lru_lock, store>>
    BY <1>2 DEF vars
  <2> QED BY <2>1, StillSound
<1> QED BY <1>1, <1>2 DEF Next

\* Every variable has its type, also when page faults overlap.
THEOREM TypeCorrect == Spec => []TypeOK
<1>1. Spec => []Sound
  <2>1. IInv /\ IInv' /\ Sound /\ [Next]_vars => Sound'
    BY NextSound
  <2> QED BY <2>1, Invariant, InitSound, PTL DEF Spec
<1>2. Sound => TypeOK
  BY DEF Sound
<1> QED BY <1>1, <1>2, PTL
=============================================================================
