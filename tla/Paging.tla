------------------------------- MODULE Paging -------------------------------
(***************************************************************************)
(* Demand paging: page faults, the clock that chooses victims, the swap    *)
(* device, stack growth and the end of a process, with the vm entries,     *)
(* page tables, frames and the linked list these operations share.         *)
(*                                                                         *)
(* lru_list is kept as list.c keeps it, two pointers per element, since    *)
(* one operation links an element twice.  A block of the heap that has     *)
(* been freed is filled with 0xcc: pointers in it are Wild.                *)
(***************************************************************************)
EXTENDS Naturals, FiniteSets, Sequences

CONSTANTS
  Process,
  Code,         \* addresses of the read-only pages of a program
  Data,         \* addresses of its writable pages
  Top,          \* the stack page every process starts with
  Grown,        \* the stack pages below it
  Programs,     \* a bound: what is run, each a function from some processes to
                \* the addresses they read and write
  Frame,        \* frames of the user pool
  Slot,         \* page-sized slots of the swap device
  Page,         \* heap blocks malloc has for a struct page
  Value,        \* what a program may write into a page
  Initial,      \* what a page holds before it is written
  ListHead, ListTail,  \* the ends of lru_list
  Wild,         \* a pointer read from freed memory
  None

Vaddr == Code \cup Data \cup {Top} \cup Grown

Entry == [type : {"bin", "anon"}, swap_slot : Slot \cup {None}]
Struct == [kaddr : Frame \cup {None}, vme : Vaddr \cup {None}, thread : Process \cup {None}]

\* A program whose segments take the stack page does not load: setup_stack's
\* insert_vme finds the entry there.
ASSUME PagingAssumption ==
  /\ \A t \in Programs : DOMAIN t \subseteq Process /\ \A p \in DOMAIN t : t[p] \subseteq Vaddr
  /\ Frame \subseteq Nat /\ Slot \subseteq Nat
  /\ IsFiniteSet(Frame) /\ IsFiniteSet(Slot) /\ IsFiniteSet(Page)
  /\ Initial \notin Value
  /\ None \notin Process \cup Vaddr \cup Frame \cup Slot \cup Page
  /\ {ListHead, ListTail, Wild} \cap (Page \cup {None}) = {}
  /\ None \notin Entry \cup Struct
  /\ Top \notin Code \cup Data

VARIABLES
  pc,           \* where each process stands
  goal,         \* what it allocates a page for: kind and address
  new,          \* the struct page it is setting up
  vm,           \* thread->vm: a vm_entry for each address, or None
  pte,          \* the page table of each process
  heap,         \* the free blocks, malloc's free_list
  page,         \* the fields of each struct page
  next, prev,   \* the links of lru_list
  hand,         \* lru_clock
  lru_lock,     \* the holder of lru_list_lock
  pool,         \* the free frames
  swap_bitmap,  \* the slots in use
  memory, disk, \* contents of the frames and of the slots
  touched,      \* what is run: a member of Programs
  truth,        \* history: what each process should find at each address
  overlap,      \* history: a process took a step during another one's page fault
  panic         \* the assertion that stopped the kernel, or None

vm_state == <<vm, pte, truth>>
list == <<heap, page, next, prev, hand>>
store == <<pool, swap_bitmap, memory, disk>>
vars == <<pc, goal, new, vm_state, list, lru_lock, store, touched, overlap, panic>>

Absent == [frame |-> None, present |-> FALSE, accessed |-> FALSE, dirty |-> FALSE]
Elem == Page \cup {ListHead, ListTail, Wild}

Lowest(S) == CHOOSE x \in S : \A y \in S : x <= y
Content(p, v, x) == <<p, v, x>>
Alive(p) == pc[p] \notin {"new", "dead"}
Mapped(p, v) == pte[p][v].present

Init ==
  /\ pc = [p \in Process |-> "new"]
  /\ goal = [p \in Process |-> None]
  /\ new = [p \in Process |-> None]
  /\ vm = [p \in Process |-> [v \in Vaddr |-> None]]
  /\ pte = [p \in Process |-> [v \in Vaddr |-> Absent]]
  /\ truth = [p \in Process |-> [v \in Vaddr |-> None]]
  /\ heap = CHOOSE h \in [1 .. Cardinality(Page) -> Page] : \A i, j \in DOMAIN h : h[i] = h[j] => i = j
  /\ page = [g \in Page |-> None]
  /\ next = [e \in Page \cup {ListHead, ListTail} |-> IF e = ListHead THEN ListTail ELSE Wild]
  /\ prev = [e \in Page \cup {ListHead, ListTail} |-> IF e = ListTail THEN ListHead ELSE Wild]
  /\ hand = None
  /\ lru_lock = None
  /\ pool = Frame
  /\ swap_bitmap = {}
  /\ memory = [f \in Frame |-> None]
  /\ disk = [s \in Slot |-> None]
  /\ touched \in Programs
  /\ overlap = FALSE
  /\ panic = None

Panic(why) ==
  /\ panic' = why
  /\ UNCHANGED <<pc, goal, new, vm_state, list, lru_lock, store>>

-----------------------------------------------------------------------------
(* The list of pages, lib/kernel/list.c. *)

list_push_back(g) ==
  /\ next' = [next EXCEPT ![g] = ListTail, ![prev[ListTail]] = g]
  /\ prev' = [prev EXCEPT ![g] = prev[ListTail], ![ListTail] = g]

\* The links after list_remove (g) and free (g).
Unlinked(g) ==
  [next |-> [next EXCEPT ![prev[g]] = next[g], ![g] = Wild],
   prev |-> [prev EXCEPT ![next[g]] = prev[g], ![g] = Wild]]

\* get_next_lru_clock from h, given the links n: list_next of the tail fails an
\* assertion, which "assert" stands for.
NextHand(n, h) ==
  CASE n[ListHead] = ListTail -> None
    [] n[ListHead] # ListTail /\ h = None -> n[ListHead]
    [] n[ListHead] # ListTail /\ h = ListTail -> "assert"
    [] n[ListHead] # ListTail /\ h = Wild -> Wild
    [] OTHER -> IF n[h] = ListTail THEN n[ListHead] ELSE n[h]

-----------------------------------------------------------------------------
(* The end of a process. *)

Frames(p) == {pte[p][v].frame : v \in {u \in Vaddr : Mapped(p, u)}}

\* exit (-1) or exit, from wherever the process stands: the frames its page
\* directory maps are freed, its pages stay in lru_list, and a lock it holds
\* stays held.
Exit(p) ==
  IF Frames(p) \cap pool # {}
  THEN Panic("palloc_free")
  ELSE /\ pc' = [pc EXCEPT ![p] = "dead"]
       /\ goal' = [goal EXCEPT ![p] = None]
       /\ vm' = [vm EXCEPT ![p] = [v \in Vaddr |-> None]]
       /\ pte' = [pte EXCEPT ![p] = [v \in Vaddr |-> Absent]]
       /\ pool' = pool \cup Frames(p)
       /\ memory' = [f \in Frame |-> IF f \in Frames(p) THEN None ELSE memory[f]]
       /\ UNCHANGED <<new, truth, list, lru_lock, swap_bitmap, disk, panic>>

-----------------------------------------------------------------------------
(* A program runs. *)

Begin(p, kind, v) ==
  /\ pc' = [pc EXCEPT ![p] = "alloc"]
  /\ goal' = [goal EXCEPT ![p] = [kind |-> kind, vaddr |-> v]]

\* load_segment makes an entry for each page of the program, setup_stack
\* begins.
Load(p) ==
  /\ pc[p] = "new" /\ p \in DOMAIN touched
  /\ vm' = [vm EXCEPT ![p] = [v \in Vaddr |->
       IF v \in Code \cup Data THEN [type |-> "bin", swap_slot |-> None] ELSE None]]
  /\ truth' = [truth EXCEPT ![p] = [v \in Vaddr |->
       IF v \in Code \cup Data THEN Content(p, v, Initial) ELSE None]]
  /\ Begin(p, "setup", Top)
  /\ UNCHANGED <<new, pte, list, lru_lock, store, panic>>

Read(p, v) ==
  /\ pc[p] = "user" /\ Mapped(p, v) /\ v \in touched[p]
  /\ pte' = [pte EXCEPT ![p][v].accessed = TRUE]
  /\ UNCHANGED <<pc, goal, new, vm, truth, list, lru_lock, store, panic>>

Write(p, v, x) ==
  /\ pc[p] = "user" /\ Mapped(p, v) /\ v \in touched[p] \ Code
  /\ pte' = [pte EXCEPT ![p][v].accessed = TRUE, ![p][v].dirty = TRUE]
  /\ memory' = [memory EXCEPT ![pte[p][v].frame] = Content(p, v, x)]
  /\ truth' = [truth EXCEPT ![p][v] = Content(p, v, x)]
  /\ UNCHANGED <<pc, goal, new, vm, list, lru_lock, pool, swap_bitmap, disk, panic>>

\* page_fault in user mode, on a page that is not there or, for Code, on a
\* write to one that is.
Fault(p, v) ==
  /\ pc[p] = "user" /\ vm[p][v] # None /\ v \in touched[p]
  /\ Mapped(p, v) => v \in Code
  /\ Begin(p, "fault", v)
  /\ UNCHANGED <<new, vm_state, list, lru_lock, store, panic>>

Grow(p, v) ==
  /\ pc[p] = "user" /\ v \in Grown \cap touched[p] /\ vm[p][v] = None
  /\ Begin(p, "grow", v)
  /\ UNCHANGED <<new, vm_state, list, lru_lock, store, panic>>

\* exit, a bad address, or a page fault in the kernel on the program's buffer.
Leave(p) == pc[p] = "user" /\ Exit(p)

-----------------------------------------------------------------------------
(* alloc_page. *)

Goto(p, label) == pc' = [pc EXCEPT ![p] = label]

\* palloc_get_page: the lowest free frame, zeroed for a stack page.
TakeFrame(p, g) ==
  LET f == Lowest(pool)
      v == goal[p].vaddr
  IN  /\ pool' = pool \ {f}
      /\ page' = [page EXCEPT ![g] = [kaddr |-> f, vme |-> None, thread |-> p]]
      /\ memory' = IF goal[p].kind = "fault" THEN memory
                   ELSE [memory EXCEPT ![f] = Content(p, v, Initial)]
      /\ Goto(p, "link")

NewPage(p) ==
  /\ pc[p] = "alloc"
  /\ heap # <<>> /\ heap' = Tail(heap)
  /\ LET g == Head(heap)
     IN  /\ new' = [new EXCEPT ![p] = g]
       /\ IF pool # {}
          THEN TakeFrame(p, g)
          ELSE /\ page' = [page EXCEPT ![g] = [kaddr |-> None, vme |-> None, thread |-> None]]
               /\ Goto(p, "lock")
               /\ UNCHANGED <<pool, memory>>
  /\ UNCHANGED <<goal, vm_state, next, prev, hand, lru_lock, swap_bitmap, disk, panic>>

\* After try_to_free_pages: without a frame alloc_page returns NULL, which no
\* caller survives.
Retry(p) ==
  /\ pc[p] = "retry"
  /\ \/ /\ pool # {}
        /\ TakeFrame(p, new[p])
        /\ UNCHANGED <<goal, new, vm_state, heap, next, prev, hand, lru_lock, swap_bitmap, disk, panic>>
     \/ pool = {} /\ Exit(p)

Link(p) ==
  /\ pc[p] = "link" /\ lru_lock = None
  /\ list_push_back(new[p])
  /\ Goto(p, IF goal[p].kind = "setup" THEN "install" ELSE "vme")
  /\ UNCHANGED <<goal, new, vm_state, heap, page, hand, lru_lock, store, panic>>

-----------------------------------------------------------------------------
(* try_to_free_pages. *)

LockList(p) ==
  /\ pc[p] = "lock" /\ lru_lock = None
  /\ IF next[ListHead] = ListTail
     THEN Goto(p, "retry") /\ UNCHANGED lru_lock
     ELSE Goto(p, "visit") /\ lru_lock' = p
  /\ UNCHANGED <<goal, new, vm_state, list, store, panic>>

Victim == page[hand]
Owned == {g \in Page : page[g] # None /\ page[g].thread # None}

Spared_Again(q, v) == pte

\* pagedir_set_accessed (..., false)
Spared(q, v) == [pte EXCEPT ![q][v].accessed = FALSE]

\* One turn of the loop: a page that was accessed gets its second chance.
Visit(p) ==
  LET h == NextHand(next, hand)
  IN  /\ pc[p] = "visit"
      /\ h \in Owned /\ Alive(page[h].thread) /\ page[h].vme # None
      /\ hand' = h
      /\ LET q == page[h].thread
             v == page[h].vme
         IN  IF pte[q][v].accessed
             THEN /\ pte' = Spared(q, v)
                  /\ UNCHANGED pc
             ELSE Goto(p, "swap") /\ UNCHANGED pte
      /\ UNCHANGED <<goal, new, vm, truth, heap, page, next, prev, lru_lock, store, panic>>

\* The page is in the list and its vme is not set: what the pointer happens to
\* hold names a kernel address, in use as a rule and passed over, else refused
\* by pagedir_clear_page.
VisitUnset(p) ==
  LET h == NextHand(next, hand)
  IN  /\ pc[p] = "visit"
      /\ h \in Owned /\ Alive(page[h].thread) /\ page[h].vme = None
      /\ \/ /\ hand' = h
            /\ UNCHANGED <<pc, goal, new, vm_state, heap, page, next, prev, lru_lock, store, panic>>
         \/ Panic("pg_ofs")

\* Its owner has no page directory any more, or is itself gone.
VisitOrphan(p) ==
  LET h == NextHand(next, hand)
  IN  /\ pc[p] = "visit"
      /\ h \in Owned /\ ~ Alive(page[h].thread)
      /\ Panic("pd") \/ Exit(p)

\* The hand is past the list, where list_next asserts, or in freed memory: a page
\* fault in the kernel.
VisitAstray(p) ==
  LET h == NextHand(next, hand)
  IN  /\ pc[p] = "visit"
      /\ h \notin Owned \cup {None}
      /\ IF h = "assert" THEN Panic("list_next") ELSE Exit(p)

NeedsSwap_DirtyOnly(q, v) == pte[q][v].dirty

NeedsSwap(q, v) == pte[q][v].dirty \/ vm[q][v].type = "anon"

SwapOut(p) ==
  LET q == Victim.thread
      v == Victim.vme
      s == Lowest(Slot \ swap_bitmap)
  IN  /\ pc[p] = "swap" /\ Alive(q)
      /\ \/ ~ NeedsSwap(q, v) /\ Goto(p, "unmap") /\ UNCHANGED <<vm, swap_bitmap, disk, panic>>
         \/ /\ NeedsSwap(q, v) /\ swap_bitmap # Slot
            /\ vm' = [vm EXCEPT ![q][v] = [type |-> "anon", swap_slot |-> s]]
            /\ swap_bitmap' = swap_bitmap \cup {s}
            /\ disk' = [disk EXCEPT ![s] = memory[Victim.kaddr]]
            /\ Goto(p, "unmap")
            /\ UNCHANGED panic
         \/ \* BITMAP_ERROR is taken for a slot, block_write panics
            /\ NeedsSwap(q, v) /\ swap_bitmap = Slot
            /\ panic' = "check_sector"
            /\ UNCHANGED <<pc, vm, swap_bitmap, disk>>
      /\ UNCHANGED <<goal, new, pte, truth, list, lru_lock, pool, memory>>

Unmap_Own(p) ==
  /\ pc[p] = "unmap" /\ Alive(Victim.thread)
  /\ pte' = [pte EXCEPT ![p][Victim.vme].present = FALSE]
  /\ Goto(p, "free")
  /\ UNCHANGED <<goal, new, vm, truth, list, lru_lock, store, panic>>

Unmap_Loaded(p) ==
  /\ pc[p] = "unmap" /\ Alive(Victim.thread)
  /\ pte' = [pte EXCEPT ![Victim.thread][Victim.vme].accessed = FALSE]
  /\ Goto(p, "free")
  /\ UNCHANGED <<goal, new, vm, truth, list, lru_lock, store, panic>>

Unmap(p) ==
  /\ pc[p] = "unmap" /\ Alive(Victim.thread)
  /\ pte' = [pte EXCEPT ![Victim.thread][Victim.vme].present = FALSE]
  /\ Goto(p, "free")
  /\ UNCHANGED <<goal, new, vm, truth, list, lru_lock, store, panic>>

\* The owner of the victim ended since it was chosen.
LostVictim(p) ==
  /\ pc[p] \in {"swap", "unmap"} /\ ~ Alive(Victim.thread)
  /\ Panic("pd") \/ Exit(p)

\* __free_page, after which the clock moves on once more.
FreeVictim(p) ==
  LET f == Victim.kaddr
      n == Unlinked(hand)
      h == NextHand(n.next, next[hand])
  IN  /\ pc[p] = "free"
      /\ IF f \in pool
         THEN Panic("palloc_free")
         ELSE IF h = "assert" THEN Panic("list_next")
         ELSE /\ pool' = pool \cup {f}
              /\ memory' = [memory EXCEPT ![f] = None]
              /\ page' = [page EXCEPT ![hand] = None]
              /\ heap' = <<hand>> \o heap
              /\ next' = n.next /\ prev' = n.prev
              /\ hand' = h
              /\ lru_lock' = None
              /\ Goto(p, "retry")
              /\ UNCHANGED <<goal, new, vm_state, swap_bitmap, disk, panic>>

-----------------------------------------------------------------------------
(* handle_mm_fault, expand_stack and setup_stack with the page they got. *)

SetVme(p) ==
  /\ pc[p] = "vme"
  /\ \/ /\ goal[p].kind = "fault" /\ page[new[p]] # None
        /\ page' = [page EXCEPT ![new[p]].vme = goal[p].vaddr]
        /\ Goto(p, "fill")
        /\ UNCHANGED <<next, prev>>
     \/ \* the entry has no address yet, and the page is linked once more
        /\ goal[p].kind = "grow" /\ lru_lock = None
        /\ list_push_back(new[p])
        /\ Goto(p, "install")
        /\ UNCHANGED page
  /\ UNCHANGED <<goal, new, vm_state, heap, hand, lru_lock, store, panic>>

Kaddr(p) == page[new[p]].kaddr

HasPage(p) == page[new[p]] # None /\ Kaddr(p) # None

\* Its struct page was freed meanwhile: kpage->kaddr is a link of the free list,
\* and not the address of a page.  A vme written there before overwrites the
\* other link: what malloc would make of that is left out, the kernel stops.
LostPage(p) ==
  /\ pc[p] \in {"vme", "fill", "install"} /\ ~ HasPage(p)
  /\ pc[p] = "vme" => goal[p].kind = "fault" /\ page[new[p]] = None
  /\ Panic("pg_ofs")

LoadFile(p) ==
  LET v == goal[p].vaddr
  IN  /\ pc[p] = "fill" /\ HasPage(p) /\ vm[p][v].type = "bin"
      /\ memory' = [memory EXCEPT ![Kaddr(p)] = Content(p, v, Initial)]
      /\ Goto(p, "install")
      /\ UNCHANGED <<goal, new, vm_state, list, lru_lock, pool, swap_bitmap, disk, panic>>

Flip_Not(s) == swap_bitmap

Flip_Off(s) == swap_bitmap \cup {s + 1}

Flip(s) == IF s \in swap_bitmap THEN swap_bitmap \ {s} ELSE swap_bitmap \cup {s}

SwapIn(p) ==
  LET v == goal[p].vaddr
      s == vm[p][v].swap_slot
  IN  /\ pc[p] = "fill" /\ HasPage(p) /\ vm[p][v].type = "anon"
      /\ memory' = [memory EXCEPT ![Kaddr(p)] = disk[s]]
      /\ swap_bitmap' = Flip(s)
      /\ Goto(p, "install")
      /\ UNCHANGED <<goal, new, vm_state, list, lru_lock, pool, disk, panic>>

Present(f) == [frame |-> f, present |-> TRUE, accessed |-> FALSE, dirty |-> FALSE]

Install(p) ==
  LET v == goal[p].vaddr
  IN  /\ pc[p] = "install" /\ HasPage(p) /\ ~ Mapped(p, v)
      /\ pte' = [pte EXCEPT ![p][v] = Present(Kaddr(p))]
      /\ \/ goal[p].kind = "fault" /\ UNCHANGED <<vm, truth, page>>
         \/ /\ goal[p].kind # "fault"
            /\ vm' = [vm EXCEPT ![p][v] = [type |-> "anon", swap_slot |-> None]]
            /\ truth' = [truth EXCEPT ![p][v] = Content(p, v, Initial)]
            /\ page' = IF goal[p].kind = "setup" THEN page
                       ELSE [page EXCEPT ![new[p]].vme = v]
      /\ Goto(p, "user")
      /\ goal' = [goal EXCEPT ![p] = None]
      /\ new' = [new EXCEPT ![p] = None]
      /\ UNCHANGED <<heap, next, prev, hand, lru_lock, store, panic>>

\* The n-th element of lru_list.
Nth[n \in Nat] == IF n = 0 THEN next[ListHead]
                  ELSE IF Nth[n - 1] \in Page THEN next[Nth[n - 1]] ELSE Nth[n - 1]

\* The page was there: free_page looks for the struct page of the new frame,
\* and the process is to die.
Refuse(p) ==
  LET first == {n \in 0 .. Cardinality(Page) :
                  Nth[n] \in Page /\ page[Nth[n]] # None /\ page[Nth[n]].kaddr = Kaddr(p)}
      g == Nth[Lowest(first)]
  IN  /\ pc[p] = "install" /\ HasPage(p)
      /\ Mapped(p, goal[p].vaddr) /\ lru_lock = None
      /\ \/ /\ first # {}
            /\ pool' = pool \cup {page[g].kaddr}
            /\ memory' = [memory EXCEPT ![page[g].kaddr] = None]
            /\ page' = [page EXCEPT ![g] = None]
            /\ heap' = <<g>> \o heap
            /\ next' = Unlinked(g).next /\ prev' = Unlinked(g).prev
            /\ hand' = IF hand = g THEN next[g] ELSE hand
         \/ first = {} /\ UNCHANGED <<pool, memory, list>>
      /\ Goto(p, "refused")
      /\ UNCHANGED <<goal, new, vm_state, lru_lock, swap_bitmap, disk, panic>>

Refused(p) == pc[p] = "refused" /\ Exit(p)

-----------------------------------------------------------------------------
Handler(p) ==
  \/ NewPage(p) \/ Retry(p) \/ Link(p)
  \/ LockList(p) \/ Visit(p) \/ VisitUnset(p) \/ VisitOrphan(p)
  \/ VisitAstray(p) \/ SwapOut(p) \/ Unmap(p) \/ LostVictim(p) \/ FreeVictim(p)
  \/ SetVme(p) \/ LostPage(p) \/ LoadFile(p) \/ SwapIn(p) \/ Install(p)
  \/ Refuse(p) \/ Refused(p)

Program(p) ==
  \/ Load(p) \/ Leave(p)
  \/ \E v \in Vaddr : Read(p, v) \/ Fault(p, v) \/ Grow(p, v)
  \/ \E v \in Vaddr, x \in Value : Write(p, v, x)

AtRest(p) == pc[p] \in {"new", "user", "dead"}

Step(p, A) ==
  /\ panic = None /\ A
  /\ UNCHANGED touched
  /\ overlap' = (overlap \/ \E q \in Process \ {p} : ~ AtRest(q))

\* A bound: after an overlap, of which no property speaks, the handlers that
\* are under way go on and no other begins.
Next == \E p \in Process : Step(p, Handler(p) \/ (~ overlap /\ Program(p)))

Spec == Init /\ [][Next]_vars

\* The kernel's code makes progress; a program need not do anything.
Fairness == \A p \in Process : WF_vars (Step(p, Handler(p)))

FairSpec == Spec /\ Fairness

-----------------------------------------------------------------------------
Label == {"new", "user", "dead", "alloc", "retry", "link", "lock", "visit", "swap",
          "unmap", "free", "vme", "fill", "install", "refused"}
Contents == {None} \cup (Process \X Vaddr \X (Value \cup {Initial}))

\* Every variable has its type.
TypeOK ==
  /\ pc \in [Process -> Label]
  /\ goal \in [Process -> {None} \cup [kind : {"setup", "fault", "grow"}, vaddr : Vaddr]]
  /\ new \in [Process -> Page \cup {None}]
  /\ vm \in [Process -> [Vaddr -> Entry \cup {None}]]
  /\ pte \in [Process -> [Vaddr -> [frame : Frame \cup {None}, present : BOOLEAN,
                                   accessed : BOOLEAN, dirty : BOOLEAN]]]
  /\ truth \in [Process -> [Vaddr -> Contents]]
  /\ heap \in Seq(Page)
  /\ page \in [Page -> {None} \cup Struct]
  /\ next \in [Page \cup {ListHead, ListTail} -> Elem] /\ prev \in [Page \cup {ListHead, ListTail} -> Elem]
  /\ hand \in Elem \cup {None}
  /\ lru_lock \in Process \cup {None}
  /\ pool \subseteq Frame /\ swap_bitmap \subseteq Slot
  /\ memory \in [Frame -> Contents] /\ disk \in [Slot -> Contents]

InTransit(p, v) == pc[p] = "install" /\ goal[p].vaddr = v

\* A program finds in each of its pages what it last wrote there, or what the
\* file or a fresh stack page holds: in the frame while the page is mapped
\* (try_to_free_pages, handle_mm_fault and swap.c between them), and on the
\* swap device or in the file while it is not and nobody is bringing it in.
ContentSurvives ==
  ~ overlap => \A p \in Process : Alive(p) => \A v \in Vaddr :
    /\ Mapped(p, v) => memory[pte[p][v].frame] = truth[p][v]
    /\ (vm[p][v] # None /\ ~ Mapped(p, v) /\ ~ InTransit(p, v)) =>
          LET s == vm[p][v].swap_slot
          IN  IF vm[p][v].type = "anon" THEN s # None /\ disk[s] = truth[p][v]
                                        ELSE truth[p][v] = Content(p, v, Initial)

\* A frame that a page table maps is not in the free pool and is mapped nowhere
\* else, and the pages lru_list offers to the clock (and no others, but for the
\* one being brought in) are mapped where their vme says: what __free_page
\* frees is what pagedir_clear_page unmapped.
FramesOwned ==
  ~ overlap => \A p \in Process, v \in Vaddr : Mapped(p, v) =>
    LET f == pte[p][v].frame
    IN  /\ f \notin pool
        /\ \A q \in Process, u \in Vaddr :
              Mapped(q, u) /\ pte[q][u].frame = f => q = p /\ u = v
        /\ \E g \in Page : /\ page[g] # None /\ page[g].kaddr = f /\ page[g].thread = p
                          /\ page[g].vme \in {v, None}

\* The slots in use are those of the pages that are swapped out, one each: none
\* is lost when its page comes back (swap_in's bitmap_flip) and none is given
\* to two pages.  Process exit is not included: it frees no slot.
SlotsExact ==
  ~ overlap /\ (\A p \in Process : pc[p] # "dead") =>
    LET Swapped == {e \in Process \X Vaddr :
                      /\ vm[e[1]][e[2]] # None /\ vm[e[1]][e[2]].type = "anon"
                      /\ ~ Mapped(e[1], e[2]) /\ ~ InTransit(e[1], e[2])}
                   \cup {<<page[hand].thread, page[hand].vme>> :
                          p \in {q \in Process : pc[q] = "unmap" /\ vm[page[hand].thread][page[hand].vme].type = "anon"}}
        slot == [e \in Swapped |-> vm[e[1]][e[2]].swap_slot]
    IN  /\ swap_bitmap = {slot[e] : e \in Swapped}
        /\ \A d, e \in Swapped : slot[d] = slot[e] => d = e

\* A process that faults in the kernel is ended inside try_to_free_pages and
\* keeps lru_list_lock.
LockLost == lru_lock # None /\ pc[lru_lock] = "dead"

\* A page fault is over some time: the process runs on, dies, or the kernel
\* stops at an assertion, unless somebody died with the lock in his hands.  In
\* particular the clock finds a victim.
FaultServed ==
  \A p \in Process : ~ AtRest(p) ~> (AtRest(p) \/ panic # None \/ overlap \/ LockLost)

\* list_next is never called on a tail, lib/kernel/list.c:80 and :84.
HandInList == panic # "list_next"
=============================================================================
