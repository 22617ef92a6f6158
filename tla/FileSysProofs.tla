---------------------------- MODULE FileSysProofs ----------------------------
(* Theorems about FileSys: for any device, directory, names, lengths,      *)
(* processes and descriptors, and a stop of the machine at any disk write. *)
EXTENDS FileSys, FiniteSetTheorems, WellFoundedInduction, TLAPS

-----------------------------------------------------------------------------
(* Who holds which sectors.                                                *)

Whole(ino, s) == {s} \cup Extent(ino[s].start, ino[s].length)

(* The files whose inodes are at the sectors kept hold their sectors alone, *)
(* lost and work hold theirs, and together they are the map.                *)
Accounts(kept, ino, map, gone, work) ==
  /\ kept \subseteq Sector
  /\ \A s \in kept : ino[s] # None /\ s \notin Extent(ino[s].start, ino[s].length)
  /\ \A s, t \in kept : s # t => Whole(ino, s) \cap Whole(ino, t) = {}
  /\ \A s \in kept : Whole(ino, s) \cap (gone \cup work) = {}
  /\ gone \cap work = {}
  /\ map = gone \cup work \cup UNION {Whole(ino, s) : s \in kept}

(* What a call in progress has allocated, or has yet to release, and the   *)
(* file that remove is at work on.                                         *)
WorkOf(c) ==
  IF c \in CreateCall
  THEN {c.sector} \cup (IF c.step = "data" THEN {} ELSE Extent(c.start, c.size))
  ELSE IF c \in ReleaseCall THEN c.sectors ELSE {}
RemovingOf(c) == IF c \in RemoveCall THEN {c.sector} ELSE {}

Work == WorkOf(call)
Removing == RemovingOf(call)
ListedInodes == {dir[e].sector : e \in {x \in Entry : dir[x] # None}}
Kept == ListedInodes \cup Removed \cup Removing

(* A file is listed once, or is removed, or remove is at work on it.       *)
Apart ==
  /\ \A e, f \in Entry : dir[e] # None /\ dir[f] # None /\ e # f =>
       dir[e].name # dir[f].name /\ dir[e].sector # dir[f].sector
  /\ ListedInodes \cap Removed = {}
  /\ Removing \cap (ListedInodes \cup Removed) = {}

(* create has put the inode where its entry will say.                      *)
CreateSound ==
  call \in CreateCall =>
    /\ call.step \in {"inode", "entry"} => call.sector \notin Extent(call.start, call.size)
    /\ call.step = "entry" =>
         disk_inode[call.sector] = [start |-> call.start, length |-> call.size]

Fds(f, s) == {x \in Process \X Fd : f[x[1]][x[2]] # None /\ f[x[1]][x[2]].sector = s}
Deniers(f, s) == {x \in Fds(f, s) : f[x[1]][x[2]].deny_write}

(* The openers of an inode, and those of them that may deny writing.       *)
Counts ==
  \A s \in Sector :
    /\ Openers(s) = Cardinality(Fds(file, s)) + leaked[s] + (IF s \in Removing THEN 1 ELSE 0)
    /\ Openers(s) > 0 =>
         /\ open_inodes[s].deny_write_cnt >= Cardinality(Deniers(file, s))
         /\ open_inodes[s].deny_write_cnt <= Cardinality(Deniers(file, s)) + leaked[s]
    /\ leaked[s] <= MaxOpen
    /\ Openers(s) <= (IF s \in Removing THEN MaxOpen + 1 ELSE MaxOpen)

DiskGood ==
  /\ panic = FALSE /\ free_map = disk_map
  /\ Accounts(Kept, disk_inode, free_map, lost, Work)
  /\ Apart /\ CreateSound

IInv == TypeOK /\ DiskGood /\ Counts

Mem == [open_cnt : 1 .. MaxOpen + 1, removed : BOOLEAN, deny_write_cnt : 0 .. MaxOpen]

-----------------------------------------------------------------------------
(* Allocation.                                                             *)

\* A non-empty set of numbers has a least one.
LEMMA LowestIsLeast ==
  ASSUME NEW S \in SUBSET Nat, S # {}
  PROVE  Lowest(S) \in S /\ \A y \in S : Lowest(S) <= y
<1> DEFINE R == StrictSubsetOrdering(Nat)
           T == {0 .. i : i \in S}
<1>1. T \subseteq FiniteSubsetsOf(Nat) /\ T # {}
  <2>1. ASSUME NEW i \in S PROVE 0 .. i \in FiniteSubsetsOf(Nat)
    BY FS_Interval DEF FiniteSubsetsOf
  <2> QED BY <2>1
<1> HIDE DEF T
<1>2. PICK x \in T : \A y \in T : ~(<<y, x>> \in R)
  BY <1>1, FS_StrictSubsetOrderingWellFounded, WFMin
<1>3. PICK i \in S : x = 0 .. i
  BY <1>2 DEF T
<1>4. ASSUME NEW j \in S, ~(i <= j) PROVE FALSE
  <2>1. 0 .. j \subseteq 0 .. i /\ i \in 0 .. i /\ i \notin 0 .. j
    BY <1>4
  <2>2. 0 .. j \in T /\ 0 .. j \in SUBSET Nat /\ 0 .. i \in SUBSET Nat
    BY <1>4 DEF T
  <2>3. <<0 .. j, x>> \in R
    BY <1>3, <2>1, <2>2 DEF StrictSubsetOrdering
  <2> QED BY <1>2, <2>2, <2>3
<1>5. \E z \in S : \A y \in S : z <= y
  BY <1>4
<1> QED BY <1>5 DEF Lowest

\* bitmap_scan finds sectors that are free.
LEMMA ScanFree ==
  ASSUME NEW cnt \in Nat, Scan(cnt) # None
  PROVE  /\ Scan(cnt) \in Sector \cup {0}
         /\ Extent(Scan(cnt), cnt) \cap free_map = {}
         /\ cnt = 1 => Scan(cnt) \in Sector /\ Extent(Scan(cnt), cnt) = {Scan(cnt)}
<1>0. Sector \subseteq Nat /\ None \notin Sector
  BY FileSysAssumption
<1> DEFINE fits == {s \in Sector : /\ Cardinality(Extent(s, cnt)) = cnt
                                   /\ Extent(s, cnt) \cap free_map = {}}
<1>1. CASE cnt = 0
  <2>1. Scan(cnt) = 0
    BY <1>1 DEF Scan
  <2>2. \A x \in Sector : ~(0 <= x /\ x < 0 + 0)
    BY <1>0
  <2>3. Extent(0, 0) = {}
    BY <2>2 DEF Extent
  <2> QED BY <1>1, <2>1, <2>3
<1>2. CASE cnt # 0
  <2>1. fits # {} /\ Scan(cnt) = Lowest(fits)
    BY <1>2 DEF Scan
  <2>2. Lowest(fits) \in fits
    BY <1>0, <2>1, LowestIsLeast
  <2>3. ASSUME NEW s \in Sector PROVE Extent(s, 1) = {s}
    <3>1. \A x \in Sector : s <= x /\ x < s + 1 <=> x = s
      BY <1>0
    <3> QED BY <3>1 DEF Extent
  <2>4. Scan(cnt) \in Sector /\ Extent(Scan(cnt), cnt) \cap free_map = {}
    BY <2>1, <2>2
  <2> QED BY <2>3, <2>4
<1> QED BY <1>1, <1>2

-----------------------------------------------------------------------------
(* The accounts, step by step.                                             *)

\* Free sectors are taken.
LEMMA Take ==
  ASSUME NEW k, NEW i, NEW m, NEW g, NEW w, NEW new,
         Accounts(k, i, m, g, w), new \cap m = {}
  PROVE  Accounts(k, i, m \cup new, g, w \cup new)
<1>1. \A s \in k : Whole(i, s) \subseteq m
  BY DEF Accounts
<1> QED BY <1>1 DEF Accounts

\* Some of what the call holds is given back.
LEMMA Give ==
  ASSUME NEW k, NEW i, NEW m, NEW g, NEW w, NEW part \in SUBSET w,
         Accounts(k, i, m, g, w)
  PROVE  part \subseteq m /\ Accounts(k, i, m \ part, g, w \ part)
<1>1. \A s \in k : Whole(i, s) \cap part = {}
  BY DEF Accounts
<1>2. (UNION {Whole(i, s) : s \in k}) \ part = UNION {Whole(i, s) : s \in k}
  BY <1>1
<1> QED BY <1>2 DEF Accounts

\* What the call holds is lost.
LEMMA Lose ==
  ASSUME NEW k, NEW i, NEW m, NEW g, NEW w, NEW part \in SUBSET w,
         Accounts(k, i, m, g, w)
  PROVE  Accounts(k, i, m, g \cup part, w \ part)
BY DEF Accounts

\* Inodes elsewhere do not matter.
LEMMA Elsewhere ==
  ASSUME NEW k, NEW i, NEW j, NEW m, NEW g, NEW w,
         Accounts(k, i, m, g, w), \A s \in k : j[s] = i[s]
  PROVE  Accounts(k, j, m, g, w)
<1>1. \A s \in k : Whole(j, s) = Whole(i, s)
  BY DEF Whole
<1>2. {Whole(j, s) : s \in k} = {Whole(i, s) : s \in k}
  BY <1>1
<1> QED BY <1>1, <1>2 DEF Accounts

\* A new file.
LEMMA Add ==
  ASSUME NEW k, NEW i, NEW m, NEW g, NEW s \in Sector,
         Accounts(k, i, m, g, Whole(i, s)),
         i[s] # None, s \notin Extent(i[s].start, i[s].length)
  PROVE  Accounts(k \cup {s}, i, m, g, {})
<1>1. UNION {Whole(i, t) : t \in k \cup {s}} = Whole(i, s) \cup UNION {Whole(i, t) : t \in k}
  OBVIOUS
<1> QED BY <1>1 DEF Accounts

\* A file goes: its inode's sector first.
LEMMA Drop ==
  ASSUME NEW k, NEW i, NEW m, NEW g, NEW s \in k,
         Accounts(k, i, m, g, {})
  PROVE  /\ s \in m
         /\ Accounts(k \ {s}, i, m \ {s}, g, Extent(i[s].start, i[s].length))
<1> DEFINE rest == UNION {Whole(i, t) : t \in k \ {s}}
           data == Extent(i[s].start, i[s].length)
<1>1. (UNION {Whole(i, t) : t \in k}) = rest \cup {s} \cup data
  BY DEF Whole
<1>2. s \notin rest /\ s \notin data /\ s \notin g
  BY DEF Accounts, Whole
<1>3. m = rest \cup {s} \cup data \cup g
  BY <1>1 DEF Accounts
<1>4. m \ {s} = rest \cup g \cup data
  BY <1>2, <1>3
<1>5. /\ \A t \in k \ {s} : Whole(i, t) \cap (g \cup data) = {}
      /\ g \cap data = {}
  BY DEF Accounts, Whole
<1> HIDE DEF rest, data
<1>6. Accounts(k \ {s}, i, m \ {s}, g, data)
  BY <1>4, <1>5 DEF Accounts, rest
<1> QED BY <1>3, <1>6 DEF data
-----------------------------------------------------------------------------
(* The descriptors.                                                        *)

Descriptors == [Process -> [Fd -> {None} \cup OpenFile]]

\* There are finitely many descriptors.
LEMMA FdsFinite ==
  ASSUME NEW f, NEW s
  PROVE  /\ Fds(f, s) \subseteq Process \X Fd /\ IsFiniteSet(Fds(f, s))
         /\ IsFiniteSet(Deniers(f, s)) /\ Deniers(f, s) \subseteq Fds(f, s)
         /\ Cardinality(Fds(f, s)) \in Nat /\ Cardinality(Deniers(f, s)) \in Nat
         /\ Cardinality(Deniers(f, s)) <= Cardinality(Fds(f, s))
<1>1. IsFiniteSet(Process \X Fd)
  BY FileSysAssumption, FS_Product
<1>2. Fds(f, s) \in SUBSET (Process \X Fd) /\ Deniers(f, s) \in SUBSET Fds(f, s)
  BY DEF Fds, Deniers
<1>3. IsFiniteSet(Fds(f, s))
  BY <1>1, <1>2, FS_Subset
<1>4. IsFiniteSet(Deniers(f, s)) /\ Cardinality(Deniers(f, s)) <= Cardinality(Fds(f, s))
  BY <1>2, <1>3, FS_Subset
<1> QED BY <1>2, <1>3, <1>4, FS_CardinalityType

With(f, p, d, r) == [f EXCEPT ![p][d] = r]

\* A descriptor more, of the file r.
LEMMA OneMore ==
  ASSUME NEW f \in Descriptors, NEW p \in Process, NEW d \in Fd, NEW r \in OpenFile,
         f[p][d] = None, NEW s
  PROVE  /\ Cardinality(Fds(With(f, p, d, r), s)) =
              Cardinality(Fds(f, s)) + (IF r.sector = s THEN 1 ELSE 0)
         /\ Cardinality(Deniers(With(f, p, d, r), s)) =
              Cardinality(Deniers(f, s)) + (IF r.sector = s /\ r.deny_write THEN 1 ELSE 0)
<1> DEFINE g == With(f, p, d, r)
<1>1. r # None
  BY FileSysAssumption
<1>2. \A x \in Process \X Fd : g[x[1]][x[2]] = IF x = <<p, d>> THEN r ELSE f[x[1]][x[2]]
  BY DEF Descriptors, With
<1> HIDE DEF g
<1>3. <<p, d>> \in Process \X Fd /\ <<p, d>> \notin Fds(f, s) /\ <<p, d>> \notin Deniers(f, s)
  BY DEF Fds, Deniers
<1>4. Fds(g, s) = IF r.sector = s THEN Fds(f, s) \cup {<<p, d>>} ELSE Fds(f, s)
  <2>1. \A x \in Process \X Fd :
          x \in Fds(g, s) <=> x \in Fds(f, s) \/ (x = <<p, d>> /\ r.sector = s)
    BY <1>1, <1>2, <1>3 DEF Fds
  <2> QED BY <1>3, <2>1, FdsFinite
<1>5. Deniers(g, s) = IF r.sector = s /\ r.deny_write THEN Deniers(f, s) \cup {<<p, d>>}
                      ELSE Deniers(f, s)
  <2>1. \A x \in Process \X Fd :
          x \in Deniers(g, s) <=>
            x \in Deniers(f, s) \/ (x = <<p, d>> /\ r.sector = s /\ r.deny_write)
    BY <1>1, <1>2, <1>3 DEF Fds, Deniers
  <2>2. Deniers(g, s) \subseteq Process \X Fd /\ Deniers(f, s) \subseteq Process \X Fd
    BY FdsFinite
  <2> QED BY <1>3, <2>1, <2>2
<1>6. /\ IsFiniteSet(Fds(f, s)) /\ IsFiniteSet(Deniers(f, s))
      /\ Cardinality(Fds(f, s)) \in Nat /\ Cardinality(Deniers(f, s)) \in Nat
  BY FdsFinite
<1>7. /\ Cardinality(Fds(f, s) \cup {<<p, d>>}) = Cardinality(Fds(f, s)) + 1
      /\ Cardinality(Deniers(f, s) \cup {<<p, d>>}) = Cardinality(Deniers(f, s)) + 1
  BY <1>3, <1>6, FS_AddElement
<1> QED BY <1>4, <1>5, <1>6, <1>7 DEF g

\* One fewer.
LEMMA OneLess ==
  ASSUME NEW f \in Descriptors, NEW p \in Process, NEW d \in Fd,
         f[p][d] # None, NEW s
  PROVE  LET r == f[p][d]
         IN  /\ Cardinality(Fds(With(f, p, d, None), s)) =
                  Cardinality(Fds(f, s)) - (IF r.sector = s THEN 1 ELSE 0)
             /\ Cardinality(Deniers(With(f, p, d, None), s)) =
                  Cardinality(Deniers(f, s)) - (IF r.sector = s /\ r.deny_write THEN 1 ELSE 0)
             /\ r.sector = s => Cardinality(Fds(f, s)) > 0
             /\ r.sector = s /\ r.deny_write => Cardinality(Deniers(f, s)) > 0
<1> DEFINE g == With(f, p, d, None)
           r == f[p][d]
<1>1. r \in OpenFile /\ g \in Descriptors /\ g[p][d] = None /\ f = With(g, p, d, r)
  <2>1. r \in OpenFile /\ g \in Descriptors /\ g[p][d] = None
    BY DEF Descriptors, With
  <2>2. g[p] = [f[p] EXCEPT ![d] = None] /\ f[p] \in [Fd -> {None} \cup OpenFile]
    BY DEF Descriptors, With
  <2>3. f[p] = [g[p] EXCEPT ![d] = r]
    BY <2>2
  <2>4. \A q \in Process \ {p} : g[q] = f[q]
    BY DEF Descriptors, With
  <2>5. [g EXCEPT ![p] = f[p]] = f
    BY <2>1, <2>4 DEF Descriptors
  <2> QED BY <2>1, <2>3, <2>5 DEF With
<1> HIDE DEF g, r
<1>2. /\ Cardinality(Fds(f, s)) = Cardinality(Fds(g, s)) + (IF r.sector = s THEN 1 ELSE 0)
      /\ Cardinality(Deniers(f, s)) =
           Cardinality(Deniers(g, s)) + (IF r.sector = s /\ r.deny_write THEN 1 ELSE 0)
  <2>1. /\ Cardinality(Fds(With(g, p, d, r), s)) =
             Cardinality(Fds(g, s)) + (IF r.sector = s THEN 1 ELSE 0)
        /\ Cardinality(Deniers(With(g, p, d, r), s)) =
             Cardinality(Deniers(g, s)) + (IF r.sector = s /\ r.deny_write THEN 1 ELSE 0)
    BY <1>1, OneMore
  <2> QED BY <1>1, <2>1
<1>3. /\ Cardinality(Fds(g, s)) \in Nat /\ Cardinality(Deniers(g, s)) \in Nat
      /\ Cardinality(Fds(f, s)) \in Nat /\ Cardinality(Deniers(f, s)) \in Nat
  BY FdsFinite
<1>4. /\ Cardinality(Fds(g, s)) = Cardinality(Fds(f, s)) - (IF r.sector = s THEN 1 ELSE 0)
      /\ Cardinality(Deniers(g, s)) =
           Cardinality(Deniers(f, s)) - (IF r.sector = s /\ r.deny_write THEN 1 ELSE 0)
      /\ r.sector = s => Cardinality(Fds(f, s)) > 0
      /\ r.sector = s /\ r.deny_write => Cardinality(Deniers(f, s)) > 0
  BY <1>2, <1>3
<1> QED BY <1>4 DEF g, r

-----------------------------------------------------------------------------
(* The steps.                                                              *)

\* The fields of a create in progress.
LEMMA CreateCallFields ==
  \A c \in CreateCall :
    c.sector \in Sector /\ c.name \in Name /\ c.size \in Nat /\ c.start \in Nat
<1>1. Size \subseteq Nat /\ Sector \cup {0} \subseteq Nat
  BY FileSysAssumption
<1> QED BY <1>1 DEF CreateCall

\* Which call holds what.
LEMMA CallForms ==
  /\ WorkOf(None) = {} /\ RemovingOf(None) = {}
  /\ \A c \in ExitCall : WorkOf(c) = {} /\ RemovingOf(c) = {} /\ c \notin CreateCall
  /\ \A c \in RemoveCall : WorkOf(c) = {} /\ RemovingOf(c) = {c.sector} /\ c \notin CreateCall
  /\ \A c \in ReleaseCall : WorkOf(c) = c.sectors /\ RemovingOf(c) = {} /\ c \notin CreateCall
  /\ \A c \in CreateCall : RemovingOf(c) = {}
<1> USE FileSysAssumption
<1>1. /\ \A c \in ExitCall : c \notin CreateCall /\ c \notin RemoveCall /\ c \notin ReleaseCall
      /\ \A c \in RemoveCall : c \notin CreateCall /\ c \notin ReleaseCall
      /\ \A c \in ReleaseCall : c \notin CreateCall
  BY DEF ExitCall, RemoveCall, ReleaseCall, CreateCall
<1> QED BY <1>1 DEF WorkOf, RemovingOf

\* The call in progress is known by its step.
LEMMA CallByStep ==
  ASSUME TypeOK, NEW step, Doing(step)
  PROVE  /\ step \in {"data", "inode", "entry"} => call \in CreateCall
         /\ step = "remove" => call \in RemoveCall
         /\ step = "exit" => call \in ExitCall
         /\ step = "release" => call \in ReleaseCall
<1>1. call \in CreateCall \cup RemoveCall \cup ExitCall \cup ReleaseCall
  BY DEF TypeOK, Doing
<1> QED BY <1>1 DEF Doing, CreateCall, RemoveCall, ExitCall, ReleaseCall

\* inode_close of s, called with the inode i as its caller has changed it.
LEMMA CloseInodeKeeps ==
  ASSUME IInv, NEW s \in Sector, NEW i, NEW next \in ExitCall \cup {None},
         CloseInode(s, i, next), UNCHANGED <<dir, lost>>,
         open_inodes[s] # None, Work = {}, Removing \subseteq {s},
         i \in Mem,
         i.removed <=> s \in Removed \cup Removing
  PROVE  /\ DiskGood' /\ free_map' \subseteq Sector
         /\ disk_inode' \in [Sector -> {None} \cup Inode]
         /\ open_inodes' \in [Sector -> {None} \cup Mem]
         /\ call' \in {None} \cup ExitCall \cup ReleaseCall
<1> DEFINE left == [i EXCEPT !.open_cnt = @ - 1]
<1>0. /\ TypeOK /\ Accounts(Kept, disk_inode, free_map, lost, {}) /\ Apart
      /\ panic = FALSE /\ free_map = disk_map
      /\ MaxOpen \in Nat
  BY FileSysAssumption DEF IInv, DiskGood
<1>1. Mem \subseteq OpenInode
  BY <1>0 DEF Mem, OpenInode
<1>2. /\ i.open_cnt > 1 => left \in Mem /\ left # None /\ left.removed = i.removed
      /\ open_inodes' = [open_inodes EXCEPT ![s] = IF i.open_cnt > 1 THEN left ELSE None]
  <2>1. i.open_cnt > 1 => left \in Mem /\ left.removed = i.removed
    BY <1>0 DEF Mem
  <2>2. None \notin Mem
    BY <1>1, FileSysAssumption
  <2> QED BY <2>1, <2>2 DEF CloseInode
<1>3. open_inodes' \in [Sector -> {None} \cup Mem]
  BY <1>0, <1>2 DEF Mem, TypeOK
<1>4. ListedInodes' = ListedInodes
  BY DEF ListedInodes
<1>5. \A t \in Sector : t \in Removed' <=>
        IF t = s THEN i.open_cnt > 1 /\ i.removed ELSE t \in Removed
  BY <1>0, <1>2 DEF Removed, TypeOK
<1>6. Removed \subseteq Sector /\ Removed' \subseteq Sector
  BY DEF Removed
<1> HIDE DEF left
<1>7. CASE i.open_cnt = 1 /\ i.removed
  <2>1. s \in Kept /\ s \notin ListedInodes /\ Removed' = Removed \ {s}
    BY <1>0, <1>5, <1>6, <1>7 DEF Kept, Apart
  <2>2. /\ s \in free_map
        /\ Accounts(Kept \ {s}, disk_inode, free_map \ {s}, lost, Data(s))
    BY <1>0, <2>1, Drop DEF Data
  <2>3. /\ free_map' = free_map \ {s} /\ disk_map' = free_map' /\ panic' = panic
        /\ disk_inode' = Forgotten(s)
        /\ call' = [step |-> "release", sectors |-> Data(s), next |-> next]
    <3>1. ~(i.open_cnt > 1 \/ ~ i.removed) /\ {s} \subseteq free_map
      BY <1>7, <2>2
    <3>2. /\ free_map_release({s}) /\ disk_inode' = Forgotten(s)
          /\ call' = [step |-> "release", sectors |-> Data(s), next |-> next]
      BY <3>1 DEF CloseInode
    <3> QED BY <3>1, <3>2 DEF free_map_release, SetMap
  <2>4. call' \in ReleaseCall /\ Work' = Data(s) /\ Removing' = {} /\ call' \notin CreateCall
    <3>1. Data(s) \subseteq Sector
      BY DEF Data, Extent
    <3>2. call' \in ReleaseCall /\ call'.sectors = Data(s)
      BY <2>3, <3>1 DEF ReleaseCall
    <3> QED BY <3>2, CallForms DEF Work, Removing
  <2>5. Kept' = Kept \ {s}
    BY <1>4, <2>1, <2>4 DEF Kept
  <2>6. Accounts(Kept', disk_inode', free_map', lost', Work')
    <3>1. Accounts(Kept', disk_inode, free_map', lost', Work')
      BY <2>2, <2>3, <2>4, <2>5
    <3>2. \A t \in Kept' : disk_inode'[t] = disk_inode[t]
      BY <1>0, <2>3, <2>5 DEF Forgotten, TypeOK, Accounts
    <3> QED BY <3>1, <3>2, Elsewhere
  <2>7. Apart' /\ CreateSound'
    BY <1>0, <1>4, <2>1, <2>4 DEF Apart, CreateSound
  <2>8. disk_inode' \in [Sector -> {None} \cup Inode] /\ free_map' \subseteq Sector
    BY <1>0, <2>3 DEF Forgotten, TypeOK
  <2> QED BY <1>0, <1>3, <2>3, <2>4, <2>6, <2>7, <2>8 DEF DiskGood
<1>8. CASE i.open_cnt > 1 \/ ~ i.removed
  <2>1. /\ UNCHANGED <<free_map, disk_map, disk_inode, panic>> /\ call' = next
    <3>1. ~(i.open_cnt = 1 /\ i.removed)
      BY <1>8
    <3> QED BY <3>1 DEF CloseInode
  <2>2. Work' = {} /\ Removing' = {} /\ call' \notin CreateCall
    BY <2>1, CallForms, FileSysAssumption DEF Work, Removing
  <2>3. Removed' = Removed \cup Removing
    <3>1. \A t \in Sector : t \in Removed' <=> t \in Removed \/ t \in Removing
      <4>1. CASE i.removed
        BY <1>5, <1>8, <4>1
      <4>2. CASE ~ i.removed
        BY <1>5, <1>8, <4>2
      <4> QED BY <4>1, <4>2
    <3>2. Removing \subseteq Sector
      OBVIOUS
    <3> QED BY <1>6, <3>1, <3>2
  <2>4. Kept' = Kept
    BY <1>4, <2>2, <2>3 DEF Kept
  <2>5. Apart' /\ CreateSound'
    BY <1>0, <1>4, <2>2, <2>3 DEF Apart, CreateSound
  <2> QED BY <1>0, <1>3, <2>1, <2>2, <2>4, <2>5 DEF DiskGood, TypeOK
<1> QED BY <1>7, <1>8 DEF CloseInode

\* It has one opener fewer.
LEMMA CloseInodeCounts ==
  ASSUME TypeOK, NEW s \in Sector, NEW i \in Mem, NEW next,
         CloseInode(s, i, next), open_inodes[s] # None,
         i.open_cnt = open_inodes[s].open_cnt
  PROVE  /\ Openers(s)' = Openers(s) - 1 /\ Openers(s) \in 1 .. MaxOpen + 1
         /\ Openers(s)' > 0 => open_inodes'[s].deny_write_cnt = i.deny_write_cnt
         /\ \A t \in Sector \ {s} : open_inodes'[t] = open_inodes[t] /\ Openers(t)' = Openers(t)
<1> DEFINE left == [i EXCEPT !.open_cnt = @ - 1]
<1>1. MaxOpen \in Nat
  BY FileSysAssumption
<1>2. i.open_cnt > 1 => left \in Mem /\ left # None
  <2>1. i.open_cnt > 1 => left \in Mem
    BY <1>1 DEF Mem
  <2>2. Mem \subseteq OpenInode
    BY <1>1 DEF Mem, OpenInode
  <2> QED BY <2>1, <2>2, FileSysAssumption
<1>3. left.open_cnt = i.open_cnt - 1 /\ left.deny_write_cnt = i.deny_write_cnt
  BY DEF Mem
<1>4. open_inodes' = [open_inodes EXCEPT ![s] = IF i.open_cnt > 1 THEN left ELSE None]
  BY DEF CloseInode
<1>5. i.open_cnt \in 1 .. MaxOpen + 1
  BY DEF Mem
<1> HIDE DEF left
<1>6. open_inodes'[s] = IF i.open_cnt > 1 THEN left ELSE None
  BY <1>4 DEF TypeOK
<1>7. \A t \in Sector \ {s} : open_inodes'[t] = open_inodes[t]
  BY <1>4 DEF TypeOK
<1> QED BY <1>1, <1>2, <1>3, <1>5, <1>6, <1>7 DEF Openers

\* A descriptor is for an inode that is in memory and, if it denies writing,
\* knows it.
LEMMA Opener ==
  ASSUME IInv, NEW p \in Process, NEW d \in Fd, file[p][d] # None
  PROVE  LET s == file[p][d].sector
         IN  /\ file[p][d] \in OpenFile /\ s \in Sector
             /\ open_inodes[s] # None /\ open_inodes[s] \in Mem
             /\ file[p][d].deny_write => open_inodes[s].deny_write_cnt > 0
<1> DEFINE s == file[p][d].sector
<1>1. TypeOK /\ Counts /\ file \in Descriptors
  BY DEF IInv, TypeOK, Descriptors
<1>2. file[p][d] \in OpenFile /\ s \in Sector
  BY <1>1 DEF Descriptors, OpenFile
<1>3. /\ Cardinality(Fds(file, s)) > 0
      /\ file[p][d].deny_write => Cardinality(Deniers(file, s)) > 0
  BY <1>1, OneLess
<1>4. Cardinality(Fds(file, s)) \in Nat /\ Cardinality(Deniers(file, s)) \in Nat
  BY FdsFinite
<1> HIDE DEF s
<1>5. leaked[s] \in Nat /\ MaxOpen \in Nat
  BY <1>1, <1>2, FileSysAssumption DEF TypeOK
<1>6. Openers(s) > 0
  BY <1>1, <1>2, <1>3, <1>4, <1>5 DEF Counts
<1>7. open_inodes[s] # None
  BY <1>6 DEF Openers
<1>8. open_inodes[s] \in Mem
  BY <1>1, <1>2, <1>7 DEF TypeOK, Mem
<1>9. file[p][d].deny_write => open_inodes[s].deny_write_cnt > 0
  <2>1. open_inodes[s].deny_write_cnt \in Nat
    BY <1>5, <1>8 DEF Mem
  <2> QED BY <1>1, <1>2, <1>3, <1>4, <1>6, <2>1 DEF Counts
<1> QED BY <1>2, <1>7, <1>8, <1>9 DEF s

\* file_close of a descriptor.
LEMMA CloseFileKeeps ==
  ASSUME IInv, NEW p \in Process, NEW d \in Fd, file[p][d] # None,
         NEW next \in ExitCall \cup {None},
         CloseFile(file[p][d], next), file' = [file EXCEPT ![p][d] = None],
         UNCHANGED <<dir, lost, leaked>>, Work = {}, Removing = {}
  PROVE  /\ DiskGood' /\ Counts' /\ free_map' \subseteq Sector
         /\ disk_inode' \in [Sector -> {None} \cup Inode]
         /\ open_inodes' \in [Sector -> {None} \cup Mem]
         /\ call' \in {None} \cup ExitCall \cup ReleaseCall
<1>0. TypeOK /\ Counts /\ MaxOpen \in Nat /\ file \in Descriptors
  BY FileSysAssumption DEF IInv, TypeOK, Descriptors
<1>a. PICK f \in OpenFile : f = file[p][d]
  BY Opener
<1> DEFINE s == f.sector
<1>1. /\ s \in Sector /\ open_inodes[s] # None /\ open_inodes[s] \in Mem
      /\ f.deny_write => open_inodes[s].deny_write_cnt > 0
      /\ f.deny_write \in BOOLEAN
  BY <1>a, Opener DEF OpenFile
<1>b. PICK i : i = IF f.deny_write THEN [open_inodes[s] EXCEPT !.deny_write_cnt = @ - 1]
                   ELSE open_inodes[s]
  OBVIOUS
<1>2. /\ i \in Mem /\ i.open_cnt = open_inodes[s].open_cnt
      /\ i.removed = open_inodes[s].removed
      /\ i.deny_write_cnt = open_inodes[s].deny_write_cnt - (IF f.deny_write THEN 1 ELSE 0)
  BY <1>0, <1>1, <1>b DEF Mem
<1>3. CloseInode(s, i, next)
  BY <1>a, <1>b DEF CloseFile
<1>4. file' = With(file, p, d, None)
  BY DEF With
<1> HIDE DEF s
<1>5. i.removed <=> s \in Removed \cup Removing
  BY <1>1, <1>2 DEF Removed
<1>6. /\ DiskGood' /\ free_map' \subseteq Sector
      /\ disk_inode' \in [Sector -> {None} \cup Inode]
      /\ open_inodes' \in [Sector -> {None} \cup Mem]
      /\ call' \in {None} \cup ExitCall \cup ReleaseCall
  BY <1>1, <1>2, <1>3, <1>5, CloseInodeKeeps
<1>7. Removing' = {}
  BY <1>6, CallForms DEF Removing
<1>8. Counts'
  <2> SUFFICES ASSUME NEW t \in Sector
               PROVE  /\ Openers(t)' = Cardinality(Fds(file', t)) + leaked[t] + 0
                      /\ Openers(t)' > 0 =>
                           /\ open_inodes'[t].deny_write_cnt >= Cardinality(Deniers(file', t))
                           /\ open_inodes'[t].deny_write_cnt
                                <= Cardinality(Deniers(file', t)) + leaked[t]
                      /\ leaked[t] <= MaxOpen /\ Openers(t)' <= MaxOpen
    BY <1>7 DEF Counts
  <2>1. /\ Openers(s)' = Openers(s) - 1 /\ Openers(s) \in 1 .. MaxOpen + 1
        /\ Openers(s)' > 0 => open_inodes'[s].deny_write_cnt = i.deny_write_cnt
        /\ t # s => open_inodes'[t] = open_inodes[t] /\ Openers(t)' = Openers(t)
    BY <1>0, <1>1, <1>2, <1>3, CloseInodeCounts
  <2>2. /\ Cardinality(Fds(file', t)) = Cardinality(Fds(file, t)) - (IF s = t THEN 1 ELSE 0)
        /\ Cardinality(Deniers(file', t)) =
             Cardinality(Deniers(file, t)) - (IF s = t /\ f.deny_write THEN 1 ELSE 0)
    <3>1. LET r == file[p][d]
          IN  /\ Cardinality(Fds(With(file, p, d, None), t)) =
                   Cardinality(Fds(file, t)) - (IF r.sector = t THEN 1 ELSE 0)
              /\ Cardinality(Deniers(With(file, p, d, None), t)) =
                   Cardinality(Deniers(file, t)) - (IF r.sector = t /\ r.deny_write THEN 1 ELSE 0)
      BY <1>0, OneLess
    <3> QED BY <1>4, <1>a, <3>1 DEF s
  <2>3. /\ Cardinality(Fds(file, t)) \in Nat /\ Cardinality(Deniers(file, t)) \in Nat
        /\ leaked[t] \in Nat
    BY <1>0, FdsFinite DEF TypeOK
  <2>4. /\ Openers(t) = Cardinality(Fds(file, t)) + leaked[t] + 0
        /\ Openers(t) > 0 =>
             /\ open_inodes[t].deny_write_cnt >= Cardinality(Deniers(file, t))
             /\ open_inodes[t].deny_write_cnt <= Cardinality(Deniers(file, t)) + leaked[t]
        /\ leaked[t] <= MaxOpen /\ Openers(t) <= MaxOpen
    BY <1>0 DEF Counts
  <2>5. CASE t = s
    <3>1. open_inodes[s].deny_write_cnt \in Nat /\ Openers(s) > 0
      BY <1>0, <1>1, <2>1 DEF Mem
    <3> QED BY <1>0, <1>2, <2>1, <2>2, <2>3, <2>4, <2>5, <3>1
  <2>6. CASE t # s
    BY <2>1, <2>2, <2>3, <2>4, <2>6
  <2> QED BY <2>5, <2>6
<1> QED BY <1>6, <1>8

\* Calls that open and close nothing.
LEMMA CountsSame ==
  ASSUME Counts, UNCHANGED <<open_inodes, file, leaked>>, Removing' = Removing
  PROVE  Counts'
BY DEF Counts, Openers

\* Calls that leave directory, inodes in memory and removals alone.
LEMMA KeptSame ==
  ASSUME UNCHANGED <<dir, open_inodes>>, Removing' = Removing
  PROVE  /\ Kept' = Kept /\ ListedInodes' = ListedInodes /\ Removed' = Removed
         /\ Apart => Apart'
BY DEF Kept, ListedInodes, Removed, Apart

\* filesys_create.
LEMMA CreateKeeps ==
  ASSUME IInv, NEW p \in Process, NEW name \in Name, NEW size \in Size, Create(p, name, size)
  PROVE  IInv'
<1> USE DEF IInv, DiskGood
<1>1. /\ call = None /\ Scan(1) # None
      /\ call' = [step |-> "data", name |-> name, sector |-> Scan(1), size |-> size, start |-> 0]
      /\ UNCHANGED <<disk_inode, dir, open_inodes, file, prog, lost, leaked, panic>>
      /\ free_map' = free_map \cup Extent(Scan(1), 1) /\ disk_map' = free_map'
  BY DEF Create, Idle, free_map_allocate, SetMap
<1>2. /\ Scan(1) \in Sector /\ Extent(Scan(1), 1) = {Scan(1)}
      /\ {Scan(1)} \cap free_map = {}
  BY <1>1, ScanFree
<1>3. /\ Work = {} /\ Removing = {}
  BY <1>1, CallForms DEF Work, Removing
<1>4. call' \in CreateCall /\ Work' = {Scan(1)} /\ Removing' = {}
  <2>1. call' \in CreateCall
    BY <1>1, <1>2 DEF CreateCall
  <2> QED BY <1>1, <2>1, CallForms DEF Work, WorkOf, Removing
<1>5. Accounts(Kept', disk_inode', free_map', lost', Work')
  <2>1. Accounts(Kept, disk_inode, free_map \cup {Scan(1)}, lost, {} \cup {Scan(1)})
    BY <1>2, <1>3, Take
  <2>2. {} \cup {Scan(1)} = {Scan(1)}
    OBVIOUS
  <2> QED BY <1>1, <1>2, <1>3, <1>4, <2>1, <2>2, KeptSame
<1>6. Apart' /\ Counts'
  BY <1>1, <1>3, <1>4, KeptSame, CountsSame
<1>7. CreateSound'
  BY <1>1 DEF CreateSound
<1>8. TypeOK'
  BY <1>1, <1>2, <1>4 DEF TypeOK
<1> QED BY <1>1, <1>5, <1>6, <1>7, <1>8

\* inode_create, the sectors of the data.
LEMMA AllocateKeeps ==
  ASSUME IInv, AllocateData
  PROVE  IInv'
<1> USE DEF IInv, DiskGood
<1>1. /\ call \in CreateCall /\ call.step = "data"
      /\ UNCHANGED <<disk_inode, dir, open_inodes, file, prog, lost, leaked>>
  BY CallByStep DEF AllocateData, Doing
<1>2. /\ call.sector \in Sector /\ call.size \in Nat /\ Removing = {} /\ Work = {call.sector}
  BY <1>1, CallForms, FileSysAssumption DEF CreateCall, Work, WorkOf, Removing
<1>3. CASE Scan(call.size) # None
  <2> DEFINE start == Scan(call.size)
             ext == Extent(start, call.size)
  <2>1. start \in Sector \cup {0} /\ ext \cap free_map = {}
    BY <1>2, <1>3, ScanFree
  <2>2. /\ free_map' = free_map \cup ext /\ disk_map' = free_map' /\ panic' = panic
        /\ call' = [call EXCEPT !.step = "inode", !.start = start]
    BY <1>3 DEF AllocateData, free_map_allocate, SetMap
  <2> HIDE DEF start
  <2>3. /\ call' \in CreateCall /\ call'.sector = call.sector /\ call'.step = "inode"
        /\ call'.start = start /\ call'.size = call.size
    BY <1>1, <2>1, <2>2 DEF CreateCall
  <2>4. Work' = {call.sector} \cup ext /\ Removing' = {}
    BY <2>3, CallForms DEF Work, WorkOf, Removing
  <2>5. Accounts(Kept', disk_inode', free_map', lost', Work')
    <3>1. Accounts(Kept, disk_inode, free_map \cup ext, lost, Work \cup ext)
      BY <2>1, Take
    <3> QED BY <1>1, <1>2, <2>2, <2>4, <3>1, KeptSame
  <2>6. call.sector \notin ext
    BY <1>2, <2>1 DEF Accounts
  <2>7. Apart' /\ Counts' /\ CreateSound'
    BY <1>1, <1>2, <2>3, <2>4, <2>6, KeptSame, CountsSame DEF CreateSound
  <2>8. ext \subseteq Sector
    BY DEF Extent
  <2>9. TypeOK'
    BY <1>1, <2>2, <2>3, <2>8 DEF TypeOK
  <2> QED BY <2>2, <2>5, <2>7, <2>9
<1>4. CASE Scan(call.size) = None
  <2>1. {call.sector} \subseteq free_map
    BY <1>2, Give
  <2>2. /\ free_map' = free_map \ {call.sector} /\ disk_map' = free_map' /\ panic' = panic
        /\ call' = None
    BY <1>4, <2>1 DEF AllocateData, free_map_release, SetMap
  <2>3. Work' = {} /\ Removing' = {} /\ call' \notin CreateCall
    BY <2>2, CallForms, FileSysAssumption DEF Work, Removing
  <2>4. Accounts(Kept', disk_inode', free_map', lost', Work')
    <3>1. Accounts(Kept, disk_inode, free_map \ {call.sector}, lost, Work \ {call.sector})
      BY <1>2, Give
    <3>2. Work \ {call.sector} = {}
      BY <1>2
    <3> QED BY <1>1, <1>2, <2>2, <2>3, <3>1, <3>2, KeptSame
  <2>5. Apart' /\ Counts' /\ CreateSound'
    BY <1>1, <1>2, <2>3, KeptSame, CountsSame DEF CreateSound
  <2>6. TypeOK'
    BY <1>1, <2>2 DEF TypeOK
  <2> QED BY <2>2, <2>4, <2>5, <2>6
<1> QED BY <1>3, <1>4

\* inode_create, the inode.
LEMMA WriteInodeKeeps ==
  ASSUME IInv, WriteInode
  PROVE  IInv'
<1> USE DEF IInv, DiskGood
<1>1. /\ call \in CreateCall /\ call.step = "inode"
      /\ disk_inode' = [disk_inode EXCEPT ![call.sector] =
                          [start |-> call.start, length |-> call.size]]
      /\ call' = [call EXCEPT !.step = "entry"]
      /\ UNCHANGED <<free_map, disk_map, dir, open_inodes, file, prog, lost, leaked, panic>>
  BY CallByStep DEF WriteInode, Doing
<1>2. /\ call.sector \in Sector /\ call.size \in Nat /\ call.start \in Nat
      /\ Removing = {} /\ Work = {call.sector} \cup Extent(call.start, call.size)
  BY <1>1, CallForms, FileSysAssumption DEF CreateCall, Work, WorkOf, Removing
<1>3. /\ call' \in CreateCall /\ call'.sector = call.sector /\ call'.step = "entry"
      /\ call'.start = call.start /\ call'.size = call.size
  BY <1>1 DEF CreateCall
<1>4. Work' = Work /\ Removing' = {}
  BY <1>2, <1>3, CallForms DEF Work, WorkOf, Removing
<1>5. Accounts(Kept', disk_inode', free_map', lost', Work')
  <2>1. call.sector \notin Kept
    BY <1>2 DEF Accounts, Whole
  <2>2. \A s \in Kept : disk_inode'[s] = disk_inode[s]
    BY <1>1, <2>1 DEF TypeOK, Accounts
  <2> QED BY <1>1, <1>2, <1>4, <2>2, Elsewhere, KeptSame
<1>6. disk_inode' \in [Sector -> {None} \cup Inode]
  BY <1>1, <1>2 DEF TypeOK, Inode
<1>7. CreateSound'
  <2>1. disk_inode'[call.sector] = [start |-> call.start, length |-> call.size]
    BY <1>1, <1>2 DEF TypeOK
  <2> QED BY <1>1, <1>3, <2>1 DEF CreateSound
<1>8. Apart' /\ Counts'
  BY <1>1, <1>2, <1>4, KeptSame, CountsSame
<1>9. TypeOK'
  BY <1>1, <1>3, <1>6 DEF TypeOK
<1> QED BY <1>1, <1>5, <1>7, <1>8, <1>9

\* dir_add.
LEMMA AddEntryKeeps ==
  ASSUME IInv, AddEntry
  PROVE  IInv'
<1> USE DEF IInv, DiskGood
<1> DEFINE unused == {e \in Entry : dir[e] = None}
           data == Extent(call.start, call.size)
           s == call.sector
<1>1. /\ call \in CreateCall /\ call.step = "entry" /\ call' = None
      /\ UNCHANGED <<open_inodes, file, prog, leaked>>
  BY CallByStep DEF AddEntry, Doing
<1>2. /\ s \in Sector /\ call.name \in Name /\ Removing = {} /\ Work = {s} \cup data
      /\ s \notin data /\ disk_inode[s] = [start |-> call.start, length |-> call.size]
      /\ call.start \in Nat /\ call.size \in Nat
  <2>1. s \in Sector /\ call.name \in Name /\ call.start \in Nat /\ call.size \in Nat
    BY <1>1, CreateCallFields
  <2>2. Removing = {} /\ Work = {s} \cup data
    BY <1>1, CallForms DEF Work, WorkOf, Removing
  <2> QED BY <1>1, <2>1, <2>2 DEF CreateSound
<1>3. Work' = {} /\ Removing' = {} /\ call' \notin CreateCall
  BY <1>1, CallForms, FileSysAssumption DEF Work, Removing
<1>4. s \notin Kept
  BY <1>2 DEF Accounts, Whole
<1>5. Counts' /\ CreateSound' /\ Removed' = Removed
  BY <1>1, <1>2, <1>3, CountsSame DEF CreateSound, Removed
<1>6. CASE Lookup(call.name) = {} /\ unused # {}
  <2> DEFINE new == [name |-> call.name, sector |-> s]
  <2>1. PICK e : e = Lowest(unused)
    OBVIOUS
  <2>2. e \in Entry /\ dir[e] = None
    BY <1>6, <2>1, LowestIsLeast, FileSysAssumption
  <2>3. /\ dir' = [dir EXCEPT ![e] = new]
        /\ UNCHANGED <<free_map, disk_map, disk_inode, lost, panic>>
    BY <1>6, <2>1 DEF AddEntry
  <2>4. new \in DirEntry /\ new # None
    BY <1>2, FileSysAssumption DEF DirEntry
  <2>5. ListedInodes' = ListedInodes \cup {s}
    BY <2>2, <2>3, <2>4 DEF ListedInodes, TypeOK
  <2>6. Kept' = Kept \cup {s}
    BY <1>2, <1>3, <1>5, <2>5 DEF Kept
  <2>7. Whole(disk_inode, s) = Work /\ disk_inode[s] # None
    <3>1. disk_inode[s] \in Inode
      BY <1>2 DEF Inode
    <3> QED BY <1>2, <3>1, FileSysAssumption DEF Whole
  <2>8. Accounts(Kept', disk_inode', free_map', lost', Work')
    BY <1>2, <1>3, <2>3, <2>6, <2>7, Add
  <2>9. Apart'
    <3>1. \A f \in Entry : dir[f] # None => dir[f].name # call.name /\ dir[f].sector # s
      BY <1>4, <1>6 DEF Lookup, Kept, ListedInodes
    <3>2. \A f \in Entry : dir'[f] = IF f = e THEN new ELSE dir[f]
      BY <2>2, <2>3 DEF TypeOK
    <3>3. \A f, g \in Entry : dir'[f] # None /\ dir'[g] # None /\ f # g =>
            dir'[f].name # dir'[g].name /\ dir'[f].sector # dir'[g].sector
      BY <3>1, <3>2 DEF Apart
    <3>4. s \notin Removed
      BY <1>4 DEF Kept
    <3> QED BY <1>3, <1>5, <2>5, <3>3, <3>4 DEF Apart
  <2>10. TypeOK'
    BY <1>1, <2>2, <2>3, <2>4 DEF TypeOK
  <2> QED BY <1>5, <2>3, <2>8, <2>9, <2>10
<1>7. CASE Lookup(call.name) # {} \/ unused = {}
  <2>0. {s} \in SUBSET Work /\ data \in SUBSET data
    BY <1>2
  <2>1. /\ {s} \subseteq free_map
        /\ Accounts(Kept, disk_inode, free_map \ {s}, lost, Work \ {s})
    BY <2>0, Give
  <2>2. /\ free_map' = free_map \ {s} /\ disk_map' = free_map' /\ panic' = panic
        /\ disk_inode' = Forgotten(s) /\ lost' = lost \cup data /\ dir' = dir
    <3>1. ~(Lookup(call.name) = {} /\ unused # {})
      BY <1>7
    <3> QED BY <2>1, <3>1 DEF AddEntry, free_map_release, SetMap
  <2>3. Accounts(Kept', disk_inode', free_map', lost', Work')
    <3>2. Work \ {s} = data /\ data \ data = {}
      BY <1>2
    <3>3. Accounts(Kept, disk_inode, free_map \ {s}, lost \cup data, data \ data)
      BY <2>0, <2>1, <3>2, Lose
    <3>4. \A t \in Kept : disk_inode'[t] = disk_inode[t]
      BY <1>4, <2>2 DEF Forgotten, TypeOK, Accounts
    <3>5. Accounts(Kept, disk_inode', free_map \ {s}, lost \cup data, {})
      BY <3>2, <3>3, <3>4, Elsewhere
    <3> QED BY <1>1, <1>2, <1>3, <2>2, <3>5, KeptSame
  <2>4. Apart'
    BY <1>1, <1>2, <1>3, <2>2, KeptSame
  <2>5. data \subseteq Sector
    BY DEF Extent
  <2>6. TypeOK'
    BY <1>1, <1>2, <2>2, <2>5 DEF TypeOK, Forgotten
  <2> QED BY <1>5, <2>2, <2>3, <2>4, <2>6
<1> QED BY <1>6, <1>7

\* inode_open.
LEMMA OpenedIs ==
  ASSUME TypeOK, NEW s \in Sector, Openers(s) <= MaxOpen
  PROVE  /\ Opened(s) \in Mem /\ Opened(s).open_cnt = Openers(s) + 1
         /\ Opened(s).removed <=> s \in Removed
         /\ Opened(s).deny_write_cnt =
              IF open_inodes[s] = None THEN 0 ELSE open_inodes[s].deny_write_cnt
         /\ Openers(s) \in Nat /\ (Openers(s) > 0 <=> open_inodes[s] # None)
<1>1. MaxOpen \in Nat
  BY FileSysAssumption
<1>2. CASE open_inodes[s] = None
  BY <1>1, <1>2 DEF Opened, Openers, Mem, Removed
<1>3. CASE open_inodes[s] # None
  <2>1. open_inodes[s] \in Mem
    BY <1>3 DEF TypeOK, Mem
  <2> QED BY <1>1, <1>3, <2>1 DEF Opened, Openers, Mem, Removed
<1> QED BY <1>2, <1>3

\* The inode of s is replaced in memory, and is removed or not as before.
LEMMA ReplacedKeeps ==
  ASSUME IInv, NEW s \in Sector, NEW i \in Mem,
         open_inodes' = [open_inodes EXCEPT ![s] = i],
         i.removed <=> s \in Removed
  PROVE  /\ i # None /\ open_inodes' \in [Sector -> {None} \cup Mem] /\ Removed' = Removed
         /\ Openers(s)' = i.open_cnt
         /\ \A t \in Sector \ {s} : open_inodes'[t] = open_inodes[t] /\ Openers(t)' = Openers(t)
<1>1. open_inodes \in [Sector -> {None} \cup Mem]
  BY DEF IInv, TypeOK, Mem
<1>2. i # None
  <2>1. Mem \subseteq OpenInode
    BY FileSysAssumption DEF Mem, OpenInode
  <2> QED BY <2>1, FileSysAssumption
<1> QED BY <1>1, <1>2 DEF Removed, Openers

\* The counts while remove is not at work.
LEMMA CountsIdle ==
  ASSUME IInv, Removing = {}, NEW t \in Sector
  PROVE  /\ Cardinality(Fds(file, t)) \in Nat /\ Cardinality(Deniers(file, t)) \in Nat
         /\ Cardinality(Deniers(file, t)) <= Cardinality(Fds(file, t))
         /\ leaked[t] \in Nat /\ Openers(t) \in Nat /\ MaxOpen \in Nat
         /\ Openers(t) = Cardinality(Fds(file, t)) + leaked[t] + 0
         /\ Openers(t) > 0 =>
              /\ open_inodes[t].deny_write_cnt >= Cardinality(Deniers(file, t))
              /\ open_inodes[t].deny_write_cnt <= Cardinality(Deniers(file, t)) + leaked[t]
         /\ leaked[t] <= MaxOpen /\ Openers(t) <= MaxOpen
<1>1. Openers(t) \in Nat
  BY DEF IInv, Openers, TypeOK
<1> QED BY <1>1, FdsFinite, FileSysAssumption DEF IInv, Counts, TypeOK

\* inode_open, and file_deny_write when deny.
LEMMA OpenInodeKeeps ==
  ASSUME IInv, NEW s \in Sector, NEW deny \in BOOLEAN, Openers(s) < MaxOpen, Removing = {},
         open_inodes' = [open_inodes EXCEPT ![s] =
           IF deny THEN [Opened(s) EXCEPT !.deny_write_cnt = @ + 1] ELSE Opened(s)],
         UNCHANGED <<free_map, disk_map, disk_inode, dir, call, lost, panic>>
  PROVE  /\ DiskGood' /\ open_inodes' \in [Sector -> {None} \cup Mem] /\ Removing' = {}
         /\ Openers(s)' = Openers(s) + 1
         /\ open_inodes'[s].deny_write_cnt \in Nat
         /\ open_inodes'[s].deny_write_cnt >=
              Cardinality(Deniers(file, s)) + (IF deny THEN 1 ELSE 0)
         /\ open_inodes'[s].deny_write_cnt <=
              Cardinality(Deniers(file, s)) + leaked[s] + (IF deny THEN 1 ELSE 0)
         /\ \A t \in Sector \ {s} : open_inodes'[t] = open_inodes[t] /\ Openers(t)' = Openers(t)
<1> USE DEF IInv, DiskGood
<1>1. Removing' = {} /\ Work' = Work
  BY DEF Work, Removing
<1>2. /\ Cardinality(Fds(file, s)) \in Nat /\ Cardinality(Deniers(file, s)) \in Nat
      /\ Cardinality(Deniers(file, s)) <= Cardinality(Fds(file, s))
      /\ leaked[s] \in Nat /\ Openers(s) \in Nat /\ MaxOpen \in Nat
      /\ Openers(s) = Cardinality(Fds(file, s)) + leaked[s] + 0
      /\ Openers(s) > 0 =>
           /\ open_inodes[s].deny_write_cnt >= Cardinality(Deniers(file, s))
           /\ open_inodes[s].deny_write_cnt <= Cardinality(Deniers(file, s)) + leaked[s]
  BY CountsIdle
<1>3. /\ Opened(s) \in Mem /\ Opened(s).open_cnt = Openers(s) + 1
      /\ Opened(s).removed <=> s \in Removed
      /\ Opened(s).deny_write_cnt =
           IF open_inodes[s] = None THEN 0 ELSE open_inodes[s].deny_write_cnt
      /\ (Openers(s) > 0 <=> open_inodes[s] # None)
  BY <1>2, OpenedIs
<1>4. /\ Opened(s).deny_write_cnt \in 0 .. Openers(s)
      /\ Opened(s).deny_write_cnt >= Cardinality(Deniers(file, s))
      /\ Opened(s).deny_write_cnt <= Cardinality(Deniers(file, s)) + leaked[s]
  <2>1. Opened(s).deny_write_cnt \in Nat
    BY <1>2, <1>3 DEF Mem
  <2>2. CASE open_inodes[s] = None
    BY <1>2, <1>3, <2>2
  <2>3. CASE open_inodes[s] # None
    BY <1>2, <1>3, <2>1, <2>3
  <2> QED BY <2>2, <2>3
<1>5. PICK i : i = IF deny THEN [Opened(s) EXCEPT !.deny_write_cnt = @ + 1] ELSE Opened(s)
  OBVIOUS
<1>6. /\ i \in Mem /\ i.open_cnt = Openers(s) + 1 /\ (i.removed <=> s \in Removed)
      /\ i.deny_write_cnt = Opened(s).deny_write_cnt + (IF deny THEN 1 ELSE 0)
      /\ Opened(s).deny_write_cnt \in Nat
  <2>1. PICK o \in Mem : o = Opened(s)
    BY <1>3
  <2>2. o.deny_write_cnt \in Nat /\ o.deny_write_cnt + 1 \in 0 .. MaxOpen
    <3>1. o.deny_write_cnt \in 0 .. Openers(s)
      BY <1>4, <2>1
    <3> HIDE DEF IInv, DiskGood
    <3> QED BY <1>2, <3>1
  <2>3. CASE deny
    <3>1. i = [o EXCEPT !.deny_write_cnt = @ + 1]
      BY <1>5, <2>1, <2>3
    <3>2. /\ i \in Mem /\ i.open_cnt = o.open_cnt /\ i.removed = o.removed
          /\ i.deny_write_cnt = o.deny_write_cnt + 1
      BY <2>1, <2>2, <3>1 DEF Mem
    <3> QED BY <1>3, <2>1, <2>2, <2>3, <3>2
  <2>4. CASE ~ deny
    BY <1>3, <1>5, <2>1, <2>2, <2>4
  <2> QED BY <2>3, <2>4
<1>7. /\ i # None /\ open_inodes' \in [Sector -> {None} \cup Mem] /\ Removed' = Removed
      /\ open_inodes'[s] = i /\ Openers(s)' = Openers(s) + 1
      /\ \A t \in Sector \ {s} : open_inodes'[t] = open_inodes[t] /\ Openers(t)' = Openers(t)
  BY <1>5, <1>6, ReplacedKeeps DEF TypeOK
<1>8. DiskGood'
  <2>1. ListedInodes' = ListedInodes
    BY DEF ListedInodes
  <2>2. Kept' = Kept
    BY <1>1, <1>7, <2>1 DEF Kept
  <2>3. Apart' /\ CreateSound'
    BY <1>1, <1>7, <2>1 DEF Apart, CreateSound
  <2> QED BY <1>1, <2>2, <2>3
<1>9. /\ open_inodes'[s].deny_write_cnt \in Nat
      /\ open_inodes'[s].deny_write_cnt >=
           Cardinality(Deniers(file, s)) + (IF deny THEN 1 ELSE 0)
      /\ open_inodes'[s].deny_write_cnt <=
           Cardinality(Deniers(file, s)) + leaked[s] + (IF deny THEN 1 ELSE 0)
  <2>1. open_inodes'[s].deny_write_cnt = Opened(s).deny_write_cnt + (IF deny THEN 1 ELSE 0)
    BY <1>6, <1>7
  <2>2. PICK w \in Nat : w = Opened(s).deny_write_cnt
    BY <1>6
  <2>3. /\ Cardinality(Deniers(file, s)) \in Nat /\ leaked[s] \in Nat
        /\ w >= Cardinality(Deniers(file, s)) /\ w <= Cardinality(Deniers(file, s)) + leaked[s]
    BY <1>2, <1>4, <2>2
  <2> HIDE DEF IInv, DiskGood
  <2> QED BY <2>1, <2>2, <2>3
<1> HIDE DEF IInv, DiskGood
<1> QED BY <1>1, <1>7, <1>8, <1>9

\* The opened file is lost at once.
LEMMA LeakKeeps ==
  ASSUME IInv, NEW s \in Sector, NEW deny \in BOOLEAN, Openers(s) < MaxOpen, Removing = {},
         open_inodes' = [open_inodes EXCEPT ![s] =
           IF deny THEN [Opened(s) EXCEPT !.deny_write_cnt = @ + 1] ELSE Opened(s)],
         UNCHANGED <<free_map, disk_map, disk_inode, dir, call, lost, panic, file>>,
         leaked' = [leaked EXCEPT ![s] = @ + 1]
  PROVE  Counts' /\ leaked' \in [Sector -> 0 .. MaxOpen]
<1>1. leaked[s] < MaxOpen
  BY CountsIdle
<1>2. /\ leaked' \in [Sector -> 0 .. MaxOpen] /\ leaked'[s] = leaked[s] + 1
      /\ \A t \in Sector \ {s} : leaked'[t] = leaked[t]
  BY <1>1, FileSysAssumption DEF IInv, TypeOK
<1>3. ASSUME NEW t \in Sector
      PROVE  /\ Openers(t)' = Cardinality(Fds(file', t)) + leaked'[t] + 0
             /\ Openers(t)' > 0 =>
                  /\ open_inodes'[t].deny_write_cnt >= Cardinality(Deniers(file', t))
                  /\ open_inodes'[t].deny_write_cnt <= Cardinality(Deniers(file', t)) + leaked'[t]
             /\ leaked'[t] <= MaxOpen /\ Openers(t)' <= MaxOpen
  <2>1. /\ Cardinality(Fds(file, t)) \in Nat /\ Cardinality(Deniers(file, t)) \in Nat
        /\ leaked[t] \in Nat /\ Openers(t) \in Nat /\ MaxOpen \in Nat
        /\ Openers(t) = Cardinality(Fds(file, t)) + leaked[t] + 0
        /\ Openers(t) > 0 =>
             /\ open_inodes[t].deny_write_cnt >= Cardinality(Deniers(file, t))
             /\ open_inodes[t].deny_write_cnt <= Cardinality(Deniers(file, t)) + leaked[t]
        /\ leaked[t] <= MaxOpen /\ Openers(t) <= MaxOpen
    BY CountsIdle
  <2>2. /\ t = s => /\ Openers(t)' = Openers(t) + 1
                   /\ open_inodes'[t].deny_write_cnt \in Nat
                   /\ open_inodes'[t].deny_write_cnt >=
                        Cardinality(Deniers(file, t)) + (IF deny THEN 1 ELSE 0)
                   /\ open_inodes'[t].deny_write_cnt <=
                        Cardinality(Deniers(file, t)) + leaked[t] + (IF deny THEN 1 ELSE 0)
        /\ t # s => open_inodes'[t] = open_inodes[t] /\ Openers(t)' = Openers(t)
    BY OpenInodeKeeps
  <2>3. CASE t = s
    BY <1>1, <1>2, <2>1, <2>2, <2>3
  <2>4. CASE t # s
    BY <1>2, <2>1, <2>2, <2>4
  <2> QED BY <2>3, <2>4
<1>4. Removing' = {}
  BY OpenInodeKeeps
<1> QED BY <1>2, <1>3, <1>4 DEF Counts

\* open.
LEMMA OpenKeeps ==
  ASSUME IInv, NEW p \in Process, NEW name \in Name, Open(p, name)
  PROVE  IInv'
<1>a. PICK s, deny : s = dir[Lowest(Lookup(name))].sector /\ deny = (prog[p] = name)
  OBVIOUS
<1> DEFINE unused == {d \in Fd : file[p][d] = None}
<1>1. /\ call = None /\ Lookup(name) # {} /\ Openers(s) < MaxOpen
      /\ open_inodes' = [open_inodes EXCEPT ![s] =
           IF deny THEN [Opened(s) EXCEPT !.deny_write_cnt = @ + 1] ELSE Opened(s)]
      /\ UNCHANGED <<free_map, disk_map, disk_inode, dir, prog, call, lost, panic>>
  BY <1>a DEF Open, Idle, disk
<1>2. s \in Sector /\ deny \in BOOLEAN /\ TypeOK
  <2>1. Lowest(Lookup(name)) \in Lookup(name)
    BY <1>1, LowestIsLeast, FileSysAssumption DEF Lookup
  <2> QED BY <1>a, <2>1, FileSysAssumption DEF Lookup, IInv, TypeOK, DirEntry
<1>3. Removing = {}
  BY <1>1, CallForms DEF Removing
<1>4. CASE unused # {}
  <2> DEFINE r == [sector |-> s, deny_write |-> deny]
  <2>1. PICK d : d = Lowest(unused)
    OBVIOUS
  <2>2. d \in Fd /\ file[p][d] = None
    BY <1>4, <2>1, LowestIsLeast, FileSysAssumption
  <2>3. leaked' = leaked /\ file' = With(file, p, d, r)
    BY <1>4, <1>a, <2>1 DEF Open, With
  <2>4. r \in OpenFile /\ file \in Descriptors /\ file' \in Descriptors
    BY <1>2, <2>2, <2>3 DEF OpenFile, Descriptors, With, TypeOK
  <2>5. ASSUME NEW t \in Sector
        PROVE  /\ Cardinality(Fds(file', t)) = Cardinality(Fds(file, t)) + (IF s = t THEN 1 ELSE 0)
               /\ Cardinality(Deniers(file', t)) =
                    Cardinality(Deniers(file, t)) + (IF s = t /\ deny THEN 1 ELSE 0)
    <3>1. r.sector = s /\ r.deny_write = deny
      OBVIOUS
    <3> HIDE DEF r
    <3> QED BY <2>2, <2>3, <2>4, <3>1, OneMore
  <2>6. Counts'
    <3>1. ASSUME NEW t \in Sector
          PROVE  /\ Openers(t)' = Cardinality(Fds(file', t)) + leaked'[t] + 0
                 /\ Openers(t)' > 0 =>
                      /\ open_inodes'[t].deny_write_cnt >= Cardinality(Deniers(file', t))
                      /\ open_inodes'[t].deny_write_cnt
                           <= Cardinality(Deniers(file', t)) + leaked'[t]
                 /\ leaked'[t] <= MaxOpen /\ Openers(t)' <= MaxOpen
      <4>1. /\ Cardinality(Fds(file, t)) \in Nat /\ Cardinality(Deniers(file, t)) \in Nat
            /\ leaked[t] \in Nat /\ Openers(t) \in Nat /\ MaxOpen \in Nat
            /\ Openers(t) = Cardinality(Fds(file, t)) + leaked[t] + 0
            /\ Openers(t) > 0 =>
                 /\ open_inodes[t].deny_write_cnt >= Cardinality(Deniers(file, t))
                 /\ open_inodes[t].deny_write_cnt <= Cardinality(Deniers(file, t)) + leaked[t]
            /\ leaked[t] <= MaxOpen /\ Openers(t) <= MaxOpen
        BY <1>3, CountsIdle
      <4>2. /\ t = s => /\ Openers(t)' = Openers(t) + 1
                       /\ open_inodes'[t].deny_write_cnt \in Nat
                       /\ open_inodes'[t].deny_write_cnt >=
                            Cardinality(Deniers(file, t)) + (IF deny THEN 1 ELSE 0)
                       /\ open_inodes'[t].deny_write_cnt <=
                            Cardinality(Deniers(file, t)) + leaked[t] + (IF deny THEN 1 ELSE 0)
            /\ t # s => open_inodes'[t] = open_inodes[t] /\ Openers(t)' = Openers(t)
        BY <1>1, <1>2, <1>3, OpenInodeKeeps
      <4>3. CASE t = s
        BY <1>1, <2>3, <2>5, <4>1, <4>2, <4>3
      <4>4. CASE t # s
        BY <2>3, <2>5, <4>1, <4>2, <4>4
      <4> QED BY <4>3, <4>4
    <3>2. Removing' = {}
      BY <1>1, <1>3 DEF Removing
    <3> QED BY <3>1, <3>2 DEF Counts
  <2>7. DiskGood' /\ open_inodes' \in [Sector -> {None} \cup Mem]
    BY <1>1, <1>2, <1>3, OpenInodeKeeps
  <2>8. TypeOK'
    BY <1>1, <1>2, <2>3, <2>4, <2>7 DEF TypeOK, Mem, Descriptors
  <2> QED BY <2>6, <2>7, <2>8 DEF IInv
<1>5. CASE unused = {}
  <2>1. file' = file /\ leaked' = [leaked EXCEPT ![s] = @ + 1]
    BY <1>5, <1>a DEF Open
  <2>2. /\ Counts' /\ leaked' \in [Sector -> 0 .. MaxOpen]
        /\ DiskGood' /\ open_inodes' \in [Sector -> {None} \cup Mem]
    BY <1>1, <1>2, <1>3, <2>1, LeakKeeps, OpenInodeKeeps
  <2>3. TypeOK'
    BY <1>1, <1>2, <2>1, <2>2 DEF TypeOK, Mem
  <2> QED BY <2>2, <2>3 DEF IInv
<1> QED BY <1>4, <1>5

\* load.
LEMMA ExecKeeps ==
  ASSUME IInv, NEW p \in Process, NEW name \in Name, Exec(p, name)
  PROVE  IInv'
<1>a. PICK s : s = dir[Lowest(Lookup(name))].sector
  OBVIOUS
<1>1. /\ call = None /\ Lookup(name) # {} /\ Openers(s) < MaxOpen
      /\ open_inodes' = [open_inodes EXCEPT ![s] = Opened(s)]
      /\ leaked' = [leaked EXCEPT ![s] = @ + 1]
      /\ prog' = [prog EXCEPT ![p] = name]
      /\ UNCHANGED <<free_map, disk_map, disk_inode, dir, call, lost, panic, file>>
  BY <1>a DEF Exec, Idle, disk
<1>2. s \in Sector /\ TypeOK
  <2>1. Lowest(Lookup(name)) \in Lookup(name)
    BY <1>1, LowestIsLeast, FileSysAssumption DEF Lookup
  <2> QED BY <1>a, <2>1, FileSysAssumption DEF Lookup, IInv, TypeOK, DirEntry
<1>3. Removing = {}
  BY <1>1, CallForms DEF Removing
<1>4. open_inodes' = [open_inodes EXCEPT ![s] =
        IF FALSE THEN [Opened(s) EXCEPT !.deny_write_cnt = @ + 1] ELSE Opened(s)]
  BY <1>1
<1>5. /\ Counts' /\ leaked' \in [Sector -> 0 .. MaxOpen]
      /\ DiskGood' /\ open_inodes' \in [Sector -> {None} \cup Mem]
  <2>1. FALSE \in BOOLEAN
    OBVIOUS
  <2> QED BY <1>1, <1>2, <1>3, <1>4, <2>1, LeakKeeps, OpenInodeKeeps
<1>6. TypeOK'
  BY <1>1, <1>2, <1>5 DEF TypeOK, Mem
<1> QED BY <1>5, <1>6 DEF IInv

\* close.
LEMMA CloseKeeps ==
  ASSUME IInv, NEW p \in Process, NEW d \in Fd, Close(p, d)
  PROVE  IInv'
<1>1. /\ call = None /\ file[p][d] # None /\ CloseFile(file[p][d], None)
      /\ file' = [file EXCEPT ![p][d] = None] /\ UNCHANGED <<dir, prog, lost, leaked>>
  BY DEF Close, Idle
<1>2. Work = {} /\ Removing = {}
  BY <1>1, CallForms DEF Work, Removing
<1>3. /\ DiskGood' /\ Counts' /\ free_map' \subseteq Sector
      /\ disk_inode' \in [Sector -> {None} \cup Inode]
      /\ open_inodes' \in [Sector -> {None} \cup Mem]
      /\ call' \in {None} \cup ExitCall \cup ReleaseCall
  BY <1>1, <1>2, CloseFileKeeps
<1>4. TypeOK'
  <2>1. disk_map' \subseteq Sector /\ panic' \in BOOLEAN
    BY <1>3 DEF DiskGood
  <2>2. file' \in [Process -> [Fd -> {None} \cup OpenFile]]
    BY <1>1 DEF IInv, TypeOK
  <2> QED BY <1>1, <1>3, <2>1, <2>2 DEF IInv, TypeOK, Mem
<1> QED BY <1>3, <1>4 DEF IInv

\* process_exit begins.
LEMMA ExitKeeps ==
  ASSUME IInv, NEW p \in Process, Exit(p)
  PROVE  IInv'
<1> USE DEF IInv, DiskGood
<1>1. /\ call = None /\ call' = [step |-> "exit", process |-> p]
      /\ UNCHANGED <<free_map, disk_map, disk_inode, dir, open_inodes, file, prog, lost, leaked, panic>>
  BY DEF Exit, Idle, disk
<1>2. call' \in ExitCall
  BY <1>1 DEF ExitCall
<1>3. /\ Work = {} /\ Removing = {} /\ Work' = {} /\ Removing' = {} /\ call' \notin CreateCall
  BY <1>1, <1>2, CallForms DEF Work, Removing
<1>4. Kept' = Kept /\ Apart' /\ Counts' /\ CreateSound'
  BY <1>1, <1>3, KeptSame, CountsSame DEF CreateSound
<1>5. TypeOK'
  BY <1>1, <1>2 DEF TypeOK
<1> QED BY <1>1, <1>3, <1>4, <1>5

\* process_exit closes a descriptor, or ends.
LEMMA CloseNextKeeps ==
  ASSUME IInv, CloseNext
  PROVE  IInv'
<1>1. call \in ExitCall /\ UNCHANGED <<dir, lost, leaked>>
  BY CallByStep DEF CloseNext, Doing, IInv
<1>2. Work = {} /\ Removing = {} /\ call \notin CreateCall
  BY <1>1, CallForms DEF Work, Removing
<1>3. PICK p \in Process : p = call.process
  BY <1>1 DEF ExitCall
<1> DEFINE open == {d \in Fd : file[p][d] # None}
<1>4. CASE open # {}
  <2>1. PICK d : d = Lowest(open)
    OBVIOUS
  <2>2. d \in Fd /\ file[p][d] # None
    BY <1>4, <2>1, LowestIsLeast, FileSysAssumption
  <2>3. CloseFile(file[p][d], call) /\ file' = [file EXCEPT ![p][d] = None] /\ prog' = prog
    BY <1>3, <1>4, <2>1 DEF CloseNext
  <2>4. /\ DiskGood' /\ Counts' /\ free_map' \subseteq Sector
        /\ disk_inode' \in [Sector -> {None} \cup Inode]
        /\ open_inodes' \in [Sector -> {None} \cup Mem]
        /\ call' \in {None} \cup ExitCall \cup ReleaseCall
    <3>1. PICK next \in ExitCall \cup {None} : next = call
      BY <1>1
    <3>2. CloseFile(file[p][d], next)
      BY <2>3, <3>1
    <3> QED BY <1>1, <1>2, <2>2, <2>3, <3>2, CloseFileKeeps
  <2>5. TypeOK'
    <3>1. disk_map' \subseteq Sector /\ panic' \in BOOLEAN
      BY <2>4 DEF DiskGood
    <3>2. file' \in [Process -> [Fd -> {None} \cup OpenFile]]
      BY <2>2, <2>3 DEF IInv, TypeOK
    <3> QED BY <1>1, <2>3, <2>4, <3>1, <3>2 DEF IInv, TypeOK, Mem
  <2> QED BY <2>4, <2>5 DEF IInv
<1>5. CASE open = {}
  <2> USE DEF IInv, DiskGood
  <2>1. /\ prog' = [prog EXCEPT ![p] = None] /\ call' = None
        /\ UNCHANGED <<free_map, disk_map, disk_inode, open_inodes, file, panic>>
    BY <1>3, <1>5 DEF CloseNext
  <2>2. Work' = {} /\ Removing' = {} /\ call' \notin CreateCall
    BY <2>1, CallForms, FileSysAssumption DEF Work, Removing
  <2>3. Kept' = Kept /\ Apart' /\ Counts' /\ CreateSound'
    BY <1>1, <1>2, <2>1, <2>2, KeptSame, CountsSame DEF CreateSound
  <2>4. TypeOK'
    BY <1>1, <2>1 DEF TypeOK
  <2> QED BY <1>1, <1>2, <2>1, <2>2, <2>3, <2>4
<1> QED BY <1>4, <1>5

\* filesys_remove erases the entry.
LEMMA RemoveKeeps ==
  ASSUME IInv, NEW p \in Process, NEW name \in Name, Remove(p, name)
  PROVE  IInv'
<1>a. PICK e, s : e = Lowest(Lookup(name)) /\ s = dir[e].sector
  OBVIOUS
<1>1. /\ call = None /\ Lookup(name) # {}
      /\ open_inodes' = [open_inodes EXCEPT ![s] = Opened(s)]
      /\ dir' = [dir EXCEPT ![e] = None]
      /\ call' = [step |-> "remove", sector |-> s]
      /\ UNCHANGED <<free_map, disk_map, disk_inode, file, prog, lost, leaked, panic>>
  BY <1>a DEF Remove, Idle
<1>2. e \in Entry /\ dir[e] # None /\ s \in Sector /\ TypeOK
  <2>1. e \in Lookup(name)
    BY <1>1, <1>a, LowestIsLeast, FileSysAssumption DEF Lookup
  <2> QED BY <1>a, <2>1, FileSysAssumption DEF Lookup, IInv, TypeOK, DirEntry
<1>3. call' \in RemoveCall
  BY <1>1, <1>2 DEF RemoveCall
<1>4. /\ Work = {} /\ Removing = {} /\ Work' = {} /\ Removing' = {s} /\ call' \notin CreateCall
  BY <1>1, <1>3, CallForms DEF Work, Removing
<1>5. /\ Opened(s) \in Mem /\ Opened(s).open_cnt = Openers(s) + 1
      /\ Opened(s).removed <=> s \in Removed
      /\ Opened(s).deny_write_cnt =
           IF open_inodes[s] = None THEN 0 ELSE open_inodes[s].deny_write_cnt
      /\ (Openers(s) > 0 <=> open_inodes[s] # None)
  BY <1>2, <1>4, CountsIdle, OpenedIs
<1>6. /\ open_inodes' \in [Sector -> {None} \cup Mem] /\ Removed' = Removed
      /\ open_inodes'[s] = Opened(s) /\ Openers(s)' = Openers(s) + 1
      /\ \A t \in Sector \ {s} : open_inodes'[t] = open_inodes[t] /\ Openers(t)' = Openers(t)
  <2>1. PICK i : i = Opened(s)
    OBVIOUS
  <2> QED BY <1>1, <1>2, <1>5, <2>1, ReplacedKeeps DEF TypeOK
<1>7. DiskGood'
  <2> USE DEF IInv, DiskGood
  <2>1. \A f \in Entry : dir'[f] = IF f = e THEN None ELSE dir[f]
    BY <1>1, <1>2 DEF TypeOK
  <2>2. ListedInodes' = ListedInodes \ {s} /\ s \in ListedInodes
    BY <1>2, <1>a, <2>1 DEF ListedInodes, Apart
  <2>3. Kept' = Kept
    BY <1>4, <1>6, <2>2 DEF Kept
  <2>4. Apart'
    BY <1>4, <1>6, <2>1, <2>2 DEF Apart
  <2> QED BY <1>1, <1>4, <2>3, <2>4 DEF CreateSound
<1>8. Counts'
  <2>1. ASSUME NEW t \in Sector
        PROVE  /\ Openers(t)' = Cardinality(Fds(file, t)) + leaked[t] + (IF t \in {s} THEN 1 ELSE 0)
               /\ Openers(t)' > 0 =>
                    /\ open_inodes'[t].deny_write_cnt >= Cardinality(Deniers(file, t))
                    /\ open_inodes'[t].deny_write_cnt <= Cardinality(Deniers(file, t)) + leaked[t]
               /\ leaked[t] <= MaxOpen
               /\ Openers(t)' <= (IF t \in {s} THEN MaxOpen + 1 ELSE MaxOpen)
    <3>1. /\ Cardinality(Fds(file, t)) \in Nat /\ Cardinality(Deniers(file, t)) \in Nat
          /\ Cardinality(Deniers(file, t)) <= Cardinality(Fds(file, t))
          /\ leaked[t] \in Nat /\ Openers(t) \in Nat /\ MaxOpen \in Nat
          /\ Openers(t) = Cardinality(Fds(file, t)) + leaked[t] + 0
          /\ Openers(t) > 0 =>
               /\ open_inodes[t].deny_write_cnt >= Cardinality(Deniers(file, t))
               /\ open_inodes[t].deny_write_cnt <= Cardinality(Deniers(file, t)) + leaked[t]
          /\ leaked[t] <= MaxOpen /\ Openers(t) <= MaxOpen
      BY <1>4, CountsIdle
    <3>2. CASE t = s /\ open_inodes[s] = None
      BY <1>5, <1>6, <3>1, <3>2
    <3>3. CASE t = s /\ open_inodes[s] # None
      BY <1>5, <1>6, <3>1, <3>3
    <3>4. CASE t # s
      BY <1>6, <3>1, <3>4
    <3> QED BY <3>2, <3>3, <3>4
  <2> QED BY <1>1, <1>4, <2>1 DEF Counts
<1>9. TypeOK'
  BY <1>1, <1>2, <1>3, <1>6 DEF TypeOK, Mem
<1> QED BY <1>7, <1>8, <1>9 DEF IInv

\* dir_remove marks the inode and closes it.
LEMMA RemoveInodeKeeps ==
  ASSUME IInv, RemoveInode
  PROVE  IInv'
<1>1. /\ call \in RemoveCall /\ UNCHANGED <<dir, file, prog, lost, leaked>>
      /\ CloseInode(call.sector, [open_inodes[call.sector] EXCEPT !.removed = TRUE], None)
  BY CallByStep DEF RemoveInode, Doing, IInv
<1>2. PICK s \in Sector : s = call.sector
  BY <1>1 DEF RemoveCall
<1>3. Work = {} /\ Removing = {s}
  BY <1>1, <1>2, CallForms DEF Work, Removing
<1>4. ASSUME NEW t \in Sector
      PROVE  /\ Cardinality(Fds(file, t)) \in Nat /\ Cardinality(Deniers(file, t)) \in Nat
             /\ leaked[t] \in Nat /\ Openers(t) \in Nat /\ MaxOpen \in Nat
             /\ Openers(t) = Cardinality(Fds(file, t)) + leaked[t] + (IF t \in {s} THEN 1 ELSE 0)
             /\ Openers(t) > 0 =>
                  /\ open_inodes[t].deny_write_cnt >= Cardinality(Deniers(file, t))
                  /\ open_inodes[t].deny_write_cnt <= Cardinality(Deniers(file, t)) + leaked[t]
             /\ leaked[t] <= MaxOpen
             /\ Openers(t) <= (IF t \in {s} THEN MaxOpen + 1 ELSE MaxOpen)
  <2>1. Openers(t) \in Nat
    BY DEF IInv, Openers, TypeOK
  <2> QED BY <1>3, <2>1, FdsFinite, FileSysAssumption DEF IInv, Counts, TypeOK
<1>5. open_inodes[s] # None /\ open_inodes[s] \in Mem
  <2>1. Openers(s) > 0
    BY <1>4
  <2>2. open_inodes[s] # None
    BY <2>1 DEF Openers
  <2> QED BY <2>2 DEF IInv, TypeOK, Mem
<1>6. PICK i : i = [open_inodes[s] EXCEPT !.removed = TRUE]
  OBVIOUS
<1>7. /\ i \in Mem /\ i.removed = TRUE /\ i.open_cnt = open_inodes[s].open_cnt
      /\ i.deny_write_cnt = open_inodes[s].deny_write_cnt
  BY <1>5, <1>6 DEF Mem
<1>8. CloseInode(s, i, None)
  BY <1>1, <1>2, <1>6
<1>9. /\ DiskGood' /\ free_map' \subseteq Sector
      /\ disk_inode' \in [Sector -> {None} \cup Inode]
      /\ open_inodes' \in [Sector -> {None} \cup Mem]
      /\ call' \in {None} \cup ExitCall \cup ReleaseCall
  BY <1>1, <1>3, <1>5, <1>7, <1>8, CloseInodeKeeps
<1>10. Removing' = {}
  BY <1>9, CallForms DEF Removing
<1>11. /\ Openers(s)' = Openers(s) - 1 /\ Openers(s) \in 1 .. MaxOpen + 1
       /\ Openers(s)' > 0 => open_inodes'[s].deny_write_cnt = i.deny_write_cnt
       /\ \A t \in Sector \ {s} : open_inodes'[t] = open_inodes[t] /\ Openers(t)' = Openers(t)
  BY <1>5, <1>7, <1>8, CloseInodeCounts DEF IInv
<1>12. Counts'
  <2>1. ASSUME NEW t \in Sector
        PROVE  /\ Openers(t)' = Cardinality(Fds(file, t)) + leaked[t] + 0
               /\ Openers(t)' > 0 =>
                    /\ open_inodes'[t].deny_write_cnt >= Cardinality(Deniers(file, t))
                    /\ open_inodes'[t].deny_write_cnt <= Cardinality(Deniers(file, t)) + leaked[t]
               /\ leaked[t] <= MaxOpen /\ Openers(t)' <= MaxOpen
    <3>1. CASE t = s
      BY <1>4, <1>7, <1>11, <3>1
    <3>2. CASE t # s
      BY <1>4, <1>11, <3>2
    <3> QED BY <3>1, <3>2
  <2> QED BY <1>1, <1>10, <2>1 DEF Counts
<1>13. TypeOK'
  <2>1. disk_map' \subseteq Sector /\ panic' \in BOOLEAN
    BY <1>9 DEF DiskGood
  <2> QED BY <1>1, <1>9, <2>1 DEF IInv, TypeOK, Mem
<1> QED BY <1>9, <1>12, <1>13 DEF IInv

\* inode_close, the sectors of the data.
LEMMA ReleaseKeeps ==
  ASSUME IInv, ReleaseData
  PROVE  IInv'
<1> USE DEF IInv, DiskGood
<1>1. /\ call \in ReleaseCall /\ call' = call.next
      /\ UNCHANGED <<disk_inode, dir, open_inodes, file, prog, lost, leaked>>
  BY CallByStep DEF ReleaseData, Doing
<1>2. Work = call.sectors /\ Removing = {} /\ call' \in ExitCall \cup {None}
  BY <1>1, CallForms DEF Work, Removing, ReleaseCall
<1>3. Work' = {} /\ Removing' = {} /\ call' \notin CreateCall
  BY <1>2, CallForms, FileSysAssumption DEF Work, Removing
<1>4. Work \in SUBSET Work /\ Work \ Work = {}
  OBVIOUS
<1>5. Work \subseteq free_map /\ Accounts(Kept, disk_inode, free_map \ Work, lost, {})
  BY <1>4, Give
<1>6. free_map' = free_map \ Work /\ disk_map' = free_map' /\ panic' = panic
  BY <1>2, <1>5 DEF ReleaseData, free_map_release, SetMap
<1>7. Kept' = Kept /\ Apart' /\ Counts' /\ CreateSound'
  BY <1>1, <1>2, <1>3, KeptSame, CountsSame DEF CreateSound
<1>8. TypeOK'
  BY <1>1, <1>2, <1>6 DEF TypeOK
<1> QED BY <1>1, <1>3, <1>5, <1>6, <1>7, <1>8

\* What the directory lists, by its inodes.
LEMMA ListedWholes == Listed = UNION {Whole(disk_inode, s) : s \in ListedInodes}
BY DEF Listed, ListedInodes, Whole, Data

NothingOpen ==
  /\ open_inodes = [s \in Sector |-> None] /\ leaked = [s \in Sector |-> 0]
  /\ file = [p \in Process |-> [d \in Fd |-> None]] /\ Removing = {}
AllZero ==
  /\ Counts /\ Removed = {}
  /\ leaked \in [Sector -> 0 .. MaxOpen] /\ file \in [Process -> [Fd -> {None} \cup OpenFile]]
  /\ open_inodes \in [Sector -> {None} \cup Mem]

\* With nothing open, all counts are zero.
LEMMA NothingCounted == NothingOpen => AllZero
<1> SUFFICES ASSUME NothingOpen PROVE AllZero
  OBVIOUS
<1> USE DEF NothingOpen, AllZero
<1>1. ASSUME NEW s \in Sector
      PROVE  Openers(s) = 0 /\ Cardinality(Fds(file, s)) = 0 /\ leaked[s] = 0
  <2>1. Fds(file, s) = {}
    BY DEF Fds
  <2> QED BY <2>1, FS_EmptySet DEF Openers
<1>2. MaxOpen \in Nat
  BY FileSysAssumption
<1> QED BY <1>1, <1>2 DEF Counts, Removed

\* The machine stops and starts.
LEMMA RestartKeeps ==
  ASSUME IInv, Restart
  PROVE  IInv'
<1> USE DEF IInv, DiskGood
<1>1. /\ call' = None /\ free_map' = disk_map /\ lost' = disk_map \ Listed
      /\ UNCHANGED <<disk_map, dir, panic>>
      /\ disk_inode' = [s \in Sector |-> IF s \in ListedInodes THEN disk_inode[s] ELSE None]
      /\ prog' = [p \in Process |-> None] /\ file' = [p \in Process |-> [d \in Fd |-> None]]
      /\ open_inodes' = [s \in Sector |-> None] /\ leaked' = [s \in Sector |-> 0]
  <2>1. \A s \in Sector : s \in ListedInodes <=> \E e \in Entry : dir[e] # None /\ dir[e].sector = s
    BY DEF ListedInodes
  <2> QED BY <2>1 DEF Restart
<1>2. Work' = {} /\ Removing' = {} /\ call' \notin CreateCall
  BY <1>1, CallForms, FileSysAssumption DEF Work, Removing
<1>3. /\ Counts' /\ Removed' = {}
      /\ leaked' \in [Sector -> 0 .. MaxOpen]
      /\ file' \in [Process -> [Fd -> {None} \cup OpenFile]]
      /\ open_inodes' \in [Sector -> {None} \cup Mem]
  <2>1. NothingOpen'
    BY <1>1, <1>2 DEF NothingOpen
  <2>2. AllZero'
    BY <2>1, NothingCounted, PTL
  <2> QED BY <2>2 DEF AllZero
<1>4. ListedInodes' = ListedInodes /\ Kept' = ListedInodes
  BY <1>1, <1>2, <1>3 DEF ListedInodes, Kept
<1>5. Accounts(Kept', disk_inode', free_map', lost', Work')
  <2>1. \A s \in ListedInodes : Whole(disk_inode, s) \subseteq disk_map
    BY DEF Accounts, Kept
  <2>2. Accounts(ListedInodes, disk_inode, disk_map, disk_map \ Listed, {})
    <3>1. Listed \subseteq disk_map
      BY <2>1, ListedWholes
    <3>2. \A s \in ListedInodes : Whole(disk_inode, s) \subseteq Listed
      BY ListedWholes
    <3> QED BY <3>1, <3>2, ListedWholes DEF Accounts, Kept
  <2>3. \A s \in ListedInodes : disk_inode'[s] = disk_inode[s]
    BY <1>1, <2>2 DEF Accounts
  <2> QED BY <1>1, <1>2, <1>4, <2>2, <2>3, Elsewhere
<1>6. Apart' /\ CreateSound'
  BY <1>1, <1>2, <1>3, <1>4 DEF Apart, CreateSound
<1>7. TypeOK'
  BY <1>1, <1>3 DEF TypeOK, Mem
<1> QED BY <1>1, <1>3, <1>5, <1>6, <1>7

\* The disk with one file.
LEMMA InitHolds == Init => IInv
<1> SUFFICES ASSUME Init PROVE IInv
  OBVIOUS
<1>1. PICK s, e : s = Lowest(Sector) /\ e = Lowest(Entry)
  OBVIOUS
<1>2. s \in Sector /\ s + 1 \in Sector /\ e \in Entry /\ s \in Nat
  <2>1. PICK t \in Sector : t + 1 \in Sector /\ \A u \in Sector : t <= u
    BY FileSysAssumption
  <2>2. s \in Sector /\ \A u \in Sector : s <= u
    BY <1>1, LowestIsLeast, FileSysAssumption
  <2>3. s = t
    BY <2>1, <2>2, FileSysAssumption
  <2> QED BY <1>1, <2>1, <2>2, <2>3, LowestIsLeast, FileSysAssumption
<1>3. PICK name \in Name :
        dir = [x \in Entry |-> IF x = e THEN [name |-> name, sector |-> s] ELSE None]
  BY <1>1 DEF Init
<1>4. /\ free_map = {s, s + 1} /\ disk_map = free_map /\ call = None /\ lost = {}
      /\ disk_inode = [t \in Sector |-> IF t = s THEN [start |-> s + 1, length |-> 1] ELSE None]
      /\ open_inodes = [t \in Sector |-> None] /\ leaked = [t \in Sector |-> 0]
      /\ file = [p \in Process |-> [d \in Fd |-> None]]
      /\ prog = [p \in Process |-> None] /\ panic = FALSE
  BY <1>1 DEF Init
<1>5. Work = {} /\ Removing = {} /\ call \notin CreateCall
  BY <1>4, CallForms, FileSysAssumption DEF Work, Removing
<1>6. /\ Counts /\ Removed = {}
      /\ leaked \in [Sector -> 0 .. MaxOpen] /\ file \in [Process -> [Fd -> {None} \cup OpenFile]]
      /\ open_inodes \in [Sector -> {None} \cup Mem]
  BY <1>4, <1>5, NothingCounted DEF NothingOpen, AllZero
<1>7. [name |-> name, sector |-> s] \in DirEntry /\ [start |-> s + 1, length |-> 1] \in Inode
  BY <1>2 DEF DirEntry, Inode
<1>8. ListedInodes = {s} /\ Kept = {s}
  <2>1. ListedInodes = {s}
    BY <1>2, <1>3, <1>7, FileSysAssumption DEF ListedInodes
  <2> QED BY <1>5, <1>6, <2>1 DEF Kept
<1>9. Accounts(Kept, disk_inode, free_map, lost, Work)
  <2>1. disk_inode[s] = [start |-> s + 1, length |-> 1] /\ disk_inode[s] # None
    BY <1>2, <1>4, <1>7, FileSysAssumption
  <2>2. Extent(s + 1, 1) = {s + 1}
    <3>1. \A x \in Sector : s + 1 <= x /\ x < (s + 1) + 1 <=> x = s + 1
      BY <1>2, FileSysAssumption
    <3> QED BY <1>2, <3>1 DEF Extent
  <2>3. Whole(disk_inode, s) = {s, s + 1}
    BY <2>1, <2>2 DEF Whole
  <2> QED BY <1>2, <1>4, <1>5, <1>8, <2>1, <2>2, <2>3 DEF Accounts
<1>10. Apart /\ CreateSound
  BY <1>2, <1>3, <1>5, <1>6 DEF Apart, CreateSound
<1>11. TypeOK
  BY <1>2, <1>3, <1>4, <1>6, <1>7 DEF TypeOK, Mem
<1> QED BY <1>4, <1>6, <1>9, <1>10, <1>11 DEF IInv, DiskGood

\* Every step keeps the invariant.
LEMMA InvariantStep == IInv /\ [Next]_vars => IInv'
<1> SUFFICES ASSUME IInv, [Next]_vars PROVE IInv'
  OBVIOUS
<1>1. ASSUME NEW p \in Process, NEW name \in Name,
             (\E size \in Size : Create(p, name, size)) \/ Open(p, name) \/ Exec(p, name)
               \/ Remove(p, name)
      PROVE  IInv'
  BY <1>1, CreateKeeps, OpenKeeps, ExecKeeps, RemoveKeeps
<1>2. ASSUME NEW p \in Process, NEW d \in Fd, Close(p, d) PROVE IInv'
  BY <1>2, CloseKeeps
<1>3. ASSUME NEW p \in Process, Exit(p) PROVE IInv'
  BY <1>3, ExitKeeps
<1>4. CASE AllocateData \/ WriteInode \/ AddEntry
  BY <1>4, AllocateKeeps, WriteInodeKeeps, AddEntryKeeps
<1>5. CASE RemoveInode \/ ReleaseData \/ CloseNext
  BY <1>5, RemoveInodeKeeps, ReleaseKeeps, CloseNextKeeps
<1>6. CASE Restart
  BY <1>6, RestartKeeps
<1>7. CASE UNCHANGED vars
  BY <1>7 DEF vars, disk, IInv, DiskGood, TypeOK, Kept, ListedInodes, Removed, Removing, Work,
              Apart, CreateSound, Counts, Openers
<1> QED BY <1>1, <1>2, <1>3, <1>4, <1>5, <1>6, <1>7 DEF Next

-----------------------------------------------------------------------------
(* The theorems.                                                           *)

\* Every variable has its type, and the counts of an inode neither pass their
\* bound nor go below zero.
THEOREM TypeCorrect == Spec => []TypeOK
<1>1. IInv => TypeOK
  BY DEF IInv
<1> QED BY <1>1, InitHolds, InvariantStep, PTL DEF Spec

\* The directory on the disk leads to files that were written, marked in the
\* free map and apart from each other, at whatever write the machine stops.
THEOREM DirectorySound == Spec => []EntriesSound
<1>1. IInv => EntriesSound
  <2> SUFFICES ASSUME IInv, NEW e \in Entry, dir[e] # None
               PROVE  /\ disk_inode[dir[e].sector] # None
                      /\ Whole(disk_inode, dir[e].sector) \subseteq disk_map
                      /\ \A f \in Entry : dir[f] # None /\ f # e =>
                           /\ dir[e].name # dir[f].name
                           /\ Whole(disk_inode, dir[e].sector)
                                \cap Whole(disk_inode, dir[f].sector) = {}
    BY DEF EntriesSound, Whole, Data
  <2>1. \A f \in Entry : dir[f] # None => dir[f].sector \in Kept
    BY DEF Kept, ListedInodes
  <2> QED BY <2>1 DEF IInv, DiskGood, Accounts, Apart
<1> QED BY <1>1, InitHolds, InvariantStep, PTL DEF Spec

\* Between calls every sector in use has one owner: a listed file, a removed
\* file that is open, or what a failed create or a stop has lost.
THEOREM NoSectorTwice == Spec => []SectorsAccounted
<1>1. IInv => SectorsAccounted
  <2> SUFFICES ASSUME IInv, call = None
               PROVE  /\ \A s \in Removed : disk_inode[s] # None
                      /\ free_map = Listed \cup lost \cup
                           UNION {Whole(disk_inode, s) : s \in Removed}
                      /\ disk_map = free_map
                      /\ \A s \in Removed : Whole(disk_inode, s) \cap (Listed \cup lost) = {}
    BY DEF SectorsAccounted, Whole, Data, IInv, DiskGood
  <2>1. Work = {} /\ Removing = {}
    BY CallForms DEF Work, Removing
  <2>2. /\ Accounts(ListedInodes \cup Removed, disk_inode, free_map, lost, {})
        /\ ListedInodes \cap Removed = {} /\ free_map = disk_map
    BY <2>1 DEF IInv, DiskGood, Kept, Apart
  <2>3. free_map = lost \cup (UNION {Whole(disk_inode, s) : s \in ListedInodes})
                       \cup UNION {Whole(disk_inode, s) : s \in Removed}
    BY <2>2 DEF Accounts
  <2>4. \A s \in Removed, t \in ListedInodes : Whole(disk_inode, s) \cap Whole(disk_inode, t) = {}
    BY <2>2 DEF Accounts
  <2> QED BY <2>2, <2>3, <2>4, ListedWholes DEF Accounts
<1> QED BY <1>1, InitHolds, InvariantStep, PTL DEF Spec

\* open_cnt and deny_write_cnt are what the descriptors say.
THEOREM OpenersHold == Spec => []OpenersCounted
<1>1. IInv => OpenersCounted
  <2> SUFFICES ASSUME IInv, NEW s \in Sector
               PROVE  /\ Openers(s) = Cardinality(Fds(file, s)) + leaked[s]
                           + (IF Doing("remove") /\ call.sector = s THEN 1 ELSE 0)
                      /\ Openers(s) > 0 =>
                           /\ open_inodes[s].deny_write_cnt <= Openers(s)
                           /\ open_inodes[s].deny_write_cnt >= Cardinality(Deniers(file, s))
    BY DEF OpenersCounted, Fds, Deniers
  <2>1. s \in Removing <=> Doing("remove") /\ call.sector = s
    <3>1. call \in RemoveCall => Doing("remove")
      BY FileSysAssumption DEF Doing, RemoveCall, IInv, DiskGood
    <3>2. Doing("remove") => call \in RemoveCall
      BY CallByStep DEF IInv
    <3> QED BY <3>1, <3>2 DEF Removing, RemovingOf
  <2>2. /\ Cardinality(Fds(file, s)) \in Nat /\ Cardinality(Deniers(file, s)) \in Nat
        /\ Cardinality(Deniers(file, s)) <= Cardinality(Fds(file, s)) /\ leaked[s] \in Nat
    BY FdsFinite DEF IInv, TypeOK
  <2>3. /\ Openers(s) = Cardinality(Fds(file, s)) + leaked[s] + (IF s \in Removing THEN 1 ELSE 0)
        /\ Openers(s) > 0 =>
             /\ open_inodes[s].deny_write_cnt >= Cardinality(Deniers(file, s))
             /\ open_inodes[s].deny_write_cnt <= Cardinality(Deniers(file, s)) + leaked[s]
    BY DEF IInv, Counts
  <2>4. open_inodes[s] # None => open_inodes[s].deny_write_cnt \in Nat
    BY FileSysAssumption DEF IInv, TypeOK
  <2>5. Openers(s) > 0 => open_inodes[s] # None
    BY DEF Openers
  <2> QED BY <2>1, <2>2, <2>3, <2>4, <2>5
<1> QED BY <1>1, InitHolds, InvariantStep, PTL DEF Spec
=============================================================================
