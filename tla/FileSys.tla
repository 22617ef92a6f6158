------------------------------- MODULE FileSys -------------------------------
(***************************************************************************)
(* Files: the free map, the root directory, the inodes on the disk and     *)
(* those in memory, and the descriptors of the processes.                  *)
(*                                                                         *)
(* A step ends where the disk has been written, and the machine may be     *)
(* switched off between any two: memory is gone, the disk is as it was.    *)
(* One call is in progress at a time.  The code does not see to that: it   *)
(* takes no lock in create, remove, open and close.                        *)
(***************************************************************************)
EXTENDS Naturals, FiniteSets

CONSTANTS
  Process,
  Name,       \* names of files
  Sector,     \* sectors of the device but those of the free map and the root
  Entry,      \* entries of the root directory, in order
  Fd,         \* the descriptors of a process, in order
  Size,       \* lengths of files, in sectors
  MaxOpen,    \* a bound: the openers an inode may have
  None

(* struct inode_disk, dir_entry, struct inode, struct file, and the calls   *)
(* that take more than one step.                                            *)
Inode == [start : Nat, length : Nat]
DirEntry == [name : Name, sector : Sector]
OpenInode == [open_cnt : Nat, removed : BOOLEAN, deny_write_cnt : Nat]
OpenFile == [sector : Sector, deny_write : BOOLEAN]
CreateCall == [step : {"data", "inode", "entry"}, name : Name, sector : Sector,
               size : Size, start : Sector \cup {0}]
RemoveCall == [step : {"remove"}, sector : Sector]
ExitCall == [step : {"exit"}, process : Process]
ReleaseCall == [step : {"release"}, sectors : SUBSET Sector, next : ExitCall \cup {None}]

\* The disk has room for the file it starts with, and None is none of the others.
ASSUME FileSysAssumption ==
  /\ Sector \subseteq Nat /\ IsFiniteSet(Sector) /\ 0 \notin Sector
  /\ \E s \in Sector : s + 1 \in Sector /\ \A t \in Sector : s <= t
  /\ Entry \subseteq Nat /\ Entry # {} /\ Fd \subseteq Nat /\ Size \subseteq Nat
  /\ IsFiniteSet(Fd) /\ IsFiniteSet(Process) /\ MaxOpen \in Nat
  /\ None \notin Name \cup Sector \cup Process
  /\ None \notin Inode /\ None \notin DirEntry /\ None \notin OpenInode /\ None \notin OpenFile
  /\ None \notin CreateCall /\ None \notin RemoveCall /\ None \notin ExitCall
  /\ None \notin ReleaseCall

VARIABLES
  free_map,     \* the sectors in use, in memory
  disk_map,     \* the same in the free map's file
  disk_inode,   \* the inode each sector holds, start and length, while it is of account
  dir,          \* the entries of the root directory
  open_inodes,  \* struct inode of each open file, by its sector
  file,         \* thread->_file: descriptors
  prog,         \* the program each process runs
  call,         \* the call in progress, and how far it is
  lost,         \* history: sectors in use that nothing leads to any more
  leaked,       \* history: openers of each inode that will never close it
  panic         \* an assertion failed

disk == <<disk_map, disk_inode, dir>>
vars == <<free_map, disk, open_inodes, file, prog, call, lost, leaked, panic>>

Lowest(S) == CHOOSE x \in S : \A y \in S : x <= y
Extent(start, cnt) == {s \in Sector : start <= s /\ s < start + cnt}
Data(s) == Extent(disk_inode[s].start, disk_inode[s].length)

\* A disk with one file, as fsutil_extract leaves it.
Init ==
  LET s == Lowest(Sector)
  IN  /\ free_map = {s, s + 1} /\ disk_map = {s, s + 1}
      /\ disk_inode = [t \in Sector |-> IF t = s THEN [start |-> s + 1, length |-> 1] ELSE None]
      /\ \E name \in Name : dir = [e \in Entry |->
           IF e = Lowest(Entry) THEN [name |-> name, sector |-> s] ELSE None]
      /\ open_inodes = [t \in Sector |-> None]
      /\ file = [p \in Process |-> [d \in Fd |-> None]]
      /\ prog = [p \in Process |-> None]
      /\ call = None
      /\ lost = {}
      /\ leaked = [t \in Sector |-> 0]
      /\ panic = FALSE

Idle == call = None /\ ~ panic
Doing(step) == call # None /\ call.step = step /\ ~ panic

-----------------------------------------------------------------------------
(* The free map. *)

\* The first of cnt consecutive sectors that are free: with cnt = 0 it is 0, and
\* None stands for BITMAP_ERROR.
Scan(cnt) ==
  LET fits == {s \in Sector : /\ Cardinality(Extent(s, cnt)) = cnt
                              /\ Extent(s, cnt) \cap free_map = {}}
  IN  IF cnt = 0 THEN 0 ELSE IF fits = {} THEN None ELSE Lowest(fits)

SetMap_Memory(m) == free_map' = m /\ UNCHANGED disk_map

\* The map in memory becomes m, and is written to its file.
SetMap(m) == free_map' = m /\ disk_map' = m

free_map_allocate(start, cnt) == SetMap(free_map \cup Extent(start, cnt))

free_map_release(S) ==
  IF S \subseteq free_map
  THEN SetMap(free_map \ S) /\ UNCHANGED panic
  ELSE panic' = TRUE /\ UNCHANGED <<free_map, disk_map>>

\* The sector s is given back: what it still holds is read by nobody.
Forgotten(s) == [disk_inode EXCEPT ![s] = None]

-----------------------------------------------------------------------------
(* filesys_create. *)

Lookup(name) == {e \in Entry : dir[e] # None /\ dir[e].name = name}

Create(p, name, size) ==
  /\ Idle /\ prog[p] # None
  /\ Scan(1) # None
  /\ free_map_allocate(Scan(1), 1)
  /\ call' = [step |-> "data", name |-> name, sector |-> Scan(1), size |-> size, start |-> 0]
  /\ UNCHANGED <<disk_inode, dir, open_inodes, file, prog, lost, leaked, panic>>

\* inode_create: without room for the data the inode's sector is given back.
AllocateData ==
  /\ Doing("data")
  /\ LET start == Scan(call.size)
     IN  \/ /\ start # None
            /\ free_map_allocate(start, call.size)
            /\ call' = [call EXCEPT !.step = "inode", !.start = start]
            /\ UNCHANGED panic
         \/ /\ start = None
            /\ free_map_release({call.sector})
            /\ call' = None
  /\ UNCHANGED <<disk_inode, dir, open_inodes, file, prog, lost, leaked>>

WriteInode ==
  /\ Doing("inode")
  /\ disk_inode' = [disk_inode EXCEPT ![call.sector] = [start |-> call.start, length |-> call.size]]
  /\ call' = [call EXCEPT !.step = "entry"]
  /\ UNCHANGED <<free_map, disk_map, dir, open_inodes, file, prog, lost, leaked, panic>>

\* dir_add: when the name exists or the directory is full the inode's sector is
\* given back, and not the data's.
AddEntry ==
  LET unused == {e \in Entry : dir[e] = None}
  IN  /\ Doing("entry")
      /\ \/ /\ Lookup(call.name) = {} /\ unused # {}
            /\ dir' = [dir EXCEPT ![Lowest(unused)] = [name |-> call.name, sector |-> call.sector]]
            /\ UNCHANGED <<free_map, disk_map, disk_inode, lost, panic>>
         \/ /\ Lookup(call.name) # {} \/ unused = {}
            /\ free_map_release({call.sector})
            /\ disk_inode' = Forgotten(call.sector)
            /\ lost' = lost \cup Extent(call.start, call.size)
            /\ UNCHANGED dir
      /\ call' = None
      /\ UNCHANGED <<open_inodes, file, prog, leaked>>

-----------------------------------------------------------------------------
(* Open inodes and descriptors. *)

Opened_NoReopen(s) ==
  IF open_inodes[s] = None THEN [open_cnt |-> 1, removed |-> FALSE, deny_write_cnt |-> 0]
  ELSE open_inodes[s]

\* struct inode of s after inode_open or inode_reopen.
Opened(s) ==
  IF open_inodes[s] = None THEN [open_cnt |-> 1, removed |-> FALSE, deny_write_cnt |-> 0]
  ELSE [open_inodes[s] EXCEPT !.open_cnt = @ + 1]

Openers(s) == IF open_inodes[s] = None THEN 0 ELSE open_inodes[s].open_cnt

CloseInode_AnyClose(s, i, next) ==
  /\ open_inodes' = [open_inodes EXCEPT ![s] =
       IF i.open_cnt > 1 THEN [i EXCEPT !.open_cnt = @ - 1] ELSE None]
  /\ \/ /\ i.removed
        /\ free_map_release({s})
        /\ disk_inode' = Forgotten(s)
        /\ call' = [step |-> "release", sectors |-> Data(s), next |-> next]
     \/ ~ i.removed /\ call' = next /\ UNCHANGED <<free_map, disk_map, disk_inode, panic>>

\* inode_close of the struct inode i of s: the last one closes it for good, and
\* releases the sectors of a file that was removed, first the inode's.
CloseInode(s, i, next) ==
  /\ open_inodes' = [open_inodes EXCEPT ![s] =
       IF i.open_cnt > 1 THEN [i EXCEPT !.open_cnt = @ - 1] ELSE None]
  /\ \/ /\ i.open_cnt = 1 /\ i.removed
        /\ free_map_release({s})
        /\ disk_inode' = Forgotten(s)
        /\ call' = [step |-> "release", sectors |-> Data(s), next |-> next]
     \/ /\ i.open_cnt > 1 \/ ~ i.removed
        /\ call' = next
        /\ UNCHANGED <<free_map, disk_map, disk_inode, panic>>

ReleaseData ==
  /\ Doing("release")
  /\ free_map_release(call.sectors)
  /\ call' = call.next
  /\ UNCHANGED <<disk_inode, dir, open_inodes, file, prog, lost, leaked>>

CloseFile_Allow(f, next) ==
  CloseInode(f.sector, [open_inodes[f.sector] EXCEPT !.deny_write_cnt = @ - 1], next)

\* file_close of f: writing is allowed again if f denied it.
CloseFile(f, next) ==
  LET i == open_inodes[f.sector]
  IN  CloseInode(f.sector, IF f.deny_write THEN [i EXCEPT !.deny_write_cnt = @ - 1] ELSE i, next)

\* open.  A program that opens its own file denies writing to it.  When all
\* descriptors are taken the opened file is lost, and 131 returned.
Open(p, name) ==
  LET s == dir[Lowest(Lookup(name))].sector
      deny == prog[p] = name
      unused == {d \in Fd : file[p][d] = None}
      i == Opened(s)
  IN  /\ Idle /\ prog[p] # None /\ Lookup(name) # {} /\ Openers(s) < MaxOpen
      /\ open_inodes' = [open_inodes EXCEPT ![s] =
           IF deny THEN [i EXCEPT !.deny_write_cnt = @ + 1] ELSE i]
      /\ \/ /\ unused # {}
            /\ file' = [file EXCEPT ![p][Lowest(unused)] = [sector |-> s, deny_write |-> deny]]
            /\ UNCHANGED leaked
         \/ /\ unused = {}
            /\ leaked' = [leaked EXCEPT ![s] = @ + 1]
            /\ UNCHANGED file
      /\ UNCHANGED <<free_map, disk, prog, call, lost, panic>>

\* load opens the program's file and closes it, and load_segment opens it once
\* more for each page, here one, and for ever.
Exec(p, name) ==
  LET s == dir[Lowest(Lookup(name))].sector
  IN  /\ Idle /\ prog[p] = None /\ Lookup(name) # {} /\ Openers(s) < MaxOpen
      /\ open_inodes' = [open_inodes EXCEPT ![s] = Opened(s)]
      /\ leaked' = [leaked EXCEPT ![s] = @ + 1]
      /\ prog' = [prog EXCEPT ![p] = name]
      /\ UNCHANGED <<free_map, disk, file, call, lost, panic>>

Close(p, d) ==
  /\ Idle /\ file[p][d] # None
  /\ CloseFile(file[p][d], None)
  /\ file' = [file EXCEPT ![p][d] = None]
  /\ UNCHANGED <<dir, prog, lost, leaked>>

\* process_exit closes the descriptors in turn.
Exit(p) ==
  /\ Idle /\ prog[p] # None
  /\ call' = [step |-> "exit", process |-> p]
  /\ UNCHANGED <<free_map, disk, open_inodes, file, prog, lost, leaked, panic>>

CloseNext ==
  /\ Doing("exit")
  /\ LET p == call.process
         open == {d \in Fd : file[p][d] # None}
     IN  \/ /\ open # {}
            /\ CloseFile(file[p][Lowest(open)], call)
            /\ file' = [file EXCEPT ![p][Lowest(open)] = None]
            /\ UNCHANGED prog
         \/ /\ open = {}
            /\ prog' = [prog EXCEPT ![p] = None]
            /\ call' = None
            /\ UNCHANGED <<free_map, disk_map, disk_inode, open_inodes, file, panic>>
  /\ UNCHANGED <<dir, lost, leaked>>

\* filesys_remove erases the entry, then marks the inode and closes it.
Remove(p, name) ==
  LET e == Lowest(Lookup(name))
      s == dir[e].sector
  IN  /\ Idle /\ prog[p] # None /\ Lookup(name) # {}
      /\ open_inodes' = [open_inodes EXCEPT ![s] = Opened(s)]
      /\ dir' = [dir EXCEPT ![e] = None]
      /\ call' = [step |-> "remove", sector |-> s]
      /\ UNCHANGED <<free_map, disk_map, disk_inode, file, prog, lost, leaked, panic>>

RemoveInode ==
  /\ Doing("remove")
  /\ CloseInode(call.sector, [open_inodes[call.sector] EXCEPT !.removed = TRUE], None)
  /\ UNCHANGED <<dir, file, prog, lost, leaked>>

-----------------------------------------------------------------------------
(* halt, or a loss of power, at any point of another process's call; then     *)
(* filesys_init without formatting.                                           *)

Listed == UNION {{dir[e].sector} \cup Data(dir[e].sector) : e \in {x \in Entry : dir[x] # None}}

Restart ==
  /\ ~ panic
  /\ free_map' = disk_map
  /\ open_inodes' = [s \in Sector |-> None]
  /\ file' = [p \in Process |-> [d \in Fd |-> None]]
  /\ prog' = [p \in Process |-> None]
  /\ call' = None
  /\ lost' = disk_map \ Listed
  /\ leaked' = [s \in Sector |-> 0]
  /\ disk_inode' = [s \in Sector |-> IF \E e \in Entry : dir[e] # None /\ dir[e].sector = s
                                      THEN disk_inode[s] ELSE None]
  /\ UNCHANGED <<disk_map, dir, panic>>

Next ==
  \/ \E p \in Process, name \in Name :
       \/ \E size \in Size : Create(p, name, size)
       \/ Open(p, name) \/ Exec(p, name) \/ Remove(p, name)
  \/ \E p \in Process, d \in Fd : Close(p, d)
  \/ \E p \in Process : Exit(p)
  \/ AllocateData \/ WriteInode \/ AddEntry \/ RemoveInode \/ ReleaseData \/ CloseNext
  \/ Restart

Spec == Init /\ [][Next]_vars

-----------------------------------------------------------------------------
\* Every variable has its type.
TypeOK ==
  /\ free_map \subseteq Sector /\ disk_map \subseteq Sector
  /\ disk_inode \in [Sector -> {None} \cup Inode]
  /\ dir \in [Entry -> {None} \cup DirEntry]
  /\ open_inodes \in [Sector -> {None} \cup
       [open_cnt : 1 .. MaxOpen + 1, removed : BOOLEAN, deny_write_cnt : 0 .. MaxOpen]]
  /\ file \in [Process -> [Fd -> {None} \cup OpenFile]]
  /\ prog \in [Process -> Name \cup {None}]
  /\ call \in {None} \cup CreateCall \cup RemoveCall \cup ExitCall \cup ReleaseCall
  /\ lost \subseteq Sector /\ leaked \in [Sector -> 0 .. MaxOpen]
  /\ panic \in BOOLEAN

\* Whatever the disk holds at the moment the machine stops, a directory entry
\* leads to an inode that was written, its sectors are marked in the free map
\* on the disk, and no sector belongs to two files: create writes the map, then
\* the inode, then the entry, and remove takes them back in the opposite order.
EntriesSound ==
  LET used == {e \in Entry : dir[e] # None}
      Sectors(e) == {dir[e].sector} \cup Data(dir[e].sector)
  IN  \A e \in used :
        /\ disk_inode[dir[e].sector] # None
        /\ Sectors(e) \subseteq disk_map
        /\ \A f \in used \ {e} : dir[e].name # dir[f].name /\ Sectors(e) \cap Sectors(f) = {}

Removed == {s \in Sector : open_inodes[s] # None /\ open_inodes[s].removed}

\* Between calls the sectors in use are those of the listed files, those of
\* removed files somebody has open, and those a failed create or a restart has
\* lost: the last close of a removed file (inode_close) gives back every sector
\* and none twice, and no file loses one while it is open.
SectorsAccounted ==
  /\ ~ panic
  /\ call = None =>
       /\ \A s \in Removed : disk_inode[s] # None
       /\ free_map = Listed \cup lost \cup UNION {{s} \cup Data(s) : s \in Removed}
       /\ disk_map = free_map
       /\ \A s \in Removed : ({s} \cup Data(s)) \cap (Listed \cup lost) = {}

\* An inode counts those who have it open: the descriptors for it, the openers
\* that will never close it, and remove while it is at work; and of these the
\* descriptors that deny writing, or more if open found no descriptor.
OpenersCounted ==
  \A s \in Sector :
    LET fds == {x \in Process \X Fd : file[x[1]][x[2]] # None /\ file[x[1]][x[2]].sector = s}
        removing == IF Doing("remove") /\ call.sector = s THEN 1 ELSE 0
    IN  /\ Openers(s) = Cardinality(fds) + leaked[s] + removing
        /\ Openers(s) > 0 =>
             /\ open_inodes[s].deny_write_cnt <= Openers(s)
             /\ open_inodes[s].deny_write_cnt >= Cardinality({x \in fds : file[x[1]][x[2]].deny_write})
=============================================================================
