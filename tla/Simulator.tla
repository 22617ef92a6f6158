------------------------------ MODULE Simulator ------------------------------
(* The SIC/XE simulator of CSE4100 (proj3): its command loop, the memory   *)
(* and registers, the linking loader and the interpreter run.  Commands    *)
(* come one at a time and run to their end, so each is one action; run is  *)
(* a loop, and each of its instructions is one.                            *)
(*                                                                         *)
(* Registers are C ints, memory cells unsigned chars.  What reads or       *)
(* writes through an address that was never set, or lies outside of the    *)
(* memory, has no defined outcome: the mode is then Undefined and nothing  *)
(* is said of what follows.                                                *)
EXTENDS Assembler, Loader

CONSTANTS
  Objects,    \* file name -> object program, for the other files that exist
  LoadLists,  \* what "loader" may be given: sequences of file names
  Addresses,  \* what "progaddr" and "bp" may be given
  Cells,      \* the cells "edit" and "fill" may change
  Values,     \* and the values they may write
  Continued,  \* bound: the sources a session goes on with; any other is the
              \* only command of its session
  MaxCommands, \* bound of a session
  MaxX        \* bound of the loops a misread program may make

ASSUME ContinuedAssumption == Continued \subseteq Sources

\* The names in object programs.  (That a literal is a string is not known to
\* the provers: the two the model has are named.)
Strings == STRING \cup {"OWN", "missing"}

ObjectFile ==
  [name: Strings, length: Nat, D: Seq([sym: Strings, addr: Nat]), R: Seq([ref: Nat, sym: Strings]),
   T: Seq([loc: Int, length: Int, body: Seq(Int)]),
   M: Seq([loc: Nat, half: {5, 6}, sign: {"+", "-", "none"}, ref: Nat]), E: Int]

\* Every reference number has one R record and 1 has none: the entry of one
\* that has none is not initialised, nor is there room for more than three.
ASSUME ObjectsAssumption ==
  /\ \A f \in DOMAIN Objects :
       LET o == Objects[f] IN
       /\ o \in ObjectFile
       /\ \A i, j \in DOMAIN o.R : o.R[i].ref # 1 /\ (o.R[i].ref = o.R[j].ref => i = j)
       /\ \A m \in ToSet(o.M) : m.ref = 1 \/ \E r \in ToSet(o.R) : r.ref = m.ref
  /\ LoadLists \subseteq Seq(STRING)
  /\ Addresses \cup Cells \cup Values \subseteq Nat

VARIABLES
  own,            \* the object program "assemble" left, or Missing
  memory,
  start_progaddr,
  reg,            \* A, X, L, PC, B, S and T
  CC,
  locctr,         \* where run takes the operands from
  length,
  bp_status,      \* the addresses with a breakpoint
  mode,           \* Command, Running or Undefined
  commands,       \* how many were given
  aligned         \* did every instruction since the last load have its
                  \* operands taken from itself? (history)

machine == <<memory, start_progaddr, reg, CC, locctr, length>>
simvars == <<source, asm, temp_symbol, own, memory, start_progaddr, reg, CC, locctr,
             length, bp_status, mode, commands, aligned>>

MemorySize == 1048575   \* calloc (0xFFFFF)
OwnFile    == "own.obj" \* what "assemble" writes
Missing    == [name |-> "missing", length |-> 0, D |-> <<>>, R |-> <<>>, T |-> <<>>,
               M |-> <<>>, E |-> NoEntry]

\* Variant: L is cleared with the others.
Idle_NoReturn(L, PC) == [A |-> 0, X |-> 0, L |-> 0, PC |-> PC, B |-> 0, S |-> 0, T |-> 0]

Idle(L, PC) == [A |-> 0, X |-> 0, L |-> L, PC |-> PC, B |-> 0, S |-> 0, T |-> 0]

SimInit ==
  /\ AsmInit
  /\ own = Missing
  /\ memory = <<>> /\ start_progaddr = 0 /\ reg = Idle(0, 0) /\ CC = "none"
  /\ locctr = 0 /\ length = 0
  /\ bp_status = {} /\ mode = "command" /\ commands = 0 /\ aligned = TRUE

-----------------------------------------------------------------------------
(* Commands.                                                               *)

Command ==
  /\ mode = "command" /\ commands < MaxCommands
  /\ source \in Continued \cup {<<>>}
  /\ commands' = commands + 1

\* What the six columns of an int hold that is written with "%06X": of seven
\* or eight digits the first.
SixColumns(n) ==
  CASE n \in 0 .. 2^24 - 1    -> n
    [] n \in 2^24 .. 2^28 - 1 -> n \div 16
    [] OTHER                  -> (n \div 256) % 2^24

\* A program without code has an E record with the -1 of start_LOCCTR.  (The
\* start in the H record is taken to have six digits.)
ObjectOf(a) ==
  [name |-> "OWN", length |-> SixColumns(a.length), D |-> <<>>, R |-> <<>>, T |-> a.T,
   M |-> [j \in DOMAIN a.M |-> [loc |-> SixColumns(a.M[j]), half |-> 5, sign |-> "none",
                               ref |-> 1]],
   E |-> SixColumns(a.E)]

\* A failed assembly removes the object program it had begun to write.
AssembleFile(src) ==
  /\ Command
  /\ Assemble(src)
  /\ own' = IF asm'.ok THEN ObjectOf(asm') ELSE Missing
  /\ UNCHANGED <<machine, bp_status, mode, aligned>>

ObjectsOf(list) ==
  [k \in DOMAIN list |-> IF list[k] = OwnFile THEN own
                         ELSE IF list[k] \in DOMAIN Objects THEN Objects[list[k]]
                         ELSE Missing]

\* The scan for the sign of a modification without one has no end.
Signed(objs) ==
  \A k \in DOMAIN objs : \A j \in DOMAIN objs[k].M : objs[k].M[j].sign \in {"+", "-"}

Inside(m, n) == m \in 0 .. MemorySize - n

\* Do the texts and the modified fields lie in the memory?
InMemory(objs, estab) ==
  \A k \in DOMAIN objs :
    /\ \A t \in ToSet(objs[k].T) : t.length > 0 => Inside(estab[k].addr + t.loc, t.length)
    /\ \A m \in ToSet(objs[k].M) : Inside(estab[k].addr + m.loc, 3)

Load(list) ==
  /\ Command
  /\ UNCHANGED <<asmvars, own, bp_status>>
  /\ LET objs   == ObjectsOf(list)
         p      == LoaderPass1(objs, start_progaddr)
         q      == LoaderPass2(objs, start_progaddr, p.estab, memory)
         total  == FoldLeft(LAMBDA n, e : n + e.length, 0, p.estab)
     IN  \/ /\ ~p.ok
            /\ UNCHANGED <<machine, mode, aligned>>
         \/ /\ p.ok /\ ~(Signed(objs) /\ InMemory(objs, p.estab))
            /\ mode' = "undefined"
            /\ UNCHANGED <<machine, aligned>>
         \/ /\ p.ok /\ Signed(objs) /\ InMemory(objs, p.estab)
            /\ IF ~q.ok
               THEN \* the memory is copied back from temp_memory
                    UNCHANGED <<machine, aligned>>
               ELSE /\ memory' = q.mem
                    /\ start_progaddr' = q.execaddr
                    /\ reg' = Idle(total, q.execaddr)
                    /\ length' = total
                    /\ aligned' = TRUE
                    /\ UNCHANGED <<CC, locctr>>
            /\ UNCHANGED mode

Progaddr(a) ==
  /\ Command
  /\ start_progaddr' = a
  /\ UNCHANGED <<asmvars, own, memory, reg, CC, locctr, length, bp_status, mode, aligned>>

Breakpoint(a) ==
  /\ Command
  /\ bp_status' = bp_status \cup {a}
  /\ UNCHANGED <<asmvars, own, machine, mode, aligned>>

BreakpointClear ==
  /\ Command
  /\ bp_status' = {}
  /\ UNCHANGED <<asmvars, own, machine, mode, aligned>>

\* "edit" is the case of one cell.
Fill(start, end, v) ==
  /\ Command
  /\ start <= end
  /\ memory' = Poke(memory, start, [j \in 1 .. end - start + 1 |-> v])
  /\ UNCHANGED <<asmvars, own, start_progaddr, reg, CC, locctr, length, bp_status, mode,
                 aligned>>

Reset ==
  /\ Command
  /\ memory' = <<>>
  /\ UNCHANGED <<asmvars, own, start_progaddr, reg, CC, locctr, length, bp_status, mode,
                 aligned>>

Run ==
  /\ Command
  /\ mode' = "running"
  /\ UNCHANGED <<asmvars, own, machine, bp_status, aligned>>

-----------------------------------------------------------------------------
(* The interpreter.                                                        *)

Names == <<"A", "X", "L", "B", "S", "T">>

\* The value of register number k; a number that is none stands for itself.
RegisterValue(r, k) ==
  IF k \in 0 .. 5 THEN r[Names[k + 1]] ELSE IF k = 8 THEN r.PC ELSE k

Compare(u, v) == IF u = v THEN "=" ELSE IF u > v THEN ">" ELSE "<"

At(a) == Peek(memory, a)

\* What an instruction does: registers, memory and condition code after it.
Effect(r, mem, cc) == [reg |-> r, mem |-> mem, CC |-> cc, defined |-> TRUE]
NoEffect == [reg |-> reg, mem |-> memory, CC |-> CC, defined |-> FALSE]

Clear ==
  LET r == [reg EXCEPT !.PC = @ + 2]
      k == At(r.PC - 1) \div 16
  IN  Effect(IF k \in 0 .. 5 THEN [r EXCEPT ![Names[k + 1]] = 0]
             ELSE IF k = 8 THEN [r EXCEPT !.PC = 0] ELSE r, memory, CC)

Compr ==
  LET r == [reg EXCEPT !.PC = @ + 2]
      b == At(r.PC - 1)
  IN  Effect(r, memory, Compare(RegisterValue(r, b \div 16), RegisterValue(r, b % 16)))

Tixr ==
  LET r == [reg EXCEPT !.PC = @ + 2]
      v == RegisterValue(r, At(locctr + 1) \div 16)
  IN  Effect([r EXCEPT !.X = @ + 1], memory, Compare(r.X + 1, v))

\* m is set by three of the four addressing modes; what uses it must have it.
UsesOperand(op, f, cc) ==
  \/ op \in {40, 60, 72, 104, 80, 12, 84, 20, 16}
  \/ op = 48 /\ cc = "="
  \/ op = 56 /\ cc = "<"
  \/ op \in {0, 116} /\ f.i /\ f.n

Wide(opcode) ==
  LET op      == opcode - (opcode % 4)
      f       == FieldsOf(At(locctr), At(locctr + 1))
      r       == [reg EXCEPT !.PC = @ + (IF f.e THEN 4 ELSE 3)]
      address == OperandAddress(f, At(locctr + 1), At(locctr + 2), At(locctr + 3),
                                r.PC, r.B, r.X)
      indirect == f.n /\ ~f.i
      m       == IF indirect THEN Word(memory, address) ELSE address
      loaded  == IF f.n THEN Word(memory, m) ELSE m
      jump    == [r EXCEPT !.PC = m]
      words   == {12, 20, 16} \cup IF f.n /\ f.i THEN {0, 116} ELSE {}
  IN  IF \/ UsesOperand(op, f, CC) /\ ~f.n /\ ~f.i
         \/ indirect /\ ~Inside(address, 3)
         \/ op \in words /\ ~Inside(m, 3)
         \/ op \in {80, 84} /\ ~Inside(m, 1)
      THEN NoEffect
      ELSE CASE op = 40  -> Effect(r, memory, Compare(r.A, m))               \* COMP
             [] op = 60  -> Effect(jump, memory, CC)                         \* J
             [] op = 48  -> Effect(IF CC = "=" THEN jump ELSE r, memory, CC) \* JEQ
             [] op = 56  -> Effect(IF CC = "<" THEN jump ELSE r, memory, CC) \* JLT
             [] op = 72  -> Effect([jump EXCEPT !.L = r.PC], memory, CC)     \* JSUB
             [] op = 0   -> Effect(IF f.i THEN [r EXCEPT !.A = loaded] ELSE r, memory, CC)
             [] op = 116 -> Effect(IF f.i THEN [r EXCEPT !.T = loaded] ELSE r, memory, CC)
             [] op = 104 -> Effect([r EXCEPT !.B = m], memory, CC)           \* LDB
             [] op = 80  -> Effect([r EXCEPT !.A = At(m)], memory, CC)       \* LDCH
             [] op = 216 -> Effect([r EXCEPT !.A = 0], memory, CC)           \* RD
             [] op = 76  -> Effect([r EXCEPT !.PC = r.L], memory, CC)        \* RSUB
             [] op = 12  -> Effect(r, PokeWord(memory, m, r.A), CC)          \* STA
             [] op = 84  -> Effect(r, Poke(memory, m, <<r.A % 256>>), CC)    \* STCH
             [] op = 20  -> Effect(r, PokeWord(memory, m, r.L), CC)          \* STL
             [] op = 16  -> Effect(r, PokeWord(memory, m, r.X), CC)          \* STX
             [] op = 224 -> Effect(r, memory, "<")                           \* TD
             [] OTHER    -> Effect(r, memory, CC)

InstructionAtPC ==
  CASE ~Inside(reg.PC, 4)  -> NoEffect
    [] At(reg.PC) = 180 -> Clear
    [] At(reg.PC) = 160 -> Compr
    [] At(reg.PC) = 184 -> Tixr
    [] OTHER            -> Wide(At(reg.PC))

\* A breakpoint stops behind its instruction.
Step ==
  /\ mode = "running" /\ reg.PC < start_progaddr + length
  /\ reg.X <= MaxX
  /\ LET e == InstructionAtPC IN
     /\ reg' = e.reg /\ memory' = e.mem /\ CC' = e.CC
     /\ locctr' = IF e.defined THEN e.reg.PC ELSE locctr
     /\ mode' = IF ~e.defined THEN "undefined"
                ELSE IF reg.PC \in bp_status THEN "command" ELSE mode
  /\ aligned' = (aligned /\ locctr = reg.PC)
  /\ UNCHANGED <<asmvars, own, start_progaddr, length, bp_status, commands>>

\* "End Program": the registers are set back, locctr is not.
EndProgram ==
  /\ mode = "running" /\ reg.PC >= start_progaddr + length
  /\ reg' = Idle(length, start_progaddr)
  /\ mode' = "command"
  /\ UNCHANGED <<asmvars, own, memory, start_progaddr, CC, locctr, length, bp_status,
                 commands, aligned>>

SimNext ==
  \/ \E src \in IF commands = 0 THEN Sources ELSE Continued : AssembleFile(src)
  \/ \E list \in LoadLists : Load(list)
  \/ \E a \in Addresses : Progaddr(a) \/ Breakpoint(a)
  \/ BreakpointClear \/ Reset \/ Run
  \/ \E a, b \in Cells, v \in Values : Fill(a, b, v)
  \/ Step \/ EndProgram

SimSpec == SimInit /\ [][SimNext]_simvars
\* run is a loop: once begun it goes on.
SimFair == SimSpec /\ WF_simvars(Step \/ EndProgram)

-----------------------------------------------------------------------------
(* What loading and running promise.                                       *)

SectionAt(objs, k, at) == at + FoldLeft(LAMBDA n, o : n + o.length, 0, SubSeq(objs, 1, k - 1))

\* The external symbols: [sym, addr, file, section].
External(objs, at) ==
  UNION {{[sym |-> objs[k].name, addr |-> SectionAt(objs, k, at), file |-> k, section |-> TRUE]}
         \cup {[sym |-> d.sym, addr |-> SectionAt(objs, k, at) + d.addr, file |-> k,
                section |-> FALSE] : d \in ToSet(objs[k].D)} : k \in DOMAIN objs}

\* One name for two is an error, but not for a section after a symbol.
Clash(e, d) == e # d /\ e.sym = d.sym /\ e.file <= d.file /\ (d.section => e.section)

\* What reference number ref of file k can mean: 1 is the file itself.
Meant(objs, k, ref, at) ==
  {e \in External(objs, at) :
     IF ref = 1 THEN e.section /\ e.file = k
     ELSE \E r \in ToSet(objs[k].R) : r.ref = ref /\ e.sym = r.sym}

Linkable(objs, at) ==
  /\ \A k \in DOMAIN objs : /\ objs[k].name # "missing"
                            /\ Len(objs[k].D) = Cardinality(ToSet(objs[k].D))
                            /\ \A m \in ToSet(objs[k].M) : Meant(objs, k, m.ref, at) # {}
  /\ ~\E e, d \in External(objs, at) : Clash(e, d)

\* The first of them counts.
Target(objs, k, ref, at) ==
  LET meant == Meant(objs, k, ref, at)
  IN  (CHOOSE e \in meant : \A d \in meant : e.file <= d.file).addr

\* What a modification adds.
Value(objs, k, m, at) ==
  IF m.sign = "+" THEN Target(objs, k, m.ref, at) ELSE -Target(objs, k, m.ref, at)

\* Is cell a one that text j of file k is for?
Covers(objs, at, k, j, a) ==
  a - SectionAt(objs, k, at) - objs[k].T[j].loc \in 0 .. Len(objs[k].T[j].body) - 1

\* The last text for a cell, and the cell without one.
TextAt(objs, at, a) ==
  LET texts == {c \in UNION {{k} \X DOMAIN objs[k].T : k \in DOMAIN objs} :
                  Covers(objs, at, c[1], c[2], a)}
      c     == CHOOSE c \in texts :
                 \A d \in texts : d[1] < c[1] \/ (d[1] = c[1] /\ d[2] <= c[2])
      t     == objs[c[1]].T[c[2]]
  IN  IF texts = {} THEN At(a) ELSE t.body[a - SectionAt(objs, c[1], at) - t.loc + 1]

\* The fields that modifications of file k change: <<address, half-bytes>>.
FieldsOfFile(objs, at, k) ==
  {<<SectionAt(objs, k, at) + m.loc, m.half>> : m \in ToSet(objs[k].M)}

FieldsIn(objs, at) == UNION {FieldsOfFile(objs, at, k) : k \in DOMAIN objs}

\* No two fields overlap in part, and no text lies on a field of a file before
\* its own.
Apart(objs, at) ==
  /\ \A f, g \in FieldsIn(objs, at) : f = g \/ f[1] + 3 <= g[1] \/ g[1] + 3 <= f[1]
  /\ \A k \in DOMAIN objs : \A j \in DOMAIN objs[k].T : \A i \in 1 .. k - 1 :
       \A f \in FieldsOfFile(objs, at, i), b \in 0 .. 2 : ~Covers(objs, at, k, j, f[1] + b)

\* Are the texts as long as they say?
Exact(objs) == \A k \in DOMAIN objs : \A t \in ToSet(objs[k].T) : t.length = Len(t.body)

Sum(objs, at, a) ==
  FoldLeft(LAMBDA n, k :
             FoldLeft(LAMBDA j, m : IF SectionAt(objs, k, at) + m.loc = a
                                    THEN j + Value(objs, k, m, at) ELSE j, n, objs[k].M),
           0, [k \in DOMAIN objs |-> k])

\* Where the last file that says so starts the program.
StartOf(objs, at) ==
  LET files == {k \in DOMAIN objs : objs[k].E # NoEntry}
      k == Max(files)
  IN  IF files = {} THEN at
      ELSE SectionAt(objs, k, at) + (IF objs[k].E = BareEntry THEN -1 ELSE objs[k].E)

\* The memory is that of the texts, each field raised by the sum of what its
\* modifications add.
ImageLinked(objs, at) ==
  /\ \A a \in (DOMAIN memory \cup DOMAIN memory')
               \ UNION {f[1] .. f[1] + 2 : f \in FieldsIn(objs, at)} :
       Peek(memory', a) = TextAt(objs, at, a)
  /\ \A f \in FieldsIn(objs, at) :
       LET w == 65536 * TextAt(objs, at, f[1]) + 256 * TextAt(objs, at, f[1] + 1)
                + TextAt(objs, at, f[1] + 2)
       IN  (Word(memory', f[1]) - w - Sum(objs, at, f[1])) % 2^(4 * f[2]) = 0

\* The loader works through its files record by record, keeps what it looked
\* up and adds as it reads.  If the files exist and every name is defined once,
\* what it leaves is the image they define together: every section behind the
\* ones before it, every text in its place, and every modified field the sum of
\* its text and of all the addresses its modifications name (modulo its 24 or
\* its 20 bits; the half-byte left of the 20 may have taken a carry); the program
\* starts where the last file that names a start says.  If not, the machine is
\* as it was, however far pass 2 had got.
LoadsOrLeaves ==
  [][\A list \in LoadLists :
       LET objs == ObjectsOf(list)
           at   == start_progaddr
       IN  Load(list) /\ at >= 0 /\ mode' = mode =>
             IF ~Linkable(objs, at) THEN UNCHANGED machine
             ELSE /\ length' = SectionAt(objs, Len(objs) + 1, 0)
                  /\ start_progaddr' = StartOf(objs, at)
                  /\ reg' = Idle(length', start_progaddr')
                  /\ Exact(objs) /\ Apart(objs, at) => ImageLinked(objs, at)]_simvars

\* A program that was loaded at zero returns through L, which holds its length,
\* and so ends the run, whatever breakpoints stop it on its way and if no
\* instruction was misread.
RunEnds == mode = "running" /\ aligned /\ locctr = reg.PC /\ start_progaddr = 0
             ~> mode # "running"
=============================================================================
