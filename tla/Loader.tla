-------------------------------- MODULE Loader --------------------------------
(* The linking loader of the SIC/XE simulator (CSE4100, proj3/20161559.h:  *)
(* loader_pass1, loader_pass2) as operators over the memory.               *)
(*                                                                         *)
(* An object program is a record                                           *)
(*   name, length  the H record                                            *)
(*   D             sequence of [sym, addr]: what it defines                *)
(*   R             sequence of [ref, sym]: what it refers to; reference 1  *)
(*                 is the program itself                                   *)
(*   T             sequence of [loc, length, body]: text, body in bytes    *)
(*   M             sequence of [loc, half, sign, ref]: modifications       *)
(*   E             the address in the E record, NoEntry when the file ends *)
(*                 in a bare "E", BareEntry when a newline follows it      *)
(* Memory is calloc'ed: an address not in the function holds zero.         *)
EXTENDS Integers, Sequences, SequencesExt, FiniteSets

NoEntry   == -1
BareEntry == -2

Peek(mem, a) == IF a \in DOMAIN mem THEN mem[a] ELSE 0

Poke(mem, a, bytes) ==
  [b \in DOMAIN mem \cup (a .. a + Len(bytes) - 1) |->
     IF b \in a .. a + Len(bytes) - 1 THEN bytes[b - a + 1] ELSE mem[b]]

Word(mem, a) == 65536 * Peek(mem, a) + 256 * Peek(mem, a + 1) + Peek(mem, a + 2)

PokeWord(mem, a, w) ==
  Poke(mem, a, <<(w \div 65536) % 256, (w \div 256) % 256, w % 256>>)

-----------------------------------------------------------------------------
(* Pass 1: the external symbols.  ESTAB is a sequence, one entry for each  *)
(* file: [cs, addr, length, syms].                                         *)

\* Is it the name of the section, or one that the section defines?
HasName(e, sym) == e.cs = sym \/ \E j \in DOMAIN e.syms : e.syms[j].sym = sym

Entered(estab, sym) == \E k \in DOMAIN estab : HasName(estab[k], sym)

\* "Error! duplicate external symbol!"
Define(s, d) ==
  IF ~s.ok \/ Entered(s.estab, d.sym) THEN [s EXCEPT !.ok = FALSE]
  ELSE LET k == Len(s.estab) IN
       [s EXCEPT !.estab[k].syms =
          Append(@, [sym |-> d.sym, addr |-> d.addr + s.csaddr])]

\* The name of a section is compared with the names of sections only.
Pass1File(s, o) ==
  IF \/ ~s.ok
     \/ o.name = "missing"
     \/ \E k \in DOMAIN s.estab : s.estab[k].cs = o.name
  THEN [s EXCEPT !.ok = FALSE]
  ELSE LET begun == [s EXCEPT !.estab = Append(@, [cs |-> o.name, addr |-> s.csaddr,
                                                    length |-> o.length, syms |-> <<>>])]
       IN  [FoldLeft(Define, begun, o.D) EXCEPT !.csaddr = @ + o.length]

LoaderPass1(objs, progaddr) ==
  FoldLeft(Pass1File, [ok |-> TRUE, csaddr |-> progaddr, estab |-> <<>>], objs)

-----------------------------------------------------------------------------
(* Pass 2: the texts, and the modifications by what was found in pass 1.   *)

\* As many bytes as the record says, whatever it holds: the newline reads as
\* -1, what lies behind it is left from the records before.
TextBytesOf(t, buffer) ==
  [j \in 1 .. t.length |->
     CASE j <= Len(t.body)    -> t.body[j]
       [] j = Len(t.body) + 1 -> 255
       [] OTHER               -> IF j \in DOMAIN buffer THEN buffer[j] ELSE 255]

LoadText(s, t) ==
  LET bytes == TextBytesOf(t, s.buffer) IN
  [s EXCEPT !.mem = Poke(@, s.csaddr + t.loc, bytes),
            !.buffer = [j \in 1 .. (IF Len(@) > Len(t.body) + 1 THEN Len(@)
                                    ELSE Len(t.body) + 1) |->
                          IF j <= Len(t.body) THEN t.body[j]
                          ELSE IF j = Len(t.body) + 1 THEN 255 ELSE @[j]]]

\* Five half-bytes are added without a mask, so a carry reaches the sixth;
\* they are subtracted within their 20 bits.
Modified(w, half, sign, addr) ==
  CASE sign = "+" -> w + addr
    [] sign = "-" /\ half = 5 -> (w \div 2^20) * 2^20 + ((w - addr) % 2^20)
    [] sign = "-" /\ half = 6 -> (w - addr) % 2^24

\* The address of the first entry of ESTAB with this name, -1 without one.
Earliest(S) == CHOOSE i \in S : \A j \in S : i <= j

AddressOf(estab, sym) ==
  LET files == {k \in DOMAIN estab : HasName(estab[k], sym)}
      e == estab[Earliest(files)]
  IN  IF files = {} THEN -1
      ELSE IF e.cs = sym THEN e.addr
      ELSE e.syms[Earliest({j \in DOMAIN e.syms : e.syms[j].sym = sym})].addr

\* Variant: the address that was looked up is not kept.
Modify_Forgets(s, m) ==
  IF ~s.ok THEN s
  ELSE LET r    == s.r[m.ref]
           addr == IF r.used_flag = -1 THEN AddressOf(s.estab, r.sym) ELSE r.used_flag
           at   == s.csaddr + m.loc
       IN  IF addr = -1 THEN [s EXCEPT !.ok = FALSE]
           ELSE [s EXCEPT !.r[m.ref].used_flag = 0,
                          !.mem = PokeWord(@, at, Modified(Word(s.mem, at), m.half, m.sign, addr))]

\* A reference is looked up at its first use; used_flag keeps its address.
Modify(s, m) ==
  IF ~s.ok THEN s
  ELSE LET r    == s.r[m.ref]
           addr == IF r.used_flag = -1 THEN AddressOf(s.estab, r.sym) ELSE r.used_flag
           at   == s.csaddr + m.loc
       IN  IF addr = -1 THEN [s EXCEPT !.ok = FALSE]
           ELSE [s EXCEPT !.r[m.ref].used_flag = addr,
                          !.mem = PokeWord(@, at, Modified(Word(s.mem, at), m.half, m.sign, addr))]

References(o, est) ==
  [k \in {1} \cup {o.R[j].ref : j \in DOMAIN o.R} |->
     IF k = 1 THEN [sym |-> est.cs, used_flag |-> est.addr]
     ELSE [sym |-> o.R[CHOOSE j \in DOMAIN o.R : o.R[j].ref = k].sym, used_flag |-> -1]]

\* A file f: its object program and its entry.
Pass2File(s, f) ==
  IF ~s.ok THEN s
  ELSE LET begun == [s EXCEPT !.csaddr = f.est.addr, !.r = References(f.obj, f.est),
                              !.buffer = <<>>]
           done  == FoldLeft(Modify, FoldLeft(LoadText, begun, f.obj.T), f.obj.M)
       IN  [done EXCEPT
              !.execaddr = CASE f.obj.E = NoEntry   -> @
                             [] f.obj.E = BareEntry -> f.est.addr - 1
                             [] OTHER               -> f.est.addr + f.obj.E]

LoaderPass2(objs, progaddr, estab, mem) ==
  FoldLeft(Pass2File,
           [ok |-> TRUE, mem |-> mem, estab |-> estab, csaddr |-> progaddr,
            execaddr |-> progaddr, r |-> <<>>, buffer |-> <<>>],
           [k \in DOMAIN objs |-> [obj |-> objs[k], est |-> estab[k]]])
=============================================================================
