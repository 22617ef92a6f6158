------------------------------ MODULE Assembler ------------------------------
(* The two passes of the SIC/XE assembler of the course CSE4100            *)
(* (proj3/20161559.h: pass1, pass2, assemble).  The program is sequential  *)
(* and "assemble" runs to its end, so the passes are operators folded over *)
(* the lines of a source, and the command is one action.                   *)
(*                                                                         *)
(* A line is a record                                                      *)
(*   label  the symbol it defines, or None                                 *)
(*   op     the mnemonic, a directive, "." for a comment, None for nothing *)
(*   plus   is there a "+" before the mnemonic                             *)
(*   mode   "0" simple, "#" immediate, "@" indirect                        *)
(*   kind   "sym", "num", "expr" (not alphanumeric), "regs", "chars" (of   *)
(*          BYTE) or "none"                                                *)
(*   sym, num  the operand; for "regs" num is 16 * r1 + r2, for BYTE it is *)
(*          the number of bytes and mode tells C'...' from X'...'; a size  *)
(*          or a start that is no number is the -1 of parseNum             *)
(*   x      does the operand end in ",X"                                   *)
(* A byte of an object program is a number; the characters of a constant   *)
(* count only by their position, the value of a hexadecimal one is zero.   *)
EXTENDS Integers, Sequences, SequencesExt, FiniteSets, Decode

CONSTANTS
  Symbols,    \* what labels and operands may be called
  None,       \* no label, no operation
  HexValue,   \* symbol -> parseNum of its letters, -1 if one is beyond F
  CXValue,    \* symbol -> the bytes a BASE with this operand puts out: <<>>
              \* unless the symbol begins with C or X
  TextBytes,  \* bytes of a text record, 30 in the code
  StackWord,  \* what the uninitialised BASE and text_record hold
  Sources     \* the programs that may be assembled

VARIABLES
  source,       \* the last .asm file assembled
  asm,          \* what assemble did with it
  temp_symbol   \* the table "symbol" prints

asmvars == <<source, asm, temp_symbol>>

-----------------------------------------------------------------------------
(* The operation table that main reads from opcode.txt, with the formats.  *)
Format1 == [FIX |-> 196, FLOAT |-> 192, HIO |-> 244, NORM |-> 200,
            SIO |-> 240, TIO |-> 248]

Format2 == [ADDR |-> 144, CLEAR |-> 180, COMPR |-> 160, DIVR |-> 156,
            MULR |-> 152, RMO |-> 172, SHIFTL |-> 164, SUBR |-> 148,
            SVC |-> 176, TIXR |-> 184]

Format34 ==
  [ADD |-> 24, ADDF |-> 88, AND |-> 64, COMP |-> 40, COMPF |-> 136,
   DIV |-> 36, DIVF |-> 100, J |-> 60, JEQ |-> 48, JGT |-> 52, JLT |-> 56,
   JSUB |-> 72, LDA |-> 0, LDB |-> 104, LDCH |-> 80, LDF |-> 112, LDL |-> 8,
   LDS |-> 108, LDT |-> 116, LDX |-> 4, LPS |-> 208, MUL |-> 32, MULF |-> 96,
   OR |-> 68, RD |-> 216, RSUB |-> 76, SSK |-> 236, STA |-> 12, STB |-> 120,
   STCH |-> 84, STF |-> 128, STI |-> 212, STL |-> 20, STS |-> 124,
   STSW |-> 232, STT |-> 132, STX |-> 16, SUB |-> 28, SUBF |-> 92, TD |-> 224,
   TIX |-> 44, WD |-> 220]

Directives == {"WORD", "RESW", "RESB", "BYTE", "BASE", "NOBASE"}

SourceLine ==
  [label: Symbols \cup {None}, op: STRING \cup {None}, plus: BOOLEAN,
   mode: {"0", "#", "@", "C", "X"},
   kind: {"sym", "num", "expr", "regs", "chars", "none"},
   sym: Symbols \cup {None}, num: Int, x: BOOLEAN]

\* tokenize makes the lines; what is missing in one is a "!", which is no name
\* of anything.
ASSUME SourceAssumption ==
  /\ TextBytes \in Nat \ {0} /\ StackWord \in Int
  /\ None \notin Symbols \cup Directives \cup {"START", "."}
       \cup DOMAIN Format1 \cup DOMAIN Format2 \cup DOMAIN Format34
  /\ HexValue \in [Symbols -> Int] /\ CXValue \in [Symbols -> Seq(Nat)]
  /\ \A src \in Sources :
       /\ src \in Seq(SourceLine) /\ src # <<>>
       /\ \A i \in DOMAIN src :
            /\ src[i].kind = "sym" => src[i].sym # None
            /\ src[i].op \in DOMAIN Format34 => src[i].mode \in {"0", "#", "@"}

IsInstruction(op) ==
  op \in DOMAIN Format1 \cup DOMAIN Format2 \cup DOMAIN Format34

\* The bytes of a line that is an instruction.
FormatOf(ln) ==
  CASE ln.op \in DOMAIN Format1 -> 1
    [] ln.op \in DOMAIN Format2 -> 2
    [] OTHER -> IF ln.plus THEN 4 ELSE 3

-----------------------------------------------------------------------------
(* Pass 1: addresses and the symbol table.                                 *)

\* By how much a line moves LOCCTR.
SizeOf(ln) ==
  CASE IsInstruction(ln.op)   -> FormatOf(ln)
    [] ln.op = "WORD"         -> 3
    [] ln.op = "RESW"         -> 3 * ln.num
    [] ln.op \in {"RESB", "BYTE"} -> ln.num
    [] OTHER                  -> 0

\* "Error! invalid operation code".
InvalidOperation(ln) ==
  /\ ~IsInstruction(ln.op)
  /\ ln.op # None
  /\ ln.op \notin Directives \/ ln.plus

\* A line of the intermediate file: the line, its address, the next one.
Pass1Line(s, ln) ==
  IF s.flag THEN s
  ELSE IF ln.op = "."
  THEN [s EXCEPT !.out = Append(@, [ln |-> ln, LOCCTR |-> s.PC, PC |-> s.PC])]
  ELSE IF \/ ln.label \in DOMAIN s.symtab      \* "Error! duplicate symbol"
          \/ InvalidOperation(ln)
  THEN [s EXCEPT !.flag = TRUE]
  ELSE LET next == s.PC + SizeOf(ln) IN
       [s EXCEPT !.symtab = IF ln.label = None THEN @
                            ELSE [l \in DOMAIN @ \cup {ln.label} |->
                                    IF l = ln.label THEN s.PC ELSE @[l]],
                 !.out = Append(@, [ln |-> ln, LOCCTR |-> s.PC, PC |-> next]),
                 !.PC = next]

\* The first line is read before the loop: its label is not entered and,
\* START or not, it moves nothing.
Pass1(src) ==
  LET start == IF Head(src).op = "START" THEN Head(src).num ELSE 0
  IN  FoldLeft(Pass1Line,
               [PC |-> start, start |-> start, symtab |-> <<>>, flag |-> FALSE,
                out |-> <<[ln |-> Head(src), LOCCTR |-> start, PC |-> start]>>],
               Tail(src))

-----------------------------------------------------------------------------
(* Pass 2: instruction codes, and the records of the object program.       *)

Bytes(w, n) == [j \in 1 .. n |-> (w \div 256^(n - j)) % 256]

Bit(b, n) == IF b THEN 2^n ELSE 0

\* n and i.
Addressing(mode) == CASE mode = "0" -> 3 [] mode = "#" -> 1 [] mode = "@" -> 2

\* A symbol in the operand of format 4: 49 << 20 sets e, and n and i too,
\* whatever the mode; the address is absolute.
ExtendedCode(ln, opcode, target) ==
  <<opcode + 3>> \o Bytes(Bit(ln.x, 23) + 2^20 + target, 3)

\* A symbol in the operand of format 3: relative to PC where 12 bits reach,
\* to BASE otherwise, without a look at how far BASE is.
\* Variant: 13 bits are taken to be enough.
InReach_Wide(d) == -4096 <= d /\ d <= 4095
InReach(d) == -2048 <= d /\ d <= 2047

RelativeCode(ln, opcode, target, PC, BASE) ==
  <<opcode + Addressing(ln.mode)>> \o
  Bytes(Bit(ln.x, 15) +
        (IF InReach(target - PC) THEN 2^13 + ((target - PC) % 4096)
         ELSE 2^14 + ((target - BASE) % 4096)), 2)

\* A number: immediate whatever the mode; ",X" sets bit 15 in both formats.
NumberCode(ln, opcode, num) ==
  <<opcode + 1>> \o
  (IF FormatOf(ln) = 4 THEN Bytes(2^20 + Bit(ln.x, 15) + num, 3)
   ELSE Bytes(Bit(ln.x, 15) + num, 2))

\* A ",X" at the end of an operand is cut off before the registers of format
\* 2 are looked at, so X as second register leaves zero.
RegisterCode(ln) == <<Format2[ln.op],
                      IF ln.x THEN 16 * (ln.num \div 16) ELSE ln.num>>

WideCode(ln, e, BASE, symtab) ==
  LET opcode == Format34[ln.op] IN
  CASE ln.kind = "none" ->
         <<opcode + 3>> \o (IF FormatOf(ln) = 4 THEN <<16, 0, 0>> ELSE <<0, 0>>)
    [] ln.kind = "num"  -> NumberCode(ln, opcode, ln.num)
    [] ln.kind = "sym" /\ ln.sym \in DOMAIN symtab ->
         IF FormatOf(ln) = 4 THEN ExtendedCode(ln, opcode, symtab[ln.sym])
         ELSE RelativeCode(ln, opcode, symtab[ln.sym], e.PC, BASE)
    [] ln.kind = "sym" /\ ln.sym \notin DOMAIN symtab ->
         NumberCode(ln, opcode, HexValue[ln.sym])
    [] OTHER -> <<>>

\* C'...' goes through one unsigned int that is shifted once too often: of
\* more than three characters only the last three are left.
CharBytes(n) == [j \in 1 .. n |-> IF j > n - 3 THEN j ELSE 0]

\* The test for BYTE or WORD lets everything but WORD through.
CodeOf(e, BASE, symtab) ==
  LET ln == e.ln IN
  CASE ln.op \in DOMAIN Format1  -> <<Format1[ln.op]>>
    [] ln.op \in DOMAIN Format2  -> RegisterCode(ln)
    [] ln.op \in DOMAIN Format34 -> WideCode(ln, e, BASE, symtab)
    [] ln.op = "BYTE" -> IF ln.mode = "C" THEN CharBytes(ln.num)
                         ELSE [j \in 1 .. ln.num |-> 0]
    [] ln.op = "BASE" -> CXValue[ln.sym]
    [] OTHER          -> <<>>

\* "Error! undefined symbol": of hexadecimal letters alone it passes for a
\* number.
Undefined(ln, symtab) ==
  /\ ln.sym \notin DOMAIN symtab
  /\ \/ ln.op = "BASE"
     \/ ln.op \in DOMAIN Format34 /\ ln.kind = "sym" /\ HexValue[ln.sym] = -1

\* Variant: RESB is forgotten.
Flush_Words(t, ln) ==
  IF ln.op = "RESW" /\ t.body # <<>>
  THEN [t EXCEPT !.written = Append(@, [loc |-> t.loc, length |-> Len(t.body),
                                        body |-> t.body]),
                 !.length = Len(t.body), !.body = <<>>]
  ELSE t

\* RESW and RESB end the record; its address and its length field stay.
Flush(t, ln) ==
  IF ln.op \in {"RESW", "RESB"} /\ t.body # <<>>
  THEN [t EXCEPT !.written = Append(@, [loc |-> t.loc, length |-> Len(t.body),
                                        body |-> t.body]),
                 !.length = Len(t.body), !.body = <<>>]
  ELSE t

\* A code that does not fit opens the next record, whose length field keeps
\* the old value until something is appended or the record is ended.  An
\* address is written with six digits.
Place(t, LOCCTR, code) ==
  IF code = <<>> THEN t
  ELSE IF t.body = <<>>
  THEN [t EXCEPT !.loc = LOCCTR % 2^24, !.body = code, !.length = Len(code)]
  ELSE IF Len(t.body) + Len(code) <= TextBytes
  THEN [t EXCEPT !.body = @ \o code, !.length = Len(t.body \o code)]
  ELSE [t EXCEPT !.written = Append(@, [loc |-> t.loc, length |-> Len(t.body),
                                        body |-> t.body]),
                 !.loc = LOCCTR % 2^24, !.body = code, !.length = Len(t.body)]

IsModified(ln, symtab) ==
  /\ ln.op \in DOMAIN Format34 /\ FormatOf(ln) = 4
  /\ ln.kind = "sym" /\ ln.sym \in DOMAIN symtab

Pass2Line(s, e) ==
  IF s.flag \/ Undefined(e.ln, s.symtab) THEN [s EXCEPT !.flag = TRUE]
  ELSE LET BASE == IF e.ln.op = "BASE" THEN s.symtab[e.ln.sym] ELSE s.BASE
           code == CodeOf(e, BASE, s.symtab)
       IN  [s EXCEPT !.BASE = BASE,
                     !.text = Place(Flush(@, e.ln), e.LOCCTR, code),
                     !.M = IF IsModified(e.ln, s.symtab)
                           THEN Append(@, e.LOCCTR + 1) ELSE @,
                     !.start = IF code # <<>> /\ @ = -1 THEN e.LOCCTR ELSE @]

\* A first line that is START makes the header; any other is assembled.
Pass2(p) ==
  LET header == Head(p.out).ln.op = "START" IN
  FoldLeft(Pass2Line,
           [BASE |-> StackWord, symtab |-> p.symtab, flag |-> FALSE, M |-> <<>>,
            start |-> -1, header |-> header,
            text |-> [written |-> <<>>, loc |-> StackWord, body |-> <<>>,
                      length |-> StackWord]],
           IF header THEN Tail(p.out) ELSE p.out)

\* The record in hand is written at END, begun or not.
TextRecords(t) ==
  Append(t.written, [loc |-> t.loc, length |-> t.length, body |-> t.body])

Assembled(src) ==
  LET p == Pass1(src)
      q == Pass2(p)
  IN  IF p.flag \/ q.flag THEN [ok |-> FALSE, symtab |-> <<>>]
      ELSE [ok |-> TRUE, symtab |-> p.symtab, header |-> q.header,
            length |-> p.PC - p.start, T |-> TextRecords(q.text), M |-> q.M,
            E |-> q.start, out |-> p.out]

-----------------------------------------------------------------------------
NotYet == [ok |-> FALSE, symtab |-> <<>>]

AsmInit == source = <<>> /\ asm = NotYet /\ temp_symbol = <<>>

\* A failed assembly leaves the table of the last successful one.
Assemble(src) ==
  /\ source' = src
  /\ asm' = Assembled(src)
  /\ temp_symbol' = IF asm'.ok THEN asm'.symtab ELSE temp_symbol

-----------------------------------------------------------------------------
(* What an assembled program has to be.                                    *)

\* BASE when line k of the intermediate file is assembled.
BaseAt(k) ==
  LET bases == {j \in 1 .. k : asm.out[j].ln.op = "BASE"} IN
  IF bases = {} THEN StackWord
  ELSE asm.symtab[asm.out[CHOOSE j \in bases : \A h \in bases : h <= j].ln.sym]

Code(k) == CodeOf(asm.out[k], BaseAt(k), asm.symtab)

AssembledLines == {k \in DOMAIN asm.out : asm.out[k].ln.op # "START"}

\* Programs without the lines whose code has another length than the room
\* pass 1 leaves (WORD, operands that are expressions, BASE with a symbol that
\* begins with C or X, a first line that is not START), without sizes that are
\* no numbers, constants longer than a record, and addresses of more than six
\* digits.
Regular ==
  /\ asm.header
  /\ \A k \in AssembledLines :
       LET ln == asm.out[k].ln IN
       /\ IF ln.op \in {"RESW", "RESB"} THEN ln.num >= 0
          ELSE Len(Code(k)) = SizeOf(ln) /\ SizeOf(ln) <= TextBytes
       /\ asm.out[k].LOCCTR \in 0 .. 2^24 - 1

BytesAt(loc, bytes) == {<<loc + j - 1, bytes[j]>> : j \in DOMAIN bytes}

\* pass2 regroups the code of the lines into records that are ended at RESW,
\* at RESB and when full: the records hold the code of every line at the
\* address pass 1 gave the line, each byte once, and none is too long.  All
\* records but the last say truly how long they are; the last one may still
\* have the length of the one before it.
CodePlaced ==
  asm.ok /\ Regular =>
    LET T == asm.T
        image == UNION {BytesAt(asm.out[k].LOCCTR, Code(k)) : k \in AssembledLines}
    IN  /\ UNION {BytesAt(T[r].loc, T[r].body) : r \in DOMAIN T} = image
        /\ FoldLeft(LAMBDA n, t : n + Len(t.body), 0, T) = Cardinality(image)
        /\ \A r \in DOMAIN T : Len(T[r].body) <= TextBytes
        /\ \A r \in 1 .. Len(T) - 1 :
             T[r].body # <<>> /\ T[r].length = Len(T[r].body)

\* The machine adds up at run time what pass 2 took apart: an operand that is
\* a symbol comes back as the address of the symbol, from PC, from BASE where
\* PC does not reach, or from the 20 bits of format 4 if they can hold it.  It
\* also comes back with its addressing mode in format 3 and with its index bit.
OperandsResolve ==
  asm.ok => \A k \in AssembledLines :
    LET e == asm.out[k]
        c == Code(k) \o <<0>>
        f == FieldsOf(c[1], c[2])
        target == asm.symtab[e.ln.sym]
    IN  /\ e.ln.op \in DOMAIN Format34
        /\ e.ln.kind = "sym" /\ e.ln.sym \in DOMAIN asm.symtab
        /\ IF FormatOf(e.ln) = 4 THEN target \in 0 .. 2^20 - 1
           ELSE InReach(target - e.PC) \/ InReach(target - BaseAt(k))
        => /\ OperandAddress(f, c[2], c[3], c[4], e.PC, BaseAt(k), 0) = target
           /\ f.e = (FormatOf(e.ln) = 4) /\ f.x = e.ln.x
           /\ ~f.e => Addressing(e.ln.mode) = (IF f.n THEN 2 ELSE 0) + (IF f.i THEN 1 ELSE 0)
=============================================================================
