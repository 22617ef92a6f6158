----------------------------- MODULE MCSimulator -----------------------------
(* Sessions of MaxCommands commands over six object programs: one that counts *)
(* to two and returns, one that calls another, the other, one that defines    *)
(* a name of the other's again, one with an undefined reference, and one that *)
(* names itself in text records that overlap its neighbour.                   *)
(* They assemble a source before or between; one of the sources of up to      *)
(* Longest lines after START is assembled for itself.                         *)
EXTENDS Simulator

CONSTANT Longest

Object(n, len, D, R, T, M, E) ==
  [name |-> n, length |-> len, D |-> D, R |-> R, T |-> T, M |-> M, E |-> E]
Def(s, a) == [sym |-> s, addr |-> a]
Ref(k, s) == [ref |-> k, sym |-> s]
Text(l, b) == [loc |-> l, length |-> Len(b), body |-> b]
Mod(l, h, s, r) == [loc |-> l, half |-> h, sign |-> s, ref |-> r]

Counter ==
  Object("COUNT", 25, <<>>, <<>>,
         <<Text(0, <<23, 32, 16,  180, 16,  117, 0, 2,  184, 80>>),
           Text(10, <<59, 47, 251,  19, 32, 6,  62, 32, 0>>)>>, <<>>, 0)
Caller ==
  Object("MAIN", 16, <<>>, <<Ref(2, "SUBR"), Ref(3, "ENDS")>>,
         <<Text(0, <<23, 32, 10,  75, 16, 0, 0,  62, 32, 3>>), Text(10, <<0, 0, 1>>)>>,
         <<Mod(4, 5, "+", 2), Mod(10, 6, "+", 3), Mod(10, 6, "-", 2)>>, 0)
Callee ==
  Object("SUB", 6, <<Def("SUBR", 0), Def("ENDS", 6)>>, <<>>,
         <<Text(0, <<1, 0, 5,  79, 0, 0>>)>>, <<Mod(1, 5, "+", 1), Mod(1, 5, "-", 1)>>, NoEntry)
Twice == Object("AGAIN", 3, <<Def("SUBR", 0)>>, <<>>, <<Text(0, <<9, 9, 9>>)>>, <<>>, NoEntry)
Lost  == Object("LOST", 6, <<>>, <<Ref(2, "NOWHERE")>>, <<Text(0, <<1, 2, 3, 4, 5, 6>>)>>,
                <<Mod(3, 6, "+", 1), Mod(0, 6, "+", 2)>>, NoEntry)
Section == Object("SUBR", 3, <<>>, <<>>, <<Text(0, <<8, 8, 8>>)>>, <<Mod(0, 6, "-", 1)>>, BareEntry)

MCObjects == [f \in {"count", "main", "sub", "twice", "lost", "section"} |->
                CASE f = "count" -> Counter [] f = "main" -> Caller [] f = "sub" -> Callee
                  [] f = "twice" -> Twice [] f = "lost" -> Lost [] f = "section" -> Section]

MCLoadLists == {<<"count">>, <<"main", "sub">>, <<"sub", "main">>, <<"main", "sub", "twice">>,
                <<"count", "lost">>, <<"sub", "none">>, <<"sub", "section">>,
                <<"section", "main", "sub">>, <<"own.obj">>}

Line(l, o, p, m, k, s, n, i) ==
  [label |-> l, op |-> o, plus |-> p, mode |-> m, kind |-> k, sym |-> s, num |-> n, x |-> i]
Plain(o, k, n) == Line(None, o, FALSE, "0", k, None, n, FALSE)
MCContinued ==
  {<<Plain("START", "num", 0), Plain("CLEAR", "regs", 16), Plain("RSUB", "none", 0)>>,
   <<Plain("START", "num", 0), Line("A", "RSUB", TRUE, "0", "none", None, 0, FALSE),
     Line(None, "STA", TRUE, "0", "sym", "A", 0, FALSE)>>,
   <<Plain("START", "num", 0), Plain("RES", "none", 0)>>}

Labels == {None, "A", "CONST"}

MCSymbols  == {"A", "CONST", "CNT"}
MCHexValue == [s \in MCSymbols |-> IF s = "A" THEN 10 ELSE -1]
MCCXValue  == [s \in MCSymbols |-> IF s = "CONST" THEN <<1, 2>> ELSE <<>>]

\* Far reservations put symbols out of the reach of PC.
Lines ==
  {Line(l, "RESB", FALSE, "0", "num", None, n, FALSE) : l \in Labels, n \in {1, 3000}}
  \cup {Line(None, "LDA", FALSE, m, "sym", s, 0, FALSE) :
          m \in {"#", "@", "0"}, s \in {"A", "CONST"}}
  \cup {Line("A", "STCH", TRUE, "0", "sym", "CONST", 0, TRUE),
        Line(None, "BASE", FALSE, "0", "sym", "A", 0, FALSE),
        Line(None, "BASE", FALSE, "0", "sym", "CONST", 0, FALSE),
        Line("A", "RESB", FALSE, "0", "num", None, -1, FALSE),
        Line("CONST", "CLEAR", FALSE, "0", "regs", None, 16, FALSE),
        Line("A", "BYTE", FALSE, "C", "chars", None, 5, FALSE),
        Line(None, "LDT", TRUE, "#", "num", None, 4096, FALSE),
        Line("CONST", "RSUB", FALSE, "0", "none", None, 0, FALSE),
        Line(None, "WORD", FALSE, "0", "num", None, 5, FALSE),
        Line(None, "RES", FALSE, "0", "none", None, 0, FALSE),
        Line(None, ".", FALSE, "0", "none", None, 0, FALSE)}

MCSources == MCContinued \cup
  {<<Plain("START", "num", n)>> \o s : n \in {0, 4096}, s \in SeqOf(Lines, Longest)}
=============================================================================
