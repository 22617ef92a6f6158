-------------------------------- MODULE Decode --------------------------------
(* How run (CSE4100, proj3/20161559.h) takes an instruction of format 3 or *)
(* 4 apart: the six bits nixbpe over its first two bytes, and the address  *)
(* its operand names.                                                      *)
EXTENDS Integers

BitOf(w, j) == (w \div 2^j) % 2 = 1

FieldsOf(b0, b1) ==
  [n |-> BitOf(b0, 1), i |-> BitOf(b0, 0), x |-> BitOf(b1, 7),
   b |-> BitOf(b1, 6), p |-> BitOf(b1, 5), e |-> BitOf(b1, 4)]

\* The 20 bits of format 4; the 12 bits of format 3 with their sign, also
\* where they are added to B.
Displacement(f, b1, b2, b3) ==
  IF f.e THEN (b1 % 16) * 65536 + b2 * 256 + b3
  ELSE LET d == (b1 % 16) * 256 + b2 IN IF d >= 2048 THEN d - 4096 ELSE d

OperandAddress(f, b1, b2, b3, PC, B, X) ==
  Displacement(f, b1, b2, b3)
  + (IF f.p THEN PC ELSE IF f.b THEN B ELSE 0)
  + (IF f.x THEN X ELSE 0)
=============================================================================
