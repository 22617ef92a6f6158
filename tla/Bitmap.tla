-------------------------------- MODULE Bitmap --------------------------------
(* lib/kernel/bitmap.c and the commands of os#0's main.c that work on it.  *)
(* An element of the array is the set of the bits it has turned on.        *)
(*                                                                         *)
(* bitmap_mark, bitmap_reset and bitmap_flip are one instruction on 32     *)
(* bits.  Where unsigned long has 64, the upper half of each element is    *)
(* out of their reach and holds what malloc returned.                      *)
(*                                                                         *)
(* Bitmaps share nothing, so there is one.  The number of the bitmap that  *)
(* bitmap_expand works on is taken from an array nobody has set: it may or *)
(* may not be this one.                                                    *)
EXTENDS Integers, FiniteSets, SequencesExt

CONSTANTS
  ElemBits,  \* of an elem_type
  OpBits,    \* that an instruction reaches
  MaxBits    \* bound of a bitmap's size

ASSUME BitmapAssumption ==
  ElemBits \in Nat \ {0} /\ OpBits \in 1 .. ElemBits /\ MaxBits \in Nat

VARIABLES
  bit_cnt,
  bits,    \* element number -> the bits turned on
  given    \* the last command, with its arguments

bitvars == <<bit_cnt, bits, given>>

Reached == {i \in 0 .. MaxBits - 1 : i % ElemBits < OpBits}

ElemIdx(i) == i \div ElemBits
BitMask(i) == {i % ElemBits}
ElemCnt(n) == (n + ElemBits - 1) \div ElemBits

Test(B, i) == BitMask(i) \cap B[ElemIdx(i)] # {}

\* The operand of an instruction.
Operand(i) == BitMask(i) \cap 0 .. OpBits - 1

Mark(B, i)  == [B EXCEPT ![ElemIdx(i)] = @ \cup Operand(i)]
Reset(B, i) == [B EXCEPT ![ElemIdx(i)] = @ \ Operand(i)]
SetBit(B, i, value) == IF value THEN Mark(B, i) ELSE Reset(B, i)

\* bitmap_set_multiple: one bit after the other.
SetMultiple(B, start, cnt, value) ==
  FoldLeft(LAMBDA C, i : SetBit(C, start + i - 1, value), B, [i \in 1 .. cnt |-> i])

BitmapContains(start, cnt, value) == \E i \in start .. start + cnt - 1 : Test(bits, i) = value

\* Variant: the last place is not tried.
Tried_Short(start, cnt) == start .. bit_cnt - cnt - 1

\* The places bitmap_scan tries, in this order.
Tried(start, cnt) == start .. bit_cnt - cnt

\* bitmap_scan: a set of one place, or of none for BITMAP_ERROR.
Scan(start, cnt, value) ==
  LET free == {i \in Tried(start, cnt) : ~BitmapContains(i, cnt, ~value)}
  IN  {i \in free : \A j \in free : i <= j}

\* malloc's block, as far as anybody reads it.
Blocks(n) ==
  {[e \in 0 .. ElemCnt(n) - 1 |-> {i % ElemBits : i \in {j \in S : ElemIdx(j) = e}}] :
     S \in SUBSET (0 .. n - 1)}

\* What bitmap_create returns.
Created(n) == {SetMultiple(B, 0, n, FALSE) : B \in Blocks(n)}

-----------------------------------------------------------------------------
(* The commands.  "delete" frees a bitmap; only "create" may follow.       *)

BitInit == bit_cnt = 0 /\ bits = <<>> /\ given = <<"none">>

BitmapCreate(n) ==
  /\ given' = <<"create", n>>
  /\ bit_cnt' = n
  /\ bits' \in Created(n)

\* bitmap_mark, bitmap_reset and bitmap_set for one bit, bitmap_set_all for
\* all of them.
BitmapSet(start, cnt, value) ==
  /\ start + cnt <= bit_cnt
  /\ given' = <<"set", start, cnt, value>>
  /\ bits' = SetMultiple(bits, start, cnt, value)
  /\ UNCHANGED bit_cnt

BitmapFlip(i) ==
  /\ i < bit_cnt
  /\ given' = <<"flip", i>>
  /\ bits' = [bits EXCEPT ![ElemIdx(i)] = (@ \ Operand(i)) \cup (Operand(i) \ @)]
  /\ UNCHANGED bit_cnt

BitmapScanAndFlip(start, cnt, value) ==
  /\ start <= bit_cnt
  /\ given' = <<"scan and flip", start, cnt, value>>
  /\ \/ Scan(start, cnt, value) = {} /\ UNCHANGED bits
     \/ \E idx \in Scan(start, cnt, value) : bits' = SetMultiple(bits, idx, cnt, ~value)
  /\ UNCHANGED bit_cnt

BitmapExpand(n) ==
  /\ bit_cnt + n <= MaxBits
  /\ given' = <<"expand", n>>
  /\ bit_cnt' = bit_cnt + n
  /\ \E B \in Created(bit_cnt + n) :
       bits' = FoldLeft(LAMBDA C, i : SetBit(C, i - 1, Test(bits, i - 1)), B,
                        [i \in 1 .. bit_cnt |-> i])

BitmapCommand ==
  \/ \E n \in 0 .. MaxBits : BitmapCreate(n) \/ BitmapExpand(n)
  \/ \E i \in 0 .. MaxBits - 1 : BitmapFlip(i)
  \/ \E start, cnt \in 0 .. MaxBits, value \in BOOLEAN :
       BitmapSet(start, cnt, value) \/ BitmapScanAndFlip(start, cnt, value)

BitSpec == BitInit /\ [][BitmapCommand]_bitvars

\* "A bitmap is an array of bits": through elements and masks, every command
\* does to the set of marked bits what it says, scan_and_flip takes the first
\* group there is, and a bit no instruction reaches is never changed but by
\* the memory a new bitmap is made of.
Bits == INSTANCE BitSets WITH size <- bit_cnt, marked <- {i \in 0 .. bit_cnt - 1 : Test(bits, i)}
BitmapsImplementSets == Bits!Spec
=============================================================================
