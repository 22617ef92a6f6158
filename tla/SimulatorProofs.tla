---------------------------- MODULE SimulatorProofs ----------------------------
(* Theorems about the assembler and the loader of Simulator, for any        *)
(* symbols, sources, object programs and length of text records:            *)
(* OperandsResolve, CodePlaced and LoadsOrLeaves.  First what a fold over a *)
(* sequence comes to, then what pass 1 and pass 2 of assemble keep from     *)
(* line to line and its two properties; then what the passes of loader keep *)
(* from record to record and from file to file, the type of the machine,    *)
(* and what a loader command leaves.                                        *)
EXTENDS Simulator, SequenceTheorems, FiniteSetTheorems, WellFoundedInduction, TLAPS

-----------------------------------------------------------------------------
(* Folds.                                                                  *)

LEMMA Least ==
  ASSUME NEW S \in SUBSET Nat, S # {}
  PROVE  \E m \in S : \A i \in S : m <= i
<1> DEFINE R == OpToRel(<, Nat)
<1>1. PICK m \in S : \A i \in S : ~(<<i, m>> \in R)
  BY NatLessThanWellFounded, WFMin
<1>2. ASSUME NEW i \in S, i < m PROVE FALSE
  BY <1>1, <1>2 DEF OpToRel
<1> QED BY <1>2

LEMMA Upwards ==
  ASSUME NEW n \in Nat, NEW P, 0 \in P, \A i \in 1..n : i - 1 \in P => i \in P
  PROVE  \A i \in 0..n : i \in P
<1> DEFINE Bad == {i \in 0..n : i \notin P}
<1>1. SUFFICES ASSUME Bad # {} PROVE FALSE
  OBVIOUS
<1>2. Bad \in SUBSET Nat
  OBVIOUS
<1> HIDE DEF Bad
<1>3. PICK i \in Bad : \A j \in Bad : i <= j
  BY <1>1, <1>2, Least
<1>4. i \in 1..n /\ i \notin P
  BY <1>3 DEF Bad
<1>5. i - 1 \in Bad
  BY <1>4 DEF Bad
<1> QED BY <1>3, <1>4, <1>5

LEMMA Greatest ==
  ASSUME NEW n \in Nat, NEW s \in SUBSET (1..n), s # {}
  PROVE  Max(s) \in s /\ \A i \in s : i <= Max(s)
<1> DEFINE Down == {n - i : i \in s}
<1>1. Down \in SUBSET Nat /\ Down # {}
  <2>1. \A i \in s : i \in 1..n /\ n - i \in Nat
    OBVIOUS
  <2> QED BY <2>1
<1> HIDE DEF Down
<1>2. PICK d \in Down : \A e \in Down : d <= e
  BY <1>1, Least
<1>3. PICK m \in s : d = n - m
  BY DEF Down
<1>4. ASSUME NEW i \in s PROVE m >= i
  <2>1. n - i \in Down /\ i \in 1..n /\ m \in 1..n
    BY DEF Down
  <2> QED BY <1>2, <1>3, <2>1
<1>5. \E x \in s : \A i \in s : x >= i
  BY <1>4
<1>6. Max(s) \in s /\ \A i \in s : Max(s) >= i
  BY <1>5 DEF Max
<1>7. \A i \in s : i \in Nat
  OBVIOUS
<1> QED BY <1>6, <1>7

LEMMA GreatestUnique ==
  ASSUME NEW n \in Nat, NEW s \in SUBSET (1..n), NEW m \in s, \A i \in s : i <= m
  PROVE  Max(s) = m
<1>1. PICK x \in s : x = Max(s) /\ \A i \in s : i <= x
  BY Greatest
<1>2. x \in Int /\ m \in Int /\ m <= x /\ x <= m
  BY <1>1
<1>3. x = m
  BY <1>2
<1> QED BY <1>1, <1>3

(* FoldLeft chooses a function of this kind, from the sets of indices; step *)
(* is what the folded operator does to a pair.                             *)
Solves(g, step, base, seq, n) ==
  g = [s \in SUBSET (1..n) |->
         IF s = {} THEN base ELSE step[<<g[s \ {Max(s)}], seq[Max(s)]>>]]

LEMMA SolutionExists ==
  ASSUME NEW S, NEW L, NEW step \in [S \X L -> S], NEW base \in S,
         NEW n \in Nat, NEW seq \in [1..n -> L]
  PROVE  \E g \in [SUBSET (1..n) -> S] : Solves(g, step, base, seq, n)
<1> DEFINE P == {k \in 0..n : \E g \in [SUBSET (1..k) -> S] : Solves(g, step, base, seq, k)}
<1>1. 0 \in P
  <2>1. PICK k \in 0..n : k = 0
    OBVIOUS
  <2>2. \A s \in SUBSET (1..k) : s = {}
    BY <2>1
  <2> DEFINE g == [s \in SUBSET (1..k) |-> base]
             y(s) == IF s = {} THEN base ELSE step[<<g[s \ {Max(s)}], seq[Max(s)]>>]
  <2>3. g \in [SUBSET (1..k) -> S]
    OBVIOUS
  <2>4. \A s \in SUBSET (1..k) : y(s) = base
    BY <2>2
  <2> HIDE DEF y
  <2>5. g = [s \in SUBSET (1..k) |-> y(s)]
    BY <2>4
  <2> HIDE DEF g
  <2>6. Solves(g, step, base, seq, k)
    BY <2>5 DEF Solves, y
  <2>7. k \in P
    BY <2>3, <2>6
  <2> QED BY <2>1, <2>7
<1>2. ASSUME NEW k \in 1..n, k - 1 \in P PROVE k \in P
  <2>1. PICK h \in [SUBSET (1..k - 1) -> S] : Solves(h, step, base, seq, k - 1)
    BY <1>2
  <2> DEFINE g == [s \in SUBSET (1..k) |->
                     IF k \in s THEN step[<<h[s \ {k}], seq[k]>>] ELSE h[s]]
  <2>2. ASSUME NEW s \in SUBSET (1..k)
        PROVE  /\ k \in s => s \ {k} \in SUBSET (1..k - 1)
               /\ k \notin s => s \in SUBSET (1..k - 1)
    OBVIOUS
  <2>3. g \in [SUBSET (1..k) -> S]
    BY <2>2
  <2>4. ASSUME NEW s \in SUBSET (1..k)
        PROVE  g[s] = IF s = {} THEN base ELSE step[<<g[s \ {Max(s)}], seq[Max(s)]>>]
    <3>1. CASE k \in s
      <4>1. Max(s) = k
        <5>1. k \in Nat /\ s \in SUBSET (1..k) /\ \A i \in s : i <= k
          OBVIOUS
        <5> QED BY <3>1, <5>1, GreatestUnique
      <4>2. s \ {k} \in SUBSET (1..k - 1) /\ s \ {k} \in SUBSET (1..k)
        OBVIOUS
      <4>3. g[s \ {k}] = h[s \ {k}]
        BY <4>2
      <4> QED BY <3>1, <4>1, <4>3
    <3>2. CASE k \notin s
      <4>1. s \in SUBSET (1..k - 1)
        BY <3>2
      <4>2. h[s] = IF s = {} THEN base ELSE step[<<h[s \ {Max(s)}], seq[Max(s)]>>]
        BY <2>1, <4>1 DEF Solves
      <4>3. s \ {Max(s)} \in SUBSET (1..k) /\ k \notin s \ {Max(s)}
        BY <3>2
      <4>4. g[s] = h[s] /\ g[s \ {Max(s)}] = h[s \ {Max(s)}]
        BY <3>2, <4>3
      <4> QED BY <4>2, <4>4
    <3> QED BY <3>1, <3>2
  <2>5. g = [s \in SUBSET (1..k) |-> g[s]]
    OBVIOUS
  <2> HIDE DEF g
  <2>6. Solves(g, step, base, seq, k)
    BY <2>4, <2>5 DEF Solves
  <2> QED BY <2>3, <2>6
<1> HIDE DEF P
<1>3. \A k \in 1..n : k - 1 \in P => k \in P
  BY <1>2
<1>4. \A k \in 0..n : k \in P
  BY <1>1, <1>3, Upwards
<1>5. n \in P
  BY <1>4
<1> QED BY <1>5 DEF P

(* h goes from base through the states the folded operator leaves behind   *)
(* the elements of a sequence of n.                                        *)
Pass1Chain(h, base, seq) ==
  h[0] = base /\ \A i \in 1..Len(seq) : h[i] = Pass1Line(h[i - 1], seq[i])

Pass1Run(base, seq) == FoldLeft(Pass1Line, base, seq)

\* The fold of pass 1 is the end of such a chain, and whatever set every line
\* keeps the state in has the whole chain.
LEMMA Pass1Fold ==
  ASSUME NEW S, NEW L, NEW base \in S, NEW seq \in Seq(L),
         \A s \in S, l \in L : Pass1Line(s, l) \in S
  PROVE  \E h \in [0..Len(seq) -> S] :
           /\ Pass1Chain(h, base, seq)
           /\ Pass1Run(base, seq) = h[Len(seq)]
<1> DEFINE n == Len(seq)
           step == [p \in S \X L |-> Pass1Line(p[1], p[2])]
           y(g, s) == IF s = {} THEN base ELSE Pass1Line(g[s \ {Max(s)}], seq[Max(s)])
           P(g) == g = [s \in SUBSET (DOMAIN seq) |-> y(g, s)]
<1>1. n \in Nat /\ DOMAIN seq = 1..n /\ seq \in [1..n -> L]
  BY LenProperties
<1>2. Pass1Run(base, seq) = (CHOOSE g : P(g))[DOMAIN seq]
  BY DEF Pass1Run, FoldLeft, MapThenFoldSet
<1>3. step \in [S \X L -> S] /\ \A s \in S, l \in L : step[<<s, l>>] = Pass1Line(s, l)
  OBVIOUS
<1> HIDE DEF n, step
<1>4. PICK f \in [SUBSET (1..n) -> S] : Solves(f, step, base, seq, n)
  BY <1>1, <1>3, SolutionExists
<1>5. ASSUME NEW s \in SUBSET (1..n), s # {}
      PROVE  /\ Max(s) \in 1..n /\ Max(s) \in s
             /\ s \ {Max(s)} \in SUBSET (1..n)
  BY <1>1, <1>5, Greatest
<1>6. ASSUME NEW s \in SUBSET (1..n) PROVE f[s] = y(f, s)
  <2>1. CASE s = {}
    BY <1>4, <2>1 DEF Solves
  <2>2. CASE s # {}
    <3>1. f[s] = step[<<f[s \ {Max(s)}], seq[Max(s)]>>]
      BY <1>4, <2>2 DEF Solves
    <3>2. f[s \ {Max(s)}] \in S /\ seq[Max(s)] \in L
      BY <1>1, <1>4, <1>5, <2>2
    <3> QED BY <1>3, <2>2, <3>1, <3>2
  <2> QED BY <2>1, <2>2
<1>7. P(f)
  <2>1. f = [s \in SUBSET (1..n) |-> f[s]]
    BY <1>4
  <2> HIDE DEF y
  <2> QED BY <1>1, <1>6, <2>1
<1> HIDE DEF P
<1>8. PICK g : g = (CHOOSE x : P(x)) /\ P(g)
  BY <1>7
<1>9. \A s \in SUBSET (1..n) : g[s] = y(g, s)
  <2> HIDE DEF y
  <2> QED BY <1>1, <1>8 DEF P
<1> DEFINE h == [i \in 0..n |-> g[1..i]]
<1>10. h[0] = base
  <2>1. 1..0 = {} /\ 1..0 \in SUBSET (1..n) /\ 0 \in 0..n
    BY <1>1
  <2> QED BY <1>9, <2>1
<1>11. ASSUME NEW i \in 1..n PROVE h[i] = Pass1Line(h[i - 1], seq[i])
  <2>1. /\ i \in Nat /\ i - 1 \in 0..n /\ i \in 0..n
        /\ 1..i \in SUBSET (1..n) /\ 1..i # {}
    <3>1. i \in Nat /\ i - 1 \in 0..n /\ i \in 0..n /\ i \in 1..i
      BY <1>1
    <3>2. \A j \in 1..i : j \in 1..n
      BY <1>1, <3>1
    <3> QED BY <3>1, <3>2
  <2>2. Max(1..i) = i
    <3>1. 1..i \in SUBSET (1..i) /\ i \in 1..i /\ \A j \in 1..i : j <= i
      BY <2>1
    <3> QED BY <2>1, <3>1, GreatestUnique
  <2>3. (1..i) \ {i} = 1..(i - 1)
    BY <2>1
  <2>4. g[1..i] = Pass1Line(g[(1..i) \ {i}], seq[i])
    BY <1>9, <2>1, <2>2
  <2> QED BY <2>1, <2>3, <2>4
<1>12. h[n] = Pass1Run(base, seq)
  BY <1>1, <1>2, <1>8
<1>13. \A i \in 0..n : h[i] \in S
  <2> DEFINE In == {i \in 0..n : h[i] \in S}
  <2> HIDE DEF h
  <2>1. 0 \in In
    BY <1>1, <1>10
  <2>2. ASSUME NEW i \in 1..n, i - 1 \in In PROVE i \in In
    BY <1>1, <1>11, <2>2
  <2> HIDE DEF In
  <2>3. \A i \in 0..n : i \in In
    BY <1>1, <2>1, <2>2, Upwards
  <2> QED BY <2>3 DEF In
<1>14. h \in [0..n -> S]
  BY <1>13
<1> HIDE DEF h
<1>15. Pass1Chain(h, base, seq)
  BY <1>10, <1>11 DEF Pass1Chain, n
<1> QED BY <1>12, <1>14, <1>15 DEF n

Pass2Chain(h, base, seq) ==
  h[0] = base /\ \A i \in 1..Len(seq) : h[i] = Pass2Line(h[i - 1], seq[i])

Pass2Run(base, seq) == FoldLeft(Pass2Line, base, seq)

AddLength(k, t) == k + Len(t.body)

(* The sum of the lengths of records, as CodePlaced has it.                *)
TotalLength(seq) == FoldLeft(LAMBDA k, t : k + Len(t.body), 0, seq)

LengthChain(h, base, seq) ==
  h[0] = base /\ \A i \in 1..Len(seq) : h[i] = AddLength(h[i - 1], seq[i])

\* The same for pass 2.
LEMMA Pass2Fold ==
  ASSUME NEW S, NEW L, NEW base \in S, NEW seq \in Seq(L),
         \A s \in S, l \in L : Pass2Line(s, l) \in S
  PROVE  \E h \in [0..Len(seq) -> S] :
           /\ Pass2Chain(h, base, seq)
           /\ Pass2Run(base, seq) = h[Len(seq)]
<1> DEFINE n == Len(seq)
           step == [p \in S \X L |-> Pass2Line(p[1], p[2])]
           y(g, s) == IF s = {} THEN base ELSE Pass2Line(g[s \ {Max(s)}], seq[Max(s)])
           P(g) == g = [s \in SUBSET (DOMAIN seq) |-> y(g, s)]
<1>1. n \in Nat /\ DOMAIN seq = 1..n /\ seq \in [1..n -> L]
  BY LenProperties
<1>2. Pass2Run(base, seq) = (CHOOSE g : P(g))[DOMAIN seq]
  BY DEF Pass2Run, FoldLeft, MapThenFoldSet
<1>3. step \in [S \X L -> S] /\ \A s \in S, l \in L : step[<<s, l>>] = Pass2Line(s, l)
  OBVIOUS
<1> HIDE DEF n, step
<1>4. PICK f \in [SUBSET (1..n) -> S] : Solves(f, step, base, seq, n)
  BY <1>1, <1>3, SolutionExists
<1>5. ASSUME NEW s \in SUBSET (1..n), s # {}
      PROVE  /\ Max(s) \in 1..n /\ Max(s) \in s
             /\ s \ {Max(s)} \in SUBSET (1..n)
  BY <1>1, <1>5, Greatest
<1>6. ASSUME NEW s \in SUBSET (1..n) PROVE f[s] = y(f, s)
  <2>1. CASE s = {}
    BY <1>4, <2>1 DEF Solves
  <2>2. CASE s # {}
    <3>1. f[s] = step[<<f[s \ {Max(s)}], seq[Max(s)]>>]
      BY <1>4, <2>2 DEF Solves
    <3>2. f[s \ {Max(s)}] \in S /\ seq[Max(s)] \in L
      BY <1>1, <1>4, <1>5, <2>2
    <3> QED BY <1>3, <2>2, <3>1, <3>2
  <2> QED BY <2>1, <2>2
<1>7. P(f)
  <2>1. f = [s \in SUBSET (1..n) |-> f[s]]
    BY <1>4
  <2> HIDE DEF y
  <2> QED BY <1>1, <1>6, <2>1
<1> HIDE DEF P
<1>8. PICK g : g = (CHOOSE x : P(x)) /\ P(g)
  BY <1>7
<1>9. \A s \in SUBSET (1..n) : g[s] = y(g, s)
  <2> HIDE DEF y
  <2> QED BY <1>1, <1>8 DEF P
<1> DEFINE h == [i \in 0..n |-> g[1..i]]
<1>10. h[0] = base
  <2>1. 1..0 = {} /\ 1..0 \in SUBSET (1..n) /\ 0 \in 0..n
    BY <1>1
  <2> QED BY <1>9, <2>1
<1>11. ASSUME NEW i \in 1..n PROVE h[i] = Pass2Line(h[i - 1], seq[i])
  <2>1. /\ i \in Nat /\ i - 1 \in 0..n /\ i \in 0..n
        /\ 1..i \in SUBSET (1..n) /\ 1..i # {}
    <3>1. i \in Nat /\ i - 1 \in 0..n /\ i \in 0..n /\ i \in 1..i
      BY <1>1
    <3>2. \A j \in 1..i : j \in 1..n
      BY <1>1, <3>1
    <3> QED BY <3>1, <3>2
  <2>2. Max(1..i) = i
    <3>1. 1..i \in SUBSET (1..i) /\ i \in 1..i /\ \A j \in 1..i : j <= i
      BY <2>1
    <3> QED BY <2>1, <3>1, GreatestUnique
  <2>3. (1..i) \ {i} = 1..(i - 1)
    BY <2>1
  <2>4. g[1..i] = Pass2Line(g[(1..i) \ {i}], seq[i])
    BY <1>9, <2>1, <2>2
  <2> QED BY <2>1, <2>3, <2>4
<1>12. h[n] = Pass2Run(base, seq)
  BY <1>1, <1>2, <1>8
<1>13. \A i \in 0..n : h[i] \in S
  <2> DEFINE In == {i \in 0..n : h[i] \in S}
  <2> HIDE DEF h
  <2>1. 0 \in In
    BY <1>1, <1>10
  <2>2. ASSUME NEW i \in 1..n, i - 1 \in In PROVE i \in In
    BY <1>1, <1>11, <2>2
  <2> HIDE DEF In
  <2>3. \A i \in 0..n : i \in In
    BY <1>1, <2>1, <2>2, Upwards
  <2> QED BY <2>3 DEF In
<1>14. h \in [0..n -> S]
  BY <1>13
<1> HIDE DEF h
<1>15. Pass2Chain(h, base, seq)
  BY <1>10, <1>11 DEF Pass2Chain, n
<1> QED BY <1>12, <1>14, <1>15 DEF n

\* The same for the sum of the lengths of records.
LEMMA LengthFold ==
  ASSUME NEW S, NEW L, 0 \in S, NEW seq \in Seq(L),
         \A s \in S, l \in L : AddLength(s, l) \in S
  PROVE  \E h \in [0..Len(seq) -> S] :
           /\ LengthChain(h, 0, seq)
           /\ TotalLength(seq) = h[Len(seq)]
<1> DEFINE n == Len(seq)
           step == [p \in S \X L |-> AddLength(p[1], p[2])]
           y(g, s) == IF s = {} THEN 0 ELSE AddLength(g[s \ {Max(s)}], seq[Max(s)])
           P(g) == g = [s \in SUBSET (DOMAIN seq) |-> y(g, s)]
<1>1. n \in Nat /\ DOMAIN seq = 1..n /\ seq \in [1..n -> L]
  BY LenProperties
<1>2. TotalLength(seq) = (CHOOSE g : P(g))[DOMAIN seq]
  BY DEF TotalLength, FoldLeft, MapThenFoldSet, AddLength
<1>3. step \in [S \X L -> S] /\ \A s \in S, l \in L : step[<<s, l>>] = AddLength(s, l)
  OBVIOUS
<1> HIDE DEF n, step
<1>4. PICK f \in [SUBSET (1..n) -> S] : Solves(f, step, 0, seq, n)
  BY <1>1, <1>3, SolutionExists
<1>5. ASSUME NEW s \in SUBSET (1..n), s # {}
      PROVE  /\ Max(s) \in 1..n /\ Max(s) \in s
             /\ s \ {Max(s)} \in SUBSET (1..n)
  BY <1>1, <1>5, Greatest
<1>6. ASSUME NEW s \in SUBSET (1..n) PROVE f[s] = y(f, s)
  <2>1. CASE s = {}
    BY <1>4, <2>1 DEF Solves
  <2>2. CASE s # {}
    <3>1. f[s] = step[<<f[s \ {Max(s)}], seq[Max(s)]>>]
      BY <1>4, <2>2 DEF Solves
    <3>2. f[s \ {Max(s)}] \in S /\ seq[Max(s)] \in L
      BY <1>1, <1>4, <1>5, <2>2
    <3> QED BY <1>3, <2>2, <3>1, <3>2
  <2> QED BY <2>1, <2>2
<1>7. P(f)
  <2>1. f = [s \in SUBSET (1..n) |-> f[s]]
    BY <1>4
  <2> HIDE DEF y
  <2> QED BY <1>1, <1>6, <2>1
<1> HIDE DEF P
<1>8. PICK g : g = (CHOOSE x : P(x)) /\ P(g)
  BY <1>7
<1>9. \A s \in SUBSET (1..n) : g[s] = y(g, s)
  <2> HIDE DEF y
  <2> QED BY <1>1, <1>8 DEF P
<1> DEFINE h == [i \in 0..n |-> g[1..i]]
<1>10. h[0] = 0
  <2>1. 1..0 = {} /\ 1..0 \in SUBSET (1..n) /\ 0 \in 0..n
    BY <1>1
  <2> QED BY <1>9, <2>1
<1>11. ASSUME NEW i \in 1..n PROVE h[i] = AddLength(h[i - 1], seq[i])
  <2>1. /\ i \in Nat /\ i - 1 \in 0..n /\ i \in 0..n
        /\ 1..i \in SUBSET (1..n) /\ 1..i # {}
    <3>1. i \in Nat /\ i - 1 \in 0..n /\ i \in 0..n /\ i \in 1..i
      BY <1>1
    <3>2. \A j \in 1..i : j \in 1..n
      BY <1>1, <3>1
    <3> QED BY <3>1, <3>2
  <2>2. Max(1..i) = i
    <3>1. 1..i \in SUBSET (1..i) /\ i \in 1..i /\ \A j \in 1..i : j <= i
      BY <2>1
    <3> QED BY <2>1, <3>1, GreatestUnique
  <2>3. (1..i) \ {i} = 1..(i - 1)
    BY <2>1
  <2>4. g[1..i] = AddLength(g[(1..i) \ {i}], seq[i])
    BY <1>9, <2>1, <2>2
  <2> QED BY <2>1, <2>3, <2>4
<1>12. h[n] = TotalLength(seq)
  BY <1>1, <1>2, <1>8
<1>13. \A i \in 0..n : h[i] \in S
  <2> DEFINE In == {i \in 0..n : h[i] \in S}
  <2> HIDE DEF h
  <2>1. 0 \in In
    BY <1>1, <1>10
  <2>2. ASSUME NEW i \in 1..n, i - 1 \in In PROVE i \in In
    BY <1>1, <1>11, <2>2
  <2> HIDE DEF In
  <2>3. \A i \in 0..n : i \in In
    BY <1>1, <2>1, <2>2, Upwards
  <2> QED BY <2>3 DEF In
<1>14. h \in [0..n -> S]
  BY <1>13
<1> HIDE DEF h
<1>15. LengthChain(h, 0, seq)
  BY <1>10, <1>11 DEF LengthChain, n
<1> QED BY <1>12, <1>14, <1>15 DEF n
-----------------------------------------------------------------------------
(* The operation table.                                                    *)

LEMMA FormatsDisjoint ==
  /\ DOMAIN Format34 \cap (DOMAIN Format1 \cup DOMAIN Format2) = {}
  /\ (Directives \cup {"START", ".", None})
       \cap (DOMAIN Format1 \cup DOMAIN Format2 \cup DOMAIN Format34) = {}
BY SMTT(60), SourceAssumption DEF Format1, Format2, Format34, Directives

\* The two low bits of an opcode of format 3 or 4 are left for n and i.
LEMMA OpcodesAligned ==
  ASSUME NEW op \in DOMAIN Format34
  PROVE  Format34[op] \in 0..252 /\ Format34[op] % 4 = 0
BY SMTT(60) DEF Format34

-----------------------------------------------------------------------------
(* Instructions taken apart.                                               *)

LEMMA DivideBy256 ==
  ASSUME NEW w \in Nat
  PROVE  /\ w = 256 * (w \div 256) + (w % 256)
         /\ w % 256 \in 0..255 /\ w \div 256 \in Nat
<1>1. w = 256 * (w \div 256) + (w % 256) /\ w % 256 \in 0..255 /\ w \div 256 \in Int
  BY SMT
<1> DEFINE q == w \div 256
           r == w % 256
<1>2. q \in Int /\ r \in 0..255 /\ w = 256 * q + r
  BY <1>1
<1> HIDE DEF q, r
<1>3. q >= 0
  BY <1>2
<1> QED BY <1>2, <1>3 DEF q, r

\* a, b and c are the bytes of w.
TwoBytes(w, b, c) == b \in 0..255 /\ c \in 0..255 /\ w = 256 * b + c
ThreeBytes(w, a, b, c) ==
  a \in 0..255 /\ b \in 0..255 /\ c \in 0..255 /\ w = 256 * (256 * a + b) + c

\* What 20 bits hold is three bytes, the first of them less than 16.
LEMMA TwentyBits ==
  ASSUME NEW w \in Nat, w < 2^20
  PROVE  \E a \in 0..15, b \in 0..255, c \in 0..255 : ThreeBytes(w, a, b, c)
<1> DEFINE q == w \div 256
           c == w % 256
           a == q \div 256
           b == q % 256
<1>1. q \in Nat /\ c \in 0..255 /\ w = 256 * q + c
  BY DivideBy256
<1> HIDE DEF q, c
<1>2. a \in Nat /\ b \in 0..255 /\ q = 256 * a + b
  BY <1>1, DivideBy256
<1> HIDE DEF a, b
<1>3. a \in 0..15
  <2>1. 2^20 = 1048576
    BY SMT
  <2> QED BY SMT, <1>1, <1>2, <2>1
<1>4. ThreeBytes(w, a, b, c)
  BY <1>1, <1>2, <1>3 DEF ThreeBytes
<1> QED BY <1>1, <1>2, <1>3, <1>4

LEMMA BytesTwo ==
  ASSUME NEW w, NEW b, NEW c, TwoBytes(w, b, c)
  PROVE  Bytes(w, 2) = <<b, c>>
<1> USE DEF TwoBytes
<1>1. w \div 256^(2 - 1) = b /\ w \div 256^(2 - 2) = w
  <2>1. 256^(2 - 1) = 256
    BY SMT
  <2>2. 256^(2 - 2) = 1
    BY SMT
  <2>3. w \div 256 = b /\ w \div 1 = w
    BY SMT
  <2> QED BY <2>1, <2>2, <2>3
<1>2. b % 256 = b /\ w % 256 = c
  BY SMT
<1> QED BY SMT, <1>1, <1>2 DEF Bytes

LEMMA BytesThree ==
  ASSUME NEW w, NEW a, NEW b, NEW c, ThreeBytes(w, a, b, c)
  PROVE  Bytes(w, 3) = <<a, b, c>>
<1> USE DEF ThreeBytes
<1>1. w \div 256^(3 - 1) = a /\ w \div 256^(3 - 2) = 256 * a + b /\ w \div 256^(3 - 3) = w
  <2>1. 256^(3 - 1) = 65536
    BY SMT
  <2>2. 256^(3 - 2) = 256
    BY SMT
  <2>3. 256^(3 - 3) = 1
    BY SMT
  <2>4. w \div 65536 = a
    BY SMT
  <2>5. w \div 256 = 256 * a + b
    BY SMT
  <2>6. w \div 1 = w
    BY SMT
  <2> QED BY SMT, <2>1, <2>2, <2>3, <2>4, <2>5, <2>6
<1>2. a % 256 = a /\ (256 * a + b) % 256 = b /\ w % 256 = c
  BY SMT
<1> QED BY SMT, <1>1, <1>2 DEF Bytes

\* The first two bytes of an instruction: p has opcode op and n and i as m says,
\* w has the index bit x, of b, p and e the one k says, and four bits a.
First(p, op, m) == op \in 0..252 /\ op % 4 = 0 /\ m \in 1..3 /\ p = op + m

One(b) == IF b THEN 1 ELSE 0

Second(w, x, k, a) ==
  x \in BOOLEAN /\ k \in {1, 2, 4} /\ a \in 0..15 /\ w = 128 * One(x) + 16 * k + a

LEMMA SecondBits ==
  ASSUME NEW w, NEW x, NEW k, NEW a, Second(w, x, k, a)
  PROVE  /\ w \in 0..255 /\ w % 16 = a
         /\ BitOf(w, 7) <=> x
         /\ BitOf(w, 6) <=> k = 4
         /\ BitOf(w, 5) <=> k = 2
         /\ BitOf(w, 4) <=> k = 1
<1>1. PICK y \in 0..1 : y = One(x) /\ (y = 1 <=> x)
  BY DEF One, Second
<1>2. k \in {1, 2, 4} /\ a \in 0..15 /\ w = 128 * y + 16 * k + a
  BY <1>1 DEF Second
<1>3. w \in 0..255
  BY SMT, <1>2
<1>4. w % 16 = a
  BY SMT, <1>2
<1>5. (w \div 128) % 2 = 1 <=> y = 1
  BY SMT, <1>2
<1>6. (w \div 64) % 2 = 1 <=> k = 4
  BY SMT, <1>2
<1>7. (w \div 32) % 2 = 1 <=> k = 2
  BY SMT, <1>2
<1>8. (w \div 16) % 2 = 1 <=> k = 1
  BY SMT, <1>2
<1>9. 2^7 = 128
  BY SMT
<1>10. 2^6 = 64
  BY SMT
<1>11. 2^5 = 32
  BY SMT
<1>12. 2^4 = 16
  BY SMT
<1> QED BY SMT, <1>1, <1>3, <1>4, <1>5, <1>6, <1>7, <1>8, <1>9, <1>10, <1>11, <1>12 DEF BitOf

LEMMA FirstBits ==
  ASSUME NEW p, NEW op, NEW m, First(p, op, m)
  PROVE  /\ BitOf(p, 1) <=> m \in {2, 3}
         /\ BitOf(p, 0) <=> m \in {1, 3}
<1> USE DEF First
<1>1. (p \div 2) % 2 = 1 <=> m \in {2, 3}
  BY SMT
<1>2. p \div 1 = p
  BY SMT
<1>3. p % 2 = 1 <=> m \in {1, 3}
  BY SMT
<1>4. 2^1 = 2
  BY SMT
<1>5. 2^0 = 1
  BY SMT
<1> QED BY SMT, <1>1, <1>2, <1>3, <1>4, <1>5 DEF BitOf

\* What the machine makes of those two bytes.
LEMMA Taken ==
  ASSUME NEW p, NEW op, NEW m, First(p, op, m),
         NEW w, NEW x, NEW k, NEW a, Second(w, x, k, a)
  PROVE  LET f == FieldsOf(p, w) IN
         /\ (f.x <=> x) /\ (f.e <=> k = 1) /\ (f.p <=> k = 2) /\ (f.b <=> k = 4)
         /\ m = (IF f.n THEN 2 ELSE 0) + (IF f.i THEN 1 ELSE 0)
         /\ f.x \in BOOLEAN /\ f.e \in BOOLEAN
<1> DEFINE f == FieldsOf(p, w)
<1>1. /\ f.n = BitOf(p, 1) /\ f.i = BitOf(p, 0)
      /\ f.x = BitOf(w, 7) /\ f.b = BitOf(w, 6) /\ f.p = BitOf(w, 5) /\ f.e = BitOf(w, 4)
  BY DEF FieldsOf
<1> HIDE DEF f
<1>2. \A j : BitOf(w, j) \in BOOLEAN /\ BitOf(p, j) \in BOOLEAN
  BY DEF BitOf
<1>3. (f.x <=> x) /\ (f.e <=> k = 1) /\ (f.p <=> k = 2) /\ (f.b <=> k = 4)
  BY <1>1, <1>2, SecondBits
<1>4. (f.n <=> m \in {2, 3}) /\ (f.i <=> m \in {1, 3})
  BY <1>1, <1>2, FirstBits
<1>5. m = (IF f.n THEN 2 ELSE 0) + (IF f.i THEN 1 ELSE 0)
  BY <1>4 DEF First
<1> QED BY <1>1, <1>2, <1>3, <1>5 DEF f

\* A word put together for format 4 has the index bit, e and 20 bits of address.
LEMMA ExtendedBytes ==
  ASSUME NEW x \in BOOLEAN, NEW target \in Nat, target < 2^20
  PROVE  \E w, a, b, c :
           /\ Second(w, x, 1, a) /\ ThreeBytes(target, a, b, c)
           /\ Bytes(Bit(x, 23) + 2^20 + target, 3) = <<w, b, c>>
<1>1. PICK a \in 0..15, b \in 0..255, c \in 0..255 : ThreeBytes(target, a, b, c)
  BY TwentyBits
<1> DEFINE w == 128 * One(x) + 16 * 1 + a
           v == Bit(x, 23) + 2^20 + target
<1>2. Second(w, x, 1, a)
  BY DEF Second
<1>3. w \in 0..255 /\ w = 128 * One(x) + 16 + a /\ One(x) \in 0..1
  BY <1>2, SecondBits DEF One
<1>4. v = 256 * (256 * w + b) + c
  <2>1. 2^23 = 8388608
    BY SMT
  <2>2. 2^20 = 1048576
    BY SMT
  <2>3. Bit(x, 23) = 8388608 * One(x)
    BY SMT, <2>1 DEF Bit, One
  <2>4. target = 256 * (256 * a + b) + c
    BY <1>1 DEF ThreeBytes
  <2> HIDE DEF w
  <2> QED BY SMT, <1>1, <1>3, <2>2, <2>3, <2>4
<1>5. ThreeBytes(v, w, b, c)
  <2> HIDE DEF w, v
  <2> QED BY <1>1, <1>3, <1>4 DEF ThreeBytes
<1> HIDE DEF w
<1>6. Bytes(v, 3) = <<w, b, c>>
  <2> HIDE DEF v
  <2> QED BY <1>5, BytesThree
<1> QED BY <1>1, <1>2, <1>6

\* d is what the 12 bits a and b say with their sign.
TwelveBits(d, a, b) ==
  /\ a \in 0..15 /\ b \in 0..255
  /\ d = IF 256 * a + b >= 2048 THEN 256 * a + b - 4096 ELSE 256 * a + b

\* A word put together for format 3 has the index bit, p or b and 12 bits of
\* displacement.
LEMMA RelativeBytes ==
  ASSUME NEW x \in BOOLEAN, NEW d \in Int, InReach(d), NEW k, k \in {2, 4},
         NEW flag, flag = 16 * k * 256
  PROVE  \E w, a, b :
           /\ Second(w, x, k, a) /\ TwelveBits(d, a, b)
           /\ Bytes(Bit(x, 15) + (flag + (d % 4096)), 2) = <<w, b>>
<1> DEFINE e == d % 4096
           a == e \div 256
           b == e % 256
           w == 128 * One(x) + 16 * k + a
           v == Bit(x, 15) + (flag + e)
<1>1. e \in Nat /\ e < 4096 /\ d = IF e >= 2048 THEN e - 4096 ELSE e
  BY SMT DEF InReach
<1> HIDE DEF e
<1>2. a \in 0..15 /\ b \in 0..255 /\ e = 256 * a + b
  <2>1. a \in Nat /\ b \in 0..255 /\ e = 256 * a + b
    BY <1>1, DivideBy256
  <2> HIDE DEF a, b
  <2> QED BY SMT, <1>1, <2>1
<1> HIDE DEF a, b
<1>3. Second(w, x, k, a)
  BY <1>2 DEF Second
<1>4. w \in 0..255 /\ w = 128 * One(x) + 16 * k + a /\ One(x) \in 0..1
  BY <1>3, SecondBits DEF One
<1>5. v = 256 * w + b
  <2>1. 2^15 = 32768
    BY SMT
  <2>2. Bit(x, 15) = 32768 * One(x)
    BY SMT, <2>1 DEF Bit, One
  <2> HIDE DEF w
  <2> QED BY SMT, <1>2, <1>4, <2>2
<1>6. TwoBytes(v, w, b)
  <2> HIDE DEF w, v
  <2> QED BY <1>2, <1>4, <1>5 DEF TwoBytes
<1> HIDE DEF w
<1>7. Bytes(v, 2) = <<w, b>>
  <2> HIDE DEF v
  <2> QED BY <1>6, BytesTwo
<1>8. TwelveBits(d, a, b)
  BY SMT, <1>1, <1>2 DEF TwelveBits
<1>9. Bytes(Bit(x, 15) + (flag + (d % 4096)), 2) = <<w, b>>
  BY <1>7 DEF e
<1> QED BY <1>3, <1>8, <1>9
LEMMA FourOf ==
  ASSUME NEW p, NEW q, NEW r, NEW s
  PROVE  LET c == (<<p>> \o <<q, r, s>>) \o <<0>> IN c[1] = p /\ c[2] = q /\ c[3] = r /\ c[4] = s
OBVIOUS

LEMMA ThreeOf ==
  ASSUME NEW p, NEW q, NEW r
  PROVE  LET c == (<<p>> \o <<q, r>>) \o <<0>> IN c[1] = p /\ c[2] = q /\ c[3] = r /\ c[4] = 0
OBVIOUS

(* The machine finds target at the code c, and the flags the source asked  *)
(* for.                                                                    *)
Resolves(code, target, PC, B, format, x, m) ==
  LET c == code \o <<0>>
      f == FieldsOf(c[1], c[2])
  IN
  /\ OperandAddress(f, c[2], c[3], c[4], PC, B, 0) = target
  /\ f.e = (format = 4) /\ f.x = x
  /\ ~f.e => m = (IF f.n THEN 2 ELSE 0) + (IF f.i THEN 1 ELSE 0)

LEMMA ExtendedResolves ==
  ASSUME NEW ln, ln.x \in BOOLEAN, NEW op \in 0..252, op % 4 = 0,
         NEW target \in Nat, target < 2^20, NEW PC, NEW B, NEW m
  PROVE  Resolves(ExtendedCode(ln, op, target), target, PC, B, 4, ln.x, m)
<1> DEFINE c == ExtendedCode(ln, op, target) \o <<0>>
<1>1. PICK w, a, b, r :
        /\ Second(w, ln.x, 1, a) /\ ThreeBytes(target, a, b, r)
        /\ Bytes(Bit(ln.x, 23) + 2^20 + target, 3) = <<w, b, r>>
  BY ExtendedBytes
<1>2. c = (<<op + 3>> \o <<w, b, r>>) \o <<0>>
  BY <1>1 DEF ExtendedCode
<1>3. c[1] = op + 3 /\ c[2] = w /\ c[3] = b /\ c[4] = r
  <2> HIDE DEF c
  <2> QED BY <1>2, FourOf
<1> HIDE DEF c
<1> DEFINE f == FieldsOf(op + 3, w)
<1>4. First(op + 3, op, 3)
  BY DEF First
<1>5. /\ (f.x <=> ln.x) /\ (f.e <=> 1 = 1) /\ (f.p <=> 1 = 2) /\ (f.b <=> 1 = 4)
      /\ f.x \in BOOLEAN /\ f.e \in BOOLEAN
  BY <1>1, <1>4, Taken
<1> HIDE DEF f
<1>6. f.e /\ ~f.p /\ ~f.b
  BY <1>5
<1>7. OperandAddress(f, w, b, r, PC, B, 0) = target
  <2>1. w % 16 = a
    BY <1>1, SecondBits
  <2>2. OperandAddress(f, w, b, r, PC, B, 0) = (a * 65536 + b * 256 + r) + 0 + (IF f.x THEN 0 ELSE 0)
    BY SMT, <1>6, <2>1 DEF OperandAddress, Displacement
  <2> QED BY SMT, <1>1, <2>2 DEF ThreeBytes
<1>8. f.e = (4 = 4) /\ f.x = ln.x
  BY Zenon, <1>5, <1>6
<1> QED BY <1>3, <1>6, <1>7, <1>8 DEF Resolves, c, f
LEMMA RelativeResolves ==
  ASSUME NEW ln, ln.x \in BOOLEAN, Addressing(ln.mode) \in 1..3,
         NEW op \in 0..252, op % 4 = 0, NEW target \in Int, NEW PC \in Int, NEW B \in Int,
         InReach(target - PC) \/ InReach(target - B)
  PROVE  Resolves(RelativeCode(ln, op, target, PC, B), target, PC, B, 3, ln.x,
                  Addressing(ln.mode))
<1> DEFINE c == RelativeCode(ln, op, target, PC, B) \o <<0>>
           m == Addressing(ln.mode)
           toPC == InReach(target - PC)
<1>1. PICK k \in {2, 4}, base \in {PC, B} :
        /\ InReach(target - base)
        /\ IF toPC THEN k = 2 /\ base = PC ELSE k = 4 /\ base = B
  <2>1. CASE toPC
    BY <2>1
  <2>2. CASE ~toPC
    <3>1. InReach(target - B)
      BY <2>2
    <3> QED BY <2>2, <3>1
  <2> QED BY <2>1, <2>2
<1>2. target - base \in Int
  OBVIOUS
<1> DEFINE d == target - base
           flag == 16 * k * 256
<1>3. (IF toPC THEN 2^13 + ((target - PC) % 4096) ELSE 2^14 + ((target - B) % 4096))
        = flag + (d % 4096)
  <2>1. 2^13 = 8192
    BY SMT
  <2>2. 2^14 = 16384
    BY SMT
  <2> HIDE DEF toPC
  <2>3. CASE toPC
    BY SMT, <1>1, <2>1, <2>3
  <2>4. CASE ~toPC
    BY SMT, <1>1, <2>2, <2>4
  <2> QED BY <2>3, <2>4
<1> DEFINE v == Bytes(Bit(ln.x, 15) + (flag + (d % 4096)), 2)
<1>4. c = (<<op + m>> \o v) \o <<0>>
  <2> HIDE DEF d, flag
  <2> QED BY <1>3 DEF RelativeCode
<1>5. PICK w, a, b :
        /\ Second(w, ln.x, k, a) /\ TwelveBits(d, a, b)
        /\ v = <<w, b>>
  <2>1. d \in Int /\ InReach(d) /\ flag = 16 * k * 256
    BY <1>1, <1>2
  <2> HIDE DEF d, flag
  <2> QED BY <1>1, <2>1, RelativeBytes
<1>6. c[1] = op + m /\ c[2] = w /\ c[3] = b /\ c[4] = 0
  <2> HIDE DEF c, m, v
  <2>1. c = (<<op + m>> \o <<w, b>>) \o <<0>>
    BY <1>4, <1>5
  <2> QED BY <2>1, ThreeOf
<1> HIDE DEF c
<1> DEFINE f == FieldsOf(op + m, w)
<1>7. First(op + m, op, m)
  BY DEF First
<1>8. /\ (f.x <=> ln.x) /\ (f.e <=> k = 1) /\ (f.p <=> k = 2) /\ (f.b <=> k = 4)
      /\ m = (IF f.n THEN 2 ELSE 0) + (IF f.i THEN 1 ELSE 0)
      /\ f.x \in BOOLEAN /\ f.e \in BOOLEAN
  BY <1>5, <1>7, Taken
<1> HIDE DEF f, m
<1>9. ~f.e /\ (f.p <=> k = 2) /\ (f.b <=> k = 4)
  BY <1>1, <1>8
<1>10. OperandAddress(f, w, b, 0, PC, B, 0) = target
  <2>1. w % 16 = a
    BY <1>5, SecondBits
  <2>2. (IF f.p THEN PC ELSE IF f.b THEN B ELSE 0) = base
    BY <1>1, <1>9
  <2>3. Displacement(f, w, b, 0) = d
    BY SMT, <1>5, <1>9, <2>1 DEF Displacement, TwelveBits
  <2>4. OperandAddress(f, w, b, 0, PC, B, 0) = d + base + 0
    <3> HIDE DEF d
    <3> QED BY <2>2, <2>3 DEF OperandAddress
  <2> QED BY <1>1, <2>4
<1>11. f.e = (3 = 4) /\ f.x = ln.x
  <2>1. 3 # 4
    OBVIOUS
  <2> QED BY Zenon, <1>8, <1>9, <2>1
<1> QED BY <1>6, <1>8, <1>10, <1>11 DEF Resolves, c, f, m
-----------------------------------------------------------------------------
(* Pass 1.                                                                 *)

(* What SourceAssumption says of a line.                                   *)
Lines ==
  {ln \in SourceLine :
     /\ ln.kind = "sym" => ln.sym # None
     /\ ln.op \in DOMAIN Format34 => ln.mode \in {"0", "#", "@"}}

Tables == UNION {[D -> Int] : D \in SUBSET Symbols}
Lists  == Seq([ln: Lines, LOCCTR: Int, PC: Int])

(* The first line moves nothing, every other line begins where the one     *)
(* before it ended and is as long as SizeOf says; none is a START.         *)
Consecutive(out) ==
  /\ Len(out) >= 1 /\ out[1].PC = out[1].LOCCTR
  /\ \A j \in 2..Len(out) :
       /\ out[j].LOCCTR = out[j - 1].PC
       /\ out[j].PC = out[j].LOCCTR + SizeOf(out[j].ln)
       /\ out[j].ln.op # "START"

Pass1States ==
  {s \in [PC: Int, start: Int, symtab: Tables, flag: BOOLEAN, out: Lists] :
     Consecutive(s.out) /\ s.PC = s.out[Len(s.out)].PC}

LEMMA SizeType ==
  ASSUME NEW ln \in Lines
  PROVE  SizeOf(ln) \in Int
<1>1. ln.num \in Int
  BY DEF Lines, SourceLine
<1>2. FormatOf(ln) \in 1..4
  BY DEF FormatOf
<1>3. 3 * ln.num \in Int
  BY <1>1
<1> QED BY <1>1, <1>2, <1>3 DEF SizeOf

\* One more line.
LEMMA ListAppended ==
  ASSUME NEW out \in Lists, Consecutive(out), NEW ln \in Lines, ln.op # "START",
         NEW at, at = out[Len(out)].PC, NEW next, next = at + SizeOf(ln)
  PROVE  LET new == Append(out, [ln |-> ln, LOCCTR |-> at, PC |-> next]) IN
         /\ new \in Lists /\ Consecutive(new) /\ new[Len(new)].PC = next
         /\ at \in Int /\ next \in Int
<1> DEFINE e == [ln |-> ln, LOCCTR |-> at, PC |-> next]
           new == Append(out, e)
<1>1. Len(out) \in Nat /\ Len(out) >= 1
  BY LenProperties DEF Consecutive, Lists
<1>2. out[Len(out)] \in [ln: Lines, LOCCTR: Int, PC: Int]
  <2>1. Len(out) \in 1..Len(out) /\ out \in Seq([ln: Lines, LOCCTR: Int, PC: Int])
    BY <1>1 DEF Lists
  <2> QED BY <2>1, ElementOfSeq
<1>3. at \in Int /\ next \in Int
  BY <1>2, SizeType
<1>4. e \in [ln: Lines, LOCCTR: Int, PC: Int] /\ e.ln = ln /\ e.LOCCTR = at /\ e.PC = next
  BY <1>3
<1> HIDE DEF e
<1>5. /\ new \in Lists /\ Len(new) = Len(out) + 1
      /\ \A j \in 1..Len(out) : new[j] = out[j]
      /\ new[Len(out) + 1] = e
  BY <1>4, AppendProperties DEF Lists
<1> HIDE DEF new
<1>6. ASSUME NEW j \in 2..Len(new)
      PROVE  /\ new[j].LOCCTR = new[j - 1].PC
             /\ new[j].PC = new[j].LOCCTR + SizeOf(new[j].ln)
             /\ new[j].ln.op # "START"
  <2>1. CASE j = Len(out) + 1
    <3>1. j - 1 = Len(out) /\ Len(out) \in 1..Len(out)
      BY <1>1, <2>1
    <3> QED BY <1>4, <1>5, <2>1, <3>1
  <2>2. CASE j # Len(out) + 1
    <3>1. j \in 2..Len(out) /\ j \in 1..Len(out) /\ j - 1 \in 1..Len(out)
      BY <1>1, <1>5, <2>2
    <3> QED BY <1>5, <3>1 DEF Consecutive
  <2> QED BY <2>1, <2>2
<1>7. Len(new) >= 1 /\ new[1].PC = new[1].LOCCTR
  <2>1. 1 \in 1..Len(out)
    BY <1>1
  <2> QED BY <1>1, <1>5, <2>1 DEF Consecutive
<1>8. Consecutive(new)
  BY <1>6, <1>7 DEF Consecutive
<1> QED BY <1>3, <1>4, <1>5, <1>8 DEF e, new

LEMMA SymbolEntered ==
  ASSUME NEW tab \in Tables, NEW l \in Symbols, NEW v \in Int
  PROVE  [k \in DOMAIN tab \cup {l} |-> IF k = l THEN v ELSE tab[k]] \in Tables
<1>1. PICK D \in SUBSET Symbols : tab \in [D -> Int]
  BY DEF Tables
<1>2. DOMAIN tab \cup {l} \in SUBSET Symbols
  BY <1>1
<1>3. [k \in DOMAIN tab \cup {l} |-> IF k = l THEN v ELSE tab[k]] \in [DOMAIN tab \cup {l} -> Int]
  BY <1>1
<1> QED BY <1>2, <1>3 DEF Tables

LEMMA Pass1LineKeeps ==
  ASSUME NEW s \in Pass1States, NEW ln \in Lines
  PROVE  Pass1Line(s, ln) \in Pass1States
<1> DEFINE next == s.PC + SizeOf(ln)
           tab == IF ln.label = None THEN s.symtab
                  ELSE [l \in DOMAIN s.symtab \cup {ln.label} |->
                          IF l = ln.label THEN s.PC ELSE s.symtab[l]]
           new(end) == Append(s.out, [ln |-> ln, LOCCTR |-> s.PC, PC |-> end])
<1>1. /\ s \in [PC: Int, start: Int, symtab: Tables, flag: BOOLEAN, out: Lists]
      /\ Consecutive(s.out) /\ s.PC = s.out[Len(s.out)].PC
  BY DEF Pass1States
<1>2. ASSUME ln.op = "." PROVE SizeOf(ln) = 0 /\ ln.op # "START"
  BY <1>2, FormatsDisjoint DEF SizeOf, IsInstruction
<1>3. ASSUME ~InvalidOperation(ln) PROVE ln.op # "START"
  BY <1>3, FormatsDisjoint, SourceAssumption DEF InvalidOperation, IsInstruction, Directives
<1>4. ASSUME ln.op # "START", NEW t, NEW x \in Tables,
             t = [s EXCEPT !.symtab = x, !.out = new(next), !.PC = next]
      PROVE  t \in Pass1States
  <2>1. /\ new(next) \in Lists /\ Consecutive(new(next)) /\ new(next)[Len(new(next))].PC = next
        /\ next \in Int
    BY <1>1, <1>4, ListAppended
  <2> HIDE DEF new, next
  <2>2. /\ t \in [PC: Int, start: Int, symtab: Tables, flag: BOOLEAN, out: Lists]
        /\ t.out = new(next) /\ t.PC = next
    BY <1>1, <1>4, <2>1
  <2> QED BY <2>1, <2>2 DEF Pass1States
<1>5. CASE s.flag
  BY <1>5 DEF Pass1Line
<1>6. CASE ~s.flag /\ ln.op = "."
  <2>1. next = s.PC
    BY <1>1, <1>2, <1>6
  <2>2. Pass1Line(s, ln) = [s EXCEPT !.symtab = s.symtab, !.out = new(next), !.PC = next]
    <3> HIDE DEF next
    <3> QED BY <1>1, <1>6, <2>1 DEF Pass1Line
  <2> QED BY <1>1, <1>2, <1>4, <1>6, <2>2
<1>7. CASE ~s.flag /\ ln.op # "." /\ (ln.label \in DOMAIN s.symtab \/ InvalidOperation(ln))
  <2>1. Pass1Line(s, ln) = [s EXCEPT !.flag = TRUE]
    BY <1>7 DEF Pass1Line
  <2> QED BY <1>1, <2>1 DEF Pass1States
<1>8. CASE ~s.flag /\ ln.op # "." /\ ~(ln.label \in DOMAIN s.symtab \/ InvalidOperation(ln))
  <2>1. tab \in Tables
    <3>1. ln.label \in Symbols \cup {None}
      BY DEF Lines, SourceLine
    <3> QED BY <1>1, <3>1, SymbolEntered
  <2>2. Pass1Line(s, ln) = [s EXCEPT !.symtab = tab, !.out = new(next), !.PC = next]
    BY <1>8 DEF Pass1Line
  <2> QED BY <1>3, <1>4, <1>8, <2>1, <2>2
<1> QED BY <1>5, <1>6, <1>7, <1>8
LEMMA SourceLines ==
  ASSUME NEW src \in Sources
  PROVE  src \in Seq(Lines) /\ src # <<>>
<1>1. src \in Seq(SourceLine) /\ src # <<>>
  BY SourceAssumption
<1>2. \A i \in 1..Len(src) : src[i] \in Lines
  <2> TAKE i \in 1..Len(src)
  <2>1. src[i] \in SourceLine /\ i \in DOMAIN src
    BY <1>1, ElementOfSeq
  <2> QED BY <2>1, SourceAssumption DEF Lines
<1> QED BY <1>1, <1>2, SeqDef

LEMMA NoSymbols == <<>> \in Tables
<1>1. <<>> \in [{} -> Int]
  BY SMT
<1> QED BY <1>1 DEF Tables

LEMMA Pass1Result ==
  ASSUME NEW src \in Sources
  PROVE  Pass1(src) \in Pass1States
<1> DEFINE start == IF Head(src).op = "START" THEN Head(src).num ELSE 0
           first == [ln |-> Head(src), LOCCTR |-> start, PC |-> start]
           base == [PC |-> start, start |-> start, symtab |-> <<>>, flag |-> FALSE,
                    out |-> <<first>>]
<1>1. src \in Seq(Lines) /\ Head(src) \in Lines /\ Tail(src) \in Seq(Lines)
  BY SourceLines, HeadTailProperties
<1>2. start \in Int
  BY <1>1 DEF Lines, SourceLine
<1> HIDE DEF start
<1>3. first \in [ln: Lines, LOCCTR: Int, PC: Int] /\ first.PC = start /\ first.LOCCTR = start
  BY <1>1, <1>2
<1>4. <<first>> \in Lists /\ Len(<<first>>) = 1 /\ <<first>>[1] = first
  <2> HIDE DEF first
  <2> QED BY <1>3 DEF Lists
<1>5. Consecutive(<<first>>)
  <2> HIDE DEF first
  <2> QED BY <1>3, <1>4 DEF Consecutive
<1>6. base \in Pass1States
  <2>1. /\ base \in [PC: Int, start: Int, symtab: Tables, flag: BOOLEAN, out: Lists]
        /\ base.out = <<first>> /\ base.PC = start
    <3> HIDE DEF first
    <3> QED BY <1>2, <1>4, NoSymbols
  <2> HIDE DEF base, first
  <2> QED BY <1>3, <1>4, <1>5, <2>1 DEF Pass1States
<1>7. Pass1(src) = Pass1Run(base, Tail(src))
  BY DEF Pass1, Pass1Run, start
<1> HIDE DEF base
<1>8. PICK h \in [0..Len(Tail(src)) -> Pass1States] :
        /\ Pass1Chain(h, base, Tail(src))
        /\ Pass1Run(base, Tail(src)) = h[Len(Tail(src))]
  <2>1. \A s \in Pass1States, ln \in Lines : Pass1Line(s, ln) \in Pass1States
    BY Pass1LineKeeps
  <2> DEFINE seq == Tail(src)
  <2>2. seq \in Seq(Lines)
    BY <1>1
  <2> HIDE DEF seq
  <2>3. \E h \in [0..Len(seq) -> Pass1States] :
          Pass1Chain(h, base, seq) /\ Pass1Run(base, seq) = h[Len(seq)]
    BY <1>6, <2>1, <2>2, Pass1Fold
  <2> QED BY <2>3 DEF seq
<1>9. Len(Tail(src)) \in 0..Len(Tail(src))
  BY <1>1, LenProperties
<1> QED BY <1>7, <1>8, <1>9
-----------------------------------------------------------------------------
(* Pass 2.                                                                 *)

Entry == [ln: Lines, LOCCTR: Int, PC: Int]
Codes == Seq(Int)
Texts ==
  [written: Seq([loc: Int, length: Int, body: Codes]), loc: Int, body: Codes, length: Int]

Pass2States(symtab) ==
  [BASE: Int, symtab: {symtab}, flag: BOOLEAN, M: Seq(Int), start: Int,
   header: BOOLEAN, text: Texts]

LEMMA BytesType ==
  ASSUME NEW w \in Int, NEW n \in {2, 3}
  PROVE  Bytes(w, n) \in Codes
<1>1. ASSUME NEW j \in 1..n PROVE 256^(n - j) \in Nat \ {0}
  <2>1. 256^0 \in Nat \ {0}
    BY SMT
  <2>2. 256^1 \in Nat \ {0}
    BY SMT
  <2>3. 256^2 \in Nat \ {0}
    BY SMT
  <2>4. PICK m : m = n - j /\ m \in {0, 1, 2}
    BY SMT
  <2>5. 256^m \in Nat \ {0}
    <3>1. CASE m = 0
      BY Zenon, <2>1, <3>1
    <3>2. CASE m = 1
      BY Zenon, <2>2, <3>2
    <3>3. CASE m = 2
      BY Zenon, <2>3, <3>3
    <3> QED BY <2>4, <3>1, <3>2, <3>3
  <2> QED BY Zenon, <2>4, <2>5
<1>2. \A k \in Nat \ {0} : (w \div k) % 256 \in Int
  BY SMT
<1>3. \A j \in 1..n : (w \div 256^(n - j)) % 256 \in Int
  BY SMT, <1>1, <1>2
<1>4. n \in Nat
  BY SMT
<1> DEFINE F(j) == (w \div 256^(n - j)) % 256
<1>5. \A j \in 1..n : F(j) \in Int
  BY SMT, <1>3
<1>6. Bytes(w, n) = [j \in 1..n |-> F(j)]
  BY SMT DEF Bytes
<1> HIDE DEF F
<1> QED BY SMT, <1>4, <1>5, <1>6 DEF Codes

LEMMA BitType ==
  ASSUME NEW b \in BOOLEAN, NEW n \in {13, 14, 15, 20, 23}
  PROVE  Bit(b, n) \in Int /\ 2^n \in Int
<1>1. 2^13 = 8192
  BY SMT
<1>2. 2^14 = 16384
  BY SMT
<1>3. 2^15 = 32768
  BY SMT
<1>4. 2^20 = 1048576
  BY SMT
<1>5. 2^23 = 8388608
  BY SMT
<1> QED BY SMT, <1>1, <1>2, <1>3, <1>4, <1>5 DEF Bit

LEMMA PairOrSingle ==
  ASSUME NEW p \in Int, NEW c \in Codes
  PROVE  <<p>> \o c \in Codes
<1>1. <<p>> \in Seq(Int)
  OBVIOUS
<1> QED BY <1>1, ConcatProperties DEF Codes

LEMMA WideCodeType ==
  ASSUME NEW e \in Entry, NEW B \in Int, NEW symtab \in Tables,
         e.ln.op \in DOMAIN Format34, ~Undefined(e.ln, symtab)
  PROVE  WideCode(e.ln, e, B, symtab) \in Codes
<1> DEFINE ln == e.ln
           opcode == Format34[ln.op]
<1>1. ln \in Lines /\ ln.mode \in {"0", "#", "@"} /\ ln.x \in BOOLEAN /\ ln.num \in Int
      /\ e.PC \in Int /\ ln.sym \in Symbols \cup {None}
  BY DEF Entry, Lines, SourceLine
<1>2. opcode \in 0..252 /\ opcode \in Int
  BY OpcodesAligned
<1>3. Addressing(ln.mode) \in 1..3
  BY <1>1 DEF Addressing
<1> HIDE DEF ln, opcode
<1>4. ASSUME NEW num \in Int PROVE NumberCode(ln, opcode, num) \in Codes
  <2>1. Bytes(2^20 + Bit(ln.x, 15) + num, 3) \in Codes
    <3>1. 2^20 \in Int /\ Bit(ln.x, 15) \in Int
      BY <1>1, BitType
    <3>2. 2^20 + Bit(ln.x, 15) + num \in Int
      BY <1>4, <3>1
    <3> QED BY <3>2, BytesType
  <2>2. Bytes(Bit(ln.x, 15) + num, 2) \in Codes
    <3>1. Bit(ln.x, 15) \in Int
      BY <1>1, BitType
    <3> QED BY <1>4, <3>1, BytesType
  <2>3. opcode + 1 \in Int
    BY <1>2
  <2> QED BY <2>1, <2>2, <2>3, PairOrSingle DEF NumberCode
<1>5. ASSUME NEW target \in Int
      PROVE  ExtendedCode(ln, opcode, target) \in Codes /\ RelativeCode(ln, opcode, target, e.PC, B) \in Codes
  <2>1. Bytes(Bit(ln.x, 23) + 2^20 + target, 3) \in Codes
    <3>1. Bit(ln.x, 23) \in Int /\ 2^20 \in Int
      BY <1>1, BitType
    <3>2. Bit(ln.x, 23) + 2^20 + target \in Int
      BY <3>1
    <3> QED BY <3>2, BytesType
  <2> DEFINE d == IF InReach(target - e.PC) THEN 2^13 + ((target - e.PC) % 4096)
                  ELSE 2^14 + ((target - B) % 4096)
  <2>2. Bytes(Bit(ln.x, 15) + d, 2) \in Codes
    <3>1. Bit(ln.x, 15) \in Int /\ 2^13 \in Int /\ 2^14 \in Int
      BY <1>1, BitType
    <3>2. d \in Int
      BY <1>1, <3>1
    <3> QED BY <3>1, <3>2, BytesType
  <2>3. opcode + 3 \in Int /\ opcode + Addressing(ln.mode) \in Int
    BY <1>2, <1>3
  <2> QED BY <2>1, <2>2, <2>3, PairOrSingle DEF ExtendedCode, RelativeCode
<1>6. ASSUME ln.sym \in DOMAIN symtab PROVE symtab[ln.sym] \in Int
  BY <1>6 DEF Tables
<1>7. ASSUME ln.kind = "sym", ln.sym \notin DOMAIN symtab PROVE HexValue[ln.sym] \in Int
  <2>1. ln.sym \in Symbols
    BY <1>1, <1>7 DEF Lines
  <2> QED BY <2>1, SourceAssumption
<1>8. <<opcode + 3>> \o (IF FormatOf(ln) = 4 THEN <<16, 0, 0>> ELSE <<0, 0>>) \in Codes
  <2>1. <<16, 0, 0>> \in Codes /\ <<0, 0>> \in Codes /\ opcode + 3 \in Int
    BY <1>2 DEF Codes
  <2> QED BY <2>1, PairOrSingle
<1>9. <<>> \in Codes
  BY DEF Codes
<1>10. WideCode(e.ln, e, B, symtab) =
         CASE ln.kind = "none" -> <<opcode + 3>> \o (IF FormatOf(ln) = 4 THEN <<16, 0, 0>> ELSE <<0, 0>>)
           [] ln.kind = "num"  -> NumberCode(ln, opcode, ln.num)
           [] ln.kind = "sym" /\ ln.sym \in DOMAIN symtab ->
                IF FormatOf(ln) = 4 THEN ExtendedCode(ln, opcode, symtab[ln.sym])
                ELSE RelativeCode(ln, opcode, symtab[ln.sym], e.PC, B)
           [] ln.kind = "sym" /\ ln.sym \notin DOMAIN symtab -> NumberCode(ln, opcode, HexValue[ln.sym])
           [] OTHER -> <<>>
  BY DEF WideCode, ln, opcode
<1> QED BY <1>1, <1>4, <1>5, <1>6, <1>7, <1>8, <1>9, <1>10
LEMMA CodeType ==
  ASSUME NEW e \in Entry, NEW B \in Int, NEW symtab \in Tables, ~Undefined(e.ln, symtab)
  PROVE  CodeOf(e, B, symtab) \in Codes
<1> DEFINE ln == e.ln
<1>1. ln \in Lines /\ ln.num \in Int
  BY DEF Entry, Lines, SourceLine
<1> DEFINE wide == WideCode(ln, e, B, symtab)
           other == CASE ln.op = "BYTE" -> IF ln.mode = "C" THEN CharBytes(ln.num)
                                           ELSE [j \in 1..ln.num |-> 0]
                      [] ln.op = "BASE" -> CXValue[ln.sym]
                      [] OTHER          -> <<>>
<1> HIDE DEF wide, other
<1>0. /\ ln.op \in DOMAIN Format1 => CodeOf(e, B, symtab) = <<Format1[ln.op]>>
      /\ ln.op \in DOMAIN Format2 /\ ln.op \notin DOMAIN Format1
           => CodeOf(e, B, symtab) = RegisterCode(ln)
      /\ ln.op \in DOMAIN Format34 => CodeOf(e, B, symtab) = wide
      /\ ln.op \notin DOMAIN Format1 \cup DOMAIN Format2 \cup DOMAIN Format34
           => CodeOf(e, B, symtab) = other
  <2>1. DOMAIN Format1 \cap DOMAIN Format2 = {}
    BY DEF Format1, Format2
  <2> DEFINE in1 == ln.op \in DOMAIN Format1
             in2 == ln.op \in DOMAIN Format2
             in34 == ln.op \in DOMAIN Format34
             byte == ln.op = "BYTE"
             base == ln.op = "BASE"
  <2>2. /\ ~(in1 /\ in2) /\ ~(in1 /\ in34) /\ ~(in2 /\ in34) /\ ~(byte /\ base)
        /\ byte \/ base => ~in1 /\ ~in2 /\ ~in34
    BY <2>1, FormatsDisjoint DEF Directives
  <2> DEFINE c1 == <<Format1[ln.op]>>
             c2 == RegisterCode(ln)
             c3 == IF ln.mode = "C" THEN CharBytes(ln.num) ELSE [j \in 1..ln.num |-> 0]
             c4 == CXValue[ln.sym]
  <2>3. CodeOf(e, B, symtab) = CASE in1 -> c1 [] in2 -> c2 [] in34 -> wide [] byte -> c3
                                 [] base -> c4 [] OTHER -> <<>>
    BY Zenon DEF CodeOf, wide
  <2>4. other = CASE byte -> c3 [] base -> c4 [] OTHER -> <<>>
    BY Zenon DEF other
  <2>5. /\ in1 => CodeOf(e, B, symtab) = c1
        /\ in2 /\ ~in1 => CodeOf(e, B, symtab) = c2
        /\ in34 => CodeOf(e, B, symtab) = wide
        /\ ~in1 /\ ~in2 /\ ~in34 => CodeOf(e, B, symtab) = other
    <3> HIDE DEF in1, in2, in34, byte, base, c1, c2, c3, c4
    <3> QED BY <2>2, <2>3, <2>4
  <2> QED BY <2>5
<1>2. CASE ln.op \in DOMAIN Format1
  <2>1. <<Format1[ln.op]>> \in Codes
    BY <1>2 DEF Format1, Codes
  <2> QED BY <1>2, <1>0, <2>1
<1>3. CASE ln.op \in DOMAIN Format2 /\ ln.op \notin DOMAIN Format1
  <2>1. Format2[ln.op] \in Int
    BY <1>3 DEF Format2
  <2>2. (IF ln.x THEN 16 * (ln.num \div 16) ELSE ln.num) \in Int
    BY <1>1
  <2>3. RegisterCode(ln) \in Codes
    BY <2>1, <2>2 DEF RegisterCode, Codes
  <2> QED BY <1>3, <1>0, <2>3
<1>4. CASE ln.op \in DOMAIN Format34
  <2>1. wide \in Codes
    BY <1>4, WideCodeType DEF wide
  <2> QED BY <1>4, <1>0, <2>1
<1>5. CASE ln.op \notin DOMAIN Format1 \cup DOMAIN Format2 \cup DOMAIN Format34
  <2>1. ASSUME NEW n \in Int PROVE CharBytes(n) \in Codes /\ [j \in 1..n |-> 0] \in Codes
    <3>1. CASE n \in Nat
      <4>1. \A j \in 1..n : (IF j > n - 3 THEN j ELSE 0) \in Int
        OBVIOUS
      <4> QED BY <3>1, <4>1 DEF CharBytes, Codes
    <3>2. CASE n \notin Nat
      <4>1. 1..n = 1..0 /\ 0 \in Nat
        BY <3>2
      <4>2. [j \in 1..0 |-> IF j > n - 3 THEN j ELSE 0] \in Codes /\ [j \in 1..0 |-> 0] \in Codes
        <5>1. \A j \in 1..0 : (IF j > n - 3 THEN j ELSE 0) \in Int
          OBVIOUS
        <5> QED BY <4>1, <5>1 DEF Codes
      <4> QED BY <4>1, <4>2 DEF CharBytes
    <3> QED BY <3>1, <3>2
  <2>2. ASSUME ln.op = "BASE" PROVE CXValue[ln.sym] \in Codes
    <3>1. ln.sym \in DOMAIN symtab
      BY <2>2 DEF Undefined
    <3>2. ln.sym \in Symbols
      BY <3>1 DEF Tables
    <3>3. CXValue[ln.sym] \in Seq(Nat)
      BY <3>2, SourceAssumption
    <3> QED BY <3>3 DEF Codes
  <2>3. <<>> \in Codes
    BY DEF Codes
  <2>4. other \in Codes
    BY <1>1, <2>1, <2>2, <2>3 DEF other
  <2> QED BY <1>5, <1>0, <2>4
<1> QED BY <1>2, <1>3, <1>4, <1>5

LEMMA FlushType ==
  ASSUME NEW t \in Texts, NEW ln
  PROVE  Flush(t, ln) \in Texts
<1> DEFINE r == [loc |-> t.loc, length |-> Len(t.body), body |-> t.body]
<1>1. /\ t.written \in Seq([loc: Int, length: Int, body: Codes]) /\ t.loc \in Int
      /\ t.body \in Codes /\ Len(t.body) \in Int /\ <<>> \in Codes
  BY LenProperties DEF Texts, Codes
<1>2. r \in [loc: Int, length: Int, body: Codes]
  BY <1>1
<1>3. Append(t.written, r) \in Seq([loc: Int, length: Int, body: Codes])
  BY <1>1, <1>2, AppendProperties
<1> HIDE DEF r
<1>4. [t EXCEPT !.written = Append(@, r), !.length = Len(t.body), !.body = <<>>] \in Texts
  BY <1>1, <1>3 DEF Texts
<1> QED BY <1>4 DEF Flush, r

LEMMA PlaceType ==
  ASSUME NEW t \in Texts, NEW at \in Int, NEW code \in Codes
  PROVE  Place(t, at, code) \in Texts
<1> DEFINE r == [loc |-> t.loc, length |-> Len(t.body), body |-> t.body]
<1>1. /\ t.written \in Seq([loc: Int, length: Int, body: Codes]) /\ t.loc \in Int
      /\ t.body \in Codes /\ Len(t.body) \in Int /\ <<>> \in Codes /\ Len(code) \in Int
  BY LenProperties DEF Texts, Codes
<1>2. r \in [loc: Int, length: Int, body: Codes]
  BY <1>1
<1>3. Append(t.written, r) \in Seq([loc: Int, length: Int, body: Codes])
  BY <1>1, <1>2, AppendProperties
<1>4. t.body \o code \in Codes /\ Len(t.body \o code) \in Int
  <2>1. t.body \o code \in Codes
    BY <1>1, ConcatProperties DEF Codes
  <2> QED BY <2>1, LenProperties DEF Codes
<1>5. PICK loc \in Int : loc = at % 2^24
  <2>1. 2^24 = 16777216
    BY SMT
  <2> QED BY SMT, <2>1
<1> HIDE DEF r
<1>6. [t EXCEPT !.loc = loc, !.body = code, !.length = Len(code)] \in Texts
  BY <1>1, <1>3, <1>4 DEF Texts
<1>7. [t EXCEPT !.body = @ \o code, !.length = Len(t.body \o code)] \in Texts
  BY <1>1, <1>3, <1>4 DEF Texts
<1>8. [t EXCEPT !.written = Append(@, r), !.loc = loc, !.body = code, !.length = Len(t.body)] \in Texts
  BY <1>1, <1>3, <1>4 DEF Texts
<1>9. Place(t, at, code) =
        IF code = <<>> THEN t
        ELSE IF t.body = <<>> THEN [t EXCEPT !.loc = loc, !.body = code, !.length = Len(code)]
        ELSE IF Len(t.body) + Len(code) <= TextBytes
        THEN [t EXCEPT !.body = @ \o code, !.length = Len(t.body \o code)]
        ELSE [t EXCEPT !.written = Append(@, r), !.loc = loc, !.body = code, !.length = Len(t.body)]
  BY Zenon, <1>5 DEF Place, r
<1> QED BY <1>6, <1>7, <1>8, <1>9

LEMMA Pass2LineKeeps ==
  ASSUME NEW symtab \in Tables, NEW s \in Pass2States(symtab), NEW e \in Entry
  PROVE  Pass2Line(s, e) \in Pass2States(symtab)
<1>1. /\ s.BASE \in Int /\ s.symtab = symtab /\ s.M \in Seq(Int) /\ s.start \in Int
      /\ s.text \in Texts /\ e.LOCCTR \in Int
      /\ s = [BASE |-> s.BASE, symtab |-> symtab, flag |-> s.flag, M |-> s.M,
              start |-> s.start, header |-> s.header, text |-> s.text]
  BY DEF Pass2States, Entry
<1>2. CASE s.flag \/ Undefined(e.ln, symtab)
  <2>1. Pass2Line(s, e) = [s EXCEPT !.flag = TRUE]
    BY <1>1, <1>2 DEF Pass2Line
  <2> QED BY <2>1 DEF Pass2States
<1>3. CASE ~(s.flag \/ Undefined(e.ln, symtab))
  <2> DEFINE B == IF e.ln.op = "BASE" THEN symtab[e.ln.sym] ELSE s.BASE
             code == CodeOf(e, B, symtab)
             text == Place(Flush(s.text, e.ln), e.LOCCTR, code)
             M == IF IsModified(e.ln, symtab) THEN Append(s.M, e.LOCCTR + 1) ELSE s.M
             start == IF code # <<>> /\ s.start = -1 THEN e.LOCCTR ELSE s.start
  <2>1. B \in Int
    BY <1>1, <1>3 DEF Undefined, Tables
  <2> HIDE DEF B
  <2>2. code \in Codes
    BY <1>3, <2>1, CodeType
  <2> HIDE DEF code
  <2>3. text \in Texts
    BY <1>1, <2>2, FlushType, PlaceType
  <2>4. M \in Seq(Int)
    BY <1>1, AppendProperties
  <2>5. start \in Int
    BY <1>1
  <2> HIDE DEF text, M, start
  <2>6. Pass2Line(s, e) = [s EXCEPT !.BASE = B, !.text = text, !.M = M, !.start = start]
    BY Zenon, <1>1, <1>3 DEF Pass2Line, B, code, text, M, start
  <2> QED BY <2>1, <2>3, <2>4, <2>5, <2>6 DEF Pass2States
<1> QED BY <1>2, <1>3

(* Where pass 2 begins.                                                    *)
Pass2Base(symtab, header) ==
  [BASE |-> StackWord, symtab |-> symtab, flag |-> FALSE, M |-> <<>>,
   start |-> -1, header |-> header,
   text |-> [written |-> <<>>, loc |-> StackWord, body |-> <<>>, length |-> StackWord]]

(* What pass 2 makes of an entry when it makes no complaint.               *)
LineDone(s, t, e, symtab) ==
  /\ ~s.flag /\ ~t.flag /\ ~Undefined(e.ln, symtab)
  /\ t.BASE = IF e.ln.op = "BASE" THEN symtab[e.ln.sym] ELSE s.BASE
  /\ t.text = Place(Flush(s.text, e.ln), e.LOCCTR, CodeOf(e, t.BASE, symtab))

(* An assembly a: h[i] is the state of pass 2 after line i + off of the     *)
(* intermediate file; off is 1 if the first line is the header.             *)
Assembly(a, h, off) ==
  /\ a.ok /\ a.out \in Lists /\ Consecutive(a.out) /\ a.symtab \in Tables
  /\ off \in 0..1 /\ (off = 1 <=> a.out[1].ln.op = "START") /\ (a.header <=> off = 1)
  /\ h \in [0..Len(a.out) - off -> Pass2States(a.symtab)]
  /\ h[0].BASE = StackWord /\ h[0].text = Pass2Base(a.symtab, a.header).text
  /\ \A i \in 1..Len(a.out) - off : LineDone(h[i - 1], h[i], a.out[i + off], a.symtab)
  /\ a.T = TextRecords(h[Len(a.out) - off].text)
  /\ a.M \in Seq(Int) /\ a.E \in Int /\ a.length \in Int

LEMMA BaseType ==
  ASSUME NEW symtab, NEW header \in BOOLEAN
  PROVE  Pass2Base(symtab, header) \in Pass2States(symtab)
<1> DEFINE text == [written |-> <<>>, loc |-> StackWord, body |-> <<>>, length |-> StackWord]
<1>1. StackWord \in Int
  BY SourceAssumption
<1>2. <<>> \in Seq([loc: Int, length: Int, body: Codes]) /\ <<>> \in Codes /\ <<>> \in Seq(Int)
  BY DEF Codes
<1>3. text \in Texts
  BY <1>1, <1>2 DEF Texts
<1> HIDE DEF text
<1>4. Pass2Base(symtab, header) =
        [BASE |-> StackWord, symtab |-> symtab, flag |-> FALSE, M |-> <<>>,
         start |-> -1, header |-> header, text |-> text]
  BY DEF Pass2Base, text
<1> QED BY <1>1, <1>2, <1>3, <1>4 DEF Pass2States

\* A complaint is never taken back.
LEMMA Complaint ==
  ASSUME NEW symtab \in Tables, NEW s \in Pass2States(symtab), NEW e \in Entry,
         NEW t, t = Pass2Line(s, e), ~t.flag
  PROVE  LineDone(s, t, e, symtab)
<1>1. /\ s.symtab = symtab /\ s.flag \in BOOLEAN
      /\ DOMAIN s = {"BASE", "symtab", "flag", "M", "start", "header", "text"}
      /\ s = [BASE |-> s.BASE, symtab |-> symtab, flag |-> s.flag, M |-> s.M,
              start |-> s.start, header |-> s.header, text |-> s.text]
  BY DEF Pass2States
<1>2. CASE s.flag \/ Undefined(e.ln, symtab)
  <2>1. t = [s EXCEPT !.flag = TRUE]
    BY <1>1, <1>2 DEF Pass2Line
  <2>2. t.flag
    BY <1>1, <2>1
  <2> QED BY <2>2
<1>3. CASE ~(s.flag \/ Undefined(e.ln, symtab))
  <2> DEFINE B == IF e.ln.op = "BASE" THEN symtab[e.ln.sym] ELSE s.BASE
             code == CodeOf(e, B, symtab)
             text == Place(Flush(s.text, e.ln), e.LOCCTR, code)
             M == IF IsModified(e.ln, symtab) THEN Append(s.M, e.LOCCTR + 1) ELSE s.M
             start == IF code # <<>> /\ s.start = -1 THEN e.LOCCTR ELSE s.start
  <2>1. t = [s EXCEPT !.BASE = B, !.text = text, !.M = M, !.start = start]
    BY Zenon, <1>1, <1>3 DEF Pass2Line
  <2> HIDE DEF B, code, text, M, start
  <2>2. t.BASE = B /\ t.text = text
    BY <1>1, <2>1
  <2> QED BY <1>3, <2>2 DEF LineDone, B, code, text
<1> QED BY <1>2, <1>3

\* Every source that is assembled without an error has been through pass 2
\* line by line, and no line of it was complained of.
LEMMA Assembles ==
  ASSUME NEW src \in Sources, Assembled(src).ok
  PROVE  \E h, off : Assembly(Assembled(src), h, off)
<1> DEFINE a == Assembled(src)
           p == Pass1(src)
           q == Pass2(p)
           header == Head(p.out).ln.op = "START"
           off == IF header THEN 1 ELSE 0
           seq == IF header THEN Tail(p.out) ELSE p.out
           base == Pass2Base(p.symtab, header)
           n == Len(p.out) - off
<1>1. p \in Pass1States
  BY Pass1Result
<1> HIDE DEF p
<1>2. /\ p.out \in Lists /\ Consecutive(p.out) /\ p.symtab \in Tables
      /\ Len(p.out) \in Nat \ {0} /\ p.out # <<>> /\ Head(p.out) = p.out[1]
  <2>1. p.out \in Lists /\ Consecutive(p.out) /\ p.symtab \in Tables
    BY <1>1 DEF Pass1States
  <2>2. Len(p.out) >= 1 /\ Len(p.out) \in Nat
    BY <2>1, LenProperties DEF Consecutive, Lists
  <2> DEFINE out == p.out
  <2>3. out \in Seq([ln: Lines, LOCCTR: Int, PC: Int]) /\ Len(out) >= 1
    BY <2>1, <2>2 DEF Lists
  <2> HIDE DEF out
  <2>4. out # <<>> /\ Head(out) = out[1]
    BY <2>3
  <2> QED BY <2>1, <2>2, <2>4 DEF out
<1>3. q = Pass2Run(base, seq)
  BY DEF Pass2, Pass2Run, Pass2Base
<1> HIDE DEF q
<1>4. base \in Pass2States(p.symtab)
  BY BaseType
<1>5. seq \in Seq(Entry) /\ Len(seq) = n /\ n \in Nat /\ \A i \in 1..n : seq[i] = p.out[i + off]
  <2> DEFINE out == p.out
  <2>1. out \in Seq(Entry) /\ out # <<>> /\ Len(out) \in Nat \ {0}
    BY <1>2 DEF Lists, Entry
  <2> HIDE DEF out, header
  <2>2. CASE header
    <3>1. /\ Tail(out) \in Seq(Entry) /\ Len(Tail(out)) = Len(out) - 1
          /\ \A i \in 1..Len(out) - 1 : Tail(out)[i] = out[i + 1]
      BY <2>1, HeadTailProperties
    <3> QED BY <2>1, <2>2, <3>1 DEF out
  <2>3. CASE ~header
    BY <2>1, <2>3 DEF out
  <2> QED BY <2>2, <2>3
<1>6. off \in 0..1 /\ (off = 1 <=> header)
  OBVIOUS
<1>7. header <=> p.out[1].ln.op = "START"
  BY <1>2
<1> HIDE DEF header, off, seq, base
<1>8. PICK h \in [0..Len(seq) -> Pass2States(p.symtab)] :
        Pass2Chain(h, base, seq) /\ Pass2Run(base, seq) = h[Len(seq)]
  <2>1. \A s \in Pass2States(p.symtab), e \in Entry : Pass2Line(s, e) \in Pass2States(p.symtab)
    BY <1>2, Pass2LineKeeps
  <2> DEFINE States == Pass2States(p.symtab)
  <2>2. base \in States /\ \A s \in States, e \in Entry : Pass2Line(s, e) \in States
    BY <1>4, <2>1
  <2> HIDE DEF States
  <2>3. \E h \in [0..Len(seq) -> States] :
          Pass2Chain(h, base, seq) /\ Pass2Run(base, seq) = h[Len(seq)]
    BY <1>5, <2>2, Pass2Fold
  <2> QED BY <2>3 DEF States
<1>9. /\ ~q.flag
      /\ a = [ok |-> TRUE, symtab |-> p.symtab, header |-> q.header,
              length |-> p.PC - p.start, T |-> TextRecords(q.text), M |-> q.M,
              E |-> q.start, out |-> p.out]
  <2>1. a = IF p.flag \/ q.flag THEN [ok |-> FALSE, symtab |-> <<>>]
            ELSE [ok |-> TRUE, symtab |-> p.symtab, header |-> q.header,
                  length |-> p.PC - p.start, T |-> TextRecords(q.text), M |-> q.M,
                  E |-> q.start, out |-> p.out]
    BY DEF Assembled, p, q
  <2>2. a.ok
    OBVIOUS
  <2> HIDE DEF a
  <2> QED BY <2>1, <2>2
<1> HIDE DEF a
<1> SUFFICES \E g, o : Assembly(a, g, o)
  BY DEF a
<1>10. n \in Nat /\ h \in [0..n -> Pass2States(p.symtab)] /\ h[n] = q /\ h[0] = base
       /\ \A i \in 1..n : h[i] = Pass2Line(h[i - 1], seq[i]) /\ seq[i] \in Entry
  <2>1. \A i \in 1..Len(seq) : seq[i] \in Entry
    BY <1>5, ElementOfSeq
  <2> QED BY <1>3, <1>5, <1>8, <2>1 DEF Pass2Chain
<1> HIDE DEF n
<1>11. ASSUME NEW i \in 1..n, ~h[i].flag
       PROVE  LineDone(h[i - 1], h[i], seq[i], p.symtab)
  <2>1. i - 1 \in 0..n
    BY <1>10
  <2>2. h[i - 1] \in Pass2States(p.symtab)
    BY <1>10, <2>1
  <2>3. h[i] = Pass2Line(h[i - 1], seq[i]) /\ seq[i] \in Entry
    BY <1>10
  <2> QED BY <1>2, <1>11, <2>2, <2>3, Complaint
<1>12. \A i \in 0..n : ~h[i].flag
  <2> DEFINE Good == {d \in 0..n : ~h[n - d].flag}
  <2>1. 0 \in Good
    BY <1>9, <1>10
  <2>2. ASSUME NEW d \in 1..n, d - 1 \in Good PROVE d \in Good
    <3>1. n - d + 1 \in 1..n /\ n - (d - 1) = n - d + 1 /\ (n - d + 1) - 1 = n - d /\ d \in 0..n
      BY <1>10
    <3>2. ~h[n - d + 1].flag
      BY <2>2, <3>1
    <3>3. LineDone(h[n - d], h[n - d + 1], seq[n - d + 1], p.symtab)
      BY <1>11, <3>1, <3>2
    <3> QED BY <3>1, <3>3 DEF LineDone
  <2> HIDE DEF Good
  <2>3. \A d \in 0..n : d \in Good
    BY <1>10, <2>1, <2>2, Upwards
  <2>4. ASSUME NEW i \in 0..n PROVE ~h[i].flag
    <3>1. n - i \in 0..n /\ n - (n - i) = i
      BY <1>10
    <3>2. n - i \in Good
      BY <2>3, <3>1
    <3> QED BY <3>1, <3>2 DEF Good
  <2> QED BY <2>4
<1>13. /\ a.ok = TRUE /\ a.out = p.out /\ a.symtab = p.symtab /\ a.header = q.header
       /\ a.T = TextRecords(q.text) /\ a.M = q.M /\ a.E = q.start /\ a.length = p.PC - p.start
  BY <1>9
<1>14. q.header = header
  <2> DEFINE Same == {i \in 0..n : h[i].header = header}
  <2>1. 0 \in Same
    BY <1>10 DEF base, Pass2Base
  <2>2. ASSUME NEW i \in 1..n, i - 1 \in Same PROVE i \in Same
    <3>1. h[i - 1] \in Pass2States(p.symtab) /\ h[i] = Pass2Line(h[i - 1], seq[i]) /\ i \in 0..n
      BY <1>10
    <3>2. h[i].header = h[i - 1].header
      <4> DEFINE s == h[i - 1]
                 e == seq[i]
      <4>1. s.header = [s EXCEPT !.flag = TRUE].header
        BY <3>1 DEF Pass2States
      <4>2. \A B, text, M, start :
              [s EXCEPT !.BASE = B, !.text = text, !.M = M, !.start = start].header = s.header
        BY <3>1 DEF Pass2States
      <4>3. h[i] = Pass2Line(s, e)
        BY <3>1
      <4> HIDE DEF s, e
      <4> QED BY <4>1, <4>2, <4>3 DEF Pass2Line, s
    <3> QED BY <2>2, <3>1, <3>2
  <2> HIDE DEF Same
  <2>3. \A i \in 0..n : i \in Same
    BY <1>10, <2>1, <2>2, Upwards
  <2> QED BY <1>10, <2>3 DEF Same
<1>15. Assembly(a, h, off)
  <2>1. Len(p.out) - off = n
    BY DEF n
  <2>2. base = Pass2Base(p.symtab, header)
    BY DEF base
  <2>3. h[0].BASE = StackWord /\ h[0].text = Pass2Base(p.symtab, header).text
    BY <1>10, <2>2 DEF Pass2Base
  <2>4. \A i \in 1..n : LineDone(h[i - 1], h[i], p.out[i + off], p.symtab)
    <3> TAKE i \in 1..n
    <3>1. ~h[i].flag /\ seq[i] = p.out[i + off]
      BY <1>5, <1>10, <1>12, <2>1
    <3> QED BY <1>11, <3>1
  <2>5. a.T = TextRecords(h[n].text)
    BY <1>10, <1>13
  <2>6. a.header = header
    BY <1>13, <1>14
  <2>7. /\ a.ok /\ a.out \in Lists /\ Consecutive(a.out) /\ a.symtab \in Tables
        /\ off \in 0..1 /\ (off = 1 <=> a.out[1].ln.op = "START") /\ (a.header <=> off = 1)
    BY <1>2, <1>6, <1>7, <1>13, <2>6
  <2>8. /\ Len(a.out) - off = n /\ h \in [0..n -> Pass2States(a.symtab)]
        /\ h[0].BASE = StackWord /\ h[0].text = Pass2Base(a.symtab, a.header).text
        /\ \A i \in 1..n : LineDone(h[i - 1], h[i], a.out[i + off], a.symtab)
    BY <1>10, <1>13, <2>1, <2>3, <2>4, <2>6
  <2>9. a.M \in Seq(Int) /\ a.E \in Int /\ a.length \in Int
    <3>1. n \in 0..n /\ q \in Pass2States(p.symtab)
      BY <1>10
    <3>2. q.M \in Seq(Int) /\ q.start \in Int /\ p.PC \in Int /\ p.start \in Int
      BY <1>1, <3>1 DEF Pass1States, Pass2States
    <3> QED BY <1>13, <3>2
  <2> QED BY Zenon, <2>5, <2>7, <2>8, <2>9 DEF Assembly
<1> QED BY <1>15
-----------------------------------------------------------------------------
(* Operands.                                                               *)

\* BaseAt, which looks for the last BASE directive, is the BASE of pass 2.
LEMMA BaseKnown ==
  ASSUME NEW h, NEW off, Assembly(asm, h, off)
  PROVE  \A i \in 0..Len(asm.out) - off : BaseAt(i + off) = h[i].BASE
<1> DEFINE n == Len(asm.out) - off
           bases(k) == {j \in 1..k : asm.out[j].ln.op = "BASE"}
           last(k) == CHOOSE j \in bases(k) : \A g \in bases(k) : g <= j
           P == {i \in 0..n : BaseAt(i + off) = h[i].BASE}
<1>1. /\ off \in 0..1 /\ (off = 1 => asm.out[1].ln.op = "START")
      /\ h[0].BASE = StackWord /\ Len(asm.out) \in Nat /\ Len(asm.out) >= 1
      /\ \A i \in 1..n : LineDone(h[i - 1], h[i], asm.out[i + off], asm.symtab)
  <2>1. Len(asm.out) \in Nat
    BY LenProperties DEF Assembly, Lists
  <2> QED BY <2>1 DEF Assembly, Consecutive
<1>2. \A k : BaseAt(k) = IF bases(k) = {} THEN StackWord ELSE asm.symtab[asm.out[last(k)].ln.sym]
  BY DEF BaseAt
<1>3. n \in Nat
  BY <1>1
<1> HIDE DEF n
<1>4. 0 \in P
  <2>1. bases(0 + off) = {}
    <3>1. CASE off = 0
      BY <3>1
    <3>2. CASE off = 1
      BY <1>1, <3>2
    <3> QED BY <1>1, <3>1, <3>2
  <2> HIDE DEF bases, last
  <2>2. BaseAt(0 + off) = h[0].BASE
    BY <1>1, <1>2, <2>1
  <2> QED BY <1>3, <2>2
<1>5. ASSUME NEW i \in 1..n, i - 1 \in P PROVE i \in P
  <2> DEFINE k == i + off
             e == asm.out[k]
  <2>1. /\ k \in Nat /\ k >= 1 /\ (i - 1) + off = k - 1 /\ i \in 0..n
        /\ h[i].BASE = IF e.ln.op = "BASE" THEN asm.symtab[e.ln.sym] ELSE h[i - 1].BASE
    BY <1>1, <1>3 DEF LineDone
  <2>2. BaseAt(k - 1) = h[i - 1].BASE
    BY <1>5, <2>1
  <2> HIDE DEF k
  <2>3. CASE e.ln.op = "BASE"
    <3>1. k \in bases(k) /\ \A g \in bases(k) : g <= k /\ g \in Int
      BY <2>1, <2>3
    <3> HIDE DEF bases
    <3>2. \A j \in bases(k) : (\A g \in bases(k) : g <= j) => j = k
      BY <2>1, <3>1
    <3>3. last(k) = k
      BY <3>1, <3>2
    <3>4. BaseAt(k) = asm.symtab[e.ln.sym]
      BY <1>2, <3>1, <3>3
    <3> QED BY <2>1, <2>3, <3>4 DEF k
  <2>4. CASE e.ln.op # "BASE"
    <3>1. bases(k) = bases(k - 1)
      <4>1. ASSUME NEW j \in 1..k, j # k PROVE j \in 1..k - 1
        BY <2>1, <4>1
      <4>2. ASSUME NEW j \in 1..k - 1 PROVE j \in 1..k
        BY <2>1
      <4> QED BY <2>4, <4>1, <4>2
    <3> HIDE DEF bases
    <3>2. last(k) = last(k - 1)
      BY <3>1
    <3> HIDE DEF last
    <3>3. BaseAt(k) = BaseAt(k - 1)
      BY <1>2, <3>1, <3>2
    <3> QED BY <2>1, <2>2, <2>4, <3>3 DEF k
  <2> QED BY <2>3, <2>4
<1> HIDE DEF P
<1>6. \A i \in 0..n : i \in P
  BY <1>3, <1>4, <1>5, Upwards
<1> QED BY <1>6 DEF P, n

\* The assembled lines are those behind the header.
LEMMA LineKnown ==
  ASSUME NEW h, NEW off, Assembly(asm, h, off), NEW k \in AssembledLines
  PROVE  /\ k - off \in 1..Len(asm.out) - off /\ k \in 1..Len(asm.out)
         /\ LineDone(h[k - off - 1], h[k - off], asm.out[k], asm.symtab)
         /\ BaseAt(k) = h[k - off].BASE /\ BaseAt(k) \in Int
         /\ asm.out[k] \in Entry
<1>1. /\ off \in 0..1 /\ (off = 1 => asm.out[1].ln.op = "START")
      /\ asm.out \in Lists /\ asm.symtab \in Tables
      /\ h \in [0..Len(asm.out) - off -> Pass2States(asm.symtab)]
      /\ \A i \in 1..Len(asm.out) - off : LineDone(h[i - 1], h[i], asm.out[i + off], asm.symtab)
  BY DEF Assembly
<1>2. Len(asm.out) \in Nat /\ DOMAIN asm.out = 1..Len(asm.out)
  BY <1>1, LenProperties DEF Lists
<1>3. k \in 1..Len(asm.out) /\ asm.out[k].ln.op # "START"
  BY <1>2 DEF AssembledLines
<1>4. k - off \in 1..Len(asm.out) - off
  <2>1. k # 1 \/ off = 0
    BY <1>1, <1>3
  <2> QED BY <1>1, <1>2, <1>3, <2>1
<1>5. (k - off) + off = k /\ k - off \in 0..Len(asm.out) - off
  BY <1>1, <1>3, <1>4
<1>6. LineDone(h[k - off - 1], h[k - off], asm.out[k], asm.symtab)
  BY <1>1, <1>4, <1>5
<1>7. BaseAt(k) = h[k - off].BASE
  <2>1. BaseAt((k - off) + off) = h[k - off].BASE
    BY <1>5, BaseKnown
  <2> QED BY <1>5, <2>1
<1>8. BaseAt(k) \in Int
  BY <1>1, <1>5, <1>7 DEF Pass2States
<1>9. asm.out[k] \in Entry
  <2>1. asm.out \in Seq(Entry)
    BY <1>1 DEF Lists, Entry
  <2> QED BY <1>3, <2>1, ElementOfSeq
<1> QED BY <1>3, <1>4, <1>6, <1>7, <1>8, <1>9

\* The code of a line of format 3 or 4 with a symbol.
LEMMA SymbolCode ==
  ASSUME NEW e, NEW B, NEW symtab, e.ln.op \in DOMAIN Format34,
         e.ln.kind = "sym", e.ln.sym \in DOMAIN symtab
  PROVE  CodeOf(e, B, symtab) =
           IF FormatOf(e.ln) = 4 THEN ExtendedCode(e.ln, Format34[e.ln.op], symtab[e.ln.sym])
           ELSE RelativeCode(e.ln, Format34[e.ln.op], symtab[e.ln.sym], e.PC, B)
<1> DEFINE ln == e.ln
           four == ExtendedCode(ln, Format34[ln.op], symtab[ln.sym])
           three == RelativeCode(ln, Format34[ln.op], symtab[ln.sym], e.PC, B)
           wide == WideCode(ln, e, B, symtab)
<1>1. wide = IF FormatOf(ln) = 4 THEN four ELSE three
  <2> HIDE DEF ln
  <2>1. ln.kind = "sym" /\ ln.sym \in DOMAIN symtab /\ ln.kind # "none" /\ ln.kind # "num"
    BY DEF ln
  <2> QED BY <2>1 DEF WideCode
<1>2. ln.op \notin DOMAIN Format1 /\ ln.op \notin DOMAIN Format2 /\ ln.op # "BYTE" /\ ln.op # "BASE"
  BY FormatsDisjoint DEF Directives
<1>3. CodeOf(e, B, symtab) = wide
  <2> HIDE DEF wide
  <2> QED BY <1>2 DEF CodeOf, wide
<1> QED BY <1>1, <1>3

\* An assembly is of a source.
IsAssembly == asm = NotYet \/ \E src \in Sources : asm = Assembled(src)

LEMMA AssemblyResolves ==
  ASSUME IsAssembly
  PROVE  OperandsResolve
<1>1. SUFFICES ASSUME asm.ok, NEW k \in AssembledLines
               PROVE  LET e == asm.out[k]
                          c == Code(k) \o <<0>>
                          f == FieldsOf(c[1], c[2])
                          target == asm.symtab[e.ln.sym]
                      IN  /\ e.ln.op \in DOMAIN Format34
                          /\ e.ln.kind = "sym" /\ e.ln.sym \in DOMAIN asm.symtab
                          /\ IF FormatOf(e.ln) = 4 THEN target \in 0 .. 2^20 - 1
                             ELSE InReach(target - e.PC) \/ InReach(target - BaseAt(k))
                          => /\ OperandAddress(f, c[2], c[3], c[4], e.PC, BaseAt(k), 0) = target
                             /\ f.e = (FormatOf(e.ln) = 4) /\ f.x = e.ln.x
                             /\ ~f.e => Addressing(e.ln.mode)
                                          = (IF f.n THEN 2 ELSE 0) + (IF f.i THEN 1 ELSE 0)
  BY Zenon DEF OperandsResolve
<1> DEFINE e == asm.out[k]
           target == asm.symtab[e.ln.sym]
           op == Format34[e.ln.op]
           m == Addressing(e.ln.mode)
<1>2. PICK h, off : Assembly(asm, h, off)
  <2>1. PICK src \in Sources : asm = Assembled(src)
    BY <1>1 DEF IsAssembly, NotYet
  <2>2. \E h, off : Assembly(Assembled(src), h, off)
    BY <1>1, <2>1, Assembles
  <2> QED BY <2>1, <2>2
<1>3. e \in Entry /\ BaseAt(k) \in Int
  BY <1>2, LineKnown
<1>4. /\ e.ln \in Lines /\ e.ln.x \in BOOLEAN /\ e.PC \in Int /\ asm.symtab \in Tables
      /\ e.ln.op \in DOMAIN Format34 => e.ln.mode \in {"0", "#", "@"}
  BY <1>2, <1>3 DEF Entry, Lines, SourceLine, Assembly
<1>5. SUFFICES ASSUME /\ e.ln.op \in DOMAIN Format34
                      /\ e.ln.kind = "sym" /\ e.ln.sym \in DOMAIN asm.symtab
                      /\ IF FormatOf(e.ln) = 4 THEN target \in 0 .. 2^20 - 1
                         ELSE InReach(target - e.PC) \/ InReach(target - BaseAt(k))
               PROVE  Resolves(Code(k), target, e.PC, BaseAt(k),
                               FormatOf(e.ln), e.ln.x, m)
  BY Zenon DEF Resolves
<1>6. op \in 0..252 /\ op % 4 = 0
  BY <1>5, OpcodesAligned
<1>7. m \in 1..3
  BY <1>4, <1>5 DEF Addressing
<1>8. target \in Int
  BY <1>4, <1>5 DEF Tables
<1>9. Code(k) = IF FormatOf(e.ln) = 4 THEN ExtendedCode(e.ln, op, target)
                ELSE RelativeCode(e.ln, op, target, e.PC, BaseAt(k))
  BY <1>5, SymbolCode DEF Code
<1>10. PICK ln, o, t, PC, B, M :
         ln = e.ln /\ o = op /\ t = target /\ PC = e.PC /\ B = BaseAt(k) /\ M = m
  OBVIOUS
<1>11. /\ ln.x \in BOOLEAN /\ Addressing(ln.mode) = M /\ M \in 1..3 /\ o \in 0..252 /\ o % 4 = 0
       /\ t \in Int /\ PC \in Int /\ B \in Int
  BY Zenon, <1>3, <1>4, <1>6, <1>7, <1>8, <1>10
<1>12. CASE FormatOf(e.ln) = 4
  <2>1. t \in Nat /\ t < 2^20
    <3>1. 2^20 \in Int
      BY BitType
    <3> QED BY SMT, <1>5, <1>8, <1>10, <1>12, <3>1
  <2>2. Resolves(ExtendedCode(ln, o, t), t, PC, B, 4, ln.x, M)
    BY <1>11, <2>1, ExtendedResolves
  <2> QED BY Zenon, <1>9, <1>10, <1>12, <2>2
<1>13. CASE FormatOf(e.ln) # 4
  <2>1. InReach(t - PC) \/ InReach(t - B)
    BY <1>5, <1>10, <1>13
  <2>2. Resolves(RelativeCode(ln, o, t, PC, B), t, PC, B, 3, ln.x, Addressing(ln.mode))
    BY <1>11, <2>1, RelativeResolves
  <2>3. FormatOf(e.ln) = 3
    BY <1>5, <1>13, FormatsDisjoint DEF FormatOf
  <2> QED BY Zenon, <1>9, <1>10, <1>11, <1>13, <2>2, <2>3
<1> QED BY <1>12, <1>13

\* A source is assembled from scratch; no other command touches the result.
LEMMA AlwaysAssembly == SimSpec => []IsAssembly
<1>1. SimInit => IsAssembly
  BY DEF SimInit, AsmInit, IsAssembly
<1>2. IsAssembly /\ [SimNext]_simvars => IsAssembly'
  <2> SUFFICES ASSUME IsAssembly, [SimNext]_simvars PROVE IsAssembly'
    OBVIOUS
  <2>1. SUFFICES asm' = asm \/ \E src \in Sources : asm' = Assembled(src)
    BY DEF IsAssembly, NotYet
  <2>2. ASSUME NEW src \in (IF commands = 0 THEN Sources ELSE Continued), AssembleFile(src)
        PROVE  \E s \in Sources : asm' = Assembled(s)
    <3>1. src \in Sources
      BY ContinuedAssumption
    <3> QED BY <2>2, <3>1 DEF AssembleFile, Assemble
  <2>3. ASSUME NEW list \in LoadLists, Load(list) PROVE asm' = asm
    BY <2>3 DEF Load, asmvars
  <2>4. ASSUME NEW a \in Addresses, Progaddr(a) \/ Breakpoint(a) PROVE asm' = asm
    BY <2>4 DEF Progaddr, Breakpoint, asmvars
  <2>5. ASSUME BreakpointClear \/ Reset \/ Run PROVE asm' = asm
    BY <2>5 DEF BreakpointClear, Reset, Run, asmvars
  <2>6. ASSUME NEW a \in Cells, NEW b \in Cells, NEW v \in Values, Fill(a, b, v) PROVE asm' = asm
    BY <2>6 DEF Fill, asmvars
  <2>7. ASSUME Step \/ EndProgram PROVE asm' = asm
    BY <2>7 DEF Step, EndProgram, asmvars
  <2>8. CASE UNCHANGED simvars
    BY <2>8 DEF simvars
  <2> QED BY <2>2, <2>3, <2>4, <2>5, <2>6, <2>7, <2>8 DEF SimNext
<1> QED BY <1>1, <1>2, PTL DEF SimSpec

\* The machine adds up at run time what pass 2 took apart.  For every source,
\* whatever its symbols and however long a program: at each line of format 3
\* or 4 whose operand is a symbol that PC, BASE or twenty bits reach, the bytes
\* pass 2 puts out make the machine's decoder compute the address pass 1 gave
\* the symbol, with the index bit and the mode the line asked for.
THEOREM AssembledOperands == SimSpec => []OperandsResolve
<1>1. IsAssembly => OperandsResolve
  BY AssemblyResolves
<1> QED BY <1>1, AlwaysAssembly, PTL
-----------------------------------------------------------------------------
(* Where the bytes of records are.                                         *)

LEMMA ByteAt ==
  ASSUME NEW a \in Int, NEW code \in Codes
  PROVE  /\ \A p \in BytesAt(a, code) : p[1] \in Int /\ p[1] >= a /\ p[1] < a + Len(code)
         /\ IsFiniteSet(BytesAt(a, code)) /\ Cardinality(BytesAt(a, code)) = Len(code)
<1> DEFINE n == Len(code)
           S == BytesAt(a, code)
           f == [j \in 1..n |-> <<a + j - 1, code[j]>>]
<1>1. n \in Nat /\ DOMAIN code = 1..n
  BY LenProperties DEF Codes
<1> HIDE DEF n
<1>2. S = {<<a + j - 1, code[j]>> : j \in 1..n}
  BY <1>1 DEF BytesAt
<1>3. ASSUME NEW p \in S PROVE p[1] \in Int /\ p[1] >= a /\ p[1] < a + n
  <2>1. PICK j \in 1..n : p = <<a + j - 1, code[j]>>
    BY <1>2
  <2>2. p[1] = a + j - 1
    BY <2>1
  <2> QED BY <1>1, <2>2
<1> HIDE DEF S
<1>4. f \in [1..n -> S]
  BY <1>2
<1>5. ASSUME NEW i \in 1..n, NEW j \in 1..n, f[i] = f[j] PROVE i = j
  <2>1. a + i - 1 = a + j - 1
    BY <1>5
  <2> QED BY <1>1, <2>1
<1>6. \A s \in S : \E j \in 1..n : f[j] = s
  BY <1>2
<1>7. f \in Bijection(1..n, S)
  <2> HIDE DEF f
  <2>1. f \in Injection(1..n, S)
    BY <1>4, <1>5 DEF Injection, IsInjective
  <2>2. f \in Surjection(1..n, S)
    BY <1>4, <1>6 DEF Surjection
  <2> QED BY <2>1, <2>2 DEF Bijection
<1>8. ExistsBijection(1..n, S)
  BY <1>7 DEF ExistsBijection
<1>9. IsFiniteSet(1..n) /\ Cardinality(1..n) = n
  BY <1>1, FS_Interval
<1>10. IsFiniteSet(S) /\ Cardinality(S) = n
  BY <1>8, <1>9, FS_Bijection
<1> QED BY <1>3, <1>10 DEF S, n

LEMMA ByteAtConcat ==
  ASSUME NEW a \in Int, NEW b \in Codes, NEW c \in Codes
  PROVE  BytesAt(a, b \o c) = BytesAt(a, b) \cup BytesAt(a + Len(b), c)
<1> DEFINE m == Len(b)
           n == Len(c)
           d == b \o c
<1>1. /\ m \in Nat /\ n \in Nat /\ DOMAIN b = 1..m /\ DOMAIN c = 1..n /\ DOMAIN d = 1..m + n
      /\ \A i \in 1..m + n : d[i] = IF i <= m THEN b[i] ELSE c[i - m]
  <2>1. b \in Seq(Int) /\ c \in Seq(Int)
    BY DEF Codes
  <2>2. /\ d \in Seq(Int) /\ Len(d) = m + n
        /\ \A i \in 1..m + n : d[i] = IF i <= m THEN b[i] ELSE c[i - m]
    BY <2>1, ConcatProperties
  <2> QED BY <2>1, <2>2, LenProperties
<1> HIDE DEF d, m, n
<1>2. ASSUME NEW i \in 1..m + n
      PROVE  <<a + i - 1, d[i]>> \in BytesAt(a, b) \cup BytesAt(a + m, c)
  <2>1. CASE i <= m
    <3>1. i \in 1..m /\ d[i] = b[i]
      BY <1>1, <2>1
    <3> QED BY <1>1, <3>1 DEF BytesAt
  <2>2. CASE ~(i <= m)
    <3>1. i - m \in 1..n /\ d[i] = c[i - m] /\ a + i - 1 = a + m + (i - m) - 1
      BY <1>1, <2>2
    <3> QED BY <1>1, <3>1 DEF BytesAt
  <2> QED BY <2>1, <2>2
<1>3. ASSUME NEW i \in 1..m PROVE <<a + i - 1, b[i]>> \in BytesAt(a, d)
  <2>1. i \in 1..m + n /\ d[i] = b[i]
    BY <1>1
  <2> QED BY <1>1, <2>1 DEF BytesAt
<1>4. ASSUME NEW i \in 1..n PROVE <<a + m + i - 1, c[i]>> \in BytesAt(a, d)
  <2>1. m + i \in 1..m + n /\ d[m + i] = c[i] /\ a + m + i - 1 = a + (m + i) - 1
    BY <1>1
  <2> QED BY <1>1, <2>1 DEF BytesAt
<1>5. BytesAt(a, d) \subseteq BytesAt(a, b) \cup BytesAt(a + m, c)
  <2>1. BytesAt(a, d) = {<<a + i - 1, d[i]>> : i \in 1..m + n}
    BY <1>1 DEF BytesAt
  <2> QED BY <1>2, <2>1
<1>6. BytesAt(a, b) \subseteq BytesAt(a, d)
  <2>1. BytesAt(a, b) = {<<a + i - 1, b[i]>> : i \in 1..m}
    BY <1>1 DEF BytesAt
  <2> QED BY <1>3, <2>1
<1>7. BytesAt(a + m, c) \subseteq BytesAt(a, d)
  <2>1. BytesAt(a + m, c) = {<<a + m + i - 1, c[i]>> : i \in 1..n}
    BY <1>1 DEF BytesAt
  <2> QED BY <1>4, <2>1
<1> QED BY <1>5, <1>6, <1>7 DEF d, m

Records == [loc: Int, length: Int, body: Codes]
RecordBytes(w) == UNION {BytesAt(w[r].loc, w[r].body) : r \in DOMAIN w}

LEMMA RecordAppended ==
  ASSUME NEW w \in Seq(Records), NEW r \in Records
  PROVE  RecordBytes(Append(w, r)) = RecordBytes(w) \cup BytesAt(r.loc, r.body)
<1> DEFINE n == Len(w)
           v == Append(w, r)
           B(x, i) == BytesAt(x[i].loc, x[i].body)
<1>1. /\ n \in Nat /\ DOMAIN w = 1..n /\ DOMAIN v = 1..n + 1
      /\ v[n + 1] = r /\ \A i \in 1..n : v[i] = w[i]
  <2>1. v \in Seq(Records) /\ Len(v) = n + 1 /\ v[n + 1] = r /\ \A i \in 1..n : v[i] = w[i]
    BY AppendProperties
  <2> QED BY <2>1, LenProperties
<1>2. RecordBytes(v) = UNION {B(v, i) : i \in 1..n + 1} /\ RecordBytes(w) = UNION {B(w, i) : i \in 1..n}
  BY <1>1 DEF RecordBytes
<1>3. /\ \A i \in 1..n : B(v, i) = B(w, i)
      /\ B(v, n + 1) = BytesAt(r.loc, r.body)
      /\ \A i \in 1..n + 1 : i \in 1..n \/ i = n + 1
      /\ n + 1 \in 1..n + 1 /\ \A i \in 1..n : i \in 1..n + 1
  BY <1>1
<1> DEFINE more == BytesAt(r.loc, r.body)
           K == 1..n
           J == 1..n + 1
<1>4. /\ RecordBytes(v) = UNION {B(v, i) : i \in J} /\ RecordBytes(w) = UNION {B(w, i) : i \in K}
      /\ \A i \in K : B(v, i) = B(w, i)
      /\ B(v, n + 1) = more /\ J = K \cup {n + 1}
  BY <1>1, <1>2, <1>3
<1> HIDE DEF n, v, B, more, J, K
<1>5. ASSUME NEW x PROVE x \in RecordBytes(v) <=> x \in RecordBytes(w) \/ x \in more
  <2>1. x \in RecordBytes(v) <=> \E i \in J : x \in B(v, i)
    BY Zenon, <1>4
  <2>2. x \in RecordBytes(w) <=> \E i \in K : x \in B(w, i)
    BY Zenon, <1>4
  <2> QED BY Zenon, <1>4, <2>1, <2>2
<1> QED BY Zenon, <1>5 DEF v, more

\* The sum over one record more.
LEMMA TotalAppended ==
  ASSUME NEW w \in Seq(Records), NEW r \in Records
  PROVE  /\ TotalLength(w) \in Nat /\ TotalLength(<<>>) = 0
         /\ TotalLength(Append(w, r)) = TotalLength(w) + Len(r.body)
<1> DEFINE n == Len(w)
           v == Append(w, r)
<1>1. \A s \in Nat, x \in Records : AddLength(s, x) \in Nat
  <2> TAKE s \in Nat, x \in Records
  <2>1. Len(x.body) \in Nat
    BY LenProperties DEF Records, Codes
  <2> QED BY <2>1 DEF AddLength
<1>2. v \in Seq(Records) /\ Len(v) = n + 1 /\ v[n + 1] = r /\ (\A i \in 1..n : v[i] = w[i]) /\ n \in Nat
  BY AppendProperties, LenProperties
<1>3. ASSUME NEW x \in Seq(Records)
      PROVE  \E h \in [0..Len(x) -> Nat] : LengthChain(h, 0, x) /\ TotalLength(x) = h[Len(x)]
  BY <1>1, LengthFold
<1> HIDE DEF v
<1>4. PICK g \in [0..n -> Nat] : LengthChain(g, 0, w) /\ TotalLength(w) = g[n]
  BY <1>3
<1>5. PICK h \in [0..n + 1 -> Nat] : LengthChain(h, 0, v) /\ TotalLength(v) = h[n + 1]
  BY <1>2, <1>3
<1>6. TotalLength(<<>>) = 0
  <2>1. <<>> \in Seq(Records) /\ Len(<<>>) = 0
    OBVIOUS
  <2>2. PICK e \in [0..Len(<<>>) -> Nat] : LengthChain(e, 0, <<>>) /\ TotalLength(<<>>) = e[Len(<<>>)]
    BY <1>3, <2>1
  <2> QED BY <2>1, <2>2 DEF LengthChain
<1> HIDE DEF n
<1> DEFINE Same == {i \in 0..n : h[i] = g[i]}
<1>7. 0 \in Same
  BY <1>2, <1>4, <1>5 DEF LengthChain
<1>8. ASSUME NEW i \in 1..n, i - 1 \in Same PROVE i \in Same
  <2>1. g[i] = AddLength(g[i - 1], w[i])
    BY <1>4 DEF LengthChain, n
  <2>2. h[i] = AddLength(h[i - 1], v[i])
    BY <1>2, <1>5 DEF LengthChain
  <2> QED BY <1>2, <1>8, <2>1, <2>2
<1> HIDE DEF Same
<1>9. n \in Same
  <2>1. \A i \in 0..n : i \in Same
    BY <1>2, <1>7, <1>8, Upwards
  <2> QED BY <1>2, <2>1
<1>10. h[n + 1] = AddLength(h[n], v[n + 1])
  <2>1. n + 1 \in 1..Len(v) /\ (n + 1) - 1 = n
    BY <1>2
  <2> QED BY <1>5, <2>1 DEF LengthChain
<1>11. TotalLength(v) = TotalLength(w) + Len(r.body)
  BY <1>2, <1>4, <1>5, <1>9, <1>10 DEF Same, AddLength
<1>12. TotalLength(w) \in Nat
  BY <1>2, <1>4
<1> QED BY <1>6, <1>11, <1>12 DEF v

(* The records of t hold the bytes in "image", each once; the next line is  *)
(* at a, and what has been begun ends there.                                *)
Written(w) ==
  \A r \in 1..Len(w) :
    w[r].body # <<>> /\ w[r].length = Len(w[r].body) /\ Len(w[r].body) <= TextBytes

Placed(t, a, image) ==
  /\ t \in Texts /\ a \in Int /\ Written(t.written)
  /\ t.body # <<>> => t.loc + Len(t.body) = a
  /\ Len(t.body) <= TextBytes
  /\ RecordBytes(t.written) \cup BytesAt(t.loc, t.body) = image
  /\ IsFiniteSet(image) /\ TotalLength(t.written) + Len(t.body) = Cardinality(image)
  /\ \A p \in image : p[1] \in Int /\ p[1] < a

LEMMA NoBytes == \A a : BytesAt(a, <<>>) = {} /\ Len(<<>>) = 0 /\ <<>> \in Codes
<1>1. DOMAIN <<>> = {}
  OBVIOUS
<1> QED BY <1>1 DEF BytesAt, Codes

\* The record in hand is written.
LEMMA RecordWritten ==
  ASSUME NEW t, NEW a, NEW image, Placed(t, a, image), t.body # <<>>,
         NEW w, w = Append(t.written, [loc |-> t.loc, length |-> Len(t.body), body |-> t.body])
  PROVE  /\ w \in Seq(Records) /\ Written(w)
         /\ RecordBytes(w) = image /\ TotalLength(w) = Cardinality(image)
<1> DEFINE r == [loc |-> t.loc, length |-> Len(t.body), body |-> t.body]
<1>1. t.written \in Seq(Records) /\ t.loc \in Int /\ t.body \in Codes /\ Len(t.body) \in Nat
  BY LenProperties DEF Placed, Texts, Records, Codes
<1>2. r \in Records /\ r.loc = t.loc /\ r.body = t.body /\ r.length = Len(t.body)
  BY <1>1 DEF Records
<1> HIDE DEF r
<1>3. w = Append(t.written, r)
  BY DEF r
<1>4. RecordBytes(w) = image
  BY <1>1, <1>2, <1>3, RecordAppended DEF Placed
<1>5. TotalLength(w) = Cardinality(image)
  BY <1>1, <1>2, <1>3, TotalAppended DEF Placed
<1> DEFINE old == t.written
           n == Len(old)
<1>6. /\ w \in Seq(Records) /\ Len(w) = n + 1 /\ w[n + 1] = r /\ n \in Nat
      /\ \A i \in 1..n : w[i] = old[i]
  <2> DEFINE v == Append(old, r)
  <2>1. old \in Seq(Records) /\ w = v
    BY <1>1, <1>3
  <2> HIDE DEF old
  <2>2. /\ v \in Seq(Records) /\ Len(v) = Len(old) + 1 /\ v[Len(old) + 1] = r
        /\ \A i \in 1..Len(old) : v[i] = old[i]
    BY <1>2, <2>1, AppendProperties
  <2>3. Len(old) \in Nat
    BY <2>1, LenProperties
  <2> HIDE DEF v
  <2> QED BY <2>1, <2>2, <2>3
<1>7. Written(w)
  <2>1. Written(old) /\ Len(r.body) <= TextBytes /\ r.body # <<>> /\ r.length = Len(r.body)
    BY <1>2 DEF Placed
  <2> HIDE DEF old, n
  <2>2. ASSUME NEW i \in 1..n + 1
        PROVE  w[i].body # <<>> /\ w[i].length = Len(w[i].body) /\ Len(w[i].body) <= TextBytes
    <3>1. CASE i = n + 1
      BY <1>6, <2>1, <3>1
    <3>2. CASE i # n + 1
      <4>1. i \in 1..n
        BY <1>6, <3>2
      <4>2. old[i].body # <<>> /\ old[i].length = Len(old[i].body) /\ Len(old[i].body) <= TextBytes
        BY <2>1, <4>1 DEF Written, n
      <4>3. w[i] = old[i]
        BY <1>6, <4>1
      <4> QED BY Zenon, <4>2, <4>3
    <3> QED BY <3>1, <3>2
  <2> QED BY <1>6, <2>2 DEF Written
<1> QED BY <1>4, <1>5, <1>6, <1>7

\* RESW and RESB end the record, and what comes next may be further on.
LEMMA PlacedFlush ==
  ASSUME NEW t, NEW a, NEW image, Placed(t, a, image),
         NEW ln, ln.op \in {"RESW", "RESB"}, NEW b \in Int, b >= a
  PROVE  Placed(Flush(t, ln), b, image)
<1>1. /\ t \in Texts /\ a \in Int /\ \A p \in image : p[1] \in Int /\ p[1] < a
      /\ t = [written |-> t.written, loc |-> t.loc, body |-> t.body, length |-> t.length]
  BY DEF Placed, Texts
<1>2. \A p \in image : p[1] \in Int /\ p[1] < b
  BY <1>1
<1>3. CASE t.body = <<>>
  <2>1. Flush(t, ln) = t
    BY <1>3 DEF Flush
  <2> QED BY <1>2, <1>3, <2>1 DEF Placed
<1>4. CASE t.body # <<>>
  <2> DEFINE w == Append(t.written, [loc |-> t.loc, length |-> Len(t.body), body |-> t.body])
             u == [written |-> w, loc |-> t.loc, body |-> <<>>, length |-> Len(t.body)]
  <2>1. Flush(t, ln) = u
    <3>1. Flush(t, ln) = [t EXCEPT !.written = w, !.length = Len(t.body), !.body = <<>>]
      BY <1>4 DEF Flush
    <3> HIDE DEF w
    <3> QED BY <1>1, <3>1
  <2>2. /\ w \in Seq(Records) /\ Written(w)
        /\ RecordBytes(w) = image /\ TotalLength(w) = Cardinality(image)
    <3> HIDE DEF w
    <3>1. w = Append(t.written, [loc |-> t.loc, length |-> Len(t.body), body |-> t.body])
      BY DEF w
    <3> QED BY <1>4, <3>1, RecordWritten
  <2> HIDE DEF w
  <2>3. u \in Texts
    <3>1. Flush(t, ln) \in Texts
      BY <1>1, FlushType
    <3> QED BY <2>1, <3>1
  <2>4. u.written = w /\ u.loc = t.loc /\ u.body = <<>>
    OBVIOUS
  <2> HIDE DEF u
  <2>5. RecordBytes(u.written) \cup BytesAt(u.loc, u.body) = image
    BY <2>2, <2>4, NoBytes
  <2>6. Len(u.body) <= TextBytes /\ TotalLength(u.written) + Len(u.body) = Cardinality(image)
    <3>1. TotalLength(w) \in Nat /\ Len(u.body) = 0
      <4>1. [loc |-> 0, length |-> 0, body |-> <<>>] \in Records
        BY NoBytes DEF Records
      <4> QED BY <2>2, <2>4, <4>1, NoBytes, TotalAppended
    <3> QED BY <2>2, <2>4, <3>1, SourceAssumption
  <2> QED BY <1>2, <2>1, <2>2, <2>3, <2>4, <2>5, <2>6 DEF Placed
<1> QED BY <1>3, <1>4

\* What bytes at the end add.
LEMMA More ==
  ASSUME NEW t, NEW a, NEW image, Placed(t, a, image), NEW code \in Codes,
         NEW full, full = image \cup BytesAt(a, code)
  PROVE  /\ IsFiniteSet(full) /\ Cardinality(full) = Cardinality(image) + Len(code)
         /\ \A p \in full : p[1] \in Int /\ p[1] < a + Len(code)
         /\ Cardinality(image) \in Nat /\ Len(code) \in Nat
<1> DEFINE new == BytesAt(a, code)
<1>1. /\ a \in Int /\ IsFiniteSet(image)
      /\ \A p \in image : p[1] \in Int /\ p[1] < a
  BY DEF Placed
<1>2. Len(code) \in Nat
  BY LenProperties DEF Codes
<1>3. /\ \A p \in new : p[1] \in Int /\ p[1] >= a /\ p[1] < a + Len(code)
      /\ IsFiniteSet(new) /\ Cardinality(new) = Len(code)
  BY <1>1, ByteAt
<1> HIDE DEF new
<1>4. full = image \cup new
  BY DEF new
<1>5. image \cap new = {}
  BY <1>1, <1>3
<1>6. IsFiniteSet(full) /\ Cardinality(full) = Cardinality(image) + Cardinality(new) - Cardinality({})
  <2>1. /\ IsFiniteSet(image \cup new)
        /\ Cardinality(image \cup new)
             = Cardinality(image) + Cardinality(new) - Cardinality(image \cap new)
    BY <1>1, <1>3, FS_Union
  <2> QED BY Zenon, <1>4, <1>5, <2>1
<1>7. Cardinality(image) \in Nat /\ Cardinality({}) = 0
  BY <1>1, FS_CardinalityType, FS_EmptySet
<1>8. ASSUME NEW p \in full PROVE p[1] \in Int /\ p[1] < a + Len(code)
  <2>1. CASE p \in image
    BY <1>1, <1>2, <2>1
  <2>2. CASE p \in new
    BY <1>3, <2>2
  <2> QED BY <1>4, <2>1, <2>2
<1> QED BY <1>2, <1>3, <1>6, <1>7, <1>8

\* A code goes to the end of the record in hand or into a record of its own.
LEMMA PlacedCode ==
  ASSUME NEW t, NEW a, NEW image, Placed(t, a, image), a % 2^24 = a,
         NEW code \in Codes, code # <<>>, Len(code) <= TextBytes
  PROVE  Placed(Place(t, a, code), a + Len(code), image \cup BytesAt(a, code))
<1> DEFINE full == image \cup BytesAt(a, code)
           b == a + Len(code)
           u == Place(t, a, code)
<1> SUFFICES Placed(u, b, full)
  OBVIOUS
<1>1. /\ t \in Texts /\ t.body \in Codes /\ t.loc \in Int /\ a \in Int /\ Written(t.written)
      /\ t.written \in Seq(Records) /\ Len(t.body) \in Nat
      /\ t = [written |-> t.written, loc |-> t.loc, body |-> t.body, length |-> t.length]
  BY LenProperties DEF Placed, Texts, Records, Codes
<1>2. /\ IsFiniteSet(full) /\ Cardinality(full) = Cardinality(image) + Len(code)
      /\ \A p \in full : p[1] \in Int /\ p[1] < b
      /\ Cardinality(image) \in Nat /\ Len(code) \in Nat /\ b \in Int
  <2> HIDE DEF full, u
  <2>1. full = image \cup BytesAt(a, code)
    BY DEF full
  <2>2. /\ IsFiniteSet(full) /\ Cardinality(full) = Cardinality(image) + Len(code)
        /\ \A p \in full : p[1] \in Int /\ p[1] < a + Len(code)
        /\ Cardinality(image) \in Nat /\ Len(code) \in Nat
    BY <2>1, More
  <2>3. b \in Int
    BY <1>1, <2>2
  <2> QED BY Zenon, <2>2, <2>3
<1>3. u \in Texts
  BY <1>1, PlaceType
<1>4. /\ t.body # <<>> => t.loc + Len(t.body) = a
      /\ RecordBytes(t.written) \cup BytesAt(t.loc, t.body) = image
      /\ TotalLength(t.written) + Len(t.body) = Cardinality(image)
  BY DEF Placed
<1>5. \E loc : loc = a % 2^24 /\ loc = a
  BY Zenon
<1>6. CASE t.body = <<>>
  <2>1. u = [t EXCEPT !.loc = a, !.body = code, !.length = Len(code)]
    BY Zenon, <1>5, <1>6 DEF Place
  <2> HIDE DEF u
  <2>2. u.written = t.written /\ u.loc = a /\ u.body = code
    BY <1>1, <2>1
  <2>3. BytesAt(t.loc, t.body) = {} /\ Len(t.body) = 0
    BY <1>6, NoBytes
  <2> HIDE DEF b
  <2>4. RecordBytes(u.written) \cup BytesAt(u.loc, u.body) = full
    BY <1>4, <2>2, <2>3
  <2>5. TotalLength(u.written) + Len(u.body) = Cardinality(full)
    <3>1. TotalLength(t.written) \in Nat
      <4>1. [loc |-> 0, length |-> 0, body |-> <<>>] \in Records
        BY NoBytes DEF Records
      <4> QED BY <1>1, <4>1, TotalAppended
    <3> HIDE DEF full
    <3> QED BY <1>2, <1>4, <2>2, <2>3, <3>1
  <2>6. u.loc + Len(u.body) = b
    BY <2>2 DEF b
  <2> HIDE DEF full
  <2> QED BY <1>1, <1>2, <1>3, <2>2, <2>4, <2>5, <2>6 DEF Placed
<1>7. CASE t.body # <<>> /\ Len(t.body) + Len(code) <= TextBytes
  <2> DEFINE d == t.body \o code
  <2>1. u = [t EXCEPT !.body = d, !.length = Len(d)]
    <3>1. u = [t EXCEPT !.body = @ \o code, !.length = Len(t.body \o code)]
      BY Zenon, <1>7 DEF Place
    <3> HIDE DEF u
    <3> QED BY <3>1
  <2>2. Len(d) = Len(t.body) + Len(code)
    BY <1>1, ConcatProperties DEF Codes
  <2>3. BytesAt(t.loc, d) = BytesAt(t.loc, t.body) \cup BytesAt(t.loc + Len(t.body), code)
    BY <1>1, ByteAtConcat
  <2> HIDE DEF u, d
  <2>4. u.written = t.written /\ u.loc = t.loc /\ u.body = d
    BY <1>1, <2>1
  <2>5. RecordBytes(u.written) \cup BytesAt(u.loc, u.body) = full
    BY <1>4, <1>7, <2>3, <2>4
  <2>6. TotalLength(u.written) + Len(u.body) = Cardinality(full)
    <3>1. TotalLength(t.written) \in Nat
      <4>1. [loc |-> 0, length |-> 0, body |-> <<>>] \in Records
        BY NoBytes DEF Records
      <4> QED BY <1>1, <4>1, TotalAppended
    <3>2. TotalLength(u.written) = TotalLength(t.written) /\ Len(u.body) = Len(d)
      BY Zenon, <2>4
    <3> HIDE DEF full
    <3> QED BY <1>1, <1>2, <1>4, <2>2, <3>1, <3>2
  <2>7. u.loc + Len(u.body) = b /\ Len(u.body) <= TextBytes
    <3>1. u.loc = t.loc /\ Len(u.body) = Len(d)
      BY Zenon, <2>4
    <3> QED BY <1>1, <1>2, <1>4, <1>7, <2>2, <3>1
  <2> HIDE DEF full, b
  <2> QED BY <1>1, <1>2, <1>3, <2>4, <2>5, <2>6, <2>7 DEF Placed
<1>8. CASE t.body # <<>> /\ ~(Len(t.body) + Len(code) <= TextBytes)
  <2> DEFINE w == Append(t.written, [loc |-> t.loc, length |-> Len(t.body), body |-> t.body])
  <2>1. u = [t EXCEPT !.written = w, !.loc = a, !.body = code, !.length = Len(t.body)]
    BY Zenon, <1>5, <1>8 DEF Place
  <2>2. /\ w \in Seq(Records) /\ Written(w)
        /\ RecordBytes(w) = image /\ TotalLength(w) = Cardinality(image)
    <3> HIDE DEF w
    <3>1. w = Append(t.written, [loc |-> t.loc, length |-> Len(t.body), body |-> t.body])
      BY DEF w
    <3> QED BY <1>8, <3>1, RecordWritten
  <2> HIDE DEF u, w
  <2>3. u.written = w /\ u.loc = a /\ u.body = code
    BY <1>1, <2>1
  <2>4. RecordBytes(u.written) \cup BytesAt(u.loc, u.body) = full
    BY <2>2, <2>3
  <2>5. TotalLength(u.written) + Len(u.body) = Cardinality(full) /\ u.loc + Len(u.body) = b
    BY <1>2, <2>2, <2>3
  <2> HIDE DEF full, b
  <2> QED BY <1>1, <1>2, <1>3, <2>2, <2>3, <2>4, <2>5 DEF Placed
<1> HIDE DEF full, b, u
<1> QED BY <1>6, <1>7, <1>8

LEMMA ReservedCode ==
  ASSUME NEW e, e.ln.op \in {"RESW", "RESB"}, NEW B, NEW symtab
  PROVE  CodeOf(e, B, symtab) = <<>>
<1> DEFINE op == e.ln.op
<1>1. /\ op \notin DOMAIN Format1 /\ op \notin DOMAIN Format2 /\ op \notin DOMAIN Format34
      /\ op # "BYTE" /\ op # "BASE" /\ op # "WORD"
  BY FormatsDisjoint DEF Directives
<1> QED BY Zenon, <1>1 DEF CodeOf

LEMMA ReservedSize ==
  ASSUME NEW ln, ln.op \in {"RESW", "RESB"}, ln.num \in Nat
  PROVE  SizeOf(ln) \in Nat
<1>1. ~IsInstruction(ln.op) /\ ln.op # "WORD"
  BY FormatsDisjoint DEF Directives, IsInstruction
<1>2. 3 * ln.num \in Nat
  OBVIOUS
<1> QED BY <1>1, <1>2 DEF SizeOf

LEMMA SixDigits ==
  ASSUME NEW a \in 0..2^24 - 1
  PROVE  a % 2^24 = a
<1>1. 2^24 = 16777216
  BY SMT
<1> QED BY SMT, <1>1

(* The bytes of the lines up to k.                                         *)
Image(k) == UNION {BytesAt(asm.out[j].LOCCTR, Code(j)) : j \in 2..k}

LEMMA ImageGrows ==
  ASSUME NEW k \in Nat, k >= 2
  PROVE  Image(k) = Image(k - 1) \cup BytesAt(asm.out[k].LOCCTR, Code(k))
<1> DEFINE B(j) == BytesAt(asm.out[j].LOCCTR, Code(j))
           K == 2..k
           J == 2..k - 1
<1>1. K = J \cup {k}
  OBVIOUS
<1>2. Image(k) = UNION {B(j) : j \in K} /\ Image(k - 1) = UNION {B(j) : j \in J}
  BY DEF Image
<1> HIDE DEF B, K, J
<1>3. ASSUME NEW x PROVE x \in Image(k) <=> x \in Image(k - 1) \/ x \in B(k)
  <2>1. x \in Image(k) <=> \E j \in K : x \in B(j)
    BY Zenon, <1>2
  <2>2. x \in Image(k - 1) <=> \E j \in J : x \in B(j)
    BY Zenon, <1>2
  <2> QED BY Zenon, <1>1, <2>1, <2>2
<1> QED BY Zenon, <1>3 DEF B

\* Line k of the intermediate file: what it puts out goes where pass 1 said.
LEMMA LinePlaced ==
  ASSUME NEW h, Assembly(asm, h, 1), Regular, NEW k \in 2..Len(asm.out),
         Placed(h[k - 2].text, asm.out[k - 1].PC, Image(k - 1))
  PROVE  Placed(h[k - 1].text, asm.out[k].PC, Image(k))
<1> DEFINE e == asm.out[k]
           t == h[k - 2].text
           u == h[k - 1].text
           a == e.LOCCTR
           size == SizeOf(e.ln)
           code == Code(k)
           old == Image(k - 1)
<1>1. asm.out \in Lists /\ Consecutive(asm.out) /\ Len(asm.out) \in Nat
  BY LenProperties DEF Assembly, Lists
<1>2. k \in AssembledLines /\ a = asm.out[k - 1].PC /\ e.PC = a + size
  <2>1. k \in DOMAIN asm.out
    BY <1>1, LenProperties DEF Lists
  <2> QED BY <1>1, <2>1 DEF Consecutive, AssembledLines
<1>3. /\ LineDone(h[k - 1 - 1], h[k - 1], e, asm.symtab)
      /\ BaseAt(k) = h[k - 1].BASE /\ BaseAt(k) \in Int /\ e \in Entry
  BY <1>2, LineKnown
<1>4. k - 1 - 1 = k - 2 /\ k \in Nat /\ k >= 2
  BY <1>1
<1>5. u = Place(Flush(t, e.ln), a, code) /\ ~Undefined(e.ln, asm.symtab)
  BY Zenon, <1>3, <1>4 DEF LineDone, Code
<1>6. code \in Codes /\ Len(code) \in Nat
  <2>1. asm.symtab \in Tables
    BY DEF Assembly
  <2>2. code \in Codes
    BY <1>3, <1>5, <2>1, CodeType DEF Code
  <2> HIDE DEF code
  <2> QED BY <2>2, LenProperties DEF Codes
<1>7. /\ e.ln \in Lines /\ e.ln.num \in Int /\ a \in Int /\ size \in Int
  <2>1. e.ln \in Lines /\ a \in Int
    BY <1>3 DEF Entry
  <2> QED BY <2>1, SizeType DEF Lines, SourceLine
<1>8. /\ e.ln.op \in {"RESW", "RESB"} => e.ln.num >= 0
      /\ e.ln.op \notin {"RESW", "RESB"} => Len(code) = size /\ size <= TextBytes
      /\ a \in 0..2^24 - 1
  BY Zenon, <1>2 DEF Regular
<1>9. Placed(t, a, old)
  BY <1>2
<1>10. Image(k) = old \cup BytesAt(a, code)
  BY <1>4, ImageGrows
<1>11. CASE e.ln.op \in {"RESW", "RESB"}
  <2>1. code = <<>> /\ size \in Nat
    <3>1. e.ln.num \in Nat
      BY <1>7, <1>8, <1>11
    <3>2. PICK y : y = e
      OBVIOUS
    <3>3. y.ln.op \in {"RESW", "RESB"} /\ y.ln.num \in Nat
      BY Zenon, <1>11, <3>1, <3>2
    <3>4. CodeOf(y, BaseAt(k), asm.symtab) = <<>>
      BY <3>3, ReservedCode
    <3>5. SizeOf(y.ln) \in Nat
      BY <3>3, ReservedSize
    <3>6. CodeOf(e, BaseAt(k), asm.symtab) = <<>> /\ size \in Nat
      BY Zenon, <3>2, <3>4, <3>5
    <3> QED BY <3>6 DEF Code
  <2> HIDE DEF t, u, a, size, code, old
  <2>2. u = Flush(t, e.ln) /\ Image(k) = old
    <3>1. u = Flush(t, e.ln)
      BY Zenon, <1>5, <2>1 DEF Place
    <3> QED BY <1>10, <2>1, <3>1, NoBytes
  <2>3. a + size \in Int /\ a + size >= a
    BY <1>7, <2>1
  <2>4. Placed(Flush(t, e.ln), a + size, old)
    BY <1>9, <1>11, <2>3, PlacedFlush
  <2> QED BY Zenon, <1>2, <2>2, <2>4 DEF u, e
<1>12. CASE e.ln.op \notin {"RESW", "RESB"}
  <2>1. Flush(t, e.ln) = t
    BY <1>12 DEF Flush
  <2>2. CASE code = <<>>
    <3>1. u = t /\ Image(k) = old /\ size = 0
      BY <1>5, <1>8, <1>10, <1>12, <2>1, <2>2, NoBytes DEF Place
    <3>2. e.PC = a
      BY <1>2, <1>7, <3>1
    <3> HIDE DEF t, u, a, size, code, old
    <3> QED BY Zenon, <1>9, <3>1, <3>2 DEF u, e
  <2>3. CASE code # <<>>
    <3>1. a % 2^24 = a
      <4> HIDE DEF a
      <4> QED BY <1>8, SixDigits
    <3>2. e.PC = a + Len(code) /\ Len(code) <= TextBytes
      BY <1>2, <1>8, <1>12
    <3> HIDE DEF t, u, a, size, code, old
    <3>3. Placed(Place(t, a, code), a + Len(code), old \cup BytesAt(a, code))
      BY <1>6, <1>9, <2>3, <3>1, <3>2, PlacedCode
    <3> QED BY Zenon, <1>5, <1>10, <2>1, <3>2, <3>3 DEF u, e
  <2> QED BY <2>2, <2>3
<1> QED BY <1>11, <1>12

LEMMA AllPlaced ==
  ASSUME NEW h, Assembly(asm, h, 1), Regular
  PROVE  \A i \in 0..Len(asm.out) - 1 : Placed(h[i].text, asm.out[i + 1].PC, Image(i + 1))
<1> DEFINE n == Len(asm.out) - 1
           P == {i \in 0..n : Placed(h[i].text, asm.out[i + 1].PC, Image(i + 1))}
           t == h[0].text
<1>1. /\ n \in Nat /\ asm.out \in Lists /\ t = Pass2Base(asm.symtab, asm.header).text
      /\ h[0] \in Pass2States(asm.symtab)
  <2>1. asm.out \in Lists /\ Len(asm.out) >= 1 /\ Len(asm.out) \in Nat
    BY LenProperties DEF Assembly, Consecutive, Lists
  <2>2. /\ h \in [0..n -> Pass2States(asm.symtab)]
        /\ t = Pass2Base(asm.symtab, asm.header).text
    BY DEF Assembly
  <2> HIDE DEF t
  <2>3. n \in Nat /\ 0 \in 0..n
    BY <2>1
  <2> QED BY <2>1, <2>2, <2>3
<1>2. t \in Texts
  BY <1>1 DEF Pass2States
<1>3. t.written = <<>> /\ t.body = <<>>
  BY <1>1 DEF Pass2Base
<1>4. asm.out[1].PC \in Int
  <2>1. 1 \in 1..Len(asm.out)
    BY <1>1
  <2>2. asm.out[1] \in [ln: Lines, LOCCTR: Int, PC: Int]
    BY <1>1, <2>1, ElementOfSeq DEF Lists
  <2> QED BY <2>2
<1>5. Image(1) = {}
  <2>1. 2..1 = {}
    OBVIOUS
  <2> QED BY <2>1 DEF Image
<1>6. 0 \in P
  <2> DEFINE pc == asm.out[1].PC
  <2> HIDE DEF t
  <2>1. RecordBytes(t.written) \cup BytesAt(t.loc, t.body) = {}
    <3>1. DOMAIN <<>> = {}
      OBVIOUS
    <3>2. RecordBytes(<<>>) = {}
      BY <3>1 DEF RecordBytes
    <3> QED BY <1>3, <3>2, NoBytes
  <2>2. TotalLength(t.written) = 0 /\ Len(t.body) = 0 /\ Len(t.written) = 0
    <3>1. <<>> \in Seq(Records) /\ [loc |-> 0, length |-> 0, body |-> <<>>] \in Records
      BY NoBytes DEF Records
    <3>2. TotalLength(<<>>) = 0
      BY <3>1, TotalAppended
    <3> QED BY <1>3, <3>2, NoBytes
  <2>3. Written(t.written)
    <3>1. 1..0 = {}
      OBVIOUS
    <3> QED BY <2>2, <3>1 DEF Written
  <2>4. IsFiniteSet({}) /\ Cardinality({}) = 0
    BY FS_EmptySet
  <2> HIDE DEF pc
  <2>5. Placed(t, pc, {})
    BY <1>2, <1>3, <1>4, <2>1, <2>2, <2>3, <2>4, SourceAssumption DEF Placed, pc
  <2>6. 0 \in 0..n /\ 0 + 1 = 1
    BY <1>1
  <2>7. Placed(h[0].text, asm.out[0 + 1].PC, Image(0 + 1))
    BY Zenon, <1>5, <2>5, <2>6 DEF t, pc
  <2> QED BY Zenon, <2>6, <2>7
<1>7. ASSUME NEW i \in 1..n, i - 1 \in P PROVE i \in P
  <2>1. i + 1 \in 2..Len(asm.out) /\ i \in 0..n /\ i \in Nat
    BY <1>1
  <2>2. PICK k \in 2..Len(asm.out) : k = i + 1
    BY <2>1
  <2> DEFINE g == i - 1
  <2>3. Placed(h[g].text, asm.out[g + 1].PC, Image(g + 1))
    BY <1>7
  <2>4. k - 2 = g /\ k - 1 = g + 1
    BY <2>1, <2>2
  <2> HIDE DEF g
  <2>5. Placed(h[k - 2].text, asm.out[k - 1].PC, Image(k - 1))
    BY Zenon, <2>3, <2>4
  <2>6. Placed(h[k - 1].text, asm.out[k].PC, Image(k))
    BY <2>5, LinePlaced
  <2>7. k - 1 = i
    BY <2>1, <2>2
  <2> QED BY Zenon, <2>1, <2>2, <2>6, <2>7
<1> HIDE DEF P, n
<1>8. \A i \in 0..n : i \in P
  BY <1>1, <1>6, <1>7, Upwards
<1> QED BY <1>8 DEF P, n

LEMMA AssemblyPlaced ==
  ASSUME IsAssembly
  PROVE  CodePlaced
<1> DEFINE T == asm.T
           image == UNION {BytesAt(asm.out[k].LOCCTR, Code(k)) : k \in AssembledLines}
<1>1. SUFFICES ASSUME asm.ok, Regular
               PROVE  /\ RecordBytes(T) = image
                      /\ TotalLength(T) = Cardinality(image)
                      /\ \A r \in DOMAIN T : Len(T[r].body) <= TextBytes
                      /\ \A r \in 1 .. Len(T) - 1 :
                           T[r].body # <<>> /\ T[r].length = Len(T[r].body)
  BY DEF CodePlaced, RecordBytes, TotalLength
<1>2. PICK h, off : Assembly(asm, h, off)
  <2>1. PICK src \in Sources : asm = Assembled(src)
    BY <1>1 DEF IsAssembly, NotYet
  <2>2. \E h, off : Assembly(Assembled(src), h, off)
    BY <1>1, <2>1, Assembles
  <2> QED BY <2>1, <2>2
<1>3. off = 1 /\ Assembly(asm, h, 1)
  <2>1. off = 1
    BY <1>1, <1>2 DEF Assembly, Regular
  <2> QED BY <1>2, <2>1
<1>4. /\ Consecutive(asm.out) /\ Len(asm.out) \in Nat /\ Len(asm.out) >= 1
      /\ DOMAIN asm.out = 1..Len(asm.out) /\ asm.out[1].ln.op = "START"
      /\ T = TextRecords(h[Len(asm.out) - 1].text)
  <2>1. asm.out \in Lists
    BY <1>3 DEF Assembly
  <2> QED BY <1>3, <2>1, LenProperties DEF Assembly, Consecutive, Lists
<1> DEFINE n == Len(asm.out)
           t == h[n - 1].text
<1>5. image = Image(n)
  <2>1. AssembledLines = 2..n
    <3>1. ASSUME NEW k \in 2..n PROVE k \in AssembledLines
      BY <1>4 DEF AssembledLines, Consecutive
    <3>2. ASSUME NEW k \in AssembledLines PROVE k \in 2..n
      <4>1. k \in 1..n /\ k # 1
        BY <1>4 DEF AssembledLines
      <4> QED BY <1>4, <4>1
    <3> QED BY <3>1, <3>2
  <2> QED BY <2>1 DEF Image
<1>6. Placed(t, asm.out[n].PC, Image(n))
  <2>1. n - 1 \in 0..n - 1 /\ n - 1 + 1 = n
    BY <1>4
  <2>2. Placed(t, asm.out[n - 1 + 1].PC, Image(n - 1 + 1))
    BY <1>1, <1>3, <2>1, AllPlaced
  <2> QED BY Zenon, <2>1, <2>2
<1> HIDE DEF T, image, t
<1> DEFINE last == [loc |-> t.loc, length |-> t.length, body |-> t.body]
           w == t.written
           m == Len(w)
<1>7. /\ T = Append(w, last) /\ w \in Seq(Records) /\ last \in Records
      /\ last.loc = t.loc /\ last.body = t.body
  <2>1. t \in Texts
    BY <1>6 DEF Placed
  <2>2. w \in Seq(Records) /\ last \in Records
    BY <2>1 DEF Texts, Records
  <2>3. T = Append(w, last)
    BY Zenon, <1>4 DEF TextRecords, t
  <2> QED BY <2>2, <2>3
<1> HIDE DEF last, w
<1>8. RecordBytes(T) = RecordBytes(w) \cup BytesAt(t.loc, t.body)
      /\ TotalLength(T) = TotalLength(w) + Len(t.body)
  BY <1>7, RecordAppended, TotalAppended
<1>9. /\ Len(T) = m + 1 /\ DOMAIN T = 1..m + 1 /\ m \in Nat
      /\ T[m + 1] = last /\ \A r \in 1..m : T[r] = w[r]
  <2> DEFINE v == Append(w, last)
  <2>1. /\ v \in Seq(Records) /\ Len(v) = m + 1 /\ v[m + 1] = last /\ \A r \in 1..m : v[r] = w[r]
    BY <1>7, AppendProperties
  <2>2. DOMAIN v = 1..Len(v) /\ m \in Nat
    BY <1>7, <2>1, LenProperties
  <2>3. T = v
    BY <1>7
  <2> HIDE DEF v, m
  <2> QED BY <2>1, <2>2, <2>3
<1>10. /\ Written(w) /\ Len(t.body) <= TextBytes
       /\ RecordBytes(w) \cup BytesAt(t.loc, t.body) = image
       /\ TotalLength(w) + Len(t.body) = Cardinality(image)
  BY <1>5, <1>6 DEF Placed, w
<1>11. \A r \in 1..m : T[r].body # <<>> /\ T[r].length = Len(T[r].body) /\ Len(T[r].body) <= TextBytes
  <2> TAKE r \in 1..m
  <2>1. w[r].body # <<>> /\ w[r].length = Len(w[r].body) /\ Len(w[r].body) <= TextBytes
    BY <1>10 DEF Written
  <2>2. T[r] = w[r]
    BY <1>9
  <2> QED BY Zenon, <2>1, <2>2
<1>12. \A r \in DOMAIN T : Len(T[r].body) <= TextBytes
  <2> TAKE r \in DOMAIN T
  <2>1. CASE r = m + 1
    <3>1. T[r].body = t.body
      BY Zenon, <1>7, <1>9, <2>1
    <3> QED BY <1>10, <3>1
  <2>2. CASE r # m + 1
    <3>1. r \in 1..m
      BY <1>9, <2>2
    <3> QED BY <1>11, <3>1
  <2> QED BY <2>1, <2>2
<1>13. \A r \in 1..Len(T) - 1 : r \in 1..m
  BY <1>9
<1>14. RecordBytes(T) = image /\ TotalLength(T) = Cardinality(image)
  BY Zenon, <1>8, <1>10
<1> QED BY <1>11, <1>12, <1>13, <1>14

\* Pass 2 regroups the code of the lines into records.  For every source whose
\* lines put out what pass 1 left room for: the records of the object program
\* hold the code of each line at the address pass 1 gave the line, no byte of it
\* twice, none is longer than a record may be, and all but the last say truly
\* how long they are.
THEOREM AssembledCode == SimSpec => []CodePlaced
<1>1. IsAssembly => CodePlaced
  BY AssemblyPlaced
<1> QED BY <1>1, AlwaysAssembly, PTL
-----------------------------------------------------------------------------
(* The loader: folds.                                                      *)

\* What a solution finds below an index is where it may go on.
LEMMA SolvedBelow ==
  ASSUME NEW S, NEW L, NEW n \in Nat, NEW seq \in [1..n -> L],
         NEW f \in [SUBSET (1..n) -> S], NEW s \in SUBSET (1..n), s # {}
  PROVE  f[s \ {Max(s)}] \in S /\ seq[Max(s)] \in L
<1>1. Max(s) \in 1..n /\ s \ {Max(s)} \in SUBSET (1..n)
  BY Greatest
<1> QED BY <1>1

\* g goes by the steps wherever it comes to S.
Steps(g, S, step, seq, n) ==
  \A s \in SUBSET (1..n) :
    s # {} /\ g[s \ {Max(s)}] \in S => g[s] = step[<<g[s \ {Max(s)}], seq[Max(s)]>>]

\* Each element comes from the one before it.
Chained(h, base, step, seq, n) ==
  h[0] = base /\ \A i \in 1..n : h[i] = step[<<h[i - 1], seq[i]>>]

\* What the folds below have in common.
Stepping(g, S, L, base, step, seq, n) ==
  /\ n \in Nat /\ base \in S /\ seq \in [1..n -> L] /\ step \in [S \X L -> S]
  /\ g[{}] = base /\ Steps(g, S, step, seq, n)

ChainIn(h, S, base, step, seq, n, last) ==
  h \in [0..n -> S] /\ h[n] = last /\ Chained(h, base, step, seq, n)

\* g along the sets of the first indices.
Along(g, n) == [i \in 0..n |-> g[1..i]]

\* Along the sets 1..i a function that steps from set to set is a chain.
LEMMA ChainOf ==
  ASSUME NEW S, NEW L, NEW base, NEW n, NEW seq, NEW step, NEW g,
         Stepping(g, S, L, base, step, seq, n)
  PROVE  ChainIn(Along(g, n), S, base, step, seq, n, g[1..n])
<1> USE DEF Stepping
<1> DEFINE h == Along(g, n)
           In == {i \in 0..n : h[i] \in S}
<1>1. h[0] = base
  <2>1. 1..0 = {} /\ 0 \in 0..n
    OBVIOUS
  <2> QED BY <2>1 DEF Along
<1>2. ASSUME NEW i \in 1..n, h[i - 1] \in S PROVE h[i] = step[<<h[i - 1], seq[i]>>] /\ h[i] \in S
  <2>1. i \in Nat /\ i - 1 \in 0..n /\ i \in 0..n /\ i \in 1..i
    OBVIOUS
  <2>2. 1..i \in SUBSET (1..n) /\ 1..i # {}
    <3>1. \A j \in 1..i : j \in 1..n
      BY <2>1
    <3> QED BY <2>1, <3>1
  <2>6. (1..i) \ {i} = 1..(i - 1)
    BY <2>1
  <2>3. Max(1..i) = i
    <3>1. 1..i \in SUBSET (1..i) /\ \A j \in 1..i : j <= i
      BY <2>1
    <3> QED BY <2>1, <3>1, GreatestUnique
  <2>4. h[i - 1] = g[(1..i) \ {i}] /\ h[i] = g[1..i]
    BY <2>1, <2>6 DEF Along
  <2>5. g[1..i] = step[<<g[(1..i) \ {i}], seq[i]>>]
    BY <1>2, <2>2, <2>3, <2>4 DEF Steps
  <2> QED BY <1>2, <2>4, <2>5
<1> HIDE DEF h
<1>3. \A i \in 0..n : i \in In
  <2>1. 0 \in In
    BY <1>1
  <2>2. ASSUME NEW i \in 1..n, i - 1 \in In PROVE i \in In
    <3>1. i \in 0..n /\ h[i - 1] \in S
      BY <2>2
    <3> QED BY <1>2, <3>1
  <2> HIDE DEF In
  <2> QED BY <2>1, <2>2, Upwards
<1>4. h \in [0..n -> S]
  BY <1>3 DEF h, Along
<1>5. \A i \in 1..n : h[i] = step[<<h[i - 1], seq[i]>>]
  <2> TAKE i \in 1..n
  <2>1. i - 1 \in 0..n
    OBVIOUS
  <2> QED BY <1>2, <1>3, <2>1
<1>6. h[n] = g[1..n]
  BY DEF h, Along
<1> QED BY <1>1, <1>4, <1>5, <1>6 DEF Chained, ChainIn, h
-----------------------------------------------------------------------------
(* The folds of the loader and of what is said of it, each the end of a    *)
-----------------------------------------------------------------------------
(* chain.                                                                  *)
DefineRun(base, seq)    == FoldLeft(Define, base, seq)
Pass1FileRun(base, seq) == FoldLeft(Pass1File, base, seq)
LoadTextRun(base, seq)  == FoldLeft(LoadText, base, seq)
ModifyRun(base, seq)    == FoldLeft(Modify, base, seq)
Pass2FileRun(base, seq) == FoldLeft(Pass2File, base, seq)

AddSection(n, o)   == n + o.length
SectionLengths(seq) == FoldLeft(LAMBDA n, o : n + o.length, 0, seq)

AddField(objs, at, k, a, j, m) ==
  IF SectionAt(objs, k, at) + m.loc = a THEN j + Value(objs, k, m, at) ELSE j
FileSum(objs, at, k, a, base, seq) ==
  FoldLeft(LAMBDA j, m : IF SectionAt(objs, k, at) + m.loc = a
                         THEN j + Value(objs, k, m, at) ELSE j, base, seq)
FileSums(objs, at, a, seq) ==
  FoldLeft(LAMBDA n, k :
             FoldLeft(LAMBDA j, m : IF SectionAt(objs, k, at) + m.loc = a
                                    THEN j + Value(objs, k, m, at) ELSE j, n, objs[k].M),
           0, seq)

DefineChain(h, base, seq) ==
  h[0] = base /\ \A i \in 1..Len(seq) : h[i] = Define(h[i - 1], seq[i])
\* A chain of Define.
LEMMA DefineFold ==
  ASSUME NEW S, NEW L, NEW base \in S, NEW seq \in Seq(L),
         \A s \in S, l \in L : Define(s, l) \in S
  PROVE  \E h \in [0..Len(seq) -> S] :
           DefineChain(h, base, seq) /\ DefineRun(base, seq) = h[Len(seq)]
<1> DEFINE n == Len(seq)
           step == [p \in S \X L |-> Define(p[1], p[2])]
           y(g, s) == IF s = {} THEN base ELSE Define(g[s \ {Max(s)}], seq[Max(s)])
           P(g) == g = [s \in SUBSET (DOMAIN seq) |-> y(g, s)]
<1>1. n \in Nat /\ DOMAIN seq = 1..n /\ seq \in [1..n -> L]
  BY LenProperties
<1>2. DefineRun(base, seq) = (CHOOSE g : P(g))[DOMAIN seq]
  BY DEF DefineRun, FoldLeft, MapThenFoldSet
<1>3. step \in [S \X L -> S] /\ \A s \in S, l \in L : step[<<s, l>>] = Define(s, l)
  OBVIOUS
<1> HIDE DEF n, step
<1>4. PICK f \in [SUBSET (1..n) -> S] : Solves(f, step, base, seq, n)
  BY <1>1, <1>3, SolutionExists
<1>5. ASSUME NEW s \in SUBSET (1..n) PROVE f[s] = y(f, s)
  <2>1. CASE s = {}
    BY <1>4, <2>1 DEF Solves
  <2>2. CASE s # {}
    <3>1. f[s] = step[<<f[s \ {Max(s)}], seq[Max(s)]>>]
      BY <1>4, <2>2 DEF Solves
    <3>2. f[s \ {Max(s)}] \in S /\ seq[Max(s)] \in L
      BY <1>1, <1>4, <2>2, SolvedBelow
    <3> QED BY <1>3, <2>2, <3>1, <3>2
  <2> QED BY <2>1, <2>2
<1>6. P(f)
  <2>1. f = [s \in SUBSET (1..n) |-> f[s]]
    BY <1>4
  <2> HIDE DEF y
  <2> QED BY <1>1, <1>5, <2>1
<1> HIDE DEF P
<1>7. PICK g : g = (CHOOSE x : P(x)) /\ P(g)
  BY <1>6
<1>8. \A s \in SUBSET (1..n) : g[s] = y(g, s)
  <2> HIDE DEF y
  <2> QED BY <1>1, <1>7 DEF P
<1>9. PICK h \in [0..n -> S] : h[n] = g[1..n] /\ Chained(h, base, step, seq, n)
  <2>1. g[{}] = base
    BY <1>8
  <2>2. ASSUME NEW s \in SUBSET (1..n), s # {}, g[s \ {Max(s)}] \in S
        PROVE  g[s] = step[<<g[s \ {Max(s)}], seq[Max(s)]>>]
    <3>1. seq[Max(s)] \in L
      BY <1>1, <2>2, Greatest
    <3> QED BY <1>3, <1>8, <2>2, <3>1
  <2>3. Steps(g, S, step, seq, n)
    BY <2>2 DEF Steps
  <2>4. n \in Nat /\ seq \in [1..n -> L] /\ step \in [S \X L -> S]
    BY <1>1, <1>3
  <2>5. Stepping(g, S, L, base, step, seq, n)
    BY <2>1, <2>3, <2>4 DEF Stepping
  <2>6. ChainIn(Along(g, n), S, base, step, seq, n, g[1..n])
    BY Zenon, <2>5, ChainOf
  <2> QED BY <2>6 DEF ChainIn
<1>10. \A i \in 1..n : h[i] = Define(h[i - 1], seq[i])
  <2> TAKE i \in 1..n
  <2>1. h[i - 1] \in S /\ seq[i] \in L
    BY <1>1, <1>9
  <2> QED BY <1>3, <1>9, <2>1 DEF Chained
<1>11. DefineChain(h, base, seq)
  BY <1>9, <1>10 DEF n, Chained, DefineChain
<1> QED BY <1>1, <1>2, <1>7, <1>9, <1>11 DEF n

Pass1FileChain(h, base, seq) ==
  h[0] = base /\ \A i \in 1..Len(seq) : h[i] = Pass1File(h[i - 1], seq[i])
\* A chain of Pass1File.
LEMMA Pass1FileFold ==
  ASSUME NEW S, NEW L, NEW base \in S, NEW seq \in Seq(L),
         \A s \in S, l \in L : Pass1File(s, l) \in S
  PROVE  \E h \in [0..Len(seq) -> S] :
           Pass1FileChain(h, base, seq) /\ Pass1FileRun(base, seq) = h[Len(seq)]
<1> DEFINE n == Len(seq)
           step == [p \in S \X L |-> Pass1File(p[1], p[2])]
           y(g, s) == IF s = {} THEN base ELSE Pass1File(g[s \ {Max(s)}], seq[Max(s)])
           P(g) == g = [s \in SUBSET (DOMAIN seq) |-> y(g, s)]
<1>1. n \in Nat /\ DOMAIN seq = 1..n /\ seq \in [1..n -> L]
  BY LenProperties
<1>2. Pass1FileRun(base, seq) = (CHOOSE g : P(g))[DOMAIN seq]
  BY DEF Pass1FileRun, FoldLeft, MapThenFoldSet
<1>3. step \in [S \X L -> S] /\ \A s \in S, l \in L : step[<<s, l>>] = Pass1File(s, l)
  OBVIOUS
<1> HIDE DEF n, step
<1>4. PICK f \in [SUBSET (1..n) -> S] : Solves(f, step, base, seq, n)
  BY <1>1, <1>3, SolutionExists
<1>5. ASSUME NEW s \in SUBSET (1..n) PROVE f[s] = y(f, s)
  <2>1. CASE s = {}
    BY <1>4, <2>1 DEF Solves
  <2>2. CASE s # {}
    <3>1. f[s] = step[<<f[s \ {Max(s)}], seq[Max(s)]>>]
      BY <1>4, <2>2 DEF Solves
    <3>2. f[s \ {Max(s)}] \in S /\ seq[Max(s)] \in L
      BY <1>1, <1>4, <2>2, SolvedBelow
    <3> QED BY <1>3, <2>2, <3>1, <3>2
  <2> QED BY <2>1, <2>2
<1>6. P(f)
  <2>1. f = [s \in SUBSET (1..n) |-> f[s]]
    BY <1>4
  <2> HIDE DEF y
  <2> QED BY <1>1, <1>5, <2>1
<1> HIDE DEF P
<1>7. PICK g : g = (CHOOSE x : P(x)) /\ P(g)
  BY <1>6
<1>8. \A s \in SUBSET (1..n) : g[s] = y(g, s)
  <2> HIDE DEF y
  <2> QED BY <1>1, <1>7 DEF P
<1>9. PICK h \in [0..n -> S] : h[n] = g[1..n] /\ Chained(h, base, step, seq, n)
  <2>1. g[{}] = base
    BY <1>8
  <2>2. ASSUME NEW s \in SUBSET (1..n), s # {}, g[s \ {Max(s)}] \in S
        PROVE  g[s] = step[<<g[s \ {Max(s)}], seq[Max(s)]>>]
    <3>1. seq[Max(s)] \in L
      BY <1>1, <2>2, Greatest
    <3> QED BY <1>3, <1>8, <2>2, <3>1
  <2>3. Steps(g, S, step, seq, n)
    BY <2>2 DEF Steps
  <2>4. n \in Nat /\ seq \in [1..n -> L] /\ step \in [S \X L -> S]
    BY <1>1, <1>3
  <2>5. Stepping(g, S, L, base, step, seq, n)
    BY <2>1, <2>3, <2>4 DEF Stepping
  <2>6. ChainIn(Along(g, n), S, base, step, seq, n, g[1..n])
    BY Zenon, <2>5, ChainOf
  <2> QED BY <2>6 DEF ChainIn
<1>10. \A i \in 1..n : h[i] = Pass1File(h[i - 1], seq[i])
  <2> TAKE i \in 1..n
  <2>1. h[i - 1] \in S /\ seq[i] \in L
    BY <1>1, <1>9
  <2> QED BY <1>3, <1>9, <2>1 DEF Chained
<1>11. Pass1FileChain(h, base, seq)
  BY <1>9, <1>10 DEF n, Chained, Pass1FileChain
<1> QED BY <1>1, <1>2, <1>7, <1>9, <1>11 DEF n

LoadTextChain(h, base, seq) ==
  h[0] = base /\ \A i \in 1..Len(seq) : h[i] = LoadText(h[i - 1], seq[i])
\* A chain of LoadText.
LEMMA LoadTextFold ==
  ASSUME NEW S, NEW L, NEW base \in S, NEW seq \in Seq(L),
         \A s \in S, l \in L : LoadText(s, l) \in S
  PROVE  \E h \in [0..Len(seq) -> S] :
           LoadTextChain(h, base, seq) /\ LoadTextRun(base, seq) = h[Len(seq)]
<1> DEFINE n == Len(seq)
           step == [p \in S \X L |-> LoadText(p[1], p[2])]
           y(g, s) == IF s = {} THEN base ELSE LoadText(g[s \ {Max(s)}], seq[Max(s)])
           P(g) == g = [s \in SUBSET (DOMAIN seq) |-> y(g, s)]
<1>1. n \in Nat /\ DOMAIN seq = 1..n /\ seq \in [1..n -> L]
  BY LenProperties
<1>2. LoadTextRun(base, seq) = (CHOOSE g : P(g))[DOMAIN seq]
  BY DEF LoadTextRun, FoldLeft, MapThenFoldSet
<1>3. step \in [S \X L -> S] /\ \A s \in S, l \in L : step[<<s, l>>] = LoadText(s, l)
  OBVIOUS
<1> HIDE DEF n, step
<1>4. PICK f \in [SUBSET (1..n) -> S] : Solves(f, step, base, seq, n)
  BY <1>1, <1>3, SolutionExists
<1>5. ASSUME NEW s \in SUBSET (1..n) PROVE f[s] = y(f, s)
  <2>1. CASE s = {}
    BY <1>4, <2>1 DEF Solves
  <2>2. CASE s # {}
    <3>1. f[s] = step[<<f[s \ {Max(s)}], seq[Max(s)]>>]
      BY <1>4, <2>2 DEF Solves
    <3>2. f[s \ {Max(s)}] \in S /\ seq[Max(s)] \in L
      BY <1>1, <1>4, <2>2, SolvedBelow
    <3> QED BY <1>3, <2>2, <3>1, <3>2
  <2> QED BY <2>1, <2>2
<1>6. P(f)
  <2>1. f = [s \in SUBSET (1..n) |-> f[s]]
    BY <1>4
  <2> HIDE DEF y
  <2> QED BY <1>1, <1>5, <2>1
<1> HIDE DEF P
<1>7. PICK g : g = (CHOOSE x : P(x)) /\ P(g)
  BY <1>6
<1>8. \A s \in SUBSET (1..n) : g[s] = y(g, s)
  <2> HIDE DEF y
  <2> QED BY <1>1, <1>7 DEF P
<1>9. PICK h \in [0..n -> S] : h[n] = g[1..n] /\ Chained(h, base, step, seq, n)
  <2>1. g[{}] = base
    BY <1>8
  <2>2. ASSUME NEW s \in SUBSET (1..n), s # {}, g[s \ {Max(s)}] \in S
        PROVE  g[s] = step[<<g[s \ {Max(s)}], seq[Max(s)]>>]
    <3>1. seq[Max(s)] \in L
      BY <1>1, <2>2, Greatest
    <3> QED BY <1>3, <1>8, <2>2, <3>1
  <2>3. Steps(g, S, step, seq, n)
    BY <2>2 DEF Steps
  <2>4. n \in Nat /\ seq \in [1..n -> L] /\ step \in [S \X L -> S]
    BY <1>1, <1>3
  <2>5. Stepping(g, S, L, base, step, seq, n)
    BY <2>1, <2>3, <2>4 DEF Stepping
  <2>6. ChainIn(Along(g, n), S, base, step, seq, n, g[1..n])
    BY Zenon, <2>5, ChainOf
  <2> QED BY <2>6 DEF ChainIn
<1>10. \A i \in 1..n : h[i] = LoadText(h[i - 1], seq[i])
  <2> TAKE i \in 1..n
  <2>1. h[i - 1] \in S /\ seq[i] \in L
    BY <1>1, <1>9
  <2> QED BY <1>3, <1>9, <2>1 DEF Chained
<1>11. LoadTextChain(h, base, seq)
  BY <1>9, <1>10 DEF n, Chained, LoadTextChain
<1> QED BY <1>1, <1>2, <1>7, <1>9, <1>11 DEF n

ModifyChain(h, base, seq) ==
  h[0] = base /\ \A i \in 1..Len(seq) : h[i] = Modify(h[i - 1], seq[i])
\* A chain of Modify.
LEMMA ModifyFold ==
  ASSUME NEW S, NEW L, NEW base \in S, NEW seq \in Seq(L),
         \A s \in S, l \in L : Modify(s, l) \in S
  PROVE  \E h \in [0..Len(seq) -> S] :
           ModifyChain(h, base, seq) /\ ModifyRun(base, seq) = h[Len(seq)]
<1> DEFINE n == Len(seq)
           step == [p \in S \X L |-> Modify(p[1], p[2])]
           y(g, s) == IF s = {} THEN base ELSE Modify(g[s \ {Max(s)}], seq[Max(s)])
           P(g) == g = [s \in SUBSET (DOMAIN seq) |-> y(g, s)]
<1>1. n \in Nat /\ DOMAIN seq = 1..n /\ seq \in [1..n -> L]
  BY LenProperties
<1>2. ModifyRun(base, seq) = (CHOOSE g : P(g))[DOMAIN seq]
  BY DEF ModifyRun, FoldLeft, MapThenFoldSet
<1>3. step \in [S \X L -> S] /\ \A s \in S, l \in L : step[<<s, l>>] = Modify(s, l)
  OBVIOUS
<1> HIDE DEF n, step
<1>4. PICK f \in [SUBSET (1..n) -> S] : Solves(f, step, base, seq, n)
  BY <1>1, <1>3, SolutionExists
<1>5. ASSUME NEW s \in SUBSET (1..n) PROVE f[s] = y(f, s)
  <2>1. CASE s = {}
    BY <1>4, <2>1 DEF Solves
  <2>2. CASE s # {}
    <3>1. f[s] = step[<<f[s \ {Max(s)}], seq[Max(s)]>>]
      BY <1>4, <2>2 DEF Solves
    <3>2. f[s \ {Max(s)}] \in S /\ seq[Max(s)] \in L
      BY <1>1, <1>4, <2>2, SolvedBelow
    <3> QED BY <1>3, <2>2, <3>1, <3>2
  <2> QED BY <2>1, <2>2
<1>6. P(f)
  <2>1. f = [s \in SUBSET (1..n) |-> f[s]]
    BY <1>4
  <2> HIDE DEF y
  <2> QED BY <1>1, <1>5, <2>1
<1> HIDE DEF P
<1>7. PICK g : g = (CHOOSE x : P(x)) /\ P(g)
  BY <1>6
<1>8. \A s \in SUBSET (1..n) : g[s] = y(g, s)
  <2> HIDE DEF y
  <2> QED BY <1>1, <1>7 DEF P
<1>9. PICK h \in [0..n -> S] : h[n] = g[1..n] /\ Chained(h, base, step, seq, n)
  <2>1. g[{}] = base
    BY <1>8
  <2>2. ASSUME NEW s \in SUBSET (1..n), s # {}, g[s \ {Max(s)}] \in S
        PROVE  g[s] = step[<<g[s \ {Max(s)}], seq[Max(s)]>>]
    <3>1. seq[Max(s)] \in L
      BY <1>1, <2>2, Greatest
    <3> QED BY <1>3, <1>8, <2>2, <3>1
  <2>3. Steps(g, S, step, seq, n)
    BY <2>2 DEF Steps
  <2>4. n \in Nat /\ seq \in [1..n -> L] /\ step \in [S \X L -> S]
    BY <1>1, <1>3
  <2>5. Stepping(g, S, L, base, step, seq, n)
    BY <2>1, <2>3, <2>4 DEF Stepping
  <2>6. ChainIn(Along(g, n), S, base, step, seq, n, g[1..n])
    BY Zenon, <2>5, ChainOf
  <2> QED BY <2>6 DEF ChainIn
<1>10. \A i \in 1..n : h[i] = Modify(h[i - 1], seq[i])
  <2> TAKE i \in 1..n
  <2>1. h[i - 1] \in S /\ seq[i] \in L
    BY <1>1, <1>9
  <2> QED BY <1>3, <1>9, <2>1 DEF Chained
<1>11. ModifyChain(h, base, seq)
  BY <1>9, <1>10 DEF n, Chained, ModifyChain
<1> QED BY <1>1, <1>2, <1>7, <1>9, <1>11 DEF n

Pass2FileChain(h, base, seq) ==
  h[0] = base /\ \A i \in 1..Len(seq) : h[i] = Pass2File(h[i - 1], seq[i])
\* A chain of Pass2File.
LEMMA Pass2FileFold ==
  ASSUME NEW S, NEW L, NEW base \in S, NEW seq \in Seq(L),
         \A s \in S, l \in L : Pass2File(s, l) \in S
  PROVE  \E h \in [0..Len(seq) -> S] :
           Pass2FileChain(h, base, seq) /\ Pass2FileRun(base, seq) = h[Len(seq)]
<1> DEFINE n == Len(seq)
           step == [p \in S \X L |-> Pass2File(p[1], p[2])]
           y(g, s) == IF s = {} THEN base ELSE Pass2File(g[s \ {Max(s)}], seq[Max(s)])
           P(g) == g = [s \in SUBSET (DOMAIN seq) |-> y(g, s)]
<1>1. n \in Nat /\ DOMAIN seq = 1..n /\ seq \in [1..n -> L]
  BY LenProperties
<1>2. Pass2FileRun(base, seq) = (CHOOSE g : P(g))[DOMAIN seq]
  BY DEF Pass2FileRun, FoldLeft, MapThenFoldSet
<1>3. step \in [S \X L -> S] /\ \A s \in S, l \in L : step[<<s, l>>] = Pass2File(s, l)
  OBVIOUS
<1> HIDE DEF n, step
<1>4. PICK f \in [SUBSET (1..n) -> S] : Solves(f, step, base, seq, n)
  BY <1>1, <1>3, SolutionExists
<1>5. ASSUME NEW s \in SUBSET (1..n) PROVE f[s] = y(f, s)
  <2>1. CASE s = {}
    BY <1>4, <2>1 DEF Solves
  <2>2. CASE s # {}
    <3>1. f[s] = step[<<f[s \ {Max(s)}], seq[Max(s)]>>]
      BY <1>4, <2>2 DEF Solves
    <3>2. f[s \ {Max(s)}] \in S /\ seq[Max(s)] \in L
      BY <1>1, <1>4, <2>2, SolvedBelow
    <3> QED BY <1>3, <2>2, <3>1, <3>2
  <2> QED BY <2>1, <2>2
<1>6. P(f)
  <2>1. f = [s \in SUBSET (1..n) |-> f[s]]
    BY <1>4
  <2> HIDE DEF y
  <2> QED BY <1>1, <1>5, <2>1
<1> HIDE DEF P
<1>7. PICK g : g = (CHOOSE x : P(x)) /\ P(g)
  BY <1>6
<1>8. \A s \in SUBSET (1..n) : g[s] = y(g, s)
  <2> HIDE DEF y
  <2> QED BY <1>1, <1>7 DEF P
<1>9. PICK h \in [0..n -> S] : h[n] = g[1..n] /\ Chained(h, base, step, seq, n)
  <2>1. g[{}] = base
    BY <1>8
  <2>2. ASSUME NEW s \in SUBSET (1..n), s # {}, g[s \ {Max(s)}] \in S
        PROVE  g[s] = step[<<g[s \ {Max(s)}], seq[Max(s)]>>]
    <3>1. seq[Max(s)] \in L
      BY <1>1, <2>2, Greatest
    <3> QED BY <1>3, <1>8, <2>2, <3>1
  <2>3. Steps(g, S, step, seq, n)
    BY <2>2 DEF Steps
  <2>4. n \in Nat /\ seq \in [1..n -> L] /\ step \in [S \X L -> S]
    BY <1>1, <1>3
  <2>5. Stepping(g, S, L, base, step, seq, n)
    BY <2>1, <2>3, <2>4 DEF Stepping
  <2>6. ChainIn(Along(g, n), S, base, step, seq, n, g[1..n])
    BY Zenon, <2>5, ChainOf
  <2> QED BY <2>6 DEF ChainIn
<1>10. \A i \in 1..n : h[i] = Pass2File(h[i - 1], seq[i])
  <2> TAKE i \in 1..n
  <2>1. h[i - 1] \in S /\ seq[i] \in L
    BY <1>1, <1>9
  <2> QED BY <1>3, <1>9, <2>1 DEF Chained
<1>11. Pass2FileChain(h, base, seq)
  BY <1>9, <1>10 DEF n, Chained, Pass2FileChain
<1> QED BY <1>1, <1>2, <1>7, <1>9, <1>11 DEF n

SectionChain(h, seq) ==
  h[0] = 0 /\ \A i \in 1..Len(seq) : h[i] = AddSection(h[i - 1], seq[i])
\* The lengths of sections are summed up one by one.
LEMMA SectionFold ==
  ASSUME NEW S, NEW L, 0 \in S, NEW seq \in Seq(L),
         \A s \in S, l \in L : AddSection(s, l) \in S
  PROVE  \E h \in [0..Len(seq) -> S] :
           SectionChain(h, seq) /\ SectionLengths(seq) = h[Len(seq)]
<1> DEFINE n == Len(seq)
           step == [p \in S \X L |-> AddSection(p[1], p[2])]
           y(g, s) == IF s = {} THEN 0 ELSE AddSection(g[s \ {Max(s)}], seq[Max(s)])
           P(g) == g = [s \in SUBSET (DOMAIN seq) |-> y(g, s)]
<1>1. n \in Nat /\ DOMAIN seq = 1..n /\ seq \in [1..n -> L]
  BY LenProperties
<1>2. SectionLengths(seq) = (CHOOSE g : P(g))[DOMAIN seq]
  BY DEF SectionLengths, FoldLeft, MapThenFoldSet, AddSection
<1>3. step \in [S \X L -> S] /\ \A s \in S, l \in L : step[<<s, l>>] = AddSection(s, l)
  OBVIOUS
<1> HIDE DEF n, step
<1>4. PICK f \in [SUBSET (1..n) -> S] : Solves(f, step, 0, seq, n)
  BY <1>1, <1>3, SolutionExists
<1>5. ASSUME NEW s \in SUBSET (1..n) PROVE f[s] = y(f, s)
  <2>1. CASE s = {}
    BY <1>4, <2>1 DEF Solves
  <2>2. CASE s # {}
    <3>1. f[s] = step[<<f[s \ {Max(s)}], seq[Max(s)]>>]
      BY <1>4, <2>2 DEF Solves
    <3>2. f[s \ {Max(s)}] \in S /\ seq[Max(s)] \in L
      BY <1>1, <1>4, <2>2, SolvedBelow
    <3> QED BY <1>3, <2>2, <3>1, <3>2
  <2> QED BY <2>1, <2>2
<1>6. P(f)
  <2>1. f = [s \in SUBSET (1..n) |-> f[s]]
    BY <1>4
  <2> HIDE DEF y
  <2> QED BY <1>1, <1>5, <2>1
<1> HIDE DEF P
<1>7. PICK g : g = (CHOOSE x : P(x)) /\ P(g)
  BY <1>6
<1>8. \A s \in SUBSET (1..n) : g[s] = y(g, s)
  <2> HIDE DEF y
  <2> QED BY <1>1, <1>7 DEF P
<1>9. PICK h \in [0..n -> S] : h[n] = g[1..n] /\ Chained(h, 0, step, seq, n)
  <2>1. g[{}] = 0
    BY <1>8
  <2>2. ASSUME NEW s \in SUBSET (1..n), s # {}, g[s \ {Max(s)}] \in S
        PROVE  g[s] = step[<<g[s \ {Max(s)}], seq[Max(s)]>>]
    <3>1. seq[Max(s)] \in L
      BY <1>1, <2>2, Greatest
    <3> QED BY <1>3, <1>8, <2>2, <3>1
  <2>3. Steps(g, S, step, seq, n)
    BY <2>2 DEF Steps
  <2>4. n \in Nat /\ seq \in [1..n -> L] /\ step \in [S \X L -> S]
    BY <1>1, <1>3
  <2>5. Stepping(g, S, L, 0, step, seq, n)
    BY <2>1, <2>3, <2>4 DEF Stepping
  <2>6. ChainIn(Along(g, n), S, 0, step, seq, n, g[1..n])
    BY Zenon, <2>5, ChainOf
  <2> QED BY <2>6 DEF ChainIn
<1>10. \A i \in 1..n : h[i] = AddSection(h[i - 1], seq[i])
  <2> TAKE i \in 1..n
  <2>1. h[i - 1] \in S /\ seq[i] \in L
    BY <1>1, <1>9
  <2> QED BY <1>3, <1>9, <2>1 DEF Chained
<1>11. SectionChain(h, seq)
  BY <1>9, <1>10 DEF n, Chained, SectionChain
<1> QED BY <1>1, <1>2, <1>7, <1>9, <1>11 DEF n

FileSumChain(objs, at, k, a, h, base, seq) ==
  h[0] = base /\ \A i \in 1..Len(seq) : h[i] = AddField(objs, at, k, a, h[i - 1], seq[i])

\* What FileSumFold takes for granted.
Summable(S, L, objs, at, k, a, base, seq) ==
  /\ base \in S /\ seq \in Seq(L)
  /\ \A s \in S, l \in L : AddField(objs, at, k, a, s, l) \in S

\* So are the values for one field within a file.
LEMMA FileSumFold ==
  ASSUME NEW S, NEW L, NEW objs, NEW at, NEW k, NEW a, NEW base, NEW seq,
         Summable(S, L, objs, at, k, a, base, seq)
  PROVE  \E h \in [0..Len(seq) -> S] :
           FileSumChain(objs, at, k, a, h, base, seq) /\ FileSum(objs, at, k, a, base, seq) = h[Len(seq)]
<1> USE DEF Summable
<1> DEFINE n == Len(seq)
           step == [p \in S \X L |-> AddField(objs, at, k, a, p[1], p[2])]
           y(g, s) == IF s = {} THEN base ELSE AddField(objs, at, k, a, g[s \ {Max(s)}], seq[Max(s)])
           P(g) == g = [s \in SUBSET (DOMAIN seq) |-> y(g, s)]
<1>1. n \in Nat /\ DOMAIN seq = 1..n /\ seq \in [1..n -> L]
  BY LenProperties
<1>2. FileSum(objs, at, k, a, base, seq) = (CHOOSE g : P(g))[DOMAIN seq]
  BY DEF FileSum, FoldLeft, MapThenFoldSet, AddField
<1>3. step \in [S \X L -> S] /\ \A s \in S, l \in L : step[<<s, l>>] = AddField(objs, at, k, a, s, l)
  OBVIOUS
<1> HIDE DEF n, step
<1>4. PICK f \in [SUBSET (1..n) -> S] : Solves(f, step, base, seq, n)
  BY <1>1, <1>3, SolutionExists
<1>5. ASSUME NEW s \in SUBSET (1..n) PROVE f[s] = y(f, s)
  <2>1. CASE s = {}
    BY <1>4, <2>1 DEF Solves
  <2>2. CASE s # {}
    <3>1. f[s] = step[<<f[s \ {Max(s)}], seq[Max(s)]>>]
      BY <1>4, <2>2 DEF Solves
    <3>2. f[s \ {Max(s)}] \in S /\ seq[Max(s)] \in L
      BY <1>1, <1>4, <2>2, SolvedBelow
    <3> QED BY <1>3, <2>2, <3>1, <3>2
  <2> QED BY <2>1, <2>2
<1>6. P(f)
  <2>1. f = [s \in SUBSET (1..n) |-> f[s]]
    BY <1>4
  <2> HIDE DEF y
  <2> QED BY <1>1, <1>5, <2>1
<1> HIDE DEF P
<1>7. PICK g : g = (CHOOSE x : P(x)) /\ P(g)
  BY <1>6
<1>8. \A s \in SUBSET (1..n) : g[s] = y(g, s)
  <2> HIDE DEF y
  <2> QED BY <1>1, <1>7 DEF P
<1>9. PICK h \in [0..n -> S] : h[n] = g[1..n] /\ Chained(h, base, step, seq, n)
  <2>1. g[{}] = base
    BY <1>8
  <2>2. ASSUME NEW s \in SUBSET (1..n), s # {}, g[s \ {Max(s)}] \in S
        PROVE  g[s] = step[<<g[s \ {Max(s)}], seq[Max(s)]>>]
    <3>1. seq[Max(s)] \in L
      BY <1>1, <2>2, Greatest
    <3> QED BY <1>3, <1>8, <2>2, <3>1
  <2>3. Steps(g, S, step, seq, n)
    BY <2>2 DEF Steps
  <2>4. n \in Nat /\ seq \in [1..n -> L] /\ step \in [S \X L -> S]
    BY <1>1, <1>3
  <2>5. Stepping(g, S, L, base, step, seq, n)
    BY <2>1, <2>3, <2>4 DEF Stepping
  <2>6. ChainIn(Along(g, n), S, base, step, seq, n, g[1..n])
    BY Zenon, <2>5, ChainOf
  <2> QED BY <2>6 DEF ChainIn
<1>10. \A i \in 1..n : h[i] = AddField(objs, at, k, a, h[i - 1], seq[i])
  <2> TAKE i \in 1..n
  <2>1. h[i - 1] \in S /\ seq[i] \in L
    BY <1>1, <1>9
  <2> QED BY <1>3, <1>9, <2>1 DEF Chained
<1>11. FileSumChain(objs, at, k, a, h, base, seq)
  BY <1>9, <1>10 DEF n, Chained, FileSumChain
<1> QED BY <1>1, <1>2, <1>7, <1>9, <1>11 DEF n

FileSumsChain(objs, at, a, h, seq) ==
  h[0] = 0 /\ \A i \in 1..Len(seq) : h[i] = FileSum(objs, at, seq[i], a, h[i - 1], objs[seq[i]].M)

\* What FileSumsFold takes for granted.
FilesSummable(S, L, objs, at, a, seq) ==
  /\ 0 \in S /\ seq \in Seq(L)
  /\ \A s \in S, l \in L : FileSum(objs, at, l, a, s, objs[l].M) \in S

\* And file by file.
LEMMA FileSumsFold ==
  ASSUME NEW S, NEW L, NEW objs, NEW at, NEW a, NEW seq,
         FilesSummable(S, L, objs, at, a, seq)
  PROVE  \E h \in [0..Len(seq) -> S] :
           FileSumsChain(objs, at, a, h, seq) /\ FileSums(objs, at, a, seq) = h[Len(seq)]
<1> USE DEF FilesSummable
<1> DEFINE n == Len(seq)
           step == [p \in S \X L |-> FileSum(objs, at, p[2], a, p[1], objs[p[2]].M)]
           y(g, s) == IF s = {} THEN 0 ELSE FileSum(objs, at, seq[Max(s)], a, g[s \ {Max(s)}], objs[seq[Max(s)]].M)
           P(g) == g = [s \in SUBSET (DOMAIN seq) |-> y(g, s)]
<1>1. n \in Nat /\ DOMAIN seq = 1..n /\ seq \in [1..n -> L]
  BY LenProperties
<1>2. FileSums(objs, at, a, seq) = (CHOOSE g : P(g))[DOMAIN seq]
  BY DEF FileSums, FoldLeft, MapThenFoldSet, FileSum
<1>3. step \in [S \X L -> S] /\ \A s \in S, l \in L : step[<<s, l>>] = FileSum(objs, at, l, a, s, objs[l].M)
  OBVIOUS
<1> HIDE DEF n, step
<1>4. PICK f \in [SUBSET (1..n) -> S] : Solves(f, step, 0, seq, n)
  BY <1>1, <1>3, SolutionExists
<1>5. ASSUME NEW s \in SUBSET (1..n) PROVE f[s] = y(f, s)
  <2>1. CASE s = {}
    BY <1>4, <2>1 DEF Solves
  <2>2. CASE s # {}
    <3>1. f[s] = step[<<f[s \ {Max(s)}], seq[Max(s)]>>]
      BY <1>4, <2>2 DEF Solves
    <3>2. f[s \ {Max(s)}] \in S /\ seq[Max(s)] \in L
      BY <1>1, <1>4, <2>2, SolvedBelow
    <3> QED BY <1>3, <2>2, <3>1, <3>2
  <2> QED BY <2>1, <2>2
<1>6. P(f)
  <2>1. f = [s \in SUBSET (1..n) |-> f[s]]
    BY <1>4
  <2> HIDE DEF y
  <2> QED BY <1>1, <1>5, <2>1
<1> HIDE DEF P
<1>7. PICK g : g = (CHOOSE x : P(x)) /\ P(g)
  BY <1>6
<1>8. \A s \in SUBSET (1..n) : g[s] = y(g, s)
  <2> HIDE DEF y
  <2> QED BY <1>1, <1>7 DEF P
<1>9. PICK h \in [0..n -> S] : h[n] = g[1..n] /\ Chained(h, 0, step, seq, n)
  <2>1. g[{}] = 0
    BY <1>8
  <2>2. ASSUME NEW s \in SUBSET (1..n), s # {}, g[s \ {Max(s)}] \in S
        PROVE  g[s] = step[<<g[s \ {Max(s)}], seq[Max(s)]>>]
    <3>1. seq[Max(s)] \in L
      BY <1>1, <2>2, Greatest
    <3> QED BY <1>3, <1>8, <2>2, <3>1
  <2>3. Steps(g, S, step, seq, n)
    BY <2>2 DEF Steps
  <2>4. n \in Nat /\ seq \in [1..n -> L] /\ step \in [S \X L -> S]
    BY <1>1, <1>3
  <2>5. Stepping(g, S, L, 0, step, seq, n)
    BY <2>1, <2>3, <2>4 DEF Stepping
  <2>6. ChainIn(Along(g, n), S, 0, step, seq, n, g[1..n])
    BY Zenon, <2>5, ChainOf
  <2> QED BY <2>6 DEF ChainIn
<1>10. \A i \in 1..n : h[i] = FileSum(objs, at, seq[i], a, h[i - 1], objs[seq[i]].M)
  <2> TAKE i \in 1..n
  <2>1. h[i - 1] \in S /\ seq[i] \in L
    BY <1>1, <1>9
  <2> QED BY <1>3, <1>9, <2>1 DEF Chained
<1>11. FileSumsChain(objs, at, a, h, seq)
  BY <1>9, <1>10 DEF n, Chained, FileSumsChain
<1> QED BY <1>1, <1>2, <1>7, <1>9, <1>11 DEF n
-----------------------------------------------------------------------------
(* What object programs and the table of external symbols are made of.    *)
Text         == [loc: Int, length: Int, body: Seq(Int)]
Definition   == [sym: Strings, addr: Nat]
Reference    == [ref: Nat, sym: Strings]
Modification == [loc: Nat, half: {5, 6}, sign: {"+", "-", "none"}, ref: Nat]

SymbolEntry == [sym: Strings, addr: Int]
FileEntry   == [cs: Strings, addr: Int, length: Nat, syms: Seq(SymbolEntry)]
LinkStates  == [ok: BOOLEAN, csaddr: Int, estab: Seq(FileEntry)]

\* The parts of an object program.
LEMMA ObjectParts ==
  ASSUME NEW o \in ObjectFile
  PROVE  /\ o.name \in Strings /\ o.length \in Nat /\ o.D \in Seq(Definition)
         /\ o.R \in Seq(Reference) /\ o.T \in Seq(Text) /\ o.M \in Seq(Modification)
         /\ o.E \in Int
BY DEF ObjectFile, Definition, Reference, Text, Modification

\* The lengths of the first sections, one after the other.
LEMMA SectionSums ==
  ASSUME NEW L, \A l \in L : l.length \in Nat, NEW seq \in Seq(L)
  PROVE  \E h \in [0..Len(seq) -> Nat] :
           /\ h[0] = 0 /\ \A i \in 1..Len(seq) : h[i] = h[i - 1] + seq[i].length
           /\ \A k \in 0..Len(seq) : SectionLengths(SubSeq(seq, 1, k)) = h[k]
<1>1. \A n \in Nat, l \in L : AddSection(n, l) \in Nat
  BY DEF AddSection
<1>2. ASSUME NEW x \in Seq(L)
      PROVE  \E h \in [0..Len(x) -> Nat] : SectionChain(h, x) /\ SectionLengths(x) = h[Len(x)]
  BY <1>1, SectionFold
<1>3. PICK h \in [0..Len(seq) -> Nat] : SectionChain(h, seq)
  BY <1>2
<1>4. ASSUME NEW k \in 0..Len(seq) PROVE SectionLengths(SubSeq(seq, 1, k)) = h[k]
  <2> DEFINE x == SubSeq(seq, 1, k)
  <2>1. x \in Seq(L) /\ Len(x) = k /\ \A i \in 1..k : x[i] = seq[i]
    BY LenProperties
  <2> HIDE DEF x
  <2>2. PICK y \in [0..k -> Nat] :
          SectionChain(y, x) /\ SectionLengths(x) = y[k]
    BY <1>2, <2>1
  <2> DEFINE Same == {i \in 0..k : y[i] = h[i]}
  <2>3. 0 \in Same
    BY <1>3, <2>2 DEF SectionChain
  <2>4. ASSUME NEW i \in 1..k, i - 1 \in Same PROVE i \in Same
    <3>1. i \in 1..Len(seq) /\ i \in 0..k
      BY LenProperties
    <3>2. y[i] = AddSection(y[i - 1], x[i]) /\ h[i] = AddSection(h[i - 1], seq[i])
      BY <1>3, <2>1, <2>2, <3>1 DEF SectionChain
    <3>3. y[i - 1] = h[i - 1] /\ x[i] = seq[i]
      BY <2>1, <2>4
    <3>4. y[i] = h[i]
      BY Zenon, <3>2, <3>3
    <3> QED BY <3>1, <3>4
  <2> HIDE DEF Same
  <2>5. \A i \in 0..k : i \in Same
    <3>1. k \in Nat
      BY LenProperties
    <3> QED BY <2>3, <2>4, <3>1, Upwards
  <2> QED BY <2>2, <2>5 DEF x, Same
<1> QED BY <1>3, <1>4 DEF SectionChain, AddSection

\* The sections lie one behind the other.
LEMMA SectionsFollow ==
  ASSUME NEW objs \in Seq(ObjectFile), NEW at \in Int
  PROVE  /\ SectionAt(objs, 1, at) = at
         /\ \A k \in 1..Len(objs) + 1 : SectionAt(objs, k, at) \in Int /\ SectionAt(objs, k, at) >= at
         /\ \A k \in 1..Len(objs) :
              SectionAt(objs, k + 1, at) = SectionAt(objs, k, at) + objs[k].length
<1>1. \A o \in ObjectFile : o.length \in Nat
  BY ObjectParts
<1>2. PICK h \in [0..Len(objs) -> Nat] :
        /\ h[0] = 0 /\ \A i \in 1..Len(objs) : h[i] = h[i - 1] + objs[i].length
        /\ \A k \in 0..Len(objs) : SectionLengths(SubSeq(objs, 1, k)) = h[k]
  BY <1>1, SectionSums
<1>3. ASSUME NEW k \in 1..Len(objs) + 1 PROVE SectionAt(objs, k, at) = at + h[k - 1]
  <2>1. k - 1 \in 0..Len(objs)
    BY LenProperties
  <2>2. SectionLengths(SubSeq(objs, 1, k - 1)) = h[k - 1]
    BY <1>2, <2>1
  <2>3. SectionAt(objs, k, at) = at + SectionLengths(SubSeq(objs, 1, k - 1))
    BY DEF SectionAt, SectionLengths
  <2> QED BY <2>2, <2>3
<1>4. Len(objs) \in Nat
  BY LenProperties
<1>5. ASSUME NEW k \in 1..Len(objs) + 1 PROVE h[k - 1] \in Nat
  <2>1. k - 1 \in 0..Len(objs)
    BY <1>4
  <2> QED BY <2>1
<1>6. SectionAt(objs, 1, at) = at
  <2>1. 1 \in 1..Len(objs) + 1 /\ 1 - 1 = 0
    BY <1>4
  <2>2. SectionAt(objs, 1, at) = at + h[0]
    BY Zenon, <1>3, <2>1
  <2> QED BY <1>2, <2>2
<1>7. ASSUME NEW k \in 1..Len(objs)
      PROVE  SectionAt(objs, k + 1, at) = SectionAt(objs, k, at) + objs[k].length
  <2>1. k \in 1..Len(objs) + 1 /\ k + 1 \in 1..Len(objs) + 1 /\ (k + 1) - 1 = k
    BY <1>4
  <2>2. SectionAt(objs, k + 1, at) = at + h[k] /\ SectionAt(objs, k, at) = at + h[k - 1]
    BY Zenon, <1>3, <2>1
  <2>3. h[k] = h[k - 1] + objs[k].length /\ h[k - 1] \in Nat /\ objs[k].length \in Nat
    BY <1>1, <1>2, <1>5, <2>1, ElementOfSeq
  <2> QED BY <2>2, <2>3
<1>8. ASSUME NEW k \in 1..Len(objs) + 1
      PROVE  SectionAt(objs, k, at) \in Int /\ SectionAt(objs, k, at) >= at
  BY <1>3, <1>5
<1> QED BY <1>6, <1>7, <1>8
-----------------------------------------------------------------------------
(* What pass 1 makes of the files: an entry for each.                     *)
SymbolsOf(objs, at, k, j) ==
  [i \in 1..j |-> [sym |-> objs[k].D[i].sym, addr |-> objs[k].D[i].addr + SectionAt(objs, k, at)]]

\* The entry of file k once it has j symbols.
EntryOf(objs, at, k, j) ==
  [cs |-> objs[k].name, addr |-> SectionAt(objs, k, at), length |-> objs[k].length,
   syms |-> SymbolsOf(objs, at, k, j)]

\* ESTAB after k files.
Table(objs, at, k) == [i \in 1..k |-> EntryOf(objs, at, i, Len(objs[i].D))]

\* Definition j of file k has no name of an earlier definition or section.
Fresh(objs, k, j) ==
  \A i \in 1..k : /\ objs[i].name # objs[k].D[j].sym
                  /\ \A l \in DOMAIN objs[i].D :
                       objs[i].D[l].sym = objs[k].D[j].sym => ~(i < k \/ l < j)

\* File k is one that pass 1 takes behind those before it.
Accepted(objs, k) ==
  /\ objs[k].name # "missing"
  /\ \A i \in 1..k - 1 : objs[i].name # objs[k].name
  /\ \A j \in 1..Len(objs[k].D) : Fresh(objs, k, j)

\* The last entry as j definitions leave it.
Begun(s, objs, at, k, j) ==
  /\ s.csaddr = SectionAt(objs, k, at) /\ Len(s.estab) = k
  /\ \A i \in 1..k - 1 : s.estab[i] = EntryOf(objs, at, i, Len(objs[i].D))
  /\ s.estab[k] = EntryOf(objs, at, k, j)

\* Its symbols, and one more.
LEMMA SymbolsType ==
  ASSUME NEW objs \in Seq(ObjectFile), NEW at \in Int, NEW k \in 1..Len(objs),
         NEW j \in 0..Len(objs[k].D)
  PROVE  /\ SymbolsOf(objs, at, k, j) \in Seq(SymbolEntry) /\ Len(SymbolsOf(objs, at, k, j)) = j
         /\ EntryOf(objs, at, k, j) \in FileEntry
<1>1. objs[k].D \in Seq(Definition) /\ objs[k].name \in Strings /\ objs[k].length \in Nat
  BY ElementOfSeq, ObjectParts
<1>2. SectionAt(objs, k, at) \in Int
  <2>1. k \in 1..Len(objs) + 1
    BY LenProperties
  <2> QED BY <2>1, SectionsFollow
<1>3. j \in Nat /\ \A i \in 1..j : i \in 1..Len(objs[k].D)
  BY <1>1, LenProperties
<1>4. ASSUME NEW i \in 1..j
      PROVE  [sym |-> objs[k].D[i].sym, addr |-> objs[k].D[i].addr + SectionAt(objs, k, at)]
               \in SymbolEntry
  <2>1. objs[k].D[i] \in Definition
    BY <1>1, <1>3, ElementOfSeq
  <2> QED BY <1>2, <2>1 DEF Definition, SymbolEntry
<1>5. SymbolsOf(objs, at, k, j) \in [1..j -> SymbolEntry]
  BY <1>4 DEF SymbolsOf
<1>6. SymbolsOf(objs, at, k, j) \in Seq(SymbolEntry) /\ Len(SymbolsOf(objs, at, k, j)) = j
  BY <1>3, <1>5, LenProperties
<1> QED BY <1>1, <1>2, <1>6 DEF EntryOf, FileEntry

\* Entering a symbol makes the next list of symbols.
LEMMA SymbolAppended ==
  ASSUME NEW objs \in Seq(ObjectFile), NEW at \in Int, NEW k \in 1..Len(objs),
         NEW j \in 1..Len(objs[k].D)
  PROVE  SymbolsOf(objs, at, k, j) =
           Append(SymbolsOf(objs, at, k, j - 1),
                  [sym |-> objs[k].D[j].sym,
                   addr |-> objs[k].D[j].addr + SectionAt(objs, k, at)])
<1> DEFINE e == [sym |-> objs[k].D[j].sym,
                 addr |-> objs[k].D[j].addr + SectionAt(objs, k, at)]
           old == SymbolsOf(objs, at, k, j - 1)
           new == SymbolsOf(objs, at, k, j)
<1>1. objs[k].D \in Seq(Definition)
  BY ElementOfSeq, ObjectParts
<1>2. j \in Nat /\ j - 1 \in 0..Len(objs[k].D) /\ j \in 0..Len(objs[k].D)
  BY <1>1, LenProperties
<1>3. /\ old \in Seq(SymbolEntry) /\ Len(old) = j - 1
      /\ new \in Seq(SymbolEntry) /\ Len(new) = j
  BY <1>2, SymbolsType
<1>4. new[j] = e /\ \A i \in 1..j - 1 : new[i] = old[i]
  BY <1>2 DEF SymbolsOf
<1>5. e \in SymbolEntry
  <2>1. new[j] \in SymbolEntry
    BY <1>2, <1>3, ElementOfSeq
  <2> QED BY <1>4, <2>1
<1> HIDE DEF e, old, new
<1>6. /\ Append(old, e) \in Seq(SymbolEntry) /\ Len(Append(old, e)) = j
      /\ Append(old, e)[j] = e /\ \A i \in 1..j - 1 : Append(old, e)[i] = old[i]
  BY <1>2, <1>3, <1>5, AppendProperties
<1>7. \A i \in 1..j : new[i] = Append(old, e)[i]
  BY <1>2, <1>4, <1>6
<1>8. new = Append(old, e)
  BY <1>2, <1>3, <1>6, <1>7, SeqEqual
<1> QED BY <1>8 DEF e, old, new

\* Define keeps the type of the state of pass 1.
LEMMA DefineKeeps ==
  ASSUME NEW s \in LinkStates, NEW d \in Definition
  PROVE  Define(s, d) \in LinkStates
<1> DEFINE k == Len(s.estab)
           e == [sym |-> d.sym, addr |-> d.addr + s.csaddr]
           new == [s EXCEPT !.estab[k].syms = Append(@, e)]
<1>1. s \in [ok: BOOLEAN, csaddr: Int, estab: Seq(FileEntry)] /\ e \in SymbolEntry
  BY DEF LinkStates, Definition, SymbolEntry
<1> HIDE DEF e
<1>2. CASE k \in 1..Len(s.estab)
  <2>1. s.estab[k] \in FileEntry
    BY <1>1, <1>2, ElementOfSeq
  <2>2. Append(s.estab[k].syms, e) \in Seq(SymbolEntry)
    BY <1>1, <2>1, AppendProperties DEF FileEntry
  <2>3. [s.estab[k] EXCEPT !.syms = Append(@, e)] \in FileEntry
    BY <2>1, <2>2 DEF FileEntry
  <2>4. [s.estab EXCEPT ![k] = [s.estab[k] EXCEPT !.syms = Append(@, e)]] \in Seq(FileEntry)
    BY <1>1, <1>2, <2>3, ExceptSeq
  <2>5. new.estab \in Seq(FileEntry) /\ new = [s EXCEPT !.estab = new.estab]
    BY <1>1, <2>4
  <2> HIDE DEF new
  <2>6. new \in LinkStates
    BY <1>1, <2>5 DEF LinkStates
  <2> QED BY <1>1, <2>6 DEF Define, new, e, LinkStates
<1>3. CASE k \notin 1..Len(s.estab)
  <2>1. DOMAIN s.estab = 1..Len(s.estab)
    BY <1>1, LenProperties
  <2>2. [s.estab EXCEPT ![k] = [s.estab[k] EXCEPT !.syms = Append(@, e)]] = s.estab
    BY <1>1, <1>3, <2>1
  <2>3. new = s
    BY <1>1, <2>2
  <2> HIDE DEF new
  <2> QED BY <1>1, <2>3 DEF Define, new, e, LinkStates
<1> QED BY <1>2, <1>3

\* A name is in ESTAB if one of the files or symbols entered has it.
LEMMA EnteredMeans ==
  ASSUME NEW objs \in Seq(ObjectFile), NEW at \in Int, NEW k \in 1..Len(objs),
         NEW j \in 1..Len(objs[k].D), NEW s \in LinkStates, Begun(s, objs, at, k, j - 1)
  PROVE  Entered(s.estab, objs[k].D[j].sym) <=> ~Fresh(objs, k, j)
<1> DEFINE sym == objs[k].D[j].sym
           upto(i) == IF i < k THEN Len(objs[i].D) ELSE j - 1
<1>1. /\ DOMAIN s.estab = 1..k /\ k \in Nat
      /\ \A i \in 1..k : i \in 1..Len(objs) /\ DOMAIN objs[i].D = 1..Len(objs[i].D)
                         /\ Len(objs[i].D) \in Nat
  <2>1. k \in Nat /\ \A i \in 1..k : i \in 1..Len(objs)
    BY LenProperties
  <2>2. ASSUME NEW i \in 1..k PROVE DOMAIN objs[i].D = 1..Len(objs[i].D) /\ Len(objs[i].D) \in Nat
    <3>1. objs[i].D \in Seq(Definition)
      BY <2>1, ElementOfSeq, ObjectParts
    <3> QED BY <3>1, LenProperties
  <2>3. DOMAIN s.estab = 1..k
    BY LenProperties DEF Begun, LinkStates
  <2> QED BY <2>1, <2>2, <2>3
<1>2. ASSUME NEW i \in 1..k PROVE s.estab[i] = EntryOf(objs, at, i, upto(i))
  BY <1>1, <1>2 DEF Begun
<1>3. ASSUME NEW i \in 1..k
      PROVE  /\ s.estab[i].cs = objs[i].name /\ DOMAIN s.estab[i].syms = 1..upto(i)
             /\ \A l \in 1..upto(i) : s.estab[i].syms[l].sym = objs[i].D[l].sym
  <2> HIDE DEF upto, sym
  <2>1. s.estab[i] = EntryOf(objs, at, i, upto(i))
    BY <1>2
  <2>2. s.estab[i].cs = objs[i].name /\ s.estab[i].syms = SymbolsOf(objs, at, i, upto(i))
    BY <2>1 DEF EntryOf
  <2> QED BY <2>2 DEF SymbolsOf
<1>4. ASSUME NEW i \in 1..k
      PROVE  HasName(s.estab[i], sym) <=>
               \/ objs[i].name = sym
               \/ \E l \in DOMAIN objs[i].D : objs[i].D[l].sym = sym /\ (i < k \/ l < j)
  <2>1. j \in Int /\ i \in Int
    BY LenProperties
  <2>2. ASSUME NEW l PROVE l \in 1..upto(i) <=> l \in DOMAIN objs[i].D /\ (i < k \/ l < j)
    <3>1. CASE i < k
      BY <1>1, <3>1
    <3>2. CASE ~(i < k)
      <4>1. i = k
        BY <1>1, <3>2
      <4> QED BY <1>1, <2>1, <3>2, <4>1
    <3> QED BY <3>1, <3>2
  <2> HIDE DEF upto, sym
  <2> QED BY <1>3, <2>2 DEF HasName
<1> HIDE DEF upto, sym
<1> QED BY <1>1, <1>4 DEF Entered, Fresh, sym

\* One D entry: it is taken if its name is new, and then the table is the next
\* one.
LEMMA DefineStep ==
  ASSUME NEW objs \in Seq(ObjectFile), NEW at \in Int, NEW k \in 1..Len(objs),
         NEW j \in 1..Len(objs[k].D), NEW s \in LinkStates, s.ok,
         Begun(s, objs, at, k, j - 1)
  PROVE  LET new == Define(s, objs[k].D[j]) IN
         (new.ok <=> Fresh(objs, k, j)) /\ (new.ok => Begun(new, objs, at, k, j))
<1> DEFINE d == objs[k].D[j]
           e == [sym |-> d.sym, addr |-> d.addr + s.csaddr]
           last == [s.estab[k] EXCEPT !.syms = Append(@, e)]
           new == [s EXCEPT !.estab[k].syms = Append(@, e)]
<1>1. s \in [ok: BOOLEAN, csaddr: Int, estab: Seq(FileEntry)] /\ s.ok /\ Len(s.estab) = k
  BY DEF LinkStates, Begun
<1>2. Entered(s.estab, d.sym) <=> ~Fresh(objs, k, j)
  BY EnteredMeans
<1>3. CASE ~Fresh(objs, k, j)
  <2>1. Define(s, d) = [s EXCEPT !.ok = FALSE]
    BY <1>2, <1>3 DEF Define
  <2> QED BY <1>1, <1>3, <2>1
<1>4. CASE Fresh(objs, k, j)
  <2>1. Define(s, d) = new
    BY <1>1, <1>2, <1>4 DEF Define
  <2>2. new.ok /\ new.csaddr = s.csaddr /\ new.estab = [s.estab EXCEPT ![k] = last]
    BY <1>1
  <2>3. last = EntryOf(objs, at, k, j)
    <3>1. s.estab[k] = EntryOf(objs, at, k, j - 1) /\ s.csaddr = SectionAt(objs, k, at)
      BY DEF Begun
    <3>2. SymbolsOf(objs, at, k, j) = Append(SymbolsOf(objs, at, k, j - 1), e)
      <4>1. SymbolsOf(objs, at, k, j) =
              Append(SymbolsOf(objs, at, k, j - 1),
                     [sym |-> d.sym, addr |-> d.addr + SectionAt(objs, k, at)])
        BY SymbolAppended
      <4> QED BY <3>1, <4>1
    <3> HIDE DEF e
    <3>3. last = [EntryOf(objs, at, k, j - 1) EXCEPT !.syms = Append(@, e)]
      BY <3>1
    <3>4. EntryOf(objs, at, k, j - 1).syms = SymbolsOf(objs, at, k, j - 1)
      BY DEF EntryOf
    <3>5. last = [EntryOf(objs, at, k, j - 1) EXCEPT !.syms = SymbolsOf(objs, at, k, j)]
      BY <3>2, <3>3, <3>4
    <3> QED BY <3>5 DEF EntryOf
  <2> HIDE DEF last, new
  <2>4. k \in 1..k /\ k \in Nat /\ j \in 0..Len(objs[k].D)
    <3>1. objs[k].D \in Seq(Definition)
      BY ElementOfSeq, ObjectParts
    <3> QED BY <3>1, LenProperties
  <2>5. last \in FileEntry
    BY <2>3, <2>4, SymbolsType
  <2>6. /\ Len(new.estab) = k /\ new.estab[k] = last
        /\ \A i \in 1..k - 1 : new.estab[i] = s.estab[i]
    <3>1. s.estab \in Seq(FileEntry) /\ k \in 1..Len(s.estab) /\ Len(s.estab) = k
      BY <1>1, <2>4
    <3>2. /\ Len(new.estab) = k
          /\ \A i \in 1..k : new.estab[i] = IF i = k THEN last ELSE s.estab[i]
      BY <2>2, <2>5, <3>1, ExceptSeq
    <3>3. \A i \in 1..k - 1 : i \in 1..k /\ i # k
      BY <2>4
    <3> QED BY <2>4, <3>2, <3>3
  <2>7. Begun(new, objs, at, k, j)
    BY <2>2, <2>3, <2>6 DEF Begun
  <2> QED BY <1>4, <2>1, <2>2, <2>7
<1> QED BY <1>3, <1>4

\* The D entries of a file, one by one.
LEMMA DefineRuns ==
  ASSUME NEW s \in LinkStates, NEW seq \in Seq(Definition)
  PROVE  \E h \in [0..Len(seq) -> LinkStates] :
           DefineChain(h, s, seq) /\ DefineRun(s, seq) = h[Len(seq)]
BY DefineKeeps, DefineFold

\* They keep the type.
LEMMA DefineRunType ==
  ASSUME NEW s \in LinkStates, NEW seq \in Seq(Definition)
  PROVE  DefineRun(s, seq) \in LinkStates
<1>1. PICK h \in [0..Len(seq) -> LinkStates] : DefineRun(s, seq) = h[Len(seq)]
  BY DefineRuns
<1>2. Len(seq) \in 0..Len(seq)
  BY LenProperties
<1> QED BY <1>1, <1>2

\* All are taken if every name is new, and then the entry is complete.
LEMMA DefineResult ==
  ASSUME NEW objs \in Seq(ObjectFile), NEW at \in Int, NEW k \in 1..Len(objs),
         NEW s \in LinkStates, s.ok, Begun(s, objs, at, k, 0)
  PROVE  LET new == DefineRun(s, objs[k].D) IN
         /\ new.ok <=> \A j \in 1..Len(objs[k].D) : Fresh(objs, k, j)
         /\ new.ok => Begun(new, objs, at, k, Len(objs[k].D))
<1> DEFINE seq == objs[k].D
           n == Len(seq)
<1>1. seq \in Seq(Definition) /\ n \in Nat
  <2>1. seq \in Seq(Definition)
    BY ElementOfSeq, ObjectParts
  <2> QED BY <2>1, LenProperties
<1>2. PICK h \in [0..n -> LinkStates] :
        DefineChain(h, s, seq) /\ DefineRun(s, seq) = h[n]
  BY Zenon, <1>1, DefineRuns
<1> DEFINE Good == {j \in 0..n :
                      /\ h[j].ok <=> \A i \in 1..j : Fresh(objs, k, i)
                      /\ h[j].ok => Begun(h[j], objs, at, k, j)}
<1>3. 0 \in Good
  <2>1. h[0] = s /\ 0 \in 0..n
    BY <1>1, <1>2 DEF DefineChain
  <2> QED BY <2>1
<1>4. ASSUME NEW j \in 1..n, j - 1 \in Good PROVE j \in Good
  <2>1. j - 1 \in 0..n /\ j \in 0..n /\ j \in Int
    BY <1>1
  <2>2. h[j] = Define(h[j - 1], seq[j]) /\ h[j - 1] \in LinkStates /\ h[j] \in LinkStates
    BY <1>1, <1>2, <2>1 DEF DefineChain
  <2>3. CASE ~h[j - 1].ok
    <3>1. h[j] = [h[j - 1] EXCEPT !.ok = FALSE]
      BY <2>2, <2>3 DEF Define
    <3>2. ~h[j].ok
      BY <2>2, <3>1 DEF LinkStates
    <3>3. PICK i \in 1..j - 1 : ~Fresh(objs, k, i)
      BY <1>4, <2>3
    <3>4. i \in 1..j
      BY <2>1
    <3> QED BY <2>1, <3>2, <3>3, <3>4
  <2>4. CASE h[j - 1].ok
    <3>1. Begun(h[j - 1], objs, at, k, j - 1) /\ \A i \in 1..j - 1 : Fresh(objs, k, i)
      BY <1>4, <2>4
    <3>2. (h[j].ok <=> Fresh(objs, k, j)) /\ (h[j].ok => Begun(h[j], objs, at, k, j))
      BY <2>2, <2>4, <3>1, DefineStep
    <3>3. \A i \in 1..j : i = j \/ i \in 1..j - 1
      BY <2>1
    <3>4. j \in 1..j
      BY <2>1
    <3> QED BY <2>1, <3>1, <3>2, <3>3, <3>4
  <2> QED BY <2>3, <2>4
<1> HIDE DEF Good
<1>5. \A j \in 0..n : j \in Good
  BY <1>1, <1>3, <1>4, Upwards
<1>6. n \in Good
  BY <1>1, <1>5
<1> QED BY <1>2, <1>6 DEF Good

\* What pass 1 has after k files.
Taken1(s, objs, at, k) ==
  s.csaddr = SectionAt(objs, k + 1, at) /\ s.estab = Table(objs, at, k)

\* The type of ESTAB.
LEMMA TableType ==
  ASSUME NEW objs \in Seq(ObjectFile), NEW at \in Int, NEW k \in 0..Len(objs)
  PROVE  /\ Table(objs, at, k) \in Seq(FileEntry) /\ Len(Table(objs, at, k)) = k
         /\ \A i \in 1..k : Table(objs, at, k)[i] = EntryOf(objs, at, i, Len(objs[i].D))
<1>1. k \in Nat /\ \A i \in 1..k : i \in 1..Len(objs)
  BY LenProperties
<1>2. ASSUME NEW i \in 1..k PROVE EntryOf(objs, at, i, Len(objs[i].D)) \in FileEntry
  <2>1. i \in 1..Len(objs) /\ objs[i].D \in Seq(Definition)
    BY <1>1, ElementOfSeq, ObjectParts
  <2>2. Len(objs[i].D) \in 0..Len(objs[i].D)
    BY <2>1, LenProperties
  <2> QED BY <2>1, <2>2, SymbolsType
<1>3. Table(objs, at, k) \in [1..k -> FileEntry]
  BY <1>2 DEF Table
<1>4. Table(objs, at, k) \in Seq(FileEntry) /\ Len(Table(objs, at, k)) = k
  BY <1>1, <1>3, LenProperties
<1> QED BY <1>4 DEF Table

\* The entry of a file before its symbols.
LEMMA FileBegun ==
  ASSUME NEW s \in LinkStates, NEW o \in ObjectFile
  PROVE  LET e == [cs |-> o.name, addr |-> s.csaddr, length |-> o.length, syms |-> <<>>]
             new == [s EXCEPT !.estab = Append(@, e)]
         IN  /\ new \in LinkStates /\ new.ok = s.ok /\ new.csaddr = s.csaddr
             /\ Len(new.estab) = Len(s.estab) + 1 /\ new.estab[Len(s.estab) + 1] = e
             /\ \A i \in 1..Len(s.estab) : new.estab[i] = s.estab[i]
<1> DEFINE e == [cs |-> o.name, addr |-> s.csaddr, length |-> o.length, syms |-> <<>>]
           new == [s EXCEPT !.estab = Append(@, e)]
<1>1. s \in [ok: BOOLEAN, csaddr: Int, estab: Seq(FileEntry)]
  BY DEF LinkStates
<1>2. e \in FileEntry
  <2>1. o.name \in Strings /\ o.length \in Nat /\ <<>> \in Seq(SymbolEntry)
    BY ObjectParts, EmptySeq
  <2> QED BY <1>1, <2>1 DEF FileEntry
<1> HIDE DEF e
<1>3. /\ Append(s.estab, e) \in Seq(FileEntry) /\ Len(Append(s.estab, e)) = Len(s.estab) + 1
      /\ Append(s.estab, e)[Len(s.estab) + 1] = e
      /\ \A i \in 1..Len(s.estab) : Append(s.estab, e)[i] = s.estab[i]
  BY <1>1, <1>2, AppendProperties
<1>4. new.ok = s.ok /\ new.csaddr = s.csaddr /\ new.estab = Append(s.estab, e)
  BY <1>1
<1>5. new \in LinkStates
  BY <1>1, <1>3 DEF LinkStates
<1> QED BY <1>3, <1>4, <1>5 DEF e

\* A file keeps the type.
LEMMA Pass1FileKeeps ==
  ASSUME NEW s \in LinkStates, NEW o \in ObjectFile
  PROVE  Pass1File(s, o) \in LinkStates
<1> DEFINE e == [cs |-> o.name, addr |-> s.csaddr, length |-> o.length, syms |-> <<>>]
           begun == [s EXCEPT !.estab = Append(@, e)]
           done == DefineRun(begun, o.D)
<1>1. begun \in LinkStates
  BY FileBegun
<1>2. o.D \in Seq(Definition) /\ o.length \in Nat
  BY ObjectParts
<1> HIDE DEF begun
<1>3. done \in LinkStates
  BY <1>1, <1>2, DefineRunType
<1>4. \/ Pass1File(s, o) = [s EXCEPT !.ok = FALSE]
      \/ Pass1File(s, o) = [done EXCEPT !.csaddr = @ + o.length]
  BY DEF Pass1File, DefineRun, begun
<1> HIDE DEF done
<1>5. CASE Pass1File(s, o) = [s EXCEPT !.ok = FALSE]
  BY <1>5 DEF LinkStates
<1>6. CASE Pass1File(s, o) = [done EXCEPT !.csaddr = @ + o.length]
  <2>1. done \in [ok: BOOLEAN, csaddr: Int, estab: Seq(FileEntry)]
    BY <1>3 DEF LinkStates
  <2> QED BY <1>2, <1>6, <2>1 DEF LinkStates
<1> QED BY <1>4, <1>5, <1>6

\* One file: pass 1 goes on if its names are new, and then has the next table.
LEMMA Pass1FileStep ==
  ASSUME NEW objs \in Seq(ObjectFile), NEW at \in Int, NEW k \in 1..Len(objs),
         NEW s \in LinkStates, s.ok, Taken1(s, objs, at, k - 1)
  PROVE  LET new == Pass1File(s, objs[k]) IN
         (new.ok <=> Accepted(objs, k)) /\ (new.ok => Taken1(new, objs, at, k))
<1> DEFINE o == objs[k]
           e == [cs |-> o.name, addr |-> s.csaddr, length |-> o.length, syms |-> <<>>]
           begun == [s EXCEPT !.estab = Append(@, e)]
           done == DefineRun(begun, o.D)
           named == o.name # "missing" /\ \A i \in 1..k - 1 : objs[i].name # o.name
<1>1. o \in ObjectFile /\ o.D \in Seq(Definition) /\ o.length \in Nat
  BY ElementOfSeq, ObjectParts
<1>2. k \in Nat /\ k - 1 \in 0..Len(objs) /\ k \in 0..Len(objs) /\ (k - 1) + 1 = k
      /\ k \in 1..Len(objs) + 1 /\ Len(o.D) \in Nat
  BY <1>1, LenProperties
<1>3. /\ s.csaddr = SectionAt(objs, k, at) /\ Len(s.estab) = k - 1
      /\ DOMAIN s.estab = 1..k - 1
      /\ \A i \in 1..k - 1 : s.estab[i] = EntryOf(objs, at, i, Len(objs[i].D))
  <2>1. s.csaddr = SectionAt(objs, k, at) /\ s.estab = Table(objs, at, k - 1)
    BY <1>2 DEF Taken1
  <2>2. Table(objs, at, k - 1) \in Seq(FileEntry) /\ Len(Table(objs, at, k - 1)) = k - 1
    BY <1>2, TableType
  <2> QED BY <2>1, <2>2, LenProperties DEF Table
<1>4. (\E i \in DOMAIN s.estab : s.estab[i].cs = o.name) <=> \E i \in 1..k - 1 : objs[i].name = o.name
  <2>1. ASSUME NEW i \in 1..k - 1 PROVE s.estab[i].cs = objs[i].name
    <3>1. s.estab[i] = EntryOf(objs, at, i, Len(objs[i].D))
      BY <1>3
    <3> QED BY <3>1 DEF EntryOf
  <2> QED BY <1>3, <2>1
<1>5. CASE ~named
  <2>1. Pass1File(s, o) = [s EXCEPT !.ok = FALSE]
    BY <1>4, <1>5 DEF Pass1File
  <2>2. ~Pass1File(s, o).ok
    BY <2>1 DEF LinkStates
  <2> QED BY <1>5, <2>2 DEF Accepted
<1>6. CASE named
  <2>1. /\ begun \in LinkStates /\ begun.ok /\ begun.csaddr = s.csaddr
        /\ Len(begun.estab) = k /\ begun.estab[k] = e
        /\ \A i \in 1..k - 1 : begun.estab[i] = s.estab[i]
    <3>1. Len(s.estab) + 1 = k
      BY <1>2, <1>3
    <3>2. /\ begun \in LinkStates /\ begun.ok = s.ok /\ begun.csaddr = s.csaddr
          /\ Len(begun.estab) = Len(s.estab) + 1 /\ begun.estab[Len(s.estab) + 1] = e
          /\ \A i \in 1..Len(s.estab) : begun.estab[i] = s.estab[i]
      BY <1>1, FileBegun
    <3> HIDE DEF begun, e
    <3> QED BY <1>3, <3>1, <3>2
  <2>2. Pass1File(s, o) = [done EXCEPT !.csaddr = @ + o.length]
    BY <1>4, <1>6 DEF Pass1File, DefineRun
  <2> HIDE DEF begun
  <2>3. e = EntryOf(objs, at, k, 0)
    <3>1. SymbolsOf(objs, at, k, 0) = <<>>
      BY DEF SymbolsOf
    <3> QED BY <1>3, <3>1 DEF EntryOf
  <2>4. Begun(begun, objs, at, k, 0)
    BY <1>3, <2>1, <2>3 DEF Begun
  <2>5. /\ done.ok <=> \A j \in 1..Len(o.D) : Fresh(objs, k, j)
        /\ done.ok => Begun(done, objs, at, k, Len(o.D))
    BY <2>1, <2>4, DefineResult
  <2>6. done \in LinkStates
    BY <1>1, <2>1, DefineRunType
  <2> HIDE DEF done
  <2>7. LET new == Pass1File(s, o) IN
        new.ok = done.ok /\ new.csaddr = done.csaddr + o.length /\ new.estab = done.estab
    BY <2>2, <2>6 DEF LinkStates
  <2>8. Pass1File(s, o).ok <=> Accepted(objs, k)
    BY <1>6, <2>5, <2>7 DEF Accepted
  <2>9. ASSUME done.ok PROVE Taken1(Pass1File(s, o), objs, at, k)
    <3>1. Begun(done, objs, at, k, Len(o.D))
      BY <2>5, <2>9
    <3>2. SectionAt(objs, k + 1, at) = SectionAt(objs, k, at) + o.length
      BY SectionsFollow
    <3>3. done.estab = Table(objs, at, k)
      <4>1. done.estab \in Seq(FileEntry) /\ Len(done.estab) = k
        BY <2>6, <3>1 DEF LinkStates, Begun
      <4>2. Table(objs, at, k) \in Seq(FileEntry) /\ Len(Table(objs, at, k)) = k
        BY <1>2, TableType
      <4>3. ASSUME NEW i \in 1..k PROVE done.estab[i] = Table(objs, at, k)[i]
        <5>1. Table(objs, at, k)[i] = EntryOf(objs, at, i, Len(objs[i].D))
          BY <1>2, TableType
        <5>2. done.estab[i] = EntryOf(objs, at, i, Len(objs[i].D))
          <6>1. i \in 1..k - 1 \/ i = k
            BY <1>2
          <6> QED BY <3>1, <6>1 DEF Begun
        <5> QED BY <5>1, <5>2
      <4> QED BY <4>1, <4>2, <4>3, SeqEqual
    <3> QED BY <2>7, <3>1, <3>2, <3>3 DEF Taken1, Begun
  <2> QED BY <2>7, <2>8, <2>9
<1> QED BY <1>5, <1>6

\* File by file pass 1 takes those whose names are new.
LEMMA Pass1Runs ==
  ASSUME NEW s \in LinkStates, NEW seq \in Seq(ObjectFile)
  PROVE  \E h \in [0..Len(seq) -> LinkStates] :
           Pass1FileChain(h, s, seq) /\ Pass1FileRun(s, seq) = h[Len(seq)]
BY Pass1FileKeeps, Pass1FileFold

\* Pass 1 takes all files or fails, and has an entry for each.
LEMMA LoaderPass1Result ==
  ASSUME NEW objs \in Seq(ObjectFile), NEW at \in Int
  PROVE  LET p == LoaderPass1(objs, at) IN
         /\ p \in LinkStates
         /\ p.ok <=> \A k \in 1..Len(objs) : Accepted(objs, k)
         /\ p.ok => p.estab = Table(objs, at, Len(objs))
<1> DEFINE s == [ok |-> TRUE, csaddr |-> at, estab |-> <<>>]
           n == Len(objs)
<1>1. s \in LinkStates
  <2>1. <<>> \in Seq(FileEntry)
    BY EmptySeq
  <2> QED BY <2>1 DEF LinkStates
<1>2. LoaderPass1(objs, at) = Pass1FileRun(s, objs)
  BY DEF LoaderPass1, Pass1FileRun
<1>3. n \in Nat
  BY LenProperties
<1>4. s.ok /\ Taken1(s, objs, at, 0)
  <2>1. Table(objs, at, 0) = <<>>
    BY DEF Table
  <2>2. SectionAt(objs, 0 + 1, at) = at
    <3>1. SectionAt(objs, 1, at) = at /\ 0 + 1 = 1
      BY SectionsFollow
    <3> QED BY Zenon, <3>1
  <2> QED BY <2>1, <2>2 DEF Taken1
<1> HIDE DEF s
<1>5. PICK h \in [0..n -> LinkStates] :
        Pass1FileChain(h, s, objs) /\ Pass1FileRun(s, objs) = h[n]
  BY Zenon, <1>1, Pass1Runs
<1> DEFINE Good == {k \in 0..n : /\ h[k].ok <=> \A i \in 1..k : Accepted(objs, i)
                                 /\ h[k].ok => Taken1(h[k], objs, at, k)}
<1>6. 0 \in Good
  BY <1>3, <1>4, <1>5 DEF Pass1FileChain
<1>7. ASSUME NEW k \in 1..n, k - 1 \in Good PROVE k \in Good
  <2>1. k - 1 \in 0..n /\ k \in 0..n /\ k \in Int
    BY <1>3
  <2>2. h[k] = Pass1File(h[k - 1], objs[k]) /\ h[k - 1] \in LinkStates /\ h[k] \in LinkStates
    BY <1>3, <1>5, <2>1 DEF Pass1FileChain
  <2>3. CASE ~h[k - 1].ok
    <3>1. h[k] = [h[k - 1] EXCEPT !.ok = FALSE]
      BY <2>2, <2>3 DEF Pass1File
    <3>2. ~h[k].ok
      BY <2>2, <3>1 DEF LinkStates
    <3>3. PICK i \in 1..k - 1 : ~Accepted(objs, i)
      BY <1>7, <2>3
    <3>4. i \in 1..k
      BY <2>1
    <3> QED BY <2>1, <3>2, <3>3, <3>4
  <2>4. CASE h[k - 1].ok
    <3>1. Taken1(h[k - 1], objs, at, k - 1) /\ \A i \in 1..k - 1 : Accepted(objs, i)
      BY <1>7, <2>4
    <3>2. (h[k].ok <=> Accepted(objs, k)) /\ (h[k].ok => Taken1(h[k], objs, at, k))
      BY <2>2, <2>4, <3>1, Pass1FileStep
    <3>3. \A i \in 1..k : i = k \/ i \in 1..k - 1
      BY <2>1
    <3>4. k \in 1..k
      BY <2>1
    <3> QED BY <2>1, <3>1, <3>2, <3>3, <3>4
  <2> QED BY <2>3, <2>4
<1> HIDE DEF Good
<1>8. \A k \in 0..n : k \in Good
  BY <1>3, <1>6, <1>7, Upwards
<1>9. n \in Good /\ n \in 0..n
  BY <1>3, <1>8
<1> QED BY <1>2, <1>5, <1>9 DEF Good, Taken1

\* The elements of External.
SectionSymbol(objs, at, k) ==
  [sym |-> objs[k].name, addr |-> SectionAt(objs, k, at), file |-> k, section |-> TRUE]

DefinedSymbol(objs, at, k, j) ==
  [sym |-> objs[k].D[j].sym, addr |-> SectionAt(objs, k, at) + objs[k].D[j].addr, file |-> k,
   section |-> FALSE]

\* The elements of the set of a sequence.
LEMMA Members ==
  ASSUME NEW S, NEW seq \in Seq(S)
  PROVE  /\ \A x : x \in ToSet(seq) <=> \E i \in 1..Len(seq) : x = seq[i]
         /\ DOMAIN seq = 1..Len(seq) /\ Len(seq) \in Nat
<1>1. DOMAIN seq = 1..Len(seq) /\ Len(seq) \in Nat
  BY LenProperties
<1> QED BY <1>1 DEF ToSet

\* As many values as places: none comes twice.
LEMMA Unrepeated ==
  ASSUME NEW S, NEW seq \in Seq(S)
  PROVE  Len(seq) = Cardinality(ToSet(seq)) <=>
           \A i, j \in 1..Len(seq) : seq[i] = seq[j] => i = j
<1> DEFINE n == Len(seq)
<1>1. n \in Nat /\ DOMAIN seq = 1..n /\ seq \in [1..n -> S]
  BY LenProperties
<1>2. seq \in [1..n -> ToSet(seq)] /\ \A t \in ToSet(seq) : \E i \in 1..n : seq[i] = t
  BY <1>1 DEF ToSet
<1> HIDE DEF n
<1>3. seq \in Surjection(1..n, ToSet(seq))
  BY <1>2 DEF Surjection
<1>4. IsFiniteSet(1..n) /\ Cardinality(1..n) = n
  <2>1. 1 \in Int /\ n \in Int
    BY <1>1
  <2>2. IsFiniteSet(1..n) /\ Cardinality(1..n) = IF 1 > n THEN 0 ELSE n - 1 + 1
    BY <2>1, FS_Interval
  <2> QED BY <1>1, <2>2
<1>5. Cardinality(ToSet(seq)) = n <=> seq \in Injection(1..n, ToSet(seq))
  <2>1. Cardinality(ToSet(seq)) = Cardinality(1..n) <=> seq \in Injection(1..n, ToSet(seq))
    BY <1>3, <1>4, FS_Surjection
  <2> QED BY <1>4, <2>1
<1>6. seq \in Injection(1..n, ToSet(seq)) <=> \A i, j \in 1..n : seq[i] = seq[j] => i = j
  BY <1>2 DEF Injection, IsInjective
<1> QED BY <1>5, <1>6 DEF n

\* External, by index.
LEMMA Externals ==
  ASSUME NEW objs \in Seq(ObjectFile), NEW at \in Int
  PROVE  /\ \A e \in External(objs, at) :
              \E k \in 1..Len(objs) :
                \/ e = SectionSymbol(objs, at, k)
                \/ \E j \in 1..Len(objs[k].D) : e = DefinedSymbol(objs, at, k, j)
         /\ \A k \in 1..Len(objs) :
              /\ SectionSymbol(objs, at, k) \in External(objs, at)
              /\ \A j \in 1..Len(objs[k].D) : DefinedSymbol(objs, at, k, j) \in External(objs, at)
<1> DEFINE Of(k) == {SectionSymbol(objs, at, k)}
                      \cup {DefinedSymbol(objs, at, k, j) : j \in 1..Len(objs[k].D)}
           Listed(k) == {[sym |-> objs[k].name, addr |-> SectionAt(objs, k, at), file |-> k,
                          section |-> TRUE]}
                        \cup {[sym |-> d.sym, addr |-> SectionAt(objs, k, at) + d.addr, file |-> k,
                               section |-> FALSE] : d \in ToSet(objs[k].D)}
<1>1. External(objs, at) = UNION {Listed(k) : k \in 1..Len(objs)}
  BY LenProperties DEF External
<1>2. ASSUME NEW k \in 1..Len(objs) PROVE Listed(k) = Of(k)
  <2>1. objs[k].D \in Seq(Definition)
    BY ElementOfSeq, ObjectParts
  <2>2. \A d : d \in ToSet(objs[k].D) <=> \E j \in 1..Len(objs[k].D) : d = objs[k].D[j]
    BY <2>1, Members
  <2> QED BY <2>2 DEF SectionSymbol, DefinedSymbol
<1> HIDE DEF Listed
<1>3. \A e : e \in External(objs, at) <=> \E k \in 1..Len(objs) : e \in Of(k)
  BY <1>1, <1>2
<1> QED BY <1>3

\* What pass 1 accepts has no name twice.
LEMMA AcceptedThenApart ==
  ASSUME NEW objs \in Seq(ObjectFile), NEW at \in Int,
         \A k \in 1..Len(objs) : Accepted(objs, k),
         NEW e \in External(objs, at), NEW d \in External(objs, at), Clash(e, d)
  PROVE  FALSE
<1>1. Len(objs) \in Nat /\ \A k \in 1..Len(objs) : objs[k].D \in Seq(Definition)
  <2>1. \A k \in 1..Len(objs) : objs[k].D \in Seq(Definition)
    BY ElementOfSeq, ObjectParts
  <2> QED BY <2>1, LenProperties
<1>2. \A k \in 1..Len(objs) : DOMAIN objs[k].D = 1..Len(objs[k].D) /\ Len(objs[k].D) \in Nat
  BY <1>1, LenProperties
<1>3. PICK i \in 1..Len(objs) : \/ e = SectionSymbol(objs, at, i)
                                \/ \E j \in 1..Len(objs[i].D) : e = DefinedSymbol(objs, at, i, j)
  BY Externals
<1>4. PICK k \in 1..Len(objs) : \/ d = SectionSymbol(objs, at, k)
                                \/ \E j \in 1..Len(objs[k].D) : d = DefinedSymbol(objs, at, k, j)
  BY Externals
<1>5. e # d /\ e.sym = d.sym /\ e.file <= d.file /\ (d.section => e.section)
  BY DEF Clash
<1>6. e.file = i /\ d.file = k
  BY <1>3, <1>4 DEF SectionSymbol, DefinedSymbol
<1>7. i <= k /\ i \in 1..k /\ i \in Int /\ k \in Int /\ (i # k => i \in 1..k - 1)
  BY <1>1, <1>5, <1>6
<1>8. CASE d = SectionSymbol(objs, at, k)
  <2>1. e = SectionSymbol(objs, at, i)
    BY <1>3, <1>5, <1>8 DEF SectionSymbol, DefinedSymbol
  <2>2. i # k /\ objs[i].name = objs[k].name
    BY <1>5, <1>8, <2>1 DEF SectionSymbol
  <2> QED BY <1>7, <2>2 DEF Accepted
<1>9. ASSUME NEW j \in 1..Len(objs[k].D), d = DefinedSymbol(objs, at, k, j) PROVE FALSE
  <2>1. Fresh(objs, k, j) /\ d.sym = objs[k].D[j].sym
    BY <1>9 DEF Accepted, DefinedSymbol
  <2>2. CASE e = SectionSymbol(objs, at, i)
    <3>1. objs[i].name = objs[k].D[j].sym
      BY <1>5, <2>1, <2>2 DEF SectionSymbol
    <3> QED BY <1>7, <2>1, <3>1 DEF Fresh
  <2>3. ASSUME NEW l \in 1..Len(objs[i].D), e = DefinedSymbol(objs, at, i, l) PROVE FALSE
    <3>1. objs[i].D[l].sym = objs[k].D[j].sym
      BY <1>5, <2>1, <2>3 DEF DefinedSymbol
    <3>2. ~(i < k \/ l < j)
      BY <1>2, <1>7, <2>1, <3>1 DEF Fresh
    <3>3. i = k /\ l # j
      BY <1>5, <1>7, <1>9, <2>3, <3>2
    <3>4. Fresh(objs, k, l)
      BY <3>3 DEF Accepted
    <3>5. ~(j < l)
      BY <1>2, <1>7, <3>1, <3>3, <3>4 DEF Fresh
    <3>6. j \in Int /\ l \in Int
      BY <1>2
    <3> QED BY <3>2, <3>3, <3>5, <3>6
  <2> QED BY <1>3, <2>2, <2>3
<1> QED BY <1>4, <1>8, <1>9

\* What Linkable asks of the names.
Unique(objs, at) ==
  /\ \A k \in DOMAIN objs : /\ objs[k].name # "missing"
                            /\ Len(objs[k].D) = Cardinality(ToSet(objs[k].D))
  /\ ~\E e, d \in External(objs, at) : Clash(e, d)

\* And all that has no name twice it accepts: an order of comparisons is a set
\* of pairs.
LEMMA NamesAccepted ==
  ASSUME NEW objs \in Seq(ObjectFile), NEW at \in Int
  PROVE  Unique(objs, at) <=> \A k \in 1..Len(objs) : Accepted(objs, k)
<1>1. DOMAIN objs = 1..Len(objs) /\ Len(objs) \in Nat
  BY LenProperties
<1>2. \A k \in 1..Len(objs) :
        /\ objs[k].D \in Seq(Definition) /\ DOMAIN objs[k].D = 1..Len(objs[k].D)
        /\ Len(objs[k].D) \in Nat
  <2> TAKE k \in 1..Len(objs)
  <2>1. objs[k].D \in Seq(Definition)
    BY ElementOfSeq, ObjectParts
  <2> QED BY <2>1, LenProperties
<1>3. ASSUME NEW k \in 1..Len(objs)
      PROVE  Len(objs[k].D) = Cardinality(ToSet(objs[k].D)) <=>
               \A i, j \in 1..Len(objs[k].D) : objs[k].D[i] = objs[k].D[j] => i = j
  <2>1. objs[k].D \in Seq(Definition)
    BY <1>2
  <2> QED BY <2>1, Unrepeated
<1>4. ASSUME \A k \in 1..Len(objs) : Accepted(objs, k) PROVE Unique(objs, at)
  <2>1. ~\E e, d \in External(objs, at) : Clash(e, d)
    BY <1>4, AcceptedThenApart
  <2>2. ASSUME NEW k \in 1..Len(objs)
        PROVE  Len(objs[k].D) = Cardinality(ToSet(objs[k].D))
    <3>1. ASSUME NEW i \in 1..Len(objs[k].D), NEW j \in 1..Len(objs[k].D), i < j,
                 objs[k].D[i] = objs[k].D[j]
          PROVE  FALSE
      <4>1. Fresh(objs, k, j) /\ k \in 1..k
        BY <1>1, <1>4 DEF Accepted
      <4> QED BY <1>2, <3>1, <4>1 DEF Fresh
    <3>2. \A i, j \in 1..Len(objs[k].D) : i < j \/ j < i \/ i = j
      BY <1>2
    <3> QED BY <1>3, <3>1, <3>2
  <2>3. \A k \in 1..Len(objs) : objs[k].name # "missing"
    BY <1>4 DEF Accepted
  <2> QED BY <1>1, <2>1, <2>2, <2>3 DEF Unique
<1>5. ASSUME Unique(objs, at), NEW k \in 1..Len(objs) PROVE Accepted(objs, k)
  <2>1. \A e, d \in External(objs, at) : ~Clash(e, d)
    BY <1>5 DEF Unique
  <2>2. k \in Int /\ \A i \in 1..k : i \in 1..Len(objs) /\ i \in Int
    BY <1>1
  <2>3. ASSUME NEW i \in 1..k - 1, objs[i].name = objs[k].name PROVE FALSE
    <3>1. i \in 1..Len(objs) /\ i < k /\ i \in Int
      BY <2>2
    <3>2. SectionSymbol(objs, at, i) \in External(objs, at)
          /\ SectionSymbol(objs, at, k) \in External(objs, at)
      BY <3>1, Externals
    <3>3. Clash(SectionSymbol(objs, at, i), SectionSymbol(objs, at, k))
      BY <2>2, <2>3, <3>1 DEF Clash, SectionSymbol
    <3> QED BY <2>1, <3>2, <3>3
  <2>4. ASSUME NEW j \in 1..Len(objs[k].D) PROVE Fresh(objs, k, j)
    <3>1. ASSUME NEW i \in 1..k, objs[i].name = objs[k].D[j].sym PROVE FALSE
      <4>1. SectionSymbol(objs, at, i) \in External(objs, at)
            /\ DefinedSymbol(objs, at, k, j) \in External(objs, at)
        BY <2>2, Externals
      <4>2. Clash(SectionSymbol(objs, at, i), DefinedSymbol(objs, at, k, j))
        BY <2>2, <3>1 DEF Clash, SectionSymbol, DefinedSymbol
      <4> QED BY <2>1, <4>1, <4>2
    <3>2. ASSUME NEW i \in 1..k, NEW l \in DOMAIN objs[i].D,
                 objs[i].D[l].sym = objs[k].D[j].sym, i < k \/ l < j
          PROVE  FALSE
      <4>1. i \in 1..Len(objs) /\ l \in 1..Len(objs[i].D) /\ i <= k /\ i \in Int
        BY <1>2, <2>2
      <4>2. DefinedSymbol(objs, at, i, l) \in External(objs, at)
            /\ DefinedSymbol(objs, at, k, j) \in External(objs, at)
        BY <4>1, Externals
      <4>3. DefinedSymbol(objs, at, i, l) # DefinedSymbol(objs, at, k, j)
        <5>1. CASE i < k
          BY <2>2, <4>1, <5>1 DEF DefinedSymbol
        <5>2. CASE ~(i < k)
          <6>1. i = k /\ l # j
            BY <1>2, <2>2, <3>2, <4>1, <5>2
          <6>2. objs[k].D[l] # objs[k].D[j]
            BY <1>3, <1>5, <1>1, <4>1, <6>1 DEF Unique
          <6>3. objs[k].D[l] \in Definition /\ objs[k].D[j] \in Definition
            BY <1>2, <4>1, <6>1, ElementOfSeq
          <6>4. objs[k].D[l].addr # objs[k].D[j].addr
            BY <3>2, <6>1, <6>2, <6>3 DEF Definition
          <6>5. SectionAt(objs, k, at) \in Int
            <7>1. k \in 1..Len(objs) + 1
              BY <1>1
            <7> QED BY <7>1, SectionsFollow
          <6>6. DefinedSymbol(objs, at, k, l).addr # DefinedSymbol(objs, at, k, j).addr
            BY <6>3, <6>4, <6>5 DEF DefinedSymbol, Definition
          <6> QED BY <6>1, <6>6
        <5> QED BY <5>1, <5>2
      <4>4. Clash(DefinedSymbol(objs, at, i, l), DefinedSymbol(objs, at, k, j))
        BY <3>2, <4>1, <4>3 DEF Clash, DefinedSymbol
      <4> QED BY <2>1, <4>2, <4>4
    <3> QED BY <3>1, <3>2 DEF Fresh
  <2> QED BY <1>1, <1>5, <2>3, <2>4 DEF Accepted, Unique
<1> QED BY <1>4, <1>5

\* The first of a set.
LEMMA EarliestIs ==
  ASSUME NEW S \in SUBSET Int, NEW m \in S, \A j \in S : m <= j
  PROVE  Earliest(S) = m
<1>1. PICK e \in S : e = Earliest(S) /\ \A j \in S : e <= j
  BY DEF Earliest
<1>2. e <= m /\ m <= e /\ e \in Int /\ m \in Int
  BY <1>1
<1>3. e = m
  BY <1>2
<1> QED BY <1>1, <1>3

\* The type of an external symbol.
LEMMA ExternalType ==
  ASSUME NEW objs \in Seq(ObjectFile), NEW at \in Nat, NEW e \in External(objs, at)
  PROVE  e.addr \in Nat /\ e.file \in 1..Len(objs) /\ e.sym \in Strings /\ e.section \in BOOLEAN
<1>1. PICK k \in 1..Len(objs) : \/ e = SectionSymbol(objs, at, k)
                                \/ \E j \in 1..Len(objs[k].D) : e = DefinedSymbol(objs, at, k, j)
  BY Externals
<1>2. SectionAt(objs, k, at) \in Nat
  <2>1. k \in 1..Len(objs) + 1 /\ at \in Int
    BY LenProperties
  <2>2. SectionAt(objs, k, at) \in Int /\ SectionAt(objs, k, at) >= at
    BY <2>1, SectionsFollow
  <2> QED BY <2>2
<1>3. objs[k].name \in Strings /\ objs[k].D \in Seq(Definition)
  BY ElementOfSeq, ObjectParts
<1>4. CASE e = SectionSymbol(objs, at, k)
  BY <1>2, <1>3, <1>4 DEF SectionSymbol
<1>5. ASSUME NEW j \in 1..Len(objs[k].D), e = DefinedSymbol(objs, at, k, j)
      PROVE  /\ e.addr \in Nat /\ e.file \in 1..Len(objs) /\ e.sym \in Strings
             /\ e.section \in BOOLEAN
  <2>1. objs[k].D[j] \in Definition
    BY <1>3, ElementOfSeq
  <2>2. objs[k].D[j].sym \in Strings /\ objs[k].D[j].addr \in Nat
    BY <2>1 DEF Definition
  <2> QED BY <1>2, <1>5, <2>2 DEF DefinedSymbol
<1> QED BY <1>1, <1>4, <1>5

\* The entry of a file has the names of its external symbols.
LEMMA NameFound ==
  ASSUME NEW objs \in Seq(ObjectFile), NEW at \in Nat, NEW k \in 1..Len(objs), NEW sym
  PROVE  HasName(Table(objs, at, Len(objs))[k], sym) <=>
           \E e \in External(objs, at) : e.file = k /\ e.sym = sym
<1>1. objs[k].D \in Seq(Definition) /\ Len(objs) \in 0..Len(objs) /\ at \in Int
  BY ElementOfSeq, ObjectParts, LenProperties
<1>2. Table(objs, at, Len(objs))[k] = EntryOf(objs, at, k, Len(objs[k].D))
  BY <1>1, TableType
<1>3. HasName(Table(objs, at, Len(objs))[k], sym) <=>
        objs[k].name = sym \/ \E j \in 1..Len(objs[k].D) : objs[k].D[j].sym = sym
  <2>1. /\ Table(objs, at, Len(objs))[k].cs = objs[k].name
        /\ Table(objs, at, Len(objs))[k].syms = SymbolsOf(objs, at, k, Len(objs[k].D))
    BY <1>2 DEF EntryOf
  <2>2. /\ DOMAIN SymbolsOf(objs, at, k, Len(objs[k].D)) = 1..Len(objs[k].D)
        /\ \A j \in 1..Len(objs[k].D) :
             SymbolsOf(objs, at, k, Len(objs[k].D))[j].sym = objs[k].D[j].sym
    BY DEF SymbolsOf
  <2> QED BY <2>1, <2>2 DEF HasName
<1>4. ASSUME objs[k].name = sym PROVE \E e \in External(objs, at) : e.file = k /\ e.sym = sym
  <2>1. SectionSymbol(objs, at, k) \in External(objs, at)
    BY <1>1, Externals
  <2> QED BY <1>4, <2>1 DEF SectionSymbol
<1>5. ASSUME NEW j \in 1..Len(objs[k].D), objs[k].D[j].sym = sym
      PROVE  \E e \in External(objs, at) : e.file = k /\ e.sym = sym
  <2>1. DefinedSymbol(objs, at, k, j) \in External(objs, at)
    BY <1>1, Externals
  <2> QED BY <1>5, <2>1 DEF DefinedSymbol
<1>6. ASSUME NEW e \in External(objs, at), e.file = k, e.sym = sym
      PROVE  objs[k].name = sym \/ \E j \in 1..Len(objs[k].D) : objs[k].D[j].sym = sym
  <2>1. PICK i \in 1..Len(objs) : \/ e = SectionSymbol(objs, at, i)
                                  \/ \E j \in 1..Len(objs[i].D) : e = DefinedSymbol(objs, at, i, j)
    BY <1>1, Externals
  <2>2. i = k
    BY <1>6, <2>1 DEF SectionSymbol, DefinedSymbol
  <2> QED BY <1>6, <2>1, <2>2 DEF SectionSymbol, DefinedSymbol
<1> QED BY <1>3, <1>4, <1>5, <1>6

\* The table has an address for every external name: that of the first.
LEMMA NotFound ==
  ASSUME NEW objs \in Seq(ObjectFile), NEW at \in Nat, NEW sym,
         \A e \in External(objs, at) : e.sym # sym
  PROVE  AddressOf(Table(objs, at, Len(objs)), sym) = -1
<1>1. DOMAIN Table(objs, at, Len(objs)) = 1..Len(objs)
  BY DEF Table
<1>2. {k \in DOMAIN Table(objs, at, Len(objs)) : HasName(Table(objs, at, Len(objs))[k], sym)} = {}
  <2>1. ASSUME NEW k \in 1..Len(objs), HasName(Table(objs, at, Len(objs))[k], sym) PROVE FALSE
    <3>1. HasName(Table(objs, at, Len(objs))[k], sym) <=>
            \E e \in External(objs, at) : e.file = k /\ e.sym = sym
      BY NameFound
    <3> QED BY <2>1, <3>1
  <2> QED BY <1>1, <2>1
<1> QED BY <1>2 DEF AddressOf

\* A name is found where the first external symbol with it is.
LEMMA Found ==
  ASSUME NEW objs \in Seq(ObjectFile), NEW at \in Nat,
         \A k \in 1..Len(objs) : Accepted(objs, k),
         NEW e \in External(objs, at),
         \A d \in External(objs, at) : d.sym = e.sym => e.file <= d.file
  PROVE  AddressOf(Table(objs, at, Len(objs)), e.sym) = e.addr
<1>names. ASSUME NEW j \in 1..Len(objs), NEW sym
      PROVE  HasName(Table(objs, at, Len(objs))[j], sym) <=>
               \E d \in External(objs, at) : d.file = j /\ d.sym = sym
  BY NameFound
<1> DEFINE tab == Table(objs, at, Len(objs))
           files == {k \in DOMAIN tab : HasName(tab[k], e.sym)}
           f == e.file
<1>1. DOMAIN tab = 1..Len(objs) /\ Len(objs) \in 0..Len(objs) /\ at \in Int /\ f \in 1..Len(objs)
  BY LenProperties, ExternalType DEF Table
<1>2. tab[f] = EntryOf(objs, at, f, Len(objs[f].D))
  BY <1>1, TableType
<1>3. Earliest(files) = f /\ files # {}
  <2>1. files \in SUBSET Int
    BY <1>1, LenProperties
  <2>2. f \in files
    BY <1>1, NameFound
  <2>3. ASSUME NEW j \in files PROVE f <= j
    <3>1. PICK d \in External(objs, at) : d.file = j /\ d.sym = e.sym
      <4>1. j \in 1..Len(objs) /\ HasName(tab[j], e.sym)
        BY <1>1
      <4>2. HasName(tab[j], e.sym) <=> \E d \in External(objs, at) : d.file = j /\ d.sym = e.sym
        BY Zenon, <1>names, <4>1
      <4> QED BY <4>1, <4>2
    <3> QED BY <3>1
  <2> HIDE DEF files, f
  <2> QED BY <2>1, <2>2, <2>3, EarliestIs
<1>4. AddressOf(tab, e.sym) =
        IF tab[f].cs = e.sym THEN tab[f].addr
        ELSE tab[f].syms[Earliest({j \in DOMAIN tab[f].syms : tab[f].syms[j].sym = e.sym})].addr
  BY <1>3 DEF AddressOf
<1>0. f = e.file
  OBVIOUS
<1> HIDE DEF tab, files, f
<1>5. PICK i \in 1..Len(objs) : \/ e = SectionSymbol(objs, at, i)
                                \/ \E j \in 1..Len(objs[i].D) : e = DefinedSymbol(objs, at, i, j)
  BY <1>1, Externals
<1>6. i = f
  BY <1>0, <1>5 DEF SectionSymbol, DefinedSymbol
<1>7. /\ tab[f].cs = objs[f].name /\ tab[f].addr = SectionAt(objs, f, at)
      /\ tab[f].syms = SymbolsOf(objs, at, f, Len(objs[f].D))
  BY <1>2 DEF EntryOf
<1>8. ASSUME e = SectionSymbol(objs, at, f) PROVE AddressOf(tab, e.sym) = e.addr
  <2>1. e.sym = objs[f].name /\ e.addr = SectionAt(objs, f, at)
    BY <1>8 DEF SectionSymbol
  <2>2. tab[f].cs = e.sym /\ tab[f].addr = e.addr
    BY <1>7, <2>1
  <2> QED BY Zenon, <1>4, <2>2
<1>9. ASSUME NEW j \in 1..Len(objs[f].D), e = DefinedSymbol(objs, at, f, j)
      PROVE  AddressOf(tab, e.sym) = e.addr
  <2>1. objs[f].D \in Seq(Definition)
    BY <1>1, ElementOfSeq, ObjectParts
  <2>2. DOMAIN objs[f].D = 1..Len(objs[f].D) /\ Len(objs[f].D) \in Nat /\ f \in Int /\ f \in 1..f
    BY <1>1, <2>1, LenProperties
  <2>3. e.sym = objs[f].D[j].sym /\ e.addr = SectionAt(objs, f, at) + objs[f].D[j].addr
    BY <1>9 DEF DefinedSymbol
  <2>4. \A l \in 1..Len(objs[f].D) : Fresh(objs, f, l)
    BY <1>1 DEF Accepted
  <2>5. tab[f].cs # e.sym
    BY <1>7, <2>2, <2>3, <2>4 DEF Fresh
  <2> DEFINE js == {l \in DOMAIN tab[f].syms : tab[f].syms[l].sym = e.sym}
  <2>6. ASSUME NEW l \in 1..Len(objs[f].D), objs[f].D[l].sym = e.sym PROVE l = j
    <3>1. ~(l < j) /\ ~(j < l)
      BY <2>2, <2>3, <2>4, <2>6 DEF Fresh
    <3> QED BY <2>2, <3>1
  <2>7. js = {j}
    BY <1>7, <2>3, <2>6 DEF SymbolsOf
  <2>8. Earliest(js) = j
    <3>1. {j} \in SUBSET Int /\ j \in {j} /\ \A l \in {j} : j <= l
      BY <2>2
    <3> QED BY <2>7, <3>1, EarliestIs
  <2>9. tab[f].syms[j].addr = objs[f].D[j].addr + SectionAt(objs, f, at)
    BY <1>7 DEF SymbolsOf
  <2>10. SectionAt(objs, f, at) \in Int /\ objs[f].D[j].addr \in Int
    <3>1. f \in 1..Len(objs) + 1
      BY <1>1, LenProperties
    <3>2. objs[f].D[j] \in Definition
      BY <2>1, ElementOfSeq
    <3>3. SectionAt(objs, f, at) \in Int
      BY <1>1, <3>1, SectionsFollow
    <3> QED BY <3>2, <3>3 DEF Definition
  <2> HIDE DEF js
  <2>11. AddressOf(tab, e.sym) = tab[f].syms[Earliest(js)].addr
    BY <1>4, <2>5 DEF js
  <2> QED BY <2>3, <2>8, <2>9, <2>10, <2>11
<1>10. AddressOf(tab, e.sym) = e.addr
  <2>1. \/ e = SectionSymbol(objs, at, f)
        \/ \E j \in 1..Len(objs[f].D) : e = DefinedSymbol(objs, at, f, j)
    BY <1>5, <1>6
  <2> QED BY Zenon, <1>8, <1>9, <2>1
<1> QED BY <1>10 DEF tab
-----------------------------------------------------------------------------
(* Object programs whose references are numbered as they should be.       *)
ObjectPrograms ==
  {o \in ObjectFile :
     /\ \A i, j \in DOMAIN o.R : o.R[i].ref # 1 /\ (o.R[i].ref = o.R[j].ref => i = j)
     /\ \A m \in ToSet(o.M) : m.ref = 1 \/ \E r \in ToSet(o.R) : r.ref = m.ref}

RefNumbers(o) == {1} \cup {o.R[j].ref : j \in DOMAIN o.R}

\* The address that a reference gets at its first use.
Resolved(r, estab, ref) ==
  IF r[ref].used_flag = -1 THEN AddressOf(estab, r[ref].sym) ELSE r[ref].used_flag

\* The references of a file, by number.
LEMMA ReferencesNumbered ==
  ASSUME NEW o \in ObjectPrograms, NEW est
  PROVE  LET r == References(o, est) IN
         /\ DOMAIN r = RefNumbers(o) /\ r[1] = [sym |-> est.cs, used_flag |-> est.addr]
         /\ \A j \in DOMAIN o.R : r[o.R[j].ref] = [sym |-> o.R[j].sym, used_flag |-> -1]
         /\ \A m \in ToSet(o.M) : m.ref \in RefNumbers(o)
         /\ \A i, j \in DOMAIN o.R : o.R[i].ref # 1 /\ (o.R[i].ref = o.R[j].ref => i = j)
<1> DEFINE r == References(o, est)
<1>1. \A i, j \in DOMAIN o.R : o.R[i].ref # 1 /\ (o.R[i].ref = o.R[j].ref => i = j)
  BY DEF ObjectPrograms
<1>2. DOMAIN r = RefNumbers(o) /\ r[1] = [sym |-> est.cs, used_flag |-> est.addr]
  BY DEF References, RefNumbers
<1>3. ASSUME NEW j \in DOMAIN o.R PROVE r[o.R[j].ref] = [sym |-> o.R[j].sym, used_flag |-> -1]
  <2>1. o.R[j].ref # 1 /\ o.R[j].ref \in {1} \cup {o.R[i].ref : i \in DOMAIN o.R}
    BY <1>1
  <2>2. PICK i \in DOMAIN o.R :
          i = (CHOOSE l \in DOMAIN o.R : o.R[l].ref = o.R[j].ref) /\ o.R[i].ref = o.R[j].ref
    OBVIOUS
  <2>3. i = j
    BY <1>1, <2>2
  <2>4. r[o.R[j].ref] =
          [sym |-> o.R[CHOOSE l \in DOMAIN o.R : o.R[l].ref = o.R[j].ref].sym, used_flag |-> -1]
    BY <2>1 DEF References
  <2> QED BY <2>2, <2>3, <2>4
<1>4. ASSUME NEW m \in ToSet(o.M) PROVE m.ref \in RefNumbers(o)
  <2>1. m.ref = 1 \/ \E x \in ToSet(o.R) : x.ref = m.ref
    BY DEF ObjectPrograms
  <2>2. ToSet(o.R) = {o.R[j] : j \in DOMAIN o.R}
    BY DEF ToSet
  <2> QED BY <2>1, <2>2 DEF RefNumbers
<1> QED BY <1>1, <1>2, <1>3, <1>4

\* The first external symbol with a name, if there is one.
LEMMA FirstNamed ==
  ASSUME NEW objs \in Seq(ObjectFile), NEW at \in Nat, NEW E \in SUBSET External(objs, at), E # {}
  PROVE  \E e \in E : \A d \in E : e.file <= d.file
<1> DEFINE S == {e.file : e \in E}
<1>1. S \in SUBSET Nat
  <2>1. ASSUME NEW e \in E PROVE e.file \in Nat
    <3>1. e \in External(objs, at)
      OBVIOUS
    <3>2. e.file \in 1..Len(objs) /\ Len(objs) \in Nat
      BY <3>1, ExternalType, LenProperties
    <3> QED BY <3>2
  <2> QED BY <2>1
<1>2. S # {}
  OBVIOUS
<1>3. PICK m \in S : \A i \in S : m <= i
  <2> HIDE DEF S
  <2> QED BY <1>1, <1>2, Least
<1> QED BY <1>3

\* The address a reference gets is that of its target.
LEMMA ReferenceResolved ==
  ASSUME NEW objs \in Seq(ObjectPrograms), NEW at \in Nat,
         \A k \in 1..Len(objs) : Accepted(objs, k),
         NEW k \in 1..Len(objs), NEW ref \in RefNumbers(objs[k])
  PROVE  LET tab == Table(objs, at, Len(objs))
             a   == Resolved(References(objs[k], tab[k]), tab, ref)
         IN  /\ a = -1 <=> Meant(objs, k, ref, at) = {}
             /\ a # -1 => a = Target(objs, k, ref, at) /\ a \in Nat
<1> DEFINE tab == Table(objs, at, Len(objs))
           r   == References(objs[k], tab[k])
           meant == Meant(objs, k, ref, at)
<1>1. objs \in Seq(ObjectFile) /\ objs[k] \in ObjectPrograms /\ at \in Int /\ objs[k] \in ObjectFile
  <2>1. ObjectPrograms \subseteq ObjectFile
    BY DEF ObjectPrograms
  <2> QED BY <2>1, SeqMonotonic, ElementOfSeq
<1>2. tab[k] = EntryOf(objs, at, k, Len(objs[k].D))
  <2>1. Len(objs) \in 0..Len(objs)
    BY LenProperties
  <2> QED BY <1>1, <2>1, TableType
<1>3. tab[k].addr = SectionAt(objs, k, at)
  BY <1>2 DEF EntryOf
<1> HIDE DEF tab
<1>4. CASE ref = 1
  <2>1. r[1].used_flag = SectionAt(objs, k, at)
    <3>1. r[1] = [sym |-> tab[k].cs, used_flag |-> tab[k].addr]
      BY <1>1, ReferencesNumbered
    <3> QED BY <1>3, <3>1
  <2>2. SectionAt(objs, k, at) \in Nat
    <3>1. k \in 1..Len(objs) + 1
      BY LenProperties
    <3>2. SectionAt(objs, k, at) \in Int /\ SectionAt(objs, k, at) >= at
      BY <1>1, <3>1, SectionsFollow
    <3> QED BY <3>2
  <2>3. SectionSymbol(objs, at, k) \in External(objs, at)
    BY <1>1, Externals
  <2>4. ASSUME NEW e \in External(objs, at), e.section, e.file = k
        PROVE  e = SectionSymbol(objs, at, k)
    <3>1. PICK i \in 1..Len(objs) : \/ e = SectionSymbol(objs, at, i)
                                    \/ \E j \in 1..Len(objs[i].D) : e = DefinedSymbol(objs, at, i, j)
      BY <1>1, Externals
    <3> QED BY <2>4, <3>1 DEF SectionSymbol, DefinedSymbol
  <2>5. meant = {e \in External(objs, at) : e.section /\ e.file = k}
    BY <1>4 DEF Meant
  <2>6. meant = {SectionSymbol(objs, at, k)}
    <3>1. SectionSymbol(objs, at, k).section /\ SectionSymbol(objs, at, k).file = k
      BY DEF SectionSymbol
    <3> QED BY <2>3, <2>4, <2>5, <3>1
  <2>7. Target(objs, k, ref, at) = SectionAt(objs, k, at)
    <3>1. PICK e \in meant : e = CHOOSE x \in meant : \A d \in meant : x.file <= d.file
      <4>1. SectionSymbol(objs, at, k).file = k /\ k \in Int /\ k <= k
        BY DEF SectionSymbol
      <4> HIDE DEF meant
      <4> QED BY <2>6, <4>1
    <3>2. e.addr = SectionAt(objs, k, at)
      BY <2>6, <3>1 DEF SectionSymbol
    <3>3. Target(objs, k, ref, at) = (CHOOSE x \in meant : \A d \in meant : x.file <= d.file).addr
      BY DEF Target
    <3> QED BY <3>1, <3>2, <3>3
  <2>8. Resolved(r, tab, ref) = SectionAt(objs, k, at)
    BY <1>4, <2>1, <2>2 DEF Resolved
  <2> QED BY <2>2, <2>6, <2>7, <2>8 DEF tab
<1>5. CASE ref # 1
  <2>1. PICK j \in DOMAIN objs[k].R : ref = objs[k].R[j].ref
    BY <1>5 DEF RefNumbers
  <2> DEFINE sym == objs[k].R[j].sym
  <2>2. r[ref].used_flag = -1 /\ r[ref].sym = sym
    <3>1. r[objs[k].R[j].ref] = [sym |-> objs[k].R[j].sym, used_flag |-> -1]
      BY <1>1, ReferencesNumbered
    <3> QED BY <2>1, <3>1
  <2>3. Resolved(r, tab, ref) = AddressOf(tab, sym)
    BY <2>2 DEF Resolved
  <2>4. meant = {e \in External(objs, at) : e.sym = sym}
    <3>1. ToSet(objs[k].R) = {objs[k].R[i] : i \in DOMAIN objs[k].R}
      BY DEF ToSet
    <3>2. \A i \in DOMAIN objs[k].R : objs[k].R[i].ref = ref => i = j
      BY <1>1, <2>1, ReferencesNumbered
    <3>3. \A s : (\E x \in ToSet(objs[k].R) : x.ref = ref /\ s = x.sym) <=> s = sym
      BY <2>1, <3>1, <3>2
    <3>4. meant = {e \in External(objs, at) : \E x \in ToSet(objs[k].R) : x.ref = ref /\ e.sym = x.sym}
      BY <1>5 DEF Meant
    <3> QED BY <3>3, <3>4
  <2> HIDE DEF sym
  <2>5. CASE meant = {}
    <3>1. \A e \in External(objs, at) : e.sym # sym
      BY <2>4, <2>5
    <3>2. AddressOf(tab, sym) = -1
      BY <1>1, <3>1, NotFound DEF tab
    <3> QED BY <2>3, <2>5, <3>2 DEF tab
  <2>6. CASE meant # {}
    <3>1. meant \in SUBSET External(objs, at)
      BY <2>4
    <3>2. \E e \in meant : \A d \in meant : e.file <= d.file
      <4> HIDE DEF meant
      <4> QED BY <1>1, <2>6, <3>1, FirstNamed
    <3>3. PICK e \in meant : /\ e = CHOOSE x \in meant : \A d \in meant : x.file <= d.file
                             /\ \A d \in meant : e.file <= d.file
      <4> HIDE DEF meant
      <4> QED BY <3>2
    <3>4. e \in External(objs, at) /\ e.sym = sym
          /\ \A d \in External(objs, at) : d.sym = e.sym => e.file <= d.file
      BY <2>4, <3>3
    <3>5. AddressOf(tab, e.sym) = e.addr
      BY <1>1, <3>4, Found DEF tab
    <3>6. Target(objs, k, ref, at) = e.addr
      BY <3>3 DEF Target
    <3>7. e.addr \in Nat
      BY <1>1, <3>4, ExternalType
    <3>8. Resolved(r, tab, ref) = e.addr
      BY <2>3, <3>4, <3>5
    <3> HIDE DEF meant, r
    <3> QED BY <2>6, <3>6, <3>7, <3>8 DEF meant, r, tab
  <2> QED BY <2>5, <2>6
<1> QED BY <1>4, <1>5
-----------------------------------------------------------------------------
(* The memory: numbers at some addresses.                                 *)
Memories == UNION {[D -> Int] : D \in SUBSET Int}

\* A cell is a number.
LEMMA PeekType ==
  ASSUME NEW mem \in Memories, NEW a
  PROVE  Peek(mem, a) \in Int
<1>1. PICK D \in SUBSET Int : mem \in [D -> Int]
  BY DEF Memories
<1>2. CASE a \in DOMAIN mem
  <2>1. a \in D /\ Peek(mem, a) = mem[a]
    BY <1>1, <1>2 DEF Peek
  <2> QED BY <1>1, <2>1
<1>3. CASE a \notin DOMAIN mem
  <2>1. Peek(mem, a) = 0
    BY <1>3 DEF Peek
  <2> QED BY <2>1
<1> QED BY <1>2, <1>3

\* What is written is read again, and nothing else has changed.
LEMMA PeekPoke ==
  ASSUME NEW mem \in Memories, NEW a \in Int, NEW bytes \in Seq(Int)
  PROVE  /\ Poke(mem, a, bytes) \in Memories
         /\ \A b \in Int : Peek(Poke(mem, a, bytes), b) =
              IF b \in a .. a + Len(bytes) - 1 THEN bytes[b - a + 1] ELSE Peek(mem, b)
<1>1. PICK D \in SUBSET Int : mem \in [D -> Int]
  BY DEF Memories
<1>2. Len(bytes) \in Nat /\ \A i \in 1..Len(bytes) : bytes[i] \in Int
  BY LenProperties, ElementOfSeq
<1> DEFINE cells == a .. a + Len(bytes) - 1
           new == [b \in D \cup cells |-> IF b \in cells THEN bytes[b - a + 1] ELSE mem[b]]
<1>3. Poke(mem, a, bytes) = new
  BY <1>1 DEF Poke
<1>4. cells \subseteq Int /\ \A b \in cells : b - a + 1 \in 1..Len(bytes)
  BY <1>2
<1>5. new \in [D \cup cells -> Int] /\ D \cup cells \in SUBSET Int
  <2> HIDE DEF cells
  <2>1. \A b \in D \cup cells : (IF b \in cells THEN bytes[b - a + 1] ELSE mem[b]) \in Int
    BY <1>1, <1>2, <1>4
  <2> QED BY <1>4, <2>1
<1>6. ASSUME NEW b \in Int
      PROVE  Peek(new, b) = IF b \in cells THEN bytes[b - a + 1] ELSE Peek(mem, b)
  <2> HIDE DEF cells
  <2> QED BY <1>1 DEF Peek
<1> HIDE DEF new
<1> QED BY <1>3, <1>5, <1>6 DEF Memories

\* The powers of two of the fields.
LEMMA Powers ==
  /\ 2^20 = 1048576 /\ 2^24 = 16777216
  /\ 2^(4 * 5) = 1048576 /\ 2^(4 * 6) = 16777216
<1>1. 2^20 = 1048576
  BY SMT
<1>2. 2^24 = 16777216
  BY SMT
<1>3. 4 * 5 = 20 /\ 4 * 6 = 24
  BY SMT
<1> QED BY <1>1, <1>2, <1>3

\* x is a multiple of 16^half.
Multiple(x, half) == \E q \in Int : x = q * (IF half = 5 THEN 1048576 ELSE 16777216)

\* Remainder zero.
LEMMA MultipleMeans ==
  ASSUME NEW x \in Int, NEW half \in {5, 6}
  PROVE  x % 2^(4 * half) = 0 <=> Multiple(x, half)
<1>1. CASE half = 5
  <2>1. x % 1048576 = 0 <=> \E q \in Int : x = q * 1048576
    BY SMT
  <2> QED BY <1>1, <2>1, Powers DEF Multiple
<1>2. CASE half = 6
  <2>1. x % 16777216 = 0 <=> \E q \in Int : x = q * 16777216
    BY SMT
  <2> QED BY <1>2, <2>1, Powers DEF Multiple
<1> QED BY <1>1, <1>2

\* Multiples add up.
LEMMA MultipleSum ==
  ASSUME NEW x \in Int, NEW y \in Int, NEW half, Multiple(x, half), Multiple(y, half)
  PROVE  Multiple(x + y, half)
<1> DEFINE p == IF half = 5 THEN 1048576 ELSE 16777216
<1>1. PICK q \in Int : x = q * p
  BY DEF Multiple
<1>2. PICK r \in Int : y = r * p
  BY DEF Multiple
<1>3. x + y = (q + r) * p /\ q + r \in Int
  BY <1>1, <1>2
<1> QED BY <1>3 DEF Multiple

\* A word is a number.
LEMMA WordType ==
  ASSUME NEW mem \in Memories, NEW a
  PROVE  Word(mem, a) \in Int
BY PeekType DEF Word

\* A written word is read again, modulo its 24 bits; the cells around it stay.
LEMMA WordPoked ==
  ASSUME NEW mem \in Memories, NEW a \in Int, NEW w \in Int
  PROVE  /\ PokeWord(mem, a, w) \in Memories
         /\ \A b \in Int : b \notin a .. a + 2 => Peek(PokeWord(mem, a, w), b) = Peek(mem, b)
         /\ \E q \in Int : Word(PokeWord(mem, a, w), a) = w + q * 16777216
<1> DEFINE x == (w \div 65536) % 256
           y == (w \div 256) % 256
           z == w % 256
           bytes == <<x, y, z>>
<1>1. x \in Int /\ y \in Int /\ z \in Int
  BY SMT
<1>2. \E q \in Int : 65536 * x + 256 * y + z = w + q * 16777216
  <2> DEFINE u == w \div 256
             v == u \div 256
  <2>1. u \in Int /\ w = 256 * u + z
    BY SMT
  <2>2. w \div 65536 = v
    BY SMT
  <2> HIDE DEF u
  <2>3. v \in Int /\ u = 256 * v + (u % 256)
    BY <2>1, SMT
  <2>4. y = u % 256
    BY DEF u
  <2> HIDE DEF v
  <2>5. x = v % 256
    BY <2>2
  <2>6. \E q \in Int : v % 256 = v + q * 256
    BY <2>3, SMT
  <2> HIDE DEF x, y, z
  <2>7. PICK q \in Int : x = v + q * 256
    BY <2>5, <2>6
  <2>8. 65536 * x + 256 * y + z = w + q * 16777216
    BY <1>1, <2>1, <2>3, <2>4, <2>7
  <2> QED BY <2>8
<1> HIDE DEF x, y, z
<1>3. bytes \in Seq(Int) /\ Len(bytes) = 3 /\ bytes[1] = x /\ bytes[2] = y /\ bytes[3] = z
  BY <1>1
<1>4. PokeWord(mem, a, w) = Poke(mem, a, bytes)
  BY DEF PokeWord, x, y, z
<1> HIDE DEF bytes
<1>5. /\ Poke(mem, a, bytes) \in Memories
      /\ \A b \in Int : Peek(Poke(mem, a, bytes), b) =
           IF b \in a .. a + Len(bytes) - 1 THEN bytes[b - a + 1] ELSE Peek(mem, b)
  BY <1>3, PeekPoke
<1>6. a + Len(bytes) - 1 = a + 2
  BY <1>3
<1>7. \A b \in Int : b \notin a .. a + 2 => Peek(PokeWord(mem, a, w), b) = Peek(mem, b)
  BY <1>4, <1>5, <1>6
<1>8. /\ Peek(PokeWord(mem, a, w), a) = x /\ Peek(PokeWord(mem, a, w), a + 1) = y
      /\ Peek(PokeWord(mem, a, w), a + 2) = z
  BY <1>3, <1>4, <1>5, <1>6
<1>9. Word(PokeWord(mem, a, w), a) = 65536 * x + 256 * y + z
  BY <1>8 DEF Word
<1> QED BY <1>2, <1>4, <1>5, <1>7, <1>9
-----------------------------------------------------------------------------
(* The states of pass 2.                                                  *)
RefTables  == UNION {[K -> [sym: Strings, used_flag: Int]] : K \in SUBSET Nat}
PassStates == [ok: BOOLEAN, mem: Memories, estab: Seq(FileEntry), csaddr: Int, execaddr: Int,
               r: RefTables, buffer: Seq(Int)]

\* All but the memory and the buffer are as they were.
Alike(s, new) ==
  /\ new.ok = s.ok /\ new.estab = s.estab /\ new.csaddr = s.csaddr
  /\ new.execaddr = s.execaddr /\ new.r = s.r

\* A text as long as it says is put into the memory as it is.
LEMMA TextBytesType ==
  ASSUME NEW t \in Text, NEW buffer \in Seq(Int)
  PROVE  /\ TextBytesOf(t, buffer) \in Seq(Int)
         /\ t.length = Len(t.body) => TextBytesOf(t, buffer) = t.body
<1> DEFINE byte(j) == CASE j <= Len(t.body)    -> t.body[j]
                        [] j = Len(t.body) + 1 -> 255
                        [] OTHER               -> IF j \in DOMAIN buffer THEN buffer[j] ELSE 255
<1>1. t.length \in Int /\ t.body \in Seq(Int) /\ Len(t.body) \in Nat
  <2>1. t.length \in Int /\ t.body \in Seq(Int)
    BY DEF Text
  <2> QED BY <2>1, LenProperties
<1>2. \A i \in 1..Len(t.body) : t.body[i] \in Int
  BY <1>1, ElementOfSeq
<1>3. ASSUME NEW j \in 1..t.length PROVE byte(j) \in Int
  <2>0. j \in Nat /\ j >= 1
    BY <1>1
  <2>1. CASE j <= Len(t.body)
    <3>1. byte(j) = t.body[j] /\ j \in 1..Len(t.body)
      BY <1>1, <2>0, <2>1
    <3> QED BY <1>2, <3>1
  <2>2. CASE j = Len(t.body) + 1
    <3>1. byte(j) = 255
      BY <1>1, <2>0, <2>2
    <3> QED BY <3>1
  <2>3. CASE ~(j <= Len(t.body)) /\ j # Len(t.body) + 1
    <3>1. byte(j) = IF j \in DOMAIN buffer THEN buffer[j] ELSE 255
      BY <2>3
    <3>2. \A i \in DOMAIN buffer : buffer[i] \in Int
      BY LenProperties, ElementOfSeq
    <3> HIDE DEF byte
    <3>3. CASE j \in DOMAIN buffer
      BY <3>1, <3>2, <3>3
    <3>4. CASE j \notin DOMAIN buffer
      <4>1. byte(j) = 255
        BY <3>1, <3>4
      <4> QED BY <4>1
    <3> QED BY <3>3, <3>4
  <2> QED BY <2>1, <2>2, <2>3
<1>4. TextBytesOf(t, buffer) = [j \in 1..t.length |-> byte(j)]
  BY DEF TextBytesOf
<1>5. ASSUME t.length = Len(t.body) PROVE TextBytesOf(t, buffer) = t.body
  <2>1. ASSUME NEW j \in 1..Len(t.body) PROVE byte(j) = t.body[j]
    BY <1>1
  <2>2. t.body = [j \in 1..Len(t.body) |-> t.body[j]]
    BY <1>1
  <2> HIDE DEF byte
  <2> QED BY <1>4, <1>5, <2>1, <2>2
<1> HIDE DEF byte
<1>6. TextBytesOf(t, buffer) \in Seq(Int)
  <2>1. PICK n \in Nat : 1..t.length = 1..n
    <3>1. CASE t.length >= 0
      BY <1>1, <3>1
    <3>2. CASE ~(t.length >= 0)
      <4>1. 1..t.length = 1..0 /\ 0 \in Nat
        BY <1>1, <3>2
      <4> QED BY <4>1
    <3> QED BY <3>1, <3>2
  <2>2. TextBytesOf(t, buffer) \in [1..n -> Int]
    BY <1>3, <1>4, <2>1
  <2> QED BY <2>2
<1> QED BY <1>5, <1>6

\* A text changes its own cells only.
LEMMA LoadTextKeeps ==
  ASSUME NEW s \in PassStates, NEW t \in Text
  PROVE  LET new == LoadText(s, t) IN
         /\ new \in PassStates /\ Alike(s, new)
         /\ new.mem = Poke(s.mem, s.csaddr + t.loc, TextBytesOf(t, s.buffer))
<1> DEFINE bytes == TextBytesOf(t, s.buffer)
           n == IF Len(s.buffer) > Len(t.body) + 1 THEN Len(s.buffer) ELSE Len(t.body) + 1
           buf == [j \in 1..n |-> IF j <= Len(t.body) THEN t.body[j]
                                  ELSE IF j = Len(t.body) + 1 THEN 255 ELSE s.buffer[j]]
           mem == Poke(s.mem, s.csaddr + t.loc, bytes)
           new == LoadText(s, t)
<1>1. s \in [ok: BOOLEAN, mem: Memories, estab: Seq(FileEntry), csaddr: Int, execaddr: Int,
             r: RefTables, buffer: Seq(Int)]
  BY DEF PassStates
<1>2. t.loc \in Int /\ t.body \in Seq(Int)
  BY DEF Text
<1>3. bytes \in Seq(Int)
  BY <1>1, TextBytesType
<1>4. buf \in Seq(Int)
  <2>1. Len(s.buffer) \in Nat /\ Len(t.body) \in Nat
    BY <1>1, <1>2, LenProperties
  <2>2. n \in Nat
    BY <2>1
  <2>3. ASSUME NEW j \in 1..n
        PROVE  (IF j <= Len(t.body) THEN t.body[j]
                ELSE IF j = Len(t.body) + 1 THEN 255 ELSE s.buffer[j]) \in Int
    <3>1. CASE j <= Len(t.body)
      BY <1>2, <2>1, <3>1, ElementOfSeq
    <3>2. CASE j = Len(t.body) + 1
      BY <2>1, <3>2
    <3>3. CASE ~(j <= Len(t.body)) /\ j # Len(t.body) + 1
      <4>1. j \in 1..Len(s.buffer)
        BY <2>1, <3>3
      <4>2. s.buffer[j] \in Int
        BY <1>1, <4>1, ElementOfSeq
      <4> QED BY <3>3, <4>2
    <3> QED BY <3>1, <3>2, <3>3
  <2> HIDE DEF n
  <2> QED BY <2>2, <2>3
<1>5. mem \in Memories
  <2>1. s.csaddr + t.loc \in Int
    BY <1>1, <1>2
  <2> HIDE DEF bytes
  <2> QED BY <1>1, <1>3, <2>1, PeekPoke
<1>6. new = [s EXCEPT !.mem = mem, !.buffer = buf]
  BY <1>1 DEF LoadText
<1> HIDE DEF mem, buf, new
<1>7. new \in PassStates /\ Alike(s, new) /\ new.mem = mem
  BY <1>1, <1>4, <1>5, <1>6 DEF PassStates, Alike
<1> QED BY <1>7 DEF mem, new

\* A text that is as long as it says changes the cells it is for.
LEMMA LoadTextShows ==
  ASSUME NEW s \in PassStates, NEW t \in Text, t.length = Len(t.body), NEW b \in Int
  PROVE  Peek(LoadText(s, t).mem, b) =
           IF b - s.csaddr - t.loc \in 0 .. Len(t.body) - 1
           THEN t.body[b - s.csaddr - t.loc + 1] ELSE Peek(s.mem, b)
<1> DEFINE a == s.csaddr + t.loc
<1>1. s.csaddr \in Int /\ s.mem \in Memories /\ s.buffer \in Seq(Int)
  BY DEF PassStates
<1>2. t.loc \in Int /\ t.body \in Seq(Int)
  BY DEF Text
<1>3. LoadText(s, t).mem = Poke(s.mem, a, t.body)
  <2>1. TextBytesOf(t, s.buffer) = t.body
    BY <1>1, TextBytesType
  <2> QED BY <2>1, LoadTextKeeps
<1>4. Len(t.body) \in Nat /\ a \in Int
  BY <1>1, <1>2, LenProperties
<1>5. Peek(LoadText(s, t).mem, b) =
        IF b \in a .. a + Len(t.body) - 1 THEN t.body[b - a + 1] ELSE Peek(s.mem, b)
  <2> HIDE DEF a
  <2>1. \A c \in Int : Peek(Poke(s.mem, a, t.body), c) =
          IF c \in a .. a + Len(t.body) - 1 THEN t.body[c - a + 1] ELSE Peek(s.mem, c)
    BY <1>1, <1>2, <1>4, PeekPoke
  <2> QED BY Zenon, <1>3, <2>1
<1>6. b - s.csaddr - t.loc = b - a
  BY <1>1, <1>2
<1>7. b - a \in 0 .. Len(t.body) - 1 <=> b \in a .. a + Len(t.body) - 1
  <2> HIDE DEF a
  <2> QED BY <1>4
<1> HIDE DEF a
<1> QED BY <1>5, <1>6, <1>7

\* Is cell b one that text j is for, in a section that begins at cs?
Reaches(T, cs, j, b) == b - cs - T[j].loc \in 0 .. Len(T[j].body) - 1

\* v is what the last of the first n texts has for cell b, or what was there.
LastText(T, n, cs, b, old, v) ==
  \/ v = old /\ \A j \in 1..n : ~Reaches(T, cs, j, b)
  \/ \E j \in 1..n : /\ Reaches(T, cs, j, b) /\ v = T[j].body[b - cs - T[j].loc + 1]
                     /\ \A i \in 1..n : Reaches(T, cs, i, b) => i <= j

\* The texts of a file, one by one.
LEMMA LoadTextRuns ==
  ASSUME NEW s \in PassStates, NEW seq \in Seq(Text)
  PROVE  \E h \in [0..Len(seq) -> PassStates] :
           LoadTextChain(h, s, seq) /\ LoadTextRun(s, seq) = h[Len(seq)]
<1>1. \A x \in PassStates, t \in Text : LoadText(x, t) \in PassStates
  BY LoadTextKeeps
<1> QED BY <1>1, LoadTextFold

\* Each cell holds what the last text for it has.
LEMMA TextsLoaded ==
  ASSUME NEW s \in PassStates, NEW T \in Seq(Text)
  PROVE  LET new == LoadTextRun(s, T) IN
         /\ new \in PassStates /\ Alike(s, new)
         /\ (\A j \in 1..Len(T) : T[j].length = Len(T[j].body)) =>
              \A b \in Int : LastText(T, Len(T), s.csaddr, b, Peek(s.mem, b), Peek(new.mem, b))
<1> DEFINE n == Len(T)
           cs == s.csaddr
           Exactly == \A j \in 1..n : T[j].length = Len(T[j].body)
<1>1. n \in Nat /\ \A j \in 1..n : T[j] \in Text
  BY LenProperties, ElementOfSeq
<1>2. PICK h \in [0..n -> PassStates] : LoadTextChain(h, s, T) /\ LoadTextRun(s, T) = h[n]
  BY LoadTextRuns
<1>3. h[0] = s /\ \A j \in 1..n : h[j] = LoadText(h[j - 1], T[j])
  BY <1>2 DEF LoadTextChain
<1> DEFINE Same == {j \in 0..n : Alike(s, h[j])}
<1>4. n \in Same
  <2>1. 0 \in Same
    BY <1>1, <1>3 DEF Alike
  <2>2. ASSUME NEW j \in 1..n, j - 1 \in Same PROVE j \in Same
    <3>1. j - 1 \in 0..n /\ j \in 0..n
      BY <1>1
    <3>2. Alike(h[j - 1], h[j])
      <4>1. h[j] = LoadText(h[j - 1], T[j]) /\ h[j - 1] \in PassStates /\ T[j] \in Text
        BY <1>1, <1>3, <3>1
      <4> QED BY <4>1, LoadTextKeeps
    <3> QED BY <2>2, <3>1, <3>2 DEF Alike
  <2>3. \A j \in 0..n : j \in Same
    <3> HIDE DEF Same, n
    <3> QED BY <1>1, <2>1, <2>2, Upwards
  <2> QED BY <1>1, <2>3
<1>5. ASSUME Exactly, NEW b \in Int PROVE LastText(T, n, cs, b, Peek(s.mem, b), Peek(h[n].mem, b))
  <2> DEFINE Good == {j \in 0..n : /\ h[j].csaddr = cs
                                   /\ LastText(T, j, cs, b, Peek(s.mem, b), Peek(h[j].mem, b))}
  <2>1. 0 \in Good
    BY <1>1, <1>3 DEF LastText
  <2>2. ASSUME NEW j \in 1..n, j - 1 \in Good PROVE j \in Good
    <3>1. j - 1 \in 0..n /\ j \in 0..n /\ j \in Int /\ T[j] \in Text
      BY <1>1
    <3>2. h[j] = LoadText(h[j - 1], T[j]) /\ h[j - 1] \in PassStates
      BY <1>3, <3>1
    <3>3. h[j - 1].csaddr = cs
          /\ LastText(T, j - 1, cs, b, Peek(s.mem, b), Peek(h[j - 1].mem, b))
      BY <2>2
    <3>4. Alike(h[j - 1], h[j])
      BY <3>1, <3>2, LoadTextKeeps
    <3>5. T[j].length = Len(T[j].body)
      BY <1>5
    <3>6. Peek(h[j].mem, b) = IF b - cs - T[j].loc \in 0 .. Len(T[j].body) - 1
                              THEN T[j].body[b - cs - T[j].loc + 1] ELSE Peek(h[j - 1].mem, b)
      <4>1. Peek(LoadText(h[j - 1], T[j]).mem, b) =
              IF b - h[j - 1].csaddr - T[j].loc \in 0 .. Len(T[j].body) - 1
              THEN T[j].body[b - h[j - 1].csaddr - T[j].loc + 1] ELSE Peek(h[j - 1].mem, b)
        BY <3>1, <3>2, <3>5, LoadTextShows
      <4> HIDE DEF cs
      <4> QED BY <3>2, <3>3, <4>1
    <3>7. LastText(T, j, cs, b, Peek(s.mem, b), Peek(h[j].mem, b))
      <4> HIDE DEF cs, Good
      <4>1. \A i \in 1..j : i \in 1..j - 1 \/ i = j
        BY <3>1
      <4>2. \A i \in 1..j - 1 : i \in 1..j /\ i <= j
        BY <3>1
      <4>3. j \in 1..j /\ j <= j
        BY <3>1
      <4>4. CASE Reaches(T, cs, j, b)
        <5>1. Peek(h[j].mem, b) = T[j].body[b - cs - T[j].loc + 1]
          BY <3>6, <4>4 DEF Reaches
        <5>2. \A i \in 1..j : i <= j
          BY <3>1
        <5> QED BY <4>3, <4>4, <5>1, <5>2 DEF LastText
      <4>5. CASE ~Reaches(T, cs, j, b)
        <5>1. Peek(h[j].mem, b) = Peek(h[j - 1].mem, b)
          BY <3>6, <4>5 DEF Reaches
        <5>2. LastText(T, j - 1, cs, b, Peek(s.mem, b), Peek(h[j].mem, b))
          BY <3>3, <5>1
        <5> QED BY <4>1, <4>2, <4>5, <5>2 DEF LastText
      <4> QED BY <4>4, <4>5
    <3>8. h[j].csaddr = cs
      BY <3>3, <3>4 DEF Alike
    <3> QED BY <3>1, <3>7, <3>8
  <2>3. \A j \in 0..n : j \in Good
    <3> HIDE DEF Good, n
    <3> QED BY <1>1, <2>1, <2>2, Upwards
  <2>4. n \in Good
    BY <1>1, <2>3
  <2> QED BY <2>4
<1>6. h[n] \in PassStates /\ Alike(s, h[n])
  BY <1>1, <1>4
<1> HIDE DEF n
<1> QED BY <1>2, <1>5, <1>6 DEF n

\* An address that is looked up is a number.
LEMMA AddressOfType ==
  ASSUME NEW estab \in Seq(FileEntry), NEW sym
  PROVE  AddressOf(estab, sym) \in Int
<1> DEFINE files == {k \in DOMAIN estab : HasName(estab[k], sym)}
           f == Earliest(files)
           js == {j \in DOMAIN estab[f].syms : estab[f].syms[j].sym = sym}
           i == Earliest(js)
<1>1. ASSUME NEW S \in SUBSET Nat, S # {} PROVE Earliest(S) \in S
  <2>1. \E m \in S : \A j \in S : m <= j
    BY <1>1, Least
  <2> QED BY <2>1 DEF Earliest
<1>2. CASE files = {}
  <2>1. AddressOf(estab, sym) = -1
    BY <1>2 DEF AddressOf
  <2> QED BY <2>1
<1>3. CASE files # {}
  <2>1. DOMAIN estab = 1..Len(estab) /\ Len(estab) \in Nat
    BY LenProperties
  <2>2. files \in SUBSET Nat
    BY <2>1
  <2>3. f \in files
    <3> HIDE DEF files
    <3> QED BY <1>1, <1>3, <2>2
  <2>4. f \in 1..Len(estab) /\ HasName(estab[f], sym)
    BY <2>1, <2>3
  <2>5. AddressOf(estab, sym) = IF estab[f].cs = sym THEN estab[f].addr ELSE estab[f].syms[i].addr
    BY <1>3 DEF AddressOf
  <2> HIDE DEF f
  <2>6. estab[f] \in FileEntry
    BY <2>4, ElementOfSeq
  <2>7. estab[f].addr \in Int /\ estab[f].syms \in Seq(SymbolEntry)
    BY <2>6 DEF FileEntry
  <2>8. DOMAIN estab[f].syms = 1..Len(estab[f].syms) /\ Len(estab[f].syms) \in Nat
    BY <2>7, LenProperties
  <2>9. CASE estab[f].cs # sym
    <3>1. js \in SUBSET Nat
      BY <2>8
    <3>2. js # {}
      BY <2>4, <2>9 DEF HasName
    <3>3. i \in js
      <4> HIDE DEF js
      <4> QED BY <1>1, <3>1, <3>2
    <3>4. i \in 1..Len(estab[f].syms)
      BY <2>8, <3>3
    <3> HIDE DEF i
    <3>5. estab[f].syms[i] \in SymbolEntry
      BY <2>7, <3>4, ElementOfSeq
    <3>6. estab[f].syms[i].addr \in Int
      BY <3>5 DEF SymbolEntry
    <3> QED BY <2>5, <2>9, <3>6
  <2> HIDE DEF i
  <2> QED BY <2>5, <2>7, <2>9
<1> QED BY <1>2, <1>3

\* What is left of a number differs from it by multiples.
LEMMA Remainders ==
  ASSUME NEW u \in Int
  PROVE  /\ \E q \in Int : u % 1048576 = u + q * 1048576
         /\ \E q \in Int : u % 16777216 = u + q * 16777216
<1>1. u = 1048576 * (u \div 1048576) + (u % 1048576) /\ u \div 1048576 \in Int
  BY SMT
<1>2. u = 16777216 * (u \div 16777216) + (u % 16777216) /\ u \div 16777216 \in Int
  BY SMT
<1>3. PICK d \in Int : u = 1048576 * d + (u % 1048576)
  BY SMT, <1>1
<1>4. PICK e \in Int : u = 16777216 * e + (u % 16777216)
  BY SMT, <1>2
<1>5. PICK q \in Int : q = -d
  OBVIOUS
<1>6. PICK r \in Int : r = -e
  OBVIOUS
<1>7. u % 1048576 = u + q * 1048576
  BY SMT, <1>3, <1>5
<1>8. u % 16777216 = u + r * 16777216
  BY SMT, <1>4, <1>6
<1> QED BY SMT, <1>7, <1>8

\* What a modification adds to the word, but for multiples of its half-bytes.
LEMMA ModifiedAdds ==
  ASSUME NEW w \in Int, NEW half \in {5, 6}, NEW sign \in {"+", "-"}, NEW addr \in Int
  PROVE  /\ Modified(w, half, sign, addr) \in Int
         /\ Multiple(Modified(w, half, sign, addr) - w - (IF sign = "+" THEN addr ELSE -addr), half)
<1> DEFINE new == Modified(w, half, sign, addr)
           v == IF sign = "+" THEN addr ELSE -addr
<1>0. v \in Int /\ (sign = "+" => v = addr) /\ (sign = "-" => v = -addr) /\ "+" # "-"
  OBVIOUS
<1>1. CASE sign = "+"
  <2>1. new = w + addr
    BY <1>1 DEF Modified
  <2> HIDE DEF new, v
  <2>2. new \in Int /\ new - w - v = 0
    BY <1>0, <1>1, <2>1
  <2>3. \E q \in Int : 0 = q * (IF half = 5 THEN 1048576 ELSE 16777216)
    <3>1. 0 = 0 * (IF half = 5 THEN 1048576 ELSE 16777216) /\ 0 \in Int
      BY SMT
    <3> QED BY SMT, <3>1
  <2>4. Multiple(0, half)
    BY SMT, <2>3 DEF Multiple
  <2> QED BY <2>2, <2>4 DEF new, v
<1>2. CASE sign = "-" /\ half = 5
  <2>1. new = (w \div 2^20) * 2^20 + ((w - addr) % 2^20)
    BY <1>0, <1>2 DEF Modified
  <2>2. new = (w \div 1048576) * 1048576 + ((w - addr) % 1048576)
    BY SMT, <2>1, Powers
  <2>3. PICK p \in Int : p = w \div 1048576
    BY SMT
  <2>4. PICK u \in Int : u = w - addr
    OBVIOUS
  <2>5. PICK q \in Int : u % 1048576 = u + q * 1048576
    BY Remainders
  <2>6. PICK r \in Int : w % 1048576 = w + r * 1048576
    BY Remainders
  <2> HIDE DEF new, v
  <2>7. new = p * 1048576 + (u + q * 1048576)
    BY SMT, <2>2, <2>3, <2>4, <2>5
  <2>8. new \in Int /\ new - w - v = (p + q) * 1048576
    BY SMT, <1>0, <1>2, <2>4, <2>7
  <2>10. PICK e \in Int : e = p + q
    OBVIOUS
  <2>9. \E d \in Int : new - w - v = d * (IF half = 5 THEN 1048576 ELSE 16777216)
    <3>1. new - w - v = e * 1048576
      BY SMT, <2>8, <2>10
    <3>2. 1048576 = IF half = 5 THEN 1048576 ELSE 16777216
      BY SMT, <1>2
    <3> QED BY SMT, <3>1, <3>2
  <2> QED BY SMT, <2>8, <2>9 DEF Multiple, new, v
<1>3. CASE sign = "-" /\ half = 6
  <2>1. new = (w - addr) % 2^24
    <3>1. half # 5
      BY <1>3
    <3> QED BY <1>0, <1>3, <3>1 DEF Modified
  <2>2. PICK u \in Int : u = w - addr
    OBVIOUS
  <2>3. PICK q \in Int : u % 16777216 = u + q * 16777216
    BY Remainders
  <2> HIDE DEF new, v
  <2>4. new = u + q * 16777216
    BY SMT, <2>1, <2>2, <2>3, Powers
  <2>5. new \in Int /\ new - w - v = q * 16777216
    BY SMT, <1>0, <1>3, <2>2, <2>4
  <2>6. \E d \in Int : new - w - v = d * (IF half = 5 THEN 1048576 ELSE 16777216)
    BY SMT, <1>3, <2>5
  <2> QED BY SMT, <2>5, <2>6 DEF Multiple, new, v
<1> QED BY <1>0, <1>1, <1>2, <1>3

\* The states of pass 2 within a file whose references have the numbers K.
FileStates(K) == {s \in PassStates : DOMAIN s.r = K}
FileMods(K)   == {m \in Modification : m.sign \in {"+", "-"} /\ m.ref \in K}

\* A modification fails or leaves all that is looked up as it was.
Kept(s, new, K) ==
  /\ new.estab = s.estab /\ new.csaddr = s.csaddr /\ new.execaddr = s.execaddr
  /\ \A ref \in K : Resolved(new.r, new.estab, ref) = Resolved(s.r, s.estab, ref)

\* What m adds if its reference is resolved like that of s.
Added(s, m) ==
  IF m.sign = "+" THEN Resolved(s.r, s.estab, m.ref) ELSE -Resolved(s.r, s.estab, m.ref)

\* A modification fails if its name is unknown, and otherwise adds to its
\* field; the addresses of references stay.
LEMMA ModifyKeeps ==
  ASSUME NEW K, NEW s \in FileStates(K), NEW m \in FileMods(K)
  PROVE  LET new == Modify(s, m)
             a   == Resolved(s.r, s.estab, m.ref)
             x   == s.csaddr + m.loc
         IN  /\ new \in FileStates(K) /\ a \in Int
             /\ new.ok <=> s.ok /\ a # -1
             /\ new.ok => /\ Kept(s, new, K)
                          /\ new.mem = PokeWord(s.mem, x, Modified(Word(s.mem, x), m.half, m.sign, a))
<1> DEFINE r == s.r[m.ref]
           a == Resolved(s.r, s.estab, m.ref)
           x == s.csaddr + m.loc
           w == Modified(Word(s.mem, x), m.half, m.sign, a)
           mem == PokeWord(s.mem, x, w)
           new == [s EXCEPT !.r[m.ref].used_flag = a, !.mem = mem]
<1>1. s \in [ok: BOOLEAN, mem: Memories, estab: Seq(FileEntry), csaddr: Int, execaddr: Int,
             r: RefTables, buffer: Seq(Int)] /\ DOMAIN s.r = K
  BY DEF PassStates, FileStates
<1>2. m.loc \in Int /\ m.half \in {5, 6} /\ m.sign \in {"+", "-"} /\ m.ref \in K
  BY DEF FileMods, Modification
<1>3. s.r \in [K -> [sym: Strings, used_flag: Int]] /\ K \in SUBSET Nat
  BY <1>1 DEF RefTables
<1>4. r \in [sym: Strings, used_flag: Int]
  BY <1>2, <1>3
<1>5. a \in Int
  <2>1. AddressOf(s.estab, r.sym) \in Int
    BY <1>1, AddressOfType
  <2> QED BY <1>4, <2>1 DEF Resolved
<1>6. mem \in Memories
  <2>1. x \in Int /\ s.mem \in Memories
    BY <1>1, <1>2
  <2> HIDE DEF x, a
  <2>2. Word(s.mem, x) \in Int
    BY <2>1, WordType
  <2>3. w \in Int
    BY <1>2, <1>5, <2>2, ModifiedAdds
  <2> HIDE DEF w
  <2> QED BY <2>1, <2>3, WordPoked
<1>7. Modify(s, m) = IF ~s.ok THEN s ELSE IF a = -1 THEN [s EXCEPT !.ok = FALSE] ELSE new
  BY DEF Modify, Resolved
<1>8. CASE ~s.ok
  BY <1>5, <1>7, <1>8
<1>9. CASE s.ok /\ a = -1
  <2>1. Modify(s, m) = [s EXCEPT !.ok = FALSE]
    BY <1>7, <1>9
  <2>2. Modify(s, m) \in FileStates(K) /\ ~Modify(s, m).ok
    BY <1>1, <2>1 DEF FileStates, PassStates
  <2> QED BY <1>5, <1>9, <2>2
<1>10. CASE s.ok /\ a # -1
  <2>1. Modify(s, m) = new
    BY <1>7, <1>10
  <2> HIDE DEF a, mem
  <2> DEFINE rs == [s.r EXCEPT ![m.ref].used_flag = a]
  <2>2. rs \in [K -> [sym: Strings, used_flag: Int]]
    BY <1>2, <1>3, <1>4, <1>5
  <2>3. new = [s EXCEPT !.r = rs, !.mem = mem]
    BY <1>1
  <2>4. /\ \A ref \in K : rs[ref].sym = s.r[ref].sym
        /\ \A ref \in K : ref # m.ref => rs[ref].used_flag = s.r[ref].used_flag
        /\ rs[m.ref].used_flag = a
    BY <1>2, <1>3
  <2> HIDE DEF rs, new
  <2>5. /\ new.r = rs /\ new.mem = mem /\ new.ok = s.ok /\ new.estab = s.estab
        /\ new.csaddr = s.csaddr /\ new.execaddr = s.execaddr /\ new.buffer = s.buffer
    BY <1>1, <2>3
  <2>6. rs \in RefTables /\ DOMAIN rs = K
    BY <1>3, <2>2 DEF RefTables
  <2>7. new \in FileStates(K)
    <3>1. new \in [ok: BOOLEAN, mem: Memories, estab: Seq(FileEntry), csaddr: Int, execaddr: Int,
                   r: RefTables, buffer: Seq(Int)]
      BY <1>1, <1>6, <2>3, <2>6
    <3> QED BY <2>5, <2>6, <3>1 DEF FileStates, PassStates
  <2>8. ASSUME NEW ref \in K PROVE Resolved(rs, s.estab, ref) = Resolved(s.r, s.estab, ref)
    <3>1. CASE ref = m.ref
      <4>1. Resolved(rs, s.estab, ref) = a
        BY <1>10, <2>4, <3>1 DEF Resolved
      <4>2. a = Resolved(s.r, s.estab, ref)
        BY <3>1 DEF a
      <4> QED BY <4>1, <4>2
    <3>2. CASE ref # m.ref
      BY <2>4, <3>2 DEF Resolved
    <3> QED BY <3>1, <3>2
  <2>9. Kept(s, new, K)
    BY <2>5, <2>8 DEF Kept
  <2> QED BY <1>5, <1>10, <2>1, <2>5, <2>7, <2>9 DEF a, mem
<1> QED BY <1>8, <1>9, <1>10

\* A multiple of 2^24 is one of 2^20.
LEMMA WholeWords ==
  ASSUME NEW q \in Int, NEW half \in {5, 6}
  PROVE  Multiple(q * 16777216, half)
<1>1. PICK d \in Int : d = q * (IF half = 5 THEN 16 ELSE 1)
  BY SMT
<1>2. q * 16777216 = d * (IF half = 5 THEN 1048576 ELSE 16777216)
  BY SMT, <1>1
<1> QED BY SMT, <1>2 DEF Multiple

\* The field keeps its old value with what was added, modulo its bits.
LEMMA ModifyShows ==
  ASSUME NEW K, NEW s \in FileStates(K), NEW m \in FileMods(K), Modify(s, m).ok
  PROVE  LET new == Modify(s, m)
             x   == s.csaddr + m.loc
         IN  /\ \A b \in Int : b \notin x .. x + 2 => Peek(new.mem, b) = Peek(s.mem, b)
             /\ Multiple(Word(new.mem, x) - Word(s.mem, x) - Added(s, m), m.half)
             /\ Added(s, m) \in Int /\ x \in Int
<1> DEFINE new == Modify(s, m)
           x == s.csaddr + m.loc
           a == Resolved(s.r, s.estab, m.ref)
           w == Word(s.mem, x)
           v == Modified(w, m.half, m.sign, a)
<1>1. s.mem \in Memories /\ s.csaddr \in Int
  BY DEF FileStates, PassStates
<1>2. m.loc \in Int /\ m.half \in {5, 6} /\ m.sign \in {"+", "-"}
  BY DEF FileMods, Modification
<1>3. x \in Int
  BY <1>1, <1>2
<1>4. new.mem = PokeWord(s.mem, x, v) /\ a \in Int
  BY ModifyKeeps
<1> HIDE DEF x, new, a
<1>5. w \in Int
  BY <1>1, <1>3, WordType
<1> HIDE DEF w
<1>6. v \in Int /\ Multiple(v - w - (IF m.sign = "+" THEN a ELSE -a), m.half)
  BY <1>2, <1>4, <1>5, ModifiedAdds
<1>7. Added(s, m) = (IF m.sign = "+" THEN a ELSE -a)
  BY DEF Added, a
<1>8. Added(s, m) \in Int
  BY <1>2, <1>4, <1>7
<1> HIDE DEF v
<1>9. /\ \A b \in Int : b \notin x .. x + 2 => Peek(PokeWord(s.mem, x, v), b) = Peek(s.mem, b)
      /\ \E q \in Int : Word(PokeWord(s.mem, x, v), x) = v + q * 16777216
  BY <1>1, <1>3, <1>6, WordPoked
<1>10. PICK q \in Int : Word(new.mem, x) = v + q * 16777216
  BY <1>4, <1>9
<1>11. Multiple(q * 16777216, m.half)
  BY <1>2, WholeWords
<1>12. Multiple((v - w - Added(s, m)) + q * 16777216, m.half)
  <2>1. PICK y \in Int : y = v - w - Added(s, m)
    BY <1>5, <1>6, <1>8
  <2>2. PICK z \in Int : z = q * 16777216
    BY SMT
  <2>3. Multiple(y, m.half) /\ Multiple(z, m.half)
    BY SMT, <1>6, <1>7, <1>11, <2>1, <2>2
  <2>4. Multiple(y + z, m.half)
    BY <2>3, MultipleSum
  <2> QED BY SMT, <2>1, <2>2, <2>4
<1>13. (v - w - Added(s, m)) + q * 16777216 = Word(new.mem, x) - w - Added(s, m)
  BY SMT, <1>5, <1>6, <1>8, <1>10
<1>14. Multiple(Word(new.mem, x) - w - Added(s, m), m.half)
  BY <1>12, <1>13
<1> QED BY <1>3, <1>4, <1>8, <1>9, <1>14 DEF new, x, w

\* The modifications of a file, one by one.
LEMMA ModifyRuns ==
  ASSUME NEW K, NEW s \in FileStates(K), NEW seq \in Seq(FileMods(K))
  PROVE  \E h \in [0..Len(seq) -> FileStates(K)] :
           ModifyChain(h, s, seq) /\ ModifyRun(s, seq) = h[Len(seq)]
<1>1. \A x \in FileStates(K), m \in FileMods(K) : Modify(x, m) \in FileStates(K)
  BY ModifyKeeps
<1> QED BY <1>1, ModifyFold

\* As long as none fails, no address of a reference changes.
LEMMA ModifyChainKept ==
  ASSUME NEW K, NEW s \in FileStates(K), s.ok, NEW M \in Seq(FileMods(K)),
         NEW h \in [0..Len(M) -> FileStates(K)], ModifyChain(h, s, M)
  PROVE  \A j \in 0..Len(M) :
           /\ h[j].ok <=> \A i \in 1..j : Resolved(s.r, s.estab, M[i].ref) # -1
           /\ h[j].ok => Kept(s, h[j], K)
<1> DEFINE n == Len(M)
           Good == {j \in 0..n : /\ h[j].ok <=> \A i \in 1..j : Resolved(s.r, s.estab, M[i].ref) # -1
                                 /\ h[j].ok => Kept(s, h[j], K)}
<1>1. n \in Nat /\ \A j \in 1..n : M[j] \in FileMods(K) /\ M[j].ref \in K
  <2>1. \A m \in FileMods(K) : m.ref \in K
    BY DEF FileMods
  <2> QED BY <2>1, LenProperties, ElementOfSeq
<1>2. h[0] = s /\ \A j \in 1..n : h[j] = Modify(h[j - 1], M[j])
  BY DEF ModifyChain
<1>3. 0 \in Good
  BY <1>1, <1>2 DEF Kept
<1>4. ASSUME NEW j \in 1..n, j - 1 \in Good PROVE j \in Good
  <2>1. j - 1 \in 0..n /\ j \in 0..n /\ j \in Int
    BY <1>1
  <2>2. /\ h[j] = Modify(h[j - 1], M[j]) /\ h[j - 1] \in FileStates(K)
        /\ M[j] \in FileMods(K) /\ M[j].ref \in K
    BY <1>1, <1>2, <2>1
  <2>3. /\ h[j].ok <=> h[j - 1].ok /\ Resolved(h[j - 1].r, h[j - 1].estab, M[j].ref) # -1
        /\ h[j].ok => Kept(h[j - 1], h[j], K)
    <3>1. PICK u \in FileStates(K) : u = h[j - 1]
      BY <2>2
    <3>2. PICK m \in FileMods(K) : m = M[j]
      BY <2>2
    <3>3. LET new == Modify(u, m)
             a   == Resolved(u.r, u.estab, m.ref)
             x   == u.csaddr + m.loc
         IN  /\ new \in FileStates(K) /\ a \in Int
             /\ new.ok <=> u.ok /\ a # -1
             /\ new.ok => /\ Kept(u, new, K)
                          /\ new.mem = PokeWord(u.mem, x, Modified(Word(u.mem, x), m.half, m.sign, a))
      BY ModifyKeeps
    <3>4. h[j] = Modify(u, m)
      BY <2>2, <3>1, <3>2
    <3>5. /\ h[j].ok <=> u.ok /\ Resolved(u.r, u.estab, m.ref) # -1
          /\ h[j].ok => Kept(u, h[j], K)
      BY <3>3, <3>4
    <3> QED BY <3>1, <3>2, <3>5
  <2>4. CASE ~h[j - 1].ok
    <3>1. PICK i \in 1..j - 1 : Resolved(s.r, s.estab, M[i].ref) = -1
      BY <1>4, <2>4
    <3>2. i \in 1..j
      BY <2>1
    <3>3. ~h[j].ok
      BY <2>3, <2>4
    <3> QED BY <2>1, <3>1, <3>2, <3>3
  <2>5. CASE h[j - 1].ok
    <3>1. Kept(s, h[j - 1], K) /\ \A i \in 1..j - 1 : Resolved(s.r, s.estab, M[i].ref) # -1
      BY <1>4, <2>5
    <3>2. Resolved(h[j - 1].r, h[j - 1].estab, M[j].ref) = Resolved(s.r, s.estab, M[j].ref)
      BY <2>2, <3>1 DEF Kept
    <3>3. h[j].ok <=> Resolved(s.r, s.estab, M[j].ref) # -1
      BY <2>3, <2>5, <3>2
    <3>4. h[j].ok => Kept(s, h[j], K)
      BY <2>3, <3>1 DEF Kept
    <3>5. \A i \in 1..j : i \in 1..j - 1 \/ i = j
      BY <2>1
    <3>6. j \in 1..j
      BY <2>1
    <3> QED BY <2>1, <3>1, <3>3, <3>4, <3>5, <3>6
  <2> QED BY <2>4, <2>5
<1> HIDE DEF Good
<1>5. \A j \in 0..n : j \in Good
  BY <1>1, <1>3, <1>4, Upwards
<1> QED BY <1>5 DEF Good

\* In a chain that does not fail every modification does what it does.
LEMMA ModifyChainSteps ==
  ASSUME NEW K, NEW s \in FileStates(K), s.ok, NEW M \in Seq(FileMods(K)),
         NEW h \in [0..Len(M) -> FileStates(K)], ModifyChain(h, s, M), h[Len(M)].ok,
         NEW j \in 1..Len(M)
  PROVE  LET x == s.csaddr + M[j].loc IN
         /\ \A b \in Int : b \notin x .. x + 2 => Peek(h[j].mem, b) = Peek(h[j - 1].mem, b)
         /\ Multiple(Word(h[j].mem, x) - Word(h[j - 1].mem, x) - Added(s, M[j]), M[j].half)
         /\ Added(s, M[j]) \in Int /\ x \in Int /\ M[j].half \in {5, 6}
<1> DEFINE n == Len(M)
<1>1. n \in Nat /\ M[j] \in FileMods(K)
  BY LenProperties, ElementOfSeq
<1>2. M[j].half \in {5, 6} /\ M[j].ref \in K
  BY <1>1 DEF FileMods, Modification
<1>3. n \in 0..n /\ j - 1 \in 0..n /\ j \in 0..n /\ j \in Int
  BY <1>1
<1>4. \A i \in 0..n : /\ h[i].ok <=> \A l \in 1..i : Resolved(s.r, s.estab, M[l].ref) # -1
                      /\ h[i].ok => Kept(s, h[i], K)
  BY ModifyChainKept
<1>5. \A l \in 1..n : Resolved(s.r, s.estab, M[l].ref) # -1
  BY <1>3, <1>4
<1>6. h[j].ok /\ Kept(s, h[j - 1], K)
  <2>1. \A l \in 1..j : l \in 1..n
    BY <1>3
  <2>2. \A l \in 1..j - 1 : l \in 1..n
    BY <1>3
  <2>3. h[j].ok
    BY <1>3, <1>4, <1>5, <2>1
  <2>4. h[j - 1].ok
    BY <1>3, <1>4, <1>5, <2>2
  <2> QED BY <1>3, <1>4, <2>3, <2>4
<1>7. h[j] = Modify(h[j - 1], M[j]) /\ h[j - 1] \in FileStates(K)
  BY <1>3 DEF ModifyChain
<1>8. h[j - 1].csaddr = s.csaddr /\ Added(h[j - 1], M[j]) = Added(s, M[j])
  BY <1>2, <1>6 DEF Kept, Added
<1>9. LET x == h[j - 1].csaddr + M[j].loc IN
      /\ \A b \in Int : b \notin x .. x + 2 => Peek(h[j].mem, b) = Peek(h[j - 1].mem, b)
      /\ Multiple(Word(h[j].mem, x) - Word(h[j - 1].mem, x) - Added(h[j - 1], M[j]), M[j].half)
      /\ Added(h[j - 1], M[j]) \in Int /\ x \in Int
  BY <1>1, <1>6, <1>7, ModifyShows
<1> QED BY <1>2, <1>8, <1>9

\* None fails if every name is known.
LEMMA ModifyRunKeeps ==
  ASSUME NEW K, NEW s \in FileStates(K), s.ok, NEW M \in Seq(FileMods(K))
  PROVE  LET new == ModifyRun(s, M) IN
         /\ new \in FileStates(K)
         /\ new.ok <=> \A j \in 1..Len(M) : Resolved(s.r, s.estab, M[j].ref) # -1
         /\ new.ok => Kept(s, new, K)
<1>1. PICK h \in [0..Len(M) -> FileStates(K)] : ModifyChain(h, s, M) /\ ModifyRun(s, M) = h[Len(M)]
  BY ModifyRuns
<1>2. Len(M) \in 0..Len(M)
  BY LenProperties
<1>3. /\ h[Len(M)].ok <=> \A i \in 1..Len(M) : Resolved(s.r, s.estab, M[i].ref) # -1
      /\ h[Len(M)].ok => Kept(s, h[Len(M)], K)
  BY <1>1, <1>2, ModifyChainKept
<1> QED BY <1>1, <1>2, <1>3

\* No modification changes a cell outside of its field.
LEMMA ModifyRunOutside ==
  ASSUME NEW K, NEW s \in FileStates(K), s.ok, NEW M \in Seq(FileMods(K)), ModifyRun(s, M).ok,
         NEW b \in Int, \A j \in 1..Len(M) : b \notin s.csaddr + M[j].loc .. s.csaddr + M[j].loc + 2
  PROVE  Peek(ModifyRun(s, M).mem, b) = Peek(s.mem, b)
<1> DEFINE n == Len(M)
<1>1. PICK h \in [0..n -> FileStates(K)] : ModifyChain(h, s, M) /\ ModifyRun(s, M) = h[n]
  BY ModifyRuns
<1>2. n \in Nat /\ h[0] = s
  BY <1>1, LenProperties DEF ModifyChain
<1> DEFINE Good == {j \in 0..n : Peek(h[j].mem, b) = Peek(s.mem, b)}
<1>3. 0 \in Good
  BY <1>2
<1>4. ASSUME NEW j \in 1..n, j - 1 \in Good PROVE j \in Good
  <2>1. LET x == s.csaddr + M[j].loc IN
         /\ \A c \in Int : c \notin x .. x + 2 => Peek(h[j].mem, c) = Peek(h[j - 1].mem, c)
         /\ Multiple(Word(h[j].mem, x) - Word(h[j - 1].mem, x) - Added(s, M[j]), M[j].half)
         /\ Added(s, M[j]) \in Int /\ x \in Int /\ M[j].half \in {5, 6}
    BY <1>1, ModifyChainSteps
  <2>2. Peek(h[j].mem, b) = Peek(h[j - 1].mem, b)
    BY <2>1
  <2>3. j \in 0..n
    BY <1>2
  <2> QED BY <1>4, <2>2, <2>3
<1> HIDE DEF Good
<1>5. \A j \in 0..n : j \in Good
  BY <1>2, <1>3, <1>4, Upwards
<1>6. n \in Good
  BY <1>2, <1>5
<1> QED BY <1>1, <1>6 DEF Good

\* Zero is a multiple.
LEMMA MultipleZero ==
  ASSUME NEW half \in {5, 6}
  PROVE  Multiple(0, half)
<1>1. 0 = 0 * (IF half = 5 THEN 1048576 ELSE 16777216)
  BY SMT
<1> QED BY SMT, <1>1 DEF Multiple

\* The modifications of file k touch the field at a whole or not at all.
Adding(K, s, M, objs, at, k, a, half, base) ==
  /\ s \in FileStates(K) /\ s.ok /\ M \in Seq(FileMods(K)) /\ ModifyRun(s, M).ok
  /\ s.csaddr = SectionAt(objs, k, at)
  /\ \A j \in 1..Len(M) : Value(objs, k, M[j], at) = Added(s, M[j])
  /\ a \in Int /\ half \in {5, 6} /\ base \in Int
  /\ \A j \in 1..Len(M) : \/ s.csaddr + M[j].loc = a /\ M[j].half = half
                          \/ s.csaddr + M[j].loc + 3 <= a
                          \/ a + 3 <= s.csaddr + M[j].loc

\* One field is raised by what its modifications add.
LEMMA ModifyRunField ==
  ASSUME NEW K, NEW s, NEW M, NEW objs, NEW at, NEW k, NEW a, NEW half, NEW base,
         Adding(K, s, M, objs, at, k, a, half, base)
  PROVE  LET sum == FileSum(objs, at, k, a, base, M) IN
         /\ sum \in Int
         /\ Multiple(Word(ModifyRun(s, M).mem, a) - Word(s.mem, a) - (sum - base), half)
<1> USE DEF Adding
<1> DEFINE n == Len(M)
           L == {M[j] : j \in 1..n}
<1>1. PICK h \in [0..n -> FileStates(K)] : ModifyChain(h, s, M) /\ ModifyRun(s, M) = h[n]
  BY ModifyRuns
<1>2. n \in Nat /\ h[0] = s /\ M \in Seq(L)
  <2>1. n \in Nat /\ M \in [1..n -> L]
    BY LenProperties
  <2> QED BY <1>1, <2>1 DEF ModifyChain
<1>3. ASSUME NEW j \in 1..n
      PROVE  LET x == s.csaddr + M[j].loc IN
         /\ \A c \in Int : c \notin x .. x + 2 => Peek(h[j].mem, c) = Peek(h[j - 1].mem, c)
         /\ Multiple(Word(h[j].mem, x) - Word(h[j - 1].mem, x) - Added(s, M[j]), M[j].half)
         /\ Added(s, M[j]) \in Int /\ x \in Int /\ M[j].half \in {5, 6}
  BY <1>1, ModifyChainSteps
<1>4. PICK g \in [0..n -> Int] :
        FileSumChain(objs, at, k, a, g, base, M) /\ FileSum(objs, at, k, a, base, M) = g[n]
  <2>1. ASSUME NEW i \in Int, NEW m \in L PROVE AddField(objs, at, k, a, i, m) \in Int
    <3>1. PICK j \in 1..n : m = M[j]
      OBVIOUS
    <3>2. Value(objs, k, m, at) \in Int
      BY <1>3, <3>1
    <3> QED BY <3>2 DEF AddField
  <2> HIDE DEF L
  <2>2. Summable(Int, L, objs, at, k, a, base, M)
    BY <1>2, <2>1 DEF Summable
  <2> QED BY <2>2, FileSumFold
<1> DEFINE W(j) == Word(h[j].mem, a)
           Good == {j \in 0..n : Multiple(W(j) - W(0) - (g[j] - base), half)}
<1>5. \A j \in 0..n : W(j) \in Int /\ g[j] \in Int
  <2> TAKE j \in 0..n
  <2>1. h[j].mem \in Memories
    BY DEF FileStates, PassStates
  <2> QED BY <2>1, WordType
<1>6. g[0] = base /\ \A j \in 1..n : g[j] = AddField(objs, at, k, a, g[j - 1], M[j])
  BY <1>4 DEF FileSumChain
<1>7. 0 \in Good
  <2>1. 0 \in 0..n
    BY <1>2
  <2>2. W(0) - W(0) - (g[0] - base) = 0
    BY <1>5, <1>6, <2>1
  <2> HIDE DEF W
  <2>3. Multiple(W(0) - W(0) - (g[0] - base), half)
    BY <2>2, MultipleZero
  <2> QED BY <2>1, <2>3
<1>8. ASSUME NEW j \in 1..n, j - 1 \in Good PROVE j \in Good
  <2>1. j - 1 \in 0..n /\ j \in 0..n /\ 0 \in 0..n
    BY <1>2
  <2> DEFINE x == s.csaddr + M[j].loc
             v == Value(objs, k, M[j], at)
  <2>2. x \in Int /\ v \in Int /\ v = Added(s, M[j])
    BY <1>3
  <2>3. g[j] = AddField(objs, at, k, a, g[j - 1], M[j])
    BY <1>6
  <2>4. g[j] = IF x = a THEN g[j - 1] + v ELSE g[j - 1]
    BY <2>3 DEF AddField
  <2>5. PICK u \in Int : u = W(j - 1)
    BY <1>5, <2>1
  <2>6. PICK w \in Int : w = W(j)
    BY <1>5, <2>1
  <2>7. PICK z \in Int : z = W(0)
    BY <1>5, <2>1
  <2>8. Multiple(u - z - (g[j - 1] - base), half)
    BY <1>8, <2>5, <2>7
  <2>9. CASE x = a /\ M[j].half = half
    <3>1. Multiple(Word(h[j].mem, x) - Word(h[j - 1].mem, x) - Added(s, M[j]), M[j].half)
      BY <1>3
    <3>2. Multiple(w - u - v, half)
      BY <2>2, <2>5, <2>6, <2>9, <3>1
    <3>3. PICK y \in Int : y = u - z - (g[j - 1] - base)
      BY <1>5, <2>1
    <3>4. PICK d \in Int : d = w - u - v
      BY <2>2
    <3>5. Multiple(y, half) /\ Multiple(d, half)
      BY <2>8, <3>2, <3>3, <3>4
    <3>6. Multiple(y + d, half)
      BY <3>5, MultipleSum
    <3>7. y + d = w - z - (g[j] - base)
      <4>1. PICK p \in Int : p = g[j - 1]
        BY <1>5, <2>1
      <4>2. PICK e \in Int : e = v
        BY <2>2
      <4>3. g[j] = p + e
        BY <2>4, <2>9, <4>1, <4>2
      <4>4. y = u - z - (p - base) /\ d = w - u - e
        BY <3>3, <3>4, <4>1, <4>2
      <4> HIDE DEF v, x
      <4> QED BY <4>3, <4>4
    <3>8. Multiple(W(j) - W(0) - (g[j] - base), half)
      BY <2>6, <2>7, <3>6, <3>7
    <3> QED BY <2>1, <3>8
  <2>10. CASE x + 3 <= a \/ a + 3 <= x
    <3>1. a \notin x .. x + 2 /\ a + 1 \notin x .. x + 2 /\ a + 2 \notin x .. x + 2 /\ x # a
      BY <2>2, <2>10
    <3>2. \A c \in Int : c \notin x .. x + 2 => Peek(h[j].mem, c) = Peek(h[j - 1].mem, c)
      BY <1>3
    <3>3. /\ Peek(h[j].mem, a) = Peek(h[j - 1].mem, a)
          /\ Peek(h[j].mem, a + 1) = Peek(h[j - 1].mem, a + 1)
          /\ Peek(h[j].mem, a + 2) = Peek(h[j - 1].mem, a + 2)
      BY <3>1, <3>2
    <3>4. W(j) = W(j - 1)
      BY <3>3 DEF Word
    <3>5. g[j] = g[j - 1]
      BY <2>4, <3>1
    <3>6. Multiple(W(j) - W(0) - (g[j] - base), half)
      BY <1>8, <3>4, <3>5
    <3> QED BY <2>1, <3>6
  <2> QED BY <2>9, <2>10
<1> HIDE DEF Good, W
<1>9. \A j \in 0..n : j \in Good
  BY <1>2, <1>7, <1>8, Upwards
<1>10. n \in Good /\ n \in 0..n
  BY <1>2, <1>9
<1>11. Multiple(Word(h[n].mem, a) - Word(s.mem, a) - (g[n] - base), half)
  BY <1>2, <1>10 DEF Good, W
<1> QED BY <1>1, <1>4, <1>10, <1>11
-----------------------------------------------------------------------------
(* One file of pass 2.                                                    *)
FileOf(o, est)        == [obj |-> o, est |-> est]
FileStarted(s, o, est) ==
  [s EXCEPT !.csaddr = est.addr, !.r = References(o, est), !.buffer = <<>>]
TextsDone(s, o, est)   == LoadTextRun(FileStarted(s, o, est), o.T)
FileEnded(s, o, est)   == ModifyRun(TextsDone(s, o, est), o.M)

\* Where the program starts after a file, x being where it did before.
StartAfter(o, addr, x) ==
  CASE o.E = NoEntry   -> x
    [] o.E = BareEntry -> addr - 1
    [] OTHER           -> addr + o.E

SignedFile(o) == \A j \in DOMAIN o.M : o.M[j].sign \in {"+", "-"}

\* The type of the references.
LEMMA ReferencesType ==
  ASSUME NEW o \in ObjectPrograms, NEW est \in FileEntry
  PROVE  References(o, est) \in RefTables /\ DOMAIN References(o, est) = RefNumbers(o)
<1> DEFINE K == RefNumbers(o)
           x(k) == IF k = 1 THEN [sym |-> est.cs, used_flag |-> est.addr]
                   ELSE [sym |-> o.R[CHOOSE j \in DOMAIN o.R : o.R[j].ref = k].sym, used_flag |-> -1]
<1>1. o.R \in Seq(Reference)
  BY ObjectParts DEF ObjectPrograms
<1>2. \A j \in DOMAIN o.R : o.R[j] \in Reference
  BY <1>1, LenProperties, ElementOfSeq
<1>3. K \in SUBSET Nat
  BY <1>2 DEF RefNumbers, Reference
<1>4. ASSUME NEW k \in K PROVE x(k) \in [sym: Strings, used_flag: Int]
  <2>1. CASE k = 1
    BY <2>1 DEF FileEntry
  <2>2. CASE k # 1
    <3>1. \E j \in DOMAIN o.R : o.R[j].ref = k
      BY <2>2 DEF RefNumbers
    <3>2. PICK j \in DOMAIN o.R : j = CHOOSE i \in DOMAIN o.R : o.R[i].ref = k
      BY <3>1
    <3>3. x(k) = [sym |-> o.R[j].sym, used_flag |-> -1]
      BY <2>2, <3>2
    <3>4. o.R[j].sym \in Strings
      BY <1>2 DEF Reference
    <3> QED BY <3>3, <3>4
  <2> QED BY <2>1, <2>2
<1>5. References(o, est) = [k \in K |-> x(k)]
  BY DEF References, RefNumbers
<1> HIDE DEF K, x
<1>6. References(o, est) \in [K -> [sym: Strings, used_flag: Int]]
  BY <1>4, <1>5
<1>7. References(o, est) \in RefTables /\ DOMAIN References(o, est) = K
  BY <1>3, <1>6 DEF RefTables
<1> QED BY <1>7 DEF K

\* A modification has the number of a reference.
LEMMA ModificationsNumbered ==
  ASSUME NEW o \in ObjectPrograms, SignedFile(o)
  PROVE  o.M \in Seq(FileMods(RefNumbers(o)))
<1>1. o.M \in Seq(Modification)
  BY ObjectParts DEF ObjectPrograms
<1>2. Len(o.M) \in Nat /\ DOMAIN o.M = 1..Len(o.M) /\ \A j \in 1..Len(o.M) : o.M[j] \in ToSet(o.M)
  BY <1>1, LenProperties, Members
<1>3. \A m \in ToSet(o.M) : m.ref \in RefNumbers(o)
  BY ReferencesNumbered
<1>4. \A j \in 1..Len(o.M) : o.M[j] \in FileMods(RefNumbers(o))
  BY <1>1, <1>2, <1>3, ElementOfSeq DEF SignedFile, FileMods
<1> QED BY <1>1, <1>2, <1>4

\* The texts of a file, in the state pass 2 begins it with.
LEMMA TextsOfFile ==
  ASSUME NEW o \in ObjectPrograms, NEW est \in FileEntry, NEW s \in PassStates, s.ok
  PROVE  LET t == TextsDone(s, o, est) IN
         /\ t \in FileStates(RefNumbers(o)) /\ t.ok /\ t.estab = s.estab /\ t.csaddr = est.addr
         /\ t.execaddr = s.execaddr /\ t.r = References(o, est)
         /\ (\A j \in 1..Len(o.T) : o.T[j].length = Len(o.T[j].body)) =>
              \A b \in Int : LastText(o.T, Len(o.T), est.addr, b, Peek(s.mem, b), Peek(t.mem, b))
<1> DEFINE u == FileStarted(s, o, est)
           t == TextsDone(s, o, est)
<1>1. References(o, est) \in RefTables /\ DOMAIN References(o, est) = RefNumbers(o)
  BY ReferencesType
<1>2. o.T \in Seq(Text) /\ est.addr \in Int /\ <<>> \in Seq(Int)
  BY ObjectParts DEF ObjectPrograms, FileEntry
<1>3. u \in PassStates /\ u.ok /\ u.estab = s.estab /\ u.csaddr = est.addr
      /\ u.execaddr = s.execaddr /\ u.r = References(o, est) /\ u.mem = s.mem
  BY <1>1, <1>2 DEF FileStarted, PassStates
<1>4. t = LoadTextRun(u, o.T)
  BY DEF TextsDone
<1> HIDE DEF u
<1>5. /\ t \in PassStates /\ Alike(u, t)
      /\ (\A j \in 1..Len(o.T) : o.T[j].length = Len(o.T[j].body)) =>
           \A b \in Int : LastText(o.T, Len(o.T), u.csaddr, b, Peek(u.mem, b), Peek(t.mem, b))
  BY <1>2, <1>3, <1>4, TextsLoaded
<1> HIDE DEF t
<1> QED BY <1>1, <1>3, <1>5 DEF Alike, FileStates, t

\* A file that is passed over, and one that is not.
LEMMA FilePassed ==
  ASSUME NEW o \in ObjectPrograms, SignedFile(o), NEW est \in FileEntry, NEW s \in PassStates
  PROVE  LET new == Pass2File(s, FileOf(o, est))
             u   == FileEnded(s, o, est)
         IN  /\ new \in PassStates
             /\ ~s.ok => new = s
             /\ s.ok => /\ new.ok = u.ok /\ new.mem = u.mem /\ new.estab = u.estab
                        /\ new.execaddr = StartAfter(o, est.addr, u.execaddr)
                        /\ u \in FileStates(RefNumbers(o))
<1> DEFINE new == Pass2File(s, FileOf(o, est))
           u == FileEnded(s, o, est)
           x == CASE o.E = NoEntry   -> u.execaddr
                  [] o.E = BareEntry -> est.addr - 1
                  [] OTHER           -> est.addr + o.E
<1>1. new = IF ~s.ok THEN s ELSE [u EXCEPT !.execaddr = x]
  BY DEF Pass2File, FileOf, FileEnded, TextsDone, FileStarted, ModifyRun, LoadTextRun
<1>2. x = StartAfter(o, est.addr, u.execaddr)
  BY DEF StartAfter
<1>3. CASE ~s.ok
  BY <1>1, <1>3
<1>4. CASE s.ok
  <2>1. u \in FileStates(RefNumbers(o))
    <3>1. TextsDone(s, o, est) \in FileStates(RefNumbers(o)) /\ TextsDone(s, o, est).ok
      BY <1>4, TextsOfFile
    <3>2. o.M \in Seq(FileMods(RefNumbers(o)))
      BY ModificationsNumbered
    <3> QED BY <3>1, <3>2, ModifyRunKeeps DEF FileEnded
  <2>2. o.E \in Int /\ est.addr \in Int /\ u.execaddr \in Int
    BY <2>1, ObjectParts DEF ObjectPrograms, FileEntry, FileStates, PassStates
  <2>3. StartAfter(o, est.addr, u.execaddr) \in Int
    BY <2>2 DEF StartAfter
  <2> HIDE DEF x, u
  <2>4. new = [u EXCEPT !.execaddr = x] /\ x \in Int
    BY <1>1, <1>2, <1>4, <2>3
  <2>5. u \in PassStates
    BY <2>1 DEF FileStates
  <2> HIDE DEF new
  <2>6. new \in PassStates /\ new.ok = u.ok /\ new.mem = u.mem /\ new.estab = u.estab /\ new.execaddr = x
    BY <2>4, <2>5 DEF PassStates
  <2> QED BY <1>2, <1>4, <2>1, <2>6 DEF new, u
<1> QED BY <1>3, <1>4
-----------------------------------------------------------------------------
(* The files of a program that pass 1 takes.                              *)
Loading(objs, at) ==
  /\ objs \in Seq(ObjectPrograms) /\ at \in Nat
  /\ \A k \in 1..Len(objs) : Accepted(objs, k) /\ SignedFile(objs[k])

FullTable(objs, at) == Table(objs, at, Len(objs))

\* Does every modification of file k name something?
Named(objs, at, k) == \A m \in ToSet(objs[k].M) : Meant(objs, k, m.ref, at) # {}

\* A file that is loaded, and its entry.
LEMMA FileParts ==
  ASSUME NEW objs, NEW at, Loading(objs, at), NEW k \in 1..Len(objs)
  PROVE  /\ objs[k] \in ObjectPrograms /\ objs[k] \in ObjectFile /\ objs \in Seq(ObjectFile)
         /\ SignedFile(objs[k])
         /\ FullTable(objs, at)[k] \in FileEntry
         /\ FullTable(objs, at)[k].addr = SectionAt(objs, k, at)
         /\ SectionAt(objs, k, at) \in Int
         /\ objs[k].M \in Seq(FileMods(RefNumbers(objs[k])))
         /\ objs[k].T \in Seq(Text)
<1>1. objs \in Seq(ObjectPrograms) /\ at \in Nat /\ Len(objs) \in Nat /\ SignedFile(objs[k])
  BY LenProperties DEF Loading
<1>2. objs[k] \in ObjectPrograms
  BY <1>1, ElementOfSeq
<1>3. objs[k] \in ObjectFile /\ objs \in Seq(ObjectFile)
  <2>1. \A o \in ObjectPrograms : o \in ObjectFile
    BY DEF ObjectPrograms
  <2> QED BY <1>1, <1>2, <2>1
<1>4. /\ FullTable(objs, at) \in Seq(FileEntry) /\ Len(FullTable(objs, at)) = Len(objs)
      /\ FullTable(objs, at)[k] = EntryOf(objs, at, k, Len(objs[k].D))
  BY <1>1, <1>3, TableType DEF FullTable
<1>5. FullTable(objs, at)[k] \in FileEntry
  BY <1>4, ElementOfSeq
<1>6. FullTable(objs, at)[k].addr = SectionAt(objs, k, at)
  BY <1>4 DEF EntryOf
<1>7. SectionAt(objs, k, at) \in Int
  BY <1>5, <1>6 DEF FileEntry
<1>8. objs[k].M \in Seq(FileMods(RefNumbers(objs[k])))
  BY <1>1, <1>2, ModificationsNumbered
<1> QED BY <1>1, <1>2, <1>3, <1>5, <1>6, <1>7, <1>8, ObjectParts

\* The modifications of a file add what they mean, and fail if one means nothing.
LEMMA FileResolves ==
  ASSUME NEW objs, NEW at, Loading(objs, at), NEW k \in 1..Len(objs),
         NEW s \in PassStates, s.ok, s.estab = FullTable(objs, at)
  PROVE  LET est == FullTable(objs, at)[k]
             t   == TextsDone(s, objs[k], est)
             u   == FileEnded(s, objs[k], est)
         IN  /\ u.ok <=> Named(objs, at, k)
             /\ u.ok => /\ u.estab = s.estab /\ u.execaddr = s.execaddr
                        /\ \A j \in 1..Len(objs[k].M) :
                             Value(objs, k, objs[k].M[j], at) = Added(t, objs[k].M[j])
<1> DEFINE o == objs[k]
           tab == FullTable(objs, at)
           est == tab[k]
           t == TextsDone(s, o, est)
           u == FileEnded(s, o, est)
           K == RefNumbers(o)
<1>1. o \in ObjectPrograms /\ est \in FileEntry /\ o.M \in Seq(FileMods(K)) /\ SignedFile(o)
  BY FileParts
<1>2. t \in FileStates(K) /\ t.ok /\ t.estab = s.estab /\ t.execaddr = s.execaddr
      /\ t.r = References(o, est)
  BY <1>1, TextsOfFile
<1>3. /\ u.ok <=> \A j \in 1..Len(o.M) : Resolved(t.r, t.estab, o.M[j].ref) # -1
      /\ u.ok => Kept(t, u, K)
  BY <1>1, <1>2, ModifyRunKeeps DEF FileEnded
<1>4. ASSUME NEW ref \in K
      PROVE  LET a == Resolved(t.r, t.estab, ref) IN
             /\ a = -1 <=> Meant(objs, k, ref, at) = {}
             /\ a # -1 => a = Target(objs, k, ref, at)
  <2>1. objs \in Seq(ObjectPrograms) /\ at \in Nat /\ \A i \in 1..Len(objs) : Accepted(objs, i)
    BY DEF Loading
  <2>2. LET tb == Table(objs, at, Len(objs))
             a   == Resolved(References(objs[k], tb[k]), tb, ref)
         IN  /\ a = -1 <=> Meant(objs, k, ref, at) = {}
             /\ a # -1 => a = Target(objs, k, ref, at) /\ a \in Nat
    BY <2>1, ReferenceResolved
  <2>3. t.r = References(objs[k], FullTable(objs, at)[k]) /\ t.estab = FullTable(objs, at)
    BY <1>2
  <2> HIDE DEF t
  <2> QED BY <2>2, <2>3 DEF FullTable
<1>5. /\ Len(o.M) \in Nat
      /\ \A m : m \in ToSet(o.M) <=> \E j \in 1..Len(o.M) : m = o.M[j]
      /\ \A j \in 1..Len(o.M) : o.M[j].ref \in K
  <2>1. \A m \in FileMods(K) : m.ref \in K
    BY DEF FileMods
  <2> QED BY <1>1, <2>1, Members, LenProperties, ElementOfSeq
<1> HIDE DEF t, u, K
<1>6. u.ok <=> Named(objs, at, k)
  <2>1. \A j \in 1..Len(o.M) : Resolved(t.r, t.estab, o.M[j].ref) = -1
                                 <=> Meant(objs, k, o.M[j].ref, at) = {}
    BY <1>4, <1>5
  <2>2. Named(objs, at, k) <=> \A j \in 1..Len(o.M) : Meant(objs, k, o.M[j].ref, at) # {}
    BY <1>5 DEF Named
  <2> HIDE DEF o
  <2> QED BY <1>3, <2>1, <2>2
<1>7. ASSUME u.ok PROVE u.estab = s.estab /\ u.execaddr = s.execaddr
  BY <1>2, <1>3, <1>7 DEF Kept
<1>8. ASSUME u.ok, NEW j \in 1..Len(o.M) PROVE Value(objs, k, o.M[j], at) = Added(t, o.M[j])
  <2>1. o.M[j].ref \in K /\ Resolved(t.r, t.estab, o.M[j].ref) # -1
    BY <1>3, <1>5, <1>8
  <2>2. Resolved(t.r, t.estab, o.M[j].ref) = Target(objs, k, o.M[j].ref, at)
    BY <1>4, <2>1
  <2> QED BY <2>2 DEF Value, Added
<1> QED BY <1>6, <1>7, <1>8 DEF t, u

\* v is what the last text of file k has for cell b, or what was there.
LastOf(objs, at, k, b, old, v) ==
  LastText(objs[k].T, Len(objs[k].T), SectionAt(objs, k, at), b, old, v)

\* Is b a cell of field f?
Touches(f, b) == b \in f[1] .. f[1] + 2

\* The word that three cells make.
Triple(p, q, r) == 65536 * p + 256 * q + r

FieldSum(objs, at, k, a, base) == FileSum(objs, at, k, a, base, objs[k].M)

\* A field of a file is the place of one of its modifications.
LEMMA FieldOf ==
  ASSUME NEW objs, NEW at, Loading(objs, at), NEW k \in 1..Len(objs)
  PROVE  /\ \A j \in 1..Len(objs[k].M) :
              <<SectionAt(objs, k, at) + objs[k].M[j].loc, objs[k].M[j].half>>
                \in FieldsOfFile(objs, at, k)
         /\ \A f \in FieldsOfFile(objs, at, k) :
              \E j \in 1..Len(objs[k].M) :
                f = <<SectionAt(objs, k, at) + objs[k].M[j].loc, objs[k].M[j].half>>
         /\ \A f \in FieldsOfFile(objs, at, k) : f = <<f[1], f[2]>> /\ f[1] \in Int /\ f[2] \in {5, 6}
<1> DEFINE M == objs[k].M
<1>1. /\ M \in Seq(FileMods(RefNumbers(objs[k]))) /\ SectionAt(objs, k, at) \in Int
  BY FileParts
<1>2. /\ Len(M) \in Nat
      /\ \A m : m \in ToSet(M) <=> \E j \in 1..Len(M) : m = M[j]
      /\ \A j \in 1..Len(M) : M[j] \in Modification
  <2>1. \A m \in FileMods(RefNumbers(objs[k])) : m \in Modification
    BY DEF FileMods
  <2> QED BY <1>1, <2>1, Members, LenProperties, ElementOfSeq
<1>3. \A f \in FieldsOfFile(objs, at, k) : \E j \in 1..Len(M) :
        f = <<SectionAt(objs, k, at) + M[j].loc, M[j].half>>
  BY <1>2 DEF FieldsOfFile
<1>4. \A j \in 1..Len(M) : M[j].loc \in Int /\ M[j].half \in {5, 6}
  BY <1>2 DEF Modification
<1>5. \A j \in 1..Len(M) : <<SectionAt(objs, k, at) + M[j].loc, M[j].half>> \in FieldsOfFile(objs, at, k)
  <2> TAKE j \in 1..Len(M)
  <2>1. M[j] \in ToSet(M)
    BY <1>2
  <2> QED BY <2>1 DEF FieldsOfFile
<1>6. ASSUME NEW f \in FieldsOfFile(objs, at, k)
      PROVE  f = <<f[1], f[2]>> /\ f[1] \in Int /\ f[2] \in {5, 6}
  <2>1. PICK j \in 1..Len(M) : f = <<SectionAt(objs, k, at) + M[j].loc, M[j].half>>
    BY <1>3
  <2> QED BY <1>1, <1>4, <2>1
<1> QED BY <1>3, <1>5, <1>6

Elsewhere(objs, at, k, a, L) == \A m \in L : SectionAt(objs, k, at) + m.loc # a

\* Modifications elsewhere add nothing.
LEMMA NothingAdded ==
  ASSUME NEW objs, NEW at, NEW k, NEW a \in Int, NEW base \in Int, NEW L, NEW M \in Seq(L),
         Elsewhere(objs, at, k, a, L)
  PROVE  FileSum(objs, at, k, a, base, M) = base
<1> DEFINE n == Len(M)
<1>1. n \in Nat /\ \A j \in 1..n : M[j] \in L
  BY LenProperties, ElementOfSeq
<1>2. \A i \in Int, m \in L : AddField(objs, at, k, a, i, m) = i
  BY DEF AddField, Elsewhere
<1>4. PICK g \in [0..n -> Int] :
        FileSumChain(objs, at, k, a, g, base, M) /\ FileSum(objs, at, k, a, base, M) = g[n]
  <2>1. ASSUME NEW i \in Int, NEW m \in L PROVE AddField(objs, at, k, a, i, m) \in Int
    BY <1>2
  <2>2. Summable(Int, L, objs, at, k, a, base, M)
    BY <2>1 DEF Summable
  <2> QED BY <2>2, FileSumFold
<1>5. g[0] = base /\ \A j \in 1..n : g[j] = AddField(objs, at, k, a, g[j - 1], M[j])
  BY <1>4 DEF FileSumChain
<1> DEFINE Good == {j \in 0..n : g[j] = base}
<1>6. 0 \in Good
  BY <1>1, <1>5
<1>7. ASSUME NEW j \in 1..n, j - 1 \in Good PROVE j \in Good
  <2>1. j \in 0..n /\ g[j - 1] = base
    BY <1>1, <1>7
  <2>2. AddField(objs, at, k, a, base, M[j]) = base
    BY <1>1, <1>2
  <2> QED BY <1>5, <2>1, <2>2
<1> HIDE DEF Good
<1>8. \A j \in 0..n : j \in Good
  <2> HIDE DEF n
  <2> QED BY <1>1, <1>6, <1>7, Upwards
<1>9. n \in Good
  BY <1>1, <1>8
<1> QED BY <1>4, <1>9 DEF Good

\* Nor does a file without the field.
LEMMA FileNoField ==
  ASSUME NEW objs, NEW at, Loading(objs, at), NEW k \in 1..Len(objs), NEW a \in Int,
         \A f \in FieldsOfFile(objs, at, k) : f[1] # a, NEW base \in Int
  PROVE  FieldSum(objs, at, k, a, base) = base
<1> DEFINE M == objs[k].M
           L == {M[j] : j \in 1..Len(M)}
<1>1. M \in Seq(L)
  <2>1. M \in Seq(FileMods(RefNumbers(objs[k])))
    BY FileParts
  <2> HIDE DEF M
  <2>2. Len(M) \in Nat /\ M \in [1..Len(M) -> L]
    BY <2>1, LenProperties
  <2>3. PICK n \in Nat : n = Len(M)
    BY <2>2
  <2> QED BY <2>2, <2>3, SeqDef
<1>2. ASSUME NEW m \in L PROVE SectionAt(objs, k, at) + m.loc # a
  <2>1. PICK j \in 1..Len(M) : m = M[j]
    OBVIOUS
  <2>2. <<SectionAt(objs, k, at) + m.loc, m.half>> \in FieldsOfFile(objs, at, k)
    BY <2>1, FieldOf
  <2> QED BY <2>2
<1> HIDE DEF L
<1>3. FileSum(objs, at, k, a, base, M) = base
  <2>1. Elsewhere(objs, at, k, a, L)
    BY <1>2 DEF Elsewhere
  <2> HIDE DEF M
  <2> QED BY <1>1, <2>1, NothingAdded
<1> QED BY <1>3 DEF FieldSum

\* What file k does to the memory.
LEMMA FileStep ==
  ASSUME NEW objs, NEW at, Loading(objs, at), NEW k \in 1..Len(objs),
         NEW s \in PassStates, s.ok, s.estab = FullTable(objs, at)
  PROVE  LET est == FullTable(objs, at)[k]
             new == Pass2File(s, FileOf(objs[k], est))
             t   == TextsDone(s, objs[k], est)
         IN  /\ new.ok <=> Named(objs, at, k)
             /\ new.ok => /\ new.estab = s.estab
                          /\ new.execaddr = StartAfter(objs[k], SectionAt(objs, k, at), s.execaddr)
                          /\ new.mem = ModifyRun(t, objs[k].M).mem /\ ModifyRun(t, objs[k].M).ok
<1> DEFINE est == FullTable(objs, at)[k]
           new == Pass2File(s, FileOf(objs[k], est))
           u == FileEnded(s, objs[k], est)
<1>1. /\ objs[k] \in ObjectPrograms /\ SignedFile(objs[k]) /\ est \in FileEntry
      /\ est.addr = SectionAt(objs, k, at)
  BY FileParts
<1>2. /\ new.ok = u.ok /\ new.mem = u.mem /\ new.estab = u.estab
      /\ new.execaddr = StartAfter(objs[k], est.addr, u.execaddr)
  BY <1>1, FilePassed
<1>3. /\ u.ok <=> Named(objs, at, k)
      /\ u.ok => u.estab = s.estab /\ u.execaddr = s.execaddr
  BY FileResolves
<1>4. u = ModifyRun(TextsDone(s, objs[k], est), objs[k].M)
  BY DEF FileEnded
<1> HIDE DEF new, u, est
<1> QED BY <1>1, <1>2, <1>3, <1>4 DEF new, est

\* The texts of a file, seen from the program.
LEMMA FileTexts ==
  ASSUME NEW objs, NEW at, Loading(objs, at), Exact(objs), NEW k \in 1..Len(objs),
         NEW s \in PassStates, s.ok, NEW b \in Int
  PROVE  LET t == TextsDone(s, objs[k], FullTable(objs, at)[k]) IN
         LastOf(objs, at, k, b, Peek(s.mem, b), Peek(t.mem, b))
<1> DEFINE est == FullTable(objs, at)[k]
           t == TextsDone(s, objs[k], est)
<1>1. /\ objs[k] \in ObjectPrograms /\ est \in FileEntry /\ objs[k].T \in Seq(Text)
      /\ est.addr = SectionAt(objs, k, at) /\ objs \in Seq(ObjectFile)
  BY FileParts
<1>2. \A j \in 1..Len(objs[k].T) : objs[k].T[j].length = Len(objs[k].T[j].body)
  <2>1. k \in DOMAIN objs
    BY <1>1, LenProperties
  <2>2. \A x \in ToSet(objs[k].T) : x.length = Len(x.body)
    BY <2>1 DEF Exact
  <2>3. \A j \in 1..Len(objs[k].T) : objs[k].T[j] \in ToSet(objs[k].T)
    BY <1>1, Members
  <2> QED BY <2>2, <2>3
<1>3. (\A j \in 1..Len(objs[k].T) : objs[k].T[j].length = Len(objs[k].T[j].body)) =>
              \A c \in Int : LastText(objs[k].T, Len(objs[k].T), est.addr, c, Peek(s.mem, c), Peek(t.mem, c))
  BY <1>1, TextsOfFile
<1>4. LastText(objs[k].T, Len(objs[k].T), est.addr, b, Peek(s.mem, b), Peek(t.mem, b))
  BY <1>2, <1>3
<1> HIDE DEF t, est
<1> QED BY <1>1, <1>4 DEF LastOf, t, est

\* After file k, if none failed before it.
AfterFile(objs, at, k, s) == Pass2File(s, FileOf(objs[k], FullTable(objs, at)[k]))

\* Outside of its fields a file leaves its texts.
LEMMA FileCell ==
  ASSUME NEW objs, NEW at, Loading(objs, at), Exact(objs), NEW k \in 1..Len(objs),
         NEW s \in PassStates, s.ok, s.estab = FullTable(objs, at), AfterFile(objs, at, k, s).ok,
         NEW b \in Int, \A f \in FieldsOfFile(objs, at, k) : ~Touches(f, b)
  PROVE  LastOf(objs, at, k, b, Peek(s.mem, b), Peek(AfterFile(objs, at, k, s).mem, b))
<1> DEFINE est == FullTable(objs, at)[k]
           o == objs[k]
           t == TextsDone(s, o, est)
           K == RefNumbers(o)
           new == AfterFile(objs, at, k, s)
<1>1. /\ o \in ObjectPrograms /\ est \in FileEntry /\ o.M \in Seq(FileMods(K))
      /\ est.addr = SectionAt(objs, k, at)
  BY FileParts
<1>2. new.mem = ModifyRun(t, o.M).mem /\ ModifyRun(t, o.M).ok
  BY FileStep DEF AfterFile
<1>3. t \in FileStates(K) /\ t.ok /\ t.csaddr = SectionAt(objs, k, at)
  BY <1>1, TextsOfFile
<1>4. LastOf(objs, at, k, b, Peek(s.mem, b), Peek(t.mem, b))
  BY FileTexts
<1>5. ASSUME NEW j \in 1..Len(o.M) PROVE b \notin t.csaddr + o.M[j].loc .. t.csaddr + o.M[j].loc + 2
  <2>1. <<SectionAt(objs, k, at) + o.M[j].loc, o.M[j].half>> \in FieldsOfFile(objs, at, k)
    BY FieldOf
  <2>2. ~Touches(<<SectionAt(objs, k, at) + o.M[j].loc, o.M[j].half>>, b)
    BY <2>1
  <2> QED BY <1>3, <2>2 DEF Touches
<1> HIDE DEF t, new, K
<1>6. Peek(ModifyRun(t, o.M).mem, b) = Peek(t.mem, b)
  <2>1. \A j \in 1..Len(o.M) : b \notin t.csaddr + o.M[j].loc .. t.csaddr + o.M[j].loc + 2
    BY <1>5
  <2>2. o.M \in Seq(FileMods(K)) /\ ModifyRun(t, o.M).ok
    BY <1>1, <1>2
  <2> HIDE DEF o
  <2> QED BY <1>3, <2>1, <2>2, ModifyRunOutside
<1>7. Peek(new.mem, b) = Peek(t.mem, b)
  BY <1>2, <1>6
<1> QED BY <1>4, <1>7 DEF new

\* In a field it leaves its texts and what it adds.
LEMMA FileField ==
  ASSUME NEW objs, NEW at, Loading(objs, at), Exact(objs), NEW k \in 1..Len(objs),
         NEW s \in PassStates, s.ok, s.estab = FullTable(objs, at), AfterFile(objs, at, k, s).ok,
         NEW a \in Int, NEW half \in {5, 6}, NEW base \in Int,
         \A g \in FieldsOfFile(objs, at, k) : g = <<a, half>> \/ g[1] + 3 <= a \/ a + 3 <= g[1]
  PROVE  /\ FieldSum(objs, at, k, a, base) \in Int
         /\ \E p, q, r \in Int :
              /\ LastOf(objs, at, k, a, Peek(s.mem, a), p)
              /\ LastOf(objs, at, k, a + 1, Peek(s.mem, a + 1), q)
              /\ LastOf(objs, at, k, a + 2, Peek(s.mem, a + 2), r)
              /\ Multiple(Word(AfterFile(objs, at, k, s).mem, a) - Triple(p, q, r)
                            - (FieldSum(objs, at, k, a, base) - base), half)
<1> DEFINE est == FullTable(objs, at)[k]
           o == objs[k]
           t == TextsDone(s, o, est)
           K == RefNumbers(o)
           new == AfterFile(objs, at, k, s)
<1>1. /\ o \in ObjectPrograms /\ est \in FileEntry /\ o.M \in Seq(FileMods(K))
      /\ est.addr = SectionAt(objs, k, at) /\ SignedFile(o)
  BY FileParts
<1>2. new.mem = ModifyRun(t, o.M).mem /\ ModifyRun(t, o.M).ok
  BY FileStep DEF AfterFile
<1>3. t \in FileStates(K) /\ t.ok /\ t.csaddr = SectionAt(objs, k, at)
  BY <1>1, TextsOfFile
<1>4. /\ LastOf(objs, at, k, a, Peek(s.mem, a), Peek(t.mem, a))
      /\ LastOf(objs, at, k, a + 1, Peek(s.mem, a + 1), Peek(t.mem, a + 1))
      /\ LastOf(objs, at, k, a + 2, Peek(s.mem, a + 2), Peek(t.mem, a + 2))
  <2>1. a + 1 \in Int /\ a + 2 \in Int
    OBVIOUS
  <2> QED BY <2>1, FileTexts
<1>5. \A j \in 1..Len(o.M) : \/ t.csaddr + o.M[j].loc = a /\ o.M[j].half = half
                             \/ t.csaddr + o.M[j].loc + 3 <= a
                             \/ a + 3 <= t.csaddr + o.M[j].loc
  <2> TAKE j \in 1..Len(o.M)
  <2>1. <<SectionAt(objs, k, at) + o.M[j].loc, o.M[j].half>> \in FieldsOfFile(objs, at, k)
    BY FieldOf
  <2> HIDE DEF t, o
  <2> QED BY <1>3, <2>1
<1>6. \A j \in 1..Len(o.M) : Value(objs, k, o.M[j], at) = Added(t, o.M[j])
  <2>1. FileEnded(s, o, est).ok
    BY <1>2 DEF FileEnded
  <2> QED BY <2>1, FileResolves
<1>7. /\ FileSum(objs, at, k, a, base, o.M) \in Int
      /\ Multiple(Word(ModifyRun(t, o.M).mem, a) - Word(t.mem, a)
                    - (FileSum(objs, at, k, a, base, o.M) - base), half)
  <2>1. o.M \in Seq(FileMods(K)) /\ ModifyRun(t, o.M).ok
    BY <1>1, <1>2
  <2> HIDE DEF t, o, K
  <2>2. Adding(K, t, o.M, objs, at, k, a, half, base)
    BY <1>3, <1>5, <1>6, <2>1 DEF Adding
  <2> QED BY <2>2, ModifyRunField
<1>8. Word(t.mem, a) = Triple(Peek(t.mem, a), Peek(t.mem, a + 1), Peek(t.mem, a + 2))
  BY DEF Word, Triple
<1>9. Peek(t.mem, a) \in Int /\ Peek(t.mem, a + 1) \in Int /\ Peek(t.mem, a + 2) \in Int
  <2>1. t.mem \in Memories
    BY <1>3 DEF FileStates, PassStates
  <2> QED BY <2>1, PeekType
<1> HIDE DEF t, new, o, K
<1>10. Multiple(Word(new.mem, a) - Triple(Peek(t.mem, a), Peek(t.mem, a + 1), Peek(t.mem, a + 2))
                    - (FieldSum(objs, at, k, a, base) - base), half)
  BY <1>2, <1>7, <1>8 DEF FieldSum, o
<1> QED BY <1>4, <1>7, <1>9, <1>10 DEF FieldSum, o, new

\* v is what the last text of the first k files has for cell b, or old.
LastIs(objs, at, k, b, i, j) ==
  /\ i \in 1..k /\ j \in 1..Len(objs[i].T) /\ Covers(objs, at, i, j, b)
  /\ \A x \in 1..k : \A y \in 1..Len(objs[x].T) :
       Covers(objs, at, x, y, b) => x < i \/ (x = i /\ y <= j)

\* What text j of file i has for cell b.
Content(objs, at, i, j, b) == objs[i].T[j].body[b - SectionAt(objs, i, at) - objs[i].T[j].loc + 1]

ImageShows(objs, at, k, b, old, v) ==
  \/ v = old /\ \A x \in 1..k : \A y \in 1..Len(objs[x].T) : ~Covers(objs, at, x, y, b)
  \/ \E i \in 1..k : \E j \in 1..Len(objs[i].T) :
       LastIs(objs, at, k, b, i, j) /\ v = Content(objs, at, i, j, b)

\* The texts of one more file.
LEMMA ShowsStep ==
  ASSUME NEW objs, NEW at, NEW k \in Nat, k >= 1, NEW b, NEW old, NEW u, NEW v,
         ImageShows(objs, at, k - 1, b, old, u), LastOf(objs, at, k, b, u, v)
  PROVE  ImageShows(objs, at, k, b, old, v)
<1>0. \A x \in 1..k : x \in 1..k - 1 \/ x = k
  OBVIOUS
<1>1. \A x \in 1..k - 1 : x \in 1..k /\ x < k
  OBVIOUS
<1>2. k \in 1..k
  OBVIOUS
<1>3. \A y : Reaches(objs[k].T, SectionAt(objs, k, at), y, b) <=> Covers(objs, at, k, y, b)
  BY DEF Reaches, Covers
<1>4. CASE v = u /\ \A y \in 1..Len(objs[k].T) : ~Covers(objs, at, k, y, b)
  <2>1. CASE u = old /\ \A x \in 1..k - 1 : \A y \in 1..Len(objs[x].T) : ~Covers(objs, at, x, y, b)
    BY <1>0, <1>4, <2>1 DEF ImageShows
  <2>2. ASSUME NEW i \in 1..k - 1, NEW j \in 1..Len(objs[i].T),
               LastIs(objs, at, k - 1, b, i, j), u = Content(objs, at, i, j, b)
        PROVE  ImageShows(objs, at, k, b, old, v)
    <3>1. i \in 1..k
      BY <1>1
    <3>2. LastIs(objs, at, k, b, i, j)
      BY <1>0, <1>4, <2>2, <3>1 DEF LastIs
    <3> QED BY <1>4, <2>2, <3>1, <3>2 DEF ImageShows
  <2> QED BY <2>1, <2>2 DEF ImageShows
<1>5. ASSUME NEW j \in 1..Len(objs[k].T), Covers(objs, at, k, j, b), v = Content(objs, at, k, j, b),
             \A i \in 1..Len(objs[k].T) : Covers(objs, at, k, i, b) => i <= j
      PROVE  ImageShows(objs, at, k, b, old, v)
  <2>1. LastIs(objs, at, k, b, k, j)
    BY <1>0, <1>1, <1>2, <1>5 DEF LastIs
  <2> QED BY <1>2, <1>5, <2>1 DEF ImageShows
<1>6. \/ v = u /\ \A y \in 1..Len(objs[k].T) : ~Covers(objs, at, k, y, b)
      \/ \E j \in 1..Len(objs[k].T) :
           /\ Covers(objs, at, k, j, b) /\ v = Content(objs, at, k, j, b)
           /\ \A i \in 1..Len(objs[k].T) : Covers(objs, at, k, i, b) => i <= j
  BY <1>3 DEF LastOf, LastText, Content
<1> QED BY <1>4, <1>5, <1>6

\* The texts of a file are numbered from one.
LEMMA LastIsType ==
  ASSUME NEW objs \in Seq(ObjectFile)
  PROVE  \A k \in 1..Len(objs) : Len(objs[k].T) \in Nat /\ DOMAIN objs[k].T = 1..Len(objs[k].T)
<1> TAKE k \in 1..Len(objs)
<1>1. objs[k] \in ObjectFile
  BY ElementOfSeq
<1>2. objs[k].T \in Seq(Text)
  BY <1>1, ObjectParts
<1> QED BY <1>2, LenProperties

\* What the texts of all files show is what TextAt says.
LEMMA ShowsText ==
  ASSUME NEW objs \in Seq(ObjectFile), NEW at, NEW b, NEW v,
         ImageShows(objs, at, Len(objs), b, Peek(memory, b), v)
  PROVE  v = TextAt(objs, at, b)
<1> DEFINE n == Len(objs)
           pairs == UNION {{k} \X DOMAIN objs[k].T : k \in DOMAIN objs}
           texts == {c \in pairs : Covers(objs, at, c[1], c[2], b)}
           Final(c) == \A d \in texts : d[1] < c[1] \/ (d[1] = c[1] /\ d[2] <= c[2])
           last == CHOOSE c \in texts : Final(c)
<1>1. n \in Nat /\ DOMAIN objs = 1..n
  BY LenProperties
<1>2. \A k \in 1..n : Len(objs[k].T) \in Nat /\ DOMAIN objs[k].T = 1..Len(objs[k].T)
  BY LastIsType
<1>3. ASSUME NEW c \in texts
      PROVE  /\ c = <<c[1], c[2]>> /\ c[1] \in 1..n /\ c[2] \in 1..Len(objs[c[1]].T)
             /\ Covers(objs, at, c[1], c[2], b) /\ c[1] \in Int /\ c[2] \in Int
  <2>1. PICK k \in 1..n : c \in {k} \X (1..Len(objs[k].T))
    BY <1>1, <1>2
  <2> QED BY <1>1, <1>2, <2>1
<1>4. ASSUME NEW i \in 1..n, NEW j \in 1..Len(objs[i].T), Covers(objs, at, i, j, b)
      PROVE  <<i, j>> \in texts
  <2>1. <<i, j>> \in {i} \X DOMAIN objs[i].T
    BY <1>2
  <2>2. <<i, j>> \in pairs
    BY <1>1, <2>1
  <2>3. <<i, j>>[1] = i /\ <<i, j>>[2] = j
    OBVIOUS
  <2> HIDE DEF pairs
  <2> QED BY <1>4, <2>2, <2>3
<1>5. TextAt(objs, at, b) = IF texts = {} THEN At(b)
                            ELSE objs[last[1]].T[last[2]].body[b - SectionAt(objs, last[1], at)
                                                                - objs[last[1]].T[last[2]].loc + 1]
  BY DEF TextAt
<1> HIDE DEF pairs, texts
<1>6. CASE v = Peek(memory, b) /\ \A x \in 1..n : \A y \in 1..Len(objs[x].T) : ~Covers(objs, at, x, y, b)
  <2>1. texts = {}
    BY <1>3, <1>6
  <2> QED BY <1>5, <1>6, <2>1 DEF At
<1>7. ASSUME NEW i \in 1..n, NEW j \in 1..Len(objs[i].T), LastIs(objs, at, n, b, i, j),
             v = Content(objs, at, i, j, b)
      PROVE  v = TextAt(objs, at, b)
  <2>1. <<i, j>> \in texts
    BY <1>4, <1>7 DEF LastIs
  <2>2. \A d \in texts : d[1] < i \/ (d[1] = i /\ d[2] <= j)
    BY <1>3, <1>7 DEF LastIs
  <2>3. Final(<<i, j>>)
    BY <2>2
  <2>4. last \in texts /\ Final(last)
    <3> HIDE DEF Final
    <3> QED BY <2>1, <2>3
  <2>5. PICK c \in texts : c = last
    BY <2>4
  <2> HIDE DEF last
  <2>6. c[1] < i \/ (c[1] = i /\ c[2] <= j)
    BY <2>2
  <2>7. i < c[1] \/ (i = c[1] /\ j <= c[2])
    <3>1. \A d \in texts : d[1] < c[1] \/ (d[1] = c[1] /\ d[2] <= c[2])
      BY <2>4, <2>5
    <3>2. <<i, j>>[1] < c[1] \/ (<<i, j>>[1] = c[1] /\ <<i, j>>[2] <= c[2])
      BY <2>1, <3>1
    <3> QED BY <3>2
  <2>8. i \in Int /\ j \in Int /\ c[1] \in Int /\ c[2] \in Int
    BY <1>1, <1>2, <1>3
  <2>9. c[1] = i /\ c[2] = j
    BY <2>6, <2>7, <2>8
  <2> QED BY <1>5, <1>7, <2>1, <2>5, <2>9 DEF Content
<1>8. \/ v = Peek(memory, b) /\ \A x \in 1..n : \A y \in 1..Len(objs[x].T) : ~Covers(objs, at, x, y, b)
      \/ \E i \in 1..n : \E j \in 1..Len(objs[i].T) :
           LastIs(objs, at, n, b, i, j) /\ v = Content(objs, at, i, j, b)
  BY DEF ImageShows
<1> HIDE DEF n, last
<1> QED BY <1>6, <1>7, <1>8

\* Cell b holds the last text of the first k files.
CellShown(objs, at, k, b, old, mem) == ImageShows(objs, at, k, b, Peek(old, b), Peek(mem, b))

\* The field at a shows its texts and sum.
FieldShown(objs, at, k, a, half, old, mem, sum) ==
  \E p, q, r \in Int :
    /\ ImageShows(objs, at, k, a, Peek(old, a), p)
    /\ ImageShows(objs, at, k, a + 1, Peek(old, a + 1), q)
    /\ ImageShows(objs, at, k, a + 2, Peek(old, a + 2), r)
    /\ Multiple(Word(mem, a) - Triple(p, q, r) - sum, half)

\* None of the first k files modifies the field.
FieldUnused(objs, at, k, a, half) == \A i \in 1..k : <<a, half>> \notin FieldsOfFile(objs, at, i)

\* The invariant of a field, file by file.
FieldInv(objs, at, k, a, half, old, mem, sum) ==
  /\ sum \in Int /\ mem \in Memories /\ FieldShown(objs, at, k, a, half, old, mem, sum)
  /\ FieldUnused(objs, at, k, a, half) =>
       /\ sum = 0 /\ CellShown(objs, at, k, a, old, mem)
       /\ CellShown(objs, at, k, a + 1, old, mem) /\ CellShown(objs, at, k, a + 2, old, mem)

\* Fields of one program are the same or apart.
LEMMA FieldsApart ==
  ASSUME NEW objs, NEW at, Loading(objs, at), Apart(objs, at), NEW k \in 1..Len(objs),
         NEW f \in FieldsIn(objs, at)
  PROVE  /\ f = <<f[1], f[2]>> /\ f[1] \in Int /\ f[2] \in {5, 6}
         /\ \A g \in FieldsOfFile(objs, at, k) : g = f \/ g[1] + 3 <= f[1] \/ f[1] + 3 <= g[1]
         /\ f \notin FieldsOfFile(objs, at, k) =>
              \A g \in FieldsOfFile(objs, at, k) :
                g[1] # f[1] /\ ~Touches(g, f[1]) /\ ~Touches(g, f[1] + 1) /\ ~Touches(g, f[1] + 2)
         /\ (\E i \in 1..k - 1 : f \in FieldsOfFile(objs, at, i)) =>
              \A j \in 1..Len(objs[k].T), b \in {f[1], f[1] + 1, f[1] + 2} : ~Covers(objs, at, k, j, b)
<1>1. objs \in Seq(ObjectFile) /\ DOMAIN objs = 1..Len(objs) /\ Len(objs) \in Nat
  BY FileParts, LenProperties
<1>2. \A i \in 1..Len(objs) : FieldsOfFile(objs, at, i) \subseteq FieldsIn(objs, at)
  BY <1>1 DEF FieldsIn
<1>3. PICK i \in 1..Len(objs) : f \in FieldsOfFile(objs, at, i)
  BY <1>1 DEF FieldsIn
<1>4. f = <<f[1], f[2]>> /\ f[1] \in Int /\ f[2] \in {5, 6}
  BY <1>3, FieldOf
<1>5. \A g \in FieldsOfFile(objs, at, k) : g = f \/ g[1] + 3 <= f[1] \/ f[1] + 3 <= g[1]
  BY <1>2 DEF Apart
<1>6. ASSUME f \notin FieldsOfFile(objs, at, k), NEW g \in FieldsOfFile(objs, at, k)
      PROVE  g[1] # f[1] /\ ~Touches(g, f[1]) /\ ~Touches(g, f[1] + 1) /\ ~Touches(g, f[1] + 2)
  <2>1. g[1] + 3 <= f[1] \/ f[1] + 3 <= g[1]
    BY <1>5, <1>6
  <2>2. g[1] \in Int /\ f[1] \in Int
    BY <1>4, FieldOf
  <2> QED BY <2>1, <2>2 DEF Touches
<1>7. ASSUME NEW h \in 1..k - 1, f \in FieldsOfFile(objs, at, h),
             NEW j \in 1..Len(objs[k].T), NEW b \in {f[1], f[1] + 1, f[1] + 2}
      PROVE  ~Covers(objs, at, k, j, b)
  <2>1. j \in DOMAIN objs[k].T
    BY <1>1, LastIsType
  <2>2. \A c \in 0 .. 2 : ~Covers(objs, at, k, j, f[1] + c)
    BY <1>1, <1>7, <2>1 DEF Apart
  <2>3. ~Covers(objs, at, k, j, f[1] + 0) /\ ~Covers(objs, at, k, j, f[1] + 1) /\ ~Covers(objs, at, k, j, f[1] + 2)
    BY <2>2
  <2>4. f[1] + 0 = f[1]
    BY <1>4
  <2> QED BY <1>7, <2>3, <2>4
<1> QED BY <1>4, <1>5, <1>6, <1>7

\* Without a text of file k for it a cell shows what it did.
LEMMA NotCovered ==
  ASSUME NEW objs, NEW at, NEW k, NEW b, NEW u, NEW v, LastOf(objs, at, k, b, u, v),
         \A j \in 1..Len(objs[k].T) : ~Covers(objs, at, k, j, b)
  PROVE  v = u
BY DEF LastOf, LastText, Reaches, Covers

\* A file that has nothing for the field.
LEMMA FieldPassed ==
  ASSUME NEW objs, NEW at, Loading(objs, at), Exact(objs), Apart(objs, at), NEW k \in 1..Len(objs),
         NEW s \in PassStates, s.ok, s.estab = FullTable(objs, at), AfterFile(objs, at, k, s).ok,
         NEW a \in Int, NEW half, <<a, half>> \in FieldsIn(objs, at), NEW old, NEW sum,
         FieldInv(objs, at, k - 1, a, half, old, s.mem, sum),
         <<a, half>> \notin FieldsOfFile(objs, at, k)
  PROVE  FieldInv(objs, at, k, a, half, old, AfterFile(objs, at, k, s).mem,
                  FieldSum(objs, at, k, a, sum))
<1> DEFINE mem == AfterFile(objs, at, k, s).mem
           f == <<a, half>>
<1>1. k \in Nat /\ k >= 1
  OBVIOUS
<1>2. mem \in Memories
  <2>1. objs[k] \in ObjectPrograms /\ SignedFile(objs[k]) /\ FullTable(objs, at)[k] \in FileEntry
    BY FileParts
  <2>2. AfterFile(objs, at, k, s) \in PassStates
    BY <2>1, FilePassed DEF AfterFile
  <2> QED BY <2>2 DEF PassStates
<1>3. \A g \in FieldsOfFile(objs, at, k) :
        g[1] # a /\ ~Touches(g, a) /\ ~Touches(g, a + 1) /\ ~Touches(g, a + 2)
  BY FieldsApart
<1>4. sum \in Int
  BY DEF FieldInv
<1>5. FieldSum(objs, at, k, a, sum) = sum
  BY <1>3, <1>4, FileNoField
<1>6. /\ LastOf(objs, at, k, a, Peek(s.mem, a), Peek(mem, a))
      /\ LastOf(objs, at, k, a + 1, Peek(s.mem, a + 1), Peek(mem, a + 1))
      /\ LastOf(objs, at, k, a + 2, Peek(s.mem, a + 2), Peek(mem, a + 2))
  <2>1. a + 1 \in Int /\ a + 2 \in Int
    OBVIOUS
  <2> QED BY <1>3, <2>1, FileCell
<1> HIDE DEF mem
<1>7. CASE FieldUnused(objs, at, k - 1, a, half)
  <2>1. /\ sum = 0 /\ CellShown(objs, at, k - 1, a, old, s.mem)
        /\ CellShown(objs, at, k - 1, a + 1, old, s.mem) /\ CellShown(objs, at, k - 1, a + 2, old, s.mem)
    BY <1>7 DEF FieldInv
  <2>2. /\ CellShown(objs, at, k, a, old, mem) /\ CellShown(objs, at, k, a + 1, old, mem)
        /\ CellShown(objs, at, k, a + 2, old, mem)
    BY <1>1, <1>6, <2>1, ShowsStep DEF CellShown
  <2>3. /\ ImageShows(objs, at, k, a, Peek(old, a), Peek(mem, a))
        /\ ImageShows(objs, at, k, a + 1, Peek(old, a + 1), Peek(mem, a + 1))
        /\ ImageShows(objs, at, k, a + 2, Peek(old, a + 2), Peek(mem, a + 2))
    BY <2>2 DEF CellShown
  <2>4. Peek(mem, a) \in Int /\ Peek(mem, a + 1) \in Int /\ Peek(mem, a + 2) \in Int
    BY <1>2, PeekType
  <2>5. Multiple(Word(mem, a) - Triple(Peek(mem, a), Peek(mem, a + 1), Peek(mem, a + 2)) - sum, half)
    <3>1. Word(mem, a) = Triple(Peek(mem, a), Peek(mem, a + 1), Peek(mem, a + 2)) /\ Word(mem, a) \in Int
      BY <1>2, WordType DEF Word, Triple
    <3>2. Word(mem, a) - Triple(Peek(mem, a), Peek(mem, a + 1), Peek(mem, a + 2)) - sum = 0
      BY <2>1, <3>1
    <3>3. half \in {5, 6}
      BY FieldsApart
    <3>4. Multiple(0, half)
      BY <3>3, MultipleZero
    <3> QED BY <3>2, <3>4
  <2>6. FieldShown(objs, at, k, a, half, old, mem, sum)
    BY <2>3, <2>4, <2>5 DEF FieldShown
  <2> QED BY <1>2, <1>4, <1>5, <2>1, <2>2, <2>6 DEF FieldInv, mem
<1>8. CASE ~FieldUnused(objs, at, k - 1, a, half)
  <2>1. \E i \in 1..k - 1 : f \in FieldsOfFile(objs, at, i)
    BY <1>8 DEF FieldUnused
  <2>2. \A j \in 1..Len(objs[k].T), b \in {a, a + 1, a + 2} : ~Covers(objs, at, k, j, b)
    BY <2>1, FieldsApart
  <2>3. /\ Peek(mem, a) = Peek(s.mem, a) /\ Peek(mem, a + 1) = Peek(s.mem, a + 1)
        /\ Peek(mem, a + 2) = Peek(s.mem, a + 2)
    BY <1>6, <2>2, NotCovered
  <2>4. Word(mem, a) = Word(s.mem, a)
    BY <2>3 DEF Word
  <2>5. PICK p \in Int, q \in Int, r \in Int :
          /\ ImageShows(objs, at, k - 1, a, Peek(old, a), p)
          /\ ImageShows(objs, at, k - 1, a + 1, Peek(old, a + 1), q)
          /\ ImageShows(objs, at, k - 1, a + 2, Peek(old, a + 2), r)
          /\ Multiple(Word(s.mem, a) - Triple(p, q, r) - sum, half)
    BY DEF FieldInv, FieldShown
  <2>6. \A b \in {a, a + 1, a + 2} : \A v : LastOf(objs, at, k, b, v, v)
    BY <2>2 DEF LastOf, LastText, Reaches, Covers
  <2>7. /\ ImageShows(objs, at, k, a, Peek(old, a), p)
        /\ ImageShows(objs, at, k, a + 1, Peek(old, a + 1), q)
        /\ ImageShows(objs, at, k, a + 2, Peek(old, a + 2), r)
    <3>1. LastOf(objs, at, k, a, p, p) /\ LastOf(objs, at, k, a + 1, q, q) /\ LastOf(objs, at, k, a + 2, r, r)
      BY <2>6
    <3> QED BY <1>1, <2>5, <3>1, ShowsStep
  <2>8. FieldShown(objs, at, k, a, half, old, mem, sum)
    BY <2>4, <2>5, <2>7 DEF FieldShown
  <2>9. ~FieldUnused(objs, at, k, a, half)
    <3>1. \A i \in 1..k - 1 : i \in 1..k
      OBVIOUS
    <3> QED BY <2>1, <3>1 DEF FieldUnused
  <2> QED BY <1>2, <1>4, <1>5, <2>8, <2>9 DEF FieldInv, mem
<1> QED BY <1>7, <1>8

\* A file that raises the field.
LEMMA FieldRaised ==
  ASSUME NEW objs, NEW at, Loading(objs, at), Exact(objs), Apart(objs, at), NEW k \in 1..Len(objs),
         NEW s \in PassStates, s.ok, s.estab = FullTable(objs, at), AfterFile(objs, at, k, s).ok,
         NEW a \in Int, NEW half, <<a, half>> \in FieldsIn(objs, at), NEW old, NEW sum,
         FieldInv(objs, at, k - 1, a, half, old, s.mem, sum),
         <<a, half>> \in FieldsOfFile(objs, at, k)
  PROVE  FieldInv(objs, at, k, a, half, old, AfterFile(objs, at, k, s).mem,
                  FieldSum(objs, at, k, a, sum))
<1> DEFINE mem == AfterFile(objs, at, k, s).mem
           f == <<a, half>>
           new == FieldSum(objs, at, k, a, sum)
<1>1. k \in Nat /\ k >= 1 /\ k \in 1..k
  OBVIOUS
<1>2. mem \in Memories
  <2>1. objs[k] \in ObjectPrograms /\ SignedFile(objs[k]) /\ FullTable(objs, at)[k] \in FileEntry
    BY FileParts
  <2>2. AfterFile(objs, at, k, s) \in PassStates
    BY <2>1, FilePassed DEF AfterFile
  <2> QED BY <2>2 DEF PassStates
<1>3. sum \in Int /\ half \in {5, 6}
  BY FieldsApart DEF FieldInv
<1>4. \A g \in FieldsOfFile(objs, at, k) : g = f \/ g[1] + 3 <= a \/ a + 3 <= g[1]
  BY FieldsApart
<1>5. /\ new \in Int
      /\ \E p, q, r \in Int :
           /\ LastOf(objs, at, k, a, Peek(s.mem, a), p)
           /\ LastOf(objs, at, k, a + 1, Peek(s.mem, a + 1), q)
           /\ LastOf(objs, at, k, a + 2, Peek(s.mem, a + 2), r)
           /\ Multiple(Word(mem, a) - Triple(p, q, r) - (new - sum), half)
  BY <1>3, <1>4, FileField
<1>6. PICK p \in Int, q \in Int, r \in Int :
           /\ LastOf(objs, at, k, a, Peek(s.mem, a), p)
           /\ LastOf(objs, at, k, a + 1, Peek(s.mem, a + 1), q)
           /\ LastOf(objs, at, k, a + 2, Peek(s.mem, a + 2), r)
           /\ Multiple(Word(mem, a) - Triple(p, q, r) - (new - sum), half)
  BY <1>5
<1>7. ~FieldUnused(objs, at, k, a, half)
  BY <1>1 DEF FieldUnused
<1> HIDE DEF mem, new
<1>8. CASE FieldUnused(objs, at, k - 1, a, half)
  <2>1. /\ sum = 0 /\ CellShown(objs, at, k - 1, a, old, s.mem)
        /\ CellShown(objs, at, k - 1, a + 1, old, s.mem) /\ CellShown(objs, at, k - 1, a + 2, old, s.mem)
    BY <1>8 DEF FieldInv
  <2>2. /\ ImageShows(objs, at, k, a, Peek(old, a), p)
        /\ ImageShows(objs, at, k, a + 1, Peek(old, a + 1), q)
        /\ ImageShows(objs, at, k, a + 2, Peek(old, a + 2), r)
    BY <1>1, <1>6, <2>1, ShowsStep DEF CellShown
  <2>3. new - sum = new
    BY <1>5, <2>1
  <2>4. Multiple(Word(mem, a) - Triple(p, q, r) - new, half)
    BY <1>6, <2>3
  <2>5. FieldShown(objs, at, k, a, half, old, mem, new)
    BY <2>2, <2>4 DEF FieldShown
  <2> QED BY <1>2, <1>5, <1>7, <2>5 DEF FieldInv, mem, new
<1>9. CASE ~FieldUnused(objs, at, k - 1, a, half)
  <2>1. \E i \in 1..k - 1 : f \in FieldsOfFile(objs, at, i)
    BY <1>9 DEF FieldUnused
  <2>2. \A j \in 1..Len(objs[k].T), b \in {a, a + 1, a + 2} : ~Covers(objs, at, k, j, b)
    BY <2>1, FieldsApart
  <2>3. p = Peek(s.mem, a) /\ q = Peek(s.mem, a + 1) /\ r = Peek(s.mem, a + 2)
    BY <1>6, <2>2, NotCovered
  <2>4. Triple(p, q, r) = Word(s.mem, a)
    BY <2>3 DEF Word, Triple
  <2>5. PICK x \in Int, y \in Int, z \in Int :
          /\ ImageShows(objs, at, k - 1, a, Peek(old, a), x)
          /\ ImageShows(objs, at, k - 1, a + 1, Peek(old, a + 1), y)
          /\ ImageShows(objs, at, k - 1, a + 2, Peek(old, a + 2), z)
          /\ Multiple(Word(s.mem, a) - Triple(x, y, z) - sum, half)
    BY DEF FieldInv, FieldShown
  <2>6. /\ ImageShows(objs, at, k, a, Peek(old, a), x)
        /\ ImageShows(objs, at, k, a + 1, Peek(old, a + 1), y)
        /\ ImageShows(objs, at, k, a + 2, Peek(old, a + 2), z)
    <3>1. \A b \in {a, a + 1, a + 2} : \A v : LastOf(objs, at, k, b, v, v)
      BY <2>2 DEF LastOf, LastText, Reaches, Covers
    <3>2. LastOf(objs, at, k, a, x, x) /\ LastOf(objs, at, k, a + 1, y, y) /\ LastOf(objs, at, k, a + 2, z, z)
      BY <3>1
    <3> QED BY <1>1, <2>5, <3>2, ShowsStep
  <2>7. Multiple(Word(mem, a) - Triple(x, y, z) - new, half)
    <3>1. PICK w \in Int : w = Word(s.mem, a)
      BY WordType DEF PassStates
    <3>2. PICK u \in Int : u = Word(mem, a)
      BY <1>2, WordType
    <3>3. PICK t \in Int : t = Triple(x, y, z)
      BY DEF Triple
    <3>4. PICK c \in Int : c = w - t - sum
      BY <1>3
    <3>5. PICK d \in Int : d = u - w - (new - sum)
      BY <1>3, <1>5
    <3>6. Multiple(c, half) /\ Multiple(d, half)
      BY <1>6, <2>4, <2>5, <3>1, <3>2, <3>3, <3>4, <3>5
    <3>7. Multiple(c + d, half)
      BY <3>6, MultipleSum
    <3>8. PICK e \in Int : e = new
      BY <1>5
    <3>9. c + d = u - t - e
      BY <1>3, <3>4, <3>5, <3>8
    <3> QED BY <3>2, <3>3, <3>7, <3>8, <3>9
  <2>8. FieldShown(objs, at, k, a, half, old, mem, new)
    BY <2>6, <2>7 DEF FieldShown
  <2> QED BY <1>2, <1>5, <1>7, <2>8 DEF FieldInv, mem, new
<1> QED BY <1>8, <1>9

\* Pass 2 goes from file to file.
PassChain(objs, at, mem, h) ==
  /\ h \in [0..Len(objs) -> PassStates]
  /\ h[0].ok /\ h[0].mem = mem /\ h[0].estab = FullTable(objs, at) /\ h[0].execaddr = at
  /\ \A k \in 1..Len(objs) : h[k] = AfterFile(objs, at, k, h[k - 1])

\* Every state of pass 2 has its type.
LEMMA LoaderPass2Runs ==
  ASSUME NEW objs, NEW at, Loading(objs, at), NEW mem \in Memories
  PROVE  \E h : /\ PassChain(objs, at, mem, h)
                /\ LoaderPass2(objs, at, FullTable(objs, at), mem) = h[Len(objs)]
<1> DEFINE n == Len(objs)
           tab == FullTable(objs, at)
           base == [ok |-> TRUE, mem |-> mem, estab |-> tab, csaddr |-> at, execaddr |-> at,
                    r |-> <<>>, buffer |-> <<>>]
           L == {FileOf(objs[k], tab[k]) : k \in 1..n}
           seq == [k \in DOMAIN objs |-> [obj |-> objs[k], est |-> tab[k]]]
<1>1. objs \in Seq(ObjectPrograms) /\ at \in Int /\ n \in Nat /\ DOMAIN objs = 1..n
  BY LenProperties DEF Loading
<1>2. tab \in Seq(FileEntry)
  <2>1. \A o \in ObjectPrograms : o \in ObjectFile
    BY DEF ObjectPrograms
  <2>2. objs \in Seq(ObjectFile) /\ n \in 0..n
    BY <1>1, <2>1
  <2> QED BY <1>1, <2>2, TableType DEF FullTable
<1>3. base \in PassStates
  <2>1. <<>> \in [{} -> [sym: Strings, used_flag: Int]]
    OBVIOUS
  <2>2. <<>> \in RefTables
    BY <2>1 DEF RefTables
  <2>3. <<>> \in Seq(Int)
    OBVIOUS
  <2> HIDE DEF tab
  <2> QED BY <1>1, <1>2, <2>2, <2>3 DEF PassStates
<1>4. seq \in [1..n -> L] /\ \A k \in 1..n : seq[k] = FileOf(objs[k], tab[k])
  BY <1>1 DEF FileOf
<1>5. seq \in Seq(L) /\ Len(seq) = n
  <2> HIDE DEF seq, L, tab
  <2>1. PICK m \in Nat : m = n
    BY <1>1
  <2> QED BY <1>4, <2>1, SeqDef
<1>6. ASSUME NEW s \in PassStates, NEW l \in L PROVE Pass2File(s, l) \in PassStates
  <2>1. PICK k \in 1..n : l = FileOf(objs[k], tab[k])
    OBVIOUS
  <2>2. objs[k] \in ObjectPrograms /\ SignedFile(objs[k]) /\ tab[k] \in FileEntry
    BY FileParts
  <2> QED BY <2>1, <2>2, FilePassed
<1>7. LoaderPass2(objs, at, tab, mem) = Pass2FileRun(base, seq)
  BY DEF LoaderPass2, Pass2FileRun
<1>8. PICK h \in [0..n -> PassStates] : Pass2FileChain(h, base, seq) /\ Pass2FileRun(base, seq) = h[n]
  <2>1. \A s \in PassStates, l \in L : Pass2File(s, l) \in PassStates
    BY <1>6
  <2> HIDE DEF base, seq, L
  <2>2. \E h \in [0..Len(seq) -> PassStates] :
           Pass2FileChain(h, base, seq) /\ Pass2FileRun(base, seq) = h[Len(seq)]
    BY <1>3, <1>5, <2>1, Pass2FileFold
  <2> QED BY <1>5, <2>2
<1>9. h[0] = base /\ \A k \in 1..n : h[k] = Pass2File(h[k - 1], seq[k])
  <2> HIDE DEF base, seq
  <2> QED BY <1>5, <1>8 DEF Pass2FileChain
<1>10. \A k \in 1..n : h[k] = AfterFile(objs, at, k, h[k - 1])
  <2> HIDE DEF base, seq
  <2> QED BY <1>4, <1>9 DEF AfterFile
<1>11. h[0].ok /\ h[0].mem = mem /\ h[0].estab = tab /\ h[0].execaddr = at
  BY <1>9
<1> HIDE DEF base, seq, L
<1> QED BY <1>7, <1>8, <1>10, <1>11 DEF PassChain

\* x is where the last of the first k files that says so starts the program.
Entrance(objs, at, i) ==
  SectionAt(objs, i, at) + (IF objs[i].E = BareEntry THEN -1 ELSE objs[i].E)

\* x is the start of the program after k files.
Started(objs, at, k, x) ==
  \/ x = at /\ \A i \in 1..k : objs[i].E = NoEntry
  \/ \E i \in 1..k : /\ objs[i].E # NoEntry /\ x = Entrance(objs, at, i)
                     /\ \A j \in 1..k : objs[j].E # NoEntry => j <= i

\* After the last it is StartOf.
LEMMA StartedIs ==
  ASSUME NEW objs \in Seq(ObjectFile), NEW at, NEW x, Started(objs, at, Len(objs), x)
  PROVE  x = StartOf(objs, at)
<1> DEFINE n == Len(objs)
           files == {k \in DOMAIN objs : objs[k].E # NoEntry}
<1>1. n \in Nat /\ DOMAIN objs = 1..n
  BY LenProperties
<1>2. CASE x = at /\ \A i \in 1..n : objs[i].E = NoEntry
  <2>1. files = {}
    BY <1>1, <1>2
  <2> QED BY <1>2, <2>1 DEF StartOf
<1>3. ASSUME NEW i \in 1..n, objs[i].E # NoEntry, x = Entrance(objs, at, i),
             \A j \in 1..n : objs[j].E # NoEntry => j <= i
      PROVE  x = StartOf(objs, at)
  <2>1. files \in SUBSET (1..n) /\ i \in files /\ \A j \in files : j <= i
    BY <1>1, <1>3
  <2>2. Max(files) = i /\ files # {}
    <3> HIDE DEF files
    <3> QED BY <1>1, <2>1, GreatestUnique
  <2>3. StartOf(objs, at) = SectionAt(objs, i, at) + (IF objs[i].E = BareEntry THEN -1 ELSE objs[i].E)
    BY <2>2 DEF StartOf
  <2> QED BY <1>3, <2>3 DEF Entrance
<1> QED BY <1>2, <1>3 DEF Started

\* From file to file.
LEMMA StartedStep ==
  ASSUME NEW objs, NEW at, NEW k \in Nat, k >= 1, NEW x, Started(objs, at, k - 1, x)
  PROVE  Started(objs, at, k, StartAfter(objs[k], SectionAt(objs, k, at), x))
<1>1. (\A i \in 1..k : i \in 1..k - 1 \/ i = k) /\ k \in 1..k
  OBVIOUS
<1>2. \A i \in 1..k - 1 : i \in 1..k /\ i <= k
  OBVIOUS
<1>3. CASE objs[k].E = NoEntry
  <2>1. StartAfter(objs[k], SectionAt(objs, k, at), x) = x
    BY <1>3 DEF StartAfter, NoEntry, BareEntry
  <2>2. Started(objs, at, k, x)
    BY <1>1, <1>2, <1>3 DEF Started
  <2> QED BY <2>1, <2>2
<1>4. CASE objs[k].E # NoEntry
  <2>1. StartAfter(objs[k], SectionAt(objs, k, at), x) = Entrance(objs, at, k)
    <3>1. CASE objs[k].E = BareEntry
      BY <1>4, <3>1 DEF StartAfter, Entrance
    <3>2. CASE objs[k].E # BareEntry
      BY <1>4, <3>2 DEF StartAfter, Entrance
    <3> QED BY <3>1, <3>2
  <2>2. \A j \in 1..k : objs[j].E # NoEntry => j <= k
    BY <1>1, <1>2
  <2> QED BY <1>1, <1>4, <2>1, <2>2 DEF Started
<1> QED BY <1>3, <1>4

\* Pass 2 gets past the files whose modifications all name something.
LEMMA PassResult ==
  ASSUME NEW objs, NEW at, Loading(objs, at), NEW mem, NEW h, PassChain(objs, at, mem, h)
  PROVE  \A k \in 0..Len(objs) :
           /\ h[k].ok <=> \A i \in 1..k : Named(objs, at, i)
           /\ h[k].ok => h[k].estab = FullTable(objs, at) /\ Started(objs, at, k, h[k].execaddr)
<1> DEFINE n == Len(objs)
           Good == {k \in 0..n : /\ h[k].ok <=> \A i \in 1..k : Named(objs, at, i)
                                 /\ h[k].ok => /\ h[k].estab = FullTable(objs, at)
                                               /\ Started(objs, at, k, h[k].execaddr)}
<1>1. n \in Nat
  BY LenProperties DEF Loading
<1>2. /\ h \in [0..n -> PassStates] /\ h[0].ok /\ h[0].estab = FullTable(objs, at)
      /\ h[0].execaddr = at /\ \A k \in 1..n : h[k] = AfterFile(objs, at, k, h[k - 1])
  BY DEF PassChain
<1>3. 0 \in Good
  <2>1. \A i \in 1..0 : FALSE
    OBVIOUS
  <2>2. Started(objs, at, 0, at)
    BY <2>1 DEF Started
  <2> QED BY <1>1, <1>2, <2>1, <2>2
<1>4. ASSUME NEW k \in 1..n, k - 1 \in Good PROVE k \in Good
  <2>1. k - 1 \in 0..n /\ k \in 0..n /\ k \in Nat /\ k >= 1
    BY <1>1
  <2>2. h[k - 1] \in PassStates /\ h[k] = AfterFile(objs, at, k, h[k - 1])
    BY <1>2, <2>1
  <2>3. (\A i \in 1..k : i \in 1..k - 1 \/ i = k) /\ (\A i \in 1..k - 1 : i \in 1..k) /\ k \in 1..k
    BY <2>1
  <2>4. CASE ~h[k - 1].ok
    <3>1. h[k] = h[k - 1]
      <4>1. objs[k] \in ObjectPrograms /\ SignedFile(objs[k]) /\ FullTable(objs, at)[k] \in FileEntry
        BY FileParts
      <4> QED BY <2>2, <2>4, <4>1, FilePassed DEF AfterFile
    <3>2. ~\A i \in 1..k - 1 : Named(objs, at, i)
      BY <1>4, <2>4
    <3>3. ~h[k].ok /\ ~\A i \in 1..k : Named(objs, at, i)
      BY <2>3, <2>4, <3>1, <3>2
    <3> QED BY <2>1, <3>3
  <2>5. CASE h[k - 1].ok
    <3>1. /\ h[k - 1].estab = FullTable(objs, at) /\ Started(objs, at, k - 1, h[k - 1].execaddr)
          /\ \A i \in 1..k - 1 : Named(objs, at, i)
      BY <1>4, <2>5
    <3>2. /\ h[k].ok <=> Named(objs, at, k)
          /\ h[k].ok => /\ h[k].estab = h[k - 1].estab
                        /\ h[k].execaddr = StartAfter(objs[k], SectionAt(objs, k, at), h[k - 1].execaddr)
      BY <2>2, <2>5, <3>1, FileStep DEF AfterFile
    <3>3. Started(objs, at, k, StartAfter(objs[k], SectionAt(objs, k, at), h[k - 1].execaddr))
      BY <2>1, <3>1, StartedStep
    <3>4. h[k].ok <=> \A i \in 1..k : Named(objs, at, i)
      BY <2>3, <3>1, <3>2
    <3>5. h[k].ok => h[k].estab = FullTable(objs, at) /\ Started(objs, at, k, h[k].execaddr)
      BY <3>1, <3>2, <3>3
    <3> QED BY <2>1, <3>4, <3>5
  <2> QED BY <2>4, <2>5
<1> HIDE DEF Good
<1>5. \A k \in 0..n : k \in Good
  <2> HIDE DEF n
  <2> QED BY <1>1, <1>3, <1>4, Upwards
<1> QED BY <1>5 DEF Good

\* A chain that does not fail goes on from every file.
LEMMA PassOn ==
  ASSUME NEW objs, NEW at, Loading(objs, at), NEW mem, NEW h, PassChain(objs, at, mem, h),
         h[Len(objs)].ok, NEW k \in 1..Len(objs)
  PROVE  /\ h[k - 1] \in PassStates /\ h[k - 1].ok /\ h[k - 1].estab = FullTable(objs, at)
         /\ AfterFile(objs, at, k, h[k - 1]).ok /\ h[k] = AfterFile(objs, at, k, h[k - 1])
<1> DEFINE n == Len(objs)
<1>1. n \in Nat
  BY LenProperties DEF Loading
<1>2. n \in 0..n /\ k - 1 \in 0..n /\ k \in 0..n /\ k \in Nat
  BY <1>1
<1>3. \A j \in 0..n : /\ h[j].ok <=> \A i \in 1..j : Named(objs, at, i)
                      /\ h[j].ok => h[j].estab = FullTable(objs, at)
  BY PassResult
<1>4. \A i \in 1..n : Named(objs, at, i)
  BY <1>2, <1>3
<1>5. (\A i \in 1..k - 1 : i \in 1..n) /\ (\A i \in 1..k : i \in 1..n)
  BY <1>1, <1>2
<1>6. h[k - 1].ok /\ h[k].ok
  BY <1>2, <1>3, <1>4, <1>5
<1> QED BY <1>2, <1>3, <1>6 DEF PassChain

\* Every cell that is in no field shows its texts.
LEMMA CellLinked ==
  ASSUME NEW objs, NEW at, Loading(objs, at), Exact(objs), NEW h,
         PassChain(objs, at, memory, h), h[Len(objs)].ok, NEW b \in Int,
         \A f \in FieldsIn(objs, at) : ~Touches(f, b)
  PROVE  Peek(h[Len(objs)].mem, b) = TextAt(objs, at, b)
<1> DEFINE n == Len(objs)
           Good == {k \in 0..n : CellShown(objs, at, k, b, memory, h[k].mem)}
<1>1. n \in Nat /\ objs \in Seq(ObjectFile) /\ DOMAIN objs = 1..n
  <2>1. \A o \in ObjectPrograms : o \in ObjectFile
    BY DEF ObjectPrograms
  <2> QED BY <2>1, LenProperties DEF Loading
<1>2. 0 \in Good
  <2>1. \A i \in 1..0 : FALSE
    OBVIOUS
  <2>2. h[0].mem = memory
    BY DEF PassChain
  <2>3. CellShown(objs, at, 0, b, memory, h[0].mem)
    BY <2>1, <2>2 DEF CellShown, ImageShows
  <2> QED BY <1>1, <2>3
<1>3. ASSUME NEW k \in 1..n, k - 1 \in Good PROVE k \in Good
  <2>1. k \in 0..n /\ k \in Nat /\ k >= 1
    BY <1>1
  <2>2. /\ h[k - 1] \in PassStates /\ h[k - 1].ok /\ h[k - 1].estab = FullTable(objs, at)
        /\ AfterFile(objs, at, k, h[k - 1]).ok /\ h[k] = AfterFile(objs, at, k, h[k - 1])
    BY PassOn
  <2>3. \A f \in FieldsOfFile(objs, at, k) : ~Touches(f, b)
    <3>1. FieldsOfFile(objs, at, k) \subseteq FieldsIn(objs, at)
      BY <1>1 DEF FieldsIn
    <3> QED BY <3>1
  <2>4. LastOf(objs, at, k, b, Peek(h[k - 1].mem, b), Peek(h[k].mem, b))
    BY <2>2, <2>3, FileCell
  <2>5. CellShown(objs, at, k - 1, b, memory, h[k - 1].mem)
    BY <1>3
  <2>6. CellShown(objs, at, k, b, memory, h[k].mem)
    BY <2>1, <2>4, <2>5, ShowsStep DEF CellShown
  <2> QED BY <2>1, <2>6
<1> HIDE DEF Good
<1>4. \A k \in 0..n : k \in Good
  <2> HIDE DEF n
  <2> QED BY <1>1, <1>2, <1>3, Upwards
<1>5. CellShown(objs, at, n, b, memory, h[n].mem)
  <2>1. n \in Good
    BY <1>1, <1>4
  <2> QED BY <2>1 DEF Good
<1> QED BY <1>1, <1>5, ShowsText DEF CellShown

\* The sum goes from file to file.
LEMMA SumRuns ==
  ASSUME NEW objs, NEW at, Loading(objs, at), Exact(objs), Apart(objs, at), NEW h,
         PassChain(objs, at, memory, h), h[Len(objs)].ok, NEW f \in FieldsIn(objs, at)
  PROVE  \E g \in [0..Len(objs) -> Int] :
           /\ g[0] = 0 /\ Sum(objs, at, f[1]) = g[Len(objs)]
           /\ \A k \in 1..Len(objs) : g[k] = FieldSum(objs, at, k, f[1], g[k - 1])
<1> DEFINE n == Len(objs)
           seq == [k \in DOMAIN objs |-> k]
           a == f[1]
<1>1. n \in Nat /\ DOMAIN objs = 1..n
  BY LenProperties DEF Loading
<1>2. seq \in [1..n -> 1..n] /\ \A k \in 1..n : seq[k] = k
  BY <1>1
<1>3. seq \in Seq(1..n) /\ Len(seq) = n
  <2>1. PICK m \in Nat : m = n
    BY <1>1
  <2> HIDE DEF seq, n
  <2> QED BY <1>2, <2>1, SeqDef
<1>4. ASSUME NEW s \in Int, NEW l \in 1..n PROVE FileSum(objs, at, l, a, s, objs[l].M) \in Int
  <2>1. f = <<f[1], f[2]>> /\ a \in Int /\ f[2] \in {5, 6}
        /\ \A g \in FieldsOfFile(objs, at, l) : g = f \/ g[1] + 3 <= a \/ a + 3 <= g[1]
    BY FieldsApart
  <2>2. /\ h[l - 1] \in PassStates /\ h[l - 1].ok /\ h[l - 1].estab = FullTable(objs, at)
        /\ AfterFile(objs, at, l, h[l - 1]).ok
    BY PassOn
  <2>3. PICK half \in {5, 6} : half = f[2]
    BY <2>1
  <2>4. \A g \in FieldsOfFile(objs, at, l) : g = <<a, half>> \/ g[1] + 3 <= a \/ a + 3 <= g[1]
    BY <2>1, <2>3
  <2> HIDE DEF a
  <2>5. FieldSum(objs, at, l, a, s) \in Int
    BY <2>1, <2>2, <2>4, FileField
  <2> QED BY <2>5 DEF FieldSum
<1>5. FilesSummable(Int, 1..n, objs, at, a, seq)
  <2> HIDE DEF seq, n, a
  <2> QED BY <1>3, <1>4 DEF FilesSummable
<1>6. Sum(objs, at, a) = FileSums(objs, at, a, seq)
  BY DEF Sum, FileSums
<1>7. PICK g \in [0..n -> Int] : FileSumsChain(objs, at, a, g, seq) /\ FileSums(objs, at, a, seq) = g[n]
  <2> HIDE DEF seq
  <2>1. \E g \in [0..Len(seq) -> Int] :
           FileSumsChain(objs, at, a, g, seq) /\ FileSums(objs, at, a, seq) = g[Len(seq)]
    BY <1>5, FileSumsFold
  <2> QED BY <1>3, <2>1
<1>8. g[0] = 0 /\ \A k \in 1..n : g[k] = FieldSum(objs, at, k, a, g[k - 1])
  <2>1. g[0] = 0 /\ \A k \in 1..n : g[k] = FileSum(objs, at, seq[k], a, g[k - 1], objs[seq[k]].M)
    <3> HIDE DEF seq
    <3> QED BY <1>3, <1>7 DEF FileSumsChain
  <2> HIDE DEF seq
  <2> QED BY <1>2, <2>1 DEF FieldSum
<1> HIDE DEF seq
<1> QED BY <1>6, <1>7, <1>8

\* Every field shows its texts raised by its sum.
LEMMA FieldLinked ==
  ASSUME NEW objs, NEW at, Loading(objs, at), Exact(objs), Apart(objs, at), NEW h, memory \in Memories,
         PassChain(objs, at, memory, h), h[Len(objs)].ok, NEW f \in FieldsIn(objs, at)
  PROVE  LET w == 65536 * TextAt(objs, at, f[1]) + 256 * TextAt(objs, at, f[1] + 1)
                + TextAt(objs, at, f[1] + 2)
         IN (Word(h[Len(objs)].mem, f[1]) - w - Sum(objs, at, f[1])) % 2^(4 * f[2]) = 0
<1> DEFINE n == Len(objs)
<1>1. n \in Nat /\ objs \in Seq(ObjectFile) /\ DOMAIN objs = 1..n
  <2>1. \A o \in ObjectPrograms : o \in ObjectFile
    BY DEF ObjectPrograms
  <2> QED BY <2>1, LenProperties DEF Loading
<1>2. PICK g \in [0..n -> Int] :
           /\ g[0] = 0 /\ Sum(objs, at, f[1]) = g[n]
           /\ \A k \in 1..n : g[k] = FieldSum(objs, at, k, f[1], g[k - 1])
  BY SumRuns
<1>3. PICK a \in Int, half \in {5, 6} : f = <<a, half>> /\ f[1] = a /\ f[2] = half
  <2>1. PICK k \in 1..n : f \in FieldsOfFile(objs, at, k)
    BY <1>1 DEF FieldsIn
  <2>2. f = <<f[1], f[2]>> /\ f[1] \in Int /\ f[2] \in {5, 6}
    BY <2>1, FieldOf
  <2> QED BY <2>2
<1> DEFINE Good == {k \in 0..n : FieldInv(objs, at, k, a, half, memory, h[k].mem, g[k])}
<1>4. 0 \in Good
  <2>1. \A i \in 1..0 : FALSE
    OBVIOUS
  <2>2. h[0].mem = memory
    BY DEF PassChain
  <2>3. \A b, v : ImageShows(objs, at, 0, b, v, v)
    BY <2>1 DEF ImageShows
  <2>4. Peek(memory, a) \in Int /\ Peek(memory, a + 1) \in Int /\ Peek(memory, a + 2) \in Int
    BY PeekType
  <2>5. Multiple(Word(memory, a) - Triple(Peek(memory, a), Peek(memory, a + 1), Peek(memory, a + 2)) - 0, half)
    <3>1. Word(memory, a) = Triple(Peek(memory, a), Peek(memory, a + 1), Peek(memory, a + 2)) /\ Word(memory, a) \in Int
      BY WordType DEF Word, Triple
    <3>2. Word(memory, a) - Triple(Peek(memory, a), Peek(memory, a + 1), Peek(memory, a + 2)) - 0 = 0
      BY <3>1
    <3>3. Multiple(0, half)
      BY MultipleZero
    <3> QED BY <3>2, <3>3
  <2>6. FieldShown(objs, at, 0, a, half, memory, memory, 0)
    BY <2>3, <2>4, <2>5 DEF FieldShown
  <2>7. FieldInv(objs, at, 0, a, half, memory, memory, 0)
    BY <2>3, <2>6 DEF FieldInv, CellShown
  <2> QED BY <1>1, <1>2, <2>2, <2>7
<1>5. ASSUME NEW k \in 1..n, k - 1 \in Good PROVE k \in Good
  <2>1. k \in 0..n
    BY <1>1
  <2>2. /\ h[k - 1] \in PassStates /\ h[k - 1].ok /\ h[k - 1].estab = FullTable(objs, at)
        /\ AfterFile(objs, at, k, h[k - 1]).ok /\ h[k] = AfterFile(objs, at, k, h[k - 1])
    BY PassOn
  <2>3. FieldInv(objs, at, k - 1, a, half, memory, h[k - 1].mem, g[k - 1])
    BY <1>5
  <2>4. g[k] = FieldSum(objs, at, k, a, g[k - 1])
    BY <1>2, <1>3
  <2>5. <<a, half>> \in FieldsIn(objs, at)
    BY <1>3
  <2>6. FieldInv(objs, at, k, a, half, memory, AfterFile(objs, at, k, h[k - 1]).mem,
                 FieldSum(objs, at, k, a, g[k - 1]))
    <3> HIDE DEF Good
    <3>1. PICK s \in PassStates : s = h[k - 1]
      BY <2>2
    <3>2. CASE <<a, half>> \in FieldsOfFile(objs, at, k)
      BY <2>2, <2>3, <2>5, <3>1, <3>2, FieldRaised
    <3>3. CASE <<a, half>> \notin FieldsOfFile(objs, at, k)
      BY <2>2, <2>3, <2>5, <3>1, <3>3, FieldPassed
    <3> QED BY <3>2, <3>3
  <2> QED BY <2>1, <2>2, <2>4, <2>6
<1> HIDE DEF Good
<1>6. \A k \in 0..n : k \in Good
  <2> HIDE DEF n
  <2> QED BY <1>1, <1>4, <1>5, Upwards
<1>7. FieldInv(objs, at, n, a, half, memory, h[n].mem, g[n])
  <2>1. n \in Good
    BY <1>1, <1>6
  <2> QED BY <2>1 DEF Good
<1>8. PICK p \in Int, q \in Int, r \in Int :
    /\ ImageShows(objs, at, n, a, Peek(memory, a), p)
    /\ ImageShows(objs, at, n, a + 1, Peek(memory, a + 1), q)
    /\ ImageShows(objs, at, n, a + 2, Peek(memory, a + 2), r)
    /\ Multiple(Word(h[n].mem, a) - Triple(p, q, r) - g[n], half)
  BY <1>7 DEF FieldInv, FieldShown
<1>9. p = TextAt(objs, at, a) /\ q = TextAt(objs, at, a + 1) /\ r = TextAt(objs, at, a + 2)
  BY <1>1, <1>8, ShowsText
<1>10. Word(h[n].mem, a) \in Int
  BY <1>7, WordType DEF FieldInv
<1>11. PICK x \in Int : x = Word(h[n].mem, a) - Triple(p, q, r) - g[n]
  <2>1. n \in 0..n
    BY <1>1
  <2> QED BY <1>10, <2>1 DEF Triple
<1>12. x % 2^(4 * half) = 0
  BY <1>8, <1>11, MultipleMeans
<1>13. Triple(p, q, r) = 65536 * TextAt(objs, at, a) + 256 * TextAt(objs, at, a + 1) + TextAt(objs, at, a + 2)
  BY <1>9 DEF Triple
<1> QED BY <1>2, <1>3, <1>11, <1>12, <1>13

\* The table counts the lengths that the files have.
LEMMA LengthsAgree ==
  ASSUME NEW objs \in Seq(ObjectFile), NEW at \in Int
  PROVE  /\ SectionLengths(Table(objs, at, Len(objs))) = SectionAt(objs, Len(objs) + 1, 0)
         /\ SectionAt(objs, Len(objs) + 1, 0) \in Int
<1> DEFINE n == Len(objs)
           tab == Table(objs, at, n)
<1>1. n \in Nat /\ n \in 0..n
  BY LenProperties
<1>2. tab \in Seq(FileEntry) /\ Len(tab) = n /\ \A i \in 1..n : tab[i].length = objs[i].length
  <2>1. /\ tab \in Seq(FileEntry) /\ Len(tab) = n
        /\ \A i \in 1..n : tab[i] = EntryOf(objs, at, i, Len(objs[i].D))
    BY <1>1, TableType
  <2>2. \A i \in 1..n : EntryOf(objs, at, i, Len(objs[i].D)).length = objs[i].length
    BY DEF EntryOf
  <2> HIDE DEF tab
  <2>3. \A i \in 1..n : tab[i].length = objs[i].length
    BY Zenon, <2>1, <2>2
  <2> QED BY <2>1, <2>3
<1>3. (\A o \in ObjectFile : o.length \in Nat) /\ (\A e \in FileEntry : e.length \in Nat)
  BY ObjectParts DEF FileEntry
<1>4. PICK g \in [0..n -> Nat] :
        /\ g[0] = 0 /\ \A i \in 1..n : g[i] = g[i - 1] + objs[i].length
        /\ \A k \in 0..n : SectionLengths(SubSeq(objs, 1, k)) = g[k]
  BY <1>3, SectionSums
<1> HIDE DEF tab
<1>5. PICK h \in [0..n -> Nat] :
        /\ h[0] = 0 /\ \A i \in 1..n : h[i] = h[i - 1] + tab[i].length
        /\ \A k \in 0..n : SectionLengths(SubSeq(tab, 1, k)) = h[k]
  <2>1. \E h \in [0..Len(tab) -> Nat] :
        /\ h[0] = 0 /\ \A i \in 1..Len(tab) : h[i] = h[i - 1] + tab[i].length
        /\ \A k \in 0..Len(tab) : SectionLengths(SubSeq(tab, 1, k)) = h[k]
    BY <1>2, <1>3, SectionSums
  <2> QED BY <1>2, <2>1
<1>6. n \in {i \in 0..n : h[i] = g[i]}
  <2> DEFINE Good == {i \in 0..n : h[i] = g[i]}
  <2>1. 0 \in Good
    BY <1>1, <1>4, <1>5
  <2>2. ASSUME NEW i \in 1..n, i - 1 \in Good PROVE i \in Good
    <3>1. i \in 0..n
      BY <1>1
    <3> QED BY <1>2, <1>4, <1>5, <2>2, <3>1
  <2>3. \A i \in 0..n : i \in Good
    <3> HIDE DEF Good, n
    <3> QED BY <1>1, <2>1, <2>2, Upwards
  <2> QED BY <1>1, <2>3
<1>7. SubSeq(tab, 1, n) = tab
  <2>1. tab \in [1..n -> FileEntry]
    BY <1>2, LenProperties
  <2> QED BY <1>1, <1>2, <2>1
<1>8. SectionLengths(tab) = h[n]
  BY <1>1, <1>5, <1>7
<1>9. SectionAt(objs, n + 1, 0) = g[n]
  <2>1. SectionAt(objs, n + 1, 0) = 0 + SectionLengths(SubSeq(objs, 1, (n + 1) - 1))
    BY DEF SectionAt, SectionLengths
  <2>2. (n + 1) - 1 = n
    BY <1>1
  <2>3. SectionAt(objs, n + 1, 0) = 0 + g[n]
    BY <1>1, <1>4, <2>1, <2>2
  <2> QED BY <1>1, <2>3
<1>10. h[n] = g[n] /\ g[n] \in Int
  BY <1>1, <1>6
<1> QED BY <1>8, <1>9, <1>10 DEF tab

\* Linking goes well if and only if there is a program to link.
LEMMA LinkableMeans ==
  ASSUME NEW objs \in Seq(ObjectPrograms), NEW at \in Nat
  PROVE  Linkable(objs, at) <=> LoaderPass1(objs, at).ok /\ \A k \in 1..Len(objs) : Named(objs, at, k)
<1>1. objs \in Seq(ObjectFile) /\ DOMAIN objs = 1..Len(objs)
  <2>1. \A o \in ObjectPrograms : o \in ObjectFile
    BY DEF ObjectPrograms
  <2> QED BY <2>1, LenProperties
<1>2. Unique(objs, at) <=> LoaderPass1(objs, at).ok
  BY <1>1, NamesAccepted, LoaderPass1Result
<1>3. Linkable(objs, at) <=> Unique(objs, at) /\ \A k \in DOMAIN objs : Named(objs, at, k)
  BY DEF Linkable, Unique, Named
<1> QED BY <1>1, <1>2, <1>3

\* What pass 2 leaves, in the terms of LoadsOrLeaves.
LEMMA Linked ==
  ASSUME NEW objs \in Seq(ObjectPrograms), NEW at \in Nat, memory \in Memories,
         LoaderPass1(objs, at).ok, Signed(objs)
  PROVE  LET p == LoaderPass1(objs, at)
             q == LoaderPass2(objs, at, p.estab, memory)
         IN  /\ q.ok <=> Linkable(objs, at)
             /\ q \in PassStates
             /\ SectionLengths(p.estab) = SectionAt(objs, Len(objs) + 1, 0)
             /\ q.ok => /\ q.execaddr = StartOf(objs, at)
                        /\ Exact(objs) /\ Apart(objs, at) /\ memory' = q.mem => ImageLinked(objs, at)
<1> DEFINE n == Len(objs)
           p == LoaderPass1(objs, at)
           q == LoaderPass2(objs, at, p.estab, memory)
<1>1. objs \in Seq(ObjectFile) /\ DOMAIN objs = 1..n /\ n \in Nat /\ n \in 0..n /\ at \in Int
  <2>1. \A o \in ObjectPrograms : o \in ObjectFile
    BY DEF ObjectPrograms
  <2> QED BY <2>1, LenProperties
<1>2. p.estab = FullTable(objs, at) /\ \A k \in 1..n : Accepted(objs, k)
  BY <1>1, LoaderPass1Result DEF FullTable
<1>3. Loading(objs, at)
  <2>1. \A k \in 1..n : SignedFile(objs[k])
    BY <1>1 DEF Signed, SignedFile
  <2> QED BY <1>2, <2>1 DEF Loading
<1>4. PICK h : /\ PassChain(objs, at, memory, h)
               /\ LoaderPass2(objs, at, FullTable(objs, at), memory) = h[n]
  BY <1>3, LoaderPass2Runs
<1>5. q = h[n]
  BY <1>2, <1>4
<1> HIDE DEF p, q
<1>6. /\ h[n].ok <=> \A i \in 1..n : Named(objs, at, i)
      /\ h[n].ok => Started(objs, at, n, h[n].execaddr)
  BY <1>1, <1>3, <1>4, PassResult
<1>7. q.ok <=> Linkable(objs, at)
  BY <1>5, <1>6, LinkableMeans
<1>8. q \in PassStates
  BY <1>1, <1>4, <1>5 DEF PassChain
<1>9. SectionLengths(p.estab) = SectionAt(objs, n + 1, 0)
  BY <1>1, <1>2, LengthsAgree DEF FullTable
<1>10. ASSUME q.ok PROVE q.execaddr = StartOf(objs, at)
  BY <1>1, <1>5, <1>6, <1>10, StartedIs
<1>11. ASSUME q.ok, Exact(objs), Apart(objs, at), memory' = q.mem PROVE ImageLinked(objs, at)
  <2>1. ASSUME NEW a \in (DOMAIN memory \cup DOMAIN memory')
                           \ UNION {f[1] .. f[1] + 2 : f \in FieldsIn(objs, at)}
        PROVE  Peek(memory', a) = TextAt(objs, at, a)
    <3>1. a \in Int
      BY <1>8, <1>11 DEF PassStates, Memories
    <3>2. \A f \in FieldsIn(objs, at) : ~Touches(f, a)
      BY DEF Touches
    <3> QED BY <1>3, <1>4, <1>5, <1>11, <3>1, <3>2, CellLinked
  <2>2. ASSUME NEW f \in FieldsIn(objs, at)
        PROVE  LET w == 65536 * TextAt(objs, at, f[1]) + 256 * TextAt(objs, at, f[1] + 1)
                + TextAt(objs, at, f[1] + 2)
               IN (Word(memory', f[1]) - w - Sum(objs, at, f[1])) % 2^(4 * f[2]) = 0
    <3>1. LET w == 65536 * TextAt(objs, at, f[1]) + 256 * TextAt(objs, at, f[1] + 1)
                + TextAt(objs, at, f[1] + 2)
          IN (Word(h[n].mem, f[1]) - w - Sum(objs, at, f[1])) % 2^(4 * f[2]) = 0
      BY <1>3, <1>4, <1>5, <1>11, FieldLinked
    <3> QED BY <1>5, <1>11, <3>1
  <2> QED BY <2>1, <2>2 DEF ImageLinked
<1> QED BY <1>7, <1>8, <1>9, <1>10, <1>11 DEF p, q

\* Six digits are a natural number.
LEMMA SixColumnsType ==
  ASSUME NEW n \in Int
  PROVE  SixColumns(n) \in Nat
<1>6. PICK p \in Nat : p = 2^24
  <2>1. 2^24 = 16777216
    BY SMT
  <2> QED BY SMT, <2>1
<1>1. p = 2^24 /\ p = 16777216
  <2>1. 2^24 = 16777216
    BY SMT
  <2> QED BY SMT, <1>6, <2>1
<1>5. PICK r \in Nat : r = 2^28
  <2>1. 2^28 = 268435456
    BY SMT
  <2> QED BY SMT, <2>1
<1>2. CASE n \in 0 .. 2^24 - 1
  BY SMT, <1>1, <1>2 DEF SixColumns
<1>3. CASE n \notin 0 .. 2^24 - 1 /\ n \in 2^24 .. 2^28 - 1
  <2>1. SixColumns(n) = n \div 16
    BY <1>3 DEF SixColumns
  <2>2. n >= p
    <3>1. n \in p .. r - 1
      BY Zenon, <1>6, <1>3, <1>5
    <3> QED BY <3>1
  <2>3. n \in Nat
    BY SMT, <1>1, <2>2
  <2> QED BY SMT, <2>1, <2>3
<1>4. CASE n \notin 0 .. 2^24 - 1 /\ n \notin 2^24 .. 2^28 - 1
  <2>1. SixColumns(n) = (n \div 256) % 2^24
    BY <1>4 DEF SixColumns
  <2>2. SixColumns(n) = (n \div 256) % 16777216
    BY SMT, <1>1, <2>1
  <2> QED BY SMT, <2>2
<1> QED BY Zenon, <1>2, <1>3, <1>4

\* An object program by its parts.
LEMMA RecordOf ==
  ASSUME NEW N \in Strings, NEW L \in Nat, NEW D \in Seq([sym: Strings, addr: Nat]),
         NEW R \in Seq([ref: Nat, sym: Strings]), NEW T \in Seq(Text), NEW M \in Seq(Modification),
         NEW E \in Int
  PROVE  [name |-> N, length |-> L, D |-> D, R |-> R, T |-> T, M |-> M, E |-> E] \in ObjectFile
BY DEF ObjectFile, Text, Modification

\* A function on 1..n is a sequence.
LEMMA MadeSeq ==
  ASSUME NEW S, NEW n \in Nat, NEW f \in [1..n -> S]
  PROVE  f \in Seq(S) /\ Len(f) = n
BY SeqDef

\* What assemble leaves is an object program.
LEMMA OwnProgram ==
  ASSUME NEW src \in Sources, Assembled(src).ok
  PROVE  ObjectOf(Assembled(src)) \in ObjectPrograms
<1> DEFINE a == Assembled(src)
           o == ObjectOf(a)
<1>1. PICK h, off : Assembly(a, h, off)
  BY Assembles
<1> HIDE DEF a
<1>2. /\ a.M \in Seq(Int) /\ a.E \in Int /\ a.length \in Int /\ a.T = TextRecords(h[Len(a.out) - off].text)
      /\ h[Len(a.out) - off] \in Pass2States(a.symtab)
  <2>1. Len(a.out) - off \in 0..Len(a.out) - off
    <3>1. Len(a.out) \in Nat /\ Len(a.out) >= 1 /\ off \in 0..1
      BY <1>1, LenProperties DEF Assembly, Consecutive, Lists
    <3> QED BY <3>1
  <2> QED BY <1>1, <2>1 DEF Assembly
<1>3. a.T \in Seq(Text)
  <2> DEFINE t == h[Len(a.out) - off].text
             last == [loc |-> t.loc, length |-> t.length, body |-> t.body]
             w == t.written
  <2>1. t \in Texts
    BY <1>2 DEF Pass2States
  <2>2. w \in Seq(Text) /\ last \in Text
    BY <2>1 DEF Texts, Text, Codes
  <2>3. a.T = Append(w, last)
    BY <1>2 DEF TextRecords
  <2> HIDE DEF w, last
  <2> QED BY <2>2, <2>3
<1>4. Len(a.M) \in Nat /\ DOMAIN a.M = 1..Len(a.M) /\ \A j \in 1..Len(a.M) : a.M[j] \in Int
  BY <1>2, LenProperties, ElementOfSeq
<1> DEFINE M == [j \in DOMAIN a.M |-> [loc |-> SixColumns(a.M[j]), half |-> 5, sign |-> "none", ref |-> 1]]
<1>5. M \in [1..Len(a.M) -> Modification]
  BY <1>4, SixColumnsType DEF Modification
<1>6. M \in Seq(Modification) /\ Len(M) = Len(a.M)
  <2> HIDE DEF M
  <2> QED BY <1>4, <1>5, MadeSeq
<1>7. \A m \in ToSet(M) : m.ref = 1
  <2>1. \A j \in 1..Len(a.M) : M[j].ref = 1
    BY <1>4
  <2> HIDE DEF M
  <2>2. \A m \in ToSet(M) : \E j \in 1..Len(M) : m = M[j]
    BY <1>6, Members
  <2> QED BY <1>6, <2>1, <2>2
<1>8. o = [name |-> "OWN", length |-> SixColumns(a.length), D |-> <<>>, R |-> <<>>, T |-> a.T,
           M |-> M, E |-> SixColumns(a.E)]
  BY Zenon DEF ObjectOf
<1>9. SixColumns(a.length) \in Nat /\ SixColumns(a.E) \in Int
  <2>1. \A n \in Int : SixColumns(n) \in Nat
    BY Zenon, SixColumnsType
  <2>2. SixColumns(a.length) \in Nat /\ SixColumns(a.E) \in Nat
    BY Zenon, <1>2, <2>1
  <2> QED BY <2>2
<1> HIDE DEF M, o
<1>10. o \in ObjectFile
  <2>1. <<>> \in Seq([sym: Strings, addr: Nat]) /\ <<>> \in Seq([ref: Nat, sym: Strings])
    OBVIOUS
  <2>2. "OWN" \in Strings
    BY Zenon DEF Strings
  <2> QED BY <1>3, <1>6, <1>8, <1>9, <2>1, <2>2, RecordOf
<1>11. o.R = <<>> /\ o.M = M
  BY <1>8
<1>12. DOMAIN o.R = {}
  BY <1>11
<1>13. o \in ObjectPrograms
  BY <1>7, <1>10, <1>11, <1>12 DEF ObjectPrograms
<1> QED BY <1>13 DEF o, a

\* Missing counts as one.
LEMMA NoProgram == Missing \in ObjectPrograms
<1>1. <<>> \in Seq([sym: Strings, addr: Nat]) /\ <<>> \in Seq([ref: Nat, sym: Strings])
      /\ <<>> \in Seq(Text) /\ <<>> \in Seq(Modification)
  OBVIOUS
<1>2. Missing \in ObjectFile
  <2>1. 0 \in Nat /\ NoEntry \in Int
    BY DEF NoEntry
  <2>2. "missing" \in Strings
    BY Zenon DEF Strings
  <2> QED BY <1>1, <2>1, <2>2, RecordOf DEF Missing
<1>3. DOMAIN Missing.R = {} /\ Missing.M = <<>>
  BY DEF Missing
<1>4. ToSet(Missing.M) = {}
  BY <1>3 DEF ToSet
<1> QED BY <1>2, <1>3, <1>4 DEF ObjectPrograms

\* So are all that the loader may be given.
LEMMA ProgramsGiven ==
  ASSUME own \in ObjectPrograms, NEW list \in LoadLists
  PROVE  ObjectsOf(list) \in Seq(ObjectPrograms)
<1>1. list \in Seq(STRING)
  BY ObjectsAssumption
<1>2. Len(list) \in Nat /\ DOMAIN list = 1..Len(list)
  BY <1>1, LenProperties
<1>3. \A f \in DOMAIN Objects : Objects[f] \in ObjectPrograms
  BY ObjectsAssumption DEF ObjectPrograms
<1>4. ObjectsOf(list) \in [1..Len(list) -> ObjectPrograms]
  BY <1>2, <1>3, NoProgram DEF ObjectsOf
<1>5. PICK n \in Nat : n = Len(list)
  BY <1>2
<1> QED BY <1>4, <1>5, SeqDef

\* Pass 2 leaves a memory and an address, wherever the program is loaded.
LEMMA LoaderPass2Type ==
  ASSUME NEW objs \in Seq(ObjectPrograms), NEW at \in Int, NEW mem \in Memories,
         LoaderPass1(objs, at).ok, Signed(objs)
  PROVE  /\ LoaderPass2(objs, at, LoaderPass1(objs, at).estab, mem) \in PassStates
         /\ SectionLengths(LoaderPass1(objs, at).estab) \in Int
<1> DEFINE n == Len(objs)
           tab == Table(objs, at, n)
           base == [ok |-> TRUE, mem |-> mem, estab |-> tab, csaddr |-> at, execaddr |-> at,
                    r |-> <<>>, buffer |-> <<>>]
           L == {FileOf(objs[k], tab[k]) : k \in 1..n}
           seq == [k \in DOMAIN objs |-> [obj |-> objs[k], est |-> tab[k]]]
<1>1. n \in Nat /\ n \in 0..n /\ DOMAIN objs = 1..n /\ objs \in Seq(ObjectFile)
  <2>1. \A o \in ObjectPrograms : o \in ObjectFile
    BY DEF ObjectPrograms
  <2> QED BY <2>1, LenProperties
<1>2. LoaderPass1(objs, at).estab = tab
  BY <1>1, LoaderPass1Result
<1>3. tab \in Seq(FileEntry) /\ Len(tab) = n
  BY <1>1, TableType
<1>4. SectionLengths(tab) \in Int
  BY <1>1, LengthsAgree
<1>5. base \in PassStates
  <2>1. <<>> \in [{} -> [sym: Strings, used_flag: Int]]
    OBVIOUS
  <2>2. <<>> \in RefTables
    BY <2>1 DEF RefTables
  <2>3. <<>> \in Seq(Int)
    OBVIOUS
  <2> HIDE DEF tab
  <2> QED BY <1>3, <2>2, <2>3 DEF PassStates
<1>6. seq \in [1..n -> L] /\ \A k \in 1..n : seq[k] = FileOf(objs[k], tab[k])
  BY <1>1 DEF FileOf
<1>7. seq \in Seq(L)
  <2> HIDE DEF seq, L, tab
  <2>1. PICK m \in Nat : m = n
    BY <1>1
  <2> QED BY <1>6, <2>1, SeqDef
<1>8. ASSUME NEW s \in PassStates, NEW l \in L PROVE Pass2File(s, l) \in PassStates
  <2>1. PICK k \in 1..n : l = FileOf(objs[k], tab[k])
    OBVIOUS
  <2>2. SignedFile(objs[k])
    BY <1>1 DEF Signed, SignedFile
  <2> HIDE DEF tab
  <2>3. objs[k] \in ObjectPrograms /\ tab[k] \in FileEntry
    BY <1>3, ElementOfSeq
  <2> QED BY <2>1, <2>2, <2>3, FilePassed
<1>9. LoaderPass2(objs, at, tab, mem) = Pass2FileRun(base, seq)
  BY DEF LoaderPass2, Pass2FileRun
<1>10. Pass2FileRun(base, seq) \in PassStates
  <2>1. \A s \in PassStates, l \in L : Pass2File(s, l) \in PassStates
    BY <1>8
  <2> HIDE DEF base, seq, L
  <2>2. \E h \in [0..Len(seq) -> PassStates] :
           Pass2FileChain(h, base, seq) /\ Pass2FileRun(base, seq) = h[Len(seq)]
    BY <1>5, <1>7, <2>1, Pass2FileFold
  <2>3. Len(seq) \in 0..Len(seq)
    BY <1>7, LenProperties
  <2> HIDE DEF base, seq
  <2> QED BY <2>2, <2>3
<1> HIDE DEF tab, base, seq
<1> QED BY <1>2, <1>4, <1>9, <1>10
-----------------------------------------------------------------------------
(* The machine.                                                            *)

Registers == [A: Int, X: Int, L: Int, PC: Int, B: Int, S: Int, T: Int]

\* The type of the machine, with what the loader relies on.
Machine ==
  /\ memory \in Memories /\ reg \in Registers /\ own \in ObjectPrograms
  /\ start_progaddr \in Int /\ length \in Int /\ locctr \in Int

\* The registers before a run.
LEMMA IdleType ==
  ASSUME NEW L \in Int, NEW PC \in Int
  PROVE  Idle(L, PC) \in Registers
BY DEF Idle, Registers

\* Numbers 0 to 5 name registers.
LEMMA NamesGiven == \A k \in 0..5 : Names[k + 1] \in {"A", "X", "L", "B", "S", "T"}
<1>1. \A k \in 0..5 : k = 0 \/ k = 1 \/ k = 2 \/ k = 3 \/ k = 4 \/ k = 5
  OBVIOUS
<1>2. /\ Names[0 + 1] = "A" /\ Names[1 + 1] = "X" /\ Names[2 + 1] = "L" /\ Names[3 + 1] = "B"
      /\ Names[4 + 1] = "S" /\ Names[5 + 1] = "T"
  BY DEF Names
<1> QED BY <1>1, <1>2

\* A register set to a number.
LEMMA RegisterSet ==
  ASSUME NEW r \in Registers, NEW k \in {"A", "X", "L", "PC", "B", "S", "T"}, NEW v \in Int
  PROVE  [r EXCEPT ![k] = v] \in Registers /\ r[k] \in Int
BY DEF Registers

\* An instruction leaves registers and memory.
Effected(e) == e.reg \in Registers /\ e.mem \in Memories

\* So does what Effect is given.
LEMMA EffectType ==
  ASSUME NEW r \in Registers, NEW mem \in Memories, NEW cc
  PROVE  Effected(Effect(r, mem, cc))
BY DEF Effected, Effect

\* The registers one by one.
LEMMA RegisterParts ==
  ASSUME NEW r \in Registers
  PROVE  /\ r.A \in Int /\ r.X \in Int /\ r.L \in Int /\ r.PC \in Int /\ r.B \in Int
         /\ r.S \in Int /\ r.T \in Int
BY DEF Registers

\* An instruction without a defined effect.
LEMMA Untouched == Machine => Effected(NoEffect)
BY DEF Machine, Effected, NoEffect

\* CLEAR.
LEMMA Clears == Machine => Effected(Clear)
<1> DEFINE r == [reg EXCEPT !.PC = @ + 2]
           k == At(r.PC - 1) \div 16
           s == IF k \in 0 .. 5 THEN [r EXCEPT ![Names[k + 1]] = 0]
                ELSE IF k = 8 THEN [r EXCEPT !.PC = 0] ELSE r
<1> SUFFICES ASSUME Machine PROVE Effected(Clear)
  OBVIOUS
<1>1. reg \in Registers /\ memory \in Memories
  BY DEF Machine
<1>2. r \in Registers
  BY <1>1 DEF Registers
<1>3. Clear = Effect(s, memory, CC)
  BY DEF Clear
<1> HIDE DEF r, k
<1>4. s \in Registers
  <2>1. CASE k \in 0..5
    <3>1. Names[k + 1] \in {"A", "X", "L", "PC", "B", "S", "T"}
      BY <2>1, NamesGiven
    <3>2. s = [r EXCEPT ![Names[k + 1]] = 0]
      BY <2>1
    <3>3. PICK name \in {"A", "X", "L", "PC", "B", "S", "T"} : name = Names[k + 1]
      BY <3>1
    <3> QED BY <1>2, <3>2, <3>3, RegisterSet
  <2>2. CASE k \notin 0..5
    <3>1. [r EXCEPT !.PC = 0] \in Registers
      BY <1>2, RegisterSet
    <3> QED BY <1>2, <2>2, <3>1
  <2> QED BY <2>1, <2>2
<1> HIDE DEF s
<1> QED BY <1>1, <1>3, <1>4, EffectType

\* COMPR.
LEMMA Compares == Machine => Effected(Compr)
<1> DEFINE r == [reg EXCEPT !.PC = @ + 2]
           b == At(r.PC - 1)
           c == Compare(RegisterValue(r, b \div 16), RegisterValue(r, b % 16))
<1> SUFFICES ASSUME Machine PROVE Effected(Compr)
  OBVIOUS
<1>1. r \in Registers /\ memory \in Memories
  BY DEF Machine, Registers
<1>2. Compr = Effect(r, memory, c)
  BY DEF Compr
<1> HIDE DEF r, b, c
<1> QED BY <1>1, <1>2, EffectType

\* TIXR.
LEMMA Increments == Machine => Effected(Tixr)
<1> DEFINE r == [reg EXCEPT !.PC = @ + 2]
           v == RegisterValue(r, At(locctr + 1) \div 16)
           c == Compare(r.X + 1, v)
           s == [r EXCEPT !.X = @ + 1]
<1> SUFFICES ASSUME Machine PROVE Effected(Tixr)
  OBVIOUS
<1>1. r \in Registers /\ memory \in Memories
  BY DEF Machine, Registers
<1>2. Tixr = Effect(s, memory, c)
  BY DEF Tixr
<1>3. s \in Registers
  <2> HIDE DEF r
  <2> QED BY <1>1 DEF Registers
<1> HIDE DEF r, v, c, s
<1> QED BY <1>1, <1>2, <1>3, EffectType

\* The address of an operand is a number.
LEMMA AddressType ==
  ASSUME NEW f, NEW b1 \in Int, NEW b2 \in Int, NEW b3 \in Int, NEW PC \in Int, NEW B \in Int,
         NEW X \in Int
  PROVE  OperandAddress(f, b1, b2, b3, PC, B, X) \in Int
<1>1. Displacement(f, b1, b2, b3) \in Int
  BY SMT DEF Displacement
<1>2. (IF f.p THEN PC ELSE IF f.b THEN B ELSE 0) \in Int /\ (IF f.x THEN X ELSE 0) \in Int
  OBVIOUS
<1> DEFINE d == Displacement(f, b1, b2, b3)
           u == IF f.p THEN PC ELSE IF f.b THEN B ELSE 0
           v == IF f.x THEN X ELSE 0
<1>3. OperandAddress(f, b1, b2, b3, PC, B, X) = d + u + v
  BY DEF OperandAddress
<1>4. d \in Int /\ u \in Int /\ v \in Int
  BY <1>1, <1>2
<1> HIDE DEF d, u, v
<1> QED BY <1>3, <1>4

\* STA, STL, STX and STCH keep the type of the memory.
LEMMA WordsKept ==
  ASSUME NEW mem \in Memories, NEW a \in Int, NEW w \in Int
  PROVE  PokeWord(mem, a, w) \in Memories /\ Poke(mem, a, <<w % 256>>) \in Memories
<1>1. PokeWord(mem, a, w) \in Memories
  BY WordPoked
<1>2. w % 256 \in Int
  BY SMT
<1>3. <<w % 256>> \in Seq(Int)
  BY <1>2
<1>4. Poke(mem, a, <<w % 256>>) \in Memories
  BY <1>3, PeekPoke
<1> QED BY <1>1, <1>4

\* What the instructions of format 3 and 4 do to registers and memory.
WideEffects(r, m, loaded) ==
  {NoEffect}
  \cup {Effect([r EXCEPT !.PC = m], memory, CC), Effect([[r EXCEPT !.PC = m] EXCEPT !.L = r.PC], memory, CC),
        Effect([r EXCEPT !.A = loaded], memory, CC), Effect([r EXCEPT !.T = loaded], memory, CC),
        Effect([r EXCEPT !.B = m], memory, CC), Effect([r EXCEPT !.A = At(m)], memory, CC),
        Effect([r EXCEPT !.A = 0], memory, CC), Effect([r EXCEPT !.PC = r.L], memory, CC),
        Effect(r, PokeWord(memory, m, r.A), CC), Effect(r, Poke(memory, m, <<r.A % 256>>), CC),
        Effect(r, PokeWord(memory, m, r.L), CC), Effect(r, PokeWord(memory, m, r.X), CC)}
  \cup {Effect(r, memory, cc) : cc \in {CC, Compare(r.A, m), "<"}}

\* All of them keep the type.
LEMMA WideEffected ==
  ASSUME Machine, NEW r \in Registers, NEW m \in Int, NEW loaded \in Int
  PROVE  \A e \in WideEffects(r, m, loaded) : Effected(e)
<1>1. memory \in Memories /\ r.PC \in Int /\ r.A \in Int /\ r.L \in Int /\ r.X \in Int
  BY RegisterParts DEF Machine
<1>2. /\ [r EXCEPT !.PC = m] \in Registers /\ [[r EXCEPT !.PC = m] EXCEPT !.L = r.PC] \in Registers
      /\ [r EXCEPT !.A = loaded] \in Registers /\ [r EXCEPT !.T = loaded] \in Registers
      /\ [r EXCEPT !.B = m] \in Registers /\ [r EXCEPT !.A = 0] \in Registers
      /\ [r EXCEPT !.PC = r.L] \in Registers
  <2>1. [r EXCEPT !.PC = m] \in Registers
    BY DEF Registers
  <2>2. [[r EXCEPT !.PC = m] EXCEPT !.L = r.PC] \in Registers
    BY <1>1 DEF Registers
  <2>3. [r EXCEPT !.A = loaded] \in Registers /\ [r EXCEPT !.T = loaded] \in Registers
    BY DEF Registers
  <2>4. [r EXCEPT !.B = m] \in Registers /\ [r EXCEPT !.A = 0] \in Registers
    BY DEF Registers
  <2>5. [r EXCEPT !.PC = r.L] \in Registers
    BY <1>1 DEF Registers
  <2> QED BY <2>1, <2>2, <2>3, <2>4, <2>5
<1>3. [r EXCEPT !.A = At(m)] \in Registers
  <2>1. At(m) \in Int
    BY <1>1, PeekType DEF At
  <2> QED BY <2>1 DEF Registers
<1>4. /\ PokeWord(memory, m, r.A) \in Memories /\ PokeWord(memory, m, r.L) \in Memories
      /\ PokeWord(memory, m, r.X) \in Memories /\ Poke(memory, m, <<r.A % 256>>) \in Memories
  BY <1>1, WordsKept
<1>5. /\ Effected(Effect([r EXCEPT !.PC = m], memory, CC))
      /\ Effected(Effect([[r EXCEPT !.PC = m] EXCEPT !.L = r.PC], memory, CC))
      /\ Effected(Effect([r EXCEPT !.A = loaded], memory, CC))
      /\ Effected(Effect([r EXCEPT !.T = loaded], memory, CC))
      /\ Effected(Effect([r EXCEPT !.B = m], memory, CC))
      /\ Effected(Effect([r EXCEPT !.A = At(m)], memory, CC))
      /\ Effected(Effect([r EXCEPT !.A = 0], memory, CC))
      /\ Effected(Effect([r EXCEPT !.PC = r.L], memory, CC))
  BY <1>1, <1>2, <1>3, EffectType
<1>6. /\ Effected(Effect(r, PokeWord(memory, m, r.A), CC))
      /\ Effected(Effect(r, Poke(memory, m, <<r.A % 256>>), CC))
      /\ Effected(Effect(r, PokeWord(memory, m, r.L), CC))
      /\ Effected(Effect(r, PokeWord(memory, m, r.X), CC))
  BY <1>1, <1>4, EffectType
<1>7. \A cc : Effected(Effect(r, memory, cc))
  BY <1>1, EffectType
<1> QED BY Zenon, <1>5, <1>6, <1>7, Untouched DEF WideEffects

\* And these are all.
LEMMA Widely == ASSUME Machine, NEW opcode PROVE Effected(Wide(opcode))
<1> DEFINE op      == opcode - (opcode % 4)
           f       == FieldsOf(At(locctr), At(locctr + 1))
           r       == [reg EXCEPT !.PC = @ + (IF f.e THEN 4 ELSE 3)]
           address == OperandAddress(f, At(locctr + 1), At(locctr + 2), At(locctr + 3),
                                     r.PC, r.B, r.X)
           indirect == f.n /\ ~f.i
           m       == IF indirect THEN Word(memory, address) ELSE address
           loaded  == IF f.n THEN Word(memory, m) ELSE m
<1>1. r \in Registers
  BY DEF Machine, Registers
<1>2. memory \in Memories
  BY DEF Machine
<1>3. \A a : At(a) \in Int /\ Word(memory, a) \in Int
  BY <1>2, PeekType, WordType DEF At
<1>4. r.PC \in Int /\ r.B \in Int /\ r.X \in Int
  <2> HIDE DEF r
  <2> QED BY <1>1, RegisterParts
<1>5. address \in Int
  <2>1. At(locctr + 1) \in Int /\ At(locctr + 2) \in Int /\ At(locctr + 3) \in Int
    BY <1>3
  <2> HIDE DEF r, f
  <2> QED BY <1>4, <2>1, AddressType
<1>6. m \in Int
  <2> HIDE DEF address
  <2> QED BY <1>3, <1>5
<1>7. loaded \in Int
  <2> HIDE DEF m
  <2> QED BY <1>3, <1>6
<1>8. Wide(opcode) \in WideEffects(r, m, loaded)
  <2> DEFINE jump == [r EXCEPT !.PC = m]
             words == {12, 20, 16} \cup IF f.n /\ f.i THEN {0, 116} ELSE {}
             stuck == \/ UsesOperand(op, f, CC) /\ ~f.n /\ ~f.i
                      \/ indirect /\ ~Inside(address, 3)
                      \/ op \in words /\ ~Inside(m, 3)
                      \/ op \in {80, 84} /\ ~Inside(m, 1)
             does == CASE op = 40  -> Effect(r, memory, Compare(r.A, m))
             [] op = 60  -> Effect(jump, memory, CC)
             [] op = 48  -> Effect(IF CC = "=" THEN jump ELSE r, memory, CC)
             [] op = 56  -> Effect(IF CC = "<" THEN jump ELSE r, memory, CC)
             [] op = 72  -> Effect([jump EXCEPT !.L = r.PC], memory, CC)
             [] op = 0   -> Effect(IF f.i THEN [r EXCEPT !.A = loaded] ELSE r, memory, CC)
             [] op = 116 -> Effect(IF f.i THEN [r EXCEPT !.T = loaded] ELSE r, memory, CC)
             [] op = 104 -> Effect([r EXCEPT !.B = m], memory, CC)
             [] op = 80  -> Effect([r EXCEPT !.A = At(m)], memory, CC)
             [] op = 216 -> Effect([r EXCEPT !.A = 0], memory, CC)
             [] op = 76  -> Effect([r EXCEPT !.PC = r.L], memory, CC)
             [] op = 12  -> Effect(r, PokeWord(memory, m, r.A), CC)
             [] op = 84  -> Effect(r, Poke(memory, m, <<r.A % 256>>), CC)
             [] op = 20  -> Effect(r, PokeWord(memory, m, r.L), CC)
             [] op = 16  -> Effect(r, PokeWord(memory, m, r.X), CC)
             [] op = 224 -> Effect(r, memory, "<")
             [] OTHER    -> Effect(r, memory, CC)
  <2>1. Wide(opcode) = IF stuck THEN NoEffect ELSE does
    BY DEF Wide
  <2> HIDE DEF stuck, op, r, m, loaded, f
  <2>2. CASE stuck
    BY <2>1, <2>2 DEF WideEffects
  <2>3. does \in WideEffects(r, m, loaded)
    BY DEF WideEffects
  <2> HIDE DEF does
  <2> QED BY <2>1, <2>2, <2>3
<1> HIDE DEF r, m, loaded
<1> QED BY <1>1, <1>6, <1>7, <1>8, WideEffected

\* Every instruction keeps the type.
LEMMA Instructed == Machine => Effected(InstructionAtPC)
<1> SUFFICES ASSUME Machine PROVE Effected(InstructionAtPC)
  OBVIOUS
<1>1. InstructionAtPC \in {NoEffect, Clear, Compr, Tixr, Wide(At(reg.PC))}
  BY DEF InstructionAtPC
<1> QED BY <1>1, Untouched, Clears, Compares, Increments, Widely

\* assemble leaves an object program or none.
LEMMA AssembleKeeps ==
  ASSUME Machine, NEW src \in Sources, AssembleFile(src)
  PROVE  Machine'
<1>1. asm' = Assembled(src) /\ own' = (IF asm'.ok THEN ObjectOf(asm') ELSE Missing)
  BY DEF AssembleFile, Assemble
<1>2. own' \in ObjectPrograms
  <2>1. CASE Assembled(src).ok
    BY <1>1, <2>1, OwnProgram
  <2>2. CASE ~Assembled(src).ok
    BY <1>1, <2>2, NoProgram
  <2> QED BY <2>1, <2>2
<1>3. UNCHANGED machine
  BY DEF AssembleFile
<1> QED BY <1>2, <1>3 DEF machine, Machine

\* The program that is loaded, and what the two passes make of it.
LEMMA LoadKeeps ==
  ASSUME Machine, NEW list \in LoadLists, Load(list)
  PROVE  Machine'
<1> DEFINE objs  == ObjectsOf(list)
           p     == LoaderPass1(objs, start_progaddr)
           q     == LoaderPass2(objs, start_progaddr, p.estab, memory)
           total == SectionLengths(p.estab)
<1>1. /\ own' = own
      /\ \/ UNCHANGED machine
         \/ /\ p.ok /\ Signed(objs) /\ q.ok
            /\ memory' = q.mem /\ start_progaddr' = q.execaddr /\ reg' = Idle(total, q.execaddr)
            /\ length' = total /\ UNCHANGED <<CC, locctr>>
  BY Zenon DEF Load, machine, SectionLengths
<1>2. CASE UNCHANGED machine
  BY <1>1, <1>2 DEF machine, Machine
<1>3. CASE ~UNCHANGED machine
  <2>1. objs \in Seq(ObjectPrograms)
    BY ProgramsGiven DEF Machine
  <2>2. start_progaddr \in Int /\ memory \in Memories
    BY DEF Machine
  <2>3. p.ok /\ Signed(objs)
    BY <1>1, <1>3
  <2> HIDE DEF objs
  <2>4. q \in PassStates /\ total \in Int
    BY <2>1, <2>2, <2>3, LoaderPass2Type
  <2> HIDE DEF p, q, total
  <2>5. q.mem \in Memories /\ q.execaddr \in Int
    BY <2>4 DEF PassStates
  <2>6. Idle(total, q.execaddr) \in Registers
    BY <2>4, <2>5, IdleType
  <2> QED BY <1>1, <1>3, <2>4, <2>5, <2>6 DEF Machine
<1> QED BY <1>2, <1>3

\* edit and fill write numbers.
LEMMA FillKeeps ==
  ASSUME Machine, NEW start \in Cells, NEW end \in Cells, NEW v \in Values, Fill(start, end, v)
  PROVE  Machine'
<1> DEFINE bytes == [j \in 1 .. end - start + 1 |-> v]
<1>1. start \in Nat /\ end \in Nat /\ v \in Int /\ start <= end
  BY ObjectsAssumption DEF Fill
<1>2. PICK n \in Nat : n = end - start + 1
  BY <1>1
<1>3. bytes \in [1..n -> Int]
  BY <1>1, <1>2
<1>4. memory' = Poke(memory, start, bytes) /\ UNCHANGED <<own, start_progaddr, reg, locctr, length>>
  BY DEF Fill
<1> HIDE DEF bytes
<1>5. bytes \in Seq(Int)
  BY <1>3, SeqDef
<1>6. memory' \in Memories
  BY <1>1, <1>4, <1>5, PeekPoke DEF Machine
<1> QED BY <1>4, <1>6 DEF Machine

\* run writes numbers.
LEMMA StepKeeps == ASSUME Machine, Step PROVE Machine'
<1> DEFINE e == InstructionAtPC
<1>1. e.reg \in Registers /\ e.mem \in Memories
  BY Instructed DEF Effected
<1>2. /\ reg' = e.reg /\ memory' = e.mem
      /\ locctr' = IF e.defined THEN e.reg.PC ELSE locctr
      /\ UNCHANGED <<own, start_progaddr, length>>
  BY DEF Step
<1> HIDE DEF e
<1>3. e.reg.PC \in Int
  BY <1>1, RegisterParts
<1> QED BY <1>1, <1>2, <1>3 DEF Machine

\* The machine keeps its type: an object program with every reference it uses,
\* a memory of bytes, registers that hold numbers.
THEOREM MachineTyped == SimSpec => []Machine
<1>1. SimInit => Machine
  <2> SUFFICES ASSUME SimInit PROVE Machine
    OBVIOUS
  <2>1. <<>> \in [{} -> Int]
    OBVIOUS
  <2>2. <<>> \in Memories
    BY <2>1 DEF Memories
  <2> QED BY <2>2, NoProgram, IdleType DEF SimInit, Machine
<1>2. Machine /\ [SimNext]_simvars => Machine'
  <2> SUFFICES ASSUME Machine, [SimNext]_simvars PROVE Machine'
    OBVIOUS
  <2>1. ASSUME NEW src \in (IF commands = 0 THEN Sources ELSE Continued), AssembleFile(src)
        PROVE  Machine'
    <3>1. src \in Sources
      BY ContinuedAssumption
    <3> QED BY <2>1, <3>1, AssembleKeeps
  <2>2. ASSUME NEW list \in LoadLists, Load(list) PROVE Machine'
    BY <2>2, LoadKeeps
  <2>3. ASSUME NEW a \in Addresses, Progaddr(a) PROVE Machine'
    <3>1. a \in Int
      BY ObjectsAssumption
    <3> QED BY <2>3, <3>1 DEF Progaddr, Machine
  <2>4. ASSUME NEW a \in Addresses, Breakpoint(a) PROVE Machine'
    BY <2>4 DEF Breakpoint, machine, Machine
  <2>5. CASE BreakpointClear
    BY <2>5 DEF BreakpointClear, machine, Machine
  <2>6. CASE Reset
    <3>1. <<>> \in [{} -> Int]
      OBVIOUS
    <3>2. <<>> \in Memories
      BY <3>1 DEF Memories
    <3> QED BY <2>6, <3>2 DEF Reset, Machine
  <2>7. CASE Run
    BY <2>7 DEF Run, machine, Machine
  <2>8. ASSUME NEW a \in Cells, NEW b \in Cells, NEW v \in Values, Fill(a, b, v) PROVE Machine'
    BY <2>8, FillKeeps
  <2>9. CASE Step
    BY <2>9, StepKeeps
  <2>10. CASE EndProgram
    BY <2>10, IdleType DEF EndProgram, Machine
  <2>11. CASE UNCHANGED simvars
    BY <2>11 DEF simvars, Machine
  <2> QED BY <2>1, <2>2, <2>3, <2>4, <2>5, <2>6, <2>7, <2>8, <2>9, <2>10, <2>11 DEF SimNext
<1> QED BY <1>1, <1>2, PTL DEF SimSpec

\* One loader command.
LEMMA LoadLinks ==
  ASSUME Machine, NEW list \in LoadLists, Load(list), start_progaddr >= 0, mode' = mode
  PROVE  LET objs == ObjectsOf(list)
             at   == start_progaddr
         IN  IF ~Linkable(objs, at) THEN UNCHANGED machine
             ELSE /\ length' = SectionAt(objs, Len(objs) + 1, 0)
                  /\ start_progaddr' = StartOf(objs, at)
                  /\ reg' = Idle(length', start_progaddr')
                  /\ Exact(objs) /\ Apart(objs, at) => ImageLinked(objs, at)
<1> DEFINE objs  == ObjectsOf(list)
           at    == start_progaddr
           p     == LoaderPass1(objs, at)
           q     == LoaderPass2(objs, at, p.estab, memory)
           total == SectionLengths(p.estab)
<1>1. objs \in Seq(ObjectPrograms) /\ at \in Nat /\ memory \in Memories
  <2>1. at \in Nat
    BY DEF Machine
  <2> QED BY <2>1, ProgramsGiven DEF Machine
<1>2. mode' # "undefined"
  BY DEF Load, Command
<1>3. \/ ~p.ok /\ UNCHANGED machine
      \/ p.ok /\ Signed(objs) /\ ~q.ok /\ UNCHANGED machine
      \/ /\ p.ok /\ Signed(objs) /\ q.ok
         /\ memory' = q.mem /\ start_progaddr' = q.execaddr /\ reg' = Idle(total, q.execaddr)
         /\ length' = total
  BY Zenon, <1>2 DEF Load, machine, SectionLengths
<1> HIDE DEF objs
<1>4. CASE ~p.ok /\ UNCHANGED machine
  <2>1. ~Linkable(objs, at)
    BY <1>1, <1>4, LinkableMeans
  <2> QED BY <1>4, <2>1 DEF objs
<1>5. CASE p.ok /\ Signed(objs) /\ ~q.ok /\ UNCHANGED machine
  <2>1. ~Linkable(objs, at)
    BY <1>1, <1>5, Linked
  <2> QED BY <1>5, <2>1 DEF objs
<1>6. CASE /\ p.ok /\ Signed(objs) /\ q.ok
           /\ memory' = q.mem /\ start_progaddr' = q.execaddr /\ reg' = Idle(total, q.execaddr)
           /\ length' = total
  <2>1. /\ q.ok <=> Linkable(objs, at)
        /\ total = SectionAt(objs, Len(objs) + 1, 0)
        /\ q.ok => /\ q.execaddr = StartOf(objs, at)
                   /\ Exact(objs) /\ Apart(objs, at) /\ memory' = q.mem => ImageLinked(objs, at)
    BY <1>1, <1>6, Linked
  <2> HIDE DEF p, q, total
  <2>2. /\ Linkable(objs, at) /\ length' = SectionAt(objs, Len(objs) + 1, 0)
        /\ start_progaddr' = StartOf(objs, at) /\ reg' = Idle(length', start_progaddr')
        /\ Exact(objs) /\ Apart(objs, at) => ImageLinked(objs, at)
    BY <1>6, <2>1
  <2> QED BY Zenon, <2>2 DEF objs
<1> QED BY <1>3, <1>4, <1>5, <1>6

\* For every set of object programs, every list of them and every memory: what
\* loader leaves when each name is defined once is the image the files define
\* together, and when one is not it leaves the machine as it was, however far
\* pass 2 had got.
THEOREM LoaderLinks == SimSpec => LoadsOrLeaves
<1>1. ASSUME Machine, NEW list \in LoadLists
      PROVE  LET objs == ObjectsOf(list)
                 at   == start_progaddr
             IN  Load(list) /\ at >= 0 /\ mode' = mode =>
                   IF ~Linkable(objs, at) THEN UNCHANGED machine
                   ELSE /\ length' = SectionAt(objs, Len(objs) + 1, 0)
                        /\ start_progaddr' = StartOf(objs, at)
                        /\ reg' = Idle(length', start_progaddr')
                        /\ Exact(objs) /\ Apart(objs, at) => ImageLinked(objs, at)
  BY Zenon, <1>1, LoadLinks
<1> DEFINE LinksNow ==
      \A list \in LoadLists :
        LET objs == ObjectsOf(list)
            at   == start_progaddr
        IN  Load(list) /\ at >= 0 /\ mode' = mode =>
              IF ~Linkable(objs, at) THEN UNCHANGED machine
              ELSE /\ length' = SectionAt(objs, Len(objs) + 1, 0)
                   /\ start_progaddr' = StartOf(objs, at)
                   /\ reg' = Idle(length', start_progaddr')
                   /\ Exact(objs) /\ Apart(objs, at) => ImageLinked(objs, at)
<1>2. Machine => LinksNow
  BY Zenon, <1>1
<1>3. LoadsOrLeaves <=> [][LinksNow]_simvars
  BY DEF LoadsOrLeaves
<1> HIDE DEF LinksNow
<1> QED BY <1>2, <1>3, MachineTyped, PTL
=============================================================================
