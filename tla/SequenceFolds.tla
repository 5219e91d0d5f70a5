---------------------------- MODULE SequenceFolds ----------------------------
(***************************************************************************)
(* What FoldLeft of SequencesExt computes, for a step given as a constant  *)
(* operator.  FoldLeft is a recursive function on the subsets of a         *)
(* sequence's domain, whose largest index it takes off; that there is such *)
(* a function, and that it takes the elements one by one from the left,    *)
(* needs induction over the length.  The library's induction theorems take *)
(* an operator the provers cannot instantiate, so induction is had here    *)
(* from the well-foundedness of < on Nat, for the members of a set.        *)
(*                                                                         *)
(* A module that folds with an operator Op has                             *)
(*    I == INSTANCE SequenceFolds WITH Step <- Op                          *)
(* and FoldLeft(Op, b, s) = I!Folded(b, s) by the definitions.             *)
(***************************************************************************)
EXTENDS Naturals, SequenceTheorems, WellFoundedInduction, TLAPS

CONSTANT Step(_, _)

\* SequencesExt!FoldLeft(Step, b, s), its definition expanded.
TopOf(T) == CHOOSE x \in T : \A y \in T : x >= y
Folds(b, s, g) ==
  g = [T \in SUBSET DOMAIN s |-> IF T = {} THEN b ELSE Step(g[T \ {TopOf(T)}], s[TopOf(T)])]
Upto(b, s, m, g) ==
  g = [T \in SUBSET (1..m) |-> IF T = {} THEN b ELSE Step(g[T \ {TopOf(T)}], s[TopOf(T)])]
Folded(b, s) == (CHOOSE g : Folds(b, s, g))[DOMAIN s]

-----------------------------------------------------------------------------
(* Induction.                                                              *)

\* Every nonempty set of naturals has a least element.
LEMMA LeastNatural ==
  ASSUME NEW T, T \subseteq Nat, T # {}
  PROVE  \E n \in T : \A m \in T : n <= m
<1> DEFINE R == {ss \in Nat \X Nat : ss[1] < ss[2]}
<1>1. IsWellFoundedOn(R, Nat)
  BY NatLessThanWellFounded DEF OpToRel
<1> HIDE DEF R
<1>2. PICK x \in T : \A y \in T : ~ (<<y, x>> \in R)
  BY <1>1, WFMin
<1>3. ASSUME NEW y \in T PROVE ~ (y < x)
  BY <1>2 DEF R
<1> QED BY <1>3

\* A set that has 0 and the successors of its members has every natural number.
THEOREM Inductive ==
  ASSUME NEW S, 0 \in S, \A n \in Nat : n \in S => n + 1 \in S
  PROVE  Nat \subseteq S
<1>1. SUFFICES ASSUME Nat \ S # {} PROVE FALSE
  OBVIOUS
<1>2. PICK n \in Nat \ S : \A m \in Nat \ S : n <= m
  BY <1>1, LeastNatural
<1>3. n # 0 /\ n - 1 \in Nat /\ n - 1 \in S
  BY <1>2
<1> QED BY <1>3, <1>2

\* A set that has the empty sequence and every extension by one of its members has
\* every sequence.
THEOREM InductiveSeq ==
  ASSUME NEW R, NEW S, <<>> \in S,
         \A s \in Seq(R), e \in R : s \in S => Append(s, e) \in S
  PROVE  Seq(R) \subseteq S
<1> DEFINE N == {n \in Nat : \A s \in Seq(R) : Len(s) = n => s \in S}
<1>1. 0 \in N
  <2>1. \A s \in Seq(R) : Len(s) = 0 => s = <<>> OBVIOUS
  <2> QED BY <2>1
<1>2. ASSUME NEW n \in Nat, n \in N PROVE n + 1 \in N
  <2>1. SUFFICES ASSUME NEW s \in Seq(R), Len(s) = n + 1 PROVE s \in S
    OBVIOUS
  <2>2. s # <<>> BY <2>1
  <2>3. PICK t \in Seq(R), e \in R : s = Append(t, e)
    BY <2>2, SequenceEmptyOrAppend
  <2>4. Len(t) = n BY <2>1, <2>3
  <2>5. t \in S BY <1>2, <2>4
  <2> QED BY <2>3, <2>5
<1> HIDE DEF N
<1>3. Nat \subseteq N BY <1>1, <1>2, Inductive
<1> QED BY <1>3 DEF N

-----------------------------------------------------------------------------
(* The recursive function.                                                 *)

\* The largest index of a set that has the last one.
LEMMA TopOfSegment ==
  ASSUME NEW n \in Nat, NEW T \in SUBSET (1..n + 1), n + 1 \in T
  PROVE  TopOf(T) = n + 1
<1>1. \A y \in T : n + 1 >= y OBVIOUS
<1>2. \A x \in T : (\A y \in T : x >= y) => x = n + 1 OBVIOUS
<1> QED BY <1>1, <1>2 DEF TopOf

\* There is a function that satisfies the equation, for a sequence of any length.
LEMMA FoldExists ==
  ASSUME NEW b, NEW s, NEW n \in Nat, DOMAIN s = 1..n
  PROVE  \E g : Folds(b, s, g)
<1> DEFINE S == {m \in Nat : \E g : Upto(b, s, m, g)}
<1>1. 0 \in S
  <2> DEFINE g == [T \in SUBSET (1..0) |-> b]
  <2>1. \A T \in SUBSET (1..0) : T = {} OBVIOUS
  <2>2. Upto(b, s, 0, g) BY <2>1 DEF Upto
  <2> QED BY <2>2
<1>2. ASSUME NEW m \in Nat, m \in S PROVE m + 1 \in S
  <2>1. PICK g : Upto(b, s, m, g)
    BY <1>2
  <2> DEFINE h == [T \in SUBSET (1..m + 1) |->
                     IF m + 1 \in T THEN Step(g[T \ {m + 1}], s[m + 1]) ELSE g[T]]
  <2>2. ASSUME NEW T \in SUBSET (1..m + 1)
        PROVE  h[T] = IF T = {} THEN b ELSE Step(h[T \ {TopOf(T)}], s[TopOf(T)])
    <3>1. CASE m + 1 \in T
      <4>1. TopOf(T) = m + 1 BY <3>1, TopOfSegment
      <4>2. T \ {m + 1} \in SUBSET (1..m + 1) /\ m + 1 \notin T \ {m + 1} OBVIOUS
      <4>3. h[T \ {m + 1}] = g[T \ {m + 1}] BY <4>2
      <4> QED BY <3>1, <4>1, <4>3
    <3>2. CASE m + 1 \notin T
      <4>1. T \in SUBSET (1..m) BY <3>2
      <4>2. g[T] = IF T = {} THEN b ELSE Step(g[T \ {TopOf(T)}], s[TopOf(T)])
        BY <4>1, <2>1 DEF Upto
      <4>3. T \ {TopOf(T)} \in SUBSET (1..m + 1) /\ m + 1 \notin T \ {TopOf(T)} BY <3>2
      <4> QED BY <3>2, <4>2, <4>3
    <3> QED BY <3>1, <3>2
  <2>3. h = [T \in SUBSET (1..m + 1) |-> h[T]] OBVIOUS
  <2> HIDE DEF h
  <2>4. Upto(b, s, m + 1, h) BY <2>2, <2>3 DEF Upto
  <2> QED BY <2>4
<1> HIDE DEF S
<1>3. n \in S BY <1>1, <1>2, Inductive
<1> QED BY <1>3 DEF S, Folds, Upto

LEMMA FoldedBy ==
  ASSUME NEW b, NEW s, NEW n \in Nat, DOMAIN s = 1..n
  PROVE  \E g : Folds(b, s, g) /\ Folded(b, s) = g[1..n]
BY FoldExists DEF Folded

\* Its value on a prefix that is one longer.
LEMMA FoldSegment ==
  ASSUME NEW b, NEW s, NEW n \in Nat, DOMAIN s = 1..n, NEW g, Folds(b, s, g),
         NEW k \in Nat, k + 1 \in 1..n
  PROVE  g[1..k + 1] = Step(g[1..k], s[k + 1])
<1>1. 1..k + 1 \in SUBSET DOMAIN s /\ 1..k + 1 # {}
  <2>1. n \in Nat /\ k + 1 <= n OBVIOUS
  <2>2. \A i \in 1..k + 1 : i \in 1..n BY <2>1
  <2>3. k + 1 \in 1..k + 1 OBVIOUS
  <2> QED BY <2>2, <2>3
<1>2. TopOf(1..k + 1) = k + 1 BY TopOfSegment
<1>3. (1..k + 1) \ {k + 1} = 1..k OBVIOUS
<1> QED BY <1>1, <1>2, <1>3 DEF Folds

-----------------------------------------------------------------------------
(* The fold.                                                               *)

\* Nothing folded is what one began with.
THEOREM FoldEmpty == ASSUME NEW b PROVE Folded(b, <<>>) = b
<1>1. DOMAIN <<>> = 1..0 /\ 1..0 = {} OBVIOUS
<1>2. PICK g : Folds(b, <<>>, g) /\ Folded(b, <<>>) = g[1..0]
  BY <1>1, FoldedBy
<1> QED BY <1>1, <1>2 DEF Folds

\* One element more is one step more.
THEOREM FoldAppend ==
  ASSUME NEW b, NEW R, NEW s \in Seq(R), NEW e
  PROVE  Folded(b, Append(s, e)) = Step(Folded(b, s), e)
<1> DEFINE t == Append(s, e)
           n == Len(s)
<1>1. /\ n \in Nat /\ DOMAIN s = 1..n /\ DOMAIN t = 1..n + 1
      /\ t[n + 1] = e /\ \A i \in 1..n : t[i] = s[i]
  OBVIOUS
<1> HIDE DEF t, n
<1>2. PICK g : Folds(b, s, g) /\ Folded(b, s) = g[1..n]
  BY <1>1, FoldedBy
<1>3. PICK h : Folds(b, t, h) /\ Folded(b, t) = h[1..n + 1]
  BY <1>1, FoldedBy
<1> DEFINE S == {k \in Nat : k <= n => g[1..k] = h[1..k]}
<1>4. 0 \in S
  <2>1. 1..0 = {} OBVIOUS
  <2> QED BY <2>1, <1>2, <1>3, <1>1 DEF Folds
<1>5. ASSUME NEW k \in Nat, k \in S PROVE k + 1 \in S
  <2>1. SUFFICES ASSUME k + 1 <= n PROVE g[1..k + 1] = h[1..k + 1]
    OBVIOUS
  <2>2. g[1..k + 1] = Step(g[1..k], s[k + 1]) BY <2>1, <1>1, <1>2, FoldSegment
  <2>3. h[1..k + 1] = Step(h[1..k], t[k + 1]) BY <2>1, <1>1, <1>3, FoldSegment
  <2> QED BY <2>1, <2>2, <2>3, <1>5, <1>1
<1> HIDE DEF S
<1>6. n \in S BY <1>1, <1>4, <1>5, Inductive
<1>7. h[1..n + 1] = Step(h[1..n], t[n + 1]) BY <1>1, <1>3, FoldSegment
<1> QED BY <1>1, <1>2, <1>3, <1>6, <1>7 DEF S, t
=============================================================================
