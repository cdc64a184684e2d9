-------------------------- MODULE RecursionProofs --------------------------
(***************************************************************************)
(* Induction and recursion over the naturals in a form the provers can use *)
(* (with sets and functions in place of operators), and what FlattenSeq    *)
(* computes.                                                               *)
(***************************************************************************)
EXTENDS Integers, Sequences, SequencesExt, SequenceTheorems, WellFoundedInduction, TLAPS

-----------------------------------------------------------------------------
(* Induction: a set with 0 and with all successors has all naturals, since *)
(* there is no smallest one it does not have.                              *)
LEMMA Induction ==
    ASSUME NEW S, 0 \in S, \A n \in Nat : n \in S => n + 1 \in S
    PROVE  \A n \in Nat : n \in S
<1> DEFINE less == {ss \in Nat \X Nat : ss[1] < ss[2]}
           Missing == Nat \ S
<1> SUFFICES ASSUME Missing # {} PROVE FALSE
  OBVIOUS
<1>1. IsWellFoundedOn(less, Nat)
  BY NatLessThanWellFounded DEF OpToRel
<1>2. PICK x \in Missing : \A y \in Missing : <<y, x>> \notin less
  BY <1>1, WFMin
<1>3. x \in Nat /\ x # 0
  BY <1>2
<1>4. x - 1 \in Nat /\ <<x - 1, x>> \in less /\ (x - 1) + 1 = x
  BY <1>3
<1>5. x - 1 \in S
  BY <1>2, <1>4
<1> QED
  BY <1>2, <1>4, <1>5

(* A function with a given value at 0 whose other values, up to that at m  *)
(* if there is a bound, follow from the one before.                        *)
Recursive(f, X, base, step) ==
    /\ f \in [Nat -> X]
    /\ f[0] = base
    /\ \A n \in Nat : f[n + 1] = step[<<n + 1, f[n]>>]

RecursiveTo(m, f, X, base, step) ==
    /\ f \in [0..m -> X]
    /\ f[0] = base
    /\ \A i \in 1..m : f[i] = step[<<i, f[i - 1]>>]

(* Recursion: there is such a function.                                    *)
LEMMA Recursion ==
    ASSUME NEW X, NEW base \in X, NEW step \in [Nat \X X -> X]
    PROVE  \E f : Recursive(f, X, base, step)
<1> DEFINE Approximates(n, g) ==
             /\ g \in [0..n -> X]
             /\ g[0] = base
             /\ \A i \in 0..(n - 1) : g[i + 1] = step[<<i + 1, g[i]>>]
<1>1. \A n \in Nat : \E g : Approximates(n, g)
  <2> DEFINE S == {n \in Nat : \E g : Approximates(n, g)}
  <2>1. 0 \in S
    <3>1. Approximates(0, [i \in 0..0 |-> base])
      OBVIOUS
    <3> QED
      BY <3>1
  <2>2. ASSUME NEW n \in Nat, n \in S PROVE n + 1 \in S
    <3>1. PICK g : Approximates(n, g)
      BY <2>2
    <3> DEFINE h == [i \in 0..(n + 1) |-> IF i = n + 1 THEN step[<<n + 1, g[n]>>] ELSE g[i]]
    <3>2. g[n] \in X /\ step[<<n + 1, g[n]>>] \in X
      BY <3>1
    <3>3. h \in [0..(n + 1) -> X] /\ h[0] = base
      BY <3>1, <3>2
    <3>4. ASSUME NEW i \in 0..n PROVE h[i + 1] = step[<<i + 1, h[i]>>]
      <4>1. h[i] = g[i]
        OBVIOUS
      <4>2. CASE i = n
        <5>1. h[n + 1] = step[<<n + 1, g[n]>>]
          OBVIOUS
        <5> HIDE DEF h, Approximates
        <5> QED
          BY <4>1, <4>2, <5>1
      <4>3. CASE i # n
        <5>1. i \in 0..(n - 1) /\ i + 1 \in 0..(n + 1) /\ i + 1 # n + 1
          BY <4>3
        <5>2. h[i + 1] = g[i + 1]
          BY <5>1
        <5>3. g[i + 1] = step[<<i + 1, g[i]>>]
          BY <3>1, <5>1
        <5> HIDE DEF h, Approximates
        <5> QED
          BY <4>1, <5>2, <5>3
      <4> QED
        BY <4>2, <4>3
    <3>5. Approximates(n + 1, h)
      <4>1. \A i \in 0..((n + 1) - 1) : i \in 0..n
        OBVIOUS
      <4> QED
        BY <3>3, <3>4, <4>1
    <3> HIDE DEF Approximates, h
    <3> QED
      BY <3>5
  <2> HIDE DEF S
  <2>3. \A n \in Nat : n \in S
    BY <2>1, <2>2, Induction
  <2> QED
    BY <2>3 DEF S
<1>2. ASSUME NEW m \in Nat, NEW n \in Nat, m <= n, NEW g, NEW h, Approximates(m, g), Approximates(n, h)
      PROVE  g[m] = h[m]
  <2> DEFINE S == {i \in Nat : i <= m => g[i] = h[i]}
  <2>1. 0 \in S
    BY <1>2
  <2>2. ASSUME NEW i \in Nat, i \in S PROVE i + 1 \in S
    <3> SUFFICES ASSUME i + 1 <= m PROVE g[i + 1] = h[i + 1]
      OBVIOUS
    <3>1. i \in 0..(m - 1) /\ i \in 0..(n - 1) /\ g[i] = h[i]
      BY <1>2, <2>2
    <3> QED
      BY <1>2, <3>1
  <2> HIDE DEF S
  <2>3. m \in S
    BY <2>1, <2>2, Induction
  <2> QED
    BY <2>3 DEF S
<1> DEFINE approximation(n) == CHOOSE g : Approximates(n, g)
           f == [n \in Nat |-> approximation(n)[n]]
<1>3. \A n \in Nat : Approximates(n, approximation(n))
  BY <1>1
<1>4. f \in [Nat -> X] /\ f[0] = base
  <2> HIDE DEF approximation
  <2> QED
    BY <1>3
<1>5. ASSUME NEW n \in Nat PROVE f[n + 1] = step[<<n + 1, f[n]>>]
  <2>1. n + 1 \in Nat /\ n <= n + 1 /\ n \in 0..((n + 1) - 1)
    OBVIOUS
  <2>2. approximation(n)[n] = approximation(n + 1)[n]
    <3> HIDE DEF Approximates, approximation
    <3>1. Approximates(n, approximation(n)) /\ Approximates(n + 1, approximation(n + 1))
      BY <1>3, <2>1
    <3> QED
      BY <1>2, <2>1, <3>1
  <2>3. approximation(n + 1)[n + 1] = step[<<n + 1, approximation(n + 1)[n]>>]
    BY <1>3, <2>1
  <2> QED
    BY <2>1, <2>2, <2>3
<1>6. Recursive(f, X, base, step)
  BY <1>4, <1>5 DEF Recursive
<1> QED
  BY <1>6

(* The same for functions that are defined up to some number.              *)
LEMMA FiniteRecursion ==
    ASSUME NEW X, NEW m \in Nat, NEW base \in X, NEW step \in [(1..m) \X X -> X]
    PROVE  \E g : RecursiveTo(m, g, X, base, step)
<1> DEFINE further == [p \in Nat \X X |-> IF p[1] \in 1..m THEN step[p] ELSE p[2]]
<1>1. further \in [Nat \X X -> X]
  <2>1. ASSUME NEW p \in Nat \X X PROVE (IF p[1] \in 1..m THEN step[p] ELSE p[2]) \in X
    <3>1. p[1] \in 1..m => p \in (1..m) \X X
      OBVIOUS
    <3> QED
      BY <3>1
  <2> QED
    BY <2>1
<1>2. \A i \in 1..m, x \in X : further[<<i, x>>] = step[<<i, x>>]
  OBVIOUS
<1> HIDE DEF further
<1>3. PICK f : Recursive(f, X, base, further)
  BY <1>1, Recursion
<1> DEFINE g == [i \in 0..m |-> f[i]]
<1>4. g \in [0..m -> X] /\ g[0] = base
  BY <1>3 DEF Recursive
<1>5. ASSUME NEW i \in 1..m PROVE g[i] = step[<<i, g[i - 1]>>]
  <2>1. i - 1 \in Nat /\ (i - 1) + 1 = i /\ i - 1 \in 0..m
    OBVIOUS
  <2>2. g[i] = f[i] /\ g[i - 1] = f[i - 1] /\ f[i - 1] \in X
    BY <1>3, <2>1 DEF Recursive
  <2>3. f[i] = further[<<i, f[i - 1]>>]
    BY <1>3, <2>1 DEF Recursive
  <2> QED
    BY <1>2, <2>2, <2>3
<1>6. RecursiveTo(m, g, X, base, step)
  BY <1>4, <1>5 DEF RecursiveTo
<1> QED
  BY <1>6

-----------------------------------------------------------------------------
(* Texts put back to back.                                                 *)

(* Grouping does not matter.                                               *)
Regroups(a, b, c) == (a \o b) \o c = a \o (b \o c)

LEMMA Associative ==
    ASSUME NEW S, NEW a \in Seq(S), NEW b \in Seq(S), NEW c \in Seq(S)
    PROVE  Regroups(a, b, c)
<1> DEFINE left == (a \o b) \o c
           right == a \o (b \o c)
<1>1. left \in Seq(S) /\ right \in Seq(S) /\ Len(left) = Len(right)
  OBVIOUS
<1>2. \A i \in 1..Len(left) : left[i] = right[i]
  OBVIOUS
<1> HIDE DEF left, right
<1>3. left = right
  BY <1>1, <1>2, SeqEqual
<1> QED
  BY <1>3 DEF left, right, Regroups

(* The texts up to each of them, put back to back.                         *)
Flattens(g, s, S) ==
    /\ g \in [1..Len(s) -> Seq(S)]
    /\ FlattenSeq(s) = g[Len(s)]
    /\ g[1] = s[1]
    /\ \A i \in 2..Len(s) : g[i] = g[i - 1] \o s[i]

(* FlattenSeq satisfies the equations it is defined by.                    *)
LEMMA FlattenEquations ==
    ASSUME NEW S, NEW s \in Seq(Seq(S)), s # <<>>
    PROVE  \E g : Flattens(g, s, S)
<1> DEFINE m == Len(s)
           equation(g) == g = [i \in 1..m |-> IF i = 1 THEN s[i] ELSE g[i - 1] \o s[i]]
           step == [p \in (1..m) \X Seq(S) |-> p[2] \o s[p[1]]]
<1>1. m \in Nat /\ m # 0 /\ \A i \in 1..m : s[i] \in Seq(S)
  OBVIOUS
<1> HIDE DEF m
<1>2. <<>> \in Seq(S)
  OBVIOUS
<1>3. step \in [(1..m) \X Seq(S) -> Seq(S)]
  <2>1. ASSUME NEW p \in (1..m) \X Seq(S) PROVE p[2] \o s[p[1]] \in Seq(S)
    <3>1. p[2] \in Seq(S) /\ s[p[1]] \in Seq(S)
      BY <1>1
    <3> QED
      BY <3>1, ConcatProperties
  <2> QED
    BY <2>1
<1>4. \A i \in 1..m, x \in Seq(S) : step[<<i, x>>] = x \o s[i]
  OBVIOUS
<1> HIDE DEF step
<1>5. PICK f : RecursiveTo(m, f, Seq(S), <<>>, step)
  BY <1>1, <1>2, <1>3, FiniteRecursion
<1>6. /\ f \in [0..m -> Seq(S)] /\ f[0] = <<>>
      /\ \A i \in 1..m : f[i] = f[i - 1] \o s[i]
  <2>1. \A i \in 1..m : i - 1 \in 0..m
    BY <1>1
  <2> QED
    BY <1>4, <1>5, <2>1 DEF RecursiveTo
<1> DEFINE h == [i \in 1..m |-> f[i]]
<1>7. h \in [1..m -> Seq(S)]
  BY <1>1, <1>6
<1>8. h[1] = s[1] /\ \A i \in 2..m : h[i] = h[i - 1] \o s[i]
  <2>1. h[1] = s[1]
    <3>1. 1 \in 1..m /\ s[1] \in Seq(S)
      BY <1>1
    <3>3. \A i \in 1..m : i = 1 => i - 1 = 0
      BY <1>1
    <3>4. f[1] = <<>> \o s[1]
      BY <1>6, <3>1, <3>3
    <3>2. <<>> \o s[1] = s[1]
      BY <3>1, ConcatEmptySeq
    <3> QED
      BY <3>1, <3>2, <3>4
  <2>2. ASSUME NEW i \in 2..m PROVE h[i] = h[i - 1] \o s[i]
    <3>1. i \in 1..m /\ i - 1 \in 1..m
      BY <1>1
    <3> QED
      BY <1>6, <3>1
  <2> QED
    BY <2>1, <2>2
<1> HIDE DEF h
<1>9. equation(h)
  <2>1. h = [i \in 1..m |-> h[i]]
    BY <1>7
  <2>2. ASSUME NEW i \in 1..m PROVE h[i] = IF i = 1 THEN s[i] ELSE h[i - 1] \o s[i]
    <3>1. i = 1 \/ i \in 2..m
      BY <1>1
    <3> QED
      BY <1>8, <3>1
  <2> QED
    BY <2>1, <2>2
<1> DEFINE g == CHOOSE g : equation(g)
<1>10. equation(g)
  BY <1>9
<1>11. FlattenSeq(s) = g[m]
  BY <1>1 DEF FlattenSeq, m
<1> HIDE DEF g
<1>12. g[1] = s[1] /\ \A i \in 2..m : g[i] = g[i - 1] \o s[i]
  <2>1. \A i \in 1..m : g[i] = IF i = 1 THEN s[i] ELSE g[i - 1] \o s[i]
    BY <1>10
  <2>2. 1 \in 1..m /\ \A i \in 2..m : i \in 1..m /\ i # 1
    BY <1>1
  <2> QED
    BY <2>1, <2>2
<1>13. g \in [1..m -> Seq(S)]
  <2> DEFINE Good == {n \in Nat : n + 1 <= m => g[n + 1] \in Seq(S)}
  <2>1. 0 \in Good
    BY <1>1, <1>12
  <2>2. ASSUME NEW n \in Nat, n \in Good PROVE n + 1 \in Good
    <3> SUFFICES ASSUME n + 2 <= m PROVE g[n + 2] \in Seq(S)
      OBVIOUS
    <3>1. g[n + 1] \in Seq(S) /\ n + 2 \in 2..m /\ s[n + 2] \in Seq(S) /\ (n + 2) - 1 = n + 1
      BY <1>1, <2>2
    <3>2. g[n + 2] = g[n + 1] \o s[n + 2]
      BY <1>12, <3>1
    <3> QED
      BY <3>1, <3>2, ConcatProperties
  <2> HIDE DEF Good
  <2>3. \A n \in Nat : n \in Good
    BY <2>1, <2>2, Induction
  <2>4. ASSUME NEW i \in 1..m PROVE g[i] \in Seq(S)
    <3>1. i - 1 \in Nat /\ (i - 1) + 1 = i /\ i <= m
      BY <1>1
    <3> QED
      BY <2>3, <3>1 DEF Good
  <2>5. g = [i \in 1..m |-> g[i]]
    BY <1>10
  <2> QED
    BY <2>4, <2>5
<1>14. Flattens(g, s, S)
  BY <1>11, <1>12, <1>13 DEF m, Flattens
<1> QED
  BY <1>14

(* No text, and one more text.                                             *)
LEMMA FlattenEmpty == FlattenSeq(<<>>) = <<>>
  BY DEF FlattenSeq

LEMMA FlattenType ==
    ASSUME NEW S, NEW s \in Seq(Seq(S))
    PROVE  FlattenSeq(s) \in Seq(S)
<1>1. CASE s = <<>>
  <2>1. FlattenSeq(s) = <<>>
    BY <1>1, FlattenEmpty
  <2> QED
    BY <2>1, EmptySeq
<1>2. CASE s # <<>>
  <2>1. PICK g : Flattens(g, s, S)
    BY <1>2, FlattenEquations
  <2>2. Len(s) \in 1..Len(s)
    BY <1>2
  <2> QED
    BY <2>1, <2>2 DEF Flattens
<1> QED
  BY <1>1, <1>2

LEMMA FlattenAppend ==
    ASSUME NEW S, NEW s \in Seq(Seq(S)), NEW x \in Seq(S)
    PROVE  FlattenSeq(Append(s, x)) = FlattenSeq(s) \o x
<1> DEFINE m == Len(s)
           longer == Append(s, x)
<1>1. /\ m \in Nat /\ longer \in Seq(Seq(S)) /\ longer # <<>> /\ Len(longer) = m + 1
      /\ \A i \in 1..m : longer[i] = s[i]
      /\ longer[m + 1] = x
  BY AppendProperties
<1>2. PICK h : Flattens(h, longer, S)
  BY <1>1, FlattenEquations
<1> HIDE DEF longer
<1>3. /\ FlattenSeq(longer) = h[m + 1] /\ h[1] = longer[1]
      /\ \A i \in 2..(m + 1) : h[i] = h[i - 1] \o longer[i]
  BY <1>1, <1>2 DEF Flattens
<1>4. CASE s = <<>>
  <2>1. m = 0 /\ FlattenSeq(s) = <<>>
    BY <1>4, FlattenEmpty
  <2>2. h[m + 1] = x
    BY <1>1, <1>3, <2>1
  <2>3. <<>> \o x = x
    BY ConcatEmptySeq
  <2> QED
    BY <1>3, <2>1, <2>2, <2>3 DEF longer
<1>5. CASE s # <<>>
  <2>1. PICK g : Flattens(g, s, S)
    BY <1>5, FlattenEquations
  <2>2. /\ FlattenSeq(s) = g[m] /\ g[1] = s[1]
        /\ \A i \in 2..m : g[i] = g[i - 1] \o s[i]
    BY <2>1 DEF Flattens
  <2>3. m # 0
    BY <1>5
  <2> HIDE DEF m
  <2> DEFINE Same == {n \in Nat : n + 1 <= m => h[n + 1] = g[n + 1]}
  <2>4. 0 \in Same
    BY <1>1, <1>3, <2>2, <2>3
  <2>5. ASSUME NEW n \in Nat, n \in Same PROVE n + 1 \in Same
    <3> SUFFICES ASSUME n + 2 <= m PROVE h[n + 2] = g[n + 2]
      OBVIOUS
    <3>1. /\ n + 2 \in 2..m /\ n + 2 \in 2..(m + 1) /\ n + 2 \in 1..m /\ (n + 2) - 1 = n + 1
          /\ h[n + 1] = g[n + 1]
      BY <1>1, <2>5
    <3>2. h[n + 2] = h[n + 1] \o longer[n + 2] /\ longer[n + 2] = s[n + 2]
      BY <1>1, <1>3, <3>1
    <3>3. g[n + 2] = g[n + 1] \o s[n + 2]
      BY <2>2, <3>1
    <3> QED
      BY <3>1, <3>2, <3>3
  <2> HIDE DEF Same
  <2>6. m - 1 \in Same
    <3>1. m - 1 \in Nat
      BY <1>1, <2>3
    <3> QED
      BY <2>4, <2>5, <3>1, Induction
  <2>7. h[m] = g[m]
    BY <1>1, <2>6 DEF Same
  <2>8. m + 1 \in 2..(m + 1) /\ (m + 1) - 1 = m
    BY <1>1, <2>3
  <2>9. h[m + 1] = h[m] \o x
    BY <1>1, <1>3, <2>8
  <2> QED
    BY <1>3, <2>2, <2>7, <2>9 DEF longer
<1> QED
  BY <1>4, <1>5

LEMMA FlattenOne ==
    ASSUME NEW S, NEW x \in Seq(S)
    PROVE  FlattenSeq(<<x>>) = x
<1>1. <<>> \in Seq(Seq(S)) /\ Append(<<>>, x) = <<x>>
  OBVIOUS
<1>2. FlattenSeq(Append(<<>>, x)) = <<>> \o x
  BY <1>1, FlattenAppend, FlattenEmpty
<1> QED
  BY <1>1, <1>2, ConcatEmptySeq

(* Two groups of texts.                                                    *)
LEMMA FlattenConcat ==
    ASSUME NEW S, NEW s \in Seq(Seq(S)), NEW t \in Seq(Seq(S))
    PROVE  FlattenSeq(s \o t) = FlattenSeq(s) \o FlattenSeq(t)
<1> DEFINE Good == {n \in Nat : \A u \in Seq(Seq(S)) :
                      Len(u) = n => FlattenSeq(s \o u) = FlattenSeq(s) \o FlattenSeq(u)}
<1>1. 0 \in Good
  <2> SUFFICES ASSUME NEW u \in Seq(Seq(S)), Len(u) = 0
               PROVE  FlattenSeq(s \o u) = FlattenSeq(s) \o FlattenSeq(u)
    OBVIOUS
  <2>1. u = <<>> /\ s \o u = s
    BY ConcatEmptySeq, EmptySeq
  <2>2. FlattenSeq(s) \o <<>> = FlattenSeq(s)
    BY FlattenType, ConcatEmptySeq
  <2> QED
    BY <2>1, <2>2, FlattenEmpty
<1>2. ASSUME NEW n \in Nat, n \in Good PROVE n + 1 \in Good
  <2> SUFFICES ASSUME NEW u \in Seq(Seq(S)), Len(u) = n + 1
               PROVE  FlattenSeq(s \o u) = FlattenSeq(s) \o FlattenSeq(u)
    OBVIOUS
  <2>1. u # <<>>
    OBVIOUS
  <2>2. PICK v \in Seq(Seq(S)), x \in Seq(S) : u = Append(v, x)
    BY <2>1, SequenceEmptyOrAppend
  <2>3. Len(v) = n /\ Len(v) \in Nat
    BY <2>2
  <2>4. FlattenSeq(s \o v) = FlattenSeq(s) \o FlattenSeq(v)
    BY <1>2, <2>3
  <2>5. s \o Append(v, x) = Append(s \o v, x) /\ s \o v \in Seq(Seq(S))
    <3> DEFINE one == <<x>>
    <3>1. s \o v \in Seq(Seq(S)) /\ one \in Seq(Seq(S))
      OBVIOUS
    <3>2. Append(v, x) = v \o one /\ Append(s \o v, x) = (s \o v) \o one
      BY <3>1, AppendIsConcat
    <3> HIDE DEF one
    <3>3. Regroups(s, v, one)
      BY <3>1, Associative
    <3>4. (s \o v) \o one = s \o (v \o one)
      BY <3>3 DEF Regroups
    <3> QED
      BY <3>1, <3>2, <3>4
  <2>6. FlattenSeq(s \o u) = (FlattenSeq(s) \o FlattenSeq(v)) \o x
    BY <2>2, <2>4, <2>5, FlattenAppend
  <2>7. FlattenSeq(u) = FlattenSeq(v) \o x
    BY <2>2, FlattenAppend
  <2>8. FlattenSeq(s) \in Seq(S) /\ FlattenSeq(v) \in Seq(S)
    BY FlattenType
  <2>9. (FlattenSeq(s) \o FlattenSeq(v)) \o x = FlattenSeq(s) \o (FlattenSeq(v) \o x)
    <3>1. Regroups(FlattenSeq(s), FlattenSeq(v), x)
      BY <2>8, Associative
    <3> QED
      BY <3>1 DEF Regroups
  <2> QED
    BY <2>6, <2>7, <2>9
<1> HIDE DEF Good
<1>3. Len(t) \in Good
  <2>1. \A n \in Nat : n \in Good
    BY <1>1, <1>2, Induction
  <2> QED
    BY <2>1
<1> QED
  BY <1>3 DEF Good

(* Where each text begins, and what is found there.                        *)
LEMMA FlattenAt ==
    ASSUME NEW S, NEW s \in Seq(Seq(S)), NEW o \in [1..(Len(s) + 1) -> Nat],
           o[1] = 0, \A i \in 1..Len(s) : o[i + 1] = o[i] + Len(s[i])
    PROVE  /\ Len(FlattenSeq(s)) = o[Len(s) + 1]
           /\ \A i \in 1..Len(s) : \A k \in 1..Len(s[i]) : FlattenSeq(s)[o[i] + k] = s[i][k]
<1> DEFINE m == Len(s)
<1>1. CASE s = <<>>
  <2>1. Len(s) = 0 /\ FlattenSeq(s) = <<>> /\ Len(<<>>) = 0
    BY <1>1, FlattenEmpty
  <2> QED
    BY <2>1
<1>2. CASE s # <<>>
  <2>1. m \in Nat /\ m # 0 /\ \A i \in 1..m : s[i] \in Seq(S) /\ Len(s[i]) \in Nat /\ i + 1 \in 1..(m + 1)
    BY <1>2
  <2>2. PICK g : Flattens(g, s, S)
    BY <1>2, FlattenEquations
  <2>3. /\ g \in [1..m -> Seq(S)] /\ FlattenSeq(s) = g[m] /\ g[1] = s[1]
        /\ \A i \in 2..m : g[i] = g[i - 1] \o s[i]
    BY <2>2 DEF Flattens
  <2> DEFINE Placed(n) == /\ Len(g[n]) = o[n + 1]
                          /\ \A i \in 1..n : \A k \in 1..Len(s[i]) :
                               o[i] + k \in 1..o[n + 1] /\ g[n][o[i] + k] = s[i][k]
             Good == {n \in Nat : n + 1 <= m => Placed(n + 1)}
  <2>4. 0 \in Good
    <3>1. 1 \in 1..m
      BY <2>1
    <3>2. Len(g[1]) = o[1 + 1] /\ o[1 + 1] = Len(s[1])
      BY <2>1, <2>3, <3>1
    <3>3. ASSUME NEW i \in 1..1, NEW k \in 1..Len(s[i])
          PROVE  o[i] + k \in 1..o[1 + 1] /\ g[1][o[i] + k] = s[i][k]
      <4>1. i = 1 /\ o[i] + k = k
        BY <2>1, <3>1
      <4> QED
        BY <2>3, <3>2, <4>1
    <3> QED
      BY <3>2, <3>3
  <2>5. ASSUME NEW n \in Nat, n \in Good PROVE n + 1 \in Good
    <3> SUFFICES ASSUME n + 2 <= m PROVE Placed(n + 2)
      <4> HIDE DEF Placed
      <4>1. (n + 1) + 1 = n + 2 /\ n + 1 \in Nat
        OBVIOUS
      <4> QED
        BY <4>1
    <3> DEFINE a == g[n + 1]
               b == s[n + 2]
    <3>1. /\ n + 1 \in 1..m /\ n + 2 \in 1..m /\ n + 2 \in 2..m /\ n + 2 \in 1..(m + 1)
          /\ (n + 2) - 1 = n + 1 /\ (n + 2) + 1 \in 1..(m + 1) /\ (n + 1) + 1 = n + 2
      BY <2>1
    <3>2. Placed(n + 1)
      BY <2>5, <3>1
    <3>3. a \in Seq(S) /\ b \in Seq(S) /\ g[n + 2] = a \o b
      BY <2>1, <2>3, <3>1
    <3>4. /\ Len(a) = o[n + 2] /\ o[(n + 2) + 1] = o[n + 2] + Len(b)
          /\ o[n + 2] \in Nat /\ Len(b) \in Nat
      BY <2>1, <3>1, <3>2, <3>3
    <3> HIDE DEF a, b
    <3>5. /\ Len(a \o b) = Len(a) + Len(b)
          /\ \A j \in 1..Len(a) + Len(b) : (a \o b)[j] = IF j <= Len(a) THEN a[j] ELSE b[j - Len(a)]
      BY <3>3, ConcatProperties
    <3>6. ASSUME NEW i \in 1..(n + 2), NEW k \in 1..Len(s[i])
          PROVE  o[i] + k \in 1..o[(n + 2) + 1] /\ (a \o b)[o[i] + k] = s[i][k]
      <4>1. CASE i = n + 2
        <5>1. o[i] = Len(a) /\ s[i] = b /\ k \in 1..Len(b)
          BY <3>4, <4>1 DEF b
        <5>2. Len(a) \in Nat /\ Len(b) \in Nat /\ k \in Nat /\ 1 <= k /\ k <= Len(b)
          BY <3>4, <5>1
        <5>3. Len(a) + k \in 1..Len(a) + Len(b) /\ ~(Len(a) + k <= Len(a)) /\ (Len(a) + k) - Len(a) = k
          BY <5>2
        <5> QED
          BY <3>4, <3>5, <5>1, <5>3
      <4>2. CASE i # n + 2
        <5>1. i \in 1..(n + 1)
          BY <4>2
        <5>2. o[i] + k \in 1..Len(a) /\ a[o[i] + k] = s[i][k]
          BY <3>1, <3>2, <3>4, <5>1 DEF a
        <5>3. o[i] + k \in 1..Len(a) + Len(b) /\ o[i] + k <= Len(a)
          BY <3>4, <5>2
        <5> QED
          BY <3>4, <3>5, <5>2, <5>3
      <4> QED
        BY <4>1, <4>2
    <3> QED
      BY <3>3, <3>4, <3>5, <3>6
  <2> HIDE DEF Good
  <2>6. m - 1 \in Good
    <3>1. m - 1 \in Nat
      BY <2>1
    <3> QED
      BY <2>4, <2>5, <3>1, Induction
  <2>7. Placed(m)
    <3>1. (m - 1) + 1 = m
      BY <2>1
    <3> QED
      BY <2>6, <3>1 DEF Good
  <2> QED
    BY <2>3, <2>7
<1> QED
  BY <1>1, <1>2
=============================================================================
