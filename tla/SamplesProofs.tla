--------------------------- MODULE SamplesProofs ---------------------------
(***************************************************************************)
(* Proofs about TimePoint and Samples, for every design, every waveform,   *)
(* every width of a chunk and every number of digits and units.            *)
(***************************************************************************)
EXTENDS Samples, RecursionProofs

-----------------------------------------------------------------------------
(* Division and remainder.                                                 *)
LEMMA DivMod ==
    ASSUME NEW x \in Nat, NEW b \in Nat, b > 0
    PROVE  x \div b \in Nat /\ x % b \in 0..(b - 1) /\ x = b * (x \div b) + (x % b)
  OBVIOUS

LEMMA DivModUnique ==
    ASSUME NEW b \in Nat, b > 0, NEW q \in Nat, NEW r \in 0..(b - 1)
    PROVE  (b * q + r) \div b = q /\ (b * q + r) % b = r
  OBVIOUS

LEMMA Product ==
    ASSUME NEW a \in Nat, NEW b \in Nat, a > 0, b > 0
    PROVE  a * b \in Nat /\ a * b > 0
  OBVIOUS

(* Dividing by p and then by b is dividing by their product; what is left  *)
(* of the product is made of what both leave.                              *)
LEMMA DivDiv ==
    ASSUME NEW x \in Nat, NEW b \in Nat, NEW p \in Nat, b > 0, p > 0
    PROVE  /\ x \div (b * p) = (x \div b) \div p
           /\ x % (b * p) = b * ((x \div b) % p) + (x % b)
<1> DEFINE y == x \div b
           r == x % b
           q == y \div p
           s == y % p
<1>1. y \in Nat /\ r \in 0..(b - 1) /\ x = b * y + r
  BY DivMod
<1> HIDE DEF y, r
<1>2. q \in Nat /\ s \in 0..(p - 1) /\ y = p * q + s
  BY <1>1, DivMod
<1> HIDE DEF q, s
<1>3. b * p \in Nat /\ b * p > 0
  BY Product
<1>4. x = (b * p) * q + (b * s + r)
  BY <1>1, <1>2
<1>5. b * s + r \in 0..(b * p - 1)
  <2>1. s + 1 <= p /\ s \in Nat
    BY <1>2
  <2>2. b * (s + 1) <= b * p
    <3>1. PICK d \in Nat : p = s + 1 + d
      BY <2>1
    <3>2. b * p = b * (s + 1) + b * d /\ b * d \in Nat
      BY <3>1, <2>1
    <3> QED
      BY <3>2, <1>3, <2>1
  <2>3. b * (s + 1) = b * s + b /\ b * s \in Nat
    BY <2>1
  <2> QED
    BY <1>1, <1>3, <2>2, <2>3
<1> DEFINE bp == b * p
           rest == b * s + r
<1> HIDE DEF bp, rest
<1>6. (bp * q + rest) \div bp = q /\ (bp * q + rest) % bp = rest
  BY <1>2, <1>3, <1>5, DivModUnique DEF bp, rest
<1> QED
  BY <1>4, <1>6 DEF bp, rest, q, s, y, r

(* The remainder of a remainder, and the digits of one.                    *)
Retains(x, b, p) ==
    /\ (x % (b * p)) % b = x % b
    /\ (x % (b * p)) \div b = (x \div b) % p

LEMMA ModMod ==
    ASSUME NEW x \in Nat, NEW b \in Nat, NEW p \in Nat, b > 0, p > 0
    PROVE  Retains(x, b, p)
<1> DEFINE y == (x \div b) % p
           r == x % b
<1>1. x % (b * p) = b * y + r
  BY DivDiv
<1>2. r \in 0..(b - 1) /\ x \div b \in Nat
  BY DivMod
<1>3. y \in Nat
  BY <1>2, DivMod
<1> HIDE DEF y, r
<1>4. (b * y + r) \div b = y /\ (b * y + r) % b = r
  BY <1>2, <1>3, DivModUnique
<1> QED
  BY <1>1, <1>4 DEF Retains, y, r

LEMMA DivSmall ==
    ASSUME NEW x \in Nat, NEW b \in Nat, x < b
    PROVE  x \div b = 0 /\ x % b = x
<1>1. (b * 0 + x) \div b = 0 /\ (b * 0 + x) % b = x
  BY DivModUnique
<1>2. b * 0 + x = x
  OBVIOUS
<1> QED
  BY <1>1, <1>2

LEMMA DivOne ==
    ASSUME NEW x \in Nat
    PROVE  x \div 1 = x /\ x % 1 = 0
  OBVIOUS

-----------------------------------------------------------------------------
(* Powers.                                                                 *)
LEMMA PowerEquations ==
    ASSUME NEW b \in Nat
    PROVE  Power(b, 0) = 1 /\ \A n \in Nat : Power(b, n) \in Nat /\ Power(b, n + 1) = b * Power(b, n)
<1> DEFINE step == [q \in Nat \X Nat |-> b * q[2]]
           equation(g) == g = [i \in Nat |-> IF i = 0 THEN 1 ELSE b * g[i - 1]]
<1>1. step \in [Nat \X Nat -> Nat] /\ \A n \in Nat, x \in Nat : step[<<n, x>>] = b * x
  OBVIOUS
<1> HIDE DEF step
<1>2. PICK f : Recursive(f, Nat, 1, step)
  BY <1>1, Recursion
<1>3. f \in [Nat -> Nat] /\ f[0] = 1 /\ \A n \in Nat : f[n + 1] = b * f[n]
  <2>1. f \in [Nat -> Nat] /\ f[0] = 1 /\ \A n \in Nat : f[n + 1] = step[<<n + 1, f[n]>>]
    BY <1>2 DEF Recursive
  <2>2. \A n \in Nat : n + 1 \in Nat /\ f[n] \in Nat
    BY <2>1
  <2> QED
    BY <1>1, <2>1, <2>2
<1>4. equation(f)
  <2>1. f = [i \in Nat |-> f[i]]
    BY <1>3
  <2>2. ASSUME NEW i \in Nat PROVE f[i] = IF i = 0 THEN 1 ELSE b * f[i - 1]
    <3>1. CASE i = 0
      BY <1>3, <3>1
    <3>2. CASE i # 0
      <4>1. i - 1 \in Nat /\ (i - 1) + 1 = i
        BY <3>2
      <4> QED
        BY <1>3, <3>2, <4>1
    <3> QED
      BY <3>1, <3>2
  <2> QED
    BY <2>1, <2>2
<1> DEFINE g == CHOOSE g : equation(g)
<1>5. equation(g)
  BY <1>4
<1>6. \A n : Power(b, n) = g[n]
  BY DEF Power
<1> HIDE DEF g
<1>7. g[0] = 1 /\ \A n \in Nat : g[n + 1] = b * g[n]
  <2>1. \A i \in Nat : g[i] = IF i = 0 THEN 1 ELSE b * g[i - 1]
    BY <1>5
  <2>2. \A n \in Nat : n + 1 \in Nat /\ n + 1 # 0 /\ (n + 1) - 1 = n
    OBVIOUS
  <2> QED
    BY <2>1, <2>2
<1> DEFINE Good == {n \in Nat : g[n] \in Nat}
<1>8. 0 \in Good /\ \A n \in Nat : n \in Good => n + 1 \in Good
  BY <1>7
<1> HIDE DEF Good
<1>9. \A n \in Nat : n \in Good
  BY <1>8, Induction
<1> QED
  BY <1>6, <1>7, <1>9 DEF Good

LEMMA PowerPositive ==
    ASSUME NEW b \in Nat, b > 0
    PROVE  \A n \in Nat : Power(b, n) \in Nat /\ Power(b, n) > 0
<1> DEFINE Good == {n \in Nat : Power(b, n) > 0}
<1>1. 0 \in Good
  BY PowerEquations
<1>2. ASSUME NEW n \in Nat, n \in Good PROVE n + 1 \in Good
  <2>1. Power(b, n) \in Nat /\ Power(b, n) > 0 /\ Power(b, n + 1) = b * Power(b, n)
    BY <1>2, PowerEquations
  <2> QED
    BY <2>1, Product
<1> HIDE DEF Good
<1>3. \A n \in Nat : n \in Good
  BY <1>1, <1>2, Induction
<1> QED
  BY <1>3, PowerEquations DEF Good

LEMMA PowerOfTen == \A n \in Nat : Power(10, n) \in Nat /\ Power(10, n) > 0
  BY PowerPositive

LEMMA PowerOfTwo == \A n \in Nat : Power(2, n) \in Nat /\ Power(2, n) > 0
  BY PowerPositive

LEMMA PowerOne ==
    ASSUME NEW b \in Nat
    PROVE  Power(b, 1) = b
<1>1. Power(b, 0 + 1) = b * Power(b, 0) /\ Power(b, 0) = 1
  BY PowerEquations
<1> QED
  BY <1>1

LEMMA PowerAdd ==
    ASSUME NEW b \in Nat, NEW m \in Nat
    PROVE  \A n \in Nat : Power(b, m + n) = Power(b, m) * Power(b, n)
<1> DEFINE Good == {n \in Nat : Power(b, m + n) = Power(b, m) * Power(b, n)}
<1>1. 0 \in Good
  <2>1. Power(b, m) \in Nat /\ Power(b, 0) = 1 /\ m + 0 = m
    BY PowerEquations
  <2> QED
    BY <2>1
<1>2. ASSUME NEW n \in Nat, n \in Good PROVE n + 1 \in Good
  <2> DEFINE M == Power(b, m)
             N == Power(b, n)
  <2>1. M \in Nat /\ N \in Nat /\ Power(b, n + 1) = b * N
    BY PowerEquations
  <2>2. m + n \in Nat /\ (m + n) + 1 = m + (n + 1)
    OBVIOUS
  <2>3. Power(b, (m + n) + 1) = b * Power(b, m + n)
    BY <2>2, PowerEquations
  <2>4. Power(b, m + n) = M * N
    BY <1>2
  <2> HIDE DEF M, N
  <2>5. b * (M * N) = M * (b * N)
    BY <2>1
  <2>6. Power(b, m + (n + 1)) = M * (b * N)
    BY <2>2, <2>3, <2>4, <2>5
  <2> QED
    BY <2>1, <2>6 DEF M
<1> HIDE DEF Good
<1>3. \A n \in Nat : n \in Good
  BY <1>1, <1>2, Induction
<1> QED
  BY <1>3 DEF Good

LEMMA PowerPower ==
    ASSUME NEW b \in Nat, NEW m \in Nat
    PROVE  \A n \in Nat : Power(Power(b, m), n) = Power(b, m * n)
<1> DEFINE M == Power(b, m)
           Good == {n \in Nat : Power(M, n) = Power(b, m * n)}
<1>1. M \in Nat
  BY PowerEquations
<1>2. 0 \in Good
  <2>1. Power(M, 0) = 1 /\ Power(b, 0) = 1 /\ m * 0 = 0
    BY <1>1, PowerEquations
  <2> QED
    BY <2>1
<1>3. ASSUME NEW n \in Nat, n \in Good PROVE n + 1 \in Good
  <2>1. m * n \in Nat /\ m * (n + 1) = m + m * n
    OBVIOUS
  <2>2. Power(b, m + m * n) = M * Power(b, m * n)
    BY <2>1, PowerAdd
  <2>3. Power(M, n + 1) = M * Power(M, n) /\ Power(M, n) = Power(b, m * n)
    BY <1>1, <1>3, PowerEquations
  <2> QED
    BY <2>1, <2>2, <2>3
<1> HIDE DEF Good
<1>4. \A n \in Nat : n \in Good
  BY <1>2, <1>3, Induction
<1> QED
  BY <1>4 DEF Good, M

(* A power exceeds its exponent, so that there are digits enough.          *)
LEMMA PowerExceeds ==
    ASSUME NEW b \in Nat, b > 1
    PROVE  \A n \in Nat : n < Power(b, n)
<1> DEFINE Good == {n \in Nat : n < Power(b, n)}
<1>1. 0 \in Good
  BY PowerEquations
<1>2. ASSUME NEW n \in Nat, n \in Good PROVE n + 1 \in Good
  <2> DEFINE N == Power(b, n)
  <2>1. N \in Nat /\ n < N /\ Power(b, n + 1) = b * N
    BY <1>2, PowerEquations
  <2> HIDE DEF N
  <2>2. PICK d \in Nat : b = 2 + d
    BY SMT
  <2>3. b * N = 2 * N + d * N /\ d * N \in Nat
    BY <2>1, <2>2
  <2> QED
    BY <2>1, <2>3
<1> HIDE DEF Good
<1>3. \A n \in Nat : n \in Good
  BY <1>1, <1>2, Induction
<1> QED
  BY <1>3 DEF Good

-----------------------------------------------------------------------------
(* Numbers and their digits.                                               *)
Reading(value, text) ==
    /\ value \in [0..Len(text) -> Nat]
    /\ value[0] = 0
    /\ \A i \in 1..Len(text) : value[i] = 10 * value[i - 1] + text[i]
    /\ Number(text) = value[Len(text)]

(* Number satisfies the equations it is defined by.                        *)
LEMMA NumberEquations ==
    ASSUME NEW text \in Seq(Nat)
    PROVE  \E value : Reading(value, text)
<1> DEFINE m == Len(text)
           step == [q \in (1..m) \X Nat |-> 10 * q[2] + text[q[1]]]
           equation(g) == g = [i \in 0..m |-> IF i = 0 THEN 0 ELSE 10 * g[i - 1] + text[i]]
<1>1. m \in Nat /\ \A i \in 1..m : text[i] \in Nat
  OBVIOUS
<1> HIDE DEF m
<1>2. step \in [(1..m) \X Nat -> Nat] /\ \A i \in 1..m, x \in Nat : step[<<i, x>>] = 10 * x + text[i]
  <2>1. \A q \in (1..m) \X Nat : 10 * q[2] + text[q[1]] \in Nat
    BY <1>1
  <2> QED
    BY <2>1
<1> HIDE DEF step
<1>3. PICK f : RecursiveTo(m, f, Nat, 0, step)
  BY <1>1, <1>2, FiniteRecursion
<1>4. f \in [0..m -> Nat] /\ f[0] = 0 /\ \A i \in 1..m : f[i] = 10 * f[i - 1] + text[i]
  <2>1. f \in [0..m -> Nat] /\ f[0] = 0 /\ \A i \in 1..m : f[i] = step[<<i, f[i - 1]>>]
    BY <1>3 DEF RecursiveTo
  <2>2. \A i \in 1..m : i - 1 \in 0..m /\ f[i - 1] \in Nat
    BY <1>1, <2>1
  <2> QED
    BY <1>2, <2>1, <2>2
<1>5. equation(f)
  <2>1. f = [i \in 0..m |-> f[i]]
    BY <1>4
  <2>2. ASSUME NEW i \in 0..m PROVE f[i] = IF i = 0 THEN 0 ELSE 10 * f[i - 1] + text[i]
    <3>1. i = 0 \/ i \in 1..m
      BY <1>1
    <3> QED
      BY <1>1, <1>4, <3>1
  <2> QED
    BY <2>1, <2>2
<1> DEFINE g == CHOOSE g : equation(g)
<1>6. equation(g)
  BY <1>5
<1>7. Number(text) = g[m]
  BY DEF Number, m
<1> HIDE DEF g
<1>8. g[0] = 0 /\ \A i \in 1..m : g[i] = 10 * g[i - 1] + text[i]
  <2>1. \A i \in 0..m : g[i] = IF i = 0 THEN 0 ELSE 10 * g[i - 1] + text[i]
    BY <1>6
  <2>2. 0 \in 0..m /\ \A i \in 1..m : i \in 0..m /\ i # 0
    BY <1>1
  <2> QED
    BY <2>1, <2>2
<1> DEFINE Good == {n \in Nat : n <= m => g[n] \in Nat}
<1>9. 0 \in Good
  BY <1>8
<1>10. ASSUME NEW n \in Nat, n \in Good PROVE n + 1 \in Good
  <2> SUFFICES ASSUME n + 1 <= m PROVE g[n + 1] \in Nat
    OBVIOUS
  <2>1. g[n] \in Nat /\ n + 1 \in 1..m /\ (n + 1) - 1 = n
    BY <1>1, <1>10
  <2>2. g[n + 1] = 10 * g[n] + text[n + 1] /\ text[n + 1] \in Nat
    BY <1>1, <1>8, <2>1
  <2> QED
    BY <2>1, <2>2
<1> HIDE DEF Good
<1>11. \A n \in Nat : n \in Good
  BY <1>9, <1>10, Induction
<1>12. g \in [0..m -> Nat]
  <2>1. \A i \in 0..m : g[i] \in Nat
    BY <1>1, <1>11 DEF Good
  <2>2. g = [i \in 0..m |-> g[i]]
    BY <1>6
  <2> QED
    BY <2>1, <2>2
<1>13. Reading(g, text)
  BY <1>7, <1>8, <1>12 DEF Reading, m
<1> QED
  BY <1>13

(* Reading is a matter of the equations.                                   *)
LEMMA ReadingUnique ==
    ASSUME NEW text \in Seq(Nat), NEW f \in [0..Len(text) -> Nat], f[0] = 0,
           \A i \in 1..Len(text) : f[i] = 10 * f[i - 1] + text[i]
    PROVE  Number(text) = f[Len(text)]
<1> DEFINE m == Len(text)
<1>1. PICK g : Reading(g, text)
  BY NumberEquations
<1>2. /\ m \in Nat /\ g[0] = 0 /\ Number(text) = g[m]
      /\ \A i \in 1..m : g[i] = 10 * g[i - 1] + text[i]
  BY <1>1 DEF Reading
<1>3. f[0] = 0 /\ \A i \in 1..m : f[i] = 10 * f[i - 1] + text[i]
  OBVIOUS
<1> HIDE DEF m
<1> DEFINE Good == {n \in Nat : n <= m => g[n] = f[n]}
<1>4. 0 \in Good
  BY <1>2, <1>3
<1>5. ASSUME NEW n \in Nat, n \in Good PROVE n + 1 \in Good
  <2> SUFFICES ASSUME n + 1 <= m PROVE g[n + 1] = f[n + 1]
    OBVIOUS
  <2>1. g[n] = f[n] /\ n + 1 \in 1..m /\ (n + 1) - 1 = n
    BY <1>2, <1>5
  <2> QED
    BY <1>2, <1>3, <2>1
<1> HIDE DEF Good
<1>6. m \in Good
  BY <1>2, <1>4, <1>5, Induction
<1> QED
  BY <1>2, <1>6 DEF Good, m

LEMMA NumberType ==
    ASSUME NEW text \in Seq(Nat)
    PROVE  Number(text) \in Nat
<1>1. PICK g : Reading(g, text)
  BY NumberEquations
<1> QED
  BY <1>1 DEF Reading

(* The digits of a text behind those of another one.                       *)
LEMMA NumberConcat ==
    ASSUME NEW s \in Seq(Nat), NEW t \in Seq(Nat)
    PROVE  Number(s \o t) = Number(s) * Power(10, Len(t)) + Number(t)
<1> DEFINE m == Len(s)
           n == Len(t)
           st == s \o t
<1>1. PICK f : Reading(f, s)
  BY NumberEquations
<1>2. PICK g : Reading(g, t)
  BY NumberEquations
<1>3. st \in Seq(Nat)
  OBVIOUS
<1>4. PICK h : Reading(h, st)
  BY <1>3, NumberEquations
<1>5. /\ m \in Nat /\ n \in Nat /\ Len(st) = m + n
      /\ \A i \in 1..m : st[i] = s[i]
      /\ \A i \in 1..n : st[m + i] = t[i]
      /\ \A i \in 1..n : t[i] \in Nat
  <2>1. /\ Len(st) = m + n /\ m \in Nat /\ n \in Nat
        /\ \A i \in 1..(m + n) : st[i] = IF i <= m THEN s[i] ELSE t[i - m]
    BY ConcatProperties
  <2> HIDE DEF m, n, st
  <2>2. \A i \in 1..m : i \in 1..(m + n) /\ i <= m
    BY <2>1
  <2>3. \A i \in 1..n : m + i \in 1..(m + n) /\ ~(m + i <= m) /\ (m + i) - m = i
    BY <2>1
  <2>4. \A i \in 1..n : t[i] \in Nat
    BY DEF n
  <2> QED
    BY <2>1, <2>2, <2>3, <2>4
<1>6. /\ f \in [0..m -> Nat] /\ f[0] = 0 /\ Number(s) = f[m]
      /\ \A i \in 1..m : f[i] = 10 * f[i - 1] + s[i]
      /\ g \in [0..n -> Nat] /\ g[0] = 0 /\ Number(t) = g[n]
      /\ \A i \in 1..n : g[i] = 10 * g[i - 1] + t[i]
  BY <1>1, <1>2 DEF Reading
<1>7. /\ h[0] = 0 /\ Number(st) = h[m + n]
      /\ \A i \in 1..(m + n) : h[i] = 10 * h[i - 1] + st[i]
  BY <1>4, <1>5 DEF Reading
<1> HIDE DEF m, n, st
<1> DEFINE Front1 == {i \in Nat : i <= m => h[i] = f[i]}
<1>8. 0 \in Front1
  BY <1>6, <1>7
<1>9. ASSUME NEW i \in Nat, i \in Front1 PROVE i + 1 \in Front1
  <2> SUFFICES ASSUME i + 1 <= m PROVE h[i + 1] = f[i + 1]
    OBVIOUS
  <2>1. h[i] = f[i] /\ i + 1 \in 1..m /\ i + 1 \in 1..(m + n) /\ (i + 1) - 1 = i
    BY <1>5, <1>9
  <2>2. h[i + 1] = 10 * h[i] + st[i + 1]
    BY <1>7, <2>1
  <2>3. f[i + 1] = 10 * f[i] + s[i + 1]
    BY <1>6, <2>1
  <2>4. st[i + 1] = s[i + 1]
    BY <1>5, <2>1
  <2> QED
    BY <2>1, <2>2, <2>3, <2>4
<1> HIDE DEF Front1
<1>10. m \in Front1
  BY <1>5, <1>8, <1>9, Induction
<1>11. h[m] = f[m]
  BY <1>5, <1>10 DEF Front1
<1> DEFINE Back == {i \in Nat : i <= n => h[m + i] = f[m] * Power(10, i) + g[i]}
<1>12. f[m] \in Nat /\ \A i \in Nat : i <= n => g[i] \in Nat
  BY <1>5, <1>6
<1>13. 0 \in Back
  <2>1. Power(10, 0) = 1 /\ m + 0 = m
    BY <1>5, PowerEquations
  <2> QED
    BY <1>6, <1>11, <1>12, <2>1
<1>14. ASSUME NEW i \in Nat, i \in Back PROVE i + 1 \in Back
  <2> SUFFICES ASSUME i + 1 <= n PROVE h[m + (i + 1)] = f[m] * Power(10, i + 1) + g[i + 1]
    OBVIOUS
  <2>1. /\ h[m + i] = f[m] * Power(10, i) + g[i] /\ i + 1 \in 1..n /\ (i + 1) - 1 = i
        /\ m + (i + 1) \in 1..(m + n) /\ (m + (i + 1)) - 1 = m + i
    BY <1>5, <1>14
  <2>2. h[m + (i + 1)] = 10 * h[m + i] + t[i + 1] /\ g[i + 1] = 10 * g[i] + t[i + 1]
    BY <1>5, <1>6, <1>7, <2>1
  <2> DEFINE P == Power(10, i)
             F == f[m]
             G == g[i]
             T == t[i + 1]
  <2>3. P \in Nat /\ Power(10, i + 1) = 10 * P
    BY PowerEquations
  <2>4. F \in Nat /\ G \in Nat /\ T \in Nat
    BY <1>5, <1>12, <2>1
  <2> HIDE DEF P, F, G, T
  <2>5. 10 * (F * P + G) + T = F * (10 * P) + (10 * G + T)
    BY <2>3, <2>4
  <2> QED
    BY <2>1, <2>2, <2>3, <2>5 DEF P, F, G, T
<1> HIDE DEF Back
<1>15. n \in Back
  BY <1>5, <1>13, <1>14, Induction
<1>16. h[m + n] = f[m] * Power(10, n) + g[n]
  BY <1>5, <1>15 DEF Back
<1> QED
  BY <1>6, <1>7, <1>16 DEF n, st

(* There are digits enough, and no more than needed.                       *)
LEMMA DigitCountProperties ==
    ASSUME NEW num \in Nat, NEW base \in Nat, base > 1
    PROVE  /\ DigitCount(num, base) \in Nat \ {0}
           /\ num < Power(base, DigitCount(num, base))
           /\ DigitCount(num, base) = 1 \/ num >= Power(base, DigitCount(num, base) - 1)
<1> DEFINE Enough(k) == num < Power(base, k) /\ (k = 1 \/ num >= Power(base, k - 1))
           Few == {n \in Nat : num >= Power(base, n) \/ n = 0}
<1>1. SUFFICES \E k \in 1..(num + 1) : Enough(k)
  BY <1>1 DEF DigitCount
<1>2. SUFFICES ASSUME \A k \in 1..(num + 1) : ~Enough(k) PROVE FALSE
  OBVIOUS
<1>3. \A k \in Nat : Power(base, k) \in Nat /\ k < Power(base, k)
  BY PowerEquations, PowerExceeds
<1> DEFINE Good == {n \in Nat : n <= num + 1 => n \in Few}
<1>4. 0 \in Good
  OBVIOUS
<1>5. ASSUME NEW n \in Nat, n \in Good PROVE n + 1 \in Good
  <2> SUFFICES ASSUME n + 1 <= num + 1 PROVE num >= Power(base, n + 1)
    OBVIOUS
  <2>1. n + 1 \in 1..(num + 1) /\ (n + 1) - 1 = n /\ (num >= Power(base, n) \/ n = 0)
    BY <1>5
  <2>2. ~(num < Power(base, n + 1))
    BY <1>2, <2>1
  <2> QED
    BY <1>3, <2>2
<1> HIDE DEF Good
<1>6. num + 1 \in Good
  <2>1. \A n \in Nat : n \in Good
    BY <1>4, <1>5, Induction
  <2> QED
    BY <2>1
<1>7. num >= Power(base, num + 1)
  BY <1>6 DEF Good
<1>8. num + 1 < Power(base, num + 1) /\ Power(base, num + 1) \in Nat
  BY <1>3
<1> QED
  BY <1>7, <1>8

(* The width of a decimal: the wanted one, if the number has no more       *)
(* digits than that.                                                       *)
Width(num, width) ==
    IF DigitCount(num, 10) > width THEN DigitCount(num, 10) ELSE width

LEMMA DecimalType ==
    ASSUME NEW num \in Nat, NEW width \in Nat
    PROVE  /\ Width(num, width) \in Nat \ {0}
           /\ num < Power(10, Width(num, width))
           /\ Decimal(num, width) \in Seq(0..9)
           /\ Len(Decimal(num, width)) = Width(num, width)
           /\ \A i \in 1..Width(num, width) :
                Decimal(num, width)[i] = (num \div Power(10, Width(num, width) - i)) % 10
<1> DEFINE k == Width(num, width)
           len == DigitCount(num, 10)
<1>1. len \in Nat \ {0} /\ num < Power(10, len)
  BY DigitCountProperties
<1>2. k \in Nat \ {0} /\ k >= len
  BY <1>1 DEF Width
<1>3. Decimal(num, width) = [i \in 1..k |-> (num \div Power(10, k - i)) % 10]
  BY DEF Decimal, Width
<1>4. num < Power(10, k)
  <2> HIDE DEF k, len
  <2>1. PICK d \in Nat : k = len + d
    BY <1>1, <1>2
  <2>2. Power(10, k) = Power(10, len) * Power(10, d)
    BY <1>1, <2>1, PowerAdd
  <2>3. Power(10, d) \in Nat /\ Power(10, d) > 0 /\ Power(10, len) \in Nat
    BY <1>1, PowerOfTen
  <2> DEFINE L == Power(10, len)
             D == Power(10, d)
  <2> HIDE DEF L, D
  <2>4. PICK e \in Nat : D = 1 + e
    BY <2>3 DEF D
  <2>5. L * D = L + L * e /\ L * e \in Nat /\ L \in Nat
    BY <2>3, <2>4 DEF L
  <2>6. num < L * D
    BY <1>1, <2>5 DEF L
  <2> QED
    BY <2>2, <2>6 DEF L, D
<1> HIDE DEF k
<1>5. \A i \in 1..k : (num \div Power(10, k - i)) % 10 \in 0..9
  <2> SUFFICES ASSUME NEW i \in 1..k PROVE (num \div Power(10, k - i)) % 10 \in 0..9
    OBVIOUS
  <2>1. k - i \in Nat
    BY <1>2
  <2>2. Power(10, k - i) \in Nat /\ Power(10, k - i) > 0
    BY <2>1, PowerOfTen
  <2>3. num \div Power(10, k - i) \in Nat
    BY <2>2, DivMod
  <2> QED
    BY <2>3, DivMod
<1> QED
  BY <1>2, <1>3, <1>4, <1>5 DEF k

LEMMA DigitsAreNumbers ==
    ASSUME NEW text \in Seq(0..9)
    PROVE  text \in Seq(Nat)
<1>1. 0..9 \subseteq Nat
  OBVIOUS
<1> QED
  BY <1>1, SeqMonotonic

(* What is written can be read.                                            *)
LEMMA NumberDecimal ==
    ASSUME NEW num \in Nat, NEW width \in Nat
    PROVE  Number(Decimal(num, width)) = num
<1> DEFINE text == Decimal(num, width)
           k == Width(num, width)
           f == [i \in 0..k |-> num \div Power(10, k - i)]
<1>1. /\ k \in Nat \ {0} /\ num < Power(10, k) /\ text \in Seq(0..9) /\ Len(text) = k
      /\ \A i \in 1..k : text[i] = (num \div Power(10, k - i)) % 10
  BY DecimalType
<1>2. text \in Seq(Nat)
  BY <1>1, DigitsAreNumbers
<1> HIDE DEF text, k
<1>3. \A i \in 0..k : k - i \in Nat /\ Power(10, k - i) \in Nat /\ Power(10, k - i) > 0
  <2>1. \A i \in 0..k : k - i \in Nat
    BY <1>1
  <2> QED
    BY <2>1, PowerOfTen
<1>4. \A i \in 0..k : num \div Power(10, k - i) \in Nat
  BY <1>3, DivMod
<1>5. f \in [0..k -> Nat]
  BY <1>4
<1>6. f[0] = 0
  <2>1. f[0] = num \div Power(10, k) /\ Power(10, k) \in Nat
    <3>1. 0 \in 0..k /\ k - 0 = k
      BY <1>1
    <3> QED
      BY <1>3, <3>1
  <2> QED
    BY <1>1, <2>1, DivSmall
<1>7. ASSUME NEW i \in 1..k PROVE f[i] = 10 * f[i - 1] + text[i]
  <2>1. i \in 0..k /\ i - 1 \in 0..k /\ k - (i - 1) = (k - i) + 1 /\ k - i \in Nat
    BY <1>1
  <2> DEFINE P == Power(10, k - i)
             y == num \div P
  <2>2. P \in Nat /\ P > 0 /\ Power(10, k - (i - 1)) = 10 * P
    BY <1>3, <2>1, PowerEquations
  <2>3. y \in Nat /\ f[i] = y
    BY <1>4, <2>1
  <2>4. f[i - 1] = num \div (P * 10)
    <3>1. f[i - 1] = num \div Power(10, k - (i - 1))
      BY <2>1
    <3>2. 10 * P = P * 10
      BY <2>2
    <3> QED
      BY <2>2, <3>1, <3>2
  <2> HIDE DEF P, f
  <2>5. num \div (P * 10) = y \div 10
    BY <2>2, DivDiv
  <2>6. text[i] = y % 10
    BY <1>1 DEF P
  <2> HIDE DEF y
  <2>7. y = 10 * (y \div 10) + (y % 10)
    BY <2>3, DivMod
  <2> QED
    BY <2>3, <2>4, <2>5, <2>6, <2>7
<1>8. f[k] = num
  <2>1. k \in 0..k /\ k - k = 0 /\ Power(10, 0) = 1
    BY <1>1, PowerEquations
  <2>2. f[k] = num \div 1
    BY <2>1
  <2> QED
    BY <2>2, DivOne
<1> HIDE DEF f
<1>9. Number(text) = f[k]
  BY <1>1, <1>2, <1>5, <1>6, <1>7, ReadingUnique
<1> QED
  BY <1>8, <1>9 DEF text

(* A number that fits has exactly the digits it is padded to.              *)
LEMMA DecimalFits ==
    ASSUME NEW num \in Nat, NEW width \in Nat \ {0}, num < Power(10, width)
    PROVE  Len(Decimal(num, width)) = width
<1> DEFINE len == DigitCount(num, 10)
<1>1. /\ len \in Nat \ {0} /\ num < Power(10, len) /\ (len = 1 \/ num >= Power(10, len - 1))
  BY DigitCountProperties
<1>2. Len(Decimal(num, width)) = Width(num, width)
  BY DecimalType
<1> HIDE DEF len
<1>3. SUFFICES ASSUME len > width PROVE FALSE
  BY <1>1, <1>2, <1>3 DEF Width, len
<1>4. len # 1 /\ num >= Power(10, len - 1)
  BY <1>1, <1>3
<1>5. PICK d \in Nat : len - 1 = width + d
  <2>1. (len - 1) - width \in Nat
    BY <1>1, <1>3
  <2> QED
    BY <2>1, <1>1
<1>6. Power(10, len - 1) = Power(10, width) * Power(10, d)
  BY <1>5, PowerAdd
<1> DEFINE W == Power(10, width)
           D == Power(10, d)
<1>7. W \in Nat /\ D \in Nat /\ D > 0
  BY PowerOfTen
<1> HIDE DEF W, D
<1>8. PICK e \in Nat : D = 1 + e
  BY <1>7
<1>9. W * D = W + W * e /\ W * e \in Nat
  BY <1>7, <1>8
<1> QED
  BY <1>4, <1>6, <1>7, <1>9 DEF W, D

-----------------------------------------------------------------------------
(* Filters.                                                                *)
Keeps(kept, s, S, T) ==
    /\ kept \in [0..Len(s) -> Seq(T)]
    /\ kept[0] = <<>>
    /\ \A i \in 1..Len(s) :
          kept[i] = IF s[i] \in S THEN Append(kept[i - 1], s[i]) ELSE kept[i - 1]
    /\ Filter(s, S) = kept[Len(s)]

(* Filter satisfies the equations it is defined by.                        *)
LEMMA FilterEquations ==
    ASSUME NEW T, NEW S, NEW s \in Seq(T)
    PROVE  \E kept : Keeps(kept, s, S, T)
<1> DEFINE m == Len(s)
           X == Seq(T)
           Next1(i, p) == IF s[i] \in S THEN Append(p, s[i]) ELSE p
           step == [q \in (1..m) \X X |-> Next1(q[1], q[2])]
           equation(g) == g = [i \in 0..m |-> IF i = 0 THEN <<>> ELSE Next1(i, g[i - 1])]
<1>1. m \in Nat /\ \A i \in 1..m : s[i] \in T
  OBVIOUS
<1>2. <<>> \in X
  OBVIOUS
<1>3. ASSUME NEW i \in 1..m, NEW p \in X PROVE Next1(i, p) \in X
  BY <1>1
<1> HIDE DEF Next1, X, m
<1>4. step \in [(1..m) \X X -> X]
  BY <1>3
<1>5. \A i \in 1..m, p \in X : step[<<i, p>>] = Next1(i, p)
  OBVIOUS
<1> HIDE DEF step
<1>6. PICK f : RecursiveTo(m, f, X, <<>>, step)
  BY <1>1, <1>2, <1>4, FiniteRecursion
<1>7. /\ f \in [0..m -> X] /\ f[0] = <<>>
      /\ \A i \in 1..m : f[i] = Next1(i, f[i - 1])
  <2>1. \A i \in 1..m : i - 1 \in 0..m
    BY <1>1
  <2> QED
    BY <1>5, <1>6, <2>1 DEF RecursiveTo
<1>8. equation(f)
  <2>1. f = [i \in 0..m |-> f[i]]
    BY <1>7
  <2>2. ASSUME NEW i \in 0..m PROVE f[i] = IF i = 0 THEN <<>> ELSE Next1(i, f[i - 1])
    <3>1. i = 0 \/ i \in 1..m
      BY <1>1
    <3> QED
      BY <1>1, <1>7, <3>1
  <2> QED
    BY <2>1, <2>2
<1> DEFINE g == CHOOSE g : equation(g)
<1>9. equation(g)
  BY <1>8
<1>10. Filter(s, S) = g[m]
  BY DEF Filter, m, Next1
<1> HIDE DEF g
<1>11. g[0] = <<>> /\ \A i \in 1..m : g[i] = Next1(i, g[i - 1])
  <2>1. \A i \in 0..m : g[i] = IF i = 0 THEN <<>> ELSE Next1(i, g[i - 1])
    BY <1>9
  <2>2. 0 \in 0..m /\ \A i \in 1..m : i \in 0..m /\ i # 0
    BY <1>1
  <2> QED
    BY <2>1, <2>2
<1>12. g \in [0..m -> X]
  <2> DEFINE Good == {n \in Nat : n <= m => g[n] \in X}
  <2>1. 0 \in Good
    BY <1>2, <1>11
  <2>2. ASSUME NEW n \in Nat, n \in Good PROVE n + 1 \in Good
    <3> SUFFICES ASSUME n + 1 <= m PROVE g[n + 1] \in X
      OBVIOUS
    <3>1. g[n] \in X /\ n + 1 \in 1..m /\ (n + 1) - 1 = n
      BY <1>1, <2>2
    <3> QED
      BY <1>3, <1>11, <3>1
  <2> HIDE DEF Good
  <2>3. \A n \in Nat : n \in Good
    BY <2>1, <2>2, Induction
  <2>4. \A i \in 0..m : g[i] \in X
    BY <1>1, <2>3 DEF Good
  <2>5. g = [i \in 0..m |-> g[i]]
    BY <1>9
  <2> QED
    BY <2>4, <2>5
<1>13. Keeps(g, s, S, T)
  BY <1>10, <1>11, <1>12 DEF Keeps, m, X, Next1
<1> QED
  BY <1>13

(* Nothing is kept of a sequence that is disjoint from the set, and all of *)
(* one that lies in it.                                                    *)
LEMMA FilterNone ==
    ASSUME NEW T, NEW S, NEW s \in Seq(T), \A i \in 1..Len(s) : s[i] \notin S
    PROVE  Filter(s, S) = <<>>
<1> DEFINE m == Len(s)
<1>1. PICK g : Keeps(g, s, S, T)
  BY FilterEquations
<1>2. m \in Nat /\ g[0] = <<>> /\ Filter(s, S) = g[m] /\ \A i \in 1..m : g[i] = g[i - 1]
  BY <1>1 DEF Keeps
<1> HIDE DEF m
<1> DEFINE Good == {n \in Nat : n <= m => g[n] = <<>>}
<1>3. 0 \in Good
  BY <1>2
<1>4. ASSUME NEW n \in Nat, n \in Good PROVE n + 1 \in Good
  <2> SUFFICES ASSUME n + 1 <= m PROVE g[n + 1] = <<>>
    OBVIOUS
  <2>1. g[n] = <<>> /\ n + 1 \in 1..m /\ (n + 1) - 1 = n
    BY <1>2, <1>4
  <2> QED
    BY <1>2, <2>1
<1> HIDE DEF Good
<1>5. m \in Good
  BY <1>2, <1>3, <1>4, Induction
<1> QED
  BY <1>2, <1>5 DEF Good

LEMMA FilterAll ==
    ASSUME NEW S, NEW s \in Seq(S)
    PROVE  Filter(s, S) = s
<1> DEFINE m == Len(s)
<1>1. PICK g : Keeps(g, s, S, S)
  BY FilterEquations
<1>2. m \in Nat /\ \A i \in 1..m : s[i] \in S
  OBVIOUS
<1>3. /\ g[0] = <<>> /\ Filter(s, S) = g[m]
      /\ \A i \in 1..m : g[i] = Append(g[i - 1], s[i])
  BY <1>1, <1>2 DEF Keeps
<1>4. /\ SubSeq(s, 1, 0) = <<>> /\ SubSeq(s, 1, m) = s
      /\ \A n \in Nat : n + 1 <= m => SubSeq(s, 1, n + 1) = Append(SubSeq(s, 1, n), s[n + 1])
  <2>1. SubSeq(s, 1, 0) = <<>> /\ SubSeq(s, 1, m) = s
    BY SubSeqEmpty, SubSeqFull
  <2>2. ASSUME NEW n \in Nat, n + 1 <= m PROVE SubSeq(s, 1, n + 1) = Append(SubSeq(s, 1, n), s[n + 1])
    BY <1>2, <2>2
  <2> QED
    BY <2>1, <2>2
<1> HIDE DEF m
<1> DEFINE Good == {n \in Nat : n <= m => g[n] = SubSeq(s, 1, n)}
<1>5. 0 \in Good
  BY <1>3, <1>4
<1>6. ASSUME NEW n \in Nat, n \in Good PROVE n + 1 \in Good
  <2> SUFFICES ASSUME n + 1 <= m PROVE g[n + 1] = SubSeq(s, 1, n + 1)
    OBVIOUS
  <2>1. g[n] = SubSeq(s, 1, n) /\ n + 1 \in 1..m /\ (n + 1) - 1 = n
    BY <1>2, <1>6
  <2>2. g[n + 1] = Append(g[n], s[n + 1])
    BY <1>3, <2>1
  <2> QED
    BY <1>4, <2>1, <2>2
<1> HIDE DEF Good
<1>7. m \in Good
  BY <1>2, <1>5, <1>6, Induction
<1> QED
  BY <1>2, <1>3, <1>4, <1>7 DEF Good

LEMMA FilterConcat ==
    ASSUME NEW T, NEW S, NEW s \in Seq(T), NEW t \in Seq(T)
    PROVE  Filter(s \o t, S) = Filter(s, S) \o Filter(t, S)
<1> DEFINE m == Len(s)
           n == Len(t)
           st == s \o t
<1>1. PICK f : Keeps(f, s, S, T)
  BY FilterEquations
<1>2. PICK g : Keeps(g, t, S, T)
  BY FilterEquations
<1>3. st \in Seq(T)
  OBVIOUS
<1>4. PICK h : Keeps(h, st, S, T)
  BY <1>3, FilterEquations
<1>5. /\ m \in Nat /\ n \in Nat /\ Len(st) = m + n
      /\ \A i \in 1..m : st[i] = s[i]
      /\ \A i \in 1..n : st[m + i] = t[i]
      /\ \A i \in 1..n : t[i] \in T
  <2>1. /\ Len(st) = m + n /\ m \in Nat /\ n \in Nat
        /\ \A i \in 1..(m + n) : st[i] = IF i <= m THEN s[i] ELSE t[i - m]
    BY ConcatProperties
  <2> HIDE DEF m, n, st
  <2>2. \A i \in 1..m : i \in 1..(m + n) /\ i <= m
    BY <2>1
  <2>3. \A i \in 1..n : m + i \in 1..(m + n) /\ ~(m + i <= m) /\ (m + i) - m = i
    BY <2>1
  <2>4. \A i \in 1..n : t[i] \in T
    BY DEF n
  <2> QED
    BY <2>1, <2>2, <2>3, <2>4
<1>6. /\ f \in [0..m -> Seq(T)] /\ f[0] = <<>> /\ Filter(s, S) = f[m]
      /\ \A i \in 1..m : f[i] = IF s[i] \in S THEN Append(f[i - 1], s[i]) ELSE f[i - 1]
      /\ g \in [0..n -> Seq(T)] /\ g[0] = <<>> /\ Filter(t, S) = g[n]
      /\ \A i \in 1..n : g[i] = IF t[i] \in S THEN Append(g[i - 1], t[i]) ELSE g[i - 1]
  BY <1>1, <1>2 DEF Keeps
<1>7. /\ h[0] = <<>> /\ Filter(st, S) = h[m + n]
      /\ \A i \in 1..(m + n) : h[i] = IF st[i] \in S THEN Append(h[i - 1], st[i]) ELSE h[i - 1]
  BY <1>4, <1>5 DEF Keeps
<1> HIDE DEF m, n, st
<1> DEFINE Front1 == {i \in Nat : i <= m => h[i] = f[i]}
<1>8. 0 \in Front1
  BY <1>6, <1>7
<1>9. ASSUME NEW i \in Nat, i \in Front1 PROVE i + 1 \in Front1
  <2> SUFFICES ASSUME i + 1 <= m PROVE h[i + 1] = f[i + 1]
    OBVIOUS
  <2>1. h[i] = f[i] /\ i + 1 \in 1..m /\ i + 1 \in 1..(m + n) /\ (i + 1) - 1 = i
    BY <1>5, <1>9
  <2>2. st[i + 1] = s[i + 1]
    BY <1>5, <2>1
  <2> QED
    BY <1>6, <1>7, <2>1, <2>2
<1> HIDE DEF Front1
<1>10. m \in Front1
  BY <1>5, <1>8, <1>9, Induction
<1>11. h[m] = f[m]
  BY <1>5, <1>10 DEF Front1
<1> DEFINE Follows(i) == h[m + i] = f[m] \o g[i]
           Back == {i \in Nat : i <= n => Follows(i)}
<1>12. f[m] \in Seq(T) /\ \A i \in Nat : i <= n => g[i] \in Seq(T)
  <2>1. m \in 0..m /\ \A i \in Nat : i <= n => i \in 0..n
    BY <1>5
  <2> QED
    BY <1>6, <2>1
<1>13. 0 \in Back
  <2>1. f[m] \o <<>> = f[m]
    BY <1>12, ConcatEmptySeq
  <2>2. m + 0 = m
    BY <1>5
  <2>3. Follows(0)
    BY <1>6, <1>11, <2>1, <2>2
  <2> HIDE DEF Follows
  <2> QED
    BY <2>3
<1>14. ASSUME NEW i \in Nat, i \in Back PROVE i + 1 \in Back
  <2> HIDE DEF Follows
  <2> SUFFICES ASSUME i + 1 <= n PROVE Follows(i + 1)
    OBVIOUS
  <2>1. /\ Follows(i) /\ i + 1 \in 1..n /\ (i + 1) - 1 = i
        /\ m + (i + 1) \in 1..(m + n) /\ (m + (i + 1)) - 1 = m + i
        /\ g[i] \in Seq(T) /\ t[i + 1] \in T
    BY <1>5, <1>12, <1>14
  <2>2. st[m + (i + 1)] = t[i + 1]
    BY <1>5, <2>1
  <2>3. h[m + (i + 1)] = IF t[i + 1] \in S THEN Append(h[m + i], t[i + 1]) ELSE h[m + i]
    BY <1>7, <2>1, <2>2
  <2>4. g[i + 1] = IF t[i + 1] \in S THEN Append(g[i], t[i + 1]) ELSE g[i]
    BY <1>6, <2>1
  <2>5. Append(f[m] \o g[i], t[i + 1]) = f[m] \o Append(g[i], t[i + 1])
    <3> DEFINE F == f[m]
               G == g[i]
               c == t[i + 1]
    <3>1. F \in Seq(T) /\ G \in Seq(T) /\ c \in T
      BY <1>12, <2>1
    <3> HIDE DEF F, G, c
    <3>2. Append(F \o G, c) = (F \o G) \o <<c>> /\ Append(G, c) = G \o <<c>>
      BY <3>1, AppendIsConcat
    <3> DEFINE one == <<c>>
    <3>3. one \in Seq(T)
      BY <3>1
    <3> HIDE DEF one
    <3>4. Regroups(F, G, one)
      BY <3>1, <3>3, Associative
    <3>5. (F \o G) \o one = F \o (G \o one)
      BY <3>4 DEF Regroups
    <3>6. Append(F \o G, c) = F \o Append(G, c)
      BY <3>2, <3>5 DEF one
    <3> QED
      BY <3>6 DEF F, G, c
  <2> QED
    BY <2>1, <2>3, <2>4, <2>5 DEF Follows
<1> HIDE DEF Back
<1>15. n \in Back
  BY <1>5, <1>13, <1>14, Induction
<1> HIDE DEF Follows
<1>16. Follows(n)
  BY <1>5, <1>15 DEF Back
<1> QED
  BY <1>6, <1>7, <1>16 DEF st, Follows

-----------------------------------------------------------------------------
(* Times as texts.                                                         *)
LEMMA GroupType == Group \in Nat /\ Group > 1 /\ Digits \in Nat \ {0} /\ Units \in Nat \ {0, 1}
<1>1. Digits \in Nat \ {0} /\ Units \in Nat \ {0, 1}
  BY TimePointAssumption
<1>2. Group \in Nat /\ Digits < Group
  BY <1>1, PowerOfTen, PowerExceeds DEF Group
<1> QED
  BY <1>1, <1>2

LEMMA ScaleType ==
    ASSUME NEW unit \in 1..Units
    PROVE  Scale(unit) \in Nat /\ Scale(unit) > 0
<1>1. unit - 1 \in Nat
  BY GroupType
<1> QED
  BY <1>1, GroupType, PowerPositive DEF Scale

LEMMA ResolutionType ==
    /\ RESOLUTION \in Nat /\ RESOLUTION > 0
    /\ Digits * (Units - 1) \in Nat \ {0}
    /\ RESOLUTION = Power(10, Digits * (Units - 1))
<1>1. Units \in 1..Units /\ Units - 1 \in Nat /\ Units - 1 > 0 /\ Digits \in Nat /\ Digits > 0
  BY GroupType
<1>2. RESOLUTION \in Nat /\ RESOLUTION > 0
  BY <1>1, ScaleType DEF RESOLUTION
<1>3. Digits * (Units - 1) \in Nat /\ Digits * (Units - 1) > 0
  BY <1>1, Product
<1>4. Power(Power(10, Digits), Units - 1) = Power(10, Digits * (Units - 1))
  BY <1>1, PowerPower
<1> QED
  BY <1>2, <1>3, <1>4 DEF RESOLUTION, Scale, Group

(* A decimal is a number to the expressions of time.ts.                    *)
LEMMA DecimalIsNumber ==
    ASSUME NEW num \in Nat, NEW width \in Nat
    PROVE  IsNumber(Decimal(num, width))
<1> DEFINE text == Decimal(num, width)
<1>1. text \in Seq(0..9) /\ Len(text) \in Nat \ {0}
  BY DecimalType
<1> HIDE DEF text
<1>2. text # <<>> /\ \A i \in DOMAIN text : text[i] \in 0..9
  BY <1>1, EmptySeq
<1> QED
  BY <1>2 DEF IsNumber, Comma, text

(* The text of a time in the protocol: as many digits behind the point as  *)
(* the resolution has, and read as the same time whether they are taken    *)
(* for a fraction or for a number of femtoseconds.                         *)
LEMMA TimeText ==
    ASSUME NEW t \in Nat
    PROVE  /\ toCXXRTL(t) = ServerWrites(t)
           /\ ServerReads(toCXXRTL(t)) = t
           /\ fromCXXRTL(toCXXRTL(t)) = t
<1> DEFINE D == Digits * (Units - 1)
           R == RESOLUTION
           secs == Secs(t)
           femtos == Femtos(t)
           a == Decimal(secs, 1)
           b == Decimal(femtos, D)
<1>1. R \in Nat /\ R > 0 /\ D \in Nat \ {0} /\ R = Power(10, D)
  BY ResolutionType
<1>2. secs \in Nat /\ femtos \in 0..(R - 1) /\ t = R * secs + femtos
  BY <1>1, DivMod DEF Secs, Femtos
<1>3. toCXXRTL(t) = <<a, b>> /\ ServerWrites(t) = <<a, b>>
  BY DEF toCXXRTL, ServerWrites
<1> HIDE DEF secs, femtos, D, R
<1>4. femtos \in Nat /\ femtos < Power(10, D)
  BY <1>1, <1>2
<1>5. Number(a) = secs /\ Number(b) = femtos /\ Len(b) = D
  BY <1>1, <1>2, <1>4, NumberDecimal, DecimalFits
<1>0. IsNumber(a) /\ IsNumber(b)
  BY <1>1, <1>2, <1>4, DecimalIsNumber
<1> HIDE DEF a, b
<1>6. secs * R + femtos = t
  BY <1>1, <1>2
<1>7. fromCXXRTL(<<a, b>>) = secs * R + femtos
  BY <1>0, <1>5 DEF fromCXXRTL, R
<1>8. ServerReads(<<a, b>>) = secs * R + femtos
  <2>1. Len(b) = Digits * (Units - 1) /\ D - D = 0 /\ Power(10, 0) = 1
    BY <1>1, <1>5, PowerEquations DEF D
  <2>2. ServerReads(<<a, b>>) = Number(a) * R + Number(b) * Power(10, D - D)
    BY <1>5 DEF ServerReads, R, D
  <2>3. femtos * 1 = femtos
    BY <1>4
  <2> QED
    BY <1>5, <2>1, <2>2, <2>3
<1> QED
  BY <1>3, <1>6, <1>7, <1>8

(* Without its separators the text of a grouped number is that number.     *)
LEMMA GroupedReads ==
    ASSUME NEW num \in Nat
    PROVE  Number(RemoveCommas(GroupDecimals(num))) = num
<1> DEFINE k == DigitCount(num, Group)
           group(i) == (num \div Power(Group, k - i)) % Group
           piece(i) == IF i = 1 THEN Decimal(group(i), 1) ELSE <<Comma>> \o Decimal(group(i), Digits)
           pieces == [i \in 1..k |-> piece(i)]
           D == 0..9
           T == D \cup {Comma}
           high(i) == num \div Power(Group, k - i)
<1>1. k \in Nat \ {0} /\ num < Power(Group, k)
  BY GroupType, DigitCountProperties
<1>2. GroupDecimals(num) = FlattenSeq(pieces)
  BY DEF GroupDecimals
<1> HIDE DEF k
<1>3. \A i \in 0..k : k - i \in Nat /\ Power(Group, k - i) \in Nat /\ Power(Group, k - i) > 0
  <2>1. \A i \in 0..k : k - i \in Nat
    BY <1>1
  <2> QED
    BY <2>1, GroupType, PowerPositive
<1>4. \A i \in 0..k : high(i) \in Nat
  BY <1>3, DivMod
<1>5. high(0) = 0 /\ high(k) = num
  <2>1. k - 0 = k /\ k - k = 0 /\ Power(Group, 0) = 1 /\ Power(Group, k) \in Nat
    BY <1>1, GroupType, PowerEquations
  <2> QED
    BY <1>1, <2>1, DivSmall, DivOne
<1>6. ASSUME NEW i \in 1..k PROVE high(i) = Group * high(i - 1) + group(i) /\ group(i) \in 0..(Group - 1)
  <2>1. i \in 0..k /\ i - 1 \in 0..k /\ k - (i - 1) = (k - i) + 1 /\ k - i \in Nat
    BY <1>1
  <2> DEFINE P == Power(Group, k - i)
             y == num \div P
  <2>2. P \in Nat /\ P > 0 /\ Power(Group, k - (i - 1)) = Group * P
    BY <1>3, <2>1, GroupType, PowerEquations
  <2>3. y \in Nat /\ high(i) = y /\ group(i) = y % Group
    BY <1>4, <2>1
  <2>4. high(i - 1) = num \div (P * Group)
    <3>1. Group * P = P * Group
      BY <2>2, GroupType
    <3> QED
      BY <2>2, <3>1
  <2> HIDE DEF P, high, group
  <2>5. num \div (P * Group) = y \div Group
    BY <2>2, GroupType, DivDiv
  <2> HIDE DEF y
  <2>6. y = Group * (y \div Group) + (y % Group) /\ y % Group \in 0..(Group - 1)
    BY <2>3, GroupType, DivMod
  <2> QED
    BY <2>3, <2>4, <2>5, <2>6
<1> HIDE DEF high, group
<1>7. \A i \in 1..k : group(i) \in Nat /\ group(i) < Power(10, Digits)
  BY <1>6, GroupType DEF Group
<1>8. ASSUME NEW i \in 1..k, NEW width \in Nat PROVE Decimal(group(i), width) \in Seq(D)
  BY <1>7, DecimalType
<1>9. ASSUME NEW text \in Seq(D) PROVE text \in Seq(T)
  BY SeqMonotonic
<1>10. <<Comma>> \in Seq(T)
  OBVIOUS
<1>11. \A i \in 1..k : piece(i) \in Seq(T)
  <2> SUFFICES ASSUME NEW i \in 1..k PROVE piece(i) \in Seq(T)
    OBVIOUS
  <2>1. Decimal(group(i), 1) \in Seq(T) /\ Decimal(group(i), Digits) \in Seq(T)
    BY <1>8, <1>9, GroupType
  <2> DEFINE c == <<Comma>>
             b == Decimal(group(i), Digits)
  <2> HIDE DEF c, b
  <2>2. c \o b \in Seq(T)
    BY <1>10, <2>1, ConcatProperties DEF c, b
  <2> QED
    BY <2>1, <2>2 DEF c, b
<1> HIDE DEF piece
<1>12. pieces \in Seq(Seq(T)) /\ Len(pieces) = k /\ pieces # <<>>
  <2>1. pieces \in [1..k -> Seq(T)]
    BY <1>11
  <2> HIDE DEF pieces, T
  <2>2. pieces \in Seq(Seq(T)) /\ Len(pieces) = k
    BY <1>1, <2>1
  <2> QED
    BY <1>1, <2>2
<1>13. \A i \in 1..k : pieces[i] = piece(i)
  OBVIOUS
<1> HIDE DEF pieces
<1>14. PICK g : Flattens(g, pieces, T)
  BY <1>12, FlattenEquations
<1>15. /\ g \in [1..k -> Seq(T)] /\ FlattenSeq(pieces) = g[k] /\ g[1] = piece(1)
       /\ \A i \in 2..k : g[i] = g[i - 1] \o piece(i)
  <2>1. 1 \in 1..k /\ \A i \in 2..k : i \in 1..k
    BY <1>1
  <2>2. /\ g \in [1..k -> Seq(T)] /\ FlattenSeq(pieces) = g[k] /\ g[1] = pieces[1]
        /\ \A i \in 2..k : g[i] = g[i - 1] \o pieces[i]
    BY <1>12, <1>14 DEF Flattens
  <2> QED
    BY <1>13, <2>1, <2>2
<1> DEFINE Read(n) == Filter(g[n], D) \in Seq(D) /\ Number(Filter(g[n], D)) = high(n)
           Good == {n \in Nat : n + 1 <= k => Read(n + 1)}
<1>16. Read(1)
  <2>1. 1 \in 1..k /\ 1 - 1 = 0
    BY <1>1
  <2>2. g[1] = Decimal(group(1), 1) /\ Decimal(group(1), 1) \in Seq(D) /\ group(1) \in Nat
    BY <1>7, <1>8, <1>15, <2>1 DEF piece
  <2>3. Filter(g[1], D) = g[1]
    BY <2>2, FilterAll
  <2>4. Number(g[1]) = group(1)
    BY <2>2, NumberDecimal
  <2>5. high(1) = Group * high(0) + group(1)
    BY <1>6, <2>1
  <2>6. high(1) = group(1)
    BY <1>5, <2>2, <2>5, GroupType
  <2> QED
    BY <2>2, <2>3, <2>4, <2>6
<1>17. ASSUME NEW n \in 1..k, n + 1 <= k, Read(n) PROVE Read(n + 1)
  <2> DEFINE a == Filter(g[n], D)
             b == Decimal(group(n + 1), Digits)
  <2>1. n + 1 \in 1..k /\ n + 1 \in 2..k /\ n + 1 # 1 /\ (n + 1) - 1 = n
    BY <1>1, <1>17
  <2>2. g[n + 1] = g[n] \o (<<Comma>> \o b)
    BY <1>15, <2>1 DEF piece
  <2>3. b \in Seq(D) /\ b \in Seq(T) /\ g[n] \in Seq(T) /\ a \in Seq(D)
    BY <1>8, <1>9, <1>15, <1>17, <2>1, GroupType
  <2>4. Number(b) = group(n + 1) /\ Len(b) = Digits
    BY <1>7, <2>1, GroupType, NumberDecimal, DecimalFits
  <2> HIDE DEF b
  <2>5. Filter(<<Comma>> \o b, D) = b
    <3>1. Filter(<<Comma>>, D) = <<>>
      <4>1. \A i \in 1..Len(<<Comma>>) : <<Comma>>[i] \notin D
        BY DEF Comma
      <4> QED
        BY <1>10, <4>1, FilterNone
    <3>2. Filter(b, D) = b
      BY <2>3, FilterAll
    <3>3. Filter(<<Comma>> \o b, D) = Filter(<<Comma>>, D) \o Filter(b, D)
      <4> DEFINE c == <<Comma>>
      <4>1. c \in Seq(T)
        BY <1>10
      <4> HIDE DEF c, D, T
      <4>2. Filter(c \o b, D) = Filter(c, D) \o Filter(b, D)
        BY <2>3, <4>1, FilterConcat
      <4> QED
        BY <4>2 DEF c
    <3>4. <<>> \o b = b
      BY <2>3, ConcatEmptySeq
    <3> QED
      BY <3>1, <3>2, <3>3, <3>4
  <2>6. <<Comma>> \o b \in Seq(T)
    BY <1>10, <2>3
  <2>7. Filter(g[n + 1], D) = a \o b
    <3> DEFINE c == <<Comma>> \o b
    <3>1. Filter(g[n] \o c, D) = Filter(g[n], D) \o Filter(c, D)
      <4>1. c \in Seq(T) /\ g[n] \in Seq(T)
        BY <2>3, <2>6
      <4> HIDE DEF c, D, T
      <4> QED
        BY <4>1, FilterConcat
    <3> HIDE DEF c
    <3> QED
      BY <2>2, <2>5, <3>1 DEF c
  <2>8. Number(a) = high(n)
    BY <1>17
  <2> HIDE DEF a
  <2>9. a \in Seq(Nat) /\ b \in Seq(Nat) /\ a \o b \in Seq(D)
    BY <2>3, DigitsAreNumbers
  <2>10. Number(a \o b) = Number(a) * Group + group(n + 1)
    BY <2>4, <2>9, NumberConcat DEF Group
  <2>11. high(n + 1) = Group * high(n) + group(n + 1) /\ high(n) \in Nat
    BY <1>1, <1>4, <1>6, <2>1
  <2>12. Number(a \o b) = high(n + 1)
    BY <2>8, <2>10, <2>11, GroupType
  <2> QED
    BY <2>7, <2>9, <2>12
<1>18. ASSUME NEW n \in Nat, n \in Good PROVE n + 1 \in Good
  <2> HIDE DEF Read
  <2> SUFFICES ASSUME (n + 1) + 1 <= k PROVE Read((n + 1) + 1)
    OBVIOUS
  <2>1. n + 1 \in 1..k /\ Read(n + 1)
    BY <1>1, <1>18
  <2> QED
    BY <1>17, <2>1
<1>19. 0 \in Good
  BY <1>16
<1> HIDE DEF Good
<1>20. \A n \in Nat : n \in Good
  BY <1>18, <1>19, Induction
<1> HIDE DEF Read
<1>21. Read(k)
  <2>1. k - 1 \in Nat /\ (k - 1) + 1 = k
    BY <1>1
  <2>2. k - 1 \in Good
    BY <1>20, <2>1
  <2> QED
    BY <1>1, <2>1, <2>2 DEF Good
<1> QED
  BY <1>2, <1>5, <1>15, <1>21 DEF Read, RemoveCommas

(* A time is a multiple of some largest unit.                              *)
LEMMA LargestUnit ==
    ASSUME NEW t \in Nat
    PROVE  \E u \in 1..Units : t % Scale(u) = 0 /\ \A larger \in (u + 1)..Units : t % Scale(larger) # 0
<1> SUFFICES ASSUME \A u \in 1..Units : t % Scale(u) = 0 =>
                        \E larger \in (u + 1)..Units : t % Scale(larger) = 0
             PROVE  FALSE
  OBVIOUS
<1> DEFINE Good == {n \in Nat : \E u \in (n + 1)..Units : t % Scale(u) = 0}
<1>1. 0 \in Good
  <2>1. Scale(1) = 1
    BY GroupType, PowerEquations DEF Scale
  <2>2. 1 \in (0 + 1)..Units
    BY GroupType
  <2> QED
    BY <2>1, <2>2, DivOne
<1>2. ASSUME NEW n \in Nat, n \in Good PROVE n + 1 \in Good
  <2>1. PICK u \in (n + 1)..Units : t % Scale(u) = 0
    BY <1>2
  <2>2. u \in 1..Units
    BY GroupType
  <2>3. PICK larger \in (u + 1)..Units : t % Scale(larger) = 0
    BY <2>1, <2>2
  <2>4. larger \in ((n + 1) + 1)..Units
    BY GroupType
  <2> QED
    BY <2>3, <2>4
<1> HIDE DEF Good
<1>3. \A n \in Nat : n \in Good
  BY <1>1, <1>2, Induction
<1>4. Units \in Good
  BY <1>3, GroupType
<1>5. PICK u \in (Units + 1)..Units : TRUE
  BY <1>4 DEF Good
<1> QED
  BY GroupType

(* The text shown for a time says exactly that time, and is read as that   *)
(* time if it is read at all.                                              *)
LEMMA ShownTime ==
    ASSUME NEW t \in Nat
    PROVE  Reads(toString(t)) = t /\ fromString(toString(t)) \in {t, SyntaxError}
<1> DEFINE Largest(u) == t % Scale(u) = 0 /\ \A larger \in (u + 1)..Units : t % Scale(larger) # 0
           unit == CHOOSE u \in 1..Units : Largest(u)
           num == t \div Scale(unit)
<1>1. toString(t) = [mantissa |-> GroupDecimals(num), unit |-> unit]
  BY DEF toString
<1>2. unit \in 1..Units /\ Largest(unit)
  BY LargestUnit
<1> HIDE DEF unit
<1>3. Scale(unit) \in Nat /\ Scale(unit) > 0
  BY <1>2, ScaleType
<1>4. num \in Nat /\ num * Scale(unit) = t
  <2>1. t % Scale(unit) = 0
    BY <1>2
  <2>2. num \in Nat /\ t = Scale(unit) * num + (t % Scale(unit))
    BY <1>3, DivMod
  <2> HIDE DEF num
  <2>3. t = Scale(unit) * num + 0
    BY <2>1, <2>2
  <2> QED
    BY <1>3, <2>2, <2>3
<1> HIDE DEF num
<1>5. Number(RemoveCommas(GroupDecimals(num))) = num
  BY <1>4, GroupedReads
<1>6. Number(RemoveCommas(toString(t).mantissa)) * Scale(toString(t).unit) = t
  BY <1>1, <1>4, <1>5
<1> QED
  BY <1>6 DEF Reads, fromString

-----------------------------------------------------------------------------
(* Designations and their layout.                                          *)
LEMMA VariableType ==
    ASSUME NEW v \in Variables
    PROVE  /\ v.width \in Nat \ {0} /\ v.depth \in Nat \ {0} /\ v.lsbAt \in Nat
           /\ v.memory \/ v.depth = 1
           /\ Stride(v) \in Nat \ {0}
           /\ v.width <= ChunkBits * Stride(v)
<1>1. v.width \in Nat \ {0} /\ v.depth \in Nat \ {0} /\ v.lsbAt \in Nat /\ (v.memory \/ v.depth = 1)
  BY SamplesAssumption DEF VariableDescriptions
<1>2. ChunkBits \in Nat /\ ChunkBits > 0
  BY SamplesAssumption
<1> DEFINE w == v.width
           x == w + ChunkBits - 1
           q == x \div ChunkBits
           r == x % ChunkBits
<1>3. x \in Nat
  BY <1>1, <1>2
<1>4. Stride(v) = q
  BY DEF Stride
<1> HIDE DEF x
<1>5. q \in Nat /\ r \in 0..(ChunkBits - 1) /\ x = ChunkBits * q + r
  BY <1>2, <1>3, DivMod
<1> HIDE DEF q, r
<1>6. ChunkBits * q \in Nat
  BY <1>2, <1>5
<1>7. w <= ChunkBits * q
  BY <1>1, <1>2, <1>5, <1>6 DEF x
<1>8. q # 0
  BY <1>1, <1>2, <1>7
<1> QED
  BY <1>1, <1>4, <1>5, <1>7, <1>8

LEMMA DesignationType ==
    ASSUME NEW d \in Designations
    PROVE  /\ d.variable \in Variables
           /\ d.first \in Rows(d.variable) /\ d.last \in Rows(d.variable)
           /\ d.type \in {"scalar", "row", "range"}
           /\ d = [type |-> d.type, variable |-> d.variable, first |-> d.first, last |-> d.last]
           /\ d.type = "scalar" => d.first = 0 /\ d.last = 0
           /\ d.type = "row" => d.first = d.last
<1>1. \A v \in Variables : 0 \in Rows(v)
  BY VariableType DEF Rows
<1>2. CASE \E v \in Variables : ~v.memory /\ d = ScalarDesignation(v)
  BY <1>1, <1>2 DEF ScalarDesignation
<1>3. CASE \E v \in Variables : v.memory /\ \E i \in Rows(v) : d = MemoryRowDesignation(v, i)
  BY <1>3 DEF MemoryRowDesignation
<1>4. CASE \E v \in Variables : v.memory /\ \E f, l \in Rows(v) : d = MemoryRangeDesignation(v, f, l)
  BY <1>4 DEF MemoryRangeDesignation
<1> QED
  BY <1>2, <1>3, <1>4 DEF Designations

(* A designation has at least one row, all of them rows of its variable.   *)
LEMMA DesignationRows ==
    ASSUME NEW d \in Designations
    PROVE  /\ d.variable \in Variables
           /\ Stride(d.variable) \in Nat \ {0}
           /\ Count(d) \in Nat \ {0}
           /\ Size(d) \in Nat /\ Size(d) = Stride(d.variable) * Count(d)
           /\ \A k \in 0..(Count(d) - 1) : RowAt(d, k) \in Rows(d.variable)
           /\ RowAt(d, 0) = d.first
           /\ d.type # "range" => Count(d) = 1
<1> DEFINE f == d.first
           l == d.last
           depth == d.variable.depth
<1>1. /\ d.variable \in Variables /\ f \in 0..(depth - 1) /\ l \in 0..(depth - 1)
      /\ d.type # "range" => f = l
  BY DesignationType DEF Rows
<1>2. depth \in Nat \ {0} /\ Stride(d.variable) \in Nat \ {0}
  BY <1>1, VariableType
<1>3. f \in Nat /\ l \in Nat /\ f < depth /\ l < depth
  BY <1>1, <1>2
<1> HIDE DEF f, l, depth
<1>4. Count(d) = (IF l >= f THEN l - f + 1 ELSE f - l + 1)
  BY DEF Count, f, l
<1>5. Count(d) \in Nat \ {0} /\ (d.type # "range" => Count(d) = 1)
  BY <1>1, <1>3, <1>4
<1>6. \A k \in 0..(Count(d) - 1) : RowAt(d, k) \in 0..(depth - 1)
  <2>1. \A k : RowAt(d, k) = IF l >= f THEN f + k ELSE f - k
    BY DEF RowAt, f, l
  <2> QED
    BY <1>2, <1>3, <1>4, <2>1
<1>7. RowAt(d, 0) = f
  BY <1>3 DEF RowAt, f, l
<1>8. Stride(d.variable) * Count(d) \in Nat
  BY <1>2, <1>5
<1> QED
  BY <1>1, <1>2, <1>5, <1>6, <1>7, <1>8 DEF Rows, Size, f, depth

(* The chunks of a row are where the client looks for them.                *)
LEMMA ItemValuesAt ==
    ASSUME NEW d \in Designations, NEW t,
           NEW k \in 0..(Count(d) - 1), NEW i \in 1..Stride(d.variable)
    PROVE  /\ Stride(d.variable) * k + i \in 1..Size(d)
           /\ ItemValues(d, t)[Stride(d.variable) * k + i] =
                  Chunk(Waveform[t][d.variable][RowAt(d, k)], i, Stride(d.variable))
<1> DEFINE stride == Stride(d.variable)
           count == Count(d)
           j == stride * k + i
<1>1. stride \in Nat /\ stride > 0 /\ count \in Nat /\ count > 0 /\ Size(d) = stride * count
  BY DesignationRows
<1>2. k \in Nat /\ k + 1 <= count
  BY <1>1
<1>3. i \in Nat /\ i >= 1 /\ i <= stride /\ i - 1 \in 0..(stride - 1) /\ (i - 1) + 1 = i
  BY <1>1
<1>4. j \in 1..Size(d)
  <2> HIDE DEF stride, count
  <2>1. PICK e \in Nat : count = (k + 1) + e
    <3>1. count - (k + 1) \in Nat
      BY <1>1, <1>2
    <3> QED
      BY <1>1, <1>2, <3>1
  <2>2. stride * count = stride * k + stride + stride * e /\ stride * e \in Nat /\ stride * k \in Nat
    BY <1>1, <1>2, <2>1
  <2> QED
    BY <1>1, <1>3, <2>2
<1>5. (j - 1) \div stride = k /\ (j - 1) % stride = i - 1
  <2>1. (stride * k + (i - 1)) \div stride = k /\ (stride * k + (i - 1)) % stride = i - 1
    <3> HIDE DEF stride, count
    <3> DEFINE r == i - 1
    <3>1. r \in 0..(stride - 1)
      BY <1>3
    <3> HIDE DEF r
    <3>2. (stride * k + r) \div stride = k /\ (stride * k + r) % stride = r
      BY <1>1, <1>2, <3>1, DivModUnique
    <3> QED
      BY <3>2 DEF r
  <2>2. j - 1 = stride * k + (i - 1)
    <3> HIDE DEF stride, count
    <3>1. stride * k \in Nat
      BY <1>1, <1>2
    <3> QED
      BY <1>3, <3>1
  <2> HIDE DEF j
  <2> QED
    BY <2>1, <2>2
<1> HIDE DEF j
<1>6. ItemValues(d, t)[j] =
        Chunk(Waveform[t][d.variable][RowAt(d, (j - 1) \div stride)], ((j - 1) % stride) + 1, stride)
  BY <1>4 DEF ItemValues
<1> QED
  BY <1>3, <1>4, <1>5, <1>6 DEF j

LEMMA RowType ==
    ASSUME NEW t \in ToSet(Times), NEW d \in Designations, NEW k \in 0..(Count(d) - 1)
    PROVE  Waveform[t][d.variable][RowAt(d, k)] \in Nat
<1>1. d.variable \in Variables /\ RowAt(d, k) \in Rows(d.variable)
  BY DesignationRows
<1>2. Waveform[t][d.variable] \in [Rows(d.variable) -> Nat]
  BY <1>1, SamplesAssumption
<1> QED
  BY <1>1, <1>2

LEMMA ChunkType ==
    ASSUME NEW raw \in Nat, NEW stride \in Nat, NEW k \in 1..stride
    PROVE  Chunk(raw, k, stride) \in Nat
<1>1. ChunkBits \in Nat
  BY SamplesAssumption
<1>2. ChunkBits * (stride - k) \in Nat
  <2>1. stride - k \in Nat
    OBVIOUS
  <2> QED
    BY <1>1, <2>1
<1> DEFINE p == Power(2, ChunkBits * (stride - k))
           b == Power(2, ChunkBits)
<1>3. p \in Nat /\ p > 0 /\ b \in Nat /\ b > 0
  BY <1>1, <1>2, PowerOfTwo
<1> HIDE DEF p, b
<1>4. raw \div p \in Nat
  BY <1>3, DivMod
<1>5. (raw \div p) % b \in Nat
  BY <1>3, <1>4, DivMod
<1> QED
  BY <1>5 DEF Chunk, p, b

LEMMA ItemValuesType ==
    ASSUME NEW t \in ToSet(Times), NEW d \in Designations
    PROVE  ItemValues(d, t) \in Seq(Nat) /\ Len(ItemValues(d, t)) = Size(d)
<1> DEFINE stride == Stride(d.variable)
           count == Count(d)
           value(i) == Chunk(Waveform[t][d.variable][RowAt(d, (i - 1) \div stride)],
                             ((i - 1) % stride) + 1, stride)
<1>1. stride \in Nat /\ stride > 0 /\ count \in Nat /\ Size(d) = stride * count /\ Size(d) \in Nat
  BY DesignationRows
<1>2. ASSUME NEW i \in 1..Size(d) PROVE value(i) \in Nat
  <2> DEFINE k == (i - 1) \div stride
             r == (i - 1) % stride
  <2>1. i - 1 \in Nat /\ i - 1 < Size(d)
    BY <1>1
  <2>2. k \in Nat /\ r \in 0..(stride - 1) /\ i - 1 = stride * k + r
    BY <1>1, <2>1, DivMod
  <2> HIDE DEF k, r
  <2>3. k < count
    <3> SUFFICES ASSUME k >= count PROVE FALSE
      BY <1>1, <2>2
    <3> HIDE DEF stride, count
    <3>1. PICK e \in Nat : k = count + e
      BY <1>1, <2>2
    <3>2. stride * k = stride * count + stride * e /\ stride * e \in Nat /\ stride * count \in Nat
      BY <1>1, <3>1
    <3> QED
      BY <1>1, <2>1, <2>2, <3>2
  <2>4. k \in 0..(Count(d) - 1) /\ r + 1 \in 1..stride
    BY <1>1, <2>2, <2>3
  <2>5. Waveform[t][d.variable][RowAt(d, k)] \in Nat
    BY <2>4, RowType
  <2>6. Chunk(Waveform[t][d.variable][RowAt(d, k)], r + 1, stride) \in Nat
    BY <1>1, <2>4, <2>5, ChunkType
  <2> QED
    BY <2>6 DEF k, r
<1>3. ItemValues(d, t) = [i \in 1..Size(d) |-> value(i)]
  BY DEF ItemValues
<1> HIDE DEF value
<1>4. ItemValues(d, t) \in [1..Size(d) -> Nat]
  BY <1>2, <1>3
<1> QED
  BY <1>1, <1>4

(* Joined is a matter of its equations.                                    *)
LEMMA JoinedUnique ==
    ASSUME NEW data, NEW from, NEW stride \in Nat, NEW f \in [0..stride -> Nat], f[0] = 0,
           \A i \in 1..stride : f[i] = f[i - 1] * Power(2, ChunkBits) + data[from + i]
    PROVE  Joined(data, from, stride) = f[stride]
<1> DEFINE more(x, i) == x * Power(2, ChunkBits) + data[from + i]
           equation(g) == g = [i \in 0..stride |-> IF i = 0 THEN 0 ELSE more(g[i - 1], i)]
<1>1. f[0] = 0 /\ \A i \in 1..stride : f[i] = more(f[i - 1], i)
  OBVIOUS
<1> HIDE DEF more
<1>2. equation(f)
  <2>1. f = [i \in 0..stride |-> f[i]]
    OBVIOUS
  <2>2. ASSUME NEW i \in 0..stride PROVE f[i] = IF i = 0 THEN 0 ELSE more(f[i - 1], i)
    <3>1. i = 0 \/ i \in 1..stride
      OBVIOUS
    <3> QED
      BY <1>1, <3>1
  <2> QED
    BY <2>1, <2>2
<1> DEFINE g == CHOOSE g : equation(g)
<1>3. equation(g)
  BY <1>2
<1>4. Joined(data, from, stride) = g[stride]
  BY DEF Joined, more
<1> HIDE DEF g
<1>5. g[0] = 0 /\ \A i \in 1..stride : g[i] = more(g[i - 1], i)
  <2>1. \A i \in 0..stride : g[i] = IF i = 0 THEN 0 ELSE more(g[i - 1], i)
    BY <1>3
  <2>2. 0 \in 0..stride /\ \A i \in 1..stride : i \in 0..stride /\ i # 0
    OBVIOUS
  <2> QED
    BY <2>1, <2>2
<1> DEFINE Good == {n \in Nat : n <= stride => g[n] = f[n]}
<1>6. 0 \in Good
  BY <1>1, <1>5
<1>7. ASSUME NEW n \in Nat, n \in Good PROVE n + 1 \in Good
  <2> SUFFICES ASSUME n + 1 <= stride PROVE g[n + 1] = f[n + 1]
    OBVIOUS
  <2>1. g[n] = f[n] /\ n + 1 \in 1..stride /\ (n + 1) - 1 = n
    BY <1>7
  <2> QED
    BY <1>1, <1>5, <2>1
<1> HIDE DEF Good
<1>8. stride \in Good
  BY <1>6, <1>7, Induction
<1> QED
  BY <1>4, <1>8 DEF Good

(* The chunks of a row, the most significant one first, make up the row.   *)
LEMMA ChunksMakeRow ==
    ASSUME NEW data, NEW from, NEW stride \in Nat, NEW raw \in Nat,
           \A i \in 1..stride : data[from + i] = Chunk(raw, i, stride)
    PROVE  Joined(data, from, stride) = raw % Power(2, ChunkBits * stride)
<1> DEFINE C == ChunkBits
           B == Power(2, C)
           low(i) == Power(2, C * (stride - i))
           top(i) == Power(2, C * i)
           f == [i \in 0..stride |-> (raw \div low(i)) % top(i)]
<1>1. C \in Nat
  BY SamplesAssumption
<1>2. B \in Nat /\ B > 0
  BY <1>1, PowerOfTwo
<1>3. \A i \in 0..stride : /\ low(i) \in Nat /\ low(i) > 0 /\ top(i) \in Nat /\ top(i) > 0
  <2> SUFFICES ASSUME NEW i \in 0..stride
               PROVE  low(i) \in Nat /\ low(i) > 0 /\ top(i) \in Nat /\ top(i) > 0
    OBVIOUS
  <2>1. i \in Nat /\ stride - i \in Nat
    OBVIOUS
  <2>2. C * i \in Nat /\ C * (stride - i) \in Nat
    BY <1>1, <2>1
  <2> QED
    BY <2>2, PowerOfTwo
<1>4. ASSUME NEW i \in 1..stride PROVE top(i) = B * top(i - 1) /\ low(i - 1) = low(i) * B
  <2>1. i - 1 \in Nat /\ stride - i \in Nat /\ stride - (i - 1) = (stride - i) + 1
    OBVIOUS
  <2>2. C * i = C + C * (i - 1) /\ C * (i - 1) \in Nat
    BY <1>1, <2>1
  <2>3. C * ((stride - i) + 1) = C * (stride - i) + C /\ C * (stride - i) \in Nat
    BY <1>1, <2>1
  <2>4. Power(2, C + C * (i - 1)) = B * Power(2, C * (i - 1))
    BY <1>1, <2>2, PowerAdd
  <2>5. Power(2, C * (stride - i) + C) = Power(2, C * (stride - i)) * B
    BY <1>1, <2>3, PowerAdd
  <2> QED
    BY <2>1, <2>2, <2>3, <2>4, <2>5
<1>5. low(stride) = 1 /\ top(0) = 1 /\ top(stride) = Power(2, ChunkBits * stride)
  <2>1. stride - stride = 0 /\ C * 0 = 0 /\ Power(2, 0) = 1
    BY <1>1, PowerEquations
  <2> QED
    BY <2>1
<1>6. \A i \in 1..stride : Chunk(raw, i, stride) = (raw \div low(i)) % B
  BY DEF Chunk
<1> HIDE DEF C, B, low, top
<1>7. \A i \in 0..stride : raw \div low(i) \in Nat
  BY <1>3, DivMod
<1>8. f \in [0..stride -> Nat]
  <2>1. \A i \in 0..stride : (raw \div low(i)) % top(i) \in Nat
    <3> SUFFICES ASSUME NEW i \in 0..stride PROVE (raw \div low(i)) % top(i) \in Nat
      OBVIOUS
    <3> DEFINE y == raw \div low(i)
    <3>1. y \in Nat /\ top(i) \in Nat /\ top(i) > 0
      BY <1>3, <1>7
    <3> HIDE DEF y
    <3>2. y % top(i) \in 0..(top(i) - 1)
      BY <3>1, DivMod
    <3>3. y % top(i) \in Nat
      BY <3>1, <3>2
    <3> QED
      BY <3>3 DEF y
  <2> QED
    BY <2>1
<1>9. f[0] = 0
  <2>1. 0 \in 0..stride
    OBVIOUS
  <2>2. f[0] = (raw \div low(0)) % 1
    BY <1>5, <2>1
  <2> QED
    BY <1>7, <2>1, <2>2, DivOne
<1>10. ASSUME NEW i \in 1..stride PROVE f[i] = f[i - 1] * B + data[from + i]
  <2>1. i \in 0..stride /\ i - 1 \in 0..stride
    OBVIOUS
  <2> DEFINE y == raw \div low(i)
             P == top(i - 1)
             z == (y \div B) % P
  <2>2. y \in Nat /\ P \in Nat /\ P > 0 /\ low(i) \in Nat /\ low(i) > 0
    BY <1>3, <1>7, <2>1
  <2>3. f[i] = y % (B * P)
    BY <1>4, <2>1
  <2>4. f[i - 1] = z
    <3>1. f[i - 1] = (raw \div (low(i) * B)) % P
      BY <1>4, <2>1
    <3>2. raw \div (low(i) * B) = y \div B
      BY <1>2, <2>2, DivDiv
    <3> QED
      BY <3>1, <3>2
  <2>5. data[from + i] = y % B
    BY <1>6
  <2> HIDE DEF y, P, f
  <2>6. y % (B * P) = B * z + (y % B)
    BY <1>2, <2>2, DivDiv
  <2>7. z \in Nat
    <3>1. y \div B \in Nat
      BY <1>2, <2>2, DivMod
    <3> QED
      BY <2>2, <3>1, DivMod
  <2> HIDE DEF z
  <2>8. B * z = z * B
    BY <1>2, <2>7
  <2> QED
    BY <2>3, <2>4, <2>5, <2>6, <2>8
<1>11. f[stride] = raw % Power(2, ChunkBits * stride)
  <2>1. stride \in 0..stride
    OBVIOUS
  <2>2. f[stride] = (raw \div 1) % Power(2, ChunkBits * stride)
    BY <1>5, <2>1
  <2> QED
    BY <2>2, DivOne
<1> HIDE DEF f
<1>12. Joined(data, from, stride) = f[stride]
  <2>1. \A i \in 1..stride : f[i] = f[i - 1] * Power(2, ChunkBits) + data[from + i]
    BY <1>10 DEF B, C
  <2> QED
    BY <1>8, <1>9, <2>1, JoinedUnique
<1> QED
  BY <1>11, <1>12

-----------------------------------------------------------------------------
(* The layout of a reference.                                              *)
Layout ==
    /\ handles = <<>> => offset = 0
    /\ handles # <<>> => handles[1].offset = 0
    /\ \A i \in DOMAIN handles :
         handles[i].offset + Size(handles[i].designation) =
            IF i = Len(handles) THEN offset ELSE handles[i + 1].offset

Handles == [designation : Designations, offset : Nat]

Item(h, t) == ItemValues(h.designation, t)
Items(t) == [j \in 1..Len(handles) |-> Item(handles[j], t)]
Answer(t) == [time |-> t, variableData |-> FlattenSeq(Items(t))]
Answers(times) == [i \in 1..Len(times) |-> Answer(times[i])]

(* The times of the interval, if there was a query.                        *)
Queried == IF interval = NoInterval THEN <<>> ELSE TimesIn(interval.begin, interval.end)

(* The samples are those of the interval, made of what the designations of *)
(* the handles hold.                                                       *)
SamplesInv ==
    /\ frozen \in BOOLEAN
    /\ offset \in Nat
    /\ handles \in Seq(Handles)
    /\ Layout
    /\ frozen => binding = [i \in DOMAIN handles |-> handles[i].designation]
    /\ ~frozen => interval = NoInterval
    /\ interval = NoInterval \/
         (interval.begin \in Nat /\ interval.end \in Nat /\ interval.begin <= interval.end)
    /\ samples = Answers(Queried)

LEMMA TimesFacts ==
    /\ Times \in Seq(Nat) /\ Len(Times) \in Nat \ {0} /\ DOMAIN Times = 1..Len(Times) /\ Times[1] = 0
    /\ \A i \in 1..Len(Times) : Times[i] \in Nat /\ Times[i] \in ToSet(Times)
    /\ \A i, j \in 1..Len(Times) : i < j => Times[i] < Times[j]
    /\ ToSet(Times) \subseteq Nat /\ \A t \in ToSet(Times) : \E i \in 1..Len(Times) : t = Times[i]
<1>1. /\ Times \in Seq(Nat) /\ Times # <<>> /\ Times[1] = 0
      /\ \A i, j \in DOMAIN Times : i < j => Times[i] < Times[j]
  BY SamplesAssumption
<1>2. Len(Times) \in Nat \ {0} /\ DOMAIN Times = 1..Len(Times)
  BY <1>1, EmptySeq
<1> QED
  BY <1>1, <1>2 DEF ToSet

LEMMA TimesGrow ==
    ASSUME NEW i \in 1..Len(Times), NEW j \in 1..Len(Times), i <= j
    PROVE  Times[i] <= Times[j] /\ Times[i] \in Nat /\ Times[j] \in Nat
<1>1. Times[i] \in Nat /\ Times[j] \in Nat /\ (i < j => Times[i] < Times[j])
  BY TimesFacts
<1>2. i = j \/ i < j
  BY TimesFacts
<1> QED
  BY <1>1, <1>2

(* At a time one sample is in effect, the last one up to then.             *)
LEMMA AtIsLast ==
    ASSUME NEW t \in Nat
    PROVE  /\ At(t) \in 1..Len(Times) /\ Times[At(t)] <= t
           /\ \A n \in 1..Len(Times) : n > At(t) => t < Times[n]
<1> DEFINE inEffect(i) == Times[i] <= t /\ (i = Len(Times) \/ t < Times[i + 1])
           last == Len(Times)
<1>1. \E i \in 1..last : inEffect(i)
  <2> SUFFICES ASSUME \A i \in 1..last : ~inEffect(i) PROVE FALSE
    OBVIOUS
  <2> DEFINE Good == {n \in Nat : n + 1 \in 1..last /\ Times[n + 1] <= t}
  <2>0. last \in Nat \ {0} /\ Times[1] = 0 /\ \A i \in 1..last : Times[i] \in Nat
    BY TimesFacts
  <2> HIDE DEF last
  <2>1. 0 \in Good
    <3>1. 0 + 1 = 1 /\ 1 \in 1..last
      BY <2>0
    <3> QED
      BY <2>0, <3>1
  <2>2. ASSUME NEW n \in Nat, n \in Good PROVE n + 1 \in Good
    <3>1. n + 1 \in 1..last /\ Times[n + 1] <= t /\ ~inEffect(n + 1)
      BY <2>2
    <3>2. n + 1 # last /\ ~(t < Times[(n + 1) + 1])
      BY <3>1 DEF last
    <3>3. (n + 1) + 1 \in 1..last
      BY <2>0, <3>1, <3>2
    <3>4. Times[(n + 1) + 1] <= t
      BY <2>0, <3>2, <3>3
    <3> QED
      BY <3>3, <3>4
  <2> HIDE DEF Good
  <2>3. last \in Good
    BY <2>0, <2>1, <2>2, Induction
  <2>4. last + 1 \in 1..last
    BY <2>3 DEF Good
  <2> QED
    BY <2>0, <2>4
<1>2. At(t) \in 1..last /\ inEffect(At(t))
  BY <1>1, TimesFacts DEF At
<1> HIDE DEF last
<1>3. ASSUME NEW n \in 1..last, n > At(t) PROVE t < Times[n]
  <2>1. At(t) + 1 \in 1..last /\ At(t) # last /\ (n = At(t) + 1 \/ At(t) + 1 < n)
    BY <1>2, <1>3, TimesFacts DEF last
  <2>2. t < Times[At(t) + 1] /\ (n = At(t) + 1 \/ Times[At(t) + 1] < Times[n])
    BY <1>2, <2>1, TimesFacts DEF last
  <2> QED
    BY <2>1, <2>2, TimesFacts DEF last
<1> QED
  BY <1>2, <1>3 DEF last

(* The samples of an interval, by their numbers.                           *)
LEMMA TimesAt ==
    ASSUME NEW begin \in Nat, NEW end \in Nat, begin <= end
    PROVE  /\ At(begin) <= At(end)
           /\ TimesIn(begin, end) \in Seq(Nat) /\ Len(TimesIn(begin, end)) = At(end) - At(begin) + 1
           /\ \A i \in 1..(At(end) - At(begin) + 1) :
                /\ At(begin) + i - 1 \in 1..Len(Times)
                /\ TimesIn(begin, end)[i] = Times[At(begin) + i - 1]
<1> DEFINE a == At(begin)
           b == At(end)
<1>1. a \in 1..Len(Times) /\ b \in 1..Len(Times) /\ Times[a] <= begin
      /\ \A n \in 1..Len(Times) : n > b => end < Times[n]
  BY AtIsLast
<1> HIDE DEF a, b
<1>2. a <= b
  BY <1>1, TimesFacts
<1>3. TimesIn(begin, end) = SubSeq(Times, a, b)
  BY DEF TimesIn, a, b
<1>4. /\ SubSeq(Times, a, b) \in Seq(Nat) /\ Len(SubSeq(Times, a, b)) = b - a + 1
      /\ \A i \in 1..(b - a + 1) : SubSeq(Times, a, b)[i] = Times[a + i - 1]
  BY <1>1, <1>2, TimesFacts
<1>5. \A i \in 1..(b - a + 1) : a + i - 1 \in 1..Len(Times)
  BY <1>1, <1>2, TimesFacts
<1> QED
  BY <1>2, <1>3, <1>4, <1>5 DEF a, b

LEMMA TimesType ==
    ASSUME SamplesInv
    PROVE  Queried \in Seq(ToSet(Times)) /\ Queried \in Seq(Nat)
<1>1. CASE interval = NoInterval
  BY <1>1, EmptySeq DEF Queried
<1>2. CASE interval # NoInterval
  <2> DEFINE times == TimesIn(interval.begin, interval.end)
  <2>1. interval.begin \in Nat /\ interval.end \in Nat /\ interval.begin <= interval.end
    BY <1>2 DEF SamplesInv
  <2>2. times \in Seq(Nat) /\ \A i \in 1..Len(times) : times[i] \in ToSet(Times)
    <3>1. /\ times \in Seq(Nat) /\ Len(times) = At(interval.end) - At(interval.begin) + 1
          /\ \A i \in 1..(At(interval.end) - At(interval.begin) + 1) :
                /\ At(interval.begin) + i - 1 \in 1..Len(Times)
                /\ times[i] = Times[At(interval.begin) + i - 1]
      BY <2>1, TimesAt
    <3> HIDE DEF times
    <3> QED
      BY <3>1, TimesFacts
  <2> HIDE DEF times
  <2>3. times \in Seq(ToSet(Times))
    BY <2>2
  <2> QED
    BY <1>2, <2>2, <2>3 DEF Queried, times
<1> QED
  BY <1>1, <1>2

LEMMA NoAnswers == Answers(<<>>) = <<>>
  BY DEF Answers

LEMMA SamplesInit == Init => SamplesInv
<1> SUFFICES ASSUME Init PROVE SamplesInv
  OBVIOUS
<1>1. samples = Answers(Queried)
  BY NoAnswers DEF Init, Queried
<1>2. Layout
  BY DEF Init, Layout
<1>3. handles \in Seq(Handles) /\ offset \in Nat /\ frozen \in BOOLEAN /\ ~frozen /\ interval = NoInterval
  <2>1. handles = <<>> /\ offset = 0 /\ frozen = FALSE /\ interval = NoInterval
    BY DEF Init
  <2>2. <<>> \in Seq(Handles)
    BY EmptySeq
  <2> QED
    BY <2>1, <2>2
<1> QED
  BY <1>1, <1>2, <1>3 DEF SamplesInv

(* A handle begins where the ones before it end.                           *)
LEMMA AddKeeps ==
    ASSUME SamplesInv, NEW d \in Designations, AddDesignation(d)
    PROVE  SamplesInv'
<1> DEFINE h == [designation |-> d, offset |-> offset]
           longer == Append(handles, h)
           n == Len(handles)
<1>1. /\ ~frozen /\ frozen' = FALSE /\ interval = NoInterval /\ interval' = NoInterval /\ samples' = samples
      /\ handles' = longer /\ offset' = offset + Size(d)
  BY DEF AddDesignation, Add, SamplesInv
<1>2. h \in Handles /\ h.designation = d /\ h.offset = offset /\ Size(d) \in Nat
  BY DesignationRows DEF Handles, SamplesInv
<1> HIDE DEF h
<1>3. /\ longer \in Seq(Handles) /\ n \in Nat /\ Len(longer) = n + 1
      /\ longer[n + 1] = h /\ \A k \in 1..n : longer[k] = handles[k]
  BY <1>2, AppendProperties DEF SamplesInv
<1>4. DOMAIN longer = 1..(n + 1) /\ DOMAIN handles = 1..n /\ (handles = <<>> <=> n = 0)
  BY <1>3, EmptySeq DEF SamplesInv
<1> HIDE DEF longer, n
<1>5. Layout'
  <2>1. ASSUME NEW i \in 1..(n + 1)
        PROVE  longer[i].offset + Size(longer[i].designation) =
                  IF i = n + 1 THEN offset + Size(d) ELSE longer[i + 1].offset
    <3>1. CASE i = n + 1
      BY <1>2, <1>3, <3>1
    <3>2. CASE i = n /\ n # 0
      <4>1. n \in 1..n /\ n # n + 1
        BY <1>3, <3>2
      <4>2. handles[n].offset + Size(handles[n].designation) = offset
        BY <1>4, <4>1 DEF SamplesInv, Layout, n
      <4> QED
        BY <1>2, <1>3, <3>2, <4>1, <4>2
    <3>3. CASE i < n
      <4>1. i \in 1..n /\ i + 1 \in 1..n /\ i # n /\ i # n + 1
        BY <1>3, <3>3
      <4>2. handles[i].offset + Size(handles[i].designation) = handles[i + 1].offset
        BY <1>4, <4>1 DEF SamplesInv, Layout, n
      <4> QED
        BY <1>3, <4>1, <4>2
    <3> QED
      BY <1>3, <3>1, <3>2, <3>3
  <2>2. longer # <<>>
    BY <1>3, EmptySeq
  <2>3. longer[1].offset = 0
    <3>1. CASE n = 0
      BY <1>2, <1>3, <1>4, <3>1 DEF SamplesInv, Layout
    <3>2. CASE n # 0
      <4>1. 1 \in 1..n
        BY <1>3, <3>2
      <4> QED
        BY <1>3, <1>4, <3>2, <4>1 DEF SamplesInv, Layout
    <3> QED
      BY <3>1, <3>2
  <2> QED
    BY <1>1, <1>3, <1>4, <2>1, <2>2, <2>3 DEF Layout
<1>6. (samples = Answers(Queried))'
  <2>1. samples = <<>> /\ interval = NoInterval
    BY <1>1, NoAnswers DEF SamplesInv, Queried
  <2>2. Queried' = <<>>
    BY <1>1, <2>1 DEF Queried
  <2> QED
    BY <1>1, <2>1, <2>2 DEF Answers
<1>7. (offset \in Nat)'
  BY <1>1, <1>2 DEF SamplesInv
<1> QED
  BY <1>1, <1>3, <1>5, <1>6, <1>7 DEF SamplesInv

LEMMA BindKeeps ==
    ASSUME SamplesInv, BindReference
    PROVE  SamplesInv'
<1>1. /\ frozen' = TRUE /\ binding' = [i \in DOMAIN handles |-> handles[i].designation]
      /\ UNCHANGED <<offset, handles, interval, samples>>
  BY DEF BindReference
<1>2. Layout'
  BY <1>1 DEF SamplesInv, Layout
<1>3. (samples = Answers(Queried))'
  BY <1>1 DEF SamplesInv, Queried, Answers, Answer, Items
<1> QED
  BY <1>1, <1>2, <1>3 DEF SamplesInv

LEMMA OffsetType ==
    ASSUME NEW t \in Nat, NEW femtos \in Nat
    PROVE  OffsetByFemtos(t, femtos) = t + femtos
<1> DEFINE R == RESOLUTION
           secs == Secs(t)
           rest == Femtos(t)
<1>1. R \in Nat /\ R > 0
  BY ResolutionType
<1>2. secs \in Nat /\ rest \in 0..(R - 1) /\ t = R * secs + rest
  BY <1>1, DivMod DEF Secs, Femtos
<1>3. OffsetByFemtos(t, femtos) = secs * R + rest + femtos
  BY DEF OffsetByFemtos
<1> HIDE DEF R, secs, rest
<1>4. secs * R = R * secs /\ R * secs \in Nat
  BY <1>1, <1>2
<1> QED
  BY <1>1, <1>2, <1>3, <1>4

(* The server answers with the samples of the interval, item by item.      *)
LEMMA QueryKeeps ==
    ASSUME SamplesInv, NEW t \in Cursors, NEW femtos \in Spans, QueryInterval(t, femtos)
    PROVE  SamplesInv'
<1> DEFINE end == OffsetByFemtos(t, femtos)
           times == TimesIn(t, end)
           response == ServerQuery(toCXXRTL(t), toCXXRTL(end))
<1>1. t \in Nat /\ femtos \in Nat
  BY SamplesAssumption
<1>2. end \in Nat /\ t <= end
  <2>1. OffsetByFemtos(t, femtos) = t + femtos
    BY <1>1, OffsetType
  <2>2. t + femtos \in Nat /\ t <= t + femtos
    BY <1>1
  <2> QED
    BY <2>1, <2>2
<1>3. /\ frozen /\ UNCHANGED <<frozen, offset, handles, binding>>
      /\ interval' = [begin |-> t, end |-> end]
      /\ samples' = [i \in DOMAIN response |->
            [time |-> fromCXXRTL(response[i].time), variableData |-> response[i].item_values]]
  BY DEF QueryInterval
<1>4. interval'.begin = t /\ interval'.end = end
  BY <1>3
<1> HIDE DEF end
<1>5. ServerReads(toCXXRTL(t)) = t /\ ServerReads(toCXXRTL(end)) = end
  BY <1>1, <1>2, TimeText
<1>6. times \in Seq(Nat) /\ DOMAIN times = 1..Len(times) /\ Len(times) \in Nat
  BY <1>1, <1>2, TimesAt
<1>7. \A i \in 1..Len(times) : times[i] \in Nat
  BY <1>6
<1>8. response = [i \in 1..Len(times) |->
        [time |-> ServerWrites(times[i]),
         item_values |-> FlattenSeq([j \in DOMAIN binding |-> ItemValues(binding[j], times[i])])]]
  <2>1. response = [i \in DOMAIN times |->
          [time |-> ServerWrites(times[i]),
           item_values |-> FlattenSeq([j \in DOMAIN binding |-> ItemValues(binding[j], times[i])])]]
    BY <1>5 DEF ServerQuery
  <2> QED
    BY <1>6, <2>1
<1> HIDE DEF times, response
<1>9. ASSUME NEW u
      PROVE  [j \in DOMAIN binding |-> ItemValues(binding[j], u)] = Items(u)
  <2>1. /\ DOMAIN binding = 1..Len(handles)
        /\ \A j \in 1..Len(handles) : binding[j] = handles[j].designation
    BY <1>3 DEF SamplesInv
  <2> QED
    BY <2>1 DEF Items, Item
<1>10. response = [i \in 1..Len(times) |->
         [time |-> ServerWrites(times[i]), item_values |-> FlattenSeq(Items(times[i]))]]
  BY <1>8, <1>9
<1>11. /\ DOMAIN response = 1..Len(times)
       /\ \A i \in 1..Len(times) : response[i].time = ServerWrites(times[i])
                                  /\ response[i].item_values = FlattenSeq(Items(times[i]))
  BY <1>10
<1>12. \A i \in 1..Len(times) : fromCXXRTL(response[i].time) = times[i]
  <2>1. \A i \in 1..Len(times) : fromCXXRTL(toCXXRTL(times[i])) = times[i]
                                 /\ toCXXRTL(times[i]) = ServerWrites(times[i])
    BY <1>7, TimeText
  <2> QED
    BY <1>11, <2>1
<1>13. samples' = Answers(times)
  <2>1. samples' = [i \in 1..Len(times) |-> [time |-> times[i], variableData |-> FlattenSeq(Items(times[i]))]]
    BY <1>3, <1>11, <1>12
  <2> QED
    BY <2>1 DEF Answers, Answer
<1>14. (samples = Answers(Queried))'
  <2>1. interval' # NoInterval
    BY <1>2, <1>4 DEF NoInterval
  <2>2. Queried' = times
    BY <1>4, <2>1 DEF Queried, times
  <2> QED
    BY <1>3, <1>13, <2>2 DEF Answers, Answer, Items
<1>15. Layout'
  BY <1>3 DEF SamplesInv, Layout
<1> QED
  BY <1>1, <1>2, <1>3, <1>4, <1>14, <1>15 DEF SamplesInv

LEMMA SamplesInductive == Spec => []SamplesInv
<1>1. SamplesInv /\ [Next]_vars => SamplesInv'
  <2> SUFFICES ASSUME SamplesInv, [Next]_vars PROVE SamplesInv'
    OBVIOUS
  <2>1. CASE \E d \in Designations : AddDesignation(d)
    BY <2>1, AddKeeps
  <2>2. CASE BindReference
    BY <2>2, BindKeeps
  <2>3. CASE \E t \in Cursors, femtos \in Spans : QueryInterval(t, femtos)
    BY <2>3, QueryKeeps
  <2>4. CASE UNCHANGED vars
    BY <2>4 DEF vars, SamplesInv, Layout, Queried, Answers, Answer, Items
  <2> QED
    BY <2>1, <2>2, <2>3, <2>4 DEF Next
<1> QED
  BY <1>1, SamplesInit, PTL DEF Spec

-----------------------------------------------------------------------------
(* What is in a sample.                                                    *)
LEMMA SampleParts ==
    ASSUME SamplesInv, NEW sample \in Samples
    PROVE  sample.time \in ToSet(Times) /\ sample.variableData = FlattenSeq(Items(sample.time))
<1> DEFINE times == Queried
<1>1. times \in Seq(ToSet(Times)) /\ Len(times) \in Nat
  BY TimesType
<1>2. samples = Answers(times)
  BY DEF SamplesInv
<1> HIDE DEF times
<1>3. PICK i \in 1..Len(times) : sample = Answer(times[i])
  BY <1>2 DEF Samples, Answers
<1>4. times[i] \in ToSet(Times)
  BY <1>1
<1>5. sample.time = times[i] /\ sample.variableData = FlattenSeq(Items(times[i]))
  BY <1>3 DEF Answer
<1> QED
  BY <1>4, <1>5

LEMMA HandleType ==
    ASSUME SamplesInv, NEW i \in DOMAIN handles
    PROVE  /\ i \in 1..Len(handles) /\ Len(handles) \in Nat
           /\ handles[i].designation \in Designations /\ handles[i].offset \in Nat
           /\ Size(handles[i].designation) \in Nat
<1>1. i \in 1..Len(handles) /\ Len(handles) \in Nat /\ handles[i] \in Handles
  BY DEF SamplesInv
<1>2. handles[i].designation \in Designations /\ handles[i].offset \in Nat
  BY <1>1 DEF Handles
<1> QED
  BY <1>1, <1>2, DesignationRows

(* A sample is divided among the handles, and each finds its own item.     *)
LEMMA ItemsAt ==
    ASSUME SamplesInv, NEW t \in ToSet(Times)
    PROVE  /\ Len(FlattenSeq(Items(t))) = offset
           /\ \A j \in 1..Len(handles) : \A k \in 1..Size(handles[j].designation) :
                 FlattenSeq(Items(t))[handles[j].offset + k] = ItemValues(handles[j].designation, t)[k]
<1> DEFINE n == Len(handles)
           items == Items(t)
           o == [j \in 1..(n + 1) |-> IF j = n + 1 THEN offset ELSE handles[j].offset]
<1>1. n \in Nat /\ DOMAIN handles = 1..n /\ (handles = <<>> <=> n = 0)
  BY EmptySeq DEF SamplesInv
<1>2. \A j \in 1..n : /\ handles[j].designation \in Designations /\ handles[j].offset \in Nat
                      /\ Size(handles[j].designation) \in Nat
  BY <1>1, HandleType
<1>3. \A j \in 1..n : /\ Item(handles[j], t) \in Seq(Nat)
                      /\ Len(Item(handles[j], t)) = Size(handles[j].designation)
  BY <1>2, ItemValuesType DEF Item
<1>4. items = [j \in 1..n |-> Item(handles[j], t)]
  BY DEF Items
<1> HIDE DEF items
<1>5. items \in [1..n -> Seq(Nat)]
  BY <1>3, <1>4
<1>6. items \in Seq(Seq(Nat)) /\ Len(items) = n
  BY <1>1, <1>5
<1>7. \A j \in 1..n : items[j] = Item(handles[j], t) /\ Len(items[j]) = Size(handles[j].designation)
  BY <1>3, <1>4
<1> HIDE DEF n
<1>8. o \in [1..(n + 1) -> Nat]
  <2>1. offset \in Nat
    BY DEF SamplesInv
  <2>2. \A j \in 1..(n + 1) : j = n + 1 \/ j \in 1..n
    BY <1>1
  <2> QED
    BY <1>2, <2>1, <2>2
<1>9. o[1] = 0
  <2>1. 1 \in 1..(n + 1) /\ (1 = n + 1 <=> n = 0)
    BY <1>1
  <2>2. o[1] = IF n = 0 THEN offset ELSE handles[1].offset
    BY <2>1
  <2> QED
    BY <1>1, <2>2 DEF SamplesInv, Layout
<1>10. \A j \in 1..n : o[j] = handles[j].offset
  <2>1. \A j \in 1..n : j \in 1..(n + 1) /\ j # n + 1
    BY <1>1
  <2> QED
    BY <2>1
<1>11. o[n + 1] = offset
  BY <1>1
<1>12. ASSUME NEW j \in 1..n PROVE o[j + 1] = o[j] + Len(items[j])
  <2>1. handles[j].offset + Size(handles[j].designation) = IF j = n THEN offset ELSE handles[j + 1].offset
    BY <1>1 DEF SamplesInv, Layout, n
  <2>2. j # n => j + 1 \in 1..n
    BY <1>1
  <2> HIDE DEF o
  <2>3. o[j + 1] = IF j = n THEN offset ELSE handles[j + 1].offset
    BY <1>10, <1>11, <2>2
  <2> QED
    BY <1>7, <1>10, <2>1, <2>3
<1> HIDE DEF o
<1>13. /\ Len(FlattenSeq(items)) = o[n + 1]
       /\ \A j \in 1..n : \A k \in 1..Len(items[j]) : FlattenSeq(items)[o[j] + k] = items[j][k]
  <2>1. /\ o \in [1..(Len(items) + 1) -> Nat]
        /\ \A j \in 1..Len(items) : o[j + 1] = o[j] + Len(items[j])
    BY <1>6, <1>8, <1>12
  <2>2. /\ Len(FlattenSeq(items)) = o[Len(items) + 1]
        /\ \A j \in 1..Len(items) : \A k \in 1..Len(items[j]) :
              FlattenSeq(items)[o[j] + k] = items[j][k]
    BY ONLY <1>6, <1>9, <2>1, FlattenAt
  <2> QED
    BY <1>6, <2>2
<1>14. Len(FlattenSeq(items)) = offset
  BY <1>11, <1>13
<1>15. \A j \in 1..n : \A k \in 1..Size(handles[j].designation) :
         FlattenSeq(items)[handles[j].offset + k] = ItemValues(handles[j].designation, t)[k]
  BY <1>7, <1>10, <1>13 DEF Item
<1> QED
  BY <1>14, <1>15 DEF items, n

(* What a handle extracts.                                                 *)
LEMMA Extracted ==
    ASSUME SamplesInv, NEW sample \in Samples, NEW i \in DOMAIN handles,
           NEW k \in 0..(Count(handles[i].designation) - 1)
    PROVE  Extract(sample, handles[i])[k] =
              Waveform[sample.time][handles[i].designation.variable][RowAt(handles[i].designation, k)]
                  % Power(2, ChunkBits * Stride(handles[i].designation.variable))
<1> DEFINE d == handles[i].designation
           from == handles[i].offset
           stride == Stride(d.variable)
           t == sample.time
           data == sample.variableData
           raw == Waveform[t][d.variable][RowAt(d, k)]
<1>1. /\ t \in ToSet(Times) /\ data = FlattenSeq(Items(t)) /\ i \in 1..Len(handles)
      /\ d \in Designations /\ from \in Nat /\ stride \in Nat \ {0} /\ Count(d) \in Nat
  BY SampleParts, HandleType, DesignationRows
<1>2. raw \in Nat
  BY <1>1, RowType
<1>3. ASSUME NEW c \in 1..stride PROVE data[from + stride * k + c] = Chunk(raw, c, stride)
  <2>1. stride * k + c \in 1..Size(d) /\ ItemValues(d, t)[stride * k + c] = Chunk(raw, c, stride)
    BY <1>1, ItemValuesAt
  <2>2. data[from + (stride * k + c)] = ItemValues(d, t)[stride * k + c]
    <3> DEFINE j == stride * k + c
    <3>1. j \in 1..Size(d)
      BY <2>1
    <3> HIDE DEF j
    <3>2. FlattenSeq(Items(t))[from + j] = ItemValues(d, t)[j]
      BY <1>1, <3>1, ItemsAt
    <3> QED
      BY <1>1, <3>2 DEF j
  <2>3. from + (stride * k + c) = from + stride * k + c
    <3> HIDE DEF from, stride
    <3>1. k \in Nat /\ c \in Nat
      BY <1>1
    <3>2. stride * k \in Nat
      BY <1>1, <3>1
    <3> QED
      BY <1>1, <3>1, <3>2
  <2> QED
    BY <2>1, <2>2, <2>3
<1>4. Extract(sample, handles[i])[k] = BigintFromRaw(data, from, DataRange(d), k)
  BY DEF Extract
<1>5. BigintFromRaw(data, from, DataRange(d), k) = Joined(data, from + stride * k, stride)
  <2>1. k <= Count(d) /\ DataRange(d).stride = stride /\ DataRange(d).count = Count(d)
    BY <1>1 DEF DataRange
  <2> QED
    BY <2>1 DEF BigintFromRaw
<1> HIDE DEF raw, data, from, stride
<1>6. Joined(data, from + stride * k, stride) = raw % Power(2, ChunkBits * stride)
  <2> DEFINE start == from + stride * k
  <2>1. stride \in Nat /\ raw \in Nat
    BY <1>1, <1>2
  <2>2. \A c \in 1..stride : data[start + c] = Chunk(raw, c, stride)
    BY <1>3
  <2> HIDE DEF start
  <2>3. Joined(data, start, stride) = raw % Power(2, ChunkBits * stride)
    BY ONLY <2>1, <2>2, ChunksMakeRow
  <2> QED
    BY <2>3 DEF start
<1> QED
  BY <1>4, <1>5, <1>6 DEF raw, stride

LEMMA InvHandlesTile == SamplesInv => HandlesTile
<1> SUFFICES ASSUME SamplesInv PROVE HandlesTile
  OBVIOUS
<1>1. \A sample \in Samples : Len(sample.variableData) = offset
  BY SampleParts, ItemsAt
<1> QED
  BY <1>1 DEF SamplesInv, Layout, HandlesTile

LEMMA InvExtractsOwn == SamplesInv => ExtractsOwn
  BY SampleParts, Extracted DEF ExtractsOwn

(* Handles begin where the previous ones end, from chunk 0 on, and         *)
(* together they cover every sample: UnboundReference.add() gives no chunk *)
(* to two variables and none to nobody, for every design and every list of *)
(* designations.                                                           *)
THEOREM AlwaysTiled == Spec => []HandlesTile
  BY InvHandlesTile, SamplesInductive, PTL

(* A handle extracts from a sample exactly the rows of its own             *)
(* designation at the sample's time, whatever the widths, the chunk size   *)
(* and the other handles.                                                  *)
THEOREM AlwaysExtractsOwn == Spec => []ExtractsOwn
  BY InvExtractsOwn, SamplesInductive, PTL

LEMMA InvInInterval == SamplesInv => SamplesInInterval
<1> SUFFICES ASSUME SamplesInv, interval # NoInterval
             PROVE  /\ samples # <<>>
                    /\ samples[1].time <= interval.begin
                    /\ \A t \in ToSet(Times) :
                         (\E i \in DOMAIN samples : samples[i].time = t) <=>
                            t = samples[1].time \/ t \in (interval.begin + 1)..interval.end
                    /\ \A i, j \in DOMAIN samples : i < j => samples[i].time < samples[j].time
  BY DEF SamplesInInterval
<1> DEFINE begin == interval.begin
           end == interval.end
           times == TimesIn(begin, end)
           a == At(begin)
           b == At(end)
           m == b - a + 1
<1>1. begin \in Nat /\ end \in Nat /\ begin <= end /\ samples = Answers(times)
  BY DEF SamplesInv, Queried
<1>2. /\ a \in 1..Len(Times) /\ Times[a] <= begin
      /\ \A n \in 1..Len(Times) : n > a => begin < Times[n]
      /\ b \in 1..Len(Times) /\ Times[b] <= end
      /\ \A n \in 1..Len(Times) : n > b => end < Times[n]
  BY <1>1, AtIsLast
<1>3. /\ a <= b /\ times \in Seq(Nat) /\ Len(times) = m
      /\ \A i \in 1..m : a + i - 1 \in 1..Len(Times) /\ times[i] = Times[a + i - 1]
  BY <1>1, TimesAt
<1>4. samples = [i \in 1..Len(times) |-> Answer(times[i])] /\ \A i \in 1..m : Answer(times[i]).time = times[i]
  BY <1>1 DEF Answers, Answer
<1> HIDE DEF begin, end, times, a, b
<1>5. m \in Nat \ {0} /\ DOMAIN samples = 1..m /\ \A i \in 1..m : samples[i].time = Times[a + i - 1]
  BY <1>2, <1>3, <1>4
<1> HIDE DEF m
<1>6. samples # <<>> /\ samples[1].time = Times[a]
  <2>1. 1 \in DOMAIN samples /\ a + 1 - 1 = a
    BY <1>2, <1>5
  <2> QED
    BY <1>5, <2>1
<1>7. ASSUME NEW t \in ToSet(Times)
      PROVE  (\E i \in 1..m : samples[i].time = t) <=> t = Times[a] \/ (begin < t /\ t <= end)
  <2>1. PICK n \in 1..Len(Times) : t = Times[n]
    BY TimesFacts
  <2>2. (\E i \in 1..m : samples[i].time = t) <=> n \in a..b
    <3>1. ASSUME NEW i \in 1..m, samples[i].time = t PROVE n \in a..b
      <4>1. Times[a + i - 1] = Times[n] /\ a + i - 1 \in 1..Len(Times)
        BY <1>3, <1>5, <2>1, <3>1
      <4>2. a + i - 1 = n
        BY <4>1, TimesFacts
      <4> QED
        BY <1>2, <4>2 DEF m
    <3>2. ASSUME n \in a..b PROVE \E i \in 1..m : samples[i].time = t
      <4>1. n - a + 1 \in 1..m /\ a + (n - a + 1) - 1 = n
        BY <1>2, <3>2 DEF m
      <4> QED
        BY <1>5, <2>1, <4>1
    <3> QED
      BY <3>1, <3>2
  <2>3. n > a <=> begin < Times[n]
    <3>1. CASE n > a
      BY <1>2, <3>1
    <3>2. CASE n <= a
      <4>1. Times[n] <= Times[a] /\ Times[n] \in Nat /\ Times[a] \in Nat
        BY <1>2, <3>2, TimesGrow
      <4> QED
        BY <1>1, <1>2, <3>2, <4>1
    <3> QED
      BY <1>2, <3>1, <3>2
  <2>4. n <= b <=> Times[n] <= end
    <3>1. CASE n > b
      <4>1. Times[n] \in Nat /\ end < Times[n]
        BY <1>2, <3>1, TimesFacts
      <4> QED
        BY <1>1, <1>2, <3>1, <4>1
    <3>2. CASE n <= b
      <4>1. Times[n] <= Times[b] /\ Times[n] \in Nat /\ Times[b] \in Nat
        BY <1>2, <3>2, TimesGrow
      <4> QED
        BY <1>1, <1>2, <3>2, <4>1
    <3> QED
      BY <1>2, <3>1, <3>2
  <2>5. n = a <=> Times[n] = Times[a]
    BY <1>2, TimesFacts
  <2> QED
    BY <1>2, <1>3, <2>1, <2>2, <2>3, <2>4, <2>5
<1>8. \A t \in ToSet(Times) : (begin < t /\ t <= end) <=> t \in (begin + 1)..end
  BY <1>1, TimesFacts
<1>9. ASSUME NEW i \in 1..m, NEW j \in 1..m, i < j PROVE samples[i].time < samples[j].time
  <2>1. a + i - 1 \in 1..Len(Times) /\ a + j - 1 \in 1..Len(Times) /\ a + i - 1 < a + j - 1
    BY <1>2, <1>3, <1>5, <1>9
  <2> QED
    BY <1>5, <2>1, TimesFacts
<1> QED
  BY <1>2, <1>5, <1>6, <1>7, <1>8, <1>9 DEF begin, end

(* A query yields the sample in effect at the beginning of the interval,   *)
(* for every cursor, and those up to its end, in order: the times survive  *)
(* toCXXRTL(), the server and fromCXXRTL().                                *)
THEOREM AlwaysInInterval == Spec => []SamplesInInterval
  BY InvInInterval, SamplesInductive, PTL

(* The text that TimePoint.toString() makes of a time that was queried     *)
(* denotes that time, and fromString() reads it as that time or not at     *)
(* all, for every time and every number of digits and units.               *)
THEOREM AlwaysExact == Spec => []ShownIsExact
<1>1. SamplesInv => ShownIsExact
  BY ShownTime DEF SamplesInv, ShownIsExact
<1> QED
  BY <1>1, SamplesInductive, PTL

(* Bits below n are not touched by a remainder of 2^n.                     *)
LEMMA BitOf ==
    ASSUME NEW raw \in Nat, NEW n \in Nat, NEW bit \in 0..(n - 1)
    PROVE  ((raw % Power(2, n)) \div Power(2, bit)) % 2 = (raw \div Power(2, bit)) % 2
<1> DEFINE b == Power(2, bit)
           m == n - bit - 1
           p == Power(2, m)
           y == raw \div b
<1>1. bit \in Nat /\ m \in Nat /\ n = bit + (m + 1)
  OBVIOUS
<1> HIDE DEF m
<1>2. b \in Nat /\ b > 0 /\ p \in Nat /\ p > 0 /\ Power(2, m + 1) = 2 * p
  BY <1>1, PowerOfTwo, PowerEquations
<1>3. Power(2, n) = b * (2 * p)
  <2>1. m + 1 \in Nat
    BY <1>1
  <2>2. Power(2, bit + (m + 1)) = Power(2, bit) * Power(2, m + 1)
    BY <1>1, <2>1, PowerAdd
  <2> QED
    BY <1>1, <1>2, <2>2
<1>4. 2 * p \in Nat /\ 2 * p > 0
  BY <1>2
<1> HIDE DEF b, p
<1>5. (raw % (b * (2 * p))) \div b = y % (2 * p)
  <2> DEFINE q == 2 * p
  <2>0. q \in Nat /\ q > 0
    BY <1>4
  <2> HIDE DEF q
  <2>1. Retains(raw, b, q)
    BY <1>2, <2>0, ModMod
  <2>2. (raw % (b * q)) \div b = (raw \div b) % q
    BY <2>1 DEF Retains
  <2> QED
    BY <2>2 DEF q
<1>6. y \in Nat
  BY <1>2, DivMod
<1> HIDE DEF y
<1>7. (y % (2 * p)) % 2 = y % 2
  <2> DEFINE two == 2
  <2>1. two \in Nat /\ two > 0
    OBVIOUS
  <2> HIDE DEF two
  <2>2. Retains(y, two, p)
    BY <1>2, <1>6, <2>1, ModMod
  <2>3. (y % (two * p)) % two = y % two
    BY <2>2 DEF Retains
  <2> QED
    BY <2>3 DEF two
<1> QED
  BY <1>3, <1>5, <1>7 DEF b, y

(* The value shown for a variable is its row without the bits beyond its   *)
(* width, and for a variable whose bits are numbered from 0 the bits of    *)
(* the tree are the bits of that value, for every width and chunk size.    *)
THEOREM AlwaysShownIsValue == Spec => []ShownIsValue
<1>1. SamplesInv => ShownIsValue
  <2> SUFFICES ASSUME SamplesInv, NEW sample \in Samples, NEW i \in DOMAIN handles,
                      handles[i].designation.type # "range"
               PROVE  LET d == handles[i].designation
                          v == d.variable
                          value == Extract(sample, handles[i])[0]
                          row == Waveform[sample.time][v][d.first] % Power(2, v.width)
                      IN  /\ VariableValue(v, value) = row
                          /\ v.lsbAt = 0 =>
                               \A bit \in VariableBitIndices(v) :
                                  BitTreeItem(value, bit) = (row \div Power(2, bit)) % 2
    BY DEF ShownIsValue
  <2> DEFINE d == handles[i].designation
             v == d.variable
             value == Extract(sample, handles[i])[0]
             raw == Waveform[sample.time][v][d.first]
             w == v.width
             n == ChunkBits * Stride(v)
  <2>1. d \in Designations /\ sample.time \in ToSet(Times)
    BY HandleType, SampleParts
  <2>2. /\ v \in Variables /\ Count(d) = 1 /\ RowAt(d, 0) = d.first /\ 0 \in 0..(Count(d) - 1)
    BY <2>1, DesignationRows
  <2>3. raw \in Nat
    BY <2>1, <2>2, RowType
  <2>4. value = raw % Power(2, n)
    BY <2>2, Extracted
  <2>5. w \in Nat \ {0} /\ w <= n /\ n \in Nat
    <3>1. Stride(v) \in Nat /\ ChunkBits \in Nat
      BY <2>2, VariableType, SamplesAssumption
    <3>2. ChunkBits * Stride(v) \in Nat
      BY <3>1
    <3> QED
      BY <2>2, <3>2, VariableType
  <2> HIDE DEF n, raw, value
  <2>6. value % Power(2, w) = raw % Power(2, w)
    <3> DEFINE e == n - w
    <3>1. e \in Nat /\ n = w + e
      BY <2>5
    <3> HIDE DEF e, w
    <3>2. Power(2, n) = Power(2, w) * Power(2, e)
      BY <2>5, <3>1, PowerAdd
    <3> DEFINE b == Power(2, w)
               p == Power(2, e)
    <3>3. b \in Nat /\ b > 0 /\ p \in Nat /\ p > 0
      BY <2>5, <3>1, PowerOfTwo
    <3> HIDE DEF b, p
    <3>4. Retains(raw, b, p)
      BY <2>3, <3>3, ModMod
    <3>5. (raw % (b * p)) % b = raw % b
      BY <3>4 DEF Retains
    <3> QED
      BY <2>4, <3>2, <3>5 DEF b, p
  <2>7. ASSUME v.lsbAt = 0, NEW bit \in VariableBitIndices(v)
        PROVE  BitTreeItem(value, bit) = ((raw % Power(2, w)) \div Power(2, bit)) % 2
    <3>1. bit \in 0..(w - 1)
      BY <2>5, <2>7 DEF VariableBitIndices
    <3>2. bit \in 0..(n - 1)
      BY <2>5, <3>1
    <3> HIDE DEF w
    <3>3. (value \div Power(2, bit)) % 2 = (raw \div Power(2, bit)) % 2
      BY <2>3, <2>4, <2>5, <3>2, BitOf
    <3>4. ((raw % Power(2, w)) \div Power(2, bit)) % 2 = (raw \div Power(2, bit)) % 2
      BY <2>3, <2>5, <3>1, BitOf
    <3> QED
      BY <3>3, <3>4 DEF BitTreeItem
  <2> QED
    BY <2>6, <2>7 DEF VariableValue, raw, value
<1> QED
  BY <1>1, SamplesInductive, PTL
=============================================================================
