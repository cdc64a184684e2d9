--------------------------- MODULE FramingProofs ---------------------------
(***************************************************************************)
(* Proofs about Framing, for every set of characters, every text and every *)
(* way to cut it.                                                          *)
(***************************************************************************)
EXTENDS Framing, RecursionProofs

All == Characters \cup {NUL}

Texts == Seq(Characters)

(* Packet texts with their terminators.                                    *)
Marked(texts) == [k \in 1..Len(texts) |-> Terminated(texts[k])]

(* The text that was split: all pieces but the last one are terminated.    *)
Whole(pieces) == Join(Marked(Front(pieces))) \o Last(pieces)

-----------------------------------------------------------------------------
(* Texts.                                                                  *)
LEMMA TextType ==
    ASSUME NEW text \in Texts
    PROVE  text \in Seq(All) /\ Terminated(text) \in Seq(All) /\ Terminated(text) = text \o <<NUL>>
<1>1. text \in Seq(All) /\ NUL \in All
  BY SeqMonotonic DEF Texts, All
<1> QED
  BY <1>1 DEF Terminated

LEMMA TextsType ==
    ASSUME NEW texts \in Seq(Texts)
    PROVE  texts \in Seq(Seq(All))
<1>1. Texts \subseteq Seq(All)
  BY TextType
<1> QED
  BY <1>1, SeqMonotonic

LEMMA MarkedType ==
    ASSUME NEW texts \in Seq(Texts)
    PROVE  /\ Marked(texts) \in Seq(Seq(All)) /\ Len(Marked(texts)) = Len(texts)
           /\ \A k \in 1..Len(texts) : Marked(texts)[k] = Terminated(texts[k])
<1>1. \A k \in 1..Len(texts) : Terminated(texts[k]) \in Seq(All)
  BY TextType
<1>2. Len(texts) \in Nat
  OBVIOUS
<1> QED
  BY <1>1, <1>2 DEF Marked

(* One more text, and two groups of texts.                                 *)
LEMMA MarkedAppend ==
    ASSUME NEW texts \in Seq(Texts), NEW text \in Texts
    PROVE  Marked(Append(texts, text)) = Append(Marked(texts), Terminated(text))
<1> DEFINE longer == Append(texts, text)
           left == Marked(longer)
           right == Append(Marked(texts), Terminated(text))
           n == Len(texts)
<1>1. /\ longer \in Seq(Texts) /\ n \in Nat /\ Len(longer) = n + 1
      /\ longer[n + 1] = text /\ \A k \in 1..n : longer[k] = texts[k]
  BY AppendProperties
<1>2. /\ left \in Seq(Seq(All)) /\ Len(left) = n + 1
      /\ \A k \in 1..(n + 1) : left[k] = Terminated(longer[k])
  BY <1>1, MarkedType
<1>3. /\ right \in Seq(Seq(All)) /\ Len(right) = n + 1
      /\ \A k \in 1..n : right[k] = Terminated(texts[k])
      /\ right[n + 1] = Terminated(text)
  <2> DEFINE a == Marked(texts)
             b == Terminated(text)
  <2>1. a \in Seq(Seq(All)) /\ b \in Seq(All) /\ Len(a) = n /\ \A k \in 1..n : a[k] = Terminated(texts[k])
    BY MarkedType, TextType
  <2> HIDE DEF a, b, n
  <2>2. /\ Append(a, b) \in Seq(Seq(All)) /\ Len(Append(a, b)) = Len(a) + 1
        /\ \A k \in 1..Len(a) : Append(a, b)[k] = a[k]
        /\ Append(a, b)[Len(a) + 1] = b
    BY <2>1, AppendProperties
  <2> QED
    BY <2>1, <2>2 DEF a, b
<1> HIDE DEF left, right, longer
<1>4. \A k \in 1..(n + 1) : left[k] = right[k]
  <2>1. \A k \in 1..(n + 1) : k \in 1..n \/ k = n + 1
    BY <1>1
  <2> QED
    BY <1>1, <1>2, <1>3, <2>1
<1>5. left = right
  BY <1>2, <1>3, <1>4, SeqEqual
<1> QED
  BY <1>5 DEF left, right, longer

LEMMA MarkedConcat ==
    ASSUME NEW s \in Seq(Texts), NEW t \in Seq(Texts)
    PROVE  Marked(s \o t) = Marked(s) \o Marked(t)
<1> DEFINE left == Marked(s \o t)
           right == Marked(s) \o Marked(t)
           m == Len(s)
           n == Len(t)
<1>1. /\ s \o t \in Seq(Texts) /\ Len(s \o t) = m + n /\ m \in Nat /\ n \in Nat
      /\ \A k \in 1..m + n : (s \o t)[k] = IF k <= m THEN s[k] ELSE t[k - m]
  BY ConcatProperties
<1>2. /\ left \in Seq(Seq(All)) /\ Len(left) = m + n
      /\ \A k \in 1..m + n : left[k] = Terminated((s \o t)[k])
  BY <1>1, MarkedType
<1>3. /\ Marked(s) \in Seq(Seq(All)) /\ Len(Marked(s)) = m
      /\ Marked(t) \in Seq(Seq(All)) /\ Len(Marked(t)) = n
      /\ \A k \in 1..m : Marked(s)[k] = Terminated(s[k])
      /\ \A k \in 1..n : Marked(t)[k] = Terminated(t[k])
  BY MarkedType
<1>4. /\ right \in Seq(Seq(All)) /\ Len(right) = m + n
      /\ \A k \in 1..m + n : right[k] = IF k <= m THEN Marked(s)[k] ELSE Marked(t)[k - m]
  <2> DEFINE a == Marked(s)
             b == Marked(t)
  <2>1. a \in Seq(Seq(All)) /\ b \in Seq(Seq(All)) /\ Len(a) = m /\ Len(b) = n
    BY <1>3
  <2> HIDE DEF a, b, m, n
  <2>2. /\ a \o b \in Seq(Seq(All)) /\ Len(a \o b) = Len(a) + Len(b)
        /\ \A k \in 1..Len(a) + Len(b) : (a \o b)[k] = IF k <= Len(a) THEN a[k] ELSE b[k - Len(a)]
    BY <2>1, ConcatProperties
  <2> QED
    BY <2>1, <2>2 DEF a, b
<1> HIDE DEF left, right, m, n
<1>5. ASSUME NEW k \in 1..m + n PROVE left[k] = right[k]
  <2>1. CASE k <= m
    <3>1. k \in 1..m
      BY <1>1, <2>1
    <3>2. (s \o t)[k] = s[k] /\ right[k] = Marked(s)[k]
      BY <1>1, <1>4, <2>1
    <3> QED
      BY <1>2, <1>3, <3>1, <3>2
  <2>2. CASE ~(k <= m)
    <3>1. k - m \in 1..n
      BY <1>1, <2>2
    <3>2. (s \o t)[k] = t[k - m] /\ right[k] = Marked(t)[k - m]
      BY <1>1, <1>4, <2>2
    <3> QED
      BY <1>2, <1>3, <3>1, <3>2
  <2> QED
    BY <2>1, <2>2
<1>6. left = right
  BY <1>2, <1>4, <1>5, SeqEqual
<1> QED
  BY <1>6 DEF left, right

(* The last element of a sequence, and those before it.                    *)
LEMMA FrontLast ==
    ASSUME NEW S, NEW s \in Seq(S), NEW x \in S
    PROVE  Front(Append(s, x)) = s /\ Last(Append(s, x)) = x
<1> DEFINE longer == Append(s, x)
           n == Len(s)
<1>1. /\ longer \in Seq(S) /\ n \in Nat /\ Len(longer) = n + 1
      /\ longer[n + 1] = x /\ \A k \in 1..n : longer[k] = s[k]
  BY AppendProperties
<1> HIDE DEF longer
<1>2. Last(longer) = x
  BY <1>1 DEF Last
<1>3. (n + 1) - 1 = n
  BY <1>1
<1>4. Front(longer) = SubSeq(longer, 1, n)
  BY <1>1, <1>3 DEF Front
<1>5. /\ SubSeq(longer, 1, n) \in Seq(S) /\ Len(SubSeq(longer, 1, n)) = n
      /\ \A k \in 1..n : SubSeq(longer, 1, n)[k] = longer[k]
  BY <1>1
<1>6. Front(longer) = s
  BY <1>1, <1>4, <1>5, SeqEqual
<1> QED
  BY <1>2, <1>6 DEF longer

(* What is appended to the last piece, or begins a new one, is appended to *)
(* the text.                                                               *)
Grown(front, last, c) ==
    IF c = NUL THEN Append(Append(front, last), <<>>) ELSE Append(front, Append(last, c))

LEMMA WholeAppend ==
    ASSUME NEW front \in Seq(Texts), NEW last \in Texts, NEW c \in All
    PROVE  /\ Grown(front, last, c) \in Seq(Texts) /\ Grown(front, last, c) # <<>>
           /\ Whole(Grown(front, last, c)) = Append(Whole(Append(front, last)), c)
<1> DEFINE pieces == Append(front, last)
           text == Join(Marked(front))
<1>1. text \in Seq(All)
  BY MarkedType, FlattenType DEF Join
<1>2. last \in Seq(All)
  BY TextType
<1>3. Whole(pieces) = text \o last
  BY FrontLast DEF Whole
<1>4. pieces \in Seq(Texts) /\ text \o last \in Seq(All)
  BY <1>1, <1>2
<1>5. Append(text \o last, c) = (text \o last) \o <<c>> /\ <<c>> \in Seq(All)
  <2> HIDE DEF text
  <2> QED
    BY <1>4, AppendIsConcat
<1>6. Regroups(text, last, <<c>>)
  BY <1>1, <1>2, <1>5, Associative
<1> HIDE DEF text
<1>7. CASE c = NUL
  <2> DEFINE more == Append(pieces, <<>>)
  <2>1. <<>> \in Texts /\ more \in Seq(Texts) /\ more # <<>>
    <3>1. <<>> \in Texts
      BY EmptySeq DEF Texts
    <3> HIDE DEF pieces
    <3> QED
      BY <1>4, <3>1, AppendProperties
  <2>2. Front(more) = pieces /\ Last(more) = <<>>
    BY <1>4, <2>1, FrontLast
  <2>3. Marked(pieces) = Append(Marked(front), Terminated(last))
    BY MarkedAppend
  <2>4. Join(Marked(pieces)) = text \o Terminated(last)
    BY <2>3, MarkedType, TextType, FlattenAppend DEF Join, text
  <2>5. Terminated(last) = last \o <<c>>
    BY <1>7, TextType
  <2>6. Join(Marked(pieces)) = (text \o last) \o <<c>>
    BY <1>6, <2>4, <2>5 DEF Regroups
  <2>7. Whole(more) = Join(Marked(pieces)) \o <<>>
    BY <2>2 DEF Whole
  <2>8. Join(Marked(pieces)) \in Seq(All)
    BY <1>4, <1>5, <2>6, AppendProperties
  <2>9. Whole(more) = Join(Marked(pieces))
    BY <2>7, <2>8, ConcatEmptySeq
  <2> QED
    BY <1>3, <1>4, <1>5, <1>7, <2>1, <2>6, <2>9 DEF Grown
<1>8. CASE c # NUL
  <2> DEFINE longer == Append(last, c)
             more == Append(front, longer)
  <2>1. longer \in Texts
    BY <1>8 DEF Texts, All
  <2>2. more \in Seq(Texts) /\ more # <<>>
    BY <2>1, AppendProperties
  <2>3. Whole(more) = text \o longer
    BY <2>1, FrontLast DEF Whole, text
  <2>4. longer = last \o <<c>>
    BY <1>2, AppendIsConcat
  <2>5. Whole(more) = (text \o last) \o <<c>>
    BY <1>6, <2>3, <2>4 DEF Regroups
  <2> QED
    BY <1>3, <1>4, <1>5, <1>8, <2>2, <2>5 DEF Grown
<1> QED
  BY <1>7, <1>8

(* The pieces up to each character.                                        *)
Splits(pieces, chunk) ==
    /\ pieces \in [0..Len(chunk) -> Seq(Texts) \ {<<>>}]
    /\ pieces[0] = << <<>> >>
    /\ \A i \in 1..Len(chunk) :
          pieces[i] = IF chunk[i] = NUL THEN Append(pieces[i - 1], <<>>)
                      ELSE Append(Front(pieces[i - 1]), Append(Last(pieces[i - 1]), chunk[i]))
    /\ Split(chunk) = pieces[Len(chunk)]

(* Split satisfies the equations it is defined by.                         *)
LEMMA SplitEquations ==
    ASSUME NEW chunk \in Seq(All)
    PROVE  \E pieces : Splits(pieces, chunk)
<1> DEFINE m == Len(chunk)
           X == Seq(Texts) \ {<<>>}
           Next1(i, p) == IF chunk[i] = NUL THEN Append(p, <<>>)
                          ELSE Append(Front(p), Append(Last(p), chunk[i]))
           step == [q \in (1..m) \X X |-> Next1(q[1], q[2])]
           equation(g) == g = [i \in 0..m |-> IF i = 0 THEN << <<>> >> ELSE Next1(i, g[i - 1])]
<1>1. m \in Nat /\ \A i \in 1..m : chunk[i] \in All
  OBVIOUS
<1>2. << <<>> >> \in X
  BY DEF Texts
<1>3. ASSUME NEW i \in 1..m, NEW p \in X PROVE Next1(i, p) \in X
  <2>1. PICK front \in Seq(Texts), last \in Texts : p = Append(front, last)
    BY SequenceEmptyOrAppend
  <2>2. Front(p) = front /\ Last(p) = last
    BY <2>1, FrontLast
  <2>3. Next1(i, p) = Grown(front, last, chunk[i])
    BY <2>1, <2>2 DEF Grown
  <2> QED
    BY <1>1, <2>3, WholeAppend
<1> HIDE DEF Next1, X, m
<1>4. step \in [(1..m) \X X -> X]
  BY <1>3
<1>5. \A i \in 1..m, p \in X : step[<<i, p>>] = Next1(i, p)
  OBVIOUS
<1> HIDE DEF step
<1>6. PICK f : RecursiveTo(m, f, X, << <<>> >>, step)
  BY <1>1, <1>2, <1>4, FiniteRecursion
<1>7. /\ f \in [0..m -> X] /\ f[0] = << <<>> >>
      /\ \A i \in 1..m : f[i] = Next1(i, f[i - 1])
  <2>1. \A i \in 1..m : i - 1 \in 0..m
    BY <1>1
  <2> QED
    BY <1>5, <1>6, <2>1 DEF RecursiveTo
<1>8. equation(f)
  <2>1. f = [i \in 0..m |-> f[i]]
    BY <1>7
  <2>2. ASSUME NEW i \in 0..m PROVE f[i] = IF i = 0 THEN << <<>> >> ELSE Next1(i, f[i - 1])
    <3>1. i = 0 \/ i \in 1..m
      BY <1>1
    <3> QED
      BY <1>1, <1>7, <3>1
  <2> QED
    BY <2>1, <2>2
<1> DEFINE g == CHOOSE g : equation(g)
<1>9. equation(g)
  BY <1>8
<1>10. Split(chunk) = g[m]
  BY DEF Split, m, Next1
<1> HIDE DEF g
<1>11. g[0] = << <<>> >> /\ \A i \in 1..m : g[i] = Next1(i, g[i - 1])
  <2>1. \A i \in 0..m : g[i] = IF i = 0 THEN << <<>> >> ELSE Next1(i, g[i - 1])
    BY <1>9
  <2>2. 0 \in 0..m /\ \A i \in 1..m : i \in 0..m /\ i # 0
    BY <1>1
  <2> QED
    BY <2>1, <2>2
<1>12. g \in [0..m -> X]
  <2> DEFINE Good == {n \in Nat : n <= m => g[n] \in X}
  <2>1. 0 \in Good
    BY <1>2, <1>11
  <2>2. ASSUME NEW n \in Nat, n \in Good PROVE n + 1 \in Good
    <3> SUFFICES ASSUME n + 1 <= m PROVE g[n + 1] \in X
      OBVIOUS
    <3>1. g[n] \in X /\ n + 1 \in 1..m /\ (n + 1) - 1 = n
      BY <1>1, <2>2
    <3> QED
      BY <1>3, <1>11, <3>1
  <2> HIDE DEF Good
  <2>3. \A n \in Nat : n \in Good
    BY <2>1, <2>2, Induction
  <2>4. \A i \in 0..m : g[i] \in X
    BY <1>1, <2>3 DEF Good
  <2>5. g = [i \in 0..m |-> g[i]]
    BY <1>9
  <2> QED
    BY <2>4, <2>5
<1>13. Splits(g, chunk)
  BY <1>10, <1>11, <1>12 DEF Splits, m, X, Next1
<1> QED
  BY <1>13

(* Splitting loses nothing: the pieces are free of terminators, and        *)
(* terminated they are the chunk.                                          *)
LEMMA SplitIsWhole ==
    ASSUME NEW chunk \in Seq(All)
    PROVE  Split(chunk) \in Seq(Texts) /\ Split(chunk) # <<>> /\ Whole(Split(chunk)) = chunk
<1> DEFINE m == Len(chunk)
<1>1. m \in Nat /\ \A i \in 1..m : chunk[i] \in All
  OBVIOUS
<1>2. PICK g : Splits(g, chunk)
  BY SplitEquations
<1>3. /\ g \in [0..m -> Seq(Texts) \ {<<>>}] /\ g[0] = << <<>> >> /\ Split(chunk) = g[m]
      /\ \A i \in 1..m :
           g[i] = IF chunk[i] = NUL THEN Append(g[i - 1], <<>>)
                  ELSE Append(Front(g[i - 1]), Append(Last(g[i - 1]), chunk[i]))
  BY <1>2 DEF Splits
<1> HIDE DEF m
<1> DEFINE Good == {n \in Nat : n <= m => Whole(g[n]) = SubSeq(chunk, 1, n)}
<1>4. 0 \in Good
  <2>1. <<>> \in Texts /\ <<>> \in Seq(Texts) /\ << <<>> >> = Append(<<>>, <<>>)
    BY DEF Texts
  <2>2. Front(<< <<>> >>) = <<>> /\ Last(<< <<>> >>) = <<>>
    BY <2>1, FrontLast
  <2>3. Marked(<<>>) = <<>>
    BY DEF Marked
  <2>4. Whole(g[0]) = <<>> \o <<>>
    BY <1>3, <2>2, <2>3, FlattenEmpty DEF Whole, Join
  <2>5. SubSeq(chunk, 1, 0) = <<>>
    BY SubSeqEmpty
  <2>6. <<>> \o <<>> = <<>>
    BY <2>1, ConcatEmptySeq
  <2> QED
    BY <2>4, <2>5, <2>6
<1>5. ASSUME NEW n \in Nat, n \in Good PROVE n + 1 \in Good
  <2> SUFFICES ASSUME n + 1 <= m PROVE Whole(g[n + 1]) = SubSeq(chunk, 1, n + 1)
    OBVIOUS
  <2>1. /\ n \in 0..m /\ n + 1 \in 1..m /\ (n + 1) - 1 = n
        /\ Whole(g[n]) = SubSeq(chunk, 1, n) /\ chunk[n + 1] \in All
    BY <1>1, <1>5
  <2>2. PICK front \in Seq(Texts), last \in Texts : g[n] = Append(front, last)
    BY <1>3, <2>1, SequenceEmptyOrAppend
  <2>3. Front(g[n]) = front /\ Last(g[n]) = last
    BY <2>2, FrontLast
  <2>4. g[n + 1] = Grown(front, last, chunk[n + 1])
    BY <1>3, <2>1, <2>2, <2>3 DEF Grown
  <2>5. Whole(g[n + 1]) = Append(SubSeq(chunk, 1, n), chunk[n + 1])
    <3>1. Whole(Grown(front, last, chunk[n + 1])) = Append(Whole(Append(front, last)), chunk[n + 1])
      BY <2>1, WholeAppend
    <3> QED
      BY <2>1, <2>2, <2>4, <3>1
  <2>6. SubSeq(chunk, 1, n + 1) = Append(SubSeq(chunk, 1, n), chunk[n + 1])
    BY <1>1, <2>1 DEF m
  <2> QED
    BY <2>5, <2>6
<1> HIDE DEF Good
<1>6. m \in Good
  BY <1>1, <1>4, <1>5, Induction
<1>7. SubSeq(chunk, 1, m) = chunk
  BY SubSeqFull DEF m
<1>8. Whole(g[m]) = chunk
  BY <1>1, <1>6, <1>7 DEF Good
<1> QED
  BY <1>1, <1>3, <1>8

-----------------------------------------------------------------------------
(* The packets' texts are free of terminators, and nothing is lost or      *)
(* twice.                                                                  *)
FramingInv ==
    /\ received \in Seq(All)
    /\ recvBuffer \in Seq(Texts)
    /\ packets \in Seq(Texts)
    /\ Join(Marked(packets)) \o Join(recvBuffer) = received

(* Six texts in a row: where the brackets stand does not matter.           *)
Rebracketed(p, b, f, n, r, l) ==
    ((p \o ((b \o f) \o n)) \o r) \o l = (p \o b) \o (((f \o n) \o r) \o l)

LEMMA Rebracketing ==
    ASSUME NEW S, NEW p \in Seq(S), NEW b \in Seq(S), NEW f \in Seq(S),
           NEW n \in Seq(S), NEW r \in Seq(S), NEW l \in Seq(S)
    PROVE  Rebracketed(p, b, f, n, r, l)
<1> DEFINE fn == f \o n
           fnr == fn \o r
           pb == p \o b
<1>1. fn \in Seq(S) /\ fnr \in Seq(S) /\ pb \in Seq(S)
  OBVIOUS
<1> HIDE DEF fn, fnr, pb
<1>2. Regroups(b, f, n) /\ Regroups(p, b, fn) /\ Regroups(pb, fn, r) /\ Regroups(pb, fnr, l)
  BY <1>1, Associative
<1>3. (b \o f) \o n = b \o fn
  BY <1>2 DEF Regroups, fn
<1>4. p \o (b \o fn) = pb \o fn
  BY <1>2 DEF Regroups, pb
<1>5. (pb \o fn) \o r = pb \o fnr
  BY <1>2 DEF Regroups, fnr
<1>6. (pb \o fnr) \o l = pb \o (fnr \o l)
  BY <1>2 DEF Regroups
<1>7. ((p \o ((b \o f) \o n)) \o r) \o l = pb \o (fnr \o l)
  BY <1>3, <1>4, <1>5, <1>6
<1> QED
  BY <1>7 DEF Rebracketed, fn, fnr, pb

(* A chunk without a terminator is one more fragment.                      *)
LEMMA FragmentStep ==
    ASSUME FramingInv, NEW chunk \in Seq(All), Tail(Split(chunk)) = <<>>, OnStreamData(chunk)
    PROVE  FramingInv'
<1> DEFINE first == Head(Split(chunk))
           P == Join(Marked(packets))
           B == Join(recvBuffer)
<1>1. Split(chunk) \in Seq(Texts) /\ Split(chunk) # <<>> /\ Whole(Split(chunk)) = chunk
  BY SplitIsWhole
<1>2. first \in Texts /\ Split(chunk) = Append(<<>>, first) /\ <<>> \in Seq(Texts)
  <2>1. ASSUME NEW s \in Seq(Texts), s # <<>>, Tail(s) = <<>>
        PROVE  Head(s) \in Texts /\ s = Append(<<>>, Head(s))
    <3>1. Len(s) = 1 /\ s[1] \in Texts /\ Head(s) = s[1]
      <4> DEFINE tail == Tail(s)
      <4>1. Len(s) \in Nat /\ Len(s) # 0 /\ Head(s) = s[1] /\ Len(tail) = Len(s) - 1
        BY <2>1, HeadTailProperties, EmptySeq
      <4>2. tail = <<>>
        BY <2>1
      <4> HIDE DEF tail
      <4>3. Len(tail) = 0
        BY <4>2
      <4>4. s[1] \in Texts
        BY <4>1
      <4> QED
        BY <4>1, <4>3, <4>4
    <3> QED
      BY <3>1
  <2> QED
    BY <1>1, <2>1
<1>3. first = chunk
  <2>1. Front(Split(chunk)) = <<>> /\ Last(Split(chunk)) = first
    BY <1>2, FrontLast
  <2>2. Marked(<<>>) = <<>>
    BY DEF Marked
  <2>3. Whole(Split(chunk)) = <<>> \o first
    BY <2>1, <2>2, FlattenEmpty DEF Whole, Join
  <2> QED
    BY <1>1, <1>2, <2>3, TextType, ConcatEmptySeq
<1>4. /\ received' = received \o chunk /\ recvBuffer' = Append(recvBuffer, first)
      /\ packets' = packets
  BY DEF OnStreamData
<1> HIDE DEF first
<1>5. Join(Append(recvBuffer, first)) = B \o first
  BY <1>2, TextsType, TextType, FlattenAppend DEF FramingInv, Join
<1>6. P \in Seq(All) /\ B \in Seq(All) /\ first \in Seq(All)
  BY <1>2, MarkedType, TextsType, TextType, FlattenType DEF FramingInv, Join
<1>7. P \o B = received
  BY DEF FramingInv
<1>8. Regroups(P, B, first)
  BY <1>6, Associative
<1>9. Join(Marked(packets')) \o Join(recvBuffer') = received'
  BY <1>3, <1>4, <1>5, <1>7, <1>8 DEF Regroups
<1>10. /\ received \o chunk \in Seq(All) /\ Append(recvBuffer, first) \in Seq(Texts)
       /\ packets \in Seq(Texts)
  BY <1>2 DEF FramingInv
<1> QED
  BY <1>4, <1>9, <1>10 DEF FramingInv

(* A chunk with terminators ends the buffered packet, holds the ones       *)
(* between its first and its last terminator, and begins another.          *)
LEMMA PacketStep ==
    ASSUME FramingInv, NEW chunk \in Seq(All), Tail(Split(chunk)) # <<>>, OnStreamData(chunk)
    PROVE  FramingInv'
<1> DEFINE first == Head(Split(chunk))
           rest == Tail(Split(chunk))
           buffer == Append(recvBuffer, first)
           text == Join(buffer)
           P == Join(Marked(packets))
           B == Join(recvBuffer)
<1>1. Split(chunk) \in Seq(Texts) /\ Split(chunk) # <<>> /\ Whole(Split(chunk)) = chunk
  BY SplitIsWhole
<1>2. first \in Texts /\ rest \in Seq(Texts) /\ rest # <<>> /\ Split(chunk) = <<first>> \o rest
  BY <1>1
<1>3. /\ received' = received \o chunk
      /\ packets' = packets \o <<text>> \o Front(rest)
      /\ recvBuffer' = <<Last(rest)>>
  BY DEF OnStreamData
<1> HIDE DEF first, rest
<1>4. PICK front \in Seq(Texts), last \in Texts : rest = Append(front, last)
  BY <1>2, SequenceEmptyOrAppend
<1>5. Front(rest) = front /\ Last(rest) = last
  BY <1>4, FrontLast
<1> DEFINE F == Join(Marked(front))
           N == <<NUL>>
<1>6. /\ P \in Seq(All) /\ B \in Seq(All) /\ first \in Seq(All) /\ last \in Seq(All)
      /\ F \in Seq(All) /\ N \in Seq(All)
  <2>1. N \in Seq(All)
    BY DEF All
  <2> QED
    BY <1>2, <2>1, MarkedType, TextsType, TextType, FlattenType DEF FramingInv, Join
<1>7. text = B \o first
  BY <1>2, TextsType, TextType, FlattenAppend DEF FramingInv, Join
<1>8. text \in Texts
  <2>1. buffer \in Seq(Texts)
    BY <1>2 DEF FramingInv
  <2> HIDE DEF buffer
  <2> QED
    BY <2>1, FlattenType DEF Texts, Join
<1> HIDE DEF text
<1>9. chunk = ((first \o N) \o F) \o last
  <2> DEFINE ahead == <<first>> \o front
  <2>1. <<first>> \in Seq(Texts) /\ ahead \in Seq(Texts)
    BY <1>2
  <2>2. Split(chunk) = Append(ahead, last)
    <3>1. Append(front, last) = front \o <<last>> /\ Append(ahead, last) = ahead \o <<last>>
      BY <2>1, AppendIsConcat
    <3>2. Regroups(<<first>>, front, <<last>>)
      <4>1. <<last>> \in Seq(Texts)
        OBVIOUS
      <4> DEFINE a == <<first>>
                 c == <<last>>
      <4> HIDE DEF a, c
      <4>2. Regroups(a, front, c)
        BY <2>1, <4>1, Associative DEF a, c
      <4> QED
        BY <4>2 DEF a, c
    <3> QED
      BY <1>2, <1>4, <3>1, <3>2 DEF Regroups
  <2>3. Front(Split(chunk)) = ahead /\ Last(Split(chunk)) = last
    BY <2>1, <2>2, FrontLast
  <2>4. Marked(ahead) = Marked(<<first>>) \o Marked(front)
    BY <2>1, MarkedConcat
  <2>5. Join(Marked(ahead)) = Join(Marked(<<first>>)) \o F
    BY <2>1, <2>4, MarkedType, FlattenConcat DEF Join
  <2>6. Join(Marked(<<first>>)) = first \o N
    <3>1. Marked(<<first>>) = <<Terminated(first)>>
      BY <1>2 DEF Marked
    <3> QED
      BY <1>2, <3>1, TextType, FlattenOne DEF Join
  <2> QED
    BY <1>1, <2>3, <2>5, <2>6 DEF Whole
<1>10. Join(Marked(packets')) = (P \o ((B \o first) \o N)) \o F
  <2>1. packets \in Seq(Texts) /\ <<text>> \in Seq(Texts) /\ packets \o <<text>> \in Seq(Texts)
    BY <1>8 DEF FramingInv
  <2>2. Marked(packets') = Marked(packets \o <<text>>) \o Marked(front)
    BY <1>3, <1>5, <2>1, MarkedConcat
  <2>3. Join(Marked(packets')) = Join(Marked(packets \o <<text>>)) \o F
    BY <2>1, <2>2, MarkedType, FlattenConcat DEF Join
  <2>4. packets \o <<text>> = Append(packets, text)
    BY <2>1, <1>8, AppendIsConcat
  <2>5. Marked(Append(packets, text)) = Append(Marked(packets), Terminated(text))
    BY <1>8, <2>1, MarkedAppend
  <2>6. Join(Append(Marked(packets), Terminated(text))) = P \o Terminated(text)
    BY <1>8, <2>1, MarkedType, TextType, FlattenAppend DEF Join
  <2>7. Terminated(text) = (B \o first) \o N
    BY <1>7, <1>8, TextType
  <2> QED
    BY <2>3, <2>4, <2>5, <2>6, <2>7
<1>11. Join(recvBuffer') = last
  BY <1>3, <1>5, <1>6, FlattenOne DEF Join
<1>12. P \o B = received
  BY DEF FramingInv
<1>13. Rebracketed(P, B, first, N, F, last)
  BY <1>6, Rebracketing
<1>14. Join(Marked(packets')) \o Join(recvBuffer') = received'
  BY <1>3, <1>9, <1>10, <1>11, <1>12, <1>13 DEF Rebracketed
<1>15. received' \in Seq(All) /\ recvBuffer' \in Seq(Texts) /\ packets' \in Seq(Texts)
  <2>1. <<text>> \in Seq(Texts) /\ <<last>> \in Seq(Texts)
    BY <1>8
  <2> QED
    BY <1>3, <1>5, <2>1 DEF FramingInv
<1> QED
  BY <1>14, <1>15 DEF FramingInv

(* Every chunk extends the packets and the buffer by its own text.         *)
LEMMA FramingInductive == Spec => []FramingInv
<1>1. Init => FramingInv
  <2> SUFFICES ASSUME Init PROVE FramingInv
    OBVIOUS
  <2>1. Marked(<<>>) = <<>>
    BY DEF Marked
  <2>2. <<>> \o <<>> = <<>>
    BY ConcatEmptySeq
  <2> QED
    BY <2>1, <2>2, FlattenEmpty DEF Init, FramingInv, Join
<1>2. FramingInv /\ [Next]_vars => FramingInv'
  <2> SUFFICES ASSUME FramingInv, [Next]_vars PROVE FramingInv'
    OBVIOUS
  <2>1. CASE Next
    <3>1. PICK n \in 1..(MaxLength - Len(received)) :
             \E chunk \in [1..n -> Characters \cup {NUL}] : OnStreamData(chunk)
      BY <2>1 DEF Next
    <3>2. PICK chunk \in [1..n -> Characters \cup {NUL}] : OnStreamData(chunk)
      BY <3>1
    <3>3. n \in Nat
      BY FramingAssumption DEF FramingInv
    <3>4. chunk \in Seq(All)
      BY <3>3 DEF All
    <3> QED
      BY <3>2, <3>4, FragmentStep, PacketStep
  <2>2. CASE UNCHANGED vars
    BY <2>2 DEF vars, FramingInv, Join, Marked
  <2> QED
    BY <2>1, <2>2
<1> QED
  BY <1>1, <1>2, PTL DEF Spec

(* However the stream is cut into chunks, the packets with their           *)
(* terminators and the buffered fragments are the text received, and no    *)
(* terminator stays inside: NodeStreamLink.onStreamData never loses step   *)
(* with the server, for every alphabet and every length.                   *)
THEOREM AlwaysSynchronized == Spec => []Synchronized
<1>1. FramingInv => Synchronized
  <2> SUFFICES ASSUME FramingInv PROVE Synchronized
    OBVIOUS
  <2>1. \A text \in Texts : \A i \in 1..Len(text) : text[i] # NUL
    BY FramingAssumption DEF Texts
  <2>2. Join(recvBuffer) \in Texts
    BY FlattenType DEF FramingInv, Texts, Join
  <2>3. \A k \in 1..Len(packets) : packets[k] \in Texts
    BY DEF FramingInv
  <2> QED
    BY <2>1, <2>2, <2>3 DEF FramingInv, Synchronized, Marked
<1> QED
  BY <1>1, FramingInductive, PTL
=============================================================================
