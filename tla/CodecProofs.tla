---------------------------- MODULE CodecProofs -----------------------------
(***************************************************************************)
(* The codec of src/protocol/protocol.cpp, for every message: a frame is   *)
(* decoded to the message it was made from, or refused if the message      *)
(* breaks the limits.  What FlattenSeq and the reading loops compute is    *)
(* shown by induction over a set of numbers (UpTo), not over an operator.  *)
(***************************************************************************)
EXTENDS Stream, SequenceTheorems, FiniteSetTheorems, TLAPS

(* A set of naturals has a least member.                                   *)
LEMMA LeastNumber ==
    ASSUME NEW B, B \subseteq Nat, B # {}
    PROVE  \E n \in B : \A m \in B : n <= m
<1>1. PICK n \in B : \A m \in B : ~(<<m, n>> \in OpToRel(<, Nat))
  BY NatLessThanWellFounded, WFMin
<1>2. \A m \in B : ~(m < n)
  BY <1>1 DEF OpToRel
<1> QED BY <1>2

(* Hence a property of 0 that is inherited by successors up to n holds up  *)
(* to n: H is the set of numbers that have it.                             *)
LEMMA UpTo ==
    ASSUME NEW n \in Nat, NEW H, 0 \in H,
           \A i \in 1 .. n : i - 1 \in H => i \in H
    PROVE  \A i \in 0 .. n : i \in H
<1> DEFINE B == {i \in 0 .. n : i \notin H}
<1> SUFFICES ASSUME B # {} PROVE FALSE
  OBVIOUS
<1>1. B \subseteq Nat
  OBVIOUS
<1>2. PICK i \in B : \A j \in B : i <= j
  <2> HIDE DEF B
  <2> QED BY <1>1, LeastNumber
<1>3. i \in 1 .. n /\ i - 1 \in 0 .. n /\ i \notin H
  BY <1>2
<1>4. i - 1 \notin B
  <2>1. ~(i <= i - 1)
    BY <1>3
  <2> HIDE DEF B
  <2> QED BY <1>2, <2>1
<1>5. i - 1 \in H
  BY <1>3, <1>4
<1> QED BY <1>3, <1>5

-----------------------------------------------------------------------------
(***************************************************************************)
(* Sequences.                                                              *)
(***************************************************************************)

(* Two ways to cut a sequence at the same place.                           *)
LEMMA SameCut ==
    ASSUME NEW S, NEW a \in Seq(S), NEW b \in Seq(S), NEW c \in Seq(S), NEW d \in Seq(S),
           a \o b = c \o d, Len(a) = Len(c)
    PROVE  a = c /\ b = d
<1>1. /\ SubSeq(a \o b, 1, Len(a)) = a
      /\ SubSeq(a \o b, Len(a) + 1, Len(a \o b)) = b
  OBVIOUS
<1>2. /\ SubSeq(c \o d, 1, Len(c)) = c
      /\ SubSeq(c \o d, Len(c) + 1, Len(c \o d)) = d
  OBVIOUS
<1> QED BY <1>1, <1>2

(* The empty sequence is the one of length 0.                              *)
LEMMA EmptyLen ==
    ASSUME NEW S, NEW s \in Seq(S)
    PROVE  s = <<>> <=> Len(s) = 0
OBVIOUS

(* A sequence of one element.                                              *)
LEMMA OneElement ==
    ASSUME NEW S, NEW s \in Seq(S), Len(s) = 1
    PROVE  s[1] \in S /\ Tail(s) = <<>> /\ s = Append(<<>>, s[1])
<1>1. s[1] \in S
  OBVIOUS
<1>2. s = <<s[1]>>
  OBVIOUS
<1>3. Append(<<>>, s[1]) = <<s[1]>>
  OBVIOUS
<1>4. Len(Tail(s)) = 0 /\ Tail(s) \in Seq(S)
  OBVIOUS
<1> QED BY <1>1, <1>2, <1>3, <1>4, EmptyLen

(* A sequence of at least two, without its last and without its first.     *)
EndsWith(S, s, front, last) ==
    /\ front \in Seq(S) /\ last \in S /\ s[1] \in S
    /\ Len(s) = Len(front) + 1 /\ s = Append(front, last) /\ front[1] = s[1]
    /\ Tail(front) \in Seq(S) /\ Tail(s) = Append(Tail(front), last)

(* A sequence of two or more has a front and a last element.               *)
LEMMA FrontAndLast ==
    ASSUME NEW S, NEW s \in Seq(S), Len(s) # 0, Len(s) # 1
    PROVE  \E front, last : EndsWith(S, s, front, last)
<1> DEFINE n == Len(s) - 1
           front == SubSeq(s, 1, n)
           last == s[n + 1]
<1>1. n \in Nat \ {0} /\ Len(s) = n + 1
  OBVIOUS
<1> HIDE DEF n
<1>2. front \in Seq(S) /\ Len(front) = n /\ last \in S /\ s[1] \in S
  BY <1>1
<1>3. s = Append(front, last) /\ front[1] = s[1]
  BY <1>1
<1> HIDE DEF front, last
<1>4. front # <<>>
  BY <1>1, <1>2, EmptyLen
<1>5. Tail(Append(front, last)) = Append(Tail(front), last) /\ Tail(front) \in Seq(S)
  BY <1>2, <1>4, HeadTailAppend, HeadTailProperties
<1>6. EndsWith(S, s, front, last)
  BY <1>1, <1>2, <1>3, <1>5 DEF EndsWith
<1> QED BY <1>6

(* What recv leaves and what it takes.                                     *)
LEMMA Cut ==
    ASSUME NEW S, NEW a \in Seq(S), NEW n \in 0 .. Len(a)
    PROVE  /\ SubSeq(a, 1, n) \in Seq(S) /\ Len(SubSeq(a, 1, n)) = n
           /\ SubSeq(a, n + 1, Len(a)) \in Seq(S)
           /\ Len(SubSeq(a, n + 1, Len(a))) = Len(a) - n
           /\ SubSeq(a, 1, n) \o SubSeq(a, n + 1, Len(a)) = a
<1>1. /\ SubSeq(a, 1, n) \in Seq(S) /\ Len(SubSeq(a, 1, n)) = n
      /\ SubSeq(a, n + 1, Len(a)) \in Seq(S)
      /\ Len(SubSeq(a, n + 1, Len(a))) = Len(a) - n
  OBVIOUS
<1>2. SubSeq(a, 1, n) \o SubSeq(a, n + 1, Len(a)) = SubSeq(a, 1, Len(a))
  <2>1. /\ 1 \in 1 .. (Len(a) + 1) /\ n \in (1 - 1) .. Len(a) /\ Len(a) \in n .. Len(a)
    OBVIOUS
  <2> QED BY <2>1, ConcatAdjacentSubSeq
<1>3. SubSeq(a, 1, Len(a)) = a
  BY SubSeqFull
<1> QED BY <1>1, <1>2, <1>3

(***************************************************************************)
(* What travels: words and checksums.  Nothing is assumed of a checksum.   *)
(***************************************************************************)
Body(m) == <<Magic, Version, Len(EncodePayload(m))>> \o EncodePayload(m)
Symbol == Nat \cup {Crc(Body(m)) : m \in Messages}
Text == Seq(Symbol)

(* Texts have a length, and only the empty one has length 0.               *)
LEMMA TextLen ==
    ASSUME NEW a \in Text
    PROVE  Len(a) \in Nat /\ (a = <<>> <=> Len(a) = 0)
BY EmptyLen DEF Text

(* The empty text is neutral.                                              *)
LEMMA TextEmpty ==
    /\ <<>> \in Text /\ Len(<<>>) = 0
    /\ \A a \in Text : a \o <<>> = a /\ <<>> \o a = a
BY EmptySeq, ConcatEmptySeq DEF Text

(* Two texts, one behind the other, are a text.                            *)
LEMMA TextConcat ==
    ASSUME NEW a \in Text, NEW b \in Text
    PROVE  a \o b \in Text /\ Len(a \o b) = Len(a) + Len(b)
BY ConcatProperties DEF Text

(* Concatenation of texts is associative.                                  *)
LEMMA TextAssociative ==
    ASSUME NEW a \in Text, NEW b \in Text, NEW c \in Text
    PROVE  (a \o b) \o c = a \o (b \o c)
BY ConcatAssociative DEF Text

(* SameCut, for texts.                                                     *)
LEMMA TextSameCut ==
    ASSUME NEW a \in Text, NEW b \in Text, NEW c \in Text, NEW d \in Text,
           a \o b = c \o d, Len(a) = Len(c)
    PROVE  a = c /\ b = d
BY SameCut DEF Text

(* Cut, for texts.                                                         *)
LEMMA TextCut ==
    ASSUME NEW a \in Text, NEW n \in 0 .. Len(a)
    PROVE  /\ SubSeq(a, 1, n) \in Text /\ Len(SubSeq(a, 1, n)) = n
           /\ SubSeq(a, n + 1, Len(a)) \in Text
           /\ Len(SubSeq(a, n + 1, Len(a))) = Len(a) - n
           /\ SubSeq(a, 1, n) \o SubSeq(a, n + 1, Len(a)) = a
BY Cut DEF Text

-----------------------------------------------------------------------------
(***************************************************************************)
(* Concatenation of a list of sequences.                                   *)
(***************************************************************************)

(* The recursive function of FlattenSeq. *)
IsFlat(f, ss, n) == f = [i \in 1 .. n |-> IF i = 1 THEN ss[i] ELSE f[i - 1] \o ss[i]]

(* The recursion of FlattenSeq has a solution, and it yields texts.        *)
LEMMA FlatExists ==
    ASSUME NEW n \in Nat, NEW ss
    PROVE  \E f : IsFlat(f, ss, n)
<1> DEFINE H == {m \in Nat : \E f : IsFlat(f, ss, m)}
<1>1. 0 \in H
  <2> DEFINE g == [i \in 1 .. 0 |-> ss]
  <2>1. g = [i \in 1 .. 0 |-> IF i = 1 THEN ss[i] ELSE g[i - 1] \o ss[i]]
    OBVIOUS
  <2> QED BY <2>1 DEF IsFlat
<1>2. ASSUME NEW m \in 1 .. n, m - 1 \in H PROVE m \in H
  <2>1. PICK h : IsFlat(h, ss, m - 1)
    BY <1>2
  <2> DEFINE g == [i \in 1 .. m |-> IF i = 1 THEN ss[i] ELSE h[i - 1] \o ss[i]]
  <2>2. \A i \in 1 .. (m - 1) : h[i] = IF i = 1 THEN ss[i] ELSE h[i - 1] \o ss[i]
    BY <2>1 DEF IsFlat
  <2>3. \A i \in 1 .. (m - 1) : g[i] = h[i]
    <3>1. \A i \in 1 .. (m - 1) : i \in 1 .. m
      OBVIOUS
    <3> QED BY <2>2, <3>1
  <2>4. \A i \in 1 .. m : i # 1 => g[i - 1] = h[i - 1]
    <3>1. \A i \in 1 .. m : i # 1 => i - 1 \in 1 .. (m - 1)
      OBVIOUS
    <3> HIDE DEF g
    <3> QED BY <2>3, <3>1
  <2>5. \A i \in 1 .. m : g[i] = IF i = 1 THEN ss[i] ELSE g[i - 1] \o ss[i]
    BY <2>4
  <2>6. IsFlat(g, ss, m)
    <3>1. g = [i \in 1 .. m |-> g[i]]
      OBVIOUS
    <3> HIDE DEF g
    <3> QED BY <2>5, <3>1 DEF IsFlat
  <2> QED BY <2>6
<1> HIDE DEF H
<1>3. \A m \in 0 .. n : m \in H
  BY <1>1, <1>2, UpTo
<1>4. n \in H
  BY <1>3
<1> QED BY <1>4 DEF H

(* Its value depends on what was concatenated so far only.                 *)
SameTexts(ss, tt, n) == \A i \in 1 .. n : ss[i] \in Text /\ ss[i] = tt[i]

(* Lists that agree up to n have the same concatenation up to n.           *)
LEMMA FlatAgree ==
    ASSUME NEW n \in Nat, NEW m \in Nat, n <= m,
           NEW ss, NEW tt, SameTexts(ss, tt, n),
           NEW f, IsFlat(f, ss, n), NEW g, IsFlat(g, tt, m)
    PROVE  SameTexts(f, g, n)
<1> DEFINE H == {i \in 0 .. n : i = 0 \/ (f[i] \in Text /\ f[i] = g[i])}
<1>1. 0 \in H
  OBVIOUS
<1>2. ASSUME NEW i \in 1 .. n, i - 1 \in H PROVE i \in H
  <2>1. i \in 1 .. n /\ i \in 1 .. m /\ i \in 0 .. n
    OBVIOUS
  <2>2. f[i] = (IF i = 1 THEN ss[i] ELSE f[i - 1] \o ss[i])
    BY <2>1 DEF IsFlat
  <2>3. g[i] = (IF i = 1 THEN tt[i] ELSE g[i - 1] \o tt[i])
    BY <2>1 DEF IsFlat
  <2>4. ss[i] \in Text /\ ss[i] = tt[i]
    BY <2>1 DEF SameTexts
  <2>5. CASE i = 1
    BY <2>2, <2>3, <2>4, <2>5
  <2>6. CASE i # 1
    <3>1. f[i - 1] \in Text /\ f[i - 1] = g[i - 1]
      BY <1>2, <2>6
    <3>2. f[i] = f[i - 1] \o ss[i] /\ g[i] = f[i - 1] \o ss[i]
      BY <2>2, <2>3, <2>4, <2>6, <3>1
    <3>3. f[i - 1] \o ss[i] \in Text
      BY <2>4, <3>1, TextConcat
    <3>4. f[i] \in Text /\ f[i] = g[i]
      BY <3>2, <3>3, Zenon
    <3> QED BY <2>1, <3>4, Zenon
  <2> QED BY <2>5, <2>6
<1> HIDE DEF H
<1>3. \A i \in 0 .. n : i \in H
  BY <1>1, <1>2, UpTo
<1>4. \A i \in 1 .. n : i \in 0 .. n /\ i # 0
  OBVIOUS
<1> QED BY <1>3, <1>4 DEF H, SameTexts

(* FlattenSeq is the last value of that recursion.                         *)
LEMMA FlattenUnfolds ==
    ASSUME NEW ss, Len(ss) \in Nat \ {0}
    PROVE  \E f : IsFlat(f, ss, Len(ss)) /\ FlattenSeq(ss) = f[Len(ss)]
<1> DEFINE n == Len(ss)
           flatten == CHOOSE f : f = [i \in 1 .. n |-> IF i = 1 THEN ss[i]
                                                     ELSE f[i - 1] \o ss[i]]
<1>1. \E f : IsFlat(f, ss, n)
  <2> HIDE DEF n
  <2>1. n \in Nat
    BY DEF n
  <2> QED BY <2>1, FlatExists
<1>2. IsFlat(flatten, ss, n)
  <2>1. \E f : f = [i \in 1 .. n |-> IF i = 1 THEN ss[i] ELSE f[i - 1] \o ss[i]]
    BY <1>1 DEF IsFlat
  <2> QED BY <2>1 DEF IsFlat
<1>3. FlattenSeq(ss) = flatten[n]
  BY Zenon DEF FlattenSeq
<1> HIDE DEF flatten
<1> QED BY <1>2, <1>3

(* Nothing concatenates to nothing.                                        *)
LEMMA FlattenEmpty == FlattenSeq(<<>>) = <<>>
BY DEF FlattenSeq

(* One more text is appended to the concatenation.                         *)
LEMMA FlattenAppend ==
    ASSUME NEW ss \in Seq(Text), NEW x \in Text
    PROVE  FlattenSeq(ss) \in Text /\ FlattenSeq(Append(ss, x)) = FlattenSeq(ss) \o x
<1> DEFINE n == Len(ss)
           tt == Append(ss, x)
<1>1. /\ n \in Nat /\ Len(tt) = n + 1 /\ tt[n + 1] = x
      /\ \A i \in 1 .. n : ss[i] \in Text /\ ss[i] = tt[i]
  OBVIOUS
<1> HIDE DEF tt
<1>2. PICK g : IsFlat(g, tt, Len(tt)) /\ FlattenSeq(tt) = g[Len(tt)]
  <2>1. Len(tt) \in Nat \ {0}
    BY <1>1
  <2> HIDE DEF n
  <2> QED BY <2>1, FlattenUnfolds
<1>3. PICK f : IsFlat(f, ss, n) /\ (n # 0 => FlattenSeq(ss) = f[n])
  <2>1. CASE n = 0
    BY <1>1, <2>1, FlatExists
  <2>2. CASE n # 0
    BY <1>1, <2>2, FlattenUnfolds
  <2> QED BY <2>1, <2>2
<1>4. n = 0 => ss = <<>>
  OBVIOUS
<1> HIDE DEF n
<1>5. IsFlat(g, tt, n + 1) /\ FlattenSeq(tt) = g[n + 1]
  BY <1>1, <1>2
<1>6. g[n + 1] = IF n = 0 THEN x ELSE g[n] \o x
  <2>1. n + 1 \in 1 .. (n + 1) /\ (n + 1) - 1 = n /\ (n + 1 = 1 <=> n = 0)
    BY <1>1
  <2>2. g[n + 1] = IF n + 1 = 1 THEN tt[n + 1] ELSE g[(n + 1) - 1] \o tt[n + 1]
    BY <1>5, <2>1 DEF IsFlat
  <2> QED BY <1>1, <2>1, <2>2
<1>7. CASE n = 0
  <2>1. FlattenSeq(ss) = <<>>
    BY <1>4, <1>7, FlattenEmpty, Zenon
  <2>2. FlattenSeq(tt) = x
    BY <1>5, <1>6, <1>7
  <2> QED BY <2>1, <2>2, TextEmpty DEF tt
<1>8. CASE n # 0
  <2>1. n \in 1 .. n /\ n <= n + 1 /\ n + 1 \in Nat
    BY <1>1, <1>8
  <2>2. SameTexts(f, g, n)
    <3>1. n \in Nat /\ IsFlat(f, ss, n) /\ IsFlat(g, tt, n + 1)
      BY <1>1, <1>3, <1>5
    <3>2. SameTexts(ss, tt, n)
      BY <1>1 DEF SameTexts
    <3> QED BY <2>1, <3>1, <3>2, FlatAgree
  <2>3. f[n] \in Text /\ f[n] = g[n]
    BY <2>1, <2>2 DEF SameTexts
  <2>4. FlattenSeq(ss) = f[n]
    BY <1>3, <1>8
  <2>5. FlattenSeq(tt) = g[n] \o x
    BY <1>5, <1>6, <1>8
  <2> QED BY <2>3, <2>4, <2>5, Zenon DEF tt
<1> QED BY <1>7, <1>8

(* The first sequence comes first.                                         *)
LEMMA FlattenHead ==
    ASSUME NEW ss \in Seq(Text), Len(ss) # 0
    PROVE  FlattenSeq(ss) = ss[1] \o FlattenSeq(Tail(ss))
<1> DEFINE Holds(tt) == FlattenSeq(tt) = tt[1] \o FlattenSeq(Tail(tt))
           H == {n \in Nat : \A tt \in Seq(Text) : Len(tt) = n + 1 => Holds(tt)}
<1>1. ASSUME NEW tt \in Seq(Text), Len(tt) = 1 PROVE Holds(tt)
  <2> DEFINE x == tt[1]
  <2>1. x \in Text
    BY <1>1, OneElement, Zenon
  <2>2. tt = Append(<<>>, x)
    BY <1>1, OneElement, Zenon
  <2> HIDE DEF x
  <2>3. Tail(tt) = <<>>
    BY <1>1, OneElement
  <2>4. <<>> \in Seq(Text)
    OBVIOUS
  <2>5. FlattenSeq(Append(<<>>, x)) = FlattenSeq(<<>>) \o x
    BY <2>1, <2>4, FlattenAppend
  <2>6. <<>> \o x = x \o <<>>
    BY <2>1
  <2>7. FlattenSeq(tt) = x \o FlattenSeq(Tail(tt))
    BY <2>2, <2>3, <2>5, <2>6, FlattenEmpty, Zenon
  <2> QED BY <2>7, Zenon DEF x
<1>2. ASSUME NEW n \in Nat \ {0}, n - 1 \in H, NEW tt \in Seq(Text), Len(tt) = n + 1
      PROVE  Holds(tt)
  <2> DEFINE first == tt[1]
  <2>1. Len(tt) # 0 /\ Len(tt) # 1
    BY <1>2
  <2>2. PICK front, last : EndsWith(Text, tt, front, last)
    BY <2>1, FrontAndLast
  <2> DEFINE mid == FlattenSeq(Tail(front))
  <2>3. /\ front \in Seq(Text) /\ Len(tt) = Len(front) + 1 /\ first \in Text /\ last \in Text
        /\ tt = Append(front, last) /\ front[1] = first
        /\ Tail(front) \in Seq(Text) /\ Tail(tt) = Append(Tail(front), last)
    BY <2>2, Zenon DEF EndsWith
  <2> HIDE DEF first
  <2>4. Tail(front) \in Seq(Text)
    BY <2>3
  <2>5. FlattenSeq(front) = front[1] \o mid
    <3>1. Len(front) \in Nat /\ Len(front) + 1 = n + 1
      BY <1>2, <2>3, LenProperties
    <3>2. Len(front) = (n - 1) + 1
      BY <3>1
    <3>3. Holds(front)
      BY <1>2, <2>3, <3>2
    <3> QED BY <3>3
  <2>6. FlattenSeq(Append(front, last)) = FlattenSeq(front) \o last
    BY <2>3, FlattenAppend
  <2>7. mid \in Text /\ FlattenSeq(Append(Tail(front), last)) = mid \o last
    BY <2>3, <2>4, FlattenAppend
  <2> HIDE DEF mid
  <2>8. first \in Text /\ last \in Text
    BY <2>3
  <2>9. (first \o mid) \o last = first \o (mid \o last)
    BY <2>7, <2>8
  <2>10. FlattenSeq(tt) = first \o FlattenSeq(Tail(tt))
    BY <2>3, <2>5, <2>6, <2>7, <2>9, Zenon
  <2> QED BY <2>10, Zenon DEF first
<1> HIDE DEF Holds
<1>3. 0 \in H
  <2>1. \A tt \in Seq(Text) : Len(tt) = 0 + 1 => Holds(tt)
    BY <1>1
  <2> QED BY <2>1
<1>4. ASSUME NEW n \in Nat \ {0}, n - 1 \in H PROVE n \in H
  BY <1>2, <1>4
<1>5. Len(ss) - 1 \in Nat /\ (Len(ss) - 1) + 1 = Len(ss)
  OBVIOUS
<1> HIDE DEF H
<1>6. \A i \in 0 .. (Len(ss) - 1) : i \in H
  <2>1. \A i \in 1 .. (Len(ss) - 1) : i \in Nat \ {0}
    OBVIOUS
  <2> QED BY <1>3, <1>4, <1>5, <2>1, UpTo
<1>7. Len(ss) - 1 \in H
  BY <1>5, <1>6
<1> QED BY <1>5, <1>7 DEF H, Holds

(* A list of texts concatenates to a text.                                 *)
LEMMA FlattenType ==
    ASSUME NEW ss \in Seq(Text)
    PROVE  FlattenSeq(ss) \in Text
BY FlattenAppend, TextEmpty

(***************************************************************************)
(* What is still to be read: rest[i] follows the i-th of n texts.          *)
(***************************************************************************)
Follow(ss, rest, n) ==
    /\ rest[0] = FlattenSeq(ss) /\ rest[n] = <<>>
    /\ \A i \in 0 .. n : rest[i] \in Text
    /\ \A i \in 1 .. n : ss[i] \in Text /\ rest[i - 1] = ss[i] \o rest[i]

(* A suffix, its first element and what follows it.                        *)
LEMMA DropOne ==
    ASSUME NEW S, NEW s \in Seq(S), NEW i \in 1 .. Len(s)
    PROVE  /\ SubSeq(s, i, Len(s)) \in Seq(S) /\ Len(SubSeq(s, i, Len(s))) # 0
           /\ s[i] \in S /\ SubSeq(s, i, Len(s))[1] = s[i]
           /\ Tail(SubSeq(s, i, Len(s))) = SubSeq(s, i + 1, Len(s))
<1>1. /\ SubSeq(s, i, Len(s)) \in Seq(S) /\ Len(SubSeq(s, i, Len(s))) # 0
      /\ s[i] \in S /\ SubSeq(s, i, Len(s))[1] = s[i]
  OBVIOUS
<1>2. Tail(SubSeq(s, i, Len(s))) = SubSeq(s, i + 1, Len(s))
  OBVIOUS
<1> QED BY <1>1, <1>2

(* There is such a list of what is still to be read.                       *)
LEMMA FlattenFollows ==
    ASSUME NEW ss \in Seq(Text)
    PROVE  \E rest : Follow(ss, rest, Len(ss))
<1> DEFINE n == Len(ss)
           rest == [i \in 0 .. n |-> FlattenSeq(SubSeq(ss, i + 1, n))]
<1>1. n \in Nat
  OBVIOUS
<1>2. ASSUME NEW i \in 0 .. n PROVE rest[i] \in Text
  <2>1. SubSeq(ss, i + 1, n) \in Seq(Text)
    OBVIOUS
  <2> HIDE DEF n
  <2>2. FlattenSeq(SubSeq(ss, i + 1, n)) \in Text
    BY <2>1, FlattenType
  <2> QED BY <2>2
<1>3. ASSUME NEW i \in 1 .. n
      PROVE  ss[i] \in Text /\ rest[i - 1] = ss[i] \o rest[i]
  <2> DEFINE t == SubSeq(ss, i, n)
             x == ss[i]
             u == SubSeq(ss, i + 1, n)
  <2>1. t \in Seq(Text) /\ Len(t) # 0 /\ x \in Text
    BY DropOne, Zenon
  <2>2. t[1] = x
    BY DropOne, Zenon
  <2>3. Tail(t) = u
    BY DropOne, Zenon
  <2>4. rest[i - 1] = FlattenSeq(t) /\ rest[i] = FlattenSeq(u)
    <3>1. i - 1 \in 0 .. n /\ (i - 1) + 1 = i /\ i \in 0 .. n
      BY <1>1
    <3> HIDE DEF n
    <3> QED BY <3>1
  <2> HIDE DEF t, x, u, rest
  <2>5. FlattenSeq(t) = t[1] \o FlattenSeq(Tail(t))
    BY <2>1, FlattenHead
  <2>6. x \in Text /\ rest[i - 1] = x \o rest[i]
    BY <2>1, <2>2, <2>3, <2>4, <2>5, Zenon
  <2> QED BY <2>6 DEF x
<1>4. rest[0] = FlattenSeq(ss)
  <2>1. SubSeq(ss, 0 + 1, n) = ss /\ 0 \in 0 .. n
    OBVIOUS
  <2> HIDE DEF n
  <2> QED BY <2>1
<1>5. rest[n] = <<>>
  <2>1. SubSeq(ss, n + 1, n) = <<>> /\ n \in 0 .. n
    OBVIOUS
  <2> HIDE DEF n
  <2> QED BY <2>1, FlattenEmpty
<1> HIDE DEF rest
<1>6. Follow(ss, rest, n)
  BY <1>2, <1>3, <1>4, <1>5 DEF Follow
<1> QED BY <1>6

-----------------------------------------------------------------------------
(***************************************************************************)
(* One field.                                                              *)
(***************************************************************************)
FieldKinds == {"WORD", "ENUM", "OPT", "OPTENUM", "LIST"}

(* A field is read as it was written; an enum the decoder takes is one of  *)
(* the encoder's.                                                          *)
FieldAgree(p, g) ==
    /\ p.f = g.f /\ p.kind = g.kind /\ g.kind \in FieldKinds /\ g.max \in Nat
    /\ g.kind \in {"ENUM", "OPTENUM"} => p.max = g.max

(* The decoder refuses a field for its length only. *)
FieldFits(g, v) == g.kind = "LIST" => Len(v) <= g.max

Parsed(rest, rec) == [ok |-> TRUE, rest |-> rest, rec |-> rec]
Failed(st) == \E rest, rec : st = [ok |-> FALSE, rest |-> rest, rec |-> rec]

(* A refused parse state has failed.                                       *)
LEMMA RefusedFails ==
    ASSUME NEW st, Failed(st) \/ \E rest, rec : st = Parsed(rest, rec)
    PROVE  Failed(Refused(st))
<1>1. ASSUME NEW ok \in BOOLEAN, NEW b \in BOOLEAN, NEW rest, NEW rec
      PROVE  [[ok |-> ok, rest |-> rest, rec |-> rec] EXCEPT !.ok = b]
                = [ok |-> b, rest |-> rest, rec |-> rec]
  OBVIOUS
<1>2. ASSUME NEW ok \in BOOLEAN, NEW rest, NEW rec, st = [ok |-> ok, rest |-> rest, rec |-> rec]
      PROVE  Failed(Refused(st))
  <2>1. Refused(st) = [ok |-> FALSE, rest |-> rest, rec |-> rec]
    BY <1>1, <1>2 DEF Refused
  <2> QED BY <2>1 DEF Failed
<1> QED BY <1>2 DEF Failed, Parsed

(* Numbers are symbols; sequences of numbers are texts.                    *)
LEMMA WordsAreText ==
    /\ Nat \subseteq Symbol
    /\ \A v \in Seq(Nat) : v \in Text
    /\ \A n \in Nat : <<n>> \in Text /\ Len(<<n>>) = 1 /\ <<n>>[1] = n
<1>1. Nat \subseteq Symbol
  BY DEF Symbol
<1> QED BY <1>1 DEF Text

(* The front of a concatenation.                                           *)
LEMMA FrontOf ==
    ASSUME NEW a \in Text, NEW b \in Text
    PROVE  /\ \A i \in 1 .. Len(a) : (a \o b)[i] = a[i]
           /\ SubSeq(a \o b, Len(a) + 1, Len(a \o b)) = b
           /\ SubSeq(a \o b, 1, Len(a)) = a
           /\ SubSeq(a \o b, 2, Len(a)) = SubSeq(a, 2, Len(a))
<1>1. \A i \in 1 .. Len(a) : (a \o b)[i] = a[i]
  BY DEF Text
<1>2. SubSeq(a \o b, Len(a) + 1, Len(a \o b)) = b
  BY DEF Text
<1>3. SubSeq(a \o b, 1, Len(a)) = a
  BY DEF Text
<1>4. SubSeq(a \o b, 2, Len(a)) = SubSeq(a, 2, Len(a))
  BY DEF Text
<1> QED BY <1>1, <1>2, <1>3, <1>4

(* A count and what it counts.                                             *)
LEMMA Counted ==
    ASSUME NEW v \in Seq(Nat)
    PROVE  /\ <<Len(v)>> \o v \in Text /\ Len(<<Len(v)>> \o v) = Len(v) + 1
           /\ (<<Len(v)>> \o v)[1] = Len(v)
           /\ Len(v) = 1 => (<<Len(v)>> \o v)[2] = v[1]
           /\ SubSeq(<<Len(v)>> \o v, 2, Len(v) + 1) = v
<1>1. <<Len(v)>> \o v \in Seq(Nat) /\ Len(<<Len(v)>> \o v) = Len(v) + 1
  OBVIOUS
<1>2. (<<Len(v)>> \o v)[1] = Len(v) /\ (Len(v) = 1 => (<<Len(v)>> \o v)[2] = v[1])
  OBVIOUS
<1>3. SubSeq(<<Len(v)>> \o v, 2, Len(v) + 1) = v
  OBVIOUS
<1> QED BY <1>1, <1>2, <1>3, WordsAreText

(* The words of a field, and what the decoder makes of them.               *)
FieldText(a, g, v) ==
    /\ a \in Text /\ Len(a) \in Nat \ {0} /\ Width(g, a) = Len(a)
    /\ InRange(g, a) <=> FieldFits(g, v)
    /\ v = IF g.kind \in {"WORD", "ENUM"} THEN a[1] ELSE SubSeq(a, 2, Len(a))

(* PutField writes a text of the width the reader expects.                 *)
LEMMA FieldWritten ==
    ASSUME NEW p, NEW g, FieldAgree(p, g), NEW v, FieldValue(p, v)
    PROVE  FieldText(PutField(p, v), g, v)
<1>1. CASE g.kind = "WORD"
  <2>1. v \in Nat /\ PutField(p, v) = <<v>>
    BY <1>1 DEF FieldAgree, FieldValue, PutField
  <2>2. Width(g, <<v>>) = 1 /\ InRange(g, <<v>>) /\ FieldFits(g, v)
    BY <1>1 DEF Width, InRange, FieldFits
  <2>3. <<v>> \in Text /\ Len(<<v>>) = 1 /\ <<v>>[1] = v
    BY <2>1, WordsAreText
  <2> QED BY <1>1, <2>1, <2>2, <2>3 DEF FieldText
<1>2. CASE g.kind = "ENUM"
  <2>1. v \in Nat /\ v <= g.max /\ PutField(p, v) = <<v>>
    BY <1>2 DEF FieldAgree, FieldValue, PutField
  <2>2. Width(g, <<v>>) = 1 /\ InRange(g, <<v>>) /\ FieldFits(g, v)
    BY <1>2, <2>1 DEF Width, InRange, FieldFits
  <2>3. <<v>> \in Text /\ Len(<<v>>) = 1 /\ <<v>>[1] = v
    BY <2>1, WordsAreText
  <2> QED BY <1>2, <2>1, <2>2, <2>3 DEF FieldText
<1> DEFINE a == <<Len(v)>> \o v
<1>3. CASE g.kind = "OPT"
  <2>1. v \in Seq(Nat) /\ Len(v) <= 1 /\ PutField(p, v) = a
    BY <1>3 DEF FieldAgree, FieldValue, PutField
  <2>2. /\ a \in Text /\ Len(a) = Len(v) + 1 /\ a[1] = Len(v)
        /\ SubSeq(a, 2, Len(v) + 1) = v /\ Len(v) \in Nat
    BY <2>1, Counted
  <2> HIDE DEF a
  <2>3. Width(g, a) = Len(a)
    BY <1>3, <2>1, <2>2 DEF Width
  <2>4. InRange(g, a) /\ FieldFits(g, v)
    BY <1>3 DEF InRange, FieldFits
  <2> QED BY <1>3, <2>1, <2>2, <2>3, <2>4 DEF FieldText
<1>4. CASE g.kind = "OPTENUM"
  <2>1. v \in Seq(0 .. g.max) /\ Len(v) <= 1 /\ PutField(p, v) = a /\ g.max \in Nat
    BY <1>4 DEF FieldAgree, FieldValue, PutField
  <2>2. v \in Seq(Nat) /\ (Len(v) = 1 => v[1] <= g.max)
    BY <2>1
  <2>3. /\ a \in Text /\ Len(a) = Len(v) + 1 /\ a[1] = Len(v)
        /\ Len(v) = 1 => a[2] = v[1]
        /\ SubSeq(a, 2, Len(v) + 1) = v /\ Len(v) \in Nat
    BY <2>2, Counted
  <2> HIDE DEF a
  <2>4. Width(g, a) = Len(a)
    BY <1>4, <2>1, <2>3 DEF Width
  <2>5. InRange(g, a) /\ FieldFits(g, v)
    BY <1>4, <2>1, <2>2, <2>3 DEF InRange, FieldFits
  <2> QED BY <1>4, <2>1, <2>3, <2>4, <2>5 DEF FieldText
<1>5. CASE g.kind = "LIST"
  <2>1. v \in Seq(Nat) /\ PutField(p, v) = a
    BY <1>5 DEF FieldAgree, FieldValue, PutField
  <2>2. /\ a \in Text /\ Len(a) = Len(v) + 1 /\ a[1] = Len(v)
        /\ SubSeq(a, 2, Len(v) + 1) = v /\ Len(v) \in Nat
    BY <2>1, Counted
  <2> HIDE DEF a
  <2>3. Width(g, a) = Len(a)
    BY <1>5, <2>1, <2>2 DEF Width
  <2>4. InRange(g, a) <=> FieldFits(g, v)
    BY <1>5, <2>2 DEF InRange, FieldFits
  <2> QED BY <1>5, <2>1, <2>2, <2>3, <2>4 DEF FieldText
<1> QED BY <1>1, <1>2, <1>3, <1>4, <1>5 DEF FieldAgree, FieldKinds

(* GetField takes exactly that text, or refuses it for its length.         *)
LEMMA FieldRead ==
    ASSUME NEW p, NEW g, FieldAgree(p, g), NEW v, FieldValue(p, v),
           NEW tail \in Text, NEW r
    PROVE  LET st == GetField(Parsed(PutField(p, v) \o tail, r), g)
           IN  /\ PutField(p, v) \in Text
               /\ FieldFits(g, v) => st = Parsed(tail, Assign(r, g.f, v))
               /\ ~FieldFits(g, v) => Failed(st)
<1> DEFINE a == PutField(p, v)
           ws == a \o tail
<1>1. FieldText(a, g, v) /\ g.kind \in FieldKinds
  BY FieldWritten DEF FieldAgree
<1> HIDE DEF a
<1>2. a \in Text /\ Len(a) \in Nat \ {0} /\ Width(g, a) = Len(a)
  BY <1>1 DEF FieldText
<1>3. /\ \A i \in 1 .. Len(a) : ws[i] = a[i]
      /\ SubSeq(ws, Len(a) + 1, Len(ws)) = tail
      /\ SubSeq(ws, 2, Len(a)) = SubSeq(a, 2, Len(a))
      /\ ws \in Text /\ Len(ws) = Len(a) + Len(tail)
  BY <1>2, FrontOf, TextConcat
<1> HIDE DEF ws
<1>4. ws # <<>> /\ ~(Len(ws) < Len(a)) /\ ws[1] = a[1]
  <2>1. Len(tail) \in Nat
    BY TextLen
  <2>2. Len(ws) # 0 /\ ~(Len(ws) < Len(a)) /\ 1 \in 1 .. Len(a)
    BY <1>2, <1>3, <2>1
  <2> QED BY <1>3, <2>2, TextLen
<1>5. Width(g, ws) = Len(a)
  BY <1>1, <1>2, <1>4 DEF Width, FieldKinds
<1>6. InRange(g, ws) <=> InRange(g, a)
  <2>1. CASE g.kind = "OPTENUM"
    <3>1. CASE a[1] = 0
      BY <1>4, <2>1, <3>1 DEF InRange
    <3>2. CASE a[1] # 0
      <4>1. Len(a) = 2
        BY <1>2, <2>1, <3>2 DEF Width
      <4>2. ws[2] = a[2]
        BY <1>3, <4>1
      <4> QED BY <1>4, <2>1, <3>2, <4>2 DEF InRange
    <3> QED BY <3>1, <3>2
  <2>2. CASE g.kind # "OPTENUM"
    BY <1>4, <2>2 DEF InRange
  <2> QED BY <2>1, <2>2
<1>7. (InRange(g, a) <=> FieldFits(g, v))
      /\ v = IF g.kind \in {"WORD", "ENUM"} THEN a[1] ELSE SubSeq(a, 2, Len(a))
  BY <1>1 DEF FieldText
<1> DEFINE st == Parsed(ws, r)
<1>8. st.ok = TRUE /\ st.rest = ws /\ st.rec = r
  BY DEF Parsed
<1>9. ASSUME FieldFits(g, v) PROVE GetField(st, g) = Parsed(tail, Assign(r, g.f, v))
  <2>1. GetField(st, g) = [ok |-> TRUE, rest |-> SubSeq(ws, Len(a) + 1, Len(ws)),
                           rec |-> Assign(r, g.f,
                                IF g.kind \in {"WORD", "ENUM"} THEN ws[1]
                                ELSE SubSeq(ws, 2, Len(a)))]
    <3> HIDE DEF st
    <3> QED BY <1>4, <1>5, <1>6, <1>7, <1>8, <1>9 DEF GetField
  <2>2. v = IF g.kind \in {"WORD", "ENUM"} THEN ws[1] ELSE SubSeq(ws, 2, Len(a))
    BY <1>3, <1>4, <1>7
  <2> QED BY <1>3, <2>1, <2>2 DEF Parsed
<1>10. ASSUME ~FieldFits(g, v) PROVE Failed(GetField(st, g))
  <2>1. GetField(st, g) = Refused(st)
    <3> HIDE DEF st
    <3> QED BY <1>4, <1>5, <1>6, <1>7, <1>8, <1>10 DEF GetField
  <2> QED BY <2>1, RefusedFails
<1> HIDE DEF st
<1>11. a \in Text
  BY <1>2
<1> QED BY <1>9, <1>10, <1>11 DEF a, ws, st

-----------------------------------------------------------------------------
(***************************************************************************)
(* The three reading loops are what they look like.                        *)
(***************************************************************************)

(* The fields of a record. *)
LEMMA RecordLoop ==
    ASSUME NEW schema, Len(schema) \in Nat, NEW ws
    PROVE  \E read : /\ read[0] = Parsed(ws, EmptyMap)
                     /\ \A i \in 1 .. Len(schema) : read[i] = GetField(read[i - 1], schema[i])
                     /\ GetRecord(schema, ws) = read[Len(schema)]
<1> DEFINE n == Len(schema)
           start == Parsed(ws, EmptyMap)
           H == {k \in Nat : \E read : read =
                    [i \in 0 .. k |-> IF i = 0 THEN start ELSE GetField(read[i - 1], schema[i])]}
           loop == CHOOSE read : read =
                    [i \in 0 .. n |-> IF i = 0 THEN start ELSE GetField(read[i - 1], schema[i])]
<1>1. n \in Nat
  OBVIOUS
<1>2. GetRecord(schema, ws) = loop[n]
  BY Zenon DEF GetRecord, Parsed
<1> HIDE DEF n, start
<1>3. 0 \in H
  <2> DEFINE g == [i \in 0 .. 0 |-> start]
  <2>1. g = [i \in 0 .. 0 |-> IF i = 0 THEN start ELSE GetField(g[i - 1], schema[i])]
    OBVIOUS
  <2> QED BY <2>1
<1>4. ASSUME NEW k \in 1 .. n, k - 1 \in H PROVE k \in H
  <2>1. PICK h : h =
            [i \in 0 .. (k - 1) |-> IF i = 0 THEN start ELSE GetField(h[i - 1], schema[i])]
    BY <1>4
  <2> DEFINE g == [i \in 0 .. k |-> IF i = 0 THEN start ELSE GetField(h[i - 1], schema[i])]
  <2>2. \A i \in 0 .. (k - 1) : h[i] = IF i = 0 THEN start ELSE GetField(h[i - 1], schema[i])
    BY <2>1
  <2>3. \A i \in 0 .. (k - 1) : g[i] = h[i]
    <3>1. \A i \in 0 .. (k - 1) : i \in 0 .. k
      OBVIOUS
    <3> QED BY <2>2, <3>1
  <2>4. \A i \in 0 .. k : i # 0 => g[i - 1] = h[i - 1]
    <3>1. \A i \in 0 .. k : i # 0 => i - 1 \in 0 .. (k - 1)
      OBVIOUS
    <3> HIDE DEF g
    <3> QED BY <2>3, <3>1
  <2>5. \A i \in 0 .. k : g[i] = IF i = 0 THEN start ELSE GetField(g[i - 1], schema[i])
    BY <2>4
  <2>6. g = [i \in 0 .. k |-> IF i = 0 THEN start ELSE GetField(g[i - 1], schema[i])]
    <3>1. g = [i \in 0 .. k |-> g[i]]
      OBVIOUS
    <3> HIDE DEF g
    <3> QED BY <2>5, <3>1, Zenon
  <2>7. k \in Nat
    OBVIOUS
  <2> HIDE DEF g
  <2> QED BY <2>6, <2>7, Zenon
<1> HIDE DEF H
<1>5. n \in H
  <2>1. \A k \in 0 .. n : k \in H
    BY <1>1, <1>3, <1>4, UpTo
  <2> QED BY <1>1, <2>1
<1>6. loop = [i \in 0 .. n |-> IF i = 0 THEN start ELSE GetField(loop[i - 1], schema[i])]
  <2>1. \E read : read =
            [i \in 0 .. n |-> IF i = 0 THEN start ELSE GetField(read[i - 1], schema[i])]
    BY <1>5 DEF H
  <2> QED BY <2>1
<1> HIDE DEF loop
<1>7. loop[0] = start /\ \A i \in 1 .. n : loop[i] = GetField(loop[i - 1], schema[i])
  <2>1. 0 \in 0 .. n /\ \A i \in 1 .. n : i \in 0 .. n /\ i # 0
    BY <1>1
  <2> QED BY <1>6, <2>1
<1> QED BY <1>2, <1>7 DEF n, start

(* The records of a list. *)
RecordsReading(read, schema, count, ws) ==
    /\ read[0] = Parsed(ws, <<>>)
    /\ \A i \in 1 .. count : read[i] = GetNext(read[i - 1], schema)
    /\ GetRecords(schema, count, ws) = read[count]

(* GetRecords is the last value of its loop.                               *)
LEMMA RecordsLoop ==
    ASSUME NEW schema, NEW count \in Nat, NEW ws
    PROVE  \E read : RecordsReading(read, schema, count, ws)
<1> DEFINE n == count
           start == Parsed(ws, <<>>)
           H == {k \in Nat : \E read : read =
                    [i \in 0 .. k |-> IF i = 0 THEN start ELSE GetNext(read[i - 1], schema)]}
           loop == CHOOSE read : read =
                    [i \in 0 .. n |-> IF i = 0 THEN start ELSE GetNext(read[i - 1], schema)]
<1>1. n \in Nat
  OBVIOUS
<1>2. GetRecords(schema, count, ws) = loop[n]
  BY Zenon DEF GetRecords, Parsed
<1> HIDE DEF n, start
<1>3. 0 \in H
  <2> DEFINE g == [i \in 0 .. 0 |-> start]
  <2>1. g = [i \in 0 .. 0 |-> IF i = 0 THEN start ELSE GetNext(g[i - 1], schema)]
    OBVIOUS
  <2> QED BY <2>1
<1>4. ASSUME NEW k \in 1 .. n, k - 1 \in H PROVE k \in H
  <2>1. PICK h : h =
            [i \in 0 .. (k - 1) |-> IF i = 0 THEN start ELSE GetNext(h[i - 1], schema)]
    BY <1>4
  <2> DEFINE g == [i \in 0 .. k |-> IF i = 0 THEN start ELSE GetNext(h[i - 1], schema)]
  <2>2. \A i \in 0 .. (k - 1) : h[i] = IF i = 0 THEN start ELSE GetNext(h[i - 1], schema)
    BY <2>1
  <2>3. \A i \in 0 .. (k - 1) : g[i] = h[i]
    <3>1. \A i \in 0 .. (k - 1) : i \in 0 .. k
      OBVIOUS
    <3> QED BY <2>2, <3>1
  <2>4. \A i \in 0 .. k : i # 0 => g[i - 1] = h[i - 1]
    <3>1. \A i \in 0 .. k : i # 0 => i - 1 \in 0 .. (k - 1)
      OBVIOUS
    <3> HIDE DEF g
    <3> QED BY <2>3, <3>1
  <2>5. \A i \in 0 .. k : g[i] = IF i = 0 THEN start ELSE GetNext(g[i - 1], schema)
    BY <2>4
  <2>6. g = [i \in 0 .. k |-> IF i = 0 THEN start ELSE GetNext(g[i - 1], schema)]
    <3>1. g = [i \in 0 .. k |-> g[i]]
      OBVIOUS
    <3> HIDE DEF g
    <3> QED BY <2>5, <3>1, Zenon
  <2>7. k \in Nat
    OBVIOUS
  <2> HIDE DEF g
  <2> QED BY <2>6, <2>7, Zenon
<1> HIDE DEF H
<1>5. n \in H
  <2>1. \A k \in 0 .. n : k \in H
    BY <1>1, <1>3, <1>4, UpTo
  <2> QED BY <1>1, <2>1
<1>6. loop = [i \in 0 .. n |-> IF i = 0 THEN start ELSE GetNext(loop[i - 1], schema)]
  <2>1. \E read : read =
            [i \in 0 .. n |-> IF i = 0 THEN start ELSE GetNext(read[i - 1], schema)]
    BY <1>5 DEF H
  <2> QED BY <2>1
<1> HIDE DEF loop
<1>7. loop[0] = start /\ \A i \in 1 .. n : loop[i] = GetNext(loop[i - 1], schema)
  <2>1. 0 \in 0 .. n /\ \A i \in 1 .. n : i \in 0 .. n /\ i # 0
    BY <1>1
  <2> QED BY <1>6, <2>1
<1> QED BY <1>2, <1>7 DEF n, start, RecordsReading

(* The items of a message. *)
LEMMA MessageLoop ==
    ASSUME NEW schema, Len(schema) \in Nat, NEW t, NEW ws
    PROVE  \E read : /\ read[0] = Parsed(ws, Assign(EmptyMap, "type", t))
                     /\ \A i \in 1 .. Len(schema) : read[i] = GetItem(read[i - 1], schema[i])
                     /\ GetMessage(schema, t, ws) = read[Len(schema)]
<1> DEFINE n == Len(schema)
           start == Parsed(ws, Assign(EmptyMap, "type", t))
           H == {k \in Nat : \E read : read =
                    [i \in 0 .. k |-> IF i = 0 THEN start ELSE GetItem(read[i - 1], schema[i])]}
           loop == CHOOSE read : read =
                    [i \in 0 .. n |-> IF i = 0 THEN start ELSE GetItem(read[i - 1], schema[i])]
<1>1. n \in Nat
  OBVIOUS
<1>2. GetMessage(schema, t, ws) = loop[n]
  BY Zenon DEF GetMessage, Parsed
<1> HIDE DEF n, start
<1>3. 0 \in H
  <2> DEFINE g == [i \in 0 .. 0 |-> start]
  <2>1. g = [i \in 0 .. 0 |-> IF i = 0 THEN start ELSE GetItem(g[i - 1], schema[i])]
    OBVIOUS
  <2> QED BY <2>1
<1>4. ASSUME NEW k \in 1 .. n, k - 1 \in H PROVE k \in H
  <2>1. PICK h : h =
            [i \in 0 .. (k - 1) |-> IF i = 0 THEN start ELSE GetItem(h[i - 1], schema[i])]
    BY <1>4
  <2> DEFINE g == [i \in 0 .. k |-> IF i = 0 THEN start ELSE GetItem(h[i - 1], schema[i])]
  <2>2. \A i \in 0 .. (k - 1) : h[i] = IF i = 0 THEN start ELSE GetItem(h[i - 1], schema[i])
    BY <2>1
  <2>3. \A i \in 0 .. (k - 1) : g[i] = h[i]
    <3>1. \A i \in 0 .. (k - 1) : i \in 0 .. k
      OBVIOUS
    <3> QED BY <2>2, <3>1
  <2>4. \A i \in 0 .. k : i # 0 => g[i - 1] = h[i - 1]
    <3>1. \A i \in 0 .. k : i # 0 => i - 1 \in 0 .. (k - 1)
      OBVIOUS
    <3> HIDE DEF g
    <3> QED BY <2>3, <3>1
  <2>5. \A i \in 0 .. k : g[i] = IF i = 0 THEN start ELSE GetItem(g[i - 1], schema[i])
    BY <2>4
  <2>6. g = [i \in 0 .. k |-> IF i = 0 THEN start ELSE GetItem(g[i - 1], schema[i])]
    <3>1. g = [i \in 0 .. k |-> g[i]]
      OBVIOUS
    <3> HIDE DEF g
    <3> QED BY <2>5, <3>1, Zenon
  <2>7. k \in Nat
    OBVIOUS
  <2> HIDE DEF g
  <2> QED BY <2>6, <2>7, Zenon
<1> HIDE DEF H
<1>5. n \in H
  <2>1. \A k \in 0 .. n : k \in H
    BY <1>1, <1>3, <1>4, UpTo
  <2> QED BY <1>1, <2>1
<1>6. loop = [i \in 0 .. n |-> IF i = 0 THEN start ELSE GetItem(loop[i - 1], schema[i])]
  <2>1. \E read : read =
            [i \in 0 .. n |-> IF i = 0 THEN start ELSE GetItem(read[i - 1], schema[i])]
    BY <1>5 DEF H
  <2> QED BY <2>1
<1> HIDE DEF loop
<1>7. loop[0] = start /\ \A i \in 1 .. n : loop[i] = GetItem(loop[i - 1], schema[i])
  <2>1. 0 \in 0 .. n /\ \A i \in 1 .. n : i \in 0 .. n /\ i # 0
    BY <1>1
  <2> QED BY <1>6, <2>1
<1> QED BY <1>2, <1>7 DEF n, start

-----------------------------------------------------------------------------
(***************************************************************************)
(* A record: all of its fields fit and it is read back, or it is refused.  *)
(***************************************************************************)
RecordAgree(ps, gs) ==
    /\ Len(ps) \in Nat /\ Len(gs) = Len(ps) /\ DOMAIN ps = 1 .. Len(ps)
    /\ \A i \in 1 .. Len(ps) : FieldAgree(ps[i], gs[i])

RecordFits(gs, rec) == \A i \in 1 .. Len(gs) : FieldFits(gs[i], rec[gs[i].f])

(* The part of a record that is read so far.                               *)
Part(rec, D) == [f \in D |-> rec[f]]
NamesTo(gs, i) == {gs[j].f : j \in 1 .. i}

(* Reading a field adds it to what is read.                                *)
LEMMA PartAssign ==
    ASSUME NEW rec, NEW D, NEW f
    PROVE  Assign(Part(rec, D), f, rec[f]) = Part(rec, D \cup {f})
BY DEF Assign, Part

(* One more field has been read.                                           *)
LEMMA NamesGrow ==
    ASSUME NEW gs, NEW i \in Nat \ {0}
    PROVE  NamesTo(gs, i) = NamesTo(gs, i - 1) \cup {gs[i].f}
<1>1. \A j : j \in 1 .. i <=> j \in 1 .. (i - 1) \/ j = i
  OBVIOUS
<1> QED BY <1>1, Zenon DEF NamesTo

(* A failed parse stays failed: PReader never sets ok again.               *)
LEMMA FailedField ==
    ASSUME NEW st, Failed(st), NEW g
    PROVE  Failed(GetField(st, g))
<1>1. ~st.ok
  BY DEF Failed
<1>2. GetField(st, g) = Refused(st)
  BY <1>1 DEF GetField
<1> QED BY <1>2, RefusedFails

(* What put_ writes for the fields of a structure, one by one.             *)
LEMMA RecordTexts ==
    ASSUME NEW ps, NEW gs, RecordAgree(ps, gs), NEW rec, RecordValue(ps, rec)
    PROVE  LET texts == [i \in DOMAIN ps |-> PutField(ps[i], rec[ps[i].f])]
           IN  /\ texts \in Seq(Text) /\ Len(texts) = Len(ps)
               /\ \A i \in 1 .. Len(ps) : texts[i] = PutField(ps[i], rec[ps[i].f])
<1> DEFINE n == Len(ps)
           texts == [i \in DOMAIN ps |-> PutField(ps[i], rec[ps[i].f])]
<1>1. n \in Nat /\ DOMAIN ps = 1 .. n
  BY DEF RecordAgree
<1>2. ASSUME NEW i \in 1 .. n PROVE PutField(ps[i], rec[ps[i].f]) \in Text
  <2>1. FieldAgree(ps[i], gs[i]) /\ FieldValue(ps[i], rec[ps[i].f])
    BY <1>1 DEF RecordAgree, RecordValue
  <2> DEFINE p == ps[i]
             v == rec[p.f]
  <2>2. FieldAgree(p, gs[i]) /\ FieldValue(p, v)
    BY <2>1
  <2> HIDE DEF p, v
  <2>3. PutField(p, v) \in Text
    BY <2>2, FieldWritten DEF FieldText
  <2> QED BY <2>3 DEF p, v
<1> HIDE DEF n
<1>3. texts = [i \in 1 .. n |-> PutField(ps[i], rec[ps[i].f])]
  BY <1>1
<1>4. \A i \in 1 .. n : texts[i] = PutField(ps[i], rec[ps[i].f])
  BY <1>3
<1>5. texts \in [1 .. n -> Text]
  BY <1>2, <1>3
<1> HIDE DEF texts
<1>6. texts \in Seq(Text) /\ Len(texts) = n
  BY <1>1, <1>5
<1> QED BY <1>4, <1>6 DEF n, texts

(* get_ reads back the structure put_ wrote, or refuses it.                *)
LEMMA RecordRead ==
    ASSUME NEW ps, NEW gs, RecordAgree(ps, gs), NEW rec, RecordValue(ps, rec),
           NEW tail \in Text
    PROVE  LET got == GetRecord(gs, PutRecord(ps, rec) \o tail)
           IN  /\ PutRecord(ps, rec) \in Text
               /\ RecordFits(gs, rec) => got = Parsed(tail, rec)
               /\ ~RecordFits(gs, rec) => Failed(got)
<1> DEFINE n == Len(ps)
           texts == [i \in DOMAIN ps |-> PutField(ps[i], rec[ps[i].f])]
           ws == PutRecord(ps, rec) \o tail
<1>1. n \in Nat /\ Len(gs) = n /\ DOMAIN ps = 1 .. n
  BY DEF RecordAgree
<1>2. /\ texts \in Seq(Text) /\ Len(texts) = n
      /\ \A i \in 1 .. n : texts[i] = PutField(ps[i], rec[ps[i].f])
  BY RecordTexts
<1>3. PutRecord(ps, rec) = FlattenSeq(texts)
  BY DEF PutRecord
<1> HIDE DEF texts, n
<1>4. PICK rest : Follow(texts, rest, n)
  BY <1>2, FlattenFollows
<1>5. /\ rest[0] = PutRecord(ps, rec) /\ rest[n] = <<>>
      /\ \A i \in 0 .. n : rest[i] \in Text
      /\ \A i \in 1 .. n : texts[i] \in Text /\ rest[i - 1] = texts[i] \o rest[i]
  BY <1>3, <1>4 DEF Follow
<1>6. PICK read : /\ read[0] = Parsed(ws, EmptyMap)
                  /\ \A i \in 1 .. n : read[i] = GetField(read[i - 1], gs[i])
                  /\ GetRecord(gs, ws) = read[n]
  <2>1. Len(gs) \in Nat
    BY <1>1
  <2> HIDE DEF ws
  <2> QED BY <1>1, <2>1, RecordLoop
<1> DEFINE Fits(i) == FieldFits(gs[i], rec[gs[i].f])
           Left(i) == rest[i] \o tail
           Read(i) == Parsed(Left(i), Part(rec, NamesTo(gs, i)))
           FitsTo(i) == \A j \in 1 .. i : Fits(j)
           Inv(i) == (FitsTo(i) => read[i] = Read(i)) /\ (~FitsTo(i) => Failed(read[i]))
           H == {i \in 0 .. n : Inv(i)}
<1>7. 0 \in H
  <2>1. FitsTo(0)
    OBVIOUS
  <2>2. Part(rec, NamesTo(gs, 0)) = EmptyMap
    <3>1. NamesTo(gs, 0) = {}
      BY DEF NamesTo
    <3> QED BY <3>1 DEF Part, EmptyMap
  <2>3. read[0] = Read(0)
    BY <1>5, <1>6, <2>2, Zenon
  <2>4. 0 \in 0 .. n
    BY <1>1
  <2> HIDE DEF Read, FitsTo
  <2> QED BY <2>1, <2>3, <2>4
<1>8. ASSUME NEW i \in 1 .. n, i - 1 \in H PROVE i \in H
  <2> DEFINE p == ps[i]
             g == gs[i]
             v == rec[g.f]
             r == Part(rec, NamesTo(gs, i - 1))
             left == rest[i] \o tail
  <2>1. FieldAgree(p, g) /\ p.f = g.f /\ FieldValue(p, v)
    <3>1. i \in DOMAIN ps /\ i \in 1 .. Len(ps)
      BY <1>1 DEF n
    <3>2. FieldAgree(p, g)
      BY <3>1 DEF RecordAgree
    <3>3. p.f = g.f
      BY <3>2 DEF FieldAgree
    <3>4. FieldValue(p, rec[p.f])
      BY <3>1 DEF RecordValue
    <3> QED BY <3>2, <3>3, <3>4
  <2>2. texts[i] = PutField(p, v)
    BY <1>2, <2>1
  <2>3. rest[i] \in Text /\ texts[i] \in Text /\ rest[i - 1] = texts[i] \o rest[i]
    <3>1. i \in 0 .. n
      BY <1>1
    <3> QED BY <1>5, <3>1
  <2>4. left \in Text
    BY <2>3, TextConcat
  <2>5. Left(i - 1) = PutField(p, v) \o left
    <3> DEFINE x == texts[i]
               y == rest[i]
    <3>1. x \in Text /\ y \in Text
      BY <2>3
    <3> HIDE DEF x, y
    <3>2. (x \o y) \o tail = x \o (y \o tail)
      BY <3>1, TextAssociative
    <3> QED BY <2>2, <2>3, <3>2, Zenon DEF x, y
  <2>6. read[i] = GetField(read[i - 1], g)
    BY <1>6
  <2>7. FitsTo(i) <=> FitsTo(i - 1) /\ FieldFits(g, v)
    <3>1. \A j : j \in 1 .. i <=> j \in 1 .. (i - 1) \/ j = i
      BY <1>1
    <3> HIDE DEF Fits
    <3>2. FitsTo(i) <=> FitsTo(i - 1) /\ Fits(i)
      BY <3>1, Zenon
    <3> QED BY <3>2, Zenon DEF Fits
  <2>8. Part(rec, NamesTo(gs, i)) = Assign(r, g.f, v)
    <3> DEFINE D == NamesTo(gs, i - 1)
               f == g.f
    <3>1. NamesTo(gs, i) = D \cup {f}
      BY <1>1, NamesGrow
    <3> HIDE DEF D, f
    <3>2. Assign(Part(rec, D), f, rec[f]) = Part(rec, D \cup {f})
      BY PartAssign
    <3> QED BY <3>1, <3>2, Zenon DEF D, f
  <2>9. i - 1 \in 0 .. n /\ i \in 0 .. n /\ Inv(i - 1)
    <3> HIDE DEF Inv
    <3> QED BY <1>1, <1>8
  <2>10. Read(i) = Parsed(left, Assign(r, g.f, v))
    BY <2>8, Zenon
  <2>11. Read(i - 1) = Parsed(PutField(p, v) \o left, r)
    BY <2>5, Zenon
  <2> HIDE DEF p, g, v, r, left, FitsTo, Read
  <2>12. ASSUME FitsTo(i) PROVE read[i] = Read(i)
    <3>1. read[i - 1] = Parsed(PutField(p, v) \o left, r) /\ FieldFits(g, v)
      BY <2>7, <2>9, <2>11, <2>12
    <3>2. GetField(Parsed(PutField(p, v) \o left, r), g)
              = Parsed(left, Assign(r, g.f, v))
      BY <2>1, <2>4, <3>1, FieldRead
    <3> QED BY <2>6, <2>10, <3>1, <3>2, Zenon
  <2>13. ASSUME ~FitsTo(i) PROVE Failed(read[i])
    <3>1. CASE FitsTo(i - 1)
      <4>1. read[i - 1] = Parsed(PutField(p, v) \o left, r) /\ ~FieldFits(g, v)
        BY <2>7, <2>9, <2>11, <2>13, <3>1
      <4>2. Failed(GetField(Parsed(PutField(p, v) \o left, r), g))
        BY <2>1, <2>4, <4>1, FieldRead
      <4> QED BY <2>6, <4>1, <4>2, Zenon
    <3>2. CASE ~FitsTo(i - 1)
      <4>1. Failed(read[i - 1])
        BY <2>9, <3>2
      <4> QED BY <2>6, <4>1, FailedField, Zenon
    <3> QED BY <3>1, <3>2
  <2> QED BY <2>9, <2>12, <2>13
<1> HIDE DEF H, Inv
<1>9. n \in H
  <2>1. \A i \in 0 .. n : i \in H
    BY <1>1, <1>7, <1>8, UpTo
  <2> QED BY <1>1, <2>1
<1>10. Inv(n)
  BY <1>9 DEF H
<1>11. FitsTo(n) <=> RecordFits(gs, rec)
  BY <1>1 DEF RecordFits
<1>12. Left(n) = tail
  BY <1>5, TextEmpty
<1>13. Part(rec, NamesTo(gs, n)) = rec
  <2>1. NamesTo(gs, n) = Names(ps)
    <3>1. \A i \in 1 .. n : ps[i].f = gs[i].f
      BY DEF RecordAgree, FieldAgree, n
    <3> QED BY <1>1, <3>1 DEF NamesTo, Names
  <2>2. rec = [f \in Names(ps) |-> rec[f]]
    BY DEF RecordValue
  <2> QED BY <2>1, <2>2, Zenon DEF Part
<1>14. Read(n) = Parsed(tail, rec)
  BY <1>12, <1>13, Zenon
<1> HIDE DEF FitsTo, Read
<1>15. /\ RecordFits(gs, rec) => GetRecord(gs, ws) = Parsed(tail, rec)
       /\ ~RecordFits(gs, rec) => Failed(GetRecord(gs, ws))
  BY <1>6, <1>10, <1>11, <1>14, Zenon DEF Inv
<1>16. PutRecord(ps, rec) \in Text
  <2>1. 0 \in 0 .. n
    BY <1>1
  <2> QED BY <1>5, <2>1
<1> QED BY <1>15, <1>16 DEF ws

-----------------------------------------------------------------------------
(***************************************************************************)
(* A list of records.                                                      *)
(***************************************************************************)
RecordsValue(ps, v) ==
    /\ Len(v) \in Nat /\ v = [i \in 1 .. Len(v) |-> v[i]]
    /\ \A i \in 1 .. Len(v) : RecordValue(ps, v[i])

RecordsFit(gs, v) == \A i \in 1 .. Len(v) : RecordFits(gs, v[i])

PutRecords(ps, v) == FlattenSeq([i \in DOMAIN v |-> PutRecord(ps, v[i])])

(* The list as far as it is read.                                          *)
FirstOf(v, n) == [i \in 1 .. n |-> v[i]]

(* One more record has been read.                                          *)
LEMMA FrontGrows ==
    ASSUME NEW v, NEW n \in Nat \ {0}
    PROVE  Append(FirstOf(v, n - 1), v[n]) = FirstOf(v, n)
<1> DEFINE S == {v[i] : i \in 1 .. n}
           s == FirstOf(v, n - 1)
           x == v[n]
<1>1. s \in [1 .. (n - 1) -> S] /\ x \in S
  BY DEF FirstOf
<1>2. \A i \in 1 .. (n - 1) : s[i] = v[i]
  BY DEF FirstOf
<1> HIDE DEF S, s
<1>3. n - 1 \in Nat
  OBVIOUS
<1>4. s \in Seq(S) /\ Len(s) = n - 1
  <2> DEFINE k == n - 1
  <2>1. k \in Nat /\ s \in [1 .. k -> S]
    BY <1>1, <1>3
  <2> HIDE DEF k
  <2>2. s \in Seq(S) /\ Len(s) = k
    BY <2>1
  <2> QED BY <2>2 DEF k
<1> HIDE DEF x
<1>5. Append(s, x) \in Seq(S) /\ Len(Append(s, x)) = n
  BY <1>1, <1>4
<1>6. \A i \in 1 .. n : Append(s, x)[i] = v[i]
  <2>1. \A i \in 1 .. n : i # n => Append(s, x)[i] = s[i] /\ i \in 1 .. (n - 1)
    BY <1>1, <1>4
  <2>2. Append(s, x)[n] = x
    BY <1>1, <1>4
  <2> QED BY <1>2, <2>1, <2>2 DEF x
<1> DEFINE t == Append(s, x)
<1> HIDE DEF t
<1>7. t = [i \in 1 .. n |-> t[i]]
  <2>1. t \in Seq(S) /\ Len(t) = n
    BY <1>5 DEF t
  <2> QED BY <2>1
<1>8. \A i \in 1 .. n : t[i] = v[i]
  BY <1>6 DEF t
<1>9. t = FirstOf(v, n)
  BY <1>7, <1>8 DEF FirstOf
<1> QED BY <1>9 DEF t, s, x

(* One turn of the loop over a list of records.                            *)
LEMMA NextRead ==
    ASSUME NEW ps, NEW gs, RecordAgree(ps, gs), NEW rec, RecordValue(ps, rec),
           NEW tail \in Text, NEW r
    PROVE  LET st == GetNext(Parsed(PutRecord(ps, rec) \o tail, r), gs)
           IN  /\ RecordFits(gs, rec) => st = Parsed(tail, Append(r, rec))
               /\ ~RecordFits(gs, rec) => Failed(st)
<1> DEFINE ws == PutRecord(ps, rec) \o tail
           got == GetRecord(gs, ws)
           st == Parsed(ws, r)
<1>1. /\ RecordFits(gs, rec) => got = Parsed(tail, rec)
      /\ ~RecordFits(gs, rec) => Failed(got)
  BY RecordRead
<1>2. st.ok = TRUE /\ st.rest = ws /\ st.rec = r
  BY DEF Parsed
<1> HIDE DEF st, ws
<1>3. GetNext(st, gs) = IF got.ok THEN [got EXCEPT !.rec = Append(r, @)] ELSE Refused(st)
  BY <1>2 DEF GetNext
<1> HIDE DEF got
<1>4. ASSUME RecordFits(gs, rec) PROVE GetNext(st, gs) = Parsed(tail, Append(r, rec))
  <2>1. got = [ok |-> TRUE, rest |-> tail, rec |-> rec]
    BY <1>1, <1>4 DEF Parsed
  <2>2. got.ok /\ got.rec = rec
    BY <2>1
  <2>3. ASSUME NEW ok \in BOOLEAN, NEW x
        PROVE  [[ok |-> ok, rest |-> tail, rec |-> rec] EXCEPT !.rec = x]
                  = [ok |-> ok, rest |-> tail, rec |-> x]
    OBVIOUS
  <2>4. GetNext(st, gs) = [got EXCEPT !.rec = Append(r, rec)]
    BY <1>3, <2>2
  <2> QED BY <2>1, <2>3, <2>4 DEF Parsed
<1>5. ASSUME ~RecordFits(gs, rec) PROVE Failed(GetNext(st, gs))
  <2>1. ~got.ok
    BY <1>1, <1>5 DEF Failed
  <2>2. GetNext(st, gs) = Refused(st)
    BY <1>3, <2>1
  <2> QED BY <2>2, RefusedFails DEF st
<1> QED BY <1>4, <1>5 DEF st, ws

(* A failed loop stays failed.                                             *)
LEMMA FailedNext ==
    ASSUME NEW st, Failed(st), NEW gs
    PROVE  Failed(GetNext(st, gs))
<1>1. ~st.ok
  BY DEF Failed
<1>2. GetNext(st, gs) = Refused(st)
  BY <1>1 DEF GetNext
<1> QED BY <1>2, RefusedFails

(* What is written for a list of records, one by one.                      *)
LEMMA RecordsTexts ==
    ASSUME NEW ps, NEW gs, RecordAgree(ps, gs), NEW v, RecordsValue(ps, v)
    PROVE  LET texts == [i \in DOMAIN v |-> PutRecord(ps, v[i])]
           IN  /\ texts \in Seq(Text) /\ Len(texts) = Len(v)
               /\ \A i \in 1 .. Len(v) : texts[i] = PutRecord(ps, v[i])
<1> DEFINE n == Len(v)
           texts == [i \in DOMAIN v |-> PutRecord(ps, v[i])]
<1>1. n \in Nat /\ DOMAIN v = 1 .. n
  BY DEF RecordsValue
<1>2. ASSUME NEW i \in 1 .. n PROVE PutRecord(ps, v[i]) \in Text
  <2> DEFINE rec == v[i]
  <2>1. RecordValue(ps, rec)
    BY DEF RecordsValue
  <2> HIDE DEF rec
  <2>2. PutRecord(ps, rec) \in Text
    BY <2>1, TextEmpty, RecordRead
  <2> QED BY <2>2 DEF rec
<1> HIDE DEF n
<1>3. texts = [i \in 1 .. n |-> PutRecord(ps, v[i])]
  BY <1>1
<1>4. \A i \in 1 .. n : texts[i] = PutRecord(ps, v[i])
  BY <1>3
<1>5. texts \in [1 .. n -> Text]
  BY <1>2, <1>3
<1> HIDE DEF texts
<1>6. texts \in Seq(Text) /\ Len(texts) = n
  BY <1>1, <1>5
<1> QED BY <1>4, <1>6 DEF n, texts

(* A list of records is read back, or refused.                             *)
LEMMA RecordsRead ==
    ASSUME NEW ps, NEW gs, RecordAgree(ps, gs), NEW v, RecordsValue(ps, v),
           NEW tail \in Text
    PROVE  LET got == GetRecords(gs, Len(v), PutRecords(ps, v) \o tail)
           IN  /\ PutRecords(ps, v) \in Text
               /\ RecordsFit(gs, v) => got = Parsed(tail, v)
               /\ ~RecordsFit(gs, v) => Failed(got)
<1> DEFINE n == Len(v)
           texts == [i \in DOMAIN v |-> PutRecord(ps, v[i])]
           ws == PutRecords(ps, v) \o tail
<1>1. n \in Nat /\ DOMAIN v = 1 .. n
  BY DEF RecordsValue
<1>2. /\ texts \in Seq(Text) /\ Len(texts) = n
      /\ \A i \in 1 .. n : texts[i] = PutRecord(ps, v[i])
  BY RecordsTexts
<1>3. PutRecords(ps, v) = FlattenSeq(texts)
  BY DEF PutRecords
<1> HIDE DEF texts, n
<1>4. PICK rest : Follow(texts, rest, n)
  BY <1>2, FlattenFollows
<1>5. /\ rest[0] = PutRecords(ps, v) /\ rest[n] = <<>>
      /\ \A i \in 0 .. n : rest[i] \in Text
      /\ \A i \in 1 .. n : texts[i] \in Text /\ rest[i - 1] = texts[i] \o rest[i]
  BY <1>3, <1>4 DEF Follow
<1>6. PICK read : RecordsReading(read, gs, n, ws)
  <2> HIDE DEF ws
  <2> QED BY <1>1, RecordsLoop
<1>7. /\ read[0] = Parsed(ws, <<>>)
      /\ \A i \in 1 .. n : read[i] = GetNext(read[i - 1], gs)
      /\ GetRecords(gs, n, ws) = read[n]
  BY <1>6 DEF RecordsReading
<1> DEFINE Fits(i) == RecordFits(gs, v[i])
           Left(i) == rest[i] \o tail
           Read(i) == Parsed(Left(i), FirstOf(v, i))
           FitsTo(i) == \A j \in 1 .. i : Fits(j)
           Inv(i) == (FitsTo(i) => read[i] = Read(i)) /\ (~FitsTo(i) => Failed(read[i]))
           H == {i \in 0 .. n : Inv(i)}
<1>8. 0 \in H
  <2>1. FitsTo(0)
    OBVIOUS
  <2>2. FirstOf(v, 0) = <<>>
    BY DEF FirstOf
  <2>3. read[0] = Read(0)
    BY <1>5, <1>7, <2>2, Zenon
  <2>4. 0 \in 0 .. n
    BY <1>1
  <2> HIDE DEF Read, FitsTo
  <2> QED BY <2>1, <2>3, <2>4
<1>9. ASSUME NEW i \in 1 .. n, i - 1 \in H PROVE i \in H
  <2> DEFINE rec == v[i]
             r == FirstOf(v, i - 1)
             left == rest[i] \o tail
  <2>1. RecordValue(ps, rec)
    BY DEF RecordsValue, n
  <2>2. texts[i] = PutRecord(ps, rec)
    BY <1>2
  <2>3. rest[i] \in Text /\ texts[i] \in Text /\ rest[i - 1] = texts[i] \o rest[i]
    <3>1. i \in 0 .. n
      BY <1>1
    <3> QED BY <1>5, <3>1
  <2>4. left \in Text
    BY <2>3, TextConcat
  <2>5. Left(i - 1) = PutRecord(ps, rec) \o left
    <3> DEFINE x == texts[i]
               y == rest[i]
    <3>1. x \in Text /\ y \in Text
      BY <2>3
    <3> HIDE DEF x, y
    <3>2. (x \o y) \o tail = x \o (y \o tail)
      BY <3>1, TextAssociative
    <3> QED BY <2>2, <2>3, <3>2, Zenon DEF x, y
  <2>6. read[i] = GetNext(read[i - 1], gs)
    BY <1>7
  <2>7. FitsTo(i) <=> FitsTo(i - 1) /\ RecordFits(gs, rec)
    <3>1. \A j : j \in 1 .. i <=> j \in 1 .. (i - 1) \/ j = i
      BY <1>1
    <3> HIDE DEF Fits
    <3>2. FitsTo(i) <=> FitsTo(i - 1) /\ Fits(i)
      BY <3>1, Zenon
    <3> QED BY <3>2, Zenon DEF Fits
  <2>8. FirstOf(v, i) = Append(r, rec)
    BY <1>1, FrontGrows
  <2>9. i - 1 \in 0 .. n /\ i \in 0 .. n /\ Inv(i - 1)
    <3> HIDE DEF Inv
    <3> QED BY <1>1, <1>9
  <2>10. Read(i) = Parsed(left, Append(r, rec))
    BY <2>8, Zenon
  <2>11. Read(i - 1) = Parsed(PutRecord(ps, rec) \o left, r)
    BY <2>5, Zenon
  <2> HIDE DEF rec, r, left, FitsTo, Read
  <2>12. ASSUME FitsTo(i) PROVE read[i] = Read(i)
    <3>1. read[i - 1] = Parsed(PutRecord(ps, rec) \o left, r) /\ RecordFits(gs, rec)
      BY <2>7, <2>9, <2>11, <2>12
    <3>2. GetNext(Parsed(PutRecord(ps, rec) \o left, r), gs) = Parsed(left, Append(r, rec))
      BY <2>1, <2>4, <3>1, NextRead
    <3> QED BY <2>6, <2>10, <3>1, <3>2, Zenon
  <2>13. ASSUME ~FitsTo(i) PROVE Failed(read[i])
    <3>1. CASE FitsTo(i - 1)
      <4>1. read[i - 1] = Parsed(PutRecord(ps, rec) \o left, r) /\ ~RecordFits(gs, rec)
        BY <2>7, <2>9, <2>11, <2>13, <3>1
      <4>2. Failed(GetNext(Parsed(PutRecord(ps, rec) \o left, r), gs))
        BY <2>1, <2>4, <4>1, NextRead
      <4> QED BY <2>6, <4>1, <4>2, Zenon
    <3>2. CASE ~FitsTo(i - 1)
      <4>1. Failed(read[i - 1])
        BY <2>9, <3>2
      <4> QED BY <2>6, <4>1, FailedNext, Zenon
    <3> QED BY <3>1, <3>2
  <2> QED BY <2>9, <2>12, <2>13
<1> HIDE DEF H, Inv
<1>10. n \in H
  <2>1. \A i \in 0 .. n : i \in H
    BY <1>1, <1>8, <1>9, UpTo
  <2> QED BY <1>1, <2>1
<1>11. Inv(n)
  BY <1>10 DEF H
<1>12. FitsTo(n) <=> RecordsFit(gs, v)
  BY DEF RecordsFit, n
<1>13. Left(n) = tail
  BY <1>5, TextEmpty
<1>14. FirstOf(v, n) = v
  BY Zenon DEF RecordsValue, FirstOf, n
<1>15. Read(n) = Parsed(tail, v)
  BY <1>13, <1>14, Zenon
<1> HIDE DEF FitsTo, Read
<1>16. /\ RecordsFit(gs, v) => GetRecords(gs, n, ws) = Parsed(tail, v)
       /\ ~RecordsFit(gs, v) => Failed(GetRecords(gs, n, ws))
  BY <1>7, <1>11, <1>12, <1>15, Zenon DEF Inv
<1>17. PutRecords(ps, v) \in Text
  <2>1. 0 \in 0 .. n
    BY <1>1
  <2> QED BY <1>5, <2>1
<1> QED BY <1>16, <1>17 DEF ws, n

-----------------------------------------------------------------------------
(***************************************************************************)
(* An item of a message.                                                   *)
(***************************************************************************)
ItemAgree(p, g) ==
    /\ p.f = g.f /\ p.kind = g.kind
    /\ \/ FieldAgree(p, g)
       \/ g.kind = "RECORD" /\ RecordAgree(p.of, g.of)
       \/ g.kind = "RECORDS" /\ g.max \in Nat /\ RecordAgree(p.of, g.of)

ItemFits(g, v) ==
    CASE g.kind = "RECORD" -> RecordFits(g.of, v)
      [] g.kind = "RECORDS" -> Len(v) <= g.max /\ RecordsFit(g.of, v)
      [] OTHER -> FieldFits(g, v)

(* What is read becomes a field of the message.                            *)
LEMMA Entered ==
    ASSUME NEW got, NEW r, NEW f
    PROVE  LET st == [got EXCEPT !.rec = Assign(r, f, @)]
           IN  /\ \A tail, v : got = Parsed(tail, v) => st = Parsed(tail, Assign(r, f, v))
               /\ Failed(got) => Failed(st)
<1> DEFINE st == [got EXCEPT !.rec = Assign(r, f, @)]
<1>1. ASSUME NEW ok \in BOOLEAN, NEW rest, NEW v, NEW x
      PROVE  [[ok |-> ok, rest |-> rest, rec |-> v] EXCEPT !.rec = x]
                = [ok |-> ok, rest |-> rest, rec |-> x]
  OBVIOUS
<1>2. ASSUME NEW ok \in BOOLEAN, NEW rest, NEW v, got = [ok |-> ok, rest |-> rest, rec |-> v]
      PROVE  st = [ok |-> ok, rest |-> rest, rec |-> Assign(r, f, v)]
  <2>1. got.rec = v
    BY <1>2
  <2>2. st = [got EXCEPT !.rec = Assign(r, f, v)]
    BY <2>1
  <2> QED BY <1>1, <1>2, <2>2
<1> HIDE DEF st
<1>3. ASSUME NEW tail, NEW v, got = Parsed(tail, v) PROVE st = Parsed(tail, Assign(r, f, v))
  BY <1>2, <1>3 DEF Parsed
<1>4. ASSUME Failed(got) PROVE Failed(st)
  <2>1. PICK rest, v : got = [ok |-> FALSE, rest |-> rest, rec |-> v]
    BY <1>4 DEF Failed
  <2>2. st = [ok |-> FALSE, rest |-> rest, rec |-> Assign(r, f, v)]
    BY <1>2, <2>1
  <2> QED BY <2>2 DEF Failed
<1> QED BY <1>3, <1>4 DEF st

(* A word in front of a text.                                              *)
LEMMA CountFirst ==
    ASSUME NEW n \in Nat, NEW a \in Text, NEW tail \in Text
    PROVE  LET ws == (<<n>> \o a) \o tail
           IN  /\ <<n>> \o a \in Text /\ ws # <<>>
               /\ Head(ws) = n /\ Tail(ws) = a \o tail
<1>1. <<n>> \in Text /\ n \in Symbol
  BY WordsAreText
<1> DEFINE b == a \o tail
<1>2. (<<n>> \o a) \o tail = <<n>> \o b /\ b \in Text /\ <<n>> \o a \in Text
  BY <1>1, TextAssociative, TextConcat
<1> HIDE DEF b
<1>3. <<n>> \o b # <<>> /\ Head(<<n>> \o b) = n /\ Tail(<<n>> \o b) = b
  <2>1. b \in Seq(Symbol)
    BY <1>2 DEF Text
  <2>2. Len(<<n>> \o b) # 0 /\ <<n>> \o b \in Seq(Symbol)
    BY <1>1, <2>1
  <2>3. <<n>> \o b # <<>>
    BY <2>2, EmptyLen
  <2>4. Head(<<n>> \o b) = n
    BY <1>1, <2>1
  <2>5. Tail(<<n>> \o b) = b
    BY <1>1, <2>1
  <2> QED BY <2>3, <2>4, <2>5
<1> QED BY <1>2, <1>3 DEF b

(* One item of a message is read back, or refused.                         *)
LEMMA ItemRead ==
    ASSUME NEW p, NEW g, ItemAgree(p, g), NEW v, ItemValue(p, v),
           NEW tail \in Text, NEW r
    PROVE  LET st == GetItem(Parsed(PutItem(p, v) \o tail, r), g)
           IN  /\ PutItem(p, v) \in Text
               /\ ItemFits(g, v) => st = Parsed(tail, Assign(r, g.f, v))
               /\ ~ItemFits(g, v) => Failed(st)
<1> DEFINE ws == PutItem(p, v) \o tail
           st == Parsed(ws, r)
           Enter(got) == [got EXCEPT !.rec = Assign(r, g.f, @)]
<1>1. st.ok = TRUE /\ st.rest = ws /\ st.rec = r
  BY DEF Parsed
<1> HIDE DEF st
<1>2. CASE FieldAgree(p, g)
  <2>1. g.kind \in FieldKinds /\ p.kind = g.kind
    BY <1>2 DEF FieldAgree
  <2>2. g.kind # "RECORD" /\ g.kind # "RECORDS"
    BY <2>1 DEF FieldKinds
  <2>3. FieldValue(p, v) /\ PutItem(p, v) = PutField(p, v)
    BY <2>1, <2>2 DEF ItemValue, PutItem
  <2>4. GetItem(st, g) = GetField(st, g)
    BY <1>1, <2>2 DEF GetItem
  <2>5. ItemFits(g, v) <=> FieldFits(g, v)
    BY <2>2 DEF ItemFits
  <2> QED BY <1>2, <2>3, <2>4, <2>5, FieldRead DEF st
<1>3. CASE g.kind = "RECORD" /\ RecordAgree(p.of, g.of)
  <2> DEFINE got == GetRecord(g.of, ws)
             ps == p.of
             gs == g.of
  <2>1. RecordValue(ps, v) /\ PutItem(p, v) = PutRecord(ps, v)
    BY <1>3 DEF ItemAgree, ItemValue, PutItem
  <2>2. GetItem(st, g) = Enter(got)
    BY <1>1, <1>3 DEF GetItem
  <2>3. ItemFits(g, v) <=> RecordFits(gs, v)
    BY <1>3 DEF ItemFits
  <2>4. RecordAgree(ps, gs)
    BY <1>3
  <2> HIDE DEF ps, gs
  <2>5. /\ PutRecord(ps, v) \in Text
        /\ RecordFits(gs, v) => GetRecord(gs, PutRecord(ps, v) \o tail) = Parsed(tail, v)
        /\ ~RecordFits(gs, v) => Failed(GetRecord(gs, PutRecord(ps, v) \o tail))
    BY <2>1, <2>4, RecordRead
  <2>6. /\ PutItem(p, v) \in Text
        /\ ItemFits(g, v) => got = Parsed(tail, v)
        /\ ~ItemFits(g, v) => Failed(got)
    BY <2>1, <2>3, <2>5, Zenon DEF gs
  <2> HIDE DEF got
  <2>7. /\ got = Parsed(tail, v) => Enter(got) = Parsed(tail, Assign(r, g.f, v))
        /\ Failed(got) => Failed(Enter(got))
    BY Entered
  <2> HIDE DEF Enter
  <2> QED BY <2>2, <2>6, <2>7 DEF st
<1>4. CASE g.kind = "RECORDS" /\ g.max \in Nat /\ RecordAgree(p.of, g.of)
  <2> DEFINE ps == p.of
             gs == g.of
             n == Len(v)
             got == GetRecords(gs, n, PutRecords(ps, v) \o tail)
  <2>1. RecordsValue(ps, v) /\ PutItem(p, v) = <<n>> \o PutRecords(ps, v)
    BY <1>4 DEF ItemAgree, ItemValue, PutItem, RecordsValue, PutRecords
  <2>2. n \in Nat
    BY <2>1 DEF RecordsValue
  <2>3. RecordAgree(ps, gs)
    BY <1>4
  <2>4. /\ PutRecords(ps, v) \in Text
        /\ RecordsFit(gs, v) => got = Parsed(tail, v)
        /\ ~RecordsFit(gs, v) => Failed(got)
    <3> HIDE DEF ps, gs
    <3> QED BY <2>1, <2>3, RecordsRead
  <2>5. /\ PutItem(p, v) \in Text /\ ws # <<>> /\ Head(ws) = n
        /\ Tail(ws) = PutRecords(ps, v) \o tail
    <3> DEFINE a == PutRecords(ps, v)
    <3>1. a \in Text
      BY <2>4
    <3> HIDE DEF a, n
    <3>2. /\ <<n>> \o a \in Text /\ (<<n>> \o a) \o tail # <<>>
          /\ Head((<<n>> \o a) \o tail) = n /\ Tail((<<n>> \o a) \o tail) = a \o tail
      BY <2>2, <3>1, CountFirst
    <3> QED BY <2>1, <3>2, Zenon DEF a
  <2>6. GetItem(st, g) = IF n > g.max THEN Refused(st) ELSE Enter(got)
    <3> HIDE DEF n, ws
    <3> QED BY <1>1, <1>4, <2>5 DEF GetItem
  <2>7. ItemFits(g, v) <=> n <= g.max /\ RecordsFit(gs, v)
    BY <1>4 DEF ItemFits
  <2> HIDE DEF got
  <2>8. /\ got = Parsed(tail, v) => Enter(got) = Parsed(tail, Assign(r, g.f, v))
        /\ Failed(got) => Failed(Enter(got))
    BY Entered
  <2> HIDE DEF Enter, n, gs
  <2>9. CASE n <= g.max
    <3>1. GetItem(st, g) = Enter(got)
      BY <1>4, <2>2, <2>6, <2>9
    <3> QED BY <2>4, <2>5, <2>7, <2>8, <2>9, <3>1 DEF st
  <2>10. CASE ~(n <= g.max)
    <3>1. GetItem(st, g) = Refused(st)
      BY <1>4, <2>2, <2>6, <2>10
    <3>2. Failed(Refused(st))
      BY RefusedFails DEF st
    <3> QED BY <2>5, <2>7, <2>10, <3>1, <3>2 DEF st
  <2> QED BY <2>9, <2>10
<1> QED BY <1>2, <1>3, <1>4 DEF ItemAgree

(* A failed message stays failed.                                          *)
LEMMA FailedItem ==
    ASSUME NEW st, Failed(st), NEW g
    PROVE  Failed(GetItem(st, g))
<1>1. ~st.ok
  BY DEF Failed
<1>2. GetItem(st, g) = st
  BY <1>1 DEF GetItem
<1> QED BY <1>2

-----------------------------------------------------------------------------
(***************************************************************************)
(* A message, item by item.                                                *)
(***************************************************************************)
SchemaAgree(ps, gs) ==
    /\ Len(ps) \in Nat /\ Len(gs) = Len(ps) /\ DOMAIN ps = 1 .. Len(ps)
    /\ \A i \in 1 .. Len(ps) : ItemAgree(ps[i], gs[i])

MessageFits(gs, m) == \A i \in 1 .. Len(gs) : ItemFits(gs[i], m[gs[i].f])

PutMessage(ps, m) == FlattenSeq([i \in DOMAIN ps |-> PutItem(ps[i], m[ps[i].f])])

Values(ps, m) == \A i \in DOMAIN ps : ItemValue(ps[i], m[ps[i].f])

(* What encode_payload writes behind the type, item by item.               *)
LEMMA MessageTexts ==
    ASSUME NEW ps, NEW gs, SchemaAgree(ps, gs), NEW m, Values(ps, m)
    PROVE  LET texts == [i \in DOMAIN ps |-> PutItem(ps[i], m[ps[i].f])]
           IN  /\ texts \in Seq(Text) /\ Len(texts) = Len(ps)
               /\ \A i \in 1 .. Len(ps) : texts[i] = PutItem(ps[i], m[ps[i].f])
<1> DEFINE n == Len(ps)
           texts == [i \in DOMAIN ps |-> PutItem(ps[i], m[ps[i].f])]
<1>1. n \in Nat /\ DOMAIN ps = 1 .. n
  BY DEF SchemaAgree
<1>2. ASSUME NEW i \in 1 .. n PROVE PutItem(ps[i], m[ps[i].f]) \in Text
  <2>1. ItemAgree(ps[i], gs[i]) /\ ItemValue(ps[i], m[ps[i].f])
    BY <1>1 DEF SchemaAgree, Values
  <2> DEFINE p == ps[i]
             g == gs[i]
             v == m[p.f]
  <2>2. ItemAgree(p, g) /\ ItemValue(p, v)
    BY <2>1
  <2> HIDE DEF p, g, v
  <2>3. PutItem(p, v) \in Text
    BY <2>2, TextEmpty, ItemRead
  <2> QED BY <2>3 DEF p, v
<1> HIDE DEF n
<1>3. texts = [i \in 1 .. n |-> PutItem(ps[i], m[ps[i].f])]
  BY <1>1
<1>4. \A i \in 1 .. n : texts[i] = PutItem(ps[i], m[ps[i].f])
  BY <1>3
<1>5. texts \in [1 .. n -> Text]
  BY <1>2, <1>3
<1> HIDE DEF texts
<1>6. texts \in Seq(Text) /\ Len(texts) = n
  BY <1>1, <1>5
<1> QED BY <1>4, <1>6 DEF n, texts

(* All items of a message are read back, or the message is refused.        *)
LEMMA MessageRead ==
    ASSUME NEW ps, NEW gs, SchemaAgree(ps, gs), NEW m, Values(ps, m)
    PROVE  LET got == GetMessage(gs, m["type"], PutMessage(ps, m))
           IN  /\ PutMessage(ps, m) \in Text
               /\ MessageFits(gs, m) => got = Parsed(<<>>, Part(m, Names(ps) \cup {"type"}))
               /\ ~MessageFits(gs, m) => Failed(got)
<1> DEFINE n == Len(ps)
           texts == [i \in DOMAIN ps |-> PutItem(ps[i], m[ps[i].f])]
           ws == PutMessage(ps, m)
           t == m["type"]
           D(i) == {"type"} \cup NamesTo(gs, i)
<1>1. n \in Nat /\ Len(gs) = n /\ DOMAIN ps = 1 .. n
  BY DEF SchemaAgree
<1>2. /\ texts \in Seq(Text) /\ Len(texts) = n
      /\ \A i \in 1 .. n : texts[i] = PutItem(ps[i], m[ps[i].f])
  BY MessageTexts
<1>3. ws = FlattenSeq(texts)
  BY DEF PutMessage
<1> HIDE DEF texts, n, ws
<1>4. PICK rest : Follow(texts, rest, n)
  BY <1>2, FlattenFollows
<1>5. /\ rest[0] = ws /\ rest[n] = <<>>
      /\ \A i \in 0 .. n : rest[i] \in Text
      /\ \A i \in 1 .. n : texts[i] \in Text /\ rest[i - 1] = texts[i] \o rest[i]
  BY <1>3, <1>4 DEF Follow
<1>6. PICK read : /\ read[0] = Parsed(ws, Assign(EmptyMap, "type", t))
                  /\ \A i \in 1 .. n : read[i] = GetItem(read[i - 1], gs[i])
                  /\ GetMessage(gs, t, ws) = read[n]
  <2>1. Len(gs) \in Nat
    BY <1>1
  <2> HIDE DEF t
  <2> QED BY <1>1, <2>1, MessageLoop
<1> DEFINE Fits(i) == ItemFits(gs[i], m[gs[i].f])
           Read(i) == Parsed(rest[i], Part(m, D(i)))
           FitsTo(i) == \A j \in 1 .. i : Fits(j)
           Inv(i) == (FitsTo(i) => read[i] = Read(i)) /\ (~FitsTo(i) => Failed(read[i]))
           H == {i \in 0 .. n : Inv(i)}
<1>7. 0 \in H
  <2>1. FitsTo(0)
    OBVIOUS
  <2>2. Part(m, D(0)) = Assign(EmptyMap, "type", t)
    <3>1. D(0) = {"type"}
      BY DEF NamesTo
    <3> HIDE DEF D
    <3> QED BY <3>1 DEF Part, EmptyMap, Assign
  <2>3. read[0] = Read(0)
    BY <1>5, <1>6, <2>2, Zenon
  <2>4. 0 \in 0 .. n
    BY <1>1
  <2> HIDE DEF Read, FitsTo
  <2> QED BY <2>1, <2>3, <2>4
<1>8. ASSUME NEW i \in 1 .. n, i - 1 \in H PROVE i \in H
  <2> DEFINE p == ps[i]
             g == gs[i]
             v == m[g.f]
             r == Part(m, D(i - 1))
             left == rest[i]
  <2>1. ItemAgree(p, g) /\ p.f = g.f /\ ItemValue(p, v)
    <3>1. i \in DOMAIN ps /\ i \in 1 .. Len(ps)
      BY <1>1 DEF n
    <3>2. ItemAgree(p, g)
      BY <3>1 DEF SchemaAgree
    <3>3. p.f = g.f
      BY <3>2 DEF ItemAgree
    <3>4. ItemValue(p, m[p.f])
      BY <3>1 DEF Values
    <3> QED BY <3>2, <3>3, <3>4
  <2>2. texts[i] = PutItem(p, v)
    BY <1>2, <2>1
  <2>3. left \in Text /\ rest[i - 1] = PutItem(p, v) \o left
    <3>1. i \in 0 .. n
      BY <1>1
    <3>2. left \in Text /\ rest[i - 1] = texts[i] \o rest[i]
      BY <1>5, <3>1
    <3> QED BY <2>2, <3>2, Zenon
  <2>4. read[i] = GetItem(read[i - 1], g)
    BY <1>6
  <2>5. FitsTo(i) <=> FitsTo(i - 1) /\ ItemFits(g, v)
    <3>1. \A j : j \in 1 .. i <=> j \in 1 .. (i - 1) \/ j = i
      BY <1>1
    <3> HIDE DEF Fits
    <3>2. FitsTo(i) <=> FitsTo(i - 1) /\ Fits(i)
      BY <3>1, Zenon
    <3> QED BY <3>2, Zenon DEF Fits
  <2>6. Part(m, D(i)) = Assign(r, g.f, v)
    <3> DEFINE E == D(i - 1)
               f == g.f
    <3>1. D(i) = E \cup {f}
      <4>1. NamesTo(gs, i) = NamesTo(gs, i - 1) \cup {gs[i].f}
        BY <1>1, NamesGrow
      <4> QED BY <4>1, Zenon
    <3> HIDE DEF E, f, D
    <3>2. Assign(Part(m, E), f, m[f]) = Part(m, E \cup {f})
      BY PartAssign
    <3> QED BY <3>1, <3>2, Zenon DEF E, f
  <2>7. i - 1 \in 0 .. n /\ i \in 0 .. n /\ Inv(i - 1)
    <3> HIDE DEF Inv
    <3> QED BY <1>1, <1>8
  <2>8. Read(i) = Parsed(left, Assign(r, g.f, v))
    BY <2>6, Zenon
  <2>9. Read(i - 1) = Parsed(PutItem(p, v) \o left, r)
    BY <2>3, Zenon
  <2> HIDE DEF p, g, v, r, left, FitsTo, Read
  <2>10. ASSUME FitsTo(i) PROVE read[i] = Read(i)
    <3>1. read[i - 1] = Parsed(PutItem(p, v) \o left, r) /\ ItemFits(g, v)
      BY <2>5, <2>7, <2>9, <2>10
    <3>2. GetItem(Parsed(PutItem(p, v) \o left, r), g) = Parsed(left, Assign(r, g.f, v))
      BY <2>1, <2>3, <3>1, ItemRead
    <3> QED BY <2>4, <2>8, <3>1, <3>2, Zenon
  <2>11. ASSUME ~FitsTo(i) PROVE Failed(read[i])
    <3>1. CASE FitsTo(i - 1)
      <4>1. read[i - 1] = Parsed(PutItem(p, v) \o left, r) /\ ~ItemFits(g, v)
        BY <2>5, <2>7, <2>9, <2>11, <3>1
      <4>2. Failed(GetItem(Parsed(PutItem(p, v) \o left, r), g))
        BY <2>1, <2>3, <4>1, ItemRead
      <4> QED BY <2>4, <4>1, <4>2, Zenon
    <3>2. CASE ~FitsTo(i - 1)
      <4>1. Failed(read[i - 1])
        BY <2>7, <3>2
      <4> QED BY <2>4, <4>1, FailedItem, Zenon
    <3> QED BY <3>1, <3>2
  <2> QED BY <2>7, <2>10, <2>11
<1> HIDE DEF H, Inv
<1>9. n \in H
  <2>1. \A i \in 0 .. n : i \in H
    BY <1>1, <1>7, <1>8, UpTo
  <2> QED BY <1>1, <2>1
<1>10. Inv(n)
  BY <1>9 DEF H
<1>11. FitsTo(n) <=> MessageFits(gs, m)
  BY <1>1 DEF MessageFits
<1>12. D(n) = Names(ps) \cup {"type"}
  <2>1. \A i \in 1 .. n : ps[i].f = gs[i].f
    BY DEF SchemaAgree, ItemAgree, n
  <2>2. NamesTo(gs, n) = Names(ps)
    BY <1>1, <2>1 DEF NamesTo, Names
  <2> QED BY <2>2
<1>13. Read(n) = Parsed(<<>>, Part(m, Names(ps) \cup {"type"}))
  BY <1>5, <1>12, Zenon
<1> HIDE DEF FitsTo, Read
<1>14. /\ MessageFits(gs, m) => GetMessage(gs, t, ws) = Read(n)
       /\ ~MessageFits(gs, m) => Failed(GetMessage(gs, t, ws))
  BY <1>6, <1>10, <1>11, Zenon DEF Inv
<1>15. ws \in Text
  <2>1. 0 \in 0 .. n
    BY <1>1
  <2> QED BY <1>5, <2>1
<1> QED BY <1>13, <1>14, <1>15, Zenon DEF ws

(* No item is longer than the message.                                     *)
LEMMA FollowShort ==
    ASSUME NEW n \in Nat, NEW ss, NEW rest, Follow(ss, rest, n)
    PROVE  \A i \in 1 .. n : Len(ss[i]) <= Len(rest[0])
<1> DEFINE L(i) == Len(rest[i])
           W(i) == Len(ss[i])
           H == {i \in 0 .. n : L(i) <= L(0)}
<1>1. /\ \A i \in 0 .. n : rest[i] \in Text
      /\ \A i \in 1 .. n : ss[i] \in Text /\ rest[i - 1] = ss[i] \o rest[i]
  BY DEF Follow
<1>2. \A i \in 0 .. n : L(i) \in Nat
  BY <1>1, TextLen
<1>3. ASSUME NEW i \in 1 .. n PROVE W(i) \in Nat /\ L(i) \in Nat /\ L(i - 1) = W(i) + L(i)
  <2> DEFINE x == ss[i]
             y == rest[i]
  <2>1. i \in 0 .. n
    OBVIOUS
  <2>2. x \in Text /\ y \in Text /\ rest[i - 1] = x \o y
    BY <1>1, <2>1
  <2> HIDE DEF x, y
  <2>3. Len(x \o y) = Len(x) + Len(y) /\ Len(x) \in Nat /\ Len(y) \in Nat
    BY <2>2, TextConcat, TextLen
  <2> QED BY <2>2, <2>3, Zenon DEF x, y
<1> HIDE DEF L, W
<1>4. 0 \in H
  BY <1>2
<1>5. ASSUME NEW i \in 1 .. n, i - 1 \in H PROVE i \in H
  <2>1. L(0) \in Nat /\ L(i - 1) <= L(0) /\ i \in 0 .. n
    BY <1>2, <1>5
  <2>2. L(i) <= L(0)
    BY <1>3, <2>1
  <2> QED BY <2>1, <2>2
<1> HIDE DEF H
<1>6. \A i \in 0 .. n : i \in H
  BY <1>4, <1>5, UpTo
<1>7. ASSUME NEW i \in 1 .. n PROVE W(i) <= L(0)
  <2>1. i - 1 \in 0 .. n /\ 0 \in 0 .. n
    OBVIOUS
  <2>2. L(i - 1) <= L(0) /\ L(0) \in Nat
    BY <1>2, <1>6, <2>1 DEF H
  <2> QED BY <1>3, <2>2
<1> QED BY <1>7 DEF W, L

(* Hence no length in a message exceeds that of its payload.               *)
LEMMA ItemShort ==
    ASSUME NEW ps, NEW gs, SchemaAgree(ps, gs), NEW m, Values(ps, m), NEW i \in 1 .. Len(ps)
    PROVE  Len(PutItem(ps[i], m[ps[i].f])) <= Len(PutMessage(ps, m))
<1> DEFINE n == Len(ps)
           texts == [j \in DOMAIN ps |-> PutItem(ps[j], m[ps[j].f])]
<1>1. n \in Nat
  BY DEF SchemaAgree
<1>2. /\ texts \in Seq(Text) /\ Len(texts) = n
      /\ \A j \in 1 .. n : texts[j] = PutItem(ps[j], m[ps[j].f])
  BY MessageTexts
<1>3. PutMessage(ps, m) = FlattenSeq(texts) /\ i \in 1 .. n
  BY DEF PutMessage
<1> HIDE DEF texts, n
<1>4. PICK rest : Follow(texts, rest, n)
  BY <1>2, FlattenFollows
<1>5. rest[0] = PutMessage(ps, m)
  BY <1>3, <1>4 DEF Follow
<1>6. \A j \in 1 .. n : Len(texts[j]) <= Len(rest[0])
  BY <1>1, <1>4, FollowShort
<1>7. texts[i] = PutItem(ps[i], m[ps[i].f]) /\ Len(texts[i]) <= Len(rest[0])
  BY <1>2, <1>3, <1>6
<1> QED BY <1>5, <1>7, Zenon

-----------------------------------------------------------------------------
(***************************************************************************)
(* The two switches agree: for every type, the decoder reads the items the *)
(* encoder writes, under the limits a sender has to keep.                  *)
(***************************************************************************)
Lists == RecordLists \cup StringLists

Bound(f) ==
    IF f \in RecordLists THEN MaxRecords ELSE IF f \in StringLists THEN MaxStrings
    ELSE MaxPayload

Limited(g) ==
    /\ g.kind \in {"LIST", "RECORDS"} => g.max = Bound(g.f)
    /\ g.kind \notin {"LIST", "RECORDS"} => g.f \notin Lists
    /\ g.kind = "RECORDS" <=> g.f \in {"allocations", "plan.actions"}

FieldPair(p, g) == FieldAgree(p, g) /\ Limited(g) /\ (g.kind = "LIST" => g.f \in Lists)

IsSequence(s) == \E S : s \in Seq(S)

RecordPair(ps, gs) ==
    /\ IsSequence(ps) /\ IsSequence(gs) /\ Len(gs) = Len(ps)
    /\ \A i \in 1 .. Len(ps) : FieldPair(ps[i], gs[i])

ItemPair(p, g) ==
    /\ ItemAgree(p, g) /\ Limited(g)
    /\ g.kind \in {"RECORD", "RECORDS"} => RecordPair(p.of, g.of)
    /\ g.kind = "RECORD" => Names(p.of) \cap Lists = {}

SchemaPair(ps, gs) ==
    /\ IsSequence(ps) /\ IsSequence(gs) /\ Len(gs) = Len(ps)
    /\ \A i \in 1 .. Len(ps) : ItemPair(ps[i], gs[i])

(* Where an element of a concatenation comes from.                         *)
LEMMA SequenceConcat ==
    ASSUME NEW a, NEW b, IsSequence(a), IsSequence(b)
    PROVE  /\ IsSequence(a \o b) /\ Len(a) \in Nat /\ Len(b) \in Nat
           /\ DOMAIN a = 1 .. Len(a) /\ DOMAIN b = 1 .. Len(b)
           /\ Len(a \o b) = Len(a) + Len(b) /\ DOMAIN (a \o b) = 1 .. (Len(a) + Len(b))
           /\ \A i \in 1 .. Len(a) : (a \o b)[i] = a[i]
           /\ \A i \in 1 .. Len(b) : (a \o b)[Len(a) + i] = b[i]
<1>1. PICK S : a \in Seq(S)
  BY DEF IsSequence
<1>2. PICK T : b \in Seq(T)
  BY DEF IsSequence
<1> DEFINE U == S \cup T
<1>3. S \subseteq U /\ T \subseteq U
  OBVIOUS
<1> HIDE DEF U
<1>4. a \in Seq(U)
  BY <1>1, <1>3
<1>5. b \in Seq(U)
  BY <1>2, <1>3
<1>6. a \o b \in Seq(U) /\ Len(a \o b) = Len(a) + Len(b)
  BY <1>4, <1>5
<1>7. \A i \in 1 .. Len(a) : (a \o b)[i] = a[i]
  BY <1>4, <1>5
<1>8. \A i \in 1 .. Len(b) : (a \o b)[Len(a) + i] = b[i]
  BY <1>4, <1>5
<1>9. /\ Len(a) \in Nat /\ Len(b) \in Nat
      /\ DOMAIN a = 1 .. Len(a) /\ DOMAIN b = 1 .. Len(b)
  BY <1>4, <1>5
<1>10. DOMAIN (a \o b) = 1 .. (Len(a) + Len(b)) /\ IsSequence(a \o b)
  BY <1>6 DEF IsSequence
<1> QED BY <1>6, <1>7, <1>8, <1>9, <1>10

(* An index of a concatenation lies in one of its parts.                   *)
LEMMA SplitIndex ==
    ASSUME NEW a \in Nat, NEW b \in Nat, NEW i \in 1 .. (a + b)
    PROVE  i \in 1 .. a \/ \E j \in 1 .. b : i = a + j
<1>1. CASE i > a
  <2>1. i - a \in 1 .. b /\ i = a + (i - a)
    BY <1>1
  <2> QED BY <2>1
<1>2. CASE ~(i > a)
  BY <1>2
<1> QED BY <1>1, <1>2

(* The names of two schemas, one behind the other.                         *)
LEMMA NamesConcat ==
    ASSUME NEW a, NEW b, IsSequence(a), IsSequence(b)
    PROVE  Names(a \o b) = Names(a) \cup Names(b)
<1>1. /\ Len(a) \in Nat /\ Len(b) \in Nat
      /\ DOMAIN a = 1 .. Len(a) /\ DOMAIN b = 1 .. Len(b)
      /\ DOMAIN (a \o b) = 1 .. (Len(a) + Len(b))
      /\ \A i \in 1 .. Len(a) : (a \o b)[i] = a[i]
      /\ \A i \in 1 .. Len(b) : (a \o b)[Len(a) + i] = b[i]
  BY SequenceConcat
<1> DEFINE n == Len(a)
           k == Len(b)
           c == a \o b
<1> HIDE DEF n, k, c
<1>2. /\ n \in Nat /\ k \in Nat /\ DOMAIN a = 1 .. n /\ DOMAIN b = 1 .. k
      /\ DOMAIN c = 1 .. (n + k)
      /\ \A i \in 1 .. n : c[i] = a[i]
      /\ \A i \in 1 .. k : c[n + i] = b[i]
  BY <1>1 DEF n, k, c
<1>3. ASSUME NEW f \in Names(c) PROVE f \in Names(a) \cup Names(b)
  <2>1. PICK i \in 1 .. (n + k) : f = c[i].f
    BY <1>2 DEF Names
  <2>2. CASE i \in 1 .. n
    BY <1>2, <2>1, <2>2 DEF Names
  <2>3. CASE \E j \in 1 .. k : i = n + j
    BY <1>2, <2>1, <2>3 DEF Names
  <2> QED BY <1>2, <2>2, <2>3, SplitIndex
<1>4. ASSUME NEW f \in Names(a) PROVE f \in Names(c)
  <2>1. PICK i \in 1 .. n : f = a[i].f
    BY <1>2 DEF Names
  <2>2. i \in 1 .. (n + k)
    BY <1>2
  <2> QED BY <1>2, <2>1, <2>2 DEF Names
<1>5. ASSUME NEW f \in Names(b) PROVE f \in Names(c)
  <2>1. PICK i \in 1 .. k : f = b[i].f
    BY <1>2 DEF Names
  <2>2. n + i \in 1 .. (n + k)
    BY <1>2
  <2> QED BY <1>2, <2>1, <2>2 DEF Names
<1> QED BY <1>3, <1>4, <1>5 DEF c

(* Structures that agree, one behind the other, agree.                     *)
LEMMA RecordPairConcat ==
    ASSUME NEW a, NEW b, RecordPair(a, b), NEW c, NEW d, RecordPair(c, d)
    PROVE  RecordPair(a \o c, b \o d)
<1> DEFINE n == Len(a)
           k == Len(c)
<1>1. /\ IsSequence(a) /\ IsSequence(b) /\ IsSequence(c) /\ IsSequence(d)
      /\ Len(b) = n /\ Len(d) = k
      /\ \A i \in 1 .. n : FieldPair(a[i], b[i])
      /\ \A i \in 1 .. k : FieldPair(c[i], d[i])
  BY DEF RecordPair
<1> DEFINE x == a \o c
           y == b \o d
<1>2. /\ IsSequence(x) /\ n \in Nat /\ k \in Nat /\ Len(x) = n + k
      /\ \A i \in 1 .. n : x[i] = a[i]
      /\ \A i \in 1 .. k : x[n + i] = c[i]
  BY <1>1, SequenceConcat
<1>3. /\ IsSequence(y) /\ Len(y) = n + k
      /\ \A i \in 1 .. n : y[i] = b[i]
      /\ \A i \in 1 .. k : y[n + i] = d[i]
  <2>1. /\ IsSequence(y) /\ Len(y) = Len(b) + Len(d)
        /\ \A i \in 1 .. Len(b) : y[i] = b[i]
        /\ \A i \in 1 .. Len(d) : y[Len(b) + i] = d[i]
    BY <1>1, SequenceConcat
  <2> QED BY <1>1, <2>1, Zenon
<1> HIDE DEF n, k, x, y
<1>4. ASSUME NEW i \in 1 .. (n + k) PROVE FieldPair(x[i], y[i])
  <2>1. CASE i \in 1 .. n
    BY <1>1, <1>2, <1>3, <2>1
  <2>2. CASE \E j \in 1 .. k : i = n + j
    BY <1>1, <1>2, <1>3, <2>2
  <2> QED BY <1>2, <2>1, <2>2, SplitIndex
<1>5. RecordPair(x, y)
  BY <1>2, <1>3, <1>4 DEF RecordPair
<1> QED BY <1>5 DEF x, y

(* Schemas that agree, one behind the other, agree.                        *)
LEMMA SchemaPairConcat ==
    ASSUME NEW a, NEW b, SchemaPair(a, b), NEW c, NEW d, SchemaPair(c, d)
    PROVE  SchemaPair(a \o c, b \o d)
<1> DEFINE n == Len(a)
           k == Len(c)
<1>1. /\ IsSequence(a) /\ IsSequence(b) /\ IsSequence(c) /\ IsSequence(d)
      /\ Len(b) = n /\ Len(d) = k
      /\ \A i \in 1 .. n : ItemPair(a[i], b[i])
      /\ \A i \in 1 .. k : ItemPair(c[i], d[i])
  BY DEF SchemaPair
<1> DEFINE x == a \o c
           y == b \o d
<1>2. /\ IsSequence(x) /\ n \in Nat /\ k \in Nat /\ Len(x) = n + k
      /\ \A i \in 1 .. n : x[i] = a[i]
      /\ \A i \in 1 .. k : x[n + i] = c[i]
  BY <1>1, SequenceConcat
<1>3. /\ IsSequence(y) /\ Len(y) = n + k
      /\ \A i \in 1 .. n : y[i] = b[i]
      /\ \A i \in 1 .. k : y[n + i] = d[i]
  <2>1. /\ IsSequence(y) /\ Len(y) = Len(b) + Len(d)
        /\ \A i \in 1 .. Len(b) : y[i] = b[i]
        /\ \A i \in 1 .. Len(d) : y[Len(b) + i] = d[i]
    BY <1>1, SequenceConcat
  <2> QED BY <1>1, <2>1, Zenon
<1> HIDE DEF n, k, x, y
<1>4. ASSUME NEW i \in 1 .. (n + k) PROVE ItemPair(x[i], y[i])
  <2>1. CASE i \in 1 .. n
    BY <1>1, <1>2, <1>3, <2>1
  <2>2. CASE \E j \in 1 .. k : i = n + j
    BY <1>1, <1>2, <1>3, <2>2
  <2> QED BY <1>2, <2>1, <2>2, SplitIndex
<1>5. SchemaPair(x, y)
  BY <1>2, <1>3, <1>4 DEF SchemaPair
<1> QED BY <1>5 DEF x, y

(* A field of a structure may be an item of a message.                     *)
LEMMA FieldIsItem ==
    ASSUME NEW p, NEW g, FieldPair(p, g)
    PROVE  ItemPair(p, g)
<1>1. FieldAgree(p, g) /\ Limited(g) /\ g.kind \in FieldKinds
  BY DEF FieldPair, FieldAgree
<1>2. ItemAgree(p, g)
  BY <1>1 DEF ItemAgree, FieldAgree
<1>3. g.kind # "RECORD" /\ g.kind # "RECORDS"
  BY <1>1 DEF FieldKinds
<1> QED BY <1>1, <1>2, <1>3 DEF ItemPair

(* The fields of a structure may be items of a message.                    *)
LEMMA RecordIsSchema ==
    ASSUME NEW ps, NEW gs, RecordPair(ps, gs)
    PROVE  SchemaPair(ps, gs)
BY FieldIsItem DEF RecordPair, SchemaPair

(* The items, by the way they are written.                                 *)
LEMMA FieldItems ==
    ASSUME NEW f, f \notin Lists, NEW max \in Nat
    PROVE  /\ FieldPair(Word(f), Word(f))
           /\ FieldPair(Enum(f, max), Enum(f, max))
           /\ FieldPair(Opt(f), Opt(f))
           /\ FieldPair(OptEnum(f, max), OptEnum(f, max))
<1>1. f \notin {"allocations", "plan.actions"}
  BY DEF Lists, RecordLists
<1>2. ASSUME NEW kind \in {"WORD", "ENUM", "OPT", "OPTENUM"}, NEW n \in Nat
      PROVE  FieldPair(Item(f, kind, n, <<>>), Item(f, kind, n, <<>>))
  <2> DEFINE g == Item(f, kind, n, <<>>)
  <2>1. g.f = f /\ g.kind = kind /\ g.max = n
    BY DEF Item
  <2>2. kind # "LIST" /\ kind # "RECORDS" /\ kind \in FieldKinds
    BY DEF FieldKinds
  <2> HIDE DEF g
  <2>3. FieldAgree(g, g)
    BY <2>1, <2>2 DEF FieldAgree
  <2>4. Limited(g)
    BY <1>1, <2>1, <2>2 DEF Limited
  <2>5. FieldPair(g, g)
    BY <2>1, <2>2, <2>3, <2>4 DEF FieldPair
  <2> QED BY <2>5 DEF g
<1>3. FieldPair(Word(f), Word(f))
  BY <1>2 DEF Word
<1>4. FieldPair(Enum(f, max), Enum(f, max))
  BY <1>2 DEF Enum
<1>5. FieldPair(Opt(f), Opt(f))
  BY <1>2 DEF Opt
<1>6. FieldPair(OptEnum(f, max), OptEnum(f, max))
  BY <1>2 DEF OptEnum
<1> QED BY <1>3, <1>4, <1>5, <1>6

(* The names of the items.                                                 *)
LEMMA ItemNames ==
    /\ \A f : Word(f).f = f
    /\ \A f : Opt(f).f = f
    /\ \A f : Str(f).f = f
    /\ \A f, n : Enum(f, n).f = f
    /\ \A f, n : OptEnum(f, n).f = f
    /\ \A f, n : List(f, n).f = f
    /\ \A f, s : Record(f, s).f = f
    /\ \A f, n, s : Records(f, n, s).f = f
BY DEF Word, Enum, Opt, OptEnum, Str, List, Record, Records, Item

(* Lists: written whatever their length, read up to a bound.               *)
LEMMA ListItems ==
    /\ FieldPair(Str("affected_allocations"), List("affected_allocations", MaxRecords))
    /\ \A f \in StringLists : FieldPair(Str(f), List(f, MaxStrings))
    /\ \A f : f \notin Lists => ItemPair(Str(f), Str(f))
<1>1. ASSUME NEW f, f \notin {"allocations", "plan.actions"}, NEW n, n = Bound(f)
      PROVE  /\ FieldAgree(Str(f), List(f, n)) /\ Limited(List(f, n))
             /\ List(f, n).f = f /\ List(f, n).kind = "LIST"
  <2> DEFINE p == Str(f)
             g == List(f, n)
  <2>1. g.f = f /\ g.kind = "LIST" /\ g.max = n /\ p.f = f /\ p.kind = "LIST"
    BY DEF Item, List, Str
  <2>2. n \in Nat
    BY <1>1, LimitAssumption DEF Bound
  <2> HIDE DEF p, g
  <2>3. FieldAgree(p, g)
    BY <2>1, <2>2 DEF FieldAgree, FieldKinds
  <2>4. Limited(g)
    BY <1>1, <2>1 DEF Limited
  <2> QED BY <2>1, <2>3, <2>4 DEF p, g
<1>2. FieldPair(Str("affected_allocations"), List("affected_allocations", MaxRecords))
  <2>1. Bound("affected_allocations") = MaxRecords /\ "affected_allocations" \in Lists
    BY DEF Bound, Lists, RecordLists
  <2> QED BY <1>1, <2>1 DEF FieldPair
<1>3. ASSUME NEW f \in StringLists PROVE FieldPair(Str(f), List(f, MaxStrings))
  <2>1. /\ Bound(f) = MaxStrings /\ f \in Lists
        /\ f \notin {"allocations", "plan.actions"}
    BY DEF Bound, Lists, RecordLists, StringLists
  <2> QED BY <1>1, <2>1 DEF FieldPair
<1>4. ASSUME NEW f, f \notin Lists PROVE ItemPair(Str(f), Str(f))
  <2>1. Bound(f) = MaxPayload /\ f \notin {"allocations", "plan.actions"}
    BY <1>4 DEF Bound, Lists, RecordLists
  <2>2. Str(f) = List(f, MaxPayload)
    BY DEF Str, List
  <2>3. FieldAgree(Str(f), Str(f)) /\ Limited(Str(f)) /\ Str(f).kind = "LIST"
    BY <1>1, <2>1, <2>2
  <2> QED BY <2>3 DEF ItemPair, ItemAgree
<1> QED BY <1>2, <1>3, <1>4

(* Fields that are plain words.                                            *)
LEMMA WordsPair ==
    ASSUME NEW T, NEW fs \in Seq(T), T \cap Lists = {}, T = {fs[i] : i \in 1 .. Len(fs)}
    PROVE  RecordPair(Words(fs), Words(fs)) /\ Names(Words(fs)) = T
<1> DEFINE n == Len(fs)
           ws == Words(fs)
           S == {Word(fs[i]) : i \in 1 .. n}
<1>1. n \in Nat /\ DOMAIN fs = 1 .. n
  OBVIOUS
<1>2. ws = [i \in 1 .. n |-> Word(fs[i])]
  BY <1>1 DEF Words
<1> HIDE DEF n, ws
<1>3. ws \in [1 .. n -> S] /\ \A i \in 1 .. n : ws[i] = Word(fs[i])
  BY <1>2
<1> HIDE DEF S
<1>4. ws \in Seq(S) /\ Len(ws) = n
  BY <1>1, <1>3
<1>5. IsSequence(ws)
  BY <1>4 DEF IsSequence
<1>6. ASSUME NEW i \in 1 .. n PROVE FieldPair(ws[i], ws[i])
  <2> DEFINE f == fs[i]
  <2>1. f \notin Lists /\ ws[i] = Word(f)
    BY <1>3 DEF n
  <2> HIDE DEF f
  <2>2. FieldPair(Word(f), Word(f))
    BY <2>1, FieldItems
  <2> QED BY <2>1, <2>2
<1>7. RecordPair(ws, ws)
  BY <1>4, <1>5, <1>6 DEF RecordPair
<1>8. Names(ws) = {fs[i] : i \in 1 .. n}
  <2>1. \A i \in 1 .. n : ws[i].f = fs[i]
    BY <1>3 DEF Word, Item
  <2>2. DOMAIN ws = 1 .. n
    BY <1>3
  <2> QED BY <2>1, <2>2 DEF Names
<1> QED BY <1>7, <1>8 DEF n, ws

(* Short schemas.                                                          *)
LEMMA RecordPairOf1 ==
    ASSUME NEW p1, NEW g1, FieldPair(p1, g1)
    PROVE  /\ RecordPair(<<p1>>, <<g1>>)
           /\ Names(<<p1>>) = {p1.f}
<1> DEFINE ps == <<p1>>
           gs == <<g1>>
<1>1. /\ ps \in Seq({p1}) /\ gs \in Seq({g1})
      /\ Len(ps) = 1 /\ Len(gs) = 1 /\ DOMAIN ps = 1 .. 1
  OBVIOUS
<1>2. \A i \in 1 .. 1 : FieldPair(ps[i], gs[i])
  OBVIOUS
<1>3. {ps[i].f : i \in 1 .. 1} = {p1.f}
  OBVIOUS
<1> HIDE DEF ps, gs
<1>4. IsSequence(ps) /\ IsSequence(gs)
  BY <1>1 DEF IsSequence
<1>5. RecordPair(ps, gs)
  BY <1>1, <1>2, <1>4 DEF RecordPair
<1>6. Names(ps) = {p1.f}
  BY <1>1, <1>3, Zenon DEF Names
<1> QED BY <1>5, <1>6 DEF ps, gs

(* Structures of 4 fields.                                                 *)
LEMMA RecordPairOf4 ==
    ASSUME NEW p1, NEW g1, FieldPair(p1, g1), NEW p2, NEW g2, FieldPair(p2, g2),
           NEW p3, NEW g3, FieldPair(p3, g3), NEW p4, NEW g4, FieldPair(p4, g4)
    PROVE  /\ RecordPair(<<p1, p2, p3, p4>>, <<g1, g2, g3, g4>>)
           /\ Names(<<p1, p2, p3, p4>>) = {p1.f, p2.f, p3.f, p4.f}
<1> DEFINE ps == <<p1, p2, p3, p4>>
           gs == <<g1, g2, g3, g4>>
<1>1. /\ ps \in Seq({p1, p2, p3, p4}) /\ gs \in Seq({g1, g2, g3, g4})
      /\ Len(ps) = 4 /\ Len(gs) = 4 /\ DOMAIN ps = 1 .. 4
  OBVIOUS
<1>2. \A i \in 1 .. 4 : FieldPair(ps[i], gs[i])
  OBVIOUS
<1>3. {ps[i].f : i \in 1 .. 4} = {p1.f, p2.f, p3.f, p4.f}
  OBVIOUS
<1> HIDE DEF ps, gs
<1>4. IsSequence(ps) /\ IsSequence(gs)
  BY <1>1 DEF IsSequence
<1>5. RecordPair(ps, gs)
  BY <1>1, <1>2, <1>4 DEF RecordPair
<1>6. Names(ps) = {p1.f, p2.f, p3.f, p4.f}
  BY <1>1, <1>3, Zenon DEF Names
<1> QED BY <1>5, <1>6 DEF ps, gs

(* Structures of 5 fields.                                                 *)
LEMMA RecordPairOf5 ==
    ASSUME NEW p1, NEW g1, FieldPair(p1, g1), NEW p2, NEW g2, FieldPair(p2, g2),
           NEW p3, NEW g3, FieldPair(p3, g3), NEW p4, NEW g4, FieldPair(p4, g4),
           NEW p5, NEW g5, FieldPair(p5, g5)
    PROVE  /\ RecordPair(<<p1, p2, p3, p4, p5>>, <<g1, g2, g3, g4, g5>>)
           /\ Names(<<p1, p2, p3, p4, p5>>) = {p1.f, p2.f, p3.f, p4.f, p5.f}
<1> DEFINE ps == <<p1, p2, p3, p4, p5>>
           gs == <<g1, g2, g3, g4, g5>>
<1>1. /\ ps \in Seq({p1, p2, p3, p4, p5}) /\ gs \in Seq({g1, g2, g3, g4, g5})
      /\ Len(ps) = 5 /\ Len(gs) = 5 /\ DOMAIN ps = 1 .. 5
  OBVIOUS
<1>2. \A i \in 1 .. 5 : FieldPair(ps[i], gs[i])
  OBVIOUS
<1>3. {ps[i].f : i \in 1 .. 5} = {p1.f, p2.f, p3.f, p4.f, p5.f}
  OBVIOUS
<1> HIDE DEF ps, gs
<1>4. IsSequence(ps) /\ IsSequence(gs)
  BY <1>1 DEF IsSequence
<1>5. RecordPair(ps, gs)
  BY <1>1, <1>2, <1>4 DEF RecordPair
<1>6. Names(ps) = {p1.f, p2.f, p3.f, p4.f, p5.f}
  BY <1>1, <1>3, Zenon DEF Names
<1> QED BY <1>5, <1>6 DEF ps, gs

(* Structures of 8 fields.                                                 *)
LEMMA RecordPairOf8 ==
    ASSUME NEW p1, NEW g1, FieldPair(p1, g1), NEW p2, NEW g2, FieldPair(p2, g2),
           NEW p3, NEW g3, FieldPair(p3, g3), NEW p4, NEW g4, FieldPair(p4, g4),
           NEW p5, NEW g5, FieldPair(p5, g5), NEW p6, NEW g6, FieldPair(p6, g6),
           NEW p7, NEW g7, FieldPair(p7, g7), NEW p8, NEW g8, FieldPair(p8, g8)
    PROVE  /\ RecordPair(<<p1, p2, p3, p4, p5, p6, p7, p8>>, <<g1, g2, g3, g4, g5, g6, g7, g8>>)
           /\ Names(<<p1, p2, p3, p4, p5, p6, p7, p8>>)
                 = {p1.f, p2.f, p3.f, p4.f, p5.f, p6.f, p7.f, p8.f}
<1> DEFINE ps == <<p1, p2, p3, p4, p5, p6, p7, p8>>
           gs == <<g1, g2, g3, g4, g5, g6, g7, g8>>
<1>1. /\ ps \in Seq({p1, p2, p3, p4, p5, p6, p7, p8})
      /\ gs \in Seq({g1, g2, g3, g4, g5, g6, g7, g8})
      /\ Len(ps) = 8 /\ Len(gs) = 8 /\ DOMAIN ps = 1 .. 8
  OBVIOUS
<1>2. \A i \in 1 .. 8 : FieldPair(ps[i], gs[i])
  OBVIOUS
<1>3. {ps[i].f : i \in 1 .. 8} = {p1.f, p2.f, p3.f, p4.f, p5.f, p6.f, p7.f, p8.f}
  OBVIOUS
<1> HIDE DEF ps, gs
<1>4. IsSequence(ps) /\ IsSequence(gs)
  BY <1>1 DEF IsSequence
<1>5. RecordPair(ps, gs)
  BY <1>1, <1>2, <1>4 DEF RecordPair
<1>6. Names(ps) = {p1.f, p2.f, p3.f, p4.f, p5.f, p6.f, p7.f, p8.f}
  BY <1>1, <1>3, Zenon DEF Names
<1> QED BY <1>5, <1>6 DEF ps, gs

(* Structures of 9 fields.                                                 *)
LEMMA RecordPairOf9 ==
    ASSUME NEW p1, NEW g1, FieldPair(p1, g1), NEW p2, NEW g2, FieldPair(p2, g2),
           NEW p3, NEW g3, FieldPair(p3, g3), NEW p4, NEW g4, FieldPair(p4, g4),
           NEW p5, NEW g5, FieldPair(p5, g5), NEW p6, NEW g6, FieldPair(p6, g6),
           NEW p7, NEW g7, FieldPair(p7, g7), NEW p8, NEW g8, FieldPair(p8, g8),
           NEW p9, NEW g9, FieldPair(p9, g9)
    PROVE  /\ RecordPair(<<p1, p2, p3, p4, p5, p6, p7, p8, p9>>,
                         <<g1, g2, g3, g4, g5, g6, g7, g8, g9>>)
           /\ Names(<<p1, p2, p3, p4, p5, p6, p7, p8, p9>>)
                 = {p1.f, p2.f, p3.f, p4.f, p5.f, p6.f, p7.f, p8.f, p9.f}
<1> DEFINE ps == <<p1, p2, p3, p4, p5, p6, p7, p8, p9>>
           gs == <<g1, g2, g3, g4, g5, g6, g7, g8, g9>>
<1>1. /\ ps \in Seq({p1, p2, p3, p4, p5, p6, p7, p8, p9})
      /\ gs \in Seq({g1, g2, g3, g4, g5, g6, g7, g8, g9})
      /\ Len(ps) = 9 /\ Len(gs) = 9 /\ DOMAIN ps = 1 .. 9
  OBVIOUS
<1>2. \A i \in 1 .. 9 : FieldPair(ps[i], gs[i])
  OBVIOUS
<1>3. {ps[i].f : i \in 1 .. 9} = {p1.f, p2.f, p3.f, p4.f, p5.f, p6.f, p7.f, p8.f, p9.f}
  OBVIOUS
<1> HIDE DEF ps, gs
<1>4. IsSequence(ps) /\ IsSequence(gs)
  BY <1>1 DEF IsSequence
<1>5. RecordPair(ps, gs)
  BY <1>1, <1>2, <1>4 DEF RecordPair
<1>6. Names(ps) = {p1.f, p2.f, p3.f, p4.f, p5.f, p6.f, p7.f, p8.f, p9.f}
  BY <1>1, <1>3, Zenon DEF Names
<1> QED BY <1>5, <1>6 DEF ps, gs

(* Schemas of 1 item.                                                      *)
LEMMA SchemaPairOf1 ==
    ASSUME NEW p1, NEW g1, ItemPair(p1, g1)
    PROVE  /\ SchemaPair(<<p1>>, <<g1>>)
           /\ Names(<<p1>>) = {p1.f}
<1> DEFINE ps == <<p1>>
           gs == <<g1>>
<1>1. /\ ps \in Seq({p1}) /\ gs \in Seq({g1})
      /\ Len(ps) = 1 /\ Len(gs) = 1 /\ DOMAIN ps = 1 .. 1
  OBVIOUS
<1>2. \A i \in 1 .. 1 : ItemPair(ps[i], gs[i])
  OBVIOUS
<1>3. {ps[i].f : i \in 1 .. 1} = {p1.f}
  OBVIOUS
<1> HIDE DEF ps, gs
<1>4. IsSequence(ps) /\ IsSequence(gs)
  BY <1>1 DEF IsSequence
<1>5. SchemaPair(ps, gs)
  BY <1>1, <1>2, <1>4 DEF SchemaPair
<1>6. Names(ps) = {p1.f}
  BY <1>1, <1>3, Zenon DEF Names
<1> QED BY <1>5, <1>6 DEF ps, gs

(* Schemas of 2 items.                                                     *)
LEMMA SchemaPairOf2 ==
    ASSUME NEW p1, NEW g1, ItemPair(p1, g1), NEW p2, NEW g2, ItemPair(p2, g2)
    PROVE  /\ SchemaPair(<<p1, p2>>, <<g1, g2>>)
           /\ Names(<<p1, p2>>) = {p1.f, p2.f}
<1> DEFINE ps == <<p1, p2>>
           gs == <<g1, g2>>
<1>1. /\ ps \in Seq({p1, p2}) /\ gs \in Seq({g1, g2})
      /\ Len(ps) = 2 /\ Len(gs) = 2 /\ DOMAIN ps = 1 .. 2
  OBVIOUS
<1>2. \A i \in 1 .. 2 : ItemPair(ps[i], gs[i])
  OBVIOUS
<1>3. {ps[i].f : i \in 1 .. 2} = {p1.f, p2.f}
  OBVIOUS
<1> HIDE DEF ps, gs
<1>4. IsSequence(ps) /\ IsSequence(gs)
  BY <1>1 DEF IsSequence
<1>5. SchemaPair(ps, gs)
  BY <1>1, <1>2, <1>4 DEF SchemaPair
<1>6. Names(ps) = {p1.f, p2.f}
  BY <1>1, <1>3, Zenon DEF Names
<1> QED BY <1>5, <1>6 DEF ps, gs

(* Schemas of 4 items.                                                     *)
LEMMA SchemaPairOf4 ==
    ASSUME NEW p1, NEW g1, ItemPair(p1, g1), NEW p2, NEW g2, ItemPair(p2, g2),
           NEW p3, NEW g3, ItemPair(p3, g3), NEW p4, NEW g4, ItemPair(p4, g4)
    PROVE  /\ SchemaPair(<<p1, p2, p3, p4>>, <<g1, g2, g3, g4>>)
           /\ Names(<<p1, p2, p3, p4>>) = {p1.f, p2.f, p3.f, p4.f}
<1> DEFINE ps == <<p1, p2, p3, p4>>
           gs == <<g1, g2, g3, g4>>
<1>1. /\ ps \in Seq({p1, p2, p3, p4}) /\ gs \in Seq({g1, g2, g3, g4})
      /\ Len(ps) = 4 /\ Len(gs) = 4 /\ DOMAIN ps = 1 .. 4
  OBVIOUS
<1>2. \A i \in 1 .. 4 : ItemPair(ps[i], gs[i])
  OBVIOUS
<1>3. {ps[i].f : i \in 1 .. 4} = {p1.f, p2.f, p3.f, p4.f}
  OBVIOUS
<1> HIDE DEF ps, gs
<1>4. IsSequence(ps) /\ IsSequence(gs)
  BY <1>1 DEF IsSequence
<1>5. SchemaPair(ps, gs)
  BY <1>1, <1>2, <1>4 DEF SchemaPair
<1>6. Names(ps) = {p1.f, p2.f, p3.f, p4.f}
  BY <1>1, <1>3, Zenon DEF Names
<1> QED BY <1>5, <1>6 DEF ps, gs

(* The runs of words.                                                      *)
LEMMA AllocWords ==
    LET fs == <<"id", "generation", "owner", "offset", "length">>
        T == {"id", "generation", "owner", "offset", "length"}
    IN  RecordPair(Words(fs), Words(fs)) /\ Names(Words(fs)) = T /\ T \cap Lists = {}
<1> DEFINE fs == <<"id", "generation", "owner", "offset", "length">>
           T == {"id", "generation", "owner", "offset", "length"}
<1>1. fs \in Seq(T) /\ T = {fs[i] : i \in 1 .. Len(fs)}
  OBVIOUS
<1>2. T \cap Lists = {}
  BY DEF Lists, RecordLists, StringLists
<1> HIDE DEF fs, T
<1>3. RecordPair(Words(fs), Words(fs)) /\ Names(Words(fs)) = T
  BY <1>1, <1>2, WordsPair
<1> QED BY <1>2, <1>3 DEF fs, T

(* The words of put_demand.                                                *)
LEMMA DemandWords ==
    LET fs == <<"demand.id", "demand.generation", "demand.accelerator_count",
                "demand.per_device_memory", "demand.aggregate_memory",
                "demand.contiguous_memory", "demand.pinned_memory">>
        T == {"demand.id", "demand.generation", "demand.accelerator_count",
              "demand.per_device_memory", "demand.aggregate_memory",
              "demand.contiguous_memory", "demand.pinned_memory"}
    IN  RecordPair(Words(fs), Words(fs)) /\ Names(Words(fs)) = T /\ T \cap Lists = {}
<1> DEFINE fs == <<"demand.id", "demand.generation", "demand.accelerator_count",
                   "demand.per_device_memory", "demand.aggregate_memory",
                   "demand.contiguous_memory", "demand.pinned_memory">>
           T == {"demand.id", "demand.generation", "demand.accelerator_count",
                 "demand.per_device_memory", "demand.aggregate_memory",
                 "demand.contiguous_memory", "demand.pinned_memory"}
<1>1. fs \in Seq(T) /\ T = {fs[i] : i \in 1 .. Len(fs)}
  OBVIOUS
<1>2. T \cap Lists = {}
  BY DEF Lists, RecordLists, StringLists
<1> HIDE DEF fs, T
<1>3. RecordPair(Words(fs), Words(fs)) /\ Names(Words(fs)) = T
  BY <1>1, <1>2, WordsPair
<1> QED BY <1>2, <1>3 DEF fs, T

(* The words of put_resource.                                              *)
LEMMA ResourceWords ==
    LET fs == <<"resource.id", "resource.generation", "resource.pool", "resource.device",
                "resource.node", "resource.memory_domain">>
        T == {"resource.id", "resource.generation", "resource.pool", "resource.device",
              "resource.node", "resource.memory_domain"}
    IN  RecordPair(Words(fs), Words(fs)) /\ Names(Words(fs)) = T /\ T \cap Lists = {}
<1> DEFINE fs == <<"resource.id", "resource.generation", "resource.pool",
                   "resource.device", "resource.node", "resource.memory_domain">>
           T == {"resource.id", "resource.generation", "resource.pool", "resource.device",
                 "resource.node", "resource.memory_domain"}
<1>1. fs \in Seq(T) /\ T = {fs[i] : i \in 1 .. Len(fs)}
  OBVIOUS
<1>2. T \cap Lists = {}
  BY DEF Lists, RecordLists, StringLists
<1> HIDE DEF fs, T
<1>3. RecordPair(Words(fs), Words(fs)) /\ Names(Words(fs)) = T
  BY <1>1, <1>2, WordsPair
<1> QED BY <1>2, <1>3 DEF fs, T

(* The words of put_action.                                                *)
LEMMA ActionWords ==
    LET fs == <<"expected_capacity_recovered", "expected_fit_improvement", "cost", "risk",
                "disruption", "reversible", "state_preservation_required",
                "preemption_required">>
        T == {"expected_capacity_recovered", "expected_fit_improvement", "cost", "risk",
              "disruption", "reversible", "state_preservation_required",
              "preemption_required"}
    IN  RecordPair(Words(fs), Words(fs)) /\ Names(Words(fs)) = T /\ T \cap Lists = {}
<1> DEFINE fs == <<"expected_capacity_recovered", "expected_fit_improvement", "cost",
                   "risk", "disruption", "reversible", "state_preservation_required",
                   "preemption_required">>
           T == {"expected_capacity_recovered", "expected_fit_improvement", "cost", "risk",
                 "disruption", "reversible", "state_preservation_required",
                 "preemption_required"}
<1>1. fs \in Seq(T) /\ T = {fs[i] : i \in 1 .. Len(fs)}
  OBVIOUS
<1>2. T \cap Lists = {}
  BY DEF Lists, RecordLists, StringLists
<1> HIDE DEF fs, T
<1>3. RecordPair(Words(fs), Words(fs)) /\ Names(Words(fs)) = T
  BY <1>1, <1>2, WordsPair
<1> QED BY <1>2, <1>3 DEF fs, T

(* The words of put_plan before the actions.                               *)
LEMMA PlanHeadWords ==
    LET fs == <<"plan.id", "plan.generation", "plan.domain_id", "plan.based_on_snapshot",
                "plan.policy_generation", "plan.epoch">>
        T == {"plan.id", "plan.generation", "plan.domain_id", "plan.based_on_snapshot",
              "plan.policy_generation", "plan.epoch"}
    IN  RecordPair(Words(fs), Words(fs)) /\ Names(Words(fs)) = T /\ T \cap Lists = {}
<1> DEFINE fs == <<"plan.id", "plan.generation", "plan.domain_id",
                   "plan.based_on_snapshot", "plan.policy_generation", "plan.epoch">>
           T == {"plan.id", "plan.generation", "plan.domain_id", "plan.based_on_snapshot",
                 "plan.policy_generation", "plan.epoch"}
<1>1. fs \in Seq(T) /\ T = {fs[i] : i \in 1 .. Len(fs)}
  OBVIOUS
<1>2. T \cap Lists = {}
  BY DEF Lists, RecordLists, StringLists
<1> HIDE DEF fs, T
<1>3. RecordPair(Words(fs), Words(fs)) /\ Names(Words(fs)) = T
  BY <1>1, <1>2, WordsPair
<1> QED BY <1>2, <1>3 DEF fs, T

(* The words of put_plan behind the actions.                               *)
LEMMA PlanCostsWords ==
    LET fs == <<"plan.expected_capacity_recovered", "plan.expected_fit_improvement",
                "plan.benefit", "plan.cost", "plan.risk", "plan.disruption">>
        T == {"plan.expected_capacity_recovered", "plan.expected_fit_improvement",
              "plan.benefit", "plan.cost", "plan.risk", "plan.disruption"}
    IN  RecordPair(Words(fs), Words(fs)) /\ Names(Words(fs)) = T /\ T \cap Lists = {}
<1> DEFINE fs == <<"plan.expected_capacity_recovered", "plan.expected_fit_improvement",
                   "plan.benefit", "plan.cost", "plan.risk", "plan.disruption">>
           T == {"plan.expected_capacity_recovered", "plan.expected_fit_improvement",
                 "plan.benefit", "plan.cost", "plan.risk", "plan.disruption"}
<1>1. fs \in Seq(T) /\ T = {fs[i] : i \in 1 .. Len(fs)}
  OBVIOUS
<1>2. T \cap Lists = {}
  BY DEF Lists, RecordLists, StringLists
<1> HIDE DEF fs, T
<1>3. RecordPair(Words(fs), Words(fs)) /\ Names(Words(fs)) = T
  BY <1>1, <1>2, WordsPair
<1> QED BY <1>2, <1>3 DEF fs, T

(* The words every worker message starts with.                             *)
LEMMA AuthorityWords ==
    LET fs == <<"worker_id", "worker_boot", "epoch">>
        T == {"worker_id", "worker_boot", "epoch"}
    IN  RecordPair(Words(fs), Words(fs)) /\ Names(Words(fs)) = T /\ T \cap Lists = {}
<1> DEFINE fs == <<"worker_id", "worker_boot", "epoch">>
           T == {"worker_id", "worker_boot", "epoch"}
<1>1. fs \in Seq(T) /\ T = {fs[i] : i \in 1 .. Len(fs)}
  OBVIOUS
<1>2. T \cap Lists = {}
  BY DEF Lists, RecordLists, StringLists
<1> HIDE DEF fs, T
<1>3. RecordPair(Words(fs), Words(fs)) /\ Names(Words(fs)) = T
  BY <1>1, <1>2, WordsPair
<1> QED BY <1>2, <1>3 DEF fs, T

(* The words of PUBLISH_LAYOUT.                                            *)
LEMMA LayoutWords ==
    LET fs == <<"resource.id", "resource_gen">>
        T == {"resource.id", "resource_gen"}
    IN  RecordPair(Words(fs), Words(fs)) /\ Names(Words(fs)) = T /\ T \cap Lists = {}
<1> DEFINE fs == <<"resource.id", "resource_gen">>
           T == {"resource.id", "resource_gen"}
<1>1. fs \in Seq(T) /\ T = {fs[i] : i \in 1 .. Len(fs)}
  OBVIOUS
<1>2. T \cap Lists = {}
  BY DEF Lists, RecordLists, StringLists
<1> HIDE DEF fs, T
<1>3. RecordPair(Words(fs), Words(fs)) /\ Names(Words(fs)) = T
  BY <1>1, <1>2, WordsPair
<1> QED BY <1>2, <1>3 DEF fs, T

(* The words of INVALIDATE_ALLOCATION.                                     *)
LEMMA InvalidateWords ==
    LET fs == <<"allocation_id", "new_generation">>
        T == {"allocation_id", "new_generation"}
    IN  RecordPair(Words(fs), Words(fs)) /\ Names(Words(fs)) = T /\ T \cap Lists = {}
<1> DEFINE fs == <<"allocation_id", "new_generation">>
           T == {"allocation_id", "new_generation"}
<1>1. fs \in Seq(T) /\ T = {fs[i] : i \in 1 .. Len(fs)}
  OBVIOUS
<1>2. T \cap Lists = {}
  BY DEF Lists, RecordLists, StringLists
<1> HIDE DEF fs, T
<1>3. RecordPair(Words(fs), Words(fs)) /\ Names(Words(fs)) = T
  BY <1>1, <1>2, WordsPair
<1> QED BY <1>2, <1>3 DEF fs, T

(* The words of QUERY_FRAGMENTATION and QUERY_FIT.                         *)
LEMMA QueryWords ==
    LET fs == <<"epoch">>
        T == {"epoch"}
    IN  RecordPair(Words(fs), Words(fs)) /\ Names(Words(fs)) = T /\ T \cap Lists = {}
<1> DEFINE fs == <<"epoch">>
           T == {"epoch"}
<1>1. fs \in Seq(T) /\ T = {fs[i] : i \in 1 .. Len(fs)}
  OBVIOUS
<1>2. T \cap Lists = {}
  BY DEF Lists, RecordLists, StringLists
<1> HIDE DEF fs, T
<1>3. RecordPair(Words(fs), Words(fs)) /\ Names(Words(fs)) = T
  BY <1>1, <1>2, WordsPair
<1> QED BY <1>2, <1>3 DEF fs, T

(* The words of CREATE_PLAN.                                               *)
LEMMA CreateWords ==
    LET fs == <<"epoch", "policy_gen">>
        T == {"epoch", "policy_gen"}
    IN  RecordPair(Words(fs), Words(fs)) /\ Names(Words(fs)) = T /\ T \cap Lists = {}
<1> DEFINE fs == <<"epoch", "policy_gen">>
           T == {"epoch", "policy_gen"}
<1>1. fs \in Seq(T) /\ T = {fs[i] : i \in 1 .. Len(fs)}
  OBVIOUS
<1>2. T \cap Lists = {}
  BY DEF Lists, RecordLists, StringLists
<1> HIDE DEF fs, T
<1>3. RecordPair(Words(fs), Words(fs)) /\ Names(Words(fs)) = T
  BY <1>1, <1>2, WordsPair
<1> QED BY <1>2, <1>3 DEF fs, T

(* The words of APPROVE_PLAN.                                              *)
LEMMA ApproveWords ==
    LET fs == <<"plan_id", "plan_gen", "policy_gen">>
        T == {"plan_id", "plan_gen", "policy_gen"}
    IN  RecordPair(Words(fs), Words(fs)) /\ Names(Words(fs)) = T /\ T \cap Lists = {}
<1> DEFINE fs == <<"plan_id", "plan_gen", "policy_gen">>
           T == {"plan_id", "plan_gen", "policy_gen"}
<1>1. fs \in Seq(T) /\ T = {fs[i] : i \in 1 .. Len(fs)}
  OBVIOUS
<1>2. T \cap Lists = {}
  BY DEF Lists, RecordLists, StringLists
<1> HIDE DEF fs, T
<1>3. RecordPair(Words(fs), Words(fs)) /\ Names(Words(fs)) = T
  BY <1>1, <1>2, WordsPair
<1> QED BY <1>2, <1>3 DEF fs, T

(* The words of BEGIN_ACTION.                                              *)
LEMMA BeginWords ==
    LET fs == <<"plan_id", "plan_gen", "action_index", "epoch", "policy_gen">>
        T == {"plan_id", "plan_gen", "action_index", "epoch", "policy_gen"}
    IN  RecordPair(Words(fs), Words(fs)) /\ Names(Words(fs)) = T /\ T \cap Lists = {}
<1> DEFINE fs == <<"plan_id", "plan_gen", "action_index", "epoch", "policy_gen">>
           T == {"plan_id", "plan_gen", "action_index", "epoch", "policy_gen"}
<1>1. fs \in Seq(T) /\ T = {fs[i] : i \in 1 .. Len(fs)}
  OBVIOUS
<1>2. T \cap Lists = {}
  BY DEF Lists, RecordLists, StringLists
<1> HIDE DEF fs, T
<1>3. RecordPair(Words(fs), Words(fs)) /\ Names(Words(fs)) = T
  BY <1>1, <1>2, WordsPair
<1> QED BY <1>2, <1>3 DEF fs, T

(* The words of ACTION_COMPLETE.                                           *)
LEMMA CompleteWords ==
    LET fs == <<"plan_id", "action_index", "action_ok", "new_generation">>
        T == {"plan_id", "action_index", "action_ok", "new_generation"}
    IN  RecordPair(Words(fs), Words(fs)) /\ Names(Words(fs)) = T /\ T \cap Lists = {}
<1> DEFINE fs == <<"plan_id", "action_index", "action_ok", "new_generation">>
           T == {"plan_id", "action_index", "action_ok", "new_generation"}
<1>1. fs \in Seq(T) /\ T = {fs[i] : i \in 1 .. Len(fs)}
  OBVIOUS
<1>2. T \cap Lists = {}
  BY DEF Lists, RecordLists, StringLists
<1> HIDE DEF fs, T
<1>3. RecordPair(Words(fs), Words(fs)) /\ Names(Words(fs)) = T
  BY <1>1, <1>2, WordsPair
<1> QED BY <1>2, <1>3 DEF fs, T

(* The words of VERIFY, CANCEL_PLAN and REVALIDATE.                        *)
LEMMA PlanWords ==
    LET fs == <<"plan_id", "plan_gen">>
        T == {"plan_id", "plan_gen"}
    IN  RecordPair(Words(fs), Words(fs)) /\ Names(Words(fs)) = T /\ T \cap Lists = {}
<1> DEFINE fs == <<"plan_id", "plan_gen">>
           T == {"plan_id", "plan_gen"}
<1>1. fs \in Seq(T) /\ T = {fs[i] : i \in 1 .. Len(fs)}
  OBVIOUS
<1>2. T \cap Lists = {}
  BY DEF Lists, RecordLists, StringLists
<1> HIDE DEF fs, T
<1>3. RecordPair(Words(fs), Words(fs)) /\ Names(Words(fs)) = T
  BY <1>1, <1>2, WordsPair
<1> QED BY <1>2, <1>3 DEF fs, T

(* The words of ADVANCE_GENERATION.                                        *)
LEMMA AdvanceWords ==
    LET fs == <<"generation_kind", "gen_value">>
        T == {"generation_kind", "gen_value"}
    IN  RecordPair(Words(fs), Words(fs)) /\ Names(Words(fs)) = T /\ T \cap Lists = {}
<1> DEFINE fs == <<"generation_kind", "gen_value">>
           T == {"generation_kind", "gen_value"}
<1>1. fs \in Seq(T) /\ T = {fs[i] : i \in 1 .. Len(fs)}
  OBVIOUS
<1>2. T \cap Lists = {}
  BY DEF Lists, RecordLists, StringLists
<1> HIDE DEF fs, T
<1>3. RecordPair(Words(fs), Words(fs)) /\ Names(Words(fs)) = T
  BY <1>1, <1>2, WordsPair
<1> QED BY <1>2, <1>3 DEF fs, T

-----------------------------------------------------------------------------
(* The structures.                                                         *)
LEMMA AllocPair == RecordPair(PutAlloc, GetAlloc) /\ Names(PutAlloc) \cap Lists = {}
<1> DEFINE a == Words(<<"id", "generation", "owner", "offset", "length">>)
           c == <<Enum("movability", LastMovability), Opt("reservation"),
                  Word("policy_protected"), Opt("workload"),
                  Enum("provenance", LastProvenance)>>
           d == <<Enum("movability", Valid.movability), Opt("reservation"),
                  Word("policy_protected"), Opt("workload"),
                  Enum("provenance", Valid.provenance)>>
<1>1. RecordPair(a, a) /\ Names(a) \cap Lists = {}
  BY AllocWords, Zenon
<1>2. c = d
  BY DEF LastMovability, LastProvenance, Valid
<1>3. /\ LastMovability \in Nat /\ LastProvenance \in Nat
      /\ {"movability", "reservation", "policy_protected", "workload", "provenance"}
            \cap Lists = {}
  BY DEF LastMovability, LastProvenance, Lists, RecordLists, StringLists
<1>4. /\ FieldPair(Enum("movability", LastMovability), Enum("movability", LastMovability))
      /\ FieldPair(Opt("reservation"), Opt("reservation"))
      /\ FieldPair(Word("policy_protected"), Word("policy_protected"))
      /\ FieldPair(Opt("workload"), Opt("workload"))
      /\ FieldPair(Enum("provenance", LastProvenance), Enum("provenance", LastProvenance))
  BY <1>3, FieldItems
<1>5. RecordPair(c, c) /\ Names(c) = {"movability", "reservation", "policy_protected",
                                      "workload", "provenance"}
  BY <1>4, ItemNames, RecordPairOf5
<1>6. PutAlloc = a \o c /\ GetAlloc = a \o d
  BY Zenon DEF PutAlloc, GetAlloc
<1> HIDE DEF a, c, d
<1>7. RecordPair(a \o c, a \o d)
  BY <1>1, <1>2, <1>5, RecordPairConcat
<1>8. Names(a \o c) = Names(a) \cup Names(c)
  BY <1>1, <1>5, NamesConcat DEF RecordPair
<1> QED BY <1>1, <1>3, <1>5, <1>6, <1>7, <1>8

(* put_demand and get_demand agree.                                        *)
LEMMA DemandPair ==
    /\ RecordPair(PutDemand, GetDemand)
    /\ {"demand.accelerator_count", "demand.per_device_memory", "demand.aggregate_memory",
        "demand.topology_group", "demand.reservation_duration"} \subseteq Names(PutDemand)
<1> DEFINE a == Words(<<"demand.id", "demand.generation", "demand.accelerator_count",
                        "demand.per_device_memory", "demand.aggregate_memory",
                        "demand.contiguous_memory", "demand.pinned_memory">>)
           c == <<Opt("demand.topology_group"), Opt("demand.locality_group"),
                  Word("demand.requires_highspeed_comm_path"),
                  Opt("demand.reservation_duration"), Word("demand.requires_model_residency"),
                  Word("demand.requires_adapter_residency"),
                  Opt("demand.elastic_min"), Opt("demand.elastic_max")>>
<1>1. /\ RecordPair(a, a)
      /\ {"demand.accelerator_count", "demand.per_device_memory",
          "demand.aggregate_memory"} \subseteq Names(a)
  <2>1. /\ RecordPair(a, a)
        /\ Names(a) = {"demand.id", "demand.generation", "demand.accelerator_count",
                       "demand.per_device_memory", "demand.aggregate_memory",
                       "demand.contiguous_memory", "demand.pinned_memory"}
    BY DemandWords, Zenon
  <2> QED BY <2>1, Zenon
<1>2. {"demand.topology_group", "demand.locality_group",
       "demand.requires_highspeed_comm_path", "demand.reservation_duration",
       "demand.requires_model_residency", "demand.requires_adapter_residency",
       "demand.elastic_min", "demand.elastic_max"} \cap Lists = {}
  BY DEF Lists, RecordLists, StringLists
<1>3. /\ FieldPair(Opt("demand.topology_group"), Opt("demand.topology_group"))
      /\ FieldPair(Opt("demand.locality_group"), Opt("demand.locality_group"))
      /\ FieldPair(Word("demand.requires_highspeed_comm_path"),
                   Word("demand.requires_highspeed_comm_path"))
      /\ FieldPair(Opt("demand.reservation_duration"), Opt("demand.reservation_duration"))
      /\ FieldPair(Word("demand.requires_model_residency"),
                   Word("demand.requires_model_residency"))
      /\ FieldPair(Word("demand.requires_adapter_residency"),
                   Word("demand.requires_adapter_residency"))
      /\ FieldPair(Opt("demand.elastic_min"), Opt("demand.elastic_min"))
      /\ FieldPair(Opt("demand.elastic_max"), Opt("demand.elastic_max"))
  BY <1>2, FieldItems
<1>4. /\ RecordPair(c, c)
      /\ {"demand.topology_group", "demand.reservation_duration"} \subseteq Names(c)
  <2>1. RecordPair(c, c)
    BY <1>3, RecordPairOf8
  <2>2. \A i \in 1 .. 8 : c[i].f \in Names(c)
    BY DEF Names
  <2>3. c[1].f = "demand.topology_group" /\ c[4].f = "demand.reservation_duration"
    BY ItemNames
  <2> QED BY <2>1, <2>2, <2>3
<1>5. PutDemand = a \o c /\ GetDemand = a \o c
  BY Zenon DEF PutDemand, GetDemand
<1> HIDE DEF a, c
<1>6. RecordPair(a \o c, a \o c)
  BY <1>1, <1>4, RecordPairConcat
<1>7. Names(a \o c) = Names(a) \cup Names(c)
  BY <1>1, <1>4, NamesConcat DEF RecordPair
<1> QED BY <1>1, <1>4, <1>5, <1>6, <1>7

(* put_resource and get_resource agree.                                    *)
LEMMA ResourcePair ==
    /\ RecordPair(PutResource, GetResource)
    /\ {"resource.id", "resource.generation", "resource.device", "resource.topology_group",
        "resource.capacity", "resource.provenance"} \subseteq Names(PutResource)
<1> DEFINE a == Words(<<"resource.id", "resource.generation", "resource.pool",
                        "resource.device", "resource.node", "resource.memory_domain">>)
           c == <<Opt("resource.topology_group"), Enum("resource.domain", LastDomain),
                  Word("resource.capacity"), Enum("resource.provenance", LastProvenance)>>
           d == <<Opt("resource.topology_group"), Enum("resource.domain", Valid.domain),
                  Word("resource.capacity"), Enum("resource.provenance", Valid.provenance)>>
<1>1. /\ RecordPair(a, a)
      /\ {"resource.id", "resource.generation", "resource.device"} \subseteq Names(a)
  <2>1. /\ RecordPair(a, a)
        /\ Names(a) = {"resource.id", "resource.generation", "resource.pool",
                       "resource.device", "resource.node", "resource.memory_domain"}
    BY ResourceWords, Zenon
  <2> QED BY <2>1, Zenon
<1>2. c = d
  BY DEF LastDomain, LastProvenance, Valid
<1>3. /\ LastDomain \in Nat /\ LastProvenance \in Nat
      /\ {"resource.topology_group", "resource.domain", "resource.capacity",
          "resource.provenance"} \cap Lists = {}
  BY DEF LastDomain, LastProvenance, Lists, RecordLists, StringLists
<1>4. /\ FieldPair(Opt("resource.topology_group"), Opt("resource.topology_group"))
      /\ FieldPair(Enum("resource.domain", LastDomain), Enum("resource.domain", LastDomain))
      /\ FieldPair(Word("resource.capacity"), Word("resource.capacity"))
      /\ FieldPair(Enum("resource.provenance", LastProvenance),
                   Enum("resource.provenance", LastProvenance))
  BY <1>3, FieldItems
<1>5. /\ RecordPair(c, c)
      /\ {"resource.topology_group", "resource.capacity", "resource.provenance"}
            \subseteq Names(c)
  BY <1>4, ItemNames, RecordPairOf4
<1>6. PutResource = a \o c /\ GetResource = a \o d
  BY Zenon DEF PutResource, GetResource
<1> HIDE DEF a, c, d
<1>7. RecordPair(a \o c, a \o d)
  BY <1>1, <1>2, <1>5, RecordPairConcat
<1>8. Names(a \o c) = Names(a) \cup Names(c)
  BY <1>1, <1>5, NamesConcat DEF RecordPair
<1> QED BY <1>1, <1>5, <1>6, <1>7, <1>8

(* put_action and get_action agree.                                        *)
LEMMA ActionPair == RecordPair(PutAction, GetAction)
<1> DEFINE a == <<Enum("kind", LastAction), Word("target_resource"), Word("affected_owner"),
                  Opt("source_allocation"), Opt("destination"), Str("affected_allocations"),
                  Word("required_authority"), Str("required_preconditions"),
                  Str("proof_obligations")>>
           b == <<Enum("kind", Valid.action), Word("target_resource"), Word("affected_owner"),
                  Opt("source_allocation"), Opt("destination"),
                  List("affected_allocations", MaxRecords), Word("required_authority"),
                  List("required_preconditions", MaxStrings),
                  List("proof_obligations", MaxStrings)>>
           w == Words(<<"expected_capacity_recovered", "expected_fit_improvement", "cost",
                        "risk", "disruption", "reversible", "state_preservation_required",
                        "preemption_required">>)
           c == <<Enum("reservation_impact", LastImpact)>>
           d == <<Enum("reservation_impact", Valid.res_impact)>>
<1>1. RecordPair(w, w)
  BY ActionWords, Zenon
<1>2. /\ LastAction \in Nat /\ LastImpact \in Nat
      /\ Valid.action = LastAction /\ Valid.res_impact = LastImpact
  BY DEF LastAction, LastImpact, Valid
<1>3. /\ {"kind", "target_resource", "affected_owner", "source_allocation", "destination",
          "required_authority", "reservation_impact"} \cap Lists = {}
      /\ {"required_preconditions", "proof_obligations"} \subseteq StringLists
  BY DEF Lists, RecordLists, StringLists
<1>4. /\ FieldPair(Enum("kind", LastAction), Enum("kind", Valid.action))
      /\ FieldPair(Word("target_resource"), Word("target_resource"))
      /\ FieldPair(Word("affected_owner"), Word("affected_owner"))
      /\ FieldPair(Opt("source_allocation"), Opt("source_allocation"))
      /\ FieldPair(Opt("destination"), Opt("destination"))
      /\ FieldPair(Word("required_authority"), Word("required_authority"))
      /\ FieldPair(Enum("reservation_impact", LastImpact),
                   Enum("reservation_impact", Valid.res_impact))
  BY <1>2, <1>3, FieldItems
<1>5. /\ FieldPair(Str("affected_allocations"), List("affected_allocations", MaxRecords))
      /\ FieldPair(Str("required_preconditions"), List("required_preconditions", MaxStrings))
      /\ FieldPair(Str("proof_obligations"), List("proof_obligations", MaxStrings))
  BY <1>3, ListItems
<1>6. RecordPair(a, b)
  BY <1>4, <1>5, RecordPairOf9
<1>7. RecordPair(c, d)
  BY <1>4, RecordPairOf1
<1>8. PutAction = (a \o w) \o c /\ GetAction = (b \o w) \o d
  BY Zenon DEF PutAction, GetAction
<1> HIDE DEF a, b, w, c, d
<1>9. RecordPair((a \o w) \o c, (b \o w) \o d)
  BY <1>1, <1>6, <1>7, RecordPairConcat
<1> QED BY <1>8, <1>9

(* A structure inside a message.                                           *)
LEMMA NestedItems ==
    ASSUME NEW f, NEW ps, NEW gs, RecordPair(ps, gs)
    PROVE  /\ f \in {"allocations", "plan.actions"} =>
                  ItemPair(Records(f, MaxPayload, ps), Records(f, MaxRecords, gs))
           /\ f \notin Lists /\ Names(ps) \cap Lists = {} =>
                  ItemPair(Record(f, ps), Record(f, gs))
<1>1. RecordAgree(ps, gs)
  <2>1. Len(ps) \in Nat /\ DOMAIN ps = 1 .. Len(ps)
    BY DEF RecordPair, IsSequence
  <2> QED BY <2>1 DEF RecordPair, FieldPair, RecordAgree
<1>2. ASSUME f \in {"allocations", "plan.actions"}
      PROVE  ItemPair(Records(f, MaxPayload, ps), Records(f, MaxRecords, gs))
  <2> DEFINE p == Records(f, MaxPayload, ps)
             g == Records(f, MaxRecords, gs)
  <2>1. /\ p.f = f /\ g.f = f /\ p.kind = "RECORDS" /\ g.kind = "RECORDS"
        /\ g.max = MaxRecords /\ p.of = ps /\ g.of = gs
    BY DEF Records, Item
  <2> HIDE DEF p, g
  <2>2. Bound(f) = MaxRecords
    BY <1>2 DEF Bound, RecordLists
  <2>3. ItemAgree(p, g)
    BY <1>1, <2>1, LimitAssumption DEF ItemAgree
  <2>4. Limited(g)
    BY <1>2, <2>1, <2>2 DEF Limited
  <2>5. ItemPair(p, g)
    BY <2>1, <2>3, <2>4 DEF ItemPair
  <2> QED BY <2>5 DEF p, g
<1>3. ASSUME f \notin Lists, Names(ps) \cap Lists = {}
      PROVE  ItemPair(Record(f, ps), Record(f, gs))
  <2> DEFINE p == Record(f, ps)
             g == Record(f, gs)
  <2>1. /\ p.f = f /\ g.f = f /\ p.kind = "RECORD" /\ g.kind = "RECORD"
        /\ p.of = ps /\ g.of = gs
    BY DEF Record, Item
  <2> HIDE DEF p, g
  <2>2. ItemAgree(p, g)
    BY <1>1, <2>1 DEF ItemAgree
  <2>3. Limited(g)
    BY <1>3, <2>1 DEF Limited, Lists, RecordLists
  <2>4. ItemPair(p, g)
    BY <1>3, <2>1, <2>2, <2>3 DEF ItemPair
  <2> QED BY <2>4 DEF p, g
<1> QED BY <1>2, <1>3

(* put_plan and get_plan agree.                                            *)
LEMMA PlanPair ==
    /\ SchemaPair(PutPlan, GetPlan)
    /\ {"plan.id", "plan.generation", "plan.actions", "plan.state"} \subseteq Names(PutPlan)
<1> DEFINE a == Words(<<"plan.id", "plan.generation", "plan.domain_id",
                        "plan.based_on_snapshot", "plan.policy_generation", "plan.epoch">>)
           rp == <<Records("plan.actions", MaxPayload, PutAction)>>
           rg == <<Records("plan.actions", MaxRecords, GetAction)>>
           w == Words(<<"plan.expected_capacity_recovered", "plan.expected_fit_improvement",
                        "plan.benefit", "plan.cost", "plan.risk", "plan.disruption">>)
           c == <<Str("plan.factor_explanation"), Enum("plan.state", LastPlanState),
                  OptEnum("plan.verification", LastVerification),
                  Str("plan.precondition_failures")>>
           d == <<List("plan.factor_explanation", MaxStrings),
                  Enum("plan.state", Valid.plan_state),
                  OptEnum("plan.verification", Valid.verification),
                  List("plan.precondition_failures", MaxStrings)>>
<1>1. RecordPair(a, a) /\ {"plan.id", "plan.generation"} \subseteq Names(a)
  <2>1. /\ RecordPair(a, a)
        /\ Names(a) = {"plan.id", "plan.generation", "plan.domain_id",
                       "plan.based_on_snapshot", "plan.policy_generation", "plan.epoch"}
    BY PlanHeadWords, Zenon
  <2> QED BY <2>1, Zenon
<1>2. RecordPair(w, w)
  BY PlanCostsWords, Zenon
<1>3. SchemaPair(rp, rg) /\ "plan.actions" \in Names(rp)
  <2>1. ItemPair(Records("plan.actions", MaxPayload, PutAction),
                 Records("plan.actions", MaxRecords, GetAction))
    BY ActionPair, NestedItems
  <2> QED BY <2>1, ItemNames, SchemaPairOf1
<1>4. /\ LastPlanState \in Nat /\ LastVerification \in Nat
      /\ Valid.plan_state = LastPlanState /\ Valid.verification = LastVerification
  BY DEF LastPlanState, LastVerification, Valid
<1>5. /\ {"plan.state", "plan.verification"} \cap Lists = {}
      /\ {"plan.factor_explanation", "plan.precondition_failures"} \subseteq StringLists
  BY DEF Lists, RecordLists, StringLists
<1>6. /\ FieldPair(Str("plan.factor_explanation"),
                   List("plan.factor_explanation", MaxStrings))
      /\ FieldPair(Str("plan.precondition_failures"),
                   List("plan.precondition_failures", MaxStrings))
  BY <1>5, ListItems
<1>7. /\ FieldPair(Enum("plan.state", LastPlanState), Enum("plan.state", Valid.plan_state))
      /\ FieldPair(OptEnum("plan.verification", LastVerification),
                   OptEnum("plan.verification", Valid.verification))
  BY <1>4, <1>5, FieldItems
<1>8. RecordPair(c, d) /\ "plan.state" \in Names(c)
  BY <1>6, <1>7, ItemNames, RecordPairOf4
<1>9. PutPlan = ((a \o rp) \o w) \o c /\ GetPlan = ((a \o rg) \o w) \o d
  BY Zenon DEF PutPlan, GetPlan
<1> HIDE DEF a, rp, rg, w, c, d
<1>10. SchemaPair(a, a) /\ SchemaPair(w, w) /\ SchemaPair(c, d)
  BY <1>1, <1>2, <1>8, RecordIsSchema
<1>11. /\ SchemaPair(a \o rp, a \o rg)
       /\ SchemaPair((a \o rp) \o w, (a \o rg) \o w)
       /\ SchemaPair(((a \o rp) \o w) \o c, ((a \o rg) \o w) \o d)
  BY <1>3, <1>10, SchemaPairConcat
<1>12. /\ Names(a \o rp) = Names(a) \cup Names(rp)
       /\ Names((a \o rp) \o w) = Names(a \o rp) \cup Names(w)
       /\ Names(((a \o rp) \o w) \o c) = Names((a \o rp) \o w) \cup Names(c)
  BY <1>3, <1>10, <1>11, NamesConcat DEF SchemaPair
<1> QED BY <1>1, <1>3, <1>8, <1>9, <1>11, <1>12, Zenon

-----------------------------------------------------------------------------
(* The uniform footer.                                                     *)
Footer == <<Word("ok"), Enum("fit_outcome", LastFitOutcome),
            Enum("verification_outcome", LastVerification), Str("detail")>>
FooterNames == {"ok", "fit_outcome", "verification_outcome", "detail"}

(* The footer is read as it is written.                                    *)
LEMMA FooterPair ==
    /\ SchemaPair(Footer, Footer) /\ Names(Footer) = FooterNames
    /\ Footer = <<Word("ok"), Enum("fit_outcome", 16), Enum("verification_outcome", 6),
                  Str("detail")>>
<1>1. LastFitOutcome \in Nat /\ LastVerification \in Nat
  BY DEF LastFitOutcome, LastVerification
<1>2. FooterNames \cap Lists = {}
  BY DEF FooterNames, Lists, RecordLists, StringLists
<1>3. /\ FieldPair(Word("ok"), Word("ok"))
      /\ FieldPair(Enum("fit_outcome", LastFitOutcome), Enum("fit_outcome", LastFitOutcome))
      /\ FieldPair(Enum("verification_outcome", LastVerification),
                   Enum("verification_outcome", LastVerification))
  BY <1>1, <1>2, FieldItems DEF FooterNames
<1>4. \A p, g : FieldPair(p, g) => ItemPair(p, g)
  BY FieldIsItem
<1>5. ItemPair(Str("detail"), Str("detail"))
  BY <1>2, ListItems DEF FooterNames
<1>6. /\ SchemaPair(Footer, Footer)
      /\ Names(Footer) = {Word("ok").f, Enum("fit_outcome", LastFitOutcome).f,
                          Enum("verification_outcome", LastVerification).f, Str("detail").f}
  BY <1>3, <1>4, <1>5, SchemaPairOf4 DEF Footer
<1>7. Names(Footer) = FooterNames
  BY <1>6, ItemNames DEF FooterNames
<1> QED BY <1>6, <1>7 DEF Footer, LastFitOutcome, LastVerification

(* A body that agrees, between the type and the footer.                    *)
LEMMA BodyPair ==
    ASSUME NEW t, NEW a, NEW b, SchemaPair(a, b),
           PutFields(t) = a \o Footer, GetFields(t) = b \o Footer
    PROVE  /\ SchemaPair(PutFields(t), GetFields(t))
           /\ Names(PutFields(t)) = Names(a) \cup FooterNames
<1>1. SchemaPair(a \o Footer, b \o Footer)
  BY FooterPair, SchemaPairConcat
<1>2. Names(a \o Footer) = Names(a) \cup Names(Footer)
  BY FooterPair, NamesConcat DEF SchemaPair
<1> QED BY <1>1, <1>2, FooterPair, Zenon

(* What handle() or a client reads of a message is written, and read back. *)
Agreed(t) ==
    /\ SchemaPair(PutFields(t), GetFields(t))
    /\ Reads(t) \subseteq Names(PutFields(t))
    /\ Reports(t) \subseteq Names(PutFields(t))

(* A type without a body.                                                  *)
LEMMA EmptySchema == SchemaPair(<<>>, <<>>) /\ Names(<<>>) = {}
<1>1. <<>> \in Seq({}) /\ Len(<<>>) = 0 /\ DOMAIN <<>> = {}
  OBVIOUS
<1> QED BY <1>1 DEF SchemaPair, IsSequence, Names

(* It is enough to look at the body.                                       *)
LEMMA AgreedBy ==
    ASSUME NEW t, NEW a, NEW b, SchemaPair(a, b),
           PutFields(t) = a \o Footer, GetFields(t) = b \o Footer,
           Reads(t) \subseteq Names(a) \cup FooterNames,
           Reports(t) \subseteq Names(a) \cup FooterNames
    PROVE  Agreed(t)
BY BodyPair DEF Agreed

(* The case HELLO of the two switches.                                     *)
LEMMA HelloAgreed == Agreed("HELLO")
<1> DEFINE a == <<>>
           b == <<>>
<1>1. PutFields("HELLO") = a \o Footer /\ GetFields("HELLO") = b \o Footer
  BY FooterPair DEF PutFields, GetFields, Footer
<1>2. SchemaPair(a, b)
  BY EmptySchema
<1>3. Names(a) = {}
  BY EmptySchema
<1> HIDE DEF a, b
<1>4. Reads("HELLO") \subseteq Names(a) \cup FooterNames
  BY <1>3 DEF Reads, FooterNames
<1>5. Reports("HELLO") \subseteq Names(a) \cup FooterNames
  BY <1>3 DEF Reports, FooterNames
<1> QED BY <1>1, <1>2, <1>4, <1>5, AgreedBy

(* The case SAVE of the two switches.                                      *)
LEMMA SaveAgreed == Agreed("SAVE")
<1> DEFINE a == <<>>
           b == <<>>
<1>1. PutFields("SAVE") = a \o Footer /\ GetFields("SAVE") = b \o Footer
  BY FooterPair DEF PutFields, GetFields, Footer
<1>2. SchemaPair(a, b)
  BY EmptySchema
<1>3. Names(a) = {}
  BY EmptySchema
<1> HIDE DEF a, b
<1>4. Reads("SAVE") \subseteq Names(a) \cup FooterNames
  BY <1>3 DEF Reads, FooterNames
<1>5. Reports("SAVE") \subseteq Names(a) \cup FooterNames
  BY <1>3 DEF Reports, FooterNames
<1> QED BY <1>1, <1>2, <1>4, <1>5, AgreedBy

(* The case SHUTDOWN of the two switches.                                  *)
LEMMA ShutdownAgreed == Agreed("SHUTDOWN")
<1> DEFINE a == <<>>
           b == <<>>
<1>1. PutFields("SHUTDOWN") = a \o Footer /\ GetFields("SHUTDOWN") = b \o Footer
  BY FooterPair DEF PutFields, GetFields, Footer
<1>2. SchemaPair(a, b)
  BY EmptySchema
<1>3. Names(a) = {}
  BY EmptySchema
<1> HIDE DEF a, b
<1>4. Reads("SHUTDOWN") \subseteq Names(a) \cup FooterNames
  BY <1>3 DEF Reads, FooterNames
<1>5. Reports("SHUTDOWN") \subseteq Names(a) \cup FooterNames
  BY <1>3 DEF Reports, FooterNames
<1> QED BY <1>1, <1>2, <1>4, <1>5, AgreedBy

(* The authority fields are read as they are written.                      *)
LEMMA AuthorityPair ==
    /\ SchemaPair(Authority, Authority)
    /\ Names(Authority) = {"worker_id", "worker_boot", "epoch"}
BY AuthorityWords, RecordIsSchema, Zenon DEF Authority

(* The case REGISTER of the two switches.                                  *)
LEMMA RegisterAgreed == Agreed("REGISTER")
<1> DEFINE a == Authority
           b == Authority
<1>1. PutFields("REGISTER") = a \o Footer /\ GetFields("REGISTER") = b \o Footer
  BY FooterPair DEF PutFields, GetFields, Footer
<1>2. SchemaPair(a, b)
  BY AuthorityPair
<1>3. {"worker_id", "worker_boot"} \subseteq Names(a)
  BY AuthorityPair
<1> HIDE DEF a, b
<1>4. Reads("REGISTER") \subseteq Names(a) \cup FooterNames
  BY <1>3 DEF Reads, FooterNames
<1>5. Reports("REGISTER") \subseteq Names(a) \cup FooterNames
  BY <1>3 DEF Reports, FooterNames
<1> QED BY <1>1, <1>2, <1>4, <1>5, AgreedBy

(* The case PUBLISH_RESOURCE of the two switches.                          *)
LEMMA PublishResourceAgreed == Agreed("PUBLISH_RESOURCE")
<1> DEFINE a == Authority \o PutResource
           b == Authority \o GetResource
<1>1. PutFields("PUBLISH_RESOURCE") = a \o Footer /\ GetFields("PUBLISH_RESOURCE") = b \o Footer
  BY FooterPair DEF PutFields, GetFields, Footer
<1>2. SchemaPair(PutResource, GetResource)
  BY ResourcePair, RecordIsSchema
<1>3. SchemaPair(a, b)
  BY <1>2, AuthorityPair, SchemaPairConcat
<1>4. /\ Names(a) = Names(Authority) \cup Names(PutResource)
      /\ {"worker_id", "worker_boot"} \subseteq Names(Authority)
      /\ {"resource.id", "resource.generation", "resource.device", "resource.topology_group",
          "resource.capacity", "resource.provenance"} \subseteq Names(PutResource)
  BY <1>2, AuthorityPair, ResourcePair, NamesConcat DEF SchemaPair
<1> HIDE DEF a, b
<1>5. Reads("PUBLISH_RESOURCE") \subseteq Names(a) \cup FooterNames
  BY <1>4 DEF Reads, FooterNames
<1>6. Reports("PUBLISH_RESOURCE") \subseteq Names(a) \cup FooterNames
  BY <1>4 DEF Reports, FooterNames
<1> QED BY <1>1, <1>3, <1>5, <1>6, AgreedBy

(* The case PUBLISH_LAYOUT of the two switches.                            *)
LEMMA PublishLayoutAgreed == Agreed("PUBLISH_LAYOUT")
<1> DEFINE a == (Authority \o Words(<<"resource.id", "resource_gen">>))
                    \o <<Records("allocations", MaxPayload, PutAlloc)>>
           b == (Authority \o Words(<<"resource.id", "resource_gen">>))
                    \o <<Records("allocations", MaxRecords, GetAlloc)>>
<1>1. PutFields("PUBLISH_LAYOUT") = a \o Footer /\ GetFields("PUBLISH_LAYOUT") = b \o Footer
  BY FooterPair DEF PutFields, GetFields, Footer
<1> DEFINE w == Words(<<"resource.id", "resource_gen">>)
           c == <<Records("allocations", MaxPayload, PutAlloc)>>
           d == <<Records("allocations", MaxRecords, GetAlloc)>>
<1>2. SchemaPair(w, w) /\ Names(w) = {"resource.id", "resource_gen"}
  BY LayoutWords, RecordIsSchema, Zenon
<1>3. SchemaPair(c, d) /\ "allocations" \in Names(c)
  <2>1. ItemPair(Records("allocations", MaxPayload, PutAlloc),
                 Records("allocations", MaxRecords, GetAlloc))
    BY AllocPair, NestedItems
  <2> QED BY <2>1, ItemNames, SchemaPairOf1
<1>4. a = (Authority \o w) \o c /\ b = (Authority \o w) \o d
  OBVIOUS
<1> HIDE DEF w, c, d
<1>5. SchemaPair(Authority \o w, Authority \o w)
  BY <1>2, AuthorityPair, SchemaPairConcat
<1>6. SchemaPair(a, b)
  BY <1>3, <1>4, <1>5, SchemaPairConcat
<1>7. /\ Names(a) = (Names(Authority) \cup Names(w)) \cup Names(c)
      /\ {"worker_id", "worker_boot"} \subseteq Names(Authority)
      /\ Names(w) = {"resource.id", "resource_gen"} /\ "allocations" \in Names(c)
  <2>1. Names(Authority \o w) = Names(Authority) \cup Names(w)
    BY <1>2, AuthorityPair, NamesConcat DEF SchemaPair
  <2>2. Names((Authority \o w) \o c) = Names(Authority \o w) \cup Names(c)
    BY <1>3, <1>5, NamesConcat DEF SchemaPair
  <2> QED BY <1>2, <1>3, <1>4, <2>1, <2>2, AuthorityPair
<1> HIDE DEF a, b
<1>8. Reads("PUBLISH_LAYOUT") \subseteq Names(a) \cup FooterNames
  BY <1>7 DEF Reads, FooterNames
<1>9. Reports("PUBLISH_LAYOUT") \subseteq Names(a) \cup FooterNames
  BY <1>7 DEF Reports, FooterNames
<1> QED BY <1>1, <1>6, <1>8, <1>9, AgreedBy

(* The case PUBLISH_ALLOCATION of the two switches.                        *)
LEMMA PublishAllocationAgreed == Agreed("PUBLISH_ALLOCATION")
<1> DEFINE a == Authority \o <<Word("resource.id"), Record("allocation", PutAlloc)>>
           b == Authority \o <<Word("resource.id"), Record("allocation", GetAlloc)>>
<1>1. PutFields("PUBLISH_ALLOCATION") = a \o Footer /\ GetFields("PUBLISH_ALLOCATION") = b \o Footer
  BY FooterPair DEF PutFields, GetFields, Footer
<1> DEFINE c == <<Word("resource.id"), Record("allocation", PutAlloc)>>
           d == <<Word("resource.id"), Record("allocation", GetAlloc)>>
<1>2. SchemaPair(c, d) /\ Names(c) = {"resource.id", "allocation"}
  <2>1. "resource.id" \notin Lists /\ "allocation" \notin Lists
    BY DEF Lists, RecordLists, StringLists
  <2>2. ItemPair(Word("resource.id"), Word("resource.id"))
    BY <2>1, FieldItems, FieldIsItem
  <2>3. ItemPair(Record("allocation", PutAlloc), Record("allocation", GetAlloc))
    BY <2>1, AllocPair, NestedItems
  <2> QED BY <2>2, <2>3, ItemNames, SchemaPairOf2
<1>3. a = Authority \o c /\ b = Authority \o d
  OBVIOUS
<1> HIDE DEF c, d
<1>4. SchemaPair(a, b)
  BY <1>2, <1>3, AuthorityPair, SchemaPairConcat
<1>5. /\ Names(a) = Names(Authority) \cup Names(c)
      /\ {"worker_id", "worker_boot"} \subseteq Names(Authority)
      /\ Names(c) = {"resource.id", "allocation"}
  BY <1>2, <1>3, AuthorityPair, NamesConcat DEF SchemaPair
<1> HIDE DEF a, b
<1>6. Reads("PUBLISH_ALLOCATION") \subseteq Names(a) \cup FooterNames
  BY <1>5 DEF Reads, FooterNames
<1>7. Reports("PUBLISH_ALLOCATION") \subseteq Names(a) \cup FooterNames
  BY <1>5 DEF Reports, FooterNames
<1> QED BY <1>1, <1>4, <1>6, <1>7, AgreedBy

(* The case INVALIDATE_ALLOCATION of the two switches.                     *)
LEMMA InvalidateAgreed == Agreed("INVALIDATE_ALLOCATION")
<1> DEFINE a == Authority \o Words(<<"allocation_id", "new_generation">>)
           b == Authority \o Words(<<"allocation_id", "new_generation">>)
<1>1. /\ PutFields("INVALIDATE_ALLOCATION") = a \o Footer
      /\ GetFields("INVALIDATE_ALLOCATION") = b \o Footer
  BY FooterPair DEF PutFields, GetFields, Footer
<1> DEFINE w == Words(<<"allocation_id", "new_generation">>)
<1>2. SchemaPair(w, w) /\ Names(w) = {"allocation_id", "new_generation"}
  BY InvalidateWords, RecordIsSchema, Zenon
<1>3. a = Authority \o w /\ b = Authority \o w
  OBVIOUS
<1> HIDE DEF w
<1>4. SchemaPair(a, b)
  BY <1>2, <1>3, AuthorityPair, SchemaPairConcat
<1>5. /\ Names(a) = Names(Authority) \cup Names(w)
      /\ {"worker_id", "worker_boot"} \subseteq Names(Authority)
      /\ Names(w) = {"allocation_id", "new_generation"}
  BY <1>2, <1>3, AuthorityPair, NamesConcat DEF SchemaPair
<1> HIDE DEF a, b
<1>6. Reads("INVALIDATE_ALLOCATION") \subseteq Names(a) \cup FooterNames
  BY <1>5 DEF Reads, FooterNames
<1>7. Reports("INVALIDATE_ALLOCATION") \subseteq Names(a) \cup FooterNames
  BY <1>5 DEF Reports, FooterNames
<1> QED BY <1>1, <1>4, <1>6, <1>7, AgreedBy

(* The case QUERY_FIT of the two switches.                                 *)
LEMMA QueryFitAgreed == Agreed("QUERY_FIT")
<1> DEFINE a == Words(<<"epoch">>) \o PutDemand
           b == Words(<<"epoch">>) \o GetDemand
<1>1. PutFields("QUERY_FIT") = a \o Footer /\ GetFields("QUERY_FIT") = b \o Footer
  BY FooterPair DEF PutFields, GetFields, Footer
<1> DEFINE w == Words(<<"epoch">>)
<1>2. SchemaPair(w, w) /\ SchemaPair(PutDemand, GetDemand)
  BY QueryWords, DemandPair, RecordIsSchema, Zenon
<1>3. a = w \o PutDemand /\ b = w \o GetDemand
  OBVIOUS
<1> HIDE DEF w
<1>4. SchemaPair(a, b)
  BY <1>2, <1>3, SchemaPairConcat
<1>5. /\ Names(a) = Names(w) \cup Names(PutDemand)
      /\ {"demand.accelerator_count", "demand.per_device_memory",
          "demand.aggregate_memory", "demand.topology_group",
          "demand.reservation_duration"} \subseteq Names(PutDemand)
  BY <1>2, <1>3, DemandPair, NamesConcat DEF SchemaPair
<1> HIDE DEF a, b
<1>6. Reads("QUERY_FIT") \subseteq Names(a) \cup FooterNames
  BY <1>5 DEF Reads, FooterNames
<1>7. Reports("QUERY_FIT") \subseteq Names(a) \cup FooterNames
  BY <1>5 DEF Reports, FooterNames
<1> QED BY <1>1, <1>4, <1>6, <1>7, AgreedBy

(* The case CREATE_PLAN of the two switches.                               *)
LEMMA CreatePlanAgreed == Agreed("CREATE_PLAN")
<1> DEFINE a == Words(<<"epoch", "policy_gen">>) \o PutDemand
           b == Words(<<"epoch", "policy_gen">>) \o GetDemand
<1>1. PutFields("CREATE_PLAN") = a \o Footer /\ GetFields("CREATE_PLAN") = b \o Footer
  BY FooterPair DEF PutFields, GetFields, Footer
<1> DEFINE w == Words(<<"epoch", "policy_gen">>)
<1>2. SchemaPair(w, w) /\ SchemaPair(PutDemand, GetDemand)
  BY CreateWords, DemandPair, RecordIsSchema, Zenon
<1>3. a = w \o PutDemand /\ b = w \o GetDemand
  OBVIOUS
<1> HIDE DEF w
<1>4. SchemaPair(a, b)
  BY <1>2, <1>3, SchemaPairConcat
<1>5. /\ Names(a) = Names(w) \cup Names(PutDemand)
      /\ {"demand.accelerator_count", "demand.per_device_memory",
          "demand.aggregate_memory", "demand.topology_group",
          "demand.reservation_duration"} \subseteq Names(PutDemand)
  BY <1>2, <1>3, DemandPair, NamesConcat DEF SchemaPair
<1> HIDE DEF a, b
<1>6. Reads("CREATE_PLAN") \subseteq Names(a) \cup FooterNames
  BY <1>5 DEF Reads, FooterNames
<1>7. Reports("CREATE_PLAN") \subseteq Names(a) \cup FooterNames
  BY <1>5 DEF Reports, FooterNames
<1> QED BY <1>1, <1>4, <1>6, <1>7, AgreedBy

(* The case PLAN_RESULT of the two switches.                               *)
LEMMA PlanResultAgreed == Agreed("PLAN_RESULT")
<1> DEFINE a == PutPlan
           b == GetPlan
<1>1. PutFields("PLAN_RESULT") = a \o Footer /\ GetFields("PLAN_RESULT") = b \o Footer
  BY FooterPair DEF PutFields, GetFields, Footer
<1>2. SchemaPair(a, b)
  BY PlanPair
<1>3. {"plan.id", "plan.generation", "plan.actions", "plan.state"} \subseteq Names(a)
  BY PlanPair
<1> HIDE DEF a, b
<1>4. Reads("PLAN_RESULT") \subseteq Names(a) \cup FooterNames
  BY <1>3 DEF Reads, FooterNames
<1>5. Reports("PLAN_RESULT") \subseteq Names(a) \cup FooterNames
  BY <1>3 DEF Reports, FooterNames
<1> QED BY <1>1, <1>2, <1>4, <1>5, AgreedBy

(* The case QUERY_FRAGMENTATION of the two switches.                       *)
LEMMA QueryFragmentationAgreed == Agreed("QUERY_FRAGMENTATION")
<1> DEFINE a == Words(<<"epoch">>)
           b == Words(<<"epoch">>)
<1>1. /\ PutFields("QUERY_FRAGMENTATION") = a \o Footer
      /\ GetFields("QUERY_FRAGMENTATION") = b \o Footer
  BY FooterPair DEF PutFields, GetFields, Footer
<1>2. SchemaPair(a, b)
  BY QueryWords, RecordIsSchema, Zenon
<1>3. Names(a) = {"epoch"}
  BY QueryWords, Zenon
<1> HIDE DEF a, b
<1>4. Reads("QUERY_FRAGMENTATION") \subseteq Names(a) \cup FooterNames
  BY <1>3 DEF Reads, FooterNames
<1>5. Reports("QUERY_FRAGMENTATION") \subseteq Names(a) \cup FooterNames
  BY <1>3 DEF Reports, FooterNames
<1> QED BY <1>1, <1>2, <1>4, <1>5, AgreedBy

(* The case APPROVE_PLAN of the two switches.                              *)
LEMMA ApprovePlanAgreed == Agreed("APPROVE_PLAN")
<1> DEFINE a == Words(<<"plan_id", "plan_gen", "policy_gen">>)
           b == Words(<<"plan_id", "plan_gen", "policy_gen">>)
<1>1. PutFields("APPROVE_PLAN") = a \o Footer /\ GetFields("APPROVE_PLAN") = b \o Footer
  BY FooterPair DEF PutFields, GetFields, Footer
<1>2. SchemaPair(a, b)
  BY ApproveWords, RecordIsSchema, Zenon
<1>3. Names(a) = {"plan_id", "plan_gen", "policy_gen"}
  BY ApproveWords, Zenon
<1> HIDE DEF a, b
<1>4. Reads("APPROVE_PLAN") \subseteq Names(a) \cup FooterNames
  BY <1>3 DEF Reads, FooterNames
<1>5. Reports("APPROVE_PLAN") \subseteq Names(a) \cup FooterNames
  BY <1>3 DEF Reports, FooterNames
<1> QED BY <1>1, <1>2, <1>4, <1>5, AgreedBy

(* The case BEGIN_ACTION of the two switches.                              *)
LEMMA BeginActionAgreed == Agreed("BEGIN_ACTION")
<1> DEFINE a == Words(<<"plan_id", "plan_gen", "action_index", "epoch", "policy_gen">>)
           b == Words(<<"plan_id", "plan_gen", "action_index", "epoch", "policy_gen">>)
<1>1. PutFields("BEGIN_ACTION") = a \o Footer /\ GetFields("BEGIN_ACTION") = b \o Footer
  BY FooterPair DEF PutFields, GetFields, Footer
<1>2. SchemaPair(a, b)
  BY BeginWords, RecordIsSchema, Zenon
<1>3. Names(a) = {"plan_id", "plan_gen", "action_index", "epoch", "policy_gen"}
  BY BeginWords, Zenon
<1> HIDE DEF a, b
<1>4. Reads("BEGIN_ACTION") \subseteq Names(a) \cup FooterNames
  BY <1>3 DEF Reads, FooterNames
<1>5. Reports("BEGIN_ACTION") \subseteq Names(a) \cup FooterNames
  BY <1>3 DEF Reports, FooterNames
<1> QED BY <1>1, <1>2, <1>4, <1>5, AgreedBy

(* The case ACTION_COMPLETE of the two switches.                           *)
LEMMA ActionCompleteAgreed == Agreed("ACTION_COMPLETE")
<1> DEFINE a == Words(<<"plan_id", "action_index", "action_ok", "new_generation">>)
           b == Words(<<"plan_id", "action_index", "action_ok", "new_generation">>)
<1>1. PutFields("ACTION_COMPLETE") = a \o Footer /\ GetFields("ACTION_COMPLETE") = b \o Footer
  BY FooterPair DEF PutFields, GetFields, Footer
<1>2. SchemaPair(a, b)
  BY CompleteWords, RecordIsSchema, Zenon
<1>3. Names(a) = {"plan_id", "action_index", "action_ok", "new_generation"}
  BY CompleteWords, Zenon
<1> HIDE DEF a, b
<1>4. Reads("ACTION_COMPLETE") \subseteq Names(a) \cup FooterNames
  BY <1>3 DEF Reads, FooterNames
<1>5. Reports("ACTION_COMPLETE") \subseteq Names(a) \cup FooterNames
  BY <1>3 DEF Reports, FooterNames
<1> QED BY <1>1, <1>2, <1>4, <1>5, AgreedBy

(* The case VERIFY of the two switches.                                    *)
LEMMA VerifyAgreed == Agreed("VERIFY")
<1> DEFINE a == Words(<<"plan_id", "plan_gen">>)
           b == Words(<<"plan_id", "plan_gen">>)
<1>1. PutFields("VERIFY") = a \o Footer /\ GetFields("VERIFY") = b \o Footer
  BY FooterPair DEF PutFields, GetFields, Footer
<1>2. SchemaPair(a, b)
  BY PlanWords, RecordIsSchema, Zenon
<1>3. Names(a) = {"plan_id", "plan_gen"}
  BY PlanWords, Zenon
<1> HIDE DEF a, b
<1>4. Reads("VERIFY") \subseteq Names(a) \cup FooterNames
  BY <1>3 DEF Reads, FooterNames
<1>5. Reports("VERIFY") \subseteq Names(a) \cup FooterNames
  BY <1>3 DEF Reports, FooterNames
<1> QED BY <1>1, <1>2, <1>4, <1>5, AgreedBy

(* The case CANCEL_PLAN of the two switches.                               *)
LEMMA CancelPlanAgreed == Agreed("CANCEL_PLAN")
<1> DEFINE a == Words(<<"plan_id", "plan_gen">>)
           b == Words(<<"plan_id", "plan_gen">>)
<1>1. PutFields("CANCEL_PLAN") = a \o Footer /\ GetFields("CANCEL_PLAN") = b \o Footer
  BY FooterPair DEF PutFields, GetFields, Footer
<1>2. SchemaPair(a, b)
  BY PlanWords, RecordIsSchema, Zenon
<1>3. Names(a) = {"plan_id", "plan_gen"}
  BY PlanWords, Zenon
<1> HIDE DEF a, b
<1>4. Reads("CANCEL_PLAN") \subseteq Names(a) \cup FooterNames
  BY <1>3 DEF Reads, FooterNames
<1>5. Reports("CANCEL_PLAN") \subseteq Names(a) \cup FooterNames
  BY <1>3 DEF Reports, FooterNames
<1> QED BY <1>1, <1>2, <1>4, <1>5, AgreedBy

(* The case REVALIDATE of the two switches.                                *)
LEMMA RevalidateAgreed == Agreed("REVALIDATE")
<1> DEFINE a == Words(<<"plan_id", "plan_gen">>)
           b == Words(<<"plan_id", "plan_gen">>)
<1>1. PutFields("REVALIDATE") = a \o Footer /\ GetFields("REVALIDATE") = b \o Footer
  BY FooterPair DEF PutFields, GetFields, Footer
<1>2. SchemaPair(a, b)
  BY PlanWords, RecordIsSchema, Zenon
<1>3. Names(a) = {"plan_id", "plan_gen"}
  BY PlanWords, Zenon
<1> HIDE DEF a, b
<1>4. Reads("REVALIDATE") \subseteq Names(a) \cup FooterNames
  BY <1>3 DEF Reads, FooterNames
<1>5. Reports("REVALIDATE") \subseteq Names(a) \cup FooterNames
  BY <1>3 DEF Reports, FooterNames
<1> QED BY <1>1, <1>2, <1>4, <1>5, AgreedBy

(* The case ADVANCE_GENERATION of the two switches.                        *)
LEMMA AdvanceGenerationAgreed == Agreed("ADVANCE_GENERATION")
<1> DEFINE a == Words(<<"generation_kind", "gen_value">>)
           b == Words(<<"generation_kind", "gen_value">>)
<1>1. PutFields("ADVANCE_GENERATION") = a \o Footer /\ GetFields("ADVANCE_GENERATION") = b \o Footer
  BY FooterPair DEF PutFields, GetFields, Footer
<1>2. SchemaPair(a, b)
  BY AdvanceWords, RecordIsSchema, Zenon
<1>3. Names(a) = {"generation_kind", "gen_value"}
  BY AdvanceWords, Zenon
<1> HIDE DEF a, b
<1>4. Reads("ADVANCE_GENERATION") \subseteq Names(a) \cup FooterNames
  BY <1>3 DEF Reads, FooterNames
<1>5. Reports("ADVANCE_GENERATION") \subseteq Names(a) \cup FooterNames
  BY <1>3 DEF Reports, FooterNames
<1> QED BY <1>1, <1>2, <1>4, <1>5, AgreedBy

(* The case ERROR of the two switches.                                     *)
LEMMA ErrorAgreed == Agreed("ERROR")
<1> DEFINE a == <<Str("error")>>
           b == <<Str("error")>>
<1>1. PutFields("ERROR") = a \o Footer /\ GetFields("ERROR") = b \o Footer
  BY FooterPair DEF PutFields, GetFields, Footer
<1>2. ItemPair(Str("error"), Str("error"))
  <2>1. "error" \notin Lists
    BY DEF Lists, RecordLists, StringLists
  <2> QED BY <2>1, ListItems
<1>3. SchemaPair(a, b)
  BY <1>2, SchemaPairOf1
<1>4. "error" \in Names(a)
  BY <1>2, ItemNames, SchemaPairOf1
<1> HIDE DEF a, b
<1>5. Reads("ERROR") \subseteq Names(a) \cup FooterNames
  BY <1>4 DEF Reads, FooterNames
<1>6. Reports("ERROR") \subseteq Names(a) \cup FooterNames
  BY <1>4 DEF Reports, FooterNames
<1> QED BY <1>1, <1>3, <1>5, <1>6, AgreedBy

(* For every type of message the two switches agree.                       *)
LEMMA TypeNumbers ==
    /\ DOMAIN MsgType = 1 .. 20
    /\ \A t \in MsgTypes : \E i \in 1 .. 20 : MsgType[i] = t
<1>1. DOMAIN MsgType = 1 .. 20
  BY DEF MsgType
<1> QED BY <1>1, Zenon DEF MsgTypes, ToSet

(* Hence for every type the two switches agree.                            *)
LEMMA FieldsAgreed ==
    ASSUME NEW t \in MsgTypes
    PROVE  Agreed(t)
<1>1. PICK i \in 1 .. 20 : MsgType[i] = t
  BY TypeNumbers
<1>2. \/ i = 1 \/ i = 2 \/ i = 3 \/ i = 4 \/ i = 5 \/ i = 6 \/ i = 7 \/ i = 8 \/ i = 9
      \/ i = 10 \/ i = 11 \/ i = 12 \/ i = 13 \/ i = 14 \/ i = 15 \/ i = 16 \/ i = 17
      \/ i = 18 \/ i = 19 \/ i = 20
  OBVIOUS
<1>3. /\ MsgType[1] = "HELLO" /\ MsgType[2] = "REGISTER" /\ MsgType[3] = "PUBLISH_RESOURCE"
      /\ MsgType[4] = "PUBLISH_LAYOUT" /\ MsgType[5] = "PUBLISH_ALLOCATION"
      /\ MsgType[6] = "INVALIDATE_ALLOCATION" /\ MsgType[7] = "QUERY_FRAGMENTATION"
      /\ MsgType[8] = "QUERY_FIT" /\ MsgType[9] = "CREATE_PLAN"
      /\ MsgType[10] = "PLAN_RESULT" /\ MsgType[11] = "APPROVE_PLAN"
      /\ MsgType[12] = "BEGIN_ACTION" /\ MsgType[13] = "ACTION_COMPLETE"
      /\ MsgType[14] = "VERIFY" /\ MsgType[15] = "CANCEL_PLAN"
      /\ MsgType[16] = "ADVANCE_GENERATION" /\ MsgType[17] = "REVALIDATE"
      /\ MsgType[18] = "SAVE" /\ MsgType[19] = "SHUTDOWN" /\ MsgType[20] = "ERROR"
  BY DEF MsgType
<1> QED BY <1>1, <1>2, <1>3, HelloAgreed, SaveAgreed, ShutdownAgreed, RegisterAgreed,
           PublishResourceAgreed, PublishLayoutAgreed, PublishAllocationAgreed,
           InvalidateAgreed, QueryFitAgreed, CreatePlanAgreed, PlanResultAgreed,
           QueryFragmentationAgreed, ApprovePlanAgreed, BeginActionAgreed,
           ActionCompleteAgreed, VerifyAgreed, CancelPlanAgreed, RevalidateAgreed,
           AdvanceGenerationAgreed, ErrorAgreed

(* The domain of a sequence.                                               *)
LEMMA SequenceDomain ==
    ASSUME NEW s, IsSequence(s)
    PROVE  Len(s) \in Nat /\ DOMAIN s = 1 .. Len(s)
BY DEF IsSequence

(* Schemas that agree under the limits agree.                              *)
LEMMA PairAgrees ==
    ASSUME NEW ps, NEW gs, SchemaPair(ps, gs)
    PROVE  SchemaAgree(ps, gs)
<1>1. Len(ps) \in Nat /\ DOMAIN ps = 1 .. Len(ps) /\ Len(gs) = Len(ps)
  BY SequenceDomain DEF SchemaPair
<1>2. \A i \in 1 .. Len(ps) : ItemAgree(ps[i], gs[i])
  BY DEF SchemaPair, ItemPair
<1> QED BY <1>1, <1>2 DEF SchemaAgree

-----------------------------------------------------------------------------
(***************************************************************************)
(* A payload: read back as it was written, or refused.                     *)
(***************************************************************************)
Fits(m) == MessageFits(GetFields(m["type"]), m) /\ ElasticOrdered(m)

(* The word of a type stands for the type.                                 *)
LEMMA TypeWord ==
    ASSUME NEW t \in MsgTypes
    PROVE  LET k == (CHOOSE i \in DOMAIN MsgType : MsgType[i] = t) - 1
           IN  k \in Nat /\ ~(k > 19) /\ MsgType[k + 1] = t
<1> DEFINE j == CHOOSE i \in DOMAIN MsgType : MsgType[i] = t
<1>1. j \in 1 .. 20 /\ MsgType[j] = t
  BY TypeNumbers, Zenon
<1> HIDE DEF j
<1>2. j - 1 \in Nat /\ ~(j - 1 > 19) /\ (j - 1) + 1 = j
  BY <1>1
<1> QED BY <1>1, <1>2 DEF j

(* What decode_payload does behind the type.                               *)
LEMMA DecodeTyped ==
    ASSUME NEW k \in Nat, ~(k > 19), NEW a \in Text, NEW t, t = MsgType[k + 1]
    PROVE  LET st == GetMessage(GetFields(t), t, a)
           IN  DecodePayload(<<k>> \o a)
                  = IF st.ok /\ st.rest = <<>> /\ ElasticOrdered(st.rec)
                    THEN <<st.rec>> ELSE NoMsg
<1> DEFINE ws == <<k>> \o a
<1>1. <<k>> \o a \in Text /\ (<<k>> \o a) \o <<>> = ws /\ a \o <<>> = a
  BY WordsAreText, TextConcat, TextEmpty
<1>2. ws # <<>> /\ Head(ws) = k /\ Tail(ws) = a
  <2> DEFINE e == <<>>
             x == (<<k>> \o a) \o e
  <2>1. e \in Text
    BY TextEmpty
  <2> HIDE DEF e
  <2>2. x # <<>> /\ Head(x) = k /\ Tail(x) = a \o e
    BY <2>1, CountFirst, Zenon
  <2>3. x = ws /\ a \o e = a
    BY <1>1, Zenon DEF e
  <2> HIDE DEF x, ws
  <2> QED BY <2>2, <2>3, Zenon
<1> HIDE DEF ws
<1>3. ~(ws = <<>> \/ Head(ws) > 19)
  BY <1>2
<1> QED BY <1>2, <1>3, Zenon DEF ws, DecodePayload

(* decode_payload inverts encode_payload, or refuses the payload.          *)
LEMMA PayloadRead ==
    ASSUME NEW m, IsMessage(m)
    PROVE  /\ EncodePayload(m) \in Text
           /\ Fits(m) => DecodePayload(EncodePayload(m)) = <<m>>
           /\ ~Fits(m) => DecodePayload(EncodePayload(m)) = NoMsg
<1> DEFINE t == m["type"]
           ps == PutFields(t)
           gs == GetFields(t)
           k == (CHOOSE i \in DOMAIN MsgType : MsgType[i] = t) - 1
           a == PutMessage(ps, m)
           st == GetMessage(gs, t, a)
<1>1. t \in MsgTypes /\ m = Part(m, Names(ps) \cup {"type"}) /\ Values(ps, m)
  BY Zenon DEF IsMessage, Part, Values
<1>2. SchemaAgree(ps, gs)
  BY <1>1, FieldsAgreed, PairAgrees DEF Agreed
<1>3. k \in Nat /\ ~(k > 19) /\ t = MsgType[k + 1]
  BY <1>1, TypeWord, Zenon
<1>4. EncodePayload(m) = <<k>> \o a
  BY Zenon DEF EncodePayload, PutMessage
<1>5. /\ a \in Text
      /\ MessageFits(gs, m) => st = Parsed(<<>>, m)
      /\ ~MessageFits(gs, m) => Failed(st)
  BY <1>1, <1>2, MessageRead, Zenon
<1> HIDE DEF t, ps, k, a
<1>6. EncodePayload(m) \in Text
  BY <1>3, <1>4, <1>5, WordsAreText, TextConcat
<1>7. DecodePayload(EncodePayload(m))
         = IF st.ok /\ st.rest = <<>> /\ ElasticOrdered(st.rec) THEN <<st.rec>> ELSE NoMsg
  BY <1>3, <1>4, <1>5, DecodeTyped, Zenon
<1> HIDE DEF st, gs
<1>8. CASE MessageFits(gs, m)
  <2>1. st.ok = TRUE /\ st.rest = <<>> /\ st.rec = m
    BY <1>5, <1>8 DEF Parsed
  <2>2. Fits(m) <=> ElasticOrdered(m)
    BY <1>8, Zenon DEF Fits, gs, t
  <2> QED BY <1>6, <1>7, <2>1, <2>2, Zenon
<1>9. CASE ~MessageFits(gs, m)
  <2>1. ~st.ok
    BY <1>5, <1>9 DEF Failed
  <2>2. ~Fits(m)
    BY <1>9, Zenon DEF Fits, gs, t
  <2> QED BY <1>6, <1>7, <2>1, <2>2, Zenon
<1> QED BY <1>8, <1>9

-----------------------------------------------------------------------------
(***************************************************************************)
(* A frame.                                                                *)
(***************************************************************************)
FrameOf(w, p) ==
    /\ p \in Text /\ w \in Text /\ Len(p) \in Nat /\ Len(w) = Len(p) + Overhead
    /\ w[1] = Magic /\ w[2] = Version /\ w[3] = Len(p)
    /\ w[Len(w)] = Crc(SubSeq(w, 1, Len(w) - 1)) /\ SubSeq(w, 4, Len(w) - 1) = p

(* A header of three words, a payload and a last word.                     *)
LEMMA Framed ==
    ASSUME NEW S, NEW p \in Seq(S), NEW x \in S, NEW y \in S, NEW n \in S, NEW c \in S
    PROVE  LET b == <<x, y, n>> \o p
               w == Append(b, c)
           IN  /\ w \in Seq(S) /\ Len(p) \in Nat /\ Len(w) = Len(p) + 4
               /\ w[1] = x /\ w[2] = y /\ w[3] = n /\ w[Len(w)] = c
               /\ SubSeq(w, 1, Len(w) - 1) = b /\ SubSeq(w, 4, Len(w) - 1) = p
<1> DEFINE h == <<x, y, n>>
           b == h \o p
           w == Append(b, c)
<1>1. h \in Seq(S) /\ Len(h) = 3 /\ h[1] = x /\ h[2] = y /\ h[3] = n
  OBVIOUS
<1> HIDE DEF h
<1>2. /\ b \in Seq(S) /\ Len(p) \in Nat /\ Len(b) = Len(p) + 3
      /\ b[1] = x /\ b[2] = y /\ b[3] = n
  <2>1. Len(p) \in Nat
    OBVIOUS
  <2>2. /\ b \in Seq(S) /\ Len(b) = Len(h) + Len(p)
        /\ \A i \in 1 .. Len(h) + Len(p) : b[i] = IF i <= Len(h) THEN h[i] ELSE p[i - Len(h)]
    BY <1>1, ConcatProperties, Zenon
  <2> HIDE DEF b
  <2>3. \A i \in 1 .. 3 : b[i] = h[i]
    BY <1>1, <2>1, <2>2
  <2> QED BY <1>1, <2>1, <2>2, <2>3
<1>3. SubSeq(b, 4, Len(b)) = p
  <2>1. \A i \in 1 .. Len(h) + Len(p) : b[i] = IF i <= Len(h) THEN h[i] ELSE p[i - Len(h)]
    BY <1>1, ConcatProperties, Zenon
  <2> HIDE DEF b
  <2>2. \A i \in 4 .. Len(b) : b[i] = p[i - 3]
    BY <1>1, <1>2, <2>1
  <2> DEFINE u == SubSeq(b, 4, Len(b))
  <2>3. u \in Seq(S) /\ Len(u) = Len(p)
    BY <1>2
  <2>4. \A i \in 1 .. Len(p) : u[i] = p[i]
    BY <1>2, <2>2
  <2> HIDE DEF u
  <2>5. u = p
    BY <2>3, <2>4, SeqEqual
  <2> QED BY <2>5 DEF u
<1> HIDE DEF b
<1>4. w \in Seq(S) /\ Len(w) = Len(b) + 1 /\ w[Len(b) + 1] = c
  BY <1>2
<1>5. w[1] = x /\ w[2] = y /\ w[3] = n
  BY <1>2
<1>6. SubSeq(w, 1, Len(b)) = b
  <2>1. /\ SubSeq(w, 1, Len(b)) \in Seq(S) /\ Len(SubSeq(w, 1, Len(b))) = Len(b)
        /\ \A i \in 1 .. Len(b) : SubSeq(w, 1, Len(b))[i] = b[i]
    BY <1>2
  <2> HIDE DEF w
  <2> QED BY <1>2, <2>1, SeqEqual
<1>7. SubSeq(w, 4, Len(b)) = SubSeq(b, 4, Len(b))
  <2> DEFINE u == SubSeq(w, 4, Len(b))
             v == SubSeq(b, 4, Len(b))
  <2>1. u \in Seq(S) /\ Len(u) = Len(b) - 3
    BY <1>2
  <2>2. v \in Seq(S) /\ Len(v) = Len(b) - 3
    BY <1>2
  <2>3. \A i \in 1 .. (Len(b) - 3) : u[i] = w[i + 3] /\ v[i] = b[i + 3]
    BY <1>2, <1>4
  <2>4. \A i \in 1 .. (Len(b) - 3) : w[i + 3] = b[i + 3]
    BY <1>2
  <2> HIDE DEF u, v, w
  <2>5. u = v
    BY <2>1, <2>2, <2>3, <2>4, SeqEqual
  <2> QED BY <2>5 DEF u, v
<1>8. Len(w) - 1 = Len(b) /\ Len(w) = Len(p) + 4
  BY <1>2, <1>4
<1> HIDE DEF w
<1>9. /\ w \in Seq(S) /\ Len(p) \in Nat /\ Len(w) = Len(p) + 4
      /\ w[1] = x /\ w[2] = y /\ w[3] = n /\ w[Len(w)] = c
      /\ SubSeq(w, 1, Len(w) - 1) = b /\ SubSeq(w, 4, Len(w) - 1) = p
  BY <1>2, <1>3, <1>4, <1>5, <1>6, <1>7, <1>8
<1> QED BY <1>9 DEF w, b, h

(* frame_encode makes a frame of the payload.                              *)
LEMMA FrameWritten ==
    ASSUME NEW m \in Messages
    PROVE  FrameOf(FrameEncode(m), EncodePayload(m))
<1> DEFINE p == EncodePayload(m)
           b == <<Magic, Version, Len(p)>> \o p
           c == Crc(b)
           w == Append(b, c)
<1>1. p \in Text
  BY MessageAssumption, PayloadRead
<1>2. Len(p) \in Nat
  BY <1>1, TextLen
<1>3. c \in Symbol
  BY DEF Symbol, Body
<1>4. FrameEncode(m) = w
  BY DEF FrameEncode
<1>5. Magic \in Symbol /\ Version \in Symbol /\ Len(p) \in Symbol
  BY <1>2, WordsAreText DEF Magic, Version
<1> HIDE DEF p, c
<1>6. /\ w \in Seq(Symbol) /\ Len(w) = Len(p) + 4
      /\ w[1] = Magic /\ w[2] = Version /\ w[3] = Len(p) /\ w[Len(w)] = c
      /\ SubSeq(w, 1, Len(w) - 1) = b /\ SubSeq(w, 4, Len(w) - 1) = p
  <2>1. p \in Seq(Symbol)
    BY <1>1 DEF Text
  <2> DEFINE n == Len(p)
  <2>2. n \in Symbol
    BY <1>5
  <2> HIDE DEF n
  <2>3. Magic \in Symbol /\ Version \in Symbol
    BY <1>5
  <2>4. LET b0 == <<Magic, Version, n>> \o p
            w0 == Append(b0, c)
        IN  /\ w0 \in Seq(Symbol) /\ Len(w0) = Len(p) + 4
            /\ w0[1] = Magic /\ w0[2] = Version /\ w0[3] = n /\ w0[Len(w0)] = c
            /\ SubSeq(w0, 1, Len(w0) - 1) = b0 /\ SubSeq(w0, 4, Len(w0) - 1) = p
    BY <1>3, <2>1, <2>2, <2>3, Framed
  <2> QED BY <2>4 DEF n
<1>7. c = Crc(b)
  BY DEF c
<1> HIDE DEF w, b
<1>8. w[Len(w)] = Crc(SubSeq(w, 1, Len(w) - 1))
  BY <1>6, <1>7, Zenon
<1>9. FrameOf(w, p)
  BY <1>1, <1>2, <1>6, <1>8, Zenon DEF FrameOf, Overhead, Text
<1> QED BY <1>4, <1>9, Zenon DEF p

(* frame_decode gets the payload of a frame back.                          *)
LEMMA FrameRead ==
    ASSUME NEW w, NEW p, FrameOf(w, p), ~(Len(p) > MaxPayload)
    PROVE  FrameDecode(w) = DecodePayload(p)
<1> DEFINE n == Len(w)
<1>1. Len(p) \in Nat /\ n = Len(p) + 4
  BY DEF FrameOf, Overhead
<1>2. n >= Overhead
  BY <1>1 DEF Overhead
<1>3. w[3] <= MaxPayload
  BY <1>1, LimitAssumption DEF FrameOf
<1>4. /\ w[1] = Magic /\ w[2] = Version /\ n = w[3] + Overhead
      /\ w[n] = Crc(SubSeq(w, 1, n - 1)) /\ SubSeq(w, 4, n - 1) = p
  BY Zenon DEF FrameOf
<1> HIDE DEF n
<1> QED BY <1>2, <1>3, <1>4, Zenon DEF FrameDecode, n

-----------------------------------------------------------------------------
(***************************************************************************)
(* The limits are exactly what the decoder demands of a payload that is    *)
(* not too long.                                                           *)
(***************************************************************************)
LengthKept(f, v) ==
    /\ f \in RecordLists => Len(v) <= MaxRecords
    /\ f \in StringLists => Len(v) <= MaxStrings

ValueShort(f, v) ==
    /\ LengthKept(f, v)
    /\ f \in {"allocations", "plan.actions"} => \A i \in 1 .. Len(v) : ListsShort(v[i])

(* The bounds of the lists.                                                *)
LEMMA ListBound ==
    ASSUME NEW f, NEW v
    PROVE  /\ f \in Lists => (LengthKept(f, v) <=> Len(v) <= Bound(f))
           /\ f \notin Lists => LengthKept(f, v) /\ Bound(f) = MaxPayload
<1>1. RecordLists \cap StringLists = {}
  BY DEF RecordLists, StringLists
<1> QED BY <1>1 DEF Lists, LengthKept, Bound

(* A field fits if its length keeps the limits.                            *)
LEMMA FieldShort ==
    ASSUME NEW p, NEW g, FieldPair(p, g), NEW v
    PROVE  FieldFits(g, v) <=> LengthKept(g.f, v)
<1>1. CASE g.kind = "LIST"
  <2>1. g.f \in Lists /\ g.max = Bound(g.f)
    BY <1>1 DEF FieldPair, Limited
  <2> QED BY <1>1, <2>1, ListBound DEF FieldFits
<1>2. CASE g.kind # "LIST"
  <2>1. g.kind # "RECORDS"
    BY DEF FieldPair, FieldAgree, FieldKinds
  <2>2. g.f \notin Lists
    BY <1>2, <2>1 DEF FieldPair, Limited
  <2> QED BY <1>2, <2>2, ListBound DEF FieldFits
<1> QED BY <1>1, <1>2

(* Writer and reader use the same names.                                   *)
LEMMA NamedFields ==
    ASSUME NEW ps, NEW gs, Len(gs) = Len(ps), IsSequence(ps),
           \A i \in 1 .. Len(ps) : ps[i].f = gs[i].f
    PROVE  Names(ps) = {gs[i].f : i \in 1 .. Len(gs)}
<1>1. DOMAIN ps = 1 .. Len(ps)
  BY SequenceDomain
<1> QED BY <1>1 DEF Names

(* A structure fits if its lists keep the limits.                          *)
LEMMA RecordShort ==
    ASSUME NEW ps, NEW gs, RecordPair(ps, gs), NEW rec, RecordValue(ps, rec)
    PROVE  RecordFits(gs, rec) <=> ListsShort(rec)
<1>1. \A i \in 1 .. Len(ps) : ps[i].f = gs[i].f
  BY DEF RecordPair, FieldPair, FieldAgree
<1>2. Names(ps) = {gs[i].f : i \in 1 .. Len(gs)}
  BY <1>1, NamedFields DEF RecordPair
<1>3. DOMAIN rec = Names(ps)
  <2>1. rec = [f \in Names(ps) |-> rec[f]]
    BY DEF RecordValue
  <2> QED BY <2>1, Zenon
<1>4. ListsShort(rec) <=> \A f \in Names(ps) : LengthKept(f, rec[f])
  BY <1>3 DEF ListsShort, LengthKept
<1>5. \A i \in 1 .. Len(gs) : FieldFits(gs[i], rec[gs[i].f]) <=> LengthKept(gs[i].f, rec[gs[i].f])
  BY FieldShort DEF RecordPair
<1> QED BY <1>2, <1>4, <1>5, Zenon DEF RecordFits

(* An item of a payload that is not too long fits if it keeps the          *)
(* limits.                                                                 *)
LEMMA ItemShortEnough ==
    ASSUME NEW p, NEW g, ItemPair(p, g), NEW v, ItemValue(p, v),
           Len(PutItem(p, v)) <= MaxPayload
    PROVE  ItemFits(g, v) <=> ValueShort(g.f, v)
<1>1. p.kind = g.kind /\ p.f = g.f /\ Limited(g)
  BY DEF ItemPair, ItemAgree
<1>2. CASE FieldAgree(p, g) /\ g.kind # "LIST"
  <2>1. g.kind # "RECORDS" /\ g.kind # "RECORD"
    BY <1>2 DEF FieldAgree, FieldKinds
  <2>2. g.f \notin Lists /\ g.f \notin {"allocations", "plan.actions"}
    BY <1>1, <1>2, <2>1 DEF Limited
  <2>3. ItemFits(g, v)
    BY <1>2, <2>1 DEF ItemFits, FieldFits
  <2> QED BY <2>2, <2>3, ListBound DEF ValueShort
<1>3. CASE g.kind = "LIST"
  <2>1. g.f \notin {"allocations", "plan.actions"} /\ g.max = Bound(g.f)
    BY <1>1, <1>3 DEF Limited
  <2>2. ItemFits(g, v) <=> Len(v) <= Bound(g.f)
    BY <1>3, <2>1 DEF ItemFits, FieldFits
  <2>3. v \in Seq(Nat) /\ PutItem(p, v) = <<Len(v)>> \o v
    BY <1>1, <1>3 DEF ItemValue, FieldValue, PutItem, PutField
  <2>4. Len(v) \in Nat /\ Len(<<Len(v)>> \o v) = 1 + Len(v)
    BY <2>3
  <2>5. Len(v) <= MaxPayload
    BY <2>3, <2>4, LimitAssumption
  <2> QED BY <2>1, <2>2, <2>5, ListBound DEF ValueShort
<1>4. CASE g.kind = "RECORD"
  <2>1. g.f \notin Lists /\ g.f \notin {"allocations", "plan.actions"}
    BY <1>1, <1>4 DEF Limited
  <2>2. RecordPair(p.of, g.of) /\ Names(p.of) \cap Lists = {}
    BY <1>4 DEF ItemPair
  <2> DEFINE ps == p.of
             gs == g.of
  <2> HIDE DEF ps, gs
  <2>3. RecordPair(ps, gs) /\ Names(ps) \cap Lists = {}
    BY <2>2 DEF ps, gs
  <2>4. Names(ps) = {gs[i].f : i \in 1 .. Len(gs)}
    BY <2>3, NamedFields DEF RecordPair, FieldPair, FieldAgree
  <2>5. ASSUME NEW i \in 1 .. Len(gs) PROVE FieldFits(gs[i], v[gs[i].f])
    <3>1. FieldPair(ps[i], gs[i]) /\ gs[i].f \notin Lists
      BY <2>3, <2>4 DEF RecordPair
    <3> QED BY <3>1 DEF FieldPair, FieldFits
  <2>6. ItemFits(g, v)
    BY <1>4, <2>5 DEF ItemFits, RecordFits, gs
  <2> QED BY <2>1, <2>6, ListBound DEF ValueShort
<1>5. CASE g.kind = "RECORDS"
  <2>1. g.f \in {"allocations", "plan.actions"} /\ g.max = Bound(g.f)
    BY <1>1, <1>5 DEF Limited
  <2>2. g.f \in Lists
    BY <2>1 DEF Lists, RecordLists
  <2>3. RecordPair(p.of, g.of) /\ \A i \in 1 .. Len(v) : RecordValue(p.of, v[i])
    BY <1>1, <1>5 DEF ItemPair, ItemValue
  <2>4. \A i \in 1 .. Len(v) : RecordFits(g.of, v[i]) <=> ListsShort(v[i])
    BY <2>3, RecordShort
  <2>5. ItemFits(g, v) <=> Len(v) <= Bound(g.f) /\ \A i \in 1 .. Len(v) : ListsShort(v[i])
    BY <1>5, <2>1, <2>4 DEF ItemFits, RecordsFit
  <2> QED BY <2>1, <2>2, <2>5, ListBound DEF ValueShort
<1> QED BY <1>2, <1>3, <1>4, <1>5 DEF ItemPair, ItemAgree

(* A message that is not too long fits if it keeps the limits.             *)
LEMMA LimitsFit ==
    ASSUME NEW m \in Messages, ~TooLong(m)
    PROVE  WithinLimits(m) <=> Fits(m)
<1> DEFINE t == m["type"]
           ps == PutFields(t)
           gs == GetFields(t)
           k == (CHOOSE i \in DOMAIN MsgType : MsgType[i] = t) - 1
           a == PutMessage(ps, m)
           F == {"allocations", "plan.actions"}
<1>1. IsMessage(m)
  BY MessageAssumption
<1>2. t \in MsgTypes /\ m = Part(m, Names(ps) \cup {"type"}) /\ Values(ps, m)
  BY <1>1, Zenon DEF IsMessage, Part, Values
<1>3. SchemaPair(ps, gs)
  BY <1>2, FieldsAgreed DEF Agreed
<1>4. SchemaAgree(ps, gs)
  BY <1>3, PairAgrees
<1>5. a \in Text /\ k \in Nat
  BY <1>2, <1>4, MessageRead, TypeWord, Zenon
<1>6. EncodePayload(m) = <<k>> \o a
  BY Zenon DEF EncodePayload, PutMessage
<1>7. Wire[m][3] = Len(EncodePayload(m))
  <2>1. Wire[m] = FrameEncode(m)
    BY DEF Wire
  <2>2. FrameOf(FrameEncode(m), EncodePayload(m))
    BY FrameWritten
  <2> QED BY <2>1, <2>2, Zenon DEF FrameOf
<1>8. DOMAIN m = Names(ps) \cup {"type"}
  BY <1>2, Zenon DEF Part
<1> HIDE DEF ps, gs, k, a, t
<1>9. Len(a) <= MaxPayload
  <2>1. Len(<<k>> \o a) = Len(<<k>>) + Len(a) /\ Len(<<k>>) = 1 /\ Len(a) \in Nat
    BY <1>5, WordsAreText, TextConcat, TextLen
  <2>2. ~(Len(<<k>> \o a) > MaxPayload)
    BY <1>6, <1>7 DEF TooLong
  <2> QED BY <2>1, <2>2, LimitAssumption
<1>10. /\ Len(gs) = Len(ps) /\ Len(ps) \in Nat /\ DOMAIN ps = 1 .. Len(ps)
       /\ \A i \in 1 .. Len(ps) : ItemPair(ps[i], gs[i]) /\ ps[i].f = gs[i].f
  BY <1>3, SequenceDomain DEF SchemaPair, ItemPair, ItemAgree
<1>11. ASSUME NEW i \in 1 .. Len(ps)
       PROVE  ItemFits(gs[i], m[gs[i].f]) <=> ValueShort(gs[i].f, m[gs[i].f])
  <2> DEFINE p == ps[i]
             g == gs[i]
             v == m[p.f]
  <2>1. ItemPair(p, g) /\ p.f = g.f /\ ItemValue(p, v)
    BY <1>2, <1>10 DEF Values
  <2>2. Len(PutItem(p, v)) <= Len(a)
    BY <1>2, <1>4, ItemShort DEF a
  <2>3. Len(PutItem(p, v)) \in Nat /\ Len(a) \in Nat
    <3> HIDE DEF p, g, v
    <3>1. PutItem(p, v) \in Text
      BY <2>1, TextEmpty, ItemRead DEF ItemPair
    <3> QED BY <1>5, <3>1, TextLen
  <2> HIDE DEF p, g, v
  <2>4. Len(PutItem(p, v)) <= MaxPayload
    BY <1>9, <2>2, <2>3, LimitAssumption
  <2>5. ItemFits(g, v) <=> ValueShort(g.f, v)
    BY <2>1, <2>4, ItemShortEnough
  <2> QED BY <2>1, <2>5, Zenon DEF g, v
<1>12. Names(ps) = {gs[i].f : i \in 1 .. Len(gs)}
  BY <1>3, <1>10, NamedFields DEF SchemaPair
<1>13. MessageFits(gs, m) <=> \A f \in Names(ps) : ValueShort(f, m[f])
  BY <1>10, <1>11, <1>12, Zenon DEF MessageFits
<1>14. ValueShort("type", m["type"])
  BY DEF ValueShort, LengthKept, RecordLists, StringLists
<1>15. (\A f \in DOMAIN m : ValueShort(f, m[f]))
          <=> /\ ListsShort(m)
              /\ \A f \in DOMAIN m \cap F : \A i \in 1 .. Len(m[f]) : ListsShort(m[f][i])
  BY Zenon DEF ValueShort, LengthKept, ListsShort
<1>16. MessageFits(gs, m) <=> \A f \in DOMAIN m : ValueShort(f, m[f])
  BY <1>8, <1>13, <1>14, Zenon
<1> QED BY <1>15, <1>16, Zenon DEF WithinLimits, Fits, gs, t

(***************************************************************************)
(* The round trip.  Whatever its type and its values, a message that is    *)
(* not longer than protocol_max_payload is decoded from its frame to       *)
(* itself if it keeps the limits a sender has to keep, and refused if it   *)
(* does not.                                                               *)
(***************************************************************************)
THEOREM FrameRoundTrip == \A m \in Messages : Survives(m)
<1> SUFFICES ASSUME NEW m \in Messages, ~TooLong(m)
             PROVE  FrameDecode(Wire[m]) = IF WithinLimits(m) THEN <<m>> ELSE NoMsg
  BY Zenon DEF Survives
<1>1. Wire[m] = FrameEncode(m)
  BY DEF Wire
<1>2. FrameOf(Wire[m], EncodePayload(m))
  BY <1>1, FrameWritten
<1>3. ~(Len(EncodePayload(m)) > MaxPayload)
  BY <1>2 DEF FrameOf, TooLong
<1>4. FrameDecode(Wire[m]) = DecodePayload(EncodePayload(m))
  BY <1>2, <1>3, FrameRead
<1>5. /\ Fits(m) => DecodePayload(EncodePayload(m)) = <<m>>
      /\ ~Fits(m) => DecodePayload(EncodePayload(m)) = NoMsg
  BY MessageAssumption, PayloadRead
<1>6. WithinLimits(m) <=> Fits(m)
  BY LimitsFit
<1> QED BY <1>4, <1>5, <1>6, Zenon

=============================================================================
