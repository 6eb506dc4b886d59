----------------------------- MODULE LoggerProofs -----------------------------
(***************************************************************************)
(* Proofs about the logger: what FormatMsg makes of a plain call is what   *)
(* filling all places at once gives, for every base, letter, argument and  *)
(* length of formats.  The provers know nothing of recursive functions, so *)
(* that std::to_string and the joining of texts are met from their         *)
(* definitions first: there is a function as they say, and there is one.   *)
(***************************************************************************)
EXTENDS Logger, SequenceTheorems, WellFoundedInduction, TLAPS

-----------------------------------------------------------------------------
(***************************************************************************)
(* Numbers and the joining of texts.                                       *)
(***************************************************************************)
\* Every set of numbers has a smallest one.
LEMMA Smallest ==
  ASSUME NEW T, T \subseteq Nat, T # {}
  PROVE  \E m \in T : \A n \in T : m <= n
<1> DEFINE below == OpToRel(<, Nat)
<1>1. \A m, n \in Nat : <<n, m>> \in below <=> n < m
  BY DEF OpToRel
<1>2. \E m \in T : \A n \in T : ~ (<<n, m>> \in below)
  BY NatLessThanWellFounded, WFMin
<1> HIDE DEF below
<1>3. PICK m \in T : \A n \in T : ~ (<<n, m>> \in below)
  BY <1>2
<1>4. \A n \in T : ~ (n < m)
  BY <1>1, <1>3
<1>. QED
  BY <1>4

\* Induction, for a set of numbers.
LEMMA Induction ==
  ASSUME NEW T, 0 \in T, \A n \in Nat : n \in T => n + 1 \in T
  PROVE  Nat \subseteq T
<1> DEFINE others == Nat \ T
<1>1. SUFFICES ASSUME others # {} PROVE FALSE
  OBVIOUS
<1>2. PICK m \in others : \A n \in others : m <= n
  <2>1. others \subseteq Nat
    OBVIOUS
  <2>. QED
    BY <1>1, <2>1, Smallest
<1>3. m \in Nat /\ m # 0
  OBVIOUS
<1>4. m - 1 \in Nat /\ m - 1 \notin others /\ (m - 1) + 1 = m
  BY <1>2, <1>3
<1>. QED
  BY <1>3, <1>4

\* What FlattenSeq computes: the texts put together up to a place.
Built(g, texts, n) ==
  g = [i \in 1 .. n |-> IF i = 1 THEN texts[i] ELSE g[i - 1] \o texts[i]]

LEMMA BuiltExists ==
  ASSUME NEW texts
  PROVE  \A n \in Nat : \E g : Built(g, texts, n)
<1> DEFINE good == { n \in Nat : \E g : Built(g, texts, n) }
<1>1. 0 \in good
  <2>1. Built([i \in 1 .. 0 |-> 0], texts, 0)
    BY DEF Built
  <2>. QED
    BY <2>1
<1>2. ASSUME NEW n \in Nat, n \in good PROVE n + 1 \in good
  <2>1. PICK g : Built(g, texts, n)
    BY <1>2
  <2> DEFINE h == [i \in 1 .. (n + 1) |->
                     IF i = n + 1 THEN IF i = 1 THEN texts[i] ELSE g[i - 1] \o texts[i]
                     ELSE g[i]]
  <2>2. \A i \in 1 .. n : g[i] = IF i = 1 THEN texts[i] ELSE g[i - 1] \o texts[i]
    BY <2>1 DEF Built
  <2>3. /\ \A i \in 1 .. n : h[i] = g[i]
        /\ h[n + 1] = IF n + 1 = 1 THEN texts[n + 1] ELSE g[n] \o texts[n + 1]
    <3>1. n + 1 \in 1 .. (n + 1) /\ (n + 1) - 1 = n
      OBVIOUS
    <3>2. \A i \in 1 .. n : i \in 1 .. (n + 1) /\ i # n + 1
      OBVIOUS
    <3>. QED
      BY <3>1, <3>2
  <2>4. ASSUME NEW i \in 1 .. (n + 1)
        PROVE  h[i] = IF i = 1 THEN texts[i] ELSE h[i - 1] \o texts[i]
    <3> HIDE DEF h
    <3>1. CASE i = n + 1
      <4>1. i # 1 => n \in 1 .. n /\ i - 1 = n
        BY <3>1
      <4>. QED
        BY <2>3, <3>1, <4>1
    <3>2. CASE i # n + 1
      <4>1. i \in 1 .. n /\ (i # 1 => i - 1 \in 1 .. n)
        BY <3>2
      <4>. QED
        BY <2>2, <2>3, <4>1
    <3>. QED
      BY <3>1, <3>2
  <2>5. Built(h, texts, n + 1)
    BY <2>4 DEF Built
  <2>. QED
    BY <2>5
<1> HIDE DEF good
<1>3. Nat \subseteq good
  BY <1>1, <1>2, Induction
<1>. QED
  BY <1>3 DEF good

Alike(g, h, n) == \A i \in 1 .. n : g[i] = h[i]

LEMMA BuiltAlike ==
  ASSUME NEW texts, NEW others, NEW m \in Nat, NEW n \in Nat, m <= n,
         Alike(texts, others, m), NEW g, NEW h, Built(g, texts, m), Built(h, others, n)
  PROVE  Alike(g, h, m)
<1> DEFINE good == { i \in Nat : i \in 1 .. m => g[i] = h[i] }
<1>1. /\ \A k \in 1 .. m : g[k] = IF k = 1 THEN texts[k] ELSE g[k - 1] \o texts[k]
      /\ \A k \in 1 .. n : h[k] = IF k = 1 THEN others[k] ELSE h[k - 1] \o others[k]
  BY DEF Built
<1>2. 0 \in good
  OBVIOUS
<1>3. ASSUME NEW i \in Nat, i \in good PROVE i + 1 \in good
  <2>1. SUFFICES ASSUME i + 1 \in 1 .. m PROVE g[i + 1] = h[i + 1]
    OBVIOUS
  <2>2. i + 1 \in 1 .. n /\ (i + 1 # 1 => i \in 1 .. m) /\ (i + 1) - 1 = i
    BY <2>1
  <2>. QED
    BY <1>1, <1>3, <2>1, <2>2 DEF Alike
<1> HIDE DEF good
<1>4. Nat \subseteq good
  BY <1>2, <1>3, Induction
<1>. QED
  BY <1>4 DEF good, Alike

LEMMA FlattenBuilt ==
  ASSUME NEW S, NEW texts \in Seq(S), texts # <<>>
  PROVE  \E g : Built(g, texts, Len(texts)) /\ FlattenSeq(texts) = g[Len(texts)]
<1> DEFINE g == CHOOSE f : Built(f, texts, Len(texts))
<1>1. Len(texts) \in Nat /\ Len(texts) # 0
  BY EmptySeq
<1>2. Built(g, texts, Len(texts))
  BY <1>1, BuiltExists
<1>3. FlattenSeq(texts) = g[Len(texts)]
  BY <1>1 DEF FlattenSeq, Built
<1>. QED
  BY <1>2, <1>3


LEMMA FlattenAppend ==
  ASSUME NEW S, NEW texts \in Seq(Seq(S)), NEW text \in Seq(S)
  PROVE  FlattenSeq(Append(texts, text)) = IF texts = <<>> THEN text
                                           ELSE FlattenSeq(texts) \o text
<1> DEFINE longer == Append(texts, text)
           n == Len(texts)
<1>1. /\ longer \in Seq(Seq(S)) /\ longer # <<>> /\ Len(longer) = n + 1
      /\ longer[n + 1] = text
      /\ \A i \in 1 .. n : longer[i] = texts[i]
      /\ n \in Nat
  BY AppendProperties
<1> HIDE DEF longer
<1>2. PICK h : Built(h, longer, n + 1) /\ FlattenSeq(longer) = h[n + 1]
  BY <1>1, FlattenBuilt
<1>3. CASE texts = <<>>
  BY <1>1, <1>2, <1>3 DEF Built
<1>4. CASE texts # <<>>
  <2>1. PICK g : Built(g, texts, n) /\ FlattenSeq(texts) = g[n]
    BY <1>4, FlattenBuilt
  <2>2. n \in 1 .. n
    BY <1>1, <1>4, EmptySeq
  <2>3. g[n] = h[n]
    <3>1. n <= n + 1 /\ n + 1 \in Nat
      BY <1>1
    <3>. QED
      <4> HIDE DEF n
      <4>1. \A i \in 1 .. n : texts[i] = longer[i]
        BY <1>1
      <4>2. \A i \in 1 .. n : g[i] = h[i]
        <5>1. Alike(texts, longer, n)
          BY <4>1 DEF Alike
        <5>2. Alike(g, h, n)
          BY <1>1, <1>2, <2>1, <3>1, <5>1, BuiltAlike
        <5>. QED
          BY <5>2 DEF Alike
      <4>. QED
        BY <2>2, <4>2
  <2>4. h[n + 1] = h[n] \o text
    <3>1. n + 1 \in 1 .. (n + 1) /\ n + 1 # 1 /\ (n + 1) - 1 = n
      BY <2>2
    <3> HIDE DEF n
    <3>. QED
      BY <1>1, <1>2, <3>1 DEF Built
  <2>. QED
    BY <1>2, <1>4, <2>1, <2>3, <2>4 DEF longer
<1>. QED
  BY <1>3, <1>4 DEF longer

\* The text of no texts is empty; one more text comes at the end.
LEMMA FlattenSteps ==
  ASSUME NEW S
  PROVE  /\ FlattenSeq(<<>>) = <<>>
         /\ \A texts \in Seq(Seq(S)) : FlattenSeq(texts) \in Seq(S)
         /\ \A texts \in Seq(Seq(S)), text \in Seq(S) :
              FlattenSeq(Append(texts, text)) = FlattenSeq(texts) \o text
<1>1. FlattenSeq(<<>>) = <<>>
  BY DEF FlattenSeq
<1> DEFINE good == { n \in Nat : \A texts \in Seq(Seq(S)) :
                                   Len(texts) = n => FlattenSeq(texts) \in Seq(S) }
<1>2. 0 \in good
  BY <1>1, EmptySeq
<1>3. ASSUME NEW n \in Nat, n \in good PROVE n + 1 \in good
  <2>1. SUFFICES ASSUME NEW texts \in Seq(Seq(S)), Len(texts) = n + 1
                 PROVE  FlattenSeq(texts) \in Seq(S)
    OBVIOUS
  <2>2. texts # <<>>
    BY <2>1, EmptySeq
  <2>3. PICK shorter \in Seq(Seq(S)), text \in Seq(S) : texts = Append(shorter, text)
    BY <2>2, SequenceEmptyOrAppend
  <2>4. Len(shorter) \in Nat /\ Len(texts) = Len(shorter) + 1
    BY <2>3, AppendProperties, LenProperties
  <2>5. FlattenSeq(shorter) \in Seq(S)
    BY <1>3, <2>1, <2>4
  <2>. QED
    BY <2>3, <2>5, FlattenAppend, ConcatProperties
<1> HIDE DEF good
<1>4. Nat \subseteq good
  BY <1>2, <1>3, Induction
<1>5. ASSUME NEW texts \in Seq(Seq(S)) PROVE FlattenSeq(texts) \in Seq(S)
  <2>1. Len(texts) \in good
    BY <1>4, LenProperties
  <2>. QED
    BY <2>1 DEF good
<1>6. ASSUME NEW texts \in Seq(Seq(S)), NEW text \in Seq(S)
      PROVE  FlattenSeq(Append(texts, text)) = FlattenSeq(texts) \o text
  BY <1>1, FlattenAppend, ConcatEmptySeq
<1>. QED
  BY <1>1, <1>5, <1>6

\* The brackets of three texts that are joined may be moved.
Regroups(a, b, c) == (a \o b) \o c = a \o (b \o c)

LEMMA Regrouped ==
  ASSUME NEW S, NEW a \in Seq(S), NEW b \in Seq(S), NEW c \in Seq(S)
  PROVE  Regroups(a, b, c)
BY ConcatAssociative DEF Regroups

\* Texts in two parts.
LEMMA FlattenConcat ==
  ASSUME NEW S, NEW front \in Seq(Seq(S)), NEW rest \in Seq(Seq(S))
  PROVE  FlattenSeq(front \o rest) = FlattenSeq(front) \o FlattenSeq(rest)
<1> DEFINE Splits(texts) ==
             FlattenSeq(front \o texts) = FlattenSeq(front) \o FlattenSeq(texts)
           good == { n \in Nat : \A texts \in Seq(Seq(S)) : Len(texts) = n => Splits(texts) }
<1>1. FlattenSeq(front) \in Seq(S)
  BY FlattenSteps
<1>2. 0 \in good
  <2>1. Splits(<<>>)
    BY <1>1, FlattenSteps, ConcatEmptySeq
  <2> HIDE DEF Splits
  <2>2. \A texts \in Seq(Seq(S)) : Len(texts) = 0 => texts = <<>>
    BY EmptySeq
  <2>. QED
    BY <2>1, <2>2
<1>3. ASSUME NEW n \in Nat, n \in good PROVE n + 1 \in good
  <2>1. ASSUME NEW texts \in Seq(Seq(S)), Len(texts) = n + 1 PROVE Splits(texts)
    <3>1. texts # <<>>
      BY <2>1, EmptySeq
    <3>2. PICK shorter \in Seq(Seq(S)), text \in Seq(S) : texts = Append(shorter, text)
      BY <3>1, SequenceEmptyOrAppend
    <3>3. Len(shorter) \in Nat /\ Len(texts) = Len(shorter) + 1
      BY <3>2, AppendProperties, LenProperties
    <3>4. Splits(shorter)
      BY <1>3, <2>1, <3>3
    <3>5. front \o texts = Append(front \o shorter, text) /\ front \o shorter \in Seq(Seq(S))
      <4>1. front \o shorter \in Seq(Seq(S)) /\ <<text>> \in Seq(Seq(S))
        BY ConcatProperties
      <4>2. texts = shorter \o <<text>>
        BY <3>2, AppendIsConcat
      <4>3. Append(front \o shorter, text) = (front \o shorter) \o <<text>>
        BY <4>1, AppendIsConcat
      <4>4. (front \o shorter) \o <<text>> = front \o (shorter \o <<text>>)
        <5> DEFINE one == <<text>>
                   Text == Seq(S)
        <5>1. one \in Seq(Text) /\ front \in Seq(Text) /\ shorter \in Seq(Text)
          BY <4>1
        <5> HIDE DEF one, Text
        <5>2. Regroups(front, shorter, one)
          BY <5>1, Regrouped
        <5>. QED
          BY <5>2 DEF one, Regroups
      <4>. QED
        BY <4>1, <4>2, <4>3, <4>4
    <3>6. FlattenSeq(front \o texts) = (FlattenSeq(front) \o FlattenSeq(shorter)) \o text
      BY <3>4, <3>5, FlattenSteps
    <3>7. FlattenSeq(texts) = FlattenSeq(shorter) \o text /\ FlattenSeq(shorter) \in Seq(S)
      BY <3>2, FlattenSteps
    <3>8. (FlattenSeq(front) \o FlattenSeq(shorter)) \o text
            = FlattenSeq(front) \o (FlattenSeq(shorter) \o text)
      <4> DEFINE a == FlattenSeq(front)
                 b == FlattenSeq(shorter)
      <4>1. a \in Seq(S) /\ b \in Seq(S) /\ text \in Seq(S)
        BY <1>1, <3>7
      <4> HIDE DEF a, b
      <4>2. Regroups(a, b, text)
        BY <4>1, Regrouped
      <4>. QED
        BY <4>2 DEF a, b, Regroups
    <3>. QED
      BY <3>6, <3>7, <3>8
  <2> HIDE DEF Splits
  <2>. QED
    BY <2>1
<1> HIDE DEF good
<1>4. Nat \subseteq good
  BY <1>2, <1>3, Induction
<1>5. Len(rest) \in good
  BY <1>4, LenProperties
<1>. QED
  BY <1>5 DEF good

\* Lists of texts.  The provers are not shown that they are sequences of
\* sequences when it does not matter.
Lists(S) == Seq(Seq(S))

LEMMA ListFacts ==
  ASSUME NEW S, NEW texts \in Lists(S)
  PROVE  /\ texts \in Seq(Seq(S)) /\ Len(texts) \in Nat
         /\ \A i \in 1 .. Len(texts) : texts[i] \in Seq(S)
BY LenProperties, ElementOfSeq DEF Lists

\* The text of the first n pieces, and of those after them.
UpTo(texts, n) == FlattenSeq(SubSeq(texts, 1, n))

After(texts, n) == FlattenSeq(SubSeq(texts, n + 1, Len(texts)))

LEMMA PartsOfText ==
  ASSUME NEW S, NEW texts \in Lists(S), NEW n \in 0 .. Len(texts)
  PROVE  /\ UpTo(texts, n) \in Seq(S) /\ After(texts, n) \in Seq(S)
         /\ FlattenSeq(texts) = UpTo(texts, n) \o After(texts, n)
<1> DEFINE Text == Seq(S)
           front == SubSeq(texts, 1, n)
           rest == SubSeq(texts, n + 1, Len(texts))
<1>1. texts \in Seq(Text) /\ Len(texts) \in Nat
  BY ListFacts
<1> HIDE DEF Text
<1>2. front \in Seq(Text) /\ rest \in Seq(Text) /\ front \o rest = texts
  <2>1. /\ \A i \in 1 .. n : texts[i] \in Text
        /\ \A i \in (n + 1) .. Len(texts) : texts[i] \in Text
    BY <1>1, ElementOfSeq
  <2>2. front \in Seq(Text) /\ rest \in Seq(Text)
    BY <1>1, <2>1, SubSeqProperties
  <2>3. front \o rest = SubSeq(texts, 1, Len(texts))
    <3>1. /\ 1 \in 1 .. Len(texts) + 1 /\ n \in 1 - 1 .. Len(texts)
          /\ Len(texts) \in n .. Len(texts)
      BY <1>1
    <3>. QED
      BY <1>1, <3>1, ConcatAdjacentSubSeq
  <2>. QED
    BY <1>1, <2>2, <2>3, SubSeqFull
<1> HIDE DEF front, rest
<1>3. FlattenSeq(front \o rest) = FlattenSeq(front) \o FlattenSeq(rest)
  BY <1>2, FlattenConcat DEF Text
<1>4. FlattenSeq(front) \in Seq(S) /\ FlattenSeq(rest) \in Seq(S)
  BY <1>2, FlattenSteps DEF Text
<1>. QED
  BY <1>2, <1>3, <1>4 DEF UpTo, After, front, rest

LEMMA EndsOfText ==
  ASSUME NEW S, NEW texts \in Lists(S)
  PROVE  UpTo(texts, 0) = <<>> /\ UpTo(texts, Len(texts)) = FlattenSeq(texts)
<1> DEFINE Text == Seq(S)
<1>1. texts \in Seq(Text) /\ Len(texts) \in Nat
  BY ListFacts
<1> HIDE DEF Text
<1>2. SubSeq(texts, 1, 0) = <<>> /\ SubSeq(texts, 1, Len(texts)) = texts
  BY <1>1, SubSeqEmpty, SubSeqFull
<1>. QED
  BY <1>2, FlattenSteps DEF UpTo

LEMMA OnePieceMore ==
  ASSUME NEW S, NEW texts \in Lists(S), NEW n \in 1 .. Len(texts)
  PROVE  /\ UpTo(texts, n) = UpTo(texts, n - 1) \o texts[n]
         /\ After(texts, n - 1) = texts[n] \o After(texts, n)
<1> DEFINE Text == Seq(S)
           front == SubSeq(texts, 1, n - 1)
           rest == SubSeq(texts, n + 1, Len(texts))
           one == <<texts[n]>>
<1>1. texts \in Seq(Text) /\ Len(texts) \in Nat /\ texts[n] \in Text /\ one \in Seq(Text)
  BY ListFacts
<1> HIDE DEF Text
<1>2. front \in Seq(Text) /\ rest \in Seq(Text)
  <2>1. /\ \A i \in 1 .. (n - 1) : texts[i] \in Text
        /\ \A i \in (n + 1) .. Len(texts) : texts[i] \in Text
    BY <1>1, ElementOfSeq
  <2>. QED
    BY <1>1, <2>1, SubSeqProperties
<1>3. SubSeq(texts, 1, n) = front \o one
  BY <1>1, SubSeqRecursiveSecond
<1>4. SubSeq(texts, n, Len(texts)) = one \o rest
  BY <1>1, SubSeqRecursiveFirst
<1> HIDE DEF front, rest
<1>5. FlattenSeq(one) = texts[n]
  <2>1. <<>> \in Seq(Text) /\ Append(<<>>, texts[n]) = one
    BY <1>1, EmptySeq
  <2>2. FlattenSeq(Append(<<>>, texts[n])) = <<>> \o texts[n]
    BY <1>1, <2>1, FlattenSteps DEF Text
  <2>3. <<>> \o texts[n] = texts[n]
    BY <1>1, ConcatEmptySeq DEF Text
  <2>. QED
    BY <2>1, <2>2, <2>3
<1> HIDE DEF one
<1>6. FlattenSeq(front \o one) = FlattenSeq(front) \o FlattenSeq(one)
  BY <1>1, <1>2, FlattenConcat DEF Text
<1>7. FlattenSeq(one \o rest) = FlattenSeq(one) \o FlattenSeq(rest)
  BY <1>1, <1>2, FlattenConcat DEF Text
<1>8. (n - 1) + 1 = n
  OBVIOUS
<1>. QED
  BY <1>3, <1>4, <1>5, <1>6, <1>7, <1>8 DEF UpTo, After, front, rest

\* How far the first n pieces reach.
Reach(texts, n) == Len(UpTo(texts, n))

LEMMA ReachGrows ==
  ASSUME NEW S, NEW texts \in Lists(S)
  PROVE  /\ \A n \in 0 .. Len(texts) : Reach(texts, n) \in Nat
         /\ Reach(texts, 0) = 0
         /\ Reach(texts, Len(texts)) = Len(FlattenSeq(texts))
         /\ \A n \in 1 .. Len(texts) : Reach(texts, n) = Reach(texts, n - 1) + Len(texts[n])
         /\ \A n, m \in 0 .. Len(texts) : n <= m => Reach(texts, n) <= Reach(texts, m)
<1> DEFINE r(n) == Reach(texts, n)
<1>0. Len(texts) \in Nat
  BY ListFacts
<1>1. \A n \in 0 .. Len(texts) : r(n) \in Nat
  BY PartsOfText, LenProperties DEF Reach
<1>2. r(0) = 0 /\ r(Len(texts)) = Len(FlattenSeq(texts))
  BY EndsOfText, EmptySeq DEF Reach
<1>3. ASSUME NEW n \in 1 .. Len(texts)
      PROVE  r(n) = r(n - 1) + Len(texts[n]) /\ Len(texts[n]) \in Nat
  <2>1. n - 1 \in 0 .. Len(texts) /\ texts[n] \in Seq(S)
    BY <1>0, ListFacts
  <2>2. UpTo(texts, n - 1) \in Seq(S) /\ UpTo(texts, n) = UpTo(texts, n - 1) \o texts[n]
    BY <2>1, PartsOfText, OnePieceMore
  <2>. QED
    BY <2>1, <2>2, ConcatProperties, LenProperties DEF Reach
<1> HIDE DEF r
<1>4. ASSUME NEW n \in 0 .. Len(texts) PROVE \A m \in 0 .. Len(texts) : n <= m => r(n) <= r(m)
  <2> DEFINE good == { d \in Nat : n + d <= Len(texts) => r(n) <= r(n + d) }
  <2>1. 0 \in good
    <3>1. n + 0 = n /\ r(n) \in Nat
      BY <1>0, <1>1
    <3>. QED
      BY <3>1
  <2>2. ASSUME NEW d \in Nat, d \in good PROVE d + 1 \in good
    <3>1. SUFFICES ASSUME n + (d + 1) <= Len(texts) PROVE r(n) <= r(n + (d + 1))
      OBVIOUS
    <3>2. /\ n + (d + 1) \in 1 .. Len(texts) /\ (n + (d + 1)) - 1 = n + d
          /\ n + d \in 0 .. Len(texts)
      BY <1>0, <3>1
    <3>3. r(n) <= r(n + d)
      BY <2>2, <3>2
    <3>4. r(n + (d + 1)) = r(n + d) + Len(texts[n + (d + 1)])
          /\ Len(texts[n + (d + 1)]) \in Nat
      BY <1>3, <3>2
    <3>. QED
      BY <1>1, <3>2, <3>3, <3>4
  <2> HIDE DEF good
  <2>3. Nat \subseteq good
    BY <2>1, <2>2, Induction
  <2>4. ASSUME NEW m \in 0 .. Len(texts), n <= m PROVE r(n) <= r(m)
    <3>1. m - n \in Nat /\ n + (m - n) = m
      BY <1>0, <2>4
    <3>2. m - n \in good
      BY <2>3, <3>1
    <3>. QED
      BY <1>0, <3>1, <3>2 DEF good
  <2>. QED
    BY <2>4
<1>. QED
  BY <1>1, <1>2, <1>3, <1>4 DEF r

\* Where the characters of a piece are in the text.
LEMMA CharacterOfPiece ==
  ASSUME NEW S, NEW texts \in Lists(S), NEW i \in 1 .. Len(texts),
         NEW o \in 1 .. Len(texts[i])
  PROVE  /\ Reach(texts, i - 1) + o \in 1 .. Len(FlattenSeq(texts))
         /\ FlattenSeq(texts)[Reach(texts, i - 1) + o] = texts[i][o]
<1>1. Len(texts) \in Nat /\ i - 1 \in 0 .. Len(texts) /\ i \in 0 .. Len(texts)
  <2>1. Len(texts) \in Nat
    BY ListFacts
  <2>. QED
    BY <2>1
<1> DEFINE front == UpTo(texts, i - 1)
           piece == texts[i]
           rest == After(texts, i)
<1>2. /\ front \in Seq(S) /\ piece \in Seq(S) /\ rest \in Seq(S)
      /\ FlattenSeq(texts) = (front \o piece) \o rest
  <2>1. UpTo(texts, i) = front \o piece
    BY OnePieceMore
  <2>2. FlattenSeq(texts) = UpTo(texts, i) \o rest /\ rest \in Seq(S)
    BY <1>1, PartsOfText
  <2>3. front \in Seq(S) /\ piece \in Seq(S)
    BY <1>1, PartsOfText, ListFacts
  <2>. QED
    BY <2>1, <2>2, <2>3
<1>3. o \in 1 .. Len(piece)
  OBVIOUS
<1> HIDE DEF front, piece, rest
<1>4. Len(front) \in Nat /\ Len(piece) \in Nat /\ Len(rest) \in Nat
  BY <1>2, LenProperties
<1>5. /\ front \o piece \in Seq(S) /\ Len(front \o piece) = Len(front) + Len(piece)
      /\ (front \o piece)[Len(front) + o] = piece[o]
  BY <1>2, <1>3, <1>4, ConcatProperties
<1>6. /\ Len(front) + o \in 1 .. Len((front \o piece) \o rest)
      /\ ((front \o piece) \o rest)[Len(front) + o] = (front \o piece)[Len(front) + o]
  BY <1>2, <1>3, <1>4, <1>5, ConcatProperties
<1>. QED
  BY <1>2, <1>5, <1>6 DEF Reach, front, piece

\* Every character is one of some piece.
LEMMA PieceOfCharacter ==
  ASSUME NEW S, NEW texts \in Lists(S), NEW j \in 1 .. Len(FlattenSeq(texts))
  PROVE  \E i \in 1 .. Len(texts) :
           /\ j \in (Reach(texts, i - 1) + 1) .. Reach(texts, i)
           /\ Reach(texts, i) = Reach(texts, i - 1) + Len(texts[i])
           /\ FlattenSeq(texts)[j] = texts[i][j - Reach(texts, i - 1)]
<1> DEFINE beyond == { n \in 0 .. Len(texts) : j <= Reach(texts, n) }
<1>1. Len(texts) \in Nat /\ FlattenSeq(texts) \in Seq(S)
  BY ListFacts, FlattenSteps
<1>2. Len(texts) \in beyond
  BY <1>1, ReachGrows
<1>3. PICK i \in beyond : \A n \in beyond : i <= n
  <2>1. beyond \subseteq Nat
    OBVIOUS
  <2> HIDE DEF beyond
  <2>. QED
    BY <1>2, <2>1, Smallest
<1>4. i # 0
  BY ReachGrows
<1>5. i \in 1 .. Len(texts) /\ i - 1 \in 0 .. Len(texts) /\ i - 1 \notin beyond
  BY <1>1, <1>3, <1>4
<1>6. /\ j \in (Reach(texts, i - 1) + 1) .. Reach(texts, i)
      /\ Reach(texts, i) = Reach(texts, i - 1) + Len(texts[i])
  <2>1. Reach(texts, i - 1) \in Nat /\ Reach(texts, i) \in Nat /\ j \in Nat
    BY <1>1, <1>5, ReachGrows, LenProperties
  <2>. QED
    BY <1>3, <1>5, <2>1, ReachGrows
<1>7. FlattenSeq(texts)[j] = texts[i][j - Reach(texts, i - 1)]
  <2>1. Reach(texts, i - 1) \in Nat /\ Reach(texts, i) \in Nat
    BY <1>1, <1>5, ReachGrows
  <2>2. PICK o \in Nat : o = j - Reach(texts, i - 1)
    BY <1>6, <2>1
  <2>3. o \in 1 .. Len(texts[i]) /\ Reach(texts, i - 1) + o = j
    BY <1>6, <2>1, <2>2
  <2>. QED
    BY <1>5, <2>2, <2>3, CharacterOfPiece
<1>. QED
  BY <1>5, <1>6, <1>7

\* Pieces of one character are found in the text side by side.
Single(texts, chars, x) == texts[x] = <<chars[x]>>

LEMMA SingleFacts ==
  ASSUME NEW texts, NEW chars, NEW x, Single(texts, chars, x)
  PROVE  Len(texts[x]) = 1 /\ texts[x][1] = chars[x]
<1> DEFINE char == chars[x]
<1>1. texts[x] = <<char>>
  BY DEF Single
<1> HIDE DEF char
<1>2. Len(texts[x]) = 1 /\ texts[x][1] = char
  BY <1>1
<1>. QED
  BY <1>2 DEF char

\* Where the characters a to b, each a text of its own, stand in the joined text.
Singles(texts, chars, a, b) == \A x \in a .. b : Single(texts, chars, x)

Run(texts, chars, a, b) ==
  \A x \in a .. b :
    /\ Reach(texts, x) = Reach(texts, a - 1) + (x - a) + 1
    /\ Reach(texts, x) \in 1 .. Len(FlattenSeq(texts))
    /\ FlattenSeq(texts)[Reach(texts, x)] = chars[x]

LEMMA RunOfCharacters ==
  ASSUME NEW S, NEW texts \in Lists(S), NEW chars, NEW a \in 1 .. Len(texts),
         NEW b \in a .. Len(texts), Singles(texts, chars, a, b)
  PROVE  Run(texts, chars, a, b)
<1> USE DEF Singles, Run
<1>0. Len(texts) \in Nat /\ a - 1 \in 0 .. Len(texts) /\ Reach(texts, a - 1) \in Nat
  <2>1. Len(texts) \in Nat
    BY ListFacts
  <2>. QED
    BY <2>1, ReachGrows
<1> DEFINE good == { d \in Nat : a + d \in a .. b =>
                        Reach(texts, a + d) = Reach(texts, a - 1) + d + 1 }
<1>1. \A x \in a .. b : x \in 1 .. Len(texts)
                        /\ Reach(texts, x) = Reach(texts, x - 1) + 1
  <2>1. TAKE x \in a .. b
  <2>2. x \in 1 .. Len(texts) /\ Len(texts[x]) = 1
    BY <1>0, SingleFacts
  <2>. QED
    BY <2>2, ReachGrows
<1>2. 0 \in good
  <2>1. a + 0 = a /\ a \in a .. b
    BY <1>0
  <2>. QED
    BY <1>0, <1>1, <2>1
<1>3. ASSUME NEW d \in Nat, d \in good PROVE d + 1 \in good
  <2>1. SUFFICES ASSUME a + (d + 1) \in a .. b
                 PROVE  Reach(texts, a + (d + 1)) = Reach(texts, a - 1) + (d + 1) + 1
    OBVIOUS
  <2>2. a + d \in a .. b /\ (a + (d + 1)) - 1 = a + d
    BY <1>0, <2>1
  <2>3. Reach(texts, a + d) = Reach(texts, a - 1) + d + 1
    BY <1>3, <2>2
  <2>4. Reach(texts, a + (d + 1)) = Reach(texts, a + d) + 1
    BY <1>1, <2>1, <2>2
  <2>. QED
    BY <1>0, <2>3, <2>4
<1> HIDE DEF good
<1>4. Nat \subseteq good
  BY <1>2, <1>3, Induction
<1>5. ASSUME NEW x \in a .. b
      PROVE  /\ Reach(texts, x) = Reach(texts, a - 1) + (x - a) + 1
             /\ Reach(texts, x) \in 1 .. Len(FlattenSeq(texts))
             /\ FlattenSeq(texts)[Reach(texts, x)] = chars[x]
  <2>1. x - a \in Nat /\ a + (x - a) = x /\ x \in 1 .. Len(texts) /\ x - 1 \in 0 .. Len(texts)
    BY <1>0
  <2>2. Reach(texts, x) = Reach(texts, a - 1) + (x - a) + 1
    <3>1. x - a \in good
      BY <1>4, <2>1
    <3>. QED
      BY <2>1, <3>1 DEF good
  <2>3. Len(texts[x]) = 1 /\ texts[x][1] = chars[x]
    BY SingleFacts
  <2>4. Reach(texts, x) = Reach(texts, x - 1) + 1
    BY <1>1
  <2>5. 1 \in 1 .. Len(texts[x])
    BY <2>3
  <2>. QED
    <3>1. /\ Reach(texts, x - 1) + 1 \in 1 .. Len(FlattenSeq(texts))
          /\ FlattenSeq(texts)[Reach(texts, x - 1) + 1] = texts[x][1]
      BY <2>1, <2>5, CharacterOfPiece, SMTT(30)
    <3>. QED
      BY <2>2, <2>3, <2>4, <3>1
<1>. QED
  BY <1>5

\* Cutting a text where two parts of it meet.
LEMMA CutText ==
  ASSUME NEW S, NEW s \in Seq(S), NEW t \in Seq(S)
  PROVE  /\ SubSeq(s \o t, 1, Len(s)) = s
         /\ SubSeq(s \o t, Len(s) + 1, Len(s \o t)) = t
<1> DEFINE st == s \o t
<1>1. /\ Len(s) \in Nat /\ Len(t) \in Nat /\ st \in Seq(S) /\ Len(st) = Len(s) + Len(t)
      /\ \A i \in 1 .. Len(s) : st[i] = s[i]
      /\ \A i \in 1 .. Len(t) : st[Len(s) + i] = t[i]
  <2>1. Len(s) \in Nat /\ Len(t) \in Nat
    BY LenProperties
  <2>. QED
    BY <2>1, ConcatProperties
<1> HIDE DEF st
<1>2. \A i \in 1 .. Len(st) : st[i] \in S
  BY <1>1, ElementOfSeq
<1>3. SubSeq(st, 1, Len(s)) = s
  <2> DEFINE cut == SubSeq(st, 1, Len(s))
  <2>1. \A i \in 1 .. Len(s) : st[i] \in S
    BY <1>1, <1>2
  <2>2. cut \in Seq(S) /\ Len(cut) = Len(s) /\ \A i \in 1 .. Len(s) : cut[i] = st[i]
    BY <1>1, <2>1, SubSeqProperties
  <2> HIDE DEF cut
  <2>. QED
    BY <1>1, <2>2, SeqEqual DEF cut
<1>4. SubSeq(st, Len(s) + 1, Len(st)) = t
  <2> DEFINE cut == SubSeq(st, Len(s) + 1, Len(st))
  <2>1. \A i \in Len(s) + 1 .. Len(st) : st[i] \in S
    BY <1>1, <1>2
  <2>2. cut \in Seq(S) /\ Len(cut) = Len(t) /\ \A i \in 1 .. Len(t) : cut[i] = st[Len(s) + i]
    BY <1>1, <2>1, SubSeqProperties
  <2> HIDE DEF cut
  <2>. QED
    BY <1>1, <2>2, SeqEqual DEF cut
<1>. QED
  BY <1>3, <1>4 DEF st

\* Pieces that differ at three places only: the text differs between what comes
\* before them and what comes after them.
LEMMA ChangedInside ==
  ASSUME NEW S, NEW texts \in Lists(S), NEW others \in Lists(S),
         Len(others) = Len(texts), NEW i \in 1 .. (Len(texts) - 2),
         \A x \in 1 .. Len(texts) : x \notin i .. (i + 2) => others[x] = texts[x]
  PROVE  UpTo(others, i - 1) = UpTo(texts, i - 1) /\ After(others, i + 2) = After(texts, i + 2)
<1> DEFINE Text == Seq(S)
           n == Len(texts)
<1>1. n \in Nat /\ texts \in Seq(Text) /\ others \in Seq(Text) /\ Len(others) = n
  BY ListFacts
<1> HIDE DEF Text
<1>2. \A x \in 1 .. n : texts[x] \in Text /\ others[x] \in Text
  BY <1>1, ElementOfSeq
<1>3. SubSeq(others, 1, i - 1) = SubSeq(texts, 1, i - 1)
  <2> DEFINE p == SubSeq(texts, 1, i - 1)
             q == SubSeq(others, 1, i - 1)
  <2>1. /\ \A x \in 1 .. (i - 1) : texts[x] \in Text /\ others[x] \in Text
        /\ \A x \in 1 .. (i - 1) : others[x] = texts[x]
    BY <1>1, <1>2
  <2>2. /\ p \in Seq(Text) /\ q \in Seq(Text) /\ Len(p) = Len(q)
        /\ \A x \in 1 .. Len(p) : x \in 1 .. (i - 1) /\ p[x] = texts[x] /\ q[x] = others[x]
    BY <1>1, <2>1, SubSeqProperties
  <2> HIDE DEF p, q
  <2>. QED
    BY <2>1, <2>2, SeqEqual DEF p, q
<1>4. SubSeq(others, i + 3, n) = SubSeq(texts, i + 3, n)
  <2> DEFINE p == SubSeq(texts, i + 3, n)
             q == SubSeq(others, i + 3, n)
  <2>1. /\ \A x \in (i + 3) .. n : texts[x] \in Text /\ others[x] \in Text
        /\ \A x \in (i + 3) .. n : others[x] = texts[x]
    BY <1>1, <1>2
  <2>2. /\ p \in Seq(Text) /\ q \in Seq(Text) /\ Len(p) = Len(q)
        /\ \A x \in 1 .. Len(p) : /\ (i + 3) + x - 1 \in (i + 3) .. n
                                   /\ p[x] = texts[(i + 3) + x - 1]
                                   /\ q[x] = others[(i + 3) + x - 1]
    BY <1>1, <2>1, SubSeqProperties
  <2> HIDE DEF p, q
  <2>. QED
    BY <2>1, <2>2, SeqEqual DEF p, q
<1>5. (i + 2) + 1 = i + 3
  OBVIOUS
<1>. QED
  BY <1>1, <1>3, <1>4, <1>5 DEF UpTo, After

LEMMA ThreePieces ==
  ASSUME NEW S, NEW texts \in Lists(S), NEW i \in 1 .. (Len(texts) - 2)
  PROVE  /\ Len(texts) \in Nat /\ i - 1 \in 0 .. Len(texts) /\ i + 2 \in 0 .. Len(texts)
         /\ UpTo(texts, i - 1) \in Seq(S) /\ After(texts, i - 1) \in Seq(S)
         /\ UpTo(texts, i + 2) \in Seq(S) /\ After(texts, i + 2) \in Seq(S)
         /\ FlattenSeq(texts) = UpTo(texts, i - 1) \o After(texts, i - 1)
         /\ FlattenSeq(texts) = UpTo(texts, i + 2) \o After(texts, i + 2)
         /\ UpTo(texts, i + 2)
              = ((UpTo(texts, i - 1) \o texts[i]) \o texts[i + 1]) \o texts[i + 2]
         /\ Reach(texts, i - 1) \in Nat
         /\ Reach(texts, i + 2) = Reach(texts, i - 1)
                                   + Len(texts[i]) + Len(texts[i + 1]) + Len(texts[i + 2])
<1>1. Len(texts) \in Nat
  BY ListFacts
<1>2. /\ i - 1 \in 0 .. Len(texts) /\ i + 2 \in 0 .. Len(texts)
      /\ i \in 1 .. Len(texts) /\ i + 1 \in 1 .. Len(texts) /\ i + 2 \in 1 .. Len(texts)
      /\ (i + 1) - 1 = i /\ (i + 2) - 1 = i + 1
  BY <1>1
<1>3. /\ UpTo(texts, i) = UpTo(texts, i - 1) \o texts[i]
      /\ UpTo(texts, i + 1) = UpTo(texts, i) \o texts[i + 1]
      /\ UpTo(texts, i + 2) = UpTo(texts, i + 1) \o texts[i + 2]
  BY <1>2, OnePieceMore
<1>4. /\ Reach(texts, i) = Reach(texts, i - 1) + Len(texts[i])
      /\ Reach(texts, i + 1) = Reach(texts, i) + Len(texts[i + 1])
      /\ Reach(texts, i + 2) = Reach(texts, i + 1) + Len(texts[i + 2])
      /\ Reach(texts, i - 1) \in Nat
  BY <1>2, ReachGrows
<1>5. /\ UpTo(texts, i - 1) \in Seq(S) /\ After(texts, i - 1) \in Seq(S)
      /\ UpTo(texts, i + 2) \in Seq(S) /\ After(texts, i + 2) \in Seq(S)
      /\ FlattenSeq(texts) = UpTo(texts, i - 1) \o After(texts, i - 1)
      /\ FlattenSeq(texts) = UpTo(texts, i + 2) \o After(texts, i + 2)
  BY <1>2, PartsOfText
<1>. QED
  BY <1>1, <1>2, <1>3, <1>4, <1>5

\* Replacing three characters of a text by the text of an argument.
LEMMA Replacement ==
  ASSUME NEW S, NEW texts \in Lists(S), NEW others \in Lists(S),
         Len(others) = Len(texts), NEW i \in 1 .. (Len(texts) - 2),
         \A x \in 1 .. Len(texts) : x \notin i .. (i + 2) => others[x] = texts[x],
         Len(texts[i]) = 1, Len(texts[i + 1]) = 1, Len(texts[i + 2]) = 1,
         NEW text \in Seq(S),
         others[i] = text, others[i + 1] = <<>>, others[i + 2] = <<>>
  PROVE  FlattenSeq(others)
           = SubSeq(FlattenSeq(texts), 1, Reach(texts, i - 1)) \o text
               \o SubSeq(FlattenSeq(texts), Reach(texts, i - 1) + 4, Len(FlattenSeq(texts)))
<1> DEFINE r == Reach(texts, i - 1)
           front == UpTo(texts, i - 1)
           middle == UpTo(texts, i + 2)
           back == After(texts, i - 1)
           rest == After(texts, i + 2)
           whole == FlattenSeq(texts)
<1>1. front = UpTo(others, i - 1) /\ rest = After(others, i + 2)
  BY ChangedInside
<1>2. /\ front \in Seq(S) /\ rest \in Seq(S) /\ back \in Seq(S) /\ middle \in Seq(S)
      /\ whole = front \o back /\ whole = middle \o rest
      /\ Len(front) = r /\ r \in Nat /\ Len(middle) = r + 3
  <2>1. /\ front \in Seq(S) /\ rest \in Seq(S) /\ back \in Seq(S) /\ middle \in Seq(S)
        /\ whole = front \o back /\ whole = middle \o rest
    BY ThreePieces
  <2>2. r \in Nat /\ Reach(texts, i + 2) = r + 3
    <3>1. /\ Reach(texts, i - 1) \in Nat
          /\ Reach(texts, i + 2) = Reach(texts, i - 1)
                                    + Len(texts[i]) + Len(texts[i + 1]) + Len(texts[i + 2])
      BY ThreePieces
    <3>. QED
      BY <3>1
  <2>. QED
    BY <2>1, <2>2 DEF Reach
<1>3. FlattenSeq(others) = (((front \o text) \o <<>>) \o <<>>) \o rest
  <2>1. i \in 1 .. (Len(others) - 2)
    OBVIOUS
  <2>2. /\ FlattenSeq(others) = UpTo(others, i + 2) \o After(others, i + 2)
        /\ UpTo(others, i + 2)
             = ((UpTo(others, i - 1) \o others[i]) \o others[i + 1]) \o others[i + 2]
    BY <2>1, ThreePieces
  <2>. QED
    BY <1>1, <2>2
<1> HIDE DEF r, front, middle, back, rest, whole
<1>4. ((front \o text) \o <<>>) \o <<>> = front \o text
  <2>1. front \o text \in Seq(S)
    BY <1>2, ConcatProperties
  <2>. QED
    BY <2>1, ConcatEmptySeq
<1>5. SubSeq(whole, 1, r) = front
  BY <1>2, CutText
<1>6. SubSeq(whole, r + 4, Len(whole)) = rest
  <2>1. Len(middle) + 1 = r + 4
    BY <1>2
  <2>2. SubSeq(whole, Len(middle) + 1, Len(whole)) = rest
    BY <1>2, CutText
  <2>. QED
    BY <2>1, <2>2
<1>. QED
  BY <1>3, <1>4, <1>5, <1>6 DEF r, whole

-----------------------------------------------------------------------------
(***************************************************************************)
(* std::to_string writes digits, at least one, and for a number below the  *)
(* base exactly one.                                                       *)
(***************************************************************************)
Digits == { Digit(d) : d \in 0 .. 9 }

LEMMA DigitFacts ==
  /\ \A d \in 0 .. 9 : Digit(d) # "{" /\ Digit(d) # "}"
  /\ \A d, e \in 0 .. 9 : Digit(d) = Digit(e) => d = e
<1>1. /\ Digit(0) = "0" /\ Digit(1) = "1" /\ Digit(2) = "2" /\ Digit(3) = "3"
      /\ Digit(4) = "4" /\ Digit(5) = "5" /\ Digit(6) = "6" /\ Digit(7) = "7"
      /\ Digit(8) = "8" /\ Digit(9) = "9"
  BY DEF Digit
<1>2. \A d \in 0 .. 9 : d \in {0, 1, 2, 3, 4, 5, 6, 7, 8, 9}
  OBVIOUS
<1>3. \A d \in 0 .. 9 :
        Digit(d) \in {"0", "1", "2", "3", "4", "5", "6", "7", "8", "9"}
  BY <1>1, <1>2
<1>4. \A c \in {"0", "1", "2", "3", "4", "5", "6", "7", "8", "9"} : c # "{" /\ c # "}"
  OBVIOUS
<1>5. ASSUME NEW d \in 0 .. 9, NEW e \in 0 .. 9, Digit(d) = Digit(e) PROVE d = e
  BY <1>1, <1>2, <1>5
<1>. QED
  BY <1>3, <1>4, <1>5

LEMMA QuotientFacts ==
  \A n \in Nat : /\ n % Base \in 0 .. 9
                 /\ n < Base => n \in 0 .. 9
                 /\ n >= Base => n \div Base \in Nat /\ n \div Base < n
BY BaseAssumption

Written(g, n) == IF n < Base THEN <<Digit(n)>> ELSE Append(g[n \div Base], Digit(n % Base))

Made(g, n) == g = [m \in 0 .. n |-> Written(g, m)]

LEMMA WrittenAlike ==
  ASSUME NEW g, NEW h, NEW n \in Nat, n >= Base => g[n \div Base] = h[n \div Base]
  PROVE  Written(g, n) = Written(h, n)
BY BaseAssumption DEF Written

LEMMA MadeExists == \A n \in Nat : \E g : Made(g, n)
<1> DEFINE good == { n \in Nat : \E g : Made(g, n) }
<1>1. 0 \in good
  <2> DEFINE g == [m \in 0 .. 0 |-> Written(<<>>, m)]
  <2>1. \A m \in 0 .. 0 : Written(<<>>, m) = Written(g, m)
    BY WrittenAlike, BaseAssumption
  <2>2. Made(g, 0)
    BY <2>1 DEF Made
  <2>. QED
    BY <2>2
<1>2. ASSUME NEW n \in Nat, n \in good PROVE n + 1 \in good
  <2>1. PICK g : Made(g, n)
    BY <1>2
  <2> DEFINE h == [m \in 0 .. (n + 1) |-> IF m = n + 1 THEN Written(g, m) ELSE g[m]]
  <2>2. /\ \A m \in 0 .. n : h[m] = g[m]
        /\ h[n + 1] = Written(g, n + 1)
    <3>1. /\ n + 1 \in 0 .. (n + 1)
          /\ \A m \in 0 .. n : m \in 0 .. (n + 1) /\ m # n + 1
      OBVIOUS
    <3>. QED
      BY <3>1
  <2>3. \A m \in 0 .. n : g[m] = Written(g, m)
    BY <2>1 DEF Made
  <2>4. ASSUME NEW m \in 0 .. (n + 1) PROVE h[m] = Written(h, m)
    <3> HIDE DEF h
    <3>1. m \in Nat /\ (m >= Base => m \div Base \in 0 .. n)
      BY QuotientFacts
    <3>2. Written(g, m) = Written(h, m)
      BY <2>2, <3>1, WrittenAlike
    <3>3. CASE m = n + 1
      BY <2>2, <3>2, <3>3
    <3>4. CASE m # n + 1
      <4>1. m \in 0 .. n
        BY <3>4
      <4>. QED
        BY <2>2, <2>3, <3>2, <4>1
    <3>. QED
      BY <3>3, <3>4
  <2>5. Made(h, n + 1)
    BY <2>4 DEF Made
  <2>. QED
    BY <2>5
<1> HIDE DEF good
<1>3. Nat \subseteq good
  BY <1>1, <1>2, Induction
<1>. QED
  BY <1>3 DEF good

LEMMA MadeAlike ==
  ASSUME NEW m \in Nat, NEW n \in Nat, NEW g, NEW h, Made(g, m), Made(h, n)
  PROVE  \A i \in Nat : i <= m /\ i <= n => g[i] = h[i]
<1> DEFINE bad == { i \in Nat : i <= m /\ i <= n /\ g[i] # h[i] }
<1>1. SUFFICES ASSUME bad # {} PROVE FALSE
  OBVIOUS
<1>2. PICK i \in bad : \A k \in bad : i <= k
  <2>1. bad \subseteq Nat
    OBVIOUS
  <2> HIDE DEF bad
  <2>. QED
    BY <1>1, <2>1, Smallest
<1>3. i \in Nat /\ i <= m /\ i <= n /\ g[i] # h[i]
  OBVIOUS
<1>4. g[i] = Written(g, i) /\ h[i] = Written(h, i)
  <2>1. i \in 0 .. m /\ i \in 0 .. n
    BY <1>3
  <2>. QED
    BY <2>1 DEF Made
<1>5. i >= Base => g[i \div Base] = h[i \div Base]
  <2>1. SUFFICES ASSUME i >= Base PROVE i \div Base \notin bad /\ i \div Base \in Nat
                                        /\ i \div Base <= m /\ i \div Base <= n
    OBVIOUS
  <2>2. i \div Base \in Nat /\ i \div Base < i
    BY <1>3, <2>1, QuotientFacts
  <2> HIDE DEF bad
  <2>. QED
    BY <1>2, <1>3, <2>2
<1>. QED
  BY <1>3, <1>4, <1>5, WrittenAlike

LEMMA ToStringDefined == \A n \in Nat : to_string[n] = Written(to_string, n)
<1> DEFINE made(n) == CHOOSE g : Made(g, n)
           whole == [n \in Nat |-> made(n)[n]]
<1>1. \A n \in Nat : Made(made(n), n)
  BY MadeExists
<1>2. ASSUME NEW n \in Nat PROVE whole[n] = Written(whole, n)
  <2>1. made(n)[n] = Written(made(n), n)
    <3>1. n \in 0 .. n
      OBVIOUS
    <3>. QED
      BY <1>1, <3>1 DEF Made
  <2>2. n >= Base => made(n)[n \div Base] = whole[n \div Base]
    <3>1. SUFFICES ASSUME n >= Base PROVE made(n)[n \div Base] = whole[n \div Base]
      OBVIOUS
    <3>2. n \div Base \in Nat /\ n \div Base < n
      BY <3>1, QuotientFacts
    <3>3. PICK q \in Nat : q = n \div Base
      BY <3>2
    <3>4. made(n)[q] = made(q)[q]
      <4> HIDE DEF made
      <4>. QED
        BY <1>1, <3>2, <3>3, MadeAlike
    <3>. QED
      BY <3>3, <3>4
  <2>3. Written(made(n), n) = Written(whole, n)
    <3> HIDE DEF made, whole
    <3>. QED
      BY <2>2, WrittenAlike
  <2>. QED
    BY <2>1, <2>3
<1> HIDE DEF made
<1>3. whole = [n \in Nat |-> Written(whole, n)]
  BY <1>2
<1> HIDE DEF whole
<1>4. to_string = CHOOSE f : f = [n \in Nat |-> Written(f, n)]
  BY DEF to_string, Written
<1>5. to_string = [n \in Nat |-> Written(to_string, n)]
  BY <1>3, <1>4
<1>. QED
  BY <1>5

LEMMA ToStringFacts ==
  /\ \A n \in Nat : to_string[n] \in Seq(Digits) /\ Len(to_string[n]) \in Nat \ {0}
  /\ \A n \in 0 .. (Base - 1) : n \in 0 .. 9 /\ to_string[n] = <<Digit(n)>>
<1>1. ASSUME NEW n \in Nat, n < Base PROVE n \in 0 .. 9 /\ to_string[n] = <<Digit(n)>>
  BY <1>1, ToStringDefined, QuotientFacts DEF Written
<1>2. ASSUME NEW n \in Nat, n >= Base
      PROVE  /\ to_string[n] = Append(to_string[n \div Base], Digit(n % Base))
             /\ n % Base \in 0 .. 9 /\ n \div Base \in Nat /\ n \div Base < n
  <2>1. ~ (n < Base)
    BY <1>2, BaseAssumption
  <2>2. to_string[n] = Append(to_string[n \div Base], Digit(n % Base))
    BY <2>1, ToStringDefined DEF Written
  <2>. QED
    BY <1>2, <2>2, QuotientFacts
<1> DEFINE Right(n) == to_string[n] \in Seq(Digits) /\ to_string[n] # <<>>
           bad == { n \in Nat : ~ Right(n) }
<1>3. bad = {}
  <2>1. SUFFICES ASSUME bad # {} PROVE FALSE
    OBVIOUS
  <2>2. PICK n \in bad : \A k \in bad : n <= k
    <3>1. bad \subseteq Nat
      OBVIOUS
    <3> HIDE DEF bad
    <3>. QED
      BY <2>1, <3>1, Smallest
  <2>3. n \in Nat
    OBVIOUS
  <2>4. CASE n < Base
    <3>1. Digit(n) \in Digits /\ to_string[n] = <<Digit(n)>>
      BY <1>1, <2>3, <2>4 DEF Digits
    <3> DEFINE d == Digit(n)
    <3> HIDE DEF d
    <3>2. <<d>> \in Seq(Digits) /\ <<d>> # <<>>
      BY <3>1 DEF d
    <3>3. Right(n)
      BY <3>1, <3>2 DEF d
    <3>. QED
      BY <3>3
  <2>5. CASE n >= Base
    <3> DEFINE q == n \div Base
               d == Digit(n % Base)
    <3>1. q \in Nat /\ q < n /\ d \in Digits /\ to_string[n] = Append(to_string[q], d)
      BY <1>2, <2>3, <2>5 DEF Digits
    <3> HIDE DEF q, d
    <3>2. q \notin bad
      BY <2>2, <2>3, <3>1
    <3>3. to_string[q] \in Seq(Digits)
      BY <3>1, <3>2
    <3>4. Append(to_string[q], d) \in Seq(Digits) /\ Append(to_string[q], d) # <<>>
      BY <3>1, <3>3, AppendProperties
    <3>5. Right(n)
      BY <3>1, <3>4
    <3>. QED
      BY <3>5
  <2>. QED
    BY <2>3, <2>4, <2>5, BaseAssumption
<1>4. \A n \in Nat : Right(n)
  BY <1>3
<1>5. ASSUME NEW n \in Nat
      PROVE  to_string[n] \in Seq(Digits) /\ Len(to_string[n]) \in Nat \ {0}
  BY <1>4, EmptySeq
<1>6. ASSUME NEW n \in 0 .. (Base - 1) PROVE n \in Nat /\ n < Base
  BY BaseAssumption
<1>. QED
  BY <1>1, <1>5, <1>6

-----------------------------------------------------------------------------
(***************************************************************************)
(* Placeholders, and the places where a text has them.                     *)
(***************************************************************************)
Chars ==
  Letters \cup (UNION { Range(text) : text \in Texts }) \cup Digits \cup {"{", "}", "a", "T"}

LEMMA Concatenated ==
  ASSUME NEW S, NEW s \in Seq(S), NEW t \in Seq(S)
  PROVE  /\ s \o t \in Seq(S) /\ Len(s) \in Nat /\ Len(t) \in Nat
         /\ Len(s \o t) = Len(s) + Len(t)
         /\ \A d \in 1 .. Len(s) : (s \o t)[d] = s[d]
         /\ \A d \in 1 .. Len(t) : (s \o t)[Len(s) + d] = t[d]
<1>1. Len(s) \in Nat /\ Len(t) \in Nat
  BY LenProperties
<1>. QED
  BY <1>1, ConcatProperties

LEMMA OneCharacter ==
  ASSUME NEW S, NEW a \in S
  PROVE  <<a>> \in Seq(S) /\ Len(<<a>>) = 1 /\ <<a>>[1] = a
OBVIOUS

\* A text between two characters.
Bracket(a, text, b) == (<<a>> \o text) \o <<b>>

Between(S, a, text, b, all) ==
  /\ all \in Seq(S) /\ Len(text) \in Nat /\ Len(all) = Len(text) + 2
  /\ all[1] = a /\ all[Len(text) + 2] = b
  /\ \A d \in 1 .. Len(text) : all[d + 1] = text[d]

LEMMA Bracketed ==
  ASSUME NEW S, NEW a \in S, NEW b \in S, NEW text \in Seq(S),
         NEW all, all = Bracket(a, text, b)
  PROVE  Between(S, a, text, b, all)
<1> DEFINE open == <<a>>
           close == <<b>>
           front == open \o text
<1>1. /\ open \in Seq(S) /\ Len(open) = 1 /\ open[1] = a
      /\ close \in Seq(S) /\ Len(close) = 1 /\ close[1] = b
  BY OneCharacter
<1>2. all = front \o close
  BY DEF Bracket
<1> HIDE DEF open, close
<1>3. /\ front \in Seq(S) /\ Len(text) \in Nat /\ Len(front) = Len(open) + Len(text)
      /\ \A d \in 1 .. Len(open) : front[d] = open[d]
      /\ \A d \in 1 .. Len(text) : front[Len(open) + d] = text[d]
  <2>1. open \in Seq(S) /\ text \in Seq(S)
    BY <1>1
  <2>. QED
    BY <2>1, Concatenated
<1> HIDE DEF front
<1>4. /\ all \in Seq(S) /\ Len(all) = Len(front) + Len(close)
      /\ \A d \in 1 .. Len(front) : all[d] = front[d]
      /\ \A d \in 1 .. Len(close) : all[Len(front) + d] = close[d]
  <2>1. front \in Seq(S) /\ close \in Seq(S)
    BY <1>1, <1>3
  <2>. QED
    BY <1>2, <2>1, Concatenated
<1>5. Len(front) = Len(text) + 1
  BY <1>1, <1>3
<1>6. all[1] = a
  BY <1>1, <1>3, <1>4, <1>5
<1>7. all[Len(text) + 2] = b
  <2>1. Len(front) + 1 = Len(text) + 2 /\ 1 \in 1 .. Len(close)
    BY <1>1, <1>3, <1>5
  <2>2. all[Len(front) + 1] = close[1]
    BY <1>4, <2>1
  <2>. QED
    BY <1>1, <2>1, <2>2
<1>8. ASSUME NEW d \in 1 .. Len(text) PROVE all[d + 1] = text[d]
  <2>1. d + 1 \in 1 .. Len(front) /\ Len(open) + d = d + 1
    BY <1>1, <1>3, <1>5
  <2>2. all[d + 1] = front[d + 1]
    BY <1>4, <2>1
  <2>3. front[Len(open) + d] = text[d]
    BY <1>3
  <2>. QED
    BY <2>1, <2>2, <2>3
<1>. QED
  BY <1>1, <1>3, <1>4, <1>5, <1>6, <1>7, <1>8 DEF Between

\* A placeholder has its braces at its ends only.
LEMMA PlaceholderFacts ==
  ASSUME NEW n \in Nat
  PROVE  /\ Placeholder(n) \in Seq(Chars)
         /\ Len(Placeholder(n)) \in Nat /\ Len(Placeholder(n)) >= 3
         /\ Placeholder(n)[1] = "{" /\ Placeholder(n)[Len(Placeholder(n))] = "}"
         /\ \A d \in 2 .. (Len(Placeholder(n)) - 1) :
              Placeholder(n)[d] # "{" /\ Placeholder(n)[d] # "}"
         /\ n < Base => Len(Placeholder(n)) = 3 /\ Placeholder(n)[2] = Digit(n) /\ n \in 0 .. 9
<1> DEFINE ts == to_string[n]
           all == Placeholder(n)
<1>1. /\ ts \in Seq(Chars) /\ Len(ts) \in Nat \ {0}
      /\ \A d \in 1 .. Len(ts) : ts[d] # "{" /\ ts[d] # "}"
  <2>1. ts \in Seq(Digits) /\ Len(ts) \in Nat \ {0}
    BY ToStringFacts
  <2>2. \A d \in 1 .. Len(ts) : ts[d] \in Digits
    BY <2>1, ElementOfSeq
  <2>3. \A c \in Digits : c # "{" /\ c # "}"
    BY DigitFacts DEF Digits
  <2>4. Digits \subseteq Chars
    BY DEF Chars
  <2>5. ts \in Seq(Chars)
    BY <2>1, <2>4, SeqMonotonic
  <2>. QED
    BY <2>1, <2>2, <2>3, <2>5
<1>2. n < Base => Len(ts) = 1 /\ ts[1] = Digit(n) /\ n \in 0 .. 9
  <2>1. SUFFICES ASSUME n < Base PROVE Len(ts) = 1 /\ ts[1] = Digit(n) /\ n \in 0 .. 9
    OBVIOUS
  <2>2. n \in 0 .. (Base - 1)
    BY <2>1, BaseAssumption
  <2> DEFINE d == Digit(n)
  <2>3. ts = <<d>> /\ n \in 0 .. 9
    BY <2>2, ToStringFacts
  <2> HIDE DEF d, ts
  <2>. QED
    BY <2>3 DEF d
<1>3. /\ all \in Seq(Chars) /\ Len(all) = Len(ts) + 2
      /\ all[1] = "{" /\ all[Len(ts) + 2] = "}"
      /\ \A d \in 1 .. Len(ts) : all[d + 1] = ts[d]
  <2>1. "{" \in Chars /\ "}" \in Chars
    BY DEF Chars
  <2>2. all = Bracket("{", ts, "}")
    BY DEF Placeholder, Bracket
  <2>3. ts \in Seq(Chars)
    BY <1>1
  <2> HIDE DEF ts, all
  <2>. QED
    <3>1. Between(Chars, "{", ts, "}", all)
      BY <2>1, <2>2, <2>3, Bracketed
    <3>. QED
      BY <3>1 DEF Between
<1> HIDE DEF ts, all
<1>4. Len(all) \in Nat /\ Len(all) >= 3 /\ Len(all) - 1 = Len(ts) + 1
  <2>1. Len(ts) \in Nat \ {0} /\ Len(all) = Len(ts) + 2
    BY <1>1, <1>3
  <2>. QED
    BY <2>1
<1>5. ASSUME NEW d \in 2 .. (Len(all) - 1) PROVE all[d] # "{" /\ all[d] # "}"
  <2>1. PICK e \in 1 .. Len(ts) : d = e + 1
    <3>1. d - 1 \in 1 .. Len(ts) /\ d = (d - 1) + 1
      BY <1>4
    <3>. QED
      BY <3>1
  <2>2. all[d] = ts[e]
    BY <1>3, <2>1
  <2>. QED
    BY <1>1, <2>2
<1>6. n < Base => Len(all) = 3 /\ all[2] = Digit(n) /\ n \in 0 .. 9
  <2>1. SUFFICES ASSUME n < Base PROVE Len(all) = 3 /\ all[2] = Digit(n) /\ n \in 0 .. 9
    OBVIOUS
  <2>2. Len(ts) = 1 /\ ts[1] = Digit(n) /\ n \in 0 .. 9
    BY <1>2, <2>1
  <2>3. 1 \in 1 .. Len(ts) /\ 1 + 1 = 2
    BY <2>2
  <2>4. all[2] = ts[1]
    BY <1>3, <2>3
  <2>5. Len(all) = 3
    <3>1. Len(ts) = 1 /\ Len(all) = Len(ts) + 2
      BY <1>3, <2>2
    <3>. QED
      BY <3>1
  <2>. QED
    BY <2>2, <2>4, <2>5
<1>7. all[Len(all)] = "}"
  BY <1>3
<1>. QED
  BY <1>3, <1>4, <1>5, <1>6, <1>7 DEF all

\* Whatever follows: where a placeholder is, there is no other one.
At(part, text, i) == \A d \in 1 .. Len(part) : text[i + d - 1] = part[d]

LEMMA PlaceholdersApart ==
  ASSUME NEW m \in Nat, NEW n \in Nat, NEW text, NEW i \in Nat,
         At(Placeholder(m), text, i), At(Placeholder(n), text, i)
  PROVE  /\ Placeholder(m) = Placeholder(n)
         /\ m < Base /\ n < Base => m = n
<1> DEFINE p == Placeholder(m)
           q == Placeholder(n)
<1>1. /\ p \in Seq(Chars) /\ q \in Seq(Chars)
      /\ Len(p) \in Nat /\ Len(p) >= 3 /\ p[Len(p)] = "}"
      /\ Len(q) \in Nat /\ Len(q) >= 3 /\ q[Len(q)] = "}"
      /\ \A d \in 2 .. (Len(p) - 1) : p[d] # "}"
      /\ \A d \in 2 .. (Len(q) - 1) : q[d] # "}"
      /\ m < Base => p[2] = Digit(m) /\ m \in 0 .. 9
      /\ n < Base => q[2] = Digit(n) /\ n \in 0 .. 9
  BY PlaceholderFacts
<1>2. \A d \in Nat : d \in 1 .. Len(p) /\ d \in 1 .. Len(q) => p[d] = q[d]
  BY DEF At
<1> HIDE DEF p, q
<1>3. Len(p) = Len(q)
  <2>0. Len(p) \in Nat /\ Len(p) >= 3 /\ Len(q) \in Nat /\ Len(q) >= 3
    BY <1>1
  <2>1. CASE Len(p) < Len(q)
    <3>1. Len(p) \in 2 .. (Len(q) - 1) /\ Len(p) \in 1 .. Len(p) /\ Len(p) \in 1 .. Len(q)
      BY <2>0, <2>1
    <3>. QED
      BY <1>1, <1>2, <3>1
  <2>2. CASE Len(q) < Len(p)
    <3>1. Len(q) \in 2 .. (Len(p) - 1) /\ Len(q) \in 1 .. Len(p) /\ Len(q) \in 1 .. Len(q)
      BY <2>0, <2>2
    <3>. QED
      BY <1>1, <1>2, <3>1
  <2>. QED
    BY <2>0, <2>1, <2>2
<1>4. \A d \in 1 .. Len(p) : p[d] = q[d]
  BY <1>2, <1>3
<1>5. p = q
  BY <1>1, <1>3, <1>4, SeqEqual
<1>6. m < Base /\ n < Base => m = n
  BY <1>1, <1>5, DigitFacts
<1>. QED
  BY <1>5, <1>6 DEF p, q

LEMMA OccurrenceFacts ==
  ASSUME NEW part \in Seq(Chars), NEW text \in Seq(Chars), NEW i
  PROVE  i \in Occurrences(part, text) <=>
           /\ i \in 1 .. (Len(text) - Len(part) + 1)
           /\ \A d \in 1 .. Len(part) : text[i + d - 1] = part[d]
<1>1. Len(part) \in Nat /\ Len(text) \in Nat
  BY LenProperties
<1>2. ASSUME NEW j \in 1 .. (Len(text) - Len(part) + 1)
      PROVE  SubSeq(text, j, j + Len(part) - 1) = part
               <=> \A d \in 1 .. Len(part) : text[j + d - 1] = part[d]
  <2> DEFINE cut == SubSeq(text, j, j + Len(part) - 1)
  <2>1. \A x \in j .. (j + Len(part) - 1) : text[x] \in Chars
    BY <1>1, ElementOfSeq
  <2>2. /\ cut \in Seq(Chars) /\ Len(cut) = Len(part)
        /\ \A d \in 1 .. Len(part) : cut[d] = text[j + d - 1]
    BY <1>1, <2>1, SubSeqProperties
  <2> HIDE DEF cut
  <2>3. cut = part <=> \A d \in 1 .. Len(part) : cut[d] = part[d]
    BY <2>2, SeqEqual
  <2>. QED
    BY <2>2, <2>3 DEF cut
<1>. QED
  BY <1>2 DEF Occurrences

-----------------------------------------------------------------------------
(***************************************************************************)
(* The format of a call, its arguments, and the places of its format.      *)
(***************************************************************************)
\* The place of argument n that is filled.
First(n) == Min(Places(n))

Width(n) == Len(Placeholder(n))

Covers(n, i) == i .. (i + Width(n) - 1)

\* The arguments before the first one without a place.
Met == Max({ k \in 0 .. Len(call.args) : \A n \in 0 .. (k - 1) : Places(n) # {} })

\* What stands for character i of the format when the first k arguments are filled
\* in, each in its first place.
Piece(k, i) ==
  IF \E n \in 0 .. (k - 1) : i = First(n)
  THEN call.args[(CHOOSE n \in 0 .. (k - 1) : i = First(n)) + 1].text
  ELSE IF \E n \in 0 .. (k - 1) : i \in Covers(n, First(n)) THEN <<>> ELSE <<Format[i]>>

Filled(k) == FlattenSeq([i \in 1 .. Len(Format) |-> Piece(k, i)])

\* What Plain asks for, of the arguments that are met: a number may have further
\* places, and arguments behind one that has none may have places too.
Readable ==
  /\ \A i \in 1 .. Len(Format) :
       Format[i] = "{" => \E n \in 0 .. (MaxArgs - 1) : i \in Places(n)
  /\ \A n \in 1 .. Met :
       /\ call.args[n].specialised
       /\ ~Contains(call.args[n].text, "{") /\ ~Contains(call.args[n].text, "}")
  /\ Met <= Base

LEMMA Extremes ==
  /\ \A T : T \subseteq Nat /\ T # {} => Min(T) \in T /\ \A n \in T : Min(T) <= n
  /\ \A T, b : T \subseteq 0 .. b /\ T # {} /\ b \in Nat =>
       Max(T) \in T /\ \A n \in T : n <= Max(T)
<1>1. ASSUME NEW T, T \subseteq Nat, T # {} PROVE Min(T) \in T /\ \A n \in T : Min(T) <= n
  BY <1>1, Smallest DEF Min
<1>2. ASSUME NEW T, NEW b \in Nat, T \subseteq 0 .. b, T # {}
      PROVE  Max(T) \in T /\ \A n \in T : n <= Max(T)
  <2> DEFINE short == { b - n : n \in T }
  <2>1. short \subseteq Nat /\ short # {}
    <3>1. \A n \in T : b - n \in Nat
      BY <1>2
    <3>. QED
      BY <1>2, <3>1
  <2>2. PICK m \in short : \A n \in short : m <= n
    <3> HIDE DEF short
    <3>. QED
      BY <2>1, Smallest
  <2>3. PICK x \in T : m = b - x
    OBVIOUS
  <2>4. \A n \in T : b - x <= b - n
    BY <2>2, <2>3
  <2>5. \A n \in T : x >= n
    BY <1>2, <2>3, <2>4
  <2>6. Max(T) \in T /\ \A n \in T : Max(T) >= n
    BY <2>3, <2>5 DEF Max
  <2>. QED
    BY <1>2, <2>6
<1>. QED
  BY <1>1, <1>2

LEMMA CallFacts ==
  ASSUME call \in Calls
  PROVE  /\ Format \in Seq(Chars) /\ Len(Format) \in Nat /\ Len(call.args) \in Nat
         /\ \A n \in 1 .. Len(call.args) : call.args[n].text \in Seq(Chars)
<1>1. Pieces \subseteq Seq(Chars)
  <2>1. \A n \in 0 .. (MaxArgs - 1) : Placeholder(n) \in Seq(Chars)
    <3>1. \A n \in 0 .. (MaxArgs - 1) : n \in Nat
      BY BoundsAssumption
    <3>. QED
      BY <3>1, PlaceholderFacts
  <2>2. \A c \in Letters : <<c>> \in Seq(Chars)
    <3>1. Letters \subseteq Chars
      BY DEF Chars
    <3>. QED
      BY <3>1, OneCharacter
  <2>. QED
    BY <2>1, <2>2 DEF Pieces
<1>2. Format \in Seq(Chars)
  <2>1. PICK m \in 0 .. MaxPieces : call.fmt \in [1 .. m -> Pieces]
    BY DEF Calls, SeqOf
  <2>2. m \in Nat
    BY BoundsAssumption
  <2> DEFINE Text == Seq(Chars)
             fmt == call.fmt
  <2>3. fmt \in [1 .. m -> Text]
    BY <1>1, <2>1
  <2> HIDE DEF Text, fmt
  <2>4. fmt \in Seq(Text)
    BY <2>2, <2>3
  <2>5. call.fmt \in Seq(Seq(Chars))
    BY <2>4 DEF Text, fmt
  <2>. QED
    BY <2>5, FlattenSteps DEF Format
<1>3. /\ Len(call.args) \in Nat
      /\ \A n \in 1 .. Len(call.args) : call.args[n] \in Arguments
  <2>1. PICK m \in 0 .. MaxArgs : call.args \in [1 .. m -> Arguments]
    BY DEF Calls, SeqOf
  <2>2. m \in Nat
    BY BoundsAssumption
  <2>3. call.args \in Seq(Arguments)
    BY <2>1, <2>2
  <2>. QED
    BY <2>3, LenProperties, ElementOfSeq
<1>4. ASSUME NEW argument \in Arguments PROVE argument.text \in Seq(Chars)
  <2>1. ASSUME NEW text \in Texts PROVE text \in Seq(Chars)
    <3>1. text \in Seq(Range(text))
      BY TextsAssumption
    <3>2. Range(text) \subseteq Chars
      BY DEF Chars
    <3>. QED
      BY <3>1, <3>2, SeqMonotonic
  <2>2. <<"a">> \in Seq(Chars)
    <3>1. "a" \in Chars
      BY DEF Chars
    <3>. QED
      BY <3>1, OneCharacter
  <2>3. argument.text \in Texts \/ argument.text = <<"a">>
    BY DEF Arguments
  <2>. QED
    BY <2>1, <2>2, <2>3
<1>. QED
  BY <1>2, <1>3, <1>4, LenProperties

\* A place is within the format, and has an opening brace at its start only.
LEMMA PlaceFacts ==
  ASSUME call \in Calls, NEW n \in Nat, NEW i \in Places(n)
  PROVE  /\ i \in 1 .. Len(Format) /\ i + Width(n) - 1 \in 1 .. Len(Format)
         /\ Width(n) \in Nat /\ Width(n) >= 3
         /\ \A d \in 1 .. Width(n) : Format[i + d - 1] = Placeholder(n)[d]
         /\ Format[i] = "{"
         /\ \A x \in (i + 1) .. (i + Width(n) - 1) : Format[x] # "{"
<1>1. Format \in Seq(Chars) /\ Len(Format) \in Nat /\ Placeholder(n) \in Seq(Chars)
  BY CallFacts, PlaceholderFacts
<1>2. /\ i \in 1 .. (Len(Format) - Width(n) + 1)
      /\ \A d \in 1 .. Width(n) : Format[i + d - 1] = Placeholder(n)[d]
  BY <1>1, OccurrenceFacts DEF Places, Width
<1>3. Width(n) \in Nat /\ Width(n) >= 3
  BY PlaceholderFacts DEF Width
<1>4. /\ i \in 1 .. Len(Format) /\ i + Width(n) - 1 \in 1 .. Len(Format)
      /\ 1 \in 1 .. Width(n) /\ i + 1 - 1 = i
  <2>1. Len(Format) \in Nat /\ i \in 1 .. (Len(Format) - Width(n) + 1)
    BY <1>1, <1>2
  <2>. QED
    BY <1>3, <2>1
<1>5. Format[i] = "{"
  <2>1. Format[i + 1 - 1] = Placeholder(n)[1]
    BY <1>2, <1>4
  <2>. QED
    BY <1>4, <2>1, PlaceholderFacts
<1>6. ASSUME NEW x \in (i + 1) .. (i + Width(n) - 1) PROVE Format[x] # "{"
  <2>1. PICK d \in 2 .. Width(n) : x = i + d - 1 /\ d \in 1 .. Width(n)
    <3>1. x - i + 1 \in 2 .. Width(n) /\ x = i + (x - i + 1) - 1
      BY <1>3, <1>4
    <3>. QED
      BY <3>1
  <2>2. Format[x] = Placeholder(n)[d]
    BY <1>2, <2>1
  <2>3. Placeholder(n)[d] # "{"
    <3>1. CASE d = Width(n)
      BY <3>1, PlaceholderFacts DEF Width
    <3>2. CASE d # Width(n)
      <4>1. d \in 2 .. (Width(n) - 1)
        BY <1>3, <3>2
      <4>. QED
        BY <4>1, PlaceholderFacts DEF Width
    <3>. QED
      BY <3>1, <3>2
  <2>. QED
    BY <2>2, <2>3
<1>. QED
  BY <1>2, <1>3, <1>4, <1>5, <1>6

\* Two places do not meet.
LEMMA Overlap ==
  ASSUME NEW a \in Nat, NEW b \in Nat, NEW c \in Nat, NEW d \in Nat,
         NEW x \in a .. (a + c - 1), x \in b .. (b + d - 1), a < b
  PROVE  b \in (a + 1) .. (a + c - 1)
OBVIOUS

LEMMA PlacesApart ==
  ASSUME call \in Calls, NEW m \in Nat, NEW n \in Nat, NEW f \in Places(m), NEW i \in Places(n),
         Covers(m, f) \cap Covers(n, i) # {}
  PROVE  f = i
<1>1. f \in Nat /\ Width(m) \in Nat /\ Format[f] = "{"
  <2>1. Width(m) \in Nat /\ Format[f] = "{"
    BY PlaceFacts
  <2>2. f \in Nat
    BY DEF Places, Occurrences
  <2>. QED
    BY <2>1, <2>2
<1>2. i \in Nat /\ Width(n) \in Nat /\ Format[i] = "{"
  <2>1. Width(n) \in Nat /\ Format[i] = "{"
    BY PlaceFacts
  <2>2. i \in Nat
    BY DEF Places, Occurrences
  <2>. QED
    BY <2>1, <2>2
<1>3. \A y \in (f + 1) .. (f + Width(m) - 1) : Format[y] # "{"
  BY PlaceFacts
<1>4. \A y \in (i + 1) .. (i + Width(n) - 1) : Format[y] # "{"
  BY PlaceFacts
<1>5. PICK x : x \in f .. (f + Width(m) - 1) /\ x \in i .. (i + Width(n) - 1)
  BY DEF Covers
<1>6. ~ (f < i)
  <2>1. SUFFICES ASSUME f < i PROVE i \in (f + 1) .. (f + Width(m) - 1)
    BY <1>2, <1>3
  <2>2. f \in Nat /\ i \in Nat /\ Width(m) \in Nat /\ Width(n) \in Nat
    BY <1>1, <1>2
  <2>. QED
    BY <1>5, <2>1, <2>2, Overlap
<1>7. ~ (i < f)
  <2>1. SUFFICES ASSUME i < f PROVE f \in (i + 1) .. (i + Width(n) - 1)
    BY <1>1, <1>4
  <2>2. f \in Nat /\ i \in Nat /\ Width(m) \in Nat /\ Width(n) \in Nat
    BY <1>1, <1>2
  <2>. QED
    BY <1>5, <2>1, <2>2, Overlap
<1>8. f \in Nat /\ i \in Nat
  BY <1>1, <1>2
<1>. QED
  BY <1>6, <1>7, <1>8

\* The arguments before the first without a place.
LEMMA MetFacts ==
  ASSUME call \in Calls
  PROVE  /\ Met \in 0 .. Len(call.args)
         /\ \A n \in 0 .. (Met - 1) : First(n) \in Places(n) /\ \A i \in Places(n) : First(n) <= i
         /\ Met < Len(call.args) => Places(Met) = {}
<1> DEFINE b == Len(call.args)
           T == { k \in 0 .. b : \A n \in 0 .. (k - 1) : Places(n) # {} }
<1>1. b \in Nat
  BY CallFacts
<1>2. 0 \in T /\ T \subseteq 0 .. b
  BY <1>1
<1>3. Met = Max(T)
  BY DEF Met
<1>4. Met \in T /\ \A k \in T : k <= Met
  <2> HIDE DEF T, b
  <2>. QED
    BY <1>1, <1>2, <1>3, Extremes
<1>5. ASSUME NEW n \in 0 .. (Met - 1)
      PROVE  First(n) \in Places(n) /\ \A i \in Places(n) : First(n) <= i
  <2>1. Places(n) # {} /\ n \in Nat
    BY <1>4
  <2>2. Places(n) \subseteq Nat
    BY DEF Places, Occurrences
  <2>. QED
    BY <2>1, <2>2, Extremes DEF First
<1>6. ASSUME Met < b, Places(Met) # {} PROVE FALSE
  <2>1. Met \in 0 .. b
    BY <1>4
  <2>2. Met + 1 \in 0 .. b
    BY <1>1, <1>6, <2>1
  <2>3. ASSUME NEW n \in 0 .. Met PROVE Places(n) # {}
    BY <1>4, <1>6, <2>1
  <2>4. Met + 1 \in T
    BY <2>1, <2>2, <2>3
  <2>5. Met + 1 <= Met
    BY <1>4, <2>4
  <2>. QED
    BY <2>1, <2>5
<1>. QED
  BY <1>4, <1>5, <1>6

-----------------------------------------------------------------------------
(***************************************************************************)
(* What stands for each character when the first places of a plain call    *)
(* are filled.                                                             *)
(***************************************************************************)
Cells(k) == [i \in 1 .. Len(Format) |-> Piece(k, i)]

HasNo(text, char) == \A o \in 1 .. Len(text) : text[o] # char

LEMMA ReadableFacts ==
  ASSUME call \in Calls, Readable
  PROVE  /\ Met \in Nat /\ Met <= Base
         /\ \A m \in 0 .. (Met - 1) :
              /\ m \in Nat /\ m < Base /\ Width(m) = 3
              /\ First(m) \in Places(m) /\ First(m) \in Nat
              /\ Covers(m, First(m)) = First(m) .. (First(m) + 2)
              /\ call.args[m + 1].text \in Seq(Chars) /\ HasNo(call.args[m + 1].text, "{")
              /\ Printed(call.args[m + 1]) = call.args[m + 1].text
<1>1. Met \in 0 .. Len(call.args) /\ Len(call.args) \in Nat
  BY MetFacts, CallFacts
<1>2. Met \in Nat /\ Met <= Base
  <2>1. Met <= Base
    BY DEF Readable
  <2>. QED
    BY <1>1, <2>1
<1>3. ASSUME NEW m \in 0 .. (Met - 1)
      PROVE  /\ m \in Nat /\ m < Base /\ Width(m) = 3
             /\ First(m) \in Places(m) /\ First(m) \in Nat
             /\ Covers(m, First(m)) = First(m) .. (First(m) + 2)
             /\ call.args[m + 1].text \in Seq(Chars) /\ HasNo(call.args[m + 1].text, "{")
             /\ Printed(call.args[m + 1]) = call.args[m + 1].text
  <2>1. m \in Nat /\ m < Base
    BY <1>2, BaseAssumption
  <2>2. Width(m) = 3
    BY <2>1, PlaceholderFacts DEF Width
  <2>3. First(m) \in Places(m)
    BY MetFacts
  <2>4. First(m) \in Nat
    BY <2>3 DEF Places, Occurrences
  <2>5. Covers(m, First(m)) = First(m) .. (First(m) + 2)
    BY <2>2, <2>4 DEF Covers
  <2>6. m + 1 \in 1 .. Met /\ m + 1 \in 1 .. Len(call.args)
    BY <1>1
  <2>7. call.args[m + 1].text \in Seq(Chars)
    BY <2>6, CallFacts
  <2>8. call.args[m + 1].specialised /\ ~ Contains(call.args[m + 1].text, "{")
    BY <2>6 DEF Readable
  <2>9. HasNo(call.args[m + 1].text, "{")
    BY <2>8 DEF HasNo, Contains
  <2>10. Printed(call.args[m + 1]) = call.args[m + 1].text
    BY <2>8 DEF Printed
  <2>. QED
    BY <2>1, <2>2, <2>3, <2>4, <2>5, <2>7, <2>9, <2>10
<1>. QED
  BY <1>2, <1>3

LEMMA FirstsApart ==
  ASSUME call \in Calls, Readable, NEW m \in 0 .. (Met - 1), NEW n \in 0 .. (Met - 1),
         Covers(m, First(m)) \cap Covers(n, First(n)) # {}
  PROVE  m = n
<1>1. /\ m \in Nat /\ n \in Nat /\ m < Base /\ n < Base
      /\ First(m) \in Places(m) /\ First(n) \in Places(n) /\ First(m) \in Nat
  BY ReadableFacts
<1>2. First(m) = First(n)
  BY <1>1, PlacesApart
<1>3. At(Placeholder(m), Format, First(m))
  BY <1>1, PlaceFacts DEF Width, At
<1>4. At(Placeholder(n), Format, First(m))
  BY <1>1, <1>2, PlaceFacts DEF Width, At
<1>. QED
  BY <1>1, <1>3, <1>4, PlaceholdersApart

LEMMA PieceFacts ==
  ASSUME call \in Calls, Readable, NEW k \in 0 .. Met
  PROVE  /\ \A m \in 0 .. (k - 1) :
              /\ Piece(k, First(m)) = call.args[m + 1].text
              /\ Piece(k, First(m) + 1) = <<>> /\ Piece(k, First(m) + 2) = <<>>
         /\ \A i : (\A m \in 0 .. (k - 1) : i \notin Covers(m, First(m)))
                      => Piece(k, i) = <<Format[i]>>
<1>1. \A m \in 0 .. (k - 1) :
        /\ m \in 0 .. (Met - 1) /\ First(m) \in Nat
        /\ Covers(m, First(m)) = First(m) .. (First(m) + 2)
  <2>1. \A m \in 0 .. (k - 1) : m \in 0 .. (Met - 1)
    <3>1. Met \in Nat
      BY ReadableFacts
    <3>. QED
      BY <3>1
  <2>. QED
    BY <2>1, ReadableFacts
<1>2. \A m, n \in 0 .. (k - 1) : \A x :
        x \in Covers(m, First(m)) /\ x \in Covers(n, First(n)) => m = n
  BY <1>1, FirstsApart
<1>3. \A m \in 0 .. (k - 1) : /\ First(m) \in Covers(m, First(m))
                              /\ First(m) + 1 \in Covers(m, First(m))
                              /\ First(m) + 2 \in Covers(m, First(m))
                              /\ First(m) # First(m) + 1 /\ First(m) # First(m) + 2
  BY <1>1
<1>4. ASSUME NEW m \in 0 .. (k - 1) PROVE Piece(k, First(m)) = call.args[m + 1].text
  <2>1. \A n \in 0 .. (k - 1) : First(m) = First(n) <=> n = m
    BY <1>2, <1>3
  <2>2. (CHOOSE n \in 0 .. (k - 1) : First(m) = First(n)) = m
    BY <2>1
  <2>. QED
    BY <2>1, <2>2 DEF Piece
<1>5. ASSUME NEW m \in 0 .. (k - 1), NEW x \in Covers(m, First(m)), x # First(m)
      PROVE  Piece(k, x) = <<>>
  <2>1. ~ \E n \in 0 .. (k - 1) : x = First(n)
    BY <1>2, <1>3, <1>5
  <2>. QED
    BY <2>1 DEF Piece
<1>6. ASSUME NEW i, \A m \in 0 .. (k - 1) : i \notin Covers(m, First(m))
      PROVE  Piece(k, i) = <<Format[i]>>
  <2>1. ~ \E n \in 0 .. (k - 1) : i = First(n)
    BY <1>3, <1>6
  <2>. QED
    BY <1>6, <2>1 DEF Piece
<1>. QED
  BY <1>3, <1>4, <1>5, <1>6

LEMMA CellsFacts ==
  ASSUME call \in Calls, Readable, NEW k \in 0 .. Met
  PROVE  /\ Cells(k) \in Lists(Chars) /\ Len(Cells(k)) = Len(Format) /\ Len(Format) \in Nat
         /\ Filled(k) = FlattenSeq(Cells(k)) /\ Filled(k) \in Seq(Chars)
         /\ \A i \in 1 .. Len(Format) : Cells(k)[i] = Piece(k, i)
<1>1. Format \in Seq(Chars) /\ Len(Format) \in Nat
  BY CallFacts
<1>2. ASSUME NEW i \in 1 .. Len(Format) PROVE Piece(k, i) \in Seq(Chars)
  <2>1. CASE \E m \in 0 .. (k - 1) : i \in Covers(m, First(m))
    <3>1. PICK m \in 0 .. (k - 1) : i \in Covers(m, First(m))
      BY <2>1
    <3>2. m \in 0 .. (Met - 1)
      <4>1. Met \in Nat
        BY ReadableFacts
      <4>. QED
        BY <4>1
    <3>3. i \in First(m) .. (First(m) + 2) /\ First(m) \in Nat
      BY <3>1, <3>2, ReadableFacts
    <3>4. i = First(m) \/ i = First(m) + 1 \/ i = First(m) + 2
      BY <3>3
    <3>5. call.args[m + 1].text \in Seq(Chars)
      BY <3>2, ReadableFacts
    <3>6. <<>> \in Seq(Chars)
      BY EmptySeq
    <3>. QED
      BY <3>4, <3>5, <3>6, PieceFacts
  <2>2. CASE \A m \in 0 .. (k - 1) : i \notin Covers(m, First(m))
    <3>1. Format[i] \in Chars
      BY <1>1, ElementOfSeq
    <3>2. <<Format[i]>> \in Seq(Chars)
      BY <3>1, OneCharacter
    <3>. QED
      BY <2>2, <3>2, PieceFacts
  <2>. QED
    BY <2>1, <2>2
<1>3. Cells(k) \in Lists(Chars) /\ Len(Cells(k)) = Len(Format)
  <2> DEFINE Text == Seq(Chars)
             n == Len(Format)
             cells == [i \in 1 .. n |-> Piece(k, i)]
  <2>1. \A i \in 1 .. n : Piece(k, i) \in Text
    BY <1>2
  <2>2. n \in Nat
    BY <1>1
  <2> HIDE DEF Text, n
  <2>3. cells \in Seq(Text) /\ Len(cells) = n
    BY <2>1, <2>2
  <2>. QED
    BY <2>3 DEF Text, n, Cells, Lists
<1>. QED
  BY <1>1, <1>3, FlattenSteps DEF Filled, Cells, Lists

\* A place that is not filled yet stands in the text as it does in the format.
Open(k, i) == \A m \in 0 .. (k - 1) : i # First(m)

LEMMA Untouched ==
  ASSUME call \in Calls, Readable, NEW k \in 0 .. Met, NEW n \in Nat, NEW i \in Places(n), Open(k, i)
  PROVE  \A x \in Covers(n, i) : x \in 1 .. Len(Format) /\ Single(Cells(k), Format, x)
<1>1. TAKE x \in Covers(n, i)
<1>2. x \in 1 .. Len(Format)
  <2>1. /\ i \in 1 .. Len(Format) /\ i + Width(n) - 1 \in 1 .. Len(Format)
        /\ Width(n) \in Nat
    BY PlaceFacts
  <2>2. x \in i .. (i + Width(n) - 1)
    BY DEF Covers
  <2>3. Len(Format) \in Nat
    BY CallFacts
  <2>. QED
    BY <2>1, <2>2, <2>3
<1>3. ASSUME NEW m \in 0 .. (k - 1) PROVE x \notin Covers(m, First(m))
  <2>1. m \in 0 .. (Met - 1)
    <3>1. Met \in Nat
      BY ReadableFacts
    <3>. QED
      BY <3>1
  <2>2. m \in Nat /\ First(m) \in Places(m)
    BY <2>1, ReadableFacts
  <2>3. i # First(m)
    BY DEF Open
  <2>. QED
    BY <2>2, <2>3, PlacesApart
<1>4. Piece(k, x) = <<Format[x]>>
  BY <1>3, PieceFacts
<1>. QED
  BY <1>2, <1>4, CellsFacts DEF Single

LEMMA OpenPlace ==
  ASSUME call \in Calls, Readable, NEW k \in 0 .. Met, NEW n \in Nat, NEW i \in Places(n), Open(k, i)
  PROVE  /\ i \in 1 .. Len(Format) /\ i - 1 \in 0 .. Len(Format)
         /\ Reach(Cells(k), i - 1) \in Nat
         /\ Reach(Cells(k), i - 1) + 1 \in Occurrences(Placeholder(n), Filled(k))
<1> DEFINE texts == Cells(k)
           r == Reach(texts, i - 1)
           w == Width(n)
           b == i + w - 1
<1>1. /\ texts \in Lists(Chars) /\ Len(texts) = Len(Format) /\ Len(Format) \in Nat
      /\ Filled(k) = FlattenSeq(texts) /\ Filled(k) \in Seq(Chars)
  BY CellsFacts
<1>2. /\ i \in 1 .. Len(Format) /\ b \in 1 .. Len(Format) /\ w \in Nat /\ w >= 3
  BY PlaceFacts
<1>3. i \in 1 .. Len(texts) /\ b \in i .. Len(texts) /\ i - 1 \in 0 .. Len(texts)
  BY <1>1, <1>2
<1>4. \A x \in i .. b : Single(texts, Format, x)
  BY Untouched DEF Covers
<1>5. r \in Nat
  BY <1>1, <1>3, ReachGrows
<1>6. \A x \in i .. b : /\ Reach(texts, x) = r + (x - i) + 1
                         /\ Reach(texts, x) \in 1 .. Len(FlattenSeq(texts))
                         /\ FlattenSeq(texts)[Reach(texts, x)] = Format[x]
  <2> HIDE DEF texts, b, r
  <2>1. Singles(texts, Format, i, b)
    BY <1>4 DEF Singles
  <2>2. Run(texts, Format, i, b)
    BY <1>1, <1>3, <2>1, RunOfCharacters
  <2>. QED
    BY <2>2 DEF r, Run
<1> HIDE DEF texts
<1>7. ASSUME NEW d \in 1 .. w
      PROVE  r + d \in 1 .. Len(Filled(k)) /\ Filled(k)[r + 1 + d - 1] = Placeholder(n)[d]
  <2>1. /\ i + d - 1 \in i .. b /\ r + ((i + d - 1) - i) + 1 = r + d /\ r + 1 + d - 1 = r + d
    BY <1>2, <1>5
  <2>2. Reach(texts, i + d - 1) = r + d
    BY <1>6, <2>1
  <2>3. r + d \in 1 .. Len(Filled(k)) /\ Filled(k)[r + d] = Format[i + d - 1]
    BY <1>1, <1>6, <2>1, <2>2
  <2>4. Format[i + d - 1] = Placeholder(n)[d]
    BY PlaceFacts
  <2>. QED
    BY <2>1, <2>3, <2>4
<1>8. r + 1 \in 1 .. (Len(Filled(k)) - w + 1)
  <2>1. w \in 1 .. w
    BY <1>2
  <2>2. r + w \in 1 .. Len(Filled(k))
    BY <1>7, <2>1
  <2>3. Len(Filled(k)) \in Nat
    BY <1>1, LenProperties
  <2>. QED
    BY <1>2, <1>5, <2>2, <2>3, SMTT(30)
<1>9. r + 1 \in Occurrences(Placeholder(n), Filled(k))
  <2>1. Placeholder(n) \in Seq(Chars)
    BY PlaceholderFacts
  <2>2. \A d \in 1 .. w : Filled(k)[r + 1 + d - 1] = Placeholder(n)[d]
    BY <1>7
  <2> HIDE DEF r
  <2>. QED
    BY <1>1, <1>8, <2>1, <2>2, OccurrenceFacts DEF Width
<1>. QED
  BY <1>1, <1>2, <1>3, <1>5, <1>9 DEF texts

\* What opens a place in the text is a place of the format.
Brace(text, j) == text[j] = "{"

LEMMA Opened ==
  ASSUME call \in Calls, Readable, NEW k \in 0 .. Met, NEW j \in 1 .. Len(Filled(k)),
         Brace(Filled(k), j)
  PROVE  \E n \in Nat : \E i \in Places(n) : Open(k, i) /\ j = Reach(Cells(k), i - 1) + 1
<1> DEFINE texts == Cells(k)
<1>1. /\ texts \in Lists(Chars) /\ Len(texts) = Len(Format) /\ Len(Format) \in Nat
      /\ Filled(k) = FlattenSeq(texts)
      /\ \A i \in 1 .. Len(Format) : texts[i] = Piece(k, i)
  BY CellsFacts
<1> HIDE DEF texts
<1>2. PICK i \in 1 .. Len(texts) :
         /\ j \in (Reach(texts, i - 1) + 1) .. Reach(texts, i)
         /\ Reach(texts, i) = Reach(texts, i - 1) + Len(texts[i])
         /\ FlattenSeq(texts)[j] = texts[i][j - Reach(texts, i - 1)]
  BY <1>1, PieceOfCharacter
<1> DEFINE o == j - Reach(texts, i - 1)
<1>3. o \in 1 .. Len(texts[i]) /\ j = Reach(texts, i - 1) + o
  <2>1. i - 1 \in 0 .. Len(texts) /\ Reach(texts, i - 1) \in Nat
    <3>1. i - 1 \in 0 .. Len(texts)
      BY <1>1
    <3>. QED
      BY <1>1, <3>1, ReachGrows
  <2>2. Len(texts[i]) \in Nat
    BY <1>1, ListFacts, LenProperties
  <2>3. j \in (Reach(texts, i - 1) + 1) .. (Reach(texts, i - 1) + Len(texts[i]))
    BY <1>2
  <2>. QED
    BY <2>1, <2>2, <2>3
<1>4. texts[i][o] = "{"
  BY <1>1, <1>2 DEF Brace
<1> HIDE DEF o
<1>5. i \in 1 .. Len(Format) /\ Piece(k, i) = texts[i]
  BY <1>1
<1>6. ASSUME NEW m \in 0 .. (k - 1) PROVE i \notin Covers(m, First(m))
  <2>1. SUFFICES ASSUME i \in Covers(m, First(m)) PROVE FALSE
    OBVIOUS
  <2>2. m \in 0 .. (Met - 1)
    <3>1. Met \in Nat
      BY ReadableFacts
    <3>. QED
      BY <3>1
  <2>3. i \in First(m) .. (First(m) + 2) /\ First(m) \in Nat
    BY <2>1, <2>2, ReadableFacts
  <2>4. i = First(m) \/ i = First(m) + 1 \/ i = First(m) + 2
    BY <2>3
  <2>5. CASE i = First(m)
    <3>1. texts[i] = call.args[m + 1].text
      BY <1>5, <2>5, PieceFacts
    <3>2. HasNo(texts[i], "{")
      BY <2>2, <3>1, ReadableFacts
    <3>. QED
      BY <1>3, <1>4, <3>2 DEF HasNo
  <2>6. CASE i = First(m) + 1 \/ i = First(m) + 2
    <3>1. texts[i] = <<>>
      BY <1>5, <2>6, PieceFacts
    <3>2. Len(texts[i]) = 0
      BY <3>1, EmptySeq
    <3>. QED
      BY <1>3, <3>2
  <2>. QED
    BY <2>4, <2>5, <2>6
<1>7. texts[i] = <<Format[i]>>
  BY <1>5, <1>6, PieceFacts
<1>8. Single(texts, Format, i)
  BY <1>7 DEF Single
<1>9. o = 1 /\ Format[i] = "{"
  <2>1. Len(texts[i]) = 1 /\ texts[i][1] = Format[i]
    BY <1>8, SingleFacts
  <2>2. o = 1
    BY <1>3, <2>1
  <2>. QED
    BY <1>4, <2>1, <2>2
<1>10. PICK n \in 0 .. (MaxArgs - 1) : i \in Places(n)
  BY <1>5, <1>9 DEF Readable
<1>11. n \in Nat
  OBVIOUS
<1>12. Open(k, i)
  <2>1. SUFFICES ASSUME NEW m \in 0 .. (k - 1), i = First(m) PROVE FALSE
    BY DEF Open
  <2>2. m \in 0 .. (Met - 1)
    <3>1. Met \in Nat
      BY ReadableFacts
    <3>. QED
      BY <3>1
  <2>3. First(m) \in Nat /\ Covers(m, First(m)) = First(m) .. (First(m) + 2)
    BY <2>2, ReadableFacts
  <2>4. i \in Covers(m, First(m))
    BY <2>1, <2>3
  <2>. QED
    BY <1>6, <2>4
<1>. QED
  BY <1>3, <1>9, <1>10, <1>11, <1>12 DEF texts

\* What FormatMsg finds for the next argument.
LEMMA FoundAreOpen ==
  ASSUME call \in Calls, Readable, NEW k \in 0 .. Met,
         NEW j \in Occurrences(Placeholder(k), Filled(k))
  PROVE  \E i \in Places(k) : Open(k, i) /\ j = Reach(Cells(k), i - 1) + 1
<1>1. k \in Nat /\ Placeholder(k) \in Seq(Chars) /\ Filled(k) \in Seq(Chars)
  <2>1. k \in Nat
    OBVIOUS
  <2>. QED
    BY <2>1, PlaceholderFacts, CellsFacts
<1>2. /\ j \in 1 .. (Len(Filled(k)) - Width(k) + 1)
      /\ \A d \in 1 .. Width(k) : Filled(k)[j + d - 1] = Placeholder(k)[d]
  BY <1>1, OccurrenceFacts DEF Width
<1>3. Width(k) \in Nat /\ Width(k) >= 3 /\ Placeholder(k)[1] = "{"
  BY <1>1, PlaceholderFacts DEF Width
<1>4. j \in 1 .. Len(Filled(k)) /\ j \in Nat
  <2>1. Len(Filled(k)) \in Nat /\ Width(k) \in Nat /\ Width(k) >= 3
    BY <1>1, <1>3, LenProperties
  <2>2. j \in 1 .. (Len(Filled(k)) - Width(k) + 1)
    BY <1>2
  <2>. QED
    BY <2>1, <2>2
<1>5. Brace(Filled(k), j)
  <2>1. 1 \in 1 .. Width(k) /\ j + 1 - 1 = j
    <3>1. Width(k) \in Nat /\ Width(k) >= 3
      BY <1>3
    <3>. QED
      BY <1>4, <3>1
  <2>2. Filled(k)[j + 1 - 1] = Placeholder(k)[1]
    BY <1>2, <2>1
  <2>. QED
    BY <1>3, <2>1, <2>2 DEF Brace
<1>6. PICK n \in Nat : \E i \in Places(n) : Open(k, i) /\ j = Reach(Cells(k), i - 1) + 1
  BY <1>4, <1>5, Opened
<1>7. PICK i \in Places(n) : Open(k, i) /\ j = Reach(Cells(k), i - 1) + 1
  BY <1>6
<1>8. j \in Occurrences(Placeholder(n), Filled(k))
  BY <1>7, OpenPlace
<1>9. At(Placeholder(n), Filled(k), j)
  <2>1. Placeholder(n) \in Seq(Chars)
    BY PlaceholderFacts
  <2>. QED
    BY <1>1, <1>8, <2>1, OccurrenceFacts DEF At
<1>10. At(Placeholder(k), Filled(k), j)
  BY <1>2 DEF At, Width
<1>11. Placeholder(k) = Placeholder(n)
  BY <1>1, <1>4, <1>9, <1>10, PlaceholdersApart
<1>. QED
  BY <1>7, <1>11 DEF Places

LEMMA NoneFound ==
  ASSUME call \in Calls, Readable, Met < Len(call.args)
  PROVE  Occurrences(Placeholder(Met), Filled(Met)) = {}
<1>1. Met \in 0 .. Met
  <2>1. Met \in Nat
    BY ReadableFacts
  <2>. QED
    BY <2>1
<1>2. Places(Met) = {}
  BY MetFacts
<1>. QED
  BY <1>1, <1>2, FoundAreOpen

\* The next argument with a place is put where the first place of the format is.
LEMMA FirstFound ==
  ASSUME call \in Calls, Readable, NEW k \in 0 .. (Met - 1)
  PROVE  /\ k \in 0 .. Met /\ k + 1 \in 0 .. Met /\ Open(k, First(k))
         /\ Occurrences(Placeholder(k), Filled(k)) # {}
         /\ Min(Occurrences(Placeholder(k), Filled(k))) = Reach(Cells(k), First(k) - 1) + 1
<1> DEFINE T == Occurrences(Placeholder(k), Filled(k))
           least == Reach(Cells(k), First(k) - 1) + 1
<1>1. k \in Nat /\ k \in 0 .. Met /\ k + 1 \in 0 .. Met
  <2>1. Met \in Nat
    BY ReadableFacts
  <2>. QED
    BY <2>1
<1>2. First(k) \in Places(k) /\ First(k) \in Nat
  BY ReadableFacts
<1>3. Open(k, First(k))
  <2>1. SUFFICES ASSUME NEW m \in 0 .. (k - 1), First(k) = First(m) PROVE FALSE
    BY DEF Open
  <2>2. m \in 0 .. (Met - 1) /\ m # k
    <3>1. Met \in Nat
      BY ReadableFacts
    <3>. QED
      BY <3>1
  <2>3. /\ Covers(m, First(m)) = First(m) .. (First(m) + 2)
        /\ Covers(k, First(k)) = First(k) .. (First(k) + 2)
    BY <2>2, ReadableFacts
  <2>4. First(k) \in Covers(m, First(m)) /\ First(k) \in Covers(k, First(k))
    BY <1>2, <2>1, <2>3
  <2>. QED
    BY <2>2, <2>4, FirstsApart
<1>4. /\ least \in T /\ First(k) \in 1 .. Len(Format) /\ First(k) - 1 \in 0 .. Len(Format)
      /\ Reach(Cells(k), First(k) - 1) \in Nat
  BY <1>1, <1>2, <1>3, OpenPlace
<1>5. ASSUME NEW j \in T PROVE least <= j
  <2>1. PICK i \in Places(k) : Open(k, i) /\ j = Reach(Cells(k), i - 1) + 1
    BY <1>1, FoundAreOpen
  <2>2. First(k) <= i
    BY MetFacts
  <2>3. i - 1 \in 0 .. Len(Format) /\ Reach(Cells(k), i - 1) \in Nat
    BY <1>1, <2>1, OpenPlace
  <2>4. First(k) - 1 <= i - 1
    <3>1. i \in Nat
      BY DEF Places, Occurrences
    <3>. QED
      BY <1>2, <2>2, <3>1
  <2>5. Reach(Cells(k), First(k) - 1) <= Reach(Cells(k), i - 1)
    <3>1. Cells(k) \in Lists(Chars) /\ Len(Cells(k)) = Len(Format)
      BY <1>1, CellsFacts
    <3>. QED
      BY <1>4, <2>3, <2>4, <3>1, ReachGrows
  <2>. QED
    BY <1>4, <2>1, <2>3, <2>5
<1>6. T # {} /\ T \subseteq Nat
  <2>1. T # {}
    BY <1>4
  <2>2. T \subseteq Nat
    BY DEF Occurrences
  <2>. QED
    BY <2>1, <2>2
<1>7. Min(T) \in T /\ Min(T) <= least
  <2> HIDE DEF T
  <2>. QED
    BY <1>4, <1>6, Extremes
<1>8. Min(T) = least
  <2>1. least <= Min(T) /\ Min(T) \in Nat /\ least \in Nat
    BY <1>4, <1>5, <1>6, <1>7
  <2>. QED
    BY <1>7, <2>1
<1>. QED
  BY <1>1, <1>3, <1>6, <1>8

\* Filling one more place changes what stands for its three characters only.
LEMMA OnePlaceMore ==
  ASSUME call \in Calls, Readable, NEW k \in 0 .. (Met - 1),
         NEW x, x \notin First(k) .. (First(k) + 2)
  PROVE  Piece(k + 1, x) = Piece(k, x)
<1>1. k \in Nat /\ k \in 0 .. Met /\ k + 1 \in 0 .. Met
  BY FirstFound
<1>2. \A m \in 0 .. k : m \in 0 .. (Met - 1)
  <2>1. Met \in Nat
    BY ReadableFacts
  <2>. QED
    BY <2>1
<1>3. \A m : m \in 0 .. ((k + 1) - 1) <=> m \in 0 .. (k - 1) \/ m = k
  BY <1>1
<1>4. CASE \E m \in 0 .. (k - 1) : x \in Covers(m, First(m))
  <2>1. PICK m \in 0 .. (k - 1) : x \in Covers(m, First(m))
    BY <1>4
  <2>2. m \in 0 .. ((k + 1) - 1) /\ m \in 0 .. (Met - 1)
    BY <1>2, <1>3
  <2>3. x \in First(m) .. (First(m) + 2) /\ First(m) \in Nat
    BY <2>1, <2>2, ReadableFacts
  <2>4. x = First(m) \/ x = First(m) + 1 \/ x = First(m) + 2
    BY <2>3
  <2>5. /\ Piece(k, First(m)) = Piece(k + 1, First(m))
        /\ Piece(k, First(m) + 1) = Piece(k + 1, First(m) + 1)
        /\ Piece(k, First(m) + 2) = Piece(k + 1, First(m) + 2)
    BY <1>1, <2>2, PieceFacts
  <2>. QED
    BY <2>4, <2>5
<1>5. CASE \A m \in 0 .. (k - 1) : x \notin Covers(m, First(m))
  <2>1. Covers(k, First(k)) = First(k) .. (First(k) + 2)
    BY ReadableFacts
  <2>2. \A m \in 0 .. ((k + 1) - 1) : x \notin Covers(m, First(m))
    BY <1>3, <1>5, <2>1
  <2>3. Piece(k, x) = <<Format[x]>>
    BY <1>1, <1>5, PieceFacts
  <2>4. Piece(k + 1, x) = <<Format[x]>>
    BY <1>1, <2>2, PieceFacts
  <2>. QED
    BY <2>3, <2>4
<1>. QED
  BY <1>4, <1>5

\* One step of FormatMsg fills one place more.
LEMMA FillOne ==
  ASSUME call \in Calls, Readable, NEW k \in 0 .. (Met - 1)
  PROVE  LET text == Filled(k)
             pos == Min(Occurrences(Placeholder(k), text))
         IN  Filled(k + 1) = SubSeq(text, 1, pos - 1) \o Printed(call.args[k + 1])
                               \o SubSeq(text, pos + 3, Len(text))
<1> DEFINE texts == Cells(k)
           others == Cells(k + 1)
           i == First(k)
           text == call.args[k + 1].text
           r == Reach(texts, i - 1)
           whole == Filled(k)
           pos == Min(Occurrences(Placeholder(k), whole))
<1>1. /\ k \in Nat /\ k \in 0 .. Met /\ k + 1 \in 0 .. Met /\ Open(k, i) /\ pos = r + 1
      /\ k \in 0 .. ((k + 1) - 1)
  <2>1. k \in 0 .. ((k + 1) - 1)
    OBVIOUS
  <2>. QED
    BY <2>1, FirstFound
<1>2. /\ texts \in Lists(Chars) /\ others \in Lists(Chars)
      /\ Len(texts) = Len(Format) /\ Len(others) = Len(Format) /\ Len(Format) \in Nat
      /\ whole = FlattenSeq(texts) /\ Filled(k + 1) = FlattenSeq(others)
      /\ \A x \in 1 .. Len(Format) : texts[x] = Piece(k, x) /\ others[x] = Piece(k + 1, x)
  BY <1>1, CellsFacts
<1>3. /\ i \in Places(k) /\ i \in Nat /\ Covers(k, i) = i .. (i + 2)
      /\ text \in Seq(Chars) /\ Printed(call.args[k + 1]) = text
  BY ReadableFacts
<1>4. \A x \in i .. (i + 2) : x \in 1 .. Len(Format) /\ Single(texts, Format, x)
  BY <1>1, <1>3, Untouched
<1>5. i \in i .. (i + 2) /\ i + 1 \in i .. (i + 2) /\ i + 2 \in i .. (i + 2)
  BY <1>3
<1>6. Len(texts[i]) = 1 /\ Len(texts[i + 1]) = 1 /\ Len(texts[i + 2]) = 1
  BY <1>4, <1>5, SingleFacts
<1>7. others[i] = text /\ others[i + 1] = <<>> /\ others[i + 2] = <<>>
  <2>1. /\ Piece(k + 1, i) = text /\ Piece(k + 1, i + 1) = <<>> /\ Piece(k + 1, i + 2) = <<>>
    BY <1>1, PieceFacts
  <2>. QED
    BY <1>2, <1>4, <1>5, <2>1
<1>8. \A x \in 1 .. Len(texts) : x \notin i .. (i + 2) => others[x] = texts[x]
  BY <1>2, OnePlaceMore
<1>9. i \in 1 .. (Len(texts) - 2) /\ i - 1 \in 0 .. Len(texts)
  <2>1. i \in 1 .. Len(Format) /\ i + 2 \in 1 .. Len(Format)
    BY <1>4, <1>5
  <2>2. i \in 1 .. (Len(Format) - 2) /\ i - 1 \in 0 .. Len(Format)
    BY <1>2, <2>1
  <2>. QED
    BY <1>2, <2>2
<1>10. r \in Nat
  BY <1>2, <1>9, ReachGrows
<1> HIDE DEF texts, others, i, text, whole, pos
<1>11. FlattenSeq(others) = SubSeq(FlattenSeq(texts), 1, r) \o text
                              \o SubSeq(FlattenSeq(texts), r + 4, Len(FlattenSeq(texts)))
  BY <1>2, <1>3, <1>6, <1>7, <1>8, <1>9, Replacement
<1> HIDE DEF r
<1>12. pos - 1 = r /\ pos + 3 = r + 4
  BY <1>1, <1>10
<1>. QED
  BY <1>2, <1>3, <1>11, <1>12 DEF whole, pos

-----------------------------------------------------------------------------
(***************************************************************************)
(* The invariant: the text of a plain call is its format with the places   *)
(* of the arguments met so far filled, and the search ends at the first    *)
(* argument without a place.                                               *)
(***************************************************************************)
TextInv ==
  Readable => /\ arg_pos <= Met
              /\ to_format = Filled(arg_pos)
              /\ pc # "format" => arg_pos = Met

StepInv ==
  /\ call \in Calls
  /\ arg_pos \in 0 .. Len(call.args)
  /\ pc \in {"format", "write", "done"}
  /\ out = IF pc = "done" /\ IsLoggable(call.level) THEN <<to_format>> ELSE <<>>

IInv == StepInv /\ TextInv

LEMMA CallKept ==
  ASSUME call' = call
  PROVE  (Readable <=> Readable') /\ Met' = Met /\ \A k : Filled(k)' = Filled(k)
<1>1. Format' = Format
  BY DEF Format
<1>2. \A n : Places(n)' = Places(n)
  BY <1>1 DEF Places
<1>3. Met' = Met
  BY <1>2 DEF Met
<1>4. Readable <=> Readable'
  BY <1>1, <1>2, <1>3 DEF Readable
<1>5. \A n : First(n)' = First(n) /\ \A i : Covers(n, i)' = Covers(n, i)
  BY <1>2 DEF First, Covers, Width
<1>6. \A k, i : Piece(k, i)' = Piece(k, i)
  BY <1>1, <1>2, <1>5 DEF Piece
<1>7. \A k : Filled(k)' = Filled(k)
  BY <1>1, <1>6 DEF Filled
<1>. QED
  BY <1>3, <1>4, <1>7

\* The text when no place is filled is the format.
LEMMA NoneFilled ==
  ASSUME call \in Calls
  PROVE  Filled(0) = Format
<1> DEFINE texts == Cells(0)
<1>1. Format \in Seq(Chars) /\ Len(Format) \in Nat
  BY CallFacts
<1>2. ASSUME NEW i PROVE Piece(0, i) = <<Format[i]>>
  <2>1. 0 .. (0 - 1) = {}
    OBVIOUS
  <2>2. /\ ~ \E n \in 0 .. (0 - 1) : i = First(n)
        /\ ~ \E n \in 0 .. (0 - 1) : i \in Covers(n, First(n))
    BY <2>1
  <2>. QED
    BY <2>2 DEF Piece
<1>3. texts \in Lists(Chars) /\ Len(texts) = Len(Format)
  <2> DEFINE Text == Seq(Chars)
             n == Len(Format)
             cells == [i \in 1 .. n |-> Piece(0, i)]
  <2>1. \A i \in 1 .. n : Piece(0, i) \in Text
    <3>1. \A i \in 1 .. n : Format[i] \in Chars
      BY <1>1, ElementOfSeq
    <3>. QED
      BY <1>2, <3>1, OneCharacter
  <2>2. n \in Nat
    BY <1>1
  <2> HIDE DEF Text, n
  <2>3. cells \in Seq(Text) /\ Len(cells) = n
    BY <2>1, <2>2
  <2>. QED
    BY <2>3 DEF Text, n, Cells, Lists
<1>4. \A x \in 1 .. Len(texts) : Single(texts, Format, x)
  <2>1. \A x \in 1 .. Len(Format) : texts[x] = Piece(0, x)
    BY DEF Cells
  <2>. QED
    BY <1>2, <1>3, <2>1 DEF Single
<1>5. Filled(0) = FlattenSeq(texts) /\ FlattenSeq(texts) \in Seq(Chars)
  BY <1>3, FlattenSteps DEF Filled, Cells, Lists
<1> HIDE DEF texts
<1>6. \A x \in 1 .. Len(texts) : Reach(texts, x) = x /\ FlattenSeq(texts)[x] = Format[x]
  <2>1. SUFFICES ASSUME NEW x \in 1 .. Len(texts)
                 PROVE  Reach(texts, x) = x /\ FlattenSeq(texts)[x] = Format[x]
    OBVIOUS
  <2>2. /\ 1 \in 1 .. Len(texts) /\ Len(texts) \in 1 .. Len(texts) /\ 1 - 1 = 0
        /\ Reach(texts, 0) = 0 /\ 0 + (x - 1) + 1 = x
    <3>1. Len(texts) \in Nat
      BY <1>1, <1>3
    <3>2. Reach(texts, 0) = 0
      BY <1>3, ReachGrows
    <3>. QED
      BY <3>1, <3>2
  <2>3. \A y \in 1 .. Len(texts) : /\ Reach(texts, y) = Reach(texts, 1 - 1) + (y - 1) + 1
                                    /\ FlattenSeq(texts)[Reach(texts, y)] = Format[y]
    <3>1. Singles(texts, Format, 1, Len(texts))
      BY <1>4 DEF Singles
    <3>2. Run(texts, Format, 1, Len(texts))
      BY <1>3, <2>2, <3>1, RunOfCharacters
    <3>. QED
      BY <3>2 DEF Run
  <2>. QED
    BY <2>2, <2>3
<1>7. Len(FlattenSeq(texts)) = Len(Format)
  <2>1. Reach(texts, Len(texts)) = Len(FlattenSeq(texts)) /\ Reach(texts, 0) = 0
    BY <1>3, ReachGrows
  <2>2. CASE Len(texts) = 0
    BY <1>3, <2>1, <2>2
  <2>3. CASE Len(texts) # 0
    <3>1. Len(texts) \in 1 .. Len(texts)
      BY <1>1, <1>3, <2>3
    <3>. QED
      BY <1>3, <1>6, <2>1, <3>1
  <2>. QED
    BY <2>2, <2>3
<1>. QED
  BY <1>1, <1>3, <1>5, <1>6, <1>7, SeqEqual

LEMMA InitInv == Init => IInv
<1>1. SUFFICES ASSUME Init PROVE IInv
  OBVIOUS
<1>2. call \in Calls /\ to_format = Format /\ arg_pos = 0 /\ pc = "format" /\ out = <<>>
  BY <1>1 DEF Init, Format
<1>3. StepInv
  <2>1. Len(call.args) \in Nat
    BY <1>2, CallFacts
  <2>2. arg_pos \in 0 .. Len(call.args)
    BY <1>2, <2>1
  <2>. QED
    BY <1>2, <2>2 DEF StepInv
<1>4. TextInv
  <2>1. Filled(0) = Format
    BY <1>2, NoneFilled
  <2>2. Readable => 0 <= Met
    <3>1. Met \in 0 .. Len(call.args)
      BY <1>2, MetFacts
    <3>. QED
      BY <3>1
  <2>. QED
    BY <1>2, <2>1, <2>2 DEF TextInv
<1>. QED
  BY <1>3, <1>4 DEF IInv

LEMMA SubstituteKeeps == IInv /\ Substitute => IInv'
<1>1. SUFFICES ASSUME IInv, Substitute PROVE IInv'
  OBVIOUS
<1>2. /\ pc = "format" /\ arg_pos < Len(call.args) /\ Found # {}
      /\ to_format' = Replaced(Min(Found), call.args[arg_pos + 1])
      /\ arg_pos' = arg_pos + 1 /\ call' = call /\ pc' = pc /\ out' = out
  BY <1>1 DEF Substitute
<1>3. StepInv /\ TextInv
  BY <1>1 DEF IInv
<1>4. call \in Calls /\ arg_pos \in 0 .. Len(call.args) /\ Len(call.args) \in Nat
  BY <1>3, CallFacts DEF StepInv
<1>5. StepInv'
  <2>1. arg_pos + 1 \in 0 .. Len(call.args)
    <3>1. arg_pos < Len(call.args)
      BY <1>2
    <3>. QED
      BY <1>4, <3>1
  <2>2. out = <<>>
    BY <1>2, <1>3 DEF StepInv
  <2>. QED
    BY <1>2, <1>4, <2>1, <2>2 DEF StepInv, IsLoggable
<1>6. TextInv'
  <2>1. (Readable <=> Readable') /\ Met' = Met
    BY <1>2, CallKept
  <2>2. SUFFICES ASSUME Readable PROVE arg_pos + 1 <= Met /\ to_format' = Filled(arg_pos + 1)
    <3>1. Filled(arg_pos)' = Filled(arg_pos + 1)
      <4>1. \A k : Filled(k)' = Filled(k)
        BY <1>2, CallKept
      <4>. QED
        BY <1>2, <4>1 DEF Filled, Piece, Covers, Width, First, Places, Format
    <3>. QED
      BY <1>2, <2>1, <3>1 DEF TextInv
  <2>3. arg_pos <= Met /\ to_format = Filled(arg_pos) /\ Met \in Nat
    BY <1>3, <1>4, <2>2, ReadableFacts DEF TextInv
  <2>4. arg_pos # Met
    <3>1. SUFFICES ASSUME arg_pos = Met PROVE Found = {}
      BY <1>2
    <3>2. Met < Len(call.args)
      BY <1>2, <3>1
    <3>. QED
      BY <1>4, <2>2, <2>3, <3>1, <3>2, NoneFound DEF Found
  <2>5. arg_pos \in 0 .. (Met - 1) /\ arg_pos + 1 <= Met
    <3>1. arg_pos <= Met /\ Met \in Nat
      BY <2>3
    <3>. QED
      BY <1>4, <2>4, <3>1
  <2>6. PICK k \in 0 .. (Met - 1) : k = arg_pos
    BY <2>5
  <2>7. Filled(k + 1) = SubSeq(to_format, 1, Min(Found) - 1) \o Printed(call.args[k + 1])
                          \o SubSeq(to_format, Min(Found) + 3, Len(to_format))
    BY <1>4, <2>2, <2>3, <2>6, FillOne DEF Found
  <2>. QED
    BY <1>2, <2>5, <2>6, <2>7 DEF Replaced
<1>. QED
  BY <1>5, <1>6 DEF IInv

LEMMA FormatEndsKeeps == IInv /\ FormatEnds => IInv'
<1>1. SUFFICES ASSUME IInv, FormatEnds PROVE IInv'
  OBVIOUS
<1>2. /\ pc = "format" /\ (arg_pos < Len(call.args) => Found = {}) /\ pc' = "write"
      /\ call' = call /\ to_format' = to_format /\ arg_pos' = arg_pos /\ out' = out
  BY <1>1 DEF FormatEnds
<1>3. StepInv /\ TextInv
  BY <1>1 DEF IInv
<1>4. call \in Calls /\ arg_pos \in 0 .. Len(call.args) /\ Len(call.args) \in Nat
  BY <1>3, CallFacts DEF StepInv
<1>5. StepInv'
  BY <1>2, <1>3 DEF StepInv, IsLoggable
<1>6. TextInv'
  <2>1. (Readable <=> Readable') /\ Met' = Met
    BY <1>2, CallKept
  <2>2. SUFFICES ASSUME Readable PROVE arg_pos = Met /\ arg_pos <= Met /\ to_format = Filled(arg_pos)
    <3>1. Filled(arg_pos)' = Filled(arg_pos)
      <4>1. \A k : Filled(k)' = Filled(k)
        BY <1>2, CallKept
      <4>. QED
        BY <1>2, <4>1 DEF Filled, Piece, Covers, Width, First, Places, Format
    <3>. QED
      BY <1>2, <2>1, <2>2, <3>1 DEF TextInv
  <2>3. arg_pos <= Met /\ to_format = Filled(arg_pos)
    BY <1>3, <2>2 DEF TextInv
  <2>4. Met \in 0 .. Len(call.args)
    BY <1>4, MetFacts
  <2>5. arg_pos = Met
    <3>1. SUFFICES ASSUME arg_pos # Met PROVE FALSE
      OBVIOUS
    <3>2. arg_pos \in 0 .. (Met - 1) /\ arg_pos < Len(call.args)
      <4>1. arg_pos <= Met
        BY <2>3
      <4>. QED
        BY <1>4, <2>4, <3>1, <4>1
    <3>3. PICK k \in 0 .. (Met - 1) : k = arg_pos
      BY <3>2
    <3>4. Found # {}
      BY <1>4, <2>2, <2>3, <3>3, FirstFound DEF Found
    <3>. QED
      BY <1>2, <3>2, <3>4
  <2>. QED
    BY <2>3, <2>5
<1>. QED
  BY <1>5, <1>6 DEF IInv

LEMMA OtherStepsKeep == IInv /\ (Write \/ UNCHANGED vars) => IInv'
<1>1. SUFFICES ASSUME IInv, Write \/ UNCHANGED vars PROVE IInv'
  OBVIOUS
<1>2. /\ call' = call /\ to_format' = to_format /\ arg_pos' = arg_pos
      /\ pc' # "format" => pc # "format"
  BY <1>1 DEF Write, vars
<1>3. StepInv /\ TextInv
  BY <1>1 DEF IInv
<1>4. StepInv'
  <2>1. CASE Write
    <3>1. pc = "write" /\ pc' = "done"
      BY <2>1 DEF Write
    <3>2. out = <<>>
      BY <1>3, <3>1 DEF StepInv
    <3>3. out' = IF IsLoggable(call.level) THEN Append(<<>>, to_format) ELSE <<>>
      BY <2>1, <3>2 DEF Write
    <3>4. Append(<<>>, to_format) = <<to_format>>
      OBVIOUS
    <3>. QED
      BY <1>2, <1>3, <3>1, <3>3, <3>4 DEF StepInv, IsLoggable
  <2>2. CASE UNCHANGED vars
    BY <1>3, <2>2 DEF StepInv, IsLoggable, vars
  <2>. QED
    BY <1>1, <2>1, <2>2
<1>5. TextInv'
  <2>1. (Readable <=> Readable') /\ Met' = Met
    BY <1>2, CallKept
  <2>2. Filled(arg_pos)' = Filled(arg_pos)
    <3>1. \A k : Filled(k)' = Filled(k)
      BY <1>2, CallKept
    <3>. QED
      BY <1>2, <3>1 DEF Filled, Piece, Covers, Width, First, Places, Format
  <2>. QED
    BY <1>2, <1>3, <2>1, <2>2 DEF TextInv
<1>. QED
  BY <1>4, <1>5 DEF IInv

\* A plain call is readable, and its first places are all the places there are.
LEMMA PlainIsReadable ==
  ASSUME call \in Calls, Plain
  PROVE  Readable /\ Expected = Filled(Met)
<1>1. /\ Met \in 0 .. Len(call.args) /\ Len(call.args) \in Nat /\ Met \in Nat
      /\ \A n \in 0 .. (Met - 1) : First(n) \in Places(n)
      /\ Met < Len(call.args) => Places(Met) = {}
  <2>1. Met \in 0 .. Len(call.args) /\ Len(call.args) \in Nat
    BY MetFacts, CallFacts
  <2>. QED
    BY <2>1, MetFacts
<1>2. /\ \A n \in Numbers : \A i, j \in Places(n) : i = j
      /\ \A n \in Numbers, m \in Numbers : m < n /\ Places(n) # {} => Places(m) # {}
      /\ \A n \in Numbers :
           Places(n) # {} =>
             /\ call.args[n + 1].specialised
             /\ ~Contains(call.args[n + 1].text, "{")
             /\ ~Contains(call.args[n + 1].text, "}")
             /\ n < Base
      /\ \A i \in 1 .. Len(Format) :
           Format[i] = "{" => \E n \in 0 .. (MaxArgs - 1) : i \in Places(n)
  BY DEF Plain
<1>3. \A n \in 0 .. (Met - 1) : n \in Numbers /\ Places(n) # {}
  BY <1>1 DEF Numbers
<1>4. \A n \in Numbers : Places(n) # {} => n \in 0 .. (Met - 1)
  <2>1. SUFFICES ASSUME NEW n \in Numbers, Places(n) # {}, ~ (n < Met) PROVE FALSE
    BY <1>1 DEF Numbers
  <2>2. Met \in Numbers /\ Places(Met) = {} /\ n # Met /\ Met < n
    BY <1>1, <2>1 DEF Numbers
  <2>. QED
    BY <1>2, <2>1, <2>2
<1>5. \A n, i : n \in Numbers /\ i \in Places(n) <=> n \in 0 .. (Met - 1) /\ i = First(n)
  <2>1. ASSUME NEW n \in Numbers, NEW i \in Places(n)
        PROVE  n \in 0 .. (Met - 1) /\ i = First(n)
    <3>1. n \in 0 .. (Met - 1)
      BY <1>4, <2>1
    <3>2. First(n) \in Places(n)
      BY <1>1, <3>1
    <3>. QED
      BY <1>2, <2>1, <3>1, <3>2
  <2>2. ASSUME NEW n \in 0 .. (Met - 1)
        PROVE  n \in Numbers /\ First(n) \in Places(n)
    BY <1>1, <1>3, <2>2
  <2>. QED
    BY <2>1, <2>2
<1>6. Readable
  <2>1. \A n \in 1 .. Met :
          /\ call.args[n].specialised
          /\ ~Contains(call.args[n].text, "{") /\ ~Contains(call.args[n].text, "}")
    <3>1. SUFFICES ASSUME NEW n \in 1 .. Met
                   PROVE  /\ call.args[n].specialised
                          /\ ~Contains(call.args[n].text, "{")
                          /\ ~Contains(call.args[n].text, "}")
      OBVIOUS
    <3>2. n - 1 \in 0 .. (Met - 1) /\ (n - 1) + 1 = n
      BY <1>1
    <3>. QED
      BY <1>2, <1>3, <3>2
  <2>2. Met <= Base
    <3>1. CASE Met = 0
      BY <3>1, BaseAssumption
    <3>2. CASE Met # 0
      <4>1. Met - 1 \in 0 .. (Met - 1)
        BY <1>1, <3>2
      <4>2. Met - 1 < Base
        BY <1>2, <1>3, <4>1
      <4>. QED
        BY <1>1, <4>2, BaseAssumption
    <3>. QED
      BY <3>1, <3>2
  <2>. QED
    BY <1>2, <2>1, <2>2 DEF Readable
<1>7. ASSUME NEW i PROVE Instead(i) = Piece(Met, i)
  <2>1. CASE \E n \in 0 .. (Met - 1) : i = First(n)
    <3>1. PICK m \in 0 .. (Met - 1) : i = First(m)
      BY <2>1
    <3>2. ASSUME NEW n \in 0 .. (Met - 1), i = First(n) PROVE n = m
      <4>1. /\ i \in Nat /\ Covers(m, First(m)) = First(m) .. (First(m) + 2)
            /\ Covers(n, First(n)) = First(n) .. (First(n) + 2)
        BY <1>6, <3>1, ReadableFacts
      <4>2. i \in Covers(m, First(m)) \cap Covers(n, First(n))
        BY <3>1, <3>2, <4>1
      <4>. QED
        BY <1>6, <4>2, FirstsApart
    <3>3. (CHOOSE n \in 0 .. (Met - 1) : i = First(n)) = m
      BY <3>1, <3>2
    <3>4. (CHOOSE n \in Numbers : i \in Places(n)) = m
      BY <1>5, <3>1, <3>2
    <3>5. \E n \in Numbers : i \in Places(n)
      BY <1>5, <3>1
    <3>. QED
      BY <2>1, <3>3, <3>4, <3>5 DEF Instead, Piece
  <2>2. CASE ~ \E n \in 0 .. (Met - 1) : i = First(n)
    <3>1. ~ \E n \in Numbers : i \in Places(n)
      BY <1>5, <2>2
    <3>2. \A n, p : Covered(n, p) = Covers(n, p)
      BY DEF Covered, Covers, Width
    <3>3. (\E n \in Numbers : \E p \in Places(n) : i \in Covered(n, p))
            <=> \E n \in 0 .. (Met - 1) : i \in Covers(n, First(n))
      BY <1>1, <1>3, <1>5, <3>2
    <3>. QED
      BY <2>2, <3>1, <3>3 DEF Instead, Piece
  <2>. QED
    BY <2>1, <2>2
<1>8. Expected = Filled(Met)
  <2>1. [i \in 1 .. Len(Format) |-> Instead(i)] = [i \in 1 .. Len(Format) |-> Piece(Met, i)]
    BY <1>7
  <2>. QED
    BY <2>1 DEF Expected, Filled
<1>. QED
  BY <1>6, <1>8

\* Whatever the base, the level, the letters and the arguments are: a plain call
\* writes what filling all places of its format at once gives, in one line, and
\* nothing if its level is below the one of the logger.
THEOREM CallsAreFilledAtOnce == Spec => []FilledAtOnce
<1>1. Init => IInv
  BY InitInv
<1>2. IInv /\ [Next]_vars => IInv'
  BY SubstituteKeeps, FormatEndsKeeps, OtherStepsKeep DEF Next
<1>3. IInv => FilledAtOnce
  <2>1. SUFFICES ASSUME IInv, pc = "done", Plain
                 PROVE  out = IF call.level >= Level THEN <<Expected>> ELSE <<>>
    BY DEF FilledAtOnce
  <2>2. StepInv /\ TextInv
    BY <2>1 DEF IInv
  <2>3. Readable /\ Expected = Filled(Met)
    BY <2>1, <2>2, PlainIsReadable DEF StepInv
  <2>4. to_format = Expected
    BY <2>1, <2>2, <2>3 DEF TextInv
  <2>. QED
    BY <2>1, <2>2, <2>4 DEF StepInv, IsLoggable
<1>. QED
  BY <1>1, <1>2, <1>3, PTL DEF Spec
=============================================================================
