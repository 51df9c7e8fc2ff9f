---------------------------- MODULE SequenceLemmas ----------------------------
(***************************************************************************)
(* Facts about numbers and sequences that the proofs share: what           *)
(* FlattenSeq of SequencesExt makes of a sequence that grows at its end or *)
(* loses its head.                                                         *)
(***************************************************************************)
EXTENDS Integers, Sequences, SequencesExt, TLAPS, FiniteSetTheorems,
        SequenceTheorems, WellFoundedInduction, NaturalsInduction

-----------------------------------------------------------------------------
\* Three sequences are the same one however they are joined.
Associates(a, b, c) == (a \o b) \o c = a \o (b \o c)

LEMMA ConcatAssociates ==
  ASSUME NEW S, NEW a \in Seq(S), NEW b \in Seq(S), NEW c \in Seq(S)
  PROVE  Associates(a, b, c)
BY ConcatAssociative DEF Associates

-----------------------------------------------------------------------------
\* A set of natural numbers that is not empty has a least element.
LEMMA NatMinimum ==
  ASSUME NEW T, T \subseteq Nat, T # {}
  PROVE  \E n \in T : \A k \in T : n <= k
<1>. DEFINE lt == {p \in Nat \X Nat : p[1] < p[2]}
<1>1. IsWellFoundedOn(lt, Nat)
  BY NatLessThanWellFounded DEF OpToRel
<1>2. PICK n \in T : \A k \in T : ~(<<k, n>> \in lt)
  BY <1>1, WFMin
<1>3. ASSUME NEW k \in T
      PROVE  n <= k
  <2>1. ~(k < n)
    BY <1>2
  <2>. QED
    BY <2>1
<1>. QED
  BY <1>3

\* A finite, not empty set of indices has a greatest one.
LEMMA LastMember ==
  ASSUME NEW n \in Nat, NEW I, I \subseteq 1..n, I # {}
  PROVE  Max(I) \in I /\ \A j \in I : Max(I) >= j
<1>. DEFINE J == {k \in Nat : \E i \in I : k = n - i}
<1>1. J \subseteq Nat /\ J # {}
  <2>1. PICK i \in I : TRUE
    OBVIOUS
  <2>2. n - i \in Nat
    OBVIOUS
  <2>3. n - i \in J
    BY <2>2, Zenon
  <2>. QED
    BY <2>3
<1>2. PICK k \in J : \A l \in J : k <= l
  BY <1>1, NatMinimum
<1>3. PICK i \in I : k = n - i
  BY <1>2
<1>4. \A j \in I : i >= j
  <2>. TAKE j \in I
  <2>1. n - j \in Nat
    OBVIOUS
  <2>2. n - j \in J
    BY <2>1, Zenon
  <2>. QED
    BY <1>2, <1>3, <2>2
<1>5. \E x \in I : \A y \in I : x >= y
  BY <1>4
<1>. QED
  BY <1>5, Zenon DEF Max

-----------------------------------------------------------------------------
\* f is what FlattenSeq makes of the first n sequences of s, for every n.
IsFlattening(f, s, n) ==
  f = [i \in 1..n |-> IF i = 1 THEN s[i] ELSE f[i - 1] \o s[i]]

LEMMA FlatteningExists ==
  ASSUME NEW s, NEW n \in Nat
  PROVE  \E f : IsFlattening(f, s, n)
<1>. DEFINE T == {k \in Nat : ~ \E f : IsFlattening(f, s, k)}
<1>1. SUFFICES ASSUME T # {}
               PROVE  FALSE
  OBVIOUS
<1>2. PICK k \in T : \A l \in T : k <= l
  BY <1>1, NatMinimum
<1>3. CASE k = 0
  <2>. DEFINE f == [i \in 1..k |-> s[i]]
  <2>1. IsFlattening(f, s, k)
    BY <1>3 DEF IsFlattening
  <2>. QED
    BY <1>2, <2>1
<1>4. CASE k # 0
  <2>1. k \in Nat /\ k - 1 \in Nat /\ k - 1 \notin T
    BY <1>2, <1>4
  <2>2. PICK f : IsFlattening(f, s, k - 1)
    BY <2>1
  <2>3. \A i \in 1..(k - 1) : f[i] = IF i = 1 THEN s[i] ELSE f[i - 1] \o s[i]
    BY <2>2, Zenon DEF IsFlattening
  <2>. DEFINE g == [i \in 1..k |->
                      IF i = k THEN IF i = 1 THEN s[i] ELSE f[i - 1] \o s[i]
                               ELSE f[i]]
  <2>4. ASSUME NEW i \in 1..k
        PROVE  g[i] = IF i = 1 THEN s[i] ELSE g[i - 1] \o s[i]
    <3>1. i # 1 => i - 1 \in 1..k /\ i - 1 # k
      BY <2>1
    <3>2. i # 1 => g[i - 1] = f[i - 1]
      BY <3>1
    <3>3. i # k => i \in 1..(k - 1)
      BY <2>1
    <3>. QED
      BY <2>3, <3>2, <3>3
  <2>. HIDE DEF T
  <2>5. IsFlattening(g, s, k)
    <3>1. g = [i \in 1..k |-> g[i]]
      OBVIOUS
    <3>. HIDE DEF g
    <3>. QED
      BY <2>4, <3>1 DEF IsFlattening
  <2>. QED
    BY <1>2, <2>5 DEF T
<1>. QED
  BY <1>3, <1>4

Agree(s, t, n) == \A i \in 1..n : s[i] = t[i]

\* Two of them agree as far as both go and have their sequences in common.
LEMMA FlatteningsAgree ==
  ASSUME NEW s, NEW t, NEW m \in Nat, NEW n \in Nat, NEW f, NEW g,
         m <= n, IsFlattening(f, s, m), IsFlattening(g, t, n),
         Agree(s, t, m)
  PROVE  Agree(f, g, m)
<1>. DEFINE T == {i \in 1..m : f[i] # g[i]}
<1>1. SUFFICES ASSUME T # {}
               PROVE  FALSE
  BY DEF Agree
<1>2. PICK k \in T : \A l \in T : k <= l
  <2>1. T \subseteq Nat
    OBVIOUS
  <2>. QED
    BY <1>1, <2>1, NatMinimum
<1>3. f[k] = IF k = 1 THEN s[k] ELSE f[k - 1] \o s[k]
  BY Zenon DEF IsFlattening
<1>4. g[k] = IF k = 1 THEN t[k] ELSE g[k - 1] \o t[k]
  <2>1. k \in 1..n
    OBVIOUS
  <2>. QED
    BY <2>1, Zenon DEF IsFlattening
<1>5. k # 1 => f[k - 1] = g[k - 1]
  <2>1. k # 1 => k - 1 \in 1..m
    OBVIOUS
  <2>. QED
    BY <1>2, <2>1
<1>. QED
  BY <1>3, <1>4, <1>5 DEF Agree

\* FlattenSeq is the last of them.
LEMMA FlattenSeqIs ==
  ASSUME NEW S, NEW s \in Seq(S), s # <<>>, NEW f,
         IsFlattening(f, s, Len(s))
  PROVE  FlattenSeq(s) = f[Len(s)]
<1>. DEFINE g == CHOOSE g : IsFlattening(g, s, Len(s))
<1>1. IsFlattening(g, s, Len(s))
  BY Zenon
<1>2. Len(s) \in Nat /\ Len(s) # 0
  OBVIOUS
<1>3. FlattenSeq(s) = g[Len(s)]
  BY <1>2 DEF FlattenSeq, IsFlattening
<1>. HIDE DEF g
<1>4. Agree(f, g, Len(s))
  BY <1>1, <1>2, FlatteningsAgree DEF Agree
<1>. QED
  BY <1>2, <1>3, <1>4 DEF Agree

-----------------------------------------------------------------------------
LEMMA FlattenEmpty == FlattenSeq(<<>>) = <<>>
BY DEF FlattenSeq

\* All of them are sequences of what s has in its sequences.
LEMMA FlatteningType ==
  ASSUME NEW S, NEW s \in Seq(Seq(S)), NEW f, IsFlattening(f, s, Len(s))
  PROVE  \A i \in 1..Len(s) : f[i] \in Seq(S)
<1>. DEFINE T == {i \in 1..Len(s) : f[i] \notin Seq(S)}
<1>1. SUFFICES ASSUME T # {}
               PROVE  FALSE
  OBVIOUS
<1>2. PICK k \in T : \A l \in T : k <= l
  <2>1. T \subseteq Nat
    OBVIOUS
  <2>. QED
    BY <1>1, <2>1, NatMinimum
<1>3. f[k] = IF k = 1 THEN s[k] ELSE f[k - 1] \o s[k]
  BY Zenon DEF IsFlattening
<1>4. s[k] \in Seq(S)
  BY ElementOfSeq
<1>5. CASE k # 1
  <2>1. k - 1 \in 1..Len(s)
    BY <1>5
  <2>2. f[k - 1] \in Seq(S)
    BY <1>2, <2>1
  <2>. HIDE DEF T
  <2>3. f[k - 1] \o s[k] \in Seq(S)
    BY <1>4, <2>2, ConcatProperties
  <2>. QED
    BY <1>3, <1>5, <2>3 DEF T
<1>. QED
  BY <1>3, <1>4, <1>5

LEMMA FlattenType ==
  ASSUME NEW S, NEW s \in Seq(Seq(S))
  PROVE  FlattenSeq(s) \in Seq(S)
<1>1. CASE s = <<>>
  <2>1. <<>> \in Seq(S)
    OBVIOUS
  <2>. QED
    BY <1>1, <2>1, FlattenEmpty, Zenon
<1>2. CASE s # <<>>
  <2>1. PICK f : IsFlattening(f, s, Len(s))
    <3>1. Len(s) \in Nat
      OBVIOUS
    <3>. QED
      BY <3>1, FlatteningExists, Zenon
  <2>2. Len(s) \in 1..Len(s)
    BY <1>2
  <2>. QED
    BY <1>2, <2>1, <2>2, FlatteningType, FlattenSeqIs
<1>. QED
  BY <1>1, <1>2

\* A sequence is added at the end.
LEMMA FlattenAppend ==
  ASSUME NEW S, NEW s \in Seq(Seq(S)), NEW e \in Seq(S)
  PROVE  FlattenSeq(Append(s, e)) = FlattenSeq(s) \o e
<1>. DEFINE t == Append(s, e)
            n == Len(s)
<1>1. /\ t \in Seq(Seq(S)) /\ t # <<>> /\ Len(t) = n + 1
      /\ \A i \in 1..n : t[i] = s[i]
      /\ t[n + 1] = e
      /\ n \in Nat
  BY AppendProperties
<1>. HIDE DEF t, n
<1>2. PICK g : IsFlattening(g, t, n + 1)
  <2>1. n + 1 \in Nat
    BY <1>1
  <2>. QED
    BY <2>1, FlatteningExists, Zenon
<1>3. FlattenSeq(t) = g[n + 1]
  BY <1>1, <1>2, FlattenSeqIs
<1>4. \A i \in 1..(n + 1) :
        g[i] = IF i = 1 THEN t[i] ELSE g[i - 1] \o t[i]
  BY <1>2, Zenon DEF IsFlattening
<1>5. CASE s = <<>>
  <2>1. n = 0
    BY <1>5 DEF n
  <2>2. FlattenSeq(s) \o e = e
    BY <1>5, FlattenEmpty, ConcatEmptySeq
  <2>. QED
    BY <1>1, <1>3, <1>4, <2>1, <2>2 DEF t
<1>6. CASE s # <<>>
  <2>1. PICK f : IsFlattening(f, s, n)
    BY <1>1, FlatteningExists, Zenon
  <2>2. FlattenSeq(s) = f[n]
    BY <1>6, <2>1, FlattenSeqIs DEF n
  <2>3. n # 0
    BY <1>6 DEF n
  <2>4. Agree(f, g, n)
    <3>. DEFINE p == n + 1
    <3>1. p \in Nat /\ n \in Nat /\ n <= p /\ Agree(s, t, n)
      BY <1>1 DEF Agree
    <3>2. IsFlattening(g, t, p)
      BY <1>2
    <3>. HIDE DEF p
    <3>. QED
      BY <2>1, <3>1, <3>2, FlatteningsAgree
  <2>5. g[n + 1] = g[n] \o e
    <3>1. n + 1 \in 1..(n + 1) /\ n + 1 # 1 /\ (n + 1) - 1 = n
      BY <1>1, <2>3
    <3>. QED
      BY <1>1, <1>4, <3>1
  <2>6. f[n] = g[n]
    <3>1. n \in 1..n
      BY <1>1, <2>3
    <3>. QED
      BY <2>4, <3>1, Zenon DEF Agree
  <2>. QED
    BY <1>3, <2>2, <2>5, <2>6 DEF t
<1>. QED
  BY <1>5, <1>6

\* The first sequence is taken apart from the others.
LEMMA FlattenTail ==
  ASSUME NEW S, NEW s \in Seq(Seq(S)), s # <<>>
  PROVE  FlattenSeq(s) = Head(s) \o FlattenSeq(Tail(s))
<1>. DEFINE t == Tail(s)
            n == Len(t)
<1>1. /\ t \in Seq(Seq(S)) /\ n \in Nat /\ Len(s) = n + 1
      /\ \A i \in 1..n : t[i] = s[i + 1]
      /\ Head(s) = s[1] /\ s[1] \in Seq(S)
  BY HeadTailProperties
<1>. HIDE DEF n
<1>2. PICK f : IsFlattening(f, s, n + 1)
  <2>1. n + 1 \in Nat
    BY <1>1
  <2>. QED
    BY <2>1, FlatteningExists, Zenon
<1>3. FlattenSeq(s) = f[n + 1]
  BY <1>1, <1>2, FlattenSeqIs
<1>4. \A i \in 1..(n + 1) :
        f[i] = IF i = 1 THEN s[i] ELSE f[i - 1] \o s[i]
  BY <1>2, Zenon DEF IsFlattening
<1>. HIDE DEF t
<1>7. ASSUME NEW k \in 1..n
      PROVE  f[k + 1] = f[k] \o t[k]
  <2>1. k + 1 \in 1..(n + 1) /\ k + 1 # 1 /\ (k + 1) - 1 = k
    BY <1>1
  <2>. QED
    BY <1>1, <1>4, <2>1
<1>5. CASE t = <<>>
  <2>1. n = 0
    BY <1>5 DEF n
  <2>2. Head(s) \o FlattenSeq(t) = Head(s)
    BY <1>1, <1>5, FlattenEmpty, ConcatEmptySeq
  <2>3. f[1] = s[1]
    BY <1>4, <2>1
  <2>. QED
    BY <1>1, <1>3, <2>1, <2>2, <2>3 DEF t
<1>6. CASE t # <<>>
  <2>1. PICK g : IsFlattening(g, t, n)
    BY <1>1, FlatteningExists, Zenon
  <2>2. FlattenSeq(t) = g[n]
    BY <1>1, <1>6, <2>1, FlattenSeqIs DEF n
  <2>3. \A i \in 1..n : g[i] = IF i = 1 THEN t[i] ELSE g[i - 1] \o t[i]
    BY <2>1, Zenon DEF IsFlattening
  <2>4. n # 0
    BY <1>1, <1>6 DEF n
  <2>. DEFINE C(x) == s[1] \o x
              T == {i \in 1..n : f[i + 1] # C(g[i])}
  <2>5. ASSUME NEW x \in Seq(S), NEW y \in Seq(S)
        PROVE  C(x) \o y = C(x \o y)
    <3>. DEFINE a == s[1]
    <3>1. a \in Seq(S)
      BY <1>1
    <3>. HIDE DEF a
    <3>2. (a \o x) \o y = a \o (x \o y)
      <4>1. Associates(a, x, y)
        BY <3>1, ConcatAssociates, Zenon
      <4>. QED
        BY <4>1, Zenon DEF Associates
    <3>. QED
      BY <3>2, Zenon DEF a
  <2>6. f[1 + 1] = C(t[1])
    <3>1. f[1] = s[1]
      BY <1>1, <1>4
    <3>2. f[1 + 1] = f[1] \o t[1]
      <4>1. 1 \in 1..n
        BY <1>1, <2>4
      <4>. QED
        BY <1>7, <4>1, Zenon
    <3>. QED
      BY <3>1, <3>2, Zenon
  <2>. HIDE DEF C
  <2>7. ASSUME T # {}
        PROVE  FALSE
    <3>1. PICK k \in T : \A l \in T : k <= l
      <4>1. T \subseteq Nat
        BY <1>1
      <4>. QED
        BY <2>7, <4>1, NatMinimum
    <3>2. k \in 1..n
      BY <1>1
    <3>3. f[k + 1] = f[k] \o t[k]
      BY <1>7, <3>2
    <3>4. CASE k = 1
      BY <2>3, <2>6, <3>2, <3>4
    <3>5. CASE k # 1
      <4>1. k - 1 \in 1..n /\ (k - 1) + 1 = k
        BY <3>2, <3>5, <1>1
      <4>2. f[k] = C(g[k - 1])
        BY <3>1, <4>1
      <4>3. g[k] = g[k - 1] \o t[k]
        BY <2>3, <3>2, <3>5
      <4>4. g[k - 1] \in Seq(S) /\ t[k] \in Seq(S)
        BY <1>1, <2>1, <3>2, <4>1, FlatteningType, ElementOfSeq DEF n
      <4>5. C(g[k - 1]) \o t[k] = C(g[k - 1] \o t[k])
        BY <2>5, <4>4
      <4>. QED
        BY <3>2, <3>3, <4>2, <4>3, <4>5
    <3>. QED
      BY <3>4, <3>5
  <2>8. n \in 1..n
    BY <1>1, <2>4
  <2>9. f[n + 1] = C(g[n])
    BY <2>7, <2>8
  <2>. QED
    BY <1>1, <1>3, <2>2, <2>9 DEF t, C
<1>. QED
  BY <1>5, <1>6

\* FlattenSeq distributes over concatenation.
LEMMA FlattenConcat ==
  ASSUME NEW S, NEW s \in Seq(Seq(S)), NEW t \in Seq(Seq(S))
  PROVE  FlattenSeq(s \o t) = FlattenSeq(s) \o FlattenSeq(t)
<1>. DEFINE Holds(u) == FlattenSeq(s \o u) = FlattenSeq(s) \o FlattenSeq(u)
            T == {n \in Nat : \E u \in Seq(Seq(S)) : Len(u) = n /\ ~Holds(u)}
<1>1. FlattenSeq(s) \in Seq(S)
  BY FlattenType
<1>2. Holds(<<>>)
  BY <1>1, FlattenEmpty, ConcatEmptySeq
<1>3. ASSUME NEW u \in Seq(Seq(S)), NEW e \in Seq(S), Holds(u)
      PROVE  Holds(Append(u, e))
  <2>. DEFINE a == FlattenSeq(s)
              b == FlattenSeq(u)
  <2>1. s \o u \in Seq(Seq(S)) /\ b \in Seq(S) /\ a \in Seq(S)
    BY <1>1, ConcatProperties, FlattenType
  <2>2. s \o Append(u, e) = Append(s \o u, e)
    <3>1. Append(u, e) = u \o <<e>> /\ Append(s \o u, e) = (s \o u) \o <<e>>
      BY <2>1, AppendIsConcat
    <3>2. <<e>> \in Seq(Seq(S))
      OBVIOUS
    <3>3. (s \o u) \o <<e>> = s \o (u \o <<e>>)
      <4>1. Associates(s, u, <<e>>)
        BY <3>2, ConcatAssociates, Zenon
      <4>. QED
        BY <4>1, Zenon DEF Associates
    <3>. QED
      BY <3>1, <3>3
  <2>3. FlattenSeq(Append(s \o u, e)) = FlattenSeq(s \o u) \o e
    BY <2>1, FlattenAppend
  <2>4. FlattenSeq(Append(u, e)) = b \o e
    BY FlattenAppend
  <2>5. FlattenSeq(s \o u) = a \o b
    BY <1>3
  <2>. HIDE DEF a, b
  <2>6. (a \o b) \o e = a \o (b \o e)
    <3>1. e \in Seq(S)
      BY <1>3
    <3>2. Associates(a, b, e)
      BY <2>1, <3>1, ConcatAssociates, Zenon
    <3>. QED
      BY <3>2, Zenon DEF Associates
  <2>7. FlattenSeq(s \o Append(u, e)) = a \o FlattenSeq(Append(u, e))
    BY <2>2, <2>3, <2>4, <2>5, <2>6, Zenon
  <2>. QED
    BY <2>7 DEF a
<1>. HIDE DEF Holds
<1>4. ASSUME T # {}
      PROVE  FALSE
  <2>1. PICK n \in T : \A k \in T : n <= k
    <3>1. T \subseteq Nat
      OBVIOUS
    <3>. QED
      BY <1>4, <3>1, NatMinimum
  <2>2. PICK u \in Seq(Seq(S)) : Len(u) = n /\ ~Holds(u)
    OBVIOUS
  <2>3. u # <<>>
    BY <1>2, <2>2
  <2>4. PICK v \in Seq(Seq(S)), e \in Seq(S) : u = Append(v, e)
    BY <2>3, SequenceEmptyOrAppend
  <2>5. Len(u) = Len(v) + 1 /\ Len(v) \in Nat
    BY <2>4, AppendProperties
  <2>6. ~Holds(v)
    BY <1>3, <2>2, <2>4
  <2>7. Len(v) \in T
    BY <2>5, <2>6
  <2>8. n <= Len(v)
    BY <2>1, <2>7, Zenon
  <2>. QED
    BY <2>2, <2>5, <2>8
<1>5. Holds(t)
  <2>1. Len(t) \in Nat
    OBVIOUS
  <2>. QED
    BY <1>4, <2>1
<1>. QED
  BY <1>5 DEF Holds

\* Empty sequences flatten to nothing.
LEMMA FlattenNothing ==
  ASSUME NEW S, NEW s \in Seq(Seq(S)), \A i \in 1..Len(s) : s[i] = <<>>
  PROVE  FlattenSeq(s) = <<>>
<1>1. CASE s = <<>>
  BY <1>1, FlattenEmpty
<1>2. CASE s # <<>>
  <2>1. PICK f : IsFlattening(f, s, Len(s))
    <3>1. Len(s) \in Nat
      OBVIOUS
    <3>. QED
      BY <3>1, FlatteningExists, Zenon
  <2>. DEFINE T == {i \in 1..Len(s) : f[i] # <<>>}
  <2>2. ASSUME T # {}
        PROVE  FALSE
    <3>1. PICK k \in T : \A l \in T : k <= l
      <4>1. T \subseteq Nat
        OBVIOUS
      <4>. QED
        BY <2>2, <4>1, NatMinimum
    <3>2. f[k] = IF k = 1 THEN s[k] ELSE f[k - 1] \o s[k]
      BY <2>1, Zenon DEF IsFlattening
    <3>3. CASE k # 1
      <4>1. k - 1 \in 1..Len(s)
        BY <3>3
      <4>2. f[k - 1] = <<>>
        BY <3>1, <4>1
      <4>3. <<>> \in Seq(S)
        OBVIOUS
      <4>4. <<>> \o <<>> = <<>>
        BY <4>3, ConcatEmptySeq
      <4>. QED
        BY <3>2, <3>3, <4>2, <4>4
    <3>. QED
      BY <3>2, <3>3
  <2>3. Len(s) \in 1..Len(s)
    BY <1>2
  <2>4. f[Len(s)] = <<>>
    BY <2>2, <2>3
  <2>. QED
    BY <1>2, <2>1, <2>4, FlattenSeqIs
<1>. QED
  BY <1>1, <1>2

-----------------------------------------------------------------------------
(***************************************************************************)
(* The pieces that the elements of q stand for, laid end to end.           *)
(***************************************************************************)

Rendered(q, piece) == [i \in DOMAIN q |-> piece[q[i]]]

AreRendered(u, q, piece, S) ==
  /\ u \in Seq(Seq(S))
  /\ Len(u) = Len(q)
  /\ \A i \in 1..Len(q) : u[i] = piece[q[i]]
  /\ FlattenSeq(u) \in Seq(S)

LEMMA RenderedType ==
  ASSUME NEW M, NEW S, NEW piece \in [M -> Seq(S)], NEW q \in Seq(M)
  PROVE  AreRendered(Rendered(q, piece), q, piece, S)
<1>1. /\ DOMAIN q = 1..Len(q) /\ Len(q) \in Nat
      /\ \A i \in 1..Len(q) : q[i] \in M
  OBVIOUS
<1>2. Rendered(q, piece) \in [1..Len(q) -> Seq(S)]
  BY <1>1 DEF Rendered
<1>3. \A i \in 1..Len(q) : Rendered(q, piece)[i] = piece[q[i]]
  BY <1>1 DEF Rendered
<1>4. Rendered(q, piece) \in Seq(Seq(S)) /\ Len(Rendered(q, piece)) = Len(q)
  <2>. DEFINE f == Rendered(q, piece)
              n == Len(q)
              T == Seq(S)
  <2>1. n \in Nat /\ f \in [1..n -> T]
    BY <1>1, <1>2
  <2>. HIDE DEF f, n, T
  <2>2. f \in Seq(T) /\ Len(f) = n
    BY <2>1
  <2>. QED
    BY <2>2, Zenon DEF f, n, T
<1>5. FlattenSeq(Rendered(q, piece)) \in Seq(S)
  BY <1>4, FlattenType, Zenon
<1>. QED
  BY <1>3, <1>4, <1>5, Zenon DEF AreRendered

\* One element more stands for one piece more.
LEMMA RenderedAppend ==
  ASSUME NEW M, NEW S, NEW piece \in [M -> Seq(S)], NEW q \in Seq(M), NEW m \in M
  PROVE  FlattenSeq(Rendered(Append(q, m), piece))
           = FlattenSeq(Rendered(q, piece)) \o piece[m]
<1>. DEFINE p == Append(q, m)
            u == Rendered(p, piece)
            v == Append(Rendered(q, piece), piece[m])
<1>1. /\ p \in Seq(M) /\ Len(p) = Len(q) + 1
      /\ \A i \in 1..Len(q) : p[i] = q[i]
      /\ p[Len(q) + 1] = m
      /\ Len(q) \in Nat
  BY AppendProperties
<1>2. /\ v \in Seq(Seq(S))
      /\ Len(v) = Len(q) + 1
      /\ \A i \in 1..Len(q) : v[i] = piece[q[i]]
      /\ v[Len(q) + 1] = piece[m]
  <2>. DEFINE s == Rendered(q, piece)
              x == piece[m]
              T == Seq(S)
  <2>1. /\ s \in Seq(T) /\ Len(s) = Len(q)
        /\ \A i \in 1..Len(q) : s[i] = piece[q[i]]
    <3>1. AreRendered(s, q, piece, S)
      BY RenderedType, Zenon
    <3>. QED
      BY <3>1, Zenon DEF AreRendered
  <2>2. x \in T
    OBVIOUS
  <2>. HIDE DEF s, x, T
  <2>3. /\ Append(s, x) \in Seq(T) /\ Len(Append(s, x)) = Len(q) + 1
        /\ \A i \in 1..Len(q) : Append(s, x)[i] = s[i]
        /\ Append(s, x)[Len(q) + 1] = x
    BY <1>1, <2>1, <2>2, AppendProperties
  <2>. QED
    BY <2>1, <2>3, Zenon DEF s, x, T
<1>. HIDE DEF p
<1>3. /\ u \in Seq(Seq(S)) /\ Len(u) = Len(q) + 1
      /\ \A i \in 1..(Len(q) + 1) : u[i] = piece[p[i]]
  <2>1. /\ u \in Seq(Seq(S)) /\ Len(u) = Len(p)
        /\ \A i \in 1..Len(p) : u[i] = piece[p[i]]
    <3>1. AreRendered(u, p, piece, S)
      BY <1>1, RenderedType, Zenon
    <3>. QED
      BY <3>1, Zenon DEF AreRendered
  <2>. QED
    BY <1>1, <2>1
<1>4. ASSUME NEW i \in 1..(Len(q) + 1)
      PROVE  u[i] = v[i]
  <2>1. CASE i = Len(q) + 1
    BY <1>1, <1>2, <1>3, <2>1
  <2>2. CASE i # Len(q) + 1
    <3>1. i \in 1..Len(q)
      BY <1>1, <2>2
    <3>2. u[i] = piece[p[i]]
      BY <1>3, Zenon
    <3>. QED
      BY <1>1, <1>2, <3>1, <3>2
  <2>. QED
    BY <2>1, <2>2
<1>5. u = v
  <2>1. Len(u) = Len(v) /\ \A i \in 1..Len(u) : u[i] = v[i]
    BY <1>2, <1>3, <1>4
  <2>. HIDE DEF u, v
  <2>. QED
    BY <1>2, <1>3, <2>1, SeqEqual
<1>6. FlattenSeq(v) = FlattenSeq(Rendered(q, piece)) \o piece[m]
  <2>0. AreRendered(Rendered(q, piece), q, piece, S)
    BY RenderedType, Zenon
  <2>1. Rendered(q, piece) \in Seq(Seq(S))
    BY <2>0, Zenon DEF AreRendered
  <2>2. piece[m] \in Seq(S)
    OBVIOUS
  <2>. QED
    BY <2>1, <2>2, FlattenAppend, Zenon
<1>. QED
  BY <1>5, <1>6 DEF p

\* The first element stands for the first piece.
LEMMA RenderedTail ==
  ASSUME NEW M, NEW S, NEW piece \in [M -> Seq(S)], NEW q \in Seq(M), q # <<>>
  PROVE  FlattenSeq(Rendered(q, piece))
           = piece[Head(q)] \o FlattenSeq(Rendered(Tail(q), piece))
<1>. DEFINE s == Rendered(q, piece)
            u == Tail(s)
            v == Rendered(Tail(q), piece)
<1>1. /\ Tail(q) \in Seq(M) /\ Len(Tail(q)) = Len(q) - 1
      /\ \A i \in 1..Len(Tail(q)) : Tail(q)[i] = q[i + 1]
      /\ Len(q) \in Nat /\ Len(q) # 0
      /\ Head(q) = q[1]
  BY HeadTailProperties
<1>2. /\ s \in Seq(Seq(S)) /\ Len(s) = Len(q)
      /\ \A i \in 1..Len(q) : s[i] = piece[q[i]]
  <2>1. AreRendered(s, q, piece, S)
    BY RenderedType, Zenon
  <2>. QED
    BY <2>1, Zenon DEF AreRendered
<1>3. s # <<>>
  BY <1>1, <1>2
<1>. HIDE DEF s
<1>4. /\ u \in Seq(Seq(S)) /\ Len(u) = Len(q) - 1
      /\ \A i \in 1..(Len(q) - 1) : u[i] = s[i + 1]
      /\ Head(s) = s[1]
  BY <1>2, <1>3, HeadTailProperties
<1>5. /\ v \in Seq(Seq(S)) /\ Len(v) = Len(q) - 1
      /\ \A i \in 1..(Len(q) - 1) : v[i] = piece[Tail(q)[i]]
  <2>1. /\ v \in Seq(Seq(S)) /\ Len(v) = Len(Tail(q))
        /\ \A i \in 1..Len(Tail(q)) : v[i] = piece[Tail(q)[i]]
    <3>1. AreRendered(v, Tail(q), piece, S)
      BY <1>1, RenderedType, Zenon
    <3>. QED
      BY <3>1, Zenon DEF AreRendered
  <2>. QED
    BY <1>1, <2>1
<1>6. ASSUME NEW i \in 1..(Len(q) - 1)
      PROVE  u[i] = v[i]
  <2>1. i + 1 \in 1..Len(q)
    BY <1>1
  <2>. QED
    BY <1>1, <1>2, <1>4, <1>5, <2>1
<1>7. u = v
  <2>1. Len(u) = Len(v) /\ \A i \in 1..Len(u) : u[i] = v[i]
    BY <1>4, <1>5, <1>6
  <2>. HIDE DEF u, v
  <2>. QED
    BY <1>4, <1>5, <2>1, SeqEqual
<1>8. Head(s) = piece[Head(q)]
  <2>1. 1 \in 1..Len(q)
    BY <1>1
  <2>. QED
    BY <1>1, <1>2, <1>4, <2>1
<1>9. FlattenSeq(s) = Head(s) \o FlattenSeq(u)
  BY <1>2, <1>3, FlattenTail
<1>. QED
  BY <1>7, <1>8, <1>9 DEF s

=============================================================================
