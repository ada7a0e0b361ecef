--------------------------- MODULE LibraryLemmas ---------------------------
(***************************************************************************)
(* Facts about natural numbers, sequences and the community modules that   *)
(* the theorem modules do not state, or state in a form the provers cannot *)
(* instantiate.                                                            *)
(***************************************************************************)
EXTENDS Integers, SequencesExt, FiniteSetTheorems, SequenceTheorems, TLAPS

-----------------------------------------------------------------------------
(* Numbers.                                                                *)

\* The descending initial segments 0..x - 1 are well founded by inclusion.
LEMMA LeastNatural ==
    ASSUME NEW M, M \subseteq Nat, M # {}
    PROVE  \E x \in M : \A y \in M : x <= y
<1> DEFINE Below == {0..x - 1 : x \in M}
<1>1. Below \subseteq FiniteSubsetsOf(Nat) /\ Below # {}
  <2> SUFFICES ASSUME NEW x \in M PROVE 0..x - 1 \in FiniteSubsetsOf(Nat)
    OBVIOUS
  <2>1. x - 1 \in Int /\ 0 \in Int /\ 0..x - 1 \in SUBSET Nat
    OBVIOUS
  <2>2. IsFiniteSet(0..x - 1)
    BY <2>1, FS_Interval
  <2> QED BY <2>1, <2>2 DEF FiniteSubsetsOf
<1>2. IsWellFoundedOn(StrictSubsetOrdering(Nat), FiniteSubsetsOf(Nat))
  BY FS_StrictSubsetOrderingWellFounded
<1> HIDE DEF Below
<1>3. PICK s \in Below : \A r \in Below : ~ (<<r, s>> \in StrictSubsetOrdering(Nat))
  BY <1>1, <1>2, WFMin
<1> USE DEF Below
<1>4. PICK x \in M : s = 0..x - 1
  OBVIOUS
<1>5. ASSUME NEW y \in M, y < x PROVE FALSE
  <2>1. 0..y - 1 \in SUBSET Nat /\ 0..x - 1 \in SUBSET Nat
    OBVIOUS
  <2>2. 0..y - 1 \subseteq 0..x - 1 /\ y \in 0..x - 1 /\ y \notin 0..y - 1
    BY <1>5
  <2>3. <<0..y - 1, 0..x - 1>> \in StrictSubsetOrdering(Nat)
    BY <2>1, <2>2 DEF StrictSubsetOrdering
  <2> QED BY <1>3, <1>4, <1>5, <2>3
<1> QED BY <1>5

\* Induction, about a set instead of an operator, which the provers could
\* not instantiate.
LEMMA Induction ==
    ASSUME NEW M, 0 \in M, \A n \in Nat : n \in M => n + 1 \in M
    PROVE  Nat \subseteq M
<1> DEFINE Others == Nat \ M
<1> SUFFICES ASSUME Others # {} PROVE FALSE
  OBVIOUS
<1>1. PICK n \in Others : \A m \in Others : n <= m
  <2>1. Others \subseteq Nat
    OBVIOUS
  <2> QED BY <2>1, LeastNatural
<1>2. n \in Nat \ {0} /\ n - 1 \in Nat /\ n - 1 \notin Others
  BY <1>1
<1> QED BY <1>1, <1>2

\* Of the indices of a sequence.
LEMMA IndexInduction ==
    ASSUME NEW n \in Nat, NEW M, n > 0 => 1 \in M,
           \A m \in 1..n - 1 : m \in M => m + 1 \in M
    PROVE  1..n \subseteq M
<1> DEFINE N == {m \in Nat : m \in 1..n => m \in M}
<1>1. 0 \in N
  OBVIOUS
<1>2. ASSUME NEW m \in Nat, m \in N PROVE m + 1 \in N
  <2>1. CASE m = 0
    BY <2>1
  <2>2. CASE m # 0 /\ m + 1 \in 1..n
    <3>1. m \in 1..n - 1 /\ m \in 1..n
      BY <2>2
    <3> QED BY <1>2, <3>1
  <2>3. CASE m + 1 \notin 1..n
    BY <2>3
  <2> QED BY <2>1, <2>2, <2>3
<1> HIDE DEF N
<1>3. Nat \subseteq N
  BY <1>1, <1>2, Induction
<1> QED BY <1>3 DEF N

LEMMA MinNatural ==
    ASSUME NEW M, M \subseteq Nat, M # {}
    PROVE  Min(M) \in M /\ \A y \in M : Min(M) <= y
BY LeastNatural DEF Min

\* A set has more subsets than members.
LEMMA PowerOfTwo == ASSUME NEW k \in Nat PROVE 2^k \in Nat /\ k < 2^k
<1> DEFINE S == 1..k
<1>1. IsFiniteSet(S) /\ Cardinality(S) = k
  BY FS_Interval
<1>2. IsFiniteSet(SUBSET S) /\ Cardinality(SUBSET S) = 2^k
  BY <1>1, FS_SUBSET
<1>3. Cardinality(SUBSET S) \in Nat
  BY <1>2, FS_CardinalityType
<1> DEFINE f == [x \in S |-> {x}]
<1>4. f \in Injection(S, SUBSET S)
  BY DEF Injection, IsInjective
<1>5. f \notin Surjection(S, SUBSET S)
  <2>1. {} \in SUBSET S /\ \A x \in S : f[x] # {}
    OBVIOUS
  <2> QED BY <2>1 DEF Surjection
<1>6. /\ Cardinality(S) <= Cardinality(SUBSET S)
      /\ Cardinality(S) = Cardinality(SUBSET S) <=> f \in Surjection(S, SUBSET S)
  BY <1>2, <1>4, FS_Injection
<1> QED BY <1>1, <1>2, <1>3, <1>5, <1>6

-----------------------------------------------------------------------------
(* Sequences.                                                              *)

\* A sequence is its first n elements and the others.
LEMMA SplitAt ==
    ASSUME NEW S, NEW s \in Seq(S), NEW n \in 0..Len(s)
    PROVE  /\ SubSeq(s, 1, n) \in Seq(S) /\ Len(SubSeq(s, 1, n)) = n
           /\ SubSeq(s, n + 1, Len(s)) \in Seq(S)
           /\ Len(SubSeq(s, n + 1, Len(s))) = Len(s) - n
           /\ SubSeq(s, 1, n) \o SubSeq(s, n + 1, Len(s)) = s
<1>1. Len(s) \in Nat /\ \A k \in 1..Len(s) : s[k] \in S
  BY LenProperties, ElementOfSeq
<1>2. SubSeq(s, 1, n) \in Seq(S) /\ Len(SubSeq(s, 1, n)) = n
  <2>1. \A k \in 1..n : s[k] \in S
    BY <1>1
  <2> QED BY <1>1, <2>1, SubSeqProperties
<1>3. /\ SubSeq(s, n + 1, Len(s)) \in Seq(S)
      /\ Len(SubSeq(s, n + 1, Len(s))) = Len(s) - n
  <2>1. \A k \in (n + 1)..Len(s) : s[k] \in S
    BY <1>1
  <2>2. n + 1 \in Int /\ Len(s) \in Int
    BY <1>1
  <2> QED BY <1>1, <2>1, <2>2, SubSeqProperties
<1>4. SubSeq(s, 1, n) \o SubSeq(s, n + 1, Len(s)) = SubSeq(s, 1, Len(s))
  <2>1. 1 \in 1..Len(s) + 1 /\ n \in 1 - 1..Len(s) /\ Len(s) \in n..Len(s)
    BY <1>1
  <2> QED BY <2>1, ConcatAdjacentSubSeq
<1> QED BY <1>2, <1>3, <1>4, SubSeqFull

-----------------------------------------------------------------------------
(* What two ways to write a concatenation have in common: they agree on    *)
(* the elements, and on what is left when the first part of one is taken   *)
(* from both.                                                              *)

LEMMA ConcatFront ==
    ASSUME NEW S, NEW a \in Seq(S), NEW b \in Seq(S), NEW p \in Seq(S), NEW q \in Seq(S),
           a \o b = p \o q
    PROVE  \A k \in 1..Len(a) : k <= Len(p) => a[k] = p[k]
<1>1. /\ Len(a) \in Nat /\ Len(b) \in Nat /\ Len(p) \in Nat /\ Len(q) \in Nat
      /\ \A k \in 1..Len(a) + Len(b) : (a \o b)[k] = IF k <= Len(a) THEN a[k] ELSE b[k - Len(a)]
      /\ \A k \in 1..Len(p) + Len(q) : (p \o q)[k] = IF k <= Len(p) THEN p[k] ELSE q[k - Len(p)]
  BY LenProperties, ConcatProperties
<1> DEFINE c == a \o b
<1>2. /\ \A k \in 1..Len(a) + Len(b) : c[k] = IF k <= Len(a) THEN a[k] ELSE b[k - Len(a)]
      /\ \A k \in 1..Len(p) + Len(q) : c[k] = IF k <= Len(p) THEN p[k] ELSE q[k - Len(p)]
  BY <1>1
<1> HIDE DEF c
<1> QED BY <1>1, <1>2

LEMMA ConcatRest ==
    ASSUME NEW S, NEW a \in Seq(S), NEW b \in Seq(S), NEW p \in Seq(S), NEW q \in Seq(S),
           a \o b = p \o q, Len(p) <= Len(a)
    PROVE  /\ SubSeq(a, Len(p) + 1, Len(a)) \in Seq(S)
           /\ SubSeq(a, Len(p) + 1, Len(a)) \o b = q
<1> DEFINE c == a \o b
           d == SubSeq(a, Len(p) + 1, Len(a))
           e == d \o b
<1>1. /\ Len(a) \in Nat /\ Len(b) \in Nat /\ Len(p) \in Nat /\ Len(q) \in Nat
      /\ \A k \in 1..Len(a) : a[k] \in S
  BY LenProperties, ElementOfSeq
<1>2. /\ Len(c) = Len(a) + Len(b) /\ Len(c) = Len(p) + Len(q)
      /\ \A k \in 1..Len(a) + Len(b) : c[k] = IF k <= Len(a) THEN a[k] ELSE b[k - Len(a)]
      /\ \A k \in 1..Len(p) + Len(q) : c[k] = IF k <= Len(p) THEN p[k] ELSE q[k - Len(p)]
  BY ConcatProperties
<1>3. /\ d \in Seq(S) /\ Len(d) = Len(a) - Len(p)
      /\ \A k \in 1..Len(d) : d[k] = a[Len(p) + k]
  <2>1. Len(p) + 1 \in Int /\ Len(a) \in Int /\ \A k \in Len(p) + 1..Len(a) : a[k] \in S
    BY <1>1
  <2>2. /\ d \in Seq(S)
        /\ Len(d) = IF Len(p) + 1 <= Len(a) THEN Len(a) - (Len(p) + 1) + 1 ELSE 0
        /\ \A k \in 1..Len(a) - (Len(p) + 1) + 1 : d[k] = a[Len(p) + 1 + k - 1]
    BY <2>1, SubSeqProperties
  <2> HIDE DEF d
  <2> QED BY <1>1, <2>2
<1> HIDE DEF c, d
<1>4. /\ e \in Seq(S) /\ Len(e) = Len(d) + Len(b)
      /\ \A k \in 1..Len(d) + Len(b) : e[k] = IF k <= Len(d) THEN d[k] ELSE b[k - Len(d)]
  BY <1>3, ConcatProperties
<1> HIDE DEF e
<1>5. Len(e) = Len(q)
  BY <1>1, <1>2, <1>3, <1>4
<1>6. ASSUME NEW k \in 1..Len(q) PROVE e[k] = q[k]
  <2>1. c[Len(p) + k] = q[k]
    <3>1. Len(p) + k \in 1..Len(p) + Len(q) /\ ~ Len(p) + k <= Len(p) /\ (Len(p) + k) - Len(p) = k
      BY <1>1
    <3> QED BY <1>2, <3>1
  <2>2. CASE k <= Len(d)
    <3>1. e[k] = a[Len(p) + k]
      BY <1>1, <1>3, <1>4, <1>5, <2>2
    <3>2. Len(p) + k \in 1..Len(a) + Len(b) /\ Len(p) + k <= Len(a)
      BY <1>1, <1>3, <2>2
    <3> QED BY <1>2, <2>1, <3>1, <3>2
  <2>3. CASE ~ k <= Len(d)
    <3>1. e[k] = b[k - Len(d)]
      BY <1>1, <1>3, <1>4, <1>5, <2>3
    <3>2. /\ Len(p) + k \in 1..Len(a) + Len(b) /\ ~ Len(p) + k <= Len(a)
          /\ (Len(p) + k) - Len(a) = k - Len(d)
      BY <1>1, <1>2, <1>3, <2>3
    <3> QED BY <1>2, <2>1, <3>1, <3>2
  <2> QED BY <2>2, <2>3, <1>1, <1>3
<1>7. e = q
  BY <1>4, <1>5, <1>6, SeqEqual
<1> QED BY <1>3, <1>7 DEF d, e

\* Two parts of the same length, and what is left, are the same.
LEMMA SameSplit ==
    ASSUME NEW S, NEW a \in Seq(S), NEW b \in Seq(S), NEW p \in Seq(S), NEW q \in Seq(S),
           a \o b = p \o q, Len(p) = Len(a)
    PROVE  a = p /\ b = q
<1>1. Len(a) \in Nat /\ \A k \in 1..Len(a) : a[k] = p[k]
  BY ConcatFront, LenProperties
<1>2. a = p
  BY <1>1, SeqEqual
<1>3. p \o b = p \o q
  BY <1>2
<1> QED BY <1>2, <1>3, ConcatSimplifications

LEMMA PrefixOfConcat ==
    ASSUME NEW S, NEW p \in Seq(S), NEW q \in Seq(S)
    PROVE  /\ IsPrefix(p, p \o q)
           /\ SubSeq(p \o q, Len(p) + 1, Len(p \o q)) = q
<1> DEFINE c == p \o q
<1>1. /\ c \in Seq(S) /\ Len(c) = Len(p) + Len(q)
      /\ Len(p) \in Nat /\ Len(q) \in Nat /\ Len(p) \in 0..Len(c)
  BY ConcatProperties, LenProperties
<1>2. p \o q = SubSeq(c, 1, Len(p)) \o SubSeq(c, Len(p) + 1, Len(c))
  BY <1>1, SplitAt
<1>3. /\ SubSeq(c, 1, Len(p)) \in Seq(S) /\ Len(SubSeq(c, 1, Len(p))) = Len(p)
      /\ SubSeq(c, Len(p) + 1, Len(c)) \in Seq(S)
  BY <1>1, SplitAt
<1> DEFINE u == SubSeq(c, 1, Len(p))
           v == SubSeq(c, Len(p) + 1, Len(c))
<1>4. p = u /\ q = v
  <2>1. /\ p \o q = u \o v
        /\ u \in Seq(S) /\ v \in Seq(S) /\ Len(u) = Len(p)
    BY <1>2, <1>3
  <2> HIDE DEF u, v
  <2> QED BY <2>1, SameSplit
<1> HIDE DEF c
<1>5. SubSeq(p, 1, Len(p)) = p
  BY SubSeqFull
<1> QED BY <1>1, <1>4, <1>5 DEF IsPrefix, c

LEMMA PrefixOfParts ==
    ASSUME NEW S, NEW p \in Seq(S), NEW q \in Seq(S), NEW r \in Seq(S)
    PROVE  IsPrefix(p \o q, p \o (q \o r))
<1> DEFINE u == p \o q
<1>1. u \in Seq(S)
  BY ConcatProperties
<1>2. p \o (q \o r) = u \o r
  BY ConcatAssociative, SMTT(30)
<1> HIDE DEF u
<1>3. IsPrefix(u, u \o r)
  BY <1>1, PrefixOfConcat
<1> QED BY <1>2, <1>3 DEF u

\* What is left of a sequence after n elements, up to its m-th and behind.
LEMMA SplitRest ==
    ASSUME NEW S, NEW s \in Seq(S), NEW n \in 0..Len(s), NEW m \in n..Len(s)
    PROVE  /\ SubSeq(s, n + 1, m) \in Seq(S) /\ Len(SubSeq(s, n + 1, m)) = m - n
           /\ \A k \in 1..m - n : SubSeq(s, n + 1, m)[k] = s[n + k]
           /\ SubSeq(s, n + 1, Len(s)) = SubSeq(s, n + 1, m) \o SubSeq(s, m + 1, Len(s))
<1>1. Len(s) \in Nat /\ \A k \in 1..Len(s) : s[k] \in S
  BY LenProperties, ElementOfSeq
<1>2. n \in Int /\ m \in Int /\ n + 1 \in Int /\ 0 <= n /\ n <= m /\ m <= Len(s)
  BY <1>1
<1>3. \A k \in (n + 1)..m : s[k] \in S
  BY <1>1, <1>2
<1>4. /\ SubSeq(s, n + 1, m) \in Seq(S)
      /\ Len(SubSeq(s, n + 1, m)) = IF n + 1 <= m THEN m - (n + 1) + 1 ELSE 0
      /\ \A k \in 1..m - (n + 1) + 1 : SubSeq(s, n + 1, m)[k] = s[n + 1 + k - 1]
  BY <1>2, <1>3, SubSeqProperties
<1> DEFINE d == SubSeq(s, n + 1, m)
<1>5. /\ d \in Seq(S) /\ Len(d) = IF n + 1 <= m THEN m - (n + 1) + 1 ELSE 0
      /\ \A k \in 1..m - (n + 1) + 1 : d[k] = s[n + 1 + k - 1]
  BY <1>4
<1> HIDE DEF d
<1>6. Len(d) = m - n
  BY <1>2, <1>5
<1>7. \A k \in 1..m - n : d[k] = s[n + k]
  <2>1. m - (n + 1) + 1 = m - n /\ \A k \in 1..m - n : n + 1 + k - 1 = n + k
    BY <1>2
  <2> QED BY <1>5, <2>1
<1>8. n + 1 \in 1..Len(s) + 1 /\ m \in (n + 1) - 1..Len(s) /\ Len(s) \in m..Len(s)
  BY <1>1, <1>2
<1>9. SubSeq(s, n + 1, m) \o SubSeq(s, m + 1, Len(s)) = SubSeq(s, n + 1, Len(s))
  BY <1>8, ConcatAdjacentSubSeq
<1> QED BY <1>5, <1>6, <1>7, <1>9 DEF d

-----------------------------------------------------------------------------
(* FlattenSeq: its recursive function exists, and what it does at both     *)
(* ends of a sequence.                                                     *)

\* g has the concatenations of the first sequences of s, up to n.
Flattens(g, s, n) ==
    g = [k \in 1..n |-> IF k = 1 THEN s[k] ELSE g[k - 1] \o s[k]]

LEMMA FlattenExists ==
    ASSUME NEW s, NEW n \in Nat
    PROVE  \E g : Flattens(g, s, n)
<1> DEFINE M == {m \in Nat : \E g : Flattens(g, s, m)}
<1>1. 0 \in M
  <2>1. Flattens([k \in {} |-> k], s, 0)
    BY DEF Flattens
  <2> QED BY <2>1
<1>2. ASSUME NEW m \in Nat, m \in M PROVE m + 1 \in M
  <2>1. PICK g : Flattens(g, s, m)
    BY <1>2
  <2>5. \A k \in 1..m : g[k] = IF k = 1 THEN s[k] ELSE g[k - 1] \o s[k]
    BY <2>1, Zenon DEF Flattens
  <2> DEFINE h == [k \in 1..m + 1 |->
                     IF k <= m THEN g[k] ELSE IF k = 1 THEN s[k] ELSE g[k - 1] \o s[k]]
  <2>2. \A k \in 1..m + 1 : h[k] = IF k = 1 THEN s[k] ELSE h[k - 1] \o s[k]
    <3> SUFFICES ASSUME NEW k \in 1..m + 1
                 PROVE  h[k] = IF k = 1 THEN s[k] ELSE h[k - 1] \o s[k]
      OBVIOUS
    <3>1. CASE k = 1
      <4>1. k <= m => g[k] = s[k]
        BY <2>5, <3>1
      <4> QED BY <3>1, <4>1
    <3>2. CASE k > 1
      <4>1. k - 1 \in 1..m + 1 /\ k - 1 <= m
        BY <3>2
      <4>2. h[k - 1] = g[k - 1]
        BY <4>1
      <4>3. CASE k <= m
        <5>1. k \in 1..m /\ k # 1
          BY <3>2, <4>3
        <5>2. h[k] = g[k] /\ g[k] = g[k - 1] \o s[k]
          BY <2>5, <4>3, <5>1
        <5> QED BY <4>2, <5>1, <5>2
      <4>4. CASE ~ k <= m
        BY <3>2, <4>2, <4>4
      <4> QED BY <4>3, <4>4
    <3> QED BY <3>1, <3>2
  <2> HIDE DEF h
  <2>3. h = [k \in 1..m + 1 |-> h[k]]
    BY DEF h
  <2>4. Flattens(h, s, m + 1)
    BY <2>2, <2>3 DEF Flattens
  <2> QED BY <2>4
<1> HIDE DEF M
<1>3. Nat \subseteq M
  BY <1>1, <1>2, Induction
<1> QED BY <1>3 DEF M

\* What FlattenSeq calls flatten.
Flat(s) == CHOOSE g : Flattens(g, s, Len(s))

LEMMA FlattenIsFlat ==
    ASSUME NEW s, Len(s) # 0
    PROVE  FlattenSeq(s) = Flat(s)[Len(s)]
BY DEF FlattenSeq, Flat, Flattens

LEMMA FlatRecurs ==
    ASSUME NEW s, Len(s) \in Nat, NEW k \in 1..Len(s)
    PROVE  Flat(s)[k] = IF k = 1 THEN s[k] ELSE Flat(s)[k - 1] \o s[k]
<1>1. Flattens(Flat(s), s, Len(s))
  BY FlattenExists DEF Flat
<1> DEFINE g == Flat(s)
<1>2. Flattens(g, s, Len(s))
  BY <1>1
<1> HIDE DEF g
<1>3. g[k] = IF k = 1 THEN s[k] ELSE g[k - 1] \o s[k]
  BY <1>2 DEF Flattens
<1> QED BY <1>3 DEF g

LEMMA FlatFirst ==
    ASSUME NEW s, Len(s) \in Nat, Len(s) # 0
    PROVE  Flat(s)[1] = s[1]
<1>1. 1 \in 1..Len(s)
  OBVIOUS
<1>2. Flat(s)[1] = IF 1 = 1 THEN s[1] ELSE Flat(s)[1 - 1] \o s[1]
  BY <1>1, FlatRecurs, Zenon
<1> QED BY <1>2

LEMMA FlatSteps ==
    ASSUME NEW s, Len(s) \in Nat
    PROVE  \A m \in 1..Len(s) - 1 : Flat(s)[m + 1] = Flat(s)[m] \o s[m + 1]
<1>1. ASSUME NEW m \in 1..Len(s) - 1 PROVE Flat(s)[m + 1] = Flat(s)[m] \o s[m + 1]
  <2> DEFINE k == m + 1
  <2>1. k \in 1..Len(s) /\ k # 1 /\ k - 1 = m
    OBVIOUS
  <2> HIDE DEF k
  <2>2. Flat(s)[k] = IF k = 1 THEN s[k] ELSE Flat(s)[k - 1] \o s[k]
    BY <2>1, FlatRecurs, Zenon
  <2>3. Flat(s)[k] = Flat(s)[m] \o s[k]
    BY <2>1, <2>2
  <2> QED BY <2>3 DEF k
<1> QED BY <1>1

LEMMA FlatType ==
    ASSUME NEW S, NEW s \in Seq(Seq(S))
    PROVE  \A k \in 1..Len(s) : Flat(s)[k] \in Seq(S)
<1> DEFINE M == {m \in 1..Len(s) : Flat(s)[m] \in Seq(S)}
<1>1. Len(s) \in Nat /\ \A m \in 1..Len(s) : s[m] \in Seq(S)
  BY LenProperties, ElementOfSeq
<1>2. ASSUME Len(s) > 0 PROVE 1 \in M
  <2>1. Flat(s)[1] = s[1] /\ 1 \in 1..Len(s)
    BY <1>1, <1>2, FlatFirst
  <2> QED BY <1>1, <2>1
<1>3. ASSUME NEW m \in 1..Len(s) - 1, m \in M PROVE m + 1 \in M
  <2>1. m + 1 \in 1..Len(s)
    BY <1>1
  <2>2. Flat(s)[m + 1] = Flat(s)[m] \o s[m + 1]
    BY <1>1, FlatSteps
  <2>3. Flat(s)[m] \in Seq(S) /\ s[m + 1] \in Seq(S)
    BY <1>1, <1>3, <2>1
  <2>4. Flat(s)[m] \o s[m + 1] \in Seq(S)
    BY <2>3, ConcatProperties
  <2> QED BY <2>1, <2>2, <2>4
<1> HIDE DEF M
<1>4. 1..Len(s) \subseteq M
  BY <1>1, <1>2, <1>3, IndexInduction
<1> QED BY <1>4 DEF M

LEMMA FlattenType ==
    ASSUME NEW S, NEW s \in Seq(Seq(S))
    PROVE  FlattenSeq(s) \in Seq(S)
<1>1. Len(s) \in Nat
  BY LenProperties
<1>2. CASE Len(s) = 0
  <2>1. s = <<>>
    BY <1>2, EmptySeq
  <2> QED BY <1>2, <2>1 DEF FlattenSeq
<1>3. CASE Len(s) # 0
  <2>1. Len(s) \in 1..Len(s)
    BY <1>1, <1>3
  <2> QED BY <1>3, <2>1, FlatType, FlattenIsFlat
<1> QED BY <1>2, <1>3

LEMMA FlattenEmpty == FlattenSeq(<<>>) = <<>>
BY DEF FlattenSeq

\* One more sequence at the end.
LEMMA FlattenAppend ==
    ASSUME NEW S, NEW s \in Seq(Seq(S)), NEW x \in Seq(S)
    PROVE  FlattenSeq(Append(s, x)) = FlattenSeq(s) \o x
<1> DEFINE t == Append(s, x)
           M == {m \in 1..Len(s) : Flat(t)[m] = Flat(s)[m]}
<1>1. /\ Len(s) \in Nat /\ Len(t) \in Nat /\ Len(t) = Len(s) + 1
      /\ \A m \in 1..Len(s) : t[m] = s[m]
      /\ t[Len(s) + 1] = x
  BY AppendProperties, LenProperties
<1> HIDE DEF t
<1>2. ASSUME Len(s) > 0 PROVE 1 \in M
  <2>1. Flat(s)[1] = s[1] /\ Flat(t)[1] = t[1] /\ 1 \in 1..Len(s)
    BY <1>1, <1>2, FlatFirst
  <2> QED BY <1>1, <2>1
<1>3. ASSUME NEW m \in 1..Len(s) - 1, m \in M PROVE m + 1 \in M
  <2>1. m + 1 \in 1..Len(s) /\ m \in 1..Len(t) - 1
    BY <1>1
  <2>2. Flat(s)[m + 1] = Flat(s)[m] \o s[m + 1]
    BY <1>1, FlatSteps
  <2>3. Flat(t)[m + 1] = Flat(t)[m] \o t[m + 1]
    BY <1>1, <2>1, FlatSteps
  <2>4. t[m + 1] = s[m + 1] /\ Flat(t)[m] = Flat(s)[m]
    BY <1>1, <1>3, <2>1
  <2> QED BY <2>1, <2>2, <2>3, <2>4
<1> HIDE DEF M
<1>4. 1..Len(s) \subseteq M
  BY <1>1, <1>2, <1>3, IndexInduction
<1>5. FlattenSeq(t) = Flat(t)[Len(s) + 1]
  BY <1>1, FlattenIsFlat
<1>6. CASE Len(s) = 0
  <2>1. FlattenSeq(s) = <<>>
    BY <1>6, EmptySeq DEF FlattenSeq
  <2>2. Flat(t)[1] = t[1] /\ t[1] = x
    BY <1>1, <1>6, FlatFirst
  <2>3. <<>> \o x = x
    BY ConcatEmptySeq
  <2> QED BY <1>5, <1>6, <2>1, <2>2, <2>3 DEF t
<1>7. CASE Len(s) # 0
  <2>1. Len(s) \in 1..Len(s) /\ Len(s) \in 1..Len(t) - 1
    BY <1>1, <1>7
  <2>2. Flat(t)[Len(s) + 1] = Flat(t)[Len(s)] \o t[Len(s) + 1]
    BY <1>1, <2>1, FlatSteps
  <2>3. Flat(t)[Len(s)] = Flat(s)[Len(s)]
    BY <1>4, <2>1 DEF M
  <2>4. FlattenSeq(s) = Flat(s)[Len(s)]
    BY <1>7, FlattenIsFlat
  <2> QED BY <1>1, <1>5, <2>2, <2>3, <2>4 DEF t
<1> QED BY <1>6, <1>7

\* One more at the front.
LEMMA FlattenCons ==
    ASSUME NEW S, NEW s \in Seq(Seq(S)), NEW x \in Seq(S)
    PROVE  FlattenSeq(<<x>> \o s) = x \o FlattenSeq(s)
<1> DEFINE t == <<x>> \o s
           M == {m \in 1..Len(s) : Flat(t)[m + 1] = x \o Flat(s)[m]}
<1>1. /\ Len(s) \in Nat /\ Len(t) \in Nat /\ Len(t) = Len(s) + 1
      /\ t[1] = x
      /\ \A m \in 1..Len(s) : t[m + 1] = s[m]
  <2>1. <<x>> \in Seq(Seq(S)) /\ Len(<<x>>) = 1 /\ <<x>>[1] = x
    OBVIOUS
  <2>2. /\ Len(t) = 1 + Len(s)
        /\ \A k \in 1..1 + Len(s) : t[k] = IF k <= 1 THEN <<x>>[k] ELSE s[k - 1]
    BY <2>1, ConcatProperties
  <2>3. Len(s) \in Nat
    BY LenProperties
  <2> HIDE DEF t
  <2> QED BY <2>1, <2>2, <2>3
<1> HIDE DEF t
<1>2. \A m \in 1..Len(s) : s[m] \in Seq(S) /\ Flat(s)[m] \in Seq(S)
  BY ElementOfSeq, FlatType
<1>3. Flat(t)[1] = x
  <2>1. Len(t) # 0
    BY <1>1
  <2> QED BY <1>1, <2>1, FlatFirst
<1>4. ASSUME Len(s) > 0 PROVE 1 \in M
  <2>1. Flat(t)[1 + 1] = Flat(t)[1] \o t[1 + 1]
    <3>1. 1 \in 1..Len(t) - 1
      BY <1>1, <1>4
    <3> QED BY <1>1, <3>1, FlatSteps
  <2>2. 1 \in 1..Len(s) /\ Len(s) # 0
    BY <1>1, <1>4
  <2>3. t[1 + 1] = s[1] /\ Flat(s)[1] = s[1]
    BY <1>1, <2>2, FlatFirst
  <2> QED BY <1>3, <2>1, <2>2, <2>3
<1>5. ASSUME NEW m \in 1..Len(s) - 1, m \in M PROVE m + 1 \in M
  <2>1. m + 1 \in 1..Len(s) /\ m \in 1..Len(s) /\ m + 1 \in 1..Len(t) - 1
    BY <1>1
  <2>2. Flat(s)[m + 1] = Flat(s)[m] \o s[m + 1]
    BY <1>1, FlatSteps
  <2>3. Flat(t)[(m + 1) + 1] = Flat(t)[m + 1] \o t[(m + 1) + 1]
    BY <1>1, <2>1, FlatSteps, Zenon
  <2>4. t[(m + 1) + 1] = s[m + 1]
    BY <1>1, <2>1, Zenon
  <2>5. Flat(t)[m + 1] = x \o Flat(s)[m]
    BY <1>5
  <2>6. (x \o Flat(s)[m]) \o s[m + 1] = x \o (Flat(s)[m] \o s[m + 1])
    <3>1. Flat(s)[m] \in Seq(S) /\ s[m + 1] \in Seq(S)
      BY <1>2, <2>1
    <3> DEFINE q == Flat(s)[m]  r == s[m + 1]
    <3>2. x \in Seq(S) /\ q \in Seq(S) /\ r \in Seq(S)
      BY <3>1
    <3> HIDE DEF q, r
    <3>3. (x \o q) \o r = x \o (q \o r)
      BY <3>2, ConcatAssociative, SMTT(30)
    <3> QED BY <3>3 DEF q, r
  <2>7. Flat(t)[(m + 1) + 1] = x \o Flat(s)[m + 1]
    BY <2>2, <2>3, <2>4, <2>5, <2>6, Zenon
  <2> QED BY <2>1, <2>7, Zenon
<1> HIDE DEF M
<1>6. 1..Len(s) \subseteq M
  BY <1>1, <1>4, <1>5, IndexInduction
<1>7. FlattenSeq(t) = Flat(t)[Len(s) + 1]
  BY <1>1, FlattenIsFlat
<1>8. CASE Len(s) = 0
  <2>1. FlattenSeq(s) = <<>> /\ x \o <<>> = x
    BY <1>8, EmptySeq, ConcatEmptySeq DEF FlattenSeq
  <2> QED BY <1>3, <1>7, <1>8, <2>1 DEF t
<1>9. CASE Len(s) # 0
  <2>1. Len(s) \in 1..Len(s)
    BY <1>1, <1>9
  <2>2. Flat(t)[Len(s) + 1] = x \o Flat(s)[Len(s)]
    BY <1>6, <2>1 DEF M
  <2>3. FlattenSeq(s) = Flat(s)[Len(s)]
    BY <1>9, FlattenIsFlat
  <2> QED BY <1>7, <2>2, <2>3 DEF t
<1> QED BY <1>8, <1>9

\* The concatenation of what is left after n sequences starts with the next.
LEMMA FlattenRest ==
    ASSUME NEW S, NEW s \in Seq(Seq(S)), NEW n \in Nat, n < Len(s)
    PROVE  /\ FlattenSeq(SubSeq(s, n + 1, Len(s)))
                  = s[n + 1] \o FlattenSeq(SubSeq(s, n + 2, Len(s)))
           /\ s[n + 1] \in Seq(S)
           /\ FlattenSeq(SubSeq(s, n + 2, Len(s))) \in Seq(S)
<1>1. Len(s) \in Nat /\ n + 1 \in 1..Len(s) /\ n + 1 \in 0..Len(s) /\ Len(s) \in n + 1..Len(s)
  BY LenProperties
<1>2. (n + 1) + 1 = n + 2
  OBVIOUS
<1>3. SubSeq(s, n + 1, Len(s)) = <<s[n + 1]>> \o SubSeq(s, (n + 1) + 1, Len(s))
  BY <1>1, SubSeqRecursiveFirst
<1>4. SubSeq(s, (n + 1) + 1, Len(s)) \in Seq(Seq(S))
  BY <1>1, SplitAt
<1>5. s[n + 1] \in Seq(S)
  BY <1>1, ElementOfSeq
<1> QED BY <1>2, <1>3, <1>4, <1>5, FlattenCons, FlattenType
-----------------------------------------------------------------------------
(* Prefixes, and what was appended.                                        *)

\* A prefix of a sequence is one of each continuation of it.
LEMMA PrefixGrows ==
    ASSUME NEW S, NEW p \in Seq(S), NEW q \in Seq(S), NEW r \in Seq(S), IsPrefix(p, q)
    PROVE  IsPrefix(p, q \o r)
<1> DEFINE u == SubSeq(q, 1, Len(p))
           v == SubSeq(q, Len(p) + 1, Len(q))
<1>1. Len(p) \in Nat /\ Len(q) \in Nat /\ Len(p) \in 0..Len(q)
  BY LenProperties DEF IsPrefix
<1>2. p = u
  BY SubSeqFull DEF IsPrefix
<1>3. u \in Seq(S) /\ v \in Seq(S) /\ u \o v = q
  BY <1>1, SplitAt
<1> HIDE DEF u, v
<1>4. IsPrefix(u, (u \o v) \o r)
  <2>0. u \in Seq(S) /\ v \in Seq(S) /\ r \in Seq(S)
    BY <1>3
  <2>1. (u \o v) \o r = u \o (v \o r)
    BY ONLY <2>0, ConcatAssociative, SMTT(30)
  <2>2. v \o r \in Seq(S)
    BY <1>3, ConcatProperties
  <2>3. IsPrefix(u, u \o (v \o r))
    BY <1>3, <2>2, PrefixOfConcat
  <2> QED BY <2>1, <2>3
<1> QED BY <1>2, <1>3, <1>4

\* The first elements do not change when one is appended.
LEMMA FrontOfAppend ==
    ASSUME NEW S, NEW s \in Seq(S), NEW x \in S, NEW n \in 0..Len(s)
    PROVE  /\ Append(s, x) \in Seq(S) /\ Len(Append(s, x)) = Len(s) + 1
           /\ n \in 0..Len(Append(s, x))
           /\ SubSeq(Append(s, x), 1, n) = SubSeq(s, 1, n)
<1> DEFINE t == Append(s, x)
<1>1. /\ t \in Seq(S) /\ Len(t) = Len(s) + 1 /\ Len(s) \in Nat
      /\ \A k \in 1..Len(s) : t[k] = s[k]
  BY AppendProperties, LenProperties
<1>2. /\ SubSeq(s, 1, n) \in Seq(S) /\ Len(SubSeq(s, 1, n)) = n
      /\ \A k \in 1..n : SubSeq(s, 1, n)[k] = s[k]
  BY <1>1, SubSeqProperties, ElementOfSeq
<1> HIDE DEF t
<1>3. n \in 0..Len(t)
  BY <1>1
<1>4. /\ SubSeq(t, 1, n) \in Seq(S) /\ Len(SubSeq(t, 1, n)) = n
      /\ \A k \in 1..n : SubSeq(t, 1, n)[k] = t[k]
  BY <1>1, <1>3, SubSeqProperties, ElementOfSeq
<1> DEFINE u == SubSeq(s, 1, n)
           v == SubSeq(t, 1, n)
<1>5. \A k \in 1..n : v[k] = u[k]
  BY <1>1, <1>2, <1>4
<1>6. u \in Seq(S) /\ v \in Seq(S) /\ Len(u) = Len(v)
  BY <1>2, <1>4
<1>7. Len(u) = n
  BY <1>2
<1> HIDE DEF u, v
<1>8. u = v
  BY <1>5, <1>6, <1>7, SeqEqual
<1> QED BY <1>1, <1>3, <1>8 DEF t, u, v

\* The first n + m elements are the first n and the m behind them.
LEMMA FrontGrows ==
    ASSUME NEW S, NEW s \in Seq(S), NEW n \in Nat, NEW m \in Nat, n + m <= Len(s)
    PROVE  /\ SubSeq(s, 1, n) \in Seq(S) /\ SubSeq(s, n + 1, n + m) \in Seq(S)
           /\ SubSeq(s, 1, n + m) = SubSeq(s, 1, n) \o SubSeq(s, n + 1, n + m)
<1>1. /\ Len(s) \in Nat /\ n \in 0..Len(s) /\ n + m \in n..Len(s)
      /\ 1 \in 1..Len(s) + 1 /\ n \in 1 - 1..Len(s)
  BY LenProperties
<1>2. SubSeq(s, 1, n) \o SubSeq(s, n + 1, n + m) = SubSeq(s, 1, n + m)
  BY <1>1, ConcatAdjacentSubSeq
<1>3. SubSeq(s, 1, n) \in Seq(S) /\ SubSeq(s, n + 1, n + m) \in Seq(S)
  BY <1>1, SplitAt, SplitRest
<1> QED BY <1>2, <1>3

\* Moving the first elements from one sequence to the end of another keeps
\* what they make together.
LEMMA MovedFront ==
    ASSUME NEW S, NEW r \in Seq(S), NEW a \in Seq(S), NEW b \in Seq(S), NEW o, o = a \o b
    PROVE  r \o a \in Seq(S) /\ (r \o a) \o b = r \o o
<1>1. (r \o a) \o b = r \o (a \o b)
  BY ConcatAssociative, SMTT(30)
<1> QED BY <1>1, ConcatProperties

-----------------------------------------------------------------------------
(* A sequence without the elements that are x.                             *)

Kept(s, x) == [k \in DOMAIN s |-> IF s[k] = x THEN <<>> ELSE <<s[k]>>]
Without(s, x) == FlattenSeq(Kept(s, x))

LEMMA KeptType ==
    ASSUME NEW S, NEW s \in Seq(S), NEW x
    PROVE  Kept(s, x) \in Seq(Seq(S)) /\ Len(Kept(s, x)) = Len(s)
           /\ \A k \in 1..Len(s) : Kept(s, x)[k] = IF s[k] = x THEN <<>> ELSE <<s[k]>>
<1>1. DOMAIN s = 1..Len(s) /\ Len(s) \in Nat /\ \A k \in 1..Len(s) : s[k] \in S
  BY LenProperties, ElementOfSeq
<1>2. Kept(s, x) = [k \in 1..Len(s) |-> IF s[k] = x THEN <<>> ELSE <<s[k]>>]
  BY <1>1 DEF Kept
<1>3. <<>> \in Seq(S) /\ \A k \in 1..Len(s) : <<s[k]>> \in Seq(S)
  BY <1>1, EmptySeq
<1>4. \A k \in 1..Len(s) : (IF s[k] = x THEN <<>> ELSE <<s[k]>>) \in Seq(S)
  BY <1>3
<1>5. Kept(s, x) \in [1..Len(s) -> Seq(S)]
  BY <1>2, <1>4
<1>6. Kept(s, x) \in Seq(Seq(S)) /\ Len(Kept(s, x)) = Len(s)
  BY <1>1, <1>5, IsASeq, LenProperties
<1> QED BY <1>2, <1>6

LEMMA WithoutType ==
    ASSUME NEW S, NEW s \in Seq(S), NEW x
    PROVE  Without(s, x) \in Seq(S)
BY KeptType, FlattenType DEF Without

LEMMA WithoutEmpty == ASSUME NEW x PROVE Without(<<>>, x) = <<>>
<1>1. Kept(<<>>, x) = <<>>
  <2>1. Kept(<<>>, x) \in Seq(Seq({})) /\ Len(Kept(<<>>, x)) = 0
    BY KeptType, EmptySeq
  <2> QED BY <2>1, EmptySeq
<1> QED BY <1>1, FlattenEmpty DEF Without

LEMMA WithoutAppend ==
    ASSUME NEW S, NEW s \in Seq(S), NEW e \in S, NEW x
    PROVE  Without(Append(s, e), x) = IF e = x THEN Without(s, x) ELSE Append(Without(s, x), e)
<1> DEFINE y == IF e = x THEN <<>> ELSE <<e>>
<1>1. y \in Seq(S)
  BY EmptySeq
<1>2. Kept(s, x) \in Seq(Seq(S)) /\ Len(Kept(s, x)) = Len(s) /\ Len(s) \in Nat
      /\ \A k \in 1..Len(s) : Kept(s, x)[k] = IF s[k] = x THEN <<>> ELSE <<s[k]>>
  BY KeptType, LenProperties
<1> DEFINE t == Append(s, e)  u == Append(Kept(s, x), y)
<1>3. /\ t \in Seq(S) /\ Len(t) = Len(s) + 1 /\ t[Len(s) + 1] = e
      /\ \A k \in 1..Len(s) : t[k] = s[k]
  BY <1>2, AppendProperties
<1>4. /\ Kept(t, x) \in Seq(Seq(S)) /\ Len(Kept(t, x)) = Len(t)
      /\ \A k \in 1..Len(t) : Kept(t, x)[k] = IF t[k] = x THEN <<>> ELSE <<t[k]>>
  <2> HIDE DEF t
  <2> QED BY <1>3, KeptType
<1> HIDE DEF y
<1>5. /\ u \in Seq(Seq(S)) /\ Len(u) = Len(s) + 1 /\ u[Len(s) + 1] = y
      /\ \A k \in 1..Len(s) : u[k] = Kept(s, x)[k]
  BY <1>1, <1>2, AppendProperties
<1> HIDE DEF t, u
<1>6. \A k \in 1..Len(s) + 1 : Kept(t, x)[k] = u[k]
  <2> SUFFICES ASSUME NEW k \in 1..Len(s) + 1 PROVE Kept(t, x)[k] = u[k]
    OBVIOUS
  <2>1. CASE k \in 1..Len(s)
    BY <1>2, <1>3, <1>4, <1>5, <2>1
  <2>2. CASE k = Len(s) + 1
    BY <1>2, <1>3, <1>4, <1>5, <2>2 DEF y
  <2> QED BY <1>2, <2>1, <2>2
<1>7. Kept(t, x) = u
  BY <1>2, <1>3, <1>4, <1>5, <1>6, SeqEqual
<1>8. Without(t, x) = Without(s, x) \o y
  BY <1>1, <1>2, <1>7, FlattenAppend DEF Without, u
<1>9. Without(s, x) \in Seq(S)
  BY WithoutType
<1>10. Without(s, x) \o <<>> = Without(s, x) /\ Append(Without(s, x), e) = Without(s, x) \o <<e>>
  BY <1>9, ConcatEmptySeq, AppendIsConcat
<1> QED BY <1>8, <1>10 DEF t, y

\* If x is not in it, that is the whole sequence.
LEMMA WithoutNone ==
    ASSUME NEW S, NEW s \in Seq(S), NEW x, x \notin S
    PROVE  Without(s, x) = s
<1> DEFINE Part(m) == SubSeq(s, 1, m)
           M == {m \in 1..Len(s) : Without(Part(m), x) = Part(m)}
<1>1. Len(s) \in Nat /\ \A k \in 1..Len(s) : s[k] \in S
  BY LenProperties, ElementOfSeq
<1>0. Part(0) = <<>> /\ Without(Part(0), x) = Part(0)
  <2>1. Part(0) = <<>> /\ Without(<<>>, x) = <<>>
    BY SubSeqEmpty, WithoutEmpty
  <2> QED BY <2>1
<1>2. ASSUME NEW m \in 0..Len(s) - 1, Without(Part(m), x) = Part(m)
      PROVE  Without(Part(m + 1), x) = Part(m + 1)
  <2>1. /\ m \in 0..Len(s) /\ 1 \in 1..Len(s) /\ m + 1 \in 1..Len(s) /\ (m + 1) - 1 = m
        /\ s[m + 1] \in S /\ s[m + 1] # x
    BY <1>1
  <2>2. Part(m) \in Seq(S)
    BY <2>1, SplitAt
  <2>3. Part(m + 1) = Append(Part(m), s[m + 1])
    <3>1. Part(m + 1) = SubSeq(s, 1, (m + 1) - 1) \o <<s[m + 1]>>
      BY <2>1, SubSeqRecursiveSecond
    <3> HIDE DEF Part
    <3>2. Append(Part(m), s[m + 1]) = Part(m) \o <<s[m + 1]>>
      BY <2>1, <2>2, AppendIsConcat
    <3> QED BY <2>1, <3>1, <3>2 DEF Part
  <2> HIDE DEF Part
  <2>4. Without(Append(Part(m), s[m + 1]), x) = Append(Without(Part(m), x), s[m + 1])
    BY <2>1, <2>2, WithoutAppend
  <2> QED BY <1>2, <2>3, <2>4
<1>3. Len(s) > 0 => 1 \in M
  <2> HIDE DEF Part
  <2>1. ASSUME Len(s) > 0 PROVE 1 \in M
    <3>1. 0 \in 0..Len(s) - 1 /\ 1 \in 1..Len(s) /\ 0 + 1 = 1
      BY <1>1, <2>1
    <3> QED BY <1>0, <1>2, <3>1
  <2> QED BY <2>1
<1>4. \A m \in 1..Len(s) - 1 : m \in M => m + 1 \in M
  <2> HIDE DEF Part
  <2> SUFFICES ASSUME NEW m \in 1..Len(s) - 1, m \in M PROVE m + 1 \in M
    OBVIOUS
  <2>1. m \in 0..Len(s) - 1 /\ m + 1 \in 1..Len(s)
    BY <1>1
  <2> QED BY <1>2, <2>1
<1>5. 1..Len(s) \subseteq M
  <2> HIDE DEF M
  <2> QED BY <1>1, <1>3, <1>4, IndexInduction
<1>6. Part(Len(s)) = s
  BY SubSeqFull
<1>7. CASE Len(s) = 0
  BY <1>0, <1>6, <1>7
<1>8. CASE Len(s) # 0
  <2>1. Len(s) \in 1..Len(s)
    BY <1>1, <1>8
  <2> HIDE DEF Part
  <2> QED BY <1>5, <1>6, <2>1
<1> QED BY <1>7, <1>8

\* What a sequence keeps does not depend on what is behind it.
LEMMA WithoutConcat ==
    ASSUME NEW S, NEW r \in Seq(S), NEW s \in Seq(S), NEW x
    PROVE  Without(r \o s, x) = Without(r, x) \o Without(s, x)
<1> DEFINE Part(m) == SubSeq(s, 1, m)
           Holds(m) == Without(r \o Part(m), x) = Without(r, x) \o Without(Part(m), x)
           M == {m \in 1..Len(s) : Holds(m)}
<1>1. /\ Len(s) \in Nat /\ \A k \in 1..Len(s) : s[k] \in S
      /\ Without(r, x) \in Seq(S)
  BY LenProperties, ElementOfSeq, WithoutType
<1>0. Holds(0)
  <2>1. Part(0) = <<>> /\ Without(<<>>, x) = <<>>
    BY SubSeqEmpty, WithoutEmpty
  <2>2. r \o <<>> = r /\ Without(r, x) \o <<>> = Without(r, x)
    BY <1>1, ConcatEmptySeq
  <2> QED BY <2>1, <2>2
<1>2. ASSUME NEW m \in 0..Len(s) - 1, Holds(m) PROVE Holds(m + 1)
  <2> DEFINE e == s[m + 1]
             p == Part(m)
             u == r \o p
             a == Without(r, x)
             b == Without(p, x)
  <2>1. /\ m \in 0..Len(s) /\ 1 \in 1..Len(s) /\ m + 1 \in 1..Len(s) /\ (m + 1) - 1 = m
        /\ e \in S
    BY <1>1
  <2>2. p \in Seq(S)
    BY <2>1, SplitAt
  <2>3. Part(m + 1) = p \o <<e>>
    <3>1. Part(m + 1) = SubSeq(s, 1, (m + 1) - 1) \o <<s[m + 1]>>
      BY <2>1, SubSeqRecursiveSecond
    <3> QED BY <2>1, <3>1
  <2>4. Without(u, x) = a \o b
    BY <1>2
  <2> HIDE DEF e, p
  <2>5. Part(m + 1) = Append(p, e)
    <3>1. Append(p, e) = p \o <<e>>
      BY <2>1, <2>2, AppendIsConcat
    <3> QED BY <2>3, <3>1
  <2>6. b \in Seq(S) /\ u \in Seq(S) /\ a \in Seq(S) /\ <<e>> \in Seq(S)
    BY <1>1, <2>1, <2>2, WithoutType, ConcatProperties
  <2>7. r \o Part(m + 1) = Append(u, e)
    <3>1. (r \o p) \o <<e>> = r \o (p \o <<e>>)
      <4> DEFINE t == <<e>>
      <4>1. r \in Seq(S) /\ p \in Seq(S) /\ t \in Seq(S)
        BY <2>2, <2>6
      <4> HIDE DEF t
      <4>2. (r \o p) \o t = r \o (p \o t)
        BY ONLY <4>1, ConcatAssociative, SMTT(30)
      <4> QED BY <4>2 DEF t
    <3>2. Append(u, e) = u \o <<e>>
      <4> HIDE DEF u
      <4> QED BY <2>1, <2>6, AppendIsConcat
    <3> QED BY <2>3, <3>1, <3>2
  <2> HIDE DEF Part, u, a, b
  <2>8. /\ Without(Append(u, e), x) = IF e = x THEN a \o b ELSE Append(a \o b, e)
        /\ Without(Append(p, e), x) = IF e = x THEN b ELSE Append(b, e)
    <3>1. /\ Without(Append(u, e), x)
                 = IF e = x THEN Without(u, x) ELSE Append(Without(u, x), e)
          /\ Without(Append(p, e), x)
                 = IF e = x THEN Without(p, x) ELSE Append(Without(p, x), e)
      BY <2>1, <2>2, <2>6, WithoutAppend
    <3> QED BY <2>4, <3>1 DEF b
  <2>9. Append(a \o b, e) = a \o Append(b, e)
    <3> DEFINE t == <<e>>
    <3>1. a \in Seq(S) /\ b \in Seq(S) /\ t \in Seq(S)
      BY <2>6
    <3> DEFINE ab == a \o b
    <3>2. ab \in Seq(S)
      BY <3>1, ConcatProperties
    <3>3. Append(b, e) = b \o t
      BY <2>1, <2>6, AppendIsConcat
    <3>4. Append(ab, e) = ab \o t
      <4> HIDE DEF ab
      <4> QED BY <2>1, <3>2, AppendIsConcat
    <3> HIDE DEF t
    <3>5. (a \o b) \o t = a \o (b \o t)
      BY ONLY <3>1, ConcatAssociative, SMTT(30)
    <3> QED BY <3>3, <3>4, <3>5
  <2> QED BY <2>5, <2>7, <2>8, <2>9 DEF a
<1> HIDE DEF Holds
<1>3. Len(s) > 0 => 1 \in M
  <2>1. ASSUME Len(s) > 0 PROVE 1 \in M
    <3>1. 0 \in 0..Len(s) - 1 /\ 1 \in 1..Len(s) /\ 0 + 1 = 1
      BY <1>1, <2>1
    <3> QED BY <1>0, <1>2, <3>1
  <2> QED BY <2>1
<1>4. \A m \in 1..Len(s) - 1 : m \in M => m + 1 \in M
  <2> SUFFICES ASSUME NEW m \in 1..Len(s) - 1, m \in M PROVE m + 1 \in M
    OBVIOUS
  <2>1. m \in 0..Len(s) - 1 /\ m + 1 \in 1..Len(s)
    BY <1>1
  <2> QED BY <1>2, <2>1
<1>5. 1..Len(s) \subseteq M
  <2> HIDE DEF M
  <2> QED BY <1>1, <1>3, <1>4, IndexInduction
<1>6. Part(Len(s)) = s
  BY SubSeqFull
<1>7. Holds(Len(s))
  <2>1. CASE Len(s) = 0
    BY <1>0, <2>1
  <2>2. CASE Len(s) # 0
    <3>1. Len(s) \in 1..Len(s)
      BY <1>1, <2>2
    <3> QED BY <1>5, <3>1
  <2> QED BY <2>1, <2>2
<1> QED BY <1>6, <1>7 DEF Holds
=============================================================================
