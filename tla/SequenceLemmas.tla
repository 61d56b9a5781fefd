--------------------------- MODULE SequenceLemmas ---------------------------
(***************************************************************************)
(* Facts about sequences that the proofs about the transport share, and    *)
(* induction over the natural numbers in the form in which it can be cited:*)
(* for sets.  The induction theorems of the library are for operators.     *)
(***************************************************************************)
EXTENDS Integers, SequencesExt, SequenceTheorems, WellFoundedInduction, TLAPS

-----------------------------------------------------------------------------
(***************************************************************************)
(* Induction.                                                              *)
(***************************************************************************)
LEMMA Least ==
  ASSUME NEW T, T \subseteq Nat, T # {}
  PROVE  \E m \in T : \A n \in T : m <= n
<1>1. IsWellFoundedOn(OpToRel(<, Nat), Nat)
  BY NatLessThanWellFounded, Zenon
<1>2. PICK m \in T : \A n \in T : <<n, m>> \notin OpToRel(<, Nat)
  BY <1>1, WFMin, Zenon
<1>3. \A n \in T : ~ (n < m)
  BY <1>2, Zenon DEF OpToRel
<1> QED
  BY <1>3

LEMMA SetInduction ==
  ASSUME NEW T, 0 \in T, \A n \in Nat : n \in T => n + 1 \in T
  PROVE  Nat \subseteq T
<1> SUFFICES ASSUME ~ (Nat \subseteq T) PROVE FALSE
  OBVIOUS
<1> DEFINE C == Nat \ T
<1>1. C \subseteq Nat /\ C # {}
  OBVIOUS
<1>2. PICK m \in C : \A n \in C : m <= n
  BY <1>1, Least
<1>3. m \in Nat /\ m # 0 /\ m \notin T
  BY <1>2
<1>4. m - 1 \in Nat /\ m - 1 \notin C
  BY <1>2, <1>3
<1>5. m - 1 \in T
  BY <1>4
<1> QED
  BY <1>3, <1>4, <1>5

-----------------------------------------------------------------------------
(***************************************************************************)
(* A sequence made of others.                                              *)
(***************************************************************************)
LEMMA FunctionIsSeq ==
  ASSUME NEW S, NEW n \in Nat, NEW f \in [1..n -> S]
  PROVE  f \in Seq(S) /\ Len(f) = n
  OBVIOUS

LEMMA AppendIs ==
  ASSUME NEW S, NEW s \in Seq(S), NEW x \in S
  PROVE  /\ Append(s, x) \in Seq(S) /\ Len(Append(s, x)) = Len(s) + 1
         /\ Append(s, x)[Len(s) + 1] = x
         /\ \A i \in 1..Len(s) : Append(s, x)[i] = s[i]
  OBVIOUS

LEMMA FirstIs ==
  ASSUME NEW S, NEW s \in Seq(S), NEW x \in S
  PROVE  /\ <<x>> \o s \in Seq(S) /\ Len(<<x>> \o s) = Len(s) + 1
         /\ (<<x>> \o s)[1] = x
         /\ \A i \in 1..Len(s) : (<<x>> \o s)[i + 1] = s[i]
  OBVIOUS

\* Three sequences in a row, named so that lemmas about them can be cited.
Row(s, t, u) == (s \o t) \o u

LEMMA RowShift ==
  ASSUME NEW S, NEW s \in Seq(S), NEW t \in Seq(S), NEW a \in Seq(S), NEW b \in Seq(S)
  PROVE  Row(s, t \o a, b) = Row(s, t, a \o b)
<1> DEFINE h == s \o t
<1>1. h \in Seq(S) /\ s \o (t \o a) = h \o a
  BY SMTT(30)
<1> HIDE DEF h
<1>2. (h \o a) \o b = h \o (a \o b)
  BY <1>1, SMTT(30)
<1> QED
  BY <1>1, <1>2, Zenon DEF h, Row

LEMMA SplitAt ==
  ASSUME NEW S, NEW s \in Seq(S), NEW k \in 0..Len(s)
  PROVE  /\ SubSeq(s, 1, k) \in Seq(S)
         /\ SubSeq(s, k + 1, Len(s)) \in Seq(S)
         /\ SubSeq(s, 1, k) \o SubSeq(s, k + 1, Len(s)) = s
<1> DEFINE a == SubSeq(s, 1, k)
           b == SubSeq(s, k + 1, Len(s))
<1>1. /\ a \in Seq(S) /\ Len(a) = k
      /\ \A i \in 1..k : a[i] = s[i]
  OBVIOUS
<1>2. /\ b \in Seq(S) /\ Len(b) = Len(s) - k
      /\ \A i \in 1..(Len(s) - k) : b[i] = s[k + i]
  OBVIOUS
<1> HIDE DEF a, b
<1>3. a \o b \in Seq(S) /\ Len(a \o b) = Len(s)
  <2>1. a \o b \in Seq(S) /\ Len(a \o b) = Len(a) + Len(b)
    BY <1>1, <1>2, ConcatProperties
  <2>2. k + (Len(s) - k) = Len(s)
    OBVIOUS
  <2> QED
    BY <1>1, <1>2, <2>1, <2>2
<1>4. ASSUME NEW i \in 1..Len(s) PROVE (a \o b)[i] = s[i]
  <2>1. CASE i <= k
    BY <1>1, <1>2, <2>1
  <2>2. CASE i > k
    <3>1. i - k \in 1..(Len(s) - k) /\ k + (i - k) = i
      BY <2>2
    <3>2. b[i - k] = s[i]
      BY <1>2, <3>1
    <3> QED
      BY <1>1, <1>2, <2>2, <3>2
  <2>3. i <= k \/ i > k
    OBVIOUS
  <2> QED
    BY <2>1, <2>2, <2>3
<1>5. a \o b = s
  BY <1>3, <1>4, SeqEqual
<1> QED
  BY <1>1, <1>2, <1>5 DEF a, b

-----------------------------------------------------------------------------
(***************************************************************************)
(* FlattenSeq.                                                             *)
(***************************************************************************)
\* f[i] is what the first i sequences of s give when they are put together.
SumAt(s, f, i) == IF i = 1 THEN s[i] ELSE f[i - 1] \o s[i]

Sums(s, f) == f = [i \in 1..Len(s) |-> SumAt(s, f, i)]

SumsTo(s, k, f) == \A i \in 1..k : f[i] = SumAt(s, f, i)

LEMMA SumAtFirst == ASSUME NEW s, NEW f PROVE SumAt(s, f, 1) = s[1]
  BY Zenon DEF SumAt

LEMMA SumAtNext ==
  ASSUME NEW s, NEW f, NEW i, i # 1
  PROVE  SumAt(s, f, i) = f[i - 1] \o s[i]
  BY Zenon DEF SumAt

LEMMA SumsEach ==
  ASSUME NEW s, NEW f, Sums(s, f), NEW i \in 1..Len(s)
  PROVE  f[i] = SumAt(s, f, i)
  BY Zenon DEF Sums

LEMMA SumsIf ==
  ASSUME NEW s, NEW S, NEW f \in [1..Len(s) -> S],
         \A i \in 1..Len(s) : f[i] = SumAt(s, f, i)
  PROVE  Sums(s, f)
<1>1. f = [i \in 1..Len(s) |-> f[i]]
  BY Zenon
<1>2. [i \in 1..Len(s) |-> f[i]] = [i \in 1..Len(s) |-> SumAt(s, f, i)]
  BY Zenon
<1> QED
  BY <1>1, <1>2, Zenon DEF Sums

LEMMA FlattenSeqIs ==
  ASSUME NEW s, Len(s) # 0
  PROVE  FlattenSeq(s) = (CHOOSE f : Sums(s, f))[Len(s)]
  BY Zenon DEF FlattenSeq, Sums, SumAt

LEMMA FlattenSeqEmpty == FlattenSeq(<<>>) = <<>>
<1>1. Len(<<>>) = 0
  OBVIOUS
<1> QED
  BY <1>1, Zenon DEF FlattenSeq

LEMMA SumsUnique ==
  ASSUME NEW s, Len(s) \in Nat, NEW f, Sums(s, f), NEW g, Sums(s, g),
         NEW i \in 1..Len(s)
  PROVE  f[i] = g[i]
<1> DEFINE T == {k \in Nat : k \in 1..Len(s) => f[k] = g[k]}
<1>1. 0 \in T
  OBVIOUS
<1>2. ASSUME NEW k \in Nat, k \in T PROVE k + 1 \in T
  <2> SUFFICES ASSUME k + 1 \in 1..Len(s) PROVE f[k + 1] = g[k + 1]
    OBVIOUS
  <2>1. f[k + 1] = SumAt(s, f, k + 1) /\ g[k + 1] = SumAt(s, g, k + 1)
    BY SumsEach
  <2>2. (k + 1) - 1 = k
    OBVIOUS
  <2>3. CASE k + 1 = 1
    BY <2>1, <2>3, SumAtFirst
  <2>4. CASE k + 1 # 1
    <3>1. f[k] = g[k]
      BY <1>2, <2>4
    <3>2. /\ SumAt(s, f, k + 1) = f[(k + 1) - 1] \o s[k + 1]
          /\ SumAt(s, g, k + 1) = g[(k + 1) - 1] \o s[k + 1]
      BY <2>4, SumAtNext, Zenon
    <3> QED
      BY <2>1, <2>2, <3>1, <3>2, Zenon
  <2> QED
    BY <2>3, <2>4
<1>3. Nat \subseteq T
  <2> HIDE DEF T
  <2> QED
    BY <1>1, <1>2, SetInduction
<1> QED
  BY <1>3

\* The lengths up to which there are sums.
Summable(S, s) ==
  {k \in Nat : k <= Len(s) => \E f \in [1..k -> Seq(S)] : SumsTo(s, k, f)}

LEMMA SummableStep ==
  ASSUME NEW S, NEW s \in Seq(Seq(S)), NEW k \in Nat, k + 1 <= Len(s),
         NEW g \in [1..k -> Seq(S)], SumsTo(s, k, g)
  PROVE  \E f \in [1..(k + 1) -> Seq(S)] : SumsTo(s, k + 1, f)
<1> DEFINE f == [i \in 1..(k + 1) |-> IF i <= k THEN g[i] ELSE SumAt(s, g, i)]
<1>1. s[k + 1] \in Seq(S)
  OBVIOUS
<1>2. k # 0 => g[k] \in Seq(S)
  OBVIOUS
<1>3. SumAt(s, g, k + 1) \in Seq(S)
  <2>1. CASE k = 0
    BY <1>1, <2>1, SumAtFirst
  <2>2. CASE k # 0
    <3>1. SumAt(s, g, k + 1) = g[(k + 1) - 1] \o s[k + 1]
      <4>1. k + 1 # 1
        BY <2>2
      <4> QED
        BY <4>1, SumAtNext, Zenon
    <3>2. (k + 1) - 1 = k
      OBVIOUS
    <3>3. g[k] \o s[k + 1] \in Seq(S)
      BY <1>1, <1>2, <2>2
    <3> QED
      BY <3>1, <3>2, <3>3
  <2> QED
    BY <2>1, <2>2
<1>4. f \in [1..(k + 1) -> Seq(S)]
  BY <1>3
<1>5. /\ f[k + 1] = SumAt(s, g, k + 1)
      /\ \A i \in 1..k : f[i] = g[i]
  OBVIOUS
<1> HIDE DEF f
<1>6. ASSUME NEW i \in 1..(k + 1) PROVE f[i] = SumAt(s, f, i)
  <2>1. f[i] = SumAt(s, g, i)
    <3>1. CASE i = k + 1
      BY <1>5, <3>1
    <3>2. CASE i \in 1..k
      BY <1>5, <3>2 DEF SumsTo
    <3> QED
      BY <3>1, <3>2
  <2>2. CASE i = 1
    BY <2>1, <2>2, SumAtFirst
  <2>3. CASE i # 1
    <3>1. i - 1 \in 1..k
      BY <2>3
    <3>2. f[i - 1] = g[i - 1]
      BY <1>5, <3>1
    <3>3. SumAt(s, f, i) = f[i - 1] \o s[i] /\ SumAt(s, g, i) = g[i - 1] \o s[i]
      BY <2>3, SumAtNext, Zenon
    <3> QED
      BY <2>1, <3>2, <3>3, Zenon
  <2> QED
    BY <2>2, <2>3
<1>7. SumsTo(s, k + 1, f)
  BY <1>6 DEF SumsTo
<1> QED
  BY <1>4, <1>7

LEMMA SumsExist ==
  ASSUME NEW S, NEW s \in Seq(Seq(S))
  PROVE  \E f \in [1..Len(s) -> Seq(S)] : Sums(s, f)
<1>1. 0 \in Summable(S, s)
  <2>1. [i \in 1..0 |-> <<>>] \in [1..0 -> Seq(S)]
    OBVIOUS
  <2>2. SumsTo(s, 0, [i \in 1..0 |-> <<>>])
    BY DEF SumsTo
  <2> QED
    BY <2>1, <2>2 DEF Summable
<1>2. ASSUME NEW k \in Nat, k \in Summable(S, s) PROVE k + 1 \in Summable(S, s)
  <2> SUFFICES ASSUME k + 1 <= Len(s)
               PROVE  \E f \in [1..(k + 1) -> Seq(S)] : SumsTo(s, k + 1, f)
    BY DEF Summable
  <2>1. Len(s) \in Nat
    OBVIOUS
  <2>2. k <= Len(s)
    BY <2>1
  <2>3. PICK g \in [1..k -> Seq(S)] : SumsTo(s, k, g)
    BY <1>2, <2>2 DEF Summable
  <2> QED
    BY <2>3, SummableStep
<1>3. Nat \subseteq Summable(S, s)
  BY <1>1, <1>2, SetInduction
<1>4. Len(s) \in Nat /\ Len(s) <= Len(s)
  OBVIOUS
<1>5. PICK f \in [1..Len(s) -> Seq(S)] : SumsTo(s, Len(s), f)
  BY <1>3, <1>4 DEF Summable
<1>6. Sums(s, f)
  BY <1>5, SumsIf DEF SumsTo
<1> QED
  BY <1>6

LEMMA FlattenSeqValue ==
  ASSUME NEW s, Len(s) \in Nat \ {0}, NEW f, Sums(s, f)
  PROVE  FlattenSeq(s) = f[Len(s)]
<1> DEFINE g == CHOOSE h : Sums(s, h)
<1>1. Sums(s, g)
  BY Zenon
<1> HIDE DEF g
<1>2. f[Len(s)] = g[Len(s)]
  BY <1>1, SumsUnique
<1> QED
  BY <1>2, FlattenSeqIs DEF g

LEMMA FlattenSeqType ==
  ASSUME NEW S, NEW s \in Seq(Seq(S))
  PROVE  FlattenSeq(s) \in Seq(S)
<1>1. CASE Len(s) = 0
  <2>1. s = <<>>
    BY <1>1
  <2>2. <<>> \in Seq(S)
    OBVIOUS
  <2> QED
    BY <2>1, <2>2, FlattenSeqEmpty, Zenon
<1>2. CASE Len(s) # 0
  <2>1. PICK f \in [1..Len(s) -> Seq(S)] : Sums(s, f)
    BY SumsExist
  <2>2. FlattenSeq(s) = f[Len(s)]
    BY <1>2, <2>1, FlattenSeqValue
  <2>3. Len(s) \in 1..Len(s)
    BY <1>2
  <2>4. f[Len(s)] \in Seq(S)
    BY <2>1, <2>3, Zenon
  <2> QED
    BY <2>2, <2>4, Zenon
<1> QED
  BY <1>1, <1>2

\* A sequence more at the end.
LEMMA FlattenSeqAppend ==
  ASSUME NEW S, NEW s \in Seq(Seq(S)), NEW x \in Seq(S)
  PROVE  FlattenSeq(Append(s, x)) = FlattenSeq(s) \o x
<1> DEFINE t == Append(s, x)
           n == Len(s)
<1>1. n \in Nat /\ t \in Seq(Seq(S)) /\ Len(t) = n + 1 /\ t[n + 1] = x
  OBVIOUS
<1>2. \A i \in 1..n : t[i] = s[i]
  OBVIOUS
<1> HIDE DEF t
<1>3. PICK g \in [1..Len(t) -> Seq(S)] : Sums(t, g)
  BY <1>1, SumsExist
<1>4. FlattenSeq(t) = g[n + 1]
  <2>1. Len(t) \in Nat \ {0}
    BY <1>1
  <2>2. FlattenSeq(t) = g[Len(t)]
    BY <1>3, <2>1, FlattenSeqValue
  <2> QED
    BY <1>1, <2>2
<1>5. CASE n = 0
  <2>1. g[1] = SumAt(t, g, 1)
    BY <1>1, <1>3, SumsEach
  <2>2. g[1] = x
    BY <1>1, <1>5, <2>1, SumAtFirst
  <2>3. s = <<>>
    BY <1>5
  <2>4. FlattenSeq(s) \o x = x
    BY <2>3, FlattenSeqEmpty
  <2> QED
    BY <1>4, <1>5, <2>2, <2>4 DEF t
<1>6. CASE n # 0
  <2> DEFINE h == [i \in 1..Len(s) |-> g[i]]
  <2>1. h \in [1..Len(s) -> Seq(S)] /\ \A i \in 1..Len(s) : h[i] = g[i]
    BY <1>1
  <2> HIDE DEF h
  <2>2. ASSUME NEW i \in 1..Len(s) PROVE h[i] = SumAt(s, h, i)
    <3>1. h[i] = g[i] /\ i \in 1..Len(t) /\ t[i] = s[i]
      BY <1>1, <1>2, <2>1
    <3>2. g[i] = SumAt(t, g, i)
      BY <1>3, <3>1, SumsEach
    <3>3. CASE i = 1
      BY <3>1, <3>2, <3>3, SumAtFirst
    <3>4. CASE i # 1
      <4>1. i - 1 \in 1..Len(s)
        BY <1>1, <3>4
      <4>2. h[i - 1] = g[i - 1]
        BY <2>1, <4>1
      <4>3. SumAt(t, g, i) = g[i - 1] \o t[i] /\ SumAt(s, h, i) = h[i - 1] \o s[i]
        BY <3>4, SumAtNext, Zenon
      <4> QED
        BY <3>1, <3>2, <4>2, <4>3, Zenon
    <3> QED
      BY <3>3, <3>4
  <2>3. Sums(s, h)
    BY <2>1, <2>2, SumsIf
  <2>4. FlattenSeq(s) = g[n]
    <3>1. Len(s) \in Nat \ {0} /\ Len(s) \in 1..Len(s)
      BY <1>1, <1>6
    <3>2. FlattenSeq(s) = h[Len(s)]
      BY <2>3, <3>1, FlattenSeqValue
    <3> QED
      BY <2>1, <3>1, <3>2
  <2>5. n + 1 \in 1..Len(t) /\ n + 1 # 1 /\ (n + 1) - 1 = n
    BY <1>1, <1>6
  <2>6. g[n + 1] = g[(n + 1) - 1] \o t[n + 1]
    <3>1. g[n + 1] = SumAt(t, g, n + 1)
      BY <1>3, <2>5, SumsEach, Zenon
    <3> QED
      BY <2>5, <3>1, SumAtNext, Zenon
  <2>8. t[n + 1] = x
    BY <1>1
  <2> HIDE DEF n, t
  <2>7. g[n + 1] = FlattenSeq(s) \o x
    BY <2>4, <2>5, <2>6, <2>8, Zenon
  <2> QED
    BY <1>4, <2>7 DEF t
<1> QED
  BY <1>5, <1>6

\* A sequence more at the beginning.
LEMMA FlattenSeqFirst ==
  ASSUME NEW S, NEW s \in Seq(Seq(S)), NEW x \in Seq(S)
  PROVE  FlattenSeq(<<x>> \o s) = x \o FlattenSeq(s)
<1> DEFINE t == <<x>> \o s
           n == Len(s)
<1>1. n \in Nat /\ t \in Seq(Seq(S)) /\ Len(t) = n + 1 /\ t[1] = x
  OBVIOUS
<1>2. \A i \in 1..n : t[i + 1] = s[i]
  OBVIOUS
<1> HIDE DEF t
<1>3. PICK f \in [1..Len(s) -> Seq(S)] : Sums(s, f)
  BY SumsExist
<1> DEFINE g == [i \in 1..Len(t) |-> IF i = 1 THEN x ELSE x \o f[i - 1]]
<1>4. g[1] = x
  BY <1>1
<1>5. \A i \in 1..Len(t) : i # 1 => g[i] = x \o f[i - 1]
  OBVIOUS
<1>6. ASSUME NEW i \in 1..Len(t) PROVE g[i] \in Seq(S)
  <2>1. CASE i = 1
    BY <1>4, <2>1
  <2>2. CASE i # 1
    <3>1. i - 1 \in 1..Len(s)
      BY <1>1, <2>2
    <3>2. f[i - 1] \in Seq(S)
      BY <3>1
    <3>3. x \o f[i - 1] \in Seq(S)
      BY <3>2
    <3> QED
      BY <1>5, <2>2, <3>3
  <2> QED
    BY <2>1, <2>2
<1>7. g \in [1..Len(t) -> Seq(S)]
  <2>1. g = [i \in 1..Len(t) |-> g[i]]
    BY Zenon
  <2> HIDE DEF g
  <2> QED
    BY <1>6, <2>1
<1> HIDE DEF g, n
<1>8. ASSUME NEW i \in 1..Len(t) PROVE g[i] = SumAt(t, g, i)
  <2>1. CASE i = 1
    BY <1>1, <1>4, <2>1, SumAtFirst
  <2>2. CASE i # 1
    <3>1. PICK j \in 1..n : i = j + 1 /\ i - 1 = j
      <4>1. i - 1 \in 1..n /\ i = (i - 1) + 1
        BY <1>1, <2>2
      <4> QED
        BY <4>1
    <3>2. g[i] = x \o f[j] /\ t[i] = s[j]
      BY <1>2, <1>5, <2>2, <3>1
    <3>3. f[j] = SumAt(s, f, j)
      BY <1>3, SumsEach DEF n
    <3>4. g[i] = g[i - 1] \o t[i]
      <4>1. CASE j = 1
        BY <1>4, <3>1, <3>2, <3>3, <4>1, SumAtFirst
      <4>2. CASE j # 1
        <5>1. j \in 1..Len(t) /\ j - 1 \in 1..Len(s) /\ j \in 1..Len(s)
          BY <1>1, <4>2 DEF n
        <5>2. g[j] = x \o f[j - 1]
          BY <1>5, <4>2, <5>1
        <5>3. f[j] = f[j - 1] \o s[j]
          BY <3>3, <4>2, SumAtNext
        <5>4. f[j - 1] \in Seq(S) /\ s[j] \in Seq(S)
          <6>1. f[j - 1] \in Seq(S)
            BY <5>1, Zenon
          <6>2. s[j] \in Seq(S)
            BY <5>1, ElementOfSeq
          <6> QED
            BY <6>1, <6>2
        <5>5. x \o (f[j - 1] \o s[j]) = (x \o f[j - 1]) \o s[j]
          <6> HIDE DEF n
          <6> DEFINE a == f[j - 1]
                     b == s[j]
          <6>1. a \in Seq(S) /\ b \in Seq(S)
            BY <5>4
          <6> HIDE DEF a, b
          <6>2. (x \o a) \o b = x \o (a \o b)
            BY <6>1, SMTT(30)
          <6> QED
            BY <6>2 DEF a, b
        <5> QED
          BY <3>1, <3>2, <5>2, <5>3, <5>5
      <4> QED
        BY <4>1, <4>2
    <3> QED
      BY <2>2, <3>4, SumAtNext
  <2> QED
    BY <2>1, <2>2
<1>9. Sums(t, g)
  BY <1>7, <1>8, SumsIf
<1>10. FlattenSeq(t) = g[n + 1]
  <2>1. Len(t) \in Nat \ {0}
    BY <1>1
  <2>2. FlattenSeq(t) = g[Len(t)]
    BY <1>9, <2>1, FlattenSeqValue
  <2> QED
    BY <1>1, <2>2
<1>11. CASE n = 0
  <2>1. s = <<>>
    BY <1>11 DEF n
  <2>2. x \o FlattenSeq(s) = x
    BY <2>1, FlattenSeqEmpty
  <2> QED
    BY <1>4, <1>10, <1>11, <2>2 DEF t
<1>12. CASE n # 0
  <2>1. FlattenSeq(s) = f[n]
    BY <1>1, <1>3, <1>12, FlattenSeqValue DEF n
  <2>2. g[n + 1] = x \o f[n]
    <3>1. n + 1 \in 1..Len(t) /\ n + 1 # 1 /\ (n + 1) - 1 = n
      BY <1>1, <1>12
    <3> QED
      BY <1>5, <3>1
  <2> QED
    BY <1>10, <2>1, <2>2 DEF t
<1> QED
  BY <1>11, <1>12
=============================================================================
