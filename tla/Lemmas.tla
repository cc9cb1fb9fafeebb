-------------------------------- MODULE Lemmas --------------------------------
(***************************************************************************)
(* Facts about natural numbers, finite sets and queues that the proofs of  *)
(* several modules need.                                                   *)
(***************************************************************************)
EXTENDS Integers, Sequences, FiniteSets, FiniteSetTheorems, FunctionTheorems,
        SequenceTheorems, TLAPS

\* Induction over the natural numbers for a set.  An injection of a finite set into
\* itself is onto: were n the least number outside S, x |-> x - 1 would not be.
LEMMA NatSetInduction ==
    ASSUME NEW S, 0 \in S, \A n \in Nat : n \in S => n + 1 \in S
    PROVE  Nat \subseteq S
<1> SUFFICES ASSUME NEW n \in Nat, n \notin S
             PROVE  FALSE
  OBVIOUS
<1> DEFINE T == {x \in 0 .. n : x \notin S}
           f == [x \in T |-> x - 1]
<1>1. IsFiniteSet(T)
  <2>1. T \in SUBSET (0 .. n) /\ IsFiniteSet(0 .. n)
    BY FS_Interval
  <2> HIDE DEF T
  <2> QED
    BY <2>1, FS_Subset
<1>2. \A x \in T : x \in Nat /\ x # 0 /\ x - 1 \in T
  OBVIOUS
<1>3. f \in Injection(T, T)
  <2>1. f \in [T -> T]
    BY <1>2
  <2>2. \A x, y \in T : f[x] = f[y] => x = y
    BY <1>2
  <2> QED
    BY <2>1, <2>2, Zenon DEF Injection, IsInjective
<1>4. f \in Surjection(T, T)
  BY <1>1, <1>3, FS_Injection
<1>5. n \in T
  OBVIOUS
<1>6. PICK x \in T : f[x] = n
  BY <1>4, <1>5 DEF Surjection
<1> QED
  BY <1>6

\* A set of natural numbers has a least element.
LEMMA LeastNatural ==
    ASSUME NEW T, T \subseteq Nat, T # {}
    PROVE  \E m \in T : \A k \in T : m <= k
<1> SUFFICES ASSUME \A m \in T : \E k \in T : k < m
             PROVE  FALSE
  OBVIOUS
<1> DEFINE S == {n \in Nat : \A k \in T : n <= k}
<1>1. 0 \in S
  OBVIOUS
<1>2. \A n \in Nat : n \in S => n + 1 \in S
  OBVIOUS
<1> HIDE DEF S
<1>3. Nat \subseteq S
  BY <1>1, <1>2, NatSetInduction
<1>4. PICK t \in T : TRUE
  OBVIOUS
<1>5. t + 1 \in S
  BY <1>3
<1> QED
  BY <1>5 DEF S

\* A queue holds at most as many different elements as its length.
LEMMA ElementsBounded ==
    ASSUME NEW S, NEW q \in Seq(S)
    PROVE  /\ IsFiniteSet({q[i] : i \in DOMAIN q})
           /\ Cardinality({q[i] : i \in DOMAIN q}) <= Len(q)
<1> DEFINE E == {q[i] : i \in DOMAIN q}
<1>1. q \in [1 .. Len(q) -> E] /\ Len(q) \in Nat
  OBVIOUS
<1>2. \A e \in E : \E i \in 1 .. Len(q) : q[i] = e
  OBVIOUS
<1> HIDE DEF E
<1>3. ExistsSurjection(1 .. Len(q), E)
  BY <1>1, <1>2 DEF ExistsSurjection, Surjection
<1>4. IsFiniteSet(E)
  BY <1>1, <1>3, FS_NatSurjection
<1>5. Cardinality(E) <= Len(q)
  BY <1>1, <1>3, FS_SurjCardinalityBound
<1> QED
  BY <1>4, <1>5 DEF E

\* The elements of two sets together are at most those of the one and of the other.
LEMMA UnionBounded ==
    ASSUME NEW S, NEW T, IsFiniteSet(S), IsFiniteSet(T)
    PROVE  /\ IsFiniteSet(S \cup T)
           /\ Cardinality(S) \in Nat /\ Cardinality(T) \in Nat
           /\ Cardinality(S \cup T) \in Nat
           /\ Cardinality(S \cup T) <= Cardinality(S) + Cardinality(T)
<1>1. IsFiniteSet(S \cup T) /\ IsFiniteSet(S \cap T)
  BY FS_Union, FS_Intersection
<1>2. /\ Cardinality(S) \in Nat /\ Cardinality(T) \in Nat
      /\ Cardinality(S \cup T) \in Nat /\ Cardinality(S \cap T) \in Nat
  BY <1>1, FS_CardinalityType
<1>3. Cardinality(S \cup T) = Cardinality(S) + Cardinality(T) - Cardinality(S \cap T)
  BY FS_Union
<1> QED
  BY <1>1, <1>2, <1>3

\* A set whose elements have each another of T to themselves is at most as large.
LEMMA InjectionBounded ==
    ASSUME NEW S, NEW T, IsFiniteSet(T), NEW f \in [S -> T],
           \A x, y \in S : f[x] = f[y] => x = y
    PROVE  IsFiniteSet(S) /\ Cardinality(S) <= Cardinality(T)
<1>1. f \in Injection(S, T)
  BY Zenon DEF Injection, IsInjective
<1> QED
  BY <1>1, FS_Injection

\* Two sets whose elements belong to each other in pairs are equally large.
LEMMA BijectionCounted ==
    ASSUME NEW S, NEW T, IsFiniteSet(S), NEW f \in [S -> T],
           \A x, y \in S : f[x] = f[y] => x = y,
           \A t \in T : \E x \in S : f[x] = t
    PROVE  IsFiniteSet(T) /\ Cardinality(T) = Cardinality(S)
<1>1. f \in Injection(S, T)
  BY Zenon DEF Injection, IsInjective
<1>2. f \in Surjection(S, T)
  BY Zenon DEF Surjection
<1>3. ExistsBijection(S, T)
  BY <1>1, <1>2, Zenon DEF Bijection, ExistsBijection
<1> QED
  BY <1>3, FS_Bijection

\* Two ways to know a queue: what was appended to which, what was taken from which.
LEMMA AppendIs ==
    ASSUME NEW S, NEW s \in Seq(S), NEW t \in Seq(S), NEW x \in S,
           Len(t) = Len(s) + 1, \A i \in 1 .. Len(s) : t[i] = s[i], t[Len(s) + 1] = x
    PROVE  t = Append(s, x)
<1>1. /\ Append(s, x) \in Seq(S) /\ Len(Append(s, x)) = Len(s) + 1
      /\ \A i \in 1 .. Len(s) : Append(s, x)[i] = s[i]
      /\ Append(s, x)[Len(s) + 1] = x
  BY AppendProperties
<1>2. Len(s) \in Nat
  BY LenProperties
<1>3. \A i \in 1 .. Len(t) : t[i] = Append(s, x)[i]
  BY <1>1, <1>2
<1> QED
  BY <1>1, <1>3, SeqEqual

LEMMA SubSeqIs ==
    ASSUME NEW S, NEW s \in Seq(S), NEW t \in Seq(S), NEW n \in Nat,
           n <= Len(s), Len(t) = Len(s) - n, \A i \in 1 .. Len(t) : t[i] = s[i + n]
    PROVE  t = SubSeq(s, n + 1, Len(s))
<1>1. Len(s) \in Nat /\ \A i \in 1 .. Len(s) : s[i] \in S
  BY LenProperties
<1>2. \A i \in n + 1 .. Len(s) : s[i] \in S
  BY <1>1
<1> DEFINE u == SubSeq(s, n + 1, Len(s))
<1>3. /\ u \in Seq(S)
      /\ Len(u) = IF n + 1 <= Len(s) THEN Len(s) - (n + 1) + 1 ELSE 0
      /\ \A i \in 1 .. Len(s) - (n + 1) + 1 : u[i] = s[n + 1 + i - 1]
  BY <1>1, <1>2, SubSeqProperties
<1> HIDE DEF u
<1>4. Len(u) = Len(t)
  BY <1>1, <1>3
<1>5. \A i \in 1 .. Len(t) : t[i] = u[i]
  <2> SUFFICES ASSUME NEW i \in 1 .. Len(t)
               PROVE  t[i] = u[i]
    OBVIOUS
  <2>1. i \in 1 .. Len(s) - (n + 1) + 1 /\ n + 1 + i - 1 = i + n
    BY <1>1
  <2> QED
    BY <1>3, <2>1
<1>6. t = u
  BY <1>3, <1>4, <1>5, SeqEqual
<1> QED
  BY <1>6 DEF u

\* The halves of a row of buffers, counted from 1: the buffer and the half of the i-th.
LEMMA HalvesInOrder ==
    ASSUME NEW i \in Nat \ {0}
    PROVE  /\ (i + 1) \div 2 \in Nat \ {0} /\ (i - 1) % 2 \in {0, 1}
           /\ i = 2 * ((i + 1) \div 2) - 1 + ((i - 1) % 2)
           /\ (i + 3) \div 2 = (i + 1) \div 2 + 1 /\ (i + 1) % 2 = (i - 1) % 2
<1>1. /\ (i + 1) \div 2 \in Nat /\ (i + 1) \div 2 # 0 /\ (i + 3) \div 2 \in Nat
      /\ (i - 1) % 2 \in {0, 1}
  <2>1. (i + 1) \div 2 \in Nat
    OBVIOUS
  <2>2. (i + 1) \div 2 # 0
    OBVIOUS
  <2>3. (i + 3) \div 2 \in Nat
    OBVIOUS
  <2>4. (i - 1) % 2 \in {0, 1}
    OBVIOUS
  <2> QED
    BY <2>1, <2>2, <2>3, <2>4
<1>2. \A j \in Nat \ {0} : j = 2 * ((j + 1) \div 2) - 1 + ((j - 1) % 2)
  OBVIOUS
<1>3. (i + 1) % 2 = (i - 1) % 2
  OBVIOUS
<1>4. i + 2 = 2 * ((i + 3) \div 2) - 1 + ((i + 1) % 2)
  <2>1. i + 2 \in Nat \ {0} /\ i + 2 + 1 = i + 3 /\ i + 2 - 1 = i + 1
    OBVIOUS
  <2> QED
    BY <1>2, <2>1
<1>5. (i + 3) \div 2 = (i + 1) \div 2 + 1
  <2>1. \A h, k \in Nat : \A r \in {0, 1} :
            i = 2 * h - 1 + r /\ i + 2 = 2 * k - 1 + r => k = h + 1
    OBVIOUS
  <2> QED
    BY <1>1, <1>2, <1>3, <1>4, <2>1
<1> QED
  BY <1>1, <1>2, <1>3, <1>5

\* Of finitely many numbered values there is a first one among the least.
LEMMA FirstOfLeast ==
    ASSUME NEW n \in Nat, NEW S, S \subseteq 1 .. n, S # {}, NEW f \in [S -> Int]
    PROVE  \E i \in S : \A j \in S \ {i} : f[i] < f[j] \/ (f[i] = f[j] /\ i < j)
<1> DEFINE First(U, i) == \A j \in U \ {i} : f[i] < f[j] \/ (f[i] = f[j] /\ i < j)
           T == {k \in Nat : \A U \in SUBSET S : U \subseteq 1 .. k /\ U # {} => \E i \in U : First(U, i)}
<1>1. 0 \in T
  <2>1. 1 .. 0 = {}
    OBVIOUS
  <2> QED
    BY <2>1, Zenon
<1>2. ASSUME NEW k \in Nat, k \in T
      PROVE  k + 1 \in T
  <2> SUFFICES ASSUME NEW U \in SUBSET S, U \subseteq 1 .. k + 1, U # {}
               PROVE  \E i \in U : First(U, i)
    OBVIOUS
  <2> DEFINE V == U \ {k + 1}
  <2>1. V \in SUBSET S /\ V \subseteq 1 .. k
    BY <1>2
  <2>2. CASE V = {}
    BY <2>2
  <2>3. CASE V # {}
    <3>1. PICK i \in V : First(V, i)
      BY <1>2, <2>1, <2>3
    <3>2. CASE k + 1 \notin U
      BY <3>1, <3>2
    <3>3. CASE k + 1 \in U
      <4>1. i < k + 1 /\ i \in S /\ k + 1 \in S /\ f[i] \in Int /\ f[k + 1] \in Int
        BY <2>1, <3>3
      <4>2. CASE f[i] <= f[k + 1]
        <5>1. First(U, i)
          BY <3>1, <4>1, <4>2
        <5> QED
          BY <3>1, <5>1
      <4>3. CASE f[k + 1] < f[i]
        <5>1. ASSUME NEW j \in V
              PROVE  f[k + 1] < f[j]
          <6>1. f[j] \in Int
            BY <2>1
          <6>2. j = i \/ f[i] < f[j] \/ f[i] = f[j]
            BY <3>1, Zenon
          <6> QED
            BY <4>1, <4>3, <6>1, <6>2
        <5>2. \A j \in U \ {k + 1} : f[k + 1] < f[j]
          BY <5>1
        <5>3. First(U, k + 1)
          BY <5>2, Zenon
        <5> QED
          BY <3>3, <5>3
      <4> QED
        BY <4>1, <4>2, <4>3
    <3> QED
      BY <3>2, <3>3
  <2> QED
    BY <2>2, <2>3
<1> HIDE DEF T
<1>3. n \in T
  BY <1>1, <1>2, NatSetInduction
<1> QED
  BY <1>3 DEF T
===============================================================================
