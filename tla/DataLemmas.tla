------------------------------ MODULE DataLemmas -----------------------------
(***************************************************************************)
(* Facts about finite sets of integers and about sequences that the proofs *)
(* of this project rest on: the greatest and the least element exist, and  *)
(* the greatest is what Max returns; induction up to a number, which       *)
(* follows; and, by that induction, what FlattenSeq and FoldLeft compute.  *)
(***************************************************************************)
EXTENDS Integers, Sequences, SequencesExt, FiniteSetTheorems, FunctionTheorems, TLAPS

\* A non-empty finite set of integers has a greatest element: among the sets
\* "what is above x in S" one is minimal, and it has to be empty.
LEMMA GreatestExists ==
  ASSUME NEW S \in SUBSET Int, IsFiniteSet(S), S # {}
  PROVE  \E x \in S : \A y \in S : x >= y
<1> DEFINE Above(x) == {y \in S : y > x}
           F == {Above(x) : x \in S}
           R == StrictSubsetOrdering(S)
<1>1. F # {} /\ F \subseteq FiniteSubsetsOf(S)
  <2>1. ASSUME NEW x \in S
        PROVE  Above(x) \in FiniteSubsetsOf(S)
    <3>1. Above(x) \subseteq S
      OBVIOUS
    <3>2. IsFiniteSet(Above(x))
      BY <3>1, FS_Subset
    <3> QED
      BY <3>1, <3>2 DEF FiniteSubsetsOf
  <2> QED
    BY <2>1
<1>2. IsWellFoundedOn(R, FiniteSubsetsOf(S))
  BY FS_StrictSubsetOrderingWellFounded
<1>3. PICK A \in F : \A B \in F : ~(<<B, A>> \in R)
  <2> HIDE DEF F, R
  <2> QED BY <1>1, <1>2, WFMin
<1>4. PICK x \in S : A = Above(x)
  BY <1>3
<1>5. ASSUME NEW y \in S, y > x
      PROVE  FALSE
  <2>1. Above(y) \subseteq A
    <3>1. ASSUME NEW z \in S, z > y
          PROVE  z > x
      <4>1. x \in Int /\ y \in Int /\ z \in Int
        OBVIOUS
      <4> QED
        BY <4>1, <3>1, <1>5
    <3> QED
      BY <3>1, <1>4
  <2>4. y \in A /\ y \notin Above(y)
    <3>1. y \in Int
      OBVIOUS
    <3> QED
      BY <3>1, <1>4, <1>5
  <2>2. Above(y) \in F
    OBVIOUS
  <2>3. <<Above(y), A>> \in R
    BY <2>1, <2>4, <1>4 DEF StrictSubsetOrdering
  <2> QED
    BY <2>2, <2>3, <1>3
<1> QED
  BY <1>5

\* So it has a least one: the greatest of what has to be added to them to
\* reach a number above all.
LEMMA LeastExists ==
  ASSUME NEW S \in SUBSET Int, IsFiniteSet(S), S # {}
  PROVE  \E x \in S : \A y \in S : x <= y
<1> DEFINE Neg == {-x : x \in S}
           f == [x \in S |-> -x]
<1>1. Neg \in SUBSET Int /\ Neg # {}
  <2>1. \A x \in S : x \in Int /\ -x \in Int
    OBVIOUS
  <2> QED
    BY <2>1
<1>2. f \in Surjection(S, Neg)
  <2>1. f \in [S -> Neg] /\ \A z \in Neg : \E x \in S : f[x] = z
    OBVIOUS
  <2> QED
    BY <2>1, Fun_IsSurj
<1>3. IsFiniteSet(Neg)
  <2> HIDE DEF f, Neg
  <2> QED BY <1>2, FS_Surjection
<1>4. PICK z \in Neg : \A y \in Neg : z >= y
  <2> HIDE DEF Neg
  <2> QED BY <1>1, <1>3, GreatestExists
<1>5. PICK x \in S : z = -x
  BY <1>4
<1>6. ASSUME NEW y \in S
      PROVE  x <= y
  <2>1. x \in Int /\ y \in Int
    BY <1>5
  <2>2. -y \in Neg
    OBVIOUS
  <2> QED
    BY <1>4, <1>5, <2>1, <2>2
<1> QED
  BY <1>5, <1>6

\* Induction up to a number, said of a set instead of a predicate.
LEMMA InductionUpTo ==
  ASSUME NEW n \in Nat, NEW P, 0 \in P, \A m \in 0 .. n - 1 : m \in P => m + 1 \in P
  PROVE  \A m \in 0 .. n : m \in P
<1> DEFINE Bad == {m \in 0 .. n : m \notin P}
<1> SUFFICES ASSUME Bad # {} PROVE FALSE
  OBVIOUS
<1>1. Bad \in SUBSET Int /\ IsFiniteSet(Bad)
  <2>1. IsFiniteSet(0 .. n)
    BY FS_Interval, 0 \in Int, n \in Int
  <2> QED
    BY <2>1, FS_Subset
<1>2. PICK x \in Bad : \A y \in Bad : x <= y
  <2> HIDE DEF Bad
  <2> QED BY <1>1, LeastExists
<1>3. x # 0 /\ x \in 0 .. n /\ x \notin P
  BY <1>2
<1>4. x - 1 \in 0 .. n - 1 /\ x - 1 \in 0 .. n /\ ~(x <= x - 1) /\ (x - 1) + 1 = x
  BY <1>3
<1>5. x - 1 \in P
  BY <1>2, <1>4
<1> QED
  BY <1>3, <1>4, <1>5

\* What Max returns.
LEMMA MaxProperties ==
  ASSUME NEW S \in SUBSET Int, IsFiniteSet(S), S # {}
  PROVE  Max(S) \in S /\ \A y \in S : y <= Max(S)
<1>1. PICK x \in S : \A y \in S : x >= y
  BY GreatestExists
<1> QED
  BY <1>1 DEF Max

\* The greatest element of 1 .. k, with 0 for the empty set.
LEMMA MaxOfPrefix ==
  ASSUME NEW k \in Nat
  PROVE  Max((1 .. k) \cup {0}) = k
<1>0. IsFiniteSet(1 .. k)
  BY FS_Interval, 1 \in Int, k \in Int
<1>1. IsFiniteSet((1 .. k) \cup {0})
  BY <1>0, FS_AddElement
<1>2. (1 .. k) \cup {0} \in SUBSET Int
  OBVIOUS
<1>3. /\ Max((1 .. k) \cup {0}) \in (1 .. k) \cup {0}
      /\ \A y \in (1 .. k) \cup {0} : y <= Max((1 .. k) \cup {0})
  BY <1>1, <1>2, MaxProperties
<1> QED
  BY <1>3

\* Max over a set of chapters and 0 is 0 or one of the chapters.
LEMMA MaxOfChapters ==
  ASSUME NEW N \in Nat, NEW S \in SUBSET (1 .. N)
  PROVE  /\ Max(S \cup {0}) \in 0 .. N
         /\ \A n \in S : n <= Max(S \cup {0})
<1>0. IsFiniteSet(1 .. N)
  BY FS_Interval, 1 \in Int, N \in Int
<1>1. IsFiniteSet(S)
  BY <1>0, FS_Subset
<1>2. IsFiniteSet(S \cup {0})
  BY <1>1, FS_AddElement
<1>3. S \cup {0} \in SUBSET Int
  OBVIOUS
<1>4. /\ Max(S \cup {0}) \in S \cup {0}
      /\ \A y \in S \cup {0} : y <= Max(S \cup {0})
  BY <1>2, <1>3, MaxProperties
<1>5. Max(S \cup {0}) \in 0 .. N
  <2>1. \A m \in S \cup {0} : m \in 0 .. N
    OBVIOUS
  <2> QED
    BY <1>4, <2>1
<1> QED
  BY <1>4, <1>5

\* The greatest element of a set of numbers up to m is below m + 1, and m + 1
\* is the greatest of the sets it is in.
LEMMA MaxUpTo ==
  ASSUME NEW m \in Nat, NEW S \in SUBSET (1 .. m + 1), S # {}
  PROVE  /\ Max(S) \in S
         /\ m + 1 \in S => Max(S) = m + 1
<1>1. S \in SUBSET Int /\ IsFiniteSet(S)
  <2>1. IsFiniteSet(1 .. m + 1)
    BY FS_Interval, 1 \in Int, m + 1 \in Int
  <2>2. S \subseteq 1 .. m + 1 /\ 1 .. m + 1 \subseteq Int
    OBVIOUS
  <2> QED
    BY <2>1, <2>2, FS_Subset
<1>2. Max(S) \in S /\ \A y \in S : y <= Max(S)
  BY <1>1, MaxProperties
<1>3. Max(S) \in 1 .. m + 1
  BY <1>2
<1> QED
  BY <1>2, <1>3

\* A finite set of numbers can be counted upwards.
LEMMA SortedExists ==
  ASSUME NEW n \in Nat, NEW S \in SUBSET (1 .. n)
  PROVE  /\ IsFiniteSet(S)
         /\ \E s \in [1 .. Cardinality(S) -> S] :
              \A i, k \in 1 .. Cardinality(S) : i < k => s[i] < s[k]
<1> DEFINE Counts(s, R) == \A i, k \in 1 .. Cardinality(R) : i < k => s[i] < s[k]
           P == {m \in 0 .. n : \A R \in SUBSET (1 .. m) :
                   IsFiniteSet(R) /\ \E s \in [1 .. Cardinality(R) -> R] : Counts(s, R)}
<1>1. 0 \in P
  <2>1. 0 \in 0 .. n /\ 1 .. 0 = {}
    OBVIOUS
  <2>2. IsFiniteSet({}) /\ Cardinality({}) = 0
    BY FS_EmptySet
  <2> DEFINE e == [i \in 1 .. 0 |-> 0]
  <2>3. e \in [1 .. Cardinality({}) -> {}] /\ Counts(e, {})
    BY <2>1, <2>2
  <2> HIDE DEF e, Counts
  <2>4. ASSUME NEW R \in SUBSET (1 .. 0)
        PROVE  IsFiniteSet(R) /\ \E s \in [1 .. Cardinality(R) -> R] : Counts(s, R)
    <3>1. R = {}
      BY <2>1
    <3> QED
      BY <2>2, <2>3, <3>1
  <2> QED
    BY <2>1, <2>4
<1>2. ASSUME NEW m \in 0 .. n - 1, m \in P
      PROVE  m + 1 \in P
  <2>1. m + 1 \in 0 .. n
    OBVIOUS
  <2>2. \A R \in SUBSET (1 .. m) : IsFiniteSet(R) /\ \E s \in [1 .. Cardinality(R) -> R] : Counts(s, R)
    BY <1>2
  <2>3. ASSUME NEW R \in SUBSET (1 .. m + 1)
        PROVE  IsFiniteSet(R) /\ \E s \in [1 .. Cardinality(R) -> R] : Counts(s, R)
    <3> DEFINE Q == R \ {m + 1}
    <3>1. Q \in SUBSET (1 .. m)
      OBVIOUS
    <3>2. IsFiniteSet(Q)
      <4> HIDE DEF Counts, Q
      <4> QED BY <2>2, <3>1
    <3>3. PICK s \in [1 .. Cardinality(Q) -> Q] : Counts(s, Q)
      <4> HIDE DEF Counts, Q
      <4> QED BY <2>2, <3>1
    <3>4. CASE m + 1 \notin R
      <4>1. Q = R
        BY <3>4
      <4> HIDE DEF Counts, Q
      <4> QED
        BY <3>2, <3>3, <4>1
    <3>5. CASE m + 1 \in R
      <4> DEFINE c == Cardinality(Q)
                 t == [i \in 1 .. c + 1 |-> IF i = c + 1 THEN m + 1 ELSE s[i]]
      <4>1. R = Q \cup {m + 1} /\ m + 1 \notin Q
        BY <3>5
      <4>2. IsFiniteSet(R) /\ Cardinality(R) = c + 1 /\ c \in Nat
        <5> HIDE DEF Q
        <5> QED BY <3>2, <4>1, FS_AddElement, FS_CardinalityType
      <4> HIDE DEF Q, c
      <4>3. s \in [1 .. c -> Q] /\ \A i, k \in 1 .. c : i < k => s[i] < s[k]
        BY <3>3 DEF c
      <4>4. \A i \in 1 .. c + 1 : i # c + 1 => i \in 1 .. c
        BY <4>2
      <4>5. t \in [1 .. c + 1 -> R]
        BY <4>1, <4>3, <4>4
      <4>6. ASSUME NEW i \in 1 .. c + 1, NEW k \in 1 .. c + 1, i < k
            PROVE  t[i] < t[k]
        <5>1. i \in 1 .. c /\ t[i] = s[i] /\ s[i] \in 1 .. m
          <6>1. i \in 1 .. c /\ i # c + 1
            BY <4>2, <4>6
          <6> QED
            BY <3>1, <4>3, <6>1
        <5>2. CASE k = c + 1
          BY <5>1, <5>2
        <5>3. CASE k # c + 1
          BY <4>3, <4>4, <4>6, <5>1, <5>3
        <5> QED
          BY <5>2, <5>3
      <4> HIDE DEF t
      <4>7. Counts(t, R)
        BY <4>2, <4>6
      <4> HIDE DEF Counts
      <4> QED
        BY <4>2, <4>5, <4>7
    <3> QED
      BY <3>4, <3>5
  <2> HIDE DEF Counts
  <2> QED
    BY <2>1, <2>3
<1>3. n \in P
  <2>1. \A m \in 0 .. n : m \in P
    <3> HIDE DEF P
    <3> QED BY <1>1, <1>2, InductionUpTo
  <2>2. n \in 0 .. n
    OBVIOUS
  <2> HIDE DEF P
  <2> QED BY <2>1, <2>2
<1> QED
  BY <1>3

\* Counted upwards, every element is met.
LEMMA SortedMeetsAll ==
  ASSUME NEW n \in Nat, NEW S \in SUBSET (1 .. n), NEW s \in [1 .. Cardinality(S) -> S],
         \A i, k \in 1 .. Cardinality(S) : i < k => s[i] < s[k]
  PROVE  \A x \in S : \E i \in 1 .. Cardinality(S) : s[i] = x
<1>1. IsFiniteSet(S) /\ Cardinality(S) \in Nat
  BY SortedExists, FS_CardinalityType
<1> DEFINE D == 1 .. Cardinality(S)
<1>2. IsFiniteSet(D) /\ Cardinality(D) = Cardinality(S)
  <2>1. 1 \in Int /\ Cardinality(S) \in Int /\ Cardinality(S) - 1 + 1 = Cardinality(S)
    BY <1>1
  <2>2. IsFiniteSet(D) /\ Cardinality(D) = IF 1 > Cardinality(S) THEN 0 ELSE Cardinality(S) - 1 + 1
    BY <2>1, FS_Interval
  <2> QED
    BY <1>1, <2>1, <2>2
<1>3. s \in Injection(D, S)
  <2>1. ASSUME NEW i \in D, NEW k \in D, s[i] = s[k]
        PROVE  i = k
    <3>1. i \in Int /\ k \in Int /\ s[i] \in Int /\ s[k] \in Int
      <4>1. s[i] \in S /\ s[k] \in S
        OBVIOUS
      <4>2. \A x \in S : x \in Int
        OBVIOUS
      <4>3. \A j \in D : j \in Int
        BY <1>1
      <4> HIDE DEF D
      <4> QED
        BY <4>1, <4>2, <4>3
    <3>2. ~(i < k) /\ ~(k < i)
      BY <2>1, <3>1
    <3> QED
      BY <3>1, <3>2
  <2> QED
    BY <2>1, Fun_IsInj
<1>4. s \in Surjection(D, S)
  <2> HIDE DEF D
  <2> QED BY <1>1, <1>2, <1>3, FS_Injection
<1> QED
  BY <1>4 DEF Surjection

-----------------------------------------------------------------------------
(* Concatenation.                                                          *)

\* The function that gives the concatenation of the first parts of s.
Concats(s, n, T) ==
  {f \in [0 .. n -> Seq(T)] : f[0] = <<>> /\ \A i \in 1 .. n : f[i] = f[i - 1] \o s[i]}

\* There is one.
LEMMA ConcatsExist ==
  ASSUME NEW T, NEW n \in Nat, NEW s \in [1 .. n -> Seq(T)]
  PROVE  Concats(s, n, T) # {}
<1> DEFINE Unfolds(f, m) == f[0] = <<>> /\ \A i \in 1 .. m : f[i] = f[i - 1] \o s[i]
           P == {m \in 0 .. n : \E f \in [0 .. m -> Seq(T)] : Unfolds(f, m)}
<1>1. 0 \in P
  <2> DEFINE e == [i \in 0 .. 0 |-> <<>>]
  <2>1. 1 .. 0 = {} /\ 0 \in 0 .. 0 /\ 0 \in 0 .. n
    OBVIOUS
  <2>2. e \in [0 .. 0 -> Seq(T)]
    OBVIOUS
  <2>3. Unfolds(e, 0)
    BY <2>1
  <2> HIDE DEF Unfolds, e
  <2>4. \E f \in [0 .. 0 -> Seq(T)] : Unfolds(f, 0)
    BY <2>2, <2>3
  <2> QED
    BY <2>1, <2>4
<1>2. ASSUME NEW m \in 0 .. n - 1, m \in P
      PROVE  m + 1 \in P
  <2>1. PICK f \in [0 .. m -> Seq(T)] : Unfolds(f, m)
    BY <1>2
  <2>2. m + 1 \in 0 .. n /\ m + 1 \in 1 .. n /\ m \in 0 .. m /\ 0 \in 0 .. m
    OBVIOUS
  <2> DEFINE g == [i \in 0 .. m + 1 |-> IF i = m + 1 THEN f[m] \o s[m + 1] ELSE f[i]]
  <2>3. f[m] \o s[m + 1] \in Seq(T)
    <3>1. f[m] \in Seq(T) /\ s[m + 1] \in Seq(T)
      BY <2>2
    <3> QED
      BY <3>1
  <2>4. \A i \in 0 .. m : g[i] = f[i] /\ i \in 0 .. m + 1 /\ i # m + 1
    OBVIOUS
  <2>5. g[m + 1] = f[m] \o s[m + 1]
    OBVIOUS
  <2>6. g \in [0 .. m + 1 -> Seq(T)]
    BY <2>3
  <2> HIDE DEF g
  <2>7. ASSUME NEW i \in 1 .. m + 1
        PROVE  g[i] = g[i - 1] \o s[i]
    <3>1. CASE i = m + 1
      <4>1. i - 1 = m
        BY <3>1
      <4> QED
        BY <2>2, <2>4, <2>5, <3>1, <4>1
    <3>2. CASE i # m + 1
      <4>1. i \in 1 .. m /\ i \in 0 .. m /\ i - 1 \in 0 .. m
        BY <3>2
      <4>2. f[i] = f[i - 1] \o s[i]
        BY <2>1, <4>1
      <4> QED
        BY <2>4, <4>1, <4>2
    <3> QED
      BY <3>1, <3>2
  <2>8. Unfolds(g, m + 1)
    BY <2>1, <2>2, <2>4, <2>7
  <2> HIDE DEF Unfolds
  <2>9. \E h \in [0 .. m + 1 -> Seq(T)] : Unfolds(h, m + 1)
    BY <2>6, <2>8
  <2> QED
    BY <2>2, <2>9
<1>3. \A m \in 0 .. n : m \in P
  <2> HIDE DEF P
  <2> QED BY <1>1, <1>2, InductionUpTo
<1>4. n \in P
  <2>1. n \in 0 .. n
    OBVIOUS
  <2> HIDE DEF P
  <2> QED BY <1>3, <2>1
<1> QED
  BY <1>4 DEF Concats

\* They are what FlattenSeq computes.
LEMMA FlattenUnfolds ==
  ASSUME NEW T, NEW n \in Nat \ {0}, NEW s \in [1 .. n -> Seq(T)],
         NEW f \in Concats(s, n, T)
  PROVE  FlattenSeq(s) = f[n]
<1> DEFINE Step(h) == [i \in 1 .. n |-> IF i = 1 THEN s[i] ELSE h[i - 1] \o s[i]]
           flatten == CHOOSE h : h = Step(h)
           g == [i \in 1 .. n |-> f[i]]
<1>0. /\ f \in [0 .. n -> Seq(T)]
      /\ f[0] = <<>> /\ \A i \in 1 .. n : f[i] = f[i - 1] \o s[i]
  BY DEF Concats
<1>1. f[1] = s[1]
  <2>1. 1 \in 1 .. n /\ 1 - 1 = 0 /\ s[1] \in Seq(T)
    OBVIOUS
  <2>2. f[1] = <<>> \o s[1]
    BY <1>0, <2>1
  <2> QED
    BY <2>1, <2>2
<1>2. ASSUME NEW i \in 1 .. n
      PROVE  g[i] = IF i = 1 THEN s[i] ELSE g[i - 1] \o s[i]
  <2>1. CASE i = 1
    BY <1>1, <2>1
  <2>2. CASE i # 1
    <3>1. i - 1 \in 1 .. n
      BY <2>2
    <3>2. g[i - 1] = f[i - 1] /\ g[i] = f[i]
      BY <3>1
    <3>3. f[i] = f[i - 1] \o s[i]
      BY <1>0
    <3> HIDE DEF g
    <3> QED
      BY <2>2, <3>2, <3>3
  <2> QED
    BY <2>1, <2>2
<1>3. g = Step(g)
  <2>1. Step(g) = [i \in 1 .. n |-> g[i]]
    <3> HIDE DEF g
    <3> QED BY <1>2, Zenon
  <2> HIDE DEF Step
  <2> QED BY <2>1
<1>4. flatten = Step(flatten)
  <2> HIDE DEF Step, g
  <2> QED BY <1>3
<1> HIDE DEF flatten
<1>5. ASSUME NEW i \in 1 .. n
      PROVE  flatten[i] = IF i = 1 THEN s[i] ELSE flatten[i - 1] \o s[i]
  <2>1. Step(flatten)[i] = IF i = 1 THEN s[i] ELSE flatten[i - 1] \o s[i]
    OBVIOUS
  <2> HIDE DEF Step
  <2> QED BY <1>4, <2>1
<1> DEFINE P == {m \in 0 .. n : m = 0 \/ flatten[m] = f[m]}
<1>6. ASSUME NEW m \in 0 .. n - 1, m \in P
      PROVE  m + 1 \in P
  <2>1. m + 1 \in 1 .. n /\ m + 1 \in 0 .. n /\ (m + 1) - 1 = m
    OBVIOUS
  <2>2. CASE m = 0
    <3>1. flatten[1] = s[1]
      <4>1. 1 \in 1 .. n
        BY <2>1, <2>2
      <4> QED
        BY <1>5, <4>1
    <3> QED
      BY <1>1, <2>1, <2>2, <3>1
  <2>3. CASE m # 0
    <3>1. flatten[m] = f[m] /\ m + 1 # 1
      BY <1>6, <2>3
    <3>2. f[m + 1] = f[(m + 1) - 1] \o s[m + 1]
      BY <1>0, <2>1
    <3>3. flatten[m + 1] = flatten[(m + 1) - 1] \o s[m + 1]
      BY <1>5, <2>1, <3>1
    <3>4. flatten[m + 1] = f[m + 1]
      BY <2>1, <3>1, <3>2, <3>3
    <3> QED
      BY <2>1, <3>4
  <2> QED
    BY <2>2, <2>3
<1>7. \A m \in 0 .. n : m \in P
  <2>1. 0 \in P
    OBVIOUS
  <2> HIDE DEF P
  <2> QED BY <1>6, <2>1, InductionUpTo
<1>8. flatten[n] = f[n]
  <2>1. n \in 0 .. n /\ n # 0
    OBVIOUS
  <2> QED BY <1>7, <2>1
<1>9. Len(s) = n /\ n # 0
  OBVIOUS
<1>10. FlattenSeq(s) = flatten[n]
  BY <1>9 DEF FlattenSeq, flatten
<1> QED
  BY <1>8, <1>10

\* The concatenation of any number of parts.
LEMMA FlattenIsConcat ==
  ASSUME NEW T, NEW n \in Nat, NEW s \in [1 .. n -> Seq(T)], NEW f \in Concats(s, n, T)
  PROVE  FlattenSeq(s) = f[n]
<1>1. CASE n = 0
  <2>1. s = <<>> /\ Len(s) = 0
    BY <1>1
  <2> QED
    BY <1>1, <2>1 DEF FlattenSeq, Concats
<1>2. CASE n # 0
  BY <1>2, FlattenUnfolds
<1> QED
  BY <1>1, <1>2

\* Each element of a concatenation is from one of the parts, and the parts
\* follow each other.
LEMMA FlattenInOrder ==
  ASSUME NEW T, NEW n \in Nat, NEW s \in [1 .. n -> Seq(T)]
  PROVE  /\ FlattenSeq(s) \in Seq(T)
         /\ \E from \in [DOMAIN FlattenSeq(s) -> 1 .. n] :
              /\ \A a \in DOMAIN FlattenSeq(s) :
                   \E k \in DOMAIN s[from[a]] : FlattenSeq(s)[a] = s[from[a]][k]
              /\ \A a, b \in DOMAIN FlattenSeq(s) : a < b => from[a] <= from[b]
<1> DEFINE Traces(from, w) ==
             /\ \A a \in DOMAIN w : \E k \in DOMAIN s[from[a]] : w[a] = s[from[a]][k]
             /\ \A a, b \in DOMAIN w : a < b => from[a] <= from[b]
           Parts(w, m) == \E from \in [DOMAIN w -> 1 .. m] : Traces(from, w)
<1>0. PICK f \in Concats(s, n, T) : TRUE
  BY ConcatsExist
<1>1. /\ f \in [0 .. n -> Seq(T)]
      /\ f[0] = <<>> /\ \A i \in 1 .. n : f[i] = f[i - 1] \o s[i]
  BY <1>0 DEF Concats
<1>2. FlattenSeq(s) = f[n]
  BY <1>0, FlattenIsConcat
<1> DEFINE P == {m \in 0 .. n : Parts(f[m], m)}
<1>3. 0 \in P
  <2> DEFINE e == [a \in {} |-> 0]
  <2>1. f[0] = <<>> /\ DOMAIN f[0] = {} /\ 0 \in 0 .. n
    BY <1>1
  <2>2. e \in [DOMAIN f[0] -> 1 .. 0]
    BY <2>1
  <2>3. Traces(e, f[0])
    BY <2>1
  <2> HIDE DEF Traces, e
  <2>4. Parts(f[0], 0)
    BY <2>2, <2>3
  <2> QED
    BY <2>1, <2>4
<1>4. ASSUME NEW m \in 0 .. n - 1, m \in P
      PROVE  m + 1 \in P
  <2> DEFINE u == f[m]
             v == s[m + 1]
             w == u \o v
  <2>1. m + 1 \in 1 .. n /\ m \in 0 .. n /\ m + 1 \in 0 .. n /\ (m + 1) - 1 = m
    OBVIOUS
  <2>2. u \in Seq(T) /\ v \in Seq(T)
    BY <1>1, <2>1
  <2>3. f[m + 1] = w
    <3>1. f[m + 1] = f[(m + 1) - 1] \o s[m + 1]
      BY <1>1, <2>1
    <3> QED
      BY <2>1, <3>1
  <2>4. PICK old \in [DOMAIN u -> 1 .. m] : Traces(old, u)
    BY <1>4
  <2> DEFINE from == [a \in DOMAIN w |-> IF a <= Len(u) THEN old[a] ELSE m + 1]
  <2> HIDE DEF u, v
  <2>5. /\ DOMAIN w = 1 .. Len(u) + Len(v) /\ Len(u) \in Nat /\ Len(v) \in Nat
        /\ DOMAIN u = 1 .. Len(u) /\ DOMAIN v = 1 .. Len(v)
    BY <2>2
  <2>6. ASSUME NEW a \in DOMAIN w, a <= Len(u)
        PROVE  a \in DOMAIN u /\ from[a] = old[a] /\ from[a] \in 1 .. m /\ w[a] = u[a]
    <3>1. a \in DOMAIN u
      BY <2>5, <2>6
    <3>2. from[a] = old[a]
      BY <2>6
    <3>3. w[a] = u[a]
      BY <2>2, <2>5, <3>1
    <3> QED
      BY <2>4, <3>1, <3>2, <3>3
  <2>7. ASSUME NEW a \in DOMAIN w, ~(a <= Len(u))
        PROVE  from[a] = m + 1 /\ a - Len(u) \in DOMAIN v /\ w[a] = v[a - Len(u)]
    <3>1. from[a] = m + 1
      BY <2>7
    <3>2. a - Len(u) \in DOMAIN v
      BY <2>5, <2>7
    <3>3. w[a] = v[a - Len(u)]
      BY <2>2, <2>5, <2>7
    <3> QED
      BY <3>1, <3>2, <3>3
  <2>8. from \in [DOMAIN w -> 1 .. m + 1]
    <3>1. \A a \in DOMAIN w : from[a] \in 1 .. m + 1
      BY <2>1, <2>6, <2>7
    <3>2. from = [a \in DOMAIN w |-> from[a]]
      OBVIOUS
    <3> HIDE DEF from, w
    <3> QED
      BY <3>1, <3>2
  <2> HIDE DEF from, w
  <2>9. ASSUME NEW a \in DOMAIN w
        PROVE  \E k \in DOMAIN s[from[a]] : w[a] = s[from[a]][k]
    <3>1. CASE a <= Len(u)
      <4>1. a \in DOMAIN u /\ from[a] = old[a] /\ w[a] = u[a]
        BY <2>6, <3>1
      <4>2. \E k \in DOMAIN s[old[a]] : u[a] = s[old[a]][k]
        BY <2>4, <4>1
      <4> QED
        BY <4>1, <4>2
    <3>2. CASE ~(a <= Len(u))
      BY <2>7, <3>2 DEF v
    <3> QED
      BY <3>1, <3>2
  <2>10. ASSUME NEW a \in DOMAIN w, NEW b \in DOMAIN w, a < b
         PROVE  from[a] <= from[b]
    <3>1. a \in Int /\ b \in Int
      BY <2>5
    <3>2. CASE b <= Len(u)
      <4>1. a <= Len(u)
        BY <2>5, <2>10, <3>1, <3>2
      <4>2. a \in DOMAIN u /\ b \in DOMAIN u /\ from[a] = old[a] /\ from[b] = old[b]
        BY <2>6, <3>2, <4>1
      <4> QED
        BY <2>4, <2>10, <4>2
    <3>3. CASE ~(b <= Len(u))
      <4>1. from[b] = m + 1 /\ from[a] \in 1 .. m + 1
        BY <2>7, <2>8, <3>3
      <4> QED
        BY <4>1
    <3> QED
      BY <3>2, <3>3
  <2>11. Traces(from, w)
    BY <2>9, <2>10
  <2> HIDE DEF Traces
  <2>12. Parts(f[m + 1], m + 1)
    BY <2>3, <2>8, <2>11
  <2> QED
    BY <2>1, <2>12
<1>5. Parts(f[n], n)
  <2>1. \A m \in 0 .. n : m \in P
    <3> HIDE DEF P
    <3> QED BY <1>3, <1>4, InductionUpTo
  <2>2. n \in 0 .. n
    OBVIOUS
  <2> HIDE DEF Parts
  <2> QED BY <2>1, <2>2
<1>6. f[n] \in Seq(T)
  BY <1>1
<1> QED
  BY <1>2, <1>5, <1>6

\* A concatenation of n parts, each no longer than m, is no longer than n * m.
LEMMA FlattenLength ==
  ASSUME NEW T, NEW n \in Nat, NEW m \in Nat, NEW s \in [1 .. n -> Seq(T)],
         \A i \in 1 .. n : Len(s[i]) <= m
  PROVE  Len(FlattenSeq(s)) <= n * m
<1> DEFINE P(f) == {i \in 0 .. n : Len(f[i]) <= i * m}
<1>1. PICK f \in Concats(s, n, T) : TRUE
  BY ConcatsExist
<1>2. /\ f \in [0 .. n -> Seq(T)]
      /\ f[0] = <<>> /\ \A i \in 1 .. n : f[i] = f[i - 1] \o s[i]
  BY <1>1 DEF Concats
<1>3. 0 \in P(f)
  BY <1>2
<1>4. ASSUME NEW i \in 0 .. n - 1, i \in P(f)
      PROVE  i + 1 \in P(f)
  <2>1. i + 1 \in 1 .. n /\ i \in 0 .. n /\ (i + 1) - 1 = i
    OBVIOUS
  <2>2. f[i + 1] = f[i] \o s[i + 1] /\ f[i] \in Seq(T) /\ s[i + 1] \in Seq(T)
    BY <1>2, <2>1
  <2>3. Len(f[i + 1]) = Len(f[i]) + Len(s[i + 1])
    BY <2>2
  <2>4. Len(f[i]) <= i * m /\ Len(s[i + 1]) <= m
    BY <1>4, <2>1
  <2>5. i * m + m = (i + 1) * m /\ i * m \in Nat
    BY <2>1
  <2>6. Len(f[i + 1]) <= (i + 1) * m
    <3>1. Len(f[i]) \in Nat /\ Len(s[i + 1]) \in Nat
      BY <2>2
    <3>2. \A a, b, c, d \in Nat : a <= c /\ b <= d => a + b <= c + d
      OBVIOUS
    <3>3. Len(f[i]) + Len(s[i + 1]) <= i * m + m
      BY <2>4, <2>5, <3>1, <3>2
    <3> QED
      BY <2>3, <2>5, <3>3
  <2> QED
    BY <2>1, <2>6
<1>5. n \in P(f)
  <2>1. n \in 0 .. n
    OBVIOUS
  <2> HIDE DEF P
  <2> QED BY <1>3, <1>4, <2>1, InductionUpTo
<1>6. FlattenSeq(s) = f[n]
  BY FlattenIsConcat
<1> QED
  BY <1>5, <1>6

-----------------------------------------------------------------------------
(* Folds.                                                                  *)

\* The recursive function that a fold over 1 .. n evaluates, of the sets that
\* are left; h[i] is what the step of index i
\* makes of the result of the others.
Folds(n, A, base, h) ==
  {it \in [SUBSET (1 .. n) -> A] :
     \A S \in SUBSET (1 .. n) :
       it[S] = IF S = {} THEN base ELSE h[Max(S)][it[S \ {Max(S)}]]}

\* There is one.
LEMMA FoldsExist ==
  ASSUME NEW n \in Nat, NEW A, NEW base \in A, NEW h \in [1 .. n -> [A -> A]]
  PROVE  Folds(n, A, base, h) # {}
<1> DEFINE Unfolds(it, m) == \A S \in SUBSET (1 .. m) :
             it[S] = IF S = {} THEN base ELSE h[Max(S)][it[S \ {Max(S)}]]
           P == {m \in 0 .. n : \E it \in [SUBSET (1 .. m) -> A] : Unfolds(it, m)}
<1>1. 0 \in P
  <2> DEFINE e == [S \in SUBSET (1 .. 0) |-> base]
  <2>1. 1 .. 0 = {} /\ 0 \in 0 .. n
    OBVIOUS
  <2>2. e \in [SUBSET (1 .. 0) -> A]
    OBVIOUS
  <2>3. Unfolds(e, 0)
    BY <2>1
  <2> HIDE DEF Unfolds, e
  <2>4. \E it \in [SUBSET (1 .. 0) -> A] : Unfolds(it, 0)
    BY <2>2, <2>3
  <2> QED
    BY <2>1, <2>4
<1>2. ASSUME NEW m \in 0 .. n - 1, m \in P
      PROVE  m + 1 \in P
  <2>1. PICK f \in [SUBSET (1 .. m) -> A] : Unfolds(f, m)
    BY <1>2
  <2>2. m \in Nat /\ m + 1 \in 0 .. n /\ m + 1 \in 1 .. n
    OBVIOUS
  <2> DEFINE g == [S \in SUBSET (1 .. m + 1) |->
                     IF m + 1 \in S THEN h[m + 1][f[S \ {m + 1}]] ELSE f[S]]
  <2>3. ASSUME NEW S \in SUBSET (1 .. m + 1)
        PROVE  /\ g[S] \in A
               /\ g[S] = IF S = {} THEN base ELSE h[Max(S)][g[S \ {Max(S)}]]
    <3>1. S \ {m + 1} \in SUBSET (1 .. m) /\ S \ {m + 1} \in SUBSET (1 .. m + 1)
      <4>1. \A i \in 1 .. m + 1 : i # m + 1 => i \in 1 .. m
        OBVIOUS
      <4> QED
        BY <4>1
    <3>2. CASE m + 1 \in S
      <4>1. Max(S) = m + 1 /\ S # {}
        BY <2>2, <3>2, MaxUpTo
      <4>2. g[S \ {m + 1}] = f[S \ {m + 1}]
        BY <3>1
      <4>3. g[S] = h[m + 1][f[S \ {m + 1}]]
        BY <3>2
      <4>4. f[S \ {m + 1}] \in A
        BY <3>1
      <4> HIDE DEF g
      <4>5. h[m + 1][f[S \ {m + 1}]] \in A
        BY <2>2, <4>4
      <4> QED
        BY <4>1, <4>2, <4>3, <4>5
    <3>3. CASE m + 1 \notin S
      <4>1. S \in SUBSET (1 .. m)
        BY <3>1, <3>3
      <4>2. g[S] = f[S]
        BY <3>3
      <4>3. \A R \in SUBSET (1 .. m) : R \in SUBSET (1 .. m + 1) /\ m + 1 \notin R
        OBVIOUS
      <4>4. S # {} => g[S \ {Max(S)}] = f[S \ {Max(S)}]
        <5>1. S \ {Max(S)} \in SUBSET (1 .. m)
          BY <4>1
        <5> QED
          BY <4>3, <5>1
      <4>5. f[S] \in A
        BY <4>1
      <4> HIDE DEF g
      <4>6. f[S] = IF S = {} THEN base ELSE h[Max(S)][f[S \ {Max(S)}]]
        BY <2>1, <4>1
      <4> QED
        BY <4>2, <4>4, <4>5, <4>6
    <3> QED
      BY <3>2, <3>3
  <2>4. g = [S \in SUBSET (1 .. m + 1) |-> g[S]]
    OBVIOUS
  <2> HIDE DEF g
  <2>5. g \in [SUBSET (1 .. m + 1) -> A]
    BY <2>3, <2>4
  <2>6. Unfolds(g, m + 1)
    BY <2>3
  <2> HIDE DEF Unfolds
  <2>7. \E it \in [SUBSET (1 .. m + 1) -> A] : Unfolds(it, m + 1)
    BY <2>5, <2>6
  <2> QED
    BY <2>2, <2>7
<1>3. \A m \in 0 .. n : m \in P
  <2> HIDE DEF P
  <2> QED BY <1>1, <1>2, InductionUpTo
<1>4. n \in P
  <2>1. n \in 0 .. n
    OBVIOUS
  <2> HIDE DEF P
  <2> QED BY <1>3, <2>1
<1> QED
  BY <1>4 DEF Folds

\* The sets that a fold over 1 .. n goes through.
LEMMA PrefixTop ==
  ASSUME NEW n \in Nat, NEW k \in 1 .. n
  PROVE  /\ 1 .. k \in SUBSET (1 .. n) /\ 1 .. k # {}
         /\ Max(1 .. k) = k
         /\ (1 .. k) \ {k} = 1 .. k - 1
<1>1. k - 1 \in Nat /\ (k - 1) + 1 = k /\ k \in 1 .. k
  OBVIOUS
<1>2. 1 .. k \in SUBSET (1 .. n) /\ 1 .. k # {} /\ (1 .. k) \ {k} = 1 .. k - 1
  OBVIOUS
<1>3. Max(1 .. k) = k
  <2> DEFINE m == k - 1
  <2>1. m \in Nat /\ m + 1 = k
    BY <1>1
  <2> HIDE DEF m
  <2>2. 1 .. k \in SUBSET (1 .. m + 1) /\ m + 1 \in 1 .. k
    BY <1>1, <2>1
  <2> QED
    BY <1>2, <2>1, <2>2, MaxUpTo
<1> QED
  BY <1>2, <1>3

\* The numbers of a sequence of numbers, summed up: the sum bounds each.
LEMMA SumBounds ==
  ASSUME NEW n \in Nat, NEW s \in [1 .. n -> Nat]
  PROVE  /\ FoldLeft(+, 0, s) \in Nat
         /\ \A i \in 1 .. n : s[i] <= FoldLeft(+, 0, s)
<1> DEFINE Step(it) == [S \in SUBSET (1 .. n) |->
                          IF S = {} THEN 0 ELSE it[S \ {Max(S)}] + s[Max(S)]]
           iter == CHOOSE it : it = Step(it)
           h == [i \in 1 .. n |-> [r \in Nat |-> r + s[i]]]
<1>1. FoldLeft(+, 0, s) = iter[1 .. n]
  BY DEF FoldLeft, MapThenFoldSet
<1>2. PICK it \in Folds(n, Nat, 0, h) : TRUE
  <2>1. h \in [1 .. n -> [Nat -> Nat]]
    <3>1. \A i \in 1 .. n : \A r \in Nat : r + s[i] \in Nat
      OBVIOUS
    <3> QED
      BY <3>1
  <2> HIDE DEF h, Step, iter
  <2>2. Folds(n, Nat, 0, h) # {}
    BY <2>1, FoldsExist, 0 \in Nat
  <2> QED
    BY <2>2
<1>3. it = Step(it)
  <2>1. ASSUME NEW S \in SUBSET (1 .. n)
        PROVE  it[S] = IF S = {} THEN 0 ELSE it[S \ {Max(S)}] + s[Max(S)]
    <3>1. it[S] = IF S = {} THEN 0 ELSE h[Max(S)][it[S \ {Max(S)}]]
      BY <1>2 DEF Folds
    <3>2. ASSUME S # {}
          PROVE  h[Max(S)][it[S \ {Max(S)}]] = it[S \ {Max(S)}] + s[Max(S)]
      <4>1. Max(S) \in 1 .. n
        <5>1. S \subseteq 1 .. n + 1 /\ S # {}
          BY <3>2
        <5> QED
          BY <5>1, MaxUpTo
      <4>2. it[S \ {Max(S)}] \in Nat
        BY <1>2 DEF Folds
      <4> QED
        BY <4>1, <4>2
    <3> HIDE DEF h
    <3> QED
      BY <3>1, <3>2
  <2>2. it = [S \in SUBSET (1 .. n) |-> it[S]]
    BY <1>2 DEF Folds
  <2> QED
    BY <2>1, <2>2, Zenon
<1>4. iter = Step(iter)
  <2> HIDE DEF Step
  <2> QED BY <1>3
<1> HIDE DEF iter
<1>5. ASSUME NEW S \in SUBSET (1 .. n)
      PROVE  iter[S] = IF S = {} THEN 0 ELSE iter[S \ {Max(S)}] + s[Max(S)]
  <2>1. Step(iter)[S] = IF S = {} THEN 0 ELSE iter[S \ {Max(S)}] + s[Max(S)]
    OBVIOUS
  <2> HIDE DEF Step
  <2> QED BY <1>4, <2>1
<1> HIDE DEF Step
<1> DEFINE P == {k \in 0 .. n : iter[1 .. k] \in Nat /\ \A i \in 1 .. k : s[i] <= iter[1 .. k]}
<1>6. 0 \in P
  <2>1. 1 .. 0 = {} /\ {} \in SUBSET (1 .. n) /\ 0 \in 0 .. n
    OBVIOUS
  <2>2. iter[{}] = 0
    BY <1>5
  <2> QED
    BY <2>1, <2>2
<1>7. ASSUME NEW m \in 0 .. n - 1, m \in P
      PROVE  m + 1 \in P
  <2> DEFINE k == m + 1
  <2>1. k \in 1 .. n /\ k \in 0 .. n /\ k - 1 = m
    OBVIOUS
  <2> HIDE DEF k
  <2>2. iter[1 .. k] = iter[1 .. m] + s[k]
    BY <1>5, <2>1, PrefixTop
  <2>3. s[k] \in Nat /\ iter[1 .. m] \in Nat /\ \A i \in 1 .. m : s[i] <= iter[1 .. m]
    BY <1>7, <2>1
  <2>0. \A a, b, c \in Nat : b <= a + b /\ (c <= a => c <= a + b)
    OBVIOUS
  <2>4. \A i \in 1 .. k : i = k \/ i \in 1 .. m
    BY <2>1
  <2>5. ASSUME NEW i \in 1 .. k
        PROVE  s[i] <= iter[1 .. k]
    <3>1. CASE i = k
      BY <2>0, <2>2, <2>3, <3>1
    <3>2. CASE i # k
      <4>1. i \in 1 .. m /\ i \in 1 .. n
        BY <2>1, <2>4, <3>2
      <4>2. s[i] \in Nat /\ s[i] <= iter[1 .. m]
        BY <2>3, <4>1
      <4> QED
        BY <2>0, <2>2, <2>3, <4>2
    <3> QED
      BY <3>1, <3>2
  <2>6. iter[1 .. k] \in Nat
    BY <2>2, <2>3
  <2>7. k \in P
    BY <2>1, <2>5, <2>6
  <2> QED
    BY <2>7 DEF k
<1>8. n \in P
  <2>1. \A m \in 0 .. n : m \in P
    <3> HIDE DEF P
    <3> QED BY <1>6, <1>7, InductionUpTo
  <2>2. n \in 0 .. n
    OBVIOUS
  <2> HIDE DEF P
  <2> QED BY <2>1, <2>2
<1> QED
  BY <1>1, <1>8

=============================================================================
