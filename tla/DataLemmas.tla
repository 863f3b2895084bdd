----------------------------- MODULE DataLemmas -----------------------------
(* Greatest and least numbers of a set, and from them induction over a set of *)
(* naturals, which the proofs about the components' data use.  They all come  *)
(* from the fact that finite sets cannot shrink for ever.  With induction,    *)
(* the recursive functions under FoldLeft and FlattenSeq exist.               *)
EXTENDS FiniteSetTheorems, SequencesExt, SequenceTheorems, TLAPS

\* The last of finitely many positions.
LEMMA GreatestExists ==
  ASSUME NEW n \in Nat, NEW T \in SUBSET (0..n), T # {}
  PROVE  \E m \in T : \A x \in T : x <= m
<1> DEFINE From(m) == {y \in T : m <= y}
<1> DEFINE U == {From(m) : m \in T}
<1> DEFINE R == StrictSubsetOrdering(0..n)
<1>1. IsWellFoundedOn(R, FiniteSubsetsOf(0..n))
  BY FS_StrictSubsetOrderingWellFounded
<1>2. U \subseteq FiniteSubsetsOf(0..n) /\ U # {}
  <2>1. IsFiniteSet(0..n)
    BY FS_Interval
  <2>2. \A A \in SUBSET (0..n) : IsFiniteSet(A)
    BY <2>1, FS_Subset
  <2>3. QED
    BY <2>2 DEF FiniteSubsetsOf
<1>3. PICK A \in U : \A B \in U : <<B, A>> \notin R
  <2> HIDE DEF U, R
  <2>1. QED
    BY <1>1, <1>2, WFMin
<1>4. PICK m \in T : A = From(m)
  BY <1>3
<1>5. ASSUME NEW x \in T, m < x PROVE FALSE
  <2>0. \A y \in T : y \in Nat
    OBVIOUS
  <2>1. From(x) \in U
    OBVIOUS
  <2>2. From(x) \subseteq From(m) /\ m \in From(m) /\ m \notin From(x)
    <3>1. m \in Nat /\ x \in Nat /\ m <= m /\ ~(x <= m)
      BY <1>5, <2>0
    <3>2. \A y \in Nat : x <= y => m <= y
      BY <1>5, <3>1
    <3>3. QED
      BY <2>0, <3>1, <3>2
  <2>3. <<From(x), A>> \in R
    BY <1>4, <2>2 DEF StrictSubsetOrdering
  <2>4. QED
    BY <1>3, <2>1, <2>3
<1>6. QED
  BY <1>5

LEMMA LeastExists ==
  ASSUME NEW T \in SUBSET Nat, T # {}
  PROVE  \E m \in T : \A x \in T : m <= x
<1>1. PICK n \in T : TRUE
  OBVIOUS
<1> DEFINE D == {d \in 0..n : n - d \in T}
<1>2. D \in SUBSET (0..n) /\ 0 \in D
  BY <1>1
<1>3. PICK d \in D : \A x \in D : x <= d
  <2> HIDE DEF D
  <2>1. QED
    BY <1>1, <1>2, GreatestExists
<1>4. n - d \in T /\ n - d <= n
  BY <1>3
<1>5. ASSUME NEW x \in T, x < n - d PROVE FALSE
  <2>1. n - x \in D
    BY <1>1, <1>4, <1>5
  <2>2. QED
    BY <1>1, <1>3, <1>5, <2>1
<1>6. QED
  BY <1>4, <1>5

\* Induction, over the set of the numbers of which something holds.
LEMMA Induction ==
  ASSUME NEW S, 0 \in S, \A n \in Nat : n \in S => n + 1 \in S
  PROVE  Nat \subseteq S
<1> DEFINE T == Nat \ S
<1>1. SUFFICES ASSUME T # {} PROVE FALSE
  OBVIOUS
<1>2. PICK m \in T : \A x \in T : m <= x
  BY <1>1, LeastExists
<1>3. m # 0 /\ m - 1 \in Nat /\ m - 1 \notin T
  BY <1>2
<1>4. QED
  BY <1>2, <1>3

------------------------------------------------------------------------------
\* FoldLeft and FlattenSeq.

LEMMA MaxOfUpTo ==
  ASSUME NEW n \in Nat \ {0}
  PROVE  Max(1..n) = n /\ (1..n) \ {n} = 1..(n - 1)
<1>1. n \in 1..n /\ \A y \in 1..n : n >= y
  OBVIOUS
<1>2. \A x \in 1..n : (\A y \in 1..n : x >= y) => x = n
  BY <1>1
<1>3. QED
  BY <1>1, <1>2 DEF Max

LEMMA MaxInSet ==
  ASSUME NEW n \in Nat, NEW s \in SUBSET (1..n), s # {}
  PROVE  Max(s) \in s /\ \A y \in s : Max(s) >= y
<1>1. s \in SUBSET (0..n)
  OBVIOUS
<1>2. PICK m \in s : \A y \in s : y <= m
  BY <1>1, GreatestExists
<1>3. \A y \in s : m >= y
  BY <1>2
<1>4. QED
  BY <1>3 DEF Max

\* g folds 1..n from left to right, within X.
IsFold(g, X, n, base, step) ==
  /\ \A s \in SUBSET (1..n) : g[s] \in X
  /\ g = [s \in SUBSET (1..n) |->
            IF s = {} THEN base ELSE step[<<g[s \ {Max(s)}], Max(s)>>]]

\* The function that a fold over 1..n is defined by, if its step is one.
LEMMA IterExists ==
  ASSUME NEW n \in Nat, NEW X, NEW base \in X, NEW step,
         \A x \in X, k \in 1..n : step[<<x, k>>] \in X
  PROVE  \E g : IsFold(g, X, n, base, step)
<1> DEFINE IsIter(g, k) ==
      \A s \in SUBSET (1..k) :
        g[s] = IF s = {} THEN base ELSE step[<<g[s \ {Max(s)}], Max(s)>>]
<1> DEFINE Has(k) == \E g \in [SUBSET (1..k) -> X] : IsIter(g, k)
<1> DEFINE K == {k \in Nat : k <= n => Has(k)}
<1>1. 0 \in K
  <2> DEFINE g == [s \in SUBSET (1..0) |-> base]
  <2>1. g \in [SUBSET (1..0) -> X] /\ IsIter(g, 0)
    OBVIOUS
  <2>2. QED
    BY <2>1
<1>2. ASSUME NEW k \in Nat, k \in K PROVE k + 1 \in K
  <2>1. SUFFICES ASSUME k + 1 <= n
                 PROVE  Has(k + 1)
    <3> HIDE DEF Has
    <3>1. QED
      OBVIOUS
  <2>2. PICK g \in [SUBSET (1..k) -> X] : IsIter(g, k)
    <3>1. Has(k)
      <4> HIDE DEF Has
      <4>1. QED
        BY <1>2, <2>1
    <3>2. QED
      BY <3>1
  <2> DEFINE h == [s \in SUBSET (1..(k + 1)) |->
                     IF k + 1 \in s THEN step[<<g[s \ {k + 1}], k + 1>>] ELSE g[s]]
  <2>3. \A s \in SUBSET (1..(k + 1)) :
          /\ s \ {k + 1} \in SUBSET (1..k)
          /\ k + 1 \notin s => s \in SUBSET (1..k)
          /\ k + 1 \in s => Max(s) = k + 1
    <3>1. ASSUME NEW s \in SUBSET (1..(k + 1)), k + 1 \in s PROVE Max(s) = k + 1
      <4>1. k + 1 \in Nat /\ s # {}
        BY <3>1
      <4>2. Max(s) \in s /\ \A y \in s : Max(s) >= y
        BY <4>1, MaxInSet, Zenon
      <4>3. Max(s) \in 1..(k + 1) /\ Max(s) >= k + 1
        BY <3>1, <4>2
      <4>4. QED
        BY <4>3
    <3>2. QED
      BY <3>1
  <2>4. h \in [SUBSET (1..(k + 1)) -> X]
    <3>1. k + 1 \in 1..n
      BY <2>1
    <3>2. QED
      BY <2>3, <3>1
  <2>5. ASSUME NEW s \in SUBSET (1..(k + 1))
        PROVE  h[s] = IF s = {} THEN base ELSE step[<<h[s \ {Max(s)}], Max(s)>>]
    <3>1. CASE k + 1 \in s
      <4>1. h[s \ {k + 1}] = g[s \ {k + 1}]
        OBVIOUS
      <4>2. QED
        BY <2>3, <3>1, <4>1
    <3>2. CASE k + 1 \notin s
      <4>1. s \in SUBSET (1..k) /\ s \ {Max(s)} \in SUBSET (1..k)
        BY <2>3, <3>2
      <4>2. h[s] = g[s] /\ h[s \ {Max(s)}] = g[s \ {Max(s)}]
        BY <3>2, <4>1
      <4>3. QED
        BY <2>2, <4>1, <4>2
    <3>3. QED
      BY <3>1, <3>2
  <2>6. QED
    BY <2>4, <2>5
<1>3. n \in K
  <2> HIDE DEF K
  <2>1. QED
    BY <1>1, <1>2, Induction
<1>4. PICK g \in [SUBSET (1..n) -> X] : IsIter(g, n)
  <2>1. Has(n)
    <3> HIDE DEF Has
    <3>1. QED
      BY <1>3
  <2>2. QED
    BY <2>1
<1>5. QED
  BY <1>4 DEF IsFold

\* FlattenSeq by the prefixes of its result.
LEMMA FlattenPrefixes ==
  ASSUME NEW S, NEW n \in Nat, NEW s \in [1..n -> Seq(S)]
  PROVE  \E L \in [0..n -> Seq(S)] : /\ L[0] = <<>>
                                     /\ \A k \in 1..n : L[k] = L[k - 1] \o s[k]
                                     /\ L[n] = FlattenSeq(s)
<1> DEFINE IsPrefixes(L, m) ==
      L[0] = <<>> /\ \A k \in 1..m : L[k] = L[k - 1] \o s[k]
<1> DEFINE Has(m) == \E L \in [0..m -> Seq(S)] : IsPrefixes(L, m)
<1> DEFINE K == {m \in Nat : m <= n => Has(m)}
<1>1. 0 \in K
  <2> DEFINE L == [i \in 0..0 |-> <<>>]
  <2>1. L \in [0..0 -> Seq(S)] /\ IsPrefixes(L, 0)
    OBVIOUS
  <2>2. QED
    BY <2>1
<1>2. ASSUME NEW m \in Nat, m \in K PROVE m + 1 \in K
  <2>1. SUFFICES ASSUME m + 1 <= n
                 PROVE  Has(m + 1)
    <3> HIDE DEF Has
    <3>1. QED
      OBVIOUS
  <2>2. PICK L \in [0..m -> Seq(S)] : IsPrefixes(L, m)
    <3>1. Has(m)
      <4> HIDE DEF Has
      <4>1. QED
        BY <1>2, <2>1
    <3>2. QED
      BY <3>1
  <2> DEFINE M == [i \in 0..(m + 1) |-> IF i <= m THEN L[i] ELSE L[m] \o s[m + 1]]
  <2>3. s[m + 1] \in Seq(S) /\ L[m] \in Seq(S)
    BY <2>1
  <2>4. L[m] \o s[m + 1] \in Seq(S)
    BY <2>3
  <2>5. M \in [0..(m + 1) -> Seq(S)]
    BY <2>4
  <2>6. IsPrefixes(M, m + 1)
    <3>1. M[0] = <<>>
      BY <2>2
    <3>2. ASSUME NEW k \in 1..(m + 1) PROVE M[k] = M[k - 1] \o s[k]
      <4>1. k - 1 \in 0..m /\ M[k - 1] = L[k - 1]
        OBVIOUS
      <4>2. CASE k = m + 1
        <5>1. k - 1 = m /\ M[k] = L[m] \o s[m + 1]
          BY <4>2
        <5>2. QED
          BY <4>1, <4>2, <5>1
      <4>3. CASE k # m + 1
        <5>1. k \in 1..m
          BY <4>3
        <5>2. M[k] = L[k]
          BY <5>1
        <5>3. L[k] = L[k - 1] \o s[k]
          BY <2>2, <5>1
        <5> HIDE DEF M
        <5>4. QED
          BY <4>1, <5>2, <5>3
      <4>4. QED
        BY <4>2, <4>3
    <3>3. QED
      BY <3>1, <3>2
  <2>7. QED
    BY <2>5, <2>6
<1>3. n \in K
  <2> HIDE DEF K
  <2>1. QED
    BY <1>1, <1>2, Induction
<1>4. PICK L \in [0..n -> Seq(S)] : IsPrefixes(L, n)
  <2>1. Has(n)
    <3> HIDE DEF Has
    <3>1. QED
      BY <1>3
  <2>2. QED
    BY <2>1
<1>5. L[n] = FlattenSeq(s)
  <2>1. Len(s) = n
    OBVIOUS
  <2>2. CASE n = 0
    BY <1>4, <2>1, <2>2 DEF FlattenSeq
  <2>3. CASE n # 0
    <3> DEFINE Eq(f) == f = [i \in 1..Len(s) |-> IF i = 1 THEN s[i] ELSE f[i - 1] \o s[i]]
    <3> DEFINE f == CHOOSE f : Eq(f)
    <3>1. Eq([i \in 1..n |-> L[i]])
      <4>1. 1 \in 1..n /\ 1 - 1 = 0 /\ s[1] \in Seq(S)
        BY <2>3
      <4>2. L[1] = L[0] \o s[1] /\ L[0] = <<>>
        BY <1>4, <4>1
      <4>3. L[1] = s[1]
        BY <4>1, <4>2
      <4>4. \A i \in 1..n : i # 1 => i - 1 \in 1..n
        OBVIOUS
      <4>5. \A i \in 1..n : L[i] = L[i - 1] \o s[i]
        BY <1>4
      <4> HIDE DEF IsPrefixes
      <4>6. QED
        BY <2>1, <4>3, <4>4, <4>5
    <3>2. Eq(f)
      BY <3>1
    <3>3. FlattenSeq(s) = f[n]
      BY <2>1, <2>3 DEF FlattenSeq
    <3> DEFINE J == {k \in Nat : k + 1 <= n => f[k + 1] = L[k + 1]}
    <3> HIDE DEF f
    <3>a. \A i \in 1..n : f[i] = IF i = 1 THEN s[i] ELSE f[i - 1] \o s[i]
      BY <2>1, <3>2
    <3>b. \A i \in 1..n : L[i] = IF i = 1 THEN s[i] ELSE L[i - 1] \o s[i]
      <4>1. ASSUME NEW i \in 1..n
            PROVE  L[i] = IF i = 1 THEN s[i] ELSE L[i - 1] \o s[i]
        <5>1. L[i] = L[i - 1] \o s[i] /\ L[0] = <<>> /\ s[i] \in Seq(S)
          BY <1>4
        <5>2. CASE i = 1
          <6>1. i - 1 = 0
            BY <5>2
          <6>2. L[i] = <<>> \o s[i]
            BY <5>1, <6>1
          <6>3. QED
            BY <5>1, <5>2, <6>2
        <5>3. CASE i # 1
          BY <5>1, <5>3
        <5>4. QED
          BY <5>2, <5>3
      <4>2. QED
        BY <4>1
    <3> HIDE DEF Eq, IsPrefixes
    <3>4. 0 \in J
      BY <2>3, <3>a, <3>b
    <3>5. ASSUME NEW k \in Nat, k \in J PROVE k + 1 \in J
      <4>1. SUFFICES ASSUME k + 2 <= n PROVE f[k + 2] = L[k + 2]
        OBVIOUS
      <4>2. k + 2 \in 1..n /\ k + 2 # 1 /\ (k + 2) - 1 = k + 1 /\ f[k + 1] = L[k + 1]
        BY <3>5, <4>1
      <4>3. QED
        BY <3>a, <3>b, <4>2
    <3>6. n - 1 \in J
      <4> HIDE DEF J
      <4>1. Nat \subseteq J
        BY <3>4, <3>5, Induction
      <4>2. QED
        BY <2>3, <4>1
    <3>7. QED
      BY <2>3, <3>3, <3>6
  <2>4. QED
    BY <2>2, <2>3
<1>6. QED
  BY <1>4, <1>5

\* The elements of s[k] are in t from position at[k - 1] + 1 on.
Places(at, t, n, s) ==
  /\ at \in [0..n -> Nat]
  /\ \A k \in 1..n :
       /\ at[k] = at[k - 1] + Len(s[k]) /\ at[k] <= at[n]
       /\ \A i \in 1..Len(s[k]) : t[at[k - 1] + i] = s[k][i]

LEMMA FlattenPlaces ==
  ASSUME NEW S, NEW n \in Nat, NEW s \in [1..n -> Seq(S)]
  PROVE  /\ FlattenSeq(s) \in Seq(S)
         /\ \E at : /\ Places(at, FlattenSeq(s), n, s)
                    /\ at[0] = 0 /\ at[n] = Len(FlattenSeq(s))
<1>1. PICK L \in [0..n -> Seq(S)] : /\ L[0] = <<>>
                                    /\ \A k \in 1..n : L[k] = L[k - 1] \o s[k]
                                    /\ L[n] = FlattenSeq(s)
  BY FlattenPrefixes
<1> DEFINE at == [k \in 0..n |-> Len(L[k])]
<1>2. at \in [0..n -> Nat] /\ at[0] = 0 /\ at[n] = Len(FlattenSeq(s))
  BY <1>1
<1>3. ASSUME NEW k \in 1..n
      PROVE  /\ at[k] = at[k - 1] + Len(s[k])
             /\ \A i \in 1..at[k - 1] : L[k][i] = L[k - 1][i]
             /\ \A i \in 1..Len(s[k]) : L[k][at[k - 1] + i] = s[k][i]
  <2>1. /\ k \in 0..n /\ k - 1 \in 0..n
        /\ L[k] = L[k - 1] \o s[k] /\ L[k - 1] \in Seq(S) /\ s[k] \in Seq(S)
    <3>1. k \in 0..n /\ k - 1 \in 0..n
      OBVIOUS
    <3>2. QED
      BY <1>1, <3>1
  <2>2. at[k] = Len(L[k]) /\ at[k - 1] = Len(L[k - 1])
    BY <2>1
  <2> HIDE DEF at
  <2>3. QED
    BY <2>1, <2>2
<1> DEFINE Within(k) == at[k] <= at[n] /\ \A i \in 1..at[k] : L[n][i] = L[k][i]
<1> DEFINE K == {d \in Nat : d <= n => Within(n - d)}
<1> HIDE DEF at
<1>4. 0 \in K
  BY <1>2
<1>5. ASSUME NEW d \in Nat, d \in K PROVE d + 1 \in K
  <2>1. SUFFICES ASSUME d + 1 <= n PROVE Within(n - (d + 1))
    OBVIOUS
  <2> DEFINE k == n - d
  <2>2. k \in 1..n /\ k - 1 = n - (d + 1) /\ Within(k)
    BY <1>5, <2>1
  <2>3. s[k] \in Seq(S) /\ Len(s[k]) \in Nat /\ at[k] \in Nat /\ at[k - 1] \in Nat /\ at[n] \in Nat
    BY <1>2, <2>2
  <2> HIDE DEF k
  <2>4. at[k - 1] <= at[k]
    BY <1>3, <2>2, <2>3
  <2>5. Within(k - 1)
    <3>1. at[k - 1] <= at[n] /\ at[k] <= at[n]
      BY <2>2, <2>3, <2>4
    <3>2. ASSUME NEW i \in 1..at[k - 1] PROVE L[n][i] = L[k - 1][i]
      <4>1. i \in 1..at[k]
        BY <2>3, <2>4
      <4>2. L[n][i] = L[k][i]
        BY <2>2, <4>1
      <4>3. QED
        BY <1>3, <2>2, <4>2
    <3>3. QED
      BY <3>1, <3>2
  <2>6. QED
    BY <2>2, <2>5
<1>6. \A k \in 0..n : Within(k)
  <2>1. Nat \subseteq K
    <3> HIDE DEF K
    <3>1. QED
      BY <1>4, <1>5, Induction
  <2>2. ASSUME NEW k \in 0..n PROVE Within(k)
    <3>1. n - k \in Nat /\ n - k <= n /\ n - (n - k) = k
      OBVIOUS
    <3> HIDE DEF Within
    <3>2. QED
      BY <2>1, <3>1
  <2>3. QED
    BY <2>2
<1>7. ASSUME NEW k \in 1..n, NEW i \in 1..Len(s[k])
      PROVE  FlattenSeq(s)[at[k - 1] + i] = s[k][i]
  <2>1. Within(k) /\ at[k] = at[k - 1] + Len(s[k])
    BY <1>3, <1>6
  <2>2. at[k - 1] \in Nat /\ Len(s[k]) \in Nat
    BY <1>2
  <2>3. at[k - 1] + i \in 1..at[k]
    BY <2>1, <2>2, SMTT(30)
  <2>4. QED
    BY <1>1, <1>3, <2>1, <2>3
<1>8. \A k \in 1..n : at[k] <= at[n]
  BY <1>6
<1>9. FlattenSeq(s) \in Seq(S)
  BY <1>1
<1>10. QED
  BY <1>2, <1>3, <1>7, <1>8, <1>9 DEF Places

\* A sequence appended to those that are flattened comes behind them.
LEMMA FlattenAppend ==
  ASSUME NEW S, NEW n \in Nat, NEW s \in [1..n -> Seq(S)],
         NEW u \in [1..(n + 1) -> Seq(S)], \A k \in 1..n : u[k] = s[k]
  PROVE  FlattenSeq(u) = FlattenSeq(s) \o u[n + 1]
<1>1. PICK L \in [0..n -> Seq(S)] : /\ L[0] = <<>>
                                    /\ \A k \in 1..n : L[k] = L[k - 1] \o s[k]
                                    /\ L[n] = FlattenSeq(s)
  BY FlattenPrefixes
<1>2. n + 1 \in Nat
  OBVIOUS
<1>3. PICK M \in [0..(n + 1) -> Seq(S)] :
        /\ M[0] = <<>>
        /\ \A k \in 1..(n + 1) : M[k] = M[k - 1] \o u[k]
        /\ M[n + 1] = FlattenSeq(u)
  BY <1>2, FlattenPrefixes
<1> DEFINE J == {k \in Nat : k <= n => M[k] = L[k]}
<1>4. 0 \in J
  BY <1>1, <1>3
<1>5. ASSUME NEW k \in Nat, k \in J PROVE k + 1 \in J
  <2>1. SUFFICES ASSUME k + 1 <= n PROVE M[k + 1] = L[k + 1]
    OBVIOUS
  <2>2. /\ k + 1 \in 1..n /\ k + 1 \in 1..(n + 1) /\ (k + 1) - 1 = k
        /\ M[k] = L[k]
    BY <1>5, <2>1
  <2>3. M[k + 1] = M[k] \o u[k + 1] /\ L[k + 1] = L[k] \o s[k + 1]
    BY <1>1, <1>3, <2>2
  <2>4. QED
    BY <2>2, <2>3
<1>6. n \in J
  <2> HIDE DEF J
  <2>1. QED
    BY <1>4, <1>5, Induction
<1>7. M[n + 1] = M[n] \o u[n + 1]
  <2>1. n + 1 \in 1..(n + 1) /\ (n + 1) - 1 = n
    OBVIOUS
  <2>2. QED
    BY <1>3, <2>1
<1>8. M[n] = L[n]
  BY <1>6
<1> HIDE DEF J
<1>9. QED
  BY <1>1, <1>3, <1>7, <1>8

\* An element behind position at[h] is one of those behind s[h].
IsBehind(t, p, n, s, at, h) ==
  \E m \in (h + 1)..n : \E q \in 1..Len(s[m]) :
    p = at[m - 1] + q /\ t[p] = s[m][q]

LEMMA PlaceBehind ==
  ASSUME NEW S, NEW n \in Nat, NEW s \in [1..n -> Seq(S)], NEW t \in Seq(S),
         NEW at, Places(at, t, n, s), at[n] = Len(t),
         NEW h \in 0..n, NEW p \in DOMAIN t, at[h] < p
  PROVE  IsBehind(t, p, n, s, at, h)
<1>1. /\ at \in [0..n -> Nat] /\ DOMAIN t = 1..at[n] /\ at[n] \in Nat
      /\ \A m \in 1..n : /\ Len(s[m]) \in Nat
                         /\ at[m] = at[m - 1] + Len(s[m])
                         /\ \A i \in 1..Len(s[m]) : t[at[m - 1] + i] = s[m][i]
  BY DEF Places
<1> DEFINE G == {g \in 0..n : at[g] < p}
<1>2. p \in Nat /\ p <= at[n] /\ h \in G
  BY <1>1
<1>3. PICK g \in G : \A x \in G : x <= g
  <2>1. G \in SUBSET (0..n) /\ G # {}
    BY <1>2
  <2> HIDE DEF G
  <2>2. QED
    BY <2>1, GreatestExists
<1>4. g \in 0..n /\ at[g] < p /\ g \in Nat /\ at[g] \in Nat
  BY <1>1, <1>3
<1>5. h <= g
  <2> HIDE DEF G
  <2>1. QED
    BY <1>2, <1>3
<1>6. g # n
  BY <1>1, <1>2, <1>4
<1>7. g + 1 \in 1..n /\ (g + 1) - 1 = g /\ g + 1 \in (h + 1)..n
  BY <1>4, <1>5, <1>6
<1>8. ~(at[g + 1] < p)
  <2>1. g + 1 \in 0..n /\ ~(g + 1 <= g)
    BY <1>4, <1>7
  <2>2. g + 1 \notin G
    <3> HIDE DEF G
    <3>1. QED
      BY <1>3, <2>1
  <2>3. QED
    BY <2>1, <2>2
<1>9. /\ at[g + 1] = at[g] + Len(s[g + 1]) /\ Len(s[g + 1]) \in Nat
      /\ \A i \in 1..Len(s[g + 1]) : t[at[g] + i] = s[g + 1][i]
  BY <1>1, <1>7
<1> DEFINE q == p - at[g]
<1>10. q \in 1..Len(s[g + 1]) /\ at[g] + q = p
  BY <1>2, <1>4, <1>8, <1>9
<1> HIDE DEF q
<1>11. QED
  BY <1>7, <1>9, <1>10 DEF IsBehind

IsAmong(x, n, s) == \E m \in 1..n : \E q \in 1..Len(s[m]) : x = s[m][q]

LEMMA FlattenElement ==
  ASSUME NEW S, NEW n \in Nat, NEW s \in [1..n -> Seq(S)],
         NEW p \in DOMAIN FlattenSeq(s)
  PROVE  IsAmong(FlattenSeq(s)[p], n, s)
<1> DEFINE t == FlattenSeq(s)
<1>1. PICK at : Places(at, t, n, s) /\ at[0] = 0 /\ at[n] = Len(t)
  BY FlattenPlaces
<1>2. t \in Seq(S) /\ 0 \in 0..n
  BY FlattenPlaces
<1> HIDE DEF t
<1>3. at[0] < p /\ p \in DOMAIN t
  BY <1>1, <1>2 DEF t
<1>4. IsBehind(t, p, n, s, at, 0)
  BY <1>1, <1>2, <1>3, PlaceBehind, Zenon
<1>5. QED
  BY <1>4 DEF IsBehind, IsAmong, t

\* Where element j of s[k] is, and that what is behind it comes from behind it.
IsFrom(t, p0, n, s, k, j) ==
  /\ t[p0] = s[k][j]
  /\ \A p \in DOMAIN t : p0 <= p =>
       \E m \in k..n : \E q \in 1..Len(s[m]) : t[p] = s[m][q] /\ (m > k \/ q >= j)

LEMMA FlattenFrom ==
  ASSUME NEW S, NEW n \in Nat, NEW s \in [1..n -> Seq(S)],
         NEW k \in 1..n, NEW j \in 1..Len(s[k])
  PROVE  \E p0 \in DOMAIN FlattenSeq(s) : IsFrom(FlattenSeq(s), p0, n, s, k, j)
<1> DEFINE t == FlattenSeq(s)
<1>1. PICK at : Places(at, t, n, s) /\ at[0] = 0 /\ at[n] = Len(t)
  BY FlattenPlaces
<1>2. t \in Seq(S)
  BY FlattenPlaces
<1> HIDE DEF t
<1> DEFINE p0 == at[k - 1] + j
<1>3. /\ at[k - 1] \in Nat /\ at[k] \in Nat /\ at[n] \in Nat
      /\ at[k] = at[k - 1] + Len(s[k]) /\ at[k] <= at[n] /\ Len(s[k]) \in Nat
      /\ DOMAIN t = 1..at[n] /\ t[at[k - 1] + j] = s[k][j]
      /\ k - 1 \in 0..n /\ (k - 1) + 1 = k
  BY <1>1, <1>2 DEF Places
<1>4. p0 \in DOMAIN t /\ t[p0] = s[k][j] /\ at[k - 1] < p0
  BY <1>3
<1>5. ASSUME NEW p \in DOMAIN t, p0 <= p
      PROVE  \E m \in k..n : \E q \in 1..Len(s[m]) :
               t[p] = s[m][q] /\ (m > k \/ q >= j)
  <2>1. at[k - 1] < p
    BY <1>3, <1>5
  <2>2. IsBehind(t, p, n, s, at, k - 1)
    BY <1>1, <1>2, <1>3, <2>1, PlaceBehind, Zenon
  <2>3. PICK m \in ((k - 1) + 1)..n : \E q \in 1..Len(s[m]) :
          p = at[m - 1] + q /\ t[p] = s[m][q]
    BY <2>2 DEF IsBehind
  <2>4. PICK q \in 1..Len(s[m]) : p = at[m - 1] + q /\ t[p] = s[m][q]
    BY <2>3
  <2>5. m \in k..n /\ (m > k \/ m = k)
    BY <1>3
  <2>6. m = k => q >= j
    BY <1>3, <1>5, <2>4
  <2>7. QED
    BY <2>4, <2>5, <2>6
<1> HIDE DEF p0
<1>6. IsFrom(t, p0, n, s, k, j)
  BY <1>4, <1>5 DEF IsFrom
<1>7. QED
  BY <1>4, <1>6 DEF t

\* Of two elements the first comes from before the second.
IsOrdered(t, p, p2, n, s) ==
  \E m \in 1..n : \E m2 \in m..n :
    \E q \in 1..Len(s[m]) : \E q2 \in 1..Len(s[m2]) :
      t[p] = s[m][q] /\ t[p2] = s[m2][q2] /\ (m < m2 \/ q <= q2)

LEMMA FlattenOrdered ==
  ASSUME NEW S, NEW n \in Nat, NEW s \in [1..n -> Seq(S)],
         NEW p \in DOMAIN FlattenSeq(s), NEW p2 \in DOMAIN FlattenSeq(s), p <= p2
  PROVE  IsOrdered(FlattenSeq(s), p, p2, n, s)
<1> DEFINE t == FlattenSeq(s)
<1>1. PICK at : Places(at, t, n, s) /\ at[0] = 0 /\ at[n] = Len(t)
  BY FlattenPlaces
<1>2. t \in Seq(S) /\ 0 \in 0..n
  BY FlattenPlaces
<1> HIDE DEF t
<1>3. /\ at[0] < p /\ p \in DOMAIN t /\ p2 \in DOMAIN t /\ p \in Nat /\ p2 \in Nat
  BY <1>1, <1>2 DEF t
<1>4. IsBehind(t, p, n, s, at, 0)
  BY <1>1, <1>2, <1>3, PlaceBehind, Zenon
<1>5. PICK m \in 1..n : \E q \in 1..Len(s[m]) : p = at[m - 1] + q /\ t[p] = s[m][q]
  BY <1>4 DEF IsBehind
<1>6. PICK q \in 1..Len(s[m]) : p = at[m - 1] + q /\ t[p] = s[m][q]
  BY <1>5
<1>7. m - 1 \in 0..n /\ (m - 1) + 1 = m /\ at[m - 1] \in Nat /\ at[m - 1] < p2
  <2>1. m - 1 \in 0..n /\ (m - 1) + 1 = m
    OBVIOUS
  <2>2. at[m - 1] \in Nat
    BY <1>1, <2>1 DEF Places
  <2>3. QED
    BY <1>3, <1>6, <2>1, <2>2
<1>8. IsBehind(t, p2, n, s, at, m - 1)
  BY <1>1, <1>2, <1>3, <1>7, PlaceBehind, Zenon
<1>9. PICK m2 \in m..n : \E q2 \in 1..Len(s[m2]) :
        p2 = at[m2 - 1] + q2 /\ t[p2] = s[m2][q2]
  BY <1>7, <1>8 DEF IsBehind
<1>10. PICK q2 \in 1..Len(s[m2]) : p2 = at[m2 - 1] + q2 /\ t[p2] = s[m2][q2]
  BY <1>9
<1>11. m < m2 \/ q <= q2
  <2>1. m = m2 => q <= q2
    BY <1>3, <1>6, <1>7, <1>10
  <2>2. QED
    BY <2>1
<1>12. QED
  BY <1>6, <1>10, <1>11 DEF IsOrdered, t

LEMMA SetToSeqType ==
  ASSUME NEW S, IsFiniteSet(S)
  PROVE  SetToSeq(S) \in Seq(S)
<1>1. Cardinality(S) \in Nat /\ ExistsBijection(1..Cardinality(S), S)
  BY FS_CardinalityType
<1>2. \E f \in [1..Cardinality(S) -> S] : IsInjective(f)
  BY <1>1 DEF ExistsBijection, Bijection, Injection
<1>3. SetToSeq(S) \in [1..Cardinality(S) -> S]
  BY <1>2 DEF SetToSeq
<1>4. QED
  BY <1>1, <1>3

==============================================================================
