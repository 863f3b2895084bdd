----------------------- MODULE RowChangeTargetProofs -----------------------
(* What becomes of a change in the Postgres target: the parameters of a      *)
(* delete, whether an upsert can be prepared, and the rows afterwards.       *)
EXTENDS RowChangeKeyProofs

------------------------------------------------------------------------------
\* The keys in front.

\* A key that is no later than its number has all the columns before it as keys.
LEMMA FrontKeys ==
  ASSUME NEW pk, NEW m, NEW n, Ordered(pk, m, n), NEW i \in 1..m, pk[i] <= i
  PROVE  \A j \in 1..i : pk[j] = j
<1> DEFINE front == [j \in 1..i |-> pk[j]]
<1>1. pk \in [1..m -> 1..n] /\ m \in Nat \ {0} /\ n \in Nat
  BY DEF Ordered
<1>2. \A j \in 1..m : \A k \in 1..m : j <= k <=> pk[j] <= pk[k]
  BY KeyPlaces
<1>3. i \in Nat \ {0} /\ i <= m /\ 1..i \subseteq 1..m
  BY <1>1
<1>4. \A j \in 1..i : pk[j] \in 1..i
  <2>1. ASSUME NEW j \in 1..i PROVE pk[j] \in 1..i
    <3>1. j \in 1..m /\ j <= i /\ pk[j] \in 1..n /\ pk[i] \in 1..n
      BY <1>1, <1>3
    <3>2. pk[j] <= pk[i]
      BY <1>2, <3>1
    <3>3. QED
      BY <1>3, <3>1, <3>2
  <2>2. QED
    BY <2>1
<1>5. front \in Seq(1..i) /\ Len(front) = i
  BY <1>3, <1>4
<1>6. \A j, k \in 1..i : j < k => front[j] < front[k]
  BY <1>3 DEF Ordered
<1>7. Ordered(front, i, i)
  <2> HIDE DEF front
  <2>1. QED
    BY <1>3, <1>5, <1>6 DEF Ordered
<1>8. front = [j \in 1..i |-> j]
  <2> HIDE DEF front
  <2>1. QED
    BY <1>7, AllAreKeys
<1>9. ASSUME NEW j \in 1..i PROVE pk[j] = j
  <2>1. front[j] = j
    <3> HIDE DEF front
    <3>1. QED
      BY <1>8
  <2>2. QED
    BY <2>1
<1>10. QED
  BY <1>9

\* parse_keys reads all keys if all but the last are in front.
LEMMA FirstIsLast ==
  ASSUME NEW s \in Shapes, NEW k, FirstKeys(k, s)
  PROVE  k = Len(s.pk) <=> \A j \in 1..(Len(s.pk) - 1) : s.pk[j] = j
<1> DEFINE pk == s.pk
<1> DEFINE m == Len(pk)
<1>1. Ordered(pk, m, s.cols)
  BY KeysOrdered
<1>2. k \in 1..m /\ pk[k] >= m /\ \A j \in 1..m : j < k => pk[j] < m
  BY DEF FirstKeys
<1>3. pk \in [1..m -> 1..s.cols] /\ m \in Nat \ {0} /\ s.cols \in Nat
  BY <1>1 DEF Ordered
<1> HIDE DEF pk, m
<1>4. ASSUME k = m PROVE \A j \in 1..(m - 1) : pk[j] = j
  <2>1. CASE m = 1
    BY <2>1
  <2>2. CASE m # 1
    <3>1. m - 1 \in 1..m /\ m - 1 < k
      BY <1>3, <1>4, <2>2
    <3>2. pk[m - 1] < m /\ pk[m - 1] \in Nat
      BY <1>2, <1>3, <3>1
    <3>3. pk[m - 1] <= m - 1
      BY <1>3, <3>2
    <3>4. QED
      BY <1>1, <3>1, <3>3, FrontKeys
  <2>3. QED
    BY <2>1, <2>2
<1>5. ASSUME \A j \in 1..(m - 1) : pk[j] = j PROVE k = m
  BY <1>2, <1>3, <1>5
<1>6. QED
  BY <1>4, <1>5 DEF pk, m

------------------------------------------------------------------------------
\* What on_event keeps of an old tuple.

Kept(old, K) == FlattenSeq([i \in DOMAIN old |-> IF i \in K THEN <<old[i]>> ELSE <<>>])

\* They are the values at the keys' positions, as far as there are values.
AreKept(kept, old, pk, m, k) ==
  /\ kept \in Seq(Nat) /\ Len(kept) <= m
  /\ \A j \in 1..m : j <= Len(kept) <=> pk[j] <= k
  /\ \A j \in 1..Len(kept) : pk[j] \in 1..k /\ kept[j] = old[pk[j]]

LEMMA KeptValues ==
  ASSUME NEW pk, NEW m, NEW n, Ordered(pk, m, n),
         NEW k \in Nat, k <= n, NEW old \in [1..k -> Nat]
  PROVE  AreKept(Kept(old, ToSet(pk)), old, pk, m, k)
<1> DEFINE K == ToSet(pk)
<1> DEFINE seq == [i \in 1..k |-> IF i \in K THEN <<old[i]>> ELSE <<>>]
<1> DEFINE kept == FlattenSeq(seq)
<1>1. pk \in [1..m -> 1..n] /\ m \in Nat \ {0} /\ n \in Nat
  BY DEF Ordered
<1>2. /\ \A j \in 1..m : j <= pk[j] /\ pk[j] \in 1..n
      /\ \A i, j \in 1..m : i <= j <=> pk[i] <= pk[j]
  BY KeyPlaces
<1>3. \A i : i \in K <=> \E j \in 1..m : pk[j] = i
  BY <1>1 DEF ToSet
<1> HIDE DEF K
<1>4. seq \in [1..k -> Seq(Nat)]
  <2>1. \A i \in 1..k : old[i] \in Nat
    OBVIOUS
  <2>2. QED
    BY <2>1
<1>5. kept = Kept(old, K)
  BY DEF Kept
<1>6. kept \in Seq(Nat) /\ \E at : /\ Places(at, kept, k, seq)
                                   /\ at[0] = 0 /\ at[k] = Len(kept)
  <2> HIDE DEF seq
  <2>1. QED
    BY <1>4, FlattenPlaces
<1>7. PICK at : Places(at, kept, k, seq) /\ at[0] = 0 /\ at[k] = Len(kept)
  BY <1>6
<1> HIDE DEF kept
<1>8. ASSUME NEW i \in 1..k
      PROVE  /\ at[i] \in Nat /\ at[i - 1] \in Nat
             /\ i \notin K => at[i] = at[i - 1]
             /\ i \in K => at[i] = at[i - 1] + 1 /\ kept[at[i]] = old[i]
  <2>1. i \in 0..k /\ i - 1 \in 0..k
    OBVIOUS
  <2>2. at[i] \in Nat /\ at[i - 1] \in Nat
    BY <1>7, <2>1 DEF Places
  <2>3. at[i] = at[i - 1] + Len(seq[i]) /\ \A e \in 1..Len(seq[i]) : kept[at[i - 1] + e] = seq[i][e]
    <3> HIDE DEF seq
    <3>1. QED
      BY <1>7 DEF Places
  <2>4. i \notin K => Len(seq[i]) = 0
    OBVIOUS
  <2>5. i \in K => Len(seq[i]) = 1 /\ seq[i][1] = old[i]
    OBVIOUS
  <2> HIDE DEF seq
  <2>6. i \in K => at[i] = at[i - 1] + 1 /\ kept[at[i - 1] + 1] = old[i]
    BY <2>3, <2>5, SMTT(30)
  <2>7. i \notin K => at[i] = at[i - 1]
    BY <2>2, <2>3, <2>4
  <2>8. QED
    BY <2>2, <2>6, <2>7
\* Up to column i, the keys are as many as the values.
<1> DEFINE C(i) == at[i] \in Nat /\ at[i] <= m /\ \A j \in 1..m : j <= at[i] <=> pk[j] <= i
<1> DEFINE S == {i \in Nat : i <= k => C(i)}
<1>9. 0 \in S
  <2>1. C(0)
    BY <1>1, <1>2, <1>7
  <2>2. QED
    BY <2>1
<1>10. ASSUME NEW i \in Nat, i \in S PROVE i + 1 \in S
  <2>1. SUFFICES ASSUME i + 1 <= k PROVE C(i + 1)
    OBVIOUS
  <2>2. C(i) /\ i + 1 \in 1..k /\ (i + 1) - 1 = i
    BY <1>10, <2>1
  <2>3. /\ at[i + 1] \in Nat
        /\ i + 1 \notin K => at[i + 1] = at[i]
        /\ i + 1 \in K => at[i + 1] = at[i] + 1
    BY <1>8, <2>2
  <2>4. CASE i + 1 \notin K
    <3>1. \A j \in 1..m : pk[j] \in Nat /\ pk[j] # i + 1
      BY <1>2, <1>3, <2>4
    <3>2. QED
      BY <2>2, <2>3, <2>4, <3>1
  <2>5. CASE i + 1 \in K
    <3>1. PICK q \in 1..m : pk[q] = i + 1
      BY <1>3, <2>5
    <3>2. at[i] \in Nat /\ at[i] <= m /\ q \in Nat /\ q > at[i]
      BY <2>2, <3>1
    <3>3. q = at[i] + 1
      <4>1. SUFFICES ASSUME at[i] + 1 < q PROVE FALSE
        BY <3>2
      <4>2. at[i] + 1 \in 1..m /\ ~(at[i] + 1 <= at[i]) /\ ~(q <= at[i] + 1)
        BY <1>1, <3>1, <3>2, <4>1
      <4>3. ~(pk[at[i] + 1] <= i)
        BY <2>2, <4>2
      <4>4. ~(pk[q] <= pk[at[i] + 1]) /\ pk[at[i] + 1] \in Nat
        BY <1>2, <3>1, <4>2
      <4>5. QED
        BY <3>1, <4>3, <4>4
    <3>4. at[i + 1] = q
      BY <2>3, <2>5, <3>3
    <3>5. QED
      BY <1>2, <2>3, <3>1, <3>4
  <2>6. QED
    BY <2>4, <2>5
<1>11. \A i \in Nat : i <= k => C(i)
  <2>1. Nat \subseteq S
    <3> HIDE DEF S
    <3>1. QED
      BY <1>9, <1>10, Induction
  <2>2. QED
    BY <2>1
<1>12. Len(kept) <= m /\ \A j \in 1..m : j <= Len(kept) <=> pk[j] <= k
  BY <1>7, <1>11
<1>13. ASSUME NEW j \in 1..Len(kept) PROVE pk[j] \in 1..k /\ kept[j] = old[pk[j]]
  <2>0. Len(kept) \in Nat
    BY <1>6
  <2>1. j \in 1..m /\ j \in Nat
    BY <1>1, <1>12, <2>0
  <2>2. pk[j] \in 1..k /\ pk[j] \in K /\ pk[j] \in Nat
    BY <1>2, <1>3, <1>12, <2>0, <2>1
  <2> DEFINE i == pk[j]
  <2>3. C(i)
    BY <1>11, <2>2
  <2>4. at[i] = j
    <3>1. j <= at[i] /\ at[i] \in Nat /\ at[i] <= m
      BY <2>1, <2>2, <2>3
    <3>2. SUFFICES ASSUME j < at[i] PROVE FALSE
      BY <2>1, <3>1
    <3>3. j + 1 \in 1..m /\ j + 1 <= at[i] /\ ~(j + 1 <= j)
      BY <1>1, <2>1, <3>1, <3>2
    <3>4. pk[j + 1] <= pk[j]
      BY <2>3, <3>3
    <3>5. QED
      BY <1>2, <2>1, <3>3, <3>4
  <2>5. kept[at[i]] = old[i]
    BY <1>8, <2>2
  <2>6. QED
    BY <2>2, <2>4, <2>5
<1>14. QED
  BY <1>5, <1>6, <1>12, <1>13 DEF K, AreKept

------------------------------------------------------------------------------
\* The table under either identity.

LEMMA AsShape ==
  ASSUME shape \in Shapes, NEW f \in BOOLEAN
  PROVE  /\ As(f).full = f /\ As(f).pk = shape.pk /\ As(f).cols = shape.cols
         /\ KeyIndexes(As(f)) = IF f THEN [c \in 1..shape.cols |-> c] ELSE shape.pk
         /\ Keys(As(f)) = IF f THEN 1..shape.cols ELSE ToSet(shape.pk)
<1>1. shape \in [cols : Nat \ {0}, pk : Seq(Nat), full : BOOLEAN]
  BY ShapesAssumption
<1>2. As(f).full = f /\ As(f).pk = shape.pk /\ As(f).cols = shape.cols
  BY <1>1 DEF As
<1>3. KeyIndexes(As(f)) = IF f THEN [c \in 1..shape.cols |-> c] ELSE shape.pk
  BY <1>2 DEF KeyIndexes, Columns
<1>4. ToSet([c \in 1..shape.cols |-> c]) = 1..shape.cols
  BY DEF ToSet
<1>5. QED
  BY <1>2, <1>3, <1>4 DEF Keys

\* The SET list, by its definition for any keys K and columns n.
SetListOf(K, n) ==
  FlattenSeq([c \in 1..n |-> IF c \in K THEN <<>>
                             ELSE IF c < n THEN <<c, Comma>> ELSE <<c>>])

\* It ends in a comma when the last column is a key and another one is not.
LEMMA SetListEnds ==
  ASSUME NEW n \in Nat \ {0}, NEW K \in SUBSET (1..n), K # 1..n
  PROVE  Last(SetListOf(K, n)) # Comma <=> n \notin K
<1> DEFINE seq == [c \in 1..n |-> IF c \in K THEN <<>>
                                  ELSE IF c < n THEN <<c, Comma>> ELSE <<c>>]
<1> DEFINE list == FlattenSeq(seq)
<1>1. seq \in [1..n -> Seq(Nat)]
  BY DEF Comma
<1>2. list = SetListOf(K, n)
  BY DEF SetListOf
<1>3. list \in Seq(Nat) /\ \E at : /\ Places(at, list, n, seq)
                                   /\ at[0] = 0 /\ at[n] = Len(list)
  <2> HIDE DEF seq
  <2>1. QED
    BY <1>1, FlattenPlaces
<1>4. PICK at : Places(at, list, n, seq) /\ at[0] = 0 /\ at[n] = Len(list)
  BY <1>3
<1> HIDE DEF list
<1>5. ASSUME NEW c \in 1..n
      PROVE  /\ at[c] \in Nat /\ at[c - 1] \in Nat
             /\ c \in K => at[c] = at[c - 1]
             /\ c \notin K => list[at[c]] = IF c < n THEN Comma ELSE c
  <2>1. c \in 0..n /\ c - 1 \in 0..n
    OBVIOUS
  <2>2. at[c] \in Nat /\ at[c - 1] \in Nat
    BY <1>4, <2>1 DEF Places
  <2>3. at[c] = at[c - 1] + Len(seq[c]) /\ \A e \in 1..Len(seq[c]) : list[at[c - 1] + e] = seq[c][e]
    <3> HIDE DEF seq
    <3>1. QED
      BY <1>4 DEF Places
  <2>4. c \in K => Len(seq[c]) = 0
    OBVIOUS
  <2>5. c \notin K /\ c < n => Len(seq[c]) = 2 /\ seq[c][2] = Comma
    OBVIOUS
  <2>6. c \notin K /\ ~(c < n) => Len(seq[c]) = 1 /\ seq[c][1] = c
    OBVIOUS
  <2> HIDE DEF seq
  <2>7. c \in K => at[c] = at[c - 1]
    BY <2>2, <2>3, <2>4
  <2>8. c \notin K /\ c < n => at[c] = at[c - 1] + 2 /\ list[at[c - 1] + 2] = Comma
    BY <2>3, <2>5
  <2>9. c \notin K /\ ~(c < n) => at[c] = at[c - 1] + 1 /\ list[at[c - 1] + 1] = c
    BY <2>3, <2>6
  <2>10. QED
    BY <2>2, <2>7, <2>8, <2>9
<1>6. Last(list) = list[at[n]]
  BY <1>4 DEF Last
<1>7. CASE n \notin K
  <2>1. list[at[n]] = n /\ n # Comma
    BY <1>5, <1>7 DEF Comma
  <2>2. QED
    BY <1>2, <1>6, <1>7, <2>1
<1>8. CASE n \in K
  <2> DEFINE D == (1..n) \ K
  <2>1. D \in SUBSET (0..n) /\ D # {} /\ n \in Nat
    <3>1. \E c \in 1..n : c \notin K
      OBVIOUS
    <3>2. \A c \in 1..n : c \in 0..n
      OBVIOUS
    <3>3. D # {} /\ D \subseteq 0..n
      BY <3>1, <3>2
    <3>4. QED
      BY <3>3
  <2>2. PICK d \in D : \A x \in D : x <= d
    <3> HIDE DEF D
    <3>1. QED
      BY <2>1, GreatestExists
  <2>3. d \in 1..n /\ d \notin K /\ d < n
    BY <1>8, <2>2
  <2>4. list[at[d]] = Comma
    BY <1>5, <2>3
  <2> DEFINE S == {e \in Nat : d + e <= n => at[d + e] = at[d]}
  <2>5. 0 \in S
    BY <2>3
  <2>6. ASSUME NEW e \in Nat, e \in S PROVE e + 1 \in S
    <3>1. SUFFICES ASSUME d + (e + 1) <= n PROVE at[d + (e + 1)] = at[d]
      OBVIOUS
    <3>2. at[d + e] = at[d] /\ d + (e + 1) \in 1..n /\ (d + (e + 1)) - 1 = d + e /\ ~(d + (e + 1) <= d)
      BY <2>3, <2>6, <3>1
    <3>3. d + (e + 1) \in K
      BY <2>2, <3>2
    <3>4. at[d + (e + 1)] = at[(d + (e + 1)) - 1]
      BY <1>5, <3>2, <3>3
    <3>5. QED
      BY <3>2, <3>4
  <2>7. n - d \in S
    <3>1. Nat \subseteq S /\ n - d \in Nat
      <4>1. n - d \in Nat
        BY <2>3
      <4> HIDE DEF S
      <4>2. QED
        BY <2>5, <2>6, <4>1, Induction
    <3> HIDE DEF S
    <3>2. QED
      BY <3>1
  <2>8. at[n] = at[d]
    <3>1. d + (n - d) = n /\ n <= n
      BY <2>3
    <3>2. QED
      BY <2>7, <3>1
  <2>9. QED
    BY <1>2, <1>6, <1>8, <2>4, <2>8
<1>9. QED
  BY <1>7, <1>8

\* Under keys, an upsert can be prepared if all columns are keys or the last is
\* none; under FULL, only if all columns are keys.
LEMMA PreparesAs ==
  ASSUME shape \in Shapes, NEW f \in BOOLEAN
  PROVE  /\ UpsertPrepares(As(f)) <=>
              AllKeys \/ (~f /\ shape.cols \notin ToSet(shape.pk))
         /\ UpsertPrepares(As(f)) => (DoNothing(As(f)) <=> AllKeys)
<1> DEFINE pk == shape.pk
<1> DEFINE m == Len(pk)
<1> DEFINE n == shape.cols
<1>1. Ordered(pk, m, n)
  BY KeysOrdered
<1>2. /\ As(f).pk = pk /\ As(f).cols = n
      /\ KeyIndexes(As(f)) = IF f THEN [c \in 1..n |-> c] ELSE pk
      /\ Keys(As(f)) = IF f THEN 1..n ELSE ToSet(pk)
  BY AsShape
<1>3. n \in Nat \ {0} /\ m \in Nat \ {0} /\ ToSet(pk) \subseteq 1..n
  <2>1. n \in Nat \ {0}
    BY ShapesAssumption
  <2>2. ToSet(pk) \subseteq 1..n
    BY KeyColumns
  <2>3. QED
    BY <1>1, <2>1, <2>2 DEF Ordered
<1>4. AllKeys <=> m = n
  BY DEF AllKeys
<1>5. m = n <=> ToSet(pk) = 1..n
  <2> HIDE DEF pk, m, n
  <2>1. QED
    BY <1>1, AllAreKeys
<1>6. CASE f
  <2>1. DoNothing(As(f))
    BY <1>2, <1>3, <1>6 DEF DoNothing
  <2>2. UpsertPrepares(As(f)) <=> ToSet(pk) = 1..n
    BY <1>2, <1>6, <2>1 DEF UpsertPrepares
  <2> HIDE DEF pk, m, n
  <2>3. QED
    BY <1>4, <1>5, <1>6, <2>1, <2>2 DEF pk, n
<1>7. CASE ~f
  <2>1. DoNothing(As(f)) <=> m = n
    BY <1>2, <1>3, <1>7 DEF DoNothing
  <2>2. SetList(As(f)) = SetListOf(ToSet(pk), n)
    BY <1>2, <1>7 DEF SetList, SetListOf
  <2>3. UpsertPrepares(As(f)) <=> m = n \/ Last(SetListOf(ToSet(pk), n)) # Comma
    BY <1>2, <1>7, <2>1, <2>2 DEF UpsertPrepares
  <2>4. m # n => (Last(SetListOf(ToSet(pk), n)) # Comma <=> n \notin ToSet(pk))
    <3> HIDE DEF pk, m, n
    <3>1. QED
      BY <1>3, <1>5, SetListEnds
  <2>5. QED
    BY <1>4, <1>7, <2>1, <2>3, <2>4
<1>8. QED
  BY <1>6, <1>7

\* The statement that on_event executes.
LEMMA PreparesUpsert ==
  ASSUME shape \in Shapes, known \in [ident : BOOLEAN, stmt : BOOLEAN]
  PROVE  /\ UpsertShape.pk = shape.pk
         /\ UpsertPrepares(UpsertShape) <=>
              AllKeys \/ (~(known.ident /\ known.stmt) /\ shape.cols \notin ToSet(shape.pk))
         /\ UpsertPrepares(UpsertShape) => (DoNothing(UpsertShape) <=> AllKeys)
<1> DEFINE f == IF UpsertPrepares(As(known.stmt)) THEN known.stmt ELSE known.ident
<1>1. known.stmt \in BOOLEAN /\ known.ident \in BOOLEAN
  OBVIOUS
<1>2. f \in BOOLEAN
  BY <1>1
<1>3. UpsertPrepares(As(known.stmt)) <=>
        AllKeys \/ (~known.stmt /\ shape.cols \notin ToSet(shape.pk))
  BY <1>1, PreparesAs
<1>4. UpsertShape = As(f)
  BY DEF UpsertShape
<1>5. /\ As(f).pk = shape.pk
      /\ UpsertPrepares(As(f)) <=> AllKeys \/ (~f /\ shape.cols \notin ToSet(shape.pk))
      /\ UpsertPrepares(As(f)) => (DoNothing(As(f)) <=> AllKeys)
  <2> HIDE DEF f
  <2>1. QED
    BY <1>2, PreparesAs, AsShape
<1>6. (~f /\ shape.cols \notin ToSet(shape.pk)) \/ AllKeys
        <=> AllKeys \/ (~(known.ident /\ known.stmt) /\ shape.cols \notin ToSet(shape.pk))
  BY <1>1, <1>3
<1> HIDE DEF f
<1>7. QED
  BY <1>4, <1>5, <1>6

------------------------------------------------------------------------------
\* The target after an upsert.

LEMMA SameKeyEitherWay == \A s, r, q : SameKey(s, r, q) <=> SameKey(s, q, r)
BY DEF SameKey

Apart(u, O, r) == \A x \in O : ~SameKey(u, x, r)

LEMMA UpsertsOnto ==
  ASSUME NEW u, NEW O, NEW r, NEW q, SameKey(u, q, r), Apart(u, O, r)
  PROVE  /\ Upserted(u, O, r) = O \cup {r}
         /\ DoNothing(u) => Upserted(u, O \cup {q}, r) = O \cup {q}
         /\ ~DoNothing(u) => Upserted(u, O \cup {q}, r) = O \cup {r}
<1>1. Upserted(u, O, r) = O \cup {r}
  BY DEF Upserted, Apart
<1>2. ~(\A x \in O \cup {q} : ~SameKey(u, x, r))
  OBVIOUS
<1>3. {x \in O \cup {q} : ~SameKey(u, x, r)} = O
  BY DEF Apart
<1>4. /\ DoNothing(u) => Upserted(u, O \cup {q}, r) = O \cup {q}
      /\ ~DoNothing(u) => Upserted(u, O \cup {q}, r) = O \cup {r}
  BY <1>2, <1>3 DEF Upserted
<1>5. QED
  BY <1>1, <1>4

LEMMA UpsertsTwice ==
  ASSUME NEW u, NEW O, NEW r, SameKey(u, r, r), Apart(u, O, r)
  PROVE  /\ Upserted(u, O, r) = O \cup {r}
         /\ Upserted(u, O \cup {r}, r) = O \cup {r}
<1>1. PICK q : q = r
  OBVIOUS
<1>2. SameKey(u, q, r)
  BY <1>1
<1>3. /\ Upserted(u, O, r) = O \cup {r}
      /\ DoNothing(u) => Upserted(u, O \cup {q}, r) = O \cup {q}
      /\ ~DoNothing(u) => Upserted(u, O \cup {q}, r) = O \cup {r}
  BY <1>2, UpsertsOnto
<1>4. QED
  BY <1>1, <1>3

\* Where a delivery of the change leaves the target: t are its rows.
Landed(t) ==
  IF Handled THEN t = After
  ELSE t = rows \/ (Moves(shape, change) /\ t = rows \cup {change.after})

LEMMA MergeOutcome ==
  ASSUME RowInv, Fitting(shape, rows, change), change.op # "delete", UpsertEvent
  PROVE  /\ MergeToasted(event).ok <=> change.toast = {} \/ shape.full
         /\ MergeToasted(event).ok => MergeToasted(event).row = change.after
<1>1. shape \in Shapes /\ IsChange(shape, change) /\ Fits(shape, change)
  BY DEF RowInv, Fitting
<1>2. event.row = Sent(change.after, change.toast)
  BY DEF UpsertEvent
<1>3. CASE change.toast = {} \/ shape.full
  <2>1. change.toast # {} => event.old = change.before
    BY <1>3 DEF UpsertEvent
  <2>2. MergeToasted(event).ok /\ MergeToasted(event).row = change.after
    BY <1>1, <1>2, <2>1, MergeExact
  <2>3. QED
    BY <1>3, <2>2
<1>4. CASE change.toast # {} /\ ~shape.full
  <2>1. event.old = <<>>
    BY <1>4 DEF UpsertEvent
  <2>2. change.op = "update" /\ change.after \in RowsOf(shape)
    BY <1>1, <1>4 DEF IsChange
  <2>3. PICK c \in change.toast : c \in 1..shape.cols
    BY <1>1, <1>4, <2>2 DEF Fits
  <2>4. event.row \in [1..shape.cols -> 0..257] /\ event.row[c] = Toasted
    <3>1. /\ Sent(change.after, change.toast) \in [1..shape.cols -> 0..257]
          /\ \A d \in 1..shape.cols :
               Sent(change.after, change.toast)[d] = Toasted <=> d \in change.toast
      BY <1>1, <2>2, SentValues, Zenon
    <3>2. QED
      BY <1>2, <2>3, <3>1
  <2>5. c \in {d \in DOMAIN event.row : event.row[d] = Toasted}
    BY <2>3, <2>4
  <2>6. ~(c <= Len(event.old))
    BY <2>1, <2>3
  <2>7. ~MergeToasted(event).ok
    BY <2>5, <2>6 DEF MergeToasted
  <2>8. QED
    BY <1>4, <2>7
<1>5. QED
  BY <1>3, <1>4

\* The rows of a change that moves none, if all columns are keys.
LEMMA StaysAsItIs ==
  ASSUME shape \in Shapes, AllKeys, NEW r \in RowsOf(shape), NEW q \in RowsOf(shape),
         SameKey(shape, r, q)
  PROVE  r = q
<1>1. ToSet(shape.pk) = 1..shape.cols
  <2>1. Ordered(shape.pk, Len(shape.pk), shape.cols)
    BY KeysOrdered
  <2>2. QED
    BY <2>1, AllAreKeys DEF AllKeys
<1>2. r \in [1..shape.cols -> 0..257] /\ q \in [1..shape.cols -> 0..257]
  BY RowValues
<1>3. \A c \in 1..shape.cols : r[c] = q[c]
  BY <1>1 DEF SameKey
<1>4. r = [c \in 1..shape.cols |-> r[c]] /\ q = [c \in 1..shape.cols |-> q[c]]
  BY <1>2
<1>5. QED
  BY <1>3, <1>4

LEMMA UpsertLands ==
  ASSUME RowInv, Fitting(shape, rows, change), change.op # "delete",
         NEW t, t = rows \/ Landed(t), NEW u, u.pk = shape.pk, DoNothing(u) <=> AllKeys,
         Handled <=> ~Moves(shape, change)
  PROVE  Landed(Upserted(u, t, change.after))
<1> DEFINE after == change.after
<1> DEFINE before == change.before
<1>1. /\ shape \in Shapes /\ IsChange(shape, change) /\ after \in RowsOf(shape)
      /\ rows \subseteq RowsOf(shape)
  BY DEF RowInv, Fitting, IsChange
<1>2. \A r, q : SameKey(u, r, q) <=> SameKey(shape, r, q)
  BY DEF SameKey
<1>3. SameKey(u, after, after)
  BY DEF SameKey
<1>4. CASE change.op = "insert"
  <2>1. Apart(u, rows, after)
    BY <1>2, <1>4, SameKeyEitherWay DEF Fitting, Gone, Apart
  <2>2. Handled /\ After = rows \cup {after}
    BY <1>4 DEF Moves, After
  <2>3. /\ Upserted(u, rows, after) = rows \cup {after}
        /\ Upserted(u, rows \cup {after}, after) = rows \cup {after}
    BY <1>3, <2>1, UpsertsTwice, SMTT(30)
  <2>4. QED
    BY <2>2, <2>3 DEF Landed
<1>5. CASE change.op = "update" /\ Moves(shape, change)
  <2>1. Apart(u, rows, after)
    <3>1. ~SameKey(shape, before, after)
      BY <1>5 DEF Moves
    <3>2. \A x \in rows : x # before => ~SameKey(shape, x, after)
      BY <1>5, SameKeyEitherWay DEF Fitting, Gone
    <3>3. QED
      BY <1>2, <3>1, <3>2 DEF Apart
  <2>2. /\ Upserted(u, rows, after) = rows \cup {after}
        /\ Upserted(u, rows \cup {after}, after) = rows \cup {after}
    BY <1>3, <2>1, UpsertsTwice, SMTT(30)
  <2>3. QED
    BY <1>5, <2>2 DEF Landed
<1>6. CASE change.op = "update" /\ ~Moves(shape, change)
  <2> DEFINE O == rows \ {before}
  <2>1. SameKey(shape, before, after) /\ before \in rows /\ before \in RowsOf(shape)
    BY <1>1, <1>6 DEF Moves, Fitting, Gone
  <2>2. Apart(u, O, after)
    BY <1>2, <1>6, SameKeyEitherWay DEF Fitting, Gone, Apart
  <2>3. Handled /\ After = O \cup {after} /\ rows = O \cup {before}
    BY <1>6, <2>1 DEF After
  <2>4. SameKey(u, before, after)
    BY <1>2, <2>1
  <2> HIDE DEF O
  <2>5. Upserted(u, O \cup {after}, after) = O \cup {after}
    BY <1>3, <2>2, UpsertsOnto
  <2>6. /\ DoNothing(u) => Upserted(u, O \cup {before}, after) = O \cup {before}
        /\ ~DoNothing(u) => Upserted(u, O \cup {before}, after) = O \cup {after}
    BY <2>2, <2>4, UpsertsOnto
  <2>7. DoNothing(u) => before = after
    BY <1>1, <2>1, StaysAsItIs
  <2>8. QED
    BY <2>3, <2>5, <2>6, <2>7 DEF Landed
<1>7. QED
  BY <1>1, <1>4, <1>5, <1>6 DEF IsChange

------------------------------------------------------------------------------
\* The target after a delete.

\* Parameters that are the old row's values of the statement's keys.
KeysOf(params, s, r) ==
  /\ params \in Seq(Nat) /\ Len(params) = Len(KeyIndexes(s))
  /\ \A j \in 1..Len(params) : params[j] = r[KeyIndexes(s)[j]]

LEMMA DeletesOne ==
  ASSUME RowInv, Fitting(shape, rows, change), change.op = "delete",
         NEW f \in BOOLEAN, NEW params, KeysOf(params, As(f), change.before),
         NEW t, t = rows \/ t = After
  PROVE  Deleted(As(f), t, params) =
           IF \E j \in 1..Len(params) : params[j] = Null THEN t ELSE After
<1> DEFINE s == As(f)
<1> DEFINE before == change.before
<1> DEFINE gone == Deleted(s, t, params)
<1> DEFINE ki == KeyIndexes(s)
<1>1. shape \in Shapes /\ before \in rows /\ After = rows \ {before}
  BY DEF RowInv, Fitting, Gone, After
<1>2. \A r \in rows : r # before => ~SameKey(shape, r, before)
  BY <1>1 DEF RowInv
<1>3. DOMAIN params = 1..Len(params) /\ DOMAIN ki = 1..Len(params)
  <2>1. ki \in Seq(Nat)
    <3>1. shape.cols \in Nat /\ shape.pk \in Seq(Nat)
      BY <1>1, ShapesAssumption
    <3>2. ki = IF f THEN [c \in 1..shape.cols |-> c] ELSE shape.pk
      BY <1>1, AsShape
    <3> HIDE DEF ki
    <3>3. QED
      BY <3>1, <3>2
  <2>2. params \in Seq(Nat) /\ Len(params) = Len(ki)
    BY DEF KeysOf
  <2> HIDE DEF ki
  <2>3. QED
    BY <2>1, <2>2
<1>4. ToSet(shape.pk) \subseteq {ki[j] : j \in 1..Len(params)}
  <2>1. ToSet(ki) = {ki[j] : j \in 1..Len(params)}
    BY <1>3 DEF ToSet
  <2>2. ToSet(ki) = IF f THEN 1..shape.cols ELSE ToSet(shape.pk)
    BY <1>1, AsShape DEF Keys
  <2>3. ToSet(shape.pk) \subseteq 1..shape.cols
    BY <1>1, KeyColumns
  <2> HIDE DEF ki
  <2>4. QED
    BY <2>1, <2>2, <2>3
<1>5. \A j \in 1..Len(params) : params[j] = before[ki[j]]
  BY DEF KeysOf
<1>6. gone = {r \in t : \E j \in 1..Len(params) : params[j] = Null \/ r[ki[j]] # params[j]}
  BY <1>3 DEF Deleted
<1> HIDE DEF gone, ki, s
<1>7. CASE \E j \in 1..Len(params) : params[j] = Null
  <2>1. gone = t
    BY <1>6, <1>7
  <2>2. QED
    BY <1>7, <2>1 DEF gone, s
<1>8. CASE ~\E j \in 1..Len(params) : params[j] = Null
  <2>1. before \notin gone
    BY <1>5, <1>6, <1>8
  <2>2. ASSUME NEW r \in t, r # before PROVE r \in gone
    <3>1. r \in rows
      BY <1>1, <2>2
    <3>2. PICK c \in ToSet(shape.pk) : r[c] # before[c]
      BY <1>2, <2>2, <3>1 DEF SameKey
    <3>3. PICK j \in 1..Len(params) : ki[j] = c
      BY <1>4, <3>2
    <3>4. r[ki[j]] # params[j]
      BY <1>5, <3>2, <3>3
    <3>5. QED
      BY <1>6, <2>2, <3>4
  <2>3. gone \subseteq t /\ t \subseteq rows /\ rows \ {before} \subseteq t
    BY <1>1, <1>6
  <2>4. gone = After
    BY <1>1, <2>1, <2>2, <2>3
  <2>5. QED
    BY <1>8, <2>4 DEF gone, s
<1>9. QED
  BY <1>7, <1>8

\* The values of a delete, as on_event passes them on.
Params == DeleteParams(As(known.ident), event.old)

\* The statement is executed if its keys are as many; then they are its keys.
DeleteOutcome(params) ==
  /\ Len(params) = Len(KeyIndexes(As(known.stmt)))
       => KeysOf(params, As(known.stmt), change.before)
  /\ Handled <=> /\ Len(params) = Len(KeyIndexes(As(known.stmt)))
                 /\ \A j \in 1..Len(params) : params[j] # Null

\* What the cases of a delete have in common.
DeleteFacts(pk, m, n, r) ==
  /\ Ordered(pk, m, n) /\ n \in Nat \ {0} /\ m <= n
  /\ r \in [1..n -> Nat] /\ \A j \in 1..m : pk[j] \in 1..n /\ r[pk[j]] # Null
  /\ KeyIndexes(As(known.stmt)) = IF known.stmt THEN [c \in 1..n |-> c] ELSE pk
  /\ Len(KeyIndexes(As(known.stmt))) = IF known.stmt THEN n ELSE m
  /\ AllKeys <=> m = n
  /\ m = n => pk = [c \in 1..n |-> c]

LEMMA DeleteHas ==
  ASSUME RowInv, Fitting(shape, rows, change), change.op = "delete",
         known \in [ident : BOOLEAN, stmt : BOOLEAN]
  PROVE  /\ DeleteFacts(shape.pk, Len(shape.pk), shape.cols, change.before)
         /\ known.ident \in BOOLEAN /\ known.stmt \in BOOLEAN
<1> DEFINE pk == shape.pk
<1> DEFINE m == Len(pk)
<1> DEFINE n == shape.cols
<1> DEFINE r == change.before
<1> DEFINE ki == KeyIndexes(As(known.stmt))
<1>1. shape \in Shapes /\ r \in RowsOf(shape)
  BY DEF RowInv, Fitting, IsChange
<1>2. known.ident \in BOOLEAN /\ known.stmt \in BOOLEAN
  OBVIOUS
<1>3. Ordered(pk, m, n)
  BY <1>1, KeysOrdered
<1>4. n \in Nat \ {0} /\ r \in [1..n -> 0..257]
  BY <1>1, RowValues
<1>5. r \in [1..n -> Nat]
  <2>1. 0..257 \subseteq Nat
    OBVIOUS
  <2> HIDE DEF r
  <2>2. QED
    BY <1>4, <2>1, WiderFunction, Zenon
<1>6. ki = IF known.stmt THEN [c \in 1..n |-> c] ELSE pk
  BY <1>1, <1>2, AsShape
<1>7. \A c \in ToSet(pk) : r[c] # Null
  BY <1>1 DEF RowsOf
<1>8. AllKeys <=> m = n
  BY DEF AllKeys
<1> HIDE DEF pk, m, n, r, ki
<1>9. pk \in [1..m -> 1..n] /\ m \in Nat \ {0}
  BY <1>3 DEF Ordered
<1>10. \A j \in 1..m : j <= pk[j] /\ pk[j] \in 1..n
  BY <1>3, KeyPlaces
<1>11. m <= n
  <2>1. m \in 1..m
    BY <1>9
  <2>2. m <= pk[m] /\ pk[m] \in 1..n
    BY <1>10, <2>1
  <2>3. QED
    BY <1>4, <1>9, <2>2
<1>12. \A j \in 1..m : pk[j] \in 1..n /\ r[pk[j]] # Null
  <2>1. \A j \in 1..m : pk[j] \in ToSet(pk)
    BY <1>9 DEF ToSet
  <2>2. QED
    BY <1>7, <1>10, <2>1
<1>13. Len(ki) = IF known.stmt THEN n ELSE m
  BY <1>4, <1>6, <1>9 DEF m
<1>14. m = n => pk = [c \in 1..n |-> c]
  BY <1>3, AllAreKeys
<1>15. QED
  BY <1>2, <1>3, <1>4, <1>5, <1>6, <1>8, <1>11, <1>12, <1>13, <1>14
     DEF DeleteFacts, pk, m, n, r, ki

\* A whole old row gives all its values, or those of the keys.
LEMMA WholeDeletes ==
  ASSUME NEW pk, NEW m, NEW n, NEW r, DeleteFacts(pk, m, n, r),
         known.ident \in BOOLEAN, known.stmt \in BOOLEAN, r = change.before,
         NEW params, params = IF known.ident THEN r ELSE Kept(r, ToSet(pk)),
         Handled <=> /\ known.ident = known.stmt \/ m = n
                     /\ known.stmt => \A c \in 1..n : r[c] # Null
  PROVE  DeleteOutcome(params)
<1> DEFINE ki == KeyIndexes(As(known.stmt))
<1>1. /\ Ordered(pk, m, n) /\ n \in Nat \ {0} /\ m <= n /\ m \in Nat \ {0}
      /\ r \in [1..n -> Nat] /\ \A j \in 1..m : pk[j] \in 1..n /\ r[pk[j]] # Null
      /\ ki = IF known.stmt THEN [c \in 1..n |-> c] ELSE pk
      /\ Len(ki) = IF known.stmt THEN n ELSE m
      /\ m = n => pk = [c \in 1..n |-> c]
  BY DEF DeleteFacts, Ordered
<1> HIDE DEF ki
<1>2. m = n => \A c \in 1..n : pk[c] = c /\ r[c] # Null
  <2>1. SUFFICES ASSUME m = n, NEW c \in 1..n PROVE pk[c] = c /\ r[c] # Null
    OBVIOUS
  <2>2. pk[c] = c
    BY <1>1, <2>1
  <2>3. r[pk[c]] # Null
    BY <1>1, <2>1
  <2>4. QED
    BY <2>2, <2>3
<1>3. CASE known.ident
  <2>1. params = r
    BY <1>3
  <2>2. params \in Seq(Nat) /\ Len(params) = n
    BY <1>1, <2>1
  <2>3. CASE known.stmt
    <3>1. Len(ki) = n /\ \A j \in 1..n : ki[j] = j
      BY <1>1, <2>3
    <3>2. KeysOf(params, As(known.stmt), change.before)
      BY <2>1, <2>2, <3>1 DEF KeysOf, ki
    <3>3. QED
      BY <1>3, <2>1, <2>2, <2>3, <3>1, <3>2 DEF DeleteOutcome, ki
  <2>4. CASE ~known.stmt
    <3>1. Len(ki) = m /\ ki = pk
      BY <1>1, <2>4
    <3>2. m = n => KeysOf(params, As(known.stmt), change.before)
      BY <1>2, <2>1, <2>2, <3>1 DEF KeysOf, ki
    <3>3. QED
      BY <1>2, <1>3, <2>1, <2>2, <2>4, <3>1, <3>2 DEF DeleteOutcome, ki
  <2>5. QED
    BY <2>3, <2>4
<1>4. CASE ~known.ident
  <2>1. params = Kept(r, ToSet(pk))
    BY <1>4
  <2>2. /\ params \in Seq(Nat) /\ Len(params) <= m
        /\ \A j \in 1..m : j <= Len(params) <=> pk[j] <= n
        /\ \A j \in 1..Len(params) : pk[j] \in 1..n /\ params[j] = r[pk[j]]
    <3>1. n \in Nat /\ n <= n /\ Ordered(pk, m, n) /\ r \in [1..n -> Nat]
      BY <1>1
    <3>2. AreKept(params, r, pk, m, n)
      BY <2>1, <3>1, KeptValues, Zenon
    <3>3. QED
      BY <3>2 DEF AreKept
  <2>3. Len(params) = m
    <3>1. m \in 1..m /\ pk[m] <= n
      BY <1>1
    <3>2. Len(params) \in Nat
      BY <2>2
    <3>3. QED
      BY <1>1, <2>2, <3>1, <3>2
  <2>4. \A j \in 1..m : params[j] = r[pk[j]] /\ params[j] # Null
    BY <1>1, <2>2, <2>3
  <2>5. CASE known.stmt
    <3>1. Len(ki) = n /\ \A j \in 1..n : ki[j] = j
      BY <1>1, <2>5
    <3>2. m = n => KeysOf(params, As(known.stmt), change.before)
      BY <1>2, <2>2, <2>3, <2>4, <3>1 DEF KeysOf, ki
    <3>3. QED
      BY <1>2, <1>4, <2>3, <2>4, <2>5, <3>1, <3>2 DEF DeleteOutcome, ki
  <2>6. CASE ~known.stmt
    <3>1. Len(ki) = m /\ ki = pk
      BY <1>1, <2>6
    <3>2. KeysOf(params, As(known.stmt), change.before)
      BY <2>2, <2>3, <2>4, <3>1 DEF KeysOf, ki
    <3>3. QED
      BY <1>4, <2>3, <2>4, <2>6, <3>1, <3>2 DEF DeleteOutcome, ki
  <2>7. QED
    BY <2>5, <2>6
<1>5. QED
  BY <1>3, <1>4

\* A K tuple gives the keys that parse_keys read, or those of their values whose
\* positions are keys.
LEMMA KeyDeletes ==
  ASSUME NEW pk, NEW m, NEW n, NEW r, DeleteFacts(pk, m, n, r),
         known.ident \in BOOLEAN, known.stmt \in BOOLEAN, r = change.before,
         NEW k \in 1..m, k = m <=> \A j \in 1..(m - 1) : pk[j] = j,
         NEW old, old = [j \in 1..k |-> r[pk[j]]],
         NEW params, params = IF known.ident THEN old ELSE Kept(old, ToSet(pk)),
         Handled <=>
           /\ m = n \/ ~known.stmt
           /\ \A j \in 1..(m - (IF known.ident THEN 1 ELSE 0)) : pk[j] = j
  PROVE  DeleteOutcome(params)
<1> DEFINE ki == KeyIndexes(As(known.stmt))
<1>1. /\ Ordered(pk, m, n) /\ n \in Nat \ {0} /\ m <= n /\ m \in Nat \ {0}
      /\ r \in [1..n -> Nat] /\ \A j \in 1..m : pk[j] \in 1..n /\ r[pk[j]] # Null
      /\ ki = IF known.stmt THEN [c \in 1..n |-> c] ELSE pk
      /\ Len(ki) = IF known.stmt THEN n ELSE m
      /\ m = n => pk = [c \in 1..n |-> c]
  BY DEF DeleteFacts, Ordered
<1> HIDE DEF ki
<1>2. m = n => \A c \in 1..n : pk[c] = c
  <2>1. SUFFICES ASSUME m = n, NEW c \in 1..n PROVE pk[c] = c
    OBVIOUS
  <2>2. QED
    BY <1>1, <2>1
<1>3. k \in Nat /\ k <= m /\ m \in Nat /\ m - 1 \in Nat /\ 1..(m - 1) \subseteq 1..m
  BY <1>1
<1>4. \A j \in 1..k : j \in 1..m /\ old[j] = r[pk[j]] /\ old[j] \in Nat /\ old[j] # Null
  <2>1. ASSUME NEW j \in 1..k
        PROVE  j \in 1..m /\ old[j] = r[pk[j]] /\ old[j] \in Nat /\ old[j] # Null
    <3>1. j \in 1..m
      BY <1>3
    <3>2. pk[j] \in 1..n /\ r[pk[j]] # Null
      BY <1>1, <3>1
    <3>3. r[pk[j]] \in Nat
      BY <1>1, <3>2
    <3>4. QED
      BY <3>1, <3>2, <3>3
  <2>2. QED
    BY <2>1
<1>5. old \in Seq(Nat) /\ Len(old) = k /\ old \in [1..k -> Nat]
  BY <1>3, <1>4
<1>6. m = n => k = m
  BY <1>1, <1>2, <1>3
<1> DEFINE len == Len(params)
<1>7. CASE known.ident
  <2>1. params \in Seq(Nat) /\ len = k /\ \A j \in 1..k : params[j] = r[pk[j]] /\ params[j] # Null
    BY <1>4, <1>5, <1>7
  <2>2. Handled <=> (m = n \/ ~known.stmt) /\ k = m
    BY <1>7
  <2>3. CASE known.stmt
    <3>1. Len(ki) = n /\ \A j \in 1..n : ki[j] = j
      BY <1>1, <2>3
    <3>2. len = n => m = n /\ k = m
      BY <1>1, <1>3, <2>1
    <3>3. len = n => KeysOf(params, As(known.stmt), change.before)
      BY <1>2, <2>1, <3>1, <3>2, ZenonT(30) DEF KeysOf, ki
    <3>4. QED
      BY <1>6, <2>1, <2>2, <2>3, <3>1, <3>2, <3>3 DEF DeleteOutcome, ki
  <2>4. CASE ~known.stmt
    <3>1. Len(ki) = m /\ ki = pk
      BY <1>1, <2>4
    <3>2. len = m => KeysOf(params, As(known.stmt), change.before)
      BY <2>1, <3>1 DEF KeysOf, ki
    <3>3. QED
      BY <2>1, <2>2, <2>4, <3>1, <3>2 DEF DeleteOutcome, ki
  <2>5. QED
    BY <2>3, <2>4
<1>8. CASE ~known.ident
  <2>1. AreKept(params, old, pk, m, k)
    <3>1. params = Kept(old, ToSet(pk))
      BY <1>8
    <3>2. k <= n /\ k \in Nat
      BY <1>1, <1>3
    <3>3. Ordered(pk, m, n) /\ old \in [1..k -> Nat]
      BY <1>1, <1>5
    <3>4. QED
      BY <3>1, <3>2, <3>3, KeptValues, Zenon
  <2>2. /\ params \in Seq(Nat) /\ len <= m /\ len \in Nat
        /\ \A j \in 1..m : j <= len <=> pk[j] <= k
        /\ \A j \in 1..len : pk[j] \in 1..k /\ params[j] = old[pk[j]]
    <3>1. params \in Seq(Nat)
      BY <2>1 DEF AreKept
    <3>2. len \in Nat
      BY <3>1
    <3>3. QED
      BY <2>1, <3>1, <3>2 DEF AreKept
  <2>3. \A j \in 1..len : params[j] # Null
    <3>1. SUFFICES ASSUME NEW j \in 1..len PROVE params[j] # Null
      OBVIOUS
    <3>2. pk[j] \in 1..k /\ params[j] = old[pk[j]]
      BY <2>2
    <3>3. QED
      BY <1>4, <3>2
  <2> HIDE DEF len
  <2>4. len = m <=> \A j \in 1..m : pk[j] = j
    <3>1. m \in 1..m /\ pk[m] \in 1..n
      BY <1>1
    <3>2. ASSUME len = m PROVE \A j \in 1..m : pk[j] = j
      <4>1. pk[m] <= k
        BY <2>2, <3>1, <3>2
      <4>2. pk[m] <= m
        BY <1>1, <1>3, <3>1, <4>1
      <4>3. QED
        BY <1>1, <3>1, <4>2, FrontKeys
    <3>3. ASSUME \A j \in 1..m : pk[j] = j PROVE len = m
      <4>1. k = m
        BY <1>3, <3>3
      <4>2. pk[m] <= k
        BY <1>3, <3>1, <3>3, <4>1
      <4>3. m <= len
        BY <2>2, <3>1, <4>2
      <4>4. QED
        BY <1>1, <2>2, <4>3
    <3>4. QED
      BY <3>2, <3>3
  <2>5. len = m => \A j \in 1..m : params[j] = r[pk[j]]
    <3>1. SUFFICES ASSUME len = m, NEW j \in 1..m PROVE params[j] = r[pk[j]]
      OBVIOUS
    <3>2. pk[j] = j /\ j \in 1..len
      BY <2>4, <3>1
    <3>3. params[j] = old[pk[j]] /\ pk[j] \in 1..k
      BY <2>2, <3>2
    <3>4. old[j] = r[pk[j]]
      BY <1>4, <3>2, <3>3
    <3>5. QED
      BY <3>2, <3>3, <3>4
  <2>6. Handled <=> (m = n \/ ~known.stmt) /\ len = m
    <3>1. m - 0 = m
      BY <1>1
    <3>2. QED
      BY <1>8, <2>4, <3>1
  <2>7. params \in Seq(Nat) /\ Len(params) = len
    BY <2>2 DEF len
  <2>8. CASE known.stmt
    <3>1. Len(ki) = n /\ \A j \in 1..n : ki[j] = j
      BY <1>1, <2>8
    <3>2. len = n => m = n /\ len = m
      BY <1>1, <2>2
    <3>3. len = n => \A j \in 1..len : params[j] = r[ki[j]]
      BY <1>2, <2>5, <3>1, <3>2
    <3>5. len = n => KeysOf(params, As(known.stmt), change.before)
      BY <2>7, <3>1, <3>3, ZenonT(30) DEF KeysOf, ki
    <3>4. QED
      BY <2>3, <2>6, <2>8, <3>1, <3>2, <3>5 DEF DeleteOutcome, ki, len
  <2>9. CASE ~known.stmt
    <3>1. Len(ki) = m /\ ki = pk
      BY <1>1, <2>9
    <3>2. len = m => \A j \in 1..len : params[j] = r[ki[j]]
      BY <2>5, <3>1
    <3>4. len = m => KeysOf(params, As(known.stmt), change.before)
      BY <2>7, <3>1, <3>2 DEF KeysOf, ki
    <3>3. QED
      BY <2>3, <2>6, <2>9, <3>1, <3>4 DEF DeleteOutcome, ki, len
  <2>10. QED
    BY <2>8, <2>9
<1>9. QED
  BY <1>7, <1>8

LEMMA DeleteDone ==
  ASSUME RowInv, Fitting(shape, rows, change), change.op = "delete",
         known \in [ident : BOOLEAN, stmt : BOOLEAN], DeleteEvent
  PROVE  DeleteOutcome(Params)
<1> DEFINE pk == shape.pk
<1> DEFINE m == Len(pk)
<1> DEFINE n == shape.cols
<1> DEFINE r == change.before
<1>1. shape \in Shapes
  BY DEF RowInv
<1>2. DeleteFacts(pk, m, n, r) /\ known.ident \in BOOLEAN /\ known.stmt \in BOOLEAN
  BY DeleteHas, Zenon
<1>3. As(known.ident).full = known.ident
      /\ Keys(As(known.ident)) = IF known.ident THEN 1..n ELSE ToSet(pk)
  BY <1>1, <1>2, AsShape
<1>4. Params = IF known.ident THEN event.old ELSE Kept(event.old, ToSet(pk))
  BY <1>2, <1>3 DEF Params, DeleteParams, Kept
<1>5. AllKeys <=> m = n
  BY DEF AllKeys
<1> HIDE DEF pk, m, n, r
<1>6. /\ m \in Nat \ {0} /\ n \in Nat \ {0}
      /\ m = n => \A c \in 1..n : pk[c] = c /\ r[c] # Null
  <2>1. /\ m \in Nat \ {0} /\ n \in Nat \ {0} /\ \A j \in 1..m : r[pk[j]] # Null
        /\ m = n => pk = [c \in 1..n |-> c]
    BY <1>2 DEF DeleteFacts, Ordered
  <2>2. SUFFICES ASSUME m = n, NEW c \in 1..n PROVE pk[c] = c /\ r[c] # Null
    BY <2>1
  <2>3. pk[c] = c
    BY <2>1, <2>2
  <2>4. r[pk[c]] # Null
    BY <2>1, <2>2
  <2>5. QED
    BY <2>3, <2>4
<1>7. CASE WholeOld
  <2>1. event.old = r
    BY <1>7 DEF DeleteEvent, r
  <2>2. Handled <=> /\ known.ident = known.stmt \/ m = n
                    /\ known.stmt => \A c \in 1..n : r[c] # Null
    <3>1. CASE shape.full
      BY <1>5, <3>1 DEF Handled, DeleteHandled, n, r
    <3>2. CASE ~shape.full
      <4>1. m = n
        BY <1>7, <3>2 DEF WholeOld, m, n, pk
      <4>2. InFront(Len(shape.pk) - (IF known.ident THEN 1 ELSE 0))
        <5>1. \A i \in 1..(m - (IF known.ident THEN 1 ELSE 0)) : i \in 1..n
          BY <1>6, <4>1
        <5>2. \A i \in 1..(m - (IF known.ident THEN 1 ELSE 0)) : pk[i] = i
          BY <1>6, <4>1, <5>1
        <5>3. QED
          BY <5>2 DEF InFront, pk, m
      <4>3. Handled
        BY <1>5, <3>2, <4>1, <4>2 DEF Handled, DeleteHandled
      <4>4. QED
        BY <1>6, <4>1, <4>3
    <3>3. QED
      BY <3>1, <3>2
  <2>3. Params = IF known.ident THEN r ELSE Kept(r, ToSet(pk))
    BY <1>4, <2>1
  <2>4. QED
    BY <1>2, <2>2, <2>3, WholeDeletes DEF r
<1>8. CASE ~WholeOld
  <2>1. PICK k : FirstKeys(k, shape) /\ event.old = KeyValues(shape, r, k)
    BY <1>8 DEF DeleteEvent, r
  <2>2. shape.cols <= Unrolled /\ ~shape.full
    BY <1>8 DEF DeleteEvent, WholeOld
  <2>3. k \in 1..m /\ event.old = [j \in 1..k |-> r[pk[j]]]
    BY <2>1 DEF FirstKeys, KeyValues, m, pk
  <2>4. k = m <=> \A j \in 1..(m - 1) : pk[j] = j
    BY <1>1, <2>1, FirstIsLast DEF m, pk
  <2>5. Handled <=> /\ m = n \/ ~known.stmt
                    /\ \A j \in 1..(m - (IF known.ident THEN 1 ELSE 0)) : pk[j] = j
    BY <1>5, <2>2 DEF Handled, DeleteHandled, InFront, m, pk
  <2>6. QED
    BY <1>2, <1>4, <2>3, <2>4, <2>5, KeyDeletes DEF r
<1>9. QED
  BY <1>7, <1>8

------------------------------------------------------------------------------
\* The target, delivered to once or again.

TargetInv ==
  /\ pg \in {"none", "ok", "error"}
  /\ pg = "none" => target = rows
  /\ pg # "none" => decoded = "event" /\ Landed(target)

LEMMA DeleteDelivered ==
  ASSUME RowInv, Fitting(shape, rows, change), change.op = "delete",
         known \in [ident : BOOLEAN, stmt : BOOLEAN], DeleteEvent,
         target = rows \/ Landed(target)
  PROVE  Landed(IF Len(Params) = Len(KeyIndexes(As(known.stmt)))
                THEN Deleted(As(known.stmt), target, Params) ELSE target)
<1> DEFINE executes == Len(Params) = Len(KeyIndexes(As(known.stmt)))
<1> DEFINE null == \E j \in 1..Len(Params) : Params[j] = Null
<1>1. /\ executes => KeysOf(Params, As(known.stmt), change.before)
      /\ Handled <=> executes /\ ~null
  BY DeleteDone DEF DeleteOutcome
<1>2. known.stmt \in BOOLEAN
  OBVIOUS
<1>3. ~Moves(shape, change)
  BY DEF Moves
<1>4. target = rows \/ target = After
  BY <1>3 DEF Landed
<1>5. executes => Deleted(As(known.stmt), target, Params) = IF null THEN target ELSE After
  BY <1>1, <1>2, <1>4, DeletesOne
<1> HIDE DEF executes, null
<1>6. CASE Handled
  BY <1>1, <1>5, <1>6 DEF Landed, executes
<1>7. CASE ~Handled
  <2>1. target = rows
    BY <1>3, <1>7 DEF Landed
  <2>2. executes => Deleted(As(known.stmt), target, Params) = rows
    BY <1>1, <1>5, <1>7, <2>1
  <2>3. QED
    BY <1>7, <2>1, <2>2 DEF Landed, executes
<1>8. QED
  BY <1>6, <1>7

LEMMA UpsertDelivered ==
  ASSUME RowInv, Fitting(shape, rows, change), change.op # "delete",
         known \in [ident : BOOLEAN, stmt : BOOLEAN], UpsertEvent,
         target = rows \/ Landed(target)
  PROVE  Landed(IF MergeToasted(event).ok /\ UpsertPrepares(UpsertShape)
                THEN Upserted(UpsertShape, target, MergeToasted(event).row) ELSE target)
<1> DEFINE merged == MergeToasted(event)
<1> DEFINE executes == merged.ok /\ UpsertPrepares(UpsertShape)
<1>1. shape \in Shapes
  BY DEF RowInv
<1>2. /\ merged.ok <=> change.toast = {} \/ shape.full
      /\ merged.ok => merged.row = change.after
  BY MergeOutcome
<1>3. /\ UpsertShape.pk = shape.pk
      /\ UpsertPrepares(UpsertShape) <=>
           AllKeys \/ (~(known.ident /\ known.stmt) /\ shape.cols \notin ToSet(shape.pk))
      /\ UpsertPrepares(UpsertShape) => (DoNothing(UpsertShape) <=> AllKeys)
  BY <1>1, PreparesUpsert
<1> HIDE DEF merged
<1>4. Handled <=> executes /\ ~Moves(shape, change)
  BY <1>2, <1>3 DEF Handled, UpsertHandled
<1>5. CASE executes
  <2>1. DoNothing(UpsertShape) <=> AllKeys
    BY <1>3, <1>5
  <2>2. Handled <=> ~Moves(shape, change)
    BY <1>4, <1>5
  <2>3. Landed(Upserted(UpsertShape, target, change.after))
    <3>1. UpsertShape.pk = shape.pk
      BY <1>3
    <3> HIDE DEF executes
    <3>2. QED
      BY <2>1, <2>2, <3>1, UpsertLands
  <2>4. merged.row = change.after
    BY <1>2, <1>5
  <2>5. QED
    BY <1>5, <2>3, <2>4 DEF merged
<1>6. CASE ~executes
  <2>1. ~Handled
    BY <1>4, <1>6
  <2>2. Landed(target)
    BY <2>1 DEF Landed
  <2>3. QED
    BY <1>6, <2>2 DEF merged
<1>7. QED
  BY <1>5, <1>6

LEMMA TargetStep ==
  ASSUME RowInv, EventInv, TargetInv, [Next]_vars PROVE TargetInv'
<1>1. CASE Change \/ Decode
  <2>1. decoded = "no" /\ pg' = pg /\ target' = target /\ rows' = rows
    BY <1>1 DEF Change, Decode, RowInv, Fitting, IsChange, NoChange
  <2>2. pg = "none"
    BY <2>1 DEF TargetInv
  <2>3. QED
    BY <2>1, <2>2 DEF TargetInv
<1>2. CASE OnEventPostgres
  <2>1. /\ shape' = shape /\ rows' = rows /\ change' = change /\ known' = known
        /\ decoded' = decoded /\ decoded = "event" /\ pg' \in {"ok", "error"}
    BY <1>2 DEF OnEventPostgres, Delivered
  <2>2. Fitting(shape, rows, change)
    BY <2>1 DEF RowInv
  <2>3. /\ event.op = change.op /\ known \in [ident : BOOLEAN, stmt : BOOLEAN]
        /\ IF change.op = "delete" THEN DeleteEvent ELSE UpsertEvent
    BY <2>1 DEF EventInv
  <2>4. target = rows \/ Landed(target)
    BY DEF TargetInv
  <2>5. Landed(target')
    <3>1. CASE change.op = "delete"
      <4>1. target' = IF Len(Params) = Len(KeyIndexes(As(known.stmt)))
                      THEN Deleted(As(known.stmt), target, Params) ELSE target
        BY <1>2, <2>3, <3>1 DEF OnEventPostgres, Params
      <4>2. QED
        BY <2>2, <2>3, <2>4, <3>1, <4>1, DeleteDelivered
    <3>2. CASE change.op # "delete"
      <4>1. target' = IF MergeToasted(event).ok /\ UpsertPrepares(UpsertShape)
                      THEN Upserted(UpsertShape, target, MergeToasted(event).row) ELSE target
        BY <1>2, <2>3, <3>2 DEF OnEventPostgres
      <4>2. QED
        BY <2>2, <2>3, <2>4, <3>2, <4>1, UpsertDelivered
    <3>3. QED
      BY <3>1, <3>2
  <2>6. Landed(target)' = Landed(target')
    BY <2>1 DEF Landed, Handled, DeleteHandled, UpsertHandled, AllKeys, InFront, After
  <2>7. QED
    BY <2>1, <2>5, <2>6 DEF TargetInv
<1>3. CASE OnEventFeldera \/ UNCHANGED vars
  <2>1. /\ shape' = shape /\ rows' = rows /\ change' = change /\ known' = known
        /\ decoded' = decoded /\ pg' = pg /\ target' = target
    BY <1>3 DEF OnEventFeldera, vars
  <2>2. Landed(target)' = Landed(target)
    BY <2>1 DEF Landed, Handled, DeleteHandled, UpsertHandled, AllKeys, InFront, After
  <2>3. QED
    BY <2>1, <2>2 DEF TargetInv
<1>4. QED
  BY <1>1, <1>2, <1>3 DEF Next

------------------------------------------------------------------------------
\* The theorems.

ChangeInv == RowInv /\ DecodedExactly /\ EventInv /\ TargetInv /\ MirrorInv

LEMMA ChangeHolds == Spec => []ChangeInv
<1>1. Init => ChangeInv
  <2>1. Init => TargetInv /\ MirrorInv /\ DecodedExactly
    BY DEF Init, TargetInv, MirrorInv, DecodedExactly
  <2>2. QED
    BY <2>1, RowInit, EventInit DEF ChangeInv
<1>2. ChangeInv /\ [Next]_vars => ChangeInv'
  BY RowStep, DecodedStep, EventStep, TargetStep, MirrorStep DEF ChangeInv
<1>3. QED
  BY <1>1, <1>2, PTL DEF Spec

\* The rows after a change are rows of the table.
LEMMA RowsAfter ==
  ASSUME RowInv, change = NoChange \/ Fitting(shape, rows, change)
  PROVE  /\ rows \subseteq RowsOf(shape) /\ After \subseteq RowsOf(shape)
         /\ Moves(shape, change) => rows \cup {change.after} \subseteq RowsOf(shape)
         /\ Moves(shape, change) => After # rows /\ After # rows \cup {change.after}
<1>1. rows \subseteq RowsOf(shape)
  BY DEF RowInv
<1>2. CASE change = NoChange
  BY <1>1, <1>2 DEF After, Moves, NoChange
<1>3. CASE Fitting(shape, rows, change)
  <2>1. change.op # "delete" => change.after \in RowsOf(shape)
    BY <1>3 DEF Fitting, IsChange
  <2>2. Moves(shape, change) => change.op = "update" /\ change.before \in rows
    BY <1>3 DEF Moves, Fitting, Gone
  <2>3. Moves(shape, change) => change.before # change.after
    BY SameKeyOfItself DEF Moves
  <2>4. Moves(shape, change) => change.before \notin After
    BY <2>2, <2>3 DEF After
  <2>5. After \subseteq RowsOf(shape)
    BY <1>1, <2>1 DEF After
  <2>6. QED
    BY <1>1, <2>1, <2>2, <2>4, <2>5
<1>4. QED
  BY <1>2, <1>3

\* In every reachable state, whatever the table, the change and the deliveries,
\* each variable has its type; an event has its change's operation and as many
\* columns as the table, and neither target ever holds what is no row of it.
THEOREM RowTypeCorrect == Spec => []TypeOK
<1>1. ASSUME ChangeInv PROVE TypeOK
  <2>1. RowInv /\ EventInv /\ TargetInv /\ MirrorInv
    BY <1>1 DEF ChangeInv
  <2>2. /\ shape \in Shapes /\ rows \subseteq RowsOf(shape)
        /\ (change = NoChange /\ decoded = "no") \/ Fitting(shape, rows, change)
    BY <2>1 DEF RowInv
  <2>3. change.op \in {"none", "insert", "update", "delete"}
    BY <2>2 DEF NoChange, Fitting, IsChange
  <2>4. /\ known \in [ident : BOOLEAN, stmt : BOOLEAN]
        /\ decoded \in {"no", "event", "dropped", "panicked"}
    BY <2>1 DEF EventInv
  <2>5. event.op = IF decoded = "event" THEN change.op ELSE "none"
    BY <2>1 DEF EventInv, NoEvent
  <2>6. event.op \in {"insert", "update"} => Len(event.row) = shape.cols
    <3>1. SUFFICES ASSUME event.op \in {"insert", "update"}
                   PROVE  Len(event.row) = shape.cols
      OBVIOUS
    <3>2. decoded = "event" /\ change.op # "delete" /\ UpsertEvent
      BY <2>1, <2>5, <3>1 DEF EventInv
    <3>3. change.after \in RowsOf(shape)
      BY <2>2, <3>2 DEF Fitting, IsChange
    <3>4. Sent(change.after, change.toast) \in [1..shape.cols -> 0..257]
      BY <2>2, <3>3, SentValues, Zenon
    <3>5. event.row = Sent(change.after, change.toast)
      BY <3>2 DEF UpsertEvent
    <3>6. shape.cols \in Nat
      BY <2>2, <3>3, RowValues
    <3>7. QED
      BY <3>4, <3>5, <3>6
  <2>7. /\ pg \in {"none", "ok", "error"} /\ fel \in {"none", "ok", "error"}
        /\ target \in {rows, After} \/ (Moves(shape, change) /\ target = rows \cup {change.after})
        /\ mirror \in {rows, After}
    BY <2>1 DEF TargetInv, MirrorInv, Landed
  <2>8. target \subseteq RowsOf(shape) /\ mirror \subseteq RowsOf(shape)
    <3>1. /\ rows \subseteq RowsOf(shape) /\ After \subseteq RowsOf(shape)
          /\ Moves(shape, change) => rows \cup {change.after} \subseteq RowsOf(shape)
      BY <2>1, <2>2, RowsAfter
    <3>2. QED
      BY <2>7, <3>1
  <2>9. QED
    BY <2>2, <2>3, <2>4, <2>5, <2>6, <2>7, <2>8 DEF TypeOK
<1>2. QED
  BY <1>1, ChangeHolds, PTL

\* For every table, number of columns and place of its keys, with any columns
\* toasted, under whichever identities relation cache and statement have the
\* table, and however often the event is delivered: the Postgres target is as it
\* was or as the source is, but for a moved row that may be left where it was as
\* well.  What parse_keys misses, on_event filters by position, or a statement of
\* another identity counts differently never touches another row (parse_keys,
\* merge_toasted, UpsertStatement::gen_str, PostgresSink::on_event).
THEOREM ChangesNothingElse == Spec => []AppliedOrUntouched
<1>1. ChangeInv => AppliedOrUntouched
  BY DEF ChangeInv, TargetInv, Landed, AppliedOrUntouched
<1>2. QED
  BY <1>1, ChangeHolds, PTL

\* Which changes arrive in Postgres: exactly those that Handled describes, by the
\* table's shape, the replica identity, the identities that the connector has it
\* by, the nulls and the toasted columns; they are there after the first delivery
\* and after every other.
THEOREM ArrivesExactly == Spec => []ArrivesIffHandled
<1>1. ASSUME ChangeInv PROVE ArrivesIffHandled
  <2>1. RowInv /\ EventInv /\ TargetInv
    BY <1>1 DEF ChangeInv
  <2>2. CASE pg = "none"
    <3>1. DealtWith => ~Handled /\ target = rows
      BY <2>1, <2>2 DEF DealtWith, EventInv, TargetInv
    <3>2. QED
      BY <3>1 DEF ArrivesIffHandled
  <2>3. CASE pg # "none"
    <3>1. decoded = "event" /\ Landed(target)
      BY <2>1, <2>3 DEF TargetInv
    <3>2. change = NoChange \/ Fitting(shape, rows, change)
      BY <2>1 DEF RowInv
    <3>3. Moves(shape, change) => After # rows /\ After # rows \cup {change.after}
      BY <2>1, <3>2, RowsAfter
    <3>4. CASE Handled
      BY <3>1, <3>4 DEF Landed, ArrivesIffHandled
    <3>5. CASE ~Handled
      BY <3>1, <3>3, <3>5 DEF Landed, ArrivesIffHandled
    <3>6. QED
      BY <3>4, <3>5
  <2>4. QED
    BY <2>2, <2>3
<1>2. QED
  BY <1>1, ChangeHolds, PTL

==============================================================================
