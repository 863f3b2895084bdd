--------------------------- MODULE TypedRowsProofs ---------------------------
(* Theorems about TypedRows, for all tables: the search for terminators, the  *)
(* parsing of descriptions and of rows, the way through Avro, and from those  *)
(* what the sinks make of a row, with the inductive invariant that holds the  *)
(* definitions, the caches and the last row together.                         *)
EXTENDS TypedRows, DataLemmas

------------------------------------------------------------------------------
(* find_null_word finds the first null.                                      *)

Words == [1..8 -> Byte]

\* b[j] is what is borrowed from byte j.
Borrows(b, word) ==
  /\ b[1] = 0
  /\ \A j \in 2..8 : b[j] = IF word[j - 1] < 1 + b[j - 1] THEN 1 ELSE 0

LEMMA BorrowsExist ==
  ASSUME NEW word \in Words
  PROVE  \E b : /\ Borrows(b, word)
                /\ Marked(word) = {j \in 1..8 : /\ word[j] < 128
                                                /\ (word[j] + 255 - b[j]) % 256 >= 128}
<1> DEFINE Out(j, b) == IF word[j] < 1 + b THEN 1 ELSE 0
<1> DEFINE b2 == Out(1, 0)
<1> DEFINE b3 == Out(2, b2)
<1> DEFINE b4 == Out(3, b3)
<1> DEFINE b5 == Out(4, b4)
<1> DEFINE b6 == Out(5, b5)
<1> DEFINE b7 == Out(6, b6)
<1> DEFINE b8 == Out(7, b7)
<1> DEFINE f == [j \in 1..8 |-> <<0, b2, b3, b4, b5, b6, b7, b8>>[j]]
<1> DEFINE IsBorrow(h) == h = [j \in 1..8 |-> IF j = 1 THEN 0
                                 ELSE IF word[j - 1] < 1 + h[j - 1] THEN 1 ELSE 0]
<1> DEFINE b == CHOOSE h : IsBorrow(h)
<1>1. /\ f[1] = 0 /\ f[2] = Out(1, f[1]) /\ f[3] = Out(2, f[2]) /\ f[4] = Out(3, f[3])
      /\ f[5] = Out(4, f[4]) /\ f[6] = Out(5, f[5]) /\ f[7] = Out(6, f[6])
      /\ f[8] = Out(7, f[7])
  <2> HIDE DEF b2, b3, b4, b5, b6, b7, b8
  <2>1. /\ f[1] = 0 /\ f[2] = b2 /\ f[3] = b3 /\ f[4] = b4 /\ f[5] = b5 /\ f[6] = b6
        /\ f[7] = b7 /\ f[8] = b8
    OBVIOUS
  <2> HIDE DEF f, Out
  <2>2. QED
    BY <2>1 DEF b2, b3, b4, b5, b6, b7, b8
<1>2. \A j \in 1..8 : j = 1 \/ j = 2 \/ j = 3 \/ j = 4 \/ j = 5 \/ j = 6 \/ j = 7 \/ j = 8
  OBVIOUS
<1>3. f = [j \in 1..8 |-> f[j]]
  OBVIOUS
<1>4. ASSUME NEW j \in 1..8
      PROVE  f[j] = IF j = 1 THEN 0 ELSE IF word[j - 1] < 1 + f[j - 1] THEN 1 ELSE 0
  <2> HIDE DEF f
  <2>1. QED
    BY <1>1, <1>2
<1>5. IsBorrow(f)
  <2> HIDE DEF f
  <2>1. QED
    BY <1>3, <1>4
<1>6. IsBorrow(b)
  <2> HIDE DEF f, IsBorrow
  <2>1. QED
    BY <1>5
<1>7. Marked(word) = {j \in 1..8 : word[j] < 128 /\ (word[j] + 255 - b[j]) % 256 >= 128}
  BY DEF Marked
<1>8. Borrows(b, word)
  <2> HIDE DEF b
  <2>1. QED
    BY <1>6 DEF Borrows
<1>9. QED
  BY <1>7, <1>8

\* Up to the first null, only it is marked: nothing is borrowed before it.
LEMMA MarksFirstNull ==
  ASSUME NEW word \in Words, NEW p \in 1..8, \A i \in 1..8 : i < p => word[i] # 0
  PROVE  p \in Marked(word) <=> word[p] = 0
<1>1. PICK b : /\ Borrows(b, word)
               /\ Marked(word) = {j \in 1..8 : /\ word[j] < 128
                                               /\ (word[j] + 255 - b[j]) % 256 >= 128}
  BY BorrowsExist
<1>2. \A i \in 1..8 : word[i] \in Byte /\ word[i] \in Nat
  BY DEF Words, Byte
<1> DEFINE K == {k \in Nat : k + 1 <= p => b[k + 1] = 0}
<1>3. 0 \in K
  BY <1>1 DEF Borrows
<1>4. ASSUME NEW k \in Nat, k \in K PROVE k + 1 \in K
  <2>1. SUFFICES ASSUME (k + 1) + 1 <= p PROVE b[(k + 1) + 1] = 0
    OBVIOUS
  <2>2. b[k + 1] = 0 /\ k + 1 \in 1..8 /\ k + 2 \in 2..8 /\ k + 1 < p
    BY <1>4, <2>1
  <2>3. b[k + 2] = IF word[k + 1] < 1 + b[k + 1] THEN 1 ELSE 0
    BY <1>1, <2>2 DEF Borrows
  <2>4. word[k + 1] # 0 /\ word[k + 1] \in Nat
    BY <1>2, <2>2
  <2>5. QED
    BY <2>2, <2>3, <2>4
<1>5. Nat \subseteq K
  <2> HIDE DEF K
  <2>1. QED
    BY <1>3, <1>4, Induction
<1>6. b[p] = 0
  <2>1. p - 1 \in K /\ (p - 1) + 1 = p
    <3> HIDE DEF K
    <3>1. QED
      BY <1>5
  <2>2. QED
    BY <2>1
<1>7. p \in Marked(word) <=> word[p] < 128 /\ (word[p] + 255) % 256 >= 128
  BY <1>1, <1>2, <1>6
<1>8. \A w \in Byte : (w < 128 /\ (w + 255) % 256 >= 128) <=> w = 0
  <2>1. ASSUME NEW w \in Byte, w # 0 PROVE (w + 255) % 256 = w - 1
    BY <2>1 DEF Byte
  <2>2. (0 + 255) % 256 = 255
    OBVIOUS
  <2>3. QED
    BY <2>1, <2>2 DEF Byte
<1>9. QED
  BY <1>2, <1>7, <1>8

\* n is where the first null is, or the length of data.
FirstNull(data, n) ==
  /\ n \in 0..Len(data)
  /\ \A i \in 0..(Len(data) - 1) : i < n => data[i + 1] # 0
  /\ n < Len(data) => data[n + 1] = 0

LEMMA FirstNullExists ==
  ASSUME NEW data \in Seq(Byte)
  PROVE  \E n : FirstNull(data, n)
<1> DEFINE T == {i \in Nat : i < Len(data) /\ data[i + 1] = 0} \cup {Len(data)}
<1>1. Len(data) \in Nat
  OBVIOUS
<1>2. PICK n \in T : \A x \in T : n <= x
  <2>1. T \in SUBSET Nat /\ T # {}
    BY <1>1
  <2> HIDE DEF T
  <2>2. QED
    BY <2>1, LeastExists
<1>3. n \in 0..Len(data) /\ (n < Len(data) => data[n + 1] = 0)
  BY <1>1, <1>2
<1>4. \A i \in 0..(Len(data) - 1) : i < n => data[i + 1] # 0
  <2>1. SUFFICES ASSUME NEW i \in 0..(Len(data) - 1), i < n, data[i + 1] = 0
                 PROVE  FALSE
    OBVIOUS
  <2>2. i \in T
    BY <1>1, <2>1
  <2>3. n <= i
    BY <1>2, <2>2
  <2>4. QED
    BY <1>3, <2>1, <2>3
<1>5. QED
  BY <1>3, <1>4 DEF FirstNull

LEMMA MinIs ==
  ASSUME NEW S \in SUBSET Nat, NEW n \in S, \A x \in S : n <= x
  PROVE  Min(S) = n
<1>1. \A m \in S : (\A x \in S : m <= x) => m = n
  OBVIOUS
<1>2. QED
  BY <1>1 DEF Min

LEMMA MinType ==
  ASSUME NEW S \in SUBSET Nat, S # {}
  PROVE  Min(S) \in S /\ \A x \in S : Min(S) <= x
BY LeastExists DEF Min

Starts(data) == {i \in Nat : i + 8 <= Len(data)}

\* l bytes of data, from the one at n on.
LEMMA PartIs ==
  ASSUME NEW data \in Seq(Byte), NEW n \in Nat, NEW l \in Nat, n + l <= Len(data)
  PROVE  /\ SubSeq(data, n + 1, n + l) \in Seq(Byte)
         /\ Len(SubSeq(data, n + 1, n + l)) = l
         /\ \A j \in 1..l : SubSeq(data, n + 1, n + l)[j] = data[n + j]
<1> DEFINE a == n + 1
<1> DEFINE b == n + l
<1>1. a \in Int /\ b \in Int /\ b - a + 1 = l /\ (a <= b <=> l > 0)
  OBVIOUS
<1>2. \A i \in a..b : data[i] \in Byte
  <2>1. ASSUME NEW i \in a..b PROVE data[i] \in Byte
    <3>1. i \in 1..Len(data)
      OBVIOUS
    <3>2. QED
      BY <3>1
  <2>2. QED
    BY <2>1
<1>3. \A j \in 1..l : a + j - 1 = n + j
  OBVIOUS
<1> HIDE DEF a, b
<1>4. /\ SubSeq(data, a, b) \in Seq(Byte)
      /\ Len(SubSeq(data, a, b)) = IF a <= b THEN b - a + 1 ELSE 0
      /\ \A i \in 1..(b - a + 1) : SubSeq(data, a, b)[i] = data[a + i - 1]
  BY <1>1, <1>2, SubSeqProperties
<1>5. Len(SubSeq(data, a, b)) = l
  BY <1>1, <1>4
<1>6. \A j \in 1..l : SubSeq(data, a, b)[j] = data[n + j]
  BY <1>1, <1>3, <1>4
<1>7. QED
  BY <1>4, <1>5, <1>6 DEF a, b

\* What is marked in any word is not before the first null; and that is, if some
\* word begins no more than seven bytes before it.
LEMMA MarkedFrom ==
  ASSUME NEW data \in Seq(Byte), NEW n, FirstNull(data, n),
         NEW i \in Starts(data)
  PROVE  /\ \A j \in Marked(Word(data, i)) : j \in 1..8 /\ n <= i + j - 1 /\ i + j - 1 < Len(data)
         /\ i <= n /\ n < i + 8 => n - i + 1 \in Marked(Word(data, i))
<1> DEFINE word == Word(data, i)
<1>1. i \in Nat /\ i + 8 <= Len(data) /\ Len(data) \in Nat /\ n \in Nat /\ n <= Len(data)
  BY DEF Starts, FirstNull
<1>2. word \in Words /\ \A j \in 1..8 : word[j] = data[i + j]
  <2>1. Len(word) = 8 /\ word \in Seq(Byte) /\ \A j \in 1..8 : word[j] = data[i + j]
    BY <1>1, PartIs DEF Word
  <2>2. word \in Words
    <3> HIDE DEF word
    <3>1. word \in [1..8 -> Byte]
      BY <2>1, LenProperties
    <3>2. QED
      BY <3>1 DEF Words
  <2>3. QED
    BY <2>1, <2>2
<1> HIDE DEF word
<1>3. \A j \in 1..8 : i + j - 1 < n => word[j] # 0
  <2>1. SUFFICES ASSUME NEW j \in 1..8, i + j - 1 < n PROVE word[j] # 0
    OBVIOUS
  <2>2. i + j - 1 \in 0..(Len(data) - 1) /\ (i + j - 1) + 1 = i + j
    BY <1>1
  <2>3. data[i + j] # 0
    BY <2>1, <2>2 DEF FirstNull
  <2>4. QED
    BY <1>2, <2>3
<1>4. ASSUME NEW j \in Marked(word)
      PROVE  j \in 1..8 /\ n <= i + j - 1 /\ i + j - 1 < Len(data)
  <2>1. j \in 1..8
    BY DEF Marked
  <2>2. ASSUME i + j - 1 < n PROVE FALSE
    <3>1. \A k \in 1..8 : k <= j => word[k] # 0
      BY <1>1, <1>3, <2>1, <2>2
    <3>2. word[j] = 0
      BY <1>2, <2>1, <3>1, MarksFirstNull
    <3>3. QED
      BY <2>1, <3>1, <3>2
  <2>3. QED
    BY <1>1, <2>1, <2>2
<1>5. ASSUME i <= n, n < i + 8 PROVE n - i + 1 \in Marked(word)
  <2>1. n - i + 1 \in 1..8 /\ i + (n - i + 1) = n + 1 /\ n < Len(data)
    BY <1>1, <1>5
  <2>2. word[n - i + 1] = 0
    BY <1>2, <2>1 DEF FirstNull
  <2>3. \A k \in 1..8 : k < n - i + 1 => word[k] # 0
    BY <1>1, <1>3, <1>5
  <2>4. QED
    BY <1>2, <2>1, <2>2, <2>3, MarksFirstNull
<1>6. QED
  BY <1>4, <1>5 DEF word

LEMMA MarkedInWords ==
  ASSUME NEW data \in Seq(Byte), NEW n, FirstNull(data, n),
         NEW starts \in SUBSET Starts(data)
  PROVE  /\ FirstMarked(data, starts) \in n..Len(data)
         /\ (\E i \in starts : i <= n /\ n < i + 8) => FirstMarked(data, starts) = n
<1> DEFINE B == UNION {{i + j - 1 : j \in Marked(Word(data, i))} : i \in starts}
<1> DEFINE T == {Len(data)} \cup B
<1>1. Len(data) \in Nat /\ n \in Nat /\ n <= Len(data) /\ starts \subseteq Nat
  BY DEF FirstNull, Starts
<1>2. ASSUME NEW x \in B PROVE x \in Nat /\ n <= x /\ x < Len(data)
  <2>1. PICK i \in starts : \E j \in Marked(Word(data, i)) : x = i + j - 1
    OBVIOUS
  <2>2. PICK j \in Marked(Word(data, i)) : x = i + j - 1
    BY <2>1
  <2>3. j \in 1..8 /\ n <= i + j - 1 /\ i + j - 1 < Len(data) /\ i \in Nat
    BY <1>1, MarkedFrom
  <2>4. QED
    BY <2>2, <2>3
<1>3. T \in SUBSET Nat /\ T # {} /\ \A x \in T : n <= x /\ x <= Len(data)
  <2> HIDE DEF B
  <2>1. QED
    BY <1>1, <1>2
<1>4. FirstMarked(data, starts) = Min(T)
  BY DEF FirstMarked
<1>5. Min(T) \in T
  <2> HIDE DEF T
  <2>1. QED
    BY <1>3, MinType
<1>6. ASSUME NEW i \in starts, i <= n, n < i + 8 PROVE Min(T) = n
  <2>1. n - i + 1 \in Marked(Word(data, i)) /\ i \in Nat
    BY <1>1, <1>6, MarkedFrom
  <2>2. i + (n - i + 1) - 1 = n
    BY <1>1, <2>1
  <2>3. n \in T
    BY <2>1, <2>2
  <2> HIDE DEF T
  <2>4. QED
    BY <1>3, <2>3, MinIs
<1>7. Min(T) \in n..Len(data)
  <2> DEFINE m == Min(T)
  <2>1. m \in T
    BY <1>5
  <2> HIDE DEF m, T
  <2>2. m \in n..Len(data)
    BY <1>1, <1>3, <2>1
  <2>3. QED
    BY <2>2 DEF m
<1>8. QED
  BY <1>4, <1>6, <1>7

\* Both searches find the first null, wherever it lies: the words leave no byte
\* out, and what a borrow marks wrongly is behind it.
LEMMA FindsFirstNull ==
  ASSUME NEW data \in Seq(Byte), NEW arch, NEW n, FirstNull(data, n)
  PROVE  FindNullWord(data, arch) = n
<1> DEFINE len == Len(data)
<1>1. len \in Nat /\ n \in Nat /\ n <= len
  BY DEF FirstNull
<1>2. ASSUME NEW x \in Nat, x < len, data[x + 1] = 0 PROVE n <= x
  <2>1. x \in 0..(len - 1)
    BY <1>1, <1>2
  <2>2. ~(x < n)
    BY <1>2, <2>1 DEF FirstNull
  <2>3. QED
    BY <1>1, <2>2
<1>3. ASSUME NEW from \in Nat, NEW to, to <= len, to \in Nat, NEW starts \in SUBSET Starts(data),
             \/ n = len \/ (from <= n /\ n < to)
             \/ \E i \in starts : i <= n /\ n < i + 8
      PROVE  Min(NullsIn(data, from, to - 1) \cup {FirstMarked(data, starts)}) = n
  <2> DEFINE T == NullsIn(data, from, to - 1) \cup {FirstMarked(data, starts)}
  <2>1. /\ FirstMarked(data, starts) \in n..len
        /\ (\E i \in starts : i <= n /\ n < i + 8) => FirstMarked(data, starts) = n
    BY MarkedInWords
  <2>2. ASSUME NEW x \in NullsIn(data, from, to - 1) PROVE x \in Nat /\ n <= x
    <3>1. x \in Nat /\ x < len /\ data[x + 1] = 0
      BY <1>1, <1>3 DEF NullsIn
    <3>2. QED
      BY <1>2, <3>1
  <2>3. T \in SUBSET Nat /\ \A x \in T : n <= x
    <3> HIDE DEF len
    <3>1. QED
      BY <1>1, <2>1, <2>2
  <2>4. n \in T
    <3>1. CASE n = len
      BY <1>1, <2>1, <3>1
    <3>2. CASE n < len /\ from <= n /\ n < to
      BY <1>1, <1>3, <3>2 DEF NullsIn, FirstNull
    <3>3. CASE \E i \in starts : i <= n /\ n < i + 8
      BY <2>1, <3>3
    <3>4. QED
      BY <1>1, <1>3, <3>1, <3>2, <3>3
  <2> HIDE DEF T
  <2>5. Min(T) = n
    BY <2>3, <2>4, MinIs
  <2>6. QED
    BY <2>5 DEF T
<1>4. CASE arch = "x86_64"
  <2> DEFINE starts == {Min({i, len}) - 8 : i \in {k \in 24..(len + 7) : k % 8 = 0}}
  <2> DEFINE to == Min({16, len})
  <2>1. \A k \in Nat : Min({k, len}) = IF k <= len THEN k ELSE len
    <3>1. ASSUME NEW k \in Nat PROVE Min({k, len}) = IF k <= len THEN k ELSE len
      <4> DEFINE m == IF k <= len THEN k ELSE len
      <4>1. {k, len} \in SUBSET Nat /\ m \in {k, len} /\ \A x \in {k, len} : m <= x
        BY <1>1
      <4> HIDE DEF m
      <4>2. Min({k, len}) = m
        BY <4>1, MinIs
      <4>3. QED
        BY <4>2 DEF m
    <3>2. QED
      BY <3>1
  <2>2. to \in Nat /\ to <= len /\ (to = 16 \/ to = len)
    BY <1>1, <2>1
  <2>3. starts \in SUBSET Starts(data)
    <3>1. ASSUME NEW i \in {k \in 24..(len + 7) : k % 8 = 0}
          PROVE  Min({i, len}) - 8 \in Starts(data)
      <4>1. i \in Nat /\ 24 <= i /\ i <= len + 7
        BY <1>1
      <4>2. Min({i, len}) = IF i <= len THEN i ELSE len
        BY <2>1, <4>1
      <4>3. QED
        BY <1>1, <4>1, <4>2 DEF Starts
    <3>2. QED
      BY <3>1
  <2>4. ASSUME n < len, ~(n < to) PROVE \E i \in starts : i <= n /\ n < i + 8
    <3> DEFINE k == 8 * (n \div 8) + 8
    <3>1. 16 <= n
      BY <1>1, <2>2, <2>4
    <3>2. k \in Nat /\ k % 8 = 0 /\ n < k /\ k <= n + 8 /\ 24 <= k
      BY <1>1, <3>1
    <3> HIDE DEF k
    <3>3. k \in {x \in 24..(len + 7) : x % 8 = 0}
      BY <1>1, <2>4, <3>2
    <3>4. Min({k, len}) = IF k <= len THEN k ELSE len
      BY <2>1, <3>2
    <3>5. Min({k, len}) - 8 <= n /\ n < (Min({k, len}) - 8) + 8
      BY <1>1, <2>4, <3>2, <3>4
    <3>6. QED
      BY <3>3, <3>5
  <2>5. n = len \/ (0 <= n /\ n < to) \/ \E i \in starts : i <= n /\ n < i + 8
    <3> HIDE DEF starts, to, len
    <3>1. QED
      BY <1>1, <2>2, <2>4
  <2>6. FindNullWord(data, arch)
          = Min(NullsIn(data, 0, to - 1) \cup {FirstMarked(data, starts)})
    BY <1>4 DEF FindNullWord
  <2> HIDE DEF starts, to, len
  <2>7. QED
    BY <1>3, <2>2, <2>3, <2>5, <2>6
<1>5. CASE arch # "x86_64"
  <2> DEFINE starts == {i \in 0..(len - 8) : i % 8 = 0}
  <2> DEFINE from == len - (len % 8)
  <2>1. from \in Nat /\ from <= len /\ from % 8 = 0
    BY <1>1
  <2>2. starts \in SUBSET Starts(data)
    BY <1>1 DEF Starts
  <2>3. ASSUME n < from PROVE \E i \in starts : i <= n /\ n < i + 8
    <3> DEFINE k == 8 * (n \div 8)
    <3>1. k \in Nat /\ k % 8 = 0 /\ k <= n /\ n < k + 8
      BY <1>1
    <3>2. k + 8 <= from
      BY <1>1, <2>1, <2>3, <3>1
    <3> HIDE DEF k, from
    <3>3. k \in starts
      BY <1>1, <2>1, <3>1, <3>2
    <3>4. QED
      BY <3>1, <3>3
  <2>4. n = len \/ (from <= n /\ n < len) \/ \E i \in starts : i <= n /\ n < i + 8
    BY <1>1, <2>1, <2>3
  <2>5. FindNullWord(data, arch)
          = Min(NullsIn(data, from, len - 1) \cup {FirstMarked(data, starts)})
    BY <1>5 DEF FindNullWord
  <2> HIDE DEF starts, from
  <2>6. len <= len
    BY <1>1
  <2> HIDE DEF len
  <2>7. QED
    BY <1>1, <1>3, <2>1, <2>2, <2>4, <2>5, <2>6
<1>6. QED
  BY <1>4, <1>5

------------------------------------------------------------------------------
(* The parts of a message.                                                   *)

\* t is in data from position n on.
Lies(t, data, n) == n + Len(t) <= Len(data) /\ \A j \in 1..Len(t) : data[n + j] = t[j]

LEMMA LiesInConcat ==
  ASSUME NEW data \in Seq(Byte), NEW s \in Seq(Byte), NEW t \in Seq(Byte), NEW n \in Nat,
         Lies(s \o t, data, n)
  PROVE  Lies(s, data, n) /\ Lies(t, data, n + Len(s))
<1>1. /\ Len(s \o t) = Len(s) + Len(t) /\ Len(s) \in Nat /\ Len(t) \in Nat
      /\ \A j \in 1..Len(s) : (s \o t)[j] = s[j]
      /\ \A j \in 1..Len(t) : (s \o t)[Len(s) + j] = t[j]
  OBVIOUS
<1>2. Lies(s, data, n)
  <2>1. \A j \in 1..Len(s) : j \in 1..Len(s \o t)
    BY <1>1
  <2>2. QED
    BY <1>1, <2>1 DEF Lies
<1>3. Lies(t, data, n + Len(s))
  <2>1. ASSUME NEW j \in 1..Len(t) PROVE data[n + Len(s) + j] = t[j]
    <3>1. Len(s) + j \in 1..Len(s \o t) /\ n + (Len(s) + j) = n + Len(s) + j
      BY <1>1
    <3>2. QED
      BY <1>1, <3>1 DEF Lies
  <2>2. (n + Len(s)) + Len(t) <= Len(data)
    BY <1>1 DEF Lies
  <2>3. QED
    BY <2>1, <2>2 DEF Lies
<1>4. QED
  BY <1>2, <1>3

LEMMA FromIs ==
  ASSUME NEW data \in Seq(Byte), NEW m \in Nat, m <= Len(data)
  PROVE  /\ From(data, m) \in Seq(Byte) /\ Len(From(data, m)) = Len(data) - m
         /\ \A j \in 1..(Len(data) - m) : From(data, m)[j] = data[m + j]
<1> DEFINE l == Len(data) - m
<1>1. l \in Nat /\ m + l = Len(data)
  OBVIOUS
<1> HIDE DEF l
<1>2. /\ SubSeq(data, m + 1, m + l) \in Seq(Byte)
      /\ Len(SubSeq(data, m + 1, m + l)) = l
      /\ \A j \in 1..l : SubSeq(data, m + 1, m + l)[j] = data[m + j]
  BY <1>1, PartIs
<1>3. QED
  BY <1>1, <1>2 DEF From, l

LEMMA LiesFrom ==
  ASSUME NEW data \in Seq(Byte), NEW t \in Seq(Byte), NEW m \in Nat, NEW n \in Nat,
         Lies(t, data, m + n)
  PROVE  /\ m <= Len(data) /\ From(data, m) \in Seq(Byte)
         /\ Lies(t, From(data, m), n)
<1>1. Len(t) \in Nat /\ Len(data) \in Nat /\ (m + n) + Len(t) <= Len(data)
  BY DEF Lies
<1>2. m <= Len(data)
  BY <1>1
<1>3. /\ From(data, m) \in Seq(Byte) /\ Len(From(data, m)) = Len(data) - m
      /\ \A j \in 1..(Len(data) - m) : From(data, m)[j] = data[m + j]
  BY <1>2, FromIs
<1>4. ASSUME NEW j \in 1..Len(t) PROVE From(data, m)[n + j] = t[j]
  <2>1. n + j \in 1..(Len(data) - m) /\ m + (n + j) = (m + n) + j
    BY <1>1
  <2>2. QED
    BY <1>3, <2>1 DEF Lies
<1>5. n + Len(t) <= Len(From(data, m))
  BY <1>1, <1>3
<1>6. QED
  BY <1>2, <1>3, <1>4, <1>5 DEF Lies

LEMMA LiesWithin ==
  ASSUME NEW data \in Seq(Byte), NEW t \in Seq(Byte), NEW u \in Seq(Byte),
         NEW n \in Nat, NEW m \in Nat, Lies(t, data, n), Lies(u, t, m)
  PROVE  Lies(u, data, n + m)
<1>1. Len(t) \in Nat /\ Len(u) \in Nat /\ n + Len(t) <= Len(data) /\ m + Len(u) <= Len(t)
  BY DEF Lies
<1>2. ASSUME NEW j \in 1..Len(u) PROVE data[(n + m) + j] = u[j]
  <2>1. m + j \in 1..Len(t) /\ n + (m + j) = (n + m) + j
    BY <1>1
  <2>2. QED
    BY <2>1 DEF Lies
<1>3. (n + m) + Len(u) <= Len(data)
  BY <1>1
<1>4. QED
  BY <1>2, <1>3 DEF Lies

LEMMA SeqWithin ==
  ASSUME NEW S, NEW T, S \subseteq T, NEW s \in Seq(S)
  PROVE  s \in Seq(T) /\ \A i \in 1..Len(s) : s[i] \in S
<1>1. Len(s) \in Nat /\ s \in [1..Len(s) -> S]
  OBVIOUS
<1>2. s \in [1..Len(s) -> T]
  BY <1>1
<1>3. QED
  BY <1>1, <1>2

LEMMA CstringIs ==
  ASSUME NEW s \in Seq(1..255)
  PROVE  /\ s \in Seq(Byte) /\ Cstring(s) \in Seq(Byte) /\ Len(Cstring(s)) = Len(s) + 1
         /\ \A i \in 1..Len(s) : Cstring(s)[i] = s[i] /\ s[i] # 0
         /\ Cstring(s)[Len(s) + 1] = 0
<1>1. s \in Seq(Byte) /\ \A i \in 1..Len(s) : s[i] # 0
  <2> DEFINE Char == 1..255
  <2>1. Char \subseteq Byte /\ \A c \in Char : c # 0
    BY DEF Byte
  <2>2. s \in Seq(Char)
    OBVIOUS
  <2> HIDE DEF Char
  <2>3. QED
    BY <2>1, <2>2, SeqWithin
<1>2. QED
  BY <1>1 DEF Cstring, Byte

\* A string is read up to its terminator, whatever comes behind it.
LEMMA ReadsString ==
  ASSUME NEW data \in Seq(Byte), NEW s, IsName(s), Lies(Cstring(s), data, 0)
  PROVE  ExtractString(data) = Ok(s)
<1>1. /\ s \in Seq(1..255) /\ IsUtf8(s)
      /\ s \in Seq(Byte) /\ Cstring(s) \in Seq(Byte) /\ Len(Cstring(s)) = Len(s) + 1
      /\ \A i \in 1..Len(s) : Cstring(s)[i] = s[i] /\ s[i] # 0
      /\ Cstring(s)[Len(s) + 1] = 0
  BY CstringIs DEF IsName
<1> DEFINE n == Len(s)
<1>2. n \in Nat /\ Len(data) \in Nat /\ n + 1 <= Len(data)
  BY <1>1 DEF Lies
<1>3. \A i \in 1..n : data[i] = s[i] /\ data[i] # 0
  <2>1. ASSUME NEW i \in 1..n PROVE data[i] = s[i] /\ data[i] # 0
    <3>1. i \in 1..(n + 1) /\ 0 + i = i
      BY <1>2
    <3>2. data[i] = Cstring(s)[i]
      BY <1>1, <3>1 DEF Lies
    <3>3. QED
      BY <1>1, <3>2
  <2>2. QED
    BY <2>1
<1>4. data[n + 1] = 0
  <2>1. n + 1 \in 1..(n + 1) /\ 0 + (n + 1) = n + 1
    BY <1>2
  <2>2. QED
    BY <1>1, <2>1 DEF Lies
<1>5. FirstNull(data, n)
  <2>1. ASSUME NEW i \in 0..(Len(data) - 1), i < n PROVE data[i + 1] # 0
    <3>1. i + 1 \in 1..n
      BY <1>2, <2>1
    <3>2. QED
      BY <1>3, <3>1
  <2>2. n \in 0..Len(data)
    BY <1>2
  <2>3. QED
    BY <1>4, <2>1, <2>2 DEF FirstNull
<1>6. FindNullWord(data, build) = n
  BY <1>5, FindsFirstNull
<1>7. SubSeq(data, 1, n) = s
  <2>1. /\ SubSeq(data, 0 + 1, 0 + n) \in Seq(Byte) /\ Len(SubSeq(data, 0 + 1, 0 + n)) = n
        /\ \A j \in 1..n : SubSeq(data, 0 + 1, 0 + n)[j] = data[0 + j]
    <3> HIDE DEF n
    <3>1. 0 \in Nat /\ 0 + n <= Len(data)
      BY <1>2
    <3>2. QED
      BY <1>2, <3>1, PartIs
  <2>2. 0 + 1 = 1 /\ 0 + n = n /\ \A j \in 1..n : 0 + j = j
    BY <1>2
  <2> DEFINE u == SubSeq(data, 1, n)
  <2>3. u \in Seq(Byte) /\ Len(u) = n /\ \A j \in 1..n : u[j] = s[j]
    BY <1>3, <2>1, <2>2
  <2> HIDE DEF u
  <2>4. u = s
    BY <1>1, <2>3, SeqEqual
  <2>5. QED
    BY <2>4 DEF u
<1>8. n # Len(data)
  BY <1>2
<1>9. QED
  BY <1>1, <1>6, <1>7, <1>8 DEF ExtractString, Utf8Before

------------------------------------------------------------------------------
(* Columns.                                                                  *)

OidBytes == {x \in Seq(Byte) : Len(x) = 4}

LEMMA OidNumber ==
  ASSUME NEW x \in OidBytes
  PROVE  /\ (U32(x, 0) = 16) <=> (x = PgOid.bool)
         /\ (U32(x, 0) = 20) <=> (x = PgOid.int8)
         /\ (U32(x, 0) = 23) <=> (x = PgOid.int4)
         /\ (U32(x, 0) = 25) <=> (x = PgOid.text)
         /\ (U32(x, 0) = 1114) <=> (x = PgOid.timestamp)
<1>1. x \in Seq(Byte) /\ Len(x) = 4
  BY DEF OidBytes
<1>2. /\ x[1] \in Byte /\ x[2] \in Byte /\ x[3] \in Byte /\ x[4] \in Byte
      /\ \A y \in Seq(Byte) : Len(y) = 4 =>
           (x = y <=> x[1] = y[1] /\ x[2] = y[2] /\ x[3] = y[3] /\ x[4] = y[4])
  <2>1. 1 \in 1..4 /\ 2 \in 1..4 /\ 3 \in 1..4 /\ 4 \in 1..4
        /\ \A i \in 1..4 : i = 1 \/ i = 2 \/ i = 3 \/ i = 4
    OBVIOUS
  <2>2. ASSUME NEW y \in Seq(Byte), Len(y) = 4,
               x[1] = y[1] /\ x[2] = y[2] /\ x[3] = y[3] /\ x[4] = y[4]
        PROVE  x = y
    <3>1. \A i \in 1..4 : x[i] = y[i]
      BY <2>1, <2>2
    <3>2. QED
      BY <1>1, <2>2, <3>1, SeqEqual
  <2>3. x[1] \in Byte /\ x[2] \in Byte /\ x[3] \in Byte /\ x[4] \in Byte
    BY <1>1, <2>1
  <2>4. QED
    BY <2>2, <2>3
<1>3. U32(x, 0) = 256 * (256 * (256 * x[1] + x[2]) + x[3]) + x[4]
  BY DEF U32
<1>4. ASSUME NEW a \in Byte, NEW b \in Byte
      PROVE  /\ <<0, 0, a, b>> \in Seq(Byte) /\ Len(<<0, 0, a, b>>) = 4
             /\ U32(x, 0) = 256 * a + b <=> x = <<0, 0, a, b>>
  <2>1. <<0, 0, a, b>> \in Seq(Byte) /\ Len(<<0, 0, a, b>>) = 4
    <3>1. 0 \in Byte
      BY DEF Byte
    <3>2. QED
      BY <3>1
  <2>2. /\ <<0, 0, a, b>>[1] = 0 /\ <<0, 0, a, b>>[2] = 0
        /\ <<0, 0, a, b>>[3] = a /\ <<0, 0, a, b>>[4] = b
    OBVIOUS
  <2>3. x = <<0, 0, a, b>> <=> x[1] = 0 /\ x[2] = 0 /\ x[3] = a /\ x[4] = b
    BY <1>2, <2>1, <2>2
  <2>4. \A w, y, z, v \in Byte :
          256 * (256 * (256 * w + y) + z) + v = 256 * a + b
            <=> w = 0 /\ y = 0 /\ z = a /\ v = b
    BY DEF Byte
  <2>5. QED
    BY <1>2, <1>3, <2>1, <2>3, <2>4
<1>5. 0 \in Byte /\ 4 \in Byte /\ 16 \in Byte /\ 20 \in Byte /\ 23 \in Byte /\ 25 \in Byte
      /\ 90 \in Byte
  BY DEF Byte
<1>6. 256 * 0 + 16 = 16 /\ 256 * 0 + 20 = 20 /\ 256 * 0 + 23 = 23 /\ 256 * 0 + 25 = 25
      /\ 256 * 4 + 90 = 1114
  OBVIOUS
<1>7. /\ U32(x, 0) = 256 * 0 + 16 <=> x = <<0, 0, 0, 16>>
      /\ U32(x, 0) = 256 * 0 + 20 <=> x = <<0, 0, 0, 20>>
      /\ U32(x, 0) = 256 * 0 + 23 <=> x = <<0, 0, 0, 23>>
      /\ U32(x, 0) = 256 * 0 + 25 <=> x = <<0, 0, 0, 25>>
      /\ U32(x, 0) = 256 * 4 + 90 <=> x = <<0, 0, 4, 90>>
  <2> DEFINE P(a, b) == U32(x, 0) = 256 * a + b <=> x = <<0, 0, a, b>>
  <2>1. \A a, b \in Byte : P(a, b)
    BY <1>4
  <2> HIDE DEF P
  <2>2. P(0, 16) /\ P(0, 20) /\ P(0, 23) /\ P(0, 25) /\ P(4, 90)
    BY <1>5, <2>1, Zenon
  <2>3. QED
    BY <2>2, Zenon DEF P
<1>8. /\ PgOid.bool = <<0, 0, 0, 16>> /\ PgOid.int8 = <<0, 0, 0, 20>>
      /\ PgOid.int4 = <<0, 0, 0, 23>> /\ PgOid.text = <<0, 0, 0, 25>>
      /\ PgOid.timestamp = <<0, 0, 4, 90>>
  BY DEF PgOid
<1>9. QED
  BY <1>6, <1>7, <1>8

\* The decoder knows exactly the supported types.
LEMMA KindIs ==
  ASSUME NEW t \in Types
  PROVE  KindFromOid(U32(Oid[t], 0)) = IF t \in DOMAIN KindOf THEN KindOf[t] ELSE "none"
<1> DEFINE x == Oid[t]
<1> DEFINE n == U32(x, 0)
<1>1. x \in OidBytes /\ \A u \in DOMAIN PgOid : x = PgOid[u] <=> t = u
  BY DefinitionsAssumption DEF OidBytes
<1>2. DOMAIN PgOid = {"bool", "int8", "int4", "text", "timestamp"}
      /\ DOMAIN KindOf = {"bool", "int8", "int4", "text", "timestamp"}
  BY DEF PgOid, KindOf
<1>3. KindOf.bool = "Bool" /\ KindOf.int8 = "Int8" /\ KindOf.int4 = "Int4"
      /\ KindOf.text = "Text" /\ KindOf.timestamp = "Timestamp"
  BY DEF KindOf
<1> HIDE DEF x
<1>4. /\ n = 16 <=> t = "bool"
      /\ n = 20 <=> t = "int8"
      /\ n = 23 <=> t = "int4"
      /\ n = 25 <=> t = "text"
      /\ n = 1114 <=> t = "timestamp"
  BY <1>1, <1>2, OidNumber
<1> HIDE DEF n
<1>5. KindFromOid(n) = IF t \in DOMAIN KindOf THEN KindOf[t] ELSE "none"
  BY <1>2, <1>3, <1>4 DEF KindFromOid
<1>6. QED
  BY <1>5 DEF n, x

ColumnBytes(d, i) ==
  <<IF d.cols[i].key \/ d.ident = Ident.Row THEN 1 ELSE 0>>
    \o Cstring(d.cols[i].name) \o Oid[d.cols[i].type] \o <<255, 255, 255, 255>>

FieldOf(d, i) ==
  [is_key |-> d.cols[i].key \/ d.ident = Ident.Row,
   name |-> d.cols[i].name, kind |-> KindOf[d.cols[i].type]]

LEMMA DefinitionIs ==
  ASSUME NEW d \in Defined
  PROVE  /\ d.ident \in Byte /\ Len(d.cols) \in Byte /\ Len(d.cols) \in Nat
         /\ DOMAIN d.cols = 1..Len(d.cols)
         /\ IsName(d.namespace) /\ IsName(d.name)
         /\ \A i \in DOMAIN d.cols :
              /\ d.cols[i].type \in Types /\ d.cols[i].key \in BOOLEAN
              /\ IsName(d.cols[i].name) /\ d.cols[i].name \in Seq(1..255)
              /\ Oid[d.cols[i].type] \in Seq(Byte) /\ Len(Oid[d.cols[i].type]) = 4
<1> DEFINE C == [name : Seq(1..255), key : BOOLEAN, type : Types]
<1>1. d.cols \in Seq(C) /\ \A c \in C : c.type \in Types /\ c.key \in BOOLEAN
  BY DefinitionsAssumption
<1> HIDE DEF C
<1>2. Len(d.cols) \in Nat /\ DOMAIN d.cols = 1..Len(d.cols)
      /\ \A i \in DOMAIN d.cols : d.cols[i] \in C
  BY <1>1
<1>3. \A i \in DOMAIN d.cols : d.cols[i].type \in Types /\ d.cols[i].key \in BOOLEAN
  BY <1>1, <1>2
<1>4. \A t \in Types : Oid[t] \in Seq(Byte) /\ Len(Oid[t]) = 4
  BY DefinitionsAssumption
<1>5. /\ d.ident \in Byte /\ Len(d.cols) \in Byte
      /\ IsName(d.namespace) /\ IsName(d.name)
      /\ \A i \in DOMAIN d.cols : IsName(d.cols[i].name)
  BY DefinitionsAssumption
<1>6. \A s : IsName(s) => s \in Seq(1..255)
  BY DEF IsName
<1>7. QED
  BY <1>2, <1>3, <1>4, <1>5, <1>6, Zenon

\* Where the parts of a column's bytes are.
ColumnAt(d, i, data) ==
  /\ data[1] = IF d.cols[i].key \/ d.ident = Ident.Row THEN 1 ELSE 0
  /\ Lies(Cstring(d.cols[i].name), data, 1)
  /\ Lies(Oid[d.cols[i].type], data, Len(d.cols[i].name) + 2)
  /\ Len(data) >= 10 + Len(d.cols[i].name)

LEMMA ColumnParts ==
  ASSUME NEW d \in Defined, NEW i \in DOMAIN d.cols
  PROVE  /\ ColumnBytes(d, i) \in Seq(Byte)
         /\ Len(ColumnBytes(d, i)) = 10 + Len(d.cols[i].name)
         /\ \A data \in Seq(Byte) : Lies(ColumnBytes(d, i), data, 0) => ColumnAt(d, i, data)
<1> DEFINE flag == <<IF d.cols[i].key \/ d.ident = Ident.Row THEN 1 ELSE 0>>
<1> DEFINE nm == Cstring(d.cols[i].name)
<1> DEFINE oid == Oid[d.cols[i].type]
<1> DEFINE rest == <<255, 255, 255, 255>>
<1>1. /\ flag \in Seq(Byte) /\ Len(flag) = 1
      /\ flag[1] = IF d.cols[i].key \/ d.ident = Ident.Row THEN 1 ELSE 0
  <2>1. 0 \in Byte /\ 1 \in Byte
    BY DEF Byte
  <2>2. QED
    BY <2>1
<1>2. /\ nm \in Seq(Byte) /\ Len(nm) = Len(d.cols[i].name) + 1 /\ Len(d.cols[i].name) \in Nat
      /\ oid \in Seq(Byte) /\ Len(oid) = 4
  BY DefinitionIs, CstringIs
<1>3. rest \in Seq(Byte) /\ Len(rest) = 4
  <2>1. 255 \in Byte
    BY DEF Byte
  <2>2. QED
    BY <2>1
<1>4. ColumnBytes(d, i) = flag \o nm \o oid \o rest
  BY DEF ColumnBytes
<1> HIDE DEF flag, nm, oid, rest
<1>a. \A s, t \in Seq(Byte) : s \o t \in Seq(Byte) /\ Len(s \o t) = Len(s) + Len(t)
  BY ConcatProperties
<1>5. flag \o nm \in Seq(Byte) /\ Len(flag \o nm) = Len(d.cols[i].name) + 2
  <2>1. flag \o nm \in Seq(Byte) /\ Len(flag \o nm) = Len(flag) + Len(nm)
    BY <1>1, <1>2, <1>a
  <2>2. QED
    BY <1>1, <1>2, <2>1
<1>6. flag \o nm \o oid \in Seq(Byte) /\ Len(flag \o nm \o oid) = Len(d.cols[i].name) + 6
  <2>1. flag \o nm \o oid \in Seq(Byte) /\ Len(flag \o nm \o oid) = Len(flag \o nm) + Len(oid)
    BY <1>2, <1>5, <1>a
  <2>2. QED
    BY <1>2, <1>5, <2>1
<1>7. flag \o nm \o oid \o rest \in Seq(Byte)
      /\ Len(flag \o nm \o oid \o rest) = Len(d.cols[i].name) + 10
  <2>1. flag \o nm \o oid \o rest \in Seq(Byte)
        /\ Len(flag \o nm \o oid \o rest) = Len(flag \o nm \o oid) + Len(rest)
    BY <1>3, <1>6, <1>a
  <2>2. QED
    BY <1>2, <1>3, <1>6, <2>1
<1>8. ASSUME NEW data \in Seq(Byte), Lies(ColumnBytes(d, i), data, 0)
      PROVE  ColumnAt(d, i, data)
  <2>1. Lies(flag \o nm \o oid \o rest, data, 0) /\ 0 \in Nat
    BY <1>4, <1>8
  <2>2. Lies(flag \o nm \o oid, data, 0)
    BY <1>3, <1>6, <2>1, LiesInConcat
  <2>3. Lies(flag \o nm, data, 0) /\ Lies(oid, data, 0 + Len(flag \o nm))
    BY <1>2, <1>5, <2>1, <2>2, LiesInConcat
  <2>4. Lies(flag, data, 0) /\ Lies(nm, data, 0 + Len(flag))
    BY <1>1, <1>2, <2>1, <2>3, LiesInConcat
  <2>5. 0 + Len(flag) = 1 /\ 0 + Len(flag \o nm) = Len(d.cols[i].name) + 2
    BY <1>1, <1>2, <1>5
  <2>6. data[1] = flag[1]
    <3>1. data[0 + 1] = flag[1]
      BY <1>1, <2>4 DEF Lies
    <3>2. 0 + 1 = 1
      OBVIOUS
    <3>3. QED
      BY <3>1, <3>2
  <2>7. 0 + Len(flag \o nm \o oid \o rest) <= Len(data)
    BY <2>1 DEF Lies
  <2>8. Len(data) >= 10 + Len(d.cols[i].name)
    BY <1>2, <1>7, <2>7
  <2>9. Lies(nm, data, 1) /\ Lies(oid, data, Len(d.cols[i].name) + 2)
    BY <2>3, <2>4, <2>5
  <2>10. QED
    BY <1>1, <2>6, <2>8, <2>9 DEF ColumnAt, nm, oid
<1>9. QED
  BY <1>2, <1>4, <1>7, <1>8

LEMMA ReadsField ==
  ASSUME NEW d \in Defined, NEW i \in DOMAIN d.cols, NEW data \in Seq(Byte),
         Lies(ColumnBytes(d, i), data, 0)
  PROVE  ParseField(data) =
           IF d.cols[i].type \in DOMAIN KindOf
           THEN Ok([fields |-> <<FieldOf(d, i)>>, bytes |-> Len(ColumnBytes(d, i))])
           ELSE Error
<1> DEFINE nm == d.cols[i].name
<1> DEFINE oid == Oid[d.cols[i].type]
<1> DEFINE key == d.cols[i].key \/ d.ident = Ident.Row
<1> DEFINE after == 1 + Len(nm) + 1
<1>1. /\ d.cols[i].type \in Types /\ key \in BOOLEAN /\ IsName(nm) /\ nm \in Seq(1..255)
      /\ oid \in Seq(Byte) /\ Len(oid) = 4 /\ Len(nm) \in Nat
  BY DefinitionIs
<1>2. /\ data[1] = IF key THEN 1 ELSE 0
      /\ Lies(Cstring(nm), data, 1)
      /\ Lies(oid, data, Len(nm) + 2)
      /\ Len(data) >= 10 + Len(nm)
      /\ Len(ColumnBytes(d, i)) = 10 + Len(nm)
  BY ColumnParts DEF ColumnAt
<1>3. ExtractString(From(data, 1)) = Ok(nm)
  <2>1. Cstring(nm) \in Seq(Byte)
    BY <1>1, CstringIs
  <2>2. 1 \in Nat /\ 0 \in Nat /\ 1 + 0 = 1
    OBVIOUS
  <2>3. From(data, 1) \in Seq(Byte) /\ Lies(Cstring(nm), From(data, 1), 0)
    BY <1>2, <2>1, <2>2, LiesFrom
  <2> HIDE DEF nm
  <2>4. QED
    BY <1>1, <2>3, ReadsString
<1>4. U32(data, after) = U32(oid, 0)
  <2>1. after = Len(nm) + 2
    BY <1>1
  <2> HIDE DEF after, nm, oid
  <2>2. \A j \in 1..4 : data[after + j] = oid[j]
    BY <1>1, <1>2, <2>1 DEF Lies
  <2>3. data[after + 1] = oid[1] /\ data[after + 2] = oid[2] /\ data[after + 3] = oid[3]
        /\ data[after + 4] = oid[4]
    BY <2>2
  <2>4. U32(oid, 0) = 256 * (256 * (256 * oid[1] + oid[2]) + oid[3]) + oid[4]
    BY DEF U32
  <2>5. QED
    BY <2>3, <2>4 DEF U32
<1>5. KindFromOid(U32(data, after))
        = IF d.cols[i].type \in DOMAIN KindOf THEN KindOf[d.cols[i].type] ELSE "none"
  BY <1>1, <1>4, KindIs
<1>6. d.cols[i].type \in DOMAIN KindOf => KindOf[d.cols[i].type] # "none"
  BY DEF KindOf
<1>7. FieldOf(d, i) = [is_key |-> key, name |-> nm, kind |-> KindOf[d.cols[i].type]]
  BY DEF FieldOf
<1>8. /\ Len(data) >= 10 /\ Len(data) >= after + 8 /\ Len(data) \in Nat
  BY <1>1, <1>2
<1>9. data[1] \in {0, 1} /\ (data[1] = 1 <=> key)
  BY <1>1, <1>2
<1>10. Ok(nm).st = "ok" /\ Ok(nm).val = nm
  BY DEF Ok
<1>11. FieldNamed(data, Ok(nm)) =
         IF d.cols[i].type \in DOMAIN KindOf
         THEN Ok([fields |-> <<FieldOf(d, i)>>, bytes |-> 10 + Len(nm)])
         ELSE Error
  <2> HIDE DEF nm, oid, key
  <2>1. ~(Len(data) < 10) /\ ~(Len(data) < 1 + Len(nm) + 1 + 8)
    BY <1>1, <1>8
  <2>2. data[1] \notin {2, 3}
    BY <1>9
  <2>3. CASE d.cols[i].type \in DOMAIN KindOf
    <3>1. FieldNamed(data, Ok(nm)) =
            Ok([fields |-> <<[is_key |-> data[1] = 1, name |-> nm,
                              kind |-> KindOf[d.cols[i].type]]>>,
                bytes |-> ByteSizeLen(Len(nm))])
      BY <1>5, <1>6, <1>9, <1>10, <2>1, <2>2, <2>3 DEF FieldNamed
    <3>2. (data[1] = 1) = key
      BY <1>1, <1>9, Zenon
    <3>3. QED
      BY <1>7, <2>3, <3>1, <3>2 DEF ByteSizeLen
  <2>4. CASE d.cols[i].type \notin DOMAIN KindOf
    BY <1>5, <1>9, <1>10, <2>1, <2>2, <2>4 DEF FieldNamed
  <2>5. QED
    BY <2>3, <2>4
<1>12. QED
  BY <1>2, <1>3, <1>11 DEF ParseField

FieldKinds == {"Bool", "Int8", "Int4", "Text", "Timestamp", "none"}
Field == [is_key : BOOLEAN, name : Seq(Byte), kind : FieldKinds]

Failures == {Error, Panic}

\* What may be read of a field.
IsFieldRead(f) ==
  \/ f \in Failures
  \/ \E fields \in Seq(Field), bytes \in Nat : f = Ok([fields |-> fields, bytes |-> bytes])

FieldAccs ==
  Failures \cup {Ok(v) : v \in [fields : Seq(Field), pos : Nat]}

\* How the loop of RelationData::parse goes on from what it has read.
FieldAdded(acc, f) ==
  IF f.st # "ok" THEN f
  ELSE Ok([fields |-> acc.val.fields \o f.val.fields, pos |-> acc.val.pos + f.val.bytes])

NextField(data, acc) ==
  IF acc.st # "ok" THEN acc
  ELSE IF acc.val.pos > Len(data) THEN Panic
  ELSE FieldAdded(acc, ParseField(From(data, acc.val.pos)))

FirstField(start) == Ok([fields |-> <<>>, pos |-> start])

LEMMA ExtractType ==
  ASSUME NEW data \in Seq(Byte)
  PROVE  ExtractString(data) = Error \/ \E s \in Seq(Byte) : ExtractString(data) = Ok(s)
<1>1. PICK n : FirstNull(data, n)
  BY FirstNullExists
<1>2. FindNullWord(data, build) = n
  BY <1>1, FindsFirstNull
<1>3. n \in Nat /\ n <= Len(data)
  BY <1>1 DEF FirstNull
<1>4. SubSeq(data, 1, n) \in Seq(Byte)
  <2>1. 0 \in Nat /\ 0 + n <= Len(data) /\ 0 + 1 = 1 /\ 0 + n = n
    BY <1>3
  <2>2. SubSeq(data, 0 + 1, 0 + n) \in Seq(Byte)
    BY <1>3, <2>1, PartIs
  <2>3. QED
    BY <2>1, <2>2
<1>5. QED
  BY <1>2, <1>4 DEF ExtractString, Utf8Before

LEMMA FieldNamedType ==
  ASSUME NEW data \in Seq(Byte), NEW name,
         name = Error \/ \E s \in Seq(Byte) : name = Ok(s)
  PROVE  IsFieldRead(FieldNamed(data, name))
<1>1. CASE name = Error
  <2>1. name.st = "error"
    BY <1>1 DEF Error
  <2>2. FieldNamed(data, name) = Error
    BY <2>1 DEF FieldNamed
  <2>3. QED
    BY <2>2 DEF IsFieldRead, Failures
<1>2. ASSUME NEW s \in Seq(Byte), name = Ok(s) PROVE IsFieldRead(FieldNamed(data, name))
  <2> DEFINE kind == KindFromOid(U32(data, 1 + Len(name.val) + 1))
  <2> DEFINE field == [is_key |-> data[1] = 1, name |-> name.val, kind |-> kind]
  <2>1. name.st = "ok" /\ name.val = s
    BY <1>2 DEF Ok
  <2>2. kind \in FieldKinds
    <3> DEFINE oid == U32(data, 1 + Len(name.val) + 1)
    <3> HIDE DEF oid
    <3>1. KindFromOid(oid) \in FieldKinds
      BY DEF KindFromOid, FieldKinds
    <3>2. QED
      BY <3>1 DEF oid
  <2>3. ByteSizeLen(Len(s)) \in Nat
    BY DEF ByteSizeLen
  <2> HIDE DEF kind
  <2>4. field \in Field
    BY <2>1, <2>2 DEF Field
  <2>5. <<>> \in Seq(Field) /\ <<field>> \in Seq(Field)
    <3> HIDE DEF field
    <3>1. QED
      BY <2>4
  <2>6. \/ FieldNamed(data, name) \in {Error, Panic}
        \/ FieldNamed(data, name) = Ok([fields |-> <<>>, bytes |-> ByteSizeLen(Len(s))])
        \/ FieldNamed(data, name) = Ok([fields |-> <<field>>, bytes |-> ByteSizeLen(Len(s))])
    BY <2>1 DEF FieldNamed, kind
  <2> HIDE DEF field
  <2>7. QED
    BY <2>3, <2>5, <2>6 DEF IsFieldRead, Failures
<1>3. QED
  BY <1>1, <1>2

LEMMA NextFieldType ==
  ASSUME NEW data \in Seq(Byte), NEW acc \in FieldAccs
  PROVE  NextField(data, acc) \in FieldAccs
<1>1. Error.st = "error" /\ Panic.st = "panic"
  BY DEF Error, Panic
<1>2. CASE acc \in Failures
  BY <1>1, <1>2 DEF NextField, Failures
<1>3. ASSUME NEW fields \in Seq(Field), NEW pos \in Nat,
             acc = Ok([fields |-> fields, pos |-> pos])
      PROVE  NextField(data, acc) \in FieldAccs
  <2>1. acc.st = "ok" /\ acc.val.fields = fields /\ acc.val.pos = pos
    BY <1>3 DEF Ok
  <2>2. CASE pos > Len(data)
    BY <2>1, <2>2 DEF NextField, FieldAccs, Failures
  <2>3. CASE ~(pos > Len(data))
    <3> DEFINE f == ParseField(From(data, pos))
    <3>1. From(data, pos) \in Seq(Byte) /\ pos <= Len(data)
      BY <2>3, FromIs
    <3>2. Len(From(data, pos)) = Len(data) - pos
      BY <3>1, FromIs
    <3>3. IsFieldRead(f)
      <4>1. CASE pos < Len(data)
        <5>1. 1 \in Nat /\ 1 <= Len(From(data, pos))
          BY <3>2, <4>1
        <5>2. From(From(data, pos), 1) \in Seq(Byte)
          BY <3>1, <5>1, FromIs
        <5>3. QED
          BY <3>1, <5>2, ExtractType, FieldNamedType DEF ParseField
      <4>2. CASE ~(pos < Len(data))
        <5>1. Len(From(data, pos)) < 10
          BY <3>1, <3>2, <4>2
        <5>2. f = Error
          BY <5>1 DEF ParseField, FieldNamed
        <5>3. QED
          BY <5>2 DEF IsFieldRead, Failures
      <4>3. QED
        BY <4>1, <4>2
    <3> HIDE DEF f
    <3>4. NextField(data, acc) = FieldAdded(acc, f)
      BY <2>1, <2>3 DEF NextField, f
    <3>5. CASE f \in Failures
      BY <1>1, <3>4, <3>5 DEF FieldAdded, FieldAccs, Failures
    <3>6. ASSUME NEW more \in Seq(Field), NEW bytes \in Nat,
                 f = Ok([fields |-> more, bytes |-> bytes])
          PROVE  NextField(data, acc) \in FieldAccs
      <4>1. f.st = "ok" /\ f.val.fields = more /\ f.val.bytes = bytes
        BY <3>6 DEF Ok
      <4>2. fields \o more \in Seq(Field) /\ pos + bytes \in Nat
        OBVIOUS
      <4>3. FieldAdded(acc, f) = Ok([fields |-> fields \o more, pos |-> pos + bytes])
        BY <2>1, <4>1 DEF FieldAdded
      <4>4. [fields |-> fields \o more, pos |-> pos + bytes] \in [fields : Seq(Field), pos : Nat]
        BY <4>2
      <4>5. QED
        BY <3>4, <4>3, <4>4 DEF FieldAccs
    <3>7. QED
      BY <3>3, <3>5, <3>6 DEF IsFieldRead
  <2>4. QED
    BY <2>2, <2>3
<1>4. ASSUME NEW v \in [fields : Seq(Field), pos : Nat], acc = Ok(v)
      PROVE  NextField(data, acc) \in FieldAccs
  <2>1. v.fields \in Seq(Field) /\ v.pos \in Nat /\ v = [fields |-> v.fields, pos |-> v.pos]
    OBVIOUS
  <2>2. QED
    BY <1>3, <1>4, <2>1
<1>5. QED
  BY <1>2, <1>4 DEF FieldAccs

\* What the loop has read, field by field.
IsFields(acc, data, start, n) ==
  /\ acc[0] = FirstField(start)
  /\ \A k \in 1..n : acc[k] = NextField(data, acc[k - 1])

LEMMA FieldsSteps ==
  ASSUME NEW data \in Seq(Byte), NEW start \in Nat, NEW n \in Nat
  PROVE  \E acc : IsFields(acc, data, start, n) /\ acc[n] = ParseFields(data, start, n)
<1> DEFINE First == FirstField(start)
<1> DEFINE Step(a, k) == NextField(data, a)
<1> DEFINE step == [p \in FieldAccs \X (1..n) |-> Step(p[1], p[2])]
<1> DEFINE Iter(h) == h = [S \in SUBSET (1..n) |->
                             IF S = {} THEN First ELSE Step(h[S \ {Max(S)}], Max(S))]
<1> DEFINE h == CHOOSE h : Iter(h)
<1>1. First \in FieldAccs
  <2>1. [fields |-> <<>>, pos |-> start] \in [fields : Seq(Field), pos : Nat]
    OBVIOUS
  <2>2. QED
    BY <2>1 DEF FirstField, FieldAccs
<1>2. \A x \in FieldAccs, k \in 1..n : step[<<x, k>>] \in FieldAccs
  BY NextFieldType
<1>3. PICK g : IsFold(g, FieldAccs, n, First, step)
  <2> HIDE DEF step, First
  <2>1. QED
    BY <1>1, <1>2, IterExists, Zenon
<1>4. Iter(g)
  <2>1. ASSUME NEW S \in SUBSET (1..n), S # {}
        PROVE  step[<<g[S \ {Max(S)}], Max(S)>>] = Step(g[S \ {Max(S)}], Max(S))
    <3>1. Max(S) \in 1..n /\ g[S \ {Max(S)}] \in FieldAccs
      BY <1>3, <2>1, MaxInSet DEF IsFold
    <3>2. QED
      BY <3>1
  <2> HIDE DEF step, Step, First
  <2>2. QED
    BY <1>3, <2>1 DEF IsFold
<1>5. Iter(h)
  BY <1>4
<1>6. ParseFields(data, start, n) = h[1..n]
  BY DEF ParseFields, FoldLeft, MapThenFoldSet, FirstField, NextField, FieldAdded
<1> HIDE DEF h, Step, First
<1>7. h[{}] = First /\ 1..0 = {}
  BY <1>5
<1>8. ASSUME NEW k \in 1..n PROVE h[1..k] = Step(h[1..(k - 1)], k)
  <2>1. 1..k \in SUBSET (1..n) /\ 1..k # {} /\ k \in Nat \ {0}
    <3>1. k \in Nat /\ 1 <= k /\ k <= n
      OBVIOUS
    <3>2. 1 \in 1..k /\ \A i \in 1..k : i \in 1..n
      BY <3>1
    <3>3. (1..k) \subseteq (1..n) /\ 1..k # {}
      BY <3>2, Zenon
    <3>4. QED
      BY <3>1, <3>3
  <2>2. Max(1..k) = k /\ (1..k) \ {k} = 1..(k - 1)
    BY <2>1, MaxOfUpTo
  <2>3. QED
    BY <1>5, <2>1, <2>2
<1> DEFINE acc == [k \in 0..n |-> h[1..k]]
<1>9. acc[0] = First /\ acc[n] = ParseFields(data, start, n)
  BY <1>6, <1>7
<1>10. ASSUME NEW k \in 1..n PROVE acc[k] = Step(acc[k - 1], k)
  BY <1>8
<1>11. QED
  BY <1>9, <1>10 DEF Step, First, IsFields

IsSupported(type) == type \in DOMAIN KindOf

ColumnsBytes(d) == FlattenSeq([i \in DOMAIN d.cols |-> ColumnBytes(d, i)])

\* The columns are read, wherever they begin, up to one whose type is unknown.
LEMMA ReadsFields ==
  ASSUME NEW d \in Defined, NEW data \in Seq(Byte), NEW start \in Nat,
         Lies(ColumnsBytes(d), data, start)
  PROVE  LET r == ParseFields(data, start, Len(d.cols)) IN
         /\ (\A i \in DOMAIN d.cols : IsSupported(d.cols[i].type)) =>
              r.st = "ok" /\ r.val.fields = [i \in DOMAIN d.cols |-> FieldOf(d, i)]
         /\ ~(\A i \in DOMAIN d.cols : IsSupported(d.cols[i].type)) => r = Error
<1> DEFINE n == Len(d.cols)
<1> DEFINE s == [i \in 1..n |-> ColumnBytes(d, i)]
<1> DEFINE t == FlattenSeq(s)
<1>1. n \in Nat /\ DOMAIN d.cols = 1..n
  BY DefinitionIs
<1>2. s \in [1..n -> Seq(Byte)] /\ ColumnsBytes(d) = t
  BY <1>1, ColumnParts DEF ColumnsBytes
<1> HIDE DEF s, n
<1>3. t \in Seq(Byte) /\ \E at : Places(at, t, n, s) /\ at[0] = 0 /\ at[n] = Len(t)
  BY <1>1, <1>2, FlattenPlaces
<1>4. Lies(t, data, start)
  BY <1>2
<1> HIDE DEF t
<1>5. PICK at : Places(at, t, n, s) /\ at[0] = 0 /\ at[n] = Len(t)
  BY <1>3
<1>6. PICK acc : IsFields(acc, data, start, n) /\ acc[n] = ParseFields(data, start, n)
  BY <1>1, FieldsSteps
<1> DEFINE All(k) == \A i \in 1..k : IsSupported(d.cols[i].type)
<1> DEFINE Read(k) == Ok([fields |-> [i \in 1..k |-> FieldOf(d, i)], pos |-> start + at[k]])
<1> DEFINE Done(k) == acc[k] = IF All(k) THEN Read(k) ELSE Error
<1> DEFINE K == {k \in Nat : k <= n => Done(k)}
<1>7. 0 \in K
  <2>1. All(0) /\ [i \in 1..0 |-> FieldOf(d, i)] = <<>> /\ start + at[0] = start
    BY <1>5
  <2>2. Done(0)
    BY <1>6, <2>1 DEF IsFields, FirstField
  <2>3. QED
    BY <2>2
<1>8. ASSUME NEW k \in Nat, k \in K PROVE k + 1 \in K
  <2>1. SUFFICES ASSUME k + 1 <= n PROVE Done(k + 1)
    <3> HIDE DEF Done
    <3>1. QED
      OBVIOUS
  <2>2. k + 1 \in 1..n /\ (k + 1) - 1 = k /\ Done(k) /\ k \in 0..n
    BY <1>1, <1>8, <2>1
  <2>3. acc[k + 1] = NextField(data, acc[k])
    BY <1>6, <2>2 DEF IsFields
  <2>4. All(k + 1) <=> All(k) /\ IsSupported(d.cols[k + 1].type)
    <3>1. \A i \in 1..(k + 1) : i \in 1..k \/ i = k + 1
      OBVIOUS
    <3>2. k + 1 \in 1..(k + 1) /\ \A i \in 1..k : i \in 1..(k + 1)
      OBVIOUS
    <3>3. QED
      BY <3>1, <3>2
  <2>5. CASE ~All(k)
    <3>1. acc[k] = Error /\ Error.st # "ok"
      BY <2>2, <2>5 DEF Error
    <3>2. acc[k + 1] = Error
      BY <2>3, <3>1 DEF NextField
    <3>3. QED
      BY <2>4, <2>5, <3>2
  <2>6. CASE All(k)
    <3> DEFINE c == ColumnBytes(d, k + 1)
    <3> DEFINE pos == start + at[k]
    <3> DEFINE f == [i \in 1..k |-> FieldOf(d, i)]
    <3>1. acc[k] = Ok([fields |-> f, pos |-> pos])
      BY <2>2, <2>6
    <3>2. s[k + 1] = c /\ c \in Seq(Byte) /\ Len(c) \in Nat
      BY <1>1, <2>2, ColumnParts DEF s
    <3>3. at[k] \in Nat /\ at[k + 1] = at[k] + Len(c) /\ at[k + 1] <= at[n]
          /\ \A j \in 1..Len(c) : t[at[k] + j] = c[j]
      BY <1>5, <2>2, <3>2 DEF Places
    <3> HIDE DEF c
    <3>4. Lies(c, t, at[k])
      BY <1>5, <3>2, <3>3 DEF Lies
    <3>5. Lies(c, data, pos)
      BY <1>3, <1>4, <3>2, <3>3, <3>4, LiesWithin
    <3>6. pos \in Nat /\ pos + 0 = pos
      BY <3>3
    <3> HIDE DEF pos
    <3>7. pos <= Len(data) /\ From(data, pos) \in Seq(Byte) /\ Lies(c, From(data, pos), 0)
      BY <3>2, <3>5, <3>6, LiesFrom
    <3>8. ParseField(From(data, pos))
            = IF IsSupported(d.cols[k + 1].type)
              THEN Ok([fields |-> <<FieldOf(d, k + 1)>>, bytes |-> Len(c)])
              ELSE Error
      BY <1>1, <2>2, <3>7, ReadsField DEF IsSupported, c
    <3>9. acc[k].st = "ok" /\ acc[k].val.fields = f /\ acc[k].val.pos = pos
      BY <3>1 DEF Ok
    <3>10. ~(pos > Len(data))
      BY <3>6, <3>7
    <3>11. acc[k + 1] = FieldAdded(acc[k], ParseField(From(data, pos)))
      BY <2>3, <3>9, <3>10 DEF NextField
    <3>12. CASE ~IsSupported(d.cols[k + 1].type)
      <4>1. acc[k + 1] = Error
        BY <3>8, <3>11, <3>12 DEF FieldAdded, Error
      <4>2. QED
        BY <2>4, <3>12, <4>1
    <3>13. CASE IsSupported(d.cols[k + 1].type)
      <4> DEFINE x == FieldOf(d, k + 1)
      <4>1. f \o <<x>> = [i \in 1..(k + 1) |-> FieldOf(d, i)]
        <5> DEFINE u == [i \in 1..(k + 1) |-> FieldOf(d, i)]
        <5> DEFINE X == {FieldOf(d, i) : i \in 1..(k + 1)}
        <5>1. \A i \in 1..k : i \in 1..(k + 1)
          OBVIOUS
        <5>a. \A i \in 1..k : FieldOf(d, i) \in X
          BY <5>1
        <5>b. x \in X /\ \A i \in 1..k : f[i] = u[i]
          BY <5>1
        <5>c. f \in [1..k -> X]
          <6> HIDE DEF X
          <6>1. QED
            BY <5>a
        <5>2. f \in Seq(X) /\ Len(f) = k /\ <<x>> \in Seq(X) /\ Len(<<x>>) = 1
              /\ \A i \in 1..k : f[i] = u[i]
          <6> HIDE DEF X, f, x, u
          <6>1. QED
            BY <5>b, <5>c
        <5>3. u \in Seq(X) /\ Len(u) = k + 1 /\ u[k + 1] = x
          OBVIOUS
        <5>4. <<x>>[1] = x
          OBVIOUS
        <5> HIDE DEF f, u, X, x
        <5>5. /\ f \o <<x>> \in Seq(X) /\ Len(f \o <<x>>) = k + 1
              /\ \A i \in 1..k : (f \o <<x>>)[i] = u[i]
              /\ (f \o <<x>>)[k + 1] = u[k + 1]
          BY <5>2, <5>3, <5>4, SMTT(30)
        <5>6. \A i \in 1..(k + 1) : i \in 1..k \/ i = k + 1
          OBVIOUS
        <5>7. f \o <<x>> = u
          BY <5>3, <5>5, <5>6, SeqEqual
        <5>8. QED
          BY <5>7 DEF u
      <4> HIDE DEF f, x
      <4> DEFINE r == Ok([fields |-> <<x>>, bytes |-> Len(c)])
      <4>2. r.st = "ok" /\ r.val.fields = <<x>> /\ r.val.bytes = Len(c)
        BY DEF Ok
      <4>3. ParseField(From(data, pos)) = r
        BY <3>8, <3>13 DEF x
      <4> HIDE DEF r
      <4>4. acc[k + 1] = Ok([fields |-> f \o <<x>>, pos |-> pos + Len(c)])
        BY <3>9, <3>11, <4>2, <4>3 DEF FieldAdded
      <4>5. pos + Len(c) = start + at[k + 1]
        BY <3>2, <3>3 DEF pos
      <4>6. acc[k + 1] = Read(k + 1)
        BY <4>1, <4>4, <4>5
      <4>7. QED
        BY <2>4, <2>6, <3>13, <4>6
    <3>14. QED
      BY <3>12, <3>13
  <2>7. QED
    BY <2>5, <2>6
<1>9. Done(n)
  <2>1. Nat \subseteq K
    <3> HIDE DEF K
    <3>1. QED
      BY <1>7, <1>8, Induction
  <2>2. QED
    BY <1>1, <2>1
<1>10. Read(n).st = "ok" /\ Read(n).val.fields = [i \in 1..n |-> FieldOf(d, i)]
  BY DEF Ok
<1>11. QED
  BY <1>1, <1>6, <1>9, <1>10 DEF n

------------------------------------------------------------------------------
(* Descriptions.                                                             *)

\* Where the parts of a Relation message are.
RelationAt(d, data) ==
  LET id == 5 + Len(d.namespace) + 1 + Len(d.name) + 1 IN
  /\ Lies(Cstring(d.namespace), data, 5)
  /\ Lies(Cstring(d.name), data, 5 + Len(d.namespace) + 1)
  /\ Lies(<<d.ident, 0, Len(d.cols)>>, data, id)
  /\ Lies(ColumnsBytes(d), data, id + 3)

LEMMA RelationParts ==
  ASSUME NEW d \in Defined
  PROVE  RelationMessage(d) \in Seq(Byte) /\ RelationAt(d, RelationMessage(d))
<1> DEFINE head == <<82, 0, 0, 0, 1>>
<1> DEFINE a == Cstring(d.namespace)
<1> DEFINE b == Cstring(d.name)
<1> DEFINE e == <<d.ident, 0, Len(d.cols)>>
<1> DEFINE t == ColumnsBytes(d)
<1> DEFINE data == RelationMessage(d)
<1>1. data = head \o a \o b \o e \o t
  BY DEF RelationMessage, ColumnsBytes, ColumnBytes
<1>2. head \in Seq(Byte) /\ Len(head) = 5
  <2>1. 82 \in Byte /\ 0 \in Byte /\ 1 \in Byte
    BY DEF Byte
  <2>2. QED
    BY <2>1
<1>3. /\ a \in Seq(Byte) /\ Len(a) = Len(d.namespace) + 1 /\ Len(d.namespace) \in Nat
      /\ b \in Seq(Byte) /\ Len(b) = Len(d.name) + 1 /\ Len(d.name) \in Nat
  <2>1. d.namespace \in Seq(1..255) /\ d.name \in Seq(1..255)
    BY DefinitionIs DEF IsName
  <2>2. QED
    BY <2>1, CstringIs
<1>4. e \in Seq(Byte) /\ Len(e) = 3
  <2>1. d.ident \in Byte /\ 0 \in Byte /\ Len(d.cols) \in Byte
    BY DefinitionIs DEF Byte
  <2>2. QED
    BY <2>1
<1>5. t \in Seq(Byte)
  <2> DEFINE n == Len(d.cols)
  <2> DEFINE s == [i \in 1..n |-> ColumnBytes(d, i)]
  <2>1. n \in Nat /\ DOMAIN d.cols = 1..n
    BY DefinitionIs
  <2>2. s \in [1..n -> Seq(Byte)] /\ t = FlattenSeq(s)
    BY <2>1, ColumnParts DEF ColumnsBytes
  <2> HIDE DEF s, n, t
  <2>3. QED
    BY <2>1, <2>2, FlattenPlaces
<1> HIDE DEF head, a, b, e, t, data
<1>6. \A s, u \in Seq(Byte) : s \o u \in Seq(Byte) /\ Len(s \o u) = Len(s) + Len(u)
  BY ConcatProperties
<1> DEFINE h2 == head \o a
<1> DEFINE h3 == h2 \o b
<1> DEFINE h4 == h3 \o e
<1>7. h2 \in Seq(Byte) /\ Len(h2) = 5 + Len(d.namespace) + 1
  <2>1. h2 \in Seq(Byte) /\ Len(h2) = Len(head) + Len(a)
    BY <1>2, <1>3, <1>6
  <2> HIDE DEF h2
  <2>2. QED
    BY <1>2, <1>3, <2>1
<1>8. h3 \in Seq(Byte) /\ Len(h3) = 5 + Len(d.namespace) + 1 + Len(d.name) + 1
  <2>1. h3 \in Seq(Byte) /\ Len(h3) = Len(h2) + Len(b)
    BY <1>3, <1>6, <1>7
  <2> DEFINE p == Len(d.namespace)
  <2> DEFINE q == Len(d.name)
  <2>2. /\ Len(h2) = 5 + p + 1 /\ Len(b) = q + 1 /\ p \in Nat /\ q \in Nat
    BY <1>3, <1>7
  <2> HIDE DEF h2, h3, p, q
  <2>3. Len(h3) = 5 + p + 1 + q + 1
    BY <2>1, <2>2
  <2>4. QED
    BY <2>1, <2>3 DEF p, q
<1>9. h4 \in Seq(Byte) /\ Len(h4) = 5 + Len(d.namespace) + 1 + Len(d.name) + 1 + 3
  <2>1. h4 \in Seq(Byte) /\ Len(h4) = Len(h3) + Len(e)
    BY <1>4, <1>6, <1>8
  <2> HIDE DEF h3, h4
  <2>2. QED
    BY <1>3, <1>4, <1>8, <2>1
<1>10. data = h4 \o t /\ data \in Seq(Byte)
  <2>1. data = h4 \o t
    BY <1>1
  <2> HIDE DEF h4
  <2>2. QED
    BY <1>5, <1>6, <1>9, <2>1
<1>11. Lies(data, data, 0) /\ 0 \in Nat /\ \A k \in Nat : 0 + k = k
  <2>1. Len(data) \in Nat
    BY <1>10
  <2>2. 0 + Len(data) <= Len(data) /\ \A k \in Nat : 0 + k = k
    BY <2>1
  <2>3. QED
    BY <2>1, <2>2 DEF Lies
<1>12. Lies(h4, data, 0) /\ Lies(t, data, 0 + Len(h4))
  <2> HIDE DEF h4
  <2>1. Lies(h4 \o t, data, 0)
    BY <1>10, <1>11
  <2>2. QED
    BY <1>5, <1>9, <1>10, <1>11, <2>1, LiesInConcat
<1>13. Lies(h3, data, 0) /\ Lies(e, data, 0 + Len(h3))
  <2>1. Lies(h3 \o e, data, 0)
    BY <1>12
  <2> HIDE DEF h3, h4
  <2>2. QED
    BY <1>4, <1>8, <1>10, <1>11, <2>1, LiesInConcat
<1>14. Lies(h2, data, 0) /\ Lies(b, data, 0 + Len(h2))
  <2>1. Lies(h2 \o b, data, 0)
    BY <1>13
  <2> HIDE DEF h2, h3, h4
  <2>2. QED
    BY <1>3, <1>7, <1>10, <1>11, <2>1, LiesInConcat
<1>15. Lies(a, data, 0 + Len(head))
  <2>1. Lies(head \o a, data, 0)
    BY <1>14
  <2> HIDE DEF h2, h3, h4
  <2>2. QED
    BY <1>2, <1>3, <1>10, <1>11, <2>1, LiesInConcat
<1> HIDE DEF h2, h3, h4
<1>16. /\ 0 + Len(head) = 5 /\ 0 + Len(h2) = 5 + Len(d.namespace) + 1
       /\ 0 + Len(h3) = 5 + Len(d.namespace) + 1 + Len(d.name) + 1
       /\ 0 + Len(h4) = 5 + Len(d.namespace) + 1 + Len(d.name) + 1 + 3
  BY <1>2, <1>3, <1>7, <1>8, <1>9
<1>17. QED
  BY <1>10, <1>12, <1>13, <1>14, <1>15, <1>16 DEF RelationAt, a, b, e, t, data

\* A message is read as the definition that it describes, or rejected.
LEMMA ReadsRelation ==
  ASSUME NEW d \in Defined
  PROVE  ParseRelation(RelationMessage(d)) = IF Supported(d) THEN Ok(Meaning(d)) ELSE Error
<1> DEFINE data == RelationMessage(d)
<1> DEFINE ns == d.namespace
<1> DEFINE nm == d.name
<1> DEFINE id == 5 + Len(ns) + 1 + Len(nm) + 1
<1> DEFINE e == <<d.ident, 0, Len(d.cols)>>
<1> DEFINE n == Len(d.cols)
<1>1. /\ data \in Seq(Byte)
      /\ Lies(Cstring(ns), data, 5)
      /\ Lies(Cstring(nm), data, 5 + Len(ns) + 1)
      /\ Lies(e, data, id)
      /\ Lies(ColumnsBytes(d), data, id + 3)
  BY RelationParts DEF RelationAt
<1>2. /\ IsName(ns) /\ IsName(nm) /\ Len(ns) \in Nat /\ Len(nm) \in Nat
      /\ d.ident \in Byte /\ n \in Nat /\ DOMAIN d.cols = 1..n
      /\ Cstring(ns) \in Seq(Byte) /\ Cstring(nm) \in Seq(Byte)
  <2>1. IsName(ns) /\ IsName(nm) /\ ns \in Seq(1..255) /\ nm \in Seq(1..255)
    BY DefinitionIs DEF IsName
  <2>2. QED
    BY <2>1, DefinitionIs, CstringIs
<1>i. id \in Nat /\ id + 3 \in Nat /\ Len(data) \in Nat /\ id >= 7
  <2> DEFINE p == Len(ns)
  <2> DEFINE q == Len(nm)
  <2>1. p \in Nat /\ q \in Nat /\ Len(data) \in Nat
    BY <1>1, <1>2
  <2> HIDE DEF p, q
  <2>2. 5 + p + 1 + q + 1 \in Nat /\ 5 + p + 1 + q + 1 + 3 \in Nat /\ 5 + p + 1 + q + 1 >= 7
    BY <2>1
  <2>3. QED
    BY <2>1, <2>2 DEF p, q
<1>3. data[id + 1] = d.ident /\ data[id + 2] = 0 /\ data[id + 3] = n /\ Len(data) >= id + 3
  <2>1. Len(e) = 3 /\ e[1] = d.ident /\ e[2] = 0 /\ e[3] = n
    OBVIOUS
  <2> HIDE DEF data, id, e, n
  <2>2. \A j \in 1..3 : data[id + j] = e[j]
    BY <1>1, <2>1 DEF Lies
  <2>3. id + 3 <= Len(data)
    BY <1>1, <2>1 DEF Lies
  <2>4. data[id + 1] = e[1] /\ data[id + 2] = e[2] /\ data[id + 3] = e[3]
    BY <2>2
  <2>5. QED
    BY <1>i, <2>1, <2>3, <2>4
<1> HIDE DEF e
<1>4. ExtractString(From(data, 5)) = Ok(ns)
  <2>1. 5 \in Nat /\ 0 \in Nat /\ 5 + 0 = 5
    OBVIOUS
  <2> HIDE DEF data, ns
  <2>2. From(data, 5) \in Seq(Byte) /\ Lies(Cstring(ns), From(data, 5), 0)
    BY <1>1, <1>2, <2>1, LiesFrom
  <2>3. QED
    BY <1>2, <2>2, ReadsString
<1>5. ExtractString(From(data, 5 + Len(ns) + 1)) = Ok(nm)
  <2> DEFINE m == 5 + Len(ns) + 1
  <2>1. m \in Nat /\ 0 \in Nat /\ m + 0 = m
    BY <1>2
  <2>2. Lies(Cstring(nm), data, m)
    BY <1>1
  <2> HIDE DEF data, nm, m
  <2>3. From(data, m) \in Seq(Byte) /\ Lies(Cstring(nm), From(data, m), 0)
    BY <1>1, <1>2, <2>1, <2>2, LiesFrom
  <2>4. ExtractString(From(data, m)) = Ok(nm)
    BY <1>2, <2>3, ReadsString
  <2>5. QED
    BY <2>4 DEF m
<1>6. id \in Nat /\ id + 3 \in Nat /\ Len(data) \in Nat /\ id >= 7
  BY <1>i
<1> DEFINE r == ParseFields(data, id + 3, n)
<1> DEFINE all == \A i \in DOMAIN d.cols : IsSupported(d.cols[i].type)
<1>7. /\ all => r.st = "ok" /\ r.val.fields = [i \in DOMAIN d.cols |-> FieldOf(d, i)]
      /\ ~all => r = Error
  <2> HIDE DEF data, id
  <2>1. QED
    BY <1>1, <1>6, ReadsFields
<1>8. ~(Len(data) < 10) /\ ~(Len(data) < id + 2) /\ ~(Len(data) < id + 3)
  <2> HIDE DEF data, id
  <2>1. QED
    BY <1>3, <1>6
<1>9. 256 * data[id + 2] + data[id + 3] = n
  <2> HIDE DEF data, id, n
  <2>1. QED
    BY <1>2, <1>3
<1>10. ParseAfterNames(data, ns, nm)
         = IF d.ident \notin {Ident.Keys, Ident.Row} THEN Error
           ELSE RelationOf(ns, nm, d.ident, r)
  <2> HIDE DEF data, ns, nm, r, n
  <2>1. QED
    BY <1>3, <1>8, <1>9 DEF ParseAfterNames, r
<1>11. ParseRelation(data) = ParseAfterNames(data, ns, nm)
  <2>1. Ok(ns).st = "ok" /\ Ok(ns).val = ns /\ Ok(nm).st = "ok" /\ Ok(nm).val = nm
    BY DEF Ok
  <2> HIDE DEF data, ns, nm
  <2>2. QED
    BY <1>4, <1>5, <1>8, <2>1 DEF ParseRelation
<1>12. Supported(d) <=> d.ident \in {Ident.Keys, Ident.Row} /\ all
  BY DEF Supported, IsSupported
<1> HIDE DEF data, id, r, all
<1>13. CASE ~Supported(d)
  <2>1. ~all => RelationOf(ns, nm, d.ident, r) = Error
    BY <1>7 DEF RelationOf, Error
  <2>2. QED
    BY <1>10, <1>11, <1>12, <1>13, <2>1 DEF data
<1>14. CASE Supported(d)
  <2> DEFINE f == [i \in DOMAIN d.cols |-> FieldOf(d, i)]
  <2>1. r.st = "ok" /\ r.val.fields = f /\ d.ident \in {Ident.Keys, Ident.Row}
    BY <1>7, <1>12, <1>14
  <2>2. (d.ident = Ident.Keys) <=> ~(d.ident = Ident.Row)
    BY <2>1 DEF Ident
  <2>3. Meaning(d) = [namespace |-> ns, name |-> nm, fields |-> f,
                      replica_id |-> IF d.ident = Ident.Keys THEN "Keys" ELSE "Row"]
    BY <2>2 DEF Meaning, FieldOf
  <2> HIDE DEF f, ns, nm
  <2>4. RelationOf(ns, nm, d.ident, r) = Ok(Meaning(d))
    BY <2>1, <2>3 DEF RelationOf
  <2>5. QED
    BY <1>10, <1>11, <1>14, <2>1, <2>4 DEF data
<1>15. QED
  BY <1>13, <1>14

------------------------------------------------------------------------------
(* Avro.                                                                     *)

LEMMA IndexOfIs ==
  ASSUME NEW s, NEW x, \E i \in DOMAIN s : s[i] = x
  PROVE  IndexOf(s, x) \in DOMAIN s /\ s[IndexOf(s, x)] = x
BY DEF IndexOf

LEMMA KindNumber ==
  ASSUME NEW kind \in {"Bool", "Int8", "Int4", "Text", "Timestamp"}
  PROVE  Kinds[(IndexOf(Kinds, kind) - 1) + 1] = kind
<1>1. /\ DOMAIN Kinds = 1..5 /\ Kinds[1] = "Int4" /\ Kinds[2] = "Text" /\ Kinds[3] = "Int8"
      /\ Kinds[4] = "Bool" /\ Kinds[5] = "Timestamp"
  BY DEF Kinds
<1>2. 1 \in 1..5 /\ 2 \in 1..5 /\ 3 \in 1..5 /\ 4 \in 1..5 /\ 5 \in 1..5
  OBVIOUS
<1>3. \E i \in DOMAIN Kinds : Kinds[i] = kind
  BY <1>1, <1>2
<1>4. IndexOf(Kinds, kind) \in 1..5 /\ Kinds[IndexOf(Kinds, kind)] = kind
  BY <1>1, <1>3, IndexOfIs
<1>5. (IndexOf(Kinds, kind) - 1) + 1 = IndexOf(Kinds, kind)
  BY <1>4
<1>6. QED
  BY <1>4, <1>5

LEMMA ReplicaNumber ==
  ASSUME NEW id \in {"Keys", "Row"}
  PROVE  ReplicaIds[(IndexOf(ReplicaIds, id) - 1) + 1] = id
<1>1. DOMAIN ReplicaIds = 1..2 /\ ReplicaIds[1] = "Keys" /\ ReplicaIds[2] = "Row"
  BY DEF ReplicaIds
<1>2. 1 \in 1..2 /\ 2 \in 1..2
  OBVIOUS
<1>3. \E i \in DOMAIN ReplicaIds : ReplicaIds[i] = id
  BY <1>1, <1>2
<1>4. IndexOf(ReplicaIds, id) \in 1..2 /\ ReplicaIds[IndexOf(ReplicaIds, id)] = id
  BY <1>1, <1>3, IndexOfIs
<1>5. (IndexOf(ReplicaIds, id) - 1) + 1 = IndexOf(ReplicaIds, id)
  BY <1>4
<1>6. QED
  BY <1>4, <1>5

\* A relation comes out of Avro as it went in.
LEMMA RelationTravels ==
  ASSUME NEW d \in Defined, Supported(d)
  PROVE  RelationFromAvro(RelationIntoAvro(Meaning(d))) = Meaning(d)
<1> DEFINE D == DOMAIN d.cols
<1> DEFINE id == IF d.ident = Ident.Row THEN "Row" ELSE "Keys"
<1> DEFINE f == [i \in D |-> FieldOf(d, i)]
<1> DEFINE Number(i) == [is_key |-> FieldOf(d, i).is_key, name |-> FieldOf(d, i).name,
                         kind |-> IndexOf(Kinds, FieldOf(d, i).kind) - 1]
<1> DEFINE a == [namespace |-> d.namespace, name |-> d.name,
                 replica_id |-> IndexOf(ReplicaIds, id) - 1,
                 fields |-> [i \in D |-> Number(i)]]
<1>1. Meaning(d) = [namespace |-> d.namespace, name |-> d.name, replica_id |-> id,
                    fields |-> f]
  BY DEF Meaning, FieldOf
<1>2. \A i \in D : FieldOf(d, i).kind \in {"Bool", "Int8", "Int4", "Text", "Timestamp"}
  <2>1. ASSUME NEW i \in D
        PROVE  FieldOf(d, i).kind \in {"Bool", "Int8", "Int4", "Text", "Timestamp"}
    <3>1. d.cols[i].type \in DOMAIN KindOf
      BY DEF Supported
    <3>2. FieldOf(d, i).kind = KindOf[d.cols[i].type]
      BY DEF FieldOf
    <3>3. QED
      BY <3>1, <3>2 DEF KindOf
  <2>2. QED
    BY <2>1
<1>3. \A i \in D : FieldOf(d, i) = [is_key |-> FieldOf(d, i).is_key,
                                     name |-> FieldOf(d, i).name,
                                     kind |-> FieldOf(d, i).kind]
  BY DEF FieldOf
<1>4. id \in {"Keys", "Row"}
  OBVIOUS
<1> HIDE DEF id, D
<1>5. RelationIntoAvro(Meaning(d)) = a
  <2>1. \A i \in D : FieldIntoAvro(FieldOf(d, i)) = Number(i)
    BY <1>3 DEF FieldIntoAvro
  <2>2. [i \in DOMAIN f |-> FieldIntoAvro(f[i])] = [i \in D |-> Number(i)]
    <3> HIDE DEF Number
    <3>1. QED
      BY <2>1
  <2> HIDE DEF f, Number
  <2> DEFINE m == Meaning(d)
  <2>3. m.fields = f /\ m.replica_id = id
    BY <1>1
  <2>4. m.namespace = d.namespace /\ m.name = d.name
    BY <1>1
  <2> HIDE DEF m
  <2>5. RelationIntoAvro(m) = a
    BY <2>2, <2>3, <2>4 DEF RelationIntoAvro
  <2>6. QED
    BY <2>5 DEF m
<1>6. RelationFromAvro(a) = [namespace |-> d.namespace, name |-> d.name, replica_id |-> id,
                             fields |-> f]
  <2> DEFINE g == [i \in D |-> Number(i)]
  <2>1. ASSUME NEW i \in D PROVE FieldFromAvro(Number(i)) = FieldOf(d, i)
    <3>1. Kinds[(IndexOf(Kinds, FieldOf(d, i).kind) - 1) + 1] = FieldOf(d, i).kind
      BY <1>2, KindNumber
    <3>2. QED
      BY <1>3, <3>1 DEF FieldFromAvro
  <2>2. [i \in DOMAIN g |-> FieldFromAvro(g[i])] = f
    <3> HIDE DEF Number
    <3>1. QED
      BY <2>1
  <2>3. ReplicaIds[(IndexOf(ReplicaIds, id) - 1) + 1] = id
    BY <1>4, ReplicaNumber
  <2>4. a = [namespace |-> d.namespace, name |-> d.name,
             replica_id |-> IndexOf(ReplicaIds, id) - 1, fields |-> g]
    OBVIOUS
  <2> HIDE DEF f, g, Number
  <2>5. a.fields = g /\ a.replica_id = IndexOf(ReplicaIds, id) - 1
    BY <2>4
  <2>6. a.namespace = d.namespace /\ a.name = d.name
    BY <2>4
  <2> HIDE DEF a
  <2>7. QED
    BY <2>2, <2>3, <2>5, <2>6 DEF RelationFromAvro
<1>7. QED
  BY <1>1, <1>5, <1>6

------------------------------------------------------------------------------
(* Values.                                                                   *)

IsCell(v) == v = Null \/ (v \in Seq(Byte) /\ Len(v) \in Byte)

CellBytes(v) == IF v = Null THEN <<110>> ELSE <<98, 0, 0, 0, Len(v)>> \o v

\* What is made of a value, if a field's kind is the right one or not.
CellRead(v, kind) ==
  IF v = Null THEN Took("Null", <<>>, 1)
  ELSE IF kind = "Text"
       THEN IF IsUtf8(v) THEN Took(kind, v, 5 + Len(v)) ELSE Error
       ELSE IF Len(v) # Width[kind] THEN Error
            ELSE Took(kind, IF kind = "Bool" THEN <<IF v[1] # 0 THEN 1 ELSE 0>> ELSE v,
                      5 + Len(v))

LEMMA CellBytesIs ==
  ASSUME NEW v, IsCell(v)
  PROVE  /\ CellBytes(v) \in Seq(Byte)
         /\ v = Null => CellBytes(v) = <<110>> /\ Len(CellBytes(v)) = 1
         /\ v # Null => /\ v \in Seq(Byte) /\ Len(v) \in Byte /\ Len(v) \in Nat
                        /\ <<98, 0, 0, 0, Len(v)>> \in Seq(Byte)
                        /\ Len(<<98, 0, 0, 0, Len(v)>>) = 5
                        /\ CellBytes(v) = <<98, 0, 0, 0, Len(v)>> \o v
                        /\ Len(CellBytes(v)) = 5 + Len(v)
<1>1. 110 \in Byte /\ 98 \in Byte /\ 0 \in Byte
  BY DEF Byte
<1>2. CASE v = Null
  <2>1. CellBytes(v) = <<110>>
    BY <1>2 DEF CellBytes
  <2>2. <<110>> \in Seq(Byte) /\ Len(<<110>>) = 1
    BY <1>1
  <2>3. QED
    BY <1>2, <2>1, <2>2
<1>3. CASE v # Null
  <2> DEFINE h == <<98, 0, 0, 0, Len(v)>>
  <2>1. v \in Seq(Byte) /\ Len(v) \in Byte /\ Len(v) \in Nat
    BY <1>3 DEF IsCell
  <2>2. h \in Seq(Byte) /\ Len(h) = 5 /\ CellBytes(v) = h \o v
    BY <1>1, <1>3, <2>1 DEF CellBytes
  <2>3. h \o v \in Seq(Byte) /\ Len(h \o v) = 5 + Len(v)
    <3> HIDE DEF h
    <3>1. h \o v \in Seq(Byte) /\ Len(h \o v) = Len(h) + Len(v)
      BY <2>1, <2>2, ConcatProperties
    <3>2. QED
      BY <2>2, <3>1
  <2>4. QED
    BY <1>3, <2>1, <2>2, <2>3 DEF h
<1>4. QED
  BY <1>2, <1>3

LEMMA ReadsCell ==
  ASSUME NEW data \in Seq(Byte), NEW v, IsCell(v), Lies(CellBytes(v), data, 0), NEW kind
  PROVE  ParseValue(data, kind) = CellRead(v, kind)
<1>1. CASE v = Null
  <2>1. CellBytes(v) = <<110>> /\ Len(<<110>>) = 1 /\ <<110>>[1] = 110
    BY <1>1, CellBytesIs
  <2>2. data[0 + 1] = 110 /\ 0 + 1 <= Len(data)
    BY <2>1 DEF Lies
  <2>3. data # <<>> /\ data[1] = 110
    BY <2>2
  <2>4. QED
    BY <1>1, <2>3 DEF ParseValue, CellRead
<1>2. CASE v # Null
  <2> DEFINE l == Len(v)
  <2> DEFINE h == <<98, 0, 0, 0, l>>
  <2>1. /\ v \in Seq(Byte) /\ l \in Byte /\ l \in Nat /\ h \in Seq(Byte) /\ Len(h) = 5
        /\ CellBytes(v) = h \o v
    BY <1>2, CellBytesIs
  <2>2. Lies(h, data, 0) /\ Lies(v, data, 5)
    <3> HIDE DEF h, l
    <3>1. Lies(h \o v, data, 0) /\ 0 \in Nat
      BY <2>1
    <3>2. Lies(h, data, 0) /\ Lies(v, data, 0 + Len(h))
      BY <2>1, <3>1, LiesInConcat
    <3>3. 0 + Len(h) = 5
      BY <2>1
    <3>4. QED
      BY <3>2, <3>3
  <2>3. /\ data[1] = 98 /\ data[2] = 0 /\ data[3] = 0 /\ data[4] = 0 /\ data[5] = l
        /\ Len(data) >= 5 /\ Len(data) \in Nat
    <3>1. h[1] = 98 /\ h[2] = 0 /\ h[3] = 0 /\ h[4] = 0 /\ h[5] = l
      OBVIOUS
    <3> HIDE DEF h, l
    <3>2. \A j \in 1..5 : data[0 + j] = h[j]
      BY <2>1, <2>2 DEF Lies
    <3>3. \A j \in 1..5 : data[j] = h[j]
      BY <3>2
    <3>4. 0 + 5 <= Len(data) /\ Len(data) \in Nat
      BY <2>1, <2>2 DEF Lies
    <3>5. QED
      BY <3>1, <3>3, <3>4
  <2>4. 5 + l <= Len(data)
    BY <2>2 DEF Lies
  <2>5. SubSeq(data, 6, 5 + l) = v
    <3> DEFINE u == SubSeq(data, 5 + 1, 5 + l)
    <3>1. u \in Seq(Byte) /\ Len(u) = l /\ \A j \in 1..l : u[j] = data[5 + j]
      <4> HIDE DEF l
      <4>1. QED
        BY <2>1, <2>4, PartIs
    <3>2. \A j \in 1..l : data[5 + j] = v[j]
      BY <2>2 DEF Lies
    <3>3. 5 + 1 = 6
      OBVIOUS
    <3> HIDE DEF u
    <3>4. u = v
      BY <2>1, <3>1, <3>2, SeqEqual
    <3>5. QED
      BY <3>3, <3>4 DEF u
  <2>6. U32(data, 1) = l
    <3> HIDE DEF l, h
    <3>1. data[1 + 1] = 0 /\ data[1 + 2] = 0 /\ data[1 + 3] = 0 /\ data[1 + 4] = l
      BY <2>3
    <3>2. QED
      BY <2>1, <3>1 DEF U32
  <2>7. data # <<>> /\ ~(Len(data) < 5) /\ ~(Len(data) < 5 + l)
    <3> HIDE DEF l, h
    <3>1. data # <<>>
      BY <2>3
    <3>2. QED
      BY <2>1, <2>3, <2>4, <3>1
  <2> HIDE DEF l, h
  <2>8. ParseValue(data, kind) = ParseBinary(data, kind, l)
    BY <2>3, <2>6, <2>7 DEF ParseValue
  <2>9. ParseBinary(data, kind, l)
          = IF kind = "Text"
            THEN IF ~IsUtf8(v) THEN Error ELSE Took(kind, v, 5 + l)
            ELSE IF l # Width[kind] THEN Error
            ELSE Took(kind, IF kind = "Bool" THEN <<IF v[1] # 0 THEN 1 ELSE 0>> ELSE v, 5 + l)
    BY <2>5, <2>7 DEF ParseBinary
  <2>10. QED
    BY <1>2, <2>8, <2>9 DEF CellRead, l
<1>3. QED
  BY <1>1, <1>2

\* A value of the field's own type is read as it is.
LEMMA ReadsSample ==
  ASSUME NEW t \in Types, IsSupported(t), NEW v \in Sample[t]
  PROVE  IsCell(v) /\ v # Null /\ CellRead(v, KindOf[t]) = Took(KindOf[t], v, 5 + Len(v))
<1>1. v \in Seq(Byte) /\ Len(v) \in Byte /\ IsSent(t, v)
  BY DefinitionsAssumption
<1>2. v # Null
  <2>1. SUFFICES ASSUME v = Null PROVE FALSE
    OBVIOUS
  <2>2. Len(v) = 1 /\ v[1] = 256
    BY <2>1 DEF Null
  <2>3. 1 \in 1..Len(v)
    BY <2>2
  <2>4. v[1] \in Byte
    BY <1>1, <2>3, SeqWithin
  <2>5. QED
    BY <2>2, <2>4 DEF Byte
<1>3. CASE t = "text"
  <2>1. KindOf[t] = "Text" /\ IsUtf8(v)
    BY <1>1, <1>3 DEF KindOf, IsSent
  <2>2. QED
    BY <1>1, <1>2, <2>1 DEF CellRead, IsCell
<1>4. CASE t = "bool"
  <2>1. KindOf[t] = "Bool" /\ Len(v) = 1 /\ v[1] \in {0, 1} /\ Width["Bool"] = 1
    BY <1>1, <1>4 DEF KindOf, IsSent, PgWidth, Width
  <2> DEFINE u == <<IF v[1] # 0 THEN 1 ELSE 0>>
  <2>2. u[1] = v[1] /\ Len(u) = 1 /\ u \in Seq(Nat)
    BY <2>1
  <2>3. v \in Seq(Nat)
    <3>1. Byte \subseteq Nat
      BY DEF Byte
    <3>2. QED
      BY <1>1, <3>1, SeqWithin
  <2> HIDE DEF u
  <2>4. \A i \in 1..1 : u[i] = v[i]
    BY <2>2
  <2>5. u = v
    BY <2>1, <2>2, <2>3, <2>4, SeqEqual
  <2>6. QED
    BY <1>1, <1>2, <2>1, <2>5 DEF CellRead, IsCell, u
<1>5. CASE t \in {"int4", "int8", "timestamp"}
  <2>1. KindOf[t] \in {"Int4", "Int8", "Timestamp"} /\ Len(v) = Width[KindOf[t]]
    BY <1>1, <1>5 DEF KindOf, IsSent, PgWidth, Width
  <2>2. QED
    BY <1>1, <1>2, <2>1 DEF CellRead, IsCell
<1>6. QED
  BY <1>3, <1>4, <1>5 DEF IsSupported, KindOf

------------------------------------------------------------------------------
(* Rows.                                                                     *)

Value == [kind : FieldKinds \cup {"Null"}, bytes : Seq(Byte)]

\* What may be read of a value.
IsValueRead(v) ==
  v \in Failures \/ \E value \in Value, len \in Nat : v = Ok([value |-> value, len |-> len])

RowAccs == Failures \cup {Ok(a) : a \in [vals : Seq(Value), pos : Nat]}

\* How the loop of insert::parse goes on from what it has read.
ValueAdded(acc, v) ==
  IF v.st # "ok" THEN v
  ELSE Ok([vals |-> Append(acc.val.vals, v.val.value), pos |-> acc.val.pos + v.val.len])

NextValue(data, fields, acc, i) ==
  IF acc.st # "ok" THEN acc
  ELSE ValueAdded(acc, ParseValue(From(data, acc.val.pos), fields[i].kind))

FirstValue == Ok([vals |-> <<>>, pos |-> 2])

LEMMA TookType ==
  ASSUME NEW kind \in FieldKinds \cup {"Null"}, NEW bytes \in Seq(Byte), NEW len \in Nat
  PROVE  IsValueRead(Took(kind, bytes, len))
BY DEF IsValueRead, Took, Value

LEMMA ParseValueType ==
  ASSUME NEW data \in Seq(Byte), NEW kind \in FieldKinds
  PROVE  IsValueRead(ParseValue(data, kind))
<1> DEFINE l == U32(data, 1)
<1>1. IsValueRead(Error) /\ IsValueRead(Panic)
  BY DEF IsValueRead, Failures
<1>2. IsValueRead(Took("Null", <<>>, 1))
  <2>1. "Null" \in FieldKinds \cup {"Null"} /\ <<>> \in Seq(Byte) /\ 1 \in Nat
    OBVIOUS
  <2>2. QED
    BY <2>1, TookType
<1>3. ASSUME Len(data) >= 5 PROVE IsValueRead(ParseBinary(data, kind, l))
  <2> DEFINE bytes == SubSeq(data, 6, 5 + l)
  <2> DEFINE bool == <<IF bytes[1] # 0 THEN 1 ELSE 0>>
  <2>1. l \in Nat
    <3>1. /\ data[1 + 1] \in Byte /\ data[1 + 2] \in Byte /\ data[1 + 3] \in Byte
          /\ data[1 + 4] \in Byte
      BY <1>3
    <3> DEFINE P(a, b, c, e) == 256 * (256 * (256 * a + b) + c) + e \in Nat
    <3>2. \A a, b, c, e \in Byte : P(a, b, c, e)
      BY DEF Byte
    <3> HIDE DEF P
    <3>3. P(data[1 + 1], data[1 + 2], data[1 + 3], data[1 + 4])
      BY <3>1, <3>2, Zenon
    <3>4. QED
      BY <3>3, Zenon DEF U32, P
  <2> HIDE DEF l
  <2>2. CASE Len(data) < 5 + l
    BY <1>1, <2>2 DEF ParseBinary
  <2>3. CASE ~(Len(data) < 5 + l)
    <3>1. bytes \in Seq(Byte)
      <4>1. 5 + l <= Len(data) /\ 5 \in Nat /\ 5 + 1 = 6
        BY <2>1, <2>3
      <4>2. SubSeq(data, 5 + 1, 5 + l) \in Seq(Byte)
        BY <2>1, <4>1, PartIs
      <4>3. QED
        BY <4>1, <4>2
    <3>2. bool \in Seq(Byte)
      <4> HIDE DEF bytes
      <4>1. 0 \in Byte /\ 1 \in Byte
        BY DEF Byte
      <4>2. QED
        BY <4>1
    <3>3. 5 + l \in Nat
      BY <2>1
    <3> HIDE DEF bool
    <3>4. IsValueRead(Took(kind, bytes, 5 + l)) /\ IsValueRead(Took(kind, bool, 5 + l))
      <4> HIDE DEF bytes
      <4>1. QED
        BY <3>1, <3>2, <3>3, TookType
    <3>5. ParseBinary(data, kind, l)
            \in {Error, Took(kind, bytes, 5 + l), Took(kind, bool, 5 + l)}
      BY <2>3 DEF ParseBinary, bool
    <3>6. QED
      BY <1>1, <3>4, <3>5
  <2>4. QED
    BY <2>2, <2>3
<1> HIDE DEF l
<1>4. \/ ParseValue(data, kind) = Error \/ ParseValue(data, kind) = Took("Null", <<>>, 1)
      \/ ParseValue(data, kind) = ParseBinary(data, kind, l) /\ ~(Len(data) < 5)
  BY DEF ParseValue, l
<1>5. ~(Len(data) < 5) => Len(data) >= 5
  OBVIOUS
<1>6. QED
  BY <1>1, <1>2, <1>3, <1>4, <1>5

LEMMA FromType ==
  ASSUME NEW data \in Seq(Byte), NEW m \in Nat
  PROVE  From(data, m) \in Seq(Byte)
<1>1. CASE m <= Len(data)
  BY <1>1, FromIs
<1>2. CASE ~(m <= Len(data))
  <2>1. m + 1 \in Int /\ Len(data) \in Int /\ Len(data) < m + 1
    BY <1>2
  <2>2. SubSeq(data, m + 1, Len(data)) = <<>>
    BY <2>1, SubSeqEmpty
  <2>3. QED
    BY <2>2 DEF From
<1>3. QED
  BY <1>1, <1>2

LEMMA NextValueType ==
  ASSUME NEW data \in Seq(Byte), NEW fields, NEW i, fields[i].kind \in FieldKinds,
         NEW acc \in RowAccs
  PROVE  NextValue(data, fields, acc, i) \in RowAccs
<1>1. Error.st = "error" /\ Panic.st = "panic"
  BY DEF Error, Panic
<1>2. CASE acc \in Failures
  BY <1>1, <1>2 DEF NextValue, Failures
<1>3. ASSUME NEW a \in [vals : Seq(Value), pos : Nat], acc = Ok(a)
      PROVE  NextValue(data, fields, acc, i) \in RowAccs
  <2> DEFINE v == ParseValue(From(data, a.pos), fields[i].kind)
  <2>1. a.vals \in Seq(Value) /\ a.pos \in Nat
    OBVIOUS
  <2>2. acc.st = "ok" /\ acc.val = a
    BY <1>3 DEF Ok
  <2>3. IsValueRead(v)
    BY <2>1, FromType, ParseValueType
  <2>4. NextValue(data, fields, acc, i) = ValueAdded(acc, v)
    BY <2>2 DEF NextValue
  <2> HIDE DEF v
  <2>5. CASE v \in Failures
    BY <1>1, <2>4, <2>5 DEF ValueAdded, RowAccs, Failures
  <2>6. ASSUME NEW value \in Value, NEW len \in Nat, v = Ok([value |-> value, len |-> len])
        PROVE  NextValue(data, fields, acc, i) \in RowAccs
    <3>1. v.st = "ok" /\ v.val.value = value /\ v.val.len = len
      BY <2>6 DEF Ok
    <3>2. Append(a.vals, value) \in Seq(Value) /\ a.pos + len \in Nat
      BY <2>1
    <3>3. [vals |-> Append(a.vals, value), pos |-> a.pos + len]
            \in [vals : Seq(Value), pos : Nat]
      BY <3>2
    <3>4. ValueAdded(acc, v) = Ok([vals |-> Append(a.vals, value), pos |-> a.pos + len])
      BY <2>2, <3>1 DEF ValueAdded
    <3>5. QED
      BY <2>4, <3>3, <3>4 DEF RowAccs
  <2>7. QED
    BY <2>3, <2>5, <2>6 DEF IsValueRead
<1>4. QED
  BY <1>2, <1>3 DEF RowAccs

RowOf(data, fields) ==
  LET Step(acc, i) == NextValue(data, fields, acc, i)
  IN FoldLeft(Step, FirstValue, [i \in 1..data[2] |-> i])

\* What the loop has read, value by value.
IsRow(acc, data, fields, n) ==
  /\ acc[0] = FirstValue
  /\ \A k \in 1..n : acc[k] = NextValue(data, fields, acc[k - 1], k)

LEMMA RowSteps ==
  ASSUME NEW data \in Seq(Byte), NEW n \in Nat, NEW fields,
         \A k \in 1..n : fields[k].kind \in FieldKinds,
         ~(Len(data) < 2), data[1] = 0, data[2] = n, ~(n > Len(fields))
  PROVE  \E acc : IsRow(acc, data, fields, n) /\ acc[n] = ParseRow(data, fields)
<1> DEFINE Step(a, k) == NextValue(data, fields, a, k)
<1> DEFINE step == [p \in RowAccs \X (1..n) |-> Step(p[1], p[2])]
<1> DEFINE Iter(h) == h = [S \in SUBSET (1..data[2]) |->
                             IF S = {} THEN FirstValue
                             ELSE NextValue(data, fields, h[S \ {Max(S)}],
                                            [i \in 1..data[2] |-> i][Max(S)])]
<1> DEFINE h == CHOOSE h : Iter(h)
<1>1. FirstValue \in RowAccs
  <2>1. [vals |-> <<>>, pos |-> 2] \in [vals : Seq(Value), pos : Nat]
    OBVIOUS
  <2>2. QED
    BY <2>1 DEF FirstValue, RowAccs
<1>2. \A x \in RowAccs, k \in 1..n : step[<<x, k>>] \in RowAccs
  BY NextValueType
<1>3. PICK g : IsFold(g, RowAccs, n, FirstValue, step)
  <2> HIDE DEF step
  <2>1. QED
    BY <1>1, <1>2, IterExists, Zenon
<1>a. \A S \in SUBSET (1..n) : S # {} => [i \in 1..n |-> i][Max(S)] = Max(S)
  BY MaxInSet
<1>4. Iter(g)
  <2>1. ASSUME NEW S \in SUBSET (1..n), S # {}
        PROVE  step[<<g[S \ {Max(S)}], Max(S)>>]
                 = NextValue(data, fields, g[S \ {Max(S)}], [i \in 1..n |-> i][Max(S)])
    <3>1. Max(S) \in 1..n /\ g[S \ {Max(S)}] \in RowAccs
      BY <1>3, <2>1, MaxInSet DEF IsFold
    <3>2. QED
      BY <1>a, <2>1, <3>1
  <2> HIDE DEF step
  <2>2. QED
    BY <1>3, <2>1 DEF IsFold
<1>5. Iter(h)
  BY <1>4
<1>6. ParseRow(data, fields) = h[1..data[2]]
  <2>1. ~(256 * data[1] + data[2] > Len(fields))
    OBVIOUS
  <2>2. ParseRow(data, fields) = RowOf(data, fields)
    BY <2>1 DEF ParseRow, RowOf, FirstValue, NextValue, ValueAdded
  <2>3. RowOf(data, fields) = h[1..data[2]]
    BY DEF RowOf, FoldLeft, MapThenFoldSet
  <2>4. QED
    BY <2>2, <2>3
<1> HIDE DEF h
<1>7. h[{}] = FirstValue /\ 1..0 = {}
  BY <1>5
<1>8. ASSUME NEW k \in 1..n PROVE h[1..k] = NextValue(data, fields, h[1..(k - 1)], k)
  <2>1. 1..k \in SUBSET (1..n) /\ 1..k # {} /\ k \in Nat \ {0}
    <3>1. k \in Nat /\ 1 <= k /\ k <= n
      OBVIOUS
    <3>2. 1 \in 1..k /\ \A i \in 1..k : i \in 1..n
      BY <3>1
    <3>3. (1..k) \subseteq (1..n) /\ 1..k # {}
      BY <3>2, Zenon
    <3>4. QED
      BY <3>1, <3>3
  <2>2. Max(1..k) = k /\ (1..k) \ {k} = 1..(k - 1)
    BY <2>1, MaxOfUpTo
  <2>3. QED
    BY <1>5, <2>1, <2>2
<1> DEFINE acc == [k \in 0..n |-> h[1..k]]
<1>9. acc[0] = FirstValue /\ acc[n] = ParseRow(data, fields)
  BY <1>6, <1>7
<1>10. ASSUME NEW k \in 1..n PROVE acc[k] = NextValue(data, fields, acc[k - 1], k)
  BY <1>8
<1>11. QED
  BY <1>9, <1>10 DEF IsRow

LEMMA CellReadIs ==
  ASSUME NEW v, IsCell(v), NEW kind
  PROVE  \/ CellRead(v, kind) = Error
         \/ /\ CellRead(v, kind).st = "ok"
            /\ CellRead(v, kind).val.len = Len(CellBytes(v))
BY CellBytesIs DEF CellRead, Took, Ok

CellsBytes(r, n) == FlattenSeq([i \in 1..n |-> CellBytes(r[i])])

IsRowRead(p, r, n, fields) ==
  LET Read(i) == CellRead(r[i], fields[i].kind) IN
  /\ (\A i \in 1..n : Read(i).st = "ok") =>
       p.st = "ok" /\ p.val.vals = [i \in 1..n |-> Read(i).val.value]
  /\ ~(\A i \in 1..n : Read(i).st = "ok") => p = Error

\* A row is read value by value up to one that is not of its field's kind, and
\* then rejected.
LEMMA ReadsRow ==
  ASSUME NEW data \in Seq(Byte), NEW n \in Nat, NEW r, \A i \in 1..n : IsCell(r[i]),
         NEW fields, \A i \in 1..n : fields[i].kind \in FieldKinds, ~(n > Len(fields)),
         ~(Len(data) < 2), data[1] = 0, data[2] = n, Lies(CellsBytes(r, n), data, 2)
  PROVE  IsRowRead(ParseRow(data, fields), r, n, fields)
<1> DEFINE Read(i) == CellRead(r[i], fields[i].kind)
<1> DEFINE s == [i \in 1..n |-> CellBytes(r[i])]
<1> DEFINE t == FlattenSeq(s)
<1>2. s \in [1..n -> Seq(Byte)] /\ CellsBytes(r, n) = t
  BY CellBytesIs DEF CellsBytes
<1> HIDE DEF s
<1>3. t \in Seq(Byte) /\ \E at : Places(at, t, n, s) /\ at[0] = 0 /\ at[n] = Len(t)
  BY <1>2, FlattenPlaces
<1>4. Lies(t, data, 2)
  BY <1>2
<1> HIDE DEF t
<1>5. PICK at : Places(at, t, n, s) /\ at[0] = 0 /\ at[n] = Len(t)
  BY <1>3
<1>6. PICK acc : IsRow(acc, data, fields, n) /\ acc[n] = ParseRow(data, fields)
  BY RowSteps
<1> DEFINE All(k) == \A i \in 1..k : Read(i).st = "ok"
<1> DEFINE Rd(k) == Ok([vals |-> [i \in 1..k |-> Read(i).val.value], pos |-> 2 + at[k]])
<1> DEFINE Done(k) == acc[k] = IF All(k) THEN Rd(k) ELSE Error
<1> DEFINE K == {k \in Nat : k <= n => Done(k)}
<1> HIDE DEF Read
<1>7. 0 \in K
  <2>1. All(0) /\ [i \in 1..0 |-> Read(i).val.value] = <<>> /\ 2 + at[0] = 2
    BY <1>5
  <2>2. Done(0)
    BY <1>6, <2>1 DEF IsRow, FirstValue
  <2>3. QED
    BY <2>2
<1>8. ASSUME NEW k \in Nat, k \in K PROVE k + 1 \in K
  <2>1. SUFFICES ASSUME k + 1 <= n PROVE Done(k + 1)
    <3> HIDE DEF Done
    <3>1. QED
      OBVIOUS
  <2>2. k + 1 \in 1..n /\ (k + 1) - 1 = k /\ Done(k) /\ k \in 0..n
    BY <1>8, <2>1
  <2>3. acc[k + 1] = NextValue(data, fields, acc[k], k + 1)
    BY <1>6, <2>2 DEF IsRow
  <2>4. All(k + 1) <=> All(k) /\ Read(k + 1).st = "ok"
    <3>1. \A i \in 1..(k + 1) : i \in 1..k \/ i = k + 1
      OBVIOUS
    <3>2. k + 1 \in 1..(k + 1) /\ \A i \in 1..k : i \in 1..(k + 1)
      OBVIOUS
    <3>3. QED
      BY <3>1, <3>2
  <2>5. CASE ~All(k)
    <3>1. acc[k] = Error /\ Error.st # "ok"
      BY <2>2, <2>5 DEF Error
    <3>2. acc[k + 1] = Error
      BY <2>3, <3>1 DEF NextValue
    <3>3. QED
      BY <2>4, <2>5, <3>2
  <2>6. CASE All(k)
    <3> DEFINE c == CellBytes(r[k + 1])
    <3> DEFINE pos == 2 + at[k]
    <3> DEFINE f == [i \in 1..k |-> Read(i).val.value]
    <3>1. acc[k] = Ok([vals |-> f, pos |-> pos])
      BY <2>2, <2>6
    <3>a. IsCell(r[k + 1])
      BY <2>2
    <3>b. CellBytes(r[k + 1]) \in Seq(Byte)
      BY <3>a, CellBytesIs
    <3>2. s[k + 1] = c /\ c \in Seq(Byte) /\ Len(c) \in Nat
      BY <2>2, <3>b DEF s
    <3>3. at[k] \in Nat /\ at[k + 1] = at[k] + Len(c) /\ at[k + 1] <= at[n]
          /\ \A j \in 1..Len(c) : t[at[k] + j] = c[j]
      BY <1>5, <2>2, <3>2, SMTT(30) DEF Places
    <3> HIDE DEF c
    <3>4. Lies(c, t, at[k])
      BY <1>5, <3>2, <3>3 DEF Lies
    <3>5. Lies(c, data, pos)
      BY <1>3, <1>4, <3>2, <3>3, <3>4, LiesWithin
    <3>6. pos \in Nat /\ pos + 0 = pos
      BY <3>3
    <3> HIDE DEF pos
    <3>7. pos <= Len(data) /\ From(data, pos) \in Seq(Byte) /\ Lies(c, From(data, pos), 0)
      BY <3>2, <3>5, <3>6, LiesFrom
    <3>8. ParseValue(From(data, pos), fields[k + 1].kind) = Read(k + 1)
      BY <2>2, <3>7, ReadsCell DEF c, Read
    <3>9. acc[k].st = "ok" /\ acc[k].val.vals = f /\ acc[k].val.pos = pos
      BY <3>1 DEF Ok
    <3>10. acc[k + 1] = ValueAdded(acc[k], Read(k + 1))
      BY <2>3, <3>8, <3>9 DEF NextValue
    <3>11. \/ Read(k + 1) = Error
           \/ Read(k + 1).st = "ok" /\ Read(k + 1).val.len = Len(c)
      BY <2>2, CellReadIs DEF Read, c
    <3>12. CASE ~(Read(k + 1).st = "ok")
      <4>1. acc[k + 1] = Error
        BY <3>10, <3>11, <3>12 DEF ValueAdded, Error
      <4>2. QED
        BY <2>4, <3>12, <4>1
    <3>13. CASE Read(k + 1).st = "ok"
      <4> DEFINE x == Read(k + 1).val.value
      <4>1. Append(f, x) = [i \in 1..(k + 1) |-> Read(i).val.value]
        OBVIOUS
      <4>2. Read(k + 1).val.len = Len(c)
        BY <3>11, <3>13 DEF Error
      <4> HIDE DEF f
      <4>3. acc[k + 1] = Ok([vals |-> Append(f, x), pos |-> pos + Len(c)])
        BY <3>9, <3>10, <3>13, <4>2 DEF ValueAdded
      <4>4. pos + Len(c) = 2 + at[k + 1]
        BY <3>2, <3>3 DEF pos
      <4> HIDE DEF x
      <4>5. acc[k + 1] = Rd(k + 1)
        BY <4>1, <4>3, <4>4
      <4>6. QED
        BY <2>4, <2>6, <3>13, <4>5
    <3>14. QED
      BY <3>12, <3>13
  <2>7. QED
    BY <2>5, <2>6
<1>9. Done(n)
  <2>1. Nat \subseteq K
    <3> HIDE DEF K
    <3>1. QED
      BY <1>7, <1>8, Induction
  <2>2. n <= n /\ n \in K
    <3> HIDE DEF K
    <3>1. QED
      BY <2>1
  <2> HIDE DEF Done
  <2>3. QED
    BY <2>2
<1>10. Rd(n).st = "ok" /\ Rd(n).val.vals = [i \in 1..n |-> Read(i).val.value]
  BY DEF Ok
<1>11. QED
  BY <1>6, <1>9, <1>10 DEF Read, IsRowRead

LEMMA RowIs ==
  ASSUME NEW d \in Defined, NEW r \in Rows(d)
  PROVE  /\ DOMAIN r = 1..Len(d.cols) /\ Len(r) = Len(d.cols)
         /\ DOMAIN d.cols = 1..Len(d.cols) /\ Len(d.cols) \in Nat /\ Len(d.cols) \in Byte
         /\ \A i \in DOMAIN d.cols : /\ IsCell(r[i])
                                     /\ r[i] = Null \/ r[i] \in Sample[d.cols[i].type]
<1> DEFINE n == Len(d.cols)
<1> DEFINE X == UNION {Sample[t] : t \in Types} \cup {Null}
<1>1. n \in Nat /\ n \in Byte /\ DOMAIN d.cols = 1..n
      /\ \A i \in DOMAIN d.cols : d.cols[i].type \in Types
  BY DefinitionIs
<1>2. r \in [DOMAIN d.cols -> X]
      /\ \A i \in DOMAIN d.cols : r[i] = Null \/ r[i] \in Sample[d.cols[i].type]
  BY DEF Rows
<1> HIDE DEF n, X
<1>3. r \in [1..n -> X]
  BY <1>1, <1>2
<1>4. DOMAIN r = 1..n /\ Len(r) = n
  BY <1>1, <1>3
<1>5. \A t \in Types : \A v \in Sample[t] : IsCell(v)
  BY DefinitionsAssumption DEF IsCell
<1>6. \A i \in DOMAIN d.cols : IsCell(r[i])
  BY <1>1, <1>2, <1>5 DEF IsCell
<1>7. QED
  BY <1>1, <1>2, <1>4, <1>6 DEF n

\* Where the parts of an Insert message are.
LEMMA InsertParts ==
  ASSUME NEW n \in Nat, n \in Byte, NEW r, DOMAIN r = 1..n, Len(r) = n,
         \A i \in 1..n : IsCell(r[i])
  PROVE  LET data == InsertMessage(r) IN
         /\ ~(Len(data) < 6) /\ data[6] = 78
         /\ From(data, 6) \in Seq(Byte) /\ ~(Len(From(data, 6)) < 2)
         /\ From(data, 6)[1] = 0 /\ From(data, 6)[2] = n
         /\ Lies(CellsBytes(r, n), From(data, 6), 2)
<1> DEFINE data == InsertMessage(r)
<1> DEFINE h == <<73, 0, 0, 0, 1, 78, 0, n>>
<1> DEFINE t == CellsBytes(r, n)
<1>1. data = h \o t
  BY DEF InsertMessage, CellsBytes, CellBytes
<1>2. h \in Seq(Byte) /\ Len(h) = 8 /\ h[6] = 78 /\ h[7] = 0 /\ h[8] = n
  <2>1. 73 \in Byte /\ 0 \in Byte /\ 1 \in Byte /\ 78 \in Byte
    BY DEF Byte
  <2>2. QED
    BY <2>1
<1>3. t \in Seq(Byte)
  <2> DEFINE s == [i \in 1..n |-> CellBytes(r[i])]
  <2>1. s \in [1..n -> Seq(Byte)] /\ t = FlattenSeq(s)
    BY CellBytesIs DEF CellsBytes
  <2> HIDE DEF s, t
  <2>2. QED
    BY <2>1, FlattenPlaces
<1> HIDE DEF h, t, data
<1>4. data \in Seq(Byte) /\ Len(data) \in Nat
  BY <1>1, <1>2, <1>3, ConcatProperties
<1>5. Lies(h \o t, data, 0) /\ 0 \in Nat
  <2>1. 0 + Len(data) <= Len(data) /\ \A k \in Nat : 0 + k = k
    BY <1>4
  <2>2. QED
    BY <1>1, <1>4, <2>1 DEF Lies
<1>6. Lies(h, data, 0) /\ Lies(t, data, 0 + Len(h))
  BY <1>2, <1>3, <1>4, <1>5, LiesInConcat
<1>7. Len(data) >= 8 /\ data[6] = 78 /\ data[7] = 0 /\ data[8] = n
  <2>1. 0 + 8 <= Len(data) /\ \A j \in 1..8 : data[0 + j] = h[j]
    BY <1>2, <1>6 DEF Lies
  <2>2. data[6] = h[6] /\ data[7] = h[7] /\ data[8] = h[8]
    BY <2>1
  <2>3. QED
    BY <1>2, <1>4, <2>1, <2>2
<1> DEFINE rest == From(data, 6)
<1>8. rest \in Seq(Byte) /\ rest[1] = 0 /\ rest[2] = n /\ ~(Len(rest) < 2)
  <2>1. /\ rest \in Seq(Byte) /\ Len(rest) = Len(data) - 6
        /\ \A j \in 1..(Len(data) - 6) : rest[j] = data[6 + j]
    <3>1. 6 \in Nat /\ 6 <= Len(data)
      BY <1>4, <1>7
    <3>2. QED
      BY <1>4, <3>1, FromIs
  <2>2. 1 \in 1..(Len(data) - 6) /\ 2 \in 1..(Len(data) - 6) /\ 6 + 1 = 7 /\ 6 + 2 = 8
    BY <1>4, <1>7
  <2> HIDE DEF rest
  <2>3. rest[1] = data[7] /\ rest[2] = data[8]
    BY <2>1, <2>2
  <2>4. QED
    BY <1>4, <1>7, <2>1, <2>3
<1>9. Lies(t, rest, 2)
  <2>1. 6 \in Nat /\ 2 \in Nat /\ 0 + Len(h) = 6 + 2
    BY <1>2
  <2>2. Lies(t, data, 6 + 2)
    BY <1>6, <2>1
  <2>3. QED
    BY <1>3, <1>4, <2>1, <2>2, LiesFrom
<1> HIDE DEF rest
<1>10. ~(Len(data) < 6)
  BY <1>4, <1>7
<1>11. QED
  BY <1>7, <1>8, <1>9, <1>10 DEF rest, data, t

LEMMA MeaningIs ==
  ASSUME NEW d \in Defined, Supported(d)
  PROVE  /\ Len(Meaning(d).fields) = Len(d.cols)
         /\ \A i \in DOMAIN d.cols :
              /\ IsSupported(d.cols[i].type)
              /\ Meaning(d).fields[i].kind = KindOf[d.cols[i].type]
              /\ Meaning(d).fields[i].kind \in FieldKinds
              /\ Meaning(d).fields[i].name = d.cols[i].name
         /\ Meaning(d).name = d.name
<1> DEFINE n == Len(d.cols)
<1> DEFINE f == [i \in DOMAIN d.cols |-> FieldOf(d, i)]
<1>1. n \in Nat /\ DOMAIN d.cols = 1..n
  BY DefinitionIs
<1>2. Meaning(d).fields = f /\ Meaning(d).name = d.name
  BY DEF Meaning, FieldOf
<1>3. Len(f) = n
  BY <1>1
<1>4. ASSUME NEW i \in DOMAIN d.cols
      PROVE  /\ IsSupported(d.cols[i].type)
             /\ f[i].kind = KindOf[d.cols[i].type]
             /\ f[i].kind \in FieldKinds
             /\ f[i].name = d.cols[i].name
  <2>1. IsSupported(d.cols[i].type)
    BY DEF Supported, IsSupported
  <2>2. f[i].kind = KindOf[d.cols[i].type] /\ f[i].name = d.cols[i].name
    BY DEF FieldOf
  <2>3. KindOf[d.cols[i].type] \in FieldKinds
    BY <2>1 DEF IsSupported, KindOf, FieldKinds
  <2>4. QED
    BY <2>1, <2>2, <2>3
<1> HIDE DEF f
<1>5. QED
  BY <1>2, <1>3, <1>4

IsKnown == known = {} \/ \E d \in Defined : Supported(d) /\ known = {Meaning(d)}

\* The value that the server has sent for column i of a row.
ValueOf(d, r, i) ==
  IF r[i] = Null THEN Nothing ELSE [kind |-> KindOf[d.cols[i].type], bytes |-> r[i]]

RowKinds == {"Null", "Bool", "Int8", "Int4", "Text", "Timestamp"}

\* Dropped, or values of kinds that inserted rows have.
IsRead(e) ==
  \/ e.st = "error"
  \/ e.st = "ok" /\ known # {} /\ \A i \in DOMAIN e.val : e.val[i].kind \in RowKinds

LEMMA CellReadKind ==
  ASSUME NEW v, NEW kind, CellRead(v, kind).st = "ok"
  PROVE  CellRead(v, kind).val.value.kind \in {"Null", kind}
BY DEF CellRead, Took, Ok, Error

\* A row is never the reason of a panic, whatever description it is read by; by
\* the right one its values are the server's.
LEMMA ReadsInsert ==
  ASSUME NEW d \in Defined, NEW r \in Rows(d), IsKnown
  PROVE  LET e == ParseInsert(InsertMessage(r)) IN
         /\ IsRead(e)
         /\ Supported(d) /\ known = {Meaning(d)} =>
              e = Ok([i \in DOMAIN r |-> ValueOf(d, r, i)])
<1> DEFINE n == Len(d.cols)
<1> DEFINE data == InsertMessage(r)
<1> DEFINE rest == From(data, 6)
<1>1. /\ DOMAIN r = 1..n /\ Len(r) = n /\ DOMAIN d.cols = 1..n /\ n \in Nat /\ n \in Byte
      /\ \A i \in 1..n : IsCell(r[i]) /\ (r[i] = Null \/ r[i] \in Sample[d.cols[i].type])
  BY RowIs
<1> HIDE DEF n
<1>2. /\ ~(Len(data) < 6) /\ data[6] = 78
      /\ rest \in Seq(Byte) /\ ~(Len(rest) < 2) /\ rest[1] = 0 /\ rest[2] = n
      /\ Lies(CellsBytes(r, n), rest, 2)
  BY <1>1, InsertParts
<1> HIDE DEF data, rest
<1>3. Error.st = "error"
  BY DEF Error
<1>4. CASE known = {}
  BY <1>3, <1>4 DEF ParseInsert, data, IsRead
<1>5. ASSUME NEW k \in Defined, Supported(k), known = {Meaning(k)}
      PROVE  LET e == ParseInsert(data) IN
             /\ IsRead(e)
             /\ Supported(d) /\ known = {Meaning(d)} =>
                  e = Ok([i \in DOMAIN r |-> ValueOf(d, r, i)])
  <2> DEFINE fields == Meaning(k).fields
  <2> DEFINE p == ParseRow(rest, fields)
  <2> DEFINE Read(i) == CellRead(r[i], fields[i].kind)
  <2>1. (CHOOSE m \in known : TRUE) = Meaning(k) /\ known # {}
    BY <1>5
  <2>2. ParseInsert(data) = IF p.st = "ok" THEN Ok(p.val.vals) ELSE p
    BY <1>2, <2>1 DEF ParseInsert, rest
  <2>3. Len(fields) = Len(k.cols) /\ Len(k.cols) \in Nat /\ DOMAIN k.cols = 1..Len(k.cols)
        /\ \A i \in 1..Len(k.cols) : fields[i].kind \in FieldKinds
    BY <1>5, MeaningIs, DefinitionIs
  <2>7. \A i \in 1..Len(k.cols) : fields[i].kind \in RowKinds
    <3>1. \A t : IsSupported(t) => KindOf[t] \in RowKinds
      BY DEF IsSupported, KindOf, RowKinds
    <3>2. \A i \in DOMAIN k.cols : /\ IsSupported(k.cols[i].type)
                                   /\ fields[i].kind = KindOf[k.cols[i].type]
      BY <1>5, MeaningIs
    <3>3. QED
      BY <2>3, <3>1, <3>2
  <2> HIDE DEF p
  <2>4. CASE n > Len(fields)
    <3>1. 256 * rest[1] + rest[2] > Len(fields)
      BY <1>1, <1>2, <2>3, <2>4
    <3>2. p = Error
      BY <3>1 DEF ParseRow, p
    <3>3. ~(known = {Meaning(d)} /\ Supported(d))
      <4>1. SUFFICES ASSUME known = {Meaning(d)}, Supported(d) PROVE FALSE
        OBVIOUS
      <4>2. Meaning(d) = Meaning(k)
        BY <1>5, <4>1
      <4>3. Len(fields) = n
        BY <4>1, <4>2, MeaningIs DEF n
      <4>4. QED
        BY <1>1, <2>4, <4>3
    <3>4. QED
      BY <1>3, <2>2, <3>2, <3>3 DEF IsRead
  <2>5. CASE ~(n > Len(fields))
    <3>1. \A i \in 1..n : fields[i].kind \in FieldKinds
      BY <1>1, <2>3, <2>5
    <3>2. /\ (\A i \in 1..n : Read(i).st = "ok") =>
               p.st = "ok" /\ p.val.vals = [i \in 1..n |-> Read(i).val.value]
          /\ ~(\A i \in 1..n : Read(i).st = "ok") => p = Error
      <4> HIDE DEF fields
      <4>1. IsRowRead(p, r, n, fields)
        BY <1>1, <1>2, <2>5, <3>1, ReadsRow DEF p
      <4>2. QED
        BY <4>1 DEF IsRowRead
    <3>3. ASSUME known = {Meaning(d)}, Supported(d)
          PROVE  ParseInsert(data) = Ok([i \in DOMAIN r |-> ValueOf(d, r, i)])
      <4>1. Meaning(d) = Meaning(k)
        BY <1>5, <3>3
      <4>2. ASSUME NEW i \in 1..n PROVE Read(i).st = "ok" /\ Read(i).val.value = ValueOf(d, r, i)
        <5> DEFINE t == d.cols[i].type
        <5>1. IsSupported(t) /\ t \in Types /\ fields[i].kind = KindOf[t]
          BY <1>1, <3>3, <4>1, MeaningIs, DefinitionIs
        <5>2. CASE r[i] = Null
          BY <5>2 DEF CellRead, Took, Ok, ValueOf, Nothing
        <5>3. CASE r[i] # Null
          <6>1. r[i] \in Sample[t]
            BY <1>1, <5>3
          <6>2. Read(i) = Took(KindOf[t], r[i], 5 + Len(r[i]))
            BY <5>1, <6>1, ReadsSample
          <6>3. QED
            BY <5>3, <6>2 DEF Took, Ok, ValueOf
        <5>4. QED
          BY <5>2, <5>3
      <4> HIDE DEF Read
      <4>3. p.st = "ok" /\ p.val.vals = [i \in 1..n |-> Read(i).val.value]
        BY <3>2, <4>2
      <4>4. [i \in 1..n |-> Read(i).val.value] = [i \in DOMAIN r |-> ValueOf(d, r, i)]
        BY <1>1, <4>2
      <4>5. QED
        BY <2>2, <4>3, <4>4
    <3>4. IsRead(ParseInsert(data))
      <4>1. CASE ~(\A i \in 1..n : Read(i).st = "ok")
        BY <1>3, <2>2, <3>2, <4>1 DEF IsRead
      <4>2. CASE \A i \in 1..n : Read(i).st = "ok"
        <5>1. ASSUME NEW i \in 1..n PROVE Read(i).val.value.kind \in RowKinds
          <6>1. Read(i).st = "ok" /\ fields[i].kind \in RowKinds
            BY <1>1, <2>3, <2>5, <2>7, <4>2
          <6>2. Read(i).val.value.kind \in {"Null", fields[i].kind}
            BY <6>1, CellReadKind
          <6>3. QED
            BY <6>1, <6>2 DEF RowKinds
        <5> DEFINE vals == [i \in 1..n |-> Read(i).val.value]
        <5>2. ParseInsert(data) = Ok(vals)
          BY <2>2, <3>2, <4>2
        <5>3. DOMAIN vals = 1..n /\ \A i \in 1..n : vals[i].kind \in RowKinds
          BY <5>1
        <5> HIDE DEF vals
        <5>4. QED
          BY <2>1, <5>2, <5>3 DEF IsRead, Ok
      <4>3. QED
        BY <4>1, <4>2
    <3>5. QED
      BY <3>3, <3>4
  <2>6. QED
    BY <2>4, <2>5
<1>6. QED
  BY <1>4, <1>5 DEF IsKnown, data

------------------------------------------------------------------------------
(* The invariant.                                                            *)

DefsInv == def \in Defined /\ target \in Defined /\ build \in Builds
           /\ described \in BOOLEAN /\ alters \in 0..MaxAlters

\* The connectors know what the producer knows, each one meaning of the table.
KnownInv == IsKnown /\ cached = known

\* ParseInsert by this knowledge.
InsertBy(rels, data) ==
  IF Len(data) < 6 \/ rels = {} \/ data[6] # 78 THEN Error
  ELSE LET r == ParseRow(From(data, 6), (CHOOSE k \in rels : TRUE).fields) IN
       IF r.st = "ok" THEN Ok(r.val.vals) ELSE r

LEMMA InsertIsBy == \A data : ParseInsert(data) = InsertBy(known, data)
BY DEF ParseInsert, InsertBy

\* An event is what the producer has made of the last row, by what it knows.
EventInv ==
  /\ ~described => event = NotYet
  /\ event # NotYet => sent \in Rows(def) /\ event = InsertBy(known, InsertMessage(sent))

\* Every parameter of the cached statement is a column of the target, another one.
StmtInv ==
  /\ \A i \in DOMAIN stmt : TargetType(Fold(stmt[i])) # {}
  /\ \A i, j \in DOMAIN stmt : Fold(stmt[i]) = Fold(stmt[j]) => i = j

\* What the sinks have made of the event.
PgInv ==
  pg # NotYet =>
    /\ event.st = "ok"
    /\ stmt # <<>> => pg = Execute(stmt, Received)
    /\ stmt = <<>> => pg = Error /\ \E rel \in cached : ~Prepares(rel)

FelInv ==
  fel # NotYet =>
    /\ event.st = "ok"
    /\ \E rel \in cached : fel = Ok(ConvertRow(Received, Names(rel.fields)))

IInv == DefsInv /\ KnownInv /\ EventInv /\ StmtInv /\ PgInv /\ FelInv /\ Understood

\* What an event can be.
LEMMA EventIs ==
  ASSUME DefsInv, KnownInv, EventInv
  PROVE  event = NotYet \/ IsRead(event)
BY ReadsInsert, InsertIsBy DEF DefsInv, KnownInv, EventInv

LEMMA StartsSo == Init => IInv
<1> SUFFICES ASSUME Init PROVE IInv
  OBVIOUS
<1>1. DefsInv
  <2>1. MaxAlters \in Nat
    BY DefinitionsAssumption
  <2>2. def \in Defined /\ build \in Builds
    BY DEF Init, Defined
  <2>3. target \in Defined
    BY DEF Init, Defined
  <2>4. described \in BOOLEAN /\ alters = 0
    BY DEF Init
  <2>5. alters \in 0..MaxAlters
    BY <2>1, <2>4
  <2>6. QED
    BY <2>2, <2>3, <2>4, <2>5 DEF DefsInv
<1>2. KnownInv /\ EventInv /\ PgInv /\ FelInv /\ Understood
  BY DEF Init, KnownInv, IsKnown, EventInv, PgInv, FelInv, Understood
<1>3. StmtInv
  BY DEF Init, StmtInv
<1>4. QED
  BY <1>1, <1>2, <1>3 DEF IInv

------------------------------------------------------------------------------
(* One lemma per action.                                                     *)

LEMMA AlterStep == IInv /\ Alter => IInv'
<1> SUFFICES ASSUME IInv, Alter PROVE IInv'
  OBVIOUS
<1>1. DefsInv'
  <2>1. MaxAlters \in Nat
    BY DefinitionsAssumption
  <2>2. DefsInv
    BY DEF IInv
  <2>3. /\ target' = target /\ build' = build /\ described' = FALSE
        /\ alters < MaxAlters /\ alters' = alters + 1
    BY DEF Alter
  <2>4. alters' \in 0..MaxAlters
    BY <2>1, <2>2, <2>3 DEF DefsInv
  <2>5. def' \in Defined
    BY DEF Alter, Defined
  <2>6. QED
    BY <2>2, <2>3, <2>4, <2>5 DEF DefsInv
<1>2. KnownInv' /\ Understood'
  BY DEF IInv, KnownInv, IsKnown, Understood, Alter
<1>3. EventInv' /\ PgInv' /\ FelInv'
  BY DEF IInv, EventInv, PgInv, FelInv, Alter
<1>4. StmtInv'
  <2>1. StmtInv /\ stmt' = stmt /\ target' = target
    BY DEF IInv, Alter
  <2>2. QED
    BY <2>1 DEF StmtInv, TargetType
<1>5. QED
  BY <1>1, <1>2, <1>3, <1>4 DEF IInv

LEMMA DescribeStep == IInv /\ Describe => IInv'
<1> SUFFICES ASSUME IInv, Describe PROVE IInv'
  OBVIOUS
<1> DEFINE r == ParseRelation(RelationMessage(def))
<1>1. def \in Defined /\ ~described /\ IsKnown /\ cached = known
      /\ event = NotYet
  BY DEF IInv, DefsInv, KnownInv, EventInv, Describe
<1>2. r = IF Supported(def) THEN Ok(Meaning(def)) ELSE Error
  BY <1>1, ReadsRelation
<1>3. UNCHANGED <<build, target, def, stmt, sent, pg, fel, alters>> /\ described' = TRUE
  BY DEF Describe
<1> HIDE DEF r
<1>4. event' = event
  BY <1>2 DEF Describe, r, Ok, Error
<1>5. ASSUME Supported(def)
      PROVE  known' = {Meaning(def)} /\ cached' = {Meaning(def)}
  <2>1. r.st = "ok" /\ r.val = Meaning(def)
    BY <1>2, <1>5 DEF Ok
  <2>2. known' = Learn(Meaning(def))
        /\ cached' = {RelationFromAvro(RelationIntoAvro(Meaning(def)))}
    BY <2>1 DEF Describe, r
  <2>3. QED
    BY <1>1, <1>5, <2>2, RelationTravels DEF Learn
<1>6. ASSUME ~Supported(def) PROVE known' = known /\ cached' = cached
  BY <1>2, <1>6 DEF Describe, r, Error
<1>7. pg = NotYet /\ fel = NotYet
  BY <1>1 DEF IInv, PgInv, FelInv, NotYet
<1>8. KnownInv'
  <2>1. CASE Supported(def)
    BY <1>1, <1>5, <2>1 DEF KnownInv, IsKnown, Supported, Meaning, Defined
  <2>2. CASE ~Supported(def)
    BY <1>1, <1>6, <2>2 DEF KnownInv, IsKnown, Supported, Meaning, Defined
  <2>3. QED
    BY <2>1, <2>2
<1>9. Understood'
  <2>1. Supported(def') = Supported(def) /\ Meaning(def') = Meaning(def)
    BY <1>3
  <2>2. QED
    BY <1>5, <2>1 DEF Understood
<1>10. DefsInv' /\ EventInv' /\ PgInv' /\ FelInv' /\ StmtInv'
  <2>1. DefsInv'
    BY <1>3 DEF IInv, DefsInv
  <2>2. EventInv'
    BY <1>1, <1>4 DEF EventInv
  <2>3. PgInv' /\ FelInv'
    BY <1>3, <1>7 DEF PgInv, FelInv
  <2>4. StmtInv'
    BY <1>3 DEF IInv, StmtInv, TargetType
  <2>5. QED
    BY <2>1, <2>2, <2>3, <2>4
<1>11. QED
  BY <1>8, <1>9, <1>10 DEF IInv

LEMMA InsertStep == IInv /\ Insert => IInv'
<1> SUFFICES ASSUME IInv, Insert PROVE IInv'
  OBVIOUS
<1>1. UNCHANGED <<build, target, def, described, known, cached, stmt, alters>>
      /\ pg' = NotYet /\ fel' = NotYet /\ described
  BY DEF Insert
<1>2. EventInv'
  <2>1. PICK r \in Rows(def) : sent' = r /\ event' = ParseInsert(InsertMessage(r))
    BY DEF Insert
  <2>2. event' = InsertBy(known', InsertMessage(sent'))
    BY <1>1, <2>1, InsertIsBy
  <2>3. sent' \in Rows(def')
    BY <1>1, <2>1
  <2>4. QED
    BY <1>1, <2>2, <2>3 DEF EventInv
<1>3. DefsInv' /\ KnownInv' /\ Understood'
  BY <1>1 DEF IInv, DefsInv, KnownInv, IsKnown, Understood
<1>4. PgInv' /\ FelInv'
  BY <1>1 DEF PgInv, FelInv
<1>5. StmtInv'
  BY <1>1 DEF IInv, StmtInv, TargetType
<1>6. QED
  BY <1>2, <1>3, <1>4, <1>5 DEF IInv

LEMMA PostgresStep == IInv /\ OnEventPostgres => IInv'
<1> SUFFICES ASSUME IInv, OnEventPostgres PROVE IInv'
  OBVIOUS
<1>1. UNCHANGED <<build, target, def, described, known, cached, sent, event, fel, alters>>
      /\ event.st = "ok"
  BY DEF OnEventPostgres
<1>2. PICK rel \in cached :
        LET names == IF stmt # <<>> THEN stmt ELSE Names(rel.fields) IN
        IF stmt # <<>> \/ Prepares(rel)
        THEN pg' = Execute(names, Received) /\ stmt' = names
        ELSE pg' = Error /\ UNCHANGED stmt
  BY DEF OnEventPostgres
<1>3. Received' = Received
  BY <1>1 DEF Received
<1>4. Execute(stmt, Received)' = Execute(stmt', Received)
  BY <1>1, <1>3 DEF Execute, TargetType, TargetKeys
<1>5. Prepares(rel)' = Prepares(rel)
  BY <1>1 DEF Prepares, TargetType, TargetKeys
<1>6. StmtInv
  BY DEF IInv
<1>7. ASSUME stmt # <<>> PROVE PgInv' /\ StmtInv'
  <2>1. pg' = Execute(stmt, Received) /\ stmt' = stmt
    BY <1>2, <1>7
  <2>2. PgInv'
    BY <1>1, <1>4, <1>7, <2>1 DEF PgInv
  <2>3. StmtInv'
    BY <1>1, <1>6, <2>1 DEF StmtInv, TargetType
  <2>4. QED
    BY <2>2, <2>3
<1>8. ASSUME stmt = <<>>, Prepares(rel) PROVE PgInv' /\ StmtInv'
  <2> DEFINE names == Names(rel.fields)
  <2>1. pg' = Execute(names, Received) /\ stmt' = names
    BY <1>2, <1>8
  <2>2. DOMAIN names = DOMAIN rel.fields /\ \A i \in DOMAIN names : names[i] = rel.fields[i].name
    BY DEF Names
  <2>3. /\ DOMAIN rel.fields # {}
        /\ \A i \in DOMAIN rel.fields : TargetType(Fold(rel.fields[i].name)) # {}
        /\ \A i, j \in DOMAIN rel.fields :
             Fold(rel.fields[i].name) = Fold(rel.fields[j].name) => i = j
    BY <1>8 DEF Prepares
  <2> HIDE DEF names
  <2>4. names # <<>>
    BY <2>2, <2>3
  <2>5. PgInv'
    BY <1>1, <1>4, <2>1, <2>4 DEF PgInv
  <2>6. StmtInv'
    <3>1. /\ \A i \in DOMAIN names : TargetType(Fold(names[i])) # {}
          /\ \A i, j \in DOMAIN names : Fold(names[i]) = Fold(names[j]) => i = j
      BY <2>2, <2>3
    <3>2. QED
      BY <1>1, <2>1, <3>1 DEF StmtInv, TargetType
  <2>7. QED
    BY <2>5, <2>6
<1>9. ASSUME stmt = <<>>, ~Prepares(rel) PROVE PgInv' /\ StmtInv'
  <2>1. pg' = Error /\ stmt' = stmt
    BY <1>2, <1>9
  <2>2. PgInv'
    BY <1>1, <1>5, <1>9, <2>1 DEF PgInv
  <2>3. StmtInv'
    BY <1>1, <1>6, <2>1 DEF StmtInv, TargetType
  <2>4. QED
    BY <2>2, <2>3
<1>10. FelInv'
  BY <1>1, <1>3 DEF IInv, FelInv
<1>11. DefsInv' /\ KnownInv' /\ EventInv' /\ Understood'
  BY <1>1 DEF IInv, DefsInv, KnownInv, IsKnown, EventInv, Understood
<1>12. QED
  BY <1>7, <1>8, <1>9, <1>10, <1>11 DEF IInv

LEMMA FelderaStep == IInv /\ OnEventFeldera => IInv'
<1> SUFFICES ASSUME IInv, OnEventFeldera PROVE IInv'
  OBVIOUS
<1>1. UNCHANGED <<build, target, def, described, known, cached, stmt, sent, event, pg, alters>>
      /\ event.st = "ok"
  BY DEF OnEventFeldera
<1>2. FelInv'
  <2>1. \E rel \in cached : fel' = Ok(ConvertRow(Received, Names(rel.fields)))
    BY DEF OnEventFeldera
  <2>2. Received' = Received
    BY <1>1 DEF Received
  <2>3. QED
    BY <1>1, <2>1, <2>2 DEF FelInv
<1>3. PgInv'
  <2>1. PgInv
    BY DEF IInv
  <2>2. Received' = Received
    BY <1>1 DEF Received
  <2>3. Execute(stmt, Received)' = Execute(stmt, Received)
    BY <1>1, <2>2 DEF Execute, TargetType, TargetKeys
  <2>4. \A rel : Prepares(rel)' = Prepares(rel)
    BY <1>1 DEF Prepares, TargetType, TargetKeys
  <2>5. QED
    BY <1>1, <2>1, <2>3, <2>4 DEF PgInv
<1>4. StmtInv'
  BY <1>1 DEF IInv, StmtInv, TargetType
<1>5. DefsInv' /\ KnownInv' /\ EventInv' /\ Understood'
  BY <1>1 DEF IInv, DefsInv, KnownInv, IsKnown, EventInv, Understood
<1>6. QED
  BY <1>2, <1>3, <1>4, <1>5 DEF IInv

LEMMA StaysSo == IInv /\ [Next]_vars => IInv'
<1> SUFFICES ASSUME IInv, [Next]_vars PROVE IInv'
  OBVIOUS
<1>1. CASE UNCHANGED vars
  <2>1. UNCHANGED <<build, target, def, described, known, cached, stmt, sent, event, pg,
                    fel, alters>>
    BY <1>1 DEF vars
  <2>2. DefsInv' /\ KnownInv' /\ EventInv' /\ Understood'
    BY <2>1 DEF IInv, DefsInv, KnownInv, IsKnown, EventInv, Understood
  <2>3. StmtInv'
    BY <2>1 DEF IInv, StmtInv, TargetType
  <2>4. Received' = Received
    BY <2>1 DEF Received
  <2>5. PgInv'
    <3>1. Execute(stmt, Received)' = Execute(stmt, Received)
      BY <2>1, <2>4 DEF Execute, TargetType, TargetKeys
    <3>2. \A rel : Prepares(rel)' = Prepares(rel)
      BY <2>1 DEF Prepares, TargetType, TargetKeys
    <3>3. QED
      BY <2>1, <3>1, <3>2 DEF IInv, PgInv
  <2>6. FelInv'
    BY <2>1, <2>4 DEF IInv, FelInv
  <2>7. QED
    BY <2>2, <2>3, <2>5, <2>6 DEF IInv
<1>2. QED
  BY <1>1, AlterStep, DescribeStep, InsertStep, PostgresStep, FelderaStep DEF Next

LEMMA Always == Spec => []IInv
BY StartsSo, StaysSo, PTL DEF Spec

\* Whatever a supported table, its columns and its schema are called, and
\* wherever the terminators come to lie, the decoder and the connectors have the
\* description that the server wrote (find_null_word, RelationData::parse,
\* Relation::into_avro and from_avro).
THEOREM AlwaysUnderstood == Spec => []Understood
<1>1. IInv => Understood
  BY DEF IInv
<1>2. QED
  BY <1>1, Always, PTL

------------------------------------------------------------------------------
(* What is in an event.                                                      *)

\* The event of a row of a supported table.
LEMMA EventOfSupported ==
  ASSUME IInv, event # NotYet, Supported(def)
  PROVE  /\ event = Ok([i \in DOMAIN sent |-> SentValue(i)])
         /\ sent \in Rows(def) /\ cached = {Meaning(def)}
<1>1. described /\ def \in Defined /\ IsKnown /\ cached = known
      /\ sent \in Rows(def) /\ event = InsertBy(known, InsertMessage(sent))
  BY DEF IInv, DefsInv, KnownInv, EventInv
<1>2. known = {Meaning(def)}
  BY <1>1 DEF IInv, Understood
<1>3. event = Ok([i \in DOMAIN sent |-> ValueOf(def, sent, i)])
  BY <1>1, <1>2, ReadsInsert, InsertIsBy
<1>4. \A i : ValueOf(def, sent, i) = SentValue(i)
  BY DEF ValueOf, SentValue
<1>5. QED
  BY <1>1, <1>2, <1>3, <1>4

\* A row of a supported table is never dropped, and no value of it is changed; a
\* value of a table that RelationData::parse rejects may be read by the last
\* description it took, and that is the only way (parse_value).
THEOREM ValuesAlwaysKept == Spec => []ValuesKept
<1>1. IInv => ValuesKept
  <2>1. SUFFICES ASSUME IInv, event.st # "none"
                 PROVE  /\ Supported(def) => event = Ok([i \in DOMAIN sent |-> SentValue(i)])
                        /\ ~Supported(def) => event.st = "error" \/ (event.st = "ok" /\ Stale)
    BY DEF ValuesKept
  <2>2. event # NotYet
    BY <2>1 DEF NotYet
  <2>3. IsRead(event)
    BY <2>1, <2>2, EventIs DEF IInv
  <2>4. QED
    BY <2>1, <2>2, <2>3, EventOfSupported DEF IsRead, Stale
<1>2. QED
  BY <1>1, Always, PTL

------------------------------------------------------------------------------
(* What the sinks receive.                                                   *)

\* The number of a branch of the union stands for one kind.
LEMMA BranchNumber ==
  ASSUME NEW kind \in RowKinds
  PROVE  InsertItems[IndexOf(InsertItems, kind)] = kind
<1>1. /\ DOMAIN InsertItems = 1..7 /\ InsertItems[1] = "Text" /\ InsertItems[2] = "Int4"
      /\ InsertItems[4] = "Null" /\ InsertItems[5] = "Int8"
      /\ InsertItems[6] = "Bool" /\ InsertItems[7] = "Timestamp"
  BY DEF InsertItems
<1>2. 1 \in 1..7 /\ 2 \in 1..7 /\ 4 \in 1..7 /\ 5 \in 1..7 /\ 6 \in 1..7 /\ 7 \in 1..7
  OBVIOUS
<1>3. \E i \in DOMAIN InsertItems : InsertItems[i] = kind
  BY <1>1, <1>2 DEF RowKinds
<1>4. QED
  BY <1>3, IndexOfIs

LEMMA ValueTravels ==
  ASSUME NEW kind \in RowKinds, NEW bytes
  PROVE  FromAvro(IntoAvro([kind |-> kind, bytes |-> bytes])) = [kind |-> kind, bytes |-> bytes]
BY BranchNumber DEF FromAvro, IntoAvro

LEMMA SentIs ==
  ASSUME IInv, event # NotYet, Supported(def)
  PROVE  /\ DOMAIN sent = 1..Len(def.cols) /\ Len(def.cols) \in Nat
         /\ DOMAIN def.cols = 1..Len(def.cols)
         /\ \A i \in DOMAIN sent :
              /\ def.cols[i].type \in DOMAIN KindOf
              /\ KindOf[def.cols[i].type] \in RowKinds
              /\ SentValue(i).kind \in RowKinds
              /\ SentValue(i) = [kind |-> SentValue(i).kind, bytes |-> SentValue(i).bytes]
<1>1. def \in Defined /\ sent \in Rows(def)
  BY EventOfSupported DEF IInv, DefsInv
<1>2. DOMAIN sent = 1..Len(def.cols) /\ Len(def.cols) \in Nat /\ DOMAIN def.cols = 1..Len(def.cols)
  BY <1>1, RowIs
<1>3. ASSUME NEW i \in DOMAIN sent
      PROVE  /\ def.cols[i].type \in DOMAIN KindOf
             /\ KindOf[def.cols[i].type] \in RowKinds
             /\ SentValue(i).kind \in RowKinds
             /\ SentValue(i) = [kind |-> SentValue(i).kind, bytes |-> SentValue(i).bytes]
  <2>1. def.cols[i].type \in DOMAIN KindOf
    BY <1>2, <1>3 DEF Supported
  <2>2. KindOf[def.cols[i].type] \in RowKinds
    BY <2>1 DEF KindOf, RowKinds
  <2>3. QED
    BY <2>1, <2>2 DEF SentValue, Nothing, RowKinds
<1>4. QED
  BY <1>2, <1>3

\* The connectors receive the values sent (the unions of InsertItem in cdc-avro).
LEMMA ReceivedIs ==
  ASSUME IInv, event # NotYet, Supported(def)
  PROVE  Received = [i \in DOMAIN sent |-> SentValue(i)]
<1>1. event.val = [i \in DOMAIN sent |-> SentValue(i)]
  BY EventOfSupported DEF Ok
<1>2. ASSUME NEW i \in DOMAIN sent
      PROVE  FromAvro(IntoAvro(SentValue(i))) = SentValue(i)
  <2>1. /\ SentValue(i).kind \in RowKinds
        /\ SentValue(i) = [kind |-> SentValue(i).kind, bytes |-> SentValue(i).bytes]
    BY <1>2, SentIs
  <2>2. QED
    BY <2>1, ValueTravels
<1>3. QED
  BY <1>1, <1>2 DEF Received

------------------------------------------------------------------------------
(* The sinks.                                                                *)

LEMMA ColumnsDiffer ==
  ASSUME NEW d \in Defined
  PROVE  \A i, j \in DOMAIN d.cols : d.cols[i].name = d.cols[j].name => i = j
BY DefinitionsAssumption

LEMMA MinOfSame == ASSUME NEW n \in Nat PROVE Min({n, n}) = n
BY DEF Min

IsConverted(row, vals, names, n) ==
  /\ DOMAIN row = {names[i] : i \in 1..n}
  /\ \A i \in 1..n : row[names[i]] = ToJsonValue(vals[i])

\* A row is given each of its values under its column's name.
LEMMA ConvertedIs ==
  ASSUME NEW n \in Nat, NEW vals, NEW names, Len(vals) = n, Len(names) = n,
         DOMAIN names = 1..n,
         \A i, j \in 1..n : names[i] = names[j] => i = j
  PROVE  IsConverted(ConvertRow(vals, names), vals, names, n)
<1>1. Min({Len(vals), Len(names)}) = n
  BY MinOfSame
<1> DEFINE Row(l) == [m \in {names[i] : i \in 1..l} |->
                        ToJsonValue(vals[CHOOSE i \in 1..l : names[i] = m])]
<1> DEFINE c == Row(n)
<1>2. ConvertRow(vals, names) = c
  <2>1. ConvertRow(vals, names) = Row(Min({Len(vals), Len(names)}))
    BY DEF ConvertRow
  <2> HIDE DEF Row
  <2>2. QED
    BY <1>1, <2>1
<1>3. \A i \in 1..n : (CHOOSE k \in 1..n : names[k] = names[i]) = i
  OBVIOUS
<1>4. \A i \in 1..n : c[names[i]] = ToJsonValue(vals[i])
  BY <1>3
<1>5. DOMAIN c = {names[i] : i \in 1..n}
  OBVIOUS
<1> HIDE DEF c
<1>6. QED
  BY <1>2, <1>4, <1>5 DEF IsConverted

\* A Feldera row of a table whose present definition could be parsed has every
\* column, and every value that JSON and chrono have a form for
\* (FelderaConnector::on_event).
THEOREM FelderaAlwaysArrives == Spec => []FelderaArrives
<1>1. IInv => FelderaArrives
  <2>1. SUFFICES ASSUME IInv, fel.st = "ok", ~Stale
                 PROVE  /\ DOMAIN fel.val = ToSet(Names(def.cols))
                        /\ \A i \in DOMAIN sent :
                             LET v == fel.val[def.cols[i].name] IN
                             IF sent[i] = Null \/ (def.cols[i].type = "timestamp" /\ Far(sent[i]))
                             THEN v = JsonNull
                             ELSE v = [json |-> KindOf[def.cols[i].type], of |-> sent[i]]
    BY DEF FelderaArrives
  <2>2. fel # NotYet
    BY <2>1 DEF NotYet
  <2>3. /\ event.st = "ok"
        /\ \E rel \in cached : fel = Ok(ConvertRow(Received, Names(rel.fields)))
    BY <2>1, <2>2 DEF IInv, FelInv
  <2>4. event # NotYet
    BY <2>3 DEF NotYet
  <2>5. Supported(def)
    <3>1. IsRead(event)
      BY <2>1, <2>4, EventIs DEF IInv
    <3>2. known # {}
      BY <2>3, <3>1 DEF IsRead
    <3>3. QED
      BY <2>1, <3>2 DEF Stale
  <2>6. cached = {Meaning(def)} /\ def \in Defined
    BY <2>1, <2>4, <2>5, EventOfSupported DEF IInv, DefsInv
  <2> DEFINE n == Len(def.cols)
  <2> DEFINE names == Names(def.cols)
  <2> DEFINE vals == [i \in DOMAIN sent |-> SentValue(i)]
  <2>7. DOMAIN sent = 1..n /\ n \in Nat /\ DOMAIN def.cols = 1..n
    BY <2>1, <2>4, <2>5, SentIs
  <2>8. Names(Meaning(def).fields) = names
    BY DEF Names, Meaning
  <2>9. fel.val = ConvertRow(vals, names)
    <3>1. fel = Ok(ConvertRow(Received, names))
      BY <2>3, <2>6, <2>8
    <3>2. Received = vals
      BY <2>1, <2>4, <2>5, ReceivedIs
    <3>3. QED
      BY <3>1, <3>2 DEF Ok
  <2>10. /\ DOMAIN names = 1..n /\ Len(names) = n
         /\ \A i \in 1..n : names[i] = def.cols[i].name
    BY <2>7 DEF Names
  <2>11. Len(vals) = n /\ \A i \in 1..n : vals[i] = SentValue(i)
    BY <2>7
  <2>12. \A i, j \in 1..n : names[i] = names[j] => i = j
    BY <2>6, <2>7, <2>10, ColumnsDiffer
  <2> HIDE DEF n, names, vals
  <2>13. /\ DOMAIN fel.val = {names[i] : i \in 1..n}
         /\ \A i \in 1..n : fel.val[names[i]] = ToJsonValue(vals[i])
    <3>1. IsConverted(fel.val, vals, names, n)
      BY <2>7, <2>9, <2>10, <2>11, <2>12, ConvertedIs
    <3>2. QED
      BY <3>1 DEF IsConverted
  <2>14. ToSet(names) = {names[i] : i \in 1..n}
    BY <2>10 DEF ToSet
  <2>15. ASSUME NEW i \in DOMAIN sent
         PROVE  LET v == fel.val[def.cols[i].name] IN
                IF sent[i] = Null \/ (def.cols[i].type = "timestamp" /\ Far(sent[i]))
                THEN v = JsonNull
                ELSE v = [json |-> KindOf[def.cols[i].type], of |-> sent[i]]
    <3>1. fel.val[def.cols[i].name] = ToJsonValue(SentValue(i))
      BY <2>7, <2>10, <2>11, <2>13
    <3>2. def.cols[i].type \in DOMAIN KindOf
      BY <2>1, <2>4, <2>5, SentIs
    <3>3. (def.cols[i].type = "timestamp" <=> KindOf[def.cols[i].type] = "Timestamp")
          /\ KindOf[def.cols[i].type] \notin {"Null", "Toasted"}
      BY <3>2 DEF KindOf
    <3>4. QED
      BY <3>1, <3>3 DEF ToJsonValue, SentValue, Nothing
  <2>16. QED
    BY <2>13, <2>14, <2>15 DEF names
<1>2. QED
  BY <1>1, Always, PTL

\* A column of the target has one type.
LEMMA TargetTypeIs ==
  ASSUME target \in Defined, NEW name, NEW t \in TargetType(name)
  PROVE  (CHOOSE u \in TargetType(name) : TRUE) = t
<1>1. \A i, j \in DOMAIN target.cols : target.cols[i].name = target.cols[j].name => i = j
  BY ColumnsDiffer
<1>2. \A u \in TargetType(name) : u = t
  BY <1>1 DEF TargetType
<1>3. QED
  BY <1>2

Fits(type, into) == type = into \/ (type = "text" /\ into \in TextTypes)

\* ToSqlWrapper::to_sql on a value of each type.
LEMMA ToSqlIs ==
  ASSUME NEW type \in DOMAIN KindOf, NEW bytes, NEW into
  PROVE  LET v == [kind |-> KindOf[type], bytes |-> bytes] IN
         ToSql(v, into) = IF type = "timestamp" /\ Far(bytes) THEN Panic
                          ELSE IF Fits(type, into) THEN Ok(v) ELSE Error
<1>1. DOMAIN KindOf = {"bool", "int8", "int4", "text", "timestamp"}
      /\ KindOf["bool"] = "Bool" /\ KindOf["int8"] = "Int8" /\ KindOf["int4"] = "Int4"
      /\ KindOf["text"] = "Text" /\ KindOf["timestamp"] = "Timestamp"
  BY DEF KindOf
<1>2. Accepts["Text"] = TextTypes /\ "text" \in TextTypes /\ Accepts["Int4"] = {"int4"}
      /\ Accepts["Int8"] = {"int8"} /\ Accepts["Bool"] = {"bool"}
      /\ Accepts["Timestamp"] = {"timestamp"}
  BY DEF Accepts, TextTypes
<1>3. into \in Accepts[KindOf[type]] <=> Fits(type, into)
  BY <1>1, <1>2 DEF Fits
<1>4. KindOf[type] # "Null" /\ KindOf[type] # "Toasted"
      /\ (KindOf[type] = "Timestamp" <=> type = "timestamp")
  BY <1>1
<1>5. QED
  BY <1>3, <1>4 DEF ToSql

\* A null that the target's key does not take.
NullKey(v, name) == v = Nothing /\ Fold(name) \in TargetKeys

\* What the parameters of a statement come to.
IsExecuted(e, vals, names, n) ==
  LET Param(i) == ToSql(vals[i], CHOOSE t \in TargetType(Fold(names[i])) : TRUE) IN
  IF \A i \in 1..n : Param(i).st = "ok" /\ ~NullKey(vals[i], names[i])
  THEN e.st = "ok" /\ \A i \in 1..n : e.val[Fold(names[i])] = vals[i]
  ELSE e.st # "ok"

LEMMA ToSqlType ==
  ASSUME NEW v, NEW type
  PROVE  ToSql(v, type).st \in {"ok", "error", "panic"}
BY DEF ToSql, Ok, Error, Panic

LEMMA ExecutedIs ==
  ASSUME NEW n \in Nat, NEW vals, NEW names, Len(vals) = n, Len(names) = n,
         DOMAIN names = 1..n, DOMAIN vals = 1..n,
         \A i, j \in 1..n : Fold(names[i]) = Fold(names[j]) => i = j
  PROVE  IsExecuted(Execute(names, vals), vals, names, n)
<1> DEFINE Param(i) == ToSql(vals[i], CHOOSE t \in TargetType(Fold(names[i])) : TRUE)
<1> DEFINE bad == {i \in DOMAIN vals : Param(i).st # "ok"}
<1> DEFINE null == \E i \in DOMAIN vals : NullKey(vals[i], names[i])
<1> DEFINE row == [m \in {Fold(names[i]) : i \in DOMAIN names} |->
                     vals[CHOOSE i \in DOMAIN names : Fold(names[i]) = m]]
<1>1. Execute(names, vals) = IF bad # {} THEN Param(Min(bad))
                             ELSE IF null THEN Error ELSE Ok(row)
  BY DEF Execute, NullKey
<1>2. \A i \in 1..n : row[Fold(names[i])] = vals[i]
  <2>1. \A i \in 1..n : (CHOOSE k \in DOMAIN names : Fold(names[k]) = Fold(names[i])) = i
    OBVIOUS
  <2>2. QED
    BY <2>1
<1>3. bad # {} => Param(Min(bad)).st # "ok"
  <2>1. SUFFICES ASSUME bad # {} PROVE Min(bad) \in bad
    OBVIOUS
  <2>2. bad \in SUBSET Nat
    OBVIOUS
  <2> HIDE DEF bad
  <2>3. QED
    BY <2>1, <2>2, MinType
<1> HIDE DEF Param, row
<1>4. CASE bad = {} /\ ~null
  <2>1. Execute(names, vals).st = "ok" /\ Execute(names, vals).val = row
    BY <1>1, <1>4 DEF Ok
  <2>2. \A i \in 1..n : Param(i).st = "ok" /\ ~NullKey(vals[i], names[i])
    BY <1>4
  <2>3. QED
    BY <1>2, <2>1, <2>2 DEF IsExecuted, Param
<1>5. CASE bad # {} \/ null
  <2>1. Execute(names, vals).st # "ok"
    <3> HIDE DEF bad, null
    <3>1. QED
      BY <1>1, <1>3, <1>5 DEF Error
  <2>2. ~(\A i \in 1..n : Param(i).st = "ok" /\ ~NullKey(vals[i], names[i]))
    BY <1>5
  <2>3. QED
    BY <2>1, <2>2 DEF IsExecuted, Param
<1>6. QED
  BY <1>4, <1>5

\* Column i of the row can be a parameter of the statement.
IsParam(i) ==
  /\ HasPlace(i)
  /\ def.cols[i].type = "timestamp" /\ sent[i] # Null => ~Far(sent[i])

LEMMA ParamIs ==
  ASSUME target \in Defined, NEW i, def.cols[i].type \in DOMAIN KindOf,
         TargetType(Fold(def.cols[i].name)) # {}
  PROVE  LET type == CHOOSE t \in TargetType(Fold(def.cols[i].name)) : TRUE IN
         IsParam(i) <=> /\ ToSql(SentValue(i), type).st = "ok"
                        /\ ~NullKey(SentValue(i), def.cols[i].name)
<1> DEFINE type == def.cols[i].type
<1> DEFINE into == TargetType(Fold(def.cols[i].name))
<1>1. PICK t \in into : TRUE
  OBVIOUS
<1>2. (CHOOSE u \in into : TRUE) = t
  BY <1>1, TargetTypeIs
<1>3. \A u \in into : u = t
  <2>1. \A u \in into : (CHOOSE w \in into : TRUE) = u
    BY TargetTypeIs
  <2>2. QED
    BY <1>2, <2>1
<1>4. HasPlace(i) <=> IF sent[i] = Null THEN Fold(def.cols[i].name) \notin TargetKeys
                      ELSE Fits(type, t)
  BY <1>1, <1>3 DEF HasPlace, Fits
<1>5. CASE sent[i] = Null
  <2>1. ToSql(SentValue(i), t) = Ok(SentValue(i))
    BY <1>5 DEF ToSql, SentValue, Nothing
  <2>2. ToSql(SentValue(i), t).st = "ok"
    BY <2>1 DEF Ok
  <2>3. IsParam(i) <=> Fold(def.cols[i].name) \notin TargetKeys
    BY <1>4, <1>5 DEF IsParam
  <2>4. NullKey(SentValue(i), def.cols[i].name) <=> Fold(def.cols[i].name) \in TargetKeys
    BY <1>5 DEF NullKey, SentValue
  <2>5. QED
    BY <1>2, <2>2, <2>3, <2>4 DEF into
<1>6. CASE sent[i] # Null
  <2>1. SentValue(i) = [kind |-> KindOf[type], bytes |-> sent[i]]
    BY <1>6 DEF SentValue
  <2>2. ToSql(SentValue(i), t) = IF type = "timestamp" /\ Far(sent[i]) THEN Panic
                                 ELSE IF Fits(type, t) THEN Ok(SentValue(i)) ELSE Error
    BY <2>1, ToSqlIs
  <2>3. ToSql(SentValue(i), t).st = "ok"
          <=> Fits(type, t) /\ ~(type = "timestamp" /\ Far(sent[i]))
    BY <2>2 DEF Ok, Error, Panic
  <2>4. IsParam(i) <=> Fits(type, t) /\ ~(type = "timestamp" /\ Far(sent[i]))
    BY <1>4, <1>6 DEF IsParam
  <2>5. ~NullKey(SentValue(i), def.cols[i].name)
    <3>1. KindOf[type] # "Null"
      BY DEF KindOf
    <3>2. QED
      BY <2>1, <3>1 DEF NullKey, Nothing
  <2>6. QED
    BY <1>2, <2>3, <2>4, <2>5 DEF into
<1>7. QED
  BY <1>5, <1>6

\* A row of a supported table is in the Postgres target, with the values sent,
\* exactly if the statement could be prepared and each value goes into its
\* column; until the table's columns are renamed or others are added
\* (PostgresSink::on_event).
THEOREM PostgresAlwaysArrives == Spec => []PostgresArrives
<1>1. IInv => PostgresArrives
  <2>1. SUFFICES ASSUME IInv, pg.st # "none", Supported(def), stmt \in {<<>>, Names(def.cols)}
                 PROVE  IF /\ Prepares(Meaning(def)) \/ stmt # <<>>
                           /\ \A i \in DOMAIN sent : IsParam(i)
                        THEN /\ pg.st = "ok"
                             /\ \A i \in DOMAIN sent : pg.val[Fold(def.cols[i].name)] = SentValue(i)
                        ELSE pg.st # "ok"
    BY DEF PostgresArrives, IsParam
  <2>2. pg # NotYet
    BY <2>1 DEF NotYet
  <2>3. /\ event.st = "ok"
        /\ stmt # <<>> => pg = Execute(stmt, Received)
        /\ stmt = <<>> => pg = Error /\ \E rel \in cached : ~Prepares(rel)
    BY <2>1, <2>2 DEF IInv, PgInv
  <2>4. event # NotYet
    BY <2>3 DEF NotYet
  <2>5. CASE stmt = <<>>
    <3>1. cached = {Meaning(def)}
      BY <2>1, <2>4, EventOfSupported
    <3>2. pg = Error /\ ~Prepares(Meaning(def))
      BY <2>3, <2>5, <3>1
    <3>3. QED
      BY <2>5, <3>2 DEF Error
  <2>6. CASE stmt # <<>>
    <3> DEFINE n == Len(def.cols)
    <3> DEFINE names == Names(def.cols)
    <3> DEFINE vals == [i \in DOMAIN sent |-> SentValue(i)]
    <3>1. DOMAIN sent = 1..n /\ n \in Nat /\ DOMAIN def.cols = 1..n
      BY <2>1, <2>4, SentIs
    <3>2. /\ DOMAIN names = 1..n /\ Len(names) = n
          /\ \A i \in 1..n : names[i] = def.cols[i].name
      BY <3>1 DEF Names
    <3>3. DOMAIN vals = 1..n /\ Len(vals) = n /\ \A i \in 1..n : vals[i] = SentValue(i)
      BY <3>1
    <3>4. stmt = names
      BY <2>1, <2>6
    <3>5. pg = Execute(names, vals)
      BY <2>1, <2>3, <2>4, <2>6, <3>4, ReceivedIs
    <3> HIDE DEF n, names, vals
    <3>6. /\ \A i \in 1..n : TargetType(Fold(names[i])) # {}
          /\ \A i, j \in 1..n : Fold(names[i]) = Fold(names[j]) => i = j
      BY <2>1, <3>2, <3>4 DEF IInv, StmtInv
    <3>7. IsExecuted(pg, vals, names, n)
      BY <3>1, <3>2, <3>3, <3>5, <3>6, ExecutedIs
    <3>8. ASSUME NEW i \in 1..n
          PROVE  IsParam(i) <=>
                   /\ ToSql(vals[i], CHOOSE t \in TargetType(Fold(names[i])) : TRUE).st = "ok"
                   /\ ~NullKey(vals[i], names[i])
      <4>1. target \in Defined /\ def.cols[i].type \in DOMAIN KindOf
        BY <2>1, <2>4, <3>1, SentIs DEF IInv, DefsInv
      <4>2. names[i] = def.cols[i].name /\ vals[i] = SentValue(i)
        BY <3>2, <3>3
      <4>3. TargetType(Fold(def.cols[i].name)) # {}
        BY <3>6, <4>2
      <4>4. QED
        BY <4>1, <4>2, <4>3, ParamIs
    <3>9. IF \A i \in 1..n : IsParam(i)
          THEN pg.st = "ok" /\ \A i \in 1..n : pg.val[Fold(names[i])] = vals[i]
          ELSE pg.st # "ok"
      BY <3>7, <3>8 DEF IsExecuted
    <3>10. QED
      BY <2>6, <3>1, <3>2, <3>3, <3>9
  <2>7. QED
    BY <2>5, <2>6
<1>2. QED
  BY <1>1, Always, PTL

------------------------------------------------------------------------------
(* Types.                                                                    *)

LEMMA ExecuteType ==
  ASSUME NEW names, NEW vals
  PROVE  Execute(names, vals).st \in {"ok", "error", "panic"}
<1> DEFINE Param(i) == ToSql(vals[i], CHOOSE t \in TargetType(Fold(names[i])) : TRUE)
<1> DEFINE bad == {i \in DOMAIN vals : Param(i).st # "ok"}
<1> DEFINE null == \E i \in DOMAIN vals : NullKey(vals[i], names[i])
<1> DEFINE row == [m \in {Fold(names[i]) : i \in DOMAIN names} |->
                     vals[CHOOSE i \in DOMAIN names : Fold(names[i]) = m]]
<1>1. Execute(names, vals) = IF Len(vals) # Len(names) THEN Error
                             ELSE IF bad # {} THEN Param(Min(bad))
                             ELSE IF null THEN Error ELSE Ok(row)
  BY DEF Execute, NullKey
<1>2. Param(Min(bad)).st \in {"ok", "error", "panic"}
  BY ToSqlType
<1> HIDE DEF Param, bad, null, row
<1>3. QED
  BY <1>1, <1>2 DEF Ok, Error

\* A producer or a connector knows one description at most, and the connectors
\* one if the producer does; kinds are those of inserted rows.
THEOREM TypedRowsTypeCorrect == Spec => []TypeOK
<1>1. IInv => TypeOK
  <2>1. SUFFICES ASSUME IInv PROVE TypeOK
    OBVIOUS
  <2>2. /\ build \in Builds /\ def \in Defined /\ target \in Defined
        /\ described \in BOOLEAN /\ alters \in 0..MaxAlters
    BY <2>1 DEF IInv, DefsInv
  <2>3. Cardinality(known) <= 1 /\ Cardinality(cached) = Cardinality(known)
    <3>1. cached = known /\ (known = {} \/ \E m : known = {m})
      BY <2>1 DEF IInv, KnownInv, IsKnown
    <3>2. Cardinality({}) = 0 /\ \A m : Cardinality({m}) = 1
      BY FS_EmptySet, FS_Singleton
    <3>3. QED
      BY <3>1, <3>2
  <2>4. event = NotYet \/ IsRead(event)
    BY <2>1, EventIs DEF IInv
  <2>5. event.st \in Outcomes
    BY <2>4 DEF NotYet, IsRead, Outcomes
  <2>6. event.st = "ok" => \A i \in DOMAIN event.val : event.val[i].kind \in ToSet(InsertItems)
    <3>1. DOMAIN InsertItems = 1..7 /\ {InsertItems[i] : i \in 1..7} =
            {"Text", "Int4", "Toasted", "Null", "Int8", "Bool", "Timestamp"}
      BY DEF InsertItems
    <3>2. RowKinds \subseteq ToSet(InsertItems)
      BY <3>1 DEF RowKinds, ToSet
    <3>3. QED
      BY <2>4, <3>2 DEF IsRead, NotYet
  <2>7. pg.st \in Outcomes
    <3>1. pg = NotYet \/ pg = Error \/ pg = Execute(stmt, Received)
      BY <2>1 DEF IInv, PgInv
    <3>2. Execute(stmt, Received).st \in {"ok", "error", "panic"}
      BY ExecuteType
    <3>3. QED
      BY <3>1, <3>2 DEF NotYet, Error, Outcomes
  <2>8. fel.st \in Outcomes
    BY <2>1 DEF IInv, FelInv, NotYet, Ok, Outcomes
  <2>9. QED
    BY <2>2, <2>3, <2>5, <2>6, <2>7, <2>8 DEF TypeOK
<1>2. QED
  BY <1>1, Always, PTL

==============================================================================
