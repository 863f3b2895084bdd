------------------------- MODULE RowChangeKeyProofs -------------------------
(* What the decoder makes of changes that come with a K tuple, which         *)
(* parse_keys reads, and so of any change.                                   *)
EXTENDS RowChangeProofs

------------------------------------------------------------------------------
\* The key columns, which are in order.

Ordered(pk, m, n) ==
  /\ pk \in Seq(1..n) /\ Len(pk) = m /\ m \in Nat \ {0} /\ n \in Nat
  /\ \A i, j \in 1..m : i < j => pk[i] < pk[j]

LEMMA KeysOrdered ==
  ASSUME NEW s \in Shapes
  PROVE  Ordered(s.pk, Len(s.pk), s.cols)
<1> DEFINE pk == s.pk
<1>1. /\ pk \in Seq(1..s.cols) /\ pk # <<>> /\ s.cols \in Nat
      /\ \A i, j \in DOMAIN pk : i < j => pk[i] < pk[j]
  BY ShapesAssumption
<1> HIDE DEF pk
<1>2. Len(pk) \in Nat \ {0} /\ DOMAIN pk = 1..Len(pk)
  BY <1>1
<1>3. QED
  BY <1>1, <1>2 DEF Ordered, pk

\* A key is no earlier than its number, and no two of them are one column.
LEMMA KeyPlaces ==
  ASSUME NEW pk, NEW m, NEW n, Ordered(pk, m, n)
  PROVE  /\ \A j \in 1..m : j <= pk[j] /\ pk[j] \in 1..n
         /\ \A i, j \in 1..m : i <= j <=> pk[i] <= pk[j]
<1>1. pk \in [1..m -> 1..n] /\ m \in Nat /\ n \in Nat
  BY DEF Ordered
<1>2. \A i, j \in 1..m : i < j => pk[i] < pk[j]
  BY DEF Ordered
<1> DEFINE K == {j \in Nat : j \in 1..m => j <= pk[j]}
<1>3. 0 \in K
  OBVIOUS
<1>4. ASSUME NEW j \in Nat, j \in K PROVE j + 1 \in K
  <2>1. SUFFICES ASSUME j + 1 \in 1..m PROVE j + 1 <= pk[j + 1]
    OBVIOUS
  <2>2. CASE j = 0
    BY <1>1, <2>1, <2>2
  <2>3. CASE j # 0
    <3>1. j \in 1..m /\ j <= pk[j] /\ pk[j] \in Nat /\ pk[j + 1] \in Nat
      BY <1>1, <1>4, <2>1, <2>3
    <3>2. pk[j] < pk[j + 1]
      BY <1>2, <2>1, <3>1
    <3>3. QED
      BY <3>1, <3>2
  <2>4. QED
    BY <2>2, <2>3
<1>5. \A j \in 1..m : j <= pk[j]
  <2>1. Nat \subseteq K
    <3> HIDE DEF K
    <3>1. QED
      BY <1>3, <1>4, Induction
  <2>2. QED
    BY <2>1
<1>6. \A i, j \in 1..m : i <= j <=> pk[i] <= pk[j]
  BY <1>1, <1>2
<1>7. QED
  BY <1>1, <1>5, <1>6

\* If the keys are as many as the columns, or are all of them, then each is
\* where its number is.
LEMMA AllAreKeys ==
  ASSUME NEW pk, NEW m, NEW n, Ordered(pk, m, n),
         m = n \/ ToSet(pk) = 1..n
  PROVE  m = n /\ pk = [c \in 1..n |-> c] /\ ToSet(pk) = 1..n
<1>1. pk \in [1..m -> 1..n] /\ m \in Nat \ {0} /\ n \in Nat /\ DOMAIN pk = 1..m
  BY DEF Ordered
<1>2. \A j \in 1..m : j <= pk[j] /\ pk[j] \in 1..n
  BY KeyPlaces
<1>3. \A i, j \in 1..m : i <= j <=> pk[i] <= pk[j]
  BY KeyPlaces
<1>4. ASSUME m = n PROVE \A j \in 1..m : pk[j] = j
  <2> DEFINE K == {d \in Nat : d < m => pk[m - d] = m - d}
  <2>1. 0 \in K
    BY <1>1, <1>2, <1>4
  <2>2. ASSUME NEW d \in Nat, d \in K PROVE d + 1 \in K
    <3>1. SUFFICES ASSUME d + 1 < m PROVE pk[m - (d + 1)] = m - (d + 1)
      OBVIOUS
    <3> DEFINE j == m - (d + 1)
    <3>2. j \in 1..m /\ j + 1 \in 1..m /\ m - d = j + 1 /\ ~(j + 1 <= j)
      BY <1>1, <3>1
    <3>8. pk[m - d] = m - d
      BY <1>1, <2>2, <3>1
    <3> HIDE DEF j
    <3>3. pk[j + 1] = j + 1
      BY <3>2, <3>8
    <3>4. ~(pk[j + 1] <= pk[j])
      BY <1>3, <3>2
    <3>5. j <= pk[j] /\ pk[j] \in Nat
      BY <1>2, <3>2
    <3>6. pk[j] = j
      BY <3>2, <3>3, <3>4, <3>5
    <3>7. QED
      BY <3>6 DEF j
  <2>3. Nat \subseteq K
    <3> HIDE DEF K
    <3>1. QED
      BY <2>1, <2>2, Induction
  <2>4. ASSUME NEW j \in 1..m PROVE pk[j] = j
    <3>1. m - j \in Nat /\ m - j < m /\ m - (m - j) = j
      BY <1>1
    <3>2. m - j \in K
      BY <2>3, <3>1
    <3>3. QED
      BY <3>1, <3>2
  <2>5. QED
    BY <2>4
<1>5. ASSUME ToSet(pk) = 1..n PROVE m = n /\ \A j \in 1..m : pk[j] = j
  <2>1. \A c \in 1..n : \E i \in 1..m : pk[i] = c
    BY <1>1, <1>5 DEF ToSet
  <2> DEFINE K == {j \in Nat : j \in 1..m => pk[j] = j}
  <2>2. 0 \in K
    OBVIOUS
  <2>3. ASSUME NEW j \in Nat, j \in K PROVE j + 1 \in K
    <3>1. SUFFICES ASSUME j + 1 \in 1..m PROVE pk[j + 1] = j + 1
      OBVIOUS
    <3>2. j + 1 <= pk[j + 1] /\ pk[j + 1] \in 1..n /\ j + 1 \in 1..n
      BY <1>1, <1>2, <3>1
    <3>3. PICK i \in 1..m : pk[i] = j + 1
      BY <2>1, <3>2
    <3>4. i <= j + 1
      BY <1>3, <3>1, <3>2, <3>3
    <3>5. CASE i = j + 1
      BY <3>3, <3>5
    <3>6. CASE i # j + 1
      <4>1. i <= j /\ j \in 1..m /\ pk[j] = j
        BY <1>1, <2>3, <3>1, <3>4, <3>6
      <4>2. pk[i] <= pk[j]
        BY <1>3, <4>1
      <4>3. QED
        BY <3>3, <4>1, <4>2
    <3>7. QED
      BY <3>5, <3>6
  <2>4. Nat \subseteq K
    <3> HIDE DEF K
    <3>1. QED
      BY <2>2, <2>3, Induction
  <2>5. \A j \in 1..m : pk[j] = j
    BY <2>4
  <2>6. n \in 1..n
    <3>1. pk[1] \in 1..n
      BY <1>1, <1>2
    <3>2. QED
      BY <1>1, <3>1
  <2>7. PICK i \in 1..m : pk[i] = n
    BY <2>1, <2>6
  <2>8. i = n /\ n <= m /\ m <= n
    BY <1>1, <1>2, <2>5, <2>7
  <2>9. QED
    BY <1>1, <2>5, <2>8
<1>6. m = n /\ \A j \in 1..m : pk[j] = j
  BY <1>4, <1>5
<1>7. pk = [c \in 1..n |-> c]
  BY <1>1, <1>6
<1>8. ToSet(pk) = 1..n
  BY <1>1, <1>6 DEF ToSet
<1>9. QED
  BY <1>6, <1>7, <1>8

------------------------------------------------------------------------------
\* tuple_data::parse_keys, column by column.

KeyAccs == [st : {"ok", "done", "error", "panic"}, vals : Seq(Nat), pos : Nat, key : Nat]
KeyBegin == [st |-> "ok", vals |-> <<>>, pos |-> 2, key |-> 1]

LEMMA KeyReadType ==
  ASSUME NEW a \in KeyAccs, NEW data \in Seq(Nat)
  PROVE  ReadValue(a, data, FALSE) \in KeyAccs
<1> DEFINE tag == data[a.pos + 1]
<1>1. a.vals \in Seq(Nat) /\ a.pos \in Nat
  BY DEF KeyAccs
<1>2. \A v \in Nat, len \in Nat :
        [a EXCEPT !.vals = Append(@, v), !.pos = @ + len] \in KeyAccs
  <2>1. ASSUME NEW v \in Nat, NEW len \in Nat
        PROVE  [a EXCEPT !.vals = Append(@, v), !.pos = @ + len] \in KeyAccs
    <3>1. Append(a.vals, v) \in Seq(Nat) /\ a.pos + len \in Nat
      BY <1>1
    <3>2. QED
      BY <3>1 DEF KeyAccs
  <2>2. QED
    BY <2>1
<1>3. [a EXCEPT !.st = "error"] \in KeyAccs /\ [a EXCEPT !.st = "panic"] \in KeyAccs
  BY DEF KeyAccs
<1>4. a.pos + 6 <= Len(data) => data[a.pos + 6] \in Nat
  BY <1>1
<1> HIDE DEF tag
<1>5. QED
  BY <1>2, <1>3, <1>4, ZenonT(30) DEF ReadValue, Null, Toasted

LEMMA KeyStepType ==
  ASSUME NEW a \in KeyAccs, NEW data \in Seq(Nat), NEW s, s.cols \in Nat,
         NEW c \in 1..s.cols
  PROVE  KeyStep(a, c, data, s) \in KeyAccs
<1> DEFINE r == ReadValue(a, data, FALSE)
<1>1. r \in KeyAccs
  BY KeyReadType
<1> HIDE DEF r
<1>2. [r EXCEPT !.key = @ + 1] \in KeyAccs
  <2>1. r.key + 1 \in Nat
    BY <1>1 DEF KeyAccs
  <2>2. QED
    BY <1>1, <2>1 DEF KeyAccs
<1>3. r.pos + s.cols - (c - 1) \in Nat
  BY <1>1 DEF KeyAccs
<1>4. [r EXCEPT !.st = "done", !.pos = @ + s.cols - (c - 1)] \in KeyAccs
  BY <1>1, <1>3 DEF KeyAccs
<1>5. [a EXCEPT !.pos = @ + 1] \in KeyAccs /\ [a EXCEPT !.st = "panic"] \in KeyAccs
  <2>1. a.pos + 1 \in Nat
    BY DEF KeyAccs
  <2>2. QED
    BY <2>1 DEF KeyAccs
<1>6. QED
  BY <1>1, <1>2, <1>4, <1>5 DEF KeyStep, NarrowStep, WideStep, r

IsKeyParse(acc, data, s, n) ==
  /\ acc[0] = KeyBegin
  /\ \A c \in 1..n : acc[c] = KeyStep(acc[c - 1], c, data, s)

KeysEnd(r) == [st |-> IF r.st = "done" THEN "ok" ELSE r.st, vals |-> r.vals, pos |-> r.pos]

LEMMA KeyParseSteps ==
  ASSUME NEW data \in Seq(Nat), NEW s, s.cols \in Nat, NEW n \in Nat,
         Len(data) >= 2, data[2] = n, ~(n > s.cols)
  PROVE  \E acc : IsKeyParse(acc, data, s, n) /\ KeysEnd(acc[n]) = ParseKeys(data, s)
<1> DEFINE seq == [c \in 1..n |-> c]
<1> DEFINE Step(a, c) == KeyStep(a, c, data, s)
<1> DEFINE step == [p \in KeyAccs \X (1..n) |-> Step(p[1], p[2])]
<1> DEFINE Iter(h) == h = [S \in SUBSET (1..n) |->
                             IF S = {} THEN KeyBegin
                             ELSE Step(h[S \ {Max(S)}], seq[Max(S)])]
<1> DEFINE h == CHOOSE h : Iter(h)
<1>1. KeyBegin \in KeyAccs
  BY DEF KeyBegin, KeyAccs
<1>2. \A x \in KeyAccs, k \in 1..n : step[<<x, k>>] \in KeyAccs
  <2>1. \A k \in 1..n : k \in 1..s.cols
    OBVIOUS
  <2>2. QED
    BY <2>1, KeyStepType
<1>3. PICK g : IsFold(g, KeyAccs, n, KeyBegin, step)
  <2> HIDE DEF step
  <2>1. QED
    BY <1>1, <1>2, IterExists, Zenon
<1>4. Iter(g)
  <2>1. ASSUME NEW S \in SUBSET (1..n), S # {}
        PROVE  step[<<g[S \ {Max(S)}], Max(S)>>] = Step(g[S \ {Max(S)}], seq[Max(S)])
    <3>1. Max(S) \in 1..n /\ g[S \ {Max(S)}] \in KeyAccs
      BY <1>3, <2>1, MaxInSet DEF IsFold
    <3>2. QED
      BY <3>1
  <2> HIDE DEF step, Step, seq
  <2>2. QED
    BY <1>3, <2>1 DEF IsFold
<1>5. Iter(h)
  BY <1>4
<1>6. ParseKeys(data, s) = KeysEnd(h[1..n])
  BY DEF ParseKeys, FoldLeft, MapThenFoldSet, KeyBegin, KeysEnd
<1> HIDE DEF h, Step
<1>7. h[{}] = KeyBegin /\ 1..0 = {}
  BY <1>5
<1>8. ASSUME NEW c \in 1..n PROVE h[1..c] = Step(h[1..(c - 1)], c)
  <2>1. 1..c \in SUBSET (1..n) /\ 1..c # {} /\ c \in Nat \ {0}
    <3>1. c \in Nat /\ 1 <= c /\ c <= n
      OBVIOUS
    <3>2. 1 \in 1..c /\ \A i \in 1..c : i \in 1..n
      BY <3>1
    <3>3. (1..c) \subseteq (1..n) /\ 1..c # {}
      BY <3>2, Zenon
    <3>4. QED
      BY <3>1, <3>3
  <2>2. Max(1..c) = c /\ (1..c) \ {c} = 1..(c - 1)
    BY <2>1, MaxOfUpTo
  <2>3. h[1..c] = Step(h[1..(c - 1)], seq[c])
    <3> HIDE DEF seq
    <3>1. QED
      BY <1>5, <2>1, <2>2
  <2>4. QED
    BY <2>3
<1> DEFINE acc == [c \in 0..n |-> h[1..c]]
<1>9. acc[0] = KeyBegin /\ KeysEnd(acc[n]) = ParseKeys(data, s)
  BY <1>6, <1>7
<1>10. ASSUME NEW c \in 1..n PROVE acc[c] = Step(acc[c - 1], c)
  BY <1>8
<1>11. QED
  BY <1>9, <1>10 DEF Step, IsKeyParse

------------------------------------------------------------------------------
\* What parse_keys gives of a K tuple.

\* The row as a K tuple has it.
KeyRow(s, r) == [c \in DOMAIN r |-> IF c \in Keys(s) THEN r[c] ELSE Null]

LEMMA KeyRowValues ==
  ASSUME NEW s \in Shapes, ~s.full, NEW r \in RowsOf(s)
  PROVE  /\ KeyIndexes(s) = s.pk /\ Keys(s) = ToSet(s.pk)
         /\ KeyRow(s, r) \in [1..s.cols -> 0..257]
         /\ \A c \in 1..s.cols : c \notin ToSet(s.pk) => KeyRow(s, r)[c] = Null
         /\ \A c \in ToSet(s.pk) : /\ c \in 1..s.cols /\ KeyRow(s, r)[c] = r[c]
                                   /\ r[c] \in Nat /\ r[c] < 256
<1>1. KeyIndexes(s) = s.pk /\ Keys(s) = ToSet(s.pk)
  BY DEF KeyIndexes, Keys
<1>2. r \in [1..s.cols -> Values \cup {Null}] /\ r \in [1..s.cols -> 0..257]
  BY RowValues
<1>3. \A c \in ToSet(s.pk) : c \in 1..s.cols /\ r[c] # Null
  <2>1. \A c \in ToSet(s.pk) : r[c] # Null
    BY DEF RowsOf
  <2>2. QED
    BY <2>1, KeyColumns
<1> DEFINE k == KeyRow(s, r)
<1>4. k = [c \in 1..s.cols |-> IF c \in ToSet(s.pk) THEN r[c] ELSE Null]
  BY <1>1, <1>2 DEF KeyRow
<1> HIDE DEF k
<1>5. k \in [1..s.cols -> 0..257]
  <2>1. Null \in 0..257
    BY DEF Null
  <2>2. \A c \in 1..s.cols : r[c] \in 0..257
    BY <1>2
  <2>3. QED
    BY <1>4, <2>1, <2>2
<1>6. \A c \in 1..s.cols : c \notin ToSet(s.pk) => k[c] = Null
  BY <1>4
<1>7. ASSUME NEW c \in ToSet(s.pk)
      PROVE  c \in 1..s.cols /\ k[c] = r[c] /\ r[c] \in Nat /\ r[c] < 256
  <2>1. c \in 1..s.cols /\ r[c] # Null
    BY <1>3
  <2>2. r[c] \in Values
    BY <1>2, <2>1
  <2>3. Values \subseteq 0..255
    BY ShapesAssumption
  <2>4. r[c] \in 0..255
    BY <2>2, <2>3
  <2>5. r[c] \in Nat /\ r[c] < 256
    BY <2>4
  <2>6. QED
    BY <1>4, <2>1, <2>5
<1>8. QED
  BY <1>1, <1>5, <1>6, <1>7 DEF k

LEMMA KeyReadAcc ==
  ASSUME NEW a \in KeyAccs, NEW v \in Nat, NEW len \in Nat
  PROVE  /\ Read(a, v, len) \in KeyAccs /\ Read(a, v, len).st = a.st
         /\ Read(a, v, len).vals = Append(a.vals, v)
         /\ Read(a, v, len).pos = a.pos + len /\ Read(a, v, len).key = a.key
<1>1. Append(a.vals, v) \in Seq(Nat) /\ a.pos + len \in Nat
  BY DEF KeyAccs
<1>2. QED
  BY <1>1 DEF KeyAccs, Read

\* A K tuple with rest behind it, and where its columns are.
KeyTuple(s, r, rest) == TupleData(KeyRow(s, r)) \o rest
At(at, s, r, rest) ==
  /\ Places(at, KeyTuple(s, r, rest), s.cols, CellsOf(KeyRow(s, r), s.cols))
  /\ at[0] = 2 /\ at[s.cols] = Len(TupleData(KeyRow(s, r)))

\* Column c is behind what at has for b, the column before it.
CellAt(at, s, r, rest, b, c) ==
  /\ at[c] \in Nat /\ at[b] \in Nat /\ at[c] <= Len(KeyTuple(s, r, rest))
  /\ at[c] = at[b] + Len(Cell(KeyRow(s, r)[c]))
  /\ \A i \in 1..Len(Cell(KeyRow(s, r)[c])) :
       KeyTuple(s, r, rest)[at[b] + i] = Cell(KeyRow(s, r)[c])[i]

LEMMA KeyCells ==
  ASSUME NEW s \in Shapes, ~s.full, NEW r \in RowsOf(s), NEW rest \in Seq(Nat),
         NEW at, At(at, s, r, rest), NEW c \in 1..s.cols, NEW b, c - 1 = b
  PROVE  CellAt(at, s, r, rest, b, c)
<1> DEFINE row == KeyRow(s, r)
<1> DEFINE cells == CellsOf(row, s.cols)
<1> DEFINE data == KeyTuple(s, r, rest)
<1>1. s.cols \in Nat /\ row \in [1..s.cols -> 0..257]
  <2>1. s.cols \in Nat
    BY RowValues
  <2>2. QED
    BY <2>1, KeyRowValues, Zenon
<1>2. TupleData(row) \in Seq(Nat)
  BY <1>1, TupleType
<1>3. Len(data) = Len(TupleData(row)) + Len(rest) /\ Len(rest) \in Nat
      /\ Len(TupleData(row)) \in Nat
  BY <1>2 DEF KeyTuple
<1>4. cells[c] = Cell(row[c])
  BY DEF CellsOf
<1> HIDE DEF data, cells, row
<1>5. Places(at, data, s.cols, cells) /\ at[s.cols] = Len(TupleData(row))
  BY DEF At, data, cells, row
<1>6. /\ at \in [0..s.cols -> Nat] /\ at[c] = at[b] + Len(cells[c]) /\ at[c] <= at[s.cols]
      /\ \A i \in 1..Len(cells[c]) : data[at[b] + i] = cells[c][i]
  BY <1>5 DEF Places
<1>7. at[c] \in Nat /\ at[b] \in Nat
  <2>1. c \in 0..s.cols /\ b \in 0..s.cols
    BY <1>1
  <2>2. QED
    BY <1>6, <2>1
<1>8. at[c] <= Len(data)
  BY <1>3, <1>5, <1>6, <1>7
<1>9. QED
  BY <1>4, <1>6, <1>7, <1>8 DEF data, row, CellAt

\* The keys up to the first that is not in front of as many columns as there
\* are keys: parse_keys takes it for the last.
FirstKeys(k, s) ==
  /\ k \in 1..Len(s.pk) /\ s.pk[k] >= Len(s.pk)
  /\ \A j \in 1..Len(s.pk) : j < k => s.pk[j] < Len(s.pk)
KeyValues(s, r, k) == [j \in 1..k |-> r[s.pk[j]]]
AfterKeys(p, s, r, at, k) ==
  /\ FirstKeys(k, s)
  /\ p.vals = KeyValues(s, r, k)
  /\ p.pos = at[s.pk[k]] + s.cols - (s.pk[k] - 1)

LEMMA NarrowReads ==
  ASSUME NEW s \in Shapes, ~s.full, NEW r \in RowsOf(s), NEW rest \in Seq(Nat),
         s.cols <= Unrolled, NEW at, At(at, s, r, rest)
  PROVE  /\ ParseKeys(KeyTuple(s, r, rest), s).st = "ok"
         /\ \E k : AfterKeys(ParseKeys(KeyTuple(s, r, rest), s), s, r, at, k)
<1> DEFINE data == KeyTuple(s, r, rest)
<1> DEFINE row == KeyRow(s, r)
<1> DEFINE n == s.cols
<1> DEFINE pk == s.pk
<1> DEFINE m == Len(pk)
<1>1. n \in Nat \ {0} /\ row \in [1..n -> 0..257] /\ KeyIndexes(s) = pk
  <2>1. n \in Nat \ {0}
    BY RowValues
  <2>2. QED
    BY <2>1, KeyRowValues, Zenon
<1>2. TupleData(row) \in Seq(Nat) /\ Len(TupleData(row)) >= 2 /\ data[2] = n
  BY <1>1, TupleBytes, ZenonT(30) DEF KeyTuple
<1>3. data \in Seq(Nat) /\ Len(data) >= 2
  BY <1>2 DEF KeyTuple
<1>4. PICK acc : IsKeyParse(acc, data, s, n) /\ KeysEnd(acc[n]) = ParseKeys(data, s)
  <2> HIDE DEF data
  <2>1. ~(n > s.cols) /\ n \in Nat
    BY <1>1
  <2>2. QED
    BY <1>2, <1>3, <2>1, KeyParseSteps, Zenon
<1>5. /\ m \in Nat \ {0} /\ pk \in [1..m -> 1..n]
      /\ \A i, j \in 1..m : i < j => pk[i] < pk[j]
  BY KeysOrdered DEF Ordered
<1>6. /\ \A j \in 1..m : j <= pk[j]
      /\ \A i, j \in 1..m : i <= j <=> pk[i] <= pk[j]
  BY KeysOrdered, KeyPlaces
<1> DEFINE Going(c) ==
      /\ acc[c].st = "ok" /\ acc[c].key \in 1..m /\ c < pk[acc[c].key]
      /\ \A j \in 1..m : j < acc[c].key => pk[j] <= c /\ pk[j] < m
      /\ acc[c].vals = KeyValues(s, r, acc[c].key - 1)
      /\ acc[c].pos = at[c]
<1> DEFINE Ended(c) == acc[c].st = "done" /\ \E k : AfterKeys(acc[c], s, r, at, k)
<1> DEFINE D(c) == acc[c] \in KeyAccs /\ (Going(c) \/ Ended(c))
<1>7. D(0)
  <2>1. KeyBegin \in KeyAccs /\ KeyBegin.st = "ok" /\ KeyBegin.vals = <<>>
        /\ KeyBegin.pos = 2 /\ KeyBegin.key = 1
    BY DEF KeyBegin, KeyAccs
  <2>2. acc[0] = KeyBegin /\ at[0] = 2
    BY <1>4 DEF IsKeyParse, At
  <2>3. KeyValues(s, r, 1 - 1) = <<>>
    BY DEF KeyValues
  <2>4. 0 < pk[1] /\ 1 \in 1..m
    BY <1>5, SMTT(30)
  <2> HIDE DEF pk, m
  <2>5. Going(0)
    BY <2>1, <2>2, <2>3, <2>4
  <2>6. QED
    BY <2>1, <2>2, <2>5
<1>8. ASSUME NEW b \in Nat, b + 1 <= n, D(b) PROVE D(b + 1)
  <2> DEFINE c == b + 1
  <2>1. c \in 1..n /\ c - 1 = b /\ acc[c] = KeyStep(acc[b], c, data, s)
    BY <1>1, <1>4, <1>8 DEF IsKeyParse
  <2>2. acc[c] = NarrowStep(acc[b], c, data, s)
    BY <1>2, <2>1 DEF KeyStep
  <2>3. acc[c] \in KeyAccs
    BY <1>1, <1>3, <1>8, <2>1, KeyStepType
  <2> DEFINE cell == Cell(KeyRow(s, r)[c])
  <2>7. CellAt(at, s, r, rest, b, c)
    <3> HIDE DEF c
    <3>1. QED
      BY <2>1, KeyCells, Zenon
  <2>8. /\ at[c] \in Nat /\ at[b] \in Nat /\ at[c] <= Len(data)
        /\ at[c] = at[b] + Len(cell)
        /\ \A i \in 1..Len(cell) : data[at[b] + i] = cell[i]
    BY <2>7 DEF CellAt
  <2> DEFINE key == acc[b].key
  <2> HIDE DEF cell
  <2> HIDE DEF data, row, n, pk, m, c
  <2>4. CASE Ended(b)
    <3>1. acc[c] = acc[b]
      BY <2>2, <2>4 DEF NarrowStep
    <3>2. QED
      BY <2>3, <2>4, <3>1 DEF c
  <2>5. CASE Going(b) /\ c # pk[key]
    <3>1. acc[c] = [acc[b] EXCEPT !.pos = @ + 1]
      BY <1>1, <2>2, <2>5 DEF NarrowStep
    <3>2. \A j \in 1..m : pk[j] # c
      <4>1. SUFFICES ASSUME NEW j \in 1..m, pk[j] = c PROVE FALSE
        OBVIOUS
      <4>2. CASE j < key
        BY <1>5, <1>8, <2>5, <4>1, <4>2 DEF c
      <4>3. CASE ~(j < key)
        <5>1. key <= j /\ key \in 1..m
          BY <1>5, <2>5, <4>3
        <5>2. pk[key] <= pk[j] /\ b < pk[key] /\ pk[key] \in Nat
          BY <1>5, <1>6, <2>5, <5>1
        <5>3. QED
          BY <1>8, <2>5, <4>1, <5>2 DEF c
      <4>4. QED
        BY <4>2, <4>3
    <3>3. c \notin ToSet(pk)
      <4>1. DOMAIN pk = 1..m
        BY <1>5
      <4>2. QED
        BY <3>2, <4>1 DEF ToSet
    <3>4. row[c] = Null
      BY <2>1, <3>3, KeyRowValues DEF row, n, pk
    <3>5. Len(Cell(row[c])) = 1
      BY <1>1, <2>1, <3>4, CellBytes
    <3>6. at[c] = at[b] + 1
      BY <2>8, <3>5 DEF row, cell
    <3>7. Going(c)
      <4>1. /\ acc[c].st = "ok" /\ acc[c].key = key /\ acc[c].vals = acc[b].vals
            /\ acc[c].pos = acc[b].pos + 1
        BY <1>8, <2>5, <3>1 DEF KeyAccs
      <4>2. key \in 1..m /\ b < pk[key] /\ pk[key] \in Nat
        BY <1>5, <2>5
      <4>3. c < pk[key]
        BY <1>8, <2>5, <4>2 DEF c
      <4>4. \A j \in 1..m : j < key => pk[j] <= c /\ pk[j] < m
        BY <1>5, <1>8, <2>5 DEF c
      <4>5. QED
        BY <2>5, <3>6, <4>1, <4>2, <4>3, <4>4
    <3>8. QED
      BY <2>3, <3>7 DEF c
  <2>6. CASE Going(b) /\ c = pk[key]
    <3> DEFINE v == row[c]
    <3> DEFINE len == Len(Cell(v))
    <3> DEFINE read == ReadValue(acc[b], data, FALSE)
    <3>1. key \in 1..m /\ c \in ToSet(pk)
      BY <1>5, <2>6 DEF ToSet
    <3>2. v \in 0..257 /\ v = r[c] /\ v \in Nat /\ v # Toasted
      <4>1. row[c] = r[c] /\ r[c] \in Nat /\ r[c] < 256
        BY <3>1, KeyRowValues DEF row, pk
      <4>2. v = r[c] /\ v \in Nat /\ v < 256
        BY <4>1
      <4>4. v \in 0..257
        BY <1>1, <2>1
      <4> HIDE DEF v
      <4>3. v # Toasted
        BY <4>2 DEF Toasted
      <4>5. QED
        BY <4>2, <4>3, <4>4
    <3>3. /\ at[c] \in Nat /\ at[b] \in Nat /\ at[c] <= Len(data)
          /\ at[c] = at[b] + len
          /\ \A i \in 1..len : data[at[b] + i] = Cell(v)[i]
      BY <2>8 DEF row, cell
    <3> HIDE DEF v
    <3>4. Cell(v) \in Seq(Nat)
      BY <3>2, CellBytes
    <3>5. len \in Nat
      BY <3>4
    <3>6. read = Read(acc[b], v, len)
      <4>1. acc[b].pos = at[b]
        BY <2>6
      <4>2. acc[b].pos \in Nat /\ acc[b].pos + len <= Len(data)
        BY <3>3, <4>1
      <4>3. \A i \in 1..len : data[acc[b].pos + i] = Cell(v)[i]
        BY <3>3, <4>1
      <4>4. v = Toasted => FALSE
        BY <3>2
      <4>5. QED
        BY <1>3, <3>2, <4>2, <4>3, <4>4, ReadCell, Zenon
    <3> HIDE DEF len
    <3>7. /\ read \in KeyAccs /\ read.st = "ok" /\ read.vals = Append(acc[b].vals, v)
          /\ read.pos = at[c] /\ read.key = key
      <4>1. acc[b] \in KeyAccs /\ acc[b].st = "ok" /\ acc[b].pos = at[b]
        BY <1>8, <2>6
      <4> DEFINE a == acc[b]
      <4> HIDE DEF a
      <4>2. /\ Read(a, v, len) \in KeyAccs /\ Read(a, v, len).st = a.st
            /\ Read(a, v, len).vals = Append(a.vals, v)
            /\ Read(a, v, len).pos = a.pos + len /\ Read(a, v, len).key = a.key
        BY <3>2, <3>5, <4>1, KeyReadAcc, Zenon DEF a
      <4>3. QED
        BY <3>3, <3>6, <4>1, <4>2 DEF a
    <3> HIDE DEF read
    <3>8. read.vals = KeyValues(s, r, key)
      <4>1. acc[b].vals = KeyValues(s, r, key - 1) /\ v = r[pk[key]]
        BY <2>6, <3>2
      <4>2. key \in Nat \ {0}
        BY <1>5, <3>1
      <4>3. Append(KeyValues(s, r, key - 1), r[pk[key]]) = KeyValues(s, r, key)
        <5> HIDE DEF key
        <5>1. QED
          BY <4>2 DEF KeyValues, pk
      <4>4. QED
        BY <3>7, <4>1, <4>3
    <3>9. acc[c] = IF MoreKeys(c, m) THEN [read EXCEPT !.key = @ + 1]
                   ELSE [read EXCEPT !.st = "done", !.pos = @ + s.cols - (c - 1)]
      BY <1>1, <2>2, <2>6, <3>7 DEF NarrowStep, read, m
    <3>10. CASE c < m
      <4>1. acc[c] = [read EXCEPT !.key = @ + 1]
        BY <3>9, <3>10 DEF MoreKeys
      <4>2. /\ acc[c].st = "ok" /\ acc[c].key = key + 1 /\ acc[c].vals = KeyValues(s, r, key)
            /\ acc[c].pos = at[c]
        BY <3>7, <3>8, <4>1 DEF KeyAccs
      <4>3. key <= pk[key] /\ key \in Nat
        BY <1>5, <1>6, <3>1
      <4>4. key + 1 \in 1..m
        BY <1>5, <2>1, <2>6, <3>1, <3>10, <4>3, SMTT(30)
      <4>5. c < pk[key + 1]
        BY <1>5, <2>6, <3>1, <4>3, <4>4
      <4>6. ASSUME NEW j \in 1..m, j < key + 1 PROVE pk[j] <= c /\ pk[j] < m
        <5>1. CASE j = key
          BY <1>5, <2>6, <3>10, <5>1
        <5>2. CASE j # key
          <6>1. j < key
            BY <1>5, <4>3, <4>6, <5>2
          <6>2. QED
            BY <1>5, <1>8, <2>6, <6>1 DEF c
        <5>3. QED
          BY <5>1, <5>2
      <4>7. (key + 1) - 1 = key
        BY <4>3
      <4>8. Going(c)
        BY <4>2, <4>4, <4>5, <4>6, <4>7
      <4>9. QED
        BY <2>3, <4>8 DEF c
    <3>11. CASE ~(c < m)
      <4>1. acc[c] = [read EXCEPT !.st = "done", !.pos = @ + s.cols - (c - 1)]
        BY <3>9, <3>11 DEF MoreKeys
      <4>2. /\ acc[c].st = "done" /\ acc[c].vals = KeyValues(s, r, key)
            /\ acc[c].pos = at[c] + s.cols - (c - 1)
        BY <3>7, <3>8, <4>1 DEF KeyAccs
      <4>3. FirstKeys(key, s)
        <5>1. pk[key] >= m /\ \A j \in 1..m : j < key => pk[j] < m
          BY <1>5, <2>1, <2>6, <3>11
        <5>2. QED
          BY <3>1, <5>1 DEF FirstKeys, pk, m
      <4>4. AfterKeys(acc[c], s, r, at, key)
        BY <2>6, <4>2, <4>3 DEF AfterKeys, pk
      <4>5. Ended(c)
        BY <4>2, <4>4
      <4>6. QED
        BY <2>3, <4>5 DEF c
    <3>12. QED
      BY <3>10, <3>11
  <2>9. QED
    BY <1>8, <2>4, <2>5, <2>6
<1> HIDE DEF D
<1> DEFINE K == {c \in Nat : c <= n => D(c)}
<1>9. n \in K
  <2>1. 0 \in K
    BY <1>7
  <2>2. ASSUME NEW c \in Nat, c \in K PROVE c + 1 \in K
    <3>1. SUFFICES ASSUME c + 1 <= n PROVE D(c + 1)
      OBVIOUS
    <3>2. D(c)
      BY <1>1, <2>2, <3>1
    <3>3. QED
      BY <1>8, <3>1, <3>2
  <2> HIDE DEF K
  <2>3. QED
    BY <1>1, <2>1, <2>2, Induction
<1>10. D(n)
  BY <1>1, <1>9
<1>11. ~Going(n)
  <2> HIDE DEF data, row, n, pk, m
  <2>1. SUFFICES ASSUME Going(n) PROVE FALSE
    OBVIOUS
  <2>2. acc[n].key \in 1..m /\ n < pk[acc[n].key]
    BY <2>1
  <2>3. QED
    BY <1>1, <1>5, <2>2
<1>12. acc[n].st = "done" /\ \E k : AfterKeys(acc[n], s, r, at, k)
  BY <1>10, <1>11 DEF D
<1>13. /\ ParseKeys(data, s).st = "ok" /\ ParseKeys(data, s).vals = acc[n].vals
       /\ ParseKeys(data, s).pos = acc[n].pos
  <2> HIDE DEF data, n
  <2>1. ParseKeys(data, s) = KeysEnd(acc[n])
    BY <1>4
  <2>2. QED
    BY <1>12, <2>1 DEF KeysEnd
<1>14. QED
  BY <1>12, <1>13 DEF AfterKeys

\* All of the row, if all columns are keys.
WideRead(p, s, r, at) ==
  IF Len(s.pk) = s.cols
  THEN p.st = "ok" /\ p.vals = r /\ p.pos = at[s.cols]
  ELSE p.st = "panic"

LEMMA WideReads ==
  ASSUME NEW s \in Shapes, ~s.full, NEW r \in RowsOf(s), NEW rest \in Seq(Nat),
         ~(s.cols <= Unrolled), NEW at, At(at, s, r, rest)
  PROVE  WideRead(ParseKeys(KeyTuple(s, r, rest), s), s, r, at)
<1> DEFINE data == KeyTuple(s, r, rest)
<1> DEFINE row == KeyRow(s, r)
<1> DEFINE n == s.cols
<1> DEFINE pk == s.pk
<1> DEFINE m == Len(pk)
<1>1. n \in Nat \ {0} /\ row \in [1..n -> 0..257] /\ KeyIndexes(s) = pk
  <2>1. n \in Nat \ {0}
    BY RowValues
  <2>2. QED
    BY <2>1, KeyRowValues, Zenon
<1>2. TupleData(row) \in Seq(Nat) /\ Len(TupleData(row)) >= 2 /\ data[2] = n
  BY <1>1, TupleBytes, ZenonT(30) DEF KeyTuple
<1>3. data \in Seq(Nat) /\ Len(data) >= 2
  BY <1>2 DEF KeyTuple
<1>4. PICK acc : IsKeyParse(acc, data, s, n) /\ KeysEnd(acc[n]) = ParseKeys(data, s)
  <2> HIDE DEF data
  <2>1. ~(n > s.cols) /\ n \in Nat
    BY <1>1
  <2>2. QED
    BY <1>2, <1>3, <2>1, KeyParseSteps, Zenon
<1>5. m \in Nat \ {0} /\ m <= n
  <2>1. Ordered(pk, m, n)
    BY KeysOrdered
  <2>2. m \in Nat \ {0} /\ m \in 1..m
    BY <2>1 DEF Ordered
  <2>3. m <= pk[m] /\ pk[m] \in 1..n
    BY <2>1, <2>2, KeyPlaces
  <2> HIDE DEF m, pk, n
  <2>4. QED
    BY <1>1, <2>2, <2>3
<1> DEFINE Going(c) ==
      acc[c].st = "ok" /\ acc[c].vals = [j \in 1..c |-> row[j]] /\ acc[c].pos = at[c]
<1> DEFINE D(c) == acc[c] \in KeyAccs /\ IF c <= m THEN Going(c) ELSE acc[c].st = "panic"
<1>6. D(0)
  <2>1. KeyBegin \in KeyAccs /\ KeyBegin.st = "ok" /\ KeyBegin.vals = <<>>
        /\ KeyBegin.pos = 2
    BY DEF KeyBegin, KeyAccs
  <2>2. acc[0] = KeyBegin /\ at[0] = 2
    BY <1>4 DEF IsKeyParse, At
  <2> HIDE DEF row, m
  <2>3. [j \in 1..0 |-> row[j]] = <<>>
    OBVIOUS
  <2>4. QED
    BY <1>5, <2>1, <2>2, <2>3
<1>7. ASSUME NEW b \in Nat, b + 1 <= n, D(b) PROVE D(b + 1)
  <2> DEFINE c == b + 1
  <2>1. c \in 1..n /\ c - 1 = b /\ acc[c] = KeyStep(acc[b], c, data, s)
    BY <1>1, <1>4, <1>7 DEF IsKeyParse
  <2>2. acc[c] = WideStep(acc[b], c, data, s)
    BY <1>2, <2>1 DEF KeyStep
  <2>3. acc[c] \in KeyAccs
    BY <1>1, <1>3, <1>7, <2>1, KeyStepType
  <2>4. CellAt(at, s, r, rest, b, c)
    <3> HIDE DEF c
    <3>1. QED
      BY <2>1, KeyCells, Zenon
  <2> DEFINE v == row[c]
  <2> DEFINE len == Len(Cell(v))
  <2>5. /\ at[c] \in Nat /\ at[b] \in Nat /\ at[c] <= Len(data)
        /\ at[c] = at[b] + len
        /\ \A i \in 1..len : data[at[b] + i] = Cell(v)[i]
    BY <2>4 DEF CellAt
  <2> DEFINE a == acc[b]
  <2> HIDE DEF data, n, pk, m
  <2>6. v \in 0..257
    BY <1>1, <2>1
  <2>7. v # Toasted
    <3>1. v = Null \/ v < 256
      <4>1. c \in 1..s.cols
        BY <2>1 DEF n
      <4> HIDE DEF c
      <4>2. CASE c \in ToSet(s.pk)
        <5>1. row[c] = r[c] /\ r[c] < 256
          BY <4>2, KeyRowValues
        <5>2. QED
          BY <5>1
      <4>3. CASE c \notin ToSet(s.pk)
        BY <4>1, <4>3, KeyRowValues
      <4>4. QED
        BY <4>2, <4>3
    <3> HIDE DEF v
    <3>2. QED
      BY <3>1 DEF Null, Toasted
  <2> HIDE DEF v
  <2>8. v \in Nat /\ Cell(v) \in Seq(Nat)
    <3>1. v \in Nat
      BY <2>6
    <3>2. Cell(v) \in Seq(Nat)
      BY <2>6, CellBytes, Zenon
    <3>3. QED
      BY <3>1, <3>2
  <2>9. len \in Nat
    BY <2>8
  <2>10. CASE c <= m
    <3>1. Going(b) /\ b <= m
      <4>1. b <= m
        <5> HIDE DEF a
        <5>1. QED
          BY <1>5, <2>10
      <4>2. QED
        BY <1>7, <4>1
    <3>2. acc[c] = ReadValue(a, data, FALSE)
      <4>1. acc[b].st = "ok" /\ Len(KeyIndexes(s)) = m
        BY <1>1, <3>1 DEF m
      <4>2. ~(c > m)
        BY <1>5, <2>10
      <4> HIDE DEF c
      <4>3. QED
        BY <2>2, <4>1, <4>2 DEF WideStep
    <3>3. a \in KeyAccs /\ a.pos = at[b] /\ a.st = "ok" /\ a.vals = [j \in 1..b |-> row[j]]
      BY <1>7, <3>1
    <3> HIDE DEF a, len
    <3>4. ReadValue(a, data, FALSE) = Read(a, v, len)
      <4>1. a.pos \in Nat /\ a.pos + len <= Len(data)
        BY <2>5, <3>3
      <4>2. \A i \in 1..len : data[a.pos + i] = Cell(v)[i]
        BY <2>5, <3>3
      <4>3. v = Toasted => FALSE
        BY <2>7
      <4>4. QED
        BY <1>3, <2>6, <4>1, <4>2, <4>3, ReadCell, Zenon DEF len
    <3>5. /\ Read(a, v, len) \in KeyAccs /\ Read(a, v, len).st = a.st
          /\ Read(a, v, len).vals = Append(a.vals, v)
          /\ Read(a, v, len).pos = a.pos + len
      BY <2>8, <2>9, <3>3, KeyReadAcc, Zenon
    <3>6. Append([j \in 1..b |-> row[j]], v) = [j \in 1..c |-> row[j]]
      <4> HIDE DEF row
      <4>1. v = row[b + 1]
        BY DEF v
      <4>2. QED
        BY <4>1
    <3>7. Going(c)
      <4> HIDE DEF row, c
      <4>1. QED
        BY <2>5, <3>2, <3>3, <3>4, <3>5, <3>6
    <3>8. QED
      BY <2>3, <2>10, <3>7
  <2>11. CASE ~(c <= m)
    <3>1. acc[c].st = "panic"
      <4>1. CASE b <= m
        <5>1. acc[b].st = "ok"
          BY <1>7, <4>1
        <5>2. c > Len(KeyIndexes(s))
          BY <1>1, <1>5, <2>11 DEF m
        <5>3. acc[c] = [acc[b] EXCEPT !.st = "panic"]
          BY <2>2, <5>1, <5>2 DEF WideStep
        <5>4. acc[b] \in KeyAccs
          BY <1>7
        <5> HIDE DEF c
        <5>5. QED
          BY <5>3, <5>4 DEF KeyAccs
      <4>2. CASE ~(b <= m)
        <5>1. acc[b].st = "panic"
          BY <1>7, <4>2
        <5>2. QED
          BY <2>2, <5>1 DEF WideStep
      <4>3. QED
        BY <4>1, <4>2
    <3>2. QED
      BY <2>3, <2>11, <3>1
  <2>12. QED
    BY <2>10, <2>11
<1> HIDE DEF D
<1> DEFINE K == {c \in Nat : c <= n => D(c)}
<1>8. n \in K
  <2>1. 0 \in K
    BY <1>6
  <2>2. ASSUME NEW c \in Nat, c \in K PROVE c + 1 \in K
    <3>1. SUFFICES ASSUME c + 1 <= n PROVE D(c + 1)
      OBVIOUS
    <3>2. D(c)
      BY <1>1, <2>2, <3>1
    <3>3. QED
      BY <1>7, <3>1, <3>2
  <2> HIDE DEF K
  <2>3. QED
    BY <1>1, <2>1, <2>2, Induction
<1>9. D(n)
  BY <1>1, <1>8
<1>10. KeysEnd(acc[n]) = ParseKeys(data, s)
  BY <1>4
<1>11. CASE m = n
  <2>1. Going(n)
    BY <1>1, <1>9, <1>11 DEF D
  <2>2. [j \in 1..n |-> row[j]] = r
    <3>1. Ordered(pk, m, n)
      BY KeysOrdered
    <3>2. ToSet(pk) = 1..n
      BY <1>11, <3>1, AllAreKeys
    <3>8. \A j \in ToSet(s.pk) : row[j] = r[j]
      BY KeyRowValues, Zenon
    <3>3. \A j \in 1..n : row[j] = r[j]
      BY <3>2, <3>8
    <3>4. r \in [1..n -> 0..257]
      BY RowValues
    <3>5. r = [j \in 1..n |-> r[j]]
      BY <3>4
    <3> HIDE DEF row, n
    <3>6. [j \in 1..n |-> row[j]] = [j \in 1..n |-> r[j]]
      BY <3>3
    <3>7. QED
      BY <3>5, <3>6
  <2> HIDE DEF data, row, n
  <2>3. /\ ParseKeys(data, s).st = "ok" /\ ParseKeys(data, s).vals = r
        /\ ParseKeys(data, s).pos = at[n]
    <3>1. ParseKeys(data, s) = KeysEnd(acc[n])
      BY <1>10
    <3>2. QED
      BY <2>1, <2>2, <3>1 DEF KeysEnd
  <2>4. QED
    BY <1>11, <2>3 DEF WideRead, data, n
<1>12. CASE m # n
  <2>1. ~(n <= m)
    <3> HIDE DEF m, n
    <3>1. QED
      BY <1>1, <1>5, <1>12
  <2>2. acc[n].st = "panic"
    BY <1>9, <2>1 DEF D
  <2> HIDE DEF data, n
  <2>3. ParseKeys(data, s).st = "panic"
    <3>1. ParseKeys(data, s) = KeysEnd(acc[n])
      BY <1>10
    <3>2. QED
      BY <2>2, <3>1 DEF KeysEnd
  <2>4. QED
    BY <1>12, <2>3 DEF WideRead, data, n
<1>13. QED
  BY <1>11, <1>12

------------------------------------------------------------------------------
\* An old tuple of keys, and the new tuple behind it.

LEMMA OldKeys ==
  ASSUME NEW s \in Shapes, ~s.full, NEW r \in RowsOf(s), NEW rest \in Seq(Nat)
  PROVE  /\ OldTuple(s, r) \in Seq(Nat) /\ OldTuple(s, r) = <<TagK>> \o TupleData(KeyRow(s, r))
         /\ OldTuple(s, r) \o rest = <<TagK>> \o KeyTuple(s, r, rest)
         /\ OldTuple(s, r) \o rest # <<>> /\ (OldTuple(s, r) \o rest)[1] = TagK
         /\ OldData(OldTuple(s, r) \o rest, s).st = ParseKeys(KeyTuple(s, r, rest), s).st
         /\ OldData(OldTuple(s, r) \o rest, s).vals = ParseKeys(KeyTuple(s, r, rest), s).vals
         /\ OldData(OldTuple(s, r) \o rest, s).pos = ParseKeys(KeyTuple(s, r, rest), s).pos + 1
<1> DEFINE row == KeyRow(s, r)
<1> DEFINE t == TupleData(row)
<1> DEFINE data == OldTuple(s, r) \o rest
<1> DEFINE p == ParseKeys(t \o rest, s)
<1>1. s.cols \in Nat /\ row \in [1..s.cols -> 0..257]
  <2>1. s.cols \in Nat
    BY RowValues
  <2>2. QED
    BY <2>1, KeyRowValues, Zenon
<1>2. t \in Seq(Nat) /\ Len(t) >= 2 /\ (t \o rest)[2] = s.cols
  BY <1>1, TupleBytes
<1>3. OldTuple(s, r) = <<TagK>> \o t
  BY DEF OldTuple, KeyRow
<1> HIDE DEF t
<1>4. t \o rest \in Seq(Nat) /\ Len(t \o rest) >= 2
  BY <1>2
<1>5. \E x : p = KeysEnd(x)
  <2>1. ~(s.cols > s.cols)
    BY <1>1
  <2>2. \E acc : IsKeyParse(acc, t \o rest, s, s.cols) /\ KeysEnd(acc[s.cols]) = p
    BY <1>1, <1>2, <1>4, <2>1, KeyParseSteps, Zenon
  <2>3. QED
    BY <2>2
<1>6. data = <<TagK>> \o (t \o rest)
  <2>1. <<TagK>> \in Seq(Nat)
    BY DEF TagK
  <2>2. QED
    BY <1>2, <1>3, <2>1, SMTT(30)
<1>7. /\ data # <<>> /\ data[1] = TagK /\ Tail(data) = t \o rest
      /\ OldTuple(s, r) \in Seq(Nat)
  <2>1. TagK \in Nat
    BY DEF TagK
  <2>2. OldTuple(s, r) \in Seq(Nat)
    BY <1>2, <1>3, <2>1
  <2> DEFINE u == t \o rest
  <2>3. u \in Seq(Nat)
    BY <1>4
  <2> HIDE DEF u, p
  <2>4. (<<TagK>> \o u)[1] = TagK /\ (<<TagK>> \o u) # <<>> /\ Tail(<<TagK>> \o u) = u
    BY <2>1, <2>3, TailOfTagged
  <2>5. QED
    BY <1>6, <2>2, <2>4 DEF u
<1> HIDE DEF data, p
<1>8. OldData(data, s) = [p EXCEPT !.pos = @ + 1]
  BY <1>7 DEF OldData, p, TagO, TagK
<1>9. PICK x : p = KeysEnd(x)
  BY <1>5
<1>10. /\ OldData(data, s).st = p.st /\ OldData(data, s).vals = p.vals
       /\ OldData(data, s).pos = p.pos + 1
  BY <1>8, <1>9 DEF KeysEnd
<1>11. QED
  BY <1>3, <1>6, <1>7, <1>10 DEF data, p, KeyTuple, t

\* Columns that are no keys are one byte each.
LEMMA SkipNulls ==
  ASSUME NEW s \in Shapes, ~s.full, NEW r \in RowsOf(s), NEW rest \in Seq(Nat),
         NEW at, At(at, s, r, rest),
         NEW b \in Nat, NEW d \in Nat, b <= d, d <= s.cols, at[b] \in Nat,
         \A c \in ToSet(s.pk) : c <= b \/ d < c
  PROVE  at[d] = at[b] + (d - b)
<1>1. s.cols \in Nat
  BY RowValues
<1> DEFINE K == {x \in Nat : b + x <= d => at[b + x] = at[b] + x}
<1>2. 0 \in K
  OBVIOUS
<1>3. ASSUME NEW x \in Nat, x \in K PROVE x + 1 \in K
  <2>1. SUFFICES ASSUME b + (x + 1) <= d PROVE at[b + (x + 1)] = at[b] + (x + 1)
    OBVIOUS
  <2> DEFINE c == b + (x + 1)
  <2>2. c \in 1..s.cols /\ c - 1 = b + x /\ ~(c <= b) /\ ~(d < c)
    BY <1>1, <2>1
  <2>3. at[b + x] = at[b] + x
    BY <1>3, <2>1
  <2> HIDE DEF c
  <2>4. CellAt(at, s, r, rest, b + x, c)
    BY <2>2, KeyCells, Zenon
  <2>5. KeyRow(s, r)[c] = Null
    <3>1. c \notin ToSet(s.pk) /\ c \in 1..s.cols
      BY <2>2
    <3>2. \A e \in 1..s.cols : e \notin ToSet(s.pk) => KeyRow(s, r)[e] = Null
      BY KeyRowValues, ZenonT(30)
    <3>3. QED
      BY <3>1, <3>2, Zenon
  <2>6. Len(Cell(Null)) = 1
    <3>1. Null \in 0..257
      BY DEF Null
    <3>2. QED
      BY <3>1, CellBytes, Zenon
  <2>7. at[c] = at[b + x] + 1
    BY <2>4, <2>5, <2>6 DEF CellAt
  <2>8. QED
    BY <2>3, <2>7 DEF c
<1>4. d - b \in K
  <2>1. d - b \in Nat
    OBVIOUS
  <2> HIDE DEF K
  <2>2. QED
    BY <1>2, <1>3, <2>1, Induction
<1>5. QED
  BY <1>4

\* A new tuple that does not start with N, or has too many columns, is none.
LEMMA NoNewTuple ==
  ASSUME NEW data \in Seq(Nat), NEW a \in Nat \ {0}, NEW s, NEW isUpdate,
         \/ a \in 1..Len(data) => data[a] # TagN
         \/ a + 2 \in 1..Len(data) => data[a + 2] > s.cols
  PROVE  NewData(SubSeq(data, a, Len(data)), s, isUpdate) = Failed
<1> DEFINE w == SubSeq(data, a, Len(data))
<1>1. CASE ~(a \in 1..Len(data))
  <2>1. w = <<>>
    BY <1>1
  <2>2. QED
    BY <2>1 DEF NewData
<1>2. CASE a \in 1..Len(data)
  <2>1. /\ w \in Seq(Nat) /\ Len(w) = Len(data) - a + 1 /\ w # <<>>
        /\ \A i \in 1..Len(w) : w[i] = data[a + i - 1]
    <3>1. /\ w = [i \in 1..(Len(data) - a + 1) |-> data[a + i - 1]]
          /\ Len(data) - a + 1 \in Nat \ {0}
      BY <1>2
    <3>2. Len(w) = Len(data) - a + 1
      BY <3>1
    <3>3. w \in Seq(Nat)
      BY <1>2
    <3> HIDE DEF w
    <3>4. QED
      BY <3>1, <3>2, <3>3
  <2> HIDE DEF w
  <2>2. w[1] = data[a]
    BY <1>2, <2>1
  <2>3. CASE data[a] # TagN
    BY <2>2, <2>3 DEF NewData, w
  <2>4. CASE data[a] = TagN
    <3>1. a + 2 \in 1..Len(data) => data[a + 2] > s.cols
      BY <1>2, <2>4
    <3>2. Tail(w) \in Seq(Nat) /\ Len(Tail(w)) = Len(w) - 1
          /\ \A i \in 1..Len(Tail(w)) : Tail(w)[i] = w[i + 1]
      BY <2>1
    <3>3. NewData(w, s, isUpdate) = Parse(Tail(w), s, isUpdate)
      BY <2>1, <2>2, <2>4 DEF NewData
    <3>4. Len(Tail(w)) < 2 \/ Tail(w)[2] > s.cols
      <4>1. SUFFICES ASSUME ~(Len(Tail(w)) < 2) PROVE Tail(w)[2] > s.cols
        OBVIOUS
      <4>2. 2 \in 1..Len(Tail(w)) /\ 3 \in 1..Len(w) /\ a + 2 \in 1..Len(data)
        BY <1>2, <2>1, <3>2, <4>1, SMTT(30)
      <4>3. Tail(w)[2] = w[3] /\ w[3] = data[a + 2]
        <5>1. 2 + 1 = 3 /\ a + 3 - 1 = a + 2
          OBVIOUS
        <5>2. QED
          BY <2>1, <3>2, <4>2, <5>1
      <4>4. QED
        BY <3>1, <4>2, <4>3
    <3>5. QED
      BY <3>3, <3>4 DEF Parse, w
  <2>5. QED
    BY <2>3, <2>4
<1>3. QED
  BY <1>1, <1>2

TupleAt(row, n, rest) ==
  \E at : /\ Places(at, TupleData(row) \o rest, n, CellsOf(row, n))
          /\ at[0] = 2 /\ at[n] = Len(TupleData(row))

LEMMA TuplePlaces ==
  ASSUME NEW n \in Nat, NEW row \in [1..n -> 0..257], NEW rest \in Seq(Nat)
  PROVE  TupleAt(row, n, rest)
BY TupleBytes DEF TupleAt

LEMMA NewBytes ==
  ASSUME NEW s \in Shapes, NEW q \in RowsOf(s), NEW toast
  PROVE  /\ NewTuple(q, toast) \in Seq(Nat) /\ Len(NewTuple(q, toast)) >= 3
         /\ NewTuple(q, toast)[1] = TagN /\ NewTuple(q, toast)[2] = 0
<1> DEFINE t == TupleData(Sent(q, toast))
<1>1. t \in Seq(Nat) /\ Len(t) >= 2 /\ t[1] = 0
  <2>1. s.cols \in Nat
    BY RowValues
  <2>2. Sent(q, toast) \in [1..s.cols -> 0..257]
    BY SentValues
  <2>3. QED
    BY <2>1, <2>2, TupleType, Zenon
<1>2. NewTuple(q, toast) = <<TagN>> \o t
  BY DEF NewTuple, Sent
<1> HIDE DEF t
<1>3. <<TagN>> \in Seq(Nat)
  BY DEF TagN
<1>4. QED
  BY <1>1, <1>2, <1>3

\* An update that moves a row of a table of few columns is never an event: what
\* parse_keys takes for the end of the K tuple is a byte or more past it, or, if a
\* key was missed, in the middle of it.
LEMMA NarrowMoves ==
  ASSUME NEW s \in Shapes, ~s.full, s.cols <= Unrolled,
         NEW r \in RowsOf(s), NEW q \in RowsOf(s), NEW toast
  PROVE  ParseUpdate(OldTuple(s, r) \o NewTuple(q, toast), s).st = "error"
<1> DEFINE new == NewTuple(q, toast)
<1> DEFINE data == OldTuple(s, r) \o new
<1> DEFINE t == TupleData(KeyRow(s, r))
<1> DEFINE keys == KeyTuple(s, r, new)
<1> DEFINE p == ParseKeys(keys, s)
<1> DEFINE n == s.cols
<1> DEFINE pk == s.pk
<1> DEFINE m == Len(pk)
<1>1. new \in Seq(Nat) /\ Len(new) >= 3 /\ new[1] = TagN /\ new[2] = 0
  BY NewBytes
<1>2. n \in Nat \ {0} /\ n <= 6 /\ KeyRow(s, r) \in [1..n -> 0..257]
  <2>1. n \in Nat \ {0}
    BY RowValues
  <2>2. Unrolled \in Nat /\ Unrolled <= 6
    BY ShapesAssumption
  <2>3. n <= 6
    BY <2>1, <2>2
  <2>4. QED
    BY <2>1, <2>3, KeyRowValues, Zenon
<1> HIDE DEF new
<1>3. PICK at : At(at, s, r, new)
  <2>1. n \in Nat
    BY <1>2
  <2>2. TupleAt(KeyRow(s, r), n, new)
    BY <1>1, <1>2, <2>1, TuplePlaces, Zenon
  <2>3. QED
    BY <2>2 DEF TupleAt, At, KeyTuple
<1>4. t \in Seq(Nat)
  <2>1. n \in Nat
    BY <1>2
  <2>2. QED
    BY <1>2, <2>1, TupleType, Zenon
<1>5. p.st = "ok" /\ \E k : AfterKeys(p, s, r, at, k)
  BY <1>1, <1>3, NarrowReads
<1>6. PICK k : AfterKeys(p, s, r, at, k)
  BY <1>5
<1>7. /\ OldTuple(s, r) \in Seq(Nat) /\ OldTuple(s, r) = <<TagK>> \o t
      /\ data = <<TagK>> \o keys /\ data # <<>> /\ data[1] = TagK
      /\ OldData(data, s).st = p.st /\ OldData(data, s).pos = p.pos + 1
  BY <1>1, OldKeys
<1>8. keys = t \o new
  BY DEF KeyTuple
<1> HIDE DEF data, t, keys, p
<1>9. /\ keys \in Seq(Nat) /\ Len(keys) = Len(t) + Len(new)
      /\ \A i \in 1..Len(new) : keys[Len(t) + i] = new[i]
  BY <1>1, <1>4, <1>8
<1>10. /\ data \in Seq(Nat) /\ Len(data) = 1 + Len(keys)
       /\ \A i \in 1..Len(keys) : data[i + 1] = keys[i]
  <2>1. <<TagK>> \in Seq(Nat) /\ Len(<<TagK>>) = 1
    BY DEF TagK
  <2>2. QED
    BY <1>7, <1>9, <2>1
<1>11. /\ m \in Nat \ {0} /\ pk \in [1..m -> 1..n]
       /\ \A i, j \in 1..m : i < j => pk[i] < pk[j]
  BY KeysOrdered DEF Ordered
<1>12. \A i, j \in 1..m : i <= j <=> pk[i] <= pk[j]
  BY KeysOrdered, KeyPlaces
<1> DEFINE c == pk[k]
<1>13. k \in 1..m /\ c \in 1..n /\ c >= m /\ p.pos = at[c] + n - (c - 1)
  BY <1>6, <1>11 DEF AfterKeys, FirstKeys
<1>14. at[c] \in Nat /\ at[n] = Len(t)
  <2>1. at[n] = Len(t)
    BY <1>3 DEF At, t
  <2>2. CellAt(at, s, r, new, c - 1, c)
    <3> HIDE DEF c
    <3>1. QED
      BY <1>1, <1>3, <1>13, KeyCells, Zenon
  <2>3. QED
    BY <2>1, <2>2 DEF CellAt
<1>20. /\ n \in Nat /\ n <= 6 /\ c \in Nat /\ 1 <= c /\ c <= n
       /\ at[c] \in Nat /\ at[n] \in Nat /\ at[n] = Len(t)
       /\ p.pos = at[c] + (n - c) + 1 /\ p.pos \in Nat
  <2> HIDE DEF n, c
  <2>1. n \in Nat /\ n <= 6 /\ c \in Nat /\ 1 <= c /\ c <= n /\ at[c] \in Nat
    BY <1>2, <1>13, <1>14
  <2>2. p.pos = at[c] + n - (c - 1)
    BY <1>13
  <2>3. p.pos = at[c] + (n - c) + 1 /\ p.pos \in Nat
    BY <2>1, <2>2
  <2>4. at[n] = Len(t) /\ Len(t) \in Nat
    BY <1>4, <1>14
  <2>5. QED
    BY <2>1, <2>3, <2>4
<1> DEFINE a == p.pos + 2
<1>15. ASSUME NEW i \in Nat, a + i \in 1..Len(data)
       PROVE  data[a + i] = keys[p.pos + 1 + i] /\ p.pos + 1 + i \in 1..Len(keys)
  <2> HIDE DEF n, c
  <2>1. p.pos + 1 + i \in 1..Len(keys) /\ (p.pos + 1 + i) + 1 = a + i
    <3>1. p.pos \in Nat /\ Len(keys) \in Nat
      <4>1. at[c] + n - (c - 1) \in Nat
        BY <1>2, <1>13, <1>14
      <4>2. QED
        BY <1>9, <1>13, <4>1
    <3>2. QED
      BY <1>10, <1>15, <3>1, SMTT(30)
  <2> HIDE DEF a
  <2>2. QED
    BY <1>10, <2>1
<1>16. \/ a \in 1..Len(data) => data[a] # TagN
       \/ a + 2 \in 1..Len(data) => data[a + 2] > n
  <2> HIDE DEF n, pk, m, c
  <2>0. p.pos \in Nat /\ a + 0 = a /\ p.pos + 1 + 0 = p.pos + 1
    BY <1>2, <1>13, <1>14
  <2>1. CASE k = m
    <3>1. \A e \in ToSet(pk) : e <= c \/ n < e
      <4>1. \A j \in 1..m : pk[j] <= c
        BY <1>11, <1>12, <1>13, <2>1 DEF c
      <4>2. QED
        BY <1>11, <4>1 DEF ToSet
    <3>2. at[n] = at[c] + (n - c)
      <4>1. c \in Nat /\ n \in Nat /\ c <= n /\ n <= s.cols
        BY <1>2, <1>13 DEF n
      <4>2. \A e \in ToSet(s.pk) : e <= c \/ n < e
        BY <3>1 DEF pk
      <4>3. QED
        BY <1>1, <1>3, <1>14, <4>1, <4>2, SkipNulls
    <3>3. p.pos + 1 = Len(t) + 2
      BY <1>20, <3>2
    <3>4. keys[Len(t) + 2] = 0
      <4>1. 2 \in 1..Len(new) /\ new[2] = 0
        BY <1>1
      <4>2. keys[Len(t) + 2] = new[2]
        BY <1>9, <4>1
      <4>3. QED
        BY <4>1, <4>2
    <3>5. a \in 1..Len(data) => data[a] = 0
      BY <1>15, <2>0, <3>3, <3>4
    <3>6. QED
      BY <3>5 DEF TagN
  <2>2. CASE k # m
    <3> DEFINE d == pk[k + 1]
    <3>1. k + 1 \in 1..m /\ d \in 1..n /\ c < d /\ m >= 2
      BY <1>11, <1>13, <2>2 DEF c
    <3>2. \A e \in ToSet(pk) : e <= c \/ d - 1 < e
      <4>1. ASSUME NEW j \in 1..m PROVE pk[j] <= c \/ d - 1 < pk[j]
        <5>1. CASE j <= k
          BY <1>12, <1>13, <5>1 DEF c
        <5>2. CASE ~(j <= k)
          <6>1. k + 1 <= j
            BY <1>11, <1>13, <5>2
          <6>2. d <= pk[j] /\ pk[j] \in Nat
            BY <1>11, <1>12, <3>1, <6>1
          <6>3. QED
            BY <3>1, <6>2
        <5>3. QED
          BY <5>1, <5>2
      <4>2. QED
        BY <1>11, <4>1 DEF ToSet
    <3>3. d \in ToSet(s.pk)
      BY <1>11, <3>1 DEF ToSet, pk
    <3> HIDE DEF d
    <3>4. at[d - 1] = at[c] + (d - 1 - c)
      <4>1. c \in Nat /\ d - 1 \in Nat /\ c <= d - 1 /\ d - 1 <= s.cols
        BY <1>2, <1>13, <3>1 DEF n
      <4>2. \A e \in ToSet(s.pk) : e <= c \/ d - 1 < e
        BY <3>2 DEF pk
      <4>3. QED
        BY <1>1, <1>3, <1>14, <4>1, <4>2, SkipNulls, SMTT(30)
    <3> DEFINE v == KeyRow(s, r)[d]
    <3>5. Cell(v) = <<Tagb, 0, 0, 0, 1, v>> /\ Len(Cell(v)) = 6
      <4>1. v < 256 /\ v \in Nat
        <5>1. KeyRow(s, r)[d] = r[d] /\ r[d] \in Nat /\ r[d] < 256
          BY <3>3, KeyRowValues
        <5>2. QED
          BY <5>1
      <4> HIDE DEF v
      <4>2. Cell(v) = <<Tagb, 0, 0, 0, 1, v>>
        BY <4>1 DEF Cell, Null, Toasted
      <4>3. QED
        BY <4>2
    <3>6. CellAt(at, s, r, new, d - 1, d)
      <4>1. d \in 1..s.cols
        BY <3>1 DEF n
      <4>2. QED
        BY <1>1, <1>3, <4>1, KeyCells, Zenon
    <3>7. /\ at[d] = at[d - 1] + 6 /\ at[d - 1] \in Nat
          /\ \A i \in 1..6 : keys[at[d - 1] + i] = Cell(v)[i]
      BY <3>5, <3>6 DEF CellAt, keys
    <3> HIDE DEF v
    <3> DEFINE i == n - d + 3
    <3>12. /\ d \in Nat /\ d <= n /\ c < d /\ m \in Nat /\ 2 <= m /\ m <= c
      BY <1>11, <1>13, <1>20, <3>1
    <3>8. i \in 3..6 /\ p.pos + 1 = at[d - 1] + i
      BY <1>20, <3>4, <3>12
    <3>9. CASE i # 6
      <4>1. Cell(v)[3] = 0 /\ Cell(v)[4] = 0 /\ Cell(v)[5] = 1
        BY <3>5
      <4> HIDE DEF i
      <4>2. Cell(v)[i] \in {0, 1} /\ i \in 1..6
        BY <3>8, <3>9, <4>1
      <4>3. keys[p.pos + 1] \in {0, 1}
        BY <3>7, <3>8, <4>2
      <4>4. a \in 1..Len(data) => data[a] \in {0, 1}
        BY <1>15, <2>0, <4>3
      <4>5. QED
        BY <4>4 DEF TagN
    <3>10. CASE i = 6
      <4>1. n = 6 /\ d = 3 /\ c = 2 /\ m = 2 /\ k = 1
        <5>1. n = 6 /\ d = 3 /\ c = 2 /\ m = 2
          BY <1>20, <3>10, <3>12
        <5>2. QED
          BY <1>13, <2>2, <5>1
      <4>2. \A e \in {4, 5} : e \notin ToSet(s.pk) /\ e \in 1..s.cols
        <5>1. pk[1] = 2 /\ pk[2] = 3 /\ 1..m = {1, 2}
          BY <4>1 DEF c, d
        <5>2. ToSet(pk) = {2, 3}
          BY <1>11, <5>1 DEF ToSet
        <5>3. QED
          BY <4>1, <5>2 DEF pk, n
      <4>3. \A e \in {4, 5} : Cell(KeyRow(s, r)[e]) = <<Tagn>>
        <5>1. \A e \in {4, 5} : KeyRow(s, r)[e] = Null
          BY <4>2, KeyRowValues
        <5>2. Cell(Null) = <<Tagn>>
          BY DEF Cell, Null, Toasted
        <5>3. QED
          BY <5>1, <5>2
      <4>4. CellAt(at, s, r, new, 3, 4) /\ CellAt(at, s, r, new, 4, 5)
        <5>1. 4 - 1 = 3 /\ 5 - 1 = 4 /\ 4 \in 1..s.cols /\ 5 \in 1..s.cols
          BY <4>2
        <5>2. QED
          BY <1>1, <1>3, <5>1, KeyCells, Zenon
      <4>5. at[4] = at[3] + 1 /\ keys[at[4] + 1] = Tagn
        <5>1. Len(<<Tagn>>) = 1 /\ <<Tagn>>[1] = Tagn
          OBVIOUS
        <5>2. at[4] = at[3] + Len(Cell(KeyRow(s, r)[4]))
          BY <4>4 DEF CellAt
        <5>3. Cell(KeyRow(s, r)[4]) = <<Tagn>> /\ Cell(KeyRow(s, r)[5]) = <<Tagn>>
          BY <4>3
        <5>4. \A j \in 1..Len(Cell(KeyRow(s, r)[5])) :
                keys[at[4] + j] = Cell(KeyRow(s, r)[5])[j]
          BY <4>4 DEF CellAt, keys
        <5>5. 1 \in 1..1
          OBVIOUS
        <5>6. keys[at[4] + 1] = Tagn
          BY <5>1, <5>3, <5>4, <5>5
        <5>7. QED
          BY <5>1, <5>2, <5>3, <5>6
      <4>6. p.pos + 1 + 2 = at[4] + 1
        <5>1. at[d] = at[3] /\ at[d - 1] \in Nat /\ p.pos + 1 = at[d - 1] + 6
          BY <3>7, <3>8, <3>10, <4>1
        <5>2. at[3] = at[d - 1] + 6
          BY <3>7, <5>1
        <5>3. QED
          BY <4>5, <5>1, <5>2
      <4>7. a + 2 \in 1..Len(data) => data[a + 2] = Tagn
        BY <1>15, <4>5, <4>6
      <4>8. QED
        BY <4>1, <4>7 DEF Tagn
    <3>11. QED
      BY <3>9, <3>10
  <2>3. QED
    BY <2>1, <2>2
<1>17. NewData(SubSeq(data, a, Len(data)), s, TRUE) = Failed
  <2>1. a \in Nat \ {0}
    <3> HIDE DEF n, c
    <3>1. QED
      BY <1>2, <1>13, <1>14
  <2>2. \/ a \in 1..Len(data) => data[a] # TagN
        \/ a + 2 \in 1..Len(data) => data[a + 2] > s.cols
    BY <1>16
  <2> HIDE DEF a
  <2>3. QED
    BY <1>10, <2>1, <2>2, NoNewTuple
<1>18. ParseUpdate(data, s).st = "error"
  <2> DEFINE old == OldData(data, s)
  <2> HIDE DEF old
  <2>1. old.st = "ok" /\ old.pos + 1 = a
    <3>1. old.pos = p.pos + 1 /\ p.pos \in Nat
      BY <1>7, <1>20 DEF old
    <3>2. QED
      BY <1>5, <1>7, <3>1 DEF old
  <2>2. ~(data # <<>> /\ data[1] = TagN)
    BY <1>7 DEF TagK, TagN
  <2> HIDE DEF a
  <2> DEFINE read == NewData(SubSeq(data, old.pos + 1, Len(data)), s, TRUE)
  <2>3. read = Failed
    BY <1>17, <2>1
  <2> HIDE DEF read
  <2>4. ParseUpdate(data, s).st
          = IF old.st # "ok" THEN old.st
            ELSE (IF old.pos > Len(data) THEN Failed ELSE read).st
    BY <2>2 DEF ParseUpdate, old, read
  <2>5. QED
    BY <2>1, <2>3, <2>4 DEF Failed
<1>19. QED
  BY <1>18 DEF data, new

LEMMA AtExists ==
  ASSUME NEW s \in Shapes, ~s.full, NEW r \in RowsOf(s), NEW rest \in Seq(Nat)
  PROVE  \E at : At(at, s, r, rest)
<1>1. s.cols \in Nat
  BY RowValues
<1>2. KeyRow(s, r) \in [1..s.cols -> 0..257]
  BY KeyRowValues, Zenon
<1>3. TupleAt(KeyRow(s, r), s.cols, rest)
  BY <1>1, <1>2, TuplePlaces, Zenon
<1>4. QED
  BY <1>3 DEF TupleAt, At, KeyTuple

\* In a table of more columns, all of them keys, the old row is read as it is.
LEMMA WideOld ==
  ASSUME NEW s \in Shapes, ~s.full, ~(s.cols <= Unrolled),
         NEW r \in RowsOf(s), NEW rest \in Seq(Nat)
  PROVE  IF Len(s.pk) = s.cols
         THEN /\ OldData(OldTuple(s, r) \o rest, s).st = "ok"
              /\ OldData(OldTuple(s, r) \o rest, s).vals = r
              /\ OldData(OldTuple(s, r) \o rest, s).pos = Len(OldTuple(s, r))
         ELSE OldData(OldTuple(s, r) \o rest, s).st = "panic"
<1> DEFINE p == ParseKeys(KeyTuple(s, r, rest), s)
<1> DEFINE old == OldData(OldTuple(s, r) \o rest, s)
<1> DEFINE t == TupleData(KeyRow(s, r))
<1>1. PICK at : At(at, s, r, rest)
  BY AtExists
<1>2. WideRead(p, s, r, at)
  BY <1>1, WideReads
<1>3. /\ old.st = p.st /\ old.vals = p.vals /\ old.pos = p.pos + 1
      /\ OldTuple(s, r) = <<TagK>> \o t
  BY OldKeys, Zenon
<1>4. Len(OldTuple(s, r)) = 1 + Len(t) /\ at[s.cols] = Len(t)
  <2>1. t \in Seq(Nat)
    <3>1. s.cols \in Nat
      BY RowValues
    <3>2. KeyRow(s, r) \in [1..s.cols -> 0..257]
      BY KeyRowValues, Zenon
    <3>3. QED
      BY <3>1, <3>2, TupleType, Zenon
  <2>2. at[s.cols] = Len(t)
    BY <1>1 DEF At
  <2> HIDE DEF t
  <2>3. Len(OldTuple(s, r)) = 1 + Len(t)
    BY <1>3, <2>1, TailOfTagged DEF TagK
  <2>4. QED
    BY <2>2, <2>3
<1>5. Len(t) \in Nat
  <2>1. s.cols \in Nat
    BY RowValues
  <2>2. KeyRow(s, r) \in [1..s.cols -> 0..257]
    BY KeyRowValues, Zenon
  <2>3. t \in Seq(Nat)
    BY <2>1, <2>2, TupleType, Zenon
  <2> HIDE DEF t
  <2>4. QED
    BY <2>3
<1> HIDE DEF p, old, t
<1>6. p.pos = at[s.cols] => old.pos = Len(OldTuple(s, r))
  BY <1>3, <1>4, <1>5
<1>7. QED
  BY <1>2, <1>3, <1>6 DEF WideRead, old

LEMMA BehindOld ==
  ASSUME NEW old \in Seq(Nat), NEW new \in Seq(Nat)
  PROVE  /\ SubSeq(old \o new, Len(old) + 1, Len(old \o new)) = new
         /\ ~(Len(old) > Len(old \o new))
<1> DEFINE w == SubSeq(old \o new, Len(old) + 1, Len(old \o new))
<1>1. w \in Seq(Nat) /\ Len(w) = Len(new) /\ \A i \in 1..Len(w) : w[i] = new[i]
  OBVIOUS
<1> HIDE DEF w
<1>2. w = new
  BY <1>1, SeqEqual
<1>3. QED
  BY <1>2 DEF w

\* What is made of a change that comes with a K tuple.
OfKeys(d, s, ch) ==
  IF s.cols <= Unrolled
  THEN \/ ch.op = "update" /\ d.st = "error"
       \/ /\ ch.op = "delete" /\ d.st = "ok" /\ d.row = <<>>
          /\ \E k : FirstKeys(k, s) /\ d.old = KeyValues(s, ch.before, k)
  ELSE IF Len(s.pk) = s.cols
  THEN /\ d.st = "ok" /\ d.old = ch.before
       /\ d.row = IF ch.op = "delete" THEN <<>> ELSE Sent(ch.after, ch.toast)
  ELSE d.st = "panic"

LEMMA DecodeKeys ==
  ASSUME NEW s \in Shapes, NEW ch, IsChange(s, ch), ~Plain(s, ch)
  PROVE  OfKeys(DecodeChange(ch.op, Wire(s, ch), s), s, ch)
<1> DEFINE old == OldTuple(s, ch.before)
<1>1. ~s.full /\ ch.before \in RowsOf(s) /\ <<>> \in Seq(Nat)
  BY DEF Plain, IsChange
<1>2. old \in Seq(Nat) /\ old \o <<>> # <<>> /\ (old \o <<>>)[1] = TagK
  BY <1>1, OldKeys, Zenon
<1>3. CASE ch.op = "delete"
  <2>1. Wire(s, ch) = old
    BY <1>3 DEF Wire
  <2>2. old \o <<>> = old
    <3> HIDE DEF old
    <3>1. QED
      BY <1>2
  <2> DEFINE read == OldData(old \o <<>>, s)
  <2>3. DecodeChange(ch.op, Wire(s, ch), s) = [st |-> read.st, old |-> read.vals, row |-> <<>>]
    <3> HIDE DEF old
    <3>1. QED
      BY <1>3, <2>1, <2>2 DEF DecodeChange, ParseDelete
  <2>4. CASE s.cols <= Unrolled
    <3>1. PICK at : At(at, s, ch.before, <<>>)
      BY <1>1, AtExists
    <3> DEFINE p == ParseKeys(KeyTuple(s, ch.before, <<>>), s)
    <3>2. p.st = "ok" /\ \E k : AfterKeys(p, s, ch.before, at, k)
      BY <1>1, <2>4, <3>1, NarrowReads, Zenon
    <3>3. read.st = p.st /\ read.vals = p.vals
      BY <1>1, OldKeys, Zenon
    <3> HIDE DEF p, read
    <3>4. \E k : FirstKeys(k, s) /\ read.vals = KeyValues(s, ch.before, k)
      BY <3>2, <3>3 DEF AfterKeys
    <3>5. QED
      BY <1>3, <2>3, <2>4, <3>2, <3>3, <3>4 DEF OfKeys
  <2>5. CASE ~(s.cols <= Unrolled)
    <3>1. IF Len(s.pk) = s.cols THEN read.st = "ok" /\ read.vals = ch.before
          ELSE read.st = "panic"
      BY <1>1, <2>5, WideOld
    <3> HIDE DEF read
    <3>2. QED
      BY <1>3, <2>3, <2>5, <3>1 DEF OfKeys
  <2>6. QED
    BY <2>4, <2>5
<1>4. CASE ch.op = "update"
  <2> DEFINE new == NewTuple(ch.after, ch.toast)
  <2>1. ch.after \in RowsOf(s)
    BY <1>4 DEF IsChange
  <2>2. Moves(s, ch) /\ Wire(s, ch) = old \o new
    BY <1>1, <1>4 DEF Plain, Wire
  <2>3. DecodeChange(ch.op, Wire(s, ch), s) = ParseUpdate(old \o new, s)
    BY <1>4, <2>2 DEF DecodeChange
  <2>4. CASE s.cols <= Unrolled
    <3>1. ParseUpdate(old \o new, s).st = "error"
      BY <1>1, <2>1, <2>4, NarrowMoves
    <3>2. QED
      BY <1>4, <2>3, <2>4, <3>1 DEF OfKeys
  <2>5. CASE ~(s.cols <= Unrolled)
    <3>1. NewRead(s, ch.after, ch.toast, TRUE)
      BY <2>1, NewReads
    <3>2. new \in Seq(Nat)
      BY <3>1 DEF NewRead
    <3> DEFINE data == old \o new
    <3> DEFINE read == OldData(data, s)
    <3>3. IF Len(s.pk) = s.cols
          THEN read.st = "ok" /\ read.vals = ch.before /\ read.pos = Len(old)
          ELSE read.st = "panic"
      BY <1>1, <2>5, <3>2, WideOld
    <3>4. data # <<>> /\ data[1] = TagK
      BY <1>1, <3>2, OldKeys, Zenon
    <3>5. /\ SubSeq(data, Len(old) + 1, Len(data)) = new /\ ~(Len(old) > Len(data))
      BY <1>2, <3>2, BehindOld, Zenon
    <3>6. NewData(new, s, TRUE).st = "ok" /\ NewData(new, s, TRUE).vals = Sent(ch.after, ch.toast)
      BY <3>1 DEF NewRead
    <3> HIDE DEF old, new, data, read
    <3>7. ~(data # <<>> /\ data[1] = TagN)
      BY <3>4 DEF TagK, TagN
    <3> DEFINE rest == NewData(SubSeq(data, read.pos + 1, Len(data)), s, TRUE)
    <3> DEFINE made == IF read.pos > Len(data) THEN Failed ELSE rest
    <3>8. ParseUpdate(data, s) = [st |-> IF read.st # "ok" THEN read.st ELSE made.st,
                                  old |-> read.vals, row |-> made.vals]
      BY <3>7 DEF ParseUpdate, read
    <3>9. CASE Len(s.pk) = s.cols
      <4>1. made = NewData(new, s, TRUE)
        BY <3>3, <3>5, <3>9
      <4> HIDE DEF made
      <4>2. ParseUpdate(data, s) = [st |-> "ok", old |-> ch.before,
                                    row |-> Sent(ch.after, ch.toast)]
        BY <3>3, <3>6, <3>8, <3>9, <4>1
      <4>3. QED
        BY <1>4, <2>3, <2>5, <3>9, <4>2 DEF OfKeys, data
    <3>10. CASE Len(s.pk) # s.cols
      <4>1. ParseUpdate(data, s).st = "panic"
        <5> HIDE DEF made
        <5>1. QED
          BY <3>3, <3>8, <3>10
      <4>2. QED
        BY <2>3, <2>5, <3>10, <4>1 DEF OfKeys, data
    <3>11. QED
      BY <3>9, <3>10
  <2>6. QED
    BY <2>4, <2>5
<1>5. QED
  BY <1>3, <1>4 DEF IsChange, Plain

------------------------------------------------------------------------------
\* What the decoder has made of any change, and what the target holds of it.

WholeOld == shape.full \/ (shape.cols > Unrolled /\ Len(shape.pk) = shape.cols)

DeleteEvent ==
  IF WholeOld THEN event.old = change.before
  ELSE /\ shape.cols <= Unrolled
       /\ \E k : FirstKeys(k, shape) /\ event.old = KeyValues(shape, change.before, k)

UpsertEvent ==
  /\ event.row = Sent(change.after, change.toast)
  /\ change.toast # {} => event.old = IF shape.full THEN change.before ELSE <<>>

EventInv ==
  /\ known \in [ident : BOOLEAN, stmt : BOOLEAN]
  /\ decoded \in {"no", "event", "dropped", "panicked"}
  /\ decoded # "event" => event = NoEvent
  /\ decoded = "event" =>
       /\ event.op = change.op
       /\ IF change.op = "delete" THEN DeleteEvent ELSE UpsertEvent
  /\ decoded \in {"dropped", "panicked"} => ~Handled

\* Where the decoder fails, nothing is handled.
LEMMA FailedNotHandled ==
  ASSUME RowInv, Fitting(shape, rows, change), ~Plain(shape, change),
         shape.cols <= Unrolled => change.op = "update",
         ~(shape.cols <= Unrolled) => Len(shape.pk) # shape.cols
  PROVE  ~Handled
<1>1. ~shape.full /\ (change.op = "delete" \/ (change.op = "update" /\ Moves(shape, change)))
  BY DEF Plain, Fitting, IsChange
<1>2. CASE change.op = "delete"
  <2>1. ~(shape.cols <= Unrolled) /\ Len(shape.pk) # shape.cols
    BY <1>2
  <2>2. QED
    BY <1>1, <1>2, <2>1 DEF Handled, DeleteHandled, AllKeys
<1>3. CASE change.op # "delete"
  BY <1>1, <1>3 DEF Handled, UpsertHandled
<1>4. QED
  BY <1>2, <1>3

LEMMA EventInit == Init => EventInv
BY DEF Init, EventInv

LEMMA EventStep ==
  ASSUME RowInv, EventInv, [Next]_vars PROVE EventInv'
<1>1. CASE Change
  <2>1. /\ decoded = "no" /\ decoded' = "no" /\ event' = event /\ known' = known
    BY <1>1 DEF Change, RowInv, Fitting, IsChange, NoChange
  <2>2. QED
    BY <2>1 DEF EventInv
<1>2. CASE Decode
  <2>1. /\ shape' = shape /\ rows' = rows /\ change' = change /\ known' = known
        /\ change # NoChange
    BY <1>2 DEF Decode
  <2>2. shape \in Shapes /\ Fitting(shape, rows, change) /\ IsChange(shape, change)
    BY <2>1 DEF RowInv, Fitting
  <2> DEFINE d == DecodeChange(change.op, Wire(shape, change), shape)
  <2> HIDE DEF d
  <2>3. /\ decoded' = CASE d.st = "ok" -> "event"
                        [] d.st = "panic" -> "panicked"
                        [] OTHER -> "dropped"
        /\ event' = IF d.st = "ok" THEN [op |-> change.op, old |-> d.old, row |-> d.row]
                    ELSE NoEvent
    BY <1>2 DEF Decode, d
  <2>4. CASE Plain(shape, change)
    <3>1. Exact(d, shape, change)
      BY <2>2, <2>4, DecodeExact DEF d
    <3>2. /\ decoded' = "event" /\ event'.op = change.op
          /\ event'.old = IF shape.full /\ change.op # "insert" THEN change.before ELSE <<>>
          /\ event'.row = IF change.op = "delete" THEN <<>> ELSE Sent(change.after, change.toast)
      BY <2>3, <3>1 DEF Exact, Says
    <3>3. (IF change.op = "delete" THEN DeleteEvent ELSE UpsertEvent)'
      <4>1. CASE change.op = "delete"
        <5>1. shape.full
          BY <2>4, <4>1 DEF Plain
        <5>2. QED
          BY <2>1, <3>2, <4>1, <5>1 DEF DeleteEvent, WholeOld
      <4>2. CASE change.op # "delete"
        <5>1. change.toast # {} => change.op = "update"
          BY <2>2 DEF IsChange
        <5>2. QED
          BY <2>1, <3>2, <4>2, <5>1 DEF UpsertEvent
      <4>3. QED
        BY <4>1, <4>2
    <3>4. QED
      BY <2>1, <3>2, <3>3 DEF EventInv
  <2>5. CASE ~Plain(shape, change)
    <3>1. OfKeys(d, shape, change)
      BY <2>2, <2>5, DecodeKeys DEF d
    <3>2. ~shape.full
      BY <2>5 DEF Plain
    <3>3. CASE d.st # "ok"
      <4>1. decoded' \in {"dropped", "panicked"} /\ event' = NoEvent
        BY <2>3, <3>3
      <4>2. ~Handled
        <5>1. shape.cols <= Unrolled => change.op = "update"
          BY <3>1, <3>3 DEF OfKeys
        <5>2. ~(shape.cols <= Unrolled) => Len(shape.pk) # shape.cols
          BY <3>1, <3>3 DEF OfKeys
        <5>3. QED
          BY <2>2, <2>5, <5>1, <5>2, FailedNotHandled
      <4>3. ~Handled'
        BY <2>1, <4>2 DEF Handled, DeleteHandled, UpsertHandled, AllKeys, InFront
      <4>4. QED
        BY <2>1, <4>1, <4>3 DEF EventInv
    <3>4. CASE d.st = "ok"
      <4>1. /\ decoded' = "event" /\ event'.op = change.op
            /\ event'.old = d.old /\ event'.row = d.row
        BY <2>3, <3>4
      <4>2. CASE shape.cols <= Unrolled
        <5>1. change.op = "delete" /\ \E k : FirstKeys(k, shape) /\ d.old = KeyValues(shape, change.before, k)
          BY <3>1, <3>4, <4>2 DEF OfKeys
        <5>2. ~WholeOld'
          <6>1. ~(shape.cols > Unrolled)
            <7>1. shape.cols \in Nat /\ Unrolled \in Nat
              BY <2>2, ShapesAssumption
            <7>2. QED
              BY <4>2, <7>1
          <6>2. QED
            BY <2>1, <3>2, <6>1 DEF WholeOld
        <5>3. DeleteEvent'
          BY <2>1, <4>1, <4>2, <5>1, <5>2 DEF DeleteEvent, FirstKeys, KeyValues
        <5>4. QED
          BY <2>1, <4>1, <5>1, <5>3 DEF EventInv
      <4>3. CASE ~(shape.cols <= Unrolled)
        <5>1. /\ Len(shape.pk) = shape.cols /\ d.old = change.before
              /\ d.row = IF change.op = "delete" THEN <<>> ELSE Sent(change.after, change.toast)
          BY <3>1, <3>4, <4>3 DEF OfKeys
        <5>2. WholeOld'
          <6>1. shape.cols > Unrolled
            <7>1. shape.cols \in Nat /\ Unrolled \in Nat
              BY <2>2, ShapesAssumption
            <7>2. QED
              BY <4>3, <7>1
          <6>2. QED
            BY <2>1, <5>1, <6>1 DEF WholeOld
        <5>3. change.op # "delete" => change.toast = {}
          <6>1. ToSet(shape.pk) = 1..shape.cols
            <7>1. Ordered(shape.pk, Len(shape.pk), shape.cols)
              BY <2>2, KeysOrdered
            <7>2. QED
              BY <5>1, <7>1, AllAreKeys
          <6>2. change.op = "update" => change.toast = {}
            BY <2>2, <6>1 DEF Fitting, Fits
          <6>3. QED
            BY <2>2, <6>2 DEF IsChange
        <5>4. (IF change.op = "delete" THEN DeleteEvent ELSE UpsertEvent)'
          BY <2>1, <4>1, <5>1, <5>2, <5>3 DEF DeleteEvent, UpsertEvent
        <5>5. QED
          BY <2>1, <4>1, <5>4 DEF EventInv
      <4>4. QED
        BY <4>2, <4>3
    <3>5. QED
      BY <3>3, <3>4
  <2>6. QED
    BY <2>4, <2>5
<1>3. CASE OnEventPostgres \/ OnEventFeldera \/ UNCHANGED vars
  <2>1. /\ shape' = shape /\ change' = change /\ decoded' = decoded /\ event' = event
        /\ known' = known
    BY <1>3 DEF OnEventPostgres, OnEventFeldera, vars
  <2>2. DeleteEvent' = DeleteEvent /\ UpsertEvent' = UpsertEvent /\ Handled' = Handled
    BY <2>1 DEF DeleteEvent, UpsertEvent, WholeOld, FirstKeys, KeyValues,
                Handled, DeleteHandled, UpsertHandled, AllKeys, InFront
  <2>3. QED
    BY <2>1, <2>2 DEF EventInv
<1>4. QED
  BY <1>1, <1>2, <1>3 DEF Next

==============================================================================
