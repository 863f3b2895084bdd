-------------------------- MODULE RowChangeProofs --------------------------
(* That the decoder reads what pgoutput wrote, for every shape of table, and *)
(* what becomes of it in the sinks.                                          *)
EXTENDS RowChange, DataLemmas

Accs == [st : {"ok", "error", "panic"}, vals : Seq(Nat), pos : Nat]
Begin == [st |-> "ok", vals |-> <<>>, pos |-> 2]

\* An accumulator's value and position may grow, its state change.
LEMMA ReadValueType ==
  ASSUME NEW a \in Accs, NEW data \in Seq(Nat), NEW isUpdate
  PROVE  ReadValue(a, data, isUpdate) \in Accs
<1> DEFINE tag == data[a.pos + 1]
<1>1. a.vals \in Seq(Nat) /\ a.pos \in Nat
  BY DEF Accs
<1>2. \A v \in Nat, len \in Nat :
        [a EXCEPT !.vals = Append(@, v), !.pos = @ + len] \in Accs
  <2>1. ASSUME NEW v \in Nat, NEW len \in Nat
        PROVE  [a EXCEPT !.vals = Append(@, v), !.pos = @ + len] \in Accs
    <3>1. Append(a.vals, v) \in Seq(Nat) /\ a.pos + len \in Nat
      BY <1>1
    <3>2. QED
      BY <3>1 DEF Accs
  <2>2. QED
    BY <2>1
<1>3. [a EXCEPT !.st = "error"] \in Accs /\ [a EXCEPT !.st = "panic"] \in Accs
  BY DEF Accs
<1>4. a.pos + 6 <= Len(data) => data[a.pos + 6] \in Nat
  BY <1>1
<1> HIDE DEF tag
<1>5. QED
  BY <1>2, <1>3, <1>4, ZenonT(30) DEF ReadValue, Null, Toasted

\* What the loop of tuple_data::parse has read, column by column.
IsParse(acc, data, n, isUpdate) ==
  /\ acc[0] = Begin
  /\ \A c \in 1..n : acc[c] = IF acc[c - 1].st = "ok"
                               THEN ReadValue(acc[c - 1], data, isUpdate)
                               ELSE acc[c - 1]

LEMMA ParseSteps ==
  ASSUME NEW data \in Seq(Nat), NEW s, NEW isUpdate, NEW n \in Nat,
         Len(data) >= 2, data[2] = n, ~(n > s.cols)
  PROVE  \E acc : IsParse(acc, data, n, isUpdate) /\ acc[n] = Parse(data, s, isUpdate)
<1> DEFINE Step(a, c) == IF a.st = "ok" THEN ReadValue(a, data, isUpdate) ELSE a
<1> DEFINE step == [p \in Accs \X (1..n) |-> Step(p[1], p[2])]
<1> DEFINE Iter(h) == h = [S \in SUBSET (1..n) |->
                             IF S = {} THEN Begin ELSE Step(h[S \ {Max(S)}], Max(S))]
<1> DEFINE h == CHOOSE h : Iter(h)
<1>1. Begin \in Accs
  BY DEF Begin, Accs
<1>2. \A x \in Accs, k \in 1..n : step[<<x, k>>] \in Accs
  BY ReadValueType
<1>3. PICK g : IsFold(g, Accs, n, Begin, step)
  <2> HIDE DEF step
  <2>1. QED
    BY <1>1, <1>2, IterExists, Zenon
<1>4. Iter(g)
  <2>1. ASSUME NEW S \in SUBSET (1..n), S # {}
        PROVE  step[<<g[S \ {Max(S)}], Max(S)>>] = Step(g[S \ {Max(S)}], Max(S))
    <3>1. Max(S) \in 1..n /\ g[S \ {Max(S)}] \in Accs
      BY <1>3, <2>1, MaxInSet DEF IsFold
    <3>2. QED
      BY <3>1
  <2> HIDE DEF step, Step
  <2>2. QED
    BY <1>3, <2>1 DEF IsFold
<1>5. Iter(h)
  BY <1>4
<1>6. Parse(data, s, isUpdate) = h[1..n]
  BY DEF Parse, FoldLeft, MapThenFoldSet, Begin
<1> HIDE DEF h, Step
<1>7. h[{}] = Begin /\ 1..0 = {}
  BY <1>5
<1>8. ASSUME NEW c \in 1..n PROVE h[1..c] = Step(h[1..(c - 1)], c)
  <2>1. 1..c \in SUBSET (1..n) /\ 1..c # {} /\ c \in Nat \ {0}
    <3>1. c \in Nat /\ 1 <= c /\ c <= n
      OBVIOUS
    <3>2. 1 \in 1..c /\ \A i \in 1..c : i \in 1..n
      BY <3>1
    <3>3. (1..c) \subseteq (1..n) /\ 1..c # {}
      BY <3>2, Zenon
    <3>4. QED
      BY <3>1, <3>3
  <2>2. Max(1..c) = c /\ (1..c) \ {c} = 1..(c - 1)
    BY <2>1, MaxOfUpTo
  <2>3. QED
    BY <1>5, <2>1, <2>2
<1> DEFINE acc == [c \in 0..n |-> h[1..c]]
<1>9. acc[0] = Begin /\ acc[n] = Parse(data, s, isUpdate)
  BY <1>6, <1>7
<1>10. ASSUME NEW c \in 1..n PROVE acc[c] = Step(acc[c - 1], c)
  BY <1>8
<1>11. QED
  BY <1>9, <1>10 DEF Step, IsParse

------------------------------------------------------------------------------
\* The bytes of a value, and of a tuple.

LEMMA CellBytes ==
  ASSUME NEW v \in 0..257
  PROVE  /\ Cell(v) \in Seq(Nat)
         /\ v = Null => Len(Cell(v)) = 1 /\ Cell(v)[1] = Tagn
         /\ v = Toasted => Len(Cell(v)) = 1 /\ Cell(v)[1] = Tagu
         /\ v < 256 => Len(Cell(v)) = 6 /\ Cell(v)[1] = Tagb /\ Cell(v)[6] = v
<1>1. CASE v = Null
  BY <1>1 DEF Cell, Null, Toasted, Tagn
<1>2. CASE v = Toasted
  BY <1>2 DEF Cell, Null, Toasted, Tagu
<1>3. CASE v < 256
  <2>1. Cell(v) = <<Tagb, 0, 0, 0, 1, v>>
    BY <1>3 DEF Cell, Null, Toasted
  <2>2. QED
    BY <1>3, <2>1 DEF Null, Toasted, Tagb
<1>4. QED
  BY <1>1, <1>2, <1>3 DEF Null, Toasted

CellsOf(r, n) == [c \in 1..n |-> Cell(r[c])]

LEMMA TupleBytes ==
  ASSUME NEW n \in Nat, NEW r \in [1..n -> 0..257], NEW rest \in Seq(Nat)
  PROVE  /\ TupleData(r) \in Seq(Nat) /\ Len(TupleData(r)) >= 2
         /\ TupleData(r)[1] = 0 /\ (TupleData(r) \o rest)[2] = n
         /\ \E at : /\ Places(at, TupleData(r) \o rest, n, CellsOf(r, n))
                    /\ at[0] = 2 /\ at[n] = Len(TupleData(r))
<1> DEFINE cells == CellsOf(r, n)
<1> DEFINE flat == FlattenSeq(cells)
<1>1. cells \in [1..n -> Seq(Nat)]
  BY CellBytes DEF CellsOf
<1>2. TupleData(r) = <<0, n>> \o flat
  <2>1. Len(r) = n /\ DOMAIN r = 1..n
    OBVIOUS
  <2>2. QED
    BY <2>1 DEF TupleData, CellsOf
<1> HIDE DEF cells
<1>3. flat \in Seq(Nat) /\ \E at : Places(at, flat, n, cells) /\ at[0] = 0 /\ at[n] = Len(flat)
  BY <1>1, FlattenPlaces
<1> HIDE DEF flat
<1>4. PICK on : Places(on, flat, n, cells) /\ on[0] = 0 /\ on[n] = Len(flat)
  BY <1>3
<1> DEFINE data == TupleData(r) \o rest
<1>5. /\ TupleData(r) \in Seq(Nat) /\ Len(TupleData(r)) = 2 + Len(flat)
      /\ data[2] = n
      /\ \A i \in 1..Len(flat) : data[2 + i] = flat[i]
  BY <1>2, <1>3
<1> HIDE DEF data
<1> DEFINE at == [k \in 0..n |-> 2 + on[k]]
<1>6. at \in [0..n -> Nat] /\ at[0] = 2 /\ at[n] = Len(TupleData(r))
  BY <1>4, <1>5 DEF Places
<1>7. ASSUME NEW k \in 1..n
      PROVE  /\ at[k] = at[k - 1] + Len(cells[k]) /\ at[k] <= at[n]
             /\ \A i \in 1..Len(cells[k]) : data[at[k - 1] + i] = cells[k][i]
  <2>1. /\ on[k] = on[k - 1] + Len(cells[k]) /\ on[k] <= on[n]
        /\ \A i \in 1..Len(cells[k]) : flat[on[k - 1] + i] = cells[k][i]
    BY <1>4 DEF Places
  <2>2. on[k] \in Nat /\ on[k - 1] \in Nat /\ on[n] \in Nat /\ Len(cells[k]) \in Nat
    BY <1>1, <1>4 DEF Places
  <2>3. at[k] = 2 + on[k] /\ at[k - 1] = 2 + on[k - 1] /\ at[n] = 2 + on[n]
    OBVIOUS
  <2>4. ASSUME NEW i \in 1..Len(cells[k]) PROVE data[at[k - 1] + i] = cells[k][i]
    <3>1. on[k - 1] + i \in 1..Len(flat)
      BY <1>4, <2>1, <2>2
    <3>2. at[k - 1] + i = 2 + (on[k - 1] + i)
      BY <2>2, <2>3
    <3>3. QED
      BY <1>5, <2>1, <3>1, <3>2
  <2>5. at[k] = at[k - 1] + Len(cells[k]) /\ at[k] <= at[n]
    <3> HIDE DEF at
    <3>1. QED
      BY <2>1, <2>2, <2>3, SMTT(30)
  <2>6. QED
    BY <2>4, <2>5
<1>8. Places(at, data, n, cells)
  BY <1>6, <1>7 DEF Places
<1> HIDE DEF at
<1>9. \E p : Places(p, data, n, cells) /\ p[0] = 2 /\ p[n] = Len(TupleData(r))
  BY <1>6, <1>8
<1>10. Len(TupleData(r)) >= 2 /\ TupleData(r)[1] = 0
  BY <1>2, <1>3, <1>5
<1>11. QED
  BY <1>5, <1>9, <1>10 DEF cells, data

LEMMA TupleType ==
  ASSUME NEW n \in Nat, NEW r \in [1..n -> 0..257]
  PROVE  TupleData(r) \in Seq(Nat) /\ Len(TupleData(r)) >= 2 /\ TupleData(r)[1] = 0
<1>1. <<>> \in Seq(Nat)
  OBVIOUS
<1>2. QED
  BY <1>1, TupleBytes

LEMMA ValueKinds ==
  \A v \in 0..257 : v = Null \/ v = Toasted \/ v < 256
BY DEF Null, Toasted

\* The accumulator after a value of so many bytes.
Read(a, v, len) == [a EXCEPT !.vals = Append(@, v), !.pos = @ + len]

LEMMA ReadAcc ==
  ASSUME NEW a \in Accs, NEW v \in Nat, NEW len \in Nat
  PROVE  /\ Read(a, v, len) \in Accs /\ Read(a, v, len).st = a.st
         /\ Read(a, v, len).vals = Append(a.vals, v)
         /\ Read(a, v, len).pos = a.pos + len
<1>1. Append(a.vals, v) \in Seq(Nat) /\ a.pos + len \in Nat
  BY DEF Accs
<1>2. QED
  BY <1>1 DEF Accs, Read

\* parse_value reads a value where its bytes are.
LEMMA ReadCell ==
  ASSUME NEW a, a.pos \in Nat, NEW data \in Seq(Nat), NEW v \in 0..257, NEW isUpdate,
         a.pos + Len(Cell(v)) <= Len(data),
         \A i \in 1..Len(Cell(v)) : data[a.pos + i] = Cell(v)[i],
         v = Toasted => isUpdate
  PROVE  ReadValue(a, data, isUpdate) = Read(a, v, Len(Cell(v)))
<1>1. CASE v = Null
  <2>1. Len(Cell(v)) = 1 /\ data[a.pos + 1] = Tagn
    <3>1. Len(Cell(v)) = 1 /\ Cell(v)[1] = Tagn
      BY <1>1, CellBytes, Zenon
    <3>2. QED
      BY <3>1
  <2>2. ~(a.pos >= Len(data))
    BY <2>1
  <2>3. QED
    BY <1>1, <2>1, <2>2 DEF ReadValue, Read, Tagn, Tagu, Tagb, Tagt
<1>2. CASE v = Toasted
  <2>1. Len(Cell(v)) = 1 /\ data[a.pos + 1] = Tagu
    <3>1. Len(Cell(v)) = 1 /\ Cell(v)[1] = Tagu
      BY <1>2, CellBytes, Zenon
    <3>2. QED
      BY <3>1
  <2>2. ~(a.pos >= Len(data))
    BY <2>1
  <2>3. QED
    BY <1>2, <2>1, <2>2 DEF ReadValue, Read, Tagn, Tagu, Tagb, Tagt
<1>3. CASE v < 256
  <2>1. Len(Cell(v)) = 6 /\ data[a.pos + 1] = Tagb /\ data[a.pos + 6] = v
    <3>1. Len(Cell(v)) = 6 /\ Cell(v)[1] = Tagb /\ Cell(v)[6] = v
      BY <1>3, CellBytes, Zenon
    <3>2. QED
      BY <3>1
  <2>2. ~(a.pos >= Len(data)) /\ a.pos + 6 <= Len(data)
    BY <2>1
  <2>3. QED
    BY <2>1, <2>2 DEF ReadValue, Read, Tagn, Tagu, Tagb, Tagt
<1>4. v = Null \/ v = Toasted \/ v < 256
  BY ValueKinds
<1>5. QED
  BY <1>1, <1>2, <1>3, <1>4, Zenon

\* p is the row r, read to the end of its tuple.
Reads(p, r) ==
  p \in Accs /\ p.st = "ok" /\ p.vals = r /\ p.pos = Len(TupleData(r))

\* tuple_data::parse gives back the row that pgoutput wrote, and stops behind it.
LEMMA ParseReads ==
  ASSUME NEW n \in Nat, NEW r \in [1..n -> 0..257], NEW rest \in Seq(Nat),
         NEW s, ~(n > s.cols), NEW isUpdate,
         \A c \in 1..n : r[c] = Toasted => isUpdate
  PROVE  Reads(Parse(TupleData(r) \o rest, s, isUpdate), r)
<1> DEFINE data == TupleData(r) \o rest
<1> DEFINE cells == CellsOf(r, n)
<1>1. /\ TupleData(r) \in Seq(Nat) /\ Len(TupleData(r)) >= 2 /\ data[2] = n
      /\ \E at : Places(at, data, n, cells) /\ at[0] = 2 /\ at[n] = Len(TupleData(r))
  BY TupleBytes
<1>2. data \in Seq(Nat) /\ Len(data) >= 2 /\ Len(data) >= Len(TupleData(r))
  BY <1>1
<1> HIDE DEF data, cells
<1>3. PICK at : Places(at, data, n, cells) /\ at[0] = 2 /\ at[n] = Len(TupleData(r))
  BY <1>1
<1>4. PICK acc : IsParse(acc, data, n, isUpdate) /\ acc[n] = Parse(data, s, isUpdate)
  BY <1>1, <1>2, ParseSteps
<1> DEFINE Done(k) == /\ acc[k] \in Accs /\ acc[k].st = "ok"
                      /\ acc[k].vals = [c \in 1..k |-> r[c]]
                      /\ acc[k].pos = at[k]
<1> DEFINE K == {k \in Nat : k <= n => Done(k)}
<1>5. 0 \in K
  <2>1. [c \in 1..0 |-> r[c]] = <<>>
    OBVIOUS
  <2>2. QED
    <3>1. Begin \in Accs /\ Begin.st = "ok" /\ Begin.vals = <<>> /\ Begin.pos = 2
      BY DEF Begin, Accs
    <3>2. acc[0] = Begin
      BY <1>4 DEF IsParse
    <3>3. Done(0)
      BY <1>3, <2>1, <3>1, <3>2
    <3>4. QED
      BY <3>3
<1>6. ASSUME NEW k \in Nat, k \in K PROVE k + 1 \in K
  <2>1. SUFFICES ASSUME k + 1 <= n PROVE Done(k + 1)
    OBVIOUS
  <2> DEFINE v == r[k + 1]
  <2>2. k + 1 \in 1..n /\ (k + 1) - 1 = k /\ k <= n /\ v \in 0..257
    BY <2>1
  <2>3. cells[k + 1] = Cell(v)
    BY <2>2 DEF cells, CellsOf
  <2>4. /\ at[k] \in Nat /\ at[k + 1] = at[k] + Len(Cell(v)) /\ at[k + 1] <= at[n]
        /\ \A i \in 1..Len(Cell(v)) : data[at[k] + i] = Cell(v)[i]
    <3>1. k \in 0..n
      BY <2>2
    <3>2. QED
      BY <1>3, <2>2, <2>3, <3>1, SMTT(30) DEF Places
  <2>5. at[k] + Len(Cell(v)) <= Len(data)
    <3>1. Len(Cell(v)) \in Nat
      BY <2>2, CellBytes, SMTT(30)
    <3>2. QED
      BY <1>1, <1>2, <1>3, <2>4, <3>1
  <2>6. Done(k)
    BY <1>6, <2>2
  <2>7. acc[k].pos = at[k] /\ acc[k].st = "ok"
    BY <2>6
  <2>8. ReadValue(acc[k], data, isUpdate) = Read(acc[k], v, Len(Cell(v)))
    <3> HIDE DEF v, K, Done
    <3>1. v = Toasted => isUpdate
      BY <2>2 DEF v
    <3>2. /\ acc[k].pos \in Nat /\ acc[k].pos + Len(Cell(v)) <= Len(data)
          /\ \A i \in 1..Len(Cell(v)) : data[acc[k].pos + i] = Cell(v)[i]
      BY <2>4, <2>5, <2>7
    <3>3. QED
      BY <1>2, <2>2, <3>1, <3>2, ReadCell, ZenonT(30)
  <2>9. acc[k + 1] = Read(acc[k], v, Len(Cell(v)))
    BY <1>4, <2>2, <2>7, <2>8 DEF IsParse
  <2>10. Append([c \in 1..k |-> r[c]], v) = [c \in 1..(k + 1) |-> r[c]]
    OBVIOUS
  <2>11. v \in Nat /\ Len(Cell(v)) \in Nat
    <3> HIDE DEF v, K
    <3>1. Cell(v) \in Seq(Nat)
      BY <2>2, CellBytes, Zenon
    <3>2. QED
      BY <2>2, <3>1
  <2>12. /\ acc[k + 1] \in Accs /\ acc[k + 1].st = acc[k].st
         /\ acc[k + 1].vals = Append(acc[k].vals, v)
         /\ acc[k + 1].pos = acc[k].pos + Len(Cell(v))
    <3> HIDE DEF v, K
    <3>1. acc[k] \in Accs
      BY <2>6
    <3> HIDE DEF Done
    <3> DEFINE len == Len(Cell(v))
    <3>2. len \in Nat
      BY <2>11
    <3> HIDE DEF len
    <3>3. /\ Read(acc[k], v, len) \in Accs /\ Read(acc[k], v, len).st = acc[k].st
          /\ Read(acc[k], v, len).vals = Append(acc[k].vals, v)
          /\ Read(acc[k], v, len).pos = acc[k].pos + len
      BY <2>11, <3>1, <3>2, ReadAcc
    <3>4. QED
      BY <2>9, <3>3 DEF len
  <2>13. QED
    <3> HIDE DEF v, K
    <3>1. QED
      BY <2>4, <2>6, <2>10, <2>12
<1>7. n \in K
  <2> HIDE DEF K
  <2>1. QED
    BY <1>5, <1>6, Induction
<1>8. Done(n)
  BY <1>7
<1>9. [c \in 1..n |-> r[c]] = r
  OBVIOUS
<1>10. QED
  BY <1>3, <1>4, <1>8, <1>9 DEF data, Reads

------------------------------------------------------------------------------
\* The old and the new tuple of a message.

LEMMA WiderFunction ==
  ASSUME NEW A, NEW B, NEW C, B \subseteq C, NEW f \in [A -> B]
  PROVE  f \in [A -> C]
OBVIOUS

LEMMA RowValues ==
  ASSUME NEW s \in Shapes, NEW r \in RowsOf(s)
  PROVE  /\ s.cols \in Nat \ {0} /\ r \in [1..s.cols -> Values \cup {Null}]
         /\ r \in [1..s.cols -> 0..256] /\ r \in [1..s.cols -> 0..257]
<1>1. s.cols \in Nat \ {0} /\ Values \cup {Null} \subseteq 0..256
  BY ShapesAssumption DEF Null
<1>2. r \in [1..s.cols -> Values \cup {Null}]
  BY DEF RowsOf
<1>4. r \in [1..s.cols -> 0..256]
  BY <1>1, <1>2, WiderFunction, Zenon
<1>5. r \in [1..s.cols -> 0..257]
  <2>1. \A c \in 1..s.cols : r[c] \in 0..257
    <3>1. \A c \in 1..s.cols : r[c] \in 0..256
      BY <1>4
    <3>2. QED
      BY <3>1
  <2>2. QED
    BY <1>2, <2>1
<1>6. QED
  BY <1>1, <1>2, <1>4, <1>5

\* The row as NewTuple writes it.
Sent(r, toast) == [c \in DOMAIN r |-> IF c \in toast THEN Toasted ELSE r[c]]

LEMMA SentValues ==
  ASSUME NEW s \in Shapes, NEW r \in RowsOf(s), NEW toast
  PROVE  /\ Sent(r, toast) \in [1..s.cols -> 0..257]
         /\ \A c \in 1..s.cols : Sent(r, toast)[c] = Toasted <=> c \in toast
<1>1. r \in [1..s.cols -> 0..256] /\ DOMAIN r = 1..s.cols
  BY RowValues
<1>2. ASSUME NEW c \in 1..s.cols
      PROVE  /\ Sent(r, toast)[c] \in 0..257
             /\ Sent(r, toast)[c] = Toasted <=> c \in toast
  <2>1. r[c] \in 0..256 /\ Sent(r, toast)[c] = IF c \in toast THEN Toasted ELSE r[c]
    BY <1>1 DEF Sent
  <2>2. QED
    BY <2>1 DEF Toasted
<1>3. DOMAIN Sent(r, toast) = 1..s.cols /\ Sent(r, toast) = [c \in 1..s.cols |-> Sent(r, toast)[c]]
  BY <1>1 DEF Sent
<1>4. QED
  BY <1>2, <1>3

LEMMA TailOfTagged ==
  ASSUME NEW tag \in Nat, NEW t \in Seq(Nat)
  PROVE  /\ <<tag>> \o t \in Seq(Nat) /\ <<tag>> \o t # <<>>
         /\ (<<tag>> \o t)[1] = tag /\ Tail(<<tag>> \o t) = t
         /\ Len(<<tag>> \o t) = 1 + Len(t)
<1>1. <<tag>> \in Seq(Nat) /\ Len(<<tag>>) = 1 /\ <<tag>>[1] = tag
  OBVIOUS
<1> DEFINE u == <<tag>> \o t
<1>2. /\ u \in Seq(Nat) /\ Len(u) = 1 + Len(t) /\ u[1] = tag
      /\ \A i \in 1..Len(t) : u[i + 1] = t[i]
  BY <1>1
<1> HIDE DEF u
<1>3. u # <<>>
  BY <1>2
<1>4. Tail(u) \in Seq(Nat) /\ Len(Tail(u)) = Len(t) /\ \A i \in 1..Len(t) : Tail(u)[i] = t[i]
  BY <1>2, <1>3
<1>5. Tail(u) = t
  BY <1>4, SeqEqual
<1>6. QED
  BY <1>2, <1>3, <1>5 DEF u

\* get_new_tuple_data reads the row that was sent.
NewRead(s, r, toast, isUpdate) ==
  /\ NewTuple(r, toast) \in Seq(Nat) /\ NewTuple(r, toast) # <<>>
  /\ NewTuple(r, toast)[1] = TagN
  /\ NewData(NewTuple(r, toast), s, isUpdate).st = "ok"
  /\ NewData(NewTuple(r, toast), s, isUpdate).vals = Sent(r, toast)

LEMMA NewReads ==
  ASSUME NEW s \in Shapes, NEW r \in RowsOf(s), NEW toast, NEW isUpdate,
         toast = {} \/ isUpdate = TRUE
  PROVE  NewRead(s, r, toast, isUpdate)
<1> DEFINE t == TupleData(Sent(r, toast))
<1>1. s.cols \in Nat /\ ~(s.cols > s.cols) /\ <<>> \in Seq(Nat)
  BY RowValues
<1>2. Sent(r, toast) \in [1..s.cols -> 0..257]
  BY SentValues
<1>3. \A c \in 1..s.cols : Sent(r, toast)[c] = Toasted => isUpdate
  BY SentValues
<1>4. t \in Seq(Nat)
  BY <1>1, <1>2, TupleBytes
<1>5. /\ Parse(t \o <<>>, s, isUpdate).st = "ok"
      /\ Parse(t \o <<>>, s, isUpdate).vals = Sent(r, toast)
  <2>1. Reads(Parse(t \o <<>>, s, isUpdate), Sent(r, toast))
    BY <1>1, <1>2, <1>3, ParseReads, Zenon
  <2>2. QED
    BY <2>1 DEF Reads
<1>6. NewTuple(r, toast) = <<TagN>> \o t
  BY DEF NewTuple, Sent
<1> HIDE DEF t
<1>7. t \o <<>> = t
  BY <1>4
<1>8. /\ <<TagN>> \o t \in Seq(Nat) /\ <<TagN>> \o t # <<>>
      /\ (<<TagN>> \o t)[1] = TagN /\ Tail(<<TagN>> \o t) = t
  BY <1>4, TailOfTagged DEF TagN
<1>9. QED
  BY <1>5, <1>6, <1>7, <1>8 DEF NewData, NewRead

\* get_old_tuple_data reads a whole old row, and stops behind it.
LEMMA OldReads ==
  ASSUME NEW s \in Shapes, s.full, NEW r \in RowsOf(s), NEW rest \in Seq(Nat)
  PROVE  /\ OldTuple(s, r) \in Seq(Nat)
         /\ OldTuple(s, r) \o rest # <<>> /\ (OldTuple(s, r) \o rest)[1] = TagO
         /\ OldData(OldTuple(s, r) \o rest, s).st = "ok"
         /\ OldData(OldTuple(s, r) \o rest, s).vals = r
         /\ OldData(OldTuple(s, r) \o rest, s).pos = Len(OldTuple(s, r))
<1> DEFINE t == TupleData(r)
<1> DEFINE p == Parse(t \o rest, s, FALSE)
<1>1. s.cols \in Nat /\ ~(s.cols > s.cols) /\ r \in [1..s.cols -> 0..257]
  BY RowValues
<1>2. \A c \in 1..s.cols : r[c] = Toasted => FALSE
  <2>1. r \in [1..s.cols -> 0..256]
    BY RowValues
  <2>2. \A c \in 1..s.cols : r[c] \in 0..256
    BY <2>1
  <2>3. Toasted \notin 0..256
    BY DEF Toasted
  <2>4. QED
    BY <2>2, <2>3
<1>3. t \in Seq(Nat)
  BY <1>1, TupleType, ZenonT(30)
<1>4. p \in Accs /\ p.st = "ok" /\ p.vals = r /\ p.pos = Len(t)
  <2>1. Reads(p, r)
    BY <1>1, <1>2, ParseReads, Zenon
  <2>2. QED
    BY <2>1 DEF Reads
<1>5. OldTuple(s, r) = <<TagO>> \o t
  BY DEF OldTuple
<1> HIDE DEF t, p
<1> DEFINE data == OldTuple(s, r) \o rest
<1>6. data = <<TagO>> \o (t \o rest) /\ t \o rest \in Seq(Nat)
  <2>1. <<TagO>> \in Seq(Nat)
    BY DEF TagO
  <2>2. QED
    BY <1>3, <1>5, <2>1
<1>7. /\ data # <<>> /\ data[1] = TagO /\ Tail(data) = t \o rest
      /\ OldTuple(s, r) \in Seq(Nat) /\ Len(OldTuple(s, r)) = 1 + Len(t)
  BY <1>3, <1>5, <1>6, TailOfTagged DEF TagO
<1> HIDE DEF data
<1>8. OldData(data, s) = [p EXCEPT !.pos = @ + 1]
  BY <1>7 DEF OldData, p, TagO, TagK
<1>9. /\ OldData(data, s).st = "ok" /\ OldData(data, s).vals = r
      /\ OldData(data, s).pos = Len(t) + 1
  BY <1>4, <1>8 DEF Accs
<1>10. QED
  BY <1>3, <1>7, <1>9 DEF data

------------------------------------------------------------------------------
\* Of every message but one with a K tuple, the decoder makes the change that
\* the server described.

IsChange(s, ch) ==
  /\ ch.op \in {"insert", "update", "delete"}
  /\ ch.op # "insert" => ch.before \in RowsOf(s)
  /\ ch.op # "delete" => ch.after \in RowsOf(s)
  /\ ch.op # "update" => ch.toast = {}

\* No K tuple.
Plain(s, ch) == s.full \/ ch.op = "insert" \/ (ch.op = "update" /\ ~Moves(s, ch))

\* e holds what the server described, with the old row where there is one.
Says(e, s, ch) ==
  /\ e.old = IF s.full /\ ch.op # "insert" THEN ch.before ELSE <<>>
  /\ e.row = IF ch.op = "delete" THEN <<>> ELSE Sent(ch.after, ch.toast)

Exact(d, s, ch) == d.st = "ok" /\ Says(d, s, ch)

LEMMA DecodeExact ==
  ASSUME NEW s \in Shapes, NEW ch, IsChange(s, ch), Plain(s, ch)
  PROVE  Exact(DecodeChange(ch.op, Wire(s, ch), s), s, ch)
<1> DEFINE new == NewTuple(ch.after, ch.toast)
<1>1. CASE ch.op = "insert"
  <2>1. ch.after \in RowsOf(s) /\ ch.toast = {}
    BY <1>1 DEF IsChange
  <2>2. NewData(new, s, FALSE).st = "ok" /\ NewData(new, s, FALSE).vals = Sent(ch.after, ch.toast)
    <3>1. NewRead(s, ch.after, ch.toast, FALSE)
      BY <2>1, NewReads
    <3>2. QED
      BY <3>1 DEF NewRead
  <2>3. Wire(s, ch) = new
    BY <1>1, <2>1 DEF Wire
  <2> HIDE DEF new
  <2>4. QED
    BY <1>1, <2>2, <2>3 DEF Exact, Says, DecodeChange, ParseInsert
<1>2. CASE ch.op = "delete"
  <2> DEFINE old == OldTuple(s, ch.before)
  <2>1. s.full /\ ch.before \in RowsOf(s) /\ <<>> \in Seq(Nat)
    BY <1>2 DEF IsChange, Plain
  <2>2. old \in Seq(Nat) /\ OldData(old \o <<>>, s).st = "ok" /\ OldData(old \o <<>>, s).vals = ch.before
    BY <2>1, OldReads, ZenonT(30)
  <2>3. Wire(s, ch) = old
    BY <1>2 DEF Wire
  <2> HIDE DEF old
  <2>4. old \o <<>> = old
    BY <2>2
  <2>5. QED
    BY <1>2, <2>1, <2>2, <2>3, <2>4 DEF Exact, Says, DecodeChange, ParseDelete
<1>3. CASE ch.op = "update"
  <2> DEFINE old == OldTuple(s, ch.before)
  <2>1. ch.before \in RowsOf(s) /\ ch.after \in RowsOf(s)
    BY <1>3 DEF IsChange
  <2>2. /\ new \in Seq(Nat) /\ new # <<>> /\ new[1] = TagN
        /\ NewData(new, s, TRUE).st = "ok"
        /\ NewData(new, s, TRUE).vals = Sent(ch.after, ch.toast)
    <3>1. NewRead(s, ch.after, ch.toast, TRUE)
      BY <2>1, NewReads
    <3>2. QED
      BY <3>1 DEF NewRead
  <2>3. CASE ~s.full
    <3>1. Wire(s, ch) = <<>> \o new
      BY <1>3, <2>3 DEF Plain, Wire
    <3> HIDE DEF new
    <3>2. /\ Wire(s, ch) = new /\ Len(new) \in Nat
          /\ SubSeq(new, 0 + 1, Len(new)) = new
      BY <2>2, <3>1
    <3>3. DecodeChange(ch.op, Wire(s, ch), s)
            = [st |-> "ok", old |-> <<>>, row |-> Sent(ch.after, ch.toast)]
      <4>1. DecodeChange(ch.op, Wire(s, ch), s) = ParseUpdate(new, s)
        BY <1>3, <3>2 DEF DecodeChange
      <4>2. NewData(SubSeq(new, 0 + 1, Len(new)), s, TRUE) = NewData(new, s, TRUE)
        BY <3>2
      <4>3. ~(0 > Len(new))
        BY <3>2
      <4>4. QED
        BY <2>2, <4>1, <4>2, <4>3 DEF ParseUpdate
    <3>4. QED
      BY <1>3, <2>3, <3>3 DEF Exact, Says
  <2>4. CASE s.full
    <3>1. Wire(s, ch) = old \o new
      BY <1>3, <2>4 DEF Wire
    <3>2. /\ old \in Seq(Nat)
          /\ old \o new # <<>> /\ (old \o new)[1] = TagO
          /\ OldData(old \o new, s).st = "ok"
          /\ OldData(old \o new, s).vals = ch.before
          /\ OldData(old \o new, s).pos = Len(old)
      BY <2>1, <2>2, <2>4, OldReads
    <3> HIDE DEF new, old
    <3>3. SubSeq(old \o new, Len(old) + 1, Len(old \o new)) = new
      <4> DEFINE w == SubSeq(old \o new, Len(old) + 1, Len(old \o new))
      <4>1. /\ w \in Seq(Nat) /\ Len(w) = Len(new)
            /\ \A i \in 1..Len(w) : w[i] = new[i]
        BY <2>2, <3>2
      <4> HIDE DEF w
      <4>2. QED
        BY <2>2, <4>1, SeqEqual DEF w
    <3>4. ~(Len(old) > Len(old \o new)) /\ TagO # TagN
      BY <2>2, <3>2 DEF TagO, TagN
    <3>5. DecodeChange(ch.op, Wire(s, ch), s)
            = [st |-> "ok", old |-> ch.before, row |-> Sent(ch.after, ch.toast)]
      BY <1>3, <2>2, <3>1, <3>2, <3>3, <3>4 DEF DecodeChange, ParseUpdate
    <3>6. QED
      BY <1>3, <2>4, <3>5 DEF Exact, Says
  <2>5. QED
    BY <2>3, <2>4
<1>4. QED
  BY <1>1, <1>2, <1>3 DEF IsChange

------------------------------------------------------------------------------
\* merge_toasted, where the event has the old row or nothing is toasted.

Fits(s, ch) ==
  /\ ch.op = "update" => /\ ch.toast \subseteq 1..s.cols
                         /\ \A c \in ch.toast : /\ c \notin ToSet(s.pk)
                                                /\ ch.before[c] = ch.after[c]

LEMMA MergeExact ==
  ASSUME NEW s \in Shapes, NEW ch, IsChange(s, ch), Fits(s, ch), ch.op # "delete",
         NEW e, e.row = Sent(ch.after, ch.toast),
         ch.toast # {} => e.old = ch.before
  PROVE  MergeToasted(e).ok /\ MergeToasted(e).row = ch.after
<1>1. s.cols \in Nat /\ ch.after \in [1..s.cols -> Values \cup {Null}]
  BY RowValues DEF IsChange
<1>2. /\ DOMAIN e.row = 1..s.cols
      /\ \A c \in 1..s.cols : e.row[c] = IF c \in ch.toast THEN Toasted ELSE ch.after[c]
  BY <1>1 DEF Sent
<1>3. \A c \in 1..s.cols : e.row[c] = Toasted <=> c \in ch.toast
  BY SentValues DEF IsChange
<1>4. \A c \in ch.toast : /\ c \in 1..s.cols /\ c <= Len(e.old)
                          /\ e.old[c] = ch.after[c]
  <2>1. SUFFICES ASSUME NEW c \in ch.toast
                 PROVE  c \in 1..s.cols /\ c <= Len(e.old) /\ e.old[c] = ch.after[c]
    OBVIOUS
  <2>2. ch.op = "update" /\ e.old = ch.before
    BY DEF IsChange
  <2>3. c \in 1..s.cols /\ ch.before[c] = ch.after[c]
    BY <2>2 DEF Fits
  <2>4. ch.before \in [1..s.cols -> Values \cup {Null}]
    BY <2>2, RowValues DEF IsChange
  <2>5. Len(ch.before) = s.cols
    BY <1>1, <2>4
  <2>6. QED
    BY <1>1, <2>2, <2>3, <2>5
<1> DEFINE toasted == {c \in DOMAIN e.row : e.row[c] = Toasted}
<1>5. toasted = {c \in 1..s.cols : c \in ch.toast}
  BY <1>2, <1>3
<1>6. MergeToasted(e).ok
  BY <1>4, <1>5 DEF MergeToasted
<1> DEFINE merged == [c \in DOMAIN e.row |->
                        IF c \in toasted /\ c <= Len(e.old) THEN e.old[c] ELSE e.row[c]]
<1>7. \A c \in 1..s.cols : merged[c] = ch.after[c]
  BY <1>2, <1>4, <1>5
<1>8. merged = ch.after
  BY <1>1, <1>2, <1>7
<1>9. MergeToasted(e).row = merged
  BY DEF MergeToasted
<1>10. QED
  BY <1>6, <1>8, <1>9

------------------------------------------------------------------------------
\* Feldera's table after one or two operations.

LEMMA IngestSteps ==
  ASSUME NEW s, NEW t, NEW n \in Nat, NEW ops, DOMAIN ops = 1..n
  PROVE  /\ n = 1 => IngestAll(s, t, ops) = Ingest(s, t, ops[1])
         /\ n = 2 => IngestAll(s, t, ops) = Ingest(s, Ingest(s, t, ops[1]), ops[2])
<1> DEFINE X == SUBSET (t \cup {ops[k].val : k \in 1..n})
<1> DEFINE step == [p \in X \X (1..n) |-> Ingest(s, p[1], ops[p[2]])]
<1> DEFINE Iter(h) == h = [S \in SUBSET (1..n) |->
                             IF S = {} THEN t
                             ELSE Ingest(s, h[S \ {Max(S)}], ops[Max(S)])]
<1> DEFINE h == CHOOSE h : Iter(h)
<1>1. t \in X
  OBVIOUS
<1>2. ASSUME NEW u \in X, NEW k \in 1..n PROVE Ingest(s, u, ops[k]) \in X
  <2>1. ops[k].val \in {ops[j].val : j \in 1..n}
    OBVIOUS
  <2>2. QED
    BY <2>1 DEF Ingest
<1> HIDE DEF X
<1>3. \A u \in X, k \in 1..n : step[<<u, k>>] = Ingest(s, u, ops[k]) /\ step[<<u, k>>] \in X
  BY <1>2
<1>4. PICK g : IsFold(g, X, n, t, step)
  <2> HIDE DEF step
  <2>1. QED
    BY <1>1, <1>3, IterExists, Zenon
<1>5. Iter(g)
  <2>1. ASSUME NEW S \in SUBSET (1..n), S # {}
        PROVE  step[<<g[S \ {Max(S)}], Max(S)>>] = Ingest(s, g[S \ {Max(S)}], ops[Max(S)])
    <3>1. Max(S) \in 1..n /\ g[S \ {Max(S)}] \in X
      BY <1>4, <2>1, MaxInSet DEF IsFold
    <3> HIDE DEF step
    <3>2. QED
      BY <1>3, <3>1
  <2> HIDE DEF step
  <2>2. QED
    BY <1>4, <2>1 DEF IsFold
<1>6. Iter(h)
  BY <1>5
<1>7. IngestAll(s, t, ops) = h[1..n]
  BY DEF IngestAll, FoldLeft, MapThenFoldSet
<1> HIDE DEF h
<1>8. h[{}] = t /\ 1..0 = {}
  BY <1>6
<1>9. ASSUME NEW c \in 1..n PROVE h[1..c] = Ingest(s, h[1..(c - 1)], ops[c])
  <2>1. 1..c \in SUBSET (1..n) /\ 1..c # {} /\ c \in Nat \ {0}
    <3>1. c \in Nat /\ 1 <= c /\ c <= n
      OBVIOUS
    <3>2. 1 \in 1..c /\ \A i \in 1..c : i \in 1..n
      BY <3>1
    <3>3. (1..c) \subseteq (1..n) /\ 1..c # {}
      BY <3>2, Zenon
    <3>4. QED
      BY <3>1, <3>3
  <2>2. Max(1..c) = c /\ (1..c) \ {c} = 1..(c - 1)
    BY <2>1, MaxOfUpTo
  <2>3. QED
    BY <1>6, <2>1, <2>2
<1>10. 1 \in 1..n => h[1..1] = Ingest(s, t, ops[1])
  <2>1. 1 - 1 = 0
    OBVIOUS
  <2>2. QED
    BY <1>8, <1>9, <2>1
<1>11. 2 \in 1..n => h[1..2] = Ingest(s, h[1..1], ops[2])
  <2>1. 2 - 1 = 1
    OBVIOUS
  <2>2. QED
    BY <1>9, <2>1
<1> HIDE DEF Iter
<1>12. ASSUME n = 1 PROVE IngestAll(s, t, ops) = Ingest(s, t, ops[1])
  <2>1. 1 \in 1..n /\ h[1..n] = h[1..1]
    BY <1>12
  <2>2. QED
    BY <1>7, <1>10, <2>1
<1>13. ASSUME n = 2 PROVE IngestAll(s, t, ops) = Ingest(s, Ingest(s, t, ops[1]), ops[2])
  <2>1. 1 \in 1..n /\ 2 \in 1..n /\ h[1..n] = h[1..2]
    BY <1>13
  <2>2. QED
    BY <1>7, <1>10, <1>11, <2>1
<1>14. QED
  BY <1>12, <1>13

------------------------------------------------------------------------------
\* What every state of one change has: the change is one that can happen to the
\* source's rows.  rows' keys differ, and both of change's rows fit in among them.

Gone(ch)  == IF ch.op \in {"update", "delete"} THEN {ch.before} ELSE {}
Fitting(s, t, ch) ==
  /\ IsChange(s, ch) /\ Fits(s, ch)
  /\ Gone(ch) \subseteq t
  /\ ch.op # "delete" => \A q \in t \ Gone(ch) : ~SameKey(s, ch.after, q)

RowInv ==
  /\ shape \in Shapes /\ rows \subseteq RowsOf(shape)
  /\ \A r, q \in rows : r # q => ~SameKey(shape, r, q)
  /\ (change = NoChange /\ decoded = "no") \/ Fitting(shape, rows, change)

\* What the decoder has made of it, unless that was from a K tuple.
DecodedExactly ==
  decoded # "no" /\ Plain(shape, change) =>
    /\ decoded = "event" /\ event.op = change.op
    /\ Says(event, shape, change)

\* Feldera's table, which gets a change under FULL.
MirrorInv ==
  /\ (fel = "none" /\ mirror = rows) \/ (fel = "ok" /\ mirror = After)
  /\ fel = "ok" => shape.full /\ decoded = "event"

LEMMA KeyColumns ==
  ASSUME NEW s \in Shapes
  PROVE  ToSet(s.pk) # {} /\ ToSet(s.pk) \subseteq 1..s.cols
<1>1. s.pk \in Seq(1..s.cols) /\ s.pk # <<>>
  BY ShapesAssumption
<1> DEFINE pk == s.pk
<1> HIDE DEF pk
<1>2. 1 \in DOMAIN pk /\ \A i \in DOMAIN pk : pk[i] \in 1..s.cols
  <2>1. ASSUME NEW A, NEW q \in Seq(A), q # <<>>
        PROVE  1 \in DOMAIN q /\ \A i \in DOMAIN q : q[i] \in A
    BY <2>1
  <2>2. pk \in Seq(1..s.cols) /\ pk # <<>>
    BY <1>1 DEF pk
  <2>3. QED
    BY <2>1, <2>2
<1>3. QED
  BY <1>2 DEF ToSet, pk

\* Other is a row of every table that has one.
LEMMA OtherIsRow ==
  ASSUME shape \in Shapes, NEW r \in RowsOf(shape)
  PROVE  Other \in RowsOf(shape)
<1>1. PICK c \in ToSet(shape.pk) : c \in 1..shape.cols
  BY KeyColumns
<1>2. r[c] \in Values
  <2>1. r \in [1..shape.cols -> Values \cup {Null}] /\ r[c] # Null
    BY <1>1 DEF RowsOf
  <2>2. QED
    BY <1>1, <2>1
<1>3. (CHOOSE v \in Values : TRUE) \in Values
  BY <1>2
<1>4. Null \notin Values
  BY ShapesAssumption
<1> DEFINE any == CHOOSE v \in Values : TRUE
<1> HIDE DEF any
<1>5. [d \in 1..shape.cols |-> any] \in RowsOf(shape)
  <2>1. any \in Values /\ any # Null
    BY <1>3, <1>4 DEF any
  <2>2. \A d \in ToSet(shape.pk) : d \in 1..shape.cols
    BY KeyColumns
  <2>3. QED
    BY <2>1, <2>2 DEF RowsOf
<1>6. QED
  BY <1>5 DEF Other, any

LEMMA RowInit == Init => RowInv
<1> SUFFICES ASSUME Init PROVE RowInv
  OBVIOUS
<1>1. shape \in Shapes /\ change = NoChange /\ decoded = "no"
  BY DEF Init
<1>2. rows \subseteq RowsOf(shape)
  <2>1. CASE rows = {}
    BY <2>1
  <2>2. CASE \E r \in RowsOf(shape) : rows = {r, Other}
    BY <1>1, <2>2, OtherIsRow
  <2>3. QED
    BY <2>1, <2>2 DEF Init
<1>3. QED
  BY <1>1, <1>2 DEF Init, RowInv

\* A change that happens is one that fits.
LEMMA ChangeFits ==
  ASSUME RowInv, Change
  PROVE  Fitting(shape, rows, change')
<1> USE DEF RowInv, Fitting, IsChange, Fits, Gone
<1>1. ASSUME NEW r \in RowsOf(shape), Insert(r) PROVE Fitting(shape, rows, change')
  <2>1. /\ change'.op = "insert" /\ change'.after = r /\ change'.toast = {}
        /\ \A q \in rows : ~SameKey(shape, r, q)
    BY <1>1 DEF Insert, Fresh
  <2>2. QED
    BY <1>1, <2>1
<1>2. ASSUME NEW r \in rows, Delete(r) PROVE Fitting(shape, rows, change')
  <2>1. change'.op = "delete" /\ change'.before = r /\ change'.toast = {}
    BY <1>2 DEF Delete
  <2>2. QED
    BY <1>2, <2>1
<1>3. ASSUME NEW r \in rows, NEW q \in RowsOf(shape), Update(r, q)
      PROVE  Fitting(shape, rows, change')
  <2>1. PICK toast \in SUBSET {c \in 1..shape.cols \ ToSet(shape.pk) :
                                 r[c] = q[c] /\ r[c] # Null} :
          change' = [op |-> "update", before |-> r, after |-> q, toast |-> toast]
    BY <1>3 DEF Update
  <2>2. /\ change'.op = "update" /\ change'.before = r /\ change'.after = q
        /\ change'.toast = toast /\ Gone(change') = {r}
    BY <2>1
  <2>3. /\ toast \subseteq 1..shape.cols
        /\ \A c \in toast : c \notin ToSet(shape.pk) /\ r[c] = q[c]
    OBVIOUS
  <2>4. \A p \in rows \ {r} : ~SameKey(shape, q, p)
    BY <1>3 DEF Update, Fresh
  <2>5. r \in RowsOf(shape)
    OBVIOUS
  <2> HIDE DEF Gone
  <2>6. QED
    BY <1>3, <2>2, <2>3, <2>4, <2>5
<1>4. QED
  BY <1>1, <1>2, <1>3 DEF Change

LEMMA RowStep == ASSUME RowInv, [Next]_vars PROVE RowInv'
<1>1. CASE Change
  <2>1. Fitting(shape, rows, change') /\ shape' = shape /\ rows' = rows
    BY <1>1, ChangeFits DEF Change
  <2>2. QED
    BY <2>1 DEF RowInv, Fitting, Gone
<1>2. CASE Decode
  <2>1. shape' = shape /\ rows' = rows /\ change' = change /\ change # NoChange
    BY <1>2 DEF Decode
  <2>2. QED
    BY <2>1 DEF RowInv
<1>3. CASE OnEventPostgres \/ OnEventFeldera \/ UNCHANGED vars
  <2>1. shape' = shape /\ rows' = rows /\ change' = change /\ decoded' = decoded
    BY <1>3 DEF OnEventPostgres, OnEventFeldera, vars
  <2>2. QED
    BY <2>1 DEF RowInv
<1>4. QED
  BY <1>1, <1>2, <1>3 DEF Next

LEMMA DecodedStep ==
  ASSUME RowInv, DecodedExactly, [Next]_vars PROVE DecodedExactly'
<1>1. CASE Change
  <2>1. decoded' = "no"
    BY <1>1 DEF Change, RowInv, Fitting, IsChange, NoChange
  <2>2. QED
    BY <2>1 DEF DecodedExactly
<1>2. CASE Decode
  <2>1. shape' = shape /\ change' = change /\ change # NoChange
    BY <1>2 DEF Decode
  <2> DEFINE d == DecodeChange(change.op, Wire(shape, change), shape)
  <2>2. SUFFICES ASSUME Plain(shape, change)
                 PROVE  decoded' = "event" /\ event'.op = change.op /\ Says(event', shape, change)
    BY <2>1 DEF DecodedExactly
  <2>3. d.st = "ok" /\ Says(d, shape, change)
    <3>1. shape \in Shapes /\ IsChange(shape, change)
      BY <2>1 DEF RowInv, Fitting
    <3>2. QED
      BY <2>2, <3>1, DecodeExact DEF Exact
  <2>4. decoded' = "event" /\ event' = [op |-> change.op, old |-> d.old, row |-> d.row]
    <3> HIDE DEF d
    <3>1. /\ decoded' = CASE d.st = "ok" -> "event"
                          [] d.st = "panic" -> "panicked"
                          [] OTHER -> "dropped"
          /\ event' = IF d.st = "ok" THEN [op |-> change.op, old |-> d.old, row |-> d.row]
                      ELSE NoEvent
      BY <1>2 DEF Decode, d
    <3>2. QED
      BY <2>3, <3>1
  <2> HIDE DEF d
  <2>5. QED
    BY <2>3, <2>4 DEF Says
<1>3. CASE OnEventPostgres \/ OnEventFeldera \/ UNCHANGED vars
  <2>1. shape' = shape /\ event' = event /\ change' = change /\ decoded' = decoded
    BY <1>3 DEF OnEventPostgres, OnEventFeldera, vars
  <2>2. QED
    BY <2>1 DEF DecodedExactly
<1>4. QED
  BY <1>1, <1>2, <1>3 DEF Next

\* What the decoder publishes is what the server described: for every table,
\* whatever its columns' number and its rows' values, nulls and toasted columns
\* included, an event is made of every change, and it has the operation, the row
\* and, under FULL, the old row of that change.  Only changes that come with a K
\* tuple, the keys of the old row, are not of these (tuple_data::parse,
\* get_old_tuple_data, get_new_tuple_data, insert::parse, update::parse,
\* delete::parse, send_to_producer).
THEOREM DecodesExactly == Spec => []DecodedExactly
<1>1. Init => RowInv /\ DecodedExactly
  <2>1. Init => DecodedExactly
    BY DEF Init, DecodedExactly
  <2>2. QED
    BY <2>1, RowInit
<1>2. RowInv /\ DecodedExactly /\ [Next]_vars => (RowInv /\ DecodedExactly)'
  BY RowStep, DecodedStep
<1>3. QED
  BY <1>1, <1>2, PTL DEF Spec

------------------------------------------------------------------------------
\* Feldera's table, delivered to once or again.

LEMMA SameKeyOfItself == \A s, r : SameKey(s, r, r)
BY DEF SameKey

\* A table is as before the change or as after it; either way, the operations
\* of the change leave it as after.
LEMMA IngestChange ==
  ASSUME RowInv, Fitting(shape, rows, change), NEW t, t = rows \/ t = After,
         NEW e, e.op = change.op, e.op # "insert" => e.old = change.before
  PROVE  IngestAll(shape, t, ConvertOps(e, change.after)) = After
<1> DEFINE ops == ConvertOps(e, change.after)
<1>1. \A q \in rows : SameKey(shape, q, change.before) /\ change.before \in rows
                        => q = change.before
  BY DEF RowInv
<1>2. \A q \in rows \ Gone(change) : change.op # "delete" =>
         ~SameKey(shape, q, change.after)
  BY DEF Fitting, SameKey
<1>3. CASE change.op = "insert"
  <2>1. ops = << [op |-> "insert", val |-> change.after] >>
    BY <1>3 DEF ConvertOps
  <2>2. DOMAIN ops = 1..1 /\ ops[1].op = "insert" /\ ops[1].val = change.after
    BY <2>1
  <2>3. IngestAll(shape, t, ops) = Ingest(shape, t, ops[1])
    BY <2>2, IngestSteps
  <2> HIDE DEF ops
  <2>4. Ingest(shape, t, ops[1]) = {q \in t : ~SameKey(shape, q, change.after)} \cup {change.after}
    BY <2>2 DEF Ingest
  <2>5. After = rows \cup {change.after} /\ Gone(change) = {}
    BY <1>3 DEF After, Gone
  <2>6. {q \in t : ~SameKey(shape, q, change.after)} \cup {change.after} = After
    BY <1>2, <1>3, <2>5, SameKeyOfItself
  <2>7. QED
    BY <2>3, <2>4, <2>6 DEF ops
<1>4. CASE change.op = "delete"
  <2>1. ops = << [op |-> "delete", val |-> change.before] >>
    BY <1>4 DEF ConvertOps
  <2>2. DOMAIN ops = 1..1 /\ ops[1].op = "delete" /\ ops[1].val = change.before
    BY <2>1
  <2>3. IngestAll(shape, t, ops) = Ingest(shape, t, ops[1])
    BY <2>2, IngestSteps
  <2> HIDE DEF ops
  <2>4. Ingest(shape, t, ops[1]) = {q \in t : ~SameKey(shape, q, change.before)}
    BY <2>2 DEF Ingest
  <2>5. After = rows \ {change.before} /\ change.before \in rows
    BY <1>4 DEF After, Gone, Fitting
  <2>6. {q \in t : ~SameKey(shape, q, change.before)} = After
    BY <1>1, <2>5, SameKeyOfItself
  <2>7. QED
    BY <2>3, <2>4, <2>6 DEF ops
<1>5. CASE change.op = "update"
  <2>1. ops = << [op |-> "delete", val |-> change.before],
                 [op |-> "insert", val |-> change.after] >>
    BY <1>5 DEF ConvertOps
  <2>2. /\ DOMAIN ops = 1..2 /\ ops[1].op = "delete" /\ ops[1].val = change.before
        /\ ops[2].op = "insert" /\ ops[2].val = change.after
    BY <2>1
  <2>3. IngestAll(shape, t, ops) = Ingest(shape, Ingest(shape, t, ops[1]), ops[2])
    BY <2>2, IngestSteps
  <2> HIDE DEF ops
  <2> DEFINE left == {q \in t : ~SameKey(shape, q, change.before)}
  <2>4. Ingest(shape, t, ops[1]) = left
    BY <2>2 DEF Ingest
  <2>5. Ingest(shape, left, ops[2])
          = {q \in left : ~SameKey(shape, q, change.after)} \cup {change.after}
    BY <2>2 DEF Ingest
  <2>6. /\ After = (rows \ {change.before}) \cup {change.after}
        /\ change.before \in rows /\ Gone(change) = {change.before}
    BY <1>5 DEF After, Gone, Fitting
  <2>7. \A q \in rows \ {change.before} : q \in t /\ ~SameKey(shape, q, change.before)
                                             /\ ~SameKey(shape, q, change.after)
    BY <1>1, <1>2, <1>5, <2>6
  <2>8. \A q \in left : q \in rows \ {change.before} \/ q = change.after
    BY <2>6, SameKeyOfItself
  <2>9. {q \in left : ~SameKey(shape, q, change.after)} \cup {change.after} = After
    BY <2>6, <2>7, <2>8
  <2>10. QED
    BY <2>3, <2>4, <2>5, <2>9 DEF ops
<1>6. QED
  BY <1>3, <1>4, <1>5 DEF Fitting, IsChange

LEMMA MirrorStep ==
  ASSUME RowInv, DecodedExactly, MirrorInv, [Next]_vars PROVE MirrorInv'
<1>1. CASE Change
  <2>1. decoded = "no" /\ fel' = fel /\ mirror' = mirror /\ rows' = rows
    BY <1>1 DEF Change, RowInv, Fitting, IsChange, NoChange
  <2>2. QED
    BY <2>1 DEF MirrorInv
<1>2. CASE Decode
  <2>1. decoded = "no" /\ fel' = fel /\ mirror' = mirror /\ rows' = rows
    BY <1>2 DEF Decode
  <2>2. QED
    BY <2>1 DEF MirrorInv
<1>3. CASE OnEventPostgres \/ UNCHANGED vars
  <2>1. /\ fel' = fel /\ mirror' = mirror /\ rows' = rows /\ change' = change
        /\ shape' = shape /\ decoded' = decoded
    BY <1>3 DEF OnEventPostgres, vars
  <2>2. After' = After
    BY <2>1 DEF After
  <2>3. QED
    BY <2>1, <2>2 DEF MirrorInv
<1>4. CASE OnEventFeldera
  <2>1. /\ rows' = rows /\ change' = change /\ shape' = shape /\ decoded' = decoded
        /\ decoded = "event" /\ shape.full
    BY <1>4 DEF OnEventFeldera, Delivered
  <2>2. shape \in Shapes /\ Fitting(shape, rows, change) /\ IsChange(shape, change)
        /\ Fits(shape, change)
    BY <2>1 DEF RowInv, Fitting
  <2>3. event.op = change.op /\ Says(event, shape, change)
    BY <2>1, <2>2 DEF DecodedExactly, Plain
  <2> DEFINE merged == MergeToasted(event)
  <2>4. merged.ok /\ (change.op # "delete" => merged.row = change.after)
    <3>1. CASE change.op = "delete"
      <4>1. event.row = <<>>
        BY <2>3, <3>1 DEF Says
      <4>2. QED
        BY <3>1, <4>1 DEF MergeToasted
    <3>2. CASE change.op # "delete"
      <4>1. event.row = Sent(change.after, change.toast)
        BY <2>3, <3>2 DEF Says
      <4>2. change.toast # {} => event.old = change.before
        BY <2>1, <2>2, <2>3 DEF Says, IsChange
      <4>3. QED
        BY <2>2, <3>2, <4>1, <4>2, MergeExact
    <3>3. QED
      BY <3>1, <3>2
  <2>5. event.op # "insert" => event.old = change.before
    BY <2>1, <2>3 DEF Says
  <2> HIDE DEF merged
  <2>6. ConvertOps(event, merged.row) = ConvertOps(event, change.after)
    BY <2>2, <2>3, <2>4 DEF ConvertOps, IsChange
  <2>7. IngestAll(shape, mirror, ConvertOps(event, change.after)) = After
    <3>1. mirror = rows \/ mirror = After
      BY DEF MirrorInv
    <3>2. QED
      BY <2>2, <2>3, <2>5, <3>1, IngestChange
  <2>8. fel' = "ok" /\ mirror' = After
    BY <1>4, <2>4, <2>6, <2>7 DEF OnEventFeldera, merged
  <2>9. After' = After
    BY <2>1 DEF After
  <2>10. QED
    BY <2>1, <2>8, <2>9 DEF MirrorInv
<1>5. QED
  BY <1>1, <1>2, <1>3, <1>4 DEF Next

\* Under REPLICA IDENTITY FULL, whatever the table and the change, a moved row or
\* toasted values included, Feldera's table is the source's after every delivery
\* of the event, the first or another (convert_op_batches, merge_toasted).
THEOREM MirrorsUnderFull == Spec => []FelderaMirrors
<1>1. Init => RowInv /\ DecodedExactly /\ MirrorInv
  <2>1. Init => DecodedExactly /\ MirrorInv
    BY DEF Init, DecodedExactly, MirrorInv
  <2>2. QED
    BY <2>1, RowInit
<1>2. RowInv /\ DecodedExactly /\ MirrorInv /\ [Next]_vars
        => (RowInv /\ DecodedExactly /\ MirrorInv)'
  BY RowStep, DecodedStep, MirrorStep
<1>3. MirrorInv => FelderaMirrors
  BY DEF MirrorInv, FelderaMirrors
<1>4. QED
  BY <1>1, <1>2, <1>3, PTL DEF Spec

==============================================================================
