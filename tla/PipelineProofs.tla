---------------------------- MODULE PipelineProofs ----------------------------
(* Theorems about Pipeline: first what the topics hold of the log and how they *)
(* grow with it, then the log's order across sessions, then the connector's   *)
(* invariant over topics that the producer writes to, and last both together. *)
EXTENDS Pipeline, CdcProducerProofs, DataLemmas

SP == INSTANCE CdcSinkProofs WITH
        Tables <- Relations, Feed <- FeedOf(<<>>), Arity <- <<1>>,
        phase <- sinkPhase, crashes <- sinkCrashes, MaxCrashes <- MaxSinkCrashes

Sourced(b) == \A c \in ToSet(b.events) : c[1] \in Txns /\ c \in ChangesOf(c[1])

\* What a topic gets of each batch.
Part(b, p) == IF p = "relations" THEN RelationsOf(b) ELSE EventsOf(b, p)

Sound(e) == e.op = "delete" => e.old = e.key
Events == {e \in S!EventRecs : Sound(e)}

LEMMA EventOfType ==
  ASSUME NEW t \in Txns, NEW c \in ChangesOf(t)
  PROVE  EventOf(c) \in Events
<1>1. S!Schemas = {1}
  BY DEF S!Schemas
<1>2. QED
  BY <1>1, EffectsAssumption DEF Events, S!EventRecs, EventOf, Sound

\* What a topic gets of each change of a batch.
Pieces(b, r) ==
  [n \in DOMAIN b.events |->
     IF Rel(b.events[n]) = r THEN <<EventOf(b.events[n])>> ELSE <<>>]

LEMMA PiecesType ==
  ASSUME NEW b \in Batch, Sourced(b), NEW r
  PROVE  /\ Len(b.events) \in Nat /\ DOMAIN b.events = 1..Len(b.events)
         /\ Pieces(b, r) \in [1..Len(b.events) -> Seq(Events)]
         /\ EventsOf(b, r) = FlattenSeq(Pieces(b, r))
         /\ \A n \in DOMAIN b.events : \A i \in 1..Len(Pieces(b, r)[n]) :
              /\ Rel(b.events[n]) = r
              /\ Pieces(b, r)[n][i] = EventOf(b.events[n])
         /\ \A n \in DOMAIN b.events : Rel(b.events[n]) = r =>
              /\ 1 \in 1..Len(Pieces(b, r)[n])
              /\ Pieces(b, r)[n][1] = EventOf(b.events[n])
<1>1. Len(b.events) \in Nat /\ DOMAIN b.events = 1..Len(b.events)
  BY EventsType
<1>2. ASSUME NEW n \in DOMAIN b.events
      PROVE  /\ Pieces(b, r)[n] \in Seq(Events)
             /\ \A i \in 1..Len(Pieces(b, r)[n]) :
                  Rel(b.events[n]) = r /\ Pieces(b, r)[n][i] = EventOf(b.events[n])
             /\ Rel(b.events[n]) = r =>
                  /\ 1 \in 1..Len(Pieces(b, r)[n])
                  /\ Pieces(b, r)[n][1] = EventOf(b.events[n])
  <2>1. b.events[n] \in ToSet(b.events)
    BY DEF ToSet
  <2>2. EventOf(b.events[n]) \in Events
    BY <2>1, EventOfType DEF Sourced
  <2>3. Pieces(b, r)[n] = IF Rel(b.events[n]) = r THEN <<EventOf(b.events[n])>>
                          ELSE <<>>
    BY DEF Pieces
  <2>4. QED
    BY <2>2, <2>3
<1>3. Pieces(b, r) \in [1..Len(b.events) -> Seq(Events)]
  <2>1. Pieces(b, r) = [n \in DOMAIN b.events |-> Pieces(b, r)[n]]
    BY DEF Pieces
  <2>2. QED
    BY <1>1, <1>2, <2>1
<1>4. EventsOf(b, r) = FlattenSeq(Pieces(b, r))
  BY DEF EventsOf, Pieces
<1>5. QED
  BY <1>1, <1>2, <1>3, <1>4

LEMMA EventsOfType ==
  ASSUME NEW b \in Batch, Sourced(b), NEW r
  PROVE  EventsOf(b, r) \in Seq(Events)
<1>1. /\ Len(b.events) \in Nat
      /\ Pieces(b, r) \in [1..Len(b.events) -> Seq(Events)]
      /\ EventsOf(b, r) = FlattenSeq(Pieces(b, r))
  BY PiecesType
<1>2. FlattenSeq(Pieces(b, r)) \in Seq(Events)
  BY <1>1, FlattenPlaces, Zenon
<1>3. QED
  BY <1>1, <1>2

LEMMA RelationsOfType ==
  ASSUME NEW b, b.rels \subseteq Relations
  PROVE  RelationsOf(b) \in Seq(S!RelationRecs)
<1>1. IsFiniteSet(b.rels)
  BY RelationsAssumption, FS_Subset
<1>2. SetToSeq(b.rels) \in Seq(b.rels)
  BY <1>1, SetToSeqType
<1>3. S!Schemas = {1}
  BY DEF S!Schemas
<1> DEFINE rels == SetToSeq(b.rels)
<1>4. Len(rels) \in Nat /\ DOMAIN rels = 1..Len(rels) /\ \A i \in DOMAIN rels : rels[i] \in Relations
  BY <1>2
<1> HIDE DEF rels
<1>5. [n \in DOMAIN rels |-> [table |-> rels[n], schema |-> 1]] \in Seq(S!RelationRecs)
  BY <1>3, <1>4 DEF S!RelationRecs
<1>6. QED
  BY <1>5 DEF RelationsOf, rels

------------------------------------------------------------------------------
(* What FeedOf makes of a log.                                               *)

FromSource(L) == L \in Seq(Batch) /\ \A n \in DOMAIN L : Sourced(L[n])

\* What the records of a topic are.
RecsOf(p) == IF p = "relations" THEN S!RelationRecs ELSE Events

FeedTopics == Relations \cup {"relations"}

\* What each batch of L puts into topic p.
Parts(L, p) == [n \in 1..Len(L) |-> Part(L[n], p)]

LEMMA PartsType ==
  ASSUME NEW L, FromSource(L), NEW p \in FeedTopics
  PROVE  /\ Len(L) \in Nat /\ DOMAIN L = 1..Len(L)
         /\ Parts(L, p) \in [1..Len(L) -> Seq(RecsOf(p))]
         /\ FeedOf(L)[p] = FlattenSeq(Parts(L, p))
<1>1. Len(L) \in Nat /\ DOMAIN L = 1..Len(L) /\ L \in Seq(Batch)
  BY DEF FromSource
<1>2. ASSUME NEW n \in 1..Len(L) PROVE Part(L[n], p) \in Seq(RecsOf(p))
  <2>1. L[n] \in Batch /\ Sourced(L[n])
    BY <1>1 DEF FromSource
  <2>2. CASE p = "relations"
    <3>1. L[n].rels \subseteq Relations
      BY <2>1 DEF Batch
    <3>2. QED
      BY <2>2, <3>1, RelationsOfType DEF Part, RecsOf
  <2>3. CASE p # "relations"
    <3>1. EventsOf(L[n], p) \in Seq(Events)
      BY <2>1, EventsOfType
    <3>2. QED
      BY <2>3, <3>1 DEF Part, RecsOf
  <2>4. QED
    BY <2>2, <2>3
<1>3. Parts(L, p) \in [1..Len(L) -> Seq(RecsOf(p))]
  BY <1>2 DEF Parts
<1>4. FeedOf(L)[p] = FlattenSeq(Parts(L, p))
  BY <1>1 DEF FeedOf, Parts, Part, FeedTopics
<1>5. QED
  BY <1>1, <1>3, <1>4

LEMMA FeedIsFeed ==
  ASSUME NEW L, FromSource(L)
  PROVE  /\ SP!IsFeed(FeedOf(L))
         /\ \A p \in FeedTopics : FeedOf(L)[p] \in Seq(RecsOf(p))
<1>1. \A p \in FeedTopics : FeedOf(L)[p] \in Seq(RecsOf(p))
  <2>1. ASSUME NEW p \in FeedTopics PROVE FeedOf(L)[p] \in Seq(RecsOf(p))
    BY PartsType, FlattenPlaces, Zenon
  <2>2. QED
    BY <2>1
<1>2. DOMAIN FeedOf(L) = SP!Topics
  BY DEF FeedOf, SP!Topics
<1>3. SP!EventRecs = S!EventRecs /\ SP!RelationRecs = S!RelationRecs
  BY DEF SP!EventRecs, S!EventRecs, SP!RelationRecs, S!RelationRecs, SP!Schemas, S!Schemas
<1>4. FeedOf(L)["relations"] \in Seq(SP!RelationRecs)
  BY <1>1, <1>3 DEF FeedTopics, RecsOf
<1>5. ASSUME NEW t \in Relations
      PROVE  /\ FeedOf(L)[t] \in Seq(SP!EventRecs)
             /\ \A n \in DOMAIN FeedOf(L)[t] :
                  FeedOf(L)[t][n].op = "delete"
                    => FeedOf(L)[t][n].old = FeedOf(L)[t][n].key
  <2>1. FeedOf(L)[t] \in Seq(Events)
    BY <1>1, RelationsAssumption DEF FeedTopics, RecsOf
  <2>2. \A n \in DOMAIN FeedOf(L)[t] : FeedOf(L)[t][n] \in Events
    BY <2>1
  <2>3. Events \subseteq S!EventRecs
    BY DEF Events
  <2>4. FeedOf(L)[t] \in Seq(SP!EventRecs)
    BY <1>3, <2>1, <2>3
  <2>5. QED
    BY <2>2, <2>4 DEF Events, Sound
<1>6. QED
  BY <1>1, <1>2, <1>4, <1>5 DEF SP!IsFeed

LEMMA NothingFed == FromSource(<<>>)
  BY DEF FromSource

\* A batch that comes to the log comes behind what the topics hold.
FeedExtends(L, M, p) ==
  /\ Len(FeedOf(L)[p]) <= Len(FeedOf(M)[p])
  /\ \A n \in DOMAIN FeedOf(L)[p] : FeedOf(M)[p][n] = FeedOf(L)[p][n]

LEMMA FeedGrows ==
  ASSUME NEW L, FromSource(L), NEW b, NEW M, M = Append(L, b), FromSource(M),
         NEW p \in FeedTopics
  PROVE  FeedExtends(L, M, p)
<1> DEFINE n == Len(L)
<1> DEFINE s == Parts(L, p)
<1> DEFINE u == Parts(M, p)
<1>1. n \in Nat /\ Len(M) = n + 1 /\ \A k \in 1..n : M[k] = L[k]
  BY DEF FromSource
<1>2. /\ s \in [1..n -> Seq(RecsOf(p))] /\ u \in [1..(n + 1) -> Seq(RecsOf(p))]
      /\ FeedOf(L)[p] = FlattenSeq(s) /\ FeedOf(M)[p] = FlattenSeq(u)
  BY <1>1, PartsType
<1>3. \A k \in 1..n : u[k] = s[k]
  BY <1>1 DEF Parts
<1> HIDE DEF n, s, u
<1>4. FlattenSeq(u) = FlattenSeq(s) \o u[n + 1]
  BY <1>1, <1>2, <1>3, FlattenAppend, Zenon
<1>5. FlattenSeq(s) \in Seq(RecsOf(p)) /\ u[n + 1] \in Seq(RecsOf(p))
  <2>1. n + 1 \in 1..(n + 1)
    BY <1>1
  <2>2. FlattenSeq(s) \in Seq(RecsOf(p))
    BY <1>1, <1>2, FlattenPlaces, Zenon
  <2>3. QED
    BY <1>2, <2>1, <2>2
<1>6. QED
  BY <1>2, <1>4, <1>5 DEF FeedExtends

------------------------------------------------------------------------------
(* What of a topic lies behind a change of the log.                          *)

\* Of batch b, from position q on, only what comes of its changes from i on.
BatchFrom(b, r, q, i) ==
  /\ EventsOf(b, r)[q] = EventOf(b.events[i])
  /\ \A p \in DOMAIN EventsOf(b, r) : q <= p =>
       \E j \in DOMAIN b.events : /\ j >= i /\ Rel(b.events[j]) = r
                                  /\ EventsOf(b, r)[p] = EventOf(b.events[j])

LEMMA EventsFrom ==
  ASSUME NEW b \in Batch, Sourced(b), NEW r, NEW i \in DOMAIN b.events,
         Rel(b.events[i]) = r
  PROVE  \E q \in DOMAIN EventsOf(b, r) : BatchFrom(b, r, q, i)
<1> DEFINE s == Pieces(b, r)
<1> DEFINE n == Len(b.events)
<1>1. /\ n \in Nat /\ DOMAIN b.events = 1..n /\ i \in 1..n
      /\ s \in [1..n -> Seq(Events)] /\ EventsOf(b, r) = FlattenSeq(s)
      /\ \A m \in 1..n : \A k \in 1..Len(s[m]) :
           Rel(b.events[m]) = r /\ s[m][k] = EventOf(b.events[m])
      /\ 1 \in 1..Len(s[i]) /\ s[i][1] = EventOf(b.events[i])
  BY PiecesType
<1> HIDE DEF s, n
<1>2. PICK q \in DOMAIN FlattenSeq(s) : IsFrom(FlattenSeq(s), q, n, s, i, 1)
  BY <1>1, FlattenFrom, Zenon
<1>3. ASSUME NEW p \in DOMAIN EventsOf(b, r), q <= p
      PROVE  \E j \in DOMAIN b.events :
               /\ j >= i /\ Rel(b.events[j]) = r
               /\ EventsOf(b, r)[p] = EventOf(b.events[j])
  <2>1. PICK m \in i..n : \E k \in 1..Len(s[m]) : FlattenSeq(s)[p] = s[m][k]
    BY <1>1, <1>2, <1>3 DEF IsFrom
  <2>2. m \in 1..n /\ m >= i
    BY <1>1
  <2>3. PICK k \in 1..Len(s[m]) : FlattenSeq(s)[p] = s[m][k]
    BY <2>1
  <2>4. Rel(b.events[m]) = r /\ s[m][k] = EventOf(b.events[m])
    BY <1>1, <2>2
  <2>5. EventsOf(b, r)[p] = EventOf(b.events[m]) /\ m \in DOMAIN b.events
    BY <1>1, <2>2, <2>3, <2>4
  <2>6. QED
    BY <2>2, <2>4, <2>5
<1>4. BatchFrom(b, r, q, i)
  BY <1>1, <1>2, <1>3 DEF BatchFrom, IsFrom
<1>5. QED
  BY <1>1, <1>2, <1>4

LEMMA EventsElement ==
  ASSUME NEW b \in Batch, Sourced(b), NEW r, NEW p \in DOMAIN EventsOf(b, r)
  PROVE  \E j \in DOMAIN b.events : /\ Rel(b.events[j]) = r
                                    /\ EventsOf(b, r)[p] = EventOf(b.events[j])
<1> DEFINE s == Pieces(b, r)
<1> DEFINE n == Len(b.events)
<1>1. /\ n \in Nat /\ DOMAIN b.events = 1..n
      /\ s \in [1..n -> Seq(Events)] /\ EventsOf(b, r) = FlattenSeq(s)
      /\ \A m \in 1..n : \A k \in 1..Len(s[m]) :
           Rel(b.events[m]) = r /\ s[m][k] = EventOf(b.events[m])
  BY PiecesType
<1> HIDE DEF s, n
<1>2. p \in DOMAIN FlattenSeq(s)
  BY <1>1
<1>3. IsAmong(FlattenSeq(s)[p], n, s)
  BY <1>1, <1>2, FlattenElement, Zenon
<1>4. QED
  BY <1>1, <1>3 DEF IsAmong

\* Change i of batch k is at q, and from there on the topic holds only changes
\* that are not before it in the log.
FeedFrom(L, r, q, k, i) ==
  /\ FeedOf(L)[r][q] = EventOf(L[k].events[i])
  /\ \A p \in DOMAIN FeedOf(L)[r] : q <= p =>
       \E n \in DOMAIN L : \E j \in DOMAIN L[n].events :
         /\ n > k \/ (n = k /\ j >= i)
         /\ Rel(L[n].events[j]) = r
         /\ FeedOf(L)[r][p] = EventOf(L[n].events[j])

LEMMA FeedBehind ==
  ASSUME NEW L, FromSource(L), NEW r \in Relations,
         NEW k \in DOMAIN L, NEW i \in DOMAIN L[k].events, Rel(L[k].events[i]) = r
  PROVE  \E q \in DOMAIN FeedOf(L)[r] : FeedFrom(L, r, q, k, i)
<1> DEFINE n == Len(L)
<1> DEFINE s == Parts(L, r)
<1>1. r \in FeedTopics /\ r # "relations"
  BY RelationsAssumption DEF FeedTopics
<1>2. /\ n \in Nat /\ DOMAIN L = 1..n /\ s \in [1..n -> Seq(RecsOf(r))]
      /\ FeedOf(L)[r] = FlattenSeq(s)
  BY <1>1, PartsType
<1>3. /\ \A m \in 1..n : s[m] = EventsOf(L[m], r) /\ s[m] \in Seq(RecsOf(r))
      /\ \A m \in 1..n : L[m] \in Batch /\ Sourced(L[m])
  <2>1. ASSUME NEW m \in 1..n
        PROVE  /\ s[m] = EventsOf(L[m], r) /\ L[m] \in Batch /\ Sourced(L[m])
               /\ s[m] \in Seq(RecsOf(r))
    <3>1. s[m] = EventsOf(L[m], r)
      BY <1>1 DEF Parts, Part
    <3>2. s[m] \in Seq(RecsOf(r))
      <4> HIDE DEF s
      <4>1. QED
        BY <1>2
    <3>3. L[m] \in Batch /\ Sourced(L[m])
      BY <1>2 DEF FromSource
    <3> HIDE DEF s, n
    <3>4. QED
      BY <3>1, <3>2, <3>3
  <2> HIDE DEF s, n
  <2>2. QED
    BY <2>1
<1> HIDE DEF n, s
<1>4. PICK j \in DOMAIN s[k] : BatchFrom(L[k], r, j, i)
  <2>1. k \in 1..n
    BY <1>2
  <2>2. L[k] \in Batch /\ Sourced(L[k]) /\ s[k] = EventsOf(L[k], r)
    BY <1>3, <2>1
  <2>3. QED
    BY <2>2, EventsFrom
<1>5. k \in 1..n /\ j \in 1..Len(s[k])
  BY <1>2, <1>3, <1>4
<1>6. PICK q \in DOMAIN FlattenSeq(s) : IsFrom(FlattenSeq(s), q, n, s, k, j)
  BY <1>2, <1>5, FlattenFrom, Zenon
<1>7. ASSUME NEW p \in DOMAIN FeedOf(L)[r], q <= p
      PROVE  \E m \in DOMAIN L : \E h \in DOMAIN L[m].events :
               /\ m > k \/ (m = k /\ h >= i)
               /\ Rel(L[m].events[h]) = r
               /\ FeedOf(L)[r][p] = EventOf(L[m].events[h])
  <2>1. PICK m \in k..n : \E x \in 1..Len(s[m]) :
          FlattenSeq(s)[p] = s[m][x] /\ (m > k \/ x >= j)
    BY <1>2, <1>6, <1>7 DEF IsFrom
  <2>2. PICK x \in 1..Len(s[m]) :
          FlattenSeq(s)[p] = s[m][x] /\ (m > k \/ x >= j)
    BY <2>1
  <2>3. m \in 1..n /\ (m > k \/ m = k)
    BY <1>2, <1>5
  <2>4. x \in DOMAIN EventsOf(L[m], r) /\ s[m] = EventsOf(L[m], r)
        /\ L[m] \in Batch /\ Sourced(L[m])
    BY <1>3, <2>3
  <2>5. CASE m > k
    <3>1. PICK h \in DOMAIN L[m].events :
            /\ Rel(L[m].events[h]) = r
            /\ EventsOf(L[m], r)[x] = EventOf(L[m].events[h])
      BY <2>4, EventsElement
    <3>2. QED
      BY <1>2, <2>2, <2>3, <2>4, <2>5, <3>1
  <2>6. CASE m = k /\ x >= j
    <3>1. j <= x
      BY <1>5, <2>6
    <3>2. PICK h \in DOMAIN L[m].events :
            /\ h >= i /\ Rel(L[m].events[h]) = r
            /\ EventsOf(L[m], r)[x] = EventOf(L[m].events[h])
      BY <1>4, <2>4, <2>6, <3>1 DEF BatchFrom
    <3>3. QED
      BY <1>2, <2>2, <2>3, <2>4, <2>6, <3>2
  <2>7. QED
    BY <2>2, <2>3, <2>5, <2>6
<1>8. FeedOf(L)[r][q] = EventOf(L[k].events[i])
  BY <1>2, <1>3, <1>4, <1>5, <1>6 DEF IsFrom, BatchFrom
<1>9. FeedFrom(L, r, q, k, i)
  BY <1>7, <1>8 DEF FeedFrom
<1>10. QED
  BY <1>2, <1>6, <1>9

------------------------------------------------------------------------------
(* Two events of a topic come from changes in the order the log has them.    *)

BatchOrdered(b, r, p, p2) ==
  \E j, j2 \in DOMAIN b.events :
    /\ j <= j2 /\ Rel(b.events[j]) = r /\ Rel(b.events[j2]) = r
    /\ EventsOf(b, r)[p] = EventOf(b.events[j])
    /\ EventsOf(b, r)[p2] = EventOf(b.events[j2])

LEMMA EventsOrdered ==
  ASSUME NEW b \in Batch, Sourced(b), NEW r, NEW p \in DOMAIN EventsOf(b, r),
         NEW p2 \in DOMAIN EventsOf(b, r), p <= p2
  PROVE  BatchOrdered(b, r, p, p2)
<1> DEFINE s == Pieces(b, r)
<1> DEFINE n == Len(b.events)
<1>1. /\ n \in Nat /\ DOMAIN b.events = 1..n
      /\ s \in [1..n -> Seq(Events)] /\ EventsOf(b, r) = FlattenSeq(s)
      /\ \A m \in 1..n : \A k \in 1..Len(s[m]) :
           Rel(b.events[m]) = r /\ s[m][k] = EventOf(b.events[m])
  BY PiecesType
<1> HIDE DEF s, n
<1>2. p \in DOMAIN FlattenSeq(s) /\ p2 \in DOMAIN FlattenSeq(s)
  BY <1>1
<1>3. IsOrdered(FlattenSeq(s), p, p2, n, s)
  BY <1>1, <1>2, FlattenOrdered, Zenon
<1>4. PICK j \in 1..n : \E j2 \in j..n :
        \E q \in 1..Len(s[j]) : \E q2 \in 1..Len(s[j2]) :
          FlattenSeq(s)[p] = s[j][q] /\ FlattenSeq(s)[p2] = s[j2][q2]
  BY <1>3 DEF IsOrdered
<1>5. PICK j2 \in j..n :
        \E q \in 1..Len(s[j]) : \E q2 \in 1..Len(s[j2]) :
          FlattenSeq(s)[p] = s[j][q] /\ FlattenSeq(s)[p2] = s[j2][q2]
  BY <1>4
<1>6. j2 \in 1..n /\ j <= j2
  BY <1>1
<1>7. /\ Rel(b.events[j]) = r /\ Rel(b.events[j2]) = r
      /\ EventsOf(b, r)[p] = EventOf(b.events[j])
      /\ EventsOf(b, r)[p2] = EventOf(b.events[j2])
  BY <1>1, <1>5, <1>6
<1>8. j \in DOMAIN b.events /\ j2 \in DOMAIN b.events
  BY <1>1, <1>6
<1>9. QED
  BY <1>6, <1>7, <1>8 DEF BatchOrdered

AllChanges == UNION {ChangesOf(t) : t \in Txns}

\* Events x and y are those of changes of r, that of y not before that of x.
InTurn(x, y, r) ==
  \E c, d \in AllChanges : /\ Rel(c) = r /\ Rel(d) = r /\ (c = d \/ Before(c, d))
                           /\ x = EventOf(c) /\ y = EventOf(d)

\* In source order, and nothing twice.
LogOrdered(L) ==
  /\ \A n \in DOMAIN L : Ordered(L[n])
  /\ \A m, n \in DOMAIN L : m < n =>
       \A c \in ToSet(L[m].events), d \in ToSet(L[n].events) : c[1] < d[1]

LEMMA FeedOrdered ==
  ASSUME NEW L, FromSource(L), LogOrdered(L), NEW r \in Relations,
         NEW p \in DOMAIN FeedOf(L)[r], NEW p2 \in DOMAIN FeedOf(L)[r], p <= p2
  PROVE  InTurn(FeedOf(L)[r][p], FeedOf(L)[r][p2], r)
<1> DEFINE n == Len(L)
<1> DEFINE s == Parts(L, r)
<1>1. r \in FeedTopics /\ r # "relations"
  BY RelationsAssumption DEF FeedTopics
<1>2. /\ n \in Nat /\ DOMAIN L = 1..n /\ s \in [1..n -> Seq(RecsOf(r))]
      /\ FeedOf(L)[r] = FlattenSeq(s)
  BY <1>1, PartsType
<1>3. \A m \in 1..n : s[m] = EventsOf(L[m], r) /\ L[m] \in Batch /\ Sourced(L[m])
  BY <1>1, <1>2 DEF Parts, Part, FromSource
<1>4. ASSUME NEW m \in 1..n, NEW q \in 1..Len(s[m])
      PROVE  s[m] = EventsOf(L[m], r) /\ q \in DOMAIN EventsOf(L[m], r) /\ q \in Nat
  <2> HIDE DEF s, n
  <2>1. s[m] = EventsOf(L[m], r) /\ s[m] \in Seq(RecsOf(r))
    BY <1>2, <1>3
  <2>2. q \in DOMAIN s[m] /\ q \in Nat
    BY <2>1
  <2>3. QED
    BY <2>1, <2>2
<1> HIDE DEF n, s
<1>5. IsOrdered(FlattenSeq(s), p, p2, n, s)
  <2>1. p \in DOMAIN FlattenSeq(s) /\ p2 \in DOMAIN FlattenSeq(s)
    BY <1>2
  <2>2. QED
    BY <1>2, <2>1, FlattenOrdered, Zenon
<1>6. PICK m \in 1..n : \E m2 \in m..n :
        \E q \in 1..Len(s[m]) : \E q2 \in 1..Len(s[m2]) :
          /\ FlattenSeq(s)[p] = s[m][q] /\ FlattenSeq(s)[p2] = s[m2][q2]
          /\ m < m2 \/ q <= q2
  BY <1>5 DEF IsOrdered
<1>7. PICK m2 \in m..n :
        \E q \in 1..Len(s[m]) : \E q2 \in 1..Len(s[m2]) :
          /\ FlattenSeq(s)[p] = s[m][q] /\ FlattenSeq(s)[p2] = s[m2][q2]
          /\ m < m2 \/ q <= q2
  BY <1>6
<1>8. PICK q \in 1..Len(s[m]) : \E q2 \in 1..Len(s[m2]) :
        /\ FlattenSeq(s)[p] = s[m][q] /\ FlattenSeq(s)[p2] = s[m2][q2]
        /\ m < m2 \/ q <= q2
  BY <1>7
<1>9. PICK q2 \in 1..Len(s[m2]) :
        /\ FlattenSeq(s)[p] = s[m][q] /\ FlattenSeq(s)[p2] = s[m2][q2]
        /\ m < m2 \/ q <= q2
  BY <1>8
<1>10. m2 \in 1..n /\ (m < m2 \/ m = m2)
  BY <1>2
<1>11. /\ FeedOf(L)[r][p] = EventsOf(L[m], r)[q] /\ q \in DOMAIN EventsOf(L[m], r)
       /\ FeedOf(L)[r][p2] = EventsOf(L[m2], r)[q2] /\ q2 \in DOMAIN EventsOf(L[m2], r)
  BY <1>2, <1>4, <1>9, <1>10
<1>12. ASSUME NEW i \in 1..n, NEW j \in DOMAIN L[i].events
       PROVE  /\ L[i].events[j] \in AllChanges
              /\ L[i].events[j] \in ToSet(L[i].events)
  <2>1. L[i].events[j] \in ToSet(L[i].events)
    BY DEF ToSet
  <2>2. QED
    BY <1>3, <2>1 DEF Sourced, AllChanges
<1>13. CASE m < m2
  <2>1. PICK j \in DOMAIN L[m].events :
          Rel(L[m].events[j]) = r /\ EventsOf(L[m], r)[q] = EventOf(L[m].events[j])
    BY <1>3, <1>11, EventsElement
  <2>2. PICK j2 \in DOMAIN L[m2].events :
          Rel(L[m2].events[j2]) = r /\ EventsOf(L[m2], r)[q2] = EventOf(L[m2].events[j2])
    BY <1>3, <1>10, <1>11, EventsElement
  <2>3. Before(L[m].events[j], L[m2].events[j2])
    BY <1>2, <1>10, <1>12, <1>13 DEF LogOrdered, Before
  <2>4. QED
    BY <1>10, <1>11, <1>12, <2>1, <2>2, <2>3 DEF InTurn
<1>14. CASE m = m2
  <2>1. q <= q2
    BY <1>2, <1>9, <1>14
  <2>2. BatchOrdered(L[m], r, q, q2)
    BY <1>3, <1>11, <1>14, <2>1, EventsOrdered
  <2>3. PICK j, j2 \in DOMAIN L[m].events :
          /\ j <= j2 /\ Rel(L[m].events[j]) = r /\ Rel(L[m].events[j2]) = r
          /\ EventsOf(L[m], r)[q] = EventOf(L[m].events[j])
          /\ EventsOf(L[m], r)[q2] = EventOf(L[m].events[j2])
    BY <2>2 DEF BatchOrdered
  <2>4. j = j2 \/ Before(L[m].events[j], L[m].events[j2])
    <3>1. j \in Nat /\ j2 \in Nat /\ Ordered(L[m])
      <4>1. L[m].events \in Seq(Positions)
        BY <1>3, EventsType
      <4>2. Ordered(L[m])
        BY <1>2 DEF LogOrdered
      <4>3. QED
        BY <4>1, <4>2
    <3>2. j = j2 \/ j < j2
      BY <2>3, <3>1
    <3>3. QED
      BY <3>1, <3>2 DEF Ordered
  <2>5. QED
    BY <1>11, <1>12, <1>14, <2>3, <2>4 DEF InTurn
<1>15. QED
  BY <1>10, <1>13, <1>14

------------------------------------------------------------------------------
(* The order of the log across sessions.  A session that begins early repeats *)
(* transactions in the log; but unless one begins beyond what the log ends    *)
(* with again (ahead), the last batch of a transaction is behind every batch  *)
(* of an earlier one.                                                         *)

\* Some batch has the whole of t, and all behind it is of later transactions.
InPlace(t) ==
  Publishable(t) # {} =>
    \E n \in DOMAIN log :
      /\ Publishable(t) \subseteq ToSet(log[n].events)
      /\ \A m \in DOMAIN log : m > n =>
           \A d \in ToSet(log[m].events) : t < d[1]

\* Changes in the log are the source's and can be published.
Genuine ==
  \A n \in DOMAIN log : \A c \in ToSet(log[n].events) :
    c[1] \in Txns /\ c \in Publishable(c[1])

\* What the stream has passed and is not in the log yet, is decided.
Pending ==
  \A t \in Txns : floor < t /\ t < srcTxn =>
    t \in failedIn \/ Publishable(t) \subseteq ToSet(kafka.decided.events)

\* What this session or the last LSN record is past, is in place.
InOrder ==
  \A t \in Txns : t <= floor \/ EndLsn[t] <= Checkpoint =>
    t \in failedIn \/ InPlace(t)

LEMMA GenuineStep ==
  ASSUME TypeOK, WholeInv, BatchInv, Genuine, [Next]_vars
  PROVE  Genuine'
<1>1. CASE WriteMarkers
  <2>1. Beyond(kafka.decided, floor, srcTxn)
    BY <1>1, MarkersEffect
  <2>2. ASSUME NEW n \in DOMAIN log', NEW c \in ToSet(log'[n].events)
        PROVE  c[1] \in Txns /\ c \in Publishable(c[1])
    BY <1>1, <2>1, <2>2, LogAfterMarkers DEF Genuine, Beyond
  <2>3. QED
    BY <2>2 DEF Genuine
<1>2. CASE log' = log
  BY <1>2 DEF Genuine
<1>3. QED
  BY <1>1, <1>2, DecidedKept

LEMMA PendingStep ==
  ASSUME TypeOK, WholeInv, AckInv, BatchInv, LogInv, LossInv, Pending, [Next]_vars
  PROVE  Pending'
<1>1. srcTxn \in 1..(N + 1) /\ floor \in 0..N /\ N \in Nat
  BY SizesAssumption DEF TypeOK
<1>2. CASE WriteMarkers
  <2>1. /\ floor' \in Txns /\ floor < floor' /\ srcTxn' = srcTxn
        /\ \A c \in ToSet(kafka.decided.events) : c[1] <= floor'
    BY <1>2, MarkersEffect DEF EndsWith, WriteMarkers, streamVars
  <2>2. ASSUME NEW t \in Txns, floor' < t, t < srcTxn', t \notin failedIn'
        PROVE  Publishable(t) = {}
    <3>1. t \in Nat /\ floor' \in Nat /\ floor < t
      BY <1>1, <2>1, <2>2 DEF Txns
    <3>2. Publishable(t) \subseteq ToSet(kafka.decided.events)
      BY <2>1, <2>2, <3>1, HistoryGrows DEF Pending
    <3>3. \A c \in Publishable(t) : c[1] = t
      BY PublishableType
    <3>4. ~(t <= floor')
      BY <2>2, <3>1
    <3>5. QED
      BY <2>1, <3>2, <3>3, <3>4
  <2>3. QED
    BY <2>2 DEF Pending
<1>3. CASE log' = log /\ (kafka'.decided = kafka.decided \/ kafka.decided = EmptyBatch)
  <2>1. ASSUME NEW t \in Txns, floor < t, t < srcTxn
        PROVE  \/ t \in failedIn'
               \/ Publishable(t) \subseteq ToSet(kafka'.decided.events)
    BY <1>3, <2>1, HistoryGrows, NothingInEmpty DEF Pending
  <2>2. CASE floor' = floor /\ srcTxn' = srcTxn
    BY <2>1, <2>2 DEF Pending
  <2>3. ASSUME floor' = floor, srcTxn' = srcTxn + 1,
               \A t \in Txns : t = srcTxn =>
                 \/ t \in failedIn'
                 \/ Publishable(t) \subseteq ToSet(kafka'.decided.events)
        PROVE  Pending'
    <3>1. \A t \in Txns : t < srcTxn' => t < srcTxn \/ t = srcTxn
      BY <1>1, <2>3 DEF Txns
    <3>2. QED
      BY <2>1, <2>3, <3>1 DEF Pending
  <2>4. CASE SkipCommit
    <3>1. srcTxn \in failedIn /\ floor' = floor /\ srcTxn' = srcTxn + 1
      BY <2>4, AtCommitMoves DEF SkipCommit, LossInv, GivenUp, historyVars
    <3>2. QED
      BY <2>3, <3>1, HistoryGrows
  <2>5. CASE CommitOk
    <3>1. floor' = floor /\ srcTxn' = srcTxn + 1
      BY <2>5, AtCommitMoves DEF CommitOk, historyVars
    <3>2. QED
      BY <2>3, <2>5, <3>1, CommittedIsDecided
  <2>6. CASE CommitFailed
    <3>1. /\ floor' = floor /\ srcTxn' = srcTxn + 1
          /\ failedIn' = failedIn \cup {srcTxn}
      BY <2>6, AtCommitMoves DEF CommitFailed
    <3>2. QED
      BY <2>3, <3>1
  <2>7. CASE \/ RecvBegin \/ RecvRelation \/ SkipChange \/ DropUndecodable
             \/ PublishChange \/ AbortOnSendError
    BY <2>2, <2>7 DEF RecvBegin, RecvRelation, SkipChange, DropUndecodable,
                      PublishChange, AbortOnSendError, Advance, historyVars
  <2>8. CASE \/ StatusUpdate \/ DecideLateCommit \/ ConnectionClosed \/ Crash
             \/ ReadLsn \/ UNCHANGED vars
    BY <2>2, <2>8 DEF StatusUpdate, DecideLateCommit, ConnectionClosed, Crash,
                      Stop, ReadLsn, vars, streamVars, historyVars
  <2>9. CASE StartWalInput
    <3>1. floor' = srcTxn' - 1 /\ srcTxn' \in 1..(N + 1)
      BY <2>9, ResumeEffect
    <3>2. \A u \in 1..(N + 1) : \A t \in 1..N : ~(u - 1 < t /\ t < u)
      BY <1>1
    <3>3. QED
      BY <3>1, <3>2 DEF Pending, Txns
  <2>10. QED
    BY <1>2, <2>4, <2>5, <2>6, <2>7, <2>8, <2>9 DEF Next, Receive
<1>4. QED
  BY <1>2, <1>3, DecidedKept

LEMMA InPlaceKept ==
  ASSUME NEW t \in Txns, log' = log, InPlace(t)
  PROVE  InPlace(t)'
  BY DEF InPlace

LEMMA InOrderExtended ==
  ASSUME TypeOK, WholeInv, BatchInv, Pending, InOrder, WriteMarkers
  PROVE  InOrder'
<1> DEFINE P == kafka.decided
<1> DEFINE n0 == Len(log) + 1
<1>1. /\ P \in Batch /\ log' = Append(log, P) /\ floor' \in Txns /\ floor < floor'
      /\ EndsWith(P, floor') /\ Beyond(P, floor, srcTxn)
  BY MarkersEffect
<1>2. PICK m \in Txns : m < srcTxn /\ P.lsn = EndLsn[m]
  BY DEF WriteMarkers, BatchInv, Decidable, EndsWith
<1>3. /\ DOMAIN log' = 1..n0 /\ DOMAIN log = 1..Len(log) /\ Len(log) \in Nat
      /\ log'[n0] = P /\ Checkpoint' = P.lsn
      /\ \A n \in DOMAIN log : n \in DOMAIN log' /\ log'[n] = log[n]
      /\ \A n \in DOMAIN log' : n \in DOMAIN log \/ n = n0
  <2>1. log' # <<>> /\ Len(log') = n0 /\ log'[n0] = P
    BY <1>1 DEF TypeOK
  <2>2. Checkpoint' = P.lsn
    BY <2>1 DEF Checkpoint, Last
  <2>3. QED
    BY <2>2, LogAfterMarkers
<1>4. /\ floor \in Nat /\ floor' \in Nat /\ srcTxn \in Nat /\ P.lsn = EndLsn[floor']
      /\ UNCHANGED <<failedIn, srcTxn>>
  BY <1>1 DEF TypeOK, Txns, EndsWith, WriteMarkers, streamVars
<1>5. floor' < srcTxn
  <2>1. EndLsn[floor'] = EndLsn[m]
    BY <1>2, <1>4
  <2>2. /\ floor' < m => EndLsn[floor'] < EndLsn[m]
        /\ m < floor' => EndLsn[m] < EndLsn[floor']
        /\ EndLsn[m] \in Nat /\ m \in Nat
    BY <1>1, <1>2, EndLsnIncreases DEF Txns
  <2>3. floor' = m
    BY <1>4, <2>1, <2>2
  <2>4. QED
    BY <1>2, <2>3
<1> HIDE DEF P
<1>6. SUFFICES ASSUME NEW t \in Txns, t <= floor' \/ EndLsn[t] <= Checkpoint',
                      t \notin failedIn'
               PROVE  InPlace(t)'
  BY DEF InOrder
<1>7. t \in Nat /\ t <= floor'
  BY <1>1, <1>3, <1>4, <1>6, EndLsnIncreases DEF Txns
<1>8. CASE t <= floor
  <2>1. InPlace(t)
    BY <1>4, <1>6, <1>8 DEF InOrder
  <2>2. CASE Publishable(t) = {}
    BY <2>2 DEF InPlace
  <2>3. CASE Publishable(t) # {}
    <3>1. PICK n \in DOMAIN log :
            /\ Publishable(t) \subseteq ToSet(log[n].events)
            /\ \A k \in DOMAIN log : k > n =>
                 \A d \in ToSet(log[k].events) : t < d[1]
      BY <2>1, <2>3 DEF InPlace
    <3>2. \A d \in ToSet(P.events) : t < d[1]
      BY <1>1, <1>4, <1>7, <1>8 DEF Beyond, Txns
    <3>3. QED
      BY <1>3, <3>1, <3>2 DEF InPlace
  <2>4. QED
    BY <2>2, <2>3
<1>9. CASE ~(t <= floor)
  <2>1. Publishable(t) \subseteq ToSet(P.events)
    BY <1>4, <1>5, <1>6, <1>7, <1>9 DEF Pending, P
  <2>2. n0 \in DOMAIN log' /\ \A k \in DOMAIN log' : ~(k > n0)
    BY <1>3
  <2>3. QED
    BY <1>3, <2>1, <2>2 DEF InPlace
<1>10. QED
  BY <1>8, <1>9

LEMMA InOrderStep ==
  ASSUME TypeOK, WholeInv, AckInv, BatchInv, LogInv, Pending, InOrder,
         [Next]_vars, ~BeginsAhead
  PROVE  InOrder'
<1>1. CASE WriteMarkers
  BY <1>1, InOrderExtended
<1>2. ASSUME log' = log,
             \A t \in Txns : t <= floor' =>
               t <= floor \/ EndLsn[t] <= Checkpoint
      PROVE  InOrder'
  <2>1. Checkpoint' = Checkpoint
    BY <1>2 DEF Checkpoint
  <2>2. QED
    BY <1>2, <2>1, InPlaceKept, HistoryGrows DEF InOrder
<1>3. CASE Holds \/ Drops \/ Grows \/ Attempts \/ Commits
  BY <1>2, <1>3 DEF Holds, Drops, Grows, Attempts, Commits, SameLog
<1>4. CASE DecideLateCommit
  BY <1>2, <1>4 DEF DecideLateCommit, historyVars
<1>5. CASE StartWalInput
  <2>1. /\ log' = log /\ floor' \in 0..N /\ N \in Nat
        /\ floor' = srcTxn' - 1 /\ srcTxn' \in 1..(N + 1)
        /\ floor' > 0 => \E n \in DOMAIN log : EndLsn[floor'] <= log[n].lsn
    BY <1>5, ResumeEffect, SizesAssumption
  <2>2. phase = "resuming" /\ phase' = "running"
    BY <1>5 DEF StartWalInput
  <2>3. ASSUME NEW t \in Txns, t <= floor' PROVE EndLsn[t] <= Checkpoint
    <3>1. \A u \in 1..(N + 1) : u - 1 >= t => u - 1 \in 1..N /\ t < u /\ u - 1 > 0
      BY <2>1 DEF Txns
    <3>2. floor' \in Txns /\ t < srcTxn' /\ floor' > 0
      <4>1. srcTxn' - 1 >= t
        BY <2>1, <2>3 DEF Txns
      <4>2. QED
        BY <2>1, <3>1, <4>1 DEF Txns
    <3>3. PICK n \in DOMAIN log : EndLsn[floor'] <= log[n].lsn
      BY <2>1, <3>2
    <3>4. /\ EndLsn[t] \in Nat /\ EndLsn[floor'] \in Nat
          /\ EndLsn[t] <= EndLsn[floor']
      BY <2>3, <3>2, EndLsnIncreases
    <3>5. log[n].lsn \in Nat /\ log[n] \in Batch
      BY EventsType DEF TypeOK
    <3>6. EndLsn[t] <= log[n].lsn
      BY <3>3, <3>4, <3>5
    <3>7. Checkpoint \in Nat
      BY <3>3, EventsType DEF TypeOK, Checkpoint, Last
    <3>8. ~(EndLsn[t] > Checkpoint)
      BY <2>2, <3>2, <3>6 DEF BeginsAhead
    <3>9. QED
      BY <3>4, <3>7, <3>8
  <2>4. QED
    BY <1>2, <2>1, <2>3
<1>6. QED
  BY <1>1, <1>3, <1>4, <1>5, ClientStep

------------------------------------------------------------------------------
(* The connector within the pipeline.                                         *)

LEMMA ConnectorParameters ==
  /\ <<1>> \in [SP!Schemas -> Nat] /\ SP!Schemas \subseteq Nat \ {0}
  /\ Platforms \subseteq {"postgres", "feldera"}
  /\ "relations" \notin Relations /\ "none" \notin Relations
  /\ SP!IsFeed(FeedOf(<<>>))
  /\ MaxSinkCrashes \in Nat /\ MaxDrops \in Nat
<1>1. SP!Schemas = {1}
  BY DEF SP!Schemas
<1>2. SP!IsFeed(FeedOf(<<>>))
  BY NothingFed, FeedIsFeed
<1>3. QED
  BY <1>1, <1>2, RelationsAssumption, ConnectorAssumption

LEMMA SameConnector ==
  /\ S!Init => SP!Init
  /\ S!Next => SP!Next
  /\ S!CaughtUp <=> SP!CaughtUp
<1>1. S!Init => SP!Init
  BY DEF S!Init, SP!Init, S!Topics, SP!Topics, S!Idle, SP!Idle, S!NoRow, SP!NoRow,
         S!NoStatements, SP!NoStatements, S!Ops, SP!Ops
<1>2. S!CaughtUp <=> SP!CaughtUp
  BY DEF S!CaughtUp, SP!CaughtUp, S!Idle, SP!Idle
<1>3. S!Start => SP!Start
  BY DEF S!Start, SP!Start, S!CacheOf, SP!CacheOf, S!Idle, SP!Idle,
         S!NoStatements, SP!NoStatements, S!Ops, SP!Ops
<1>4. S!Poll => SP!Poll
  BY DEF S!Poll, SP!Poll, S!Idle, SP!Idle, S!Topics, SP!Topics
<1>5. S!Crash => SP!Crash
  BY DEF S!Crash, SP!Crash, S!Stop, SP!Stop
<1>6. S!AutoCommit => SP!AutoCommit
  BY DEF S!AutoCommit, SP!AutoCommit
<1>7. QED
  BY <1>1, <1>2, <1>3, <1>4, <1>5, <1>6 DEF S!Next, SP!Next, S!Handle, SP!Handle,
    S!HandleRelation, SP!HandleRelation, S!Idle, SP!Idle,
    S!HandlePanics, SP!HandlePanics, S!Stop, SP!Stop,
    S!HandleWritten, SP!HandleWritten, S!HandleFailed, SP!HandleFailed,
    S!HandleInterrupted, SP!HandleInterrupted, S!HandEvent, SP!HandEvent,
    S!Executes, SP!Executes, S!Panics, SP!Panics, S!Fails, SP!Fails, S!Write, SP!Write,
    S!Prepared, SP!Prepared, S!Statement, SP!Statement, S!Layout, SP!Layout,
    S!Fits, SP!Fits, S!Is, SP!Is, S!Row, SP!Row, S!NoRow, SP!NoRow,
    S!OffsetAfter, SP!OffsetAfter, S!AsSent, SP!AsSent,
    S!CacheAfterFailure, SP!CacheAfterFailure

ConnectorInv ==
  SP!TypeOK /\ SP!StartsBounded /\ SP!SinkInv /\ SP!ValueInv

LEMMA ConnectorInit ==
  ASSUME S!Init
  PROVE  ConnectorInv
<1>1. SP!TypeOK /\ SP!StartsBounded
  BY SameConnector, ConnectorParameters, SP!SinkInitType
<1>2. SP!SinkInv
  BY SameConnector, ConnectorParameters, SP!SinkInvInit
<1>3. SP!ValueInv
  BY SameConnector, ConnectorParameters, SP!ValueInit
<1>4. QED
  BY <1>1, <1>2, <1>3 DEF ConnectorInv

LEMMA ConnectorMoves ==
  ASSUME ConnectorInv, S!Next
  PROVE  ConnectorInv'
<1>1. SP!Next
  BY SameConnector
<1>2. SP!TypeOK' /\ SP!StartsBounded'
  BY <1>1, ConnectorParameters, SP!SinkTypeStep DEF ConnectorInv
<1>3. SP!SinkInv'
  BY <1>1, <1>2, ConnectorParameters, SP!SinkStep DEF ConnectorInv
<1>4. SP!ValueInv'
  BY <1>1, <1>2, ConnectorParameters, SP!ValueStep DEF ConnectorInv, SP!SinkInv
<1>5. QED
  BY <1>2, <1>3, <1>4 DEF ConnectorInv

LEMMA ConnectorWaits ==
  ASSUME ConnectorInv, SP!TopicsGrow
  PROVE  ConnectorInv'
<1>1. SP!TypeOK'
  BY ConnectorParameters, SP!GrowthType DEF ConnectorInv
<1>2. SP!SinkInv'
  BY <1>1, ConnectorParameters, SP!GrowthConverges DEF ConnectorInv
<1>3. SP!ValueInv'
  BY ConnectorParameters, SP!GrowthKeepsValues DEF ConnectorInv
<1>4. SP!StartsBounded'
  BY DEF SP!StartsBounded, SP!TopicsGrow, ConnectorInv
<1>5. QED
  BY <1>1, <1>2, <1>3, <1>4 DEF ConnectorInv

LEMMA ConnectorConverges ==
  ASSUME SP!TypeOK, SP!SinkInv
  PROVE  SP!ConvergesUnlessMissed
  BY ConnectorParameters, SP!ConvergedOnceCaughtUp

------------------------------------------------------------------------------
(* Both together.                                                            *)

PipelineInv ==
  /\ Genuine /\ Pending /\ (ahead \/ InOrder)
  /\ feed = FeedOf(log)
  /\ ConnectorInv

LEMMA LogFromSource ==
  ASSUME TypeOK, Genuine
  PROVE  FromSource(log)
<1>1. \A t \in Txns : Publishable(t) \subseteq ChangesOf(t)
  BY DEF Publishable
<1>2. QED
  BY <1>1 DEF TypeOK, Genuine, FromSource, Sourced

LEMMA ProducerFeeds ==
  ASSUME TypeOK, TypeOK', WholeInv, BatchInv, Genuine, Genuine', feed = FeedOf(log),
         ProducerStep
  PROVE  SP!TopicsGrow /\ feed' = FeedOf(log')
<1>1. FromSource(log) /\ FromSource(log')
  <2>1. FromSource(log)
    BY LogFromSource
  <2>2. TypeOK' /\ Genuine' => FromSource(log')
    <3>1. \A t \in Txns : Publishable(t) \subseteq ChangesOf(t)
      BY DEF Publishable
    <3>2. QED
      BY <3>1 DEF TypeOK, Genuine, FromSource, Sourced
  <2>3. QED
    BY <2>1, <2>2
<1>2. feed' = FeedOf(log') /\ UNCHANGED sinkVars /\ Next
  BY DEF ProducerStep
<1>3. SP!IsFeed(feed')
  BY <1>1, <1>2, FeedIsFeed
<1>4. SP!Topics = FeedTopics
  BY DEF SP!Topics, FeedTopics
<1>5. ASSUME NEW p \in FeedTopics
      PROVE  /\ Len(feed[p]) <= Len(feed'[p])
             /\ \A n \in DOMAIN feed[p] : feed'[p][n] = feed[p][n]
  <2>1. CASE log' = log
    <3>1. Len(feed[p]) \in Nat
      BY <1>1, <1>5, FeedIsFeed
    <3>2. QED
      BY <1>2, <2>1, <3>1
  <2>2. CASE WriteMarkers
    <3>1. log' = Append(log, kafka.decided)
      BY <2>2 DEF WriteMarkers
    <3>2. FeedExtends(log, log', p)
      BY <1>1, <3>1, FeedGrows, Zenon
    <3>3. QED
      BY <1>2, <3>2 DEF FeedExtends
  <2>3. QED
    BY <1>2, <2>1, <2>2, DecidedKept
<1>6. QED
  BY <1>2, <1>3, <1>4, <1>5 DEF SP!TopicsGrow, sinkVars

LEMMA PipelineInitially ==
  ASSUME PipelineInit
  PROVE  PipelineInv
<1>1. /\ Init /\ S!Init /\ log = <<>> /\ floor = 0 /\ srcTxn = 1 /\ Checkpoint = 0
      /\ DOMAIN log = {}
  BY DEF PipelineInit, Init, Checkpoint
<1>2. ConnectorInv
  BY <1>1, ConnectorInit
<1>3. feed = FeedOf(log)
  BY <1>1 DEF S!Init
<1>4. Genuine
  BY <1>1 DEF Genuine
<1>5. Pending
  BY <1>1 DEF Pending, Txns
<1>6. InOrder
  BY <1>1, EndLsnIncreases DEF InOrder, Txns
<1>7. QED
  BY <1>2, <1>3, <1>4, <1>5, <1>6 DEF PipelineInv

LEMMA PipelineMoves ==
  ASSUME TypeOK, TypeOK', WholeInv, AckInv, BatchInv, LogInv, LossInv, PipelineInv,
         [PipelineNext]_<<vars, feed, sinkVars, ahead>>
  PROVE  PipelineInv'
<1>1. CASE ProducerStep
  <2>1. Next /\ ahead' = (ahead \/ BeginsAhead)
    BY <1>1 DEF ProducerStep
  <2>2. Genuine' /\ Pending'
    BY <2>1, GenuineStep, PendingStep DEF PipelineInv
  <2>3. ahead' \/ InOrder'
    BY <2>1, InOrderStep DEF PipelineInv
  <2>4. SP!TopicsGrow /\ feed' = FeedOf(log')
    BY <1>1, <2>2, ProducerFeeds DEF PipelineInv
  <2>5. ConnectorInv'
    BY <2>4, ConnectorWaits DEF PipelineInv
  <2>6. QED
    BY <2>2, <2>3, <2>4, <2>5 DEF PipelineInv
<1>2. ASSUME UNCHANGED <<vars, ahead>>
      PROVE  Genuine' /\ Pending' /\ (ahead' \/ InOrder')
  <2>1. UNCHANGED <<log, floor, srcTxn, failedIn, kafka, ahead>>
    BY <1>2 DEF vars, streamVars, historyVars
  <2>2. QED
    BY <2>1 DEF PipelineInv, Genuine, Pending, InOrder, InPlace, Checkpoint
<1>3. CASE ConnectorStep
  <2>1. UNCHANGED <<vars, ahead>> /\ S!Next
    BY <1>3 DEF ConnectorStep
  <2>2. ConnectorInv'
    BY <2>1, ConnectorMoves DEF PipelineInv
  <2>3. feed' = feed
    BY <2>1 DEF S!Next, S!Start, S!Poll, S!Handle, S!HandleWritten, S!HandleFailed,
       S!HandleInterrupted, S!HandleRelation, S!HandlePanics, S!AutoCommit, S!Crash,
       S!Stop, S!HandEvent
  <2>4. log' = log
    BY <2>1 DEF vars
  <2>5. QED
    BY <1>2, <2>1, <2>2, <2>3, <2>4 DEF PipelineInv
<1>4. CASE UNCHANGED <<vars, feed, sinkVars, ahead>>
  <2>1. UNCHANGED <<vars, ahead>> /\ feed' = feed /\ log' = log /\ UNCHANGED sinkVars
    BY <1>4 DEF vars
  <2>2. ConnectorInv'
    <3>1. feed = FeedOf(log) /\ SP!IsFeed(feed)
      BY LogFromSource, FeedIsFeed DEF PipelineInv
    <3>2. \A p \in SP!Topics : Len(feed[p]) \in Nat
      BY <3>1, LogFromSource, FeedIsFeed DEF PipelineInv, SP!Topics, FeedTopics
    <3>3. SP!TopicsGrow
      BY <2>1, <3>1, <3>2 DEF SP!TopicsGrow, sinkVars
    <3>4. QED
      BY <3>3, ConnectorWaits DEF PipelineInv
  <2>3. QED
    BY <1>2, <2>1, <2>2 DEF PipelineInv
<1>5. QED
  BY <1>1, <1>3, <1>4 DEF PipelineNext

LEMMA PipelineReachable ==
  PipelineSpec => [](TypeOK /\ WholeInv /\ LogInv /\ PipelineInv)
<1>1. PipelineInit => Init
  BY DEF PipelineInit
<1>2. [PipelineNext]_<<vars, feed, sinkVars, ahead>> => [Next]_vars
  BY DEF PipelineNext, ProducerStep, ConnectorStep
<1>3. PipelineSpec => Spec
  BY <1>1, <1>2, PTL DEF PipelineSpec, Spec
<1>4. PipelineInit => PipelineInv
  BY PipelineInitially
<1>5. /\ TypeOK /\ TypeOK' /\ WholeInv /\ AckInv /\ BatchInv /\ LogInv /\ LossInv
      /\ PipelineInv /\ [PipelineNext]_<<vars, feed, sinkVars, ahead>>
      => PipelineInv'
  BY PipelineMoves
<1>6. QED
  BY <1>3, <1>4, <1>5, TypeCorrect, WholeReachable, AckReachable, LogReachable,
     LossReachable, PTL DEF PipelineSpec

------------------------------------------------------------------------------
(* From source row to target row.                                            *)

LEMMA ChangeType ==
  ASSUME NEW t \in Txns, NEW c \in ChangesOf(t)
  PROVE  /\ c[1] = t /\ c[2] \in Nat /\ c = <<c[1], c[2]>>
         /\ c[1] \in 0..N /\ c[2] \in 0..Len(Changes[t]) /\ Len(Changes[t]) \in Nat
<1>1. Changes[t] \in Seq(Relations) /\ N \in Nat
  BY ChangesAssumption, SizesAssumption
<1>2. PICK i \in DOMAIN Changes[t] : c = <<t, i>>
  BY DEF ChangesOf
<1>3. i \in Nat /\ i \in 0..Len(Changes[t]) /\ Len(Changes[t]) \in Nat
  BY <1>1, <1>2
<1>4. QED
  BY <1>1, <1>2, <1>3 DEF Txns

\* The last change of a key is a change of it, and after all others.
IsLastOn(c, r, k) ==
  c \in OnKey(r, k) /\ \A d \in OnKey(r, k) : d = c \/ Before(d, c)

LEMMA LastChangeType ==
  ASSUME NEW r, NEW k, OnKey(r, k) # {}
  PROVE  IsLastOn(LastChange(r, k), r, k)
<1> DEFINE Ts == {c[1] : c \in OnKey(r, k)}
<1>1. \A c \in OnKey(r, k) : c[1] \in Txns /\ c \in ChangesOf(c[1])
  <2>1. ASSUME NEW c \in OnKey(r, k) PROVE c[1] \in Txns /\ c \in ChangesOf(c[1])
    <3>1. PICK t \in Txns : c \in ChangesOf(t)
      BY DEF OnKey
    <3>2. QED
      BY <3>1, ChangeType
  <2>2. QED
    BY <2>1
<1>2. PICK t \in Ts : \A x \in Ts : x <= t
  <2>1. Ts \in SUBSET (0..N) /\ Ts # {}
    BY <1>1, ChangeType
  <2> HIDE DEF Ts
  <2>2. QED
    BY <2>1, SizesAssumption, GreatestExists
<1> DEFINE Is == {i \in 0..Len(Changes[t]) : <<t, i>> \in OnKey(r, k)}
<1>3. \A c \in OnKey(r, k) : c[1] <= t /\ (c[1] = t => c[2] \in Is)
  <2>1. ASSUME NEW c \in OnKey(r, k), c[1] = t PROVE c[2] \in Is
    BY <1>1, <2>1, ChangeType
  <2>2. QED
    BY <1>2, <2>1
<1>4. PICK i \in Is : \A x \in Is : x <= i
  <2>1. PICK c \in OnKey(r, k) : c[1] = t
    BY <1>2
  <2>2. Is # {} /\ Is \in SUBSET (0..Len(Changes[t])) /\ Len(Changes[t]) \in Nat
    BY <1>1, <1>3, <2>1, ChangeType
  <2> HIDE DEF Is
  <2>3. QED
    BY <2>2, GreatestExists
<1>5. <<t, i>> \in OnKey(r, k)
  BY <1>4
<1>6. ASSUME NEW d \in OnKey(r, k) PROVE d = <<t, i>> \/ Before(d, <<t, i>>)
  <2>1. d = <<d[1], d[2]>> /\ d[1] \in Nat /\ d[2] \in Nat /\ d[1] <= t
    <3>1. d = <<d[1], d[2]>> /\ d[2] \in Nat /\ d[1] <= t
      BY <1>1, <1>3, ChangeType
    <3>2. d[1] \in Nat
      BY <1>1 DEF Txns
    <3>3. QED
      BY <3>1, <3>2
  <2>2. d[1] = t => d[2] <= i
    <3> HIDE DEF Is
    <3>1. QED
      BY <1>3, <1>4
  <2>3. i \in Nat /\ t \in Nat
    <3>1. <<t, i>>[1] = t /\ <<t, i>>[2] = i
      OBVIOUS
    <3>2. QED
      BY <1>1, <1>5, <3>1, ChangeType DEF Txns
  <2>4. CASE d[1] = t
    <3>1. d[2] = i \/ d[2] < i
      BY <2>1, <2>2, <2>3, <2>4
    <3>2. QED
      BY <2>1, <2>4, <3>1 DEF Before
  <2>5. CASE d[1] # t
    BY <2>1, <2>3, <2>5 DEF Before
  <2>6. QED
    BY <2>4, <2>5
<1>7. IsLastOn(<<t, i>>, r, k)
  BY <1>5, <1>6 DEF IsLastOn
<1>8. QED
  BY <1>7 DEF LastChange, IsLastOn

\* When all is received, what of a key is last in its topic is its last change.
LEMMA LastIsDelivered ==
  ASSUME TypeOK, WholeInv, LogInv, PipelineInv, ~ahead,
         srcTxn = N + 1, kafka.decided = EmptyBatch,
         NEW r \in Relations, NEW k \in Keys, OnKey(r, k) # {},
         NEW c, c = LastChange(r, k),
         c[1] \notin failedIn, c \in Publishable(c[1])
  PROVE  /\ SP!On(r, k) # {}
         /\ feed[r][SP!LastOn(r, k)] = EventOf(c)
<1> DEFINE t == c[1]
<1>1. /\ c \in OnKey(r, k)
      /\ \A d \in OnKey(r, k) : d = c \/ Before(d, c)
  BY LastChangeType DEF IsLastOn
<1>2. t \in Txns /\ Rel(c) = r /\ k \in {Effects[c].key, Effects[c].old}
  <2>1. PICK u \in Txns : c \in ChangesOf(u)
    BY <1>1 DEF OnKey
  <2>2. QED
    BY <1>1, <2>1, ChangeType DEF OnKey
<1>3. InPlace(t)
  <2>1. CASE t <= floor
    BY <1>2, <2>1 DEF PipelineInv, InOrder
  <2>2. CASE ~(t <= floor)
    <3>1. floor < t /\ t < srcTxn
      BY <1>2, <2>2, SizesAssumption DEF TypeOK, Txns
    <3>2. Publishable(t) \subseteq {}
      BY <1>2, <3>1, NothingInEmpty DEF PipelineInv, Pending
    <3>3. QED
      BY <3>2
  <2>3. QED
    BY <2>1, <2>2
<1>4. PICK n \in DOMAIN log :
        /\ Publishable(t) \subseteq ToSet(log[n].events)
        /\ \A m \in DOMAIN log : m > n =>
             \A d \in ToSet(log[m].events) : t < d[1]
  BY <1>3 DEF InPlace
<1>5. PICK i \in DOMAIN log[n].events : log[n].events[i] = c
  BY <1>4 DEF ToSet
<1>6. FromSource(log) /\ feed = FeedOf(log) /\ SP!TypeOK
  BY LogFromSource DEF PipelineInv, ConnectorInv
<1>7. PICK q \in DOMAIN feed[r] : FeedFrom(log, r, q, n, i)
  BY <1>2, <1>5, <1>6, FeedBehind
<1>8. feed[r][q] = EventOf(c) /\ q \in SP!On(r, k)
  BY <1>2, <1>5, <1>6, <1>7 DEF FeedFrom, SP!On, EventOf
<1> DEFINE l == SP!LastOn(r, k)
<1>9. l \in SP!On(r, k) /\ \A m \in SP!On(r, k) : m <= l
  BY <1>6, <1>8, ConnectorParameters, SP!LastExists
<1>10. q <= l /\ l \in DOMAIN feed[r] /\ k \in {feed[r][l].key, feed[r][l].old}
  BY <1>8, <1>9 DEF SP!On
<1> HIDE DEF l
<1>11. PICK m \in DOMAIN log : \E j \in DOMAIN log[m].events :
         /\ m > n \/ (m = n /\ j >= i)
         /\ Rel(log[m].events[j]) = r
         /\ feed[r][l] = EventOf(log[m].events[j])
  BY <1>6, <1>7, <1>10 DEF FeedFrom
<1>12. PICK j \in DOMAIN log[m].events :
         /\ m > n \/ (m = n /\ j >= i)
         /\ Rel(log[m].events[j]) = r
         /\ feed[r][l] = EventOf(log[m].events[j])
  BY <1>11
<1> DEFINE d == log[m].events[j]
<1>13. d \in ToSet(log[m].events) /\ d[1] \in Txns /\ d \in ChangesOf(d[1])
  BY <1>12 DEF ToSet, PipelineInv, Genuine, Publishable
<1>14. d \in OnKey(r, k)
  BY <1>10, <1>12, <1>13 DEF OnKey, EventOf
<1>15. d = c \/ Before(d, c)
  BY <1>1, <1>14
<1>16. /\ t \in Nat /\ d[1] \in Nat /\ c[2] \in Nat /\ d[2] \in Nat
  BY <1>1, <1>2, <1>13, ChangeType DEF Txns, Publishable
<1>17. CASE m > n
  <2>1. t < d[1]
    BY <1>4, <1>13, <1>17
  <2>2. ~(d = c) /\ ~Before(d, c)
    BY <1>16, <2>1 DEF Before
  <2>3. QED
    BY <1>15, <2>2
<1>18. CASE m = n /\ j > i
  <2>1. log[n] \in Durable
    BY DEF Durable, ToSet
  <2>2. Before(c, d)
    BY <1>5, <1>18, <2>1 DEF WholeInv, WholeTransactions, Whole, Ordered
  <2>3. ~(d = c) /\ ~Before(d, c)
    BY <1>16, <2>2 DEF Before
  <2>4. QED
    BY <1>15, <2>3
<1>19. CASE m = n /\ j = i
  BY <1>5, <1>8, <1>12, <1>19 DEF l
<1>20. QED
  <2>1. log[n].events \in Seq(Positions)
    BY EventsType DEF TypeOK
  <2>2. i \in Nat
    BY <2>1
  <2>3. m = n => j \in Nat
    BY <2>1
  <2>4. m > n \/ (m = n /\ j > i) \/ (m = n /\ j = i)
    BY <1>12, <2>2, <2>3
  <2>5. QED
    BY <1>17, <1>18, <1>19, <2>4

LEMMA SameRows ==
  ASSUME NEW r, NEW k
  PROVE  /\ S!On(r, k) = SP!On(r, k) /\ S!LastOn(r, k) = SP!LastOn(r, k)
         /\ S!MovedAway(r, k) <=> SP!MovedAway(r, k)
         /\ S!NoRow = SP!NoRow
  BY DEF S!On, SP!On, S!LastOn, SP!LastOn, S!MovedAway, SP!MovedAway, S!Is, SP!Is,
         S!NoRow, SP!NoRow

\* Across both processes: when all is received and consumed a row of the target
\* is the source's, unless a failure that one of them logs or meets hit the last
\* change of its key, or the topics no longer end with it.  Neither a crash of
\* the producer nor of the connector, nor a commit decided late, nor transactions
\* that go through Kafka a second time make it another.
THEOREM DeliversEndToEnd == PipelineSpec => []EndToEnd
<1>1. ASSUME TypeOK, WholeInv, LogInv, PipelineInv
      PROVE  EndToEnd
  <2>1. SUFFICES ASSUME Finished, NEW r \in Relations, NEW k \in Keys,
                        OnKey(r, k) # {}, ~ahead,
                        LastChange(r, k)[1] \notin failedIn,
                        LastChange(r, k) \in Publishable(LastChange(r, k)[1])
                 PROVE  \/ table[r][k] = SourceRow(r, k)
                        \/ /\ S!On(r, k) # {}
                           /\ \/ <<r, S!LastOn(r, k)>> \in missed
                              \/ S!MovedAway(r, k)
    BY DEF EndToEnd
  <2> DEFINE c == LastChange(r, k)
  <2>2. SP!CaughtUp /\ srcTxn = N + 1 /\ kafka.decided = EmptyBatch
    BY <2>1, SameConnector DEF Finished
  <2>3. SP!On(r, k) # {} /\ feed[r][SP!LastOn(r, k)] = EventOf(c)
    BY <1>1, <2>1, <2>2, LastIsDelivered
  <2>4. \/ table[r][k] = SP!Source(r, k)
        \/ <<r, SP!LastOn(r, k)>> \in missed
        \/ SP!MovedAway(r, k)
    BY <1>1, <2>1, <2>2, <2>3, ConnectorConverges
       DEF SP!ConvergesUnlessMissed, PipelineInv, ConnectorInv
  <2>5. SP!Source(r, k) = SourceRow(r, k)
    BY <2>3, SameRows DEF SP!Source, SourceRow, EventOf
  <2>6. QED
    BY <2>3, <2>4, <2>5, SameRows
<1>2. QED
  BY <1>1, PipelineReachable, PTL

------------------------------------------------------------------------------
(* No target row goes back.                                                  *)

LEMMA OrderUnlessStale ==
  ASSUME TypeOK, WholeInv, LogInv, ~stale
  PROVE  LogOrdered(log)
<1>1. ASSUME NEW n \in DOMAIN log PROVE Ordered(log[n])
  <2>1. log[n] \in Durable
    BY DEF Durable, ToSet
  <2>2. QED
    BY <2>1 DEF WholeInv, WholeTransactions, Whole
<1>2. QED
  BY <1>1 DEF LogInv, OnceUnlessStale, LogOrdered

LEMMA ValuesAscend ==
  ASSUME Ascending, TypeOK, WholeInv, LogInv, PipelineInv, S!Next,
         ~stale, sinkCrashes = 0, NEW r \in Relations, NEW k \in Keys,
         \A c \in OnKey(r, k) : Effects[c].op # "delete" /\ Effects[c].key = k
  PROVE  ~(table'[r][k].val < table[r][k].val)
<1>1. /\ SP!TypeOK /\ SP!ValueInv /\ SP!PollsInOrder /\ SP!Next
      /\ FromSource(log) /\ feed = FeedOf(log)
  BY LogFromSource, SameConnector DEF PipelineInv, ConnectorInv, SP!SinkInv
<1>2. table[r][k].val \in Nat
  BY <1>1 DEF SP!TypeOK, SP!Rows
<1>3. CASE table'[r][k] = table[r][k]
  BY <1>2, <1>3
<1>4. CASE table'[r][k] # table[r][k]
  <2>1. PICK n \in DOMAIN feed[r] : SP!Writes(r, k, n)
    BY <1>1, <1>4, ConnectorParameters, SP!RowsChange
  <2>2. n \in SP!On(r, k) /\ n = pos[r]
    BY <2>1 DEF SP!Writes
  <2>3. ASSUME NEW m \in SP!On(r, k), m <= n
        PROVE  \E c, d \in OnKey(r, k) : /\ c = d \/ Before(c, d)
                                         /\ feed[r][m] = EventOf(c)
                                         /\ feed[r][n] = EventOf(d)
    <3>1. m \in DOMAIN feed[r] /\ k \in {feed[r][m].key, feed[r][m].old}
      BY DEF SP!On
    <3>2. k \in {feed[r][n].key, feed[r][n].old}
      BY <2>2 DEF SP!On
    <3>3. InTurn(feed[r][m], feed[r][n], r)
      BY <1>1, <2>3, <3>1, OrderUnlessStale, FeedOrdered
    <3>4. PICK c, d \in AllChanges :
            /\ Rel(c) = r /\ Rel(d) = r /\ (c = d \/ Before(c, d))
            /\ feed[r][m] = EventOf(c) /\ feed[r][n] = EventOf(d)
      BY <3>3 DEF InTurn
    <3>5. c \in OnKey(r, k) /\ d \in OnKey(r, k)
      BY <3>1, <3>2, <3>4 DEF OnKey, AllChanges, EventOf
    <3>6. QED
      BY <3>4, <3>5
  <2>4. PICK d \in OnKey(r, k) : feed[r][n] = EventOf(d)
    <3>1. n \in Nat
      BY <1>1, <2>2, ConnectorParameters, SP!FeedType
    <3>2. n <= n
      BY <3>1
    <3>3. QED
      BY <2>2, <2>3, <3>2
  <2>5. \A c \in OnKey(r, k) : Effects[c].val \in Nat /\ Effects[c].op = "upsert"
    BY EffectsAssumption DEF OnKey
  <2>6. table'[r][k].val = feed[r][n].val
    <3>1. SP!PutsRow(feed[r][n], k)
      BY <2>4, <2>5 DEF SP!PutsRow, EventOf
    <3>2. QED
      BY <2>1, <3>1 DEF SP!Writes
  <2>7. CASE table[r][k].val = 0
    <3>1. table'[r][k].val \in Nat
      BY <2>4, <2>5, <2>6 DEF EventOf
    <3>2. \A v \in Nat : ~(v < 0)
      OBVIOUS
    <3>3. QED
      BY <2>7, <3>1, <3>2
  <2>8. CASE table[r][k].val # 0
    <3>1. PICK m \in SP!On(r, k) : m <= pos[r] /\ table[r][k].val = feed[r][m].val
      BY <1>1, <2>8 DEF SP!ValueInv, SP!Polled
    <3>2. PICK c, e \in OnKey(r, k) : /\ c = e \/ Before(c, e)
                                      /\ feed[r][m] = EventOf(c)
                                      /\ feed[r][n] = EventOf(e)
      BY <2>2, <2>3, <3>1
    <3>3. Effects[c].val <= Effects[e].val
      BY <2>5, <3>2 DEF Ascending
    <3>4. table[r][k].val = Effects[c].val /\ table'[r][k].val = Effects[e].val
      BY <2>6, <3>1, <3>2 DEF EventOf
    <3>5. \A v, w \in Nat : v <= w => ~(w < v)
      OBVIOUS
    <3>6. QED
      BY <2>5, <3>3, <3>4, <3>5
  <2>9. QED
    BY <2>7, <2>8
<1>5. QED
  BY <1>3, <1>4

\* If later changes of a row have larger values, a target row never returns to
\* an older one: while no producer session began before the end of the log and
\* the connector was not stopped, no step of either process writes a row back,
\* though the log and the topics grow and the connector lags behind at will.
THEOREM NeverReturns ==
  ASSUME Ascending
  PROVE  PipelineSpec => NoReturn
<1>1. ASSUME TypeOK, WholeInv, LogInv, PipelineInv,
             [PipelineNext]_<<vars, feed, sinkVars, ahead>>
      PROVE  [\A r \in Relations : \A k \in Keys :
                table'[r][k].val < table[r][k].val =>
                  \/ stale \/ sinkCrashes > 0
                  \/ \E c \in OnKey(r, k) :
                       Effects[c].op = "delete" \/ Effects[c].key # k]_table
  <2>1. CASE ConnectorStep
    <3>1. S!Next
      BY <2>1 DEF ConnectorStep
    <3>2. sinkCrashes = 0 \/ sinkCrashes > 0
      BY <1>1, ConnectorParameters DEF PipelineInv, ConnectorInv, SP!TypeOK
    <3>3. QED
      BY <1>1, <3>1, <3>2, ValuesAscend
  <2>2. CASE ProducerStep \/ UNCHANGED <<vars, feed, sinkVars, ahead>>
    BY <2>2 DEF ProducerStep, sinkVars
  <2>3. QED
    BY <1>1, <2>1, <2>2 DEF PipelineNext
<1>2. QED
  BY <1>1, PipelineReachable, PTL DEF PipelineSpec, NoReturn

==============================================================================
