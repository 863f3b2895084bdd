---------------------------- MODULE CdcSinkProofs ----------------------------
(* Theorems about CdcSink: for every content of the topics, any number of     *)
(* tables, keys and schemas, both sinks, any number of crashes and of failed  *)
(* calls.                                                                     *)
EXTENDS CdcSink, DataLemmas

------------------------------------------------------------------------------
(* Type correctness.  What is added to it is that a process is started no     *)
(* more often than it may be, so that what panics stop is bounded too.         *)

StartsBounded == phase = "running" => crashes <= MaxCrashes

LEMMA FeedType ==
  ASSUME TypeOK
  PROVE  /\ \A t \in Tables : t \in Topics /\ feed[t] \in Seq(EventRecs)
         /\ \A t \in Tables : \A n \in DOMAIN feed[t] :
              feed[t][n] \in EventRecs /\ n \in Nat /\ n \in 1..Len(feed[t])
         /\ feed["relations"] \in Seq(RelationRecs) /\ "relations" \in Topics
         /\ \A p \in Topics : Len(feed[p]) \in Nat /\ DOMAIN feed[p] = 1..Len(feed[p])
<1>1. /\ \A t \in Tables : t \in Topics /\ feed[t] \in Seq(EventRecs)
      /\ feed["relations"] \in Seq(RelationRecs) /\ "relations" \in Topics
  BY DEF TypeOK, IsFeed, Topics
<1>2. \A t \in Tables : \A n \in DOMAIN feed[t] :
        feed[t][n] \in EventRecs /\ n \in Nat /\ n \in 1..Len(feed[t])
  BY <1>1
<1>3. \A t \in Tables : Len(feed[t]) \in Nat /\ DOMAIN feed[t] = 1..Len(feed[t])
  BY <1>1
<1>4. /\ Len(feed["relations"]) \in Nat
      /\ DOMAIN feed["relations"] = 1..Len(feed["relations"])
  BY <1>1
<1>5. QED
  BY <1>1, <1>2, <1>3, <1>4 DEF Topics

LEMMA CacheType ==
  ASSUME TypeOK, NEW n \in 0..Len(feed["relations"])
  PROVE  CacheOf(n) \in [Tables -> Schemas \cup {0}]
<1>1. SUFFICES ASSUME NEW t \in Tables
               PROVE  CacheOf(n)[t] \in Schemas \cup {0}
  BY DEF CacheOf
<1> DEFINE about == {i \in 1..n : feed["relations"][i].table = t}
<1>2. CASE about = {}
  BY <1>2 DEF CacheOf
<1>3. CASE about # {}
  <2>1. n \in Nat /\ about \in SUBSET (0..n)
    BY FeedType
  <2>2. \E m \in about : \A x \in about : x <= m
    <3> HIDE DEF about
    <3>1. QED
      BY <1>3, <2>1, GreatestExists
  <2>3. PICK i \in about :
          CacheOf(n)[t] = feed["relations"][i].schema
    BY <1>3, <2>2 DEF CacheOf
  <2>4. feed["relations"][i] \in RelationRecs
    BY <2>3, FeedType
  <2>5. QED
    BY <2>3, <2>4 DEF RelationRecs
<1>4. QED
  BY <1>2, <1>3

LEMMA LayoutType ==
  ASSUME TypeOK, NEW t \in Tables, NEW e \in EventRecs
  PROVE  /\ e.op \in Ops /\ e.key \in Keys /\ e.old \in Keys
         /\ Statement(t, e) \in Schemas \cup {0}
         /\ Layout(t, e) \in Schemas \cup {0}
         /\ Row(t, e) \in Rows
         /\ Write(t, e) \in [Keys -> Rows]
         /\ Prepared(t, e) \in [Ops -> [Tables -> Schemas \cup {0}]]
<1>1. e.op \in Ops /\ e.key \in Keys /\ e.old \in Keys /\ e.val \in Nat
  BY DEF EventRecs, Ops
<1>2. relCache[t] \in Schemas \cup {0} /\ stmts[e.op][t] \in Schemas \cup {0}
  BY <1>1 DEF TypeOK
<1>3. Statement(t, e) \in Schemas \cup {0} /\ Layout(t, e) \in Schemas \cup {0}
  BY <1>2 DEF Statement, Layout
<1>4. Row(t, e) \in Rows /\ NoRow \in Rows
  BY <1>1, <1>3 DEF Row, Rows, NoRow
<1>5. \A k \in Keys : table[t][k] \in Rows
  BY DEF TypeOK
<1>6. Write(t, e) \in [Keys -> Rows]
  BY <1>4, <1>5 DEF Write
<1>7. Prepared(t, e) \in [Ops -> [Tables -> Schemas \cup {0}]]
  BY <1>1, <1>3 DEF Prepared, TypeOK
<1>8. QED
  BY <1>1, <1>3, <1>4, <1>6, <1>7

\* The parts of TypeOK that handling an event leaves alone.
LEMMA HandEventKeeps ==
  ASSUME TypeOK, StartsBounded, NEW t \in Tables, NEW n \in DOMAIN feed[t],
         HandEvent(t, n)
  PROVE  /\ IsFeed(feed)' /\ platform' \in Platforms /\ phase' = "running"
         /\ relCache' \in [Tables -> Schemas \cup {0}]
         /\ pos' \in [Topics -> Nat] /\ \A p \in Topics : pos'[p] <= Len(feed'[p])
         /\ hand' = Idle
         /\ crashes' \in 0..(MaxCrashes + 1) /\ crashes' <= MaxCrashes
         /\ feed' = feed /\ <<t, n>> \in Tables \X Nat
         /\ feed[t][n] \in EventRecs /\ n <= Len(feed[t])
<1>1. feed[t][n] \in EventRecs /\ n \in Nat /\ n <= Len(feed[t])
  BY FeedType
<1>2. QED
  BY <1>1 DEF HandEvent, TypeOK, StartsBounded

LEMMA SinkTypeStep ==
  ASSUME TypeOK, StartsBounded, [Next]_vars
  PROVE  TypeOK' /\ StartsBounded'
<1>1. CASE Start
  <2>1. PICK n \in 0..Len(feed["relations"]) :
          /\ relCache' = CacheOf(n)
          /\ \E c \in {committed["relations"], n} :
               committed' = [committed EXCEPT !["relations"] = c]
    BY <1>1 DEF Start
  <2>2. PICK c \in {committed["relations"], n} :
          committed' = [committed EXCEPT !["relations"] = c]
    BY <2>1
  <2>3. c \in Nat /\ c <= Len(feed["relations"])
    BY <2>1, <2>2, FeedType DEF TypeOK
  <2>4. /\ committed' \in [Topics -> Nat]
        /\ \A p \in Topics : committed'[p] <= Len(feed[p])
    BY <2>2, <2>3 DEF TypeOK
  <2>5. relCache' \in [Tables -> Schemas \cup {0}]
    BY <2>1, CacheType
  <2>6. stmts' \in [Ops -> [Tables -> Schemas \cup {0}]]
    BY <1>1 DEF Start, NoStatements
  <2>7. /\ pos' = committed' /\ phase' = "running" /\ conn' = TRUE /\ hand' = Idle
        /\ crashes <= MaxCrashes
        /\ UNCHANGED <<feed, platform, table, crashes, drops, missed>>
    BY <1>1 DEF Start
  <2>8. QED
    BY <2>4, <2>5, <2>6, <2>7 DEF TypeOK, StartsBounded, Start
<1>2. CASE Poll
  <2>1. PICK p \in Topics : /\ pos[p] < Len(feed[p])
                            /\ pos' = [pos EXCEPT ![p] = @ + 1]
                            /\ hand' = <<p, pos[p] + 1>>
    BY <1>2 DEF Poll
  <2>2. pos[p] \in Nat /\ Len(feed[p]) \in Nat /\ DOMAIN feed[p] = 1..Len(feed[p])
    BY FeedType DEF TypeOK
  <2>3. hand' \in Topics \X Nat /\ hand'[2] \in DOMAIN feed[hand'[1]]
    BY <2>1, <2>2
  <2>4. pos' \in [Topics -> Nat] /\ \A q \in Topics : pos'[q] <= Len(feed[q])
    BY <2>1, <2>2 DEF TypeOK
  <2>5. QED
    BY <1>2, <2>3, <2>4 DEF Poll, TypeOK, StartsBounded
<1>3. ASSUME NEW t \in Tables, NEW n \in DOMAIN feed[t], HandEvent(t, n),
             conn' \in BOOLEAN,
             stmts' = stmts \/ stmts' = Prepared(t, feed[t][n]),
             table' = table \/ table' = [table EXCEPT ![t] = Write(t, feed[t][n])],
             \E c \in {committed[t], n} :
               committed' = [committed EXCEPT ![t] = c],
             drops' = drops \/ (drops < MaxDrops /\ drops' = drops + 1),
             missed' \subseteq missed \cup {<<t, n>>}
      PROVE  TypeOK' /\ StartsBounded'
  <2>1. feed[t][n] \in EventRecs /\ n \in Nat /\ n <= Len(feed[t]) /\ t \in Topics
    BY FeedType
  <2>2. stmts' \in [Ops -> [Tables -> Schemas \cup {0}]]
    BY <1>3, <2>1, LayoutType DEF TypeOK
  <2>3. table' \in [Tables -> [Keys -> Rows]]
    <3>1. Write(t, feed[t][n]) \in [Keys -> Rows]
      BY <2>1, LayoutType
    <3>2. table \in [Tables -> [Keys -> Rows]]
      BY DEF TypeOK
    <3>3. QED
      BY <1>3, <3>1, <3>2
  <2>4. /\ committed' \in [Topics -> Nat]
        /\ \A p \in Topics : committed'[p] <= Len(feed[p])
    BY <1>3, <2>1 DEF TypeOK
  <2>5. drops' \in 0..MaxDrops
    BY <1>3, BoundsAssumption DEF TypeOK
  <2>6. missed' \subseteq Tables \X Nat
    BY <1>3, <2>1 DEF TypeOK
  <2>7. QED
    BY <1>3, <2>2, <2>3, <2>4, <2>5, <2>6, HandEventKeeps DEF TypeOK, StartsBounded
<1>4. ASSUME TypeOK, NEW t \in Tables
      PROVE  \E c \in {committed[t], 0} : committed = [committed EXCEPT ![t] = c]
  BY <1>4 DEF TypeOK
<1>5. CASE HandleWritten
  <2>1. PICK t \in Tables, n \in Nat :
          /\ n \in DOMAIN feed[t] /\ HandEvent(t, n)
          /\ table' = [table EXCEPT ![t] = Write(t, feed[t][n])]
          /\ stmts' = Prepared(t, feed[t][n])
          /\ \E c \in {committed[t], OffsetAfter(n)} :
               committed' = [committed EXCEPT ![t] = c]
          /\ missed' = IF AsSent(t, feed[t][n]) THEN missed \ {<<t, n>>}
                       ELSE missed \cup {<<t, n>>}
          /\ UNCHANGED <<conn, drops>>
    BY <1>5, FeedType DEF HandleWritten
  <2>2. QED
    BY <1>3, <2>1 DEF OffsetAfter, TypeOK
<1>6. CASE HandleFailed
  <2>1. PICK t \in Tables, n \in Nat :
          /\ n \in DOMAIN feed[t] /\ HandEvent(t, n)
          /\ stmts' = CacheAfterFailure(t, feed[t][n])
          /\ missed' = missed \cup {<<t, n>>}
          /\ UNCHANGED <<conn, committed, table, drops>>
    BY <1>6, FeedType DEF HandleFailed
  <2>2. \E c \in {committed[t], n} : committed' = [committed EXCEPT ![t] = c]
    BY <1>4, <2>1 DEF TypeOK
  <2>3. stmts' = stmts \/ stmts' = Prepared(t, feed[t][n])
    BY <2>1 DEF CacheAfterFailure
  <2>4. QED
    BY <1>3, <2>1, <2>2, <2>3 DEF TypeOK
<1>7. CASE HandleInterrupted
  <2>1. PICK t \in Tables, n \in Nat :
          /\ n \in DOMAIN feed[t] /\ HandEvent(t, n)
          /\ drops < MaxDrops /\ drops' = drops + 1
          /\ conn' = Is("feldera")
          /\ stmts' = Prepared(t, feed[t][n])
          /\ table' \in {table, [table EXCEPT ![t] = Write(t, feed[t][n])]}
          /\ missed' = missed \cup {<<t, n>>}
          /\ UNCHANGED committed
    BY <1>7, FeedType DEF HandleInterrupted
  <2>2. \E c \in {committed[t], n} : committed' = [committed EXCEPT ![t] = c]
    BY <1>4, <2>1 DEF TypeOK
  <2>3. conn' \in BOOLEAN
    BY <2>1 DEF Is
  <2>4. QED
    BY <1>3, <2>1, <2>2, <2>3
<1>8. CASE HandleRelation
  <2>1. feed["relations"][hand[2]] \in RelationRecs
    BY <1>8, FeedType DEF HandleRelation, TypeOK, Idle
  <2>2. relCache' \in [Tables -> Schemas \cup {0}]
    BY <1>8, <2>1 DEF HandleRelation, RelationRecs, TypeOK
  <2>3. QED
    BY <1>8, <2>2 DEF HandleRelation, TypeOK, StartsBounded
<1>9. CASE AutoCommit
  BY <1>9 DEF AutoCommit, TypeOK, StartsBounded
<1>10. CASE Crash \/ HandlePanics
  <2>1. Stop /\ phase = "running"
    BY <1>10 DEF Crash, HandlePanics
  <2>2. crashes' \in 0..(MaxCrashes + 1) /\ phase' = "down"
    BY <2>1, BoundsAssumption DEF Stop, TypeOK, StartsBounded
  <2>3. missed' \subseteq Tables \X Nat
    BY <2>1, TopicsAssumption DEF Stop, TypeOK, Idle
  <2>4. QED
    BY <2>1, <2>2, <2>3 DEF Stop, TypeOK, StartsBounded
<1>11. CASE UNCHANGED vars
  BY <1>11 DEF vars, TypeOK, StartsBounded
<1>12. QED
  BY <1>1, <1>2, <1>5, <1>6, <1>7, <1>8, <1>9, <1>10, <1>11 DEF Next, Handle

LEMMA SinkInitType ==
  ASSUME Init
  PROVE  TypeOK /\ StartsBounded
<1>1. IsFeed(feed) /\ Idle = hand /\ platform \in Platforms /\ conn \in BOOLEAN
  BY TopicsAssumption DEF Init
<1>2. \A p \in Topics : Len(feed[p]) \in Nat
  <2>1. \A t \in Tables : Len(feed[t]) \in Nat
    BY <1>1 DEF IsFeed
  <2>2. Len(feed["relations"]) \in Nat
    BY <1>1 DEF IsFeed
  <2>3. QED
    BY <2>1, <2>2 DEF Topics
<1>3. /\ pos \in [Topics -> Nat] /\ \A p \in Topics : pos[p] <= Len(feed[p])
      /\ committed \in [Topics -> Nat]
      /\ \A p \in Topics : committed[p] <= Len(feed[p])
  BY <1>2 DEF Init
<1>4. NoRow \in Rows
  BY DEF NoRow, Rows
<1>5. QED
  BY <1>1, <1>3, <1>4, BoundsAssumption
     DEF Init, TypeOK, StartsBounded, NoStatements

LEMMA SinkTypeReachable == Spec => [](TypeOK /\ StartsBounded)
<1>1. Init => TypeOK /\ StartsBounded
  BY SinkInitType
<1>2. QED
  BY <1>1, SinkTypeStep, PTL DEF Spec

\* Every reachable state is well typed: no offset is beyond its topic, what is
\* in hand is a record of a topic, and a row is laid out by a schema.
THEOREM SinkTypeCorrect == Spec => []TypeOK
  BY SinkTypeReachable, PTL

------------------------------------------------------------------------------
(* Convergence.  The inductive invariant says it of every key whose last      *)
(* event has been polled, however far the table was behind or ahead: its row  *)
(* is the source's, or that event was missed the last time, or it is in hand. *)
(* Events before the last leave the row as wrong as they like; a restart that *)
(* goes back only takes keys out of the claim.                                *)

Rests(t, k) ==
  \/ table[t][k] = Source(t, k)
  \/ <<t, LastOn(t, k)>> \in missed
  \/ MovedAway(t, k)

InHand(t, k) == phase = "running" /\ hand = <<t, LastOn(t, k)>>

Converging ==
  \A t \in Tables : \A k \in Keys :
    IF On(t, k) = {} THEN table[t][k] = NoRow
    ELSE LastOn(t, k) <= pos[t] => Rests(t, k) \/ InHand(t, k)

PollsInOrder ==
  /\ \A t \in Tables : committed[t] <= pos[t]
  /\ hand[1] \in Tables => hand[2] = pos[hand[1]]

SinkInv == Converging /\ PollsInOrder

LEMMA LastExists ==
  ASSUME TypeOK, NEW t \in Tables, NEW k \in Keys, On(t, k) # {}
  PROVE  LastOn(t, k) \in On(t, k) /\ \A m \in On(t, k) : m <= LastOn(t, k)
<1>1. Len(feed[t]) \in Nat /\ On(t, k) \in SUBSET (0..Len(feed[t]))
  BY FeedType DEF On
<1>2. \E n \in On(t, k) : \A m \in On(t, k) : m <= n
  BY <1>1, GreatestExists
<1>3. QED
  BY <1>2 DEF LastOn

LEMMA LastType ==
  ASSUME TypeOK, NEW t \in Tables, NEW k \in Keys, On(t, k) # {}
  PROVE  /\ LastOn(t, k) \in Nat /\ LastOn(t, k) \in DOMAIN feed[t]
         /\ feed[t][LastOn(t, k)] \in EventRecs
         /\ k \in {feed[t][LastOn(t, k)].key, feed[t][LastOn(t, k)].old}
  BY LastExists, FeedType DEF On

\* Writing an event that does not bear on a key leaves its row.
LEMMA WriteElsewhere ==
  ASSUME TypeOK, NEW t \in Tables, NEW n \in DOMAIN feed[t], NEW k \in Keys,
         n \notin On(t, k)
  PROVE  Write(t, feed[t][n])[k] = table[t][k]
<1>1. k # feed[t][n].key /\ k # feed[t][n].old
  BY DEF On
<1>2. QED
  BY <1>1 DEF Write

\* Writing the last event on a key as it was sent leaves the source's row.
LEMMA WriteLast ==
  ASSUME TypeOK, NEW t \in Tables, NEW k \in Keys, On(t, k) # {},
         AsSent(t, feed[t][LastOn(t, k)])
  PROVE  \/ Write(t, feed[t][LastOn(t, k)])[k] = Source(t, k)
         \/ MovedAway(t, k)
<1> DEFINE e == feed[t][LastOn(t, k)]
<1>1. e \in EventRecs /\ k \in {e.key, e.old}
  BY LastType
<1>2. e.op = "delete" => e.old = e.key
  BY LastType DEF TypeOK, IsFeed
<1>3. e.op \in {"upsert", "delete"} /\ platform \in {"postgres", "feldera"}
  BY <1>1, TopicsAssumption DEF EventRecs, TypeOK
<1> HIDE DEF e
<1>4. Source(t, k) = IF e.op = "upsert" /\ e.key = k
                     THEN [val |-> e.val, schema |-> e.schema] ELSE NoRow
  BY DEF Source, e
<1>5. MovedAway(t, k) <=> platform = "postgres" /\ e.key # k
  BY DEF MovedAway, Is, e
<1>6. AsSent(t, e)
  BY DEF e
<1>7. Write(t, e)[k] = Source(t, k) \/ MovedAway(t, k)
  <2>1. CASE e.op = "delete"
    BY <1>1, <1>2, <1>4, <2>1 DEF Write
  <2>2. CASE e.op = "upsert" /\ e.key = k
    BY <1>3, <1>4, <1>6, <2>2 DEF Write, Row, AsSent
  <2>3. CASE e.op = "upsert" /\ e.key # k
    BY <1>1, <1>3, <1>4, <1>5, <2>3 DEF Write, Is
  <2>4. QED
    BY <1>3, <2>1, <2>2, <2>3
<1>8. QED
  BY <1>7 DEF e

LEMMA SameEventsOn ==
  ASSUME feed' = feed, platform' = platform, NEW t, NEW k
  PROVE  /\ On(t, k)' = On(t, k) /\ LastOn(t, k)' = LastOn(t, k)
         /\ Source(t, k)' = Source(t, k) /\ MovedAway(t, k)' = MovedAway(t, k)
<1>1. On(t, k)' = On(t, k)
  BY DEF On
<1>2. LastOn(t, k)' = LastOn(t, k)
  BY <1>1 DEF LastOn
<1>3. QED
  BY <1>1, <1>2 DEF Source, MovedAway, Is

\* A step that writes no row keeps what holds of each key, if what was in hand
\* is still there or is missed.
LEMMA ConvergingKept ==
  ASSUME TypeOK, Converging, UNCHANGED <<feed, platform, table>>,
         missed \subseteq missed',
         \A t \in Tables : pos'[t] <= pos[t],
         \A t \in Tables : \A n : phase = "running" /\ hand = <<t, n>> =>
           \/ <<t, n>> \in missed'
           \/ phase' = "running" /\ hand' = hand,
         pos' \in [Topics -> Nat]
  PROVE  Converging'
<1>1. SUFFICES ASSUME NEW t \in Tables, NEW k \in Keys
               PROVE  IF On(t, k) = {} THEN table'[t][k] = NoRow
                      ELSE LastOn(t, k) <= pos'[t] =>
                             \/ table'[t][k] = Source(t, k)
                             \/ <<t, LastOn(t, k)>> \in missed'
                             \/ MovedAway(t, k)
                             \/ phase' = "running" /\ hand' = <<t, LastOn(t, k)>>
  BY SameEventsOn DEF Converging, Rests, InHand
<1>2. CASE On(t, k) = {}
  BY <1>2 DEF Converging
<1>3. CASE On(t, k) # {}
  <2>1. t \in Topics /\ LastOn(t, k) \in Nat /\ pos[t] \in Nat /\ pos'[t] \in Nat
    BY <1>3, LastType DEF Topics, TypeOK
  <2>2. LastOn(t, k) <= pos'[t] => LastOn(t, k) <= pos[t]
    BY <2>1
  <2>3. QED
    BY <1>3, <2>2 DEF Converging, Rests, InHand
<1>4. QED
  BY <1>2, <1>3

\* Handling the event in hand settles the keys it is the last event of, and
\* leaves alone those whose last event is behind it.
LEMMA ConvergingHandled ==
  ASSUME TypeOK, SinkInv, NEW t \in Tables, NEW n \in DOMAIN feed[t],
         HandEvent(t, n),
         \/ table' = table
         \/ table' = [table EXCEPT ![t] = Write(t, feed[t][n])],
         \/ missed' = missed \cup {<<t, n>>}
         \/ /\ missed' = missed \ {<<t, n>>} /\ AsSent(t, feed[t][n])
            /\ table' = [table EXCEPT ![t] = Write(t, feed[t][n])]
  PROVE  Converging'
<1>1. /\ UNCHANGED <<feed, platform, pos>> /\ hand = <<t, n>> /\ n = pos[t]
      /\ n \in Nat
  BY FeedType DEF HandEvent, SinkInv, PollsInOrder
<1>2. SUFFICES ASSUME NEW u \in Tables, NEW k \in Keys
               PROVE  IF On(u, k) = {} THEN table'[u][k] = NoRow
                      ELSE LastOn(u, k) <= pos[u] =>
                             \/ table'[u][k] = Source(u, k)
                             \/ <<u, LastOn(u, k)>> \in missed'
                             \/ MovedAway(u, k)
  BY <1>1, SameEventsOn DEF Converging, Rests, InHand
<1>3. table \in [Tables -> [Keys -> Rows]]
  BY DEF TypeOK
<1>4. ASSUME u # t \/ n \notin On(u, k) PROVE table'[u][k] = table[u][k]
  <2>1. CASE u # t
    BY <1>3, <2>1
  <2>2. CASE u = t /\ n \notin On(t, k)
    BY <1>3, <2>2, WriteElsewhere
  <2>3. QED
    BY <1>4, <2>1, <2>2
<1>5. CASE On(u, k) = {}
  BY <1>4, <1>5 DEF SinkInv, Converging
<1>6. ASSUME On(u, k) # {}, LastOn(u, k) <= pos[u],
             ~(u = t /\ LastOn(u, k) = n)
      PROVE  \/ table'[u][k] = Source(u, k)
             \/ <<u, LastOn(u, k)>> \in missed'
             \/ MovedAway(u, k)
  <2>1. u # t \/ n \notin On(u, k)
    <3>1. ASSUME u = t, n \in On(u, k) PROVE FALSE
      <4>1. n <= LastOn(u, k) /\ LastOn(u, k) \in Nat
        BY <1>6, <3>1, LastExists, LastType
      <4>2. QED
        BY <1>1, <1>6, <3>1, <4>1
    <3>2. QED
      BY <3>1
  <2>2. table'[u][k] = table[u][k]
    BY <1>4, <2>1
  <2>3. <<u, LastOn(u, k)>> # <<t, n>> /\ hand # <<u, LastOn(u, k)>>
    BY <1>1, <1>6
  <2>4. Rests(u, k)
    BY <1>6, <2>3 DEF SinkInv, Converging, InHand
  <2>5. QED
    BY <2>2, <2>3, <2>4 DEF Rests
<1>7. ASSUME On(u, k) # {}, u = t, LastOn(u, k) = n
      PROVE  \/ table'[u][k] = Source(u, k)
             \/ <<u, LastOn(u, k)>> \in missed'
             \/ MovedAway(u, k)
  <2>1. CASE missed' = missed \cup {<<t, n>>}
    BY <1>7, <2>1
  <2>2. CASE /\ AsSent(t, feed[t][n])
             /\ table' = [table EXCEPT ![t] = Write(t, feed[t][n])]
    <3>1. table'[u][k] = Write(t, feed[t][n])[k]
      BY <1>3, <1>7, <2>2
    <3>2. QED
      BY <1>7, <2>2, <3>1, WriteLast
  <2>3. QED
    BY <2>1, <2>2
<1>8. QED
  BY <1>5, <1>6, <1>7

LEMMA SinkStep ==
  ASSUME TypeOK, SinkInv, TypeOK', [Next]_vars
  PROVE  SinkInv'
<1>1. /\ pos' \in [Topics -> Nat] /\ pos \in [Topics -> Nat]
      /\ committed \in [Topics -> Nat]
      /\ \A t \in Tables : t \in Topics /\ t # "none" /\ t # "relations"
  BY TopicsAssumption DEF TypeOK, Topics
<1>2. CASE Start
  <2>1. /\ UNCHANGED <<feed, platform, table, missed>> /\ phase = "down"
        /\ hand' = Idle /\ pos' = committed'
    BY <1>2 DEF Start
  <2>2. PICK c : committed' = [committed EXCEPT !["relations"] = c]
    BY <1>2 DEF Start
  <2>3. \A t \in Tables : committed'[t] = committed[t] /\ committed[t] <= pos[t]
    BY <1>1, <2>2 DEF SinkInv, PollsInOrder
  <2>4. Converging'
    BY <1>1, <2>1, <2>3, ConvergingKept DEF SinkInv
  <2>5. PollsInOrder'
    BY <1>1, <2>1 DEF PollsInOrder, Idle
  <2>6. QED
    BY <2>4, <2>5 DEF SinkInv
<1>3. CASE Poll
  <2>1. PICK p \in Topics : /\ pos[p] < Len(feed[p])
                            /\ pos' = [pos EXCEPT ![p] = @ + 1]
                            /\ hand' = <<p, pos[p] + 1>>
    BY <1>3 DEF Poll
  <2>2. /\ UNCHANGED <<feed, platform, table, missed, committed>>
        /\ phase' = "running" /\ hand = Idle
    BY <1>3 DEF Poll
  <2>3. ASSUME NEW t \in Tables, NEW k \in Keys
        PROVE  IF On(t, k) = {} THEN table'[t][k] = NoRow
               ELSE LastOn(t, k) <= pos'[t] =>
                      \/ table'[t][k] = Source(t, k)
                      \/ <<t, LastOn(t, k)>> \in missed'
                      \/ MovedAway(t, k)
                      \/ phase' = "running" /\ hand' = <<t, LastOn(t, k)>>
    <3>1. CASE On(t, k) = {}
      BY <2>2, <3>1 DEF SinkInv, Converging
    <3>2. ASSUME On(t, k) # {}, LastOn(t, k) <= pos'[t]
          PROVE  \/ table[t][k] = Source(t, k)
                 \/ <<t, LastOn(t, k)>> \in missed
                 \/ MovedAway(t, k)
                 \/ hand' = <<t, LastOn(t, k)>>
      <4>1. LastOn(t, k) \in Nat /\ pos[t] \in Nat
        BY <1>1, <3>2, LastType
      <4>2. CASE LastOn(t, k) <= pos[t]
        BY <1>1, <2>2, <3>2, <4>2 DEF SinkInv, Converging, Rests, InHand, Idle
      <4>3. CASE p = t /\ LastOn(t, k) = pos[t] + 1
        BY <2>1, <4>3
      <4>4. QED
        BY <1>1, <2>1, <3>2, <4>1, <4>2, <4>3
    <3>3. QED
      BY <2>2, <3>1, <3>2
  <2>4. Converging'
    BY <2>2, <2>3, SameEventsOn DEF Converging, Rests, InHand
  <2>5. PollsInOrder'
    <3>1. \A t \in Tables : committed'[t] <= pos'[t]
      BY <1>1, <2>1, <2>2 DEF SinkInv, PollsInOrder
    <3>2. hand'[2] = pos'[hand'[1]]
      BY <1>1, <2>1
    <3>3. QED
      BY <3>1, <3>2 DEF PollsInOrder
  <2>6. QED
    BY <2>4, <2>5 DEF SinkInv
<1>4. ASSUME NEW t \in Tables, NEW n \in Nat, n \in DOMAIN feed[t],
             HandEvent(t, n),
             \/ committed' = committed
             \/ \E c \in {committed[t], n} : committed' = [committed EXCEPT ![t] = c]
      PROVE  PollsInOrder'
  <2>1. hand' = Idle /\ pos' = pos /\ n = pos[t]
    BY <1>4 DEF HandEvent, SinkInv, PollsInOrder
  <2>2. \A u \in Tables : committed'[u] <= pos[u]
    BY <1>1, <1>4, <2>1 DEF SinkInv, PollsInOrder
  <2>3. QED
    BY <1>1, <2>1, <2>2 DEF PollsInOrder, Idle
<1>5. CASE HandleWritten
  <2>1. PICK t \in Tables, n \in Nat :
          /\ n \in DOMAIN feed[t] /\ HandEvent(t, n)
          /\ table' = [table EXCEPT ![t] = Write(t, feed[t][n])]
          /\ \E c \in {committed[t], OffsetAfter(n)} :
               committed' = [committed EXCEPT ![t] = c]
          /\ missed' = IF AsSent(t, feed[t][n]) THEN missed \ {<<t, n>>}
                       ELSE missed \cup {<<t, n>>}
    BY <1>5, FeedType DEF HandleWritten
  <2>2. PollsInOrder'
    BY <1>4, <2>1 DEF OffsetAfter
  <2>3. Converging'
    BY <2>1, ConvergingHandled
  <2>4. QED
    BY <2>2, <2>3 DEF SinkInv
<1>6. CASE HandleFailed
  <2>1. PICK t \in Tables, n \in Nat :
          /\ n \in DOMAIN feed[t] /\ HandEvent(t, n)
          /\ missed' = missed \cup {<<t, n>>}
          /\ UNCHANGED <<committed, table>>
    BY <1>6, FeedType DEF HandleFailed
  <2>2. QED
    BY <1>4, <2>1, ConvergingHandled DEF SinkInv
<1>7. CASE HandleInterrupted
  <2>1. PICK t \in Tables, n \in Nat :
          /\ n \in DOMAIN feed[t] /\ HandEvent(t, n)
          /\ table' \in {table, [table EXCEPT ![t] = Write(t, feed[t][n])]}
          /\ missed' = missed \cup {<<t, n>>}
          /\ UNCHANGED committed
    BY <1>7, FeedType DEF HandleInterrupted
  <2>2. QED
    BY <1>4, <2>1, ConvergingHandled DEF SinkInv
<1>8. ASSUME UNCHANGED <<feed, platform, table, pos>>, missed \subseteq missed',
             \A t \in Tables : committed'[t] <= pos[t],
             \/ hand' = hand
             \/ hand' = Idle,
             \A t \in Tables : \A n : phase = "running" /\ hand = <<t, n>> =>
               \/ <<t, n>> \in missed'
               \/ phase' = "running" /\ hand' = hand
      PROVE  SinkInv'
  <2>1. \A t \in Tables : pos'[t] <= pos[t]
    BY <1>1, <1>8
  <2>2. Converging'
    BY <1>1, <1>8, <2>1, ConvergingKept DEF SinkInv
  <2>3. PollsInOrder'
    BY <1>1, <1>8 DEF SinkInv, PollsInOrder, Idle
  <2>4. QED
    BY <2>2, <2>3 DEF SinkInv
<1>9. CASE HandleRelation
  <2>1. /\ UNCHANGED <<feed, platform, table, pos, missed, committed>>
        /\ hand' = Idle /\ hand[1] = "relations"
    BY <1>9 DEF HandleRelation
  <2>2. QED
    BY <1>1, <1>8, <2>1 DEF SinkInv, PollsInOrder
<1>10. CASE AutoCommit
  <2>1. UNCHANGED <<feed, platform, table, pos, missed, hand, phase>>
        /\ committed' = pos
    BY <1>10 DEF AutoCommit
  <2>2. \A t \in Tables : committed'[t] <= pos[t]
    BY <1>1, <2>1
  <2>3. QED
    BY <1>8, <2>1, <2>2
<1>11. CASE Crash \/ HandlePanics
  <2>1. /\ UNCHANGED <<feed, platform, table, pos, hand, committed>>
        /\ missed' = IF hand[1] \in Tables THEN missed \cup {hand} ELSE missed
    BY <1>11 DEF Crash, HandlePanics, Stop
  <2>2. \A t \in Tables : \A n : hand = <<t, n>> => <<t, n>> \in missed'
    BY <2>1
  <2>3. QED
    BY <1>8, <2>1, <2>2 DEF SinkInv, PollsInOrder
<1>12. CASE UNCHANGED vars
  BY <1>8, <1>12 DEF vars, SinkInv, PollsInOrder
<1>13. QED
  BY <1>2, <1>3, <1>5, <1>6, <1>7, <1>9, <1>10, <1>11, <1>12 DEF Next, Handle

LEMMA SinkInvInit ==
  ASSUME Init
  PROVE  SinkInv
<1>1. /\ TypeOK /\ hand = Idle
      /\ \A t \in Tables : pos[t] = 0 /\ committed[t] = 0 /\ t # "none"
      /\ \A t \in Tables : \A k \in Keys : table[t][k] = NoRow
  <2>1. TypeOK
    BY SinkInitType
  <2>2. QED
    BY <2>1, TopicsAssumption DEF Init, Topics
<1>2. \A t \in Tables : \A k \in Keys : On(t, k) # {} => ~(LastOn(t, k) <= pos[t])
  BY <1>1, LastType, FeedType
<1>3. QED
  BY <1>1, <1>2 DEF SinkInv, Converging, PollsInOrder, Idle

LEMMA ConvergedOnceCaughtUp ==
  ASSUME TypeOK, SinkInv
  PROVE  ConvergesUnlessMissed
<1>1. SUFFICES ASSUME CaughtUp, NEW t \in Tables, NEW k \in Keys
               PROVE  IF On(t, k) = {} THEN table[t][k] = NoRow ELSE Rests(t, k)
  BY DEF ConvergesUnlessMissed, Rests
<1>2. CASE On(t, k) # {}
  <2>1. LastOn(t, k) <= pos[t]
    BY <1>1, <1>2, LastType, FeedType DEF CaughtUp
  <2>2. ~InHand(t, k)
    BY <1>1, TopicsAssumption DEF CaughtUp, InHand, Idle
  <2>3. QED
    BY <1>1, <1>2, <2>1, <2>2 DEF SinkInv, Converging
<1>3. QED
  BY <1>1, <1>2 DEF SinkInv, Converging

\* Whatever the topics hold and whenever the process is stopped and meets its
\* events again, a row of the target is the source's once all is consumed, but
\* for the events the loop has logged as failed, that a crash or a failed call
\* left undecided, or that moved the row out of postgres's sight.
THEOREM SinkConverges == Spec => []ConvergesUnlessMissed
<1>1. TypeOK /\ TypeOK' /\ SinkInv /\ [Next]_vars => SinkInv'
  BY SinkStep
<1>2. QED
  BY <1>1, SinkInvInit, ConvergedOnceCaughtUp, SinkTypeCorrect, PTL DEF Spec

------------------------------------------------------------------------------
(* What a row holds before its last event is polled: unless the process was   *)
(* started again, nothing, or the value of an event it has polled.            *)

Polled(t, k) ==
  \/ table[t][k].val = 0
  \/ /\ phase = "running"
     /\ \E n \in On(t, k) : n <= pos[t] /\ table[t][k].val = feed[t][n].val

ValueInv == crashes = 0 => \A t \in Tables : \A k \in Keys : Polled(t, k)

PutsRow(e, k) == e.op = "upsert" /\ e.key = k /\ e.form = "plain"

\* A step that changes the row of k takes it from the event polled last, n.
Writes(t, k, n) ==
  /\ phase' = "running" /\ UNCHANGED <<feed, pos, crashes>>
  /\ n = pos[t] /\ n \in On(t, k)
  /\ table'[t][k].val \in {0, feed[t][n].val}
  /\ PutsRow(feed[t][n], k) => table'[t][k].val = feed[t][n].val

LEMMA WrittenValue ==
  ASSUME TypeOK, NEW t \in Tables, NEW n \in DOMAIN feed[t], NEW k \in Keys
  PROVE  LET e == feed[t][n] IN
         LET row == Write(t, e)[k] IN
         /\ row = table[t][k] \/ row.val \in {0, e.val}
         /\ PutsRow(e, k) => row.val = e.val
<1> DEFINE e == feed[t][n]
<1>1. e \in EventRecs
  BY FeedType
<1> HIDE DEF e
<1>2. Write(t, e)[k] \in {Row(t, e), NoRow, table[t][k]}
  BY <1>1 DEF Write
<1>3. PutsRow(e, k) => Write(t, e)[k] = Row(t, e)
  BY <1>1 DEF Write, PutsRow
<1>4. Row(t, e).val \in {0, e.val} /\ NoRow.val = 0
  BY DEF Row, NoRow
<1>5. e.form = "plain" => Row(t, e).val = e.val
  BY DEF Row
<1>6. QED
  BY <1>2, <1>3, <1>4, <1>5 DEF e, PutsRow

LEMMA RowsChange ==
  ASSUME TypeOK, PollsInOrder, [Next]_vars, NEW t \in Tables, NEW k \in Keys,
         table'[t][k] # table[t][k]
  PROVE  \E n \in DOMAIN feed[t] : Writes(t, k, n)
<1>1. ASSUME NEW u \in Tables, NEW n \in DOMAIN feed[u], HandEvent(u, n),
             table' \in {table, [table EXCEPT ![u] = Write(u, feed[u][n])]}
      PROVE  \E m \in DOMAIN feed[t] : Writes(t, k, m)
  <2>1. n = pos[u] /\ UNCHANGED <<feed, pos, crashes>> /\ phase' = "running"
    BY <1>1 DEF HandEvent, PollsInOrder
  <2>2. u = t /\ table'[t][k] = Write(t, feed[t][n])[k]
    BY <1>1 DEF TypeOK
  <2>3. n \in On(t, k)
    BY <2>2, WriteElsewhere
  <2>4. Writes(t, k, n)
    BY <2>1, <2>2, <2>3, WrittenValue DEF Writes
  <2>5. QED
    BY <2>2, <2>4
<1>2. CASE HandleWritten \/ HandleInterrupted
  <2>1. \E u \in Tables : \E n \in DOMAIN feed[u] :
          /\ HandEvent(u, n)
          /\ table' \in {table, [table EXCEPT ![u] = Write(u, feed[u][n])]}
    BY <1>2 DEF HandleWritten, HandleInterrupted
  <2>2. QED
    BY <1>1, <2>1
<1>3. CASE ~(HandleWritten \/ HandleInterrupted)
  BY <1>3 DEF Next, Start, Poll, Handle, HandleFailed, HandleRelation, HandlePanics,
     AutoCommit, Crash, Stop, vars
<1>4. QED
  BY <1>2, <1>3

LEMMA ValueInit ==
  ASSUME Init
  PROVE  ValueInv
  BY DEF Init, ValueInv, Polled, NoRow

LEMMA ValueStep ==
  ASSUME TypeOK, TypeOK', PollsInOrder, ValueInv, [Next]_vars
  PROVE  ValueInv'
<1>1. SUFFICES ASSUME crashes' = 0, NEW t \in Tables, NEW k \in Keys
               PROVE  Polled(t, k)'
  BY DEF ValueInv
<1>2. CASE table'[t][k] # table[t][k]
  <2>1. PICK n \in DOMAIN feed[t] : Writes(t, k, n)
    BY <1>2, RowsChange
  <2>2. n <= pos[t] /\ On(t, k)' = On(t, k)
    BY <2>1, FeedType DEF Writes, On
  <2>3. QED
    BY <2>1, <2>2 DEF Writes, Polled
<1>3. CASE table'[t][k] = table[t][k]
  <2>1. /\ feed' = feed /\ crashes = 0
        /\ phase = "running" => phase' = "running" /\ pos[t] <= pos'[t]
    <3>1. t \in Topics /\ pos \in [Topics -> Nat] /\ crashes \in Nat
      BY BoundsAssumption DEF TypeOK, Topics
    <3>2. CASE Poll
      <4>1. PICK p \in Topics : pos' = [pos EXCEPT ![p] = @ + 1]
        BY <3>2 DEF Poll
      <4>2. pos[t] <= pos'[t]
        BY <3>1, <4>1
      <4>3. QED
        BY <1>1, <3>2, <4>2 DEF Poll
    <3>3. CASE Crash \/ HandlePanics
      BY <1>1, <3>1, <3>3 DEF Crash, HandlePanics, Stop
    <3>4. CASE ~(Poll \/ Crash \/ HandlePanics)
      <4>1. UNCHANGED <<feed, crashes>> /\ (Start \/ UNCHANGED <<pos, phase>>)
        BY <3>4 DEF Next, Start, Handle, HandleWritten, HandleInterrupted,
           HandleFailed, HandEvent, HandleRelation, AutoCommit, vars
      <4>2. QED
        BY <1>1, <3>1, <4>1 DEF Start
    <3>5. QED
      BY <3>2, <3>3, <3>4
  <2>2. CASE table[t][k].val = 0
    BY <1>3, <2>2 DEF Polled
  <2>3. CASE table[t][k].val # 0
    <3>1. PICK n \in On(t, k) : n <= pos[t] /\ table[t][k].val = feed[t][n].val
      BY <2>1, <2>3 DEF ValueInv, Polled
    <3>2. phase = "running"
      BY <2>1, <2>3 DEF ValueInv, Polled
    <3>3. n \in Nat /\ pos[t] \in Nat /\ pos'[t] \in Nat
      BY FeedType DEF On, TypeOK, Topics
    <3>4. n <= pos'[t] /\ n \in On(t, k)' /\ feed'[t][n] = feed[t][n]
      BY <2>1, <3>1, <3>2, <3>3 DEF On
    <3>5. QED
      BY <1>3, <2>1, <3>1, <3>2, <3>4 DEF Polled
  <2>4. QED
    BY <2>2, <2>3
<1>4. QED
  BY <1>2, <1>3

------------------------------------------------------------------------------
(* The topics grow while a connector reads them: in this module they do not,  *)
(* in Pipeline the producer writes them.                                      *)

TopicsGrow ==
  /\ IsFeed(feed')
  /\ \A p \in Topics :
       /\ Len(feed[p]) <= Len(feed'[p])
       /\ \A n \in DOMAIN feed[p] : feed'[p][n] = feed[p][n]
  /\ UNCHANGED <<platform, phase, conn, relCache, stmts, pos, hand, committed,
                 table, crashes, drops, missed>>

LEMMA GrowthType ==
  ASSUME TypeOK, TopicsGrow
  PROVE  TypeOK'
<1>1. /\ \A p \in Topics : Len(feed[p]) \in Nat /\ DOMAIN feed[p] = 1..Len(feed[p])
      /\ \A p \in Topics : Len(feed'[p]) \in Nat
      /\ \A p \in Topics : DOMAIN feed'[p] = 1..Len(feed'[p])
  <2>1. \A t \in Tables : feed'[t] \in Seq(EventRecs)
    BY DEF TopicsGrow, IsFeed
  <2>2. feed'["relations"] \in Seq(RelationRecs)
    BY DEF TopicsGrow, IsFeed
  <2>3. \A t \in Tables : Len(feed'[t]) \in Nat /\ DOMAIN feed'[t] = 1..Len(feed'[t])
    BY <2>1
  <2>4. /\ Len(feed'["relations"]) \in Nat
        /\ DOMAIN feed'["relations"] = 1..Len(feed'["relations"])
    BY <2>2
  <2>5. QED
    BY <2>3, <2>4, FeedType DEF Topics
<1>2. \A p \in Topics : \A n \in Nat : n <= Len(feed[p]) => n <= Len(feed'[p])
  BY <1>1 DEF TopicsGrow
<1>3. \A p \in Topics : DOMAIN feed[p] \subseteq DOMAIN feed'[p]
  BY <1>1, <1>2
<1>4. /\ \A p \in Topics : pos[p] <= Len(feed'[p])
      /\ \A p \in Topics : committed[p] <= Len(feed'[p])
  BY <1>2 DEF TypeOK
<1>5. hand = Idle \/ (hand \in Topics \X Nat /\ hand[2] \in DOMAIN feed'[hand[1]])
  BY <1>3 DEF TypeOK
<1>6. QED
  BY <1>4, <1>5 DEF TypeOK, TopicsGrow

\* An event that is new to a topic has not been polled; the others are what
\* they were.
LEMMA GrowthConverges ==
  ASSUME TypeOK, TypeOK', TopicsGrow, SinkInv
  PROVE  SinkInv'
<1>1. SUFFICES ASSUME NEW t \in Tables, NEW k \in Keys
               PROVE  IF On(t, k)' = {} THEN table'[t][k] = NoRow
                      ELSE LastOn(t, k)' <= pos'[t] => Rests(t, k)' \/ InHand(t, k)'
  BY DEF SinkInv, Converging, PollsInOrder, TopicsGrow
<1>2. /\ t \in Topics /\ Len(feed[t]) \in Nat /\ DOMAIN feed[t] = 1..Len(feed[t])
      /\ pos[t] \in Nat /\ pos[t] <= Len(feed[t])
  BY FeedType DEF TypeOK
<1>3. Len(feed'[t]) \in Nat /\ DOMAIN feed'[t] = 1..Len(feed'[t])
  <2>1. feed'[t] \in Seq(EventRecs)
    BY DEF TopicsGrow, IsFeed
  <2>2. QED
    BY <2>1
<1>4. /\ Len(feed[t]) <= Len(feed'[t])
      /\ \A n \in DOMAIN feed[t] : feed'[t][n] = feed[t][n]
  BY <1>2 DEF TopicsGrow
<1>5. DOMAIN feed[t] \subseteq DOMAIN feed'[t]
  BY <1>2, <1>3, <1>4
<1>6. /\ On(t, k) \subseteq On(t, k)'
      /\ \A n \in On(t, k)' : n \in On(t, k) \/ n > Len(feed[t])
  <2>1. On(t, k) \subseteq On(t, k)'
    BY <1>4, <1>5 DEF On
  <2>2. ASSUME NEW n \in On(t, k)', ~(n > Len(feed[t])) PROVE n \in On(t, k)
    <3>1. n \in DOMAIN feed'[t] /\ k \in {feed'[t][n].key, feed'[t][n].old}
      BY <2>2 DEF On
    <3>2. n \in DOMAIN feed[t]
      BY <1>2, <1>3, <2>2, <3>1
    <3>3. QED
      BY <1>4, <3>1, <3>2 DEF On
  <2>3. QED
    BY <2>1, <2>2
<1>7. /\ UNCHANGED <<platform, phase, pos, hand, table, missed>>
  BY DEF TopicsGrow
<1>8. CASE On(t, k)' = {}
  BY <1>1, <1>6, <1>7, <1>8 DEF SinkInv, Converging
<1>9. CASE On(t, k)' # {} /\ On(t, k)' = On(t, k)
  <2>1. LastOn(t, k)' = LastOn(t, k)
    BY <1>9 DEF LastOn
  <2>2. LastOn(t, k) \in DOMAIN feed[t]
    BY <1>9, LastType
  <2>3. feed'[t][LastOn(t, k)] = feed[t][LastOn(t, k)]
    BY <1>4, <2>2
  <2>4. Source(t, k)' = Source(t, k) /\ MovedAway(t, k)' = MovedAway(t, k)
    BY <1>7, <2>1, <2>3 DEF Source, MovedAway, Is
  <2>5. QED
    BY <1>7, <1>9, <2>1, <2>4 DEF SinkInv, Converging, Rests, InHand
<1>10. CASE On(t, k)' # On(t, k)
  <2>1. PICK n \in On(t, k)' : n > Len(feed[t])
    BY <1>6, <1>10
  <2>2. On(t, k)' \in SUBSET (0..Len(feed'[t])) /\ On(t, k)' # {}
    BY <1>3, <2>1 DEF On
  <2>3. \E m \in On(t, k)' : \A x \in On(t, k)' : x <= m
    BY <1>3, <2>2, GreatestExists
  <2>4. LastOn(t, k)' \in On(t, k)' /\ n <= LastOn(t, k)'
    BY <2>1, <2>3 DEF LastOn
  <2>5. LastOn(t, k)' \in Nat /\ n \in Nat
    BY <1>3, <2>1, <2>2, <2>4
  <2>6. ~(LastOn(t, k)' <= pos[t])
    BY <1>2, <2>1, <2>4, <2>5
  <2>7. QED
    BY <1>7, <2>2, <2>6
<1>11. QED
  BY <1>8, <1>9, <1>10

LEMMA GrowthKeepsValues ==
  ASSUME TypeOK, TopicsGrow, ValueInv
  PROVE  ValueInv'
<1>1. UNCHANGED <<phase, pos, table, crashes>>
  BY DEF TopicsGrow
<1>2. ASSUME NEW t \in Tables, NEW k \in Keys, NEW n \in On(t, k)
      PROVE  n \in On(t, k)' /\ feed'[t][n] = feed[t][n]
  <2>1. /\ t \in Topics /\ n \in DOMAIN feed[t] /\ n \in Nat
        /\ DOMAIN feed[t] = 1..Len(feed[t]) /\ Len(feed[t]) \in Nat
    BY FeedType DEF On
  <2>2. feed'[t] \in Seq(EventRecs) /\ Len(feed[t]) <= Len(feed'[t])
        /\ feed'[t][n] = feed[t][n]
    BY <2>1 DEF TopicsGrow, IsFeed
  <2>3. n \in DOMAIN feed'[t]
    BY <2>1, <2>2
  <2>4. QED
    BY <2>2, <2>3 DEF On
<1>3. QED
  BY <1>1, <1>2 DEF ValueInv, Polled

==============================================================================
